------------------------ MODULE TopologyService_proof ------------------------
(***************************************************************************)
(* Proofs about TopologyService, for any set of threads, any number of     *)
(* backends and any number of calls, and about ImpactSearch, for any       *)
(* graphs, any depth and any number of rebuilds.                           *)
(***************************************************************************)
EXTENDS TopologyService, ImpactSearch, FiniteSetTheorems, SequenceTheorems, TLAPS

USE TopologyAssumption

(* A thread that is not idle is in a call, which is about one of the two topologies. *)
LEMMA InACall ==
    ASSUME TypeOK, NEW t \in Threads, pc[t] # "idle"
    PROVE /\ call[t] \in Calls /\ kindOf(t) \in Kinds
          /\ FirstRead(t) \in Kinds /\ SecondRead(t) \in Kinds
<1>1. call[t] \in Calls
  BY DEF TypeOK
<1>2. call[t].kind \in Kinds
  BY <1>1 DEF Calls, Kinds
<1>3. {"service", "network"} = Kinds
  BY DEF Kinds
<1> QED
  BY <1>1, <1>2, <1>3 DEF kindOf, FirstRead, SecondRead

(* Every variable keeps its type. *)
THEOREM TypeCorrect == Spec => []TypeOK
<1>1. Init => TypeOK
  <2> SUFFICES ASSUME Init PROVE TypeOK
    OBVIOUS
  <2>1. graph \in [Kinds -> [version : Nat, empty : BOOLEAN]]
    BY DEF Init
  <2>2. seen \in [Threads -> Reads] /\ stats \in Reads \union {None} /\ sources \in [Threads -> SUBSET Nat]
    BY DEF Init, Nothing, Reads
  <2>3. found \in [Threads -> BOOLEAN] /\ failed \in [Threads -> BOOLEAN]
    BY DEF Init
  <2> QED
    BY <2>1, <2>2, <2>3 DEF Init, TypeOK, Labels
<1>2. TypeOK /\ [Next]_vars => TypeOK'
  <2> SUFFICES ASSUME TypeOK, [Next]_vars PROVE TypeOK'
    OBVIOUS
  <2> USE DEF TypeOK, Goto, At, Step, mu, caches, locals, history, Labels
  <2>1. ASSUME NEW t \in Threads, NEW c \in Calls, Begin(t, c) PROVE TypeOK'
    <3>1. c # None
      OBVIOUS
    <3>2. call' = [call EXCEPT ![t] = c]
      BY <2>1 DEF Begin
    <3>3. \E l \in {"lock", "cache", "empty"} : pc' = [pc EXCEPT ![t] = l]
      BY <2>1 DEF Begin
    <3>4. UNCHANGED <<mu, caches, asked, found, failed, seen, sources, answer>>
      BY <2>1 DEF Begin
    <3>5. pc' \in [Threads -> Labels] /\ call' \in [Threads -> Calls \union {None}]
      BY <3>2, <3>3
    <3>6. \A u \in Threads : (call[u] = None <=> pc[u] = "idle")'
      BY <3>1, <3>2, <3>3
    <3>7. calls' \in Nat
      BY <2>1 DEF Begin
    <3> QED
      BY <3>4, <3>5, <3>6, <3>7
  <2>2. ASSUME NEW t \in Threads, Lock(t) PROVE TypeOK'
    BY <2>2 DEF Lock
  <2>3. ASSUME NEW t \in Threads, Discover(t) PROVE TypeOK'
    BY <2>3 DEF Discover
  <2>4. ASSUME NEW t \in Threads, Rebuild(t) PROVE TypeOK'
    <3> DEFINE new == [version |-> graph[kindOf(t)].version + 1, empty |-> ~found[t]]
    <3>1. graph' = [graph EXCEPT ![kindOf(t)] = new]
      BY <2>4 DEF Rebuild
    <3>2. kindOf(t) \in Kinds
      BY <2>4, InACall DEF Rebuild
    <3>3. graph[kindOf(t)].version + 1 \in Nat
      BY <3>2
    <3>4. (~found[t]) \in BOOLEAN
      OBVIOUS
    <3>5. new \in [version : Nat, empty : BOOLEAN]
      BY <3>3, <3>4
    <3> HIDE DEF new
    <3>6. graph' \in [Kinds -> [version : Nat, empty : BOOLEAN]]
      BY <3>1, <3>5
    <3> QED
      BY <2>4, <3>6 DEF Rebuild
  <2>5. ASSUME NEW t \in Threads, Store(t) PROVE TypeOK'
    BY <2>5 DEF Store
  <2>6. ASSUME NEW t \in Threads, SetLocal(t) PROVE TypeOK'
    <3> kindOf(t) \in Kinds
      BY <2>6, InACall DEF SetLocal
    <3> graph[kindOf(t)].version \in Nat
      OBVIOUS
    <3>1. local' \in [Kinds -> Nat \union {None}]
      BY <2>6 DEF SetLocal
    <3>2. setFailed' \in BOOLEAN
      BY <2>6 DEF SetLocal
    <3> QED
      BY <2>6, <3>1, <3>2 DEF SetLocal
  <2>7. ASSUME NEW t \in Threads, DeleteStats(t) PROVE TypeOK'
    BY <2>7 DEF DeleteStats
  <2>8. ASSUME NEW t \in Threads, Unlock(t) PROVE TypeOK'
    BY <2>8 DEF Unlock
  <2>9. ASSUME NEW t \in Threads, CacheHit(t) PROVE TypeOK'
    <3> kindOf(t) \in Kinds
      BY <2>9, InACall DEF CacheHit
    <3>1. answer' \in [Threads -> [Kinds -> Nat]]
      <4>1. CASE UNCHANGED answer
        BY <4>1
      <4>2. CASE local[kindOf(t)] # None /\ Answered(t, local[kindOf(t)])
        <5>1. local[kindOf(t)] \in Nat
          BY <4>2
        <5> QED
          BY <4>2, <5>1 DEF Answered
      <4> QED
        BY <2>9, <4>1, <4>2 DEF CacheHit
    <3>2. seen' \in [Threads -> Reads]
      BY <2>9 DEF CacheHit, Return, Nothing, Reads
    <3> QED
      BY <2>9, <3>1, <3>2 DEF CacheHit, Return
  <2>10. ASSUME NEW t \in Threads, CacheMiss(t) PROVE TypeOK'
    BY <2>10 DEF CacheMiss
  <2>11. ASSUME NEW t \in Threads, CheckEmpty(t) PROVE TypeOK'
    BY <2>11 DEF CheckEmpty
  <2>12. ASSUME NEW t \in Threads, RLock(t) PROVE TypeOK'
    BY <2>12 DEF RLock
  <2>13. ASSUME NEW t \in Threads, ReadNodes(t) PROVE TypeOK'
    <3> FirstRead(t) \in Kinds
      BY <2>13, InACall DEF ReadNodes
    <3> graph[FirstRead(t)].version \in Nat
      OBVIOUS
    <3>1. seen' \in [Threads -> Reads]
      BY <2>13 DEF ReadNodes, Reads
    <3> QED
      BY <2>13, <3>1 DEF ReadNodes
  <2>14. ASSUME NEW t \in Threads, ReadEdges(t) PROVE TypeOK'
    <3> SecondRead(t) \in Kinds
      BY <2>14, InACall DEF ReadEdges
    <3> graph[SecondRead(t)].version \in Nat
      OBVIOUS
    <3>1. seen' \in [Threads -> Reads]
      BY <2>14 DEF ReadEdges, Reads
    <3> QED
      BY <2>14, <3>1 DEF ReadEdges
  <2>15. ASSUME NEW t \in Threads, SetStats(t) PROVE TypeOK'
    BY <2>15 DEF SetStats
  <2>16. ASSUME NEW t \in Threads, RUnlock(t) PROVE TypeOK'
    <3> kindOf(t) \in Kinds
      BY <2>16, InACall DEF RUnlock
    <3> seen[t].nodes \in Nat
      BY DEF Reads
    <3>1. answer' \in [Threads -> [Kinds -> Nat]]
      <4>1. CASE UNCHANGED answer
        BY <4>1
      <4>2. CASE Answered(t, seen[t].nodes)
        BY <4>2 DEF Answered
      <4> QED
        BY <2>16, <4>1, <4>2 DEF RUnlock
    <3>2. seen' \in [Threads -> Reads]
      BY <2>16 DEF RUnlock, Return, Nothing, Reads
    <3>3. CASE Return(t)
      BY <2>16, <3>1, <3>2, <3>3 DEF RUnlock, Return
    <3>4. CASE Goto(t, "filter") /\ UNCHANGED <<locals, history>>
      BY <2>16, <3>4 DEF RUnlock
    <3> QED
      BY <2>16, <3>3, <3>4 DEF RUnlock
  <2>19. ASSUME NEW t \in Threads, LookUpSource(t) PROVE TypeOK'
    <3> kindOf(t) \in Kinds
      BY <2>19, InACall DEF LookUpSource
    <3> graph[kindOf(t)].version \in Nat
      OBVIOUS
    <3>1. sources' \in [Threads -> SUBSET Nat]
      BY <2>19 DEF LookUpSource
    <3> QED
      BY <2>19, <3>1 DEF LookUpSource
  <2>20. ASSUME NEW t \in Threads, AnswerFiltered(t) PROVE TypeOK'
    <3> kindOf(t) \in Kinds
      BY <2>20, InACall DEF AnswerFiltered
    <3> seen[t].nodes \in Nat
      BY DEF Reads
    <3>1. answer' \in [Threads -> [Kinds -> Nat]]
      BY <2>20 DEF AnswerFiltered, Answered
    <3>2. seen' \in [Threads -> Reads]
      BY <2>20 DEF AnswerFiltered, Return, Nothing, Reads
    <3> QED
      BY <2>20, <3>1, <3>2 DEF AnswerFiltered, Return
  <2>17. ASSUME Expire PROVE TypeOK'
    BY <2>17 DEF Expire
  <2>18. CASE UNCHANGED vars
    BY <2>18 DEF vars
  <2> QED
    BY <2>1, <2>2, <2>3, <2>4, <2>5, <2>6, <2>7, <2>8, <2>9, <2>10, <2>11, <2>12, <2>13,
       <2>14, <2>15, <2>16, <2>17, <2>18, <2>19, <2>20 DEF Next, Refresh, Query
<1> QED
  BY <1>1, <1>2, PTL DEF Spec

-----------------------------------------------------------------------------
(* A step of t leaves the other threads where they are. *)
LEMMA OthersStay ==
    ASSUME TypeOK, NEW t \in Threads, Refresh(t) \/ Query(t) \/ \E c \in Calls : Begin(t, c),
           NEW u \in Threads, u # t
    PROVE pc'[u] = pc[u] /\ call'[u] = call[u] /\ seen'[u] = seen[u] /\ sources'[u] = sources[u]
<1> USE DEF Goto, At, Step, locals
<1>1. CASE Lock(t)
  BY <1>1 DEF TypeOK, Lock
<1>2. CASE Discover(t)
  BY <1>2 DEF TypeOK, Discover
<1>3. CASE Rebuild(t)
  BY <1>3 DEF TypeOK, Rebuild
<1>4. CASE Store(t)
  BY <1>4 DEF TypeOK, Store
<1>5. CASE SetLocal(t)
  BY <1>5 DEF TypeOK, SetLocal
<1>6. CASE DeleteStats(t)
  BY <1>6 DEF TypeOK, DeleteStats
<1>7. CASE Unlock(t)
  BY <1>7 DEF TypeOK, Unlock
<1>8. CASE CacheHit(t)
  BY <1>8 DEF TypeOK, CacheHit, Return
<1>9. CASE CacheMiss(t)
  BY <1>9 DEF TypeOK, CacheMiss
<1>10. CASE CheckEmpty(t)
  BY <1>10 DEF TypeOK, CheckEmpty
<1>11. CASE RLock(t)
  BY <1>11 DEF TypeOK, RLock
<1>12. CASE ReadNodes(t)
  BY <1>12 DEF TypeOK, ReadNodes
<1>13. CASE ReadEdges(t)
  BY <1>13 DEF TypeOK, ReadEdges
<1>14. CASE SetStats(t)
  BY <1>14 DEF TypeOK, SetStats
<1>15. CASE RUnlock(t)
  BY <1>15 DEF TypeOK, RUnlock, Return
<1>16. ASSUME NEW c \in Calls, Begin(t, c)
       PROVE pc'[u] = pc[u] /\ call'[u] = call[u] /\ seen'[u] = seen[u] /\ sources'[u] = sources[u]
  BY <1>16 DEF TypeOK, Begin
<1>17. CASE LookUpSource(t)
  BY <1>17 DEF TypeOK, LookUpSource
<1>18. CASE AnswerFiltered(t)
  BY <1>18 DEF TypeOK, AnswerFiltered, Return
<1> QED
  BY <1>1, <1>2, <1>3, <1>4, <1>5, <1>6, <1>7, <1>8, <1>9, <1>10, <1>11, <1>12, <1>13,
     <1>14, <1>15, <1>16, <1>17, <1>18 DEF Refresh, Query

(* s.mu excludes a writer from everyone else, and only the threads in the sections *)
(* that the code puts under it hold it.                                            *)
LEMMA LockStep ==
    ASSUME TypeOK, LockHeld, [Next]_vars
    PROVE LockHeld'
<1> USE DEF Goto, At, Step, mu
<1>1. ASSUME NEW t \in Threads, Refresh(t) \/ Query(t) \/ \E c \in Calls : Begin(t, c)
      PROVE LockHeld'
  <2> DEFINE Held(u) == /\ writer = u <=> pc[u] \in Writing
                        /\ u \in readers <=> pc[u] \in Reading
  <2>1. \A u \in Threads : u # t => pc'[u] = pc[u]
    BY <1>1, OthersStay
  <2>2. \A u \in Threads : Held(u)
    BY DEF LockHeld
  <2>3. t # None
    OBVIOUS
  <2> USE DEF Writing, Reading
  <2>4. CASE Lock(t)
    BY <2>4, <2>1, <2>2, <2>3 DEF Lock, TypeOK, LockHeld
  <2>5. CASE Unlock(t)
    BY <2>5, <2>1, <2>2, <2>3 DEF Unlock, TypeOK, LockHeld
  <2>6. CASE RLock(t)
    BY <2>6, <2>1, <2>2, <2>3 DEF RLock, TypeOK, LockHeld
  <2>7. CASE RUnlock(t)
    BY <2>7, <2>1, <2>2, <2>3 DEF RUnlock, Return, TypeOK, LockHeld
  <2>8. CASE UNCHANGED <<writer, readers>> /\ (pc'[t] \in Writing <=> pc[t] \in Writing)
             /\ (pc'[t] \in Reading <=> pc[t] \in Reading)
    BY <2>8, <2>1, <2>2 DEF LockHeld
  <2>9. CASE Discover(t) \/ Rebuild(t) \/ Store(t) \/ SetLocal(t) \/ DeleteStats(t)
    BY <2>9, <2>8 DEF TypeOK, Discover, Rebuild, Store, SetLocal, DeleteStats
  <2>10. CASE CacheHit(t) \/ CacheMiss(t) \/ CheckEmpty(t)
    BY <2>10, <2>8 DEF TypeOK, CacheHit, CacheMiss, CheckEmpty, Return
  <2>11. CASE ReadNodes(t) \/ ReadEdges(t) \/ SetStats(t)
    BY <2>11, <2>8 DEF TypeOK, ReadNodes, ReadEdges, SetStats
  <2>13. CASE LookUpSource(t) \/ AnswerFiltered(t)
    BY <2>13, <2>8 DEF TypeOK, LookUpSource, AnswerFiltered, Return
  <2>12. ASSUME NEW c \in Calls, Begin(t, c) PROVE LockHeld'
    BY <2>12, <2>8 DEF TypeOK, Begin
  <2> QED
    BY <1>1, <2>4, <2>5, <2>6, <2>7, <2>9, <2>10, <2>11, <2>12, <2>13 DEF Refresh, Query
<1>2. CASE Expire
  BY <1>2 DEF Expire, LockHeld
<1>3. CASE UNCHANGED vars
  BY <1>3 DEF vars, LockHeld
<1> QED
  BY <1>1, <1>2, <1>3 DEF Next

(* What a query reads under s.mu stays what the graphs are until it releases it. *)
LEMMA ReadsStep ==
    ASSUME TypeOK, LockHeld, ReadsHold, [Next]_vars
    PROVE ReadsHold'
<1> USE DEF Goto, At, Step, mu, caches, locals, kindOf
<1> DEFINE Held(u) ==
      /\ At(u, "setStats") => call[u].op = "stats"
      /\ pc[u] \in {"edges", "setStats", "runlock"} => seen[u].nodes = graph[FirstRead(u)].version
      /\ pc[u] \in {"setStats", "runlock"} => seen[u].edges = graph[SecondRead(u)].version
<1>1. \A u \in Threads : Held(u)
  BY DEF ReadsHold
<1>2. ASSUME NEW t \in Threads, Refresh(t) \/ Query(t) \/ \E c \in Calls : Begin(t, c),
             NEW u \in Threads
      PROVE Held(u)'
  <2>1. CASE Rebuild(t)
    <3>1. writer = t /\ pc[u] \notin Reading
      BY <2>1 DEF Rebuild, LockHeld, Writing
    <3>2. pc'[u] \notin Reading
      BY <2>1, <3>1 DEF Rebuild, Reading, TypeOK
    <3> QED
      BY <3>2 DEF Reading
  <2>2. ~Rebuild(t) => graph' = graph
    BY <1>2 DEF Refresh, Query, Lock, Discover, Store, SetLocal, DeleteStats, Unlock, CacheHit,
           CacheMiss, CheckEmpty, RLock, ReadNodes, ReadEdges, SetStats, RUnlock, LookUpSource,
           AnswerFiltered, Begin
  <2>3. CASE u # t /\ ~Rebuild(t)
    BY <2>2, <2>3, <1>1, <1>2, OthersStay DEF FirstRead, SecondRead
  <2>4. ASSUME u = t, pc'[t] \notin {"edges", "setStats", "runlock"} PROVE Held(u)'
    BY <2>4
  <2>5. ASSUME u = t, ReadNodes(t) PROVE Held(u)'
    <3>1. pc'[t] = "edges" /\ seen'[t].nodes = graph[FirstRead(t)].version
      BY <2>5 DEF ReadNodes, TypeOK, Reads
    <3> QED
      BY <2>5, <3>1 DEF ReadNodes, FirstRead
  <2>6. ASSUME u = t, ReadEdges(t) PROVE Held(u)'
    <3>1. seen'[t].edges = graph[SecondRead(t)].version /\ seen'[t].nodes = seen[t].nodes
      BY <2>6 DEF ReadEdges, TypeOK, Reads
    <3>2. seen[t].nodes = graph[FirstRead(t)].version
      BY <2>6, <1>1 DEF ReadEdges
    <3>3. pc'[t] = IF call[t].op = "stats" THEN "setStats" ELSE "runlock"
      BY <2>6 DEF ReadEdges, TypeOK
    <3> QED
      BY <2>6, <3>1, <3>2, <3>3 DEF ReadEdges, FirstRead, SecondRead
  <2>7. ASSUME u = t, SetStats(t) PROVE Held(u)'
    BY <2>7, <1>1 DEF SetStats, TypeOK, FirstRead, SecondRead
  <2>8. ASSUME ~ReadNodes(t), ~ReadEdges(t), ~SetStats(t)
        PROVE pc'[t] \notin {"edges", "setStats", "runlock"}
    BY <1>2, <2>8 DEF Refresh, Query, Lock, Discover, Rebuild, Store, SetLocal, DeleteStats, Unlock,
       CacheHit, CacheMiss, CheckEmpty, RLock, RUnlock, LookUpSource, AnswerFiltered, Return, Begin, TypeOK
  <2> QED
    BY <2>1, <2>3, <2>4, <2>5, <2>6, <2>7, <2>8
<1>3. CASE Expire
  BY <1>3, <1>1 DEF Expire, ReadsHold, FirstRead, SecondRead
<1>4. CASE UNCHANGED vars
  BY <1>4, <1>1 DEF vars, ReadsHold, FirstRead, SecondRead
<1> QED
  BY <1>2, <1>3, <1>4 DEF Next, ReadsHold

(* What a query looks up after it has released s.mu is not older than what it has read. *)
LEMMA FilterStep ==
    ASSUME TypeOK, ReadsHold, FilterHolds, [Next]_vars
    PROVE FilterHolds'
<1> USE DEF Goto, At, Step, mu, caches, locals, kindOf
<1> DEFINE Held(u) == IF At(u, "filter")
                      THEN /\ call[u].op = "namespaced"
                           /\ seen[u].nodes = seen[u].edges
                           /\ seen[u].nodes =< graph[kindOf(u)].version
                           /\ sources[u] \subseteq seen[u].nodes .. graph[kindOf(u)].version
                      ELSE sources[u] = {}
<1>1. \A u \in Threads : Held(u)
  BY DEF FilterHolds
<1>2. ASSUME NEW t \in Threads, Refresh(t) \/ Query(t) \/ \E c \in Calls : Begin(t, c),
             NEW u \in Threads
      PROVE Held(u)'
  <2>1. CASE u # t
    <3>1. pc'[u] = pc[u] /\ call'[u] = call[u] /\ seen'[u] = seen[u] /\ sources'[u] = sources[u]
      BY <1>2, <2>1, OthersStay
    <3>2. CASE At(u, "filter")
      <4>1. call[u].kind \in Kinds /\ seen[u].nodes \in Nat
        BY <3>2, InACall DEF TypeOK, Reads
      <4>2. graph[call[u].kind].version \in Nat
        BY <4>1 DEF TypeOK
      <4>3. /\ graph'[call[u].kind].version \in Nat
            /\ graph[call[u].kind].version =< graph'[call[u].kind].version
        <5>1. CASE Rebuild(t)
          BY <4>1, <4>2, <5>1 DEF Rebuild, TypeOK
        <5>2. ~Rebuild(t) => graph' = graph
          BY <1>2 DEF Refresh, Query, Lock, Discover, Store, SetLocal, DeleteStats, Unlock, CacheHit,
             CacheMiss, CheckEmpty, RLock, ReadNodes, ReadEdges, SetStats, RUnlock, LookUpSource,
             AnswerFiltered, Begin
        <5> QED
          BY <4>2, <5>1, <5>2
      <4> QED
        BY <1>1, <3>1, <3>2, <4>1, <4>2, <4>3
    <3>3. CASE ~At(u, "filter")
      BY <1>1, <3>1, <3>3
    <3> QED
      BY <3>2, <3>3
  <2>2. CASE u = t /\ LookUpSource(t)
    <3>1. /\ pc[t] = "filter" /\ pc' = pc /\ UNCHANGED <<call, seen, graph>>
          /\ sources'[t] = sources[t] \union {graph[call[t].kind].version}
      BY <2>2 DEF LookUpSource, TypeOK
    <3>2. call[t].kind \in Kinds /\ seen[t].nodes \in Nat
      BY <3>1, InACall DEF TypeOK, Reads
    <3>3. graph[call[t].kind].version \in Nat
      BY <3>2 DEF TypeOK
    <3> QED
      BY <1>1, <2>2, <3>1, <3>2, <3>3
  <2>3. CASE u = t /\ RUnlock(t) /\ call[t].op = "namespaced"
    <3>1. pc[t] = "runlock" /\ pc'[t] = "filter" /\ UNCHANGED <<call, seen, sources, graph>>
      BY <2>3 DEF RUnlock, TypeOK
    <3>2. /\ sources[t] = {} /\ call[t].kind \in Kinds
      BY <1>1, <3>1, InACall
    <3>3. seen[t].nodes = graph[call[t].kind].version /\ seen[t].edges = graph[call[t].kind].version
      BY <2>3, <3>1 DEF ReadsHold, FirstRead, SecondRead
    <3>4. graph[call[t].kind].version \in Nat
      BY <3>2 DEF TypeOK
    <3> QED
      BY <2>3, <3>1, <3>2, <3>3, <3>4
  <2>4. ASSUME pc'[t] # "filter", sources'[t] \in {{}, sources[t]}, pc[t] = "filter" => sources'[t] = {}
        PROVE u = t => Held(u)'
    BY <1>1, <2>4
  <2>5. CASE u = t /\ (CacheHit(t) \/ AnswerFiltered(t) \/ (RUnlock(t) /\ call[t].op # "namespaced"))
    <3>1. Return(t)
      BY <2>5 DEF CacheHit, AnswerFiltered, RUnlock
    <3> QED
      BY <2>4, <2>5, <3>1 DEF Return, TypeOK
  <2>6. CASE u = t /\ (CacheMiss(t) \/ CheckEmpty(t) \/ RLock(t) \/ ReadNodes(t) \/ ReadEdges(t) \/ SetStats(t))
    BY <2>4, <2>6 DEF CacheMiss, CheckEmpty, RLock, ReadNodes, ReadEdges, SetStats, TypeOK
  <2>7. CASE u = t /\ Refresh(t)
    BY <2>4, <2>7 DEF Refresh, Lock, Discover, Rebuild, Store, SetLocal, DeleteStats, Unlock, TypeOK
  <2>8. ASSUME NEW c \in Calls, Begin(t, c) PROVE u = t => Held(u)'
    BY <2>4, <2>8 DEF Begin, TypeOK
  <2> QED
    BY <1>2, <2>1, <2>2, <2>3, <2>5, <2>6, <2>7, <2>8 DEF Query
<1>3. CASE Expire
  BY <1>1, <1>3 DEF Expire, FilterHolds
<1>4. CASE UNCHANGED vars
  BY <1>1, <1>4 DEF vars, FilterHolds
<1> QED
  BY <1>2, <1>3, <1>4 DEF Next, FilterHolds

(* Between Rebuild and the deletion of the cached statistics a refresh holds s.mu: *)
(* nobody else can cache any, and what it deletes is all there is.                 *)
LEMMA StatsStep ==
    ASSUME TypeOK, LockHeld, ReadsHold, StatsHold, [Next]_vars
    PROVE StatsHold'
<1> USE DEF Goto, At, Step, mu, caches, locals
<1> DEFINE Quiet == \A u \in Threads : pc[u] \notin {"store", "setLocal", "delStats"}
<1>1. Quiet => stats \in {None, Current}
  BY DEF StatsHold
<1> SUFFICES ASSUME Quiet' PROVE (stats \in {None, Current})'
  BY DEF StatsHold
<1>2. ASSUME NEW t \in Threads, Refresh(t) \/ Query(t) \/ \E c \in Calls : Begin(t, c)
      PROVE (stats \in {None, Current})'
  <2>1. CASE Rebuild(t) \/ Store(t) \/ SetLocal(t)
    BY <2>1 DEF Rebuild, Store, SetLocal, TypeOK
  <2>2. CASE DeleteStats(t)
    BY <2>2 DEF DeleteStats
  <2>3. CASE SetStats(t)
    <3>1. call[t].op = "stats" /\ seen[t] \in Reads
      BY <2>3 DEF SetStats, ReadsHold, TypeOK
    <3>2. seen[t].nodes = graph["service"].version /\ seen[t].edges = graph["network"].version
      BY <2>3, <3>1 DEF SetStats, ReadsHold, FirstRead, SecondRead
    <3>3. seen[t] = [nodes |-> seen[t].nodes, edges |-> seen[t].edges]
      BY <3>1 DEF Reads
    <3>4. stats' = seen[t] /\ graph' = graph
      BY <2>3 DEF SetStats
    <3> QED
      BY <3>2, <3>3, <3>4 DEF Current
  <2>4. ASSUME UNCHANGED <<graph, stats>>, pc[t] \notin {"store", "setLocal", "delStats"}
        PROVE (stats \in {None, Current})'
    <3>1. Quiet
      BY <1>2, <2>4, OthersStay
    <3> QED
      BY <1>1, <2>4, <3>1 DEF Current
  <2>5. CASE Lock(t) \/ Discover(t) \/ Unlock(t)
    BY <2>4, <2>5 DEF Lock, Discover, Unlock
  <2>6. CASE CacheHit(t) \/ CacheMiss(t) \/ CheckEmpty(t) \/ RLock(t)
    BY <2>4, <2>6 DEF CacheHit, CacheMiss, CheckEmpty, RLock
  <2>7. CASE ReadNodes(t) \/ ReadEdges(t) \/ RUnlock(t) \/ LookUpSource(t) \/ AnswerFiltered(t)
    BY <2>4, <2>7 DEF ReadNodes, ReadEdges, RUnlock, LookUpSource, AnswerFiltered
  <2>8. ASSUME NEW c \in Calls, Begin(t, c) PROVE (stats \in {None, Current})'
    BY <2>4, <2>8 DEF Begin
  <2> QED
    BY <1>2, <2>1, <2>2, <2>3, <2>5, <2>6, <2>7, <2>8 DEF Refresh, Query
<1>3. CASE Expire
  BY <1>1, <1>3 DEF Expire, Current
<1>4. CASE UNCHANGED vars
  BY <1>1, <1>4 DEF vars, Current
<1> QED
  BY <1>2, <1>3, <1>4 DEF Next

(* Only Rebuild puts a graph ahead of its copies, and the same thread replaces them. *)
LEMMA CopiesStep ==
    ASSUME TypeOK, CopiesHold, [Next]_vars
    PROVE CopiesHold'
<1> USE DEF Goto, At, Step, mu, caches, locals, kindOf
<1> DEFINE SentHolds(k) == \/ sent[k] = graph[k].version
                           \/ \E u \in Threads : At(u, "store") /\ kindOf(u) = k
           LocalHolds(k) == \/ setFailed
                            \/ local[k] \in {None, graph[k].version}
                            \/ \E u \in Threads : pc[u] \in {"store", "setLocal"} /\ kindOf(u) = k
<1>1. \A k \in Kinds : SentHolds(k) /\ LocalHolds(k)
  BY DEF CopiesHold
<1>2. ASSUME NEW t \in Threads, Refresh(t) \/ Query(t) \/ \E c \in Calls : Begin(t, c),
             NEW k \in Kinds
      PROVE SentHolds(k)' /\ LocalHolds(k)'
  <2>1. \A u \in Threads : u # t => pc'[u] = pc[u] /\ call'[u] = call[u]
    BY <1>2, OthersStay
  <2>2. CASE Rebuild(t)
    <3>1. pc'[t] = "store" /\ call'[t] = call[t] /\ pc[t] = "discover"
      BY <2>2 DEF Rebuild, TypeOK
    <3>2. UNCHANGED <<sent, local, setFailed>>
      BY <2>2 DEF Rebuild
    <3>3. CASE call[t].kind = k
      BY <3>1, <3>3
    <3>4. CASE call[t].kind # k
      <4>1. graph'[k] = graph[k]
        BY <2>2, <3>4 DEF Rebuild, TypeOK
      <4> QED
        BY <1>1, <2>1, <3>1, <3>2, <4>1
    <3> QED
      BY <3>3, <3>4
  <2>3. CASE Store(t)
    <3>1. pc'[t] = "setLocal" /\ pc[t] = "store" /\ UNCHANGED <<call, graph, local, setFailed>>
      BY <2>3 DEF Store, TypeOK
    <3>2. LocalHolds(k)'
      BY <1>1, <2>1, <3>1
    <3>3. sent'[k] = IF call[t].kind = k THEN graph[k].version ELSE sent[k]
      BY <2>3 DEF Store, TypeOK
    <3> QED
      BY <1>1, <2>1, <3>1, <3>2, <3>3
  <2>4. CASE SetLocal(t)
    <3>1. pc'[t] = "delStats" /\ pc[t] = "setLocal" /\ UNCHANGED <<call, graph, sent>>
      BY <2>4 DEF SetLocal, TypeOK
    <3>2. SentHolds(k)'
      BY <1>1, <2>1, <3>1
    <3>3. CASE setFailed' = TRUE
      BY <3>2, <3>3
    <3>4. CASE local' = [local EXCEPT ![kindOf(t)] = graph[kindOf(t)].version] /\ UNCHANGED setFailed
      <4>1. local'[k] = IF call[t].kind = k THEN graph[k].version ELSE local[k]
        BY <3>4 DEF TypeOK
      <4> QED
        BY <1>1, <2>1, <3>1, <3>2, <3>4, <4>1
    <3> QED
      BY <2>4, <3>3, <3>4 DEF SetLocal
  <2>5. ASSUME UNCHANGED <<graph, sent, local, setFailed>>, pc[t] \notin {"store", "setLocal"}
        PROVE SentHolds(k)' /\ LocalHolds(k)'
    BY <1>1, <2>1, <2>5
  <2>6. CASE Lock(t) \/ Discover(t) \/ DeleteStats(t) \/ Unlock(t)
    BY <2>5, <2>6 DEF Lock, Discover, DeleteStats, Unlock
  <2>7. CASE CacheHit(t) \/ CacheMiss(t) \/ CheckEmpty(t) \/ RLock(t)
    BY <2>5, <2>7 DEF CacheHit, CacheMiss, CheckEmpty, RLock
  <2>8. CASE ReadNodes(t) \/ ReadEdges(t) \/ SetStats(t) \/ RUnlock(t) \/ LookUpSource(t) \/ AnswerFiltered(t)
    BY <2>5, <2>8 DEF ReadNodes, ReadEdges, SetStats, RUnlock, LookUpSource, AnswerFiltered
  <2>9. ASSUME NEW c \in Calls, Begin(t, c) PROVE SentHolds(k)' /\ LocalHolds(k)'
    BY <2>5, <2>9 DEF Begin
  <2> QED
    BY <1>2, <2>2, <2>3, <2>4, <2>6, <2>7, <2>8, <2>9 DEF Refresh, Query
<1>3. ASSUME Expire, NEW k \in Kinds PROVE SentHolds(k)' /\ LocalHolds(k)'
  <2>1. local'[k] \in {None, local[k]} /\ UNCHANGED <<graph, sent, setFailed, pc, call>>
    BY <1>3 DEF Expire, TypeOK
  <2> QED
    BY <1>1, <2>1
<1>4. CASE UNCHANGED vars
  BY <1>1, <1>4 DEF vars, CopiesHold
<1> QED
  BY <1>2, <1>3, <1>4 DEF Next, CopiesHold

(* The invariant of the specification. *)
Invariant == TypeOK /\ LockHeld /\ ReadsHold /\ FilterHolds /\ StatsHold /\ CopiesHold

(* The invariant holds in every state. *)
LEMMA InvariantHolds == Spec => []Invariant
<1>1. Init => LockHeld /\ ReadsHold /\ FilterHolds /\ StatsHold /\ CopiesHold
  <2> SUFFICES ASSUME Init PROVE LockHeld /\ ReadsHold /\ FilterHolds /\ StatsHold /\ CopiesHold
    OBVIOUS
  <2>1. LockHeld
    BY DEF Init, LockHeld, Writing, Reading
  <2>2. ReadsHold
    BY DEF Init, ReadsHold, At
  <2>5. FilterHolds
    BY DEF Init, FilterHolds, At
  <2>3. StatsHold
    BY DEF Init, StatsHold
  <2>4. CopiesHold
    BY DEF Init, CopiesHold
  <2> QED
    BY <2>1, <2>2, <2>3, <2>4, <2>5
<1>2. TypeOK /\ Invariant /\ [Next]_vars => (LockHeld /\ ReadsHold /\ FilterHolds /\ StatsHold /\ CopiesHold)'
  BY LockStep, ReadsStep, FilterStep, StatsStep, CopiesStep DEF Invariant
<1> QED
  BY <1>1, <1>2, TypeCorrect, PTL DEF Spec, Invariant

(* Statistics computed before a refresh are not found in the cache after it. *)
THEOREM StatsStayCurrent == Spec => []StatsAreCurrent
<1>1. Invariant => StatsAreCurrent
  <2> SUFFICES ASSUME Invariant, writer = None PROVE stats \in {None, Current}
    BY DEF StatsAreCurrent
  <2>1. \A t \in Threads : pc[t] \notin Writing
    BY DEF Invariant, LockHeld
  <2> QED
    BY <2>1 DEF Invariant, StatsHold, Writing
<1> QED
  BY <1>1, InvariantHolds, PTL

(* Outside a refresh, what was last sent to the database and to Redis, and what the *)
(* local cache holds, is what the graphs are.                                       *)
THEOREM CopiesStayCurrent == Spec => []CopiesAreCurrent
<1>1. Invariant => CopiesAreCurrent
  <2> SUFFICES ASSUME Invariant, writer = None, NEW k \in Kinds
               PROVE /\ sent[k] = graph[k].version
                     /\ setFailed \/ local[k] \in {None, graph[k].version}
    BY DEF CopiesAreCurrent
  <2>1. \A t \in Threads : pc[t] \notin Writing
    BY DEF Invariant, LockHeld
  <2> QED
    BY <2>1 DEF Invariant, CopiesHold, Writing, At
<1> QED
  BY <1>1, InvariantHolds, PTL

(* The nodes and the edges of an answer are of one refresh; only a refresh that comes  *)
(* between the unlock and the look-ups of a query with a namespace can tear its answer. *)
THEOREM TornByRefreshOnly == Spec => []TornOnlyByRefresh
<1>1. Invariant => TornOnlyByRefresh
  <2> SUFFICES ASSUME Invariant, NEW t \in Threads
               PROVE  /\ At(t, "runlock") /\ IsGet(t) => seen[t].nodes = seen[t].edges
                      /\ At(t, "filter") => /\ seen[t].nodes = seen[t].edges
                                            /\ sources[t] \subseteq seen[t].nodes .. graph[kindOf(t)].version
    BY DEF TornOnlyByRefresh
  <2>1. At(t, "runlock") /\ IsGet(t) => seen[t].nodes = seen[t].edges
    BY DEF Invariant, ReadsHold, At, IsGet, FirstRead, SecondRead
  <2> QED
    BY <2>1 DEF Invariant, FilterHolds
<1> QED
  BY <1>1, InvariantHolds, PTL

-----------------------------------------------------------------------------
(* The steps that answer. *)
Answers(t) == CacheHit(t) \/ RUnlock(t) \/ AnswerFiltered(t)

(* The topology a step of t answers with is not older than the last, nor newer than the *)
(* graph or the cached one.                                                             *)
LEMMA AnswerStep ==
    ASSUME Invariant, AnswersBehind, FilteredBehind, ~setFailed,
           NEW t \in Threads, Answers(t), answer' # answer
    PROVE LET k == kindOf(t)
              v == answer'[t][k]
          IN  /\ k \in Kinds /\ answer' = [answer EXCEPT ![t][k] = v] /\ v \in Nat
              /\ answer[t][k] =< v /\ v =< graph[k].version
              /\ local[k] # None => v =< local[k]
<1> USE DEF Invariant, At, Goto
<1> DEFINE k == kindOf(t)
<1>1. k \in Kinds
  BY InACall DEF Answers, CacheHit, RUnlock, AnswerFiltered
<1>2. /\ graph[k].version \in Nat /\ answer[t][k] \in Nat /\ seen[t].nodes \in Nat
      /\ answer[t][k] =< graph[k].version
      /\ local[k] # None => answer[t][k] =< local[k] /\ local[k] =< graph[k].version /\ local[k] \in Nat
  BY <1>1 DEF TypeOK, Reads, AnswersBehind
<1>3. ASSUME NEW v \in Nat, Answered(t, v), answer[t][k] =< v, v =< graph[k].version,
             local[k] # None => v =< local[k]
      PROVE  /\ answer' = [answer EXCEPT ![t][k] = answer'[t][k]] /\ answer'[t][k] \in Nat
             /\ answer[t][k] =< answer'[t][k] /\ answer'[t][k] =< graph[k].version
             /\ local[k] # None => answer'[t][k] =< local[k]
  <2>1. answer'[t][k] = v /\ answer' = [answer EXCEPT ![t][k] = v]
    BY <1>1, <1>3 DEF TypeOK, Answered
  <2> QED
    BY <1>3, <2>1
<1>4. CASE CacheHit(t)
  <2>1. local[k] # None /\ Answered(t, local[k])
    BY <1>4 DEF CacheHit
  <2> QED
    BY <1>1, <1>2, <1>3, <2>1
<1>5. CASE RUnlock(t)
  <2>1. call[t].op = "get" /\ Answered(t, seen[t].nodes) /\ pc[t] = "runlock"
    BY <1>5 DEF RUnlock, history
  <2>2. seen[t].nodes = graph[k].version
    BY <2>1 DEF ReadsHold, FirstRead
  <2>3. t \in readers
    BY <2>1 DEF LockHeld, Reading
  <2>4. \A u \in Threads : pc[u] \notin Writing
    BY <2>3 DEF LockHeld
  <2>5. local[k] \in {None, graph[k].version}
    BY <1>1, <2>4 DEF CopiesHold, Writing
  <2> QED
    BY <1>1, <1>2, <1>3, <2>1, <2>2, <2>5
<1>6. CASE AnswerFiltered(t)
  <2>1. Answered(t, seen[t].nodes) /\ pc[t] = "filter"
    BY <1>6 DEF AnswerFiltered
  <2>2. seen[t].nodes =< graph[k].version
    BY <2>1 DEF FilterHolds
  <2>3. answer[t][k] =< seen[t].nodes /\ (local[k] # None => seen[t].nodes =< local[k])
    BY <2>1 DEF FilteredBehind
  <2> QED
    BY <1>1, <1>2, <1>3, <2>1, <2>2, <2>3
<1> QED
  BY <1>4, <1>5, <1>6 DEF Answers

(* A refused entry of the cache is remembered, and other steps change neither graphs nor answers. *)
LEMMA FailureStays ==
    ASSUME Invariant, [Next]_vars, ~setFailed'
    PROVE  ~setFailed
  BY DEF Goto, At, Step, mu, caches, locals, history, Invariant, TypeOK, Next, vars, Refresh, Query, Lock,
         Discover, Rebuild, Store, SetLocal, DeleteStats, Unlock, CacheHit, CacheMiss, CheckEmpty, RLock,
         ReadNodes, ReadEdges, SetStats, RUnlock, LookUpSource, AnswerFiltered, Begin, Expire

(* Nobody was given a topology newer than the graph, or than the one in the cache. *)
LEMMA AnswersStep ==
    ASSUME Invariant, AnswersBehind, FilteredBehind, [Next]_vars
    PROVE AnswersBehind'
<1> USE DEF Goto, At, Step, mu, caches, locals, history
<1> DEFINE Behind(k, u) == /\ answer[u][k] =< graph[k].version
                           /\ local[k] # None => answer[u][k] =< local[k]
                           /\ local[k] # None => local[k] =< graph[k].version
<1> SUFFICES ASSUME ~setFailed', NEW k \in Kinds, NEW u \in Threads
             PROVE Behind(k, u)'
  BY DEF AnswersBehind
<1>2. ~setFailed
  BY FailureStays
<1>3. \A v \in Threads : Behind(k, v)
  BY <1>2 DEF AnswersBehind
<1>4. answer[u][k] \in Nat /\ graph[k].version \in Nat /\ local[k] \in Nat \union {None}
  BY DEF Invariant, TypeOK
<1>5. None \notin Nat
  OBVIOUS
<1>6. CASE UNCHANGED <<answer, graph, local>>
  BY <1>3, <1>6
<1>7. ASSUME NEW t \in Threads, Answers(t) PROVE Behind(k, u)'
  <2>1. UNCHANGED <<graph, local>>
    BY <1>7 DEF Answers, CacheHit, RUnlock, AnswerFiltered
  <2>2. CASE answer' = answer
    BY <1>6, <2>1, <2>2
  <2>3. CASE answer' # answer
    <3> DEFINE j == kindOf(t)
               w == answer'[t][j]
    <3>1. /\ j \in Kinds /\ answer' = [answer EXCEPT ![t][j] = w] /\ w \in Nat
          /\ w =< graph[j].version /\ (local[j] # None => w =< local[j])
      BY <1>2, <1>7, <2>3, AnswerStep
    <3>2. CASE u = t /\ k = j
      BY <1>3, <2>1, <3>1, <3>2
    <3>3. CASE ~(u = t /\ k = j)
      <4> HIDE DEF w, j
      <4>1. answer'[u][k] = answer[u][k]
        BY <3>1, <3>3 DEF Invariant, TypeOK
      <4> QED
        BY <1>3, <2>1, <4>1
    <3> QED
      BY <3>2, <3>3
  <2> QED
    BY <2>2, <2>3
<1>8. ASSUME NEW t \in Threads, Rebuild(t) PROVE Behind(k, u)'
  <2>1. UNCHANGED <<answer, local>>
    BY <1>8 DEF Rebuild
  <2>2. graph'[k].version = graph[k].version \/ graph'[k].version = graph[k].version + 1
    BY <1>8 DEF Rebuild, Invariant, TypeOK
  <2> QED
    BY <1>3, <1>4, <1>5, <2>1, <2>2
<1>9. ASSUME NEW t \in Threads, SetLocal(t) PROVE Behind(k, u)'
  <2>1. UNCHANGED <<answer, graph>>
    BY <1>9 DEF SetLocal
  <2>2. local' = [local EXCEPT ![kindOf(t)] = graph[kindOf(t)].version]
    BY <1>9 DEF SetLocal
  <2>3. local'[k] = local[k] \/ local'[k] = graph[k].version
    BY <2>2 DEF Invariant, TypeOK
  <2> QED
    BY <1>3, <1>4, <1>5, <2>1, <2>3
<1>10. CASE Expire
  <2>1. UNCHANGED <<answer, graph>> /\ local'[k] \in {None, local[k]}
    BY <1>10 DEF Expire, Invariant, TypeOK
  <2> QED
    BY <1>3, <2>1
<1>11. ASSUME NEW t \in Threads, Refresh(t), ~Rebuild(t), ~SetLocal(t) PROVE Behind(k, u)'
  BY <1>6, <1>11 DEF Refresh, Lock, Discover, Store, DeleteStats, Unlock
<1>12. ASSUME NEW t \in Threads, Query(t), ~Answers(t) PROVE Behind(k, u)'
  BY <1>6, <1>12 DEF Answers, Query, CacheMiss, CheckEmpty, RLock, ReadNodes, ReadEdges, SetStats, LookUpSource
<1>13. ASSUME NEW t \in Threads, NEW c \in Calls, Begin(t, c) PROVE Behind(k, u)'
  BY <1>6, <1>13 DEF Begin
<1>14. CASE UNCHANGED vars
  BY <1>6, <1>14 DEF vars
<1> QED
  BY <1>7, <1>8, <1>9, <1>10, <1>11, <1>12, <1>13, <1>14 DEF Next

(* What a query that has released s.mu is about to answer is still not behind what its caller *)
(* was given, nor ahead of the cache.                                                         *)
LEMMA FilteredStep ==
    ASSUME Invariant, AnswersBehind, FilteredBehind, [Next]_vars
    PROVE FilteredBehind'
<1> USE DEF Goto, At, Step, mu, caches, locals, history, kindOf
<1> DEFINE Behind(u) == At(u, "filter") => /\ answer[u][call[u].kind] =< seen[u].nodes
                                           /\ local[call[u].kind] # None => seen[u].nodes =< local[call[u].kind]
<1> SUFFICES ASSUME ~setFailed', NEW u \in Threads, At(u, "filter")'
             PROVE Behind(u)'
  BY DEF FilteredBehind
<1>1. ~setFailed
  BY FailureStays
<1>2. Behind(u)
  BY <1>1 DEF FilteredBehind
<1>3. ASSUME At(u, "filter"), UNCHANGED <<answer, local>>, call'[u] = call[u], seen'[u] = seen[u]
      PROVE Behind(u)'
  BY <1>2, <1>3
<1>4. ASSUME NEW t \in Threads, Refresh(t) \/ Query(t) \/ \E c \in Calls : Begin(t, c)
      PROVE Behind(u)'
  <2>1. CASE u # t
    <3>1. pc'[u] = pc[u] /\ call'[u] = call[u] /\ seen'[u] = seen[u]
      BY <1>4, <2>1, OthersStay DEF Invariant
    <3> DEFINE k == call[u].kind
    <3>2. At(u, "filter")
      BY <3>1
    <3>3. k \in Kinds /\ seen[u].nodes \in Nat /\ seen[u].nodes =< graph[k].version /\ graph[k].version \in Nat
      <4>1. call[u].kind \in Kinds
        BY <3>2, InACall DEF Invariant
      <4> QED
        BY <3>2, <4>1 DEF Invariant, TypeOK, Reads, FilterHolds
    <3>4. answer'[u] = answer[u]
      BY <1>4, <2>1 DEF Invariant, TypeOK, Refresh, Query, Lock, Discover, Rebuild, Store, SetLocal, DeleteStats,
         Unlock, CacheHit, CacheMiss, CheckEmpty, RLock, ReadNodes, ReadEdges, SetStats, RUnlock, LookUpSource,
         AnswerFiltered, Answered, Begin
    <3>5. local'[k] \in {local[k], graph[k].version}
      <4>1. CASE SetLocal(t)
        <5>1. local' = [local EXCEPT ![call[t].kind] = graph[call[t].kind].version]
          BY <4>1 DEF SetLocal
        <5> QED
          BY <3>3, <5>1 DEF Invariant, TypeOK
      <4>2. CASE ~SetLocal(t)
        BY <1>4, <4>2 DEF Refresh, Query, Lock, Discover, Rebuild, Store, DeleteStats, Unlock, CacheHit,
           CacheMiss, CheckEmpty, RLock, ReadNodes, ReadEdges, SetStats, RUnlock, LookUpSource,
           AnswerFiltered, Begin
      <4> QED
        BY <4>1, <4>2
    <3> QED
      BY <1>2, <3>1, <3>2, <3>3, <3>4, <3>5
  <2>2. CASE u = t /\ LookUpSource(t)
    BY <1>3, <2>2 DEF LookUpSource
  <2>3. CASE u = t /\ RUnlock(t)
    <3>1. /\ pc[t] = "runlock" /\ call[t].op = "namespaced" /\ UNCHANGED <<call, seen, answer, local>>
      BY <2>3 DEF RUnlock, Return, Invariant, TypeOK
    <3> DEFINE k == call[t].kind
    <3>2. k \in Kinds
      BY <3>1, InACall DEF Invariant
    <3>3. seen[t].nodes = graph[k].version
      BY <3>1 DEF Invariant, ReadsHold, FirstRead
    <3>4. t \in readers
      BY <3>1 DEF Invariant, LockHeld, Reading
    <3>5. \A v \in Threads : pc[v] \notin Writing
      BY <3>4 DEF Invariant, LockHeld
    <3>6. local[k] \in {None, graph[k].version}
      BY <1>1, <3>2, <3>5 DEF Invariant, CopiesHold, Writing
    <3>7. answer[t][k] =< graph[k].version /\ graph[k].version \in Nat
      BY <1>1, <3>2 DEF Invariant, TypeOK, AnswersBehind
    <3> QED
      BY <2>3, <3>1, <3>3, <3>6, <3>7
  <2>4. CASE u = t /\ ~LookUpSource(t) /\ ~RUnlock(t)
    <3>1. pc'[t] # "filter"
      BY <1>4, <2>4 DEF Invariant, TypeOK, Refresh, Query, Lock, Discover, Rebuild, Store, SetLocal, DeleteStats,
         Unlock, CacheHit, CacheMiss, CheckEmpty, RLock, ReadNodes, ReadEdges, SetStats, AnswerFiltered,
         Return, Begin
    <3> QED
      BY <2>4, <3>1
  <2> QED
    BY <2>1, <2>2, <2>3, <2>4
<1>5. CASE Expire
  <2>1. UNCHANGED <<answer, pc, call, seen>>
    BY <1>5 DEF Expire
  <2>2. call[u].kind \in Kinds
    BY <2>1, InACall DEF Invariant
  <2>3. local'[call[u].kind] \in {None, local[call[u].kind]}
    BY <1>5, <2>2 DEF Expire, Invariant, TypeOK
  <2> QED
    BY <1>2, <2>1, <2>3
<1>6. CASE UNCHANGED vars
  BY <1>3, <1>6 DEF vars
<1> QED
  BY <1>4, <1>5, <1>6 DEF Next

(* The topologies a caller is given never go back in time, from the cache or from the *)
(* graph, while the cache takes what it is given.                                     *)
THEOREM AnswersMonotonic == Spec => MonotonicAnswers
<1>1. Init => AnswersBehind /\ FilteredBehind
  BY DEF Init, AnswersBehind, FilteredBehind, At
<1>2. Invariant /\ AnswersBehind /\ FilteredBehind /\ [Next]_vars => (AnswersBehind /\ FilteredBehind)'
  BY AnswersStep, FilteredStep
<1>3. Invariant /\ AnswersBehind /\ FilteredBehind /\ [Next]_vars
        => [\A t \in Threads, k \in Kinds : ~setFailed => answer'[t][k] >= answer[t][k]]_vars
  <2> SUFFICES ASSUME Invariant, AnswersBehind, FilteredBehind, Next, ~setFailed,
                      NEW u \in Threads, NEW k \in Kinds
               PROVE answer'[u][k] >= answer[u][k]
    BY DEF vars
  <2>1. answer[u][k] \in Nat
    BY DEF Invariant, TypeOK
  <2>2. CASE answer' = answer
    BY <2>1, <2>2
  <2>3. ASSUME NEW t \in Threads, Answers(t), answer' # answer
        PROVE answer'[u][k] >= answer[u][k]
    <3> DEFINE j == kindOf(t)
               w == answer'[t][j]
    <3>1. /\ j \in Kinds /\ answer' = [answer EXCEPT ![t][j] = w] /\ w \in Nat /\ answer[t][j] =< w
      BY <2>3, AnswerStep
    <3> HIDE DEF w, j
    <3>2. CASE u = t /\ k = j
      BY <3>1, <3>2 DEF Invariant, TypeOK
    <3>3. CASE ~(u = t /\ k = j)
      BY <2>1, <3>1, <3>3 DEF Invariant, TypeOK
    <3> QED
      BY <3>2, <3>3
  <2>4. (\A t \in Threads : ~Answers(t)) => answer' = answer
    BY DEF Answers, Next, Refresh, Query, Lock, Discover, Rebuild, Store, SetLocal, DeleteStats, Unlock,
           CacheMiss, CheckEmpty, RLock, ReadNodes, ReadEdges, SetStats, LookUpSource, Begin, Expire, history
  <2> QED
    BY <2>2, <2>3, <2>4
<1> QED
  BY <1>1, <1>2, <1>3, InvariantHolds, PTL DEF Spec, MonotonicAnswers

-----------------------------------------------------------------------------
(* A search of the graph while it is rebuilt. *)

(* The neighbours are services, and the edges of a graph stay within those of a larger one. *)
LEMMA TowardsGrows ==
    ASSUME NEW d, NEW E, NEW F, E \subseteq F
    PROVE  Towards(d, E) \subseteq Towards(d, F)
  BY DEF Towards

(* Every service of a set is in each of its orders, and nothing else. *)
LEMMA OrderHas ==
    ASSUME NEW S \in SUBSET Services, NEW order \in Orders(S)
    PROVE  \E n \in Nat : /\ DOMAIN order = 1 .. n /\ \A i \in 1 .. n : order[i] \in S
                          /\ \A s \in S : \E i \in 1 .. n : order[i] = s
<1>1. Cardinality(S) \in Nat
  BY SearchAssumption, FS_Subset, FS_CardinalityType
<1>2. PICK n \in Cardinality(S) .. Cardinality(S) + MaxRepeats : order \in [1 .. n -> S]
  BY DEF Orders
<1>3. \A s \in S : \E i \in DOMAIN order : order[i] = s
  BY DEF Orders
<1>4. n \in Nat /\ DOMAIN order = 1 .. n
  BY <1>1, <1>2, SearchAssumption
<1> QED
  BY <1>2, <1>3, <1>4

(* What a step takes from the queue: its first service. *)
LEMMA TailDoes ==
    ASSUME NEW S, NEW q \in Seq(S), q # <<>>
    PROVE  /\ Len(q) \in Nat \ {0} /\ Head(q) = q[1] /\ q[1] \in S
           /\ Tail(q) \in Seq(S) /\ Len(Tail(q)) = Len(q) - 1
           /\ \A i \in 1 .. Len(q) - 1 : Tail(q)[i] = q[i + 1]
  BY HeadTailProperties, EmptySeq, LenProperties

(* A service is visited: it has the depth it was queued with, and its neighbours follow on the queue. *)
Visits(cur, n) ==
    /\ cur \in Queued /\ cur.depth \in 0 .. Limit /\ cur.id \notin DOMAIN visited
    /\ DOMAIN visited' = DOMAIN visited \union {cur.id}
    /\ visited'[cur.id] = cur.depth
    /\ \A s \in DOMAIN visited : visited'[s] = visited[s]
    /\ queue' \in Seq(Queued) /\ Len(queue') \in Nat /\ Len(queue') >= n
    /\ \A i \in 1 .. n : queue'[i] = queue[i + 1]
    /\ \A i \in n + 1 .. Len(queue') : /\ queue'[i].id \in Neighbours(cur.id) \ DOMAIN visited'
                                       /\ queue'[i].depth = cur.depth + 1
    /\ \A t \in Neighbours(cur.id) \ DOMAIN visited' : \E i \in n + 1 .. Len(queue') : queue'[i].id = t

LEMMA VisitDoes ==
    ASSUME SearchTypeOK, Visit
    PROVE  /\ Len(queue) \in Nat \ {0} /\ stage = "search" /\ Visits(queue[1], Len(queue) - 1)
           /\ UNCHANGED <<graphs, stage, side, todo, impact, times>>
<1> DEFINE cur == queue[1]
           new == Neighbours(cur.id) \ DOMAIN visited'
<1>1. /\ Len(queue) \in Nat \ {0} /\ Head(queue) = cur /\ cur \in Queued
      /\ Tail(queue) \in Seq(Queued) /\ Len(Tail(queue)) = Len(queue) - 1
      /\ \A i \in 1 .. Len(queue) - 1 : Tail(queue)[i] = queue[i + 1]
  BY TailDoes DEF Visit, SearchTypeOK
<1>2. /\ cur.depth <= Limit /\ cur.id \notin DOMAIN visited
      /\ visited' = [s \in DOMAIN visited \union {cur.id} |-> IF s = cur.id THEN cur.depth ELSE visited[s]]
      /\ \E order \in Orders(new) :
             queue' = Tail(queue) \o [i \in DOMAIN order |-> [id |-> order[i], depth |-> cur.depth + 1]]
  <2>1. /\ ~ (cur.depth > Limit) /\ cur.id \notin DOMAIN visited
        /\ visited' = [s \in DOMAIN visited \union {cur.id} |-> IF s = cur.id THEN cur.depth ELSE visited[s]]
        /\ \E order \in Orders(new) :
               queue' = Tail(queue) \o [i \in DOMAIN order |-> [id |-> order[i], depth |-> cur.depth + 1]]
    <3> HIDE DEF cur
    <3> QED BY <1>1, Zenon DEF Visit, TooFar, Appended
  <2>2. cur.depth <= Limit
    <3>1. cur.depth \in 0 .. Limit + 1 /\ Limit \in Nat
      BY <1>1, SearchAssumption DEF Queued
    <3> HIDE DEF cur
    <3> QED BY <2>1, <3>1
  <2> QED BY <2>1, <2>2
<1>3. cur.depth \in 0 .. Limit /\ cur.id \in Services
  BY <1>1, <1>2, SearchAssumption DEF Queued
<1>4. PICK order \in Orders(new) :
          queue' = Tail(queue) \o [i \in DOMAIN order |-> [id |-> order[i], depth |-> cur.depth + 1]]
  BY <1>2
<1>5. new \in SUBSET Services
  BY DEF Neighbours
<1>6. PICK m \in Nat : /\ DOMAIN order = 1 .. m /\ \A i \in 1 .. m : order[i] \in new
                       /\ \A s \in new : \E i \in 1 .. m : order[i] = s
  <2> HIDE DEF new, cur
  <2> QED BY <1>5, OrderHas
<1> DEFINE added == [i \in 1 .. m |-> [id |-> order[i], depth |-> cur.depth + 1]]
<1>7. added \in Seq(Queued) /\ Len(added) = m /\ \A i \in 1 .. m : added[i].id = order[i] /\ added[i].depth = cur.depth + 1
  <2>1. \A i \in 1 .. m : [id |-> order[i], depth |-> cur.depth + 1] \in Queued
    <3>1. \A i \in 1 .. m : order[i] \in Services
      BY <1>5, <1>6
    <3>2. cur.depth + 1 \in 0 .. Limit + 1
      BY <1>3, SearchAssumption
    <3> HIDE DEF cur
    <3> QED BY <3>1, <3>2 DEF Queued
  <2>2. added \in [1 .. m -> Queued]
    BY <2>1
  <2>3. \A i \in 1 .. m : added[i] = [id |-> order[i], depth |-> cur.depth + 1]
    OBVIOUS
  <2> HIDE DEF added, cur
  <2>4. added \in Seq(Queued)
    BY <2>2
  <2>5. Len(added) = m
    BY <2>2, <2>4, LenProperties
  <2> QED BY <2>3, <2>4, <2>5
<1>8. queue' = Tail(queue) \o added
  BY <1>4, <1>6
<1> DEFINE n == Len(queue) - 1
<1>9. /\ queue' \in Seq(Queued) /\ Len(queue') = n + m
      /\ \A i \in 1 .. n + m : queue'[i] = IF i <= n THEN Tail(queue)[i] ELSE added[i - n]
  <2> HIDE DEF added
  <2>1. Len(Tail(queue)) = n /\ Len(added) = m
    BY <1>1, <1>7
  <2>2. Tail(queue) \in Seq(Queued) /\ added \in Seq(Queued)
    BY <1>1, <1>7
  <2> DEFINE first == Tail(queue)
  <2> HIDE DEF first
  <2>3. /\ first \o added \in Seq(Queued) /\ Len(first \o added) = Len(first) + Len(added)
        /\ \A i \in 1 .. Len(first) + Len(added) :
              (first \o added)[i] = IF i <= Len(first) THEN first[i] ELSE added[i - Len(first)]
    BY <2>2, ConcatProperties DEF first
  <2> QED BY <1>8, <2>1, <2>3 DEF first
<1> HIDE DEF added
<1>10. \A i \in 1 .. n : queue'[i] = queue[i + 1]
  BY <1>1, <1>6, <1>9
<1>11. \A i \in n + 1 .. Len(queue') : queue'[i].id \in new /\ queue'[i].depth = cur.depth + 1
  <2> SUFFICES ASSUME NEW i \in n + 1 .. Len(queue') PROVE queue'[i].id \in new /\ queue'[i].depth = cur.depth + 1
    OBVIOUS
  <2>1. i - n \in 1 .. m /\ queue'[i] = added[i - n]
    BY <1>1, <1>6, <1>9
  <2> HIDE DEF new
  <2> QED BY <2>1, <1>6, <1>7
<1>12. \A t \in new : \E i \in n + 1 .. Len(queue') : queue'[i].id = t
  <2> SUFFICES ASSUME NEW t \in new PROVE \E i \in n + 1 .. Len(queue') : queue'[i].id = t
    OBVIOUS
  <2>1. PICK i \in 1 .. m : order[i] = t
    BY <1>6
  <2>2. n \in Nat /\ i \in Nat /\ 1 <= i /\ i <= m
    BY <1>1, <1>6
  <2> HIDE DEF n
  <2>3. n + i \in 1 .. n + m /\ ~(n + i <= n) /\ (n + i) - n = i
    BY <2>2, <1>6
  <2>4. n + i \in n + 1 .. Len(queue') /\ queue'[n + i] = added[i]
    BY <2>2, <2>3, <1>6, <1>9
  <2> QED BY <2>1, <2>4, <1>7
<1>13. /\ DOMAIN visited' = DOMAIN visited \union {cur.id} /\ visited'[cur.id] = cur.depth
       /\ \A s \in DOMAIN visited : visited'[s] = visited[s]
  <2> HIDE DEF cur
  <2> QED BY <1>2
<1>14. Len(queue') \in Nat /\ Len(queue') >= n
  BY <1>1, <1>6, <1>9
<1>15. stage = "search" /\ UNCHANGED <<graphs, stage, side, todo, impact, times>>
  BY DEF Visit
<1> QED
  BY <1>1, <1>2, <1>3, <1>9, <1>10, <1>11, <1>12, <1>13, <1>14, <1>15 DEF Visits

(* A service is passed over. *)
LEMMA SkipDoes ==
    ASSUME SearchTypeOK, Skip
    PROVE  /\ Len(queue) \in Nat \ {0} /\ stage = "search"
           /\ queue[1] \in Queued /\ (queue[1].depth > Limit \/ queue[1].id \in DOMAIN visited)
           /\ queue' \in Seq(Queued) /\ Len(queue') = Len(queue) - 1
           /\ \A i \in 1 .. Len(queue') : queue'[i] = queue[i + 1]
           /\ UNCHANGED <<graphs, stage, side, visited, todo, impact, times>>
  BY TailDoes DEF Skip, TooFar, SearchTypeOK

-----------------------------------------------------------------------------
(* The graph is between what was kept of the graphs of a search and what was met. *)
GraphsHold == /\ kept.nodes \subseteq inMemory.nodes /\ inMemory.nodes \subseteq met.nodes
              /\ kept.edges \subseteq inMemory.edges /\ inMemory.edges \subseteq met.edges

(* There is a walk of k calls to s. *)
Reached(d, E, s, k) == \E w \in Walks(d, E, k) : w[k] = s
Places == 1 .. Len(queue)

(* The queue is in the order of depths, which differ by one at most, and all that is visited *)
(* comes before.                                                                             *)
QueueInOrder ==
    /\ \A i, j \in Places : i <= j => queue[i].depth <= queue[j].depth /\ queue[j].depth <= queue[i].depth + 1
    /\ \A s \in DOMAIN visited : \A i \in Places : visited[s] <= queue[i].depth

AllReached == /\ \A s \in DOMAIN visited : Reached(side, met.edges, s, visited[s])
              /\ \A i \in Places : Reached(side, met.edges, queue[i].id, queue[i].depth)

RootFirst == \/ Root \in DOMAIN visited /\ visited[Root] = 0
             \/ DOMAIN visited = {} /\ queue = <<[id |-> Root, depth |-> 0]>>

(* A neighbour, in the kept graph, of what is visited is visited or on the queue, one call farther *)
(* at most, unless that is beyond the limit.                                                       *)
Comes(v, q, t, k) == \/ t \in DOMAIN v /\ v[t] <= k
                     \/ \E i \in 1 .. Len(q) : q[i].id = t /\ q[i].depth <= k
Frontier == \A s \in DOMAIN visited : \A t \in Services :
               <<s, t>> \in Towards(side, kept.edges) /\ visited[s] < Limit => Comes(visited, queue, t, visited[s] + 1)

(* What is listed of the services that were looked up. *)
ListHolds ==
    /\ \A x \in impact[side].listed : /\ x.id \in (DOMAIN visited \ {Root}) \ todo
                                      /\ x.depth = visited[x.id] /\ x.id \in met.nodes
                                      /\ x.depth <= impact[side].depth
    /\ \A s \in (DOMAIN visited \ {Root}) \ todo : s \in kept.nodes =>
          \E x \in impact[side].listed : x.id = s /\ x.depth = visited[s]
    /\ impact[side].depth = 0 \/ \E x \in impact[side].listed : x.depth = impact[side].depth

SearchHolds ==
    /\ GraphsHold
    /\ stage = "root" => impact = [up |-> NoImpact, down |-> NoImpact]
    /\ stage \in {"root", "search"} => todo = {} /\ impact[side] = NoImpact
    /\ side = "up" => impact["down"] = NoImpact
    /\ stage \in {"search", "list"} => QueueInOrder /\ AllReached /\ RootFirst /\ Frontier
    /\ stage = "list" => queue = <<>> /\ Root \notin todo /\ ListHolds

(* The inductive invariant. *)
SearchInvariant == SearchTypeOK /\ SearchHolds

(* A graph that a refresh may find has services and edges between them. *)
LEMMA GraphTyped == \A g \in Graphs : g \in SearchGraph /\ g.nodes \subseteq Services /\ g.edges \subseteq Services \X Services
  BY SearchAssumption DEF SearchGraph

(* At the start of a side nothing is visited. *)
LEMMA NothingVisited ==
    \A v : v = <<>> => DOMAIN v = {} /\ v \in [DOMAIN v -> 0 .. Limit]
<1>1. <<>> \in Seq(0 .. Limit) /\ Len(<<>>) = 0
  BY EmptySeq
<1>2. DOMAIN <<>> = {} /\ <<>> \in [1 .. 0 -> 0 .. Limit]
  BY <1>1, LenProperties
<1> QED
  BY <1>2

(* One service is on the queue then. *)
LEMMA RootQueued ==
    LET q == <<[id |-> Root, depth |-> 0]>>
    IN  q \in Seq(Queued) /\ Len(q) = 1 /\ q[1] = [id |-> Root, depth |-> 0] /\ q # <<>>
<1>1. [id |-> Root, depth |-> 0] \in Queued
  BY SearchAssumption DEF Queued
<1> QED
  BY <1>1

(* Every step keeps the types. *)
LEMMA SearchTyped == SearchTypeOK /\ [SearchNext]_searchVars => SearchTypeOK'
<1> SUFFICES ASSUME SearchTypeOK, [SearchNext]_searchVars PROVE SearchTypeOK'
  OBVIOUS
<1>1. inMemory \in SearchGraph
  BY GraphTyped DEF SearchTypeOK
<1>2. CASE RebuildGraph
  <2>1. inMemory' \in Graphs /\ inMemory' \in SearchGraph
    BY <1>2, GraphTyped DEF RebuildGraph
  <2>2. kept' \in SearchGraph /\ met' \in SearchGraph
    BY <1>2, <2>1 DEF RebuildGraph, SearchTypeOK, SearchGraph
  <2>3. rebuilds' \in 0 .. MaxRebuilds
    <3>1. rebuilds \in 0 .. MaxRebuilds /\ MaxRebuilds \in Nat
      BY SearchAssumption DEF SearchTypeOK
    <3>2. rebuilds < MaxRebuilds /\ rebuilds' = rebuilds + 1
      BY <1>2 DEF RebuildGraph
    <3> QED BY <3>1, <3>2
  <2> QED
    BY <1>2, <2>1, <2>2, <2>3 DEF RebuildGraph, SearchTypeOK
<1>3. ASSUME NEW d \in {"up", "down"}, BeginSide(d), todo = {} PROVE SearchTypeOK'
  <2>1. DOMAIN visited' = {} /\ visited' \in [DOMAIN visited' -> 0 .. Limit]
    BY <1>3, NothingVisited DEF BeginSide
  <2>2. queue' \in Seq(Queued)
    BY <1>3, RootQueued DEF BeginSide
  <2> QED
    BY <1>1, <1>3, <2>1, <2>2 DEF BeginSide, SearchTypeOK, graphs
<1>4. CASE FindRoot
  <2>1. CASE Root \in inMemory.nodes
    <3>1. BeginSide("up") /\ todo = {}
      BY <1>4, <2>1 DEF FindRoot, SearchTypeOK
    <3> QED BY <1>3, <3>1
  <2>2. CASE Root \notin inMemory.nodes
    BY <1>4, <2>2 DEF FindRoot, SearchTypeOK, graphs, times
  <2> QED BY <2>1, <2>2
<1>5. CASE Visit
  <2>1. Visits(queue[1], Len(queue) - 1) /\ UNCHANGED <<graphs, stage, side, todo, impact, times>>
    BY <1>5, VisitDoes
  <2>2. DOMAIN visited' \subseteq Services
    BY <2>1 DEF Visits, SearchTypeOK, Queued
  <2>3. visited' \in [DOMAIN visited' -> 0 .. Limit]
    <3>1. \A s \in DOMAIN visited' : visited'[s] \in 0 .. Limit
      <4>1. \A s \in DOMAIN visited : visited[s] \in 0 .. Limit
        BY DEF SearchTypeOK
      <4>2. /\ queue[1].depth \in 0 .. Limit /\ visited'[queue[1].id] = queue[1].depth
            /\ DOMAIN visited' = DOMAIN visited \union {queue[1].id}
            /\ \A s \in DOMAIN visited : visited'[s] = visited[s]
        BY <2>1 DEF Visits
      <4> QED BY <4>1, <4>2, Zenon
    <3>2. \E D : visited' = [s \in D |-> visited'[s]]
      BY <1>5 DEF Visit
    <3> QED BY <3>1, <3>2
  <2>4. todo' \subseteq DOMAIN visited' /\ queue' \in Seq(Queued)
    BY <2>1 DEF Visits, SearchTypeOK
  <2> QED
    BY <2>1, <2>2, <2>3, <2>4 DEF SearchTypeOK, graphs, times
<1>6. CASE Skip
  <2>1. queue' \in Seq(Queued) /\ UNCHANGED <<graphs, stage, side, visited, todo, impact, times>>
    BY <1>6, SkipDoes
  <2> QED
    BY <2>1 DEF SearchTypeOK, graphs, times
<1>7. CASE EndSearch
  BY <1>7 DEF EndSearch, SearchTypeOK, graphs, times
<1>8. ASSUME NEW s \in Services, List(s) PROVE SearchTypeOK'
  <2>1. s \in DOMAIN visited /\ visited[s] \in 0 .. Limit /\ side \in {"up", "down"}
    BY <1>8 DEF List, SearchTypeOK
  <2>2. impact[side] \in Reported
    BY <2>1 DEF SearchTypeOK
  <2>3. [listed |-> impact[side].listed \union {[id |-> s, depth |-> visited[s]]},
         depth |-> IF visited[s] > impact[side].depth THEN visited[s] ELSE impact[side].depth] \in Reported
    BY <2>1, <2>2 DEF Reported
  <2>4. impact' \in [up : Reported, down : Reported]
    BY <1>8, <2>1, <2>3 DEF List, SearchTypeOK
  <2> QED
    BY <1>8, <2>4 DEF List, SearchTypeOK, graphs, times
<1>9. CASE NextSide
  <2>1. CASE side = "up"
    BY <1>3, <1>9, <2>1 DEF NextSide
  <2>2. CASE side # "up"
    BY <1>9, <2>2 DEF NextSide, SearchTypeOK, graphs, times
  <2> QED BY <2>1, <2>2
<1>10. CASE UNCHANGED searchVars
  BY <1>10 DEF searchVars, SearchTypeOK
<1> QED
  BY <1>2, <1>4, <1>5, <1>6, <1>7, <1>8, <1>9, <1>10 DEF SearchNext, Returned

(* What is reached stays reached when more edges have been met. *)
LEMMA ReachedGrows ==
    ASSUME NEW d, NEW E, NEW F, E \subseteq F, NEW s, NEW k, Reached(d, E, s, k)
    PROVE  Reached(d, F, s, k)
<1>1. Towards(d, E) \subseteq Towards(d, F)
  BY TowardsGrows
<1>2. Walks(d, E, k) \subseteq Walks(d, F, k)
  BY <1>1 DEF Walks
<1> QED
  BY <1>2 DEF Reached

(* The service itself is reached without a call, *)
LEMMA RootReached == \A d, E : Reached(d, E, Root, 0)
<1> TAKE d, E
<1> DEFINE w == [i \in 0 .. 0 |-> Root]
<1>1. w \in [0 .. 0 -> Services] /\ w[0] = Root
  BY SearchAssumption
<1>2. w \in Walks(d, E, 0)
  BY <1>1 DEF Walks
<1> QED
  BY <1>1, <1>2 DEF Reached

(* and a neighbour of what is reached with one call more. *)
LEMMA WalkGoesOn ==
    ASSUME NEW d, NEW E, NEW s, NEW k \in Nat, Reached(d, E, s, k), NEW t \in Services, <<s, t>> \in Towards(d, E)
    PROVE  Reached(d, E, t, k + 1)
<1>1. PICK w \in Walks(d, E, k) : w[k] = s
  BY DEF Reached
<1> DEFINE v == [i \in 0 .. k + 1 |-> IF i = k + 1 THEN t ELSE w[i]]
<1>2. w \in [0 .. k -> Services] /\ w[0] = Root /\ \A i \in 1 .. k : <<w[i - 1], w[i]>> \in Towards(d, E)
  BY DEF Walks
<1>3. \A i \in 0 .. k : v[i] = w[i]
  OBVIOUS
<1>4. v \in [0 .. k + 1 -> Services] /\ v[k + 1] = t
  BY <1>2
<1> HIDE DEF v
<1>5. v[0] = Root
  BY <1>2, <1>3
<1>6. ASSUME NEW i \in 1 .. k + 1 PROVE <<v[i - 1], v[i]>> \in Towards(d, E)
  <2>1. CASE i = k + 1
    <3>1. v[i - 1] = s /\ v[i] = t
      BY <1>1, <1>3, <1>4, <2>1
    <3> QED BY <3>1
  <2>2. CASE i # k + 1
    <3>1. i \in 1 .. k /\ v[i - 1] = w[i - 1] /\ v[i] = w[i]
      BY <1>3, <2>2
    <3> QED BY <1>2, <3>1
  <2> QED BY <2>1, <2>2
<1>7. v \in Walks(d, E, k + 1)
  BY <1>4, <1>5, <1>6 DEF Walks
<1> QED
  BY <1>4, <1>7 DEF Reached

(* A rebuild takes edges from what was kept and adds some to what was met. *)
LEMMA HoldsWhenRebuilt ==
    ASSUME SearchInvariant, RebuildGraph
    PROVE  SearchHolds'
<1>1. /\ kept'.nodes \subseteq kept.nodes /\ kept'.edges \subseteq kept.edges
      /\ met.nodes \subseteq met'.nodes /\ met.edges \subseteq met'.edges
      /\ GraphsHold' /\ UNCHANGED <<stage, side, visited, queue, todo, impact>>
  BY DEF RebuildGraph, GraphsHold
<1>2. Towards(side, kept'.edges) \subseteq Towards(side, kept.edges)
  BY <1>1, TowardsGrows
<1>3. AllReached => AllReached'
  <2>1. \A s, k : Reached(side, met.edges, s, k) => Reached(side, met'.edges, s, k)
    BY <1>1, ReachedGrows
  <2> QED BY <1>1, <2>1 DEF AllReached, Places
<1>4. (Frontier => Frontier') /\ (QueueInOrder => QueueInOrder') /\ (RootFirst => RootFirst')
  BY <1>1, <1>2 DEF Frontier, QueueInOrder, RootFirst, Places
<1>5. ListHolds => ListHolds'
  BY <1>1 DEF ListHolds
<1> QED
  BY <1>1, <1>3, <1>4, <1>5 DEF SearchInvariant, SearchHolds

(* The search of a side begins. *)
LEMMA HoldsWhenBegun ==
    ASSUME SearchInvariant, NEW d \in {"up", "down"}, BeginSide(d), todo = {}, impact[d] = NoImpact,
           d = "up" => impact["down"] = NoImpact
    PROVE  SearchHolds'
<1>1. DOMAIN visited' = {}
  BY NothingVisited DEF BeginSide
<1>2. queue' = <<[id |-> Root, depth |-> 0]>> /\ Len(queue') = 1 /\ queue'[1] = [id |-> Root, depth |-> 0]
  BY RootQueued DEF BeginSide
<1>3. QueueInOrder'
  BY <1>1, <1>2 DEF QueueInOrder, Places
<1>4. Reached(side', met'.edges, Root, 0)
  BY RootReached
<1>5. AllReached'
  BY <1>1, <1>2, <1>4 DEF AllReached, Places
<1>6. RootFirst' /\ Frontier'
  BY <1>1, <1>2 DEF RootFirst, Frontier
<1>7. GraphsHold'
  BY DEF BeginSide, GraphsHold, graphs
<1>8. stage' = "search" /\ side' = d /\ todo' = {} /\ impact' = impact
  BY DEF BeginSide
<1> QED
  BY <1>3, <1>5, <1>6, <1>7, <1>8 DEF SearchHolds

(* A service is visited. *)
LEMMA HoldsWhenVisited ==
    ASSUME SearchInvariant, Visit
    PROVE  SearchHolds'
<1> DEFINE cur == queue[1]
           n == Len(queue) - 1
<1>1. /\ Len(queue) \in Nat \ {0} /\ stage = "search" /\ Visits(cur, n)
      /\ UNCHANGED <<graphs, stage, side, todo, impact, times>>
  BY VisitDoes DEF SearchInvariant
<1>2. /\ QueueInOrder /\ AllReached /\ RootFirst /\ Frontier /\ GraphsHold
      /\ todo = {} /\ impact[side] = NoImpact
      /\ side = "up" => impact["down"] = NoImpact
  BY <1>1 DEF SearchInvariant, SearchHolds
<1>3. /\ queue \in Seq(Queued) /\ DOMAIN visited \subseteq Services /\ \A s \in DOMAIN visited : visited[s] \in Nat
      /\ Limit \in Nat
  <2>1. SearchTypeOK /\ Limit \in Nat
    BY SearchAssumption DEF SearchInvariant
  <2>2. visited \in [DOMAIN visited -> 0 .. Limit]
    BY <2>1 DEF SearchTypeOK
  <2>3. \A s \in DOMAIN visited : visited[s] \in 0 .. Limit
    BY <2>2
  <2>4. \A s \in DOMAIN visited : visited[s] \in Nat
    BY <2>1, <2>3
  <2>5. queue \in Seq(Queued) /\ DOMAIN visited \subseteq Services
    BY <2>1 DEF SearchTypeOK
  <2> QED BY <2>1, <2>4, <2>5
<1>4. /\ cur \in Queued /\ cur.depth \in 0 .. Limit /\ cur.depth \in Nat /\ cur.id \notin DOMAIN visited
      /\ DOMAIN visited' = DOMAIN visited \union {cur.id} /\ visited'[cur.id] = cur.depth
      /\ \A s \in DOMAIN visited : visited'[s] = visited[s]
  BY <1>1 DEF Visits
<1>5. /\ n \in Nat /\ Len(queue') \in Nat /\ Len(queue') >= n
      /\ \A i \in 1 .. n : queue'[i] = queue[i + 1] /\ i + 1 \in Places
      /\ \A i \in n + 1 .. Len(queue') : /\ queue'[i].id \in Neighbours(cur.id) \ DOMAIN visited'
                                         /\ queue'[i].depth = cur.depth + 1
      /\ \A t \in Neighbours(cur.id) \ DOMAIN visited' : \E i \in n + 1 .. Len(queue') : queue'[i].id = t
      /\ 1 \in Places
  BY <1>1 DEF Visits, Places
<1>6. \A i \in Places : queue[i].depth \in Nat
  <2> TAKE i \in Places
  <2>1. queue[i] \in Queued
    BY <1>3, ElementOfSeq DEF Places
  <2>2. queue[i].depth \in 0 .. Limit + 1
    BY <2>1 DEF Queued
  <2> HIDE DEF Places
  <2> QED BY <1>3, <2>2
<1> HIDE DEF cur
<1>7. ASSUME NEW i \in Places' PROVE i \in 1 .. n \/ i \in n + 1 .. Len(queue')
  BY <1>5, <1>7 DEF Places
<1>8. ASSUME NEW i \in 1 .. n
      PROVE  queue'[i].depth \in Nat /\ cur.depth <= queue'[i].depth /\ queue'[i].depth <= cur.depth + 1
  <2>1. i + 1 \in Places /\ 1 \in Places /\ 1 <= i + 1 /\ queue'[i] = queue[i + 1]
    BY <1>5
  <2> QED BY <1>2, <1>6, <2>1 DEF QueueInOrder, cur
<1>9. QueueInOrder'
  <2>1. ASSUME NEW i \in Places', NEW j \in Places', i <= j
        PROVE  queue'[i].depth <= queue'[j].depth /\ queue'[j].depth <= queue'[i].depth + 1
    <3>1. CASE i \in 1 .. n /\ j \in 1 .. n
      <4>1. i + 1 \in Places /\ j + 1 \in Places /\ i + 1 <= j + 1
        BY <1>5, <2>1, <3>1
      <4>2. queue'[i] = queue[i + 1] /\ queue'[j] = queue[j + 1]
        BY <1>5, <3>1
      <4> QED BY <1>2, <4>1, <4>2 DEF QueueInOrder
    <3>2. CASE i \in 1 .. n /\ j \in n + 1 .. Len(queue')
      BY <1>4, <1>5, <1>8, <3>2
    <3>3. CASE i \in n + 1 .. Len(queue')
      <4>1. j \in n + 1 .. Len(queue')
        BY <1>5, <2>1, <3>3 DEF Places
      <4> QED BY <1>4, <1>5, <3>3, <4>1
    <3> QED BY <1>7, <3>1, <3>2, <3>3
  <2>2. ASSUME NEW s \in DOMAIN visited', NEW i \in Places' PROVE visited'[s] <= queue'[i].depth
    <3>1. visited'[s] \in Nat /\ visited'[s] <= cur.depth
      BY <1>2, <1>3, <1>4, <1>5 DEF QueueInOrder, cur
    <3>2. queue'[i].depth \in Nat /\ cur.depth <= queue'[i].depth
      <4>1. CASE i \in 1 .. n
        BY <1>8, <4>1
      <4>2. CASE i \in n + 1 .. Len(queue')
        BY <1>4, <1>5, <4>2
      <4> QED BY <1>7, <4>1, <4>2
    <3> QED BY <1>4, <3>1, <3>2
  <2> QED BY <2>1, <2>2 DEF QueueInOrder
<1>10. AllReached'
  <2>1. met' = met /\ side' = side
    BY <1>1 DEF times
  <2>2. Reached(side, met.edges, cur.id, cur.depth)
    BY <1>2, <1>5 DEF AllReached, cur
  <2>3. ASSUME NEW s \in DOMAIN visited' PROVE Reached(side, met.edges, s, visited'[s])
    BY <1>2, <1>4, <2>2 DEF AllReached
  <2>4. ASSUME NEW i \in Places' PROVE Reached(side, met.edges, queue'[i].id, queue'[i].depth)
    <3>1. CASE i \in 1 .. n
      BY <1>2, <1>5, <3>1 DEF AllReached
    <3>2. CASE i \in n + 1 .. Len(queue')
      <4>1. queue'[i].id \in Services /\ <<cur.id, queue'[i].id>> \in Towards(side, inMemory.edges)
        BY <1>5, <3>2 DEF Neighbours
      <4>2. <<cur.id, queue'[i].id>> \in Towards(side, met.edges)
        BY <1>2, <4>1, TowardsGrows DEF GraphsHold
      <4>3. Reached(side, met.edges, queue'[i].id, cur.depth + 1)
        BY <1>4, <2>2, <4>1, <4>2, WalkGoesOn
      <4> QED BY <1>5, <2>1, <3>2, <4>3
    <3> QED BY <1>7, <3>1, <3>2
  <2> QED BY <2>1, <2>3, <2>4 DEF AllReached
<1>11. RootFirst'
  <2>1. CASE Root \in DOMAIN visited /\ visited[Root] = 0
    BY <1>4, <2>1 DEF RootFirst
  <2>2. CASE queue = <<[id |-> Root, depth |-> 0]>>
    <3>1. cur.id = Root /\ cur.depth = 0
      BY <2>2 DEF cur
    <3> QED BY <1>4, <3>1 DEF RootFirst
  <2> QED BY <1>2, <2>1, <2>2 DEF RootFirst
<1>12. Frontier'
  <2> SUFFICES ASSUME NEW s \in DOMAIN visited', NEW t \in Services,
                      <<s, t>> \in Towards(side, kept.edges), visited'[s] < Limit
               PROVE  Comes(visited', queue', t, visited'[s] + 1)
    BY <1>1, Zenon DEF Frontier, times
  <2>1. CASE s \in DOMAIN visited
    <3> DEFINE k == visited[s] + 1
    <3>1. visited'[s] = visited[s] /\ visited[s] \in Nat /\ Comes(visited, queue, t, k)
      BY <1>2, <1>3, <1>4, <2>1 DEF Frontier
    <3>2. CASE t \in DOMAIN visited /\ visited[t] <= k
      BY <1>4, <3>1, <3>2 DEF Comes, Places
    <3>3. ASSUME NEW i \in Places, queue[i].id = t, queue[i].depth <= k PROVE Comes(visited', queue', t, visited'[s] + 1)
      <4>1. CASE i = 1
        BY <1>4, <3>1, <3>3, <4>1 DEF Comes, Places, cur
      <4>2. CASE i # 1
        <5>1. i - 1 \in 1 .. n /\ i - 1 \in Places' /\ queue'[i - 1] = queue[(i - 1) + 1] /\ (i - 1) + 1 = i
          BY <1>5, <4>2 DEF Places
        <5> QED BY <3>1, <3>3, <5>1 DEF Comes, Places
      <4> QED BY <4>1, <4>2
    <3> QED BY <3>1, <3>2, <3>3 DEF Comes, Places
  <2>2. CASE s = cur.id
    <3>1. <<cur.id, t>> \in Towards(side, inMemory.edges)
      BY <1>2, <2>2, TowardsGrows DEF GraphsHold
    <3>2. t \in Neighbours(cur.id)
      BY <3>1 DEF Neighbours
    <3>3. CASE t \in DOMAIN visited'
      <4>1. visited'[t] \in Nat /\ visited'[t] <= cur.depth
        BY <1>2, <1>3, <1>4, <1>5, <3>3 DEF QueueInOrder, cur
      <4> QED BY <1>4, <2>2, <3>3, <4>1 DEF Comes, Places
    <3>4. CASE t \notin DOMAIN visited'
      <4>1. PICK i \in n + 1 .. Len(queue') : queue'[i].id = t
        BY <1>5, <3>2, <3>4
      <4>2. i \in Places' /\ queue'[i].depth = cur.depth + 1
        BY <1>5, <4>1 DEF Places
      <4> QED BY <1>4, <2>2, <4>1, <4>2 DEF Comes, Places
    <3> QED BY <3>3, <3>4
  <2> QED BY <1>4, <2>1, <2>2
<1>13. UNCHANGED <<inMemory, rebuilds, stage, side, todo, impact, kept, met>>
  BY <1>1 DEF graphs, times
<1>14. GraphsHold'
  BY <1>2, <1>13 DEF GraphsHold
<1>15. stage' = "search" /\ todo' = {} /\ impact' = impact /\ side' = side
  BY <1>1, <1>2, <1>13
<1> HIDE DEF n
<1> QED
  BY <1>2, <1>9, <1>10, <1>11, <1>12, <1>14, <1>15 DEF SearchHolds

(* A service is passed over: it was too far, or was visited from no farther. *)
LEMMA HoldsWhenSkipped ==
    ASSUME SearchInvariant, Skip
    PROVE  SearchHolds'
<1> DEFINE cur == queue[1]
<1>1. /\ Len(queue) \in Nat \ {0} /\ stage = "search" /\ queue \in Seq(Queued)
      /\ cur.depth > Limit \/ cur.id \in DOMAIN visited
      /\ Len(queue') = Len(queue) - 1 /\ \A i \in 1 .. Len(queue') : queue'[i] = queue[i + 1]
      /\ UNCHANGED <<inMemory, rebuilds, stage, side, visited, todo, impact, kept, met>>
  BY SkipDoes DEF SearchInvariant, SearchTypeOK, graphs, times
<1>2. /\ QueueInOrder /\ AllReached /\ RootFirst /\ Frontier /\ GraphsHold
      /\ todo = {} /\ impact[side] = NoImpact
      /\ side = "up" => impact["down"] = NoImpact
  BY <1>1 DEF SearchInvariant, SearchHolds
<1>3. Limit \in Nat /\ \A s \in DOMAIN visited : visited[s] \in Nat
  <2>1. Limit \in Nat /\ visited \in [DOMAIN visited -> 0 .. Limit]
    BY SearchAssumption DEF SearchInvariant, SearchTypeOK
  <2>2. \A s \in DOMAIN visited : visited[s] \in 0 .. Limit
    BY <2>1
  <2> QED BY <2>1, <2>2
<1>4. 1 \in Places /\ cur.depth \in Nat
  <2>1. 1 \in Places /\ cur \in Queued
    BY <1>1, ElementOfSeq DEF Places
  <2>2. cur.depth \in 0 .. Limit + 1
    BY <2>1 DEF Queued
  <2> HIDE DEF cur
  <2> QED BY <1>3, <2>1, <2>2
<1>5. ASSUME NEW i \in Places' PROVE i + 1 \in Places /\ queue'[i] = queue[i + 1]
  BY <1>1, <1>5 DEF Places
<1>6. QueueInOrder'
  <2>1. ASSUME NEW i \in Places', NEW j \in Places', i <= j
        PROVE  queue'[i].depth <= queue'[j].depth /\ queue'[j].depth <= queue'[i].depth + 1
    <3>1. i + 1 <= j + 1
      BY <1>1, <2>1 DEF Places
    <3> QED BY <1>2, <1>5, <3>1 DEF QueueInOrder
  <2>2. ASSUME NEW s \in DOMAIN visited', NEW i \in Places' PROVE visited'[s] <= queue'[i].depth
    BY <1>1, <1>2, <1>5 DEF QueueInOrder
  <2> QED BY <2>1, <2>2 DEF QueueInOrder
<1>7. AllReached'
  BY <1>1, <1>2, <1>5 DEF AllReached
<1>8. RootFirst'
  <2>1. CASE DOMAIN visited = {} /\ queue = <<[id |-> Root, depth |-> 0]>>
    <3>1. cur.depth = 0
      BY <2>1 DEF cur
    <3> QED BY <1>1, <1>3, <2>1, <3>1
  <2> QED BY <1>1, <1>2, <2>1 DEF RootFirst
<1>9. Frontier'
  <2> SUFFICES ASSUME NEW s \in DOMAIN visited, NEW t \in Services,
                      <<s, t>> \in Towards(side, kept.edges), visited[s] < Limit
               PROVE  Comes(visited, queue', t, visited[s] + 1)
    BY <1>1, Zenon DEF Frontier
  <2> DEFINE k == visited[s] + 1
  <2>1. Comes(visited, queue, t, k) /\ k \in Nat /\ k <= Limit
    BY <1>2, <1>3 DEF Frontier
  <2>2. CASE t \in DOMAIN visited /\ visited[t] <= k
    BY <2>2 DEF Comes
  <2>3. ASSUME NEW i \in Places, queue[i].id = t, queue[i].depth <= k PROVE Comes(visited, queue', t, k)
    <3>1. CASE i = 1
      <4>1. cur.id = t /\ cur.depth <= k
        BY <2>3, <3>1 DEF cur
      <4>2. t \in DOMAIN visited
        BY <1>1, <1>3, <1>4, <2>1, <4>1
      <4>3. visited[t] \in Nat /\ visited[t] <= cur.depth
        BY <1>2, <1>3, <1>4, <4>2 DEF QueueInOrder, cur
      <4>4. visited[t] <= k
        <5> HIDE DEF k, cur
        <5> QED BY <1>4, <2>1, <4>1, <4>3
      <4> QED BY <4>2, <4>4 DEF Comes
    <3>2. CASE i # 1
      <4>1. i - 1 \in 1 .. Len(queue') /\ (i - 1) + 1 = i
        BY <1>1, <3>2 DEF Places
      <4>2. queue'[i - 1] = queue[i]
        BY <1>1, <4>1
      <4> QED BY <2>3, <4>1, <4>2 DEF Comes
    <3> QED BY <3>1, <3>2
  <2> QED BY <2>1, <2>2, <2>3 DEF Comes, Places
<1>10. GraphsHold' /\ stage' = "search" /\ todo' = {} /\ impact' = impact /\ side' = side
  BY <1>1, <1>2 DEF GraphsHold
<1> QED
  BY <1>2, <1>6, <1>7, <1>8, <1>9, <1>10 DEF SearchHolds

(* Nothing is left to visit: nothing is listed yet. *)
LEMMA HoldsWhenSearched ==
    ASSUME SearchInvariant, EndSearch
    PROVE  SearchHolds'
<1>1. /\ stage = "search" /\ queue = <<>> /\ stage' = "list" /\ todo' = DOMAIN visited \ {Root}
      /\ UNCHANGED <<inMemory, side, visited, queue, impact, kept, met>>
  BY DEF EndSearch, graphs, times
<1>2. /\ QueueInOrder /\ AllReached /\ RootFirst /\ Frontier /\ GraphsHold /\ impact[side] = NoImpact
      /\ side = "up" => impact["down"] = NoImpact
  BY <1>1 DEF SearchInvariant, SearchHolds
<1>3. QueueInOrder' /\ RootFirst' /\ Frontier' /\ GraphsHold'
  BY <1>1, <1>2 DEF QueueInOrder, RootFirst, Frontier, GraphsHold, Places
<1>4. AllReached'
  BY <1>1, <1>2 DEF AllReached, Places
<1>5. ListHolds'
  BY <1>1, <1>2 DEF ListHolds, NoImpact
<1> QED
  BY <1>1, <1>2, <1>3, <1>4, <1>5 DEF SearchHolds

(* A service that was visited is looked up. *)
LEMMA HoldsWhenListed ==
    ASSUME SearchInvariant, NEW s \in Services, List(s)
    PROVE  SearchHolds'
<1>1. /\ stage = "list" /\ s \in todo /\ todo' = todo \ {s}
      /\ UNCHANGED <<inMemory, stage, side, visited, queue, kept, met>>
  BY DEF List, graphs, times
<1>2. /\ QueueInOrder /\ AllReached /\ RootFirst /\ Frontier /\ GraphsHold /\ ListHolds
      /\ queue = <<>> /\ Root \notin todo
      /\ side = "up" => impact["down"] = NoImpact
  BY <1>1 DEF SearchInvariant, SearchHolds
<1>3. QueueInOrder' /\ RootFirst' /\ Frontier' /\ GraphsHold'
  BY <1>1, <1>2 DEF QueueInOrder, RootFirst, Frontier, GraphsHold, Places
<1>4. AllReached'
  BY <1>1, <1>2 DEF AllReached, Places
<1>5. /\ s \in DOMAIN visited /\ visited[s] \in Nat /\ impact[side] \in Reported /\ side \in {"up", "down"}
      /\ impact \in [up : Reported, down : Reported]
  <2>1. SearchTypeOK /\ Limit \in Nat
    BY SearchAssumption DEF SearchInvariant
  <2>2. s \in DOMAIN visited /\ visited \in [DOMAIN visited -> 0 .. Limit]
    BY <1>1, <2>1 DEF SearchTypeOK
  <2>3. visited[s] \in 0 .. Limit
    BY <2>2
  <2>4. side \in {"up", "down"} /\ impact \in [up : Reported, down : Reported]
    BY <2>1 DEF SearchTypeOK
  <2> QED BY <2>1, <2>2, <2>3, <2>4
<1>6. impact[side].depth \in Nat /\ \A x \in impact[side].listed : x.depth \in Nat
  BY <1>5, SearchAssumption DEF Reported
<1>7. ListHolds' /\ (side = "up" => impact'["down"] = NoImpact)
  <2>1. CASE s \notin inMemory.nodes
    <3>1. impact' = impact /\ s \notin kept.nodes
      BY <1>2, <2>1 DEF List, GraphsHold
    <3> QED BY <1>1, <1>2, <3>1 DEF ListHolds
  <2>2. CASE s \in inMemory.nodes
    <3> DEFINE new == [id |-> s, depth |-> visited[s]]
               old == impact[side]
    <3>1. impact' = [impact EXCEPT ![side] = [listed |-> old.listed \union {new},
                                              depth |-> IF visited[s] > old.depth THEN visited[s] ELSE old.depth]]
      BY <2>2 DEF List
    <3>2. /\ impact'[side].listed = old.listed \union {new}
          /\ impact'[side].depth = IF visited[s] > old.depth THEN visited[s] ELSE old.depth
          /\ side = "up" => impact'["down"] = impact["down"]
      <4> HIDE DEF new
      <4> QED BY <1>5, <3>1
    <3>3. s \in met.nodes /\ s # Root
      BY <1>1, <1>2, <2>2 DEF GraphsHold
    <3>4. ASSUME NEW x \in impact'[side].listed
          PROVE  /\ x.id \in (DOMAIN visited \ {Root}) \ todo' /\ x.depth = visited[x.id] /\ x.id \in met.nodes
                 /\ x.depth <= impact'[side].depth
      <4>1. CASE x \in old.listed
        BY <1>1, <1>2, <1>5, <1>6, <3>2, <4>1 DEF ListHolds
      <4>2. CASE x = new
        BY <1>1, <1>5, <1>6, <3>2, <3>3, <4>2
      <4> QED BY <3>2, <4>1, <4>2
    <3>5. ASSUME NEW t \in (DOMAIN visited \ {Root}) \ todo', t \in kept.nodes
          PROVE  \E x \in impact'[side].listed : x.id = t /\ x.depth = visited[t]
      <4>1. CASE t = s
        <5>1. new \in impact'[side].listed
          BY <3>2
        <5>2. new.id = t /\ new.depth = visited[t]
          BY <4>1
        <5> HIDE DEF new, old
        <5> QED BY <5>1, <5>2
      <4>2. CASE t # s
        BY <1>1, <1>2, <3>2, <3>5, <4>2 DEF ListHolds
      <4> QED BY <4>1, <4>2
    <3>6. impact'[side].depth = 0 \/ \E x \in impact'[side].listed : x.depth = impact'[side].depth
      BY <1>2, <3>2 DEF ListHolds
    <3>7. UNCHANGED <<side, visited, kept, met>>
      BY <1>1
    <3> QED BY <1>2, <3>2, <3>4, <3>5, <3>6, <3>7 DEF ListHolds
  <2> QED BY <2>1, <2>2
<1> QED
  BY <1>1, <1>2, <1>3, <1>4, <1>7 DEF SearchHolds

(* The invariant holds at first, *)
LEMMA SearchBegins == SearchInit => SearchInvariant
<1> SUFFICES ASSUME SearchInit PROVE SearchInvariant
  OBVIOUS
<1>1. inMemory \in SearchGraph
  BY GraphTyped DEF SearchInit
<1>2. visited = <<>> /\ DOMAIN visited = {} /\ visited \in [DOMAIN visited -> 0 .. Limit] /\ queue \in Seq(Queued)
  BY NothingVisited, EmptySeq DEF SearchInit
<1>3. NoImpact \in Reported
  BY SearchAssumption DEF NoImpact, Reported
<1>4. rebuilds \in 0 .. MaxRebuilds
  BY SearchAssumption DEF SearchInit
<1>5. SearchTypeOK
  BY <1>1, <1>2, <1>3, <1>4 DEF SearchInit, SearchTypeOK
<1>6. SearchHolds
  BY DEF SearchInit, SearchHolds, GraphsHold
<1> QED
  BY <1>5, <1>6 DEF SearchInvariant

(* and every step keeps it. *)
LEMMA SearchGoesOn == SearchInvariant /\ [SearchNext]_searchVars => SearchInvariant'
<1> SUFFICES ASSUME SearchInvariant, [SearchNext]_searchVars PROVE SearchHolds'
  BY SearchTyped DEF SearchInvariant
<1>1. CASE RebuildGraph
  BY <1>1, HoldsWhenRebuilt
<1>2. CASE FindRoot
  <2>1. stage = "root" /\ impact = [up |-> NoImpact, down |-> NoImpact] /\ todo = {} /\ GraphsHold
    BY <1>2 DEF FindRoot, SearchInvariant, SearchHolds
  <2>2. CASE BeginSide("up")
    BY <2>1, <2>2, HoldsWhenBegun
  <2>3. CASE stage' = "not found" /\ UNCHANGED <<graphs, side, visited, queue, todo, impact, times>>
    BY <2>1, <2>3 DEF SearchHolds, GraphsHold, graphs, times
  <2> QED BY <1>2, <2>2, <2>3 DEF FindRoot
<1>3. CASE Visit
  BY <1>3, HoldsWhenVisited
<1>4. CASE Skip
  BY <1>4, HoldsWhenSkipped
<1>5. CASE EndSearch
  BY <1>5, HoldsWhenSearched
<1>6. CASE NextSide
  <2>1. stage = "list" /\ todo = {} /\ GraphsHold /\ (side = "up" => impact["down"] = NoImpact)
    BY <1>6 DEF NextSide, SearchInvariant, SearchHolds
  <2>2. CASE side = "up"
    BY <1>6, <2>1, <2>2, HoldsWhenBegun DEF NextSide
  <2>3. CASE side # "up"
    BY <1>6, <2>1, <2>3 DEF NextSide, SearchHolds, GraphsHold, graphs, times
  <2> QED BY <2>2, <2>3
<1>7. ASSUME NEW s \in Services, List(s) PROVE SearchHolds'
  BY <1>7, HoldsWhenListed
<1>8. CASE UNCHANGED searchVars
  <2>1. SearchHolds
    BY DEF SearchInvariant
  <2>2. UNCHANGED <<inMemory, stage, side, visited, queue, todo, impact, kept, met>>
    BY <1>8 DEF searchVars
  <2>3. (GraphsHold => GraphsHold') /\ (QueueInOrder => QueueInOrder') /\ (AllReached => AllReached')
    BY <2>2 DEF GraphsHold, QueueInOrder, AllReached, Places
  <2>4. (RootFirst => RootFirst') /\ (Frontier => Frontier') /\ (ListHolds => ListHolds')
    BY <2>2 DEF RootFirst, Frontier, ListHolds
  <2> QED BY <2>1, <2>2, <2>3, <2>4 DEF SearchHolds
<1> QED
  BY <1>1, <1>2, <1>3, <1>4, <1>5, <1>6, <1>7, <1>8 DEF SearchNext, Returned

(* The inductive invariant holds of every call. *)
THEOREM SearchInvariantHolds == SearchSpec => []SearchInvariant
  BY SearchBegins, SearchGoesOn, PTL DEF SearchSpec

(* Every variable of a call keeps its type. *)
THEOREM SearchTypeCorrect == SearchSpec => []SearchTypeOK
  BY SearchInvariantHolds, PTL DEF SearchInvariant

(* When a side was searched and listed, the invariant says what is on the list. *)
LEMMA ListedWhenEnded ==
    ASSUME SearchInvariant, SideEnded
    PROVE  /\ ListHolds /\ AllReached /\ RootFirst /\ Frontier /\ todo = {} /\ queue = <<>>
           /\ Limit \in Nat /\ \A s \in DOMAIN visited : visited[s] \in 0 .. Limit
           /\ impact[side] \in Reported /\ side \in {"up", "down"}
<1>1. SearchTypeOK /\ Limit \in Nat
  BY SearchAssumption DEF SearchInvariant
<1>2. visited \in [DOMAIN visited -> 0 .. Limit]
  BY <1>1 DEF SearchTypeOK
<1>3. impact[side] \in Reported /\ side \in {"up", "down"}
  BY <1>1 DEF SearchTypeOK
<1> QED
  BY <1>1, <1>2, <1>3 DEF SideEnded, SearchInvariant, SearchHolds

(* Whatever is rebuilt meanwhile, what a call lists was there and was that far away. *)
THEOREM ImpactGrounded == SearchSpec => []ImpactIsGrounded
<1>1. SearchInvariant => ImpactIsGrounded
  <2> SUFFICES ASSUME SearchInvariant, SideEnded
               PROVE  LET result == impact[side]
                      IN  /\ \A x \in result.listed :
                                /\ x.id \in met.nodes \ {Root}
                                /\ \E w \in Walks(side, met.edges, x.depth) : w[x.depth] = x.id
                                /\ x.depth <= result.depth
                                /\ \A y \in result.listed : y.id = x.id => y = x
                          /\ result.depth = 0 \/ \E x \in result.listed : x.depth = result.depth
    BY DEF ImpactIsGrounded
  <2>1. ListHolds /\ AllReached /\ impact[side] \in Reported
    BY ListedWhenEnded
  <2>2. ASSUME NEW x \in impact[side].listed
        PROVE  /\ x.id \in met.nodes \ {Root}
               /\ \E w \in Walks(side, met.edges, x.depth) : w[x.depth] = x.id
               /\ x.depth <= impact[side].depth
    <3>1. /\ x.id \in DOMAIN visited \ {Root} /\ x.depth = visited[x.id] /\ x.id \in met.nodes
          /\ x.depth <= impact[side].depth
      BY <2>1 DEF ListHolds
    <3>2. Reached(side, met.edges, x.id, x.depth)
      BY <2>1, <3>1 DEF AllReached
    <3> QED BY <3>1, <3>2 DEF Reached
  <2>3. ASSUME NEW x \in impact[side].listed, NEW y \in impact[side].listed, y.id = x.id PROVE y = x
    <3>1. x.depth = visited[x.id] /\ y.depth = visited[y.id]
      BY <2>1 DEF ListHolds
    <3>2. x \in [id : Services, depth : 0 .. Limit] /\ y \in [id : Services, depth : 0 .. Limit]
      BY <2>1 DEF Reported
    <3> QED BY <2>3, <3>1, <3>2
  <2>4. impact[side].depth = 0 \/ \E x \in impact[side].listed : x.depth = impact[side].depth
    BY <2>1 DEF ListHolds
  <2> QED BY <2>2, <2>3, <2>4
<1> QED
  BY <1>1, SearchInvariantHolds, PTL

(* Some members of an interval have a first one. *)
LEMMA FirstOf ==
    ASSUME NEW k \in Nat, NEW S \in SUBSET (0 .. k), S # {}
    PROVE  \E i \in S : \A j \in S : i <= j
<1> DEFINE upto == {0 .. i : i \in S}
<1>1. IsFiniteSet(0 .. k)
  BY FS_Interval
<1>2. IsWellFoundedOn(StrictSubsetOrdering(0 .. k), SUBSET (0 .. k))
  BY <1>1, FS_FiniteSubsetsOfFinite, FS_StrictSubsetOrderingWellFounded, Zenon
<1>3. upto \in SUBSET SUBSET (0 .. k) /\ upto # {}
  <2>1. \A i \in S : 0 .. i \in SUBSET (0 .. k)
    <3> TAKE i \in S
    <3>1. i \in Nat /\ i <= k
      OBVIOUS
    <3> QED BY <3>1
  <2> HIDE DEF upto
  <2>2. \A s \in upto : s \in SUBSET (0 .. k)
    BY <2>1 DEF upto
  <2>3. upto # {}
    BY DEF upto
  <2> QED BY <2>2, <2>3
<1>4. PICK s \in upto : \A t \in upto : ~ (<<t, s>> \in StrictSubsetOrdering(0 .. k))
  <2> HIDE DEF upto
  <2> QED BY <1>2, <1>3, WFMin, Zenon
<1>5. PICK i \in S : s = 0 .. i
  BY <1>4
<1>6. ASSUME NEW j \in S, j < i PROVE FALSE
  <2>1. i \in Nat /\ j \in Nat
    OBVIOUS
  <2>2. 0 .. j \in upto /\ 0 .. j \subseteq 0 .. i /\ 0 .. j # 0 .. i
    BY <1>6, <2>1
  <2> QED BY <1>3, <1>4, <1>5, <2>2 DEF StrictSubsetOrdering
<1>7. \A j \in S : i <= j
  BY <1>6
<1> QED
  BY <1>7

(* Along a walk of the kept graph, each service is visited from no farther than its place on the walk: *)
(* else there would be a first that is not, and its predecessor would have put it on the queue.        *)
LEMMA WalkIsVisited ==
    ASSUME SearchInvariant, SideEnded, NEW k \in 0 .. Limit, NEW w \in Walks(side, kept.edges, k)
    PROVE  w[k] \in DOMAIN visited /\ visited[w[k]] <= k
<1>1. /\ RootFirst /\ Frontier /\ queue = <<>> /\ Limit \in Nat
      /\ \A s \in DOMAIN visited : visited[s] \in 0 .. Limit
  BY ListedWhenEnded
<1>2. w \in [0 .. k -> Services] /\ w[0] = Root /\ \A i \in 1 .. k : <<w[i - 1], w[i]>> \in Towards(side, kept.edges)
  BY DEF Walks
<1> DEFINE missed == {i \in 0 .. k : ~ (w[i] \in DOMAIN visited /\ visited[w[i]] <= i)}
<1>3. ASSUME missed # {} PROVE FALSE
  <2>1. PICK i \in missed : \A j \in missed : i <= j
    <3>1. k \in Nat /\ missed \in SUBSET (0 .. k)
      BY <1>1
    <3> HIDE DEF missed
    <3> QED BY <1>3, <3>1, FirstOf
  <2>2. Root \in DOMAIN visited /\ visited[Root] = 0
    <3>1. queue # <<[id |-> Root, depth |-> 0]>>
      BY <1>1, RootQueued
    <3> QED BY <1>1, <3>1 DEF RootFirst
  <2>3. i # 0
    BY <1>2, <2>1, <2>2
  <2>4. i \in 1 .. k /\ i - 1 \in 0 .. k /\ i - 1 \notin missed
    BY <1>1, <2>1, <2>3
  <2> DEFINE s == w[i - 1]
  <2>5. s \in DOMAIN visited /\ visited[s] <= i - 1 /\ visited[s] \in Nat
    BY <1>1, <2>4
  <2>6. <<s, w[i]>> \in Towards(side, kept.edges) /\ w[i] \in Services /\ visited[s] < Limit
    <3>1. <<s, w[i]>> \in Towards(side, kept.edges) /\ w[i] \in Services
      BY <1>2, <2>4
    <3>2. visited[s] < Limit
      <4> HIDE DEF s
      <4> QED BY <1>1, <2>4, <2>5
    <3> QED BY <3>1, <3>2
  <2>7. Comes(visited, queue, w[i], visited[s] + 1)
    BY <1>1, <2>5, <2>6 DEF Frontier
  <2>8. w[i] \in DOMAIN visited /\ visited[w[i]] <= visited[s] + 1
    BY <1>1, <2>7 DEF Comes
  <2>9. visited[w[i]] <= i
    <3>1. visited[w[i]] \in Nat
      BY <1>1, <2>8
    <3> HIDE DEF s
    <3> QED BY <2>4, <2>5, <2>8, <3>1
  <2> QED BY <2>1, <2>8, <2>9
<1>4. k \in 0 .. k
  BY <1>1
<1> QED
  BY <1>3, <1>4

(* Whatever is rebuilt meanwhile, what was there all the time, within the limit, is on the list of a call. *)
THEOREM ImpactComplete == SearchSpec => []ImpactIsComplete
<1>1. SearchInvariant => ImpactIsComplete
  <2> SUFFICES ASSUME SearchInvariant, SideEnded, NEW k \in 0 .. Limit, NEW w \in Walks(side, kept.edges, k),
                      w[k] \in kept.nodes \ {Root}
               PROVE  \E x \in impact[side].listed : x.id = w[k] /\ x.depth <= k
    BY DEF ImpactIsComplete
  <2>1. w[k] \in DOMAIN visited /\ visited[w[k]] <= k
    BY WalkIsVisited
  <2>2. ListHolds /\ todo = {}
    BY ListedWhenEnded
  <2>3. PICK x \in impact[side].listed : x.id = w[k] /\ x.depth = visited[w[k]]
    BY <2>1, <2>2 DEF ListHolds
  <2> QED BY <2>1, <2>3
<1> QED
  BY <1>1, SearchInvariantHolds, PTL

(* An analysis answers for the time of its search, whatever is rebuilt meanwhile (graph_analyzer.go:43-147). *)
THEOREM ImpactOfItsTime == SearchSpec => []ImpactIsOfItsTime
  BY ImpactGrounded, ImpactComplete, PTL DEF ImpactIsOfItsTime
=============================================================================
