------------------------- MODULE PeriodicTask_proof -------------------------
(***************************************************************************)
(* Proofs about PeriodicTask, for any number of tasks, retries, starts and *)
(* failures; and about the work of its tasks: ImpactCache, for any         *)
(* services, runs, batch sizes and calls, and Discovery, for any cluster,  *)
(* changes of it and failures.                                             *)
(***************************************************************************)
EXTENDS PeriodicTask, ImpactCache, Discovery, FiniteSetTheorems, TLAPS

USE TaskAssumption

(* The number of the members of Live and of the followed tasks is a natural number. *)
LEMMA LiveFinite == IsFiniteSet(Live) /\ Cardinality(Live) \in Nat
  BY FS_Subset, FS_CardinalityType DEF Live

(* The tasks that have a successor are finitely many. *)
LEMMA FollowedFinite ==
    LET followed == {i \in Ids : task[i] = "followed"}
    IN  IsFiniteSet(followed) /\ Cardinality(followed) \in Nat
  BY FS_Subset, FS_CardinalityType

(* Every variable keeps its type, within the bounds. *)
THEOREM TypeCorrect == Spec => []TypeOK
<1>1. Init => TypeOK
  BY DEF Init, TypeOK
<1>2. TypeOK /\ [Next]_vars => TypeOK'
  <2> SUFFICES ASSUME TypeOK, [Next]_vars PROVE TypeOK'
    OBVIOUS
  <2> USE DEF TypeOK, history
  <2>1. CASE StartProcess \/ Register \/ Stop
    BY <2>1 DEF StartProcess, Register, Stop
  <2>2. CASE StartServer
    BY <2>2 DEF StartServer, Fails
  <2>3. CASE Enqueue
    <3>1. CASE UNCHANGED <<task, tries>>
      BY <2>3, <3>1 DEF Enqueue, Fails
    <3>2. ASSUME NEW i \in Ids, New(i), task' = [task EXCEPT ![i] = "pending"], UNCHANGED failures
          PROVE  TypeOK'
      BY <2>3, <3>2 DEF Enqueue, New
    <3> QED
      BY <2>3, <3>1, <3>2 DEF Enqueue
  <2>4. ASSUME NEW i \in Ids, Take(i) PROVE TypeOK'
    BY <2>4 DEF Take, Serving
  <2>5. ASSUME NEW i \in Ids, TakeUnregistered(i) PROVE TypeOK'
    BY <2>5 DEF TakeUnregistered, Retry, Serving
  <2>6. ASSUME NEW i \in Ids, Follow(i) PROVE TypeOK'
    <3>1. ASSUME NEW j \in Ids, New(j), task' = [task EXCEPT ![i] = "followed", ![j] = "pending"],
                 UNCHANGED <<failures, ended>>
          PROVE  TypeOK'
      BY <2>6, <3>1 DEF Follow, New
    <3>2. CASE Fails /\ task' = [task EXCEPT ![i] = "followed"] /\ ended' = ended + 1 /\ UNCHANGED tries
      BY <2>6, <3>2 DEF Follow, Fails
    <3> QED
      BY <2>6, <3>1, <3>2 DEF Follow
  <2>7. ASSUME NEW i \in Ids, Acknowledge(i) PROVE TypeOK'
    BY <2>7 DEF Acknowledge
  <2>8. ASSUME NEW i \in Ids, TimeOut(i) PROVE TypeOK'
    BY <2>8 DEF TimeOut, Retry
  <2>9. ASSUME NEW i \in Ids, Recover(i) PROVE TypeOK'
    BY <2>9 DEF Recover, Retry
  <2>10. CASE Exit
    BY <2>10, FollowedFinite DEF Exit, Return
  <2>11. CASE Crash
    BY <2>11, FollowedFinite DEF Crash, Return
  <2>12. CASE UNCHANGED vars
    BY <2>12 DEF vars
  <2> QED
    BY <2>1, <2>2, <2>3, <2>4, <2>5, <2>6, <2>7, <2>8, <2>9, <2>10, <2>11, <2>12 DEF Next, Work
<1> QED
  BY <1>1, <1>2, PTL DEF Spec

-----------------------------------------------------------------------------
(* How many tasks live when one of them, or the first one, changes its state. *)
LEMMA LiveLess ==
    ASSUME NEW i \in Live, Live' = Live \ {i}
    PROVE  Cardinality(Live') = Cardinality(Live) - 1
  BY LiveFinite, FS_RemoveElement

(* A task more. *)
LEMMA LiveMore ==
    ASSUME NEW i \in Ids, i \notin Live, Live' = Live \union {i}
    PROVE  Cardinality(Live') = Cardinality(Live) + 1
  BY LiveFinite, FS_AddElement

(* One task takes the place of another. *)
LEMMA LiveSame ==
    ASSUME NEW i \in Live, NEW j \in Ids, j \notin Live, Live' = (Live \ {i}) \union {j}
    PROVE  Cardinality(Live') = Cardinality(Live)
<1>1. /\ IsFiniteSet(Live \ {i})
      /\ Cardinality(Live \ {i}) = Cardinality(Live) - 1
  BY LiveFinite, FS_RemoveElement
<1>2. Cardinality((Live \ {i}) \union {j}) = Cardinality(Live) - 1 + 1
  BY <1>1, FS_AddElement
<1> QED
  BY <1>2, LiveFinite

(* A task that is retried lives on; one that is archived is counted. *)
LEMMA RetryCounts ==
    ASSUME TypeOK, NEW i \in Ids, task[i] \in {"pending", "running", "leased"}, Retry(i)
    PROVE  Cardinality(Live') + ended' = Cardinality(Live) + ended
<1>1. CASE task' = [task EXCEPT ![i] = "pending"] /\ UNCHANGED ended
  BY <1>1 DEF Live, TypeOK
<1>2. CASE task' = [task EXCEPT ![i] = "none"] /\ ended' = ended + 1
  <2>1. i \in Live /\ Live' = Live \ {i}
    BY <1>2 DEF Live, TypeOK
  <2> QED
    BY <1>2, <2>1, LiveLess, LiveFinite DEF TypeOK
<1> QED
  BY <1>1, <1>2 DEF Retry

(* What a worker had in its hands lives, and if a successor had been enqueued it is *)
(* counted as repeated.                                                             *)
LEMMA ReturnCounts ==
    ASSUME TypeOK, NEW s \in {"pending", "leased"}, Return(s)
    PROVE  Cardinality(Live') - repeated' = Cardinality(Live) - repeated
<1> DEFINE followed == {i \in Ids : task[i] = "followed"}
<1>1. Live' = Live \union followed /\ Live \intersect followed = {}
  BY DEF Return, Live, TypeOK
<1>2. Cardinality(Live') = Cardinality(Live) + Cardinality(followed)
  <2> HIDE DEF followed
  <2>1. IsFiniteSet(followed)
    BY FollowedFinite DEF followed
  <2>2. Cardinality(Live \union followed)
          = Cardinality(Live) + Cardinality(followed) - Cardinality(Live \intersect followed)
    BY <2>1, LiveFinite, FS_Union
  <2>3. Cardinality(followed) \in Nat /\ Cardinality(Live \intersect followed) = 0
    BY <1>1, <2>1, FS_CardinalityType, FS_EmptySet
  <2> QED
    BY <1>1, <2>2, <2>3, LiveFinite
<1>3. repeated' = repeated + Cardinality(followed)
  BY DEF Return
<1> QED
  BY <1>2, <1>3, LiveFinite, FollowedFinite DEF TypeOK

(* The tasks that repeat themselves are as many as were started or repeated and have *)
(* not come to an end.                                                               *)
THEOREM Accounted == Spec => []ChainsAccounted
<1>1. Init => ChainsAccounted
  <2> SUFFICES ASSUME Init PROVE ChainsAccounted
    OBVIOUS
  <2>1. Live = {}
    BY DEF Init, Live
  <2> QED
    BY <2>1, FS_EmptySet DEF Init, ChainsAccounted
<1>2. TypeOK /\ ChainsAccounted /\ [Next]_vars => ChainsAccounted'
  <2> SUFFICES ASSUME TypeOK, ChainsAccounted, [Next]_vars PROVE ChainsAccounted'
    OBVIOUS
  <2> USE LiveFinite DEF ChainsAccounted, history
  <2>1. ASSUME UNCHANGED <<task, history>> PROVE ChainsAccounted'
    BY <2>1 DEF Live
  <2>2. ASSUME NEW i \in Ids, Enqueue, New(i), task' = [task EXCEPT ![i] = "pending"],
               enqueued' = enqueued + 1
        PROVE  ChainsAccounted'
    <3>1. i \notin Live /\ Live' = Live \union {i}
      BY <2>2 DEF New, Live, TypeOK
    <3>2. Cardinality(Live') = Cardinality(Live) + 1
      BY <3>1, LiveMore
    <3> QED
      BY <2>2, <3>2 DEF Enqueue, TypeOK
  <2>3. ASSUME NEW i \in Ids, Take(i) PROVE ChainsAccounted'
    <3>1. Live' = Live
      BY <2>3 DEF Take, Live, TypeOK
    <3> QED
      BY <2>3, <3>1 DEF Take
  <2>4. ASSUME NEW i \in Ids, TakeUnregistered(i) \/ TimeOut(i) \/ Recover(i)
        PROVE  ChainsAccounted'
    <3>1. /\ task[i] \in {"pending", "running", "leased"}
          /\ Retry(i)
          /\ UNCHANGED <<enqueued, repeated>>
      BY <2>4 DEF TakeUnregistered, TimeOut, Recover
    <3> QED
      BY <3>1, RetryCounts DEF TypeOK
  <2>5. ASSUME NEW i \in Ids, NEW j \in Ids, Follow(i), New(j), UNCHANGED ended,
               task' = [task EXCEPT ![i] = "followed", ![j] = "pending"]
        PROVE  ChainsAccounted'
    <3>1. i \in Live /\ j \notin Live /\ Live' = (Live \ {i}) \union {j}
      BY <2>5 DEF Follow, New, Live, TypeOK
    <3> QED
      BY <2>5, <3>1, LiveSame DEF Follow
  <2>6. ASSUME NEW i \in Ids, Follow(i), task' = [task EXCEPT ![i] = "followed"], ended' = ended + 1
        PROVE  ChainsAccounted'
    <3>1. i \in Live /\ Live' = Live \ {i}
      BY <2>6 DEF Follow, Live, TypeOK
    <3>2. Cardinality(Live') = Cardinality(Live) - 1
      BY <3>1, LiveLess
    <3> QED
      BY <2>6, <3>2 DEF Follow, TypeOK
  <2>7. ASSUME NEW i \in Ids, Acknowledge(i) PROVE ChainsAccounted'
    <3>1. Live' = Live
      BY <2>7 DEF Acknowledge, Live, TypeOK
    <3> QED
      BY <2>7, <3>1 DEF Acknowledge
  <2>8. CASE Exit \/ Crash
    <3>1. /\ \E s \in {"pending", "leased"} : Return(s)
          /\ UNCHANGED <<enqueued, ended>>
      BY <2>8 DEF Exit, Crash
    <3>2. Cardinality(Live') - repeated' = Cardinality(Live) - repeated
      BY <3>1, ReturnCounts
    <3>3. repeated' \in Nat /\ Cardinality(Live') \in Nat
      <4>1. IsFiniteSet(Live')
        BY FS_Subset DEF Live
      <4> QED
        BY <3>1, <4>1, FollowedFinite, FS_CardinalityType DEF Return, TypeOK
    <3> QED
      BY <3>1, <3>2, <3>3 DEF TypeOK
  <2>9. CASE StartProcess \/ StartServer \/ Register \/ Stop \/ UNCHANGED vars
    BY <2>1, <2>9 DEF StartProcess, StartServer, Register, Stop, vars
  <2>10. CASE Enqueue
    BY <2>1, <2>2, <2>10 DEF Enqueue
  <2>11. ASSUME NEW i \in Ids, Follow(i) PROVE ChainsAccounted'
    BY <2>5, <2>6, <2>11 DEF Follow
  <2> QED
    BY <2>3, <2>4, <2>7, <2>8, <2>9, <2>10, <2>11 DEF Next, Work
<1> QED
  BY <1>1, <1>2, TypeCorrect, PTL DEF Spec

(* A service that has started has enqueued a task, or Redis has failed. *)
Started == phase = "up" => enqueued > 0 \/ failures > 0

(* A service that is up is refreshed again, unless a failure was logged. *)
THEOREM SilentEndNever == Spec => []NoSilentEnd
<1>1. Init => Started
  BY DEF Init, Started
<1>2. TypeOK /\ Started /\ [Next]_vars => Started'
  <2> SUFFICES ASSUME TypeOK, Started, [Next]_vars PROVE Started'
    OBVIOUS
  <2> USE DEF TypeOK, Started
  <2>1. phase' = "up" => phase = "up" \/ Enqueue
    BY DEF Next, Work, StartProcess, StartServer, Register, Take, TakeUnregistered, Follow,
           Acknowledge, TimeOut, Recover, Stop, Exit, Crash, vars
  <2>2. CASE Enqueue
    BY <2>2 DEF Enqueue, Fails
  <2>3. enqueued' \in {enqueued, enqueued + 1} /\ failures' \in {failures, failures + 1}
    BY DEF Next, Work, StartProcess, StartServer, Register, Enqueue, Take, TakeUnregistered, Follow,
           Acknowledge, TimeOut, Recover, Stop, Exit, Crash, vars, Fails, history
  <2> QED
    BY <2>1, <2>2, <2>3
<1>3. TypeOK /\ ChainsAccounted /\ Started => NoSilentEnd
  BY FS_EmptySet DEF TypeOK, ChainsAccounted, Started, NoSilentEnd
<1> QED
  BY <1>1, <1>2, <1>3, TypeCorrect, Accounted, PTL DEF Spec

-----------------------------------------------------------------------------
HIDE TaskAssumption

(* The cache of impact analyses.  Every variable has its type. *)
ImpactEntry == [from : Nat, overtaken : BOOLEAN]
ImpactJob == [pc : {"idle", "look", "read", "store", "answered", "ended"}, op : Ops \union {None},
              service : Services \union {None}, from : Nat, overtaken : BOOLEAN, asked : Nat]
ImpactRun == [pc : {"idle", "batch", "count", "done", "failed"}, todo : SUBSET Services, size : Nat,
              inBatch : Nat, processed : Nat, cancelled : BOOLEAN]
ImpactTypeOK == /\ graph \in [version : Nat, nodes : SUBSET Services]
                /\ impact \in [Services -> ImpactEntry \union {None}]
                /\ run \in [Runs -> ImpactRun]
                /\ job \in [Jobs -> ImpactJob]
                /\ clearing \in [keys : SUBSET Services, at : Nat] \union {None}
                /\ invalidated \in [Services -> Nat]
                /\ precomputed \in Nat /\ begun \in Nat

(* No invalidation is of a graph that is still to come. *)
InvalidatedBefore == /\ \A s \in Services : invalidated[s] =< graph.version
                     /\ clearing # None => clearing.at =< graph.version

(* A result that is older than version v is known to have been overtaken. *)
Known(result, v) == result.from < v => result.overtaken

(* What is in the cache is of after the last invalidation, or overtaken by it; as it is when   *)
(* the one that is under way has ended, which deletes the keys it has listed.                  *)
EntriesKnown == \A s \in Services : impact[s] # None =>
                   /\ Known(impact[s], invalidated[s])
                   /\ clearing # None /\ s \notin clearing.keys => Known(impact[s], clearing.at)

(* What is still to be stored, too. *)
ResultsKnown == \A k \in Jobs : job[k].pc = "store" =>
                   /\ Known(job[k], invalidated[job[k].service])
                   /\ clearing # None => Known(job[k], clearing.at)

(* What a job is about, and a call remembers. *)
JobsPlaced == /\ \A k \in Jobs : job[k].pc \in {"look", "read", "store"} => job[k].service \in Services
              /\ \A c \in Calls : job[c].pc \in {"look", "read", "store", "answered"} =>
                    job[c].service = About[c] /\ job[c].asked =< invalidated[About[c]]

(* The inductive invariant. *)
ImpactInvariant == /\ ImpactTypeOK /\ InvalidatedBefore /\ EntriesKnown /\ ResultsKnown /\ JobsPlaced
                   /\ StaleOnlyIfOvertaken

(* The invariant holds at the start. *)
LEMMA ImpactBegins == ImpactInit => ImpactInvariant
<1> SUFFICES ASSUME ImpactInit PROVE ImpactInvariant
  OBVIOUS
<1>1. Idle \in ImpactJob /\ Idle.pc = "idle"
  BY DEF Idle, ImpactJob
<1>2. \A k \in Jobs : job[k].pc = "idle"
  BY <1>1 DEF ImpactInit
<1>3. run \in [Runs -> ImpactRun]
  BY ImpactAssumption DEF ImpactInit, ImpactRun
<1>4. ImpactTypeOK
  BY <1>1, <1>3 DEF ImpactInit, ImpactTypeOK
<1>5. InvalidatedBefore /\ EntriesKnown
  BY DEF ImpactInit, InvalidatedBefore, EntriesKnown
<1>6. ResultsKnown /\ JobsPlaced /\ StaleOnlyIfOvertaken
  BY <1>2 DEF ResultsKnown, JobsPlaced, StaleOnlyIfOvertaken, Is, Jobs
<1> QED
  BY <1>4, <1>5, <1>6 DEF ImpactInvariant

(* A job goes on, and perhaps writes an entry: rec is what becomes of it. *)
ImpactFits(k, rec) ==
    /\ rec \in ImpactJob
    /\ rec.pc = "store" => /\ Known(rec, invalidated[rec.service])
                           /\ clearing # None => Known(rec, clearing.at)
    /\ rec.pc \in {"look", "read", "store"} => rec.service \in Services
    /\ k \in Calls /\ rec.pc \in {"look", "read", "store", "answered"} =>
          rec.service = About[k] /\ rec.asked =< invalidated[About[k]]
    /\ k \in Calls /\ rec.pc = "answered" => Known(rec, rec.asked)

(* A job goes on, and may store a result that is known to be old or is not. *)
LEMMA JobGoesOn ==
    ASSUME ImpactInvariant, NEW k \in Jobs, NEW rec, ImpactFits(k, rec),
           job' = [job EXCEPT ![k] = rec],
           UNCHANGED <<graph, clearing, invalidated, precomputed, begun>>,
           run' \in [Runs -> ImpactRun], impact' \in [Services -> ImpactEntry \union {None}],
           \A s \in Services : \/ impact'[s] = impact[s]
                               \/ /\ Known(impact'[s], invalidated[s])
                                  /\ clearing # None => Known(impact'[s], clearing.at)
    PROVE  ImpactInvariant'
<1>1. ImpactTypeOK'
  BY DEF ImpactInvariant, ImpactTypeOK, ImpactFits
<1>2. job'[k] = rec /\ \A j \in Jobs \ {k} : job'[j] = job[j]
  BY DEF ImpactInvariant, ImpactTypeOK
<1>3. InvalidatedBefore'
  BY DEF ImpactInvariant, InvalidatedBefore
<1>4. EntriesKnown'
  BY DEF ImpactInvariant, EntriesKnown, Known
<1>5. ResultsKnown'
  BY <1>2 DEF ImpactInvariant, ResultsKnown, Known, ImpactFits, ImpactTypeOK
<1>6. JobsPlaced' /\ StaleOnlyIfOvertaken'
  <2>1. Calls \subseteq Jobs
    BY DEF Jobs
  <2> QED
    BY <1>2, <2>1 DEF ImpactInvariant, JobsPlaced, StaleOnlyIfOvertaken, Is, Known, ImpactFits
<1> QED
  BY <1>1, <1>3, <1>4, <1>5, <1>6 DEF ImpactInvariant

(* A job ends, with nothing or with what it has found or computed. *)
LEMMA JobEnds ==
    ASSUME ImpactInvariant, NEW k \in Jobs
    PROVE  /\ End(k) <=> job' = [job EXCEPT ![k] = [Idle EXCEPT !.pc = "ended"]]
           /\ ImpactFits(k, [Idle EXCEPT !.pc = "ended"])
  BY DEF End, Idle, ImpactFits, ImpactJob

(* A call is answered. *)
LEMMA JobAnswers ==
    ASSUME ImpactInvariant, NEW k \in Jobs, NEW result \in ImpactEntry,
           job[k].pc \in {"look", "store"},
           Known(result, invalidated[job[k].service]), Answer(k, result)
    PROVE  \E rec : ImpactFits(k, rec) /\ job' = [job EXCEPT ![k] = rec]
<1> DEFINE rec == [job[k] EXCEPT !.pc = "answered", !.from = result.from, !.overtaken = result.overtaken]
<1>1. job[k] \in ImpactJob
  BY DEF ImpactInvariant, ImpactTypeOK
<1>2. /\ rec \in ImpactJob /\ rec.pc = "answered" /\ rec.from = result.from /\ rec.overtaken = result.overtaken
      /\ rec.asked = job[k].asked /\ rec.service = job[k].service
  BY <1>1 DEF ImpactJob, ImpactEntry
<1>3. job' = [job EXCEPT ![k] = rec]
  BY DEF Answer
<1> HIDE DEF rec
<1>4. k \in Calls => job[k].service = About[k] /\ job[k].asked =< invalidated[About[k]]
  BY DEF ImpactInvariant, JobsPlaced
<1>5. k \in Calls => Known(rec, rec.asked)
  <2> SUFFICES ASSUME k \in Calls, rec.from < rec.asked PROVE rec.overtaken
    BY DEF Known
  <2>1. rec.from \in Nat /\ rec.asked \in Nat /\ invalidated[About[k]] \in Nat
    BY <1>2, ImpactAssumption DEF ImpactJob, ImpactInvariant, ImpactTypeOK
  <2>2. result.from < invalidated[job[k].service]
    BY <1>2, <1>4, <2>1
  <2> QED
    BY <1>2, <2>2 DEF Known
<1>6. ImpactFits(k, rec)
  BY <1>2, <1>4, <1>5 DEF ImpactFits
<1> QED
  BY <1>3, <1>6

(* A call begins. *)
LEMMA CallSteps ==
    ASSUME ImpactInvariant, NEW c \in Calls, NEW op \in Ops, Call(c, op)
    PROVE  ImpactInvariant'
<1> DEFINE label == IF op = "precompute" THEN "read" ELSE "look"
           rec == [Idle EXCEPT !.pc = label, !.op = op, !.service = About[c], !.asked = invalidated[About[c]]]
<1>0. label \in {"look", "read"}
  OBVIOUS
<1>1. About[c] \in Services /\ invalidated[About[c]] \in Nat /\ c \in Jobs
  BY ImpactAssumption DEF ImpactInvariant, ImpactTypeOK, Jobs
<1>2. job' = [job EXCEPT ![c] = rec] /\ UNCHANGED <<graph, impact, run, clearing, invalidated, precomputed, begun>>
  BY DEF Call, cached
<1> HIDE DEF label
<1>3. ImpactFits(c, rec)
  <2>1. /\ rec \in ImpactJob /\ rec.pc = label /\ rec.service = About[c] /\ rec.asked = invalidated[About[c]]
    BY <1>0, <1>1 DEF Idle, ImpactJob
  <2> HIDE DEF rec
  <2> QED
    BY <1>0, <1>1, <2>1 DEF ImpactFits
<1> HIDE DEF rec
<1>4. run' \in [Runs -> ImpactRun] /\ impact' \in [Services -> ImpactEntry \union {None}]
  BY <1>2 DEF ImpactInvariant, ImpactTypeOK
<1> QED
  BY <1>1, <1>2, <1>3, <1>4, JobGoesOn

(* A goroutine or a call looks for an entry, or reads the graph. *)
LEMMA LookSteps ==
    ASSUME ImpactInvariant, NEW k \in Jobs, Look(k) \/ Read(k)
    PROVE  ImpactInvariant'
<1>1. UNCHANGED <<graph, impact, run, clearing, invalidated, precomputed, begun>>
  BY DEF Look, Read, cached
<1>2. run' \in [Runs -> ImpactRun] /\ impact' \in [Services -> ImpactEntry \union {None}]
  BY <1>1 DEF ImpactInvariant, ImpactTypeOK
<1>3. job[k] \in ImpactJob
  BY DEF ImpactInvariant, ImpactTypeOK
<1>4. ASSUME Look(k) PROVE \E rec : ImpactFits(k, rec) /\ job' = [job EXCEPT ![k] = rec]
  <2>0. job[k].pc = "look" /\ job[k].service \in Services
    BY <1>4 DEF Look, Is, ImpactInvariant, JobsPlaced
  <2>1. PICK entry \in {None, impact[job[k].service]} :
           \/ GetImpact(k, entry)
           \/ AnalyzeImpact(k, entry)
           \/ DetectImpactChanges(k, entry)
    BY <1>4 DEF Look, GetImpactCache
  <2>2. CASE End(k)
    BY <2>2, JobEnds
  <2>3. CASE Compute(k)
    <3> DEFINE rec == [job[k] EXCEPT !.pc = "read"]
    <3>1. rec \in ImpactJob /\ rec.pc = "read" /\ rec.service = job[k].service /\ rec.asked = job[k].asked
      BY <1>3 DEF ImpactJob
    <3>2. job' = [job EXCEPT ![k] = rec]
      BY <2>3 DEF Compute
    <3> HIDE DEF rec
    <3>3. ImpactFits(k, rec)
      BY <2>0, <3>1 DEF ImpactFits, ImpactInvariant, JobsPlaced
    <3> QED
      BY <3>2, <3>3
  <2>4. CASE entry # None /\ Answer(k, entry)
    <3>1. entry = impact[job[k].service] /\ entry \in ImpactEntry
      BY <2>0, <2>1, <2>4 DEF ImpactInvariant, ImpactTypeOK
    <3>2. Known(entry, invalidated[job[k].service])
      BY <2>0, <2>4, <3>1 DEF ImpactInvariant, EntriesKnown
    <3> QED
      BY <2>0, <2>4, <3>1, <3>2, JobAnswers
  <2> QED
    BY <2>1, <2>2, <2>3, <2>4 DEF GetImpact, AnalyzeImpact, DetectImpactChanges
<1>5. ASSUME Read(k) PROVE \E rec : ImpactFits(k, rec) /\ job' = [job EXCEPT ![k] = rec]
  <2>1. CASE End(k)
    BY <2>1, JobEnds
  <2>2. CASE job' = [job EXCEPT ![k].pc = "store", ![k].from = graph.version]
    <3> DEFINE rec == [job[k] EXCEPT !.pc = "store", !.from = graph.version]
    <3>0. graph.version \in Nat /\ job[k].pc = "read"
      BY <1>5 DEF ImpactInvariant, ImpactTypeOK, Read, Is
    <3>1. /\ rec \in ImpactJob /\ rec.pc = "store" /\ rec.from = graph.version
          /\ rec.service = job[k].service /\ rec.asked = job[k].asked
      BY <1>3, <3>0 DEF ImpactJob
    <3>2. job' = [job EXCEPT ![k] = rec]
      BY <2>2
    <3> HIDE DEF rec
    <3>3. rec.service \in Services
      BY <3>0, <3>1 DEF ImpactInvariant, JobsPlaced
    <3>4. Known(rec, invalidated[rec.service]) /\ (clearing # None => Known(rec, clearing.at))
      <4>1. invalidated[rec.service] \in Nat /\ invalidated[rec.service] =< graph.version
        BY <3>3 DEF ImpactInvariant, ImpactTypeOK, InvalidatedBefore
      <4>2. clearing # None => clearing.at \in Nat /\ clearing.at =< graph.version
        BY DEF ImpactInvariant, ImpactTypeOK, InvalidatedBefore
      <4> QED
        BY <3>0, <3>1, <4>1, <4>2 DEF Known
    <3>5. ImpactFits(k, rec)
      BY <3>0, <3>1, <3>3, <3>4 DEF ImpactFits, ImpactInvariant, JobsPlaced
    <3> QED
      BY <3>2, <3>5
  <2> QED
    BY <1>5, <2>1, <2>2 DEF Read
<1>6. PICK rec : ImpactFits(k, rec) /\ job' = [job EXCEPT ![k] = rec]
  BY <1>4, <1>5
<1> QED
  BY <1>1, <1>2, <1>6, JobGoesOn

(* A result is stored, perhaps. *)
LEMMA StoreSteps ==
    ASSUME ImpactInvariant, NEW k \in Jobs, Store(k)
    PROVE  ImpactInvariant'
<1> DEFINE result == [from |-> job[k].from, overtaken |-> job[k].overtaken]
<1>1. job[k] \in ImpactJob /\ job[k].pc = "store" /\ job[k].service \in Services
  BY DEF ImpactInvariant, ImpactTypeOK, JobsPlaced, Store, Is
<1>2. result \in ImpactEntry /\ result.from = job[k].from /\ result.overtaken = job[k].overtaken
  BY <1>1 DEF ImpactEntry, ImpactJob
<1>3. /\ UNCHANGED <<graph, clearing, invalidated, precomputed, begun>>
      /\ impact' = impact \/ impact' = [impact EXCEPT ![job[k].service] = result]
      /\ Answer(k, result) \/ End(k)
      /\ UNCHANGED run \/ (k \in Goroutines /\ run' = [run EXCEPT ![k[1]].processed = @ + 1])
  BY DEF Store
<1> HIDE DEF result
<1>4. Known(result, invalidated[job[k].service]) /\ (clearing # None => Known(result, clearing.at))
  BY <1>1, <1>2 DEF ImpactInvariant, ResultsKnown, Known
<1>5. run' \in [Runs -> ImpactRun]
  <2>1. CASE k \in Goroutines /\ run' = [run EXCEPT ![k[1]].processed = @ + 1]
    <3>1. k[1] \in Runs
      BY <2>1 DEF Goroutines
    <3>2. run \in [Runs -> ImpactRun] /\ run[k[1]] \in ImpactRun
      BY <3>1 DEF ImpactInvariant, ImpactTypeOK
    <3>3. [run[k[1]] EXCEPT !.processed = @ + 1] \in ImpactRun
      BY <3>2 DEF ImpactRun
    <3> QED
      BY <2>1, <3>1, <3>2, <3>3
  <2> QED
    BY <1>3, <2>1 DEF ImpactInvariant, ImpactTypeOK
<1>6. /\ impact' \in [Services -> ImpactEntry \union {None}]
      /\ \A s \in Services : \/ impact'[s] = impact[s]
                             \/ /\ Known(impact'[s], invalidated[s])
                                /\ clearing # None => Known(impact'[s], clearing.at)
  BY <1>1, <1>2, <1>3, <1>4 DEF ImpactInvariant, ImpactTypeOK
<1>7. PICK rec : ImpactFits(k, rec) /\ job' = [job EXCEPT ![k] = rec]
  BY <1>1, <1>2, <1>3, <1>4, JobAnswers, JobEnds
<1> QED
  BY <1>3, <1>5, <1>6, <1>7, JobGoesOn

(* A run goes on: it may begin a goroutine. *)
LEMMA RunSteps ==
    ASSUME ImpactInvariant, NEW r \in Runs,
           Precompute(r) \/ Cancel(r) \/ Advance(r)
    PROVE  ImpactInvariant'
<1>1. UNCHANGED <<graph, impact, clearing, invalidated, begun>>
  BY DEF Precompute, Cancel, Advance, Spawn, Wait, Count, cached
<1>2. run[r] \in ImpactRun /\ run \in [Runs -> ImpactRun] /\ graph.nodes \subseteq Services
  BY DEF ImpactInvariant, ImpactTypeOK
<1>3. ASSUME NEW q \in ImpactRun, run' = [run EXCEPT ![r] = q] PROVE run' \in [Runs -> ImpactRun]
  BY <1>2, <1>3
<1>4. ASSUME UNCHANGED job, run' \in [Runs -> ImpactRun], precomputed' \in Nat PROVE ImpactInvariant'
  BY <1>1, <1>4 DEF ImpactInvariant, ImpactTypeOK, InvalidatedBefore, EntriesKnown, ResultsKnown, JobsPlaced,
                    StaleOnlyIfOvertaken, Is, Known
<1>a. precomputed' = precomputed \/ Count(r)
  BY DEF Precompute, Cancel, Advance, Spawn, Wait
<1>b. precomputed \in Nat /\ run[r].processed \in Nat
  BY <1>2 DEF ImpactInvariant, ImpactTypeOK, ImpactRun
<1>c. precomputed' \in Nat
  BY <1>a, <1>b DEF Count
<1>5. CASE Precompute(r)
  <2> DEFINE label == IF graph.nodes = {} THEN "done" ELSE "batch"
             q == [run[r] EXCEPT !.pc = label, !.todo = graph.nodes]
  <2>1. q \in ImpactRun
    BY <1>2 DEF ImpactRun
  <2>2. run' = [run EXCEPT ![r].pc = label, ![r].todo = graph.nodes] /\ UNCHANGED job
    BY <1>5 DEF Precompute
  <2> HIDE DEF label
  <2>3. run' = [run EXCEPT ![r] = q]
    BY <2>2
  <2> HIDE DEF q
  <2> QED
    BY <1>3, <1>4, <1>c, <2>1, <2>2, <2>3
<1>6. CASE Cancel(r)
  <2>1. [run[r] EXCEPT !.cancelled = TRUE] \in ImpactRun
    BY <1>2 DEF ImpactRun
  <2>2. run' = [run EXCEPT ![r] = [run[r] EXCEPT !.cancelled = TRUE]] /\ UNCHANGED job
    BY <1>6 DEF Cancel
  <2> QED
    BY <1>3, <1>4, <1>c, <2>1, <2>2
<1>7. CASE Wait(r)
  <2> DEFINE label == IF run[r].cancelled THEN "failed" ELSE IF run[r].todo = {} THEN "count" ELSE "batch"
             q == [run[r] EXCEPT !.pc = label, !.inBatch = 0]
  <2>1. q \in ImpactRun
    BY <1>2 DEF ImpactRun
  <2>2. run' = [run EXCEPT ![r].pc = label, ![r].inBatch = 0] /\ UNCHANGED job
    BY <1>7 DEF Wait
  <2> HIDE DEF label
  <2>3. run' = [run EXCEPT ![r] = q]
    BY <2>2
  <2> HIDE DEF q
  <2> QED
    BY <1>3, <1>4, <1>c, <2>1, <2>2, <2>3
<1>8. CASE Count(r)
  <2>1. [run[r] EXCEPT !.pc = "done"] \in ImpactRun
    BY <1>2 DEF ImpactRun
  <2>2. run' = [run EXCEPT ![r] = [run[r] EXCEPT !.pc = "done"]] /\ UNCHANGED job
    BY <1>8 DEF Count
  <2> QED
    BY <1>3, <1>4, <1>c, <2>1, <2>2
<1>9. CASE Spawn(r)
  <2>1. CASE run[r].cancelled
    <3>1. [run[r] EXCEPT !.pc = "failed"] \in ImpactRun
      BY <1>2 DEF ImpactRun
    <3>2. run' = [run EXCEPT ![r] = [run[r] EXCEPT !.pc = "failed"]] /\ UNCHANGED job
      BY <1>9, <2>1 DEF Spawn
    <3> QED
      BY <1>3, <1>4, <1>c, <3>1, <3>2
  <2>2. CASE ~run[r].cancelled
    <3>1. PICK s \in run[r].todo :
             /\ run' = [run EXCEPT ![r].todo = @ \ {s}, ![r].inBatch = @ + 1]
             /\ job' = [job EXCEPT ![<<r, s>>] = [Idle EXCEPT !.pc = "read", !.service = s]]
      BY <1>9, <2>2 DEF Spawn
    <3> DEFINE rec == [Idle EXCEPT !.pc = "read", !.service = s]
               todo == run[r].todo \ {s}
               inBatch == run[r].inBatch + 1
               q == [run[r] EXCEPT !.todo = todo, !.inBatch = inBatch]
    <3>0. s \in Services /\ todo \in SUBSET Services /\ inBatch \in Nat
      BY <1>2 DEF ImpactRun
    <3>a. run' = [run EXCEPT ![r].todo = todo, ![r].inBatch = inBatch]
      BY <1>2, <3>1
    <3> HIDE DEF todo, inBatch
    <3>b. run' = [run EXCEPT ![r] = q]
      BY <1>2, <3>a
    <3>2. s \in Services /\ q \in ImpactRun
      BY <1>2, <3>0 DEF ImpactRun
    <3> HIDE DEF q
    <3>3. <<r, s>> \in Jobs /\ <<r, s>> \notin Calls
      BY <3>2, ImpactAssumption DEF Jobs, Goroutines
    <3>4. ImpactFits(<<r, s>>, rec)
      BY <3>2, <3>3 DEF Idle, ImpactFits, ImpactJob
    <3>5. run' \in [Runs -> ImpactRun]
      BY <1>3, <3>2, <3>b
    <3>6. impact' \in [Services -> ImpactEntry \union {None}]
      BY <1>1 DEF ImpactInvariant, ImpactTypeOK
    <3>7. UNCHANGED precomputed
      BY <1>9 DEF Spawn
    <3> QED
      BY <1>1, <3>1, <3>7, <3>3, <3>4, <3>5, <3>6, JobGoesOn
  <2> QED
    BY <2>1, <2>2
<1> QED
  BY <1>5, <1>6, <1>7, <1>8, <1>9 DEF Advance

(* Results under way are overtaken: nothing else of the tasks changes. *)
LEMMA Overtaking ==
    ASSUME ImpactInvariant, NEW S, Overtake(S)
    PROVE  /\ job' \in [Jobs -> ImpactJob]
           /\ \A k \in Jobs :
                 /\ job'[k].pc = job[k].pc /\ job'[k].service = job[k].service
                 /\ job'[k].from = job[k].from /\ job'[k].asked = job[k].asked
                 /\ job[k].overtaken => job'[k].overtaken
                 /\ job[k].pc = "store" /\ job[k].service \in S => job'[k].overtaken
                 /\ job[k].pc # "store" => job'[k] = job[k]
<1> SUFFICES ASSUME NEW k \in Jobs
             PROVE  /\ job'[k] \in ImpactJob
                    /\ job'[k].pc = job[k].pc /\ job'[k].service = job[k].service
                    /\ job'[k].from = job[k].from /\ job'[k].asked = job[k].asked
                    /\ job[k].overtaken => job'[k].overtaken
                    /\ job[k].pc = "store" /\ job[k].service \in S => job'[k].overtaken
                    /\ job[k].pc # "store" => job'[k] = job[k]
  BY DEF Overtake
<1>1. job[k] \in ImpactJob
  BY DEF ImpactInvariant, ImpactTypeOK
<1>2. job'[k] = IF job[k].pc = "store" /\ job[k].service \in S THEN [job[k] EXCEPT !.overtaken = TRUE] ELSE job[k]
  BY DEF Overtake, Is
<1> QED
  BY <1>1, <1>2 DEF ImpactJob

(* The deletion of keys. *)
LEMMA Forgetting ==
    ASSUME ImpactInvariant, NEW S, Forget(S)
    PROVE  /\ impact' \in [Services -> ImpactEntry \union {None}]
           /\ \A s \in Services : impact'[s] = IF s \in S THEN None ELSE impact[s]
  BY DEF Forget, ImpactInvariant, ImpactTypeOK

(* Calls and what they were answered, when invalidations become later and results overtaken. *)
LEMMA CallsStay ==
    ASSUME ImpactInvariant,
           \A c \in Calls :
              /\ job'[c].pc = job[c].pc /\ job'[c].service = job[c].service
              /\ job'[c].from = job[c].from /\ job'[c].asked = job[c].asked
              /\ job[c].overtaken => job'[c].overtaken,
           \A k \in Jobs : job'[k].pc = job[k].pc /\ job'[k].service = job[k].service,
           invalidated' \in [Services -> Nat], \A s \in Services : invalidated[s] =< invalidated'[s]
    PROVE  JobsPlaced' /\ StaleOnlyIfOvertaken'
<1>1. \A c \in Calls : About[c] \in Services /\ c \in Jobs
  BY ImpactAssumption DEF Jobs
<1>2. ASSUME NEW c \in Calls, job'[c].pc \in {"look", "read", "store", "answered"}
      PROVE  job'[c].service = About[c] /\ job'[c].asked =< invalidated'[About[c]]
  <2>1. job[c].service = About[c] /\ job[c].asked =< invalidated[About[c]]
    BY <1>2 DEF ImpactInvariant, JobsPlaced
  <2>2. job[c].asked \in Nat /\ invalidated[About[c]] \in Nat /\ invalidated'[About[c]] \in Nat
        /\ invalidated[About[c]] =< invalidated'[About[c]]
    BY <1>1 DEF ImpactInvariant, ImpactTypeOK, ImpactJob
  <2> QED
    BY <2>1, <2>2
<1> QED
  BY <1>2 DEF ImpactInvariant, JobsPlaced, StaleOnlyIfOvertaken, Is

(* Entries expire or are invalidated, or the graph is rebuilt. *)
LEMMA InvalidationSteps ==
    ASSUME ImpactInvariant,
           \/ \E s \in Services : Expire(s) \/ InvalidateService(s)
           \/ ListKeys \/ DeleteKeys \/ Refresh
    PROVE  ImpactInvariant'
<1>0. ImpactTypeOK /\ InvalidatedBefore /\ EntriesKnown /\ ResultsKnown /\ JobsPlaced
  BY DEF ImpactInvariant
<1>1. graph.version \in Nat /\ invalidated \in [Services -> Nat]
  BY <1>0 DEF ImpactTypeOK
<1>a. precomputed' \in Nat /\ begun' \in Nat
  <2>1. UNCHANGED precomputed /\ (begun' = begun \/ begun' = begun + 1)
    BY DEF Expire, InvalidateService, ListKeys, DeleteKeys, Refresh, cached
  <2> QED
    BY <1>0, <2>1 DEF ImpactTypeOK
<1>2. ASSUME UNCHANGED <<job, invalidated, run, clearing>>, impact' \in [Services -> ImpactEntry \union {None}],
             \A s \in Services : impact'[s] \in {None, impact[s]},
             graph' \in [version : Nat, nodes : SUBSET Services], graph.version =< graph'.version
      PROVE  ImpactInvariant'
  <2>1. ImpactTypeOK' /\ EntriesKnown' /\ ResultsKnown'
    BY <1>0, <1>a, <1>2 DEF ImpactTypeOK, EntriesKnown, ResultsKnown, Known
  <2>2. InvalidatedBefore'
    <3>1. \A s \in Services : invalidated[s] =< graph'.version
      BY <1>0, <1>1, <1>2 DEF InvalidatedBefore
    <3>2. clearing # None => clearing.at =< graph'.version
      BY <1>0, <1>1, <1>2 DEF InvalidatedBefore, ImpactTypeOK
    <3> QED
      BY <1>2, <3>1, <3>2 DEF InvalidatedBefore
  <2>3. JobsPlaced' /\ StaleOnlyIfOvertaken'
    BY <1>2 DEF ImpactInvariant, JobsPlaced, StaleOnlyIfOvertaken, Is
  <2> QED
    BY <2>1, <2>2, <2>3 DEF ImpactInvariant
<1>3. ASSUME Refresh PROVE ImpactInvariant'
  <2>1. PICK nodes \in Graphs : graph' = [version |-> graph.version + 1, nodes |-> nodes]
    BY <1>3 DEF Refresh
  <2>2. graph' \in [version : Nat, nodes : SUBSET Services] /\ graph.version =< graph'.version
    BY <1>1, <2>1, ImpactAssumption
  <2> QED
    BY <1>0, <1>2, <1>3, <2>2 DEF Refresh, cached, ImpactTypeOK
<1>4. ASSUME NEW s \in Services, Expire(s) PROVE ImpactInvariant'
  BY <1>0, <1>1, <1>2, <1>4 DEF Expire, ImpactTypeOK
<1>5. ASSUME NEW s \in Services, InvalidateService(s) PROVE ImpactInvariant'
  <2>1. UNCHANGED <<graph, run, clearing>>
    BY <1>5 DEF InvalidateService
  <2>2. CASE UNCHANGED <<job, invalidated>> /\ (Forget({s}) \/ UNCHANGED impact)
    BY <1>0, <1>1, <1>2, <2>1, <2>2, Forgetting DEF ImpactTypeOK
  <2>3. CASE Forget({s}) /\ Overtake({s}) /\ invalidated' = [invalidated EXCEPT ![s] = graph.version]
    <3>1. /\ invalidated' \in [Services -> Nat] /\ invalidated'[s] = graph.version
          /\ \A t \in Services \ {s} : invalidated'[t] = invalidated[t]
          /\ \A t \in Services : invalidated[t] =< invalidated'[t]
      BY <1>0, <1>1, <2>3 DEF InvalidatedBefore
    <3>2. ImpactTypeOK'
      BY <1>0, <1>a, <2>1, <2>3, <3>1, Forgetting, Overtaking DEF ImpactTypeOK
    <3>3. InvalidatedBefore'
      BY <1>0, <1>1, <2>1, <3>1 DEF InvalidatedBefore
    <3>4. EntriesKnown'
      BY <1>0, <2>1, <2>3, <3>1, Forgetting DEF EntriesKnown, Known
    <3>5. ResultsKnown'
      <4> SUFFICES ASSUME NEW k \in Jobs, job'[k].pc = "store"
                   PROVE  /\ Known(job'[k], invalidated'[job'[k].service])
                          /\ clearing # None => Known(job'[k], clearing.at)
        BY <2>1 DEF ResultsKnown
      <4>1. /\ job[k].pc = "store" /\ job'[k].service = job[k].service /\ job'[k].from = job[k].from
            /\ job[k].overtaken => job'[k].overtaken
            /\ job[k].service = s => job'[k].overtaken
        BY <2>3, Overtaking
      <4>2. job[k].service \in Services
        BY <1>0, <4>1 DEF JobsPlaced
      <4> QED
        BY <1>0, <3>1, <4>1, <4>2 DEF ResultsKnown, Known
    <3>6. JobsPlaced' /\ StaleOnlyIfOvertaken'
      <4>1. Calls \subseteq Jobs
        BY DEF Jobs
      <4> QED
        BY <2>3, <3>1, <4>1, Overtaking, CallsStay
    <3> QED
      BY <3>2, <3>3, <3>4, <3>5, <3>6 DEF ImpactInvariant
  <2> QED
    BY <1>5, <2>2, <2>3 DEF InvalidateService
<1>6. ASSUME ListKeys PROVE ImpactInvariant'
  <2>1. /\ Overtake(Services) /\ UNCHANGED <<graph, impact, run, invalidated>>
        /\ clearing' = [keys |-> {s \in Services : impact[s] # None}, at |-> graph.version]
    BY <1>6 DEF ListKeys
  <2>2. clearing'.at = graph.version /\ \A s \in Services : impact[s] # None => s \in clearing'.keys
    BY <2>1
  <2>3. ImpactTypeOK'
    BY <1>0, <1>1, <1>a, <2>1, Overtaking DEF ImpactTypeOK
  <2>4. InvalidatedBefore' /\ EntriesKnown'
    BY <1>0, <1>1, <2>1, <2>2 DEF InvalidatedBefore, EntriesKnown, Known
  <2>5. ResultsKnown'
    BY <1>0, <2>1, Overtaking DEF ResultsKnown, JobsPlaced, Known
  <2>6. JobsPlaced' /\ StaleOnlyIfOvertaken'
    <3>1. Calls \subseteq Jobs /\ \A s \in Services : invalidated[s] =< invalidated[s]
      BY <1>1 DEF Jobs
    <3> QED
      BY <1>1, <2>1, <3>1, Overtaking, CallsStay
  <2> QED
    BY <2>3, <2>4, <2>5, <2>6 DEF ImpactInvariant
<1>7. ASSUME DeleteKeys PROVE ImpactInvariant'
  <2>0. /\ clearing # None /\ clearing' = None /\ UNCHANGED <<graph, run, job>>
        /\ clearing.at \in Nat /\ clearing.at =< graph.version
    BY <1>0, <1>7 DEF DeleteKeys, ImpactTypeOK, InvalidatedBefore
  <2>1. /\ impact' \in [Services -> ImpactEntry \union {None}]
        /\ \A s \in Services : impact'[s] \in {None, impact[s]}
    BY <1>0, <1>7, Forgetting DEF DeleteKeys, ImpactTypeOK
  <2>2. /\ invalidated' \in [Services -> Nat]
        /\ \A s \in Services :
              /\ invalidated[s] =< invalidated'[s] /\ invalidated'[s] =< graph.version
              /\ \/ invalidated'[s] = invalidated[s]
                 \/ invalidated'[s] = clearing.at /\ (s \in clearing.keys => impact'[s] = None)
    <3>1. CASE UNCHANGED invalidated
      BY <1>0, <1>1, <3>1 DEF InvalidatedBefore
    <3>2. CASE /\ Forget(clearing.keys)
               /\ invalidated' = [s \in Services |-> Max({invalidated[s], clearing.at})]
      <4>1. ASSUME NEW m \in Nat, NEW n \in Nat PROVE Max({m, n}) = IF m >= n THEN m ELSE n
        <5>1. CASE m >= n
          <6>1. \A x \in {m, n} : (\A y \in {m, n} : x >= y) <=> x = m
            BY <5>1
          <6> QED
            BY <5>1, <6>1 DEF Max
        <5>2. CASE ~(m >= n)
          <6>1. \A x \in {m, n} : (\A y \in {m, n} : x >= y) <=> x = n
            BY <5>2
          <6> QED
            BY <5>2, <6>1 DEF Max
        <5> QED
          BY <5>1, <5>2
      <4>2. \A s \in Services : invalidated'[s] = IF invalidated[s] >= clearing.at THEN invalidated[s] ELSE clearing.at
        BY <1>1, <2>0, <3>2, <4>1
      <4>3. \A s \in Services : invalidated[s] =< graph.version
        BY <1>0 DEF InvalidatedBefore
      <4>4. invalidated' \in [Services -> Nat]
        BY <1>1, <2>0, <3>2, <4>2
      <4> QED
        BY <1>1, <2>0, <3>2, <4>2, <4>3, <4>4, Forgetting
    <3> QED
      BY <1>7, <3>1, <3>2 DEF DeleteKeys
  <2>3. ImpactTypeOK' /\ InvalidatedBefore'
    BY <1>0, <1>a, <2>0, <2>1, <2>2 DEF ImpactTypeOK, InvalidatedBefore
  <2>4. EntriesKnown'
    BY <1>0, <2>0, <2>1, <2>2 DEF EntriesKnown, Known
  <2>5. ResultsKnown'
    BY <1>0, <2>0, <2>2 DEF ResultsKnown, JobsPlaced, Known
  <2>6. JobsPlaced' /\ StaleOnlyIfOvertaken'
    BY <2>0, <2>2, CallsStay
  <2> QED
    BY <2>3, <2>4, <2>5, <2>6 DEF ImpactInvariant
<1> QED
  BY <1>3, <1>4, <1>5, <1>6, <1>7

(* Every step keeps the invariant. *)
LEMMA ImpactGoesOn == ImpactInvariant /\ [ImpactNext]_impactVars => ImpactInvariant'
<1> SUFFICES ASSUME ImpactInvariant, [ImpactNext]_impactVars PROVE ImpactInvariant'
  OBVIOUS
<1>1. CASE ImpactNext
  BY <1>1, CallSteps, LookSteps, StoreSteps, RunSteps, InvalidationSteps DEF ImpactNext, Proceed
<1>2. CASE UNCHANGED impactVars
  BY <1>2 DEF impactVars, ImpactInvariant, ImpactTypeOK, InvalidatedBefore, EntriesKnown, ResultsKnown, JobsPlaced,
              StaleOnlyIfOvertaken, Is, Known
<1> QED
  BY <1>1, <1>2

(* The graph, the cache, the runs and the tasks keep their types. *)
THEOREM ImpactTypeCorrect == ImpactSpec => []ImpactTypeOK
<1>1. ImpactInvariant => ImpactTypeOK
  BY DEF ImpactInvariant
<1> QED
  BY <1>1, ImpactBegins, ImpactGoesOn, PTL DEF ImpactSpec

(* What a call is answered is of a graph no older than that of the last invalidation that had    *)
(* ended before the call began, or of a computation that this invalidation overtook: whatever    *)
(* is computed, stored, expires and is rebuilt in between (impact_cache.go:372-404).             *)
THEOREM NoStaleImpact == ImpactSpec => []StaleOnlyIfOvertaken
<1>1. ImpactInvariant => StaleOnlyIfOvertaken
  BY DEF ImpactInvariant
<1> QED
  BY <1>1, ImpactBegins, ImpactGoesOn, PTL DEF ImpactSpec

-----------------------------------------------------------------------------
(* Sums over finite sets, as the folds of the community modules define them.  There is no       *)
(* induction with an operator here: a least set for which a fact fails is looked for instead.   *)
One(s) == CHOOSE x \in s : TRUE

(* The equation of a sum over the subsets of S. *)
SumOf(F, g, S) == g = [s \in SUBSET S |-> IF s = {} THEN 0 ELSE F[One(s)] + g[s \ {One(s)}]]

(* The sum of F over S. *)
Total(F, S) == (CHOOSE g : SumOf(F, g, S))[S]

(* Of sets of a finite set's members one is such that none of the others is within it. *)
LEMMA Smallest ==
  ASSUME NEW S, IsFiniteSet(S), NEW T \in SUBSET SUBSET S, T # {}
  PROVE \E x \in T : \A y \in T : ~ (y \subseteq x /\ y # x)
<1>1. IsWellFoundedOn(StrictSubsetOrdering(S), SUBSET S)
  BY FS_FiniteSubsetsOfFinite, FS_StrictSubsetOrderingWellFounded, Zenon
<1>2. PICK x \in T : \A y \in T : ~ (<<y, x>> \in StrictSubsetOrdering(S))
  BY <1>1, WFMin, Zenon
<1> QED BY <1>2 DEF StrictSubsetOrdering

(* A set that is not empty has the member chosen of it. *)
LEMMA OneIsIn == \A s : s # {} => One(s) \in s
  BY DEF One

(* The sums over the subsets of S, and those over the subsets of T within S, agree. *)
LEMMA SumsAgree ==
  ASSUME NEW F, NEW S, IsFiniteSet(S), NEW T \in SUBSET S,
         NEW g, SumOf(F, g, S), NEW h, SumOf(F, h, T)
  PROVE  \A s \in SUBSET T : h[s] = g[s]
<1> DEFINE bad == {s \in SUBSET T : h[s] # g[s]}
<1>1. SUFFICES ASSUME bad # {} PROVE FALSE
  OBVIOUS
<1>3. PICK x \in bad : \A y \in bad : ~ (y \subseteq x /\ y # x)
  <2>1. bad \in SUBSET SUBSET S
    OBVIOUS
  <2> HIDE DEF bad
  <2> QED BY <1>1, <2>1, Smallest
<1>4. /\ h[x] = IF x = {} THEN 0 ELSE F[One(x)] + h[x \ {One(x)}]
      /\ g[x] = IF x = {} THEN 0 ELSE F[One(x)] + g[x \ {One(x)}]
  <2>1. x \in SUBSET T /\ x \in SUBSET S
    OBVIOUS
  <2> QED BY <2>1, Zenon DEF SumOf
<1>5. x # {} => h[x \ {One(x)}] = g[x \ {One(x)}]
  BY <1>3, OneIsIn
<1> QED BY <1>4, <1>5

(* There are such sums, as the equation asks for those of smaller sets only. *)
LEMMA SumExists ==
  ASSUME NEW F, NEW S, IsFiniteSet(S)
  PROVE  \E g : SumOf(F, g, S)
<1> DEFINE bad == {s \in SUBSET S : ~ \E g : SumOf(F, g, s)}
<1>1. SUFFICES ASSUME bad # {} PROVE FALSE
  OBVIOUS
<1>2. PICK x \in bad : \A y \in bad : ~ (y \subseteq x /\ y # x)
  <2>1. bad \in SUBSET SUBSET S
    OBVIOUS
  <2> HIDE DEF bad
  <2> QED BY <1>1, <2>1, Smallest
<1> DEFINE of(s) == CHOOSE g : SumOf(F, g, s)
           h == [s \in SUBSET x |-> IF s = {} THEN 0 ELSE F[One(s)] + of(s \ {One(s)})[s \ {One(s)}]]
<1>3. ASSUME NEW s \in SUBSET x, s # x PROVE SumOf(F, of(s), s)
  <2>1. \E g : SumOf(F, g, s)
    BY <1>2, <1>3
  <2> QED BY <2>1, Zenon
<1>4. ASSUME NEW s \in SUBSET x, s # x PROVE h[s] = of(s)[s]
  <2> DEFINE t == s \ {One(s)}
  <2>0. SumOf(F, of(s), s)
    BY <1>3, <1>4
  <2> HIDE DEF of
  <2>1. of(s)[s] = IF s = {} THEN 0 ELSE F[One(s)] + of(s)[t]
    BY <2>0, Zenon DEF SumOf
  <2>2. h[s] = IF s = {} THEN 0 ELSE F[One(s)] + of(t)[t]
    OBVIOUS
  <2>3. ASSUME s # {} PROVE of(t)[t] = of(s)[t]
    <3>1. t \in SUBSET x /\ t # x /\ t \in SUBSET s
      BY <1>4, <2>3, OneIsIn
    <3>2. SumOf(F, of(t), t)
      BY <1>3, <3>1
    <3>3. IsFiniteSet(s)
      BY FS_Subset
    <3> HIDE DEF t
    <3> QED BY <2>0, <3>1, <3>2, <3>3, SumsAgree
  <2> HIDE DEF t, h
  <2> QED BY <2>1, <2>2, <2>3
<1>5. ASSUME NEW s \in SUBSET x, s # {} PROVE of(s \ {One(s)})[s \ {One(s)}] = h[s \ {One(s)}]
  <2>1. s \ {One(s)} \in SUBSET x /\ s \ {One(s)} # x
    BY <1>5, OneIsIn
  <2> HIDE DEF of, h
  <2> QED BY <2>1, <1>4
<1>6. h = [s \in SUBSET x |-> IF s = {} THEN 0 ELSE F[One(s)] + h[s \ {One(s)}]]
  <2> DEFINE k == [s \in SUBSET x |-> IF s = {} THEN 0 ELSE F[One(s)] + h[s \ {One(s)}]]
  <2>1. \A s \in SUBSET x : h[s] = k[s]
    <3> TAKE s \in SUBSET x
    <3>1. h[s] = IF s = {} THEN 0 ELSE F[One(s)] + of(s \ {One(s)})[s \ {One(s)}]
      OBVIOUS
    <3>2. k[s] = IF s = {} THEN 0 ELSE F[One(s)] + h[s \ {One(s)}]
      BY Zenon
    <3> HIDE DEF h, k, of
    <3> QED BY <3>1, <3>2, <1>5
  <2>2. h = [s \in SUBSET x |-> h[s]] /\ k = [s \in SUBSET x |-> k[s]]
    OBVIOUS
  <2> HIDE DEF h, k
  <2>3. h = k
    BY <2>1, <2>2
  <2> QED BY <2>3 DEF k
<1>7. SumOf(F, h, x)
  <2> HIDE DEF h
  <2> QED BY <1>6 DEF SumOf
<1> QED BY <1>7, Zenon

(* Total as the sum it names. *)
LEMMA TotalIs ==
  ASSUME NEW F, NEW S, IsFiniteSet(S), NEW T \in SUBSET S, NEW g, SumOf(F, g, S)
  PROVE  Total(F, T) = g[T]
<1> DEFINE h == CHOOSE k : SumOf(F, k, T)
<1>1. IsFiniteSet(T)
  BY FS_Subset
<1>2. SumOf(F, h, T)
  BY <1>1, SumExists, Zenon
<1> HIDE DEF h
<1>3. h[T] = g[T]
  BY <1>2, SumsAgree
<1> QED BY <1>3 DEF Total, h

(* The sum over no members. *)
LEMMA TotalEmpty ==
  ASSUME NEW F PROVE Total(F, {}) = 0
<1>1. PICK g : SumOf(F, g, {})
  BY FS_EmptySet, SumExists
<1>2. g[{}] = 0
  BY <1>1, Zenon DEF SumOf
<1> QED BY <1>1, <1>2, FS_EmptySet, TotalIs

(* The sum is that of the member chosen and of the others. *)
LEMMA TotalFirst ==
  ASSUME NEW F, NEW S, IsFiniteSet(S), S # {}
  PROVE  Total(F, S) = F[One(S)] + Total(F, S \ {One(S)})
<1>1. PICK g : SumOf(F, g, S)
  BY SumExists
<1>2. g[S] = F[One(S)] + g[S \ {One(S)}]
  BY <1>1, Zenon DEF SumOf
<1>3. Total(F, S) = g[S] /\ Total(F, S \ {One(S)}) = g[S \ {One(S)}]
  BY <1>1, TotalIs
<1> QED BY <1>2, <1>3

(* A sum of natural numbers is one. *)
LEMMA TotalType ==
  ASSUME NEW S, IsFiniteSet(S), NEW F, \A x \in S : F[x] \in Nat
  PROVE  \A T \in SUBSET S : Total(F, T) \in Nat
<1> DEFINE bad == {T \in SUBSET S : Total(F, T) \notin Nat}
<1>1. SUFFICES ASSUME bad # {} PROVE FALSE
  OBVIOUS
<1>2. PICK T \in bad : \A U \in bad : ~ (U \subseteq T /\ U # T)
  <2>1. bad \in SUBSET SUBSET S
    OBVIOUS
  <2> HIDE DEF bad
  <2> QED BY <1>1, <2>1, Smallest
<1>3. CASE T = {}
  BY <1>3, TotalEmpty
<1>4. CASE T # {}
  <2>1. One(T) \in T /\ Total(F, T \ {One(T)}) \in Nat
    BY <1>2, <1>4, OneIsIn
  <2>2. Total(F, T) = F[One(T)] + Total(F, T \ {One(T)})
    BY <1>4, TotalFirst, FS_Subset
  <2> QED BY <2>1, <2>2
<1> QED BY <1>3, <1>4

(* One member more, whichever is chosen first. *)
LEMMA TotalAdd ==
  ASSUME NEW S, IsFiniteSet(S), NEW F, \A x \in S : F[x] \in Nat
  PROVE  \A T \in SUBSET S : \A x \in S \ T : Total(F, T \union {x}) = F[x] + Total(F, T)
<1> DEFINE Adds(T) == \A x \in S \ T : Total(F, T \union {x}) = F[x] + Total(F, T)
           bad == {T \in SUBSET S : ~ Adds(T)}
<1>1. SUFFICES ASSUME bad # {} PROVE FALSE
  OBVIOUS
<1>2. PICK T \in bad : \A U \in bad : ~ (U \subseteq T /\ U # T)
  <2>1. bad \in SUBSET SUBSET S
    OBVIOUS
  <2> HIDE DEF bad
  <2> QED BY <1>1, <2>1, Smallest
<1>3. \A U \in SUBSET T : U # T => Adds(U)
  BY <1>2
<1>4. PICK x \in S \ T : Total(F, T \union {x}) # F[x] + Total(F, T)
  OBVIOUS
<1> HIDE DEF Adds
<1> DEFINE c == One(T \union {x})
<1>5. c \in T \union {x}
  BY OneIsIn
<1>6. IsFiniteSet(T \union {x})
  BY FS_Subset
<1>7. Total(F, T \union {x}) = F[c] + Total(F, (T \union {x}) \ {c})
  BY <1>6, TotalFirst
<1> HIDE DEF c
<1>8. CASE c = x
  <2>1. (T \union {x}) \ {c} = T
    BY <1>8
  <2> QED BY <1>4, <1>7, <1>8, <2>1
<1>9. CASE c # x
  <2>1. c \in T /\ T \ {c} \in SUBSET T /\ T \ {c} # T
    BY <1>5, <1>9
  <2>2. Adds(T \ {c})
    BY <1>3, <2>1
  <2>3. Total(F, (T \ {c}) \union {x}) = F[x] + Total(F, T \ {c})
    BY <2>2, <2>1 DEF Adds
  <2>4. Total(F, (T \ {c}) \union {c}) = F[c] + Total(F, T \ {c})
    BY <2>2, <2>1 DEF Adds
  <2>5. (T \union {x}) \ {c} = (T \ {c}) \union {x} /\ (T \ {c}) \union {c} = T
    BY <2>1, <1>9
  <2>6. Total(F, T \ {c}) \in Nat /\ F[x] \in Nat /\ F[c] \in Nat
    BY <2>1, TotalType
  <2> QED BY <1>4, <1>7, <2>3, <2>4, <2>5, <2>6
<1> QED BY <1>8, <1>9

(* The sum is one of the values at its members. *)
LEMMA TotalSame ==
  ASSUME NEW S, IsFiniteSet(S), NEW F, NEW G, \A x \in S : F[x] = G[x]
  PROVE  Total(F, S) = Total(G, S)
<1>1. PICK g : SumOf(F, g, S)
  BY SumExists
<1>2. SumOf(G, g, S)
  <2>1. \A s \in SUBSET S : s # {} => F[One(s)] = G[One(s)]
    BY OneIsIn
  <2>2. [s \in SUBSET S |-> IF s = {} THEN 0 ELSE F[One(s)] + g[s \ {One(s)}]]
        = [s \in SUBSET S |-> IF s = {} THEN 0 ELSE G[One(s)] + g[s \ {One(s)}]]
    BY <2>1
  <2> QED BY <1>1, <2>2, Zenon DEF SumOf
<1>3. S \in SUBSET S
  OBVIOUS
<1> QED BY <1>1, <1>2, <1>3, TotalIs

(* More members, a larger sum, unless they add nothing. *)
LEMMA TotalGrows ==
    ASSUME NEW S, IsFiniteSet(S), NEW F, \A x \in S : F[x] \in Nat, NEW T \in SUBSET S
    PROVE  /\ (\E x \in S \ T : F[x] > 0) => Total(F, T) < Total(F, S)
           /\ (\A x \in S \ T : F[x] = 0) => Total(F, T) = Total(F, S)
<1> DEFINE Grows(U) == /\ Total(F, T) <= Total(F, U)
                       /\ (\E x \in U \ T : F[x] > 0) => Total(F, T) < Total(F, U)
                       /\ (\A x \in U \ T : F[x] = 0) => Total(F, T) = Total(F, U)
           small == {U \in SUBSET S : T \subseteq U /\ ~Grows(U)}
<1>1. SUFFICES ASSUME small # {} PROVE FALSE
  OBVIOUS
<1>2. PICK U \in small : \A V \in small : ~ (V \subseteq U /\ V # U)
  <2>1. small \in SUBSET SUBSET S
    OBVIOUS
  <2> HIDE DEF small
  <2> QED BY <1>1, <2>1, Smallest
<1>3. U \in SUBSET S /\ T \subseteq U /\ ~Grows(U)
  OBVIOUS
<1>4. \A V \in SUBSET U : T \subseteq V /\ V # U => Grows(V)
  BY <1>2
<1>5. \A V \in SUBSET S : Total(F, V) \in Nat
  BY TotalType
<1> HIDE DEF small
<1>6. CASE U = T
  BY <1>3, <1>5, <1>6
<1>7. CASE U # T
  <2>1. PICK x \in U : x \notin T
    BY <1>3, <1>7
  <2> DEFINE V == U \ {x}
  <2>2. V \in SUBSET S /\ V \in SUBSET U /\ V # U /\ T \subseteq V /\ x \in S \ V /\ V \union {x} = U
    BY <1>3, <2>1
  <2> HIDE DEF Grows, V
  <2>3. Grows(V)
    BY <1>4, <2>2
  <2>4. Total(F, U) = F[x] + Total(F, V) /\ F[x] \in Nat
    BY <2>2, TotalAdd
  <2>5. Total(F, V) \in Nat /\ Total(F, T) \in Nat /\ Total(F, U) \in Nat
    BY <1>3, <1>5, <2>2
  <2>6. \A y \in U \ T : y = x \/ y \in V \ T
    BY <2>2
  <2>7. V \ T \subseteq U \ T /\ x \in U \ T
    BY <2>1, <2>2
  <2>8. \A y \in U \ T : F[y] \in Nat
    BY <1>3
  <2>9. Grows(U)
    BY <2>3, <2>4, <2>5, <2>6, <2>7, <2>8 DEF Grows
  <2> QED BY <1>3, <2>9
<1> QED BY <1>6, <1>7

(* What the runs of S have stored. *)
Stored(q, S) == MapThenSumSet(LAMBDA r : q[r].processed, S)
Processed(q) == [r \in Runs |-> q[r].processed]

(* The sum that the precomputations are accounted with. *)
LEMMA StoredIsTotal ==
    ASSUME NEW q, NEW S \in SUBSET Runs, IsFiniteSet(S)
    PROVE  Stored(q, S) = Total(Processed(q), S)
<1> DEFINE F == Processed(q)
           Sums(g) == g = [s \in SUBSET S |-> IF s = {} THEN 0
                             ELSE q[CHOOSE x \in s : TRUE].processed + g[s \ {CHOOSE x \in s : TRUE}]]
           h == CHOOSE g : Sums(g)
<1>1. ASSUME NEW g PROVE SumOf(F, g, S) <=> Sums(g)
  <2>1. \A s \in SUBSET S : s # {} => F[One(s)] = q[One(s)].processed
    BY OneIsIn DEF Processed
  <2> HIDE DEF F
  <2>2. [s \in SUBSET S |-> IF s = {} THEN 0 ELSE F[One(s)] + g[s \ {One(s)}]]
        = [s \in SUBSET S |-> IF s = {} THEN 0 ELSE q[One(s)].processed + g[s \ {One(s)}]]
    BY <2>1
  <2> QED
    BY <2>2, Zenon DEF SumOf, One
<1>2. Sums(h)
  <2>1. PICK g : SumOf(F, g, S)
    BY SumExists
  <2>2. Sums(g)
    BY <1>1, <2>1
  <2> QED
    BY <2>2, Zenon
<1>3. Stored(q, S) = h[S]
  BY Zenon DEF Stored, MapThenSumSet, MapThenFoldSet
<1>4. SumOf(F, h, S) /\ S \in SUBSET S
  BY <1>1, <1>2
<1> HIDE DEF h, F
<1>5. Total(F, S) = h[S]
  BY <1>4, TotalIs
<1> QED
  BY <1>3, <1>5 DEF F

(* The runs that have returned nil, and those that have begun. *)
DoneRuns == {r \in Runs : run[r].pc = "done"}
StartedRuns == {r \in Runs : run[r].pc # "idle"}

(* Goroutines are those of runs that have begun, and none works once its run counts. *)
RunsPlaced == \A r \in Runs :
                 /\ run[r].pc = "idle" => run[r].processed = 0 /\ Working(r) = {}
                 /\ run[r].pc \in {"count", "done"} => run[r].todo = {} /\ Working(r) = {}

(* What makes BatchAccounts inductive: a run that begins has stored nothing. *)
RunsInvariant == RunsPlaced /\ IsFiniteSet(StartedRuns) /\ precomputed = Stored(run, DoneRuns)

(* It holds at the start. *)
LEMMA RunsBegin == ImpactInit => RunsInvariant
<1> SUFFICES ASSUME ImpactInit PROVE RunsInvariant
  OBVIOUS
<1>1. \A r \in Runs : run[r].pc = "idle" /\ run[r].processed = 0
  BY DEF ImpactInit
<1>2. \A k \in Jobs : job[k].pc = "idle"
  BY DEF ImpactInit, Idle
<1>3. \A r \in Runs : Working(r) = {}
  BY <1>2 DEF Working, Jobs, Goroutines
<1>4. StartedRuns = {} /\ DoneRuns = {}
  BY <1>1 DEF StartedRuns, DoneRuns
<1>5. Stored(run, DoneRuns) = 0
  BY <1>4, FS_EmptySet, StoredIsTotal, TotalEmpty
<1> QED
  BY <1>1, <1>3, <1>4, <1>5, FS_EmptySet DEF RunsInvariant, RunsPlaced, ImpactInit

(* A run goes on, and is accounted for when it is done. *)
LEMMA RunGoesOn ==
    ASSUME ImpactInvariant, RunsInvariant, NEW r \in Runs, NEW q \in ImpactRun,
           run[r].pc # "done", q.pc # "idle", run' = [run EXCEPT ![r] = q], RunsPlaced',
           precomputed' = IF q.pc = "done" THEN precomputed + q.processed ELSE precomputed
    PROVE  RunsInvariant'
<1>0. run \in [Runs -> ImpactRun] /\ run' \in [Runs -> ImpactRun] /\ q.processed \in Nat
  BY DEF ImpactInvariant, ImpactTypeOK, ImpactRun
<1>1. run'[r] = q /\ \A p \in Runs \ {r} : run'[p] = run[p]
  BY <1>0
<1>2. StartedRuns' = StartedRuns \union {r}
  BY <1>1 DEF StartedRuns
<1>3. IsFiniteSet(StartedRuns')
  BY <1>2, FS_AddElement DEF RunsInvariant
<1>4. /\ DoneRuns \subseteq StartedRuns' /\ r \in StartedRuns' \ DoneRuns
      /\ IsFiniteSet(DoneRuns) /\ DoneRuns \in SUBSET Runs
  <2>1. DoneRuns \subseteq StartedRuns' /\ r \in StartedRuns' \ DoneRuns /\ DoneRuns \in SUBSET Runs
    BY <1>2 DEF DoneRuns, StartedRuns
  <2> QED
    BY <1>3, <2>1, FS_Subset
<1>5. \A p \in StartedRuns' : Processed(run')[p] \in Nat
  BY <1>0 DEF Processed, StartedRuns, ImpactRun
<1>6. Stored(run', DoneRuns) = precomputed
  <2>1. \A p \in DoneRuns : Processed(run)[p] = Processed(run')[p]
    BY <1>1, <1>4 DEF Processed
  <2>2. Total(Processed(run), DoneRuns) = Total(Processed(run'), DoneRuns)
    BY <1>4, <2>1, TotalSame
  <2> QED
    BY <1>4, <2>2, StoredIsTotal DEF RunsInvariant
<1>7. CASE q.pc = "done"
  <2>1. DoneRuns' = DoneRuns \union {r}
    BY <1>1, <1>7 DEF DoneRuns
  <2>2. Total(Processed(run'), DoneRuns \union {r}) = Processed(run')[r] + Total(Processed(run'), DoneRuns)
    <3> DEFINE F == Processed(run')
               S == StartedRuns'
    <3>1. IsFiniteSet(S) /\ DoneRuns \in SUBSET S /\ r \in S \ DoneRuns /\ \A p \in S : F[p] \in Nat
      BY <1>3, <1>4, <1>5
    <3> HIDE DEF F, S
    <3>2. Total(F, DoneRuns \union {r}) = F[r] + Total(F, DoneRuns)
      BY <3>1, TotalAdd
    <3> QED
      BY <3>2 DEF F
  <2>3. IsFiniteSet(DoneRuns') /\ DoneRuns' \in SUBSET Runs
    BY <1>4, <2>1, FS_AddElement
  <2>4. Stored(run', DoneRuns') = q.processed + Stored(run', DoneRuns)
    <3>1. Stored(run', DoneRuns') = Total(Processed(run'), DoneRuns')
      BY <2>3, StoredIsTotal
    <3>2. Stored(run', DoneRuns) = Total(Processed(run'), DoneRuns)
      BY <1>4, StoredIsTotal
    <3>3. Processed(run')[r] = q.processed
      BY <1>1 DEF Processed
    <3> QED
      BY <2>1, <2>2, <3>1, <3>2, <3>3
  <2>5. precomputed \in Nat
    BY DEF ImpactInvariant, ImpactTypeOK
  <2> QED
    BY <1>0, <1>3, <1>6, <1>7, <2>4, <2>5 DEF RunsInvariant
<1>8. CASE q.pc # "done"
  <2>1. DoneRuns' = DoneRuns
    BY <1>1, <1>8 DEF DoneRuns
  <2> QED
    BY <1>3, <1>6, <1>8, <2>1 DEF RunsInvariant
<1> QED
  BY <1>7, <1>8

(* The runs stay as they are, and no goroutine begins. *)
LEMMA NoneBegins ==
    ASSUME RunsPlaced,
           \A r \in Runs : /\ run'[r].pc = run[r].pc /\ run'[r].todo = run[r].todo
                           /\ run[r].pc = "idle" => run'[r].processed = run[r].processed,
           \A k \in Goroutines : job[k].pc \in {"idle", "ended"} => job'[k].pc \in {"idle", "ended"}
    PROVE  RunsPlaced'
<1>1. \A r \in Runs : Working(r)' \subseteq Working(r)
  BY DEF Working, Goroutines
<1> QED
  BY <1>1 DEF RunsPlaced

(* Jobs go on, and what is stored by a goroutine is counted by its run. *)
LEMMA RunsThroughJobs ==
    ASSUME ImpactInvariant, RunsInvariant, NEW k \in Jobs, Proceed(k)
    PROVE  RunsInvariant'
<1>1. job[k].pc \notin {"idle", "ended"} /\ UNCHANGED precomputed
  BY DEF Proceed, Look, Read, Store, Is
<1>2. \A j \in Jobs \ {k} : job'[j] = job[j]
  BY DEF Proceed, Look, Read, Store, GetImpact, AnalyzeImpact, DetectImpactChanges, End, Answer, Compute,
         ImpactInvariant, ImpactTypeOK
<1>3. \A j \in Goroutines : job[j].pc \in {"idle", "ended"} => job'[j].pc \in {"idle", "ended"}
  BY <1>1, <1>2 DEF Jobs
<1>4. CASE UNCHANGED run
  <2>1. RunsPlaced'
    BY <1>3, <1>4, NoneBegins DEF RunsInvariant
  <2> QED
    BY <1>1, <1>4, <2>1 DEF RunsInvariant, StartedRuns, DoneRuns
<1>5. CASE k \in Goroutines /\ run' = [run EXCEPT ![k[1]].processed = @ + 1]
  <2>1. PICK r \in Runs, s \in Services : k = <<r, s>>
    BY <1>5 DEF Goroutines
  <2>2. s \in Working(r)
    BY <1>1, <2>1 DEF Working
  <2>3. run[r].pc \notin {"idle", "count", "done"}
    BY <2>2 DEF RunsInvariant, RunsPlaced
  <2> DEFINE q == [run[r] EXCEPT !.processed = @ + 1]
  <2>4. run \in [Runs -> ImpactRun] /\ run[r] \in ImpactRun
    BY DEF ImpactInvariant, ImpactTypeOK
  <2>5. q \in ImpactRun /\ q.pc = run[r].pc /\ q.todo = run[r].todo
    BY <2>4 DEF ImpactRun
  <2>6. run' = [run EXCEPT ![r] = q]
    BY <1>5, <2>1
  <2> HIDE DEF q
  <2>7. RunsPlaced'
    BY <1>3, <2>3, <2>4, <2>5, <2>6, NoneBegins DEF RunsInvariant
  <2> QED
    BY <1>1, <2>3, <2>5, <2>6, <2>7, RunGoesOn
<1> QED
  BY <1>4, <1>5 DEF Proceed, Look, Read, Store

(* A run begins, lists its services, begins goroutines, waits for them, counts. *)
LEMMA RunsThroughRuns ==
    ASSUME ImpactInvariant, RunsInvariant, NEW r \in Runs, Precompute(r) \/ Cancel(r) \/ Advance(r)
    PROVE  RunsInvariant'
<1>1. run \in [Runs -> ImpactRun] /\ run[r] \in ImpactRun /\ graph.nodes \subseteq Services
  BY DEF ImpactInvariant, ImpactTypeOK
<1>2. run[r].pc \notin {"done", "failed"}
  BY DEF Precompute, Cancel, Advance, Spawn, Wait, Count
<1>3. ASSUME NEW q \in ImpactRun, q.pc # "idle", run' = [run EXCEPT ![r] = q],
             UNCHANGED job, q.pc \in {"count", "done"} => q.todo = {} /\ Working(r) = {},
             precomputed' = IF q.pc = "done" THEN precomputed + q.processed ELSE precomputed
      PROVE  RunsInvariant'
  <2>1. \A p \in Runs : Working(p)' = Working(p)
    BY <1>3 DEF Working
  <2>2. RunsPlaced'
    BY <1>1, <1>3, <2>1 DEF RunsInvariant, RunsPlaced
  <2> QED
    BY <1>2, <1>3, <2>2, RunGoesOn
<1>4. CASE Precompute(r)
  <2> DEFINE label == IF graph.nodes = {} THEN "done" ELSE "batch"
             q == [run[r] EXCEPT !.pc = label, !.todo = graph.nodes]
  <2>1. q \in ImpactRun /\ q.pc = label /\ q.todo = graph.nodes /\ q.processed = run[r].processed
    BY <1>1 DEF ImpactRun
  <2>2. run' = [run EXCEPT ![r].pc = label, ![r].todo = graph.nodes] /\ UNCHANGED <<job, precomputed>>
    BY <1>4 DEF Precompute
  <2>3. run[r].processed = 0 /\ Working(r) = {} /\ precomputed \in Nat
    BY <1>4 DEF Precompute, RunsInvariant, RunsPlaced, ImpactInvariant, ImpactTypeOK
  <2>4. (label = "done" /\ graph.nodes = {}) \/ label = "batch"
    OBVIOUS
  <2> HIDE DEF label
  <2>5. run' = [run EXCEPT ![r] = q]
    BY <2>2
  <2> HIDE DEF q
  <2>6. precomputed' = IF q.pc = "done" THEN precomputed + q.processed ELSE precomputed
    BY <2>1, <2>2, <2>3
  <2>7. q.pc # "idle" /\ (q.pc \in {"count", "done"} => q.todo = {} /\ Working(r) = {})
    BY <2>1, <2>3, <2>4
  <2> QED
    BY <1>3, <2>1, <2>2, <2>5, <2>6, <2>7
<1>5. CASE Cancel(r)
  <2> DEFINE q == [run[r] EXCEPT !.cancelled = TRUE]
  <2>1. q \in ImpactRun /\ q.pc = run[r].pc /\ q.todo = run[r].todo
    BY <1>1 DEF ImpactRun
  <2>2. run' = [run EXCEPT ![r] = q] /\ UNCHANGED <<job, precomputed>> /\ run[r].pc \in {"batch", "count"}
    BY <1>5 DEF Cancel
  <2> HIDE DEF q
  <2> QED
    BY <1>3, <2>1, <2>2 DEF RunsInvariant, RunsPlaced
<1>6. CASE Wait(r)
  <2> DEFINE label == IF run[r].cancelled THEN "failed" ELSE IF run[r].todo = {} THEN "count" ELSE "batch"
             q == [run[r] EXCEPT !.pc = label, !.inBatch = 0]
  <2>1. q \in ImpactRun /\ q.pc = label /\ q.todo = run[r].todo
    BY <1>1 DEF ImpactRun
  <2>2. run' = [run EXCEPT ![r].pc = label, ![r].inBatch = 0] /\ UNCHANGED <<job, precomputed>> /\ Working(r) = {}
    BY <1>6 DEF Wait
  <2>3. label \in {"failed", "batch"} \/ (label = "count" /\ run[r].todo = {})
    OBVIOUS
  <2> HIDE DEF label
  <2>4. run' = [run EXCEPT ![r] = q]
    BY <2>2
  <2> HIDE DEF q
  <2> QED
    BY <1>3, <2>1, <2>2, <2>3, <2>4
<1>7. CASE Count(r)
  <2> DEFINE q == [run[r] EXCEPT !.pc = "done"]
  <2>1. q \in ImpactRun /\ q.pc = "done" /\ q.todo = run[r].todo /\ q.processed = run[r].processed
    BY <1>1 DEF ImpactRun
  <2>2. run' = [run EXCEPT ![r] = q] /\ UNCHANGED job /\ precomputed' = precomputed + run[r].processed
    BY <1>7 DEF Count
  <2>3. run[r].todo = {} /\ Working(r) = {}
    BY <1>7 DEF Count, RunsInvariant, RunsPlaced
  <2> HIDE DEF q
  <2> QED
    BY <1>3, <2>1, <2>2, <2>3
<1>8. CASE Spawn(r) /\ run[r].cancelled
  <2> DEFINE q == [run[r] EXCEPT !.pc = "failed"]
  <2>1. q \in ImpactRun /\ q.pc = "failed"
    BY <1>1 DEF ImpactRun
  <2>2. run' = [run EXCEPT ![r] = q] /\ UNCHANGED <<job, precomputed>>
    BY <1>8 DEF Spawn
  <2> HIDE DEF q
  <2> QED
    BY <1>3, <2>1, <2>2
<1>9. CASE Spawn(r) /\ ~run[r].cancelled
  <2>1. PICK s \in run[r].todo :
           /\ run' = [run EXCEPT ![r].todo = @ \ {s}, ![r].inBatch = @ + 1]
           /\ job' = [job EXCEPT ![<<r, s>>] = [Idle EXCEPT !.pc = "read", !.service = s]]
    BY <1>9 DEF Spawn
  <2> DEFINE todo == run[r].todo \ {s}
             inBatch == run[r].inBatch + 1
             q == [run[r] EXCEPT !.todo = todo, !.inBatch = inBatch]
  <2>2. run[r].pc = "batch" /\ UNCHANGED precomputed
    BY <1>9 DEF Spawn
  <2>3. todo \in SUBSET Services /\ inBatch \in Nat
    BY <1>1 DEF ImpactRun
  <2>4. run' = [run EXCEPT ![r].todo = todo, ![r].inBatch = inBatch]
    BY <1>1, <2>1
  <2> HIDE DEF todo, inBatch
  <2>5. run' = [run EXCEPT ![r] = q] /\ q \in ImpactRun /\ q.pc = "batch"
    BY <1>1, <2>2, <2>3, <2>4 DEF ImpactRun
  <2> HIDE DEF q
  <2>6. \A p \in Runs \ {r} : Working(p)' = Working(p)
    <3>1. \A p \in Runs \ {r}, t \in Services : job'[<<p, t>>] = job[<<p, t>>]
      BY <2>1 DEF ImpactInvariant, ImpactTypeOK, Jobs, Goroutines
    <3> QED
      BY <3>1 DEF Working
  <2>7. RunsPlaced'
    BY <1>1, <2>5, <2>6 DEF RunsInvariant, RunsPlaced
  <2> QED
    BY <1>2, <2>2, <2>5, <2>7, RunGoesOn
<1> QED
  BY <1>4, <1>5, <1>6, <1>7, <1>8, <1>9 DEF Advance

(* Every step keeps the account of the runs. *)
LEMMA RunsGoOn == ImpactInvariant /\ RunsInvariant /\ [ImpactNext]_impactVars => RunsInvariant'
<1> SUFFICES ASSUME ImpactInvariant, RunsInvariant, [ImpactNext]_impactVars PROVE RunsInvariant'
  OBVIOUS
<1>1. ASSUME UNCHANGED <<run, precomputed>>,
             \A k \in Goroutines : job[k].pc \in {"idle", "ended"} => job'[k].pc \in {"idle", "ended"}
      PROVE  RunsInvariant'
  <2>1. RunsPlaced'
    BY <1>1, NoneBegins DEF RunsInvariant
  <2> QED
    BY <1>1, <2>1 DEF RunsInvariant, StartedRuns, DoneRuns
<1>2. ASSUME NEW S, Overtake(S) PROVE \A k \in Goroutines : job'[k].pc = job[k].pc
  BY <1>2, Overtaking DEF Jobs
<1>3. CASE UNCHANGED impactVars \/ Refresh \/ DeleteKeys \/ \E s \in Services : Expire(s)
  BY <1>1, <1>3 DEF impactVars, Refresh, DeleteKeys, Expire, cached
<1>4. CASE ListKeys \/ \E s \in Services : InvalidateService(s)
  BY <1>1, <1>2, <1>4 DEF ListKeys, InvalidateService
<1>5. ASSUME NEW c \in Calls, NEW op \in Ops, Call(c, op) PROVE RunsInvariant'
  <2>1. \A k \in Goroutines : job'[k] = job[k]
    BY <1>5, ImpactAssumption DEF Call, Goroutines, Jobs, ImpactInvariant, ImpactTypeOK
  <2> QED
    BY <1>1, <1>5, <2>1 DEF Call, cached
<1> QED
  BY <1>3, <1>4, <1>5, RunsThroughJobs, RunsThroughRuns DEF ImpactNext

(* A precomputation that is done has dealt with every service it listed, and the count of       *)
(* precomputed results is what such runs have stored, however many runs and invalidations there *)
(* are at the same time (impact_cache.go:207-268).                                              *)
THEOREM RunsAccounted == ImpactSpec => []BatchAccounts
<1>1. RunsInvariant => BatchAccounts
  BY DEF RunsInvariant, RunsPlaced, BatchAccounts, Stored, DoneRuns
<1> QED
  BY <1>1, ImpactBegins, ImpactGoesOn, RunsBegin, RunsGoOn, PTL DEF ImpactSpec

-----------------------------------------------------------------------------
(* What a refresh finds: Discovery.  Every variable has its type. *)
ServicePhases == {"nodes", "edges", "up", "metrics", "http", "grpc", "db", "rebuild"}
NetworkPhases == {"machines", "pods", "traffic", "rebuild network"}
DiscoveryLabels == ServicePhases \union NetworkPhases \union {"idle", "save nodes", "save edges", "save network"}

Part == [pc : {"services", "pods", "done", "failed"},
         services : SUBSET OfKind("service", Objects), pods : SUBSET OfKind("pod", Objects)]

NodeKeys == {Key(o) : o \in OfKind("service", Objects) \union OfKind("up", Objects)}
FoundNode == [key : NodeKeys, rate : BOOLEAN, status : {"unknown", "healthy", "warning", "unhealthy"}]

CallsOf(kinds) == {c \in Objects : c.kind \in kinds}
CallKeys == {Key(o) : o \in CallsOf({"service", "http", "grpc", "db"})}
            \union {Callee(c) : c \in CallsOf({"http", "grpc"})}
DatabaseKeys == {<<c.to>> : c \in CallsOf({"db"})}
EdgeIds == (CallKeys \X CallKeys \X {"", "grpc"}) \union (CallKeys \X DatabaseKeys \X {"db"})
FoundEdge == [id : EdgeIds, type : {"indirect", "http", "grpc", "database"},
              direct : BOOLEAN, confidence : {50, 60, 90, 95}]

Addresses == {MachineId(m) : m \in OfKind("machine", Objects)} \union {PodId(p) : p \in OfKind("pod", Objects)}
             \union {TrafficId(t) : t \in OfKind("traffic", Objects)}

DiscoveryTypeOK ==
    /\ live \in SUBSET Objects /\ touched \in SUBSET Objects
    /\ pc \in DiscoveryLabels
    /\ part \in [Namespaces -> Part]
    /\ found \in [kube : SUBSET FoundNode, prom : SUBSET FoundNode, edges : SUBSET FoundEdge,
                  machines : SUBSET OfKind("machine", Objects), network : SUBSET Addresses]
    /\ topology \in [nodes : SUBSET FoundNode, edges : SUBSET FoundEdge, network : SUBSET Addresses]
    /\ rows \in [nodes : SUBSET FoundNode, edges : SUBSET FoundEdge, network : SUBSET Addresses]

(* A list that was made in this refresh: it has what has been there all the time, and nothing  *)
(* that has never been there.                                                                  *)
ListedNow(list, n, kind) == /\ list \subseteq In(n, OfKind(kind, live \union touched))
                            /\ In(n, OfKind(kind, Stable)) \subseteq list

ListsHold == \A n \in Namespaces :
                /\ pc = "nodes" /\ part[n].pc = "pods" => ListedNow(part[n].services, n, "service")
                /\ pc = "edges" /\ part[n].pc = "services" => ListedNow(part[n].pods, n, "pod")

(* A namespace that failed is a call that failed. *)
FailuresKnown == /\ pc = "nodes" => ("nodes" \in failed <=> \E n \in Namespaces : part[n].pc = "failed")
                 /\ pc = "edges" => "nodes" \notin failed

(* A node of Kubernetes is made of two lists of its namespace. *)
MadeOfLists(x) == \E n \in Namespaces :
                     \E services \in SUBSET In(n, OfKind("service", Objects)), pods \in SUBSET In(n, OfKind("pod", Objects)) :
                        /\ ListedNow(services, n, "service") /\ ListedNow(pods, n, "pod")
                        /\ \E s \in services : x = ServiceNode(s, services, pods)
NodesMade == \A x \in found.kube : MadeOfLists(x)

(* After the nodes have been asked for, and after the edges. *)
AfterNodes == {"edges", "up", "metrics", "http", "grpc", "db", "rebuild", "save nodes"}
AfterEdges == AfterNodes \ {"edges"}

ServicesFound(n) == \A s \in In(n, OfKind("service", Stable)) : Key(s) \in NodeIds(found.kube)
NodesComplete == \A n \in Namespaces : /\ pc = "nodes" /\ part[n].pc = "done" => ServicesFound(n)
                                       /\ pc \in AfterNodes /\ "nodes" \notin failed => ServicesFound(n)

SeriesFound == \A u \in OfKind("up", Stable) :
                  \E x \in found.prom : x.key = Key(u) /\ (pc # "metrics" /\ "metrics" \notin failed => x.rate)
SeriesComplete == pc \in AfterEdges \ {"up"} /\ "up" \notin failed => SeriesFound

(* An edge is of services or of a call that has been there. *)
GoesBackTo(e, c) == \/ c.kind = "db" /\ e.type = "database" /\ e.id[1] = Key(c) /\ e.id[2] = <<c.to>>
                    \/ c.kind \in {"http", "grpc"} /\ e.type = c.kind /\ e.id[1] = Key(c) /\ e.id[2] = Callee(c)
EdgeGrounded(e) ==
    /\ e.direct <=> e.type # "indirect"
    /\ e.direct <=> e.confidence >= 90
    /\ e.type = "indirect" => \A i \in 1..2 : \E s \in OfKind("service", live \union touched) : Key(s) = e.id[i]
    /\ e.direct => \E c \in live \union touched : GoesBackTo(e, c)
EdgesGrounded == \A e \in found.edges : /\ EdgeGrounded(e)
                                        /\ e.type = "indirect" => "nodes" \notin failed /\ pc # "nodes"

Found(ends, direct) == \E e \in found.edges : Ends(e) = ends /\ (direct => e.direct)
NamesFound(n) ==
    In(n, OfKind("service", touched)) = {} =>
        \A p \in In(n, OfKind("pod", Stable)) :
            LET services == In(n, OfKind("service", live))
            IN  \A s \in ServiceOf(p, services), t \in services :
                   t.name \in p.env \union p.maps /\ s # t => Found(<<Key(s), Key(t)>>, FALSE)
NamesComplete == \A n \in Namespaces :
                    /\ pc = "edges" /\ part[n].pc = "done" /\ "edges" \notin failed => NamesFound(n)
                    /\ pc \in AfterEdges /\ failed \intersect {"nodes", "edges"} = {} => NamesFound(n)

CallsFound(kind) == \A c \in OfKind(kind, Stable) : Callee(c)[2] # 0 => Found(<<Key(c), Callee(c)>>, TRUE)
CallsComplete ==
    /\ pc \in {"grpc", "db", "rebuild", "save nodes"} /\ failed \intersect {"up", "http"} = {} => CallsFound("http")
    /\ pc \in {"db", "rebuild", "save nodes"} /\ failed \intersect {"up", "http", "grpc"} = {} => CallsFound("grpc")

(* The graph as it was built, and the tables. *)
GraphBuilt ==
    /\ pc = "save nodes" => /\ topology.nodes = MergeNodes(found.kube, found.prom)
                            /\ topology.edges = MergeEdges(found.edges)
    /\ pc = "save network" => topology.network = found.network \union {MachineId(m) : m \in found.machines}
OnePerEnds(edges) == \A x, y \in edges : Ends(x) = Ends(y) => x = y
TablesFollow ==
    /\ pc \notin ServicePhases \union {"save nodes"} /\ "save nodes" \notin failed =>
           topology.nodes \subseteq rows.nodes
    /\ pc \notin ServicePhases \union {"save nodes", "save edges"} /\ "save edges" \notin failed =>
           topology.edges \subseteq rows.edges \/ InTheWay
    /\ pc \notin NetworkPhases \union {"save network"} /\ "save network" \notin failed =>
          \/ topology.network \subseteq rows.network
          \/ \E m \in OfKind("machine", Objects) : MachineId(m) \in topology.network /\ m.addresses > 1
    /\ OnePerEnds(topology.edges) /\ OnePerEnds(rows.edges)

(* A service of Kubernetes becomes a node. *)
LEMMA NodeTyped ==
    ASSUME NEW s \in OfKind("service", Objects), NEW services, NEW pods
    PROVE  ServiceNode(s, services, pods) \in FoundNode
<1> DEFINE own == {p \in pods : s \in ServiceOf(p, services)}
           status == Status(PodCount(own), PodCount({p \in own : Ready(p)}))
<1>1. status \in {"unknown", "healthy", "warning", "unhealthy"} BY DEF Status
<1>2. Key(s) \in NodeKeys BY DEF NodeKeys
<1>3. ServiceNode(s, services, pods) = [key |-> Key(s), rate |-> FALSE, status |-> status] BY DEF ServiceNode
<1> HIDE DEF status
<1> QED BY <1>1, <1>2, <1>3 DEF FoundNode

(* So does a job of Prometheus, with or without a rate. *)
LEMMA UpTyped ==
    ASSUME NEW u \in OfKind("up", Objects), NEW series
    PROVE  UpNode(Key(u), series) \in FoundNode
<1>1. Key(u) \in NodeKeys BY DEF NodeKeys
<1> QED BY <1>1 DEF UpNode, FoundNode

(* The edge of the environment of a pod. *)
EnvEdge(s, t, confidence) == [id |-> <<Key(s), Key(t), "">>,
                              type |-> "indirect", direct |-> FALSE, confidence |-> confidence]

(* An edge of the environment is between two services of the list. *)
LEMMA EnvEdgeOf ==
    ASSUME NEW services, NEW pods, NEW maps, NEW e \in EnvEdges(services, pods, maps)
    PROVE  \E s, t \in services, c \in {50, 60} : e = EnvEdge(s, t, c)
BY DEF EnvEdges, EnvEdge

(* A pod whose environment names another service gives an edge from its own to that one. *)
LEMMA EnvEdgeFor ==
    ASSUME NEW services, NEW pods, NEW maps \in BOOLEAN, NEW s \in services, NEW t \in services, s # t,
           NEW p \in pods, s \in ServiceOf(p, services), t.name \in p.env \union (IF maps THEN p.maps ELSE {})
    PROVE  \E e \in EnvEdges(services, pods, maps) : Ends(e) = <<Key(s), Key(t)>>
<1> DEFINE Names(q) == q.env \union (IF maps THEN q.maps ELSE {})
           Callers(x, y) == {q \in pods : x \in ServiceOf(q, services) /\ y.name \in Names(q)}
           First(x, y) == CHOOSE q \in Callers(x, y) : \A r \in Callers(x, y) : q.name <= r.name
           Edge(z) == [id |-> <<Key(z[1]), Key(z[2]), "">>, type |-> "indirect", direct |-> FALSE,
                       confidence |-> IF z[2].name \in First(z[1], z[2]).env THEN 60 ELSE 50]
           pairs == {z \in services \X services : z[1] # z[2] /\ Callers(z[1], z[2]) # {}}
<1>1. EnvEdges(services, pods, maps) = {Edge(z) : z \in pairs} BY DEF EnvEdges
<1>2. p \in Callers(s, t) OBVIOUS
<1>3. <<s, t>> \in pairs BY <1>2
<1>4. Ends(Edge(<<s, t>>)) = <<Key(s), Key(t)>> BY DEF Ends
<1> HIDE DEF Edge, pairs
<1> QED BY <1>1, <1>3, <1>4

(* The edges of the environment have the type of an edge. *)
LEMMA EnvTyped ==
    ASSUME NEW services \in SUBSET OfKind("service", Objects), NEW pods, NEW maps
    PROVE  EnvEdges(services, pods, maps) \subseteq FoundEdge
<1> SUFFICES ASSUME NEW e \in EnvEdges(services, pods, maps) PROVE e \in FoundEdge OBVIOUS
<1>1. PICK s \in services, t \in services, c \in {50, 60} : e = EnvEdge(s, t, c) BY EnvEdgeOf
<1>2. Key(s) \in CallKeys /\ Key(t) \in CallKeys BY DEF CallKeys, CallsOf, OfKind
<1>3. <<Key(s), Key(t), "">> \in EdgeIds BY <1>2 DEF EdgeIds
<1> QED BY <1>1, <1>3 DEF EnvEdge, FoundEdge

(* So have the edges of the calls that Prometheus counts. *)
LEMMA CallTyped ==
    ASSUME NEW c \in Objects
    PROVE  /\ c.kind = "http" => HTTPEdge(c) \in FoundEdge
           /\ c.kind = "grpc" => GRPCEdge(c) \in FoundEdge
           /\ c.kind = "db" => DatabaseEdge(c) \in FoundEdge
<1>1. c.kind \in {"http", "grpc"} => Key(c) \in CallKeys /\ Callee(c) \in CallKeys BY DEF CallKeys, CallsOf
<1>2. c.kind = "db" => Key(c) \in CallKeys /\ <<c.to>> \in DatabaseKeys BY DEF CallKeys, DatabaseKeys, CallsOf
<1>3. CASE c.kind = "http"
  <2>1. <<Key(c), Callee(c), "">> \in EdgeIds BY <1>1, <1>3 DEF EdgeIds
  <2> QED BY <1>3, <2>1 DEF HTTPEdge, FoundEdge
<1>4. CASE c.kind = "grpc"
  <2>1. <<Key(c), Callee(c), "grpc">> \in EdgeIds BY <1>1, <1>4 DEF EdgeIds
  <2> QED BY <1>4, <2>1 DEF GRPCEdge, FoundEdge
<1>5. CASE c.kind = "db"
  <2>1. <<Key(c), <<c.to>>, "db">> \in EdgeIds BY <1>2, <1>5 DEF EdgeIds
  <2> QED BY <1>5, <2>1 DEF DatabaseEdge, FoundEdge
<1> QED BY <1>3, <1>4, <1>5

(* The merges. *)
Rank(x) == CASE x.type = "indirect" -> 1 [] x.type = "http" -> 2 [] x.type = "grpc" -> 3 [] x.type = "database" -> 4
Least(S) == CHOOSE x \in S : \A y \in S : Rank(x) <= Rank(y)
EdgesBetween(e, ends) == {x \in e : Ends(x) = ends}
Directs(S) == {x \in S : x.direct}
Merged(S) == IF Least(S).direct \/ Directs(S) = {} THEN Least(S)
             ELSE [Least(S) EXCEPT !.direct = TRUE, !.confidence = Least(Directs(S)).confidence]

(* MergeEdges in the parts that the next lemmas speak of. *)
LEMMA MergeIs == \A e : MergeEdges(e) = {Merged(EdgesBetween(e, ends)) : ends \in {Ends(x) : x \in e}}
BY DEF MergeEdges, Merged, EdgesBetween, Directs, Least, Rank

(* Some edge comes first in the order of the queries. *)
LEMMA LeastIsIn ==
    ASSUME NEW S \in SUBSET FoundEdge, S # {}
    PROVE  Least(S) \in S
<1>1. \A x \in S : Rank(x) \in 1..4 BY DEF Rank, FoundEdge
<1>2. \E x \in S : \A y \in S : Rank(x) <= Rank(y)
  <2>1. CASE \E x \in S : Rank(x) = 1 BY <1>1, <2>1
  <2>2. CASE (\A x \in S : Rank(x) # 1) /\ \E x \in S : Rank(x) = 2 BY <1>1, <2>2
  <2>3. CASE (\A x \in S : Rank(x) # 1 /\ Rank(x) # 2) /\ \E x \in S : Rank(x) = 3 BY <1>1, <2>3
  <2>4. CASE \A x \in S : Rank(x) # 1 /\ Rank(x) # 2 /\ Rank(x) # 3 BY <1>1, <2>4
  <2> QED BY <2>1, <2>2, <2>3, <2>4
<1> QED BY <1>2 DEF Least

(* What the merge makes of the edges between two ends. *)
LEMMA MergedHas ==
    ASSUME NEW S \in SUBSET FoundEdge, S # {}, NEW ends, \A x \in S : Ends(x) = ends
    PROVE  /\ Merged(S) \in FoundEdge /\ Ends(Merged(S)) = ends
           /\ \E x \in S : Merged(S).id = x.id /\ Merged(S).type = x.type /\ (x.direct => Merged(S).direct)
           /\ \E x \in S : Merged(S).direct = x.direct /\ Merged(S).confidence = x.confidence
           /\ Merged(S).direct <=> \E x \in S : x.direct
<1>1. Least(S) \in S /\ Least(S) \in FoundEdge /\ Ends(Least(S)) = ends BY LeastIsIn
<1>2. CASE Least(S).direct \/ Directs(S) = {}
  <2>1. Merged(S) = Least(S) BY <1>2 DEF Merged
  <2> QED BY <1>1, <1>2, <2>1 DEF Directs
<1>3. CASE ~(Least(S).direct \/ Directs(S) = {})
  <2> DEFINE d == Least(Directs(S))
  <2>1. d \in Directs(S) BY <1>3, LeastIsIn DEF Directs
  <2>2. d \in S /\ d.direct /\ d \in FoundEdge BY <2>1 DEF Directs
  <2>3. Merged(S) = [Least(S) EXCEPT !.direct = TRUE, !.confidence = d.confidence] BY <1>3 DEF Merged
  <2> HIDE DEF d
  <2>4. Merged(S) \in FoundEdge
    <3>1. d.confidence \in {50, 60, 90, 95} BY <2>2 DEF FoundEdge
    <3>2. \A x \in FoundEdge : \A c \in {50, 60, 90, 95} : [x EXCEPT !.direct = TRUE, !.confidence = c] \in FoundEdge
      BY DEF FoundEdge
    <3>3. [Least(S) EXCEPT !.direct = TRUE, !.confidence = d.confidence] \in FoundEdge
      BY <1>1, <3>1, <3>2, Zenon
    <3> QED BY <2>3, <3>3
  <2>5. Merged(S).id = Least(S).id /\ Merged(S).type = Least(S).type /\ Merged(S).direct /\ Merged(S).confidence = d.confidence
        BY <1>1, <2>3 DEF FoundEdge
  <2>6. Ends(Merged(S)) = ends BY <1>1, <2>5 DEF Ends
  <2>7. d.direct = TRUE /\ Merged(S).direct = TRUE BY <2>2, <2>4, <2>5 DEF FoundEdge
  <2> QED BY <1>1, <2>2, <2>4, <2>5, <2>6, <2>7
<1> QED BY <1>2, <1>3

(* A merge keeps the ends of every edge, and has one edge between two ends. *)
LEMMA MergeHas ==
    ASSUME NEW e \in SUBSET FoundEdge
    PROVE  /\ MergeEdges(e) \subseteq FoundEdge
           /\ \A m \in MergeEdges(e) :
                 /\ \E x \in e : m.id = x.id /\ m.type = x.type /\ Ends(m) = Ends(x)
                 /\ \E x \in e : m.direct = x.direct /\ m.confidence = x.confidence /\ Ends(m) = Ends(x)
           /\ \A x \in e : \E m \in MergeEdges(e) : Ends(m) = Ends(x) /\ (x.direct => m.direct)
           /\ \A m, n \in MergeEdges(e) : Ends(m) = Ends(n) => m = n
<1> DEFINE Between(ends) == EdgesBetween(e, ends)
<1>1. ASSUME NEW x \in e
      PROVE  /\ Merged(Between(Ends(x))) \in FoundEdge /\ Ends(Merged(Between(Ends(x)))) = Ends(x)
             /\ \E y \in Between(Ends(x)) : Merged(Between(Ends(x))).id = y.id /\ Merged(Between(Ends(x))).type = y.type
             /\ \E y \in Between(Ends(x)) : /\ Merged(Between(Ends(x))).direct = y.direct
                                            /\ Merged(Between(Ends(x))).confidence = y.confidence
             /\ x.direct => Merged(Between(Ends(x))).direct
  <2>1. Between(Ends(x)) \in SUBSET FoundEdge /\ x \in Between(Ends(x)) /\ \A y \in Between(Ends(x)) : Ends(y) = Ends(x)
        BY DEF EdgesBetween
  <2> HIDE DEF Between
  <2> QED BY <2>1, MergedHas
<1>2. MergeEdges(e) = {Merged(Between(ends)) : ends \in {Ends(x) : x \in e}} BY MergeIs
<1>3. \A ends : Between(ends) \subseteq e /\ \A y \in Between(ends) : Ends(y) = ends BY DEF EdgesBetween
<1> HIDE DEF Between
<1>4. MergeEdges(e) = {Merged(Between(Ends(x))) : x \in e} BY <1>2
<1> QED BY <1>1, <1>3, <1>4

(* A merge keeps every node: the status of Kubernetes, the rate of Prometheus. *)
LEMMA MergeNodesHas ==
    \A first, second \in SUBSET FoundNode :
           /\ MergeNodes(first, second) \subseteq FoundNode
           /\ \A n \in first : \E m \in MergeNodes(first, second) : m.key = n.key /\ m.status = n.status
           /\ \A n \in second : \E m \in MergeNodes(first, second) : m.key = n.key /\ (n.rate => m.rate)
           /\ \A m \in MergeNodes(first, second) :
                 \/ \E n \in first : m.key = n.key /\ m.status = n.status
                 \/ m \in second /\ m.key \notin NodeIds(first)
<1> TAKE first, second \in SUBSET FoundNode
<1> DEFINE Rate(key) == \E n \in second : n.key = key /\ n.rate
           Taken(n) == [n EXCEPT !.rate = Rate(n.key)]
           rest == {n \in second : n.key \notin NodeIds(first)}
<1>1. MergeNodes(first, second) = {Taken(n) : n \in first} \union rest BY DEF MergeNodes
<1>2. ASSUME NEW n \in first
      PROVE  /\ Taken(n) \in FoundNode /\ Taken(n).key = n.key /\ Taken(n).status = n.status
             /\ Taken(n).rate <=> Rate(n.key)
  <2>1. Rate(n.key) \in BOOLEAN OBVIOUS
  <2> HIDE DEF Rate
  <2> QED BY <2>1 DEF FoundNode
<1>3. \A n \in second : n \notin rest => \E m \in first : m.key = n.key BY DEF NodeIds
<1>4. rest \subseteq second /\ \A n \in rest : n.key \notin NodeIds(first) OBVIOUS
<1>5. \A n \in second : n.rate => Rate(n.key) OBVIOUS
<1> HIDE DEF Rate, Taken, rest
<1>6. MergeNodes(first, second) \subseteq FoundNode BY <1>1, <1>2, <1>4
<1>7. \A n \in first : \E m \in MergeNodes(first, second) : m.key = n.key /\ m.status = n.status BY <1>1, <1>2
<1>8. \A n \in second : \E m \in MergeNodes(first, second) : m.key = n.key /\ (n.rate => m.rate)
  <2> SUFFICES ASSUME NEW n \in second PROVE \E m \in MergeNodes(first, second) : m.key = n.key /\ (n.rate => m.rate) OBVIOUS
  <2>1. CASE n \in rest BY <1>1, <2>1
  <2>2. CASE n \notin rest
    <3>1. PICK k \in first : k.key = n.key BY <1>3, <2>2
    <3>2. Taken(k).key = n.key /\ (n.rate => Taken(k).rate) BY <1>2, <1>5, <3>1
    <3> QED BY <1>1, <3>1, <3>2
  <2> QED BY <2>1, <2>2
<1>9. \A m \in MergeNodes(first, second) : \/ \E n \in first : m.key = n.key /\ m.status = n.status
                                           \/ m \in second /\ m.key \notin NodeIds(first)
      BY <1>1, <1>2, <1>4
<1> QED BY <1>6, <1>7, <1>8, <1>9

(* The types of the parts of a state. *)
FoundType == [kube : SUBSET FoundNode, prom : SUBSET FoundNode, edges : SUBSET FoundEdge,
              machines : SUBSET OfKind("machine", Objects), network : SUBSET Addresses]
GraphType == [nodes : SUBSET FoundNode, edges : SUBSET FoundEdge, network : SUBSET Addresses]

(* The type invariant, with names for the types of the records. *)
LEMMA DiscoveryTypeIs ==
    DiscoveryTypeOK <=> /\ live \in SUBSET Objects /\ touched \in SUBSET Objects
                        /\ pc \in DiscoveryLabels
                        /\ part \in [Namespaces -> Part]
                        /\ found \in FoundType /\ topology \in GraphType /\ rows \in GraphType
BY DEF DiscoveryTypeOK, FoundType, GraphType

(* The goroutines before they start. *)
LEMMA WaitingTyped == ASSUME NEW at \in {"services", "pods", "done", "failed"} PROVE Waiting(at) \in [Namespaces -> Part]
BY DEF Waiting, Part

(* The answers before the first call. *)
LEMMA NothingTyped == Nothing \in FoundType
BY DEF Nothing, FoundType

(* The groups of labels are labels. *)
LEMMA GoesTo == /\ ServicePhases \subseteq DiscoveryLabels /\ NetworkPhases \subseteq DiscoveryLabels
                /\ {"idle", "save nodes", "save edges", "save network"} \subseteq DiscoveryLabels
BY DEF DiscoveryLabels

(* A goroutine that goes on; the others wait. *)
Goes(n, at) == /\ part' \in [Namespaces -> Part]
               /\ part'[n].pc = at
               /\ \A m \in Namespaces : m # n => part'[m] = part[m]

(* A goroutine that changes its own part is the only one that goes on. *)
LEMMA PartGoes ==
    ASSUME part \in [Namespaces -> Part], NEW n \in Namespaces, NEW at \in {"services", "pods", "done", "failed"}
    PROVE  /\ part' = [part EXCEPT ![n].pc = at] => Goes(n, at)
           /\ \A S \in SUBSET OfKind("service", Objects) :
                 part' = [part EXCEPT ![n].services = S, ![n].pc = at] => Goes(n, at) /\ part'[n].services = S
           /\ \A S \in SUBSET OfKind("pod", Objects) :
                 part' = [part EXCEPT ![n].pods = S, ![n].pc = at] => Goes(n, at) /\ part'[n].pods = S
<1>1. part' = [part EXCEPT ![n].pc = at] => Goes(n, at) BY DEF Part, Goes
<1>2. ASSUME NEW S \in SUBSET OfKind("service", Objects), part' = [part EXCEPT ![n].services = S, ![n].pc = at]
      PROVE  Goes(n, at) /\ part'[n].services = S
      BY <1>2 DEF Part, Goes
<1>3. ASSUME NEW S \in SUBSET OfKind("pod", Objects), part' = [part EXCEPT ![n].pods = S, ![n].pc = at]
      PROVE  Goes(n, at) /\ part'[n].pods = S
      BY <1>3 DEF Part, Goes
<1> QED BY <1>1, <1>2, <1>3

(* What the goroutine of a namespace does when it lists its services for the nodes, *)
LEMMA ListServicesDoes ==
    ASSUME DiscoveryTypeOK, NEW n \in Namespaces, ListServices(n)
    PROVE  /\ UNCHANGED <<pc, found, topology, rows, live, touched>>
           /\ pc = "nodes" /\ part[n].pc = "services"
           /\ \/ Goes(n, "pods") /\ part'[n].services = In(n, OfKind("service", live)) /\ Ok
              \/ Goes(n, "failed") /\ Fail("nodes")
<1>1. In(n, OfKind("service", live)) \in SUBSET OfKind("service", Objects) BY DEF In, OfKind, DiscoveryTypeOK
<1>2. part \in [Namespaces -> Part] BY DEF DiscoveryTypeOK
<1>3. \A S \in SUBSET OfKind("service", Objects) :
          part' = [part EXCEPT ![n].services = S, ![n].pc = "pods"] => Goes(n, "pods") /\ part'[n].services = S
      BY <1>2, PartGoes
<1>4. part' = [part EXCEPT ![n].pc = "failed"] => Goes(n, "failed") BY <1>2, PartGoes
<1> QED BY <1>1, <1>3, <1>4 DEF ListServices, cluster

(* when it lists the pods for the edges, *)
LEMMA ListCallersDoes ==
    ASSUME DiscoveryTypeOK, NEW n \in Namespaces, ListCallers(n)
    PROVE  /\ UNCHANGED <<pc, found, topology, rows, live, touched>>
           /\ pc = "edges" /\ part[n].pc = "pods"
           /\ \/ Goes(n, "services") /\ part'[n].pods = In(n, OfKind("pod", live)) /\ Ok
              \/ Goes(n, "done") /\ Fail("edges")
<1>1. In(n, OfKind("pod", live)) \in SUBSET OfKind("pod", Objects) BY DEF In, OfKind, DiscoveryTypeOK
<1>2. part \in [Namespaces -> Part] BY DEF DiscoveryTypeOK
<1>3. \A S \in SUBSET OfKind("pod", Objects) :
          part' = [part EXCEPT ![n].pods = S, ![n].pc = "services"] => Goes(n, "services") /\ part'[n].pods = S
      BY <1>2, PartGoes
<1>4. part' = [part EXCEPT ![n].pc = "done"] => Goes(n, "done") BY <1>2, PartGoes
<1> QED BY <1>1, <1>3, <1>4 DEF ListCallers, cluster

(* The nodes that the pods of a namespace give, *)
NewNodes(n) == {ServiceNode(s, part[n].services, In(n, OfKind("pod", live))) : s \in part[n].services}

(* then the pods of these, *)
LEMMA ListPodsDoes ==
    ASSUME DiscoveryTypeOK, NEW n \in Namespaces, ListPods(n)
    PROVE  /\ UNCHANGED <<pc, topology, rows, live, touched>>
           /\ pc = "nodes" /\ part[n].pc = "pods"
           /\ \/ Goes(n, "done") /\ found' = [found EXCEPT !.kube = found.kube \union NewNodes(n)] /\ Ok
              \/ Goes(n, "failed") /\ Fail("nodes") /\ UNCHANGED found
<1>1. part \in [Namespaces -> Part] BY DEF DiscoveryTypeOK
<1>2. \A at \in {"done", "failed"} : part' = [part EXCEPT ![n].pc = at] => Goes(n, at) BY <1>1, PartGoes
<1> QED BY <1>2 DEF ListPods, cluster, NewNodes

(* the edges that its services give, *)
NewEdges(n, maps) == EnvEdges(In(n, OfKind("service", live)), part[n].pods, maps)

(* then the services that their environment names, *)
LEMMA ListCalleesDoes ==
    ASSUME DiscoveryTypeOK, NEW n \in Namespaces, ListCallees(n)
    PROVE  /\ UNCHANGED <<pc, topology, rows, live, touched>>
           /\ pc = "edges" /\ part[n].pc = "services" /\ Goes(n, "done")
           /\ \/ \E maps \in BOOLEAN : /\ found' = [found EXCEPT !.edges = found.edges \union NewEdges(n, maps)]
                                       /\ IF maps THEN Ok ELSE Fail("edges")
              \/ Fail("edges") /\ UNCHANGED found
<1>1. part \in [Namespaces -> Part] BY DEF DiscoveryTypeOK
<1>2. part' = [part EXCEPT ![n].pc = "done"] => Goes(n, "done") BY <1>1, PartGoes
<1> QED BY <1>2 DEF ListCallees, cluster, NewEdges

(* and the addresses of its pods. *)
NewPods(n) == {PodId(p) : p \in {p \in In(n, OfKind("pod", live)) : p.ip}}

(* and when it lists the pods for the network. *)
LEMMA ListNetworkPodsDoes ==
    ASSUME DiscoveryTypeOK, NEW n \in Namespaces, ListNetworkPods(n)
    PROVE  /\ UNCHANGED <<pc, topology, rows, live, touched>>
           /\ pc = "pods" /\ Goes(n, "done")
           /\ \/ found' = [found EXCEPT !.network = found.network \union NewPods(n)] /\ Ok
              \/ Fail("pods") /\ UNCHANGED found
<1>1. part \in [Namespaces -> Part] BY DEF DiscoveryTypeOK
<1>2. part' = [part EXCEPT ![n].pc = "done"] => Goes(n, "done") BY <1>1, PartGoes
<1> QED BY <1>2 DEF ListNetworkPods, cluster, NewPods

(* Every step keeps the types. *)
LEMMA DiscoveryTyped == DiscoveryTypeOK /\ [DiscoveryNext]_discoveryVars => DiscoveryTypeOK'
<1> DEFINE Typed == /\ live' \in SUBSET Objects /\ touched' \in SUBSET Objects
                    /\ pc' \in DiscoveryLabels
                    /\ part' \in [Namespaces -> Part]
                    /\ found' \in FoundType /\ topology' \in GraphType /\ rows' \in GraphType
<1> SUFFICES ASSUME DiscoveryTypeOK, [DiscoveryNext]_discoveryVars PROVE Typed
    BY DEF DiscoveryTypeOK, FoundType, GraphType
<1>t. /\ live \in SUBSET Objects /\ touched \in SUBSET Objects
      /\ pc \in DiscoveryLabels
      /\ part \in [Namespaces -> Part]
      /\ found \in FoundType /\ topology \in GraphType /\ rows \in GraphType
      BY DiscoveryTypeIs
<1>f. /\ found.kube \in SUBSET FoundNode /\ found.prom \in SUBSET FoundNode /\ found.edges \in SUBSET FoundEdge
      /\ found.machines \in SUBSET OfKind("machine", Objects) /\ found.network \in SUBSET Addresses
      BY <1>t DEF FoundType
<1>l. \A kind, n : In(n, OfKind(kind, live)) \in SUBSET OfKind(kind, Objects) BY <1>t DEF In, OfKind
<1> USE GoesTo
<1>1. ASSUME NEW o \in Objects, Change(o) PROVE Typed
      BY <1>1, <1>t DEF Change
<1>2. ASSUME NEW first \in {"nodes", "machines"}, Begin(first) PROVE Typed
  <2>1. part' \in [Namespaces -> Part] BY <1>2, WaitingTyped DEF Begin
  <2>2. found' \in FoundType BY <1>2, NothingTyped DEF Begin
  <2>3. pc' \in DiscoveryLabels BY <1>2 DEF Begin, DiscoveryLabels, ServicePhases, NetworkPhases
  <2> QED BY <1>2, <1>t, <2>1, <2>2, <2>3 DEF Begin
<1>3. ASSUME NEW n \in Namespaces, ListServices(n) PROVE Typed
      BY <1>3, <1>t, ListServicesDoes DEF Goes
<1>4. ASSUME NEW n \in Namespaces, ListCallers(n) PROVE Typed
      BY <1>4, <1>t, ListCallersDoes DEF Goes
<1>5. ASSUME NEW n \in Namespaces, ListPods(n) PROVE Typed
  <2>1. part[n].services \in SUBSET OfKind("service", Objects) BY <1>t DEF Part
  <2>2. NewNodes(n) \in SUBSET FoundNode BY <2>1, NodeTyped DEF NewNodes
  <2>3. [found EXCEPT !.kube = found.kube \union NewNodes(n)] \in FoundType BY <1>t, <2>2 DEF FoundType
  <2> QED BY <1>5, <1>t, <2>3, ListPodsDoes DEF Goes
<1>6. ASSUME NEW n \in Namespaces, ListCallees(n) PROVE Typed
  <2>1. \A maps : NewEdges(n, maps) \in SUBSET FoundEdge BY <1>l, EnvTyped DEF NewEdges
  <2>2. \A maps : [found EXCEPT !.edges = found.edges \union NewEdges(n, maps)] \in FoundType
    BY <1>t, <2>1 DEF FoundType
  <2>3. found' \in FoundType BY <1>6, <1>t, <2>2, ListCalleesDoes
  <2> QED BY <1>6, <1>t, <2>3, ListCalleesDoes DEF Goes
<1>7. ASSUME NEW n \in Namespaces, ListNetworkPods(n) PROVE Typed
  <2>1. NewPods(n) \in SUBSET Addresses BY <1>l DEF NewPods, Addresses
  <2>2. [found EXCEPT !.network = found.network \union NewPods(n)] \in FoundType BY <1>t, <2>1 DEF FoundType
  <2> QED BY <1>7, <1>t, <2>2, ListNetworkPodsDoes DEF Goes
<1>8. ASSUME EndNodes PROVE Typed
  <2>1. [found EXCEPT !.kube = {}] \in FoundType BY <1>t DEF FoundType
  <2>2. found' \in FoundType BY <1>8, <1>t, <2>1 DEF EndNodes
  <2>3. part' \in [Namespaces -> Part] BY <1>8, <1>t, WaitingTyped DEF EndNodes
  <2>4. pc' \in DiscoveryLabels BY <1>8 DEF EndNodes, DiscoveryLabels, ServicePhases
  <2> QED BY <1>8, <1>t, <2>2, <2>3, <2>4 DEF EndNodes, cluster
<1>9. ASSUME EndEdges \/ EndNetworkPods PROVE Typed
  <2>1. pc' \in DiscoveryLabels
    BY <1>9 DEF EndEdges, EndNetworkPods, DiscoveryLabels, ServicePhases, NetworkPhases
  <2> QED BY <1>9, <1>t, <2>1 DEF EndEdges, EndNetworkPods, cluster
<1>10. ASSUME QueryUp PROVE Typed
  <2> DEFINE series == OfKind("up", live)
             up == {UpNode(k, series) : k \in {Key(u) : u \in series}}
  <2>1. series \subseteq OfKind("up", Objects) BY <1>t DEF OfKind
  <2>2. up \in SUBSET FoundNode BY <2>1, UpTyped
  <2>3. pc' \in DiscoveryLabels BY <1>10 DEF QueryUp, DiscoveryLabels, ServicePhases
  <2>4. found' = found \/ found' = [found EXCEPT !.prom = up] BY <1>10 DEF QueryUp
  <2> HIDE DEF up
  <2>5. found' \in FoundType BY <1>t, <2>2, <2>4 DEF FoundType
  <2> QED BY <1>10, <1>t, <2>3, <2>5 DEF QueryUp, cluster
<1>11. ASSUME FetchMetrics PROVE Typed
  <2> DEFINE got(missing) == {[n EXCEPT !.rate = n.key \notin missing] : n \in found.prom}
  <2>1. \A missing : got(missing) \in SUBSET FoundNode BY <1>f DEF FoundNode
  <2>2. \E missing : found' = [found EXCEPT !.prom = got(missing)] BY <1>11 DEF FetchMetrics
  <2> HIDE DEF got
  <2>3. found' \in FoundType BY <1>t, <2>1, <2>2 DEF FoundType
  <2>4. pc' \in DiscoveryLabels BY <1>11 DEF FetchMetrics, DiscoveryLabels, ServicePhases
  <2> QED BY <1>11, <1>t, <2>3, <2>4 DEF FetchMetrics, cluster
<1>12. ASSUME NEW kind, NEW new \in SUBSET FoundEdge, NEW next \in ServicePhases, NEW otherwise \in ServicePhases,
              QueryEdges(kind, new, next, otherwise)
       PROVE Typed
  <2>1. found' = found \/ found' = [found EXCEPT !.edges = found.edges \union new] BY <1>12 DEF QueryEdges
  <2>2. found' \in FoundType BY <1>t, <2>1 DEF FoundType
  <2> QED BY <1>12, <1>t, <2>2 DEF QueryEdges, cluster
<1>13. ASSUME QueryHTTP \/ QueryGRPC \/ QueryDatabase PROVE Typed
  <2>1. /\ {HTTPEdge(c) : c \in Counted("http")} \in SUBSET FoundEdge
        /\ {GRPCEdge(c) : c \in Counted("grpc")} \in SUBSET FoundEdge
        /\ {DatabaseEdge(c) : c \in OfKind("db", live)} \in SUBSET FoundEdge
        BY <1>t, CallTyped DEF OfKind, Counted
  <2>2. {"grpc", "db", "rebuild"} \subseteq ServicePhases BY DEF ServicePhases
  <2> QED BY <1>12, <1>13, <2>1, <2>2 DEF QueryHTTP, QueryGRPC, QueryDatabase
<1>14. ASSUME Rebuild PROVE Typed
  <2>1. MergeNodes(found.kube, found.prom) \in SUBSET FoundNode
    <3>1. MergeNodes(found.kube, found.prom) \subseteq FoundNode BY <1>f, MergeNodesHas, Zenon
    <3> QED BY <3>1
  <2>2. MergeEdges(found.edges) \in SUBSET FoundEdge BY <1>f, MergeHas
  <2>3. topology' \in GraphType BY <1>14, <1>t, <2>1, <2>2 DEF Rebuild, GraphType
  <2> QED BY <1>14, <1>t, <2>3 DEF Rebuild, cluster
<1>15. ASSUME SaveNodes \/ SaveEdges PROVE Typed
  <2>1. rows' \in GraphType BY <1>15, <1>t DEF SaveNodes, SaveEdges, Upsert, GraphType
  <2> QED BY <1>15, <1>t, <2>1 DEF SaveNodes, SaveEdges, cluster
<1>16. ASSUME ListMachines PROVE Typed
  <2> DEFINE S == {m \in OfKind("machine", live) : m.addresses > 0}
  <2>1. S \in SUBSET OfKind("machine", Objects) BY <1>t DEF OfKind
  <2>2. found' = found \/ found' = [found EXCEPT !.machines = S] BY <1>16 DEF ListMachines
  <2> HIDE DEF S
  <2>3. found' \in FoundType BY <1>t, <2>1, <2>2 DEF FoundType
  <2>4. pc' \in DiscoveryLabels BY <1>16 DEF ListMachines, DiscoveryLabels, NetworkPhases
  <2> QED BY <1>16, <1>t, <2>3, <2>4 DEF ListMachines, cluster
<1>17. ASSUME QueryTraffic PROVE Typed
  <2> DEFINE S == {TrafficId(t) : t \in OfKind("traffic", live)}
  <2>1. S \in SUBSET Addresses BY <1>t DEF OfKind, Addresses
  <2>2. found' = found \/ found' = [found EXCEPT !.network = found.network \union S] BY <1>17 DEF QueryTraffic
  <2> HIDE DEF S
  <2>3. found' \in FoundType BY <1>t, <2>1, <2>2 DEF FoundType
  <2>4. pc' \in DiscoveryLabels BY <1>17 DEF QueryTraffic, DiscoveryLabels, NetworkPhases
  <2> QED BY <1>17, <1>t, <2>3, <2>4 DEF QueryTraffic, cluster
<1>18. ASSUME RebuildNetwork PROVE Typed
  <2>1. found.network \union {MachineId(m) : m \in found.machines} \in SUBSET Addresses BY <1>f DEF Addresses
  <2>2. topology' \in GraphType BY <1>18, <1>t, <2>1 DEF RebuildNetwork, GraphType
  <2> QED BY <1>18, <1>t, <2>2 DEF RebuildNetwork, cluster
<1>19. ASSUME SaveNetwork PROVE Typed
  <2>1. rows' \in GraphType BY <1>19, <1>t DEF SaveNetwork, GraphType
  <2> QED BY <1>19, <1>t, <2>1 DEF SaveNetwork, cluster
<1>20. ASSUME UNCHANGED discoveryVars PROVE Typed BY <1>20, <1>t DEF discoveryVars
<1> QED
    BY <1>1, <1>2, <1>3, <1>4, <1>5, <1>6, <1>7, <1>8, <1>9, <1>10, <1>11, <1>13, <1>14, <1>15, <1>16, <1>17, <1>18, <1>19, <1>20
    DEF DiscoveryNext, RefreshServices, RefreshNetwork, Done

(* A step in the course of a refresh: what has been there stays known, and what comes or goes is noted. *)
Been == live \union touched
Onward == /\ Been \subseteq Been' /\ Stable' \subseteq Stable /\ touched \subseteq touched'
          /\ failed \subseteq failed'
          /\ \A n \in Namespaces : In(n, OfKind("service", touched')) = {} =>
                /\ In(n, OfKind("service", touched)) = {}
                /\ In(n, OfKind("service", live')) = In(n, OfKind("service", live))

(* A change of the cluster is noted. *)
LEMMA ChangeGoesOn ==
    ASSUME DiscoveryTypeOK, NEW o \in Objects, Change(o)
    PROVE  Onward
<1>1. /\ touched' = touched \union {o} /\ UNCHANGED failed
      /\ live' = IF o \in live THEN live \ {o} ELSE live \union {o}
      BY DEF Change
<1>2. Been \subseteq Been' /\ Stable' \subseteq Stable /\ touched \subseteq touched' BY <1>1 DEF Been, Stable
<1>3. ASSUME NEW n \in Namespaces, In(n, OfKind("service", touched')) = {}
      PROVE  /\ In(n, OfKind("service", touched)) = {}
             /\ In(n, OfKind("service", live')) = In(n, OfKind("service", live))
  <2>1. \A p : p \in In(n, OfKind("service", touched)) => p \in In(n, OfKind("service", touched'))
    BY <1>1 DEF In, OfKind
  <2>2. o \in touched' BY <1>1
  <2>3. ~(o.kind = "service" /\ o.ns = n) BY <1>3, <2>2 DEF In, OfKind
  <2>4. \A p : p \in In(n, OfKind("service", live')) <=> p \in In(n, OfKind("service", live))
    BY <1>1, <2>3 DEF In, OfKind
  <2> QED BY <1>3, <2>1, <2>4
<1> QED BY <1>1, <1>2, <1>3 DEF Onward

(* A call leaves the cluster as it is. *)
LEMMA CallGoesOn ==
    UNCHANGED <<live, touched>> /\ failed \subseteq failed' => Onward
BY DEF Onward, Been, Stable

(* A call that Fail notes is kept. *)
LEMMA FailKeeps == /\ \A call : Fail(call) => failed \subseteq failed' /\ call \in failed'
                                              /\ \A other : other # call /\ other \notin failed => other \notin failed'
                   /\ Ok => failed' = failed
BY DEF Fail, Ok

(* A list that was right for the refresh stays right, *)
LEMMA ListedKept ==
    ASSUME Onward, NEW list, NEW n, NEW kind, ListedNow(list, n, kind)
    PROVE  ListedNow(list, n, kind)'
<1>1. Been \subseteq Been' /\ Stable' \subseteq Stable BY DEF Onward
<1> QED BY <1>1 DEF ListedNow, Been, In, OfKind

(* and so does a node that was made of such lists. *)
LEMMA MadeKept ==
    ASSUME Onward, NEW x, MadeOfLists(x)
    PROVE  MadeOfLists(x)'
<1>0. PICK n \in Namespaces : \E services \in SUBSET In(n, OfKind("service", Objects)), pods \in SUBSET In(n, OfKind("pod", Objects)) :
              /\ ListedNow(services, n, "service") /\ ListedNow(pods, n, "pod")
              /\ \E s \in services : x = ServiceNode(s, services, pods)
      BY DEF MadeOfLists
<1>1. PICK services \in SUBSET In(n, OfKind("service", Objects)), pods \in SUBSET In(n, OfKind("pod", Objects)) :
              /\ ListedNow(services, n, "service") /\ ListedNow(pods, n, "pod")
              /\ \E s \in services : x = ServiceNode(s, services, pods)
      BY <1>0
<1>2. ListedNow(services, n, "service")' /\ ListedNow(pods, n, "pod")' BY <1>1, ListedKept
<1> QED BY <1>1, <1>2 DEF MadeOfLists

(* The services of a namespace stay found, *)
LEMMA ServicesKept ==
    ASSUME Onward, found.kube \subseteq found'.kube, NEW n, ServicesFound(n)
    PROVE  ServicesFound(n)'
<1>1. Stable' \subseteq Stable BY DEF Onward
<1>2. NodeIds(found.kube) \subseteq NodeIds(found'.kube) BY DEF NodeIds
<1> QED BY <1>1, <1>2 DEF ServicesFound, In, OfKind

(* an edge stays found, *)
LEMMA FoundKept ==
    ASSUME found.edges \subseteq found'.edges, NEW ends, NEW direct, Found(ends, direct)
    PROVE  Found(ends, direct)'
BY DEF Found

(* the edges of a namespace stay found, *)
LEMMA NamesKept ==
    ASSUME Onward, found.edges \subseteq found'.edges, NEW n \in Namespaces, NamesFound(n)
    PROVE  NamesFound(n)'
<1> SUFFICES ASSUME In(n, OfKind("service", touched')) = {},
                    NEW p \in In(n, OfKind("pod", Stable')),
                    NEW s \in ServiceOf(p, In(n, OfKind("service", live'))), NEW t \in In(n, OfKind("service", live')),
                    t.name \in p.env \union p.maps, s # t
             PROVE  Found(<<Key(s), Key(t)>>, FALSE)'
    BY DEF NamesFound
<1>1. /\ In(n, OfKind("service", touched)) = {}
      /\ In(n, OfKind("service", live')) = In(n, OfKind("service", live))
      BY DEF Onward
<1>2. p \in In(n, OfKind("pod", Stable)) BY DEF Onward, In, OfKind
<1>3. Found(<<Key(s), Key(t)>>, FALSE) BY <1>1, <1>2 DEF NamesFound
<1> QED BY <1>3, FoundKept

(* the calls stay found, *)
LEMMA CallsKept ==
    ASSUME Onward, found.edges \subseteq found'.edges, NEW kind, CallsFound(kind)
    PROVE  CallsFound(kind)'
<1> SUFFICES ASSUME NEW c \in OfKind(kind, Stable'), Callee(c)[2] # 0 PROVE Found(<<Key(c), Callee(c)>>, TRUE)'
    BY DEF CallsFound
<1>1. c \in OfKind(kind, Stable) BY DEF Onward, OfKind
<1>2. Found(<<Key(c), Callee(c)>>, TRUE) BY <1>1 DEF CallsFound
<1> QED BY <1>2, FoundKept

(* and an edge keeps its ground. *)
LEMMA GroundedKept ==
    ASSUME Onward, NEW e, EdgeGrounded(e)
    PROVE  EdgeGrounded(e)'
<1>1. \A c : c \in live \union touched => c \in (live \union touched)' BY DEF Onward, Been
<1> QED BY <1>1 DEF EdgeGrounded, OfKind

(* What the steps of a refresh leave alone, and how one call follows another. *)
AfterUp == {"metrics", "http", "grpc", "db", "rebuild", "save nodes"}
AfterHTTP == {"grpc", "db", "rebuild", "save nodes"}
AfterGRPC == {"db", "rebuild", "save nodes"}

Follows ==
    /\ pc' = "nodes" =>
           pc = "nodes" /\ (UNCHANGED <<part, failed>> \/ \E n \in Namespaces : ListServices(n) \/ ListPods(n))
    /\ pc' = "edges" =>
           EndNodes \/ (pc = "edges" /\ (UNCHANGED <<part, failed>> \/ \E n \in Namespaces : ListCallers(n) \/ ListCallees(n)))
    /\ pc' \in AfterNodes => EndNodes \/ pc \in AfterNodes
    /\ pc' \in AfterEdges => EndNodes \/ EndEdges \/ pc \in AfterEdges
    /\ pc' \in AfterUp => QueryUp \/ pc \in AfterUp
    /\ pc' = "metrics" => QueryUp \/ (pc = "metrics" /\ UNCHANGED found)
    /\ pc = "metrics" => FetchMetrics \/ (pc' = "metrics" /\ UNCHANGED found)
    /\ pc' \in AfterHTTP => QueryUp \/ QueryHTTP \/ pc \in AfterHTTP
    /\ pc' \in AfterGRPC => QueryUp \/ QueryHTTP \/ QueryGRPC \/ pc \in AfterGRPC
    /\ pc' = "save nodes" => Rebuild \/ (pc = "save nodes" /\ UNCHANGED <<found, topology>>)
    /\ pc' = "save network" => RebuildNetwork \/ (pc = "save network" /\ UNCHANGED <<found, topology>>)

(* What the calls do to the answers. *)
Answered ==
    /\ found.edges \subseteq found'.edges
    /\ found'.kube = found.kube \/ EndNodes \/ \E n \in Namespaces : ListPods(n)
    /\ found'.prom = found.prom \/ QueryUp \/ FetchMetrics
    /\ found'.edges = found.edges \/ (\E n \in Namespaces : ListCallees(n)) \/ QueryHTTP \/ QueryGRPC \/ QueryDatabase
    /\ found.kube \subseteq found'.kube \/ EndNodes

(* Every step that starts no refresh is such a step of one. *)
LEMMA CallsFollow ==
    ASSUME DiscoveryTypeOK, [DiscoveryNext]_discoveryVars, ~RefreshServices, ~RefreshNetwork
    PROVE  Onward /\ Follows /\ Answered
<1> DEFINE R == Onward /\ Follows /\ Answered
<1>t. pc \in DiscoveryLabels /\ part \in [Namespaces -> Part] /\ found \in FoundType BY DiscoveryTypeIs
<1>1. ASSUME NEW o \in Objects, Change(o) PROVE R
  <2>1. UNCHANGED <<pc, part, found, topology, failed>> BY <1>1 DEF Change
  <2>2. Onward BY <1>1, ChangeGoesOn
  <2> QED BY <2>1, <2>2 DEF Follows, Answered, AfterNodes, AfterEdges, AfterUp, AfterHTTP, AfterGRPC
<1>2. ASSUME UNCHANGED discoveryVars PROVE R
  <2>1. UNCHANGED <<pc, part, found, topology, failed>> /\ Onward BY <1>2, CallGoesOn DEF discoveryVars
  <2> QED BY <2>1 DEF Follows, Answered, AfterNodes, AfterEdges, AfterUp, AfterHTTP, AfterGRPC
<1>3. ASSUME NEW n \in Namespaces, ListServices(n) PROVE R
  <2>1. UNCHANGED <<pc, found, topology>> /\ pc = "nodes" BY <1>3, ListServicesDoes
  <2>2. Onward BY <1>3, ListServicesDoes, FailKeeps, CallGoesOn
  <2> QED BY <1>3, <2>1, <2>2 DEF Follows, Answered, AfterNodes, AfterEdges, AfterUp, AfterHTTP, AfterGRPC
<1>4. ASSUME NEW n \in Namespaces, ListCallers(n) PROVE R
  <2>1. UNCHANGED <<pc, found, topology>> /\ pc = "edges" BY <1>4, ListCallersDoes
  <2>2. Onward BY <1>4, ListCallersDoes, FailKeeps, CallGoesOn
  <2> QED BY <1>4, <2>1, <2>2 DEF Follows, Answered, AfterNodes, AfterEdges, AfterUp, AfterHTTP, AfterGRPC
<1>5. ASSUME NEW n \in Namespaces, ListPods(n) PROVE R
  <2>1. UNCHANGED <<pc, topology>> /\ pc = "nodes" BY <1>5, ListPodsDoes
  <2>2. Onward BY <1>5, ListPodsDoes, FailKeeps, CallGoesOn
  <2>3. found'.prom = found.prom /\ found'.edges = found.edges /\ found.kube \subseteq found'.kube
    BY <1>5, <1>t, ListPodsDoes DEF FoundType
  <2> QED BY <1>5, <2>1, <2>2, <2>3 DEF Follows, Answered, AfterNodes, AfterEdges, AfterUp, AfterHTTP, AfterGRPC
<1>6. ASSUME NEW n \in Namespaces, ListCallees(n) PROVE R
  <2>1. UNCHANGED <<pc, topology>> /\ pc = "edges" BY <1>6, ListCalleesDoes
  <2>2. Onward BY <1>6, ListCalleesDoes, FailKeeps, CallGoesOn
  <2>3. found'.prom = found.prom /\ found'.kube = found.kube /\ found.edges \subseteq found'.edges
    BY <1>6, <1>t, ListCalleesDoes DEF FoundType
  <2> QED BY <1>6, <2>1, <2>2, <2>3 DEF Follows, Answered, AfterNodes, AfterEdges, AfterUp, AfterHTTP, AfterGRPC
<1>7. ASSUME NEW n \in Namespaces, ListNetworkPods(n) PROVE R
  <2>1. UNCHANGED <<pc, topology>> /\ pc = "pods" BY <1>7, ListNetworkPodsDoes
  <2>2. Onward BY <1>7, ListNetworkPodsDoes, FailKeeps, CallGoesOn
  <2>3. found'.prom = found.prom /\ found'.kube = found.kube /\ found'.edges = found.edges
    BY <1>7, <1>t, ListNetworkPodsDoes DEF FoundType
  <2> QED BY <1>7, <2>1, <2>2, <2>3 DEF Follows, Answered, AfterNodes, AfterEdges, AfterUp, AfterHTTP, AfterGRPC
<1>8. ASSUME EndNodes PROVE R
  <2>1. pc = "nodes" /\ pc' \in {"up", "edges"} /\ UNCHANGED <<live, touched, failed>>
    BY <1>8 DEF EndNodes, cluster
  <2>2. Onward BY <2>1, CallGoesOn
  <2>3. found'.prom = found.prom /\ found'.edges = found.edges BY <1>8, <1>t DEF EndNodes, FoundType
  <2> QED BY <1>8, <2>1, <2>2, <2>3 DEF Follows, Answered, AfterNodes, AfterEdges, AfterUp, AfterHTTP, AfterGRPC
<1>9. ASSUME EndEdges \/ EndNetworkPods PROVE R
  <2>1. /\ UNCHANGED <<live, touched, failed, found>>
        /\ \/ pc = "edges" /\ pc' = "up" /\ EndEdges
           \/ pc = "pods" /\ pc' = "traffic"
        BY <1>9 DEF EndEdges, EndNetworkPods, cluster
  <2>2. Onward BY <2>1, CallGoesOn
  <2> QED BY <2>1, <2>2 DEF Follows, Answered, AfterNodes, AfterEdges, AfterUp, AfterHTTP, AfterGRPC
<1>10. ASSUME QueryUp PROVE R
  <2>1. pc = "up" /\ pc' \in {"metrics", "rebuild"} /\ UNCHANGED <<live, touched>> BY <1>10 DEF QueryUp, cluster
  <2>2. failed \subseteq failed' BY <1>10, FailKeeps DEF QueryUp
  <2>3. Onward BY <2>1, <2>2, CallGoesOn
  <2>4. found'.kube = found.kube /\ found'.edges = found.edges BY <1>10, <1>t DEF QueryUp, FoundType
  <2> QED
    BY <1>10, <2>1, <2>3, <2>4 DEF Follows, Answered, AfterNodes, AfterEdges, AfterUp, AfterHTTP, AfterGRPC
<1>11. ASSUME FetchMetrics PROVE R
  <2>1. pc = "metrics" /\ pc' = "http" /\ UNCHANGED <<live, touched>> BY <1>11 DEF FetchMetrics, cluster
  <2>2. failed \subseteq failed' BY <1>11, FailKeeps DEF FetchMetrics
  <2>3. Onward BY <2>1, <2>2, CallGoesOn
  <2>4. found'.kube = found.kube /\ found'.edges = found.edges BY <1>11, <1>t DEF FetchMetrics, FoundType
  <2> QED
    BY <1>11, <2>1, <2>3, <2>4 DEF Follows, Answered, AfterNodes, AfterEdges, AfterUp, AfterHTTP, AfterGRPC
<1>12. ASSUME NEW kind, NEW new, NEW next, NEW otherwise, QueryEdges(kind, new, next, otherwise)
       PROVE  /\ pc = kind /\ pc' \in {next, otherwise} /\ Onward
              /\ found'.kube = found.kube /\ found'.prom = found.prom /\ found.edges \subseteq found'.edges
  <2>1. pc = kind /\ pc' \in {next, otherwise} /\ UNCHANGED <<live, touched>> BY <1>12 DEF QueryEdges, cluster
  <2>2. failed \subseteq failed' BY <1>12, FailKeeps DEF QueryEdges
  <2>3. Onward BY <2>1, <2>2, CallGoesOn
  <2>4. found'.kube = found.kube /\ found'.prom = found.prom /\ found.edges \subseteq found'.edges
        BY <1>12, <1>t DEF QueryEdges, FoundType
  <2> QED BY <2>1, <2>3, <2>4
<1>13. ASSUME QueryHTTP PROVE R
  <2>1. /\ pc = "http" /\ pc' \in {"grpc", "rebuild"} /\ Onward
        /\ found'.kube = found.kube /\ found'.prom = found.prom /\ found.edges \subseteq found'.edges
        BY <1>12, <1>13 DEF QueryHTTP
  <2> QED BY <1>13, <2>1 DEF Follows, Answered, AfterNodes, AfterEdges, AfterUp, AfterHTTP, AfterGRPC
<1>14. ASSUME QueryGRPC PROVE R
  <2>1. /\ pc = "grpc" /\ pc' \in {"db"} /\ Onward
        /\ found'.kube = found.kube /\ found'.prom = found.prom /\ found.edges \subseteq found'.edges
        BY <1>12, <1>14 DEF QueryGRPC
  <2> QED BY <1>14, <2>1 DEF Follows, Answered, AfterNodes, AfterEdges, AfterUp, AfterHTTP, AfterGRPC
<1>15. ASSUME QueryDatabase PROVE R
  <2>1. /\ pc = "db" /\ pc' \in {"rebuild"} /\ Onward
        /\ found'.kube = found.kube /\ found'.prom = found.prom /\ found.edges \subseteq found'.edges
        BY <1>12, <1>15 DEF QueryDatabase
  <2> QED BY <1>15, <2>1 DEF Follows, Answered, AfterNodes, AfterEdges, AfterUp, AfterHTTP, AfterGRPC
<1>16. ASSUME Rebuild \/ RebuildNetwork PROVE R
  <2>1. /\ UNCHANGED <<live, touched, failed, found>>
        /\ \/ pc = "rebuild" /\ pc' = "save nodes" /\ Rebuild
           \/ pc = "rebuild network" /\ pc' = "save network" /\ RebuildNetwork
        BY <1>16 DEF Rebuild, RebuildNetwork, cluster
  <2>2. Onward BY <2>1, CallGoesOn
  <2> QED BY <2>1, <2>2 DEF Follows, Answered, AfterNodes, AfterEdges, AfterUp, AfterHTTP, AfterGRPC
<1>17. ASSUME SaveNodes \/ SaveEdges \/ SaveNetwork PROVE R
  <2>1. pc \in {"save nodes", "save edges", "save network"} /\ pc' \in {"save edges", "idle"} /\ UNCHANGED <<live, touched, found>>
        BY <1>17 DEF SaveNodes, SaveEdges, SaveNetwork, cluster
  <2>2. failed \subseteq failed' BY <1>17, FailKeeps DEF SaveNodes, SaveEdges, SaveNetwork
  <2>3. Onward BY <2>1, <2>2, CallGoesOn
  <2> QED BY <2>1, <2>3 DEF Follows, Answered, AfterNodes, AfterEdges, AfterUp, AfterHTTP, AfterGRPC
<1>18. ASSUME ListMachines \/ QueryTraffic PROVE R
  <2>1. pc \in {"machines", "traffic"} /\ pc' \in {"pods", "traffic", "rebuild network"} /\ UNCHANGED <<live, touched>>
        BY <1>18 DEF ListMachines, QueryTraffic, cluster
  <2>2. failed \subseteq failed' BY <1>18, FailKeeps DEF ListMachines, QueryTraffic
  <2>3. Onward BY <2>1, <2>2, CallGoesOn
  <2>4. found'.kube = found.kube /\ found'.prom = found.prom /\ found'.edges = found.edges
        BY <1>18, <1>t DEF ListMachines, QueryTraffic, FoundType
  <2> QED BY <2>1, <2>3, <2>4 DEF Follows, Answered, AfterNodes, AfterEdges, AfterUp, AfterHTTP, AfterGRPC
<1> HIDE DEF R
<1>19. DiscoveryNext => R
    BY <1>1, <1>2, <1>3, <1>4, <1>5, <1>6, <1>7, <1>8, <1>9, <1>10, <1>11, <1>13, <1>14, <1>15, <1>16, <1>17, <1>18
    DEF DiscoveryNext, Done
<1>20. R BY <1>2, <1>19
<1> QED BY <1>20 DEF R

(* What holds of the answers and of the lists. *)
AnswersHold == /\ ListsHold /\ FailuresKnown /\ NodesMade /\ NodesComplete /\ SeriesComplete
               /\ EdgesGrounded /\ NamesComplete /\ CallsComplete

(* It holds at the start of the process, *)
LEMMA AnswersBegin == DiscoveryInit => AnswersHold
<1> SUFFICES ASSUME DiscoveryInit PROVE AnswersHold OBVIOUS
<1>1. pc = "idle" /\ found.kube = {} /\ found.edges = {} BY DEF DiscoveryInit, Nothing
<1> QED
  BY <1>1 DEF AnswersHold, ListsHold, FailuresKnown, NodesMade, NodesComplete, SeriesComplete, EdgesGrounded,
                    NamesComplete, CallsComplete, AfterNodes, AfterEdges

(* and at the start of each refresh, which forgets the answers. *)
LEMMA AnswersBeginAgain ==
    RefreshServices \/ RefreshNetwork => AnswersHold'
<1> SUFFICES ASSUME RefreshServices \/ RefreshNetwork PROVE AnswersHold' OBVIOUS
<1>1. pc' \in {"nodes", "machines"} BY DEF RefreshServices, RefreshNetwork, Begin
<1>a. found' = Nothing /\ part' = Waiting("services") BY DEF RefreshServices, RefreshNetwork, Begin
<1>2. found'.kube = {} /\ found'.edges = {} BY <1>a DEF Nothing
<1>3. \A n \in Namespaces : part'[n].pc = "services" BY <1>a DEF Waiting
<1>b. failed' \subseteq {"save network", "save nodes", "save edges"} BY DEF RefreshServices, RefreshNetwork
<1>4. "nodes" \notin failed' BY <1>b
<1> QED
  BY <1>1, <1>2, <1>3, <1>4 DEF AnswersHold, ListsHold, FailuresKnown, NodesMade, NodesComplete, SeriesComplete, EdgesGrounded,
                    NamesComplete, CallsComplete, AfterNodes, AfterEdges

(* A step in the course of a refresh. *)
Continues == DiscoveryTypeOK /\ [DiscoveryNext]_discoveryVars /\ ~RefreshServices /\ ~RefreshNetwork

(* What is used of such a step. *)
LEMMA ContinuesIs == Continues => DiscoveryTypeOK /\ DiscoveryTypeOK' /\ Onward /\ Follows /\ Answered
BY CallsFollow, DiscoveryTyped DEF Continues

(* The lists stay right. *)
LEMMA ListsStay == Continues /\ ListsHold => ListsHold'
<1> SUFFICES ASSUME Continues, ListsHold, NEW n \in Namespaces
             PROVE  /\ pc' = "nodes" /\ part'[n].pc = "pods" => ListedNow(part[n].services, n, "service")'
                    /\ pc' = "edges" /\ part'[n].pc = "services" => ListedNow(part[n].pods, n, "pod")'
    BY DEF ListsHold
<1>0. DiscoveryTypeOK /\ Onward /\ Follows BY ContinuesIs
<1>1. ASSUME pc' = "nodes", part'[n].pc = "pods" PROVE ListedNow(part[n].services, n, "service")'
  <2>1. pc = "nodes" /\ (UNCHANGED <<part, failed>> \/ \E m \in Namespaces : ListServices(m) \/ ListPods(m))
    BY <1>0, <1>1 DEF Follows
  <2>2. ASSUME part'[n] = part[n] PROVE ListedNow(part[n].services, n, "service")'
    <3>1. ListedNow(part[n].services, n, "service") BY <1>1, <2>1, <2>2 DEF ListsHold
    <3> DEFINE list == part[n].services
    <3>2. list' = list BY <2>2
    <3> QED BY <1>0, <3>1, <2>2, ListedKept DEF Onward, ListedNow, In, OfKind, Been
  <2>3. CASE ListServices(n)
    <3>1. part'[n].services = In(n, OfKind("service", live)) /\ UNCHANGED <<live, touched>>
      BY <1>0, <1>1, <2>3, ListServicesDoes DEF Goes
    <3> QED BY <3>1 DEF ListedNow, In, OfKind, Stable
  <2>4. CASE ListPods(n) BY <1>0, <1>1, <2>4, ListPodsDoes DEF Goes
  <2>5. ASSUME NEW m \in Namespaces, m # n, ListServices(m) \/ ListPods(m) PROVE part'[n] = part[n]
        BY <1>0, <2>5, ListServicesDoes, ListPodsDoes DEF Goes
  <2> QED BY <2>1, <2>2, <2>3, <2>4, <2>5
<1>2. ASSUME pc' = "edges", part'[n].pc = "services" PROVE ListedNow(part[n].pods, n, "pod")'
  <2>0. CASE EndNodes BY <1>2, <2>0 DEF EndNodes, Waiting
  <2>1. CASE pc = "edges" /\ (UNCHANGED <<part, failed>> \/ \E m \in Namespaces : ListCallers(m) \/ ListCallees(m))
    <3>2. ASSUME part'[n] = part[n] PROVE ListedNow(part[n].pods, n, "pod")'
      <4>1. ListedNow(part[n].pods, n, "pod") BY <1>2, <2>1, <3>2 DEF ListsHold
      <4> QED BY <1>0, <4>1, <3>2 DEF Onward, ListedNow, In, OfKind, Been
    <3>3. CASE ListCallers(n)
      <4>1. part'[n].pods = In(n, OfKind("pod", live)) /\ UNCHANGED <<live, touched>>
        BY <1>0, <1>2, <3>3, ListCallersDoes DEF Goes
      <4> QED BY <4>1 DEF ListedNow, In, OfKind, Stable
    <3>4. CASE ListCallees(n) BY <1>0, <1>2, <3>4, ListCalleesDoes DEF Goes
    <3>5. ASSUME NEW m \in Namespaces, m # n, ListCallers(m) \/ ListCallees(m) PROVE part'[n] = part[n]
          BY <1>0, <3>5, ListCallersDoes, ListCalleesDoes DEF Goes
    <3> QED BY <2>1, <3>2, <3>3, <3>4, <3>5
  <2> QED BY <1>0, <1>2, <2>0, <2>1 DEF Follows
<1> QED BY <1>1, <1>2

(* Only the calls that list nodes can fail so that nodes are missing. *)
LEMMA NodesFail ==
    ASSUME Continues, "nodes" \in failed', "nodes" \notin failed
    PROVE  pc = "nodes"
<1>0. DiscoveryTypeOK BY ContinuesIs
<1>1. \A call : Fail(call) => call = "nodes" BY FailKeeps
<1>2. ~Ok /\ ~UNCHANGED failed BY DEF Ok
<1>3. ASSUME NEW n \in Namespaces, ListServices(n) \/ ListPods(n) PROVE pc = "nodes"
  BY <1>3 DEF ListServices, ListPods
<1>4. ASSUME NEW n \in Namespaces PROVE ~ListCallers(n) /\ ~ListCallees(n) /\ ~ListNetworkPods(n)
  <2>1. ~ListCallers(n) BY <1>1, <1>2 DEF ListCallers
  <2>2. ~ListCallees(n) BY <1>1, <1>2 DEF ListCallees
  <2>3. ~ListNetworkPods(n) BY <1>1, <1>2 DEF ListNetworkPods
  <2> QED BY <2>1, <2>2, <2>3
<1>5. ~EndNodes /\ ~EndEdges /\ ~EndNetworkPods /\ ~Rebuild /\ ~RebuildNetwork /\ ~UNCHANGED discoveryVars /\ ~Done
      BY <1>2 DEF EndNodes, EndEdges, EndNetworkPods, Rebuild, RebuildNetwork, discoveryVars, Done
<1>6. ~QueryUp /\ ~FetchMetrics BY <1>1, <1>2 DEF QueryUp, FetchMetrics
<1>7. ~QueryHTTP /\ ~QueryGRPC /\ ~QueryDatabase
  BY <1>1, <1>2 DEF QueryHTTP, QueryGRPC, QueryDatabase, QueryEdges
<1>8. ~SaveNodes /\ ~SaveEdges /\ ~SaveNetwork BY <1>1, <1>2 DEF SaveNodes, SaveEdges, SaveNetwork
<1>9. ~ListMachines /\ ~QueryTraffic BY <1>1, <1>2 DEF ListMachines, QueryTraffic
<1>10. \A o \in Objects : ~Change(o) BY <1>2 DEF Change
<1> QED BY <1>3, <1>4, <1>5, <1>6, <1>7, <1>8, <1>9, <1>10 DEF Continues, DiscoveryNext

(* The failures stay known. *)
LEMMA FailuresStay == Continues /\ FailuresKnown => FailuresKnown'
<1> SUFFICES ASSUME Continues, FailuresKnown
             PROVE  /\ pc' = "nodes" => ("nodes" \in failed' <=> \E n \in Namespaces : part'[n].pc = "failed")
                    /\ pc' = "edges" => "nodes" \notin failed'
    BY DEF FailuresKnown
<1>0. DiscoveryTypeOK /\ Follows BY ContinuesIs
<1>1. ASSUME pc' = "nodes" PROVE "nodes" \in failed' <=> \E n \in Namespaces : part'[n].pc = "failed"
  <2>1. /\ pc = "nodes" /\ (UNCHANGED <<part, failed>> \/ \E m \in Namespaces : ListServices(m) \/ ListPods(m))
        /\ "nodes" \in failed <=> \E n \in Namespaces : part[n].pc = "failed"
        BY <1>0, <1>1 DEF Follows, FailuresKnown
  <2>2. CASE \E m \in Namespaces : ListServices(m) \/ ListPods(m)
    <3>1. PICK m \in Namespaces : ListServices(m) \/ ListPods(m) BY <2>2
    <3>2. \/ part'[m].pc \in {"pods", "done"} /\ failed' = failed
          \/ part'[m].pc = "failed" /\ "nodes" \in failed'
          BY <1>0, <3>1, ListServicesDoes, ListPodsDoes, FailKeeps DEF Goes
    <3>3. part[m].pc # "failed" /\ \A n \in Namespaces : n # m => part'[n] = part[n]
          BY <1>0, <3>1, ListServicesDoes, ListPodsDoes DEF Goes
    <3> QED BY <2>1, <3>2, <3>3
  <2>3. CASE UNCHANGED <<part, failed>> BY <2>1, <2>3
  <2> QED BY <2>1, <2>2, <2>3
<1>2. ASSUME pc' = "edges" PROVE "nodes" \notin failed'
  <2>1. CASE EndNodes
    <3>1. pc = "nodes" /\ UNCHANGED failed /\ ~\E n \in Namespaces : part[n].pc = "failed"
      BY <1>2, <2>1 DEF EndNodes
    <3> QED BY <3>1 DEF FailuresKnown
  <2>2. CASE ~EndNodes
    <3>1. pc = "edges" /\ "nodes" \notin failed BY <1>0, <1>2, <2>2 DEF Follows, FailuresKnown
    <3> QED BY <3>1, NodesFail
  <2> QED BY <2>1, <2>2
<1> QED BY <1>1, <1>2

(* The nodes stay made of lists of their namespace. *)
LEMMA NodesStayMade == Continues /\ ListsHold /\ NodesMade => NodesMade'
<1> SUFFICES ASSUME Continues, ListsHold, NodesMade, NEW x \in found'.kube PROVE MadeOfLists(x)'
    BY DEF NodesMade
<1>0. DiscoveryTypeOK /\ Onward /\ Answered BY ContinuesIs
<1>1. CASE x \in found.kube BY <1>0, <1>1, MadeKept DEF NodesMade
<1>2. CASE x \notin found.kube
  <2>1. ~EndNodes
    <3>1. found \in FoundType BY <1>0, DiscoveryTypeIs
    <3> QED BY <1>2, <3>1 DEF EndNodes, FoundType
  <2>2. PICK n \in Namespaces : ListPods(n) BY <1>0, <1>2, <2>1 DEF Answered
  <2>3. found \in FoundType BY <1>0, DiscoveryTypeIs
  <2>4. x \in NewNodes(n) /\ pc = "nodes" /\ part[n].pc = "pods"
    BY <1>0, <1>2, <2>2, <2>3, ListPodsDoes DEF FoundType
  <2> DEFINE services == part[n].services
             pods == In(n, OfKind("pod", live))
  <2>5. ListedNow(services, n, "service") BY <2>4 DEF ListsHold
  <2>6. ListedNow(pods, n, "pod") BY DEF ListedNow, Stable, In, OfKind
  <2>7. services \in SUBSET In(n, OfKind("service", Objects)) /\ pods \in SUBSET In(n, OfKind("pod", Objects))
        BY <1>0, <2>5, <2>6 DEF ListedNow, DiscoveryTypeOK, In, OfKind
  <2>8. PICK s \in services : x = ServiceNode(s, services, pods) BY <2>4 DEF NewNodes
  <2> HIDE DEF services, pods
  <2>9. MadeOfLists(x) BY <2>5, <2>6, <2>7, <2>8 DEF MadeOfLists
  <2> QED BY <1>0, <2>9, MadeKept
<1> QED BY <1>1, <1>2

(* All services of a namespace that has been listed are found. *)
LEMMA NamespaceFound ==
    ASSUME Continues, ListsHold, NEW n \in Namespaces, ListPods(n), part'[n].pc = "done"
    PROVE  ServicesFound(n)'
<1>0. DiscoveryTypeOK /\ found \in FoundType BY ContinuesIs, DiscoveryTypeIs
<1>1. /\ found' = [found EXCEPT !.kube = found.kube \union NewNodes(n)]
      /\ UNCHANGED <<live, touched>> /\ pc = "nodes" /\ part[n].pc = "pods"
      BY <1>0, ListPodsDoes DEF Goes
<1>2. found'.kube = found.kube \union NewNodes(n) BY <1>0, <1>1 DEF FoundType
<1>3. ListedNow(part[n].services, n, "service") BY <1>1 DEF ListsHold
<1> SUFFICES ASSUME NEW s \in In(n, OfKind("service", Stable)) PROVE Key(s) \in NodeIds(found'.kube)
    BY <1>1 DEF ServicesFound, Stable
<1>4. s \in part[n].services BY <1>3 DEF ListedNow
<1>5. ServiceNode(s, part[n].services, In(n, OfKind("pod", live))) \in found'.kube BY <1>2, <1>4 DEF NewNodes
<1>6. ServiceNode(s, part[n].services, In(n, OfKind("pod", live))).key = Key(s) BY DEF ServiceNode
<1> QED BY <1>5, <1>6 DEF NodeIds

(* No service that is there all the time is missed where no call failed. *)
LEMMA NodesStayComplete == Continues /\ ListsHold /\ FailuresKnown /\ NodesComplete => NodesComplete'
<1> SUFFICES ASSUME Continues, ListsHold, FailuresKnown, NodesComplete, NEW n \in Namespaces
             PROVE  /\ pc' = "nodes" /\ part'[n].pc = "done" => ServicesFound(n)'
                    /\ pc' \in AfterNodes /\ "nodes" \notin failed' => ServicesFound(n)'
    BY DEF NodesComplete
<1>0. DiscoveryTypeOK /\ Onward /\ Follows /\ Answered BY ContinuesIs
<1>1. ASSUME pc' = "nodes", part'[n].pc = "done" PROVE ServicesFound(n)'
  <2>1. pc = "nodes" /\ (UNCHANGED <<part, failed>> \/ \E m \in Namespaces : ListServices(m) \/ ListPods(m))
    BY <1>0, <1>1 DEF Follows
  <2>2. CASE ListPods(n) BY <1>1, <2>2, NamespaceFound
  <2>3. CASE part'[n] = part[n]
    <3>1. ServicesFound(n) BY <1>1, <2>1, <2>3 DEF NodesComplete
    <3>2. ~EndNodes BY <1>1 DEF EndNodes
    <3> QED BY <1>0, <3>1, <3>2, ServicesKept DEF Answered
  <2>4. CASE ListServices(n) BY <1>0, <1>1, <2>4, ListServicesDoes DEF Goes
  <2>5. ASSUME NEW m \in Namespaces, m # n, ListServices(m) \/ ListPods(m) PROVE part'[n] = part[n]
        BY <1>0, <2>5, ListServicesDoes, ListPodsDoes DEF Goes
  <2> QED BY <2>1, <2>2, <2>3, <2>4, <2>5
<1>2. ASSUME pc' \in AfterNodes, "nodes" \notin failed' PROVE ServicesFound(n)'
  <2>1. CASE EndNodes
    <3>1. UNCHANGED failed /\ pc = "nodes" /\ part[n].pc \in {"done", "failed"} BY <2>1 DEF EndNodes
    <3>2. \A m \in Namespaces : part[m].pc # "failed" BY <1>2, <3>1 DEF FailuresKnown
    <3>3. ServicesFound(n) BY <3>1, <3>2 DEF NodesComplete
    <3>4. UNCHANGED found BY <2>1, <3>2 DEF EndNodes
    <3> QED BY <1>0, <3>3, <3>4, ServicesKept
  <2>2. CASE ~EndNodes
    <3>1. pc \in AfterNodes BY <1>0, <1>2, <2>2 DEF Follows
    <3>2. "nodes" \notin failed BY <1>0, <1>2 DEF Onward
    <3>3. ServicesFound(n) BY <3>1, <3>2 DEF NodesComplete
    <3> QED BY <1>0, <2>2, <3>3, ServicesKept DEF Answered
  <2> QED BY <2>1, <2>2
<1> QED BY <1>1, <1>2

(* No series is missed where no query failed. *)
LEMMA SeriesStayComplete == Continues /\ SeriesComplete => SeriesComplete'
<1> SUFFICES ASSUME Continues, SeriesComplete, pc' \in AfterUp, "up" \notin failed', NEW u \in OfKind("up", Stable')
             PROVE  \E x \in found'.prom : x.key = Key(u) /\ (pc' # "metrics" /\ "metrics" \notin failed' => x.rate)
    BY DEF SeriesComplete, SeriesFound, AfterUp, AfterEdges, AfterNodes
<1>0. DiscoveryTypeOK /\ found \in FoundType /\ Onward /\ Follows /\ Answered BY ContinuesIs, DiscoveryTypeIs
<1>1. u \in OfKind("up", Stable) /\ "up" \notin failed BY <1>0 DEF Onward, OfKind
<1>2. pc \in AfterUp => \E x \in found.prom : x.key = Key(u) /\ (pc # "metrics" /\ "metrics" \notin failed => x.rate)
      BY <1>1 DEF SeriesComplete, SeriesFound, AfterUp, AfterEdges, AfterNodes
<1>3. CASE QueryUp
  <2>1. found' = [found EXCEPT !.prom = {UpNode(k, OfKind("up", live)) : k \in {Key(v) : v \in OfKind("up", live)}}] /\ pc' = "metrics"
        BY <1>3, FailKeeps DEF QueryUp
  <2>2. UpNode(Key(u), OfKind("up", live)) \in found'.prom
    <3>1. found'.prom = {UpNode(k, OfKind("up", live)) : k \in {Key(v) : v \in OfKind("up", live)}}
      BY <1>0, <2>1 DEF FoundType
    <3>2. u \in OfKind("up", live) BY <1>1 DEF OfKind, Stable
    <3> QED BY <3>1, <3>2
  <2>3. UpNode(Key(u), OfKind("up", live)).key = Key(u) BY DEF UpNode
  <2> QED BY <2>1, <2>2, <2>3
<1>4. CASE FetchMetrics
  <2>1. pc = "metrics" BY <1>4 DEF FetchMetrics
  <2>2. PICK x \in found.prom : x.key = Key(u) BY <1>2, <2>1 DEF AfterUp
  <2>3. PICK missing : /\ found' = [found EXCEPT !.prom = {[n EXCEPT !.rate = n.key \notin missing] : n \in @}]
                       /\ IF missing = {} THEN Ok ELSE Fail("metrics")
        BY <1>4 DEF FetchMetrics
  <2>4. found'.prom = {[n EXCEPT !.rate = n.key \notin missing] : n \in found.prom} BY <1>0, <2>3 DEF FoundType
  <2> DEFINE y == [x EXCEPT !.rate = x.key \notin missing]
  <2>5. y \in found'.prom BY <2>2, <2>4
  <2>6. x \in FoundNode BY <1>0, <2>2 DEF FoundType
  <2>7. y.key = x.key /\ (missing = {} => y.rate) BY <2>6 DEF FoundNode
  <2>8. missing # {} => "metrics" \in failed' BY <2>3, FailKeeps
  <2> HIDE DEF y
  <2> QED BY <2>2, <2>5, <2>7, <2>8
<1>5. CASE ~QueryUp /\ ~FetchMetrics
  <2>1. pc \in AfterUp /\ found'.prom = found.prom BY <1>0, <1>5 DEF Follows, Answered
  <2>2. pc = "metrics" <=> pc' = "metrics" BY <1>0, <1>5 DEF Follows
  <2>3. "metrics" \notin failed' => "metrics" \notin failed BY <1>0 DEF Onward
  <2> QED BY <1>2, <2>1, <2>2, <2>3
<1> QED BY <1>3, <1>4, <1>5

(* The first two fields of an id are the ends of its edge, *)
LEMMA Triple == ASSUME NEW e, NEW x, NEW y, NEW z, e.id = <<x,y,z>> PROVE e.id[1] = x /\ e.id[2] = y
OBVIOUS

(* of an edge of the environment, *)
LEMMA EnvEnds ==
    ASSUME NEW e, NEW s, NEW t, e.id = <<Key(s), Key(t), "">>
    PROVE  e.id[1] = Key(s) /\ e.id[2] = Key(t)
BY Triple

(* as it is made, *)
LEMMA EnvEdgeEnds ==
    ASSUME NEW s, NEW t, NEW c
    PROVE  EnvEdge(s, t, c).id[1] = Key(s) /\ EnvEdge(s, t, c).id[2] = Key(t)
<1>1. EnvEdge(s, t, c).id = <<Key(s), Key(t), "">> BY DEF EnvEdge
<1> QED BY <1>1, EnvEnds, Zenon

(* of a call, *)
LEMMA CallEnds ==
    ASSUME NEW e, NEW c, e.id = <<Key(c), Callee(c), "">> \/ e.id = <<Key(c), Callee(c), "grpc">>
    PROVE  e.id[1] = Key(c) /\ e.id[2] = Callee(c)
BY Triple

(* and the caller of a database. *)
LEMMA DatabaseEnds ==
    ASSUME NEW e, NEW c, e.id = <<Key(c), <<c.to>>, "db">>
    PROVE  e.id[1] = Key(c) /\ e.id[2] = <<c.to>>
BY Triple

(* What an edge that is found is, however it is found. *)
LEMMA EnvGrounded ==
    ASSUME DiscoveryTypeOK, NEW n, NEW maps, NEW e \in NewEdges(n, maps)
    PROVE  EdgeGrounded(e) /\ e.type = "indirect"
<1>1. PICK s \in In(n, OfKind("service", live)), t \in In(n, OfKind("service", live)), c \in {50, 60} : e = EnvEdge(s, t, c)
      BY EnvEdgeOf DEF NewEdges
<1>2. e.type = "indirect" /\ e.direct = FALSE /\ e.confidence = c /\ e.id = <<Key(s), Key(t), "">>
  BY <1>1 DEF EnvEdge
<1>3. s \in OfKind("service", live \union touched) /\ t \in OfKind("service", live \union touched)
  BY DEF In, OfKind
<1>4. e.id[1] = Key(s) /\ e.id[2] = Key(t) BY <1>1, EnvEdgeEnds
<1>5. \A i \in 1..2 : \E u \in OfKind("service", live \union touched) : Key(u) = e.id[i] BY <1>3, <1>4
<1>6. ~(e.confidence >= 90)
  <2>1. \A x \in {50, 60} : ~(x >= 90) OBVIOUS
  <2> QED BY <1>2, <2>1, Zenon
<1> QED BY <1>2, <1>5, <1>6 DEF EdgeGrounded

(* The edge of a counted call goes back to that call. *)
LEMMA CallGrounded ==
    ASSUME NEW c \in live, NEW e,
           \/ c.kind = "http" /\ e = HTTPEdge(c)
           \/ c.kind = "grpc" /\ e = GRPCEdge(c)
           \/ c.kind = "db" /\ e = DatabaseEdge(c)
    PROVE  EdgeGrounded(e) /\ e.type # "indirect" /\ e.direct
<1>1. c \in live \union touched /\ c.kind \in {"http", "grpc", "db"} OBVIOUS
<1>2. \A n \in {90, 95} : n >= 90 OBVIOUS
<1>3. CASE c.kind = "http" /\ e = HTTPEdge(c)
  <2>1. e.type = "http" /\ e.direct = TRUE /\ e.confidence = 90 BY <1>3 DEF HTTPEdge
  <2>a. e.id = <<Key(c), Callee(c), "">> BY <1>3 DEF HTTPEdge
  <2>2. e.id[1] = Key(c) /\ e.id[2] = Callee(c) BY <2>a, CallEnds, Zenon
  <2>3. e.confidence >= 90 BY <1>2, <2>1, Zenon
  <2>4. GoesBackTo(e, c) BY <1>3, <2>1, <2>2 DEF GoesBackTo
  <2> QED BY <1>1, <2>1, <2>3, <2>4 DEF EdgeGrounded
<1>4. CASE c.kind = "grpc" /\ e = GRPCEdge(c)
  <2>1. e.type = "grpc" /\ e.direct = TRUE /\ e.confidence = 90 BY <1>4 DEF GRPCEdge
  <2>a. e.id = <<Key(c), Callee(c), "grpc">> BY <1>4 DEF GRPCEdge
  <2>2. e.id[1] = Key(c) /\ e.id[2] = Callee(c) BY <2>a, CallEnds, Zenon
  <2>3. e.confidence >= 90 BY <1>2, <2>1, Zenon
  <2>4. GoesBackTo(e, c) BY <1>4, <2>1, <2>2 DEF GoesBackTo
  <2> QED BY <1>1, <2>1, <2>3, <2>4 DEF EdgeGrounded
<1>5. CASE c.kind = "db" /\ e = DatabaseEdge(c)
  <2>1. e.type = "database" /\ e.direct = TRUE /\ e.confidence = 95 BY <1>5 DEF DatabaseEdge
  <2>a. e.id = <<Key(c), <<c.to>>, "db">> BY <1>5 DEF DatabaseEdge
  <2>2. e.id[1] = Key(c) /\ e.id[2] = <<c.to>> BY <2>a, DatabaseEnds, Zenon
  <2>3. e.confidence >= 90 BY <1>2, <2>1, Zenon
  <2>4. GoesBackTo(e, c) BY <1>5, <2>1, <2>2 DEF GoesBackTo
  <2> QED BY <1>1, <2>1, <2>3, <2>4 DEF EdgeGrounded
<1> QED BY <1>3, <1>4, <1>5

(* The calls that Prometheus has counted. *)
LEMMA QueryFinds ==
    ASSUME DiscoveryTypeOK, NEW e \in found'.edges, e \notin found.edges, QueryHTTP \/ QueryGRPC \/ QueryDatabase
    PROVE  EdgeGrounded(e) /\ e.type # "indirect"
<1>1. found \in FoundType BY DiscoveryTypeIs
<1>2. ASSUME NEW kind, NEW new, NEW next, NEW otherwise, QueryEdges(kind, new, next, otherwise)
      PROVE  e \in new
      BY <1>1, <1>2 DEF QueryEdges, FoundType
<1>3. CASE QueryHTTP
  <2>1. PICK c \in Counted("http") : e = HTTPEdge(c) BY <1>2, <1>3 DEF QueryHTTP
  <2> QED BY <2>1, CallGrounded DEF Counted, OfKind
<1>4. CASE QueryGRPC
  <2>1. PICK c \in Counted("grpc") : e = GRPCEdge(c) BY <1>2, <1>4 DEF QueryGRPC
  <2> QED BY <2>1, CallGrounded DEF Counted, OfKind
<1>5. CASE QueryDatabase
  <2>1. PICK c \in OfKind("db", live) : e = DatabaseEdge(c) BY <1>2, <1>5 DEF QueryDatabase
  <2> QED BY <2>1, CallGrounded DEF OfKind
<1> QED BY <1>3, <1>4, <1>5

(* Every edge keeps its ground, and none comes without one. *)
LEMMA EdgesStayGrounded == Continues /\ FailuresKnown /\ EdgesGrounded => EdgesGrounded'
<1> SUFFICES ASSUME Continues, FailuresKnown, EdgesGrounded, NEW e \in found'.edges
             PROVE  EdgeGrounded(e)' /\ (e.type = "indirect" => "nodes" \notin failed' /\ pc' # "nodes")
    BY DEF EdgesGrounded
<1>0. DiscoveryTypeOK /\ found \in FoundType /\ Onward /\ Follows /\ Answered BY ContinuesIs, DiscoveryTypeIs
<1>1. CASE e \in found.edges
  <2>1. EdgeGrounded(e) /\ (e.type = "indirect" => "nodes" \notin failed /\ pc # "nodes")
    BY <1>1 DEF EdgesGrounded
  <2>2. pc # "nodes" => pc' # "nodes" BY <1>0 DEF Follows
  <2> QED BY <1>0, <2>1, <2>2, GroundedKept, NodesFail
<1>2. CASE e \notin found.edges /\ \E n \in Namespaces : ListCallees(n)
  <2>1. PICK n \in Namespaces : ListCallees(n) BY <1>2
  <2>2. PICK maps \in BOOLEAN : found' = [found EXCEPT !.edges = found.edges \union NewEdges(n, maps)]
        BY <1>0, <1>2, <2>1, ListCalleesDoes
  <2>3. e \in NewEdges(n, maps) BY <1>0, <1>2, <2>2 DEF FoundType
  <2>4. EdgeGrounded(e) BY <1>0, <2>3, EnvGrounded
  <2>5. pc = "edges" /\ UNCHANGED pc BY <1>0, <2>1, ListCalleesDoes
  <2>6. "nodes" \notin failed' BY <2>5, NodesFail DEF FailuresKnown
  <2> QED BY <1>0, <2>4, <2>5, <2>6, GroundedKept
<1>3. CASE e \notin found.edges /\ (QueryHTTP \/ QueryGRPC \/ QueryDatabase)
  <2>1. EdgeGrounded(e) /\ e.type # "indirect" BY <1>0, <1>3, QueryFinds
  <2> QED BY <1>0, <2>1, GroundedKept
<1> QED BY <1>0, <1>1, <1>2, <1>3 DEF Answered

(* The pods of a namespace and the services that their environment names. *)
LEMMA NamespaceNamed ==
    ASSUME Continues, ListsHold, NEW n \in Namespaces, ListCallees(n), "edges" \notin failed'
    PROVE  NamesFound(n)'
<1>0. DiscoveryTypeOK /\ found \in FoundType BY ContinuesIs, DiscoveryTypeIs
<1>1. /\ UNCHANGED <<live, touched>> /\ pc = "edges" /\ part[n].pc = "services"
      /\ found' = [found EXCEPT !.edges = found.edges \union NewEdges(n, TRUE)]
      BY <1>0, ListCalleesDoes, FailKeeps
<1>2. found'.edges = found.edges \union NewEdges(n, TRUE) BY <1>0, <1>1 DEF FoundType
<1>3. ListedNow(part[n].pods, n, "pod") BY <1>1 DEF ListsHold
<1> DEFINE services == In(n, OfKind("service", live))
<1> SUFFICES ASSUME NEW p \in In(n, OfKind("pod", Stable)), NEW s \in ServiceOf(p, services), NEW t \in services,
                    t.name \in p.env \union p.maps, s # t
             PROVE  Found(<<Key(s), Key(t)>>, FALSE)'
    BY <1>1 DEF NamesFound, Stable
<1>4. p \in part[n].pods BY <1>3 DEF ListedNow
<1>5. s \in services BY DEF ServiceOf
<1>6. t.name \in p.env \union (IF TRUE THEN p.maps ELSE {}) OBVIOUS
<1> HIDE DEF services
<1>7. \E e \in EnvEdges(services, part[n].pods, TRUE) : Ends(e) = <<Key(s), Key(t)>>
  BY <1>4, <1>5, <1>6, EnvEdgeFor
<1> QED BY <1>2, <1>7 DEF Found, NewEdges, services

(* No name in the environment is missed where no call failed. *)
LEMMA NamesStayComplete == Continues /\ ListsHold /\ FailuresKnown /\ NamesComplete => NamesComplete'
<1> SUFFICES ASSUME Continues, ListsHold, FailuresKnown, NamesComplete, NEW n \in Namespaces
             PROVE  /\ pc' = "edges" /\ part'[n].pc = "done" /\ "edges" \notin failed' => NamesFound(n)'
                    /\ pc' \in AfterEdges /\ failed' \intersect {"nodes", "edges"} = {} => NamesFound(n)'
    BY DEF NamesComplete
<1>0. DiscoveryTypeOK /\ Onward /\ Follows /\ Answered BY ContinuesIs
<1>1. ASSUME pc' = "edges", part'[n].pc = "done", "edges" \notin failed' PROVE NamesFound(n)'
  <2>0. "edges" \notin failed BY <1>0, <1>1 DEF Onward
  <2>1. CASE EndNodes BY <1>1, <2>1 DEF EndNodes, Waiting
  <2>2. CASE ListCallees(n) BY <1>1, <2>2, NamespaceNamed
  <2>3. CASE pc = "edges" /\ part'[n] = part[n]
    <3>1. NamesFound(n) BY <1>1, <2>0, <2>3 DEF NamesComplete
    <3> QED BY <1>0, <3>1, NamesKept DEF Answered
  <2>4. CASE ListCallers(n) BY <1>0, <1>1, <2>4, ListCallersDoes, FailKeeps DEF Goes
  <2>5. ASSUME NEW m \in Namespaces, m # n, ListCallers(m) \/ ListCallees(m) PROVE part'[n] = part[n]
        BY <1>0, <2>5, ListCallersDoes, ListCalleesDoes DEF Goes
  <2> QED BY <1>0, <1>1, <2>1, <2>2, <2>3, <2>4, <2>5 DEF Follows
<1>2. ASSUME pc' \in AfterEdges, failed' \intersect {"nodes", "edges"} = {} PROVE NamesFound(n)'
  <2>0. failed \intersect {"nodes", "edges"} = {} BY <1>0, <1>2 DEF Onward
  <2>1. CASE EndNodes
    <3>1. pc = "nodes" /\ "nodes" \notin failed BY <2>0, <2>1 DEF EndNodes
    <3>2. pc' = "edges" BY <2>1, <3>1 DEF EndNodes, FailuresKnown
    <3> QED BY <1>2, <3>2 DEF AfterEdges, AfterNodes
  <2>2. CASE EndEdges
    <3>1. NamesFound(n) BY <2>0, <2>2 DEF EndEdges, NamesComplete
    <3> QED BY <1>0, <3>1, NamesKept DEF Answered
  <2>3. CASE pc \in AfterEdges
    <3>1. NamesFound(n) BY <2>0, <2>3 DEF NamesComplete
    <3> QED BY <1>0, <3>1, NamesKept DEF Answered
  <2> QED BY <1>0, <1>2, <2>1, <2>2, <2>3 DEF Follows
<1> QED BY <1>1, <1>2

(* The calls that a query that did not fail has found. *)
LEMMA QueryCompletes ==
    ASSUME DiscoveryTypeOK
    PROVE  /\ QueryHTTP /\ "http" \notin failed' => CallsFound("http")'
           /\ QueryGRPC /\ "grpc" \notin failed' => CallsFound("grpc")'
<1>0. found \in FoundType BY DiscoveryTypeIs
<1>1. ASSUME NEW kind, NEW new, NEW next, NEW otherwise, QueryEdges(kind, new, next, otherwise), kind \notin failed'
      PROVE  UNCHANGED <<live, touched>> /\ new \subseteq found'.edges
  <2>1. ~Fail(kind) BY <1>1, FailKeeps
  <2> QED BY <1>0, <1>1, <2>1 DEF QueryEdges, FoundType, cluster
<1>2. ASSUME QueryHTTP, "http" \notin failed' PROVE CallsFound("http")'
  <2>1. UNCHANGED <<live, touched>> /\ {HTTPEdge(c) : c \in Counted("http")} \subseteq found'.edges
        BY <1>1, <1>2 DEF QueryHTTP
  <2> SUFFICES ASSUME NEW c \in OfKind("http", Stable), Callee(c)[2] # 0
               PROVE  Found(<<Key(c), Callee(c)>>, TRUE)'
      BY <2>1 DEF CallsFound, Stable
  <2>2. HTTPEdge(c) \in found'.edges BY <2>1 DEF Stable, OfKind, Counted
  <2>3. Ends(HTTPEdge(c)) = <<Key(c), Callee(c)>> /\ HTTPEdge(c).direct BY DEF HTTPEdge, Ends
  <2> QED BY <2>2, <2>3 DEF Found
<1>3. ASSUME QueryGRPC, "grpc" \notin failed' PROVE CallsFound("grpc")'
  <2>1. UNCHANGED <<live, touched>> /\ {GRPCEdge(c) : c \in Counted("grpc")} \subseteq found'.edges
        BY <1>1, <1>3 DEF QueryGRPC
  <2> SUFFICES ASSUME NEW c \in OfKind("grpc", Stable), Callee(c)[2] # 0
               PROVE  Found(<<Key(c), Callee(c)>>, TRUE)'
      BY <2>1 DEF CallsFound, Stable
  <2>2. GRPCEdge(c) \in found'.edges BY <2>1 DEF Stable, OfKind, Counted
  <2>3. Ends(GRPCEdge(c)) = <<Key(c), Callee(c)>> /\ GRPCEdge(c).direct BY DEF GRPCEdge, Ends
  <2> QED BY <2>2, <2>3 DEF Found
<1> QED BY <1>2, <1>3

(* No counted call is missed where no query failed. *)
LEMMA CallsStayComplete == Continues /\ CallsComplete => CallsComplete'
<1> SUFFICES ASSUME Continues, CallsComplete
             PROVE  /\ pc' \in AfterHTTP /\ failed' \intersect {"up", "http"} = {} => CallsFound("http")'
                    /\ pc' \in AfterGRPC /\ failed' \intersect {"up", "http", "grpc"} = {} => CallsFound("grpc")'
    BY DEF CallsComplete, AfterHTTP, AfterGRPC
<1>0. DiscoveryTypeOK /\ Onward /\ Follows /\ Answered BY ContinuesIs
<1>u. QueryUp /\ pc' \in AfterHTTP => "up" \in failed' BY FailKeeps DEF QueryUp, AfterHTTP
<1>h. QueryHTTP /\ pc' \in AfterGRPC => "http" \in failed' BY FailKeeps DEF QueryHTTP, QueryEdges, AfterGRPC
<1>1. ASSUME pc' \in AfterHTTP, failed' \intersect {"up", "http"} = {} PROVE CallsFound("http")'
  <2>1. CASE QueryHTTP BY <1>0, <1>1, <2>1, QueryCompletes
  <2>2. CASE ~QueryHTTP
    <3>1. pc \in AfterHTTP BY <1>0, <1>u, <1>1, <2>2 DEF Follows
    <3>2. failed \intersect {"up", "http"} = {} BY <1>0, <1>1 DEF Onward
    <3>3. CallsFound("http") BY <3>1, <3>2 DEF CallsComplete, AfterHTTP
    <3> QED BY <1>0, <3>3, CallsKept DEF Answered
  <2> QED BY <2>1, <2>2
<1>2. ASSUME pc' \in AfterGRPC, failed' \intersect {"up", "http", "grpc"} = {} PROVE CallsFound("grpc")'
  <2>1. CASE QueryGRPC BY <1>0, <1>2, <2>1, QueryCompletes
  <2>2. CASE ~QueryGRPC
    <3>0. AfterGRPC \subseteq AfterHTTP BY DEF AfterGRPC, AfterHTTP
    <3>1. pc \in AfterGRPC BY <1>0, <1>u, <1>h, <1>2, <2>2, <3>0 DEF Follows
    <3>2. failed \intersect {"up", "http", "grpc"} = {} BY <1>0, <1>2 DEF Onward
    <3>3. CallsFound("grpc") BY <3>1, <3>2 DEF CallsComplete, AfterGRPC
    <3> QED BY <1>0, <3>3, CallsKept DEF Answered
  <2> QED BY <2>1, <2>2
<1> QED BY <1>1, <1>2

(* All of this holds after every step of a refresh. *)
LEMMA AnswersStay == Continues /\ AnswersHold => AnswersHold'
BY ListsStay, FailuresStay, NodesStayMade, NodesStayComplete, SeriesStayComplete, EdgesStayGrounded, NamesStayComplete,
   CallsStayComplete DEF AnswersHold

(* The other calls keep to their refresh, and leave the graph and the tables alone. *)
LEMMA Asking ==
    ASSUME Continues, ~Rebuild, ~RebuildNetwork, ~SaveNodes, ~SaveEdges, ~SaveNetwork
    PROVE  /\ UNCHANGED <<topology, rows>>
           /\ pc' = pc \/ {pc, pc'} \subseteq ServicePhases \/ {pc, pc'} \subseteq NetworkPhases
<1> DEFINE R == /\ UNCHANGED <<topology, rows>>
                /\ pc' = pc \/ {pc, pc'} \subseteq ServicePhases \/ {pc, pc'} \subseteq NetworkPhases
<1>1. ASSUME NEW o \in Objects, Change(o) PROVE R BY <1>1 DEF Change
<1>2. ASSUME UNCHANGED discoveryVars PROVE R BY <1>2 DEF discoveryVars
<1>3. ASSUME NEW n \in Namespaces, ListServices(n) \/ ListPods(n) \/ ListCallers(n) \/ ListCallees(n) \/ ListNetworkPods(n) PROVE R
      BY <1>3 DEF ListServices, ListPods, ListCallers, ListCallees, ListNetworkPods
<1>4. ASSUME EndNodes \/ EndEdges \/ QueryUp \/ FetchMetrics PROVE R
      BY <1>4 DEF EndNodes, EndEdges, QueryUp, FetchMetrics, ServicePhases
<1>5. ASSUME QueryHTTP \/ QueryGRPC \/ QueryDatabase PROVE R
      BY <1>5 DEF QueryHTTP, QueryGRPC, QueryDatabase, QueryEdges, ServicePhases
<1>6. ASSUME ListMachines \/ EndNetworkPods \/ QueryTraffic PROVE R
      BY <1>6 DEF ListMachines, EndNetworkPods, QueryTraffic, NetworkPhases
<1> HIDE DEF R
<1>7. R BY <1>1, <1>2, <1>3, <1>4, <1>5, <1>6 DEF Continues, DiscoveryNext, Done
<1> QED BY <1>7 DEF R

(* The graph is the merge of the answers until it is saved. *)
LEMMA GraphStaysBuilt == Continues /\ GraphBuilt => GraphBuilt'
<1> SUFFICES ASSUME Continues, GraphBuilt PROVE GraphBuilt' OBVIOUS
<1>0. DiscoveryTypeOK /\ topology \in GraphType /\ Follows BY ContinuesIs, DiscoveryTypeIs
<1>1. ASSUME pc' = "save nodes"
      PROVE  topology'.nodes = MergeNodes(found'.kube, found'.prom) /\ topology'.edges = MergeEdges(found'.edges)
  <2>1. CASE Rebuild
    <3>1. /\ topology' = [topology EXCEPT !.nodes = MergeNodes(found.kube, found.prom), !.edges = MergeEdges(found.edges)]
          /\ UNCHANGED found
          BY <2>1 DEF Rebuild
    <3> QED BY <1>0, <3>1 DEF GraphType
  <2>2. CASE pc = "save nodes" /\ UNCHANGED <<found, topology>> BY <2>2 DEF GraphBuilt
  <2> QED BY <1>0, <1>1, <2>1, <2>2 DEF Follows
<1>2. ASSUME pc' = "save network"
      PROVE  topology'.network = found'.network \union {MachineId(m) : m \in found'.machines}
  <2>1. CASE RebuildNetwork
    <3>1. /\ topology' = [topology EXCEPT !.network = found.network \union {MachineId(m) : m \in found.machines}]
          /\ UNCHANGED found
          BY <2>1 DEF RebuildNetwork
    <3> QED BY <1>0, <3>1 DEF GraphType
  <2>2. CASE pc = "save network" /\ UNCHANGED <<found, topology>> BY <2>2 DEF GraphBuilt
  <2> QED BY <1>0, <1>2, <2>1, <2>2 DEF Follows
<1> QED BY <1>1, <1>2 DEF GraphBuilt

(* The tables. *)
LEMMA UpsertHas ==
    ASSUME NEW table, NEW new, NEW id
    PROVE  new \subseteq Upsert(table, new, id)
BY DEF Upsert

(* An upsert that no row is in the way of leaves one row for two services that are joined. *)
LEMMA UpsertOnePerEnds ==
    ASSUME NEW table, NEW new, OnePerEnds(table), OnePerEnds(new),
           \A n \in new, r \in table : Ends(n) = Ends(r) => n.id = r.id
    PROVE  OnePerEnds(Upsert(table, new, "id"))
<1>1. Upsert(table, new, "id") = {r \in table : \A n \in new : n.id # r.id} \union new BY DEF Upsert
<1> QED BY <1>1 DEF OnePerEnds

(* A merge has one edge for two services that are joined. *)
LEMMA MergeOnePerEnds == ASSUME NEW e \in SUBSET FoundEdge PROVE OnePerEnds(MergeEdges(e))
BY MergeHas DEF OnePerEnds

(* The tables keep following the graph. *)
LEMMA TablesFollowOn == Continues /\ GraphBuilt /\ TablesFollow => TablesFollow'
<1> SUFFICES ASSUME Continues, GraphBuilt, TablesFollow PROVE TablesFollow' OBVIOUS
<1>0. /\ DiscoveryTypeOK /\ found \in FoundType /\ topology \in GraphType /\ rows \in GraphType /\ failed \subseteq failed'
      /\ found.edges \in SUBSET FoundEdge
      BY ContinuesIs, DiscoveryTypeIs DEF Onward, FoundType
<1> DEFINE Multihomed(network) == \E m \in OfKind("machine", Objects) : MachineId(m) \in network /\ m.addresses > 1
<1>t. /\ pc \notin ServicePhases \union {"save nodes"} /\ "save nodes" \notin failed => topology.nodes \subseteq rows.nodes
      /\ pc \notin ServicePhases \union {"save nodes", "save edges"} /\ "save edges" \notin failed =>
             topology.edges \subseteq rows.edges \/ InTheWay
      /\ pc \notin NetworkPhases \union {"save network"} /\ "save network" \notin failed =>
            topology.network \subseteq rows.network \/ Multihomed(topology.network)
      /\ OnePerEnds(topology.edges) /\ OnePerEnds(rows.edges)
      BY DEF TablesFollow
<1> SUFFICES
      /\ pc' \notin ServicePhases \union {"save nodes"} /\ "save nodes" \notin failed' =>
             topology'.nodes \subseteq rows'.nodes
      /\ pc' \notin ServicePhases \union {"save nodes", "save edges"} /\ "save edges" \notin failed' =>
             topology'.edges \subseteq rows'.edges \/ InTheWay'
      /\ pc' \notin NetworkPhases \union {"save network"} /\ "save network" \notin failed' =>
            topology'.network \subseteq rows'.network \/ Multihomed(topology'.network)
      /\ OnePerEnds(topology'.edges) /\ OnePerEnds(rows'.edges)
    BY DEF TablesFollow, OnePerEnds
<1> HIDE DEF Multihomed
<1>w. UNCHANGED <<topology.edges, rows.edges>> => InTheWay' = InTheWay BY DEF InTheWay
<1>p. /\ {"save nodes", "save edges", "save network", "idle"} \intersect (ServicePhases \union NetworkPhases) = {}
      /\ ServicePhases \intersect NetworkPhases = {}
      BY DEF ServicePhases, NetworkPhases
<1>1. CASE ~Rebuild /\ ~RebuildNetwork /\ ~SaveNodes /\ ~SaveEdges /\ ~SaveNetwork
  <2>1. UNCHANGED <<topology, rows>> BY <1>1, Asking
  <2>2. pc' = pc \/ {pc, pc'} \subseteq ServicePhases \/ {pc, pc'} \subseteq NetworkPhases BY <1>1, Asking
  <2> QED BY <1>0, <1>t, <1>p, <1>w, <2>1, <2>2
<1>2. CASE Rebuild
  <2>1. /\ topology' = [topology EXCEPT !.nodes = MergeNodes(found.kube, found.prom), !.edges = MergeEdges(found.edges)]
        /\ pc = "rebuild" /\ pc' = "save nodes" /\ UNCHANGED <<rows, failed>>
        BY <1>2 DEF Rebuild
  <2>2. topology'.edges = MergeEdges(found.edges) /\ topology'.network = topology.network
    BY <1>0, <2>1 DEF GraphType
  <2>3. OnePerEnds(MergeEdges(found.edges)) BY <1>0, MergeOnePerEnds
  <2>4. "rebuild" \in ServicePhases BY DEF ServicePhases
  <2> QED BY <1>t, <1>p, <2>1, <2>2, <2>3, <2>4
<1>3. CASE RebuildNetwork
  <2>1. /\ \E S : topology' = [topology EXCEPT !.network = S]
        /\ pc = "rebuild network" /\ pc' = "save network" /\ UNCHANGED <<rows, failed>>
        BY <1>3 DEF RebuildNetwork
  <2>2. topology'.edges = topology.edges /\ topology'.nodes = topology.nodes BY <1>0, <2>1 DEF GraphType
  <2>4. "rebuild network" \in NetworkPhases BY DEF NetworkPhases
  <2> QED BY <1>t, <1>p, <1>w, <2>1, <2>2, <2>4
<1>4. CASE SaveNodes
  <2>1. /\ pc = "save nodes" /\ pc' = "save edges" /\ UNCHANGED topology
        /\ \/ rows' = [rows EXCEPT !.nodes = Upsert(rows.nodes, topology.nodes, "key")]
           \/ UNCHANGED rows /\ "save nodes" \in failed'
        BY <1>4, FailKeeps DEF SaveNodes
  <2>2. /\ rows'.edges = rows.edges /\ rows'.network = rows.network
        /\ "save nodes" \notin failed' => rows'.nodes = Upsert(rows.nodes, topology.nodes, "key")
        BY <1>0, <2>1 DEF GraphType
  <2>3. topology.nodes \subseteq Upsert(rows.nodes, topology.nodes, "key") BY UpsertHas
  <2> QED BY <1>0, <1>t, <1>p, <1>w, <2>1, <2>2, <2>3
<1>5. CASE SaveEdges
  <2>1. /\ pc = "save edges" /\ pc' = "idle" /\ UNCHANGED topology
        /\ \/ ~InTheWay /\ rows' = [rows EXCEPT !.edges = Upsert(rows.edges, topology.edges, "id")]
           \/ InTheWay /\ UNCHANGED rows
           \/ UNCHANGED rows /\ "save edges" \in failed'
        BY <1>5, FailKeeps DEF SaveEdges
  <2>2. /\ rows'.nodes = rows.nodes /\ rows'.network = rows.network
        /\ rows'.edges = rows.edges \/ (~InTheWay /\ rows'.edges = Upsert(rows.edges, topology.edges, "id"))
        /\ "save edges" \notin failed' /\ ~InTheWay => rows'.edges = Upsert(rows.edges, topology.edges, "id")
        /\ "save edges" \notin failed' /\ InTheWay => rows'.edges = rows.edges
        BY <1>0, <2>1 DEF GraphType
  <2>3. topology.edges \subseteq Upsert(rows.edges, topology.edges, "id") BY UpsertHas
  <2>4. ASSUME ~InTheWay PROVE OnePerEnds(Upsert(rows.edges, topology.edges, "id"))
    <3>1. \A n \in topology.edges, r \in rows.edges : Ends(n) = Ends(r) => n.id = r.id BY <2>4 DEF InTheWay
    <3>2. OnePerEnds(rows.edges) /\ OnePerEnds(topology.edges) BY <1>t
    <3> QED BY <3>1, <3>2, UpsertOnePerEnds
  <2>5. OnePerEnds(rows'.edges) BY <1>t, <2>2, <2>4
  <2>6. "save edges" \notin failed' => topology'.edges \subseteq rows'.edges \/ InTheWay'
        BY <1>w, <2>1, <2>2, <2>3
  <2> QED BY <1>0, <1>t, <1>p, <2>1, <2>2, <2>5, <2>6
<1>6. CASE SaveNetwork
  <2>1. /\ pc = "save network" /\ pc' = "idle" /\ UNCHANGED topology
        /\ \/ rows' = IF Twice THEN rows ELSE [rows EXCEPT !.network = rows.network \union topology.network]
           \/ UNCHANGED rows /\ "save network" \in failed'
        BY <1>6, FailKeeps DEF SaveNetwork
  <2>2. /\ rows'.nodes = rows.nodes /\ rows'.edges = rows.edges
        /\ "save network" \notin failed' => Twice \/ topology.network \subseteq rows'.network
        BY <1>0, <2>1 DEF GraphType
  <2>3. Twice => Multihomed(topology.network)
    <3>1. topology.network = found.network \union {MachineId(m) : m \in found.machines} BY <2>1 DEF GraphBuilt
    <3>2. found.machines \subseteq OfKind("machine", Objects) BY <1>0 DEF FoundType
    <3> QED BY <3>1, <3>2 DEF Twice, Multihomed
  <2> QED BY <1>0, <1>t, <1>p, <1>w, <2>1, <2>2, <2>3
<1> QED BY <1>1, <1>2, <1>3, <1>4, <1>5, <1>6

(* The inductive invariant. *)
DiscoveryInvariant == DiscoveryTypeOK /\ AnswersHold /\ GraphBuilt /\ TablesFollow

(* The invariant holds at the start of the process, *)
LEMMA DiscoveryBegins == DiscoveryInit => DiscoveryInvariant
<1> SUFFICES ASSUME DiscoveryInit PROVE DiscoveryInvariant OBVIOUS
<1>1. DiscoveryTypeOK
  <2>1. live \in SUBSET Objects /\ touched \in SUBSET Objects BY DEF DiscoveryInit
  <2>2. pc \in DiscoveryLabels BY DEF DiscoveryInit, DiscoveryLabels
  <2>3. part \in [Namespaces -> Part] BY WaitingTyped DEF DiscoveryInit
  <2>4. found \in FoundType BY NothingTyped DEF DiscoveryInit
  <2>5. topology \in GraphType /\ rows \in GraphType BY DEF DiscoveryInit, GraphType
  <2> QED BY <2>1, <2>2, <2>3, <2>4, <2>5, DiscoveryTypeIs
<1>2. AnswersHold BY AnswersBegin
<1>3. GraphBuilt BY DEF DiscoveryInit, GraphBuilt
<1>4. TablesFollow
  <2>1. topology.nodes = {} /\ topology.edges = {} /\ topology.network = {} /\ rows.edges = {}
    BY DEF DiscoveryInit
  <2> QED BY <2>1 DEF TablesFollow, OnePerEnds
<1> QED BY <1>1, <1>2, <1>3, <1>4 DEF DiscoveryInvariant

(* at the start of a refresh, *)
LEMMA DiscoveryBeginsAgain ==
    DiscoveryInvariant /\ (RefreshServices \/ RefreshNetwork) => DiscoveryInvariant'
<1> SUFFICES ASSUME DiscoveryInvariant, RefreshServices \/ RefreshNetwork PROVE DiscoveryInvariant' OBVIOUS
<1>1. DiscoveryTypeOK' BY DiscoveryTyped DEF DiscoveryInvariant, DiscoveryNext
<1>2. AnswersHold' BY AnswersBeginAgain
<1>3. pc = "idle" /\ UNCHANGED <<topology, rows>> BY DEF RefreshServices, RefreshNetwork, Begin
<1>4. GraphBuilt' BY DEF RefreshServices, RefreshNetwork, Begin, GraphBuilt
<1>5. TablesFollow'
  <2>1. "idle" \notin ServicePhases \union NetworkPhases BY DEF ServicePhases, NetworkPhases
  <2>2. TablesFollow BY DEF DiscoveryInvariant
  <2>3. CASE RefreshServices
    <3>1. pc' \in ServicePhases BY <2>3 DEF RefreshServices, Begin, ServicePhases
    <3>2. "save network" \notin failed' => "save network" \notin failed BY <2>3 DEF RefreshServices
    <3> QED BY <1>3, <2>1, <2>2, <3>1, <3>2 DEF TablesFollow, OnePerEnds
  <2>4. CASE RefreshNetwork
    <3>1. pc' \in NetworkPhases BY <2>4 DEF RefreshNetwork, Begin, NetworkPhases
    <3>2. /\ "save nodes" \notin failed' => "save nodes" \notin failed
          /\ "save edges" \notin failed' => "save edges" \notin failed
          BY <2>4 DEF RefreshNetwork
    <3>3. InTheWay' = InTheWay BY <1>3 DEF InTheWay
    <3> QED BY <1>3, <2>1, <2>2, <3>1, <3>2, <3>3 DEF TablesFollow, OnePerEnds
  <2> QED BY <2>3, <2>4
<1> QED BY <1>1, <1>2, <1>4, <1>5 DEF DiscoveryInvariant

(* and after every other step; *)
LEMMA DiscoveryGoesOn == DiscoveryInvariant /\ [DiscoveryNext]_discoveryVars => DiscoveryInvariant'
<1> SUFFICES ASSUME DiscoveryInvariant, [DiscoveryNext]_discoveryVars, ~RefreshServices, ~RefreshNetwork
             PROVE  DiscoveryInvariant'
    BY DiscoveryBeginsAgain
<1>1. Continues BY DEF Continues, DiscoveryInvariant
<1>2. DiscoveryTypeOK' BY <1>1, ContinuesIs
<1>3. AnswersHold' BY <1>1, AnswersStay DEF DiscoveryInvariant
<1>4. GraphBuilt' BY <1>1, GraphStaysBuilt DEF DiscoveryInvariant
<1>5. TablesFollow' BY <1>1, TablesFollowOn DEF DiscoveryInvariant
<1> QED BY <1>2, <1>3, <1>4, <1>5 DEF DiscoveryInvariant

(* so it always holds. *)
LEMMA DiscoveryHolds == DiscoverySpec => []DiscoveryInvariant
BY DiscoveryBegins, DiscoveryGoesOn, PTL DEF DiscoverySpec

(***************************************************************************)
(* Every variable has its type, whatever comes, goes and fails.            *)
(***************************************************************************)
THEOREM DiscoveryTypeCorrect == DiscoverySpec => []DiscoveryTypeOK
<1>1. DiscoveryInvariant => DiscoveryTypeOK BY DEF DiscoveryInvariant
<1> QED BY <1>1, DiscoveryHolds, PTL

(* A service that is there all the time is found. *)
LEMMA ServicesAreThere ==
    ASSUME DiscoveryInvariant, Rebuilt, "nodes" \notin failed, NEW o \in Stable, o.kind = "service"
    PROVE  Key(o) \in NodeIds(found.kube)
<1>1. o.ns \in Namespaces BY DiscoveryAssumption DEF DiscoveryInvariant, DiscoveryTypeOK, Stable
<1>2. ServicesFound(o.ns) BY <1>1 DEF DiscoveryInvariant, AnswersHold, NodesComplete, Rebuilt, AfterNodes
<1> QED BY <1>2 DEF ServicesFound, In, OfKind

(* What the merge makes of an answer. *)
LEMMA MergedNodes ==
    ASSUME DiscoveryInvariant, Rebuilt
    PROVE  /\ \A k \in NodeIds(found.kube) : \E n \in topology.nodes : n.key = k
           /\ \A x \in found.prom : \E n \in topology.nodes : n.key = x.key /\ (x.rate => n.rate)
           /\ \A n \in topology.nodes : \/ \E x \in found.kube : n.key = x.key /\ n.status = x.status
                                        \/ n.key \notin NodeIds(found.kube)
<1>1. /\ found.kube \in SUBSET FoundNode /\ found.prom \in SUBSET FoundNode
      /\ topology.nodes = MergeNodes(found.kube, found.prom)
      BY DiscoveryTypeIs DEF DiscoveryInvariant, GraphBuilt, Rebuilt, FoundType
<1> DEFINE first == found.kube
           second == found.prom
<1> HIDE DEF first, second
<1>2. first \in SUBSET FoundNode /\ second \in SUBSET FoundNode /\ topology.nodes = MergeNodes(first, second)
  BY <1>1 DEF first, second
<1>a. ASSUME NEW n \in first PROVE \E m \in MergeNodes(first, second) : m.key = n.key /\ m.status = n.status
  BY <1>2, MergeNodesHas
<1>b. \A n \in second : \E m \in MergeNodes(first, second) : m.key = n.key /\ (n.rate => m.rate)
  BY <1>2, MergeNodesHas
<1>c. \A m \in MergeNodes(first, second) : (\E n \in first : m.key = n.key /\ m.status = n.status) \/ m.key \notin NodeIds(first)
      BY <1>2, MergeNodesHas, Zenon
<1>4. \A k \in NodeIds(first) : \E n \in first : n.key = k BY DEF NodeIds
<1>5. /\ \A k \in NodeIds(first) : \E n \in topology.nodes : n.key = k
      /\ \A x \in second : \E n \in topology.nodes : n.key = x.key /\ (x.rate => n.rate)
      /\ \A n \in topology.nodes : \/ \E x \in first : n.key = x.key /\ n.status = x.status
                                   \/ n.key \notin NodeIds(first)
      BY <1>2, <1>a, <1>b, <1>c, <1>4
<1> QED BY <1>5 DEF first, second

(* The same for the edges. *)
LEMMA MergedEdges ==
    ASSUME DiscoveryInvariant, Rebuilt
    PROVE  /\ \A m \in topology.edges :
                 /\ m \in FoundEdge
                 /\ \E x \in found.edges : m.id = x.id /\ m.type = x.type /\ Ends(m) = Ends(x)
                 /\ \E x \in found.edges : m.direct = x.direct /\ m.confidence = x.confidence /\ Ends(m) = Ends(x)
           /\ \A ends, direct : Found(ends, direct) => \E m \in topology.edges : Ends(m) = ends /\ (direct => m.direct)
<1>1. found.edges \in SUBSET FoundEdge /\ topology.edges = MergeEdges(found.edges)
      BY DiscoveryTypeIs DEF DiscoveryInvariant, GraphBuilt, Rebuilt, FoundType
<1> DEFINE e == found.edges
<1> HIDE DEF e
<1>2. e \in SUBSET FoundEdge /\ topology.edges = MergeEdges(e) BY <1>1 DEF e
<1>3. /\ MergeEdges(e) \subseteq FoundEdge
      /\ \A m \in MergeEdges(e) :
            /\ \E x \in e : m.id = x.id /\ m.type = x.type /\ Ends(m) = Ends(x)
            /\ \E x \in e : m.direct = x.direct /\ m.confidence = x.confidence /\ Ends(m) = Ends(x)
      /\ \A x \in e : \E m \in MergeEdges(e) : Ends(m) = Ends(x) /\ (x.direct => m.direct)
      BY <1>2, MergeHas
<1>4. \A ends, direct : Found(ends, direct) => \E x \in e : Ends(x) = ends /\ (direct => x.direct)
  BY DEF Found, e
<1>5. \A ends, direct : Found(ends, direct) => \E m \in topology.edges : Ends(m) = ends /\ (direct => m.direct)
      BY <1>2, <1>3, <1>4
<1>6. \A m \in topology.edges :
          /\ m \in FoundEdge
          /\ \E x \in e : m.id = x.id /\ m.type = x.type /\ Ends(m) = Ends(x)
          /\ \E x \in e : m.direct = x.direct /\ m.confidence = x.confidence /\ Ends(m) = Ends(x)
      BY <1>2, <1>3
<1> QED BY <1>5, <1>6 DEF e

(* A call by name leads to what is called. *)
LEMMA NamedIsCalled ==
    ASSUME NEW c \in Objects, c.kind \in {"http", "grpc"}, ByName(c)
    PROVE  Callee(c) = c.to /\ c.to[2] # 0
<1>1. c.to = <<c.to[1], c.to[2]>> BY DiscoveryAssumption
<1>2. Callee(c) = <<c.ns, c.to[2]>>
  <2>1. CASE c.kind = "http" BY <2>1 DEF ByName, Callee, ServiceOfHost
  <2>2. CASE c.kind = "grpc" BY <2>2 DEF ByName, Callee, ServiceOfGRPC
  <2> QED BY <2>1, <2>2
<1> QED BY <1>1, <1>2 DEF ByName

(* From the answers that lose nothing to the graph that loses nothing. *)
LEMMA GraphLosesNothing == DiscoveryInvariant => NothingLost
<1> SUFFICES ASSUME DiscoveryInvariant, Rebuilt, NEW o \in Stable
             PROVE  /\ (o.kind = "service" /\ "nodes" \notin failed) \/ (o.kind = "up" /\ "up" \notin failed)
                          => \E n \in topology.nodes : n.key = Key(o) /\ (o.kind = "up" /\ "metrics" \notin failed => n.rate)
                    /\ \/ o.kind = "http" /\ failed \intersect {"up", "http"} = {} /\ ByName(o)
                       \/ o.kind = "grpc" /\ failed \intersect {"up", "http", "grpc"} = {} /\ ByName(o)
                          => \E e \in topology.edges : Ends(e) = <<Key(o), o.to>> /\ e.direct
                    /\ o.kind = "pod" /\ failed \intersect {"nodes", "edges"} = {} /\ In(o.ns, OfKind("service", touched)) = {}
                          => LET services == In(o.ns, OfKind("service", live))
                             IN  \A s \in ServiceOf(o, services), t \in services :
                                    t.name \in o.env \union o.maps /\ s # t => Joined(Key(s), Key(t))
    BY DEF NothingLost
<1>p. pc = "save nodes" BY DEF Rebuilt
<1>1. ASSUME o.kind = "service", "nodes" \notin failed PROVE \E n \in topology.nodes : n.key = Key(o)
      BY <1>1, ServicesAreThere, MergedNodes
<1>2. ASSUME o.kind = "up", "up" \notin failed
      PROVE  \E n \in topology.nodes : n.key = Key(o) /\ ("metrics" \notin failed => n.rate)
  <2>1. PICK x \in found.prom : x.key = Key(o) /\ ("metrics" \notin failed => x.rate)
    <3>1. SeriesFound BY <1>p, <1>2 DEF DiscoveryInvariant, AnswersHold, SeriesComplete, AfterEdges, AfterNodes
    <3>2. o \in OfKind("up", Stable) BY <1>2 DEF OfKind
    <3> QED BY <1>p, <3>1, <3>2 DEF SeriesFound
  <2>2. PICK n \in topology.nodes : n.key = x.key /\ (x.rate => n.rate) BY MergedNodes
  <2> QED BY <2>1, <2>2
<1>3. ASSUME \/ o.kind = "http" /\ failed \intersect {"up", "http"} = {} /\ ByName(o)
             \/ o.kind = "grpc" /\ failed \intersect {"up", "http", "grpc"} = {} /\ ByName(o)
      PROVE  \E e \in topology.edges : Ends(e) = <<Key(o), o.to>> /\ e.direct
  <2>1. CallsFound(o.kind) BY <1>p, <1>3 DEF DiscoveryInvariant, AnswersHold, CallsComplete
  <2>2. o \in OfKind(o.kind, Stable) BY DEF OfKind
  <2>3. o \in Objects BY DEF DiscoveryInvariant, DiscoveryTypeOK, Stable
  <2>4. Callee(o) = o.to /\ o.to[2] # 0 BY <1>3, <2>3, NamedIsCalled
  <2>5. Found(<<Key(o), o.to>>, TRUE) BY <2>1, <2>2, <2>4 DEF CallsFound
  <2> QED BY <2>5, MergedEdges
<1>4. ASSUME o.kind = "pod", failed \intersect {"nodes", "edges"} = {}, In(o.ns, OfKind("service", touched)) = {},
             NEW s \in ServiceOf(o, In(o.ns, OfKind("service", live))), NEW t \in In(o.ns, OfKind("service", live)),
             t.name \in o.env \union o.maps, s # t
      PROVE  Joined(Key(s), Key(t))
  <2>1. o.ns \in Namespaces BY <1>4, DiscoveryAssumption DEF DiscoveryInvariant, DiscoveryTypeOK, Stable
  <2>2. NamesFound(o.ns)
    BY <1>p, <1>4, <2>1 DEF DiscoveryInvariant, AnswersHold, NamesComplete, AfterEdges, AfterNodes
  <2>3. o \in In(o.ns, OfKind("pod", Stable)) BY <1>4 DEF In, OfKind
  <2>4. Found(<<Key(s), Key(t)>>, FALSE) BY <1>4, <2>2, <2>3 DEF NamesFound
  <2> QED BY <2>4, MergedEdges DEF Joined
<1> QED BY <1>1, <1>2, <1>3, <1>4

(***************************************************************************)
(* What was there through the whole refresh is in the graph.               *)
(***************************************************************************)
THEOREM NothingIsLost == DiscoverySpec => []NothingLost
BY GraphLosesNothing, DiscoveryHolds, PTL

(* The key of a service is no key of a database. *)
LEMMA LengthsDiffer == \A a, b, c : <<a, b>> # <<c>>
OBVIOUS

(* A direct edge of the graph goes back to a call, although it may have been found otherwise too. *)
MadeBy(e, c) == \/ /\ c.kind = "db" /\ e.type = "database"
                   /\ e.id[1] = Key(c) /\ e.id[2] = <<c.to>>
                \/ /\ c.kind \in {"http", "grpc"} /\ e.type \in {c.kind, "indirect"}
                   /\ e.id[1] = Key(c) /\ e.id[2] = Callee(c)
                   /\ ByName(c) => e.id[2] = c.to

(* The end of an edge of the environment is a node, or a service that came or went. *)
LEMMA GraphsEdgesAreCalls == DiscoveryInvariant => EdgesAreCalls
<1> SUFFICES ASSUME DiscoveryInvariant, Rebuilt, NEW e \in topology.edges
             PROVE  /\ e.direct = (e.confidence >= 90)
                    /\ e.direct => \E c \in live \union touched : MadeBy(e, c)
                    /\ e.type = "indirect" => \A i \in 1..2 : \/ e.id[i] \in NodeIds(topology.nodes)
                                                           \/ \E s \in OfKind("service", touched) : Key(s) = e.id[i]
    BY DEF EdgesAreCalls, MadeBy
<1>1. e \in FoundEdge BY MergedEdges
<1>2. PICK x \in found.edges : e.id = x.id /\ e.type = x.type BY MergedEdges
<1>3. PICK y \in found.edges : e.direct = y.direct /\ e.confidence = y.confidence /\ Ends(e) = Ends(y)
  BY MergedEdges
<1>4. \A z \in found.edges : EdgeGrounded(z) /\ (z.type = "indirect" => "nodes" \notin failed)
      BY DEF DiscoveryInvariant, AnswersHold, EdgesGrounded
<1>5. e.direct = (e.confidence >= 90)
  <2>1. y.direct <=> y.confidence >= 90 BY <1>4 DEF EdgeGrounded
  <2>2. e.direct \in BOOLEAN BY <1>1 DEF FoundEdge
  <2> QED BY <1>3, <2>1, <2>2
<1>t. live \union touched \subseteq Objects BY DEF DiscoveryInvariant, DiscoveryTypeOK
<1>6. ASSUME e.direct
      PROVE  \E c \in live \union touched : MadeBy(e, c)
  <2>1. CASE e.type # "indirect"
    <3>1. PICK c \in live \union touched : GoesBackTo(x, c) BY <1>2, <1>4, <2>1 DEF EdgeGrounded
    <3>2. c \in Objects BY <1>t
    <3>3. GoesBackTo(e, c) BY <1>2, <3>1 DEF GoesBackTo
    <3>4. MadeBy(e, c) BY <3>2, <3>3, NamedIsCalled DEF GoesBackTo, MadeBy
    <3> QED BY <3>4
  <2>2. CASE e.type = "indirect"
    <3>1. PICK c \in live \union touched : GoesBackTo(y, c) BY <1>3, <1>4, <1>6 DEF EdgeGrounded
    <3>2. c \in Objects BY <1>t
    <3>3. e.id[1] = y.id[1] /\ e.id[2] = y.id[2] BY <1>3 DEF Ends
    <3>4. PICK s \in OfKind("service", live \union touched) : Key(s) = e.id[2]
      <4>1. \A i \in 1..2 : \E s \in OfKind("service", live \union touched) : Key(s) = x.id[i]
            BY <1>2, <1>4, <2>2 DEF EdgeGrounded
      <4> QED BY <1>2, <4>1
    <3>5. e.id[2] # <<c.to>> BY <3>4, LengthsDiffer DEF Key
    <3>6. c.kind \in {"http", "grpc"} /\ e.id[1] = Key(c) /\ e.id[2] = Callee(c) BY <3>1, <3>3, <3>5 DEF GoesBackTo
    <3>7. MadeBy(e, c) BY <2>2, <3>2, <3>6, NamedIsCalled DEF MadeBy
    <3> QED BY <3>7
  <2> QED BY <2>1, <2>2
<1>7. ASSUME e.type = "indirect", NEW i \in 1..2
      PROVE  e.id[i] \in NodeIds(topology.nodes) \/ \E s \in OfKind("service", touched) : Key(s) = e.id[i]
  <2>1. "nodes" \notin failed BY <1>2, <1>4, <1>7
  <2>2. PICK s \in OfKind("service", live \union touched) : Key(s) = e.id[i]
    BY <1>2, <1>4, <1>7 DEF EdgeGrounded
  <2>3. CASE s \in touched BY <2>2, <2>3 DEF OfKind
  <2>4. CASE s \notin touched
    <3>1. s \in Stable /\ s.kind = "service" BY <2>4 DEF Stable, OfKind
    <3>2. Key(s) \in NodeIds(found.kube) BY <2>1, <3>1, ServicesAreThere
    <3>3. \E n \in topology.nodes : n.key = Key(s) BY <3>2, MergedNodes
    <3> QED BY <2>2, <3>3 DEF NodeIds
  <2> QED BY <2>3, <2>4
<1> QED BY <1>5, <1>6, <1>7

(* An id has three fields, and that of an edge to a database can be told by them. *)
LEMMA EdgeIdIs ==
    ASSUME NEW e \in FoundEdge
    PROVE  /\ e.id = <<e.id[1], e.id[2], e.id[3]>> /\ e.id[3] \in {"", "grpc", "db"}
           /\ e.id[3] = "db" <=> \E c : e.id[2] = <<c>>
<1>1. e.id \in EdgeIds BY DEF FoundEdge
<1> DEFINE id == e.id
<1>2. id \in EdgeIds BY <1>1
<1> HIDE DEF id
<1>3. CASE id \in CallKeys \X CallKeys \X {"", "grpc"}
  <2> DEFINE kinds == {"", "grpc"}
  <2>0. id \in CallKeys \X CallKeys \X kinds BY <1>3
  <2> HIDE DEF kinds
  <2>a. id = <<id[1], id[2], id[3]>> /\ id[3] \in kinds /\ id[2] \in CallKeys BY <2>0
  <2>1. id = <<id[1], id[2], id[3]>> /\ id[3] \in {"", "grpc"} /\ id[2] \in CallKeys BY <2>a DEF kinds
  <2>2. \E x, y : id[2] = <<x, y>> BY <2>1 DEF CallKeys, Key, Callee
  <2> QED BY <2>1, <2>2, LengthsDiffer DEF id
<1>4. CASE id \in CallKeys \X DatabaseKeys \X {"db"}
  <2>1. id = <<id[1], id[2], id[3]>> /\ id[3] = "db" /\ id[2] \in DatabaseKeys BY <1>4
  <2>2. \E c : id[2] = <<c>> BY <2>1 DEF DatabaseKeys
  <2> QED BY <2>1, <2>2 DEF id
<1> QED BY <1>2, <1>3, <1>4 DEF EdgeIds

(* The tables have the graph's nodes and edges where the calls that save them succeeded. *)
LEMMA TablesFollowGraph == DiscoveryInvariant => RowsFollowGraph
<1> SUFFICES ASSUME DiscoveryInvariant PROVE RowsFollowGraph OBVIOUS
<1> DEFINE Renamed == \E e \in topology.edges, r \in rows.edges :
                         Ends(e) = Ends(r) /\ e.id[3] # r.id[3] /\ "grpc" \in {e.id[3], r.id[3]}
<1>1. InTheWay => Renamed
  <2> SUFFICES ASSUME NEW e \in topology.edges, NEW r \in rows.edges, Ends(e) = Ends(r), e.id # r.id
               PROVE  e.id[3] # r.id[3] /\ "grpc" \in {e.id[3], r.id[3]}
      BY DEF InTheWay
  <2>1. e \in FoundEdge /\ r \in FoundEdge BY DiscoveryTypeIs DEF DiscoveryInvariant, GraphType
  <2>2. e.id[1] = r.id[1] /\ e.id[2] = r.id[2] BY DEF Ends
  <2>3. e.id[3] # r.id[3] BY <2>1, <2>2, EdgeIdIs
  <2>4. e.id[3] = "db" <=> r.id[3] = "db" BY <2>1, <2>2, EdgeIdIs
  <2>5. e.id[3] \in {"", "grpc", "db"} /\ r.id[3] \in {"", "grpc", "db"} BY <2>1, EdgeIdIs
  <2> QED BY <2>3, <2>4, <2>5
<1>2. ASSUME pc = "idle"
      PROVE  /\ "save nodes" \notin failed => topology.nodes \subseteq rows.nodes
             /\ "save edges" \notin failed => topology.edges \subseteq rows.edges \/ InTheWay
             /\ "save network" \notin failed =>
                   \/ topology.network \subseteq rows.network
                   \/ \E m \in OfKind("machine", Objects) : MachineId(m) \in topology.network /\ m.addresses > 1
  <2>1. pc \notin ServicePhases \union {"save nodes", "save edges"} /\ pc \notin NetworkPhases \union {"save network"}
        BY <1>2 DEF ServicePhases, NetworkPhases
  <2> QED BY <2>1 DEF DiscoveryInvariant, TablesFollow
<1>3. \A x, y \in rows.edges : Ends(x) = Ends(y) => x = y BY DEF DiscoveryInvariant, TablesFollow, OnePerEnds
<1> QED BY <1>1, <1>2, <1>3 DEF RowsFollowGraph

(***************************************************************************)
(* After a refresh the tables have what the graph has.                     *)
(***************************************************************************)
THEOREM TablesAreOfGraph == DiscoverySpec => []RowsFollowGraph
BY TablesFollowGraph, DiscoveryHolds, PTL

(* The pods that count, and how often each does. *)
Owners == [p \in OfKind("pod", Objects) |-> p.owners]
Accounts(S) == {p \in S : p.account}

(* The count of the pods is such a sum. *)
LEMMA CountIsTotal ==
    ASSUME NEW P \in SUBSET OfKind("pod", Objects)
    PROVE  PodCount(P) = Total(Owners, Accounts(P))
<1> DEFINE F == Owners
           S == Accounts(P)
           Sums(g) == g = [s \in SUBSET S |-> IF s = {} THEN 0
                             ELSE (CHOOSE x \in s : TRUE).owners + g[s \ {CHOOSE x \in s : TRUE}]]
           h == CHOOSE g : Sums(g)
<1>0. S \subseteq OfKind("pod", Objects) /\ IsFiniteSet(S)
  <2>1. S \subseteq OfKind("pod", Objects) /\ S \subseteq Objects
    BY DEF Accounts, OfKind
  <2> HIDE DEF S
  <2> QED BY <2>1, FS_Subset, DiscoveryAssumption
<1>s. S = {p \in P : p.account}
  BY DEF Accounts
<1> HIDE DEF S
<1>1. ASSUME NEW g PROVE SumOf(F, g, S) <=> Sums(g)
  <2>1. \A s \in SUBSET S : s # {} => F[One(s)] = One(s).owners
    BY <1>0, OneIsIn DEF Owners
  <2> HIDE DEF F
  <2>2. [s \in SUBSET S |-> IF s = {} THEN 0 ELSE F[One(s)] + g[s \ {One(s)}]]
        = [s \in SUBSET S |-> IF s = {} THEN 0 ELSE One(s).owners + g[s \ {One(s)}]]
    BY <2>1
  <2> QED
    BY <2>2, Zenon DEF SumOf, One
<1>2. Sums(h)
  <2>1. PICK g : SumOf(F, g, S)
    BY <1>0, SumExists
  <2>2. Sums(g)
    BY <1>1, <2>1
  <2> QED
    BY <2>2, Zenon
<1>3. PodCount(P) = h[S]
  BY <1>s, Zenon DEF PodCount, MapThenSumSet, MapThenFoldSet
<1>4. SumOf(F, h, S) /\ S \in SUBSET S
  BY <1>1, <1>2
<1> HIDE DEF h, F
<1>5. Total(F, S) = h[S]
  BY <1>0, <1>4, TotalIs
<1> QED
  BY <1>3, <1>5 DEF F, S

(* Of the pods of a service those that are ready count less, unless all that count are. *)
LEMMA ReadyCounts ==
    ASSUME NEW P \in SUBSET OfKind("pod", Objects)
    PROVE  LET ready == {p \in P : Ready(p)}
           IN  /\ PodCount(P) \in Nat /\ PodCount(ready) \in Nat
               /\ (\E p \in P : p.account /\ p.owners > 0) => PodCount(P) > 0
               /\ (\E p \in P : p.account /\ p.owners > 0 /\ ~Ready(p)) => PodCount(ready) < PodCount(P)
               /\ (\A p \in P : p.account /\ p.owners > 0 => Ready(p)) => PodCount(ready) = PodCount(P)
<1> DEFINE ready == {p \in P : Ready(p)}
           S == Accounts(P)
           T == Accounts(ready)
<1>1. ready \in SUBSET OfKind("pod", Objects) /\ ready \subseteq P
  OBVIOUS
<1>2. PodCount(P) = Total(Owners, S) /\ PodCount(ready) = Total(Owners, T)
  <2> HIDE DEF ready
  <2> QED BY <1>1, CountIsTotal
<1>3. S \subseteq P /\ T \subseteq S /\ \A p \in S \ T : ~Ready(p)
  BY DEF Accounts
<1>4. \A p \in P : p.account => p \in S /\ (~Ready(p) => p \notin T)
  BY DEF Accounts
<1>5. \A p \in S : p.account
  BY DEF Accounts
<1>6. IsFiniteSet(S)
  <2>1. S \subseteq Objects
    BY <1>3 DEF OfKind
  <2> HIDE DEF S
  <2> QED BY <2>1, FS_Subset, DiscoveryAssumption
<1>7. \A p \in P : Owners[p] = p.owners /\ Owners[p] \in Nat
  <2>1. \A p \in P : p \in OfKind("pod", Objects) /\ p.owners \in Nat
    BY DiscoveryAssumption DEF OfKind
  <2> QED BY <2>1 DEF Owners
<1> HIDE DEF ready, S, T
<1>8. \A p \in S : Owners[p] \in Nat /\ Owners[p] = p.owners
  BY <1>3, <1>7
<1>9. \A U \in SUBSET S : Total(Owners, U) \in Nat
  BY <1>6, <1>8, TotalType
<1>10. PodCount(P) \in Nat /\ PodCount(ready) \in Nat
  BY <1>2, <1>3, <1>9
<1>11. ASSUME NEW p \in P, p.account, p.owners > 0 PROVE PodCount(P) > 0
  <2>1. Total(Owners, {}) < Total(Owners, S)
    BY <1>4, <1>6, <1>8, <1>11, TotalGrows
  <2> QED BY <1>2, <2>1, TotalEmpty
<1>12. ASSUME NEW p \in P, p.account, p.owners > 0, ~Ready(p) PROVE PodCount(ready) < PodCount(P)
  <2>1. p \in S \ T
    BY <1>4, <1>12
  <2>2. Owners[p] > 0
    BY <1>7, <1>12
  <2> QED BY <1>2, <1>3, <1>6, <1>8, <2>1, <2>2, TotalGrows
<1>13. ASSUME \A p \in P : p.account /\ p.owners > 0 => Ready(p) PROVE PodCount(ready) = PodCount(P)
  <2>1. \A p \in S \ T : Owners[p] = 0
    <3> SUFFICES ASSUME NEW p \in S \ T PROVE Owners[p] = 0
      OBVIOUS
    <3>1. p \in P /\ p.account /\ ~Ready(p)
      BY <1>3, <1>5
    <3>2. ~(p.owners > 0)
      BY <1>13, <3>1
    <3> QED BY <1>7, <3>1, <3>2
  <2> QED BY <1>2, <1>3, <1>6, <1>8, <2>1, TotalGrows
<1> QED BY <1>10, <1>11, <1>12, <1>13 DEF ready

(* A service whose list of services was of its time has the status that the listed pods give it. *)
LEMMA StatusFollows ==
    ASSUME DiscoveryInvariant, Rebuilt, "nodes" \notin failed, NEW n \in topology.nodes, NEW s \in OfKind("service", Stable),
           n.key = Key(s), In(s.ns, OfKind("service", touched)) = {}
    PROVE  \E pods \in SUBSET In(s.ns, OfKind("pod", Objects)) :
              LET own == {p \in pods : s \in ServiceOf(p, In(s.ns, OfKind("service", live)))}
              IN  /\ ListedNow(pods, s.ns, "pod")
                  /\ n.status = Status(PodCount(own), PodCount({p \in own : Ready(p)}))
<1>1. s \in Objects /\ s.kind = "service" /\ s \in Stable
  BY DEF OfKind, DiscoveryInvariant, DiscoveryTypeOK, Stable
<1>2. Key(s) \in NodeIds(found.kube)
  BY <1>1, ServicesAreThere
<1>3. PICK x \in found.kube : n.key = x.key /\ n.status = x.status
  BY <1>2, MergedNodes
<1>4. MadeOfLists(x)
  BY DEF DiscoveryInvariant, AnswersHold, NodesMade
<1>5. PICK m \in Namespaces : \E services \in SUBSET In(m, OfKind("service", Objects)), pods \in SUBSET In(m, OfKind("pod", Objects)) :
             /\ ListedNow(services, m, "service") /\ ListedNow(pods, m, "pod")
             /\ \E t \in services : x = ServiceNode(t, services, pods)
  BY <1>4 DEF MadeOfLists
<1>6. PICK services \in SUBSET In(m, OfKind("service", Objects)), pods \in SUBSET In(m, OfKind("pod", Objects)) :
             /\ ListedNow(services, m, "service") /\ ListedNow(pods, m, "pod")
             /\ \E t \in services : x = ServiceNode(t, services, pods)
  BY <1>5
<1>7. PICK t \in services : x = ServiceNode(t, services, pods)
  BY <1>6
<1>8. t = s /\ m = s.ns
  <2>1. t \in Objects /\ t.kind = "service" /\ t.ns = m
    BY DEF In, OfKind
  <2>2. Key(t) = Key(s)
    BY <1>3, <1>7 DEF ServiceNode
  <2>3. t.ns = s.ns /\ t.name = s.name
    BY <2>2 DEF Key
  <2> QED BY <1>1, <2>1, <2>3, DiscoveryAssumption
<1>9. services = In(s.ns, OfKind("service", live))
  <2>1. \A u : u \in services => u \in In(s.ns, OfKind("service", live \union touched))
    BY <1>6, <1>8 DEF ListedNow
  <2>2. \A u \in In(s.ns, OfKind("service", live \union touched)) : u \in In(s.ns, OfKind("service", live))
    BY DEF In, OfKind
  <2>3. \A u \in In(s.ns, OfKind("service", live)) : u \in In(s.ns, OfKind("service", Stable))
    BY DEF In, OfKind, Stable
  <2>4. \A u \in In(s.ns, OfKind("service", Stable)) : u \in services
    BY <1>6, <1>8 DEF ListedNow
  <2> QED BY <2>1, <2>2, <2>3, <2>4
<1> DEFINE own == {p \in pods : s \in ServiceOf(p, services)}
<1>10. x.status = Status(PodCount(own), PodCount({p \in own : Ready(p)}))
  BY <1>7, <1>8 DEF ServiceNode
<1>11. pods \in SUBSET In(s.ns, OfKind("pod", Objects)) /\ ListedNow(pods, s.ns, "pod")
  BY <1>6, <1>8
<1> QED BY <1>3, <1>9, <1>10, <1>11

(* The status of a service is that of pods that were listed for it. *)
LEMMA GraphHasStatus == DiscoveryInvariant => StatusIsOfPods
<1> SUFFICES ASSUME DiscoveryInvariant, Rebuilt, "nodes" \notin failed,
                    NEW n \in topology.nodes, NEW s \in OfKind("service", Stable),
                    n.key = Key(s), In(s.ns, OfKind("service", touched)) = {}
             PROVE  LET services == In(s.ns, OfKind("service", live))
                        counted == {p \in In(s.ns, OfKind("pod", Stable)) :
                                       p.account /\ p.owners > 0 /\ s \in ServiceOf(p, services)}
                    IN  /\ (\E p \in counted : ~Ready(p)) => n.status \in {"warning", "unhealthy"}
                        /\ counted # {} /\ (\A p \in counted : Ready(p)) /\ In(s.ns, OfKind("pod", touched)) = {}
                              => n.status = "healthy"
  BY DEF StatusIsOfPods
<1> DEFINE services == In(s.ns, OfKind("service", live))
           counted == {p \in In(s.ns, OfKind("pod", Stable)) : p.account /\ p.owners > 0 /\ s \in ServiceOf(p, services)}
<1>1. PICK pods \in SUBSET In(s.ns, OfKind("pod", Objects)) :
         LET own == {p \in pods : s \in ServiceOf(p, services)}
         IN  /\ ListedNow(pods, s.ns, "pod")
             /\ n.status = Status(PodCount(own), PodCount({p \in own : Ready(p)}))
  BY StatusFollows
<1> DEFINE own == {p \in pods : s \in ServiceOf(p, services)}
           count == PodCount(own)
           ready == PodCount({p \in own : Ready(p)})
<1>2. own \in SUBSET OfKind("pod", Objects)
  BY DEF In
<1>3. ListedNow(pods, s.ns, "pod") /\ n.status = Status(count, ready)
  BY <1>1
<1>4. \A p \in counted : p \in own /\ p.account /\ p.owners > 0
  BY <1>3 DEF ListedNow
<1>5. In(s.ns, OfKind("pod", touched)) = {} => \A p \in own : p.account /\ p.owners > 0 => p \in counted
  <2>1. \A p \in own : p \in In(s.ns, OfKind("pod", live \union touched)) /\ s \in ServiceOf(p, services)
    BY <1>3 DEF ListedNow
  <2>2. In(s.ns, OfKind("pod", touched)) = {} =>
           \A p \in In(s.ns, OfKind("pod", live \union touched)) : p \in In(s.ns, OfKind("pod", Stable))
    BY DEF In, OfKind, Stable
  <2> QED BY <2>1, <2>2
<1> HIDE DEF services, counted, own
<1>6. /\ count \in Nat /\ ready \in Nat
      /\ (\E p \in own : p.account /\ p.owners > 0) => count > 0
      /\ (\E p \in own : p.account /\ p.owners > 0 /\ ~Ready(p)) => ready < count
      /\ (\A p \in own : p.account /\ p.owners > 0 => Ready(p)) => ready = count
  BY <1>2, ReadyCounts
<1> HIDE DEF count, ready
<1>7. ASSUME NEW p \in counted, ~Ready(p) PROVE n.status \in {"warning", "unhealthy"}
  <2>1. count > 0 /\ ready < count
    BY <1>4, <1>6, <1>7
  <2> QED BY <1>3, <1>6, <2>1 DEF Status
<1>8. ASSUME counted # {}, \A p \in counted : Ready(p), In(s.ns, OfKind("pod", touched)) = {} PROVE n.status = "healthy"
  <2>1. count > 0 /\ ready = count
    BY <1>4, <1>5, <1>6, <1>8
  <2> QED BY <1>3, <1>6, <2>1 DEF Status
<1> QED BY <1>7, <1>8 DEF services, counted

(***************************************************************************)
(* What a refresh builds is the cluster as it was in the course of it: the *)
(* status of a service is of its pods, and an edge that is direct goes     *)
(* back to a call.                                                         *)
(***************************************************************************)
THEOREM GraphOfCluster == DiscoverySpec => []GraphIsOfCluster
<1>1. DiscoveryInvariant => GraphIsOfCluster BY GraphHasStatus, GraphsEdgesAreCalls DEF GraphIsOfCluster
<1> QED BY <1>1, DiscoveryHolds, PTL
=============================================================================
