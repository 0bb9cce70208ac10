-------------------------- MODULE TopologyService --------------------------
(***************************************************************************)
(* internal/topology/application/topology_service.go: the in-memory graphs *)
(* of the service and of the network topology, the refreshes that rebuild  *)
(* them from the discovery backends, and the queries, answered from the    *)
(* process-local cache or from the graphs.                                 *)
(*                                                                         *)
(* The content of a topology is abstracted to the number of the refresh    *)
(* that built it and to whether it has nodes.  Threads are the asynq       *)
(* workers, Start, and the HTTP requests; an action is what a thread does  *)
(* between two points where another can run.  s.mu is a RWMutex held       *)
(* through the whole refresh, backend and database calls included; the     *)
(* local cache is read without it.                                         *)
(***************************************************************************)
EXTENDS Naturals, FiniteSets

CONSTANTS Threads,
          Backends,      \* number of discovery backends, asked one after the other
          MaxCalls,      \* bound: calls made in one behaviour
          None           \* no entry, no holder

Kinds == {"service", "network"}

\* The calls this module models, and the topology each is about.  A query of the network
\* with a namespace is one more "get": it filters what it has read.
Calls == [op : {"refresh", "get", "stats"}, kind : Kinds]
         \union [op : {"namespaced"}, kind : {"service"}]

\* The versions a query has read.
Reads == [nodes : Nat, edges : Nat]

ASSUME TopologyAssumption == /\ Backends \in Nat
                             /\ MaxCalls \in Nat
                             /\ None \notin Threads \union Nat \union Calls \union Reads

VARIABLES writer,     \* the thread that holds s.mu for writing
          readers,    \* the threads that hold it for reading
          graph,      \* s.serviceGraph, s.networkGraph
          sent,       \* the topologies last sent to s.repo and to Redis
          local,      \* s.localCache: "topology:service", "topology:network"
          stats,      \* s.localCache: "topology:stats"
          setFailed,  \* history: a Set of a topology in the local cache was refused
          pc,
          call,       \* the call each thread is in, and its topology
          asked,      \* backends the refresh has asked
          found,      \* the refresh has discovered nodes
          failed,     \* history: a backend failed in this refresh
          seen,       \* what the query has read
          sources,    \* the topologies it has looked up the sources of its edges in
          answer,     \* history: the newest topology each thread was given
          calls       \* history: calls made

vars == <<writer, readers, graph, sent, local, stats, setFailed, pc, call,
          asked, found, failed, seen, sources, answer, calls>>

mu == <<writer, readers>>
caches == <<graph, sent, local, stats, setFailed>>
locals == <<call, asked, found, failed, seen, sources>>
history == <<answer, calls>>

Nothing == [nodes |-> 0, edges |-> 0]

Init == /\ writer = None
        /\ readers = {}
        /\ graph = [k \in Kinds |-> [version |-> 0, empty |-> TRUE]]
        /\ sent = [k \in Kinds |-> 0]
        /\ local = [k \in Kinds |-> None]
        /\ stats = None
        /\ setFailed = FALSE
        /\ pc = [t \in Threads |-> "idle"]
        /\ call = [t \in Threads |-> None]
        /\ asked = [t \in Threads |-> 0]
        /\ found = [t \in Threads |-> FALSE]
        /\ failed = [t \in Threads |-> FALSE]
        /\ seen = [t \in Threads |-> Nothing]
        /\ sources = [t \in Threads |-> {}]
        /\ answer = [t \in Threads |-> [k \in Kinds |-> 0]]
        /\ calls = 0

Goto(t, label) == pc' = [pc EXCEPT ![t] = label]

At(t, label) == pc[t] = label

kindOf(t) == call[t].kind

\* t is in GetServiceTopology or GetNetworkTopology.
IsGet(t) == call[t].op \in {"get", "namespaced"}

\* The step of t from label "from" to label "to".
Step(t, from, to) == At(t, from) /\ Goto(t, to)

-----------------------------------------------------------------------------
\* A call begins.  A query with a namespace or a name does not look in the cache.
Begin(t, c) ==
    /\ calls < MaxCalls
    /\ calls' = calls + 1
    /\ call' = [call EXCEPT ![t] = c]
    /\ \/ c.op = "refresh" /\ Step(t, "idle", "lock")
       \/ c.op \in {"get", "stats"} /\ Step(t, "idle", "cache")
       \/ c.op \in {"get", "namespaced"} /\ Step(t, "idle", "empty")
    /\ UNCHANGED <<mu, caches, asked, found, failed, seen, sources, answer>>

\* It returns, and its local variables are gone.
Return(t) ==
    /\ Goto(t, "idle")
    /\ call' = [call EXCEPT ![t] = None]
    /\ seen' = [seen EXCEPT ![t] = Nothing]
    /\ sources' = [sources EXCEPT ![t] = {}]
    /\ UNCHANGED <<asked, found, failed, calls>>

-----------------------------------------------------------------------------
\* RefreshServiceTopology and RefreshNetworkTopology.
Lock(t) ==
    /\ Step(t, "lock", "discover")
    /\ writer = None
    /\ readers = {}
    /\ writer' = t
    /\ UNCHANGED <<readers, caches, locals, history>>

\* One backend: the nodes found before a failing call count, and failures are only
\* logged.
Discover(t) ==
    /\ Step(t, "discover", "discover")
    /\ asked[t] < Backends
    /\ asked' = [asked EXCEPT ![t] = @ + 1]
    /\ \E some, err \in BOOLEAN :
          /\ found' = [found EXCEPT ![t] = @ \/ some]
          /\ failed' = [failed EXCEPT ![t] = @ \/ err]
    /\ UNCHANGED <<mu, caches, call, seen, sources, history>>

\* Rebuild and RebuildNetwork replace the graph, by an empty one if nothing was found.
Rebuild(t) ==
    /\ Step(t, "discover", "store")
    /\ asked[t] = Backends
    /\ graph' = [graph EXCEPT ![kindOf(t)] = [version |-> @.version + 1, empty |-> ~found[t]]]
    /\ UNCHANGED <<mu, sent, local, stats, setFailed, locals, history>>

\* The writes to the tables and to Redis.  Their errors are logged or dropped, and
\* nothing here reads them back, so whether each succeeds is left out.
Store(t) ==
    /\ Step(t, "store", "setLocal")
    /\ sent' = [sent EXCEPT ![kindOf(t)] = graph[kindOf(t)].version]
    /\ UNCHANGED <<mu, graph, local, stats, setFailed, locals, history>>

\* Mutant of SetLocal: SetNX, which keeps an entry that is there.
SetLocalOnce(t) ==
    /\ Step(t, "setLocal", "delStats")
    /\ local' = [local EXCEPT ![kindOf(t)] = IF @ = None THEN graph[kindOf(t)].version ELSE @]
    /\ UNCHANGED <<mu, graph, sent, stats, setFailed, locals, history>>

\* freecache refuses an entry above 1/1024 of its size and keeps the old one; the
\* error is dropped.
SetLocal(t) ==
    /\ Step(t, "setLocal", "delStats")
    /\ \/ /\ local' = [local EXCEPT ![kindOf(t)] = graph[kindOf(t)].version]
          /\ UNCHANGED setFailed
       \/ /\ setFailed' = TRUE
          /\ UNCHANGED local
    /\ UNCHANGED <<mu, graph, sent, stats, locals, history>>

\* Mutant of DeleteStats: only the refresh of the services deletes the statistics.
DeleteStatsOfServices(t) ==
    /\ Step(t, "delStats", "unlock")
    /\ stats' = IF kindOf(t) = "service" THEN None ELSE stats
    /\ UNCHANGED <<mu, graph, sent, local, setFailed, locals, history>>

DeleteStats(t) ==
    /\ Step(t, "delStats", "unlock")
    /\ stats' = None
    /\ UNCHANGED <<mu, graph, sent, local, setFailed, locals, history>>

\* What a refresh returns: nil from every path, whatever failed.
RefreshResult(t) == None

\* The query that made the refresh goes on.
Unlock(t) ==
    /\ Step(t, "unlock", IF IsGet(t) THEN "rlock" ELSE "idle")
    /\ writer' = None
    /\ call' = IF IsGet(t) THEN call ELSE [call EXCEPT ![t] = None]
    /\ asked' = [asked EXCEPT ![t] = 0]
    /\ found' = [found EXCEPT ![t] = FALSE]
    /\ failed' = [failed EXCEPT ![t] = FALSE]
    /\ UNCHANGED <<readers, caches, seen, sources, history>>

Refresh(t) == \/ Lock(t) \/ Discover(t) \/ Rebuild(t) \/ Store(t)
              \/ SetLocal(t) \/ DeleteStats(t) \/ Unlock(t)

-----------------------------------------------------------------------------
\* GetServiceTopology, GetNetworkTopology and GetTopologyStats.
\* The answer of a query that returns topology v.
Answered(t, v) == answer' = [answer EXCEPT ![t][kindOf(t)] = v]

CacheHit(t) ==
    /\ At(t, "cache")
    /\ \/ /\ call[t].op = "get"
          /\ local[kindOf(t)] # None
          /\ Answered(t, local[kindOf(t)])
       \/ /\ call[t].op = "stats"
          /\ stats # None
          /\ UNCHANGED answer
    /\ Return(t)
    /\ UNCHANGED <<mu, caches>>

CacheMiss(t) ==
    /\ At(t, "cache")
    /\ \/ call[t].op = "get" /\ local[kindOf(t)] = None /\ Goto(t, "empty")
       \/ call[t].op = "stats" /\ stats = None /\ Goto(t, "rlock")
    /\ UNCHANGED <<mu, caches, locals, history>>

\* Mutant of CheckEmpty: s.mu is taken for reading, and kept when a refresh is needed.
CheckEmptyLocked(t) ==
    /\ Step(t, "empty", IF graph[kindOf(t)].empty THEN "lock" ELSE "rlock")
    /\ writer = None
    /\ readers' = IF graph[kindOf(t)].empty THEN readers \union {t} ELSE readers
    /\ UNCHANGED <<writer, caches, locals, history>>

\* IsEmpty, without s.mu: every query that sees the graph empty refreshes it.
CheckEmpty(t) ==
    /\ Step(t, "empty", IF graph[kindOf(t)].empty THEN "lock" ELSE "rlock")
    /\ UNCHANGED <<mu, caches, locals, history>>

RLock(t) ==
    /\ Step(t, "rlock", "nodes")
    /\ writer = None
    /\ readers' = readers \union {t}
    /\ UNCHANGED <<writer, caches, locals, history>>

\* The graphs a query reads first and second: statistics count both.
FirstRead(t) == IF call[t].op = "stats" THEN "service" ELSE kindOf(t)
SecondRead(t) == IF call[t].op = "stats" THEN "network" ELSE kindOf(t)

\* Mutant of ReadNodes: s.mu is released between the two reads.
ReadNodesAndRelease(t) ==
    /\ Step(t, "nodes", "edges")
    /\ readers' = readers \ {t}
    /\ seen' = [seen EXCEPT ![t].nodes = graph[FirstRead(t)].version]
    /\ UNCHANGED <<writer, caches, call, asked, found, failed, sources, history>>

\* GetAllNodes, or the counts of the service graph.
ReadNodes(t) ==
    /\ Step(t, "nodes", "edges")
    /\ seen' = [seen EXCEPT ![t].nodes = graph[FirstRead(t)].version]
    /\ UNCHANGED <<mu, caches, call, asked, found, failed, sources, history>>

\* GetAllEdges, or the counts of the network graph.
ReadEdges(t) ==
    /\ Step(t, "edges", IF call[t].op = "stats" THEN "setStats" ELSE "runlock")
    /\ seen' = [seen EXCEPT ![t].edges = graph[SecondRead(t)].version]
    /\ UNCHANGED <<mu, caches, call, asked, found, failed, sources, history>>

\* The counts are cached before the lock is released.
SetStats(t) ==
    /\ Step(t, "setStats", "runlock")
    /\ stats' = seen[t]
    /\ UNCHANGED <<mu, graph, sent, local, setFailed, locals, history>>

RUnlock(t) ==
    /\ At(t, "runlock")
    /\ readers' = readers \ {t}
    /\ \/ call[t].op = "get" /\ Answered(t, seen[t].nodes) /\ Return(t)
       \/ call[t].op = "stats" /\ UNCHANGED answer /\ Return(t)
       \/ call[t].op = "namespaced" /\ Goto(t, "filter") /\ UNCHANGED <<locals, history>>
    /\ UNCHANGED <<writer, caches>>

\* filterEdgesByNamespace looks up the source of an edge, in the graph there is now and
\* without s.mu: a source that is gone takes the edge out of the answer.
LookUpSource(t) ==
    /\ Step(t, "filter", "filter")
    /\ sources' = [sources EXCEPT ![t] = @ \union {graph[kindOf(t)].version}]
    /\ UNCHANGED <<mu, caches, call, asked, found, failed, seen, history>>

\* All edges are looked up.
AnswerFiltered(t) ==
    /\ At(t, "filter")
    /\ Answered(t, seen[t].nodes)
    /\ Return(t)
    /\ UNCHANGED <<mu, caches>>

Query(t) == \/ CacheHit(t) \/ CacheMiss(t) \/ CheckEmpty(t) \/ RLock(t)
            \/ ReadNodes(t) \/ ReadEdges(t) \/ SetStats(t) \/ RUnlock(t)
            \/ LookUpSource(t) \/ AnswerFiltered(t)

-----------------------------------------------------------------------------
\* An entry of the local cache expires or is evicted.
Expire ==
    /\ \/ \E k \in Kinds : local' = [local EXCEPT ![k] = None] /\ UNCHANGED stats
       \/ stats' = None /\ UNCHANGED local
    /\ UNCHANGED <<mu, graph, sent, setFailed, pc, locals, history>>

Next == \/ \E t \in Threads : Refresh(t) \/ Query(t) \/ \E c \in Calls : Begin(t, c)
        \/ Expire

Spec == Init /\ [][Next]_vars

\* Backends, database and Redis answer or time out, so every thread that can take its
\* step takes it.  That a sync.RWMutex starves nobody needs no assumption of its own
\* here: calls are bounded, so the lock is in the end free for whoever waits.
Fairness == \A t \in Threads : WF_vars(Refresh(t) \/ Query(t))

FairSpec == Spec /\ Fairness

-----------------------------------------------------------------------------
Labels == {"idle", "cache", "empty", "lock", "discover", "store", "setLocal", "delStats",
           "unlock", "rlock", "nodes", "edges", "setStats", "runlock", "filter"}

\* Type invariant.
TypeOK ==
    /\ writer \in Threads \union {None}
    /\ readers \subseteq Threads
    /\ graph \in [Kinds -> [version : Nat, empty : BOOLEAN]]
    /\ sent \in [Kinds -> Nat]
    /\ local \in [Kinds -> Nat \union {None}]
    /\ stats \in Reads \union {None}
    /\ setFailed \in BOOLEAN
    /\ pc \in [Threads -> Labels]
    /\ call \in [Threads -> Calls \union {None}]
    /\ asked \in [Threads -> Nat]
    /\ found \in [Threads -> BOOLEAN]
    /\ failed \in [Threads -> BOOLEAN]
    /\ seen \in [Threads -> Reads]
    /\ sources \in [Threads -> SUBSET Nat]
    /\ answer \in [Threads -> [Kinds -> Nat]]
    /\ calls \in Nat
    /\ \A t \in Threads : call[t] = None <=> pc[t] = "idle"

Current == [nodes |-> graph["service"].version, edges |-> graph["network"].version]

\* Statistics computed before a refresh are never found in the cache after it,
\* although the query that caches them looked in the cache before it had the lock:
\* outside a refresh the entry agrees with both graphs
\* (topology_service.go:637, 721, 782-811).
StatsAreCurrent == writer = None => stats \in {None, Current}

\* Outside a refresh the topology last sent to the database and to Redis is the graph,
\* and so is the cached one unless the cache refused an entry
\* (topology_service.go:605-638, 692-722).
CopiesAreCurrent ==
    writer = None => \A k \in Kinds : /\ sent[k] = graph[k].version
                                      /\ setFailed \/ local[k] \in {None, graph[k].version}

\* The nodes and the edges of an answer are of one refresh, although two calls read them.
\* A query with a namespace then looks the sources of the edges up after it has released
\* s.mu: in its own topology or a later one, so that only a refresh that replaced the
\* graph in between can take edges out of its answer whose nodes are in it
\* (topology_service.go:226-234, 293-296, 873-882).
TornOnlyByRefresh ==
    \A t \in Threads :
        /\ At(t, "runlock") /\ IsGet(t) => seen[t].nodes = seen[t].edges
        /\ At(t, "filter") => /\ seen[t].nodes = seen[t].edges
                              /\ sources[t] \subseteq seen[t].nodes .. graph[kindOf(t)].version

\* The topologies a caller is given never go back in time, whether they come from the
\* cache or from the graph, unless the cache refused an entry
\* (topology_service.go:206-257, 273-318).
MonotonicAnswers ==
    [][\A t \in Threads, k \in Kinds : ~setFailed => answer'[t][k] >= answer[t][k]]_vars

\* Every call returns: queries and refreshes that wait for s.mu never wait for each other
\* in a circle, a query that refreshes included (topology_service.go:220-229, 287-296).
CallsReturn == \A t \in Threads : pc[t] # "idle" ~> pc[t] = "idle"

-----------------------------------------------------------------------------
\* What makes these invariants inductive.
Writing == {"discover", "store", "setLocal", "delStats", "unlock"}
Reading == {"nodes", "edges", "setStats", "runlock"}

\* The lock excludes a writer from everyone else, and is held where the code holds it.
LockHeld ==
    /\ \A t \in Threads : /\ writer = t <=> pc[t] \in Writing
                          /\ t \in readers <=> pc[t] \in Reading
    /\ writer # None => readers = {}

\* What a query has read under the lock is still so.
ReadsHold ==
    \A t \in Threads :
        /\ At(t, "setStats") => call[t].op = "stats"
        /\ pc[t] \in {"edges", "setStats", "runlock"} => seen[t].nodes = graph[FirstRead(t)].version
        /\ pc[t] \in {"setStats", "runlock"} => seen[t].edges = graph[SecondRead(t)].version

\* A query that has released s.mu has read an earlier topology or the graph there is, and
\* looks up in those since.
FilterHolds ==
    \A t \in Threads :
        IF At(t, "filter")
        THEN /\ call[t].op = "namespaced"
             /\ seen[t].nodes = seen[t].edges
             /\ seen[t].nodes =< graph[kindOf(t)].version
             /\ sources[t] \subseteq seen[t].nodes .. graph[kindOf(t)].version
        ELSE sources[t] = {}

\* Statistics are out of date only between Rebuild and the deletion of the entry.
StatsHold ==
    (\A t \in Threads : pc[t] \notin {"store", "setLocal", "delStats"}) => stats \in {None, Current}

\* A copy is behind its graph only between Rebuild and the step that replaces it.
CopiesHold ==
    \A k \in Kinds :
        /\ sent[k] = graph[k].version
           \/ \E t \in Threads : At(t, "store") /\ kindOf(t) = k
        /\ setFailed
           \/ local[k] \in {None, graph[k].version}
           \/ \E t \in Threads : pc[t] \in {"store", "setLocal"} /\ kindOf(t) = k

\* No answer is newer than the graph or than the cached topology,
AnswersBehind ==
    setFailed \/ \A k \in Kinds, t \in Threads :
                    /\ answer[t][k] =< graph[k].version
                    /\ local[k] # None => answer[t][k] =< local[k]
                    /\ local[k] # None => local[k] =< graph[k].version

\* nor newer than what a query that has released s.mu is about to answer its caller.
FilteredBehind ==
    setFailed \/ \A t \in Threads : At(t, "filter") =>
                    /\ answer[t][kindOf(t)] =< seen[t].nodes
                    /\ local[kindOf(t)] # None => seen[t].nodes =< local[kindOf(t)]
=============================================================================
