---------------------------- MODULE ImpactCache -----------------------------
(***************************************************************************)
(* The cache of impact analyses: ImpactCacheService, the impact operations *)
(* of TopologyService (internal/topology/application) and the impact keys  *)
(* of RedisCache (internal/topology/infrastructure/cache).                 *)
(*                                                                         *)
(* A computation reads the graph node by node, each time with the graph's  *)
(* own lock, and writes its result to Redis later.  A result is known here *)
(* by the version of the graph its first read saw: no part of it is older. *)
(* Jobs are what computes or reads: the goroutines of a precomputation,    *)
(* and calls that look, compute and store.  Nothing holds a lock meanwhile.*)
(***************************************************************************)
EXTENDS Naturals, FiniteSets, FiniteSetsExt

CONSTANTS Services,
          Runs,             \* runs of PrecomputeAll: of Start, the queue, RefreshStale
          Calls,
          About,            \* the service of each call
          Graphs,           \* the sets of nodes a refresh may find
          None,
          BatchSizes,       \* the batch sizes that may be configured
          MaxRefreshes,     \* bound: how often the graph is rebuilt
          MaxInvalidations  \* bound: how many invalidations begin

\* With a batch size of 0 the loop over the batches does not advance.
ASSUME ImpactAssumption == /\ BatchSizes \subseteq Nat \ {0}
                           /\ {MaxRefreshes, MaxInvalidations} \subseteq Nat
                           /\ None \notin Services
                           /\ Graphs \subseteq SUBSET Services
                           /\ About \in [Calls -> Services]
                           /\ Calls \intersect (Runs \X Services) = {}

VARIABLES graph,       \* the service graph: its version and nodes
          impact,      \* Redis: the keys "impact:"
          run,         \* the runs
          job,         \* the jobs: goroutines <<r, s>>, and calls
          precomputed, \* precomputedCount
          clearing,    \* the keys that InvalidateAll has listed, and when
          invalidated, \* history: the graph when a service was last invalidated
          begun        \* history: invalidations

impactVars == <<graph, impact, run, job, precomputed, clearing, invalidated, begun>>

cached == <<impact, clearing, invalidated, begun>>

Goroutines == Runs \X Services
Jobs == Goroutines \union Calls

Idle == [pc |-> "idle", op |-> None, service |-> None, from |-> 0, overtaken |-> FALSE, asked |-> 0]

ImpactInit == /\ graph = [version |-> 0, nodes |-> {}]
              /\ impact = [s \in Services |-> None]
              /\ \E n \in BatchSizes :
                    run = [r \in Runs |-> [pc |-> "idle", todo |-> {}, size |-> n, inBatch |-> 0,
                                           processed |-> 0, cancelled |-> FALSE]]
              /\ job = [k \in Jobs |-> Idle]
              /\ precomputed = 0
              /\ clearing = None
              /\ invalidated = [s \in Services |-> 0]
              /\ begun = 0

\* A refresh replaces the nodes and edges.  It leaves the impact keys alone.
Refresh == /\ graph.version < MaxRefreshes
           /\ \E nodes \in Graphs :
                 graph' = [version |-> graph.version + 1, nodes |-> nodes]
           /\ UNCHANGED <<cached, run, job, precomputed>>

Expire(s) == /\ impact[s] # None
             /\ impact' = [impact EXCEPT ![s] = None]
             /\ UNCHANGED <<graph, run, job, precomputed, clearing, invalidated, begun>>

-----------------------------------------------------------------------------
\* Jobs.

Is(k, label) == job[k].pc = label

\* The wait group of a batch: the goroutines of r that have not called Done.
Working(r) == {s \in Services : job[<<r, s>>].pc \notin {"idle", "ended"}}

\* Mutant of End: a goroutine that fails does not call Done.
EndIfStored(k) == IF k \in Goroutines /\ Is(k, "read") THEN UNCHANGED job
                  ELSE job' = [job EXCEPT ![k] = [Idle EXCEPT !.pc = "ended"]]

\* The job returns; the deferred Done of a goroutine is called whatever happened.
End(k) == job' = [job EXCEPT ![k] = [Idle EXCEPT !.pc = "ended"]]

\* The end of a call that returns result r.
Answer(k, r) == job' = [job EXCEPT ![k].pc = "answered", ![k].from = r.from, ![k].overtaken = r.overtaken]

\* A call begins, or one of the calls of a batch: a look into the cache, or
\* PrecomputeService, which only computes.  A batch does not see its context end.
Call(c, op) ==
    /\ Is(c, "idle")
    /\ job' = [job EXCEPT ![c] = [Idle EXCEPT !.pc = IF op = "precompute" THEN "read" ELSE "look",
                                                !.op = op, !.service = About[c],
                                                !.asked = invalidated[About[c]]]]
    /\ UNCHANGED <<graph, cached, run, precomputed>>

\* What GetImpactCache may return: nothing if there is nothing, or if Redis fails.
GetImpactCache(s) == {None, impact[s]}

Compute(c) == job' = [job EXCEPT ![c].pc = "read"]

\* It ends with what is in the cache, or with an error.
GetImpact(c, found) == IF found = None THEN End(c) ELSE Answer(c, found)

\* It ends with what is in the cache, whatever the depth asked for, or computes.
AnalyzeImpact(c, found) == IF found = None THEN Compute(c) ELSE Answer(c, found)

\* What is in the cache is compared with what is computed now, which is not stored.
DetectImpactChanges(c, found) == IF found = None THEN End(c) ELSE Compute(c)

Look(c) ==
    /\ Is(c, "look")
    /\ \E found \in GetImpactCache(job[c].service) :
          \/ job[c].op = "get" /\ GetImpact(c, found)
          \/ job[c].op = "analyze" /\ AnalyzeImpact(c, found)
          \/ job[c].op = "detect" /\ DetectImpactChanges(c, found)
    /\ UNCHANGED <<graph, cached, run, precomputed>>

\* GraphAnalyzer.AnalyzeImpact begins: it fails for a service that is no node.
Read(k) ==
    /\ Is(k, "read")
    /\ IF job[k].service \in graph.nodes
       THEN IF job[k].op = "detect" THEN End(k)
            ELSE job' = [job EXCEPT ![k].pc = "store", ![k].from = graph.version]
       ELSE End(k)
    /\ UNCHANGED <<graph, cached, run, precomputed>>

\* The result goes to Redis, which may fail, or write it and lose the answer.
\* A goroutine counts what it was told is written.  AnalyzeImpact ignores the error.
Store(k) ==
    /\ Is(k, "store")
    /\ \E written, told \in BOOLEAN :
          /\ told => written
          /\ LET result == [from |-> job[k].from, overtaken |-> job[k].overtaken]
             IN /\ impact' = IF written THEN [impact EXCEPT ![job[k].service] = result] ELSE impact
                /\ IF job[k].op = "analyze" THEN Answer(k, result) ELSE End(k)
          /\ IF k \in Goroutines /\ told
             THEN run' = [run EXCEPT ![k[1]].processed = @ + 1]
             ELSE UNCHANGED run
    /\ UNCHANGED <<graph, precomputed, clearing, invalidated, begun>>

Proceed(k) == Look(k) \/ Read(k) \/ Store(k)

-----------------------------------------------------------------------------
\* PrecomputeAll and PrecomputeBatch.

\* The services are the nodes of the moment.  An empty graph ends the run at once.
Precompute(r) ==
    /\ run[r].pc = "idle"
    /\ run' = [run EXCEPT ![r].pc = IF graph.nodes = {} THEN "done" ELSE "batch", ![r].todo = graph.nodes]
    /\ UNCHANGED <<graph, cached, job, precomputed>>

\* The caller's context ends: the analyser does not ask, the batch does.
Cancel(r) ==
    /\ run[r].pc \in {"batch", "count"}
    /\ ~run[r].cancelled
    /\ run' = [run EXCEPT ![r].cancelled = TRUE]
    /\ UNCHANGED <<graph, cached, job, precomputed>>

BatchIsFull(r) == run[r].todo = {} \/ run[r].inBatch = run[r].size

\* One goroutine; the semaphore has room for a whole batch.  A context that has ended
\* returns at once: the goroutines of the batch go on.
Spawn(r) ==
    /\ run[r].pc = "batch"
    /\ ~BatchIsFull(r)
    /\ IF run[r].cancelled
       THEN run' = [run EXCEPT ![r].pc = "failed"] /\ UNCHANGED job
       ELSE \E s \in run[r].todo :
               /\ run' = [run EXCEPT ![r].todo = @ \ {s}, ![r].inBatch = @ + 1]
               /\ job' = [job EXCEPT ![<<r, s>>] = [Idle EXCEPT !.pc = "read", !.service = s]]
    /\ UNCHANGED <<graph, cached, precomputed>>

\* Mutant of Wait: the batch is not waited for.
GoOn(r) ==
    /\ run[r].pc = "batch"
    /\ BatchIsFull(r)
    /\ run' = [run EXCEPT ![r].pc = IF run[r].cancelled THEN "failed"
                                    ELSE IF run[r].todo = {} THEN "count" ELSE "batch",
                          ![r].inBatch = 0]
    /\ UNCHANGED <<graph, cached, job, precomputed>>

\* The batch has ended: the next one, the count, or a context that has ended.
Wait(r) ==
    /\ run[r].pc = "batch"
    /\ BatchIsFull(r)
    /\ Working(r) = {}
    /\ run' = [run EXCEPT ![r].pc = IF run[r].cancelled THEN "failed"
                                    ELSE IF run[r].todo = {} THEN "count" ELSE "batch",
                          ![r].inBatch = 0]
    /\ UNCHANGED <<graph, cached, job, precomputed>>

Count(r) ==
    /\ run[r].pc = "count"
    /\ run' = [run EXCEPT ![r].pc = "done"]
    /\ precomputed' = precomputed + run[r].processed
    /\ UNCHANGED <<graph, cached, job>>

Advance(r) == Spawn(r) \/ Wait(r) \/ Count(r)

-----------------------------------------------------------------------------
\* Invalidation.

\* The impact of services S is invalidated now, or was at version v.
\* Computations under way are overtaken.
Overtake(S) == job' = [k \in Jobs |-> IF Is(k, "store") /\ job[k].service \in S
                                      THEN [job[k] EXCEPT !.overtaken = TRUE] ELSE job[k]]

\* Mutant of Forget: a deletion that asks for another key.
ForgetNodes(S) == UNCHANGED impact

\* DEL of their keys.
Forget(S) == impact' = [s \in Services |-> IF s \in S THEN None ELSE impact[s]]

\* InvalidateService, and InvalidateBatch for each of its services: Redis deletes the
\* key, or fails, or deletes it and loses the answer.
InvalidateService(s) ==
    /\ begun < MaxInvalidations
    /\ begun' = begun + 1
    /\ \/ Forget({s}) /\ Overtake({s}) /\ invalidated' = [invalidated EXCEPT ![s] = graph.version]
       \/ Forget({s}) /\ UNCHANGED <<job, invalidated>>
       \/ UNCHANGED <<impact, job, invalidated>>
    /\ UNCHANGED <<graph, run, precomputed, clearing>>

\* RedisCache.InvalidateAll lists the keys with KEYS, and deletes those it has listed.
ListKeys ==
    /\ clearing = None
    /\ begun < MaxInvalidations
    /\ begun' = begun + 1
    /\ clearing' = [keys |-> {s \in Services : impact[s] # None}, at |-> graph.version]
    /\ Overtake(Services)
    /\ UNCHANGED <<graph, impact, run, precomputed, invalidated>>

DeleteKeys ==
    /\ clearing # None
    /\ clearing' = None
    /\ \/ /\ Forget(clearing.keys)
          /\ invalidated' = [s \in Services |-> Max({invalidated[s], clearing.at})]
       \/ Forget(clearing.keys) /\ UNCHANGED invalidated
       \/ UNCHANGED <<impact, invalidated>>
    /\ UNCHANGED <<graph, run, job, precomputed, begun>>

-----------------------------------------------------------------------------
Ops == {"get", "analyze", "detect", "precompute"}

ImpactNext == \/ Refresh \/ ListKeys \/ DeleteKeys
              \/ \E s \in Services : Expire(s) \/ InvalidateService(s)
              \/ \E c \in Calls, op \in Ops : Call(c, op)
              \/ \E k \in Jobs : Proceed(k)
              \/ \E r \in Runs : Precompute(r) \/ Cancel(r) \/ Advance(r)

\* Redis answers or times out, and the analyser's searches end: a goroutine that can
\* take its step takes it, and so does the goroutine of a run.
ImpactFairness == /\ \A k \in Jobs : WF_impactVars(Proceed(k))
                  /\ \A r \in Runs : WF_impactVars(Advance(r))

ImpactSpec == ImpactInit /\ [][ImpactNext]_impactVars /\ ImpactFairness

-----------------------------------------------------------------------------
\* What a call is answered about a service is computed from a graph no older than the
\* one there was when the service was last invalidated, be it by its own or by all, if
\* that had ended before the call began; or by a computation that this invalidation
\* overtook.  So a result that was in the cache before is never seen again
\* (impact_cache.go:372-404, redis.go:269-301, topology_service.go:350-366).
StaleOnlyIfOvertaken ==
    \A c \in Calls : Is(c, "answered") /\ job[c].from < job[c].asked => job[c].overtaken

\* A run that returns nil has dealt with every service it listed, and the count of
\* precomputed results is what such runs have stored: none of a cancelled run, whose
\* goroutines may store results after it has returned (impact_cache.go:207-268).
BatchAccounts ==
    /\ \A r \in Runs : run[r].pc \in {"count", "done"} => run[r].todo = {} /\ Working(r) = {}
    /\ precomputed = MapThenSumSet(LAMBDA r : run[r].processed, {r \in Runs : run[r].pc = "done"})

\* A precomputation returns, whatever fails in it and whatever happens to the graph and
\* to the cache meanwhile (impact_cache.go:225-262).
PrecomputeReturns == \A r \in Runs : run[r].pc \in {"batch", "count"} ~> run[r].pc \in {"done", "failed"}
=============================================================================
