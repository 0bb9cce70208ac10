# Cloud Agent Monitor in TLA+

Specifications of Cloud Agent Monitor (a Go monolith, `cmd/platform-api`): the buffer of alert records, the
in-memory topology, its discovery, caches and queries, the API of alerts with its recorded operations, the tasks that
refresh the topology for ever, the catalogue of services, accounts, service levels, and the agent's tools. Each is
written from the code and model-checked with TLC on a small instance; most safety properties of ten of them are also proved with TLAPS, for
every value of their constants.

Contents: [the system](#the-system) · [what is modelled](#what-is-modelled) · [runs](#runs) ·
[divergences](#divergences) · [proofs](#proofs) · [not modelled](#not-modelled) · [plan](#plan)

## The system

One process (`cmd/platform-api/app.go`) starts an asynq server, the services and an HTTP server; on a signal it
stops them. State is in PostgreSQL (gorm), in Redis (caches, asynq tasks), in a process-local freecache and in
structs behind mutexes. There are four sources of concurrency: HTTP requests, asynq workers, background goroutines
(tickers), and other instances or earlier runs of the process that share the database and Redis.

| component | state | operations | hard behaviour | what makes it correct | module |
|---|---|---|---|---|---|
| alert record buffer (`alerting/infrastructure/alert_buffer.go`) | slice behind a mutex, `running`, `stopCh`, `flushCh` | Start, Add, Flush, Stop, flush loop | flushes overlap; the wake-up is sent after the unlock; Stop races the loop; a write fails, or its answer is lost | each record is stored, queued or abandoned by name, and never in two hands | `AlertRecordBuffer` |
| topology service (`topology/application/topology_service.go`) | two graphs behind `s.mu`; copies in the database, Redis, freecache | Refresh*, Get*Topology, GetTopologyStats, impact and path queries | caches read without the lock, written under it; a query may refresh | caches never contradict the graph after a refresh; answers do not go back in time; every call returns | `TopologyService`, `ImpactCache` |
| discovery backends, topology repository (`topology/infrastructure/`) | what each backend answered; tables of nodes and edges | discover nodes, edges, network; merge; batch saves | the cluster changes between the calls; one call of many fails | what was there is found; edges are of calls; tables follow the graph | `Discovery` |
| graph analyzer (`graph_analyzer.go`, 1328 lines) | none (reads the graph) | impact, paths of four kinds, cycles, clusters, centrality, critical path | depth limits, visited sets shared by branches, order of map iteration; the graph is rebuilt between two reads | results equal their graph-theoretic definitions; a result of two graphs has a ground in both | `GraphAnalyzer`, `ImpactSearch` |
| impact cache (`impact_cache.go`, `cache/redis.go`) | entries in Redis, counters | precompute in batches, get, compare, invalidate | a computation in flight outlives an invalidation; cancellation leaves goroutines | no result of before an invalidation is answered later | `ImpactCache` |
| periodic tasks (`pkg/infra/queue.go`, `app.go`) | tasks in Redis | handler works, then enqueues its successor | at-least-once delivery, restart, shutdown, server started before the handlers are registered | the chain does not end silently, and its copies are accounted for | `PeriodicTask` |
| alert API, noise records (`alerting/interfaces/http`, `application`, `alertmanager.go`) | `alert_noise_records`, `alert_notifications`; Alertmanager | send, silence, unsilence, get, feedback, webhook | calls are repeated when an answer is lost; records are read, counted and saved | the answer tells what became of the request; fires are counted | `AlertGateway` |
| alert operations (`alerting/application/service.go`, `infrastructure/resilience.go`) | rows of `alert_operations` | operations with record; retry scheduler | check then create; two more writes record the outcome; rows read, then acted on | no duplicates of sequential requests; a row tells the outcome; only failed calls are retried, and are in the end | `AlertOperation` |
| service catalogue, health checks (`platform/`, `storage/service_repository.go`) | tables of services, labels, dependencies; rows held by the checks | create, update, delete, batches, labels, dependencies; periodic and single checks | whole rows saved from old reads; labels in two places; soft deletion | an edit is undone only by who read before; tables fit together | `Catalogue` |
| SLO service (`slo/`, `storage/slo_repository.go`) | objectives, indicators, cache of statuses | create with undoing, update, delete, refresh one or all, alerts | two tables, no transaction; cached status against thresholds just read | no objective without indicator; alerts agree with statuses | `ServiceLevels` |
| users, API keys (`user/`, `auth/`, `storage/user_repository.go`) | rows, roles, keys | register, login, profile, status, password; create, revoke, regenerate | read-modify-write of whole rows with what belongs to them | a change is not undone by another; what is revoked stays so | `Accounts` |
| agent tools, pools, sessions (`agent/infrastructure/`) | registry, keyword index, sessions | register and remove pools, route, select, run; set, expire, delete sessions | permissions asked one by one while sessions change; arguments from a language model | only what is permitted is selected and run; a tool does what its name says | `ToolPools`, `AgentTools` |

Interactions. `App.Run` starts the queue's server, then `TopologyService.Start` and `ImpactCacheService.Start`, which refresh,
register their handlers and enqueue the first tasks (`PeriodicTask`). Handlers call the refreshes, which ask the discovery
backends (`Discovery`), rebuild the graphs and write the repository, Redis and the local cache (`TopologyService`); the impact cache
reads the rebuilt graph (`ImpactCache`). HTTP handlers and agent tools call the queries (`GraphAnalyzer`, `ImpactSearch`). Requests about alerts go
through `AlertService` to Alertmanager, recorded or not (`AlertGateway`, `AlertOperation`), and hand records to the buffer (`AlertRecordBuffer`).
Discovery, the catalogue's health checks and the SLO service read Prometheus.

## What is modelled

Each component has a module `X`, an instance `MCX` with its `.cfg` (`ImpactSearch` and `Discovery` are in that of `GraphAnalyzer`; `AlertRecordBuffer`, with bounds too large for its liveness, is also in that of `AlertGateway`; `MCTraversal` has the traversals of `GraphAnalyzer` alone), and where there are theorems its proofs in `X_proof`; those of
`AlertGateway` are the second part of `AlertRecordBuffer_proof`, those of `ImpactSearch` of `TopologyService_proof`, those of `ImpactCache` and of `Discovery` the parts of
`PeriodicTask_proof` after the first, as they are the work of its tasks. Operators
that no behaviour uses, placed before the one they vary (`FlushTakeKeeps`, `SetLocalOnce`, ...), are plausible mistakes in the
code: put in the place of that one, each makes a property fail. `PROJECT.json` names them, and the lines each definition stands for.
Where a module has a variable or a field that is called history, it is there for the properties only.

### AlertRecordBuffer, AlertRecordSink

Threads are flush loops (`Loops`) and callers of `Stop` (`Stoppers`); each record is added once by a caller of its own.
`buffer`, `running`, `flushCh` (capacity one) and `stopClosed` are the fields. A critical section of `b.mu` is one action; what follows
the unlock is another: `Add`, then `Signal`; `FlushTake`, then `FlushInsert` or `FlushError`, then `Requeue` for each record. The
insert may fail, and it may succeed and report an error. `Kill` ends the process at any point: what is in memory is lost.
`StopPanic` is the second `close(stopCh)`.

| action | code |
|---|---|
| `Start`, `StopBegin`, `StopNotRunning`, `StopClose`, `StopPanic` | `Start`, `Stop` |
| `Add`, `Signal` | `Add` up to and after the unlock (`AddFromAlert` builds a record and adds it) |
| `LoopStop`, `LoopTick`, `LoopWake` | the three cases of `runFlushLoop` |
| `FlushTake`, `FlushInsert`, `FlushError`, `Requeue` | `Flush`, `CreateBatch`, `requeueFailed` |

`AlertRecordSink` is what a caller may rely on: a record is accepted, collected, and settled (stored, queued or dropped), or is
lost with the process. `AlertRecordBuffer` refines it with `StageOf`, the place of each record.

### TopologyService

The content of a topology is the number of the refresh that built it. `writer` and `readers` are `s.mu`; the RWMutex blocks
new readers only while a writer holds it (Go also blocks them while a writer waits, which removes behaviours but no property
depends on it; `CallsReturn` holds for either). Caches: `sent` (database and Redis, written through), `local`, `stats`. A thread
performs one call at a time: refresh, get, get with a namespace, or stats. `Discover` asks one backend; it may fail and is skipped.
A `Set` of freecache may be refused (an entry over 1/1024 of its size) and entries expire or are evicted at any time (`Expire`).

| action | code |
|---|---|
| `Begin`, `CacheHit`, `CacheMiss`, `CheckEmpty`, `RLock`, `ReadNodes`, `ReadEdges`, `SetStats`, `RUnlock` | `GetServiceTopology`, `GetNetworkTopology`, `GetTopologyStats` |
| `LookUpSource`, `AnswerFiltered` | `filterEdgesByNamespace`, which a service query with a namespace calls after the unlock: `sources` are the versions of the graph in which the source of an edge was looked up |
| `Lock`, `Discover`, `Rebuild`, `Store`, `SetLocal`, `DeleteStats`, `Unlock` | `RefreshServiceTopology`, `RefreshNetworkTopology` |

### AlertOperation

All requests are about one alert (rows are looked up by its fingerprint); a key is the pair of user and operation that the check
for duplicates compares. A request steps through `Lookup`, `Create`, `Call`, then `Complete` or `ReadRow`, `IncrementRetry`,
`UpdateStatus`: one action for each statement sent to the database, none in a transaction. `Call` is a call of Alertmanager with the client's
own retries; any error counts as failed. Each database call may fail. `List` and `Enqueue` are a tick of the retry scheduler, `Age` lets rows become
older than five minutes, `Crash` ends all requests in flight. `AlertService.Start` has no caller in the repository and the retry
tasks have no registered handler: the scheduler is modelled as the service offers it, and what its tasks do is left out.

### PeriodicTask

`topology:refresh-service`, `topology:refresh-network` and `topology:precompute-impact` are the same program: do the work, enqueue
the successor. `task` is where each task in Redis is. `StartProcess`, `StartServer`, `Register`, `Enqueue` are `App.Run` and `Start` in their
order: the server runs before the handlers are registered, so a task left by an earlier run may meet no handler
(`TakeUnregistered`). asynq is external: it delivers at least once (`TimeOut`, `Recover`, `Return`), retries a failed task and archives it
after `MaxTries`. `Crash` is possible at any point; a failed enqueue is logged only, as in the code.

### GraphAnalyzer

A behaviour is one query of one graph: `Init` ranges over all graphs on `1 .. N` within the bounds, a step makes the call and keeps
what it was asked and what it returned, and the invariants compare the answer with a reference definition (distance as iterated
neighbourhoods, simple paths as arrangements of nodes that follow edges). The algorithms are recursive operators with the code's own
queues, visited sets and heaps, so that a mistake in one of them, and not in the graph theory, would show. The code goes through
nodes and edges in the order of Go maps or of discovery; here the order is that of the numbers, and because every graph on the numbers is
initial, so is every order on every graph. There is one edge at most from a service to another (as after the discovery's merge), edges to
itself from the services of `Loops` only. Edges whose ends are not both known services are left out. The graph does not change during a query.

| action | code |
|---|---|
| `AnalyzeImpact`, `AnalyzeImpactWeighted`, `FindPath`, `FindShortestPath`, `FindAnomalies`, `FindClusters` | the methods of `GraphAnalyzer` of these names |
| `FindShortestPathWeighted`, `FindShortestPathAStar`, `FindKShortestPaths` | Dijkstra, A\* with `DefaultHeuristic`, Yen |
| `FindCriticalPath` | the path of the best score to the first service of the impact that has one; the services of `Important` weigh more, and one service stands out by its status and its traffic (`Conditions`), which multiply its impact (`Multiplier`) |
| `CalculateCentrality`, `CalculateCentralityDetailed` | the counts behind degree, closeness and betweenness |
| `GetUpstreamServices`, `GetDownstreamServices` | `TopologyService` and its two traversals |

`ReachIsFound` is about impact in both forms and closeness (`ImpactIsDistance`) and about the traversals (`TraversalIsSound`), `PathsAreFound` about all paths, shortest, cheapest, k shortest and critical
ones and those that betweenness counts, `StructureIsFound` about cycles, orphans and clusters.
The spur paths of `FindKShortestPaths` have the fewest hops whatever the weights, and its candidates are compared with the paths
returned, not with each other; both are in the model. What holds in spite of that: the paths returned are simple, the first one is
cheapest, and there are fewer than asked for only if every path is among them. One path may be returned twice, and they need not be the lightest.

`TraversalIsComplete` is what the comments promise of the two traversals, and does not hold: the run `traversal` finds it violated (see
[divergences](#divergences)). `TraversalIsSound` says what does hold: no service farther than the depth is returned, and a depth
of the number of services or more, which is no limit, finds all that can be reached.

### ImpactSearch

One `AnalyzeImpact`, from its first read to its last, by whoever calls it. It takes neither the lock of the service nor that of the graph for
longer than one read, so `RebuildGraph` may come between any two of its steps. The search is the code's own, with its queue and its map
of what was visited; unlike in `GraphAnalyzer` it is a state machine, so that it can be interrupted, and proved about.

| action | code |
|---|---|
| `RebuildGraph` | `InMemoryGraph.Rebuild`, under the graph's lock: one step |
| `FindRoot` | the first `GetNode`; a service that is no node ends the call |
| `Visit`, `Skip` | one turn of the loop of `bfs`, with one read of the neighbours, or none |
| `EndSearch`, `List`, `NextSide` | the loop over what was visited, a `GetNode` each, in the order of a map; upstream first, then downstream |

The history variables `kept` and `met` hold what was in the graph at every moment of the search of this side, and what was at some moment.
`ImpactIsGrounded` says that a service listed was a node and was at the distance given by calls each of which was there at some time: a path may
be made of two graphs, and may have existed in neither. `ImpactIsComplete` says that what was within the limit in all the graphs is listed, at
that distance or less. Without a rebuild `kept`, `met` and the graph are one, and the two say that depths are distances. The two sides need not be
of the same graph; the properties speak of each side as it ends. `ImpactIsOfItsTime` is both. The module has no instance of its own: a behaviour of
`MCGraphAnalyzer` is one query of a graph that does not change, one such search, or refreshes of `Discovery` (`QuerySpec`).

### ImpactCache

A result is known by the version of the graph that its first read saw. `job` has what computes or reads: the goroutines of a
precomputation, and calls. Redis may fail, entries expire (`Expire`), the graph is rebuilt (`Refresh`) and entries are invalidated between
any two steps. A run may be cancelled at any point; its goroutines go on.

| action | code |
|---|---|
| `Precompute`, `Spawn`, `Wait`, `GoOn`, `Count`, `Cancel` | `PrecomputeAll` and the loop over batches |
| `Read`, `Store` | `precomputeService`, `AnalyzeImpact`: read the graph, write the entry |
| `GetImpactCache`, `Look`, `Compute` | `GetImpact`, `AnalyzeImpact`, `DetectImpactChanges`: look in Redis, compute when it is not there |
| `InvalidateService`, `ListKeys`, `DeleteKeys` | `InvalidateService`, `InvalidateAll` (a scan of keys, then a deletion of what it listed) |

### Discovery

What is in the cluster and in Prometheus is a set of objects (services, pods, machines, series of calls); one of them may come or go
between any two calls (`Change`), and a kind of call may fail (`Fail`). Namespaces are listed by goroutines of their own. Then the
answers are merged into the graphs (`topology`), and these are saved (`rows`).

A name is a number. What Prometheus tells of a call is a host or a gRPC service, a sequence of parts; the service called, `to`, is known to
the properties only. `Callee` takes the first part of the host, the last of the gRPC service, and the namespace of the caller, as the code does; `ByName`
says of a call that this is the service called. Two edges of one id are one, as the id is made of the ends and of the kind; HTTP and the environment of
pods make the same id, gRPC another. The table of edges has a unique constraint on the two ends (`uk_source_target` of migration 011), which the upsert by id
does not mention: `InTheWay` is when it refuses the batch. A pod counts for the first service whose selector it matches, if it has a service account, once for each
ReplicaSet or Deployment that owns it. The columns that the rows need are assumed to be there.

| action | code |
|---|---|
| `RefreshServices`, `RefreshNetwork`, `Rebuild`, `RebuildNetwork` | `RefreshServiceTopology`, `RefreshNetworkTopology` and the merge |
| `ListServices`, `ListPods`, `EndNodes`; `ListCallers`, `ListCallees`, `EndEdges`; `ListMachines`, `ListNetworkPods`, `EndNetworkPods` | the Kubernetes backend |
| `QueryUp`, `FetchMetrics`, `QueryHTTP`, `QueryGRPC`, `QueryDatabase`, `QueryTraffic` | the Prometheus backend |
| `SaveNodes`, `SaveEdges`, `SaveNetwork` | the batch upserts of the repository |

### AlertGateway

A request goes through its handler (`Receive` and the actions named after the methods of `AlertService`), to `Call`, one try at Alertmanager. The
call may do what it asks and lose the answer; `Retry` is `withRetry`. `GetByFingerprint`, `Upsert` and `Notify` are the statements behind
the feedback and the noise record of an alert that is recorded; `ReceiveWebhook` writes one as well. What the row of an operation holds is `AlertOperation`'s
concern: here `BeginOperation` lets a request pass or not. `GetAlert` compares the fingerprint with a label of that name, which alerts do not have: it reads and finds nothing.

### Catalogue

One action is one statement. `GetByID`, `BatchUpdate` and `PeriodicCheck` take a copy of a row, the last one a copy from the start of
the process; `Save` writes the copy whole with what was edited, and inserts it again when the row was deleted. `SyncLabels` is the
transaction that replaces the table of labels. `Find` and `Preload` are the statements of the three reads of dependencies.
`Restart` loses the requests in flight and gives the checks new rows. Any statement may fail (`Fail`).

### Accounts

The same shape for users: `Load` reads a user, with roles and keys as the query of that operation preloads them, `Save` writes
the row and what was loaded with it (gorm inserts the missing rows of `user_roles`, and of a key sets the owner only).
`CheckName`, `CheckEmail`, `Insert` are the registration, `ReadKey`, `CreateAPIKey`, `Deactivate` the three operations on keys.
Any statement may fail and change nothing (`Fail`); and any write may be committed and its answer lost (`Lost`): the request then ends as if it
had failed. What it answers in either case is `Failure`: mostly an error, but success when the deactivation of a regenerated key failed. `fault` keeps, for the
properties, which of the two it was.

### ServiceLevels

Objectives and indicators are rows of two tables. `Insert`, `InsertSLI`, `Undo` are `CreateSLO`; `GetByID`, `Save` an update;
`DeleteSLI`, `Delete` the deletion. A refresh steps through `ReadRow`, `FindSLI`, `CollectSLI`, `CollectBurnRate` and `UpdateStatusCache`
for each objective, those of all share `Slots` (`Acquire`). `ListRows`, `Enrich`, `Answer` put rows and cached statuses together.
`Expire` is the age of five minutes. `marred` remembers the objectives whose deletion, or its undoing, failed or met another write.

### AgentTools, ToolPools

`AgentTools` is pure: the texts that are arguments, the action that a thin tool merges into them, what each fat tool makes of them.
`ToolPools` has the registry, the index from keywords to ids, the sessions, and a request that is routed (`Route`), selects tools one by one (`SelectTool`),
is authenticated and executes (`Execute`, `Check`, `Run`), while pools are registered and removed and sessions are set, expire and are
deleted by goroutines that come late (`LateDelete`).

## Runs

Eleven pass; `traversal` finds what the comments promise of the traversals violated, as it should.

| run | instance | distinct states | shows |
|---|---|---|---|
| `alert_record_buffer` | 2 records, 2 loops, 2 stoppers, `BufferSize` 2 | 316,116 | what is buffered is flushed, refinement of the sink |
| `topology_service` | 2 threads, 3 calls, 1 backend | 695,906 | caches, torn reads, order of answers, every call returns |
| `alert_operation` | 3 requests, 2 keys, window 1, 2 retries, a list of 1, 1 request with database errors | 451,533 | duplicates, retries, status, no starvation of a retry |
| `periodic_task` | 4 tasks, 2 starts, 1 retry, 1 failed call | 279,841 | accounting of chains, no silent end, progress |
| `graph_analyzer` | queries: 4 nodes, up to 5 edges, 1 of them may be a loop, weights 1 and 3, 4 paths, 1 important service, 2 conditions of 1 service; search: 4 services, 5 possible calls, 3 sets of nodes, depth 2, 1 rebuild; discovery: 2 namespaces, 16 objects, 1 change, 1 kind of failure, 2 refreshes | 1,988,737 | each query against its definition; an impact analysis of a graph that is rebuilt; nothing lost, graph is of the cluster, tables follow it |
| `impact_cache` | 2 services, 1 run of 1 or 2 batches, 1 call, 2 rebuilds, 1 invalidation | 494,245 | no answer of before an invalidation, counts, precomputation returns |
| `alert_gateway` | 3 requests of 18 kinds, 2 tries, 2 lost answers, 2 alerts; buffer: 4 records with 1 loop, 2 with 2 loops, 1 stopper, `BufferSize` 2 | 1,073,172 | answers tell the outcome, fires are counted; one place for each record, no lost wake-up, Stop leaves nothing |
| `catalogue` | 3 requests, 2 services, 1 restart | 1,715,727 | edits, tables, deletion |
| `accounts` | 3 requests, 2 users, 2 keys, 1 role | 459,317 | edits, revocation, what answers tell |
| `service_levels` | 3 requests, 2 objectives, 1 slot, 3 rates | 308,493 | indicators, alerts |
| `tool_pools` | 1 request, 1 user, 3 pools of a caller, 5 intents, 6 texts, 2 sessions, 3 changes of the registry, 1 late deletion | 1,462,267 | routing, permissions, names of tools |
| `traversal` | 5 nodes, up to 5 edges | violated | the traversals return not all services within the depth |

What the properties of several parts say together: `RevokedStaysRevoked` is of roles and of keys; `OnlyWhatIsPermitted` of the selection
and of the run; `GraphIsOfCluster` of statuses and of edges; `AnswersTell` of errors and of keys; `TablesAgree` of labels and of the ends of dependencies. A property
about lost updates (`EditsAreKept`, `FiresAreCounted`, `OrphansAccounted`) names exactly the interleavings in which the code does lose one
(whoever read before the write saves after it), so that it fails for any other.

Bounds. Two loops and two stoppers give every pair of overlapping flushes, a restart and a double stop; a buffer size of 2 with
2 records makes the buffer full, and adds at the limit meet flushes. With 4 records it is full twice: a second wake-up is sent, and dropped, while the first
still lies in the channel, or after a loop has taken it. Records differ only in their names, so there they are added in the order of these; more than two come only to a buffer with one loop, a queue and a process that lives. Two threads and three calls let a query of each kind meet a
refresh at any point and a caller get two answers. Three requests give a request after another of its key with a third between, which is
what a window of 1 (5 in the code) is about, and a list of 1 (100 in the code) lets one dead row fill it. Two starts and four tasks let a chain of an earlier run meet a new one, each
duplicated by one interruption. Four nodes and five edges have cycles with a tail, two components, three paths from one node to
another and two ways of different weight; weights 1 and 3 make the way of most hops the lightest. Of the graphs with five edges, those are taken in which nobody calls the first service: they have
the four-path search return one path twice (1-2, 1-3, 2-3, 2-4, 3-4). A short way that is closed by a longer one needs a fifth node: the run `traversal` has it. In `Accounts`, `Catalogue` and `ServiceLevels` three requests let two interfere and a
third see, or spoil, the result; two rows are what a unique index, a batch and a dependency need. Two rebuilds let a result be stored
from the graph before, between or after, around one invalidation; batches of 1 and 2 give a run with a next batch and a batch with two
goroutines. In `ImpactSearch`
five calls have a way around, a cycle and services beyond the depth, one service may be no node, and the rebuild, to any of the graphs, can fall between any two reads.
In `Discovery` two services share a selector, two namespaces share a name, one call is made by the name of its service and one leaves the namespace, a service is called over HTTP and gRPC,
seven of the objects, each of a kind of its own, may be missing at first (`MCMissing`), any one may come or go later,
and one failure can fall between any two calls; two refreshes let old rows meet new ones, of the same id and of another. Two tries and two lost answers let a request of `AlertGateway` fail with its
work done, or succeed with it done twice; two of its three requests may call Alertmanager, which is what they share, and one may be a question or be refused, as such a one leaves nothing behind. In `Accounts` any number of statements may fail or lose their answer. Of the pools of a caller in `ToolPools` two share an id, and one takes the id of the pool of alerts, before or after that is registered. One request is enough, as requests share nothing but what the sessions and the registry do between their steps.
Counters (`calls`, `starts`, `failures`, `changes`, `made`, ...) are bounded by the constants named after them. Deadlock is checked
where every request ends (`Accounts`, `Catalogue` and the instance of `GraphAnalyzer`, with `ImpactSearch` and `Discovery`, have an action for the end); it is not where a process that
ended, or used up its calls, stops, as the buffer beside `AlertGateway`. Requests, rows and keys are symmetric in `Accounts`, `Catalogue` and `ServiceLevels`, and two of three requests, and the two loops of the buffer, in
`AlertGateway`; these runs check no liveness, and no definition tells one from another.

Fairness. Loops and flushes (`LoopTick`, `Flush`) and the steps of a `Stop` are weakly fair: goroutines are scheduled, and the ticker
fires again and again; callers of `Add` are not. In `TopologyService` a thread that is in a call goes on; `Lock` waits for the readers, who return.
In `AlertOperation` the ticker of the scheduler and its loop are weakly fair, requests are not; an enqueue that is tried at every tick
succeeds at last (strong fairness of the successful `Enqueue`, as a Redis that always fails would make any retry vain). In `PeriodicTask` the
workers of a running server and asynq's recoverer are weakly fair; starts, crashes and failures are not. In `ImpactCache` the steps of a
goroutine (`Proceed`) and of a run (`Advance`) are weakly fair: a call of Redis answers or times out; refreshes, calls, cancellations and invalidations are not.

## Divergences

Where the code does something else than its comments, documents or names say, or than a reader would expect. The models follow
the code; the properties state what holds in spite of it.

Topology.
* Both refreshes promise "返回: 发现失败时返回错误", an error when discovery fails (`topology_service.go:523`, `:652`). A failing backend is
  logged and skipped (`:539`, `:668`) and the refresh returns nil, so the handler's retry (`:171-175`) never happens.
* `RefreshInterval` is documented as the interval between refreshes (`topology_service.go:60`; `impact_cache.go:67` for
  `PrecomputeInterval`). Every start enqueues another task that renews itself, and the tasks of earlier starts live on in Redis, so
  that after n starts there may be n refreshes in an interval.
* `GetUpstreamServices` promises "返回指定深度内的所有上游服务", all services within the depth (`topology_service.go:461`; `:488` downstream). The
  traversal marks a service visited with whatever depth was left when it first met it (`:817`) and does not enter it again from a shorter
  way: with 1→2→3→4→5, 1→3 and depth 3, service 5 is missing downstream of 1 when 2 comes before 3. The run `traversal` shows it (`TraversalIsComplete`).
* A service query with a namespace filters its edges after the unlock, by the graph there is then (`:231-234`, `:873-882`): a refresh in
  between takes out edges whose nodes are in the answer. `TornOnlyByRefresh` says that nothing else does.
* The depths that the weighted impact reports are those of whichever service comes last in the order of a map
  (`graph_analyzer.go:779-783`), and a service on both sides counts twice. Betweenness counts a pair in one direction only, which
  one depends on that order, and counts the ends of a path (`:517-530`). The critical path is the best one to the nearest service only, as
  the loop ends with the first that has a path (`:969`).
* `AnalyzeImpact` answers from a cached entry whatever the depth asked for (`impact_cache.go:326-341`); a refresh leaves impact entries
  as they are; the `break` of `AnalyzeImpactBatch` leaves its `select` and not the loop, so a cancellation is not noticed;
  a batch size of 0 or less never ends.
* An edge from Prometheus leads to the service that is named as the first label of the host, or the last part of the gRPC service, in the
  namespace of the caller (`prometheus/backend.go:359-375`, `:565-584`). A call of `user.other.svc` is drawn to the service `user` beside the caller, and a gRPC
  service `com.example.UserService` to a service of that name, which Kubernetes does not allow. The two backends give the same pod different ids. An edge first
  found in the environment keeps the type "indirect" when a direct call is found as well.
* The status of a service is documented as that of all its pods, "Healthy: 所有 Pod 都就绪" (`kubernetes/backend.go:136-140`). Those of a StatefulSet or a
  DaemonSet, without a service account, or claimed by a service listed earlier do not count (`:152-163`); `StatusIsOfPods` speaks of those that do.
* The upsert of edges is by id (`storage/repository.go:143`), while the table is unique by its two ends as well (`011_topology.up.sql:50`). An edge that was
  saved when found over gRPC has another id than one found otherwise, so when it changes, PostgreSQL refuses the whole batch; rows are never removed, so it
  refuses the later ones too. The refresh logs it and goes on. A machine with two internal addresses makes the upsert of the network nodes fail in
  the same way. Snapshots and changes are never saved.
* The gorm models have columns that the migrations do not create (`created_at` in each of the three tables, `packets_in` and `packets_out` in that of the network). With the
  repository's migrations alone every save of the topology is refused, and logged; the model is of a database that has them.

Alerts.
* The record that a webhook writes has no id, so `Save` inserts it and the unique fingerprint refuses it when the alert is known: later
  webhooks are not counted, and a first one that says "resolved" makes a record with one fire. Webhooks carry Alertmanager's fingerprints,
  which differ from those the service computes. A read that fails makes `RecordAlertFired` insert, which is refused in the same way.
* Alerts without labels pass the binding and answer 500; a missing noise record answers 500; the 404 for an unknown silence is not reachable.
  `CreateSilenceWithRecord` does not look at the times that `CreateSilence` looks at. An alert is asked for by a label named `fingerprint` (`service.go:218-229`), which alerts do not
  carry, so it is not found.
* A silence whose answer was lost is made again, and nobody knows the id of the first (`alertmanager.go:61-75`).
* `AlertService.Start`, which runs the retry scheduler, has no caller, and its tasks have no handler.

Catalogue, accounts, service levels.
* A health check saves the row it read at the start of the process: edits made since are undone, and a deleted service is there again.
  A deleted service leaves its dependencies, so that the graph has edges whose ends are missing; a dependency once removed cannot
  be added again.
* A request is authenticated by its token or key alone: that its user was disabled is not noticed. Regenerating a key is documented as
  "撤销旧的，创建新的", the old one is revoked (`auth/apikey.go:182`), and reports success when that could not be done (`:207-212`): both keys work. When the answer to the creation of
  a key is lost, the caller is told of an error while the key is there.
* A refreshed status is not written to the database, so lists filtered by status, and the summary, see "unknown". An update that leaves out the
  thresholds sets them to 0, and the alerts call a healthy objective critical; an update does not clear the cached status. A query of the burn
  rate that fails counts as 0, healthy, and is cached. Saving an objective that was deleted meanwhile brings it back, without its indicator.

Agent.
* The pool of alerts names a tool `alerting_feedback`; the tool is `alerting_get_feedback`. The pool of the topology has ten tools and a limit of eight.
* A pool of a caller with the id "alert" is replaced when the provider of alerts is registered, but its keywords stay in the index
  (`pool.go:51-61`, `:308-317`), so an intent may be routed to a pool that has none of its keywords.
* Arguments that are the JSON `null` make `mergeAction` write to a nil map. The limits that the schema states are not enforced.
* `CreateSession` stores every session under the same generated token, while `HasPermission` looks under the id of the user; a deletion that
  comes late can delete a newer session. No production code creates sessions.

## Proofs

`tlapm X_proof.tla` checks all of them. The proofs rest on the named assumptions of each module only, which TLC evaluates on every
run: constants are sets or naturals, and the null value is none of the values it stands beside (`NoneIsNoRow`, ...); `InputsAssumption`
and `AsksAssumption` say what inputs are (a text has the fields of a text; what is sent with a record is an alert). No theorem has a
hypothesis of its own. Each component has one inductive invariant, checked by TLC before it was proved: types,
what the program counter of a request says of its other fields, the property, and what carries the property from one step to the next.
A proof goes through the actions one by one; the lemmas before it say what every step of one request leaves alone in the others.

* **AlertRecordBuffer.** `TypeCorrect`; `OnePlace` needs `HoldersAreWriting` (only a thread between taking a batch and the end of its
  write holds records); `WakeupNotLost` is inductive with the types, since only a `Flush` about to start consumes a wake-up;
  `StopFlushes` needs `DueIsTaken` (until its flush a stopper has no less to do than is buffered); `PanicNeedsRestart` needs `FirstStop`
  (before the first restart one stopper at most is between clearing `running` and the close). `Refinement` maps each step to
  `Accept`, `Collect`, `Settle`, `Die` or a stutter, using `OnePlace` for the disjointness of the places.
* **TopologyService.** `LockHeld` (the lock and the program counters agree: a writer excludes readers) carries all others. `StatsHold` and `CopiesHold`
  say how far a refresh has come in making the caches current, step by step; `ReadsHold` says that what a reader has read is what the
  graph still is; `AnswersBehind` bounds what callers were given by the versions of the graph. For a query with a namespace, which goes on after the unlock, `FilterHolds`
  says that what it read was one graph and that what it looks up is no older, and `FilteredBehind` that its answer is no older than the last one its caller was given.
* **ImpactSearch** (in `TopologyService_proof`). `SearchInvariant` has the invariant of breadth first search: the queue is in the order of depths, which differ by one at
  most, and nothing visited is farther than what is queued (`QueueInOrder`); the service asked about comes first (`RootFirst`). What the rebuilds add is
  that reachability is stated twice. What is visited or queued is reached by edges that were met (`AllReached`), which only grow; and the neighbours, by
  edges that were kept, of what is visited are visited or queued, one call farther at most (`Frontier`), and the kept edges only shrink: so a rebuild cannot break either.
  `ImpactGrounded` follows; `ImpactComplete` (with it, `ImpactOfItsTime`) takes a walk of kept edges to the first service on it that was visited from too far or not at all, by well-foundedness
  as for the sums below. It holds of any finite set of services, any graphs, any depth and any number of rebuilds (`SearchAssumption`).
* **AlertOperation.** `SequentialOnce` strengthens the property over all places between `Lookup` and `Create` (a request that passed the
  check has no recent duplicate among the requests that ended before it began); `RetriesFollowErrors` and `StatusIsOutcome` relate program counter, row and the
  history of calls.
* **PeriodicTask.** `Accounted` is a count: each action that takes a task out of `Live` or puts one in changes the sum on both sides by the
  same number (cardinality lemmas from `FiniteSetTheorems`). `SilentEndNever` follows from the accounting and the fact that a service
  that is up has enqueued its first task or met a failure.
* **ImpactCache** (in `PeriodicTask_proof`). A result is `Known` when it is as new as an invalidation or marked as overtaken by it.
  `EntriesKnown` and `ResultsKnown` say so of what is in the cache and of what is still to be stored, for the invalidations that have
  ended and for the one that is under way, which has listed its keys and not yet deleted them: without that second half a key
  stored between the listing and the deletion would escape. `JobsPlaced` ties a call to the invalidations before it began. `NoStaleImpact` follows.
  `RunsAccounted` is about a sum over the runs that are done. The sum of the community modules is a fold, defined by recursion over the set, and induction
  is out of reach; the lemmas from `SumExists` to `TotalGrows` go by a least counterexample instead, which well-foundedness of the proper subsets of a
  finite set gives (`WFMin`). `RunsInvariant` then says of each run how much of its services its goroutines have dealt with, or still hold.
* **Discovery** (in `PeriodicTask_proof`). At the end of a refresh the properties speak of the graph, so `DiscoveryInvariant` says the same of each answer
  from the moment it is there: every list that a goroutine holds has what was there all the time and nothing that was never there
  (`ListsHold`); a node is made of two such lists (`NodesMade`); a part of the answers that did not fail has all it should have (`NodesComplete`,
  `SeriesComplete`, `NamesComplete`, `CallsComplete`), an edge has a ground (`EdgesGrounded`). What makes these inductive is that the lists only ever
  become truer: in the course of a refresh the objects that have been there grow and those that were there all the time shrink (`Onward`). Two facts about failures had
  to be added: edges of the environment are asked for only when no list for the nodes failed, and so an edge without a node at its end is of a service
  that came or went. From the answers to the graph it is the merges, whose lemmas (`MergeHas`, `MergeNodesHas`) say what each keeps; `StatusIsOfPods` is
  the sum lemmas again, of the pods that count and those of them that are ready. Of the tables, `TablesFollow` adds that no two rows join the same services: a batch is refused when one of
  its edges has the ends of a row of another id (`InTheWay`), and two edges of one graph never have the same ends, by the merge. The assumption is `DiscoveryAssumption`: objects are finitely many, services and
  pods are in the namespaces listed, and no two services of a namespace have one name, as Kubernetes guarantees.
* **AlertGateway** (in `AlertRecordBuffer_proof`). `OutcomesTold` is about the end of a request; `MadeOf` and `Told` state the same at each step before
  it (how many silences Alertmanager has made for it, lost answers included; what it has sent, deleted, noted and buffered), and `Makers` says that a silence
  is deleted only by who was told of it by a request that has ended, which is why no later step of its maker can bring it back.
  `FiresCounted` needs `Copied`: the copy that an event has read counts no more than had been written by then, and is the row if nothing was since.
* **Accounts.** `EditsKept` speaks of rows that were saved whole; its invariant needs `ReadIsKept`, the same of the rows that requests have read and
  are going to save, and `ReadIsRevoked`, the same of the roles read with them; `Dated` orders reads and writes. `AnswersTold` is inductive with the dates; it needs of what others do to
  the keys meanwhile that keys are never removed, renamed or made active again (`KeysGrow`), and of a request that ends what it has done (`KeyEnds`).
  `RevokedStay` adds to `RolesStayRemoved` (in the invariant) the step property that a key which was deactivated stays so: each action that writes keys either
  inserts one or deactivates one.
* **Catalogue.** As in Accounts, for the rows that requests have read (`ReadIsKept`) and for those the health checks hold since the start of the process (`CopyIsKept`).
  `TablesFit` needs `LabelsSynced` (between the transaction and the save of a row its labels are the request's own, unless another wrote), `Deleted` (a row that is
  not alive was deleted by a request that ended) and `Found` (of the dependencies read, which ends were looked for and found). `RemovalFinal` is an
  action property: no action takes a removed dependency back, nor frees the name of a row.
* **ServiceLevels.** `ObjectivesKeepIndicators` needs `Alone` (who creates or deletes an objective that is not marred is the only one to write it) and `Progress` (how far its two
  tables have come). `AlertsAgree` needs `Computed` and `Enriched`: what is cached was computed from the thresholds cached with it, and one rate explains a status and a
  severity seen together; the rest is arithmetic on thresholds that make sense.
* **ToolPools.** `PermittedOnly` needs `Watched` (what the sessions permit now is among what was seen since the request began to select or run) and `Selections` (of the tools
  that a selection has passed, each was chosen, not registered or not permitted). `NamesHold` is about each tool and each text. `RoutedRightly` needs `Indexed`: a keyword finds only
  pools that are registered and have it, or ids that a replaced pool has left under it. Those are remembered in `made.left`, a history of what registration leaves behind: when the provider of
  alerts takes the id of a caller's pool, the keywords of that pool stay in the index.

Only model-checked: `BufferedIsFlushed`, `CallsReturn`, `RetryingIsEnqueued`, `KeepsRefreshing`, `PrecomputeReturns` (liveness under fairness); all of
`GraphAnalyzer`, whose algorithms are recursive operators: what a recursion returns for every graph is beyond the prover. `TraversalIsComplete` is violated. Of these the impact is
proved about in the other form, as the steps of `ImpactSearch`.

## Not modelled

* Retry, circuit breaker and bulkhead (`topology/infrastructure/resilience/`): their one user, the resilient Redis cache, is never created, and
  `RetryWithCircuitBreaker` does not call the breaker's `Execute`.
* Other code without a caller: the informers of the Kubernetes backend, snapshots and changes of the repository, the priority queue, `Warmup` and
  `RefreshStale` of the impact cache (which call modelled operations in turn), `RecordAlertResolved`, `ShouldSuggestSilence`,
  `PersistAlertsFromAlertmanager`, `EnqueueNotification`, `StartBackgroundRefresh`, `Stop` and `SLOCalculator` of the SLO service. The eBPF
  backend is empty.
* Queries that read and change nothing in one statement (lists, searches, summaries, statistics), the layout of answers, the text of queries to
  Prometheus, arithmetic on floating point numbers (scores, error budgets, costs).
* Tokens (checked by signature and time alone) and the enforcement of policies, which is casbin's.
* Telemetry, configuration, logging, domain value types, `wire.go`, small commands, and directories that hold package clauses only
  (`internal/cost`, most of `internal/agent`).
* Queries other than the impact analysis that meet a refresh half way: in `GraphAnalyzer` the graph does not change. In `ImpactCache` all reads of one
  analysis are one step, which is dated by the first; what is in the result when they are not is the question of `ImpactSearch`.

`PROJECT.json` lists every component with its state, and every hazard with the properties about it.

## Plan

1. The other searches of `graph_analyzer.go` (paths, clusters, cycles) as state machines that read while the graph is rebuilt, as `ImpactSearch` is.
2. Retry, breaker and bulkhead, if something calls them.
