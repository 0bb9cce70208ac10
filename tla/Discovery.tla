------------------------------ MODULE Discovery ------------------------------
(***************************************************************************)
(* What a refresh finds: the Kubernetes and Prometheus backends            *)
(* (topology/infrastructure/kubernetes, .../prometheus), the merge of      *)
(* their answers in topology_service.go, and the rows that                 *)
(* topology/infrastructure/storage keeps of them.                          *)
(*                                                                         *)
(* The cluster and its metrics are a set of objects that come and go while *)
(* the refresh makes its calls one by one; a namespace is listed by a      *)
(* goroutine of its own.  The list of namespaces is configured, as a list  *)
(* read from the cluster differs from it only by one more call that may    *)
(* fail.  Rates and latencies are reduced to whether a rate is known.      *)
(***************************************************************************)
EXTENDS Naturals, Sequences, FiniteSets, FiniteSetsExt

CONSTANTS Namespaces,
          Objects,      \* what may be in the cluster or in Prometheus
          MaxChanges,   \* bound: objects that come or go
          MaxErrors,    \* bound: kinds of calls that fail in one refresh
          MaxRuns       \* bound on refreshes

\* A service has a name of its own in its namespace; what is called has a namespace and a name.
ASSUME DiscoveryAssumption ==
    /\ IsFiniteSet(Objects)
    /\ \A o \in Objects : o.kind \in {"service", "pod"} => o.ns \in Namespaces
    /\ \A s, t \in Objects : s.kind = "service" /\ t.kind = "service" /\ s.ns = t.ns /\ s.name = t.name => s = t
    /\ \A p \in Objects : p.kind = "pod" => p.owners \in Nat
    /\ \A c \in Objects : c.kind \in {"http", "grpc"} => c.to = <<c.to[1], c.to[2]>>

VARIABLES live,      \* the objects that are there
          pc,        \* the call the refresh makes next
          part,      \* the goroutines, one for each namespace
          found,     \* what the backends have answered
          topology,  \* serviceGraph and networkGraph
          rows,      \* the tables topology_service_nodes, _call_edges, _network_nodes
          touched,   \* history: objects that came or went in this refresh
          failed,    \* history: calls that failed in this refresh
          changes, refreshes

cluster == <<live, touched, changes>>
discoveryVars == <<live, pc, part, found, topology, rows, touched, failed, changes, refreshes>>

OfKind(kind, S) == {o \in S : o.kind = kind}
In(ns, S) == {o \in S : o.ns = ns}
Key(o) == <<o.ns, o.name>>

\* A pod belongs to the first service of the list whose selector it matches.
ServiceOf(p, services) ==
    LET matching == {s \in services : s.selector # 0 /\ s.selector = p.app}
    IN  {s \in matching : \A t \in matching : s.name <= t.name}

\* A pod is counted once for each ReplicaSet or Deployment that owns it.
PodCount(pods) == MapThenSumSet(LAMBDA p : p.owners, {p \in pods : p.account})

Ready(p) == p.running /\ p.ready # "false"

Status(count, ready) == CASE count = 0     -> "unknown"
                          [] ready = count -> "healthy"
                          [] ready = 0     -> "unhealthy"
                          [] OTHER         -> "warning"

ServiceNode(s, services, pods) ==
    LET own == {p \in pods : s \in ServiceOf(p, services)}
    IN  [key |-> Key(s), rate |-> FALSE,
         status |-> Status(PodCount(own), PodCount({p \in own : Ready(p)}))]

\* What the environment of the pods, and config maps if they can be read, name.
\* The first pod of the list that names a service decides on the confidence.
EnvEdges(services, pods, maps) ==
    LET Names(p) == p.env \union (IF maps THEN p.maps ELSE {})
        Callers(s, t) == {p \in pods : s \in ServiceOf(p, services) /\ t.name \in Names(p)}
        First(s, t) == CHOOSE p \in Callers(s, t) : \A q \in Callers(s, t) : p.name <= q.name
    IN  {[id |-> <<Key(e[1]), Key(e[2]), "">>, type |-> "indirect", direct |-> FALSE,
          confidence |-> IF e[2].name \in First(e[1], e[2]).env THEN 60 ELSE 50] :
            e \in {e \in services \X services : e[1] # e[2] /\ Callers(e[1], e[2]) # {}}}

\* An instance that is down makes the service unhealthy.
UpNode(key, series) == [key |-> key, rate |-> FALSE,
                        status |-> IF \E u \in series : Key(u) = key /\ ~u.up THEN "unhealthy" ELSE "healthy"]

\* What is left of a host without its scheme, its port and its domain: the first label.
\* Labels are numbers; that of a host without a name is 0.
ServiceOfHost(host) == Head(host)

\* Mutant: the first part.
ServiceOfGRPCFirst(service) == Head(service)

\* The last part of package.Service.
ServiceOfGRPC(service) == service[Len(service)]

\* Prometheus tells the host, or the gRPC service, that was called, and not the service of
\* the cluster: that is taken to have its name, and to be in the namespace of the caller.
Callee(c) == <<c.ns, IF c.kind = "http" THEN ServiceOfHost(c.host) ELSE ServiceOfGRPC(c.service)>>

\* The calls of a kind that have a name.
Counted(kind) == {c \in OfKind(kind, live) : Callee(c)[2] # 0}

\* Mutant: the ids of calls over HTTP are their own.
HTTPEdgeOfItsOwn(c) == [id |-> <<Key(c), Callee(c), "http">>, type |-> "http", direct |-> TRUE, confidence |-> 90]

HTTPEdge(c) == [id |-> <<Key(c), Callee(c), "">>, type |-> "http", direct |-> TRUE, confidence |-> 90]
GRPCEdge(c) == [id |-> <<Key(c), Callee(c), "grpc">>, type |-> "grpc", direct |-> TRUE, confidence |-> 90]
DatabaseEdge(c) == [id |-> <<Key(c), <<c.to>>, "db">>, type |-> "database", direct |-> TRUE, confidence |-> 95]

Ends(e) == <<e.id[1], e.id[2]>>
NodeIds(nodes) == {n.key : n \in nodes}

\* Mutant: the last one found replaces the others.
MergeNodesLast(first, second) == {n \in first : n.key \notin NodeIds(second)} \union second

\* Kubernetes is asked first: its nodes stay, and take the rates of Prometheus.
MergeNodes(first, second) ==
    LET Rate(key) == \E n \in second : n.key = key /\ n.rate
    IN  {[n EXCEPT !.rate = Rate(n.key)] : n \in first}
        \union {n \in second : n.key \notin NodeIds(first)}

\* Mutant: an edge stays as it was found first.
MergeEdgesFirst(e) ==
    LET Same(x) == {y \in e : Ends(y) = Ends(x)}
    IN  {x \in e : x.type = "indirect" \/ \A y \in Same(x) : y.type # "indirect"}

\* The edge that was found first stays, and becomes direct when another one is.
MergeEdges(e) ==
    LET Rank(x) == CASE x.type = "indirect" -> 1 [] x.type = "http" -> 2
                     [] x.type = "grpc" -> 3 [] x.type = "database" -> 4
        Least(S) == CHOOSE x \in S : \A y \in S : Rank(x) <= Rank(y)
        Same(ends) == {x \in e : Ends(x) = ends}
        Merged(S) == LET directs == {x \in S : x.direct}
                     IN  IF Least(S).direct \/ directs = {} THEN Least(S)
                         ELSE [Least(S) EXCEPT !.direct = TRUE, !.confidence = Least(directs).confidence]
    IN  {Merged(Same(ends)) : ends \in {Ends(x) : x \in e}}

\* A node or pod of the network; the two backends give a pod different ids.
MachineId(m) == <<"node", m.name>>
PodId(p) == <<"pod", p.ns, p.name>>
TrafficId(t) == <<t.ns, t.name>>

\* A row of the table gives way to a new one that agrees in the field id.
Upsert(table, new, id) == {r \in table : \A n \in new : n[id] # r[id]} \union new

Nothing == [kube |-> {}, prom |-> {}, edges |-> {}, machines |-> {}, network |-> {}]
Waiting(at) == [n \in Namespaces |-> [pc |-> at, services |-> {}, pods |-> {}]]

DiscoveryInit ==
    /\ live \in {Objects} \union {Objects \ {o} : o \in Objects}
    /\ pc = "idle"
    /\ part = Waiting("done")
    /\ found = Nothing
    /\ topology = [nodes |-> {}, edges |-> {}, network |-> {}]
    /\ rows = [nodes |-> {}, edges |-> {}, network |-> {}]
    /\ touched = {} /\ failed = {}
    /\ changes = 0 /\ refreshes = 0

\* Something is created, deleted or, by both, changed.
Change(o) == /\ changes < MaxChanges
             /\ changes' = changes + 1
             /\ live' = IF o \in live THEN live \ {o} ELSE live \union {o}
             /\ touched' = touched \union {o}
             /\ UNCHANGED <<pc, part, found, topology, rows, failed, refreshes>>

Fail(call) == /\ Cardinality(failed) < MaxErrors
              /\ failed' = failed \union {call}

Ok == UNCHANGED failed

Begin(first) == /\ pc = "idle" /\ refreshes < MaxRuns
                /\ refreshes' = refreshes + 1
                /\ pc' = first
                /\ part' = Waiting("services")
                /\ found' = Nothing
                /\ touched' = {}
                /\ UNCHANGED <<live, topology, rows, changes>>

\* failed keeps the tables that are behind since the last refresh of the other kind.
RefreshServices == Begin("nodes") /\ failed' = failed \intersect {"save network"}
RefreshNetwork == Begin("machines") /\ failed' = failed \intersect {"save nodes", "save edges"}

ListServices(n) == /\ pc = "nodes" /\ part[n].pc = "services"
                   /\ \/ /\ part' = [part EXCEPT ![n].services = In(n, OfKind("service", live)), ![n].pc = "pods"]
                         /\ Ok
                      \/ part' = [part EXCEPT ![n].pc = "failed"] /\ Fail("nodes")
                   /\ UNCHANGED <<pc, found, topology, rows, refreshes, cluster>>

\* The list of pods ends the discovery of a namespace.
ListPods(n) == /\ pc = "nodes" /\ part[n].pc = "pods"
               /\ \/ /\ LET pods == In(n, OfKind("pod", live)) services == part[n].services
                        IN  found' = [found EXCEPT !.kube = @ \union {ServiceNode(s, services, pods) : s \in services}]
                     /\ part' = [part EXCEPT ![n].pc = "done"]
                     /\ Ok
                  \/ part' = [part EXCEPT ![n].pc = "failed"] /\ Fail("nodes") /\ UNCHANGED found
               /\ UNCHANGED <<pc, topology, rows, refreshes, cluster>>

\* One namespace that failed makes the backend fail: its nodes are dropped and
\* its edges are not asked for.
EndNodes == /\ pc = "nodes" /\ \A n \in Namespaces : part[n].pc \in {"done", "failed"}
            /\ IF \E n \in Namespaces : part[n].pc = "failed"
               THEN pc' = "up" /\ found' = [found EXCEPT !.kube = {}] /\ UNCHANGED part
               ELSE pc' = "edges" /\ part' = Waiting("pods") /\ UNCHANGED found
            /\ UNCHANGED <<topology, rows, failed, refreshes, cluster>>

\* For the edges, pods are listed first; a failure leaves the namespace without edges.
ListCallers(n) == /\ pc = "edges" /\ part[n].pc = "pods"
                  /\ \/ part' = [part EXCEPT ![n].pods = In(n, OfKind("pod", live)), ![n].pc = "services"] /\ Ok
                     \/ part' = [part EXCEPT ![n].pc = "done"] /\ Fail("edges")
                  /\ UNCHANGED <<pc, found, topology, rows, refreshes, cluster>>

ListCallees(n) == /\ pc = "edges" /\ part[n].pc = "services"
                  /\ part' = [part EXCEPT ![n].pc = "done"]
                  /\ \/ \E maps \in BOOLEAN :
                           /\ found' = [found EXCEPT !.edges = @ \union
                                            EnvEdges(In(n, OfKind("service", live)), part[n].pods, maps)]
                           /\ IF maps THEN Ok ELSE Fail("edges")
                     \/ Fail("edges") /\ UNCHANGED found
                  /\ UNCHANGED <<pc, topology, rows, refreshes, cluster>>

EndEdges == /\ pc = "edges" /\ \A n \in Namespaces : part[n].pc = "done"
            /\ pc' = "up"
            /\ UNCHANGED <<part, found, topology, rows, failed, refreshes, cluster>>

\* Without the services that are up, Prometheus is not asked for more.
QueryUp == /\ pc = "up"
           /\ LET series == OfKind("up", live)
              IN  \/ /\ found' = [found EXCEPT !.prom = {UpNode(k, series) : k \in {Key(u) : u \in series}}]
                     /\ pc' = "metrics" /\ Ok
                  \/ pc' = "rebuild" /\ Fail("up") /\ UNCHANGED found
           /\ UNCHANGED <<part, topology, rows, refreshes, cluster>>

\* A query of metrics that fails leaves its service without them, and is no error.
FetchMetrics == /\ pc = "metrics"
                /\ pc' = "http"
                /\ \E missing \in SUBSET NodeIds(found.prom) :
                      /\ Cardinality(missing) <= 1
                      /\ found' = [found EXCEPT !.prom = {[n EXCEPT !.rate = n.key \notin missing] : n \in @}]
                      /\ IF missing = {} THEN Ok ELSE Fail("metrics")
                /\ UNCHANGED <<part, topology, rows, refreshes, cluster>>

\* The queries for edges: when the first fails the others are not made.
QueryEdges(kind, edges, next, otherwise) ==
    /\ pc = kind
    /\ \/ /\ found' = [found EXCEPT !.edges = @ \union edges]
          /\ pc' = next /\ Ok
       \/ pc' = otherwise /\ Fail(kind) /\ UNCHANGED found
    /\ UNCHANGED <<part, topology, rows, refreshes, cluster>>

QueryHTTP == QueryEdges("http", {HTTPEdge(c) : c \in Counted("http")}, "grpc", "rebuild")
QueryGRPC == QueryEdges("grpc", {GRPCEdge(c) : c \in Counted("grpc")}, "db", "db")
QueryDatabase == QueryEdges("db", {DatabaseEdge(c) : c \in OfKind("db", live)}, "rebuild", "rebuild")

Rebuild == /\ pc = "rebuild"
           /\ topology' = [topology EXCEPT !.nodes = MergeNodes(found.kube, found.prom), !.edges = MergeEdges(found.edges)]
           /\ pc' = "save nodes"
           /\ UNCHANGED <<part, found, rows, failed, refreshes, cluster>>

SaveNodes == /\ pc = "save nodes"
             /\ pc' = "save edges"
             /\ \/ rows' = [rows EXCEPT !.nodes = Upsert(@, topology.nodes, "key")] /\ Ok
                \/ Fail("save nodes") /\ UNCHANGED rows
             /\ UNCHANGED <<part, found, topology, refreshes, cluster>>

\* The table has one row for two services that are joined (uk_source_target), and the
\* upsert is by id: PostgreSQL refuses one that has an edge of another id than the row.
InTheWay == \E e \in topology.edges, r \in rows.edges : Ends(e) = Ends(r) /\ e.id # r.id

SaveEdges == /\ pc = "save edges"
             /\ pc' = "idle"
             /\ \/ /\ rows' = IF InTheWay THEN rows ELSE [rows EXCEPT !.edges = Upsert(@, topology.edges, "id")]
                   /\ Ok
                \/ Fail("save edges") /\ UNCHANGED rows
             /\ UNCHANGED <<part, found, topology, refreshes, cluster>>

ListMachines == /\ pc = "machines"
                /\ \/ /\ found' = [found EXCEPT !.machines = {m \in OfKind("machine", live) : m.addresses > 0}]
                      /\ pc' = "pods" /\ Ok
                   \/ pc' = "traffic" /\ Fail("machines") /\ UNCHANGED found
                /\ UNCHANGED <<part, topology, rows, refreshes, cluster>>

\* A namespace whose pods cannot be listed is passed over.
ListNetworkPods(n) == /\ pc = "pods" /\ part[n].pc = "services"
                      /\ part' = [part EXCEPT ![n].pc = "done"]
                      /\ \/ /\ found' = [found EXCEPT !.network = @ \union
                                            {PodId(p) : p \in {p \in In(n, OfKind("pod", live)) : p.ip}}]
                            /\ Ok
                         \/ Fail("pods") /\ UNCHANGED found
                      /\ UNCHANGED <<pc, topology, rows, refreshes, cluster>>

EndNetworkPods == /\ pc = "pods" /\ \A n \in Namespaces : part[n].pc = "done"
                  /\ pc' = "traffic"
                  /\ UNCHANGED <<part, found, topology, rows, failed, refreshes, cluster>>

QueryTraffic == /\ pc = "traffic"
                /\ pc' = "rebuild network"
                /\ \/ /\ found' = [found EXCEPT !.network = @ \union {TrafficId(t) : t \in OfKind("traffic", live)}]
                      /\ Ok
                   \/ Fail("traffic") /\ UNCHANGED found
                /\ UNCHANGED <<part, topology, rows, refreshes, cluster>>

RebuildNetwork == /\ pc = "rebuild network"
                  /\ topology' = [topology EXCEPT !.network = found.network \union {MachineId(m) : m \in found.machines}]
                  /\ pc' = "save network"
                  /\ UNCHANGED <<part, found, rows, failed, refreshes, cluster>>

\* A node is listed once for each internal address.  PostgreSQL refuses an
\* upsert that has a row twice.
Twice == \E m \in found.machines : m.addresses > 1

SaveNetwork == /\ pc = "save network"
               /\ pc' = "idle"
               /\ \/ /\ rows' = IF Twice THEN rows ELSE [rows EXCEPT !.network = @ \union topology.network]
                     /\ Ok
                  \/ Fail("save network") /\ UNCHANGED rows
               /\ UNCHANGED <<part, found, topology, refreshes, cluster>>

Done == pc = "idle" /\ refreshes = MaxRuns /\ UNCHANGED discoveryVars

DiscoveryNext ==
    \/ \E o \in Objects : Change(o)
    \/ RefreshServices \/ RefreshNetwork
    \/ \E n \in Namespaces : ListServices(n) \/ ListPods(n) \/ ListCallers(n) \/ ListCallees(n) \/ ListNetworkPods(n)
    \/ EndNodes \/ EndEdges \/ QueryUp \/ FetchMetrics \/ QueryHTTP \/ QueryGRPC \/ QueryDatabase
    \/ Rebuild \/ SaveNodes \/ SaveEdges
    \/ ListMachines \/ EndNetworkPods \/ QueryTraffic \/ RebuildNetwork \/ SaveNetwork
    \/ Done

DiscoverySpec == DiscoveryInit /\ [][DiscoveryNext]_discoveryVars

-----------------------------------------------------------------------------
Stable == live \ touched
Rebuilt == pc = "save nodes"
Joined(from, to) == \E e \in topology.edges : Ends(e) = <<from, to>>

\* The call stays in its namespace, and is made by the name of the service it is made to:
\* the host by its first label, the gRPC service by its last part.
ByName(c) == /\ c.to[1] = c.ns /\ c.to[2] # 0
             /\ c.kind = "http" => Head(c.host) = c.to[2]
             /\ c.kind = "grpc" => c.service[Len(c.service)] = c.to[2]

(***************************************************************************)
(* What was there through the whole refresh is in the graph, unless a call *)
(* that asks for it failed: services, what they name in the environment of *)
(* their pods, and the calls that Prometheus has counted, which are        *)
(* direct and lead to the service called if that was called by its name.   *)
(* (DiscoverNodes, DiscoverEdges, the merge.)                              *)
(***************************************************************************)
NothingLost ==
    Rebuilt => \A o \in Stable :
        /\ (o.kind = "service" /\ "nodes" \notin failed) \/ (o.kind = "up" /\ "up" \notin failed)
              => \E n \in topology.nodes : n.key = Key(o) /\ (o.kind = "up" /\ "metrics" \notin failed => n.rate)
        /\ \/ o.kind = "http" /\ failed \intersect {"up", "http"} = {} /\ ByName(o)
           \/ o.kind = "grpc" /\ failed \intersect {"up", "http", "grpc"} = {} /\ ByName(o)
              => \E e \in topology.edges : Ends(e) = <<Key(o), o.to>> /\ e.direct
        /\ o.kind = "pod" /\ failed \intersect {"nodes", "edges"} = {} /\ In(o.ns, OfKind("service", touched)) = {}
              => LET services == In(o.ns, OfKind("service", live))
                 IN  \A s \in ServiceOf(o, services), t \in services :
                        t.name \in o.env \union o.maps /\ s # t => Joined(Key(s), Key(t))

(***************************************************************************)
(* A service that Kubernetes knows has the status of the pods that count   *)
(* for it: those with a service account and a ReplicaSet or Deployment as  *)
(* their owner, which no service listed before it claims.  It is healthy   *)
(* if all of them that were there through the refresh were ready and none  *)
(* came or went, and is not while one of them was not ready, whatever      *)
(* Prometheus says.  (discoverServicesInNamespace lists services and pods  *)
(* by two calls.  Its comment, kubernetes/backend.go:136-140, speaks of    *)
(* all pods: those of a StatefulSet or a DaemonSet do not count.)          *)
(***************************************************************************)
StatusIsOfPods ==
    Rebuilt /\ "nodes" \notin failed =>
        \A n \in topology.nodes, s \in OfKind("service", Stable) :
            n.key = Key(s) /\ In(s.ns, OfKind("service", touched)) = {} =>
                LET services == In(s.ns, OfKind("service", live))
                    counted == {p \in In(s.ns, OfKind("pod", Stable)) :
                                   p.account /\ p.owners > 0 /\ s \in ServiceOf(p, services)}
                IN  /\ (\E p \in counted : ~Ready(p)) => n.status \in {"warning", "unhealthy"}
                    /\ counted # {} /\ (\A p \in counted : Ready(p)) /\ In(s.ns, OfKind("pod", touched)) = {}
                          => n.status = "healthy"

(***************************************************************************)
(* An edge that is called direct goes back to a call of its source, of its *)
(* type if it was not found in the environment of a pod too; it leads to   *)
(* the service that was called, if that was called by its name, and else   *)
(* to what has that name in the namespace of the caller; its confidence is *)
(* that of a measured call.  The ends of an edge found in the environment  *)
(* of pods are nodes, unless a service came or went between the listing of *)
(* nodes and that of edges.                                                *)
(***************************************************************************)
EdgesAreCalls ==
    Rebuilt => \A e \in topology.edges :
        /\ e.direct = (e.confidence >= 90)
        /\ e.direct => \E c \in live \union touched :
                          \/ /\ c.kind = "db" /\ e.type = "database"
                             /\ e.id[1] = Key(c) /\ e.id[2] = <<c.to>>
                          \/ /\ c.kind \in {"http", "grpc"} /\ e.type \in {c.kind, "indirect"}
                             /\ e.id[1] = Key(c) /\ e.id[2] = Callee(c)
                             /\ ByName(c) => e.id[2] = c.to
        /\ e.type = "indirect" => \A i \in 1..2 : \/ e.id[i] \in NodeIds(topology.nodes)
                                               \/ \E s \in OfKind("service", touched) : Key(s) = e.id[i]

(***************************************************************************)
(* What a refresh builds is the cluster as it was in the course of it.     *)
(* (RefreshServiceTopology, and the backends it asks.)                     *)
(***************************************************************************)
GraphIsOfCluster == StatusIsOfPods /\ EdgesAreCalls

(***************************************************************************)
(* After a refresh the tables have what the graph has, unless a save       *)
(* failed, a node has several internal addresses, or a row is in the way   *)
(* that was saved when the same two services were joined under another     *)
(* id: one of the two was found by gRPC.  Rows are never removed, and no   *)
(* two join the same services.  (BatchSaveServiceNodes,                    *)
(* BatchSaveCallEdges, BatchSaveNetworkNodes.)                             *)
(***************************************************************************)
RowsFollowGraph ==
    /\ pc = "idle" =>
          /\ "save nodes" \notin failed => topology.nodes \subseteq rows.nodes
          /\ "save edges" \notin failed =>
                \/ topology.edges \subseteq rows.edges
                \/ \E e \in topology.edges, r \in rows.edges :
                      Ends(e) = Ends(r) /\ e.id[3] # r.id[3] /\ "grpc" \in {e.id[3], r.id[3]}
          /\ "save network" \notin failed =>
                \/ topology.network \subseteq rows.network
                \/ \E m \in OfKind("machine", Objects) : MachineId(m) \in topology.network /\ m.addresses > 1
    /\ \A x, y \in rows.edges : Ends(x) = Ends(y) => x = y
=============================================================================
