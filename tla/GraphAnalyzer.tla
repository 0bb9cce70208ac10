--------------------------- MODULE GraphAnalyzer ---------------------------
(***************************************************************************)
(* The queries on the graph of services: internal/topology/application/    *)
(* graph_analyzer.go, and the traversals of topology_service.go.           *)
(*                                                                         *)
(* The code goes through nodes and edges in the order of a map or in that  *)
(* in which they were discovered.  Here it is always that of the numbers   *)
(* of the nodes: since every graph on the numbers is an initial state, so  *)
(* is every order on every graph.  A service is only its node; at most one *)
(* edge leads from one to another.                                         *)
(***************************************************************************)
EXTENDS Naturals, FiniteSets, SequencesExt

CONSTANTS N,         \* number of services
          Loops,     \* bound: the services that may call themselves
          MaxEdges,  \* bound: edges of the graph
          Weights,   \* bound: weights of an edge
          Important, \* services of a higher weight
          Conditions,\* bound: the status and the traffic of the service that stands out
          MaxPaths   \* bound: paths asked of FindKShortestPaths

ASSUME GraphAssumption == /\ N \in Nat
                          /\ Loops \subseteq 1 .. N
                          /\ MaxEdges \in Nat
                          /\ Weights \subseteq Nat \ {0}
                          /\ Important \subseteq 1 .. N
                          /\ Conditions \subseteq [status : {"unhealthy", "warning", "healthy"}, rate : Nat]
                          /\ MaxPaths \in Nat

VARIABLES edges,   \* the graph
          query,   \* the call that was made of it
          answer   \* what it returned

vars == <<edges, query, answer>>

Nodes == 1 .. N

\* g.nodes and g.adjList.
Order == [i \in Nodes |-> i]
Downstream(E, n) == SelectSeq(Order, LAMBDA m : <<n, m>> \in E)

\* g.reverseAdj: the edges the other way.
Reversed(E) == {<<e[2], e[1]>> : e \in E}

None == <<>>

Edges == {e \in Nodes \X Nodes : e[1] = e[2] => e[1] \in Loops}

Init == /\ edges \in UNION {kSubset(k, Edges) : k \in 0 .. MaxEdges}
        /\ query = None
        /\ answer = None

-----------------------------------------------------------------------------
\* Breadth first search with a limit: a function from the nodes found to their depth.
RECURSIVE Bfs(_, _, _, _)
Bfs(E, queue, maxDepth, visited) ==
    IF queue = <<>> THEN visited
    ELSE LET current == Head(queue)
             seen == visited @@ (current.id :> current.depth)
             found == SelectSeq(Downstream(E, current.id), LAMBDA m : m \notin DOMAIN seen)
             enqueued == [i \in DOMAIN found |-> [id |-> found[i], depth |-> current.depth + 1]]
         IN  IF current.depth > maxDepth \/ current.id \in DOMAIN visited
             THEN Bfs(E, Tail(queue), maxDepth, visited)
             ELSE Bfs(E, Tail(queue) \o enqueued, maxDepth, seen)

\* The limit is checked one level early.
ImpactOneShort(E, s, maxDepth) ==
    LET visited == Bfs(E, <<[id |-> s, depth |-> 0]>>, maxDepth - 1, <<>>)
    IN  [n \in DOMAIN visited \ {s} |-> visited[n]]

\* The services an impact reaches, with their depth: the root is left out.
Impact(E, s, maxDepth) ==
    LET visited == Bfs(E, <<[id |-> s, depth |-> 0]>>, maxDepth, <<>>)
    IN  [n \in DOMAIN visited \ {s} |-> visited[n]]

AnalyzeImpact(s, maxDepth) ==
    /\ query' = [op |-> "impact", s |-> s, depth |-> maxDepth]
    /\ answer' = [up |-> Impact(Reversed(edges), s, maxDepth), down |-> Impact(edges, s, maxDepth)]

\* The services of an impact, in the order of the nodes.
Listed(impact) == SelectSeq(Order, LAMBDA n : n \in DOMAIN impact)

\* A service on both sides is listed once for each.  The depth reported is that of the
\* service listed last, whichever that is.
AnalyzeImpactWeighted(s, maxDepth) ==
    LET up == Impact(Reversed(edges), s, maxDepth)
        down == Impact(edges, s, maxDepth)
        reported(impact) == IF impact = None THEN 0 ELSE impact[Last(Listed(impact))]
    IN  /\ query' = [op |-> "impactWeighted", s |-> s, depth |-> maxDepth]
        /\ answer' = [up |-> up, down |-> down,
                      critical |-> SelectSeq(Listed(up) \o Listed(down), LAMBDA n : n \in Important),
                      depth |-> [up |-> reported(up), down |-> reported(down)]]

-----------------------------------------------------------------------------
\* Depth first search for the paths of at most maxHops hops.
RECURSIVE Paths(_, _, _, _, _)
Paths(E, current, target, maxHops, path) ==
    LET next == Downstream(E, current)
        extended == Append(path, current)
    IN  CASE Len(path) > maxHops \/ Contains(path, current) -> <<>>
          [] current = target -> <<extended>>
          [] OTHER -> FlattenSeq([i \in DOMAIN next |-> Paths(E, next[i], target, maxHops, extended)])

\* The limit is on the nodes of a path, not on its hops.
FindPathOfNodes(s, t, maxHops) ==
    /\ query' = [op |-> "paths", s |-> s, t |-> t, hops |-> maxHops]
    /\ answer' = Paths(edges, s, t, maxHops - 1, <<>>)

\* An empty answer is ErrPathNotFound.
FindPath(s, t, maxHops) ==
    /\ query' = [op |-> "paths", s |-> s, t |-> t, hops |-> maxHops]
    /\ answer' = Paths(edges, s, t, maxHops, <<>>)

-----------------------------------------------------------------------------
\* Breadth first search for one target: the node each node found was found from.
RECURSIVE Parents(_, _, _, _)
Parents(E, target, queue, parent) ==
    IF queue = <<>> \/ Head(queue) = target THEN parent
    ELSE LET current == Head(queue)
             found == SelectSeq(Downstream(E, current), LAMBDA m : m \notin DOMAIN parent)
         IN  Parents(E, target, Tail(queue) \o found,
                     parent @@ [m \in ToSet(found) |-> current])

\* The way back from n along the parents.
RECURSIVE Back(_, _, _)
Back(parent, s, n) == IF n = s THEN <<s>> ELSE Append(Back(parent, s, parent[n]), n)

ShortestPath(E, s, t) ==
    LET parent == Parents(E, t, <<s>>, s :> s)
    IN  IF t \in DOMAIN parent THEN Back(parent, s, t) ELSE None

FindShortestPath(s, t) ==
    /\ query' = [op |-> "shortest", s |-> s, t |-> t]
    /\ answer' = ShortestPath(edges, s, t)

-----------------------------------------------------------------------------
\* One node of the search for cycles: st holds the nodes visited and the cycles found, path
\* the nodes on the recursion stack.
RECURSIVE VisitCycle(_, _, _, _)
VisitCycle(E, current, path, st) ==
    LET extended == Append(path, current)
        entered == [st EXCEPT !.visited = @ \union {current}]
        start(m) == CHOOSE i \in DOMAIN extended : extended[i] = m
        step(acc, m) ==
            CASE m \notin acc.visited -> VisitCycle(E, m, extended, acc)
              [] Contains(extended, m) ->
                   [acc EXCEPT !.cycles = Append(@, SubSeq(extended, start(m), Len(extended)))]
              [] OTHER -> acc
    IN  FoldLeft(step, entered, Downstream(E, current))

DetectCycles(E) ==
    FoldLeft(LAMBDA st, n : IF n \in st.visited THEN st ELSE VisitCycle(E, n, <<>>, st),
             [visited |-> {}, cycles |-> <<>>], Order).cycles

\* Cycles through the first node only.
DetectCyclesOfFirst(E) == VisitCycle(E, 1, <<>>, [visited |-> {}, cycles |-> <<>>]).cycles

Orphans(E) == {n \in Nodes : Downstream(E, n) = <<>> /\ Downstream(Reversed(E), n) = <<>>}

\* What FindAnomalies finds in the graph itself; the anomalies of a single service, its
\* status, its rates and its pods, are left out.
FindAnomaliesOfFirst ==
    /\ query' = [op |-> "anomalies"]
    /\ answer' = [cycles |-> DetectCyclesOfFirst(edges), orphans |-> Orphans(edges)]

FindAnomalies ==
    /\ query' = [op |-> "anomalies"]
    /\ answer' = [cycles |-> DetectCycles(edges), orphans |-> Orphans(edges)]

-----------------------------------------------------------------------------
\* The nodes reached from those of the queue, in the order they are found.
RECURSIVE Component(_, _, _)
Component(E, queue, component) ==
    CASE queue = <<>> -> component
      [] queue # <<>> /\ Contains(component, Head(queue)) -> Component(E, Tail(queue), component)
      [] OTHER -> LET new(m) == ~Contains(Append(component, Head(queue)), m)
                  IN  Component(E, Tail(queue) \o SelectSeq(Downstream(E, Head(queue)), new),
                                Append(component, Head(queue)))

\* Neighbours are those a service calls and those it is called by.
Cluster(n) == Component(edges \union Reversed(edges), <<n>>, <<>>)

\* A cluster is found from the first of its nodes, the others are visited by then.
FindClusters ==
    LET add(found, n) == IF \E c \in ToSet(found) : Contains(c, n) THEN found
                         ELSE Append(found, Cluster(n))
    IN  /\ query' = [op |-> "clusters"]
        /\ answer' = SelectSeq(FoldLeft(add, <<>>, Order), LAMBDA c : Len(c) > 1)

-----------------------------------------------------------------------------
\* Best first search (Dijkstra, A*) for the cheapest path: open is the priority queue of
\* paths and their costs, dist the least cost known of each node.  A path of equal cost may
\* come first in the code.
RECURSIVE BestFirst(_, _, _, _, _, _)
BestFirst(w, t, h, open, dist, closed) ==
    IF open = {} THEN None
    ELSE LET current == CHOOSE p \in open : \A q \in open : p.cost =< q.cost
             n == Last(current.nodes)
             cost(m) == dist[n] + w[<<n, m>>]
             better == {m \in Nodes : <<n, m>> \in DOMAIN w /\ cost(m) < dist[m]}
             extended == {[nodes |-> Append(current.nodes, m), cost |-> cost(m) + h] : m \in better}
         IN  CASE n \in closed -> BestFirst(w, t, h, open \ {current}, dist, closed)
               [] n = t -> current.nodes
               [] OTHER -> BestFirst(w, t, h, (open \ {current}) \union extended,
                                     [m \in Nodes |-> IF m \in better THEN cost(m) ELSE dist[m]],
                                     closed \union {n})

Infinity == MapThenSumSet(LAMBDA w : N * w, Weights) + 1

Cheapest(w, s, t, h) ==
    BestFirst(w, t, h, {[nodes |-> <<s>>, cost |-> h]},
              [n \in Nodes |-> IF n = s THEN 0 ELSE Infinity], {})

FindShortestPathWeighted(s, t, w) ==
    /\ query' = [op |-> "weighted", s |-> s, t |-> t, w |-> w]
    /\ answer' = Cheapest(w, s, t, 0)

\* The default heuristic is the same for every node: the least weight, but at most 1, and
\* the weights here are naturals.
DefaultHeuristic == 1

FindShortestPathAStar(s, t, w) ==
    /\ query' = [op |-> "weighted", s |-> s, t |-> t, w |-> w]
    /\ answer' = Cheapest(w, s, t, DefaultHeuristic)

-----------------------------------------------------------------------------
PathWeight(w, p) == FoldLeft(LAMBDA sum, i : sum + w[<<p[i], p[i + 1]>>], 0, [i \in 1 .. Len(p) - 1 |-> i])

\* The spur path avoids the edges that continue root in a path found, and the nodes of root
\* before its last.  It has the least hops, whatever the weights.
SpurPath(E, root, removed, t) ==
    ShortestPath({e \in E \ removed : e[2] \notin ToSet(Front(root))}, Last(root), t)

\* The candidates that deviate from the path found last: the paths found so far, of which
\* it is the last, are compared with a candidate, the other candidates are not.
Candidates(w, found, t) ==
    LET prev == Last(found)
        spur(i) ==
            LET root == SubSeq(prev, 1, i)
                shared == {p \in ToSet(found) : IsPrefix(root, p)}
                path == SpurPath(DOMAIN w, root, {<<p[i], p[i + 1]>> : p \in shared}, t)
                full == root \o Tail(path)
            IN  IF path = None \/ Contains(found, full) THEN <<>> ELSE <<full>>
    IN  FlattenSeq([i \in 1 .. Len(prev) - 1 |-> spur(i)])

RECURSIVE Yen(_, _, _, _, _)
Yen(w, t, k, found, candidates) ==
    LET all == candidates \o Candidates(w, found, t)
        best == CHOOSE i \in DOMAIN all :
                    \A j \in DOMAIN all : PathWeight(w, all[i]) =< PathWeight(w, all[j])
    IN  IF Len(found) >= k \/ all = <<>> THEN found
        ELSE Yen(w, t, k, Append(found, all[best]), RemoveAt(all, best))

\* k = 1 returns the first path alone, as does k < 1.
FindKShortestPaths(s, t, k, w) ==
    LET first == Cheapest(w, s, t, 0)
    IN  /\ query' = [op |-> "kpaths", s |-> s, t |-> t, k |-> k, w |-> w]
        /\ answer' = IF first = None THEN <<>> ELSE Yen(w, t, k, <<first>>, <<>>)

-----------------------------------------------------------------------------
\* A service without a condition of its own is healthy and has little traffic.
Plain == [status |-> "healthy", rate |-> 0]
ConditionOf(n, outstanding) == IF n \in DOMAIN outstanding THEN outstanding[n] ELSE Plain

\* What the impact of a service is multiplied by for its status and for its traffic, in
\* halves and in tenths.
Multiplier(c) == (CASE c.status = "unhealthy" -> 4 [] c.status = "warning" -> 3 [] OTHER -> 2)
                 * (CASE c.rate > 1000 -> 15 [] c.rate > 100 -> 12 [] OTHER -> 10)

\* The impact is Multiplier / depth.
Graver(x, y) == x.multiplier * y.depth > y.multiplier * x.depth

\* Mutant of ByImpact: the nearest come first, whatever their condition.
ByDistance(s, maxDepth, outstanding) ==
    LET up == Impact(Reversed(edges), s, maxDepth)
        down == Impact(edges, s, maxDepth)
        at(impact, d) == {n \in ToSet(Listed(impact)) : impact[n] = d}
    IN  FlattenSeq([d \in 1 .. maxDepth |-> SetToSeq({[id |-> n] : n \in at(up, d) \union at(down, d)})])

\* Upstream services, then downstream ones, sorted by their impact: of equals the first
\* stays first.
ByImpact(s, maxDepth, outstanding) ==
    LET impacted(side) == LET impact == Impact(side, s, maxDepth) listed == Listed(impact)
                          IN  [i \in DOMAIN listed |->
                                  [id |-> listed[i], depth |-> impact[listed[i]],
                                   multiplier |-> Multiplier(ConditionOf(listed[i], outstanding))]]
        insert(sorted, x) == SelectSeq(sorted, LAMBDA y : ~ Graver(x, y)) \o <<x>>
                                 \o SelectSeq(sorted, LAMBDA y : Graver(x, y))
    IN  FoldLeft(insert, <<>>, impacted(Reversed(edges)) \o impacted(edges))

Score(p) == Len(p) + Cardinality(ToSet(p) \intersect Important)

\* The best of the paths to the first service that has any.
FindCriticalPath(s, maxDepth, outstanding) ==
    LET found == SelectSeq(ByImpact(s, maxDepth, outstanding), LAMBDA x : Paths(edges, s, x.id, maxDepth, None) # None)
        better(best, p) == IF best = None \/ Score(p) > Score(best) THEN p ELSE best
    IN  /\ query' = [op |-> "critical", s |-> s, depth |-> maxDepth, outstanding |-> outstanding]
        /\ answer' = IF found = None THEN None
                     ELSE FoldLeft(better, None, Paths(edges, s, Head(found).id, maxDepth, None))

-----------------------------------------------------------------------------
\* The limits that CalculateCentralityDetailed and calculateBetweennessCentrality set.
ClosenessDepth == 10
BetweennessHops == 5

\* Of each pair of nodes the paths one way only, from the node that comes first, and a path
\* is also through its ends.
Betweenness(n) ==
    LET pairs == SetToSeq({e \in Nodes \X Nodes : e[1] < e[2]})
        paths == FlattenSeq([i \in DOMAIN pairs |->
                                Paths(edges, pairs[i][1], pairs[i][2], BetweennessHops, None)])
    IN  [through |-> Len(SelectSeq(paths, LAMBDA p : Contains(p, n))), total |-> Len(paths)]

CalculateCentrality ==
    /\ query' = [op |-> "betweenness"]
    /\ answer' = [n \in Nodes |-> Betweenness(n)]

\* The closeness is reachable / distance; the weight of the service is left out.
CalculateCentralityDetailed(n) ==
    LET visited == Impact(edges, n, ClosenessDepth)
    IN  /\ query' = [op |-> "centrality", s |-> n]
        /\ answer' = [degree |-> Len(Downstream(Reversed(edges), n)) + Len(Downstream(edges, n)),
                      reachable |-> Cardinality(DOMAIN visited),
                      distance |-> FoldLeft(LAMBDA sum, m : sum + visited[m], 0, Listed(visited)),
                      betweenness |-> Betweenness(n)]

-----------------------------------------------------------------------------
\* TopologyService.traverseDownstream, and traverseUpstream on the reversed graph: depth
\* first, and a node is left out when it was visited, with whatever depth was left then.
RECURSIVE Traverse(_, _, _, _)
Traverse(E, n, depth, st) ==
    IF depth = 0 \/ n \in st.visited THEN st
    ELSE FoldLeft(LAMBDA acc, m : Traverse(E, m, depth - 1, [acc EXCEPT !.nodes = Append(@, m)]),
                  [st EXCEPT !.visited = @ \union {n}],
                  Downstream(E, n))

\* The limit is checked one level late.
TraverseTooDeep(E, n, depth) == Traverse(E, n, depth + 1, [visited |-> {}, nodes |-> <<>>]).nodes

TraverseFrom(E, n, depth) == Traverse(E, n, depth, [visited |-> {}, nodes |-> <<>>]).nodes

GetUpstreamServices(s, depth) ==
    /\ query' = [op |-> "upstream", s |-> s, depth |-> depth]
    /\ answer' = TraverseFrom(Reversed(edges), s, depth)

GetDownstreamServices(s, depth) ==
    /\ query' = [op |-> "downstream", s |-> s, depth |-> depth]
    /\ answer' = TraverseFrom(edges, s, depth)

-----------------------------------------------------------------------------
\* The paths for a smaller k are the first of those for MaxPaths.
Weighted(s, t) ==
    \E w \in [edges -> Weights] :
        \/ FindShortestPathWeighted(s, t, w)
        \/ FindShortestPathAStar(s, t, w)
        \/ FindKShortestPaths(s, t, MaxPaths, w)

Next == /\ query = None
        /\ UNCHANGED edges
        /\ \/ \E s \in Nodes, d \in 1 .. N :
                 AnalyzeImpact(s, d) \/ GetUpstreamServices(s, d) \/ GetDownstreamServices(s, d)
           \/ \E s, t \in Nodes : FindShortestPath(s, t) \/ Weighted(s, t)
           \/ \E s, t \in Nodes, h \in 1 .. N : FindPath(s, t, h)
           \/ \E s \in Nodes, d \in 1 .. N : AnalyzeImpactWeighted(s, d)
           \/ \E s \in Nodes, d \in 1 .. N - 1 :
                 \E outstanding \in {None} \union {n :> c : n \in Nodes, c \in Conditions} :
                     FindCriticalPath(s, d, outstanding)
           \/ \E s \in Nodes : CalculateCentralityDetailed(s)
           \/ CalculateCentrality
           \/ FindAnomalies
           \/ FindClusters

Spec == Init /\ [][Next]_vars

-----------------------------------------------------------------------------
\* Reference definitions.

\* All sequences of nodes without repetition, and the simple paths from s to t among them.
Arrangements == {SubSeq(p, 1, n) : p \in SetToSeqs(Nodes), n \in Nodes}

SimplePaths(s, t) ==
    {p \in Arrangements : /\ p[1] = s
                          /\ Last(p) = t
                          /\ \A i \in 1 .. Len(p) - 1 : <<p[i], p[i + 1]>> \in edges}

\* The nodes at most d hops away from s.
RECURSIVE Within(_, _, _)
Within(E, s, d) ==
    IF d = 0 THEN {s}
    ELSE LET near == Within(E, s, d - 1) IN near \union {n \in Nodes : \E m \in near : <<m, n>> \in E}

Asked(op) == query # None /\ query.op = op

IsImpact(E, s, depth, impact) ==
    /\ DOMAIN impact = Within(E, s, depth) \ {s}
    /\ \A n \in DOMAIN impact : n \in Within(E, s, impact[n]) \ Within(E, s, impact[n] - 1)

Cost(p) == PathWeight(query.w, p)

-----------------------------------------------------------------------------
\* An impact lists exactly the services within the depth asked for, each with its distance,
\* although nodes are put on the queue several times and marked only when they leave it
\* (graph_analyzer.go:63-103, 118-147).
PlainIsDistance ==
    Asked("impact") =>
        /\ IsImpact(edges, query.s, query.depth, answer.down)
        /\ IsImpact(Reversed(edges), query.s, query.depth, answer.up)

\* So does a weighted impact; what it calls critical are the important services, once for
\* each side, and it reports depths at which there are services (graph_analyzer.go:697-783).
WeightedIsDistance ==
    Asked("impactWeighted") =>
        /\ IsImpact(edges, query.s, query.depth, answer.down)
        /\ IsImpact(Reversed(edges), query.s, query.depth, answer.up)
        /\ \A n \in Nodes :
               Cardinality({i \in DOMAIN answer.critical : answer.critical[i] = n})
                   = IF n \in Important
                     THEN Cardinality({side \in {"up", "down"} : n \in DOMAIN answer[side]}) ELSE 0
        /\ \A side \in {"up", "down"} :
               answer.depth[side] \in {0} \union {answer[side][n] : n \in DOMAIN answer[side]}

\* Closeness is the number of services that can be reached over the sum of their distances
\* (graph_analyzer.go:901-918).
ClosenessIsDistance ==
    Asked("centrality") =>
        LET farther(d) == Within(edges, query.s, N) \ Within(edges, query.s, d)
        IN  /\ answer.reachable = Cardinality(farther(0))
            /\ answer.distance = MapThenSumSet(LAMBDA d : Cardinality(farther(d)), 0 .. N)

\* All that is found by breadth is found at its distance.
ImpactIsDistance == PlainIsDistance /\ WeightedIsDistance /\ ClosenessIsDistance

\* FindPath finds every simple path of at most maxHops hops, once: backing out of a node
\* frees it for other paths (graph_analyzer.go:205-255).
PathsAreAllSimple ==
    Asked("paths") =>
        /\ ToSet(answer) = {p \in SimplePaths(query.s, query.t) : Len(p) =< query.hops + 1}
        /\ IsInjective(answer)

\* FindShortestPath returns a path of the fewest hops, and none only if there is none, and the
\* way back along the parents ends (graph_analyzer.go:269-310; "使用 BFS 算法保证找到跳数最少的路径",
\* topology_service.go:445).
ShortestIsShortest ==
    Asked("shortest") =>
        LET paths == SimplePaths(query.s, query.t)
        IN  IF paths = {} THEN answer = None
            ELSE answer \in paths /\ \A p \in paths : Len(answer) =< Len(p)

\* Dijkstra's search and A* with the default heuristic return a path of the least weight,
\* although old entries stay in the priority queue (graph_analyzer.go:651-682, 1072-1103).
CheapestIsCheapest ==
    Asked("weighted") =>
        LET paths == SimplePaths(query.s, query.t)
        IN  IF paths = {} THEN answer = None
            ELSE answer \in paths /\ \A p \in paths : Cost(answer) =< Cost(p)

\* The cycles reported are cycles, and some is if there is one at all, wherever the search
\* starts and whatever it visited before (graph_analyzer.go:432-479).
CyclesAreReported ==
    Asked("anomalies") =>
        /\ \A c \in ToSet(answer.cycles) :
               /\ IsInjective(c)
               /\ \A i \in DOMAIN c : <<c[i], IF i = Len(c) THEN c[1] ELSE c[i + 1]>> \in edges
        /\ answer.cycles = <<>> <=> \A e \in edges : e[1] \notin Within(edges, e[2], N)

\* Clusters are the connected components of two services and more, each once
\* (graph_analyzer.go:542-591).
ClustersAreComponents ==
    Asked("clusters") =>
        LET component(n) == Within(edges \union Reversed(edges), n, N)
        IN  /\ {ToSet(c) : c \in ToSet(answer)} = {component(n) : n \in {m \in Nodes : component(m) # {m}}}
            /\ \A i, j \in DOMAIN answer : i # j => ToSet(answer[i]) \intersect ToSet(answer[j]) = {}

\* The paths returned are simple paths from source to target, the first of them of the least
\* weight, and there are fewer than k only if every path is among them, although the search
\* goes on from a path found twice, and a path waits twice among the candidates when two
\* paths found deviate into it (graph_analyzer.go:802-880).  They need not be the k lightest,
\* nor k different ones.
KPathsAreSimple ==
    Asked("kpaths") =>
        LET paths == SimplePaths(query.s, query.t)
        IN  /\ ToSet(answer) \subseteq paths
            /\ answer # <<>> => \A p \in paths : Cost(answer[1]) =< Cost(p)
            /\ Len(answer) =< query.k
            /\ Len(answer) < query.k => paths \subseteq ToSet(answer)

\* The critical path leads to the service that an impact on its neighbours, upstream or
\* downstream, hits hardest of those that can be reached: near by, ill, and with much
\* traffic; and its weight is the greatest of the paths there.  There is one if any service
\* can be reached (graph_analyzer.go:149-172, 945-976).
CriticalPathIsBest ==
    Asked("critical") =>
        LET reached == Within(edges, query.s, query.depth) \ {query.s}
            away(n) == CHOOSE d \in 1 .. N : \A e \in 1 .. N :
                           (n \in Within(edges, query.s, e) \union Within(Reversed(edges), query.s, e)) <=> e >= d
            impact(n) == [depth |-> away(n), multiplier |-> Multiplier(ConditionOf(n, query.outstanding))]
            paths == {p \in SimplePaths(query.s, Last(answer)) : Len(p) =< query.depth + 1}
        IN  IF reached = {} THEN answer = None
            ELSE /\ answer \in paths
                 /\ \A p \in paths : Score(p) =< Score(answer)
                 /\ \A n \in reached : ~ Graver(impact(n), impact(Last(answer)))

\* No path is counted more often through a node than there are paths, a path is counted
\* through each of its nodes, and through a node without calls there is none
\* (graph_analyzer.go:511-540).
BetweennessIsOfPaths ==
    Asked("betweenness") =>
        LET paths == UNION {SimplePaths(e[1], e[2]) : e \in {f \in Nodes \X Nodes : f[1] < f[2]}}
        IN  /\ \A n \in Nodes : answer[n].total = Cardinality(paths)
            /\ MapThenSumSet(LAMBDA n : answer[n].through, Nodes) = MapThenSumSet(LAMBDA p : Len(p), paths)
            /\ \A n \in Orphans(edges) : answer[n].through = 0

\* Every search for paths finds the paths it is meant to (graph_analyzer.go:174-321, 511-540,
\* 637-685, 789-880, 935-980, 1047-1106).
PathsAreFound ==
    /\ PathsAreAllSimple
    /\ ShortestIsShortest
    /\ CheapestIsCheapest
    /\ KPathsAreSimple
    /\ CriticalPathIsBest
    /\ BetweennessIsOfPaths

\* The searches of the whole graph miss no part of it, wherever they start
\* (graph_analyzer.go:432-479, 542-591).
StructureIsFound == CyclesAreReported /\ ClustersAreComponents

Traversed(E) == /\ ToSet(answer) \subseteq UNION {Within(E, m, query.depth - 1) : m \in ToSet(Downstream(E, query.s))}
                /\ query.depth >= N => Within(E, query.s, N) \ {query.s} \subseteq ToSet(answer)

\* A traversal goes no deeper than asked for, and one whose depth is no limit on this graph
\* finds every service that can be reached (topology_service.go:816-851); one that is
\* limited may miss some, see TraversalIsComplete.
TraversalIsSound == /\ Asked("upstream") => Traversed(Reversed(edges))
                    /\ Asked("downstream") => Traversed(edges)

\* What is asked for within a depth is found within it, by breadth at its distance, by depth
\* as far as the traversals do find it (graph_analyzer.go:63-147, topology_service.go:816-851).
ReachIsFound == ImpactIsDistance /\ TraversalIsSound

\* What the traversals are documented to return: every service within the depth asked for
\* ("返回指定深度内的所有上游服务", topology_service.go:461, and :488).  A service that was visited
\* with less depth left is not visited again (:817, :837), and what is behind it is missed.
TraversalIsComplete ==
    /\ Asked("upstream") => Within(Reversed(edges), query.s, query.depth) \ {query.s} \subseteq ToSet(answer)
    /\ Asked("downstream") => Within(edges, query.s, query.depth) \ {query.s} \subseteq ToSet(answer)
=============================================================================
