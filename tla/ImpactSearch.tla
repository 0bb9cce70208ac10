---------------------------- MODULE ImpactSearch ----------------------------
(***************************************************************************)
(* One call of AnalyzeImpact (internal/topology/application,               *)
(* graph_analyzer.go) on a graph that is rebuilt meanwhile.  The analyzer  *)
(* holds no lock: each read of the graph (a node, the neighbours of a      *)
(* node) has the graph's own for itself, and a refresh may put another     *)
(* graph there between any two of them.  Upstream services are searched    *)
(* for and listed first, then downstream ones.                             *)
(*                                                                         *)
(* Calls share nothing but the graph, so that one says all about many.     *)
(***************************************************************************)
EXTENDS Naturals, FiniteSets, Sequences

CONSTANTS Services,
          Graphs,       \* the nodes and edges that a refresh may find
          Root, Limit,  \* the service the call is about, and maxDepth
          MaxRebuilds,  \* bound: how often the graph is rebuilt
          MaxRepeats    \* bound: how many edges more than neighbours a service has

\* An edge may lead to, or come from, a service that is no node.
ASSUME SearchAssumption ==
    /\ IsFiniteSet(Services) /\ Root \in Services
    /\ Graphs \subseteq [nodes : SUBSET Services, edges : SUBSET (Services \X Services)]
    /\ Limit \in Nat /\ MaxRebuilds \in Nat /\ MaxRepeats \in Nat

VARIABLES inMemory,  \* the service graph: g.nodes, and g.adjList with g.reverseAdj
          rebuilds,
          stage,     \* of the call
          side,      \* the side of the service that it searches
          visited,   \* the depth of each service visited
          queue,     \* services to visit, with the depth they would have
          todo,      \* services visited but not yet looked up
          impact,    \* the result
          kept,      \* history: what was in the graph all the time of this side's search,
          met        \* and what was at some time

graphs == <<inMemory, rebuilds>>
times == <<kept, met>>
searchVars == <<inMemory, rebuilds, stage, side, visited, queue, todo, impact, kept, met>>

NoImpact == [listed |-> {}, depth |-> 0]

SearchInit == /\ inMemory \in Graphs
              /\ rebuilds = 0
              /\ stage = "root"
              /\ side = "up"
              /\ visited = <<>> /\ queue = <<>> /\ todo = {}
              /\ impact = [up |-> NoImpact, down |-> NoImpact]
              /\ kept = inMemory /\ met = inMemory

\* A refresh: maps of nodes and edges are made anew.
RebuildGraph ==
    /\ rebuilds < MaxRebuilds
    /\ rebuilds' = rebuilds + 1
    /\ inMemory' \in Graphs
    /\ kept' = [nodes |-> kept.nodes \intersect inMemory'.nodes, edges |-> kept.edges \intersect inMemory'.edges]
    /\ met' = [nodes |-> met.nodes \union inMemory'.nodes, edges |-> met.edges \union inMemory'.edges]
    /\ UNCHANGED <<stage, side, visited, queue, todo, impact>>

-----------------------------------------------------------------------------
\* Both sides are searched with one map of what was visited.
BeginSideOnSameMap(s) ==
    /\ stage' = "search"
    /\ side' = s
    /\ queue' = <<[id |-> Root, depth |-> 0]>>
    /\ kept' = inMemory /\ met' = inMemory
    /\ UNCHANGED <<graphs, visited, todo, impact>>

\* Each side is searched with a map of its own.
BeginSide(s) ==
    /\ stage' = "search"
    /\ side' = s
    /\ visited' = <<>>
    /\ queue' = <<[id |-> Root, depth |-> 0]>>
    /\ kept' = inMemory /\ met' = inMemory
    /\ UNCHANGED <<graphs, todo, impact>>

FindRoot == /\ stage = "root"
            /\ IF Root \in inMemory.nodes THEN BeginSide("up")
               ELSE stage' = "not found" /\ UNCHANGED <<graphs, side, visited, queue, todo, impact, times>>

\* The edges of E seen from side d: GetUpstreamIDs, GetDownstreamIDs.
Towards(d, E) == IF d = "up" THEN {<<e[2], e[1]>> : e \in E} ELSE E
Neighbours(s) == {t \in Services : <<s, t>> \in Towards(side, inMemory.edges)}

\* How the neighbours S may be listed: in any order, one for each edge to it.
Orders(S) == {order \in UNION {[1 .. n -> S] : n \in Cardinality(S) .. Cardinality(S) + MaxRepeats} :
                 \A s \in S : \E i \in DOMAIN order : order[i] = s}

\* The last found come first.
AppendedFirst(rest, found) == found \o rest
\* What is found is put at the end of the queue.
Appended(rest, found) == rest \o found

\* A service may be in the queue with a depth beyond the limit.
TooFar(current) == current.depth > Limit

\* One service of the queue is visited,
Visit ==
    /\ stage = "search" /\ queue # <<>>
    /\ LET current == Head(queue)
       IN  /\ ~ TooFar(current) /\ current.id \notin DOMAIN visited
           /\ visited' = [s \in DOMAIN visited \union {current.id} |-> IF s = current.id THEN current.depth ELSE visited[s]]
           /\ \E order \in Orders(Neighbours(current.id) \ DOMAIN visited') :
                 queue' = Appended(Tail(queue), [i \in DOMAIN order |-> [id |-> order[i], depth |-> current.depth + 1]])
    /\ UNCHANGED <<graphs, stage, side, todo, impact, times>>

\* or passed over: it is too far, or was visited since it was found.
Skip == /\ stage = "search" /\ queue # <<>>
        /\ TooFar(Head(queue)) \/ Head(queue).id \in DOMAIN visited
        /\ queue' = Tail(queue)
        /\ UNCHANGED <<graphs, stage, side, visited, todo, impact, times>>

EndSearch == /\ stage = "search" /\ queue = <<>>
             /\ stage' = "list"
             /\ todo' = DOMAIN visited \ {Root}
             /\ UNCHANGED <<graphs, side, visited, queue, impact, times>>

\* What was visited is looked up, in any order; a service that is no node is left out.
List(s) ==
    /\ stage = "list" /\ s \in todo
    /\ todo' = todo \ {s}
    /\ IF s \in inMemory.nodes
       THEN impact' = [impact EXCEPT ![side] = [listed |-> @.listed \union {[id |-> s, depth |-> visited[s]]},
                                                depth |-> IF visited[s] > @.depth THEN visited[s] ELSE @.depth]]
       ELSE UNCHANGED impact
    /\ UNCHANGED <<graphs, stage, side, visited, queue, times>>

NextSide == /\ stage = "list" /\ todo = {}
            /\ IF side = "up" THEN BeginSide("down")
               ELSE stage' = "done" /\ UNCHANGED <<graphs, side, visited, queue, todo, impact, times>>

Returned == stage \in {"done", "not found"} /\ UNCHANGED searchVars

SearchNext == \/ RebuildGraph
              \/ FindRoot \/ Visit \/ Skip \/ EndSearch \/ NextSide
              \/ \E s \in Services : List(s)
              \/ Returned

SearchSpec == SearchInit /\ [][SearchNext]_searchVars

-----------------------------------------------------------------------------
SearchGraph == [nodes : SUBSET Services, edges : SUBSET (Services \X Services)]
Queued == [id : Services, depth : 0 .. Limit + 1]
Reported == [listed : SUBSET [id : Services, depth : 0 .. Limit], depth : 0 .. Limit]

\* Every variable has its type.
SearchTypeOK ==
    /\ inMemory \in Graphs /\ rebuilds \in 0 .. MaxRebuilds
    /\ stage \in {"root", "search", "list", "done", "not found"}
    /\ side \in {"up", "down"}
    /\ DOMAIN visited \subseteq Services /\ visited \in [DOMAIN visited -> 0 .. Limit]
    /\ queue \in Seq(Queued)
    /\ todo \subseteq DOMAIN visited /\ (stage # "list" => todo = {})
    /\ impact \in [up : Reported, down : Reported]
    /\ kept \in SearchGraph /\ met \in SearchGraph

\* The walks of k edges of E, seen from side d, that begin at the service.
Walks(d, E, k) == {w \in [0 .. k -> Services] : w[0] = Root /\ \A i \in 1 .. k : <<w[i - 1], w[i]>> \in Towards(d, E)}

\* A side is searched, and what it found is listed.
SideEnded == stage = "list" /\ todo = {}

(***************************************************************************)
(* Whatever is rebuilt in the course of a search, a service that is listed *)
(* was a node, is another than the one asked about, and is as many calls   *)
(* away from it as its depth says, by calls that were in the graph at some *)
(* time of the search; the depth of a side is that of the farthest service *)
(* listed (graph_analyzer.go:62-103).                                      *)
(***************************************************************************)
ImpactIsGrounded ==
    SideEnded =>
        LET result == impact[side]
        IN  /\ \A x \in result.listed :
                  /\ x.id \in met.nodes \ {Root}
                  /\ \E w \in Walks(side, met.edges, x.depth) : w[x.depth] = x.id
                  /\ x.depth <= result.depth
                  /\ \A y \in result.listed : y.id = x.id => y = x
            /\ result.depth = 0 \/ \E x \in result.listed : x.depth = result.depth

(***************************************************************************)
(* A service that could be reached within the limit, by calls that were in *)
(* the graph all the time, is listed if it was a node all the time, and    *)
(* with no greater depth.  When nothing is rebuilt, the two together say   *)
(* that depths are distances (graph_analyzer.go:118-147).                  *)
(***************************************************************************)
ImpactIsComplete ==
    SideEnded =>
        \A k \in 0 .. Limit : \A w \in Walks(side, kept.edges, k) :
            w[k] \in kept.nodes \ {Root} => \E x \in impact[side].listed : x.id = w[k] /\ x.depth <= k

\* An analysis that meets a refresh half way answers neither for the graph before nor for that
\* after it, but for the time of the search (graph_analyzer.go:43-147).
ImpactIsOfItsTime == ImpactIsGrounded /\ ImpactIsComplete
=============================================================================
