---------------------------- MODULE MCTraversal ----------------------------
\* TLC instance of GraphAnalyzer for the traversals of TopologyService alone: five services,
\* so that one can be reached by a short way that the search has closed on a longer one.
EXTENDS GraphAnalyzer

TraversalNext == /\ query = None
                 /\ UNCHANGED edges
                 /\ \E s \in Nodes, d \in 1 .. N : GetUpstreamServices(s, d) \/ GetDownstreamServices(s, d)

Answered == query # None /\ UNCHANGED vars

TraversalSpec == Init /\ [][TraversalNext \/ Answered]_vars
=============================================================================
