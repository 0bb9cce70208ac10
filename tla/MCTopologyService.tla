------------------------- MODULE MCTopologyService -------------------------
(* Two threads and three calls: a refresh beside a query, a refresh beside   *)
(* another, two queries that both find the graph empty, a query after them.  *)
EXTENDS TopologyService

CONSTANTS t1, t2

MCThreads == {t1, t2}
=============================================================================
