--------------------------- MODULE MCImpactCache ----------------------------
(* One run, of two batches or of one with two goroutines, and one call,     *)
(* with refreshes and invalidations between any two steps.                  *)
EXTENDS ImpactCache

CONSTANTS s1, s2, r1, c1

MCAbout == [c \in Calls |-> s1]
MCGraphs == {{}, {s1, s2}}
=============================================================================
