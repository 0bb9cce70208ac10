-------------------------- MODULE MCServiceLevels --------------------------
(***************************************************************************)
(* ServiceLevels for TLC.                                                  *)
(***************************************************************************)
EXTENDS ServiceLevels, TLC

CONSTANTS r1, r2, r3, i1, i2

MCRequests == {r1, r2, r3}
MCIds == {i1, i2}
Symmetry == Permutations(MCRequests) \union Permutations(MCIds)

\* The last is what an update without thresholds sets.
MCDefinitions == {[warning |-> 1, critical |-> 2], [warning |-> 0, critical |-> 0]}
=============================================================================
