---------------------------- MODULE MCCatalogue ----------------------------
EXTENDS Catalogue, TLC

CONSTANTS r1, r2, r3, i1, i2, n1, n2

Symmetry == Permutations(Requests) \union Permutations(Ids) \union Permutations(Names)
=============================================================================
