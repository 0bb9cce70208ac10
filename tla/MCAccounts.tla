----------------------------- MODULE MCAccounts -----------------------------
EXTENDS Accounts, TLC

CONSTANTS r1, r2, r3, n1, n2, e1, e2, x1, k1, k2

Symmetry == Permutations(Requests) \union Permutations(Keys) \union Permutations(Names) \union Permutations(Emails)
=============================================================================
