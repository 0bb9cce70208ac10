-------------------------- MODULE MCAlertOperation --------------------------
(* Three requests about one alert, two of them with the same key, and a     *)
(* check for duplicates that looks at one row: the third can crowd it out.  *)
EXTENDS AlertOperation

CONSTANTS r1, r2, r3, k1, k2

MCRequests == {r1, r2, r3}
MCKeys == {k1, k2}
MCKeyOf == [r \in MCRequests |-> IF r = r3 THEN k2 ELSE k1]
=============================================================================
