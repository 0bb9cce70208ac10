------------------------ MODULE MCAlertRecordBuffer ------------------------
(* Two records against a buffer of two: the buffer is flushed full by the   *)
(* wake-up and part-full by the ticker; two starts and two callers of Stop. *)
EXTENDS AlertRecordBuffer

CONSTANTS r1, r2, l1, l2, s1, s2

MCRecords == {r1, r2}
MCLoops == {l1, l2}
MCStoppers == {s1, s2}
=============================================================================
