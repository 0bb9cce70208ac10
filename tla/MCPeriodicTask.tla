--------------------------- MODULE MCPeriodicTask ---------------------------
(* Two starts, each ended by a crash or a shutdown, and one failing call.   *)
(* At most three tasks live while the process is up, so that four leave     *)
(* room for a successor.                                                    *)
EXTENDS PeriodicTask

MCIds == 1 .. 4
=============================================================================
