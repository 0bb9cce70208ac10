-------------------------- MODULE AlertRecordSink --------------------------
(***************************************************************************)
(* What the alert record buffer promises its callers, told without its     *)
(* lock, goroutines and channels: an accepted record is buffered, is       *)
(* collected once, together with everything buffered at that moment, and   *)
(* is then settled once, in the table, on the retry queue or by being      *)
(* dropped after a reported failure.  Only the death of the process        *)
(* can make a record that was not settled disappear.                       *)
(***************************************************************************)
CONSTANT Records

VARIABLES stage,   \* where each record is
          alive    \* the process that holds the buffer is up

sinkVars == <<stage, alive>>

Settled == {"stored", "queued", "dropped"}

At(s) == {r \in Records : stage[r] = s}

Move(S, s) == stage' = [r \in Records |-> IF r \in S THEN s ELSE stage[r]]

SinkInit == /\ stage = [r \in Records |-> "new"]
            /\ alive = TRUE

Accept(r) == /\ alive
             /\ stage[r] = "new"
             /\ Move({r}, "buffered")
             /\ UNCHANGED alive

Collect == /\ alive
           /\ At("buffered") # {}
           /\ Move(At("buffered"), "writing")
           /\ UNCHANGED alive

\* Part of what is being written is settled, all of it with one outcome.
Settle(S, s) == /\ alive
                /\ S # {}
                /\ S \subseteq At("writing")
                /\ Move(S, s)
                /\ UNCHANGED alive

Die == /\ alive
       /\ alive' = FALSE
       /\ Move(At("buffered") \union At("writing"), "lost")

SinkNext == \/ \E r \in Records : Accept(r)
            \/ Collect
            \/ \E S \in SUBSET Records, s \in Settled : Settle(S, s)
            \/ Die

SinkSpec == SinkInit /\ [][SinkNext]_sinkVars
=============================================================================
