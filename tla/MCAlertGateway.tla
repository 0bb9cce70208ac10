--------------------------- MODULE MCAlertGateway ---------------------------
(***************************************************************************)
(* AlertGateway for TLC, and AlertRecordBuffer with more records than      *)
(* liveness allows: the buffer is filled twice, so that a wake-up is sent  *)
(* while an older one is in the channel.  A behaviour is one of the API or *)
(* one of the buffer; the variables of the other stay as they are.         *)
(***************************************************************************)
EXTENDS AlertGateway, AlertRecordBuffer, TLC

CONSTANTS r1, r2, r3, a1, a2, l1, l2, s1

MCRequests == {r1, r2, r3}
MCAlerts == {a1, a2}
MCSevere == {a1}
MCRecords == 1 .. 4
MCLoops == {l1, l2}
MCStoppers == {s1}

\* r1 is the request whose silence others delete.
Symmetry == Permutations({r2, r3}) \union Permutations(MCLoops)

Asked(op, form, user, alerts, silence) ==
    [op |-> op, form |-> form, user |-> user, alerts |-> alerts, silence |-> silence]

\* Alerts are sent one at a time with a record; one of them is told of by webhooks.
MCAsks == { Asked("send", "malformed", TRUE, {}, None), Asked("send", "empty", TRUE, {a1}, None),
            Asked("send", "ok", TRUE, {a1, a2}, None),
            Asked("sendWithRecord", "empty", TRUE, {a1}, None), Asked("sendWithRecord", "ok", FALSE, {a1}, None),
            Asked("sendWithRecord", "ok", TRUE, {a1}, None),
            Asked("silence", "ok", TRUE, {}, None), Asked("silence", "backwards", TRUE, {}, None),
            Asked("silenceWithRecord", "ok", TRUE, {}, None), Asked("silenceWithRecord", "backwards", TRUE, {}, None),
            Asked("unsilence", "ok", TRUE, {}, r1), Asked("unsilenceWithRecord", "ok", TRUE, {}, r1),
            Asked("get", "ok", TRUE, {a1}, None), Asked("feedback", "ok", TRUE, {a1}, None),
            Asked("list", "ok", TRUE, {}, None), Asked("history", "ok", TRUE, {}, None),
            Asked("webhook", "empty", TRUE, {a1}, None), Asked("webhook", "ok", TRUE, {a1, a2}, None) }

\* Requests that change nothing are told apart by what they answer only: one is enough.
ReadsOnly(r) == req[r].ask # None /\ (req[r].ask.op \in {"get", "feedback", "list", "history"} \/ req[r].ask.form # "ok")
OneReads == \A q, r \in Requests : ReadsOnly(q) /\ ReadsOnly(r) => q = r

\* Two requests that call Alertmanager and one that does not, or fewer.
Calls(r) == req[r].ask # None /\ req[r].ask.op \in Sends \union Creates \union Deletes
TwoCalls == Cardinality({r \in Requests : Calls(r)}) <= 2

\* More than two records, which fill the buffer twice, with one loop, a queue and no end.
Bounded == \/ Cardinality(Added) <= 2
           \/ alive /\ hasQueue /\ \E l \in Loops : pc[l] = "idle"

\* Records differ in nothing but their names: the order in which they are added is fixed.
AddedInOrder == \A r \in Added : 1 .. r \subseteq Added
GatewayOrBufferInit == GatewayInit /\ Init
GatewayOrBufferNext == \/ Init /\ hasQueue /\ GatewayNext /\ OneReads' /\ TwoCalls' /\ UNCHANGED vars
                       \/ GatewayInit /\ Next /\ AddedInOrder' /\ Bounded' /\ UNCHANGED gatewayVars
GatewayOrBufferSpec == GatewayOrBufferInit /\ [][GatewayOrBufferNext]_<<gatewayVars, vars>>
=============================================================================
