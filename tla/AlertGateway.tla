---------------------------- MODULE AlertGateway ----------------------------
(***************************************************************************)
(* The API of alerts: the handlers of internal/alerting/interfaces/http,   *)
(* the calls of AlertService they make, AlertmanagerClient with its        *)
(* retries, and the records of noise that events leave.                    *)
(*                                                                         *)
(* Alertmanager is external: it does what a call asks or refuses, and its  *)
(* answer may be lost.  Alerts stand for their fingerprints.  What the     *)
(* rows of operations hold is in AlertOperation: here BeginOperation only  *)
(* lets a request pass, or not, and its later writes cannot stop it.       *)
(***************************************************************************)
EXTENDS Naturals, FiniteSets, FiniteSetsExt

CONSTANTS Requests,
          Asks,      \* what requests ask for
          Alerts,
          Severe,    \* the alerts of a high severity
          None,
          MaxTries,  \* maxRetries of the client: 3
          MaxLost    \* bound: how many answers of Alertmanager are lost

ASSUME GatewayAssumption == /\ MaxTries \in Nat \ {0}
                            /\ MaxLost \in Nat
                            /\ Severe \subseteq Alerts

Ops == {"send", "sendWithRecord", "silence", "silenceWithRecord", "unsilence", "unsilenceWithRecord",
        "get", "feedback", "list", "history", "webhook"}
Statuses == {"ok", "invalid", "unauthorized", "conflict", "notFound", "error"}

\* What is sent with a record is an alert.  None is none of the values it stands beside.
ASSUME AsksAssumption ==
    /\ Asks \subseteq [op : Ops, form : {"ok", "malformed", "empty", "backwards"}, user : BOOLEAN,
                       alerts : SUBSET Alerts, silence : Requests \union {None}]
    /\ \A ask \in Asks : ask.op = "sendWithRecord" => ask.alerts # {}
    /\ None \notin Requests \union Statuses \union Nat \union [by : Requests, nr : Nat \union {None}]

VARIABLES req,      \* the requests
          firing,   \* Alertmanager: alerts it was sent
          silences, \* Alertmanager: silences, by the request that made them and their number
          noise,    \* alert_noise_records: how often an alert has fired
          notices,  \* alert_notifications, by their requests
          buffered, \* records handed to the buffer: requests and alerts
          saved,    \* history: events written to the record of an alert
          stale     \* history: alerts whose record was overwritten by an older copy

gatewayVars == <<req, firing, silences, noise, notices, buffered, saved, stale>>

alertmanager == <<firing, silences>>
records == <<noise, notices, buffered, saved, stale>>

\* Requests whose operation is recorded, for the user they authenticate.
Recorded == {"sendWithRecord", "silenceWithRecord", "unsilenceWithRecord"}
Sends == {"send", "sendWithRecord"}
Creates == {"silence", "silenceWithRecord"}
Deletes == {"unsilence", "unsilenceWithRecord"}

New == [pc |-> "new", ask |-> None, tries |-> 0, lost |-> 0, made |-> 0, todo |-> {}, copy |-> None,
        at |-> 0, status |-> None, answer |-> None, target |-> None]

GatewayInit == /\ req = [r \in Requests |-> New]
               /\ firing = {}
               /\ silences = {}
               /\ noise = [a \in Alerts |-> None]
               /\ notices = {}
               /\ buffered = {}
               /\ saved = [a \in Alerts |-> 0]
               /\ stale = {}

At(r, label) == req[r].pc = label
Op(r) == req[r].ask.op

Continue(r, label) == req' = [req EXCEPT ![r].pc = label]

Respond(r, status) == req' = [req EXCEPT ![r].pc = "done", ![r].status = status]

\* Only the request itself goes on.
Alone == UNCHANGED <<alertmanager, records>>

-----------------------------------------------------------------------------
\* The handlers.

\* The silence an id stands for: the one its creator was told of, if it was.
Named(q) == IF q # None /\ req[q].status = "ok" THEN [by |-> q, nr |-> req[q].answer] ELSE None

\* A request is bound: a malformed one, or one without the fields it must have, is
\* refused, and so is one to be recorded, or about the user, whose user is not known.
Receive(r, ask) ==
    /\ At(r, "new")
    /\ req' = [req EXCEPT ![r] =
          IF ask.form = "malformed" THEN [@ EXCEPT !.ask = ask, !.pc = "done", !.status = "invalid"]
          ELSE IF ask.op \in Recorded \union {"history"} /\ ~ask.user
               THEN [@ EXCEPT !.ask = ask, !.pc = "done", !.status = "unauthorized"]
               ELSE [@ EXCEPT !.ask = ask, !.todo = ask.alerts, !.target = Named(ask.silence), !.pc = ask.op]]
    /\ Alone

\* SendAlert, SendAlerts: alerts without labels are refused, which the handler reports
\* as an internal error.
Send(r) ==
    /\ At(r, "send")
    /\ IF req[r].ask.form = "empty" THEN Respond(r, "error") ELSE Continue(r, "call")
    /\ Alone

\* BeginOperation: a duplicate, an error of the database, or a row.
BeginOperation(r) == Respond(r, "conflict") \/ Respond(r, "error") \/ Continue(r, "call")

SendWithRecord(r) ==
    /\ At(r, "sendWithRecord")
    /\ IF req[r].ask.form = "empty" THEN Respond(r, "error") ELSE BeginOperation(r)
    /\ Alone

\* CreateSilence looks at the times of a silence.
CreateSilence(r) ==
    /\ At(r, "silence")
    /\ IF req[r].ask.form = "backwards" THEN Respond(r, "error") ELSE Continue(r, "call")
    /\ Alone

\* CreateSilenceWithRecord does not.
CreateSilenceWithRecord(r) == At(r, "silenceWithRecord") /\ BeginOperation(r) /\ Alone

DeleteSilence(r) == At(r, "unsilence") /\ Continue(r, "call") /\ Alone

DeleteSilenceWithRecord(r) == At(r, "unsilenceWithRecord") /\ BeginOperation(r) /\ Alone

\* GetAlert asks Alertmanager for the alerts that carry a label called fingerprint, which
\* is no label of an alert: none is found, whether the alert fires or not.
GetAlert(r) == At(r, "get") /\ (Respond(r, "notFound") \/ Respond(r, "error")) /\ Alone

\* GetAlertFeedback: that there is no record is an internal error, too.
GetAlertFeedback(r) ==
    /\ At(r, "feedback")
    /\ Respond(r, IF \E a \in req[r].ask.alerts : noise[a] = None THEN "error" ELSE "ok") \/ Respond(r, "error")
    /\ Alone

\* GetAlerts, GetSilences and the handlers of records, statistics and operations.
List(r) == req[r].pc \in {"list", "history"} /\ (Respond(r, "ok") \/ Respond(r, "error")) /\ Alone

-----------------------------------------------------------------------------
\* AlertmanagerClient.

\* The silences r has made.
MadeBy(r) == {s \in silences : s.by = r}

\* SendAlerts: Alertmanager has the alerts.
PostAlerts(r) ==
    /\ Op(r) \in Sends
    /\ firing' = firing \union req[r].ask.alerts
    /\ UNCHANGED silences

\* CreateSilence: a silence each time it is asked, but none that ends before it starts.
PostSilence(r) ==
    /\ Op(r) \in Creates /\ req[r].ask.form # "backwards"
    /\ silences' = silences \union {[by |-> r, nr |-> req[r].made + 1]}
    /\ UNCHANGED firing

\* DeleteSilence: one that exists expires.
ExpireSilence(r) ==
    /\ Op(r) \in Deletes /\ req[r].target \in silences
    /\ silences' = silences \ {req[r].target}
    /\ UNCHANGED firing

\* Mutant of Retry: the last error is forgotten.
RetryForgets(r) ==
    IF req[r].tries + 1 < MaxTries THEN [req[r] EXCEPT !.tries = @ + 1] ELSE [req[r] EXCEPT !.pc = "succeeded"]

\* withRetry: any error is tried again, MaxTries times in all.
Retry(r) ==
    IF req[r].tries + 1 < MaxTries THEN [req[r] EXCEPT !.tries = @ + 1] ELSE [req[r] EXCEPT !.pc = "failed"]

Call(r) ==
    /\ At(r, "call")
    /\ LET made == IF Op(r) \in Creates THEN req[r].made + 1 ELSE req[r].made
       IN \/ /\ PostAlerts(r) \/ PostSilence(r) \/ ExpireSilence(r)
             /\ \/ req' = [req EXCEPT ![r].pc = "succeeded", ![r].made = made, ![r].answer = made]
                \/ /\ MapThenSumSet(LAMBDA q : req[q].lost, Requests) < MaxLost
                   /\ req' = [req EXCEPT ![r] = [Retry(r) EXCEPT !.made = made, !.lost = @ + 1]]
          \/ req' = [req EXCEPT ![r] = Retry(r)] /\ UNCHANGED alertmanager
    /\ UNCHANGED records

\* An error is handled, which changes only the row of the operation, and reported.
Failed(r) == At(r, "failed") /\ Respond(r, "error") /\ Alone

\* The operation is completed.  An alert sent with a record leaves an event.
Succeeded(r) ==
    /\ At(r, "succeeded")
    /\ IF Op(r) = "sendWithRecord" THEN Continue(r, "event") ELSE Respond(r, "ok")
    /\ Alone

-----------------------------------------------------------------------------
\* The records of noise.

AlertOf(r) == CHOOSE a \in req[r].ask.alerts : TRUE

\* RecordAlertFired reads the record: if it is not there, or the read fails, a new one
\* with an id of its own takes its place.
GetByFingerprint(r) ==
    /\ At(r, "event")
    /\ \E copy \in {noise[AlertOf(r)], None} :
          req' = [req EXCEPT ![r].pc = "save", ![r].copy = copy, ![r].at = saved[AlertOf(r)]]
    /\ Alone

\* Row n of alert a is written, when its history had been read at v.
Write(a, n, v) == /\ noise' = [noise EXCEPT ![a] = n]
                  /\ saved' = [saved EXCEPT ![a] = @ + 1]
                  /\ stale' = IF v # saved[a] THEN stale \union {a} ELSE stale

\* Mutant of Insert: a row with the fingerprint is overwritten.
InsertOrReplace(a) == Write(a, 1, saved[a])

\* A row with a new id: the fingerprint is unique, so one that is there stays, and the
\* insertion fails.
Insert(a) == IF noise[a] = None THEN Write(a, 1, saved[a]) ELSE UNCHANGED <<noise, saved, stale>>

\* Upsert: gorm's Save updates the whole row with the id of the copy, or inserts one.
\* Whatever it answers is only logged.
Upsert(r) ==
    /\ At(r, "save")
    /\ \/ IF req[r].copy = None THEN Insert(AlertOf(r)) ELSE Write(AlertOf(r), req[r].copy + 1, req[r].at)
       \/ UNCHANGED <<noise, saved, stale>>
    /\ req' = [req EXCEPT ![r].pc = "notify", ![r].copy = None]
    /\ UNCHANGED <<alertmanager, notices, buffered>>

\* checkAndNotifyHighRisk, and persistAlertRecord, which hands a record to the buffer.
Notify(r) ==
    /\ At(r, "notify")
    /\ notices' \in {notices, IF AlertOf(r) \in Severe THEN notices \union {r} ELSE notices}
    /\ buffered' = buffered \union {<<r, AlertOf(r)>>}
    /\ Respond(r, "ok")
    /\ UNCHANGED <<alertmanager, noise, saved, stale>>

\* SyncAlertFromWebhook, for one of the alerts: its record has no id, so it is inserted
\* or nothing, even for an alert that is resolved.
Sync(r) ==
    /\ At(r, "webhook")
    /\ \E a \in req[r].todo :
          /\ req' = [req EXCEPT ![r].todo = @ \ {a}]
          /\ IF req[r].ask.form = "empty" THEN UNCHANGED <<noise, saved, stale, buffered>>
             ELSE /\ buffered' = buffered \union {<<r, a>>}
                  /\ Insert(a) \/ UNCHANGED <<noise, saved, stale>>
    /\ UNCHANGED <<alertmanager, notices>>

\* The webhook succeeds, whatever became of its alerts.
ReceiveWebhook(r) == At(r, "webhook") /\ req[r].todo = {} /\ Respond(r, "ok") /\ Alone

-----------------------------------------------------------------------------
Serve(r) == \/ Send(r) \/ SendWithRecord(r) \/ CreateSilence(r) \/ CreateSilenceWithRecord(r)
            \/ DeleteSilence(r) \/ DeleteSilenceWithRecord(r) \/ GetAlert(r) \/ GetAlertFeedback(r) \/ List(r)
            \/ Call(r) \/ Failed(r) \/ Succeeded(r)
            \/ GetByFingerprint(r) \/ Upsert(r) \/ Notify(r) \/ Sync(r) \/ ReceiveWebhook(r)

GatewayNext == \E r \in Requests : Serve(r) \/ \E ask \in Asks : Receive(r, ask)

GatewaySpec == GatewayInit /\ [][GatewayNext]_gatewayVars

-----------------------------------------------------------------------------
\* What a request is told is what became of it.  One refused as invalid, not
\* authenticated or a duplicate has changed nothing; one told of success had what it
\* asked for, and only that and what lost answers have repeated: Alertmanager made a
\* silence for each answer lost and for the one that was not
\* (handler.go:105-387, service.go:144-338, alertmanager.go:61-75).
ResponseTellsOutcome ==
    \A r \in Requests : At(r, "done") =>
        /\ req[r].made = IF Op(r) \in Creates THEN req[r].lost + (IF req[r].status = "ok" THEN 1 ELSE 0) ELSE 0
        /\ req[r].status \in {"invalid", "unauthorized", "conflict", "notFound"}
           => MadeBy(r) = {} /\ r \notin notices /\ \A a \in Alerts : <<r, a>> \notin buffered
        /\ req[r].status = "ok" /\ Op(r) \in Deletes => req[r].target \notin silences
        /\ req[r].status = "ok" /\ Op(r) \in Sends => req[r].ask.alerts \subseteq firing
        /\ req[r].status = "ok" /\ Op(r) = "sendWithRecord" => <<r, AlertOf(r)>> \in buffered

\* An alert's record counts the events that were written, no more and no fewer, unless
\* one was written over another that had come since it read the record: neither a read
\* that fails nor a webhook resets it (feedback.go:51-79, service.go:442-469,
\* alert_repository.go:141-152).
FiresAreCounted ==
    \A a \in Alerts : LET fires == IF noise[a] = None THEN 0 ELSE noise[a]
                      IN fires =< saved[a] /\ (fires < saved[a] => a \in stale)
=============================================================================
