---------------------------- MODULE ServiceLevels ----------------------------
(***************************************************************************)
(* Service level objectives: internal/slo and storage/slo_repository.go.   *)
(* An objective and its indicator are rows of two tables, written without  *)
(* a transaction.  What an objective's status is, a refresh computes from  *)
(* the row it read and from what Prometheus answers; it is kept in memory, *)
(* for five minutes, and never written to the database.                    *)
(*                                                                         *)
(* Each action is one statement, one query or one look into that memory.   *)
(* A statement that fails changes nothing.  Of an objective the model has  *)
(* the thresholds of its burn rate; Prometheus is external.                *)
(***************************************************************************)
EXTENDS Naturals, FiniteSets

CONSTANTS Requests,    \* bound: each makes one call
          Ids,
          Definitions, \* thresholds of objectives
          Rates,       \* burn rates
          Slots,       \* capacity of the semaphore of a refresh of all: 10
          None

ASSUME LevelsAssumption == /\ Definitions \subseteq [warning : Nat, critical : Nat]
                           /\ 0 \in Rates /\ Rates \subseteq Nat
                           /\ Slots \in Nat \ {0}

Ops == {"create", "update", "delete", "get", "list", "refresh", "refreshAll"}
\* Where there is no row, or nothing was asked yet, there is None.
ASSUME NoneIsNoRow == /\ None \notin Ids /\ None \notin Definitions /\ None \notin Ops
                      /\ None \notin [def : Definitions, alive : BOOLEAN]

VARIABLES slo,   \* table slos; a deleted row stays, with alive = FALSE
          sli,   \* table slis: the indicator of each objective
          cache, \* statusCache, without what is too old
          req,
          marred \* history: objectives with a deletion, or its undoing, that failed or ran at the time of another write

Sensible(def) == 0 < def.warning /\ def.warning =< def.critical

vars == <<slo, sli, cache, req, marred>>

New == [op |-> None, pc |-> "new", id |-> None, def |-> None, got |-> [i \in Ids |-> None],
        work |-> [i \in Ids |-> "none"], seen |-> [i \in Ids |-> None], answer |-> None]

\* Some objectives were created before, with thresholds that make sense.
Init == /\ slo \in [Ids -> {None} \union [def : {d \in Definitions : Sensible(d)}, alive : {TRUE}]]
        /\ sli = [i \in Ids |-> IF slo[i] = None THEN "never" ELSE "there"]
        /\ cache = [i \in Ids |-> None]
        /\ req = [r \in Requests |-> New]
        /\ marred = {}

Alive == {i \in Ids : slo[i] # None /\ slo[i].alive}
At(r, label) == req[r].pc = label
Goto(r, label) == req' = [req EXCEPT ![r].pc = label]
Respond(r, answer) == req' = [req EXCEPT ![r] = [New EXCEPT !.pc = "done", !.answer = answer]]
Marred(i, really) == marred' = IF really THEN marred \union {i} ELSE marred

\* A request of one of kinds is at work on i.
Busy(i, kinds) == \E r \in Requests : req[r].op \in kinds /\ req[r].id = i

tables == <<slo, sli>>

-----------------------------------------------------------------------------
\* The handlers: a request that cannot be bound ends; the others begin.
Begin(r, op, i, def, label) ==
    /\ At(r, "new")
    /\ req' = [req EXCEPT ![r] = [@ EXCEPT !.op = op, !.id = i, !.def = def, !.pc = label]]
    /\ Marred(i, \/ op = "delete" /\ Busy(i, {"create", "update", "delete"})
                 \/ op = "update" /\ Busy(i, {"create", "delete"}))
    /\ UNCHANGED <<tables, cache>>

\* The id is new.  A threshold that is missing has its default.
CreateSLO(r, i, def) ==
    def.warning > 0 /\ def.critical > 0 /\ slo[i] = None /\ i \notin {req[q].id : q \in Requests} /\ Begin(r, "create", i, def, "insert")

\* All of the thresholds are set: to 0 if the request has none.
UpdateSLO(r, i, def) == Begin(r, "update", i, def, "load")

DeleteSLO(r, i) == Begin(r, "delete", i, None, "findSLI")

GetSLO(r, i) == Begin(r, "get", i, None, "load")

\* ListSLOs, GetSLOsByService and GetBurnRateAlerts.
List(r) == Begin(r, "list", None, None, "list")

\* RefreshSLOStatus and GetErrorBudget.
Refresh(r, i) ==
    /\ At(r, "new")
    /\ req' = [req EXCEPT ![r] = [@ EXCEPT !.op = "refresh", !.id = i, !.pc = "refresh", !.work[i] = "read"]]
    /\ UNCHANGED <<tables, cache, marred>>

RefreshAll(r) == Begin(r, "refreshAll", None, None, "list")

-----------------------------------------------------------------------------
\* CreateSLO: the objective, then its indicator; if that fails, the objective is deleted
\* again, and whether that works is not looked at.
Insert(r) ==
    /\ At(r, "insert")
    /\ \/ /\ slo' = [slo EXCEPT ![req[r].id] = [def |-> req[r].def, alive |-> TRUE]]
          /\ Goto(r, "insertSLI")
       \/ Respond(r, "error") /\ UNCHANGED slo
    /\ UNCHANGED <<sli, cache, marred>>

\* Mutant of InsertSLI: nothing is undone.
InsertSLIOnly(r) ==
    /\ At(r, "insertSLI")
    /\ \/ sli' = [sli EXCEPT ![req[r].id] = "there"] /\ Respond(r, "ok")
       \/ Respond(r, "error") /\ UNCHANGED sli
    /\ UNCHANGED <<slo, cache, marred>>

InsertSLI(r) ==
    /\ At(r, "insertSLI")
    /\ \/ sli' = [sli EXCEPT ![req[r].id] = "there"] /\ Respond(r, "ok")
       \/ Goto(r, "undo") /\ UNCHANGED sli
    /\ UNCHANGED <<slo, cache, marred>>

Removed(i) == IF i \in Alive THEN [slo EXCEPT ![i].alive = FALSE] ELSE slo

Undo(r) ==
    /\ At(r, "undo")
    /\ \/ slo' = Removed(req[r].id) /\ UNCHANGED marred
       \/ UNCHANGED slo /\ Marred(req[r].id, TRUE)
    /\ Respond(r, "error")
    /\ UNCHANGED <<sli, cache>>

\* UpdateSLO and GetSLO read a row.
GetByID(r) ==
    /\ At(r, "load")
    /\ \/ /\ req[r].id \in Alive
          /\ req' = [req EXCEPT ![r].got[req[r].id] = slo[req[r].id].def,
                                 ![r].pc = IF req[r].op = "update" THEN "save" ELSE "enrich"]
       \/ Respond(r, "error")
    /\ UNCHANGED <<tables, cache, marred>>

\* Update: gorm's Save writes the whole row, and inserts it again if it was deleted.
Save(r) ==
    /\ At(r, "save")
    /\ \/ /\ slo' = [slo EXCEPT ![req[r].id] = [def |-> req[r].def, alive |-> TRUE]]
          /\ Respond(r, "ok")
       \/ Respond(r, "error") /\ UNCHANGED slo
    /\ UNCHANGED <<sli, cache, marred>>

\* DeleteSLO: the indicators are looked for and deleted, and errors ignored; then the row.
GetBySLOID(r) ==
    /\ At(r, "findSLI")
    /\ \/ sli[req[r].id] = "there" /\ Goto(r, "deleteSLI") /\ UNCHANGED marred
       \/ sli[req[r].id] # "there" /\ Goto(r, "delete") /\ UNCHANGED marred
       \/ Goto(r, "delete") /\ Marred(req[r].id, TRUE)
    /\ UNCHANGED <<tables, cache>>

DeleteSLI(r) ==
    /\ At(r, "deleteSLI")
    /\ \/ sli' = [sli EXCEPT ![req[r].id] = "removed"] /\ UNCHANGED marred
       \/ UNCHANGED sli /\ Marred(req[r].id, TRUE)
    /\ Goto(r, "delete")
    /\ UNCHANGED <<slo, cache>>

Delete(r) ==
    /\ At(r, "delete")
    /\ \/ slo' = Removed(req[r].id) /\ Respond(r, "ok") /\ UNCHANGED marred
       \/ UNCHANGED slo /\ Respond(r, "error") /\ Marred(req[r].id, TRUE)
    /\ UNCHANGED <<sli, cache>>

-----------------------------------------------------------------------------
\* Mutant of CalculateStatus: the thresholds are compared in the other order.
CalculateStatusUp(rate, def) ==
    IF rate > 0 /\ rate >= def.warning THEN "warning" ELSE IF rate > 0 /\ rate >= def.critical THEN "critical" ELSE "healthy"

CalculateStatus(rate, def) ==
    IF rate > 0 /\ rate >= def.critical THEN "critical" ELSE IF rate > 0 /\ rate >= def.warning THEN "warning" ELSE "healthy"

\* What GetBurnRateAlerts says of a rate.
Severity(rate, def) ==
    IF rate >= def.warning THEN (IF rate >= def.critical THEN "critical" ELSE "warning") ELSE None

\* The rows of a list are read at once.  To refresh all, a goroutine is started for each.
ListRows(r) ==
    /\ At(r, "list")
    /\ \/ req' = [req EXCEPT ![r] =
             IF req[r].op = "list"
             THEN [@ EXCEPT !.pc = "enrich", !.got = [i \in Ids |-> IF i \in Alive THEN slo[i].def ELSE None]]
             ELSE [@ EXCEPT !.pc = "refresh", !.work = [i \in Ids |-> IF i \in Alive THEN "waiting" ELSE "none"]]]
       \/ Respond(r, "error")
    /\ UNCHANGED <<tables, cache, marred>>

\* enrichWithCachedStatus, for one of the rows: without an entry, the row itself says
\* that nothing is known, and a rate of 0.
Enrich(r, i) ==
    /\ At(r, "enrich")
    /\ req[r].got[i] # None /\ req[r].seen[i] = None
    /\ LET rate == IF cache[i] = None THEN 0 ELSE cache[i].rate
       IN req' = [req EXCEPT ![r].seen[i] =
             [status |-> IF cache[i] = None THEN "unknown" ELSE cache[i].status,
              def |-> req[r].got[i],
              of |-> IF cache[i] = None THEN None ELSE cache[i].def,
              severity |-> Severity(rate, req[r].got[i])]]
    /\ UNCHANGED <<tables, cache, marred>>

\* The answer has every row.
Answer(r) ==
    /\ At(r, "enrich")
    /\ \A i \in Ids : req[r].got[i] # None => req[r].seen[i] # None
    /\ Respond(r, "ok")
    /\ UNCHANGED <<tables, cache, marred>>

\* r's refresh of i goes on, with row def.
Step(r, i, from, to, def) ==
    /\ req[r].work[i] = from
    /\ req' = [req EXCEPT ![r].work[i] = to, ![r].got[i] = def]

Acquire(r, i) ==
    /\ Cardinality({j \in Ids : req[r].work[j] \in {"read", "find", "collect", "burn"}}) < Slots
    /\ Step(r, i, "waiting", "read", None)
    /\ UNCHANGED <<tables, cache, marred>>

\* RefreshSLOStatus reads the row; if it is not there, or cannot be read, that is an error.
ReadRow(r, i) ==
    /\ \/ i \in Alive /\ Step(r, i, "read", "find", slo[i].def)
       \/ Step(r, i, "read", "failed", None)
    /\ UNCHANGED <<tables, cache, marred>>

\* Without an indicator the status is not known, and the cache stays as it is.
FindSLI(r, i) ==
    /\ \/ sli[i] = "there" /\ Step(r, i, "find", "collect", req[r].got[i])
       \/ Step(r, i, "find", "over", None)
    /\ UNCHANGED <<tables, cache, marred>>

CollectSLI(r, i) ==
    /\ Step(r, i, "collect", "burn", req[r].got[i]) \/ Step(r, i, "collect", "over", None)
    /\ UNCHANGED <<tables, cache, marred>>

UpdateStatusCache(i, status, rate, def) == cache' = [cache EXCEPT ![i] = [status |-> status, rate |-> rate, def |-> def]]

\* A burn rate that cannot be had is 0.  The status is computed and put in the cache.
CollectBurnRate(r, i) ==
    /\ \E rate \in Rates :
          /\ Step(r, i, "burn", "over", None)
          /\ UpdateStatusCache(i, CalculateStatus(rate, req[r].got[i]), rate, req[r].got[i])
    /\ UNCHANGED <<tables, marred>>

\* One refresh reports its error; in a refresh of all they are logged.
Refreshed(r) ==
    /\ At(r, "refresh")
    /\ \A i \in Ids : req[r].work[i] \in {"none", "over", "failed"}
    /\ Respond(r, IF req[r].op = "refresh" /\ req[r].work[req[r].id] = "failed" THEN "error" ELSE "ok")
    /\ UNCHANGED <<tables, cache, marred>>

\* Five minutes pass.
Expire(i) == cache[i] # None /\ cache' = [cache EXCEPT ![i] = None] /\ UNCHANGED <<tables, req, marred>>

-----------------------------------------------------------------------------
Receive(r) == \/ List(r) \/ RefreshAll(r)
              \/ \E i \in Ids : DeleteSLO(r, i) \/ GetSLO(r, i) \/ Refresh(r, i)
              \/ \E i \in Ids, def \in Definitions : CreateSLO(r, i, def) \/ UpdateSLO(r, i, def)

Serve(r) == \/ Insert(r) \/ InsertSLI(r) \/ Undo(r) \/ GetByID(r) \/ Save(r)
            \/ GetBySLOID(r) \/ DeleteSLI(r) \/ Delete(r) \/ ListRows(r) \/ Answer(r) \/ Refreshed(r)
            \/ \E i \in Ids : \/ Enrich(r, i) \/ Acquire(r, i) \/ ReadRow(r, i) \/ FindSLI(r, i)
                              \/ CollectSLI(r, i) \/ CollectBurnRate(r, i)

Next == (\E r \in Requests : Receive(r) \/ Serve(r)) \/ \E i \in Ids : Expire(i)

Spec == Init /\ [][Next]_vars

-----------------------------------------------------------------------------
\* An objective has an indicator, and an indicator its objective, whenever nobody is writing
\* them: only a deletion, or the undoing of a creation, that fails, or a deletion at the time of
\* another write parts them, and neither a creation that fails nor an update does
\* (slo/application/service.go:55-104, slo_repository.go:34-40).
OrphansAccounted ==
    \A i \in Ids : ~Busy(i, {"create", "delete"}) /\ i \notin marred => (i \in Alive <=> sli[i] = "there")

\* The alerts agree with the statuses in one answer, though the ones are computed from
\* thresholds just read and the others were when they were put in the cache: they differ only
\* for an objective that was given other thresholds since, or thresholds that make no sense
\* (service.go:219-250, objective.go:126-137).
AlertsFollowStatus ==
    \A r \in Requests, i \in Ids :
        LET s == req[r].seen[i]
        IN s # None /\ s.of \in {s.def, None} /\ Sensible(s.def)
           => s.severity = IF s.status \in {"warning", "critical"} THEN s.status ELSE None
=============================================================================
