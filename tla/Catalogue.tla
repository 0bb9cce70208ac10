------------------------------ MODULE Catalogue ------------------------------
(***************************************************************************)
(* The service catalogue: internal/platform and                            *)
(* storage/service_repository.go.  Requests read a row, edit it and save   *)
(* it whole; the health checks save, again and again, the rows that they   *)
(* read when the process started.  Labels are kept twice, in a column of   *)
(* the row and in a table of their own.                                    *)
(*                                                                         *)
(* Each action is one statement sent to the database, or one transaction;  *)
(* the arrival of a request is part of its first one.  Values are the      *)
(* request that set them.  now counts the writes; what a request remembers *)
(* of it is there for the properties only.                                 *)
(***************************************************************************)
EXTENDS Naturals, FiniteSets

CONSTANTS Requests,    \* bound: each makes one call, or is one health check
          Ids, Names,
          MaxRestarts, \* bound on restarts of the process
          None

ASSUME CatalogueAssumption == /\ MaxRestarts \in Nat
                              /\ None \notin Requests \union Names \union Ids

VARIABLES service,  \* table services; a deleted row stays, with alive = FALSE
          label,    \* table service_labels
          dep,      \* table service_dependencies
          copy,     \* the rows that the health checks hold
          started,  \* when these were read
          restarts,
          req,
          now

vars == <<service, label, dep, copy, started, restarts, req, now>>

Status == {"unknown", "healthy", "unhealthy"}
Setters == Requests \union {None}
Row == [name : Names, labels : Setters, text : Setters, spec : Setters, health : Status, alive : BOOLEAN]
Answers == {"ok", "conflict", "missing", "error"}
\* Where there is no row, or no answer yet, there is None.
ASSUME NoneIsNoRow == None \notin Row \union Answers
Pairs == {p \in Ids \X Ids : p[1] # p[2]}
Savers == {"Update", "BatchUpdate", "UpdateLabels", "CheckNow", "PeriodicCheck"}
\* The ends of a dependency: a service, and the one that it depends on.
Sides == {1, 2}
Request == [op : Savers \union {"Create", "Delete", "UpdateOpenAPI", "Dependency", "Dependencies", None},
            ids : SUBSET Ids, arg : Names \union Status \union {None},
            pc : {"new", "insert", "read", "sync", "save", "preload", "done"},
            got : [Ids -> Row \union {None}], read : [Ids -> Nat], synced : Nat, wrote : Nat,
            deps : SUBSET Pairs, sides : SUBSET Sides, left : SUBSET Sides, ends : SUBSET (Sides \X Ids),
            answer : Answers \union {None}]

TypeOK == /\ service \in [Ids -> Row \union {None}]
          /\ label \in [Ids -> Setters]
          /\ dep \in [Pairs -> {"never", "there", "removed"}]
          /\ copy \in [Ids -> Row \union {None}]
          /\ started \in Nat /\ restarts \in 0..MaxRestarts /\ now \in Nat
          /\ req \in [Requests -> Request]

Rows == {i \in Ids : service[i] # None}
Alive == {i \in Rows : service[i].alive}
Loaded(r) == {i \in Ids : req[r].got[i] # None}

\* The unique index on names has the deleted rows too.
Taken(name, i) == \E j \in Rows \ {i} : service[j].name = name

New == [op |-> None, ids |-> {}, arg |-> None, pc |-> "new", got |-> [i \in Ids |-> None],
        read |-> [i \in Ids |-> 0], synced |-> 0, wrote |-> 0, deps |-> {}, sides |-> {}, left |-> {},
        ends |-> {}, answer |-> None]

\* Start reads the rows to be checked.
Watched == [i \in Ids |-> IF i \in Alive THEN service[i] ELSE None]

Init == /\ \E name \in [Ids -> Names], known \in SUBSET Ids :
               /\ \A i, j \in known : name[i] = name[j] => i = j
               /\ service = [i \in Ids |-> IF i \notin known THEN None
                                ELSE [name |-> name[i], labels |-> None, text |-> None, spec |-> None,
                                      health |-> "unknown", alive |-> TRUE]]
        /\ label = [i \in Ids |-> None]
        /\ dep = [p \in Pairs |-> "never"]
        /\ copy = Watched
        /\ started = 0 /\ restarts = 0 /\ now = 0
        /\ req = [r \in Requests |-> New]

Idle(r) == req[r].pc = "new"
Starts(r, op, ids, arg, pc) == [New EXCEPT !.op = op, !.ids = ids, !.arg = arg, !.pc = pc]
\* The request as it is after it wrote, or ended without a write.
Wrote(rec) == [rec EXCEPT !.pc = "done", !.wrote = now + 1, !.answer = "ok"]
Ended(rec, answer) == [rec EXCEPT !.pc = "done", !.answer = answer]
Set(r, rec) == req' = [req EXCEPT ![r] = rec] /\ now' = IF now + 1 \in {rec.wrote, rec.synced} THEN now + 1 ELSE now
Others == UNCHANGED <<dep, copy, started, restarts>>

Created(r, name) == [name |-> name, labels |-> r, text |-> r, spec |-> r, health |-> "unknown", alive |-> TRUE]

-----------------------------------------------------------------------------
\* Create looks for the name among the rows that are not deleted, then inserts.
Create(r) ==
    /\ Idle(r)
    /\ \E name \in Names :
           Set(r, IF \E i \in Alive : service[i].name = name
                  THEN Ended(Starts(r, "Create", {}, name, "done"), "conflict")
                  ELSE Starts(r, "Create", {}, name, "insert"))
    /\ UNCHANGED <<service, label>> /\ Others

Insert(r) ==
    /\ req[r].pc = "insert"
    /\ ~Taken(req[r].arg, None)
    /\ \E i \in Ids \ Rows :
           /\ service' = [service EXCEPT ![i] = Created(r, req[r].arg)]
           /\ Set(r, [Wrote(req[r]) EXCEPT !.ids = {i}])
    /\ UNCHANGED label /\ Others

\* All rows in one statement, the names are not looked for.
BatchCreate(r) ==
    /\ Idle(r)
    /\ \E name \in [Ids \ Rows -> Names] :
           /\ \A i, j \in Ids \ Rows : name[i] = name[j] => i = j
           /\ \A i \in Ids \ Rows : ~Taken(name[i], i)
           /\ service' = [i \in Ids |-> IF i \in Rows THEN service[i] ELSE Created(r, name[i])]
           /\ Set(r, Wrote(Starts(r, "Create", Ids \ Rows, None, "done")))
    /\ Rows # Ids
    /\ UNCHANGED label /\ Others

Delete(r) ==
    /\ Idle(r)
    /\ \E i \in Ids :
           IF i \in Alive
           THEN /\ service' = [service EXCEPT ![i].alive = FALSE]
                /\ Set(r, Wrote(Starts(r, "Delete", {i}, None, "done")))
           ELSE /\ Set(r, Ended(Starts(r, "Delete", {}, None, "done"), "missing"))
                /\ UNCHANGED service
    /\ UNCHANGED label /\ Others

\* Rows that are not there are passed over.
BatchDelete(r) ==
    /\ Idle(r)
    /\ \E ids \in SUBSET Ids :
           /\ service' = [i \in Ids |-> IF i \in ids \intersect Alive THEN [service[i] EXCEPT !.alive = FALSE]
                                        ELSE service[i]]
           /\ Set(r, Wrote(Starts(r, "Delete", ids \intersect Alive, None, "done")))
    /\ UNCHANGED label /\ Others

UpdateOpenAPI(r) ==
    /\ Idle(r)
    /\ \E i \in Ids :
           IF i \in Alive
           THEN /\ service' = [service EXCEPT ![i].spec = r]
                /\ Set(r, Wrote(Starts(r, "UpdateOpenAPI", {i}, None, "done")))
           ELSE /\ Set(r, Ended(Starts(r, "UpdateOpenAPI", {}, None, "done"), "missing"))
                /\ UNCHANGED service
    /\ UNCHANGED label /\ Others

-----------------------------------------------------------------------------
Read(rec, i) == [rec EXCEPT !.got[i] = service[i], !.read[i] = now]

\* An update, of labels too, or a check on demand reads its row, or ends.
GetByID(r) ==
    /\ Idle(r)
    /\ \E i \in Ids, op \in {"Update", "UpdateLabels", "CheckNow"}, arg \in Names \union {None} :
           /\ arg # None => op = "Update"
           /\ Set(r, IF i \notin Alive THEN Ended(Starts(r, op, {}, arg, "done"), "missing")
                     ELSE Read(Starts(r, op, {i}, arg, IF op = "UpdateLabels" THEN "sync" ELSE "save"), i))
    /\ UNCHANGED <<service, label>> /\ Others

\* A batch reads its rows one by one; the ones that it does not find are passed over.
BatchUpdate(r) ==
    /\ \/ Idle(r) /\ Set(r, Starts(r, "BatchUpdate", Ids, None, "read"))
       \/ /\ req[r].pc = "read"
          /\ LET todo == req[r].ids \ Loaded(r) IN
             IF todo = {} THEN Set(r, IF req[r].ids = {} THEN Ended(req[r], "ok") ELSE [req[r] EXCEPT !.pc = "save"])
             ELSE \E i \in todo : Set(r, IF i \in Alive THEN Read(req[r], i) ELSE [req[r] EXCEPT !.ids = @ \ {i}])
    /\ UNCHANGED <<service, label>> /\ Others

\* The old labels stay.
SyncNewLabels(r) ==
    /\ req[r].pc = "sync"
    /\ \E i \in req[r].ids : label' = [label EXCEPT ![i] = IF @ = None THEN r ELSE @]
    /\ Set(r, [req[r] EXCEPT !.synced = now + 1, !.pc = "save"])
    /\ UNCHANGED service /\ Others

\* The old labels are deleted and the new ones inserted, in one transaction.
SyncLabels(r) ==
    /\ req[r].pc = "sync"
    /\ \E i \in req[r].ids : label' = [label EXCEPT ![i] = r]
    /\ Set(r, [req[r] EXCEPT !.synced = now + 1, !.pc = "save"])
    /\ UNCHANGED service /\ Others

\* What Prometheus knows of a service: whether it is up, and two rates, for which a query may fail.
Metrics == [up : {"error", "down", "up"}, failing : BOOLEAN, slow : BOOLEAN]
Diagnosis(m) == IF m.up = "error" THEN "unknown"
                ELSE IF m.up = "down" \/ m.failing \/ m.slow THEN "unhealthy" ELSE "healthy"

\* A periodic check has its row in memory.
PeriodicCheck(r) ==
    /\ Idle(r)
    /\ \E i \in Ids : /\ copy[i] # None
                      /\ Set(r, [Starts(r, "PeriodicCheck", {i}, None, "save") EXCEPT
                                     !.got[i] = copy[i], !.read[i] = started])
    /\ UNCHANGED <<service, label>> /\ Others

\* The check ends with a verdict, before the row is saved.
Measured(r, i) == {[req[r].got[i] EXCEPT !.health = Diagnosis(m)] : m \in Metrics}

\* Labels that the request does not give are cleared.
EditedAll(r, i) ==
    CASE req[r].op = "UpdateLabels" -> {[req[r].got[i] EXCEPT !.labels = r]}
      [] req[r].op \in {"CheckNow", "PeriodicCheck"} -> Measured(r, i)
      [] req[r].op = "Update" /\ req[r].arg # None -> {[req[r].got[i] EXCEPT !.name = req[r].arg]}
      [] OTHER -> {[req[r].got[i] EXCEPT !.text = r, !.labels = None]}

\* What is saved of a row that was read.
Edited(r, i) ==
    CASE req[r].op = "UpdateLabels" -> {[req[r].got[i] EXCEPT !.labels = r]}
      [] req[r].op \in {"CheckNow", "PeriodicCheck"} -> Measured(r, i)
      [] req[r].op = "Update" /\ req[r].arg # None -> {[req[r].got[i] EXCEPT !.name = req[r].arg]}
      [] OTHER -> {[req[r].got[i] EXCEPT !.text = r]}

\* gorm's Save updates a row that is not deleted, and inserts it otherwise: on the conflict
\* with the deleted row all columns are written, and the row is there again.
Save(r) ==
    /\ req[r].pc = "save"
    /\ \E row \in [Loaded(r) -> UNION {Edited(r, i) : i \in Loaded(r)}] :
           /\ \A i \in Loaded(r) : row[i] \in Edited(r, i) /\ ~Taken(row[i].name, i)
           /\ service' = [i \in Ids |-> IF i \in Loaded(r) THEN row[i] ELSE service[i]]
           /\ Set(r, [Wrote(req[r]) EXCEPT !.arg = IF req[r].op \in {"CheckNow", "PeriodicCheck"}
                                                   THEN row[CHOOSE i \in Loaded(r) : TRUE].health
                                                   ELSE @])
    /\ UNCHANGED label /\ Others

-----------------------------------------------------------------------------
\* A partial index, of the rows that are not removed.
AddDependencyAgain(r) ==
    /\ Idle(r)
    /\ \E p \in Pairs :
           /\ {p[1], p[2]} \subseteq Rows
           /\ IF dep[p] # "there"
              THEN dep' = [dep EXCEPT ![p] = "there"] /\ Set(r, Ended(Starts(r, "Dependency", {}, None, "done"), "ok"))
              ELSE Set(r, Ended(Starts(r, "Dependency", {}, None, "done"), "conflict")) /\ UNCHANGED dep
    /\ UNCHANGED <<service, label, copy, started, restarts>>

\* The unique index on pairs has the removed rows too.
AddDependency(r) ==
    /\ Idle(r)
    /\ \E p \in Pairs :
           /\ {p[1], p[2]} \subseteq Rows
           /\ IF dep[p] = "never"
              THEN dep' = [dep EXCEPT ![p] = "there"] /\ Set(r, Ended(Starts(r, "Dependency", {}, None, "done"), "ok"))
              ELSE Set(r, Ended(Starts(r, "Dependency", {}, None, "done"), "conflict")) /\ UNCHANGED dep
    /\ UNCHANGED <<service, label, copy, started, restarts>>

RemoveDependency(r) ==
    /\ Idle(r)
    /\ \E p \in Pairs :
           IF dep[p] = "there"
           THEN dep' = [dep EXCEPT ![p] = "removed"] /\ Set(r, Ended(Starts(r, "Dependency", {}, None, "done"), "ok"))
           ELSE Set(r, Ended(Starts(r, "Dependency", {}, None, "done"), "missing")) /\ UNCHANGED dep
    /\ UNCHANGED <<service, label, copy, started, restarts>>

\* Dependencies are read, and with them, in statements of their own, the ends named by sides.
Find(r, deps, sides) ==
    /\ Idle(r)
    /\ Set(r, [Starts(r, "Dependencies", {}, None, "preload") EXCEPT !.deps = deps, !.sides = sides, !.left = sides])
    /\ UNCHANGED <<service, label>> /\ Others

There == {p \in Pairs : dep[p] = "there"}

GetDependencies(r) == \E i \in Ids : Find(r, {p \in There : p[1] = i}, {2})

GetDependents(r) == \E i \in Ids : Find(r, {p \in There : p[2] = i}, {1})

GetDependencyGraph(r) == Find(r, There, Sides)

\* Preload, for one side: the services that are not deleted by now.
Preload(r) ==
    /\ req[r].pc = "preload"
    /\ \E side \in req[r].left :
           LET loaded == {<<side, p[side]>> : p \in {d \in req[r].deps : d[side] \in Alive}}
               rec == [req[r] EXCEPT !.left = @ \ {side}, !.ends = @ \union loaded]
           IN  Set(r, IF rec.left = {} THEN Ended(rec, "ok") ELSE rec)
    /\ UNCHANGED <<service, label>> /\ Others

\* Any statement may fail.  A check does not tell that its row was not saved.
Fail(r) ==
    /\ req[r].pc \notin {"new", "done"}
    /\ \/ /\ req[r].pc # "read"
          /\ Set(r, Ended(req[r], IF req[r].op \in {"CheckNow", "PeriodicCheck"} THEN "ok" ELSE "error"))
       \/ /\ req[r].pc = "read"
          /\ \E i \in req[r].ids \ Loaded(r) : Set(r, [req[r] EXCEPT !.ids = @ \ {i}])
    /\ UNCHANGED <<service, label>> /\ Others

\* The requests under way are lost; the checks start with new rows.
Restart ==
    /\ restarts < MaxRestarts
    /\ restarts' = restarts + 1
    /\ copy' = Watched
    /\ started' = now
    /\ req' = [r \in Requests |-> IF req[r].pc = "new" THEN req[r] ELSE [req[r] EXCEPT !.pc = "done"]]
    /\ UNCHANGED <<service, label, dep, now>>

Step(r) == \/ Create(r) \/ Insert(r) \/ BatchCreate(r) \/ Delete(r) \/ BatchDelete(r) \/ UpdateOpenAPI(r)
           \/ GetByID(r) \/ BatchUpdate(r) \/ SyncLabels(r) \/ PeriodicCheck(r) \/ Save(r)
           \/ AddDependency(r) \/ RemoveDependency(r)
           \/ GetDependencies(r) \/ GetDependents(r) \/ GetDependencyGraph(r) \/ Preload(r) \/ Fail(r)

Finished == (\A r \in Requests : req[r].pc = "done") /\ UNCHANGED vars

Next == (\E r \in Requests : Step(r)) \/ Restart \/ Finished

Spec == Init /\ [][Next]_vars

-----------------------------------------------------------------------------
\* The columns that a request was asked to set, with their values.
Sets(r) == CASE req[r].op = "Create" -> {<<"labels", r>>, <<"text", r>>, <<"spec", r>>, <<"alive", TRUE>>}
             [] req[r].op = "Delete" -> {<<"alive", FALSE>>}
             [] req[r].op = "UpdateOpenAPI" -> {<<"spec", r>>}
             [] req[r].op = "UpdateLabels" -> {<<"labels", r>>}
             [] req[r].op \in {"CheckNow", "PeriodicCheck"} -> {<<"health", req[r].arg>>}
             [] req[r].op = "Update" /\ req[r].arg # None -> {<<"name", req[r].arg>>}
             [] OTHER -> {<<"text", r>>}

Overwrites(q, r, i, c) == /\ i \in req[q].ids
                          /\ req[q].wrote > req[r].wrote
                          /\ \/ c \in {s[1] : s \in Sets(q)}
                             \/ req[q].op \in Savers /\ req[q].read[i] < req[r].wrote

\* What a request was asked to set, a deletion included, stays set, unless a later one sets that
\* column too or had read the row before: for the health checks, at the start of the process.
EditsAreKept ==
    \A r \in Requests : req[r].wrote > 0 =>
        \A i \in req[r].ids, s \in Sets(r) :
            service[i][s[1]] = s[2] \/ \E q \in Requests : Overwrites(q, r, i, s[1])

\* The two places where labels are kept agree after they were updated, unless another request
\* wrote the service in the meantime or later.
LabelsAgree ==
    \A r \in Requests : req[r].op = "UpdateLabels" /\ req[r].wrote > 0 =>
        \A i \in req[r].ids :
            \/ label[i] = r /\ service[i].labels = r
            \/ \E q \in Requests \ {r} : i \in req[q].ids /\ (\/ req[q].wrote > req[r].read[i]
                                                             \/ req[q].synced > req[r].read[i])

\* Dependencies and the services at their ends are read by several statements, and deletions
\* leave the dependencies: still, a service is missing at an end only if it was deleted.
EndsAreFound ==
    \A r \in Requests : req[r].op = "Dependencies" /\ req[r].answer = "ok" =>
        \A p \in req[r].deps, side \in req[r].sides :
            \/ <<side, p[side]>> \in req[r].ends
            \/ \E q \in Requests : req[q].op = "Delete" /\ p[side] \in req[q].ids /\ req[q].wrote > 0

\* What is kept in several tables fits together (storage/service_repository.go:171-194,
\* 408-439, platform/handler.go:513-535).
TablesAgree == LabelsAgree /\ EndsAreFound

\* Rows are only marked as deleted and their unique keys stay: a dependency that was removed is
\* never there again, and no new service has the name of a deleted one.
RemovalIsFinal ==
    [][/\ \A p \in Pairs : dep[p] = "removed" => dep'[p] = "removed"
       /\ \A i \in Ids \ Rows, j \in Rows \ Alive : service'[i] # None => service'[i].name # service[j].name]_vars

=============================================================================
