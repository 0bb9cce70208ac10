--------------------------- MODULE Catalogue_proof ---------------------------
(***************************************************************************)
(* Proofs about Catalogue, for any requests, services, names and restarts. *)
(***************************************************************************)
EXTENDS Catalogue, TLAPS

Checks == {"CheckNow", "PeriodicCheck"}
Columns == {"name", "labels", "text", "spec", "health", "alive"}

(* Where a request is says what it was asked for and what it has found. *)
AskedOf(q) ==
    /\ q.pc = "new" => q = New
    /\ q.wrote > 0 => q.pc = "done"
    /\ q.synced > 0 => q.op = "UpdateLabels" /\ q.pc \in {"save", "done"}
    /\ q.pc = "insert" => q.op = "Create" /\ q.arg \in Names /\ q.ids = {}
    /\ q.pc = "read" => q.op = "BatchUpdate"
    /\ q.pc = "sync" => q.op = "UpdateLabels"
    /\ q.pc = "save" => q.op \in Savers
    /\ q.pc \in {"sync", "save"} => \A i \in Ids : i \in q.ids <=> q.got[i] # None
    /\ q.pc = "sync" \/ (q.pc = "save" /\ q.op # "BatchUpdate") => \E i \in Ids : q.ids = {i}
    /\ q.pc = "preload" => q.op = "Dependencies"
    /\ q.pc # "done" => q.answer = None
    /\ q.op = "Dependencies" /\ q.answer = "ok" => q.left = {}
    /\ q.op = "Update" => q.arg \in Names \union {None}
    /\ \A i \in Ids : q.got[i] # None => i \in q.ids

Asked == \A r \in Requests : AskedOf(req[r])

(* What a request remembers of the time has been. *)
Dated == /\ started =< now
         /\ \A r \in Requests : /\ req[r].wrote =< now /\ req[r].synced =< now
                                /\ \A i \in Ids : req[r].read[i] =< now

(* A row that anybody has written, read or named is there, and was not deleted when it was read. *)
Known == /\ \A r \in Requests, i \in Ids : req[r].wrote > 0 /\ i \in req[r].ids => i \in Rows
         /\ \A r \in Requests, i \in Ids : req[r].got[i] # None => i \in Rows /\ req[r].got[i].alive
         /\ \A i \in Ids : copy[i] # None => i \in Rows /\ copy[i].alive
         /\ \A p \in Pairs : dep[p] # "never" => p[1] \in Rows /\ p[2] \in Rows
         /\ \A r \in Requests : \A p \in req[r].deps : p[1] \in Rows /\ p[2] \in Rows

WasDeleted(i) == \E q \in Requests : req[q].op = "Delete" /\ i \in req[q].ids /\ req[q].wrote > 0
Deleted == \A i \in Rows \ Alive : WasDeleted(i)

(* Of a dependency that a request has read, the ends that it has looked for. *)
Found == \A r \in Requests : \A p \in req[r].deps, side \in req[r].sides \ req[r].left :
            <<side, p[side]>> \in req[r].ends \/ WasDeleted(p[side])

(* A row that was read has what was set before. *)
KeptIn(row, read, r, i) ==
    0 < req[r].wrote /\ req[r].wrote =< read /\ i \in req[r].ids =>
        \A s \in Sets(r) : row[s[1]] = s[2] \/ \E q \in Requests : Overwrites(q, r, i, s[1])
ReadIsKept ==
    \A p, r \in Requests, i \in Ids : req[p].got[i] # None => KeptIn(req[p].got[i], req[p].read[i], r, i)
CopyIsKept == \A r \in Requests, i \in Ids : copy[i] # None => KeptIn(copy[i], started, r, i)

(* Another request wrote the service, or its labels, after r had read it. *)
Other(r, i) == \E q \in Requests \ {r} : i \in req[q].ids /\ (\/ req[q].wrote > req[r].read[i]
                                                             \/ req[q].synced > req[r].read[i])
LabelsSynced ==
    \A r \in Requests : req[r].op = "UpdateLabels" /\ req[r].pc = "save" =>
        \A i \in req[r].ids : label[i] = r \/ Other(r, i)

(* The inductive invariant. *)
Invariant == /\ TypeOK /\ Asked /\ Dated /\ Known
             /\ EditsAreKept /\ ReadIsKept /\ CopyIsKept
             /\ LabelsAgree /\ LabelsSynced
             /\ Deleted /\ Found

-----------------------------------------------------------------------------

(* The invariant holds at the start. *)
LEMMA InitHolds == Init => Invariant
<1> SUFFICES ASSUME Init PROVE Invariant
  OBVIOUS
<1>1. \A r \in Requests : req[r] = New
  BY DEF Init
<1>2. New \in Request
  BY DEF New, Request
<1>3. service \in [Ids -> Row \union {None}] /\ \A i \in Rows : service[i].alive
  BY DEF Init, Row, Setters, Status, Rows
<1>4. copy = Watched /\ Alive = Rows
  BY <1>3 DEF Init, Alive
<1>5. \A i \in Ids : copy[i] # None => i \in Rows /\ copy[i] = service[i] /\ copy[i].alive
  BY <1>3, <1>4 DEF Watched, Alive
<1>6. copy \in [Ids -> Row \union {None}]
  BY <1>3, <1>4 DEF Watched, Alive
<1>7. TypeOK
  BY <1>2, <1>3, <1>6, CatalogueAssumption DEF Init, TypeOK, Setters
<1>8. Asked
  BY <1>1 DEF Asked, AskedOf, New
<1>9. Dated /\ Known /\ Found
  <2>1. Dated
    BY <1>1 DEF Init, Dated, New
  <2>2. \A r \in Requests : /\ req[r].wrote = 0 /\ req[r].deps = {}
                           /\ \A i \in Ids : req[r].got[i] = None
    BY <1>1 DEF New
  <2>3. \A p \in Pairs : dep[p] = "never"
    BY DEF Init
  <2> QED
    BY <1>5, <2>1, <2>2, <2>3 DEF Known, Found
<1>10. EditsAreKept /\ ReadIsKept /\ CopyIsKept
  BY <1>1 DEF EditsAreKept, ReadIsKept, CopyIsKept, KeptIn, New
<1>11. LabelsAgree /\ LabelsSynced
  BY <1>1 DEF LabelsAgree, LabelsSynced, New
<1>12. Deleted
  BY <1>4 DEF Deleted
<1> QED
  BY <1>7, <1>8, <1>9, <1>10, <1>11, <1>12 DEF Invariant

(* What a step makes of what is recorded of a request. *)
Becomes(r, rec) == /\ rec \in Request /\ AskedOf(rec)
                   /\ Set(r, rec)

(* What becomes of the requests when one becomes rec. *)
LEMMA Becoming ==
    ASSUME TypeOK, NEW r \in Requests, NEW rec, Becomes(r, rec)
    PROVE  /\ req' \in [Requests -> Request]
           /\ req'[r] = rec
           /\ \A q \in Requests \ {r} : req'[q] = req[q]
           /\ now' \in {now, now + 1} /\ now' \in Nat
           /\ now + 1 \in {rec.wrote, rec.synced} => now' = now + 1
           /\ now + 1 \notin {rec.wrote, rec.synced} => now' = now
  BY DEF Becomes, Set, TypeOK

Ops == Savers \union {"Create", "Delete", "UpdateOpenAPI", "Dependency", "Dependencies"}
Labels == {"new", "insert", "read", "sync", "save", "preload", "done"}

(* A request that begins, and perhaps ends at once. *)
Begun(q, op, ids, arg, pc) ==
    /\ q \in Request
    /\ q.op = op /\ q.ids = ids /\ q.arg = arg /\ q.pc = pc
    /\ q.wrote = 0 /\ q.synced = 0 /\ q.deps = {} /\ q.left = {} /\ q.answer = None
    /\ q.got = [i \in Ids |-> None] /\ q.read = [i \in Ids |-> 0]

(* How a request begins. *)
LEMMA Beginnings ==
    ASSUME NEW r, NEW op \in Ops, NEW ids \in SUBSET Ids, NEW arg \in Names \union {None}, NEW pc \in Labels
    PROVE  Begun(Starts(r, op, ids, arg, pc), op, ids, arg, pc)
<1> DEFINE q == Starts(r, op, ids, arg, pc)
<1>1. New \in Request
  BY DEF New, Request
<1>2. op \in Savers \union {"Create", "Delete", "UpdateOpenAPI", "Dependency", "Dependencies", None}
  BY DEF Ops
<1>3. q \in Request
  BY <1>1, <1>2 DEF Starts, Request, Labels
<1>4. /\ q.op = op /\ q.ids = ids /\ q.arg = arg /\ q.pc = pc
      /\ q.wrote = 0 /\ q.synced = 0 /\ q.deps = {} /\ q.left = {} /\ q.answer = None
      /\ q.got = [i \in Ids |-> None] /\ q.read = [i \in Ids |-> 0]
  BY DEF Starts, New
<1> QED
  BY <1>3, <1>4 DEF Begun

(* The ends of a request. *)
LEMMA Endings ==
    ASSUME now \in Nat, NEW q \in Request
    PROVE  /\ \A a \in Answers : Ended(q, a) = [q EXCEPT !.pc = "done", !.answer = a] /\ Ended(q, a) \in Request
           /\ Wrote(q) = [q EXCEPT !.pc = "done", !.wrote = now + 1, !.answer = "ok"] /\ Wrote(q) \in Request
<1>1. \A a \in Answers : [q EXCEPT !.pc = "done", !.answer = a] \in Request
  BY DEF Request, Answers
<1>2. \A w \in Nat : [q EXCEPT !.pc = "done", !.wrote = w, !.answer = "ok"] \in Request
  BY DEF Request, Answers
<1>3. now + 1 \in Nat
  OBVIOUS
<1> QED
  BY <1>1, <1>2, <1>3 DEF Ended, Wrote

-----------------------------------------------------------------------------
(* The rows that rec holds, r has held, reads now, or has from the health checks. *)
Loads(r, rec) ==
    \A i \in Ids :
        /\ rec.read[i] =< now
        /\ rec.got[i] # None => \/ rec.got[i] = req[r].got[i] /\ rec.read[i] = req[r].read[i]
                                \/ i \in Alive /\ rec.got[i] = service[i] /\ rec.read[i] = now
                                \/ rec.got[i] = copy[i] /\ rec.read[i] = started

(* The dependencies of rec are read now, or some of their ends are. *)
Finds(r, rec) ==
    \/ rec.deps = {}
    \/ rec.deps \subseteq There /\ rec.left = rec.sides
    \/ /\ rec.deps = req[r].deps /\ rec.sides = req[r].sides /\ req[r].ends \subseteq rec.ends
       /\ \A p \in rec.deps, side \in req[r].left \ rec.left : p[side] \in Alive => <<side, p[side]>> \in rec.ends

(* A step that makes rec of request r. *)
Goes(r, rec) == /\ Becomes(r, rec) /\ Loads(r, rec) /\ Finds(r, rec)
                /\ req[r].wrote = 0 /\ (req[r].synced > 0 => rec.ids = req[r].ids)

(* It writes nothing; *)
Quiet(r, rec) == /\ Goes(r, rec) /\ UNCHANGED <<service, label>>
                 /\ rec.wrote = 0 /\ rec.synced = req[r].synced
                 /\ rec.op = "UpdateLabels" => rec.pc # "save"

(* it writes the labels of a row; *)
Syncs(r, rec) == /\ Goes(r, rec) /\ UNCHANGED service
                 /\ req[r].pc = "sync" /\ rec.wrote = 0 /\ rec.synced = now + 1
                 /\ rec.ids = req[r].ids
                 /\ label' = [i \in Ids |-> IF i \in req[r].ids THEN r ELSE label[i]]

(* or it writes rows: the columns it was asked to set, and perhaps what it has read before. *)
Written(r, rec, i) ==
    /\ service'[i] \in Row
    /\ \A s \in Sets(r)' : s[1] \in Columns /\ service'[i][s[1]] = s[2]
    /\ \A c \in Columns : \/ \E s \in Sets(r)' : s[1] = c
                          \/ service[i] = None
                          \/ service[i] # None /\ service'[i][c] = service[i][c]
                          \/ rec.op \in Savers /\ rec.got[i] # None /\ service'[i][c] = rec.got[i][c]
    /\ rec.op = "Delete" \/ service'[i].alive
Writes(r, rec) == /\ Goes(r, rec) /\ UNCHANGED label
                  /\ rec.wrote = now + 1 /\ rec.synced = req[r].synced
                  /\ service' \in [Ids -> Row \union {None}]
                  /\ \A i \in Ids \ rec.ids : service'[i] = service[i]
                  /\ \A i \in rec.ids : Written(r, rec, i)
                  /\ rec.op = "UpdateLabels" => /\ req[r].op = "UpdateLabels" /\ req[r].pc = "save"
                                               /\ rec.ids = req[r].ids /\ rec.read = req[r].read

(* A request that is refused. *)
LEMMA Refusals ==
    ASSUME TypeOK, Asked, NEW r \in Requests, Idle(r), UNCHANGED <<service, label>>,
           NEW op \in Ops, NEW arg \in Names \union {None}, NEW a \in Answers,
           op # "Dependencies" \/ a # "ok", Set(r, Ended(Starts(r, op, {}, arg, "done"), a))
    PROVE  \E rec : Quiet(r, rec)
<1> DEFINE q == Starts(r, op, {}, arg, "done")
           rec == Ended(q, a)
<1>1. /\ q \in Request /\ q.op = op /\ q.arg = arg /\ q.ids = {}
      /\ q.wrote = 0 /\ q.synced = 0 /\ q.deps = {}
      /\ q.got = [i \in Ids |-> None] /\ q.read = [i \in Ids |-> 0]
  <2>1. Begun(q, op, {}, arg, "done")
    BY Beginnings DEF Labels
  <2> QED
    BY <2>1 DEF Begun
<1> HIDE DEF q
<1>2. now \in Nat /\ req[r] = New
  BY DEF TypeOK, Asked, AskedOf, Idle
<1>3. rec = [q EXCEPT !.pc = "done", !.answer = a] /\ rec \in Request
  BY <1>1, <1>2, Endings
<1> HIDE DEF rec
<1>4. /\ rec.op = op /\ rec.arg = arg /\ rec.ids = {} /\ rec.pc = "done" /\ rec.answer = a
      /\ rec.wrote = 0 /\ rec.synced = 0 /\ rec.deps = {}
      /\ rec.got = [i \in Ids |-> None] /\ rec.read = [i \in Ids |-> 0]
  BY <1>1, <1>3 DEF Request
<1>5. AskedOf(rec)
  BY <1>4 DEF AskedOf
<1>6. Becomes(r, rec)
  BY <1>3, <1>5 DEF Becomes, rec, q
<1>7. req[r].wrote = 0 /\ req[r].synced = 0
  BY <1>2 DEF New
<1> QED
  BY <1>2, <1>4, <1>6, <1>7 DEF Quiet, Goes, Loads, Finds

(* A request that begins without an answer. *)
LEMMA Openings ==
    ASSUME TypeOK, Asked, Dated, NEW r \in Requests, Idle(r), UNCHANGED <<service, label>>,
           NEW q \in Request, AskedOf(q), Set(r, q), q.wrote = 0, q.synced = 0,
           q.op = "UpdateLabels" => q.pc # "save",
           Loads(r, q), q.deps = {} \/ (q.deps \subseteq There /\ q.left = q.sides)
    PROVE  \E rec : Quiet(r, rec)
<1>1. req[r] = New
  BY DEF Asked, AskedOf, Idle
<1>2. req[r].wrote = 0 /\ req[r].synced = 0
  BY <1>1 DEF New
<1> QED
  BY <1>2 DEF Quiet, Goes, Finds, Becomes

(* The beginnings that write nothing to a service, but may read it. *)
LEMMA QuietBeginnings ==
    ASSUME TypeOK, Asked, Dated, NEW r \in Requests,
           \/ Create(r) \/ GetByID(r) \/ PeriodicCheck(r) \/ (Idle(r) /\ BatchUpdate(r))
           \/ GetDependencies(r) \/ GetDependents(r) \/ GetDependencyGraph(r)
           \/ AddDependency(r) \/ RemoveDependency(r)
    PROVE  \E rec : Quiet(r, rec)
<1>0. now \in Nat /\ started \in Nat /\ started =< now
  BY DEF TypeOK, Dated
<1>a. {"done", "insert", "read", "sync", "save", "preload"} \subseteq Labels /\ Savers \subseteq Ops
      /\ {"Create", "Delete", "UpdateOpenAPI", "Dependency", "Dependencies"} \subseteq Ops
  BY DEF Labels, Ops
<1>b. {"Update", "UpdateLabels", "CheckNow", "BatchUpdate", "PeriodicCheck"} = Savers
  BY DEF Savers
<1>c. {"ok", "conflict", "missing", "error"} \subseteq Answers
  BY DEF Answers
<1>1. CASE Create(r)
  <2>1. PICK name \in Names :
           Set(r, IF \E i \in Alive : service[i].name = name
                  THEN Ended(Starts(r, "Create", {}, name, "done"), "conflict")
                  ELSE Starts(r, "Create", {}, name, "insert"))
    BY <1>1 DEF Create
  <2>2. Idle(r) /\ UNCHANGED <<service, label>>
    BY <1>1 DEF Create
  <2>3. CASE \E i \in Alive : service[i].name = name
    BY <1>a, <1>c, <2>1, <2>2, <2>3, Refusals
  <2>4. CASE ~ \E i \in Alive : service[i].name = name
    <3> DEFINE q == Starts(r, "Create", {}, name, "insert")
    <3>1. /\ q \in Request /\ q.op = "Create" /\ q.arg = name /\ q.ids = {} /\ q.pc = "insert"
          /\ q.wrote = 0 /\ q.synced = 0 /\ q.deps = {} /\ q.answer = None
          /\ q.got = [i \in Ids |-> None] /\ q.read = [i \in Ids |-> 0]
      <4>1. Begun(q, "Create", {}, name, "insert")
        BY <1>a, Beginnings
      <4> QED
        BY <4>1 DEF Begun
    <3>2. Set(r, q)
      BY <2>1, <2>4
    <3> HIDE DEF q
    <3>3. AskedOf(q) /\ Loads(r, q)
      BY <1>0, <3>1 DEF AskedOf, Loads
    <3> QED
      BY <2>2, <3>1, <3>2, <3>3, Openings
  <2> QED
    BY <2>3, <2>4
<1>2. CASE GetByID(r)
  <2>1. PICK i \in Ids, op \in {"Update", "UpdateLabels", "CheckNow"}, arg \in Names \union {None} :
           /\ arg # None => op = "Update"
           /\ Set(r, IF i \notin Alive THEN Ended(Starts(r, op, {}, arg, "done"), "missing")
                     ELSE Read(Starts(r, op, {i}, arg, IF op = "UpdateLabels" THEN "sync" ELSE "save"), i))
    BY <1>2 DEF GetByID
  <2>2. Idle(r) /\ UNCHANGED <<service, label>> /\ op \in Ops
    BY <1>2, <1>a, <1>b DEF GetByID
  <2>3. CASE i \notin Alive
    BY <1>a, <1>c, <2>1, <2>2, <2>3, Refusals
  <2>4. CASE i \in Alive
    <3> DEFINE pc == IF op = "UpdateLabels" THEN "sync" ELSE "save"
               q == Starts(r, op, {i}, arg, pc)
               rec == Read(q, i)
    <3>0. pc \in {"sync", "save"} /\ pc \in Labels /\ (op = "UpdateLabels" <=> pc = "sync")
      BY <1>a
    <3>1. Set(r, rec)
      BY <2>1, <2>4
    <3> HIDE DEF pc
    <3>2. /\ q \in Request /\ q.op = op /\ q.arg = arg /\ q.ids = {i} /\ q.pc = pc
          /\ q.wrote = 0 /\ q.synced = 0 /\ q.deps = {} /\ q.answer = None
          /\ q.got = [j \in Ids |-> None] /\ q.read = [j \in Ids |-> 0]
      <4>1. Begun(q, op, {i}, arg, pc)
        BY <2>2, <3>0, Beginnings
      <4> QED
        BY <4>1 DEF Begun
    <3> HIDE DEF q
    <3>3. service[i] \in Row /\ service[i] # None
      BY <2>4 DEF Alive, Rows, TypeOK
    <3>4. rec \in Request
      BY <1>0, <3>2, <3>3 DEF Request, Read
    <3>5. /\ rec.op = op /\ rec.arg = arg /\ rec.ids = {i} /\ rec.pc = pc
          /\ rec.wrote = 0 /\ rec.synced = 0 /\ rec.deps = {} /\ rec.answer = None
          /\ rec.got[i] = service[i] /\ rec.read[i] = now
          /\ \A j \in Ids \ {i} : rec.got[j] = None /\ rec.read[j] = 0
      BY <3>2 DEF Request, Read
    <3> HIDE DEF rec
    <3>6. AskedOf(rec)
      BY <1>b, <2>1, <3>0, <3>3, <3>5 DEF AskedOf
    <3>7. Loads(r, rec)
      BY <1>0, <2>4, <3>5 DEF Loads
    <3> QED
      BY <2>2, <3>0, <3>1, <3>4, <3>5, <3>6, <3>7, Openings
  <2> QED
    BY <2>3, <2>4
<1>3. CASE PeriodicCheck(r)
  <2>1. PICK i \in Ids : /\ copy[i] # None
                         /\ Set(r, [Starts(r, "PeriodicCheck", {i}, None, "save") EXCEPT
                                      !.got[i] = copy[i], !.read[i] = started])
    BY <1>3 DEF PeriodicCheck
  <2>2. Idle(r) /\ UNCHANGED <<service, label>>
    BY <1>3 DEF PeriodicCheck
  <2> DEFINE q == Starts(r, "PeriodicCheck", {i}, None, "save")
             rec == [q EXCEPT !.got[i] = copy[i], !.read[i] = started]
  <2>3. Set(r, rec)
    BY <2>1
  <2>4. /\ q \in Request /\ q.op = "PeriodicCheck" /\ q.arg = None /\ q.ids = {i} /\ q.pc = "save"
        /\ q.wrote = 0 /\ q.synced = 0 /\ q.deps = {} /\ q.answer = None
        /\ q.got = [j \in Ids |-> None] /\ q.read = [j \in Ids |-> 0]
    <3>1. Begun(q, "PeriodicCheck", {i}, None, "save")
      BY <1>a, <1>b, Beginnings
    <3> QED
      BY <3>1 DEF Begun
  <2> HIDE DEF q
  <2>5. copy[i] \in Row
    BY <2>1 DEF TypeOK
  <2>6. rec \in Request
    BY <1>0, <2>4, <2>5 DEF Request
  <2>7. /\ rec.op = "PeriodicCheck" /\ rec.ids = {i} /\ rec.pc = "save"
        /\ rec.wrote = 0 /\ rec.synced = 0 /\ rec.deps = {} /\ rec.answer = None
        /\ rec.got[i] = copy[i] /\ rec.read[i] = started
        /\ \A j \in Ids \ {i} : rec.got[j] = None /\ rec.read[j] = 0
    BY <2>4 DEF Request
  <2> HIDE DEF rec
  <2>8. AskedOf(rec)
    BY <1>b, <2>1, <2>7 DEF AskedOf
  <2>9. Loads(r, rec)
    BY <1>0, <2>7 DEF Loads
  <2> QED
    BY <2>2, <2>3, <2>6, <2>7, <2>8, <2>9, Openings
<1>4. CASE Idle(r) /\ BatchUpdate(r)
  <2> DEFINE q == Starts(r, "BatchUpdate", Ids, None, "read")
  <2>1. /\ q \in Request /\ q.op = "BatchUpdate" /\ q.pc = "read"
        /\ q.wrote = 0 /\ q.synced = 0 /\ q.deps = {} /\ q.answer = None
        /\ q.got = [j \in Ids |-> None] /\ q.read = [j \in Ids |-> 0]
    <3>1. Begun(q, "BatchUpdate", Ids, None, "read")
      BY <1>a, <1>b, Beginnings
    <3> QED
      BY <3>1 DEF Begun
  <2>2. Set(r, q) /\ UNCHANGED <<service, label>>
    BY <1>4 DEF BatchUpdate, Idle
  <2> HIDE DEF q
  <2>3. AskedOf(q) /\ Loads(r, q)
    BY <1>0, <2>1 DEF AskedOf, Loads
  <2> QED
    BY <1>4, <2>1, <2>2, <2>3, Openings
<1>5. CASE GetDependencies(r) \/ GetDependents(r) \/ GetDependencyGraph(r)
  <2>1. PICK deps \in SUBSET There, sides \in SUBSET Sides : Find(r, deps, sides)
    <3>1. {2} \in SUBSET Sides /\ {1} \in SUBSET Sides /\ Sides \in SUBSET Sides
      BY DEF Sides
    <3> QED
      BY <1>5, <3>1 DEF GetDependencies, GetDependents, GetDependencyGraph
  <2> DEFINE q == Starts(r, "Dependencies", {}, None, "preload")
             rec == [q EXCEPT !.deps = deps, !.sides = sides, !.left = sides]
  <2>2. /\ q \in Request /\ q.op = "Dependencies" /\ q.pc = "preload"
        /\ q.wrote = 0 /\ q.synced = 0 /\ q.answer = None
        /\ q.got = [j \in Ids |-> None] /\ q.read = [j \in Ids |-> 0]
    <3>1. Begun(q, "Dependencies", {}, None, "preload")
      BY <1>a, Beginnings
    <3> QED
      BY <3>1 DEF Begun
  <2>3. Set(r, rec) /\ UNCHANGED <<service, label>> /\ Idle(r)
    BY <2>1 DEF Find
  <2> HIDE DEF q
  <2>4. deps \in SUBSET Pairs
    BY DEF There
  <2>5. rec \in Request
    BY <2>2, <2>4 DEF Request
  <2>6. /\ rec.op = "Dependencies" /\ rec.pc = "preload"
        /\ rec.wrote = 0 /\ rec.synced = 0 /\ rec.answer = None
        /\ rec.got = [j \in Ids |-> None] /\ rec.read = [j \in Ids |-> 0]
        /\ rec.deps = deps /\ rec.left = rec.sides
    BY <2>2 DEF Request
  <2> HIDE DEF rec
  <2>7. AskedOf(rec)
    BY <2>6, NoneIsNoRow DEF AskedOf, Answers
  <2>8. Loads(r, rec)
    BY <1>0, <2>6 DEF Loads
  <2> QED
    BY <2>3, <2>5, <2>6, <2>7, <2>8, Openings
<1>6. CASE AddDependency(r) \/ RemoveDependency(r)
  <2>1. Idle(r) /\ UNCHANGED <<service, label>>
    BY <1>6 DEF AddDependency, RemoveDependency
  <2>2. \E a \in {"ok", "conflict", "missing"} : Set(r, Ended(Starts(r, "Dependency", {}, None, "done"), a))
    BY <1>6 DEF AddDependency, RemoveDependency
  <2> QED
    BY <1>a, <1>c, <2>1, <2>2, Refusals
<1> QED
  BY <1>1, <1>2, <1>3, <1>4, <1>5, <1>6

(* A request that goes on with what it holds, and writes nothing. *)
LEMMA Continuing ==
    ASSUME TypeOK, Asked, Dated, NEW r \in Requests, req[r].pc \notin {"new", "done"}, UNCHANGED <<service, label>>,
           NEW q \in Request, AskedOf(q), Set(r, q), q.wrote = 0, q.synced = req[r].synced,
           q.op = "UpdateLabels" => q.pc # "save",
           Loads(r, q), Finds(r, q), req[r].synced > 0 => q.ids = req[r].ids
    PROVE  \E rec : Quiet(r, rec)
<1>1. req[r].wrote = 0
  BY DEF Asked, AskedOf, TypeOK, Request
<1> QED
  BY <1>1 DEF Quiet, Goes, Becomes

(* The later steps that write nothing to a service. *)
LEMMA QuietSteps ==
    ASSUME TypeOK, Asked, Dated, NEW r \in Requests,
           (BatchUpdate(r) /\ ~Idle(r)) \/ Preload(r) \/ Fail(r)
    PROVE  \E rec : Quiet(r, rec)
<1>0. req[r] \in Request /\ AskedOf(req[r]) /\ now \in Nat
  BY DEF TypeOK, Asked
<1>a. \A i \in Ids : req[r].read[i] \in Nat /\ req[r].read[i] =< now
  BY <1>0 DEF Dated, Request
<1>b. Loads(r, req[r]) /\ Finds(r, req[r])
  BY <1>a DEF Loads, Finds
<1>1. CASE BatchUpdate(r) /\ ~Idle(r)
  <2> DEFINE todo == req[r].ids \ Loaded(r)
  <2>1. /\ req[r].pc = "read" /\ UNCHANGED <<service, label>>
        /\ IF todo = {} THEN Set(r, IF req[r].ids = {} THEN Ended(req[r], "ok") ELSE [req[r] EXCEPT !.pc = "save"])
            ELSE \E i \in todo : Set(r, IF i \in Alive THEN Read(req[r], i) ELSE [req[r] EXCEPT !.ids = @ \ {i}])
    BY <1>1 DEF BatchUpdate
  <2>2. req[r].op = "BatchUpdate" /\ req[r].answer = None /\ req[r].wrote = 0 /\ req[r].synced = 0
    BY <1>0, <2>1 DEF AskedOf, Request
  <2>3. CASE todo = {} /\ req[r].ids = {}
    <3> DEFINE q == [req[r] EXCEPT !.pc = "done", !.answer = "ok"]
    <3>1. Set(r, q)
      BY <1>0, <2>1, <2>3, Endings DEF Ended
    <3>2. q \in Request
      BY <1>0 DEF Request, Answers
    <3>3. /\ q.pc = "done" /\ q.op = req[r].op /\ q.ids = req[r].ids /\ q.wrote = 0 /\ q.synced = 0
          /\ q.got = req[r].got /\ q.read = req[r].read /\ q.arg = req[r].arg
          /\ q.deps = req[r].deps /\ q.sides = req[r].sides /\ q.left = req[r].left /\ q.ends = req[r].ends
      BY <1>0, <2>2 DEF Request
    <3> HIDE DEF q
    <3>4. AskedOf(q) /\ Loads(r, q) /\ Finds(r, q)
      BY <1>0, <1>b, <2>2, <3>3 DEF AskedOf, Loads, Finds
    <3> QED
      BY <2>1, <2>2, <3>1, <3>2, <3>3, <3>4, Continuing
  <2>4. CASE todo = {} /\ req[r].ids # {}
    <3> DEFINE q == [req[r] EXCEPT !.pc = "save"]
    <3>1. Set(r, q)
      BY <2>1, <2>4
    <3>2. q \in Request
      BY <1>0 DEF Request
    <3>3. /\ q.pc = "save" /\ q.op = req[r].op /\ q.ids = req[r].ids /\ q.wrote = 0 /\ q.synced = 0 /\ q.answer = None
          /\ q.got = req[r].got /\ q.read = req[r].read /\ q.arg = req[r].arg
          /\ q.deps = req[r].deps /\ q.sides = req[r].sides /\ q.left = req[r].left /\ q.ends = req[r].ends
      BY <1>0, <2>2 DEF Request
    <3> HIDE DEF q
    <3>4. \A i \in Ids : i \in req[r].ids <=> req[r].got[i] # None
      BY <1>0, <2>4 DEF Loaded, AskedOf
    <3>5. AskedOf(q) /\ Loads(r, q) /\ Finds(r, q)
      BY <1>0, <1>b, <2>2, <3>3, <3>4 DEF AskedOf, Loads, Finds, Savers
    <3> QED
      BY <2>1, <2>2, <3>1, <3>2, <3>3, <3>5, Continuing
  <2>5. CASE todo # {}
    <3>1. PICK i \in todo : Set(r, IF i \in Alive THEN Read(req[r], i) ELSE [req[r] EXCEPT !.ids = @ \ {i}])
      BY <2>1, <2>5
    <3>2. i \in Ids /\ i \in req[r].ids /\ req[r].got[i] = None
      BY <1>0 DEF Loaded, Request
    <3>3. CASE i \in Alive
      <4> DEFINE q == Read(req[r], i)
      <4>1. Set(r, q)
        BY <3>1, <3>3
      <4>2. service[i] \in Row /\ service[i] # None
        BY <3>3 DEF Alive, Rows, TypeOK
      <4>3. q \in Request
        BY <1>0, <3>2, <4>2 DEF Read, Request
      <4>4. /\ q.pc = "read" /\ q.op = req[r].op /\ q.ids = req[r].ids /\ q.wrote = 0 /\ q.synced = 0 /\ q.answer = None
            /\ q.got[i] = service[i] /\ q.read[i] = now /\ q.arg = req[r].arg
            /\ \A j \in Ids \ {i} : q.got[j] = req[r].got[j] /\ q.read[j] = req[r].read[j]
            /\ q.deps = req[r].deps /\ q.sides = req[r].sides /\ q.left = req[r].left /\ q.ends = req[r].ends
        BY <1>0, <2>1, <2>2, <3>2 DEF Read, Request
      <4> HIDE DEF q
      <4>5. AskedOf(q)
        BY <1>0, <2>2, <3>2, <4>4 DEF AskedOf
      <4>6. Loads(r, q) /\ Finds(r, q)
        BY <1>0, <1>a, <3>3, <4>4 DEF Loads, Finds
      <4> QED
        BY <2>1, <2>2, <4>1, <4>3, <4>4, <4>5, <4>6, Continuing
    <3>4. CASE i \notin Alive
      <4> DEFINE q == [req[r] EXCEPT !.ids = @ \ {i}]
      <4>1. Set(r, q)
        BY <3>1, <3>4
      <4>2. q \in Request
        BY <1>0 DEF Request
      <4>3. /\ q.pc = "read" /\ q.op = req[r].op /\ q.ids = req[r].ids \ {i} /\ q.wrote = 0 /\ q.synced = 0 /\ q.answer = None
            /\ q.got = req[r].got /\ q.read = req[r].read /\ q.arg = req[r].arg
            /\ q.deps = req[r].deps /\ q.sides = req[r].sides /\ q.left = req[r].left /\ q.ends = req[r].ends
        BY <1>0, <2>1, <2>2 DEF Request
      <4> HIDE DEF q
      <4>4. AskedOf(q) /\ Loads(r, q) /\ Finds(r, q)
        BY <1>0, <1>b, <2>2, <3>2, <4>3 DEF AskedOf, Loads, Finds
      <4> QED
        BY <2>1, <2>2, <4>1, <4>2, <4>3, <4>4, Continuing
    <3> QED
      BY <3>3, <3>4
  <2> QED
    BY <2>3, <2>4, <2>5
<1>2. CASE Preload(r)
  <2>1. PICK side \in req[r].left :
           LET loaded == {<<side, p[side]>> : p \in {d \in req[r].deps : d[side] \in Alive}}
               rec == [req[r] EXCEPT !.left = @ \ {side}, !.ends = @ \union loaded]
           IN  Set(r, IF rec.left = {} THEN Ended(rec, "ok") ELSE rec)
    BY <1>2 DEF Preload
  <2> DEFINE loaded == {<<side, p[side]>> : p \in {d \in req[r].deps : d[side] \in Alive}}
             rec == [req[r] EXCEPT !.left = @ \ {side}, !.ends = @ \union loaded]
  <2>2. req[r].pc = "preload" /\ UNCHANGED <<service, label>>
    BY <1>2 DEF Preload
  <2>3. req[r].op = "Dependencies" /\ req[r].answer = None /\ req[r].wrote = 0 /\ req[r].synced = 0
    BY <1>0, <2>2 DEF AskedOf, Request
  <2>4. loaded \in SUBSET (Sides \X Ids)
    BY <1>0 DEF Request, Alive, Rows
  <2>5. \A p \in req[r].deps : p[side] \in Alive => <<side, p[side]>> \in loaded
    OBVIOUS
  <2>6. Set(r, IF rec.left = {} THEN Ended(rec, "ok") ELSE rec)
    BY <2>1
  <2> HIDE DEF loaded
  <2>7. rec \in Request
    BY <1>0, <2>4 DEF Request
  <2>8. /\ rec.pc = "preload" /\ rec.op = req[r].op /\ rec.ids = req[r].ids /\ rec.wrote = 0 /\ rec.synced = 0
        /\ rec.got = req[r].got /\ rec.read = req[r].read /\ rec.arg = req[r].arg /\ rec.answer = None
        /\ rec.deps = req[r].deps /\ rec.sides = req[r].sides
        /\ rec.left = req[r].left \ {side} /\ rec.ends = req[r].ends \union loaded
    BY <1>0, <2>2, <2>3 DEF Request
  <2> HIDE DEF rec
  <2>9. Loads(r, rec)
    BY <1>b, <2>8 DEF Loads
  <2>10. Finds(r, rec)
    <3>1. \A p \in rec.deps, x \in req[r].left \ rec.left : p[x] \in Alive => <<x, p[x]>> \in rec.ends
      BY <2>5, <2>8
    <3> QED
      BY <2>8, <3>1 DEF Finds
  <2>11. CASE rec.left # {}
    <3>1. AskedOf(rec)
      BY <1>0, <2>2, <2>3, <2>8, NoneIsNoRow DEF AskedOf, Answers
    <3> QED
      BY <2>2, <2>3, <2>6, <2>7, <2>8, <2>9, <2>10, <2>11, <3>1, Continuing
  <2>12. CASE rec.left = {}
    <3> DEFINE q == [rec EXCEPT !.pc = "done", !.answer = "ok"]
    <3>1. Set(r, q)
      BY <2>6, <2>12 DEF Ended
    <3>2. q \in Request
      BY <2>7 DEF Request, Answers
    <3>3. /\ q.pc = "done" /\ q.op = req[r].op /\ q.ids = req[r].ids /\ q.wrote = 0 /\ q.synced = 0
          /\ q.got = req[r].got /\ q.read = req[r].read /\ q.arg = req[r].arg
          /\ q.deps = rec.deps /\ q.sides = rec.sides /\ q.left = rec.left /\ q.ends = rec.ends
      BY <2>7, <2>8 DEF Request
    <3> HIDE DEF q
    <3>4. AskedOf(q) /\ Loads(r, q) /\ Finds(r, q)
      BY <1>0, <1>b, <2>2, <2>3, <2>10, <2>12, <3>3 DEF AskedOf, Loads, Finds
    <3> QED
      BY <2>2, <2>3, <3>1, <3>2, <3>3, <3>4, Continuing
  <2> QED
    BY <2>11, <2>12
<1>3. CASE Fail(r)
  <2>1. req[r].pc \notin {"new", "done"} /\ UNCHANGED <<service, label>>
    BY <1>3 DEF Fail
  <2>2. req[r].wrote = 0 /\ req[r].answer = None
    BY <1>0, <2>1 DEF AskedOf, Request
  <2>3. CASE req[r].pc # "read"
    <3>1. PICK a \in {"ok", "error"} : /\ Set(r, Ended(req[r], a))
                                       /\ req[r].op = "Dependencies" => a = "error"
      BY <1>3, <2>3 DEF Fail
    <3> DEFINE q == [req[r] EXCEPT !.pc = "done", !.answer = a]
    <3>2. Set(r, q)
      BY <3>1 DEF Ended
    <3>3. q \in Request
      BY <1>0 DEF Request, Answers
    <3>4. /\ q.pc = "done" /\ q.op = req[r].op /\ q.ids = req[r].ids /\ q.wrote = 0 /\ q.synced = req[r].synced
          /\ q.got = req[r].got /\ q.read = req[r].read /\ q.arg = req[r].arg /\ q.answer = a
          /\ q.deps = req[r].deps /\ q.sides = req[r].sides /\ q.left = req[r].left /\ q.ends = req[r].ends
      BY <1>0, <2>2 DEF Request
    <3> HIDE DEF q
    <3>5. AskedOf(q)
      BY <1>0, <2>1, <2>2, <3>1, <3>4 DEF AskedOf
    <3>6. Loads(r, q) /\ Finds(r, q)
      BY <1>b, <3>4 DEF Loads, Finds
    <3> QED
      BY <2>1, <2>2, <3>2, <3>3, <3>4, <3>5, <3>6, Continuing
  <2>4. CASE req[r].pc = "read"
    <3>1. PICK i \in req[r].ids \ Loaded(r) : Set(r, [req[r] EXCEPT !.ids = @ \ {i}])
      BY <1>3, <2>4 DEF Fail
    <3>2. i \in Ids /\ req[r].got[i] = None /\ req[r].synced = 0 /\ req[r].op = "BatchUpdate"
      BY <1>0, <2>4 DEF Loaded, Request, AskedOf
    <3> DEFINE q == [req[r] EXCEPT !.ids = @ \ {i}]
    <3>3. q \in Request
      BY <1>0 DEF Request
    <3>4. /\ q.pc = "read" /\ q.op = req[r].op /\ q.ids = req[r].ids \ {i} /\ q.wrote = 0 /\ q.synced = 0 /\ q.answer = None
          /\ q.got = req[r].got /\ q.read = req[r].read /\ q.arg = req[r].arg
          /\ q.deps = req[r].deps /\ q.sides = req[r].sides /\ q.left = req[r].left /\ q.ends = req[r].ends
      BY <1>0, <2>2, <2>4, <3>2 DEF Request
    <3>5. Set(r, q)
      BY <3>1
    <3> HIDE DEF q
    <3>6. AskedOf(q) /\ Loads(r, q) /\ Finds(r, q)
      BY <1>0, <1>b, <3>2, <3>4 DEF AskedOf, Loads, Finds
    <3> QED
      BY <2>1, <2>4, <3>2, <3>3, <3>4, <3>5, <3>6, Continuing
  <2> QED
    BY <2>3, <2>4
<1> QED
  BY <1>1, <1>2, <1>3

(* The transaction that replaces the labels. *)
LEMMA SyncSteps ==
    ASSUME TypeOK, Asked, Dated, NEW r \in Requests, SyncLabels(r)
    PROVE  (\E rec : Syncs(r, rec)) /\ label' \in [Ids -> Setters]
<1>0. req[r] \in Request /\ AskedOf(req[r]) /\ now \in Nat /\ req[r].pc = "sync" /\ UNCHANGED service
  BY DEF TypeOK, Asked, SyncLabels
<1>1. PICK i \in Ids : req[r].ids = {i}
  BY <1>0 DEF AskedOf
<1>2. label' = [label EXCEPT ![i] = r]
  BY <1>1 DEF SyncLabels
<1> DEFINE q == [req[r] EXCEPT !.synced = now + 1, !.pc = "save"]
<1>3. q \in Request
  <2>1. \A w \in Nat : [req[r] EXCEPT !.synced = w, !.pc = "save"] \in Request
    BY <1>0 DEF Request
  <2>2. now + 1 \in Nat
    BY <1>0
  <2> QED
    BY <2>1, <2>2
<1>4. Set(r, q)
  BY DEF SyncLabels
<1>5. req[r].op = "UpdateLabels" /\ req[r].wrote = 0 /\ req[r].answer = None
  BY <1>0 DEF AskedOf, Request
<1>6. /\ q.pc = "save" /\ q.op = req[r].op /\ q.ids = req[r].ids /\ q.wrote = 0 /\ q.synced = now + 1
      /\ q.got = req[r].got /\ q.read = req[r].read /\ q.arg = req[r].arg /\ q.answer = None
      /\ q.deps = req[r].deps /\ q.sides = req[r].sides /\ q.left = req[r].left /\ q.ends = req[r].ends
  BY <1>0, <1>5 DEF Request
<1> HIDE DEF q
<1>7. AskedOf(q)
  BY <1>0, <1>1, <1>5, <1>6 DEF AskedOf, Savers
<1>8. Loads(r, q) /\ Finds(r, q)
  BY <1>0, <1>6 DEF Loads, Finds, Dated
<1>9. /\ label' = [j \in Ids |-> IF j \in req[r].ids THEN r ELSE label[j]]
      /\ label' \in [Ids -> Setters]
  BY <1>1, <1>2 DEF TypeOK, Setters
<1> QED
  BY <1>0, <1>3, <1>4, <1>5, <1>6, <1>7, <1>8, <1>9 DEF Syncs, Goes, Becomes

(* A request that writes rows and thereby ends, its record made from q. *)
LEMMA Writings ==
    ASSUME TypeOK, Asked, Dated, NEW r \in Requests, NEW q \in Request, UNCHANGED label,
           q.synced = req[r].synced, q.synced > 0 => q.op = "UpdateLabels" /\ q.ids = req[r].ids,
           q.op # "Dependencies", q.op = "Update" => q.arg \in Names \union {None},
           \A i \in Ids : q.got[i] # None => i \in q.ids,
           \A i \in Ids : q.got[i] = None \/ (q.got[i] = req[r].got[i] /\ q.read[i] = req[r].read[i]),
           \A i \in Ids : q.read[i] =< now,
           q.deps = {} \/ (/\ q.deps = req[r].deps /\ q.sides = req[r].sides
                           /\ q.left = req[r].left /\ q.ends = req[r].ends),
           req[r].pc # "done", Set(r, Wrote(q)),
           service' \in [Ids -> Row \union {None}],
           \A i \in Ids \ q.ids : service'[i] = service[i],
           \A i \in q.ids : Written(r, Wrote(q), i),
           q.op = "UpdateLabels" => /\ req[r].op = "UpdateLabels" /\ req[r].pc = "save"
                                    /\ q.ids = req[r].ids /\ q.read = req[r].read
    PROVE  \E rec : Writes(r, rec)
<1>0. now \in Nat /\ req[r].wrote = 0
  BY DEF TypeOK, Asked, AskedOf, Request
<1> DEFINE rec == Wrote(q)
<1>1. rec = [q EXCEPT !.pc = "done", !.wrote = now + 1, !.answer = "ok"] /\ rec \in Request
  BY <1>0, Endings
<1> HIDE DEF rec
<1>2. /\ rec.pc = "done" /\ rec.op = q.op /\ rec.ids = q.ids /\ rec.wrote = now + 1 /\ rec.synced = q.synced
      /\ rec.got = q.got /\ rec.read = q.read /\ rec.arg = q.arg
      /\ rec.deps = q.deps /\ rec.sides = q.sides /\ rec.left = q.left /\ rec.ends = q.ends
  BY <1>1 DEF Request
<1>3. AskedOf(rec)
  BY <1>2 DEF AskedOf
<1>4. Loads(r, rec)
  BY <1>2 DEF Loads
<1>5. Finds(r, rec)
  BY <1>2 DEF Finds
<1>6. Becomes(r, rec)
  BY <1>1, <1>3 DEF Becomes, rec
<1>7. Goes(r, rec)
  BY <1>0, <1>2, <1>4, <1>5, <1>6 DEF Goes
<1>8. \A i \in rec.ids : Written(r, rec, i)
  BY <1>2 DEF rec
<1> QED
  BY <1>2, <1>7, <1>8 DEF Writes

(* The columns that a request sets. *)
LEMMA SetsOf ==
    ASSUME NEW r
    PROVE  /\ req[r].op = "Create" => Sets(r) = {<<"labels", r>>, <<"text", r>>, <<"spec", r>>, <<"alive", TRUE>>}
           /\ req[r].op = "Delete" => Sets(r) = {<<"alive", FALSE>>}
           /\ req[r].op = "UpdateOpenAPI" => Sets(r) = {<<"spec", r>>}
           /\ req[r].op = "UpdateLabels" => Sets(r) = {<<"labels", r>>}
           /\ req[r].op \in Checks => Sets(r) = {<<"health", req[r].arg>>}
           /\ req[r].op = "Update" /\ req[r].arg # None => Sets(r) = {<<"name", req[r].arg>>}
           /\ req[r].op = "BatchUpdate" \/ (req[r].op = "Update" /\ req[r].arg = None) => Sets(r) = {<<"text", r>>}
  BY DEF Sets, Checks

(* What a request sets are columns of a row. *)
LEMMA SetsAreColumns ==
    ASSUME NEW r, NEW s \in Sets(r)
    PROVE  s[1] \in Columns
<1>1. CASE req[r].op = "Create"
  <2>1. Sets(r) = {<<"labels", r>>, <<"text", r>>, <<"spec", r>>, <<"alive", TRUE>>}
    BY <1>1, SetsOf
  <2>2. \/ s = <<"labels", r>> \/ s = <<"text", r>> \/ s = <<"spec", r>> \/ s = <<"alive", TRUE>>
    BY <2>1
  <2>3. s[1] \in {"labels", "text", "spec", "alive"}
    <3>1. CASE s = <<"labels", r>>
      BY <3>1
    <3>2. CASE s = <<"text", r>>
      BY <3>2
    <3>3. CASE s = <<"spec", r>>
      BY <3>3
    <3>4. CASE s = <<"alive", TRUE>>
      BY <3>4
    <3> QED
      BY <2>2, <3>1, <3>2, <3>3, <3>4
  <2> QED
    BY <2>3 DEF Columns
<1>2. CASE req[r].op = "Delete"
  <2>1. Sets(r) = {<<"alive", FALSE>>}
    BY <1>2, SetsOf
  <2> QED
    BY <2>1 DEF Columns
<1>3. CASE req[r].op = "UpdateOpenAPI"
  <2>1. Sets(r) = {<<"spec", r>>}
    BY <1>3, SetsOf
  <2> QED
    BY <2>1 DEF Columns
<1>4. CASE req[r].op = "UpdateLabels"
  <2>1. Sets(r) = {<<"labels", r>>}
    BY <1>4, SetsOf
  <2> QED
    BY <2>1 DEF Columns
<1>5. CASE req[r].op \in Checks
  <2>1. Sets(r) = {<<"health", req[r].arg>>}
    BY <1>5, SetsOf
  <2> QED
    BY <2>1 DEF Columns
<1>6. CASE req[r].op = "Update" /\ req[r].arg # None
  <2>1. Sets(r) = {<<"name", req[r].arg>>}
    BY <1>6, SetsOf
  <2> QED
    BY <2>1 DEF Columns
<1>7. CASE /\ req[r].op \notin {"Create", "Delete", "UpdateOpenAPI", "UpdateLabels"} \union Checks
           /\ ~(req[r].op = "Update" /\ req[r].arg # None)
  <2>1. Sets(r) = {<<"text", r>>}
    BY <1>7 DEF Sets, Checks
  <2> QED
    BY <2>1 DEF Columns
<1> QED
  BY <1>1, <1>2, <1>3, <1>4, <1>5, <1>6, <1>7

(* Columns that are written one by one. *)
LEMMA OneColumn ==
    ASSUME NEW r, NEW rec, NEW i, NEW col \in Columns, NEW v,
           Sets(r)' = {<<col, v>>}, service[i] # None, service'[i] \in Row, service'[i][col] = v,
           \A c \in Columns \ {col} : service'[i][c] = service[i][c],
           rec.op = "Delete" \/ service'[i].alive
    PROVE  Written(r, rec, i)
<1>1. \A s \in Sets(r)' : s[1] = col /\ s[2] = v
  OBVIOUS
<1>2. \E s \in Sets(r)' : s[1] = col
  OBVIOUS
<1>3. \A c \in Columns \ {col} : service[i] # None /\ service'[i][c] = service[i][c]
  OBVIOUS
<1>4. \A s \in Sets(r)' : s[1] \in Columns /\ service'[i][s[1]] = s[2]
  BY <1>1
<1>5. \A c \in Columns : \/ \E s \in Sets(r)' : s[1] = c
                         \/ service[i] # None /\ service'[i][c] = service[i][c]
  BY <1>2, <1>3
<1> QED
  BY <1>4, <1>5 DEF Written

(* The steps that insert rows. *)
LEMMA CreatingSteps ==
    ASSUME TypeOK, Asked, Dated, NEW r \in Requests, Insert(r) \/ BatchCreate(r)
    PROVE  \E rec : Writes(r, rec)
<1>0. req[r] \in Request /\ AskedOf(req[r]) /\ now \in Nat
  BY DEF TypeOK, Asked
<1>a. ASSUME NEW name \in Names PROVE Created(r, name) \in Row
  BY DEF Created, Row, Setters, Status
<1>b. ASSUME NEW i \in Ids \ Rows, NEW name \in Names, NEW rec, req'[r].op = "Create", service'[i] = Created(r, name)
      PROVE  Written(r, rec, i)
  <2>1. Sets(r)' = {<<"labels", r>>, <<"text", r>>, <<"spec", r>>, <<"alive", TRUE>>}
    BY <1>b DEF Sets
  <2>2. service'[i] \in Row /\ service[i] = None
    BY <1>a, <1>b DEF Rows
  <2>3. ASSUME NEW s \in Sets(r)' PROVE s[1] \in Columns /\ service'[i][s[1]] = s[2]
    <3>1. CASE s = <<"labels", r>>
      BY <1>b, <3>1 DEF Created, Columns
    <3>2. CASE s = <<"text", r>>
      BY <1>b, <3>2 DEF Created, Columns
    <3>3. CASE s = <<"spec", r>>
      BY <1>b, <3>3 DEF Created, Columns
    <3>4. CASE s = <<"alive", TRUE>>
      <4>1. s[1] = "alive" /\ s[2] = TRUE
        BY <3>4
      <4>2. service'[i]["alive"] = TRUE
        BY <1>b DEF Created
      <4> QED
        BY <4>1, <4>2 DEF Columns
    <3> QED
      BY <2>1, <3>1, <3>2, <3>3, <3>4
  <2>4. service'[i].alive
    BY <1>b DEF Created
  <2> QED
    BY <2>2, <2>3, <2>4 DEF Written
<1>1. CASE Insert(r)
  <2>1. PICK i \in Ids \ Rows : /\ service' = [service EXCEPT ![i] = Created(r, req[r].arg)]
                               /\ Set(r, [Wrote(req[r]) EXCEPT !.ids = {i}])
    BY <1>1 DEF Insert
  <2>2. /\ req[r].op = "Create" /\ req[r].pc = "insert" /\ req[r].arg \in Names /\ req[r].synced = 0
        /\ UNCHANGED label /\ \A j \in Ids : req[r].got[j] # None => j \in req[r].ids
    BY <1>0, <1>1 DEF Insert, AskedOf, Request
  <2> DEFINE q == [req[r] EXCEPT !.ids = {i}]
  <2>3. \A j \in Ids : req[r].got[j] = None
    BY <1>0, <2>2 DEF AskedOf
  <2>4. req[r].got = [j \in Ids |-> None]
    BY <1>0, <2>3 DEF Request
  <2>5. q \in Request
    BY <1>0 DEF Request
  <2>6. /\ q.op = "Create" /\ q.ids = {i} /\ q.synced = 0
        /\ q.got = [j \in Ids |-> None] /\ q.read = req[r].read
        /\ q.deps = req[r].deps /\ q.sides = req[r].sides /\ q.left = req[r].left /\ q.ends = req[r].ends
    BY <1>0, <2>2, <2>4 DEF Request
  <2>7. Set(r, Wrote(q))
    <3>1. Wrote(q) = [Wrote(req[r]) EXCEPT !.ids = {i}]
      BY <1>0 DEF Request, Wrote
    <3> QED
      BY <2>1, <3>1
  <2> HIDE DEF q
  <2>8. service' \in [Ids -> Row \union {None}] /\ (\A j \in Ids \ {i} : service'[j] = service[j])
        /\ service'[i] = Created(r, req[r].arg)
    BY <1>a, <2>1, <2>2 DEF TypeOK
  <2>9. req'[r].op = "Create"
    BY <1>0, <2>1, <2>2 DEF Set, TypeOK, Request, Wrote
  <2>10. Written(r, Wrote(q), i)
    BY <1>b, <2>2, <2>8, <2>9
  <2>11. \A j \in Ids : req[r].read[j] =< now
    BY DEF Dated
  <2> QED
    BY <2>2, <2>5, <2>6, <2>7, <2>8, <2>10, <2>11, Writings
<1>2. CASE BatchCreate(r)
  <2>1. PICK name \in [Ids \ Rows -> Names] :
           /\ service' = [i \in Ids |-> IF i \in Rows THEN service[i] ELSE Created(r, name[i])]
           /\ Set(r, Wrote(Starts(r, "Create", Ids \ Rows, None, "done")))
    BY <1>2 DEF BatchCreate
  <2> DEFINE q == Starts(r, "Create", Ids \ Rows, None, "done")
  <2>2. req[r] = New /\ UNCHANGED label
    BY <1>0, <1>2 DEF BatchCreate, Idle, AskedOf
  <2>3. /\ q \in Request /\ q.op = "Create" /\ q.ids = Ids \ Rows
        /\ q.wrote = 0 /\ q.synced = 0 /\ q.deps = {}
        /\ q.got = [j \in Ids |-> None] /\ q.read = [j \in Ids |-> 0]
    <3>1. Begun(q, "Create", Ids \ Rows, None, "done")
      BY Beginnings DEF Ops, Labels
    <3> QED
      BY <3>1 DEF Begun
  <2>4. Set(r, Wrote(q))
    BY <2>1
  <2> HIDE DEF q
  <2>5. req'[r].op = "Create"
    BY <1>0, <2>3, <2>4 DEF Set, TypeOK, Request, Wrote
  <2>6. /\ service' \in [Ids -> Row \union {None}]
        /\ \A j \in Rows : service'[j] = service[j]
        /\ \A j \in Ids \ Rows : service'[j] = Created(r, name[j])
    BY <1>a, <2>1 DEF TypeOK, Rows
  <2>7. \A j \in Ids \ Rows : Written(r, Wrote(q), j)
    BY <1>b, <2>5, <2>6
  <2>8. req[r].synced = 0 /\ req[r].pc = "new"
    BY <2>2 DEF New
  <2>9. \A j \in Ids \ q.ids : service'[j] = service[j]
    BY <2>3, <2>6
  <2> QED
    BY <1>0, <2>2, <2>3, <2>4, <2>6, <2>7, <2>8, <2>9, Writings
<1> QED
  BY <1>1, <1>2

(* The steps that set one column. *)
LEMMA OneColumnSteps ==
    ASSUME TypeOK, Asked, Dated, NEW r \in Requests, Delete(r) \/ BatchDelete(r) \/ UpdateOpenAPI(r)
    PROVE  \E rec : Writes(r, rec) \/ Quiet(r, rec)
<1>0. req[r] \in Request /\ AskedOf(req[r]) /\ now \in Nat /\ req[r].pc = "new" /\ UNCHANGED label
  BY DEF TypeOK, Asked, Delete, BatchDelete, UpdateOpenAPI, Idle
<1>a. {"Delete", "UpdateOpenAPI"} \subseteq Ops /\ "done" \in Labels /\ "missing" \in Answers
  BY DEF Ops, Labels, Answers
<1>b. req[r] = New /\ req[r].synced = 0
  BY <1>0 DEF AskedOf, New
<1>c. \A i \in Alive : i \in Ids /\ service[i] \in Row /\ service[i] # None /\ service[i].alive
  BY DEF Alive, Rows, TypeOK
<1>1. ASSUME NEW op \in {"Delete", "UpdateOpenAPI"}, NEW ids \in SUBSET Ids,
             Set(r, Wrote(Starts(r, op, ids, None, "done"))),
             service' \in [Ids -> Row \union {None}],
             \A i \in Ids \ ids : service'[i] = service[i],
             \A i \in ids : Written(r, Wrote(Starts(r, op, ids, None, "done")), i)
      PROVE  \E rec : Writes(r, rec)
  <2> DEFINE q == Starts(r, op, ids, None, "done")
  <2>1. Begun(q, op, ids, None, "done")
    BY <1>a, Beginnings
  <2>2. Set(r, Wrote(q)) /\ \A i \in ids : Written(r, Wrote(q), i)
    BY <1>1
  <2> HIDE DEF q
  <2>3. /\ q \in Request /\ q.op = op /\ q.ids = ids /\ q.synced = 0 /\ q.deps = {}
        /\ q.got = [j \in Ids |-> None] /\ q.read = [j \in Ids |-> 0]
    BY <2>1 DEF Begun
  <2> QED
    BY <1>0, <1>1, <1>b, <2>2, <2>3, Writings
<1>2. ASSUME NEW op \in {"Delete", "UpdateOpenAPI"}, NEW ids \in SUBSET Ids,
             Set(r, Wrote(Starts(r, op, ids, None, "done")))
      PROVE  /\ Wrote(Starts(r, op, ids, None, "done")).op = op
             /\ Sets(r)' = IF op = "Delete" THEN {<<"alive", FALSE>>} ELSE {<<"spec", r>>}
  <2> DEFINE q == Starts(r, op, ids, None, "done")
  <2>1. Begun(q, op, ids, None, "done")
    BY <1>a, Beginnings
  <2>2. Set(r, Wrote(q))
    BY <1>2
  <2> HIDE DEF q
  <2>3. Wrote(q).op = op /\ req'[r].op = op
    BY <2>1, <2>2 DEF Begun, Request, Wrote, Set, TypeOK
  <2> QED
    BY <2>3 DEF Sets, q
<1>3. CASE Delete(r)
  <2>1. PICK i \in Ids :
           IF i \in Alive
           THEN /\ service' = [service EXCEPT ![i].alive = FALSE]
                /\ Set(r, Wrote(Starts(r, "Delete", {i}, None, "done")))
           ELSE /\ Set(r, Ended(Starts(r, "Delete", {}, None, "done"), "missing"))
                /\ UNCHANGED service
    BY <1>3 DEF Delete
  <2>2. CASE i \in Alive
    <3>1. Set(r, Wrote(Starts(r, "Delete", {i}, None, "done"))) /\ service' = [service EXCEPT ![i].alive = FALSE]
      BY <2>1, <2>2
    <3>2. service'[i] = [service[i] EXCEPT !.alive = FALSE] /\ \A j \in Ids \ {i} : service'[j] = service[j]
      BY <1>c, <2>2, <3>1 DEF TypeOK
    <3>3. service'[i] \in Row /\ \A c \in Columns \ {"alive"} : service'[i][c] = service[i][c]
      <4>1. service[i] \in Row /\ service'[i] = [service[i] EXCEPT !.alive = FALSE]
        BY <1>c, <2>2, <3>2
      <4> QED
        BY <4>1 DEF Row, Columns
    <3>4. service' \in [Ids -> Row \union {None}]
      BY <3>1, <3>2, <3>3 DEF TypeOK
    <3>5. Written(r, Wrote(Starts(r, "Delete", {i}, None, "done")), i)
      <4>1. service'[i]["alive"] = FALSE
        BY <1>c, <2>2, <3>2 DEF Row
      <4>2. "alive" \in Columns
        BY DEF Columns
      <4>3. Sets(r)' = {<<"alive", FALSE>>} /\ Wrote(Starts(r, "Delete", {i}, None, "done")).op = "Delete"
        BY <1>2, <3>1
      <4> QED
        BY <1>c, <2>2, <3>3, <4>1, <4>2, <4>3, OneColumn
    <3> QED
      BY <1>1, <3>1, <3>2, <3>4, <3>5
  <2>3. CASE i \notin Alive
    BY <1>0, <1>a, <2>1, <2>3, Refusals DEF Idle
  <2> QED
    BY <2>2, <2>3
<1>4. CASE BatchDelete(r)
  <2>1. PICK ids \in SUBSET Ids :
           /\ service' = [i \in Ids |-> IF i \in ids \intersect Alive THEN [service[i] EXCEPT !.alive = FALSE]
                                        ELSE service[i]]
           /\ Set(r, Wrote(Starts(r, "Delete", ids \intersect Alive, None, "done")))
    BY <1>4 DEF BatchDelete
  <2> DEFINE those == ids \intersect Alive
  <2>2. those \in SUBSET Ids /\ Set(r, Wrote(Starts(r, "Delete", those, None, "done")))
    BY <2>1
  <2>3. /\ \A i \in those : i \in Alive /\ service'[i] = [service[i] EXCEPT !.alive = FALSE]
        /\ \A i \in Ids \ those : service'[i] = service[i]
    BY <2>1
  <2>4. \A i \in those : service'[i] \in Row /\ \A c \in Columns \ {"alive"} : service'[i][c] = service[i][c]
    <3> SUFFICES ASSUME NEW i \in those
                 PROVE  service'[i] \in Row /\ \A c \in Columns \ {"alive"} : service'[i][c] = service[i][c]
      OBVIOUS
    <3>1. service[i] \in Row /\ service'[i] = [service[i] EXCEPT !.alive = FALSE]
      BY <1>c, <2>3
    <3> QED
      BY <3>1 DEF Row, Columns
  <2>5. service' \in [Ids -> Row \union {None}]
    BY <2>1, <2>3, <2>4 DEF TypeOK
  <2> HIDE DEF those
  <2>6. ASSUME NEW i \in those PROVE Written(r, Wrote(Starts(r, "Delete", those, None, "done")), i)
    <3>1. service'[i]["alive"] = FALSE /\ "alive" \in Columns
      BY <1>c, <2>3 DEF Row, Columns
    <3>2. Sets(r)' = {<<"alive", FALSE>>} /\ Wrote(Starts(r, "Delete", those, None, "done")).op = "Delete"
      BY <1>2, <2>2
    <3> QED
      BY <1>c, <2>3, <2>4, <3>1, <3>2, OneColumn
  <2> QED
    BY <1>1, <2>2, <2>3, <2>5, <2>6
<1>5. CASE UpdateOpenAPI(r)
  <2>1. PICK i \in Ids :
           IF i \in Alive
           THEN /\ service' = [service EXCEPT ![i].spec = r]
                /\ Set(r, Wrote(Starts(r, "UpdateOpenAPI", {i}, None, "done")))
           ELSE /\ Set(r, Ended(Starts(r, "UpdateOpenAPI", {}, None, "done"), "missing"))
                /\ UNCHANGED service
    BY <1>5 DEF UpdateOpenAPI
  <2>2. CASE i \in Alive
    <3>1. Set(r, Wrote(Starts(r, "UpdateOpenAPI", {i}, None, "done"))) /\ service' = [service EXCEPT ![i].spec = r]
      BY <2>1, <2>2
    <3>2. service'[i] = [service[i] EXCEPT !.spec = r] /\ \A j \in Ids \ {i} : service'[j] = service[j]
      BY <1>c, <2>2, <3>1 DEF TypeOK
    <3>3. service'[i] \in Row /\ \A c \in Columns \ {"spec"} : service'[i][c] = service[i][c]
      BY <1>c, <2>2, <3>2 DEF Row, Columns, Setters
    <3>4. service' \in [Ids -> Row \union {None}]
      BY <3>1, <3>2, <3>3 DEF TypeOK
    <3>5. Written(r, Wrote(Starts(r, "UpdateOpenAPI", {i}, None, "done")), i)
      <4>1. service'[i]["spec"] = r /\ service'[i].alive
        BY <1>c, <2>2, <3>2 DEF Row
      <4>2. "spec" \in Columns
        BY DEF Columns
      <4>3. Sets(r)' = {<<"spec", r>>}
        BY <1>2, <3>1
      <4> QED
        BY <1>c, <2>2, <3>3, <4>1, <4>2, <4>3, OneColumn
    <3> QED
      BY <1>1, <3>1, <3>2, <3>4, <3>5
  <2>3. CASE i \notin Alive
    BY <1>0, <1>a, <2>1, <2>3, Refusals DEF Idle
  <2> QED
    BY <2>2, <2>3
<1> QED
  BY <1>3, <1>4, <1>5

(* What is saved of a row that was read: one column is edited. *)
LEMMA EditedColumns ==
    ASSUME TypeOK, Asked, NEW r \in Requests, req[r].pc = "save", NEW i \in Ids, req[r].got[i] # None,
           NEW row \in Edited(r, i)
    PROVE  /\ row \in Row /\ row.alive = req[r].got[i].alive
           /\ \E col \in Columns :
                 /\ \A c \in Columns \ {col} : row[c] = req[r].got[i][c]
                 /\ req[r].op \notin Checks => Sets(r) = {<<col, row[col]>>}
                 /\ req[r].op \in Checks => col = "health"
<1>1. req[r].got[i] \in Row /\ req[r].op \in Savers /\ r \in Setters /\ None \in Setters
  BY DEF TypeOK, Request, Asked, AskedOf, Setters
<1>2. CASE req[r].op = "UpdateLabels"
  <2>1. row = [req[r].got[i] EXCEPT !.labels = r]
    BY <1>2 DEF Edited
  <2>2. /\ row \in Row /\ row.alive = req[r].got[i].alive /\ row["labels"] = r
        /\ \A c \in Columns \ {"labels"} : row[c] = req[r].got[i][c]
    BY <1>1, <2>1 DEF Row, Columns
  <2>3. Sets(r) = {<<"labels", row["labels"]>>} /\ "labels" \in Columns /\ req[r].op \notin Checks
    BY <1>2, <2>2, SetsOf DEF Columns, Checks
  <2> QED
    BY <2>2, <2>3
<1>3. CASE req[r].op \in Checks
  <2>1. Edited(r, i) = Measured(r, i)
    BY <1>3 DEF Edited, Checks
  <2>2. PICK m \in Metrics : row = [req[r].got[i] EXCEPT !.health = Diagnosis(m)]
    BY <2>1 DEF Measured
  <2>3. Diagnosis(m) \in Status
    BY DEF Diagnosis, Status
  <2>4. /\ row \in Row /\ row.alive = req[r].got[i].alive
        /\ \A c \in Columns \ {"health"} : row[c] = req[r].got[i][c]
    BY <1>1, <2>2, <2>3 DEF Row, Columns
  <2>5. "health" \in Columns
    BY DEF Columns
  <2> QED
    BY <1>3, <2>4, <2>5
<1>4. CASE req[r].op = "Update" /\ req[r].arg # None
  <2>1. row = [req[r].got[i] EXCEPT !.name = req[r].arg] /\ req[r].arg \in Names
    BY <1>4 DEF Edited, Asked, AskedOf
  <2>2. /\ row \in Row /\ row.alive = req[r].got[i].alive /\ row["name"] = req[r].arg
        /\ \A c \in Columns \ {"name"} : row[c] = req[r].got[i][c]
    BY <1>1, <2>1 DEF Row, Columns
  <2>3. Sets(r) = {<<"name", row["name"]>>} /\ "name" \in Columns /\ req[r].op \notin Checks
    BY <1>4, <2>2, SetsOf DEF Columns, Checks
  <2> QED
    BY <2>2, <2>3
<1>5. CASE req[r].op = "BatchUpdate" \/ (req[r].op = "Update" /\ req[r].arg = None)
  <2>1. row = [req[r].got[i] EXCEPT !.text = r]
    BY <1>5 DEF Edited
  <2>2. /\ row \in Row /\ row.alive = req[r].got[i].alive /\ row["text"] = r
        /\ \A c \in Columns \ {"text"} : row[c] = req[r].got[i][c]
    BY <1>1, <2>1 DEF Row, Columns
  <2>3. Sets(r) = {<<"text", row["text"]>>} /\ "text" \in Columns /\ req[r].op \notin Checks
    BY <1>5, <2>2, SetsOf DEF Columns, Checks
  <2> QED
    BY <2>2, <2>3
<1> QED
  BY <1>1, <1>2, <1>3, <1>4, <1>5 DEF Savers, Checks

(* A save of whole rows. *)
LEMMA SavingSteps ==
    ASSUME TypeOK, Asked, Dated, Known, NEW r \in Requests, Save(r)
    PROVE  \E rec : Writes(r, rec)
<1>0. /\ req[r] \in Request /\ AskedOf(req[r]) /\ now \in Nat /\ req[r].pc = "save" /\ UNCHANGED label
      /\ req[r].op \in Savers /\ req[r].wrote = 0
      /\ \A i \in Ids : req[r].read[i] =< now
      /\ Loaded(r) = req[r].ids
  BY DEF TypeOK, Asked, AskedOf, Save, Request, Loaded, Dated
<1>1. PICK row \in [Loaded(r) -> UNION {Edited(r, i) : i \in Loaded(r)}] :
           /\ \A i \in Loaded(r) : row[i] \in Edited(r, i) /\ ~Taken(row[i].name, i)
           /\ service' = [i \in Ids |-> IF i \in Loaded(r) THEN row[i] ELSE service[i]]
           /\ Set(r, [Wrote(req[r]) EXCEPT !.arg = IF req[r].op \in {"CheckNow", "PeriodicCheck"}
                                                   THEN row[CHOOSE i \in Loaded(r) : TRUE].health
                                                   ELSE @])
  BY DEF Save
<1>2. ASSUME NEW i \in Loaded(r)
      PROVE  /\ i \in Ids /\ req[r].got[i] # None /\ service[i] # None /\ req[r].got[i].alive
             /\ row[i] \in Row /\ row[i].alive = req[r].got[i].alive /\ row[i].alive
             /\ \E col \in Columns :
                   /\ \A c \in Columns \ {col} : row[i][c] = req[r].got[i][c]
                   /\ req[r].op \notin Checks => Sets(r) = {<<col, row[i][col]>>}
                   /\ req[r].op \in Checks => col = "health"
  <2>1. i \in Ids /\ req[r].got[i] # None
    BY DEF Loaded
  <2>2. service[i] # None /\ req[r].got[i].alive
    BY <2>1 DEF Known, Rows
  <2>3. row[i] \in Edited(r, i)
    BY <1>1
  <2> QED
    BY <1>0, <2>1, <2>2, <2>3, EditedColumns
<1>3. service' \in [Ids -> Row \union {None}]
  BY <1>1, <1>2 DEF TypeOK
<1> DEFINE arg == IF req[r].op \in Checks THEN row[CHOOSE i \in Loaded(r) : TRUE].health ELSE req[r].arg
<1>4. /\ Set(r, [Wrote(req[r]) EXCEPT !.arg = arg])
      /\ req[r].op \in Checks => arg = row[CHOOSE i \in Loaded(r) : TRUE].health
      /\ req[r].op \notin Checks => arg = req[r].arg
  <2>1. Wrote(req[r]).arg = req[r].arg
    BY <1>0 DEF Wrote, Request
  <2>2. [Wrote(req[r]) EXCEPT !.arg = arg] =
        [Wrote(req[r]) EXCEPT !.arg = IF req[r].op \in {"CheckNow", "PeriodicCheck"}
                                      THEN row[CHOOSE i \in Loaded(r) : TRUE].health ELSE @]
    BY <2>1 DEF Checks
  <2> QED
    BY <1>1, <2>2
<1> HIDE DEF arg
<1>5. req[r].op \in Checks => \A i \in Loaded(r) : arg = row[i].health /\ row[i].health = row[i]["health"]
  <2> SUFFICES ASSUME req[r].op \in Checks, NEW i \in Loaded(r) PROVE arg = row[i].health
    OBVIOUS
  <2>1. PICK j \in Ids : Loaded(r) = {j}
    BY <1>0 DEF AskedOf, Checks
  <2>2. (CHOOSE k \in Loaded(r) : TRUE) \in Loaded(r)
    OBVIOUS
  <2>3. (CHOOSE k \in Loaded(r) : TRUE) = i
    BY <2>1, <2>2
  <2> QED
    BY <1>4, <2>3
<1> DEFINE q == [req[r] EXCEPT !.arg = arg]
<1>6. q \in Request
  <2>1. CASE req[r].op \in Checks
    <3>1. PICK j \in Ids : Loaded(r) = {j}
      BY <1>0, <2>1 DEF AskedOf, Checks
    <3>2. arg \in Status
      BY <1>2, <1>5, <2>1, <3>1 DEF Row
    <3> QED
      BY <1>0, <3>2 DEF Request
  <2>2. CASE req[r].op \notin Checks
    BY <1>0, <1>4, <2>2 DEF Request
  <2> QED
    BY <2>1, <2>2
<1>7. /\ q.op = req[r].op /\ q.ids = req[r].ids /\ q.synced = req[r].synced /\ q.arg = arg
      /\ q.got = req[r].got /\ q.read = req[r].read
      /\ q.deps = req[r].deps /\ q.sides = req[r].sides /\ q.left = req[r].left /\ q.ends = req[r].ends
  BY <1>0 DEF Request
<1>8. Set(r, Wrote(q))
  <2>1. Wrote(q) = [Wrote(req[r]) EXCEPT !.arg = arg]
    BY <1>0 DEF Request, Wrote
  <2> QED
    BY <1>4, <2>1
<1> HIDE DEF q
<1>9. req'[r].op = q.op /\ req'[r].arg = arg /\ Wrote(q).op = q.op /\ Wrote(q).got = q.got
  BY <1>6, <1>7, <1>8 DEF Set, TypeOK, Wrote, Request
<1>10. ASSUME NEW i \in Loaded(r) PROVE Written(r, Wrote(q), i)
  <2>1. PICK col \in Columns :
           /\ \A c \in Columns \ {col} : row[i][c] = req[r].got[i][c]
           /\ req[r].op \notin Checks => Sets(r) = {<<col, row[i][col]>>}
           /\ req[r].op \in Checks => col = "health"
    BY <1>2
  <2>2. service'[i] = row[i]
    BY <1>1, <1>2
  <2>3. Sets(r)' = {<<col, row[i][col]>>}
    <3>1. CASE req[r].op \in Checks
      <4>1. Sets(r)' = {<<"health", arg>>}
        BY <1>7, <1>9, <3>1 DEF Sets, Checks
      <4>2. arg = row[i]["health"]
        BY <1>5, <3>1
      <4> QED
        BY <2>1, <3>1, <4>1, <4>2
    <3>2. CASE req[r].op \notin Checks
      <4>1. Sets(r)' = Sets(r)
        BY <1>4, <1>7, <1>9, <3>2 DEF Sets
      <4> QED
        BY <2>1, <3>2, <4>1
    <3> QED
      BY <3>1, <3>2
  <2>4. \A s \in Sets(r)' : s[1] \in Columns /\ service'[i][s[1]] = s[2]
    BY <2>2, <2>3
  <2>5. \A c \in Columns : \/ \E s \in Sets(r)' : s[1] = c
                          \/ service'[i][c] = req[r].got[i][c]
    BY <2>1, <2>2, <2>3
  <2>6. service'[i] \in Row /\ service'[i].alive
    BY <1>2, <2>2
  <2>7. Wrote(q).op \in Savers /\ Wrote(q).got[i] = req[r].got[i] /\ req[r].got[i] # None
    BY <1>0, <1>2, <1>7, <1>9
  <2> QED
    BY <2>4, <2>5, <2>6, <2>7 DEF Written
<1>11. \A i \in Ids \ q.ids : service'[i] = service[i]
  BY <1>0, <1>1, <1>7
<1>12. \A i \in q.ids : Written(r, Wrote(q), i)
  BY <1>0, <1>7, <1>10
<1>13. q.op = "Update" => q.arg \in Names \union {None}
  BY <1>0, <1>4, <1>7 DEF AskedOf, Checks
<1>14. /\ q.synced > 0 => q.op = "UpdateLabels" /\ q.ids = req[r].ids
       /\ \A i \in Ids : q.got[i] # None => i \in q.ids
       /\ q.op # "Dependencies"
  BY <1>0, <1>7 DEF AskedOf, Savers
<1> QED
  BY <1>0, <1>3, <1>6, <1>7, <1>8, <1>11, <1>12, <1>13, <1>14, Writings

(* Every step of a request writes nothing, the labels, or rows. *)
LEMMA Steps ==
    ASSUME TypeOK, Asked, Dated, Known, NEW r \in Requests, Step(r)
    PROVE  /\ \E rec : Quiet(r, rec) \/ Syncs(r, rec) \/ Writes(r, rec)
           /\ UNCHANGED <<copy, started, restarts>>
           /\ dep' \in [Pairs -> {"never", "there", "removed"}]
           /\ label' \in [Ids -> Setters]
           /\ \A p \in Pairs : dep'[p] # "never" => dep[p] # "never" \/ (p[1] \in Rows /\ p[2] \in Rows)
           /\ \A p \in Pairs : dep[p] = "removed" => dep'[p] = "removed"
<1>1. CASE AddDependency(r) \/ RemoveDependency(r)
  <2>1. UNCHANGED <<service, label, copy, started, restarts>>
    BY <1>1 DEF AddDependency, RemoveDependency
  <2>2. PICK p \in Pairs :
           \/ UNCHANGED dep
           \/ dep[p] = "never" /\ dep' = [dep EXCEPT ![p] = "there"] /\ {p[1], p[2]} \subseteq Rows
           \/ dep[p] = "there" /\ dep' = [dep EXCEPT ![p] = "removed"]
    <3>1. CASE AddDependency(r)
      BY <3>1 DEF AddDependency
    <3>2. CASE RemoveDependency(r)
      BY <3>2 DEF RemoveDependency
    <3> QED
      BY <1>1, <3>1, <3>2
  <2>3. \E rec : Quiet(r, rec)
    BY <1>1, QuietBeginnings
  <2> QED
    BY <2>1, <2>2, <2>3 DEF TypeOK
<1>2. CASE ~(AddDependency(r) \/ RemoveDependency(r))
  <2>1. UNCHANGED <<dep, copy, started, restarts>>
    BY <1>2 DEF Step, Create, Insert, BatchCreate, Delete, BatchDelete, UpdateOpenAPI, GetByID, BatchUpdate,
                SyncLabels, PeriodicCheck, Save, GetDependencies, GetDependents, GetDependencyGraph, Find,
                Preload, Fail, Others
  <2>2. label' \in [Ids -> Setters]
    <3>1. CASE SyncLabels(r)
      BY <3>1, SyncSteps
    <3>2. CASE ~SyncLabels(r)
      <4>1. UNCHANGED label
        BY <1>2, <3>2 DEF Step, Create, Insert, BatchCreate, Delete, BatchDelete, UpdateOpenAPI, GetByID, BatchUpdate,
                PeriodicCheck, Save, GetDependencies, GetDependents, GetDependencyGraph, Find, Preload, Fail
      <4> QED
        BY <4>1 DEF TypeOK
    <3> QED
      BY <3>1, <3>2
  <2>3. \E rec : Quiet(r, rec) \/ Syncs(r, rec) \/ Writes(r, rec)
    <3>1. CASE \/ Create(r) \/ GetByID(r) \/ PeriodicCheck(r) \/ (Idle(r) /\ BatchUpdate(r))
               \/ GetDependencies(r) \/ GetDependents(r) \/ GetDependencyGraph(r)
      BY <3>1, QuietBeginnings
    <3>2. CASE (BatchUpdate(r) /\ ~Idle(r)) \/ Preload(r) \/ Fail(r)
      BY <3>2, QuietSteps
    <3>3. CASE SyncLabels(r)
      BY <3>3, SyncSteps
    <3>4. CASE Insert(r) \/ BatchCreate(r)
      BY <3>4, CreatingSteps
    <3>5. CASE Delete(r) \/ BatchDelete(r) \/ UpdateOpenAPI(r)
      BY <3>5, OneColumnSteps
    <3>6. CASE Save(r)
      BY <3>6, SavingSteps
    <3> QED
      BY <1>2, <3>1, <3>2, <3>3, <3>4, <3>5, <3>6 DEF Step
  <2> QED
    BY <2>1, <2>2, <2>3 DEF TypeOK
<1> QED
  BY <1>1, <1>2

-----------------------------------------------------------------------------
(* A step keeps the types, what requests were asked for, and the dates. *)
LEMMA StepTypes ==
    ASSUME TypeOK, Asked, Dated, Known, NEW r \in Requests, Step(r)
    PROVE  /\ TypeOK' /\ Asked' /\ Dated'
           /\ req[r].wrote = 0 /\ \A q \in Requests \ {r} : req'[q] = req[q]
           /\ Rows \subseteq Rows' /\ now =< now'
<1>1. PICK rec : Quiet(r, rec) \/ Syncs(r, rec) \/ Writes(r, rec)
  BY Steps
<1>2. Goes(r, rec) /\ Becomes(r, rec)
  BY <1>1 DEF Quiet, Syncs, Writes, Goes
<1>3. /\ req' \in [Requests -> Request] /\ req'[r] = rec /\ (\A q \in Requests \ {r} : req'[q] = req[q])
      /\ now' \in {now, now + 1} /\ now' \in Nat /\ now \in Nat
      /\ now + 1 \in {rec.wrote, rec.synced} => now' = now + 1
  BY <1>2, Becoming DEF TypeOK
<1>4. service' \in [Ids -> Row \union {None}]
  BY <1>1 DEF Quiet, Syncs, Writes, TypeOK
<1>5. TypeOK'
  BY <1>3, <1>4, Steps DEF TypeOK
<1>6. Asked'
  BY <1>2, <1>3 DEF Asked, Becomes
<1>7. Dated'
  <2>1. rec \in Request /\ \A i \in Ids : rec.read[i] \in Nat /\ rec.read[i] =< now
    BY <1>2 DEF Becomes, Goes, Loads, Request
  <2>2. req[r].synced =< now /\ req[r].synced \in Nat
    BY DEF Dated, TypeOK, Request
  <2>3. rec.wrote =< now' /\ rec.synced =< now'
    BY <1>1, <1>3, <2>1, <2>2 DEF Quiet, Syncs, Writes, Request
  <2>4. started' =< now'
    BY <1>3, Steps DEF Dated, TypeOK
  <2>5. ASSUME NEW q \in Requests PROVE /\ req'[q].wrote =< now' /\ req'[q].synced =< now'
                                        /\ \A i \in Ids : req'[q].read[i] =< now'
    <3>1. CASE q = r
      BY <1>3, <2>1, <2>3, <3>1
    <3>2. CASE q # r
      <4>1. /\ req[q].wrote \in Nat /\ req[q].synced \in Nat /\ \A i \in Ids : req[q].read[i] \in Nat
            /\ req[q].wrote =< now /\ req[q].synced =< now /\ \A i \in Ids : req[q].read[i] =< now
        BY DEF Dated, TypeOK, Request
      <4> QED
        BY <1>3, <3>2, <4>1
    <3> QED
      BY <3>1, <3>2
  <2> QED
    BY <2>4, <2>5 DEF Dated
<1>8. Rows \subseteq Rows'
  BY <1>1, NoneIsNoRow DEF Rows, Quiet, Syncs, Writes, Written
<1>9. req[r].wrote = 0
  BY <1>2 DEF Goes
<1> QED
  BY <1>3, <1>5, <1>6, <1>7, <1>8, <1>9

(* A step keeps what is known of rows: they are there, and deleted only by a deletion. *)
LEMMA StepKnown ==
    ASSUME TypeOK, Asked, Dated, Known, Deleted, Found, NEW r \in Requests, Step(r)
    PROVE  Known' /\ Deleted' /\ Found'
<1>1. PICK rec : Quiet(r, rec) \/ Syncs(r, rec) \/ Writes(r, rec)
  BY Steps
<1>2. Goes(r, rec) /\ req'[r] = rec /\ rec \in Request
  BY <1>1, Becoming DEF Quiet, Syncs, Writes, Goes, Becomes
<1>3. /\ req[r].wrote = 0 /\ \A q \in Requests \ {r} : req'[q] = req[q]
      /\ Rows \subseteq Rows' /\ copy' = copy /\ now \in Nat
  BY StepTypes, Steps DEF TypeOK
<1>4. \A i : WasDeleted(i) => WasDeleted(i)'
  BY <1>3 DEF WasDeleted
<1>5. Known'
  <2>1. \A i \in Ids : rec.wrote > 0 /\ i \in rec.ids => i \in Rows'
    BY <1>1, NoneIsNoRow DEF Quiet, Syncs, Writes, Written, Rows
  <2>2. \A i \in Ids : rec.got[i] # None => i \in Rows /\ rec.got[i].alive
    BY <1>2 DEF Goes, Loads, Known, Alive
  <2>3. \A p \in rec.deps : p[1] \in Rows /\ p[2] \in Rows
    <3>1. \A p \in There : p[1] \in Rows /\ p[2] \in Rows
      BY DEF There, Known
    <3> QED
      BY <1>2, <3>1 DEF Goes, Finds, Known
  <2>4. \A p \in Pairs : dep'[p] # "never" => p[1] \in Rows /\ p[2] \in Rows
    BY Steps DEF Known
  <2> QED
    BY <1>2, <1>3, <2>1, <2>2, <2>3, <2>4 DEF Known
<1>6. Deleted'
  <2> SUFFICES ASSUME NEW i \in Rows', i \notin Alive' PROVE WasDeleted(i)'
    BY DEF Deleted
  <2>0. i \in Ids
    BY DEF Rows
  <2>1. CASE service'[i] = service[i]
    BY <1>4, <2>0, <2>1 DEF Deleted, Rows, Alive
  <2>2. CASE service'[i] # service[i]
    <3>1. Writes(r, rec) /\ i \in rec.ids
      BY <1>1, <2>0, <2>2 DEF Quiet, Syncs, Writes
    <3>2. rec.op = "Delete" /\ rec.wrote > 0
      BY <1>3, <3>1 DEF Writes, Written, Alive
    <3> QED
      BY <1>2, <3>1, <3>2 DEF WasDeleted
  <2> QED
    BY <2>1, <2>2
<1>7. Found'
  <2>1. ASSUME NEW p \in rec.deps, NEW side \in rec.sides \ rec.left
        PROVE  <<side, p[side]>> \in rec.ends \/ WasDeleted(p[side])
    <3>1. rec.left # rec.sides
      OBVIOUS
    <3>2. /\ rec.deps = req[r].deps /\ rec.sides = req[r].sides /\ req[r].ends \subseteq rec.ends
          /\ \A x \in req[r].left \ rec.left : p[x] \in Alive => <<x, p[x]>> \in rec.ends
      BY <1>2, <3>1 DEF Goes, Finds
    <3>3. CASE side \notin req[r].left
      BY <3>2, <3>3 DEF Found
    <3>4. CASE side \in req[r].left
      <4>1. p[side] \in Alive => <<side, p[side]>> \in rec.ends
        BY <3>2, <3>4
      <4>2. side \in {1, 2}
        BY <1>2 DEF Request, Sides
      <4>3. p[1] \in Rows /\ p[2] \in Rows
        BY <3>2 DEF Known
      <4>4. p[side] \in Rows
        BY <4>2, <4>3
      <4> QED
        BY <4>1, <4>4 DEF Deleted
    <3> QED
      BY <3>3, <3>4
  <2> QED
    BY <1>2, <1>3, <1>4, <2>1 DEF Found
<1> QED
  BY <1>5, <1>6, <1>7

(* What has overwritten a write goes on overwriting it. *)
LEMMA LaterStays ==
    ASSUME TypeOK, Asked, Dated, Known, NEW r \in Requests, Step(r),
           NEW p \in Requests, req[p].wrote > 0
    PROVE  /\ p # r /\ req'[p] = req[p] /\ Sets(p)' = Sets(p)
           /\ \A q \in Requests : \A i, c : Overwrites(q, p, i, c) => Overwrites(q, p, i, c)'
<1>1. /\ req[r].wrote = 0 /\ (\A q \in Requests \ {r} : req'[q] = req[q])
      /\ \A q \in Requests : req[q].wrote \in Nat
  BY StepTypes DEF TypeOK, Request
<1>2. \A q \in Requests \ {r} : Sets(q)' = Sets(q)
  BY <1>1 DEF Sets
<1>3. p # r
  BY <1>1
<1>4. ASSUME NEW q \in Requests, NEW i, NEW c, Overwrites(q, p, i, c) PROVE Overwrites(q, p, i, c)'
  <2>1. q # r
    BY <1>1, <1>4 DEF Overwrites
  <2>2. req'[q] = req[q] /\ Sets(q)' = Sets(q) /\ req'[p] = req[p]
    BY <1>1, <1>2, <1>3, <2>1
  <2> QED
    BY <1>4, <2>2 DEF Overwrites
<1> QED
  BY <1>1, <1>2, <1>3, <1>4

(* What is set stays, and what is read afterwards has it. *)
LEMMA StepEdits ==
    ASSUME TypeOK, Asked, Dated, Known, EditsAreKept, ReadIsKept, CopyIsKept, NEW r \in Requests, Step(r)
    PROVE  EditsAreKept' /\ ReadIsKept' /\ CopyIsKept'
<1>1. PICK rec : Quiet(r, rec) \/ Syncs(r, rec) \/ Writes(r, rec)
  BY Steps
<1>2. Goes(r, rec) /\ req'[r] = rec /\ rec \in Request
  BY <1>1, Becoming DEF Quiet, Syncs, Writes, Goes, Becomes
<1>3. /\ req[r].wrote = 0 /\ (\A q \in Requests \ {r} : req'[q] = req[q])
      /\ copy' = copy /\ started' = started /\ now \in Nat /\ started \in Nat /\ started =< now
  BY StepTypes, Steps DEF TypeOK, Dated
<1>4. \A q \in Requests, i \in Ids : /\ req[q].wrote \in Nat /\ req[q].read[i] \in Nat
                                     /\ req[q].wrote =< now /\ req[q].read[i] =< now
  BY DEF TypeOK, Request, Dated
<1>5. rec.wrote \in {0, now + 1}
  BY <1>1 DEF Quiet, Syncs, Writes
<1>6. EditsAreKept'
  <2> SUFFICES ASSUME NEW p \in Requests, req'[p].wrote > 0, NEW i \in req'[p].ids, NEW s \in Sets(p)'
               PROVE  service'[i][s[1]] = s[2] \/ \E q \in Requests : Overwrites(q, p, i, s[1])'
    BY DEF EditsAreKept
  <2>1. CASE p = r
    <3>1. Writes(r, rec)
      BY <1>1, <1>2, <2>1 DEF Quiet, Syncs
    <3> QED
      BY <1>2, <2>1, <3>1 DEF Writes, Written
  <2>2. CASE p # r
    <3>1. req'[p] = req[p] /\ Sets(p)' = Sets(p) /\ req[p].wrote > 0 /\ i \in Ids /\ i \in Rows
      <4>1. req'[p] = req[p] /\ req[p].wrote > 0 /\ i \in Ids
        BY <1>3, <2>2 DEF TypeOK, Request
      <4> QED
        BY <4>1, LaterStays DEF Known
    <3>2. CASE \E q \in Requests : Overwrites(q, p, i, s[1])
      BY <3>1, <3>2, LaterStays
    <3>3. CASE service[i][s[1]] = s[2] /\ service'[i] = service[i]
      BY <3>3
    <3>4. CASE /\ service[i][s[1]] = s[2] /\ Writes(r, rec) /\ i \in rec.ids
               /\ ~ \E q \in Requests : Overwrites(q, p, i, s[1])
      <4>1. Written(r, rec, i) /\ rec.wrote = now + 1
        BY <3>4 DEF Writes
      <4>2. req'[r].wrote > req'[p].wrote
        <5>1. req[p].wrote \in Nat /\ req[p].wrote =< now
          BY <1>4, <3>1
        <5>2. req'[r].wrote = now + 1 /\ req'[p].wrote = req[p].wrote
          BY <1>2, <3>1, <4>1
        <5> QED
          BY <1>3, <5>1, <5>2
      <4>3. CASE \E t \in Sets(r)' : t[1] = s[1]
        <5>1. Overwrites(r, p, i, s[1])'
          BY <1>2, <3>4, <4>2, <4>3 DEF Overwrites
        <5> QED
          BY <5>1
      <4>4. CASE ~ \E t \in Sets(r)' : t[1] = s[1]
        <5>0. s[1] \in Columns
          BY <2>2, <3>1, SetsAreColumns
        <5>1. \/ service'[i][s[1]] = service[i][s[1]]
              \/ rec.op \in Savers /\ rec.got[i] # None /\ service'[i][s[1]] = rec.got[i][s[1]]
          BY <3>1, <4>1, <4>4, <5>0 DEF Written, Rows
        <5>2. CASE /\ rec.op \in Savers /\ rec.got[i] # None /\ service'[i][s[1]] = rec.got[i][s[1]]
                   /\ rec.read[i] >= req[p].wrote
          <6>1. \/ rec.got[i] = req[r].got[i] /\ rec.read[i] = req[r].read[i]
                \/ rec.got[i] = service[i]
                \/ rec.got[i] = copy[i] /\ rec.read[i] = started
            BY <1>2, <3>1, <5>2 DEF Goes, Loads
          <6>2. CASE rec.got[i] = req[r].got[i] /\ rec.read[i] = req[r].read[i]
            <7>1. req[r].got[i] # None /\ req[p].wrote =< req[r].read[i] /\ req[p].wrote > 0 /\ i \in req[p].ids
              BY <1>4, <3>1, <5>2, <6>2
            <7>2. KeptIn(req[r].got[i], req[r].read[i], p, i)
              BY <3>1, <7>1 DEF ReadIsKept
            <7> QED
              BY <3>1, <3>4, <5>2, <6>2, <7>1, <7>2 DEF KeptIn
          <6>3. CASE rec.got[i] = copy[i] /\ rec.read[i] = started
            <7>1. copy[i] # None /\ req[p].wrote =< started /\ req[p].wrote > 0 /\ i \in req[p].ids
              BY <1>3, <1>4, <3>1, <5>2, <6>3
            <7>2. KeptIn(copy[i], started, p, i)
              BY <3>1, <7>1 DEF CopyIsKept
            <7> QED
              BY <3>1, <3>4, <5>2, <6>3, <7>1, <7>2 DEF KeptIn
          <6> QED
            BY <3>4, <5>2, <6>1, <6>2, <6>3
        <5>3. CASE rec.op \in Savers /\ ~(rec.read[i] >= req[p].wrote)
          <6>1. rec.read[i] < req[p].wrote
            BY <1>2, <1>4, <3>1, <5>3 DEF Request
          <6>2. Overwrites(r, p, i, s[1])'
            BY <1>2, <3>1, <3>4, <4>2, <5>3, <6>1 DEF Overwrites
          <6> QED
            BY <6>2
        <5> QED
          BY <3>4, <5>1, <5>2, <5>3
      <4> QED
        BY <4>3, <4>4
    <3>5. service[i][s[1]] = s[2] \/ \E q \in Requests : Overwrites(q, p, i, s[1])
      BY <3>1 DEF EditsAreKept
    <3>6. service'[i] = service[i] \/ (Writes(r, rec) /\ i \in rec.ids)
      BY <1>1, <3>1 DEF Quiet, Syncs, Writes
    <3> QED
      BY <3>2, <3>3, <3>4, <3>5, <3>6
  <2> QED
    BY <2>1, <2>2
<1>7. ASSUME NEW row, NEW read \in Nat, read =< now, NEW p \in Requests, NEW i \in Ids, KeptIn(row, read, p, i)
      PROVE  KeptIn(row, read, p, i)'
  <2>1. SUFFICES ASSUME 0 < req'[p].wrote, req'[p].wrote =< read, i \in req'[p].ids, NEW s \in Sets(p)'
                 PROVE  row[s[1]] = s[2] \/ \E q \in Requests : Overwrites(q, p, i, s[1])'
    BY DEF KeptIn
  <2>2. p # r
    BY <1>2, <1>3, <1>5, <1>7, <2>1
  <2>3. req'[p] = req[p] /\ req[p].wrote > 0
    BY <1>3, <1>4, <2>1, <2>2
  <2>4. Sets(p)' = Sets(p)
    BY <2>3, LaterStays
  <2>5. row[s[1]] = s[2] \/ \E q \in Requests : Overwrites(q, p, i, s[1])
    BY <1>7, <2>1, <2>3, <2>4 DEF KeptIn
  <2> QED
    BY <2>3, <2>5, LaterStays
<1>8. CopyIsKept'
  BY <1>3, <1>7 DEF CopyIsKept
<1>9. ReadIsKept'
  <2> SUFFICES ASSUME NEW p \in Requests, NEW w \in Requests, NEW i \in Ids, NEW row, NEW read,
                      row = req'[p].got[i], read = req'[p].read[i], row # None
               PROVE  KeptIn(row, read, w, i)'
    BY DEF ReadIsKept
  <2>1. CASE p # r \/ (rec.got[i] = req[r].got[i] /\ rec.read[i] = req[r].read[i])
    <3>1. row = req[p].got[i] /\ read = req[p].read[i]
      BY <1>2, <1>3, <2>1
    <3>2. KeptIn(row, read, w, i)
      BY <3>1 DEF ReadIsKept
    <3>3. read \in Nat /\ read =< now
      BY <1>4, <3>1
    <3> QED
      BY <1>7, <3>2, <3>3
  <2>2. CASE p = r /\ row = service[i] /\ read = now /\ i \in Alive
    <3>1. KeptIn(row, read, w, i)
      BY <2>2 DEF KeptIn, EditsAreKept
    <3> QED
      BY <1>3, <1>7, <2>2, <3>1
  <2>3. CASE p = r /\ row = copy[i] /\ read = started
    <3>1. KeptIn(row, read, w, i)
      BY <2>3 DEF CopyIsKept
    <3> QED
      BY <1>3, <1>7, <2>3, <3>1
  <2>4. p = r => row = rec.got[i] /\ read = rec.read[i]
    BY <1>2
  <2> QED
    BY <1>2, <2>1, <2>2, <2>3, <2>4 DEF Goes, Loads
<1> QED
  BY <1>6, <1>8, <1>9

(* Labels go to both places, or another request came between. *)
LEMMA StepLabels ==
    ASSUME TypeOK, Asked, Dated, Known, LabelsAgree, LabelsSynced, NEW r \in Requests, Step(r)
    PROVE  LabelsAgree' /\ LabelsSynced'
<1>1. PICK rec : Quiet(r, rec) \/ Syncs(r, rec) \/ Writes(r, rec)
  BY Steps
<1>2. Goes(r, rec) /\ req'[r] = rec /\ rec \in Request /\ AskedOf(rec)
  BY <1>1, Becoming DEF Quiet, Syncs, Writes, Goes, Becomes
<1>3. req[r].wrote = 0 /\ (\A q \in Requests \ {r} : req'[q] = req[q]) /\ now \in Nat
  BY StepTypes DEF TypeOK
<1>4. \A q \in Requests, i \in Ids : req[q].read[i] \in Nat /\ req[q].read[i] =< now
  BY DEF TypeOK, Request, Dated
<1>5. \A q \in Requests : req[q].ids \subseteq Ids /\ req[q].synced \in Nat
  BY DEF TypeOK, Request
<1>6. ASSUME NEW p \in Requests, NEW i \in req[p].ids, req'[p].read = req[p].read, Other(p, i)
      PROVE  Other(p, i)'
  <2>1. PICK q \in Requests \ {p} : i \in req[q].ids /\ (\/ req[q].wrote > req[p].read[i]
                                                         \/ req[q].synced > req[p].read[i])
    BY <1>6 DEF Other
  <2>2. CASE q # r
    BY <1>3, <1>6, <2>1, <2>2 DEF Other
  <2>3. CASE q = r
    <3>1. req[p].read[i] \in Nat /\ req[p].read[i] =< now
      BY <1>4, <1>5
    <3>2. req[r].synced > req[p].read[i] /\ req[r].synced > 0
      BY <1>3, <1>5, <2>1, <2>3, <3>1
    <3>3. i \in rec.ids
      BY <1>2, <2>1, <2>3, <3>2 DEF Goes
    <3>4. rec.synced > req[p].read[i]
      BY <1>1, <1>3, <3>1, <3>2 DEF Quiet, Syncs, Writes
    <3> QED
      BY <1>2, <1>6, <2>3, <3>3, <3>4 DEF Other
  <2> QED
    BY <2>2, <2>3
<1>7. ASSUME NEW p \in Requests \ {r}, NEW i \in req[p].ids, i \in rec.ids, now + 1 \in {rec.wrote, rec.synced}
      PROVE  Other(p, i)'
  <2>1. req[p].read[i] \in Nat /\ req[p].read[i] =< now /\ req'[p] = req[p]
    BY <1>3, <1>4, <1>5
  <2>2. now + 1 > req[p].read[i]
    BY <1>3, <2>1
  <2> QED
    BY <1>2, <1>7, <2>1, <2>2 DEF Other
<1>8. LabelsSynced'
  <2> SUFFICES ASSUME NEW p \in Requests, req'[p].op = "UpdateLabels", req'[p].pc = "save", NEW i \in req'[p].ids
               PROVE  label'[i] = p \/ Other(p, i)'
    BY DEF LabelsSynced
  <2>1. CASE p = r
    <3>1. Syncs(r, rec)
      BY <1>1, <1>2, <1>3, <2>1 DEF Quiet, Writes, AskedOf
    <3>2. i \in Ids /\ i \in req[r].ids
      BY <1>2, <1>5, <2>1, <3>1 DEF Syncs
    <3> QED
      BY <2>1, <3>1, <3>2 DEF Syncs
  <2>2. CASE p # r
    <3>1. req'[p] = req[p] /\ i \in req[p].ids /\ i \in Ids
      BY <1>3, <1>5, <2>2
    <3>2. CASE Other(p, i)
      BY <1>6, <3>1, <3>2
    <3>3. CASE label[i] = p /\ label'[i] # label[i]
      <4>1. Syncs(r, rec) /\ i \in rec.ids
        BY <1>1, <3>1, <3>3 DEF Quiet, Syncs, Writes
      <4> QED
        BY <1>7, <2>2, <3>1, <4>1 DEF Syncs
    <3> QED
      BY <3>1, <3>2, <3>3 DEF LabelsSynced
  <2> QED
    BY <2>1, <2>2
<1>9. LabelsAgree'
  <2> SUFFICES ASSUME NEW p \in Requests, req'[p].op = "UpdateLabels", req'[p].wrote > 0, NEW i \in req'[p].ids
               PROVE  (label'[i] = p /\ service'[i].labels = p) \/ Other(p, i)'
    BY DEF LabelsAgree, Other
  <2>1. CASE p = r
    <3>1. Writes(r, rec) /\ rec.op = "UpdateLabels"
      BY <1>1, <1>2, <2>1 DEF Quiet, Syncs
    <3>2. /\ req[r].op = "UpdateLabels" /\ req[r].pc = "save" /\ rec.ids = req[r].ids /\ rec.read = req[r].read
          /\ label' = label /\ Written(r, rec, i)
      BY <1>2, <2>1, <3>1 DEF Writes
    <3>3. label[i] = r \/ Other(r, i)
      BY <1>2, <2>1, <3>2 DEF LabelsSynced
    <3>4. Sets(r)' = {<<"labels", r>>}
      BY <1>2, <3>1 DEF Sets
    <3>5. service'[i]["labels"] = r
      BY <3>2, <3>4 DEF Written
    <3> QED
      BY <1>2, <1>6, <2>1, <3>2, <3>3, <3>5
  <2>2. CASE p # r
    <3>1. req'[p] = req[p] /\ i \in req[p].ids /\ i \in Ids
      BY <1>3, <1>5, <2>2
    <3>2. CASE Other(p, i)
      BY <1>6, <3>1, <3>2
    <3>3. CASE ~(label'[i] = label[i] /\ service'[i] = service[i])
      <4>1. i \in rec.ids /\ now + 1 \in {rec.wrote, rec.synced}
        BY <1>1, <3>1, <3>3 DEF Quiet, Syncs, Writes
      <4> QED
        BY <1>7, <2>2, <3>1, <4>1
    <3> QED
      BY <3>1, <3>2, <3>3 DEF LabelsAgree, Other
  <2> QED
    BY <2>1, <2>2
<1> QED
  BY <1>8, <1>9

-----------------------------------------------------------------------------
(* After a restart the health checks have the rows as they are. *)
LEMMA RestartStep == Invariant /\ Restart => Invariant'
<1> SUFFICES ASSUME Invariant, Restart PROVE Invariant'
  OBVIOUS
<1>1. /\ restarts' = restarts + 1 /\ restarts < MaxRestarts /\ copy' = Watched /\ started' = now
      /\ UNCHANGED <<service, label, dep, now>>
  BY DEF Restart
<1>2. ASSUME NEW r \in Requests
      PROVE  /\ req'[r] = req[r] \/ (req[r].pc # "new" /\ req'[r] = [req[r] EXCEPT !.pc = "done"])
             /\ req[r] \in Request
  BY DEF Restart, Invariant, TypeOK
<1>3. ASSUME NEW r \in Requests
      PROVE  /\ req'[r] \in Request /\ AskedOf(req'[r])
             /\ req'[r].op = req[r].op /\ req'[r].ids = req[r].ids /\ req'[r].arg = req[r].arg
             /\ req'[r].got = req[r].got /\ req'[r].read = req[r].read
             /\ req'[r].synced = req[r].synced /\ req'[r].wrote = req[r].wrote
             /\ req'[r].deps = req[r].deps /\ req'[r].sides = req[r].sides
             /\ req'[r].left = req[r].left /\ req'[r].ends = req[r].ends
             /\ req'[r].pc \in {req[r].pc, "done"}
  <2>1. AskedOf(req[r])
    BY DEF Invariant, Asked
  <2>2. CASE req'[r] = req[r]
    BY <1>2, <2>1, <2>2
  <2>3. CASE req[r].pc # "new" /\ req'[r] = [req[r] EXCEPT !.pc = "done"]
    <3>1. /\ req'[r] \in Request /\ req'[r].pc = "done" /\ req'[r].answer = req[r].answer
          /\ req'[r].op = req[r].op /\ req'[r].ids = req[r].ids /\ req'[r].arg = req[r].arg
          /\ req'[r].got = req[r].got /\ req'[r].read = req[r].read
          /\ req'[r].synced = req[r].synced /\ req'[r].wrote = req[r].wrote
          /\ req'[r].deps = req[r].deps /\ req'[r].sides = req[r].sides
          /\ req'[r].left = req[r].left /\ req'[r].ends = req[r].ends
      BY <1>2, <2>3 DEF Request
    <3>2. AskedOf(req'[r])
      BY <2>1, <3>1 DEF AskedOf
    <3> QED
      BY <3>1, <3>2
  <2> QED
    BY <1>2, <2>2, <2>3
<1>4. \A r \in Requests : Sets(r)' = Sets(r)
  BY <1>3 DEF Sets
<1>5. \A q, r \in Requests : \A i, c : Overwrites(q, r, i, c)' <=> Overwrites(q, r, i, c)
  BY <1>3, <1>4 DEF Overwrites
<1>6. now \in Nat /\ restarts \in 0..MaxRestarts
  BY DEF Invariant, TypeOK
<1>7. \A i \in Ids : Watched[i] # None => i \in Alive /\ Watched[i] = service[i]
  BY DEF Watched
<1>8. TypeOK'
  <2>1. Watched \in [Ids -> Row \union {None}]
    BY DEF Watched, Invariant, TypeOK
  <2>2. req' \in [Requests -> Request]
    BY <1>3 DEF Restart
  <2>3. restarts' \in Nat /\ restarts' \in 0..MaxRestarts
    BY <1>1, <1>6, CatalogueAssumption
  <2> QED
    BY <1>1, <1>6, <2>1, <2>2, <2>3 DEF Invariant, TypeOK
<1>9. Asked'
  BY <1>3 DEF Asked
<1>10. Dated'
  BY <1>1, <1>3, <1>6 DEF Invariant, Dated
<1>11. Known'
  <2>1. Rows' = Rows
    BY <1>1 DEF Rows
  <2>2. \A i \in Ids : copy'[i] # None => i \in Rows /\ copy'[i].alive
    BY <1>1, <1>7 DEF Alive
  <2> QED
    BY <1>1, <1>3, <2>1, <2>2 DEF Invariant, Known
<1>12. EditsAreKept'
  BY <1>1, <1>3, <1>4, <1>5 DEF Invariant, EditsAreKept
<1>13. ReadIsKept'
  <2> SUFFICES ASSUME NEW p \in Requests, NEW w \in Requests, NEW i \in Ids, NEW row, NEW read,
                      row = req'[p].got[i], read = req'[p].read[i], row # None
               PROVE  KeptIn(row, read, w, i)'
    BY DEF ReadIsKept
  <2>1. KeptIn(row, read, w, i)
    BY <1>3 DEF Invariant, ReadIsKept
  <2> QED
    BY <1>3, <1>4, <1>5, <2>1 DEF KeptIn
<1>14. CopyIsKept'
  <2> SUFFICES ASSUME NEW w \in Requests, NEW i \in Ids, NEW row, row = copy'[i], row # None
               PROVE  KeptIn(row, now, w, i)'
    BY <1>1 DEF CopyIsKept
  <2>1. row = service[i]
    BY <1>1, <1>7
  <2>2. KeptIn(row, now, w, i)
    BY <2>1 DEF KeptIn, Invariant, EditsAreKept
  <2> QED
    BY <1>1, <1>3, <1>4, <1>5, <2>2 DEF KeptIn
<1>15. LabelsAgree' /\ LabelsSynced'
  <2>1. \A r \in Requests : \A i : Other(r, i) => Other(r, i)'
    BY <1>3 DEF Other
  <2>2. LabelsSynced'
    BY <1>1, <1>3, <2>1 DEF Invariant, LabelsSynced
  <2>3. LabelsAgree'
    BY <1>1, <1>3, <2>1 DEF Invariant, LabelsAgree, Other
  <2> QED
    BY <2>2, <2>3
<1>16. Deleted' /\ Found'
  <2>1. \A i : WasDeleted(i)' <=> WasDeleted(i)
    BY <1>3 DEF WasDeleted
  <2>2. Rows' = Rows /\ Alive' = Alive
    BY <1>1 DEF Rows, Alive
  <2> QED
    BY <1>3, <2>1, <2>2 DEF Invariant, Deleted, Found
<1> QED
  BY <1>8, <1>9, <1>10, <1>11, <1>12, <1>13, <1>14, <1>15, <1>16 DEF Invariant

(* Every step keeps the invariant. *)
LEMMA NextHolds == Invariant /\ [Next]_vars => Invariant'
<1> SUFFICES ASSUME Invariant, [Next]_vars PROVE Invariant'
  OBVIOUS
<1>1. CASE \E r \in Requests : Step(r)
  <2>1. PICK r \in Requests : Step(r)
    BY <1>1
  <2>2. TypeOK /\ Asked /\ Dated /\ Known /\ EditsAreKept /\ ReadIsKept /\ CopyIsKept
        /\ LabelsAgree /\ LabelsSynced /\ Deleted /\ Found
    BY DEF Invariant
  <2>3. TypeOK' /\ Asked' /\ Dated'
    BY <2>1, <2>2, StepTypes
  <2>4. Known' /\ Deleted' /\ Found'
    BY <2>1, <2>2, StepKnown
  <2>5. EditsAreKept' /\ ReadIsKept' /\ CopyIsKept'
    BY <2>1, <2>2, StepEdits
  <2>6. LabelsAgree' /\ LabelsSynced'
    BY <2>1, <2>2, StepLabels
  <2> QED
    BY <2>3, <2>4, <2>5, <2>6 DEF Invariant
<1>2. CASE Restart
  BY <1>2, RestartStep
<1>3. CASE UNCHANGED vars
  <2>1. UNCHANGED <<service, label, dep, copy, started, restarts, req, now>>
    BY <1>3 DEF vars
  <2>2. (\A r : Sets(r)' = Sets(r)) /\ Rows' = Rows /\ Alive' = Alive
    BY <2>1 DEF Sets, Rows, Alive
  <2>3. \A q, r, i, c : Overwrites(q, r, i, c)' <=> Overwrites(q, r, i, c)
    BY <2>1, <2>2 DEF Overwrites
  <2>4. TypeOK' /\ Asked' /\ Dated'
    BY <2>1 DEF Invariant, TypeOK, Asked, Dated
  <2>5. Known' /\ Deleted' /\ Found'
    BY <2>1, <2>2 DEF Invariant, Known, Deleted, Found, WasDeleted
  <2>6. EditsAreKept'
    BY <2>1, <2>2, <2>3 DEF Invariant, EditsAreKept
  <2>7. ReadIsKept' /\ CopyIsKept'
    BY <2>1, <2>2, <2>3 DEF Invariant, ReadIsKept, CopyIsKept, KeptIn
  <2>8. LabelsAgree' /\ LabelsSynced'
    BY <2>1 DEF Invariant, LabelsAgree, LabelsSynced, Other
  <2> QED
    BY <2>4, <2>5, <2>6, <2>7, <2>8 DEF Invariant
<1> QED
  BY <1>1, <1>2, <1>3 DEF Next, Finished

(* The invariant holds, whatever the requests, the services, their names and the restarts. *)
THEOREM Invariance == Spec => []Invariant
<1> QED
  BY InitHolds, NextHolds, PTL DEF Spec

(* The tables, the rows in memory and the requests keep their types. *)
THEOREM TypeCorrect == Spec => []TypeOK
<1>1. Invariant => TypeOK
  BY DEF Invariant
<1> QED
  BY <1>1, Invariance, PTL

(* What a request set, a deletion included, stays set, unless a later one set that column too or *)
(* had read the row before: saving a whole row, as the health checks do with the row they read   *)
(* when the process started, is the only way to lose it.                                         *)
THEOREM EditsKept == Spec => []EditsAreKept
<1>1. Invariant => EditsAreKept
  BY DEF Invariant
<1> QED
  BY <1>1, Invariance, PTL

(* The column and the table of labels agree after an update of labels, unless another request   *)
(* wrote that service since it was read; and an answer about dependencies lacks the service at   *)
(* an end only if that one was deleted.                                                          *)
THEOREM TablesFit == Spec => []TablesAgree
<1>1. Invariant => TablesAgree
  <2> SUFFICES ASSUME Invariant PROVE EndsAreFound
    BY DEF Invariant, TablesAgree
  <2> SUFFICES ASSUME NEW r \in Requests, req[r].op = "Dependencies", req[r].answer = "ok",
                      NEW p \in req[r].deps, NEW side \in req[r].sides
               PROVE  <<side, p[side]>> \in req[r].ends \/ WasDeleted(p[side])
    BY DEF EndsAreFound, WasDeleted
  <2>1. req[r].left = {}
    BY DEF Invariant, Asked, AskedOf
  <2> QED
    BY <2>1 DEF Invariant, Found
<1> QED
  BY <1>1, Invariance, PTL

(* The names of the rows that a step inserts are free, those of deleted rows included. *)
LEMMA NewNames ==
    ASSUME TypeOK, Asked, Dated, Known, NEW r \in Requests, Step(r),
           NEW i \in Ids \ Rows, NEW j \in Rows, service'[i] # None
    PROVE  service'[i].name # service[j].name
<1>1. service[i] = None /\ service \in [Ids -> Row \union {None}]
  BY DEF Rows, TypeOK
<1>2. CASE Insert(r)
  <2>1. PICK k \in Ids \ Rows : service' = [service EXCEPT ![k] = Created(r, req[r].arg)]
    BY <1>2 DEF Insert
  <2>2. service'[i] = Created(r, req[r].arg)
    BY <1>1, <2>1
  <2>3. ~Taken(req[r].arg, None)
    BY <1>2 DEF Insert
  <2>4. j # None
    BY CatalogueAssumption DEF Rows
  <2> QED
    BY <2>2, <2>3, <2>4 DEF Taken, Created
<1>3. CASE BatchCreate(r)
  <2>1. PICK name \in [Ids \ Rows -> Names] :
           /\ \A k \in Ids \ Rows : ~Taken(name[k], k)
           /\ service' = [k \in Ids |-> IF k \in Rows THEN service[k] ELSE Created(r, name[k])]
    BY <1>3 DEF BatchCreate
  <2>2. service'[i] = Created(r, name[i])
    BY <2>1
  <2> QED
    BY <2>1, <2>2 DEF Taken, Created
<1>4. CASE Save(r)
  <2>1. i \notin Loaded(r)
    BY DEF Loaded, Known
  <2>2. PICK row : service' = [k \in Ids |-> IF k \in Loaded(r) THEN row[k] ELSE service[k]]
    BY <1>4 DEF Save
  <2> QED
    BY <1>1, <2>1, <2>2
<1>5. CASE Delete(r) \/ BatchDelete(r) \/ UpdateOpenAPI(r)
  <2>1. i \notin Alive
    BY DEF Alive
  <2>2. service'[i] = None
    <3>1. CASE Delete(r)
      BY <1>1, <2>1, <3>1 DEF Delete
    <3>2. CASE BatchDelete(r)
      BY <1>1, <2>1, <3>2 DEF BatchDelete
    <3>3. CASE UpdateOpenAPI(r)
      BY <1>1, <2>1, <3>3 DEF UpdateOpenAPI
    <3> QED
      BY <1>5, <3>1, <3>2, <3>3
  <2> QED
    BY <2>2
<1>6. CASE \/ Create(r) \/ GetByID(r) \/ BatchUpdate(r) \/ SyncLabels(r) \/ PeriodicCheck(r)
           \/ AddDependency(r) \/ RemoveDependency(r)
           \/ GetDependencies(r) \/ GetDependents(r) \/ GetDependencyGraph(r) \/ Preload(r) \/ Fail(r)
  <2>1. UNCHANGED service
    BY <1>6 DEF Create, GetByID, BatchUpdate, SyncLabels, PeriodicCheck, AddDependency, RemoveDependency,
                GetDependencies, GetDependents, GetDependencyGraph, Find, Preload, Fail
  <2> QED
    BY <1>1, <2>1
<1> QED
  BY <1>2, <1>3, <1>4, <1>5, <1>6 DEF Step

(* A dependency that was removed is never there again, and no new service has the name of one   *)
(* that was deleted: rows are only marked and their unique keys stay.                            *)
THEOREM RemovalFinal == Spec => RemovalIsFinal
<1> DEFINE Stays == \A p \in Pairs : dep[p] = "removed" => dep'[p] = "removed"
           Fresh == \A i \in Ids \ Rows, j \in Rows \ Alive :
                       service'[i] # None => service'[i].name # service[j].name
<1>1. Invariant /\ [Next]_vars => [Stays /\ Fresh]_vars
  <2> SUFFICES ASSUME Invariant, Next PROVE (Stays /\ Fresh) \/ UNCHANGED vars
    OBVIOUS
  <2>1. CASE \E r \in Requests : Step(r)
    <3>1. PICK r \in Requests : Step(r)
      BY <2>1
    <3>2. Stays
      BY <3>1, Steps DEF Invariant
    <3>3. Fresh
      BY <3>1, NewNames DEF Invariant
    <3> QED
      BY <3>2, <3>3
  <2>2. CASE Restart
    <3>1. UNCHANGED <<service, dep>>
      BY <2>2 DEF Restart
    <3>2. \A i \in Ids \ Rows : service[i] = None
      BY DEF Rows
    <3> QED
      BY <3>1, <3>2
  <2>3. CASE Finished
    BY <2>3 DEF Finished
  <2> QED
    BY <2>1, <2>2, <2>3 DEF Next
<1> QED
  BY <1>1, Invariance, PTL DEF Spec, RemovalIsFinal

=============================================================================
