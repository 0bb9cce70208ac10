------------------------- MODULE ServiceLevels_proof -------------------------
(***************************************************************************)
(* Proofs about ServiceLevels, for any requests, objectives, thresholds,   *)
(* burn rates and size of a refresh.                                       *)
(***************************************************************************)
EXTENDS ServiceLevels, TLAPS

Row == [def : Definitions, alive : BOOLEAN]
Labels == {"new", "insert", "insertSLI", "undo", "load", "save", "findSLI", "deleteSLI", "delete",
           "list", "enrich", "refresh", "done"}
Works == {"none", "waiting", "read", "find", "collect", "burn", "over", "failed"}
Statuses == {"unknown", "healthy", "warning", "critical"}
Entry == [status : Statuses, rate : Rates, def : Definitions]
Seen == [status : Statuses, def : Definitions, of : Definitions \union {None},
         severity : {"warning", "critical", None}]
Request == [op : Ops \union {None}, pc : Labels, id : Ids \union {None}, def : Definitions \union {None},
            got : [Ids -> Definitions \union {None}], work : [Ids -> Works],
            seen : [Ids -> Seen \union {None}], answer : {"ok", "error", None}]

TypeOK == /\ slo \in [Ids -> Row \union {None}]
          /\ sli \in [Ids -> {"never", "there", "removed"}]
          /\ cache \in [Ids -> Entry \union {None}]
          /\ req \in [Requests -> Request]
          /\ marred \subseteq Ids

(* Where a request is says what it was asked for. *)
AskedOf(q) ==
    /\ q.pc = "new" => q = New
    /\ q.pc \in {"insert", "insertSLI", "undo"} => q.op = "create" /\ q.id \in Ids /\ q.def \in Definitions
    /\ q.pc = "load" => q.op \in {"update", "get"} /\ q.id \in Ids
    /\ q.pc = "load" /\ q.op = "update" => q.def \in Definitions
    /\ q.pc = "save" => q.op = "update" /\ q.id \in Ids /\ q.def \in Definitions
    /\ q.pc \in {"findSLI", "deleteSLI", "delete"} => q.op = "delete" /\ q.id \in Ids
    /\ q.pc = "list" => q.op \in {"list", "refreshAll"} /\ \A i \in Ids : q.work[i] = "none"
    /\ q.op = "create" => q.pc \in {"insert", "insertSLI", "undo"}
    /\ q.op = "update" => q.pc \in {"load", "save", "enrich"}
    /\ q.op = "delete" => q.pc \in {"findSLI", "deleteSLI", "delete"}
    /\ q.op = "update" => q.pc # "enrich"
    /\ \A i \in Ids : q.work[i] \in {"find", "collect", "burn"} => q.got[i] \in Definitions

Asked == \A r \in Requests : AskedOf(req[r])

(* Unless the objective is marred, who creates or deletes it is alone in writing it. *)
Writers == {"create", "update", "delete"}
Alone ==
    \A r, q \in Requests :
        /\ r # q /\ req[r].op \in Writers /\ req[q].op \in Writers
        /\ req[r].id = req[q].id /\ req[r].id \notin marred
        => req[r].op = "update" /\ req[q].op = "update"

(* How far a request has come with an objective that is not marred. *)
Progress ==
    \A r \in Requests :
        LET i == req[r].id IN
        i \in Ids \ marred =>
           /\ req[r].pc = "insert" => i \notin Alive /\ sli[i] # "there"
           /\ req[r].pc \in {"insertSLI", "undo"} => i \in Alive /\ sli[i] # "there"
           /\ req[r].pc = "save" => i \in Alive /\ sli[i] = "there"
           /\ req[r].pc = "findSLI" => (i \in Alive <=> sli[i] = "there")
           /\ req[r].pc = "deleteSLI" => i \in Alive /\ sli[i] = "there"
           /\ req[r].pc = "delete" => sli[i] # "there"

(* What is in the cache was computed from the thresholds that are there too. *)
Computed == \A i \in Ids : cache[i] # None => cache[i].status = CalculateStatus(cache[i].rate, cache[i].def)

(* What a request has seen: one rate, with the thresholds that it has read and those in *)
(* the cache.                                                                           *)
SeenOf(s, rate) == /\ s.severity = Severity(rate, s.def)
                   /\ \/ s.of = None /\ s.status = "unknown" /\ rate = 0
                      \/ s.of \in Definitions /\ s.status = CalculateStatus(rate, s.of)
Enriched == \A r \in Requests, i \in Ids : req[r].seen[i] # None => \E rate \in Rates : SeenOf(req[r].seen[i], rate)

(* The inductive invariant. *)
Invariant == /\ TypeOK /\ Asked
             /\ Alone /\ Progress /\ OrphansAccounted
             /\ Computed /\ Enriched

-----------------------------------------------------------------------------
(* The invariant holds at the start. *)
LEMMA InitHolds == Init => Invariant
<1> SUFFICES ASSUME Init PROVE Invariant
  OBVIOUS
<1>1. \A r \in Requests : req[r] = New
  BY DEF Init
<1>2. New \in Request
  BY DEF New, Request, Labels, Works
<1>3. \A i \in Ids : slo[i] \in Row \union {None} /\ slo[i] # None => i \in Alive /\ sli[i] = "there"
  BY DEF Init, Row, Alive
<1>4. slo \in [Ids -> Row \union {None}]
  BY DEF Init, Row
<1>5. TypeOK
  BY <1>2, <1>4 DEF Init, TypeOK
<1>6. Asked
  BY <1>1, NoneIsNoRow DEF Asked, AskedOf, New, Ops
<1>7. OrphansAccounted
  BY <1>1, <1>3 DEF OrphansAccounted, Init, Alive
<1>8. Alone /\ Progress
  BY <1>1, NoneIsNoRow DEF Alone, Progress, New, Writers, Ops
<1>9. Computed /\ Enriched
  BY <1>1 DEF Init, Computed, Enriched, New
<1> QED
  BY <1>5, <1>6, <1>7, <1>8, <1>9 DEF Invariant

(* A step makes q of what is recorded of r. *)
Becomes(r, q) == /\ q \in Request /\ AskedOf(q)
                 /\ req' = [req EXCEPT ![r] = q]

(* What becomes of the requests when one becomes q. *)
LEMMA Becoming ==
    ASSUME TypeOK, Asked, NEW r \in Requests, NEW q, Becomes(r, q)
    PROVE  /\ req' \in [Requests -> Request] /\ Asked'
           /\ req'[r] = q
           /\ \A p \in Requests \ {r} : req'[p] = req[p]
<1>1. req' \in [Requests -> Request] /\ req'[r] = q /\ \A p \in Requests \ {r} : req'[p] = req[p]
  BY DEF Becomes, TypeOK
<1> QED
  BY <1>1 DEF Becomes, Asked

(* The ends of a request and its other steps, as one new record of it. *)
LEMMA Records ==
    ASSUME TypeOK, Asked, NEW r \in Requests
    PROVE  /\ \A a \in {"ok", "error"} : Respond(r, a) => Becomes(r, [New EXCEPT !.pc = "done", !.answer = a])
           /\ \A pc \in {"insertSLI", "undo", "deleteSLI", "delete"} :
                 /\ Goto(r, pc)
                 /\ pc \in {"insertSLI", "undo"} => req[r].pc \in {"insert", "insertSLI"}
                 /\ pc \in {"deleteSLI", "delete"} => req[r].pc \in {"findSLI", "deleteSLI"}
                 => Becomes(r, [req[r] EXCEPT !.pc = pc])
           /\ \A i \in Ids, from \in Works \ {"none"}, to \in Works, def \in Definitions \union {None} :
                 /\ Step(r, i, from, to, def)
                 /\ to \in {"find", "collect", "burn"} => def \in Definitions
                 => Becomes(r, [req[r] EXCEPT !.work[i] = to, !.got[i] = def])
<1>0. req[r] \in Request /\ AskedOf(req[r])
  BY DEF Asked, TypeOK
<1>1. ASSUME NEW a \in {"ok", "error"}, Respond(r, a)
      PROVE  Becomes(r, [New EXCEPT !.pc = "done", !.answer = a])
  <2> DEFINE q == [New EXCEPT !.pc = "done", !.answer = a]
  <2>1. q \in Request
    BY DEF New, Request, Labels, Works
  <2>2. AskedOf(q)
    BY NoneIsNoRow DEF New, AskedOf, Ops
  <2> QED
    BY <1>1, <2>1, <2>2 DEF Respond, Becomes
<1>2. ASSUME NEW pc \in {"insertSLI", "undo", "deleteSLI", "delete"}, Goto(r, pc),
             pc \in {"insertSLI", "undo"} => req[r].pc \in {"insert", "insertSLI"},
             pc \in {"deleteSLI", "delete"} => req[r].pc \in {"findSLI", "deleteSLI"}
      PROVE  Becomes(r, [req[r] EXCEPT !.pc = pc])
  <2> DEFINE q == [req[r] EXCEPT !.pc = pc]
  <2>1. q \in Request
    BY <1>0 DEF Request, Labels
  <2>2. AskedOf(q)
    BY <1>0, <1>2 DEF AskedOf, Request
  <2>3. req' = [req EXCEPT ![r] = q]
    BY <1>2 DEF Goto, TypeOK
  <2> QED
    BY <2>1, <2>2, <2>3 DEF Becomes
<1>3. ASSUME NEW i \in Ids, NEW from \in Works \ {"none"}, NEW to \in Works, NEW def \in Definitions \union {None},
             Step(r, i, from, to, def), to \in {"find", "collect", "burn"} => def \in Definitions
      PROVE  Becomes(r, [req[r] EXCEPT !.work[i] = to, !.got[i] = def])
  <2> DEFINE q == [req[r] EXCEPT !.work[i] = to, !.got[i] = def]
  <2>1. q \in Request
    BY <1>0 DEF Request
  <2>2. AskedOf(q)
    <3>1. /\ q.pc = req[r].pc /\ q.op = req[r].op /\ q.id = req[r].id /\ q.def = req[r].def
          /\ q.work[i] = to /\ q.got[i] = def
          /\ \A j \in Ids \ {i} : q.work[j] = req[r].work[j] /\ q.got[j] = req[r].got[j]
      BY <1>0 DEF Request
    <3>2. q.pc \notin {"new", "list"}
      BY <1>0, <1>3, <3>1 DEF AskedOf, New, Step
    <3> QED
      BY <1>0, <1>3, <3>1, <3>2 DEF AskedOf
  <2>3. req' = [req EXCEPT ![r] = q]
    BY <1>0, <1>3 DEF Step, Request, TypeOK
  <2> QED
    BY <2>1, <2>2, <2>3 DEF Becomes
<1> QED
  BY <1>1, <1>2, <1>3

(* What is recorded of a request that begins. *)
Asking(op, i, def, pc) == [New EXCEPT !.op = op, !.id = i, !.def = def, !.pc = pc]

(* The first step of a request. *)
LEMMA Beginnings ==
    ASSUME TypeOK, Asked, NEW r \in Requests, Receive(r)
    PROVE  /\ \E q : Becomes(r, q)
           /\ req[r] = New
           /\ UNCHANGED <<slo, sli, cache>> /\ marred \subseteq marred' /\ marred' \subseteq Ids
           /\ req'[r].pc \notin {"insertSLI", "undo", "save", "deleteSLI", "delete"}
           /\ \A i \in Ids : req'[r].seen[i] = None
           /\ req'[r].pc = "insert" => /\ req'[r].id \in Ids /\ slo[req'[r].id] = None
                                       /\ \A q \in Requests : req[q].id # req'[r].id
           /\ req'[r].op = "delete" => req'[r].id \in Ids /\ (req'[r].id \in marred' \/ ~Busy(req'[r].id, Writers))
           /\ req'[r].op = "update" =>
                 req'[r].id \in Ids /\ (req'[r].id \in marred' \/ ~Busy(req'[r].id, {"create", "delete"}))
<1>0. req[r] \in Request /\ AskedOf(req[r])
  BY DEF Asked, TypeOK
<1>1. ASSUME NEW op \in Ops, NEW i \in Ids \union {None}, NEW def \in Definitions \union {None}, NEW pc \in Labels,
             i \in Ids \/ op \in {"list", "refreshAll"}, Begin(r, op, i, def, pc), AskedOf(Asking(op, i, def, pc))
      PROVE  /\ \E q : Becomes(r, q)
             /\ req[r] = New
             /\ req'[r] = Asking(op, i, def, pc)
             /\ UNCHANGED <<slo, sli, cache>> /\ marred \subseteq marred' /\ marred' \subseteq Ids
             /\ op = "delete" => i \in marred' \/ ~Busy(i, Writers)
             /\ op = "update" => i \in marred' \/ ~Busy(i, {"create", "delete"})
  <2> DEFINE q == Asking(op, i, def, pc)
  <2>1. req[r] = New
    BY <1>0, <1>1 DEF Begin, At, AskedOf
  <2>2. q \in Request
    BY DEF New, Request, Works, Asking
  <2>3. req' = [req EXCEPT ![r] = q]
    BY <1>1, <2>1 DEF Begin, Asking
  <2>4. Becomes(r, q)
    BY <1>1, <2>2, <2>3 DEF Becomes
  <2>5. req'[r] = q
    BY <2>3 DEF TypeOK
  <2>6. UNCHANGED <<slo, sli, cache>> /\ marred \subseteq marred' /\ marred' \subseteq Ids
    BY <1>1 DEF Begin, tables, Marred, TypeOK
  <2>7. /\ op = "delete" => i \in marred' \/ ~Busy(i, Writers)
        /\ op = "update" => i \in marred' \/ ~Busy(i, {"create", "delete"})
    BY <1>1 DEF Begin, Marred, Writers
  <2> QED
    BY <2>1, <2>4, <2>5, <2>6, <2>7
<1>a. {"create", "update", "delete", "get", "list", "refreshAll"} \subseteq Ops
  BY DEF Ops
<1>b. {"insert", "load", "findSLI", "list"} \subseteq Labels
  BY DEF Labels
<1>2. CASE \E i \in Ids, def \in Definitions : CreateSLO(r, i, def)
  <2>1. PICK i \in Ids, def \in Definitions : CreateSLO(r, i, def)
    BY <1>2
  <2>2. AskedOf(Asking("create", i, def, "insert"))
    BY DEF AskedOf, New, Asking
  <2>3. req'[r] = Asking("create", i, def, "insert")
    BY <1>1, <1>a, <1>b, <2>1, <2>2 DEF CreateSLO
  <2>4. /\ req'[r].id = i /\ req'[r].pc = "insert" /\ req'[r].op = "create"
        /\ \A j \in Ids : req'[r].seen[j] = None
    BY <2>3 DEF New, Asking
  <2>5. slo[i] = None /\ \A q \in Requests : req[q].id # i
    BY <2>1 DEF CreateSLO
  <2> QED
    BY <1>1, <1>a, <1>b, <2>1, <2>2, <2>4, <2>5 DEF CreateSLO
<1>3. CASE \E i \in Ids, def \in Definitions : UpdateSLO(r, i, def)
  <2>1. PICK i \in Ids, def \in Definitions : UpdateSLO(r, i, def)
    BY <1>3
  <2>2. AskedOf(Asking("update", i, def, "load"))
    BY DEF AskedOf, New, Asking
  <2>3. req'[r] = Asking("update", i, def, "load")
    BY <1>1, <1>a, <1>b, <2>1, <2>2 DEF UpdateSLO
  <2>4. /\ req'[r].id = i /\ req'[r].pc = "load" /\ req'[r].op = "update"
        /\ \A j \in Ids : req'[r].seen[j] = None
    BY <2>3 DEF New, Asking
  <2> QED
    BY <1>1, <1>a, <1>b, <2>1, <2>2, <2>4 DEF UpdateSLO
<1>4. CASE \E i \in Ids : DeleteSLO(r, i)
  <2>1. PICK i \in Ids : DeleteSLO(r, i)
    BY <1>4
  <2>2. AskedOf(Asking("delete", i, None, "findSLI"))
    BY DEF AskedOf, New, Asking
  <2>3. req'[r] = Asking("delete", i, None, "findSLI")
    BY <1>1, <1>a, <1>b, <2>1, <2>2 DEF DeleteSLO
  <2>4. /\ req'[r].id = i /\ req'[r].pc = "findSLI" /\ req'[r].op = "delete"
        /\ \A j \in Ids : req'[r].seen[j] = None
    BY <2>3 DEF New, Asking
  <2> QED
    BY <1>1, <1>a, <1>b, <2>1, <2>2, <2>4 DEF DeleteSLO
<1>5. CASE \E i \in Ids : GetSLO(r, i)
  <2>1. PICK i \in Ids : GetSLO(r, i)
    BY <1>5
  <2>2. AskedOf(Asking("get", i, None, "load"))
    BY DEF AskedOf, New, Asking
  <2>3. req'[r] = Asking("get", i, None, "load")
    BY <1>1, <1>a, <1>b, <2>1, <2>2 DEF GetSLO
  <2>4. req'[r].pc = "load" /\ req'[r].op = "get" /\ \A j \in Ids : req'[r].seen[j] = None
    BY <2>3 DEF New, Asking
  <2> QED
    BY <1>1, <1>a, <1>b, <2>1, <2>2, <2>4 DEF GetSLO
<1>6. CASE List(r) \/ RefreshAll(r)
  <2>1. PICK op \in {"list", "refreshAll"} : Begin(r, op, None, None, "list")
    BY <1>6 DEF List, RefreshAll
  <2>2. AskedOf(Asking(op, None, None, "list"))
    BY DEF AskedOf, New, Asking
  <2>3. req'[r] = Asking(op, None, None, "list")
    BY <1>1, <1>a, <1>b, <2>1, <2>2
  <2>4. req'[r].pc = "list" /\ req'[r].op = op /\ \A j \in Ids : req'[r].seen[j] = None
    BY <2>3 DEF New, Asking
  <2> QED
    BY <1>1, <1>a, <1>b, <2>1, <2>2, <2>4
<1>7. CASE \E i \in Ids : Refresh(r, i)
  <2>1. PICK i \in Ids : Refresh(r, i)
    BY <1>7
  <2> DEFINE q == [New EXCEPT !.op = "refresh", !.id = i, !.pc = "refresh", !.work[i] = "read"]
  <2>2. req[r] = New /\ UNCHANGED <<slo, sli, cache, marred>>
    BY <1>0, <2>1 DEF Refresh, At, AskedOf, tables
  <2>3. q \in Request
    BY DEF New, Request, Works, Labels, Ops
  <2>4. AskedOf(q)
    BY DEF New, AskedOf
  <2>5. req' = [req EXCEPT ![r] = q]
    BY <2>1, <2>2 DEF Refresh
  <2>6. Becomes(r, q) /\ req'[r] = q
    BY <2>3, <2>4, <2>5 DEF Becomes, TypeOK
  <2>7. q.pc = "refresh" /\ q.op = "refresh" /\ \A j \in Ids : q.seen[j] = None
    BY DEF New
  <2> HIDE DEF q
  <2> QED
    BY <2>2, <2>6, <2>7 DEF TypeOK
<1> QED
  BY <1>2, <1>3, <1>4, <1>5, <1>6, <1>7 DEF Receive

(* A calculated status is known, and a severity is one of two or none. *)
LEMMA Calculated ==
    ASSUME NEW rate \in Rates, NEW def \in Definitions
    PROVE  CalculateStatus(rate, def) \in Statuses \ {"unknown"} /\ Severity(rate, def) \in {"warning", "critical", None}
  BY DEF CalculateStatus, Severity, Statuses

(* A step of a request that has begun, by the action that is taken. *)
LEMMA ServeTypes ==
    ASSUME TypeOK, Asked, NEW r \in Requests, Serve(r)
    PROVE  TypeOK' /\ \E q : Becomes(r, q)
<1>0. req[r] \in Request /\ AskedOf(req[r])
  BY DEF Asked, TypeOK
<1>a. \A i \in Alive : slo[i] \in Row /\ slo[i].def \in Definitions
  BY DEF Alive, TypeOK, Row
<1> SUFFICES /\ slo' \in [Ids -> Row \union {None}]
             /\ sli' \in [Ids -> {"never", "there", "removed"}]
             /\ cache' \in [Ids -> Entry \union {None}]
             /\ marred' \subseteq Ids
             /\ \E q : Becomes(r, q)
  BY Becoming DEF TypeOK
<1>1. CASE Insert(r)
  <2>1. \E q : Becomes(r, q)
    BY <1>1, Records DEF Insert, At
  <2>2. req[r].id \in Ids /\ [def |-> req[r].def, alive |-> TRUE] \in Row
    BY <1>0, <1>1 DEF Insert, At, AskedOf, Row
  <2> QED
    BY <1>1, <2>1, <2>2 DEF Insert, TypeOK
<1>2. CASE InsertSLI(r)
  <2>1. \E q : Becomes(r, q)
    BY <1>2, Records DEF InsertSLI, At
  <2> QED
    BY <1>2, <2>1 DEF InsertSLI, TypeOK
<1>b. \A i : Removed(i) \in [Ids -> Row \union {None}]
  <2>1. \A i \in Alive : [slo[i] EXCEPT !.alive = FALSE] \in Row
    BY <1>a DEF Row
  <2> QED
    BY <2>1 DEF Removed, TypeOK
<1>3. CASE Undo(r)
  <2>1. \E q : Becomes(r, q)
    BY <1>3, Records DEF Undo
  <2>2. req[r].id \in Ids
    BY <1>0, <1>3 DEF Undo, At, AskedOf
  <2> QED
    BY <1>3, <1>b, <2>1, <2>2 DEF Undo, TypeOK, Marred
<1>4. CASE GetByID(r)
  <2>1. CASE Respond(r, "error")
    BY <1>4, <2>1, Records DEF GetByID, tables, TypeOK
  <2>2. CASE req[r].id \in Alive /\ ~Respond(r, "error")
    <3> DEFINE q == [req[r] EXCEPT !.got[req[r].id] = slo[req[r].id].def,
                                   !.pc = IF req[r].op = "update" THEN "save" ELSE "enrich"]
    <3>1. req[r].id \in Ids /\ slo[req[r].id].def \in Definitions
      BY <1>a, <2>2 DEF Alive
    <3>2. q \in Request
      BY <1>0, <3>1 DEF Request, Labels
    <3>3. AskedOf(q)
      <4>1. req[r].pc = "load"
        BY <1>4 DEF GetByID, At
      <4>2. /\ q.op = req[r].op /\ q.id = req[r].id /\ q.def = req[r].def /\ q.work = req[r].work
            /\ q.pc = IF req[r].op = "update" THEN "save" ELSE "enrich"
            /\ q.got[req[r].id] \in Definitions
            /\ \A j \in Ids \ {req[r].id} : q.got[j] = req[r].got[j]
        BY <1>0, <3>1 DEF Request
      <4> HIDE DEF q
      <4> QED
        BY <1>0, <4>1, <4>2 DEF AskedOf
    <3>4. req' = [req EXCEPT ![r] = q]
      BY <1>0, <1>4, <2>2 DEF GetByID, TypeOK, Request
    <3>5. Becomes(r, q)
      BY <3>2, <3>3, <3>4 DEF Becomes
    <3> HIDE DEF q
    <3> QED
      BY <1>4, <3>5 DEF GetByID, tables, TypeOK
  <2> QED
    BY <1>4, <2>1, <2>2 DEF GetByID
<1>5. CASE Save(r)
  <2>1. \E q : Becomes(r, q)
    BY <1>5, Records DEF Save
  <2>2. req[r].id \in Ids /\ [def |-> req[r].def, alive |-> TRUE] \in Row
    BY <1>0, <1>5 DEF Save, At, AskedOf, Row
  <2> QED
    BY <1>5, <2>1, <2>2 DEF Save, TypeOK
<1>6. CASE GetBySLOID(r)
  <2>1. \E q : Becomes(r, q)
    BY <1>6, Records DEF GetBySLOID, At
  <2>2. req[r].id \in Ids
    BY <1>0, <1>6 DEF GetBySLOID, At, AskedOf
  <2> QED
    BY <1>6, <2>1, <2>2 DEF GetBySLOID, TypeOK, tables, Marred
<1>7. CASE DeleteSLI(r)
  <2>1. \E q : Becomes(r, q)
    BY <1>7, Records DEF DeleteSLI, At
  <2>2. req[r].id \in Ids
    BY <1>0, <1>7 DEF DeleteSLI, At, AskedOf
  <2> QED
    BY <1>7, <2>1, <2>2 DEF DeleteSLI, TypeOK, Marred
<1>8. CASE Delete(r)
  <2>1. \E q : Becomes(r, q)
    BY <1>8, Records DEF Delete
  <2>2. req[r].id \in Ids
    BY <1>0, <1>8 DEF Delete, At, AskedOf
  <2> QED
    BY <1>8, <1>b, <2>1, <2>2 DEF Delete, TypeOK, Marred
<1>9. CASE ListRows(r)
  <2>1. CASE Respond(r, "error")
    BY <1>9, <2>1, Records DEF ListRows, tables, TypeOK
  <2>2. CASE ~Respond(r, "error") /\ req[r].op = "list"
    <3> DEFINE q == [req[r] EXCEPT !.pc = "enrich", !.got = [i \in Ids |-> IF i \in Alive THEN slo[i].def ELSE None]]
    <3>1. q \in Request
      BY <1>0, <1>a DEF Request, Labels
    <3>2. req' = [req EXCEPT ![r] = q]
      BY <1>9, <2>2 DEF ListRows
    <3>3. AskedOf(q)
      <4>1. q.op = req[r].op /\ q.pc = "enrich" /\ q.work = req[r].work
        BY <1>0 DEF Request
      <4>2. \A i \in Ids : req[r].work[i] = "none"
        BY <1>0, <1>9 DEF ListRows, At, AskedOf
      <4> QED
        BY <2>2, <4>1, <4>2 DEF AskedOf
    <3> QED
      BY <1>9, <3>1, <3>2, <3>3 DEF ListRows, tables, TypeOK, Becomes
  <2>3. CASE ~Respond(r, "error") /\ req[r].op # "list"
    <3> DEFINE q == [req[r] EXCEPT !.pc = "refresh", !.work = [i \in Ids |-> IF i \in Alive THEN "waiting" ELSE "none"]]
    <3>1. q \in Request
      BY <1>0 DEF Request, Labels, Works
    <3>2. req' = [req EXCEPT ![r] = q]
      BY <1>9, <2>3 DEF ListRows
    <3>3. AskedOf(q)
      <4>1. q.op = req[r].op /\ q.pc = "refresh" /\ \A i \in Ids : q.work[i] \in {"waiting", "none"}
        BY <1>0 DEF Request
      <4>2. req[r].op = "refreshAll"
        BY <1>0, <1>9, <2>3 DEF ListRows, At, AskedOf
      <4> QED
        BY <4>1, <4>2 DEF AskedOf
    <3> QED
      BY <1>9, <3>1, <3>2, <3>3 DEF ListRows, tables, TypeOK, Becomes
  <2> QED
    BY <2>1, <2>2, <2>3
<1>10. CASE Answer(r)
  BY <1>10, Records DEF Answer, tables, TypeOK
<1>11. CASE Refreshed(r)
  BY <1>11, Records DEF Refreshed, tables, TypeOK
<1>12. CASE \E i \in Ids : Enrich(r, i)
  <2>1. PICK i \in Ids : Enrich(r, i)
    BY <1>12
  <2> DEFINE rate == IF cache[i] = None THEN 0 ELSE cache[i].rate
             s == [status |-> IF cache[i] = None THEN "unknown" ELSE cache[i].status,
                   def |-> req[r].got[i],
                   of |-> IF cache[i] = None THEN None ELSE cache[i].def,
                   severity |-> Severity(rate, req[r].got[i])]
             q == [req[r] EXCEPT !.seen[i] = s]
  <2>2. req[r].got[i] \in Definitions /\ cache[i] \in Entry \union {None}
    BY <1>0, <2>1 DEF Enrich, Request, TypeOK
  <2>3. rate \in Rates
    BY <2>2, LevelsAssumption DEF Entry
  <2>4. Severity(rate, req[r].got[i]) \in {"warning", "critical", None}
    BY <2>2, <2>3, Calculated
  <2>5. s \in Seen
    BY <2>2, <2>4 DEF Seen, Entry, Statuses
  <2>6. req' = [req EXCEPT ![r] = q]
    BY <1>0, <2>1 DEF Enrich, TypeOK, Request
  <2> HIDE DEF s
  <2>7. q \in Request
    BY <1>0, <2>5 DEF Request
  <2>8. AskedOf(q)
    <3>1. q.op = req[r].op /\ q.pc = req[r].pc /\ q.work = req[r].work /\ q.got = req[r].got
      BY <1>0 DEF Request
    <3>2. req[r].pc = "enrich"
      BY <2>1 DEF Enrich, At
    <3> HIDE DEF q
    <3> QED
      BY <1>0, <3>1, <3>2 DEF AskedOf
  <2>9. Becomes(r, q)
    BY <2>6, <2>7, <2>8 DEF Becomes
  <2> HIDE DEF q
  <2> QED
    BY <2>1, <2>9 DEF Enrich, tables, TypeOK
<1>c. {"waiting", "read", "find", "collect", "burn", "over", "failed"} \subseteq Works \ {"none"}
  BY DEF Works
<1>d. ASSUME NEW i \in Ids, NEW from \in {"waiting", "read", "find", "collect", "burn"},
             NEW to \in {"read", "find", "collect", "burn", "over", "failed"}, NEW def \in Definitions \union {None},
             Step(r, i, from, to, def), to \in {"find", "collect", "burn"} => def \in Definitions
      PROVE  \E q : Becomes(r, q)
  <2>1. from \in Works \ {"none"} /\ to \in Works
    BY <1>c
  <2> QED
    BY <1>d, <2>1, Records
<1>e. \A i \in Ids : req[r].work[i] \in {"find", "collect", "burn"} => req[r].got[i] \in Definitions
  BY <1>0 DEF AskedOf
<1>13. CASE \E i \in Ids : Acquire(r, i)
  BY <1>13, <1>d DEF Acquire, tables, TypeOK
<1>14. CASE \E i \in Ids : ReadRow(r, i)
  <2>1. PICK i \in Ids : ReadRow(r, i)
    BY <1>14
  <2>2. CASE i \in Alive /\ Step(r, i, "read", "find", slo[i].def)
    BY <1>a, <1>d, <2>1, <2>2 DEF ReadRow, tables, TypeOK
  <2>3. CASE Step(r, i, "read", "failed", None)
    BY <1>d, <2>1, <2>3 DEF ReadRow, tables, TypeOK
  <2> QED
    BY <2>1, <2>2, <2>3 DEF ReadRow
<1>15. CASE \E i \in Ids : FindSLI(r, i) \/ CollectSLI(r, i)
  <2>1. PICK i \in Ids : FindSLI(r, i) \/ CollectSLI(r, i)
    BY <1>15
  <2>2. UNCHANGED <<tables, cache, marred>>
    BY <2>1 DEF FindSLI, CollectSLI
  <2>3. PICK from \in {"find", "collect"}, to \in {"collect", "burn", "over"} :
           Step(r, i, from, to, IF to = "over" THEN None ELSE req[r].got[i])
    BY <2>1 DEF FindSLI, CollectSLI
  <2>4. req[r].work[i] = from
    BY <2>3 DEF Step
  <2>5. \E q : Becomes(r, q)
    BY <1>d, <1>e, <2>3, <2>4
  <2> QED
    BY <2>2, <2>5 DEF tables, TypeOK
<1>16. CASE \E i \in Ids : CollectBurnRate(r, i)
  <2>1. PICK i \in Ids, rate \in Rates :
           /\ Step(r, i, "burn", "over", None)
           /\ UpdateStatusCache(i, CalculateStatus(rate, req[r].got[i]), rate, req[r].got[i])
           /\ UNCHANGED <<tables, marred>>
    BY <1>16 DEF CollectBurnRate
  <2>2. req[r].got[i] \in Definitions
    BY <1>e, <2>1 DEF Step
  <2>3. CalculateStatus(rate, req[r].got[i]) \in Statuses
    BY <2>2, Calculated
  <2>4. \E q : Becomes(r, q)
    BY <1>d, <2>1
  <2>5. cache' \in [Ids -> Entry \union {None}]
    BY <2>1, <2>2, <2>3 DEF UpdateStatusCache, Entry, TypeOK
  <2> QED
    BY <2>1, <2>4, <2>5 DEF tables, TypeOK
<1> QED
  BY <1>1, <1>2, <1>3, <1>4, <1>5, <1>6, <1>7, <1>8, <1>9, <1>10, <1>11, <1>12, <1>13, <1>14, <1>15, <1>16
     DEF Serve

(* How r goes on when the tables stay as they are. *)
Same(r) == req'[r].op = req[r].op /\ req'[r].id = req[r].id
Ends(r) == req'[r].op = None /\ req'[r].pc = "done"
Reads(r) ==
    \/ Same(r) /\ req'[r].pc \in {req[r].pc, "enrich", "refresh"}
    \/ Ends(r) /\ (req[r].op \in {"create", "delete"} => req[r].pc = "insert" \/ req[r].id \in marred')
    \/ Same(r) /\ req[r].pc = "insertSLI" /\ req'[r].pc = "undo"
    \/ Same(r) /\ req[r].op = "update" /\ req[r].id \in Alive /\ req'[r].pc = "save"
    \/ Same(r) /\ req[r].pc = "findSLI" /\ sli[req[r].id] = "there" /\ req'[r].pc = "deleteSLI"
    \/ Same(r) /\ req'[r].pc = "delete" /\ (sli[req[r].id] # "there" \/ req[r].id \in marred')

(* How it goes on when it writes them. *)
Writes(r) ==
    \/ /\ req[r].pc = "insert" /\ Same(r) /\ req'[r].pc = "insertSLI"
       /\ slo' = [slo EXCEPT ![req[r].id] = [def |-> req[r].def, alive |-> TRUE]] /\ UNCHANGED sli
    \/ req[r].pc = "insertSLI" /\ Ends(r) /\ sli' = [sli EXCEPT ![req[r].id] = "there"] /\ UNCHANGED slo
    \/ req[r].pc \in {"undo", "delete"} /\ Ends(r) /\ slo' = Removed(req[r].id) /\ UNCHANGED sli
    \/ /\ req[r].pc = "save" /\ Ends(r)
       /\ slo' = [slo EXCEPT ![req[r].id] = [def |-> req[r].def, alive |-> TRUE]] /\ UNCHANGED sli
    \/ /\ req[r].pc = "deleteSLI" /\ Same(r) /\ req'[r].pc = "delete"
       /\ sli' = [sli EXCEPT ![req[r].id] = "removed"] /\ UNCHANGED slo

(* What else a step of a request that has begun does. *)
LEMMA Served ==
    ASSUME TypeOK, Asked, NEW r \in Requests, Serve(r)
    PROVE  /\ marred \subseteq marred'
           /\ \/ UNCHANGED <<slo, sli>> /\ Reads(r)
              \/ Writes(r)
<1>0. req[r] \in Request /\ AskedOf(req[r])
  BY DEF Asked, TypeOK
<1>1. \A a : Respond(r, a) => Ends(r)
  BY DEF Respond, Ends, New, TypeOK
<1>2. \A pc : Goto(r, pc) => Same(r) /\ req'[r].pc = pc
  BY <1>0 DEF Goto, Same, TypeOK, Request
<1>3. \A i, from, to, def : Step(r, i, from, to, def) => Same(r) /\ req'[r].pc = req[r].pc
  BY <1>0 DEF Step, Same, TypeOK, Request
<1>4. CASE Insert(r) \/ InsertSLI(r) \/ Undo(r) \/ Save(r) \/ DeleteSLI(r) \/ Delete(r)
  <2>1. marred \subseteq marred'
    BY <1>4 DEF Insert, InsertSLI, Undo, Save, DeleteSLI, Delete, Marred
  <2>2. CASE Insert(r)
    BY <1>0, <1>1, <1>2, <2>1, <2>2 DEF Insert, At, Reads, Writes, AskedOf
  <2>3. CASE InsertSLI(r)
    BY <1>0, <1>1, <1>2, <2>1, <2>3 DEF InsertSLI, At, Reads, Writes, AskedOf
  <2>4. CASE Undo(r)
    BY <1>0, <1>1, <1>2, <2>1, <2>4 DEF Undo, At, Reads, Writes, AskedOf, Marred
  <2>5. CASE Save(r)
    BY <1>0, <1>1, <1>2, <2>1, <2>5 DEF Save, At, Reads, Writes, AskedOf
  <2>6. CASE DeleteSLI(r)
    BY <1>0, <1>1, <1>2, <2>1, <2>6 DEF DeleteSLI, At, Reads, Writes, AskedOf, Marred
  <2>7. CASE Delete(r)
    BY <1>0, <1>1, <1>2, <2>1, <2>7 DEF Delete, At, Reads, Writes, AskedOf, Marred
  <2> QED
    BY <1>4, <2>2, <2>3, <2>4, <2>5, <2>6, <2>7
<1>5. CASE GetByID(r)
  <2>1. UNCHANGED <<slo, sli, marred>> /\ req[r].op \in {"update", "get"}
    BY <1>0, <1>5 DEF GetByID, tables, At, AskedOf
  <2>2. CASE \E a : Respond(r, a)
    BY <1>1, <2>1, <2>2 DEF Reads
  <2>3. CASE /\ req[r].id \in Alive
             /\ req' = [req EXCEPT ![r].got[req[r].id] = slo[req[r].id].def,
                                    ![r].pc = IF req[r].op = "update" THEN "save" ELSE "enrich"]
    <3>1. Same(r) /\ req'[r].pc = IF req[r].op = "update" THEN "save" ELSE "enrich"
      BY <1>0, <2>3 DEF Same, TypeOK, Request
    <3> QED
      BY <2>1, <2>3, <3>1 DEF Reads
  <2> QED
    BY <1>5, <2>2, <2>3 DEF GetByID
<1>6. CASE GetBySLOID(r)
  BY <1>0, <1>2, <1>6 DEF GetBySLOID, tables, Marred, At, AskedOf, Reads, TypeOK
<1>7. CASE ListRows(r)
  <2>1. UNCHANGED <<slo, sli, marred>> /\ req[r].op \in {"list", "refreshAll"}
    BY <1>0, <1>7 DEF ListRows, tables, At, AskedOf
  <2>2. CASE \E a : Respond(r, a)
    BY <1>1, <2>1, <2>2 DEF Reads
  <2>3. CASE ~ \E a : Respond(r, a)
    <3>1. CASE req[r].op = "list"
      <4>1. PICK got : req' = [req EXCEPT ![r] = [@ EXCEPT !.pc = "enrich", !.got = got]]
        BY <1>7, <2>3, <3>1 DEF ListRows
      <4>2. Same(r) /\ req'[r].pc = "enrich"
        BY <1>0, <4>1 DEF Same, TypeOK, Request
      <4> QED
        BY <2>1, <4>2 DEF Reads
    <3>2. CASE req[r].op # "list"
      <4>1. PICK work : req' = [req EXCEPT ![r] = [@ EXCEPT !.pc = "refresh", !.work = work]]
        BY <1>7, <2>3, <3>2 DEF ListRows
      <4>2. Same(r) /\ req'[r].pc = "refresh"
        BY <1>0, <4>1 DEF Same, TypeOK, Request
      <4> QED
        BY <2>1, <4>2 DEF Reads
    <3> QED
      BY <3>1, <3>2
  <2> QED
    BY <2>2, <2>3
<1>8. CASE Answer(r) \/ Refreshed(r)
  BY <1>0, <1>1, <1>8 DEF Answer, Refreshed, tables, At, AskedOf, Reads
<1>9. CASE \E i \in Ids : Enrich(r, i)
  <2>1. PICK i \in Ids : \E s : req' = [req EXCEPT ![r].seen[i] = s] /\ UNCHANGED <<tables, marred>>
    BY <1>9 DEF Enrich
  <2>2. Same(r) /\ req'[r].pc = req[r].pc
    BY <1>0, <2>1 DEF Same, TypeOK, Request
  <2> QED
    BY <2>1, <2>2 DEF tables, Reads
<1>10. CASE \E i \in Ids : Acquire(r, i) \/ ReadRow(r, i) \/ FindSLI(r, i) \/ CollectSLI(r, i) \/ CollectBurnRate(r, i)
  <2>1. PICK i \in Ids : \E from, to, def : Step(r, i, from, to, def) /\ UNCHANGED <<tables, marred>>
    BY <1>10 DEF Acquire, ReadRow, FindSLI, CollectSLI, CollectBurnRate
  <2> QED
    BY <1>3, <2>1 DEF tables, Reads
<1> QED
  BY <1>4, <1>5, <1>6, <1>7, <1>8, <1>9, <1>10 DEF Serve

-----------------------------------------------------------------------------
(* Who creates or deletes stays alone. *)
LEMMA StepAlone ==
    ASSUME TypeOK, Asked, Alone, NEW r \in Requests, Receive(r) \/ Serve(r)
    PROVE  Alone'
<1>0. Asked' /\ \A p \in Requests \ {r} : req'[p] = req[p]
  BY Beginnings, ServeTypes, Becoming
<1>1. marred \subseteq marred'
  BY Beginnings, Served
<1>2. SUFFICES ASSUME NEW q \in Requests, q # r, req'[r].op \in Writers, req[q].op \in Writers,
                      req'[r].id = req[q].id, req[q].id \notin marred'
               PROVE  req'[r].op = "update" /\ req[q].op = "update"
  BY <1>0, <1>1 DEF Alone
<1>3. CASE Receive(r)
  <2>1. req'[r].op # "create"
    BY <1>0, <1>2, <1>3, Beginnings DEF Asked, AskedOf
  <2>2. req'[r].op # "delete"
    BY <1>2, <1>3, Beginnings DEF Busy
  <2>3. req'[r].op = "update" /\ ~Busy(req[q].id, {"create", "delete"})
    BY <1>2, <1>3, <2>1, <2>2, Beginnings DEF Writers
  <2> QED
    BY <1>2, <2>3 DEF Busy, Writers
<1>4. CASE Serve(r)
  <2>1. Same(r) \/ Ends(r)
    BY <1>4, Served DEF Reads, Writes
  <2>2. Same(r)
    BY <1>2, <2>1, NoneIsNoRow DEF Ends, Writers, Ops
  <2> QED
    BY <1>1, <1>2, <2>2 DEF Alone, Same
<1> QED
  BY <1>3, <1>4

(* What a write does to the objective that is written, and to no other. *)
LEMMA Written ==
    ASSUME TypeOK, Asked, NEW r \in Requests, Writes(r)
    PROVE  /\ req[r].id \in Ids /\ req[r].op \in Writers
           /\ \A j \in Ids \ {req[r].id} : (j \in Alive' <=> j \in Alive) /\ sli'[j] = sli[j]
           /\ req[r].pc \in {"insert", "save"} => req[r].id \in Alive' /\ UNCHANGED sli
           /\ req[r].pc \in {"undo", "delete"} => req[r].id \notin Alive' /\ UNCHANGED sli
           /\ req[r].pc = "insertSLI" => sli'[req[r].id] = "there" /\ Alive' = Alive
           /\ req[r].pc = "deleteSLI" => sli'[req[r].id] = "removed"
<1> DEFINE w == req[r].id
<1>0. req[r] \in Request /\ AskedOf(req[r])
  BY DEF Asked, TypeOK
<1>1. w \in Ids /\ req[r].op \in Writers
  BY <1>0 DEF Writes, AskedOf, Writers
<1>2. CASE req[r].pc \in {"insert", "save"}
  <2>1. slo' = [slo EXCEPT ![w] = [def |-> req[r].def, alive |-> TRUE]] /\ UNCHANGED sli
    BY <1>2 DEF Writes
  <2>2. [def |-> req[r].def, alive |-> TRUE] # None
    <3>1. [def |-> req[r].def, alive |-> TRUE] \in Row
      BY <1>0, <1>2 DEF AskedOf, Row
    <3> QED
      BY <3>1, NoneIsNoRow DEF Row
  <2> QED
    BY <1>1, <1>2, <2>1, <2>2 DEF Alive, TypeOK
<1>3. CASE req[r].pc \in {"undo", "delete"}
  <2>1. slo' = Removed(w) /\ UNCHANGED sli
    BY <1>3 DEF Writes
  <2>2. \A j \in Ids \ {w} : slo'[j] = slo[j]
    BY <1>1, <2>1 DEF Removed, TypeOK
  <2>3. w \notin Alive'
    BY <1>1, <2>1 DEF Removed, Alive, TypeOK, Row
  <2> QED
    BY <1>1, <1>3, <2>1, <2>2, <2>3 DEF Alive
<1>4. CASE req[r].pc = "insertSLI"
  BY <1>1, <1>4 DEF Writes, Alive, TypeOK
<1>5. CASE req[r].pc = "deleteSLI"
  BY <1>1, <1>5 DEF Writes, Alive, TypeOK
<1> QED
  BY <1>2, <1>3, <1>4, <1>5 DEF Writes

(* How far the requests have come, and what they leave. *)
LEMMA StepProgress ==
    ASSUME Invariant, NEW r \in Requests, Receive(r) \/ Serve(r)
    PROVE  Progress' /\ OrphansAccounted'
<1>0. /\ TypeOK /\ Asked /\ Alone /\ Progress /\ OrphansAccounted
      /\ Asked' /\ \A p \in Requests \ {r} : req'[p] = req[p]
  BY Beginnings, ServeTypes, Becoming DEF Invariant
<1>1. marred \subseteq marred'
  BY <1>0, Beginnings, Served
<1>2. \A q \in Requests \ {r}, j \in Ids : (req'[q].id = j) <=> (req[q].id = j)
  BY <1>0
<1>3. CASE Receive(r)
  <2>1. UNCHANGED <<slo, sli>> /\ Alive' = Alive /\ req[r] = New
    BY <1>0, <1>3, Beginnings DEF Alive
  <2>2. \A i \in Ids : Busy(i, {"create", "delete"}) => Busy(i, {"create", "delete"})'
    BY <1>0, <2>1, NoneIsNoRow DEF Busy, New, Ops
  <2>3. OrphansAccounted'
    BY <1>0, <1>1, <2>1, <2>2 DEF OrphansAccounted
  <2>4. ASSUME NEW i \in Ids \ marred', req'[r].id = i
        PROVE  /\ req'[r].pc = "insert" => i \notin Alive /\ sli[i] # "there"
               /\ req'[r].pc = "findSLI" => (i \in Alive <=> sli[i] = "there")
    <3>1. CASE req'[r].pc = "insert"
      <4>1. slo[i] = None /\ ~Busy(i, {"create", "delete"})
        BY <1>0, <1>3, <2>4, <3>1, Beginnings DEF Busy
      <4> QED
        BY <1>0, <1>1, <2>4, <3>1, <4>1 DEF OrphansAccounted, Alive
    <3>2. CASE req'[r].pc = "findSLI"
      <4>1. ~Busy(i, {"create", "delete"})
        BY <1>0, <1>3, <2>4, <3>2, Beginnings DEF Busy, Writers, Asked, AskedOf
      <4> QED
        BY <1>0, <1>1, <2>4, <3>2, <4>1 DEF OrphansAccounted
    <3> QED
      BY <3>1, <3>2
  <2>5. req'[r].pc \notin {"insertSLI", "undo", "save", "deleteSLI", "delete"}
    BY <1>0, <1>3, Beginnings
  <2>6. Progress'
    BY <1>0, <1>1, <2>1, <2>4, <2>5 DEF Progress
  <2> QED
    BY <2>3, <2>6
<1>4. CASE UNCHANGED <<slo, sli>> /\ Reads(r)
  <2>1. Alive' = Alive
    BY <1>4 DEF Alive
  <2>2. ASSUME NEW i \in Ids \ marred', req[r].id = i, req[r].op = "update", i \in Alive
        PROVE  sli[i] = "there"
    <3>1. ~Busy(i, {"create", "delete"})
      BY <1>0, <1>1, <2>2 DEF Busy, Alone, Writers
    <3> QED
      BY <1>0, <1>1, <2>2, <3>1 DEF OrphansAccounted
  <2>3. Progress'
    <3> SUFFICES ASSUME NEW i \in Ids \ marred', req'[r].id = i
                 PROVE  /\ req'[r].pc = "insert" => i \notin Alive /\ sli[i] # "there"
                        /\ req'[r].pc \in {"insertSLI", "undo"} => i \in Alive /\ sli[i] # "there"
                        /\ req'[r].pc = "save" => i \in Alive /\ sli[i] = "there"
                        /\ req'[r].pc = "findSLI" => (i \in Alive <=> sli[i] = "there")
                        /\ req'[r].pc = "deleteSLI" => i \in Alive /\ sli[i] = "there"
                        /\ req'[r].pc = "delete" => sli[i] # "there"
      BY <1>0, <1>1, <1>4, <2>1 DEF Progress
    <3>1. CASE Ends(r)
      BY <3>1 DEF Ends
    <3>2. CASE Same(r) /\ ~Ends(r)
      <4>1. req[r].id = i
        BY <3>2 DEF Same
      <4> QED
        BY <1>0, <1>1, <1>4, <2>2, <3>2, <4>1 DEF Progress, Reads
    <3> QED
      BY <1>4, <3>1, <3>2 DEF Reads
  <2>4. OrphansAccounted'
    <3> SUFFICES ASSUME NEW i \in Ids \ marred', Busy(i, {"create", "delete"}), ~Busy(i, {"create", "delete"})'
                 PROVE  i \in Alive <=> sli[i] = "there"
      BY <1>0, <1>1, <1>4, <2>1 DEF OrphansAccounted
    <3>1. req[r].op \in {"create", "delete"} /\ req[r].id = i /\ ~Same(r)
      BY <1>0 DEF Busy, Same
    <3>2. req[r].pc = "insert"
      BY <1>4, <3>1 DEF Reads
    <3> QED
      BY <1>0, <1>1, <3>1, <3>2 DEF Progress
  <2> QED
    BY <2>3, <2>4
<1>5. CASE Writes(r)
  <2> DEFINE w == req[r].id
  <2>0. w \in Ids /\ req[r].op \in Writers
    BY <1>0, <1>5, Written
  <2>1. \A j \in Ids \ {w} : (j \in Alive' <=> j \in Alive) /\ sli'[j] = sli[j]
    BY <1>0, <1>5, Written
  <2>2. ASSUME w \notin marred'
        PROVE  /\ req[r].pc = "insert" => w \in Alive' /\ sli'[w] # "there"
               /\ req[r].pc = "insertSLI" => w \in Alive' /\ sli'[w] = "there"
               /\ req[r].pc \in {"undo", "delete"} => w \notin Alive' /\ sli'[w] # "there"
               /\ req[r].pc = "save" => w \in Alive' /\ sli'[w] = "there"
               /\ req[r].pc = "deleteSLI" => sli'[w] # "there"
    BY <1>0, <1>1, <1>5, <2>0, <2>2, Written DEF Progress
  <2>3. Progress'
    <3> SUFFICES ASSUME NEW q \in Requests, NEW i \in Ids \ marred', req'[q].id = i
                 PROVE  /\ req'[q].pc = "insert" => i \notin Alive' /\ sli'[i] # "there"
                        /\ req'[q].pc \in {"insertSLI", "undo"} => i \in Alive' /\ sli'[i] # "there"
                        /\ req'[q].pc = "save" => i \in Alive' /\ sli'[i] = "there"
                        /\ req'[q].pc = "findSLI" => (i \in Alive' <=> sli'[i] = "there")
                        /\ req'[q].pc = "deleteSLI" => i \in Alive' /\ sli'[i] = "there"
                        /\ req'[q].pc = "delete" => sli'[i] # "there"
      BY DEF Progress
    <3>1. CASE q = r
      <4>1. CASE Ends(r)
        BY <3>1, <4>1 DEF Ends
      <4>2. CASE ~Ends(r)
        <5>1. i = w
          BY <1>5, <3>1, <4>2 DEF Writes, Same
        <5> QED
          BY <1>5, <2>2, <3>1, <4>2, <5>1 DEF Writes
      <4> QED
        BY <4>1, <4>2
    <3>2. CASE q # r /\ i # w
      BY <1>0, <1>1, <2>1, <3>2 DEF Progress
    <3>3. CASE q # r /\ i = w /\ req[q].op \in Writers
      <4>1. req[r].op = "update" /\ req[q].op = "update"
        BY <1>0, <1>1, <2>0, <3>3 DEF Alone
      <4>2. req[r].pc = "save"
        BY <1>0, <1>5, <4>1 DEF Writes, Asked, AskedOf
      <4>3. req[q].pc \in {"load", "save"}
        BY <1>0, <4>1 DEF Asked, AskedOf
      <4> QED
        BY <1>0, <2>2, <3>3, <4>2, <4>3
    <3>4. CASE q # r /\ req[q].op \notin Writers
      BY <1>0, <3>4 DEF Asked, AskedOf, Writers
    <3> QED
      BY <3>1, <3>2, <3>3, <3>4
  <2>4. OrphansAccounted'
    <3> SUFFICES ASSUME NEW i \in Ids \ marred', ~Busy(i, {"create", "delete"})'
                 PROVE  i \in Alive' <=> sli'[i] = "there"
      BY DEF OrphansAccounted
    <3>1. CASE i = w
      <4>1. ~Same(r) \/ req[r].op = "update"
        BY <2>0, <3>1 DEF Busy, Same, Writers
      <4>2. req[r].pc \notin {"insert", "deleteSLI"}
        <5>1. req[r].pc \in {"insert", "deleteSLI"} => req[r].op # "update" /\ Same(r)
          BY <1>0, <1>5 DEF Writes, Asked, AskedOf
        <5> QED
          BY <4>1, <5>1
      <4> QED
        BY <1>5, <2>2, <3>1, <4>2 DEF Writes
    <3>2. CASE i # w
      <4>1. ~Busy(i, {"create", "delete"})
        BY <1>0, <3>2 DEF Busy
      <4> QED
        BY <1>0, <1>1, <2>1, <3>2, <4>1 DEF OrphansAccounted
    <3> QED
      BY <3>1, <3>2
  <2> QED
    BY <2>3, <2>4
<1> QED
  BY <1>0, <1>3, <1>4, <1>5, Served

(* What a request has seen stays, or is seen now, or is forgotten with the request. *)
LEMMA StepSeen ==
    ASSUME TypeOK, Asked, Computed, Enriched, NEW r \in Requests, Receive(r) \/ Serve(r)
    PROVE  Computed' /\ Enriched'
<1>0. /\ req[r] \in Request /\ AskedOf(req[r])
      /\ \A p \in Requests \ {r} : req'[p] = req[p]
  BY Beginnings, ServeTypes, Becoming DEF TypeOK, Asked
<1> SUFFICES Computed' /\ \A i \in Ids : req'[r].seen[i] # None => \E rate \in Rates : SeenOf(req'[r].seen[i], rate)
  BY <1>0 DEF Enriched, SeenOf
<1>1. \A a : Respond(r, a) => \A i \in Ids : req'[r].seen[i] = None
  BY DEF Respond, New, TypeOK
<1>2. CASE Receive(r)
  BY <1>2, Beginnings DEF Computed
<1>3. req'[r].seen = req[r].seen => \A i \in Ids : req'[r].seen[i] # None => \E rate \in Rates : SeenOf(req'[r].seen[i], rate)
  BY DEF Enriched
<1>4. CASE Insert(r) \/ InsertSLI(r) \/ Undo(r) \/ Save(r) \/ GetBySLOID(r) \/ DeleteSLI(r) \/ Delete(r)
           \/ Answer(r) \/ Refreshed(r)
  <2>1. UNCHANGED cache
    BY <1>4 DEF Insert, InsertSLI, Undo, Save, GetBySLOID, DeleteSLI, Delete, Answer, Refreshed, tables
  <2>2. (\E pc : Goto(r, pc)) \/ \E a : Respond(r, a)
    BY <1>4 DEF Insert, InsertSLI, Undo, Save, GetBySLOID, DeleteSLI, Delete, Answer, Refreshed
  <2>3. \A pc : Goto(r, pc) => req'[r].seen = req[r].seen
    BY <1>0 DEF Goto, TypeOK, Request
  <2> QED
    BY <1>1, <1>3, <2>1, <2>2, <2>3 DEF Computed
<1>5. CASE GetByID(r)
  <2>1. UNCHANGED cache
    BY <1>5 DEF GetByID
  <2>2. CASE \E a : Respond(r, a)
    BY <1>1, <2>1, <2>2 DEF Computed
  <2>3. CASE ~ \E a : Respond(r, a)
    <3>1. req' = [req EXCEPT ![r].got[req[r].id] = slo[req[r].id].def,
                            ![r].pc = IF req[r].op = "update" THEN "save" ELSE "enrich"]
      BY <1>5, <2>3 DEF GetByID
    <3>2. req'[r].seen = req[r].seen
      BY <1>0, <3>1 DEF TypeOK, Request
    <3> QED
      BY <1>3, <2>1, <3>2 DEF Computed
  <2> QED
    BY <2>2, <2>3
<1>6. CASE ListRows(r)
  <2>1. UNCHANGED cache
    BY <1>6 DEF ListRows
  <2>2. CASE \E a : Respond(r, a)
    BY <1>1, <2>1, <2>2 DEF Computed
  <2>3. CASE ~ \E a : Respond(r, a)
    <3>1. CASE req[r].op = "list"
      <4>1. PICK got : req' = [req EXCEPT ![r] = [@ EXCEPT !.pc = "enrich", !.got = got]]
        BY <1>6, <2>3, <3>1 DEF ListRows
      <4>2. req'[r].seen = req[r].seen
        BY <1>0, <4>1 DEF TypeOK, Request
      <4> QED
        BY <1>3, <2>1, <4>2 DEF Computed
    <3>2. CASE req[r].op # "list"
      <4>1. PICK work : req' = [req EXCEPT ![r] = [@ EXCEPT !.pc = "refresh", !.work = work]]
        BY <1>6, <2>3, <3>2 DEF ListRows
      <4>2. req'[r].seen = req[r].seen
        BY <1>0, <4>1 DEF TypeOK, Request
      <4> QED
        BY <1>3, <2>1, <4>2 DEF Computed
    <3> QED
      BY <3>1, <3>2
  <2> QED
    BY <2>2, <2>3
<1>7. \A i, from, to, def : Step(r, i, from, to, def) => req'[r].seen = req[r].seen
  BY <1>0 DEF Step, TypeOK, Request
<1>8. CASE \E i \in Ids : Acquire(r, i) \/ ReadRow(r, i) \/ FindSLI(r, i) \/ CollectSLI(r, i)
  <2>1. PICK i \in Ids : \E from, to, def : Step(r, i, from, to, def) /\ UNCHANGED cache
    BY <1>8 DEF Acquire, ReadRow, FindSLI, CollectSLI
  <2> QED
    BY <1>3, <1>7, <2>1 DEF Computed
<1>9. CASE \E i \in Ids : CollectBurnRate(r, i)
  <2>1. PICK i \in Ids, rate \in Rates :
           /\ Step(r, i, "burn", "over", None)
           /\ UpdateStatusCache(i, CalculateStatus(rate, req[r].got[i]), rate, req[r].got[i])
    BY <1>9 DEF CollectBurnRate
  <2> DEFINE e == [status |-> CalculateStatus(rate, req[r].got[i]), rate |-> rate, def |-> req[r].got[i]]
  <2>2. e.status = CalculateStatus(e.rate, e.def)
    OBVIOUS
  <2>3. cache' = [cache EXCEPT ![i] = e]
    BY <2>1 DEF UpdateStatusCache
  <2> HIDE DEF e
  <2>4. Computed'
    BY <2>2, <2>3 DEF Computed, TypeOK
  <2> QED
    BY <1>3, <1>7, <2>1, <2>4
<1>10. CASE \E i \in Ids : Enrich(r, i)
  <2>1. PICK i \in Ids : Enrich(r, i)
    BY <1>10
  <2> DEFINE rate == IF cache[i] = None THEN 0 ELSE cache[i].rate
             s == [status |-> IF cache[i] = None THEN "unknown" ELSE cache[i].status,
                   def |-> req[r].got[i],
                   of |-> IF cache[i] = None THEN None ELSE cache[i].def,
                   severity |-> Severity(rate, req[r].got[i])]
  <2>2. cache[i] \in Entry \union {None}
    BY DEF TypeOK
  <2>3. rate \in Rates
    BY <2>2, LevelsAssumption DEF Entry
  <2>4. s.severity = Severity(rate, s.def)
    OBVIOUS
  <2>6. SeenOf(s, rate)
    <3>1. CASE cache[i] = None
      <4>1. s.of = None /\ s.status = "unknown" /\ rate = 0
        BY <3>1
      <4> HIDE DEF s, rate
      <4> QED
        BY <2>4, <4>1 DEF SeenOf
    <3>2. CASE cache[i] # None
      <4>1. s.of = cache[i].def /\ s.status = cache[i].status /\ rate = cache[i].rate
        BY <3>2
      <4>2. s.of \in Definitions /\ s.status = CalculateStatus(rate, s.of)
        BY <2>2, <3>2, <4>1 DEF Computed, Entry
      <4> HIDE DEF s, rate
      <4> QED
        BY <2>4, <4>2 DEF SeenOf
    <3> QED
      BY <3>1, <3>2
  <2>7. req' = [req EXCEPT ![r].seen[i] = s] /\ UNCHANGED cache
    BY <2>1 DEF Enrich
  <2> HIDE DEF s, rate
  <2>8. req'[r].seen[i] = s /\ \A j \in Ids \ {i} : req'[r].seen[j] = req[r].seen[j]
    BY <1>0, <2>7 DEF TypeOK, Request
  <2> QED
    BY <2>3, <2>6, <2>7, <2>8 DEF Enriched, Computed
<1> QED
  BY <1>2, <1>4, <1>5, <1>6, <1>8, <1>9, <1>10 DEF Serve

(* Every step keeps the invariant. *)
LEMMA NextHolds == Invariant /\ [Next]_vars => Invariant'
<1> SUFFICES ASSUME Invariant, [Next]_vars PROVE Invariant'
  OBVIOUS
<1>0. TypeOK /\ Asked /\ Alone /\ Progress /\ OrphansAccounted /\ Computed /\ Enriched
  BY DEF Invariant
<1>1. ASSUME NEW r \in Requests, Receive(r) \/ Serve(r) PROVE Invariant'
  <2>1. TypeOK' /\ Asked'
    BY <1>0, <1>1, Beginnings, ServeTypes, Becoming DEF TypeOK
  <2>2. Alone'
    BY <1>0, <1>1, StepAlone
  <2>3. Progress' /\ OrphansAccounted'
    BY <1>1, StepProgress
  <2>4. Computed' /\ Enriched'
    BY <1>0, <1>1, StepSeen
  <2> QED
    BY <2>1, <2>2, <2>3, <2>4 DEF Invariant
<1>2. ASSUME NEW i \in Ids, Expire(i) PROVE Invariant'
  <2>1. UNCHANGED <<slo, sli, req, marred>> /\ cache' = [cache EXCEPT ![i] = None]
    BY <1>2 DEF Expire, tables
  <2>2. TypeOK' /\ Computed'
    BY <1>0, <2>1 DEF TypeOK, Computed
  <2> QED
    BY <1>0, <2>1, <2>2 DEF Invariant, Asked, AskedOf, Alone, Progress, OrphansAccounted, Alive, Busy, Enriched, SeenOf
<1>3. CASE UNCHANGED vars
  BY <1>0, <1>3 DEF vars, Invariant, TypeOK, Asked, AskedOf, Alone, Progress, OrphansAccounted, Alive, Busy, Computed, Enriched, SeenOf
<1> QED
  BY <1>1, <1>2, <1>3 DEF Next

(* The invariant holds whatever the requests do and whichever statements and queries fail. *)
THEOREM Invariance == Spec => []Invariant
BY InitHolds, NextHolds, PTL DEF Spec

(* Every variable keeps its type: rows and entries have thresholds that somebody gave. *)
THEOREM TypeCorrect == Spec => []TypeOK
BY Invariance, PTL DEF Invariant

(* An objective has an indicator, and an indicator its objective, when nobody creates or       *)
(* deletes them, unless a deletion, or the undoing of a creation, failed or met another write. *)
THEOREM ObjectivesKeepIndicators == Spec => []OrphansAccounted
BY Invariance, PTL DEF Invariant

(* The severity that an alert computes and the status that a refresh computed agree, *)
(* when both had the same thresholds and these make sense.                            *)
LEMMA StatusIsSeverity ==
    ASSUME NEW rate \in Nat, NEW def \in [warning : Nat, critical : Nat], Sensible(def)
    PROVE  Severity(rate, def) =
           IF CalculateStatus(rate, def) \in {"warning", "critical"} THEN CalculateStatus(rate, def) ELSE None
BY DEF Sensible, Severity, CalculateStatus

(* The alerts and the statuses of one answer agree, for every rate and all thresholds, *)
(* unless the thresholds were changed since, or make no sense.                          *)
THEOREM AlertsAgree == Spec => []AlertsFollowStatus
<1>1. Invariant => AlertsFollowStatus
  <2> SUFFICES ASSUME Invariant, NEW r \in Requests, NEW i \in Ids, req[r].seen[i] # None,
                      req[r].seen[i].of \in {req[r].seen[i].def, None}, Sensible(req[r].seen[i].def)
               PROVE  req[r].seen[i].severity = IF req[r].seen[i].status \in {"warning", "critical"}
                                                THEN req[r].seen[i].status ELSE None
    BY DEF AlertsFollowStatus
  <2> DEFINE s == req[r].seen[i]
  <2>1. s \in Seen
    BY DEF Invariant, TypeOK, Request
  <2>2. PICK rate \in Rates : SeenOf(s, rate)
    BY DEF Invariant, Enriched
  <2>3. s.def \in [warning : Nat, critical : Nat] /\ rate \in Nat /\ s.def \in Definitions
    BY <2>1, LevelsAssumption DEF Seen
  <2>4. Sensible(s.def) /\ s.of \in {s.def, None}
    OBVIOUS
  <2> HIDE DEF s
  <2>5. CASE s.of = None
    <3>1. s.status = "unknown" /\ rate = 0
      BY <2>2, <2>5, NoneIsNoRow DEF SeenOf
    <3>2. Severity(rate, s.def) = None
      BY <2>3, <2>4, <3>1 DEF Severity, Sensible
    <3> QED
      BY <2>2, <3>1, <3>2 DEF SeenOf, s
  <2>6. CASE s.of = s.def
    <3>1. s.status = CalculateStatus(rate, s.def) /\ s.severity = Severity(rate, s.def)
      BY <2>2, <2>3, <2>6, NoneIsNoRow DEF SeenOf
    <3> QED
      BY <2>3, <2>4, <3>1, StatusIsSeverity DEF s
  <2> QED
    BY <2>4, <2>5, <2>6
<1> QED
  BY <1>1, Invariance, PTL
=============================================================================
