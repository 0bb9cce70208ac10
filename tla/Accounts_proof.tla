--------------------------- MODULE Accounts_proof ---------------------------
(***************************************************************************)
(* Proofs about Accounts, for any requests, users, emails, roles and keys. *)
(***************************************************************************)
EXTENDS Accounts, TLAPS

Saving == {"UpdateProfile", "SetUserStatus", "ForgotPassword", "ResetPassword"}

(* Where a request is says what it was asked for and what it has found. *)
AskedOf(q) ==
    /\ q.pc = "new" => q = New
    /\ q.pc \in {"name", "insert"} => q.op = "Register"
    /\ q.pc = "email" => q.op \in {"Register", "UpdateProfile"} /\ q.arg \in Emails
    /\ q.pc = "insert" => q.arg \in Emails
    /\ q.pc = "save" => q.op \in Saving
    /\ q.pc = "listKeys" => q.op = "Login"
    /\ q.pc = "readKey" => q.op \in {"RevokeAPIKey", "RegenerateAPIKey"}
    /\ q.pc = "createKey" => q.op \in {"CreateAPIKey", "RegenerateAPIKey"}
    /\ q.pc = "deactivate" => q.op \in {"RevokeAPIKey", "RegenerateAPIKey"} /\ q.arg \in Issued
    /\ q.pc \in {"name", "email", "insert", "save", "readKey", "createKey"} => q.name \in Names
    /\ q.pc = "name" => q.arg \in Emails
    /\ q.pc = "createKey" /\ q.op = "RegenerateAPIKey" => q.arg \in Issued
    /\ q.pc = "read" /\ q.op \in {"UpdateProfile", "SetUserStatus", "Login"} => q.name \in Names
    /\ q.pc = "read" /\ q.op = "UpdateProfile" => q.name \in Known
    /\ q.pc \in {"read", "save"} /\ q.op = "UpdateProfile" => q.arg \in Emails \union {None}
    /\ q.pc \in {"read", "save"} /\ q.op = "SetUserStatus" => q.arg \in BOOLEAN
    /\ q.pc = "save" \/ (q.pc = "email" /\ q.op = "UpdateProfile") => q.name \in Known /\ q.row # None
    /\ q.keys \subseteq Issued

Asked == \A r \in Requests : AskedOf(req[r])

(* What a request remembers of its writes, and what it has answered. *)
Dated ==
    \A r \in Requests :
        LET q == req[r] IN
        /\ q.read =< now /\ q.wrote =< now
        /\ q.wrote > 0 => \/ q.pc = "done"
                          \/ q.pc = "deactivate" /\ q.op = "RegenerateAPIKey"
        /\ q.wrote > 0 /\ Sets(r) # {} => q.name \in Known
        /\ q.pc # "done" => q.answer = None
        /\ q.op = "RemoveRole" => q.wrote > 0
        /\ q.pc = "deactivate" /\ q.op = "RegenerateAPIKey" => q.wrote > 0

(* A request that has read a row which it is going to save. *)
HasRead(p) == req[p].pc = "save" \/ (req[p].pc = "email" /\ req[p].op = "UpdateProfile")

(* The row that a request has read kept, when it read it, all that was set before. *)
ReadIsKept ==
    \A p, r \in Requests :
        /\ HasRead(p)
        /\ 0 < req[r].wrote /\ req[r].wrote =< req[p].read
        /\ req[r].name = req[p].name
        => \A s \in Sets(r) : \/ req[p].row[s[1]] = s[2]
                              \/ \E q \in Requests : Overwrites(q, r, s[1])

(* A role that was taken away before is among the roles that a request has read with a *)
(* row only if it had been given again.                                                *)
ReadIsRevoked ==
    \A p, r \in Requests :
        /\ HasRead(p)
        /\ req[r].op = "RemoveRole" /\ 0 < req[r].wrote /\ req[r].wrote =< req[p].read
        /\ req[r].name = req[p].name
        /\ req[r].arg \in req[p].roles
        => \E q \in Requests : Restores(q, r)

(* The inductive invariant. *)
Invariant == /\ TypeOK /\ Asked /\ Dated /\ ErrorsTell /\ KeysTell
             /\ EditsAreKept /\ ReadIsKept
             /\ RolesStayRemoved /\ ReadIsRevoked

-----------------------------------------------------------------------------
(* The invariant holds at the start. *)
LEMMA InitHolds == Init => Invariant
<1> SUFFICES ASSUME Init PROVE Invariant
  OBVIOUS
<1>1. \A r \in Requests : req[r] = New
  BY DEF Init
<1>2. TypeOK
  BY DEF Init, TypeOK, Row, APIKey, Setters, New, Request, Steps, Answers, Args
<1>7. KeysTell
  <2>1. \A r \in Requests : Made(r) = {}
    <3>1. \A r \in Requests, k \in Issued : key[k].label = None
      BY NoneIsNoRow DEF Init, Issued
    <3> QED
      BY <3>1, AccountsAssumption DEF Made
  <2> QED
    BY <1>1, <2>1 DEF KeysTell, New
<1>3. Asked
  BY <1>1 DEF Asked, AskedOf, New
<1>4. \A r \in Requests : req[r].op \notin Ops /\ Sets(r) = {}
  <2>1. \A r \in Requests : req[r].op \notin Ops
    BY <1>1, NoneIsNoRow DEF New
  <2> QED
    BY <2>1 DEF Sets, Ops
<1>5. Dated /\ ErrorsTell
  BY <1>1, <1>4 DEF Dated, ErrorsTell, New, Init, Ops
<1>6. EditsAreKept /\ ReadIsKept /\ RolesStayRemoved /\ ReadIsRevoked
  BY <1>1, <1>4 DEF EditsAreKept, ReadIsKept, RolesStayRemoved, ReadIsRevoked, New, Ops
<1> QED
  BY <1>2, <1>3, <1>5, <1>6, <1>7 DEF Invariant

(* What Save writes is a row with the name and the columns that it was asked for. *)
LEMMA EditedIsRow ==
    ASSUME TypeOK, Asked, NEW r \in Requests, req[r].pc = "save"
    PROVE  Edited(r) \in Row
<1>1. req[r] \in Request /\ req[r].row \in Row /\ r \in Setters /\ None \in Setters
  BY DEF TypeOK, Asked, AskedOf, Request, Setters
<1>2. CASE req[r].op = "UpdateProfile"
  <2>1. req[r].arg \in Emails \union {None}
    BY <1>2 DEF Asked, AskedOf
  <2> QED
    BY <1>1, <1>2, <2>1 DEF Edited, Row
<1>3. CASE req[r].op = "SetUserStatus"
  <2>1. req[r].arg \in BOOLEAN
    BY <1>3 DEF Asked, AskedOf
  <2> QED
    BY <1>1, <1>3, <2>1 DEF Edited, Row
<1>4. CASE req[r].op \notin {"UpdateProfile", "SetUserStatus"}
  BY <1>1, <1>4 DEF Edited, Row
<1> QED
  BY <1>2, <1>3, <1>4

(* A step makes q of what is recorded of r. *)
Becomes(r, q) == /\ q \in Request
                 /\ req' = [req EXCEPT ![r] = q]

Faults == {None, "failed", "lost"}

(* What a failed statement is answered with is an answer. *)
LEMMA FailureIsAnswer == \A r : Failure(r) \in {"ok", "invalid", "created", "error"}
  BY DEF Failure

(* The end of a request that has written: told of it, or as of a failure. *)
LEMMA WroteTold ==
    \A r : \A a \in {"ok", "created"} :
        Wrote(r, a) => \E b \in Answers, f \in Faults : Ended(r, b, f)
  BY FailureIsAnswer DEF Wrote, Lost, Faults, Answers

(* The steps of a request as one new record of it. *)
LEMMA Records ==
    ASSUME req \in [Requests -> Request], now \in Nat, NEW r \in Requests
    PROVE  /\ \A a \in Answers : Answer(r, a) => Becomes(r, [req[r] EXCEPT !.pc = "done", !.answer = a])
           /\ \A a \in Answers, f \in Faults :
                 Ended(r, a, f) => Becomes(r, [req[r] EXCEPT !.pc = "done", !.answer = a, !.fault = f, !.wrote = now + 1])
           /\ Fail(r) => Becomes(r, [req[r] EXCEPT !.pc = "done", !.answer = Failure(r), !.fault = "failed"])
           /\ \A pc \in Steps : Go(r, pc) => Becomes(r, [req[r] EXCEPT !.pc = pc])
           /\ \A op \in Ops, n \in Names \union {None}, arg \in Args, pc \in Steps :
                 Begin(r, op, n, arg, pc) => Becomes(r, [req[r] EXCEPT !.op = op, !.name = n, !.arg = arg, !.pc = pc])
           /\ \A n \in Names, pc \in Steps :
                 Load(r, n, pc) /\ user[n] \in Row \union {None} =>
                 Becomes(r, [req[r] EXCEPT !.name = n, !.pc = pc, !.row = user[n], !.read = now,
                       !.roles = LoadedRoles(req[r].op, n), !.keys = LoadedKeys(req[r].op, n)])
<1> USE DEF Becomes, Request
<1>1. ASSUME NEW a \in Answers, Answer(r, a)
      PROVE  Becomes(r, [req[r] EXCEPT !.pc = "done", !.answer = a])
  <2>1. [req[r] EXCEPT !.pc = "done", !.answer = a] \in Request
    BY DEF Steps
  <2> QED
    BY <1>1, <2>1 DEF Answer
<1>2. ASSUME NEW a \in Answers, NEW f \in Faults, Ended(r, a, f)
      PROVE  Becomes(r, [req[r] EXCEPT !.pc = "done", !.answer = a, !.fault = f, !.wrote = now + 1])
  <2>1. \A w \in Nat : [req[r] EXCEPT !.pc = "done", !.answer = a, !.fault = f, !.wrote = w] \in Request
    BY DEF Steps, Faults
  <2>2. now + 1 \in Nat
    OBVIOUS
  <2> QED
    BY <1>2, <2>1, <2>2 DEF Ended
<1>6. ASSUME Fail(r)
      PROVE  Becomes(r, [req[r] EXCEPT !.pc = "done", !.answer = Failure(r), !.fault = "failed"])
  <2> DEFINE a == Failure(r)
  <2>1. a \in Answers
    BY FailureIsAnswer DEF Answers
  <2>2. req' = [req EXCEPT ![r].pc = "done", ![r].answer = a, ![r].fault = "failed"]
    BY <1>6 DEF Fail
  <2> HIDE DEF a
  <2>3. [req[r] EXCEPT !.pc = "done", !.answer = a, !.fault = "failed"] \in Request
    BY <2>1 DEF Steps
  <2> QED
    BY <2>2, <2>3 DEF a
<1>3. ASSUME NEW pc \in Steps, Go(r, pc)
      PROVE  Becomes(r, [req[r] EXCEPT !.pc = pc])
  BY <1>3 DEF Go
<1>4. ASSUME NEW op \in Ops, NEW n \in Names \union {None}, NEW arg \in Args, NEW pc \in Steps, Begin(r, op, n, arg, pc)
      PROVE  Becomes(r, [req[r] EXCEPT !.op = op, !.name = n, !.arg = arg, !.pc = pc])
  <2> DEFINE q == [req[r] EXCEPT !.op = op, !.name = n, !.arg = arg, !.pc = pc]
  <2>1. q \in Request
    OBVIOUS
  <2>2. req' = [req EXCEPT ![r] = q]
    BY <1>4 DEF Begin
  <2> QED
    BY <2>1, <2>2
<1>5. ASSUME NEW n \in Names, NEW pc \in Steps, Load(r, n, pc), user[n] \in Row \union {None}
      PROVE  Becomes(r, [req[r] EXCEPT !.name = n, !.pc = pc, !.row = user[n], !.read = now,
                       !.roles = LoadedRoles(req[r].op, n), !.keys = LoadedKeys(req[r].op, n)])
  <2>1. \A op : LoadedRoles(op, n) \subseteq Roles /\ LoadedKeys(op, n) \subseteq Keys
    BY DEF LoadedRoles, LoadedKeys, RolesOf, KeysOf, Issued
  <2> DEFINE q == [req[r] EXCEPT !.name = n, !.pc = pc, !.row = user[n], !.read = now,
                       !.roles = LoadedRoles(req[r].op, n), !.keys = LoadedKeys(req[r].op, n)]
  <2>2. q \in Request
    BY <1>5, <2>1
  <2>3. req' = [req EXCEPT ![r] = q]
    BY <1>5, <2>1 DEF Load
  <2> QED
    BY <2>2, <2>3
<1> HIDE DEF Becomes, Request
<1> QED
  BY <1>1, <1>2, <1>3, <1>4, <1>5, <1>6

(* It is a record of requests again, the same one for the others. *)
LEMMA Becoming ==
    ASSUME req \in [Requests -> Request], NEW r \in Requests, NEW q, Becomes(r, q)
    PROVE  /\ req' \in [Requests -> Request]
           /\ req'[r] = q
           /\ \A p \in Requests \ {r} : req'[p] = req[p]
BY DEF Becomes
(* What every step of a request keeps. *)
LEMMA StepTypes ==
    ASSUME TypeOK, Asked, NEW r \in Requests, Step(r)
    PROVE  /\ TypeOK'
           /\ \E q : Becomes(r, q)
<1> USE DEF TypeOK
<1>0. req[r] \in Request
  OBVIOUS
<1>a. SUFFICES /\ user' \in [Names -> Row \union {None}]
               /\ roles' \subseteq Names \X Roles
               /\ key' \in [Keys -> APIKey \union {None}]
               /\ now' \in Nat
               /\ \E q : Becomes(r, q)
  BY Becoming
<1>1. CASE PostRegister(r) \/ PostLogin(r) \/ PutProfile(r) \/ PutStatus(r) \/ PostForgot(r) \/ PostReset(r)
           \/ PostKey(r) \/ DeleteKey(r) \/ Regenerate(r)
  <2>1. PICK op \in Ops, n \in Names \union {None}, arg \in Args, pc \in Steps : Begin(r, op, n, arg, pc)
    BY <1>1 DEF PostRegister, PostLogin, PutProfile, PutStatus, PostForgot, PostReset, PostKey, DeleteKey,
         Regenerate, Args, Known, Ops, Steps
  <2> QED
    <3>1. Becomes(r, [req[r] EXCEPT !.op = op, !.name = n, !.arg = arg, !.pc = pc])
      BY <2>1, Records
    <3>2. UNCHANGED <<user, roles, key, now>>
      BY <2>1 DEF Begin
    <3> QED
      BY <3>1, <3>2
<1>2. CASE CheckName(r) \/ CheckEmail(r) \/ ListKeys(r) \/ ReadKey(r)
  <2>1. \E a \in Answers, pc \in Steps : Answer(r, a) \/ Go(r, pc)
    BY <1>2 DEF CheckName, CheckEmail, ListKeys, ReadKey, Answers, Steps
  <2>2. UNCHANGED <<user, roles, key, now>>
    BY <1>2 DEF CheckName, CheckEmail, ListKeys, ReadKey
  <2> QED
    BY <2>1, <2>2, Records
<1>9. CASE Fail(r)
  <2>1. UNCHANGED <<user, roles, key, now>>
    BY <1>9 DEF Fail
  <2> QED
    BY <1>9, <2>1, Records
<1>10. ASSUME NEW a \in Answers, NEW f \in Faults, Ended(r, a, f)
       PROVE  now' \in Nat /\ \E q : Becomes(r, q)
  <2>1. Becomes(r, [req[r] EXCEPT !.pc = "done", !.answer = a, !.fault = f, !.wrote = now + 1])
    BY <1>10, Records
  <2>2. now' \in Nat
    BY <1>10 DEF Ended
  <2> QED
    BY <2>1, <2>2
<1>3. CASE Insert(r)
  <2>1. [email |-> req[r].arg, active |-> TRUE, display |-> r, password |-> r, token |-> None] \in Row
    BY <1>3 DEF Insert, At, Asked, AskedOf, Row, Setters
  <2>2. user' \in [Names -> Row \union {None}] /\ UNCHANGED <<roles, key>>
    BY <1>3, <2>1 DEF Insert
  <2>3. \E a \in Answers, f \in Faults : Ended(r, a, f)
    BY <1>3, WroteTold DEF Insert
  <2> QED
    BY <1>10, <2>2, <2>3
<1>4. CASE ReadProfile(r) \/ ReadStatus(r) \/ ReadForgot(r) \/ ReadReset(r) \/ ReadLogin(r)
  <2>1. UNCHANGED <<user, roles, key, now>>
    BY <1>4 DEF ReadProfile, ReadStatus, ReadForgot, ReadReset, ReadLogin
  <2>2. (\E a \in Answers : Answer(r, a)) \/ \E n \in Names, pc \in Steps : Load(r, n, pc)
    BY <1>4 DEF ReadProfile, ReadStatus, ReadForgot, ReadReset, ReadLogin, Asked, AskedOf, Known, At, Answers, Steps
  <2> QED
    BY <2>1, <2>2, Records
<1>5. CASE Save(r)
  <2>1. Edited(r) \in Row /\ req[r].name \in Names /\ req[r].roles \subseteq Roles /\ req[r].keys \subseteq Issued
    BY <1>5, EditedIsRow DEF Save, Asked, AskedOf, Request
  <2>2. SaveRoles(req[r].name, req[r].roles) \subseteq Names \X Roles
    BY <2>1 DEF SaveRoles
  <2>3. SaveKeys(req[r].name, req[r].keys) \in [Keys -> APIKey \union {None}]
    BY <2>1 DEF SaveKeys, APIKey, Issued
  <2>4. \E a \in Answers, f \in Faults : Ended(r, a, f)
    BY <1>5, WroteTold DEF Save
  <2>7. user' \in [Names -> Row \union {None}]
    BY <1>5, <2>1 DEF Save
  <2>8. roles' \subseteq Names \X Roles /\ key' \in [Keys -> APIKey \union {None}]
    BY <1>5, <2>2, <2>3 DEF Save
  <2> QED
    BY <1>10, <2>4, <2>7, <2>8
<1>6. CASE AssignRole(r) \/ RemoveRole(r)
  <2>1. PICK n \in Names, x \in Roles, op \in {"AssignRole", "RemoveRole"} :
          /\ WroteRole(r, op, n, x)
          /\ roles' \in {roles \union {<<n, x>>}, roles \ {<<n, x>>}}
          /\ UNCHANGED <<user, key>>
    BY <1>6 DEF AssignRole, RemoveRole
  <2> DEFINE q(w, a, f) == [New EXCEPT !.op = op, !.name = n, !.arg = x, !.pc = "done", !.wrote = w,
                                       !.answer = a, !.fault = f]
  <2>2. op \in Ops /\ x \in Args /\ {"ok", "error", None} \subseteq Answers /\ {"new", "done"} \subseteq Steps /\ None \in Args
    BY DEF Ops, Args, Answers, Steps
  <2>3. \A w \in Nat, a \in {"ok", "error"}, f \in Faults : q(w, a, f) \in Request
    BY <2>2 DEF New, Request, Faults
  <2>4. now + 1 \in Nat
    OBVIOUS
  <2>5. PICK a \in {"ok", "error"}, f \in Faults : Becomes(r, q(now + 1, a, f))
    <3>1. PICK end \in {<<"ok", None>>, <<"error", "lost">>} : req' = [req EXCEPT ![r] = q(now + 1, end[1], end[2])]
      BY <2>1 DEF WroteRole
    <3>2. end[1] \in {"ok", "error"} /\ end[2] \in Faults
      BY DEF Faults
    <3> HIDE DEF q
    <3> QED
      BY <2>3, <2>4, <3>1, <3>2 DEF Becomes
  <2> HIDE DEF q
  <2>6. user' \in [Names -> Row \union {None}] /\ key' \in [Keys -> APIKey \union {None}]
    BY <2>1
  <2>7. roles' \subseteq Names \X Roles /\ now' \in Nat
    BY <2>1, <2>4 DEF WroteRole
  <2> QED
    BY <2>5, <2>6, <2>7
<1>7. CASE CreateAPIKey(r)
  <2>1. PICK k \in Keys \ Issued : key' = [key EXCEPT ![k] = [owner |-> req[r].name, label |-> r, active |-> TRUE]]
    BY <1>7 DEF CreateAPIKey
  <2>2. [owner |-> req[r].name, label |-> r, active |-> TRUE] \in APIKey
    BY <1>7 DEF CreateAPIKey, Asked, AskedOf, APIKey, Setters
  <2>3. key' \in [Keys -> APIKey \union {None}] /\ UNCHANGED <<user, roles>>
    BY <1>7, <2>1, <2>2 DEF CreateAPIKey
  <2>4. CASE \E a \in Answers, f \in Faults : Ended(r, a, f)
    BY <1>10, <2>3, <2>4
  <2>5. CASE req' = [req EXCEPT ![r].pc = "deactivate", ![r].wrote = now + 1] /\ now' = now + 1
    <3>1. now + 1 \in Nat
      OBVIOUS
    <3>2. \A w \in Nat : [req[r] EXCEPT !.pc = "deactivate", !.wrote = w] \in Request
      BY DEF Request, Steps
    <3>3. Becomes(r, [req[r] EXCEPT !.pc = "deactivate", !.wrote = now + 1])
      BY <2>5, <3>1, <3>2 DEF Becomes
    <3> QED
      BY <2>3, <2>5, <3>1, <3>3
  <2>6. Lost(r) => \E a \in Answers, f \in Faults : Ended(r, a, f)
    BY FailureIsAnswer DEF Lost, Faults, Answers
  <2> QED
    BY <1>7, <2>4, <2>5, <2>6, WroteTold DEF CreateAPIKey
<1>8. CASE Deactivate(r)
  <2>1. req[r].arg \in Issued
    BY <1>8 DEF Deactivate, Asked, AskedOf
  <2>2. key' \in [Keys -> APIKey \union {None}]
    BY <1>8, <2>1 DEF Deactivate, APIKey, Issued
  <2>3. (\E a \in Answers, f \in Faults : Ended(r, a, f)) /\ UNCHANGED <<user, roles>>
    BY <1>8, WroteTold DEF Deactivate
  <2> QED
    BY <1>10, <2>2, <2>3
<1> QED
  BY <1>1, <1>2, <1>3, <1>4, <1>5, <1>6, <1>7, <1>8, <1>9 DEF Step

(* No row goes away. *)
LEMMA TablesGrow ==
    ASSUME TypeOK, Asked, NEW r \in Requests, Step(r)
    PROVE  Known \subseteq Known' /\ Issued \subseteq Issued'
<1> USE NoneIsNoRow DEF Known, Issued, TypeOK
<1>1. CASE Insert(r)
  <2>1. [email |-> req[r].arg, active |-> TRUE, display |-> r, password |-> r, token |-> None] \in Row
    BY <1>1 DEF Insert, At, Asked, AskedOf, Row, Setters
  <2> QED
    BY <1>1, <2>1 DEF Insert
<1>2. CASE Save(r)
  <2>1. Edited(r) \in Row
    BY <1>2, EditedIsRow DEF Save
  <2>2. \A k \in Issued : [key[k] EXCEPT !.owner = req[r].name] \in APIKey
    BY <1>2 DEF Save, APIKey, Asked, AskedOf
  <2> QED
    BY <1>2, <2>1, <2>2 DEF Save, SaveKeys, Asked, AskedOf
<1>3. CASE CreateAPIKey(r)
  <2>1. [owner |-> req[r].name, label |-> r, active |-> TRUE] \in APIKey
    BY <1>3 DEF CreateAPIKey, Asked, AskedOf, APIKey, Setters
  <2> QED
    BY <1>3, <2>1 DEF CreateAPIKey
<1>4. CASE Deactivate(r)
  <2>1. req[r].arg \in Issued
    BY <1>4 DEF Deactivate, Asked, AskedOf
  <2>2. [key[req[r].arg] EXCEPT !.active = FALSE] \in APIKey
    BY <2>1 DEF APIKey
  <2> QED
    BY <1>4, <2>1, <2>2 DEF Deactivate
<1>5. CASE ~(Insert(r) \/ Save(r) \/ CreateAPIKey(r) \/ Deactivate(r))
  <2>1. UNCHANGED <<user, key>>
    BY <1>5 DEF Step, PostRegister, PostLogin, PutProfile, PutStatus, PostForgot, PostReset, PostKey, DeleteKey,
         Regenerate, Begin, CheckName, CheckEmail, ListKeys, ReadKey, Fail, ReadProfile, ReadStatus, ReadForgot,
         ReadReset, ReadLogin, AssignRole, RemoveRole
  <2> QED
    BY <2>1
<1> QED
  BY <1>1, <1>2, <1>3, <1>4, <1>5

(* What a request was asked for fits where it is, after each step of it. *)
LEMMA StepAsked ==
    ASSUME TypeOK, Asked, NEW r \in Requests, Step(r)
    PROVE  Asked'
<1>1. /\ TypeOK'
      /\ Known \subseteq Known' /\ Issued \subseteq Issued'
      /\ \A q \in Requests \ {r} : req'[q] = req[q]
  BY StepTypes, TablesGrow, Becoming DEF TypeOK
<1>2. ASSUME NEW q \in Requests \ {r} PROVE AskedOf(req[q])'
  BY <1>1, <1>2 DEF Asked, AskedOf
<1>3. AskedOf(req[r])'
  <2> USE DEF AskedOf
  <2>0. AskedOf(req[r]) /\ req[r] \in Request
    BY DEF Asked, TypeOK
  <2>1. CASE PostRegister(r)
    <3>1. PICK n \in Names, e \in Emails : Begin(r, "Register", n, e, "name")
      BY <2>1 DEF PostRegister
    <3>2. req'[r] = [New EXCEPT !.op = "Register", !.name = n, !.arg = e, !.pc = "name"]
      BY <2>0, <3>1 DEF Begin, Request, TypeOK
    <3> QED
      BY <3>2, <1>1 DEF New
  <2>2. CASE PostLogin(r) \/ PutProfile(r) \/ PutStatus(r) \/ PostForgot(r) \/ PostReset(r)
    <3>1. PICK op \in {"Login", "UpdateProfile", "SetUserStatus", "ForgotPassword", "ResetPassword"},
               n \in Names \union {None}, arg \in Args :
            /\ Begin(r, op, n, arg, "read")
            /\ op \in {"UpdateProfile", "SetUserStatus", "Login"} => n \in Names
            /\ op = "UpdateProfile" => n \in Known /\ arg \in Emails \union {None}
            /\ op = "SetUserStatus" => arg \in BOOLEAN
      BY <2>2 DEF PostLogin, PutProfile, PutStatus, PostForgot, PostReset, Authenticated, Known, Args
    <3>2. req'[r] = [New EXCEPT !.op = op, !.name = n, !.arg = arg, !.pc = "read"]
      BY <2>0, <3>1 DEF Begin, Request, TypeOK
    <3> QED
      BY <3>1, <3>2, <1>1 DEF New
  <2>3. CASE PostKey(r) \/ DeleteKey(r) \/ Regenerate(r)
    <3>1. PICK op \in {"CreateAPIKey", "RevokeAPIKey", "RegenerateAPIKey"}, n \in Names, arg \in Args,
               pc \in {"createKey", "readKey"} :
            /\ Begin(r, op, n, arg, pc)
            /\ pc = "createKey" <=> op = "CreateAPIKey"
      BY <2>3 DEF PostKey, DeleteKey, Regenerate, Known, Args
    <3>2. req'[r] = [New EXCEPT !.op = op, !.name = n, !.arg = arg, !.pc = pc]
      BY <2>0, <3>1 DEF Begin, Request, TypeOK
    <3> QED
      BY <3>1, <3>2, <1>1 DEF New
  <2>4. CASE \E a \in Answers : Answer(r, a)
    <3>1. req'[r].pc = "done" /\ req'[r].op = req[r].op /\ req'[r].keys = req[r].keys
      BY <2>4, <2>0 DEF Answer, TypeOK, Request
    <3> QED
      BY <3>1, <2>0, <1>1
  <2>5. CASE Fail(r) \/ \E a, f : Ended(r, a, f)
    <3>1. req'[r].pc = "done" /\ req'[r].op = req[r].op /\ req'[r].keys = req[r].keys
      <4>1. CASE Fail(r)
        BY <4>1, <2>0 DEF Fail, TypeOK, Request
      <4>2. ASSUME NEW a, NEW f, Ended(r, a, f)
            PROVE  req'[r].pc = "done" /\ req'[r].op = req[r].op /\ req'[r].keys = req[r].keys
        BY <4>2, <2>0 DEF Ended, TypeOK, Request
      <4> QED
        BY <2>5, <4>1, <4>2
    <3> QED
      BY <3>1, <2>0, <1>1
  <2>6. CASE CheckName(r) \/ CheckEmail(r)
    <3>1. CASE Go(r, IF req[r].pc = "name" THEN "email" ELSE IF req[r].op = "Register" THEN "insert" ELSE "save")
      <4>1. req'[r] = [req[r] EXCEPT !.pc = IF req[r].pc = "name" THEN "email" ELSE IF req[r].op = "Register" THEN "insert" ELSE "save"]
        BY <3>1, <2>0 DEF Go, TypeOK, Request
      <4>2. (req[r].pc = "name" /\ req[r].op = "Register") \/ req[r].pc = "email"
        BY <2>6 DEF CheckName, CheckEmail, At
      <4> QED
        BY <4>1, <4>2, <2>0, <1>1 DEF Saving, Request
    <3> QED
      BY <2>4, <2>6, <3>1 DEF CheckName, CheckEmail, At, Answers
  <2>7. CASE ReadProfile(r) \/ ReadStatus(r) \/ ReadForgot(r) \/ ReadReset(r) \/ ReadLogin(r)
    <3>1. CASE \E n \in Known, pc \in {"save", "email", "listKeys"} :
                 /\ Load(r, n, pc)
                 /\ req[r].pc = "read"
                 /\ pc = "save" => req[r].op \in Saving
                 /\ pc = "email" => req[r].op = "UpdateProfile" /\ req[r].arg \in Emails
                 /\ pc = "listKeys" => req[r].op = "Login"
      <4>1. PICK n \in Known, pc \in {"save", "email", "listKeys"} :
                 /\ Load(r, n, pc)
                 /\ req[r].pc = "read"
                 /\ pc = "save" => req[r].op \in Saving
                 /\ pc = "email" => req[r].op = "UpdateProfile" /\ req[r].arg \in Emails
                 /\ pc = "listKeys" => req[r].op = "Login"
        BY <3>1
      <4>2. LoadedKeys(req[r].op, n) \subseteq Issued
        BY DEF LoadedKeys, KeysOf
      <4>3. /\ req'[r].op = req[r].op /\ req'[r].arg = req[r].arg /\ req'[r].name = n /\ req'[r].pc = pc
            /\ req'[r].row = user[n] /\ req'[r].keys = LoadedKeys(req[r].op, n)
        BY <4>1, <2>0 DEF Load, TypeOK, Request
      <4> QED
        BY <4>1, <4>2, <4>3, <2>0, <1>1 DEF Known
    <3> QED
      BY <2>0, <2>4, <2>7, <3>1 DEF ReadProfile, ReadStatus, ReadForgot, ReadReset, ReadLogin, At, Answers, Saving
  <2>8. CASE ReadKey(r)
    <3>1. CASE /\ req[r].arg \in KeysOf(req[r].name)
               /\ Go(r, IF req[r].op = "RevokeAPIKey" THEN "deactivate" ELSE "createKey")
      <4>1. req'[r] = [req[r] EXCEPT !.pc = IF req[r].op = "RevokeAPIKey" THEN "deactivate" ELSE "createKey"]
        BY <3>1, <2>0 DEF Go, TypeOK, Request
      <4> QED
        BY <4>1, <3>1, <2>0, <2>8, <1>1 DEF KeysOf, ReadKey, Request
    <3> QED
      BY <2>4, <2>8, <3>1 DEF ReadKey, Answers
  <2>9. CASE CreateAPIKey(r)
    <3>1. CASE req[r].op = "RegenerateAPIKey" /\ req' = [req EXCEPT ![r].pc = "deactivate", ![r].wrote = now + 1]
      <4>1. /\ req'[r].op = req[r].op /\ req'[r].arg = req[r].arg /\ req'[r].keys = req[r].keys
            /\ req'[r].pc = "deactivate"
        BY <3>1, <2>0 DEF TypeOK, Request
      <4> QED
        BY <4>1, <3>1, <2>0, <2>9, <1>1 DEF CreateAPIKey
    <3> QED
      BY <2>5, <2>9, <3>1 DEF CreateAPIKey, Wrote, Lost
  <2>10. CASE AssignRole(r) \/ RemoveRole(r)
    <3>1. PICK op \in {"AssignRole", "RemoveRole"}, n \in Names, x \in Roles : WroteRole(r, op, n, x)
      BY <2>10 DEF AssignRole, RemoveRole
    <3>2. req'[r].pc = "done" /\ req'[r].keys = {}
      BY <3>1 DEF WroteRole, TypeOK, New
    <3> QED
      BY <3>2
  <2> QED
    BY <2>1, <2>2, <2>3, <2>4, <2>5, <2>6, <2>7, <2>8, <2>9, <2>10
       DEF Step, Insert, Save, ListKeys, Deactivate, Wrote, Lost, Answers
<1> QED
  BY <1>2, <1>3 DEF Asked

(* A request that has written stays what it was, and writes are dated in their order. *)
Later(r) ==
    /\ req[r].pc # "done"
    /\ \/ now' = now /\ req'[r].wrote = req[r].wrote
       \/ now' = now + 1 /\ req'[r].wrote = now + 1
    /\ req[r].wrote > 0 => /\ req'[r].op = req[r].op /\ req'[r].name = req[r].name /\ req'[r].arg = req[r].arg
                           /\ req'[r].read = req[r].read /\ req'[r].roles = req[r].roles

(* A step of a request dates its read and its write, if it made one. *)
LEMMA StepDates ==
    ASSUME TypeOK, Asked, Dated, ErrorsTell, NEW r \in Requests, Step(r)
    PROVE  /\ Later(r)
           /\ req'[r].read =< now'
           /\ req'[r].wrote > 0 => \/ req'[r].pc = "done"
                                   \/ req'[r].pc = "deactivate" /\ req'[r].op = "RegenerateAPIKey"
           /\ req'[r].pc # "done" => req'[r].answer = None
           /\ req'[r].op = "RemoveRole" => req'[r].wrote > 0 /\ RemoveRole(r)
           /\ req'[r].pc = "deactivate" /\ req'[r].op = "RegenerateAPIKey" => req'[r].wrote > 0
           /\ req'[r].answer \notin {"ok", "created", None} => req'[r].wrote = 0 \/ req'[r].fault = "lost"
<1> USE DEF Later, TypeOK
<1>0. /\ AskedOf(req[r]) /\ req[r] \in Request
      /\ req[r].read =< now /\ req[r].wrote =< now
      /\ req[r].wrote > 0 => \/ req[r].pc = "done"
                             \/ req[r].pc = "deactivate" /\ req[r].op = "RegenerateAPIKey"
      /\ req[r].pc # "done" => req[r].answer = None
      /\ req[r].op = "RemoveRole" => req[r].wrote > 0
      /\ req[r].pc = "deactivate" /\ req[r].op = "RegenerateAPIKey" => req[r].wrote > 0
      /\ req[r].wrote \in Nat /\ req[r].read \in Nat /\ now \in Nat
  BY DEF Asked, Dated, Request
<1>1. CASE \E op \in Ops \ {"RemoveRole"}, n \in Names \union {None}, arg \in Args, pc \in Steps \ {"done", "deactivate"} : Begin(r, op, n, arg, pc)
  <2>1. PICK op \in Ops \ {"RemoveRole"}, n \in Names \union {None}, arg \in Args, pc \in Steps \ {"done", "deactivate"} : Begin(r, op, n, arg, pc)
    BY <1>1
  <2>2. req[r] = New /\ now' = now
    BY <1>0, <2>1 DEF Begin, AskedOf
  <2>3. req'[r] = [New EXCEPT !.op = op, !.name = n, !.arg = arg, !.pc = pc]
    BY <2>1, <2>2 DEF Begin, New
  <2> QED
    BY <1>0, <2>1, <2>2, <2>3 DEF New
<1>2. CASE /\ req[r].pc # "done" /\ now' = now
           /\ \E a : /\ Answer(r, a)
                     /\ req[r].pc = "deactivate" /\ req[r].op = "RegenerateAPIKey" => a = "created"
  <2>1. PICK a : /\ Answer(r, a)
                 /\ req[r].pc = "deactivate" /\ req[r].op = "RegenerateAPIKey" => a = "created"
    BY <1>2
  <2>2. req'[r] = [req[r] EXCEPT !.pc = "done", !.answer = a]
    BY <1>0, <2>1 DEF Answer, Request
  <2> QED
    BY <1>0, <1>2, <2>1, <2>2 DEF Request
<1>3. CASE /\ req[r].pc \in {"name", "email", "readKey"} /\ now' = now
           /\ \E pc \in Steps \ {"done"} : Go(r, pc) /\ (pc = "deactivate" => req[r].op = "RevokeAPIKey")
  <2>1. PICK pc \in Steps \ {"done"} : Go(r, pc) /\ (pc = "deactivate" => req[r].op = "RevokeAPIKey")
    BY <1>3
  <2>2. req'[r] = [req[r] EXCEPT !.pc = pc]
    BY <1>0, <2>1 DEF Go, Request
  <2>3. req[r].wrote = 0
    BY <1>0, <1>3
  <2> QED
    BY <1>0, <1>3, <2>1, <2>2, <2>3 DEF Request
<1>4. CASE /\ req[r].pc = "read" /\ now' = now
           /\ \E n, pc : pc \notin {"done", "deactivate"} /\ Load(r, n, pc)
  <2>1. PICK n, pc : pc \notin {"done", "deactivate"} /\ Load(r, n, pc)
    BY <1>4
  <2>2. /\ req'[r].pc = pc /\ req'[r].read = now /\ req'[r].op = req[r].op
        /\ req'[r].wrote = req[r].wrote /\ req'[r].answer = req[r].answer
    BY <1>0, <2>1 DEF Load, Request
  <2>3. req[r].wrote = 0
    BY <1>0, <1>4
  <2> QED
    BY <1>0, <1>4, <2>1, <2>2, <2>3
<1>5. ASSUME req[r].pc # "done", NEW a, NEW f, Ended(r, a, f), a \in {"ok", "created"} \/ f = "lost"
      PROVE  /\ Later(r)
             /\ req'[r].read =< now'
             /\ req'[r].pc = "done" /\ req'[r].op = req[r].op
             /\ req'[r].op = "RemoveRole" => req'[r].wrote > 0 /\ RemoveRole(r)
             /\ req'[r].answer \notin {"ok", "created", None} => req'[r].fault = "lost"
  <2>1. /\ req'[r].op = req[r].op /\ req'[r].name = req[r].name /\ req'[r].arg = req[r].arg
        /\ req'[r].read = req[r].read /\ req'[r].roles = req[r].roles
        /\ req'[r].pc = "done" /\ req'[r].answer = a /\ req'[r].fault = f /\ req'[r].wrote = now + 1
    BY <1>0, <1>5 DEF Ended, Request
  <2>2. req[r].op # "RemoveRole"
    BY <1>0, <1>5
  <2> QED
    BY <1>0, <1>5, <2>1, <2>2 DEF Ended
<1>6. CASE AssignRole(r) \/ RemoveRole(r)
  <2>1. \A op \in {"AssignRole", "RemoveRole"}, n \in Names, x \in Roles : WroteRole(r, op, n, x) =>
           /\ req'[r].op = op /\ req'[r].pc = "done" /\ req'[r].wrote = now + 1 /\ req'[r].read = 0
           /\ req'[r].answer = "ok" \/ req'[r].fault = "lost"
           /\ now' = now + 1
    BY DEF WroteRole, New
  <2>2. req[r] = New
    BY <1>0, <1>6 DEF AskedOf, AssignRole, RemoveRole
  <2>3. CASE AssignRole(r) /\ ~RemoveRole(r)
    <3>1. PICK n \in Names, x \in Roles : WroteRole(r, "AssignRole", n, x)
      BY <2>3 DEF AssignRole
    <3>2. /\ req'[r].op = "AssignRole" /\ req'[r].pc = "done" /\ req'[r].wrote = now + 1 /\ req'[r].read = 0
          /\ req'[r].answer = "ok" \/ req'[r].fault = "lost"
          /\ now' = now + 1
      BY <2>1, <3>1
    <3> QED
      BY <1>0, <2>2, <3>2 DEF New
  <2>4. CASE RemoveRole(r)
    <3>1. PICK n \in Names, x \in Roles : WroteRole(r, "RemoveRole", n, x)
      BY <2>4 DEF RemoveRole
    <3>2. /\ req'[r].pc = "done" /\ req'[r].wrote = now + 1 /\ req'[r].read = 0
          /\ req'[r].answer = "ok" \/ req'[r].fault = "lost"
          /\ now' = now + 1
      BY <2>1, <3>1
    <3> QED
      BY <1>0, <2>2, <2>4, <3>2 DEF New
  <2> QED
    BY <1>6, <2>3, <2>4
<1>7. CASE CreateAPIKey(r)
  <2>1. req[r].pc = "createKey" /\ req[r].wrote = 0
    BY <1>0, <1>7 DEF CreateAPIKey
  <2>2. CASE Wrote(r, "created") \/ Lost(r)
    <3>1. PICK a, f : Ended(r, a, f) /\ (a \in {"ok", "created"} \/ f = "lost")
      BY <2>2 DEF Wrote, Lost
    <3> QED
      BY <1>5, <2>1, <3>1
  <2>3. CASE req[r].op = "RegenerateAPIKey" /\ req' = [req EXCEPT ![r].pc = "deactivate", ![r].wrote = now + 1] /\ now' = now + 1
    <3>1. /\ req'[r].wrote = now + 1 /\ req'[r].read = req[r].read /\ req'[r].op = req[r].op
          /\ req'[r].pc = "deactivate" /\ req'[r].answer = req[r].answer
      BY <1>0, <2>3 DEF Request
    <3> QED
      BY <1>0, <2>1, <2>3, <3>1
  <2> QED
    BY <1>7, <2>2, <2>3 DEF CreateAPIKey
<1>8. CASE PostRegister(r) \/ PostLogin(r) \/ PutProfile(r) \/ PutStatus(r) \/ PostForgot(r) \/ PostReset(r)
           \/ PostKey(r) \/ DeleteKey(r) \/ Regenerate(r)
  BY <1>1, <1>8 DEF PostRegister, PostLogin, PutProfile, PutStatus, PostForgot, PostReset, PostKey, DeleteKey,
     Regenerate, Steps, Ops, Args, Known
<1>9. CASE CheckName(r) \/ CheckEmail(r) \/ ReadKey(r) \/ ListKeys(r)
  BY <1>2, <1>3, <1>9 DEF CheckName, CheckEmail, ReadKey, ListKeys, At, Steps
<1>10. CASE ReadProfile(r) \/ ReadStatus(r) \/ ReadForgot(r) \/ ReadReset(r) \/ ReadLogin(r)
  BY <1>2, <1>4, <1>10 DEF ReadProfile, ReadStatus, ReadForgot, ReadReset, ReadLogin, At
<1>11. CASE Fail(r)
  <2>1. req'[r] = [req[r] EXCEPT !.pc = "done", !.answer = Failure(r), !.fault = "failed"] /\ now' = now /\ req[r].pc \notin {"new", "done"}
    BY <1>0, <1>11 DEF Fail, Request
  <2>2. req[r].wrote > 0 => Failure(r) = "created"
    BY <1>0, <2>1 DEF Failure
  <2>3. /\ req'[r].pc = "done" /\ req'[r].answer = Failure(r) /\ req'[r].op = req[r].op /\ req'[r].name = req[r].name
        /\ req'[r].arg = req[r].arg /\ req'[r].read = req[r].read /\ req'[r].roles = req[r].roles
        /\ req'[r].wrote = req[r].wrote
    BY <2>1 DEF Request
  <2> QED
    BY <1>0, <2>1, <2>2, <2>3
<1>12. CASE Insert(r) \/ Save(r) \/ Deactivate(r)
  <2>1. req[r].pc # "done" /\ \E a \in {"ok", "created"} : Wrote(r, a)
    BY <1>12 DEF Insert, Save, Deactivate, At
  <2>2. PICK a, f : Ended(r, a, f) /\ (a \in {"ok", "created"} \/ f = "lost")
    BY <2>1 DEF Wrote, Lost
  <2> QED
    BY <1>5, <2>1, <2>2
<1> QED
  BY <1>6, <1>7, <1>8, <1>9, <1>10, <1>11, <1>12 DEF Step

(* A write leaves the request what it was. *)
LEMMA WriteKeeps ==
    ASSUME TypeOK, NEW r \in Requests, Insert(r) \/ Save(r) \/ CreateAPIKey(r) \/ Deactivate(r)
    PROVE  /\ req'[r].op = req[r].op /\ req'[r].name = req[r].name /\ req'[r].arg = req[r].arg
           /\ req'[r].read = req[r].read /\ req'[r].row = req[r].row /\ req'[r].roles = req[r].roles
           /\ req'[r].wrote = now + 1 /\ req'[r].pc \in {"deactivate", "done"}
<1>0. req[r] \in Request
  BY DEF TypeOK
<1>1. CASE \E a, f : Ended(r, a, f)
  BY <1>0, <1>1 DEF Ended, TypeOK, Request
<1>2. CASE req' = [req EXCEPT ![r].pc = "deactivate", ![r].wrote = now + 1]
  BY <1>0, <1>2 DEF TypeOK, Request
<1> QED
  BY <1>1, <1>2 DEF Insert, Save, CreateAPIKey, Deactivate, Wrote, Lost

(* What AssignRole and RemoveRole make of a request. *)
LEMMA RoleKeeps ==
    ASSUME TypeOK, NEW r \in Requests, NEW op, NEW n, NEW x, WroteRole(r, op, n, x)
    PROVE  /\ req'[r].op = op /\ req'[r].name = n /\ req'[r].arg = x
           /\ req'[r].wrote = now + 1 /\ req'[r].pc = "done"
  BY DEF WroteRole, New, TypeOK

(* What a later write overwrites stays overwritten, and a role that it restores restored. *)
LEMMA LaterStays ==
    ASSUME NEW r \in Requests, TypeOK, Dated, Later(r), \A q \in Requests \ {r} : req'[q] = req[q],
           NEW q \in Requests, NEW p \in Requests \ {r}
    PROVE  /\ \A c : Overwrites(q, p, c) => Overwrites(q, p, c)'
           /\ Restores(q, p) => Restores(q, p)'
<1>1. req[p].wrote \in Nat /\ req[q].wrote \in Nat /\ req'[p] = req[p] /\ now \in Nat
  BY DEF TypeOK, Request
<1>2. CASE q # r
  <2>1. req'[q] = req[q] /\ Sets(q)' = Sets(q)
    BY <1>2 DEF Sets
  <2> QED
    BY <1>1, <2>1 DEF Overwrites, Restores
<1>3. CASE q = r /\ req[r].wrote > req[p].wrote
  <2>1. /\ req'[r].op = req[r].op /\ req'[r].name = req[r].name /\ req'[r].arg = req[r].arg
        /\ req'[r].read = req[r].read /\ req'[r].roles = req[r].roles
    BY <1>1, <1>3 DEF Later
  <2>2. Sets(r)' = Sets(r)
    BY <2>1 DEF Sets
  <2>3. req'[r].wrote > req[p].wrote
    <3>1. req[r].wrote =< now
      BY DEF Dated
    <3> QED
      BY <1>1, <1>3, <3>1 DEF Later
  <2> QED
    BY <1>1, <1>3, <2>1, <2>2, <2>3 DEF Overwrites, Restores
<1> QED
  BY <1>1, <1>2, <1>3 DEF Overwrites, Restores

(* Of a column, Save writes what the request sets, or what it has read. *)
LEMMA EditedColumns ==
    ASSUME TypeOK, Asked, NEW r \in Requests, req[r].pc = "save",
           NEW c \in {"email", "active", "display", "password", "token"}
    PROVE  /\ \A v : <<c, v>> \in Sets(r) => Edited(r)[c] = v
           /\ \/ Edited(r)[c] = req[r].row[c]
              \/ \E v \in Setters \union Emails \union BOOLEAN : <<c, v>> \in Sets(r)
<1>1. req[r].row \in Row /\ req[r].op \in Saving /\ r \in Setters /\ None \in Setters
  BY DEF TypeOK, Asked, AskedOf, Request, Setters
<1>2. CASE req[r].op = "UpdateProfile"
  <2>1. req[r].arg \in Emails \union {None}
    BY <1>2 DEF Asked, AskedOf
  <2>2. CASE req[r].arg = None
    <3>1. Sets(r) = {<<"display", r>>}
      BY <1>2, <2>2 DEF Sets
    <3>2. Edited(r) = [req[r].row EXCEPT !.display = r]
      BY <1>2, <2>2 DEF Edited
    <3> QED
      BY <1>1, <3>1, <3>2 DEF Row
  <2>3. CASE req[r].arg \in Emails /\ req[r].arg # None
    BY <1>1, <1>2, <2>3 DEF Edited, Sets, Row
  <2> QED
    BY <2>1, <2>2, <2>3
<1>3. CASE req[r].op = "SetUserStatus"
  <2>1. req[r].arg \in BOOLEAN
    BY <1>3 DEF Asked, AskedOf
  <2> QED
    BY <1>1, <1>3, <2>1 DEF Edited, Sets, Row
<1>4. CASE req[r].op = "ForgotPassword"
  BY <1>1, <1>4 DEF Edited, Sets, Row
<1>5. CASE req[r].op = "ResetPassword"
  BY <1>1, <1>5 DEF Edited, Sets, Row
<1> QED
  BY <1>1, <1>2, <1>3, <1>4, <1>5 DEF Saving

(* Only columns are set. *)
LEMMA SetsColumns ==
    ASSUME NEW r, NEW s \in Sets(r)
    PROVE  \E c \in {"email", "active", "display", "password", "token"} : \E v : s = <<c, v>>
<1>1. CASE req[r].op = "Register"
  BY <1>1 DEF Sets
<1>2. CASE req[r].op = "UpdateProfile" /\ req[r].arg = None
  BY <1>2 DEF Sets
<1>3. CASE req[r].op = "UpdateProfile" /\ req[r].arg # None
  BY <1>3 DEF Sets
<1>4. CASE req[r].op = "SetUserStatus"
  BY <1>4 DEF Sets
<1>5. CASE req[r].op = "ForgotPassword"
  BY <1>5 DEF Sets
<1>6. CASE req[r].op = "ResetPassword"
  BY <1>6 DEF Sets
<1> QED
  BY <1>1, <1>2, <1>3, <1>4, <1>5, <1>6 DEF Sets

(* Only registration and Save write the users, and only these and the steps on keys and roles *)
(* count as a write.                                                                          *)
LEMMA WritesOfUsers ==
    ASSUME NEW r \in Requests, Step(r), now \in Nat
    PROVE  /\ UNCHANGED user \/ Insert(r) \/ Save(r)
           /\ UNCHANGED key \/ Save(r) \/ CreateAPIKey(r) \/ Deactivate(r)
           /\ UNCHANGED roles \/ Save(r) \/ AssignRole(r) \/ RemoveRole(r)
           /\ \/ now' = now
              \/ Insert(r) \/ Save(r) \/ CreateAPIKey(r) \/ Deactivate(r) \/ AssignRole(r) \/ RemoveRole(r)
<1>1. CASE CheckName(r) \/ CheckEmail(r) \/ ListKeys(r) \/ ReadKey(r) \/ Fail(r) \/ ReadProfile(r) \/ ReadStatus(r)
           \/ ReadForgot(r) \/ ReadReset(r) \/ ReadLogin(r)
  BY <1>1 DEF CheckName, CheckEmail, ListKeys, ReadKey, Fail, ReadProfile, ReadStatus, ReadForgot, ReadReset, ReadLogin
<1>2. CASE PostRegister(r) \/ PostLogin(r) \/ PutProfile(r) \/ PutStatus(r) \/ PostForgot(r) \/ PostReset(r)
           \/ PostKey(r) \/ DeleteKey(r) \/ Regenerate(r)
  BY <1>2 DEF PostRegister, PostLogin, PutProfile, PutStatus, PostForgot, PostReset, PostKey, DeleteKey, Regenerate, Begin
<1> QED
  BY <1>1, <1>2 DEF Step, Insert, Save, CreateAPIKey, Deactivate, AssignRole, RemoveRole

(* So the dates of all requests hold, and an error that is answered is one. *)
LEMMA StepDated ==
    ASSUME TypeOK, Asked, Dated, ErrorsTell, NEW r \in Requests, Step(r)
    PROVE  Dated' /\ ErrorsTell'
<1>1. /\ TypeOK' /\ Asked'
      /\ Known \subseteq Known'
      /\ \A q \in Requests \ {r} : req'[q] = req[q]
  BY StepTypes, StepAsked, TablesGrow, Becoming DEF TypeOK
<1>2. Later(r)
  BY StepDates
<1>3. now \in Nat /\ now' \in {now, now + 1}
  BY <1>2 DEF Later, TypeOK
<1>4. ASSUME NEW q \in Requests \ {r}
      PROVE  /\ req'[q].read =< now' /\ req'[q].wrote =< now'
             /\ Sets(q)' = Sets(q)
  <2>1. req[q].read =< now /\ req[q].wrote =< now /\ req[q].read \in Nat /\ req[q].wrote \in Nat
    BY DEF Dated, TypeOK, Request
  <2>2. Sets(q)' = Sets(q)
    BY <1>1 DEF Sets
  <2> QED
    BY <1>1, <1>3, <2>1, <2>2
<1>5. req'[r].wrote =< now'
  BY <1>2, <1>3 DEF Later, Dated, TypeOK, Request
<1>6. req'[r].wrote > 0 /\ Sets(r)' # {} => req'[r].name \in Known'
  <2>1. CASE req[r].wrote > 0
    BY <1>1, <1>2, <2>1 DEF Later, Sets, Dated
  <2>2. CASE req[r].wrote = 0 /\ req'[r].wrote > 0
    <3>0. AskedOf(req[r]) /\ req[r] \in Request
      BY DEF Asked, TypeOK
    <3>1. now' = now + 1
      BY <1>2, <2>2 DEF Later
    <3>2. Insert(r) \/ Save(r) \/ CreateAPIKey(r) \/ Deactivate(r) \/ AssignRole(r) \/ RemoveRole(r)
      BY <1>3, <3>1, WritesOfUsers
    <3>3. CASE Insert(r)
      <4>1. [email |-> req[r].arg, active |-> TRUE, display |-> r, password |-> r, token |-> None] \in Row
        BY <3>0, <3>3 DEF Insert, At, AskedOf, Row, Setters
      <4>2. req'[r].name = req[r].name /\ req[r].name \in Names
        BY <3>0, <3>3, WriteKeeps DEF Insert, AskedOf, At
      <4> QED
        BY <4>1, <4>2, <3>3, NoneIsNoRow DEF Insert, Known, TypeOK
    <3>4. CASE Save(r)
      <4>1. req'[r].name = req[r].name /\ req[r].name \in Known
        BY <3>0, <3>4, WriteKeeps DEF Save, AskedOf
      <4> QED
        BY <1>1, <4>1
    <3>5. CASE CreateAPIKey(r) \/ Deactivate(r)
      <4>1. req'[r].op = req[r].op /\ req[r].op \in {"CreateAPIKey", "RevokeAPIKey", "RegenerateAPIKey"}
        BY <3>0, <3>5, WriteKeeps DEF CreateAPIKey, Deactivate, AskedOf
      <4> QED
        BY <4>1 DEF Sets
    <3>6. CASE AssignRole(r) \/ RemoveRole(r)
      <4>1. PICK op \in {"AssignRole", "RemoveRole"}, n \in Names, x \in Roles : WroteRole(r, op, n, x)
        BY <3>6 DEF AssignRole, RemoveRole
      <4>2. req'[r].op = op
        BY <4>1, RoleKeeps
      <4> QED
        BY <4>2 DEF Sets
    <3> QED
      BY <3>2, <3>3, <3>4, <3>5, <3>6
  <2> QED
    BY <1>1, <2>1, <2>2 DEF TypeOK, Request
<1>7. Dated'
  BY <1>1, <1>4, <1>5, <1>6, StepDates DEF Dated
<1>8. ErrorsTell'
  BY <1>1, StepDates DEF ErrorsTell
<1> QED
  BY <1>7, <1>8

(* Who has a row to save had it already, or reads it now. *)
LEMMA ReadsOfUsers ==
    ASSUME TypeOK, Asked, NEW r \in Requests, Step(r), NEW p \in Requests, HasRead(p)'
    PROVE  \/ /\ HasRead(p) /\ req'[p].row = req[p].row /\ req'[p].read = req[p].read
              /\ req'[p].name = req[p].name /\ req'[p].roles = req[p].roles
           \/ \E n \in Names : /\ req'[p].name = n /\ req'[p].row = user[n] /\ req'[p].read = now
                               /\ req'[p].roles \subseteq RolesOf(n)
<1>0. AskedOf(req[r]) /\ req[r] \in Request
  BY DEF Asked, TypeOK
<1>1. CASE p # r
  <2>1. req'[p] = req[p]
    BY <1>1, StepTypes, Becoming DEF TypeOK
  <2> QED
    BY <2>1 DEF HasRead
<1>2. CASE p = r /\ CheckEmail(r)
  <2>1. CASE req[r].op = "UpdateProfile"
    <3>1. HasRead(r)
      BY <1>2, <2>1 DEF HasRead, CheckEmail
    <3>2. /\ req'[r].row = req[r].row /\ req'[r].read = req[r].read
          /\ req'[r].name = req[r].name /\ req'[r].roles = req[r].roles
      BY <1>0, <1>2 DEF CheckEmail, Answer, Go, TypeOK, Request
    <3> QED
      BY <1>2, <3>1, <3>2
  <2>2. CASE req[r].op = "Register"
    <3>1. req'[r].pc \in {"done", "insert"}
      BY <1>0, <1>2, <2>2 DEF CheckEmail, Answer, Go, TypeOK, Request
    <3> QED
      BY <1>2, <3>1 DEF HasRead
  <2> QED
    BY <1>0, <1>2, <2>1, <2>2 DEF AskedOf, CheckEmail
<1>3. CASE p = r /\ \E n \in Names, pc \in Steps : Load(r, n, pc)
  <2>1. PICK n \in Names, pc \in Steps : Load(r, n, pc)
    BY <1>3
  <2>2. /\ req'[r].name = n /\ req'[r].row = user[n] /\ req'[r].read = now
        /\ req'[r].roles = LoadedRoles(req[r].op, n)
    BY <1>0, <2>1 DEF Load, TypeOK, Request
  <2> QED
    BY <1>3, <2>2 DEF LoadedRoles
<1>4. CASE p = r /\ req'[r].pc \in {"name", "insert", "read", "listKeys", "readKey", "createKey", "deactivate", "done"}
  BY <1>4 DEF HasRead
<1>5. CASE p = r /\ \/ \E op, n, arg, pc : pc \in {"name", "read", "createKey", "readKey"} /\ Begin(r, op, n, arg, pc)
                    \/ \E a : Answer(r, a)
                    \/ \E pc \in {"deactivate", "createKey"} : Go(r, pc)
  <2>1. CASE \E op, n, arg, pc : pc \in {"name", "read", "createKey", "readKey"} /\ Begin(r, op, n, arg, pc)
    <3>1. req'[r].pc \in {"name", "read", "createKey", "readKey"}
      BY <1>0, <2>1 DEF Begin, TypeOK, Request
    <3> QED
      BY <1>4, <1>5, <3>1
  <2>2. CASE \E a : Answer(r, a)
    <3>1. req'[r].pc = "done"
      BY <1>0, <2>2 DEF Answer, TypeOK, Request
    <3> QED
      BY <1>4, <1>5, <3>1
  <2>3. CASE \E pc \in {"deactivate", "createKey"} : Go(r, pc)
    <3>1. req'[r].pc \in {"deactivate", "createKey"}
      BY <1>0, <2>3 DEF Go, TypeOK, Request
    <3> QED
      BY <1>4, <1>5, <3>1
  <2> QED
    BY <1>5, <2>1, <2>2, <2>3
<1>6. CASE p = r /\ (AssignRole(r) \/ RemoveRole(r))
  <2>1. PICK op \in {"AssignRole", "RemoveRole"}, n \in Names, x \in Roles : WroteRole(r, op, n, x)
    BY <1>6 DEF AssignRole, RemoveRole
  <2>2. req'[r].pc = "done"
    BY <2>1, RoleKeeps
  <2> QED
    BY <1>4, <1>6, <2>2
<1>7. CASE p = r /\ (Insert(r) \/ Save(r) \/ CreateAPIKey(r) \/ Deactivate(r))
  <2>1. req'[r].pc \in {"deactivate", "done"}
    BY <1>7, WriteKeeps
  <2> QED
    BY <1>4, <1>7, <2>1
<1>8. CASE p = r /\ CheckName(r)
  <2>1. CASE Go(r, "email")
    <3>1. req'[r].op = "Register" /\ req'[r].pc = "email"
      BY <1>0, <1>8, <2>1 DEF CheckName, At, Go, TypeOK, Request
    <3> QED
      BY <1>8, <3>1 DEF HasRead
  <2> QED
    BY <1>5, <1>8, <2>1 DEF CheckName
<1>9. CASE p = r /\ (ReadProfile(r) \/ ReadStatus(r) \/ ReadForgot(r) \/ ReadReset(r) \/ ReadLogin(r))
  <2>1. (\E a : Answer(r, a)) \/ \E n \in Names, pc \in Steps : Load(r, n, pc)
    BY <1>0, <1>9 DEF ReadProfile, ReadStatus, ReadForgot, ReadReset, ReadLogin, AskedOf, Known, At, Steps
  <2> QED
    BY <1>3, <1>5, <1>9, <2>1
<1>10. CASE p = r /\ (PostRegister(r) \/ PostLogin(r) \/ PutProfile(r) \/ PutStatus(r) \/ PostForgot(r) \/ PostReset(r)
           \/ PostKey(r) \/ DeleteKey(r) \/ Regenerate(r))
  BY <1>5, <1>10 DEF PostRegister, PostLogin, PutProfile, PutStatus, PostForgot, PostReset, PostKey, DeleteKey, Regenerate
<1>11. CASE p = r /\ (ListKeys(r) \/ ReadKey(r))
  BY <1>5, <1>11 DEF ListKeys, ReadKey
<1>12. CASE p = r /\ Fail(r)
  <2>1. req'[r].pc = "done"
    BY <1>0, <1>12 DEF Fail, TypeOK, Request
  <2> QED
    BY <1>4, <1>12, <2>1
<1> QED
  BY <1>1, <1>2, <1>6, <1>7, <1>8, <1>9, <1>10, <1>11, <1>12 DEF Step

(* What is edited stays, and what is read afterwards has it. *)
LEMMA StepEdits ==
    ASSUME Invariant, NEW r \in Requests, Step(r)
    PROVE  EditsAreKept' /\ ReadIsKept'
<1>0. TypeOK /\ Asked /\ Dated /\ ErrorsTell /\ EditsAreKept /\ ReadIsKept
  BY DEF Invariant
<1>1. /\ TypeOK' /\ Dated' /\ Later(r)
      /\ \A q \in Requests \ {r} : req'[q] = req[q]
  BY <1>0, StepTypes, StepDated, StepDates, Becoming DEF TypeOK
<1>2. \A q \in Requests \ {r} : Sets(q)' = Sets(q)
  BY <1>1 DEF Sets
<1>3. now \in Nat /\ \A q \in Requests : /\ req[q].wrote \in Nat /\ req[q].read \in Nat /\ req'[q].wrote \in Nat
                                        /\ req[q].read =< now /\ req[q].wrote =< now
  BY <1>0, <1>1 DEF TypeOK, Dated, Request
<1>4. \A q \in Requests, p \in Requests \ {r} : \A c : Overwrites(q, p, c) => Overwrites(q, p, c)'
  BY <1>0, <1>1, LaterStays
<1>5. req[r].wrote > 0 => Sets(r) = {} /\ Sets(r)' = {}
  <2> SUFFICES ASSUME req[r].wrote > 0 PROVE Sets(r) = {} /\ Sets(r)' = {}
    OBVIOUS
  <2>1. req[r].op = "RegenerateAPIKey" /\ req'[r].op = "RegenerateAPIKey"
    BY <1>0, <1>1 DEF Dated, Later
  <2> QED
    BY <2>1 DEF Sets
<1>6. EditsAreKept'
  <2> SUFFICES ASSUME NEW p \in Requests, req'[p].wrote > 0, NEW s \in Sets(p)'
               PROVE  \/ user'[req'[p].name][s[1]] = s[2]
                      \/ \E q \in Requests : Overwrites(q, p, s[1])'
    BY DEF EditsAreKept
  <2>1. CASE p = r
    <3>0. AskedOf(req[r]) /\ req[r] \in Request
      BY <1>0 DEF Asked, TypeOK
    <3>1. CASE Insert(r)
      <4>1. /\ req'[r].name = req[r].name /\ req'[r].op = "Register" /\ req'[r].arg = req[r].arg
            /\ req[r].name \in Names
        BY <1>0, <3>0, <3>1, WriteKeeps DEF Insert, AskedOf, At
      <4>2. s \in {<<"email", req[r].arg>>, <<"active", TRUE>>, <<"password", r>>}
        BY <2>1, <4>1 DEF Sets
      <4>3. user'[req[r].name] = [email |-> req[r].arg, active |-> TRUE, display |-> r, password |-> r, token |-> None]
        BY <1>0, <3>1, <4>1 DEF Insert, TypeOK
      <4> QED
        <5>1. CASE s = <<"email", req[r].arg>>
          BY <2>1, <4>1, <4>3, <5>1
        <5>2. CASE s = <<"active", TRUE>>
          <6>1. s[1] = "active" /\ s[2] = TRUE
            BY <5>2
          <6>2. user'[req'[p].name]["active"] = TRUE
            BY <2>1, <4>1, <4>3
          <6> QED
            BY <6>1, <6>2
        <5>3. CASE s = <<"password", r>>
          BY <2>1, <4>1, <4>3, <5>3
        <5> QED
          BY <4>2, <5>1, <5>2, <5>3
    <3>2. CASE Save(r)
      <4>1. /\ req'[r].name = req[r].name /\ req'[r].op = req[r].op /\ req'[r].arg = req[r].arg
            /\ req[r].name \in Names
        BY <1>0, <3>0, <3>2, WriteKeeps DEF Save, AskedOf
      <4>2. s \in Sets(r)
        BY <2>1, <4>1 DEF Sets
      <4>3a. PICK c \in {"email", "active", "display", "password", "token"} : \E v : s = <<c, v>>
        BY <4>2, SetsColumns
      <4>3. PICK v : s = <<c, v>>
        BY <4>3a
      <4>4. user'[req[r].name] = Edited(r)
        BY <1>0, <3>2, <4>1 DEF Save, TypeOK
      <4>5. Edited(r)[c] = v
        BY <1>0, <3>2, <4>2, <4>3, EditedColumns DEF Save
      <4> QED
        BY <2>1, <4>1, <4>3, <4>4, <4>5
    <3>3. CASE now' # now /\ ~(Insert(r) \/ Save(r))
      <4>1. CreateAPIKey(r) \/ Deactivate(r) \/ AssignRole(r) \/ RemoveRole(r)
        BY <1>3, <3>3, WritesOfUsers
      <4>2. Sets(r)' = {}
        <5>1. CASE CreateAPIKey(r) \/ Deactivate(r)
          <6>1. req'[r].op \in {"CreateAPIKey", "RevokeAPIKey", "RegenerateAPIKey"}
            BY <1>0, <3>0, <5>1, WriteKeeps DEF CreateAPIKey, Deactivate, AskedOf
          <6> QED
            BY <6>1 DEF Sets
        <5>2. CASE AssignRole(r) \/ RemoveRole(r)
          <6>1. PICK op \in {"AssignRole", "RemoveRole"}, n \in Names, x \in Roles : WroteRole(r, op, n, x)
            BY <5>2 DEF AssignRole, RemoveRole
          <6>2. req'[r].op = op
            BY <1>0, <6>1, RoleKeeps
          <6> QED
            BY <6>2 DEF Sets
        <5> QED
          BY <4>1, <5>1, <5>2
      <4> QED
        BY <2>1, <4>2
    <3>4. CASE now' = now
      BY <1>1, <1>3, <1>5, <2>1, <3>4 DEF Later
    <3> QED
      BY <3>1, <3>2, <3>3, <3>4
  <2>2. CASE p # r
    <3>1. req'[p] = req[p] /\ s \in Sets(p) /\ req[p].name \in Known
      BY <1>0, <1>1, <1>2, <2>2 DEF Dated
    <3>2a. PICK c \in {"email", "active", "display", "password", "token"} : \E v : s = <<c, v>>
      BY <3>1, SetsColumns
    <3>2. PICK v : s = <<c, v>>
      BY <3>2a
    <3>3. CASE \E q \in Requests : Overwrites(q, p, c)
      BY <1>4, <2>2, <3>2, <3>3
    <3>4. CASE user[req[p].name][c] = v /\ user'[req[p].name] = user[req[p].name]
      BY <3>1, <3>2, <3>4
    <3>5. CASE /\ ~ \E q \in Requests : Overwrites(q, p, c)
               /\ user[req[p].name][c] = v /\ Save(r) /\ req[r].name = req[p].name
      <4>1. /\ req'[r].name = req[r].name /\ req'[r].wrote = now + 1 /\ req'[r].read = req[r].read
            /\ Sets(r)' = Sets(r)
        <5>1. /\ req'[r].name = req[r].name /\ req'[r].wrote = now + 1 /\ req'[r].read = req[r].read
              /\ req'[r].op = req[r].op /\ req'[r].arg = req[r].arg
          BY <1>0, <3>5, WriteKeeps
        <5> QED
          BY <5>1 DEF Sets
      <4>2. req'[r].wrote > req[p].wrote
        BY <1>3, <4>1
      <4>6. Sets(r) # {}
        <5>1. req[r].op \in Saving
          BY <1>0, <3>5 DEF Asked, AskedOf, Save
        <5> QED
          BY <5>1 DEF Sets, Saving
      <4>3. CASE \E w \in Setters \union Emails \union BOOLEAN : <<c, w>> \in Sets(r)
        BY <3>1, <3>2, <3>5, <4>1, <4>2, <4>3 DEF Overwrites
      <4>4. CASE req[r].read < req[p].wrote /\ Sets(r) # {}
        BY <3>1, <3>2, <3>5, <4>1, <4>2, <4>4 DEF Overwrites
      <4>5. CASE /\ ~ \E w \in Setters \union Emails \union BOOLEAN : <<c, w>> \in Sets(r)
                 /\ req[p].wrote =< req[r].read
        <5>1. req[r].row[c] = v
          BY <1>0, <2>2, <3>1, <3>2, <3>5, <4>5 DEF ReadIsKept, HasRead, Save
        <5>2. Edited(r)[c] = req[r].row[c]
          BY <1>0, <3>5, <4>5, EditedColumns DEF Save
        <5>3. user'[req[p].name] = Edited(r)
          BY <1>0, <3>1, <3>5 DEF Save, TypeOK, Known
        <5> QED
          BY <3>1, <3>2, <5>1, <5>2, <5>3
      <4> QED
        BY <1>3, <4>3, <4>4, <4>5, <4>6
    <3>6. user[req[p].name][c] = v \/ \E q \in Requests : Overwrites(q, p, c)
      BY <1>0, <3>1, <3>2 DEF EditsAreKept
    <3>7. user'[req[p].name] = user[req[p].name] \/ (Save(r) /\ req[r].name = req[p].name)
      BY <1>0, <3>1, WritesOfUsers DEF Insert, Save, TypeOK, Known, At
    <3> QED
      BY <3>3, <3>4, <3>5, <3>6, <3>7
  <2> QED
    BY <2>1, <2>2
<1>7. ReadIsKept'
  <2> SUFFICES ASSUME NEW p \in Requests, NEW w \in Requests, HasRead(p)',
                      0 < req'[w].wrote, req'[w].wrote =< req'[p].read,
                      req'[w].name = req'[p].name, NEW s \in Sets(w)'
               PROVE  \/ req'[p].row[s[1]] = s[2]
                      \/ \E q \in Requests : Overwrites(q, w, s[1])'
    BY DEF ReadIsKept
  <2>1. p # w
    BY <1>0, <1>1 DEF HasRead, Dated
  <2>2. CASE w = r
    <3>1. req'[p] = req[p]
      BY <1>1, <2>1, <2>2
    <3> QED
      BY <1>1, <1>3, <1>5, <2>2, <3>1 DEF Later
  <2>3. CASE w # r
    <3>1. req'[w] = req[w] /\ s \in Sets(w)
      BY <1>1, <1>2, <2>3
    <3>2. CASE HasRead(p) /\ req'[p].row = req[p].row /\ req'[p].read = req[p].read /\ req'[p].name = req[p].name
      <4>1. req[p].row[s[1]] = s[2] \/ \E q \in Requests : Overwrites(q, w, s[1])
        BY <1>0, <3>1, <3>2 DEF ReadIsKept
      <4> QED
        BY <1>4, <2>3, <3>2, <4>1
    <3>3. CASE \E n \in Names : req'[p].name = n /\ req'[p].row = user[n]
      <4>1. req'[p].row[s[1]] = s[2] \/ \E q \in Requests : Overwrites(q, w, s[1])
        BY <1>0, <3>1, <3>3 DEF EditsAreKept
      <4> QED
        BY <1>4, <2>3, <4>1
    <3> QED
      BY <1>0, <1>1, <3>2, <3>3, ReadsOfUsers
  <2> QED
    BY <2>2, <2>3
<1> QED
  BY <1>6, <1>7

(* The same of the roles that are taken away. *)
LEMMA StepRoles ==
    ASSUME Invariant, NEW r \in Requests, Step(r)
    PROVE  RolesStayRemoved' /\ ReadIsRevoked'
<1>0. TypeOK /\ Asked /\ Dated /\ ErrorsTell /\ RolesStayRemoved /\ ReadIsRevoked
  BY DEF Invariant
<1>1. /\ TypeOK' /\ Dated' /\ Later(r)
      /\ \A q \in Requests \ {r} : req'[q] = req[q]
  BY <1>0, StepTypes, StepDated, StepDates, Becoming DEF TypeOK
<1>2. now \in Nat /\ \A q \in Requests : /\ req[q].wrote \in Nat /\ req[q].read \in Nat /\ req'[q].wrote \in Nat
                                        /\ req[q].read =< now /\ req[q].wrote =< now
  BY <1>0, <1>1 DEF TypeOK, Dated, Request
<1>3. \A q \in Requests, p \in Requests \ {r} : Restores(q, p) => Restores(q, p)'
  BY <1>0, <1>1, LaterStays
<1>4. req'[r].op = "RemoveRole" => RemoveRole(r)
  BY <1>0, StepDates
<1>5. RolesStayRemoved'
  <2> SUFFICES ASSUME NEW p \in Requests, req'[p].op = "RemoveRole", <<req'[p].name, req'[p].arg>> \in roles'
               PROVE  \E q \in Requests : Restores(q, p)'
    BY DEF RolesStayRemoved
  <2>1. CASE p = r
    <3>1. PICK n \in Names, x \in Roles :
            /\ roles' = roles \ {<<n, x>>}
            /\ WroteRole(r, "RemoveRole", n, x)
      BY <1>4, <2>1 DEF RemoveRole
    <3>2. req'[r].name = n /\ req'[r].arg = x
      BY <1>0, <3>1, RoleKeeps
    <3> QED
      BY <2>1, <3>1, <3>2
  <2>2. CASE p # r
    <3>1. req'[p] = req[p]
      BY <1>1, <2>2
    <3>2. CASE <<req[p].name, req[p].arg>> \in roles
      BY <1>0, <1>3, <2>2, <3>1, <3>2 DEF RolesStayRemoved
    <3>3. CASE <<req[p].name, req[p].arg>> \notin roles /\ AssignRole(r)
      <4>1. PICK n \in Names, x \in Roles :
              /\ roles' = roles \union {<<n, x>>}
              /\ WroteRole(r, "AssignRole", n, x)
        BY <3>3 DEF AssignRole
      <4>2. req'[r].op = "AssignRole" /\ req'[r].name = n /\ req'[r].arg = x /\ req'[r].wrote = now + 1
        BY <1>0, <4>1, RoleKeeps
      <4>3. req[p].name = n /\ req[p].arg = x
        BY <3>1, <3>3, <4>1
      <4>4. req'[r].wrote > req'[p].wrote
        BY <1>2, <3>1, <4>2
      <4> QED
        BY <3>1, <4>2, <4>3, <4>4 DEF Restores
    <3>4. CASE <<req[p].name, req[p].arg>> \notin roles /\ Save(r)
      <4>1. req[p].name = req[r].name /\ req[p].arg \in req[r].roles
        BY <3>1, <3>4 DEF Save, SaveRoles
      <4>2. req'[r].name = req[r].name /\ req'[r].roles = req[r].roles /\ req'[r].read = req[r].read /\ req'[r].wrote = now + 1
        BY <1>0, <3>4, WriteKeeps
      <4>3. CASE req[r].read < req[p].wrote
        <5>1. req'[r].wrote > req'[p].wrote
          BY <1>2, <3>1, <4>2
        <5> QED
          BY <3>1, <4>1, <4>2, <4>3, <5>1 DEF Restores
      <4>4. CASE req[p].wrote =< req[r].read
        <5>1. 0 < req[p].wrote /\ HasRead(r)
          BY <1>0, <3>1, <3>4 DEF Dated, HasRead, Save
        <5>2. \E q \in Requests : Restores(q, p)
          BY <1>0, <3>1, <4>1, <4>4, <5>1 DEF ReadIsRevoked
        <5> QED
          BY <1>3, <2>2, <5>2
      <4> QED
        BY <1>2, <4>3, <4>4
    <3>5. CASE <<req[p].name, req[p].arg>> \notin roles /\ (RemoveRole(r) \/ UNCHANGED roles)
      <4>1. roles' \subseteq roles
        BY <3>5 DEF RemoveRole
      <4> QED
        BY <3>1, <3>5, <4>1
    <3> QED
      BY <1>2, <3>2, <3>3, <3>4, <3>5, WritesOfUsers
  <2> QED
    BY <2>1, <2>2
<1>6. ReadIsRevoked'
  <2> SUFFICES ASSUME NEW p \in Requests, NEW w \in Requests, HasRead(p)',
                      req'[w].op = "RemoveRole", 0 < req'[w].wrote, req'[w].wrote =< req'[p].read,
                      req'[w].name = req'[p].name, req'[w].arg \in req'[p].roles
               PROVE  \E q \in Requests : Restores(q, w)'
    BY DEF ReadIsRevoked
  <2>1. p # w
    BY <1>0, <1>1 DEF HasRead, Dated
  <2>2. CASE w = r
    <3>1. req'[p] = req[p]
      BY <1>1, <2>1, <2>2
    <3>2. req'[r].wrote = req[r].wrote
      BY <1>1, <1>2, <2>2, <3>1 DEF Later
    <3> QED
      BY <1>0, <1>1, <2>2, <3>2 DEF Later, Dated
  <2>3. CASE w # r
    <3>1. req'[w] = req[w]
      BY <1>1, <2>3
    <3>2. CASE /\ HasRead(p) /\ req'[p].read = req[p].read /\ req'[p].name = req[p].name
               /\ req'[p].roles = req[p].roles
      <4>1. \E q \in Requests : Restores(q, w)
        BY <1>0, <3>1, <3>2 DEF ReadIsRevoked
      <4> QED
        BY <1>3, <2>3, <4>1
    <3>3. CASE \E n \in Names : req'[p].name = n /\ req'[p].roles \subseteq RolesOf(n)
      <4>1. <<req[w].name, req[w].arg>> \in roles
        BY <3>1, <3>3 DEF RolesOf
      <4>2. \E q \in Requests : Restores(q, w)
        BY <1>0, <3>1, <4>1 DEF RolesStayRemoved
      <4> QED
        BY <1>3, <2>3, <4>2
    <3> QED
      BY <1>0, <3>2, <3>3, ReadsOfUsers
  <2> QED
    BY <2>2, <2>3
<1> QED
  BY <1>5, <1>6

-----------------------------------------------------------------------------
(* A step leaves every key its label, and none that is inactive becomes active; the one new key *)
(* is labelled after its request.                                                               *)
LEMMA KeysGrow ==
    ASSUME TypeOK, Asked, NEW r \in Requests, Step(r)
    PROVE  /\ \A k \in Issued : /\ k \in Issued' /\ key'[k].label = key[k].label
                                /\ ~key[k].active => ~key'[k].active
           /\ Issued' = Issued \/ \E k \in Issued' \ Issued : Issued' = Issued \union {k} /\ key'[k].label = r
           /\ Issued' # Issued <=> CreateAPIKey(r)
           /\ Deactivate(r) => ~key'[req[r].arg].active
<1> USE DEF TypeOK
<1>1. /\ Issued \subseteq Issued'
      /\ \A k \in Issued : key[k] \in APIKey
      /\ now \in Nat
  BY TablesGrow DEF Issued
<1>2. CASE Save(r)
  <2>1. \A k \in Keys : key'[k] = IF k \in req[r].keys THEN [key[k] EXCEPT !.owner = req[r].name] ELSE key[k]
    BY <1>2 DEF Save, SaveKeys
  <2>2. req[r].keys \subseteq Issued
    BY DEF Asked, AskedOf
  <2>3. \A k \in Issued : key'[k].label = key[k].label /\ key'[k].active = key[k].active
    BY <1>1, <2>1 DEF Issued, APIKey
  <2>4. Issued' = Issued
    BY <1>1, <2>1, <2>2 DEF Issued
  <2>5. ~CreateAPIKey(r) /\ ~Deactivate(r)
    BY <1>2 DEF Save, CreateAPIKey, Deactivate
  <2> QED
    BY <2>3, <2>4, <2>5
<1>3. CASE CreateAPIKey(r)
  <2>1. PICK k \in Keys \ Issued : key' = [key EXCEPT ![k] = [owner |-> req[r].name, label |-> r, active |-> TRUE]]
    BY <1>3 DEF CreateAPIKey
  <2>2. [owner |-> req[r].name, label |-> r, active |-> TRUE] # None
    <3>1. [owner |-> req[r].name, label |-> r, active |-> TRUE] \in APIKey
      BY <1>3 DEF CreateAPIKey, Asked, AskedOf, APIKey, Setters
    <3> QED
      BY <3>1, NoneIsNoRow
  <2>3. Issued' = Issued \union {k} /\ key'[k].label = r
    BY <2>1, <2>2 DEF Issued
  <2>4. \A j \in Issued : key'[j] = key[j]
    BY <2>1 DEF Issued
  <2>5. ~Deactivate(r)
    BY <1>3 DEF CreateAPIKey, Deactivate
  <2> QED
    BY <1>3, <2>3, <2>4, <2>5
<1>4. CASE Deactivate(r)
  <2>1. req[r].arg \in Issued
    BY <1>4 DEF Deactivate, Asked, AskedOf
  <2>2. key' = [key EXCEPT ![req[r].arg].active = FALSE]
    BY <1>4 DEF Deactivate
  <2>3. \A k \in Issued : key'[k].label = key[k].label /\ (key'[k].active = key[k].active \/ ~key'[k].active)
    BY <1>1, <2>1, <2>2 DEF Issued, APIKey
  <2>4. ~key'[req[r].arg].active
    BY <1>1, <2>1, <2>2 DEF Issued, APIKey
  <2>5. Issued' = Issued
    BY <1>1, <2>1, <2>2 DEF Issued
  <2>6. ~CreateAPIKey(r)
    BY <1>4 DEF CreateAPIKey, Deactivate
  <2> QED
    BY <1>1, <2>3, <2>4, <2>5, <2>6
<1>5. CASE UNCHANGED key /\ ~CreateAPIKey(r) /\ ~Deactivate(r)
  BY <1>5 DEF Issued
<1> QED
  BY <1>1, <1>2, <1>3, <1>4, <1>5, WritesOfUsers

(* Who is told that its call on keys was done has come to the end of it. *)
LEMMA KeyEnds ==
    ASSUME TypeOK, Asked, Dated, NEW r \in Requests, Step(r),
           req'[r].op \in {"CreateAPIKey", "RevokeAPIKey", "RegenerateAPIKey"},
           req'[r].answer \in {"ok", "created"}
    PROVE  /\ req'[r].op = req[r].op /\ req'[r].arg = req[r].arg
           /\ \/ CreateAPIKey(r) /\ req[r].op = "CreateAPIKey"
              \/ Deactivate(r) /\ (req[r].op = "RevokeAPIKey" \/ req[r].op = "RegenerateAPIKey")
              \/ /\ Fail(r) /\ req[r].op = "RegenerateAPIKey" /\ req[r].pc = "deactivate"
                 /\ req'[r].fault = "failed"
<1>0. AskedOf(req[r]) /\ req[r] \in Request /\ (req[r].pc # "done" => req[r].answer = None)
  BY DEF Asked, Dated, TypeOK
<1>1. None \notin {"ok", "created"}
  BY NoneIsNoRow
<1>2. CASE \E op, n, arg, pc : Begin(r, op, n, arg, pc)
  <2>1. req[r] = New
    BY <1>0, <1>2 DEF Begin, AskedOf
  <2>2. req'[r].answer = None
    BY <1>0, <1>2, <2>1 DEF Begin, New, TypeOK, Request
  <2> QED
    BY <1>1, <2>2
<1>3. CASE req[r].op \notin {"CreateAPIKey", "RevokeAPIKey", "RegenerateAPIKey"} /\ req'[r].op = req[r].op
  BY <1>3
<1>4. CASE CheckName(r) \/ CheckEmail(r) \/ ListKeys(r) \/ ReadProfile(r) \/ ReadStatus(r) \/ ReadForgot(r)
           \/ ReadReset(r) \/ ReadLogin(r)
  <2>1. (\E a : Answer(r, a)) \/ (\E pc : Go(r, pc)) \/ \E n, pc : Load(r, n, pc)
    BY <1>4 DEF CheckName, CheckEmail, ListKeys, ReadProfile, ReadStatus, ReadForgot, ReadReset, ReadLogin
  <2>2. req'[r].op = req[r].op
    <3>1. ASSUME NEW a, Answer(r, a) PROVE req'[r].op = req[r].op
      BY <1>0, <3>1 DEF Answer, TypeOK, Request
    <3>2. ASSUME NEW pc, Go(r, pc) PROVE req'[r].op = req[r].op
      BY <1>0, <3>2 DEF Go, TypeOK, Request
    <3>3. ASSUME NEW n, NEW pc, Load(r, n, pc) PROVE req'[r].op = req[r].op
      BY <1>0, <3>3 DEF Load, TypeOK, Request
    <3> QED
      BY <2>1, <3>1, <3>2, <3>3
  <2>3. req[r].op \in {"Register", "UpdateProfile", "SetUserStatus", "ForgotPassword", "ResetPassword", "Login"}
    BY <1>0, <1>4 DEF CheckName, CheckEmail, ListKeys, ReadProfile, ReadStatus, ReadForgot, ReadReset, ReadLogin,
       At, AskedOf
  <2> QED
    BY <1>3, <2>2, <2>3
<1>5. CASE Insert(r) \/ Save(r)
  <2>1. req[r].op \in {"Register"} \union Saving /\ req'[r].op = req[r].op
    BY <1>0, <1>5, WriteKeeps DEF Insert, Save, At, AskedOf
  <2> QED
    BY <1>3, <2>1 DEF Saving
<1>6. CASE AssignRole(r) \/ RemoveRole(r)
  <2>1. PICK op \in {"AssignRole", "RemoveRole"}, n \in Names, x \in Roles : WroteRole(r, op, n, x)
    BY <1>6 DEF AssignRole, RemoveRole
  <2> QED
    BY <2>1, RoleKeeps
<1>7. CASE ReadKey(r)
  <2>1. Answer(r, "error") \/ \E pc : Go(r, pc)
    BY <1>7 DEF ReadKey
  <2>2. req'[r].answer \in {"error", None}
    BY <1>0, <1>7, <2>1 DEF ReadKey, Answer, Go, TypeOK, Request
  <2> QED
    BY <1>1, <2>2
<1>8. CASE CreateAPIKey(r)
  <2>1. req'[r].op = req[r].op /\ req'[r].arg = req[r].arg
    BY <1>8, WriteKeeps
  <2>2. CASE req[r].op = "RegenerateAPIKey" /\ Lost(r)
    <3>1. Failure(r) = "error"
      BY <1>8, <2>2 DEF CreateAPIKey, Failure
    <3>2. req'[r].answer = "error"
      BY <1>0, <2>2, <3>1 DEF Lost, Ended, TypeOK, Request
    <3> QED
      BY <3>2
  <2>3. CASE req' = [req EXCEPT ![r].pc = "deactivate", ![r].wrote = now + 1]
    <3>1. req'[r].answer = None
      BY <1>0, <1>8, <2>3 DEF CreateAPIKey, TypeOK, Request
    <3> QED
      BY <1>1, <3>1
  <2> QED
    BY <1>8, <2>1, <2>2, <2>3 DEF CreateAPIKey
<1>9. CASE Deactivate(r)
  BY <1>0, <1>9, WriteKeeps DEF Deactivate, AskedOf
<1>10. CASE Fail(r)
  <2>1. /\ req'[r].op = req[r].op /\ req'[r].arg = req[r].arg
        /\ req'[r].answer = Failure(r) /\ req'[r].fault = "failed"
    BY <1>0, <1>10 DEF Fail, TypeOK, Request
  <2>2. req[r].op = "RegenerateAPIKey" /\ req[r].pc = "deactivate"
    BY <2>1 DEF Failure
  <2> QED
    BY <1>10, <2>1, <2>2
<1> QED
  BY <1>2, <1>4, <1>5, <1>6, <1>7, <1>8, <1>9, <1>10
     DEF Step, PostRegister, PostLogin, PutProfile, PutStatus, PostForgot, PostReset, PostKey, DeleteKey, Regenerate

(* What callers are told of their keys stays so. *)
LEMMA StepKeys ==
    ASSUME Invariant, NEW r \in Requests, Step(r)
    PROVE  KeysTell'
<1>0. TypeOK /\ Asked /\ Dated /\ ErrorsTell /\ KeysTell
  BY DEF Invariant
<1>1. /\ TypeOK' /\ Later(r)
      /\ \A q \in Requests \ {r} : req'[q] = req[q]
      /\ req[r].wrote \in Nat /\ now \in Nat
  BY <1>0, StepTypes, StepDates, Becoming DEF TypeOK, Request
<1>2. \A k : Revoked(k) => Revoked(k)'
  BY <1>0, KeysGrow DEF Revoked
<1>3. ASSUME NEW p \in Requests, ~CreateAPIKey(r) \/ p # r
      PROVE  Made(p)' = Made(p)
  <2>1. CASE Issued' = Issued
    BY <1>0, <2>1, KeysGrow DEF Made
  <2>2. CASE Issued' # Issued
    BY <1>0, <1>3, <2>2, KeysGrow DEF Made
  <2> QED
    BY <2>1, <2>2
<1>4. CreateAPIKey(r) => Made(r)' # {}
  BY <1>0, KeysGrow DEF Made
<1>5. CreateAPIKey(r) => req'[r].wrote > 0
  BY <1>0, <1>1, WriteKeeps
<1>6. SUFFICES ASSUME NEW p \in Requests
               PROVE  /\ req'[p].op = "RevokeAPIKey" /\ req'[p].answer = "ok" => Revoked(req[p].arg)' /\ req'[p].arg = req[p].arg
                      /\ Made(p)' # {} => req'[p].wrote > 0
                      /\ req'[p].op \in {"CreateAPIKey", "RegenerateAPIKey"} =>
                            /\ req'[p].wrote > 0 => Made(p)' # {}
                            /\ req'[p].answer = "created" => req'[p].wrote > 0
                      /\ req'[p].op = "RegenerateAPIKey" /\ req'[p].answer = "created" =>
                            (Revoked(req[p].arg)' /\ req'[p].arg = req[p].arg) \/ req'[p].fault = "failed"
  BY DEF KeysTell, Revoked
<1>7. CASE p # r
  <2>1. req'[p] = req[p] /\ Made(p)' = Made(p)
    BY <1>1, <1>3, <1>7
  <2> QED
    BY <1>0, <1>2, <2>1 DEF KeysTell
<1>8. CASE p = r
  <2>1. req[r].wrote > 0 => req'[r].wrote > 0 /\ req'[r].op = req[r].op
    BY <1>1 DEF Later
  <2>2. Made(r)' # {} => req'[r].wrote > 0
    BY <1>0, <1>3, <1>5, <2>1 DEF KeysTell
  <2>3. ASSUME req'[r].op \in {"CreateAPIKey", "RegenerateAPIKey"}, req'[r].wrote > 0
        PROVE  Made(r)' # {}
    <3>1. CASE CreateAPIKey(r)
      BY <1>4, <3>1
    <3>2. CASE req[r].wrote > 0 /\ ~CreateAPIKey(r)
      BY <1>0, <1>3, <2>1, <2>3, <3>2 DEF KeysTell
    <3>3. CASE req[r].wrote = 0 /\ ~CreateAPIKey(r)
      <4>1. now' # now
        BY <1>1, <2>3, <3>3 DEF Later
      <4>2. CASE Insert(r) \/ Save(r)
        BY <1>0, <2>3, <4>2, WriteKeeps DEF Insert, Save, At, Asked, AskedOf, Saving
      <4>3. CASE Deactivate(r)
        <5>1. req[r].op = "RegenerateAPIKey" /\ req[r].pc = "deactivate"
          BY <1>0, <2>3, <4>3, WriteKeeps DEF Deactivate, Asked, AskedOf
        <5> QED
          BY <1>0, <3>3, <5>1 DEF Dated
      <4>4. CASE AssignRole(r) \/ RemoveRole(r)
        <5>1. PICK op \in {"AssignRole", "RemoveRole"}, n \in Names, x \in Roles : WroteRole(r, op, n, x)
          BY <4>4 DEF AssignRole, RemoveRole
        <5> QED
          BY <1>0, <2>3, <5>1, RoleKeeps
      <4> QED
        BY <1>1, <3>3, <4>1, <4>2, <4>3, <4>4, WritesOfUsers
    <3> QED
      BY <1>1, <3>1, <3>2, <3>3
  <2>4. ASSUME req'[r].op \in {"CreateAPIKey", "RevokeAPIKey", "RegenerateAPIKey"}, req'[r].answer \in {"ok", "created"}
        PROVE  /\ req'[r].op = req[r].op /\ req'[r].arg = req[r].arg
               /\ req'[r].op \in {"CreateAPIKey", "RegenerateAPIKey"} => req'[r].wrote > 0
               /\ \/ req'[r].op = "CreateAPIKey"
                  \/ Revoked(req[r].arg)'
                  \/ req'[r].op = "RegenerateAPIKey" /\ req'[r].fault = "failed"
    <3>1. /\ req'[r].op = req[r].op /\ req'[r].arg = req[r].arg
          /\ \/ CreateAPIKey(r) /\ req[r].op = "CreateAPIKey"
             \/ Deactivate(r) /\ (req[r].op = "RevokeAPIKey" \/ req[r].op = "RegenerateAPIKey")
             \/ /\ Fail(r) /\ req[r].op = "RegenerateAPIKey" /\ req[r].pc = "deactivate"
                /\ req'[r].fault = "failed"
      BY <1>0, <2>4, KeyEnds
    <3>2. CASE CreateAPIKey(r) /\ req[r].op = "CreateAPIKey"
      BY <1>5, <3>1, <3>2
    <3>3. CASE Deactivate(r)
      <4>1. req[r].arg \in Issued /\ req'[r].wrote = now + 1
        BY <1>0, <3>3, WriteKeeps DEF Deactivate, Asked, AskedOf
      <4>2. Revoked(req[r].arg)'
        <5>1. ~key'[req[r].arg].active /\ req[r].arg \in Issued'
          BY <1>0, <3>3, <4>1, KeysGrow
        <5> QED
          BY <3>1, <5>1 DEF Revoked
      <4> QED
        BY <1>1, <3>1, <4>1, <4>2
    <3>4. CASE Fail(r) /\ req[r].op = "RegenerateAPIKey" /\ req[r].pc = "deactivate" /\ req'[r].fault = "failed"
      BY <1>0, <2>1, <3>1, <3>4 DEF Dated
    <3> QED
      BY <3>1, <3>2, <3>3, <3>4
  <2> QED
    BY <1>8, <2>2, <2>3, <2>4
<1> QED
  BY <1>7, <1>8

-----------------------------------------------------------------------------
(* Every step keeps the invariant. *)
LEMMA NextHolds == Invariant /\ [Next]_vars => Invariant'
<1> SUFFICES ASSUME Invariant, [Next]_vars PROVE Invariant'
  OBVIOUS
<1>1. CASE \E r \in Requests : Step(r)
  <2>1. PICK r \in Requests : Step(r)
    BY <1>1
  <2> QED
    BY <2>1, StepTypes, StepAsked, StepDated, StepKeys, StepEdits, StepRoles DEF Invariant
<1>2. CASE UNCHANGED vars
  <2> USE <1>2 DEF vars, Invariant
  <2>1. TypeOK'
    BY DEF TypeOK
  <2>2. Asked'
    BY DEF Asked, AskedOf, Known, Issued
  <2>3. \A r : Sets(r)' = Sets(r)
    BY DEF Sets
  <2>4. Dated' /\ ErrorsTell'
    BY <2>3 DEF Dated, Known, ErrorsTell
  <2>5. EditsAreKept' /\ ReadIsKept'
    BY <2>3 DEF EditsAreKept, ReadIsKept, HasRead, Overwrites
  <2>6. RolesStayRemoved' /\ ReadIsRevoked'
    BY DEF RolesStayRemoved, ReadIsRevoked, HasRead, Restores
  <2>7. KeysTell'
    BY DEF KeysTell, Made, Revoked, Issued
  <2> QED
    BY <2>1, <2>2, <2>4, <2>5, <2>6, <2>7
<1> QED
  BY <1>1, <1>2 DEF Next, Finished

(* The invariant of every behaviour. *)
THEOREM Invariance == Spec => []Invariant
  BY InitHolds, NextHolds, PTL DEF Spec

(* Tables and requests stay of their types. *)
THEOREM TypeCorrect == Spec => []TypeOK
<1>1. Invariant => TypeOK
  BY DEF Invariant
<1> QED
  BY <1>1, Invariance, PTL

(* What a request was asked to set stays set in the user's row, unless a later request set *)
(* that column too or had read the row before: users, saved whole by Save, lose only the   *)
(* edits that overlap (storage/user_repository.go:258-261).                                *)
THEOREM EditsKept == Spec => []EditsAreKept
<1>1. Invariant => EditsAreKept
  BY DEF Invariant
<1> QED
  BY <1>1, Invariance, PTL

(* What a caller is told of its request is so, and stays so: an error only of a request that has *)
(* changed nothing or does not know that it has; a new key, or a key taken out of use, only of    *)
(* one that has, and of two keys that work after a regeneration only if the last statement of it  *)
(* failed (auth/apikey.go:163-215).                                                               *)
THEOREM AnswersTold == Spec => []AnswersTell
<1>1. Invariant => AnswersTell
  BY DEF Invariant, AnswersTell
<1> QED
  BY <1>1, Invariance, PTL

(* A step never makes a revoked key active. *)
LEMMA KeysStep == Invariant /\ [Next]_vars => KeysStayRevoked \/ UNCHANGED vars
<1> SUFFICES ASSUME Invariant, NEW r \in Requests, Step(r), NEW k \in Issued, ~key[k].active
             PROVE  key'[k] # None /\ ~key'[k].active
  BY DEF KeysStayRevoked, Next, Finished
<1> QED
  BY KeysGrow DEF Invariant, Issued

(* A role or a key that was taken away stays away, whatever rows are saved with it. *)
THEOREM RevokedStay == Spec => RevokedStaysRevoked
<1>1. Invariant' => RolesStayRemoved'
  BY DEF Invariant
<1>2. Invariant /\ Invariant' /\ [Next]_vars => [RolesStayRemoved' /\ KeysStayRevoked]_vars
  BY <1>1, KeysStep
<1> QED
  BY <1>2, Invariance, PTL DEF Spec, RevokedStaysRevoked
=============================================================================
