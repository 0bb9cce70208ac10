------------------------------ MODULE Accounts ------------------------------
(***************************************************************************)
(* Users, their roles and their API keys: internal/user, auth/apikey.go    *)
(* and storage/user_repository.go.  Each statement sent to the database is *)
(* one action, and none is in a transaction with another: a request reads  *)
(* a row, edits it and saves it whole.                                     *)
(*                                                                         *)
(* A row of users is named by its user name, which is unique and never     *)
(* changes.  A password, a display name and a reset token are the request  *)
(* that set them.  now counts the writes; a request remembers its value    *)
(* when it read and when it wrote, for the properties only.                *)
(***************************************************************************)
EXTENDS Naturals, FiniteSets

CONSTANTS Requests, \* bound: each makes one call
          Names,    \* user names
          Emails,
          Roles,
          Keys,     \* API keys
          None

ASSUME AccountsAssumption == /\ IsFiniteSet(Requests)
                             /\ None \notin Requests \union Names \union Emails \union Roles \union Keys

VARIABLES user,  \* table users
          roles, \* table user_roles
          key,   \* table api_keys
          req,   \* the requests
          now

vars == <<user, roles, key, req, now>>

Setters == Requests \union {None}
Row == [email : Emails, active : BOOLEAN, display : Setters, password : Setters, token : Setters]
APIKey == [owner : Names, label : Setters, active : BOOLEAN]
Ops == {"Register", "UpdateProfile", "SetUserStatus", "ForgotPassword", "ResetPassword",
        "AssignRole", "RemoveRole", "Login", "CreateAPIKey", "RevokeAPIKey", "RegenerateAPIKey"}
\* Where there is no row, nothing was asked yet or nothing is answered, there is None.
ASSUME NoneIsNoRow == None \notin Row \union APIKey \union Ops \union {"ok", "created", "error"}

Args == Emails \union BOOLEAN \union Requests \union Roles \union Keys \union {None}
Steps == {"new", "name", "email", "insert", "read", "listKeys", "save", "readKey", "createKey", "deactivate", "done"}
Answers == {"created", "ok", "conflict", "invalid", "inactive", "missing", "error", None}

\* What a request knows: row, roles and keys are what it read of the user.  For the properties
\* only: when it read and wrote last, and what became of the statement that it thinks failed.
Request == [op : Ops \union {None}, name : Names \union {None}, arg : Args, pc : Steps,
            row : Row \union {None}, roles : SUBSET Roles, keys : SUBSET Keys,
            read : Nat, wrote : Nat, answer : Answers, fault : {None, "failed", "lost"}]

TypeOK == /\ user \in [Names -> Row \union {None}]
          /\ roles \subseteq Names \X Roles
          /\ key \in [Keys -> APIKey \union {None}]
          /\ req \in [Requests -> Request]
          /\ now \in Nat

Known == {n \in Names : user[n] # None}
Issued == {k \in Keys : key[k] # None}
RolesOf(n) == {x \in Roles : <<n, x>> \in roles}
KeysOf(n) == {k \in Issued : key[k].owner = n}

New == [op |-> None, name |-> None, arg |-> None, pc |-> "new", row |-> None, roles |-> {},
        keys |-> {}, read |-> 0, wrote |-> 0, answer |-> None, fault |-> None]

\* One user is there already, with a key and every role.
Init == \E n \in Names, k \in Keys, e \in Emails :
            /\ user = [m \in Names |-> IF m # n THEN None
                         ELSE [email |-> e, active |-> TRUE, display |-> None, password |-> None, token |-> None]]
            /\ roles = {n} \X Roles
            /\ key = [j \in Keys |-> IF j = k THEN [owner |-> n, label |-> None, active |-> TRUE] ELSE None]
            /\ req = [r \in Requests |-> New]
            /\ now = 0

At(r, pc, op) == req[r].pc = pc /\ req[r].op = op
Answer(r, a) == req' = [req EXCEPT ![r].pc = "done", ![r].answer = a]

\* What a request answers when a statement fails.
Failure(r) == CASE req[r].op = "ForgotPassword" -> "ok"
                [] req[r].op = "ResetPassword" /\ req[r].pc = "read" -> "invalid"
                [] req[r].op = "RegenerateAPIKey" /\ req[r].pc = "deactivate" -> "created"
                [] OTHER -> "error"

\* A write is committed, and the request ends; or the database's answer to it is lost, and
\* the request ends as if it had failed.
Ended(r, a, fault) ==
    /\ req' = [req EXCEPT ![r].pc = "done", ![r].answer = a, ![r].fault = fault, ![r].wrote = now + 1]
    /\ now' = now + 1
Lost(r) == Ended(r, Failure(r), "lost")
Wrote(r, a) == Ended(r, a, None) \/ Lost(r)

Go(r, pc) == req' = [req EXCEPT ![r].pc = pc]
Begin(r, op, n, arg, pc) ==
    /\ req[r].pc = "new"
    /\ req' = [req EXCEPT ![r].op = op, ![r].name = n, ![r].arg = arg, ![r].pc = pc]
    /\ UNCHANGED <<user, roles, key, now>>

-----------------------------------------------------------------------------
\* A valid access token, or a key, names a user: the user's own row is not looked at.
Authenticated(n) == n \in Known

\* The endpoints.  A request that does not parse, or is not authenticated, ends before this.
PostRegister(r) == \E n \in Names, e \in Emails : Begin(r, "Register", n, e, "name")

PostLogin(r) == \E n \in Names : Begin(r, "Login", n, None, "read")

\* e = None changes the display name.
PutProfile(r) == \E n \in Names, e \in Emails \union {None} :
                     Authenticated(n) /\ Begin(r, "UpdateProfile", n, e, "read")

PutStatus(r) == \E n \in Names, active \in BOOLEAN : Begin(r, "SetUserStatus", n, active, "read")

PostForgot(r) == \E e \in Emails : Begin(r, "ForgotPassword", None, e, "read")

PostReset(r) == \E t \in Requests : Begin(r, "ResetPassword", None, t, "read")

PostKey(r) == \E n \in Names : Authenticated(n) /\ Begin(r, "CreateAPIKey", n, None, "createKey")

DeleteKey(r) == \E n \in Names, k \in Keys : Authenticated(n) /\ Begin(r, "RevokeAPIKey", n, k, "readKey")

\* The service has this operation, no endpoint calls it.
Regenerate(r) == \E n \in Known, k \in Keys : Begin(r, "RegenerateAPIKey", n, k, "readKey")

-----------------------------------------------------------------------------
EmailTaken(e, n) == \E m \in Known \ {n} : user[m].email = e

\* Registration checks the name, then the email, then inserts.
CheckName(r) ==
    /\ At(r, "name", "Register")
    /\ IF req[r].name \in Known THEN Answer(r, "conflict") ELSE Go(r, "email")
    /\ UNCHANGED <<user, roles, key, now>>

CheckEmail(r) ==
    /\ req[r].pc = "email"
    /\ IF EmailTaken(req[r].arg, None) THEN Answer(r, "conflict")
       ELSE Go(r, IF req[r].op = "Register" THEN "insert" ELSE "save")
    /\ UNCHANGED <<user, roles, key, now>>

\* The unique indices refuse what the checks let through.
Insert(r) ==
    /\ At(r, "insert", "Register")
    /\ req[r].name \notin Known
    /\ ~EmailTaken(req[r].arg, None)
    /\ user' = [user EXCEPT ![req[r].name] =
                    [email |-> req[r].arg, active |-> TRUE, display |-> r, password |-> r, token |-> None]]
    /\ Wrote(r, "created")
    /\ UNCHANGED <<roles, key>>

\* The roles are read without the condition on the user.
LoadedAllRoles(op, n) == Roles

\* Of GetByID, GetByEmail and GetByPasswordResetToken the first alone loads the keys, and
\* the last does not load the roles.
LoadedRoles(op, n) == IF op = "ResetPassword" THEN {} ELSE RolesOf(n)
LoadedKeys(op, n) == IF op \in {"ForgotPassword", "ResetPassword"} THEN {} ELSE KeysOf(n)

Load(r, n, pc) ==
    req' = [req EXCEPT ![r].name = n, ![r].pc = pc, ![r].row = user[n], ![r].read = now,
                       ![r].roles = LoadedRoles(req[r].op, n), ![r].keys = LoadedKeys(req[r].op, n)]

ReadProfile(r) ==
    /\ At(r, "read", "UpdateProfile")
    /\ Load(r, req[r].name, IF req[r].arg \in {None, user[req[r].name].email} THEN "save" ELSE "email")
    /\ UNCHANGED <<user, roles, key, now>>

ReadStatus(r) ==
    /\ At(r, "read", "SetUserStatus")
    /\ IF req[r].name \in Known THEN Load(r, req[r].name, "save") ELSE Answer(r, "missing")
    /\ UNCHANGED <<user, roles, key, now>>

\* Whether there is such a user is not told.
ReadForgot(r) ==
    /\ At(r, "read", "ForgotPassword")
    /\ LET asked == {n \in Known : user[n].email = req[r].arg /\ user[n].active}
       IN  IF asked = {} THEN Answer(r, "ok") ELSE \E n \in asked : Load(r, n, "save")
    /\ UNCHANGED <<user, roles, key, now>>

\* A token that is known may have expired.
ReadReset(r) ==
    /\ At(r, "read", "ResetPassword")
    /\ \/ Answer(r, "invalid")
       \/ \E n \in Known : user[n].token = req[r].arg /\ Load(r, n, "save")
    /\ UNCHANGED <<user, roles, key, now>>

\* A display name that is not given is cleared.
EditedAll(r) ==
    LET row == req[r].row arg == req[r].arg
    IN  CASE req[r].op = "UpdateProfile" -> [row EXCEPT !.display = IF arg = None THEN r ELSE None,
                                                        !.email = IF arg = None THEN @ ELSE arg]
          [] req[r].op = "SetUserStatus" -> [row EXCEPT !.active = arg]
          [] req[r].op = "ForgotPassword" -> [row EXCEPT !.token = r]
          [] OTHER -> [row EXCEPT !.password = r, !.token = None]

\* The columns that an operation edits.
Edited(r) ==
    LET row == req[r].row arg == req[r].arg
    IN  CASE req[r].op = "UpdateProfile" -> IF arg = None THEN [row EXCEPT !.display = r] ELSE [row EXCEPT !.email = arg]
          [] req[r].op = "SetUserStatus" -> [row EXCEPT !.active = arg]
          [] req[r].op = "ForgotPassword" -> [row EXCEPT !.token = r]
          [] OTHER -> [row EXCEPT !.password = r, !.token = None]

\* gorm's Save also inserts what was loaded with the row: of a key it sets the foreign key
\* only; rows of user_roles that are missing appear again.
SaveKeys(n, ks) == [k \in Keys |-> IF k \in ks THEN [key[k] EXCEPT !.owner = n] ELSE key[k]]
SaveRoles(n, xs) == roles \union ({n} \X xs)

Save(r) ==
    /\ req[r].pc = "save"
    /\ LET n == req[r].name IN
       /\ ~EmailTaken(Edited(r).email, n)
       /\ user' = [user EXCEPT ![n] = Edited(r)]
       /\ roles' = SaveRoles(n, req[r].roles)
       /\ key' = SaveKeys(n, req[r].keys)
    /\ Wrote(r, "ok")

\* AssignRole and RemoveRole are one statement each; the primary key refuses a second row.
WroteRole(r, op, n, x) ==
    /\ \E end \in {<<"ok", None>>, <<"error", "lost">>} :
           req' = [req EXCEPT ![r] = [New EXCEPT !.op = op, !.name = n, !.arg = x, !.pc = "done",
                                                 !.wrote = now + 1, !.answer = end[1], !.fault = end[2]]]
    /\ now' = now + 1

AssignRole(r) ==
    /\ req[r].pc = "new"
    /\ \E n \in Names, x \in Roles :
           /\ <<n, x>> \notin roles
           /\ roles' = roles \union {<<n, x>>}
           /\ WroteRole(r, "AssignRole", n, x)
    /\ UNCHANGED <<user, key>>

RemoveRole(r) ==
    /\ req[r].pc = "new"
    /\ \E n \in Names, x \in Roles :
           /\ roles' = roles \ {<<n, x>>}
           /\ WroteRole(r, "RemoveRole", n, x)
    /\ UNCHANGED <<user, key>>

\* The password is compared with the hash that was read.
ReadLogin(r) ==
    /\ At(r, "read", "Login")
    /\ LET n == req[r].name IN
       IF n \notin Known THEN Answer(r, "invalid")
       ELSE IF ~user[n].active THEN Answer(r, "inactive")
       ELSE Answer(r, "invalid") \/ Load(r, n, "listKeys")
    /\ UNCHANGED <<user, roles, key, now>>

\* An active key is shown with the tokens; a failure here is not told.
ListKeys(r) ==
    /\ req[r].pc = "listKeys"
    /\ Answer(r, "ok")
    /\ UNCHANGED <<user, roles, key, now>>

-----------------------------------------------------------------------------
\* The old key is deactivated before the new one is made.
ReadKeyToDeactivate(r) ==
    /\ req[r].pc = "readKey"
    /\ IF req[r].arg \in KeysOf(req[r].name)
       THEN /\ key' = [key EXCEPT ![req[r].arg].active = FALSE]
            /\ now' = now + 1
            /\ req' = [req EXCEPT ![r].pc = "createKey", ![r].wrote = now + 1]
       ELSE Answer(r, "error") /\ UNCHANGED <<key, now>>
    /\ UNCHANGED <<user, roles>>

\* A key must be there and belong to the user.
ReadKey(r) ==
    /\ req[r].pc = "readKey"
    /\ IF req[r].arg \in KeysOf(req[r].name)
       THEN Go(r, IF req[r].op = "RevokeAPIKey" THEN "deactivate" ELSE "createKey")
       ELSE Answer(r, "error")
    /\ UNCHANGED <<user, roles, key, now>>

\* Mutant of CreateAPIKey: the old key is left as it is.
CreateAPIKeyOnly(r) ==
    /\ req[r].pc = "createKey"
    /\ \E k \in Keys \ Issued : key' = [key EXCEPT ![k] = [owner |-> req[r].name, label |-> r, active |-> TRUE]]
    /\ Wrote(r, "created")
    /\ UNCHANGED <<user, roles>>

\* A new key has the name of the old one, which is deactivated next.
CreateAPIKey(r) ==
    /\ req[r].pc = "createKey"
    /\ \E k \in Keys \ Issued : key' = [key EXCEPT ![k] = [owner |-> req[r].name, label |-> r, active |-> TRUE]]
    /\ \/ req[r].op = "CreateAPIKey" /\ Wrote(r, "created")
       \/ /\ req[r].op = "RegenerateAPIKey"
          /\ \/ Lost(r)
             \/ /\ req' = [req EXCEPT ![r].pc = "deactivate", ![r].wrote = now + 1]
                /\ now' = now + 1
    /\ UNCHANGED <<user, roles>>

Deactivate(r) ==
    /\ req[r].pc = "deactivate"
    /\ key' = [key EXCEPT ![req[r].arg].active = FALSE]
    /\ Wrote(r, IF req[r].op = "RevokeAPIKey" THEN "ok" ELSE "created")
    /\ UNCHANGED <<user, roles>>

\* Any statement may fail and change nothing: the database may be away, a unique index may
\* refuse the row.
Fail(r) ==
    /\ req[r].pc \notin {"new", "done", "listKeys"}
    /\ req' = [req EXCEPT ![r].pc = "done", ![r].answer = Failure(r), ![r].fault = "failed"]
    /\ UNCHANGED <<user, roles, key, now>>

Step(r) == \/ PostRegister(r) \/ PostLogin(r) \/ PutProfile(r) \/ PutStatus(r) \/ PostForgot(r) \/ PostReset(r)
           \/ PostKey(r) \/ DeleteKey(r) \/ Regenerate(r)
           \/ CheckName(r) \/ CheckEmail(r) \/ Insert(r)
           \/ ReadProfile(r) \/ ReadStatus(r) \/ ReadForgot(r) \/ ReadReset(r) \/ Save(r)
           \/ ReadLogin(r) \/ ListKeys(r)
           \/ ReadKey(r) \/ CreateAPIKey(r) \/ Deactivate(r)
           \/ AssignRole(r) \/ RemoveRole(r) \/ Fail(r)

Finished == (\A r \in Requests : req[r].pc = "done") /\ UNCHANGED vars

Next == (\E r \in Requests : Step(r)) \/ Finished

Spec == Init /\ [][Next]_vars

-----------------------------------------------------------------------------
\* The columns that a request was asked to set, with their values.
Sets(r) == CASE req[r].op = "Register" -> {<<"email", req[r].arg>>, <<"active", TRUE>>, <<"password", r>>}
             [] req[r].op = "UpdateProfile" /\ req[r].arg = None -> {<<"display", r>>}
             [] req[r].op = "UpdateProfile" /\ req[r].arg # None -> {<<"email", req[r].arg>>}
             [] req[r].op = "SetUserStatus" -> {<<"active", req[r].arg>>}
             [] req[r].op = "ForgotPassword" -> {<<"token", r>>}
             [] req[r].op = "ResetPassword" -> {<<"password", r>>, <<"token", None>>}
             [] OTHER -> {}

\* q wrote the user of r after r, and set column c itself or had read the row before r wrote.
Overwrites(q, r, c) == /\ req[q].name = req[r].name
                       /\ req[q].wrote > req[r].wrote
                       /\ \/ \E v \in Setters \union Emails \union BOOLEAN : <<c, v>> \in Sets(q)
                          \/ Sets(q) # {} /\ req[q].read < req[r].wrote

\* Rows are saved whole, by requests that read them earlier.  Still, what a request was asked
\* to set stays set, unless a later one sets that column too or had read the row before.
EditsAreKept ==
    \A r \in Requests : req[r].wrote > 0 =>
        \A s \in Sets(r) : \/ user[req[r].name][s[1]] = s[2]
                           \/ \E q \in Requests : Overwrites(q, r, s[1])

\* q wrote after r, and gave the role that r took away or had read it before.
Restores(q, r) == /\ req[q].name = req[r].name
                  /\ req[q].wrote > req[r].wrote
                  /\ \/ req[q].op = "AssignRole" /\ req[q].arg = req[r].arg
                     \/ req[r].arg \in req[q].roles /\ req[q].read < req[r].wrote

\* A role that was taken away is away, unless it was given again, or a request saved a row
\* that it had read, with its roles, before.
RolesStayRemoved ==
    \A r \in Requests : req[r].op = "RemoveRole" /\ <<req[r].name, req[r].arg>> \in roles =>
        \E q \in Requests : Restores(q, r)

\* A request saves the user together with the keys it had read: none of them that was revoked
\* in the meantime works again.
KeysStayRevoked == \A k \in Issued : ~key[k].active => key'[k] # None /\ ~key'[k].active

\* What was taken away from a user, a role or a key, stays away, whatever rows are saved
\* (storage/user_repository.go:258-261).
RevokedStaysRevoked == [][RolesStayRemoved' /\ KeysStayRevoked]_vars

\* A request that answers with an error has changed nothing, unless it was not told that its
\* statement was committed.
ErrorsTell ==
    \A r \in Requests :
        req[r].answer \notin {"ok", "created", None} => req[r].wrote = 0 \/ req[r].fault = "lost"

\* The keys that a request has made, named after it.
Made(r) == {k \in Issued : key[k].label = r}

Revoked(k) == k \in Issued /\ ~key[k].active

\* Keys are as the requests were told, whatever others do to them in the meantime.  A revoked
\* key is inactive.  Who was given a new key has one; and a key is taken out of use for a new
\* one only after that is there.  The old key is inactive then, unless its deactivation
\* failed, which nobody is told.
KeysTell ==
    \A r \in Requests :
        LET q == req[r]
        IN  /\ q.op = "RevokeAPIKey" /\ q.answer = "ok" => Revoked(q.arg)
            /\ Made(r) # {} => q.wrote > 0
            /\ q.op \in {"CreateAPIKey", "RegenerateAPIKey"} =>
                  /\ q.wrote > 0 => Made(r) # {}
                  /\ q.answer = "created" => q.wrote > 0
            /\ q.op = "RegenerateAPIKey" /\ q.answer = "created" => Revoked(q.arg) \/ q.fault = "failed"

\* What a caller is told of its request is so: in particular, only a deactivation that failed
\* leaves two keys working after a regeneration (auth/apikey.go:163-215).
AnswersTell == ErrorsTell /\ KeysTell

=============================================================================
