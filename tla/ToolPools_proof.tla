--------------------------- MODULE ToolPools_proof ---------------------------
(***************************************************************************)
(* Proofs about ToolPools, for any requests, users, pools of a caller,     *)
(* intents, texts, and numbers of sessions and changes.                    *)
(***************************************************************************)
EXTENDS ToolPools, TLAPS

(* What a tool may answer. *)
Calls == {Failed} \union {Delegate(tool, text) : tool \in Tools, text \in Texts}
Request == [pc : {"new", "known", "select", "selected", "run", "call", "done"}, user : Users \union {None},
            pool : Pools \union {None}, chosen : SUBSET Tools, next : Nat, intent : Intents \union {None},
            tool : Tools \union {None}, call : Calls \union {None}]
Permissions == (Kinds \union {"*"}) \X {"read", "write", "*"}
Session == [user : Users, permissions : SUBSET Permissions, live : BOOLEAN]

Made == [sessions : Nat, pools : Nat, left : SUBSET ({p.id : p \in Pools} \X Words)]

TypeOK == /\ DOMAIN pools \subseteq {p.id : p \in Pools} /\ pools \in [DOMAIN pools -> Pools]
          /\ index \in [Words -> SUBSET {p.id : p \in Pools}]
          /\ Stored \subseteq Tokens /\ sessions \in [Stored -> Session]
          /\ deletions \in [Tokens -> Nat]
          /\ req \in [Requests -> Request]
          /\ seen \in [Requests -> [had : SUBSET Kinds, lacked : SUBSET Kinds]]
          /\ made \in Made

(* A pool is registered under its id; those of the process are never removed. *)
Registered == /\ \A id \in DOMAIN pools : pools[id].id = id
              /\ \A id \in {"general", "topology"} : id \in DOMAIN pools /\ pools[id].builtin
              /\ pools["topology"].keywords = {"topology"}

(* A keyword of the index finds pools that are registered and have it, or whose id was taken   *)
(* from a pool that had it.                                                                    *)
Indexed == \A w \in Words : \A id \in index[w] :
              \/ id \in DOMAIN pools /\ w \in pools[id].keywords
              \/ <<id, w>> \in made.left

(* How far a request has come. *)
Ready(q) == /\ q.pc = "new" => q = New
            /\ q.pc = "known" => q.chosen = {} /\ q.next = 1
            /\ q.pc = "select" => q.intent \in Intents
            /\ q.pc \in {"select", "selected"} => q.pool \in Pools
            /\ q.pc \in {"run", "call"} => q.tool \in Tools
Prepared == \A r \in Requests : Ready(req[r])

(* What the sessions permit the user of a request is among what was seen, as is what they do not. *)
Now(r) == Permitted(req[r].user)
Watched == \A r \in Requests : req[r].pc \in {"select", "run"} =>
              Now(r) \subseteq seen[r].had /\ Kinds \ Now(r) \subseteq seen[r].lacked

(* Of the tools of a pool, those that a selection has passed. *)
Passed(q, s, i) == \/ q.pool.tools[i] \in q.chosen \/ q.pool.tools[i] \notin Tools
                   \/ RequiredPermission(q.pool.tools[i]) \in s.lacked
Justified(q, s) ==
    /\ q.pc \in {"select", "selected"} => \A tool \in q.chosen : RequiredPermission(tool) \in s.had
    /\ q.pc = "select" => \A i \in 1 .. Len(q.pool.tools) : i < q.next => Passed(q, s, i)
    /\ q.pc = "selected" => \A i \in 1 .. Len(q.pool.tools) :
                               Passed(q, s, i) \/ Full(q.pool, Cardinality(q.chosen))
    /\ q.pc = "call" => RequiredPermission(q.tool) \in s.had
Selections == \A r \in Requests : Justified(req[r], seen[r])

(* The inductive invariant. *)
Invariant == TypeOK /\ Registered /\ Prepared /\ Watched /\ Selections /\ ToolsKeepTheirName

-----------------------------------------------------------------------------
(* Every tool needs a permission to read things of some kind. *)
LEMMA PermissionKinds == \A tool : RequiredPermission(tool) \in Kinds
  BY DEF RequiredPermission, Kinds

(* The pools of the process. *)
LEMMA Builtins ==
    /\ \A p \in BuiltinPools : p.builtin /\ p.id \in {"alerting", "slo", "topology", "general"}
    /\ \A p, q \in BuiltinPools : p.id = q.id => p = q
    /\ \A p \in BuiltinPools : p.id = "topology" => p.keywords = {"topology"}
    /\ {"general", "topology"} \subseteq {p.id : p \in BuiltinPools}
    /\ AlertingDefault.id = "alert" /\ AlertingDefault.keywords = {"alert"}
    /\ TopologyDefault.id = "topology" /\ TopologyDefault.keywords = {"topology"} /\ TopologyDefault.builtin
  BY DEF BuiltinPools, Pool, AlertingDefault, TopologyDefault

(* A pool has a finite list of tools. *)
LEMMA PoolTools == \A p \in Pools : Len(p.tools) \in Nat
<1>1. \A p \in BuiltinPools : Len(p.tools) \in Nat
  BY DEF BuiltinPools, Pool
<1>2. Len(AlertingDefault.tools) \in Nat /\ Len(TopologyDefault.tools) \in Nat
  BY DEF AlertingDefault, TopologyDefault, Pool
<1>3. \A p \in Custom : Len(p.tools) \in Nat
  BY InputsAssumption
<1> QED
  BY <1>1, <1>2, <1>3 DEF Pools

-----------------------------------------------------------------------------
(* The tools. *)

(* A limit is replaced by a default that is positive when it is not. *)
LEMMA Limits == \A limit \in Int : /\ OrDefault(limit, 3) > 0 /\ OrDefault(limit, 10) > 0
                                   /\ OrDefault(limit, 20) > 0
  BY DEF OrDefault

(* What a fat tool is given has the action of the thin tool. *)
LEMMA Merging ==
    ASSUME NEW text \in Texts, NEW action
    PROVE  MergeAction(text, action).action = action /\ MergeAction(text, action).limit \in Int
<1>1. text.limit \in Int /\ text = [Text(text.action, text.id, text.name, text.limit) EXCEPT !.kind = text.kind]
  BY InputsAssumption
<1> DEFINE t == [Text(text.action, text.id, text.name, text.limit) EXCEPT !.kind = text.kind]
<1>2. [t EXCEPT !.action = action].action = action /\ [t EXCEPT !.action = action].limit = text.limit
  BY DEF Text
<1> QED
  BY <1>1, <1>2 DEF MergeAction, Text

(* The actions that the names of the tools stand for. *)
LEMMA Actions ==
    /\ ActionOf["topology_get_service_topology"] = "get_topology"
    /\ ActionOf["topology_get_node"] = "get_node"
    /\ ActionOf["topology_get_upstream"] = "get_upstream"
    /\ ActionOf["topology_find_path"] = "find_path"
    /\ ActionOf["alerting_list_history"] = "list_history"
    /\ ActionOf["alerting_stats"] = "stats"
    /\ ActionOf["alerting_get_feedback"] = "feedback"
    /\ ActionOf["slo_list"] = "list"
    /\ ActionOf["slo_get"] = "get"
  BY DEF ActionOf, Merged, GraphTools, AnalysisTools, AlertingTools, SLOTools

(* A tool calls the service its name says. *)
LEMMA NamesKept ==
    ASSUME NEW tool \in DOMAIN Meaning, NEW text \in Texts
    PROVE  /\ Delegate(tool, text).op \in Meaning[tool] \union {"error", "panic"}
           /\ Delegate(tool, text).op \in Limited => Delegate(tool, text).limit > 0
<1> DEFINE merged == MergeAction(text, ActionOf[tool])
<1>1. merged.action = ActionOf[tool] /\ merged.limit \in Int
  BY Merging
<1> HIDE DEF merged
<1>2. \/ Delegate(tool, text) \in {Failed, Panicked}
      \/ tool \in DOMAIN AlertingTools /\ Delegate(tool, text) = Alerting(merged)
      \/ tool \in DOMAIN SLOTools /\ Delegate(tool, text) = SLO(merged)
      \/ tool \notin DOMAIN AlertingTools \union DOMAIN SLOTools /\ Delegate(tool, text) = Topology(merged)
  BY DEF Delegate, merged, AlertingTools, SLOTools
<1>3. CASE Delegate(tool, text) \in {Failed, Panicked}
  BY <1>3 DEF Failed, Panicked, Call, Limited
<1>4. CASE tool \in DOMAIN AlertingTools /\ Delegate(tool, text) = Alerting(merged)
  <2>1. CASE tool = "alerting_list_history"
    BY <1>1, <1>4, <2>1, Actions, Limits DEF Alerting, ListHistory, Call, Meaning
  <2>2. CASE tool = "alerting_stats"
    BY <1>1, <1>4, <2>2, Actions DEF Alerting, GetStats, Call, Meaning, Limited
  <2>3. CASE tool = "alerting_get_feedback"
    BY <1>1, <1>4, <2>3, Actions DEF Alerting, GetFeedback, Failed, Call, Meaning, Limited
  <2> QED
    BY <1>4, <2>1, <2>2, <2>3 DEF Meaning, AlertingTools
<1>5. CASE tool \in DOMAIN SLOTools /\ Delegate(tool, text) = SLO(merged)
  <2>1. CASE tool = "slo_list"
    BY <1>1, <1>5, <2>1, Actions DEF SLO, ListSLOs, Failed, Call, Meaning, Limited
  <2>2. CASE tool = "slo_get"
    BY <1>1, <1>5, <2>2, Actions DEF SLO, GetSLO, WithId, Failed, Call, Meaning, Limited
  <2> QED
    BY <1>5, <2>1, <2>2 DEF Meaning, SLOTools
<1>6. CASE /\ tool \notin DOMAIN AlertingTools \union DOMAIN SLOTools
           /\ Delegate(tool, text) = Topology(merged)
  <2>1. CASE tool = "topology_get_service_topology"
    BY <1>1, <1>6, <2>1, Actions DEF Topology, GetTopology, Call, Meaning, Limited
  <2>2. CASE tool = "topology_get_node"
    BY <1>1, <1>6, <2>2, Actions DEF Topology, GetNode, WithId, Failed, Call, Meaning, Limited
  <2>3. CASE tool = "topology_get_upstream"
    BY <1>1, <1>6, <2>3, Actions, Limits DEF Topology, GetUpstream, WithId, Failed, Call, Meaning, Limited
  <2>4. CASE tool = "topology_find_path"
    BY <1>1, <1>6, <2>4, Actions, Limits DEF Topology, FindPath, WithId, Failed, Call, Meaning, Limited
  <2> QED
    BY <1>6, <2>1, <2>2, <2>3, <2>4 DEF Meaning, AlertingTools, SLOTools
<1> QED
  BY <1>2, <1>3, <1>4, <1>5, <1>6

-----------------------------------------------------------------------------
(* The invariant holds at the start, and the index is sound. *)
LEMMA InitHolds == Init => Invariant /\ Indexed
<1> SUFFICES ASSUME Init PROVE Invariant /\ Indexed
  OBVIOUS
<1>1. \A id \in DOMAIN pools : pools[id] \in BuiltinPools /\ pools[id].id = id
  BY DEF Init
<1>2. DOMAIN pools = {p.id : p \in BuiltinPools} /\ pools \in [DOMAIN pools -> Pools]
  BY <1>1 DEF Init, Pools
<1>3. Registered
  BY <1>1, <1>2, Builtins DEF Registered
<1>4. \A r \in Requests : req[r] = New
  BY DEF Init
<1>5. New \in Request
  BY DEF New, Request
<1>6. sessions = <<>> /\ Stored = {} /\ sessions \in [Stored -> Session]
  BY DEF Init, Stored
<1>7. TypeOK
  <2>1. index \in [Words -> SUBSET {p.id : p \in Pools}]
    BY DEF Init, Pools
  <2>2. deletions \in [Tokens -> Nat] /\ req \in [Requests -> Request] /\ made \in Made
    BY <1>5 DEF Init, Made
  <2>3. seen \in [Requests -> [had : SUBSET Kinds, lacked : SUBSET Kinds]]
    BY DEF Init
  <2>4. DOMAIN pools \subseteq {p.id : p \in Pools}
    BY <1>2 DEF Pools
  <2> QED
    BY <1>2, <1>6, <2>1, <2>2, <2>3, <2>4 DEF TypeOK
<1>8. Prepared
  BY <1>4 DEF Prepared, Ready, New
<1>9. Watched /\ Selections /\ ToolsKeepTheirName
  BY <1>4 DEF Watched, Selections, Justified, ToolsKeepTheirName, New
<1>10. Indexed
  <2> SUFFICES ASSUME NEW w \in Words, NEW id \in index[w] PROVE id \in DOMAIN pools /\ w \in pools[id].keywords
    BY DEF Indexed
  <2>1. PICK p \in BuiltinPools : w \in p.keywords /\ id = p.id
    BY DEF Init
  <2>2. id \in DOMAIN pools
    BY <1>2, <2>1
  <2>3. pools[id] = p
    BY <1>1, <2>1, <2>2, Builtins
  <2> QED
    BY <2>1, <2>2, <2>3
<1> QED
  BY <1>3, <1>7, <1>8, <1>9, <1>10 DEF Invariant

(* What Watch remembers of a step. *)
LEMMA Remembered ==
    ASSUME TypeOK, Watch
    PROVE  /\ seen' \in [Requests -> [had : SUBSET Kinds, lacked : SUBSET Kinds]]
           /\ \A r \in Requests :
                 /\ req'[r].pc \in {"select", "run"} =>
                       Now(r)' \subseteq seen'[r].had /\ Kinds \ Now(r)' \subseteq seen'[r].lacked
                 /\ req'[r].pc = req[r].pc /\ req'[r].pc # "done" =>
                       seen[r].had \subseteq seen'[r].had /\ seen[r].lacked \subseteq seen'[r].lacked
                 /\ req'[r].pc \notin {"select", "run", "done"} => seen'[r] = seen[r]
<1> DEFINE now(r) == [had |-> Now(r)', lacked |-> Kinds \ Now(r)']
<1>1. seen' = [r \in Requests |->
           CASE req'[r].pc \in {"select", "run"} /\ req[r].pc # req'[r].pc -> now(r)
             [] req'[r].pc \in {"select", "run"} /\ req[r].pc = req'[r].pc ->
                    [had |-> seen[r].had \union now(r).had, lacked |-> seen[r].lacked \union now(r).lacked]
             [] req'[r].pc = "done" -> [had |-> {}, lacked |-> {}]
             [] OTHER -> seen[r]]
  BY DEF Watch, Now
<1>2. \A r : Now(r)' \subseteq Kinds
  BY DEF Now, Permitted
<1>3. ASSUME NEW r \in Requests
      PROVE  /\ seen'[r] \in [had : SUBSET Kinds, lacked : SUBSET Kinds]
             /\ req'[r].pc \in {"select", "run"} =>
                   Now(r)' \subseteq seen'[r].had /\ Kinds \ Now(r)' \subseteq seen'[r].lacked
             /\ req'[r].pc = req[r].pc /\ req'[r].pc # "done" =>
                   seen[r].had \subseteq seen'[r].had /\ seen[r].lacked \subseteq seen'[r].lacked
             /\ req'[r].pc \notin {"select", "run", "done"} => seen'[r] = seen[r]
  <2>0. seen[r] \in [had : SUBSET Kinds, lacked : SUBSET Kinds] /\ Now(r)' \subseteq Kinds
    BY <1>2 DEF TypeOK
  <2> HIDE DEF now
  <2>1. CASE req'[r].pc \in {"select", "run"} /\ req[r].pc # req'[r].pc
    <3>1. seen'[r] = now(r)
      BY <1>1, <2>1
    <3> QED
      BY <2>0, <2>1, <3>1 DEF now
  <2>2. CASE req'[r].pc \in {"select", "run"} /\ req[r].pc = req'[r].pc
    <3>1. seen'[r] = [had |-> seen[r].had \union now(r).had, lacked |-> seen[r].lacked \union now(r).lacked]
      BY <1>1, <2>2
    <3> QED
      BY <2>0, <2>2, <3>1 DEF now
  <2>3. CASE req'[r].pc = "done"
    <3>1. seen'[r] = [had |-> {}, lacked |-> {}]
      BY <1>1, <2>3
    <3> QED
      BY <2>3, <3>1
  <2>4. CASE req'[r].pc \notin {"select", "run", "done"}
    <3>1. seen'[r] = seen[r]
      BY <1>1, <2>4
    <3> QED
      BY <2>0, <2>4, <3>1
  <2> QED
    BY <2>1, <2>2, <2>3, <2>4
<1>4. seen' = [r \in Requests |-> seen'[r]]
  BY <1>1
<1> QED
  BY <1>3, <1>4

(* A request that a step leaves as it is. *)
LEMMA Untouched ==
    ASSUME TypeOK, Prepared, Watched, Selections, ToolsKeepTheirName, Watch, NEW r \in Requests, req'[r] = req[r]
    PROVE  Ready(req'[r]) /\ Justified(req'[r], seen'[r])
<1>1. Ready(req[r]) /\ Justified(req[r], seen[r])
  BY DEF Prepared, Selections
<1>2. req[r].pc # "done" => seen[r].had \subseteq seen'[r].had /\ seen[r].lacked \subseteq seen'[r].lacked
  BY Remembered
<1> QED
  BY <1>1, <1>2 DEF Justified, Passed

-----------------------------------------------------------------------------
(* Sessions are set and go; nothing else changes. *)
LEMMA SessionSteps ==
    ASSUME TypeOK,
           \/ \E u \in Users : \/ CreateSession(u, "agent")
                              \/ \E role \in {"viewer", "guest"} : SetSession(u, RolePermissions(role))
                              \/ SetSession(u, {<<"slo", "*">>, <<"alerting", "write">>})
           \/ \E t \in Tokens : Delete(t) \/ LateDelete(t) \/ Expire(t)
    PROVE  /\ UNCHANGED <<pools, index, req>>
           /\ Stored' \subseteq Tokens /\ sessions' \in [Stored' -> Session]
           /\ deletions' \in [Tokens -> Nat] /\ made' \in Made /\ made'.left = made.left
<1>1. ASSUME NEW t \in Tokens, NEW u \in Users, NEW permissions \in SUBSET Permissions, Set(t, u, permissions)
      PROVE  /\ UNCHANGED <<pools, index, req>>
             /\ Stored' \subseteq Tokens /\ sessions' \in [Stored' -> Session]
             /\ deletions' \in [Tokens -> Nat] /\ made' \in Made /\ made'.left = made.left
  <2> DEFINE session == [user |-> u, permissions |-> permissions, live |-> TRUE]
  <2>1. session \in Session
    BY DEF Session
  <2>2. sessions' = Put(sessions, t, session) /\ UNCHANGED <<pools, index, deletions, req>>
    BY <1>1 DEF Set
  <2> HIDE DEF session
  <2>3. Stored' = Stored \union {t} /\ sessions' \in [Stored' -> Session]
    BY <2>1, <2>2 DEF Put, Stored, TypeOK
  <2>4. made' \in Made /\ made'.left = made.left
    BY <1>1 DEF Set, TypeOK, Made
  <2> QED
    BY <2>2, <2>3, <2>4 DEF TypeOK
<1>2. Kinds \X {"read"} \in SUBSET Permissions /\ {} \in SUBSET Permissions
      /\ {<<"slo", "*">>, <<"alerting", "write">>} \in SUBSET Permissions
  BY DEF Permissions, Kinds
<1>3. /\ RolePermissions("agent") = Kinds \X {"read"} /\ RolePermissions("viewer") = Kinds \X {"read"}
      /\ RolePermissions("guest") = {}
  BY DEF RolePermissions
<1>4. Generated \in Tokens /\ Users \subseteq Tokens
  BY DEF Tokens
<1>5. ASSUME NEW t \in Tokens, sessions' = Without(t) PROVE Stored' \subseteq Tokens /\ sessions' \in [Stored' -> Session]
  <2>1. Stored' = Stored \ {t} /\ sessions' \in [Stored' -> Session]
    BY <1>5 DEF Without, Stored, TypeOK
  <2> QED
    BY <2>1 DEF TypeOK
<1>6. CASE \E u \in Users : \/ CreateSession(u, "agent")
                           \/ \E role \in {"viewer", "guest"} : SetSession(u, RolePermissions(role))
                           \/ SetSession(u, {<<"slo", "*">>, <<"alerting", "write">>})
  <2>1. PICK u \in Users, t \in Tokens, permissions \in SUBSET Permissions : Set(t, u, permissions)
    BY <1>2, <1>3, <1>4, <1>6 DEF CreateSession, SetSession
  <2> QED
    BY <1>1, <2>1
<1>7. ASSUME NEW t \in Tokens, Delete(t)
      PROVE  /\ UNCHANGED <<pools, index, req>>
             /\ Stored' \subseteq Tokens /\ sessions' \in [Stored' -> Session]
             /\ deletions' \in [Tokens -> Nat] /\ made' \in Made /\ made'.left = made.left
  BY <1>5, <1>7 DEF Delete, TypeOK
<1>8. ASSUME NEW t \in Tokens, LateDelete(t)
      PROVE  /\ UNCHANGED <<pools, index, req>>
             /\ Stored' \subseteq Tokens /\ sessions' \in [Stored' -> Session]
             /\ deletions' \in [Tokens -> Nat] /\ made' \in Made /\ made'.left = made.left
  BY <1>5, <1>8 DEF LateDelete, TypeOK
<1>9. ASSUME NEW t \in Tokens, Expire(t)
      PROVE  /\ UNCHANGED <<pools, index, req>>
             /\ Stored' \subseteq Tokens /\ sessions' \in [Stored' -> Session]
             /\ deletions' \in [Tokens -> Nat] /\ made' \in Made /\ made'.left = made.left
  <2>1. t \in Stored /\ sessions' = [sessions EXCEPT ![t].live = FALSE] /\ sessions[t] \in Session
    BY <1>9 DEF Expire, Live, TypeOK
  <2>2. [sessions[t] EXCEPT !.live = FALSE] \in Session
    BY <2>1 DEF Session
  <2>3. Stored' = Stored /\ sessions' \in [Stored' -> Session]
    BY <2>1, <2>2 DEF Stored, TypeOK
  <2> QED
    BY <1>9, <2>3 DEF Expire, TypeOK
<1> QED
  BY <1>6, <1>7, <1>8, <1>9

(* Pools are registered and go while nobody selects. *)
LEMMA RegistrySteps ==
    ASSUME TypeOK, Registered,
           \/ \E p \in {AlertingDefault, TopologyDefault} : RegisterProvider(p)
           \/ \E p \in Custom : RegisterPool(p)
           \/ \E id \in DOMAIN pools : UnregisterPool(id)
    PROVE  /\ UNCHANGED <<sessions, deletions, req>> /\ \A r \in Requests : req[r].pc # "select"
           /\ DOMAIN pools' \subseteq {p.id : p \in Pools} /\ pools' \in [DOMAIN pools' -> Pools]
           /\ index' \in [Words -> SUBSET {p.id : p \in Pools}]
           /\ made' \in Made
           /\ Registered'
           /\ Indexed => Indexed'
<1>1. \E left \in SUBSET ({p.id : p \in Pools} \X Words) : WriteLock(left)
  <2>1. ASSUME NEW p \in Pools PROVE Left(p) \in SUBSET ({q.id : q \in Pools} \X Words)
    <3>1. CASE p.id \in DOMAIN pools
      <4>1. pools[p.id] \in Pools
        BY <3>1 DEF TypeOK
      <4>2. pools[p.id].keywords \subseteq Words
        BY <4>1 DEF Words
      <4> QED
        BY <3>1, <4>2 DEF Left
    <3> QED
      BY <3>1 DEF Left
  <2>2. {AlertingDefault, TopologyDefault} \subseteq Pools
    BY DEF Pools
  <2>3. {} \in SUBSET ({q.id : q \in Pools} \X Words)
    OBVIOUS
  <2> QED
    BY <2>1, <2>2, <2>3 DEF RegisterProvider, RegisterPool, UnregisterPool
<1>2. UNCHANGED <<sessions, deletions, req>> /\ (\A r \in Requests : req[r].pc # "select")
      /\ made' \in Made
  <2> DEFINE Pairs == SUBSET ({p.id : p \in Pools} \X Words)
  <2>1. PICK left \in Pairs : WriteLock(left)
    BY <1>1
  <2>2. made.left \union left \in Pairs /\ made.pools + 1 \in Nat
    BY DEF TypeOK, Made
  <2>3. made' = [made EXCEPT !.pools = @ + 1, !.left = @ \union left]
    BY <2>1 DEF WriteLock
  <2>4. made \in [sessions : Nat, pools : Nat, left : Pairs]
    BY DEF TypeOK, Made
  <2> HIDE DEF Pairs
  <2>5. made' \in [sessions : Nat, pools : Nat, left : Pairs]
    BY <2>2, <2>3, <2>4
  <2> USE DEF Pairs
  <2> QED
    BY <2>1, <2>5 DEF WriteLock, Made
<1>3. ASSUME NEW p \in Pools, AddPool(p), p.id # "general", p.id = "topology" => p.keywords = {"topology"} /\ p.builtin,
             Left(p) \subseteq made'.left, made.left \subseteq made'.left
      PROVE  /\ DOMAIN pools' \subseteq {q.id : q \in Pools} /\ pools' \in [DOMAIN pools' -> Pools]
             /\ index' \in [Words -> SUBSET {q.id : q \in Pools}]
             /\ Registered'
             /\ Indexed => Indexed'
  <2>1. /\ DOMAIN pools' = DOMAIN pools \union {p.id} /\ pools'[p.id] = p
        /\ \A id \in DOMAIN pools \ {p.id} : pools'[id] = pools[id]
        /\ pools' = [id \in DOMAIN pools' |-> pools'[id]]
    BY <1>3 DEF AddPool, Put
  <2>2. index' = [w \in Words |-> IF w \in p.keywords THEN index[w] \union {p.id} ELSE index[w]]
    BY <1>3 DEF AddPool
  <2>3. DOMAIN pools' \subseteq {q.id : q \in Pools} /\ pools' \in [DOMAIN pools' -> Pools]
    BY <2>1 DEF TypeOK
  <2>4. index' \in [Words -> SUBSET {q.id : q \in Pools}]
    BY <2>2 DEF TypeOK
  <2>5. Registered'
    BY <1>3, <2>1 DEF Registered
  <2>6. ASSUME Indexed, NEW w \in Words, NEW id \in index'[w]
        PROVE  (id \in DOMAIN pools' /\ w \in pools'[id].keywords) \/ <<id, w>> \in made'.left
    <3>1. CASE id = p.id /\ w \in p.keywords
      BY <2>1, <3>1
    <3>2. CASE id = p.id /\ w \notin p.keywords
      <4>1. id \in index[w]
        BY <2>2, <2>6, <3>2
      <4>2. CASE id \in DOMAIN pools /\ w \in pools[id].keywords
        <5>1. <<id, w>> \in Left(p)
          BY <3>2, <4>2 DEF Left
        <5> QED
          BY <1>3, <5>1
      <4> QED
        BY <1>3, <2>6, <4>1, <4>2 DEF Indexed
    <3>3. CASE id # p.id
      <4>1. id \in index[w]
        BY <2>2, <2>6, <3>3
      <4> QED
        BY <1>3, <2>1, <2>6, <3>3, <4>1 DEF Indexed
    <3> QED
      BY <3>1, <3>2, <3>3
  <2> QED
    BY <2>3, <2>4, <2>5, <2>6 DEF Indexed
<1>4. ASSUME NEW p \in {AlertingDefault, TopologyDefault}, RegisterProvider(p)
      PROVE  /\ p \in Pools /\ AddPool(p) /\ p.id # "general"
             /\ p.id = "topology" => p.keywords = {"topology"} /\ p.builtin
             /\ Left(p) \subseteq made'.left /\ made.left \subseteq made'.left
  <2>1. p \in Pools /\ AddPool(p) /\ WriteLock(Left(p))
    BY <1>4 DEF RegisterProvider, Pools
  <2>2. Left(p) \subseteq made'.left /\ made.left \subseteq made'.left
    BY <2>1 DEF WriteLock, TypeOK, Made
  <2> QED
    BY <2>1, <2>2, Builtins
<1>5. ASSUME NEW p \in Custom, RegisterPool(p)
      PROVE  /\ p \in Pools /\ AddPool(p) /\ p.id # "general" /\ p.id # "topology"
             /\ Left(p) \subseteq made'.left /\ made.left \subseteq made'.left
  <2>1. p \in Pools /\ AddPool(p) /\ p.id \notin DOMAIN pools /\ WriteLock({})
    BY <1>5 DEF RegisterPool, Pools
  <2> QED
    BY <2>1 DEF WriteLock, Left, Registered, TypeOK, Made
<1>6. ASSUME NEW id \in DOMAIN pools, UnregisterPool(id)
      PROVE  /\ DOMAIN pools' \subseteq {p.id : p \in Pools} /\ pools' \in [DOMAIN pools' -> Pools]
             /\ index' \in [Words -> SUBSET {p.id : p \in Pools}]
             /\ Registered'
             /\ Indexed => Indexed'
  <2>1. ~pools[id].builtin /\ pools' = [i \in DOMAIN pools \ {id} |-> pools[i]]
        /\ index' = [w \in Words |-> IF w \in pools[id].keywords THEN index[w] \ {id} ELSE index[w]]
    BY <1>6 DEF UnregisterPool, RemovePool
  <2>2. id \notin {"general", "topology"} /\ DOMAIN pools' = DOMAIN pools \ {id}
        /\ \A i \in DOMAIN pools \ {id} : pools'[i] = pools[i]
    BY <2>1 DEF Registered
  <2>3. DOMAIN pools' \subseteq {p.id : p \in Pools} /\ pools' \in [DOMAIN pools' -> Pools]
    BY <2>1, <2>2 DEF TypeOK
  <2>4. index' \in [Words -> SUBSET {p.id : p \in Pools}]
    BY <2>1 DEF TypeOK
  <2>5. Registered'
    BY <2>2 DEF Registered
  <2>6. made.left \subseteq made'.left
    BY <1>6 DEF UnregisterPool, WriteLock, TypeOK, Made
  <2>7. Indexed => Indexed'
    BY <2>1, <2>2, <2>6 DEF Indexed
  <2> QED
    BY <2>3, <2>4, <2>5, <2>7
<1> QED
  BY <1>2, <1>3, <1>4, <1>5, <1>6

-----------------------------------------------------------------------------
(* A step that makes rec of request r. *)
Named(q) == q.pc = "done" /\ q.tool \in DOMAIN Meaning =>
               /\ q.call.op \in Meaning[q.tool] \union {"error", "panic"}
               /\ q.call.op \in Limited => q.call.limit > 0
Goes(r, rec) == /\ req' = [req EXCEPT ![r] = rec] /\ rec \in Request
                /\ UNCHANGED <<pools, index, sessions, made>> /\ deletions' \in [Tokens -> Nat]
                /\ Ready(rec) /\ Justified(rec, seen'[r]) /\ Named(rec)
                /\ rec.pc = "select" =>
                      \/ req[r].pc = "select" /\ rec.pool = req[r].pool /\ rec.intent = req[r].intent
                      \/ rec.pool \in Routes(rec.intent)

(* A request ends. *)
LEMMA Endings ==
    ASSUME TypeOK, NEW r \in Requests, NEW call, End(r, call), Quiet, deletions' \in [Tokens -> Nat],
           call = Failed \/ (req[r].tool \in Tools /\ \E text \in Texts : call = Delegate(req[r].tool, text))
    PROVE  \E rec : Goes(r, rec)
<1> DEFINE rec == [New EXCEPT !.pc = "done", !.tool = req[r].tool, !.call = call]
<1>0. New \in Request
  BY DEF New, Request
<1>1. rec.pc = "done" /\ rec.tool = req[r].tool /\ rec.call = call
  BY <1>0 DEF Request
<1>2. call \in Calls
  BY DEF Calls
<1>3. req[r].tool \in Tools \union {None}
  BY DEF TypeOK, Request
<1>4. rec \in Request
  BY <1>0, <1>2, <1>3 DEF Request
<1>5. Named(rec)
  <2>1. CASE call = Failed
    <3>1. rec.call.op = "error"
      BY <1>1, <2>1 DEF Failed, Call
    <3> QED
      BY <3>1 DEF Named, Limited
  <2>2. CASE req[r].tool \in Tools /\ \E text \in Texts : call = Delegate(req[r].tool, text)
    BY <1>1, <2>2, NamesKept DEF Named
  <2> QED
    BY <2>1, <2>2
<1>6. Ready(rec) /\ Justified(rec, seen'[r]) /\ rec.pc # "select"
  BY <1>1 DEF Ready, Justified
<1>7. req' = [req EXCEPT ![r] = rec] /\ UNCHANGED <<pools, index, sessions, made>>
  BY DEF End, Quiet
<1> HIDE DEF rec
<1> QED
  BY <1>4, <1>5, <1>6, <1>7 DEF Goes

(* To look at a session leaves the late deletions typed. *)
LEMMA LookedTypes == ASSUME TypeOK, NEW t, Looked(t) PROVE deletions' \in [Tokens -> Nat]
<1>1. CASE t \in Stored /\ deletions' = [deletions EXCEPT ![t] = @ + 1]
  BY <1>1 DEF TypeOK
<1>2. CASE deletions' = deletions
  BY <1>2 DEF TypeOK
<1> QED
  BY <1>1, <1>2 DEF Looked

(* A request is authenticated, or is not. *)
LEMMA Arrivals ==
    ASSUME TypeOK, Prepared, NEW r \in Requests, Unknown(r) \/ \E t \in Tokens : Authenticate(r, t)
    PROVE  \E rec : Goes(r, rec)
<1>1. /\ req[r].pc = "new" /\ req[r] = New /\ Quiet /\ deletions' \in [Tokens -> Nat]
  <2>1. req[r].pc = "new" /\ Quiet /\ deletions' \in [Tokens -> Nat]
    BY LookedTypes DEF Unknown, Authenticate, TypeOK
  <2> QED
    BY <2>1 DEF Prepared, Ready
<1>2. New \in Request
  BY DEF New, Request
<1>3. ASSUME NEW rec \in Request, rec.pc = "known", rec.chosen = {}, rec.next = 1, req' = [req EXCEPT ![r] = rec]
      PROVE  Goes(r, rec)
  <2>1. Ready(rec) /\ Justified(rec, seen'[r]) /\ Named(rec)
    BY <1>3 DEF Ready, Justified, Named
  <2> QED
    BY <1>1, <1>3, <2>1 DEF Goes, Quiet
<1>a. CASE Unknown(r)
  <2> DEFINE rec == [New EXCEPT !.pc = "known"]
  <2>1. req' = [req EXCEPT ![r] = rec]
    BY <1>1, <1>a DEF Unknown
  <2>2. rec \in Request /\ rec.pc = "known" /\ rec.chosen = {} /\ rec.next = 1
    BY <1>2 DEF Request, New
  <2> QED
    BY <1>3, <2>1, <2>2
<1>4. ASSUME NEW t \in Tokens, Authenticate(r, t) PROVE \E rec : Goes(r, rec)
  <2>1. CASE Live(t)
    <3>1. sessions[t].user \in Users
      BY <2>1 DEF Live, TypeOK, Session
    <3> DEFINE rec == [New EXCEPT !.pc = "known", !.user = sessions[t].user]
    <3>2. req' = [req EXCEPT ![r] = rec]
      BY <1>1, <1>4, <2>1 DEF Authenticate
    <3>3. rec \in Request
      BY <1>2, <3>1 DEF Request
    <3>4. rec.pc = "known" /\ rec.chosen = {} /\ rec.next = 1
      BY DEF New
    <3> QED
      BY <1>3, <3>2, <3>3, <3>4
  <2>2. CASE ~Live(t)
    BY <1>1, <1>4, <2>2, Endings DEF Authenticate
  <2> QED
    BY <2>1, <2>2
<1> QED
  BY <1>a, <1>4

(* A request is routed. *)
LEMMA Routings ==
    ASSUME TypeOK, Registered, Prepared, NEW r \in Requests, NEW i \in Intents, Route(r, i)
    PROVE  \E rec : Goes(r, rec)
<1>1. req[r].pc = "known" /\ Quiet /\ deletions' \in [Tokens -> Nat] /\ req[r] \in Request /\ Ready(req[r])
  BY DEF Route, TypeOK, Prepared
<1>2. CASE End(r, Failed)
  BY <1>1, <1>2, Endings
<1>3. CASE \E p \in Routes(i) : req' = [req EXCEPT ![r].pc = "select", ![r].pool = p, ![r].intent = i]
  <2>1. PICK p \in Routes(i) : req' = [req EXCEPT ![r].pc = "select", ![r].pool = p, ![r].intent = i]
    BY <1>3
  <2>2. p \in Pools
    <3>1. \A id \in DOMAIN pools : pools[id] \in Pools
      BY DEF TypeOK
    <3>2. Candidates(i) \subseteq Pools
      BY <3>1 DEF Candidates
    <3> QED
      BY <3>1, <3>2 DEF Routes
  <2> DEFINE rec == [req[r] EXCEPT !.pc = "select", !.pool = p, !.intent = i]
  <2>3. rec \in Request /\ rec.pc = "select" /\ rec.pool = p /\ rec.intent = i
        /\ rec.chosen = req[r].chosen /\ rec.next = req[r].next
    BY <1>1, <2>2 DEF Request
  <2>4. req' = [req EXCEPT ![r] = rec]
    BY <2>1
  <2> HIDE DEF rec
  <2>5. rec.chosen = {} /\ rec.next = 1
    BY <1>1, <2>3 DEF Ready
  <2>6. Ready(rec) /\ Justified(rec, seen'[r]) /\ Named(rec)
    <3>1. \A j \in 1 .. Len(p.tools) : ~(j < 1)
      BY <2>2, PoolTools
    <3> QED
      BY <2>2, <2>3, <2>5, <3>1 DEF Ready, Justified, Named
  <2> QED
    BY <1>1, <2>1, <2>3, <2>4, <2>6 DEF Goes, Quiet
<1> QED
  BY <1>2, <1>3 DEF Route

(* A selection asks for each tool of its pool; what it finds is among what was seen. *)
LEMMA SelectingSteps ==
    ASSUME TypeOK, Prepared, Watched, Selections, Watch, NEW r \in Requests, SelectTool(r)
    PROVE  \E rec : Goes(r, rec)
<1> DEFINE pool == req[r].pool
           tool == pool.tools[req[r].next]
           may == tool \in Tools /\ HasPermission(req[r].user, RequiredPermission(tool))
           rec == [req[r] EXCEPT !.next = @ + 1, !.chosen = IF may THEN @ \union {tool} ELSE @]
<1>1. /\ req[r].pc = "select" /\ Quiet /\ req' = [req EXCEPT ![r] = rec]
      /\ req[r] \in Request /\ Ready(req[r]) /\ Justified(req[r], seen[r])
  BY DEF SelectTool, TypeOK, Prepared, Selections
<1>2. deletions' \in [Tokens -> Nat]
  BY LookedTypes DEF SelectTool, TypeOK
<1>3. /\ rec \in Request /\ rec.pc = "select" /\ rec.pool = pool /\ rec.intent = req[r].intent
      /\ rec.user = req[r].user /\ rec.next = req[r].next + 1
      /\ rec.chosen = IF may THEN req[r].chosen \union {tool} ELSE req[r].chosen
  <2> DEFINE chosen == IF may THEN req[r].chosen \union {tool} ELSE req[r].chosen
             next == req[r].next + 1
  <2>1. next \in Nat /\ chosen \in SUBSET Tools
    BY <1>1 DEF Request
  <2>2. rec = [req[r] EXCEPT !.next = next, !.chosen = chosen]
    BY <1>1 DEF Request
  <2> HIDE DEF rec, chosen, next
  <2>3. /\ rec \in Request /\ rec.pc = req[r].pc /\ rec.pool = req[r].pool /\ rec.intent = req[r].intent
        /\ rec.user = req[r].user /\ rec.next = next /\ rec.chosen = chosen
    BY <1>1, <2>1, <2>2 DEF Request
  <2> QED
    BY <1>1, <2>3 DEF chosen, next
<1> HIDE DEF rec
<1>4. Ready(rec) /\ Named(rec) /\ pool \in Pools
  BY <1>1, <1>3 DEF Ready, Named
<1>5. /\ seen[r].had \subseteq seen'[r].had /\ seen[r].lacked \subseteq seen'[r].lacked
      /\ Now(r) \subseteq seen'[r].had /\ Kinds \ Now(r) \subseteq seen'[r].lacked
  <2>1. req'[r] = rec
    BY <1>1 DEF TypeOK
  <2>2. seen[r].had \subseteq seen'[r].had /\ seen[r].lacked \subseteq seen'[r].lacked
    BY <1>1, <1>3, <2>1, Remembered
  <2>3. Now(r) \subseteq seen[r].had /\ Kinds \ Now(r) \subseteq seen[r].lacked
    BY <1>1 DEF Watched
  <2> QED
    BY <2>2, <2>3
<1>6. tool \in Tools => (may <=> RequiredPermission(tool) \in Now(r)) /\ RequiredPermission(tool) \in Kinds
  BY PermissionKinds DEF Now, Permitted
<1>7. \A t \in rec.chosen : RequiredPermission(t) \in seen'[r].had
  BY <1>1, <1>3, <1>5, <1>6 DEF Justified
<1>8. ASSUME NEW i \in 1 .. Len(pool.tools), i < rec.next PROVE Passed(rec, seen'[r], i)
  <2>1. i < req[r].next \/ i = req[r].next
    <3>1. req[r].next \in Nat /\ i \in Int
      BY <1>1, <1>4, PoolTools DEF Request
    <3> QED
      BY <1>3, <1>8, <3>1
  <2>2. CASE i < req[r].next
    BY <1>1, <1>3, <1>5, <2>2 DEF Justified, Passed
  <2>3. CASE i = req[r].next
    BY <1>3, <1>5, <1>6, <2>3 DEF Passed
  <2> QED
    BY <2>1, <2>2, <2>3
<1>9. Justified(rec, seen'[r])
  BY <1>3, <1>7, <1>8 DEF Justified
<1> QED
  BY <1>1, <1>2, <1>3, <1>4, <1>9 DEF Goes, Quiet

(* A selection ends. *)
LEMMA SelectedSteps ==
    ASSUME TypeOK, Prepared, Watched, Selections, Watch, NEW r \in Requests, Selected(r) \/ NoTools(r)
    PROVE  \E rec : Goes(r, rec)
<1>1. Quiet /\ deletions' \in [Tokens -> Nat] /\ req[r] \in Request /\ Ready(req[r]) /\ Justified(req[r], seen[r])
  BY DEF Selected, NoTools, TypeOK, Prepared, Selections
<1>2. CASE NoTools(r)
  BY <1>1, <1>2, Endings DEF NoTools
<1>3. CASE Selected(r)
  <2> DEFINE rec == [req[r] EXCEPT !.pc = "selected"]
  <2>1. req[r].pc = "select" /\ Ended(r) /\ req' = [req EXCEPT ![r] = rec]
    BY <1>3 DEF Selected
  <2>2. rec \in Request /\ rec.pc = "selected" /\ rec.pool = req[r].pool /\ rec.chosen = req[r].chosen
    BY <1>1 DEF Request
  <2> HIDE DEF rec
  <2>3. Ready(rec) /\ Named(rec) /\ req[r].pool \in Pools
    BY <1>1, <2>1, <2>2 DEF Ready, Named
  <2>4. seen'[r] = seen[r]
    <3>1. req'[r] = rec
      BY <2>1 DEF TypeOK
    <3> QED
      BY <2>2, <3>1, Remembered
  <2>5. ASSUME NEW i \in 1 .. Len(req[r].pool.tools), ~Full(req[r].pool, Cardinality(req[r].chosen))
        PROVE  Passed(req[r], seen[r], i)
    <3>1. req[r].next > Len(req[r].pool.tools)
      BY <2>1, <2>5 DEF Ended
    <3>2. Len(req[r].pool.tools) \in Nat /\ req[r].next \in Nat
      BY <1>1, <2>3, PoolTools DEF Request
    <3>3. i < req[r].next
      BY <3>1, <3>2
    <3> QED
      BY <1>1, <2>1, <3>3 DEF Justified
  <2>6. Justified(rec, seen'[r])
    BY <1>1, <2>1, <2>2, <2>4, <2>5 DEF Justified, Passed
  <2> QED
    BY <1>1, <2>1, <2>2, <2>3, <2>6 DEF Goes, Quiet
<1> QED
  BY <1>2, <1>3

(* A tool is run for who may run it. *)
LEMMA RunningSteps ==
    ASSUME TypeOK, Prepared, Watched, Selections, Watch, NEW r \in Requests,
           \/ \E tool \in Tools : Execute(r, tool)
           \/ Check(r)
           \/ \E text \in Texts : Run(r, text)
    PROVE  \E rec : Goes(r, rec)
<1>1. Quiet /\ deletions' \in [Tokens -> Nat] /\ req[r] \in Request /\ Ready(req[r])
  <2>1. deletions' \in [Tokens -> Nat]
    BY LookedTypes DEF Execute, Check, Run, TypeOK
  <2> QED
    BY <2>1 DEF Execute, Check, Run, TypeOK, Prepared
<1>2. ASSUME NEW tool \in Tools, Execute(r, tool) PROVE \E rec : Goes(r, rec)
  <2>1. CASE req[r].user = None
    BY <1>1, <1>2, <2>1, Endings DEF Execute
  <2>2. CASE req[r].user # None
    <3> DEFINE rec == [req[r] EXCEPT !.pc = "run", !.tool = tool, !.pool = None, !.intent = None, !.next = 1]
    <3>1. req' = [req EXCEPT ![r] = rec]
      BY <1>2, <2>2 DEF Execute
    <3>2. rec \in Request /\ rec.pc = "run" /\ rec.tool = tool
      BY <1>1 DEF Request
    <3> HIDE DEF rec
    <3>3. Ready(rec) /\ Justified(rec, seen'[r]) /\ Named(rec)
      BY <3>2 DEF Ready, Justified, Named
    <3> QED
      BY <1>1, <3>1, <3>2, <3>3 DEF Goes, Quiet
  <2> QED
    BY <2>1, <2>2
<1>3. CASE Check(r)
  <2>1. CASE ~HasPermission(req[r].user, RequiredPermission(req[r].tool))
    BY <1>1, <1>3, <2>1, Endings DEF Check
  <2>2. CASE HasPermission(req[r].user, RequiredPermission(req[r].tool))
    <3> DEFINE rec == [req[r] EXCEPT !.pc = "call"]
    <3>1. req[r].pc = "run" /\ req' = [req EXCEPT ![r] = rec]
      BY <1>3, <2>2 DEF Check
    <3>2. rec \in Request /\ rec.pc = "call" /\ rec.tool = req[r].tool
      BY <1>1 DEF Request
    <3> HIDE DEF rec
    <3>3. seen'[r] = seen[r]
      <4>1. req'[r] = rec
        BY <3>1 DEF TypeOK
      <4> QED
        BY <3>2, <4>1, Remembered
    <3>4. RequiredPermission(req[r].tool) \in seen[r].had
      BY <2>2, <3>1, PermissionKinds DEF Watched, Now, Permitted
    <3>5. Ready(rec) /\ Justified(rec, seen'[r]) /\ Named(rec)
      BY <1>1, <3>1, <3>2, <3>3, <3>4 DEF Ready, Justified, Named
    <3> QED
      BY <1>1, <3>1, <3>2, <3>5 DEF Goes, Quiet
  <2> QED
    BY <2>1, <2>2
<1>4. ASSUME NEW text \in Texts, Run(r, text) PROVE \E rec : Goes(r, rec)
  <2>1. req[r].tool \in Tools /\ End(r, Delegate(req[r].tool, text))
    BY <1>1, <1>4 DEF Run, Ready
  <2> QED
    BY <1>1, <2>1, Endings
<1> QED
  BY <1>2, <1>3, <1>4

(* Every step of a request is one that goes on as the invariant wants it. *)
LEMMA RequestSteps ==
    ASSUME TypeOK, Registered, Prepared, Watched, Selections, Watch, NEW r \in Requests,
           \/ \E t \in Tokens : Authenticate(r, t)
           \/ \E i \in Intents : Route(r, i)
           \/ \E tool \in Tools : Execute(r, tool)
           \/ \E text \in Texts : Run(r, text)
           \/ Unknown(r) \/ SelectTool(r) \/ Selected(r) \/ NoTools(r) \/ Check(r)
    PROVE  \E rec : Goes(r, rec)
  BY Arrivals, Routings, SelectingSteps, SelectedSteps, RunningSteps

(* A step is one of a session, of the registry, or of a request. *)
LEMMA StepKinds ==
    ASSUME TypeOK, Registered, Prepared, Watched, Selections, Step, Watch
    PROVE  \/ /\ UNCHANGED <<pools, index, req>>
              /\ Stored' \subseteq Tokens /\ sessions' \in [Stored' -> Session]
              /\ deletions' \in [Tokens -> Nat] /\ made' \in Made /\ made'.left = made.left
           \/ /\ UNCHANGED <<sessions, deletions, req>> /\ \A r \in Requests : req[r].pc # "select"
              /\ DOMAIN pools' \subseteq {p.id : p \in Pools} /\ pools' \in [DOMAIN pools' -> Pools]
              /\ index' \in [Words -> SUBSET {p.id : p \in Pools}]
              /\ made' \in Made
              /\ Registered' /\ (Indexed => Indexed')
           \/ \E r \in Requests : \E rec : Goes(r, rec)
<1>1. CASE \/ \E u \in Users : \/ CreateSession(u, "agent")
                              \/ \E role \in {"viewer", "guest"} : SetSession(u, RolePermissions(role))
                              \/ SetSession(u, {<<"slo", "*">>, <<"alerting", "write">>})
           \/ \E t \in Tokens : Delete(t) \/ LateDelete(t) \/ Expire(t)
  BY <1>1, SessionSteps
<1>2. CASE \/ \E p \in {AlertingDefault, TopologyDefault} : RegisterProvider(p)
           \/ \E p \in Custom : RegisterPool(p)
           \/ \E id \in DOMAIN pools : UnregisterPool(id)
  BY <1>2, RegistrySteps
<1>3. ASSUME NEW r \in Requests,
             \/ \E t \in Tokens : Authenticate(r, t)
             \/ \E i \in Intents : Route(r, i)
             \/ \E tool \in Tools : Execute(r, tool)
             \/ \E text \in Texts : Run(r, text)
             \/ Unknown(r) \/ SelectTool(r) \/ Selected(r) \/ NoTools(r) \/ Check(r)
      PROVE  \E rec : Goes(r, rec)
  BY <1>3, RequestSteps
<1> QED
  BY <1>1, <1>2, <1>3 DEF Step

(* Every step keeps the invariant. *)
LEMMA NextHolds == Invariant /\ [Next]_vars => Invariant'
<1> SUFFICES ASSUME Invariant, [Next]_vars PROVE Invariant'
  OBVIOUS
<1>0. TypeOK /\ Registered /\ Prepared /\ Watched /\ Selections /\ ToolsKeepTheirName
  BY DEF Invariant
<1>1. CASE Next
  <2>1. Step /\ Watch
    BY <1>1 DEF Next
  <2>2. seen' \in [Requests -> [had : SUBSET Kinds, lacked : SUBSET Kinds]] /\ Watched'
    BY <1>0, <2>1, Remembered DEF Watched
  <2>3. CASE UNCHANGED req
    <3>1. Prepared' /\ Selections'
      BY <1>0, <2>1, <2>3, Untouched DEF Prepared, Selections
    <3>2. ToolsKeepTheirName'
      BY <1>0, <2>3 DEF ToolsKeepTheirName
    <3>3. TypeOK' /\ Registered'
      <4>1. CASE /\ UNCHANGED <<pools, index, req>>
                 /\ Stored' \subseteq Tokens /\ sessions' \in [Stored' -> Session]
                 /\ deletions' \in [Tokens -> Nat] /\ made' \in Made
        BY <1>0, <2>2, <2>3, <4>1 DEF TypeOK, Registered
      <4>2. CASE /\ UNCHANGED <<sessions, deletions, req>>
                 /\ DOMAIN pools' \subseteq {p.id : p \in Pools} /\ pools' \in [DOMAIN pools' -> Pools]
                 /\ index' \in [Words -> SUBSET {p.id : p \in Pools}]
                 /\ made' \in Made /\ Registered'
        BY <1>0, <2>2, <2>3, <4>2 DEF TypeOK, Stored
      <4>3. CASE \E r \in Requests : \E rec : Goes(r, rec)
        BY <1>0, <2>2, <2>3, <4>3 DEF TypeOK, Registered, Goes, Stored
      <4> QED
        BY <1>0, <2>1, <4>1, <4>2, <4>3, StepKinds
    <3> QED
      BY <2>2, <3>1, <3>2, <3>3 DEF Invariant
  <2>4. CASE req' # req
    <3>0. PICK r \in Requests : \E rec : Goes(r, rec)
      BY <1>0, <2>1, <2>4, StepKinds
    <3>1. PICK rec : Goes(r, rec)
      BY <3>0
    <3>2. req' \in [Requests -> Request] /\ req'[r] = rec /\ \A q \in Requests \ {r} : req'[q] = req[q]
      BY <1>0, <3>1 DEF Goes, TypeOK
    <3>3. Prepared' /\ Selections'
      <4>1. \A q \in Requests \ {r} : Ready(req'[q]) /\ Justified(req'[q], seen'[q])
        BY <1>0, <2>1, <3>2, Untouched
      <4>2. Ready(req'[r]) /\ Justified(req'[r], seen'[r])
        BY <3>1, <3>2 DEF Goes
      <4> QED
        BY <4>1, <4>2 DEF Prepared, Selections
    <3>4. ToolsKeepTheirName'
      BY <1>0, <3>1, <3>2 DEF ToolsKeepTheirName, Goes, Named
    <3>5. TypeOK' /\ Registered'
      BY <1>0, <2>2, <3>1, <3>2 DEF TypeOK, Registered, Goes, Stored
    <3> QED
      BY <2>2, <3>3, <3>4, <3>5 DEF Invariant
  <2> QED
    BY <2>3, <2>4
<1>2. CASE UNCHANGED vars
  <2>1. UNCHANGED <<pools, index, sessions, deletions, req, seen, made>>
    BY <1>2 DEF vars
  <2>2. \A r : Now(r)' = Now(r)
    BY <2>1 DEF Now, Permitted, HasPermission, Live, Stored
  <2>3. TypeOK' /\ Registered'
    BY <1>0, <2>1 DEF TypeOK, Registered, Stored
  <2>4. Prepared' /\ Watched' /\ Selections' /\ ToolsKeepTheirName'
    BY <1>0, <2>1, <2>2 DEF Prepared, Watched, Selections, ToolsKeepTheirName
  <2> QED
    BY <2>3, <2>4 DEF Invariant
<1> QED
  BY <1>1, <1>2

(* The invariant holds, whatever sessions and pools come and go. *)
THEOREM Invariance == Spec => []Invariant
<1>1. Init => Invariant
  BY InitHolds
<1> QED
  BY <1>1, NextHolds, PTL DEF Spec

(* Every variable keeps its type. *)
THEOREM TypeCorrect == Spec => []TypeOK
<1>1. Invariant => TypeOK
  BY DEF Invariant
<1> QED
  BY <1>1, Invariance, PTL

(* A tool is selected, or run, only for a user who had the permission at some moment of the      *)
(* selection, or of the run; one of the pool is left out only if the user lacked it, or the      *)
(* selection was full: however sessions are set, expire and are deleted in between.              *)
THEOREM PermittedOnly == Spec => []OnlyWhatIsPermitted
<1>1. Invariant => OnlyWhatIsPermitted
  BY DEF Invariant, Selections, Justified, Passed, OnlyWhatIsPermitted, SelectionIsPermitted, RunIsPermitted
<1> QED
  BY <1>1, Invariance, PTL

(* A tool calls the service that its name says, or none, with a limit where there must be one,   *)
(* whatever action and numbers its arguments hold.                                               *)
THEOREM NamesHold == Spec => []ToolsKeepTheirName
<1>1. Invariant => ToolsKeepTheirName
  BY DEF Invariant
<1> QED
  BY <1>1, Invariance, PTL

-----------------------------------------------------------------------------
(* Routing.  The pools that match an intent have a keyword that occurs in it. *)
Matching(intent) == {id \in DOMAIN pools : pools[id].keywords \intersect intent.within # {}}
Astray(intent) == {id \in DOMAIN pools : \E w \in intent.words : <<id, w>> \in made.left}
Right(p, intent) ==
    /\ p.id \in IF Matching(intent) = {} THEN Astray(intent) \union {"general"}
                                         ELSE Matching(intent) \union Astray(intent)
    /\ \A id \in Matching(intent) : pools[id].priority <= p.priority

(* A candidate matches the intent or lost its id; and what matches is a candidate. *)
LEMMA CandidatesMatch ==
    ASSUME TypeOK, Indexed, NEW i \in Intents
    PROVE  /\ \A p \in Candidates(i) : \E id \in Matching(i) \union Astray(i) : p = pools[id]
           /\ \A id \in Matching(i) : pools[id] \in Candidates(i)
<1>1. i.words \intersect Words \subseteq i.within /\ (i.words = {} => i.within = {})
  BY InputsAssumption
<1>2. CASE i.words = {}
  BY <1>1, <1>2 DEF Candidates, Matching
<1>3. CASE i.words # {}
  <2> DEFINE ids == UNION {index[w] : w \in i.words \intersect Words}
             found == {id \in DOMAIN pools : id \in ids \/ pools[id].keywords \intersect i.within # {}}
  <2>1. ASSUME NEW id \in ids, id \in DOMAIN pools PROVE id \in Matching(i) \union Astray(i)
    <3>1. PICK w \in i.words \intersect Words : id \in index[w]
      BY <2>1
    <3>2. CASE w \in pools[id].keywords
      BY <1>1, <2>1, <3>1, <3>2 DEF Matching
    <3>3. CASE <<id, w>> \in made.left
      BY <2>1, <3>1, <3>3 DEF Astray
    <3> QED
      BY <3>1, <3>2, <3>3 DEF Indexed
  <2>2. found \subseteq Matching(i) \union Astray(i) /\ Matching(i) \subseteq found
    BY <2>1 DEF Matching
  <2>3. Candidates(i) = {pools[id] : id \in found}
    BY <1>3 DEF Candidates
  <2> QED
    BY <2>2, <2>3
<1> QED
  BY <1>2, <1>3

(* The pool that a route chooses is the right one. *)
LEMMA RouteRight ==
    ASSUME TypeOK, Registered, Indexed, NEW i \in Intents, NEW p \in Routes(i)
    PROVE  Right(p, i)
<1>1. \A id \in Matching(i) \union Astray(i) : id \in DOMAIN pools /\ pools[id].id = id
  BY DEF Matching, Astray, Registered
<1>2. CASE Candidates(i) = {}
  <2>1. Matching(i) = {}
    BY <1>2, CandidatesMatch
  <2>2. "general" \in DOMAIN pools /\ pools["general"].id = "general"
    BY DEF Registered
  <2>3. p = pools["general"]
    BY <1>2, <2>2 DEF Routes
  <2> QED
    BY <2>1, <2>2, <2>3 DEF Right
<1>3. CASE Candidates(i) # {}
  <2>1. p \in Candidates(i) /\ \A q \in Candidates(i) : q.priority <= p.priority
    BY <1>3 DEF Routes
  <2>2. PICK id \in Matching(i) \union Astray(i) : p = pools[id]
    BY <2>1, CandidatesMatch
  <2>3. \A j \in Matching(i) : pools[j].priority <= p.priority
    BY <2>1, CandidatesMatch
  <2> QED
    BY <1>1, <2>2, <2>3 DEF Right
<1> QED
  BY <1>2, <1>3

(* Every step keeps the index sound and selections rightly routed. *)
LEMMA RoutingSteps ==
    ASSUME Invariant, Indexed, RoutedByKeyword, [Next]_vars
    PROVE  Indexed' /\ RoutedByKeyword'
<1>1. TypeOK /\ Registered /\ Prepared /\ Watched /\ Selections
  BY DEF Invariant
<1>2. \A r \in Requests : req[r].pc = "select" => Right(req[r].pool, req[r].intent)
  BY DEF RoutedByKeyword, Right, Astray, Matching
<1>3. ASSUME UNCHANGED <<pools, index, req>>, made'.left = made.left PROVE Indexed' /\ RoutedByKeyword'
  BY <1>3 DEF Indexed, RoutedByKeyword
<1>4. CASE /\ UNCHANGED <<sessions, deletions, req>> /\ \A r \in Requests : req[r].pc # "select"
           /\ Indexed => Indexed'
  BY <1>4 DEF RoutedByKeyword
<1>5. ASSUME NEW r \in Requests, NEW rec, Goes(r, rec) PROVE Indexed' /\ RoutedByKeyword'
  <2>1. UNCHANGED <<pools, index, made>> /\ req'[r] = rec /\ \A q \in Requests \ {r} : req'[q] = req[q]
    BY <1>1, <1>5 DEF Goes, TypeOK
  <2>2. ASSUME rec.pc = "select" PROVE Right(rec.pool, rec.intent)
    <3>1. CASE req[r].pc = "select" /\ rec.pool = req[r].pool /\ rec.intent = req[r].intent
      BY <1>2, <3>1
    <3>2. CASE rec.pool \in Routes(rec.intent)
      <4>1. rec.intent \in Intents
        BY <1>5, <2>2 DEF Goes, Ready
      <4> QED
        BY <1>1, <3>2, <4>1, RouteRight
    <3> QED
      BY <1>5, <2>2, <3>1, <3>2 DEF Goes
  <2>3. ASSUME NEW q \in Requests, req'[q].pc = "select" PROVE Right(req'[q].pool, req'[q].intent)
    BY <1>2, <2>1, <2>2, <2>3
  <2>4. \A p, i : Right(p, i)' <=> Right(p, i)
    BY <2>1 DEF Right, Astray, Matching
  <2>5. RoutedByKeyword'
    BY <2>1, <2>3, <2>4 DEF RoutedByKeyword, Right, Astray, Matching
  <2> QED
    BY <2>1, <2>5 DEF Indexed
<1>6. CASE Next
  <2>1. Step /\ Watch
    BY <1>6 DEF Next
  <2> QED
    BY <1>1, <1>3, <1>4, <1>5, <2>1, StepKinds
<1>7. CASE UNCHANGED vars
  BY <1>3, <1>7 DEF vars
<1> QED
  BY <1>6, <1>7

(* However pools were registered and unregistered before, the pool of a selection has a keyword  *)
(* of the intent, or has the id of one that had and was replaced (the provider of alerts takes   *)
(* the id "alert" from a caller's pool, whose keywords stay in the index); and no pool with a    *)
(* keyword of the intent has a higher priority.                                                  *)
THEOREM RoutedRightly == Spec => []RoutedByKeyword
<1> DEFINE Inv == Invariant /\ Indexed /\ RoutedByKeyword
<1>1. Init => Inv
  <2>1. Init => RoutedByKeyword
    BY DEF Init, RoutedByKeyword, New
  <2> QED
    BY <2>1, InitHolds
<1>2. Inv /\ [Next]_vars => Inv'
  BY NextHolds, RoutingSteps
<1>3. Inv => RoutedByKeyword
  OBVIOUS
<1> QED
  BY <1>1, <1>2, <1>3, PTL DEF Spec

=============================================================================
