----------------------------- MODULE ToolPools ------------------------------
(***************************************************************************)
(* The pools of tools an agent chooses from, and the sessions that permit  *)
(* it: PoolRegistry, IntentRouter and AuthzToolWrapper of                  *)
(* internal/agent/infrastructure/eino, and infrastructure/auth.            *)
(*                                                                         *)
(* A selection holds the read lock of the registry from its routing to its *)
(* end, but each look at a session is a step of its own: sessions are set, *)
(* expire and go in between.  PoolRegistry and IntentRouter change their   *)
(* maps of pools together, under the lock of the first: pools is both.     *)
(***************************************************************************)
EXTENDS AgentTools, FiniteSets, Sequences

CONSTANTS Requests,
          Users,
          Generated,    \* what generateToken returns: the same each time
          Custom,       \* pools that a caller may register
          Intents,      \* each: its words, and the keywords that occur in it
          Texts,        \* arguments of tools
          MaxSessions,  \* bound: how often a session is set
          MaxPools,     \* bound: how often the registry is changed
          MaxDeletions, \* bound: how many late deletions of one token are kept
          Budget        \* MaxToolsPerRequest

ASSUME ToolPoolsAssumption ==
    /\ Generated \notin Users
    /\ {MaxSessions, MaxPools, MaxDeletions, Budget} \subseteq Nat

VARIABLES pools,     \* id -> pool, of those registered
          index,     \* keyword -> ids
          sessions,  \* token -> session, of those stored
          deletions, \* token -> deletions that goroutines have still to make
          req,       \* the requests
          seen,      \* history: permissions a user had, and lacked, during a selection or run
          made       \* history: sessions set, changes of the registry, and of the pools that
                     \* lost their id to another, the keywords left in the index

vars == <<pools, index, sessions, deletions, req, seen, made>>

Kinds == {"alerting", "slo", "service"}
Tokens == Users \union {Generated}

\* One keyword stands for those of a pool that no other pool has.
Pool(id, keyword, tools, priority, max, builtin) ==
    [id |-> id, keywords |-> {keyword}, tools |-> tools, priority |-> priority, max |-> max,
     builtin |-> builtin]

\* The pool of alerts names a tool "alerting_feedback", which none has.
BuiltinPools == {
    Pool("alerting", "alert", <<"alerting_list_active", "alerting_list_history", "alerting_stats",
         "alerting_noisy", "alerting_high_risk", "alerting_feedback">>, 9, 6, TRUE),
    Pool("slo", "slo", <<"slo_list", "slo_get", "slo_get_error_budget", "slo_get_burn_rate_alerts",
         "slo_get_summary">>, 7, 5, TRUE),
    Pool("topology", "topology", <<"topology_get_service_topology", "topology_get_network_topology",
         "topology_get_node", "topology_get_upstream", "topology_get_downstream", "topology_analyze_impact",
         "topology_find_path", "topology_find_shortest_path", "topology_find_anomalies",
         "topology_get_stats">>, 8, 8, TRUE),
    Pool("general", "overview", <<"alerting_list_active", "alerting_stats", "slo_list", "slo_get_summary",
         "topology_get_service_topology", "topology_get_stats", "topology_find_anomalies">>, 1, 7, TRUE)}

\* The pool each provider brings itself, if any.
AlertingDefault == Pool("alert", "alert", <<"alerting_list_active", "alerting_list_history",
    "alerting_stats", "alerting_noisy", "alerting_high_risk", "alerting_get_feedback">>, 10, 8, TRUE)
TopologyDefault == Pool("topology", "topology", <<"topology_get_service_topology",
    "topology_get_network_topology", "topology_get_node", "topology_get_upstream", "topology_get_downstream",
    "topology_analyze_impact", "topology_find_path", "topology_find_shortest_path",
    "topology_find_anomalies", "topology_get_stats">>, 8, 10, TRUE)

Pools == BuiltinPools \union Custom \union {AlertingDefault, TopologyDefault}
Words == UNION {p.keywords : p \in Pools}

\* A caller's pool is as any other.  A word that is a keyword occurs in the intent, and in an
\* intent without words, which has separators only, no keyword does.  A limit may be any number.
ASSUME InputsAssumption ==
    /\ \A p \in Custom : p.tools \in Seq(STRING)
    /\ \A i \in Intents : i.words \intersect Words \subseteq i.within /\ (i.words = {} => i.within = {})
    /\ \A t \in Texts : t.limit \in Int /\ t = [Text(t.action, t.id, t.name, t.limit) EXCEPT !.kind = t.kind]

\* Function f, but for v at x.
Put(f, x, v) == [y \in DOMAIN f \union {x} |-> IF y = x THEN v ELSE f[y]]

New == [pc |-> "new", user |-> None, pool |-> None, chosen |-> {}, next |-> 1,
        intent |-> None, tool |-> None, call |-> None]

\* SetupPoolRegistry registers the built-in pools and every tool.
Init == /\ pools = [id \in {p.id : p \in BuiltinPools} |-> CHOOSE p \in BuiltinPools : p.id = id]
        /\ index = [w \in Words |-> {p.id : p \in {q \in BuiltinPools : w \in q.keywords}}]
        /\ sessions = <<>>
        /\ deletions = [t \in Tokens |-> 0]
        /\ req = [r \in Requests |-> New]
        /\ seen = [r \in Requests |-> [had |-> {}, lacked |-> {}]]
        /\ made = [sessions |-> 0, pools |-> 0, left |-> {}]

-----------------------------------------------------------------------------
\* Sessions.

RolePermissions(role) ==
    CASE role = "admin" -> {<<"*", "*">>}
      [] role \in {"viewer", "agent"} -> Kinds \X {"read"}
      [] role = "editor" -> Kinds \X {"read", "write"}
      [] OTHER -> {}

Stored == DOMAIN sessions
Live(t) == t \in Stored /\ sessions[t].live

\* The goroutine of Get that found a session too old deletes it later.
Looked(t) == deletions' = IF t \in Stored /\ ~sessions[t].live /\ deletions[t] < MaxDeletions
                          THEN [deletions EXCEPT ![t] = @ + 1] ELSE deletions

\* The session is looked up under the user's id, whatever token it was made with.
HasPermission(u, kind) ==
    /\ Live(u)
    /\ sessions[u].permissions \intersect {<<kind, "read">>, <<kind, "*">>, <<"*", "*">>} # {}

Set(t, u, permissions) ==
    /\ made.sessions < MaxSessions
    /\ made' = [made EXCEPT !.sessions = @ + 1]
    /\ sessions' = Put(sessions, t, [user |-> u, permissions |-> permissions, live |-> TRUE])
    /\ UNCHANGED <<pools, index, deletions, req>>

CreateSession(u, role) == Set(Generated, u, RolePermissions(role))

\* The store's Set, with a token of the caller's choice.
SetSession(u, permissions) == Set(u, u, permissions)

Without(t) == [s \in Stored \ {t} |-> sessions[s]]

Delete(t) == /\ t \in Stored
             /\ sessions' = Without(t)
             /\ UNCHANGED <<pools, index, deletions, req, made>>

LateDelete(t) == /\ deletions[t] > 0
                 /\ deletions' = [deletions EXCEPT ![t] = @ - 1]
                 /\ sessions' = Without(t)
                 /\ UNCHANGED <<pools, index, req, made>>

Expire(t) == /\ Live(t)
             /\ sessions' = [sessions EXCEPT ![t].live = FALSE]
             /\ UNCHANGED <<pools, index, deletions, req, made>>

-----------------------------------------------------------------------------
\* The registry.  Its write lock waits for selections under way.

WriteLock(left) == /\ made.pools < MaxPools
                   /\ \A r \in Requests : req[r].pc # "select"
                   /\ made' = [made EXCEPT !.pools = @ + 1, !.left = @ \union left]
                   /\ UNCHANGED <<sessions, deletions, req>>

\* A pool takes the place of one with its id, but not in the index.
AddPool(p) == /\ pools' = Put(pools, p.id, p)
              /\ index' = [w \in Words |-> IF w \in p.keywords THEN index[w] \union {p.id} ELSE index[w]]

Left(p) == IF p.id \in DOMAIN pools THEN {p.id} \X (pools[p.id].keywords \ p.keywords) ELSE {}

\* Mutant: the id stays under the keywords.
RemovePoolOnly(id) == pools' = [i \in DOMAIN pools \ {id} |-> pools[i]] /\ index' = index

RemovePool(id) == /\ pools' = [i \in DOMAIN pools \ {id} |-> pools[i]]
                  /\ index' = [w \in Words |-> IF w \in pools[id].keywords THEN index[w] \ {id} ELSE index[w]]

\* RegisterProviderWithTools registers the same tools once more, and its pools whether or
\* not their ids are taken, which RegisterPool refuses.
RegisterProvider(p) == WriteLock(Left(p)) /\ AddPool(p)
RegisterPool(p) == WriteLock({}) /\ p.id \notin DOMAIN pools /\ AddPool(p)
UnregisterPool(id) == WriteLock({}) /\ id \in DOMAIN pools /\ ~pools[id].builtin /\ RemovePool(id)

-----------------------------------------------------------------------------
\* Requests.

Quiet == UNCHANGED <<pools, index, sessions, made>>
End(r, call) == req' = [req EXCEPT ![r] = [New EXCEPT !.pc = "done", !.tool = req[r].tool, !.call = call]]

\* ValidateToken gives the user of the session that the token finds.
Authenticate(r, t) ==
    /\ req[r].pc = "new" /\ Quiet
    /\ Looked(t)
    /\ IF Live(t) THEN req' = [req EXCEPT ![r].pc = "known", ![r].user = sessions[t].user]
                  ELSE End(r, Failed)

\* A request that does not come through this middleware has no user.
Unknown(r) == /\ req[r].pc = "new" /\ Quiet /\ UNCHANGED deletions
              /\ req' = [req EXCEPT ![r].pc = "known"]

\* Pools the index has under a word, and pools with a keyword anywhere in the intent.
Candidates(intent) ==
    LET ids == UNION {index[w] : w \in intent.words \intersect Words}
    IN IF intent.words = {} THEN {}
       ELSE {pools[id] : id \in {i \in DOMAIN pools : \/ i \in ids
                                                       \/ pools[i].keywords \intersect intent.within # {}}}

\* Candidates are sorted by priority alone: equals come in any order.
Routes(intent) ==
    LET best == Candidates(intent)
    IN CASE best # {} -> {p \in best : \A q \in best : q.priority <= p.priority}
         [] best = {} /\ "general" \in DOMAIN pools -> {pools["general"]}
         [] OTHER -> {pools[id] : id \in DOMAIN pools}

Route(r, intent) ==
    /\ req[r].pc = "known" /\ Quiet /\ UNCHANGED deletions
    /\ \/ /\ req[r].user = None \/ Routes(intent) = {}
          /\ End(r, Failed)
       \/ /\ req[r].user # None
          /\ \E p \in Routes(intent) :
                req' = [req EXCEPT ![r].pc = "select", ![r].pool = p, ![r].intent = intent]

Limit(p) == IF p.max > 0 THEN p.max ELSE Budget
Full(p, n) == Limit(p) > 0 /\ n >= Limit(p)
Ended(r) == \/ req[r].next > Len(req[r].pool.tools)
            \/ Full(req[r].pool, Cardinality(req[r].chosen))

\* Mutant: a tool that is not permitted ends the selection.
SelectToolWhilePermitted(r) ==
    LET tool == req[r].pool.tools[req[r].next]
        may == tool \in Tools /\ HasPermission(req[r].user, RequiredPermission(tool))
    IN /\ req[r].pc = "select" /\ ~Ended(r) /\ Quiet
       /\ IF tool \in Tools THEN Looked(req[r].user) ELSE UNCHANGED deletions
       /\ req' = [req EXCEPT ![r].next = IF may \/ tool \notin Tools THEN @ + 1
                                          ELSE Len(req[r].pool.tools) + 1,
                             ![r].chosen = IF may THEN @ \union {tool} ELSE @]

\* A name without a tool is passed over, as is a tool that is not permitted.
SelectTool(r) ==
    LET tool == req[r].pool.tools[req[r].next]
        may == tool \in Tools /\ HasPermission(req[r].user, RequiredPermission(tool))
    IN /\ req[r].pc = "select" /\ ~Ended(r) /\ Quiet
       /\ IF tool \in Tools THEN Looked(req[r].user) ELSE UNCHANGED deletions
       /\ req' = [req EXCEPT ![r].next = @ + 1, ![r].chosen = IF may THEN @ \union {tool} ELSE @]

\* NewToolsNodeFromPool refuses an empty selection.
Selected(r) ==
    /\ req[r].pc = "select" /\ Ended(r) /\ Quiet /\ UNCHANGED deletions
    /\ req' = [req EXCEPT ![r].pc = "selected"]
NoTools(r) ==
    /\ req[r].pc = "selected" /\ req[r].chosen = {} /\ Quiet /\ UNCHANGED deletions
    /\ End(r, Failed)

\* A tool is run by the agent, of those selected, or by name.
Execute(r, tool) ==
    /\ \/ req[r].pc = "selected" /\ tool \in req[r].chosen
       \/ req[r].pc = "known"
    /\ Quiet /\ UNCHANGED deletions
    /\ IF tool \notin Tools \/ req[r].user = None THEN End(r, Failed)
       ELSE req' = [req EXCEPT ![r].pc = "run", ![r].tool = tool, ![r].pool = None,
                                                      ![r].intent = None, ![r].next = 1]

\* The wrapper asks once more, whatever the selection found.
Check(r) ==
    /\ req[r].pc = "run" /\ Quiet
    /\ Looked(req[r].user)
    /\ IF HasPermission(req[r].user, RequiredPermission(req[r].tool))
       THEN req' = [req EXCEPT ![r].pc = "call"] ELSE End(r, Failed)

\* The arguments came with the call of the tool, and are looked at here.
Run(r, text) == /\ req[r].pc = "call" /\ Quiet /\ UNCHANGED deletions
                /\ End(r, Delegate(req[r].tool, text))

-----------------------------------------------------------------------------
Step == \/ \E u \in Users : CreateSession(u, "agent")
                            \/ \E role \in {"viewer", "guest"} : SetSession(u, RolePermissions(role))
                            \/ SetSession(u, {<<"slo", "*">>, <<"alerting", "write">>})
        \/ \E t \in Tokens : Delete(t) \/ LateDelete(t) \/ Expire(t)
        \/ \E p \in {AlertingDefault, TopologyDefault} : RegisterProvider(p)
        \/ \E p \in Custom : RegisterPool(p)
        \/ \E id \in DOMAIN pools : UnregisterPool(id)
        \/ \E r \in Requests :
              \/ \E t \in Tokens : Authenticate(r, t)
              \/ \E i \in Intents : Route(r, i)
              \/ \E tool \in Tools : Execute(r, tool)
              \/ \E text \in Texts : Run(r, text)
              \/ Unknown(r) \/ SelectTool(r) \/ Selected(r) \/ NoTools(r) \/ Check(r)

\* What the user of a request has had and lacked since its selection, or its run, began.
Permitted(u) == {k \in Kinds : HasPermission(u, k)}
Watch == seen' = [r \in Requests |->
    LET now == [had |-> Permitted(req[r].user)', lacked |-> Kinds \ Permitted(req[r].user)']
    IN CASE req'[r].pc \in {"select", "run"} /\ req[r].pc # req'[r].pc -> now
         [] req'[r].pc \in {"select", "run"} /\ req[r].pc = req'[r].pc ->
                [had |-> seen[r].had \union now.had, lacked |-> seen[r].lacked \union now.lacked]
         [] req'[r].pc = "done" -> [had |-> {}, lacked |-> {}]
         [] OTHER -> seen[r]]

Next == Step /\ Watch

Spec == Init /\ [][Next]_vars

-----------------------------------------------------------------------------
\* Route, however pools were registered and unregistered before: the pool chosen has a
\* keyword of the intent, or its id once was that of a pool which had one and was replaced
\* without being taken from the index; and no pool with a keyword of the intent has a higher
\* priority.  When no pool has one, it may be the general pool (pool.go:79-148, :308-345).
RoutedByKeyword == \A r \in Requests : req[r].pc = "select" =>
    LET intent == req[r].intent
        matching == {id \in DOMAIN pools : pools[id].keywords \intersect intent.within # {}}
        astray == {id \in DOMAIN pools : \E w \in intent.words : <<id, w>> \in made.left}
    IN /\ req[r].pool.id \in IF matching = {} THEN astray \union {"general"} ELSE matching \union astray
       /\ \A id \in matching : pools[id].priority <= req[r].pool.priority

\* SelectTools: while sessions come and go, a tool is selected only if its
\* permission was held at some moment of the selection, and one of the pool
\* is left out only if its permission was lacking at some moment, or the
\* selection was full.
SelectionIsPermitted == \A r \in Requests : req[r].pc = "selected" =>
    /\ \A tool \in req[r].chosen : RequiredPermission(tool) \in seen[r].had
    /\ \A i \in 1 .. Len(req[r].pool.tools) : LET tool == req[r].pool.tools[i] IN
          \/ tool \in req[r].chosen \/ tool \notin Tools
          \/ RequiredPermission(tool) \in seen[r].lacked
          \/ Full(req[r].pool, Cardinality(req[r].chosen))

\* AuthzToolWrapper: a tool calls its service only for a user who had the
\* permission at some moment since the run began, however it was selected.
RunIsPermitted == \A r \in Requests : req[r].pc = "call" =>
    RequiredPermission(req[r].tool) \in seen[r].had

\* Neither a selection nor a run goes beyond what the sessions permit, for both ask while
\* sessions come and go (pool.go:394-415, registry.go:57-77).
OnlyWhatIsPermitted == SelectionIsPermitted /\ RunIsPermitted

\* FatToolDelegator: a tool calls the service its name says, or none,
\* whatever action its arguments hold; what is limited has a limit.
Meaning == [topology_get_service_topology |-> {"GetServiceTopology"},
            topology_get_node |-> {"GetServiceNode", "GetServiceNodeByName"},
            topology_get_upstream |-> {"GetUpstreamServices"},
            topology_find_path |-> {"FindPath"},
            alerting_list_history |-> {"GetAlertRecords"},
            alerting_stats |-> {"GetAlertRecordStats"},
            alerting_get_feedback |-> {"GetAlertFeedback"},
            slo_list |-> {"ListSLOs"},
            slo_get |-> {"GetSLO"}]
Limited == {"GetUpstreamServices", "FindPath", "GetAlertRecords"}
ToolsKeepTheirName == \A r \in Requests : req[r].pc = "done" /\ req[r].tool \in DOMAIN Meaning =>
    /\ req[r].call.op \in Meaning[req[r].tool] \union {"error", "panic"}
    /\ req[r].call.op \in Limited => req[r].call.limit > 0
=============================================================================
