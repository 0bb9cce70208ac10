----------------------------- MODULE AgentTools -----------------------------
(***************************************************************************)
(* The tools of the agent: internal/agent/infrastructure/eino.  Twenty-one *)
(* thin tools, each with a name and a fixed action, share three fat tools  *)
(* that read the action and the other arguments from a JSON text and call  *)
(* a service.  The formatting of answers is left out.                      *)
(*                                                                         *)
(* A text is an object with the fields below, or no object ("empty" stands *)
(* for "" and {}, "broken" for what is not JSON, "mistyped" for a number   *)
(* where a string should be).  id stands for the field, or the two fields, *)
(* that name what the action is about; limit for depth, hops or limit.     *)
(***************************************************************************)
EXTENDS Integers

CONSTANTS None

Text(action, id, name, limit) ==
    [kind |-> "object", action |-> action, id |-> id, name |-> name, limit |-> limit]
NoObject(kind) == [Text(None, None, None, 0) EXCEPT !.kind = kind]

Call(op, id, limit) == [op |-> op, id |-> id, limit |-> limit]
Failed == Call("error", None, 0)
Panicked == Call("panic", None, 0)

-----------------------------------------------------------------------------
\* The fat tools: what each action calls.

OrDefault(limit, default) == IF limit > 0 THEN limit ELSE default
WithId(text, op, limit) == IF text.id = "good" THEN Call(op, "good", limit) ELSE Failed

GetTopology(text) == Call("GetServiceTopology", None, 0)
GetNetworkTopology(text) == Call("GetNetworkTopology", None, 0)

GetNode(text) == IF text.id = None /\ text.name # None THEN Call("GetServiceNodeByName", None, 0)
                 ELSE WithId(text, "GetServiceNode", 0)

GetUpstream(text) == WithId(text, "GetUpstreamServices", OrDefault(text.limit, 3))
GetDownstream(text) == WithId(text, "GetDownstreamServices", OrDefault(text.limit, 3))
AnalyzeImpact(text) == WithId(text, "AnalyzeImpact", OrDefault(text.limit, 5))
FindPath(text) == WithId(text, "FindPath", OrDefault(text.limit, 10))
FindShortestPath(text) == WithId(text, "FindShortestPath", 0)

Topology(text) ==
    CASE text.action = "get_topology" -> GetTopology(text)
      [] text.action = "get_network_topology" -> GetNetworkTopology(text)
      [] text.action = "get_node" -> GetNode(text)
      [] text.action = "get_upstream" -> GetUpstream(text)
      [] text.action = "get_downstream" -> GetDownstream(text)
      [] text.action = "analyze_impact" -> AnalyzeImpact(text)
      [] text.action = "find_path" -> FindPath(text)
      [] text.action = "find_shortest_path" -> FindShortestPath(text)
      [] text.action = "find_anomalies" -> Call("FindAnomalies", None, 0)
      [] text.action = "get_stats" -> Call("GetTopologyStats", None, 0)
      [] OTHER -> Failed

ListActiveAlerts(text) == Call("GetAlerts", None, 0)
ListHistory(text) == Call("GetAlertRecords", None, OrDefault(text.limit, 20))
GetStats(text) == Call("GetAlertRecordStats", None, 0)
GetNoisyAlerts(text) == Call("GetNoisyAlerts", None, OrDefault(text.limit, 20))
GetHighRiskAlerts(text) == Call("GetHighRiskAlerts", None, OrDefault(text.limit, 20))
\* A fingerprint is any text: it cannot be malformed.
GetFeedback(text) == IF text.id = None THEN Failed ELSE Call("GetAlertFeedback", text.id, 0)

Alerting(text) ==
    CASE text.action = "list_active" -> ListActiveAlerts(text)
      [] text.action = "list_history" -> ListHistory(text)
      [] text.action = "stats" -> GetStats(text)
      [] text.action = "noisy" -> GetNoisyAlerts(text)
      [] text.action = "high_risk" -> GetHighRiskAlerts(text)
      [] text.action = "feedback" -> GetFeedback(text)
      [] OTHER -> Failed

ListSLOs(text) == IF text.id = "bad" THEN Failed ELSE Call("ListSLOs", text.id, 0)
GetSLO(text) == WithId(text, "GetSLO", 0)
GetErrorBudget(text) == WithId(text, "GetErrorBudget", 0)
GetBurnRateAlerts(text) == Call("GetBurnRateAlerts", None, 0)
GetSummary(text) == Call("GetSLOSummary", None, 0)

SLO(text) == CASE text.action = "list" -> ListSLOs(text)
               [] text.action = "get" -> GetSLO(text)
               [] text.action = "error_budget" -> GetErrorBudget(text)
               [] text.action = "burn_rate_alerts" -> GetBurnRateAlerts(text)
               [] text.action = "summary" -> GetSummary(text)
               [] OTHER -> Failed

-----------------------------------------------------------------------------
\* The thin tools: the action of each name.

GraphTools == [topology_get_service_topology |-> "get_topology",
               topology_get_network_topology |-> "get_network_topology",
               topology_get_node |-> "get_node",
               topology_get_upstream |-> "get_upstream",
               topology_get_downstream |-> "get_downstream"]
AnalysisTools == [topology_analyze_impact |-> "analyze_impact",
                  topology_find_path |-> "find_path",
                  topology_find_shortest_path |-> "find_shortest_path",
                  topology_find_anomalies |-> "find_anomalies",
                  topology_get_stats |-> "get_stats"]
AlertingTools == [alerting_list_active |-> "list_active",
                  alerting_list_history |-> "list_history",
                  alerting_stats |-> "stats",
                  alerting_noisy |-> "noisy",
                  alerting_high_risk |-> "high_risk",
                  alerting_get_feedback |-> "feedback"]
SLOTools == [slo_list |-> "list",
             slo_get |-> "get",
             slo_get_error_budget |-> "error_budget",
             slo_get_burn_rate_alerts |-> "burn_rate_alerts",
             slo_get_summary |-> "summary"]

Merged(f, g) == [x \in DOMAIN f \union DOMAIN g |-> IF x \in DOMAIN f THEN f[x] ELSE g[x]]
ActionOf == Merged(Merged(GraphTools, AnalysisTools), Merged(AlertingTools, SLOTools))
Tools == DOMAIN ActionOf

\* What a tool needs the permission to read.
RequiredPermission(tool) == CASE tool \in DOMAIN AlertingTools -> "alerting"
                              [] tool \in DOMAIN SLOTools -> "slo"
                              [] OTHER -> "service"

\* Mutant: an action that is given is kept.
MergeMissingAction(text, action) == IF text.kind \in {"empty", "broken"} THEN Text(action, None, None, 0)
                                    ELSE IF text.action = None THEN [text EXCEPT !.action = action] ELSE text

\* What is not JSON is dropped; an action that is given is overwritten.
MergeAction(text, action) == IF text.kind \in {"empty", "broken"} THEN Text(action, None, None, 0)
                             ELSE [text EXCEPT !.action = action]

\* The JSON text null leaves the map nil, and the assignment to it panics.
Delegate(tool, text) ==
    LET merged == MergeAction(text, ActionOf[tool])
    IN IF text.kind = "null" THEN Panicked
       ELSE IF merged.kind = "mistyped" THEN Failed
       ELSE CASE tool \in DOMAIN AlertingTools -> Alerting(merged)
              [] tool \in DOMAIN SLOTools -> SLO(merged)
              [] OTHER -> Topology(merged)
=============================================================================
