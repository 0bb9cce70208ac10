---------------------------- MODULE MCToolPools -----------------------------
(* One request, with three pools of the caller, two of one id and one of    *)
(* the id that the provider of alerts takes: sessions and the registry      *)
(* change around it at any moment.                                          *)
EXTENDS ToolPools

CONSTANTS r1, u1

MCCustom == {Pool("custom", "deploy", <<"slo_list", "alerting_stats">>, 9, 0, FALSE),
             Pool("custom", "topology", <<"slo_get", "topology_get_node", "slo_list">>, 8, 1, FALSE),
             Pool("alert", "incident", <<"alerting_stats", "slo_get">>, 8, 0, FALSE)}
MCIntents == {[words |-> {"deploy"}, within |-> {"deploy"}],
              [words |-> {"alert"}, within |-> {"alert", "deploy"}],
              [words |-> {"node"}, within |-> {"topology"}],
              [words |-> {"incident"}, within |-> {"incident"}],
              [words |-> {"why"}, within |-> {}]}
MCTexts == {NoObject("null"), NoObject("broken"), NoObject("mistyped"),
            Text("feedback", "good", None, -1), Text("find_path", "bad", "name", 7), Text("get", None, "name", 0)}
=============================================================================
