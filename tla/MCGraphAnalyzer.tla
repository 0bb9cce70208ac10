-------------------------- MODULE MCGraphAnalyzer --------------------------
(* TLC instance of GraphAnalyzer, ImpactSearch and Discovery.  A behaviour is *)
(* one query of a graph that does not change, one impact analysis of a graph  *)
(* that does, or refreshes of the graph: the variables of the other two are   *)
(* at rest.                                                                   *)
EXTENDS GraphAnalyzer, ImpactSearch, Discovery

\* Four services: a way around, a cycle, and a call of a service that may be no node;
\* and a graph without the service that the call is about.
MCEdges == {<<1, 2>>, <<2, 3>>, <<3, 4>>, <<1, 3>>, <<4, 1>>}
MCGraphs == [nodes : {1 .. 4, {1, 2, 4}}, edges : SUBSET MCEdges]
            \union {[nodes |-> {2}, edges |-> {<<1, 2>>}]}

\* The impact of a service is multiplied by 1.8 and 3.
MCConditions == {[status |-> "warning", rate |-> 101], [status |-> "unhealthy", rate |-> 1001]}

\* Three services of one namespace, two of them with the same selector, a service of another
\* namespace with the name of one of them, their pods, and calls that stay in the namespace
\* or leave it.
Service(ns, name, selector) == [kind |-> "service", ns |-> ns, name |-> name, selector |-> selector]
Pod(name, owners, ready, env, maps) ==
    [kind |-> "pod", ns |-> "n1", name |-> name, app |-> 1, account |-> TRUE, owners |-> owners,
     running |-> TRUE, ready |-> ready, env |-> env, maps |-> maps, ip |-> TRUE]
Up(name, up) == [kind |-> "up", ns |-> "n1", name |-> name, up |-> up]
HTTP(host, to) == [kind |-> "http", ns |-> "n1", name |-> 1, host |-> host, to |-> to]
GRPC(service, to) == [kind |-> "grpc", ns |-> "n1", name |-> 1, service |-> service, to |-> to]
Database(to) == [kind |-> "db", ns |-> "n1", name |-> 1, to |-> to]
Machine(name, addresses) == [kind |-> "machine", name |-> name, addresses |-> addresses]

MCObjects ==
    {Service("n1", 1, 1), Service("n1", 2, 2), Service("n1", 3, 1), Service("n2", 2, 0),
     Pod(1, 1, "true", {2}, {}), Pod(2, 2, "false", {}, {2}), Pod(3, 0, "none", {3}, {}),
     Up(1, TRUE), Up(2, FALSE), HTTP(<<2, "n1">>, <<"n1", 2>>), HTTP(<<3, "n2">>, <<"n2", 3>>),
     GRPC(<<7, 2>>, <<"n1", 2>>), Database(2),
     Machine(1, 1), Machine(2, 2), [kind |-> "traffic", ns |-> "n1", name |-> 1]}

\* Of the graphs with five edges, those in which nobody calls the first service.
MCInit == Init /\ (Cardinality(edges) = 5 => \A e \in edges : e[2] # 1)

\* What may be missing at first; anything may come or go later.
MCMissing == {Service("n1", 3, 1), Pod(2, 2, "false", {}, {2}), Up(2, FALSE), HTTP(<<2, "n1">>, <<"n1", 2>>),
              GRPC(<<7, 2>>, <<"n1", 2>>), Database(2), [kind |-> "traffic", ns |-> "n1", name |-> 1]}
MCDiscoveryInit == DiscoveryInit /\ Objects \ live \subseteq MCMissing

NoQuery == edges = {} /\ query = None /\ answer = None

NoGraph == [nodes |-> {}, edges |-> {}]
NoSearch == /\ inMemory = NoGraph /\ rebuilds = 0
            /\ stage = "none" /\ side = "up"
            /\ visited = <<>> /\ queue = <<>> /\ todo = {}
            /\ impact = [up |-> NoImpact, down |-> NoImpact]
            /\ kept = NoGraph /\ met = NoGraph

NoRefresh == /\ live = {} /\ pc = "none" /\ part = None /\ found = None
             /\ topology = None /\ rows = [edges |-> {}] /\ touched = {} /\ failed = {}
             /\ changes = 0 /\ refreshes = 0

AllVars == <<vars, searchVars, discoveryVars>>

QueryInit == \/ MCInit /\ NoSearch /\ NoRefresh
             \/ SearchInit /\ NoQuery /\ NoRefresh
             \/ MCDiscoveryInit /\ NoQuery /\ NoSearch

Answered == query # None /\ UNCHANGED AllVars

QueryNext == \/ stage = "none" /\ pc = "none" /\ Next /\ UNCHANGED <<searchVars, discoveryVars>>
             \/ stage # "none" /\ SearchNext /\ UNCHANGED <<vars, discoveryVars>>
             \/ pc # "none" /\ DiscoveryNext /\ UNCHANGED <<vars, searchVars>>
             \/ Answered

QuerySpec == QueryInit /\ [][QueryNext]_AllVars
=============================================================================
