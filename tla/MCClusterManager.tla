-------------------------- MODULE MCClusterManager --------------------------
(* A small instance of ClusterManager.  In each behaviour two workflows work *)
(* on one thing: the life of the CM, its version and place, what it knows of *)
(* other clusters, or its instances.                                         *)
EXTENDS ClusterManager, TLC

CONSTANTS w1, w2, h1, h2, v1, v2

Op(op, args) == [op : {op}, arg : args]
Plain(ops) == [op : ops, arg : {None}]

From(start, bounds, a, b) ==
  {[start |-> start, calls |-> bounds[1], faults |-> bounds[2], churn |-> bounds[3],
    ops |-> (w1 :> a @@ w2 :> b)]}

\* The CM of a cluster is not created while it is removed.
Life == From("nothing", <<3, 1, 1>>, Op("create", {v1}) \cup Plain({"accounts"}),
                                     Op("create", {v1}) \cup Plain({"accounts"}))
          \cup From("alone", <<2, 1, 1>>, Plain({"remove"}), Plain({"enableHA"}))
          \cup From("alone", <<2, 0, 1>>, Plain({"remove"}), Plain({"remove"}))

Version == From("alone", <<2, 1, 1>>,
                Op("upgrade", {v2}) \cup Op("affinity", {h1}) \cup Plain({"disableHA"}),
                Op("upgrade", {v1, v2}) \cup Op("switchover", {h2}))

Links == From("linked", <<2, 1, 1>>, Op("addCluster", {h2}), Plain({"deleteCluster", "addEdge"}))
           \cup From("edge", <<2, 1, 1>>, Op("addCluster", {h2}),
                                          Op("addCluster", {h1}) \cup Op("updateCluster", {h1}) \cup Plain({"deleteEdge"}))

Instances == From("alone", <<2, 1, 1>>,
                  Op("addIns", {h2}) \cup Op("addDataMax", {h1}),
                  Op("removeIns", {h2}) \cup Op("updateDataMax", {h2}) \cup Op("switchover", {h2}))
               \cup From("alone", <<2, 1, 0>>, Plain({"setLeader", "promote"}) \cup Op("addDataMax", {h1}),
                                               Plain({"setFollower", "demote", "deleteDataMax"}))

MCPlans == Life \cup Version \cup Links \cup Instances
=============================================================================
