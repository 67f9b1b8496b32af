---------------------------- MODULE MCHostCaches ----------------------------
(* A small instance of HostCaches: two callers, two nodes of which one is a *)
(* controller's.                                                            *)
EXTENDS HostCaches

CONSTANTS c1, c2, h1, h2, a1, a2

MCFirst == [n \in Nodes |-> IF n = h1 THEN a1 ELSE a2]
MCCalls == [f \in Focuses |-> IF f = "nodes" THEN 2 ELSE 3]
MCFar == [f \in Focuses |-> CASE f = "nodes" -> 5 [] f = "config" -> 4 [] f = "addresses" -> 3]
MCEvents == [f \in Focuses |-> IF f = "config" THEN 2 ELSE 1]
=============================================================================
