-------------------------- MODULE MCPortGenerator --------------------------
(* Small instance of PortGenerator: the range 10-13 of which 12 is reserved, *)
(* two operator processes, one node that publishes its ports and one that    *)
(* is asked over ssh.                                                        *)
EXTENDS PortGenerator, TLC

CONSTANTS c1, c2, g1, g2, n1, n2

MCGenOf == (c1 :> g1) @@ (c2 :> g2)
MCGenOf1 == (c1 :> g1) @@ (c2 :> g1)
MCMain == [form |-> "hyphen", a |-> 10, b |-> 13]
MCReserved == {[form |-> "single", a |-> 12, b |-> 0], [form |-> "empty", a |-> 0, b |-> 0]}
=============================================================================
