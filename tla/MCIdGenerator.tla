--------------------------- MODULE MCIdGenerator ---------------------------
(* Small instance of IdGenerator: two operator processes, one of which runs *)
(* two goroutines that share a generator.                                   *)
EXTENDS IdGenerator, TLC

CONSTANTS c1, c2, c3, g1, g2

MCGenOf == (c1 :> g1) @@ (c2 :> g1) @@ (c3 :> g2)
=============================================================================
