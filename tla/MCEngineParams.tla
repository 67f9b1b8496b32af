--------------------------- MODULE MCEngineParams ---------------------------
(* Small instance of EngineParams: s can be changed by users, needs a        *)
(* restart and depends on the class; f cannot be changed, takes effect at    *)
(* once and is quoted in the class "big"; e is known to that class only; l   *)
(* differs between the classes and is ignored by flushes.                    *)
EXTENDS EngineParams, TLC

MCParams == {"s", "f", "e", "l"}
MCValues == {"", "a", "b", "c", "x", "y", "'y'", "z"}
MCTemplate ==
  ("s" :> [default |-> "a", dynamic |-> FALSE, changeable |-> TRUE, deleted |-> FALSE,
           quoted |-> FALSE]) @@
  ("f" :> [default |-> "x", dynamic |-> TRUE, changeable |-> FALSE, deleted |-> FALSE,
           quoted |-> FALSE]) @@
  ("l" :> [default |-> "a", dynamic |-> TRUE, changeable |-> FALSE, deleted |-> FALSE,
           quoted |-> FALSE])
MCClassParams ==
  ("small" :> ("s" :> "a")) @@
  ("big" :> ("s" :> "b" @@ "f" :> "'y'" @@ "e" :> "z" @@ "l" :> "b"))
MCWithQuotes == [v \in MCValues |-> IF v = "y" THEN "'y'" ELSE v]
MCPlain == [v \in MCValues |-> IF v = "'y'" THEN "y" ELSE v]
=============================================================================
