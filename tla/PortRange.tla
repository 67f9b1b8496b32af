----------------------------- MODULE PortRange -----------------------------
(***************************************************************************)
(* business/adapter/port_range.go: the notation for port ranges in the     *)
(* annotations of the port ConfigMap, and membership in a range from which *)
(* reserved ranges are taken out.  A text is represented by the notation   *)
(* it uses and its two numbers; "word" stands for every text strconv.Atoi  *)
(* refuses and "mixed" for one with both a hyphen and a plus.              *)
(***************************************************************************)
EXTENDS Integers

Notations == {"empty", "single", "hyphen", "plus", "mixed", "word"}
Texts == [form : Notations, a : Nat, b : Nat]

Ranges == [base : Nat, size : Nat]
BadRange == [base |-> 0, size |-> -1]    \* an error was returned

Span(low, high) == IF high < low THEN BadRange
                   ELSE [base |-> low, size |-> 1 + high - low]

\* PortRange.Set, ParsePortRange
ParsePortRange(t) ==
  CASE t.form = "empty"  -> [base |-> 0, size |-> 0]
    [] t.form = "single" -> Span(t.a, t.a)
    [] t.form = "hyphen" -> Span(t.a, t.b)
    [] t.form = "plus"   -> Span(t.a, t.a + t.b)
    [] OTHER             -> BadRange

Contains(pr, p) == p >= pr.base /\ p - pr.base < pr.size

\* PortRanges: main is a text, reserved a set of texts (the items of the
\* comma separated list, whose order does not matter).
ParsesRanges(main, reserved) ==
  /\ ParsePortRange(main) # BadRange
  /\ \A t \in reserved : ParsePortRange(t) # BadRange

RangesContain(main, reserved, p) ==
  /\ \A t \in reserved : ~Contains(ParsePortRange(t), p)
  /\ Contains(ParsePortRange(main), p)

MinPort(main) == ParsePortRange(main).base
MaxPort(main) == ParsePortRange(main).base + ParsePortRange(main).size - 1
=============================================================================
