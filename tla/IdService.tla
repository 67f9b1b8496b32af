----------------------------- MODULE IdService -----------------------------
(***************************************************************************)
(* What the instance-id generator promises its callers: ids are cut off an *)
(* ever growing line of numbers, a batch at a time.  A batch is taken      *)
(* atomically, and is then either delivered to the caller that took it or  *)
(* lost (the caller crashed, or was told that the call failed); a batch is *)
(* never taken or delivered twice.  No generator instance, mutex or        *)
(* ConfigMap is visible at this level.                                     *)
(***************************************************************************)
EXTENDS Integers

CONSTANTS Callers,    \* goroutines that ask for ids
          Batches,    \* sizes a caller may ask for
          FirstIds    \* values the line may start with

NoBatch == [first |-> 0, n |-> 0, by |-> 0]

VARIABLES nextId,     \* first id never taken
          hand,       \* hand[c]: the batch taken for c and not delivered yet
          taken,      \* number of batches taken so far
          delivered   \* the batches callers have received

idVars == <<nextId, hand, taken, delivered>>

IdInit == /\ nextId \in FirstIds
          /\ hand = [c \in Callers |-> NoBatch]
          /\ taken = 0
          /\ delivered = {}

\* The line is cut: n consecutive fresh ids are set aside for caller c.
Take(c, n) ==
  /\ hand[c] = NoBatch
  /\ hand' = [hand EXCEPT ![c] = [first |-> nextId, n |-> n, by |-> taken + 1]]
  /\ nextId' = nextId + n
  /\ taken' = taken + 1
  /\ UNCHANGED delivered

Deliver(c) ==
  /\ hand[c] # NoBatch
  /\ delivered' = delivered \cup {hand[c]}
  /\ hand' = [hand EXCEPT ![c] = NoBatch]
  /\ UNCHANGED <<nextId, taken>>

\* The batches of the callers in S never reach them (S crashed together, or
\* the caller got an error although the ids are gone).
Lose(S) ==
  /\ hand' = [c \in Callers |-> IF c \in S THEN NoBatch ELSE hand[c]]
  /\ UNCHANGED <<nextId, taken, delivered>>

\* A batch is cut for nobody: its caller gave up before.
Burn(n) ==
  /\ nextId' = nextId + n
  /\ UNCHANGED <<hand, taken, delivered>>

IdNext == \/ \E c \in Callers : (\E n \in Batches : Take(c, n)) \/ Deliver(c)
          \/ \E S \in SUBSET Callers : Lose(S)
          \/ \E n \in Batches : Burn(n)

IdSpec == IdInit /\ [][IdNext]_idVars
=============================================================================
