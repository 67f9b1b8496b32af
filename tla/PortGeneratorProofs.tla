------------------------ MODULE PortGeneratorProofs ------------------------
(***************************************************************************)
(* Proofs about PortGenerator for any range with any reserved ranges, any  *)
(* number of callers, generators, nodes, calls and faults.                 *)
(***************************************************************************)
EXTENDS PortGenerator, TLAPS

USE ConstantsAssumption DEF ConstantsAssumption

\* A configured range begins at a number and has a size (PortRange.Set).
LEMMA RangeType == Base \in Nat /\ End \in Int
  <1>1. ParsePortRange(Main) \in Ranges
    BY DEF ParsesRanges, ParsePortRange, Texts, Notations, Span, BadRange, Ranges
  <1>2. QED
    BY <1>1 DEF Base, End, MinPort, MaxPort, Ranges

\* The ports the walk may end at are numbers.
LEMMA RangePortsType == RangePorts \subseteq Nat
  BY RangeType DEF RangePorts

LEMMA CursorType ==
  ASSUME NEW m \in ConfigMaps
  PROVE  Cursor(m) \in Nat /\ Start(m) \in Nat /\ (Cursor(m) < End => Start(m) = Cursor(m))
  BY RangeType DEF Cursor, Start, ConfigMaps

(***************************************************************************)
(* The inductive invariant.                                                *)
(***************************************************************************)

\* What the API server would accept was computed from the cursor's present value.
Current ==
  /\ \A c \in Callers : pc[c] \in {"scan", "sent"} =>
       found[c].rv <= cm.rv /\ (found[c].rv = cm.rv => found[c] = cm)
  /\ \A r \in late : r.copy.rv <= cm.rv /\ (r.copy.rv = cm.rv => r.copy = cm)

\* A selected port is in range, was not collected as used, and lies ahead.
Chosen ==
  /\ \A c \in Callers :
       /\ pc[c] \in {"sent", "applied"} => port[c] \in RangePorts /\ port[c] \notin used[c]
       /\ pc[c] = "sent" => Start(found[c]) < port[c]
  /\ \A r \in late : r.port \in RangePorts /\ Start(r.copy) < r.port

\* The ports of this lap are behind the cursor.
Behind ==
  /\ \A h \in handed : h.lap <= lap /\ (h.lap = lap => h.port <= Cursor(cm))
  /\ \A c \in Callers : pc[c] = "applied" =>
       ticket[c].lap <= lap /\ (ticket[c].lap = lap => port[c] <= Cursor(cm))

\* NoRepeatWithinLap, for ports that will be returned as well.
Distinct ==
  /\ NoRepeatWithinLap
  /\ \A c \in Callers, h \in handed :
       pc[c] = "applied" /\ h.lap = ticket[c].lap => h.port # port[c]
  /\ \A c, d \in Callers :
       c # d /\ pc[c] = "applied" /\ pc[d] = "applied" /\ ticket[c].lap = ticket[d].lap
         => port[c] # port[d]

\* What was in use all the time is in use now, and collected once its node was
\* asked.
Collected ==
  \A c \in Callers : \A b \in busy[c] :
    /\ b[2] \in Visible(b[1])
    /\ pc[c] \in {"scan", "scanCheck"} => b[1] \in todo[c] \/ b[2] \in used[c]
    /\ pc[c] \in {"sent", "applied"} => b[2] \in used[c]

IndInv == TypeOK /\ Current /\ Chosen /\ Behind /\ Distinct /\ Collected

LEMMA NumberTypes ==
  ASSUME TypeOK
  PROVE  /\ \A d \in Callers : ticket[d].lap \in Nat /\ port[d] \in Nat
         /\ \A h \in handed : h.lap \in Nat /\ h.port \in Nat
  <1>1. \A d \in Callers : port[d] \in Nat
    BY RangePortsType, 0 \in Nat DEF TypeOK
  <1>2. QED
    BY <1>1, RangePortsType DEF TypeOK

LEMMA VisibleType ==
  ASSUME TypeOK, NEW n \in Nodes
  PROVE  Visible(n) \subseteq Nat
  BY DEF TypeOK, Visible

\* What the API server keeps after an Update.
LEMMA StoreType ==
  ASSUME TypeOK, NEW copy, NEW p \in RangePorts, Store(copy, p)
  PROVE  cm' \in ConfigMaps /\ lap' \in Nat
  BY RangePortsType DEF TypeOK, Store, ConfigMaps, Entries

\* An Update in flight has a port of the range.
LEMMA UnseenType ==
  ASSUME TypeOK, Chosen, NEW S \in SUBSET Callers
  PROVE  Unseen(S) \subseteq [copy : ConfigMaps, port : RangePorts]
  BY DEF TypeOK, Chosen, Unseen

\* getNextScopePort: the port a walk ends at is in range, was not seen in use,
\* and comes after the place where the walk began.
LEMMA WalkEnds ==
  ASSUME NEW m \in ConfigMaps, NEW u, NEW p \in Selectable(m, u)
  PROVE  p \in RangePorts /\ p \notin u /\ Start(m) < p
  <1>1. Base <= p /\ p <= End
    BY RangeType, CursorType
       DEF Selectable, Start, InRange, RangesContain, Contains, Base, MinPort
  <1>2. QED
    BY <1>1, RangeType, CursorType DEF Selectable, RangePorts

\* The initial states satisfy the inductive invariant.
LEMMA InitIndInv == Init => IndInv
  <1> SUFFICES ASSUME Init PROVE IndInv
    OBVIOUS
  <1>1. cm \in ConfigMaps /\ NoConfigMap \in ConfigMaps
    BY RangeType DEF Init, ConfigMaps, NoConfigMap, Entries
  <1>2. bound \in [Nodes -> SUBSET Nat] /\ reported = bound
    BY DEF Init
  <1>3. TypeOK
    BY <1>1, <1>2 DEF Init, TypeOK, PcValues, Results, NoTicket, MaxTries
  <1>4. Current /\ Chosen /\ Behind /\ Distinct /\ Collected
    BY DEF Init, Current, Chosen, Behind, Distinct, NoRepeatWithinLap, Collected
  <1>5. QED
    BY <1>3, <1>4 DEF IndInv

\* A retry that is made leaves the number of attempts below the bound.
LEMMA OneMoreTry ==
  ASSUME NEW n \in 0 .. MaxTries - 1, n + 1 < MaxTries
  PROVE  n + 1 \in 0 .. MaxTries - 1
  BY DEF MaxTries

\* Every step preserves the types; that a port waiting to be returned is one of
\* the range is part of Chosen.
LEMMA TypeStep == TypeOK /\ Chosen /\ [Next]_vars => TypeOK'
  <1> SUFFICES ASSUME TypeOK, Chosen, [Next]_vars PROVE TypeOK'
    OBVIOUS
  <1>a. RangePorts \subseteq Nat /\ NoConfigMap \in ConfigMaps /\ NoTicket \in [by : Nat, lap : Nat]
    BY RangePortsType DEF NoConfigMap, ConfigMaps, Entries, NoTicket
  <1> USE <1>a DEF TypeOK, PcValues, Results, MaxTries, envVars, Goto, Fault
  <1>1. ASSUME NEW c \in Callers, GetNextPort(c) PROVE TypeOK'
    <2>1. \A n \in Nodes : Visible(n) \subseteq Nat
      BY VisibleType
    <2>2. busy' \in [Callers -> SUBSET (Nodes \X Nat)]
      BY <1>1, <2>1 DEF GetNextPort, Begin
    <2>3. QED
      BY <1>1, <2>2 DEF GetNextPort, Begin
  <1>2. ASSUME NEW c \in Callers, NEW p \in Checked, CheckPort(c, p) PROVE TypeOK'
    <2>1. \A n \in Nodes : Visible(n) \subseteq Nat
      BY VisibleType
    <2>2. busy' \in [Callers -> SUBSET (Nodes \X Nat)]
      BY <1>2, <2>1 DEF CheckPort, Begin
    <2>3. QED
      BY <1>2, <2>2 DEF CheckPort, Begin
  <1>3. ASSUME NEW c \in Callers, Lock(c) PROVE TypeOK'
    BY <1>3 DEF Lock
  <1>4. ASSUME NEW c \in Callers, ReadConfigMap(c) PROVE TypeOK'
    BY <1>4 DEF ReadConfigMap
  <1>5. ASSUME NEW c \in Callers, ReadFails(c) PROVE TypeOK'
    BY <1>5 DEF ReadFails, Return, Forget
  <1>6. ASSUME NEW c \in Callers, NEW n \in Nodes, AskNode(c, n) PROVE TypeOK'
    BY <1>6, VisibleType DEF AskNode
  <1>7. ASSUME NEW c \in Callers, NEW n \in Nodes, SkipNode(c, n) PROVE TypeOK'
    BY <1>7 DEF SkipNode
  <1>8. ASSUME NEW c \in Callers, Select(c) PROVE TypeOK'
    BY <1>8, WalkEnds DEF Select
  <1>9. ASSUME NEW c \in Callers, AllUsed(c) PROVE TypeOK'
    BY <1>9 DEF AllUsed, Return, Forget
  <1>10. ASSUME NEW c \in Callers, Panic(c) PROVE TypeOK'
    <2> DEFINE dead == {d \in Callers : GenOf[d] = GenOf[c]}
    <2>1. late' \subseteq [copy : ConfigMaps, port : RangePorts]
      BY <1>10, UnseenType, dead \in SUBSET Callers DEF Panic, Restart
    <2>2. QED
      BY <1>10, <2>1 DEF Panic, Restart, Forget
  <1>11. ASSUME NEW c \in Callers, ApplyUpdate(c) PROVE TypeOK'
    <2>1. port[c] \in RangePorts
      BY <1>11 DEF ApplyUpdate, Chosen
    <2>2. cm' \in ConfigMaps /\ lap' \in Nat
      BY <1>11, <2>1, StoreType DEF ApplyUpdate
    <2>3. QED
      BY <1>11, <2>2 DEF ApplyUpdate
  <1>12. ASSUME NEW c \in Callers, Conflict(c) PROVE TypeOK'
    BY <1>12 DEF Conflict
  <1>13. ASSUME NEW c \in Callers, UpdateLost(c) PROVE TypeOK'
    <2>1. late' \subseteq [copy : ConfigMaps, port : RangePorts]
      BY <1>13, UnseenType, {c} \in SUBSET Callers DEF UpdateLost
    <2>2. nFaults' \in Nat
      BY <1>13 DEF UpdateLost
    <2>3. QED
      BY <1>13, <2>1, <2>2 DEF UpdateLost
  <1>14. ASSUME NEW c \in Callers, ReturnPort(c) PROVE TypeOK'
    <2>1. port[c] \in RangePorts
      BY <1>14 DEF ReturnPort, Chosen
    <2>2. handed' \subseteq [port : RangePorts, by : Nat, lap : Nat]
      BY <1>14, <2>1 DEF ReturnPort
    <2>3. QED
      BY <1>14, <2>2 DEF ReturnPort, Return, Forget
  <1>15. ASSUME NEW c \in Callers, Retry(c) PROVE TypeOK'
    <2>1. /\ tries \in [Callers -> 0 .. MaxTries - 1]
          /\ tries[c] + 1 < MaxTries
          /\ tries' = [tries EXCEPT ![c] = @ + 1]
      BY <1>15 DEF Retry
    <2>2. tries[c] + 1 \in 0 .. MaxTries - 1
      BY <2>1, OneMoreTry, Zenon
    <2>3. tries' \in [Callers -> 0 .. MaxTries - 1]
      BY <2>1, <2>2, Zenon
    <2>4. QED
      BY <1>15, <2>3 DEF Retry, Forget
  <1>16. ASSUME NEW c \in Callers, GiveUp(c) PROVE TypeOK'
    BY <1>16 DEF GiveUp, Return, Forget
  <1>17. ASSUME NEW c \in Callers, ReadForCheck(c) PROVE TypeOK'
    BY <1>17 DEF ReadForCheck
  <1>18. ASSUME NEW c \in Callers, OutOfRange(c) PROVE TypeOK'
    BY <1>18 DEF OutOfRange, Return, Forget
  <1>19. ASSUME NEW c \in Callers, AnswerCheck(c) PROVE TypeOK'
    BY <1>19 DEF AnswerCheck, Return, Forget
  <1>20. ASSUME NEW g \in Generators, Crash(g) PROVE TypeOK'
    <2> DEFINE dead == {d \in Callers : GenOf[d] = g}
    <2>1. late' \subseteq [copy : ConfigMaps, port : RangePorts]
      BY <1>20, UnseenType, dead \in SUBSET Callers DEF Crash, Restart
    <2>2. QED
      BY <1>20, <2>1 DEF Crash, Restart, Forget
  <1>21. ASSUME NEW r \in late, ApplyLate(r) PROVE TypeOK'
    <2>1. cm' \in ConfigMaps /\ lap' \in Nat
      BY <1>21, StoreType DEF ApplyLate
    <2>2. QED
      BY <1>21, <2>1 DEF ApplyLate, callVars
  <1>22. ASSUME WriteOtherEntry PROVE TypeOK'
    <2>1. cm' \in ConfigMaps
      BY <1>22, SMTT(30) DEF WriteOtherEntry, ConfigMaps
    <2>2. QED
      BY <1>22, <2>1 DEF WriteOtherEntry, callVars
  <1>23. ASSUME NEW n \in Nodes, NEW S \in SUBSET Nat, Change(n, S) PROVE TypeOK'
    BY <1>23 DEF Change, callVars
  <1>24. ASSUME NEW n \in Nodes, Report(n) PROVE TypeOK'
    BY <1>24 DEF Report, callVars
  <1>25. CASE UNCHANGED vars
    BY <1>25 DEF vars, callVars
  <1>26. QED
    BY <1>1, <1>2, <1>3, <1>4, <1>5, <1>6, <1>7, <1>8, <1>9, <1>10, <1>11, <1>12,
       <1>13, <1>14, <1>15, <1>16, <1>17, <1>18, <1>19, <1>20, <1>21, <1>22, <1>23,
       <1>24, <1>25 DEF Next, Step, Open, Close

\* A copy of the ConfigMap that still has its version is the ConfigMap.
LEMMA CurrentStep ==
  ASSUME TypeOK, Current, [Next]_vars
  PROVE  Current'
  <1> USE DEF Current, ConfigMaps, TypeOK, PcValues, envVars, Goto, Fault, Unseen
  <1>1. ASSUME NEW c \in Callers, GetNextPort(c) PROVE Current'
    BY <1>1 DEF GetNextPort, Begin
  <1>2. ASSUME NEW c \in Callers, NEW p \in Checked, CheckPort(c, p) PROVE Current'
    BY <1>2 DEF CheckPort, Begin
  <1>3. ASSUME NEW c \in Callers, Lock(c) PROVE Current'
    BY <1>3 DEF Lock
  <1>4. ASSUME NEW c \in Callers, ReadConfigMap(c) PROVE Current'
    BY <1>4 DEF ReadConfigMap
  <1>5. ASSUME NEW c \in Callers, ReadFails(c) PROVE Current'
    BY <1>5 DEF ReadFails, Return, Forget
  <1>6. ASSUME NEW c \in Callers, NEW n \in Nodes, AskNode(c, n) PROVE Current'
    BY <1>6 DEF AskNode
  <1>7. ASSUME NEW c \in Callers, NEW n \in Nodes, SkipNode(c, n) PROVE Current'
    BY <1>7 DEF SkipNode
  <1>8. ASSUME NEW c \in Callers, Select(c) PROVE Current'
    BY <1>8 DEF Select
  <1>9. ASSUME NEW c \in Callers, AllUsed(c) PROVE Current'
    BY <1>9 DEF AllUsed, Return, Forget
  <1>10. ASSUME NEW c \in Callers, Panic(c) PROVE Current'
    BY <1>10 DEF Panic, Restart, Forget
  <1>11. ASSUME NEW c \in Callers, ApplyUpdate(c) PROVE Current'
    BY <1>11 DEF ApplyUpdate, Store
  <1>12. ASSUME NEW c \in Callers, Conflict(c) PROVE Current'
    BY <1>12 DEF Conflict
  <1>13. ASSUME NEW c \in Callers, UpdateLost(c) PROVE Current'
    BY <1>13 DEF UpdateLost
  <1>14. ASSUME NEW c \in Callers, ReturnPort(c) PROVE Current'
    BY <1>14 DEF ReturnPort, Return, Forget
  <1>15. ASSUME NEW c \in Callers, Retry(c) PROVE Current'
    BY <1>15 DEF Retry, Forget
  <1>16. ASSUME NEW c \in Callers, GiveUp(c) PROVE Current'
    BY <1>16 DEF GiveUp, Return, Forget
  <1>17. ASSUME NEW c \in Callers, ReadForCheck(c) PROVE Current'
    BY <1>17 DEF ReadForCheck
  <1>18. ASSUME NEW c \in Callers, OutOfRange(c) PROVE Current'
    BY <1>18 DEF OutOfRange, Return, Forget
  <1>19. ASSUME NEW c \in Callers, AnswerCheck(c) PROVE Current'
    BY <1>19 DEF AnswerCheck, Return, Forget
  <1>20. ASSUME NEW g \in Generators, Crash(g) PROVE Current'
    BY <1>20 DEF Crash, Restart, Forget
  <1>21. ASSUME NEW r \in late, ApplyLate(r) PROVE Current'
    BY <1>21 DEF ApplyLate, Store, callVars
  <1>22. ASSUME WriteOtherEntry PROVE Current'
    BY <1>22 DEF WriteOtherEntry, callVars
  <1>23. ASSUME NEW n \in Nodes, NEW S, Change(n, S) PROVE Current'
    BY <1>23 DEF Change, callVars
  <1>24. ASSUME NEW n \in Nodes, Report(n) PROVE Current'
    BY <1>24 DEF Report, callVars
  <1>25. CASE UNCHANGED vars
    BY <1>25 DEF vars, callVars
  <1> HIDE DEF Current, ConfigMaps, TypeOK, PcValues, envVars, Goto, Fault, Unseen
  <1>26. QED
    BY <1>1, <1>2, <1>3, <1>4, <1>5, <1>6, <1>7, <1>8, <1>9, <1>10, <1>11, <1>12,
       <1>13, <1>14, <1>15, <1>16, <1>17, <1>18, <1>19, <1>20, <1>21, <1>22, <1>23,
       <1>24, <1>25 DEF Next, Step, Open, Close

\* The walk of getNextScopePort selects a port ahead of where it began.
LEMMA ChosenStep ==
  ASSUME TypeOK, Chosen, [Next]_vars
  PROVE  Chosen'
  <1> USE DEF Chosen, TypeOK, PcValues, envVars, Goto, Fault, Unseen
  <1>1. ASSUME NEW c \in Callers, GetNextPort(c) PROVE Chosen'
    BY <1>1 DEF GetNextPort, Begin
  <1>2. ASSUME NEW c \in Callers, NEW p \in Checked, CheckPort(c, p) PROVE Chosen'
    BY <1>2 DEF CheckPort, Begin
  <1>3. ASSUME NEW c \in Callers, Lock(c) PROVE Chosen'
    BY <1>3 DEF Lock
  <1>4. ASSUME NEW c \in Callers, ReadConfigMap(c) PROVE Chosen'
    BY <1>4 DEF ReadConfigMap
  <1>5. ASSUME NEW c \in Callers, ReadFails(c) PROVE Chosen'
    BY <1>5 DEF ReadFails, Return, Forget
  <1>6. ASSUME NEW c \in Callers, NEW n \in Nodes, AskNode(c, n) PROVE Chosen'
    BY <1>6 DEF AskNode
  <1>7. ASSUME NEW c \in Callers, NEW n \in Nodes, SkipNode(c, n) PROVE Chosen'
    BY <1>7 DEF SkipNode
  <1>8. ASSUME NEW c \in Callers, Select(c) PROVE Chosen'
    <2>1. port'[c] \in RangePorts /\ port'[c] \notin used[c] /\ Start(found[c]) < port'[c]
      BY <1>8, WalkEnds DEF Select
    <2>2. QED
      BY <1>8, <2>1 DEF Select
  <1>9. ASSUME NEW c \in Callers, AllUsed(c) PROVE Chosen'
    BY <1>9 DEF AllUsed, Return, Forget
  <1>10. ASSUME NEW c \in Callers, Panic(c) PROVE Chosen'
    BY <1>10 DEF Panic, Restart, Forget
  <1>11. ASSUME NEW c \in Callers, ApplyUpdate(c) PROVE Chosen'
    BY <1>11 DEF ApplyUpdate, Store
  <1>12. ASSUME NEW c \in Callers, Conflict(c) PROVE Chosen'
    BY <1>12 DEF Conflict
  <1>13. ASSUME NEW c \in Callers, UpdateLost(c) PROVE Chosen'
    BY <1>13 DEF UpdateLost
  <1>14. ASSUME NEW c \in Callers, ReturnPort(c) PROVE Chosen'
    BY <1>14 DEF ReturnPort, Return, Forget
  <1>15. ASSUME NEW c \in Callers, Retry(c) PROVE Chosen'
    BY <1>15 DEF Retry, Forget
  <1>16. ASSUME NEW c \in Callers, GiveUp(c) PROVE Chosen'
    BY <1>16 DEF GiveUp, Return, Forget
  <1>17. ASSUME NEW c \in Callers, ReadForCheck(c) PROVE Chosen'
    BY <1>17 DEF ReadForCheck
  <1>18. ASSUME NEW c \in Callers, OutOfRange(c) PROVE Chosen'
    BY <1>18 DEF OutOfRange, Return, Forget
  <1>19. ASSUME NEW c \in Callers, AnswerCheck(c) PROVE Chosen'
    BY <1>19 DEF AnswerCheck, Return, Forget
  <1>20. ASSUME NEW g \in Generators, Crash(g) PROVE Chosen'
    BY <1>20 DEF Crash, Restart, Forget
  <1>21. ASSUME NEW r \in late, ApplyLate(r) PROVE Chosen'
    BY <1>21 DEF ApplyLate, Store, callVars
  <1>22. ASSUME WriteOtherEntry PROVE Chosen'
    BY <1>22 DEF WriteOtherEntry, callVars
  <1>23. ASSUME NEW n \in Nodes, NEW S, Change(n, S) PROVE Chosen'
    BY <1>23 DEF Change, callVars
  <1>24. ASSUME NEW n \in Nodes, Report(n) PROVE Chosen'
    BY <1>24 DEF Report, callVars
  <1>25. CASE UNCHANGED vars
    BY <1>25 DEF vars, callVars
  <1> HIDE DEF Chosen, TypeOK, PcValues, envVars, Goto, Fault, Unseen
  <1>26. QED
    BY <1>1, <1>2, <1>3, <1>4, <1>5, <1>6, <1>7, <1>8, <1>9, <1>10, <1>11, <1>12,
       <1>13, <1>14, <1>15, <1>16, <1>17, <1>18, <1>19, <1>20, <1>21, <1>22, <1>23,
       <1>24, <1>25 DEF Next, Step, Open, Close

\* What was in use all the time is collected when its node is asked.
LEMMA CollectedStep ==
  ASSUME TypeOK, Collected, [Next]_vars
  PROVE  Collected'
  <1> USE DEF Collected, Visible, TypeOK, PcValues, envVars, Goto, Fault
  <1>1. ASSUME NEW c \in Callers, GetNextPort(c) PROVE Collected'
    BY <1>1 DEF GetNextPort, Begin
  <1>2. ASSUME NEW c \in Callers, NEW p \in Checked, CheckPort(c, p) PROVE Collected'
    BY <1>2 DEF CheckPort, Begin
  <1>3. ASSUME NEW c \in Callers, Lock(c) PROVE Collected'
    BY <1>3 DEF Lock
  <1>4. ASSUME NEW c \in Callers, ReadConfigMap(c) PROVE Collected'
    BY <1>4 DEF ReadConfigMap
  <1>5. ASSUME NEW c \in Callers, ReadFails(c) PROVE Collected'
    BY <1>5 DEF ReadFails, Return, Forget
  <1>6. ASSUME NEW c \in Callers, NEW n \in Nodes, AskNode(c, n) PROVE Collected'
    BY <1>6 DEF AskNode
  <1>7. ASSUME NEW c \in Callers, NEW n \in Nodes, SkipNode(c, n) PROVE Collected'
    BY <1>7 DEF SkipNode
  <1>8. ASSUME NEW c \in Callers, Select(c) PROVE Collected'
    BY <1>8 DEF Select
  <1>9. ASSUME NEW c \in Callers, AllUsed(c) PROVE Collected'
    BY <1>9 DEF AllUsed, Return, Forget
  <1>10. ASSUME NEW c \in Callers, Panic(c) PROVE Collected'
    BY <1>10 DEF Panic, Restart, Forget
  <1>11. ASSUME NEW c \in Callers, ApplyUpdate(c) PROVE Collected'
    BY <1>11 DEF ApplyUpdate, Store
  <1>12. ASSUME NEW c \in Callers, Conflict(c) PROVE Collected'
    BY <1>12 DEF Conflict
  <1>13. ASSUME NEW c \in Callers, UpdateLost(c) PROVE Collected'
    BY <1>13 DEF UpdateLost
  <1>14. ASSUME NEW c \in Callers, ReturnPort(c) PROVE Collected'
    BY <1>14 DEF ReturnPort, Return, Forget
  <1>15. ASSUME NEW c \in Callers, Retry(c) PROVE Collected'
    BY <1>15 DEF Retry, Forget
  <1>16. ASSUME NEW c \in Callers, GiveUp(c) PROVE Collected'
    BY <1>16 DEF GiveUp, Return, Forget
  <1>17. ASSUME NEW c \in Callers, ReadForCheck(c) PROVE Collected'
    BY <1>17 DEF ReadForCheck
  <1>18. ASSUME NEW c \in Callers, OutOfRange(c) PROVE Collected'
    BY <1>18 DEF OutOfRange, Return, Forget
  <1>19. ASSUME NEW c \in Callers, AnswerCheck(c) PROVE Collected'
    BY <1>19 DEF AnswerCheck, Return, Forget
  <1>20. ASSUME NEW g \in Generators, Crash(g) PROVE Collected'
    BY <1>20 DEF Crash, Restart, Forget
  <1>21. ASSUME NEW r \in late, ApplyLate(r) PROVE Collected'
    BY <1>21 DEF ApplyLate, Store, callVars
  <1>22. ASSUME WriteOtherEntry PROVE Collected'
    BY <1>22 DEF WriteOtherEntry, callVars
  <1>23. ASSUME NEW n \in Nodes, NEW S, Change(n, S) PROVE Collected'
    BY <1>23 DEF Change, callVars
  <1>24. ASSUME NEW n \in Nodes, Report(n) PROVE Collected'
    BY <1>24 DEF Report, callVars
  <1>25. CASE UNCHANGED vars
    BY <1>25 DEF vars, callVars
  <1> HIDE DEF Collected, Visible, TypeOK, PcValues, envVars, Goto, Fault
  <1>26. QED
    BY <1>1, <1>2, <1>3, <1>4, <1>5, <1>6, <1>7, <1>8, <1>9, <1>10, <1>11, <1>12,
       <1>13, <1>14, <1>15, <1>16, <1>17, <1>18, <1>19, <1>20, <1>21, <1>22, <1>23,
       <1>24, <1>25 DEF Next, Step, Open, Close


\* The heart of the matter: the copy the API server accepts is the ConfigMap
\* itself, so the walk began at the cursor, and either the cursor moves forward
\* or it was at the end and a lap begins.
LEMMA StoreMoves ==
  ASSUME TypeOK, NEW copy, NEW p \in RangePorts, Store(copy, p), copy = cm, Start(copy) < p
  PROVE  /\ Cursor(cm') = p
         /\ \/ lap' = lap + 1 /\ Cursor(cm) >= End
            \/ lap' = lap /\ Cursor(cm) < p
  BY RangePortsType, RangeType, CursorType DEF TypeOK, Store, Cursor, Start

\* Both ways an Update is carried out are such a Store.
LEMMA ApplyMoves ==
  ASSUME TypeOK, Current, Chosen, NEW c \in Callers, ApplyUpdate(c)
  PROVE  /\ port[c] \in RangePorts /\ Store(found[c], port[c])
         /\ found[c] = cm /\ Start(found[c]) < port[c]
  BY DEF ApplyUpdate, Store, Current, Chosen

LEMMA ApplyLateMoves ==
  ASSUME TypeOK, Current, Chosen, NEW r \in late, ApplyLate(r)
  PROVE  /\ r.port \in RangePorts /\ Store(r.copy, r.port)
         /\ r.copy = cm /\ Start(r.copy) < r.port
  BY DEF ApplyLate, Store, Current, Chosen

\* What was handed out in this lap stays behind the cursor.
LEMMA BehindStep ==
  ASSUME TypeOK, Current, Chosen, Behind, [Next]_vars
  PROVE  Behind'
  <1> USE DEF Behind, TypeOK, PcValues, envVars, Goto, Fault
  <1>1. ASSUME NEW c \in Callers, GetNextPort(c) PROVE Behind'
    BY <1>1 DEF GetNextPort, Begin
  <1>2. ASSUME NEW c \in Callers, NEW p \in Checked, CheckPort(c, p) PROVE Behind'
    BY <1>2 DEF CheckPort, Begin
  <1>3. ASSUME NEW c \in Callers, Lock(c) PROVE Behind'
    BY <1>3 DEF Lock
  <1>4. ASSUME NEW c \in Callers, ReadConfigMap(c) PROVE Behind'
    BY <1>4 DEF ReadConfigMap
  <1>5. ASSUME NEW c \in Callers, ReadFails(c) PROVE Behind'
    BY <1>5 DEF ReadFails, Return, Forget
  <1>6. ASSUME NEW c \in Callers, NEW n \in Nodes, AskNode(c, n) PROVE Behind'
    BY <1>6 DEF AskNode
  <1>7. ASSUME NEW c \in Callers, NEW n \in Nodes, SkipNode(c, n) PROVE Behind'
    BY <1>7 DEF SkipNode
  <1>8. ASSUME NEW c \in Callers, Select(c) PROVE Behind'
    BY <1>8 DEF Select
  <1>9. ASSUME NEW c \in Callers, AllUsed(c) PROVE Behind'
    BY <1>9 DEF AllUsed, Return, Forget
  <1>10. ASSUME NEW c \in Callers, Panic(c) PROVE Behind'
    BY <1>10 DEF Panic, Restart, Forget
  <1>11. ASSUME NEW c \in Callers, ApplyUpdate(c) PROVE Behind'
    <2> DEFINE p == port[c]
    <2>1. /\ Cursor(cm') = p
          /\ \/ lap' = lap + 1
             \/ lap' = lap /\ Cursor(cm) < p
      BY <1>11, ApplyMoves, StoreMoves
    <2>2. p \in Nat /\ Cursor(cm) \in Nat
      BY <1>11, ApplyMoves, RangePortsType, CursorType
    <2>3. /\ ticket' = [ticket EXCEPT ![c] = [by |-> nUpdates + 1, lap |-> lap']]
          /\ port' = port /\ handed' = handed
          /\ \A d \in Callers \ {c} : pc'[d] = pc[d]
      BY <1>11 DEF ApplyUpdate
    <2>4. /\ \A d \in Callers : ticket[d].lap \in Nat /\ port[d] \in Nat
          /\ \A h \in handed : h.lap \in Nat /\ h.port \in Nat
      BY NumberTypes
    <2>5. QED
      BY <2>1, <2>2, <2>3, <2>4
  <1>12. ASSUME NEW c \in Callers, Conflict(c) PROVE Behind'
    BY <1>12 DEF Conflict
  <1>13. ASSUME NEW c \in Callers, UpdateLost(c) PROVE Behind'
    BY <1>13 DEF UpdateLost
  <1>14. ASSUME NEW c \in Callers, ReturnPort(c) PROVE Behind'
    BY <1>14 DEF ReturnPort, Return, Forget
  <1>15. ASSUME NEW c \in Callers, Retry(c) PROVE Behind'
    BY <1>15 DEF Retry, Forget
  <1>16. ASSUME NEW c \in Callers, GiveUp(c) PROVE Behind'
    BY <1>16 DEF GiveUp, Return, Forget
  <1>17. ASSUME NEW c \in Callers, ReadForCheck(c) PROVE Behind'
    BY <1>17 DEF ReadForCheck
  <1>18. ASSUME NEW c \in Callers, OutOfRange(c) PROVE Behind'
    BY <1>18 DEF OutOfRange, Return, Forget
  <1>19. ASSUME NEW c \in Callers, AnswerCheck(c) PROVE Behind'
    BY <1>19 DEF AnswerCheck, Return, Forget
  <1>20. ASSUME NEW g \in Generators, Crash(g) PROVE Behind'
    BY <1>20 DEF Crash, Restart, Forget
  <1>21. ASSUME NEW r \in late, ApplyLate(r) PROVE Behind'
    <2>1. /\ Cursor(cm') = r.port
          /\ \/ lap' = lap + 1
             \/ lap' = lap /\ Cursor(cm) < r.port
      BY <1>21, ApplyLateMoves, StoreMoves
    <2>2. r.port \in Nat /\ Cursor(cm) \in Nat
      BY <1>21, ApplyLateMoves, RangePortsType, CursorType
    <2>3. pc' = pc /\ ticket' = ticket /\ port' = port /\ handed' = handed
      BY <1>21 DEF ApplyLate, callVars
    <2>4. /\ \A d \in Callers : ticket[d].lap \in Nat /\ port[d] \in Nat
          /\ \A h \in handed : h.lap \in Nat /\ h.port \in Nat
      BY NumberTypes
    <2>5. QED
      BY <2>1, <2>2, <2>3, <2>4
  <1>22. ASSUME WriteOtherEntry PROVE Behind'
    <2>1. Cursor(cm') = Cursor(cm)
      BY <1>22 DEF WriteOtherEntry, Cursor, ConfigMaps
    <2>2. QED
      BY <1>22, <2>1 DEF WriteOtherEntry, callVars
  <1>23. ASSUME NEW n \in Nodes, NEW S, Change(n, S) PROVE Behind'
    BY <1>23 DEF Change, callVars
  <1>24. ASSUME NEW n \in Nodes, Report(n) PROVE Behind'
    BY <1>24 DEF Report, callVars
  <1>25. CASE UNCHANGED vars
    BY <1>25 DEF vars, callVars
  <1> HIDE DEF Behind, TypeOK, PcValues, envVars, Goto, Fault
  <1>26. QED
    BY <1>1, <1>2, <1>3, <1>4, <1>5, <1>6, <1>7, <1>8, <1>9, <1>10, <1>11, <1>12,
       <1>13, <1>14, <1>15, <1>16, <1>17, <1>18, <1>19, <1>20, <1>21, <1>22, <1>23,
       <1>24, <1>25 DEF Next, Step, Open, Close

\* A port that is about to be returned was not returned in its lap.
LEMMA DistinctStep ==
  ASSUME TypeOK, Current, Chosen, Behind, Distinct, [Next]_vars
  PROVE  Distinct'
  <1> USE DEF Distinct, NoRepeatWithinLap, TypeOK, PcValues, envVars, Goto, Fault
  <1>1. ASSUME NEW c \in Callers, GetNextPort(c) PROVE Distinct'
    BY <1>1 DEF GetNextPort, Begin
  <1>2. ASSUME NEW c \in Callers, NEW p \in Checked, CheckPort(c, p) PROVE Distinct'
    BY <1>2 DEF CheckPort, Begin
  <1>3. ASSUME NEW c \in Callers, Lock(c) PROVE Distinct'
    BY <1>3 DEF Lock
  <1>4. ASSUME NEW c \in Callers, ReadConfigMap(c) PROVE Distinct'
    BY <1>4 DEF ReadConfigMap
  <1>5. ASSUME NEW c \in Callers, ReadFails(c) PROVE Distinct'
    BY <1>5 DEF ReadFails, Return, Forget
  <1>6. ASSUME NEW c \in Callers, NEW n \in Nodes, AskNode(c, n) PROVE Distinct'
    BY <1>6 DEF AskNode
  <1>7. ASSUME NEW c \in Callers, NEW n \in Nodes, SkipNode(c, n) PROVE Distinct'
    BY <1>7 DEF SkipNode
  <1>8. ASSUME NEW c \in Callers, Select(c) PROVE Distinct'
    BY <1>8 DEF Select
  <1>9. ASSUME NEW c \in Callers, AllUsed(c) PROVE Distinct'
    BY <1>9 DEF AllUsed, Return, Forget
  <1>10. ASSUME NEW c \in Callers, Panic(c) PROVE Distinct'
    BY <1>10 DEF Panic, Restart, Forget
  <1>11. ASSUME NEW c \in Callers, ApplyUpdate(c) PROVE Distinct'
    <2> DEFINE p == port[c]
    <2>1. /\ Cursor(cm') = p
          /\ \/ lap' = lap + 1
             \/ lap' = lap /\ Cursor(cm) < p
      BY <1>11, ApplyMoves, StoreMoves
    <2>2. p \in Nat /\ Cursor(cm) \in Nat
      BY <1>11, ApplyMoves, RangePortsType, CursorType
    <2>3. /\ ticket' = [ticket EXCEPT ![c] = [by |-> nUpdates + 1, lap |-> lap']]
          /\ port' = port /\ handed' = handed
          /\ \A d \in Callers \ {c} : pc'[d] = pc[d]
      BY <1>11 DEF ApplyUpdate
    <2>4. /\ \A d \in Callers : ticket[d].lap \in Nat /\ port[d] \in Nat
          /\ \A h \in handed : h.lap \in Nat /\ h.port \in Nat
      BY NumberTypes
    <2>5. /\ \A h \in handed : h.lap = lap' => h.port # p
          /\ \A d \in Callers : pc[d] = "applied" /\ ticket[d].lap = lap' => port[d] # p
      BY <2>1, <2>2, <2>4 DEF Behind
    <2>6. QED
      BY <1>11, <2>3, <2>5
  <1>12. ASSUME NEW c \in Callers, Conflict(c) PROVE Distinct'
    BY <1>12 DEF Conflict
  <1>13. ASSUME NEW c \in Callers, UpdateLost(c) PROVE Distinct'
    BY <1>13 DEF UpdateLost
  <1>14. ASSUME NEW c \in Callers, ReturnPort(c) PROVE Distinct'
    BY <1>14 DEF ReturnPort, Return, Forget
  <1>15. ASSUME NEW c \in Callers, Retry(c) PROVE Distinct'
    BY <1>15 DEF Retry, Forget
  <1>16. ASSUME NEW c \in Callers, GiveUp(c) PROVE Distinct'
    BY <1>16 DEF GiveUp, Return, Forget
  <1>17. ASSUME NEW c \in Callers, ReadForCheck(c) PROVE Distinct'
    BY <1>17 DEF ReadForCheck
  <1>18. ASSUME NEW c \in Callers, OutOfRange(c) PROVE Distinct'
    BY <1>18 DEF OutOfRange, Return, Forget
  <1>19. ASSUME NEW c \in Callers, AnswerCheck(c) PROVE Distinct'
    BY <1>19 DEF AnswerCheck, Return, Forget
  <1>20. ASSUME NEW g \in Generators, Crash(g) PROVE Distinct'
    BY <1>20 DEF Crash, Restart, Forget
  <1>21. ASSUME NEW r \in late, ApplyLate(r) PROVE Distinct'
    BY <1>21 DEF ApplyLate, Store, callVars
  <1>22. ASSUME WriteOtherEntry PROVE Distinct'
    BY <1>22 DEF WriteOtherEntry, callVars
  <1>23. ASSUME NEW n \in Nodes, NEW S, Change(n, S) PROVE Distinct'
    BY <1>23 DEF Change, callVars
  <1>24. ASSUME NEW n \in Nodes, Report(n) PROVE Distinct'
    BY <1>24 DEF Report, callVars
  <1>25. CASE UNCHANGED vars
    BY <1>25 DEF vars, callVars
  <1> HIDE DEF Distinct, NoRepeatWithinLap, TypeOK, PcValues, envVars, Goto, Fault
  <1>26. QED
    BY <1>1, <1>2, <1>3, <1>4, <1>5, <1>6, <1>7, <1>8, <1>9, <1>10, <1>11, <1>12,
       <1>13, <1>14, <1>15, <1>16, <1>17, <1>18, <1>19, <1>20, <1>21, <1>22, <1>23,
       <1>24, <1>25 DEF Next, Step, Open, Close


LEMMA IndInvStep == IndInv /\ [Next]_vars => IndInv'
  BY TypeStep, CurrentStep, ChosenStep, BehindStep, DistinctStep, CollectedStep DEF IndInv

\* The inductive invariant holds in every reachable state.
THEOREM Invariance == Spec => []IndInv
  BY InitIndInv, IndInvStep, PTL DEF Spec

(***************************************************************************)
(* The properties.                                                         *)
(***************************************************************************)

\* getNextScopePort, Select and the bounded retries: every port in hand or
\* handed out belongs to the configured range and to none of the reserved
\* ones, whatever cursor the ConfigMap held.
THEOREM TypeCorrect == Spec => []TypeOK
  BY Invariance, PTL DEF IndInv

\* GetNextClusterExternalPort: two calls of one lap return different ports, for
\* any number of processes that share the ConfigMap but no mutex, and with
\* conflicts, lost and late Updates and crashes anywhere.
THEOREM NoRepeats == Spec => []NoRepeatWithinLap
  <1>1. IndInv => NoRepeatWithinLap
    BY DEF IndInv, Distinct
  <1>2. QED
    BY <1>1, Invariance, PTL

\* getAllUsedPort with getNextScopePort and CheckPortUsed: a port that a node
\* showed as in use throughout the call is neither chosen nor declared free.
THEOREM BusyRefused == Spec => []BusyPortsAreRefused
  <1>1. IndInv => BusyPortsAreRefused
    <2> SUFFICES ASSUME IndInv, NEW c \in Callers, NEW n \in Nodes
                 PROVE  /\ pc[c] = "applied" => <<n, port[c]>> \notin busy[c]
                        /\ pc[c] = "scanCheck" /\ todo[c] = {} /\ asked[c] \notin used[c] =>
                             <<n, asked[c]>> \notin busy[c]
      BY DEF BusyPortsAreRefused
    <2>1. pc[c] = "applied" => <<n, port[c]>> \notin busy[c]
      BY DEF IndInv, Chosen, Collected
    <2>2. pc[c] = "scanCheck" /\ todo[c] = {} /\ asked[c] \notin used[c] =>
            <<n, asked[c]>> \notin busy[c]
      BY DEF IndInv, Collected
    <2>3. QED
      BY <2>1, <2>2
  <1>2. QED
    BY <1>1, Invariance, PTL

\* The cursor moves only when an Update is carried out.
LEMMA OnlyStoresMoveCursor ==
  ASSUME TypeOK, [Next]_vars
  PROVE  \/ Cursor(cm') = Cursor(cm)
         \/ \E c \in Callers : ApplyUpdate(c)
         \/ \E r \in late : ApplyLate(r)
  <1> DEFINE Goal == \/ Cursor(cm') = Cursor(cm)
                     \/ \E c \in Callers : ApplyUpdate(c)
                     \/ \E r \in late : ApplyLate(r)
  <1>1. ASSUME NEW c \in Callers, GetNextPort(c) PROVE Goal
    BY <1>1 DEF GetNextPort, Begin
  <1>2. ASSUME NEW c \in Callers, NEW p \in Checked, CheckPort(c, p) PROVE Goal
    BY <1>2 DEF CheckPort, Begin
  <1>3. ASSUME NEW c \in Callers, Lock(c) PROVE Goal
    BY <1>3 DEF Lock
  <1>4. ASSUME NEW c \in Callers, ReadConfigMap(c) PROVE Goal
    BY <1>4 DEF ReadConfigMap
  <1>5. ASSUME NEW c \in Callers, ReadFails(c) PROVE Goal
    BY <1>5 DEF ReadFails, Return, Forget
  <1>6. ASSUME NEW c \in Callers, NEW n \in Nodes, AskNode(c, n) PROVE Goal
    BY <1>6 DEF AskNode
  <1>7. ASSUME NEW c \in Callers, NEW n \in Nodes, SkipNode(c, n) PROVE Goal
    BY <1>7 DEF SkipNode
  <1>8. ASSUME NEW c \in Callers, Select(c) PROVE Goal
    BY <1>8 DEF Select
  <1>9. ASSUME NEW c \in Callers, AllUsed(c) PROVE Goal
    BY <1>9 DEF AllUsed, Return, Forget
  <1>10. ASSUME NEW c \in Callers, Panic(c) PROVE Goal
    BY <1>10 DEF Panic, Restart, Forget
  <1>11. ASSUME NEW c \in Callers, ApplyUpdate(c) PROVE Goal
    BY <1>11
  <1>12. ASSUME NEW c \in Callers, Conflict(c) PROVE Goal
    BY <1>12 DEF Conflict
  <1>13. ASSUME NEW c \in Callers, UpdateLost(c) PROVE Goal
    BY <1>13 DEF UpdateLost
  <1>14. ASSUME NEW c \in Callers, ReturnPort(c) PROVE Goal
    BY <1>14 DEF ReturnPort, Return, Forget
  <1>15. ASSUME NEW c \in Callers, Retry(c) PROVE Goal
    BY <1>15 DEF Retry, Forget
  <1>16. ASSUME NEW c \in Callers, GiveUp(c) PROVE Goal
    BY <1>16 DEF GiveUp, Return, Forget
  <1>17. ASSUME NEW c \in Callers, ReadForCheck(c) PROVE Goal
    BY <1>17 DEF ReadForCheck
  <1>18. ASSUME NEW c \in Callers, OutOfRange(c) PROVE Goal
    BY <1>18 DEF OutOfRange, Return, Forget
  <1>19. ASSUME NEW c \in Callers, AnswerCheck(c) PROVE Goal
    BY <1>19 DEF AnswerCheck, Return, Forget
  <1>20. ASSUME NEW g \in Generators, Crash(g) PROVE Goal
    BY <1>20 DEF Crash, Restart, Forget
  <1>21. ASSUME NEW r \in late, ApplyLate(r) PROVE Goal
    BY <1>21
  <1>22. ASSUME WriteOtherEntry PROVE Goal
    BY <1>22 DEF WriteOtherEntry, Cursor, TypeOK, ConfigMaps
  <1>23. ASSUME NEW n \in Nodes, NEW S, Change(n, S) PROVE Goal
    BY <1>23 DEF Change, callVars
  <1>24. ASSUME NEW n \in Nodes, Report(n) PROVE Goal
    BY <1>24 DEF Report, callVars
  <1>25. CASE UNCHANGED vars
    BY <1>25 DEF vars, callVars
  <1>26. QED
    BY <1>1, <1>2, <1>3, <1>4, <1>5, <1>6, <1>7, <1>8, <1>9, <1>10, <1>11, <1>12,
       <1>13, <1>14, <1>15, <1>16, <1>17, <1>18, <1>19, <1>20, <1>21, <1>22, <1>23,
       <1>24, <1>25 DEF Next, Step, Open, Close

\* The conditional Update of the ConfigMap: the cursor goes forward, or it was
\* at the end of the range, although generators in several processes and late
\* requests write it.
THEOREM CursorStartsOverOnlyAtEnd == Spec => StartsOverOnlyAtEnd
  <1>1. ASSUME IndInv, [Next]_vars
        PROVE  [Cursor(cm') # Cursor(cm) => Cursor(cm') > Cursor(cm) \/ Cursor(cm) >= End]_cm
    <2>1. Cursor(cm) \in Nat /\ End \in Int
      BY <1>1, CursorType, RangeType DEF IndInv, TypeOK
    <2>2. ASSUME NEW c \in Callers, ApplyUpdate(c)
          PROVE  Cursor(cm') > Cursor(cm) \/ Cursor(cm) >= End
      <3>1. port[c] \in Nat
        BY <1>1, <2>2, ApplyMoves, RangePortsType DEF IndInv
      <3>2. QED
        BY <1>1, <2>1, <2>2, <3>1, ApplyMoves, StoreMoves DEF IndInv
    <2>3. ASSUME NEW r \in late, ApplyLate(r)
          PROVE  Cursor(cm') > Cursor(cm) \/ Cursor(cm) >= End
      <3>1. r.port \in Nat
        BY <1>1, <2>3, ApplyLateMoves, RangePortsType DEF IndInv
      <3>2. QED
        BY <1>1, <2>1, <2>3, <3>1, ApplyLateMoves, StoreMoves DEF IndInv
    <2>4. QED
      BY <1>1, <2>2, <2>3, OnlyStoresMoveCursor DEF IndInv
  <1>2. QED
    BY <1>1, Invariance, PTL DEF Spec, StartsOverOnlyAtEnd
=============================================================================
