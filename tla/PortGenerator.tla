--------------------------- MODULE PortGenerator ---------------------------
(***************************************************************************)
(* business/adapter/port_generator.go.  GetNextClusterExternalPort keeps a *)
(* cursor in a ConfigMap.  An attempt takes the generator's mutex, reads   *)
(* the cursor, collects the ports in use node by node, walks from the      *)
(* cursor to the first port that is free and writes the cursor back; when  *)
(* the write fails the mutex is released and the attempt repeated.         *)
(* CheckPortUsed does the same reading for one given port, without mutex   *)
(* or cursor.                                                              *)
(*                                                                         *)
(* Around the generators: nodes whose processes open and close ports, a    *)
(* daemon that publishes the ports of some nodes in a ConfigMap (the other *)
(* nodes are asked over ssh), and the API server, as in IdGenerator.       *)
(***************************************************************************)
EXTENDS PortRange, FiniteSets

CONSTANTS Callers, Generators, GenOf, NoCaller,
          Main,         \* text of the range annotation
          Reserved,     \* texts of the reserved ranges annotation
          StoredPorts,  \* cursors the ConfigMap may already hold
          Nodes,
          Reporting,    \* nodes that have a port usage ConfigMap
          Checked,      \* ports CheckPortUsed is asked about
          StartPorts,   \* ports that may be in use at the start
          MaxCalls,     \* bound: calls made in a behaviour
          MaxFaults,    \* bound: failed requests, crashes and writes of other entries
          MaxChanges    \* bound: ports opened and closed

ASSUME ConstantsAssumption ==
  /\ GenOf \in [Callers -> Generators]
  /\ NoCaller \notin Callers
  /\ Main \in Texts
  /\ Reserved \subseteq Texts
  /\ ParsesRanges(Main, Reserved)
  /\ StoredPorts \subseteq Nat
  /\ Nodes # {} /\ IsFiniteSet(Nodes)
  /\ Reporting \subseteq Nodes
  /\ Checked \subseteq Nat
  /\ StartPorts \subseteq Nat
  /\ MaxCalls \in Nat /\ MaxFaults \in Nat /\ MaxChanges \in Nat

Base == MinPort(Main)
End == MaxPort(Main)
InRange(p) == RangesContain(Main, Reserved, p)
MaxTries == 3

VARIABLES
  cm,        \* the ConfigMap in the API server
  mutex,     \* mutex[g]: the caller that holds the mutex of g
  pc,        \* where a caller is
  tries,     \* attempts of GetNextClusterExternalPort that could not update
  asked,     \* the port CheckPortUsed is about
  found,     \* foundConfigMap, the caller's copy
  todo,      \* nodes the caller has not asked yet
  used,      \* ports in use that the caller has collected
  port,      \* nextPort, once a port is selected
  result,    \* what the last call of a caller returned
  late,      \* Updates in flight whose caller gave up or crashed
  bound,     \* bound[n]: ports open on node n
  reported,  \* reported[n]: the port usage ConfigMap of n
  \* observation only
  nCalls, nFaults, nChanges, nUpdates,
  lap,       \* times the cursor started over
  ticket,    \* ticket[c]: the update applied for c: its number and its lap
  busy,      \* busy[c]: <<n, p>> that c could read since its call began
  handed     \* ports returned: [port, by, lap]

envVars == <<bound, reported, nChanges>>
callVars == <<pc, tries, asked, found, todo, used, port, result, ticket>>
vars == <<cm, mutex, callVars, late, envVars, nCalls, nFaults, nUpdates, lap,
          busy, handed>>

Entries == {"nodata", "absent", "garbage", "number"}
ConfigMaps == [rv : Nat, entry : Entries, port : Nat]
NoConfigMap == [rv |-> 0, entry |-> "absent", port |-> 0]
NoTicket == [by |-> 0, lap |-> 0]
PcValues == {"idle", "lock", "get", "scan", "sent", "applied", "failed", "getCheck", "scanCheck"}
Results == {"none", "port", "allUsed", "canNotUpdate", "error",
            "free", "occupied", "outOfRange"}

\* The cursor, once the default is filled in for an absent or bad value.
Cursor(m) == IF m.entry = "number" THEN m.port ELSE Base

\* Mutant of Selectable: reserved ranges are not left out.
SelectableReserved(m, u) ==
  {p \in (IF Cursor(m) >= End THEN Base ELSE Cursor(m)) + 1 .. End : p \notin u}

\* Where the walk begins, and the ports it stops at.
Start(m) == IF Cursor(m) >= End THEN Base ELSE Cursor(m)
Selectable(m, u) == {p \in Start(m) + 1 .. End : InRange(p) /\ p \notin u}

\* What a caller that asks about node n is told.
Visible(n) == IF n \in Reporting THEN reported[n] ELSE bound[n]

Init ==
  /\ \E e \in Entries, p \in StoredPorts \cup {Base} :
       cm = [rv |-> 1, entry |-> e, port |-> IF e = "number" THEN p ELSE Base]
  /\ mutex = [g \in Generators |-> NoCaller]
  /\ pc = [c \in Callers |-> "idle"]
  /\ tries = [c \in Callers |-> 0]
  /\ asked = [c \in Callers |-> 0]
  /\ found = [c \in Callers |-> NoConfigMap]
  /\ todo = [c \in Callers |-> {}]
  /\ used = [c \in Callers |-> {}]
  /\ port = [c \in Callers |-> 0]
  /\ result = [c \in Callers |-> "none"]
  /\ late = {}
  /\ bound \in [Nodes -> {{}, StartPorts}]
  /\ reported = bound
  /\ nCalls = 0 /\ nFaults = 0 /\ nChanges = 0 /\ nUpdates = 0
  /\ lap = 0
  /\ ticket = [c \in Callers |-> NoTicket]
  /\ busy = [c \in Callers |-> {}]
  /\ handed = {}

Goto(c, l) == pc' = [pc EXCEPT ![c] = l]

Fault == /\ nFaults < MaxFaults
         /\ nFaults' = nFaults + 1

\* The locals of the callers in S are gone.
Forget(S) ==
  /\ found' = [c \in Callers |-> IF c \in S THEN NoConfigMap ELSE found[c]]
  /\ todo' = [c \in Callers |-> IF c \in S THEN {} ELSE todo[c]]
  /\ port' = [c \in Callers |-> IF c \in S THEN 0 ELSE port[c]]
  /\ ticket' = [c \in Callers |-> IF c \in S THEN NoTicket ELSE ticket[c]]

\* Mutant of Return: without the deferred Unlock.
ReturnLocked(c, r) ==
  /\ Goto(c, "idle")
  /\ result' = [result EXCEPT ![c] = r]
  /\ tries' = [tries EXCEPT ![c] = 0]
  /\ asked' = [asked EXCEPT ![c] = 0]
  /\ busy' = [busy EXCEPT ![c] = {}]
  /\ Forget({c})
  /\ UNCHANGED <<used, mutex>>

\* The call ends with r, on every path with the mutex released.
Return(c, r) ==
  /\ Goto(c, "idle")
  /\ result' = [result EXCEPT ![c] = r]
  /\ mutex' = [g \in Generators |-> IF mutex[g] = c THEN NoCaller ELSE mutex[g]]
  /\ tries' = [tries EXCEPT ![c] = 0]
  /\ asked' = [asked EXCEPT ![c] = 0]
  /\ busy' = [busy EXCEPT ![c] = {}]
  /\ Forget({c})
  /\ UNCHANGED used
-----------------------------------------------------------------------------
(***************************************************************************)
(* GetNextClusterExternalPort                                              *)
(***************************************************************************)
Begin(c, l) ==
  /\ pc[c] = "idle"
  /\ nCalls < MaxCalls
  /\ nCalls' = nCalls + 1
  /\ Goto(c, l)
  /\ result' = [result EXCEPT ![c] = "none"]
  /\ used' = [used EXCEPT ![c] = {}]
  /\ busy' = [busy EXCEPT ![c] = {b \in Nodes \X UNION {Visible(m) : m \in Nodes} :
                                    b[2] \in Visible(b[1])}]
  /\ UNCHANGED <<cm, mutex, tries, found, todo, port, ticket, late, envVars, nFaults,
                 nUpdates, lap, handed>>

GetNextPort(c) == Begin(c, "lock") /\ UNCHANGED asked

Lock(c) ==
  /\ pc[c] = "lock"
  /\ mutex[GenOf[c]] = NoCaller
  /\ mutex' = [mutex EXCEPT ![GenOf[c]] = c]
  /\ Goto(c, "get")
  /\ UNCHANGED <<cm, tries, asked, found, todo, used, port, result, ticket, late, envVars,
                 nCalls, nFaults, nUpdates, lap, busy, handed>>

\* getPortConfigMap and the list of the nodes: both are read, or the call
\* ends with the error of the one that failed.
ReadConfigMap(c) ==
  /\ pc[c] = "get"
  /\ found' = [found EXCEPT ![c] = cm]
  /\ todo' = [todo EXCEPT ![c] = Nodes]
  /\ used' = [used EXCEPT ![c] = {}]
  /\ Goto(c, "scan")
  /\ UNCHANGED <<cm, mutex, tries, asked, port, result, ticket, late, envVars, nCalls,
                 nFaults, nUpdates, lap, busy, handed>>

ReadFails(c) ==
  /\ pc[c] \in {"get", "getCheck"}
  /\ Fault
  /\ Return(c, "error")
  /\ UNCHANGED <<cm, late, envVars, nCalls, nUpdates, lap, handed>>

\* Mutant of AskNode: the set collected so far is replaced, not extended.
AskNodeAnew(c, n) ==
  /\ pc[c] \in {"scan", "scanCheck"}
  /\ n \in todo[c]
  /\ used' = [used EXCEPT ![c] = Visible(n)]
  /\ todo' = [todo EXCEPT ![c] = @ \ {n}]
  /\ UNCHANGED <<cm, mutex, pc, tries, asked, found, port, result, ticket, late, envVars,
                 nCalls, nFaults, nUpdates, lap, busy, handed>>

\* getAllUsedPort: node n answers, through its ConfigMap or over ssh ...
AskNode(c, n) ==
  /\ pc[c] \in {"scan", "scanCheck"}
  /\ n \in todo[c]
  /\ used' = [used EXCEPT ![c] = @ \cup Visible(n)]
  /\ todo' = [todo EXCEPT ![c] = @ \ {n}]
  /\ UNCHANGED <<cm, mutex, pc, tries, asked, found, port, result, ticket, late, envVars,
                 nCalls, nFaults, nUpdates, lap, busy, handed>>

\* ... or its error is logged and the node passed over.
SkipNode(c, n) ==
  /\ pc[c] \in {"scan", "scanCheck"}
  /\ n \in todo[c]
  /\ Fault
  /\ todo' = [todo EXCEPT ![c] = @ \ {n}]
  /\ busy' = [busy EXCEPT ![c] = {b \in @ : b[1] # n}]
  /\ UNCHANGED <<cm, mutex, pc, tries, asked, found, used, port, result, ticket, late,
                 envVars, nCalls, nUpdates, lap, handed>>

\* The walk ends at the first port that is in range and not in use: the copy
\* gets the new cursor and Update is called.
Select(c) ==
  /\ pc[c] = "scan" /\ todo[c] = {}
  /\ found[c].entry # "nodata"
  /\ \E p \in Selectable(found[c], used[c]) :
       /\ \A q \in Selectable(found[c], used[c]) : p <= q
       /\ port' = [port EXCEPT ![c] = p]
  /\ Goto(c, "sent")
  /\ UNCHANGED <<cm, mutex, tries, asked, found, todo, used, result, ticket, late, envVars,
                 nCalls, nFaults, nUpdates, lap, busy, handed>>

\* The walk reaches the end of the range: an error, and the cursor stays.
AllUsed(c) ==
  /\ pc[c] = "scan" /\ todo[c] = {}
  /\ Selectable(found[c], used[c]) = {}
  /\ Return(c, "allUsed")
  /\ UNCHANGED <<cm, late, envVars, nCalls, nFaults, nUpdates, lap, handed>>

\* Mutant of Store: no resourceVersion is sent along.
StoreAnyway(copy, p) ==
  /\ cm' = [rv |-> cm.rv + 1, entry |-> "number", port |-> p]
  /\ lap' = IF Cursor(cm) >= End THEN lap + 1 ELSE lap

\* The API server stores p as the cursor, if the copy is current.
Store(copy, p) ==
  /\ copy.rv = cm.rv
  /\ cm' = [rv |-> cm.rv + 1, entry |-> "number", port |-> p]
  /\ lap' = IF Cursor(cm) >= End THEN lap + 1 ELSE lap

ApplyUpdate(c) ==
  /\ pc[c] = "sent"
  /\ Store(found[c], port[c])
  /\ nUpdates' = nUpdates + 1
  /\ ticket' = [ticket EXCEPT ![c] = [by |-> nUpdates + 1, lap |-> lap']]
  /\ Goto(c, "applied")
  /\ UNCHANGED <<mutex, tries, asked, found, todo, used, port, result, late, envVars, nCalls,
                 nFaults, busy, handed>>

Conflict(c) ==
  /\ pc[c] = "sent"
  /\ found[c].rv # cm.rv
  /\ Goto(c, "failed")
  /\ UNCHANGED <<cm, mutex, tries, asked, found, todo, used, port, result, ticket, late,
                 envVars, nCalls, nFaults, nUpdates, lap, busy, handed>>

Unseen(S) == {[copy |-> found[c], port |-> port[c]] : c \in {d \in S : pc[d] = "sent"}}

\* Update fails in transit: the request, or the answer to it, is late.
UpdateLost(c) ==
  /\ pc[c] \in {"sent", "applied"}
  /\ Fault
  /\ late' = late \cup Unseen({c})
  /\ Goto(c, "failed")
  /\ UNCHANGED <<cm, mutex, tries, asked, found, todo, used, port, result, ticket, envVars,
                 nCalls, nUpdates, lap, busy, handed>>

ApplyLate(r) ==
  /\ Store(r.copy, r.port)
  /\ late' = late \ {r}
  /\ UNCHANGED <<mutex, callVars, envVars, nCalls, nFaults, nUpdates, busy, handed>>

ReturnPort(c) ==
  /\ pc[c] = "applied"
  /\ handed' = handed \cup {[port |-> port[c], by |-> ticket[c].by, lap |-> ticket[c].lap]}
  /\ Return(c, "port")
  /\ UNCHANGED <<cm, late, envVars, nCalls, nFaults, nUpdates, lap>>

\* CAN_NOT_UPDATE: the attempt ends, the mutex with it, and another begins ...
Retry(c) ==
  /\ pc[c] = "failed"
  /\ tries[c] + 1 < MaxTries
  /\ tries' = [tries EXCEPT ![c] = @ + 1]
  /\ mutex' = [mutex EXCEPT ![GenOf[c]] = NoCaller]
  /\ Goto(c, "lock")
  /\ Forget({c})
  /\ UNCHANGED <<cm, asked, used, result, late, envVars, nCalls, nFaults, nUpdates, lap,
                 busy, handed>>

\* ... unless it was the last.
GiveUp(c) ==
  /\ pc[c] = "failed"
  /\ tries[c] + 1 >= MaxTries
  /\ Return(c, "canNotUpdate")
  /\ UNCHANGED <<cm, late, envVars, nCalls, nFaults, nUpdates, lap, handed>>
-----------------------------------------------------------------------------
(***************************************************************************)
(* CheckPortUsed                                                           *)
(***************************************************************************)
CheckPort(c, p) ==
  /\ Begin(c, "getCheck")
  /\ asked' = [asked EXCEPT ![c] = p]

ReadForCheck(c) ==
  /\ pc[c] = "getCheck"
  /\ InRange(asked[c])
  /\ todo' = [todo EXCEPT ![c] = Nodes]
  /\ Goto(c, "scanCheck")
  /\ UNCHANGED <<cm, mutex, tries, asked, found, used, port, result, ticket, late, envVars,
                 nCalls, nFaults, nUpdates, lap, busy, handed>>

OutOfRange(c) ==
  /\ pc[c] = "getCheck"
  /\ ~InRange(asked[c])
  /\ Return(c, "outOfRange")
  /\ UNCHANGED <<cm, late, envVars, nCalls, nFaults, nUpdates, lap, handed>>

AnswerCheck(c) ==
  /\ pc[c] = "scanCheck" /\ todo[c] = {}
  /\ Return(c, IF asked[c] \in used[c] THEN "occupied" ELSE "free")
  /\ UNCHANGED <<cm, late, envVars, nCalls, nFaults, nUpdates, lap, handed>>
-----------------------------------------------------------------------------
\* The process of generator g ends and is started again.
Restart(g) ==
  LET dead == {c \in Callers : GenOf[c] = g} IN
  /\ mutex' = [mutex EXCEPT ![g] = NoCaller]
  /\ late' = late \cup Unseen(dead)
  /\ pc' = [c \in Callers |-> IF c \in dead THEN "idle" ELSE pc[c]]
  /\ tries' = [c \in Callers |-> IF c \in dead THEN 0 ELSE tries[c]]
  /\ asked' = [c \in Callers |-> IF c \in dead THEN 0 ELSE asked[c]]
  /\ used' = [c \in Callers |-> IF c \in dead THEN {} ELSE used[c]]
  /\ result' = [c \in Callers |-> IF c \in dead THEN "none" ELSE result[c]]
  /\ busy' = [c \in Callers |-> IF c \in dead THEN {} ELSE busy[c]]
  /\ Forget(dead)
  /\ UNCHANGED <<cm, envVars, nCalls, nUpdates, lap, handed>>

Crash(g) == Fault /\ Restart(g)

\* Data is a nil map: storing the cursor panics, which ends the process.
Panic(c) ==
  /\ pc[c] = "scan" /\ todo[c] = {}
  /\ Selectable(found[c], used[c]) # {}
  /\ found[c].entry = "nodata"
  /\ Restart(GenOf[c])
  /\ UNCHANGED nFaults

\* A process on node n opens or closes a port.  Only ports that matter to the
\* generators are opened: ports that were handed out, by those who got them.
Change(n, S) ==
  /\ nChanges < MaxChanges
  /\ nChanges' = nChanges + 1
  /\ bound' = [bound EXCEPT ![n] = S]
  /\ busy' = [c \in Callers |-> {b \in busy[c] : b[1] = n /\ n \notin Reporting => b[2] \in S}]
  /\ UNCHANGED <<cm, mutex, callVars, late, reported, nCalls, nFaults, nUpdates, lap, handed>>

Open(n) == \E h \in handed : h.port \notin bound[n] /\ Change(n, bound[n] \cup {h.port})
Close(n) == \E p \in bound[n] : Change(n, bound[n] \ {p})

\* The daemon of node n publishes the ports that are open.
Report(n) ==
  /\ n \in Reporting
  /\ reported[n] # bound[n]
  /\ reported' = [reported EXCEPT ![n] = bound[n]]
  /\ busy' = [c \in Callers |-> {b \in busy[c] : b[1] = n => b[2] \in bound[n]}]
  /\ UNCHANGED <<cm, mutex, callVars, late, bound, nChanges, nCalls, nFaults, nUpdates, lap,
                 handed>>

\* The instance ids' counter is another entry of Data when InsIdRangeCmName
\* names the same ConfigMap: writing it moves the version only.
WriteOtherEntry ==
  /\ cm.entry # "nodata"
  /\ Fault
  /\ cm' = [cm EXCEPT !.rv = @ + 1]
  /\ UNCHANGED <<mutex, callVars, late, envVars, nCalls, nUpdates, lap, busy, handed>>

Step(c) == \/ Lock(c)
           \/ ReadConfigMap(c) \/ ReadFails(c)
           \/ \E n \in Nodes : AskNode(c, n) \/ SkipNode(c, n)
           \/ Select(c) \/ AllUsed(c) \/ Panic(c)
           \/ ApplyUpdate(c) \/ Conflict(c) \/ UpdateLost(c)
           \/ ReturnPort(c) \/ Retry(c) \/ GiveUp(c)
           \/ ReadForCheck(c) \/ OutOfRange(c) \/ AnswerCheck(c)

Next == \/ \E c \in Callers : Step(c) \/ GetNextPort(c)
        \/ \E c \in Callers, p \in Checked : CheckPort(c, p)
        \/ \E g \in Generators : Crash(g)
        \/ \E r \in late : ApplyLate(r)
        \/ WriteOtherEntry
        \/ \E n \in Nodes : Open(n) \/ Close(n) \/ Report(n)

Spec == Init /\ [][Next]_vars

Fairness == \A c \in Callers : WF_vars(Step(c)) /\ SF_vars(Lock(c))

FairSpec == Spec /\ Fairness
-----------------------------------------------------------------------------
\* The ports a call may return.
RangePorts == {p \in Base .. End : InRange(p)}

\* Types: bounded attempts; every port in hand or handed out belongs to the range,
\* even when the stored cursor is outside of it, and is none of the reserved ones.
TypeOK ==
  /\ cm \in ConfigMaps
  /\ mutex \in [Generators -> Callers \cup {NoCaller}]
  /\ pc \in [Callers -> PcValues]
  /\ tries \in [Callers -> 0 .. MaxTries - 1]
  /\ asked \in [Callers -> Nat]
  /\ found \in [Callers -> ConfigMaps]
  /\ todo \in [Callers -> SUBSET Nodes]
  /\ used \in [Callers -> SUBSET Nat]
  /\ port \in [Callers -> {0} \cup RangePorts]
  /\ result \in [Callers -> Results]
  /\ late \subseteq [copy : ConfigMaps, port : RangePorts]
  /\ bound \in [Nodes -> SUBSET Nat]
  /\ reported \in [Nodes -> SUBSET Nat]
  /\ nCalls \in Nat /\ nFaults \in Nat /\ nChanges \in Nat /\ nUpdates \in Nat
  /\ lap \in Nat
  /\ ticket \in [Callers -> [by : Nat, lap : Nat]]
  /\ busy \in [Callers -> SUBSET (Nodes \X Nat)]
  /\ handed \subseteq [port : RangePorts, by : Nat, lap : Nat]

\* A port is handed out a second time only after the cursor has come to the
\* end of the range and started over, whichever generators the two calls used
\* and whatever failed in between.
NoRepeatWithinLap ==
  \A a, b \in handed : a # b /\ a.lap = b.lap => a.port # b.port

\* The cursor starts over only from the end of the range; every other update
\* moves it forward.  Two generators that work from the same copy, or a late
\* request, do not send it back over ports that were handed out.
StartsOverOnlyAtEnd ==
  [][Cursor(cm') # Cursor(cm) => Cursor(cm') > Cursor(cm) \/ Cursor(cm) >= End]_cm

\* A port that some node showed as in use from the beginning of the call to
\* its end, and whose node was not passed over, is neither handed out nor
\* declared free: the retries and the walk always look at what was collected
\* in the same attempt.
BusyPortsAreRefused ==
  \A c \in Callers, n \in Nodes :
    /\ pc[c] = "applied" => <<n, port[c]>> \notin busy[c]
    /\ pc[c] = "scanCheck" /\ todo[c] = {} /\ asked[c] \notin used[c] =>
         <<n, asked[c]>> \notin busy[c]

\* What the error of getNextScopePort says, "all port are used, wating for
\* free port" (port_generator.go:151), after the walk whose comment promises to
\* check the available ports again from the start (line 127): every port of
\* the range is in use or was handed out before.  The code starts over only
\* when the cursor is at the end already, so ports at and below the cursor are
\* not looked at, and the first port of the range never is.
AllUsedMeansNoneFree ==
  \A c \in Callers : result[c] = "allUsed" =>
    RangePorts \subseteq used[c] \cup {h.port : h \in handed}

\* Every call ends; a failing update is retried a bounded number of times and
\* no path keeps the mutex.
CallsEnd == \A c \in Callers : pc[c] # "idle" ~> pc[c] = "idle"
=============================================================================
