----------------------------- MODULE HostCaches -----------------------------
(***************************************************************************)
(* Choosing hosts by what the operator remembers of them.  Placing a pod   *)
(* (business/adapter/pod_manager_base.go) lists the nodes, asks the        *)
(* hardware status of each in a goroutine of its own                       *)
(* (utils/hardware_status), reads the controller configuration             *)
(* (utils/k8sutil/controller_config.go) and builds a node affinity;        *)
(* looking up the client address of a host goes by a list of all of them   *)
(* (utils/k8sutil/k8sutil.go).  Each of the three is cached, in three ways:*)
(*  - the status of a node is probed under a lock of that node, stamped    *)
(*    after the probe, and kept in one Go map for all nodes, which the     *)
(*    locks do not protect;                                                *)
(*  - the configuration has no lock: three fields are read and written one *)
(*    after the other;                                                     *)
(*  - the addresses are in a thread-safe store that forgets them in time.  *)
(* Time is counted in ticks.  It passes while somebody probes or loads, or *)
(* when nobody has anything to do; ages beyond Far are not told apart.     *)
(***************************************************************************)
EXTENDS Integers, FiniteSets

CONSTANTS Callers, Nodes,
          Controllers,  \* nodes with the label of the controllers
          None,         \* no node, no address, no caller
          Addresses,    \* client addresses
          FirstAddress, \* the address each node starts with
          HwTTL, ConfTTL, AddrTTL,
          MaxProbe,     \* assumption: ticks a probe, a load or a list takes at most
          Far,          \* bound: ages that are told apart, for each focus
          Targets,      \* hosts a pod is wanted on, None for any
          MaxCalls,     \* bound: calls in a behaviour of each focus
          MaxEvents     \* bound: changes of the hosts, requests that fail and crashes, likewise

\* What changes in a behaviour.
Focuses == {"nodes", "config", "addresses"}

ASSUME ConstantsAssumption ==
  /\ Nodes # {} /\ Controllers \subseteq Nodes /\ None \notin Nodes \cup Addresses \cup Callers
  /\ HwTTL \in Nat /\ ConfTTL \in Nat \ {0} /\ AddrTTL \in Nat /\ MaxProbe \in Nat /\ Far \in [Focuses -> Nat]
  /\ FirstAddress \in [Nodes -> Addresses] /\ Targets \subseteq Nodes \cup {None}
  /\ MaxCalls \in [Focuses -> Nat] /\ MaxEvents \in [Focuses -> Nat]

VARIABLES
  focus,      \* what changes in a behaviour
  node,       \* the nodes as they are
  hybrid,     \* the configuration as it is: pods may share the controllers' nodes
  address,    \* the client address each node reports
  hw,         \* hostStatusMap
  lock,       \* hostStatusLockerMap
  conf,       \* ControllerConfigPolicy: LastValue, IsInited, LastQueryTime
  addrs,      \* the cached list of addresses
  call,       \* call of each caller
  at,         \* where it is
  task,       \* where its goroutine of each node is
  listed,     \* nodes it has listed as ready
  got,        \* status it was given of each node
  read,       \* configuration or addresses it has read
  spent,      \* ticks spent in a goroutine's probe; None: in the call's own load
  result,     \* what the call that returned in this step returned
  \* observation only
  nCalls, nEvents,
  last        \* ticks since something was so

srcVars == <<node, hybrid, address>>
cacheVars == <<hw, lock, conf, addrs>>
taskVars == <<task, listed, got>>
mainVars == <<call, at, read>>
boundVars == <<focus, nCalls, nEvents>>
vars == <<srcVars, cacheVars, taskVars, mainVars, result, spent, boundVars, last>>

Ages == 0..Far[focus]
Older(a) == IF a < Far[focus] THEN a + 1 ELSE Far[focus]

Status == {"none", "online", "offline"}
NoStatus == [status |-> "none", age |-> 0]
NoConf == [value |-> "none", inited |-> FALSE, age |-> Far[focus]]
NoAddrs == [list |-> None, age |-> 0]
NoTasks == [n \in Nodes |-> "idle"]
NoCall == [op |-> "none", target |-> None]
Nothing == [kind |-> "none", nodes |-> {}]

HwCheck == focus = "nodes"

Init ==
  /\ focus \in Focuses
  /\ node = [n \in Nodes |-> "up"] /\ hybrid = TRUE
  /\ address = FirstAddress
  /\ hw = [n \in Nodes |-> NoStatus] /\ lock = [n \in Nodes |-> None]
  /\ conf = NoConf /\ addrs = NoAddrs
  /\ call = [c \in Callers |-> NoCall] /\ at = [c \in Callers |-> "idle"]
  /\ task = [c \in Callers |-> NoTasks] /\ listed = [c \in Callers |-> {}]
  /\ got = [c \in Callers |-> [n \in Nodes |-> "none"]]
  /\ read = [c \in Callers |-> None]
  /\ spent = [c \in Callers |-> [x \in Nodes \cup {None} |-> 0]]
  /\ result = Nothing
  /\ nCalls = 0 /\ nEvents = 0
  /\ last = [ready  |-> [n \in Nodes |-> 0], nic |-> [n \in Nodes |-> 0],
             bad    |-> [n \in Nodes |-> Far[focus]],
             hybrid |-> [h \in BOOLEAN |-> IF h THEN 0 ELSE Far[focus]],
             client |-> [n \in Nodes |-> [a \in Addresses \cup {None} |->
                                           IF a = address[n] THEN 0 ELSE Far[focus]]]]

\* Ticks since something was so, given that it is so now.
Since(now, before, ticks) == IF now THEN 0 ELSE IF ticks THEN Older(before) ELSE before

\* A node whose probe failed counts as bad.  Only the focus is observed.
Observe(ticks, failed) ==
  last' = CASE focus = "nodes" ->
                 [last EXCEPT
                    !.ready  = [n \in Nodes |-> Since(node'[n] # "notReady", @[n], ticks)],
                    !.nic    = [n \in Nodes |-> Since(node'[n] # "nicDown", @[n], ticks)],
                    !.bad    = [n \in Nodes |-> Since(node'[n] # "up" \/ n \in failed, @[n], ticks)]]
            [] focus = "config" ->
                 [last EXCEPT !.hybrid = [h \in BOOLEAN |-> Since(h = hybrid', @[h], ticks)]]
            [] focus = "addresses" ->
                 [last EXCEPT !.client = [n \in Nodes |-> [a \in Addresses \cup {None} |->
                                                          Since(a = address'[n], @[n][a], ticks)]]]
-----------------------------------------------------------------------------
(***************************************************************************)
(* Calls                                                                   *)
(***************************************************************************)
Ops == CASE focus = "nodes"     -> [op : {"place"}, target : Targets]
                                     \cup [op : {"unavailable"}, target : {None}]
         [] focus = "config"    -> [op : {"place"}, target : {None}] \cup [op : {"config"}, target : {None}]
         [] focus = "addresses" -> [op : {"client"}, target : Nodes] \cup [op : {"host"}, target : Addresses]

First(op) == CASE op \in {"place", "unavailable"} -> "list"
               [] op = "config"                   -> "conf"
               [] op \in {"client", "host"}       -> "addrs"

Set(f, c, v) == [f EXCEPT ![c] = v]

Call(c, o) ==
  /\ at[c] = "idle" /\ nCalls < MaxCalls[focus] /\ nCalls' = nCalls + 1
  /\ call' = Set(call, c, o) /\ at' = Set(at, c, First(o.op))
  /\ result' = Nothing
  /\ UNCHANGED <<srcVars, cacheVars, taskVars, read, spent, focus, nEvents>>
  /\ Observe(FALSE, {})

Step == UNCHANGED <<srcVars, focus, nCalls>>
Event == nEvents < MaxEvents[focus] /\ nEvents' = nEvents + 1
NoEvent == UNCHANGED nEvents

\* A step of a call: it returns, or goes on at l having read v.
Return(c, kind, nodes) ==
  /\ result' = [kind |-> kind, nodes |-> nodes]
  /\ at' = Set(at, c, "idle") /\ read' = Set(read, c, None) /\ call' = Set(call, c, NoCall)
  /\ task' = Set(task, c, NoTasks) /\ listed' = Set(listed, c, {})
  /\ got' = Set(got, c, [n \in Nodes |-> "none"])
  /\ spent' = Set(spent, c, [x \in Nodes \cup {None} |-> 0])

Goto(c, l, v) ==
  /\ at' = Set(at, c, l) /\ read' = Set(read, c, v)
  /\ spent' = IF l \in {"load", "value", "listAddrs", "add"} THEN spent
              ELSE [spent EXCEPT ![c][None] = 0]
  /\ result' = Nothing /\ UNCHANGED <<call, taskVars>>

\* A call asks the API server: it fails, or answers v.
Ask(c, from, to, v) ==
  /\ at[c] = from /\ Step /\ UNCHANGED cacheVars
  /\ \/ NoEvent /\ Goto(c, to, v)
     \/ Event /\ Return(c, "error", {})
  /\ Observe(FALSE, {})
-----------------------------------------------------------------------------
(***************************************************************************)
(* Status of the nodes                                                     *)
(***************************************************************************)
\* CheckHwStatusByNodeCondition goes by the conditions somebody else reports.
ByCondition(n) == IF node[n] = "nicDown" THEN "offline" ELSE "online"

\* GetUnAvailableNodes: a goroutine for each node that was listed, or, without
\* the hardware check, what the list says.
List(c) ==
  /\ at[c] = "list" /\ Step /\ UNCHANGED cacheVars
  /\ \/ /\ NoEvent /\ at' = Set(at, c, "join")
        /\ listed' = Set(listed, c, {n \in Nodes : node[n] # "notReady"})
        /\ IF HwCheck
           THEN task' = Set(task, c, [n \in Nodes |-> "lock"]) /\ UNCHANGED got
           ELSE /\ task' = Set(task, c, [n \in Nodes |-> "done"])
                /\ got' = Set(got, c, [n \in Nodes |-> ByCondition(n)])
        /\ result' = Nothing /\ UNCHANGED <<call, read, spent>>
     \/ Event /\ Return(c, "error", {})
  /\ Observe(FALSE, {})

TaskStep(c, n, l) ==
  /\ task' = [task EXCEPT ![c][n] = l]
  /\ result' = Nothing /\ Step /\ UNCHANGED <<mainVars, listed, conf, addrs>>

\* Mutant of MayLock: the nodes have no locks.
MayLockAlways(n) == TRUE
MayLock(n) == lock[n] = None

Unlocked(n) == Set(lock, n, None)

\* Mutant of HwFresh: a status is never probed anew.
HwFreshAlways(age) == TRUE
HwFresh(age) == age <= HwTTL

\* GetHostStatus: the lock is taken; a status of the last seconds is returned, an
\* older one deleted before the probe.
Lookup(c, n) ==
  /\ task[c][n] = "lock" /\ MayLock(n)
  /\ IF hw[n].status # "none" /\ HwFresh(hw[n].age)
     THEN /\ got' = [got EXCEPT ![c][n] = hw[n].status]
          /\ TaskStep(c, n, "done") /\ UNCHANGED <<hw, lock>>
     ELSE /\ hw' = Set(hw, n, NoStatus) /\ TaskStep(c, n, "probe")
          /\ lock' = Set(lock, n, c) /\ UNCHANGED got
  /\ NoEvent /\ UNCHANGED spent /\ Observe(FALSE, {})

\* testHostHardwareStatus: a node listed as not ready is off line whatever the
\* probe finds; of the others the state of the network card is asked by ssh.
Probed(c, n) ==
  IF n \notin listed[c] THEN {"offline"}
  ELSE CASE node[n] = "up"       -> {"online"}
         [] node[n] = "nicDown"  -> {"offline"}
         [] node[n] = "notReady" -> {"online", "offline"}

\* An error of ssh, a command that fails and a configuration without its user
\* included, is taken as a card that is down.
Probe(c, n) ==
  /\ task[c][n] = "probe" /\ TaskStep(c, n, "store") /\ UNCHANGED <<hw, lock, spent>>
  /\ \/ /\ NoEvent /\ \E s \in Probed(c, n) : got' = [got EXCEPT ![c][n] = s]
        /\ Observe(FALSE, {})
     \/ Event /\ got' = [got EXCEPT ![c][n] = "offline"] /\ Observe(FALSE, {n})

Store(c, n) ==
  /\ task[c][n] = "store" /\ TaskStep(c, n, "done")
  /\ hw' = Set(hw, n, [status |-> got[c][n], age |-> 0])
  /\ lock' = Unlocked(n) /\ spent' = [spent EXCEPT ![c][n] = 0]
  /\ NoEvent /\ UNCHANGED got /\ Observe(FALSE, {})

Taint(c) == {n \in Nodes : got[c][n] # "online"}

\* BuildNodeAvailableInfo and GetUnAvailableNode, when every goroutine has answered.
Join(c) ==
  /\ at[c] = "join" /\ \A n \in Nodes : task[c][n] = "done"
  /\ Step /\ NoEvent /\ UNCHANGED cacheVars
  /\ CASE call[c].op = "unavailable" -> Return(c, "unavailable", Taint(c))
       [] call[c].op = "place" /\ Taint(c) = Nodes -> Return(c, "noNode", {})
       [] OTHER -> Goto(c, "conf", None)
  /\ Observe(FALSE, {})
-----------------------------------------------------------------------------
(***************************************************************************)
(* The controller configuration                                            *)
(***************************************************************************)
ConfStep == Step /\ NoEvent /\ UNCHANGED <<hw, lock, addrs>>

\* Mutant of Reload: the configuration is loaded once.
ReloadOnce == ~conf.inited \/ conf.value = "none"
\* CheckPolicyIsReload; an age of Far: there is no LastQueryTime yet.
Reload == ~conf.inited \/ conf.value = "none" \/ conf.age >= ConfTTL

CheckConf(c) ==
  /\ at[c] = "conf" /\ ConfStep /\ UNCHANGED conf
  /\ IF Reload THEN Goto(c, "load", None) ELSE Goto(c, "take", None)
  /\ Observe(FALSE, {})

\* The value is read after the check: it may have been replaced by then.
TakeConf(c) ==
  /\ at[c] = "take" /\ ConfStep /\ UNCHANGED conf
  /\ Goto(c, "affinity", conf.value)
  /\ Observe(FALSE, {})

LoadConf(c) == Ask(c, "load", "value", IF hybrid THEN "hybrid" ELSE "apart")

\* The three fields are written one after the other.
WriteConf(c) ==
  /\ ConfStep
  /\ \/ at[c] = "value" /\ conf' = [conf EXCEPT !.value = read[c]] /\ Goto(c, "inited", read[c])
     \/ at[c] = "inited" /\ conf' = [conf EXCEPT !.inited = TRUE] /\ Goto(c, "stamp", read[c])
     \/ at[c] = "stamp" /\ conf' = [conf EXCEPT !.age = 0] /\ Goto(c, "affinity", read[c])
  /\ Observe(FALSE, {})

\* BuildPodNodeAffinity: the nodes the pod may run on; a target that is tainted
\* interrupts the workflow.  A caller that wants the configuration has it now.
Affinity(c) ==
  /\ at[c] = "affinity" /\ Step /\ NoEvent /\ UNCHANGED cacheVars
  /\ LET o == call[c]
         shared == IF read[c] = "hybrid" THEN Nodes ELSE Nodes \ Controllers
         wanted == IF o.target = None THEN Nodes ELSE {o.target}
     IN CASE o.op = "config"                             -> Return(c, read[c], {})
          [] o.op = "place" /\ o.target \in Taint(c) -> Return(c, "interrupted", {o.target})
          [] OTHER -> Return(c, "placed", (wanted \cap shared) \ Taint(c))
  /\ Observe(FALSE, {})
-----------------------------------------------------------------------------
(***************************************************************************)
(* The client addresses of the nodes                                       *)
(***************************************************************************)
AddrStep == Step /\ NoEvent /\ UNCHANGED <<hw, lock, conf>>

\* Mutant of Remembered: the list never expires.
RememberedAlways == addrs.list # None
Remembered == addrs.list # None /\ addrs.age <= AddrTTL

LookupAddrs(c) ==
  /\ at[c] = "addrs" /\ AddrStep /\ UNCHANGED addrs
  /\ IF Remembered THEN Goto(c, "find", addrs.list) ELSE Goto(c, "listAddrs", None)
  /\ Observe(FALSE, {})

ListAddrs(c) == Ask(c, "listAddrs", "add", address)

AddAddrs(c) ==
  /\ at[c] = "add" /\ AddrStep
  /\ addrs' = [list |-> read[c], age |-> 0] /\ Goto(c, "find", read[c])
  /\ Observe(FALSE, {})

\* GetClientIP and GetHostIP: the address of a host, a host of the address.
Find(c) ==
  /\ at[c] = "find" /\ AddrStep /\ UNCHANGED addrs
  /\ LET o == call[c]
         a == read[c][o.target]
         hosts == {n \in Nodes : read[c][n] = o.target}
     IN \/ o.op = "client" /\ a # None /\ Return(c, "found", {<<o.target, a>>})
        \/ o.op = "client" /\ a = None /\ Return(c, "notFound", {<<o.target, None>>})
        \/ o.op = "host" /\ \E n \in hosts : Return(c, "found", {<<n, o.target>>})
        \/ o.op = "host" /\ hosts = {} /\ Return(c, "notFound", {})
  /\ Observe(FALSE, {})
-----------------------------------------------------------------------------
(***************************************************************************)
(* Time, changes and crashes                                               *)
(***************************************************************************)
\* Goroutines that probe and calls that wait for the API server take time.
Lasting(c) == {n \in Nodes : task[c][n] \in {"probe", "store"}}
                \cup (IF at[c] \in {"load", "value", "listAddrs", "add"} THEN {None} ELSE {})

\* Nobody can go on but those who take their time.
Settled ==
  \A c \in Callers :
    /\ at[c] \in {"idle", "join", "load", "value", "listAddrs", "add"}
    /\ \A n \in Nodes : \/ task[c][n] \in {"idle", "done", "probe", "store"}
                        \/ task[c][n] = "lock" /\ lock[n] # None
    /\ at[c] = "join" => \E n \in Nodes : task[c][n] # "done"

Tick ==
  /\ Settled /\ \A c \in Callers : \A x \in Lasting(c) : spent[c][x] < MaxProbe
  /\ spent' = [c \in Callers |-> [x \in Nodes \cup {None} |->
                 IF x \in Lasting(c) THEN spent[c][x] + 1 ELSE spent[c][x]]]
  /\ hw' = [n \in Nodes |-> IF hw[n].status = "none" THEN hw[n] ELSE [hw[n] EXCEPT !.age = Older(@)]]
  /\ conf' = [conf EXCEPT !.age = Older(@)]
  /\ addrs' = IF addrs.list = None THEN addrs ELSE [addrs EXCEPT !.age = Older(@)]
  /\ result' = Nothing /\ UNCHANGED <<srcVars, lock, taskVars, mainVars, boundVars>>
  /\ Observe(TRUE, {})

Change ==
  /\ Event
  /\ \/ /\ focus = "nodes" /\ UNCHANGED <<hybrid, address>>
        /\ \E n \in Nodes, s \in {"up", "nicDown", "notReady"} : node[n] # s /\ node' = Set(node, n, s)
     \/ focus = "config" /\ hybrid' = ~hybrid /\ UNCHANGED <<node, address>>
     \/ /\ focus = "addresses" /\ UNCHANGED <<node, hybrid>>
        /\ \E n \in Nodes, a \in Addresses \cup {None} : address[n] # a /\ address' = Set(address, n, a)
  /\ result' = Nothing /\ UNCHANGED <<cacheVars, taskVars, mainVars, spent, focus, nCalls>>
  /\ Observe(FALSE, {})

\* The operator ends: what it remembered is gone.
Restart ==
  /\ Event /\ UNCHANGED <<srcVars, focus, nCalls>>
  /\ hw' = [n \in Nodes |-> NoStatus] /\ lock' = [n \in Nodes |-> None]
  /\ conf' = NoConf /\ addrs' = NoAddrs
  /\ call' = [c \in Callers |-> NoCall] /\ at' = [c \in Callers |-> "idle"]
  /\ task' = [c \in Callers |-> NoTasks] /\ listed' = [c \in Callers |-> {}]
  /\ got' = [c \in Callers |-> [n \in Nodes |-> "none"]] /\ read' = [c \in Callers |-> None]
  /\ spent' = [c \in Callers |-> [x \in Nodes \cup {None} |-> 0]]
  /\ result' = Nothing
  /\ UNCHANGED last

\* The goroutines of two nodes use the map at a time and one of them writes: the
\* runtime ends the process when it notices, which it need not.
MapsClash ==
  LET writes(c, n) == \/ task[c][n] = "store"
                      \/ task[c][n] = "lock" /\ lock[n] = None /\ hw[n].status # "none" /\ ~HwFresh(hw[n].age)
      uses(c, n)   == task[c][n] = "store" \/ (task[c][n] = "lock" /\ lock[n] = None)
  IN \E c, d \in Callers, m, n \in Nodes : m # n /\ writes(c, m) /\ uses(d, n)

Fatal == MapsClash /\ Restart
Crash == (\E c \in Callers : at[c] # "idle") /\ Restart
-----------------------------------------------------------------------------
Proceed(c) == \/ List(c) \/ Join(c) \/ CheckConf(c) \/ TakeConf(c) \/ LoadConf(c) \/ WriteConf(c)
              \/ Affinity(c) \/ LookupAddrs(c) \/ ListAddrs(c) \/ AddAddrs(c) \/ Find(c)
              \/ \E n \in Nodes : Lookup(c, n) \/ Probe(c, n) \/ Store(c, n)

Next == \/ \E c \in Callers : Proceed(c) \/ \E o \in Ops : Call(c, o)
        \/ Tick \/ Change \/ Fatal \/ Crash

Spec == Init /\ [][Next]_vars

\* Every call is scheduled, and what it waits for ends.
FairSpec == Spec /\ \A c \in Callers : WF_vars(Proceed(c))
-----------------------------------------------------------------------------
(***************************************************************************)
(* Properties                                                              *)
(***************************************************************************)
Places == {"idle", "list", "join", "conf", "take", "load", "value", "inited", "stamp", "affinity",
           "addrs", "listAddrs", "add", "find"}

\* Types; and the lock of a node is held by the caller whose goroutine works on it.
TypeOK ==
  /\ node \in [Nodes -> {"up", "nicDown", "notReady"}] /\ hybrid \in BOOLEAN
  /\ address \in [Nodes -> Addresses \cup {None}]
  /\ hw \in [Nodes -> [status : Status, age : Ages]]
  /\ lock \in [Nodes -> Callers \cup {None}]
  /\ \A c \in Callers, n \in Nodes : lock[n] = c <=> task[c][n] \in {"probe", "store"}
  /\ conf \in [value : {"none", "hybrid", "apart"}, inited : BOOLEAN, age : Ages]
  /\ addrs \in [list : {None} \cup [Nodes -> Addresses \cup {None}], age : Ages]
  /\ \A c \in Callers : call[c] \in Ops \cup {NoCall}
  /\ at \in [Callers -> Places] /\ listed \in [Callers -> SUBSET Nodes]
  /\ task \in [Callers -> [Nodes -> {"idle", "lock", "probe", "store", "done"}]]
  /\ got \in [Callers -> [Nodes -> Status]]
  /\ spent \in [Callers -> [Nodes \cup {None} -> 0..MaxProbe]]
  /\ nCalls \in 0..MaxCalls[focus] /\ nEvents \in 0..MaxEvents[focus]

\* What is known of a node when a pod is placed: a status that was cached, the
\* probe before it, the other nodes' probes since, and the configuration's load.
HwAge == HwTTL + 3 * MaxProbe

Returns(c, kinds) == at[c] # "idle" /\ at'[c] = "idle" /\ result'.kind \in kinds

\* With the hardware check, a node that a pod may be placed on was ready and had
\* its network card up not long ago, and a target that is refused, or a node that
\* is called unavailable, was not well not long ago or its probe failed: however
\* the probes of several callers and what they cached overlap.
PlacementsMatchNodes ==
  [][\A c \in Callers : HwCheck =>
       /\ Returns(c, {"placed"}) =>
            \A n \in result'.nodes : last.ready[n] <= HwAge /\ last.nic[n] <= HwAge
       /\ Returns(c, {"interrupted", "unavailable"}) =>
            \A n \in result'.nodes : last.bad[n] <= HwAge]_vars

\* The configuration a caller goes by was in force not long ago, though the
\* three fields are written without a lock.
ConfWasInForce ==
  [][\A c \in Callers : focus = "config" =>
       /\ Returns(c, {"hybrid", "apart"}) =>
            last.hybrid[result'.kind = "hybrid"] <= ConfTTL + MaxProbe
       /\ Returns(c, {"placed"}) /\ result'.nodes \cap Controllers # {} =>
            last.hybrid[TRUE] <= ConfTTL + MaxProbe]_vars

\* An address that is given for a host, or none, was the host's not long ago.
AddressWasTrue ==
  [][\A c \in Callers : Returns(c, {"found", "notFound"}) =>
       \A p \in result'.nodes : last.client[p[1]][p[2]] <= AddrTTL + MaxProbe]_vars

\* Every call returns.
CallsEnd == \A c \in Callers : at[c] # "idle" ~> at[c] = "idle"
=============================================================================
