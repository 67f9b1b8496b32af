-------------------------- MODULE HostCachesProofs --------------------------
(***************************************************************************)
(* What HostCaches guarantees for every set of callers, nodes and          *)
(* addresses, whatever the times to live.  Each of the three caches has    *)
(* an invariant that says how old what it holds may be, what a caller that *)
(* has it in hand may have waited since, and why it waited no longer.      *)
(***************************************************************************)
EXTENDS HostCaches, TLAPS

Lasts ==
  [ready : [Nodes -> Ages], nic : [Nodes -> Ages], bad : [Nodes -> Ages],
   hybrid : [BOOLEAN -> Ages], client : [Nodes -> [Addresses \cup {None} -> Ages]]]

Typed ==
  /\ TypeOK /\ focus \in Focuses /\ last \in Lasts
  /\ read = [c \in Callers |-> read[c]] /\ call = [c \in Callers |-> call[c]]

ConfPlaces == {"conf", "take", "load", "value", "inited", "stamp", "affinity"}
AddrPlaces == {"addrs", "listAddrs", "add", "find"}

\* What a call is about and what it has in hand where it is.
Placed ==
  \A c \in Callers :
    /\ at[c] \in AddrPlaces => focus = "addresses" /\ call[c] \in Ops
    /\ at[c] \in {"value", "inited", "stamp", "affinity"} => read[c] \in {"hybrid", "apart"}
    /\ at[c] = "take" => conf.value # "none"
    /\ at[c] \in {"add", "find"} => read[c] \in [Nodes -> Addresses \cup {None}]
    /\ \A n \in Nodes : task[c][n] \in {"lock", "probe", "store"} => at[c] = "join" /\ focus = "nodes"
    /\ at[c] = "join" => \A n \in Nodes : task[c][n] # "idle"

\* What is so now was so just now.
Current ==
  /\ focus = "nodes" =>
       \A n \in Nodes : /\ node[n] # "notReady" => last.ready[n] = 0
                        /\ node[n] # "nicDown" => last.nic[n] = 0
                        /\ node[n] # "up" => last.bad[n] = 0
  /\ focus = "config" => last.hybrid[hybrid] = 0
  /\ focus = "addresses" => \A n \in Nodes : last.client[n][address[n]] = 0

\* Every address of the list l was its host's no longer than x ago.
Recent(l, x) == \A n \in Nodes : last.client[n][l[n]] <= x

\* The list was taken as it was kept, but for the time it took to load.
Addressed ==
  focus = "addresses" =>
    /\ addrs.list # None => Recent(addrs.list, addrs.age + MaxProbe)
    /\ \A c \in Callers :
         /\ at[c] = "add" => Recent(read[c], spent[c][None])
         /\ at[c] = "find" => Recent(read[c], AddrTTL + MaxProbe)

\* The configuration v was in force no longer than x ago.
InForce(v, x) == last.hybrid[v = "hybrid"] <= x

\* The stamp may be another loader's than the value, but then both were written
\* before time went on.
Configured ==
  focus = "config" =>
    /\ conf.value # "none" => InForce(conf.value, conf.age + MaxProbe)
    /\ \A c \in Callers :
         /\ at[c] = "value" => InForce(read[c], spent[c][None])
         /\ at[c] \in {"inited", "stamp"} => InForce(conf.value, MaxProbe) /\ InForce(read[c], MaxProbe)
         /\ at[c] = "take" => InForce(conf.value, ConfTTL + MaxProbe)
         /\ at[c] = "affinity" => InForce(read[c], ConfTTL + MaxProbe)

\* Node n was s no longer than x ago.
Was(n, s, x) ==
  /\ s \in {"online", "offline"}
  /\ s = "online" => last.ready[n] <= x /\ last.nic[n] <= x
  /\ s = "offline" => last.bad[n] <= x

\* What a list l of the ready nodes says of node n was so no longer than x ago.
WasListed(n, l, x) == IF n \in l THEN last.ready[n] <= x ELSE last.bad[n] <= x

\* Somebody has just stored a status of n.
JustStored(n) == hw[n].status # "none" /\ hw[n].age = 0

\* A goroutine waits for one probe of another caller, and takes what that has
\* found, or probes at once; so all of a call have answered within MaxProbe.
Probing ==
  focus = "nodes" =>
    /\ \A n \in Nodes : hw[n].status # "none" => Was(n, hw[n].status, hw[n].age + MaxProbe)
    /\ \A c \in Callers, n \in Nodes :
         /\ task[c][n] = "lock" /\ lock[n] = None => WasListed(n, listed[c], 0) \/ JustStored(n)
         /\ task[c][n] = "probe" => WasListed(n, listed[c], spent[c][n])
         /\ task[c][n] = "store" => Was(n, got[c][n], spent[c][n])

\* A status in hand ages while other goroutines of the call are waited for, and
\* then while the configuration is loaded.
Answered ==
  focus = "nodes" =>
    \A c \in Callers, n \in Nodes :
      /\ at[c] = "join" /\ task[c][n] = "done" =>
           /\ Was(n, got[c][n], HwTTL + 2 * MaxProbe)
           /\ \A m \in Nodes : task[c][m] \in {"lock", "probe", "store"} =>
                IF lock[m] = None THEN Was(n, got[c][n], HwTTL + MaxProbe) \/ JustStored(m)
                ELSE Was(n, got[c][n], HwTTL + MaxProbe + spent[lock[m]][m])
      /\ at[c] \in {"conf", "take"} => Was(n, got[c][n], HwTTL + 2 * MaxProbe)
      /\ at[c] \in {"load", "value"} => Was(n, got[c][n], HwTTL + 2 * MaxProbe + spent[c][None])
      /\ at[c] \in {"inited", "stamp", "affinity"} => Was(n, got[c][n], HwAge)

IndInv == Typed /\ Placed /\ Current /\ Addressed /\ Configured /\ Probing /\ Answered

-----------------------------------------------------------------------------
(***************************************************************************)
(* Time                                                                    *)
(***************************************************************************)
LEMMA Numbers ==
  ASSUME Typed
  PROVE  /\ Far[focus] \in Nat /\ MaxProbe \in Nat /\ HwTTL \in Nat /\ AddrTTL \in Nat /\ ConfTTL \in Nat
         /\ Ages \subseteq Nat /\ focus \in Focuses
         /\ None \notin Nodes /\ None \notin Callers
         /\ \A x \in Ages : x <= Far[focus]
  BY ConstantsAssumption DEF Typed, Ages

\* A step of time, and nothing older without one.
Ageing(k) ==
  /\ \A n \in Nodes : /\ last'.ready[n] <= last.ready[n] + k
                      /\ last'.nic[n] <= last.nic[n] + k
                      /\ last'.bad[n] <= last.bad[n] + k
  /\ \A h \in BOOLEAN : last'.hybrid[h] <= last.hybrid[h] + k
  /\ \A n \in Nodes, a \in Addresses \cup {None} : last'.client[n][a] <= last.client[n][a] + k

LEMMA SinceAges ==
  ASSUME Typed, NEW now \in BOOLEAN, NEW before \in Ages, NEW ticks \in BOOLEAN
  PROVE  /\ Since(now, before, ticks) \in Ages
         /\ Since(now, before, ticks) <= before + (IF ticks THEN 1 ELSE 0)
         /\ now => Since(now, before, ticks) = 0
  BY Numbers DEF Since, Older, Ages

LEMMA SourceTypes ==
  ASSUME Typed, [Next]_vars
  PROVE  /\ UNCHANGED focus
         /\ node' \in [Nodes -> {"up", "nicDown", "notReady"}] /\ hybrid' \in BOOLEAN
         /\ address' \in [Nodes -> Addresses \cup {None}]
  <1>1. /\ node \in [Nodes -> {"up", "nicDown", "notReady"}] /\ hybrid \in BOOLEAN
        /\ address \in [Nodes -> Addresses \cup {None}]
    BY DEF Typed, TypeOK
  <1> DEFINE Goal == /\ UNCHANGED focus
                     /\ node' \in [Nodes -> {"up", "nicDown", "notReady"}] /\ hybrid' \in BOOLEAN
                     /\ address' \in [Nodes -> Addresses \cup {None}]
  <1>2. ASSUME UNCHANGED srcVars, UNCHANGED focus PROVE Goal
    BY <1>1, <1>2 DEF srcVars

  <1>3. ASSUME NEW c \in Callers, Proceed(c) PROVE Goal
    <2>1. Step
      BY <1>3
         DEF Proceed, List, Join, CheckConf, TakeConf, LoadConf, WriteConf, ConfStep, Affinity,
             LookupAddrs, ListAddrs, Ask, AddAddrs, AddrStep, Find, Lookup, Probe, Store,
             TaskStep
    <2>2. QED
      BY <1>2, <2>1 DEF Step
  <1>4. ASSUME NEW c \in Callers, NEW o \in Ops, Call(c, o) PROVE Goal
    BY <1>2, <1>4 DEF Call
  <1>5. CASE Tick
    BY <1>2, <1>5 DEF Tick, boundVars
  <1>6. CASE Change
    BY <1>1, <1>6 DEF Change, Set
  <1>7. CASE Restart
    BY <1>2, <1>7 DEF Restart
  <1>8. CASE UNCHANGED vars
    BY <1>2, <1>8 DEF vars, boundVars
  <1>9. QED
    BY <1>3, <1>4, <1>5, <1>6, <1>7, <1>8 DEF Next, Fatal, Crash

\* What a step adds to the observation.
LEMMA Observing ==
  ASSUME [Next]_vars
  PROVE  \/ UNCHANGED <<last, srcVars>> /\ ~Tick
         \/ \E D : Observe(FALSE, D)
         \/ Tick /\ Observe(TRUE, {})
  <1>1. ASSUME NEW c \in Callers, Proceed(c) PROVE \E D : Observe(FALSE, D)
    BY <1>1
       DEF Proceed, List, Join, CheckConf, TakeConf, LoadConf, WriteConf, Affinity, LookupAddrs,
           ListAddrs, Ask, AddAddrs, Find, Lookup, Probe, Store
  <1>2. ASSUME NEW c \in Callers, NEW o \in Ops, Call(c, o) PROVE \E D : Observe(FALSE, D)
    BY <1>2 DEF Call
  <1>3. Tick => Observe(TRUE, {})
    BY DEF Tick
  <1>4. Change => \E D : Observe(FALSE, D)
    BY DEF Change
  <1>5. Restart \/ UNCHANGED vars => UNCHANGED <<last, srcVars>>
    BY DEF Restart, vars
  <1>6. QED
    BY <1>1, <1>2, <1>3, <1>4, <1>5 DEF Next, Fatal, Crash

LEMMA ObservedAges ==
  ASSUME Typed, Current, [Next]_vars, NEW t \in BOOLEAN, NEW D, Observe(t, D)
  PROVE  last' \in Lasts /\ Current' /\ Ageing(IF t THEN 1 ELSE 0)
  <1>1. /\ UNCHANGED focus /\ last \in Lasts /\ \A x \in Ages : x \in Nat
        /\ node' \in [Nodes -> {"up", "nicDown", "notReady"}] /\ hybrid' \in BOOLEAN
        /\ address' \in [Nodes -> Addresses \cup {None}]
    BY SourceTypes, Numbers DEF Typed
  <1>2. \A now \in BOOLEAN, a \in Ages : /\ Since(now, a, t) \in Ages
                                         /\ Since(now, a, t) <= a + (IF t THEN 1 ELSE 0)
                                         /\ now => Since(now, a, t) = 0
    BY SinceAges
  <1>3. PICK k \in {0, 1} : k = IF t THEN 1 ELSE 0
    OBVIOUS
  <1>4. \A x \in Ages : x \in Nat /\ x <= x + k
    BY <1>1, <1>3
  <1>10. /\ \A n \in Nodes : last.ready[n] \in Ages /\ last.nic[n] \in Ages /\ last.bad[n] \in Ages
         /\ \A h \in BOOLEAN : last.hybrid[h] \in Ages
         /\ \A n \in Nodes, a \in Addresses \cup {None} : last.client[n][a] \in Ages
    BY <1>1 DEF Lasts
  <1>11. \A now \in BOOLEAN, a \in Ages : Since(now, a, t) <= a + k
    BY <1>2, <1>3
  <1>5. CASE focus = "nodes"
    <2>1. last' = [last EXCEPT
                    !.ready  = [n \in Nodes |-> Since(node'[n] # "notReady", last.ready[n], t)],
                    !.nic    = [n \in Nodes |-> Since(node'[n] # "nicDown", last.nic[n], t)],
                    !.bad    = [n \in Nodes |-> Since(node'[n] # "up" \/ n \in D, last.bad[n], t)]]
      BY <1>5 DEF Observe
    <2>2. \A n \in Nodes : /\ last'.ready[n] = Since(node'[n] # "notReady", last.ready[n], t)
                           /\ last'.nic[n] = Since(node'[n] # "nicDown", last.nic[n], t)
                           /\ last'.bad[n] = Since(node'[n] # "up" \/ n \in D, last.bad[n], t)
      BY <1>1, <2>1 DEF Lasts
    <2>3. UNCHANGED <<last.hybrid, last.client>>
      BY <1>1, <2>1 DEF Lasts
    <2>4. last' \in Lasts
      BY <1>1, <1>2, <2>1 DEF Lasts
    <2>5. Current'
      <3>1. ASSUME NEW n \in Nodes
            PROVE  /\ node'[n] # "notReady" => last'.ready[n] = 0
                   /\ node'[n] # "nicDown" => last'.nic[n] = 0
                   /\ node'[n] # "up" => last'.bad[n] = 0
        BY <2>2 DEF Since
      <3>2. QED
        BY <1>1, <1>5, <3>1 DEF Current
    <2>6. Ageing(k)
      BY <1>4, <1>10, <1>11, <2>2, <2>3 DEF Ageing
    <2>7. QED
      BY <1>3, <2>4, <2>5, <2>6
  <1>6. CASE focus = "config"
    <2>1. last' = [last EXCEPT !.hybrid = [h \in BOOLEAN |-> Since(h = hybrid', last.hybrid[h], t)]]
      BY <1>6 DEF Observe
    <2>2. \A h \in BOOLEAN : last'.hybrid[h] = Since(h = hybrid', last.hybrid[h], t)
      BY <1>1, <2>1 DEF Lasts
    <2>3. UNCHANGED <<last.ready, last.nic, last.bad, last.client>>
      BY <1>1, <2>1 DEF Lasts
    <2>4. last' \in Lasts
      BY <1>1, <1>2, <2>1 DEF Lasts
    <2>5. Current'
      BY <1>1, <1>2, <1>6, <2>2 DEF Current, Lasts
    <2>6. Ageing(k)
      BY <1>4, <1>10, <1>11, <2>2, <2>3 DEF Ageing
    <2>7. QED
      BY <1>3, <2>4, <2>5, <2>6
  <1>7. CASE focus = "addresses"
    <2>1. last' = [last EXCEPT !.client = [n \in Nodes |-> [a \in Addresses \cup {None} |->
                                            Since(a = address'[n], last.client[n][a], t)]]]
      BY <1>7 DEF Observe
    <2>2. \A n \in Nodes, a \in Addresses \cup {None} :
            last'.client[n][a] = Since(a = address'[n], last.client[n][a], t)
      BY <1>1, <2>1 DEF Lasts
    <2>3. UNCHANGED <<last.ready, last.nic, last.bad, last.hybrid>>
      BY <1>1, <2>1 DEF Lasts
    <2>4. last' \in Lasts
      <3>1. \A n \in Nodes, a \in Addresses \cup {None} : last.client[n][a] \in Ages
        BY <1>1 DEF Lasts
      <3>2. [n \in Nodes |-> [a \in Addresses \cup {None} |-> Since(a = address'[n], last.client[n][a], t)]]
              \in [Nodes -> [Addresses \cup {None} -> Ages]]
        BY <1>2, <3>1
      <3>3. QED
        BY <1>1, <2>1, <3>2 DEF Lasts
    <2>5. Current'
      <3>1. \A n \in Nodes : address'[n] \in Addresses \cup {None}
        BY <1>1
      <3>2. \A n \in Nodes : last'.client[n][address'[n]] = Since(TRUE, last.client[n][address'[n]], t)
        BY <2>2, <3>1
      <3>3. QED
        BY <1>1, <1>2, <1>7, <1>10, <3>1, <3>2 DEF Current
    <2>6. Ageing(k)
      <3>1. ASSUME NEW n \in Nodes, NEW a \in Addresses \cup {None}
            PROVE  last'.client[n][a] <= last.client[n][a] + k
        <4>1. last.client[n][a] \in Ages /\ (a = address'[n]) \in BOOLEAN
          BY <1>10
        <4>2. QED
          BY <1>11, <2>2, <4>1
      <3>2. QED
        BY <1>4, <1>10, <2>3, <3>1 DEF Ageing
    <2>7. QED
      BY <1>3, <2>4, <2>5, <2>6
  <1>8. QED
    BY <1>5, <1>6, <1>7, Numbers DEF Focuses

LEMMA Aged ==
  ASSUME Typed, Current, [Next]_vars
  PROVE  /\ last' \in Lasts /\ Current'
         /\ Ageing(0) \/ (Tick /\ Ageing(1))
  <1>1. CASE UNCHANGED <<last, srcVars>>
    <2>1. \A x \in Ages : x \in Nat
      BY Numbers
    <2>2. UNCHANGED focus
      BY SourceTypes
    <2>3. Ageing(0)
      <3>1. \A x \in Ages : x <= x + 0
        BY <2>1
      <3>2. last \in Lasts
        BY DEF Typed
      <3>3. /\ \A n \in Nodes : last.ready[n] \in Ages /\ last.nic[n] \in Ages /\ last.bad[n] \in Ages
            /\ \A h \in BOOLEAN : last.hybrid[h] \in Ages
            /\ \A n \in Nodes, a \in Addresses \cup {None} : last.client[n][a] \in Ages
        BY <3>2 DEF Lasts
      <3>4. QED
        BY <1>1, <3>1, <3>3 DEF Ageing
    <2>4. QED
      BY <1>1, <2>2, <2>3 DEF Typed, Current, srcVars
  <1>2. ASSUME NEW D, Observe(FALSE, D) PROVE last' \in Lasts /\ Current' /\ Ageing(0)
    BY <1>2, ObservedAges
  <1>3. ASSUME Observe(TRUE, {}) PROVE last' \in Lasts /\ Current' /\ Ageing(1)
    BY <1>3, ObservedAges
  <1>4. QED
    BY <1>1, <1>2, <1>3, Observing

LEMMA Kinds ==
  ASSUME [Next]_vars
  PROVE  \/ \E c \in Callers : Proceed(c)
         \/ \E c \in Callers, o \in Ops : Call(c, o)
         \/ Tick \/ Change \/ Restart \/ UNCHANGED vars
  BY DEF Next, Fatal, Crash
-----------------------------------------------------------------------------
(***************************************************************************)
(* Callers                                                                 *)
(***************************************************************************)
Calls == /\ call = [c \in Callers |-> call[c]] /\ \A c \in Callers : call[c] \in Ops \cup {NoCall}
         /\ read = [c \in Callers |-> read[c]]
CallerTypes ==
  /\ at \in [Callers -> Places] /\ listed \in [Callers -> SUBSET Nodes]
  /\ task \in [Callers -> [Nodes -> {"idle", "lock", "probe", "store", "done"}]]
  /\ got \in [Callers -> [Nodes -> Status]]
  /\ spent \in [Callers -> [Nodes \cup {None} -> 0..MaxProbe]]

Stays(d) ==
  /\ at'[d] = at[d] /\ read'[d] = read[d] /\ call'[d] = call[d] /\ task'[d] = task[d]
  /\ listed'[d] = listed[d] /\ got'[d] = got[d] /\ spent'[d] = spent[d]
\* A step of c leaves the other calls alone.
Only(c) == Calls' /\ CallerTypes' /\ \A d \in Callers \ {c} : Stays(d)

LEMMA TypeFacts ==
  ASSUME Typed
  PROVE  /\ Calls /\ CallerTypes
         /\ hw \in [Nodes -> [status : Status, age : Ages]]
         /\ lock \in [Nodes -> Callers \cup {None}]
         /\ \A c \in Callers, n \in Nodes : lock[n] = c <=> task[c][n] \in {"probe", "store"}
         /\ conf \in [value : {"none", "hybrid", "apart"}, inited : BOOLEAN, age : Ages]
         /\ addrs \in [list : {None} \cup [Nodes -> Addresses \cup {None}], age : Ages]
         /\ nCalls \in 0..MaxCalls[focus] /\ nEvents \in 0..MaxEvents[focus]
  BY DEF Typed, TypeOK, Calls, CallerTypes

LEMMA Returned ==
  ASSUME Typed, UNCHANGED focus, NEW c \in Callers, NEW kind, NEW nodes, Return(c, kind, nodes)
  PROVE  /\ Only(c) /\ at'[c] = "idle" /\ task'[c] = NoTasks
         /\ result' = [kind |-> kind, nodes |-> nodes]
  <1>1. Calls /\ CallerTypes
    BY TypeFacts
  <1>2. NoTasks \in [Nodes -> {"idle", "lock", "probe", "store", "done"}] /\ "idle" \in Places
    BY DEF NoTasks, Places
  <1>3. [x \in Nodes \cup {None} |-> 0] \in [Nodes \cup {None} -> 0..MaxProbe]
    BY Numbers
  <1>4. [n \in Nodes |-> "none"] \in [Nodes -> Status]
    BY DEF Status
  <1>5. CallerTypes'
    BY <1>1, <1>2, <1>3, <1>4 DEF CallerTypes, Return, Set
  <1>6. Calls'
    <2>1. Ops' = Ops
      BY DEF Ops
    <2>2. call' = [call EXCEPT ![c] = NoCall] /\ read' = [read EXCEPT ![c] = None]
      BY DEF Return, Set
    <2>3. QED
      BY <1>1, <2>1, <2>2 DEF Calls
  <1>7. QED
    BY <1>1, <1>5, <1>6 DEF Calls, CallerTypes, Return, Set, Stays, Only

Waiting == {"load", "value", "listAddrs", "add"}

LEMMA Went ==
  ASSUME Typed, UNCHANGED focus, NEW c \in Callers, NEW l \in Places, NEW v, Goto(c, l, v)
  PROVE  /\ Only(c) /\ at'[c] = l /\ read'[c] = v /\ UNCHANGED <<call, taskVars>>
         /\ IF l \in Waiting THEN UNCHANGED spent ELSE spent'[c] = [spent[c] EXCEPT ![None] = 0]
         /\ result' = Nothing
  <1>1. Calls /\ CallerTypes
    BY TypeFacts
  <1>2. IF l \in Waiting THEN UNCHANGED spent ELSE spent' = [spent EXCEPT ![c][None] = 0]
    BY DEF Goto, Waiting
  <1>3. 0 \in 0..MaxProbe
    BY Numbers
  <1>4. spent' \in [Callers -> [Nodes \cup {None} -> 0..MaxProbe]]
    <2>1. CASE UNCHANGED spent
      BY <1>1, <2>1 DEF CallerTypes
    <2>2. CASE spent' = [spent EXCEPT ![c][None] = 0]
      <3> DEFINE S == [Nodes \cup {None} -> 0..MaxProbe]
                 r == [spent[c] EXCEPT ![None] = 0]
      <3>1. spent \in [Callers -> S]
        BY <1>1 DEF CallerTypes
      <3>2. spent[c] \in S
        BY <3>1
      <3>3. r \in S
        BY <1>3, <3>2
      <3>4. spent' = [spent EXCEPT ![c] = r]
        BY <2>2
      <3> HIDE DEF S, r
      <3>5. spent' \in [Callers -> S]
        BY <3>1, <3>3, <3>4
      <3>6. QED
        BY <3>5 DEF S
    <2>3. QED
      BY <1>2, <2>1, <2>2
  <1>5. CallerTypes'
    BY <1>1, <1>4 DEF CallerTypes, Goto, Set, taskVars
  <1>6. Calls'
    <2>1. Ops' = Ops
      BY DEF Ops
    <2>2. UNCHANGED call /\ read' = [read EXCEPT ![c] = v]
      BY DEF Goto, Set
    <2>3. QED
      BY <1>1, <2>1, <2>2 DEF Calls
  <1>7. \A d \in Callers \ {c} : spent'[d] = spent[d]
    BY <1>1, <1>2 DEF CallerTypes
  <1>8. l \notin Waiting => spent'[c] = [spent[c] EXCEPT ![None] = 0]
    BY <1>1, <1>2 DEF CallerTypes
  <1>9. QED
    BY <1>1, <1>2, <1>5, <1>6, <1>7, <1>8
       DEF Calls, CallerTypes, Goto, Set, Stays, Only, taskVars

\* Steps of the call itself, which returns or goes on; its goroutines take the others.
Mains(c) == \/ Join(c) \/ CheckConf(c) \/ TakeConf(c) \/ LoadConf(c) \/ WriteConf(c)
            \/ Affinity(c) \/ LookupAddrs(c) \/ ListAddrs(c) \/ AddAddrs(c) \/ Find(c)

LEMMA MainMoves ==
  ASSUME Typed, [Next]_vars, NEW c \in Callers, Mains(c)
  PROVE  /\ Only(c) /\ UNCHANGED <<hw, lock>> /\ nCalls' = nCalls
         /\ nEvents' = nEvents \/ (nEvents < MaxEvents[focus] /\ nEvents' = nEvents + 1)
         /\ \/ at'[c] = "idle" /\ task'[c] = NoTasks
            \/ UNCHANGED <<call, taskVars>> /\ at'[c] # "idle"
         /\ at[c] \in {"join", "conf", "take", "load", "value", "inited", "stamp", "affinity"} \cup AddrPlaces
         /\ at[c] = "join" => \A n \in Nodes : task[c][n] = "done"
         /\ at[c] # "join" => at'[c] # "join"
  <1>1. Step /\ UNCHANGED focus
    BY DEF Mains, Step, Join, CheckConf, TakeConf, LoadConf, WriteConf, ConfStep, Affinity,
           LookupAddrs, ListAddrs, Ask, AddAddrs, AddrStep, Find
  <1>2. NoEvent \/ Event
    BY DEF Mains, Join, CheckConf, TakeConf, LoadConf, WriteConf, ConfStep, Affinity,
           LookupAddrs, ListAddrs, Ask, AddAddrs, AddrStep, Find
  <1>3. UNCHANGED <<hw, lock>>
    BY DEF Mains, Join, CheckConf, TakeConf, LoadConf, WriteConf, ConfStep, Affinity,
           LookupAddrs, ListAddrs, Ask, AddAddrs, AddrStep, Find, cacheVars
  <1>4. /\ at[c] \in {"join", "conf", "take", "load", "value", "inited", "stamp", "affinity"} \cup AddrPlaces
        /\ at[c] = "join" => \A n \in Nodes : task[c][n] = "done"
    BY DEF Mains, Join, CheckConf, TakeConf, LoadConf, WriteConf, ConfStep, Affinity,
           LookupAddrs, ListAddrs, Ask, AddAddrs, Find, AddrPlaces
  <1>5. \/ \E k, s : Return(c, k, s)
        \/ \E l \in Places \ {"idle", "join"} : \E v : Goto(c, l, v)
    <2>1. CASE Join(c)
      BY <2>1 DEF Join, Places
    <2>2. CASE CheckConf(c)
      BY <2>2 DEF CheckConf, Places
    <2>3. CASE TakeConf(c)
      BY <2>3 DEF TakeConf, Places
    <2>4. CASE LoadConf(c) \/ ListAddrs(c)
      BY <2>4 DEF LoadConf, ListAddrs, Ask, Places
    <2>5. CASE WriteConf(c)
      BY <2>5 DEF WriteConf, Places
    <2>6. CASE Affinity(c)
      BY <2>6 DEF Affinity
    <2>7. CASE LookupAddrs(c)
      BY <2>7 DEF LookupAddrs, Places
    <2>8. CASE AddAddrs(c)
      BY <2>8 DEF AddAddrs, Places
    <2>9. CASE Find(c)
      BY <2>9 DEF Find
    <2>10. QED
      BY <2>1, <2>2, <2>3, <2>4, <2>5, <2>6, <2>7, <2>8, <2>9 DEF Mains
  <1>6. QED
    BY <1>1, <1>2, <1>3, <1>4, <1>5, Returned, Went DEF Step, NoEvent, Event

\* A step of the goroutine for n.
Goes(c, n, l) ==
  /\ Only(c) /\ task[c][n] # l /\ task'[c] = [task[c] EXCEPT ![n] = l]
  /\ UNCHANGED <<mainVars, listed, conf, addrs, nCalls>>
  /\ nEvents' = nEvents \/ (nEvents < MaxEvents[focus] /\ nEvents' = nEvents + 1)
  /\ \A m \in Nodes \ {n} : got'[c][m] = got[c][m] /\ spent'[c][m] = spent[c][m]
  /\ spent'[c][None] = spent[c][None]

LEMMA Went2 ==
  ASSUME Typed, UNCHANGED focus, NEW c \in Callers, NEW n \in Nodes,
         NEW l \in {"lock", "probe", "store", "done"}, TaskStep(c, n, l), task[c][n] # l, NoEvent \/ Event,
         NEW s \in Status, got' = [got EXCEPT ![c][n] = s] \/ (UNCHANGED got /\ s = got[c][n]),
         UNCHANGED spent \/ spent' = [spent EXCEPT ![c][n] = 0]
  PROVE  Goes(c, n, l) /\ got'[c][n] = s /\ (UNCHANGED spent \/ spent'[c][n] = 0)
  <1>1. Calls /\ CallerTypes /\ None \notin Nodes /\ 0 \in 0..MaxProbe
    BY TypeFacts, Numbers
  <1>2. task' = [task EXCEPT ![c][n] = l] /\ UNCHANGED <<mainVars, listed, conf, addrs, nCalls>>
    BY DEF TaskStep, Step
  <1>3. task' \in [Callers -> [Nodes -> {"idle", "lock", "probe", "store", "done"}]]
    <2> DEFINE S == [Nodes -> {"idle", "lock", "probe", "store", "done"}]
               r == [task[c] EXCEPT ![n] = l]
    <2>1. task \in [Callers -> S] /\ r \in S /\ task' = [task EXCEPT ![c] = r]
      BY <1>1, <1>2 DEF CallerTypes
    <2> HIDE DEF S, r
    <2>2. task' \in [Callers -> S]
      BY <2>1
    <2>3. QED
      BY <2>2 DEF S
  <1>4. got' \in [Callers -> [Nodes -> Status]]
    <2> DEFINE S == [Nodes -> Status]
               r == [got[c] EXCEPT ![n] = s]
    <2>1. got \in [Callers -> S] /\ r \in S /\ (UNCHANGED got \/ got' = [got EXCEPT ![c] = r])
      BY <1>1 DEF CallerTypes
    <2> HIDE DEF S, r
    <2>2. got' \in [Callers -> S]
      BY <2>1
    <2>3. QED
      BY <2>2 DEF S
  <1>5. spent' \in [Callers -> [Nodes \cup {None} -> 0..MaxProbe]]
    <2> DEFINE S == [Nodes \cup {None} -> 0..MaxProbe]
               r == [spent[c] EXCEPT ![n] = 0]
    <2>1. spent \in [Callers -> S]
      BY <1>1 DEF CallerTypes
    <2>2. spent[c] \in S
      BY <2>1
    <2>3. r \in S /\ (UNCHANGED spent \/ spent' = [spent EXCEPT ![c] = r])
      BY <1>1, <2>2
    <2> HIDE DEF S, r
    <2>4. spent' \in [Callers -> S]
      BY <2>1, <2>3
    <2>5. QED
      BY <2>4 DEF S
  <1>6. CallerTypes'
    BY <1>1, <1>2, <1>3, <1>4, <1>5 DEF CallerTypes, mainVars
  <1>7. Calls'
    <2>1. Ops' = Ops
      BY DEF Ops
    <2>2. QED
      BY <1>1, <1>2, <2>1 DEF Calls, mainVars
  <1>8. \A d \in Callers \ {c} : Stays(d)
    BY <1>1, <1>2 DEF CallerTypes, Stays, mainVars
  <1>9. \A m \in Nodes \ {n} : got'[c][m] = got[c][m] /\ spent'[c][m] = spent[c][m]
    BY <1>1 DEF CallerTypes
  <1>10. spent'[c][None] = spent[c][None] /\ (UNCHANGED spent \/ spent'[c][n] = 0)
    BY <1>1 DEF CallerTypes
  <1>11. task'[c] = [task[c] EXCEPT ![n] = l] /\ got'[c][n] = s
    BY <1>1, <1>2 DEF CallerTypes
  <1>12. QED
    BY <1>2, <1>6, <1>7, <1>8, <1>9, <1>10, <1>11 DEF Goes, Only, NoEvent, Event

LEMMA LookupMoves ==
  ASSUME Typed, UNCHANGED focus, NEW c \in Callers, NEW n \in Nodes, Lookup(c, n)
  PROVE  /\ task[c][n] = "lock" /\ lock[n] = None
         /\ \/ /\ Goes(c, n, "done") /\ UNCHANGED <<hw, lock, spent>>
               /\ hw[n].status # "none" /\ hw[n].age <= HwTTL /\ got'[c][n] = hw[n].status
            \/ /\ Goes(c, n, "probe") /\ UNCHANGED <<spent, got>>
               /\ ~(hw[n].status # "none" /\ hw[n].age <= HwTTL)
               /\ hw' = [hw EXCEPT ![n] = NoStatus] /\ lock' = [lock EXCEPT ![n] = c]
  <1>1. CallerTypes /\ hw \in [Nodes -> [status : Status, age : Ages]]
    BY TypeFacts
  <1>2. task[c][n] = "lock" /\ lock[n] = None /\ NoEvent /\ UNCHANGED spent
    BY DEF Lookup, MayLock
  <1>3. CASE hw[n].status # "none" /\ HwFresh(hw[n].age)
    <2>1. PICK s \in Status : s = hw[n].status
      BY <1>1
    <2>2. got' = [got EXCEPT ![c][n] = s] /\ TaskStep(c, n, "done") /\ UNCHANGED <<hw, lock>>
      BY <1>3, <2>1 DEF Lookup
    <2>3. Goes(c, n, "done") /\ got'[c][n] = s
      BY <1>2, <2>2, Went2
    <2>4. QED
      BY <1>2, <1>3, <2>1, <2>2, <2>3 DEF HwFresh
  <1>4. CASE ~(hw[n].status # "none" /\ HwFresh(hw[n].age))
    <2>1. PICK s \in Status : s = got[c][n]
      BY <1>1 DEF CallerTypes
    <2>2. /\ UNCHANGED got /\ TaskStep(c, n, "probe")
          /\ hw' = [hw EXCEPT ![n] = NoStatus] /\ lock' = [lock EXCEPT ![n] = c]
      BY <1>4 DEF Lookup, Set
    <2>3. Goes(c, n, "probe")
      BY <1>2, <2>1, <2>2, Went2
    <2>4. QED
      BY <1>2, <1>4, <2>2, <2>3 DEF HwFresh
  <1>5. QED
    BY <1>3, <1>4

LEMMA ProbeMoves ==
  ASSUME Typed, UNCHANGED focus, NEW c \in Callers, NEW n \in Nodes, Probe(c, n)
  PROVE  /\ task[c][n] = "probe" /\ Goes(c, n, "store") /\ UNCHANGED <<hw, lock, spent, srcVars>>
         /\ \/ got'[c][n] \in Probed(c, n)
            \/ got'[c][n] = "offline" /\ Observe(FALSE, {n})
  <1>1. node[n] \in {"up", "nicDown", "notReady"}
    BY DEF Typed, TypeOK
  <1>2. Probed(c, n) \subseteq Status /\ "offline" \in Status
    BY <1>1 DEF Probed, Status
  <1>3. /\ task[c][n] = "probe" /\ TaskStep(c, n, "store") /\ UNCHANGED <<hw, lock, spent>>
        /\ NoEvent \/ Event
    BY DEF Probe
  <1>4. UNCHANGED srcVars
    BY <1>3 DEF TaskStep, Step
  <1>5. ASSUME NEW s \in Probed(c, n), got' = [got EXCEPT ![c][n] = s]
        PROVE  Goes(c, n, "store") /\ got'[c][n] = s
    BY <1>2, <1>3, <1>5, Went2
  <1>6. ASSUME got' = [got EXCEPT ![c][n] = "offline"]
        PROVE  Goes(c, n, "store") /\ got'[c][n] = "offline"
    BY <1>2, <1>3, <1>6, Went2
  <1>7. QED
    BY <1>3, <1>4, <1>5, <1>6 DEF Probe

LEMMA StoreMoves ==
  ASSUME Typed, UNCHANGED focus, NEW c \in Callers, NEW n \in Nodes, Store(c, n)
  PROVE  /\ task[c][n] = "store" /\ Goes(c, n, "done") /\ UNCHANGED got /\ spent'[c][n] = 0
         /\ hw' = [hw EXCEPT ![n] = [status |-> got[c][n], age |-> 0]]
         /\ lock' = [lock EXCEPT ![n] = None]
  <1>1. PICK s \in Status : s = got[c][n]
    BY TypeFacts DEF CallerTypes
  <1>2. CallerTypes
    BY TypeFacts
  <1>3. /\ task[c][n] = "store" /\ TaskStep(c, n, "done") /\ UNCHANGED got /\ NoEvent
        /\ spent' = [spent EXCEPT ![c][n] = 0]
    BY DEF Store
  <1>4. Goes(c, n, "done") /\ spent'[c][n] = 0
    <2>1. Goes(c, n, "done")
      BY <1>1, <1>3, Went2
    <2>2. spent'[c][n] = 0
      BY <1>2, <1>3 DEF CallerTypes
    <2>3. QED
      BY <2>1, <2>2
  <1>5. QED
    BY <1>3, <1>4 DEF Store, Set, Unlocked

LEMMA ListMoves ==
  ASSUME Typed, UNCHANGED focus, NEW c \in Callers, List(c)
  PROVE  /\ at[c] = "list" /\ Only(c) /\ UNCHANGED <<cacheVars, srcVars, nCalls>>
         /\ nEvents' = nEvents \/ (nEvents < MaxEvents[focus] /\ nEvents' = nEvents + 1)
         /\ \/ at'[c] = "idle" /\ task'[c] = NoTasks
            \/ /\ at'[c] = "join" /\ UNCHANGED <<call, read, spent>>
               /\ listed'[c] = {n \in Nodes : node[n] # "notReady"}
               /\ task'[c] = [n \in Nodes |-> IF focus = "nodes" THEN "lock" ELSE "done"]
  <1>1. Calls /\ CallerTypes
    BY TypeFacts
  <1>2. at[c] = "list" /\ Step /\ UNCHANGED cacheVars
    BY DEF List
  <1>3. CASE Event /\ Return(c, "error", {})
    BY <1>2, <1>3, Returned DEF Step, Event
  <1>4. CASE /\ NoEvent /\ at' = Set(at, c, "join")
             /\ listed' = Set(listed, c, {n \in Nodes : node[n] # "notReady"})
             /\ IF HwCheck
                THEN task' = Set(task, c, [n \in Nodes |-> "lock"]) /\ UNCHANGED got
                ELSE /\ task' = Set(task, c, [n \in Nodes |-> "done"])
                     /\ got' = Set(got, c, [n \in Nodes |-> ByCondition(n)])
             /\ result' = Nothing /\ UNCHANGED <<call, read, spent>>
    <2>1. /\ [n \in Nodes |-> "lock"] \in [Nodes -> {"idle", "lock", "probe", "store", "done"}]
          /\ [n \in Nodes |-> "done"] \in [Nodes -> {"idle", "lock", "probe", "store", "done"}]
          /\ [n \in Nodes |-> ByCondition(n)] \in [Nodes -> Status]
          /\ "join" \in Places
      BY DEF ByCondition, Status, Places
    <2>2. \/ task' = [task EXCEPT ![c] = [n \in Nodes |-> "lock"]]
          \/ task' = [task EXCEPT ![c] = [n \in Nodes |-> "done"]]
      BY <1>4 DEF Set
    <2>3. UNCHANGED got \/ got' = [got EXCEPT ![c] = [n \in Nodes |-> ByCondition(n)]]
      BY <1>4 DEF Set
    <2>4. CallerTypes'
      <3>1. task' \in [Callers -> [Nodes -> {"idle", "lock", "probe", "store", "done"}]]
        <4> DEFINE S == [Nodes -> {"idle", "lock", "probe", "store", "done"}]
                   a == [n \in Nodes |-> "lock"]
                   b == [n \in Nodes |-> "done"]
        <4>1. task \in [Callers -> S] /\ a \in S /\ b \in S
          BY <1>1, <2>1 DEF CallerTypes
        <4>2. task' = [task EXCEPT ![c] = a] \/ task' = [task EXCEPT ![c] = b]
          BY <2>2
        <4> HIDE DEF S, a, b
        <4>3. task' \in [Callers -> S]
          BY <4>1, <4>2
        <4>4. QED
          BY <4>3 DEF S
      <3>2. got' \in [Callers -> [Nodes -> Status]]
        BY <1>1, <2>1, <2>3 DEF CallerTypes
      <3>3. /\ at' = [at EXCEPT ![c] = "join"]
            /\ listed' = [listed EXCEPT ![c] = {n \in Nodes : node[n] # "notReady"}]
        BY <1>4 DEF Set
      <3>4. {n \in Nodes : node[n] # "notReady"} \in SUBSET Nodes
        OBVIOUS
      <3>5. at' \in [Callers -> Places] /\ listed' \in [Callers -> SUBSET Nodes]
        BY <1>1, <2>1, <3>3, <3>4 DEF CallerTypes
      <3>6. spent' \in [Callers -> [Nodes \cup {None} -> 0..MaxProbe]]
        BY <1>1, <1>4 DEF CallerTypes
      <3>7. QED
        BY <3>1, <3>2, <3>5, <3>6 DEF CallerTypes
    <2>5. Calls'
      <3>1. Ops' = Ops
        BY DEF Ops
      <3>2. QED
        BY <1>1, <1>4, <3>1 DEF Calls
    <2>6. Only(c)
      BY <1>1, <1>4, <2>2, <2>3, <2>4, <2>5 DEF CallerTypes, Only, Stays, Set
    <2>7. task'[c] = [n \in Nodes |-> IF focus = "nodes" THEN "lock" ELSE "done"]
      BY <1>1, <1>4 DEF CallerTypes, HwCheck, Set
    <2>8. QED
      BY <1>1, <1>2, <1>4, <2>6, <2>7 DEF CallerTypes, Step, NoEvent, Set
  <1>5. QED
    BY <1>3, <1>4 DEF List

LEMMA CallMoves ==
  ASSUME Typed, UNCHANGED focus, NEW c \in Callers, NEW o \in Ops, Call(c, o)
  PROVE  /\ Only(c) /\ UNCHANGED <<cacheVars, srcVars, taskVars, spent, read, nEvents>>
         /\ nCalls < MaxCalls[focus] /\ nCalls' = nCalls + 1
         /\ at[c] = "idle" /\ call'[c] = o /\ at'[c] = First(o.op)
         /\ First(o.op) \in {"list", "conf", "addrs"}
         /\ First(o.op) = "addrs" <=> focus = "addresses"
         /\ First(o.op) = "conf" => focus = "config"
  <1>1. Calls /\ CallerTypes /\ focus \in Focuses
    BY TypeFacts, Numbers
  <1>2. /\ First(o.op) \in {"list", "conf", "addrs"}
        /\ First(o.op) = "addrs" <=> focus = "addresses"
        /\ First(o.op) = "conf" => focus = "config"
    BY <1>1 DEF Ops, First, Focuses
  <1>3. /\ call' = [call EXCEPT ![c] = o] /\ at' = [at EXCEPT ![c] = First(o.op)]
        /\ UNCHANGED <<cacheVars, srcVars, taskVars, spent, read, nEvents>>
        /\ nCalls < MaxCalls[focus] /\ nCalls' = nCalls + 1 /\ at[c] = "idle"
    BY DEF Call, Set
  <1>4. CallerTypes'
    BY <1>1, <1>2, <1>3 DEF CallerTypes, taskVars, Places
  <1>5. Calls'
    <2>1. Ops' = Ops
      BY DEF Ops
    <2>2. QED
      BY <1>1, <1>3, <2>1 DEF Calls
  <1>6. QED
    BY <1>1, <1>2, <1>3, <1>4, <1>5 DEF Calls, CallerTypes, Only, Stays, taskVars

LEMMA TickMoves ==
  ASSUME Typed, UNCHANGED focus, Tick
  PROVE  /\ Calls' /\ CallerTypes'
         /\ UNCHANGED <<at, read, call, task, listed, got, lock, nCalls, nEvents>>
         /\ \A c \in Callers : \A x \in Nodes \cup {None} :
              spent'[c][x] = IF x \in Lasting(c) THEN spent[c][x] + 1 ELSE spent[c][x]
         /\ \A c \in Callers : \A x \in Lasting(c) : spent[c][x] < MaxProbe
         /\ hw' = [n \in Nodes |-> IF hw[n].status = "none" THEN hw[n]
                                   ELSE [hw[n] EXCEPT !.age = Older(hw[n].age)]]
         /\ conf' = [conf EXCEPT !.age = Older(conf.age)]
         /\ addrs' = IF addrs.list = None THEN addrs ELSE [addrs EXCEPT !.age = Older(addrs.age)]
  <1>1. Calls /\ CallerTypes /\ MaxProbe \in Nat
    BY TypeFacts, Numbers
  <1>2. /\ UNCHANGED <<at, read, call, task, listed, got, lock, nCalls, nEvents>>
        /\ \A c \in Callers : \A x \in Lasting(c) : spent[c][x] < MaxProbe
    BY DEF Tick, mainVars, taskVars, boundVars
  <1>3. \A c \in Callers : \A x \in Nodes \cup {None} : spent[c][x] \in 0..MaxProbe
    BY <1>1 DEF CallerTypes
  <1>4. \A c \in Callers : \A x \in Nodes \cup {None} :
          (IF x \in Lasting(c) THEN spent[c][x] + 1 ELSE spent[c][x]) \in 0..MaxProbe
    BY <1>1, <1>2, <1>3
  <1>5. spent' = [c \in Callers |-> [x \in Nodes \cup {None} |->
                    IF x \in Lasting(c) THEN spent[c][x] + 1 ELSE spent[c][x]]]
    BY DEF Tick
  <1>6. spent' \in [Callers -> [Nodes \cup {None} -> 0..MaxProbe]]
    BY <1>4, <1>5
  <1>7. CallerTypes'
    BY <1>1, <1>2, <1>6 DEF CallerTypes
  <1>8. Calls'
    <2>1. Ops' = Ops
      BY DEF Ops
    <2>2. QED
      BY <1>1, <1>2, <2>1 DEF Calls
  <1>9. QED
    BY <1>2, <1>5, <1>7, <1>8 DEF Tick

LEMMA ChangeMoves ==
  ASSUME Typed, UNCHANGED focus, Change
  PROVE  /\ Calls' /\ CallerTypes' /\ UNCHANGED <<cacheVars, taskVars, mainVars, spent, nCalls>>
         /\ nEvents < MaxEvents[focus] /\ nEvents' = nEvents + 1
  <1>1. Calls /\ CallerTypes
    BY TypeFacts
  <1>2. /\ UNCHANGED <<cacheVars, taskVars, mainVars, spent, nCalls>>
        /\ nEvents < MaxEvents[focus] /\ nEvents' = nEvents + 1
    BY DEF Change, Event
  <1>3. Ops' = Ops
    BY DEF Ops
  <1>4. QED
    BY <1>1, <1>2, <1>3 DEF Calls, CallerTypes, taskVars, mainVars

LEMMA RestartMoves ==
  ASSUME Typed, UNCHANGED focus, Restart
  PROVE  /\ Calls' /\ CallerTypes'
         /\ \A c \in Callers : at'[c] = "idle" /\ task'[c] = NoTasks
         /\ hw' = [n \in Nodes |-> NoStatus] /\ lock' = [n \in Nodes |-> None]
         /\ conf' = NoConf /\ addrs' = NoAddrs /\ UNCHANGED nCalls
         /\ nEvents < MaxEvents[focus] /\ nEvents' = nEvents + 1
  <1>1. /\ call' = [c \in Callers |-> NoCall] /\ at' = [c \in Callers |-> "idle"]
        /\ task' = [c \in Callers |-> NoTasks] /\ listed' = [c \in Callers |-> {}]
        /\ got' = [c \in Callers |-> [n \in Nodes |-> "none"]] /\ read' = [c \in Callers |-> None]
        /\ spent' = [c \in Callers |-> [x \in Nodes \cup {None} |-> 0]]
    BY DEF Restart
  <1>2. Calls'
    BY <1>1 DEF Calls
  <1>3. CallerTypes'
    <2>1. 0 \in 0..MaxProbe
      BY Numbers
    <2>2. NoTasks \in [Nodes -> {"idle", "lock", "probe", "store", "done"}]
      BY DEF NoTasks
    <2>3. spent' \in [Callers -> [Nodes \cup {None} -> 0..MaxProbe]]
      BY <1>1, <2>1
    <2>4. QED
      BY <1>1, <2>2, <2>3 DEF CallerTypes, Places, Status
  <1>4. QED
    BY <1>1, <1>2, <1>3 DEF Restart, Event

\* Every step of a call keeps the types of the callers.
LEMMA CallersStep ==
  ASSUME Typed, [Next]_vars
  PROVE  /\ Calls' /\ CallerTypes'
         /\ \A c \in Callers : Proceed(c) => Only(c)
         /\ nCalls' \in 0..MaxCalls[focus] /\ nEvents' \in 0..MaxEvents[focus]
  <1>1. UNCHANGED focus
    BY SourceTypes
  <1>2. nCalls \in 0..MaxCalls[focus] /\ nEvents \in 0..MaxEvents[focus]
    BY TypeFacts
  <1>3. MaxCalls[focus] \in Nat /\ MaxEvents[focus] \in Nat
    BY Numbers, ConstantsAssumption
  <1> DEFINE Counted == /\ nCalls' = nCalls \/ (nCalls < MaxCalls[focus] /\ nCalls' = nCalls + 1)
                        /\ nEvents' = nEvents \/ (nEvents < MaxEvents[focus] /\ nEvents' = nEvents + 1)
  <1>4. ASSUME NEW c \in Callers, Proceed(c) PROVE Only(c) /\ Counted
    <2>1. CASE Mains(c)
      BY <2>1, MainMoves
    <2>2. CASE List(c)
      BY <1>1, <2>2, ListMoves
    <2>3. ASSUME NEW n \in Nodes, Lookup(c, n) PROVE Only(c) /\ Counted
      BY <1>1, <2>3, LookupMoves DEF Goes
    <2>4. ASSUME NEW n \in Nodes, Probe(c, n) PROVE Only(c) /\ Counted
      BY <1>1, <2>4, ProbeMoves DEF Goes
    <2>5. ASSUME NEW n \in Nodes, Store(c, n) PROVE Only(c) /\ Counted
      BY <1>1, <2>5, StoreMoves DEF Goes
    <2>6. QED
      BY <1>4, <2>1, <2>2, <2>3, <2>4, <2>5 DEF Proceed, Mains
  <1>5. ASSUME NEW c \in Callers, NEW o \in Ops, Call(c, o) PROVE Only(c) /\ Counted
    BY <1>1, <1>5, CallMoves
  <1>6. CASE Tick
    BY <1>1, <1>2, <1>4, <1>6, TickMoves
  <1>7. CASE Change
    BY <1>1, <1>2, <1>3, <1>4, <1>7, ChangeMoves
  <1>8. CASE Restart
    BY <1>1, <1>2, <1>3, <1>4, <1>8, RestartMoves
  <1>9. CASE UNCHANGED vars
    <2>1. UNCHANGED <<call, at, read, task, listed, got, spent, nCalls, nEvents>> /\ Ops' = Ops
      BY <1>1, <1>9 DEF vars, taskVars, mainVars, boundVars, Ops
    <2>2. Calls /\ CallerTypes
      BY TypeFacts
    <2>3. Calls'
      BY <2>1, <2>2 DEF Calls
    <2>4. CallerTypes'
      BY <2>1, <2>2 DEF CallerTypes
    <2>5. QED
      BY <1>2, <1>4, <2>1, <2>3, <2>4
  <1>10. Counted => nCalls' \in 0..MaxCalls[focus] /\ nEvents' \in 0..MaxEvents[focus]
    BY <1>2, <1>3
  <1>11. QED
    BY <1>4, <1>5, <1>6, <1>7, <1>8, <1>9, <1>10, Kinds DEF Only
-----------------------------------------------------------------------------
(***************************************************************************)
(* Types                                                                   *)
(***************************************************************************)
HwType == hw \in [Nodes -> [status : Status, age : Ages]]
Locks == \A c \in Callers, n \in Nodes : lock[n] = c <=> task[c][n] \in {"probe", "store"}
LockType == lock \in [Nodes -> Callers \cup {None}] /\ Locks

LEMMA Younger ==
  ASSUME Typed, NEW a \in Ages
  PROVE  /\ Older(a) \in Ages /\ Older(a) <= a + 1 /\ a <= Older(a)
         /\ \A b \in Ages, x \in Nat : b <= a + x => \A d \in Ages : d <= b + 1 => d <= Older(a) + x
  BY Numbers DEF Older, Ages

\* A step of a goroutine changes the lock and the status of its node at most.
LEMMA GoroutineStep ==
  ASSUME Typed, UNCHANGED focus, NEW c \in Callers, NEW n \in Nodes,
         Lookup(c, n) \/ Probe(c, n) \/ Store(c, n)
  PROVE  HwType' /\ LockType'
  <1>1. CallerTypes /\ HwType /\ LockType /\ None \notin Callers /\ 0 \in Ages
    BY TypeFacts, Numbers DEF HwType, LockType, Locks, Ages
  <1>2. NoStatus \in [status : Status, age : Ages]
    BY <1>1 DEF NoStatus, Status
  <1>3. [status |-> got[c][n], age |-> 0] \in [status : Status, age : Ages]
    BY <1>1 DEF CallerTypes
  <1>4. Ages' = Ages
    BY DEF Ages
  <1>5. HwType'
    <2>1. \/ UNCHANGED hw \/ hw' = [hw EXCEPT ![n] = NoStatus]
          \/ hw' = [hw EXCEPT ![n] = [status |-> got[c][n], age |-> 0]]
      BY LookupMoves, ProbeMoves, StoreMoves
    <2> DEFINE S == [status : Status, age : Ages]
               s == [status |-> got[c][n], age |-> 0]
    <2>2. hw \in [Nodes -> S] /\ NoStatus \in S /\ s \in S
      BY <1>1, <1>2, <1>3 DEF HwType
    <2>3. UNCHANGED hw \/ hw' = [hw EXCEPT ![n] = NoStatus] \/ hw' = [hw EXCEPT ![n] = s]
      BY <2>1
    <2> HIDE DEF S, s
    <2>4. hw' \in [Nodes -> S]
      BY <2>2, <2>3
    <2>5. QED
      BY <1>4, <2>4 DEF HwType, S
  <1>6. \E l \in {"probe", "store", "done"} :
          /\ Goes(c, n, l)
          /\ \/ l = "done" /\ task[c][n] = "lock" /\ UNCHANGED lock
             \/ l = "probe" /\ task[c][n] = "lock" /\ lock[n] = None /\ lock' = [lock EXCEPT ![n] = c]
             \/ l = "store" /\ task[c][n] = "probe" /\ UNCHANGED lock
             \/ l = "done" /\ task[c][n] = "store" /\ lock' = [lock EXCEPT ![n] = None]
    <2>1. CASE Lookup(c, n)
      BY <2>1, LookupMoves
    <2>2. CASE Probe(c, n)
      BY <2>2, ProbeMoves
    <2>3. CASE Store(c, n)
      BY <2>3, StoreMoves
    <2>4. QED
      BY <2>1, <2>2, <2>3
  <1>7. lock' \in [Nodes -> Callers \cup {None}]
    BY <1>1, <1>6 DEF LockType
  <1>8. PICK l \in {"probe", "store", "done"} :
          /\ Goes(c, n, l)
          /\ \/ l = "done" /\ task[c][n] = "lock" /\ UNCHANGED lock
             \/ l = "probe" /\ task[c][n] = "lock" /\ lock[n] = None /\ lock' = [lock EXCEPT ![n] = c]
             \/ l = "store" /\ task[c][n] = "probe" /\ UNCHANGED lock
             \/ l = "done" /\ task[c][n] = "store" /\ lock' = [lock EXCEPT ![n] = None]
    BY <1>6
  <1>9. ASSUME NEW d \in Callers, NEW m \in Nodes
        PROVE  lock'[m] = d <=> task'[d][m] \in {"probe", "store"}
    <2>1. lock[m] = d <=> task[d][m] \in {"probe", "store"}
      BY <1>1 DEF LockType, Locks
    <2>2. CASE d # c
      <3>1. task'[d] = task[d]
        BY <1>8, <2>2 DEF Goes, Only, Stays
      <3>2. lock[m] = d <=> lock'[m] = d
        <4>1. lock[n] = c <=> task[c][n] \in {"probe", "store"}
          BY <1>1 DEF LockType, Locks
        <4>2. lock \in [Nodes -> Callers \cup {None}]
          BY <1>1 DEF LockType
        <4>3. QED
          BY <1>1, <1>8, <2>2, <4>1, <4>2
      <3>3. QED
        BY <2>1, <3>1, <3>2
    <2>3. CASE d = c /\ m # n
      <3>1. task'[c][m] = task[c][m]
        BY <1>1, <1>8, <2>3 DEF Goes, CallerTypes
      <3>2. lock'[m] = lock[m]
        BY <1>1, <1>8, <2>3 DEF LockType
      <3>3. QED
        BY <2>1, <2>3, <3>1, <3>2
    <2>4. CASE d = c /\ m = n
      <3>1. task'[c][n] = l
        BY <1>1, <1>8 DEF Goes, CallerTypes
      <3>2. lock \in [Nodes -> Callers \cup {None}]
        BY <1>1 DEF LockType
      <3>3. QED
        BY <1>1, <1>8, <2>1, <2>4, <3>1, <3>2
    <2>5. QED
      BY <2>2, <2>3, <2>4
  <1>10. QED
    BY <1>5, <1>7, <1>9 DEF LockType, Locks

LEMMA HardwareStep ==
  ASSUME Typed, Placed, [Next]_vars
  PROVE  HwType' /\ LockType'
  <1>1. UNCHANGED focus /\ CallerTypes /\ HwType /\ LockType /\ None \notin Callers /\ 0 \in Ages
    BY SourceTypes, TypeFacts, Numbers DEF HwType, LockType, Locks, Ages
  <1>2. Ages' = Ages
    BY <1>1 DEF Ages
  <1>3. ASSUME UNCHANGED <<hw, lock>>,
               \A d \in Callers, n \in Nodes :
                 task'[d][n] \in {"probe", "store"} <=> task[d][n] \in {"probe", "store"}
        PROVE  HwType' /\ LockType'
    BY <1>1, <1>2, <1>3 DEF HwType, LockType, Locks
  <1>4. ASSUME NEW c \in Callers, Mains(c) \/ List(c) PROVE HwType' /\ LockType'
    <2>1. UNCHANGED <<hw, lock>> /\ Only(c)
      BY <1>1, <1>4, MainMoves, ListMoves DEF cacheVars
    <2>2. \A n \in Nodes : task[c][n] \notin {"probe", "store"}
      BY <1>1, <1>4, MainMoves, ListMoves DEF Placed
    <2>3. UNCHANGED task \/ \A n \in Nodes : task'[c][n] \notin {"probe", "store"}
      BY <1>1, <1>4, MainMoves, ListMoves DEF NoTasks, taskVars
    <2>4. \A d \in Callers \ {c} : task'[d] = task[d]
      BY <2>1 DEF Only, Stays
    <2>5. QED
      BY <1>3, <2>1, <2>2, <2>3, <2>4
  <1>5. ASSUME NEW c \in Callers, NEW o \in Ops, Call(c, o) PROVE HwType' /\ LockType'
    BY <1>1, <1>3, <1>5, CallMoves DEF cacheVars, taskVars
  <1>6. CASE Tick
    <2>1. /\ UNCHANGED <<task, lock>>
          /\ hw' = [n \in Nodes |-> IF hw[n].status = "none" THEN hw[n]
                                    ELSE [hw[n] EXCEPT !.age = Older(hw[n].age)]]
      BY <1>1, <1>6, TickMoves
    <2>2. ASSUME NEW n \in Nodes
          PROVE  (IF hw[n].status = "none" THEN hw[n] ELSE [hw[n] EXCEPT !.age = Older(hw[n].age)])
                   \in [status : Status, age : Ages]
      BY <1>1, Younger DEF HwType
    <2>3. HwType'
      BY <1>2, <2>1, <2>2 DEF HwType
    <2>4. QED
      BY <1>1, <2>1, <2>3 DEF LockType, Locks
  <1>7. CASE Change
    BY <1>1, <1>3, <1>7, ChangeMoves DEF cacheVars, taskVars
  <1>8. CASE Restart
    <2>1. NoStatus \in [status : Status, age : Ages]
      BY <1>1 DEF NoStatus, Status
    <2>2. HwType'
      BY <1>1, <1>2, <1>8, <2>1, RestartMoves DEF HwType
    <2>3. LockType'
      <3>1. lock' = [n \in Nodes |-> None] /\ \A c \in Callers : task'[c] = NoTasks
        BY <1>1, <1>8, RestartMoves
      <3>2. QED
        BY <1>1, <3>1 DEF LockType, Locks, NoTasks
    <2>4. QED
      BY <2>2, <2>3
  <1>9. CASE UNCHANGED vars
    BY <1>1, <1>3, <1>9 DEF vars, cacheVars, taskVars
  <1>10. ASSUME NEW c \in Callers, Proceed(c) PROVE HwType' /\ LockType'
    BY <1>1, <1>4, <1>10, GoroutineStep DEF Proceed, Mains
  <1>11. QED
    BY <1>5, <1>6, <1>7, <1>8, <1>9, <1>10, Kinds
-----------------------------------------------------------------------------
(***************************************************************************)
(* Where a call goes                                                       *)
(***************************************************************************)
Path(c) ==
  \/ at'[c] = "idle" /\ UNCHANGED <<conf, addrs>>
  \/ at[c] = "join" /\ at'[c] = "conf" /\ UNCHANGED <<conf, addrs>>
  \/ at[c] = "conf" /\ at'[c] = "load" /\ UNCHANGED <<conf, addrs, spent>>
  \/ at[c] = "conf" /\ ~Reload /\ at'[c] = "take" /\ UNCHANGED <<conf, addrs>>
  \/ at[c] = "take" /\ at'[c] = "affinity" /\ read'[c] = conf.value /\ UNCHANGED <<conf, addrs>>
  \/ /\ at[c] = "load" /\ at'[c] = "value" /\ read'[c] = (IF hybrid THEN "hybrid" ELSE "apart")
     /\ UNCHANGED <<conf, addrs, spent>>
  \/ /\ at[c] = "value" /\ at'[c] = "inited" /\ read'[c] = read[c]
     /\ conf' = [conf EXCEPT !.value = read[c]] /\ UNCHANGED addrs
  \/ /\ at[c] = "inited" /\ at'[c] = "stamp" /\ read'[c] = read[c]
     /\ conf' = [conf EXCEPT !.inited = TRUE] /\ UNCHANGED addrs
  \/ /\ at[c] = "stamp" /\ at'[c] = "affinity" /\ read'[c] = read[c]
     /\ conf' = [conf EXCEPT !.age = 0] /\ UNCHANGED addrs
  \/ at[c] = "addrs" /\ Remembered /\ at'[c] = "find" /\ read'[c] = addrs.list /\ UNCHANGED <<conf, addrs>>
  \/ at[c] = "addrs" /\ at'[c] = "listAddrs" /\ UNCHANGED <<conf, addrs, spent>>
  \/ at[c] = "listAddrs" /\ at'[c] = "add" /\ read'[c] = address /\ UNCHANGED <<conf, addrs, spent>>
  \/ /\ at[c] = "add" /\ at'[c] = "find" /\ read'[c] = read[c]
     /\ addrs' = [list |-> read[c], age |-> 0] /\ UNCHANGED conf

LEMMA Paths ==
  ASSUME Typed, [Next]_vars, NEW c \in Callers, Mains(c)
  PROVE  Path(c) /\ UNCHANGED srcVars
  <1>1. UNCHANGED focus
    BY SourceTypes
  <1>2. /\ \A kind, nodes : Return(c, kind, nodes) => at'[c] = "idle"
        /\ \A l \in Places : \A v : Goto(c, l, v) =>
             at'[c] = l /\ read'[c] = v /\ (l \in Waiting => UNCHANGED spent)
    BY <1>1, Returned, Went
  <1>3. {"conf", "take", "load", "value", "inited", "stamp", "affinity",
         "addrs", "listAddrs", "add", "find"} \subseteq Places
    BY DEF Places
  <1>4. CASE Join(c)
    BY <1>2, <1>3, <1>4 DEF Join, Path, Step, cacheVars
  <1>5. CASE CheckConf(c)
    BY <1>2, <1>3, <1>5 DEF CheckConf, ConfStep, Path, Step, Waiting
  <1>6. CASE TakeConf(c)
    BY <1>2, <1>3, <1>6 DEF TakeConf, ConfStep, Path, Step
  <1>7. CASE LoadConf(c)
    BY <1>2, <1>3, <1>7 DEF LoadConf, Ask, Path, Step, Waiting, cacheVars
  <1>8. CASE WriteConf(c)
    BY <1>2, <1>3, <1>8 DEF WriteConf, ConfStep, Path, Step
  <1>9. CASE Affinity(c)
    BY <1>2, <1>3, <1>9 DEF Affinity, Path, Step, cacheVars
  <1>10. CASE LookupAddrs(c)
    BY <1>2, <1>3, <1>10 DEF LookupAddrs, AddrStep, Path, Step, Waiting
  <1>11. CASE ListAddrs(c)
    BY <1>2, <1>3, <1>11 DEF ListAddrs, Ask, Path, Step, Waiting, cacheVars
  <1>12. CASE AddAddrs(c)
    BY <1>2, <1>3, <1>12 DEF AddAddrs, AddrStep, Path, Step
  <1>13. CASE Find(c)
    BY <1>2, <1>3, <1>13 DEF Find, AddrStep, Path, Step
  <1>14. QED
    BY <1>4, <1>5, <1>6, <1>7, <1>8, <1>9, <1>10, <1>11, <1>12, <1>13 DEF Mains

ConfType == conf \in [value : {"none", "hybrid", "apart"}, inited : BOOLEAN, age : Ages]
AddrType == addrs \in [list : {None} \cup [Nodes -> Addresses \cup {None}], age : Ages]

LEMMA CachesStep ==
  ASSUME Typed, Placed, [Next]_vars
  PROVE  ConfType' /\ AddrType'
  <1>1. UNCHANGED focus /\ ConfType /\ AddrType /\ 0 \in Ages /\ Far[focus] \in Ages
    BY SourceTypes, TypeFacts, Numbers DEF ConfType, AddrType, Ages
  <1>2. Ages' = Ages
    BY <1>1 DEF Ages
  <1>3. UNCHANGED <<conf, addrs>> => ConfType' /\ AddrType'
    BY <1>1, <1>2 DEF ConfType, AddrType
  <1>4. ASSUME NEW c \in Callers, Mains(c) PROVE ConfType' /\ AddrType'
    <2>1. Path(c)
      BY <1>4, Paths
    <2>2. /\ at[c] = "value" => read[c] \in {"none", "hybrid", "apart"}
          /\ at[c] = "add" => read[c] \in [Nodes -> Addresses \cup {None}]
      BY DEF Placed
    <2>3. ConfType'
      BY <1>1, <1>2, <2>1, <2>2 DEF ConfType, Path
    <2>4. UNCHANGED addrs \/ (at[c] = "add" /\ addrs' = [list |-> read[c], age |-> 0])
      BY <2>1 DEF Path
    <2>5. AddrType'
      BY <1>1, <1>2, <2>2, <2>4 DEF AddrType
    <2>6. QED
      BY <2>3, <2>5
  <1>5. ASSUME NEW c \in Callers, Proceed(c) PROVE ConfType' /\ AddrType'
    <2>1. ASSUME ~Mains(c) PROVE UNCHANGED <<conf, addrs>>
      BY <1>1, <1>5, <2>1, ListMoves, LookupMoves, ProbeMoves, StoreMoves
         DEF Proceed, Mains, cacheVars, Goes
    <2>2. QED
      BY <1>3, <1>4, <2>1
  <1>6. ASSUME NEW c \in Callers, NEW o \in Ops, Call(c, o) PROVE ConfType' /\ AddrType'
    BY <1>1, <1>3, <1>6, CallMoves DEF cacheVars
  <1>7. CASE Tick
    <2>1. /\ conf' = [conf EXCEPT !.age = Older(conf.age)]
          /\ addrs' = IF addrs.list = None THEN addrs ELSE [addrs EXCEPT !.age = Older(addrs.age)]
      BY <1>1, <1>7, TickMoves
    <2>2. Older(conf.age) \in Ages /\ Older(addrs.age) \in Ages
      BY <1>1, Younger DEF ConfType, AddrType
    <2>3. ConfType'
      BY <1>1, <1>2, <2>1, <2>2 DEF ConfType
    <2>4. AddrType'
      BY <1>1, <1>2, <2>1, <2>2 DEF AddrType
    <2>5. QED
      BY <2>3, <2>4
  <1>8. CASE Change
    BY <1>1, <1>3, <1>8, ChangeMoves DEF cacheVars
  <1>9. CASE Restart
    <2>1. conf' = NoConf /\ addrs' = NoAddrs
      BY <1>1, <1>9, RestartMoves
    <2>2. ConfType'
      BY <1>1, <1>2, <2>1 DEF ConfType, NoConf
    <2>3. AddrType'
      BY <1>1, <1>2, <2>1 DEF AddrType, NoAddrs
    <2>4. QED
      BY <2>2, <2>3
  <1>10. CASE UNCHANGED vars
    BY <1>3, <1>10 DEF vars, cacheVars
  <1>11. QED
    BY <1>5, <1>6, <1>7, <1>8, <1>9, <1>10, Kinds

LEMMA TypedStep ==
  ASSUME Typed, Placed, Current, [Next]_vars
  PROVE  Typed'
  <1>1. UNCHANGED focus /\ Calls' /\ CallerTypes' /\ HwType' /\ LockType' /\ ConfType' /\ AddrType'
    BY SourceTypes, CallersStep, HardwareStep, CachesStep
  <1>2. /\ node' \in [Nodes -> {"up", "nicDown", "notReady"}] /\ hybrid' \in BOOLEAN
        /\ address' \in [Nodes -> Addresses \cup {None}]
        /\ nCalls' \in 0..MaxCalls[focus] /\ nEvents' \in 0..MaxEvents[focus]
    BY SourceTypes, CallersStep
  <1>3. TypeOK'
    BY <1>1, <1>2 DEF TypeOK, Calls, CallerTypes, HwType, LockType, Locks, ConfType, AddrType
  <1>4. last' \in Lasts' /\ focus' \in Focuses
    <2>1. last' \in Lasts /\ focus \in Focuses
      BY Aged, Numbers
    <2>2. Lasts' = Lasts
      BY <1>1 DEF Lasts, Ages
    <2>3. QED
      BY <1>1, <2>1, <2>2
  <1>5. QED
    BY <1>1, <1>3, <1>4 DEF Typed, Calls

PlacedCall(c) ==
  /\ at[c] \in AddrPlaces => focus = "addresses" /\ call[c] \in Ops
  /\ at[c] \in {"value", "inited", "stamp", "affinity"} => read[c] \in {"hybrid", "apart"}
  /\ at[c] = "take" => conf.value # "none"
  /\ at[c] \in {"add", "find"} => read[c] \in [Nodes -> Addresses \cup {None}]
  /\ \A n \in Nodes : task[c][n] \in {"lock", "probe", "store"} => at[c] = "join" /\ focus = "nodes"
  /\ at[c] = "join" => \A n \in Nodes : task[c][n] # "idle"

\* A value that is there stays until the operator ends.
LEMMA PlacedStays ==
  ASSUME Typed, Placed, UNCHANGED focus, NEW d \in Callers, Stays(d),
         conf.value # "none" => conf'.value # "none"
  PROVE  PlacedCall(d)'
  BY DEF Placed, PlacedCall, Stays, Ops

\* Steps of goroutines and changes leave the calls where they are.
LEMMA GoroutineCall ==
  ASSUME Typed, Placed, UNCHANGED focus, NEW c \in Callers, NEW n \in Nodes,
         Lookup(c, n) \/ Probe(c, n) \/ Store(c, n)
  PROVE  /\ Only(c) /\ UNCHANGED <<mainVars, conf, addrs>> /\ PlacedCall(c)'
  <1>1. CallerTypes
    BY TypeFacts
  <1>2. /\ task[c][n] \in {"lock", "probe", "store"}
        /\ \E l \in {"lock", "probe", "store", "done"} : Goes(c, n, l)
    BY LookupMoves, ProbeMoves, StoreMoves
  <1>3. at[c] = "join" /\ focus = "nodes"
    BY <1>2 DEF Placed
  <1>4. Only(c) /\ UNCHANGED <<mainVars, conf, addrs>>
    BY <1>2 DEF Goes
  <1>5. PlacedCall(c)'
    <2>1. \A m \in Nodes : task'[c][m] # "idle"
      <3>1. \A m \in Nodes : task[c][m] # "idle"
        BY <1>3 DEF Placed
      <3>2. QED
        BY <1>1, <1>2, <3>1 DEF Goes, CallerTypes
    <2>2. QED
      BY <1>3, <1>4, <2>1 DEF PlacedCall, mainVars, AddrPlaces
  <1>6. QED
    BY <1>4, <1>5

LEMMA PlacedStep ==
  ASSUME Typed, Placed, Current, [Next]_vars
  PROVE  Placed'
  <1>1. UNCHANGED focus /\ Calls /\ CallerTypes /\ ConfType /\ AddrType
    BY SourceTypes, TypeFacts DEF ConfType, AddrType
  <1>2. SUFFICES ASSUME NEW d \in Callers PROVE PlacedCall(d)'
    BY DEF Placed, PlacedCall
  <1>3. ASSUME NEW c \in Callers, Only(c), conf.value # "none" => conf'.value # "none", d # c
        PROVE  PlacedCall(d)'
    BY <1>1, <1>3, PlacedStays DEF Only
  <1>4. Ops' = Ops
    BY <1>1 DEF Ops
  <1>5. PlacedCall(d)
    BY DEF Placed, PlacedCall
  <1>6. ASSUME at'[d] = "idle", task'[d] = NoTasks PROVE PlacedCall(d)'
    BY <1>6 DEF PlacedCall, AddrPlaces, NoTasks
  <1>7. ASSUME NEW c \in Callers, Mains(c) PROVE PlacedCall(d)'
    <2>1. /\ Path(c) /\ UNCHANGED srcVars /\ Only(c)
          /\ \/ at'[c] = "idle" /\ task'[c] = NoTasks
             \/ UNCHANGED <<call, taskVars>> /\ at'[c] # "idle"
          /\ at[c] = "join" => \A n \in Nodes : task[c][n] = "done"
      BY <1>7, Paths, MainMoves
    <2>2. at[c] = "value" => read[c] \in {"hybrid", "apart"}
      BY DEF Placed
    <2>3. conf.value # "none" => conf'.value # "none"
      BY <1>1, <2>1, <2>2 DEF Path, ConfType
    <2>4. CASE d = c /\ at'[c] # "idle"
      <3>1. UNCHANGED <<call, taskVars>> /\ \A n \in Nodes : task[c][n] \notin {"lock", "probe", "store"}
        BY <1>5, <2>1, <2>4 DEF Path, PlacedCall
      <3>2. \A n \in Nodes : task'[c][n] \notin {"lock", "probe", "store"}
        BY <3>1 DEF taskVars
      <3>3. at'[c] \in AddrPlaces => focus = "addresses" /\ call[c] \in Ops
        BY <1>5, <2>1, <2>4 DEF Path, PlacedCall, AddrPlaces
      <3>4. /\ at'[c] \in {"value", "inited", "stamp", "affinity"} => read'[c] \in {"hybrid", "apart"}
            /\ at'[c] = "take" => conf'.value # "none"
        BY <1>1, <1>5, <2>1, <2>4 DEF Path, PlacedCall, Reload, ConfType
      <3>5. at'[c] \in {"add", "find"} => read'[c] \in [Nodes -> Addresses \cup {None}]
        <4>1. address \in [Nodes -> Addresses \cup {None}]
          BY DEF Typed, TypeOK
        <4>2. QED
          BY <1>1, <1>5, <2>1, <2>4, <4>1 DEF Path, PlacedCall, Remembered, AddrType
      <3>6. at'[c] # "join"
        BY <2>1, <2>4 DEF Path
      <3>7. QED
        BY <1>1, <1>4, <2>4, <3>1, <3>2, <3>3, <3>4, <3>5, <3>6 DEF PlacedCall
    <2>5. CASE d = c /\ at'[c] = "idle"
      BY <1>6, <2>1, <2>5
    <2>6. QED
      BY <1>3, <2>1, <2>3, <2>4, <2>5
  <1>8. ASSUME NEW c \in Callers, List(c) PROVE PlacedCall(d)'
    <2>1. /\ Only(c) /\ UNCHANGED <<conf, srcVars>>
          /\ \/ at'[c] = "idle" /\ task'[c] = NoTasks
             \/ /\ at'[c] = "join" /\ UNCHANGED <<call, read>>
                /\ task'[c] = [n \in Nodes |-> IF focus = "nodes" THEN "lock" ELSE "done"]
      BY <1>1, <1>8, ListMoves DEF cacheVars
    <2>2. CASE d = c /\ at'[c] = "join"
      <3>1. \A n \in Nodes : task'[c][n] \in {"lock", "probe", "store"} => focus' = "nodes"
        BY <1>1, <2>1, <2>2
      <3>2. \A n \in Nodes : task'[c][n] # "idle"
        BY <2>1, <2>2
      <3>3. QED
        BY <2>2, <3>1, <3>2 DEF PlacedCall, AddrPlaces
    <2>3. QED
      BY <1>3, <1>6, <2>1, <2>2
  <1>9. ASSUME NEW c \in Callers, NEW n \in Nodes, Lookup(c, n) \/ Probe(c, n) \/ Store(c, n)
        PROVE  PlacedCall(d)'
    BY <1>1, <1>3, <1>9, GoroutineCall
  <1>10. ASSUME NEW c \in Callers, Proceed(c) PROVE PlacedCall(d)'
    BY <1>7, <1>8, <1>9, <1>10 DEF Proceed, Mains
  <1>11. ASSUME NEW c \in Callers, NEW o \in Ops, Call(c, o) PROVE PlacedCall(d)'
    <2>1. /\ Only(c) /\ UNCHANGED <<cacheVars, taskVars, read>> /\ call'[c] = o /\ at'[c] = First(o.op)
          /\ First(o.op) \in {"list", "conf", "addrs"} /\ at[c] = "idle"
          /\ First(o.op) = "addrs" <=> focus = "addresses"
      BY <1>1, <1>11, CallMoves
    <2>2. \A n \in Nodes : task[c][n] \notin {"lock", "probe", "store"}
      BY <2>1 DEF Placed
    <2>3. CASE d = c
      BY <1>1, <1>4, <2>1, <2>2, <2>3 DEF PlacedCall, AddrPlaces, taskVars
    <2>4. QED
      BY <1>3, <2>1, <2>3 DEF cacheVars
  <1>12. CASE Tick
    <2>1. /\ UNCHANGED <<at, read, call, task>> /\ conf' = [conf EXCEPT !.age = Older(conf.age)]
      BY <1>1, <1>12, TickMoves
    <2>2. conf'.value = conf.value
      BY <1>1, <2>1 DEF ConfType
    <2>3. QED
      BY <1>1, <1>4, <1>5, <2>1, <2>2 DEF PlacedCall
  <1>13. CASE Change \/ UNCHANGED vars
    <2>1. UNCHANGED <<at, read, call, task, conf>>
      BY <1>1, <1>13, ChangeMoves DEF vars, cacheVars, taskVars, mainVars
    <2>2. QED
      BY <1>1, <1>4, <1>5, <2>1 DEF PlacedCall
  <1>14. CASE Restart
    BY <1>1, <1>6, <1>14, RestartMoves
  <1>15. QED
    BY <1>10, <1>11, <1>12, <1>13, <1>14, Kinds
-----------------------------------------------------------------------------
(***************************************************************************)
(* The addresses and the configuration                                     *)
(***************************************************************************)
Rests(d) == at'[d] = at[d] /\ read'[d] = read[d] /\ spent'[d][None] = spent[d][None]
Starts == {"idle", "list", "join", "conf", "addrs"}

\* What a step does to what is kept and to what the calls have in hand.
LEMMA Moves ==
  ASSUME Typed, Placed, [Next]_vars
  PROVE  \/ Tick
         \/ Restart
         \/ UNCHANGED <<conf, addrs>> /\ \A d \in Callers : Rests(d) \/ at'[d] \in Starts
         \/ \E c \in Callers : Mains(c) /\ Path(c) /\ \A d \in Callers \ {c} : Rests(d)
  <1>1. UNCHANGED focus /\ None \notin Nodes
    BY SourceTypes, Numbers
  <1> DEFINE Some == \/ UNCHANGED <<conf, addrs>> /\ \A d \in Callers : Rests(d) \/ at'[d] \in Starts
                     \/ \E c \in Callers : Mains(c) /\ Path(c) /\ \A d \in Callers \ {c} : Rests(d)
  <1>2. ASSUME NEW c \in Callers, Mains(c) PROVE Some
    BY <1>2, Paths, MainMoves DEF Only, Stays, Rests
  <1>3. ASSUME NEW c \in Callers, List(c) PROVE Some
    BY <1>1, <1>3, ListMoves DEF Only, Stays, Rests, Starts, cacheVars
  <1>4. ASSUME NEW c \in Callers, NEW n \in Nodes, Lookup(c, n) \/ Probe(c, n) \/ Store(c, n) PROVE Some
    <2>1. \E l \in {"lock", "probe", "store", "done"} : Goes(c, n, l)
      BY <1>1, <1>4, LookupMoves, ProbeMoves, StoreMoves
    <2>2. QED
      BY <2>1 DEF Goes, Only, Stays, Rests, mainVars
  <1>5. ASSUME NEW c \in Callers, NEW o \in Ops, Call(c, o) PROVE Some
    BY <1>1, <1>5, CallMoves DEF Only, Stays, Rests, Starts, cacheVars
  <1>6. ASSUME Change \/ UNCHANGED vars PROVE Some
    BY <1>1, <1>6, ChangeMoves DEF Rests, cacheVars, mainVars, vars
  <1>7. QED
    BY <1>2, <1>3, <1>4, <1>5, <1>6, Kinds DEF Proceed, Mains

LEMMA RecentLater ==
  ASSUME Typed, Current, [Next]_vars, NEW l \in [Nodes -> Addresses \cup {None}], NEW x \in Nat, NEW y \in Nat,
         Recent(l, x), ~Tick => x <= y, Tick => x + 1 <= y \/ Far[focus] <= y
  PROVE  Recent(l, y)'
  <1>1. /\ last' \in Lasts
        /\ Ageing(0) \/ (Tick /\ Ageing(1))
        /\ last \in Lasts /\ Ages \subseteq Nat /\ \A a \in Ages : a <= Far[focus]
        /\ Far[focus] \in Nat
    BY Aged, Numbers DEF Typed
  <1>2. SUFFICES ASSUME NEW n \in Nodes PROVE last'.client[n][l[n]] <= y
    BY DEF Recent
  <1>3. l[n] \in Addresses \cup {None}
    OBVIOUS
  <1>4. last'.client[n][l[n]] \in Ages /\ last.client[n][l[n]] \in Ages
    <2> DEFINE S == [Addresses \cup {None} -> Ages]
    <2>1. \A f \in Lasts : f.client \in [Nodes -> S]
      BY DEF Lasts
    <2> HIDE DEF S
    <2>2. \A f \in Lasts : f.client[n] \in S
      BY <2>1
    <2>3. last'.client[n] \in S /\ last.client[n] \in S
      BY <1>1, <2>2
    <2>4. QED
      BY <1>3, <2>3 DEF S
  <1>5. last.client[n][l[n]] <= x
    BY DEF Recent
  <1>6. last'.client[n][l[n]] <= last.client[n][l[n]] + 0 \/ (Tick /\ last'.client[n][l[n]] <= last.client[n][l[n]] + 1)
    BY <1>1, <1>3 DEF Ageing
  <1>7. last'.client[n][l[n]] \in Nat /\ last.client[n][l[n]] \in Nat /\ last'.client[n][l[n]] <= Far[focus]
    BY <1>1, <1>4
  <1>8. QED
    BY <1>1, <1>5, <1>6, <1>7

AddressedCall(c) ==
  /\ at[c] = "add" => Recent(read[c], spent[c][None])
  /\ at[c] = "find" => Recent(read[c], AddrTTL + MaxProbe)

LEMMA AddressedStep ==
  ASSUME Typed, Placed, Current, Addressed, [Next]_vars
  PROVE  Addressed'
  <1>1. UNCHANGED focus /\ CallerTypes /\ AddrType
    BY SourceTypes, TypeFacts DEF AddrType
  <1>2. /\ MaxProbe \in Nat /\ AddrTTL \in Nat /\ Ages \subseteq Nat /\ Far[focus] \in Nat
        /\ 0 \in Ages /\ None \notin Nodes
    BY Numbers DEF Ages
  <1>3. SUFFICES ASSUME focus = "addresses"
        PROVE  /\ addrs.list # None => Recent(addrs.list, addrs.age + MaxProbe)
               /\ \A c \in Callers : AddressedCall(c)
               => (addrs.list # None => Recent(addrs.list, addrs.age + MaxProbe))' /\ \A d \in Callers : AddressedCall(d)'
    BY <1>1 DEF Addressed, AddressedCall
  <1>4. HAVE /\ addrs.list # None => Recent(addrs.list, addrs.age + MaxProbe)
             /\ \A c \in Callers : AddressedCall(c)
  <1>5. /\ \A c \in Callers : /\ at[c] \in {"add", "find"} => read[c] \in [Nodes -> Addresses \cup {None}]
                              /\ spent[c][None] \in Nat /\ spent[c][None] <= MaxProbe
        /\ addrs.list # None => addrs.list \in [Nodes -> Addresses \cup {None}]
        /\ addrs.age \in Nat /\ addrs.age <= Far[focus]
    <2>1. ASSUME NEW c \in Callers
          PROVE  /\ at[c] \in {"add", "find"} => read[c] \in [Nodes -> Addresses \cup {None}]
                 /\ spent[c][None] \in Nat /\ spent[c][None] <= MaxProbe
      <3>1. at[c] \in {"add", "find"} => read[c] \in [Nodes -> Addresses \cup {None}]
        BY DEF Placed
      <3>2. spent[c] \in [Nodes \cup {None} -> 0..MaxProbe]
        BY <1>1 DEF CallerTypes
      <3>3. QED
        BY <1>2, <3>1, <3>2
    <2>2. /\ addrs.list # None => addrs.list \in [Nodes -> Addresses \cup {None}]
          /\ addrs.age \in Ages
      BY <1>1 DEF AddrType
    <2>3. QED
      BY <1>2, <2>1, <2>2, Numbers
  <1>6. ASSUME ~Tick, UNCHANGED addrs PROVE (addrs.list # None => Recent(addrs.list, addrs.age + MaxProbe))'
    <2>1. PICK l, x : l = addrs.list /\ x = addrs.age + MaxProbe
      OBVIOUS
    <2>2. x \in Nat /\ (l # None => l \in [Nodes -> Addresses \cup {None}] /\ Recent(l, x))
      BY <1>2, <1>4, <1>5, <2>1
    <2>3. l # None => Recent(l, x)'
      BY <1>6, <2>2, RecentLater
    <2>4. QED
      BY <1>6, <2>1, <2>3 DEF Recent
  <1>7. ASSUME ~Tick, NEW d \in Callers, Rests(d) PROVE AddressedCall(d)'
    <2>1. PICK l, x : l = read[d] /\ x = spent[d][None]
      OBVIOUS
    <2>2. at[d] = "add" => Recent(l, x)'
      BY <1>2, <1>4, <1>5, <1>7, <2>1, RecentLater DEF AddressedCall
    <2>3. PICK y : y = AddrTTL + MaxProbe
      OBVIOUS
    <2>4. at[d] = "find" => Recent(l, y)'
      BY <1>2, <1>4, <1>5, <1>7, <2>1, <2>3, RecentLater DEF AddressedCall
    <2>5. QED
      BY <1>7, <2>1, <2>2, <2>3, <2>4 DEF AddressedCall, Rests, Recent
  <1>8. ASSUME NEW d \in Callers, at'[d] \in Starts PROVE AddressedCall(d)'
    BY <1>8 DEF AddressedCall, Starts
  <1>9. ASSUME ~Tick, NEW c \in Callers, Mains(c), Path(c), \A d \in Callers \ {c} : Rests(d)
        PROVE  (addrs.list # None => Recent(addrs.list, addrs.age + MaxProbe))' /\ \A d \in Callers : AddressedCall(d)'
    <2>1. UNCHANGED srcVars
      BY <1>9, Paths
    <2>2. PICK l, x, y : l = read'[c] /\ x = AddrTTL + MaxProbe /\ y = MaxProbe
      OBVIOUS
    <2>3. CASE at[c] = "add" /\ at'[c] = "find"
      <3>1. l = read[c] /\ addrs' = [list |-> l, age |-> 0] /\ l \in [Nodes -> Addresses \cup {None}]
        BY <1>5, <1>9, <2>2, <2>3 DEF Path
      <3>2. Recent(l, spent[c][None])
        BY <1>4, <2>3, <3>1 DEF AddressedCall
      <3>3. Recent(l, x)' /\ Recent(l, y)'
        <4>1. PICK z : z = spent[c][None]
          OBVIOUS
        <4>2. QED
          BY <1>2, <1>5, <1>9, <2>2, <3>1, <3>2, <4>1, RecentLater
      <3>4. AddressedCall(c)'
        BY <2>2, <2>3, <3>3 DEF AddressedCall, Recent
      <3>5. (addrs.list # None => Recent(addrs.list, addrs.age + MaxProbe))'
        BY <1>2, <2>2, <3>1, <3>3 DEF Recent
      <3>6. QED
        BY <1>7, <1>9, <3>4, <3>5
    <2>4. CASE at[c] = "addrs" /\ at'[c] = "find"
      <3>1. l = addrs.list /\ Remembered /\ UNCHANGED addrs
        BY <1>9, <2>2, <2>4 DEF Path
      <3>2. Recent(l, x)'
        <4>1. PICK z : z = addrs.age + MaxProbe
          OBVIOUS
        <4>2. Recent(l, z) /\ z \in Nat /\ z <= x
          BY <1>2, <1>4, <1>5, <2>2, <3>1, <4>1 DEF Remembered
        <4>3. l \in [Nodes -> Addresses \cup {None}] /\ x \in Nat
          BY <1>2, <1>5, <2>2, <3>1 DEF Remembered
        <4>4. QED
          BY <1>9, <4>2, <4>3, RecentLater
      <3>3. AddressedCall(c)'
        BY <2>2, <2>4, <3>2 DEF AddressedCall, Recent
      <3>4. QED
        BY <1>6, <1>7, <1>9, <3>1, <3>3
    <2>5. CASE at[c] = "listAddrs" /\ at'[c] = "add"
      <3>1. read'[c] = address /\ UNCHANGED <<addrs, spent, address>>
        BY <1>9, <2>1, <2>5 DEF Path, srcVars
      <3>2. \A n \in Nodes : last'.client[n][address'[n]] = 0
        BY <1>1, <1>3, Aged DEF Current
      <3>3. AddressedCall(c)'
        <4>1. spent'[c][None] \in Nat
          BY <1>5, <3>1
        <4>2. QED
          BY <2>5, <3>1, <3>2, <4>1 DEF AddressedCall, Recent
      <3>4. QED
        BY <1>6, <1>7, <1>9, <3>1, <3>3
    <2>6. CASE at'[c] \notin {"find", "add"}
      <3>1. UNCHANGED addrs
        BY <1>9, <2>6 DEF Path
      <3>2. AddressedCall(c)'
        BY <2>6 DEF AddressedCall
      <3>3. QED
        BY <1>6, <1>7, <1>9, <3>1, <3>2
    <2>7. QED
      BY <1>9, <2>3, <2>4, <2>5, <2>6 DEF Path
  <1>10. CASE Tick
    <2>1. /\ UNCHANGED <<at, read>>
          /\ \A c \in Callers : spent'[c][None] = IF None \in Lasting(c) THEN spent[c][None] + 1 ELSE spent[c][None]
          /\ addrs' = IF addrs.list = None THEN addrs ELSE [addrs EXCEPT !.age = Older(addrs.age)]
      BY <1>1, <1>10, TickMoves
    <2>2. (addrs.list # None => Recent(addrs.list, addrs.age + MaxProbe))'
      <3>1. CASE addrs.list = None
        BY <2>1, <3>1
      <3>2. CASE addrs.list # None
        <4>1. addrs'.list = addrs.list /\ addrs'.age = Older(addrs.age)
          BY <1>1, <2>1, <3>2 DEF AddrType
        <4>2. PICK l, x, y : l = addrs.list /\ x = addrs.age + MaxProbe /\ y = Older(addrs.age) + MaxProbe
          OBVIOUS
        <4>3. Older(addrs.age) = addrs.age + 1 \/ Older(addrs.age) = Far[focus]
          BY DEF Older
        <4>4. x \in Nat /\ y \in Nat /\ (x + 1 <= y \/ Far[focus] <= y)
          BY <1>2, <1>5, <4>2, <4>3
        <4>5. Recent(l, x) /\ l \in [Nodes -> Addresses \cup {None}]
          BY <1>4, <1>5, <3>2, <4>2
        <4>6. Recent(l, y)'
          BY <1>10, <4>4, <4>5, RecentLater
        <4>7. QED
          BY <4>1, <4>2, <4>6 DEF Recent
      <3>3. QED
        BY <3>1, <3>2
    <2>3. ASSUME NEW d \in Callers PROVE AddressedCall(d)'
      <3>1. at[d] # "find"
        BY <1>10 DEF Tick, Settled
      <3>2. CASE at[d] = "add"
        <4>1. spent'[d][None] = spent[d][None] + 1
          BY <2>1, <3>2 DEF Lasting
        <4>2. PICK l, x, y : l = read[d] /\ x = spent[d][None] /\ y = spent[d][None] + 1
          OBVIOUS
        <4>3. Recent(l, y)'
          BY <1>4, <1>5, <3>2, <4>2, RecentLater DEF AddressedCall
        <4>4. QED
          BY <2>1, <3>2, <4>1, <4>2, <4>3 DEF AddressedCall, Recent
      <3>3. QED
        BY <2>1, <3>1, <3>2 DEF AddressedCall
    <2>4. QED
      BY <2>2, <2>3
  <1>11. CASE Restart /\ ~Tick
    <2>1. addrs' = NoAddrs /\ \A d \in Callers : at'[d] = "idle"
      BY <1>1, <1>11, RestartMoves
    <2>2. QED
      BY <1>8, <2>1 DEF NoAddrs, Starts
  <1>12. QED
    BY <1>6, <1>7, <1>8, <1>9, <1>10, <1>11, Moves DEF Starts

LEMMA InForceLater ==
  ASSUME Typed, Current, [Next]_vars, NEW v, NEW x \in Nat, NEW y \in Nat,
         InForce(v, x), ~Tick => x <= y, Tick => x + 1 <= y \/ Far[focus] <= y
  PROVE  InForce(v, y)'
  <1>1. /\ last' \in Lasts /\ last \in Lasts /\ Ages \subseteq Nat /\ \A a \in Ages : a <= Far[focus]
        /\ Far[focus] \in Nat
    BY Aged, Numbers DEF Typed
  <1>2. PICK h \in BOOLEAN : h = (v = "hybrid")
    OBVIOUS
  <1>3. last'.hybrid[h] \in Ages /\ last.hybrid[h] \in Ages
    BY <1>1 DEF Lasts
  <1>4. last.hybrid[h] <= x
    BY <1>2 DEF InForce
  <1>5. last'.hybrid[h] <= last.hybrid[h] + 0 \/ (Tick /\ last'.hybrid[h] <= last.hybrid[h] + 1)
    BY Aged DEF Ageing
  <1>6. last'.hybrid[h] \in Nat /\ last.hybrid[h] \in Nat /\ last'.hybrid[h] <= Far[focus]
    BY <1>1, <1>3
  <1>7. last'.hybrid[h] <= y
    BY <1>1, <1>4, <1>5, <1>6
  <1>8. QED
    BY <1>2, <1>7 DEF InForce

ConfiguredCall(c) ==
  /\ at[c] = "value" => InForce(read[c], spent[c][None])
  /\ at[c] \in {"inited", "stamp"} => InForce(conf.value, MaxProbe) /\ InForce(read[c], MaxProbe)
  /\ at[c] = "take" => InForce(conf.value, ConfTTL + MaxProbe)
  /\ at[c] = "affinity" => InForce(read[c], ConfTTL + MaxProbe)

LEMMA ConfiguredStep ==
  ASSUME Typed, Placed, Current, Configured, [Next]_vars
  PROVE  Configured'
  <1>1. UNCHANGED focus /\ CallerTypes /\ ConfType
    BY SourceTypes, TypeFacts DEF ConfType
  <1>2. /\ MaxProbe \in Nat /\ ConfTTL \in Nat /\ Ages \subseteq Nat /\ Far[focus] \in Nat
        /\ 0 \in Ages /\ None \notin Nodes
    BY Numbers DEF Ages
  <1> DEFINE Kept == conf.value # "none" => InForce(conf.value, conf.age + MaxProbe)
  <1>3. SUFFICES ASSUME focus = "config", Kept, \A c \in Callers : ConfiguredCall(c)
                 PROVE  Kept' /\ \A c \in Callers : ConfiguredCall(c)'
    BY <1>1 DEF Configured, ConfiguredCall
  <1>4. /\ \A c \in Callers : spent[c][None] \in Nat /\ spent[c][None] <= MaxProbe
        /\ conf.age \in Nat /\ conf.age <= Far[focus]
    <2>1. ASSUME NEW c \in Callers PROVE spent[c][None] \in Nat /\ spent[c][None] <= MaxProbe
      <3>1. spent[c] \in [Nodes \cup {None} -> 0..MaxProbe]
        BY <1>1 DEF CallerTypes
      <3>2. QED
        BY <1>2, <3>1
    <2>2. conf.age \in Ages
      BY <1>1 DEF ConfType
    <2>3. QED
      BY <1>2, <2>1, <2>2, Numbers
  \* What was in force still is, when no time passes.
  <1>5. ASSUME ~Tick, NEW v, NEW x \in Nat, NEW y \in Nat, InForce(v, x), x <= y PROVE InForce(v, y)'
    BY <1>5, InForceLater
  <1>6. ASSUME ~Tick, UNCHANGED conf PROVE Kept'
    <2>1. PICK v, x : v = conf.value /\ x = conf.age + MaxProbe
      OBVIOUS
    <2>2. x \in Nat /\ x <= x
      BY <1>2, <1>4, <2>1
    <2>3. v # "none" => InForce(v, x)'
      BY <1>3, <1>5, <1>6, <2>1, <2>2
    <2>4. QED
      BY <1>6, <2>1, <2>3 DEF InForce
  \* Another caller may have replaced the value, with one that was in force.
  <1>7. ASSUME ~Tick, NEW d \in Callers, Rests(d),
               conf'.value = conf.value \/ InForce(conf.value, MaxProbe)'
        PROVE  ConfiguredCall(d)'
    <2>1. PICK v, r, x : v = conf.value /\ r = read[d] /\ x = spent[d][None]
      OBVIOUS
    <2>2. PICK y : y = ConfTTL + MaxProbe
      OBVIOUS
    <2>3. x \in Nat /\ y \in Nat /\ x <= x /\ y <= y /\ MaxProbe <= MaxProbe /\ MaxProbe <= y
      BY <1>2, <1>4, <2>1, <2>2
    <2>4. /\ at[d] = "value" => InForce(r, x)'
          /\ at[d] \in {"inited", "stamp"} => InForce(v, MaxProbe)' /\ InForce(r, MaxProbe)'
          /\ at[d] = "take" => InForce(v, y)'
          /\ at[d] = "affinity" => InForce(r, y)'
      BY <1>2, <1>3, <1>5, <1>7, <2>1, <2>2, <2>3 DEF ConfiguredCall
    <2>5. at[d] \in {"inited", "stamp"} => InForce(conf.value, MaxProbe)'
      BY <1>7, <2>1, <2>4 DEF InForce
    <2>6. at[d] = "take" => InForce(conf.value, ConfTTL + MaxProbe)'
      <3>1. CASE conf'.value = conf.value
        BY <2>1, <2>2, <2>4, <3>1 DEF InForce
      <3>2. CASE InForce(conf.value, MaxProbe)'
        <4>1. PICK h \in BOOLEAN : h = (conf'.value = "hybrid")
          OBVIOUS
        <4>2. last'.hybrid[h] \in Nat
          <5>1. last' \in Lasts
            BY Aged
          <5>2. last'.hybrid[h] \in Ages
            BY <5>1 DEF Lasts
          <5>3. QED
            BY <1>2, <5>2
        <4>3. last'.hybrid[h] <= ConfTTL + MaxProbe
          BY <1>2, <3>2, <4>1, <4>2 DEF InForce
        <4>4. QED
          BY <4>1, <4>3 DEF InForce
      <3>3. QED
        BY <1>7, <3>1, <3>2
    <2>7. QED
      BY <1>7, <2>1, <2>2, <2>4, <2>5, <2>6 DEF ConfiguredCall, Rests, InForce
  <1>8. ASSUME NEW d \in Callers, at'[d] \in Starts PROVE ConfiguredCall(d)'
    BY <1>8 DEF ConfiguredCall, Starts
  <1>9. ASSUME ~Tick, NEW c \in Callers, Mains(c), Path(c), \A d \in Callers \ {c} : Rests(d)
        PROVE  Kept' /\ \A d \in Callers : ConfiguredCall(d)'
    <2>1. UNCHANGED srcVars
      BY <1>9, Paths
    <2>2. PICK v, r, x, y, z : /\ v = conf.value /\ r = read[c] /\ x = spent[c][None]
                               /\ y = ConfTTL + MaxProbe /\ z = conf.age + MaxProbe
      OBVIOUS
    <2>3. /\ x \in Nat /\ y \in Nat /\ z \in Nat /\ x <= MaxProbe /\ MaxProbe <= MaxProbe
          /\ MaxProbe <= y /\ MaxProbe <= z
      BY <1>2, <1>4, <2>2
    <2>4. CASE UNCHANGED conf
      <3>1. ConfiguredCall(c)'
        <4>1. CASE at[c] = "conf" /\ ~Reload /\ at'[c] = "take"
          <5>1. v # "none" /\ conf.age < ConfTTL
            BY <1>2, <1>4, <2>2, <4>1 DEF Reload
          <5>2. z <= y
            BY <1>2, <1>4, <2>2, <5>1
          <5>3. InForce(v, z)
            BY <1>3, <2>2, <5>1
          <5>4. InForce(v, y)'
            BY <1>5, <1>9, <2>3, <5>2, <5>3
          <5>5. QED
            BY <2>2, <2>4, <4>1, <5>4 DEF ConfiguredCall, InForce
        <4>2. CASE at[c] = "take" /\ at'[c] = "affinity" /\ read'[c] = conf.value
          <5>1. InForce(v, y)
            BY <1>3, <2>2, <4>2 DEF ConfiguredCall
          <5>2. InForce(v, y)'
            BY <1>5, <1>9, <2>3, <5>1
          <5>3. QED
            BY <2>2, <4>2, <5>2 DEF ConfiguredCall, InForce
        <4>3. CASE /\ at[c] = "load" /\ at'[c] = "value" /\ UNCHANGED spent
                   /\ read'[c] = (IF hybrid THEN "hybrid" ELSE "apart")
          <5>1. last'.hybrid[hybrid'] = 0 /\ UNCHANGED hybrid /\ hybrid \in BOOLEAN
            BY <1>1, <1>3, <2>1, Aged DEF Current, srcVars, Typed, TypeOK
          <5>2. (read'[c] = "hybrid") = hybrid
            BY <4>3, <5>1
          <5>3. spent'[c][None] \in Nat
            BY <1>4, <4>3
          <5>4. QED
            BY <4>3, <5>1, <5>2, <5>3 DEF ConfiguredCall, InForce
        <4>4. CASE at'[c] \notin {"take", "affinity", "value", "inited", "stamp"}
          BY <4>4 DEF ConfiguredCall
        <4>5. CASE at[c] \in {"value", "inited", "stamp"} /\ at'[c] # "idle"
          <5>1. PICK w : w = conf'.value
            OBVIOUS
          <5>2. CASE at[c] = "value"
            <6>1. at'[c] = "inited" /\ read'[c] = r /\ conf'.value = r
              BY <1>1, <1>9, <2>2, <4>5, <5>2 DEF Path, ConfType
            <6>2. InForce(r, MaxProbe)'
              BY <1>2, <1>3, <1>5, <1>9, <2>2, <2>3, <5>2 DEF ConfiguredCall
            <6>3. QED
              BY <6>1, <6>2 DEF ConfiguredCall, InForce
          <5>3. CASE at[c] \in {"inited", "stamp"}
            <6>1. at'[c] \in {"stamp", "affinity"} /\ read'[c] = r
              BY <1>9, <2>2, <4>5, <5>3 DEF Path
            <6>2. InForce(r, MaxProbe) /\ InForce(v, MaxProbe)
              BY <1>3, <2>2, <5>3 DEF ConfiguredCall
            <6>3. InForce(r, MaxProbe)' /\ InForce(v, MaxProbe)' /\ InForce(r, y)'
              BY <1>2, <1>5, <1>9, <2>3, <6>2
            <6>4. QED
              BY <2>2, <2>4, <6>1, <6>3 DEF ConfiguredCall, InForce
          <5>4. QED
            BY <4>5, <5>2, <5>3
        <4>6. QED
          BY <1>9, <4>1, <4>2, <4>3, <4>4, <4>5 DEF Path
      <3>2. QED
        BY <1>6, <1>7, <1>9, <2>4, <3>1
    <2>5. CASE at[c] = "value" /\ at'[c] = "inited" /\ read'[c] = read[c] /\ conf' = [conf EXCEPT !.value = read[c]]
      <3>1. conf'.value = r /\ conf'.age = conf.age /\ read'[c] = r
        BY <1>1, <2>2, <2>5 DEF ConfType
      <3>2. InForce(r, x)
        BY <1>3, <2>2, <2>5 DEF ConfiguredCall
      <3>3. InForce(r, MaxProbe)' /\ InForce(r, z)'
        BY <1>2, <1>5, <1>9, <2>3, <3>2
      <3>4. InForce(conf.value, MaxProbe)' /\ Kept'
        BY <2>2, <3>1, <3>3 DEF InForce
      <3>5. ConfiguredCall(c)'
        BY <2>5, <3>1, <3>3 DEF ConfiguredCall, InForce
      <3>6. QED
        BY <1>7, <1>9, <3>4, <3>5
    <2>6. CASE \/ /\ at[c] = "inited" /\ at'[c] = "stamp" /\ read'[c] = read[c]
                  /\ conf' = [conf EXCEPT !.inited = TRUE]
               \/ /\ at[c] = "stamp" /\ at'[c] = "affinity" /\ read'[c] = read[c]
                  /\ conf' = [conf EXCEPT !.age = 0]
      <3>1. /\ conf'.value = v /\ read'[c] = r /\ conf'.age \in {conf.age, 0}
            /\ at'[c] \in {"stamp", "affinity"} /\ at[c] \in {"inited", "stamp"}
        BY <1>1, <2>2, <2>6 DEF ConfType
      <3>2. InForce(v, MaxProbe) /\ InForce(r, MaxProbe)
        BY <1>3, <2>2, <3>1 DEF ConfiguredCall
      <3>3. InForce(v, MaxProbe)' /\ InForce(v, z)' /\ InForce(r, MaxProbe)' /\ InForce(r, y)'
        BY <1>2, <1>5, <1>9, <2>3, <3>2
      <3>4. InForce(conf.value, MaxProbe)' /\ Kept'
        <4>1. conf'.age + MaxProbe \in {z, MaxProbe}
          BY <1>2, <2>2, <3>1
        <4>2. QED
          BY <3>1, <3>3, <4>1 DEF InForce
      <3>5. ConfiguredCall(c)'
        BY <2>2, <3>1, <3>3 DEF ConfiguredCall, InForce
      <3>6. QED
        BY <1>7, <1>9, <3>4, <3>5
    <2>7. QED
      BY <1>9, <2>4, <2>5, <2>6 DEF Path
  <1>10. CASE Tick
    <2>1. /\ UNCHANGED <<at, read>> /\ conf' = [conf EXCEPT !.age = Older(conf.age)]
          /\ \A c \in Callers : spent'[c][None] = IF None \in Lasting(c) THEN spent[c][None] + 1 ELSE spent[c][None]
      BY <1>1, <1>10, TickMoves
    <2>2. Kept'
      <3>1. conf'.value = conf.value /\ conf'.age = Older(conf.age)
        BY <1>1, <2>1 DEF ConfType
      <3>2. PICK v, x, y : v = conf.value /\ x = conf.age + MaxProbe /\ y = Older(conf.age) + MaxProbe
        OBVIOUS
      <3>3. Older(conf.age) = conf.age + 1 \/ Older(conf.age) = Far[focus]
        BY DEF Older
      <3>4. x \in Nat /\ y \in Nat /\ (x + 1 <= y \/ Far[focus] <= y)
        BY <1>2, <1>4, <3>2, <3>3
      <3>5. v # "none" => InForce(v, y)'
        BY <1>3, <1>10, <3>2, <3>4, InForceLater
      <3>6. QED
        BY <3>1, <3>2, <3>5 DEF InForce
    <2>3. ASSUME NEW d \in Callers PROVE ConfiguredCall(d)'
      <3>1. at[d] \notin {"take", "inited", "stamp", "affinity"}
        BY <1>10 DEF Tick, Settled
      <3>2. CASE at[d] = "value"
        <4>1. spent'[d][None] = spent[d][None] + 1
          BY <2>1, <3>2 DEF Lasting
        <4>2. PICK v, x, y : v = read[d] /\ x = spent[d][None] /\ y = spent[d][None] + 1
          OBVIOUS
        <4>3. InForce(v, x) /\ x \in Nat /\ y \in Nat /\ x + 1 <= y
          BY <1>3, <1>4, <3>2, <4>2 DEF ConfiguredCall
        <4>4. InForce(v, y)'
          BY <1>10, <4>3, InForceLater
        <4>5. QED
          BY <2>1, <3>2, <4>1, <4>2, <4>4 DEF ConfiguredCall, InForce
      <3>3. QED
        BY <2>1, <3>1, <3>2 DEF ConfiguredCall
    <2>4. QED
      BY <2>2, <2>3
  <1>11. CASE Restart /\ ~Tick
    <2>1. conf' = NoConf /\ \A d \in Callers : at'[d] = "idle"
      BY <1>1, <1>11, RestartMoves
    <2>2. QED
      BY <1>8, <2>1 DEF NoConf, Starts
  <1>12. QED
    BY <1>6, <1>7, <1>8, <1>9, <1>10, <1>11, Moves DEF Starts
-----------------------------------------------------------------------------
(***************************************************************************)
(* The status of the nodes                                                 *)
(***************************************************************************)
LEMMA NodeAges ==
  ASSUME Typed, Current, [Next]_vars, NEW n \in Nodes
  PROVE  /\ last.ready[n] \in Nat /\ last.nic[n] \in Nat /\ last.bad[n] \in Nat
         /\ last'.ready[n] \in Nat /\ last'.nic[n] \in Nat /\ last'.bad[n] \in Nat
         /\ last'.ready[n] <= Far[focus] /\ last'.nic[n] <= Far[focus] /\ last'.bad[n] <= Far[focus]
         /\ Far[focus] \in Nat
         /\ \E k \in {0, 1} : /\ k = 1 => Tick
                              /\ last'.ready[n] <= last.ready[n] + k
                              /\ last'.nic[n] <= last.nic[n] + k
                              /\ last'.bad[n] <= last.bad[n] + k
  <1>1. last' \in Lasts /\ last \in Lasts /\ Ages \subseteq Nat /\ Far[focus] \in Nat
    BY Aged, Numbers DEF Typed
  <1>2. /\ last.ready[n] \in Ages /\ last.nic[n] \in Ages /\ last.bad[n] \in Ages
        /\ last'.ready[n] \in Ages /\ last'.nic[n] \in Ages /\ last'.bad[n] \in Ages
    BY <1>1 DEF Lasts
  <1>3. Ageing(0) \/ (Tick /\ Ageing(1))
    BY Aged
  <1>4. /\ last.ready[n] \in Nat /\ last.nic[n] \in Nat /\ last.bad[n] \in Nat
        /\ last'.ready[n] \in Nat /\ last'.nic[n] \in Nat /\ last'.bad[n] \in Nat
    BY <1>1, <1>2
  <1>5. last'.ready[n] <= Far[focus] /\ last'.nic[n] <= Far[focus] /\ last'.bad[n] <= Far[focus]
    BY <1>2, Numbers
  <1>6. \E k \in {0, 1} : /\ k = 1 => Tick
                         /\ last'.ready[n] <= last.ready[n] + k
                         /\ last'.nic[n] <= last.nic[n] + k
                         /\ last'.bad[n] <= last.bad[n] + k
    <2>1. PICK k \in {0, 1} : Ageing(k) /\ (k = 1 => Tick)
      BY <1>3
    <2>2. QED
      BY <2>1 DEF Ageing
  <1>7. QED
    BY <1>1, <1>4, <1>5, <1>6

LEMMA WasLater ==
  ASSUME Typed, Current, [Next]_vars, NEW n \in Nodes, NEW s, NEW x \in Nat, NEW y \in Nat,
         Was(n, s, x), ~Tick => x <= y, Tick => x + 1 <= y \/ Far[focus] <= y
  PROVE  Was(n, s, y)'
  BY NodeAges DEF Was

LEMMA ListedLater ==
  ASSUME Typed, Current, [Next]_vars, NEW n \in Nodes, NEW l, NEW x \in Nat, NEW y \in Nat,
         WasListed(n, l, x), ~Tick => x <= y, Tick => x + 1 <= y
  PROVE  WasListed(n, l, y)'
  BY NodeAges DEF WasListed

Busy == {"lock", "probe", "store"}

HwKept(n) == hw[n].status # "none" => Was(n, hw[n].status, hw[n].age + MaxProbe)

Known(c, n) ==
  /\ task[c][n] = "lock" /\ lock[n] = None => WasListed(n, listed[c], 0) \/ JustStored(n)
  /\ task[c][n] = "probe" => WasListed(n, listed[c], spent[c][n])
  /\ task[c][n] = "store" => Was(n, got[c][n], spent[c][n])

Knows == (\A n \in Nodes : HwKept(n)) /\ \A c \in Callers, n \in Nodes : Known(c, n)

SameTask(d, n) ==
  /\ task'[d][n] = task[d][n] /\ got'[d][n] = got[d][n] /\ spent'[d][n] = spent[d][n]
  /\ listed'[d] = listed[d]

\* What is known of a node stays known for a goroutine that does not move.
LEMMA KnownStays ==
  ASSUME Typed, Current, [Next]_vars, ~Tick, NEW d \in Callers, NEW n \in Nodes,
         Known(d, n), SameTask(d, n), spent[d][n] \in Nat,
         lock'[n] = None => JustStored(n)' \/ (lock[n] = None /\ hw'[n] = hw[n])
  PROVE  Known(d, n)'
  <1>1. PICK l, x, s : l = listed[d] /\ x = spent[d][n] /\ s = got[d][n]
    OBVIOUS
  <1>2. task[d][n] = "probe" => WasListed(n, l, x)'
    BY <1>1, ListedLater DEF Known
  <1>3. task[d][n] = "store" => Was(n, s, x)'
    BY <1>1, WasLater DEF Known
  <1>4. WasListed(n, l, 0) => WasListed(n, l, 0)'
    BY ListedLater
  <1>5. task'[d][n] = "lock" /\ lock'[n] = None => WasListed(n, l, 0)' \/ JustStored(n)'
    BY <1>1, <1>4 DEF Known, SameTask, JustStored
  <1>6. QED
    BY <1>1, <1>2, <1>3, <1>5 DEF Known, SameTask, WasListed, Was

LEMMA KeptStays ==
  ASSUME Typed, Current, [Next]_vars, ~Tick, NEW n \in Nodes, HwKept(n), hw'[n] = hw[n], hw[n].age \in Nat
  PROVE  HwKept(n)'
  <1>1. PICK s, x : s = hw[n].status /\ x = hw[n].age + MaxProbe
    OBVIOUS
  <1>2. x \in Nat
    BY <1>1, Numbers
  <1>3. s # "none" => Was(n, s, x)'
    BY <1>1, <1>2, WasLater DEF HwKept
  <1>4. QED
    BY <1>1, <1>3 DEF HwKept, Was

\* What a probe finds is so, or was when the nodes were listed.
LEMMA ProbeKnows ==
  ASSUME Typed, Current, [Next]_vars, focus = "nodes", ~Tick, NEW c \in Callers, NEW n \in Nodes, Probe(c, n),
         NEW x \in Nat, WasListed(n, listed[c], x), NEW s, s = got'[c][n]
  PROVE  Was(n, s, x)'
  <1>1. PICK l : l = listed[c]
    OBVIOUS
  <1>2. WasListed(n, l, x)'
    BY <1>1, ListedLater
  <1>3. UNCHANGED <<focus, srcVars>>
    BY SourceTypes, ProbeMoves
  <1>4. /\ node[n] # "notReady" => last'.ready[n] = 0
        /\ node[n] # "nicDown" => last'.nic[n] = 0
        /\ node[n] # "up" => last'.bad[n] = 0
    BY <1>3, Aged DEF Current, srcVars
  <1>5. node[n] \in {"up", "nicDown", "notReady"}
    BY DEF Typed, TypeOK
  <1>6. \/ got'[c][n] \in Probed(c, n)
        \/ got'[c][n] = "offline" /\ Observe(FALSE, {n})
    BY <1>3, ProbeMoves
  <1>8. CASE s \in Probed(c, n)
    <2>1. CASE n \notin l
      BY <1>1, <1>2, <1>8, <2>1 DEF Probed, WasListed, Was
    <2>2. CASE n \in l
      <3>1. last'.ready[n] <= x
        BY <1>2, <2>2 DEF WasListed
      <3>2. CASE node[n] = "up"
        BY <1>1, <1>4, <1>8, <2>2, <3>1, <3>2 DEF Probed, Was
      <3>3. CASE node[n] = "nicDown"
        BY <1>1, <1>4, <1>8, <2>2, <3>1, <3>3 DEF Probed, Was
      <3>4. CASE node[n] = "notReady"
        BY <1>1, <1>4, <1>8, <2>2, <3>1, <3>4 DEF Probed, Was
      <3>5. QED
        BY <1>5, <3>2, <3>3, <3>4
    <2>3. QED
      BY <2>1, <2>2
  <1>9. CASE s = "offline" /\ Observe(FALSE, {n})
    <2>1. last \in Lasts
      BY DEF Typed
    <2>2. last'.bad = [m \in Nodes |-> Since(node'[m] # "up" \/ m \in {n}, last.bad[m], FALSE)]
      BY <1>9, <2>1 DEF Observe, Lasts
    <2>3. last'.bad[n] = 0
      BY <2>2 DEF Since
    <2>4. QED
      BY <1>9, <2>3 DEF Was
  <1>10. QED
    BY <1>6, <1>8, <1>9

LEMMA ProbingStep ==
  ASSUME Typed, Placed, Current, Probing, [Next]_vars
  PROVE  Probing'
  <1>1. UNCHANGED focus /\ CallerTypes /\ HwType /\ LockType
    BY SourceTypes, TypeFacts DEF HwType, LockType, Locks
  <1>2. MaxProbe \in Nat /\ HwTTL \in Nat /\ Ages \subseteq Nat /\ 0 \in Ages /\ None \notin Callers
    BY Numbers DEF Ages
  <1>3. SUFFICES ASSUME focus = "nodes", Knows PROVE Knows'
    BY <1>1 DEF Probing, Knows, Known, HwKept
  <1>4. /\ \A n \in Nodes : HwKept(n) /\ hw[n].age \in Nat
        /\ \A c \in Callers, n \in Nodes : /\ Known(c, n) /\ got[c][n] \in Status
                                           /\ spent[c][n] \in Nat /\ spent[c][n] <= MaxProbe
    <2>1. \A n \in Nodes : hw[n].age \in Ages
      BY <1>1 DEF HwType
    <2>2. \A c \in Callers : spent[c] \in [Nodes \cup {None} -> 0..MaxProbe] /\ got[c] \in [Nodes -> Status]
      BY <1>1 DEF CallerTypes
    <2>3. \A c \in Callers, n \in Nodes : spent[c][n] \in 0..MaxProbe /\ got[c][n] \in Status
      BY <2>2
    <2>4. \A c \in Callers, n \in Nodes : spent[c][n] \in Nat /\ spent[c][n] <= MaxProbe
      BY <1>2, <2>3
    <2>5. \A n \in Nodes : hw[n].age \in Nat
      BY <1>2, <2>1
    <2>6. QED
      BY <1>3, <2>3, <2>4, <2>5 DEF Knows
  <1>5. ASSUME NEW d \in Callers, NEW n \in Nodes, task'[d][n] \notin Busy PROVE Known(d, n)'
    BY <1>5 DEF Known, Busy
  <1>6. CASE ~Tick
    <2>1. ASSUME NEW n \in Nodes, hw'[n] = hw[n] PROVE HwKept(n)'
      BY <1>4, <1>6, <2>1, KeptStays
    <2>2. ASSUME NEW d \in Callers, NEW n \in Nodes, SameTask(d, n),
                 lock'[n] = None => JustStored(n)' \/ (lock[n] = None /\ hw'[n] = hw[n])
          PROVE  Known(d, n)'
      BY <1>4, <1>6, <2>2, KnownStays
    <2>3. ASSUME UNCHANGED <<hw, lock>>,
                 \A d \in Callers, n \in Nodes : SameTask(d, n) \/ task'[d][n] \notin Busy
          PROVE  Knows'
      BY <1>5, <2>1, <2>2, <2>3 DEF Knows
    <2>4. ASSUME NEW c \in Callers, Mains(c) PROVE Knows'
      <3>1. UNCHANGED <<hw, lock>> /\ Only(c) /\ (task'[c] = NoTasks \/ UNCHANGED taskVars)
        BY <2>4, MainMoves
      <3>2. \A n \in Nodes : task[c][n] \notin Busy
        BY <2>4, MainMoves DEF Placed, Busy
      <3>3. \A n \in Nodes : task'[c][n] \notin Busy
        BY <3>1, <3>2 DEF NoTasks, taskVars, Busy
      <3>4. QED
        BY <2>3, <3>1, <3>3 DEF Only, Stays, SameTask
    <2>5. ASSUME NEW c \in Callers, List(c) PROVE Knows'
      <3>1. UNCHANGED <<hw, lock, srcVars>> /\ Only(c)
        BY <1>1, <2>5, ListMoves DEF cacheVars
      <3>2. \/ task'[c] = NoTasks
            \/ /\ task'[c] = [n \in Nodes |-> "lock"]
               /\ listed'[c] = {n \in Nodes : node[n] # "notReady"}
        BY <1>1, <1>3, <2>5, ListMoves
      <3>3. \A n \in Nodes : /\ node[n] # "notReady" => last'.ready[n] = 0
                             /\ node[n] # "up" => last'.bad[n] = 0
        BY <1>1, <1>3, <3>1, Aged DEF Current, srcVars
      <3>4. ASSUME NEW n \in Nodes PROVE Known(c, n)'
        <4>1. CASE task'[c] = NoTasks
          BY <1>5, <4>1 DEF NoTasks, Busy
        <4>2. CASE /\ task'[c] = [m \in Nodes |-> "lock"]
                   /\ listed'[c] = {m \in Nodes : node[m] # "notReady"}
          <5>1. WasListed(n, listed[c], 0)'
            BY <3>3, <4>2 DEF WasListed
          <5>2. QED
            BY <4>2, <5>1 DEF Known
        <4>3. QED
          BY <3>2, <4>1, <4>2
      <3>5. QED
        BY <2>1, <2>2, <3>1, <3>4 DEF Only, Stays, SameTask, Knows
    <2>6. ASSUME NEW c \in Callers, NEW n \in Nodes, NEW l \in {"probe", "store", "done"}, Goes(c, n, l)
          PROVE  \A d \in Callers, m \in Nodes : d # c \/ m # n => SameTask(d, m)
      <3>1. task'[c] = [task[c] EXCEPT ![n] = l] /\ UNCHANGED listed /\ task[c] \in [Nodes -> Busy \cup {"idle", "done"}]
        BY <1>1, <2>6 DEF Goes, CallerTypes, Busy
      <3>2. \A m \in Nodes \ {n} : task'[c][m] = task[c][m]
        BY <3>1
      <3>3. QED
        BY <2>6, <3>1, <3>2 DEF Goes, Only, Stays, SameTask
    <2>7. ASSUME NEW c \in Callers, NEW n \in Nodes, Lookup(c, n) PROVE Knows'
      <3>1. CASE Goes(c, n, "done") /\ UNCHANGED <<hw, lock>>
        <4>1. task'[c][n] \notin Busy
          <5>1. task'[c] = [task[c] EXCEPT ![n] = "done"] /\ n \in DOMAIN task[c]
            BY <1>1, <3>1 DEF Goes, CallerTypes
          <5>2. QED
            BY <5>1 DEF Busy
        <4>2. QED
          BY <2>3, <2>6, <3>1, <4>1
      <3>2. CASE /\ Goes(c, n, "probe") /\ UNCHANGED <<spent, got>>
                 /\ ~(hw[n].status # "none" /\ hw[n].age <= HwTTL)
                 /\ hw' = [hw EXCEPT ![n] = NoStatus] /\ lock' = [lock EXCEPT ![n] = c]
        <4>1. /\ hw'[n] = NoStatus /\ \A m \in Nodes \ {n} : hw'[m] = hw[m]
              /\ lock'[n] = c /\ \A m \in Nodes \ {n} : lock'[m] = lock[m]
          BY <1>1, <3>2 DEF HwType, LockType
        <4>2. HwKept(n)'
          BY <4>1 DEF HwKept, NoStatus
        <4>3. Known(c, n)'
          <5>1. task'[c][n] = "probe" /\ listed'[c] = listed[c] /\ spent'[c][n] = spent[c][n]
            <6>1. task'[c] = [task[c] EXCEPT ![n] = "probe"] /\ n \in DOMAIN task[c] /\ UNCHANGED listed
              BY <1>1, <3>2 DEF Goes, CallerTypes
            <6>2. QED
              BY <3>2, <6>1
          <5>2. task[c][n] = "lock" /\ lock[n] = None
            BY <1>1, <2>7, LookupMoves
          <5>3. WasListed(n, listed[c], 0)
            BY <1>2, <1>4, <3>2, <5>2 DEF Known, JustStored
          <5>4. PICK L, x : L = listed[c] /\ x = spent[c][n]
            OBVIOUS
          <5>5. WasListed(n, L, x)'
            BY <1>4, <1>6, <5>3, <5>4, ListedLater
          <5>6. QED
            BY <5>1, <5>4, <5>5 DEF Known, WasListed
        <4>4. ASSUME NEW d \in Callers, NEW m \in Nodes PROVE Known(d, m)'
          BY <1>2, <2>2, <2>6, <3>2, <4>1, <4>3
        <4>5. QED
          BY <2>1, <4>1, <4>2, <4>4 DEF Knows
      <3>3. QED
        BY <1>1, <2>7, <3>1, <3>2, LookupMoves
    <2>8. ASSUME NEW c \in Callers, NEW n \in Nodes, Probe(c, n) PROVE Knows'
      <3>1. task[c][n] = "probe" /\ Goes(c, n, "store") /\ UNCHANGED <<hw, lock, spent>>
        BY <1>1, <2>8, ProbeMoves
      <3>2. Known(c, n)'
        <4>1. PICK x, s : x = spent[c][n] /\ s = got'[c][n]
          OBVIOUS
        <4>2. WasListed(n, listed[c], x) /\ x \in Nat
          BY <1>4, <3>1, <4>1 DEF Known
        <4>3. Was(n, s, x)'
          BY <1>3, <1>6, <2>8, <4>1, <4>2, ProbeKnows
        <4>4. task'[c][n] = "store"
          <5>1. task'[c] = [task[c] EXCEPT ![n] = "store"] /\ n \in DOMAIN task[c]
            BY <1>1, <3>1 DEF Goes, CallerTypes
          <5>2. QED
            BY <5>1
        <4>5. QED
          BY <3>1, <4>1, <4>3, <4>4 DEF Known, Was
      <3>3. QED
        BY <2>1, <2>2, <2>6, <3>1, <3>2 DEF Knows
    <2>9. ASSUME NEW c \in Callers, NEW n \in Nodes, Store(c, n) PROVE Knows'
      <3>1. /\ task[c][n] = "store" /\ Goes(c, n, "done") /\ UNCHANGED got /\ spent'[c][n] = 0
            /\ hw' = [hw EXCEPT ![n] = [status |-> got[c][n], age |-> 0]]
            /\ lock' = [lock EXCEPT ![n] = None]
        BY <1>1, <2>9, StoreMoves
      <3>2. /\ hw'[n] = [status |-> got[c][n], age |-> 0] /\ \A m \in Nodes \ {n} : hw'[m] = hw[m]
            /\ \A m \in Nodes \ {n} : lock'[m] = lock[m]
        BY <1>1, <3>1 DEF HwType, LockType
      <3>3. PICK x, s : x = spent[c][n] /\ s = got[c][n]
        OBVIOUS
      <3>4. Was(n, s, x) /\ x \in Nat /\ x <= MaxProbe
        BY <1>4, <3>1, <3>3 DEF Known
      <3>5. Was(n, s, MaxProbe)'
        BY <1>2, <1>6, <3>4, WasLater
      <3>6. HwKept(n)'
        <4>1. hw'[n].status = s /\ hw'[n].age + MaxProbe = MaxProbe
          BY <1>2, <3>2, <3>3
        <4>2. QED
          BY <3>5, <4>1 DEF HwKept, Was
      <3>7. JustStored(n)'
        <4>1. s # "none"
          BY <3>4 DEF Was
        <4>2. QED
          BY <3>2, <3>3, <4>1 DEF JustStored
      <3>8. Known(c, n)'
        <4>1. task'[c] = [task[c] EXCEPT ![n] = "done"] /\ n \in DOMAIN task[c]
          BY <1>1, <3>1 DEF Goes, CallerTypes
        <4>2. QED
          BY <1>5, <4>1 DEF Busy
      <3>9. ASSUME NEW d \in Callers, NEW m \in Nodes PROVE Known(d, m)'
        BY <2>2, <2>6, <3>1, <3>2, <3>7, <3>8
      <3>10. QED
        BY <2>1, <3>2, <3>6, <3>9 DEF Knows
    <2>10. ASSUME NEW c \in Callers, NEW o \in Ops, Call(c, o) PROVE Knows'
      BY <1>1, <2>3, <2>10, CallMoves DEF cacheVars, taskVars, SameTask
    <2>11. CASE Change \/ UNCHANGED vars
      BY <1>1, <2>3, <2>11, ChangeMoves DEF vars, cacheVars, taskVars, SameTask
    <2>12. CASE Restart
      <3>1. hw' = [n \in Nodes |-> NoStatus] /\ \A c \in Callers : task'[c] = NoTasks
        BY <1>1, <2>12, RestartMoves
      <3>2. \A n \in Nodes : HwKept(n)'
        BY <3>1 DEF HwKept, NoStatus
      <3>3. \A c \in Callers, n \in Nodes : Known(c, n)'
        BY <1>5, <3>1 DEF NoTasks, Busy
      <3>4. QED
        BY <3>2, <3>3 DEF Knows
    <2>13. QED
      BY <1>6, <2>4, <2>5, <2>7, <2>8, <2>9, <2>10, <2>11, <2>12, Kinds DEF Proceed, Mains
  <1>7. CASE Tick
    <2>1. /\ UNCHANGED <<task, listed, got, lock>>
          /\ \A c \in Callers, x \in Nodes \cup {None} :
               spent'[c][x] = IF x \in Lasting(c) THEN spent[c][x] + 1 ELSE spent[c][x]
          /\ hw' = [n \in Nodes |-> IF hw[n].status = "none" THEN hw[n]
                                    ELSE [hw[n] EXCEPT !.age = Older(hw[n].age)]]
      BY <1>1, <1>7, TickMoves
    <2>2. ASSUME NEW n \in Nodes PROVE HwKept(n)'
      <3>1. CASE hw[n].status = "none"
        BY <2>1, <3>1 DEF HwKept
      <3>2. CASE hw[n].status # "none"
        <4>1. hw'[n].status = hw[n].status /\ hw'[n].age = Older(hw[n].age)
          BY <1>1, <2>1, <3>2 DEF HwType
        <4>2. PICK s, x, y : s = hw[n].status /\ x = hw[n].age + MaxProbe /\ y = Older(hw[n].age) + MaxProbe
          OBVIOUS
        <4>3. Older(hw[n].age) = hw[n].age + 1 \/ Older(hw[n].age) = Far[focus]
          BY DEF Older
        <4>4. x \in Nat /\ y \in Nat /\ (x + 1 <= y \/ Far[focus] <= y)
          BY <1>2, <1>4, <4>2, <4>3, Numbers
        <4>5. Was(n, s, y)'
          BY <1>4, <1>7, <3>2, <4>2, <4>4, WasLater DEF HwKept
        <4>6. QED
          BY <4>1, <4>2, <4>5 DEF HwKept, Was
      <3>3. QED
        BY <3>1, <3>2
    <2>3. ASSUME NEW c \in Callers, NEW n \in Nodes PROVE Known(c, n)'
      <3>1. task[c][n] = "lock" => lock[n] # None
        BY <1>7 DEF Tick, Settled
      <3>2. PICK s, l, x, y : s = got[c][n] /\ l = listed[c] /\ x = spent[c][n] /\ y = spent[c][n] + 1
        OBVIOUS
      <3>3. x \in Nat /\ y \in Nat /\ x + 1 <= y
        BY <1>4, <3>2
      <3>4. task[c][n] \in {"probe", "store"} => spent'[c][n] = y
        BY <2>1, <3>2 DEF Lasting
      <3>5. task[c][n] = "probe" => WasListed(n, l, y)'
        BY <1>4, <1>7, <3>2, <3>3, ListedLater DEF Known
      <3>6. task[c][n] = "store" => Was(n, s, y)'
        BY <1>4, <1>7, <3>2, <3>3, WasLater DEF Known
      <3>7. QED
        BY <2>1, <3>1, <3>2, <3>4, <3>5, <3>6 DEF Known, WasListed, Was
    <2>4. QED
      BY <2>2, <2>3 DEF Knows
  <1>8. QED
    BY <1>6, <1>7

LEMMA SpentTypes ==
  ASSUME Typed, NEW c \in Callers, NEW x \in Nodes \cup {None}
  PROVE  spent[c][x] \in Nat /\ spent[c][x] <= MaxProbe
  <1>1. CallerTypes /\ MaxProbe \in Nat
    BY TypeFacts, Numbers
  <1>2. spent[c] \in [Nodes \cup {None} -> 0..MaxProbe]
    BY <1>1 DEF CallerTypes
  <1>3. spent[c][x] \in 0..MaxProbe
    BY <1>2
  <1>4. QED
    BY <1>1, <1>3

\* What a call has of a node while it waits for the others.
Waited(c, n) ==
  /\ Was(n, got[c][n], HwTTL + 2 * MaxProbe)
  /\ \A m \in Nodes : task[c][m] \in Busy =>
       IF lock[m] = None THEN Was(n, got[c][n], HwTTL + MaxProbe) \/ JustStored(m)
       ELSE Was(n, got[c][n], HwTTL + MaxProbe + spent[lock[m]][m])

Answer(c, n) ==
  /\ at[c] = "join" /\ task[c][n] = "done" => Waited(c, n)
  /\ at[c] \in {"conf", "take"} => Was(n, got[c][n], HwTTL + 2 * MaxProbe)
  /\ at[c] \in {"load", "value"} => Was(n, got[c][n], HwTTL + 2 * MaxProbe + spent[c][None])
  /\ at[c] \in {"inited", "stamp", "affinity"} => Was(n, got[c][n], HwAge)

\* A status that is fresh, or has just been found, serves the call it is for.
LEMMA WaitedAnew ==
  ASSUME Typed, Placed, Current, [Next]_vars, NEW c \in Callers, NEW n \in Nodes,
         NEW s, s = got'[c][n], Was(n, s, HwTTL + MaxProbe)'
  PROVE  Waited(c, n)'
  <1>1. MaxProbe \in Nat /\ HwTTL \in Nat
    BY Numbers
  <1>2. PICK x, y : x = HwTTL + MaxProbe /\ y = HwTTL + 2 * MaxProbe
    OBVIOUS
  <1>3. x \in Nat /\ y \in Nat /\ x <= y
    BY <1>1, <1>2
  <1>4. ASSUME NEW k \in Nat, x <= k PROVE Was(n, s, k)'
    BY <1>2, <1>3, <1>4, NodeAges DEF Was
  <1>5. ASSUME NEW m \in Nodes, lock'[m] # None
        PROVE  Was(n, s, HwTTL + MaxProbe + spent[lock[m]][m])'
    <2>1. lock'[m] \in Callers /\ CallerTypes'
      BY <1>5, HardwareStep, CallersStep DEF LockType
    <2>2. spent'[lock'[m]] \in [Nodes \cup {None} -> 0..MaxProbe]
      BY <2>1 DEF CallerTypes
    <2>3. spent'[lock'[m]][m] \in Nat
      BY <1>1, <2>2
    <2>4. PICK z : z = HwTTL + MaxProbe + spent'[lock'[m]][m]
      OBVIOUS
    <2>5. z \in Nat /\ x <= z
      BY <1>1, <1>2, <2>3, <2>4
    <2>6. Was(n, s, z)'
      BY <1>4, <2>5
    <2>7. QED
      BY <1>1, <2>4, <2>6 DEF Was
  <1>6. Was(n, s, x)' /\ Was(n, s, y)'
    BY <1>3, <1>4
  <1>7. QED
    BY <1>2, <1>5, <1>6 DEF Waited, Was

\* A step without time, that leaves the goroutines that work on nodes where they are.
LEMMA AnswerStays ==
  ASSUME Typed, Current, [Next]_vars, ~Tick, NEW c \in Callers, NEW n \in Nodes, Answer(c, n),
         Rests(c), got'[c][n] = got[c][n], task'[c][n] = "done" => task[c][n] = "done",
         \A m \in Nodes : task'[c][m] \in Busy =>
           /\ task[c][m] \in Busy
           /\ \/ lock'[m] = None /\ JustStored(m)'
              \/ lock'[m] = lock[m] /\ hw'[m] = hw[m] /\ (lock[m] # None => spent'[lock[m]][m] = spent[lock[m]][m])
              \/ lock[m] = None /\ ~JustStored(m) /\ lock'[m] \in Callers /\ spent'[lock'[m]][m] \in Nat
  PROVE  Answer(c, n)'
  <1>1. MaxProbe \in Nat /\ HwTTL \in Nat /\ None \notin Callers
    BY Numbers
  <1>2. PICK s, x, y, z : /\ s = got[c][n] /\ x = HwTTL + MaxProbe /\ y = HwTTL + 2 * MaxProbe
                          /\ z = HwTTL + 2 * MaxProbe + spent[c][None]
    OBVIOUS
  <1>3. spent[c][None] \in Nat
    BY SpentTypes
  <1>4. x \in Nat /\ y \in Nat /\ z \in Nat /\ HwAge \in Nat
    BY <1>1, <1>2, <1>3 DEF HwAge
  <1>5. ASSUME NEW k \in Nat, Was(n, s, k) PROVE Was(n, s, k)'
    BY <1>5, WasLater
  <1>6. /\ at[c] \in {"conf", "take"} => Was(n, s, y)'
        /\ at[c] \in {"load", "value"} => Was(n, s, z)'
        /\ at[c] \in {"inited", "stamp", "affinity"} => Was(n, s, HwAge)'
    BY <1>2, <1>4, <1>5 DEF Answer
  <1>7. ASSUME at[c] = "join", task'[c][n] = "done" PROVE Waited(c, n)'
    <2>1. Waited(c, n)
      BY <1>7 DEF Answer
    <2>2. Was(n, s, y)'
      BY <1>2, <1>4, <1>5, <2>1 DEF Waited
    <2>3. ASSUME NEW m \in Nodes, task'[c][m] \in Busy
          PROVE  (IF lock[m] = None THEN Was(n, got[c][n], HwTTL + MaxProbe) \/ JustStored(m)
                  ELSE Was(n, got[c][n], HwTTL + MaxProbe + spent[lock[m]][m]))'
      <3>1. IF lock[m] = None THEN Was(n, s, x) \/ JustStored(m)
            ELSE Was(n, s, HwTTL + MaxProbe + spent[lock[m]][m])
        BY <1>2, <2>1, <2>3 DEF Waited
      <3>2. CASE lock'[m] = None /\ JustStored(m)'
        BY <3>2
      <3>3. CASE lock'[m] = None /\ lock[m] = None /\ hw'[m] = hw[m]
        <4>1. Was(n, s, x)' \/ JustStored(m)'
          BY <1>4, <1>5, <3>1, <3>3 DEF JustStored
        <4>2. QED
          BY <1>2, <3>3, <4>1 DEF Was
      <3>4. CASE lock[m] # None /\ lock'[m] = lock[m] /\ spent'[lock[m]][m] = spent[lock[m]][m]
        <4>1. PICK d \in Callers : d = lock[m]
          BY <3>4, TypeFacts
        <4>2. PICK k : k = HwTTL + MaxProbe + spent[d][m]
          OBVIOUS
        <4>3. spent[d][m] \in Nat
          BY SpentTypes
        <4>4. k \in Nat
          BY <1>1, <4>2, <4>3
        <4>5. Was(n, s, k)'
          BY <1>5, <3>1, <3>4, <4>1, <4>2, <4>4
        <4>6. QED
          BY <1>2, <3>4, <4>1, <4>2, <4>5 DEF Was
      <3>5. CASE lock[m] = None /\ ~JustStored(m) /\ lock'[m] \in Callers /\ spent'[lock'[m]][m] \in Nat
        <4>1. Was(n, s, x)
          BY <3>1, <3>5
        <4>2. PICK k : k = HwTTL + MaxProbe + spent'[lock'[m]][m]
          OBVIOUS
        <4>3. k \in Nat /\ x <= k
          BY <1>1, <1>2, <3>5, <4>2
        <4>4. Was(n, s, k)'
          BY <1>4, <4>1, <4>3, WasLater
        <4>5. QED
          BY <1>1, <1>2, <3>5, <4>2, <4>4 DEF Was
      <3>6. QED
        BY <2>3, <3>2, <3>3, <3>4, <3>5
    <2>4. QED
      BY <1>2, <2>2, <2>3 DEF Waited, Was
  <1>8. QED
    BY <1>2, <1>6, <1>7 DEF Answer, Rests, Was

LEMMA AnsweredStep ==
  ASSUME Typed, Placed, Current, Probing, Answered, [Next]_vars
  PROVE  Answered'
  <1>1. UNCHANGED focus /\ CallerTypes /\ HwType /\ LockType
    BY SourceTypes, TypeFacts DEF HwType, LockType, Locks
  <1>2. MaxProbe \in Nat /\ HwTTL \in Nat /\ HwAge \in Nat /\ None \notin Callers /\ None \notin Nodes
    BY Numbers DEF HwAge
  <1>3. SUFFICES ASSUME focus = "nodes", Knows, \A c \in Callers, n \in Nodes : Answer(c, n)
                 PROVE  \A c \in Callers, n \in Nodes : Answer(c, n)'
    BY <1>1 DEF Probing, Knows, Known, HwKept, Answered, Answer, Waited, Busy
  <1>4. \A n \in Nodes : hw[n].age \in Nat
    <2>1. \A n \in Nodes : hw[n].age \in Ages
      BY <1>1 DEF HwType
    <2>2. QED
      BY <2>1, Numbers
  <1>5. ASSUME NEW d \in Callers, NEW n \in Nodes, at'[d] \in {"idle", "list"} PROVE Answer(d, n)'
    BY <1>5 DEF Answer
  <1>6. CASE ~Tick
    \* A caller that does not move, while nothing happens to the locks.
    <2>1. ASSUME NEW d \in Callers, Rests(d), task'[d] = task[d], got'[d] = got[d], UNCHANGED <<hw, lock>>,
                 \A m \in Nodes : lock[m] # None => spent'[lock[m]][m] = spent[lock[m]][m]
          PROVE  \A n \in Nodes : Answer(d, n)'
      BY <1>3, <1>6, <2>1, AnswerStays
    <2>2. ASSUME UNCHANGED <<at, read, task, got, spent, hw, lock>>
          PROVE  \A c \in Callers, n \in Nodes : Answer(c, n)'
      BY <2>1, <2>2 DEF Rests
    <2>3. ASSUME NEW c \in Callers, Only(c), UNCHANGED <<hw, lock>>, \A n \in Nodes : task[c][n] \notin {"probe", "store"},
                 \A n \in Nodes : Answer(c, n)'
          PROVE  \A d \in Callers, n \in Nodes : Answer(d, n)'
      <3>1. \A m \in Nodes : lock[m] # None => lock[m] \in Callers \ {c}
        BY <1>1, <2>3 DEF LockType, Locks
      <3>2. QED
        BY <2>1, <2>3, <3>1 DEF Only, Stays, Rests
    <2>4. ASSUME NEW c \in Callers, Mains(c) PROVE \A d \in Callers, n \in Nodes : Answer(d, n)'
      <3>1. /\ Only(c) /\ UNCHANGED <<hw, lock>> /\ \A n \in Nodes : task[c][n] \notin Busy
            /\ at'[c] = "idle" \/ UNCHANGED taskVars
        BY <2>4, MainMoves DEF Placed, Busy
      <3>2. Path(c) /\ (at[c] = "join" => \A n \in Nodes : task[c][n] = "done")
        BY <2>4, Paths, MainMoves
      <3>3. ASSUME NEW n \in Nodes PROVE Answer(c, n)'
        <4>1. CASE at'[c] = "idle"
          BY <1>5, <4>1
        <4>2. CASE at'[c] # "idle"
          <5>1. PICK s, x, y : /\ s = got[c][n] /\ x = HwTTL + 2 * MaxProbe
                               /\ y = HwTTL + 2 * MaxProbe + spent[c][None]
            OBVIOUS
          <5>2. got'[c][n] = s
            BY <3>1, <4>2, <5>1 DEF taskVars
          <5>3. x \in Nat /\ y \in Nat /\ x <= y /\ y <= HwAge /\ x <= HwAge
            BY <1>2, <5>1, SpentTypes DEF HwAge
          <5>4. /\ at[c] \in {"join", "conf", "take"} => Was(n, s, x)
                /\ at[c] \in {"load", "value"} => Was(n, s, y)
                /\ at[c] \in {"inited", "stamp"} => Was(n, s, HwAge)
            BY <1>3, <3>2, <5>1 DEF Answer, Waited
          <5>5. ASSUME NEW k \in Nat, NEW j \in Nat, Was(n, s, k), k <= j PROVE Was(n, s, j)'
            BY <1>6, <5>5, WasLater
          <5>6. /\ at'[c] \in {"conf", "take"} => Was(n, s, x)'
                /\ at'[c] \in {"load", "value"} => Was(n, s, y)' /\ UNCHANGED spent
                /\ at'[c] \in {"inited", "stamp", "affinity"} => Was(n, s, HwAge)'
                /\ at'[c] # "join"
            <6>1. CASE at[c] \in {"join", "conf", "take"}
              BY <1>2, <3>2, <4>2, <5>3, <5>4, <5>5, <6>1 DEF Path
            <6>2. CASE at[c] \in {"load", "value"}
              BY <1>2, <3>2, <4>2, <5>3, <5>4, <5>5, <6>2 DEF Path
            <6>3. CASE at[c] \in {"inited", "stamp"}
              BY <1>2, <3>2, <4>2, <5>3, <5>4, <5>5, <6>3 DEF Path
            <6>4. CASE at[c] \notin {"join", "conf", "take", "load", "value", "inited", "stamp"}
              BY <3>2, <4>2, <6>4 DEF Path
            <6>5. QED
              BY <6>1, <6>2, <6>3, <6>4
          <5>7. QED
            BY <5>1, <5>2, <5>6 DEF Answer, Was, HwAge
        <4>3. QED
          BY <4>1, <4>2
      <3>4. QED
        BY <2>3, <3>1, <3>3 DEF Busy
    <2>5. ASSUME NEW c \in Callers, List(c) PROVE \A d \in Callers, n \in Nodes : Answer(d, n)'
      <3>1. /\ at[c] = "list" /\ Only(c) /\ UNCHANGED <<hw, lock>>
            /\ \/ at'[c] = "idle"
               \/ at'[c] = "join" /\ task'[c] = [n \in Nodes |-> "lock"]
        BY <1>1, <1>3, <2>5, ListMoves DEF cacheVars
      <3>2. \A n \in Nodes : task[c][n] \notin {"probe", "store"}
        BY <3>1 DEF Placed
      <3>3. \A n \in Nodes : Answer(c, n)'
        BY <3>1 DEF Answer
      <3>4. QED
        BY <2>3, <3>1, <3>2, <3>3
    <2>6. ASSUME NEW c \in Callers, NEW o \in Ops, Call(c, o) PROVE \A d \in Callers, n \in Nodes : Answer(d, n)'
      <3>1. /\ at[c] = "idle" /\ Only(c) /\ UNCHANGED <<hw, lock, task>> /\ at'[c] = "list"
        BY <1>1, <1>3, <2>6, CallMoves DEF cacheVars, taskVars
      <3>2. \A n \in Nodes : task[c][n] \notin {"probe", "store"}
        BY <3>1 DEF Placed
      <3>3. QED
        BY <1>5, <2>3, <3>1, <3>2
    \* A goroutine moves: the other nodes and callers stay as they are.
    <2>7. ASSUME NEW c \in Callers, NEW n \in Nodes, NEW l \in {"probe", "store", "done"}, Goes(c, n, l),
                 task[c][n] \in Busy, lock[n] \in {None, c},
                 \A m \in Nodes \ {n} : hw'[m] = hw[m] /\ lock'[m] = lock[m]
          PROVE  /\ \A d \in Callers : Rests(d)
                 /\ \A d \in Callers, m \in Nodes :
                      d # c \/ m # n => task'[d][m] = task[d][m] /\ got'[d][m] = got[d][m] /\ spent'[d][m] = spent[d][m]
                 /\ \A m \in Nodes \ {n} : lock[m] # None => spent'[lock[m]][m] = spent[lock[m]][m]
                 /\ task'[c][n] = l /\ at[c] = "join"
      <3>1. task'[c] = [task[c] EXCEPT ![n] = l] /\ task[c] \in [Nodes -> Busy \cup {"idle", "done"}]
        BY <1>1, <2>7 DEF Goes, CallerTypes, Busy
      <3>2. \A d \in Callers : Rests(d)
        BY <2>7 DEF Goes, Only, Stays, Rests, mainVars
      <3>3. ASSUME NEW d \in Callers, NEW m \in Nodes, d # c \/ m # n
            PROVE  task'[d][m] = task[d][m] /\ got'[d][m] = got[d][m] /\ spent'[d][m] = spent[d][m]
        BY <2>7, <3>1, <3>3 DEF Goes, Only, Stays
      <3>4. \A m \in Nodes \ {n} : lock[m] # None => spent'[lock[m]][m] = spent[lock[m]][m]
        BY <1>1, <3>3 DEF LockType
      <3>5. task'[c][n] = l
        BY <3>1
      <3>6. at[c] = "join"
        BY <2>7 DEF Placed, Busy
      <3>7. QED
        BY <3>2, <3>3, <3>4, <3>5, <3>6
    <2>8. ASSUME NEW c \in Callers, NEW n \in Nodes, NEW s, s = got'[c][n], NEW k \in Nat, k <= HwTTL + MaxProbe,
                 Was(n, s, k), Rests(c), at[c] = "join"
          PROVE  Answer(c, n)'
      <3>1. PICK x : x = HwTTL + MaxProbe
        OBVIOUS
      <3>2. Was(n, s, x)'
        BY <1>2, <1>6, <2>8, <3>1, WasLater
      <3>3. Waited(c, n)'
        BY <2>8, <3>1, <3>2, WaitedAnew
      <3>4. QED
        BY <2>8, <3>3 DEF Answer, Rests
    <2>9. ASSUME NEW c \in Callers, NEW n \in Nodes, Lookup(c, n) \/ Probe(c, n) \/ Store(c, n)
          PROVE  \A d \in Callers, m \in Nodes : Answer(d, m)'
      <3>1. CASE /\ task[c][n] = "lock" /\ lock[n] = None
                 /\ Goes(c, n, "done") /\ UNCHANGED <<hw, lock, spent>>
                 /\ hw[n].status # "none" /\ hw[n].age <= HwTTL /\ got'[c][n] = hw[n].status
        <4>1. /\ \A d \in Callers : Rests(d)
              /\ \A d \in Callers, m \in Nodes :
                   d # c \/ m # n => task'[d][m] = task[d][m] /\ got'[d][m] = got[d][m] /\ spent'[d][m] = spent[d][m]
              /\ task'[c][n] = "done" /\ at[c] = "join"
          BY <2>7, <3>1 DEF Busy
        <4>2. Answer(c, n)'
          <5>1. PICK s, k : s = got'[c][n] /\ k = hw[n].age + MaxProbe
            OBVIOUS
          <5>2. Was(n, s, k) /\ k \in Nat /\ k <= HwTTL + MaxProbe
            BY <1>2, <1>3, <1>4, <3>1, <5>1 DEF Knows, HwKept
          <5>3. QED
            BY <2>8, <4>1, <5>1, <5>2
        <4>3. ASSUME NEW d \in Callers, NEW m \in Nodes, d # c \/ m # n PROVE Answer(d, m)'
          <5>1. \A q \in Nodes : task'[d][q] \in Busy => task[d][q] \in Busy
            BY <4>1 DEF Busy
          <5>2. QED
            BY <1>3, <1>6, <3>1, <4>1, <4>3, <5>1, AnswerStays
        <4>4. QED
          BY <4>2, <4>3
      <3>2. CASE /\ task[c][n] = "lock" /\ lock[n] = None
                 /\ Goes(c, n, "probe") /\ UNCHANGED <<spent, got>>
                 /\ ~(hw[n].status # "none" /\ hw[n].age <= HwTTL)
                 /\ hw' = [hw EXCEPT ![n] = NoStatus] /\ lock' = [lock EXCEPT ![n] = c]
        <4>1. /\ lock'[n] = c /\ \A m \in Nodes \ {n} : hw'[m] = hw[m] /\ lock'[m] = lock[m]
          BY <1>1, <3>2 DEF HwType, LockType
        <4>2. /\ \A d \in Callers : Rests(d)
              /\ \A d \in Callers, m \in Nodes : d # c \/ m # n => task'[d][m] = task[d][m]
              /\ task'[c][n] = "probe"
          BY <2>7, <3>2, <4>1 DEF Busy
        <4>3. ~JustStored(n) /\ spent'[c][n] \in Nat
          BY <1>2, <3>2, SpentTypes DEF JustStored
        <4>4. ASSUME NEW d \in Callers, NEW m \in Nodes PROVE Answer(d, m)'
          <5>1. \A q \in Nodes : task'[d][q] \in Busy => task[d][q] \in Busy
            BY <3>2, <4>2 DEF Busy
          <5>2. task'[d][m] = "done" => task[d][m] = "done"
            BY <4>2
          <5>3. QED
            BY <1>3, <1>6, <3>2, <4>1, <4>2, <4>3, <5>1, <5>2, AnswerStays
        <4>5. QED
          BY <4>4
      <3>3. CASE Probe(c, n)
        <4>1. task[c][n] = "probe" /\ Goes(c, n, "store") /\ UNCHANGED <<hw, lock, spent>>
          BY <1>1, <3>3, ProbeMoves
        <4>2. lock[n] = c
          BY <1>1, <4>1 DEF LockType, Locks
        <4>3. /\ \A d \in Callers : Rests(d)
              /\ \A d \in Callers, m \in Nodes :
                   d # c \/ m # n => task'[d][m] = task[d][m] /\ got'[d][m] = got[d][m]
              /\ task'[c][n] = "store" /\ at[c] = "join"
          BY <2>7, <4>1, <4>2 DEF Busy
        <4>4. Answer(c, n)'
          BY <4>3 DEF Answer, Rests
        <4>5. ASSUME NEW d \in Callers, NEW m \in Nodes, d # c \/ m # n PROVE Answer(d, m)'
          <5>1. \A q \in Nodes : task'[d][q] \in Busy => task[d][q] \in Busy
            BY <4>1, <4>3 DEF Busy
          <5>2. QED
            BY <1>3, <1>6, <4>1, <4>3, <4>5, <5>1, AnswerStays
        <4>6. QED
          BY <4>4, <4>5
      <3>4. CASE Store(c, n)
        <4>1. /\ task[c][n] = "store" /\ Goes(c, n, "done") /\ UNCHANGED got
              /\ hw' = [hw EXCEPT ![n] = [status |-> got[c][n], age |-> 0]]
              /\ lock' = [lock EXCEPT ![n] = None]
          BY <1>1, <3>4, StoreMoves
        <4>2. lock[n] = c
          BY <1>1, <4>1 DEF LockType, Locks
        <4>3. /\ hw'[n] = [status |-> got[c][n], age |-> 0] /\ lock'[n] = None
              /\ \A m \in Nodes \ {n} : hw'[m] = hw[m] /\ lock'[m] = lock[m]
          BY <1>1, <4>1 DEF HwType, LockType
        <4>4. /\ \A d \in Callers : Rests(d)
              /\ \A d \in Callers, m \in Nodes : d # c \/ m # n => task'[d][m] = task[d][m]
              /\ \A m \in Nodes \ {n} : lock[m] # None => spent'[lock[m]][m] = spent[lock[m]][m]
              /\ task'[c][n] = "done" /\ at[c] = "join"
          BY <2>7, <4>1, <4>2, <4>3 DEF Busy
        <4>5. PICK s, k : s = got[c][n] /\ k = spent[c][n]
          OBVIOUS
        <4>6. Was(n, s, k) /\ k \in Nat /\ k <= HwTTL + MaxProbe /\ s # "none"
          BY <1>2, <1>3, <4>1, <4>5, SpentTypes DEF Knows, Known, Was
        <4>7. JustStored(n)'
          BY <4>3, <4>5, <4>6 DEF JustStored
        <4>8. Answer(c, n)'
          BY <2>8, <4>1, <4>4, <4>5, <4>6
        <4>9. ASSUME NEW d \in Callers, NEW m \in Nodes, d # c \/ m # n PROVE Answer(d, m)'
          <5>1. \A q \in Nodes : task'[d][q] \in Busy => task[d][q] \in Busy
            BY <4>1, <4>4 DEF Busy
          <5>2. QED
            BY <1>3, <1>6, <4>1, <4>3, <4>4, <4>7, <4>9, <5>1, AnswerStays
        <4>10. QED
          BY <4>8, <4>9
      <3>5. QED
        BY <1>1, <2>9, <3>1, <3>2, <3>3, <3>4, LookupMoves
    <2>10. CASE Change \/ UNCHANGED vars
      BY <1>1, <2>2, <2>10, ChangeMoves DEF vars, cacheVars, taskVars, mainVars
    <2>11. CASE Restart
      BY <1>1, <1>5, <2>11, RestartMoves
    <2>12. QED
      BY <1>6, <2>4, <2>5, <2>6, <2>9, <2>10, <2>11, Kinds DEF Proceed, Mains
  <1>7. CASE Tick
    <2>1. /\ UNCHANGED <<at, task, got, lock>>
          /\ \A c \in Callers, x \in Nodes \cup {None} :
               spent'[c][x] = IF x \in Lasting(c) THEN spent[c][x] + 1 ELSE spent[c][x]
          /\ \A c \in Callers : \A x \in Lasting(c) : spent[c][x] < MaxProbe
      BY <1>1, <1>7, TickMoves
    <2>2. ASSUME NEW c \in Callers, NEW n \in Nodes PROVE Answer(c, n)'
      <3>1. at[c] \notin {"conf", "take", "inited", "stamp", "affinity"}
        BY <1>7 DEF Tick, Settled
      <3>2. CASE at[c] \in {"load", "value"}
        <4>1. spent'[c][None] = spent[c][None] + 1
          BY <2>1, <3>2 DEF Lasting
        <4>2. PICK s, x, y : /\ s = got[c][n] /\ x = HwTTL + 2 * MaxProbe + spent[c][None]
                             /\ y = HwTTL + 2 * MaxProbe + (spent[c][None] + 1)
          OBVIOUS
        <4>3. x \in Nat /\ y \in Nat /\ x + 1 <= y
          BY <1>2, <4>2, SpentTypes
        <4>4. Was(n, s, y)'
          BY <1>3, <1>7, <3>2, <4>2, <4>3, WasLater DEF Answer
        <4>5. QED
          BY <2>1, <3>2, <4>1, <4>2, <4>4 DEF Answer, Was
      <3>3. CASE at[c] = "join" /\ task[c][n] = "done"
        <4>1. Waited(c, n)
          BY <1>3, <3>3 DEF Answer
        \* Whom the caller waits for works on a node, or somebody else who holds its lock.
        <4>2. ASSUME NEW m \in Nodes, task[c][m] # "done"
              PROVE  /\ task[c][m] \in Busy /\ lock[m] \in Callers
                     /\ spent[lock[m]][m] < MaxProbe /\ spent'[lock[m]][m] = spent[lock[m]][m] + 1
                     /\ spent[lock[m]][m] \in Nat
          <5>1. task[c] \in [Nodes -> {"idle", "lock", "probe", "store", "done"}]
            BY <1>1 DEF CallerTypes
          <5>2. task[c][m] \in Busy
            BY <3>3, <4>2, <5>1 DEF Placed, Busy
          <5>3. lock[m] # None
            BY <1>1, <1>2, <1>7, <5>2 DEF Tick, Settled, LockType, Locks, Busy
          <5>4. PICK d \in Callers : d = lock[m]
            BY <1>1, <5>3 DEF LockType
          <5>5. task[d][m] \in {"probe", "store"}
            BY <1>1, <5>4 DEF LockType, Locks
          <5>6. m \in Lasting(d)
            BY <5>5 DEF Lasting
          <5>7. spent[d][m] < MaxProbe /\ spent'[d][m] = spent[d][m] + 1 /\ spent[d][m] \in Nat
            BY <2>1, <5>6, SpentTypes
          <5>8. QED
            BY <5>2, <5>4, <5>7
        <4>3. PICK s, y : s = got[c][n] /\ y = HwTTL + 2 * MaxProbe
          OBVIOUS
        <4>4. ASSUME NEW m \in Nodes, task[c][m] # "done"
              PROVE  /\ Was(n, s, y)'
                     /\ Was(n, got[c][n], HwTTL + MaxProbe + spent[lock[m]][m])'
          <5>1. PICK z, w : z = HwTTL + MaxProbe + spent[lock[m]][m] /\ w = HwTTL + MaxProbe + (spent[lock[m]][m] + 1)
            OBVIOUS
          <5>2. z \in Nat /\ w \in Nat /\ y \in Nat /\ z + 1 <= w /\ z + 1 <= y
            BY <1>2, <4>2, <4>3, <4>4, <5>1
          <5>3. Was(n, s, z)
            BY <1>2, <4>1, <4>2, <4>3, <4>4, <5>1 DEF Waited
          <5>4. Was(n, s, w)' /\ Was(n, s, y)'
            BY <1>7, <5>2, <5>3, WasLater
          <5>5. QED
            BY <2>1, <4>2, <4>3, <4>4, <5>1, <5>4 DEF Was
        <4>5. PICK m \in Nodes : task[c][m] # "done"
          BY <1>7, <3>3 DEF Tick, Settled
        <4>6. Waited(c, n)'
          <5>1. ASSUME NEW q \in Nodes, task'[c][q] \in Busy
                PROVE  lock'[q] # None /\ Was(n, got[c][n], HwTTL + MaxProbe + spent[lock[q]][q])'
            BY <1>2, <2>1, <4>2, <4>4, <5>1 DEF Busy
          <5>2. QED
            BY <2>1, <4>3, <4>4, <4>5, <5>1 DEF Waited, Was
        <4>7. QED
          BY <2>1, <3>3, <4>6 DEF Answer
      <3>4. QED
        BY <2>1, <3>1, <3>2, <3>3 DEF Answer
    <2>3. QED
      BY <2>2
  <1>8. QED
    BY <1>6, <1>7
-----------------------------------------------------------------------------
(***************************************************************************)
(* Theorems                                                                *)
(***************************************************************************)
LEMMA IndInvInit == Init => IndInv
  <1> SUFFICES ASSUME Init PROVE IndInv
    OBVIOUS
  <1>1. /\ focus \in Focuses /\ Far[focus] \in Nat /\ 0 \in Ages /\ Far[focus] \in Ages
        /\ MaxProbe \in Nat /\ MaxCalls[focus] \in Nat /\ MaxEvents[focus] \in Nat
        /\ None \notin Callers /\ FirstAddress \in [Nodes -> Addresses]
    BY ConstantsAssumption DEF Init, Ages
  <1>2. /\ node = [n \in Nodes |-> "up"] /\ hybrid = TRUE /\ address = FirstAddress
        /\ hw = [n \in Nodes |-> NoStatus] /\ lock = [n \in Nodes |-> None]
        /\ conf = NoConf /\ addrs = NoAddrs
        /\ call = [c \in Callers |-> NoCall] /\ at = [c \in Callers |-> "idle"]
        /\ task = [c \in Callers |-> NoTasks] /\ listed = [c \in Callers |-> {}]
        /\ got = [c \in Callers |-> [n \in Nodes |-> "none"]] /\ read = [c \in Callers |-> None]
        /\ spent = [c \in Callers |-> [x \in Nodes \cup {None} |-> 0]] /\ nCalls = 0 /\ nEvents = 0
    BY DEF Init
  <1>3. last = [ready  |-> [n \in Nodes |-> 0], nic |-> [n \in Nodes |-> 0],
                bad    |-> [n \in Nodes |-> Far[focus]],
                hybrid |-> [h \in BOOLEAN |-> IF h THEN 0 ELSE Far[focus]],
                client |-> [n \in Nodes |-> [a \in Addresses \cup {None} |->
                                              IF a = address[n] THEN 0 ELSE Far[focus]]]]
    BY DEF Init
  <1>4. last \in Lasts
    BY <1>1, <1>3 DEF Lasts
  <1>5. HwType /\ LockType
    <2>1. NoStatus \in [status : Status, age : Ages]
      BY <1>1 DEF NoStatus, Status
    <2>2. \A c \in Callers, n \in Nodes : task[c][n] = "idle"
      BY <1>2 DEF NoTasks
    <2>3. QED
      BY <1>1, <1>2, <2>1, <2>2 DEF HwType, LockType, Locks
  <1>6. ConfType /\ AddrType
    <2>1. ConfType
      BY <1>1, <1>2 DEF ConfType, NoConf
    <2>2. AddrType
      BY <1>1, <1>2 DEF AddrType, NoAddrs
    <2>3. QED
      BY <2>1, <2>2
  <1>7. Calls
    BY <1>2 DEF Calls
  <1>8. CallerTypes
    <2>1. NoTasks \in [Nodes -> {"idle", "lock", "probe", "store", "done"}]
      BY DEF NoTasks
    <2>2. spent \in [Callers -> [Nodes \cup {None} -> 0..MaxProbe]]
      BY <1>1, <1>2
    <2>3. QED
      BY <1>2, <2>1, <2>2 DEF CallerTypes, Places, Status
  <1>9. Typed
    <2>1. /\ node \in [Nodes -> {"up", "nicDown", "notReady"}] /\ hybrid \in BOOLEAN
          /\ address \in [Nodes -> Addresses \cup {None}]
          /\ nCalls \in 0..MaxCalls[focus] /\ nEvents \in 0..MaxEvents[focus]
      BY <1>1, <1>2
    <2>2. TypeOK
      BY <1>5, <1>6, <1>7, <1>8, <2>1
         DEF TypeOK, Calls, CallerTypes, HwType, LockType, Locks, ConfType, AddrType
    <2>3. QED
      BY <1>1, <1>4, <1>7, <2>2 DEF Typed, Calls
  <1>10. \A c \in Callers : at[c] = "idle" /\ \A n \in Nodes : task[c][n] = "idle"
    BY <1>2 DEF NoTasks
  <1>11. Placed
    BY <1>10 DEF Placed, AddrPlaces
  <1>12. Current
    <2>1. \A n \in Nodes : address[n] \in Addresses \cup {None}
      BY <1>1, <1>2
    <2>2. \A n \in Nodes : last.client[n][address[n]] = 0
      BY <1>3, <2>1
    <2>3. last.hybrid[hybrid] = 0
      BY <1>2, <1>3
    <2>4. QED
      BY <1>2, <1>3, <2>2, <2>3 DEF Current
  <1>13. Addressed /\ Configured
    BY <1>2, <1>10 DEF Addressed, Configured, NoAddrs, NoConf
  <1>14. Probing /\ Answered
    BY <1>2, <1>10 DEF Probing, Answered, NoStatus
  <1>15. QED
    BY <1>9, <1>11, <1>12, <1>13, <1>14 DEF IndInv

LEMMA IndInvStep == IndInv /\ [Next]_vars => IndInv'
  <1> SUFFICES ASSUME IndInv, [Next]_vars PROVE IndInv'
    OBVIOUS
  <1>1. Typed /\ Placed /\ Current /\ Addressed /\ Configured /\ Probing /\ Answered
    BY DEF IndInv
  <1>2. Typed' /\ Placed' /\ Current'
    BY <1>1, TypedStep, PlacedStep, Aged
  <1>3. Addressed' /\ Configured' /\ Probing' /\ Answered'
    BY <1>1, AddressedStep, ConfiguredStep, ProbingStep, AnsweredStep
  <1>4. QED
    BY <1>2, <1>3 DEF IndInv

\* However the calls, their goroutines, the hosts' changes and the operator's ends
\* interleave, the three caches and what callers took from them keep their ages.
THEOREM Invariance == Spec => []IndInv
  BY IndInvInit, IndInvStep, PTL DEF Spec

\* Types; and a node's lock is held by the caller whose goroutine works on it.
THEOREM TypeCorrect == Spec => []TypeOK
  <1>1. IndInv => TypeOK
    BY DEF IndInv, Typed
  <1>2. QED
    BY <1>1, Invariance, PTL

LEMMA Outcomes ==
  ASSUME Typed, NEW c \in Callers
  PROVE  /\ \A kind, nodes : Return(c, kind, nodes) => result'.kind = kind /\ result'.nodes = nodes
         /\ \A l : at' = Set(at, c, l) => at'[c] = l
         /\ \A l, v : Goto(c, l, v) => at'[c] = l
  <1>1. at \in [Callers -> Places]
    BY TypeFacts DEF CallerTypes
  <1>2. \A l : at' = Set(at, c, l) => at'[c] = l
    BY <1>1 DEF Set
  <1>3. \A kind, nodes : Return(c, kind, nodes) => result'.kind = kind /\ result'.nodes = nodes
    BY DEF Return
  <1>4. \A l, v : Goto(c, l, v) => at'[c] = l
    BY <1>2 DEF Goto
  <1>5. QED
    BY <1>2, <1>3, <1>4

\* A call that returns something other than an error returns it from one of three places.
LEMMA Returning ==
  ASSUME IndInv, [Next]_vars, NEW c \in Callers, at[c] # "idle", at'[c] = "idle",
         result'.kind \notin {"none", "error"}
  PROVE  Join(c) \/ Affinity(c) \/ Find(c)
  <1>1. Typed /\ Placed /\ UNCHANGED focus
    BY SourceTypes DEF IndInv
  <1>2. /\ \A kind, nodes : Return(c, kind, nodes) => result'.kind = kind /\ result'.nodes = nodes
        /\ \A l : at' = Set(at, c, l) => at'[c] = l
        /\ \A l, v : Goto(c, l, v) => at'[c] = l
    BY <1>1, Outcomes
  <1>3. result' # Nothing
    BY DEF Nothing
  <1>4. ASSUME NEW d \in Callers, Proceed(d) PROVE d = c
    <2>1. Only(d)
      BY <1>1, <1>4, CallersStep
    <2>2. QED
      BY <2>1 DEF Only, Stays
  <1>5. ASSUME NEW d \in Callers, NEW o \in Ops, Call(d, o) PROVE FALSE
    BY <1>3, <1>5 DEF Call
  <1>6. ~Tick /\ ~Change /\ ~Restart
    BY <1>3 DEF Tick, Change, Restart
  <1>7. at' # at
    OBVIOUS
  <1>8. Proceed(c)
    BY <1>4, <1>5, <1>6, <1>7, Kinds DEF vars, mainVars
  <1>9. ~List(c)
    BY <1>1, <1>2 DEF List
  <1>10. \A n \in Nodes : ~Lookup(c, n) /\ ~Probe(c, n) /\ ~Store(c, n)
    BY <1>7 DEF Lookup, Probe, Store, TaskStep, mainVars
  <1>11. ~CheckConf(c) /\ ~TakeConf(c) /\ ~WriteConf(c) /\ ~LookupAddrs(c) /\ ~AddAddrs(c)
    BY <1>2 DEF CheckConf, TakeConf, WriteConf, LookupAddrs, AddAddrs
  <1>12. ~LoadConf(c) /\ ~ListAddrs(c)
    BY <1>2 DEF LoadConf, ListAddrs, Ask, Places
  <1>13. QED
    BY <1>8, <1>9, <1>10, <1>11, <1>12 DEF Proceed

\* What the three answer.
LEMMA Answers ==
  ASSUME Typed, Placed, NEW c \in Callers, at'[c] = "idle"
  PROVE  /\ Join(c) => result'.kind \in {"unavailable", "noNode"}
         /\ Affinity(c) => result'.kind \in {"hybrid", "apart", "interrupted", "placed"}
         /\ Find(c) => result'.kind \in {"found", "notFound"}
  <1>1. /\ \A kind, nodes : Return(c, kind, nodes) => result'.kind = kind
        /\ \A l, v : Goto(c, l, v) => at'[c] = l
    BY Outcomes
  <1>2. ASSUME Join(c) PROVE result'.kind \in {"unavailable", "noNode"}
    <2>1. (\E k \in {"unavailable", "noNode"} : \E s : Return(c, k, s)) \/ Goto(c, "conf", None)
      BY <1>2 DEF Join
    <2>2. QED
      BY <1>1, <2>1
  <1>3. ASSUME Affinity(c) PROVE result'.kind \in {"hybrid", "apart", "interrupted", "placed"}
    <2>1. read[c] \in {"hybrid", "apart"}
      BY <1>3 DEF Affinity, Placed
    <2>2. \E k \in {read[c], "interrupted", "placed"} : \E s : Return(c, k, s)
      BY <1>3 DEF Affinity
    <2>3. QED
      BY <1>1, <2>1, <2>2
  <1>4. ASSUME Find(c) PROVE result'.kind \in {"found", "notFound"}
    <2>1. \E k \in {"found", "notFound"} : \E s : Return(c, k, s)
      BY <1>4 DEF Find
    <2>2. QED
      BY <1>1, <2>1
  <1>5. QED
    BY <1>2, <1>3, <1>4

LEMMA AddressStep == IndInv /\ [Next]_vars =>
  \A c \in Callers : Returns(c, {"found", "notFound"}) =>
    \A p \in result'.nodes : last.client[p[1]][p[2]] <= AddrTTL + MaxProbe
  <1> SUFFICES ASSUME IndInv, [Next]_vars, NEW c \in Callers, Returns(c, {"found", "notFound"}),
                      NEW p \in result'.nodes
               PROVE  last.client[p[1]][p[2]] <= AddrTTL + MaxProbe
    OBVIOUS
  <1>1. /\ Typed /\ Placed /\ Addressed /\ UNCHANGED focus
        /\ at[c] # "idle" /\ at'[c] = "idle" /\ result'.kind \in {"found", "notFound"}
    BY SourceTypes DEF IndInv, Returns
  <1>2. /\ \A kind, nodes : Return(c, kind, nodes) => result'.kind = kind /\ result'.nodes = nodes
        /\ \A l : at' = Set(at, c, l) => at'[c] = l
        /\ \A l, v : Goto(c, l, v) => at'[c] = l
    BY <1>1, Outcomes
  <1>3. ~Join(c)
    BY <1>1, Answers
  <1>4. ~Affinity(c)
    BY <1>1, Answers
  <1>5. Find(c)
    BY <1>1, <1>3, <1>4, Returning
  <1>6. at[c] = "find"
    BY <1>5 DEF Find
  <1>7. /\ focus = "addresses" /\ call[c] \in Ops /\ Recent(read[c], AddrTTL + MaxProbe)
    BY <1>1, <1>6 DEF Placed, Addressed, AddrPlaces
  <1>8. call[c] \in [op : {"client"}, target : Nodes] \cup [op : {"host"}, target : Addresses]
    BY <1>7 DEF Ops
  <1>9. \E n \in Nodes : p = <<n, read[c][n]>>
    <2>1. CASE call[c].op = "client"
      <3>1. call[c].target \in Nodes
        BY <1>8, <2>1
      <3>2. result'.nodes = {<<call[c].target, read[c][call[c].target]>>}
        BY <1>2, <1>5, <2>1 DEF Find
      <3>3. QED
        BY <3>1, <3>2
    <2>2. CASE call[c].op = "host"
      <3>1. \/ \E n \in {m \in Nodes : read[c][m] = call[c].target} :
                 Return(c, "found", {<<n, call[c].target>>})
            \/ Return(c, "notFound", {})
        BY <1>5, <2>2 DEF Find
      <3>2. \/ \E n \in Nodes : read[c][n] = call[c].target /\ result'.nodes = {<<n, call[c].target>>}
            \/ result'.nodes = {}
        BY <1>2, <3>1
      <3>3. QED
        BY <3>2
    <2>3. QED
      BY <1>8, <2>1, <2>2
  <1>10. QED
    BY <1>7, <1>9 DEF Recent

\* An address that is given for a host, or none, was the host's not long ago, though the
\* list is kept for a time and another caller may replace it meanwhile.
THEOREM AddressTrue == Spec => AddressWasTrue
  BY Invariance, AddressStep, PTL DEF Spec, AddressWasTrue

LEMMA ConfStepRecent == IndInv /\ [Next]_vars =>
  \A c \in Callers : focus = "config" =>
    /\ Returns(c, {"hybrid", "apart"}) => last.hybrid[result'.kind = "hybrid"] <= ConfTTL + MaxProbe
    /\ Returns(c, {"placed"}) /\ result'.nodes \cap Controllers # {} => last.hybrid[TRUE] <= ConfTTL + MaxProbe
  <1> SUFFICES ASSUME IndInv, [Next]_vars, NEW c \in Callers, focus = "config",
                      Returns(c, {"hybrid", "apart", "placed"})
               PROVE  /\ result'.kind \in {"hybrid", "apart"} =>
                           last.hybrid[result'.kind = "hybrid"] <= ConfTTL + MaxProbe
                      /\ result'.kind = "placed" /\ result'.nodes \cap Controllers # {} =>
                           last.hybrid[TRUE] <= ConfTTL + MaxProbe
    BY DEF Returns
  <1>1. /\ Typed /\ Placed /\ Configured /\ UNCHANGED focus
        /\ at[c] # "idle" /\ at'[c] = "idle" /\ result'.kind \in {"hybrid", "apart", "placed"}
    BY SourceTypes DEF IndInv, Returns
  <1>2. /\ \A kind, nodes : Return(c, kind, nodes) => result'.kind = kind /\ result'.nodes = nodes
        /\ \A l : at' = Set(at, c, l) => at'[c] = l
        /\ \A l, v : Goto(c, l, v) => at'[c] = l
    BY <1>1, Outcomes
  <1>3. ~Join(c)
    BY <1>1, Answers
  <1>4. ~Find(c)
    BY <1>1, Answers
  <1>5. Affinity(c)
    BY <1>1, <1>3, <1>4, Returning
  <1>6. at[c] = "affinity"
    BY <1>5 DEF Affinity
  <1>7. InForce(read[c], ConfTTL + MaxProbe) /\ read[c] \in {"hybrid", "apart"}
    BY <1>1, <1>6 DEF Placed, Configured
  <1>8. \/ result'.kind = read[c]
        \/ result'.kind = "interrupted"
        \/ /\ result'.kind = "placed"
           /\ result'.nodes \subseteq IF read[c] = "hybrid" THEN Nodes ELSE Nodes \ Controllers
    BY <1>2, <1>5 DEF Affinity
  <1>9. CASE result'.kind = read[c]
    BY <1>7, <1>9 DEF InForce
  <1>10. CASE /\ result'.kind = "placed"
              /\ result'.nodes \subseteq IF read[c] = "hybrid" THEN Nodes ELSE Nodes \ Controllers
    <2>1. read[c] # "hybrid" => result'.nodes \cap Controllers = {}
      BY <1>10
    <2>2. read[c] = "hybrid" => last.hybrid[TRUE] <= ConfTTL + MaxProbe
      BY <1>7 DEF InForce
    <2>3. QED
      BY <1>10, <2>1, <2>2
  <1>11. QED
    BY <1>1, <1>8, <1>9, <1>10

\* The configuration a caller goes by was in force not long ago, though its three fields are
\* written without a lock and the stamp may be another loader's.
THEOREM ConfIsRecent == Spec => ConfWasInForce
  BY Invariance, ConfStepRecent, PTL DEF Spec, ConfWasInForce

LEMMA PlacementStep == IndInv /\ [Next]_vars =>
  \A c \in Callers : HwCheck =>
    /\ Returns(c, {"placed"}) => \A n \in result'.nodes : last.ready[n] <= HwAge /\ last.nic[n] <= HwAge
    /\ Returns(c, {"interrupted", "unavailable"}) => \A n \in result'.nodes : last.bad[n] <= HwAge
  <1> SUFFICES ASSUME IndInv, [Next]_vars, NEW c \in Callers, HwCheck,
                      Returns(c, {"placed", "interrupted", "unavailable"}), NEW n \in result'.nodes
               PROVE  /\ result'.kind = "placed" => last.ready[n] <= HwAge /\ last.nic[n] <= HwAge
                      /\ result'.kind \in {"interrupted", "unavailable"} => last.bad[n] <= HwAge
    BY DEF Returns
  <1>1. /\ Typed /\ Placed /\ Answered /\ UNCHANGED focus /\ focus = "nodes"
        /\ at[c] # "idle" /\ at'[c] = "idle" /\ result'.kind \in {"placed", "interrupted", "unavailable"}
    BY SourceTypes DEF IndInv, Returns, HwCheck
  <1>2. /\ \A kind, nodes : Return(c, kind, nodes) => result'.kind = kind /\ result'.nodes = nodes
        /\ \A l : at' = Set(at, c, l) => at'[c] = l
        /\ \A l, v : Goto(c, l, v) => at'[c] = l
    BY <1>1, Outcomes
  <1>3. MaxProbe \in Nat /\ HwTTL \in Nat /\ HwAge \in Nat /\ HwTTL + 2 * MaxProbe <= HwAge
    BY <1>1, Numbers DEF HwAge
  <1>4. CASE Affinity(c)
    <2>1. at[c] = "affinity" /\ read[c] \in {"hybrid", "apart"}
      BY <1>1, <1>4 DEF Affinity, Placed
    <2>2. \A m \in Nodes : Was(m, got[c][m], HwAge)
      BY <1>1, <2>1 DEF Answered
    <2>3. \/ result'.kind = "interrupted" /\ n \in Taint(c)
          \/ result'.kind = "placed" /\ n \in Nodes \ Taint(c)
      BY <1>1, <1>2, <1>4, <2>1 DEF Affinity
    <2>4. QED
      BY <2>2, <2>3 DEF Taint, Was
  <1>5. CASE Join(c)
    <2>1. at[c] = "join" /\ \A m \in Nodes : task[c][m] = "done"
      BY <1>5 DEF Join
    <2>2. \A m \in Nodes : Was(m, got[c][m], HwTTL + 2 * MaxProbe)
      BY <1>1, <2>1 DEF Answered
    <2>3. result'.kind = "unavailable" /\ n \in Taint(c)
      BY <1>1, <1>2, <1>5 DEF Join
    <2>4. last.bad[n] <= HwTTL + 2 * MaxProbe /\ n \in Nodes
      BY <2>2, <2>3 DEF Taint, Was
    <2>5. last.bad[n] \in Nat
      <3>1. last \in Lasts /\ Ages \subseteq Nat
        BY <1>1, Numbers DEF Typed
      <3>2. last.bad[n] \in Ages
        BY <2>4, <3>1 DEF Lasts
      <3>3. QED
        BY <3>1, <3>2
    <2>6. QED
      BY <1>3, <2>3, <2>4, <2>5
  <1>6. ~Find(c)
    BY <1>1, Answers
  <1>7. QED
    BY <1>1, <1>4, <1>5, <1>6, Returning

\* With the hardware check, a node a pod may be placed on was ready with its card up not long
\* ago, and one that is refused or called unavailable was not: however the probes of several
\* callers, what they waited for and what they cached overlap.
THEOREM PlacementsRecent == Spec => PlacementsMatchNodes
  BY Invariance, PlacementStep, PTL DEF Spec, PlacementsMatchNodes
=============================================================================
