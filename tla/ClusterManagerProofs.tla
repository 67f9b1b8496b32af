------------------------ MODULE ClusterManagerProofs ------------------------
(***************************************************************************)
(* What ClusterManager guarantees for every set of workflows, hosts and    *)
(* images and every plan.  A call is a list of steps; the inductive        *)
(* invariant says which steps may follow which, what the step that is due  *)
(* has already brought about, and what a step that has read something      *)
(* still knows of it, whatever the other calls, late requests and the      *)
(* cluster did since.                                                      *)
(***************************************************************************)
EXTENDS ClusterManager, SequenceTheorems, FiniteSetTheorems, TLAPS

\* Last steps of a call.
Ends(c, s) ==
  \/ c.op = "create" /\ s = "deploy"
  \/ c.op = "remove" /\ s \in {"getDep", "delOthers"}
  \/ c.op = "accounts" /\ s = "replicator"
  \/ c.op = "addCluster" /\ s \in {"addCluster", "updateCluster"}
  \/ c.op = "deleteCluster" /\ s = "removeCluster"
  \/ c.op = "addDataMax" /\ s \in {"addDataMax", "updateDataMax"}
  \/ c.op \notin {"create", "remove", "accounts", "addCluster", "deleteCluster", "addDataMax"} /\ s = c.op

\* A step of a call and the one that follows it.
Leads(c, s, t) ==
  \/ c.op = "create" /\ <<s, t>> \in {<<"conf", "meta">>, <<"meta", "flag">>, <<"flag", "deploy">>}
  \/ c.op = "remove" /\ <<s, t>> \in {<<"connect", "disableHA">>, <<"disableHA", "deleteDep">>,
                                     <<"deleteDep", "waitGone">>, <<"waitGone", "delConf">>,
                                     <<"delConf", "delMeta">>, <<"delMeta", "delFlag">>,
                                     <<"delFlag", "delOthers">>}
  \/ c.op = "accounts" /\ <<s, t>> = <<"aurora", "replicator">>
  \/ c.op \in {"addCluster", "deleteCluster"} /\ <<s, t>> = <<"connect", "removeCluster">>
  \/ c.op = "addCluster" /\ <<s, t>> = <<"removeCluster", "addCluster">>
  \/ c.op = "switchover" /\ <<s, t>> \in {<<"connect", "waitStarted">>, <<"waitStarted", "switchover">>}
  \/ /\ c.op \notin {"create", "remove", "accounts", "addCluster", "deleteCluster", "switchover",
                    "upgrade", "affinity"}
     /\ s = "connect" /\ t = c.op

\* A list of steps a call c may have left.
Chain(c, s) ==
  /\ s \in Seq(Steps)
  /\ \A k \in DOMAIN s : IF k = Len(s) THEN Ends(c, s[k]) ELSE Leads(c, s[k], s[k + 1])

Ensured == Accounts \cup {"conf", "meta", "flag", "deploy"}
Given == \A a \in Accounts : secrets[a] # 0

\* A call belongs to the plan and has a proper list of steps left.
Formed ==
  /\ read = [w \in Workflows |-> read[w]]
  /\ \A w \in Workflows :
       /\ Chain(call[w], todo[w])
       /\ Idle(w) => at[w] = "begin"
       /\ ~Idle(w) => call[w] \in plan.ops[w]

\* Requests that name a host.
Placed == {"addCluster", "updateCluster", "addDataMax", "updateDataMax", "addIns", "removeIns", "switchover"}
LateTyped == \A q \in late : q.kind \in Placed => q.arg \in Nodes

\* What a step has read and goes by in its second half.
Recalls(w) ==
  /\ at[w] = "make" => ~Idle(w) /\ Head(todo[w]) \in Ensured
  /\ at[w] = "make" /\ Head(todo[w]) = "conf" => read[w] = secrets /\ Given
  /\ at[w] = "write" => Doing(w, "upgrade") /\ read[w].there
  /\ at[w] = "delete" => Doing(w, "affinity") /\ read[w] \in DOMAIN pods /\ (read[w] \in Active \/ met[w])
Remembered == \A w \in Workflows : Recalls(w)

\* The configuration was made when both accounts were there.
Configured == maps.conf # NoSecrets => maps.conf = secrets /\ Given

\* HA is disabled, or was when the Deployment is deleted.
Disabled ==
  \A w \in Workflows :
    /\ quiet[w] = "yes" => maps.flag # "on" /\ ~switching
    /\ Doing(w, "deleteDep") => quiet[w] # "no"

Creates == \E w \in Workflows : \E c \in plan.ops[w] : c.op = "create"
Removes == \E w \in Workflows : \E c \in plan.ops[w] : c.op = "remove"
\* The plan does not both create and remove the CM.
Apart == ~(Creates /\ Removes)

\* The pods are of the version of the ReplicaSet, which follows the Deployment
\* when none is left.
Versions ==
  /\ \A k \in Present : pods[k].image = rs.image
  /\ dep.there /\ dep.strategy = "RollingUpdate" /\ rs.image # dep.image => Present = {} /\ ~rs.there
  /\ ~dep.there /\ Creates => Present = {} /\ ~rs.there

\* What the steps of c before s have brought about.
Reached(c, s) ==
  /\ c.op = "accounts" /\ s = "replicator" => secrets["aurora"] # 0
  /\ c.op = "create" =>
       /\ s \in {"meta", "flag", "deploy"} => maps.conf # NoSecrets
       /\ s \in {"flag", "deploy"} => maps.meta
       /\ s = "deploy" => maps.flag # "none"
  /\ c.op = "remove" =>
       /\ s \in {"waitGone", "delConf", "delMeta", "delFlag", "delOthers"} => ~dep.there
       /\ s \in {"delConf", "delMeta", "delFlag", "delOthers"} => \A k \in Present : pods[k].orphan
       /\ s \in {"delMeta", "delFlag", "delOthers"} => maps.conf = NoSecrets
       /\ s \in {"delFlag", "delOthers"} => ~maps.meta
       /\ s = "delOthers" => maps.flag = "none"
Progress == \A w \in Workflows : ~Idle(w) => Reached(call[w], Head(todo[w]))

IndInv ==
  /\ TypeOK /\ Formed /\ LateTyped /\ Remembered /\ Configured /\ Disabled
  /\ Apart => Versions /\ Progress /\ OkMeansDone

\* The CM of a cluster is not created while it is removed.
CreatedApart ==
  \A p \in Plans : ~(\E v, w \in Workflows : \E c \in p.ops[v], d \in p.ops[w] :
                       c.op = "create" /\ d.op = "remove")

-----------------------------------------------------------------------------
(***************************************************************************)
(* Steps that are left                                                     *)
(***************************************************************************)
LEMMA TailParts ==
  ASSUME NEW S, NEW s \in Seq(S), s # <<>>
  PROVE  /\ Tail(s) \in Seq(S) /\ Len(s) \in Nat /\ Len(s) >= 1 /\ Len(Tail(s)) = Len(s) - 1
         /\ DOMAIN s = 1 .. Len(s) /\ DOMAIN Tail(s) = 1 .. Len(s) - 1
         /\ \A k \in DOMAIN Tail(s) : k + 1 \in DOMAIN s /\ Tail(s)[k] = s[k + 1]
         /\ Head(s) = s[1] /\ 1 \in DOMAIN s /\ Head(s) \in S
  OBVIOUS

LEMMA ChainTail ==
  ASSUME NEW c, NEW s, Chain(c, s), s # <<>>
  PROVE  /\ Chain(c, Tail(s)) /\ Head(s) \in Steps
         /\ Tail(s) = <<>> => Ends(c, Head(s))
         /\ Tail(s) # <<>> => Leads(c, Head(s), Head(Tail(s)))
  <1> DEFINE t == Tail(s)
  <1>1. s \in Seq(Steps)
    BY DEF Chain
  <1>2. /\ t \in Seq(Steps) /\ DOMAIN t = 1 .. Len(s) - 1 /\ DOMAIN s = 1 .. Len(s)
        /\ Len(s) \in Nat /\ Len(s) >= 1 /\ Len(t) = Len(s) - 1
        /\ \A k \in DOMAIN t : k + 1 \in DOMAIN s /\ t[k] = s[k + 1]
        /\ Head(s) = s[1] /\ 1 \in DOMAIN s /\ Head(s) \in Steps
    BY <1>1, TailParts
  <1>3. /\ t = <<>> => Len(t) = 0
        /\ t # <<>> => Len(t) >= 1 /\ Head(t) = t[1]
    BY <1>2, EmptySeq, TailParts
  <1> HIDE DEF t
  <1>4. ASSUME NEW k \in DOMAIN t
        PROVE  IF k = Len(t) THEN Ends(c, t[k]) ELSE Leads(c, t[k], t[k + 1])
    <2>1. /\ k + 1 \in DOMAIN s /\ t[k] = s[k + 1]
          /\ k = Len(t) => k + 1 = Len(s)
          /\ k # Len(t) => k + 1 # Len(s) /\ k + 1 \in DOMAIN t
      BY <1>2, <1>4
    <2>2. k # Len(t) => t[k + 1] = s[k + 1 + 1]
      BY <1>2, <2>1
    <2>3. QED
      BY <2>1, <2>2 DEF Chain
  <1>5. Chain(c, t)
    BY <1>2, <1>4 DEF Chain
  <1>6. t = <<>> => Ends(c, Head(s))
    BY <1>2, <1>3 DEF Chain
  <1>7. t # <<>> => Leads(c, Head(s), Head(t))
    <2>1. t # <<>> => 1 # Len(s) /\ 1 \in DOMAIN t
      BY <1>2, <1>3
    <2>2. t # <<>> => Head(t) = s[1 + 1]
      BY <1>2, <1>3, <2>1
    <2>3. QED
      BY <1>2, <2>1, <2>2 DEF Chain
  <1>8. QED
    BY <1>2, <1>5, <1>6, <1>7 DEF t

\* A call starts with a proper list, and has brought about nothing yet.
LEMMA Programs ==
  ASSUME NEW c \in AllOps
  PROVE  /\ Chain(c, Program(c)) /\ Program(c) # <<>>
         /\ c.op = "create" => Head(Program(c)) = "conf"
         /\ c.op = "accounts" => Head(Program(c)) = "aurora"
         /\ c.op = "remove" => Head(Program(c)) = "getDep"
         /\ Head(Program(c)) # "deleteDep"
  <1> USE DEF Chain, Ends, Leads, Steps, ApiSteps, Accounts, Requests, Roles
  <1>1. CASE c.op = "create"
    BY <1>1 DEF Program, Creating
  <1>2. CASE c.op = "remove"
    BY <1>2 DEF Program
  <1>7. CASE c.op = "accounts"
    BY <1>7 DEF Program
  <1>3. CASE c.op = "addCluster"
    BY <1>3 DEF Program, Adding
  <1>8. CASE c.op = "deleteCluster"
    BY <1>8 DEF Program
  <1>9. CASE c.op = "switchover"
    BY <1>9 DEF Program
  <1>4. CASE c.op \in {"upgrade", "affinity"}
    BY <1>4 DEF Program
  <1>5. CASE c.op \in {"disableHA", "enableHA", "addEdge", "deleteEdge", "deleteDataMax",
                       "updateCluster", "addDataMax", "updateDataMax", "addIns", "removeIns"} \cup Roles
    <2>1. Program(c) = <<"connect", c.op>>
      BY <1>5 DEF Program
    <2>2. QED
      BY <1>5, <2>1
  <1>6. QED
    BY <1>1, <1>2, <1>3, <1>4, <1>5, <1>7, <1>8, <1>9 DEF AllOps

\* The removal goes on as it finds the Deployment.
Removing(there) ==
  (IF there THEN <<"connect", "disableHA", "deleteDep">> ELSE <<>>) \o <<"waitGone">> \o DeletingMaps

LEMMA RemovingChain ==
  ASSUME NEW c, c.op = "remove", NEW there \in BOOLEAN
  PROVE  /\ Chain(c, Removing(there)) /\ Removing(there) # <<>>
         /\ Head(Removing(there)) = IF there THEN "connect" ELSE "waitGone"
  <1> DEFINE long == <<"connect", "disableHA", "deleteDep", "waitGone", "delConf", "delMeta", "delFlag",
                       "delOthers">>
             short == <<"waitGone", "delConf", "delMeta", "delFlag", "delOthers">>
             a == <<"connect", "disableHA", "deleteDep">>
             b == <<"connect", "disableHA", "deleteDep", "waitGone">>
  <1>1. /\ long \in Seq(Steps) /\ short \in Seq(Steps) /\ DeletingMaps \in Seq(Steps)
        /\ a \in Seq(Steps) /\ b \in Seq(Steps) /\ <<"waitGone">> \in Seq(Steps)
    BY DEF DeletingMaps, Steps, ApiSteps, Requests
  <1>2. a \o <<"waitGone">> = b
    <2>1. a \o <<"waitGone">> \in Seq(Steps) /\ Len(a \o <<"waitGone">>) = 4
      BY <1>1
    <2>2. \A k \in 1 .. 4 : (a \o <<"waitGone">>)[k] = b[k]
      OBVIOUS
    <2>3. QED
      BY <1>1, <2>1, <2>2, SeqEqual
  <1>3. b \o DeletingMaps = long
    <2>1. b \o DeletingMaps \in Seq(Steps) /\ Len(b \o DeletingMaps) = 8 /\ Len(long) = 8
      BY <1>1 DEF DeletingMaps
    <2>2. \A k \in 1 .. 8 : (b \o DeletingMaps)[k] = long[k]
      BY DEF DeletingMaps
    <2>3. QED
      <3> HIDE DEF long, b
      <3>1. QED
        BY <1>1, <2>1, <2>2, SeqEqual
  <1>4. <<>> \o <<"waitGone">> = <<"waitGone">>
    OBVIOUS
  <1>5. <<"waitGone">> \o DeletingMaps = short
    <2>1. /\ <<"waitGone">> \o DeletingMaps \in Seq(Steps)
          /\ Len(<<"waitGone">> \o DeletingMaps) = 5 /\ Len(short) = 5
      BY <1>1 DEF DeletingMaps
    <2>2. \A k \in 1 .. 5 : (<<"waitGone">> \o DeletingMaps)[k] = short[k]
      BY DEF DeletingMaps
    <2>3. QED
      <3> HIDE DEF short
      <3>1. QED
        BY <1>1, <2>1, <2>2, SeqEqual
  <1>6. Removing(there) = IF there THEN long ELSE short
    BY <1>2, <1>3, <1>4, <1>5 DEF Removing
  <1>7. Chain(c, long) /\ Chain(c, short)
    BY <1>1 DEF Chain, Ends, Leads
  <1>8. QED
    BY <1>6, <1>7

LEMMA UpdateChain ==
  ASSUME NEW c
  PROVE  /\ c.op = "addCluster" => Chain(c, <<"updateCluster">>)
         /\ c.op = "addDataMax" => Chain(c, <<"updateDataMax">>)
  BY DEF Chain, Ends, Steps, Requests
-----------------------------------------------------------------------------
(***************************************************************************)
(* How a step ends                                                         *)
(***************************************************************************)
CallTypes ==
  /\ todo \in [Workflows -> Seq(Steps)]
  /\ at \in [Workflows -> {"begin", "make", "write", "delete"}]
  /\ tries \in [Workflows -> 0..MaxTries - 1 \cup 0..MaxPolls]
  /\ result \in [Workflows -> {"none", "ok", "error", "panic", "crashed"}]
  /\ read = [w \in Workflows |-> read[w]]

\* A step of w leaves the other calls alone.
Only(w) ==
  /\ CallTypes'
  /\ \A v \in Workflows \ {w} : /\ todo'[v] = todo[v] /\ at'[v] = at[v]
                                /\ read'[v] = read[v] /\ result'[v] = result[v]

Fails(w) == todo'[w] = <<>> /\ at'[w] = "begin" /\ result'[w] # "ok"
Turns(w, s) == todo'[w] = s /\ at'[w] = "begin"
Passes(w) == Turns(w, Tail(todo[w])) /\ (Tail(todo[w]) # <<>> => result'[w] = result[w])
Waits(w) == todo'[w] = todo[w] /\ at'[w] = at[w] /\ read'[w] = read[w] /\ result'[w] = result[w]
Halfway(w, l, v) == todo'[w] = todo[w] /\ at'[w] = l /\ read'[w] = v /\ result'[w] = result[w]

LEMMA ReadSet ==
  ASSUME CallTypes, NEW w \in Workflows, NEW v
  PROVE  [read EXCEPT ![w] = v] = [u \in Workflows |-> IF u = w THEN v ELSE read[u]]
  BY DEF CallTypes

LEMMA Returned ==
  ASSUME CallTypes, NEW w \in Workflows, NEW r \in {"ok", "error", "panic"}, Return(w, r)
  PROVE  Only(w) /\ todo'[w] = <<>> /\ at'[w] = "begin" /\ result'[w] = r
  <1>1. read' = [u \in Workflows |-> IF u = w THEN None ELSE read[u]]
    BY ReadSet DEF Return, Set
  <1>2. read' = [u \in Workflows |-> read'[u]]
    BY <1>1
  <1>3. 0 \in 0..MaxTries - 1 \cup 0..MaxPolls
    BY DEF MaxTries
  <1>4. <<>> \in Seq(Steps)
    OBVIOUS
  <1>5. CallTypes'
    BY <1>2, <1>3, <1>4 DEF CallTypes, Return, Set
  <1>6. QED
    BY <1>1, <1>5 DEF CallTypes, Return, Set, Only

LEMMA Continued ==
  ASSUME CallTypes, NEW w \in Workflows, NEW s \in Seq(Steps), Continue(w, s)
  PROVE  Only(w) /\ Turns(w, s) /\ (s # <<>> => result'[w] = result[w])
  <1>1. CASE s = <<>>
    BY <1>1, Returned DEF Continue, Turns
  <1>2. CASE s # <<>>
    <2>1. read' = [u \in Workflows |-> IF u = w THEN None ELSE read[u]]
      BY <1>2, ReadSet DEF Continue, Set
    <2>2. read' = [u \in Workflows |-> read'[u]]
      BY <2>1
    <2>3. 0 \in 0..MaxTries - 1 \cup 0..MaxPolls
      BY DEF MaxTries
    <2>4. CallTypes'
      BY <1>2, <2>2, <2>3 DEF CallTypes, Continue, Set
    <2>5. QED
      BY <1>2, <2>1, <2>4 DEF CallTypes, Continue, Set, Only, Turns
  <1>3. QED
    BY <1>1, <1>2

LEMMA Advanced ==
  ASSUME CallTypes, NEW w \in Workflows, ~Idle(w), Advance(w)
  PROVE  Only(w) /\ Passes(w)
  <1>1. Tail(todo[w]) \in Seq(Steps)
    BY TailParts DEF CallTypes, Idle
  <1>2. QED
    BY <1>1, Continued DEF Advance, Passes

LEMMA Went ==
  ASSUME CallTypes, NEW w \in Workflows, NEW l \in {"make", "write", "delete"}, NEW v, Goto(w, l, v)
  PROVE  Only(w) /\ Halfway(w, l, v)
  BY DEF CallTypes, Goto, Only, Set, Halfway

LEMMA Repeated ==
  ASSUME CallTypes, NEW w \in Workflows, NEW n \in {MaxTries, MaxPolls}, Again(w, n)
  PROVE  Only(w) /\ (Fails(w) \/ Waits(w))
  <1>1. CASE MayRepeat(w, n)
    <2>1. tries[w] + 1 \in 0..MaxTries - 1 \cup 0..MaxPolls
      <3>1. tries[w] \in Nat /\ tries[w] + 1 < n /\ MaxPolls \in Nat
        <4>1. tries[w] \in 0..MaxTries - 1 \cup 0..MaxPolls
          BY DEF CallTypes
        <4>2. tries[w] \in Nat
          BY <4>1
        <4>3. QED
          BY <1>1, <4>2, ConstantsAssumption DEF MayRepeat
      <3>2. QED
        BY <3>1 DEF MaxTries
    <2>2. QED
      BY <1>1, <2>1 DEF CallTypes, Again, Only, Set, Waits
  <1>2. CASE ~MayRepeat(w, n)
    BY <1>2, Returned DEF Again, Fails
  <1>3. QED
    BY <1>1, <1>2

LEMMA AnsweredEnds ==
  ASSUME CallTypes, NEW w \in Workflows, ~Idle(w), Answered(w)
  PROVE  Only(w) /\ (Passes(w) \/ Fails(w))
  BY Advanced, Returned DEF Answered, Fails
-----------------------------------------------------------------------------
(***************************************************************************)
(* What each step does to its call                                         *)
(***************************************************************************)
LEMMA NotAsGiven ==
  ASSUME Given
  PROVE  secrets # NoSecrets
  BY DEF Given, NoSecrets, Accounts

LEMMA FreshPassword ==
  ASSUME secrets \in Passwords
  PROVE  NewPassword \in Nat \ {0}
  <1>1. \E m \in {secrets[a] : a \in Accounts} : \A a \in Accounts : secrets[a] <= m
    <2>1. secrets["aurora"] \in Nat /\ secrets["replicator"] \in Nat
      BY DEF Passwords, Accounts
    <2>2. QED
      BY <2>1 DEF Accounts
  <1>2. \A m \in {secrets[a] : a \in Accounts} : m \in Nat
    BY DEF Passwords
  <1>3. QED
    <2> DEFINE m == CHOOSE m \in {secrets[a] : a \in Accounts} : \A a \in Accounts : secrets[a] <= m
    <2>1. m \in {secrets[a] : a \in Accounts}
      BY <1>1
    <2>2. m \in Nat
      BY <1>2, <2>1
    <2>3. NewPassword = 1 + m
      BY DEF NewPassword
    <2> HIDE DEF m
    <2>4. QED
      BY <2>2, <2>3

LEMMA EnsureEnds ==
  ASSUME CallTypes, Remembered, NEW w \in Workflows, NEW s \in Ensured, Ensure(w, s),
         secrets \in Passwords, maps \in Maps
  PROVE  /\ ~Idle(w) /\ Only(w) /\ Head(todo[w]) = s
         /\ \/ Fails(w)
            \/ Passes(w) /\ Exists(s)'
            \/ Halfway(w, "make", secrets) /\ (s = "conf" => Given)
  <1>1. ~Idle(w) /\ Head(todo[w]) = s
    BY DEF Ensure, Doing
  <1>2. CASE at[w] = "begin" /\ AccountsMissing(s) /\ Return(w, "error")
    BY <1>1, <1>2, Returned DEF Fails
  <1>3. CASE at[w] = "begin" /\ UNCHANGED <<dep, maps, secrets>> /\ Exists(s) /\ Advance(w)
    BY <1>1, <1>3, Advanced DEF Exists
  <1>4. CASE at[w] = "begin" /\ ~AccountsMissing(s) /\ Goto(w, "make", secrets)
    BY <1>1, <1>4, Went DEF AccountsMissing, Given
  <1>5. CASE at[w] = "make" /\ ~MayMake(s) /\ Return(w, "error")
    BY <1>1, <1>5, Returned DEF Fails
  <1>6. CASE at[w] = "make" /\ MayMake(s) /\ Make(s, read[w], call[w].arg) /\ Answered(w)
    <2>1. Only(w) /\ (Passes(w) \/ Fails(w))
      BY <1>1, <1>6, AnsweredEnds
    <2>2. CASE s \in Accounts
      <3>1. NewPassword \in Nat \ {0}
        BY FreshPassword
      <3>2. secrets'[s] # 0
        BY <1>6, <2>2, <3>1 DEF Make, Passwords
      <3>3. QED
        BY <1>1, <2>1, <2>2, <3>2 DEF Exists, Accounts
    <2>3. CASE s = "conf"
      <3>1. maps'.conf = secrets /\ Given
        BY <1>1, <1>6, <2>3 DEF Remembered, Recalls, Make, Maps
      <3>2. QED
        BY <1>1, <2>1, <2>3, <3>1, NotAsGiven DEF Accounts, Exists
    <2>4. CASE s \in {"meta", "flag"}
      <3>1. (s = "meta" => maps'.meta) /\ (s = "flag" => maps'.flag = "on")
        BY <1>6, <2>4 DEF Make, Accounts, Maps
      <3>2. QED
        BY <1>1, <2>1, <2>4, <3>1 DEF Exists, Accounts
    <2>5. CASE s = "deploy"
      BY <1>1, <1>6, <2>1, <2>5 DEF Make, Exists, Accounts
    <2>6. QED
      BY <2>2, <2>3, <2>4, <2>5 DEF Ensured
  <1>7. QED
    BY <1>2, <1>3, <1>4, <1>5, <1>6 DEF Ensure

LEMMA ApiFailsEnds ==
  ASSUME CallTypes, NEW w \in Workflows, ApiFails(w)
  PROVE  ~Idle(w) /\ Only(w) /\ Fails(w)
  BY Returned DEF ApiFails, ApiStep, Step, Fails

LEMMA UpgradeEnds ==
  ASSUME CallTypes, Remembered, NEW w \in Workflows, Upgrade(w), dep \in Deployments
  PROVE  /\ ~Idle(w) /\ Only(w) /\ Head(todo[w]) = "upgrade"
         /\ \/ Fails(w)
            \/ Passes(w) /\ dep'.there /\ dep'.image = call[w].arg
            \/ Halfway(w, "write", dep) /\ dep.there
  <1>1. ~Idle(w) /\ Head(todo[w]) = "upgrade"
    BY DEF Upgrade, Doing
  <1>2. CASE at[w] = "begin" /\ Return(w, "error")
    BY <1>1, <1>2, Returned DEF Fails
  <1>3. CASE at[w] = "begin" /\ dep.there /\ dep.image = call[w].arg /\ UNCHANGED dep /\ Advance(w)
    BY <1>1, <1>3, Advanced
  <1>4. CASE at[w] = "begin" /\ dep.there /\ Goto(w, "write", dep)
    BY <1>1, <1>4, Went
  <1>5. CASE at[w] = "write" /\ dep = read[w] /\ dep' = Upgraded(call[w].arg) /\ Answered(w)
    <2>1. Only(w) /\ (Passes(w) \/ Fails(w))
      BY <1>1, <1>5, AnsweredEnds
    <2>2. dep.there
      BY <1>5 DEF Remembered, Recalls
    <2>3. dep'.there /\ dep'.image = call[w].arg
      BY <1>5, <2>2 DEF Upgraded, Deployments
    <2>4. QED
      BY <1>1, <2>1, <2>3
  <1>6. CASE at[w] = "write" /\ Return(w, "error")
    BY <1>1, <1>6, Returned DEF Fails
  <1>7. QED
    BY <1>2, <1>3, <1>4, <1>5, <1>6 DEF Upgrade, Deployments

LEMMA GetDeploymentEnds ==
  ASSUME CallTypes, Formed, NEW w \in Workflows, GetDeployment(w), dep \in Deployments,
         call[w] \in AllOps
  PROVE  /\ ~Idle(w) /\ Only(w) /\ Head(todo[w]) = "getDep" /\ call[w].op = "remove"
         /\ Turns(w, Removing(dep.there))
  <1>1. ~Idle(w) /\ Head(todo[w]) = "getDep" /\ Continue(w, Removing(dep.there))
    BY DEF GetDeployment, Doing, Removing
  <1>2. call[w].op = "remove"
    <2>1. Chain(call[w], todo[w]) /\ todo[w] # <<>>
      BY <1>1 DEF Formed, Idle
    <2>2. Ends(call[w], "getDep") \/ \E t : Leads(call[w], "getDep", t)
      BY <1>1, <2>1, ChainTail
    <2>3. QED
      BY <2>2 DEF Ends, Leads, AllOps, Roles
  <1>3. Removing(dep.there) \in Seq(Steps)
    BY <1>2, RemovingChain DEF Deployments, Chain
  <1>4. QED
    BY <1>1, <1>2, <1>3, Continued

LEMMA DeleteDeploymentEnds ==
  ASSUME CallTypes, NEW w \in Workflows, DeleteDeployment(w), dep \in Deployments
  PROVE  /\ ~Idle(w) /\ Only(w) /\ Head(todo[w]) = "deleteDep"
         /\ Fails(w) \/ (Passes(w) /\ ~dep'.there)
  <1>1. ~Idle(w) /\ Head(todo[w]) = "deleteDep"
    BY DEF DeleteDeployment, Doing
  <1>2. CASE dep' = [dep EXCEPT !.there = FALSE] /\ Answered(w)
    BY <1>1, <1>2, AnsweredEnds DEF Deployments
  <1>3. CASE Return(w, "error")
    BY <1>1, <1>3, Returned DEF Fails
  <1>4. QED
    BY <1>2, <1>3 DEF DeleteDeployment

LEMMA WaitForCmDeletedEnds ==
  ASSUME CallTypes, NEW w \in Workflows, WaitForCmDeleted(w)
  PROVE  /\ ~Idle(w) /\ Only(w) /\ Head(todo[w]) = "waitGone"
         /\ Fails(w) \/ Waits(w) \/ (Passes(w) /\ Present = {})
  BY Advanced, Repeated DEF WaitForCmDeleted, Doing, AllGone

LEMMA DeleteMapEnds ==
  ASSUME CallTypes, NEW w \in Workflows, DeleteMap(w), maps \in Maps
  PROVE  /\ ~Idle(w) /\ Only(w) /\ Head(todo[w]) \in {"delConf", "delMeta", "delFlag", "delOthers"}
         /\ \/ Fails(w)
            \/ /\ Passes(w)
               /\ Head(todo[w]) = "delConf" => maps'.conf = NoSecrets
               /\ Head(todo[w]) = "delMeta" => ~maps'.meta
               /\ Head(todo[w]) = "delFlag" => maps'.flag = "none"
               /\ Head(todo[w]) = "delOthers" => ~maps'.others
  <1>1. ~Idle(w) /\ Only(w) /\ (Passes(w) \/ Fails(w))
    BY AnsweredEnds DEF DeleteMap, ApiStep, Step
  <1>2. QED
    BY <1>1 DEF DeleteMap, Maps

LEMMA ConnectEnds ==
  ASSUME CallTypes, NEW w \in Workflows, Connect(w), dep \in Deployments
  PROVE  /\ ~Idle(w) /\ Only(w) /\ Head(todo[w]) = "connect"
         /\ Fails(w) \/ Waits(w) \/ Passes(w)
  <1>1. ~Idle(w) /\ Head(todo[w]) = "connect"
    BY DEF Connect, Doing
  <1>2. Return(w, "error") \/ Advance(w) \/ Again(w, MaxPolls)
    BY DEF Connect, Deployments
  <1>3. QED
    BY <1>1, <1>2, Returned, Advanced, Repeated DEF Fails

LEMMA WaitStartedEnds ==
  ASSUME CallTypes, NEW w \in Workflows, WaitForStartingCompleted(w)
  PROVE  /\ ~Idle(w) /\ Only(w) /\ Head(todo[w]) = "waitStarted"
         /\ Fails(w) \/ (todo'[w] = todo[w] /\ at'[w] = at[w] /\ result'[w] = result[w]) \/ Passes(w)
  <1>1. ~Idle(w) /\ Head(todo[w]) = "waitStarted"
    BY DEF WaitForStartingCompleted, Doing
  <1>2. CASE Return(w, "error")
    BY <1>1, <1>2, Returned DEF Fails
  <1>3. CASE Advance(w)
    BY <1>1, <1>3, Advanced
  <1>4. CASE Again(w, MaxPolls)
    BY <1>1, <1>4, Repeated DEF Waits
  <1>5. ASSUME NEW p, tries' = Set(tries, w, 0), read' = Set(read, w, p), UNCHANGED <<todo, at, result>>
        PROVE  Only(w) /\ todo'[w] = todo[w] /\ at'[w] = at[w] /\ result'[w] = result[w]
    <2>1. read' = [u \in Workflows |-> IF u = w THEN p ELSE read[u]]
      BY <1>5, ReadSet DEF Set
    <2>2. read' = [u \in Workflows |-> read'[u]]
      BY <2>1
    <2>3. 0 \in 0..MaxTries - 1 \cup 0..MaxPolls
      BY DEF MaxTries
    <2>4. CallTypes'
      BY <1>5, <2>2, <2>3 DEF CallTypes, Set
    <2>5. QED
      BY <1>5, <2>1, <2>4 DEF CallTypes, Set, Only
  <1>6. \/ Return(w, "error") \/ Advance(w) \/ Again(w, MaxPolls)
        \/ \E p : tries' = Set(tries, w, 0) /\ read' = Set(read, w, p) /\ UNCHANGED <<todo, at, result>>
    BY DEF WaitForStartingCompleted
  <1>7. QED
    BY <1>1, <1>2, <1>3, <1>4, <1>5, <1>6
-----------------------------------------------------------------------------
(***************************************************************************)
(* Pods that move                                                          *)
(***************************************************************************)
States == {"pending", "running", "leaving", "gone"}

LEMMA PodEdited ==
  ASSUME NEW ps \in Seq(Pods), NEW k \in DOMAIN ps, NEW s \in States,
         NEW e, e = [ps[k] EXCEPT !.state = s], NEW qs, qs = [ps EXCEPT ![k] = e]
  PROVE  /\ qs \in Seq(Pods) /\ Len(qs) = Len(ps) /\ DOMAIN qs = DOMAIN ps
         /\ qs[k].state = s
         /\ \A j \in DOMAIN ps : /\ j # k => qs[j] = ps[j]
                                 /\ qs[j].image = ps[j].image /\ qs[j].orphan = ps[j].orphan
  <1>1. ps[k] \in Pods
    OBVIOUS
  <1>2. e \in Pods /\ e.state = s /\ e.image = ps[k].image /\ e.orphan = ps[k].orphan
    BY <1>1 DEF Pods, States
  <1>4. qs \in Seq(Pods) /\ Len(qs) = Len(ps) /\ DOMAIN qs = DOMAIN ps
    BY <1>2
  <1>5. qs[k] = e /\ \A j \in DOMAIN ps : j # k => qs[j] = ps[j]
    OBVIOUS
  <1>6. QED
    BY <1>2, <1>4, <1>5

\* A pod that leaves, or is elsewhere, is the only one or not the only one.
LEMMA OneLeft ==
  ASSUME NEW ps \in Seq(Pods), NEW n, NEW k \in DOMAIN ps, ps[k].state # "gone",
         ps[k].state \notin {"pending", "running"} \/ ps[k].node # n
  PROVE  \/ \A j \in {i \in DOMAIN ps : ps[i].state \in {"pending", "running"}} : ps[j].node # n
         \/ Cardinality({i \in DOMAIN ps : ps[i].state # "gone"}) > 1
  <1> DEFINE P == {i \in DOMAIN ps : ps[i].state # "gone"}
  <1> SUFFICES ASSUME NEW j \in DOMAIN ps, ps[j].state \in {"pending", "running"}, ps[j].node = n
               PROVE  Cardinality(P) > 1
    OBVIOUS
  <1>1. {j, k} \subseteq P /\ j # k
    OBVIOUS
  <1>2. IsFiniteSet(P)
    <2>1. IsFiniteSet(1 .. Len(ps)) /\ DOMAIN ps = 1 .. Len(ps)
      BY FS_Interval
    <2>2. P \subseteq 1 .. Len(ps)
      BY <2>1
    <2>3. QED
      BY <2>1, <2>2, FS_Subset
  <1> HIDE DEF P
  <1>3. Cardinality({j, k}) <= Cardinality(P)
    BY <1>1, <1>2, FS_Subset
  <1>4. Cardinality({j, k}) = 2
    <2> DEFINE A == {j}
               B == A \cup {k}
    <2>1. IsFiniteSet(A) /\ Cardinality(A) = 1 /\ k \notin A /\ B = {j, k}
      BY <1>1, FS_Singleton
    <2> HIDE DEF A
    <2>2. Cardinality(B) = Cardinality(A) + 1
      BY <2>1, FS_AddElement
    <2> HIDE DEF B
    <2>3. Cardinality(B) = 2
      BY <2>1, <2>2
    <2>4. QED
      BY <2>1, <2>3
  <1>5. Cardinality(P) \in Nat
    BY <1>2, FS_CardinalityType
  <1>6. QED
    BY <1>3, <1>4, <1>5

LEMMA PlaceKept ==
  ASSUME NEW c, c.op = "affinity", pods' \in Seq(Pods), NEW k \in DOMAIN pods', k \in Present',
         k \notin Active' \/ pods'[k].node # c.arg
  PROVE  Goal(c)'
  <1>1. \/ \A j \in Active' : pods'[j].node # c.arg
        \/ Cardinality(Present') > 1
    BY OneLeft DEF Present, Active
  <1>2. QED
    BY <1>1 DEF Goal, Roles

LEMMA AffinityEnds ==
  ASSUME CallTypes, Remembered, NEW w \in Workflows, Affinity(w), pods \in Seq(Pods),
         Chain(call[w], todo[w]), call[w] \in AllOps
  PROVE  /\ ~Idle(w) /\ Only(w) /\ Head(todo[w]) = "affinity"
         /\ \/ Fails(w)
            \/ Passes(w) /\ (Goal(call[w])' \/ met[w])
            \/ \E k \in Present : Halfway(w, "delete", k) /\ UNCHANGED pods
  <1>1. ~Idle(w) /\ Head(todo[w]) = "affinity" /\ UNCHANGED call
    BY DEF Affinity, Doing, DepStep, ApiStep, Step
  <1>2. call[w].op = "affinity" /\ call'[w].op = "affinity"
    <2>1. Ends(call[w], "affinity") \/ \E t : Leads(call[w], "affinity", t)
      BY <1>1, ChainTail DEF Idle
    <2>2. QED
      BY <1>1, <2>1 DEF Ends, Leads, AllOps
  <1>3. CASE at[w] = "begin" /\ UNCHANGED pods /\ Present = {} /\ Advance(w)
    <2>1. Goal(call[w])'
      BY <1>2, <1>3 DEF Goal, Present, Active, Roles
    <2>2. QED
      BY <1>1, <1>3, <2>1, Advanced
  <1>4. ASSUME NEW k \in Present, UNCHANGED pods, pods[k].node # call[w].arg, Advance(w)
        PROVE  Only(w) /\ Passes(w) /\ Goal(call[w])'
    <2>1. k \in Present' /\ k \in DOMAIN pods' /\ pods' \in Seq(Pods) /\ pods'[k].node # call'[w].arg
      BY <1>1, <1>4 DEF Present
    <2>2. QED
      BY <1>1, <1>2, <1>4, <2>1, Advanced, PlaceKept
  <1>5. ASSUME NEW k \in Present, UNCHANGED pods, Goto(w, "delete", k)
        PROVE  Only(w) /\ Halfway(w, "delete", k)
    BY <1>5, Went
  <1>6. CASE at[w] = "delete" /\ read[w] \in Present /\ Answered(w)
             /\ pods' = [pods EXCEPT ![read[w]].state = "leaving"]
    <2> DEFINE e == [pods[read[w]] EXCEPT !.state = "leaving"]
    <2>5. pods' = [pods EXCEPT ![read[w]] = e] /\ read[w] \in DOMAIN pods
      BY <1>6 DEF Present
    <2>6. "leaving" \in States /\ e = [pods[read[w]] EXCEPT !.state = "leaving"]
      BY DEF States
    <2> HIDE DEF e
    <2>1. /\ pods' \in Seq(Pods) /\ read[w] \in DOMAIN pods' /\ pods'[read[w]].state = "leaving"
      BY <2>5, <2>6, PodEdited
    <2>2. read[w] \in Present' /\ read[w] \notin Active'
      BY <2>1 DEF Present, Active
    <2>3. Goal(call[w])'
      BY <1>2, <2>1, <2>2, PlaceKept
    <2>4. QED
      BY <1>1, <1>6, <2>3, AnsweredEnds
  <1>7. CASE at[w] = "delete" /\ read[w] \notin Present /\ Advance(w)
    BY <1>1, <1>7, Advanced DEF Remembered, Recalls, Present, Active
  <1>8. CASE Return(w, "panic")
    BY <1>1, <1>8, Returned DEF Fails
  <1>9. QED
    BY <1>1, <1>3, <1>4, <1>5, <1>6, <1>7, <1>8 DEF Affinity
-----------------------------------------------------------------------------
(***************************************************************************)
(* Requests                                                                *)
(***************************************************************************)
Accepted(s, a) ==
  \/ a = "ok"
  \/ a = "absent" /\ s \in {"removeCluster", "deleteDataMax", "deleteEdge", "removeIns"}
  \/ a = "exists" /\ s = "addIns"

\* A request that was accepted has brought about what the call is for.
LEMMA RequestDone ==
  ASSUME NEW c \in AllOps, NEW s \in Requests, Ends(c, s), srv \in Servers, maps \in Maps,
         Serve([kind |-> s, arg |-> c.arg]), Accepted(s, Answer([kind |-> s, arg |-> c.arg]))
  PROVE  Goal(c)'
  <1> DEFINE q == [kind |-> s, arg |-> c.arg]
  <1> USE DEF Serve, Answer, Effect, Accepted, Servers
  <1>1. q.kind = s /\ q.arg = c.arg
    OBVIOUS
  <1> HIDE DEF q
  <1>2. Serve(q) /\ Accepted(s, Answer(q))
    BY DEF q
  <1>3. CASE s \in {"addCluster", "updateCluster", "removeCluster"}
    BY <1>1, <1>2, <1>3 DEF Ends, Goal, Roles, AllOps
  <1>4. CASE s \in {"addDataMax", "updateDataMax", "deleteDataMax"}
    BY <1>1, <1>2, <1>4 DEF Ends, Goal, Roles, AllOps
  <1>5. CASE s \in {"addEdge", "deleteEdge"}
    BY <1>1, <1>2, <1>5 DEF Ends, Goal, Roles, AllOps
  <1>6. CASE s \in {"addIns", "removeIns"}
    BY <1>1, <1>2, <1>6 DEF Ends, Goal, Roles, AllOps
  <1>7. CASE s = "switchover"
    BY <1>1, <1>2, <1>7 DEF Ends, Goal, Roles, AllOps
  <1>8. CASE s \in {"disableHA", "enableHA"}
    BY <1>1, <1>2, <1>8 DEF Ends, Goal, Maps
  <1>9. CASE s \in Roles
    BY <1>1, <1>2, <1>9 DEF Ends, Goal, Roles, AllOps
  <1>10. QED
    BY <1>3, <1>4, <1>5, <1>6, <1>7, <1>8, <1>9 DEF Requests

\* A step belongs to its call.
LEMMA Asked ==
  ASSUME NEW c \in AllOps, NEW s, Ends(c, s) \/ \E t : Leads(c, s, t)
  PROVE  /\ s = "addCluster" => c.op = "addCluster"
         /\ s = "addDataMax" => c.op = "addDataMax"
         /\ s \in Placed => c.arg \in Nodes
         /\ s = "removeCluster" => c.op \in {"addCluster", "deleteCluster"}
         /\ s \in {"delConf", "delMeta", "delFlag", "delOthers", "deleteDep", "waitGone"} => c.op = "remove"
         /\ s \in {"conf", "meta", "flag", "deploy"} => c.op = "create"
         /\ s \in Accounts => c.op = "accounts"
         /\ s \in {"upgrade", "affinity"} => c.op = s
  BY DEF Ends, Leads, AllOps, Roles, Placed, Accounts

LEMMA AskEnds ==
  ASSUME CallTypes, NEW w \in Workflows, Ask(w), Chain(call[w], todo[w]), call[w] \in AllOps,
         srv \in Servers, maps \in Maps
  PROVE  /\ ~Idle(w) /\ Only(w) /\ Head(todo[w]) \in Requests
         /\ \/ Fails(w)
            \/ Waits(w)
            \/ Passes(w) /\ (Ends(call[w], Head(todo[w])) => Goal(call[w])')
            \/ Turns(w, <<"updateCluster">>) /\ call[w].op = "addCluster"
            \/ Turns(w, <<"updateDataMax">>) /\ call[w].op = "addDataMax"
            \/ Turns(w, <<>>) /\ Goal(call[w])'
  <1> DEFINE s == Head(todo[w])
             q == [kind |-> s, arg |-> call[w].arg]
  <1>1. ~Idle(w) /\ s \in Requests /\ UNCHANGED call
    BY DEF Ask, Step
  <1>2. Ends(call[w], s) \/ \E t : Leads(call[w], s, t)
    BY <1>1, ChainTail DEF Idle
  <1>3. CASE Repeat(w)
    BY <1>1, <1>3, Repeated DEF Repeat
  <1>5. CASE Serve(q) /\ Accepted(s, Answer(q)) /\ Advance(w)
    <2>1. Ends(call[w], s) => Goal(call[w])'
      BY <1>1, <1>5, RequestDone
    <2>2. QED
      BY <1>1, <1>5, <2>1, Advanced
  <1>6. CASE Continue(w, <<"updateCluster">>) /\ s = "addCluster"
    <2>1. <<"updateCluster">> \in Seq(Steps)
      BY DEF Steps, Requests
    <2>2. QED
      BY <1>1, <1>2, <1>6, <2>1, Continued, Asked
  <1>7. CASE Continue(w, <<"updateDataMax">>) /\ s = "addDataMax"
    <2>1. <<"updateDataMax">> \in Seq(Steps)
      BY DEF Steps, Requests
    <2>2. QED
      BY <1>1, <1>2, <1>7, <2>1, Continued, Asked
  <1>8. CASE Serve(q) /\ Answer(q) = "using" /\ call[w].op = "addCluster" /\ Return(w, "ok")
    <2>1. srv.edge /\ UNCHANGED srv
      BY <1>1, <1>8 DEF Serve, Answer, Requests, Roles
    <2>2. Goal(call[w])'
      BY <1>1, <1>8, <2>1 DEF Goal, Roles
    <2>3. QED
      BY <1>1, <1>8, <2>2, Returned DEF Turns
  <1>9. CASE Return(w, "error") \/ Again(w, MaxTries)
    BY <1>1, <1>9, Returned, Repeated DEF Fails
  <1>10. CASE Serve(q) /\ Reply(w, Answer(q))
    <2>1. \/ Accepted(s, Answer(q)) /\ Advance(w)
          \/ Continue(w, <<"updateCluster">>) /\ s = "addCluster"
          \/ Continue(w, <<"updateDataMax">>) /\ s = "addDataMax"
          \/ Answer(q) = "using" /\ call[w].op = "addCluster" /\ Return(w, "ok")
          \/ Return(w, "error") \/ Again(w, MaxTries)
      BY <1>10 DEF Reply, Accepted
    <2>2. QED
      BY <1>5, <1>6, <1>7, <1>8, <1>9, <1>10, <2>1
  <1>11. QED
    BY <1>3, <1>10 DEF Ask
-----------------------------------------------------------------------------
(***************************************************************************)
(* The calls                                                               *)
(***************************************************************************)
ObjTypes ==
  /\ dep \in Deployments /\ rs \in [there : BOOLEAN, image : Images]
  /\ pods \in Seq(Pods) /\ Len(pods) <= MaxPods
CmTypes ==
  /\ maps \in Maps /\ secrets \in Passwords /\ srv \in Servers /\ rw \in Nodes
  /\ phase \in [Nodes -> {"running", "starting", "failed"}] /\ switching \in BOOLEAN
  /\ late \subseteq [kind : Requests, arg : Nodes \cup Images \cup {None}]
PlanTypes ==
  /\ addr \in [Workflows -> Nodes \cup {None}]
  /\ call \in [Workflows -> AllOps]
  /\ plan \in Plans /\ nCalls \in 0..plan.calls /\ nFaults \in 0..plan.faults /\ nChurn \in 0..plan.churn
GhostTypes == met \in [Workflows -> BOOLEAN] /\ quiet \in [Workflows -> {"no", "yes", "enabled"}]

LEMMA TypeParts ==
  TypeOK /\ Formed <=> ObjTypes /\ CmTypes /\ PlanTypes /\ CallTypes /\ GhostTypes /\ Formed
  BY DEF TypeOK, Formed, ObjTypes, CmTypes, PlanTypes, CallTypes, GhostTypes

LEMMA TypePartsNext ==
  ObjTypes' /\ CmTypes' /\ PlanTypes' /\ CallTypes' /\ GhostTypes' => TypeOK'
  BY DEF TypeOK, ObjTypes, CmTypes, PlanTypes, CallTypes, GhostTypes

Base == ObjTypes /\ CmTypes /\ PlanTypes /\ CallTypes /\ GhostTypes /\ Formed /\ LateTyped /\ Remembered

LEMMA Facts ==
  ASSUME Base
  PROVE  /\ CallTypes /\ Remembered /\ Formed /\ LateTyped
         /\ dep \in Deployments /\ pods \in Seq(Pods) /\ rs \in [there : BOOLEAN, image : Images]
         /\ maps \in Maps /\ secrets \in Passwords /\ srv \in Servers
         /\ \A w \in Workflows : Chain(call[w], todo[w]) /\ call[w] \in AllOps
  BY DEF Base, ObjTypes, CmTypes, PlanTypes, Formed

\* The step that is due belongs to the call.
LEMMA Due ==
  ASSUME Base, NEW w \in Workflows, ~Idle(w)
  PROVE  /\ Ends(call[w], Head(todo[w])) \/ \E t : Leads(call[w], Head(todo[w]), t)
         /\ Chain(call[w], Tail(todo[w]))
         /\ Tail(todo[w]) = <<>> => Ends(call[w], Head(todo[w]))
         /\ Tail(todo[w]) # <<>> => Leads(call[w], Head(todo[w]), Head(Tail(todo[w])))
  BY Facts, ChainTail DEF Idle

\* A step of w, whatever it is, goes on with a proper list.
LEMMA Proceeds ==
  ASSUME Base, NEW w \in Workflows, Proceed(w)
  PROVE  /\ ~Idle(w) /\ Only(w) /\ UNCHANGED <<call, plan>>
         /\ Chain(call[w], todo'[w])
         /\ at'[w] = "begin" \/ todo'[w] = todo[w]
         /\ \/ Fails(w) \/ Passes(w) \/ todo'[w] = todo[w]
            \/ Turns(w, Removing(dep.there)) /\ call[w].op = "remove" /\ UNCHANGED dep
            \/ Turns(w, <<"updateCluster">>) /\ call[w].op = "addCluster"
            \/ Turns(w, <<"updateDataMax">>) /\ call[w].op = "addDataMax"
            \/ Turns(w, <<>>)
  <1> DEFINE G == /\ ~Idle(w) /\ Only(w)
                  /\ \/ Fails(w) \/ Passes(w) \/ todo'[w] = todo[w]
                     \/ Turns(w, Removing(dep.there)) /\ call[w].op = "remove" /\ UNCHANGED dep
                     \/ Turns(w, <<"updateCluster">>) /\ call[w].op = "addCluster"
                     \/ Turns(w, <<"updateDataMax">>) /\ call[w].op = "addDataMax"
                     \/ Turns(w, <<>>)
  <1>1. ASSUME \E s \in Ensured : Ensure(w, s) PROVE G
    BY <1>1, Facts, EnsureEnds DEF Halfway
  <1>2. ASSUME ApiFails(w) PROVE G
    BY <1>2, Facts, ApiFailsEnds
  <1>3. ASSUME Upgrade(w) PROVE G
    BY <1>3, Facts, UpgradeEnds DEF Halfway
  <1>4. ASSUME Affinity(w) PROVE G
    BY <1>4, Facts, AffinityEnds DEF Halfway
  <1>5. ASSUME GetDeployment(w) PROVE G
    BY <1>5, Facts, GetDeploymentEnds DEF GetDeployment
  <1>6. ASSUME DeleteDeployment(w) PROVE G
    BY <1>6, Facts, DeleteDeploymentEnds
  <1>7. ASSUME WaitForCmDeleted(w) PROVE G
    BY <1>7, Facts, WaitForCmDeletedEnds DEF Waits
  <1>8. ASSUME DeleteMap(w) PROVE G
    BY <1>8, Facts, DeleteMapEnds
  <1>9. ASSUME Connect(w) PROVE G
    BY <1>9, Facts, ConnectEnds DEF Waits
  <1>10. ASSUME Ask(w) PROVE G
    BY <1>10, Facts, AskEnds DEF Waits
  <1>11. ASSUME WaitForStartingCompleted(w) PROVE G
    BY <1>11, Facts, WaitStartedEnds
  <1>12. G
    BY <1>1, <1>2, <1>3, <1>4, <1>5, <1>6, <1>7, <1>8, <1>9, <1>10, <1>11 DEF Proceed, Ensured
  <1>13. UNCHANGED <<call, plan>>
    BY DEF Proceed, Ensure, ApiFails, Upgrade, Affinity, GetDeployment, DeleteDeployment,
           WaitForCmDeleted, DeleteMap, Connect, Ask, WaitForStartingCompleted, DepStep,
           ApiStep, Step
  <1>14. at'[w] = "begin" \/ todo'[w] = todo[w]
    BY <1>12 DEF Fails, Passes, Turns
  <1>15. /\ Chain(call[w], <<>>) /\ Chain(call[w], todo[w]) /\ Chain(call[w], Tail(todo[w]))
         /\ call[w].op = "remove" => Chain(call[w], Removing(dep.there))
    <2>1. Chain(call[w], <<>>)
      BY DEF Chain
    <2>2. dep.there \in BOOLEAN
      BY Facts DEF Deployments
    <2>3. QED
      BY <1>12, <2>1, <2>2, Facts, Due, RemovingChain
  <1>16. Chain(call[w], todo'[w])
    BY <1>12, <1>15, UpdateChain DEF Fails, Passes, Turns
  <1>17. QED
    BY <1>12, <1>13, <1>14, <1>16

\* The cluster leaves the calls alone, and a restart ends them.
Environment ==
  \/ Follow \/ StartPod \/ Churn \/ FailOver \/ FailedOver
  \/ \E k \in DOMAIN pods : PodRuns(k) \/ PodLeaves(k) \/ PodEnds(k)
  \/ \E n \in Nodes : EngineStarts(n)
  \/ \E q \in late : ServeLate(q)

LEMMA Kinds ==
  ASSUME [Next]_vars
  PROVE  \/ \E w \in Workflows : Proceed(w)
         \/ \E w \in Workflows : \E c \in plan.ops[w] : Call(w, c)
         \/ Environment \/ Crash \/ UNCHANGED vars
  BY DEF Next, Environment

LEMMA EnvironmentSteps ==
  ASSUME Environment
  PROVE  EnvStep
  BY DEF Environment, Follow, StartPod, Churn, FailOver, FailedOver, PodRuns, PodLeaves,
         PodEnds, EngineStarts, ServeLate

LEMMA Calls ==
  ASSUME Base, NEW w \in Workflows, NEW c \in plan.ops[w], Call(w, c)
  PROVE  /\ Idle(w) /\ Only(w) /\ c \in AllOps /\ at[w] = "begin" /\ at' = at /\ read' = read
         /\ todo'[w] = Program(c) /\ call' = [call EXCEPT ![w] = c] /\ result'[w] = "none"
  <1>1. c \in AllOps
    <2>1. plan.ops \in [Workflows -> SUBSET AllOps]
      BY ConstantsAssumption DEF Base, PlanTypes
    <2>2. QED
      BY <2>1
  <1>2. Program(c) \in Seq(Steps)
    BY <1>1, Programs DEF Chain
  <1>3. CallTypes
    BY DEF Base
  <1>4. CallTypes'
    BY <1>2, <1>3 DEF Call, Set, CallTypes
  <1>5. QED
    BY <1>1, <1>3, <1>4 DEF Call, Set, CallTypes, Only, Base, Formed

LEMMA CallStep ==
  ASSUME Base, [Next]_vars
  PROVE  CallTypes' /\ Formed'
  <1> DEFINE Fine(v) == /\ Chain(call'[v], todo'[v])
                        /\ todo'[v] = <<>> => at'[v] = "begin"
                        /\ todo'[v] # <<>> => call'[v] \in plan'.ops[v]
  <1>1. ASSUME NEW w \in Workflows, Proceed(w) PROVE CallTypes' /\ Formed'
    <2>1. /\ ~Idle(w) /\ Only(w) /\ UNCHANGED <<call, plan>> /\ Chain(call[w], todo'[w])
          /\ at'[w] = "begin" \/ todo'[w] = todo[w]
      BY <1>1, Proceeds
    <2>2. CallTypes'
      BY <2>1 DEF Only
    <2>3. Fine(w)
      BY <2>1 DEF Base, Formed, Idle
    <2>4. ASSUME NEW v \in Workflows \ {w} PROVE Fine(v)
      BY <2>1 DEF Base, Formed, Idle, Only
    <2>5. QED
      BY <2>2, <2>3, <2>4 DEF Formed, Idle, CallTypes
  <1>2. ASSUME NEW w \in Workflows, NEW c \in plan.ops[w], Call(w, c) PROVE CallTypes' /\ Formed'
    <2>1. /\ Only(w) /\ c \in AllOps /\ at[w] = "begin" /\ at' = at
          /\ todo'[w] = Program(c) /\ call' = [call EXCEPT ![w] = c] /\ plan' = plan
      BY <1>2, Calls DEF Call
    <2>2. call'[w] = c /\ \A v \in Workflows \ {w} : call'[v] = call[v]
      BY <2>1 DEF Base, PlanTypes
    <2>3. Fine(w)
      BY <1>2, <2>1, <2>2, Programs
    <2>4. ASSUME NEW v \in Workflows \ {w} PROVE Fine(v)
      BY <2>1, <2>2 DEF Base, Formed, Idle, Only
    <2>5. QED
      BY <2>1, <2>3, <2>4 DEF Formed, Idle, CallTypes, Only
  <1>3. CASE Environment
    BY <1>3, EnvironmentSteps DEF Base, EnvStep, callVars, CallTypes, Formed, Idle
  <1>4. CASE Crash
    <2>1. \A w \in Workflows : Chain(call[w], <<>>)
      BY DEF Chain
    <2>2. 0 \in 0..MaxTries - 1 \cup 0..MaxPolls
      BY DEF MaxTries
    <2>3. CallTypes'
      BY <1>4, <2>2 DEF Base, CallTypes, Crash
    <2>4. QED
      BY <1>4, <2>1, <2>3 DEF Formed, Crash, Idle, CallTypes
  <1>5. CASE UNCHANGED vars
    BY <1>5 DEF Base, vars, callVars, boundVars, CallTypes, Formed, Idle
  <1>6. QED
    BY <1>1, <1>2, <1>3, <1>4, <1>5, Kinds
-----------------------------------------------------------------------------
(***************************************************************************)
(* What may change a part of the state                                     *)
(***************************************************************************)
MayChange ==
  /\ \/ UNCHANGED dep
     \/ \E w \in Workflows, s \in Ensured : Ensure(w, s)
     \/ \E w \in Workflows : Upgrade(w)
     \/ \E w \in Workflows : DeleteDeployment(w)
  /\ \/ UNCHANGED rs \/ Follow
  /\ \/ UNCHANGED pods
     \/ \E w \in Workflows : Affinity(w)
     \/ StartPod
     \/ \E k \in DOMAIN pods : PodRuns(k)
     \/ \E k \in DOMAIN pods : PodLeaves(k)
     \/ \E k \in DOMAIN pods : PodEnds(k)
     \/ Churn
  /\ \/ UNCHANGED maps
     \/ \E w \in Workflows, s \in Ensured : Ensure(w, s)
     \/ \E w \in Workflows : DeleteMap(w)
     \/ \E w \in Workflows : Ask(w)
     \/ \E q \in late : ServeLate(q)
  /\ \/ UNCHANGED secrets
     \/ \E w \in Workflows, s \in Ensured : Ensure(w, s)
  /\ \/ UNCHANGED srv
     \/ \E w \in Workflows : DeleteMap(w)
     \/ \E w \in Workflows : Ask(w)
     \/ \E q \in late : ServeLate(q)
  /\ \/ UNCHANGED rw
     \/ \E w \in Workflows : Ask(w)
     \/ FailedOver
     \/ \E q \in late : ServeLate(q)
  /\ \/ UNCHANGED phase \/ Churn
     \/ \E n \in Nodes : EngineStarts(n)
  /\ \/ UNCHANGED switching \/ FailOver \/ FailedOver
  /\ \/ UNCHANGED late
     \/ \E w \in Workflows : Ask(w)
     \/ \E q \in late : ServeLate(q)
  /\ \/ UNCHANGED addr
     \/ \E w \in Workflows : Connect(w)
     \/ Crash

LEMMA Changes ==
  ASSUME [Next]_vars
  PROVE  MayChange
  <1>1. ASSUME NEW w \in Workflows, NEW c \in plan.ops[w], Call(w, c) PROVE MayChange
    <2>1. UNCHANGED <<dep, rs, pods, maps, secrets, srv, rw, phase, switching, late, addr>>
      BY <1>1 DEF Call, podVars, cmVars
    <2>2. QED
      BY <1>1, <2>1 DEF MayChange
  <1>2. ASSUME NEW w \in Workflows, NEW s \in Ensured, Ensure(w, s) PROVE MayChange
    <2>1. UNCHANGED <<rs, pods, srv, rw, phase, switching, late, addr>>
      BY <1>2 DEF Ensure, ApiStep, Step
    <2>2. QED
      BY <1>2, <2>1 DEF MayChange
  <1>3. ASSUME NEW w \in Workflows, ApiFails(w) PROVE MayChange
    <2>1. UNCHANGED <<dep, rs, pods, maps, secrets, srv, rw, phase, switching, late, addr>>
      BY <1>3 DEF ApiFails, ApiStep, Step, podVars
    <2>2. QED
      BY <1>3, <2>1 DEF MayChange
  <1>4. ASSUME NEW w \in Workflows, Upgrade(w) PROVE MayChange
    <2>1. UNCHANGED <<rs, pods, maps, secrets, srv, rw, phase, switching, late, addr>>
      BY <1>4 DEF Upgrade, DepStep, ApiStep, Step
    <2>2. QED
      BY <1>4, <2>1 DEF MayChange
  <1>5. ASSUME NEW w \in Workflows, Affinity(w) PROVE MayChange
    <2>1. UNCHANGED <<dep, rs, maps, secrets, srv, rw, phase, switching, late, addr>>
      BY <1>5 DEF Affinity, DepStep, ApiStep, Step
    <2>2. QED
      BY <1>5, <2>1 DEF MayChange
  <1>6. ASSUME NEW w \in Workflows, GetDeployment(w) PROVE MayChange
    <2>1. UNCHANGED <<dep, rs, pods, maps, secrets, srv, rw, phase, switching, late, addr>>
      BY <1>6 DEF GetDeployment, DepStep, ApiStep, Step
    <2>2. QED
      BY <1>6, <2>1 DEF MayChange
  <1>7. ASSUME NEW w \in Workflows, DeleteDeployment(w) PROVE MayChange
    <2>1. UNCHANGED <<rs, pods, maps, secrets, srv, rw, phase, switching, late, addr>>
      BY <1>7 DEF DeleteDeployment, DepStep, ApiStep, Step
    <2>2. QED
      BY <1>7, <2>1 DEF MayChange
  <1>8. ASSUME NEW w \in Workflows, WaitForCmDeleted(w) PROVE MayChange
    <2>1. UNCHANGED <<dep, rs, pods, maps, secrets, srv, rw, phase, switching, late, addr>>
      BY <1>8 DEF WaitForCmDeleted, DepStep, ApiStep, Step
    <2>2. QED
      BY <1>8, <2>1 DEF MayChange
  <1>9. ASSUME NEW w \in Workflows, DeleteMap(w) PROVE MayChange
    <2>1. UNCHANGED <<dep, rs, pods, secrets, rw, phase, switching, late, addr>>
      BY <1>9 DEF DeleteMap, ApiStep, Step, podVars
    <2>2. QED
      BY <1>9, <2>1 DEF MayChange
  <1>10. ASSUME NEW w \in Workflows, Connect(w) PROVE MayChange
    <2>1. UNCHANGED <<dep, rs, pods, maps, secrets, srv, rw, phase, switching, late>>
      BY <1>10 DEF Connect, Step, podVars
    <2>2. QED
      BY <1>10, <2>1 DEF MayChange
  <1>11. ASSUME NEW w \in Workflows, Ask(w) PROVE MayChange
    <2>1. UNCHANGED <<dep, rs, pods, secrets, phase, switching, addr>>
      BY <1>11 DEF Ask, Step, podVars
    <2>2. QED
      BY <1>11, <2>1 DEF MayChange
  <1>12. ASSUME NEW w \in Workflows, WaitForStartingCompleted(w) PROVE MayChange
    <2>1. UNCHANGED <<dep, rs, pods, maps, secrets, srv, rw, phase, switching, late, addr>>
      BY <1>12 DEF WaitForStartingCompleted, Step, podVars
    <2>2. QED
      BY <1>12, <2>1 DEF MayChange
  <1>13. CASE Follow
    <2>1. UNCHANGED <<dep, pods, maps, secrets, srv, rw, phase, switching, late, addr>>
      BY <1>13 DEF Follow, PodStep, EnvStep, cmVars, callVars
    <2>2. QED
      BY <1>13, <2>1 DEF MayChange
  <1>14. CASE StartPod
    <2>1. UNCHANGED <<dep, rs, maps, secrets, srv, rw, phase, switching, late, addr>>
      BY <1>14 DEF StartPod, PodStep, EnvStep, cmVars, callVars
    <2>2. QED
      BY <1>14, <2>1 DEF MayChange
  <1>15. ASSUME NEW k \in DOMAIN pods, PodRuns(k) PROVE MayChange
    <2>1. UNCHANGED <<dep, rs, maps, secrets, srv, rw, phase, switching, late, addr>>
      BY <1>15 DEF PodRuns, PodStep, EnvStep, cmVars, callVars
    <2>2. QED
      BY <1>15, <2>1 DEF MayChange
  <1>16. ASSUME NEW k \in DOMAIN pods, PodLeaves(k) PROVE MayChange
    <2>1. UNCHANGED <<dep, rs, maps, secrets, srv, rw, phase, switching, late, addr>>
      BY <1>16 DEF PodLeaves, PodStep, EnvStep, cmVars, callVars
    <2>2. QED
      BY <1>16, <2>1 DEF MayChange
  <1>17. ASSUME NEW k \in DOMAIN pods, PodEnds(k) PROVE MayChange
    <2>1. UNCHANGED <<dep, rs, maps, secrets, srv, rw, phase, switching, late, addr>>
      BY <1>17 DEF PodEnds, PodStep, EnvStep, cmVars, callVars
    <2>2. QED
      BY <1>17, <2>1 DEF MayChange
  <1>18. CASE Churn
    <2>1. UNCHANGED <<dep, rs, maps, secrets, srv, rw, switching, late, addr>>
      BY <1>18 DEF Churn, PodStep, EnvStep, podVars, cmVars, callVars
    <2>2. QED
      BY <1>18, <2>1 DEF MayChange
  <1>19. ASSUME NEW n \in Nodes, EngineStarts(n) PROVE MayChange
    <2>1. UNCHANGED <<dep, rs, pods, maps, secrets, srv, rw, switching, late, addr>>
      BY <1>19 DEF EngineStarts, EnvStep, podVars, callVars
    <2>2. QED
      BY <1>19, <2>1 DEF MayChange
  <1>20. CASE FailOver
    <2>1. UNCHANGED <<dep, rs, pods, maps, secrets, srv, rw, phase, late, addr>>
      BY <1>20 DEF FailOver, EnvStep, podVars, callVars
    <2>2. QED
      BY <1>20, <2>1 DEF MayChange
  <1>21. CASE FailedOver
    <2>1. UNCHANGED <<dep, rs, pods, maps, secrets, srv, phase, late, addr>>
      BY <1>21 DEF FailedOver, EnvStep, podVars, callVars
    <2>2. QED
      BY <1>21, <2>1 DEF MayChange
  <1>22. ASSUME NEW q \in late, ServeLate(q) PROVE MayChange
    <2>1. UNCHANGED <<dep, rs, pods, secrets, phase, switching, addr>>
      BY <1>22 DEF ServeLate, EnvStep, podVars, callVars
    <2>2. QED
      BY <1>22, <2>1 DEF MayChange
  <1>23. CASE Crash
    <2>1. UNCHANGED <<dep, rs, pods, maps, secrets, srv, rw, phase, switching, late>>
      BY <1>23 DEF Crash, podVars, cmVars
    <2>2. QED
      BY <1>23, <2>1 DEF MayChange
  <1>24. CASE UNCHANGED vars
    BY <1>24 DEF MayChange, vars, podVars, cmVars, callVars
  <1>25. QED
    BY <1>1, <1>2, <1>3, <1>4, <1>5, <1>6, <1>7, <1>8, <1>9, <1>10, <1>11, <1>12, <1>13, <1>14,
       <1>15, <1>16, <1>17, <1>18, <1>19, <1>20, <1>21, <1>22, <1>23, <1>24
       DEF Next, Proceed, Ensured
-----------------------------------------------------------------------------
(***************************************************************************)
(* How each part may change                                                *)
(***************************************************************************)
\* A call under way is one of the plan's.
LEMMA Planned ==
  ASSUME Base, NEW w \in Workflows, ~Idle(w)
  PROVE  /\ call[w].op = "create" => Creates
         /\ call[w].op = "remove" => Removes
  BY DEF Base, Formed, Creates, Removes

DepMoves ==
  \/ UNCHANGED dep
  \/ /\ UNCHANGED <<rs, pods>>
     /\ \/ /\ Creates /\ ~dep.there
           /\ dep'.there /\ dep'.strategy = "RollingUpdate" /\ dep'.image \in Images
        \/ /\ dep.there /\ dep'.there /\ dep'.strategy = "Recreate" /\ dep'.image \in Images
        \/ /\ Removes /\ dep.there
           /\ ~dep'.there /\ dep'.strategy = dep.strategy /\ dep'.image = dep.image

LEMMA DepStepMoves ==
  ASSUME Base, [Next]_vars
  PROVE  DepMoves /\ dep' \in Deployments
  <1>1. ASSUME NEW w \in Workflows, NEW s \in Ensured, Ensure(w, s), dep' # dep
        PROVE  DepMoves /\ dep' \in Deployments
    <2>1. ~Idle(w) /\ Head(todo[w]) = s
      BY <1>1 DEF Ensure, Doing
    <2>2. s = "deploy" /\ ~dep.there /\ dep' = [there |-> TRUE, image |-> call[w].arg, strategy |-> "RollingUpdate"]
      BY <1>1 DEF Ensure, Make, MayMake, Exists, Accounts
    <2>3. call[w].op = "create"
      BY <2>1, <2>2, Due, Facts, Asked, ZenonT(40)
    <2>4. call[w].arg \in Images /\ Creates
      BY <2>1, <2>3, Facts, Planned DEF AllOps, Roles
    <2>5. UNCHANGED <<rs, pods>>
      BY <1>1 DEF Ensure
    <2>6. QED
      BY <2>2, <2>4, <2>5 DEF DepMoves, Deployments
  <1>2. ASSUME NEW w \in Workflows, Upgrade(w), dep' # dep
        PROVE  DepMoves /\ dep' \in Deployments
    <2>1. ~Idle(w) /\ Head(todo[w]) = "upgrade" /\ dep \in Deployments
      BY <1>2, Facts DEF Upgrade, Doing
    <2>2. dep.there /\ dep' = [dep EXCEPT !.image = call[w].arg, !.strategy = "Recreate"]
      BY <1>2, Facts DEF Upgrade, Upgraded, Remembered, Recalls
    <2>3. call[w].op = "upgrade"
      BY <2>1, Due, Facts, Asked
    <2>4. call[w].arg \in Images
      BY <2>3, Facts DEF AllOps, Roles
    <2>5. UNCHANGED <<rs, pods>>
      BY <1>2 DEF Upgrade, DepStep
    <2>6. QED
      BY <2>1, <2>2, <2>4, <2>5 DEF DepMoves, Deployments
  <1>3. ASSUME NEW w \in Workflows, DeleteDeployment(w), dep' # dep
        PROVE  DepMoves /\ dep' \in Deployments
    <2>1. ~Idle(w) /\ Head(todo[w]) = "deleteDep" /\ dep \in Deployments
      BY <1>3, Facts DEF DeleteDeployment, Doing
    <2>2. dep.there /\ dep' = [dep EXCEPT !.there = FALSE] /\ UNCHANGED <<rs, pods>>
      BY <1>3 DEF DeleteDeployment, DepStep
    <2>3. call[w].op = "remove"
      BY <2>1, Due, Facts, Asked
    <2>4. QED
      BY <2>1, <2>2, <2>3, Planned DEF DepMoves, Deployments
  <1>4. CASE UNCHANGED dep
    BY <1>4, Facts DEF DepMoves
  <1>5. QED
    BY <1>1, <1>2, <1>3, <1>4, Changes DEF MayChange

RsMoves ==
  \/ UNCHANGED rs
  \/ /\ dep.there /\ UNCHANGED <<dep, pods>> /\ rs' = [there |-> TRUE, image |-> dep.image]
     /\ dep.strategy = "Recreate" => Present = {}
  \/ /\ ~dep.there /\ UNCHANGED <<dep, pods>> /\ rs' = [rs EXCEPT !.there = FALSE]

LEMMA RsStepMoves ==
  ASSUME Base, [Next]_vars
  PROVE  RsMoves /\ rs' \in [there : BOOLEAN, image : Images]
  <1>1. CASE UNCHANGED rs
    BY <1>1, Facts DEF RsMoves
  <1>2. CASE Follow
    <2>1. UNCHANGED <<dep, pods>> /\ dep.there \in BOOLEAN /\ dep.image \in Images
      BY <1>2, Facts DEF Follow, PodStep, Deployments
    <2>2. CASE dep.there
      <3>1. /\ rs' = [there |-> TRUE, image |-> dep.image]
            /\ dep.strategy = "Recreate" => Present = {}
        BY <1>2, <2>2 DEF Follow
      <3>2. QED
        BY <2>1, <2>2, <3>1 DEF RsMoves
    <2>3. CASE ~dep.there
      BY <1>2, <2>1, <2>3, Facts DEF RsMoves, Follow
    <2>4. QED
      BY <2>1, <2>2, <2>3
  <1>3. QED
    BY <1>1, <1>2, Changes DEF MayChange

\* Pods leave and end, and the ReplicaSet starts new ones.
PodsMove ==
  /\ pods' \in Seq(Pods) /\ Len(pods') <= MaxPods /\ DOMAIN pods \subseteq DOMAIN pods'
  /\ \A k \in DOMAIN pods :
       /\ pods'[k].image = pods[k].image /\ pods'[k].orphan = pods[k].orphan
       /\ pods'[k].state \in {"pending", "running"} => pods[k].state \in {"pending", "running"}
       /\ pods[k].state \in {"pending", "running"} => pods'[k].state # "gone"
       /\ pods[k].state = "gone" => pods'[k].state = "gone"
  /\ \A k \in DOMAIN pods' \ DOMAIN pods :
       /\ UNCHANGED <<dep, rs>>
       /\ rs.there /\ pods'[k].image = rs.image /\ pods'[k].orphan = ~dep.there

LEMMA EditMoves ==
  ASSUME pods \in Seq(Pods), Len(pods) <= MaxPods, NEW k \in DOMAIN pods, NEW s \in {"running", "leaving", "gone"},
         s = "running" => pods[k].state = "pending",
         s = "gone" => pods[k].state = "leaving",
         s = "leaving" => pods[k].state # "gone",
         pods' = [pods EXCEPT ![k].state = s]
  PROVE  PodsMove
  <1>1. /\ pods' \in Seq(Pods) /\ Len(pods') = Len(pods) /\ DOMAIN pods' = DOMAIN pods
        /\ pods'[k].state = s
        /\ \A j \in DOMAIN pods : /\ j # k => pods'[j] = pods[j]
                                  /\ pods'[j].image = pods[j].image /\ pods'[j].orphan = pods[j].orphan
    <2> DEFINE e == [pods[k] EXCEPT !.state = s]
    <2>1. pods' = [pods EXCEPT ![k] = e]
      OBVIOUS
    <2>2. s \in States /\ e = [pods[k] EXCEPT !.state = s]
      BY DEF States
    <2> HIDE DEF e
    <2>3. QED
      BY <2>1, <2>2, PodEdited
  <1>2. ASSUME NEW j \in DOMAIN pods
        PROVE  /\ pods'[j].state \in {"pending", "running"} => pods[j].state \in {"pending", "running"}
               /\ pods[j].state \in {"pending", "running"} => pods'[j].state # "gone"
               /\ pods[j].state = "gone" => pods'[j].state = "gone"
    <2>1. CASE j = k
      BY <1>1, <2>1
    <2>2. CASE j # k
      BY <1>1, <1>2, <2>2
    <2>3. QED
      BY <2>1, <2>2
  <1>3. QED
    BY <1>1, <1>2 DEF PodsMove

LEMMA PodsStepMoves ==
  ASSUME Base, [Next]_vars
  PROVE  PodsMove
  <1>1. pods \in Seq(Pods) /\ Len(pods) <= MaxPods
    BY DEF Base, ObjTypes
  <1>2. CASE UNCHANGED pods
    BY <1>1, <1>2 DEF PodsMove
  <1>3. ASSUME NEW w \in Workflows, Affinity(w), pods' # pods PROVE PodsMove
    <2>1. read[w] \in Present /\ pods' = [pods EXCEPT ![read[w]].state = "leaving"]
      BY <1>3 DEF Affinity
    <2>2. QED
      BY <1>1, <2>1, EditMoves DEF Present
  <1>4. CASE StartPod
    <2>1. PICK n \in Nodes : pods' = Append(pods, [state |-> "pending", node |-> n, image |-> rs.image,
                                                  orphan |-> ~dep.there])
      BY <1>4 DEF StartPod
    <2> DEFINE p == [state |-> "pending", node |-> n, image |-> rs.image, orphan |-> ~dep.there]
    <2>2. p \in Pods /\ p.image = rs.image /\ p.orphan = ~dep.there
      BY Facts DEF Pods
    <2>3. rs.there /\ UNCHANGED <<dep, rs>> /\ Len(pods) < MaxPods
      BY <1>4 DEF StartPod, PodStep
    <2> HIDE DEF p
    <2>4. pods' = Append(pods, p)
      BY <2>1 DEF p
    <2>5. /\ pods' \in Seq(Pods) /\ Len(pods') = Len(pods) + 1
          /\ DOMAIN pods = 1 .. Len(pods) /\ DOMAIN pods' = 1 .. Len(pods) + 1
          /\ \A k \in DOMAIN pods : pods'[k] = pods[k]
          /\ pods'[Len(pods) + 1] = p
      BY <1>1, <2>2, <2>4
    <2>6. Len(pods) \in Nat /\ MaxPods \in Nat
      BY <1>1, ConstantsAssumption
    <2>7. DOMAIN pods \subseteq DOMAIN pods' /\ \A k \in DOMAIN pods' \ DOMAIN pods : k = Len(pods) + 1
      BY <2>5, <2>6
    <2>8. Len(pods') <= MaxPods
      BY <2>3, <2>5, <2>6
    <2>9. QED
      BY <2>2, <2>3, <2>5, <2>7, <2>8 DEF PodsMove
  <1>5. ASSUME NEW k \in DOMAIN pods, PodRuns(k) \/ PodEnds(k) PROVE PodsMove
    BY <1>1, <1>5, EditMoves DEF PodRuns, PodEnds
  <1>6. ASSUME NEW k \in DOMAIN pods, PodLeaves(k) PROVE PodsMove
    BY <1>1, <1>6, EditMoves DEF PodLeaves, Active
  <1>7. CASE Churn /\ pods' # pods
    <2>1. PICK k \in Active : pods' = [pods EXCEPT ![k].state = "leaving"]
      BY <1>7 DEF Churn, podVars
    <2>2. QED
      BY <1>1, <2>1, EditMoves DEF Active
  <1>8. QED
    BY <1>2, <1>3, <1>4, <1>5, <1>6, <1>7, Changes DEF MayChange

\* An account that has a password keeps it.
LEMMA SecretsKept ==
  ASSUME Base, [Next]_vars
  PROVE  secrets' \in Passwords /\ \A a \in Accounts : secrets[a] # 0 => secrets'[a] = secrets[a]
  <1>1. ASSUME NEW w \in Workflows, NEW s \in Ensured, Ensure(w, s), secrets' # secrets
        PROVE  secrets' \in Passwords /\ \A a \in Accounts : secrets[a] # 0 => secrets'[a] = secrets[a]
    <2>1. s \in Accounts /\ secrets[s] = 0 /\ secrets' = [secrets EXCEPT ![s] = NewPassword]
      BY <1>1 DEF Ensure, Make, MayMake, Exists, Accounts
    <2>2. NewPassword \in Nat
      BY Facts, FreshPassword
    <2>3. QED
      BY <2>1, <2>2, Facts DEF Passwords
  <1>2. CASE UNCHANGED secrets
    BY <1>2, Facts
  <1>3. QED
    BY <1>1, <1>2, Changes DEF MayChange
-----------------------------------------------------------------------------
(***************************************************************************)
(* What the CM knows                                                       *)
(***************************************************************************)
Asks == [kind : Requests, arg : Nodes \cup Images \cup {None}]

LEMMA Served ==
  ASSUME Base, NEW q \in Asks, q.kind \in Placed => q.arg \in Nodes, Serve(q)
  PROVE  /\ srv' \in Servers /\ rw' \in Nodes /\ maps' \in Maps
         /\ maps'.conf = maps.conf /\ maps'.meta = maps.meta
         /\ maps'.flag = "none" <=> maps.flag = "none"
         /\ q.kind = "disableHA" => maps'.flag # "on" /\ ~switching
         /\ maps'.flag = "on" => maps.flag = "on" \/ q.kind = "enableHA"
  <1>1. srv \in Servers /\ rw \in Nodes /\ maps \in Maps
    BY DEF Base, CmTypes
  <1>2. CASE Answer(q) # "ok"
    <2>1. q.kind = "disableHA" => maps.flag = "none"
      BY <1>2 DEF Answer, Roles
    <2>2. QED
      BY <1>1, <1>2, <2>1 DEF Serve, CanServe
  <1>3. CASE Answer(q) = "ok"
    <2>1. q.kind \in {"disableHA", "enableHA"} => maps.flag # "none"
      BY <1>3 DEF Answer, Roles
    <2>2. srv' \in Servers
      <3>1. srv' = Effect(q)
        BY <1>3 DEF Serve
      <3>2. QED
        BY <1>1, <3>1, ZenonT(40) DEF Effect, Servers, Placed, Roles
    <2>3. rw' \in Nodes
      BY <1>1, <1>3 DEF Serve, Placed
    <2>4. /\ maps' \in Maps
          /\ maps'.conf = maps.conf /\ maps'.meta = maps.meta
          /\ maps'.flag = "none" <=> maps.flag = "none"
          /\ q.kind = "disableHA" => maps'.flag # "on" /\ ~switching
          /\ maps'.flag = "on" => maps.flag = "on" \/ q.kind = "enableHA"
      BY <1>1, <1>3, <2>1 DEF Serve, CanServe, Maps
    <2>5. QED
      BY <2>2, <2>3, <2>4
  <1>4. QED
    BY <1>2, <1>3

LEMMA Asking ==
  ASSUME Base, NEW w \in Workflows, Ask(w)
  PROVE  LET q == [kind |-> Head(todo[w]), arg |-> call[w].arg] IN
         /\ q \in Asks /\ (q.kind \in Placed => q.arg \in Nodes)
         /\ Serve(q) \/ UNCHANGED <<maps, srv, rw>>
         /\ late' \subseteq late \cup {q}
  <1>1. ~Idle(w) /\ Head(todo[w]) \in Requests
    BY DEF Ask, Step
  <1>2. call[w].arg \in Nodes \cup Images \cup {None}
    BY Facts DEF AllOps
  <1>3. Head(todo[w]) \in Placed => call[w].arg \in Nodes
    BY <1>1, Due, Facts, Asked
  <1>4. QED
    BY <1>1, <1>2, <1>3 DEF Ask, Asks

LEMMA LateServed ==
  ASSUME Base, NEW q \in late, ServeLate(q)
  PROVE  q \in Asks /\ (q.kind \in Placed => q.arg \in Nodes) /\ Serve(q) /\ late' \subseteq late
  BY DEF Base, CmTypes, LateTyped, ServeLate, Asks

\* ConfigMaps are made by a creation, and taken away by a removal.
MapsMove ==
  /\ maps' \in Maps
  /\ \/ maps'.conf = maps.conf
     \/ /\ Creates /\ maps.conf = NoSecrets /\ maps'.conf = secrets /\ Given /\ UNCHANGED secrets
     \/ /\ maps'.conf = NoSecrets /\ UNCHANGED <<dep, pods>>
        /\ \E w \in Workflows : Doing(w, "delConf") /\ call[w].op = "remove"
  /\ maps.meta # maps'.meta => IF maps'.meta THEN Creates ELSE Removes
  /\ maps.flag = "none" /\ maps'.flag # "none" => Creates
  /\ maps.flag # "none" /\ maps'.flag = "none" => Removes

LEMMA MapsStepMoves ==
  ASSUME Base, [Next]_vars
  PROVE  MapsMove
  <1>1. maps \in Maps
    BY Facts
  <1>2. CASE UNCHANGED maps
    BY <1>1, <1>2 DEF MapsMove
  <1>3. ASSUME NEW w \in Workflows, NEW s \in Ensured, Ensure(w, s), maps' # maps
        PROVE  MapsMove
    <2>1. ~Idle(w) /\ Head(todo[w]) = s
      BY <1>3 DEF Ensure, Doing
    <2>2. at[w] = "make" /\ MayMake(s) /\ Make(s, read[w], call[w].arg)
      BY <1>3 DEF Ensure
    <2>3. s \in {"conf", "meta", "flag"}
      BY <1>3, <2>2 DEF Make, Ensured, Accounts
    <2>4. Creates
      BY <2>1, <2>3, Due, Facts, Asked, Planned
    <2>5. CASE s = "conf"
      <3>1. /\ read[w] = secrets /\ Given /\ maps' = [maps EXCEPT !.conf = secrets] /\ UNCHANGED secrets
            /\ maps.conf = NoSecrets
        BY <2>1, <2>2, <2>5, Facts DEF Remembered, Recalls, Make, MayMake, Exists, Accounts
      <3>2. QED
        BY <1>1, <2>4, <3>1, Facts DEF MapsMove, Maps
    <2>6. CASE s = "meta"
      <3>1. maps' = [maps EXCEPT !.meta = TRUE]
        BY <2>2, <2>6 DEF Make, Accounts
      <3>2. QED
        BY <1>1, <2>4, <3>1 DEF MapsMove, Maps
    <2>7. CASE s = "flag"
      <3>1. maps' = [maps EXCEPT !.flag = "on"]
        BY <2>2, <2>7 DEF Make, Accounts
      <3>2. QED
        BY <1>1, <2>4, <3>1 DEF MapsMove, Maps
    <2>8. QED
      BY <2>3, <2>5, <2>6, <2>7
  <1>4. ASSUME NEW w \in Workflows, DeleteMap(w) PROVE MapsMove
    <2>1. ~Idle(w) /\ Head(todo[w]) \in {"delConf", "delMeta", "delFlag", "delOthers"} /\ UNCHANGED <<dep, pods>>
      BY <1>4 DEF DeleteMap, ApiStep, Step, podVars
    <2>2. call[w].op = "remove" /\ Removes
      BY <2>1, Due, Facts, Asked, Planned
    <2>3. CASE Head(todo[w]) = "delConf"
      <3>1. maps' = [maps EXCEPT !.conf = NoSecrets] /\ Doing(w, "delConf")
        BY <1>4, <2>1, <2>3 DEF DeleteMap, Doing
      <3>2. NoSecrets \in Passwords
        BY DEF NoSecrets, Passwords
      <3>3. QED
        BY <1>1, <2>1, <2>2, <3>1, <3>2 DEF MapsMove, Maps
    <2>4. CASE Head(todo[w]) # "delConf"
      <3>1. \/ maps' = [maps EXCEPT !.meta = FALSE] \/ maps' = [maps EXCEPT !.flag = "none"]
            \/ maps' = [maps EXCEPT !.others = FALSE]
        BY <1>4, <2>1, <2>4 DEF DeleteMap
      <3>2. QED
        BY <1>1, <2>2, <3>1 DEF MapsMove, Maps
    <2>5. QED
      BY <2>3, <2>4
  <1>5. ASSUME NEW q \in Asks, q.kind \in Placed => q.arg \in Nodes, Serve(q) PROVE MapsMove
    BY <1>1, <1>5, Served DEF MapsMove
  <1>6. ASSUME NEW w \in Workflows, Ask(w) PROVE MapsMove
    BY <1>2, <1>5, <1>6, Asking
  <1>7. ASSUME NEW q \in late, ServeLate(q) PROVE MapsMove
    BY <1>5, <1>7, LateServed
  <1>8. QED
    BY <1>2, <1>3, <1>4, <1>6, <1>7, Changes DEF MayChange

LEMMA CmStep ==
  ASSUME Base, [Next]_vars
  PROVE  CmTypes' /\ LateTyped'
  <1>1. maps' \in Maps /\ secrets' \in Passwords
    BY MapsStepMoves, SecretsKept DEF MapsMove
  <1>2. srv \in Servers /\ rw \in Nodes
    BY DEF Base, CmTypes
  <1>3. srv' \in Servers
    <2>1. ASSUME NEW w \in Workflows, DeleteMap(w) PROVE srv' \in Servers
      BY <1>2, <2>1 DEF DeleteMap, NewServer, Servers
    <2>2. QED
      BY <1>2, <2>1, Asking, LateServed, Served, Changes DEF MayChange
  <1>4. rw' \in Nodes
    <2>1. CASE FailedOver
      BY <1>2, <2>1 DEF FailedOver, Servers
    <2>2. QED
      BY <1>2, <2>1, Asking, LateServed, Served, Changes DEF MayChange
  <1>5. phase' \in [Nodes -> {"running", "starting", "failed"}]
    <2>1. phase \in [Nodes -> {"running", "starting", "failed"}]
      BY DEF Base, CmTypes
    <2>2. CASE Churn
      BY <2>1, <2>2 DEF Churn, PodStep, cmVars
    <2>3. ASSUME NEW n \in Nodes, EngineStarts(n)
          PROVE  phase' \in [Nodes -> {"running", "starting", "failed"}]
      BY <2>1, <2>3 DEF EngineStarts
    <2>4. QED
      BY <2>1, <2>2, <2>3, Changes DEF MayChange
  <1>6. switching' \in BOOLEAN
    BY Changes DEF MayChange, FailOver, FailedOver, Base, CmTypes
  <1>7. late \subseteq Asks /\ LateTyped
    BY DEF Base, CmTypes, Asks
  <1>8. late' \subseteq Asks /\ LateTyped'
    <2>1. ASSUME NEW w \in Workflows, Ask(w) PROVE late' \subseteq Asks /\ LateTyped'
      BY <1>7, <2>1, Asking DEF LateTyped
    <2>2. ASSUME NEW q \in late, ServeLate(q) PROVE late' \subseteq Asks /\ LateTyped'
      BY <1>7, <2>2, LateServed DEF LateTyped
    <2>3. CASE UNCHANGED late
      BY <1>7, <2>3 DEF LateTyped
    <2>4. QED
      BY <2>1, <2>2, <2>3, Changes DEF MayChange
  <1>9. QED
    BY <1>1, <1>3, <1>4, <1>5, <1>6, <1>8 DEF CmTypes, Asks

LEMMA ConfiguredStep ==
  ASSUME Base, Configured, [Next]_vars
  PROVE  Configured'
  <1>1. MapsMove /\ secrets' \in Passwords /\ \A a \in Accounts : secrets[a] # 0 => secrets'[a] = secrets[a]
    BY MapsStepMoves, SecretsKept
  <1>2. Given => secrets' = secrets
    BY <1>1, Facts DEF Given, Passwords
  <1>3. QED
    BY <1>1, <1>2 DEF MapsMove, Configured, Given
-----------------------------------------------------------------------------
(***************************************************************************)
(* Types                                                                   *)
(***************************************************************************)
LEMMA ObjStep ==
  ASSUME Base, [Next]_vars
  PROVE  ObjTypes'
  BY DepStepMoves, RsStepMoves, PodsStepMoves DEF ObjTypes, PodsMove

LEMMA AddrStep ==
  ASSUME Base, [Next]_vars
  PROVE  addr' \in [Workflows -> Nodes \cup {None}]
  <1>1. addr \in [Workflows -> Nodes \cup {None}]
    BY DEF Base, PlanTypes
  <1>2. ASSUME NEW w \in Workflows, Connect(w) PROVE addr' \in [Workflows -> Nodes \cup {None}]
    <2>1. CASE \E k \in TheRunning : addr' = Set(addr, w, pods[k].node)
      <3>1. PICK k \in TheRunning : addr' = Set(addr, w, pods[k].node)
        BY <2>1
      <3>2. k \in DOMAIN pods
        BY <3>1 DEF TheRunning, Active, Running
      <3>3. pods[k].node \in Nodes
        <4>1. pods[k] \in Pods
          BY <3>2, Facts
        <4>2. QED
          BY <4>1 DEF Pods
      <3>4. QED
        BY <1>1, <3>1, <3>3 DEF Set
    <2>2. QED
      BY <1>1, <1>2, <2>1, Facts DEF Connect, Deployments
  <1>3. CASE Crash
    BY <1>3 DEF Crash
  <1>4. QED
    BY <1>1, <1>2, <1>3, Changes DEF MayChange

\* What is counted: calls, faults, and what the cluster does by itself.
CountersMove ==
  /\ UNCHANGED plan
  /\ UNCHANGED nCalls \/ (nCalls < plan.calls /\ nCalls' = nCalls + 1)
  /\ UNCHANGED nFaults \/ (nFaults < plan.faults /\ nFaults' = nFaults + 1)
  /\ UNCHANGED nChurn \/ (nChurn < plan.churn /\ nChurn' = nChurn + 1)

LEMMA Counting ==
  ASSUME [Next]_vars
  PROVE  CountersMove
  <1>1. ASSUME NEW w \in Workflows, NEW c \in plan.ops[w], Call(w, c) PROVE CountersMove
    BY <1>1 DEF Call, podVars, cmVars, CountersMove
  <1>2. ASSUME NEW w \in Workflows, NEW s \in Ensured, Ensure(w, s) PROVE CountersMove
    BY <1>2 DEF Ensure, ApiStep, Step, CountersMove, Answered, Fault, NoFault
  <1>3. ASSUME NEW w \in Workflows, ApiFails(w) PROVE CountersMove
    BY <1>3 DEF ApiFails, ApiStep, Step, CountersMove, Fault
  <1>4. ASSUME NEW w \in Workflows, Upgrade(w) PROVE CountersMove
    BY <1>4 DEF Upgrade, DepStep, ApiStep, Step, CountersMove, Answered, Fault, NoFault
  <1>5. ASSUME NEW w \in Workflows, Affinity(w) PROVE CountersMove
    BY <1>5 DEF Affinity, DepStep, ApiStep, Step, CountersMove, Answered, Fault, NoFault
  <1>6. ASSUME NEW w \in Workflows, GetDeployment(w) PROVE CountersMove
    BY <1>6 DEF GetDeployment, DepStep, ApiStep, Step, CountersMove, NoFault
  <1>7. ASSUME NEW w \in Workflows, DeleteDeployment(w) PROVE CountersMove
    BY <1>7 DEF DeleteDeployment, DepStep, ApiStep, Step, CountersMove, Answered, Fault, NoFault
  <1>8. ASSUME NEW w \in Workflows, WaitForCmDeleted(w) PROVE CountersMove
    BY <1>8 DEF WaitForCmDeleted, DepStep, ApiStep, Step, CountersMove, NoFault
  <1>9. ASSUME NEW w \in Workflows, DeleteMap(w) PROVE CountersMove
    BY <1>9 DEF DeleteMap, ApiStep, Step, CountersMove, Answered, Fault, NoFault
  <1>10. ASSUME NEW w \in Workflows, Connect(w) PROVE CountersMove
    BY <1>10 DEF Connect, Step, CountersMove, Fault, NoFault
  <1>11. ASSUME NEW w \in Workflows, Ask(w) PROVE CountersMove
    BY <1>11 DEF Ask, Step, CountersMove, Fault, NoFault
  <1>12. ASSUME NEW w \in Workflows, WaitForStartingCompleted(w) PROVE CountersMove
    BY <1>12 DEF WaitForStartingCompleted, Step, CountersMove, Fault, NoFault
  <1>13. CASE Follow
    BY <1>13 DEF Follow, EnvStep, CountersMove
  <1>14. CASE StartPod
    BY <1>14 DEF StartPod, EnvStep, CountersMove
  <1>15. ASSUME NEW k \in DOMAIN pods, PodRuns(k) PROVE CountersMove
    BY <1>15 DEF PodRuns, EnvStep, CountersMove
  <1>16. ASSUME NEW k \in DOMAIN pods, PodLeaves(k) PROVE CountersMove
    BY <1>16 DEF PodLeaves, EnvStep, CountersMove
  <1>17. ASSUME NEW k \in DOMAIN pods, PodEnds(k) PROVE CountersMove
    BY <1>17 DEF PodEnds, EnvStep, CountersMove
  <1>18. CASE Churn
    BY <1>18 DEF Churn, EnvStep, CountersMove
  <1>19. ASSUME NEW n \in Nodes, EngineStarts(n) PROVE CountersMove
    BY <1>19 DEF EngineStarts, EnvStep, CountersMove
  <1>20. CASE FailOver
    BY <1>20 DEF FailOver, EnvStep, CountersMove
  <1>21. CASE FailedOver
    BY <1>21 DEF FailedOver, EnvStep, CountersMove
  <1>22. ASSUME NEW q \in late, ServeLate(q) PROVE CountersMove
    BY <1>22 DEF ServeLate, EnvStep, CountersMove
  <1>23. CASE Crash
    BY <1>23 DEF Crash, CountersMove, Fault
  <1>24. CASE UNCHANGED vars
    BY <1>24 DEF vars, CountersMove, boundVars
  <1>25. QED
    BY <1>1, <1>2, <1>3, <1>4, <1>5, <1>6, <1>7, <1>8, <1>9, <1>10, <1>11, <1>12, <1>13, <1>14,
       <1>15, <1>16, <1>17, <1>18, <1>19, <1>20, <1>21, <1>22, <1>23, <1>24
       DEF Next, Proceed, Ensured

LEMMA PlanStep ==
  ASSUME Base, [Next]_vars
  PROVE  PlanTypes'
  <1>1. call' \in [Workflows -> AllOps]
    <2>1. call \in [Workflows -> AllOps]
      BY DEF Base, PlanTypes
    <2>2. ASSUME NEW w \in Workflows, NEW c \in plan.ops[w], Call(w, c) PROVE call' \in [Workflows -> AllOps]
      BY <2>1, <2>2, Calls
    <2>3. ASSUME NEW w \in Workflows, Proceed(w) PROVE call' \in [Workflows -> AllOps]
      BY <2>1, <2>3, Proceeds
    <2>4. Environment => UNCHANGED call
      BY EnvironmentSteps DEF EnvStep, callVars
    <2>5. Crash \/ UNCHANGED vars => UNCHANGED call
      BY DEF Crash, vars, callVars
    <2>6. QED
      BY <2>1, <2>2, <2>3, <2>4, <2>5, Kinds
  <1>2. plan' \in Plans /\ nCalls' \in 0..plan'.calls /\ nFaults' \in 0..plan'.faults /\ nChurn' \in 0..plan'.churn
    <2>1. plan \in Plans /\ nCalls \in 0..plan.calls /\ nFaults \in 0..plan.faults /\ nChurn \in 0..plan.churn
      BY DEF Base, PlanTypes
    <2>2. plan.calls \in Nat /\ plan.faults \in Nat /\ plan.churn \in Nat
      BY <2>1, ConstantsAssumption
    <2>3. CountersMove
      BY Counting
    <2>4. QED
      BY <2>1, <2>2, <2>3 DEF CountersMove
  <1>3. QED
    BY <1>1, <1>2, AddrStep DEF PlanTypes

-----------------------------------------------------------------------------
(***************************************************************************)
(* What is observed                                                        *)
(***************************************************************************)
LEMMA Observing ==
  ASSUME [Next]_vars
  PROVE  (\E D : Observe(D)) \/ UNCHANGED vars
  <1>1. ASSUME NEW w \in Workflows, NEW c \in plan.ops[w], Call(w, c) PROVE \E D : Observe(D)
    BY <1>1 DEF Call, podVars, cmVars
  <1>2. ASSUME NEW w \in Workflows, NEW s \in Ensured, Ensure(w, s) PROVE \E D : Observe(D)
    BY <1>2 DEF Ensure, ApiStep, Step
  <1>3. ASSUME NEW w \in Workflows, ApiFails(w) PROVE \E D : Observe(D)
    BY <1>3 DEF ApiFails, ApiStep, Step, podVars
  <1>4. ASSUME NEW w \in Workflows, Upgrade(w) PROVE \E D : Observe(D)
    BY <1>4 DEF Upgrade, DepStep, ApiStep, Step
  <1>5. ASSUME NEW w \in Workflows, Affinity(w) PROVE \E D : Observe(D)
    BY <1>5 DEF Affinity, DepStep, ApiStep, Step
  <1>6. ASSUME NEW w \in Workflows, GetDeployment(w) PROVE \E D : Observe(D)
    BY <1>6 DEF GetDeployment, DepStep, ApiStep, Step
  <1>7. ASSUME NEW w \in Workflows, DeleteDeployment(w) PROVE \E D : Observe(D)
    BY <1>7 DEF DeleteDeployment, DepStep, ApiStep, Step
  <1>8. ASSUME NEW w \in Workflows, WaitForCmDeleted(w) PROVE \E D : Observe(D)
    BY <1>8 DEF WaitForCmDeleted, DepStep, ApiStep, Step
  <1>9. ASSUME NEW w \in Workflows, DeleteMap(w) PROVE \E D : Observe(D)
    BY <1>9 DEF DeleteMap, ApiStep, Step, podVars
  <1>10. ASSUME NEW w \in Workflows, Connect(w) PROVE \E D : Observe(D)
    BY <1>10 DEF Connect, Step, podVars
  <1>11. ASSUME NEW w \in Workflows, Ask(w) PROVE \E D : Observe(D)
    BY <1>11 DEF Ask, Step, podVars
  <1>12. ASSUME NEW w \in Workflows, WaitForStartingCompleted(w) PROVE \E D : Observe(D)
    BY <1>12 DEF WaitForStartingCompleted, Step, podVars
  <1>13. CASE Follow
    BY <1>13 DEF Follow, EnvStep
  <1>14. CASE StartPod
    BY <1>14 DEF StartPod, EnvStep
  <1>15. ASSUME NEW k \in DOMAIN pods, PodRuns(k) PROVE \E D : Observe(D)
    BY <1>15 DEF PodRuns, EnvStep
  <1>16. ASSUME NEW k \in DOMAIN pods, PodLeaves(k) PROVE \E D : Observe(D)
    BY <1>16 DEF PodLeaves, EnvStep
  <1>17. ASSUME NEW k \in DOMAIN pods, PodEnds(k) PROVE \E D : Observe(D)
    BY <1>17 DEF PodEnds, EnvStep
  <1>18. CASE Churn
    BY <1>18 DEF Churn, EnvStep
  <1>19. ASSUME NEW n \in Nodes, EngineStarts(n) PROVE \E D : Observe(D)
    BY <1>19 DEF EngineStarts, EnvStep, podVars, callVars
  <1>20. CASE FailOver
    BY <1>20 DEF FailOver, EnvStep, podVars, callVars
  <1>21. CASE FailedOver
    BY <1>21 DEF FailedOver, EnvStep, podVars, callVars
  <1>22. ASSUME NEW q \in late, ServeLate(q) PROVE \E D : Observe(D)
    BY <1>22 DEF ServeLate, EnvStep, podVars, callVars
  <1>23. CASE Crash
    BY <1>23 DEF Crash, podVars, cmVars
  <1>24. QED
    BY <1>1, <1>2, <1>3, <1>4, <1>5, <1>6, <1>7, <1>8, <1>9, <1>10, <1>11, <1>12, <1>13, <1>14,
       <1>15, <1>16, <1>17, <1>18, <1>19, <1>20, <1>21, <1>22, <1>23 DEF Next, Proceed, Ensured

LEMMA GoalBoolean ==
  ASSUME srv' \in Servers, NEW c \in AllOps
  PROVE  Goal(c)' \in BOOLEAN
  <1>1. srv'.edge \in BOOLEAN
    BY DEF Servers
  <1>2. CASE c.op \in {"create", "remove"}
    BY <1>1, <1>2 DEF Goal, Roles
  <1>3. CASE c.op \in {"upgrade", "affinity", "accounts"}
    BY <1>1, <1>3 DEF Goal, Roles
  <1>4. CASE c.op \in {"disableHA", "enableHA", "addEdge", "deleteEdge"}
    BY <1>1, <1>4 DEF Goal, Roles
  <1>5. CASE c.op \in {"addCluster", "updateCluster", "deleteCluster"}
    BY <1>1, <1>5 DEF Goal, Roles
  <1>6. CASE c.op \in {"addDataMax", "updateDataMax", "deleteDataMax"}
    BY <1>1, <1>6 DEF Goal, Roles
  <1>7. CASE c.op = "addIns"
    BY <1>7 DEF Goal, Roles
  <1>8. CASE c.op = "removeIns"
    BY <1>8 DEF Goal, Roles
  <1>9. CASE c.op \in Roles
    BY <1>9 DEF Goal, Roles
  <1>10. CASE c.op = "switchover"
    BY <1>10 DEF Goal, Roles
  <1>11. QED
    BY <1>2, <1>3, <1>4, <1>5, <1>6, <1>7, <1>9, <1>10, <1>8 DEF AllOps

LEMMA GhostStep ==
  ASSUME Base, [Next]_vars
  PROVE  GhostTypes'
  <1>1. GhostTypes
    BY DEF Base
  <1>2. ASSUME NEW D, Observe(D) PROVE GhostTypes'
    <2>1. \A w \in Workflows : Goal(call[w])' \in BOOLEAN
      BY CmStep, PlanStep, GoalBoolean DEF CmTypes, PlanTypes
    <2>2. met' \in [Workflows -> BOOLEAN]
      BY <1>1, <1>2, <2>1 DEF Observe, GhostTypes
    <2>3. quiet' \in [Workflows -> {"no", "yes", "enabled"}]
      BY <1>1, <1>2 DEF Observe, GhostTypes
    <2>4. QED
      BY <2>2, <2>3 DEF GhostTypes
  <1>3. CASE UNCHANGED vars
    BY <1>1, <1>3 DEF GhostTypes, vars, ghostVars
  <1>4. QED
    BY <1>2, <1>3, Observing

\* What has been so is not forgotten while the call goes on.
LEMMA MetKept ==
  ASSUME Base, [Next]_vars, NEW w \in Workflows
  PROVE  /\ ~Idle(w) => (met[w] => met'[w])
         /\ Idle(w) /\ todo'[w] = <<>> => met'[w] = met[w]
  <1>1. GhostTypes
    BY DEF Base
  <1>2. QED
    BY <1>1, Observing DEF Observe, GhostTypes, vars, ghostVars

LEMMA MetNow ==
  ASSUME NEW D, Observe(D), NEW w \in Workflows, ~Idle(w), Goal(call[w])'
  PROVE  met'[w]
  BY DEF Observe

-----------------------------------------------------------------------------
(***************************************************************************)
(* What a step has read                                                    *)
(***************************************************************************)
LEMMA SecretsFixed ==
  ASSUME Base, [Next]_vars, Given
  PROVE  secrets' = secrets /\ Given'
  BY SecretsKept, Facts DEF Given, Passwords

\* A pod that was to be moved has been, as soon as it leaves.
LEMMA Recalled ==
  ASSUME Base, [Next]_vars, NEW v \in Workflows, todo'[v] = todo[v], at'[v] = at[v], read'[v] = read[v],
         ~Idle(v) => call'[v] = call[v]
  PROVE  Recalls(v)'
  <1>1. Recalls(v)
    BY DEF Base, Remembered
  <1>2. CASE at[v] = "make"
    BY <1>1, <1>2, SecretsFixed DEF Recalls, Idle
  <1>3. CASE at[v] = "write"
    BY <1>1, <1>3 DEF Recalls, Doing, Idle
  <1>4. CASE at[v] = "delete"
    <2>1. ~Idle(v) /\ Head(todo[v]) = "affinity" /\ read[v] \in DOMAIN pods /\ (read[v] \in Active \/ met[v])
      BY <1>1, <1>4 DEF Recalls, Doing
    <2>2. call[v].op = "affinity"
      BY <2>1, Due, Facts, Asked, ZenonT(40)
    <2>3. PodsMove
      BY PodsStepMoves
    <2>4. read[v] \in DOMAIN pods'
      BY <2>1, <2>3 DEF PodsMove
    <2>5. CASE met[v]
      BY <1>4, <2>1, <2>4, <2>5, MetKept DEF Recalls, Doing, Idle
    <2>6. CASE read[v] \in Active /\ read[v] \notin Active'
      <3>1. pods'[read[v]].state # "gone"
        BY <2>1, <2>3, <2>6 DEF PodsMove, Active
      <3>2. read[v] \in Present' /\ pods' \in Seq(Pods)
        BY <2>3, <2>4, <3>1 DEF Present, PodsMove
      <3>3. Goal(call[v])'
        BY <2>1, <2>2, <2>4, <2>6, <3>2, PlaceKept
      <3>4. met'[v] \/ UNCHANGED vars
        BY <2>1, <3>3, Observing, MetNow
      <3>5. met'[v]
        BY <2>6, <3>4 DEF vars, podVars, Active
      <3>6. QED
        BY <1>4, <2>1, <2>4, <3>5 DEF Recalls, Doing, Idle
    <2>7. CASE read[v] \in Active'
      BY <1>4, <2>1, <2>4, <2>7 DEF Recalls, Doing, Idle
    <2>8. QED
      BY <2>1, <2>5, <2>6, <2>7
  <1>5. CASE at[v] = "begin"
    BY <1>5 DEF Recalls
  <1>6. QED
    BY <1>2, <1>3, <1>4, <1>5 DEF Base, CallTypes

LEMMA RecallsNow ==
  ASSUME Base, [Next]_vars, NEW w \in Workflows, Proceed(w)
  PROVE  Recalls(w)'
  <1>1. ~Idle(w) /\ Only(w) /\ UNCHANGED call
    BY Proceeds
  <1>2. CASE at'[w] = "begin"
    BY <1>2 DEF Recalls
  <1>3. CASE Fails(w) \/ Passes(w)
    BY <1>2, <1>3 DEF Fails, Passes, Turns
  <1>4. CASE Waits(w)
    BY <1>1, <1>4, Recalled DEF Waits
  <1>5. ASSUME NEW s \in Ensured, Ensure(w, s) PROVE Recalls(w)'
    <2>1. Head(todo[w]) = s /\ (Fails(w) \/ Passes(w) \/ (Halfway(w, "make", secrets) /\ (s = "conf" => Given)))
      BY <1>5, Facts, EnsureEnds
    <2>2. CASE Halfway(w, "make", secrets) /\ (s = "conf" => Given)
      BY <1>1, <2>1, <2>2, SecretsFixed DEF Halfway, Recalls, Idle
    <2>3. QED
      BY <1>3, <2>1, <2>2
  <1>6. CASE Upgrade(w)
    <2>1. Head(todo[w]) = "upgrade" /\ (Fails(w) \/ Passes(w) \/ (Halfway(w, "write", dep) /\ dep.there))
      BY <1>6, Facts, UpgradeEnds
    <2>2. CASE Halfway(w, "write", dep) /\ dep.there
      BY <1>1, <2>1, <2>2 DEF Halfway, Recalls, Idle, Doing
    <2>3. QED
      BY <1>3, <2>1, <2>2
  <1>7. CASE Affinity(w)
    <2>1. Head(todo[w]) = "affinity"
          /\ (Fails(w) \/ Passes(w) \/ \E k \in Present : Halfway(w, "delete", k) /\ UNCHANGED pods)
      BY <1>7, Facts, AffinityEnds
    <2>2. ASSUME NEW k \in Present, Halfway(w, "delete", k), UNCHANGED pods PROVE Recalls(w)'
      <3>1. k \in DOMAIN pods' /\ k \in Present' /\ pods' \in Seq(Pods) /\ call'[w].op = "affinity"
        BY <1>1, <2>1, <2>2, Due, Facts, Asked DEF Present
      <3>2. k \notin Active' => Goal(call[w])'
        BY <1>1, <3>1, PlaceKept
      <3>3. Observe({})
        BY <1>7 DEF Affinity
      <3>4. k \in Active' \/ met'[w]
        BY <1>1, <3>2, <3>3, MetNow
      <3>5. QED
        BY <1>1, <2>1, <2>2, <3>1, <3>4 DEF Halfway, Recalls, Idle, Doing
    <2>3. QED
      BY <1>3, <2>1, <2>2
  <1>8. CASE WaitForStartingCompleted(w)
    <2>1. /\ Head(todo[w]) = "waitStarted"
          /\ Fails(w) \/ (todo'[w] = todo[w] /\ at'[w] = at[w] /\ result'[w] = result[w]) \/ Passes(w)
      BY <1>8, Facts, WaitStartedEnds
    <2>2. at[w] = "begin"
      BY <2>1, Facts DEF Remembered, Recalls, Doing, Ensured, Accounts, CallTypes
    <2>3. QED
      BY <1>2, <1>3, <2>1, <2>2
  <1>9. CASE ApiFails(w) \/ DeleteDeployment(w) \/ DeleteMap(w)
    BY <1>3, <1>9, Facts, ApiFailsEnds, DeleteDeploymentEnds, DeleteMapEnds
  <1>10. CASE GetDeployment(w)
    BY <1>2, <1>10, Facts, GetDeploymentEnds DEF Turns
  <1>11. CASE WaitForCmDeleted(w) \/ Connect(w)
    BY <1>3, <1>4, <1>11, Facts, WaitForCmDeletedEnds, ConnectEnds
  <1>12. CASE Ask(w)
    BY <1>2, <1>3, <1>4, <1>12, Facts, AskEnds DEF Turns
  <1>13. QED
    BY <1>5, <1>6, <1>7, <1>8, <1>9, <1>10, <1>11, <1>12 DEF Proceed, Ensured

LEMMA RememberedStep ==
  ASSUME Base, [Next]_vars
  PROVE  Remembered'
  <1>1. ASSUME NEW w \in Workflows, Proceed(w), NEW v \in Workflows PROVE Recalls(v)'
    <2>1. CASE v = w
      BY <1>1, <2>1, RecallsNow
    <2>2. CASE v # w
      <3>1. todo'[v] = todo[v] /\ at'[v] = at[v] /\ read'[v] = read[v] /\ call' = call
        BY <1>1, <2>2, Proceeds DEF Only
      <3>2. QED
        BY <3>1, Recalled
    <2>3. QED
      BY <2>1, <2>2
  <1>2. ASSUME NEW w \in Workflows, NEW c \in plan.ops[w], Call(w, c), NEW v \in Workflows PROVE Recalls(v)'
    <2>1. /\ Only(w) /\ at[w] = "begin" /\ at' = at /\ call' = [call EXCEPT ![w] = c]
      BY <1>2, Calls
    <2>2. CASE v = w
      BY <2>1, <2>2 DEF Recalls
    <2>3. CASE v # w
      <3>1. todo'[v] = todo[v] /\ at'[v] = at[v] /\ read'[v] = read[v] /\ call'[v] = call[v]
        BY <2>1, <2>3 DEF Only, Base, PlanTypes
      <3>2. QED
        BY <3>1, Recalled
    <2>4. QED
      BY <2>2, <2>3
  <1>3. ASSUME Environment \/ UNCHANGED vars, NEW v \in Workflows PROVE Recalls(v)'
    <2>1. UNCHANGED callVars
      BY <1>3, EnvironmentSteps DEF EnvStep, vars
    <2>2. QED
      BY <2>1, Recalled DEF callVars
  <1>4. ASSUME Crash, NEW v \in Workflows PROVE Recalls(v)'
    BY <1>4 DEF Crash, Recalls
  <1>5. QED
    BY <1>1, <1>2, <1>3, <1>4, Kinds DEF Remembered
-----------------------------------------------------------------------------
(***************************************************************************)
(* HA during a removal                                                     *)
(***************************************************************************)
\* What is observed of a request to disable HA.
LEMMA AskObserves ==
  ASSUME Base, NEW w \in Workflows, Ask(w)
  PROVE  /\ \E D : /\ Observe(D)
                   /\ D = {} \/ (D = {w} /\ maps'.flag # "on" /\ ~switching)
         /\ Fails(w) \/ Waits(w) \/ (Head(todo[w]) = "disableHA" => Observe({w}))
         /\ UNCHANGED switching
  <1> DEFINE s == Head(todo[w])
             q == [kind |-> s, arg |-> call[w].arg]
  <1>1. UNCHANGED switching /\ q.kind = s
    BY DEF Ask, Step
  <1>2. q \in Asks /\ (q.kind \in Placed => q.arg \in Nodes)
    BY Asking
  <1>3. CASE Serve(q) /\ Observe(IF s = "disableHA" THEN {w} ELSE {})
    <2>1. s = "disableHA" => maps'.flag # "on" /\ ~switching
      BY <1>1, <1>2, <1>3, Served
    <2>2. CASE s = "disableHA"
      BY <1>1, <1>3, <2>1, <2>2
    <2>3. CASE s # "disableHA"
      BY <1>1, <1>3, <2>3
    <2>4. QED
      BY <2>2, <2>3
  <1>4. CASE Repeat(w) /\ Observe({})
    <2>1. Fails(w) \/ Waits(w)
      BY <1>4, Facts, Repeated DEF Repeat
    <2>2. QED
      BY <1>1, <1>4, <2>1
  <1>5. QED
    BY <1>3, <1>4 DEF Ask

LEMMA QuietObserved ==
  ASSUME Base, [Next]_vars
  PROVE  \/ UNCHANGED vars
         \/ \E D : Observe(D) /\ (D = {} \/ (maps'.flag # "on" /\ ~switching'))
  <1>1. ASSUME NEW w \in Workflows, Proceed(w) PROVE Observe({}) \/ Ask(w)
    BY <1>1
       DEF Proceed, Ensure, ApiFails, Upgrade, Affinity, GetDeployment, DeleteDeployment,
           WaitForCmDeleted, DeleteMap, Connect, WaitForStartingCompleted
  <1>2. ASSUME NEW w \in Workflows, NEW c, Call(w, c) PROVE Observe({})
    BY <1>2 DEF Call
  <1>3. Environment \/ Crash => Observe({})
    BY EnvironmentSteps DEF EnvStep, Crash
  <1>4. ASSUME NEW w \in Workflows, Ask(w)
        PROVE  \E D : Observe(D) /\ (D = {} \/ (maps'.flag # "on" /\ ~switching'))
    <2>1. PICK D : Observe(D) /\ (D = {} \/ (D = {w} /\ maps'.flag # "on" /\ ~switching))
      BY <1>4, AskObserves
    <2>2. UNCHANGED switching
      BY <1>4, AskObserves
    <2>3. QED
      BY <2>1, <2>2
  <1>5. CASE Observe({})
    BY <1>5
  <1>6. QED
    BY <1>1, <1>2, <1>3, <1>4, <1>5, Kinds

LEMMA DisabledStep ==
  ASSUME Base, Disabled, [Next]_vars
  PROVE  Disabled'
  <1>1. GhostTypes
    BY DEF Base
  <1>2. CASE UNCHANGED vars
    BY <1>2 DEF Disabled, vars, cmVars, callVars, ghostVars, Doing, Idle
  <1>3. ASSUME NEW D, Observe(D), D = {} \/ (maps'.flag # "on" /\ ~switching')
        PROVE  Disabled'
    <2>1. ASSUME NEW v \in Workflows, quiet'[v] = "yes" PROVE maps'.flag # "on" /\ ~switching'
      <3>1. v \in D \/ (quiet[v] = "yes" /\ maps'.flag # "on")
        BY <1>1, <1>3, <2>1 DEF Observe, GhostTypes
      <3>2. quiet[v] = "yes" => ~switching'
        BY Changes DEF MayChange, Disabled, FailOver, FailedOver
      <3>3. QED
        BY <1>3, <3>1, <3>2
    <2>2. ASSUME NEW v \in Workflows, Doing(v, "deleteDep")' PROVE quiet'[v] # "no"
      <3>1. todo'[v] # <<>> /\ Head(todo'[v]) = "deleteDep"
        BY <2>2 DEF Doing, Idle
      <3>2. CASE todo'[v] = todo[v]
        <4>1. quiet[v] # "no"
          BY <3>1, <3>2 DEF Disabled, Doing, Idle
        <4>2. QED
          BY <1>1, <1>3, <3>1, <4>1 DEF Observe, GhostTypes
      <3>3. CASE Proceed(v) /\ todo'[v] # todo[v]
        <4>1. ~Idle(v) /\ Passes(v) /\ Chain(call[v], todo'[v])
          <5>1. /\ ~Idle(v) /\ Chain(call[v], todo'[v])
                /\ \/ Fails(v) \/ Passes(v) \/ Turns(v, Removing(dep.there))
                   \/ Turns(v, <<"updateCluster">>) \/ Turns(v, <<"updateDataMax">>) \/ Turns(v, <<>>)
            BY <3>3, Proceeds
          <5>2. Head(<<"updateCluster">>) # "deleteDep" /\ Head(<<"updateDataMax">>) # "deleteDep"
            OBVIOUS
          <5>3. Head(Removing(dep.there)) # "deleteDep"
            <6>1. dep.there \in BOOLEAN
              BY Facts DEF Deployments
            <6> DEFINE c == [op |-> "remove", arg |-> None]
            <6>3. c.op = "remove"
              OBVIOUS
            <6> HIDE DEF c
            <6>4. QED
              BY <6>1, <6>3, RemovingChain
          <5>4. QED
            BY <3>1, <5>1, <5>2, <5>3 DEF Fails, Turns
        <4>2. Head(todo[v]) = "disableHA"
          <5>1. Tail(todo[v]) # <<>> /\ Head(Tail(todo[v])) = "deleteDep"
            BY <3>1, <4>1 DEF Passes, Turns
          <5>2. Leads(call[v], Head(todo[v]), "deleteDep")
            BY <4>1, <5>1, Due
          <5>3. QED
            BY <5>2, Facts DEF Leads, AllOps, Roles
        <4>3. Ask(v)
          BY <3>3, <4>2
             DEF Proceed, Ensure, ApiFails, Upgrade, Affinity, GetDeployment, DeleteDeployment,
                 WaitForCmDeleted, DeleteMap, Connect, WaitForStartingCompleted, Doing,
                 ApiSteps, Accounts
        <4>4. Observe({v})
          BY <3>1, <3>3, <4>2, <4>3, AskObserves DEF Fails, Waits
        <4>5. QED
          BY <3>1, <4>4 DEF Observe
      <3>4. CASE \E w \in Workflows \ {v} : Proceed(w)
        BY <3>2, <3>4, Proceeds DEF Only
      <3>5. ASSUME NEW w \in Workflows, NEW c \in plan.ops[w], Call(w, c) PROVE quiet'[v] # "no"
        <4>1. Only(w) /\ todo'[w] = Program(c) /\ c \in AllOps
          BY <3>5, Calls
        <4>2. v # w
          BY <3>1, <4>1, Programs
        <4>3. QED
          BY <3>2, <4>1, <4>2 DEF Only
      <3>6. CASE Environment \/ UNCHANGED vars
        BY <3>2, <3>6, EnvironmentSteps DEF EnvStep, callVars, vars
      <3>7. CASE Crash
        BY <3>1, <3>7 DEF Crash
      <3>8. QED
        BY <3>2, <3>3, <3>4, <3>5, <3>6, <3>7, Kinds
    <2>3. QED
      BY <2>1, <2>2 DEF Disabled
  <1>4. QED
    BY <1>2, <1>3, QuietObserved
-----------------------------------------------------------------------------
(***************************************************************************)
(* Versions                                                                *)
(***************************************************************************)
LEMMA VersionsStep ==
  ASSUME Base, Apart, Versions, [Next]_vars
  PROVE  Versions'
  <1>1. DepMoves /\ RsMoves /\ PodsMove /\ UNCHANGED plan
    BY DepStepMoves, RsStepMoves, PodsStepMoves, Counting DEF CountersMove
  <1>2. (Creates' <=> Creates) /\ (Creates => ~Removes)
    BY <1>1 DEF Creates, Apart
  <1>3. CASE dep' # dep
    <2>1. UNCHANGED <<rs, pods>>
      BY <1>1, <1>3 DEF DepMoves
    <2>2. Present' = Present
      BY <2>1 DEF Present
    <2>3. QED
      BY <1>1, <1>2, <1>3, <2>1, <2>2 DEF DepMoves, Versions
  <1>4. CASE rs' # rs
    <2>1. UNCHANGED <<dep, pods>>
      BY <1>1, <1>4 DEF RsMoves
    <2>2. Present' = Present
      BY <2>1 DEF Present
    <2>3. CASE dep.there
      <3>1. rs' = [there |-> TRUE, image |-> dep.image] /\ (dep.strategy = "Recreate" => Present = {})
        BY <1>1, <1>4, <2>3 DEF RsMoves
      <3>2. dep.strategy \in {"RollingUpdate", "Recreate"}
        BY Facts DEF Deployments
      <3>3. QED
        BY <1>2, <2>1, <2>2, <2>3, <3>1, <3>2 DEF Versions
    <2>4. CASE ~dep.there
      <3>1. rs' = [rs EXCEPT !.there = FALSE]
        BY <1>1, <1>4, <2>4 DEF RsMoves
      <3>2. ~rs'.there /\ rs'.image = rs.image
        BY <3>1, Facts
      <3>3. QED
        BY <1>2, <2>1, <2>2, <2>4, <3>2 DEF Versions
    <2>5. QED
      BY <2>3, <2>4
  <1>5. CASE UNCHANGED <<dep, rs>>
    <2>1. ASSUME NEW k \in Present' PROVE k \in Present \/ (rs.there /\ pods'[k].image = rs.image)
      BY <1>1, <2>1 DEF PodsMove, Present
    <2>2. \A k \in Present : k \in DOMAIN pods
      BY DEF Present
    <2>3. ASSUME NEW k \in Present' PROVE pods'[k].image = rs.image
      BY <1>1, <2>1, <2>2, <2>3 DEF PodsMove, Versions
    <2>4. Present = {} /\ ~rs.there => Present' = {}
      BY <2>1
    <2>5. QED
      BY <1>2, <1>5, <2>3, <2>4 DEF Versions
  <1>6. QED
    BY <1>3, <1>4, <1>5
-----------------------------------------------------------------------------
(***************************************************************************)
(* Progress of a call                                                      *)
(***************************************************************************)
LEMMA ReachedStays ==
  ASSUME Base, Apart, [Next]_vars, NEW c, NEW s, Reached(c, s),
         c.op = "create" => Creates, c.op = "remove" => Removes
  PROVE  Reached(c, s)'
  <1>1. /\ DepMoves /\ PodsMove /\ MapsMove
        /\ \A a \in Accounts : secrets[a] # 0 => secrets'[a] = secrets[a]
        /\ Creates => ~Removes
    BY DepStepMoves, PodsStepMoves, MapsStepMoves, SecretsKept DEF Apart
  <1>2. CASE c.op = "accounts"
    BY <1>1, <1>2 DEF Reached, Accounts
  <1>3. CASE c.op = "create"
    <2>1. ~Removes
      BY <1>1, <1>3
    <2>2. \A w \in Workflows : Doing(w, "delConf") => call[w].op # "remove"
      BY <2>1, Planned DEF Doing
    <2>3. maps.conf # NoSecrets => maps'.conf # NoSecrets
      BY <1>1, <2>2 DEF MapsMove
    <2>4. maps.meta => maps'.meta
      <3>1. maps.meta \in BOOLEAN /\ maps'.meta \in BOOLEAN
        BY <1>1, Facts DEF MapsMove, Maps
      <3>2. QED
        BY <1>1, <2>1, <3>1 DEF MapsMove
    <2>5. maps.flag # "none" => maps'.flag # "none"
      BY <1>1, <2>1 DEF MapsMove
    <2>6. QED
      BY <1>3, <2>3, <2>4, <2>5 DEF Reached
  <1>4. CASE c.op = "remove"
    <2>1. ~Creates
      BY <1>1, <1>4
    <2>2. ~dep.there => ~dep'.there
      BY <1>1, <2>1 DEF DepMoves
    <2>3. ASSUME ~dep.there, \A k \in Present : pods[k].orphan, NEW k \in Present' PROVE pods'[k].orphan
      <3>1. CASE k \in DOMAIN pods
        <4>1. k \in Present
          BY <1>1, <2>3, <3>1 DEF PodsMove, Present
        <4>2. QED
          BY <1>1, <2>3, <3>1, <4>1 DEF PodsMove
      <3>2. CASE k \notin DOMAIN pods
        BY <1>1, <2>3, <3>2 DEF PodsMove, Present
      <3>3. QED
        BY <3>1, <3>2
    <2>4. maps.conf = NoSecrets => maps'.conf = NoSecrets
      BY <1>1, <2>1 DEF MapsMove
    <2>5. ~maps.meta => ~maps'.meta
      <3>1. maps.meta \in BOOLEAN /\ maps'.meta \in BOOLEAN
        BY <1>1, Facts DEF MapsMove, Maps
      <3>2. QED
        BY <1>1, <2>1, <3>1 DEF MapsMove
    <2>6. maps.flag = "none" => maps'.flag = "none"
      BY <1>1, <2>1 DEF MapsMove
    <2>7. QED
      BY <1>4, <2>2, <2>3, <2>4, <2>5, <2>6 DEF Reached
  <1>5. QED
    BY <1>2, <1>3, <1>4 DEF Reached

\* What a step that has passed adds.
Added(s) ==
  /\ s \in Ensured => Exists(s)
  /\ s = "deleteDep" => ~dep.there
  /\ s = "waitGone" => Present = {}
  /\ s = "delConf" => maps.conf = NoSecrets
  /\ s = "delMeta" => ~maps.meta
  /\ s = "delFlag" => maps.flag = "none"
  /\ s = "delOthers" => ~maps.others

LEMMA ReachedNext ==
  ASSUME NEW c \in AllOps, NEW s, NEW t, Leads(c, s, t), Reached(c, s)', Added(s)'
  PROVE  Reached(c, t)'
  <1>1. CASE c.op = "create"
    BY <1>1 DEF Leads, Reached, Added, Ensured, Exists, Accounts
  <1>2. CASE c.op = "accounts"
    BY <1>2 DEF Leads, Reached, Added, Ensured, Exists, Accounts
  <1>3. CASE c.op = "remove"
    BY <1>3 DEF Leads, Reached, Added
  <1>4. QED
    BY <1>1, <1>2, <1>3 DEF Reached

LEMMA PassedAdds ==
  ASSUME Base, NEW w \in Workflows, Proceed(w), ~Fails(w), todo'[w] # todo[w], NEW s, s = Head(todo[w])
  PROVE  Added(s)'
  <1>1. ASSUME NEW e \in Ensured, Ensure(w, e) PROVE Added(s)'
    <2>1. s = e /\ Exists(e)'
      BY <1>1, Facts, EnsureEnds DEF Halfway
    <2>2. QED
      BY <2>1 DEF Added, Ensured, Accounts
  <1>2. CASE DeleteDeployment(w)
    BY <1>2, Facts, DeleteDeploymentEnds DEF Added, Ensured, Accounts
  <1>3. CASE WaitForCmDeleted(w)
    <2>1. s = "waitGone" /\ UNCHANGED pods /\ Present = {}
      BY <1>3, Facts, WaitForCmDeletedEnds DEF Waits, WaitForCmDeleted
    <2>2. Present' = {}
      BY <2>1 DEF Present
    <2>3. QED
      BY <2>1, <2>2 DEF Added, Ensured, Accounts
  <1>4. CASE DeleteMap(w)
    BY <1>4, Facts, DeleteMapEnds DEF Added, Ensured, Accounts
  <1>5. CASE ApiFails(w)
    BY <1>5, Facts, ApiFailsEnds
  <1>6. CASE Upgrade(w) \/ Affinity(w) \/ GetDeployment(w) \/ Connect(w) \/ Ask(w) \/ WaitForStartingCompleted(w)
    <2>1. s \in {"upgrade", "affinity", "getDep", "connect", "waitStarted"} \cup Requests
      BY <1>6
         DEF Upgrade, Affinity, GetDeployment, Connect, Ask, WaitForStartingCompleted, Doing
    <2>2. QED
      BY <2>1 DEF Added, Ensured, Accounts, Requests, Roles
  <1>7. QED
    BY <1>1, <1>2, <1>3, <1>4, <1>5, <1>6 DEF Proceed, Ensured

LEMMA ProgressStep ==
  ASSUME Base, Apart, Progress, [Next]_vars
  PROVE  Progress'
  <1> DEFINE Fine(v) == todo'[v] # <<>> => Reached(call[v], Head(todo[v]))'
  <1>1. ASSUME NEW v \in Workflows, ~Idle(v), NEW c, c = call[v], NEW s, s = Head(todo[v])
        PROVE  Reached(c, s)'
    <2>1. Reached(c, s)
      BY <1>1 DEF Progress
    <2>2. QED
      BY <1>1, <2>1, Planned, ReachedStays
  <1>2. ASSUME NEW v \in Workflows, todo'[v] = todo[v], call'[v] = call[v] PROVE Fine(v)
    <2>1. CASE Idle(v)
      BY <1>2, <2>1 DEF Idle
    <2>2. CASE ~Idle(v)
      <3>1. PICK c : c = call[v]
        OBVIOUS
      <3>2. PICK s : s = Head(todo[v])
        OBVIOUS
      <3>3. Reached(c, s)' /\ call'[v] = c /\ Head(todo'[v]) = s
        BY <1>1, <1>2, <2>2, <3>1, <3>2
      <3>4. QED
        BY <3>3
    <2>3. QED
      BY <2>1, <2>2
  <1>3. ASSUME NEW w \in Workflows, Proceed(w), todo'[w] # todo[w], todo'[w] # <<>> PROVE Fine(w)
    <2>1. PICK c : c = call[w]
      OBVIOUS
    <2>2. PICK s : s = Head(todo[w])
      OBVIOUS
    <2>3. PICK t : t = Head(todo'[w])
      OBVIOUS
    <2>4. /\ ~Idle(w) /\ UNCHANGED call /\ Chain(call[w], todo'[w])
          /\ \/ Fails(w) \/ Passes(w)
             \/ Turns(w, Removing(dep.there)) /\ call[w].op = "remove" /\ UNCHANGED dep
             \/ call[w].op \in {"addCluster", "addDataMax"}
             \/ Turns(w, <<>>)
      BY <1>3, Proceeds
    <2>5. call[w] \in AllOps
      BY Facts
    <2>6. SUFFICES Reached(c, t)'
      BY <2>1, <2>3, <2>4
    <2>7. CASE Passes(w)
      <3>1. Added(s)'
        BY <1>3, <2>2, PassedAdds DEF Fails
      <3>2. Reached(c, s)'
        BY <1>1, <2>1, <2>2, <2>4
      <3>3. Leads(c, s, t)
        BY <1>3, <2>1, <2>2, <2>3, <2>4, <2>7, Due DEF Passes, Turns
      <3>4. QED
        BY <2>1, <2>5, <3>1, <3>2, <3>3, ReachedNext
    <2>8. CASE Turns(w, Removing(dep.there)) /\ call[w].op = "remove" /\ UNCHANGED dep
      <3>1. dep.there \in BOOLEAN
        BY Facts DEF Deployments
      <3>2. t = IF dep.there THEN "connect" ELSE "waitGone"
        BY <2>1, <2>3, <2>8, <3>1, RemovingChain DEF Turns
      <3>3. QED
        BY <2>1, <2>8, <3>2 DEF Reached
    <2>9. CASE call[w].op \in {"addCluster", "addDataMax"}
      BY <2>1, <2>9 DEF Reached
    <2>10. QED
      BY <1>3, <2>4, <2>7, <2>8, <2>9 DEF Fails, Turns
  <1>4. ASSUME NEW w \in Workflows, Proceed(w), NEW v \in Workflows PROVE Fine(v)
    <2>1. Only(w) /\ UNCHANGED call
      BY <1>4, Proceeds
    <2>2. CASE v # w \/ todo'[v] = todo[v]
      BY <1>2, <2>1, <2>2 DEF Only
    <2>3. CASE v = w /\ todo'[w] # todo[w]
      BY <1>3, <1>4, <2>3
    <2>4. QED
      BY <2>2, <2>3
  <1>5. ASSUME NEW w \in Workflows, NEW c \in plan.ops[w], Call(w, c), NEW v \in Workflows PROVE Fine(v)
    <2>1. Only(w) /\ c \in AllOps /\ todo'[w] = Program(c) /\ call' = [call EXCEPT ![w] = c]
      BY <1>5, Calls
    <2>2. CASE v # w
      <3>1. call'[v] = call[v] /\ todo'[v] = todo[v]
        BY <2>1, <2>2 DEF Only, Base, PlanTypes
      <3>2. QED
        BY <1>2, <3>1
    <2>3. CASE v = w
      <3>1. PICK s : s = Head(Program(c))
        OBVIOUS
      <3>2. call'[w] = c /\ Head(todo'[w]) = s
        BY <2>1, <3>1 DEF Base, PlanTypes
      <3>3. Reached(c, s)'
        BY <2>1, <3>1, Programs DEF Reached
      <3>4. QED
        BY <2>3, <3>2, <3>3
    <2>4. QED
      BY <2>2, <2>3
  <1>6. ASSUME Environment \/ UNCHANGED vars, NEW v \in Workflows PROVE Fine(v)
    BY <1>2, <1>6, EnvironmentSteps DEF EnvStep, callVars, vars
  <1>7. ASSUME Crash, NEW v \in Workflows PROVE Fine(v)
    BY <1>7 DEF Crash
  <1>8. \A v \in Workflows : Fine(v)
    BY <1>4, <1>5, <1>6, <1>7, Kinds
  <1>9. QED
    BY <1>8 DEF Progress, Idle
-----------------------------------------------------------------------------
(***************************************************************************)
(* Calls that return nil                                                   *)
(***************************************************************************)
LEMMA LastPassed ==
  ASSUME Base, Apart, Progress, [Next]_vars, NEW w \in Workflows, Proceed(w), ~Fails(w),
         todo'[w] = <<>>
  PROVE  Goal(call[w])' \/ met[w]
  <1>1. /\ ~Idle(w) /\ UNCHANGED call /\ todo'[w] # todo[w]
    BY Proceeds DEF Idle
  <1>2. PICK c \in AllOps : c = call[w]
    BY Facts
  <1>3. PICK s : s = Head(todo[w])
    OBVIOUS
  <1>4. SUFFICES Goal(c)' \/ met[w]
    BY <1>1, <1>2
  <1>5. Reached(c, s)'
    BY <1>1, <1>2, <1>3, Planned, ReachedStays DEF Progress
  <1>6. Passes(w) => Ends(c, s)
    BY <1>1, <1>2, <1>3, Due DEF Passes, Turns
  <1>7. Added(s)'
    BY <1>1, <1>3, PassedAdds
  <1>8. ASSUME NEW e \in Ensured, Ensure(w, e) PROVE Goal(c)'
    <2>1. s = e /\ Ends(c, s)
      BY <1>1, <1>3, <1>6, <1>8, Facts, EnsureEnds DEF Halfway
    <2>2. \/ c.op = "create" /\ s = "deploy"
          \/ c.op = "accounts" /\ s = "replicator"
      BY <2>1 DEF Ends, Ensured, Accounts, AllOps, Roles
    <2>3. CASE c.op = "create" /\ s = "deploy"
      BY <1>5, <1>7, <2>3 DEF Goal, Reached, Added, Ensured, Exists, Roles
    <2>4. CASE c.op = "accounts" /\ s = "replicator"
      BY <1>5, <1>7, <2>4 DEF Goal, Reached, Added, Ensured, Exists, Accounts, Roles
    <2>5. QED
      BY <2>2, <2>3, <2>4
  <1>9. CASE Upgrade(w)
    <2>1. s = "upgrade" /\ dep'.there /\ dep'.image = c.arg
      BY <1>1, <1>2, <1>3, <1>9, Facts, UpgradeEnds DEF Halfway
    <2>2. c.op = "upgrade"
      BY <1>1, <1>2, <1>3, <2>1, Due, Asked, ZenonT(40)
    <2>3. QED
      BY <2>1, <2>2 DEF Goal, Roles
  <1>10. CASE Affinity(w)
    BY <1>1, <1>2, <1>10, Facts, AffinityEnds DEF Halfway
  <1>11. CASE GetDeployment(w)
    <2>1. dep.there \in BOOLEAN
      BY Facts DEF Deployments
    <2>2. QED
      BY <1>11, <2>1, Facts, GetDeploymentEnds, RemovingChain DEF Turns
  <1>12. CASE DeleteMap(w)
    <2>1. s \in {"delConf", "delMeta", "delFlag", "delOthers"} /\ Ends(c, s)
      BY <1>1, <1>3, <1>6, <1>12, Facts, DeleteMapEnds
    <2>2. c.op = "remove" /\ s = "delOthers"
      BY <2>1 DEF Ends, AllOps, Roles
    <2>3. maps' \in Maps
      BY MapsStepMoves DEF MapsMove
    <2>4. ~dep'.there /\ maps'.conf = NoSecrets /\ ~maps'.meta /\ maps'.flag = "none" /\ ~maps'.others
      BY <1>5, <1>7, <2>2 DEF Reached, Added
    <2>5. maps' = NoMaps
      BY <2>3, <2>4 DEF Maps, NoMaps
    <2>6. QED
      BY <2>2, <2>4, <2>5 DEF Goal, Roles
  <1>13. CASE DeleteDeployment(w) \/ WaitForCmDeleted(w) \/ Connect(w) \/ WaitForStartingCompleted(w)
    <2>1. s \in {"deleteDep", "waitGone", "connect", "waitStarted"} /\ Ends(c, s)
      BY <1>1, <1>3, <1>6, <1>13, Facts, DeleteDeploymentEnds, WaitForCmDeletedEnds,
         ConnectEnds, WaitStartedEnds DEF Waits
    <2>2. QED
      BY <2>1 DEF Ends, AllOps, Roles
  <1>14. CASE Ask(w)
    <2>1. <<"updateCluster">> # <<>> /\ <<"updateDataMax">> # <<>>
      OBVIOUS
    <2>2. QED
      BY <1>1, <1>2, <1>3, <1>6, <1>14, <2>1, Facts, AskEnds DEF Waits, Turns
  <1>15. CASE ApiFails(w)
    BY <1>15, Facts, ApiFailsEnds
  <1>16. QED
    BY <1>8, <1>9, <1>10, <1>11, <1>12, <1>13, <1>14, <1>15 DEF Proceed, Ensured

LEMMA OkStep ==
  ASSUME Base, Apart, Progress, OkMeansDone, [Next]_vars
  PROVE  OkMeansDone'
  <1> SUFFICES ASSUME NEW v \in Workflows, todo'[v] = <<>>, result'[v] = "ok"
               PROVE  met'[v]
    BY DEF OkMeansDone, Idle
  <1>1. CASE todo[v] = <<>> /\ result[v] = "ok"
    BY <1>1, MetKept DEF OkMeansDone, Idle
  <1>2. CASE Proceed(v)
    <2>1. ~Idle(v) /\ ~Fails(v)
      BY <1>2, Proceeds DEF Fails
    <2>2. Goal(call[v])' \/ met[v]
      BY <1>2, <2>1, LastPassed
    <2>3. ~UNCHANGED vars
      BY <2>1 DEF Idle, vars, callVars
    <2>4. QED
      BY <2>1, <2>2, <2>3, MetKept, Observing, MetNow
  <1>3. ASSUME NEW w \in Workflows \ {v}, Proceed(w) PROVE met'[v]
    BY <1>1, <1>3, Proceeds DEF Only
  <1>4. ASSUME NEW w \in Workflows, NEW c \in plan.ops[w], Call(w, c) PROVE met'[v]
    BY <1>1, <1>4, Calls, Programs DEF Only
  <1>5. CASE Environment \/ UNCHANGED vars
    BY <1>1, <1>5, EnvironmentSteps DEF EnvStep, callVars, vars
  <1>6. CASE Crash
    BY <1>1, <1>6 DEF Crash, Idle
  <1>7. QED
    BY <1>2, <1>3, <1>4, <1>5, <1>6, Kinds
-----------------------------------------------------------------------------
(***************************************************************************)
(* The theorems                                                            *)
(***************************************************************************)
LEMMA IndInvInit ==
  ASSUME Init
  PROVE  IndInv
  <1>1. /\ Host1 \in Nodes /\ Image1 \in Images /\ MaxPods >= 1 /\ MaxPods \in Nat
        /\ plan \in Plans /\ plan.calls \in Nat /\ plan.faults \in Nat /\ plan.churn \in Nat
        /\ None \notin Nodes
    BY ConstantsAssumption DEF Init, Host1, Image1
  <1>2. \A w \in Workflows : /\ Idle(w) /\ at[w] = "begin" /\ result[w] = "none" /\ quiet[w] = "no"
                             /\ todo[w] = <<>>
    BY DEF Init, Idle
  <1>3. dep \in Deployments /\ rs \in [there : BOOLEAN, image : Images] /\ dep.image = rs.image
    BY <1>1 DEF Init, Deployments
  <1>4. /\ pods \in Seq(Pods) /\ Len(pods) <= MaxPods
        /\ \A k \in DOMAIN pods : pods[k].image = rs.image
        /\ ~dep.there => pods = <<>> /\ ~rs.there
    <2>1. CASE dep.there
      <3>1. PICK n \in Nodes : pods = <<[state |-> "running", node |-> n, image |-> Image1, orphan |-> FALSE]>>
        BY <2>1 DEF Init
      <3>2. [state |-> "running", node |-> n, image |-> Image1, orphan |-> FALSE] \in Pods
        BY <1>1 DEF Pods
      <3>3. pods \in Seq(Pods) /\ Len(pods) = 1 /\ DOMAIN pods = {1} /\ pods[1].image = Image1
        BY <3>1, <3>2
      <3>4. QED
        BY <1>1, <2>1, <3>3 DEF Init
    <2>2. CASE ~dep.there
      <3>1. pods = <<>> /\ ~rs.there
        BY <2>2 DEF Init
      <3>2. QED
        BY <1>1, <2>2, <3>1
    <2>3. QED
      BY <2>1, <2>2
  <1>5. /\ maps \in Maps /\ secrets \in Passwords
        /\ maps.conf # NoSecrets => maps.conf = secrets /\ Given
    <2>1. CASE dep.there
      <3>1. /\ secrets = [a \in Accounts |-> IF a = "aurora" THEN 1 ELSE 2]
            /\ maps = [conf |-> secrets, flag |-> "on", meta |-> TRUE, others |-> TRUE]
        BY <2>1 DEF Init
      <3>2. secrets \in Passwords /\ Given
        BY <3>1 DEF Passwords, Given
      <3>3. QED
        BY <3>1, <3>2 DEF Maps
    <2>2. CASE ~dep.there
      <3>1. maps = NoMaps /\ secrets = NoSecrets
        BY <2>2 DEF Init
      <3>2. NoSecrets \in Passwords
        BY DEF NoSecrets, Passwords
      <3>3. QED
        BY <3>1, <3>2 DEF NoMaps, Maps
    <2>3. QED
      BY <2>1, <2>2
  <1>6. srv \in Servers /\ rw \in Nodes /\ phase \in [Nodes -> {"running", "starting", "failed"}]
    BY <1>1 DEF Init, Servers
  <1>7. TypeOK
    <2>1. [op |-> "accounts", arg |-> None] \in AllOps
      BY DEF AllOps
    <2>2. call \in [Workflows -> AllOps]
      BY <2>1 DEF Init
    <2>3. /\ switching \in BOOLEAN /\ late \subseteq [kind : Requests, arg : Nodes \cup Images \cup {None}]
          /\ addr \in [Workflows -> Nodes \cup {None}]
          /\ at \in [Workflows -> {"begin", "make", "write", "delete"}]
          /\ result \in [Workflows -> {"none", "ok", "error", "panic", "crashed"}]
          /\ met \in [Workflows -> BOOLEAN] /\ quiet \in [Workflows -> {"no", "yes", "enabled"}]
      BY DEF Init
    <2>4. todo \in [Workflows -> Seq(Steps)]
      BY EmptySeq DEF Init
    <2>5. tries \in [Workflows -> 0..MaxTries - 1 \cup 0..MaxPolls]
      BY DEF Init, MaxTries
    <2>6. nCalls \in 0..plan.calls /\ nFaults \in 0..plan.faults /\ nChurn \in 0..plan.churn
      BY <1>1 DEF Init
    <2>7. QED
      BY <1>1, <1>3, <1>4, <1>5, <1>6, <2>2, <2>3, <2>4, <2>5, <2>6 DEF TypeOK
  <1>8. Formed /\ LateTyped /\ Remembered /\ Configured /\ Disabled
    <2>1. \A w \in Workflows : Chain(call[w], <<>>)
      BY EmptySeq DEF Chain
    <2>2. Formed
      BY <1>2, <2>1 DEF Init, Formed
    <2>3. LateTyped
      BY DEF Init, LateTyped
    <2>4. Remembered
      BY <1>2 DEF Remembered, Recalls
    <2>5. Disabled
      BY <1>2 DEF Disabled, Doing
    <2>6. QED
      BY <1>5, <2>2, <2>3, <2>4, <2>5 DEF Configured
  <1>9. Versions /\ Progress /\ OkMeansDone
    <2>1. Versions
      BY <1>3, <1>4 DEF Versions, Present
    <2>2. QED
      BY <1>2, <2>1 DEF Progress, OkMeansDone
  <1>10. QED
    BY <1>7, <1>8, <1>9 DEF IndInv

LEMMA IndInvStep ==
  ASSUME IndInv, [Next]_vars
  PROVE  IndInv'
  <1>1. Base /\ Configured /\ Disabled
    BY TypeParts DEF IndInv, Base
  <1>2. TypeOK'
    BY <1>1, ObjStep, CmStep, PlanStep, CallStep, GhostStep, TypePartsNext
  <1>3. Formed' /\ LateTyped' /\ Remembered' /\ Configured' /\ Disabled'
    BY <1>1, CallStep, CmStep, RememberedStep, ConfiguredStep, DisabledStep
  <1>4. Apart' => Apart
    BY Counting DEF CountersMove, Apart, Creates, Removes
  <1>5. Apart' => (Versions /\ Progress /\ OkMeansDone)'
    BY <1>1, <1>4, VersionsStep, ProgressStep, OkStep DEF IndInv
  <1>6. QED
    BY <1>2, <1>3, <1>5 DEF IndInv

\* Every reachable state has the proper steps left in each call, remembers what
\* half a step has read, is configured and disabled as the code relies on and,
\* when the CM is not created while it is removed, has made the progress its
\* calls have passed.
THEOREM Invariance == Spec => []IndInv
  <1>1. Init => IndInv
    BY IndInvInit
  <1>2. IndInv /\ [Next]_vars => IndInv'
    BY IndInvStep
  <1>3. QED
    BY <1>1, <1>2, PTL DEF Spec

\* The state has its type: attempts and polls stay within their number, an
\* address and what is asked of the CM is a host, the pods are as many as were
\* started.
THEOREM TypeCorrect == Spec => []TypeOK
  <1>1. IndInv => TypeOK
    BY DEF IndInv
  <1>2. QED
    BY <1>1, Invariance, PTL

\* Whoever creates accounts and configuration, and in whatever order their steps
\* fall, the CM is configured with the passwords of the accounts.
THEOREM ConfAgrees == Spec => []ConfMatchesAccounts
  <1>1. IndInv => ConfMatchesAccounts
    BY DEF IndInv, Configured, ConfMatchesAccounts
  <1>2. QED
    BY <1>1, Invariance, PTL

\* A removal deletes the Deployment only after its request to disable HA was
\* answered, and no failover is under way from then on unless somebody enables HA.
THEOREM RemovalIsQuiet == Spec => []QuietDuringRemoval
  <1>1. IndInv => QuietDuringRemoval
    BY DEF IndInv, Disabled, QuietDuringRemoval
  <1>2. QED
    BY <1>1, Invariance, PTL

\* No plan creates and removes the CM, so a behaviour does not.
LEMMA AlwaysApart ==
  ASSUME CreatedApart
  PROVE  IndInv => Apart /\ Versions /\ Progress /\ OkMeansDone
  <1>1. plan \in Plans => Apart
    BY DEF CreatedApart, Apart, Creates, Removes
  <1>2. QED
    BY <1>1 DEF IndInv, TypeOK

\* However upgrades, moves, evictions and the controllers interleave, two pods
\* that are there are of the same version.
THEOREM OneVersion ==
  ASSUME CreatedApart
  PROVE  Spec => []OneVersionAtATime
  <1>1. IndInv => OneVersionAtATime
    BY AlwaysApart DEF Versions, OneVersionAtATime
  <1>2. QED
    BY <1>1, Invariance, PTL

\* A call that returned nil has brought about what it is for at some time since it
\* began, although its requests are lost, repeated or served late.
THEOREM OkIsDone ==
  ASSUME CreatedApart
  PROVE  Spec => []OkMeansDone
  <1>1. IndInv => OkMeansDone
    BY AlwaysApart
  <1>2. QED
    BY <1>1, Invariance, PTL

\* The removal deletes the configuration when every pod of the Deployment has ended.
THEOREM PodsEndFirst ==
  ASSUME CreatedApart
  PROVE  Spec => MapsOutlivePods
  <1> DEFINE Kept == maps.conf # NoSecrets /\ maps'.conf = NoSecrets => \A k \in Present : pods[k].orphan
  <1>1. ASSUME IndInv, [Next]_vars PROVE Kept
    <2> SUFFICES ASSUME maps.conf # NoSecrets, maps'.conf = NoSecrets
                 PROVE  \A k \in Present : pods[k].orphan
      OBVIOUS
    <2>1. Base /\ Progress
      BY <1>1, TypeParts, AlwaysApart DEF IndInv, Base
    <2>2. PICK w \in Workflows : Doing(w, "delConf") /\ call[w].op = "remove"
      BY <1>1, <2>1, MapsStepMoves, NotAsGiven DEF MapsMove
    <2>3. PICK s : s = Head(todo[w])
      OBVIOUS
    <2>4. s = "delConf" /\ Reached(call[w], s)
      BY <2>1, <2>2, <2>3 DEF Doing, Progress
    <2>5. QED
      BY <2>2, <2>4 DEF Reached
  <1>2. IndInv /\ [Next]_vars => [Kept]_vars
    BY <1>1
  <1>3. Spec => [][Kept]_vars
    BY <1>2, Invariance, PTL DEF Spec
  <1>4. QED
    BY <1>3 DEF MapsOutlivePods
=====
