--------------------------- MODULE ClusterManager ---------------------------
(***************************************************************************)
(* The ClusterManager (CM) of a database cluster as the operator sees it:  *)
(* business/adapter/cluster_manager_creator.go creates its ConfigMaps and  *)
(* its Deployment, cluster_manager_client.go asks the running CM for work, *)
(* moves and upgrades it, cluster_manager_remover.go takes it away, and    *)
(* account_repository.go keeps the passwords it is configured with.        *)
(* Several workflows call these at a time; an operation is a sequence of   *)
(* steps.  A request to the CM goes to the address of the node its pod ran *)
(* on when the client was initialised, and is repeated when it failed.     *)
(*                                                                         *)
(* The CM itself, the controllers of Deployments and ReplicaSets, the      *)
(* garbage collector and the scheduler are outside of the repository and   *)
(* modelled from what the client relies on: the CM refuses to add what is  *)
(* there, to remove what is not or what an edge uses; it fails over by     *)
(* itself while HA is enabled, and answers a request to disable HA when no *)
(* switch is under way; it keeps what it knows in its ConfigMaps.          *)
(***************************************************************************)
EXTENDS Integers, Sequences, FiniteSets

CONSTANTS Workflows,
          Nodes,        \* hosts; an engine instance is named by its host
          Images,       \* images of the CM
          None,         \* no address, no node
          Plans,        \* what a behaviour starts from, what its workflows may call, and
                        \* bounds: the calls they make; requests and answers lost and
                        \* crashes; pods evicted, failovers and engines that fail
          MaxPods,      \* bound: CM pods created in a behaviour
          MaxPolls      \* polls before the time of a step is over

Roles == {"setLeader", "setFollower", "demote", "promote"}

AllOps == [op : {"create", "upgrade"}, arg : Images]
            \cup [op : {"remove", "accounts", "disableHA", "enableHA", "deleteCluster",
                        "addEdge", "deleteEdge", "deleteDataMax"} \cup Roles, arg : {None}]
            \cup [op : {"addCluster", "updateCluster", "addDataMax", "updateDataMax", "addIns",
                        "removeIns", "switchover", "affinity"}, arg : Nodes]

\* No CM yet; a CM that knows no other cluster, one, or one an edge uses.
Starts == {"nothing", "alone", "linked", "edge"}

ASSUME ConstantsAssumption ==
  /\ None \notin Nodes /\ Nodes # {} /\ Images # {}
  /\ Plans \subseteq [start : Starts, ops : [Workflows -> SUBSET AllOps], calls : Nat,
                      faults : Nat, churn : Nat]
  /\ MaxPods \in Nat \ {0} /\ MaxPolls \in Nat

VARIABLES
  plan,       \* the plan of the behaviour
  dep,        \* the Deployment: there, image and strategy it asks for
  rs,         \* its ReplicaSet: there, and the image of its pods
  pods,       \* pods[k]: the k-th CM pod; an orphan was started without a Deployment
  maps,       \* ConfigMaps: passwords in conf, HA in flag, meta, what the CM adds
  secrets,    \* password of each account; 0: no secret
  srv,        \* what the CM knows: address of the other cluster, whether an edge
              \* uses it, address of the DataMax, the instances, the last role given
  rw,         \* host of the RW
  phase,      \* status of the engine on each host
  switching,  \* a failover is under way
  late,       \* requests whose client is gone and that may still be carried out
  addr,       \* address a workflow's client was initialised with
  call,       \* operation a workflow has called
  todo,       \* its steps left; <<>>: no call
  at,         \* where inside the current step
  tries,      \* attempts or polls made in the current step
  read,       \* what a step has read: passwords, an image, a status
  result,     \* what the last call returned
  \* observation only
  nCalls, nFaults, nChurn,
  met,        \* met[w]: what w's call is for has held since it began
  quiet       \* quiet[w]: "yes": w's call has disabled HA, "enabled": then somebody enabled it

podVars == <<dep, rs, pods>>
cmVars == <<maps, secrets, srv, rw, phase, switching, late>>
callVars == <<addr, call, todo, at, tries, read, result>>
boundVars == <<plan, nCalls, nFaults, nChurn>>
ghostVars == <<met, quiet>>
vars == <<podVars, cmVars, callVars, boundVars, ghostVars>>

MaxTries == 4      \* retryutil.Retry calls the request maxRetries + 1 times
Accounts == {"aurora", "replicator"}

Deployments == [there : BOOLEAN, image : Images, strategy : {"RollingUpdate", "Recreate"}]
Pods == [state : {"pending", "running", "leaving", "gone"}, node : Nodes, image : Images, orphan : BOOLEAN]
Passwords == [Accounts -> Nat]
NoSecrets == [a \in Accounts |-> 0]
Maps == [conf : Passwords, flag : {"none", "on", "off"}, meta : BOOLEAN, others : BOOLEAN]
NoMaps == [conf |-> NoSecrets, flag |-> "none", meta |-> FALSE, others |-> FALSE]
Servers == [cluster : Nodes \cup {None}, edge : BOOLEAN, dataMax : Nodes \cup {None},
            ins : SUBSET Nodes, role : Roles \cup {None}]
NewServer == [cluster |-> None, edge |-> FALSE, dataMax |-> None, ins |-> {}, role |-> None]

Image1 == CHOOSE i \in Images : TRUE
Host1 == CHOOSE n \in Nodes : TRUE

\* There is no CM yet, or it runs and manages every instance.
Init ==
  /\ rw = Host1 /\ plan \in Plans
  /\ dep = [there |-> plan.start # "nothing", image |-> Image1, strategy |-> "RollingUpdate"]
  /\ rs = [there |-> dep.there, image |-> Image1]
  /\ IF dep.there
     THEN /\ \E n \in Nodes : pods = <<[state |-> "running", node |-> n, image |-> Image1,
                                      orphan |-> FALSE]>>
          /\ secrets = [a \in Accounts |-> IF a = "aurora" THEN 1 ELSE 2]
          /\ maps = [conf |-> secrets, flag |-> "on", meta |-> TRUE, others |-> TRUE]
     ELSE pods = <<>> /\ maps = NoMaps /\ secrets = NoSecrets
  /\ srv = [cluster |-> IF plan.start \in {"linked", "edge"} THEN Host1 ELSE None,
            edge |-> plan.start = "edge", dataMax |-> None,
            ins |-> IF dep.there THEN Nodes ELSE {}, role |-> None]
  /\ phase = [n \in Nodes |-> "running"]
  /\ switching = FALSE /\ late = {}
  /\ addr = [w \in Workflows |-> None]
  /\ call = [w \in Workflows |-> [op |-> "accounts", arg |-> None]]
  /\ todo = [w \in Workflows |-> <<>>]
  /\ at = [w \in Workflows |-> "begin"]
  /\ tries = [w \in Workflows |-> 0]
  /\ read = [w \in Workflows |-> None]
  /\ result = [w \in Workflows |-> "none"]
  /\ nCalls = 0 /\ nFaults = 0 /\ nChurn = 0
  /\ met = [w \in Workflows |-> FALSE]
  /\ quiet = [w \in Workflows |-> "no"]
-----------------------------------------------------------------------------
(***************************************************************************)
(* Steps of a call                                                         *)
(***************************************************************************)
Idle(w) == todo[w] = <<>>
Doing(w, s) == ~Idle(w) /\ Head(todo[w]) = s

Fault == nFaults < plan.faults /\ nFaults' = nFaults + 1
NoFault == UNCHANGED nFaults

Set(f, w, v) == [f EXCEPT ![w] = v]

Return(w, r) ==
  /\ result' = Set(result, w, r)
  /\ todo' = Set(todo, w, <<>>)
  /\ at' = Set(at, w, "begin") /\ tries' = Set(tries, w, 0) /\ read' = Set(read, w, None)

\* The call goes on with other steps.
Continue(w, steps) ==
  IF steps = <<>> THEN Return(w, "ok")
  ELSE /\ todo' = Set(todo, w, steps)
       /\ at' = Set(at, w, "begin") /\ tries' = Set(tries, w, 0) /\ read' = Set(read, w, None)
       /\ UNCHANGED result

Advance(w) == Continue(w, Tail(todo[w]))

\* The current step goes on at l, with what it has read.
Goto(w, l, v) ==
  /\ at' = Set(at, w, l) /\ read' = Set(read, w, v)
  /\ UNCHANGED <<todo, tries, result>>

\* Mutant of MayRepeat: one attempt too many.
MayRepeatOnce(w, n) == tries[w] < n
MayRepeat(w, n) == tries[w] + 1 < n

\* The step is tried again, n attempts being made in all.
Again(w, n) ==
  IF MayRepeat(w, n)
  THEN tries' = Set(tries, w, tries[w] + 1) /\ UNCHANGED <<todo, at, read, result>>
  ELSE Return(w, "error")

Present == {k \in DOMAIN pods : pods[k].state # "gone"}
Active == {k \in DOMAIN pods : pods[k].state \in {"pending", "running"}}
Running == {k \in DOMAIN pods : pods[k].state = "running"}

\* What a call is for.
Goal(c) ==
  CASE c.op = "create"        -> dep.there /\ maps.conf # NoSecrets /\ maps.flag # "none" /\ maps.meta
    [] c.op = "remove"        -> ~dep.there /\ maps = NoMaps
    [] c.op = "upgrade"       -> dep.there /\ dep.image = c.arg
    [] c.op = "affinity"      -> \/ \A k \in Active : pods[k].node # c.arg
                                 \/ Cardinality(Present) > 1
    [] c.op = "accounts"      -> \A a \in Accounts : secrets[a] # 0
    [] c.op = "disableHA"     -> maps.flag = "off"
    [] c.op = "enableHA"      -> maps.flag = "on"
    [] c.op = "addCluster"    -> srv.cluster = c.arg \/ srv.edge
    [] c.op = "updateCluster" -> srv.cluster = c.arg
    [] c.op = "deleteCluster" -> srv.cluster = None
    [] c.op \in {"addDataMax", "updateDataMax"} -> srv.dataMax = c.arg
    [] c.op = "deleteDataMax" -> srv.dataMax = None
    [] c.op \in Roles         -> srv.role = c.op
    [] c.op = "addEdge"       -> srv.edge
    [] c.op = "deleteEdge"    -> ~srv.edge
    [] c.op = "addIns"        -> c.arg \in srv.ins
    [] c.op = "removeIns"     -> c.arg \notin srv.ins
    [] c.op = "switchover"    -> rw = c.arg
    [] OTHER                  -> FALSE

\* What each step adds to the observation; disabled are the workflows whose
\* request to disable HA was answered.
Observe(disabled) ==
  /\ met' = [w \in Workflows |->
              CASE Idle(w) /\ todo'[w] = <<>> -> met[w]
                [] Idle(w) /\ todo'[w] # <<>> -> Goal(call[w])'
                [] OTHER                      -> met[w] \/ Goal(call[w])']
  /\ quiet' = [w \in Workflows |->
                CASE todo'[w] = <<>> -> "no"
                  [] todo'[w] # <<>> /\ w \in disabled -> "yes"
                  [] OTHER -> IF quiet[w] = "yes" /\ maps'.flag = "on" THEN "enabled" ELSE quiet[w]]
-----------------------------------------------------------------------------
(***************************************************************************)
(* The operations                                                          *)
(***************************************************************************)
Creating == <<"conf", "meta", "flag", "deploy">>
Adding == <<"connect", "removeCluster", "addCluster">>
DeletingMaps == <<"delConf", "delMeta", "delFlag", "delOthers">>

Program(c) ==
  CASE c.op = "create"     -> Creating
    [] c.op = "remove"     -> <<"getDep">>
    [] c.op = "accounts"   -> <<"aurora", "replicator">>
    [] c.op = "addCluster" -> Adding
    [] c.op = "deleteCluster" -> <<"connect", "removeCluster">>
    [] c.op = "switchover" -> <<"connect", "waitStarted", "switchover">>
    [] c.op \in {"upgrade", "affinity"} -> <<c.op>>
    [] OTHER               -> <<"connect", c.op>>

Call(w, c) ==
  /\ Idle(w) /\ nCalls < plan.calls
  /\ call' = Set(call, w, c)
  /\ todo' = Set(todo, w, Program(c))
  /\ result' = Set(result, w, "none")
  /\ nCalls' = nCalls + 1
  /\ UNCHANGED <<podVars, cmVars, addr, at, tries, read, plan, nFaults, nChurn>>
  /\ Observe({})

Step(w) == ~Idle(w) /\ UNCHANGED <<call, plan, nCalls, nChurn, phase, switching>>

\* A step that asks the API server.
ApiStep(w) == Step(w) /\ UNCHANGED <<rw, late, addr>>

ApiSteps == Accounts \cup {"upgrade", "affinity", "getDep", "deleteDep", "conf", "meta", "flag",
                           "deploy", "delConf", "delMeta", "delFlag", "delOthers"}

\* A request to the API server fails.
ApiFails(w) ==
  /\ ApiStep(w) /\ Head(todo[w]) \in ApiSteps /\ Fault /\ Return(w, "error")
  /\ UNCHANGED <<podVars, maps, secrets, srv>>
  /\ Observe({})

\* A request that changes something is answered, or its answer is lost.
Answered(w) == (NoFault /\ Advance(w)) \/ (Fault /\ Return(w, "error"))
-----------------------------------------------------------------------------
(***************************************************************************)
(* Creating objects that are not there: accounts, ConfigMaps, Deployment   *)
(***************************************************************************)
Exists(s) == CASE s \in Accounts -> secrets[s] # 0
               [] s = "conf"     -> maps.conf # NoSecrets
               [] s = "meta"     -> maps.meta
               [] s = "flag"     -> maps.flag # "none"
               [] s = "deploy"   -> dep.there

\* A random password that was not used before.
NewPassword == 1 + CHOOSE m \in {secrets[a] : a \in Accounts} :
                     \A a \in Accounts : secrets[a] <= m

\* The object as the step found it worth making, v having been read.
Make(s, v, image) ==
  /\ secrets' = IF s \in Accounts THEN [secrets EXCEPT ![s] = NewPassword] ELSE secrets
  /\ maps' = CASE s = "conf" -> [maps EXCEPT !.conf = v]
               [] s = "meta" -> [maps EXCEPT !.meta = TRUE]
               [] s = "flag" -> [maps EXCEPT !.flag = "on"]
               [] OTHER      -> maps
  /\ dep' = IF s = "deploy" THEN [there |-> TRUE, image |-> image, strategy |-> "RollingUpdate"] ELSE dep

\* The configuration needs both accounts, whether its ConfigMap is there or not.
AccountsMissing(s) == s = "conf" /\ \E a \in Accounts : secrets[a] = 0

\* Mutant of MayMake: an object that has appeared since is written over.
MayMakeAlways(s) == TRUE
\* The API server creates an object only if it is not there.
MayMake(s) == ~Exists(s)

\* Get, and Create if it was not found.  What is there is never updated.
Ensure(w, s) ==
  /\ Doing(w, s) /\ ApiStep(w) /\ UNCHANGED <<rs, pods, srv>>
  /\ \/ /\ at[w] = "begin" /\ NoFault /\ UNCHANGED <<dep, maps, secrets>>
        /\ CASE AccountsMissing(s) -> Return(w, "error")
             [] ~AccountsMissing(s) /\ Exists(s) -> Advance(w)
             [] OTHER -> Goto(w, "make", secrets)
     \/ /\ at[w] = "make" /\ MayMake(s)
        /\ Make(s, read[w], call[w].arg) /\ Answered(w)
     \/ /\ at[w] = "make" /\ ~MayMake(s) /\ NoFault /\ Return(w, "error")
        /\ UNCHANGED <<dep, maps, secrets>>
  /\ Observe({})
-----------------------------------------------------------------------------
(***************************************************************************)
(* The Deployment and its pods                                             *)
(***************************************************************************)
DepStep(w) == ApiStep(w) /\ UNCHANGED <<rs, secrets, srv>>

\* Mutant of Upgraded: the strategy stays what it is.
UpgradedRolling(image) == [dep EXCEPT !.image = image]
\* The old CM has to be gone before the new one starts.
Upgraded(image) == [dep EXCEPT !.image = image, !.strategy = "Recreate"]

\* upgradeCmDeploy: the Deployment is read, and written if nobody did meanwhile.
Upgrade(w) ==
  /\ Doing(w, "upgrade") /\ DepStep(w) /\ UNCHANGED <<pods, maps>>
  /\ \/ /\ at[w] = "begin" /\ NoFault /\ UNCHANGED dep
        /\ CASE ~dep.there              -> Return(w, "error")
             [] dep.there /\ dep.image = call[w].arg -> Advance(w)
             [] OTHER                   -> Goto(w, "write", dep)
     \/ /\ at[w] = "write" /\ dep = read[w]
        /\ dep' = Upgraded(call[w].arg) /\ Answered(w)
     \/ at[w] = "write" /\ dep # read[w] /\ NoFault /\ Return(w, "error") /\ UNCHANGED dep
  /\ Observe({})

\* The single pod that is neither leaving nor still pending, if there is one.
TheRunning == IF Cardinality(Active) = 1 THEN Active \cap Running ELSE {}

\* EnsureAffinity: the first pod of the list is deleted if it is on the host of
\* the RW.  Deleting it ends the call at once; only when it was not found is the
\* next one waited for, and that wait reads a pod that may be nil.
Affinity(w) ==
  /\ Doing(w, "affinity") /\ DepStep(w) /\ UNCHANGED <<dep, maps>>
  /\ \/ /\ at[w] = "begin" /\ NoFault /\ UNCHANGED pods
        /\ \/ Present = {} /\ Advance(w)
           \/ \E k \in Present : IF pods[k].node = call[w].arg THEN Goto(w, "delete", k)
                                                            ELSE Advance(w)
     \/ /\ at[w] = "delete" /\ read[w] \in Present
        /\ pods' = [pods EXCEPT ![read[w]].state = "leaving"]
        /\ Answered(w)
     \/ /\ at[w] = "delete" /\ read[w] \notin Present /\ NoFault /\ UNCHANGED pods
        /\ IF TheRunning # {} THEN Advance(w) ELSE Return(w, "panic")
  /\ Observe({})

\* ClusterManagerRemover.Remove: HA is disabled and the Deployment deleted if it
\* is there, then the pods have to go, then the ConfigMaps are deleted.
GetDeployment(w) ==
  /\ Doing(w, "getDep") /\ DepStep(w) /\ UNCHANGED <<dep, pods, maps>> /\ NoFault
  /\ Continue(w, (IF dep.there THEN <<"connect", "disableHA", "deleteDep">> ELSE <<>>)
                    \o <<"waitGone">> \o DeletingMaps)
  /\ Observe({})

DeleteDeployment(w) ==
  /\ Doing(w, "deleteDep") /\ DepStep(w) /\ UNCHANGED <<pods, maps>>
  /\ \/ dep.there /\ dep' = [dep EXCEPT !.there = FALSE] /\ Answered(w)
     \/ ~dep.there /\ NoFault /\ Return(w, "error") /\ UNCHANGED dep
  /\ Observe({})

\* Mutant of AllGone: pods that are leaving are not waited for.
AllGoneActive == Active = {}
AllGone == Present = {}

WaitForCmDeleted(w) ==
  /\ Doing(w, "waitGone") /\ DepStep(w) /\ UNCHANGED <<dep, pods, maps>> /\ NoFault
  /\ IF AllGone THEN Advance(w) ELSE Again(w, MaxPolls)
  /\ Observe({})

DeleteMap(w) ==
  /\ ApiStep(w) /\ UNCHANGED <<podVars, secrets>>
  /\ LET s == Head(todo[w]) IN
     /\ s \in {"delConf", "delMeta", "delFlag", "delOthers"}
     /\ maps' = CASE s = "delConf"   -> [maps EXCEPT !.conf = NoSecrets]
                  [] s = "delMeta"   -> [maps EXCEPT !.meta = FALSE]
                  [] s = "delFlag"   -> [maps EXCEPT !.flag = "none"]
                  [] s = "delOthers" -> [maps EXCEPT !.others = FALSE]
     /\ srv' = IF s = "delMeta" THEN NewServer ELSE srv
  /\ Answered(w)
  /\ Observe({})
-----------------------------------------------------------------------------
(***************************************************************************)
(* Requests to the CM                                                      *)
(***************************************************************************)
\* InitWithLocalDbCluster: the Deployment has to be there, and the node of the
\* running pod is waited for; it is the address from now on.
Connect(w) ==
  /\ Doing(w, "connect") /\ Step(w) /\ UNCHANGED <<podVars, maps, secrets, srv, rw, late>>
  /\ \/ /\ NoFault
        /\ CASE ~dep.there -> Return(w, "error") /\ UNCHANGED addr
             [] dep.there /\ TheRunning # {} ->
                  /\ \E k \in TheRunning : addr' = Set(addr, w, pods[k].node)
                  /\ Advance(w)
             [] OTHER -> Again(w, MaxPolls) /\ UNCHANGED addr
     \/ Fault /\ Return(w, "error") /\ UNCHANGED addr
  /\ Observe({})

Requests == {"disableHA", "enableHA", "removeCluster", "addCluster", "updateCluster",
             "addDataMax", "updateDataMax", "deleteDataMax", "addEdge", "deleteEdge", "addIns",
             "removeIns", "switchover"} \cup Roles

Answer(q) ==
  CASE q.kind = "addCluster"    -> IF srv.cluster = None THEN "ok" ELSE "exists"
    [] q.kind = "updateCluster" -> IF srv.cluster = None THEN "absent" ELSE "ok"
    [] q.kind = "removeCluster" -> IF srv.cluster = None THEN "absent"
                                   ELSE IF srv.edge THEN "using" ELSE "ok"
    [] q.kind = "addDataMax"    -> IF srv.dataMax = None THEN "ok" ELSE "exists"
    [] q.kind \in {"updateDataMax", "deleteDataMax"} -> IF srv.dataMax = None THEN "absent" ELSE "ok"
    [] q.kind = "addEdge"       -> IF srv.cluster = None THEN "absent"
                                   ELSE IF srv.edge THEN "exists" ELSE "ok"
    [] q.kind = "deleteEdge"    -> IF srv.edge THEN "ok" ELSE "absent"
    [] q.kind = "addIns"        -> IF q.arg \in srv.ins THEN "exists" ELSE "ok"
    [] q.kind = "removeIns"     -> IF q.arg \in srv.ins THEN "ok" ELSE "absent"
    [] q.kind = "switchover"    -> IF q.arg \in srv.ins THEN "ok" ELSE "refused"
    [] q.kind \in {"disableHA", "enableHA"} -> IF maps.flag # "none" THEN "ok" ELSE "refused"
    [] OTHER                    -> "ok"

Effect(q) ==
  CASE q.kind \in {"addCluster", "updateCluster"} -> [srv EXCEPT !.cluster = q.arg]
    [] q.kind = "removeCluster" -> [srv EXCEPT !.cluster = None]
    [] q.kind \in {"addDataMax", "updateDataMax"} -> [srv EXCEPT !.dataMax = q.arg]
    [] q.kind = "deleteDataMax" -> [srv EXCEPT !.dataMax = None]
    [] q.kind \in Roles         -> [srv EXCEPT !.role = q.kind]
    [] q.kind = "addEdge"       -> [srv EXCEPT !.edge = TRUE]
    [] q.kind = "deleteEdge"    -> [srv EXCEPT !.edge = FALSE]
    [] q.kind = "addIns"        -> [srv EXCEPT !.ins = @ \cup {q.arg}]
    [] q.kind = "removeIns"     -> [srv EXCEPT !.ins = @ \ {q.arg}]
    [] OTHER                    -> srv

\* The CM carries a request out; it disables HA, and switches over, when no
\* failover is under way.
CanServe(q) == q.kind \in {"disableHA", "switchover"} => ~switching

Serve(q) ==
  /\ CanServe(q)
  /\ IF Answer(q) = "ok"
     THEN /\ srv' = Effect(q)
          /\ rw' = IF q.kind = "switchover" THEN q.arg ELSE rw
          /\ maps' = CASE q.kind = "disableHA" -> [maps EXCEPT !.flag = "off"]
                       [] q.kind = "enableHA"  -> [maps EXCEPT !.flag = "on"]
                       [] OTHER               -> maps
     ELSE UNCHANGED <<srv, rw, maps>>

\* Somebody listens at the address the client was given.
Reaches(w) == \E k \in Running : pods[k].node = addr[w]

\* How an operation takes the answer to a request.  Answers that tell that
\* there is nothing to do end the attempts; whether they are errors depends.
Reply(w, a) ==
  LET s == Head(todo[w]) IN
  CASE a = "ok" -> Advance(w)
    [] a = "absent" /\ s \in {"removeCluster", "deleteDataMax", "deleteEdge", "removeIns"} -> Advance(w)
    [] a = "exists" /\ s = "addIns" -> Advance(w)
    [] a = "exists" /\ s = "addCluster" -> Continue(w, <<"updateCluster">>)
    [] a = "exists" /\ s = "addDataMax" -> Continue(w, <<"updateDataMax">>)
    [] a = "using" /\ call[w].op = "addCluster" -> Return(w, "ok")
    [] a = "refused" -> Again(w, MaxTries)
    [] OTHER -> Return(w, "error")

\* Mutant of Repeat: a request that failed counts as done.
RepeatNot(w) == Advance(w)
\* A request that failed is made again.
Repeat(w) == Again(w, MaxTries)

\* doActionCommon: a request is carried out and answered; its answer is lost;
\* it is lost, or delayed beyond the client's patience; nobody listens.
Ask(w) ==
  /\ Step(w) /\ Head(todo[w]) \in Requests /\ UNCHANGED <<podVars, secrets, addr>>
  /\ LET s == Head(todo[w])
         q == [kind |-> s, arg |-> call[w].arg]
     IN \/ /\ Reaches(w) /\ Serve(q) /\ UNCHANGED late
           /\ \/ /\ NoFault /\ Reply(w, Answer(q))
                 /\ Observe(IF s = "disableHA" THEN {w} ELSE {})
              \/ Fault /\ Repeat(w) /\ Observe({})
        \/ /\ Reaches(w) /\ Fault /\ Repeat(w) /\ UNCHANGED <<maps, srv, rw>>
           /\ late' \in {late, late \cup {q}}
           /\ Observe({})
        \/ /\ ~Reaches(w) /\ NoFault /\ Repeat(w) /\ UNCHANGED <<maps, srv, rw, late>>
           /\ Observe({})

\* Status of the RO the wait goes by.  The pointer to the loop's variable shows
\* the last RO of the list, whichever was looked for; what an earlier poll found
\* is kept when a later one does not find it.
Judged(w) ==
  LET ros == srv.ins \ {rw} IN
  IF call[w].arg = rw THEN {phase[rw]}
  ELSE IF call[w].arg \in ros THEN {phase[n] : n \in ros} ELSE {read[w]}

\* WaitForStartingCompleted.
WaitForStartingCompleted(w) ==
  /\ Doing(w, "waitStarted") /\ Step(w)
  /\ UNCHANGED <<podVars, maps, secrets, srv, rw, late, addr>>
  /\ \/ /\ Reaches(w) /\ NoFault
        /\ \E p \in Judged(w) :
             CASE p = "running"  -> Advance(w)
               [] p = "starting" -> /\ tries' = Set(tries, w, 0) /\ read' = Set(read, w, p)
                                    /\ UNCHANGED <<todo, at, result>>
               [] p = "failed"   -> Return(w, "error")
               [] OTHER          -> Again(w, MaxPolls)
     \/ (IF Reaches(w) THEN Fault ELSE NoFault) /\ Again(w, MaxPolls)
  /\ Observe({})
-----------------------------------------------------------------------------
(***************************************************************************)
(* The cluster                                                             *)
(***************************************************************************)
EnvStep == UNCHANGED <<callVars, plan, nCalls, nFaults>> /\ Observe({})
PodStep == UNCHANGED <<dep, cmVars>>

\* The ReplicaSet follows the Deployment: at once when it rolls, after every pod
\* has ended when it recreates; it is collected some time after the Deployment.
Follow ==
  /\ IF dep.there
     THEN /\ rs # [there |-> TRUE, image |-> dep.image]
          /\ dep.strategy = "Recreate" => Present = {}
          /\ rs' = [there |-> TRUE, image |-> dep.image]
     ELSE rs.there /\ rs' = [rs EXCEPT !.there = FALSE]
  /\ PodStep /\ UNCHANGED <<pods, nChurn>> /\ EnvStep

\* A pod is started, never on the host of the RW.
StartPod ==
  /\ rs.there /\ Len(pods) < MaxPods
  /\ ~\E k \in Active : pods[k].image = rs.image
  /\ dep.there /\ dep.strategy = "Recreate" => dep.image = rs.image
  /\ \E n \in Nodes \ {rw} :
       pods' = Append(pods, [state |-> "pending", node |-> n, image |-> rs.image,
                            orphan |-> ~dep.there])
  /\ PodStep /\ UNCHANGED <<rs, nChurn>> /\ EnvStep

\* A pod needs the ConfigMap it is configured with.
PodRuns(k) ==
  /\ pods[k].state = "pending" /\ maps.conf # NoSecrets
  /\ pods' = [pods EXCEPT ![k].state = "running"]
  /\ PodStep /\ UNCHANGED <<rs, nChurn>> /\ EnvStep

\* A pod nobody wants any more is told to leave.
PodLeaves(k) ==
  /\ k \in Active
  /\ \/ ~rs.there \/ pods[k].image # rs.image
     \/ dep.there /\ dep.strategy = "Recreate" /\ pods[k].image # dep.image
  /\ pods' = [pods EXCEPT ![k].state = "leaving"]
  /\ PodStep /\ UNCHANGED <<rs, nChurn>> /\ EnvStep

PodEnds(k) ==
  /\ pods[k].state = "leaving" /\ pods' = [pods EXCEPT ![k].state = "gone"]
  /\ PodStep /\ UNCHANGED <<rs, nChurn>> /\ EnvStep

\* A pod is evicted, an engine changes its status.
Churn ==
  /\ nChurn < plan.churn /\ nChurn' = nChurn + 1
  /\ \/ /\ \E k \in Active : pods' = [pods EXCEPT ![k].state = "leaving"]
        /\ PodStep /\ UNCHANGED rs
     \/ /\ \E n \in Nodes, p \in {"starting", "failed"} : phase' = [phase EXCEPT ![n] = p]
        /\ UNCHANGED <<podVars, maps, secrets, srv, rw, switching, late>>
  /\ EnvStep

EngineStarts(n) ==
  /\ phase[n] = "starting" /\ phase' = [phase EXCEPT ![n] = "running"]
  /\ UNCHANGED <<podVars, maps, secrets, srv, rw, switching, late, nChurn>> /\ EnvStep

\* The CM fails over by itself while HA is enabled.
FailOver ==
  /\ nChurn < plan.churn /\ nChurn' = nChurn + 1
  /\ Running # {} /\ maps.flag = "on" /\ ~switching /\ switching' = TRUE
  /\ UNCHANGED <<podVars, maps, secrets, srv, rw, phase, late>> /\ EnvStep

FailedOver ==
  /\ switching /\ switching' = FALSE
  /\ rw' \in srv.ins \cup {rw}
  /\ UNCHANGED <<podVars, maps, secrets, srv, phase, late, nChurn>> /\ EnvStep

\* A request is carried out after its client has given it up.
ServeLate(q) ==
  /\ q \in late /\ late' = late \ {q} /\ Running # {} /\ Serve(q)
  /\ UNCHANGED <<podVars, secrets, phase, switching, nChurn>> /\ EnvStep

\* The operator is restarted: every call is gone.
Crash ==
  /\ Fault /\ \E w \in Workflows : ~Idle(w)
  /\ todo' = [w \in Workflows |-> <<>>]
  /\ at' = [w \in Workflows |-> "begin"] /\ tries' = [w \in Workflows |-> 0]
  /\ read' = [w \in Workflows |-> None] /\ addr' = [w \in Workflows |-> None]
  /\ result' = [w \in Workflows |-> IF Idle(w) THEN result[w] ELSE "crashed"]
  /\ UNCHANGED <<podVars, cmVars, call, plan, nCalls, nChurn>>
  /\ Observe({})
-----------------------------------------------------------------------------
Proceed(w) == \/ \E s \in Accounts \cup {"conf", "meta", "flag", "deploy"} : Ensure(w, s)
              \/ ApiFails(w) \/ Upgrade(w) \/ Affinity(w) \/ GetDeployment(w)
              \/ DeleteDeployment(w) \/ WaitForCmDeleted(w) \/ DeleteMap(w)
              \/ Connect(w) \/ Ask(w) \/ WaitForStartingCompleted(w)

Next == \/ \E w \in Workflows : Proceed(w) \/ \E c \in plan.ops[w] : Call(w, c)
        \/ Follow \/ StartPod \/ Churn \/ FailOver \/ FailedOver \/ Crash
        \/ \E k \in DOMAIN pods : PodRuns(k) \/ PodLeaves(k) \/ PodEnds(k)
        \/ \E n \in Nodes : EngineStarts(n)
        \/ \E q \in late : ServeLate(q)

Spec == Init /\ [][Next]_vars

\* A step of a workflow is taken as long as there is one, an engine that starts
\* has started some time, and the CM finishes a failover it has begun.
Fairness == /\ WF_vars(\E w \in Workflows : Proceed(w))
            /\ WF_vars(\E n \in Nodes : EngineStarts(n))
            /\ WF_vars(FailedOver)

FairSpec == Spec /\ Fairness
-----------------------------------------------------------------------------
(***************************************************************************)
(* Properties                                                              *)
(***************************************************************************)
Steps == ApiSteps \cup Requests \cup {"connect", "waitGone", "waitStarted"}

\* Types: bounded polls and attempts (retryutil, waitutil), an address only after connect.
TypeOK ==
  /\ dep \in Deployments
  /\ rs \in [there : BOOLEAN, image : Images]
  /\ pods \in Seq(Pods) /\ Len(pods) <= MaxPods
  /\ maps \in Maps /\ secrets \in Passwords /\ srv \in Servers
  /\ rw \in Nodes /\ phase \in [Nodes -> {"running", "starting", "failed"}]
  /\ switching \in BOOLEAN
  /\ late \subseteq [kind : Requests, arg : Nodes \cup Images \cup {None}]
  /\ addr \in [Workflows -> Nodes \cup {None}]
  /\ call \in [Workflows -> AllOps]
  /\ todo \in [Workflows -> Seq(Steps)]
  /\ at \in [Workflows -> {"begin", "make", "write", "delete"}]
  /\ tries \in [Workflows -> 0..MaxTries - 1 \cup 0..MaxPolls]
  /\ result \in [Workflows -> {"none", "ok", "error", "panic", "crashed"}]
  /\ plan \in Plans /\ nCalls \in 0..plan.calls /\ nFaults \in 0..plan.faults /\ nChurn \in 0..plan.churn
  /\ met \in [Workflows -> BOOLEAN] /\ quiet \in [Workflows -> {"no", "yes", "enabled"}]

\* What a call that returned nil was to bring about was so at some time since it
\* began, with requests lost, repeated and late, pods that move, and the other
\* workflow's calls in between.  (AddCluster leaves a cluster that an edge uses
\* as it is; EnsureAffinity looks at one pod only.)
OkMeansDone == \A w \in Workflows : Idle(w) /\ result[w] = "ok" => met[w]

\* cluster_manager_remover.go:57: HA is disabled first, because the CM would
\* switch over in the middle of the removal; nothing does, unless somebody else
\* enables HA.
QuietDuringRemoval ==
  \A w \in Workflows :
    /\ Doing(w, "deleteDep") => quiet[w] # "no"
    /\ quiet[w] = "yes" => ~switching

\* The CM is configured with the passwords of the accounts, which nobody changes
\* once they were given.
ConfMatchesAccounts == maps.conf # NoSecrets => maps.conf = secrets

\* Two versions of the CM never run at a time: an upgrade replaces the pods of
\* the old one after they ended (upgradeCmDeploy).
OneVersionAtATime == \A j, k \in Present : pods[j].image = pods[k].image

\* The CM's ConfigMaps are deleted when none of its pods is left, save for one
\* that the ReplicaSet starts after the Deployment was deleted.
MapsOutlivePods ==
  [][maps.conf # NoSecrets /\ maps'.conf = NoSecrets
     => \A k \in Present : pods[k].orphan]_vars

\* Every call returns.
CallsEnd == \A w \in Workflows : ~Idle(w) ~> Idle(w)
=============================================================================
