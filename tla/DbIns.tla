------------------------------- MODULE DbIns -------------------------------
(***************************************************************************)
(* business/domain/db_ins.go with the helpers it calls: the life cycle of  *)
(* the database instances of a cluster.  A workflow calls one operation at *)
(* a time; an operation is a sequence of steps against the API server      *)
(* (create, delete and watch the pod: pod_manager_base.go, k8sutil.go) and *)
(* against the pod itself (commands executed in the manager container:     *)
(* manager_client.go).  All instances share one ManagerClient, which has   *)
(* to be told by SetIns whose pod its commands go to.                      *)
(*                                                                         *)
(* The API server, the kubelet, the engine and the watch are modelled from *)
(* what the code relies on: conditions lag behind the containers, a watch  *)
(* replays what happened after the version it starts from and ends after   *)
(* its timeout, and a channel that was closed delivers empty events.       *)
(***************************************************************************)
EXTENDS Integers, Sequences

CONSTANTS Instances,
          Ops,          \* Ops[i]: operations the workflow may call on instance i
          NoIns,        \* the manager client was given no instance yet
          MaxCalls,     \* bound: operations called in a behaviour
          MaxFaults,    \* bound: requests and answers lost, failures, crashes
          MaxChurn,     \* bound: changes of pods nobody in this code asked for
          MaxPolls      \* polls before the time of a step is over

AllOps == {"create", "delete", "stopDelete", "stopDeleteAny", "install", "waitInstall",
           "markInstalled", "health", "flush", "flushRestart", "restart", "stop",
           "start", "label", "grow"}

ASSUME ConstantsAssumption ==
  /\ Instances # {} /\ NoIns \notin Instances
  /\ Ops \in [Instances -> SUBSET AllOps]
  /\ MaxCalls \in Nat /\ MaxFaults \in Nat /\ MaxChurn \in Nat /\ MaxPolls \in Nat

VARIABLES
  pod,        \* the pod of each instance, as the API server has it
  box,        \* its manager and engine containers: "none", "up", "dying"
  engine,     \* "down", "starting", "up"
  data,       \* the copy of the initial data: "none", "running", "done", "failed"
  installed,  \* DbIns.Installed
  target,     \* instance the manager client is set to
  call,       \* [op, ins] of the current or last call
  todo,       \* steps of the call left, the current one first; <<>>: no call
  at,         \* where inside the current step
  tries,      \* attempts or polls made in the current step
  watch,      \* "off", "on": changes are recorded in log, "closed"
  log,        \* events the watch will still deliver
  cancelled,  \* the context of the call was cancelled
  result,     \* what the last call returned
  \* observation only
  nCalls, nFaults, nChurn,
  did         \* what happened to the call's own instance since the call began

podVars == <<pod, box, engine, data>>
stepVars == <<todo, at, tries, watch, log, result>>
vars == <<podVars, installed, target, call, stepVars, cancelled, nCalls, nFaults, nChurn, did>>

MaxTries == 4      \* RetryFunc calls its function maxRetries + 1 times

\* What the conditions of a pod say: none yet, PodScheduled False, PodScheduled
\* True, ContainersReady False, Ready True.
Shown == {"new", "refused", "bound", "starting", "ready"}
Types == {"rw", "ro"}
NewType == "ro"    \* what EnsureInsTypeMeta is asked to write
Pods == [there : BOOLEAN, shows : Shown, deleting : BOOLEAN, type : Types]
NoPod == [there |-> FALSE, shows |-> "new", deleting |-> FALSE, type |-> "rw"]
NewPod == [NoPod EXCEPT !.there = TRUE]

Events == [kind : {"ADDED", "MODIFIED", "DELETED", "ERROR"}, shows : Shown]
Event(k, s) == [kind |-> k, shows |-> s]

Idle == todo = <<>>
Now(s) == ~Idle /\ Head(todo) = s

\* The instances are still to be created, or run.
Init ==
  /\ \E b \in BOOLEAN : LET up == [i \in Instances |-> b] IN
       /\ pod = [i \in Instances |-> IF up[i] THEN [NewPod EXCEPT !.shows = "ready"] ELSE NoPod]
       /\ box = [i \in Instances |-> IF up[i] THEN "up" ELSE "none"]
       /\ engine = [i \in Instances |-> IF up[i] THEN "up" ELSE "down"]
       /\ data = [i \in Instances |-> IF up[i] THEN "done" ELSE "none"]
       /\ installed = up
  /\ target = NoIns
  /\ call = [op |-> "health", ins |-> CHOOSE i \in Instances : TRUE]
  /\ todo = <<>> /\ at = "begin" /\ tries = 0
  /\ watch = "off" /\ log = <<>>
  /\ cancelled = FALSE /\ result = "none"
  /\ nCalls = 0 /\ nFaults = 0 /\ nChurn = 0
  /\ did = {}
-----------------------------------------------------------------------------
(***************************************************************************)
(* Steps                                                                   *)
(***************************************************************************)
Fault == nFaults < MaxFaults /\ nFaults' = nFaults + 1
NoFault == UNCHANGED nFaults

\* The call ends.
Return(r) ==
  /\ result' = r
  /\ todo' = <<>> /\ at' = "begin" /\ tries' = 0
  /\ watch' = "off" /\ log' = <<>>

\* The current step is done; after a wait nothing is watched any more.
Advance ==
  IF Len(todo) = 1 THEN Return("ok")
  ELSE /\ todo' = Tail(todo) /\ at' = "begin" /\ tries' = 0
       /\ IF Head(todo) = "waitReady" THEN watch' = "off" /\ log' = <<>>
                                      ELSE UNCHANGED <<watch, log>>
       /\ UNCHANGED result

\* The current step goes on at l.
Goto(l) == at' = l /\ UNCHANGED <<todo, tries, result>>

\* The instance whose pod is watched: WaitForPodReady of a restart takes the
\* pod of the manager client.
Watched == IF call.op \in {"restart", "flushRestart"} THEN target ELSE call.ins

\* An event of i's pod, for a watch that is not over.
Emit(i, k) ==
  IF watch = "on" /\ i = Watched THEN log' = Append(log, Event(k, pod'[i].shows))
                                 ELSE UNCHANGED log

\* What is true of the call's own instance.
Facts ==
  LET i == call.ins IN
  {f \in {"gone", "terminating", "ready", "refused", "up", "copied", "relabelled"} :
     \/ f = "gone" /\ ~pod[i].there
     \/ f = "terminating" /\ pod[i].deleting
     \/ f = pod[i].shows
     \/ f = "up" /\ engine[i] = "up"
     \/ f = "copied" /\ data[i] = "done"
     \/ f = "relabelled" /\ pod[i].there /\ pod[i].type = NewType}

\* Adds what the step did, and what has become true, to did.
Observe(new) == did' = IF Idle THEN did ELSE did \cup new \cup Facts'

\* A step of the call leaves the instance's record, its calls and the pods'
\* own changes alone.
Step == ~Idle /\ UNCHANGED <<call, cancelled, nCalls, nChurn>>
-----------------------------------------------------------------------------
(***************************************************************************)
(* The operations                                                          *)
(***************************************************************************)
Restarting == <<"stop", "get", "kill", "waitReady", "start">>
Deleting == <<"delete", "waitGone">>
WaitingForHealth == <<"set", "health">>
StoppingAndDeleting(stop) == <<"set", "isDeleted", stop>> \o Deleting
Flushing == <<"set", "set", "healthShort", "update">>

\* Nothing is left to do for an instance that is installed.
UnlessInstalled(i, steps) == IF installed[i] THEN <<>> ELSE steps

\* The steps of an operation.
Program(o, i) ==
  CASE o = "create"        -> UnlessInstalled(i, <<"create", "waitNew">>)
    [] o = "delete"        -> Deleting
    [] o = "stopDelete"    -> StoppingAndDeleting("stop")
    [] o = "stopDeleteAny" -> StoppingAndDeleting("stopAny")
    [] o = "install"       -> UnlessInstalled(i, <<"set", "install">>)
    [] o = "waitInstall"   -> <<"set", "progress">>
    [] o = "markInstalled" -> <<"mark">>
    [] o = "health"        -> WaitingForHealth
    [] o = "flush"         -> Flushing
    [] o = "flushRestart"  -> Flushing \o Restarting
    [] o = "restart"       -> <<"set">> \o Restarting \o WaitingForHealth
    [] o = "label"         -> <<"label">>
    [] OTHER               -> <<"set", o>>

\* The engine is marked installed when its data have been copied.
MayCall(o, i) ==
  o = "markInstalled" => call = [op |-> "waitInstall", ins |-> i] /\ result = "ok"

Call(i, o) ==
  /\ Idle /\ nCalls < MaxCalls /\ MayCall(o, i)
  /\ call' = [op |-> o, ins |-> i]
  /\ todo' = Program(o, i)
  /\ result' = IF todo' = <<>> THEN "ok" ELSE "none"
  /\ cancelled' = FALSE
  /\ nCalls' = nCalls + 1
  /\ UNCHANGED <<podVars, installed, target, at, tries, watch, log, nFaults, nChurn>>
  /\ did' = Facts'

\* Mutant of SetTarget: a client that has a target keeps it.
SetTargetOnce == target' = IF target = NoIns THEN call.ins ELSE target
\* The pod of the instance becomes the target of all further commands.
SetTarget == target' = call.ins

\* ManagerClient.SetIns; its error is ignored by every caller.
SetIns ==
  /\ Now("set") /\ Step
  /\ Advance
  /\ UNCHANGED <<podVars, installed>>
  /\ \/ SetTarget /\ NoFault /\ Observe({})
     \/ Fault /\ UNCHANGED target /\ Observe({"setFailed"})

\* SetDbInsInstalled.
SetDbInsInstalled ==
  /\ Now("mark") /\ Step
  /\ installed' = [installed EXCEPT ![call.ins] = TRUE]
  /\ Advance /\ NoFault
  /\ UNCHANGED <<podVars, target>>
  /\ Observe({})
-----------------------------------------------------------------------------
(***************************************************************************)
(* Requests to the API server about the pod                                *)
(***************************************************************************)
ApiStep == Step /\ UNCHANGED <<box, engine, data, target>>

\* k8sutil.CreatePod; the request or its answer may be lost.
CreatePod ==
  /\ Now("create") /\ ApiStep
  /\ LET i == call.ins IN
     \/ /\ ~pod[i].there
        /\ pod' = [pod EXCEPT ![i] = NewPod]
        /\ (NoFault /\ Advance) \/ (Fault /\ Return("error"))
     \/ pod[i].there /\ NoFault /\ Return("error") /\ UNCHANGED pod
     \/ Fault /\ Return("error") /\ UNCHANGED pod
  /\ Observe({})
  /\ UNCHANGED installed

\* PodManagerBase.IsDeleted: a pod that is being deleted counts as deleted, and
\* ends the call.
IsDeleted ==
  /\ Now("isDeleted") /\ ApiStep
  /\ LET p == pod[call.ins] IN
     \/ (~p.there \/ p.deleting) /\ NoFault /\ Return("ok")
     \/ p.there /\ ~p.deleting /\ NoFault /\ Advance
     \/ Fault /\ Return("error")
  /\ UNCHANGED <<pod, installed>>
  /\ Observe({})

\* The request of k8sutil.DeletePod; a pod that is not found is fine.
DeletePod ==
  /\ Now("delete") /\ ApiStep
  /\ LET i == call.ins IN
     \/ /\ pod[i].there /\ pod' = [pod EXCEPT ![i].deleting = TRUE]
        /\ (NoFault /\ Advance) \/ (Fault /\ Return("error"))
     \/ ~pod[i].there /\ NoFault /\ Advance /\ UNCHANGED pod
     \/ Fault /\ Return("error") /\ UNCHANGED pod
  /\ Observe({})
  /\ UNCHANGED installed

\* GetPod in RestartEngine: from here on the pod's version is known.
GetPod ==
  /\ Now("get") /\ ApiStep
  /\ \/ /\ target # NoIns /\ pod[target].there /\ NoFault
        /\ todo' = Tail(todo) /\ at' = "begin" /\ tries' = 0
        /\ watch' = "on" /\ log' = <<>> /\ UNCHANGED result
     \/ (target # NoIns => ~pod[target].there) /\ NoFault /\ Return("error")
     \/ Fault /\ Return("error")
  /\ UNCHANGED <<pod, installed>>
  /\ Observe({})

\* EnsureInsTypeMeta: the label is written with the version that was read.
EnsureInsTypeMeta ==
  /\ Now("label") /\ ApiStep
  /\ LET i == call.ins
         p == pod[i]
     IN \/ /\ at = "begin" /\ (~p.there \/ p.deleting) /\ NoFault
           /\ Return("error") /\ UNCHANGED pod
        \/ /\ at \in {"begin", "write"} /\ Fault
           /\ Return("error") /\ UNCHANGED pod
        \/ /\ at = "begin" /\ p.there /\ ~p.deleting /\ NoFault
           /\ IF p.type = NewType THEN Advance
              ELSE Goto("write") /\ watch' = "on" /\ log' = <<>>
           /\ UNCHANGED pod
        \/ /\ at = "write" /\ log = <<>>
           /\ pod' = [pod EXCEPT ![i].type = NewType]
           /\ (NoFault /\ Advance) \/ (Fault /\ Return("error"))
        \/ /\ at = "write" /\ log # <<>> /\ NoFault
           /\ Return("error") /\ UNCHANGED pod
  /\ Observe({})
  /\ UNCHANGED installed
-----------------------------------------------------------------------------
(***************************************************************************)
(* Waiting for the pod                                                     *)
(***************************************************************************)
WaitStep == ApiStep /\ UNCHANGED pod

Consume == log' = Tail(log) /\ UNCHANGED watch

\* Mutant of Cancelled: the waits do not look at the context.
NotCancelled == FALSE
Cancelled == cancelled /\ NoFault /\ Return("cancelled")

\* GetPodWatchResourceVersion and Watch.  The watch starts from now, or, when
\* the List failed, from the version of the pod that was read; it may fail.
OpenWatch ==
  \/ Goto("watch") /\ NoFault /\ watch' = "on" /\ log' = <<>>
  \/ Goto("watch") /\ Fault /\ watch' = "on" /\ UNCHANGED log
  \/ Fault /\ Return("error")

\* PodManagerBase.DeletePod forgets the installation once the pod is gone.
Gone == Advance /\ installed' = [installed EXCEPT ![call.ins] = FALSE]

\* WaitForPodDeleted.  Events other than Deleted are passed over: the channel
\* of a watch that is over delivers nothing else for ever.
WaitForPodDeleted ==
  /\ Now("waitGone") /\ WaitStep
  /\ LET p == pod[call.ins] IN
     \/ at = "begin" /\ ~p.there /\ NoFault /\ Gone
     \/ at = "begin" /\ p.there /\ NoFault /\ Goto("list") /\ watch' = "on" /\ log' = <<>>
          /\ UNCHANGED installed
     \/ at = "begin" /\ Fault /\ Return("error") /\ UNCHANGED installed
     \/ at = "list" /\ OpenWatch /\ UNCHANGED installed
     \/ /\ at = "watch" /\ log # <<>> /\ NoFault
        /\ \/ Head(log).kind = "DELETED" /\ Gone
           \/ /\ Head(log).kind \in {"ADDED", "MODIFIED"}
              /\ Consume /\ UNCHANGED <<installed, todo, at, tries, result>>
           \/ /\ Head(log).kind = "ERROR"
              /\ watch' = "closed" /\ log' = <<>>
              /\ UNCHANGED <<installed, todo, at, tries, result>>
     \/ at = "watch" /\ Cancelled /\ UNCHANGED installed
  /\ Observe({})

Spinning == Now("waitGone") /\ at = "watch" /\ watch = "closed" /\ log = <<>>

\* WaitForPodReady with RetryFunc around it.  A new pod is watched from the
\* start, which delivers it as it is; an ERROR is tried again, an event that
\* shows the pod ready or refused ends the wait, after which the pod is read.
WaitForPodReady ==
  /\ (Now("waitReady") \/ Now("waitNew")) /\ WaitStep
  /\ LET p == pod[Watched] IN
     \/ at = "begin" /\ Cancelled
     \/ at = "begin" /\ Now("waitReady") /\ OpenWatch
     \/ /\ at = "begin" /\ Now("waitNew") /\ NoFault
        /\ Goto("watch") /\ watch' = "on"
        /\ log' = IF p.there THEN <<Event("ADDED", p.shows)>> ELSE <<>>
     \/ at = "begin" /\ Now("waitNew") /\ Fault /\ Return("error")
     \/ at = "watch" /\ Cancelled
     \/ /\ at = "watch" /\ log # <<>> /\ NoFault
        /\ LET e == Head(log) IN
           \/ /\ e.kind = "ERROR" /\ tries + 1 < MaxTries
              /\ tries' = tries + 1 /\ at' = "begin" /\ Consume
              /\ UNCHANGED <<todo, result>>
           \/ e.kind = "ERROR" /\ tries + 1 = MaxTries /\ Return("error")
           \/ /\ e.kind \in {"ADDED", "MODIFIED"}
              /\ IF e.shows \in {"ready", "refused"}
                 THEN Goto("settle") /\ watch' = "off" /\ log' = <<>>
                 ELSE Consume /\ UNCHANGED <<todo, at, tries, result>>
           \/ e.kind = "DELETED" /\ Return("error")
     \/ at = "watch" /\ log = <<>> /\ watch = "closed" /\ NoFault /\ Return("error")
     \/ /\ at = "settle" /\ NoFault
        /\ CASE ~p.there               -> Return("podLost")
             [] p.shows = "refused"    -> Return("unscheduled")
             [] p.shows = "starting"   -> Return("startFailed")
             [] OTHER                  -> Advance
     \/ at = "settle" /\ Fault /\ Return("error")
  /\ Observe({})
  /\ UNCHANGED installed
-----------------------------------------------------------------------------
(***************************************************************************)
(* Commands in the pod of the target                                       *)
(***************************************************************************)
Polled == {"health", "healthShort", "progress"}
Plain == {"install", "update", "stop", "stopAny", "kill", "start", "grow"}
Unwaited == {"health", "healthShort", "kill"}   \* not repeated when the container is not ready
CommandOf(s) == CASE s = "stopAny"     -> "stop"
                  [] s = "healthShort" -> "health"
                  [] OTHER             -> s

\* What a command does in the pod of i.
Carried(c, i) ==
  CASE c = "start" -> /\ engine' = [engine EXCEPT ![i] = IF @ = "down" THEN "starting" ELSE @]
                      /\ UNCHANGED <<box, data>>
    [] c = "stop"  -> engine' = [engine EXCEPT ![i] = "down"] /\ UNCHANGED <<box, data>>
    [] c = "kill"  -> box' = [box EXCEPT ![i] = "dying"] /\ UNCHANGED <<engine, data>>
    [] c = "install" -> /\ data' = [data EXCEPT ![i] = IF @ = "done" THEN @ ELSE "running"]
                        /\ UNCHANGED <<box, engine>>
    [] OTHER       -> UNCHANGED <<box, engine, data>>

\* ExecInPod reaches a container, also one that is about to end.
Reachable == target # NoIns /\ box[target] \in {"up", "dying"}
NotReady == target # NoIns /\ box[target] \in {"none", "dying"}

\* Whether the command itself ends well.
Succeeds(c) == CASE c = "health"   -> engine[target] # "down"
                 [] c = "progress" -> data[target] \in {"running", "done"}
                 [] OTHER          -> TRUE

\* The answer says that the work is still going on.
StillRunning(c) == \/ c = "health" /\ engine[target] = "starting"
                   \/ c = "progress" /\ data[target] = "running"

\* Mutant of Failed: no error of a stop counts.
FailedIgnored(r) ==
  IF CommandOf(Head(todo)) = "stop" THEN Advance ELSE Return(r)

\* A step fails for good.  FlushParams then starts the engine and waits once
\* more; StopEngineAndDeletePod may have been told to ignore it.
Failed(r) ==
  CASE Now("healthShort") -> /\ todo' = <<"start">> \o WaitingForHealth \o Tail(todo)
                             /\ at' = "begin" /\ tries' = 0
                             /\ UNCHANGED <<watch, log, result>>
    [] Now("stopAny")     -> Advance
    [] OTHER              -> Return(r)

\* A poll or a command that failed.
Bad == IF Head(todo) \in Polled
       THEN tries' = tries + 1 /\ at' = "begin" /\ UNCHANGED <<todo, watch, log, result>>
       ELSE Failed("error")

\* While the work goes on the time of the poll begins anew.
Good(c) == IF StillRunning(c)
           THEN tries' = 0 /\ at' = "begin" /\ UNCHANGED <<todo, watch, log, result>>
           ELSE Advance

CommandStep == Step /\ UNCHANGED <<pod, installed, target>>
Untouched == UNCHANGED <<box, engine, data>>

\* Mutant of MayPoll: polls for ever.
MayPollOn == TRUE
MayPoll == tries < MaxPolls

\* checkHealthWithTimeout and checkInstallProgressWithTimeout: the next poll,
\* unless the time is over, which it is not at the first.
Poll ==
  /\ ~Idle /\ Head(todo) \in Polled /\ at = "begin" /\ CommandStep /\ Untouched /\ NoFault
  /\ \/ MayPoll /\ Goto("exec") /\ UNCHANGED <<watch, log>>
     \/ tries > 0 /\ Failed("timeout")
     \/ cancelled /\ Failed("cancelled")
  /\ Observe({})

\* ExecCmdInPodBase: "begin" or "exec" is the first attempt; when the container
\* was not ready and the command is one that waits, it is executed again while
\* the pod is Ready, up to the last time.
Attempting == at \in {"exec", "again", "last"} \/ (at = "begin" /\ Head(todo) \in Plain)
MayAttempt == at \in {"again", "last"} => target # NoIns /\ pod[target].shows = "ready"

Later == /\ at' = IF at \in {"begin", "exec"} THEN "again" ELSE "last"
         /\ UNCHANGED <<todo, tries, watch, log, result>>

ExecCmdInPod ==
  /\ ~Idle /\ Head(todo) \in Polled \cup Plain /\ Attempting /\ CommandStep
  /\ LET c == CommandOf(Head(todo)) IN
     \/ /\ MayAttempt /\ Reachable /\ Succeeds(c)
        /\ Carried(c, target)
        /\ (NoFault /\ Good(c)) \/ (Fault /\ Bad)
        /\ Observe(IF target = call.ins THEN {c} ELSE {"astray"})
     \/ /\ MayAttempt /\ Untouched /\ Observe({})
        /\ \/ Reachable /\ ~Succeeds(c) /\ NoFault /\ Bad
           \/ Reachable /\ Succeeds(c) /\ Fault /\ Bad
           \/ target = NoIns /\ NoFault /\ Bad
           \/ /\ NotReady /\ NoFault
              /\ IF Head(todo) \in Unwaited \/ at = "last" THEN Bad ELSE Later
     \/ ~MayAttempt /\ Untouched /\ NoFault /\ Bad /\ Observe({})
     \/ /\ at \in {"again", "last"} /\ cancelled
        /\ Untouched /\ NoFault /\ Bad /\ Observe({})
-----------------------------------------------------------------------------
(***************************************************************************)
(* The cluster: scheduler, kubelet, engine, watch                          *)
(***************************************************************************)
EnvStep == UNCHANGED <<installed, target, call, todo, at, tries, result, cancelled, nCalls, nFaults>>

Report(i, s) ==
  /\ pod' = [pod EXCEPT ![i].shows = s]
  /\ Emit(i, "MODIFIED")
  /\ UNCHANGED <<box, engine, data, watch, nChurn>>

Bind(i) == pod[i].there /\ pod[i].shows \in {"new", "refused"} /\ ~pod[i].deleting /\ Report(i, "bound")

Refuse(i) == pod[i].there /\ pod[i].shows = "new" /\ Report(i, "refused")

\* The kubelet reports what it sees of the containers, later than it happens.
Refresh(i) ==
  LET s == IF box[i] = "none" THEN "starting" ELSE "ready" IN
  /\ pod[i].there /\ pod[i].shows \in {"bound", "starting", "ready"} \ {s}
  /\ Report(i, s)

BoxUp(i) ==
  /\ pod[i].there /\ pod[i].shows \in {"bound", "starting", "ready"}
  /\ ~pod[i].deleting /\ box[i] = "none"
  /\ box' = [box EXCEPT ![i] = "up"]
  /\ UNCHANGED <<pod, engine, data, watch, log, nChurn>>

BoxEnds(i) ==
  /\ box[i] = "dying" \/ (box[i] = "up" /\ pod[i].deleting)
  /\ box' = [box EXCEPT ![i] = "none"]
  /\ engine' = [engine EXCEPT ![i] = "down"]
  /\ data' = [data EXCEPT ![i] = IF @ = "running" THEN "failed" ELSE @]
  /\ UNCHANGED <<pod, watch, log, nChurn>>

\* A pod that is being deleted goes once its containers have ended.
Remove(i) ==
  /\ pod[i].deleting /\ box[i] = "none"
  /\ pod' = [pod EXCEPT ![i] = NoPod]
  /\ Emit(i, "DELETED")
  /\ UNCHANGED <<box, engine, data, watch, nChurn>>

EngineUp(i) ==
  /\ engine[i] = "starting" /\ engine' = [engine EXCEPT ![i] = "up"]
  /\ UNCHANGED <<pod, box, data, watch, log, nChurn>>

Copied(i) ==
  /\ data[i] = "running" /\ \E d \in {"done", "failed"} : data' = [data EXCEPT ![i] = d]
  /\ UNCHANGED <<pod, box, engine, watch, log, nChurn>>

\* Changes that nothing above explains: a container dies, somebody deletes the
\* pod or touches its metadata.
Churn(i) ==
  /\ nChurn < MaxChurn /\ nChurn' = nChurn + 1
  /\ pod[i].there /\ UNCHANGED <<engine, data, watch>>
  /\ \/ box[i] = "up" /\ box' = [box EXCEPT ![i] = "dying"] /\ UNCHANGED <<pod, log>>
     \/ ~pod[i].deleting /\ pod' = [pod EXCEPT ![i].deleting = TRUE]
          /\ Emit(i, "MODIFIED") /\ UNCHANGED box
     \/ UNCHANGED pod /\ Emit(i, "MODIFIED") /\ UNCHANGED box

\* The watch reaches its timeout.
CloseWatch ==
  /\ watch = "on" /\ at = "watch" /\ watch' = "closed"
  /\ UNCHANGED <<podVars, log, nChurn>> /\ EnvStep /\ Observe({})

\* The API server ends the watch with an ERROR event.
BreakWatch ==
  /\ watch = "on" /\ at = "watch" /\ Fault
  /\ log' = Append(log, Event("ERROR", "new"))
  /\ UNCHANGED <<podVars, installed, target, call, todo, at, tries, watch, result,
                 cancelled, nCalls, nChurn>>
  /\ Observe({})

Environment(i) ==
  /\ \/ Bind(i) \/ Refuse(i) \/ Refresh(i) \/ BoxUp(i) \/ BoxEnds(i)
     \/ Remove(i) \/ EngineUp(i) \/ Copied(i) \/ Churn(i)
  /\ EnvStep /\ Observe({})

\* The workflow cancels the context of the call.  The call looks at it only
\* where it waits: a cancellation that comes earlier is the same as one then.
Waiting == \/ at \in {"watch", "again", "last"}
           \/ at = "begin" /\ Head(todo) \in Polled \cup {"waitNew", "waitReady"}

Cancel ==
  /\ ~Idle /\ Waiting /\ ~cancelled /\ cancelled' = TRUE
  /\ UNCHANGED <<podVars, installed, target, call, stepVars, nCalls, nFaults, nChurn, did>>

\* The operator is restarted: the call and the manager client are gone.
Crash ==
  /\ ~Idle /\ Fault /\ Return("crashed") /\ target' = NoIns
  /\ UNCHANGED <<podVars, installed, call, cancelled, nCalls, nChurn, did>>
-----------------------------------------------------------------------------
Proceed == \/ SetIns \/ SetDbInsInstalled \/ CreatePod \/ IsDeleted \/ DeletePod \/ GetPod
           \/ EnsureInsTypeMeta \/ WaitForPodDeleted \/ WaitForPodReady
           \/ Poll \/ ExecCmdInPod

Next == \/ \E i \in Instances : \E o \in Ops[i] : Call(i, o)
        \/ Proceed
        \/ \E i \in Instances : Environment(i)
        \/ CloseWatch \/ BreakWatch \/ Cancel \/ Crash

Spec == Init /\ [][Next]_vars

\* The call is scheduled, a watch ends after its timeout, and an engine that
\* recovers or copies its data finishes.  Nothing is assumed of the scheduler
\* and the kubelet.
Fairness ==
  /\ WF_vars(Proceed) /\ WF_vars(CloseWatch)
  /\ \A i \in Instances : /\ WF_vars(EngineUp(i) /\ EnvStep /\ Observe({}))
                           /\ WF_vars(Copied(i) /\ EnvStep /\ Observe({}))

FairSpec == Spec /\ Fairness
-----------------------------------------------------------------------------
(***************************************************************************)
(* Properties                                                              *)
(***************************************************************************)
\* Types: polls and watches that are bounded, a target that is an instance or none.
TypeOK ==
  /\ pod \in [Instances -> Pods]
  /\ box \in [Instances -> {"none", "up", "dying"}]
  /\ engine \in [Instances -> {"down", "starting", "up"}]
  /\ data \in [Instances -> {"none", "running", "done", "failed"}]
  /\ installed \in [Instances -> BOOLEAN]
  /\ target \in Instances \cup {NoIns}
  /\ call \in [op : AllOps, ins : Instances]
  /\ at \in {"begin", "write", "list", "watch", "settle", "exec", "again", "last"}
  /\ tries \in 0..MaxTries \cup 0..MaxPolls
  /\ watch \in {"off", "on", "closed"}
  /\ log \in Seq(Events)
  /\ cancelled \in BOOLEAN
  /\ nCalls \in 0..MaxCalls /\ nFaults \in 0..MaxFaults /\ nChurn \in 0..MaxChurn

\* What a call that returned nil promises of its own instance.
Kept ==
  CASE call.op = "create"        -> installed[call.ins] \/ "ready" \in did \/ "refused" \in did
    [] call.op = "delete"        -> "gone" \in did /\ ~installed[call.ins]
    [] call.op \in {"stopDelete", "stopDeleteAny"} -> "gone" \in did \/ "terminating" \in did
    [] call.op = "install"       -> installed[call.ins] \/ "install" \in did
    [] call.op = "waitInstall"   -> "copied" \in did
    [] call.op = "health"        -> "up" \in did
    [] call.op = "flush"         -> {"health", "update"} \subseteq did
    [] call.op = "flushRestart"  -> {"health", "update", "stop", "kill", "start"} \subseteq did
    [] call.op = "restart"       -> {"stop", "kill", "start", "up"} \subseteq did
    [] call.op = "label"         -> "relabelled" \in did
    [] call.op = "markInstalled" -> installed[call.ins]
    [] OTHER                     -> call.op \in did

\* An operation that returned nil did all it is for, to the instance it was
\* called on: with answers lost, containers and pods that come and go, watches
\* that end and calls that found the engine half stopped by an earlier one
\* (DbIns, PodManagerBase, ManagerClient).  A manager client that could not be
\* set to the instance is excepted.
OkMeansDone == Idle /\ result = "ok" /\ "setFailed" \notin did => Kept

\* A command reaches the pod of another instance only after a SetIns whose
\* error was ignored; never because an operation relies on an earlier one's.
CommandsGoToOwnPod == "astray" \in did => "setFailed" \in did

\* StopEngineAndDeletePod asks for the deletion of the pod when its engine is
\* stopped, unless it was told to ignore that it could not be.
StoppedBeforeDelete ==
  [][Now("delete") /\ call.op = "stopDelete" /\ todo' # todo /\ pod' # pod
       /\ "setFailed" \notin did
     => engine[call.ins] = "down"]_vars

\* Every call returns, and a cancelled one does too; but a wait for the pod's
\* deletion whose watch is over waits for that cancellation only.
CallsEnd == ~Idle ~> (Idle \/ (Spinning /\ ~cancelled))
=============================================================================
