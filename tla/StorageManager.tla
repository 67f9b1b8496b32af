--------------------------- MODULE StorageManager ---------------------------
(***************************************************************************)
(* business/adapter/storage_manager.go: how the clusters attach, lock,     *)
(* expand and release one persistent volume claim through the HTTP storage *)
(* service.  An operation posts a request, which the service answers with  *)
(* the id of a workflow, and then polls until the workflow has done its    *)
(* work.  doActionCommon repeats a request that failed, so the service may *)
(* carry out several requests of one call; Release asks who uses the claim *)
(* before, in a request of its own.                                        *)
(*                                                                         *)
(* The storage service is outside of the repository.  It is modelled from  *)
(* what the client relies on: a claim is used by one cluster at a time, a  *)
(* request for a claim that does not exist is refused with "can not find", *)
(* and a workflow ends some time after its request.                        *)
(***************************************************************************)
EXTENDS Integers, Sequences

CONSTANTS Clusters,
          Nodes,        \* hosts that may hold the write lock
          Sizes,        \* sizes Expand may ask for
          None,         \* no cluster, no node
          MaxCalls,     \* bound: operations called in a behaviour
          MaxFaults,    \* bound: requests and answers lost, workflows that fail
          MaxPolls      \* polls before the 60 seconds of a call are over

ASSUME ConstantsAssumption ==
  /\ None \notin Clusters \cup Nodes
  /\ Sizes \subseteq Nat
  /\ MaxCalls \in Nat /\ MaxFaults \in Nat /\ MaxPolls \in Nat

VARIABLES
  pvc,      \* the claim, as the service has it
  flows,    \* workflows the service has started, in order: their ids
  pc,       \* where the call of a cluster is
  op,       \* op[k]: the operation cluster k has called
  tries,    \* attempts made for the current POST
  flow,     \* workflow id the call polls; NoFlow: none yet, EmptyId: ""
  polls,    \* polls made
  result,   \* what the last call returned
  \* observation only
  nCalls, nFaults,
  met       \* met[k]: what k's call is for has held at some time since it began

callVars == <<pc, op, tries, flow, polls, result>>
vars == <<pvc, flows, callVars, nCalls, nFaults, met>>

Ops == [kind : {"use", "release"}, arg : {None}] \cup [kind : {"lock"}, arg : Nodes]
         \cup [kind : {"expand"}, arg : Sizes]
NoOp == [kind |-> "none", arg |-> None]
NoFlow == 0
EmptyId == -1
MaxTries == 4    \* retryutil.Retry calls the request maxRetries + 1 times

Claims == [there : BOOLEAN, usedBy : Clusters \cup {None}, writer : Nodes \cup {None}, size : Nat]
Flows == [op : Ops, by : Clusters, state : {"running", "done", "failed"}]

Init ==
  /\ pvc = [there |-> TRUE, usedBy |-> None, writer |-> None, size |-> 0]
  /\ flows = <<>>
  /\ pc = [k \in Clusters |-> "idle"]
  /\ op = [k \in Clusters |-> NoOp]
  /\ tries = [k \in Clusters |-> 0]
  /\ flow = [k \in Clusters |-> NoFlow]
  /\ polls = [k \in Clusters |-> 0]
  /\ result = [k \in Clusters |-> "none"]
  /\ nCalls = 0 /\ nFaults = 0
  /\ met = [k \in Clusters |-> FALSE]

Fault == /\ nFaults < MaxFaults
         /\ nFaults' = nFaults + 1

Goto(k, l) == pc' = [pc EXCEPT ![k] = l]

Return(k, r) ==
  /\ Goto(k, "idle")
  /\ result' = [result EXCEPT ![k] = r]
  /\ UNCHANGED <<op, tries, flow, polls>>

\* What a call is for.
Goal(o, k, p) ==
  CASE o.kind = "use"     -> p.usedBy = k
    [] o.kind = "release" -> p.usedBy # k
    [] o.kind = "lock"    -> p.writer = o.arg
    [] o.kind = "expand"  -> p.size >= o.arg
    [] OTHER              -> FALSE

\* Whether the goal of k's call has held since the call began.
Observe ==
  met' = [k \in Clusters |->
            CASE pc[k] = "idle" /\ pc'[k] = "idle" -> met[k]
              [] pc[k] = "idle" /\ pc'[k] # "idle" -> Goal(op'[k], k, pvc')
              [] OTHER                             -> met[k] \/ Goal(op[k], k, pvc')]
-----------------------------------------------------------------------------
(***************************************************************************)
(* The storage service                                                     *)
(***************************************************************************)
\* What a workflow does to the claim.
Carried(f) ==
  CASE f.op.kind = "use"     -> [pvc EXCEPT !.usedBy = f.by]
    [] f.op.kind = "release" -> [pvc EXCEPT !.usedBy = None, !.writer = None]
    [] f.op.kind = "lock"    -> [pvc EXCEPT !.writer = f.op.arg]
    [] f.op.kind = "expand"  -> [pvc EXCEPT !.size = IF f.op.arg > @ THEN f.op.arg ELSE @]

\* A claim in use is not given to a second cluster.
MayRun(f) == f.op.kind = "use" => pvc.usedBy \in {None, f.by}

EndFlow(i) ==
  /\ flows[i].state = "running"
  /\ \/ /\ pvc.there /\ MayRun(flows[i])
        /\ pvc' = Carried(flows[i])
        /\ flows' = [flows EXCEPT ![i].state = "done"]
        /\ UNCHANGED nFaults
     \/ /\ ~(pvc.there /\ MayRun(flows[i]))
        /\ flows' = [flows EXCEPT ![i].state = "failed"]
        /\ UNCHANGED <<pvc, nFaults>>
     \/ /\ Fault
        /\ flows' = [flows EXCEPT ![i].state = "failed"]
        /\ UNCHANGED pvc
  /\ UNCHANGED <<callVars, nCalls>>
  /\ Observe

\* The claim is deleted in Kubernetes.
DeleteClaim ==
  /\ pvc.there
  /\ Fault
  /\ pvc' = [there |-> FALSE, usedBy |-> None, writer |-> None, size |-> 0]
  /\ UNCHANGED <<flows, callVars, nCalls>>
  /\ Observe
-----------------------------------------------------------------------------
(***************************************************************************)
(* The client                                                              *)
(***************************************************************************)
Call(k, o) ==
  /\ pc[k] = "idle"
  /\ nCalls < MaxCalls
  /\ nCalls' = nCalls + 1
  /\ op' = [op EXCEPT ![k] = o]
  /\ tries' = [tries EXCEPT ![k] = 0]
  /\ flow' = [flow EXCEPT ![k] = NoFlow]
  /\ polls' = [polls EXCEPT ![k] = 0]
  /\ result' = [result EXCEPT ![k] = "none"]
  /\ Goto(k, IF o.kind = "release" THEN "check" ELSE "post")
  /\ UNCHANGED <<pvc, flows, nFaults>>
  /\ Observe

\* requestPvcUsedBy, on behalf of Release.  A claim that is gone, or used by
\* another cluster, or by none, is released already; ReleaseStorage ignores the
\* error "used by other cluster".
CheckOwn(k) ==
  /\ pc[k] = "check"
  /\ pvc.there /\ pvc.usedBy = k
  /\ Goto(k, "post")
  /\ UNCHANGED <<pvc, flows, op, tries, flow, polls, result, nCalls, nFaults>>
  /\ Observe

CheckNotOwn(k) ==
  /\ pc[k] = "check"
  /\ ~(pvc.there /\ pvc.usedBy = k)
  /\ Return(k, "ok")
  /\ UNCHANGED <<pvc, flows, nCalls, nFaults>>
  /\ Observe

\* initialize fails, every attempt of a GET does, or the context is done.
Unreachable(k) ==
  /\ pc[k] \in {"check", "post", "poll"}
  /\ Fault
  /\ Return(k, "error")
  /\ UNCHANGED <<pvc, flows, nCalls>>
  /\ Observe

\* The service accepts the POST; the request says nothing of the cluster k
\* unless the operation is "use".
Started(k) == flows' = Append(flows, [op |-> op[k], by |-> k, state |-> "running"])

Posted(k) ==
  /\ pc[k] = "post" /\ pvc.there
  /\ Started(k)
  /\ flow' = [flow EXCEPT ![k] = Len(flows) + 1]
  /\ Goto(k, "poll")
  /\ UNCHANGED <<pvc, op, tries, polls, result, nCalls, nFaults>>
  /\ Observe

\* The answer has no workflow_id: errors.Wrapf of a nil error is nil, so the
\* call goes on with an empty id.
PostedWithoutId(k) ==
  /\ pc[k] = "post" /\ pvc.there
  /\ Fault
  /\ Started(k)
  /\ flow' = [flow EXCEPT ![k] = EmptyId]
  /\ Goto(k, "poll")
  /\ UNCHANGED <<pvc, op, tries, polls, result, nCalls>>
  /\ Observe

\* The attempt fails; the next one follows two seconds later, if any is left.
Again(k) ==
  IF tries[k] + 1 < MaxTries
  THEN /\ tries' = [tries EXCEPT ![k] = @ + 1]
       /\ UNCHANGED <<pc, op, flow, polls, result>>
  ELSE Return(k, "error")

\* The request is lost, or its answer is.
PostLost(k) ==
  /\ pc[k] = "post"
  /\ Fault
  /\ \/ UNCHANGED flows
     \/ pvc.there /\ Started(k)
  /\ Again(k)
  /\ UNCHANGED <<pvc, nCalls>>
  /\ Observe

\* "can not find", four times over: nothing is left to release.
PostRefused(k) ==
  /\ pc[k] = "post" /\ ~pvc.there
  /\ Return(k, IF op[k].kind = "release" THEN "ok" ELSE "error")
  /\ UNCHANGED <<pvc, flows, nCalls, nFaults>>
  /\ Observe

\* Mutant of Ready: the call takes the end of any workflow for its own.
ReadyAny(k) ==
  IF op[k].kind = "lock" THEN pvc.writer = op[k].arg
  ELSE \E i \in DOMAIN flows : flows[i].state = "done"

\* A poll finds that the work is done: Lock reads the topology, the others ask
\* for their workflow ...
Ready(k) ==
  IF op[k].kind = "lock" THEN pvc.writer = op[k].arg
  ELSE flow[k] # EmptyId /\ flows[flow[k]].state = "done"

\* ... and for an empty id any answer is possible.
AnyAnswer(k) == op[k].kind # "lock" /\ flow[k] = EmptyId

PollReady(k) ==
  /\ pc[k] = "poll" /\ pvc.there
  /\ Ready(k) \/ AnyAnswer(k)
  /\ Return(k, "ok")
  /\ UNCHANGED <<pvc, flows, nCalls, nFaults>>
  /\ Observe

\* Mutants of PollNotReady: one poll more than there is time for; a poll that
\* never times out.
PollOnceMore(k) ==
  /\ pc[k] = "poll" /\ pvc.there
  /\ ~Ready(k)
  /\ IF polls[k] <= MaxPolls
     THEN /\ polls' = [polls EXCEPT ![k] = @ + 1]
          /\ UNCHANGED <<pc, op, tries, flow, result>>
     ELSE Return(k, "timeout")
  /\ UNCHANGED <<pvc, flows, nCalls, nFaults>>
  /\ Observe


PollNotReady(k) ==
  /\ pc[k] = "poll" /\ pvc.there
  /\ ~Ready(k)
  /\ IF polls[k] < MaxPolls
     THEN /\ polls' = [polls EXCEPT ![k] = @ + 1]
          /\ UNCHANGED <<pc, op, tries, flow, result>>
     ELSE Return(k, "timeout")
  /\ UNCHANGED <<pvc, flows, nCalls, nFaults>>
  /\ Observe

\* The service answers a poll with an error, which ends the call: the claim is
\* gone, or it reports a status of the expansion that is neither 0 nor 1.
PollRefused(k) ==
  /\ pc[k] = "poll"
  /\ \/ ~pvc.there
     \/ op[k].kind = "expand" /\ flow[k] # EmptyId /\ flows[flow[k]].state = "failed"
  /\ Return(k, "error")
  /\ UNCHANGED <<pvc, flows, nCalls, nFaults>>
  /\ Observe

Step(k) == \/ CheckOwn(k) \/ CheckNotOwn(k) \/ Unreachable(k)
           \/ Posted(k) \/ PostedWithoutId(k) \/ PostLost(k) \/ PostRefused(k)
           \/ PollReady(k) \/ PollNotReady(k) \/ PollRefused(k)

Next == \/ \E k \in Clusters : Step(k) \/ \E o \in Ops : Call(k, o)
        \/ \E i \in DOMAIN flows : EndFlow(i)
        \/ DeleteClaim

Spec == Init /\ [][Next]_vars

\* Requests are answered or fail, and a poll is followed by another until the
\* 60 seconds are over; the service owes no progress.
Fairness == \A k \in Clusters : WF_vars(Step(k))

FairSpec == Spec /\ Fairness
-----------------------------------------------------------------------------
\* Types: bounded attempts and polls, workflows of the three kinds only.
TypeOK ==
  /\ pvc \in Claims
  /\ flows \in Seq(Flows)
  /\ pc \in [Clusters -> {"idle", "check", "post", "poll"}]
  /\ op \in [Clusters -> Ops \cup {NoOp}]
  /\ tries \in [Clusters -> 0 .. MaxTries - 1]
  /\ flow \in [Clusters -> EmptyId .. Len(flows)]
  /\ polls \in [Clusters -> 0 .. MaxPolls]
  /\ result \in [Clusters -> {"none", "ok", "error", "timeout"}]
  /\ nCalls \in Nat /\ nFaults \in Nat
  /\ met \in [Clusters -> BOOLEAN]

\* A call that returns nil has reached its end: at some time since it began
\* the claim was attached to the caller, not attached to it, locked for the
\* node or large enough, whatever requests were repeated or lost.  Calls
\* that poll with an empty workflow id are excepted, but for the lock.
OkMeansDone ==
  \A k \in Clusters :
    result[k] = "ok" /\ (flow[k] = EmptyId => op[k].kind = "lock") => met[k]

\* Every call ends, although the service may never finish a workflow.
CallsEnd == \A k \in Clusters : pc[k] # "idle" ~> pc[k] = "idle"

\* The parameter clusterName of Release is there "to prevent releasing storage
\* used by another cluster by mistake" (storage_manager.go:168): no release
\* that a cluster asked for detaches the claim from another one.  The request
\* itself does not name the cluster, and the answer to requestPvcUsedBy is old
\* when the request, or a repetition of it, is carried out.
ReleasesOnlyOwn ==
  [][\A i \in DOMAIN flows :
       /\ flows[i].op.kind = "release"
       /\ flows[i].state = "running" /\ flows'[i].state = "done"
       => pvc.usedBy \in {flows[i].by, None}]_vars
=============================================================================
