------------------------ MODULE StorageManagerProofs ------------------------
(***************************************************************************)
(* Proofs about StorageManager for any number of clusters, nodes, sizes,   *)
(* calls, faults and polls.                                                *)
(***************************************************************************)
EXTENDS StorageManager, TLAPS

USE ConstantsAssumption DEF ConstantsAssumption

(***************************************************************************)
(* The inductive invariant.  The workflow a call polls was started by that *)
(* call, and a workflow that is done has reached the call's goal while the *)
(* call was waiting for it.                                                *)
(***************************************************************************)
GoneIsUnused == ~pvc.there => pvc.usedBy = None

\* A call that polls a workflow polls its own, and has observed its end.
OwnFlow ==
  \A k \in Clusters : pc[k] = "poll" =>
    /\ op[k] # NoOp
    /\ flow[k] # NoFlow
    /\ flow[k] # EmptyId =>
         /\ flows[flow[k]].op = op[k] /\ flows[flow[k]].by = k
         /\ flows[flow[k]].state = "done" => met[k]

\* A call before its request is about an operation; only a release checks.
Asked ==
  \A k \in Clusters :
    /\ pc[k] \in {"check", "post"} => op[k] \in Ops /\ flow[k] = NoFlow
    /\ pc[k] = "check" => op[k].kind = "release"
    /\ pc[k] # "idle" => result[k] = "none"

IndInv == TypeOK /\ GoneIsUnused /\ OwnFlow /\ Asked /\ OkMeansDone

\* An operation, with the argument it takes.
LEMMA OpKinds ==
  ASSUME NEW o \in Ops
  PROVE  \/ o.kind \in {"use", "release"} /\ o.arg = None
         \/ o.kind = "lock" /\ o.arg \in Nodes
         \/ o.kind = "expand" /\ o.arg \in Nat
  BY DEF Ops

LEMMA FlowType ==
  ASSUME TypeOK, NEW i \in DOMAIN flows
  PROVE  flows[i] \in Flows
  BY DEF TypeOK

\* A workflow that is started gets the next id, and is the caller's own.
LEMMA StartedFlow ==
  ASSUME TypeOK, NEW k \in Clusters, op[k] \in Ops, Started(k)
  PROVE  /\ flows' \in Seq(Flows)
         /\ Len(flows') = Len(flows) + 1 /\ Len(flows) \in Nat
         /\ \A i \in DOMAIN flows : flows'[i] = flows[i]
         /\ flows'[Len(flows) + 1] = [op |-> op[k], by |-> k, state |-> "running"]
  <1>1. [op |-> op[k], by |-> k, state |-> "running"] \in Flows
    BY DEF Flows
  <1>2. QED
    BY <1>1 DEF TypeOK, Started

\* Only the state of a workflow changes, and only once.
LEMMA EndedFlow ==
  ASSUME TypeOK, NEW i \in DOMAIN flows, EndFlow(i)
  PROVE  /\ flows' \in Seq(Flows) /\ Len(flows') = Len(flows)
         /\ \A j \in DOMAIN flows \ {i} : flows'[j] = flows[j]
         /\ flows'[i].op = flows[i].op /\ flows'[i].by = flows[i].by
         /\ flows'[i].state = "done" => pvc' = Carried(flows[i])
  <1>1. PICK s \in {"done", "failed"} :
          /\ flows' = [flows EXCEPT ![i] = [flows[i] EXCEPT !.state = s]]
          /\ s = "done" => pvc' = Carried(flows[i])
    BY DEF EndFlow
  <1>2. [flows[i] EXCEPT !.state = s] \in Flows
    BY FlowType DEF Flows
  <1>3. flows[i] \in Flows
    BY FlowType
  <1>4. /\ [flows[i] EXCEPT !.state = s].op = flows[i].op
        /\ [flows[i] EXCEPT !.state = s].by = flows[i].by
        /\ [flows[i] EXCEPT !.state = s].state = s
    BY <1>3 DEF Flows
  <1> DEFINE f == [flows[i] EXCEPT !.state = s]
  <1>5. /\ f \in Flows /\ f.op = flows[i].op /\ f.by = flows[i].by /\ f.state = s
        /\ flows' = [flows EXCEPT ![i] = f]
    BY <1>1, <1>2, <1>4
  <1> HIDE DEF f
  <1>6. flows \in Seq(Flows)
    BY DEF TypeOK
  <1>7. s = "done" => pvc' = Carried(flows[i])
    BY <1>1
  <1>8. QED
    BY <1>5, <1>6, <1>7

\* What a workflow leaves of the claim.
LEMMA CarriedType ==
  ASSUME TypeOK, NEW i \in DOMAIN flows
  PROVE  Carried(flows[i]) \in Claims /\ Carried(flows[i]).there = pvc.there
  <1>1. flows[i].op \in Ops /\ flows[i].by \in Clusters /\ pvc \in Claims
    BY FlowType DEF TypeOK, Flows
  <1>2. CASE flows[i].op.kind = "use"
    BY <1>1, <1>2 DEF Carried, Claims
  <1>3. CASE flows[i].op.kind = "release"
    BY <1>1, <1>3 DEF Carried, Claims
  <1>4. CASE flows[i].op.kind = "lock"
    BY <1>1, <1>4, OpKinds DEF Carried, Claims
  <1>5. CASE flows[i].op.kind = "expand"
    BY <1>1, <1>5, OpKinds DEF Carried, Claims
  <1>6. QED
    BY <1>1, <1>2, <1>3, <1>4, <1>5, OpKinds

LEMMA GoalType ==
  ASSUME NEW o \in Ops \cup {NoOp}, NEW k, NEW p \in Claims
  PROVE  Goal(o, k, p) \in BOOLEAN
  <1>1. CASE o.kind = "expand"
    BY <1>1, OpKinds DEF Goal, NoOp, Claims
  <1>2. CASE o.kind # "expand"
    BY <1>2, Zenon DEF Goal
  <1>3. QED
    BY <1>1, <1>2

\* A workflow that is carried out reaches the goal of the operation it is for.
LEMMA CarriedReachesGoal ==
  ASSUME TypeOK, NEW i \in DOMAIN flows
  PROVE  Goal(flows[i].op, flows[i].by, Carried(flows[i]))
  <1>1. flows[i] \in Flows /\ pvc \in Claims
    BY DEF TypeOK
  <1>2. QED
    BY <1>1 DEF Goal, Carried, Claims, Flows, Ops

\* The initial states satisfy the inductive invariant.
LEMMA InitIndInv == Init => IndInv
  <1> SUFFICES ASSUME Init PROVE IndInv
    OBVIOUS
  <1>1. TypeOK
    BY DEF Init, TypeOK, Claims, NoFlow, EmptyId, MaxTries
  <1>2. QED
    BY <1>1 DEF Init, IndInv, GoneIsUnused, OwnFlow, Asked, OkMeansDone

\* Every step preserves the types.
LEMMA TypeStep == TypeOK /\ Asked /\ [Next]_vars => TypeOK'
  <1> SUFFICES ASSUME TypeOK, Asked, [Next]_vars PROVE TypeOK'
    OBVIOUS
  <1>a. pvc' \in Claims
    <2>1. ASSUME NEW i \in DOMAIN flows, EndFlow(i) PROVE pvc' \in Claims
      BY <2>1, CarriedType DEF EndFlow, TypeOK
    <2>2. ASSUME DeleteClaim PROVE pvc' \in Claims
      BY <2>2 DEF DeleteClaim, Claims
    <2>3. CASE UNCHANGED pvc
      BY <2>3 DEF TypeOK
    <2>4. QED
      BY <2>1, <2>2, <2>3 DEF Next, Step, vars, Call, CheckOwn, CheckNotOwn, Unreachable, Posted,
         PostedWithoutId, PostLost, PostRefused, PollReady, PollNotReady, PollRefused
  <1>b. op' \in [Clusters -> Ops \cup {NoOp}]
    <2>1. ASSUME NEW k \in Clusters, NEW o \in Ops, Call(k, o)
          PROVE  op' \in [Clusters -> Ops \cup {NoOp}]
      BY <2>1 DEF Call, TypeOK
    <2>2. CASE UNCHANGED op
      BY <2>2 DEF TypeOK
    <2>3. QED
      BY <2>1, <2>2 DEF Next, Step, vars, callVars, CheckOwn, CheckNotOwn, Unreachable, Posted,
         PostedWithoutId, PostLost, Again, PostRefused, PollReady, PollNotReady, PollRefused,
         EndFlow, DeleteClaim, Return
  <1>c. met' \in [Clusters -> BOOLEAN]
    <2>1. CASE Observe
      BY <2>1, <1>a, <1>b, GoalType DEF Observe, TypeOK
    <2>2. CASE UNCHANGED met
      BY <2>2 DEF TypeOK
    <2>3. QED
      BY <2>1, <2>2 DEF Next, Step, vars, Call, CheckOwn, CheckNotOwn, Unreachable, Posted,
         PostedWithoutId, PostLost, PostRefused, PollReady, PollNotReady, PollRefused,
         EndFlow, DeleteClaim
  <1> USE <1>a, <1>b, <1>c DEF TypeOK, NoFlow, EmptyId, MaxTries, Goto, Fault
  <1>1. ASSUME NEW k \in Clusters, NEW o \in Ops, Call(k, o) PROVE TypeOK'
    BY <1>1 DEF Call
  <1>2. ASSUME NEW k \in Clusters, CheckOwn(k) PROVE TypeOK'
    BY <1>2 DEF CheckOwn
  <1>3. ASSUME NEW k \in Clusters, CheckNotOwn(k) PROVE TypeOK'
    BY <1>3 DEF CheckNotOwn, Return
  <1>4. ASSUME NEW k \in Clusters, Unreachable(k) PROVE TypeOK'
    BY <1>4 DEF Unreachable, Return
  <1>5. ASSUME NEW k \in Clusters, Posted(k) PROVE TypeOK'
    <2>1. flows' \in Seq(Flows) /\ Len(flows') = Len(flows) + 1 /\ Len(flows) \in Nat
      BY <1>5, StartedFlow DEF Posted, Asked
    <2>2. flow' \in [Clusters -> EmptyId .. Len(flows')]
      BY <1>5, <2>1 DEF Posted
    <2>3. QED
      BY <1>5, <2>1, <2>2 DEF Posted
  <1>6. ASSUME NEW k \in Clusters, PostedWithoutId(k) PROVE TypeOK'
    <2>1. flows' \in Seq(Flows) /\ Len(flows') = Len(flows) + 1 /\ Len(flows) \in Nat
      BY <1>6, StartedFlow DEF PostedWithoutId, Asked
    <2>2. flow' \in [Clusters -> EmptyId .. Len(flows')]
      BY <1>6, <2>1 DEF PostedWithoutId
    <2>3. QED
      BY <1>6, <2>1, <2>2 DEF PostedWithoutId
  <1>7. ASSUME NEW k \in Clusters, PostLost(k) PROVE TypeOK'
    <2>1. flows' \in Seq(Flows) /\ Len(flows') >= Len(flows) /\ Len(flows) \in Nat
      <3>1. CASE UNCHANGED flows
        BY <3>1
      <3>2. op[k] \in Ops
        BY <1>7 DEF PostLost, Asked
      <3>3. CASE Started(k)
        <4>1. flows' \in Seq(Flows) /\ Len(flows') = Len(flows) + 1 /\ Len(flows) \in Nat
          BY <3>2, <3>3, StartedFlow
        <4>2. QED
          BY ONLY <4>1
      <3>4. QED
        BY <1>7, <3>1, <3>3 DEF PostLost
    <2>2. flow' \in [Clusters -> EmptyId .. Len(flows')]
      BY <1>7, <2>1 DEF PostLost, Again, Return
    <2>3. nFaults' \in Nat
      BY <1>7 DEF PostLost
    <2>4. CASE tries[k] + 1 < MaxTries
      <3>1. tries' = [tries EXCEPT ![k] = tries[k] + 1]
        BY <1>7, <2>4 DEF PostLost, Again
      <3>2. tries[k] + 1 \in 0 .. MaxTries - 1
        <4>1. tries[k] \in 0 .. MaxTries - 1
          OBVIOUS
        <4>2. QED
          BY ONLY <2>4, <4>1 DEF MaxTries
      <3>3. tries' \in [Clusters -> 0 .. MaxTries - 1]
        BY <3>1, <3>2
      <3>4. QED
        BY <1>7, <2>1, <2>2, <2>3, <2>4, <3>3 DEF PostLost, Again
    <2>5. CASE ~(tries[k] + 1 < MaxTries)
      BY <1>7, <2>1, <2>2, <2>3, <2>5 DEF PostLost, Again, Return
    <2>6. QED
      BY <2>4, <2>5
  <1>8. ASSUME NEW k \in Clusters, PostRefused(k) PROVE TypeOK'
    BY <1>8 DEF PostRefused, Return
  <1>9. ASSUME NEW k \in Clusters, PollReady(k) PROVE TypeOK'
    BY <1>9 DEF PollReady, Return
  <1>10. ASSUME NEW k \in Clusters, PollNotReady(k) PROVE TypeOK'
    <2>1. polls' \in [Clusters -> 0 .. MaxPolls]
      <3>1. CASE polls[k] < MaxPolls
        <4>1. polls' = [polls EXCEPT ![k] = polls[k] + 1]
          BY <1>10, <3>1 DEF PollNotReady
        <4>2. polls[k] + 1 \in 0 .. MaxPolls
          BY <3>1
        <4>3. QED
          BY <4>1, <4>2
      <3>2. CASE UNCHANGED polls
        BY <3>2
      <3>3. QED
        BY <1>10, <3>1, <3>2 DEF PollNotReady, Return
    <2>2. QED
      BY <1>10, <2>1 DEF PollNotReady, Return
  <1>11. ASSUME NEW k \in Clusters, PollRefused(k) PROVE TypeOK'
    BY <1>11 DEF PollRefused, Return
  <1>12. ASSUME NEW i \in DOMAIN flows, EndFlow(i) PROVE TypeOK'
    <2>1. flows' \in Seq(Flows) /\ Len(flows') = Len(flows)
      BY <1>12, EndedFlow
    <2>2. nFaults' \in Nat
      BY <1>12 DEF EndFlow
    <2>3. QED
      BY <1>12, <2>1, <2>2 DEF EndFlow, callVars
  <1>13. ASSUME DeleteClaim PROVE TypeOK'
    BY <1>13 DEF DeleteClaim, callVars
  <1>14. CASE UNCHANGED vars
    BY <1>14 DEF vars, callVars
  <1> HIDE DEF TypeOK
  <1>15. QED
    BY <1>1, <1>2, <1>3, <1>4, <1>5, <1>6, <1>7, <1>8, <1>9, <1>10, <1>11, <1>12,
       <1>13, <1>14 DEF Next, Step

\* What a call is for is noticed while the call goes on, and not forgotten.
LEMMA Observed ==
  ASSUME TypeOK, Observe, NEW k \in Clusters
  PROVE  /\ pc[k] # "idle" /\ met[k] => met'[k]
         /\ pc[k] # "idle" /\ Goal(op[k], k, pvc') => met'[k]
         /\ pc[k] = "idle" /\ pc'[k] = "idle" => met'[k] = met[k]
  BY DEF TypeOK, Observe

LEMMA MetStays ==
  ASSUME TypeOK, [Next]_vars, NEW k \in Clusters
  PROVE  /\ pc[k] # "idle" /\ met[k] => met'[k]
         /\ pc[k] = "idle" /\ pc'[k] = "idle" => met'[k] = met[k]
  <1>1. CASE Observe
    BY <1>1, Observed
  <1>2. CASE UNCHANGED vars
    BY <1>2 DEF vars
  <1>3. QED
    BY <1>1, <1>2 DEF Next, Step, Call, CheckOwn, CheckNotOwn, Unreachable, Posted,
       PostedWithoutId, PostLost, PostRefused, PollReady, PollNotReady, PollRefused,
       EndFlow, DeleteClaim

\* A claim that is gone is used by nobody.
LEMMA GoneStep ==
  ASSUME TypeOK, GoneIsUnused, [Next]_vars
  PROVE  GoneIsUnused'
  <1> USE DEF GoneIsUnused
  <1>1. ASSUME NEW i \in DOMAIN flows, EndFlow(i) PROVE GoneIsUnused'
    BY <1>1, CarriedType DEF EndFlow
  <1>2. ASSUME DeleteClaim PROVE GoneIsUnused'
    BY <1>2 DEF DeleteClaim
  <1>3. CASE UNCHANGED pvc
    BY <1>3
  <1>4. QED
    BY <1>1, <1>2, <1>3 DEF Next, Step, vars, Call, CheckOwn, CheckNotOwn, Unreachable, Posted,
       PostedWithoutId, PostLost, PostRefused, PollReady, PollNotReady, PollRefused

\* A request is sent for an operation, and nothing is returned before the end.
LEMMA AskedStep ==
  ASSUME TypeOK, Asked, [Next]_vars
  PROVE  Asked'
  <1> USE DEF Asked, TypeOK, Goto
  <1>1. ASSUME NEW k \in Clusters, NEW o \in Ops, Call(k, o) PROVE Asked'
    BY <1>1 DEF Call
  <1>2. ASSUME NEW k \in Clusters, CheckOwn(k) PROVE Asked'
    BY <1>2 DEF CheckOwn
  <1>3. ASSUME NEW k \in Clusters, CheckNotOwn(k) PROVE Asked'
    BY <1>3 DEF CheckNotOwn, Return
  <1>4. ASSUME NEW k \in Clusters, Unreachable(k) PROVE Asked'
    BY <1>4 DEF Unreachable, Return
  <1>5. ASSUME NEW k \in Clusters, Posted(k) PROVE Asked'
    BY <1>5 DEF Posted, Started
  <1>6. ASSUME NEW k \in Clusters, PostedWithoutId(k) PROVE Asked'
    BY <1>6 DEF PostedWithoutId, Started
  <1>7. ASSUME NEW k \in Clusters, PostLost(k) PROVE Asked'
    BY <1>7 DEF PostLost, Started, Again, Return
  <1>8. ASSUME NEW k \in Clusters, PostRefused(k) PROVE Asked'
    BY <1>8 DEF PostRefused, Return
  <1>9. ASSUME NEW k \in Clusters, PollReady(k) PROVE Asked'
    BY <1>9 DEF PollReady, Return
  <1>10. ASSUME NEW k \in Clusters, PollNotReady(k) PROVE Asked'
    BY <1>10 DEF PollNotReady, Return
  <1>11. ASSUME NEW k \in Clusters, PollRefused(k) PROVE Asked'
    BY <1>11 DEF PollRefused, Return
  <1>12. ASSUME NEW i \in DOMAIN flows, EndFlow(i) PROVE Asked'
    BY <1>12 DEF EndFlow, callVars
  <1>13. ASSUME DeleteClaim PROVE Asked'
    BY <1>13 DEF DeleteClaim, callVars
  <1>14. CASE UNCHANGED vars
    BY <1>14 DEF vars, callVars
  <1> HIDE DEF Asked, TypeOK, Goto
  <1>15. QED
    BY <1>1, <1>2, <1>3, <1>4, <1>5, <1>6, <1>7, <1>8, <1>9, <1>10, <1>11, <1>12,
       <1>13, <1>14 DEF Next, Step

\* A call polls its own workflow, and has met its goal when that is done.
LEMMA OwnFlowStep ==
  ASSUME TypeOK, Asked, OwnFlow, [Next]_vars
  PROVE  OwnFlow'
  <1>a. \A d \in Clusters : pc[d] # "idle" /\ met[d] => met'[d]
    BY MetStays
  <1>b. \A d \in Clusters : flow[d] # NoFlow /\ flow[d] # EmptyId => flow[d] \in DOMAIN flows
    BY DEF TypeOK, NoFlow, EmptyId
  <1> USE <1>a, <1>b DEF OwnFlow, Goto
  <1>1. ASSUME NEW k \in Clusters, NEW o \in Ops, Call(k, o) PROVE OwnFlow'
    BY <1>1 DEF Call, TypeOK
  <1>2. ASSUME NEW k \in Clusters, CheckOwn(k) PROVE OwnFlow'
    BY <1>2 DEF CheckOwn, TypeOK
  <1>3. ASSUME NEW k \in Clusters, CheckNotOwn(k) PROVE OwnFlow'
    BY <1>3 DEF CheckNotOwn, Return, TypeOK
  <1>4. ASSUME NEW k \in Clusters, Unreachable(k) PROVE OwnFlow'
    BY <1>4 DEF Unreachable, Return, TypeOK
  <1>5. ASSUME NEW k \in Clusters, Posted(k) PROVE OwnFlow'
    <2>1. op[k] \in Ops /\ op' = op /\ pc' = [pc EXCEPT ![k] = "poll"]
      BY <1>5 DEF Posted, Asked
    <2>2. /\ \A i \in DOMAIN flows : flows'[i] = flows[i]
          /\ flows'[Len(flows) + 1] = [op |-> op[k], by |-> k, state |-> "running"]
          /\ Len(flows) \in Nat
      BY <1>5, <2>1, StartedFlow DEF Posted
    <2>3. flow' = [flow EXCEPT ![k] = Len(flows) + 1]
      BY <1>5 DEF Posted
    <2>4. QED
      BY <2>1, <2>2, <2>3 DEF TypeOK, NoFlow, EmptyId, Ops, NoOp
  <1>6. ASSUME NEW k \in Clusters, PostedWithoutId(k) PROVE OwnFlow'
    <2>1. op[k] \in Ops /\ op' = op /\ pc' = [pc EXCEPT ![k] = "poll"]
      BY <1>6 DEF PostedWithoutId, Asked
    <2>2. \A i \in DOMAIN flows : flows'[i] = flows[i]
      BY <1>6, <2>1, StartedFlow DEF PostedWithoutId
    <2>3. flow' = [flow EXCEPT ![k] = EmptyId]
      BY <1>6 DEF PostedWithoutId
    <2>4. QED
      BY <2>1, <2>2, <2>3 DEF TypeOK, NoFlow, EmptyId, Ops, NoOp
  <1>7. ASSUME NEW k \in Clusters, PostLost(k) PROVE OwnFlow'
    <2>1. op[k] \in Ops /\ op' = op /\ flow' = flow
      BY <1>7 DEF PostLost, Again, Return, Asked
    <2>2. \A i \in DOMAIN flows : flows'[i] = flows[i]
      BY <1>7, <2>1, StartedFlow DEF PostLost
    <2>3. \A d \in Clusters : pc'[d] = "poll" => pc[d] = "poll"
      BY <1>7 DEF PostLost, Again, Return, TypeOK
    <2>4. QED
      BY <2>1, <2>2, <2>3
  <1>8. ASSUME NEW k \in Clusters, PostRefused(k) PROVE OwnFlow'
    BY <1>8 DEF PostRefused, Return, TypeOK
  <1>9. ASSUME NEW k \in Clusters, PollReady(k) PROVE OwnFlow'
    BY <1>9 DEF PollReady, Return, TypeOK
  <1>10. ASSUME NEW k \in Clusters, PollNotReady(k) PROVE OwnFlow'
    BY <1>10 DEF PollNotReady, Return, TypeOK
  <1>11. ASSUME NEW k \in Clusters, PollRefused(k) PROVE OwnFlow'
    BY <1>11 DEF PollRefused, Return, TypeOK
  <1>12. ASSUME NEW i \in DOMAIN flows, EndFlow(i) PROVE OwnFlow'
    <2>1. UNCHANGED callVars /\ Observe
      BY <1>12 DEF EndFlow
    <2>2. /\ \A j \in DOMAIN flows \ {i} : flows'[j] = flows[j]
          /\ flows'[i].op = flows[i].op /\ flows'[i].by = flows[i].by
      BY <1>12, EndedFlow
    <2>3. ASSUME NEW d \in Clusters, pc[d] = "poll", flow[d] = i, i # EmptyId,
                 flows'[i].state = "done"
          PROVE  met'[d]
      <3>1. flows[i].op = op[d] /\ flows[i].by = d
        BY <1>b, <2>3 DEF NoFlow
      <3>2. pvc' = Carried(flows[i])
        BY <1>12, <2>3, EndedFlow
      <3>3. Goal(op[d], d, pvc')
        BY <3>1, <3>2, CarriedReachesGoal
      <3>4. QED
        BY <2>1, <2>3, <3>3, Observed
    <2>4. QED
      BY <2>1, <2>2, <2>3 DEF callVars
  <1>13. ASSUME DeleteClaim PROVE OwnFlow'
    BY <1>13 DEF DeleteClaim, callVars
  <1>14. CASE UNCHANGED vars
    BY <1>14 DEF vars, callVars, TypeOK
  <1> HIDE DEF OwnFlow, Goto
  <1>15. QED
    BY <1>1, <1>2, <1>3, <1>4, <1>5, <1>6, <1>7, <1>8, <1>9, <1>10, <1>11, <1>12,
       <1>13, <1>14 DEF Next, Step

\* A call returns nil when its goal is met.
LEMMA OkStep ==
  ASSUME TypeOK, GoneIsUnused, Asked, OwnFlow, OkMeansDone, [Next]_vars
  PROVE  OkMeansDone'
  <1>a. \A d \in Clusters : /\ pc[d] # "idle" /\ met[d] => met'[d]
                            /\ pc[d] = "idle" /\ pc'[d] = "idle" => met'[d] = met[d]
    BY MetStays
  <1> USE <1>a DEF OkMeansDone, Goto
  <1>1. ASSUME NEW k \in Clusters, NEW o \in Ops, Call(k, o) PROVE OkMeansDone'
    BY <1>1 DEF Call, Asked, TypeOK
  <1>2. ASSUME NEW k \in Clusters, CheckOwn(k) PROVE OkMeansDone'
    <2>1. \A d \in Clusters : result'[d] = "ok" => pc[d] = "idle" /\ pc'[d] = "idle"
      BY <1>2 DEF CheckOwn, Asked, TypeOK
    <2>2. QED
      BY <1>2, <2>1 DEF CheckOwn
  <1>3. ASSUME NEW k \in Clusters, CheckNotOwn(k) PROVE OkMeansDone'
    <2>1. Goal(op[k], k, pvc')
      BY <1>3 DEF CheckNotOwn, GoneIsUnused, Asked, Goal
    <2>2. met'[k]
      BY <1>3, <2>1, Observed DEF CheckNotOwn
    <2>3. QED
      BY <1>3, <2>2 DEF CheckNotOwn, Return, Asked, TypeOK
  <1>4. ASSUME NEW k \in Clusters, Unreachable(k) PROVE OkMeansDone'
    BY <1>4 DEF Unreachable, Return, Asked, TypeOK
  <1>5. ASSUME NEW k \in Clusters, Posted(k) PROVE OkMeansDone'
    BY <1>5 DEF Posted, Started, Asked, TypeOK
  <1>6. ASSUME NEW k \in Clusters, PostedWithoutId(k) PROVE OkMeansDone'
    BY <1>6 DEF PostedWithoutId, Started, Asked, TypeOK
  <1>7. ASSUME NEW k \in Clusters, PostLost(k) PROVE OkMeansDone'
    BY <1>7 DEF PostLost, Started, Again, Return, Asked, TypeOK
  <1>8. ASSUME NEW k \in Clusters, PostRefused(k) PROVE OkMeansDone'
    <2>1. op[k].kind = "release" => met'[k]
      <3>1. op[k].kind = "release" => Goal(op[k], k, pvc')
        BY <1>8 DEF PostRefused, GoneIsUnused, Goal
      <3>2. QED
        BY <1>8, <3>1, Observed DEF PostRefused
    <2>2. QED
      BY <1>8, <2>1 DEF PostRefused, Return, Asked, TypeOK
  <1>9. ASSUME NEW k \in Clusters, PollReady(k) PROVE OkMeansDone'
    <2>1. (flow[k] = EmptyId => op[k].kind = "lock") => met'[k]
      <3>1. CASE op[k].kind = "lock"
        <4>1. Goal(op[k], k, pvc')
          BY <1>9, <3>1 DEF PollReady, Ready, AnyAnswer, Goal
        <4>2. QED
          BY <1>9, <4>1, Observed DEF PollReady
      <3>2. CASE op[k].kind # "lock" /\ flow[k] # EmptyId
        BY <1>9, <3>2 DEF PollReady, Ready, AnyAnswer, OwnFlow
      <3>3. QED
        BY <3>1, <3>2
    <2>2. QED
      BY <1>9, <2>1 DEF PollReady, Return, Asked, TypeOK
  <1>10. ASSUME NEW k \in Clusters, PollNotReady(k) PROVE OkMeansDone'
    BY <1>10 DEF PollNotReady, Return, Asked, TypeOK
  <1>11. ASSUME NEW k \in Clusters, PollRefused(k) PROVE OkMeansDone'
    BY <1>11 DEF PollRefused, Return, Asked, TypeOK
  <1>12. ASSUME NEW i \in DOMAIN flows, EndFlow(i) PROVE OkMeansDone'
    BY <1>12 DEF EndFlow, callVars, Asked, TypeOK
  <1>13. ASSUME DeleteClaim PROVE OkMeansDone'
    BY <1>13 DEF DeleteClaim, callVars, Asked, TypeOK
  <1>14. CASE UNCHANGED vars
    BY <1>14 DEF vars, callVars, Asked, TypeOK
  <1> HIDE DEF OkMeansDone, Goto
  <1>15. QED
    BY <1>1, <1>2, <1>3, <1>4, <1>5, <1>6, <1>7, <1>8, <1>9, <1>10, <1>11, <1>12,
       <1>13, <1>14 DEF Next, Step

LEMMA IndInvStep == IndInv /\ [Next]_vars => IndInv'
  BY TypeStep, GoneStep, AskedStep, OwnFlowStep, OkStep DEF IndInv

\* The inductive invariant holds in every reachable state.
THEOREM Invariance == Spec => []IndInv
  BY InitIndInv, IndInvStep, PTL DEF Spec

\* The client and the service keep to their types: no more than the attempts of
\* doActionCommon and the polls of the wait, and no workflow id out of thin air.
THEOREM TypeCorrect == Spec => []TypeOK
  BY Invariance, PTL DEF IndInv

\* UseStorage, ReleaseStorage, SetWriteLock, ExpandStorage: a call that returns nil
\* has reached its end at some time since it began, whatever requests were
\* repeated, lost or answered late, and whatever other clusters do to the claim.
THEOREM OkIsDone == Spec => []OkMeansDone
  BY Invariance, PTL DEF IndInv
=============================================================================
