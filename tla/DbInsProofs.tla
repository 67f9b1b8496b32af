----------------------------- MODULE DbInsProofs -----------------------------
(***************************************************************************)
(* Proofs about DbIns for any instances, operations and numbers of calls,  *)
(* faults, changes of pods and polls.                                      *)
(***************************************************************************)
EXTENDS DbIns, SequenceTheorems, TLAPS

(***************************************************************************)
(* The inductive invariant.  What an operation promises has happened, or   *)
(* one of the steps that are left brings it about; and a command is left   *)
(* only behind a SetIns, or when the manager client is set already.        *)
(***************************************************************************)
Commands == Polled \cup Plain
Deletions == {"delete", "stopDelete", "stopDeleteAny"}
Restarts == {"restart", "flushRestart"}
Steps == Commands \cup {"set", "mark", "create", "waitNew", "isDeleted", "delete", "waitGone",
                        "get", "waitReady", "label"}

\* The operations a step may be part of.
Belongs(s, o) ==
  /\ s = "mark" => o = "markInstalled"
  /\ s = "waitNew" => o = "create"
  /\ s = "isDeleted" => o \in {"stopDelete", "stopDeleteAny"}
  /\ s \in {"delete", "waitGone"} => o \in Deletions
  /\ s \in {"get", "waitReady"} => o \in Restarts
  /\ s = "stopAny" => o = "stopDeleteAny"
  /\ s = "start" => o # "stopDelete"
  /\ s = "healthShort" => o \in {"flush", "flushRestart"}
  /\ s = "label" => o = "label"
  /\ o = "markInstalled" => s = "mark"

\* Steps that are left of operation o; a deletion is asked for after the stop
\* and is waited for, and so is a pod that was read.
Shaped(o, s) ==
  /\ s \in Seq(Steps)
  /\ \A k \in DOMAIN s : Belongs(s[k], o)
  /\ \A j, k \in DOMAIN s : j < k /\ s[j] = "delete" => s[k] # "stop"
  /\ s # <<>> => s[Len(s)] # "get" /\ (o \in Deletions => s[Len(s)] = "waitGone")

\* Commands come after a SetIns.
Led(s) == \A k \in DOMAIN s : s[k] \in Commands => \E j \in 1 .. k - 1 : s[j] = "set"

Promises == {"shown", "gone", "install", "copied", "marked", "up", "health", "update", "stop",
             "kill", "start", "grow", "relabelled"}

\* What operation o is for; a wait for a new pod is over when it was shown.
Needs(o, f) ==
  \/ o = "create" /\ f = "shown"
  \/ o \in Deletions /\ f = "gone"
  \/ o = "install" /\ f = "install"
  \/ o = "waitInstall" /\ f = "copied"
  \/ o = "markInstalled" /\ f = "marked"
  \/ o = "health" /\ f = "up"
  \/ o \in {"flush", "flushRestart"} /\ f \in {"health", "update"}
  \/ o \in Restarts /\ f \in {"stop", "kill", "start"}
  \/ o = "restart" /\ f = "up"
  \/ o = "label" /\ f = "relabelled"
  \/ o \in {"stop", "start", "grow"} /\ f = o

\* What a step that is done has brought about.
Gives(s, f) ==
  \/ s = "waitNew" /\ f = "shown"
  \/ s = "waitGone" /\ f = "gone"
  \/ s = "progress" /\ f = "copied"
  \/ s = "mark" /\ f = "marked"
  \/ s = "health" /\ f \in {"health", "up"}
  \/ s = "healthShort" /\ f = "health"
  \/ s = "label" /\ f = "relabelled"
  \/ s \in {"install", "update", "stop", "kill", "start", "grow"} /\ f = s

WasShown(d) == "ready" \in d \/ "refused" \in d
Has(f) == \/ f \notin {"shown", "marked"} /\ f \in did
          \/ f = "shown" /\ WasShown(did)
          \/ f = "marked" /\ installed[call.ins]

\* The manager client has been set to the instance of the call.
Set == "setFailed" \notin did

Structured == Shaped(call.op, todo) /\ (Idle => at = "begin" /\ watch = "off" /\ log = <<>>)
Targeted == Set => Led(todo) \/ target = call.ins
Pending ==
  ~Idle /\ Set =>
    \A f \in Promises : Needs(call.op, f) => Has(f) \/ \E k \in DOMAIN todo : Gives(todo[k], f)

\* A deletion by StopEngineAndDeletePod is left only behind the stop.
StopFirst ==
  ~Idle /\ Set /\ call.op = "stopDelete" =>
    engine[call.ins] = "down" \/ \E k \in DOMAIN todo : todo[k] = "stop"

\* What the watch will deliver has happened since the call began.
Told(e, d) == /\ e.kind = "DELETED" => "gone" \in d
              /\ e.shows \in {"ready", "refused"} => WasShown(d)
Noted ==
  ~Idle /\ call.op \notin Restarts =>
    /\ \A k \in DOMAIN log : Told(log[k], did)
    /\ at = "settle" => WasShown(did)

\* A label is written while nothing has happened to the pod since it was read.
Current ==
  Now("label") /\ at = "write" => watch = "on" /\ (log = <<>> => pod[call.ins].there)

\* A poll is made while there is time.
InTime ==
  /\ at = "exec" => ~Idle /\ Head(todo) \in Polled
  /\ ~Idle /\ Head(todo) \in Polled /\ at \in {"exec", "again", "last"} => tries < MaxPolls

\* What is true of the pod of the instance has been observed.
Seen ==
  /\ ~pod[call.ins].there => "gone" \in did
  /\ pod[call.ins].deleting => "terminating" \in did
  /\ pod[call.ins].shows \in {"ready", "refused"} => pod[call.ins].shows \in did
  /\ engine[call.ins] = "up" => "up" \in did
  /\ data[call.ins] = "done" => "copied" \in did
  /\ pod[call.ins].there /\ pod[call.ins].type = NewType => "relabelled" \in did

IndInv ==
  /\ TypeOK /\ Structured /\ Targeted /\ CommandsGoToOwnPod /\ Pending /\ StopFirst /\ Noted
  /\ Current /\ InTime /\ OkMeansDone

-----------------------------------------------------------------------------
(***************************************************************************)
(* Steps that are left                                                     *)
(***************************************************************************)
LEMMA TailParts ==
  ASSUME NEW S, NEW s \in Seq(S), s # <<>>
  PROVE  /\ Tail(s) \in Seq(S) /\ Len(s) \in Nat /\ Len(s) >= 1 /\ Len(Tail(s)) = Len(s) - 1
         /\ DOMAIN s = 1 .. Len(s) /\ DOMAIN Tail(s) = 1 .. Len(s) - 1
         /\ \A k \in DOMAIN Tail(s) : k + 1 \in DOMAIN s /\ Tail(s)[k] = s[k + 1]
         /\ Head(s) = s[1] /\ 1 \in DOMAIN s
         /\ \A k \in DOMAIN s : k = 1 \/ (k - 1 \in DOMAIN Tail(s) /\ Tail(s)[k - 1] = s[k])
  OBVIOUS

LEMMA ShapedTail ==
  ASSUME NEW o, NEW s, Shaped(o, s), s # <<>>
  PROVE  Shaped(o, Tail(s)) /\ Belongs(Head(s), o) /\ Head(s) \in Steps
         /\ (Head(s) = "delete" => \A k \in DOMAIN Tail(s) : Tail(s)[k] # "stop")
  <1>1. s \in Seq(Steps)
    BY DEF Shaped
  <1> DEFINE t == Tail(s)
  <1>2. /\ t \in Seq(Steps) /\ DOMAIN t = 1 .. Len(s) - 1 /\ Len(s) \in Nat
        /\ \A k \in DOMAIN t : k + 1 \in DOMAIN s /\ t[k] = s[k + 1]
        /\ Head(s) = s[1] /\ 1 \in DOMAIN s
    BY <1>1, TailParts
  <1> HIDE DEF t
  <1>3. \A k \in DOMAIN t : Belongs(t[k], o)
    BY <1>2 DEF Shaped
  <1>8. t # <<>> => t[Len(t)] = s[Len(s)]
    <2>1. Len(t) \in Nat /\ Len(t) = Len(s) - 1
      BY <1>1, TailParts DEF t
    <2>2. t # <<>> => Len(t) # 0
      BY <1>2, EmptySeq
    <2>3. t # <<>> => Len(t) \in DOMAIN t /\ Len(t) + 1 = Len(s)
      BY <1>2, <2>1, <2>2
    <2>4. QED
      BY <1>2, <2>3
  <1>4. ASSUME NEW j \in DOMAIN t, NEW k \in DOMAIN t, j < k, t[j] = "delete" PROVE t[k] # "stop"
    <2>1. j + 1 \in DOMAIN s /\ k + 1 \in DOMAIN s /\ j + 1 < k + 1
      BY <1>2, <1>4
    <2>2. QED
      BY <1>2, <1>4, <2>1 DEF Shaped
  <1>5. ASSUME Head(s) = "delete", NEW k \in DOMAIN t PROVE t[k] # "stop"
    <2>1. k + 1 \in DOMAIN s /\ 1 < k + 1
      BY <1>2
    <2>2. QED
      BY <1>2, <1>5, <2>1 DEF Shaped
  <1>6. Belongs(Head(s), o) /\ Head(s) \in Steps
    BY <1>1, <1>2 DEF Shaped
  <1>7. QED
    BY <1>2, <1>3, <1>4, <1>5, <1>6, <1>8 DEF Shaped, t

LEMMA LedTail ==
  ASSUME NEW s \in Seq(Steps), s # <<>>, Led(s)
  PROVE  Head(s) \notin Commands /\ (Head(s) # "set" => Led(Tail(s)))
  <1> DEFINE t == Tail(s)
  <1>1. /\ DOMAIN t = 1 .. Len(s) - 1 /\ Len(s) \in Nat
        /\ \A k \in DOMAIN t : k + 1 \in DOMAIN s /\ t[k] = s[k + 1]
        /\ Head(s) = s[1] /\ 1 \in DOMAIN s /\ DOMAIN s = 1 .. Len(s)
    BY TailParts
  <1> HIDE DEF t
  <1>2. Head(s) \notin Commands
    BY <1>1 DEF Led
  <1>3. ASSUME Head(s) # "set", NEW k \in DOMAIN t, t[k] \in Commands
        PROVE  \E j \in 1 .. k - 1 : t[j] = "set"
    <2>1. PICK j \in 1 .. k : s[j] = "set"
      <3>1. k + 1 \in DOMAIN s /\ s[k + 1] \in Commands /\ (k + 1) - 1 = k
        BY <1>1, <1>3
      <3>2. QED
        BY <3>1 DEF Led
    <2>2. j # 1
      BY <1>1, <1>3, <2>1
    <2>3. j - 1 \in 1 .. k - 1 /\ j - 1 \in DOMAIN t /\ (j - 1) + 1 = j
      BY <1>1, <2>1, <2>2
    <2>4. t[j - 1] = "set"
      BY <1>1, <2>1, <2>3
    <2>5. QED
      BY <2>3, <2>4
  <1>4. QED
    BY <1>2, <1>3 DEF Led, t

\* The steps of an operation, written out.
LEMMA Programs ==
  ASSUME NEW o \in AllOps, NEW i \in Instances
  PROVE  \/ Program(o, i) = <<>> /\ o \in {"create", "install"} /\ installed[i]
         \/ o = "create" /\ Program(o, i) = <<"create", "waitNew">>
         \/ o = "delete" /\ Program(o, i) = <<"delete", "waitGone">>
         \/ o = "stopDelete" /\ Program(o, i) = <<"set", "isDeleted", "stop", "delete", "waitGone">>
         \/ /\ o = "stopDeleteAny"
            /\ Program(o, i) = <<"set", "isDeleted", "stopAny", "delete", "waitGone">>
         \/ o = "install" /\ Program(o, i) = <<"set", "install">>
         \/ o = "waitInstall" /\ Program(o, i) = <<"set", "progress">>
         \/ o = "markInstalled" /\ Program(o, i) = <<"mark">>
         \/ o = "health" /\ Program(o, i) = <<"set", "health">>
         \/ o = "flush" /\ Program(o, i) = <<"set", "set", "healthShort", "update">>
         \/ /\ o = "flushRestart"
            /\ Program(o, i) = <<"set", "set", "healthShort", "update", "stop", "get", "kill",
                                 "waitReady", "start">>
         \/ /\ o = "restart"
            /\ Program(o, i) = <<"set", "stop", "get", "kill", "waitReady", "start", "set",
                                 "health">>
         \/ o = "label" /\ Program(o, i) = <<"label">>
         \/ o \in {"stop", "start", "grow"} /\ Program(o, i) = <<"set", o>>
  <1> USE DEF UnlessInstalled, Deleting, StoppingAndDeleting, WaitingForHealth, Flushing,
          Restarting
  <1>1. CASE o \in {"create", "delete", "install", "waitInstall", "markInstalled", "health", "label"}
    BY <1>1 DEF Program
  <1>2. CASE o \in {"stop", "start", "grow"}
    BY <1>2 DEF Program
  <1>3. CASE o = "stopDelete"
    <2> DEFINE a == <<"set", "isDeleted", "stop">>
               b == <<"delete", "waitGone">>
               c == <<"set", "isDeleted", "stop", "delete", "waitGone">>
    <2>1. a \in Seq(Steps) /\ b \in Seq(Steps)
          /\ c \in Seq(Steps)
      BY DEF Steps, Commands, Polled, Plain
    <2>2. a \o b \in Seq(Steps) /\ Len(a \o b) = 5
      BY <2>1
    <2>3. \A k \in 1 .. 5 : (a \o b)[k] = c[k]
      OBVIOUS
    <2>4. a \o b = c
      BY <2>1, <2>2, <2>3, SeqEqual
    <2>5. QED
      BY <1>3, <2>4 DEF Program
  <1>7. CASE o = "stopDeleteAny"
    <2> DEFINE a == <<"set", "isDeleted", "stopAny">>
               b == <<"delete", "waitGone">>
               c == <<"set", "isDeleted", "stopAny", "delete", "waitGone">>
    <2>1. a \in Seq(Steps) /\ b \in Seq(Steps)
          /\ c \in Seq(Steps)
      BY DEF Steps, Commands, Polled, Plain
    <2>2. a \o b \in Seq(Steps) /\ Len(a \o b) = 5
      BY <2>1
    <2>3. \A k \in 1 .. 5 : (a \o b)[k] = c[k]
      OBVIOUS
    <2>4. a \o b = c
      BY <2>1, <2>2, <2>3, SeqEqual
    <2>5. QED
      BY <1>7, <2>4 DEF Program
  <1>4. CASE o = "flush"
    BY <1>4 DEF Program
  <1>5. CASE o = "flushRestart"
    <2> DEFINE a == <<"set", "set", "healthShort", "update">>
               b == <<"stop", "get", "kill", "waitReady", "start">>
               c == <<"set", "set", "healthShort", "update", "stop", "get", "kill", "waitReady",
                      "start">>
    <2>1. a \in Seq(Steps) /\ b \in Seq(Steps)
          /\ c \in Seq(Steps)
      BY DEF Steps, Commands, Polled, Plain
    <2>2. a \o b \in Seq(Steps) /\ Len(a \o b) = 9
      BY <2>1
    <2>3. \A k \in 1 .. 9 : (a \o b)[k] = c[k]
      OBVIOUS
    <2>4. a \o b = c
      BY <2>1, <2>2, <2>3, SeqEqual
    <2>5. QED
      BY <1>5, <2>4 DEF Program
  <1>6. CASE o = "restart"
    <2> DEFINE a == <<"set">> \o <<"stop", "get", "kill", "waitReady", "start">>
               b == <<"set", "health">>
               c == <<"set", "stop", "get", "kill", "waitReady", "start", "set", "health">>
    <2>1. a \in Seq(Steps) /\ b \in Seq(Steps)
          /\ c \in Seq(Steps)
      BY DEF Steps, Commands, Polled, Plain
    <2>2. a \o b \in Seq(Steps) /\ Len(a \o b) = 8
      BY <2>1
    <2>3. \A k \in 1 .. 8 : (a \o b)[k] = c[k]
      OBVIOUS
    <2>4. a \o b = c
      BY <2>1, <2>2, <2>3, SeqEqual
    <2>5. QED
      BY <1>6, <2>4 DEF Program
  <1>8. QED
    BY <1>1, <1>2, <1>3, <1>4, <1>5, <1>6, <1>7 DEF AllOps

\* An operation begins with steps that do what it is for.
LEMMA Begun ==
  ASSUME NEW o \in AllOps, NEW i \in Instances
  PROVE  LET s == Program(o, i) IN
         /\ Shaped(o, s) /\ Led(s)
         /\ s = <<>> => o \in {"create", "install"} /\ installed[i]
         /\ s # <<>> => \A f \in Promises : Needs(o, f) => \E k \in DOMAIN s : Gives(s[k], f)
         /\ o = "stopDelete" => \E k \in DOMAIN s : s[k] = "stop"
  <1> DEFINE s == Program(o, i)
             Fine == /\ Shaped(o, s) /\ Led(s)
                     /\ s = <<>> => o \in {"create", "install"} /\ installed[i]
                     /\ s # <<>> => \A f \in Promises :
                                      Needs(o, f) => \E k \in DOMAIN s : Gives(s[k], f)
                     /\ o = "stopDelete" => \E k \in DOMAIN s : s[k] = "stop"
  <1> SUFFICES Fine
    OBVIOUS
  <1>0. \/ s = <<>> /\ o \in {"create", "install"} /\ installed[i]
        \/ o = "create" /\ s = <<"create", "waitNew">>
        \/ o = "delete" /\ s = <<"delete", "waitGone">>
        \/ o = "stopDelete" /\ s = <<"set", "isDeleted", "stop", "delete", "waitGone">>
        \/ o = "stopDeleteAny" /\ s = <<"set", "isDeleted", "stopAny", "delete", "waitGone">>
        \/ o = "install" /\ s = <<"set", "install">>
        \/ o = "waitInstall" /\ s = <<"set", "progress">>
        \/ o = "markInstalled" /\ s = <<"mark">>
        \/ o = "health" /\ s = <<"set", "health">>
        \/ o = "flush" /\ s = <<"set", "set", "healthShort", "update">>
        \/ o = "flushRestart" /\ s = <<"set", "set", "healthShort", "update", "stop", "get", "kill", "waitReady", "start">>
        \/ o = "restart" /\ s = <<"set", "stop", "get", "kill", "waitReady", "start", "set", "health">>
        \/ o = "label" /\ s = <<"label">>
        \/ o \in {"stop", "start", "grow"} /\ s = <<"set", o>>
    BY Programs
  <1> HIDE DEF s
  <1>1. CASE s = <<>> /\ o \in {"create", "install"} /\ installed[i]
    <2>1. s \in Seq(Steps) /\ DOMAIN s = {}
      BY <1>1
    <2>2. QED
      BY <1>1, <2>1 DEF Shaped, Led
  <1>2. CASE o = "create" /\ s = <<"create", "waitNew">>
    <2>1. s \in Seq(Steps) /\ DOMAIN s = 1 .. 2 /\ Len(s) = 2
      BY <1>2 DEF Steps, Commands, Polled, Plain
    <2>2. s[1] = "create" /\ s[2] = "waitNew"
      BY <1>2
    <2>3. \A k \in DOMAIN s : k = 1 \/ k = 2
      BY <2>1
    <2>4. Shaped(o, s)
      BY <1>2, <2>1, <2>2, <2>3 DEF Shaped, Belongs, Deletions, Restarts
    <2>5. Led(s)
      BY <2>1, <2>2, <2>3 DEF Led, Commands, Polled, Plain
    <2>6. ASSUME NEW f \in Promises, Needs(o, f) PROVE \E k \in DOMAIN s : Gives(s[k], f)
      BY <1>2, <2>1, <2>2, <2>6 DEF Needs, Gives, Deletions, Restarts
    <2>7. QED
      BY <1>2, <2>1, <2>2, <2>4, <2>5, <2>6
  <1>3. CASE o = "delete" /\ s = <<"delete", "waitGone">>
    <2>1. s \in Seq(Steps) /\ DOMAIN s = 1 .. 2 /\ Len(s) = 2
      BY <1>3 DEF Steps, Commands, Polled, Plain
    <2>2. s[1] = "delete" /\ s[2] = "waitGone"
      BY <1>3
    <2>3. \A k \in DOMAIN s : k = 1 \/ k = 2
      BY <2>1
    <2>4. Shaped(o, s)
      BY <1>3, <2>1, <2>2, <2>3 DEF Shaped, Belongs, Deletions, Restarts
    <2>5. Led(s)
      BY <2>1, <2>2, <2>3 DEF Led, Commands, Polled, Plain
    <2>6. ASSUME NEW f \in Promises, Needs(o, f) PROVE \E k \in DOMAIN s : Gives(s[k], f)
      BY <1>3, <2>1, <2>2, <2>6 DEF Needs, Gives, Deletions, Restarts
    <2>7. QED
      BY <1>3, <2>1, <2>2, <2>4, <2>5, <2>6
  <1>4. CASE o = "stopDelete" /\ s = <<"set", "isDeleted", "stop", "delete", "waitGone">>
    <2>1. s \in Seq(Steps) /\ DOMAIN s = 1 .. 5 /\ Len(s) = 5
      BY <1>4 DEF Steps, Commands, Polled, Plain
    <2>2. s[1] = "set" /\ s[2] = "isDeleted" /\ s[3] = "stop" /\ s[4] = "delete" /\ s[5] = "waitGone"
      BY <1>4
    <2>3. \A k \in DOMAIN s : k = 1 \/ k = 2 \/ k = 3 \/ k = 4 \/ k = 5
      BY <2>1
    <2>4. Shaped(o, s)
      BY <1>4, <2>1, <2>2, <2>3 DEF Shaped, Belongs, Deletions, Restarts
    <2>5. Led(s)
      BY <2>1, <2>2, <2>3 DEF Led, Commands, Polled, Plain
    <2>6. ASSUME NEW f \in Promises, Needs(o, f) PROVE \E k \in DOMAIN s : Gives(s[k], f)
      BY <1>4, <2>1, <2>2, <2>6 DEF Needs, Gives, Deletions, Restarts
    <2>7. QED
      BY <1>4, <2>1, <2>2, <2>4, <2>5, <2>6
  <1>5. CASE o = "stopDeleteAny" /\ s = <<"set", "isDeleted", "stopAny", "delete", "waitGone">>
    <2>1. s \in Seq(Steps) /\ DOMAIN s = 1 .. 5 /\ Len(s) = 5
      BY <1>5 DEF Steps, Commands, Polled, Plain
    <2>2. s[1] = "set" /\ s[2] = "isDeleted" /\ s[3] = "stopAny" /\ s[4] = "delete" /\ s[5] = "waitGone"
      BY <1>5
    <2>3. \A k \in DOMAIN s : k = 1 \/ k = 2 \/ k = 3 \/ k = 4 \/ k = 5
      BY <2>1
    <2>4. Shaped(o, s)
      BY <1>5, <2>1, <2>2, <2>3 DEF Shaped, Belongs, Deletions, Restarts
    <2>5. Led(s)
      BY <2>1, <2>2, <2>3 DEF Led, Commands, Polled, Plain
    <2>6. ASSUME NEW f \in Promises, Needs(o, f) PROVE \E k \in DOMAIN s : Gives(s[k], f)
      BY <1>5, <2>1, <2>2, <2>6 DEF Needs, Gives, Deletions, Restarts
    <2>7. QED
      BY <1>5, <2>1, <2>2, <2>4, <2>5, <2>6
  <1>6. CASE o = "install" /\ s = <<"set", "install">>
    <2>1. s \in Seq(Steps) /\ DOMAIN s = 1 .. 2 /\ Len(s) = 2
      BY <1>6 DEF Steps, Commands, Polled, Plain
    <2>2. s[1] = "set" /\ s[2] = "install"
      BY <1>6
    <2>3. \A k \in DOMAIN s : k = 1 \/ k = 2
      BY <2>1
    <2>4. Shaped(o, s)
      BY <1>6, <2>1, <2>2, <2>3 DEF Shaped, Belongs, Deletions, Restarts
    <2>5. Led(s)
      BY <2>1, <2>2, <2>3 DEF Led, Commands, Polled, Plain
    <2>6. ASSUME NEW f \in Promises, Needs(o, f) PROVE \E k \in DOMAIN s : Gives(s[k], f)
      BY <1>6, <2>1, <2>2, <2>6 DEF Needs, Gives, Deletions, Restarts
    <2>7. QED
      BY <1>6, <2>1, <2>2, <2>4, <2>5, <2>6
  <1>7. CASE o = "waitInstall" /\ s = <<"set", "progress">>
    <2>1. s \in Seq(Steps) /\ DOMAIN s = 1 .. 2 /\ Len(s) = 2
      BY <1>7 DEF Steps, Commands, Polled, Plain
    <2>2. s[1] = "set" /\ s[2] = "progress"
      BY <1>7
    <2>3. \A k \in DOMAIN s : k = 1 \/ k = 2
      BY <2>1
    <2>4. Shaped(o, s)
      BY <1>7, <2>1, <2>2, <2>3 DEF Shaped, Belongs, Deletions, Restarts
    <2>5. Led(s)
      BY <2>1, <2>2, <2>3 DEF Led, Commands, Polled, Plain
    <2>6. ASSUME NEW f \in Promises, Needs(o, f) PROVE \E k \in DOMAIN s : Gives(s[k], f)
      BY <1>7, <2>1, <2>2, <2>6 DEF Needs, Gives, Deletions, Restarts
    <2>7. QED
      BY <1>7, <2>1, <2>2, <2>4, <2>5, <2>6
  <1>8. CASE o = "markInstalled" /\ s = <<"mark">>
    <2>1. s \in Seq(Steps) /\ DOMAIN s = 1 .. 1 /\ Len(s) = 1
      BY <1>8 DEF Steps, Commands, Polled, Plain
    <2>2. s[1] = "mark"
      BY <1>8
    <2>3. \A k \in DOMAIN s : k = 1
      BY <2>1
    <2>4. Shaped(o, s)
      BY <1>8, <2>1, <2>2, <2>3 DEF Shaped, Belongs, Deletions, Restarts
    <2>5. Led(s)
      BY <2>1, <2>2, <2>3 DEF Led, Commands, Polled, Plain
    <2>6. ASSUME NEW f \in Promises, Needs(o, f) PROVE \E k \in DOMAIN s : Gives(s[k], f)
      BY <1>8, <2>1, <2>2, <2>6 DEF Needs, Gives, Deletions, Restarts
    <2>7. QED
      BY <1>8, <2>1, <2>2, <2>4, <2>5, <2>6
  <1>9. CASE o = "health" /\ s = <<"set", "health">>
    <2>1. s \in Seq(Steps) /\ DOMAIN s = 1 .. 2 /\ Len(s) = 2
      BY <1>9 DEF Steps, Commands, Polled, Plain
    <2>2. s[1] = "set" /\ s[2] = "health"
      BY <1>9
    <2>3. \A k \in DOMAIN s : k = 1 \/ k = 2
      BY <2>1
    <2>4. Shaped(o, s)
      BY <1>9, <2>1, <2>2, <2>3 DEF Shaped, Belongs, Deletions, Restarts
    <2>5. Led(s)
      BY <2>1, <2>2, <2>3 DEF Led, Commands, Polled, Plain
    <2>6. ASSUME NEW f \in Promises, Needs(o, f) PROVE \E k \in DOMAIN s : Gives(s[k], f)
      BY <1>9, <2>1, <2>2, <2>6 DEF Needs, Gives, Deletions, Restarts
    <2>7. QED
      BY <1>9, <2>1, <2>2, <2>4, <2>5, <2>6
  <1>10. CASE o = "flush" /\ s = <<"set", "set", "healthShort", "update">>
    <2>1. s \in Seq(Steps) /\ DOMAIN s = 1 .. 4 /\ Len(s) = 4
      BY <1>10 DEF Steps, Commands, Polled, Plain
    <2>2. s[1] = "set" /\ s[2] = "set" /\ s[3] = "healthShort" /\ s[4] = "update"
      BY <1>10
    <2>3. \A k \in DOMAIN s : k = 1 \/ k = 2 \/ k = 3 \/ k = 4
      BY <2>1
    <2>4. Shaped(o, s)
      BY <1>10, <2>1, <2>2, <2>3 DEF Shaped, Belongs, Deletions, Restarts
    <2>5. Led(s)
      BY <2>1, <2>2, <2>3 DEF Led, Commands, Polled, Plain
    <2>6. ASSUME NEW f \in Promises, Needs(o, f) PROVE \E k \in DOMAIN s : Gives(s[k], f)
      BY <1>10, <2>1, <2>2, <2>6 DEF Needs, Gives, Deletions, Restarts
    <2>7. QED
      BY <1>10, <2>1, <2>2, <2>4, <2>5, <2>6
  <1>11. CASE o = "flushRestart" /\ s = <<"set", "set", "healthShort", "update", "stop", "get", "kill", "waitReady", "start">>
    <2>1. s \in Seq(Steps) /\ DOMAIN s = 1 .. 9 /\ Len(s) = 9
      BY <1>11 DEF Steps, Commands, Polled, Plain
    <2>2. s[1] = "set" /\ s[2] = "set" /\ s[3] = "healthShort" /\ s[4] = "update" /\ s[5] = "stop" /\ s[6] = "get" /\ s[7] = "kill" /\ s[8] = "waitReady" /\ s[9] = "start"
      BY <1>11
    <2>3. \A k \in DOMAIN s : k = 1 \/ k = 2 \/ k = 3 \/ k = 4 \/ k = 5 \/ k = 6 \/ k = 7 \/ k = 8 \/ k = 9
      BY <2>1
    <2>4. Shaped(o, s)
      BY <1>11, <2>1, <2>2, <2>3 DEF Shaped, Belongs, Deletions, Restarts
    <2>5. Led(s)
      BY <2>1, <2>2, <2>3 DEF Led, Commands, Polled, Plain
    <2>6. ASSUME NEW f \in Promises, Needs(o, f) PROVE \E k \in DOMAIN s : Gives(s[k], f)
      BY <1>11, <2>1, <2>2, <2>6 DEF Needs, Gives, Deletions, Restarts
    <2>7. QED
      BY <1>11, <2>1, <2>2, <2>4, <2>5, <2>6
  <1>12. CASE o = "restart" /\ s = <<"set", "stop", "get", "kill", "waitReady", "start", "set", "health">>
    <2>1. s \in Seq(Steps) /\ DOMAIN s = 1 .. 8 /\ Len(s) = 8
      BY <1>12 DEF Steps, Commands, Polled, Plain
    <2>2. s[1] = "set" /\ s[2] = "stop" /\ s[3] = "get" /\ s[4] = "kill" /\ s[5] = "waitReady" /\ s[6] = "start" /\ s[7] = "set" /\ s[8] = "health"
      BY <1>12
    <2>3. \A k \in DOMAIN s : k = 1 \/ k = 2 \/ k = 3 \/ k = 4 \/ k = 5 \/ k = 6 \/ k = 7 \/ k = 8
      BY <2>1
    <2>4. Shaped(o, s)
      BY <1>12, <2>1, <2>2, <2>3 DEF Shaped, Belongs, Deletions, Restarts
    <2>5. Led(s)
      BY <2>1, <2>2, <2>3 DEF Led, Commands, Polled, Plain
    <2>6. ASSUME NEW f \in Promises, Needs(o, f) PROVE \E k \in DOMAIN s : Gives(s[k], f)
      BY <1>12, <2>1, <2>2, <2>6 DEF Needs, Gives, Deletions, Restarts
    <2>7. QED
      BY <1>12, <2>1, <2>2, <2>4, <2>5, <2>6
  <1>13. CASE o = "label" /\ s = <<"label">>
    <2>1. s \in Seq(Steps) /\ DOMAIN s = 1 .. 1 /\ Len(s) = 1
      BY <1>13 DEF Steps, Commands, Polled, Plain
    <2>2. s[1] = "label"
      BY <1>13
    <2>3. \A k \in DOMAIN s : k = 1
      BY <2>1
    <2>4. Shaped(o, s)
      BY <1>13, <2>1, <2>2, <2>3 DEF Shaped, Belongs, Deletions, Restarts
    <2>5. Led(s)
      BY <2>1, <2>2, <2>3 DEF Led, Commands, Polled, Plain
    <2>6. ASSUME NEW f \in Promises, Needs(o, f) PROVE \E k \in DOMAIN s : Gives(s[k], f)
      BY <1>13, <2>1, <2>2, <2>6 DEF Needs, Gives, Deletions, Restarts
    <2>7. QED
      BY <1>13, <2>1, <2>2, <2>4, <2>5, <2>6
  <1>14. CASE o \in {"stop", "start", "grow"} /\ s = <<"set", o>>
    <2>1. s \in Seq(Steps) /\ DOMAIN s = 1 .. 2 /\ Len(s) = 2
      BY <1>14 DEF Steps, Commands, Polled, Plain
    <2>2. s[1] = "set" /\ s[2] = o
      BY <1>14
    <2>3. \A k \in DOMAIN s : k = 1 \/ k = 2
      BY <2>1
    <2>4. Shaped(o, s)
      BY <1>14, <2>1, <2>2, <2>3 DEF Shaped, Belongs, Deletions, Restarts
    <2>5. Led(s)
      BY <2>1, <2>2, <2>3 DEF Led, Commands, Polled, Plain
    <2>6. ASSUME NEW f \in Promises, Needs(o, f) PROVE \E k \in DOMAIN s : Gives(s[k], f)
      BY <1>14, <2>1, <2>2, <2>6 DEF Needs, Gives, Deletions, Restarts
    <2>7. QED
      BY <1>14, <2>1, <2>2, <2>4, <2>5, <2>6
  <1>15. QED
    BY <1>0, <1>1, <1>2, <1>3, <1>4, <1>5, <1>6, <1>7, <1>8, <1>9, <1>10, <1>11, <1>12, <1>13,
       <1>14

\* FlushParams starts an engine that it finds stopped; the rest follows.
LEMMA Recovered ==
  ASSUME NEW o \in AllOps, NEW s, Shaped(o, s), s # <<>>, Head(s) = "healthShort"
  PROVE  LET r == <<"start">> \o WaitingForHealth \o Tail(s) IN
         /\ Shaped(o, r) /\ r # <<>> /\ o # "stopDelete"
         /\ \A f : (\E k \in DOMAIN s : Gives(s[k], f)) => \E k \in DOMAIN r : Gives(r[k], f)
  <1> DEFINE t == Tail(s)
             a == <<"start">> \o WaitingForHealth
             r == a \o t
  <1>1. /\ s \in Seq(Steps) /\ t \in Seq(Steps) /\ Shaped(o, t) /\ Belongs("healthShort", o)
        /\ Len(t) \in Nat
    BY ShapedTail, TailParts DEF Shaped
  <1>2. o \in {"flush", "flushRestart"}
    BY <1>1 DEF Belongs
  <1>3. /\ a \in Seq(Steps) /\ Len(a) = 3
        /\ a[1] = "start" /\ a[2] = "set" /\ a[3] = "health"
    BY DEF WaitingForHealth, Steps, Commands, Polled, Plain
  <1> HIDE DEF a, t
  <1>4. /\ r \in Seq(Steps) /\ Len(r) = 3 + Len(t) /\ DOMAIN r = 1 .. 3 + Len(t)
        /\ \A k \in DOMAIN r : r[k] = IF k <= 3 THEN a[k] ELSE t[k - 3]
    <2>0. a \in Seq(Steps) /\ t \in Seq(Steps)
      BY <1>1, <1>3
    <2>1. r \in Seq(Steps) /\ Len(r) = Len(a) + Len(t)
      BY <2>0, ConcatProperties
    <2>2. DOMAIN r = 1 .. 3 + Len(t)
      BY <1>1, <1>3, <2>1
    <2>3. \A k \in 1 .. Len(a) + Len(t) : r[k] = IF k <= Len(a) THEN a[k] ELSE t[k - Len(a)]
      BY <2>0, ConcatProperties
    <2>4. QED
      BY <1>1, <1>3, <2>1, <2>2, <2>3
  <1> HIDE DEF r
  <1>5. \A k \in DOMAIN r : k = 1 \/ k = 2 \/ k = 3 \/ (k - 3 \in DOMAIN t /\ r[k] = t[k - 3])
    BY <1>1, <1>4
  <1>6. r[1] = "start" /\ r[2] = "set" /\ r[3] = "health"
    <2>1. 1 \in DOMAIN r /\ 2 \in DOMAIN r /\ 3 \in DOMAIN r
      BY <1>1, <1>4
    <2>2. QED
      BY <1>3, <1>4, <2>1
  <1>7. \A k \in DOMAIN r : Belongs(r[k], o)
    BY <1>1, <1>2, <1>5, <1>6 DEF Shaped, Belongs
  <1>8. \A k \in DOMAIN r : r[k] # "delete"
    BY <1>2, <1>7 DEF Belongs, Deletions
  <1>9. r[Len(r)] # "get"
    <2>1. CASE t = <<>>
      BY <1>1, <1>4, <1>6, <2>1
    <2>2. CASE t # <<>>
      <3>1. Len(t) # 0 /\ t[Len(t)] # "get"
        BY <1>1, <2>2, EmptySeq DEF Shaped
      <3>2. Len(r) \in DOMAIN r /\ ~(Len(r) <= 3) /\ Len(r) - 3 = Len(t)
        BY <1>1, <1>4, <3>1
      <3>3. QED
        BY <1>4, <3>1, <3>2
    <2>3. QED
      BY <2>1, <2>2
  <1>10. ASSUME NEW f, NEW k \in DOMAIN s, Gives(s[k], f) PROVE \E l \in DOMAIN r : Gives(r[l], f)
    <2>1. k = 1 \/ (k - 1 \in DOMAIN t /\ t[k - 1] = s[k])
      BY <1>1, TailParts DEF t
    <2>2. CASE k = 1
      <3>1. f = "health"
        BY <1>1, <1>10, <2>2, TailParts DEF Gives
      <3>2. Gives(r[3], f) /\ 3 \in DOMAIN r
        BY <1>1, <1>4, <1>6, <3>1 DEF Gives
      <3>3. QED
        BY <3>2
    <2>3. CASE k - 1 \in DOMAIN t /\ t[k - 1] = s[k]
      <3>1. k + 2 \in DOMAIN r /\ r[k + 2] = t[k - 1]
        <4>1. k - 1 \in 1 .. Len(t) /\ k \in Nat
          BY <1>1, <2>3
        <4>2. k + 2 \in 1 .. 3 + Len(t) /\ ~(k + 2 <= 3) /\ (k + 2) - 3 = k - 1
          BY <1>1, <4>1
        <4>3. QED
          BY <1>4, <4>2
      <3>2. QED
        BY <1>10, <2>3, <3>1
    <2>4. QED
      BY <2>1, <2>2, <2>3
  <1>11. r # <<>> /\ Shaped(o, r) /\ o # "stopDelete"
    BY <1>1, <1>2, <1>4, <1>7, <1>8, <1>9 DEF Shaped, Deletions
  <1>12. QED
    BY <1>10, <1>11 DEF r, a, t

-----------------------------------------------------------------------------
(***************************************************************************)
(* What a step of the call does                                            *)
(***************************************************************************)
LEMMA Observed ==
  ASSUME NEW new, ~Idle, call' = call, Observe(new)
  PROVE  /\ did \subseteq did' /\ new \subseteq did' /\ Seen'
         /\ "astray" \in did' => "astray" \in did \/ "astray" \in new
  <1>1. did' = did \cup new \cup Facts'
    BY DEF Observe
  <1>2. Seen' /\ "astray" \notin Facts'
    BY <1>1 DEF Seen, Facts, NewType
  <1>3. QED
    BY <1>1, <1>2

LEMMA Advanced ==
  ASSUME ~Idle, todo \in Seq(Steps), Advance
  PROVE  /\ todo' = Tail(todo) /\ at' = "begin" /\ tries' = 0
         /\ todo' = <<>> => watch' = "off" /\ log' = <<>>
         /\ watch' \in {"off", watch} /\ log' \in {<<>>, log}
  <1>1. CASE Len(todo) = 1
    <2>1. Tail(todo) \in Seq(Steps) /\ Len(Tail(todo)) = 0
      BY <1>1, TailParts DEF Idle
    <2>2. Tail(todo) = <<>>
      BY <2>1, EmptySeq
    <2>3. QED
      BY <1>1, <2>2 DEF Advance, Return
  <1>2. CASE Len(todo) # 1
    <2>1. Tail(todo) \in Seq(Steps) /\ Len(Tail(todo)) # 0
      BY <1>2, TailParts DEF Idle
    <2>2. Tail(todo) # <<>>
      BY <2>1, EmptySeq
    <2>3. QED
      BY <1>2, <2>2 DEF Advance
  <1>3. QED
    BY <1>1, <1>2

\* A command goes to the call's own pod, unless a SetIns has failed.
LEMMA OwnTarget ==
  ASSUME Structured, Targeted, ~Idle, Head(todo) \in Commands, Set
  PROVE  target = call.ins
  BY LedTail DEF Structured, Shaped, Targeted, Idle

\* What a step of the call leaves true.
Keeps ==
  /\ ~Idle /\ call' = call /\ did \subseteq did'
  /\ call.op \notin Deletions /\ installed[call.ins] => installed'[call.ins]
  /\ call.op = "stopDelete" /\ engine[call.ins] = "down" => engine'[call.ins] = "down"
  /\ "astray" \in did' => "astray" \in did \/ "setFailed" \in did

Over == todo' = <<>> /\ at' = "begin" /\ watch' = "off" /\ log' = <<>>

\* A step goes on, is done, fails, starts an engine that was found stopped, or
\* finds the pod deleted already.
Stays == todo' = todo /\ target' = target
Moves ==
  /\ todo' = Tail(todo) /\ (todo' = <<>> => Over)
  /\ target' = target \/ Head(todo) = "set"
  /\ Head(todo) = "set" => target' = call.ins \/ "setFailed" \in did'
  /\ Set' => /\ \A f : Gives(Head(todo), f) => Has(f)'
             /\ Head(todo) = "stop" => engine'[call.ins] = "down"
  /\ Head(todo) = "waitGone" => ~installed'[call.ins]
Fails == Over /\ result' # "ok"
Recovers ==
  /\ Head(todo) = "healthShort" /\ todo' = <<"start">> \o WaitingForHealth \o Tail(todo)
  /\ target' = target
Skips == /\ Over /\ call.op \in {"stopDelete", "stopDeleteAny"}
         /\ "gone" \in did' \/ "terminating" \in did'

Proceeds == Keeps /\ (Stays \/ Moves \/ Fails \/ Recovers \/ Skips)

LEMMA SetInsProceeds ==
  ASSUME IndInv, SetIns
  PROVE  Proceeds
  <1>1. ~Idle /\ call' = call /\ Head(todo) = "set" /\ todo \in Seq(Steps) /\ Advance
    BY DEF IndInv, SetIns, Now, Step, Structured, Shaped
  <1>2. todo' = Tail(todo) /\ (todo' = <<>> => Over)
    BY <1>1, Advanced DEF Over
  <1>3. \A f : ~Gives(Head(todo), f)
    BY <1>1 DEF Gives
  <1>4. CASE SetTarget /\ Observe({})
    BY <1>1, <1>2, <1>3, <1>4, Observed DEF SetIns, SetTarget, podVars, Proceeds, Keeps, Moves
  <1>5. CASE Observe({"setFailed"}) /\ UNCHANGED target
    BY <1>1, <1>2, <1>3, <1>5, Observed DEF SetIns, podVars, Proceeds, Keeps, Moves
  <1>6. QED
    BY <1>4, <1>5 DEF SetIns

LEMMA MarkProceeds ==
  ASSUME IndInv, SetDbInsInstalled
  PROVE  Proceeds
  <1>1. ~Idle /\ call' = call /\ Head(todo) = "mark" /\ todo \in Seq(Steps) /\ Advance
    BY DEF IndInv, SetDbInsInstalled, Now, Step, Structured, Shaped
  <1>2. todo' = Tail(todo) /\ (todo' = <<>> => Over)
    BY <1>1, Advanced DEF Over
  <1>3. installed'[call.ins]
    BY DEF IndInv, TypeOK, SetDbInsInstalled
  <1>4. ASSUME NEW f, Gives(Head(todo), f) PROVE Has(f)'
    BY <1>1, <1>3, <1>4 DEF Gives, Has
  <1>5. QED
    BY <1>1, <1>2, <1>3, <1>4, Observed DEF SetDbInsInstalled, podVars, Proceeds, Keeps, Moves

LEMMA CreateProceeds ==
  ASSUME IndInv, CreatePod
  PROVE  Proceeds
  <1>1. ~Idle /\ call' = call /\ Head(todo) = "create" /\ todo \in Seq(Steps)
    BY DEF IndInv, CreatePod, Now, ApiStep, Step, Structured, Shaped
  <1>2. \A f : ~Gives(Head(todo), f)
    BY <1>1 DEF Gives
  <1>3. Keeps /\ target' = target
    BY <1>1, Observed DEF CreatePod, ApiStep, Keeps
  <1>4. CASE Advance
    BY <1>1, <1>2, <1>3, <1>4, Advanced DEF Proceeds, Moves, Over
  <1>5. CASE Return("error")
    BY <1>3, <1>5 DEF Proceeds, Fails, Over, Return
  <1>6. QED
    BY <1>4, <1>5 DEF CreatePod

LEMMA IsDeletedProceeds ==
  ASSUME IndInv, IsDeleted
  PROVE  Proceeds
  <1>1. ~Idle /\ call' = call /\ Head(todo) = "isDeleted" /\ todo \in Seq(Steps)
    BY DEF IndInv, IsDeleted, Now, ApiStep, Step, Structured, Shaped
  <1>2. \A f : ~Gives(Head(todo), f)
    BY <1>1 DEF Gives
  <1>3. Keeps /\ target' = target /\ Seen'
    BY <1>1, Observed DEF IsDeleted, ApiStep, Keeps
  <1>4. CASE Advance
    BY <1>1, <1>2, <1>3, <1>4, Advanced DEF Proceeds, Moves, Over
  <1>5. CASE (~pod[call.ins].there \/ pod[call.ins].deleting) /\ Return("ok")
    <2>1. "gone" \in did' \/ "terminating" \in did'
      BY <1>1, <1>3, <1>5 DEF IsDeleted, Seen
    <2>2. call.op \in {"stopDelete", "stopDeleteAny"}
      BY <1>1, ShapedTail DEF IndInv, Structured, Idle, Belongs
    <2>3. QED
      BY <1>3, <1>5, <2>1, <2>2 DEF Proceeds, Skips, Over, Return
  <1>6. CASE Return("error")
    BY <1>3, <1>6 DEF Proceeds, Fails, Over, Return
  <1>7. QED
    BY <1>4, <1>5, <1>6 DEF IsDeleted

LEMMA DeleteProceeds ==
  ASSUME IndInv, DeletePod
  PROVE  Proceeds
  <1>1. ~Idle /\ call' = call /\ Head(todo) = "delete" /\ todo \in Seq(Steps)
    BY DEF IndInv, DeletePod, Now, ApiStep, Step, Structured, Shaped
  <1>2. \A f : ~Gives(Head(todo), f)
    BY <1>1 DEF Gives
  <1>3. Keeps /\ target' = target
    BY <1>1, Observed DEF DeletePod, ApiStep, Keeps
  <1>4. CASE Advance
    BY <1>1, <1>2, <1>3, <1>4, Advanced DEF Proceeds, Moves, Over
  <1>5. CASE Return("error")
    BY <1>3, <1>5 DEF Proceeds, Fails, Over, Return
  <1>6. QED
    BY <1>4, <1>5 DEF DeletePod

LEMMA GetProceeds ==
  ASSUME IndInv, GetPod
  PROVE  Proceeds
  <1>1. /\ ~Idle /\ call' = call /\ Head(todo) = "get" /\ todo \in Seq(Steps)
        /\ Shaped(call.op, todo)
    BY DEF IndInv, GetPod, Now, ApiStep, Step, Structured, Shaped
  <1>2. \A f : ~Gives(Head(todo), f)
    BY <1>1 DEF Gives
  <1>3. Keeps /\ target' = target
    BY <1>1, Observed DEF GetPod, ApiStep, Keeps
  <1>4. CASE todo' = Tail(todo)
    <2>1. Len(todo) # 1
      BY <1>1 DEF Shaped, Idle
    <2>4. Tail(todo) \in Seq(Steps) /\ Len(Tail(todo)) # 0
      BY <1>1, <2>1, TailParts DEF Idle
    <2>2. Tail(todo) # <<>>
      BY <2>4, EmptySeq
    <2>3. QED
      BY <1>1, <1>2, <1>3, <1>4, <2>2 DEF Proceeds, Moves
  <1>5. CASE Return("error")
    BY <1>3, <1>5 DEF Proceeds, Fails, Over, Return
  <1>6. QED
    BY <1>4, <1>5 DEF GetPod

LEMMA LabelProceeds ==
  ASSUME IndInv, EnsureInsTypeMeta
  PROVE  Proceeds
  <1>1. ~Idle /\ call' = call /\ Head(todo) = "label" /\ todo \in Seq(Steps)
    BY DEF IndInv, EnsureInsTypeMeta, Now, ApiStep, Step, Structured, Shaped
  <1>2. Keeps /\ target' = target /\ Seen'
    BY <1>1, Observed DEF EnsureInsTypeMeta, ApiStep, Keeps
  <1>3. CASE Advance /\ "relabelled" \in did'
    <2>1. ASSUME NEW f, Gives(Head(todo), f) PROVE Has(f)'
      BY <1>1, <1>3, <2>1 DEF Gives, Has
    <2>2. QED
      BY <1>1, <1>2, <1>3, <2>1, Advanced DEF Proceeds, Moves, Over
  <1>4. CASE Return("error")
    BY <1>2, <1>4 DEF Proceeds, Fails, Over, Return
  <1>5. CASE Goto("write")
    BY <1>2, <1>5 DEF Proceeds, Stays, Goto
  <1>6. CASE /\ pod[call.ins].there /\ pod[call.ins].type = NewType /\ Advance
             /\ UNCHANGED pod
    BY <1>1, <1>2, <1>3, <1>6 DEF Seen
  <1>7. CASE /\ at = "write" /\ log = <<>> /\ Advance
             /\ pod' = [pod EXCEPT ![call.ins].type = NewType]
    <2>1. pod \in [Instances -> Pods] /\ call.ins \in Instances /\ pod[call.ins].there
      BY <1>1, <1>7 DEF IndInv, TypeOK, Current, Now
    <2>2. pod'[call.ins].there /\ pod'[call.ins].type = NewType
      BY <1>7, <2>1 DEF Pods
    <2>3. QED
      BY <1>1, <1>2, <1>3, <1>7, <2>2 DEF Seen
  <1>8. QED
    BY <1>4, <1>5, <1>6, <1>7 DEF EnsureInsTypeMeta

LEMMA WaitGoneProceeds ==
  ASSUME IndInv, WaitForPodDeleted
  PROVE  Proceeds
  <1>1. /\ ~Idle /\ call' = call /\ Head(todo) = "waitGone" /\ todo \in Seq(Steps)
        /\ call.op \in Deletions
    BY ShapedTail
       DEF IndInv, WaitForPodDeleted, Now, ApiStep, WaitStep, Step, Structured, Shaped, Idle,
           Belongs
  <1>2. Keeps /\ target' = target /\ Seen' /\ pod' = pod
    BY <1>1, Observed DEF WaitForPodDeleted, ApiStep, WaitStep, Keeps
  <1>3. CASE Gone /\ "gone" \in did'
    <2>1. ASSUME NEW f, Gives(Head(todo), f) PROVE Has(f)'
      BY <1>1, <1>3, <2>1 DEF Gives, Has
    <2>2. ~installed'[call.ins]
      BY <1>3 DEF IndInv, TypeOK, Gone
    <2>3. QED
      BY <1>1, <1>2, <1>3, <2>1, <2>2, Advanced DEF Proceeds, Moves, Over, Gone
  <1>4. CASE \E r \in {"error", "cancelled"} : Return(r)
    BY <1>2, <1>4 DEF Proceeds, Fails, Over, Return
  <1>5. CASE todo' = todo
    BY <1>2, <1>5 DEF Proceeds, Stays
  <1>6. CASE ~pod[call.ins].there /\ Gone
    BY <1>1, <1>2, <1>3, <1>6 DEF Seen
  <1>7. CASE log # <<>> /\ Head(log).kind = "DELETED" /\ Gone
    <2>1. 1 \in DOMAIN log /\ Head(log) = log[1]
      BY <1>7, TailParts DEF IndInv, TypeOK
    <2>2. "gone" \in did
      BY <1>1, <1>7, <2>1 DEF IndInv, Noted, Told, Deletions, Restarts
    <2>3. QED
      BY <1>2, <1>3, <1>7, <2>2 DEF Keeps
  <1>8. CASE OpenWatch
    BY <1>4, <1>5, <1>8 DEF OpenWatch, Goto
  <1>9. CASE Cancelled
    BY <1>4, <1>9 DEF Cancelled
  <1>10. QED
    BY <1>4, <1>5, <1>6, <1>7, <1>8, <1>9 DEF WaitForPodDeleted, Goto

LEMMA WaitReadyProceeds ==
  ASSUME IndInv, WaitForPodReady
  PROVE  Proceeds
  <1>1. /\ ~Idle /\ call' = call /\ Head(todo) \in {"waitReady", "waitNew"} /\ todo \in Seq(Steps)
        /\ Belongs(Head(todo), call.op)
    BY ShapedTail
       DEF IndInv, WaitForPodReady, Now, ApiStep, WaitStep, Step, Structured, Shaped, Idle
  <1>2. Keeps /\ target' = target
    BY <1>1, Observed DEF WaitForPodReady, ApiStep, WaitStep, Keeps
  <1>3. CASE at = "settle" /\ Advance
    <2>1. Head(todo) = "waitNew" => WasShown(did')
      BY <1>1, <1>2, <1>3 DEF IndInv, Noted, WasShown, Belongs, Restarts, Keeps
    <2>2. ASSUME NEW f, Gives(Head(todo), f) PROVE Has(f)'
      BY <1>1, <2>1, <2>2 DEF Gives, Has
    <2>3. QED
      BY <1>1, <1>2, <1>3, <2>2, Advanced DEF Proceeds, Moves, Over
  <1>4. CASE \E r \in {"error", "cancelled", "podLost", "unscheduled", "startFailed"} : Return(r)
    BY <1>2, <1>4 DEF Proceeds, Fails, Over, Return
  <1>5. CASE todo' = todo
    BY <1>2, <1>5 DEF Proceeds, Stays
  <1>6. CASE OpenWatch
    BY <1>4, <1>5, <1>6 DEF OpenWatch, Goto
  <1>7. CASE Cancelled
    BY <1>4, <1>7 DEF Cancelled
  <1>8. QED
    BY <1>3, <1>4, <1>5, <1>6, <1>7 DEF WaitForPodReady, Goto

LEMMA FailedProceeds ==
  ASSUME NEW r, r # "ok", Keeps, target' = target, todo \in Seq(Steps), Failed(r)
  PROVE  Proceeds
  <1>1. CASE Now("healthShort")
    BY <1>1 DEF Failed, Now, Proceeds, Recovers
  <1>2. CASE Now("stopAny") /\ Advance
    <2>1. \A f : ~Gives(Head(todo), f)
      BY <1>2 DEF Gives, Now
    <2>2. QED
      BY <1>2, <2>1, Advanced DEF Proceeds, Moves, Over, Now
  <1>3. CASE Return(r)
    BY <1>3 DEF Proceeds, Fails, Over, Return
  <1>4. QED
    BY <1>1, <1>2, <1>3 DEF Failed, Now

LEMMA BadProceeds ==
  ASSUME Keeps, target' = target, todo \in Seq(Steps), Bad
  PROVE  Proceeds
  <1>1. CASE todo' = todo
    BY <1>1 DEF Proceeds, Stays
  <1>2. CASE Failed("error")
    BY <1>2, FailedProceeds
  <1>3. QED
    BY <1>1, <1>2 DEF Bad

LEMMA PollProceeds ==
  ASSUME IndInv, Poll
  PROVE  Proceeds
  <1>1. ~Idle /\ call' = call /\ todo \in Seq(Steps)
    BY DEF IndInv, Poll, CommandStep, Step, Structured, Shaped
  <1>2. Keeps /\ target' = target
    BY <1>1, Observed DEF Poll, CommandStep, Untouched, Keeps
  <1>3. CASE Goto("exec")
    BY <1>2, <1>3 DEF Proceeds, Stays, Goto
  <1>4. CASE Failed("timeout") \/ Failed("cancelled")
    BY <1>1, <1>2, <1>4, FailedProceeds
  <1>5. QED
    BY <1>3, <1>4 DEF Poll

\* A command that was carried out in the call's own pod has done its work.
LEMMA ExecProceeds ==
  ASSUME IndInv, ExecCmdInPod
  PROVE  Proceeds
  <1> DEFINE h == Head(todo)
             c == CommandOf(h)
  <1>1. /\ ~Idle /\ call' = call /\ todo \in Seq(Steps) /\ target' = target
        /\ pod' = pod /\ installed' = installed /\ h \in Commands
    BY DEF IndInv, ExecCmdInPod, CommandStep, Step, Structured, Shaped, Commands
  <1>2. Belongs(h, call.op)
    BY <1>1, ShapedTail DEF IndInv, Structured, Idle
  <1>3. Set => target = call.ins
    BY <1>1, OwnTarget DEF IndInv
  <1>4. CASE Untouched /\ Observe({}) /\ (Bad \/ Later)
    <2>1. Keeps
      BY <1>1, <1>4, Observed DEF Untouched, Keeps
    <2>2. CASE Bad
      BY <1>1, <2>1, <2>2, BadProceeds
    <2>3. CASE Later
      BY <1>1, <2>1, <2>3 DEF Later, Proceeds, Stays
    <2>4. QED
      BY <1>4, <2>2, <2>3
  <1>5. CASE /\ Reachable /\ Succeeds(c) /\ Carried(c, target) /\ (Good(c) \/ Bad)
             /\ Observe(IF target = call.ins THEN {c} ELSE {"astray"})
    <2>1. engine \in [Instances -> {"down", "starting", "up"}] /\ target \in Instances
      BY <1>5 DEF IndInv, TypeOK, Reachable
    <2>2. c = "start" => call.op # "stopDelete"
      BY <1>2 DEF CommandOf, Belongs
    <2>3. call.op = "stopDelete" /\ engine[call.ins] = "down" => engine'[call.ins] = "down"
      BY <1>5, <2>1, <2>2 DEF Carried, IndInv, TypeOK
    <2>4. /\ did \subseteq did' /\ Seen' /\ (target = call.ins => c \in did')
          /\ "astray" \in did' => "astray" \in did \/ target # call.ins
      BY <1>1, <1>5, Observed DEF CommandOf, Commands, Polled, Plain
    <2>5. Keeps
      BY <1>1, <1>3, <2>3, <2>4 DEF Keeps, Set
    <2>6. CASE Bad
      BY <1>1, <2>5, <2>6, BadProceeds
    <2>7. CASE Good(c) /\ StillRunning(c)
      BY <1>1, <2>5, <2>7 DEF Good, Proceeds, Stays
    <2>8. CASE Advance /\ ~StillRunning(c)
      <3>1. ASSUME Set' PROVE target = call.ins /\ c \in did'
        BY <1>3, <2>4, <3>1 DEF Set
      <3>2. Set' /\ h = "stop" => engine'[call.ins] = "down"
        BY <1>5, <2>1, <3>1 DEF Carried, CommandOf
      <3>3. Set' /\ h = "progress" => "copied" \in did'
        BY <1>1, <1>5, <2>4, <2>8, <3>1 DEF Carried, CommandOf, Succeeds, StillRunning, Seen
      <3>4. Set' /\ h = "health" => "up" \in did'
        <4>1. ASSUME Set', h = "health" PROVE engine'[call.ins] = "up"
          BY <1>5, <2>1, <2>8, <3>1, <4>1 DEF Carried, CommandOf, Succeeds, StillRunning
        <4>2. QED
          BY <1>1, <2>4, <4>1 DEF Seen
      <3>5. ASSUME Set', NEW f, Gives(h, f) PROVE Has(f)'
        BY <1>1, <3>1, <3>3, <3>4, <3>5 DEF Gives, Has, CommandOf, Commands, Polled, Plain
      <3>6. h # "set" /\ h # "waitGone"
        BY <1>1 DEF Commands, Polled, Plain
      <3>7. QED
        BY <1>1, <2>5, <2>8, <3>2, <3>5, <3>6, Advanced DEF Proceeds, Moves, Over
    <2>9. QED
      BY <1>5, <2>6, <2>7, <2>8 DEF Good
  <1>6. QED
    BY <1>4, <1>5 DEF ExecCmdInPod

LEMMA Proceeding ==
  ASSUME IndInv, Proceed
  PROVE  Proceeds
  BY SetInsProceeds, MarkProceeds, CreateProceeds, IsDeletedProceeds, DeleteProceeds,
     GetProceeds, LabelProceeds, WaitGoneProceeds, WaitReadyProceeds, PollProceeds, ExecProceeds
     DEF Proceed

-----------------------------------------------------------------------------
(***************************************************************************)
(* What any step does                                                      *)
(***************************************************************************)
Begins == \E i \in Instances : \E o \in Ops[i] : Call(i, o)
Rests == Idle /\ UNCHANGED <<installed, target, call, todo, at, watch, log, result, did>>

LEMMA EnvironmentKeeps ==
  ASSUME IndInv, NEW i \in Instances, Environment(i)
  PROVE  Proceeds \/ Rests
  <1>1. call' = call /\ todo' = todo /\ target' = target /\ installed' = installed /\ Observe({})
    BY DEF Environment, EnvStep
  <1>2. CASE Idle
    <2>1. did' = did /\ watch = "off"
      BY <1>1, <1>2 DEF Observe, IndInv, Structured
    <2>2. log' = log /\ watch' = watch
      BY <2>1
         DEF Environment, Bind, Refuse, Refresh, Report, BoxUp, BoxEnds, Remove, EngineUp,
             Copied, Churn, Emit
    <2>3. QED
      BY <1>1, <1>2, <2>1, <2>2 DEF Rests, Environment, EnvStep
  <1>3. CASE ~Idle
    <2>1. engine[call.ins] = "down" => engine'[call.ins] = "down"
      BY DEF Environment, Bind, Refuse, Refresh, Report, BoxUp, BoxEnds, Remove, EngineUp,
             Copied, Churn, IndInv, TypeOK
    <2>2. Keeps
      BY <1>1, <1>3, <2>1, Observed DEF Keeps
    <2>3. QED
      BY <1>1, <2>2 DEF Proceeds, Stays
  <1>4. QED
    BY <1>2, <1>3

LEMMA StepKinds ==
  ASSUME IndInv, [Next]_vars
  PROVE  Begins \/ Proceeds \/ Rests
  <1>1. CASE Proceed
    BY <1>1, Proceeding
  <1>2. ASSUME NEW i \in Instances, Environment(i) PROVE Proceeds \/ Rests
    BY <1>2, EnvironmentKeeps
  <1>3. CASE CloseWatch
    <2>1. ~Idle /\ call' = call
      BY <1>3 DEF CloseWatch, EnvStep, IndInv, Structured
    <2>2. QED
      BY <1>3, <2>1, Observed DEF CloseWatch, EnvStep, podVars, Proceeds, Keeps, Stays
  <1>4. CASE BreakWatch
    <2>1. ~Idle /\ call' = call
      BY <1>4 DEF BreakWatch, IndInv, Structured
    <2>2. QED
      BY <1>4, <2>1, Observed DEF BreakWatch, podVars, Proceeds, Keeps, Stays
  <1>5. CASE Cancel
    BY <1>5 DEF Cancel, podVars, stepVars, Proceeds, Keeps, Stays
  <1>6. CASE Crash
    BY <1>6 DEF Crash, Return, podVars, Proceeds, Keeps, Fails, Over
  <1>7. CASE UNCHANGED vars
    BY <1>7 DEF vars, podVars, stepVars, Proceeds, Keeps, Stays, Rests
  <1>8. QED
    BY <1>1, <1>2, <1>3, <1>4, <1>5, <1>6, <1>7 DEF Next, Begins

\* A call begins with the steps of its operation.
LEMMA Beginning ==
  ASSUME IndInv, Begins
  PROVE  /\ Idle /\ at' = "begin" /\ watch' = "off" /\ log' = <<>> /\ target' = target
         /\ call' \in [op : AllOps, ins : Instances] /\ installed' = installed
         /\ "astray" \notin did' /\ (result' = "ok" => Idle')
         /\ Shaped(call'.op, todo') /\ Led(todo')
         /\ todo' = <<>> => call'.op \in {"create", "install"} /\ installed[call'.ins]
         /\ todo' # <<>> => \A f \in Promises :
                              Needs(call'.op, f) => \E k \in DOMAIN todo' : Gives(todo'[k], f)
         /\ call'.op = "stopDelete" => \E k \in DOMAIN todo' : todo'[k] = "stop"
  <1>0. PICK i \in Instances : \E o \in Ops[i] : Call(i, o)
    BY DEF Begins
  <1>1. PICK o \in Ops[i] : Call(i, o)
    BY <1>0
  <1>2. o \in AllOps
    BY ConstantsAssumption DEF ConstantsAssumption
  <1>3. call' = [op |-> o, ins |-> i] /\ todo' = Program(o, i) /\ did' = Facts'
    BY <1>1 DEF Call
  <1>4. "astray" \notin did'
    BY <1>3 DEF Facts
  <1>5. /\ Shaped(o, todo') /\ Led(todo')
        /\ todo' = <<>> => o \in {"create", "install"} /\ installed[i]
        /\ todo' # <<>> => \A f \in Promises :
                             Needs(o, f) => \E k \in DOMAIN todo' : Gives(todo'[k], f)
        /\ o = "stopDelete" => \E k \in DOMAIN todo' : todo'[k] = "stop"
    BY <1>2, <1>3, Begun
  <1>6. /\ Idle /\ at' = "begin" /\ watch' = "off" /\ log' = <<>> /\ target' = target
        /\ installed' = installed /\ (result' = "ok" => Idle')
    BY <1>1 DEF Call, IndInv, Structured, Idle
  <1>7. QED
    BY <1>2, <1>3, <1>4, <1>5, <1>6

LEMMA StructuredStep ==
  ASSUME IndInv, Begins \/ Proceeds \/ Rests
  PROVE  Structured'
  <1>1. CASE Begins
    BY <1>1, Beginning DEF Structured
  <1>2. CASE Proceeds
    <2>1. ~Idle /\ call' = call /\ Shaped(call.op, todo) /\ call.op \in AllOps
      BY <1>2 DEF Proceeds, Keeps, IndInv, Structured, TypeOK
    <2>2. CASE Stays
      BY <2>1, <2>2 DEF Stays, Structured, Idle
    <2>3. CASE Moves
      BY <2>1, <2>3, ShapedTail DEF Moves, Structured, Idle, Over
    <2>4. CASE Over
      <3>1. Shaped(call.op, <<>>)
        <4>1. <<>> \in Seq(Steps) /\ DOMAIN <<>> = {}
          OBVIOUS
        <4>2. QED
          BY <4>1 DEF Shaped
      <3>2. QED
        BY <2>1, <2>4, <3>1 DEF Over, Structured, Idle
    <2>5. CASE Recovers
      BY <2>1, <2>5, Recovered DEF Recovers, Structured, Idle
    <2>6. QED
      BY <1>2, <2>2, <2>3, <2>4, <2>5 DEF Proceeds, Fails, Skips
  <1>3. CASE Rests
    BY <1>3 DEF Rests, IndInv, Structured, Idle
  <1>4. QED
    BY <1>1, <1>2, <1>3

LEMMA TargetedStep ==
  ASSUME IndInv, Begins \/ Proceeds \/ Rests
  PROVE  Targeted'
  <1>1. CASE Begins
    BY <1>1, Beginning DEF Targeted
  <1>2. CASE Proceeds
    <2>1. ~Idle /\ call' = call /\ todo \in Seq(Steps) /\ (Set' => Set)
      BY <1>2 DEF Proceeds, Keeps, IndInv, Structured, Shaped, Set
    <2>2. CASE Stays
      BY <2>1, <2>2 DEF Stays, IndInv, Targeted
    <2>3. CASE Moves
      <3>1. CASE Head(todo) = "set"
        BY <2>1, <2>3, <3>1 DEF Moves, Targeted, Set
      <3>2. CASE Head(todo) # "set"
        BY <2>1, <2>3, <3>2, LedTail DEF Moves, IndInv, Targeted, Idle
      <3>3. QED
        BY <3>1, <3>2
    <2>4. CASE Over
      <3>1. Led(<<>>)
        BY DEF Led
      <3>2. QED
        BY <2>4, <3>1 DEF Over, Targeted
    <2>5. CASE Recovers
      <3>1. Head(todo) \in Commands
        BY <2>5 DEF Recovers, Commands, Polled
      <3>2. QED
        BY <2>1, <2>5, <3>1, OwnTarget DEF Recovers, Targeted, IndInv
    <2>6. QED
      BY <1>2, <2>2, <2>3, <2>4, <2>5 DEF Proceeds, Fails, Skips
  <1>3. CASE Rests
    BY <1>3 DEF Rests, IndInv, Targeted, Set
  <1>4. QED
    BY <1>1, <1>2, <1>3

LEMMA AstrayStep ==
  ASSUME IndInv, Begins \/ Proceeds \/ Rests
  PROVE  CommandsGoToOwnPod'
  <1>1. CASE Begins
    BY <1>1, Beginning DEF CommandsGoToOwnPod
  <1>2. CASE Proceeds
    BY <1>2 DEF Proceeds, Keeps, IndInv, CommandsGoToOwnPod
  <1>3. CASE Rests
    BY <1>3 DEF Rests, IndInv, CommandsGoToOwnPod
  <1>4. QED
    BY <1>1, <1>2, <1>3

\* What has been brought about stays so for the call that needs it.
LEMMA HasStays ==
  ASSUME NEW f, Keeps, Needs(call.op, f), Has(f)
  PROVE  Has(f)'
  BY DEF Keeps, Has, WasShown, Needs, Deletions

\* A step that is done has brought about what it gives; the rest is left.
LEMMA Left ==
  ASSUME IndInv, Keeps, Moves, Set', NEW f \in Promises, Needs(call.op, f)
  PROVE  Has(f)' \/ \E k \in DOMAIN todo' : Gives(todo'[k], f)
  <1>1. todo \in Seq(Steps) /\ todo # <<>> /\ todo' = Tail(todo) /\ Set
    BY DEF Keeps, IndInv, Structured, Shaped, Idle, Moves, Set
  <1>2. CASE Has(f)
    BY <1>2, HasStays
  <1>3. ASSUME NEW k \in DOMAIN todo, Gives(todo[k], f)
        PROVE  Has(f)' \/ \E l \in DOMAIN todo' : Gives(todo'[l], f)
    <2>1. k = 1 \/ (k - 1 \in DOMAIN todo' /\ todo'[k - 1] = todo[k])
      BY <1>1, TailParts
    <2>2. k = 1 => Head(todo) = todo[k]
      BY <1>1, TailParts
    <2>3. QED
      BY <1>3, <2>1, <2>2 DEF Moves
  <1>4. QED
    BY <1>1, <1>2, <1>3 DEF IndInv, Pending, Idle

LEMMA PendingStep ==
  ASSUME IndInv, Begins \/ Proceeds \/ Rests
  PROVE  Pending'
  <1>1. CASE Begins
    BY <1>1, Beginning DEF Pending, Idle
  <1>2. CASE Proceeds
    <2>1. Keeps /\ ~Idle /\ call' = call /\ (Set' => Set)
      BY <1>2 DEF Proceeds, Keeps, Set
    <2>2. CASE Stays
      BY <2>1, <2>2, HasStays DEF Stays, IndInv, Pending
    <2>3. CASE Moves
      BY <2>1, <2>3, Left DEF Pending
    <2>4. CASE Over
      BY <2>4 DEF Over, Pending, Idle
    <2>5. CASE Recovers
      <3>1. Shaped(call.op, todo) /\ call.op \in AllOps /\ todo # <<>>
        BY <2>1 DEF IndInv, Structured, TypeOK, Idle
      <3>2. \A f : (\E k \in DOMAIN todo : Gives(todo[k], f))
                     => \E k \in DOMAIN todo' : Gives(todo'[k], f)
        BY <2>5, <3>1, Recovered DEF Recovers
      <3>3. QED
        BY <2>1, <3>2, HasStays DEF IndInv, Pending
    <2>6. QED
      BY <1>2, <2>2, <2>3, <2>4, <2>5 DEF Proceeds, Fails, Skips
  <1>3. CASE Rests
    BY <1>3 DEF Rests, Pending, Idle
  <1>4. QED
    BY <1>1, <1>2, <1>3

LEMMA StopFirstStep ==
  ASSUME IndInv, Begins \/ Proceeds \/ Rests
  PROVE  StopFirst'
  <1>1. CASE Begins
    BY <1>1, Beginning DEF StopFirst
  <1>2. CASE Proceeds
    <2>1. /\ Keeps /\ ~Idle /\ call' = call /\ (Set' => Set) /\ Shaped(call.op, todo)
          /\ todo \in Seq(Steps) /\ todo # <<>>
      BY <1>2 DEF Proceeds, Keeps, Set, IndInv, Structured, Shaped, Idle
    <2>2. CASE Stays
      BY <2>1, <2>2 DEF Stays, Keeps, IndInv, StopFirst
    <2>3. CASE Moves
      <3>1. ASSUME Set', call.op = "stopDelete", NEW k \in DOMAIN todo, todo[k] = "stop"
            PROVE  engine'[call.ins] = "down" \/ \E l \in DOMAIN todo' : todo'[l] = "stop"
        <4>1. k = 1 \/ (k - 1 \in DOMAIN todo' /\ todo'[k - 1] = todo[k])
          BY <2>1, <2>3, TailParts DEF Moves
        <4>2. k = 1 => Head(todo) = todo[k]
          BY <2>1, TailParts
        <4>3. QED
          BY <2>3, <3>1, <4>1, <4>2 DEF Moves
      <3>2. QED
        BY <2>1, <2>3, <3>1 DEF Keeps, IndInv, StopFirst
    <2>4. CASE Over
      BY <2>4 DEF Over, StopFirst, Idle
    <2>5. CASE Recovers
      <3>1. call.op # "stopDelete"
        BY <2>1, <2>5, ShapedTail DEF Recovers, Belongs
      <3>2. QED
        BY <2>1, <3>1 DEF StopFirst
    <2>6. QED
      BY <1>2, <2>2, <2>3, <2>4, <2>5 DEF Proceeds, Fails, Skips
  <1>3. CASE Rests
    BY <1>3 DEF Rests, StopFirst, Idle
  <1>4. QED
    BY <1>1, <1>2, <1>3

\* Nothing is left of a call that returned nil: all it needs has happened.
LEMMA OkStep ==
  ASSUME IndInv, Begins \/ Proceeds \/ Rests
  PROVE  OkMeansDone'
  <1>1. CASE Begins
    BY <1>1, Beginning DEF OkMeansDone, Kept, Idle
  <1>2. CASE Proceeds
    <2>1. Keeps /\ ~Idle /\ call' = call /\ call.op \in AllOps
      BY <1>2 DEF Proceeds, Keeps, IndInv, TypeOK
    <2>2. CASE Stays
      BY <2>1, <2>2 DEF Stays, OkMeansDone, Idle
    <2>3. ASSUME Moves, todo' = <<>>, Set' PROVE Kept'
      <3>1. \A f \in Promises : Needs(call.op, f) => Has(f)'
        <4>1. DOMAIN todo' = {}
          BY <2>3
        <4>2. QED
          BY <2>1, <2>3, <4>1, Left
      <3>2. ASSUME call.op = "delete" PROVE ~installed'[call.ins]
        <4>1. Shaped(call.op, todo) /\ todo \in Seq(Steps) /\ todo # <<>>
          BY <2>1 DEF IndInv, Structured, Shaped, Idle
        <4>2. Len(todo) = 1 /\ Head(todo) = todo[1]
          <5>1. Tail(todo) = <<>> /\ Tail(todo) \in Seq(Steps) /\ Len(todo) - 1 = Len(Tail(todo))
            BY <2>3, <4>1, TailParts DEF Moves
          <5>2. Len(Tail(todo)) = 0
            BY <5>1, EmptySeq
          <5>3. QED
            BY <4>1, <5>1, <5>2, TailParts
        <4>3. Head(todo) = "waitGone"
          BY <3>2, <4>1, <4>2 DEF Shaped, Deletions
        <4>4. QED
          BY <2>3, <4>3 DEF Moves
      <3>3. CASE call.op \in {"create", "delete", "stopDelete", "stopDeleteAny", "markInstalled"}
        BY <2>1, <3>1, <3>2, <3>3 DEF Kept, Needs, Has, WasShown, Promises, Deletions
      <3>4. CASE call.op \in {"install", "waitInstall", "health", "label", "stop", "start", "grow"}
        BY <2>1, <3>1, <3>4 DEF Kept, Needs, Has, Promises
      <3>5. CASE call.op \in {"flush", "flushRestart", "restart"}
        BY <2>1, <3>1, <3>5 DEF Kept, Needs, Has, Promises, Restarts
      <3>6. QED
        BY <2>1, <3>3, <3>4, <3>5 DEF AllOps
    <2>4. CASE Fails
      BY <2>4 DEF Fails, OkMeansDone
    <2>5. CASE Skips
      BY <2>1, <2>5 DEF Skips, OkMeansDone, Kept
    <2>6. CASE Recovers
      <3>1. todo' # <<>>
        BY <2>1, <2>6, Recovered DEF Recovers, IndInv, Structured, Idle
      <3>2. QED
        BY <3>1 DEF OkMeansDone, Idle
    <2>7. CASE Moves
      BY <2>1, <2>3, <2>7 DEF OkMeansDone, Idle, Set
    <2>8. QED
      BY <1>2, <2>2, <2>4, <2>5, <2>6, <2>7 DEF Proceeds
  <1>3. CASE Rests
    BY <1>3 DEF Rests, IndInv, OkMeansDone, Kept
  <1>4. QED
    BY <1>1, <1>2, <1>3

-----------------------------------------------------------------------------
(***************************************************************************)
(* The watch, the label and the polls                                      *)
(***************************************************************************)
LogKept ==
  /\ \/ log' \in {<<>>, log}
     \/ log # <<>> /\ log' = Tail(log)
     \/ \E e \in Events : log' \in {<<e>>, Append(log, e)} /\ Told(e, did')
  /\ at' = "settle" => at = "settle" \/ WasShown(did')

LEMMA LogNoted ==
  ASSUME IndInv, Keeps, LogKept \/ Idle' \/ call.op \in Restarts
  PROVE  Noted'
  <1> SUFFICES ASSUME ~Idle', call.op \notin Restarts
               PROVE  (\A k \in DOMAIN log' : Told(log'[k], did')) /\ (at' = "settle" => WasShown(did'))
    BY DEF Noted, Keeps
  <1>1. /\ ~Idle /\ did \subseteq did' /\ log \in Seq(Events) /\ LogKept
        /\ \A k \in DOMAIN log : Told(log[k], did)
        /\ at = "settle" => WasShown(did)
    BY DEF Keeps, IndInv, Noted, TypeOK
  <1>2. \A e : Told(e, did) => Told(e, did')
    BY <1>1 DEF Told, WasShown
  <1>3. at' = "settle" => WasShown(did')
    BY <1>1 DEF LogKept, WasShown
  <1>4. ASSUME log' \in {<<>>, log}, NEW k \in DOMAIN log' PROVE Told(log'[k], did')
    <2>1. log' = log
      BY <1>4
    <2>2. QED
      BY <1>1, <1>2, <1>4, <2>1
  <1>5. ASSUME log # <<>>, log' = Tail(log), NEW k \in DOMAIN log' PROVE Told(log'[k], did')
    <2>1. k + 1 \in DOMAIN log /\ log'[k] = log[k + 1]
      BY <1>1, <1>5, TailParts
    <2>2. QED
      BY <1>1, <1>2, <2>1
  <1>6. ASSUME NEW e \in Events, Told(e, did'), log' \in {<<e>>, Append(log, e)}
        PROVE  \A k \in DOMAIN log' : Told(log'[k], did')
    <2>1. \A k \in DOMAIN log' : log'[k] = e \/ (k \in DOMAIN log /\ log'[k] = log[k])
      BY <1>1, <1>6
    <2>2. QED
      BY <1>1, <1>2, <1>6, <2>1
  <1>7. QED
    BY <1>1, <1>3, <1>4, <1>5, <1>6 DEF LogKept

-----------------------------------------------------------------------------
(***************************************************************************)
(* Types                                                                   *)
(***************************************************************************)
PodsOK ==
  /\ pod \in [Instances -> Pods]
  /\ box \in [Instances -> {"none", "up", "dying"}]
  /\ engine \in [Instances -> {"down", "starting", "up"}]
  /\ data \in [Instances -> {"none", "running", "done", "failed"}]
CountersOK == nCalls \in 0..MaxCalls /\ nFaults \in 0..MaxFaults /\ nChurn \in 0..MaxChurn
CallOK ==
  /\ installed \in [Instances -> BOOLEAN]
  /\ target \in Instances \cup {NoIns}
  /\ call \in [op : AllOps, ins : Instances]
  /\ cancelled \in BOOLEAN
PlaceOK ==
  /\ at \in {"begin", "write", "list", "watch", "settle", "exec", "again", "last"}
  /\ tries \in 0..MaxTries \cup 0..MaxPolls
WatchOK == watch \in {"off", "on", "closed"} /\ log \in Seq(Events)

LEMMA PodsEdited ==
  /\ NoPod \in Pods /\ NewPod \in Pods
  /\ \A p \in Pods : [p EXCEPT !.deleting = TRUE] \in Pods /\ [p EXCEPT !.type = NewType] \in Pods
  /\ \A p \in Pods : \A s \in Shown : [p EXCEPT !.shows = s] \in Pods
  BY DEF NoPod, NewPod, Pods, NewType, Types, Shown

LEMMA TypeParts ==
  TypeOK <=> PodsOK /\ CountersOK /\ CallOK /\ PlaceOK /\ WatchOK
  BY DEF TypeOK, PodsOK, CountersOK, CallOK, PlaceOK, WatchOK

LEMMA TypePartsNext ==
  TypeOK' <=> PodsOK' /\ CountersOK' /\ CallOK' /\ PlaceOK' /\ WatchOK'
  BY DEF TypeOK, PodsOK, CountersOK, CallOK, PlaceOK, WatchOK

LEMMA PodsStep ==
  ASSUME IndInv, [Next]_vars
  PROVE  PodsOK'
  <1>1. ASSUME NEW i \in Instances, NEW o \in Ops[i], Call(i, o) PROVE PodsOK'
    BY <1>1 DEF Call, PodsOK, podVars, IndInv, TypeOK
  <1>2. ASSUME SetIns PROVE PodsOK'
    BY <1>2 DEF SetIns, PodsOK, podVars, IndInv, TypeOK
  <1>3. ASSUME SetDbInsInstalled PROVE PodsOK'
    BY <1>3 DEF SetDbInsInstalled, PodsOK, podVars, IndInv, TypeOK
  <1>4. ASSUME CreatePod PROVE PodsOK'
    <2>1. pod \in [Instances -> Pods]
      BY DEF IndInv, TypeOK
    <2>2. pod' \in [Instances -> Pods]
      BY <1>4, <2>1, PodsEdited DEF CreatePod
    <2>3. QED
      BY <1>4, <2>2 DEF CreatePod, ApiStep, PodsOK, IndInv, TypeOK
  <1>5. ASSUME IsDeleted PROVE PodsOK'
    BY <1>5 DEF IsDeleted, ApiStep, PodsOK, IndInv, TypeOK
  <1>6. ASSUME DeletePod PROVE PodsOK'
    <2>1. pod \in [Instances -> Pods]
      BY DEF IndInv, TypeOK
    <2>2. pod' \in [Instances -> Pods]
      BY <1>6, <2>1, PodsEdited DEF DeletePod
    <2>3. QED
      BY <1>6, <2>2 DEF DeletePod, ApiStep, PodsOK, IndInv, TypeOK
  <1>7. ASSUME GetPod PROVE PodsOK'
    BY <1>7 DEF GetPod, ApiStep, PodsOK, IndInv, TypeOK
  <1>8. ASSUME EnsureInsTypeMeta PROVE PodsOK'
    <2>1. pod \in [Instances -> Pods]
      BY DEF IndInv, TypeOK
    <2>2. pod' \in [Instances -> Pods]
      BY <1>8, <2>1, PodsEdited DEF EnsureInsTypeMeta
    <2>3. QED
      BY <1>8, <2>2 DEF EnsureInsTypeMeta, ApiStep, PodsOK, IndInv, TypeOK
  <1>9. ASSUME WaitForPodDeleted PROVE PodsOK'
    BY <1>9 DEF WaitForPodDeleted, WaitStep, ApiStep, PodsOK, IndInv, TypeOK
  <1>10. ASSUME WaitForPodReady PROVE PodsOK'
    BY <1>10 DEF WaitForPodReady, WaitStep, ApiStep, PodsOK, IndInv, TypeOK
  <1>11. ASSUME Poll PROVE PodsOK'
    BY <1>11 DEF Poll, CommandStep, Untouched, PodsOK, IndInv, TypeOK
  <1>12. ASSUME ExecCmdInPod PROVE PodsOK'
    <2>1. pod' = pod
      BY <1>12 DEF ExecCmdInPod, CommandStep
    <2>2. CASE Untouched
      BY <2>1, <2>2 DEF Untouched, PodsOK, IndInv, TypeOK
    <2>3. ASSUME NEW k, Carried(k, target) PROVE PodsOK'
      BY <2>1, <2>3 DEF Carried, PodsOK, IndInv, TypeOK
    <2>4. QED
      BY <1>12, <2>2, <2>3 DEF ExecCmdInPod
  <1>13. ASSUME NEW i \in Instances, Environment(i) PROVE PodsOK'
    <2>1. pod \in [Instances -> Pods]
      BY DEF IndInv, TypeOK
    <2>2. ASSUME NEW s \in Shown, pod' = [pod EXCEPT ![i].shows = s] PROVE pod' \in [Instances -> Pods]
      BY <2>1, <2>2, PodsEdited
    <2>3. ASSUME NEW s \in Shown, Report(i, s) PROVE PodsOK'
      BY <2>2, <2>3 DEF Report, PodsOK, IndInv, TypeOK
    <2>4. CASE Bind(i) \/ Refuse(i) \/ Refresh(i)
      <3>1. \E s \in Shown : Report(i, s)
        BY <2>4 DEF Bind, Refuse, Refresh, Shown
      <3>2. QED
        BY <2>3, <3>1
    <2>5. CASE BoxUp(i) \/ BoxEnds(i) \/ EngineUp(i) \/ Copied(i)
      BY <2>1, <2>5, SMTT(30) DEF BoxUp, BoxEnds, EngineUp, Copied, PodsOK, IndInv, TypeOK
    <2>6. CASE Remove(i)
      BY <2>1, <2>6, PodsEdited DEF Remove, PodsOK, IndInv, TypeOK
    <2>7. CASE Churn(i)
      <3>1. pod' \in [Instances -> Pods]
        BY <2>1, <2>7, PodsEdited DEF Churn
      <3>2. QED
        BY <2>7, <3>1 DEF Churn, PodsOK, IndInv, TypeOK
    <2>8. QED
      BY <1>13, <2>4, <2>5, <2>6, <2>7 DEF Environment
  <1>14. ASSUME CloseWatch PROVE PodsOK'
    BY <1>14 DEF CloseWatch, PodsOK, podVars, IndInv, TypeOK
  <1>15. ASSUME BreakWatch PROVE PodsOK'
    BY <1>15 DEF BreakWatch, PodsOK, podVars, IndInv, TypeOK
  <1>16. ASSUME Cancel PROVE PodsOK'
    BY <1>16 DEF Cancel, PodsOK, podVars, IndInv, TypeOK
  <1>17. ASSUME Crash PROVE PodsOK'
    BY <1>17 DEF Crash, PodsOK, podVars, IndInv, TypeOK
  <1>18. CASE UNCHANGED vars
    BY <1>18 DEF vars, PodsOK, podVars, IndInv, TypeOK
  <1>19. QED
    BY <1>1, <1>2, <1>3, <1>4, <1>5, <1>6, <1>7, <1>8, <1>9, <1>10, <1>11, <1>12, <1>13, <1>14,
       <1>15, <1>16, <1>17, <1>18 DEF Next, Proceed

LEMMA CountersStep ==
  ASSUME IndInv, [Next]_vars
  PROVE  CountersOK'
  <1>1. ASSUME NEW i \in Instances, NEW o \in Ops[i], Call(i, o) PROVE CountersOK'
    BY <1>1, ConstantsAssumption DEF Call, CountersOK, IndInv, TypeOK
  <1>2. ASSUME SetIns PROVE CountersOK'
    BY <1>2, ConstantsAssumption DEF SetIns, Step, Fault, NoFault, CountersOK, IndInv, TypeOK
  <1>3. ASSUME SetDbInsInstalled PROVE CountersOK'
    BY <1>3, ConstantsAssumption
       DEF SetDbInsInstalled, Step, NoFault, CountersOK, IndInv, TypeOK
  <1>4. ASSUME CreatePod PROVE CountersOK'
    BY <1>4, ConstantsAssumption
       DEF CreatePod, ApiStep, Step, Fault, NoFault, CountersOK, IndInv, TypeOK
  <1>5. ASSUME IsDeleted PROVE CountersOK'
    BY <1>5, ConstantsAssumption
       DEF IsDeleted, ApiStep, Step, Fault, NoFault, CountersOK, IndInv, TypeOK
  <1>6. ASSUME DeletePod PROVE CountersOK'
    BY <1>6, ConstantsAssumption
       DEF DeletePod, ApiStep, Step, Fault, NoFault, CountersOK, IndInv, TypeOK
  <1>7. ASSUME GetPod PROVE CountersOK'
    BY <1>7, ConstantsAssumption
       DEF GetPod, ApiStep, Step, Fault, NoFault, CountersOK, IndInv, TypeOK
  <1>8. ASSUME EnsureInsTypeMeta PROVE CountersOK'
    BY <1>8, ConstantsAssumption
       DEF EnsureInsTypeMeta, ApiStep, Step, Fault, NoFault, CountersOK, IndInv, TypeOK
  <1>9. ASSUME WaitForPodDeleted PROVE CountersOK'
    BY <1>9, ConstantsAssumption
       DEF WaitForPodDeleted, WaitStep, OpenWatch, Cancelled, ApiStep, Step, Fault, NoFault,
           CountersOK, IndInv, TypeOK
  <1>10. ASSUME WaitForPodReady PROVE CountersOK'
    BY <1>10, ConstantsAssumption
       DEF WaitForPodReady, WaitStep, OpenWatch, Cancelled, ApiStep, Step, Fault, NoFault,
           CountersOK, IndInv, TypeOK
  <1>11. ASSUME Poll PROVE CountersOK'
    BY <1>11, ConstantsAssumption
       DEF Poll, CommandStep, Step, NoFault, CountersOK, IndInv, TypeOK
  <1>12. ASSUME ExecCmdInPod PROVE CountersOK'
    BY <1>12, ConstantsAssumption
       DEF ExecCmdInPod, CommandStep, Step, Fault, NoFault, CountersOK, IndInv, TypeOK
  <1>13. ASSUME NEW i \in Instances, Environment(i) PROVE CountersOK'
    BY <1>13, ConstantsAssumption
       DEF Environment, EnvStep, Bind, Refuse, Refresh, Report, BoxUp, BoxEnds, Remove,
           EngineUp, Copied, Churn, CountersOK, IndInv, TypeOK
  <1>14. ASSUME CloseWatch PROVE CountersOK'
    BY <1>14, ConstantsAssumption DEF CloseWatch, EnvStep, CountersOK, IndInv, TypeOK
  <1>15. ASSUME BreakWatch PROVE CountersOK'
    BY <1>15, ConstantsAssumption DEF BreakWatch, Fault, CountersOK, IndInv, TypeOK
  <1>16. ASSUME Cancel PROVE CountersOK'
    BY <1>16, ConstantsAssumption DEF Cancel, CountersOK, IndInv, TypeOK
  <1>17. ASSUME Crash PROVE CountersOK'
    BY <1>17, ConstantsAssumption DEF Crash, Fault, CountersOK, IndInv, TypeOK
  <1>18. CASE UNCHANGED vars
    BY <1>18, ConstantsAssumption DEF vars, CountersOK, IndInv, TypeOK
  <1>19. QED
    BY <1>1, <1>2, <1>3, <1>4, <1>5, <1>6, <1>7, <1>8, <1>9, <1>10, <1>11, <1>12, <1>13, <1>14,
       <1>15, <1>16, <1>17, <1>18 DEF Next, Proceed

LEMMA CallStep ==
  ASSUME IndInv, [Next]_vars
  PROVE  CallOK'
  <1>1. ASSUME NEW i \in Instances, NEW o \in Ops[i], Call(i, o) PROVE CallOK'
    BY <1>1, ConstantsAssumption DEF Call, CallOK, IndInv, TypeOK
  <1>2. ASSUME SetIns PROVE CallOK'
    BY <1>2 DEF SetIns, Step, SetTarget, CallOK, IndInv, TypeOK
  <1>3. ASSUME SetDbInsInstalled PROVE CallOK'
    BY <1>3 DEF SetDbInsInstalled, Step, CallOK, IndInv, TypeOK
  <1>4. ASSUME CreatePod PROVE CallOK'
    BY <1>4 DEF CreatePod, ApiStep, Step, CallOK, IndInv, TypeOK
  <1>5. ASSUME IsDeleted PROVE CallOK'
    BY <1>5 DEF IsDeleted, ApiStep, Step, CallOK, IndInv, TypeOK
  <1>6. ASSUME DeletePod PROVE CallOK'
    BY <1>6 DEF DeletePod, ApiStep, Step, CallOK, IndInv, TypeOK
  <1>7. ASSUME GetPod PROVE CallOK'
    BY <1>7 DEF GetPod, ApiStep, Step, CallOK, IndInv, TypeOK
  <1>8. ASSUME EnsureInsTypeMeta PROVE CallOK'
    BY <1>8 DEF EnsureInsTypeMeta, ApiStep, Step, CallOK, IndInv, TypeOK
  <1>9. ASSUME WaitForPodDeleted PROVE CallOK'
    BY <1>9 DEF WaitForPodDeleted, WaitStep, Gone, ApiStep, Step, CallOK, IndInv, TypeOK
  <1>10. ASSUME WaitForPodReady PROVE CallOK'
    BY <1>10 DEF WaitForPodReady, WaitStep, ApiStep, Step, CallOK, IndInv, TypeOK
  <1>11. ASSUME Poll PROVE CallOK'
    BY <1>11 DEF Poll, CommandStep, Step, CallOK, IndInv, TypeOK
  <1>12. ASSUME ExecCmdInPod PROVE CallOK'
    BY <1>12 DEF ExecCmdInPod, CommandStep, Step, CallOK, IndInv, TypeOK
  <1>13. ASSUME NEW i \in Instances, Environment(i) PROVE CallOK'
    BY <1>13 DEF Environment, EnvStep, CallOK, IndInv, TypeOK
  <1>14. ASSUME CloseWatch PROVE CallOK'
    BY <1>14 DEF CloseWatch, EnvStep, CallOK, IndInv, TypeOK
  <1>15. ASSUME BreakWatch PROVE CallOK'
    BY <1>15 DEF BreakWatch, CallOK, IndInv, TypeOK
  <1>16. ASSUME Cancel PROVE CallOK'
    BY <1>16 DEF Cancel, CallOK, IndInv, TypeOK
  <1>17. ASSUME Crash PROVE CallOK'
    BY <1>17 DEF Crash, CallOK, IndInv, TypeOK
  <1>18. CASE UNCHANGED vars
    BY <1>18 DEF vars, CallOK, IndInv, TypeOK
  <1>19. QED
    BY <1>1, <1>2, <1>3, <1>4, <1>5, <1>6, <1>7, <1>8, <1>9, <1>10, <1>11, <1>12, <1>13, <1>14,
       <1>15, <1>16, <1>17, <1>18 DEF Next, Proceed

LEMMA Returned ==
  ASSUME NEW r, Return(r)
  PROVE  PlaceOK' /\ WatchOK' /\ todo' = <<>>
  <1>1. 0 \in 0 .. MaxTries /\ <<>> \in Seq(Events)
    BY DEF MaxTries
  <1>2. QED
    BY <1>1 DEF Return, PlaceOK, WatchOK

LEMMA PlaceAtStart ==
  at' = "begin" /\ tries' = 0 => PlaceOK'
  BY DEF PlaceOK, MaxTries

LEMMA AdvancedPlace ==
  ASSUME ~Idle, todo \in Seq(Steps), Advance
  PROVE  PlaceOK'
  BY Advanced, PlaceAtStart

LEMMA FailedPlace ==
  ASSUME NEW r, ~Idle, todo \in Seq(Steps), Failed(r)
  PROVE  PlaceOK'
  BY AdvancedPlace, PlaceAtStart, Returned DEF Failed

LEMMA PlaceStep ==
  ASSUME IndInv, [Next]_vars
  PROVE  PlaceOK'
  <1>1. ASSUME NEW i \in Instances, NEW o \in Ops[i], Call(i, o) PROVE PlaceOK'
    BY <1>1, Returned DEF Call, PlaceOK, IndInv, TypeOK
  <1>2. ASSUME SetIns PROVE PlaceOK'
    <2>1. ~Idle /\ todo \in Seq(Steps) /\ PlaceOK
      BY <1>2 DEF SetIns, Now, IndInv, Structured, Shaped, TypeOK, PlaceOK
    <2>2. QED
      BY <1>2, <2>1, AdvancedPlace, Returned, PlaceAtStart DEF SetIns, Step, SetTarget
  <1>3. ASSUME SetDbInsInstalled PROVE PlaceOK'
    <2>1. ~Idle /\ todo \in Seq(Steps) /\ PlaceOK
      BY <1>3 DEF SetDbInsInstalled, Now, IndInv, Structured, Shaped, TypeOK, PlaceOK
    <2>2. QED
      BY <1>3, <2>1, AdvancedPlace, Returned, PlaceAtStart DEF SetDbInsInstalled, Step
  <1>4. ASSUME CreatePod PROVE PlaceOK'
    <2>1. ~Idle /\ todo \in Seq(Steps) /\ PlaceOK
      BY <1>4 DEF CreatePod, Now, IndInv, Structured, Shaped, TypeOK, PlaceOK
    <2>2. QED
      BY <1>4, <2>1, AdvancedPlace, Returned, PlaceAtStart DEF CreatePod, ApiStep, Step
  <1>5. ASSUME IsDeleted PROVE PlaceOK'
    <2>1. ~Idle /\ todo \in Seq(Steps) /\ PlaceOK
      BY <1>5 DEF IsDeleted, Now, IndInv, Structured, Shaped, TypeOK, PlaceOK
    <2>2. QED
      BY <1>5, <2>1, AdvancedPlace, Returned, PlaceAtStart DEF IsDeleted, ApiStep, Step
  <1>6. ASSUME DeletePod PROVE PlaceOK'
    <2>1. ~Idle /\ todo \in Seq(Steps) /\ PlaceOK
      BY <1>6 DEF DeletePod, Now, IndInv, Structured, Shaped, TypeOK, PlaceOK
    <2>2. QED
      BY <1>6, <2>1, AdvancedPlace, Returned, PlaceAtStart DEF DeletePod, ApiStep, Step
  <1>7. ASSUME GetPod PROVE PlaceOK'
    <2>1. ~Idle /\ todo \in Seq(Steps) /\ PlaceOK
      BY <1>7 DEF GetPod, Now, IndInv, Structured, Shaped, TypeOK, PlaceOK
    <2>2. QED
      BY <1>7, <2>1, AdvancedPlace, Returned, PlaceAtStart DEF GetPod, ApiStep, Step
  <1>8. ASSUME EnsureInsTypeMeta PROVE PlaceOK'
    <2>1. ~Idle /\ todo \in Seq(Steps) /\ PlaceOK
      BY <1>8 DEF EnsureInsTypeMeta, Now, IndInv, Structured, Shaped, TypeOK, PlaceOK
    <2>2. QED
      BY <1>8, <2>1, AdvancedPlace, Returned, PlaceAtStart DEF EnsureInsTypeMeta, Goto, PlaceOK
  <1>9. ASSUME WaitForPodDeleted PROVE PlaceOK'
    <2>1. ~Idle /\ todo \in Seq(Steps) /\ PlaceOK
      BY <1>9 DEF WaitForPodDeleted, Now, IndInv, Structured, Shaped, TypeOK, PlaceOK
    <2>2. QED
      BY <1>9, <2>1, AdvancedPlace, Returned, PlaceAtStart
         DEF WaitForPodDeleted, OpenWatch, Gone, Cancelled, Goto, PlaceOK
  <1>10. ASSUME WaitForPodReady PROVE PlaceOK'
    <2>1. ~Idle /\ todo \in Seq(Steps) /\ PlaceOK
      BY <1>10 DEF WaitForPodReady, Now, IndInv, Structured, Shaped, TypeOK, PlaceOK
    <2>2. Advance => PlaceOK'
      BY <2>1, AdvancedPlace
    <2>3. CASE tries + 1 < MaxTries /\ tries' = tries + 1 /\ at' = "begin"
      BY <2>1, <2>3 DEF PlaceOK, MaxTries
    <2>4. CASE at' \in {"watch", "settle"} /\ tries' = tries
      BY <2>1, <2>4 DEF PlaceOK
    <2>5. CASE OpenWatch
      BY <2>4, <2>5, Returned DEF OpenWatch, Goto
    <2>6. QED
      BY <1>10, <2>2, <2>3, <2>4, <2>5, Returned DEF WaitForPodReady, Cancelled, Goto
  <1>11. ASSUME Poll PROVE PlaceOK'
    <2>1. ~Idle /\ todo \in Seq(Steps) /\ PlaceOK
      BY <1>11 DEF Poll, IndInv, Structured, Shaped, TypeOK, PlaceOK
    <2>2. QED
      BY <1>11, <2>1, FailedPlace DEF Poll, Goto, PlaceOK
  <1>12. ASSUME ExecCmdInPod PROVE PlaceOK'
    <2>1. ~Idle /\ todo \in Seq(Steps) /\ PlaceOK
      BY <1>12 DEF ExecCmdInPod, IndInv, Structured, Shaped, TypeOK, PlaceOK
    <2>2. Advance => PlaceOK'
      BY <2>1, AdvancedPlace
    <2>3. CASE Bad
      <3>1. Head(todo) \in Polled => tries < MaxPolls
        <4>1. Head(todo) \in Polled => at \in {"exec", "again", "last"}
          BY <1>12 DEF ExecCmdInPod, Attempting, Polled, Plain
        <4>2. QED
          BY <2>1, <4>1 DEF IndInv, InTime
      <3>2. CASE Head(todo) \in Polled /\ tries' = tries + 1 /\ at' = "begin"
        BY <2>1, <3>1, <3>2, ConstantsAssumption DEF PlaceOK, ConstantsAssumption, MaxTries
      <3>3. QED
        BY <2>1, <2>3, <3>2, FailedPlace DEF Bad
    <2>4. ASSUME NEW k, Good(k) PROVE PlaceOK'
      BY <2>2, <2>4, ConstantsAssumption DEF Good, PlaceOK, ConstantsAssumption, MaxTries
    <2>5. CASE Later
      BY <2>1, <2>5 DEF Later, PlaceOK
    <2>6. QED
      BY <1>12, <2>3, <2>4, <2>5 DEF ExecCmdInPod
  <1>13. ASSUME NEW i \in Instances, Environment(i) PROVE PlaceOK'
    BY <1>13 DEF Environment, EnvStep, PlaceOK, IndInv, TypeOK
  <1>14. ASSUME CloseWatch PROVE PlaceOK'
    BY <1>14, Returned DEF CloseWatch, EnvStep, PlaceOK, IndInv, TypeOK
  <1>15. ASSUME BreakWatch PROVE PlaceOK'
    BY <1>15, Returned DEF BreakWatch, PlaceOK, IndInv, TypeOK
  <1>16. ASSUME Cancel PROVE PlaceOK'
    BY <1>16, Returned DEF Cancel, PlaceOK, IndInv, TypeOK, stepVars
  <1>17. ASSUME Crash PROVE PlaceOK'
    BY <1>17, Returned DEF Crash, Fault, PlaceOK
  <1>18. CASE UNCHANGED vars
    BY <1>18, Returned DEF vars, PlaceOK, IndInv, TypeOK, stepVars
  <1>19. QED
    BY <1>1, <1>2, <1>3, <1>4, <1>5, <1>6, <1>7, <1>8, <1>9, <1>10, <1>11, <1>12, <1>13, <1>14,
       <1>15, <1>16, <1>17, <1>18 DEF Next, Proceed

LEMMA AdvancedWatch ==
  ASSUME WatchOK, ~Idle, todo \in Seq(Steps), Advance
  PROVE  WatchOK'
  <1>1. <<>> \in Seq(Events)
    OBVIOUS
  <1>2. QED
    BY <1>1, Advanced DEF WatchOK

LEMMA FailedWatch ==
  ASSUME NEW r, WatchOK, ~Idle, todo \in Seq(Steps), Failed(r)
  PROVE  WatchOK'
  BY AdvancedWatch, Returned DEF Failed, WatchOK

LEMMA Emitted ==
  ASSUME PodsOK', WatchOK, UNCHANGED watch, NEW i \in Instances,
         NEW k \in {"ADDED", "MODIFIED", "DELETED"}, Emit(i, k)
  PROVE  WatchOK'
  <1>1. Event(k, pod'[i].shows) \in Events
    BY DEF PodsOK, Pods, Event, Events
  <1>2. QED
    BY <1>1 DEF Emit, WatchOK

LEMMA WatchStep ==
  ASSUME IndInv, [Next]_vars
  PROVE  WatchOK'
  <1>1. ASSUME NEW i \in Instances, NEW o \in Ops[i], Call(i, o) PROVE WatchOK'
    BY <1>1, Returned DEF Call, WatchOK, IndInv, TypeOK
  <1>2. ASSUME SetIns PROVE WatchOK'
    <2>1. ~Idle /\ todo \in Seq(Steps) /\ WatchOK
      BY <1>2 DEF SetIns, Now, IndInv, Structured, Shaped, TypeOK, WatchOK
    <2>2. <<>> \in Seq(Events)
      OBVIOUS
    <2>3. QED
      BY <1>2, <2>1, <2>2, AdvancedWatch, Returned DEF SetIns, Step, SetTarget
  <1>3. ASSUME SetDbInsInstalled PROVE WatchOK'
    <2>1. ~Idle /\ todo \in Seq(Steps) /\ WatchOK
      BY <1>3 DEF SetDbInsInstalled, Now, IndInv, Structured, Shaped, TypeOK, WatchOK
    <2>2. <<>> \in Seq(Events)
      OBVIOUS
    <2>3. QED
      BY <1>3, <2>1, <2>2, AdvancedWatch, Returned DEF SetDbInsInstalled, Step
  <1>4. ASSUME CreatePod PROVE WatchOK'
    <2>1. ~Idle /\ todo \in Seq(Steps) /\ WatchOK
      BY <1>4 DEF CreatePod, Now, IndInv, Structured, Shaped, TypeOK, WatchOK
    <2>2. <<>> \in Seq(Events)
      OBVIOUS
    <2>3. QED
      BY <1>4, <2>1, <2>2, AdvancedWatch, Returned DEF CreatePod, ApiStep, Step
  <1>5. ASSUME IsDeleted PROVE WatchOK'
    <2>1. ~Idle /\ todo \in Seq(Steps) /\ WatchOK
      BY <1>5 DEF IsDeleted, Now, IndInv, Structured, Shaped, TypeOK, WatchOK
    <2>2. <<>> \in Seq(Events)
      OBVIOUS
    <2>3. QED
      BY <1>5, <2>1, <2>2, AdvancedWatch, Returned DEF IsDeleted, ApiStep, Step
  <1>6. ASSUME DeletePod PROVE WatchOK'
    <2>1. ~Idle /\ todo \in Seq(Steps) /\ WatchOK
      BY <1>6 DEF DeletePod, Now, IndInv, Structured, Shaped, TypeOK, WatchOK
    <2>2. <<>> \in Seq(Events)
      OBVIOUS
    <2>3. QED
      BY <1>6, <2>1, <2>2, AdvancedWatch, Returned DEF DeletePod, ApiStep, Step
  <1>7. ASSUME GetPod PROVE WatchOK'
    <2>1. ~Idle /\ todo \in Seq(Steps) /\ WatchOK
      BY <1>7 DEF GetPod, Now, IndInv, Structured, Shaped, TypeOK, WatchOK
    <2>2. <<>> \in Seq(Events)
      OBVIOUS
    <2>3. QED
      BY <1>7, <2>1, <2>2, AdvancedWatch, Returned DEF GetPod, WatchOK
  <1>8. ASSUME EnsureInsTypeMeta PROVE WatchOK'
    <2>1. ~Idle /\ todo \in Seq(Steps) /\ WatchOK
      BY <1>8 DEF EnsureInsTypeMeta, Now, IndInv, Structured, Shaped, TypeOK, WatchOK
    <2>2. <<>> \in Seq(Events)
      OBVIOUS
    <2>3. QED
      BY <1>8, <2>1, <2>2, AdvancedWatch, Returned DEF EnsureInsTypeMeta, WatchOK
  <1>9. ASSUME WaitForPodDeleted PROVE WatchOK'
    <2>1. ~Idle /\ todo \in Seq(Steps) /\ WatchOK /\ PodsOK
      BY <1>9 DEF WaitForPodDeleted, Now, IndInv, Structured, Shaped, TypeOK, WatchOK, PodsOK
    <2>2. \A e \in Events : <<e>> \in Seq(Events)
      OBVIOUS
    <2>3. log # <<>> => Tail(log) \in Seq(Events)
      BY <2>1 DEF WatchOK
    <2>4. <<>> \in Seq(Events)
      OBVIOUS
    <2>5. OpenWatch => WatchOK'
      BY <2>1, <2>4, Returned DEF OpenWatch, WatchOK
    <2>6. Cancelled => WatchOK'
      BY Returned DEF Cancelled
    <2>7. (Advance \/ \E r : Return(r)) => WatchOK'
      BY <2>1, AdvancedWatch, Returned
    <2>9. QED
      BY <1>9, <2>1, <2>3, <2>4, <2>5, <2>6, <2>7 DEF WaitForPodDeleted, Gone, Consume, WatchOK
  <1>10. ASSUME WaitForPodReady PROVE WatchOK'
    <2>1. ~Idle /\ todo \in Seq(Steps) /\ WatchOK /\ PodsOK
      BY <1>10 DEF WaitForPodReady, Now, IndInv, Structured, Shaped, TypeOK, WatchOK, PodsOK
    <2>2. \A e \in Events : <<e>> \in Seq(Events)
      OBVIOUS
    <2>3. log # <<>> => Tail(log) \in Seq(Events)
      BY <2>1 DEF WatchOK
    <2>4. <<>> \in Seq(Events)
      OBVIOUS
    <2>5. OpenWatch => WatchOK'
      BY <2>1, <2>4, Returned DEF OpenWatch, WatchOK
    <2>6. Cancelled => WatchOK'
      BY Returned DEF Cancelled
    <2>7. (Advance \/ \E r : Return(r)) => WatchOK'
      BY <2>1, AdvancedWatch, Returned
    <2>8. Now("waitNew") => <<Event("ADDED", pod[Watched].shows)>> \in Seq(Events)
      <3>1. Now("waitNew") => Watched = call.ins /\ call.ins \in Instances
        BY <2>1, ShapedTail DEF Now, IndInv, Structured, TypeOK, Idle, Belongs, Watched
      <3>2. Now("waitNew") => Event("ADDED", pod[Watched].shows) \in Events
        BY <2>1, <3>1 DEF PodsOK, Pods, Event, Events
      <3>3. QED
        BY <2>2, <3>2
    <2>9. QED
      BY <1>10, <2>1, <2>3, <2>4, <2>5, <2>6, <2>7, <2>8 DEF WaitForPodReady, Consume, WatchOK
  <1>11. ASSUME Poll PROVE WatchOK'
    <2>1. ~Idle /\ todo \in Seq(Steps) /\ WatchOK
      BY <1>11 DEF Poll, IndInv, Structured, Shaped, TypeOK, WatchOK
    <2>2. <<>> \in Seq(Events)
      OBVIOUS
    <2>3. QED
      BY <1>11, <2>1, <2>2, AdvancedWatch, Returned, FailedWatch DEF Poll, Goto, WatchOK
  <1>12. ASSUME ExecCmdInPod PROVE WatchOK'
    <2>1. ~Idle /\ todo \in Seq(Steps) /\ WatchOK
      BY <1>12 DEF ExecCmdInPod, IndInv, Structured, Shaped, TypeOK, WatchOK
    <2>2. <<>> \in Seq(Events)
      OBVIOUS
    <2>3. QED
      BY <1>12, <2>1, <2>2, AdvancedWatch, Returned, FailedWatch
         DEF ExecCmdInPod, Bad, Good, Later, WatchOK
  <1>13. ASSUME NEW i \in Instances, Environment(i) PROVE WatchOK'
    <2>1. WatchOK /\ PodsOK'
      BY <1>13, PodsStep DEF Next, IndInv, TypeOK, WatchOK
    <2>2. CASE UNCHANGED <<watch, log>>
      BY <2>1, <2>2 DEF WatchOK
    <2>3. ASSUME NEW k \in {"ADDED", "MODIFIED", "DELETED"}, Emit(i, k), UNCHANGED watch
          PROVE  WatchOK'
      BY <2>1, <2>3, Emitted
    <2>4. QED
      BY <1>13, <2>2, <2>3
         DEF Environment, Bind, Refuse, Refresh, Report, BoxUp, BoxEnds, Remove, EngineUp,
             Copied, Churn
  <1>14. ASSUME CloseWatch PROVE WatchOK'
    BY <1>14, Returned DEF CloseWatch, WatchOK, IndInv, TypeOK
  <1>15. ASSUME BreakWatch PROVE WatchOK'
    <2>1. Event("ERROR", "new") \in Events
      BY DEF Event, Events, Shown
    <2>2. QED
      BY <1>15, <2>1 DEF BreakWatch, WatchOK, IndInv, TypeOK
  <1>16. ASSUME Cancel PROVE WatchOK'
    BY <1>16, Returned DEF Cancel, WatchOK, IndInv, TypeOK, stepVars
  <1>17. ASSUME Crash PROVE WatchOK'
    BY <1>17, Returned DEF Crash, Fault, WatchOK
  <1>18. CASE UNCHANGED vars
    BY <1>18, Returned DEF vars, WatchOK, IndInv, TypeOK, stepVars
  <1>19. QED
    BY <1>1, <1>2, <1>3, <1>4, <1>5, <1>6, <1>7, <1>8, <1>9, <1>10, <1>11, <1>12, <1>13, <1>14,
       <1>15, <1>16, <1>17, <1>18 DEF Next, Proceed

-----------------------------------------------------------------------------
(***************************************************************************)
(* What a watch tells, a label that is written and a poll                  *)
(***************************************************************************)
LEMMA FailedLog ==
  ASSUME NEW r, ~Idle, todo \in Seq(Steps), Failed(r)
  PROVE  log' \in {<<>>, log} /\ at' = "begin"
  BY Advanced DEF Failed, Return

LEMMA ProceedLog ==
  ASSUME IndInv, Proceed
  PROVE  LogKept \/ Idle' \/ call.op \in Restarts
  <1>1. ASSUME SetIns PROVE LogKept \/ Idle' \/ call.op \in Restarts
    <2>1. ~Idle /\ call' = call /\ todo \in Seq(Steps)
      BY <1>1 DEF SetIns, Step, IndInv, Structured, Shaped
    <2>2. Advance => LogKept
      BY <2>1, Advanced DEF LogKept
    <2>3. QED
      BY <1>1, <2>2 DEF SetIns, Step, SetTarget
  <1>2. ASSUME SetDbInsInstalled PROVE LogKept \/ Idle' \/ call.op \in Restarts
    <2>1. ~Idle /\ call' = call /\ todo \in Seq(Steps)
      BY <1>2 DEF SetDbInsInstalled, Step, IndInv, Structured, Shaped
    <2>2. Advance => LogKept
      BY <2>1, Advanced DEF LogKept
    <2>3. QED
      BY <1>2, <2>2 DEF SetDbInsInstalled, Step, Fault
  <1>3. ASSUME CreatePod PROVE LogKept \/ Idle' \/ call.op \in Restarts
    <2>1. ~Idle /\ call' = call /\ todo \in Seq(Steps)
      BY <1>3 DEF CreatePod, Step, ApiStep, IndInv, Structured, Shaped
    <2>2. Advance => LogKept
      BY <2>1, Advanced DEF LogKept
    <2>3. QED
      BY <1>3, <2>2 DEF CreatePod, Return, Idle
  <1>4. ASSUME IsDeleted PROVE LogKept \/ Idle' \/ call.op \in Restarts
    <2>1. ~Idle /\ call' = call /\ todo \in Seq(Steps)
      BY <1>4 DEF IsDeleted, Step, ApiStep, IndInv, Structured, Shaped
    <2>2. Advance => LogKept
      BY <2>1, Advanced DEF LogKept
    <2>3. QED
      BY <1>4, <2>2 DEF IsDeleted, Return, Idle
  <1>5. ASSUME DeletePod PROVE LogKept \/ Idle' \/ call.op \in Restarts
    <2>1. ~Idle /\ call' = call /\ todo \in Seq(Steps)
      BY <1>5 DEF DeletePod, Step, ApiStep, IndInv, Structured, Shaped
    <2>2. Advance => LogKept
      BY <2>1, Advanced DEF LogKept
    <2>3. QED
      BY <1>5, <2>2 DEF DeletePod, Return, Idle
  <1>6. ASSUME GetPod PROVE LogKept \/ Idle' \/ call.op \in Restarts
    <2>1. ~Idle /\ call' = call /\ todo \in Seq(Steps)
      BY <1>6 DEF GetPod, Step, ApiStep, IndInv, Structured, Shaped
    <2>2. Advance => LogKept
      BY <2>1, Advanced DEF LogKept
    <2>3. QED
      BY <1>6, <2>2 DEF GetPod, Return, LogKept
  <1>7. ASSUME EnsureInsTypeMeta PROVE LogKept \/ Idle' \/ call.op \in Restarts
    <2>1. ~Idle /\ call' = call /\ todo \in Seq(Steps)
      BY <1>7 DEF EnsureInsTypeMeta, Step, ApiStep, IndInv, Structured, Shaped
    <2>2. Advance => LogKept
      BY <2>1, Advanced DEF LogKept
    <2>3. QED
      BY <1>7, <2>2 DEF EnsureInsTypeMeta, Return, Goto, LogKept
  <1>8. ASSUME WaitForPodDeleted PROVE LogKept \/ Idle' \/ call.op \in Restarts
    <2>1. ~Idle /\ call' = call /\ todo \in Seq(Steps)
      BY <1>8 DEF WaitForPodDeleted, Step, ApiStep, WaitStep, IndInv, Structured, Shaped
    <2>2. Advance => LogKept
      BY <2>1, Advanced DEF LogKept
    <2>3. \A r : Return(r) => Idle'
      BY DEF Return, Idle
    <2>4. OpenWatch => LogKept \/ Idle'
      BY <2>3 DEF OpenWatch, Goto, LogKept
    <2>5. QED
      BY <1>8, <2>2, <2>3, <2>4 DEF WaitForPodDeleted, Goto, Gone, Consume, Cancelled, LogKept
  <1>9. ASSUME WaitForPodReady PROVE LogKept \/ Idle' \/ call.op \in Restarts
    <2>1. ~Idle /\ call' = call /\ todo \in Seq(Steps)
      BY <1>9 DEF WaitForPodReady, Step, ApiStep, WaitStep, IndInv, Structured, Shaped
    <2>2. Advance => LogKept
      BY <2>1, Advanced DEF LogKept
    <2>3. \A r : Return(r) => Idle'
      BY DEF Return, Idle
    <2>4. OpenWatch => LogKept \/ Idle'
      BY <2>3 DEF OpenWatch, Goto, LogKept
    <2>5. CASE Now("waitNew") /\ log' = <<Event("ADDED", pod[Watched].shows)>> /\ at' = "watch"
      <3>1. Watched = call.ins /\ call.ins \in Instances /\ pod' = pod /\ Seen'
        BY <1>9, <2>1, <2>5, ShapedTail, Observed
           DEF WaitForPodReady, Now, IndInv, Structured, TypeOK, Idle, Belongs, Watched,
               WaitStep
      <3>2. /\ Event("ADDED", pod[Watched].shows) \in Events
            /\ Told(Event("ADDED", pod[Watched].shows), did')
        BY <2>1, <3>1 DEF IndInv, TypeOK, Pods, Event, Events, Told, Seen, WasShown
      <3>3. QED
        BY <2>5, <3>2 DEF LogKept
    <2>6. CASE /\ log # <<>> /\ Head(log).shows \in {"ready", "refused"} /\ log' = <<>>
      <3>1. 1 \in DOMAIN log /\ Head(log) = log[1]
        BY <2>6, TailParts DEF IndInv, TypeOK
      <3>2. call.op \notin Restarts => WasShown(did)
        BY <2>1, <2>6, <3>1 DEF IndInv, Noted, Told
      <3>3. did \subseteq did'
        BY <1>9, <2>1, Observed DEF WaitForPodReady
      <3>4. QED
        BY <2>6, <3>2, <3>3 DEF LogKept, WasShown
    <2>7. CASE Consume /\ log # <<>> /\ at' # "settle"
      BY <2>7 DEF Consume, LogKept
    <2>8. CASE Consume /\ log # <<>> /\ UNCHANGED at
      BY <2>8 DEF Consume, LogKept
    <2>9. CASE log' = <<>> /\ at' # "settle"
      BY <2>9 DEF LogKept
    <2>10. QED
      BY <1>9, <2>2, <2>3, <2>4, <2>5, <2>6, <2>7, <2>8, <2>9
         DEF WaitForPodReady, Goto, Cancelled
  <1>10. ASSUME Poll PROVE LogKept \/ Idle' \/ call.op \in Restarts
    <2>1. ~Idle /\ call' = call /\ todo \in Seq(Steps)
      BY <1>10 DEF Poll, Step, CommandStep, IndInv, Structured, Shaped
    <2>2. \A r : Failed(r) => LogKept
      BY <2>1, FailedLog DEF LogKept
    <2>3. QED
      BY <1>10, <2>2 DEF Poll, Goto, LogKept
  <1>11. ASSUME ExecCmdInPod PROVE LogKept \/ Idle' \/ call.op \in Restarts
    <2>1. ~Idle /\ call' = call /\ todo \in Seq(Steps)
      BY <1>11 DEF ExecCmdInPod, Step, CommandStep, IndInv, Structured, Shaped
    <2>2. \A r : Failed(r) => LogKept
      BY <2>1, FailedLog DEF LogKept
    <2>3. Advance => LogKept
      BY <2>1, Advanced DEF LogKept
    <2>4. Bad => LogKept
      BY <2>2 DEF Bad, LogKept
    <2>5. \A k : Good(k) => LogKept
      BY <2>3 DEF Good, LogKept
    <2>6. Later => LogKept
      BY DEF Later, LogKept
    <2>7. QED
      BY <1>11, <2>4, <2>5, <2>6 DEF ExecCmdInPod
  <1>12. QED
    BY <1>1, <1>2, <1>3, <1>4, <1>5, <1>6, <1>7, <1>8, <1>9, <1>10, <1>11 DEF Proceed

LEMMA EnvironmentLog ==
  ASSUME IndInv, ~Idle, call.op \notin Restarts, NEW i \in Instances, Environment(i)
  PROVE  LogKept
  <1>1. call' = call /\ at' = at /\ Seen' /\ PodsOK'
    BY PodsStep, Observed DEF Environment, EnvStep, Next
  <1>2. CASE UNCHANGED log
    BY <1>1, <1>2 DEF LogKept
  <1>3. ASSUME NEW k \in {"MODIFIED", "DELETED"}, Emit(i, k), k = "DELETED" => ~pod'[i].there
        PROVE  LogKept
    <2>1. CASE watch = "on" /\ i = Watched
      <3>1. i = call.ins
        BY <2>1 DEF Watched, Restarts
      <3>2. Event(k, pod'[i].shows) \in Events /\ Told(Event(k, pod'[i].shows), did')
        BY <1>1, <1>3, <3>1 DEF PodsOK, Pods, Event, Events, Told, Seen, WasShown
      <3>3. QED
        BY <1>1, <1>3, <2>1, <3>2 DEF Emit, LogKept
    <2>2. QED
      BY <1>2, <1>3, <2>1 DEF Emit
  <1>4. CASE Bind(i) \/ Refuse(i) \/ Refresh(i)
    BY <1>3, <1>4 DEF Bind, Refuse, Refresh, Report
  <1>5. CASE Remove(i)
    <2>1. ~pod'[i].there
      BY <1>5 DEF Remove, IndInv, TypeOK, NoPod
    <2>2. QED
      BY <1>3, <1>5, <2>1 DEF Remove
  <1>6. CASE BoxUp(i) \/ BoxEnds(i) \/ EngineUp(i) \/ Copied(i)
    BY <1>2, <1>6 DEF BoxUp, BoxEnds, EngineUp, Copied
  <1>7. CASE Churn(i)
    BY <1>2, <1>3, <1>7 DEF Churn
  <1>8. QED
    BY <1>4, <1>5, <1>6, <1>7 DEF Environment

LEMMA NotedStep ==
  ASSUME IndInv, [Next]_vars
  PROVE  Noted'
  <1>1. CASE Begins
    <2>1. log' = <<>> /\ at' = "begin"
      BY <1>1, Beginning
    <2>2. QED
      BY <2>1 DEF Noted
  <1>2. CASE Rests
    BY <1>2 DEF Rests, Noted, Idle
  <1>3. CASE Proceeds
    <2>1. Keeps
      BY <1>3 DEF Proceeds
    <2>2. CASE Proceed
      BY <2>1, <2>2, ProceedLog, LogNoted
    <2>3. ASSUME NEW i \in Instances, Environment(i) PROVE Noted'
      BY <2>1, <2>3, EnvironmentLog, LogNoted DEF Keeps
    <2>4. CASE CloseWatch
      BY <2>1, <2>4, LogNoted DEF CloseWatch, EnvStep, LogKept
    <2>5. CASE BreakWatch
      <3>1. Event("ERROR", "new") \in Events /\ Told(Event("ERROR", "new"), did')
        BY DEF Event, Events, Shown, Told
      <3>2. QED
        BY <2>1, <2>5, <3>1, LogNoted DEF BreakWatch, LogKept
    <2>6. CASE Cancel
      BY <2>1, <2>6, LogNoted DEF Cancel, stepVars, LogKept
    <2>7. CASE Crash
      BY <2>1, <2>7, LogNoted DEF Crash, Return, Idle
    <2>8. CASE UNCHANGED vars
      BY <2>1, <2>8, LogNoted DEF vars, stepVars, LogKept
    <2>9. CASE Begins
      BY <1>1, <2>9
    <2>10. QED
      BY <2>2, <2>3, <2>4, <2>5, <2>6, <2>7, <2>8, <2>9 DEF Next, Begins
  <1>4. QED
    BY <1>1, <1>2, <1>3, StepKinds

LEMMA AtStart ==
  /\ \A r : Return(r) => at' = "begin"
  /\ ~Idle /\ todo \in Seq(Steps) => (Advance => at' = "begin") /\ \A r : Failed(r) => at' = "begin"
  BY FailedLog, Advanced DEF Return

\* The place a step of the call goes on at.
LEMMA ProceedPlace ==
  ASSUME IndInv, Proceed
  PROVE  /\ at' = "write" => EnsureInsTypeMeta
         /\ at' = "exec" => Poll
         /\ at' \in {"again", "last"} => ExecCmdInPod
  <1>1. ~Idle /\ todo \in Seq(Steps)
    BY DEF IndInv, Structured, Shaped, Proceed, SetIns, SetDbInsInstalled, CreatePod, IsDeleted,
           DeletePod, GetPod, EnsureInsTypeMeta, WaitForPodDeleted, WaitForPodReady, Poll,
           ExecCmdInPod, Now
  <1>2. CASE \/ SetIns \/ SetDbInsInstalled \/ CreatePod \/ IsDeleted \/ DeletePod
    BY <1>1, <1>2, AtStart DEF SetIns, SetDbInsInstalled, CreatePod, IsDeleted, DeletePod
  <1>3. CASE GetPod \/ EnsureInsTypeMeta
    BY <1>1, <1>3, AtStart DEF GetPod, EnsureInsTypeMeta, Goto
  <1>4. CASE WaitForPodDeleted
    BY <1>1, <1>4, AtStart DEF WaitForPodDeleted, OpenWatch, Goto, Gone, Cancelled
  <1>5. CASE WaitForPodReady
    BY <1>1, <1>5, AtStart DEF WaitForPodReady, OpenWatch, Goto, Cancelled
  <1>6. CASE Poll
    BY <1>1, <1>6, AtStart DEF Poll, Goto
  <1>7. CASE ExecCmdInPod
    BY <1>1, <1>7, AtStart DEF ExecCmdInPod, Bad, Good, Later
  <1>8. QED
    BY <1>2, <1>3, <1>4, <1>5, <1>6, <1>7 DEF Proceed

LEMMA CurrentStep ==
  ASSUME IndInv, [Next]_vars
  PROVE  Current'
  <1>1. CASE Begins
    BY <1>1, Beginning DEF Current
  <1>2. CASE EnsureInsTypeMeta
    <2>1. ~Idle /\ todo \in Seq(Steps) /\ call' = call
      BY <1>2 DEF EnsureInsTypeMeta, ApiStep, Step, IndInv, Structured, Shaped
    <2>2. QED
      BY <1>2, <2>1, AtStart DEF EnsureInsTypeMeta, Goto, Current
  <1>3. CASE Proceed /\ at' # "write"
    BY <1>3 DEF Current
  <1>4. ASSUME NEW i \in Instances, Environment(i) PROVE Current'
    <2> SUFFICES ASSUME Now("label"), at = "write"
                 PROVE  watch' = "on" /\ (log' = <<>> => pod'[call.ins].there)
      BY <1>4 DEF Environment, EnvStep, Current, Now, Idle
    <2>1. watch = "on" /\ (log = <<>> => pod[call.ins].there) /\ log \in Seq(Events)
      BY DEF IndInv, Current, TypeOK
    <2>2. Watched = call.ins
      BY ShapedTail DEF IndInv, Structured, Now, Idle, Belongs, Watched
    <2>3. watch' = "on"
      BY <1>4, <2>1
         DEF Environment, Bind, Refuse, Refresh, Report, BoxUp, BoxEnds, Remove, EngineUp,
             Copied, Churn
    <2>4. \A e : Append(log, e) # <<>>
      BY <2>1
    <2>5. ASSUME NEW k, Emit(i, k), i = call.ins PROVE log' # <<>>
      BY <2>1, <2>2, <2>4, <2>5 DEF Emit
    <2>6. ASSUME NEW k, Emit(i, k), log' = <<>> PROVE log = <<>>
      BY <2>4, <2>6 DEF Emit
    <2>7. CASE Remove(i) \/ Bind(i) \/ Refuse(i) \/ Refresh(i)
      BY <2>1, <2>3, <2>5, <2>6, <2>7 DEF Remove, Bind, Refuse, Refresh, Report, IndInv, TypeOK
    <2>8. CASE BoxUp(i) \/ BoxEnds(i) \/ EngineUp(i) \/ Copied(i)
      BY <2>1, <2>3, <2>8 DEF BoxUp, BoxEnds, EngineUp, Copied
    <2>9. CASE Churn(i)
      <3>1. pod'[call.ins].there = pod[call.ins].there
        BY <2>9 DEF Churn, IndInv, TypeOK, Pods
      <3>2. log' = <<>> => log = <<>>
        BY <2>6, <2>9 DEF Churn
      <3>3. QED
        BY <2>1, <2>3, <3>1, <3>2
    <2>10. QED
      BY <1>4, <2>7, <2>8, <2>9 DEF Environment
  <1>5. CASE CloseWatch \/ BreakWatch
    BY <1>5 DEF CloseWatch, BreakWatch, EnvStep, Current
  <1>6. CASE Cancel \/ UNCHANGED vars
    BY <1>6 DEF Cancel, vars, podVars, stepVars, IndInv, Current, Now, Idle
  <1>7. CASE Crash
    BY <1>7 DEF Crash, Return, Current
  <1>8. QED
    BY <1>1, <1>2, <1>3, <1>4, <1>5, <1>6, <1>7, ProceedPlace DEF Next, Begins

LEMMA InTimeStep ==
  ASSUME IndInv, [Next]_vars
  PROVE  InTime'
  <1>1. CASE Begins
    BY <1>1, Beginning DEF InTime
  <1>2. CASE Poll
    <2>1. ~Idle /\ todo \in Seq(Steps)
      BY <1>2 DEF Poll, IndInv, Structured, Shaped
    <2>2. QED
      BY <1>2, <2>1, AtStart DEF Poll, Goto, MayPoll, InTime, Idle
  <1>3. CASE ExecCmdInPod
    <2>1. ~Idle /\ todo \in Seq(Steps)
      BY <1>3 DEF ExecCmdInPod, IndInv, Structured, Shaped
    <2>2. CASE Later
      BY <1>3, <2>1, <2>2 DEF ExecCmdInPod, Later, Attempting, Polled, Plain, IndInv, InTime
    <2>3. CASE at' = "begin"
      BY <2>3 DEF InTime
    <2>4. QED
      BY <1>3, <2>1, <2>2, <2>3, AtStart DEF ExecCmdInPod, Bad, Good
  <1>4. CASE Proceed /\ at' \notin {"exec", "again", "last"}
    BY <1>4 DEF InTime
  <1>5. ASSUME NEW i \in Instances, Environment(i) PROVE InTime'
    BY <1>5 DEF Environment, EnvStep, IndInv, InTime, Idle
  <1>6. CASE CloseWatch \/ BreakWatch
    BY <1>6 DEF CloseWatch, BreakWatch, EnvStep, InTime
  <1>7. CASE Cancel \/ UNCHANGED vars
    BY <1>7 DEF Cancel, vars, stepVars, IndInv, InTime, Idle
  <1>8. CASE Crash
    BY <1>8 DEF Crash, Return, InTime
  <1>9. QED
    BY <1>1, <1>2, <1>3, <1>4, <1>5, <1>6, <1>7, <1>8, ProceedPlace DEF Next, Begins

-----------------------------------------------------------------------------
(***************************************************************************)
(* The theorems                                                            *)
(***************************************************************************)
LEMMA IndInvInit ==
  ASSUME Init
  PROVE  IndInv
  <1>1. PICK b \in BOOLEAN :
          /\ pod = [i \in Instances |-> IF b THEN [NewPod EXCEPT !.shows = "ready"] ELSE NoPod]
          /\ box = [i \in Instances |-> IF b THEN "up" ELSE "none"]
          /\ engine = [i \in Instances |-> IF b THEN "up" ELSE "down"]
          /\ data = [i \in Instances |-> IF b THEN "done" ELSE "none"]
          /\ installed = [i \in Instances |-> b]
    BY DEF Init
  <1>2. PodsOK
    <2>1. [NewPod EXCEPT !.shows = "ready"] \in Pods
      BY PodsEdited DEF Shown
    <2>2. pod \in [Instances -> Pods]
      BY <1>1, <2>1, PodsEdited
    <2>3. QED
      BY <1>1, <2>2 DEF PodsOK
  <1>3. CountersOK /\ PlaceOK /\ WatchOK
    BY ConstantsAssumption DEF Init, CountersOK, PlaceOK, WatchOK
  <1>4. CallOK
    <2>1. (CHOOSE i \in Instances : TRUE) \in Instances
      BY ConstantsAssumption DEF ConstantsAssumption
    <2>2. QED
      BY <1>1, <2>1 DEF Init, CallOK, AllOps
  <1>5. Shaped(call.op, todo) /\ Led(todo)
    <2>1. todo = <<>> /\ <<>> \in Seq(Steps)
      BY DEF Init
    <2>2. QED
      BY <2>1 DEF Shaped, Led
  <1>6. QED
    BY <1>2, <1>3, <1>4, <1>5, TypeParts
       DEF Init, IndInv, Structured, Targeted, CommandsGoToOwnPod, Pending, StopFirst, Noted,
           Current, InTime, OkMeansDone, Idle

LEMMA IndInvStep ==
  ASSUME IndInv, [Next]_vars
  PROVE  IndInv'
  <1>1. TypeOK'
    BY PodsStep, CountersStep, CallStep, PlaceStep, WatchStep, TypePartsNext
  <1>2. QED
    BY <1>1, StepKinds, StructuredStep, TargetedStep, AstrayStep, PendingStep, StopFirstStep,
       OkStep, NotedStep, CurrentStep, InTimeStep DEF IndInv

\* The invariant holds in every behaviour.
THEOREM Invariance == Spec => []IndInv
  <1>1. Init => IndInv
    BY IndInvInit
  <1>2. IndInv /\ [Next]_vars => IndInv'
    BY IndInvStep
  <1>3. QED
    BY <1>1, <1>2, PTL DEF Spec

\* Types, with polls and attempts bounded: a poll is made only while there is
\* time for it.
THEOREM TypeCorrect == Spec => []TypeOK
  <1>1. IndInv => TypeOK
    BY DEF IndInv
  <1>2. QED
    BY <1>1, Invariance, PTL

\* An operation on an instance that returned nil did all it is for, whatever
\* the API server, the pods and their containers did meanwhile.
THEOREM OkIsDone == Spec => []OkMeansDone
  <1>1. IndInv => OkMeansDone
    BY DEF IndInv
  <1>2. QED
    BY <1>1, Invariance, PTL

\* No operation relies on another one's SetIns: a command reaches the pod of
\* another instance only after a SetIns of its own call whose error was ignored.
THEOREM OwnPodOnly == Spec => []CommandsGoToOwnPod
  <1>1. IndInv => CommandsGoToOwnPod
    BY DEF IndInv
  <1>2. QED
    BY <1>1, Invariance, PTL

\* StopEngineAndDeletePod asks for the deletion of a pod whose engine is down.
THEOREM DeletesStopped == Spec => StoppedBeforeDelete
  <1> DEFINE Deleted == Now("delete") /\ call.op = "stopDelete" /\ todo' # todo /\ pod' # pod
                        /\ "setFailed" \notin did
             Stopped == Deleted => engine[call.ins] = "down"
  <1>1. ASSUME IndInv, [Next]_vars PROVE Stopped
    <2>1. ASSUME Now("delete"), call.op = "stopDelete", Set PROVE engine[call.ins] = "down"
      <3>1. /\ Shaped(call.op, todo) /\ todo \in Seq(Steps) /\ todo # <<>>
            /\ Head(todo) = "delete" /\ ~Idle
        BY <1>1, <2>1 DEF Now, Idle, IndInv, Structured, Shaped
      <3>2. \A k \in DOMAIN Tail(todo) : Tail(todo)[k] # "stop"
        BY <3>1, ShapedTail
      <3>3. ASSUME NEW k \in DOMAIN todo PROVE todo[k] # "stop"
        <4>1. k = 1 \/ (k - 1 \in DOMAIN Tail(todo) /\ Tail(todo)[k - 1] = todo[k])
          BY <3>1, TailParts
        <4>2. todo[1] = "delete"
          BY <3>1, TailParts
        <4>3. QED
          BY <3>2, <4>1, <4>2
      <3>4. QED
        BY <1>1, <2>1, <3>1, <3>3 DEF IndInv, StopFirst
    <2>2. QED
      BY <2>1 DEF Set
  <1>2. QED
    BY <1>1, Invariance, PTL DEF Spec, StoppedBeforeDelete

==============================================================================
