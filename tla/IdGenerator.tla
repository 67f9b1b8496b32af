---------------------------- MODULE IdGenerator ----------------------------
(***************************************************************************)
(* business/adapter/id_generator.go: GetNextClusterScopeHostInsIds reads a *)
(* counter from a ConfigMap, hands out the next n numbers and writes the   *)
(* counter back.  The mutex belongs to one IdGenerator value, so it orders *)
(* the callers of that value only; two generators (two operator processes, *)
(* or two calls of NewIdGenerator) meet in the API server, whose Update is *)
(* conditional on the resourceVersion that was read.                       *)
(*                                                                         *)
(* An Update is split into what the API server does and what the caller    *)
(* sees: the answer may be lost, and a request whose caller gave up or     *)
(* crashed may still arrive.  An operator process may crash at any point.  *)
(***************************************************************************)
EXTENDS Integers, FiniteSets

CONSTANTS Callers,      \* goroutines that ask for ids
          Generators,   \* IdGenerator values, each with its own mutex
          GenOf,        \* GenOf[c]: the generator caller c uses
          Batches,      \* values of the argument n
          DefaultId,    \* define.DefaultNextClusterScopeCustInsId
          StoredIds,    \* counters the ConfigMap may already hold
          NoCaller,     \* the mutex is free
          NoGen,        \* no generator
          MaxCalls,     \* bound: calls made in a behaviour
          MaxFaults     \* bound: failed requests, crashes and writes of other entries

ASSUME ConstantsAssumption ==
  /\ GenOf \in [Callers -> Generators]
  /\ Batches \subseteq Nat
  /\ DefaultId \in Nat
  /\ StoredIds \subseteq Nat
  /\ NoCaller \notin Callers
  /\ NoGen \notin Generators
  /\ MaxCalls \in Nat
  /\ MaxFaults \in Nat

VARIABLES
  cm,         \* the ConfigMap in the API server
  mutex,      \* mutex[g]: the caller that holds the mutex of g
  pc,         \* where a caller is
  want,       \* the argument n of the call in progress
  found,      \* foundConfigMap, the caller's copy
  late,       \* Updates in flight whose caller gave up or crashed
  \* observation only
  nCalls,     \* calls made so far
  nFaults,    \* faults injected so far
  nUpdates,   \* updates applied while their caller waited
  lastGen,    \* generator of the last write, NoGen: none, a late one, or another entry's
  ticket,     \* ticket[c]: number of the update applied for c's call, 0: none
  top,        \* all delivered ids are below it
  floor,      \* floor[c]: top when c's call began
  delivered   \* batches returned to callers

callVars == <<mutex, pc, want, found, ticket, floor>>
vars == <<cm, callVars, late, nCalls, nFaults, nUpdates, lastGen, top, delivered>>

(***************************************************************************)
(* The ConfigMap.  What the counter's entry of Data holds decides the      *)
(* path: "nodata" Data is a nil map, "absent" the key is missing,          *)
(* "garbage" the value does not parse, "number" it does (id).              *)
(***************************************************************************)
Entries == {"nodata", "absent", "garbage", "number"}
ConfigMaps == [rv : Nat, entry : Entries, id : Nat]
NoConfigMap == [rv |-> 0, entry |-> "absent", id |-> 0]

PcValues == {"idle", "lock", "get", "read", "sent", "applied", "failed"}

\* The id the next batch starts with, once the default is filled in.
CurrentId(m) == IF m.entry = "number" THEN m.id ELSE DefaultId

Batch(c) == [first |-> CurrentId(found[c]), n |-> want[c], by |-> ticket[c]]

\* Every id of b is below this one.
EndOf(b) == b.first + b.n

Init ==
  /\ \E e \in Entries, i \in StoredIds \cup {DefaultId} :
       cm = [rv |-> 1, entry |-> e, id |-> IF e = "number" THEN i ELSE DefaultId]
  /\ mutex = [g \in Generators |-> NoCaller]
  /\ pc = [c \in Callers |-> "idle"]
  /\ want = [c \in Callers |-> 0]
  /\ found = [c \in Callers |-> NoConfigMap]
  /\ late = {}
  /\ nCalls = 0
  /\ nFaults = 0
  /\ nUpdates = 0
  /\ lastGen = NoGen
  /\ ticket = [c \in Callers |-> 0]
  /\ top = 0
  /\ floor = [c \in Callers |-> 0]
  /\ delivered = {}

Goto(c, l) == pc' = [pc EXCEPT ![c] = l]

\* Mutant of Return: without the deferred Unlock.
ReturnLocked(c) ==
  /\ Goto(c, "idle")
  /\ found' = [found EXCEPT ![c] = NoConfigMap]
  /\ want' = [want EXCEPT ![c] = 0]
  /\ floor' = [floor EXCEPT ![c] = 0]
  /\ ticket' = [ticket EXCEPT ![c] = 0]
  /\ UNCHANGED mutex

\* The deferred Unlock, on every return path; the caller is idle again.
Return(c) ==
  /\ Goto(c, "idle")
  /\ mutex' = [mutex EXCEPT ![GenOf[c]] = NoCaller]
  /\ found' = [found EXCEPT ![c] = NoConfigMap]
  /\ want' = [want EXCEPT ![c] = 0]
  /\ floor' = [floor EXCEPT ![c] = 0]
  /\ ticket' = [ticket EXCEPT ![c] = 0]

Fault == /\ nFaults < MaxFaults
         /\ nFaults' = nFaults + 1

Call(c, n) ==
  /\ pc[c] = "idle"
  /\ nCalls < MaxCalls
  /\ nCalls' = nCalls + 1
  /\ want' = [want EXCEPT ![c] = n]
  /\ floor' = [floor EXCEPT ![c] = top]
  /\ Goto(c, "lock")
  /\ UNCHANGED <<cm, mutex, found, ticket, late, nFaults, nUpdates, lastGen, top, delivered>>

\* Mutant of Lock: the mutex is not taken into account.
LockNothing(c) ==
  /\ pc[c] = "lock"
  /\ mutex' = [mutex EXCEPT ![GenOf[c]] = c]
  /\ Goto(c, "get")
  /\ UNCHANGED <<cm, want, found, ticket, floor, late, nCalls, nFaults, nUpdates, lastGen,
                 top, delivered>>

Lock(c) ==
  /\ pc[c] = "lock"
  /\ mutex[GenOf[c]] = NoCaller
  /\ mutex' = [mutex EXCEPT ![GenOf[c]] = c]
  /\ Goto(c, "get")
  /\ UNCHANGED <<cm, want, found, ticket, floor, late, nCalls, nFaults, nUpdates, lastGen,
                 top, delivered>>

\* getInsIdConfigMap succeeds: the caller has a copy, version included.
Get(c) ==
  /\ pc[c] = "get"
  /\ found' = [found EXCEPT ![c] = cm]
  /\ Goto(c, "read")
  /\ UNCHANGED <<cm, mutex, want, ticket, floor, late, nCalls, nFaults, nUpdates, lastGen,
                 top, delivered>>

\* getInsIdConfigMap fails.
GetFails(c) ==
  /\ pc[c] = "get"
  /\ Fault
  /\ Return(c)
  /\ UNCHANGED <<cm, late, nCalls, nUpdates, lastGen, top, delivered>>

\* strconv.Atoi refuses the stored value.
Unparsable(c) ==
  /\ pc[c] = "read"
  /\ found[c].entry = "garbage"
  /\ Return(c)
  /\ UNCHANGED <<cm, late, nCalls, nFaults, nUpdates, lastGen, top, delivered>>

\* The batch is computed, the copy's counter advanced and Update called.
SendUpdate(c) ==
  /\ pc[c] = "read"
  /\ found[c].entry \in {"absent", "number"}
  /\ Goto(c, "sent")
  /\ UNCHANGED <<cm, mutex, want, found, ticket, floor, late, nCalls, nFaults, nUpdates,
                 lastGen, top, delivered>>

\* Mutants of Store: no resourceVersion is sent along; the counter is moved
\* one short; the counter is moved the wrong way.
StoreAnyway(copy, n) ==
  cm' = [rv |-> cm.rv + 1, entry |-> "number", id |-> CurrentId(copy) + n]
StoreShort(copy, n) ==
  /\ copy.rv = cm.rv
  /\ cm' = [rv |-> cm.rv + 1, entry |-> "number", id |-> CurrentId(copy) + n - 1]
StoreDown(copy, n) ==
  /\ copy.rv = cm.rv
  /\ cm' = [rv |-> cm.rv + 1, entry |-> "number", id |-> CurrentId(copy) - 2 * n]

\* The API server stores a copy whose counter was advanced by n; the version
\* of the copy has to be the current one.
Store(copy, n) ==
  /\ copy.rv = cm.rv
  /\ cm' = [rv |-> cm.rv + 1, entry |-> "number", id |-> CurrentId(copy) + n]

ApplyUpdate(c) ==
  /\ pc[c] = "sent"
  /\ Store(found[c], want[c])
  /\ nUpdates' = nUpdates + 1
  /\ ticket' = [ticket EXCEPT ![c] = nUpdates + 1]
  /\ lastGen' = GenOf[c]
  /\ Goto(c, "applied")
  /\ UNCHANGED <<mutex, want, found, floor, late, nCalls, nFaults, top, delivered>>

\* The API server answers with a conflict.
Conflict(c) ==
  /\ pc[c] = "sent"
  /\ found[c].rv # cm.rv
  /\ Goto(c, "failed")
  /\ UNCHANGED <<cm, mutex, want, found, ticket, floor, late, nCalls, nFaults, nUpdates,
                 lastGen, top, delivered>>

\* Requests of the callers in S that the API server has not seen yet.
Unseen(S) == {[copy |-> found[c], n |-> want[c]] : c \in {d \in S : pc[d] = "sent"}}

\* Update fails in transit: the request, or the answer to it, is late.
UpdateLost(c) ==
  /\ pc[c] \in {"sent", "applied"}
  /\ Fault
  /\ late' = late \cup Unseen({c})
  /\ Goto(c, "failed")
  /\ UNCHANGED <<cm, mutex, want, found, ticket, floor, nCalls, nUpdates, lastGen, top,
                 delivered>>

\* A request nobody waits for arrives, and is applied after all.
ApplyLate(r) ==
  /\ Store(r.copy, r.n)
  /\ late' = late \ {r}
  /\ lastGen' = NoGen
  /\ UNCHANGED <<callVars, nCalls, nFaults, nUpdates, top, delivered>>

\* Update returned nil: the batch goes to the caller.
ReturnIds(c) ==
  /\ pc[c] = "applied"
  /\ delivered' = delivered \cup {Batch(c)}
  /\ top' = IF EndOf(Batch(c)) > top THEN EndOf(Batch(c)) ELSE top
  /\ Return(c)
  /\ UNCHANGED <<cm, late, nCalls, nFaults, nUpdates, lastGen>>

\* Mutant of ReturnError: the error of Update is dropped.
ReturnAnyway(c) ==
  /\ pc[c] = "failed"
  /\ delivered' = delivered \cup {Batch(c)}
  /\ top' = IF EndOf(Batch(c)) > top THEN EndOf(Batch(c)) ELSE top
  /\ Return(c)
  /\ UNCHANGED <<cm, late, nCalls, nFaults, nUpdates, lastGen>>

\* Update returned an error: so does the call, with no ids.
ReturnError(c) ==
  /\ pc[c] = "failed"
  /\ Return(c)
  /\ UNCHANGED <<cm, late, nCalls, nFaults, nUpdates, lastGen, top, delivered>>

\* The process of generator g ends and is started again: its goroutines and
\* its mutex are gone, what it sent to the API server is not.
Restart(g) ==
  LET dead == {c \in Callers : GenOf[c] = g} IN
  /\ mutex' = [mutex EXCEPT ![g] = NoCaller]
  /\ late' = late \cup Unseen(dead)
  /\ pc' = [c \in Callers |-> IF c \in dead THEN "idle" ELSE pc[c]]
  /\ want' = [c \in Callers |-> IF c \in dead THEN 0 ELSE want[c]]
  /\ found' = [c \in Callers |-> IF c \in dead THEN NoConfigMap ELSE found[c]]
  /\ floor' = [c \in Callers |-> IF c \in dead THEN 0 ELSE floor[c]]
  /\ ticket' = [c \in Callers |-> IF c \in dead THEN 0 ELSE ticket[c]]
  /\ UNCHANGED <<cm, nCalls, nUpdates, lastGen, top, delivered>>

Crash(g) == Fault /\ Restart(g)

\* Data is a nil map: storing the counter panics, which ends the process.
Panic(c) ==
  /\ pc[c] = "read"
  /\ found[c].entry = "nodata"
  /\ Restart(GenOf[c])
  /\ UNCHANGED nFaults

\* The ports' cursor is another entry of Data when PortRangeCmName names the
\* same ConfigMap: writing it moves the version and leaves the id alone.
WriteOtherEntry ==
  /\ cm.entry # "nodata"
  /\ Fault
  /\ cm' = [rv |-> cm.rv + 1, entry |-> cm.entry, id |-> cm.id]
  /\ lastGen' = NoGen
  /\ UNCHANGED <<callVars, late, nCalls, nUpdates, top, delivered>>

Step(c) == \/ Lock(c)
           \/ Get(c) \/ GetFails(c)
           \/ Unparsable(c) \/ Panic(c) \/ SendUpdate(c)
           \/ ApplyUpdate(c) \/ Conflict(c) \/ UpdateLost(c)
           \/ ReturnIds(c) \/ ReturnError(c)

Next == \/ \E c \in Callers : Step(c) \/ \E n \in Batches : Call(c, n)
        \/ \E g \in Generators : Crash(g)
        \/ \E r \in late : ApplyLate(r)
        \/ WriteOtherEntry

Spec == Init /\ [][Next]_vars

(***************************************************************************)
(* Fairness: a goroutine that can run does, an HTTP request is answered or *)
(* fails, and sync.Mutex (starvation mode) serves every waiter in the end. *)
(* Nothing makes a caller call or a process crash.                         *)
(***************************************************************************)
Fairness == \A c \in Callers : WF_vars(Step(c)) /\ SF_vars(Lock(c))

FairSpec == Spec /\ Fairness
-----------------------------------------------------------------------------
\* Types: the version and the counter are numbers whatever form the entry has.
TypeOK ==
  /\ cm \in ConfigMaps
  /\ mutex \in [Generators -> Callers \cup {NoCaller}]
  /\ pc \in [Callers -> PcValues]
  /\ want \in [Callers -> Nat]
  /\ found \in [Callers -> ConfigMaps]
  /\ late \subseteq [copy : ConfigMaps, n : Nat]
  /\ nCalls \in Nat
  /\ nFaults \in Nat
  /\ nUpdates \in Nat
  /\ lastGen \in Generators \cup {NoGen}
  /\ top \in Nat
  /\ ticket \in [Callers -> Nat]
  /\ floor \in [Callers -> Nat]
  /\ delivered \subseteq [first : Nat, n : Nat, by : Nat]

\* No id is handed out twice, whichever generators, processes and failed
\* calls the two batches went through: the reason for the conditional Update
\* in GetNextClusterScopeHostInsIds.
IdsUnique ==
  \A a, b \in delivered : a # b => EndOf(a) <= b.first \/ EndOf(b) <= a.first

\* Ids follow real time: a call that began after another had returned gets
\* only larger ids, although the two may have used different generators and
\* different copies of the ConfigMap.
IdsFollowCallOrder ==
  \A c \in Callers : pc[c] = "applied" => floor[c] <= CurrentId(found[c])

\* The counter of the ConfigMap never goes back and never loses its number:
\* whatever fails, ids already written off stay written off.
CounterNeverGoesBack ==
  [][/\ CurrentId(cm') >= CurrentId(cm)
     /\ cm.entry = "number" => cm'.entry = "number"]_cm

\* What the mutex is for: goroutines that share a generator never make each
\* other fail.  A live Update only meets a conflict when the last write came
\* from another generator, from a request its caller had abandoned, or from
\* the writer of another entry of the ConfigMap.
NoConflictWithinGenerator ==
  \A c \in Callers :
    pc[c] = "sent" /\ found[c].rv # cm.rv => lastGen # GenOf[c]

\* Every call ends: with ids, with an error, or with its process.  No error
\* path keeps the mutex.
CallsEnd == \A c \in Callers : pc[c] # "idle" ~> pc[c] = "idle"

(***************************************************************************)
(* Refinement: the line of ids is the counter, and a batch is in hand from *)
(* the moment the API server applied the update until the caller returns.  *)
(***************************************************************************)
InHand(c) == IF pc[c] = "applied" THEN Batch(c)
             ELSE [first |-> 0, n |-> 0, by |-> 0]

Ids == INSTANCE IdService WITH
         FirstIds <- StoredIds \cup {DefaultId},
         nextId <- CurrentId(cm),
         hand <- [c \in Callers |-> InHand(c)],
         taken <- nUpdates

\* The generators together implement the service IdService describes: a batch
\* is cut atomically at the counter and delivered at most once, to the caller
\* it was cut for.
ImplementsIdService == Ids!IdSpec
=============================================================================
