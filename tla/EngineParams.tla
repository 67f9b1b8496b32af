---------------------------- MODULE EngineParams ----------------------------
(***************************************************************************)
(* The life of the engine parameters of one cluster:                       *)
(* business/adapter/engine_params_repository.go and its callers in         *)
(* business/domain/db_cluster_base.go.                                     *)
(*                                                                         *)
(* Two ConfigMaps hold parameters: "user" what they should be, "running"   *)
(* what the engine reports.  Every value has the time of its last change,  *)
(* and the user ConfigMap the time of the last successful flush; from      *)
(* these times GetEffectiveParams concludes what is still to be flushed.   *)
(* The operator runs one workflow at a time on the cluster: it installs    *)
(* the ConfigMaps, flushes parameters to the engine, builds an instance    *)
(* anew, or adapts the user parameters to a new class.  A workflow that    *)
(* fails, or whose process crashes, may be run again from the start.       *)
(*                                                                         *)
(* Outside of the repository are the console, where a user edits           *)
(* parameters, the ClusterManager, which records the running ones, and the *)
(* engine.                                                                 *)
(***************************************************************************)
EXTENDS EffectiveParams

CONSTANTS Params, Values,
          Template,     \* the parameter template
          ClassParams,  \* ClassParams[c]: the parameters of class c
          Choices,      \* values a user may give to a changeable parameter
          Plain,        \* Plain[v]: what the engine reports when v was set, without quotes
          Reloadable,   \* parameters the engine takes over without a restart
          CanUpdate,    \* GetCanUpdateNotChangeableParams
          EditsWait,    \* users and class changes wait until nothing is in progress
          MaxTime,      \* bound: seconds
          MaxEdits,     \* bound: edits and class changes
          MaxFlows,     \* bound: workflows begun after the installation
          MaxFaults     \* bound: failures and crashes

Classes == DOMAIN ClassParams

ASSUME ConstantsAssumption ==
  /\ DOMAIN Template \subseteq Params
  /\ Template \in [DOMAIN Template -> [default : Values, dynamic : BOOLEAN, changeable : BOOLEAN,
                                       deleted : BOOLEAN, quoted : BOOLEAN]]
  /\ \A c \in Classes : /\ DOMAIN ClassParams[c] \subseteq Params
                         /\ ClassParams[c] \in [DOMAIN ClassParams[c] -> Values]
  /\ \A p \in DOMAIN Template : Template[p].dynamic => p \in Reloadable
  /\ \A c \in Classes : DOMAIN ClassParams[c] \ DOMAIN Template \subseteq Reloadable
  /\ Choices \subseteq Values
  /\ NoValue \in Values /\ InQuotes \subseteq Values /\ HasSplit \subseteq Values
  /\ WithQuotes \in [Values -> Values] /\ Plain \in [Values -> Values]
  /\ \A v \in Values : Plain[Plain[v]] = Plain[v] /\ Plain[WithQuotes[v]] = Plain[v]
  /\ CanUpdate \in BOOLEAN /\ EditsWait \in BOOLEAN
  /\ MaxTime \in Nat /\ MaxEdits \in Nat /\ MaxFlows \in Nat /\ MaxFaults \in Nat

VARIABLES
  user,      \* the user ConfigMap
  running,   \* the running ConfigMap
  engine,    \* config: what was flushed, live: what is in effect, up: it runs
  class,     \* the class the cluster had and the one it has
  now,       \* the clock, in seconds: the resolution of the time stamps
  pc,        \* where the workflow is
  inop,      \* the workflow builds an instance anew
  seen,      \* user ConfigMap as the workflow has read it, later as it writes it
  ran,       \* running parameters as the workflow has read them
  late,      \* Updates in flight whose process is gone
  \* observation only
  settled,   \* a flush has succeeded, and since then nothing was to be flushed
  nEdits, nFlows, nFaults

flowVars == <<pc, inop, seen, ran>>
vars == <<user, running, engine, class, now, flowVars, late, settled, nEdits, nFlows, nFaults>>

Installing == {"none", "dropUser", "createUser", "dropRunning", "createRunning"}
Flushing == {"flush", "readRunning", "start", "apply", "stop", "restart"}
Saving == {"saveGet", "savePut"}
Modifying == {"modify", "modifyRead", "modifyGet", "modifyPut"}

\* m is a map from parameters to T.
IsMap(m, T) == DOMAIN m \subseteq Params /\ m \in [DOMAIN m -> T]
UserItem == [value : Values, time : Nat]
RunningItem == [value : Values, time : Nat, inop : Values]
IsUserMap(m) ==
  /\ m = [there |-> m.there, rv |-> m.rv, items |-> m.items, flush |-> m.flush]
  /\ m.there \in BOOLEAN /\ m.rv \in Nat /\ IsMap(m.items, UserItem) /\ m.flush \in Nat
NoMap == [p \in {} |-> 0]

NoCopy == [there |-> FALSE, rv |-> 0, items |-> NoMap, flush |-> 0]

\* What was read is gone with the function that has read it.
Forget == seen' = NoCopy /\ ran' = NoMap /\ inop' = FALSE

Templates == [c \in Classes |-> ClassTemplate(Template, ClassParams[c])]
Tmpl == Templates[class.new]
Fresh == InitParams(Template, ClassParams[class.new])

Init ==
  /\ user = NoCopy
  /\ running = [there |-> FALSE, items |-> NoMap]
  /\ engine = [config |-> [p \in Params |-> NoValue], live |-> [p \in Params |-> NoValue],
               up |-> FALSE]
  /\ \E c \in Classes : class = [old |-> c, new |-> c]
  /\ now = 1
  /\ pc = "none" /\ inop = FALSE
  /\ seen = NoCopy /\ ran = NoMap
  /\ late = {}
  /\ settled = FALSE
  /\ nEdits = 0 /\ nFlows = 0 /\ nFaults = 0

Fault == /\ nFaults < MaxFaults
         /\ nFaults' = nFaults + 1
Flow == /\ nFlows < MaxFlows
        /\ nFlows' = nFlows + 1
-----------------------------------------------------------------------------
(***************************************************************************)
(* InitEngineParams: createParamsConfigMap, for the user parameters and    *)
(* then for the running ones.  What an earlier attempt left is deleted     *)
(* first.                                                                  *)
(***************************************************************************)
\* Mutant of DropUser: what an earlier attempt left is in the way.
DropNothing ==
  /\ pc \in {"none", "dropUser"}
  /\ pc' = "createUser"
  /\ UNCHANGED <<user, running, engine, class, now, inop, seen, ran, late, settled, nEdits,
                 nFlows, nFaults>>

DropUser ==
  /\ pc \in {"none", "dropUser"}
  /\ user' = [there |-> FALSE, rv |-> user.rv, items |-> NoMap, flush |-> 0]
  /\ pc' = "createUser"
  /\ UNCHANGED <<running, engine, class, now, inop, seen, ran, late, settled, nEdits, nFlows,
                 nFaults>>

CreateUser ==
  /\ pc = "createUser" /\ ~user.there
  /\ user' = [there |-> TRUE, rv |-> user.rv + 1, flush |-> 0,
              items |-> [p \in DOMAIN Fresh |-> [value |-> Fresh[p], time |-> now]]]
  /\ pc' = "dropRunning"
  /\ UNCHANGED <<running, engine, class, now, inop, seen, ran, late, settled, nEdits, nFlows,
                 nFaults>>

\* Mutant of DropRunning: what an earlier attempt left is kept.
KeepRunning ==
  /\ pc = "dropRunning"
  /\ pc' = IF running.there THEN "idle" ELSE "createRunning"
  /\ UNCHANGED <<user, running, engine, class, now, inop, seen, ran, late, settled, nEdits,
                 nFlows, nFaults>>

DropRunning ==
  /\ pc = "dropRunning"
  /\ running' = [there |-> FALSE, items |-> NoMap]
  /\ pc' = "createRunning"
  /\ UNCHANGED <<user, engine, class, now, inop, seen, ran, late, settled, nEdits, nFlows,
                 nFaults>>

\* The engine is installed with the parameters the ConfigMaps were given; the
\* answer may be lost, so that the installation is run again.
CreateRunning ==
  /\ pc = "createRunning" /\ ~running.there
  /\ running' = [there |-> TRUE,
                 items |-> [p \in DOMAIN Fresh |->
                              [value |-> Fresh[p], time |-> now, inop |-> NoValue]]]
  /\ \/ /\ pc' = "idle"
        /\ LET set == [p \in Params |-> IF p \in DOMAIN Fresh THEN Fresh[p] ELSE NoValue]
           IN engine' = [config |-> set, live |-> set, up |-> TRUE]
        /\ settled' = TRUE
        /\ UNCHANGED nFaults
     \/ Fault /\ pc' = "none" /\ UNCHANGED <<engine, settled>>
  /\ UNCHANGED <<user, class, now, inop, seen, ran, late, nEdits, nFlows>>
-----------------------------------------------------------------------------
(***************************************************************************)
(* FlushParams, and the flush that builds an instance anew.  Both read the *)
(* two ConfigMaps one after the other, and hand the effective parameters   *)
(* to the engine.                                                          *)
(***************************************************************************)
Reported(p) == Plain[engine.live[p]]

\* The running parameters show the engine.
UpToDate ==
  \A p \in DOMAIN running.items : running.items[p].value = Reported(p)

\* Nothing is in progress or half done, and the last change to the running
\* parameters is not of this second.
Quiet ==
  /\ pc = "idle" /\ \A copy \in late : copy.rv # user.rv
  /\ engine.up /\ engine.config = engine.live /\ UpToDate
  /\ \A p \in DOMAIN running.items : running.items[p].time < now

\* The operator begins a workflow.
Begin(l, new) ==
  /\ pc = "idle"
  /\ l = "modify" /\ EditsWait => Quiet
  /\ Flow
  /\ pc' = l /\ inop' = new
  /\ UNCHANGED <<user, running, engine, class, now, seen, ran, late, settled, nEdits, nFaults>>

\* GetUserParams, on behalf of a flush or of ModifyClassParams.
ReadUser ==
  /\ pc \in {"flush", "modify"}
  /\ seen' = user
  /\ pc' = IF pc = "flush" THEN "readRunning" ELSE "modifyRead"
  /\ UNCHANGED <<user, running, engine, class, now, inop, ran, late, settled, nEdits, nFlows,
                 nFaults>>

\* GetRunningParams; a flush then asks for the engine's health, which is not
\* there after a restart that was cut short.
ReadRunning ==
  /\ pc = "readRunning"
  /\ ran' = running.items
  /\ pc' = IF MergePanics(seen.items, ran', inop) THEN "flush"
           ELSE IF engine.up \/ inop THEN "apply" ELSE "start"
  /\ UNCHANGED <<user, running, engine, class, now, inop, seen, late, settled, nEdits, nFlows,
                 nFaults>>

Started(e) == [e EXCEPT !.live = e.config, !.up = TRUE]

StartFirst ==
  /\ pc = "start"
  /\ engine' = Started(engine)
  /\ pc' = "apply"
  /\ UNCHANGED <<user, running, class, now, inop, seen, ran, late, settled, nEdits, nFlows,
                 nFaults>>

Effective == GetEffectiveParams(Tmpl, seen.items, seen.flush, ran, inop, CanUpdate)

\* Mutant of Configured: what the flush does not mention is forgotten.
ConfiguredOnly(new) == [engine EXCEPT !.config = new, !.live = new]

\* UpdateEngineParams: what can change while the engine runs does.
Configured(new) ==
  [engine EXCEPT
     !.config = [p \in Params |-> IF p \in DOMAIN new THEN new[p] ELSE @[p]],
     !.live = [p \in Params |-> IF p \in DOMAIN new /\ p \in Reloadable THEN new[p] ELSE @[p]]]

Apply ==
  /\ pc = "apply" /\ ~inop
  /\ \E e \in {Effective} :
       /\ engine' = Configured(e.params)
       /\ pc' = IF e.needRestart THEN "stop" ELSE "saveGet"
  /\ Forget
  /\ UNCHANGED <<user, running, class, now, late, settled, nEdits, nFlows, nFaults>>

\* A new instance starts with its parameters; no flush is recorded.
Build ==
  /\ pc = "apply" /\ inop
  /\ \E e \in {Effective} : engine' = Started(Configured(e.params))
  /\ pc' = "idle" /\ Forget
  /\ UNCHANGED <<user, running, class, now, late, settled, nEdits, nFlows, nFaults>>

Stop ==
  /\ pc = "stop"
  /\ engine' = [engine EXCEPT !.up = FALSE]
  /\ pc' = "restart"
  /\ UNCHANGED <<user, running, class, now, inop, seen, ran, late, settled, nEdits, nFlows,
                 nFaults>>

Restart ==
  /\ pc = "restart"
  /\ engine' = Started(engine)
  /\ pc' = "saveGet"
  /\ UNCHANGED <<user, running, class, now, inop, seen, ran, late, settled, nEdits, nFlows,
                 nFaults>>

\* SaveLatestFlushTime, the step that follows a flush that has succeeded.
SaveGet ==
  /\ pc = "saveGet"
  /\ seen' = [user EXCEPT !.flush = now]
  /\ pc' = "savePut"
  /\ UNCHANGED <<user, running, engine, class, now, inop, ran, late, settled, nEdits, nFlows,
                 nFaults>>

\* Mutant of Store: no resourceVersion is sent along.
StoreAnyway(copy) == user' = [copy EXCEPT !.rv = user.rv + 1]

\* UpdateConfigMap: the API server takes a copy that is current.
Store(copy) ==
  /\ copy.rv = user.rv
  /\ user' = [copy EXCEPT !.rv = @ + 1]

SavePut ==
  /\ pc = "savePut"
  /\ Store(seen)
  /\ settled' = TRUE
  /\ pc' = "idle" /\ Forget
  /\ UNCHANGED <<running, engine, class, now, late, nEdits, nFlows, nFaults>>
-----------------------------------------------------------------------------
(***************************************************************************)
(* ModifyClassParams                                                       *)
(***************************************************************************)
EffectiveUser ==
  GetEffectiveUserParams(Tmpl, seen.items, ran, ClassParams[class.old], ClassParams[class.new],
                         class.old # class.new, FALSE, CanUpdate)

\* GetRunningParams; nothing more to do if nothing changes.
ModifyRead ==
  /\ pc = "modifyRead"
  /\ IF Overridden(Tmpl, seen.items, ClassParams[class.old], ClassParams[class.new],
                   class.old # class.new, FALSE, CanUpdate) = {}
     THEN pc' = "idle" /\ Forget
     ELSE pc' = "modifyGet" /\ ran' = running.items /\ UNCHANGED <<inop, seen>>
  /\ UNCHANGED <<user, running, engine, class, now, late, settled, nEdits, nFlows, nFaults>>

\* Mutant of Adapted: a value that is to be flushed keeps its old time.
AdaptedAsBefore(new, items) ==
  [p \in DOMAIN items \cap DOMAIN new |-> [items[p] EXCEPT !.value = new[p].value]]

\* updateUserParams: the ConfigMap is read a second time.  Parameters the
\* first reading did not have are removed, those with another value are set.
Adapted(new, items) ==
  [p \in DOMAIN items \cap DOMAIN new |->
     LET e == new[p] IN
     IF e.value = items[p].value THEN items[p]
     ELSE [value |-> e.value, time |-> IF e.needFlush THEN now ELSE e.time]]

ModifyGet ==
  /\ pc = "modifyGet"
  /\ \E items \in {Adapted(new, user.items) : new \in {EffectiveUser.params}} :
       IF items = user.items
       THEN pc' = "idle" /\ Forget
       ELSE /\ pc' = "modifyPut" /\ seen' = [user EXCEPT !.items = items]
            /\ ran' = NoMap /\ UNCHANGED inop
  /\ UNCHANGED <<user, running, engine, class, now, late, settled, nEdits, nFlows, nFaults>>

ModifyPut ==
  /\ pc = "modifyPut"
  /\ Store(seen)
  /\ settled' = FALSE
  /\ pc' = "idle" /\ Forget
  /\ UNCHANGED <<running, engine, class, now, late, nEdits, nFlows, nFaults>>

\* The step of the workflow is run again; the workflow does not go on without.
Abandon ==
  /\ pc' = CASE pc \in Installing -> "none"
            [] pc \in Saving     -> "saveGet"
            [] pc \in Flushing   -> "flush"
            [] pc \in Modifying  -> "modify"
  /\ seen' = NoCopy /\ ran' = NoMap
  /\ UNCHANGED <<user, running, engine, class, now, inop, settled, nEdits, nFlows>>

\* The API server refuses a copy that is old.
Conflict ==
  /\ pc \in {"savePut", "modifyPut"}
  /\ seen.rv # user.rv
  /\ Abandon
  /\ UNCHANGED <<late, nFaults>>

\* A step fails or the process crashes; an Update that was sent may arrive.
Fail ==
  /\ pc \notin {"none", "idle", "saveGet", "flush", "modify"}
  /\ Fault
  /\ late' \in {late, late \cup (IF pc \in {"savePut", "modifyPut"} THEN {seen} ELSE {})}
  /\ Abandon

ApplyLate(copy) ==
  /\ Store(copy)
  /\ late' = late \ {copy}
  /\ settled' = (settled /\ copy.items = user.items)
  /\ UNCHANGED <<running, engine, class, now, flowVars, nEdits, nFlows, nFaults>>
-----------------------------------------------------------------------------
(***************************************************************************)
(* Console, ClusterManager, clock                                          *)
(***************************************************************************)
MayChange == nEdits < MaxEdits /\ (EditsWait => Quiet)

\* "User and running parameters have to agree" when the class changes, "which is
\* to be checked before" (db_cluster_base.go:460).
Agreed ==
  \A p \in DOMAIN running.items \ IgnoreParams :
    p \in DOMAIN user.items => Plain[user.items[p].value] = running.items[p].value

\* The console stores a value for a parameter that may be changed.
Edit(p, v) ==
  /\ user.there /\ pc \notin Installing
  /\ MayChange /\ nEdits' = nEdits + 1
  /\ user' = [user EXCEPT !.rv = @ + 1, !.items[p] = [value |-> v, time |-> now]]
  /\ settled' = FALSE
  /\ UNCHANGED <<running, engine, class, now, flowVars, late, nFlows, nFaults>>

\* The cluster is given another class, which a workflow takes up later.
ChangeClass(c) ==
  /\ pc = "none" \/ (pc = "idle" /\ MayChange /\ (EditsWait => Agreed))
  /\ nEdits < MaxEdits /\ nEdits' = nEdits + 1
  /\ c # class.new
  /\ class' = [old |-> IF pc = "none" THEN c ELSE class.new, new |-> c]
  /\ settled' = FALSE
  /\ UNCHANGED <<user, running, engine, now, flowVars, late, nFlows, nFaults>>

\* ClusterManager: a value gets the current time when it changes.
Refresh ==
  /\ running.there /\ engine.up
  /\ pc \notin Installing
  /\ LET wait(p) == IF engine.config[p] = engine.live[p] THEN NoValue
                    ELSE Plain[engine.config[p]] IN
     running' = [running EXCEPT !.items =
       [p \in DOMAIN @ |->
          IF @[p].value = Reported(p) THEN [@[p] EXCEPT !.inop = wait(p)]
          ELSE [value |-> Reported(p), time |-> now, inop |-> wait(p)]]]
  /\ running' # running
  /\ UNCHANGED <<user, engine, class, now, flowVars, late, settled, nEdits, nFlows, nFaults>>

Tick ==
  /\ now < MaxTime
  /\ now' = now + 1
  /\ UNCHANGED <<user, running, engine, class, flowVars, late, settled, nEdits, nFlows, nFaults>>

Work == \/ DropUser \/ CreateUser \/ DropRunning \/ CreateRunning
        \/ ReadUser \/ ReadRunning \/ StartFirst \/ Apply \/ Build \/ Stop \/ Restart
        \/ SaveGet \/ SavePut
        \/ ModifyRead \/ ModifyGet \/ ModifyPut
        \/ Conflict

Changeable == {p \in DOMAIN user.items : p \in DOMAIN Tmpl /\ Tmpl[p].changeable}

Next == \/ Work \/ Fail
        \/ Begin("flush", FALSE) \/ Begin("flush", TRUE) \/ Begin("modify", FALSE)
        \/ \E copy \in late : ApplyLate(copy)
        \/ \E p \in Changeable, v \in Choices : Edit(p, v)
        \/ \E c \in Classes : ChangeClass(c)
        \/ Refresh
        \/ Tick

Spec == Init /\ [][Next]_vars

FairSpec == Spec /\ WF_vars(Work)
-----------------------------------------------------------------------------
\* Types: only parameters the template knows are stored, in either ConfigMap.
TypeOK ==
  /\ \A m \in {user, seen} \cup late : IsUserMap(m)
  /\ running = [there |-> running.there, items |-> running.items]
  /\ running.there \in BOOLEAN /\ IsMap(running.items, RunningItem)
  /\ IsMap(ran, RunningItem)
  /\ engine \in [config : [Params -> Values], live : [Params -> Values], up : BOOLEAN]
  /\ class \in [old : Classes, new : Classes]
  /\ now \in Nat
  /\ pc \in Installing \cup Flushing \cup Saving \cup Modifying \cup {"idle"}
  /\ inop \in BOOLEAN /\ settled \in BOOLEAN
  /\ nEdits \in Nat /\ nFlows \in Nat /\ nFaults \in Nat

\* An installation that succeeds leaves two ConfigMaps with the same values,
\* whatever earlier attempts left behind when they failed between two steps,
\* and although the class may have been changed since.
InstallIsConsistent ==
  [][pc' = "idle" /\ pc \in Installing =>
       /\ user'.there /\ running'.there
       /\ DOMAIN user'.items = DOMAIN running'.items
       /\ (\A p \in DOMAIN user'.items : user'.items[p].value = running'.items[p].value)]_vars

\* What users and template want of p.
Wanted(p) ==
  IF Insists(Tmpl, CanUpdate, p, user.items[p].value) THEN Tmpl[p].default
  ELSE user.items[p].value

\* When a flush has succeeded and nothing was changed since, the engine runs
\* with the wanted value of every parameter that flushes do not ignore
\* (db_cluster_base.go:347): no change was taken for flushed because of the
\* times, and no change of a parameter that needs a restart went without.
\* Failures, retries, restarts cut short, instances built anew and late writes
\* do not matter.
AppliedWhenSettled ==
  settled /\ engine.up =>
    \A p \in DOMAIN user.items \ IgnoreParams : Reported(p) = Plain[Wanted(p)]

\* The time of the last flush is not set back, and no write, late or of a copy
\* that is old, loses it, but for a new installation.
FlushTimeNeverGoesBack ==
  [][user.there /\ user'.there => (user'.flush >= user.flush)]_user

\* ModifyClassParams replaces a value the user may change only where the user
\* has left the default of the old class (db_cluster_base.go:529): "the current
\* UserParams are merged" (db_cluster_base.go:462), so an edit is never undone.
OnlyClassDefaultsReplaced ==
  [][pc = "modifyPut" /\ pc' = "idle" =>
       \A p \in Changeable \cap DOMAIN user'.items :
         user'.items[p].value # user.items[p].value =>
           user.items[p].value = ClassValue(ClassParams[class.old], p)]_vars

\* When a parameter is passed over because a flush has succeeded since, "the
\* flush of this parameter has been executed already, its value did not
\* change" (db_cluster_base.go:358): the engine has been given the value.
PassedOverMeansFlushed ==
  pc \notin Installing =>
    \A p \in (Changeable \cap DOMAIN running.items) \ IgnoreParams :
      /\ UserNewer(user.items, running.items, p)
      /\ FlushedSince(user.items, user.flush, p)
      => Plain[engine.config[p]] = Plain[user.items[p].value]

\* When the running value is not older, "the user has not changed" the
\* parameter (db_cluster_base.go:375): it is the user's value that runs, or
\* that waits for a restart.
NotNewerMeansUnchanged ==
  pc \notin Installing =>
    \A p \in (Changeable \cap DOMAIN running.items) \ IgnoreParams :
      ~UserNewer(user.items, running.items, p) =>
        Plain[user.items[p].value] \in {Plain[running.items[p].value], running.items[p].inop}

\* Every workflow ends, the installation with both ConfigMaps there, after any
\* number of failures between its steps: nothing an attempt leaves behind is in
\* the way of the next, and a write that was refused is prepared anew.
WorkflowsEnd == pc # "idle" ~> pc = "idle" /\ user.there /\ running.there
=============================================================================
