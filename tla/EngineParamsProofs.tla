------------------------- MODULE EngineParamsProofs -------------------------
(***************************************************************************)
(* Proofs about EngineParams for any template, classes, parameters and     *)
(* values, and any number of edits, workflows, failures and seconds.       *)
(***************************************************************************)
EXTENDS EngineParams, EffectiveParamsProofs

(***************************************************************************)
(* The inductive invariant                                                 *)
(***************************************************************************)
\* What may still be written to the user ConfigMap.
Copies == late \cup (IF pc \in {"savePut", "modifyPut"} THEN {seen} ELSE {})

\* A copy that the API server would take has not lost a flush, and no flush is
\* of the future.
Versions ==
  /\ user.flush <= now
  /\ seen.rv <= user.rv
  /\ \A copy \in Copies : /\ copy.rv <= user.rv /\ copy.flush <= now
                          /\ copy.rv = user.rv => user.flush <= copy.flush

\* The user parameters are those of the class while the running ones are
\* installed, and no write is under way.
Installed ==
  pc \in Installing =>
    /\ late = {}
    /\ pc \in {"dropRunning", "createRunning"} =>
         /\ user.there /\ DOMAIN user.items = DOMAIN Fresh
         /\ \A p \in DOMAIN Fresh : user.items[p].value = Fresh[p]

\* What ModifyClassParams replaces in user parameters u, and by what, for the
\* classes c of the cluster.
Replaced(c, u) ==
  Overridden(Templates[c.new], u, ClassParams[c.old], ClassParams[c.new], c.old # c.new, FALSE,
             CanUpdate)
Target(c, u, p) == IF p \in Replaced(c, u) THEN Templates[c.new][p].default ELSE u[p].value

\* m is what ModifyClassParams makes of u.
Adapts(c, m, u) == DOMAIN m = DOMAIN u /\ \A p \in DOMAIN m : m[p].value = Target(c, u, p)

Stale == \A copy \in late : copy.rv # user.rv

\* When nothing is edited meanwhile, what is read is current, or else a write of
\* an earlier attempt has arrived in between, which has done the work already.
Merging ==
  EditsWait =>
    /\ pc \in {"modifyRead", "modifyGet"} =>
         \/ seen.items = user.items
         \/ Adapts(class, user.items, seen.items) /\ Stale
    /\ pc = "modifyPut" /\ seen.rv = user.rv => Adapts(class, seen.items, user.items)
    /\ pc \in Modifying =>
         \A copy \in late : copy.rv = user.rv => Adapts(class, copy.items, user.items)

IndInv == TypeOK /\ Versions /\ Installed /\ Merging

-----------------------------------------------------------------------------
(***************************************************************************)
(* Types                                                                   *)
(***************************************************************************)
LEMMA ItemTypes ==
  UserItem = UserItems(Values) /\ RunningItem = RunningItems(Values)
  BY DEF UserItem, UserItems, RunningItem, RunningItems

\* The template of the class, and what an installation starts with.
LEMMA TemplateType ==
  ASSUME class.new \in Classes
  PROVE  /\ Tmpl \in [DOMAIN Tmpl -> TemplateItems(Values)] /\ DOMAIN Tmpl \subseteq Params
         /\ Fresh \in [DOMAIN Fresh -> Values] /\ DOMAIN Fresh \subseteq Params
  <1> DEFINE cp == ClassParams[class.new]
  <1>1. /\ Template \in [DOMAIN Template -> TemplateItems(Values)]
        /\ DOMAIN Template \subseteq Params
    BY ConstantsAssumption DEF ConstantsAssumption, TemplateItems
  <1>2. cp \in [DOMAIN cp -> Values] /\ DOMAIN cp \subseteq Params
    BY ConstantsAssumption DEF ConstantsAssumption
  <1>3. Tmpl = ClassTemplate(Template, cp)
    BY DEF Tmpl, Templates
  <1>4. DOMAIN ClassTemplate(Template, cp) = DOMAIN Template \cup DOMAIN cp
    BY DEF ClassTemplate
  <1>5. DOMAIN InitParams(Template, cp) = DOMAIN Template \cup DOMAIN cp
    BY DEF InitParams
  <1>6. /\ ClassTemplate(Template, cp)
             \in [DOMAIN Template \cup DOMAIN cp -> TemplateItems(Values)]
        /\ InitParams(Template, cp) \in [DOMAIN Template \cup DOMAIN cp -> Values]
    BY <1>1, <1>2, TemplateAndClassAgree
  <1>7. QED
    BY <1>1, <1>2, <1>3, <1>4, <1>5, <1>6 DEF Fresh

LEMMA EmptyMaps ==
  /\ IsUserMap(NoCopy) /\ IsMap(NoMap, RunningItem) /\ IsMap(NoMap, UserItem)
  BY DEF IsUserMap, IsMap, NoCopy, NoMap

\* A ConfigMap of a known shape.
LEMMA UserMapType ==
  ASSUME NEW there \in BOOLEAN, NEW rv \in Nat, NEW items, IsMap(items, UserItem),
         NEW flush \in Nat
  PROVE  IsUserMap([there |-> there, rv |-> rv, items |-> items, flush |-> flush])
  BY DEF IsUserMap

LEMMA UserMapParts ==
  ASSUME NEW m, IsUserMap(m)
  PROVE  /\ m = [there |-> m.there, rv |-> m.rv, items |-> m.items, flush |-> m.flush]
         /\ m.there \in BOOLEAN /\ m.rv \in Nat /\ IsMap(m.items, UserItem) /\ m.flush \in Nat
  BY DEF IsUserMap

\* The effective parameters are values of known parameters.
LEMMA EffectiveIsMap ==
  ASSUME TypeOK
  PROVE  IsMap(Effective.params, Values)
  <1>1. /\ seen.items \in [DOMAIN seen.items -> UserItems(Values)]
        /\ DOMAIN seen.items \subseteq Params
        /\ ran \in [DOMAIN ran -> RunningItems(Values)]
    BY ItemTypes DEF TypeOK, IsUserMap, IsMap
  <1>2. Tmpl \in [DOMAIN Tmpl -> TemplateItems(Values)]
    BY TemplateType DEF TypeOK
  <1>3. NoValue \in Values /\ WithQuotes \in [Values -> Values]
    BY ConstantsAssumption DEF ConstantsAssumption
  <1> DEFINE e == GetEffectiveParams(Tmpl, seen.items, seen.flush, ran, inop, CanUpdate)
  <1>4. /\ DOMAIN e.params = DOMAIN seen.items \ IgnoreParams
        /\ e.params \in [DOMAIN e.params -> Values]
        /\ e.needRestart \in BOOLEAN /\ e.changed \in BOOLEAN
    BY <1>1, <1>2, <1>3, EffectiveType
  <1>5. QED
    BY <1>1, <1>4 DEF IsMap, Effective

\* So are the parameters a class change asks for.
LEMMA EffectiveUserIsMap ==
  ASSUME TypeOK
  PROVE  IsMap(EffectiveUser.params, [value : Values, needFlush : BOOLEAN, time : Nat])
  <1> DEFINE O == Replaced(class, seen.items)
             params == EffectiveUser.params
  <1>1. Tmpl \in [DOMAIN Tmpl -> TemplateItems(Values)] /\ DOMAIN Tmpl \subseteq Params
    BY TemplateType DEF TypeOK
  <1>2. /\ seen.items \in [DOMAIN seen.items -> UserItem]
        /\ DOMAIN seen.items \subseteq Params
        /\ ran \in [DOMAIN ran -> RunningItem]
    BY DEF TypeOK, IsUserMap, IsMap
  <1>3. params = [p \in DOMAIN seen.items \cup O |->
                    IF p \in O THEN Corrected(Tmpl, ran, p)
                    ELSE [value |-> seen.items[p].value, needFlush |-> TRUE, time |-> 0]]
    BY DEF EffectiveUser, GetEffectiveUserParams, Replaced, Tmpl
  <1>4. O \subseteq DOMAIN Tmpl
    BY DEF Replaced, Overridden, Tmpl
  <1> HIDE DEF O, params
  <1>5. ASSUME NEW p \in DOMAIN seen.items \cup O
        PROVE  params[p] \in [value : Values, needFlush : BOOLEAN, time : Nat]
    <2>1. CASE p \in O
      <3>1. params[p] = Corrected(Tmpl, ran, p)
        BY <1>3, <2>1
      <3>2. Tmpl[p].default \in Values
        BY <1>1, <1>4, <2>1 DEF TemplateItems
      <3>3. p \in DOMAIN ran => ran[p].time \in Nat
        BY <1>2 DEF RunningItem
      <3>4. QED
        BY <3>1, <3>2, <3>3 DEF Corrected
    <2>2. CASE p \notin O
      <3>1. params[p] = [value |-> seen.items[p].value, needFlush |-> TRUE, time |-> 0]
        BY <1>3, <1>5, <2>2
      <3>2. seen.items[p].value \in Values
        BY <1>2, <1>5, <2>2 DEF UserItem
      <3>3. QED
        BY <3>1, <3>2
    <2>3. QED
      BY <2>1, <2>2
  <1>6. DOMAIN params = DOMAIN seen.items \cup O
    BY <1>3
  <1>7. params \in [DOMAIN params -> [value : Values, needFlush : BOOLEAN, time : Nat]]
    BY <1>3, <1>5, <1>6
  <1>8. QED
    BY <1>1, <1>2, <1>4, <1>6, <1>7 DEF IsMap, params

LEMMA AdaptedIsMap ==
  ASSUME now \in Nat, NEW items, IsMap(items, UserItem),
         NEW new, IsMap(new, [value : Values, needFlush : BOOLEAN, time : Nat])
  PROVE  IsMap(Adapted(new, items), UserItem)
  <1>1. ASSUME NEW p \in DOMAIN items \cap DOMAIN new
        PROVE  Adapted(new, items)[p] \in UserItem
    <2>1. new[p].value \in Values /\ new[p].time \in Nat /\ items[p] \in UserItem
      BY <1>1 DEF IsMap
    <2>2. \/ Adapted(new, items)[p] = items[p]
          \/ Adapted(new, items)[p]
               = [value |-> new[p].value, time |-> IF new[p].needFlush THEN now ELSE new[p].time]
      BY <1>1 DEF Adapted
    <2>3. QED
      BY <2>1, <2>2 DEF UserItem
  <1>2. /\ DOMAIN Adapted(new, items) = DOMAIN items \cap DOMAIN new
        /\ Adapted(new, items)
             = [p \in DOMAIN items \cap DOMAIN new |-> Adapted(new, items)[p]]
    BY DEF Adapted
  <1>3. Adapted(new, items) \in [DOMAIN Adapted(new, items) -> UserItem]
    BY <1>1, <1>2
  <1>4. QED
    BY <1>2, <1>3 DEF IsMap

Engines == [config : [Params -> Values], live : [Params -> Values], up : BOOLEAN]

LEMMA ConfiguredType ==
  ASSUME engine \in Engines, NEW new, IsMap(new, Values)
  PROVE  Configured(new) \in Engines
  <1>1. \A p \in DOMAIN new : new[p] \in Values
    BY DEF IsMap
  <1>2. [p \in Params |-> IF p \in DOMAIN new THEN new[p] ELSE engine.config[p]]
          \in [Params -> Values]
    BY <1>1 DEF Engines
  <1>3. [p \in Params |-> IF p \in DOMAIN new /\ p \in Reloadable THEN new[p] ELSE engine.live[p]]
          \in [Params -> Values]
    BY <1>1 DEF Engines
  <1>4. QED
    BY <1>2, <1>3 DEF Configured, Engines

LEMMA StartedType ==
  ASSUME NEW e \in Engines
  PROVE  Started(e) \in Engines
  BY DEF Started, Engines

LEMMA InitTypeOK == Init => TypeOK
  <1> SUFFICES ASSUME Init PROVE TypeOK
    OBVIOUS
  <1>1. NoValue \in Values
    BY ConstantsAssumption DEF ConstantsAssumption
  <1>2. engine \in [config : [Params -> Values], live : [Params -> Values], up : BOOLEAN]
    BY <1>1 DEF Init
  <1>3. \A m \in {user, seen} \cup late : IsUserMap(m)
    BY EmptyMaps DEF Init
  <1>4. /\ running = [there |-> running.there, items |-> running.items]
        /\ running.there \in BOOLEAN /\ IsMap(running.items, RunningItem) /\ IsMap(ran, RunningItem)
    BY EmptyMaps DEF Init
  <1>5. class \in [old : Classes, new : Classes]
    BY DEF Init
  <1>6. pc \in Installing
    BY DEF Init, Installing
  <1>7. now \in Nat /\ inop \in BOOLEAN /\ settled \in BOOLEAN /\ nEdits \in Nat
        /\ nFlows \in Nat /\ nFaults \in Nat
    BY DEF Init
  <1>8. QED
    BY <1>2, <1>3, <1>4, <1>5, <1>6, <1>7 DEF TypeOK

\* The user ConfigMap, what was read of it and what is under way.
LEMMA UserTypeStep ==
  ASSUME TypeOK, [Next]_vars
  PROVE  \A m \in {user', seen'} \cup late' : IsUserMap(m)
  <1>a. \A m \in {user, seen} \cup late : IsUserMap(m)
    BY DEF TypeOK
  <1>b. /\ user = [there |-> user.there, rv |-> user.rv, items |-> user.items,
                   flush |-> user.flush]
        /\ user.there \in BOOLEAN /\ user.rv \in Nat /\ IsMap(user.items, UserItem)
        /\ user.flush \in Nat /\ now \in Nat
    BY <1>a, UserMapParts DEF TypeOK
  <1>c. ASSUME NEW copy, IsUserMap(copy), Store(copy) PROVE IsUserMap(user')
    <2>1. /\ copy = [there |-> copy.there, rv |-> copy.rv, items |-> copy.items,
                     flush |-> copy.flush]
          /\ copy.there \in BOOLEAN /\ copy.rv \in Nat /\ IsMap(copy.items, UserItem)
          /\ copy.flush \in Nat
      BY <1>c, UserMapParts
    <2>2. user' = [there |-> copy.there, rv |-> copy.rv + 1, items |-> copy.items,
                   flush |-> copy.flush]
      BY <1>c, <2>1 DEF Store
    <2>3. copy.rv + 1 \in Nat
      BY <2>1
    <2>4. QED
      BY <2>1, <2>2, <2>3, UserMapType
  <1>1. ASSUME DropUser PROVE IsUserMap(user')
    BY <1>1, <1>b, EmptyMaps, UserMapType DEF DropUser
  <1>2. ASSUME CreateUser PROVE IsUserMap(user')
    <2> DEFINE items == [p \in DOMAIN Fresh |-> [value |-> Fresh[p], time |-> now]]
    <2>1. Fresh \in [DOMAIN Fresh -> Values] /\ DOMAIN Fresh \subseteq Params
      BY TemplateType DEF TypeOK
    <2>2. \A p \in DOMAIN Fresh : [value |-> Fresh[p], time |-> now] \in UserItem
      BY <1>b, <2>1 DEF UserItem
    <2>3. IsMap(items, UserItem)
      BY <2>1, <2>2 DEF IsMap
    <2>4. user' = [there |-> TRUE, rv |-> user.rv + 1, items |-> items, flush |-> 0]
      BY <1>2 DEF CreateUser
    <2> HIDE DEF items
    <2>5. user.rv + 1 \in Nat
      BY <1>b
    <2>6. QED
      BY <2>3, <2>4, <2>5, UserMapType
  <1>3. ASSUME NEW p \in Changeable, NEW v \in Choices, Edit(p, v) PROVE IsUserMap(user')
    <2> DEFINE items == [user.items EXCEPT ![p] = [value |-> v, time |-> now]]
    <2>1. user' = [there |-> user.there, rv |-> user.rv + 1, items |-> items,
                   flush |-> user.flush]
      BY <1>3, <1>b DEF Edit
    <2>2. [value |-> v, time |-> now] \in UserItem
      BY <1>b, ConstantsAssumption DEF UserItem, ConstantsAssumption
    <2>3. IsMap(items, UserItem)
      BY <1>b, <2>2 DEF IsMap
    <2> HIDE DEF items
    <2>4. user.rv + 1 \in Nat
      BY <1>b
    <2>5. QED
      BY <1>b, <2>1, <2>3, <2>4, UserMapType
  <1>4. ASSUME SavePut \/ ModifyPut PROVE IsUserMap(user')
    BY <1>4, <1>a, <1>c DEF SavePut, ModifyPut
  <1>5. ASSUME NEW copy \in late, ApplyLate(copy) PROVE IsUserMap(user')
    BY <1>5, <1>a, <1>c DEF ApplyLate
  <1>6. ASSUME SaveGet PROVE IsUserMap(seen')
    <2>1. seen' = [there |-> user.there, rv |-> user.rv, items |-> user.items, flush |-> now]
      BY <1>6, <1>b DEF SaveGet
    <2>2. QED
      BY <1>b, <2>1, UserMapType
  <1>7. ASSUME ModifyGet PROVE IsUserMap(seen')
    <2>1. PICK items : /\ items = Adapted(EffectiveUser.params, user.items)
                       /\ \/ Forget
                          \/ seen' = [user EXCEPT !.items = items]
      BY <1>7 DEF ModifyGet
    <2>2. IsMap(items, UserItem)
      BY <1>b, <2>1, EffectiveUserIsMap, AdaptedIsMap
    <2>3. [user EXCEPT !.items = items]
            = [there |-> user.there, rv |-> user.rv, items |-> items, flush |-> user.flush]
      BY <1>b
    <2>4. QED
      BY <1>b, <2>1, <2>2, <2>3, EmptyMaps, UserMapType DEF Forget
  <1>8. IsUserMap(user')
    <2>1. CASE UNCHANGED user
      BY <1>a, <2>1
    <2>2. QED
      BY <1>1, <1>2, <1>3, <1>4, <1>5, <2>1 DEF Next, Work, vars, flowVars, DropRunning,
         CreateRunning, ReadUser, ReadRunning, StartFirst, Apply, Build, Stop, Restart, SaveGet,
         ModifyRead, ModifyGet, Conflict, Fail, Abandon, Begin, ChangeClass, Refresh, Tick
  <1>9. IsUserMap(seen')
    <2>1. CASE UNCHANGED seen \/ seen' = user \/ seen' = NoCopy
      BY <1>a, <2>1, EmptyMaps
    <2>2. QED
      BY <1>6, <1>7, <2>1 DEF Next, Work, vars, flowVars, DropUser, CreateUser, DropRunning,
         CreateRunning, ReadUser, ReadRunning, StartFirst, Apply, Build, Stop, Restart, SavePut,
         ModifyRead, ModifyPut, Conflict, Fail, Abandon, Forget, Begin, ApplyLate, Edit,
         ChangeClass, Refresh, Tick
  <1>10. late' \subseteq late \cup {seen}
    BY DEF Next, Work, vars, flowVars, DropUser, CreateUser, DropRunning, CreateRunning,
       ReadUser, ReadRunning, StartFirst, Apply, Build, Stop, Restart, SaveGet, SavePut,
       ModifyRead, ModifyGet, ModifyPut, Conflict, Fail, Abandon, Begin, ApplyLate, Edit,
       ChangeClass, Refresh, Tick
  <1>11. QED
    BY <1>a, <1>8, <1>9, <1>10

\* The running ConfigMap, and what was read of it.
LEMMA RunningTypeStep ==
  ASSUME TypeOK, [Next]_vars
  PROVE  /\ running' = [there |-> running'.there, items |-> running'.items]
         /\ running'.there \in BOOLEAN /\ IsMap(running'.items, RunningItem)
         /\ IsMap(ran', RunningItem)
  <1>a. /\ running = [there |-> running.there, items |-> running.items]
        /\ running.there \in BOOLEAN /\ IsMap(running.items, RunningItem)
        /\ IsMap(ran, RunningItem) /\ now \in Nat /\ engine \in Engines
    BY DEF TypeOK, Engines
  <1>b. NoValue \in Values /\ Plain \in [Values -> Values]
    BY ConstantsAssumption DEF ConstantsAssumption
  <1> DEFINE Typed == /\ running' = [there |-> running'.there, items |-> running'.items]
                      /\ running'.there \in BOOLEAN /\ IsMap(running'.items, RunningItem)
  <1>1. ASSUME DropRunning PROVE Typed
    BY <1>1, EmptyMaps DEF DropRunning
  <1>2. ASSUME CreateRunning PROVE Typed
    <2> DEFINE items == [p \in DOMAIN Fresh |->
                           [value |-> Fresh[p], time |-> now, inop |-> NoValue]]
    <2>1. Fresh \in [DOMAIN Fresh -> Values] /\ DOMAIN Fresh \subseteq Params
      BY TemplateType DEF TypeOK
    <2>2. \A p \in DOMAIN Fresh :
            [value |-> Fresh[p], time |-> now, inop |-> NoValue] \in RunningItem
      BY <1>a, <1>b, <2>1 DEF RunningItem
    <2>3. IsMap(items, RunningItem)
      BY <2>1, <2>2 DEF IsMap
    <2>4. running' = [there |-> TRUE, items |-> items]
      BY <1>2 DEF CreateRunning
    <2> HIDE DEF items
    <2>5. QED
      BY <2>3, <2>4
  <1>3. ASSUME Refresh PROVE Typed
    <2> DEFINE wait(p) == IF engine.config[p] = engine.live[p] THEN NoValue
                          ELSE Plain[engine.config[p]]
               item(p) == IF running.items[p].value = Reported(p)
                          THEN [running.items[p] EXCEPT !.inop = wait(p)]
                          ELSE [value |-> Reported(p), time |-> now, inop |-> wait(p)]
               items == [p \in DOMAIN running.items |-> item(p)]
    <2>1. running' = [running EXCEPT !.items = items]
      BY <1>3 DEF Refresh
    <2>2. ASSUME NEW p \in DOMAIN running.items PROVE item(p) \in RunningItem
      <3>1. p \in Params /\ running.items[p] \in RunningItem
        BY <1>a DEF IsMap
      <3>2. Reported(p) \in Values
        BY <1>a, <1>b, <3>1 DEF Reported, Engines
      <3>3. wait(p) \in Values
        BY <1>a, <1>b, <3>1 DEF Engines
      <3> HIDE DEF wait
      <3>4. [running.items[p] EXCEPT !.inop = wait(p)] \in RunningItem
        BY <3>1, <3>3 DEF RunningItem
      <3>5. [value |-> Reported(p), time |-> now, inop |-> wait(p)] \in RunningItem
        BY <1>a, <3>2, <3>3 DEF RunningItem
      <3>6. QED
        BY <3>4, <3>5
    <2> HIDE DEF item
    <2>3. IsMap(items, RunningItem)
      BY <1>a, <2>2 DEF IsMap
    <2> HIDE DEF items
    <2>4. running' = [there |-> running.there, items |-> items]
      BY <1>a, <2>1
    <2>5. QED
      BY <1>a, <2>3, <2>4
  <1>4. Typed
    <2>1. CASE UNCHANGED running
      BY <1>a, <2>1
    <2> HIDE DEF Typed
    <2>2. QED
      BY <1>1, <1>2, <1>3, <2>1 DEF Next, Work, vars, flowVars, DropUser, CreateUser, ReadUser,
         ReadRunning, StartFirst, Apply, Build, Stop, Restart, SaveGet, SavePut, ModifyRead,
         ModifyGet, ModifyPut, Conflict, Fail, Abandon, Begin, ApplyLate, Edit, ChangeClass, Tick
  <1>5. IsMap(ran', RunningItem)
    <2>1. CASE UNCHANGED ran \/ ran' = running.items \/ ran' = NoMap
      BY <1>a, <2>1, EmptyMaps
    <2>2. QED
      BY <2>1 DEF Next, Work, vars, flowVars, DropUser, CreateUser, DropRunning, CreateRunning,
         ReadUser, ReadRunning, StartFirst, Apply, Build, Stop, Restart, SaveGet, SavePut,
         ModifyRead, ModifyGet, ModifyPut, Conflict, Fail, Abandon, Forget, Begin, ApplyLate,
         Edit, ChangeClass, Refresh, Tick
  <1>6. QED
    BY <1>4, <1>5

LEMMA EngineTypeStep ==
  ASSUME TypeOK, [Next]_vars
  PROVE  engine' \in Engines
  <1>a. engine \in Engines
    BY DEF TypeOK, Engines
  <1>1. ASSUME CreateRunning PROVE engine' \in Engines
    <2> DEFINE set == [p \in Params |-> IF p \in DOMAIN Fresh THEN Fresh[p] ELSE NoValue]
    <2>1. set \in [Params -> Values]
      BY TemplateType, ConstantsAssumption DEF TypeOK, ConstantsAssumption
    <2>2. engine' = [config |-> set, live |-> set, up |-> TRUE] \/ engine' = engine
      BY <1>1 DEF CreateRunning
    <2> HIDE DEF set
    <2>3. [config |-> set, live |-> set, up |-> TRUE] \in Engines
      BY <2>1 DEF Engines
    <2>4. QED
      BY <1>a, <2>2, <2>3
  <1>2. ASSUME Apply PROVE engine' \in Engines
    <2>1. engine' = Configured(Effective.params)
      BY <1>2 DEF Apply
    <2>2. QED
      BY <1>a, <2>1, EffectiveIsMap, ConfiguredType
  <1>3. ASSUME Build PROVE engine' \in Engines
    <2>1. engine' = Started(Configured(Effective.params))
      BY <1>3 DEF Build
    <2>2. QED
      BY <1>a, <2>1, EffectiveIsMap, ConfiguredType, StartedType
  <1>4. ASSUME StartFirst \/ Restart PROVE engine' \in Engines
    BY <1>4, <1>a, StartedType DEF StartFirst, Restart
  <1>5. ASSUME Stop PROVE engine' \in Engines
    BY <1>5, <1>a DEF Stop, Engines
  <1>6. CASE UNCHANGED engine
    BY <1>a, <1>6
  <1>7. QED
    BY <1>1, <1>2, <1>3, <1>4, <1>5, <1>6 DEF Next, Work, vars, flowVars, DropUser, CreateUser,
       DropRunning, ReadUser, ReadRunning, SaveGet, SavePut, ModifyRead, ModifyGet, ModifyPut,
       Conflict, Fail, Abandon, Begin, ApplyLate, Edit, ChangeClass, Refresh, Tick

\* Where the workflow is, the clock and the counters.
Places == Installing \cup Flushing \cup Saving \cup Modifying \cup {"idle"}

Plainly ==
  /\ class \in [old : Classes, new : Classes]
  /\ now \in Nat
  /\ pc \in Places
  /\ inop \in BOOLEAN /\ settled \in BOOLEAN
  /\ nEdits \in Nat /\ nFlows \in Nat /\ nFaults \in Nat

LEMMA PlainStep ==
  ASSUME Plainly, [Next]_vars
  PROVE  Plainly'
  <1> USE DEF Plainly, Places, Installing, Flushing, Saving, Modifying
  <1>1. ASSUME DropUser PROVE Plainly'
    BY <1>1 DEF DropUser
  <1>2. ASSUME CreateUser PROVE Plainly'
    BY <1>2 DEF CreateUser
  <1>3. ASSUME DropRunning PROVE Plainly'
    BY <1>3 DEF DropRunning
  <1>4. ASSUME CreateRunning PROVE Plainly'
    <2>1. nFaults' \in Nat
      BY <1>4 DEF CreateRunning, Fault
    <2>2. QED
      BY <1>4, <2>1 DEF CreateRunning
  <1>5. ASSUME ReadUser PROVE Plainly'
    BY <1>5 DEF ReadUser
  <1>6. ASSUME ReadRunning PROVE Plainly'
    BY <1>6 DEF ReadRunning
  <1>7. ASSUME StartFirst PROVE Plainly'
    BY <1>7 DEF StartFirst
  <1>8. ASSUME Apply PROVE Plainly'
    BY <1>8 DEF Apply, Forget
  <1>9. ASSUME Build PROVE Plainly'
    BY <1>9 DEF Build, Forget
  <1>10. ASSUME Stop PROVE Plainly'
    BY <1>10 DEF Stop
  <1>11. ASSUME Restart PROVE Plainly'
    BY <1>11 DEF Restart
  <1>12. ASSUME SaveGet PROVE Plainly'
    BY <1>12 DEF SaveGet
  <1>13. ASSUME SavePut PROVE Plainly'
    BY <1>13 DEF SavePut, Forget
  <1>14. ASSUME ModifyRead PROVE Plainly'
    BY <1>14 DEF ModifyRead, Forget
  <1>15. ASSUME ModifyGet PROVE Plainly'
    BY <1>15 DEF ModifyGet, Forget
  <1>16. ASSUME ModifyPut PROVE Plainly'
    BY <1>16 DEF ModifyPut, Forget
  <1>17. ASSUME Conflict PROVE Plainly'
    BY <1>17 DEF Conflict, Abandon
  <1>18. ASSUME Fail PROVE Plainly'
    <2>1. nFaults' \in Nat
      BY <1>18 DEF Fail, Fault
    <2>2. QED
      BY <1>18, <2>1 DEF Fail, Abandon
  <1>19. ASSUME NEW l \in {"flush", "modify"}, NEW new \in BOOLEAN, Begin(l, new) PROVE Plainly'
    <2>1. nFlows' \in Nat
      BY <1>19 DEF Begin, Flow
    <2>2. QED
      BY <1>19, <2>1 DEF Begin
  <1>20. ASSUME NEW copy \in late, ApplyLate(copy) PROVE Plainly'
    BY <1>20 DEF ApplyLate, flowVars
  <1>21. ASSUME NEW p \in Changeable, NEW v \in Choices, Edit(p, v) PROVE Plainly'
    <2>1. nEdits' \in Nat
      BY <1>21 DEF Edit
    <2>2. UNCHANGED <<class, now, flowVars, nFlows, nFaults>> /\ settled' = FALSE
      BY <1>21 DEF Edit
    <2>3. QED
      BY <2>1, <2>2 DEF flowVars
  <1>22. ASSUME NEW c \in Classes, ChangeClass(c) PROVE Plainly'
    <2>1. nEdits' \in Nat
      BY <1>22 DEF ChangeClass
    <2>2. class' = [old |-> class'.old, new |-> c] /\ class'.old \in {c, class.new}
      BY <1>22 DEF ChangeClass
    <2>3. UNCHANGED <<now, flowVars, nFlows, nFaults>> /\ settled' = FALSE
      BY <1>22 DEF ChangeClass
    <2>4. class' \in [old : Classes, new : Classes]
      BY <2>2
    <2>5. QED
      BY <2>1, <2>3, <2>4 DEF flowVars
  <1>23. ASSUME Refresh PROVE Plainly'
    BY <1>23 DEF Refresh, flowVars
  <1>24. ASSUME Tick PROVE Plainly'
    BY <1>24 DEF Tick, flowVars
  <1>25. CASE UNCHANGED vars
    BY <1>25 DEF vars, flowVars
  <1> HIDE DEF Plainly, Places, Installing, Flushing, Saving, Modifying
  <1>26. QED
    BY <1>1, <1>2, <1>3, <1>4, <1>5, <1>6, <1>7, <1>8, <1>9, <1>10, <1>11, <1>12,
       <1>13, <1>14, <1>15, <1>16, <1>17, <1>18, <1>19, <1>20, <1>21, <1>22, <1>23,
       <1>24, <1>25 DEF Next, Work

LEMMA TypeStep == TypeOK /\ [Next]_vars => TypeOK'
  <1> SUFFICES ASSUME TypeOK, [Next]_vars PROVE TypeOK'
    OBVIOUS
  <1>1. Plainly
    BY DEF TypeOK, Plainly, Places
  <1>2. Plainly'
    BY <1>1, PlainStep
  <1>3. engine' \in Engines
    BY EngineTypeStep
  <1>4. QED
    BY <1>2, <1>3, UserTypeStep, RunningTypeStep DEF TypeOK, Plainly, Places, Engines

-----------------------------------------------------------------------------
(***************************************************************************)
(* The other parts of the invariant                                        *)
(***************************************************************************)
\* What an Update that is taken leaves.
LEMMA Stored ==
  ASSUME NEW copy, IsUserMap(copy), Store(copy)
  PROVE  /\ copy.rv = user.rv
         /\ user'.there = copy.there /\ user'.rv = copy.rv + 1
         /\ user'.items = copy.items /\ user'.flush = copy.flush
  BY UserMapParts DEF Store

LEMMA InitIndInv == Init => IndInv
  <1> SUFFICES ASSUME Init PROVE IndInv
    OBVIOUS
  <1>1. Versions
    BY DEF Init, Versions, Copies, NoCopy
  <1>2. Installed /\ Merging
    BY DEF Init, Installed, Merging, Installing, Modifying
  <1>3. QED
    BY <1>1, <1>2, InitTypeOK DEF IndInv

\* A step that fails or is refused leaves the workflow before a step.
LEMMA Abandoned ==
  ASSUME TypeOK, Abandon, pc # "idle"
  PROVE  /\ pc' \in {"none", "saveGet", "flush", "modify"}
         /\ pc \in Installing <=> pc' = "none"
         /\ pc \in Modifying <=> pc' = "modify"
  <1>1. \/ pc \in Installing /\ pc' = "none"
        \/ pc \in Saving /\ pc' = "saveGet"
        \/ pc \in Flushing /\ pc' = "flush"
        \/ pc \in Modifying /\ pc' = "modify"
    <2>1. pc \in Installing \cup Saving \cup Flushing \cup Modifying
      BY DEF TypeOK
    <2>2. CASE pc \in Installing
      <3>1. pc \notin Saving /\ pc \notin Flushing /\ pc \notin Modifying
        BY <2>2 DEF Installing, Saving, Flushing, Modifying
      <3>2. QED
        BY <2>2, <3>1 DEF Abandon
    <2>3. CASE pc \in Saving
      <3>1. pc \notin Installing /\ pc \notin Flushing /\ pc \notin Modifying
        BY <2>3 DEF Installing, Saving, Flushing, Modifying
      <3>2. QED
        BY <2>3, <3>1 DEF Abandon
    <2>4. CASE pc \in Flushing
      <3>1. pc \notin Installing /\ pc \notin Saving /\ pc \notin Modifying
        BY <2>4 DEF Installing, Saving, Flushing, Modifying
      <3>2. QED
        BY <2>4, <3>1 DEF Abandon
    <2>5. CASE pc \in Modifying
      <3>1. pc \notin Installing /\ pc \notin Saving /\ pc \notin Flushing
        BY <2>5 DEF Installing, Saving, Flushing, Modifying
      <3>2. QED
        BY <2>5, <3>1 DEF Abandon
    <2>6. QED
      BY <2>1, <2>2, <2>3, <2>4, <2>5
  <1>2. QED
    BY <1>1 DEF Installing, Saving, Flushing, Modifying

LEMMA VersionsStep ==
  ASSUME TypeOK, Versions, [Next]_vars
  PROVE  Versions'
  <1>a. \A m \in {user, seen} \cup late : IsUserMap(m) /\ m.rv \in Nat /\ m.flush \in Nat
    BY UserMapParts DEF TypeOK
  <1>b. /\ user = [there |-> user.there, rv |-> user.rv, items |-> user.items,
                   flush |-> user.flush]
        /\ now \in Nat
    BY <1>a, UserMapParts DEF TypeOK
  <1>c. late \subseteq Copies /\ Copies \subseteq late \cup {seen}
    BY DEF Copies
  <1>d. ASSUME NEW copy \in Copies, Store(copy), UNCHANGED now,
               Copies' \subseteq Copies, seen' \in {seen, NoCopy}
        PROVE  Versions'
    <2>1. copy.rv = user.rv /\ user'.rv = user.rv + 1 /\ user'.flush = copy.flush
      BY <1>a, <1>c, <1>d, Stored
    <2>2. \A m \in Copies : m.rv \in Nat /\ m.rv <= user.rv /\ m.flush <= now
      BY <1>a, <1>c DEF Versions
    <2>3. user.rv \in Nat /\ seen.rv \in Nat /\ seen'.rv \in Nat /\ seen'.rv <= user.rv
      BY <1>a, <1>d DEF Versions, NoCopy
    <2>4. \A m \in Copies' : m.rv <= user'.rv /\ m.rv # user'.rv /\ m.flush <= now
      BY <1>d, <2>1, <2>2, <2>3
    <2>5. QED
      BY <1>d, <2>1, <2>2, <2>3, <2>4 DEF Versions
  <1>e. ASSUME user'.rv = user.rv + 1, user'.flush \in {0, user.flush}, UNCHANGED <<now, late, seen>>,
               Copies' \subseteq Copies
        PROVE  Versions'
    <2>1. user.rv \in Nat /\ user.flush \in Nat /\ seen.rv \in Nat
      BY <1>a
    <2>2. \A m \in Copies : m.rv \in Nat /\ m.rv <= user.rv /\ m.flush <= now
      BY <1>a, <1>c DEF Versions
    <2>3. \A m \in Copies' : m.rv <= user'.rv /\ m.rv # user'.rv /\ m.flush <= now
      BY <1>e, <2>1, <2>2
    <2>4. user'.flush <= now /\ seen.rv <= user'.rv
      BY <1>b, <1>e, <2>1 DEF Versions
    <2>5. QED
      BY <1>e, <2>3, <2>4 DEF Versions
  <1>f. ASSUME UNCHANGED <<user, now>>, seen' \in {seen, NoCopy, user}, Copies' \subseteq Copies
        PROVE  Versions'
    BY <1>a, <1>f DEF Versions, NoCopy
  <1>1. ASSUME DropUser PROVE Versions'
    <2>1. user'.rv = user.rv /\ user'.flush = 0 /\ UNCHANGED <<now, seen>> /\ Copies' \subseteq Copies
      BY <1>1 DEF DropUser, Copies
    <2>2. \A m \in Copies : m.flush \in Nat
      BY <1>a, <1>c
    <2>3. QED
      BY <1>b, <2>1, <2>2 DEF Versions
  <1>2. ASSUME CreateUser PROVE Versions'
    <2>1. Copies' \subseteq Copies
      BY <1>2 DEF CreateUser, Copies
    <2>2. QED
      BY <1>2, <1>e, <2>1 DEF CreateUser
  <1>3. ASSUME DropRunning PROVE Versions'
    BY <1>3, <1>f DEF DropRunning, Copies
  <1>4. ASSUME CreateRunning PROVE Versions'
    BY <1>4, <1>f DEF CreateRunning, Copies
  <1>5. ASSUME ReadUser PROVE Versions'
    BY <1>5, <1>f DEF ReadUser, Copies
  <1>6. ASSUME ReadRunning PROVE Versions'
    BY <1>6, <1>f DEF ReadRunning, Copies
  <1>7. ASSUME StartFirst PROVE Versions'
    BY <1>7, <1>f DEF StartFirst, Copies
  <1>8. ASSUME Apply PROVE Versions'
    BY <1>8, <1>f DEF Apply, Copies, Forget
  <1>9. ASSUME Build PROVE Versions'
    BY <1>9, <1>f DEF Build, Copies, Forget
  <1>10. ASSUME Stop PROVE Versions'
    BY <1>10, <1>f DEF Stop, Copies
  <1>11. ASSUME Restart PROVE Versions'
    BY <1>11, <1>f DEF Restart, Copies
  <1>12. ASSUME SaveGet PROVE Versions'
    <2>1. /\ seen'.rv = user.rv /\ seen'.flush = now /\ UNCHANGED <<user, now>>
          /\ Copies' \subseteq late \cup {seen'}
      BY <1>12, <1>b DEF SaveGet, Copies
    <2>2. QED
      BY <1>a, <1>b, <1>c, <2>1 DEF Versions
  <1>13. ASSUME SavePut PROVE Versions'
    <2>1. seen \in Copies /\ Copies' \subseteq Copies
      BY <1>13 DEF SavePut, Copies, Forget
    <2>2. QED
      BY <1>13, <1>d, <2>1 DEF SavePut, Forget
  <1>14. ASSUME ModifyRead PROVE Versions'
    BY <1>14, <1>f DEF ModifyRead, Copies, Forget
  <1>15. ASSUME ModifyGet PROVE Versions'
    <2>1. CASE Forget /\ UNCHANGED <<user, now, late>> /\ pc' = "idle"
      BY <1>f, <2>1 DEF Forget, Copies
    <2>2. ASSUME NEW items, seen' = [user EXCEPT !.items = items], UNCHANGED <<user, now, late>>
          PROVE  Versions'
      <3>1. seen'.rv = user.rv /\ seen'.flush = user.flush
        BY <1>b, <2>2
      <3>2. Copies' \subseteq late \cup {seen'}
        BY <2>2 DEF Copies
      <3>3. user.rv \in Nat /\ user.flush <= now
        BY <1>a DEF Versions
      <3>4. \A copy \in late : /\ copy.rv <= user.rv /\ copy.flush <= now
                               /\ copy.rv = user.rv => user.flush <= copy.flush
        BY <1>c DEF Versions
      <3>5. user.flush \in Nat /\ seen'.rv <= user.rv /\ user.flush <= seen'.flush
        BY <1>a, <3>1, <3>3
      <3>6. \A copy \in Copies' : /\ copy.rv <= user.rv /\ copy.flush <= now
                                  /\ copy.rv = user.rv => user.flush <= copy.flush
        BY <3>1, <3>2, <3>3, <3>4, <3>5
      <3>7. user' = user /\ now' = now
        BY <2>2
      <3>8. QED
        BY <3>3, <3>5, <3>6, <3>7 DEF Versions
    <2>3. QED
      BY <1>15, <2>1, <2>2 DEF ModifyGet
  <1>16. ASSUME ModifyPut PROVE Versions'
    <2>1. seen \in Copies /\ Copies' \subseteq Copies
      BY <1>16 DEF ModifyPut, Copies, Forget
    <2>2. QED
      BY <1>16, <1>d, <2>1 DEF ModifyPut, Forget
  <1>17. ASSUME Conflict PROVE Versions'
    <2>1. Copies' \subseteq Copies
      BY <1>17, Abandoned DEF Conflict, Copies
    <2>2. QED
      BY <1>17, <1>f, <2>1 DEF Conflict, Abandon
  <1>18. ASSUME Fail PROVE Versions'
    <2>1. late' \subseteq Copies /\ pc' \notin {"savePut", "modifyPut"}
      BY <1>18, Abandoned DEF Fail, Copies
    <2>2. Copies' \subseteq Copies
      BY <2>1 DEF Copies
    <2>3. QED
      BY <1>18, <1>f, <2>2 DEF Fail, Abandon
  <1>19. ASSUME NEW l \in {"flush", "modify"}, NEW new \in BOOLEAN, Begin(l, new) PROVE Versions'
    BY <1>19, <1>f DEF Begin, Copies
  <1>20. ASSUME NEW copy \in late, ApplyLate(copy) PROVE Versions'
    <2>1. Copies' \subseteq Copies
      BY <1>20 DEF ApplyLate, Copies, flowVars
    <2>2. QED
      BY <1>20, <1>c, <1>d, <2>1 DEF ApplyLate, flowVars
  <1>21. ASSUME NEW p \in Changeable, NEW v \in Choices, Edit(p, v) PROVE Versions'
    <2>1. user'.rv = user.rv + 1 /\ user'.flush = user.flush
      BY <1>21, <1>b DEF Edit
    <2>2. UNCHANGED <<now, late, seen>> /\ Copies' \subseteq Copies
      BY <1>21 DEF Edit, flowVars, Copies
    <2>3. QED
      BY <1>e, <2>1, <2>2
  <1>22. ASSUME NEW c \in Classes, ChangeClass(c) PROVE Versions'
    BY <1>22, <1>f DEF ChangeClass, Copies, flowVars
  <1>23. ASSUME Refresh PROVE Versions'
    BY <1>23, <1>f DEF Refresh, Copies, flowVars
  <1>24. ASSUME Tick PROVE Versions'
    <2>1. UNCHANGED <<user, late, pc, seen>> /\ now' = now + 1
      BY <1>24 DEF Tick, flowVars
    <2>2. Copies' = Copies
      BY <2>1 DEF Copies
    <2>3. \A m \in Copies : m.flush \in Nat
      BY <1>a, <1>c
    <2>4. QED
      BY <1>a, <1>b, <2>1, <2>2, <2>3 DEF Versions
  <1>25. CASE UNCHANGED vars
    BY <1>25, <1>f DEF vars, flowVars, Copies
  <1>26. QED
    BY <1>1, <1>2, <1>3, <1>4, <1>5, <1>6, <1>7, <1>8, <1>9, <1>10, <1>11, <1>12,
       <1>13, <1>14, <1>15, <1>16, <1>17, <1>18, <1>19, <1>20, <1>21, <1>22, <1>23,
       <1>24, <1>25 DEF Next, Work

\* Nothing but the installation itself writes while it goes on.
LEMMA InstalledStep ==
  ASSUME TypeOK, Installed, [Next]_vars
  PROVE  Installed'
  <1>a. ASSUME UNCHANGED <<user, class, late>>, pc' = pc PROVE Installed'
    BY <1>a DEF Installed, Fresh
  <1>b. ASSUME pc' \notin Installing PROVE Installed'
    BY <1>b DEF Installed
  <1>c. ASSUME pc \in Installing, late' = late, pc' \in {"none", "createUser"} PROVE Installed'
    BY <1>c DEF Installed
  <1>1. ASSUME DropUser PROVE Installed'
    BY <1>1, <1>c DEF DropUser, Installing
  <1>2. ASSUME CreateUser PROVE Installed'
    <2>1. user'.there /\ DOMAIN user'.items = DOMAIN Fresh
          /\ \A p \in DOMAIN Fresh : user'.items[p].value = Fresh[p]
      BY <1>2 DEF CreateUser
    <2>2. late' = late /\ late = {} /\ Fresh' = Fresh
      BY <1>2 DEF CreateUser, Installed, Installing, Fresh
    <2>3. QED
      BY <2>1, <2>2 DEF Installed
  <1>3. ASSUME DropRunning PROVE Installed'
    BY <1>3 DEF DropRunning, Installed, Installing, Fresh
  <1>4. ASSUME CreateRunning PROVE Installed'
    BY <1>4, <1>b, <1>c DEF CreateRunning, Installing
  <1>5. ASSUME ReadUser PROVE Installed'
    BY <1>5, <1>b DEF ReadUser, Installing
  <1>6. ASSUME ReadRunning PROVE Installed'
    BY <1>6, <1>b DEF ReadRunning, Installing
  <1>7. ASSUME StartFirst PROVE Installed'
    BY <1>7, <1>b DEF StartFirst, Installing
  <1>8. ASSUME Apply PROVE Installed'
    BY <1>8, <1>b DEF Apply, Installing, Forget
  <1>9. ASSUME Build PROVE Installed'
    BY <1>9, <1>b DEF Build, Installing, Forget
  <1>10. ASSUME Stop PROVE Installed'
    BY <1>10, <1>b DEF Stop, Installing
  <1>11. ASSUME Restart PROVE Installed'
    BY <1>11, <1>b DEF Restart, Installing
  <1>12. ASSUME SaveGet PROVE Installed'
    BY <1>12, <1>b DEF SaveGet, Installing
  <1>13. ASSUME SavePut PROVE Installed'
    BY <1>13, <1>b DEF SavePut, Installing, Forget
  <1>14. ASSUME ModifyRead PROVE Installed'
    BY <1>14, <1>b DEF ModifyRead, Installing, Forget
  <1>15. ASSUME ModifyGet PROVE Installed'
    BY <1>15, <1>b DEF ModifyGet, Installing, Forget
  <1>16. ASSUME ModifyPut PROVE Installed'
    BY <1>16, <1>b DEF ModifyPut, Installing, Forget
  <1>17. ASSUME Conflict PROVE Installed'
    BY <1>17, <1>b, Abandoned DEF Conflict, Installing
  <1>18. ASSUME Fail PROVE Installed'
    <2>1. CASE pc \in Installing
      <3>1. pc' = "none"
        BY <1>18, <2>1, Abandoned DEF Fail
      <3>2. late' = late
        BY <1>18, <2>1 DEF Fail, Installing
      <3>3. QED
        BY <1>c, <2>1, <3>1, <3>2
    <2>2. CASE pc \notin Installing
      <3>1. pc' \in {"saveGet", "flush", "modify"}
        BY <1>18, <2>2, Abandoned DEF Fail
      <3>2. QED
        BY <1>b, <3>1 DEF Installing
    <2>3. QED
      BY <2>1, <2>2
  <1>19. ASSUME NEW l \in {"flush", "modify"}, NEW new \in BOOLEAN, Begin(l, new) PROVE Installed'
    BY <1>19, <1>b DEF Begin, Installing
  <1>20. ASSUME NEW copy \in late, ApplyLate(copy) PROVE Installed'
    <2>1. pc' = pc /\ pc \notin Installing
      BY <1>20 DEF ApplyLate, flowVars, Installed
    <2>2. QED
      BY <1>b, <2>1
  <1>21. ASSUME NEW p \in Changeable, NEW v \in Choices, Edit(p, v) PROVE Installed'
    BY <1>21, <1>b DEF Edit, flowVars
  <1>22. ASSUME NEW c \in Classes, ChangeClass(c) PROVE Installed'
    <2>1. pc' = pc /\ pc \in {"none", "idle"} /\ late' = late
      BY <1>22 DEF ChangeClass, flowVars
    <2>2. QED
      BY <1>b, <1>c, <2>1 DEF Installing
  <1>23. ASSUME Refresh PROVE Installed'
    BY <1>23, <1>a DEF Refresh, flowVars
  <1>24. ASSUME Tick PROVE Installed'
    BY <1>24, <1>a DEF Tick, flowVars
  <1>25. CASE UNCHANGED vars
    BY <1>25, <1>a DEF vars, flowVars
  <1>26. QED
    BY <1>1, <1>2, <1>3, <1>4, <1>5, <1>6, <1>7, <1>8, <1>9, <1>10, <1>11, <1>12,
       <1>13, <1>14, <1>15, <1>16, <1>17, <1>18, <1>19, <1>20, <1>21, <1>22, <1>23,
       <1>24, <1>25 DEF Next, Work

\* The parameters a class change asks for, one by one.
LEMMA Asked ==
  LET new == EffectiveUser.params IN
  /\ DOMAIN new = DOMAIN seen.items \cup Replaced(class, seen.items)
  /\ \A p \in DOMAIN new : new[p].value = Target(class, seen.items, p)
  <1> DEFINE O == Replaced(class, seen.items)
             new == EffectiveUser.params
  <1>1. new = [p \in DOMAIN seen.items \cup O |->
                 IF p \in O THEN Corrected(Tmpl, ran, p)
                 ELSE [value |-> seen.items[p].value, needFlush |-> TRUE, time |-> 0]]
    BY DEF EffectiveUser, GetEffectiveUserParams, Replaced, Tmpl
  <1> HIDE DEF O, new
  <1>2. ASSUME NEW p \in DOMAIN new PROVE new[p].value = Target(class, seen.items, p)
    <2>1. CASE p \in O
      BY <1>1, <1>2, <2>1 DEF Corrected, Target, Tmpl, O
    <2>2. CASE p \notin O
      <3>1. new[p] = [value |-> seen.items[p].value, needFlush |-> TRUE, time |-> 0]
        BY <1>1, <1>2, <2>2
      <3>2. QED
        BY <2>2, <3>1 DEF Target, O
    <2>3. QED
      BY <2>1, <2>2
  <1>3. DOMAIN new = DOMAIN seen.items \cup O
    BY <1>1
  <1>4. QED
    BY <1>2, <1>3 DEF O, new

\* Applied to the parameters that were read, it leaves what is asked for.
LEMMA AdaptedAsAsked ==
  ASSUME seen.items = user.items
  PROVE  Adapts(class, Adapted(EffectiveUser.params, user.items), user.items)
  <1> DEFINE new == EffectiveUser.params
             items == Adapted(new, user.items)
  <1>1. /\ DOMAIN new = DOMAIN seen.items \cup Replaced(class, seen.items)
        /\ \A p \in DOMAIN new : new[p].value = Target(class, seen.items, p)
    BY Asked
  <1> HIDE DEF new
  <1>2. DOMAIN items = DOMAIN user.items
    BY <1>1 DEF Adapted
  <1>3. \A p \in DOMAIN items : items[p].value = new[p].value
    BY DEF Adapted
  <1> HIDE DEF items
  <1>4. \A p \in DOMAIN items : items[p].value = Target(class, user.items, p)
    BY <1>1, <1>2, <1>3
  <1>5. QED
    BY <1>2, <1>4 DEF Adapts, items, new

\* Applied to parameters that have it already, it changes nothing.
LEMMA AdaptedTwice ==
  ASSUME TypeOK, Adapts(class, user.items, seen.items)
  PROVE  Adapted(EffectiveUser.params, user.items) = user.items
  <1> DEFINE new == EffectiveUser.params
  <1>1. /\ DOMAIN new = DOMAIN seen.items \cup Replaced(class, seen.items)
        /\ \A p \in DOMAIN new : new[p].value = Target(class, seen.items, p)
    BY Asked
  <1> HIDE DEF new
  <1>2. user.items = [p \in DOMAIN user.items |-> user.items[p]]
    <2>1. user.items \in [DOMAIN user.items -> UserItem]
      BY DEF TypeOK, IsUserMap, IsMap
    <2>2. QED
      BY <2>1
  <1>3. DOMAIN user.items \cap DOMAIN new = DOMAIN user.items
    BY <1>1 DEF Adapts
  <1>4. \A p \in DOMAIN user.items : new[p].value = user.items[p].value
    BY <1>1, <1>3 DEF Adapts
  <1>5. QED
    BY <1>2, <1>3, <1>4 DEF Adapted, new

\* No edit comes between the readings and the write of ModifyClassParams.
LEMMA MergingStep ==
  ASSUME TypeOK, Versions, Merging, [Next]_vars
  PROVE  Merging'
  <1> SUFFICES ASSUME EditsWait PROVE Merging'
    BY DEF Merging
  <1>a. ASSUME pc' \notin Modifying PROVE Merging'
    BY <1>a DEF Merging, Modifying
  <1>b. ASSUME UNCHANGED <<user, class, late, seen, pc>> PROVE Merging'
    BY <1>b DEF Merging, Stale
  <1>c. ASSUME pc \in Modifying, pc' = "modify", UNCHANGED <<user, class>>, late' \subseteq Copies
        PROVE  Merging'
    <2>1. \A copy \in Copies : copy.rv = user.rv => Adapts(class, copy.items, user.items)
      BY <1>c DEF Merging, Copies, Modifying
    <2>2. \A copy \in late' : copy.rv = user'.rv => Adapts(class', copy.items, user'.items)
      BY <1>c, <2>1
    <2>3. QED
      BY <1>c, <2>2 DEF Merging, Modifying
  <1>1. ASSUME DropUser PROVE Merging'
    BY <1>1, <1>a DEF DropUser, Modifying
  <1>2. ASSUME CreateUser PROVE Merging'
    BY <1>2, <1>a DEF CreateUser, Modifying
  <1>3. ASSUME DropRunning PROVE Merging'
    BY <1>3, <1>a DEF DropRunning, Modifying
  <1>4. ASSUME CreateRunning PROVE Merging'
    BY <1>4, <1>a DEF CreateRunning, Modifying
  <1>5. ASSUME ReadUser PROVE Merging'
    <2>1. CASE pc = "flush"
      BY <1>5, <1>a, <2>1 DEF ReadUser, Modifying
    <2>2. CASE pc = "modify"
      <3>1. pc' = "modifyRead" /\ seen'.items = user.items /\ UNCHANGED <<user, class, late>>
        BY <1>5, <2>2 DEF ReadUser
      <3>2. \A copy \in late : copy.rv = user.rv => Adapts(class, copy.items, user.items)
        BY <2>2 DEF Merging, Modifying
      <3>3. QED
        BY <3>1, <3>2 DEF Merging
    <2>3. QED
      BY <1>5, <2>1, <2>2 DEF ReadUser
  <1>6. ASSUME ReadRunning PROVE Merging'
    BY <1>6, <1>a DEF ReadRunning, Modifying
  <1>7. ASSUME StartFirst PROVE Merging'
    BY <1>7, <1>a DEF StartFirst, Modifying
  <1>8. ASSUME Apply PROVE Merging'
    BY <1>8, <1>a DEF Apply, Modifying, Forget
  <1>9. ASSUME Build PROVE Merging'
    BY <1>9, <1>a DEF Build, Modifying, Forget
  <1>10. ASSUME Stop PROVE Merging'
    BY <1>10, <1>a DEF Stop, Modifying
  <1>11. ASSUME Restart PROVE Merging'
    BY <1>11, <1>a DEF Restart, Modifying
  <1>12. ASSUME SaveGet PROVE Merging'
    BY <1>12, <1>a DEF SaveGet, Modifying
  <1>13. ASSUME SavePut PROVE Merging'
    BY <1>13, <1>a DEF SavePut, Modifying, Forget
  <1>14. ASSUME ModifyRead PROVE Merging'
    <2>1. CASE pc' = "idle"
      BY <1>a, <2>1 DEF Modifying
    <2>2. CASE pc' = "modifyGet" /\ UNCHANGED <<seen, user, class, late>>
      <3>1. /\ seen.items = user.items \/ (Adapts(class, user.items, seen.items) /\ Stale)
            /\ \A copy \in late : copy.rv = user.rv => Adapts(class, copy.items, user.items)
        BY <1>14 DEF ModifyRead, Merging, Modifying
      <3>2. QED
        BY <2>2, <3>1 DEF Merging, Stale
    <2>3. QED
      BY <1>14, <2>1, <2>2 DEF ModifyRead
  <1>15. ASSUME ModifyGet PROVE Merging'
    <2> DEFINE items == Adapted(EffectiveUser.params, user.items)
    <2>1. CASE pc' = "idle"
      BY <1>a, <2>1 DEF Modifying
    <2>2. ASSUME items # user.items, pc' = "modifyPut", seen' = [user EXCEPT !.items = items]
          PROVE  Merging'
      <3>1. seen.items = user.items
        BY <1>15, <2>2, AdaptedTwice DEF ModifyGet, Merging
      <3>2. Adapts(class, items, user.items)
        BY <3>1, AdaptedAsAsked
      <3>3. seen'.items = items
        <4>1. user = [there |-> user.there, rv |-> user.rv, items |-> user.items,
                      flush |-> user.flush]
          BY UserMapParts DEF TypeOK
        <4>2. QED
          BY <2>2, <4>1
      <3>4. UNCHANGED <<user, class, late>>
        BY <1>15 DEF ModifyGet
      <3>5. \A copy \in late : copy.rv = user.rv => Adapts(class, copy.items, user.items)
        BY <1>15 DEF ModifyGet, Merging, Modifying
      <3> HIDE DEF items
      <3>6. Adapts(class', seen'.items, user'.items)
        BY <3>2, <3>3, <3>4
      <3>7. \A copy \in late' : copy.rv = user'.rv => Adapts(class', copy.items, user'.items)
        BY <3>4, <3>5
      <3>8. QED
        BY <2>2, <3>6, <3>7 DEF Merging
    <2>3. QED
      BY <1>15, <2>1, <2>2 DEF ModifyGet
  <1>16. ASSUME ModifyPut PROVE Merging'
    BY <1>16, <1>a DEF ModifyPut, Modifying, Forget
  <1>17. ASSUME Conflict PROVE Merging'
    <2>1. CASE pc \in Modifying
      <3>1. pc' = "modify"
        BY <1>17, <2>1, Abandoned DEF Conflict
      <3>2. QED
        BY <1>17, <1>c, <2>1, <3>1 DEF Conflict, Abandon, Copies
    <2>2. CASE pc \notin Modifying
      <3>1. pc' \in {"none", "saveGet", "flush"}
        BY <1>17, <2>2, Abandoned DEF Conflict
      <3>2. QED
        BY <1>a, <3>1 DEF Modifying
    <2>3. QED
      BY <2>1, <2>2
  <1>18. ASSUME Fail PROVE Merging'
    <2>1. CASE pc \in Modifying
      <3>1. pc' = "modify"
        BY <1>18, <2>1, Abandoned DEF Fail
      <3>2. QED
        <4>1. late' \subseteq Copies
          BY <1>18 DEF Fail, Copies
        <4>2. UNCHANGED <<user, class>>
          BY <1>18 DEF Fail, Abandon
        <4>3. QED
          BY <1>c, <2>1, <3>1, <4>1, <4>2
    <2>2. CASE pc \notin Modifying
      <3>1. pc' \in {"none", "saveGet", "flush"}
        BY <1>18, <2>2, Abandoned DEF Fail
      <3>2. QED
        BY <1>a, <3>1 DEF Modifying
    <2>3. QED
      BY <2>1, <2>2
  <1>19. ASSUME NEW l \in {"flush", "modify"}, NEW new \in BOOLEAN, Begin(l, new) PROVE Merging'
    <2>1. CASE l = "flush"
      BY <1>19, <1>a, <2>1 DEF Begin, Modifying
    <2>2. CASE l = "modify"
      <3>1. pc' = "modify" /\ UNCHANGED <<user, class, late>> /\ \A copy \in late : copy.rv # user.rv
        BY <1>19, <2>2 DEF Begin, Quiet
      <3>2. QED
        BY <3>1 DEF Merging
    <2>3. QED
      BY <2>1, <2>2
  <1>20. ASSUME NEW copy \in late, ApplyLate(copy) PROVE Merging'
    <2>1. CASE pc \notin Modifying
      BY <1>20, <1>a, <2>1 DEF ApplyLate, flowVars
    <2>2. CASE pc \in Modifying
      <3>1. /\ copy.rv = user.rv /\ user'.rv = user.rv + 1 /\ user'.items = copy.items
            /\ UNCHANGED <<class, pc, seen>> /\ late' \subseteq late
        <4>1. IsUserMap(copy) /\ Store(copy)
          BY <1>20 DEF ApplyLate, TypeOK
        <4>2. QED
          BY <1>20, <4>1, Stored DEF ApplyLate, flowVars
      <3>2. user.rv \in Nat /\ seen.rv \in Nat /\ \A m \in late : m.rv \in Nat
        BY UserMapParts DEF TypeOK
      <3>3. seen.rv <= user.rv /\ \A m \in late : m.rv <= user.rv
        BY DEF Versions, Copies
      <3>4. seen'.rv # user'.rv /\ \A m \in late' : m.rv # user'.rv
        BY <3>1, <3>2, <3>3
      <3>5. Adapts(class, copy.items, user.items)
        BY <1>20, <2>2, <3>1 DEF Merging
      <3>6. pc \in {"modifyRead", "modifyGet"} => Adapts(class', user'.items, seen'.items)
        <4>1. pc \in {"modifyRead", "modifyGet"} => seen.items = user.items
          BY <3>1 DEF Merging, Stale
        <4>2. QED
          BY <3>1, <3>5, <4>1
      <3>7. QED
        BY <3>1, <3>4, <3>6 DEF Merging, Stale
    <2>3. QED
      BY <2>1, <2>2
  <1>21. ASSUME NEW p \in Changeable, NEW v \in Choices, Edit(p, v) PROVE Merging'
    <2>1. pc = "idle" /\ pc' = pc
      BY <1>21 DEF Edit, MayChange, Quiet, flowVars
    <2>2. QED
      BY <1>a, <2>1 DEF Modifying
  <1>22. ASSUME NEW c \in Classes, ChangeClass(c) PROVE Merging'
    <2>1. pc' = pc /\ pc \in {"none", "idle"}
      BY <1>22 DEF ChangeClass, flowVars
    <2>2. QED
      BY <1>a, <2>1 DEF Modifying
  <1>23. ASSUME Refresh PROVE Merging'
    BY <1>23, <1>b DEF Refresh, flowVars
  <1>24. ASSUME Tick PROVE Merging'
    BY <1>24, <1>b DEF Tick, flowVars
  <1>25. CASE UNCHANGED vars
    BY <1>25, <1>b DEF vars, flowVars
  <1>26. QED
    BY <1>1, <1>2, <1>3, <1>4, <1>5, <1>6, <1>7, <1>8, <1>9, <1>10, <1>11, <1>12,
       <1>13, <1>14, <1>15, <1>16, <1>17, <1>18, <1>19, <1>20, <1>21, <1>22, <1>23,
       <1>24, <1>25 DEF Next, Work

LEMMA IndInvStep == IndInv /\ [Next]_vars => IndInv'
  BY TypeStep, VersionsStep, InstalledStep, MergingStep DEF IndInv

\* The inductive invariant holds in every reachable state.
THEOREM Invariance == Spec => []IndInv
  BY InitIndInv, IndInvStep, PTL DEF Spec

\* Whatever fails, is repeated or arrives late, both ConfigMaps hold parameters
\* of the template and the classes, with values these or users have given.
THEOREM TypeCorrect == Spec => []TypeOK
  BY Invariance, PTL DEF IndInv

-----------------------------------------------------------------------------
(***************************************************************************)
(* What a step may never do                                                *)
(***************************************************************************)
\* SaveLatestFlushTime, updateUserParams: no write to the user ConfigMap, of a
\* copy that was read long ago or of a process that is gone, sets the time of
\* the last flush back, because a copy that is older is refused.
THEOREM FlushTimeIsKept == Spec => FlushTimeNeverGoesBack
  <1> DEFINE Forward == user.there /\ user'.there => (user'.flush >= user.flush)
  <1>1. ASSUME IndInv, Next PROVE Forward
    <2>1. /\ TypeOK /\ Versions /\ user.flush \in Nat
          /\ user = [there |-> user.there, rv |-> user.rv, items |-> user.items,
                     flush |-> user.flush]
      BY <1>1, UserMapParts DEF IndInv, TypeOK
    <2>2. ASSUME NEW copy \in Copies, Store(copy) PROVE Forward
      <3>1. IsUserMap(copy)
        BY <2>1 DEF TypeOK, Copies
      <3>2. copy.rv = user.rv /\ user'.flush = copy.flush /\ copy.flush \in Nat
        BY <2>2, <3>1, Stored, UserMapParts
      <3>3. user.flush <= copy.flush
        BY <2>1, <2>2, <3>2 DEF Versions
      <3>4. QED
        BY <2>1, <3>2, <3>3
    <2>3. ASSUME SavePut \/ ModifyPut PROVE Forward
      BY <2>2, <2>3 DEF SavePut, ModifyPut, Copies
    <2>4. ASSUME NEW copy \in late, ApplyLate(copy) PROVE Forward
      BY <2>2, <2>4 DEF ApplyLate, Copies
    <2>5. ASSUME NEW p \in Changeable, NEW v \in Choices, Edit(p, v) PROVE Forward
      <3>1. user'.flush = user.flush
        BY <2>1, <2>5 DEF Edit
      <3>2. QED
        BY <2>1, <3>1
    <2>6. ASSUME DropUser \/ CreateUser PROVE Forward
      <3>1. CASE ~user'.there \/ ~user.there
        BY <3>1
      <3>2. QED
        BY <2>6, <3>1 DEF DropUser, CreateUser
    <2>7. CASE UNCHANGED user
      BY <2>1, <2>7
    <2> HIDE DEF Forward
    <2>8. \/ UNCHANGED user
          \/ DropUser \/ CreateUser \/ SavePut \/ ModifyPut
          \/ \E copy \in late : ApplyLate(copy)
          \/ \E p \in Changeable, v \in Choices : Edit(p, v)
      BY <1>1 DEF Next, Work, DropRunning, CreateRunning, ReadUser, ReadRunning, StartFirst,
         Apply, Build, Stop, Restart, SaveGet, ModifyRead, ModifyGet, Conflict, Fail, Abandon,
         Begin, ChangeClass, Refresh, Tick
    <2>9. QED
      BY <2>3, <2>4, <2>5, <2>6, <2>7, <2>8
  <1>2. IndInv /\ [Next]_vars => [Forward]_user
    <2>1. ASSUME IndInv, UNCHANGED vars PROVE UNCHANGED user
      BY <2>1 DEF vars
    <2>2. QED
      BY <1>1, <2>1
  <1>3. QED
    BY <1>2, Invariance, PTL DEF Spec, FlushTimeNeverGoesBack

\* InitEngineParams: an installation that succeeds after any number of attempts
\* leaves the same values in both ConfigMaps.
THEOREM InstallAgrees == Spec => InstallIsConsistent
  <1> DEFINE Agrees == pc' = "idle" /\ pc \in Installing =>
               /\ user'.there /\ running'.there
               /\ DOMAIN user'.items = DOMAIN running'.items
               /\ (\A p \in DOMAIN user'.items : user'.items[p].value = running'.items[p].value)
  <1>1. ASSUME IndInv, Next, pc' = "idle", pc \in Installing PROVE CreateRunning
    <2>1. ASSUME Conflict \/ Fail PROVE FALSE
      BY <1>1, <2>1, Abandoned DEF Conflict, Fail, IndInv
    <2>2. ASSUME NEW copy \in late, ApplyLate(copy) PROVE FALSE
      BY <1>1, <2>2 DEF IndInv, Installed
    <2>3. QED
      BY <1>1, <2>1, <2>2 DEF Next, Work, Installing, DropUser, CreateUser, DropRunning, ReadUser,
         ReadRunning, StartFirst, Apply, Build, Stop, Restart, SaveGet, SavePut, ModifyRead,
         ModifyGet, ModifyPut, Begin, Edit, ChangeClass, Refresh, Tick, flowVars
  <1>2. ASSUME IndInv, CreateRunning PROVE Agrees
    <2>1. /\ user.there /\ DOMAIN user.items = DOMAIN Fresh
          /\ \A p \in DOMAIN Fresh : user.items[p].value = Fresh[p]
      BY <1>2 DEF IndInv, Installed, CreateRunning, Installing
    <2>2. /\ running'.there /\ DOMAIN running'.items = DOMAIN Fresh
          /\ \A p \in DOMAIN Fresh : running'.items[p].value = Fresh[p]
      BY <1>2 DEF CreateRunning
    <2>3. user' = user
      BY <1>2 DEF CreateRunning
    <2>4. QED
      BY <2>1, <2>2, <2>3
  <1>3. ASSUME UNCHANGED vars, pc' = "idle", pc \in Installing PROVE FALSE
    BY <1>3 DEF vars, flowVars, Installing
  <1>4. IndInv /\ [Next]_vars => [Agrees]_vars
    BY <1>1, <1>2, <1>3
  <1>5. QED
    BY <1>4, Invariance, PTL DEF Spec, InstallIsConsistent

\* ModifyClassParams, when users and class changes wait until the running
\* parameters agree (db_cluster_base.go:460): although it reads the ConfigMap
\* twice, may be run again, and writes of earlier attempts may arrive at any
\* time, it replaces only defaults of the old class.
THEOREM EditsAreKept == EditsWait => (Spec => OnlyClassDefaultsReplaced)
  <1> SUFFICES ASSUME EditsWait PROVE Spec => OnlyClassDefaultsReplaced
    OBVIOUS
  <1> DEFINE Kept == pc = "modifyPut" /\ pc' = "idle" =>
               \A p \in Changeable \cap DOMAIN user'.items :
                 user'.items[p].value # user.items[p].value =>
                   user.items[p].value = ClassValue(ClassParams[class.old], p)
  <1>1. ASSUME IndInv, Next, pc = "modifyPut", pc' = "idle" PROVE ModifyPut
    <2>1. ASSUME Conflict \/ Fail PROVE FALSE
      BY <1>1, <2>1, Abandoned DEF Conflict, Fail, IndInv
    <2>2. QED
      BY <1>1, <2>1 DEF Next, Work, DropUser, CreateUser, DropRunning, CreateRunning, ReadUser,
         ReadRunning, StartFirst, Apply, Build, Stop, Restart, SaveGet, SavePut, ModifyRead,
         ModifyGet, Begin, ApplyLate, Edit, ChangeClass, Refresh, Tick, flowVars
  <1>2. ASSUME IndInv, ModifyPut PROVE Kept
    <2>1. Store(seen) /\ IsUserMap(seen)
      BY <1>2 DEF ModifyPut, IndInv, TypeOK
    <2>2. seen.rv = user.rv /\ user'.items = seen.items
      BY <2>1, Stored
    <2>3. Adapts(class, seen.items, user.items)
      BY <1>2, <2>2 DEF ModifyPut, IndInv, Merging
    <2>4. ASSUME NEW p \in Changeable \cap DOMAIN user'.items,
                 user'.items[p].value # user.items[p].value
          PROVE  user.items[p].value = ClassValue(ClassParams[class.old], p)
      <3>1. p \in Replaced(class, user.items)
        BY <2>2, <2>3, <2>4 DEF Adapts, Target
      <3>2. p \in DOMAIN user.items /\ Templates[class.new][p].changeable
        BY <2>4 DEF Changeable, Tmpl
      <3>3. p \in DOMAIN ClassParams[class.old] /\ user.items[p].value = ClassParams[class.old][p]
        BY <3>1, <3>2 DEF Replaced, Overridden, Insists, ValueIn
      <3>4. QED
        BY <3>3 DEF ClassValue
    <2>5. QED
      BY <2>4
  <1>3. ASSUME UNCHANGED vars, pc = "modifyPut", pc' = "idle" PROVE FALSE
    BY <1>3 DEF vars, flowVars
  <1>4. IndInv /\ [Next]_vars => [Kept]_vars
    BY <1>1, <1>2, <1>3
  <1>5. QED
    BY <1>4, Invariance, PTL DEF Spec, OnlyClassDefaultsReplaced

-----------------------------------------------------------------------------
(***************************************************************************)
(* What is to be flushed                                                   *)
(*                                                                         *)
(* From here on users and class changes wait until nothing is in progress  *)
(* (EditsWait).                                                            *)
(***************************************************************************)
\* What is in effect is Reported(p); what was flushed, what the ClusterManager
\* has recorded, and what a flush is to bring about, as the engine reports it.
SetTo(p) == Plain[engine.config[p]]
RunsAs(p) == Plain[running.items[p].value]
Imposed(p) == Fixed(Tmpl, CanUpdate, p)
Aim(p) == Plain[IF Imposed(p) THEN Tmpl[p].default ELSE user.items[p].value]
InEffect(p) == Reported(p) = Aim(p) /\ SetTo(p) = Aim(p)

Regarded == DOMAIN user.items \ IgnoreParams
Newer(p) == UserNewer(user.items, running.items, p)
Since(p) == FlushedSince(user.items, user.flush, p)

\* How values and times of a parameter go together.  The engine has the value
\* recorded or the one to come, and the latter first where it was flushed; a
\* value that is not newer is the one recorded; a newer one that a flush has
\* passed is in effect.
Follows(p) ==
  /\ Reported(p) \in {RunsAs(p), Aim(p)} /\ SetTo(p) \in {RunsAs(p), Aim(p)}
  /\ Reported(p) = Aim(p) => SetTo(p) = Aim(p)
  /\ \/ running.items[p].inop \in {NoValue, RunsAs(p)}
     \/ running.items[p].inop = Aim(p) /\ SetTo(p) = Aim(p)
  /\ ~Imposed(p) /\ (~Newer(p) \/ running.items[p].value # RunsAs(p)) => RunsAs(p) = Aim(p)
  /\ Newer(p) /\ Since(p) /\ (Imposed(p) => user.items[p].value = Tmpl[p].default) => InEffect(p)

Matched ==
  pc \notin Installing =>
    DOMAIN running.items = DOMAIN user.items /\ \A p \in Regarded : Follows(p)

\* What a flush has brought about stays so until something is changed, also
\* when its record arrives late.
Given == \A p \in Regarded : SetTo(p) = Aim(p)
Done == \A p \in Regarded : InEffect(p)

Covered ==
  /\ pc \in {"stop", "restart"} => Given
  /\ pc \in Saving \/ settled => Done
  /\ settled => pc \notin Installing
  /\ pc = "savePut" /\ seen.rv = user.rv => seen.items = user.items
  /\ pc \notin Modifying =>
       \A copy \in late : (copy.rv = user.rv) => copy.items = user.items /\ Done

\* What a flush has read makes it bring about the aim, and leave out only what
\* is in effect already.
Brings(p) ==
  /\ p \in DOMAIN Effective.params /\ Plain[Effective.params[p]] = Aim(p)
  /\ p \notin Changes(Tmpl, seen.items, seen.flush, ran, inop, CanUpdate) => InEffect(p)

Carrying ==
  /\ pc \in {"readRunning", "start", "apply"} => seen.items = user.items /\ seen.flush <= user.flush
  /\ pc \in {"start", "apply"} => \A p \in Regarded : Brings(p)

\* While the parameters are adapted to a class the engine and what is recorded
\* of it stay as they are.
Held ==
  pc \in Modifying =>
    /\ engine.config = engine.live /\ UpToDate
    /\ \A p \in DOMAIN running.items : running.items[p].time < now
    /\ pc = "modifyGet" =>
         /\ DOMAIN ran = DOMAIN running.items
         /\ \A p \in DOMAIN ran : /\ ran[p].value = running.items[p].value
                                  /\ ran[p].time = running.items[p].time

\* A copy that adapts them changes something, and what it changes is newer than
\* what is recorded and the last flush, or is what is recorded.
Adapting ==
  pc \in Modifying =>
    \A copy \in late \cup (IF pc = "modifyPut" THEN {seen} ELSE {}) : (copy.rv = user.rv) =>
      /\ copy.items # user.items /\ copy.flush = user.flush
      /\ DOMAIN copy.items = DOMAIN user.items
      /\ \A p \in DOMAIN user.items :
           \/ copy.items[p] = user.items[p]
           \/ /\ copy.items[p].value # user.items[p].value
              /\ \/ copy.items[p].time >= user.flush /\ copy.items[p].time > running.items[p].time
                 \/ /\ copy.items[p].value = running.items[p].value
                    /\ copy.items[p].time = running.items[p].time

Steady == Matched /\ Covered /\ Carrying /\ Held /\ Adapting

-----------------------------------------------------------------------------
\* What the engine reports has no quotes.
LEMMA PlainFacts ==
  ASSUME TypeOK, NEW p \in DOMAIN user.items
  PROVE  /\ Reported(p) \in Values /\ Plain[Reported(p)] = Reported(p)
         /\ SetTo(p) \in Values /\ Plain[SetTo(p)] = SetTo(p)
         /\ Aim(p) \in Values /\ Plain[Aim(p)] = Aim(p)
         /\ user.items[p].value \in Values /\ user.items[p].time \in Nat
         /\ p \in DOMAIN running.items =>
              /\ running.items[p].value \in Values /\ running.items[p].time \in Nat
              /\ RunsAs(p) \in Values /\ Plain[RunsAs(p)] = RunsAs(p)
  <1>1. Plain \in [Values -> Values] /\ \A v \in Values : Plain[Plain[v]] = Plain[v]
    BY ConstantsAssumption DEF ConstantsAssumption
  <1>2. /\ user.items \in [DOMAIN user.items -> UserItem] /\ p \in Params
        /\ running.items \in [DOMAIN running.items -> RunningItem]
    BY DEF TypeOK, IsUserMap, IsMap
  <1>3. user.items[p].value \in Values /\ user.items[p].time \in Nat
    BY <1>2 DEF UserItem
  <1>4. engine.live[p] \in Values /\ engine.config[p] \in Values
    BY <1>2 DEF TypeOK
  <1>5. Imposed(p) => Tmpl[p].default \in Values
    <2>1. Tmpl \in [DOMAIN Tmpl -> TemplateItems(Values)]
      BY TemplateType DEF TypeOK
    <2>2. QED
      BY <2>1 DEF Imposed, Fixed, TemplateItems
  <1>6. (IF Imposed(p) THEN Tmpl[p].default ELSE user.items[p].value) \in Values
    BY <1>3, <1>5
  <1>7. p \in DOMAIN running.items =>
          running.items[p].value \in Values /\ running.items[p].time \in Nat
    BY <1>2 DEF RunningItem
  <1>8. QED
    BY <1>1, <1>3, <1>4, <1>6, <1>7 DEF Reported, SetTo, Aim, RunsAs

LEMMA SameAim ==
  ASSUME user'.items = user.items, class' = class, NEW p
  PROVE  Tmpl' = Tmpl /\ Imposed(p)' = Imposed(p) /\ Aim(p)' = Aim(p) /\ Regarded' = Regarded
  BY DEF Tmpl, Imposed, Aim, Regarded

\* The engine is given the aim, or what it was given comes into effect.
Moves(p) ==
  SetTo(p)' \in {SetTo(p), Aim(p)} /\ Reported(p)' \in {Reported(p), SetTo(p)'}

LEMMA FollowsEngine ==
  ASSUME NEW p, Follows(p), Moves(p), UNCHANGED <<user, running, class>>
  PROVE  /\ Follows(p)'
         /\ InEffect(p) => InEffect(p)'
         /\ SetTo(p) = Aim(p) => SetTo(p)' = Aim(p)'
  <1>1. Imposed(p)' = Imposed(p) /\ Aim(p)' = Aim(p) /\ Tmpl' = Tmpl
    BY SameAim
  <1>2. RunsAs(p)' = RunsAs(p) /\ Newer(p)' = Newer(p) /\ Since(p)' = Since(p)
    BY DEF RunsAs, Newer, Since
  <1>3. QED
    BY <1>1, <1>2 DEF Follows, Moves, InEffect

\* When the engine runs with what it was given, and this is recorded, so is it
\* of every parameter.
LEMMA Calm ==
  ASSUME TypeOK, Matched, pc \notin Installing, engine.config = engine.live, UpToDate,
         NEW p \in Regarded
  PROVE  /\ p \in DOMAIN running.items /\ p \in DOMAIN user.items
         /\ running.items[p].value = RunsAs(p)
         /\ Reported(p) = RunsAs(p) /\ SetTo(p) = RunsAs(p)
         /\ running.items[p].inop \in {NoValue, RunsAs(p)}
  <1>1. p \in DOMAIN user.items /\ p \in DOMAIN running.items /\ Follows(p)
    BY DEF Matched, Regarded
  <1>2. SetTo(p) = Reported(p) /\ running.items[p].value = Reported(p)
    BY <1>1 DEF SetTo, Reported, UpToDate
  <1>3. RunsAs(p) = Reported(p)
    BY <1>1, <1>2, PlainFacts DEF RunsAs
  <1>4. QED
    BY <1>1, <1>2, <1>3 DEF Follows

\* A change of the user parameters then.
LEMMA FollowsUser ==
  ASSUME NEW p, running.items[p].value = RunsAs(p), Reported(p) = RunsAs(p), SetTo(p) = RunsAs(p),
         running.items[p].inop \in {NoValue, RunsAs(p)}, UNCHANGED <<running, engine>>,
         \/ Newer(p)' /\ ~Since(p)'
         \/ ~Newer(p)' /\ user'.items[p].value = running.items[p].value
         \/ Aim(p)' = RunsAs(p)
  PROVE  Follows(p)'
  <1>1. /\ RunsAs(p)' = RunsAs(p) /\ Reported(p)' = Reported(p) /\ SetTo(p)' = SetTo(p)
        /\ running'.items = running.items
    BY DEF RunsAs, Reported, SetTo
  <1>2. ~Newer(p)' /\ user'.items[p].value = running.items[p].value /\ ~Imposed(p)'
          => Aim(p)' = RunsAs(p)
    BY DEF Aim, RunsAs
  <1>3. QED
    BY <1>1, <1>2 DEF Follows, InEffect

LEMMA FollowsRefresh ==
  ASSUME TypeOK, Versions, Matched, Refresh, NEW p \in Regarded
  PROVE  Follows(p)'
  <1> DEFINE wait == IF engine.config[p] = engine.live[p] THEN NoValue
                     ELSE Plain[engine.config[p]]
             new == running'.items[p]
  <1>1. /\ p \in DOMAIN user.items /\ p \in DOMAIN running.items /\ Follows(p)
        /\ pc \notin Installing
    BY DEF Matched, Regarded, Refresh
  <1>2. /\ UNCHANGED <<user, engine, class, now>>
        /\ IF running.items[p].value = Reported(p)
           THEN /\ new.value = running.items[p].value /\ new.time = running.items[p].time
                /\ new.inop = wait
           ELSE new.value = Reported(p) /\ new.time = now /\ new.inop = wait
    <2>1. /\ running = [there |-> running.there, items |-> running.items]
          /\ running.items[p] \in RunningItem
      BY <1>1 DEF TypeOK, IsMap
    <2>2. new = IF running.items[p].value = Reported(p)
                THEN [running.items[p] EXCEPT !.inop = wait]
                ELSE [value |-> Reported(p), time |-> now, inop |-> wait]
      BY <1>1, <2>1 DEF Refresh
    <2> HIDE DEF wait, new
    <2>3. [running.items[p] EXCEPT !.inop = wait]
            = [value |-> running.items[p].value, time |-> running.items[p].time, inop |-> wait]
      BY <2>1 DEF RunningItem
    <2>4. UNCHANGED <<user, engine, class, now>>
      BY DEF Refresh
    <2>5. QED
      BY <2>2, <2>3, <2>4
  <1>3. wait \in {NoValue, SetTo(p)}
    BY DEF SetTo
  <1>4. /\ Imposed(p)' = Imposed(p) /\ Aim(p)' = Aim(p) /\ Tmpl' = Tmpl /\ Since(p)' = Since(p)
        /\ Reported(p)' = Reported(p) /\ SetTo(p)' = SetTo(p) /\ InEffect(p)' = InEffect(p)
    BY <1>2, SameAim DEF Since, Reported, SetTo, InEffect
  <1> HIDE DEF wait
  <1>5. CASE running.items[p].value = Reported(p)
    <2>1. RunsAs(p)' = RunsAs(p) /\ Newer(p)' = Newer(p) /\ new.inop = wait
          /\ running'.items[p].value = running.items[p].value
      BY <1>2, <1>5 DEF RunsAs, Newer, UserNewer
    <2>2. QED
      BY <1>1, <1>2, <1>3, <1>4, <2>1 DEF Follows
  <1>6. CASE running.items[p].value # Reported(p)
    <2>1. /\ running'.items[p].value = Reported(p) /\ running'.items[p].time = now
          /\ running'.items[p].inop = wait
      BY <1>2, <1>6
    <2>2. RunsAs(p)' = Reported(p)
      BY <1>1, <2>1, PlainFacts DEF RunsAs
    <2>3. Reported(p) = RunsAs(p) => running.items[p].value # RunsAs(p)
      BY <1>6
    <2>4. Reported(p) \in {RunsAs(p), Aim(p)} /\ SetTo(p) \in {RunsAs(p), Aim(p)}
          /\ (Reported(p) = Aim(p) => SetTo(p) = Aim(p))
          /\ (~Imposed(p) /\ running.items[p].value # RunsAs(p) => RunsAs(p) = Aim(p))
      BY <1>1 DEF Follows
    <2>5. ~(Newer(p)' /\ Since(p)')
      <3>1. Newer(p)' => user.items[p].time > now
        BY <1>2, <2>1 DEF Newer, UserNewer
      <3>2. Since(p)' => user.flush > user.items[p].time
        BY <1>2 DEF Since, FlushedSince
      <3>3. user.flush <= now /\ user.flush \in Nat /\ now \in Nat /\ user.items[p].time \in Nat
        BY <1>1, UserMapParts, PlainFacts DEF Versions, TypeOK
      <3>4. QED
        BY <3>1, <3>2, <3>3
    <2>6. QED
      BY <1>3, <1>4, <2>1, <2>2, <2>3, <2>4, <2>5 DEF Follows
  <1>7. QED
    BY <1>5, <1>6

\* Quotes do not change what the engine reports.
LEMMA QuotaPlain ==
  ASSUME NEW tmpl, NEW u, NEW p, NEW v \in Values
  PROVE  Plain[QuotaValue(tmpl, u, p, v)] = Plain[v]
  BY ConstantsAssumption DEF ConstantsAssumption, QuotaValue

\* GetEffectiveParams leads to the aim, and what it leaves unchanged is there.
LEMMA EffectiveIsAim ==
  ASSUME TypeOK, Matched, pc \notin Installing, NEW p \in Regarded, NEW f \in Nat, f <= user.flush,
         NEW i \in BOOLEAN
  PROVE  /\ p \in DOMAIN GetEffectiveParams(Tmpl, user.items, f, running.items, i, CanUpdate).params
         /\ Plain[GetEffectiveParams(Tmpl, user.items, f, running.items, i, CanUpdate).params[p]]
              = Aim(p)
         /\ p \notin Changes(Tmpl, user.items, f, running.items, i, CanUpdate) => InEffect(p)
  <1> DEFINE e == GetEffectiveParams(Tmpl, user.items, f, running.items, i, CanUpdate)
             C == Changes(Tmpl, user.items, f, running.items, i, CanUpdate)
             v == Merged(Tmpl, user.items, running.items, i, p)
             quoted(w) == QuotaValue(Tmpl, user.items[p].value, p, w)
  <1>1. p \in DOMAIN user.items /\ p \in DOMAIN running.items /\ Follows(p) /\ p \notin IgnoreParams
    BY DEF Matched, Regarded
  <1>2. /\ p \in FromRunning(user.items, running.items)
        /\ p \notin FromUser(user.items, running.items)
    BY <1>1 DEF FromRunning, FromUser
  <1>3. /\ p \in DOMAIN e.params
        /\ e.params[p] = IF Insists(Tmpl, CanUpdate, p, v) THEN Tmpl[p].default ELSE v
    BY <1>2 DEF GetEffectiveParams
  <1>4. p \notin C =>
          /\ Newer(p) => FlushedSince(user.items, f, p)
          /\ ~Waiting(user.items, running.items, i, p)
          /\ ~Insists(Tmpl, CanUpdate, p, v)
    BY <1>2 DEF Changes, Newer
  <1>5. v = IF Newer(p) THEN user.items[p].value
            ELSE IF Waiting(user.items, running.items, i, p) THEN quoted(running.items[p].inop)
            ELSE quoted(running.items[p].value)
    <2>1. CASE Newer(p)
      <3>1. ~Waiting(user.items, running.items, i, p)
        BY <2>1 DEF Newer, Waiting
      <3>2. QED
        BY <2>1, <3>1 DEF Merged, Newer
    <2>2. CASE ~Newer(p)
      BY <2>2 DEF Merged, Newer
    <2>3. QED
      BY <2>1, <2>2
  <1>6. FlushedSince(user.items, f, p) => Since(p)
    <2>1. user.flush \in Nat /\ user.items[p].time \in Nat
      BY <1>1, UserMapParts, PlainFacts DEF TypeOK
    <2>2. QED
      BY <2>1 DEF FlushedSince, Since
  <1>7. /\ Plain[quoted(running.items[p].value)] = RunsAs(p)
        /\ Plain[quoted(running.items[p].inop)] = Plain[running.items[p].inop]
    <2>1. running.items[p] \in RunningItem
      BY <1>1 DEF TypeOK, IsMap
    <2>2. running.items[p].value \in Values /\ running.items[p].inop \in Values
      BY <2>1 DEF RunningItem
    <2>3. QED
      BY <2>2, QuotaPlain DEF RunsAs
  <1>8. Plain[Aim(p)] = Aim(p)
    BY <1>1, PlainFacts
  <1>9. Insists(Tmpl, CanUpdate, p, v) <=> Imposed(p) /\ v # Tmpl[p].default
    BY DEF Insists, Imposed, Fixed
  <1> HIDE DEF e, C, v, quoted
  <1>10. CASE Imposed(p)
    <2>1. Aim(p) = Plain[Tmpl[p].default] /\ e.params[p] = Tmpl[p].default
      BY <1>3, <1>9, <1>10 DEF Aim
    <2>2. ASSUME p \notin C PROVE InEffect(p)
      <3>1. v = Tmpl[p].default /\ ~Waiting(user.items, running.items, i, p)
        BY <1>4, <1>9, <1>10, <2>2
      <3>2. CASE Newer(p)
        <4>1. user.items[p].value = Tmpl[p].default /\ Since(p)
          BY <1>4, <1>5, <1>6, <2>2, <3>1, <3>2
        <4>2. QED
          BY <1>1, <3>2, <4>1 DEF Follows
      <3>3. CASE ~Newer(p)
        <4>1. RunsAs(p) = Aim(p)
          BY <1>5, <1>7, <2>1, <3>1, <3>3
        <4>2. QED
          BY <1>1, <4>1 DEF Follows, InEffect
      <3>4. QED
        BY <3>2, <3>3
    <2>3. QED
      BY <1>3, <2>1, <2>2 DEF e, C
  <1>11. CASE ~Imposed(p)
    <2>1. Aim(p) = Plain[user.items[p].value] /\ e.params[p] = v
      BY <1>3, <1>9, <1>11 DEF Aim
    <2>2. CASE Newer(p)
      <3>1. p \notin C => Since(p)
        BY <1>4, <1>6, <2>2
      <3>2. p \notin C => InEffect(p)
        BY <1>1, <1>11, <2>2, <3>1 DEF Follows
      <3>3. QED
        BY <1>3, <1>5, <2>1, <2>2, <3>2 DEF e, C
    <2>3. CASE ~Newer(p)
      <3>1. RunsAs(p) = Aim(p) /\ InEffect(p)
        BY <1>1, <1>11, <2>3 DEF Follows, InEffect
      <3>2. Waiting(user.items, running.items, i, p) => running.items[p].inop = Aim(p)
        BY <1>1, <3>1 DEF Follows, Waiting
      <3>3. Plain[v] = Aim(p)
        BY <1>5, <1>7, <1>8, <2>3, <3>1, <3>2
      <3>4. QED
        BY <1>3, <2>1, <3>1, <3>3 DEF e, C
    <2>4. QED
      BY <2>2, <2>3
  <1>12. QED
    BY <1>10, <1>11

\* UpdateEngineParams gives the engine the aim; without a restart it is in
\* effect already.
LEMMA Applied ==
  ASSUME TypeOK, NEW p \in Regarded, Brings(p), UNCHANGED <<user, class>>,
         engine' = Configured(Effective.params) \/ engine' = Started(Configured(Effective.params))
  PROVE  /\ Moves(p) /\ SetTo(p)' = Aim(p)'
         /\ ~Effective.needRestart \/ engine' = Started(Configured(Effective.params))
              => Reported(p)' = Aim(p)'
  <1> DEFINE new == Effective.params
  <1>1. p \in Params /\ p \in DOMAIN user.items
    BY DEF TypeOK, IsUserMap, IsMap, Regarded
  <1>2. p \in DOMAIN new /\ Plain[new[p]] = Aim(p)
    BY DEF Brings
  <1>3. Aim(p)' = Aim(p)
    BY SameAim
  <1> HIDE DEF new
  <1>a. engine \in Engines
    BY DEF TypeOK, Engines
  <1>b. IsMap(new, Values)
    BY EffectiveIsMap DEF new
  <1>c. Configured(new) \in Engines
    BY <1>a, <1>b, ConfiguredType
  <1>4. /\ Configured(new).config[p] = new[p]
        /\ Configured(new).live[p] = IF p \in Reloadable THEN new[p] ELSE engine.live[p]
    BY <1>1, <1>2, <1>a DEF Configured, Engines
  <1>5. /\ Started(Configured(new)).config[p] = new[p]
        /\ Started(Configured(new)).live[p] = new[p]
    <2>1. \A e \in Engines : Started(e).config = e.config /\ Started(e).live = e.config
      BY DEF Started, Engines
    <2>2. QED
      BY <1>4, <1>c, <2>1
  <1>6. SetTo(p)' = Aim(p)
    BY <1>2, <1>4, <1>5 DEF SetTo, new
  <1>7. Reported(p)' \in {Reported(p), Aim(p)}
    BY <1>2, <1>4, <1>5 DEF Reported, new
  <1>8. engine' = Started(Configured(new)) => Reported(p)' = Aim(p)
    BY <1>2, <1>5 DEF Reported
  <1>9. ASSUME ~Effective.needRestart, engine' = Configured(new) PROVE Reported(p)' = Aim(p)
    <2>1. CASE p \in Reloadable
      BY <1>2, <1>4, <1>9, <2>1 DEF Reported
    <2>2. CASE p \notin Reloadable
      <3>1. Reported(p)' = Reported(p)
        BY <1>4, <1>9, <2>2 DEF Reported
      <3>2. NeedsRestart(Tmpl, p)
        <4>1. p \in DOMAIN Template => ~Template[p].dynamic
          BY <2>2, ConstantsAssumption DEF ConstantsAssumption
        <4>2. class.new \in Classes
          BY DEF TypeOK
        <4>3. p \in DOMAIN ClassParams[class.new] => p \in DOMAIN Template
          BY <2>2, <4>2, ConstantsAssumption DEF ConstantsAssumption
        <4>4. p \in DOMAIN Tmpl => p \in DOMAIN Template /\ Tmpl[p].dynamic = Template[p].dynamic
          <5>1. Tmpl = ClassTemplate(Template, ClassParams[class.new])
            BY <4>2 DEF Tmpl, Templates
          <5>2. p \in DOMAIN Tmpl => p \in DOMAIN Template
            BY <4>3, <5>1 DEF ClassTemplate
          <5>3. p \in DOMAIN Template => Template[p] \in TemplateItems(Values)
            BY ConstantsAssumption DEF ConstantsAssumption, TemplateItems
          <5>4. p \in DOMAIN Template =>
                  [Template[p] EXCEPT !.default = ClassParams[class.new][p]].dynamic
                    = Template[p].dynamic
            BY <5>3 DEF TemplateItems
          <5>5. QED
            BY <5>1, <5>2, <5>4 DEF ClassTemplate
        <4>5. QED
          BY <4>1, <4>4 DEF NeedsRestart
      <3>3. p \notin Changes(Tmpl, seen.items, seen.flush, ran, inop, CanUpdate)
        BY <1>9, <3>2 DEF Effective, GetEffectiveParams
      <3>4. QED
        BY <3>1, <3>3 DEF Brings, InEffect
    <2>3. QED
      BY <2>1, <2>2
  <1>10. QED
    BY <1>3, <1>6, <1>7, <1>8, <1>9 DEF Moves, new

\* What Steady says of the engine, while it and the ConfigMaps stay as they are.
LEMMA Unmoved ==
  ASSUME UNCHANGED <<user, running, engine, class>>
  PROVE  /\ Regarded' = Regarded /\ Given' = Given /\ Done' = Done
         /\ \A p : /\ Follows(p)' = Follows(p) /\ InEffect(p)' = InEffect(p)
                   /\ Aim(p)' = Aim(p)
  <1>1. Tmpl' = Tmpl
    BY DEF Tmpl
  <1>2. \A p : /\ Imposed(p)' = Imposed(p) /\ Aim(p)' = Aim(p) /\ RunsAs(p)' = RunsAs(p)
               /\ SetTo(p)' = SetTo(p) /\ Reported(p)' = Reported(p)
               /\ Newer(p)' = Newer(p) /\ Since(p)' = Since(p)
    BY <1>1 DEF Imposed, Aim, RunsAs, SetTo, Reported, Newer, Since
  <1>3. \A p : InEffect(p)' = InEffect(p)
    BY <1>2 DEF InEffect
  <1>4. \A p : Follows(p)' = Follows(p)
    BY <1>1, <1>2, <1>3 DEF Follows
  <1>5. Regarded' = Regarded
    BY DEF Regarded
  <1>6. QED
    BY <1>2, <1>3, <1>4, <1>5 DEF Given, Done

\* Matched and Covered after a step that reads or gives up.
LEMMA Reading ==
  ASSUME Matched, Covered, UNCHANGED <<user, running, engine, class, settled>>,
         pc \notin Installing, pc' \notin Installing,
         pc' \in {"stop", "restart"} => Given, pc' \in Saving => Done,
         pc' = "savePut" => seen'.items = user.items,
         pc' \notin Modifying => \A copy \in late' :
           (copy.rv = user.rv) => copy.items = user.items /\ Done
  PROVE  Matched' /\ Covered'
  <1>1. /\ Regarded' = Regarded /\ Given' = Given /\ Done' = Done
        /\ \A p : Follows(p)' = Follows(p)
    BY Unmoved
  <1>2. Matched'
    BY <1>1 DEF Matched
  <1>3. Covered'
    BY <1>1 DEF Covered
  <1>4. QED
    BY <1>2, <1>3

\* Before the installation has succeeded there is nothing to say.
LEMMA WhileInstalling ==
  ASSUME pc' \in Installing, ~settled', late' = {}
  PROVE  Steady'
  <1>1. /\ pc' \notin Modifying /\ pc' \notin Saving
        /\ pc' \notin {"stop", "restart", "savePut", "readRunning", "start", "apply"}
    BY DEF Installing, Modifying, Saving
  <1>2. QED
    BY <1>1 DEF Steady, Matched, Covered, Carrying, Held, Adapting

\* Matched and Covered after a step that gives the engine values.
LEMMA EngineMoves ==
  ASSUME Matched, Covered, UNCHANGED <<user, running, class, settled, late>>,
         pc \in Flushing, pc' \notin Installing \cup Modifying \cup {"savePut"},
         \A p \in Regarded : Moves(p),
         pc' \in {"stop", "restart"} => \A p \in Regarded : SetTo(p)' = Aim(p)',
         pc' \in Saving => \A p \in Regarded : InEffect(p)'
  PROVE  /\ Matched' /\ Covered' /\ Regarded' = Regarded
         /\ \A p \in Regarded : InEffect(p) => InEffect(p)'
  <1>1. pc \notin Installing /\ pc \notin Modifying /\ pc' \notin Modifying
    BY DEF Flushing, Installing, Modifying
  <1>2. \A p \in Regarded : Follows(p)' /\ (InEffect(p) => InEffect(p)')
    BY <1>1, FollowsEngine DEF Matched
  <1>3. Regarded' = Regarded
    BY DEF Regarded
  <1>4. Matched'
    BY <1>1, <1>2, <1>3 DEF Matched
  <1>5. Done => Done'
    BY <1>2, <1>3 DEF Done
  <1>6. pc' \in {"stop", "restart"} => Given'
    BY <1>3 DEF Given
  <1>7. pc' \in Saving => Done'
    BY <1>3 DEF Done
  <1>8. Covered'
    BY <1>1, <1>5, <1>6, <1>7 DEF Covered
  <1>9. QED
    BY <1>2, <1>3, <1>4, <1>8

\* Once the engine runs with what it was given, it reports it.
LEMMA StartedMoves ==
  ASSUME TypeOK, NEW p, engine' = Started(engine)
  PROVE  SetTo(p)' = SetTo(p) /\ Reported(p)' = SetTo(p)
  BY DEF TypeOK, Started, SetTo, Reported

\* A flush, and the building of an instance.
LEMMA FlushSteps ==
  ASSUME IndInv, Steady, pc \notin Installing,
         \/ pc = "flush" /\ ReadUser
         \/ ReadRunning \/ StartFirst \/ Apply \/ Build \/ Stop \/ Restart
  PROVE  Steady'
  <1>a. Matched /\ Covered /\ Carrying /\ TypeOK
    BY DEF Steady, IndInv
  <1>b. \A p : (UNCHANGED <<user, class>>) => Aim(p)' = Aim(p)
    BY SameAim
  <1>1. ASSUME pc = "flush", ReadUser PROVE Steady'
    <2>1. /\ pc' = "readRunning" /\ seen' = user
          /\ UNCHANGED <<user, running, engine, class, settled, late>>
      BY <1>1 DEF ReadUser
    <2>2. \A copy \in late : (copy.rv = user.rv) => copy.items = user.items /\ Done
      BY <1>1, <1>a DEF Covered, Modifying
    <2>3. Matched' /\ Covered'
      BY <1>a, <2>1, <2>2, Reading DEF Installing, Saving
    <2>4. user.flush \in Nat
      BY <1>a, UserMapParts DEF TypeOK
    <2>5. Carrying'
      BY <2>1, <2>4 DEF Carrying
    <2>6. QED
      BY <2>1, <2>3, <2>5 DEF Steady, Held, Adapting, Modifying
  <1>2. ASSUME ReadRunning PROVE Steady'
    <2>1. /\ pc = "readRunning" /\ pc' \in {"flush", "apply", "start"}
          /\ ran' = running.items
          /\ UNCHANGED <<user, running, engine, class, settled, late, seen, inop>>
      BY <1>2 DEF ReadRunning
    <2>2. \A copy \in late : (copy.rv = user.rv) => copy.items = user.items /\ Done
      BY <1>a, <2>1 DEF Covered, Modifying
    <2>3. Matched' /\ Covered'
      BY <1>a, <2>1, <2>2, Reading DEF Installing, Saving
    <2>4. seen.items = user.items /\ seen.flush <= user.flush /\ seen.flush \in Nat
      BY <1>a, <2>1, UserMapParts DEF Carrying, TypeOK
    <2>5. Tmpl' = Tmpl
      BY <2>1 DEF Tmpl
    <2>6. ASSUME NEW p \in Regarded PROVE Brings(p)'
      <3>1. /\ Effective' = GetEffectiveParams(Tmpl, user.items, seen.flush, running.items, inop,
                                               CanUpdate)
            /\ Changes(Tmpl', seen'.items, seen'.flush, ran', inop', CanUpdate)
                 = Changes(Tmpl, user.items, seen.flush, running.items, inop, CanUpdate)
        BY <2>1, <2>4, <2>5 DEF Effective
      <3>2. inop \in BOOLEAN /\ pc \notin Installing
        BY <1>a DEF TypeOK
      <3>3. /\ p \in DOMAIN GetEffectiveParams(Tmpl, user.items, seen.flush, running.items, inop,
                                               CanUpdate).params
            /\ Plain[GetEffectiveParams(Tmpl, user.items, seen.flush, running.items, inop,
                                        CanUpdate).params[p]] = Aim(p)
            /\ p \notin Changes(Tmpl, user.items, seen.flush, running.items, inop, CanUpdate) =>
                 InEffect(p)
        BY <1>a, <2>4, <3>2, EffectiveIsAim
      <3>4. Aim(p)' = Aim(p) /\ InEffect(p)' = InEffect(p)
        BY <2>1, Unmoved
      <3>5. QED
        BY <3>1, <3>3, <3>4 DEF Brings
    <2>7. Regarded' = Regarded
      BY <2>1, Unmoved
    <2>8. Carrying'
      BY <2>1, <2>4, <2>6, <2>7 DEF Carrying
    <2>9. QED
      BY <2>1, <2>3, <2>8 DEF Steady, Held, Adapting, Modifying
  <1>3. ASSUME StartFirst PROVE Steady'
    <2>1. /\ pc = "start" /\ pc' = "apply" /\ engine' = Started(engine)
          /\ UNCHANGED <<user, running, class, settled, late, seen, ran, inop>>
      BY <1>3 DEF StartFirst
    <2>2. \A p \in Regarded : Moves(p)
      BY <1>a, <2>1, StartedMoves DEF Moves
    <2>3. /\ Matched' /\ Covered' /\ Regarded' = Regarded
          /\ \A p \in Regarded : InEffect(p) => InEffect(p)'
      BY <1>a, <2>1, <2>2, EngineMoves DEF Flushing, Installing, Modifying, Saving
    <2>4. Carrying'
      <3>1. Tmpl' = Tmpl
        BY <2>1 DEF Tmpl
      <3>2. Effective' = Effective
        BY <2>1, <3>1 DEF Effective
      <3>3. \A p \in Regarded : Brings(p)'
        BY <1>a, <1>b, <2>1, <2>3, <3>1, <3>2 DEF Brings, Carrying
      <3>4. QED
        BY <1>a, <2>1, <2>3, <3>3 DEF Carrying
    <2>5. QED
      BY <2>1, <2>3, <2>4 DEF Steady, Held, Adapting, Modifying
  <1>4. ASSUME Apply \/ Build PROVE Steady'
    <2>1. /\ pc = "apply" /\ pc' \in {"stop", "saveGet", "idle"}
          /\ pc' = "saveGet" => ~Effective.needRestart
          /\ \/ engine' = Configured(Effective.params)
             \/ engine' = Started(Configured(Effective.params))
          /\ UNCHANGED <<user, running, class, settled, late>>
      BY <1>4 DEF Apply, Build
    <2>2. \A p \in Regarded : Brings(p)
      BY <1>a, <2>1 DEF Carrying
    <2>3. \A p \in Regarded : /\ Moves(p) /\ SetTo(p)' = Aim(p)'
                              /\ pc' = "saveGet" => Reported(p)' = Aim(p)'
      BY <1>a, <2>1, <2>2, Applied
    <2>4. Matched' /\ Covered'
      BY <1>a, <2>1, <2>3, EngineMoves DEF Flushing, Installing, Modifying, Saving, InEffect
    <2>5. QED
      BY <2>1, <2>4 DEF Steady, Carrying, Held, Adapting, Modifying
  <1>5. ASSUME Stop PROVE Steady'
    <2>1. /\ pc = "stop" /\ pc' = "restart" /\ UNCHANGED <<user, running, class, settled, late>>
          /\ engine'.config = engine.config /\ engine'.live = engine.live
      BY <1>5, <1>a DEF Stop, TypeOK
    <2>2. \A p \in Regarded : SetTo(p)' = SetTo(p) /\ Reported(p)' = Reported(p)
      BY <2>1 DEF SetTo, Reported
    <2>3. \A p \in Regarded : SetTo(p)' = Aim(p)'
      BY <1>a, <1>b, <2>1, <2>2 DEF Covered, Given
    <2>4. Matched' /\ Covered'
      BY <1>a, <2>1, <2>2, <2>3, EngineMoves DEF Moves, Flushing, Installing, Modifying, Saving
    <2>5. QED
      BY <2>1, <2>4 DEF Steady, Carrying, Held, Adapting, Modifying
  <1>6. ASSUME Restart PROVE Steady'
    <2>1. /\ pc = "restart" /\ pc' = "saveGet" /\ UNCHANGED <<user, running, class, settled, late>>
          /\ engine' = Started(engine)
      BY <1>6 DEF Restart
    <2>2. \A p \in Regarded : SetTo(p)' = SetTo(p) /\ Reported(p)' = SetTo(p)
      BY <1>a, <2>1, StartedMoves
    <2>3. \A p \in Regarded : InEffect(p)'
      BY <1>a, <1>b, <2>1, <2>2 DEF Covered, Given, InEffect
    <2>4. Matched' /\ Covered'
      BY <1>a, <2>1, <2>2, <2>3, EngineMoves DEF Moves, Flushing, Installing, Modifying, Saving
    <2>5. QED
      BY <2>1, <2>4 DEF Steady, Carrying, Held, Adapting, Modifying
  <1>7. QED
    BY <1>1, <1>2, <1>3, <1>4, <1>5, <1>6

\* A write outdates every copy there is.
LEMMA Outdated ==
  ASSUME TypeOK, Versions, user'.rv = user.rv + 1
  PROVE  \A copy \in late \cup {seen} : copy.rv # user'.rv
  <1>1. user.rv \in Nat /\ \A m \in late \cup {seen} : m.rv \in Nat
    BY UserMapParts DEF TypeOK
  <1>2. \A m \in late \cup {seen} : m.rv <= user.rv
    BY DEF Versions, Copies
  <1>3. QED
    BY <1>1, <1>2

\* The write of a flush time, when what was flushed is in effect.
LEMMA FlushStored ==
  ASSUME IndInv, Matched, NEW copy \in Copies, Store(copy), copy.items = user.items, Done,
         UNCHANGED <<running, engine, class>>
  PROVE  /\ Regarded' = Regarded /\ Given' = Given /\ Done'
         /\ user'.items = user.items /\ user'.rv = user.rv + 1 /\ user'.flush >= user.flush
         /\ user.flush \in Nat /\ user'.flush \in Nat
         /\ pc \notin Installing => \A p \in Regarded : Follows(p)'
         /\ \A p : InEffect(p)' = InEffect(p) /\ Aim(p)' = Aim(p)
  <1>1. IsUserMap(copy) /\ TypeOK /\ Versions
    BY DEF IndInv, TypeOK, Copies
  <1>2. /\ copy.rv = user.rv /\ user'.items = user.items /\ user'.rv = user.rv + 1
        /\ user'.flush = copy.flush
    BY <1>1, Stored
  <1>3. user.flush \in Nat /\ copy.flush \in Nat /\ user'.flush >= user.flush
    <2>1. user.flush \in Nat /\ copy.flush \in Nat
      BY <1>1, UserMapParts DEF TypeOK
    <2>2. user.flush <= copy.flush
      BY <1>1, <1>2 DEF Versions
    <2>3. QED
      BY <1>2, <2>1, <2>2
  <1>4. \A p : /\ Tmpl' = Tmpl /\ Imposed(p)' = Imposed(p) /\ Aim(p)' = Aim(p)
               /\ Regarded' = Regarded
    BY <1>2, SameAim
  <1>5. \A p : /\ RunsAs(p)' = RunsAs(p) /\ SetTo(p)' = SetTo(p) /\ Reported(p)' = Reported(p)
               /\ Newer(p)' = Newer(p)
    BY <1>2 DEF RunsAs, SetTo, Reported, Newer
  <1>6. \A p : InEffect(p)' = InEffect(p)
    BY <1>4, <1>5 DEF InEffect
  <1>7. ASSUME pc \notin Installing, NEW p \in Regarded PROVE Follows(p)'
    <2>1. Follows(p) /\ InEffect(p)
      BY <1>7 DEF Matched, Done
    <2>2. QED
      BY <1>4, <1>5, <1>6, <2>1 DEF Follows
  <1>8. QED
    BY <1>2, <1>3, <1>4, <1>5, <1>6, <1>7 DEF Given, Done

\* SaveLatestFlushTime.
LEMMA SaveSteps ==
  ASSUME IndInv, Steady, SaveGet \/ SavePut
  PROVE  Steady'
  <1>a. Matched /\ Covered /\ TypeOK /\ Versions
    BY DEF Steady, IndInv
  <1>1. ASSUME SaveGet PROVE Steady'
    <2>1. /\ pc = "saveGet" /\ pc' = "savePut"
          /\ UNCHANGED <<user, running, engine, class, settled, late>>
          /\ seen'.items = user.items
      <3>1. user = [there |-> user.there, rv |-> user.rv, items |-> user.items,
                    flush |-> user.flush]
        BY <1>a, UserMapParts DEF TypeOK
      <3>2. QED
        BY <1>1, <3>1 DEF SaveGet
    <2>2. Done /\ \A copy \in late : (copy.rv = user.rv) => copy.items = user.items
      BY <1>a, <2>1 DEF Covered, Saving, Modifying
    <2>3. Matched' /\ Covered'
      BY <1>a, <2>1, <2>2, Reading DEF Installing, Saving
    <2>4. QED
      BY <2>1, <2>3 DEF Steady, Carrying, Held, Adapting, Modifying
  <1>2. ASSUME SavePut PROVE Steady'
    <2>1. /\ pc = "savePut" /\ pc' = "idle" /\ settled'
          /\ UNCHANGED <<running, engine, class, late>> /\ Store(seen)
      BY <1>2 DEF SavePut, Forget
    <2>2. seen.rv = user.rv /\ seen \in Copies
      BY <2>1 DEF Store, Copies
    <2>3. seen.items = user.items /\ Done
      BY <1>a, <2>1, <2>2 DEF Covered, Saving
    <2>4. /\ Regarded' = Regarded /\ Done' /\ user'.items = user.items /\ user'.rv = user.rv + 1
          /\ pc \notin Installing => \A p \in Regarded : Follows(p)'
      BY <1>a, <2>1, <2>2, <2>3, FlushStored
    <2>5. Matched'
      BY <1>a, <2>1, <2>4 DEF Matched, Installing
    <2>6. \A copy \in late' : copy.rv # user'.rv
      BY <1>a, <2>1, <2>4, Outdated
    <2>7. Covered'
      BY <2>1, <2>4, <2>6 DEF Covered, Installing, Saving
    <2>8. QED
      BY <2>1, <2>5, <2>7 DEF Steady, Carrying, Held, Adapting, Modifying
  <1>3. QED
    BY <1>1, <1>2

\* When what ModifyClassParams is to replace has been replaced, no write that
\* does so is under way.
LEMMA NothingLeft ==
  ASSUME IndInv, Steady, EditsWait, pc \in Modifying,
         \A p \in DOMAIN user.items : Target(class, user.items, p) = user.items[p].value
  PROVE  Stale
  <1> SUFFICES ASSUME NEW copy \in late, copy.rv = user.rv PROVE FALSE
    BY DEF Stale
  <1>1. Adapts(class, copy.items, user.items)
    BY DEF IndInv, Merging
  <1>2. /\ DOMAIN copy.items = DOMAIN user.items
        /\ \A p \in DOMAIN user.items : copy.items[p].value = user.items[p].value
    BY <1>1 DEF Adapts
  <1>3. copy.items # user.items /\ \A p \in DOMAIN user.items :
          copy.items[p] = user.items[p] \/ copy.items[p].value # user.items[p].value
    BY DEF Steady, Adapting
  <1>4. \A p \in DOMAIN user.items : copy.items[p] = user.items[p]
    BY <1>2, <1>3
  <1>5. /\ copy.items = [p \in DOMAIN copy.items |-> copy.items[p]]
        /\ user.items = [p \in DOMAIN user.items |-> user.items[p]]
    <2>1. IsUserMap(copy) /\ IsUserMap(user)
      BY DEF IndInv, TypeOK
    <2>2. QED
      BY <2>1 DEF IsUserMap, IsMap
  <1>6. copy.items = user.items
    BY <1>2, <1>4, <1>5
  <1>7. QED
    BY <1>3, <1>6

\* A change that ModifyClassParams makes.
LEMMA AdaptingNew ==
  ASSUME IndInv, Steady, pc = "modifyGet", seen.items = user.items,
         NEW items, items = Adapted(EffectiveUser.params, user.items),
         NEW p \in DOMAIN user.items
  PROVE  \/ items[p] = user.items[p]
         \/ /\ items[p].value # user.items[p].value
            /\ \/ items[p].time >= user.flush /\ items[p].time > running.items[p].time
               \/ /\ items[p].value = running.items[p].value
                  /\ items[p].time = running.items[p].time
  <1> DEFINE new == EffectiveUser.params
             O == Replaced(class, seen.items)
  <1>1. new = [q \in DOMAIN seen.items \cup O |->
                 IF q \in O THEN Corrected(Tmpl, ran, q)
                 ELSE [value |-> seen.items[q].value, needFlush |-> TRUE, time |-> 0]]
    BY DEF EffectiveUser, GetEffectiveUserParams, Replaced, Tmpl
  <1> HIDE DEF O, new
  <1>2. p \in DOMAIN new /\ p \in DOMAIN user.items \cap DOMAIN new
    BY <1>1
  <1>3. items[p] = IF new[p].value = user.items[p].value THEN user.items[p]
                   ELSE [value |-> new[p].value, time |-> IF new[p].needFlush THEN now ELSE new[p].time]
    BY <1>2 DEF Adapted, new
  <1>4. ASSUME new[p].value # user.items[p].value
        PROVE  /\ items[p].value = new[p].value
               /\ items[p].time = IF new[p].needFlush THEN now ELSE new[p].time
    BY <1>3, <1>4
  <1>5. /\ TypeOK /\ Versions /\ Held /\ Matched
        /\ user.flush \in Nat /\ now \in Nat
    BY UserMapParts DEF IndInv, Steady, TypeOK
  <1>6. DOMAIN running.items = DOMAIN user.items
    BY <1>5 DEF Matched, Installing
  <1>7. CASE new[p].value = user.items[p].value
    BY <1>3, <1>7
  <1>8. CASE new[p].value # user.items[p].value /\ new[p].needFlush
    <2>1. items[p].time = now /\ items[p].value # user.items[p].value
      BY <1>4, <1>8
    <2>2. user.flush <= now /\ running.items[p].time < now /\ running.items[p].time \in Nat
      BY <1>5, <1>6, PlainFacts DEF Versions, Held, Modifying
    <2>3. QED
      BY <1>5, <2>1, <2>2
  <1>9. CASE new[p].value # user.items[p].value /\ ~new[p].needFlush
    <2>1. new[p] = Corrected(Tmpl, ran, p)
      BY <1>1, <1>9
    <2>2. p \in DOMAIN ran /\ new[p].value = ran[p].value /\ new[p].time = ran[p].time
      BY <1>9, <2>1 DEF Corrected
    <2>3. ran[p].value = running.items[p].value /\ ran[p].time = running.items[p].time
      BY <1>5, <2>2 DEF Held, Modifying
    <2>4. QED
      BY <1>4, <1>9, <2>2, <2>3
  <1>10. QED
    BY <1>7, <1>8, <1>9

\* Its write.
LEMMA AdaptedStored ==
  ASSUME IndInv, Steady, EditsWait, pc \in Modifying, NEW copy \in Copies, Store(copy),
         UNCHANGED <<running, engine, class>>
  PROVE  /\ Matched' /\ copy.items # user.items /\ user'.rv = user.rv + 1
         /\ \A m \in late \cup {seen} : m.rv # user'.rv
  <1>1. /\ TypeOK /\ Versions /\ Matched /\ Held /\ Adapting /\ pc \notin Installing
        /\ IsUserMap(copy)
    BY DEF IndInv, Steady, Modifying, Installing, TypeOK, Copies
  <1>2. /\ copy.rv = user.rv /\ user'.items = copy.items /\ user'.rv = user.rv + 1
        /\ user'.flush = copy.flush
    BY <1>1, Stored
  <1>3. /\ copy.items # user.items /\ user'.flush = user.flush
        /\ DOMAIN user'.items = DOMAIN user.items
        /\ \A p \in DOMAIN user.items :
             \/ user'.items[p] = user.items[p]
             \/ /\ user'.items[p].value # user.items[p].value
                /\ \/ user'.items[p].time >= user.flush /\ user'.items[p].time > running.items[p].time
                   \/ /\ user'.items[p].value = running.items[p].value
                      /\ user'.items[p].time = running.items[p].time
    <2>1. copy \in late \cup (IF pc = "modifyPut" THEN {seen} ELSE {})
      BY DEF Copies, Modifying
    <2>2. QED
      BY <1>1, <1>2, <2>1 DEF Adapting
  <1>4. Regarded' = Regarded
    BY <1>3 DEF Regarded
  <1>5. ASSUME NEW p \in Regarded PROVE Follows(p)'
    <2>1. /\ p \in DOMAIN running.items /\ p \in DOMAIN user.items
          /\ running.items[p].value = RunsAs(p)
          /\ Reported(p) = RunsAs(p) /\ SetTo(p) = RunsAs(p)
          /\ running.items[p].inop \in {NoValue, RunsAs(p)}
      BY <1>1, Calm DEF Held
    <2>2. CASE user'.items[p] = user.items[p]
      <3>1. /\ Tmpl' = Tmpl /\ Imposed(p)' = Imposed(p)
            /\ RunsAs(p)' = RunsAs(p) /\ SetTo(p)' = SetTo(p) /\ Reported(p)' = Reported(p)
        BY DEF Tmpl, Imposed, RunsAs, SetTo, Reported
      <3>2. Aim(p)' = Aim(p) /\ Newer(p)' = Newer(p) /\ Since(p)' = Since(p)
        BY <1>3, <2>1, <2>2, <3>1 DEF Aim, Newer, UserNewer, Since, FlushedSince
      <3>3. InEffect(p)' = InEffect(p) /\ Follows(p)
        BY <1>1, <3>1, <3>2 DEF InEffect, Matched
      <3>4. QED
        BY <2>2, <3>1, <3>2, <3>3 DEF Follows
    <2>3. CASE user'.items[p].time >= user.flush /\ user'.items[p].time > running.items[p].time
      <3>1. user.flush \in Nat /\ user'.items[p].time \in Nat
        <4>1. copy.items[p] \in UserItem
          BY <1>1, <1>2, <1>3, <2>1 DEF IsUserMap, IsMap
        <4>2. QED
          BY <1>1, <1>2, <4>1, UserMapParts DEF UserItem, TypeOK
      <3>2. Newer(p)' /\ ~Since(p)'
        BY <1>3, <2>1, <2>3, <3>1 DEF Newer, UserNewer, Since, FlushedSince
      <3>3. QED
        BY <2>1, <3>2, FollowsUser
    <2>4. CASE /\ user'.items[p].value = running.items[p].value
               /\ user'.items[p].time = running.items[p].time
      <3>1. running.items[p].time \in Nat
        BY <1>1, <2>1, PlainFacts
      <3>2. ~Newer(p)'
        BY <2>4, <3>1 DEF Newer, UserNewer
      <3>3. QED
        BY <2>1, <2>4, <3>2, FollowsUser
    <2>5. QED
      BY <1>3, <2>1, <2>2, <2>3, <2>4
  <1>6. DOMAIN running'.items = DOMAIN user'.items
    BY <1>1, <1>3 DEF Matched
  <1>7. Matched'
    BY <1>4, <1>5, <1>6 DEF Matched
  <1>8. QED
    BY <1>1, <1>2, <1>3, <1>7, Outdated

\* ModifyClassParams.
LEMMA ModifySteps ==
  ASSUME IndInv, Steady, EditsWait,
         (pc = "modify" /\ ReadUser) \/ ModifyRead \/ ModifyGet \/ ModifyPut
  PROVE  Steady'
  <1>a. Matched /\ Covered /\ Held /\ Adapting /\ TypeOK /\ Versions /\ Merging
    BY DEF Steady, IndInv
  <1>1. ASSUME pc = "modify", ReadUser PROVE Steady'
    <2>1. pc' = "modifyRead" /\ UNCHANGED <<user, running, engine, class, now, settled, late>>
      BY <1>1 DEF ReadUser
    <2>2. Matched' /\ Covered'
      BY <1>1, <1>a, <2>1, Reading DEF Installing, Saving, Modifying
    <2>3. Held'
      BY <1>1, <1>a, <2>1 DEF Held, UpToDate, Reported, Modifying
    <2>4. Adapting'
      BY <1>1, <1>a, <2>1 DEF Adapting, Modifying
    <2>5. QED
      BY <2>1, <2>2, <2>3, <2>4 DEF Steady, Carrying
  <1>2. ASSUME ModifyRead PROVE Steady'
    <2>1. pc = "modifyRead" /\ UNCHANGED <<user, running, engine, class, now, settled, late>>
      BY <1>2 DEF ModifyRead
    <2>2. CASE pc' = "idle"
      <3>1. Replaced(class, seen.items) = {}
        BY <1>2, <2>2 DEF ModifyRead, Replaced, Tmpl
      <3>2. Stale
        <4>1. CASE seen.items = user.items
          <5>1. \A p \in DOMAIN user.items :
                  Target(class, user.items, p) = user.items[p].value
            BY <3>1, <4>1 DEF Target
          <5>2. QED
            BY <2>1, <5>1, NothingLeft DEF Modifying
        <4>2. QED
          BY <1>a, <2>1, <4>1 DEF Merging
      <3>3. Matched' /\ Covered'
        BY <1>a, <2>1, <2>2, <3>2, Reading DEF Installing, Saving, Stale
      <3>4. QED
        BY <2>2, <3>3 DEF Steady, Carrying, Held, Adapting, Modifying
    <2>3. CASE pc' = "modifyGet" /\ ran' = running.items
      <3>1. Matched' /\ Covered'
        BY <1>a, <2>1, <2>3, Reading DEF Installing, Saving, Modifying
      <3>2. Held'
        BY <1>a, <2>1, <2>3 DEF Held, UpToDate, Reported, Modifying
      <3>3. Adapting'
        BY <1>a, <2>1, <2>3 DEF Adapting, Modifying
      <3>4. QED
        BY <2>3, <3>1, <3>2, <3>3 DEF Steady, Carrying
    <2>4. QED
      BY <1>2, <2>2, <2>3 DEF ModifyRead
  <1>3. ASSUME ModifyGet PROVE Steady'
    <2> DEFINE items == Adapted(EffectiveUser.params, user.items)
    <2>1. /\ pc = "modifyGet" /\ UNCHANGED <<user, running, engine, class, now, settled, late>>
          /\ \/ items = user.items /\ pc' = "idle"
             \/ items # user.items /\ pc' = "modifyPut" /\ seen' = [user EXCEPT !.items = items]
      BY <1>3 DEF ModifyGet
    <2>2. \/ seen.items = user.items
          \/ items = user.items /\ Stale
      BY <1>a, <2>1, AdaptedTwice DEF Merging
    <2>3. seen.items = user.items => Adapts(class, items, user.items)
      BY AdaptedAsAsked
    <2> HIDE DEF items
    <2>4. CASE items = user.items /\ pc' = "idle"
      <3>1. Stale
        <4>1. CASE seen.items = user.items
          <5>1. \A p \in DOMAIN user.items :
                  Target(class, user.items, p) = user.items[p].value
            BY <2>3, <2>4, <4>1 DEF Adapts
          <5>2. QED
            BY <2>1, <5>1, NothingLeft DEF Modifying
        <4>2. QED
          BY <2>2, <4>1
      <3>2. Matched' /\ Covered'
        BY <1>a, <2>1, <2>4, <3>1, Reading DEF Installing, Saving, Stale
      <3>3. QED
        BY <2>4, <3>2 DEF Steady, Carrying, Held, Adapting, Modifying
    <2>5. CASE items # user.items /\ pc' = "modifyPut" /\ seen' = [user EXCEPT !.items = items]
      <3>1. Matched' /\ Covered'
        BY <1>a, <2>1, <2>5, Reading DEF Installing, Saving, Modifying
      <3>2. Held'
        BY <1>a, <2>1, <2>5 DEF Held, UpToDate, Reported, Modifying
      <3>3. seen'.items = items /\ seen'.flush = user.flush
        <4>1. user = [there |-> user.there, rv |-> user.rv, items |-> user.items,
                      flush |-> user.flush]
          BY <1>a, UserMapParts DEF TypeOK
        <4>2. QED
          BY <2>5, <4>1
      <3>4. seen.items = user.items
        BY <2>2, <2>5
      <3>5. DOMAIN items = DOMAIN user.items
        BY <2>3, <3>4 DEF Adapts
      <3>6. \A p \in DOMAIN user.items :
           \/ items[p] = user.items[p]
           \/ /\ items[p].value # user.items[p].value
              /\ \/ items[p].time >= user.flush /\ items[p].time > running.items[p].time
                 \/ /\ items[p].value = running.items[p].value
                    /\ items[p].time = running.items[p].time
        BY <2>1, <3>4, AdaptingNew DEF items
      <3>7. Adapting'
        <4>1. ASSUME NEW copy \in late' \cup {seen'}, copy.rv = user'.rv
              PROVE  /\ copy.items # user'.items /\ copy.flush = user'.flush
                     /\ DOMAIN copy.items = DOMAIN user'.items
                     /\ \A p \in DOMAIN user'.items :
                          \/ copy.items[p] = user'.items[p]
                          \/ /\ copy.items[p].value # user'.items[p].value
                             /\ \/ copy.items[p].time >= user'.flush /\ copy.items[p].time > running'.items[p].time
                                \/ /\ copy.items[p].value = running'.items[p].value
                                   /\ copy.items[p].time = running'.items[p].time
          <5>1. CASE copy \in late
            BY <1>a, <2>1, <4>1, <5>1 DEF Adapting, Modifying
          <5>2. CASE copy = seen'
            BY <2>1, <2>5, <3>3, <3>5, <3>6, <5>2
          <5>3. QED
            BY <2>1, <4>1, <5>1, <5>2
        <4>2. QED
          BY <2>5, <4>1 DEF Adapting
      <3>8. QED
        BY <2>5, <3>1, <3>2, <3>7 DEF Steady, Carrying
    <2>6. QED
      BY <2>1, <2>4, <2>5
  <1>4. ASSUME ModifyPut PROVE Steady'
    <2>1. /\ pc = "modifyPut" /\ pc' = "idle" /\ ~settled'
          /\ UNCHANGED <<running, engine, class, late>> /\ Store(seen)
      BY <1>4 DEF ModifyPut, Forget
    <2>2. Matched' /\ \A m \in late : m.rv # user'.rv
      BY <2>1, AdaptedStored DEF Copies, Modifying
    <2>3. Covered'
      BY <2>1, <2>2 DEF Covered, Saving
    <2>4. QED
      BY <2>1, <2>2, <2>3 DEF Steady, Carrying, Held, Adapting, Modifying
  <1>5. QED
    BY <1>1, <1>2, <1>3, <1>4

\* A step that fails or is refused.
LEMMA GivenUp ==
  ASSUME IndInv, Steady, Conflict \/ Fail
  PROVE  Steady'
  <1>1. /\ Matched /\ Covered /\ Held /\ Adapting /\ TypeOK /\ Installed
        /\ UNCHANGED <<user, running, engine, class, now, settled>>
        /\ late' \subseteq Copies /\ Abandon /\ pc # "idle"
    BY DEF Conflict, Fail, Abandon, Steady, IndInv, Copies
  <1>2. /\ pc' \in {"none", "saveGet", "flush", "modify"}
        /\ pc \in Installing <=> pc' = "none"
        /\ pc \in Modifying <=> pc' = "modify"
        /\ pc' = "saveGet" => pc \in Saving
    <2>1. pc' = "saveGet" => pc \in Saving
      <3>1. pc \in Installing \cup Flushing \cup Saving \cup Modifying
        BY <1>1 DEF TypeOK
      <3>2. QED
        BY <1>1, <3>1 DEF Abandon, Installing, Flushing, Saving, Modifying
    <2>2. QED
      BY <1>1, <2>1, Abandoned
  <1>3. CASE pc' = "none"
    <2>1. late = {} /\ ~settled /\ Copies = late
      BY <1>1, <1>2, <1>3 DEF Installed, Covered, Copies, Installing
    <2>2. QED
      BY <1>1, <1>3, <2>1, WhileInstalling DEF Installing
  <1>4. CASE pc' \in {"saveGet", "flush"}
    <2>1. pc \notin Installing /\ pc \notin Modifying
      BY <1>2, <1>4
    <2>2. \A copy \in late' : (copy.rv = user.rv) => copy.items = user.items /\ Done
      BY <1>1, <2>1 DEF Covered, Copies, Saving, Modifying
    <2>3. pc' = "saveGet" => Done
      BY <1>1, <1>2 DEF Covered
    <2>4. Matched' /\ Covered'
      BY <1>1, <1>4, <2>1, <2>2, <2>3, Reading DEF Installing, Saving
    <2>5. QED
      BY <1>4, <2>4 DEF Steady, Carrying, Held, Adapting, Modifying
  <1>5. CASE pc' = "modify"
    <2>1. pc \in Modifying /\ pc \notin Installing
      BY <1>2, <1>5
    <2>2. Matched' /\ Covered'
      BY <1>1, <1>5, <2>1, Reading DEF Installing, Saving, Modifying
    <2>3. Held'
      BY <1>1, <1>5, <2>1 DEF Held, UpToDate, Reported
    <2>4. late' \subseteq late \cup (IF pc = "modifyPut" THEN {seen} ELSE {})
      BY <1>1, <2>1 DEF Copies, Modifying
    <2>5. Adapting'
      <3>1. ASSUME NEW copy \in late', copy.rv = user.rv
            PROVE  copy \in late \cup (IF pc = "modifyPut" THEN {seen} ELSE {})
        BY <2>4, <3>1
      <3>2. QED
        BY <1>1, <1>5, <2>1, <3>1 DEF Adapting
    <2>6. QED
      BY <1>5, <2>2, <2>3, <2>5 DEF Steady, Carrying
  <1>6. QED
    BY <1>2, <1>3, <1>4, <1>5

\* A write of a process that is gone.
LEMMA LateSteps ==
  ASSUME IndInv, Steady, EditsWait, NEW copy \in late, ApplyLate(copy)
  PROVE  Steady'
  <1>1. /\ Matched /\ Covered /\ Carrying /\ Held /\ Adapting /\ TypeOK /\ Versions
        /\ pc \notin Installing /\ copy \in Copies /\ Store(copy)
        /\ UNCHANGED <<running, engine, class, now, pc, inop, seen, ran>>
        /\ late' \subseteq late /\ settled' = (settled /\ copy.items = user.items)
    BY DEF ApplyLate, Steady, IndInv, Installed, Copies, flowVars
  <1>2. CASE pc \notin Modifying
    <2>1. copy.items = user.items /\ Done
      BY <1>1, <1>2 DEF Covered, Store
    <2>2. /\ Regarded' = Regarded /\ Given' = Given /\ Done'
          /\ user'.items = user.items /\ user'.rv = user.rv + 1 /\ user'.flush >= user.flush
          /\ user.flush \in Nat /\ user'.flush \in Nat
          /\ \A p \in Regarded : Follows(p)'
          /\ \A p : InEffect(p)' = InEffect(p) /\ Aim(p)' = Aim(p)
      BY <1>1, <2>1, FlushStored
    <2>3. \A m \in late \cup {seen} : m.rv # user'.rv
      BY <1>1, <2>2, Outdated
    <2>4. Matched'
      BY <1>1, <2>2 DEF Matched
    <2>5. Covered'
      BY <1>1, <1>2, <2>2, <2>3 DEF Covered
    <2>6. Carrying'
      <3>1. seen.flush \in Nat
        BY <1>1, UserMapParts DEF TypeOK
      <3>2. Tmpl' = Tmpl
        BY <1>1 DEF Tmpl
      <3>3. Effective' = Effective
        BY <1>1, <3>2 DEF Effective
      <3>4. \A p : Brings(p)' <=> Brings(p)
        BY <1>1, <2>2, <3>2, <3>3 DEF Brings
      <3>5. QED
        BY <1>1, <2>2, <3>1, <3>4 DEF Carrying
    <2>7. QED
      BY <1>1, <1>2, <2>4, <2>5, <2>6 DEF Steady, Held, Adapting
  <1>3. CASE pc \in Modifying
    <2>1. /\ Matched' /\ copy.items # user.items
          /\ \A m \in late \cup {seen} : m.rv # user'.rv
      BY <1>1, <1>3, AdaptedStored
    <2>2. /\ pc' \in Modifying /\ pc' \notin Saving
          /\ pc' \notin {"stop", "restart", "savePut", "readRunning", "start", "apply"}
      BY <1>1, <1>3 DEF Modifying, Saving
    <2>3. Covered' /\ Carrying'
      BY <1>1, <2>1, <2>2 DEF Covered, Carrying
    <2>4. Held'
      BY <1>1, <1>3 DEF Held, UpToDate, Reported
    <2>5. Adapting'
      <3>1. \A m \in late' \cup (IF pc' = "modifyPut" THEN {seen'} ELSE {}) : m.rv # user'.rv
        BY <1>1, <2>1
      <3>2. QED
        BY <3>1 DEF Adapting
    <2>6. QED
      BY <2>1, <2>3, <2>4, <2>5 DEF Steady
  <1>4. QED
    BY <1>2, <1>3

\* The console.
LEMMA EditSteps ==
  ASSUME IndInv, Steady, EditsWait, NEW q \in Changeable, NEW v \in Choices, Edit(q, v)
  PROVE  Steady'
  <1>1. /\ Matched /\ TypeOK /\ Versions /\ Quiet
        /\ pc = "idle" /\ pc' = "idle" /\ ~settled' /\ UNCHANGED <<running, engine, class, late>>
        /\ user' = [user EXCEPT !.rv = @ + 1, !.items[q] = [value |-> v, time |-> now]]
    BY DEF Edit, MayChange, Quiet, Steady, IndInv, flowVars
  <1>2. /\ user = [there |-> user.there, rv |-> user.rv, items |-> user.items, flush |-> user.flush]
        /\ user.flush \in Nat /\ now \in Nat /\ user.flush <= now
    BY <1>1, UserMapParts DEF TypeOK, Versions
  <1>3. /\ user'.rv = user.rv + 1 /\ user'.flush = user.flush
        /\ user'.items = [user.items EXCEPT ![q] = [value |-> v, time |-> now]]
    BY <1>1, <1>2
  <1>4. q \in DOMAIN user.items
    BY DEF Changeable
  <1>5. /\ DOMAIN user'.items = DOMAIN user.items
        /\ user'.items[q].time = now
        /\ \A p \in DOMAIN user.items : p # q => user'.items[p] = user.items[p]
    BY <1>3, <1>4
  <1>6. Regarded' = Regarded
    BY <1>5 DEF Regarded
  <1>7. ASSUME NEW p \in Regarded PROVE Follows(p)'
    <2>1. /\ p \in DOMAIN running.items /\ p \in DOMAIN user.items
          /\ running.items[p].value = RunsAs(p)
          /\ Reported(p) = RunsAs(p) /\ SetTo(p) = RunsAs(p)
          /\ running.items[p].inop \in {NoValue, RunsAs(p)}
      BY <1>1, Calm DEF Quiet, Installing
    <2>2. CASE p # q
      <3>1. /\ Tmpl' = Tmpl /\ Imposed(p)' = Imposed(p)
            /\ RunsAs(p)' = RunsAs(p) /\ SetTo(p)' = SetTo(p) /\ Reported(p)' = Reported(p)
        BY <1>1 DEF Tmpl, Imposed, RunsAs, SetTo, Reported
      <3>2. Aim(p)' = Aim(p) /\ Newer(p)' = Newer(p) /\ Since(p)' = Since(p)
        BY <1>1, <1>3, <1>5, <2>1, <2>2, <3>1 DEF Aim, Newer, UserNewer, Since, FlushedSince
      <3>3. InEffect(p)' = InEffect(p) /\ Follows(p)
        BY <1>1, <3>1, <3>2 DEF InEffect, Matched, Installing
      <3>4. QED
        BY <1>1, <1>5, <2>1, <2>2, <3>1, <3>2, <3>3 DEF Follows
    <2>3. CASE p = q
      <3>1. running.items[p].time < now /\ running.items[p].time \in Nat
        BY <1>1, <2>1, PlainFacts DEF Quiet
      <3>2. user'.items[p].time = now /\ p \in DOMAIN user'.items
        BY <1>5, <2>1, <2>3
      <3>3. Newer(p)' /\ ~Since(p)'
        BY <1>1, <1>2, <1>3, <3>1, <3>2 DEF Newer, UserNewer, Since, FlushedSince
      <3>4. QED
        BY <1>1, <2>1, <3>3, FollowsUser
    <2>4. QED
      BY <2>2, <2>3
  <1>8. Matched'
    <2>1. DOMAIN running'.items = DOMAIN user'.items
      BY <1>1, <1>5 DEF Matched, Installing
    <2>2. QED
      BY <1>6, <1>7, <2>1 DEF Matched
  <1>9. \A m \in late' : m.rv # user'.rv
    BY <1>1, <1>3, Outdated
  <1>10. Covered'
    BY <1>1, <1>9 DEF Covered, Saving
  <1>11. QED
    BY <1>1, <1>8, <1>10 DEF Steady, Carrying, Held, Adapting, Modifying

\* Another class: the running parameters agree with the user parameters, so
\* nothing is to be done for what the new class imposes in the same way.
LEMMA ClassSteps ==
  ASSUME IndInv, Steady, EditsWait, NEW c \in Classes, ChangeClass(c)
  PROVE  Steady'
  <1>1. /\ Matched /\ TypeOK /\ Installed
        /\ pc' = pc /\ ~settled' /\ UNCHANGED <<user, running, engine, late>>
    BY DEF ChangeClass, Steady, IndInv, flowVars
  <1>2. CASE pc = "none"
    <2>1. late' = {}
      BY <1>1, <1>2 DEF Installed, Installing
    <2>2. QED
      BY <1>1, <1>2, <2>1, WhileInstalling DEF Installing
  <1>3. CASE pc = "idle" /\ Quiet /\ Agreed
    <2>1. ASSUME NEW p \in Regarded PROVE Follows(p)'
      <3>1. /\ p \in DOMAIN running.items /\ p \in DOMAIN user.items
            /\ running.items[p].value = RunsAs(p)
            /\ Reported(p) = RunsAs(p) /\ SetTo(p) = RunsAs(p)
            /\ running.items[p].inop \in {NoValue, RunsAs(p)}
        BY <1>1, <1>3, Calm DEF Quiet, Installing
      <3>2. Plain[user.items[p].value] = RunsAs(p)
        BY <1>3, <3>1 DEF Agreed, Regarded
      <3>3. /\ RunsAs(p)' = RunsAs(p) /\ Reported(p)' = Reported(p) /\ SetTo(p)' = SetTo(p)
        BY <1>1 DEF RunsAs, Reported, SetTo
      <3>4. (Imposed(p)' => user.items[p].value = (Tmpl[p].default)') => Aim(p)' = RunsAs(p)
        BY <1>1, <3>2 DEF Aim
      <3>5. QED
        BY <1>1, <3>1, <3>3, <3>4 DEF Follows, InEffect
    <2>2. Matched'
      <3>1. Regarded' = Regarded
        BY <1>1 DEF Regarded
      <3>2. QED
        BY <1>1, <1>3, <2>1, <3>1 DEF Matched, Installing
    <2>3. Covered'
      BY <1>1, <1>3 DEF Covered, Quiet, Saving
    <2>4. QED
      BY <1>1, <1>3, <2>2, <2>3 DEF Steady, Carrying, Held, Adapting, Modifying
  <1>4. QED
    BY <1>2, <1>3 DEF ChangeClass, MayChange

\* ClusterManager.
LEMMA RefreshStep ==
  ASSUME IndInv, Steady, Refresh
  PROVE  Steady'
  <1>1. /\ Matched /\ Covered /\ Carrying /\ Held /\ Adapting /\ TypeOK /\ Versions
        /\ pc \notin Installing
        /\ UNCHANGED <<user, engine, class, now, pc, inop, seen, ran, late, settled>>
    BY DEF Refresh, Steady, IndInv, flowVars
  <1>2. running = [there |-> running.there, items |-> running.items]
    BY <1>1 DEF TypeOK
  <1>3. DOMAIN running'.items = DOMAIN running.items
    BY <1>2 DEF Refresh
  <1>4. Matched'
    <2>1. DOMAIN running.items = DOMAIN user.items /\ Regarded' = Regarded
      BY <1>1 DEF Matched, Regarded
    <2>2. \A p \in Regarded : Follows(p)'
      BY <1>1, FollowsRefresh
    <2>3. QED
      BY <1>1, <1>3, <2>1, <2>2 DEF Matched
  <1>5. /\ Regarded' = Regarded
        /\ \A p : /\ Aim(p)' = Aim(p) /\ SetTo(p)' = SetTo(p) /\ Reported(p)' = Reported(p)
                  /\ InEffect(p)' = InEffect(p)
    <2>1. \A p : Aim(p)' = Aim(p) /\ Regarded' = Regarded
      BY <1>1, SameAim DEF Regarded
    <2>2. QED
      BY <1>1, <2>1 DEF SetTo, Reported, InEffect
  <1>6. Given' = Given /\ Done' = Done
    BY <1>5 DEF Given, Done
  <1>7. Covered'
    BY <1>1, <1>6 DEF Covered
  <1>8. Carrying'
    <2>1. Tmpl' = Tmpl /\ Effective' = Effective
      BY <1>1 DEF Tmpl, Effective
    <2>2. \A p : Brings(p)' = Brings(p)
      BY <1>1, <1>5, <2>1 DEF Brings
    <2>3. QED
      BY <1>1, <1>5, <2>2 DEF Carrying
  <1>9. ASSUME pc \in Modifying, NEW p \in DOMAIN running.items
        PROVE  /\ running'.items[p].value = running.items[p].value
               /\ running'.items[p].time = running.items[p].time
    <2>1. running.items[p].value = Reported(p) /\ running.items[p] \in RunningItem
      BY <1>1, <1>9 DEF Held, UpToDate, TypeOK, IsMap
    <2> DEFINE wait == IF engine.config[p] = engine.live[p] THEN NoValue
                       ELSE Plain[engine.config[p]]
    <2>2. running'.items[p] = [running.items[p] EXCEPT !.inop = wait]
      BY <1>2, <1>9, <2>1 DEF Refresh
    <2> HIDE DEF wait
    <2>3. QED
      BY <2>1, <2>2 DEF RunningItem
  <1>10. Held'
    <2>1. \A p : Reported(p)' = Reported(p)
      BY <1>5
    <2>2. QED
      BY <1>1, <1>3, <1>9, <2>1 DEF Held, UpToDate
  <1>11. Adapting'
    <2>1. pc \in Modifying => DOMAIN running.items = DOMAIN user.items
      BY <1>1 DEF Matched
    <2>2. QED
      BY <1>1, <1>9, <2>1 DEF Adapting
  <1>12. QED
    BY <1>4, <1>7, <1>8, <1>10, <1>11 DEF Steady

\* What an installation starts with are the defaults of the class.
LEMMA FreshDefault ==
  ASSUME class.new \in Classes, NEW p \in DOMAIN Fresh
  PROVE  Tmpl[p].default = Fresh[p]
  <1> DEFINE cp == ClassParams[class.new]
  <1>1. Tmpl = ClassTemplate(Template, cp) /\ Fresh = InitParams(Template, cp)
    BY DEF Tmpl, Templates, Fresh
  <1>2. /\ Template \in [DOMAIN Template -> TemplateItems(Values)]
        /\ cp \in [DOMAIN cp -> Values]
    BY ConstantsAssumption DEF ConstantsAssumption, TemplateItems
  <1> HIDE DEF cp
  <1>3. p \in DOMAIN Template \cup DOMAIN cp
    BY <1>1 DEF InitParams
  <1>4. CASE p \in DOMAIN cp \cap DOMAIN Template
    <2>1. Template[p] \in TemplateItems(Values)
      BY <1>2, <1>4
    <2>2. [Template[p] EXCEPT !.default = cp[p]].default = cp[p]
      BY <2>1 DEF TemplateItems
    <2>3. QED
      BY <1>1, <1>3, <1>4, <2>2 DEF ClassTemplate, InitParams
  <1>5. CASE p \notin DOMAIN cp \cap DOMAIN Template
    BY <1>1, <1>3, <1>5 DEF ClassTemplate, InitParams
  <1>6. QED
    BY <1>4, <1>5

\* An installation that has succeeded.
LEMMA InstalledSteady ==
  ASSUME IndInv, Steady, CreateRunning
  PROVE  Steady'
  <1>a. /\ TypeOK /\ pc = "createRunning" /\ late = {}
        /\ DOMAIN user.items = DOMAIN Fresh
        /\ \A p \in DOMAIN Fresh : user.items[p].value = Fresh[p]
        /\ ~settled /\ UNCHANGED <<user, class, late>>
    BY DEF CreateRunning, Steady, IndInv, Installed, Covered, Installing
  <1>1. CASE pc' = "none" /\ settled' = settled
    BY <1>a, <1>1, WhileInstalling DEF Installing
  <1>2. CASE pc' = "idle" /\ settled'
             /\ \E set \in {[p \in Params |-> IF p \in DOMAIN Fresh THEN Fresh[p] ELSE NoValue]} :
                  engine' = [config |-> set, live |-> set, up |-> TRUE]
    <2>1. /\ DOMAIN running'.items = DOMAIN Fresh
          /\ \A p \in DOMAIN Fresh : /\ running'.items[p].value = Fresh[p]
                                     /\ running'.items[p].inop = NoValue
      BY DEF CreateRunning
    <2>2. DOMAIN Fresh \subseteq Params
      BY <1>a, TemplateType DEF TypeOK
    <2>3. Regarded' = Regarded
      BY <1>a DEF Regarded
    <2>4. ASSUME NEW p \in Regarded PROVE Follows(p)' /\ InEffect(p)'
      <3>1. p \in DOMAIN Fresh /\ p \in Params /\ p \in DOMAIN user.items
        BY <1>a, <2>2 DEF Regarded
      <3>2. /\ RunsAs(p)' = Plain[Fresh[p]] /\ Reported(p)' = Plain[Fresh[p]]
            /\ SetTo(p)' = Plain[Fresh[p]]
        BY <1>2, <2>1, <3>1 DEF RunsAs, Reported, SetTo
      <3>3. Aim(p)' = Plain[Fresh[p]]
        <4>1. Imposed(p) => Tmpl[p].default = Fresh[p]
          <5>1. class.new \in Classes
            BY <1>a DEF TypeOK
          <5>2. QED
            BY <3>1, <5>1, FreshDefault
        <4>2. Aim(p)' = Aim(p)
          BY <1>a, SameAim
        <4>3. user.items[p].value = Fresh[p]
          BY <1>a, <3>1
        <4>4. QED
          BY <4>1, <4>2, <4>3 DEF Aim
      <3>4. running'.items[p].inop = NoValue
        BY <2>1, <3>1
      <3>5. QED
        BY <3>2, <3>3, <3>4 DEF Follows, InEffect
    <2>5. Matched'
      BY <1>a, <2>1, <2>3, <2>4 DEF Matched
    <2>6. Covered'
      BY <1>a, <1>2, <2>3, <2>4 DEF Covered, Done, Installing
    <2>7. QED
      BY <1>2, <2>5, <2>6 DEF Steady, Carrying, Held, Adapting, Modifying
  <1>3. QED
    BY <1>1, <1>2 DEF CreateRunning

\* The operator begins a workflow, and time passes.
LEMMA OtherSteps ==
  ASSUME IndInv, Steady, EditsWait,
         \/ \E l \in {"flush", "modify"}, new \in BOOLEAN : Begin(l, new)
         \/ Tick
         \/ UNCHANGED vars
  PROVE  Steady'
  <1>a. Matched /\ Covered /\ Carrying /\ Held /\ Adapting /\ TypeOK /\ Installed
    BY DEF Steady, IndInv
  <1>1. ASSUME NEW l \in {"flush", "modify"}, NEW new \in BOOLEAN, Begin(l, new) PROVE Steady'
    <2>1. /\ pc = "idle" /\ pc' = l
          /\ UNCHANGED <<user, running, engine, class, now, settled, late>>
          /\ l = "modify" => Quiet
      BY <1>1 DEF Begin
    <2>2. \A copy \in late : (copy.rv = user.rv) => copy.items = user.items /\ Done
      BY <1>a, <2>1 DEF Covered, Modifying
    <2>3. Matched' /\ Covered'
      BY <1>a, <2>1, <2>2, Reading DEF Installing, Saving
    <2>4. Held' /\ Adapting'
      BY <2>1 DEF Held, Adapting, Quiet, UpToDate, Reported, Modifying
    <2>5. QED
      BY <2>1, <2>3, <2>4 DEF Steady, Carrying
  <1>2. ASSUME UNCHANGED <<user, running, engine, class, flowVars, late, settled>>,
               now' \in {now, now + 1}
        PROVE  Steady'
    <2>1. UNCHANGED <<pc, inop, seen, ran>>
      BY <1>2 DEF flowVars
    <2>2. /\ Regarded' = Regarded /\ Given' = Given /\ Done' = Done
          /\ \A p : Follows(p)' = Follows(p) /\ InEffect(p)' = InEffect(p) /\ Aim(p)' = Aim(p)
      BY <1>2, Unmoved
    <2>3. Matched' /\ Covered'
      BY <1>a, <1>2, <2>1, <2>2 DEF Matched, Covered
    <2>4. Carrying'
      <3>1. Tmpl' = Tmpl
        BY <1>2 DEF Tmpl
      <3>2. Effective' = Effective
        BY <2>1, <3>1 DEF Effective
      <3>3. \A p : Brings(p)' = Brings(p)
        BY <2>1, <2>2, <3>1, <3>2 DEF Brings
      <3>4. QED
        BY <1>a, <1>2, <2>1, <2>2, <3>3 DEF Carrying
    <2>5. Held'
      <3>1. pc \in Modifying => \A p \in DOMAIN running.items : running.items[p].time < now'
        <4>1. now \in Nat /\ \A p \in DOMAIN running.items : running.items[p].time \in Nat
          BY <1>a DEF TypeOK, IsMap, RunningItem
        <4>2. QED
          BY <1>a, <1>2, <4>1 DEF Held
      <3>2. QED
        BY <1>a, <1>2, <2>1, <3>1 DEF Held, UpToDate, Reported
    <2>6. Adapting'
      BY <1>a, <1>2, <2>1 DEF Adapting
    <2>7. QED
      BY <2>3, <2>4, <2>5, <2>6 DEF Steady
  <1>3. ASSUME Tick \/ UNCHANGED vars PROVE Steady'
    BY <1>2, <1>3 DEF Tick, vars
  <1>4. QED
    BY <1>1, <1>3

\* Steady is inductive, together with IndInv.
LEMMA SteadyStep ==
  ASSUME IndInv, Steady, EditsWait, [Next]_vars
  PROVE  Steady'
  <1>1. ASSUME DropUser \/ CreateUser \/ DropRunning PROVE Steady'
    <2>1. pc \in Installing /\ pc' \in Installing /\ settled' = settled /\ late' = late
      BY <1>1 DEF DropUser, CreateUser, DropRunning, Installing
    <2>2. ~settled /\ late = {}
      BY <2>1 DEF Steady, Covered, IndInv, Installed
    <2>3. QED
      BY <2>1, <2>2, WhileInstalling
  <1>2. ASSUME ReadUser PROVE Steady'
    <2>1. pc \in {"flush", "modify"} /\ pc \notin {"none"}
      BY <1>2 DEF ReadUser
    <2>2. QED
      BY <1>2, <2>1, FlushSteps, ModifySteps DEF Installing
  <1>3. ASSUME ReadRunning \/ StartFirst \/ Apply \/ Build \/ Stop \/ Restart PROVE Steady'
    <2>1. pc \notin Installing
      BY <1>3 DEF ReadRunning, StartFirst, Apply, Build, Stop, Restart, Installing
    <2>2. QED
      BY <1>3, <2>1, FlushSteps
  <1>4. ASSUME ModifyRead \/ ModifyGet \/ ModifyPut PROVE Steady'
    BY <1>4, ModifySteps
  <1>5. QED
    BY <1>1, <1>2, <1>3, <1>4, InstalledSteady, SaveSteps, GivenUp, LateSteps, EditSteps,
       ClassSteps, RefreshStep, OtherSteps DEF Next, Work

\* When users and class changes wait until nothing is in progress, what is to
\* be flushed follows from values and times in every reachable state.
THEOREM SteadyInvariance == EditsWait => (Spec => [](IndInv /\ Steady))
  <1> SUFFICES ASSUME EditsWait PROVE Spec => [](IndInv /\ Steady)
    OBVIOUS
  <1>1. Init => IndInv /\ Steady
    <2> SUFFICES ASSUME Init PROVE IndInv /\ Steady
      OBVIOUS
    <2>1. pc = "none" /\ ~settled /\ late = {}
      BY DEF Init
    <2>2. Steady
      BY <2>1 DEF Steady, Matched, Covered, Carrying, Held, Adapting, Installing, Modifying, Saving
    <2>3. QED
      BY <2>2, InitIndInv
  <1>2. IndInv /\ Steady /\ [Next]_vars => (IndInv /\ Steady)'
    BY IndInvStep, SteadyStep
  <1>3. QED
    BY <1>1, <1>2, PTL DEF Spec

\* FlushParams and SaveLatestFlushTime, GetEffectiveParams: no change is taken
\* for flushed because of the times, and none goes without the restart it needs.
THEOREM AppliedIfSettled == EditsWait => (Spec => []AppliedWhenSettled)
  <1>1. ASSUME TypeOK, Steady PROVE AppliedWhenSettled
    <2> SUFFICES ASSUME settled, NEW p \in DOMAIN user.items \ IgnoreParams
                 PROVE  Reported(p) = Plain[Wanted(p)]
      BY DEF AppliedWhenSettled
    <2>1. InEffect(p)
      BY <1>1 DEF Steady, Covered, Done, Regarded
    <2>2. Plain[Wanted(p)] = Aim(p)
      BY DEF Wanted, Aim, Imposed, Insists, Fixed
    <2>3. QED
      BY <2>1, <2>2 DEF InEffect
  <1>2. IndInv /\ Steady => AppliedWhenSettled
    BY <1>1 DEF IndInv
  <1>3. QED
    BY <1>2, SteadyInvariance, PTL

\* A parameter that may be changed is not the template's to decide.
LEMMA FollowsChangeable ==
  ASSUME TypeOK, Steady, pc \notin Installing,
         NEW p \in (Changeable \cap DOMAIN running.items) \ IgnoreParams
  PROVE  Follows(p) /\ Aim(p) = Plain[user.items[p].value] /\ ~Imposed(p)
  <1>1. ~Imposed(p) /\ p \in Regarded
    BY DEF Changeable, Imposed, Fixed, Regarded
  <1>2. QED
    BY <1>1 DEF Steady, Matched, Aim

\* GetEffectiveParams passes over a parameter with an older change only when
\* the engine has been given its value (db_cluster_base.go:358).
THEOREM PassedOverIsFlushed == EditsWait => (Spec => []PassedOverMeansFlushed)
  <1>1. ASSUME TypeOK, Steady PROVE PassedOverMeansFlushed
    <2> SUFFICES ASSUME pc \notin Installing,
                        NEW p \in (Changeable \cap DOMAIN running.items) \ IgnoreParams,
                        UserNewer(user.items, running.items, p),
                        FlushedSince(user.items, user.flush, p)
                 PROVE  Plain[engine.config[p]] = Plain[user.items[p].value]
      BY DEF PassedOverMeansFlushed
    <2>1. Follows(p) /\ Aim(p) = Plain[user.items[p].value] /\ ~Imposed(p)
      BY <1>1, FollowsChangeable
    <2>2. SetTo(p) = Aim(p)
      BY <2>1 DEF Follows, InEffect, Newer, Since
    <2>3. QED
      BY <2>1, <2>2 DEF SetTo
  <1>2. IndInv /\ Steady => PassedOverMeansFlushed
    BY <1>1 DEF IndInv
  <1>3. QED
    BY <1>2, SteadyInvariance, PTL

\* GetEffectiveParams takes a value that is not newer than the running one for
\* unchanged (db_cluster_base.go:375), and it is.
THEOREM NotNewerIsUnchanged == EditsWait => (Spec => []NotNewerMeansUnchanged)
  <1>1. ASSUME TypeOK, Steady PROVE NotNewerMeansUnchanged
    <2> SUFFICES ASSUME pc \notin Installing,
                        NEW p \in (Changeable \cap DOMAIN running.items) \ IgnoreParams,
                        ~UserNewer(user.items, running.items, p)
                 PROVE  Plain[user.items[p].value] = Plain[running.items[p].value]
      BY DEF NotNewerMeansUnchanged
    <2>1. Follows(p) /\ Aim(p) = Plain[user.items[p].value] /\ ~Imposed(p)
      BY <1>1, FollowsChangeable
    <2>2. RunsAs(p) = Aim(p)
      BY <2>1 DEF Follows, Newer
    <2>3. QED
      BY <2>1, <2>2 DEF RunsAs
  <1>2. IndInv /\ Steady => NotNewerMeansUnchanged
    BY <1>1 DEF IndInv
  <1>3. QED
    BY <1>2, SteadyInvariance, PTL

=============================================================================
