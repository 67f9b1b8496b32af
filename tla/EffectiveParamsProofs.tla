----------------------- MODULE EffectiveParamsProofs -----------------------
(***************************************************************************)
(* What GetEffectiveParams and GetEffectiveUserParams return, for any      *)
(* template, classes, user and running parameters and any time stamps.     *)
(***************************************************************************)
EXTENDS EffectiveParams, TLAPS

TemplateItems(V) == [default : V, dynamic : BOOLEAN, changeable : BOOLEAN, deleted : BOOLEAN,
                     quoted : BOOLEAN]
UserItems(V) == [value : V, time : Nat]
RunningItems(V) == [value : V, time : Nat, inop : V]

\* A parameter the template insists on.
Fixed(tmpl, canUpdate, p) ==
  /\ ~canUpdate /\ p \in DOMAIN tmpl
  /\ ~tmpl[p].changeable /\ ~tmpl[p].deleted /\ p \notin IgnoreTemplateParams

-----------------------------------------------------------------------------
(***************************************************************************)
(* Types                                                                   *)
(***************************************************************************)
\* getClassParamsTemplate and GetClassInitParams know the same parameters and
\* give them the same values.
THEOREM TemplateAndClassAgree ==
  ASSUME NEW V, NEW template, template \in [DOMAIN template -> TemplateItems(V)],
         NEW class, class \in [DOMAIN class -> V]
  PROVE  /\ DOMAIN ClassTemplate(template, class) = DOMAIN InitParams(template, class)
         /\ ClassTemplate(template, class)
              \in [DOMAIN template \cup DOMAIN class -> TemplateItems(V)]
         /\ InitParams(template, class) \in [DOMAIN template \cup DOMAIN class -> V]
         /\ \A p \in DOMAIN template \cup DOMAIN class :
              ClassTemplate(template, class)[p].default = InitParams(template, class)[p]
  <1> DEFINE D == DOMAIN template \cup DOMAIN class
             T == ClassTemplate(template, class)
             I == InitParams(template, class)
  <1>1. /\ T = [p \in D |-> T[p]] /\ DOMAIN T = D
        /\ I = [p \in D |-> I[p]] /\ DOMAIN I = D
    BY DEF ClassTemplate, InitParams
  <1>2. ASSUME NEW p \in D
        PROVE  /\ T[p] \in TemplateItems(V) /\ I[p] \in V
               /\ T[p].default = I[p]
    <2>1. CASE p \notin DOMAIN class
      <3>1. T[p] = template[p] /\ I[p] = template[p].default
        BY <1>2, <2>1 DEF ClassTemplate, InitParams
      <3>2. template[p] \in TemplateItems(V)
        BY <1>2, <2>1
      <3>3. QED
        BY <3>1, <3>2 DEF TemplateItems
    <2>2. CASE p \in DOMAIN class /\ p \in DOMAIN template
      <3>1. T[p] = [template[p] EXCEPT !.default = class[p]] /\ I[p] = class[p]
        BY <1>2, <2>2 DEF ClassTemplate, InitParams
      <3>2. template[p] \in TemplateItems(V) /\ class[p] \in V
        BY <2>2
      <3>3. QED
        BY <3>1, <3>2 DEF TemplateItems
    <2>3. CASE p \in DOMAIN class /\ p \notin DOMAIN template
      <3>1. /\ T[p] = [default |-> class[p], dynamic |-> TRUE, changeable |-> FALSE,
                       deleted |-> FALSE, quoted |-> FALSE]
            /\ I[p] = class[p]
        BY <1>2, <2>3 DEF ClassTemplate, InitParams
      <3>2. QED
        BY <2>3, <3>1 DEF TemplateItems
    <2>4. QED
      BY <2>1, <2>2, <2>3
  <1> HIDE DEF D, T, I
  <1>3. T \in [D -> TemplateItems(V)] /\ I \in [D -> V]
    BY <1>1, <1>2
  <1>4. QED
    BY <1>1, <1>2, <1>3 DEF D, T, I

LEMMA MergedType ==
  ASSUME NEW V, NoValue \in V, WithQuotes \in [V -> V],
         NEW tmpl,
         NEW user, user \in [DOMAIN user -> UserItems(V)],
         NEW running, running \in [DOMAIN running -> RunningItems(V)],
         NEW inop, NEW p \in FromRunning(user, running)
  PROVE  Merged(tmpl, user, running, inop, p) \in V
  <1>1. p \in DOMAIN user /\ p \in DOMAIN running
    BY DEF FromRunning
  <1>2. user[p].value \in V /\ running[p].value \in V /\ running[p].inop \in V
    BY <1>1 DEF UserItems, RunningItems
  <1>3. \A u, v \in V : QuotaValue(tmpl, u, p, v) \in V
    BY DEF QuotaValue
  <1>4. QED
    BY <1>2, <1>3 DEF Merged

LEMMA EffectiveType ==
  ASSUME NEW V, NoValue \in V, WithQuotes \in [V -> V],
         NEW tmpl, tmpl \in [DOMAIN tmpl -> TemplateItems(V)],
         NEW user, user \in [DOMAIN user -> UserItems(V)],
         NEW running, running \in [DOMAIN running -> RunningItems(V)],
         NEW flushTime, NEW inop, NEW canUpdate
  PROVE  LET e == GetEffectiveParams(tmpl, user, flushTime, running, inop, canUpdate) IN
         /\ DOMAIN e.params = DOMAIN user \ IgnoreParams
         /\ e.params \in [DOMAIN e.params -> V]
         /\ e.needRestart \in BOOLEAN /\ e.changed \in BOOLEAN
  <1> DEFINE e == GetEffectiveParams(tmpl, user, flushTime, running, inop, canUpdate)
             D == FromRunning(user, running) \cup FromUser(user, running)
  <1>1. D = DOMAIN user \ IgnoreParams
    BY DEF FromRunning, FromUser
  <1>2. DOMAIN e.params = D
    BY DEF GetEffectiveParams
  <1>3. ASSUME NEW p \in D PROVE e.params[p] \in V
    <2>1. CASE p \in FromUser(user, running)
      <3>1. e.params[p] = user[p].value
        BY <2>1 DEF GetEffectiveParams
      <3>2. QED
        BY <2>1, <3>1 DEF FromUser, UserItems
    <2>2. CASE p \notin FromUser(user, running)
      <3> DEFINE v == Merged(tmpl, user, running, inop, p)
      <3>1. p \in FromRunning(user, running)
        BY <1>3, <2>2
      <3>2. v \in V
        BY <3>1, MergedType
      <3>3. e.params[p] = IF Insists(tmpl, canUpdate, p, v) THEN tmpl[p].default ELSE v
        BY <2>2, <3>1 DEF GetEffectiveParams
      <3>4. Insists(tmpl, canUpdate, p, v) => tmpl[p].default \in V
        BY DEF Insists, TemplateItems
      <3>5. QED
        BY <3>2, <3>3, <3>4
    <2>3. QED
      BY <2>1, <2>2
  <1>4. e.params \in [DOMAIN e.params -> V]
    <2>1. e.params = [p \in D |-> e.params[p]]
      BY DEF GetEffectiveParams
    <2>2. QED
      BY <1>2, <1>3, <2>1
  <1>5. e.needRestart \in BOOLEAN /\ e.changed \in BOOLEAN
    BY DEF GetEffectiveParams
  <1>6. QED
    BY <1>1, <1>2, <1>4, <1>5

-----------------------------------------------------------------------------
(***************************************************************************)
(* GetEffectiveParams                                                      *)
(***************************************************************************)
\* The template wins: whatever users, engine and times say of a parameter that
\* both ConfigMaps have, the engine is given the value the template insists on.
THEOREM TemplateWins ==
  ASSUME NEW tmpl, NEW user, NEW flushTime, NEW running, NEW inop, NEW canUpdate,
         NEW p \in FromRunning(user, running), Fixed(tmpl, canUpdate, p)
  PROVE  GetEffectiveParams(tmpl, user, flushTime, running, inop, canUpdate).params[p]
           = tmpl[p].default
  <1> DEFINE e == GetEffectiveParams(tmpl, user, flushTime, running, inop, canUpdate)
             v == Merged(tmpl, user, running, inop, p)
  <1>1. e.params[p] = IF Insists(tmpl, canUpdate, p, v) THEN tmpl[p].default ELSE v
    BY DEF GetEffectiveParams, FromRunning, FromUser
  <1>2. Insists(tmpl, canUpdate, p, v) \/ v = tmpl[p].default
    BY DEF Insists, Fixed
  <1>3. QED
    BY <1>1, <1>2

\* What a user has set after the running value was recorded reaches the engine
\* as it was set, whether a flush has succeeded since or not, and so does what
\* the engine has not reported at all; but for the template.
THEOREM UserValueReachesEngine ==
  ASSUME NEW tmpl, NEW user, NEW flushTime, NEW running, NEW inop, NEW canUpdate,
         NEW p,
         \/ p \in FromRunning(user, running) /\ UserNewer(user, running, p)
            /\ ~Fixed(tmpl, canUpdate, p)
         \/ p \in FromUser(user, running)
  PROVE  GetEffectiveParams(tmpl, user, flushTime, running, inop, canUpdate).params[p]
           = user[p].value
  <1> DEFINE e == GetEffectiveParams(tmpl, user, flushTime, running, inop, canUpdate)
             v == Merged(tmpl, user, running, inop, p)
  <1>1. CASE p \in FromUser(user, running)
    BY <1>1 DEF GetEffectiveParams
  <1>2. CASE /\ p \in FromRunning(user, running) /\ UserNewer(user, running, p)
             /\ ~Fixed(tmpl, canUpdate, p)
    <2>1. e.params[p] = IF Insists(tmpl, canUpdate, p, v) THEN tmpl[p].default ELSE v
      BY <1>2 DEF GetEffectiveParams, FromRunning, FromUser
    <2>2. ~Insists(tmpl, canUpdate, p, v)
      BY <1>2 DEF Insists, Fixed
    <2>3. v = user[p].value
      BY <1>2 DEF Merged, Waiting
    <2>4. QED
      BY <2>1, <2>2, <2>3
  <1>3. QED
    BY <1>1, <1>2

\* A change that needs a restart brings it about: one of a user that no flush
\* has covered, a value that waits for a restart, and a correction by the
\* template.
THEOREM ChangeMeansRestart ==
  ASSUME NEW tmpl, NEW user, NEW flushTime, NEW running, NEW inop, NEW canUpdate,
         NEW p \in FromRunning(user, running), NeedsRestart(tmpl, p),
         \/ UserNewer(user, running, p) /\ ~FlushedSince(user, flushTime, p)
         \/ Waiting(user, running, inop, p)
         \/ Insists(tmpl, canUpdate, p, Merged(tmpl, user, running, inop, p))
  PROVE  /\ GetEffectiveParams(tmpl, user, flushTime, running, inop, canUpdate).needRestart
         /\ GetEffectiveParams(tmpl, user, flushTime, running, inop, canUpdate).changed
  <1>1. p \in Changes(tmpl, user, flushTime, running, inop, canUpdate)
    BY DEF Changes
  <1>2. QED
    BY <1>1 DEF GetEffectiveParams

\* When nothing is said to change, the engine is given, for every parameter it
\* has reported, that value, but for quotes, or the user's that was flushed
\* already: an unreported change of the engine is impossible.
THEOREM UnchangedMeansKept ==
  ASSUME NEW tmpl, NEW user, NEW flushTime, NEW running, NEW inop, NEW canUpdate,
         ~GetEffectiveParams(tmpl, user, flushTime, running, inop, canUpdate).changed,
         NEW p \in DOMAIN user \ IgnoreParams
  PROVE  /\ p \in DOMAIN running
         /\ \/ /\ UserNewer(user, running, p) /\ FlushedSince(user, flushTime, p)
               /\ GetEffectiveParams(tmpl, user, flushTime, running, inop, canUpdate).params[p]
                    = user[p].value
            \/ GetEffectiveParams(tmpl, user, flushTime, running, inop, canUpdate).params[p]
                 = QuotaValue(tmpl, user[p].value, p, running[p].value)
  <1> DEFINE e == GetEffectiveParams(tmpl, user, flushTime, running, inop, canUpdate)
             v == Merged(tmpl, user, running, inop, p)
  <1>1. Changes(tmpl, user, flushTime, running, inop, canUpdate) = {}
    BY DEF GetEffectiveParams
  <1>2. p \in FromRunning(user, running)
    BY <1>1 DEF Changes, FromRunning, FromUser
  <1>3. /\ UserNewer(user, running, p) => FlushedSince(user, flushTime, p)
        /\ ~Waiting(user, running, inop, p)
        /\ ~Insists(tmpl, canUpdate, p, v)
    BY <1>1, <1>2 DEF Changes
  <1>4. e.params[p] = v
    BY <1>2, <1>3 DEF GetEffectiveParams, FromRunning, FromUser
  <1>5. v = IF UserNewer(user, running, p) THEN user[p].value
            ELSE QuotaValue(tmpl, user[p].value, p, running[p].value)
    BY <1>3 DEF Merged
  <1>6. QED
    BY <1>2, <1>3, <1>4, <1>5 DEF FromRunning

-----------------------------------------------------------------------------
(***************************************************************************)
(* GetEffectiveUserParams                                                  *)
(***************************************************************************)
\* The result of GetEffectiveUserParams, parameter by parameter.
LEMMA UserResult ==
  ASSUME NEW tmpl, NEW user, NEW running, NEW oldClass, NEW newClass, NEW other, NEW reset,
         NEW canUpdate
  PROVE  LET O == Overridden(tmpl, user, oldClass, newClass, other, reset, canUpdate)
             params == GetEffectiveUserParams(tmpl, user, running, oldClass, newClass, other,
                                              reset, canUpdate).params
         IN /\ DOMAIN params = DOMAIN user \cup O
            /\ \A p \in O : params[p] = Corrected(tmpl, running, p)
            /\ \A p \in O : params[p].value = tmpl[p].default
            /\ \A p \in DOMAIN user \ O : params[p].value = user[p].value
  <1> DEFINE O == Overridden(tmpl, user, oldClass, newClass, other, reset, canUpdate)
             params == GetEffectiveUserParams(tmpl, user, running, oldClass, newClass, other,
                                              reset, canUpdate).params
  <1>1. params = [p \in DOMAIN user \cup O |->
                    IF p \in O THEN Corrected(tmpl, running, p)
                    ELSE [value |-> user[p].value, needFlush |-> TRUE, time |-> 0]]
    BY DEF GetEffectiveUserParams
  <1> HIDE DEF O, params
  <1>2. DOMAIN params = DOMAIN user \cup O /\ \A p \in O : params[p] = Corrected(tmpl, running, p)
    BY <1>1
  <1>3. \A p \in O : params[p].value = tmpl[p].default
    BY <1>2 DEF Corrected
  <1>4. ASSUME NEW p \in DOMAIN user \ O PROVE params[p].value = user[p].value
    <2>1. params[p] = [value |-> user[p].value, needFlush |-> TRUE, time |-> 0]
      BY <1>1, <1>4
    <2>2. QED
      BY <2>1
  <1>5. QED
    BY <1>2, <1>3, <1>4 DEF O, params

\* No parameter of the user is lost, and unless they are reset, a value the
\* user may change is replaced only where the user left the default of the old
\* class, of a cluster that has got another one.
THEOREM OnlyOldDefaultsReplaced ==
  ASSUME NEW tmpl, NEW user, NEW running, NEW oldClass, NEW newClass, NEW other,
         NEW reset, ~reset, NEW canUpdate, NEW p \in DOMAIN user
  PROVE  LET r == GetEffectiveUserParams(tmpl, user, running, oldClass, newClass, other,
                                         reset, canUpdate) IN
         /\ p \in DOMAIN r.params
         /\ /\ p \in DOMAIN tmpl => tmpl[p].changeable
            /\ r.params[p].value # user[p].value
            => other /\ p \in DOMAIN oldClass /\ user[p].value = oldClass[p]
  <1> DEFINE O == Overridden(tmpl, user, oldClass, newClass, other, reset, canUpdate)
             r == GetEffectiveUserParams(tmpl, user, running, oldClass, newClass, other,
                                         reset, canUpdate)
  <1>1. DOMAIN r.params = DOMAIN user \cup O
    BY UserResult
  <1>2. p \notin O => r.params[p].value = user[p].value
    <2>1. \A q \in DOMAIN user \ O : r.params[q].value = user[q].value
      BY UserResult
    <2>2. QED
      BY <2>1
  <1>3. ASSUME p \in O, p \in DOMAIN tmpl => tmpl[p].changeable
        PROVE  other /\ p \in DOMAIN oldClass /\ user[p].value = oldClass[p]
    BY <1>3 DEF Overridden, Insists, ValueIn
  <1>4. QED
    BY <1>1, <1>2, <1>3

\* The user parameters never contradict the template afterwards.
THEOREM TemplateHolds ==
  ASSUME NEW tmpl, NEW user, NEW running, NEW oldClass, NEW newClass, NEW other,
         NEW reset, NEW canUpdate,
         NEW p, Fixed(tmpl, canUpdate, p),
         p \in DOMAIN GetEffectiveUserParams(tmpl, user, running, oldClass, newClass, other,
                                             reset, canUpdate).params
  PROVE  GetEffectiveUserParams(tmpl, user, running, oldClass, newClass, other, reset,
                                canUpdate).params[p].value = tmpl[p].default
  <1> DEFINE O == Overridden(tmpl, user, oldClass, newClass, other, reset, canUpdate)
             r == GetEffectiveUserParams(tmpl, user, running, oldClass, newClass, other,
                                         reset, canUpdate)
  <1>1. CASE p \in O
    BY <1>1, UserResult
  <1>2. CASE p \notin O
    <2>1. p \in DOMAIN user /\ r.params[p].value = user[p].value
      BY <1>2, UserResult
    <2>2. ~Insists(tmpl, canUpdate, p, user[p].value)
      BY <1>2, <2>1 DEF Overridden, ValueIn, Insists
    <2>3. QED
      BY <2>1, <2>2 DEF Insists, Fixed
  <1>3. QED
    BY <1>1, <1>2

\* ModifyClassParams may be run again when it has failed after the write: what
\* it makes of its own result, whatever is running by then, has the same
\* parameters with the same values.
THEOREM OnceIsEnough ==
  ASSUME NEW tmpl, NEW user, NEW running, NEW later, NEW oldClass, NEW newClass, NEW other,
         NEW reset, NEW canUpdate
  PROVE  LET R(u, ran) == GetEffectiveUserParams(tmpl, u, ran, oldClass, newClass, other,
                                                 reset, canUpdate).params
             once == R(user, running)
             twice == R(once, later)
         IN /\ DOMAIN twice = DOMAIN once
            /\ \A p \in DOMAIN once : twice[p].value = once[p].value
  <1> DEFINE O(u) == Overridden(tmpl, u, oldClass, newClass, other, reset, canUpdate)
             R(u, ran) == GetEffectiveUserParams(tmpl, u, ran, oldClass, newClass, other,
                                                 reset, canUpdate).params
             once == R(user, running)
             twice == R(once, later)
  <1>1. /\ DOMAIN once = DOMAIN user \cup O(user)
        /\ \A p \in O(user) : once[p].value = tmpl[p].default
        /\ \A p \in DOMAIN user \ O(user) : once[p].value = user[p].value
    BY UserResult
  <1>2. /\ DOMAIN twice = DOMAIN once \cup O(once)
        /\ \A p \in O(once) : twice[p].value = tmpl[p].default
        /\ \A p \in DOMAIN once \ O(once) : twice[p].value = once[p].value
    BY UserResult
  <1> HIDE DEF R, once, twice
  <1>3. \A p : p \notin O(user) => ValueIn(once, p) = ValueIn(user, p)
    BY <1>1 DEF ValueIn
  <1>4. O(once) \subseteq O(user)
    <2>1. ASSUME NEW p \in O(once), p \notin O(user) PROVE FALSE
      BY <1>3, <2>1 DEF Overridden
    <2>2. QED
      BY <2>1
  <1>5. DOMAIN twice = DOMAIN once
    BY <1>1, <1>2, <1>4
  <1>6. \A p \in DOMAIN once : twice[p].value = once[p].value
    BY <1>1, <1>2, <1>4
  <1>7. QED
    BY <1>5, <1>6 DEF R, once, twice

=============================================================================
