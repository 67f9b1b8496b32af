--------------------------- MODULE EffectiveParams ---------------------------
(***************************************************************************)
(* The pure part of the engine parameters: merging the parameter template  *)
(* with the class (business/domain/engine_params_template.go), and merging *)
(* template, user and running parameters into what the engine is to get    *)
(* (GetEffectiveParams) or what the user parameters are to become          *)
(* (GetEffectiveUserParams), both in business/domain/db_cluster_base.go.   *)
(*                                                                         *)
(* A map of the code is a function on the parameters it has.  A value is a *)
(* member of an unspecified set; three constants say what the code looks   *)
(* for in its text.  Time stamps are numbers, 0 is the empty string.       *)
(***************************************************************************)
EXTENDS Integers

CONSTANTS NoValue,        \* the empty text
          InQuotes,       \* texts of the form '...'
          HasSplit,       \* texts with a comma or a colon
          WithQuotes,     \* WithQuotes[v]: v between quotes
          IgnoreParams, IgnoreTemplateParams    \* define/constant.go

(***************************************************************************)
(* Template                                                                *)
(***************************************************************************)
\* getClassParamsTemplate: the class replaces the defaults of the template; a
\* parameter only the class knows joins it, and may not be changed.
ClassTemplate(template, class) ==
  [p \in DOMAIN template \cup DOMAIN class |->
     CASE p \notin DOMAIN class -> template[p]
       [] p \in DOMAIN class \cap DOMAIN template -> [template[p] EXCEPT !.default = class[p]]
       [] OTHER -> [default |-> class[p], dynamic |-> TRUE, changeable |-> FALSE,
                    deleted |-> FALSE, quoted |-> FALSE]]

\* GetClassInitParams
InitParams(template, class) ==
  [p \in DOMAIN template \cup DOMAIN class |->
     IF p \in DOMAIN class THEN class[p] ELSE template[p].default]

\* The template insists on another value for p than v.
Insists(tmpl, canUpdate, p, v) ==
  /\ ~canUpdate
  /\ p \in DOMAIN tmpl
  /\ ~tmpl[p].changeable
  /\ ~tmpl[p].deleted
  /\ v # tmpl[p].default
  /\ p \notin IgnoreTemplateParams

\* Mutant of NeedsRestart: the flag read the wrong way round.
RestartsDynamic(tmpl, p) == p \in DOMAIN tmpl => tmpl[p].dynamic

\* paramNeedRestart
NeedsRestart(tmpl, p) == p \in DOMAIN tmpl => ~tmpl[p].dynamic

(***************************************************************************)
(* GetEffectiveParams.  inop says that values waiting for a restart are to *)
(* take effect, as when an instance is created anew.                       *)
(***************************************************************************)
\* The user has set p after the running value was recorded ...
UserNewer(user, running, p) ==
  p \in DOMAIN user /\ user[p].time > running[p].time

\* Mutant of FlushedSince: any flush counts.
FlushedEver(user, flushTime, p) == flushTime # 0

\* ... and a flush has succeeded since.
FlushedSince(user, flushTime, p) == flushTime # 0 /\ flushTime > user[p].time

\* The running parameters have a value for p that waits for a restart.
Waiting(user, running, inop, p) ==
  inop /\ running[p].inop # NoValue /\ ~UserNewer(user, running, p)

\* getRunningParamQuotaValue
QuotaValue(tmpl, userValue, p, v) ==
  IF /\ v \notin InQuotes
     /\ \/ userValue \in InQuotes
        \/ p \in DOMAIN tmpl /\ tmpl[p].quoted
        \/ v \in HasSplit
  THEN WithQuotes[v] ELSE v

\* The code dereferences nil: a parameter waits for a restart that the user
\* parameters do not have.
MergePanics(user, running, inop) ==
  \E p \in DOMAIN running \ IgnoreParams :
    p \notin DOMAIN user /\ Waiting(user, running, inop, p)

\* Running parameters that are flushed: those the user parameters have too.
FromRunning(user, running) == (DOMAIN running \ IgnoreParams) \cap DOMAIN user
FromUser(user, running) == (DOMAIN user \ IgnoreParams) \ DOMAIN running

Merged(tmpl, user, running, inop, p) ==
  CASE UserNewer(user, running, p)     -> user[p].value
    [] Waiting(user, running, inop, p) -> QuotaValue(tmpl, user[p].value, p, running[p].inop)
    [] OTHER                           -> QuotaValue(tmpl, user[p].value, p, running[p].value)

\* Parameters of which the merge says that they change.
Changes(tmpl, user, flushTime, running, inop, canUpdate) ==
  FromUser(user, running) \cup
  {p \in FromRunning(user, running) :
     \/ UserNewer(user, running, p) /\ ~FlushedSince(user, flushTime, p)
     \/ Waiting(user, running, inop, p)
     \/ Insists(tmpl, canUpdate, p, Merged(tmpl, user, running, inop, p))}

GetEffectiveParams(tmpl, user, flushTime, running, inop, canUpdate) ==
  LET C == Changes(tmpl, user, flushTime, running, inop, canUpdate) IN
  [params |-> [p \in FromRunning(user, running) \cup FromUser(user, running) |->
                 IF p \in FromUser(user, running) THEN user[p].value
                 ELSE LET v == Merged(tmpl, user, running, inop, p) IN
                      IF Insists(tmpl, canUpdate, p, v) THEN tmpl[p].default ELSE v],
   changed |-> C # {},
   needRestart |-> \E p \in C : NeedsRestart(tmpl, p)]

(***************************************************************************)
(* GetEffectiveUserParams.  oldClass and newClass are the parameters of    *)
(* the classes, other says that the two differ and both are named.         *)
(***************************************************************************)
ValueIn(f, p) == IF p \in DOMAIN f THEN f[p].value ELSE NoValue
ClassValue(class, p) == IF p \in DOMAIN class THEN class[p] ELSE NoValue

\* Mutant of Overridden: whether the user left the old default is not looked at.
OverriddenAlways(tmpl, user, oldClass, newClass, other, reset, canUpdate) ==
  {p \in DOMAIN tmpl :
     LET v == ValueIn(user, p) IN
     \/ Insists(tmpl, canUpdate, p, v)
     \/ reset /\ p \in DOMAIN newClass /\ tmpl[p].changeable /\ v # newClass[p]
     \/ /\ other /\ p \in DOMAIN oldClass /\ tmpl[p].changeable
        /\ v # ClassValue(newClass, p)}

\* needOverride1, needOverride2 and needOverride3
Overridden(tmpl, user, oldClass, newClass, other, reset, canUpdate) ==
  {p \in DOMAIN tmpl :
     LET v == ValueIn(user, p) IN
     \/ Insists(tmpl, canUpdate, p, v)
     \/ reset /\ p \in DOMAIN newClass /\ tmpl[p].changeable /\ v # newClass[p]
     \/ /\ other /\ p \in DOMAIN oldClass /\ tmpl[p].changeable
        /\ v = oldClass[p] /\ v # ClassValue(newClass, p)}

\* A parameter that runs with the default already is put right without flush.
Corrected(tmpl, running, p) ==
  IF p \in DOMAIN running /\ tmpl[p].default = running[p].value
  THEN [value |-> tmpl[p].default, needFlush |-> FALSE, time |-> running[p].time]
  ELSE [value |-> tmpl[p].default, needFlush |-> TRUE, time |-> 0]

GetEffectiveUserParams(tmpl, user, running, oldClass, newClass, other, reset, canUpdate) ==
  LET O == Overridden(tmpl, user, oldClass, newClass, other, reset, canUpdate) IN
  [params |-> [p \in DOMAIN user \cup O |->
                 IF p \in O THEN Corrected(tmpl, running, p)
                 ELSE [value |-> user[p].value, needFlush |-> TRUE, time |-> 0]],
   changed |-> O # {},
   needRestart |-> \E p \in O : ~tmpl[p].dynamic /\ Corrected(tmpl, running, p).needFlush]
=============================================================================
