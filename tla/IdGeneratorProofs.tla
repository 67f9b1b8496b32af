------------------------- MODULE IdGeneratorProofs -------------------------
(***************************************************************************)
(* Proofs about IdGenerator for any number of callers, generators, calls,  *)
(* faults and batch sizes.                                                 *)
(***************************************************************************)
EXTENDS IdGenerator, TLAPS

(***************************************************************************)
(* The inductive invariant.  The heart of it is Current: a copy that still *)
(* carries the version of the ConfigMap is the ConfigMap, so whatever the  *)
(* API server accepts starts at the counter's present value.               *)
(***************************************************************************)
Busy == {"read", "sent"}

Current ==
  /\ \A c \in Callers : pc[c] \in Busy =>
       found[c].rv <= cm.rv /\ (found[c].rv = cm.rv => found[c] = cm)
  /\ \A r \in late :
       r.copy.rv <= cm.rv /\ (r.copy.rv = cm.rv => r.copy = cm)

Asked == /\ \A c \in Callers : pc[c] # "idle" => want[c] \in Batches
         /\ \A r \in late : r.n \in Batches

\* Everything handed out lies below the counter.
Below ==
  /\ \A b \in delivered : EndOf(b) <= top
  /\ top <= CurrentId(cm)
  /\ \A c \in Callers :
       /\ floor[c] <= top
       /\ pc[c] = "applied" => EndOf(Batch(c)) <= CurrentId(cm)
       /\ pc[c] \in Busy \cup {"applied"} => floor[c] <= CurrentId(found[c])

Apart(a, b) == EndOf(a) <= b.first \/ EndOf(b) <= a.first

Disjoint ==
  /\ \A a, b \in delivered : a # b => Apart(a, b)
  /\ \A c \in Callers : pc[c] = "applied" => \A b \in delivered : Apart(Batch(c), b)
  /\ \A c, d \in Callers :
       c # d /\ pc[c] = "applied" /\ pc[d] = "applied" => Apart(Batch(c), Batch(d))

Tickets == \A c \in Callers : pc[c] = "applied" => ticket[c] \in 1 .. nUpdates

Exclusion ==
  /\ \A c \in Callers : pc[c] \notin {"idle", "lock"} => mutex[GenOf[c]] = c
  /\ \A c \in Callers :
       pc[c] \in Busy /\ found[c].rv # cm.rv => lastGen # GenOf[c]

IndInv == /\ TypeOK
          /\ Current
          /\ Asked
          /\ Below
          /\ Disjoint
          /\ Tickets
          /\ Exclusion

USE ConstantsAssumption DEF ConstantsAssumption

\* The initial states satisfy the inductive invariant.
LEMMA InitIndInv == Init => IndInv
  <1> SUFFICES ASSUME Init PROVE IndInv
    OBVIOUS
  <1>1. TypeOK
    <2>1. cm \in ConfigMaps
      BY DEF Init, ConfigMaps
    <2>2. NoConfigMap \in ConfigMaps
      BY DEF NoConfigMap, ConfigMaps, Entries
    <2>3. QED
      BY <2>1, <2>2 DEF Init, TypeOK, PcValues
  <1>2. Current /\ Asked /\ Disjoint /\ Tickets /\ Exclusion
    BY DEF Init, Current, Asked, Disjoint, Tickets, Exclusion, Busy
  <1>3. Below
    BY <1>1 DEF Init, Below, Busy, CurrentId, TypeOK, ConfigMaps
  <1>4. QED
    BY <1>1, <1>2, <1>3 DEF IndInv

\* Type correctness is inductive by itself.
LEMMA TypeStep == TypeOK /\ [Next]_vars => TypeOK'
  <1> SUFFICES ASSUME TypeOK, [Next]_vars PROVE TypeOK'
    OBVIOUS
  <1> USE DEF TypeOK, ConfigMaps, NoConfigMap, Entries, PcValues, CurrentId, Batch, EndOf,
              Goto, Return, Fault, Store, Unseen, Restart
  <1>1. ASSUME NEW c \in Callers, NEW n \in Batches, Call(c, n) PROVE TypeOK'
    BY <1>1 DEF Call
  <1>2. ASSUME NEW c \in Callers, Lock(c) PROVE TypeOK'
    BY <1>2 DEF Lock
  <1>3. ASSUME NEW c \in Callers, Get(c) PROVE TypeOK'
    BY <1>3 DEF Get
  <1>4. ASSUME NEW c \in Callers, GetFails(c) PROVE TypeOK'
    BY <1>4 DEF GetFails
  <1>5. ASSUME NEW c \in Callers, Unparsable(c) PROVE TypeOK'
    BY <1>5 DEF Unparsable
  <1>6. ASSUME NEW c \in Callers, Panic(c) PROVE TypeOK'
    BY <1>6 DEF Panic
  <1>7. ASSUME NEW c \in Callers, SendUpdate(c) PROVE TypeOK'
    BY <1>7 DEF SendUpdate
  <1>8. ASSUME NEW c \in Callers, ApplyUpdate(c) PROVE TypeOK'
    BY <1>8 DEF ApplyUpdate
  <1>9. ASSUME NEW c \in Callers, Conflict(c) PROVE TypeOK'
    BY <1>9 DEF Conflict
  <1>10. ASSUME NEW c \in Callers, UpdateLost(c) PROVE TypeOK'
    BY <1>10 DEF UpdateLost
  <1>11. ASSUME NEW c \in Callers, ReturnIds(c) PROVE TypeOK'
    BY <1>11 DEF ReturnIds
  <1>12. ASSUME NEW c \in Callers, ReturnError(c) PROVE TypeOK'
    BY <1>12 DEF ReturnError
  <1>13. ASSUME NEW g \in Generators, Crash(g) PROVE TypeOK'
    BY <1>13 DEF Crash
  <1>14. ASSUME NEW r \in late, ApplyLate(r) PROVE TypeOK'
    BY <1>14 DEF ApplyLate, callVars
  <1>15. ASSUME WriteOtherEntry PROVE TypeOK'
    BY <1>15 DEF WriteOtherEntry, callVars
  <1>16. CASE UNCHANGED vars
    BY <1>16 DEF vars, callVars
  <1>17. QED
    BY <1>1, <1>2, <1>3, <1>4, <1>5, <1>6, <1>7, <1>8, <1>9, <1>10, <1>11, <1>12, <1>13, <1>14,
       <1>15, <1>16 DEF Next, Step

\* A step that applies no update and delivers no batch keeps batches apart.
LEMMA DisjointFrame ==
  ASSUME Disjoint,
         delivered' = delivered,
         \A d \in Callers : pc'[d] = "applied" => pc[d] = "applied" /\ Batch(d)' = Batch(d)
  PROVE  Disjoint'
  <1>1. \A a, b : Apart(a, b)' = Apart(a, b)
    BY DEF Apart, EndOf
  <1>2. QED
    BY <1>1 DEF Disjoint, Apart, EndOf

\* Every step preserves the inductive invariant.
LEMMA IndInvStep == IndInv /\ [Next]_vars => IndInv'
  <1> SUFFICES ASSUME IndInv, [Next]_vars PROVE IndInv'
    OBVIOUS
  <1>0. TypeOK /\ TypeOK'
    BY TypeStep DEF IndInv
  <1> DEFINE Rest == Current /\ Asked /\ Below /\ Disjoint /\ Tickets /\ Exclusion
  <1> USE <1>0 DEF IndInv, TypeOK, ConfigMaps, NoConfigMap, PcValues, Busy, CurrentId,
              Goto, Return, Fault, Unseen
  <1>1. ASSUME NEW c \in Callers, NEW n \in Batches, Call(c, n) PROVE Rest'
    <2>1. Current'
      BY <1>1 DEF Call, Current
    <2>2. Asked'
      BY <1>1 DEF Call, Asked
    <2>3. Below'
      BY <1>1 DEF Call, Below, Batch, EndOf
    <2>4. Disjoint'
      <3>1. \A d \in Callers : pc'[d] = "applied" => pc[d] = "applied" /\ Batch(d)' = Batch(d)
        BY <1>1 DEF Call, Batch
      <3>2. QED
        BY <1>1, <3>1, DisjointFrame DEF Call
    <2>5. Tickets'
      BY <1>1 DEF Call, Tickets
    <2>6. Exclusion'
      BY <1>1 DEF Call, Exclusion
    <2>7. QED
      BY <2>1, <2>2, <2>3, <2>4, <2>5, <2>6
  <1>2. ASSUME NEW c \in Callers, Lock(c) PROVE Rest'
    <2>1. Current'
      BY <1>2 DEF Lock, Current
    <2>2. Asked'
      BY <1>2 DEF Lock, Asked
    <2>3. Below'
      BY <1>2 DEF Lock, Below, Batch, EndOf
    <2>4. Disjoint'
      <3>1. \A d \in Callers : pc'[d] = "applied" => pc[d] = "applied" /\ Batch(d)' = Batch(d)
        BY <1>2 DEF Lock, Batch
      <3>2. QED
        BY <1>2, <3>1, DisjointFrame DEF Lock
    <2>5. Tickets'
      BY <1>2 DEF Lock, Tickets
    <2>6. Exclusion'
      BY <1>2 DEF Lock, Exclusion
    <2>7. QED
      BY <2>1, <2>2, <2>3, <2>4, <2>5, <2>6
  <1>3. ASSUME NEW c \in Callers, Get(c) PROVE Rest'
    <2>1. Current'
      BY <1>3 DEF Get, Current
    <2>2. Asked'
      BY <1>3 DEF Get, Asked
    <2>3. Below'
      BY <1>3 DEF Get, Below, Batch, EndOf
    <2>4. Disjoint'
      <3>1. \A d \in Callers : pc'[d] = "applied" => pc[d] = "applied" /\ Batch(d)' = Batch(d)
        BY <1>3 DEF Get, Batch
      <3>2. QED
        BY <1>3, <3>1, DisjointFrame DEF Get
    <2>5. Tickets'
      BY <1>3 DEF Get, Tickets
    <2>6. Exclusion'
      BY <1>3 DEF Get, Exclusion
    <2>7. QED
      BY <2>1, <2>2, <2>3, <2>4, <2>5, <2>6
  <1>4. ASSUME NEW c \in Callers, GetFails(c) PROVE Rest'
    <2>1. Current'
      BY <1>4 DEF GetFails, Current
    <2>2. Asked'
      BY <1>4 DEF GetFails, Asked
    <2>3. Below'
      BY <1>4 DEF GetFails, Below, Batch, EndOf
    <2>4. Disjoint'
      <3>1. \A d \in Callers : pc'[d] = "applied" => pc[d] = "applied" /\ Batch(d)' = Batch(d)
        BY <1>4 DEF GetFails, Batch
      <3>2. QED
        BY <1>4, <3>1, DisjointFrame DEF GetFails
    <2>5. Tickets'
      BY <1>4 DEF GetFails, Tickets
    <2>6. Exclusion'
      BY <1>4 DEF GetFails, Exclusion
    <2>7. QED
      BY <2>1, <2>2, <2>3, <2>4, <2>5, <2>6
  <1>5. ASSUME NEW c \in Callers, Unparsable(c) PROVE Rest'
    <2>1. Current'
      BY <1>5 DEF Unparsable, Current
    <2>2. Asked'
      BY <1>5 DEF Unparsable, Asked
    <2>3. Below'
      BY <1>5 DEF Unparsable, Below, Batch, EndOf
    <2>4. Disjoint'
      <3>1. \A d \in Callers : pc'[d] = "applied" => pc[d] = "applied" /\ Batch(d)' = Batch(d)
        BY <1>5 DEF Unparsable, Batch
      <3>2. QED
        BY <1>5, <3>1, DisjointFrame DEF Unparsable
    <2>5. Tickets'
      BY <1>5 DEF Unparsable, Tickets
    <2>6. Exclusion'
      BY <1>5 DEF Unparsable, Exclusion
    <2>7. QED
      BY <2>1, <2>2, <2>3, <2>4, <2>5, <2>6
  <1>6. ASSUME NEW c \in Callers, Panic(c) PROVE Rest'
    <2>1. Current'
      BY <1>6 DEF Panic, Current, Restart
    <2>2. Asked'
      BY <1>6 DEF Panic, Asked, Restart
    <2>3. Below'
      BY <1>6 DEF Panic, Below, Restart, Batch, EndOf
    <2>4. Disjoint'
      <3>1. \A d \in Callers : pc'[d] = "applied" => pc[d] = "applied" /\ Batch(d)' = Batch(d)
        BY <1>6 DEF Panic, Restart, Batch
      <3>2. QED
        BY <1>6, <3>1, DisjointFrame DEF Panic, Restart
    <2>5. Tickets'
      BY <1>6 DEF Panic, Tickets, Restart
    <2>6. Exclusion'
      BY <1>6 DEF Panic, Exclusion, Restart
    <2>7. QED
      BY <2>1, <2>2, <2>3, <2>4, <2>5, <2>6
  <1>7. ASSUME NEW c \in Callers, SendUpdate(c) PROVE Rest'
    <2>1. Current'
      BY <1>7 DEF SendUpdate, Current
    <2>2. Asked'
      BY <1>7 DEF SendUpdate, Asked
    <2>3. Below'
      BY <1>7 DEF SendUpdate, Below, Batch, EndOf
    <2>4. Disjoint'
      <3>1. \A d \in Callers : pc'[d] = "applied" => pc[d] = "applied" /\ Batch(d)' = Batch(d)
        BY <1>7 DEF SendUpdate, Batch
      <3>2. QED
        BY <1>7, <3>1, DisjointFrame DEF SendUpdate
    <2>5. Tickets'
      BY <1>7 DEF SendUpdate, Tickets
    <2>6. Exclusion'
      BY <1>7 DEF SendUpdate, Exclusion
    <2>7. QED
      BY <2>1, <2>2, <2>3, <2>4, <2>5, <2>6
  <1>8. ASSUME NEW c \in Callers, ApplyUpdate(c) PROVE Rest'
    <2> DEFINE new == [first |-> CurrentId(cm), n |-> want[c], by |-> nUpdates + 1]
    <2>a. found[c] = cm /\ CurrentId(cm') = CurrentId(cm) + want[c]
      BY <1>8 DEF ApplyUpdate, Store, Current
    <2>b. Batch(c)' = new /\ EndOf(new) = CurrentId(cm')
      BY <1>8, <2>a DEF ApplyUpdate, Batch, EndOf
    <2>c. \A d \in Callers \ {c} : pc'[d] = pc[d] /\ Batch(d)' = Batch(d)
      BY <1>8 DEF ApplyUpdate, Batch
    <2>1. Current'
      BY <1>8 DEF ApplyUpdate, Current, Store
    <2>2. Asked'
      BY <1>8 DEF ApplyUpdate, Asked, Store
    <2>3. Below'
      <3>1. top' = top /\ floor' = floor /\ found' = found /\ delivered' = delivered
        BY <1>8 DEF ApplyUpdate
      <3>2. top' <= CurrentId(cm')
        BY <2>a, <3>1 DEF Below
      <3>3. \A d \in Callers : pc'[d] = "applied" => EndOf(Batch(d)') <= CurrentId(cm')
        <4>1. \A d \in Callers \ {c} : pc'[d] = "applied" => EndOf(Batch(d)) <= CurrentId(cm)
          BY <2>c DEF Below
        <4>2. \A d \in Callers : EndOf(Batch(d)) \in Nat
          BY DEF Batch, EndOf
        <4>3. CurrentId(cm) \in Nat /\ want[c] \in Nat
          OBVIOUS
        <4> HIDE DEF CurrentId
        <4>4. \A d \in Callers \ {c} : pc'[d] = "applied" => EndOf(Batch(d)) <= CurrentId(cm')
          BY <2>a, <4>1, <4>2, <4>3
        <4>5. EndOf(Batch(c)') <= CurrentId(cm')
          BY <2>a, <2>b, <4>3
        <4>6. QED
          BY <2>c, <4>4, <4>5
      <3>4. \A d \in Callers : pc'[d] \in Busy \cup {"applied"} => floor'[d] <= CurrentId(found'[d])
        BY <1>8, <3>1 DEF Below, ApplyUpdate
      <3>5. QED
        BY <3>1, <3>2, <3>3, <3>4 DEF Below, EndOf
    <2>4. Disjoint'
      <3>1. \A b \in delivered' : b \in delivered /\ EndOf(b) <= CurrentId(cm)
        BY <1>8 DEF ApplyUpdate, Below, EndOf
      <3>2. \A d \in Callers \ {c} : pc'[d] = "applied" => EndOf(Batch(d)) <= CurrentId(cm)
        BY <2>c DEF Below
      <3>3. \A b : EndOf(b) <= CurrentId(cm) => Apart(new, b) /\ Apart(b, new)
        BY DEF Apart
      <3>4. \A b \in delivered : Apart(new, b)
        BY <1>8, <3>1, <3>3 DEF ApplyUpdate
      <3>5. \A d \in Callers \ {c} : pc'[d] = "applied" =>
              Apart(new, Batch(d)) /\ Apart(Batch(d), new)
        BY <3>2, <3>3
      <3>6. \A a, b : Apart(a, b)' = Apart(a, b)
        BY DEF Apart, EndOf
      <3> HIDE DEF new
      <3>7. QED
        BY <1>8, <2>b, <2>c, <3>4, <3>5, <3>6 DEF Disjoint, ApplyUpdate
    <2>5. Tickets'
      BY <1>8 DEF ApplyUpdate, Tickets, Store
    <2>6. Exclusion'
      BY <1>8 DEF ApplyUpdate, Exclusion, Store
    <2>7. QED
      BY <2>1, <2>2, <2>3, <2>4, <2>5, <2>6
  <1>9. ASSUME NEW c \in Callers, Conflict(c) PROVE Rest'
    <2>1. Current'
      BY <1>9 DEF Conflict, Current
    <2>2. Asked'
      BY <1>9 DEF Conflict, Asked
    <2>3. Below'
      BY <1>9 DEF Conflict, Below, Batch, EndOf
    <2>4. Disjoint'
      <3>1. \A d \in Callers : pc'[d] = "applied" => pc[d] = "applied" /\ Batch(d)' = Batch(d)
        BY <1>9 DEF Conflict, Batch
      <3>2. QED
        BY <1>9, <3>1, DisjointFrame DEF Conflict
    <2>5. Tickets'
      BY <1>9 DEF Conflict, Tickets
    <2>6. Exclusion'
      BY <1>9 DEF Conflict, Exclusion
    <2>7. QED
      BY <2>1, <2>2, <2>3, <2>4, <2>5, <2>6
  <1>10. ASSUME NEW c \in Callers, UpdateLost(c) PROVE Rest'
    <2>1. Current'
      BY <1>10 DEF UpdateLost, Current
    <2>2. Asked'
      BY <1>10 DEF UpdateLost, Asked
    <2>3. Below'
      BY <1>10 DEF UpdateLost, Below, Batch, EndOf
    <2>4. Disjoint'
      <3>1. \A d \in Callers : pc'[d] = "applied" => pc[d] = "applied" /\ Batch(d)' = Batch(d)
        BY <1>10 DEF UpdateLost, Batch
      <3>2. QED
        BY <1>10, <3>1, DisjointFrame DEF UpdateLost
    <2>5. Tickets'
      BY <1>10 DEF UpdateLost, Tickets
    <2>6. Exclusion'
      BY <1>10 DEF UpdateLost, Exclusion
    <2>7. QED
      BY <2>1, <2>2, <2>3, <2>4, <2>5, <2>6
  <1>11. ASSUME NEW c \in Callers, ReturnIds(c) PROVE Rest'
    <2>a. \A d \in Callers : pc'[d] = "applied" => d # c /\ pc[d] = "applied" /\ Batch(d)' = Batch(d)
      BY <1>11 DEF ReturnIds, Batch
    <2>1. Current'
      BY <1>11 DEF ReturnIds, Current
    <2>2. Asked'
      BY <1>11 DEF ReturnIds, Asked
    <2>3. Below'
      BY <1>11 DEF ReturnIds, Below, Batch, EndOf
    <2>4. Disjoint'
      <3>1. delivered' = delivered \cup {Batch(c)}
        BY <1>11 DEF ReturnIds
      <3>2. \A b \in delivered : Apart(Batch(c), b) /\ Apart(b, Batch(c))
        BY <1>11 DEF Disjoint, ReturnIds, Apart
      <3>3. \A d \in Callers : pc'[d] = "applied" => Apart(Batch(d)', Batch(c))
        BY <1>11, <2>a DEF Disjoint, ReturnIds
      <3>4. QED
        BY <2>a, <3>1, <3>2, <3>3, Zenon DEF Disjoint, Apart, EndOf
    <2>5. Tickets'
      BY <1>11 DEF ReturnIds, Tickets
    <2>6. Exclusion'
      BY <1>11 DEF ReturnIds, Exclusion
    <2>7. QED
      BY <2>1, <2>2, <2>3, <2>4, <2>5, <2>6
  <1>12. ASSUME NEW c \in Callers, ReturnError(c) PROVE Rest'
    <2>1. Current'
      BY <1>12 DEF ReturnError, Current
    <2>2. Asked'
      BY <1>12 DEF ReturnError, Asked
    <2>3. Below'
      BY <1>12 DEF ReturnError, Below, Batch, EndOf
    <2>4. Disjoint'
      <3>1. \A d \in Callers : pc'[d] = "applied" => pc[d] = "applied" /\ Batch(d)' = Batch(d)
        BY <1>12 DEF ReturnError, Batch
      <3>2. QED
        BY <1>12, <3>1, DisjointFrame DEF ReturnError
    <2>5. Tickets'
      BY <1>12 DEF ReturnError, Tickets
    <2>6. Exclusion'
      BY <1>12 DEF ReturnError, Exclusion
    <2>7. QED
      BY <2>1, <2>2, <2>3, <2>4, <2>5, <2>6
  <1>13. ASSUME NEW g \in Generators, Crash(g) PROVE Rest'
    <2>1. Current'
      BY <1>13 DEF Crash, Current, Restart
    <2>2. Asked'
      BY <1>13 DEF Crash, Asked, Restart
    <2>3. Below'
      BY <1>13 DEF Crash, Below, Restart, Batch, EndOf
    <2>4. Disjoint'
      <3>1. \A d \in Callers : pc'[d] = "applied" => pc[d] = "applied" /\ Batch(d)' = Batch(d)
        BY <1>13 DEF Crash, Restart, Batch
      <3>2. QED
        BY <1>13, <3>1, DisjointFrame DEF Crash, Restart
    <2>5. Tickets'
      BY <1>13 DEF Crash, Tickets, Restart
    <2>6. Exclusion'
      BY <1>13 DEF Crash, Exclusion, Restart
    <2>7. QED
      BY <2>1, <2>2, <2>3, <2>4, <2>5, <2>6
  <1>14. ASSUME NEW r \in late, ApplyLate(r) PROVE Rest'
    <2>a. r.copy = cm /\ CurrentId(cm') = CurrentId(cm) + r.n /\ r.n \in Nat
      BY <1>14 DEF ApplyLate, Store, Current
    <2>b. \A d \in Callers : pc'[d] = pc[d] /\ Batch(d)' = Batch(d)
      BY <1>14 DEF ApplyLate, callVars, Batch
    <2>1. Current'
      BY <1>14 DEF ApplyLate, Current, callVars, Store
    <2>2. Asked'
      BY <1>14 DEF ApplyLate, Asked, callVars, Store
    <2>3. Below'
      <3>1. top' = top /\ floor' = floor /\ found' = found /\ delivered' = delivered
        BY <1>14 DEF ApplyLate, callVars
      <3>2. top' <= CurrentId(cm')
        BY <2>a, <3>1 DEF Below
      <3>3. \A d \in Callers : pc'[d] = "applied" => EndOf(Batch(d)') <= CurrentId(cm')
        <4>1. \A d \in Callers : pc'[d] = "applied" => EndOf(Batch(d)) <= CurrentId(cm)
          BY <2>b DEF Below
        <4>2. \A d \in Callers : EndOf(Batch(d)) \in Nat
          BY DEF Batch, EndOf
        <4>3. CurrentId(cm) \in Nat
          OBVIOUS
        <4> HIDE DEF CurrentId
        <4>4. \A d \in Callers : pc'[d] = "applied" => EndOf(Batch(d)) <= CurrentId(cm')
          BY <2>a, <4>1, <4>2, <4>3
        <4>5. QED
          BY <2>b, <4>4
      <3>4. QED
        BY <2>b, <3>1, <3>2, <3>3 DEF Below, EndOf
    <2>4. Disjoint'
      BY <1>14, <2>b, DisjointFrame DEF ApplyLate
    <2>5. Tickets'
      BY <1>14 DEF ApplyLate, Tickets, callVars, Store
    <2>6. Exclusion'
      BY <1>14 DEF ApplyLate, Exclusion, callVars, Store
    <2>7. QED
      BY <2>1, <2>2, <2>3, <2>4, <2>5, <2>6
  <1>15. ASSUME WriteOtherEntry PROVE Rest'
    <2>a. /\ cm'.rv = cm.rv + 1
          /\ CurrentId(cm') = CurrentId(cm)
          /\ \A d \in Callers : pc'[d] = pc[d] /\ Batch(d)' = Batch(d)
      BY <1>15 DEF WriteOtherEntry, callVars, Batch
    <2>1. Current'
      BY <1>15, <2>a DEF WriteOtherEntry, Current, callVars
    <2>2. Asked'
      BY <1>15 DEF WriteOtherEntry, Asked, callVars
    <2>3. Below'
      BY <1>15, <2>a DEF WriteOtherEntry, Below, callVars, EndOf
    <2>4. Disjoint'
      BY <1>15, <2>a, DisjointFrame DEF WriteOtherEntry
    <2>5. Tickets'
      BY <1>15 DEF WriteOtherEntry, Tickets, callVars
    <2>6. Exclusion'
      BY <1>15 DEF WriteOtherEntry, Exclusion, callVars
    <2>7. QED
      BY <2>1, <2>2, <2>3, <2>4, <2>5, <2>6
  <1>16. CASE UNCHANGED vars
    BY <1>16 DEF vars, callVars, Current, Asked, Below, Disjoint, Tickets, Exclusion, Batch
  <1>17. Rest'
    <2>1. \A c \in Callers : Step(c) => Rest'
      BY <1>2, <1>3, <1>4, <1>5, <1>6, <1>7, <1>8, <1>9, <1>10, <1>11, <1>12 DEF Step
    <2>2. QED
      BY <2>1, <1>1, <1>13, <1>14, <1>15, <1>16 DEF Next
  <1>18. QED
    BY <1>17

-----------------------------------------------------------------------------
\* The invariant holds in every reachable state of the generator.
THEOREM Invariance == Spec => []IndInv
  <1>1. Init => IndInv
    BY InitIndInv
  <1>2. IndInv /\ [Next]_vars => IndInv'
    BY IndInvStep
  <1>3. QED
    BY <1>1, <1>2, PTL DEF Spec

\* The variables of GetNextClusterScopeHostInsIds and of the ConfigMap it
\* updates keep their types.
THEOREM TypeCorrect == Spec => []TypeOK
  <1>1. IndInv => TypeOK
    BY DEF IndInv
  <1>2. QED
    BY <1>1, Invariance, PTL

\* No two batches GetNextClusterScopeHostInsIds returned share an id, for any
\* number of generators, callers, crashes, conflicts and late requests.
THEOREM UniqueIds == Spec => []IdsUnique
  <1>1. IndInv => IdsUnique
    BY DEF IndInv, Disjoint, Apart, IdsUnique
  <1>2. QED
    BY <1>1, Invariance, PTL

\* A call gets ids above every id that was returned before the call began.
THEOREM CallOrder == Spec => []IdsFollowCallOrder
  <1>1. IndInv => IdsFollowCallOrder
    BY DEF IndInv, Below, IdsFollowCallOrder
  <1>2. QED
    BY <1>1, Invariance, PTL

\* Callers that share the mutex of one generator never make each other's
\* Update conflict.
THEOREM MutexPreventsConflicts == Spec => []NoConflictWithinGenerator
  <1>1. IndInv => NoConflictWithinGenerator
    BY DEF IndInv, Exclusion, Busy, NoConflictWithinGenerator
  <1>2. QED
    BY <1>1, Invariance, PTL

\* What a step does to the counter's entry: nothing, or it moves the counter
\* up by the size of a batch from the value the ConfigMap holds.
LEMMA CounterStep ==
  ASSUME IndInv, [Next]_vars
  PROVE  \/ cm'.entry = cm.entry /\ cm'.id = cm.id
         \/ cm'.entry = "number" /\ \E n \in Batches : CurrentId(cm') = CurrentId(cm) + n
  <1>1. ASSUME NEW copy, NEW n \in Batches, Store(copy, n), copy = cm
        PROVE  cm'.entry = "number" /\ CurrentId(cm') = CurrentId(cm) + n
    BY <1>1 DEF Store, CurrentId
  <1>2. ASSUME NEW c \in Callers, ApplyUpdate(c)
        PROVE  cm'.entry = "number" /\ \E n \in Batches : CurrentId(cm') = CurrentId(cm) + n
    <2>1. found[c] = cm /\ want[c] \in Batches /\ Store(found[c], want[c])
      BY <1>2 DEF ApplyUpdate, Store, IndInv, Current, Asked, Busy
    <2>2. QED
      BY <1>1, <2>1
  <1>3. ASSUME NEW r \in late, ApplyLate(r)
        PROVE  cm'.entry = "number" /\ \E n \in Batches : CurrentId(cm') = CurrentId(cm) + n
    <2>1. r.copy = cm /\ r.n \in Batches /\ Store(r.copy, r.n)
      BY <1>3 DEF ApplyLate, Store, IndInv, Current, Asked
    <2>2. QED
      BY <1>1, <2>1
  <1>4. ASSUME WriteOtherEntry PROVE cm'.entry = cm.entry /\ cm'.id = cm.id
    BY <1>4 DEF WriteOtherEntry, IndInv, TypeOK, ConfigMaps
  <1>5. QED
    BY <1>2, <1>3, <1>4 DEF Next, Step, Call, Lock, Get, GetFails, Unparsable, Panic, SendUpdate,
       Conflict, UpdateLost, ReturnIds, ReturnError, Crash, Restart, vars

\* The stored counter never goes back and never becomes unreadable, so ids
\* written off by a failed call stay written off.
THEOREM CounterMonotonic == Spec => CounterNeverGoesBack
  <1>1. IndInv /\ [Next]_vars =>
          [/\ CurrentId(cm') >= CurrentId(cm)
           /\ cm.entry = "number" => cm'.entry = "number"]_cm
    <2> SUFFICES ASSUME IndInv, [Next]_vars, cm' # cm
                 PROVE  /\ CurrentId(cm') >= CurrentId(cm)
                        /\ cm.entry = "number" => cm'.entry = "number"
      OBVIOUS
    <2>1. CurrentId(cm) \in Nat
      BY DEF IndInv, TypeOK, ConfigMaps, CurrentId
    <2>2. cm'.entry = cm.entry /\ cm'.id = cm.id => CurrentId(cm') = CurrentId(cm)
      BY DEF CurrentId
    <2>3. QED
      BY <2>1, <2>2, CounterStep
  <1>2. QED
    BY <1>1, Invariance, PTL DEF Spec, CounterNeverGoesBack
-----------------------------------------------------------------------------
(***************************************************************************)
(* The generators implement IdService: an update that is applied while its *)
(* caller waits takes a batch, a returning call delivers it, a lost answer *)
(* or a crash loses it, and a late request burns one.  Every other step is *)
(* invisible.                                                              *)
(***************************************************************************)
USE DEF Ids!NoBatch

\* A generator starts where the service does.
LEMMA InitRefines == Init => Ids!IdInit
  BY DEF Init, Ids!IdInit, InHand, CurrentId

\* A step that touches none of what the service shows.
LEMMA Invisible ==
  ASSUME CurrentId(cm') = CurrentId(cm), nUpdates' = nUpdates, delivered' = delivered,
         \A d \in Callers : InHand(d)' = InHand(d)
  PROVE  UNCHANGED Ids!idVars
  BY DEF Ids!idVars

\* A step that drops the batches of the callers in S, if they had any.
LEMMA LoseStep ==
  ASSUME NEW S \in SUBSET Callers,
         CurrentId(cm') = CurrentId(cm), nUpdates' = nUpdates, delivered' = delivered,
         \A d \in Callers : InHand(d)' = IF d \in S THEN Ids!NoBatch ELSE InHand(d)
  PROVE  Ids!IdNext
  <1>1. Ids!Lose(S)
    BY DEF Ids!Lose
  <1>2. QED
    BY <1>1 DEF Ids!IdNext

\* Every step of the generators is a step of the service or shows nothing.
LEMMA StepRefines == IndInv /\ [Next]_vars => [Ids!IdNext]_(Ids!idVars)
  <1> SUFFICES ASSUME IndInv, [Next]_vars PROVE Ids!IdNext \/ UNCHANGED Ids!idVars
    OBVIOUS
  <1>t. TypeOK
    BY DEF IndInv
  <1>1. ASSUME NEW c \in Callers, NEW n \in Batches, Call(c, n)
        PROVE  UNCHANGED Ids!idVars
    BY <1>t, <1>1, Invisible DEF TypeOK, Call, InHand, Batch, Goto
  <1>2. ASSUME NEW c \in Callers, Lock(c) PROVE UNCHANGED Ids!idVars
    BY <1>t, <1>2, Invisible DEF TypeOK, Lock, InHand, Batch, Goto
  <1>3. ASSUME NEW c \in Callers, Get(c) PROVE UNCHANGED Ids!idVars
    BY <1>t, <1>3, Invisible DEF TypeOK, Get, InHand, Batch, Goto
  <1>4. ASSUME NEW c \in Callers,
               GetFails(c) \/ Unparsable(c) \/ SendUpdate(c) \/ Conflict(c) \/ ReturnError(c)
        PROVE  UNCHANGED Ids!idVars
    <2>1. \A d \in Callers : InHand(d)' = InHand(d)
      BY <1>t, <1>4 DEF TypeOK, GetFails, Unparsable, SendUpdate, Conflict, ReturnError, InHand,
         Batch, Goto, Return
    <2>2. QED
      BY <1>4, <2>1, Invisible DEF GetFails, Unparsable, SendUpdate, Conflict, ReturnError
  <1>5. ASSUME NEW c \in Callers, ApplyUpdate(c) PROVE Ids!IdNext
    <2>1. found[c] = cm /\ want[c] \in Batches
      BY <1>5 DEF ApplyUpdate, Store, IndInv, Current, Asked, Busy
    <2>2. CurrentId(cm') = CurrentId(cm) + want[c]
      BY <1>5, <2>1 DEF ApplyUpdate, Store, CurrentId
    <2>3. InHand(c) = Ids!NoBatch
      BY <1>5 DEF ApplyUpdate, InHand
    <2>4. InHand(c)' = [first |-> CurrentId(cm), n |-> want[c], by |-> nUpdates + 1]
      BY <1>t, <1>5, <2>1 DEF TypeOK, ApplyUpdate, InHand, Batch, Goto
    <2>5. \A d \in Callers \ {c} : InHand(d)' = InHand(d)
      BY <1>t, <1>5 DEF TypeOK, ApplyUpdate, InHand, Batch, Goto
    <2>6. Ids!Take(c, want[c])
      <3> HIDE DEF InHand, CurrentId
      <3>1. nUpdates' = nUpdates + 1 /\ delivered' = delivered
        BY <1>5 DEF ApplyUpdate
      <3>2. QED
        BY <2>2, <2>3, <2>4, <2>5, <3>1 DEF Ids!Take
    <2>7. QED
      BY <2>1, <2>6 DEF Ids!IdNext
  <1>6. ASSUME NEW c \in Callers, UpdateLost(c) PROVE Ids!IdNext
    <2>1. \A d \in Callers : InHand(d)' = IF d \in {c} THEN Ids!NoBatch ELSE InHand(d)
      BY <1>t, <1>6 DEF TypeOK, UpdateLost, InHand, Batch, Goto
    <2>2. QED
      BY <1>6, <2>1, LoseStep DEF UpdateLost
  <1>7. ASSUME NEW c \in Callers, ReturnIds(c) PROVE Ids!IdNext
    <2>1. InHand(c) = Batch(c) /\ Batch(c) # Ids!NoBatch
      BY <1>t, <1>7 DEF TypeOK, ReturnIds, InHand, Batch, IndInv, Tickets
    <2>2. \A d \in Callers : InHand(d)' = IF d = c THEN Ids!NoBatch ELSE InHand(d)
      BY <1>t, <1>7 DEF TypeOK, ReturnIds, InHand, Batch, Goto, Return
    <2>3. Ids!Deliver(c)
      <3>1. cm' = cm /\ nUpdates' = nUpdates /\ delivered' = delivered \cup {Batch(c)}
        BY <1>7 DEF ReturnIds
      <3> HIDE DEF InHand, CurrentId
      <3>2. QED
        BY <2>1, <2>2, <3>1 DEF Ids!Deliver
    <2>4. QED
      BY <2>3 DEF Ids!IdNext
  <1>8. ASSUME NEW g \in Generators, Restart(g) PROVE Ids!IdNext
    <2> DEFINE dead == {c \in Callers : GenOf[c] = g}
    <2>1. \A d \in Callers : InHand(d)' = IF d \in dead THEN Ids!NoBatch ELSE InHand(d)
      BY <1>t, <1>8 DEF TypeOK, Restart, InHand, Batch
    <2>2. cm' = cm /\ nUpdates' = nUpdates /\ delivered' = delivered
      BY <1>8 DEF Restart
    <2>3. QED
      BY <2>1, <2>2, LoseStep
  <1>9. ASSUME NEW r \in late, ApplyLate(r) PROVE Ids!IdNext
    <2>1. r.copy = cm /\ r.n \in Batches
      BY <1>9 DEF ApplyLate, Store, IndInv, Current, Asked
    <2>2. CurrentId(cm') = CurrentId(cm) + r.n
      BY <1>9, <2>1 DEF ApplyLate, Store, CurrentId
    <2>3. \A d \in Callers : InHand(d)' = InHand(d)
      BY <1>9 DEF ApplyLate, callVars, InHand, Batch
    <2>4. Ids!Burn(r.n)
      <3>1. nUpdates' = nUpdates /\ delivered' = delivered
        BY <1>9 DEF ApplyLate
      <3> HIDE DEF InHand, CurrentId
      <3>2. QED
        BY <2>2, <2>3, <3>1 DEF Ids!Burn
    <2>5. QED
      BY <2>1, <2>4 DEF Ids!IdNext
  <1>10. ASSUME WriteOtherEntry PROVE UNCHANGED Ids!idVars
    <2>1. CurrentId(cm') = CurrentId(cm)
      BY <1>t, <1>10 DEF WriteOtherEntry, TypeOK, ConfigMaps, CurrentId
    <2>2. \A d \in Callers : InHand(d)' = InHand(d)
      BY <1>10 DEF WriteOtherEntry, callVars, InHand, Batch
    <2>3. QED
      BY <1>10, <2>1, <2>2, Invisible DEF WriteOtherEntry
  <1>11. CASE UNCHANGED vars
    <2>1. cm' = cm /\ nUpdates' = nUpdates /\ delivered' = delivered
      BY <1>11 DEF vars
    <2>2. \A d \in Callers : InHand(d)' = InHand(d)
      BY <1>11 DEF vars, callVars, InHand, Batch
    <2>3. QED
      BY <2>1, <2>2, Invisible
  <1>12. QED
    <2>1. ASSUME NEW c \in Callers, Panic(c) PROVE Ids!IdNext
      BY <1>8, <2>1 DEF Panic
    <2>2. ASSUME NEW g \in Generators, Crash(g) PROVE Ids!IdNext
      BY <1>8, <2>2 DEF Crash
    <2>3. QED
      BY <1>1, <1>2, <1>3, <1>4, <1>5, <1>6, <1>7, <1>9, <1>10, <1>11, <2>1,
         <2>2 DEF Next, Step

\* Whatever the callers observe of the generators, IdService allows.
THEOREM Refinement == Spec => ImplementsIdService
  <1>1. Init => Ids!IdInit
    BY InitRefines
  <1>2. IndInv /\ [Next]_vars => [Ids!IdNext]_(Ids!idVars)
    BY StepRefines
  <1>3. QED
    BY <1>1, <1>2, Invariance, PTL DEF Spec, ImplementsIdService, Ids!IdSpec
=============================================================================
