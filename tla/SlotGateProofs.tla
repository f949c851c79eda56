--------------------------- MODULE SlotGateProofs ---------------------------
(***************************************************************************)
(* For any number of tasks and any limit: the slot counter is exact, no    *)
(* wakeup is lost, and the limit is respected at every entry.              *)
(***************************************************************************)
EXTENDS SlotGate, FiniteSetTheorems, TLAPS

(* Taking and giving back a slot change the set of holders by one task. *)
LEMMA HoldersChange ==
  ASSUME TypeOK, NEW t \in Task
  PROVE  /\ Take(t) => Holders' = Holders \cup {t} /\ t \notin Holders
         /\ Release(t) => Holders' = Holders \ {t} /\ t \in Holders
<1> USE DEF TypeOK, Holders
<1>1. ASSUME Take(t) PROVE Holders' = Holders \cup {t} /\ t \notin Holders
  BY <1>1 DEF Take
<1>2. ASSUME Release(t) PROVE Holders' = Holders \ {t} /\ t \in Holders
  BY <1>2 DEF Release, Notified
<1> QED
  BY <1>1, <1>2

(* No other step lets a task in or out, except the restart, which throws   *)
(* everybody out.                                                          *)
LEMMA HoldersSame ==
  ASSUME TypeOK
  PROVE  /\ \A t \in Task : Arrive(t) \/ GiveUp(t) \/ Sleep(t) \/ Timeout(t)
                           => Holders' = Holders
         /\ \A n \in 1..Cap : SetMax(n) => Holders' = Holders
         /\ \A T \in SUBSET Task : RequestCancel(T) \/ ForgetCancel(T) => Holders' = Holders
         /\ Restart => Holders' = {}
         /\ UNCHANGED vars => Holders' = Holders
<1> USE DEF TypeOK, Holders
<1>1. ASSUME NEW t \in Task PROVE Arrive(t) => Holders' = Holders
  BY DEF Arrive
<1>2. ASSUME NEW t \in Task PROVE GiveUp(t) => Holders' = Holders
  BY DEF GiveUp
<1>3. ASSUME NEW t \in Task PROVE Sleep(t) => Holders' = Holders
  BY DEF Sleep
<1>4. ASSUME NEW t \in Task PROVE Timeout(t) => Holders' = Holders
  BY DEF Timeout
<1>5. ASSUME NEW T \in SUBSET Task PROVE RequestCancel(T) => Holders' = Holders
  BY DEF RequestCancel
<1>6. ASSUME NEW n \in 1..Cap PROVE SetMax(n) => Holders' = Holders
  BY DEF SetMax, Notified
<1>7. ASSUME NEW T \in SUBSET Task PROVE ForgetCancel(T) => Holders' = Holders
  BY DEF ForgetCancel
<1>8. Restart => Holders' = {}
  BY DEF Restart
<1>9. UNCHANGED vars => Holders' = Holders
  BY DEF vars
<1> QED
  BY <1>1, <1>2, <1>3, <1>4, <1>5, <1>6, <1>7, <1>8, <1>9

LEMMA HoldersFinite == IsFiniteSet(Holders) /\ Cardinality(Holders) \in Nat
BY SlotAssumption, FS_Subset, FS_CardinalityType DEF Holders

(* The gate's state is well formed. *)
THEOREM GateTypeCorrect == Spec => []TypeOK
<1>1. Init => TypeOK
  BY SlotAssumption DEF Init, TypeOK, Places
<1>2. TypeOK /\ [Next]_vars => TypeOK'
  <2> SUFFICES ASSUME TypeOK, [Next]_vars PROVE TypeOK'
    OBVIOUS
  <2> USE SlotAssumption DEF TypeOK, Places
  <2>1. ASSUME NEW t \in Task, Arrive(t) PROVE TypeOK'
    BY <2>1 DEF Arrive
  <2>2. ASSUME NEW t \in Task, Take(t) PROVE TypeOK'
    BY <2>2 DEF Take
  <2>3. ASSUME NEW t \in Task, GiveUp(t) PROVE TypeOK'
    BY <2>3 DEF GiveUp
  <2>4. ASSUME NEW t \in Task, Sleep(t) PROVE TypeOK'
    BY <2>4 DEF Sleep
  <2>5. ASSUME NEW t \in Task, Timeout(t) PROVE TypeOK'
    BY <2>5 DEF Timeout
  <2>6. ASSUME NEW t \in Task, Release(t) PROVE TypeOK'
    BY <2>6 DEF Release, Notified
  <2>7. ASSUME NEW T \in SUBSET Task, RequestCancel(T) PROVE TypeOK'
    BY <2>7 DEF RequestCancel
  <2>8. ASSUME NEW n \in 1..Cap, SetMax(n) PROVE TypeOK'
    BY <2>8 DEF SetMax, Notified
  <2>9. ASSUME NEW T \in SUBSET Task, ForgetCancel(T) PROVE TypeOK'
    BY <2>9 DEF ForgetCancel
  <2>10. CASE Restart
    BY <2>10 DEF Restart
  <2>11. CASE UNCHANGED vars
    BY <2>11 DEF vars
  <2> QED
    BY <2>1, <2>2, <2>3, <2>4, <2>5, <2>6, <2>7, <2>8, <2>9, <2>10, <2>11 DEF Next, Look
<1> QED
  BY <1>1, <1>2, PTL DEF Spec

(* The accounting survives every step: a slot is counted exactly while its *)
(* task is between _acquire_slot and _release_slot.                        *)
LEMMA AccountingStep ==
  TypeOK /\ SlotAccounting /\ [Next]_vars => SlotAccounting'
<1> SUFFICES ASSUME TypeOK, SlotAccounting, [Next]_vars PROVE SlotAccounting'
  OBVIOUS
<1> USE SlotAssumption DEF TypeOK, SlotAccounting
<1>1. ASSUME NEW t \in Task, Take(t) PROVE SlotAccounting'
  <2>1. Cardinality(Holders') = Cardinality(Holders) + 1
    BY <1>1, HoldersChange, HoldersFinite, FS_AddElement
  <2>2. migrating' = migrating + 1 /\ migrating < limit
    BY <1>1 DEF Take
  <2> QED
    BY <2>1, <2>2
<1>2. ASSUME NEW t \in Task, Release(t) PROVE SlotAccounting'
  <2>1. Cardinality(Holders') = Cardinality(Holders) - 1
    BY <1>2, HoldersChange, HoldersFinite, FS_RemoveElement
  <2>2. Cardinality(Holders) > 0
    BY <1>2, HoldersChange, HoldersFinite, FS_EmptySet
  <2>3. migrating' = migrating - 1
    BY <1>2, <2>2 DEF Release
  <2> QED
    BY <2>1, <2>2, <2>3
<1>3. CASE Restart
  <2>1. Cardinality(Holders') = 0
    BY <1>3, HoldersSame, FS_EmptySet
  <2> QED
    BY <1>3, <2>1 DEF Restart
<1>4. ASSUME Holders' = Holders, migrating' = migrating PROVE SlotAccounting'
  BY <1>4
<1>5. ASSUME NEW t \in Task, Arrive(t) \/ GiveUp(t) \/ Sleep(t) \/ Timeout(t)
      PROVE  SlotAccounting'
  BY <1>4, <1>5, HoldersSame DEF Arrive, GiveUp, Sleep, Timeout
<1>6. ASSUME NEW n \in 1..Cap, SetMax(n) PROVE SlotAccounting'
  BY <1>4, <1>6, HoldersSame DEF SetMax
<1>7. ASSUME NEW T \in SUBSET Task, RequestCancel(T) \/ ForgetCancel(T)
      PROVE  SlotAccounting'
  BY <1>4, <1>7, HoldersSame DEF RequestCancel, ForgetCancel
<1>8. CASE UNCHANGED vars
  BY <1>4, <1>8, HoldersSame DEF vars
<1> QED
  BY <1>1, <1>2, <1>3, <1>5, <1>6, <1>7, <1>8 DEF Next, Look

(* No path through a task leaks a slot or returns one twice. *)
THEOREM SlotsExact == Spec => []SlotAccounting
<1>1. Init => SlotAccounting
  <2> SUFFICES ASSUME Init PROVE SlotAccounting
    OBVIOUS
  <2>1. Holders = {}
    BY DEF Init, Holders
  <2> QED
    BY <2>1, FS_EmptySet, SlotAssumption DEF Init, SlotAccounting
<1> QED
  BY <1>1, AccountingStep, GateTypeCorrect, PTL DEF Spec

(* No task sleeps while a slot is free. *)
THEOREM WakeupsKept == Spec => []NoLostWakeup
<1>1. Init => NoLostWakeup
  BY DEF Init, NoLostWakeup
<1>2. TypeOK /\ NoLostWakeup /\ [Next]_vars => NoLostWakeup'
  <2> SUFFICES ASSUME TypeOK, NoLostWakeup, [Next]_vars PROVE NoLostWakeup'
    OBVIOUS
  <2> USE SlotAssumption DEF TypeOK, NoLostWakeup
  <2>1. ASSUME NEW t \in Task, Arrive(t) PROVE NoLostWakeup'
    BY <2>1 DEF Arrive
  <2>2. ASSUME NEW t \in Task, Take(t) PROVE NoLostWakeup'
    BY <2>2 DEF Take
  <2>3. ASSUME NEW t \in Task, GiveUp(t) PROVE NoLostWakeup'
    BY <2>3 DEF GiveUp
  <2>4. ASSUME NEW t \in Task, Sleep(t) PROVE NoLostWakeup'
    BY <2>4 DEF Sleep
  <2>5. ASSUME NEW t \in Task, Timeout(t) PROVE NoLostWakeup'
    BY <2>5 DEF Timeout
  <2>6. ASSUME NEW t \in Task, Release(t) PROVE NoLostWakeup'
    BY <2>6 DEF Release, Notified
  <2>7. ASSUME NEW T \in SUBSET Task, RequestCancel(T) PROVE NoLostWakeup'
    BY <2>7 DEF RequestCancel
  <2>8. ASSUME NEW n \in 1..Cap, SetMax(n) PROVE NoLostWakeup'
    BY <2>8 DEF SetMax, Notified
  <2>9. ASSUME NEW T \in SUBSET Task, ForgetCancel(T) PROVE NoLostWakeup'
    BY <2>9 DEF ForgetCancel
  <2>10. CASE Restart
    BY <2>10 DEF Restart
  <2>11. CASE UNCHANGED vars
    BY <2>11 DEF vars
  <2> QED
    BY <2>1, <2>2, <2>3, <2>4, <2>5, <2>6, <2>7, <2>8, <2>9, <2>10, <2>11 DEF Next, Look
<1> QED
  BY <1>1, <1>2, GateTypeCorrect, PTL DEF Spec

(* The set of holders only grows while it is below the limit. *)
THEOREM EntriesWithinLimit == Spec => GrowsWithinLimit
<1>1. TypeOK /\ SlotAccounting /\ [Next]_vars
        => [~(Holders' \subseteq Holders) => Cardinality(Holders') <= limit']_vars
  <2> SUFFICES ASSUME TypeOK, SlotAccounting, Next, ~(Holders' \subseteq Holders)
               PROVE  Cardinality(Holders') <= limit'
    OBVIOUS
  <2>1. PICK t \in Task : Take(t)
    BY HoldersSame, HoldersChange DEF Next, Look
  <2>2. Cardinality(Holders') = migrating + 1
    BY <2>1, HoldersChange, HoldersFinite, FS_AddElement DEF SlotAccounting
  <2>3. limit' = limit /\ migrating < limit
    BY <2>1 DEF Take
  <2> QED
    BY <2>2, <2>3, SlotAssumption DEF TypeOK
<1> QED
  BY <1>1, GateTypeCorrect, SlotsExact, PTL DEF Spec, GrowsWithinLimit
=============================================================================
