------------------------------ MODULE SlotGate ------------------------------
(***************************************************************************)
(* The migration slots of MigrationRunner (jobs/runner.py).  The thread    *)
(* pool only provides threads; how many of them migrate at the same time   *)
(* is gated by a counter under a condition variable.  _acquire_slot looks  *)
(* at the counter and, when the gate is full, sleeps on the condition with *)
(* a timeout of one second.  _release_slot and set_max_concurrent notify   *)
(* every sleeper; a cancellation notifies nobody.                          *)
(*                                                                         *)
(* A task is one call of a _run_*_safely method that takes a slot.  It     *)
(* occupies a pool thread from Arrive until it has left the gate.          *)
(***************************************************************************)
EXTENDS Naturals, FiniteSets

CONSTANTS Task,     \* the tasks that ever ask for a slot
          Cap,      \* MAX_CONCURRENT_JOBS, the largest limit the Setup page accepts
          Headroom  \* pool threads beyond Cap, "for cleanups and finalize retries"

ASSUME SlotAssumption == /\ IsFiniteSet(Task)
                         /\ Cap \in Nat \ {0}
                         /\ Headroom \in Nat

VARIABLES
  gate,       \* where each task is with respect to the gate
  migrating,  \* MigrationRunner._migrating
  limit,      \* settings.max_concurrent_jobs, as max_concurrent clamps it
  flagged     \* tasks whose job is in _cancel_requested

vars == <<gate, migrating, limit, flagged>>

(* "look": about to test the loop condition; "asleep": in _slots.wait;     *)
(* "in": holds a slot; "refused": left with JobCancelled; "done": the slot *)
(* is given back, or the process is gone.                                  *)
Places == {"idle", "look", "asleep", "in", "refused", "done"}

Holders == {t \in Task : gate[t] = "in"}
Occupied == {t \in Task : gate[t] \in {"look", "asleep", "in"}}

TypeOK ==
  /\ gate \in [Task -> Places]
  /\ migrating \in Nat
  /\ limit \in 1..Cap
  /\ flagged \subseteq Task

Init ==
  /\ gate = [t \in Task |-> "idle"]
  /\ migrating = 0
  /\ limit \in 1..Cap
  /\ flagged = {}

-----------------------------------------------------------------------------
(* A free pool thread picks the task up and calls _acquire_slot. *)
Arrive(t) ==
  /\ gate[t] = "idle"
  /\ Cardinality(Occupied) < Cap + Headroom
  /\ gate' = [gate EXCEPT ![t] = "look"]
  /\ UNCHANGED <<migrating, limit, flagged>>

(* Slip: <= for <, one migration too many. *)
TakeSlip(t) ==
  /\ gate[t] = "look"
  /\ migrating <= limit
  /\ gate' = [gate EXCEPT ![t] = "in"]
  /\ migrating' = migrating + 1
  /\ UNCHANGED <<limit, flagged>>

(* The loop condition is false: the slot is taken, cancelled or not. *)
Take(t) ==
  /\ gate[t] = "look"
  /\ migrating < limit
  /\ gate' = [gate EXCEPT ![t] = "in"]
  /\ migrating' = migrating + 1
  /\ UNCHANGED <<limit, flagged>>

(* The gate is full and the job was cancelled: JobCancelled, without a slot. *)
GiveUp(t) ==
  /\ gate[t] = "look"
  /\ migrating >= limit
  /\ t \in flagged
  /\ gate' = [gate EXCEPT ![t] = "refused"]
  /\ UNCHANGED <<migrating, limit, flagged>>

Sleep(t) ==
  /\ gate[t] = "look"
  /\ migrating >= limit
  /\ t \notin flagged
  /\ gate' = [gate EXCEPT ![t] = "asleep"]
  /\ UNCHANGED <<migrating, limit, flagged>>

Look(t) == Take(t) \/ GiveUp(t) \/ Sleep(t)

(* Slip: wait() without the timeout. *)
TimeoutSlip(t) == FALSE /\ gate[t] = "asleep" /\ UNCHANGED vars

(* _slots.wait(timeout=1.0) returns although nobody notified. *)
Timeout(t) ==
  /\ gate[t] = "asleep"
  /\ gate' = [gate EXCEPT ![t] = "look"]
  /\ UNCHANGED <<migrating, limit, flagged>>

(* notify_all *)
Notified(g) == [t \in Task |-> IF g[t] = "asleep" THEN "look" ELSE g[t]]

(* Slip: the slot is given back without notify_all. *)
ReleaseQuietSlip(t) ==
  /\ gate[t] = "in"
  /\ gate' = [gate EXCEPT ![t] = "done"]
  /\ migrating' = IF migrating > 0 THEN migrating - 1 ELSE 0
  /\ UNCHANGED <<limit, flagged>>

(* Slip: the task ends and keeps its slot. *)
ReleaseLeakSlip(t) ==
  /\ gate[t] = "in"
  /\ gate' = Notified([gate EXCEPT ![t] = "done"])
  /\ UNCHANGED <<migrating, limit, flagged>>

(* _release_slot, in the finally of the task, however the migration ended. *)
Release(t) ==
  /\ gate[t] = "in"
  /\ gate' = Notified([gate EXCEPT ![t] = "done"])
  /\ migrating' = IF migrating > 0 THEN migrating - 1 ELSE 0
  /\ UNCHANGED <<limit, flagged>>

(* Slip: a limit of zero gets through. *)
SetMaxSlip(n) ==
  /\ limit' = n - 1
  /\ gate' = Notified(gate)
  /\ UNCHANGED <<migrating, flagged>>

(* The Setup page changes the concurrency; nobody who is in is thrown out. *)
SetMax(n) ==
  /\ limit' = n
  /\ gate' = Notified(gate)
  /\ UNCHANGED <<migrating, flagged>>

(* request_cancel: the flag of a job, which all tasks of the job read, is  *)
(* set under another lock, and nobody is woken.                            *)
RequestCancel(T) ==
  /\ flagged' = flagged \cup T
  /\ UNCHANGED <<gate, migrating, limit>>

(* _finish of any task of a job discards it. *)
ForgetCancel(T) ==
  /\ flagged' = flagged \ T
  /\ UNCHANGED <<gate, migrating, limit>>

(* The service restarts: counter and flags start anew, the threads are gone. *)
Restart ==
  /\ gate' = [t \in Task |-> IF gate[t] = "idle" THEN "idle" ELSE "done"]
  /\ migrating' = 0
  /\ flagged' = {}
  /\ limit' \in 1..Cap

Next ==
  \/ \E t \in Task : \/ Arrive(t) \/ Look(t) \/ Timeout(t) \/ Release(t)
  \/ \E n \in 1..Cap : SetMax(n)
  \/ \E T \in SUBSET Task : RequestCancel(T) \/ ForgetCancel(T)
  \/ Restart

Spec == Init /\ [][Next]_vars

(* A waiting thread is scheduled and its one-second wait ends.  Nothing is *)
(* assumed of Release: a copy may hold its slot for days.                  *)
GateFairness == \A t \in Task : WF_vars(Look(t)) /\ WF_vars(Timeout(t))

FairSpec == Spec /\ GateFairness

-----------------------------------------------------------------------------
(* The counter is the number of tasks between _acquire_slot and            *)
(* _release_slot, and never above the largest limit: no error path keeps a *)
(* slot or gives one back twice, and max(0, ...) never hides a double      *)
(* release.                                                                *)
SlotAccounting == /\ migrating = Cardinality(Holders)
                  /\ migrating <= Cap

(* Nobody sleeps while there is room: a slot that comes free, or a raised  *)
(* limit, wakes the queue without waiting for the one-second timeout       *)
(* ("queued jobs start as slots open up").                                 *)
NoLostWakeup == (\E t \in Task : gate[t] = "asleep") => migrating >= limit

(* Lowering the limit interrupts nobody, and while more tasks are in than  *)
(* the limit allows nobody is let in: the set of holders only grows to at  *)
(* most the limit of that moment.                                          *)
GrowsWithinLimit ==
  [][ ~(Holders' \subseteq Holders) => Cardinality(Holders') <= limit' ]_vars

(* A cancelled job does not wait behind a full gate, however long the      *)
(* holders keep their slots: the flag is seen although it wakes nobody.    *)
CancelledWaiterLeaves ==
  \A t \in Task : []<>~(t \in flagged /\ gate[t] \in {"look", "asleep"})

(* Every holder ends some day. *)
HoldersFinish == \A t \in Task : WF_vars(Release(t))

(* If every migration ends, every waiting one gets its turn or gives up,   *)
(* whatever the Setup page does to the limit meanwhile.                    *)
WaiterAdmitted ==
  HoldersFinish => \A t \in Task :
    gate[t] \in {"look", "asleep"} ~> gate[t] \in {"in", "refused", "done"}

(* "threads for migrations (running or waiting for a slot, bounded by the  *)
(* Setup page limit) plus headroom for cleanups and finalize retries":     *)
(* migrations never occupy the headroom.                                   *)
HeadroomKept == Cardinality(Occupied) <= Cap

=============================================================================
