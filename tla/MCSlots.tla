------------------------------- MODULE MCSlots -------------------------------
(* Three tasks before the slot gate alone, and two migrations of two       *)
(* machines that compete for one slot: here somebody always has to wait.   *)
EXTENDS SlotGate, TLC

CONSTANTS m1, m2, i1, v1, v2, t1, t2, Session, Handler, None

VARIABLES
  alone, \* whether it is the gate alone
  store, cloud, task, handler, running, cancelReq, jobSession, pins, jobGate, jobMigrating, jobLimit, restarts

jobVars == <<store, cloud, task, handler, running, cancelReq, jobSession, pins, jobGate, jobMigrating,
             jobLimit, restarts>>

Jobs == INSTANCE MCJobControl WITH
  Job <- {m1, m2}, IsoJob <- {}, Vm <- {v1, v2}, VmOf <- (m1 :> v1 @@ m2 :> v2), Task <- {t1, t2},
  Cap <- 1, Headroom <- 2, MaxRestarts <- 0,
  gate <- jobGate, migrating <- jobMigrating, limit <- jobLimit

GateStep(A) == alone /\ A /\ UNCHANGED <<alone, jobVars>>
JobStep(A) == ~alone /\ A /\ UNCHANGED <<alone, vars>>

SlotsInit == alone \in BOOLEAN /\ Init /\ (alone \/ limit = Cap) /\ Jobs!Init
SlotsNext == GateStep(Next) \/ JobStep(Jobs!ProgressNext)
SlotsSpec ==
  /\ SlotsInit /\ [][SlotsNext]_<<alone, vars, jobVars>>
  /\ GateFairness
  /\ \A t \in {t1, t2} : WF_jobVars(Jobs!TaskStep(t))

-----------------------------------------------------------------------------
(* Nobody is left at the gate: a cancelled waiter leaves the queue, and the *)
(* others get their slot, if the holders come to their end.                *)
WaitersServed == CancelledWaiterLeaves /\ WaiterAdmitted

(* Every task of the runner ends, and a migration that is cancelled before *)
(* its last check never completes afterwards, wherever it is.              *)
TasksEndAsAsked == Jobs!TasksEnd /\ Jobs!CancelHonoured
=============================================================================
