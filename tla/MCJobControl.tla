---------------------------- MODULE MCJobControl ----------------------------
(* Instances of JobControl: two migrations of one machine, a migration and *)
(* an ISO job, and two migrations of two machines.                         *)
EXTENDS JobControl, TLC

CONSTANTS m1, m2, i1, v1, v2, t1, t2

OwnVm == [j \in Job |-> IF j = m1 THEN v1 ELSE v2]

AlikeTasks == Permutations({t1, t2})
AlikeJobs == AlikeTasks \cup Permutations({m1, m2})

-----------------------------------------------------------------------------
(* For liveness: a user creates both migrations and cancels the second,    *)
(* which holds the slot or waits for it.  The tasks are used in a fixed    *)
(* order, which loses nothing: they are alike.  The records are not purged *)
(* and no finalize is retried here.                                        *)
UserStep(h) ==
  \/ \E j \in Job : CreateBegin(h, j)
  \/ CancelRead(h, m2)
  \/ CreatePut(h) \/ Submit(h) \/ CancelTest(h) \/ CancelFlag(h) \/ CancelNote(h)
  \/ CleanupPut(h) \/ CleanupSubmit(h)

ProgressNext ==
  /\ \/ \E h \in Handler : UserStep(h)
     \/ \E t \in Task : TaskStep(t)
  /\ (task[t2] # NoTask => task[t1] # NoTask)'

ProgressSpec ==
  /\ Init
  /\ [][ProgressNext]_vars
  /\ \A t \in Task : WF_vars(TaskStep(t))
=============================================================================
