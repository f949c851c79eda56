----------------------------- MODULE JobControl -----------------------------
(***************************************************************************)
(* Who works on a job, and what its record says: MigrationRunner           *)
(* (jobs/runner.py), the SQLite records (jobs/store.py) and the handlers   *)
(* of the job API (api/routes_jobs.py, api/routes_setup.py).               *)
(*                                                                         *)
(* Three kinds of actors share the records.  A pool thread runs a task: it *)
(* reads the record once, works on that copy and writes the whole copy     *)
(* back after every step.  A handler reads a copy, asks the runner, and    *)
(* writes its copy back.  A restart of the service ends them all.  Each    *)
(* read, each write, each look at the runner's sets is a step of its own.  *)
(*                                                                         *)
(* The slots are those of SlotGate; a session is only the set of its pins, *)
(* its life is in Sessions.  What prepare, the copy and finalize do inside *)
(* OCI is reduced to the life of the target instance.                      *)
(***************************************************************************)
EXTENDS Naturals, FiniteSets

CONSTANTS Job, IsoJob,     \* jobs, and those of kind "iso"
          Vm, VmOf,        \* source machines, and the one each job migrates
          Session,         \* logged-in sessions
          Task,            \* calls of _run_*_safely, _cleanup_safely, _finalize_safely
          Handler,         \* API requests served at the same time
          Cap, Headroom,   \* as in SlotGate
          MaxRestarts,     \* bound on the restarts of the service
          None             \* no job, record or session

ASSUME JobAssumption == /\ IsoJob \subseteq Job
                        /\ VmOf \in [Job -> Vm]
                        /\ None \notin Job \cup Session
                        /\ IsFiniteSet(Task)
                        /\ Cap \in Nat \ {0}
                        /\ Headroom \in Nat
                        /\ MaxRestarts \in Nat

VARIABLES
  store,       \* the jobs table: a record, or None
  cloud,       \* the target instance in OCI, as it is
  task,        \* the runner's tasks, each with its copy of the record
  handler,     \* the requests in flight, each with its copy
  running,     \* MigrationRunner._running
  cancelReq,   \* MigrationRunner._cancel_requested
  jobSession,  \* MigrationRunner._sessions
  pins,        \* UserSession._pins
  gate, migrating, limit,  \* the slot gate
  restarts

records == <<store, cloud>>
runner == <<running, cancelReq, jobSession, pins>>
slots == <<gate, migrating, limit>>
vars == <<records, task, handler, runner, slots, restarts>>

Flagged == {t \in Task : task[t].job \in cancelReq}
Gate == INSTANCE SlotGate WITH flagged <- Flagged

Terminal == {"COMPLETED", "FAILED", "CANCELLED"}
Phases == Terminal \cup {"QUEUED", "PROVISIONING", "EXPORTING", "FINALIZING", "INSTALLING"}

(* What the properties tell apart of a Job: its phase, whether instance_id *)
(* is recorded, and whether every disk is COPIED.                          *)
Doc == [phase : Phases, inst : BOOLEAN, copied : BOOLEAN]

(* No record at all is none of them. *)
ASSUME NoRecordAssumption == None \notin Doc

NewDoc == [phase |-> "QUEUED", inst |-> FALSE, copied |-> FALSE]

(* Where a task is. *)
WorkPlaces == {"begin", "provision", "launched", "ready", "export", "copied", "finalize",
               "served"}
TaskPlaces == WorkPlaces \cup {"idle", "pool", "gate", "waiting", "saved", "note", "clean",
                               "torn", "release", "finish", "ended", "completed"}
HandlerPlaces == {"idle", "create", "submit", "test", "flag", "note", "clean", "cleanup",
                  "ftest", "fput", "finalize", "complete"}

Kinds == {"run", "iso", "cleanup", "finalize"}

NoTask == [kind |-> "none", job |-> None, at |-> "idle", doc |-> None]
NoRequest == [at |-> "idle", job |-> None, doc |-> None, sess |-> None]

TaskState == [kind : Kinds \cup {"none"}, job : Job \cup {None},
              at : TaskPlaces, doc : Doc \cup {None}]
Request == [at : HandlerPlaces, job : Job \cup {None},
            doc : Doc \cup {None}, sess : Session \cup {None}]

(* A task has a job from Enqueue on, and its copy from Start to Finish. *)
TasksTyped ==
  /\ task \in [Task -> TaskState]
  /\ \A t \in Task :
       /\ task[t].at # "idle" => task[t].job \in Job /\ task[t].kind \in Kinds
       /\ task[t].at \notin {"idle", "pool", "finish", "ended", "completed"} => task[t].doc \in Doc

(* A request has its copy from the read on. *)
RequestsTyped ==
  /\ handler \in [Handler -> Request]
  /\ \A h \in Handler :
       /\ handler[h].at # "idle" => handler[h].job \in Job
       /\ handler[h].at \notin {"idle", "create", "submit"} => handler[h].doc \in Doc

RecordsTyped ==
  /\ store \in [Job -> Doc \cup {None}]
  /\ cloud \in [Job -> {"none", "placeholder", "serving", "gone"}]

RunnerTyped ==
  /\ running \subseteq Job
  /\ cancelReq \subseteq Job
  /\ jobSession \in [Job -> Session \cup {None}]
  /\ pins \in [Session -> SUBSET Job]

SlotsTyped ==
  /\ gate \in [Task -> Gate!Places]
  /\ migrating \in Nat
  /\ limit \in 1..Cap

TypeOK == /\ RecordsTyped /\ TasksTyped /\ RequestsTyped /\ RunnerTyped /\ SlotsTyped
          /\ restarts \in 0..MaxRestarts

Live == {t \in Task : task[t].at \notin {"idle", "ended", "completed"}}
OnJob(j) == {t \in Live : task[t].job = j}

Init ==
  /\ store = [j \in Job |-> None]
  /\ cloud = [j \in Job |-> "none"]
  /\ task = [t \in Task |-> NoTask]
  /\ handler = [h \in Handler |-> NoRequest]
  /\ running = {}
  /\ cancelReq = {}
  /\ jobSession = [j \in Job |-> None]
  /\ pins = [s \in Session |-> {}]
  /\ Gate!Init
  /\ restarts = 0

-----------------------------------------------------------------------------
(* The records (jobs/store.py). *)

(* put: INSERT OR REPLACE of the whole document *)
Put(j, doc) == store' = [store EXCEPT ![j] = doc]

(* Slip: only the jobs that were not started yet are looked at. *)
ActiveForVmSlip(v) == \E j \in Job : /\ VmOf[j] = v
                                     /\ store[j] # None
                                     /\ store[j].phase = "QUEUED"

(* active_for_vm *)
ActiveForVm(v) == \E j \in Job : /\ VmOf[j] = v
                                 /\ store[j] # None
                                 /\ store[j].phase \notin Terminal

(* Slip: the phase is not looked at. *)
DeleteFinishedSlip(P) ==
  store' = [j \in Job |-> None]

(* delete_finished *)
DeleteFinished(P) ==
  store' = [j \in Job |-> IF store[j] # None /\ store[j].phase \in P \cap Terminal
                          THEN None ELSE store[j]]

(* purge_jobs: "failed" or "all" *)
Purge(P) ==
  /\ DeleteFinished(P)
  /\ UNCHANGED <<cloud, task, handler, runner, slots, restarts>>

-----------------------------------------------------------------------------
(* Handing a task to the pool.  The pool thread may start at once. *)
Enqueue(kind, j) ==
  \E t \in Task :
    /\ task[t] = NoTask
    /\ task' = [task EXCEPT ![t] = [kind |-> kind, job |-> j, at |-> "pool", doc |-> None]]

Pin(j, s) ==
  /\ jobSession' = [jobSession EXCEPT ![j] = s]
  /\ pins' = [pins EXCEPT ![s] = @ \cup {j}]

Goto(h, at) == handler' = [handler EXCEPT ![h].at = at]
Answer(h) == handler' = [handler EXCEPT ![h] = NoRequest]

(* A new job has a new id. *)
Fresh(j) == /\ store[j] = None
            /\ \A t \in Task : task[t].job # j
            /\ \A h \in Handler : handler[h].job # j

(* create_job and its variants: the session is checked, then the source is *)
(* inspected.                                                              *)
CreateBegin(h, j) ==
  /\ handler[h].at = "idle"
  /\ Fresh(j)
  /\ \E s \in (IF j \in IsoJob THEN {None} ELSE Session) :
       handler' = [handler EXCEPT ![h] =
                     [at |-> "create", job |-> j, doc |-> None, sess |-> s]]
  /\ UNCHANGED <<records, task, runner, slots, restarts>>

(* The check for another job of the machine and the put have no await in   *)
(* between; the 409 leaves nothing.                                        *)
CreatePut(h) ==
  LET j == handler[h].job IN
  /\ handler[h].at = "create"
  /\ IF j \notin IsoJob /\ ActiveForVm(VmOf[j])
     THEN Answer(h) /\ UNCHANGED store
     ELSE Goto(h, "submit") /\ Put(j, NewDoc)
  /\ UNCHANGED <<cloud, task, runner, slots, restarts>>

(* runner.submit pins the session first; submit_iso has none. *)
Submit(h) ==
  LET j == handler[h].job
      s == handler[h].sess IN
  /\ handler[h].at = "submit"
  /\ IF s = None THEN UNCHANGED <<jobSession, pins>> ELSE Pin(j, s)
  /\ running' = running \cup {j}
  /\ Enqueue(IF j \in IsoJob THEN "iso" ELSE "run", j)
  /\ Answer(h)
  /\ UNCHANGED <<records, cancelReq, slots, restarts>>

(* Slip: the endpoint takes completed jobs too. *)
CancelReadSlip(h, j) ==
  /\ handler[h].at = "idle"
  /\ store[j] # None
  /\ handler' = [handler EXCEPT ![h] =
                   [at |-> "test", job |-> j, doc |-> store[j], sess |-> None]]
  /\ UNCHANGED <<records, task, runner, slots, restarts>>

(* cancel_job reads the record; a COMPLETED one is refused. *)
CancelRead(h, j) ==
  /\ handler[h].at = "idle"
  /\ store[j] # None
  /\ store[j].phase # "COMPLETED"
  /\ handler' = [handler EXCEPT ![h] =
                   [at |-> "test", job |-> j, doc |-> store[j], sess |-> None]]
  /\ UNCHANGED <<records, task, runner, slots, restarts>>

(* Slip: a running job is handed to the cleanup. *)
CancelTestSlip(h) ==
  /\ handler[h].at = "test"
  /\ Goto(h, "clean")
  /\ UNCHANGED <<records, task, runner, slots, restarts>>

(* is_running *)
CancelTest(h) ==
  /\ handler[h].at = "test"
  /\ Goto(h, IF handler[h].job \in running THEN "flag" ELSE "clean")
  /\ UNCHANGED <<records, task, runner, slots, restarts>>

(* request_cancel *)
CancelFlag(h) ==
  /\ handler[h].at = "flag"
  /\ cancelReq' = cancelReq \cup {handler[h].job}
  /\ Goto(h, "note")
  /\ UNCHANGED <<records, task, running, jobSession, pins, slots, restarts>>

(* "Cancellation requested" is written into the handler's own copy, and    *)
(* the copy is put.                                                        *)
CancelNote(h) ==
  /\ handler[h].at = "note"
  /\ Put(handler[h].job, handler[h].doc)
  /\ Answer(h)
  /\ UNCHANGED <<cloud, task, runner, slots, restarts>>

(* Nobody runs the job: step = "cancel_queued", put ... *)
CleanupPut(h) ==
  /\ handler[h].at = "clean"
  /\ Put(handler[h].job, handler[h].doc)
  /\ Goto(h, "cleanup")
  /\ UNCHANGED <<cloud, task, runner, slots, restarts>>

(* ... and runner.cleanup, with the session of the request if it has a     *)
(* login of the job's source.                                              *)
CleanupSubmit(h) ==
  LET j == handler[h].job IN
  /\ handler[h].at = "cleanup"
  /\ UNCHANGED <<jobSession, pins>> \/ \E s \in Session : Pin(j, s)
  /\ running' = running \cup {j}
  /\ Enqueue("cleanup", j)
  /\ Answer(h)
  /\ UNCHANGED <<records, cancelReq, slots, restarts>>

(* can_resume_finalize *)
CanResumeFinalize(doc) == doc.phase = "FAILED" /\ doc.inst /\ doc.copied

(* The finalize endpoint reads the record; one that cannot resume is       *)
(* refused ...                                                             *)
FinalizeRead(h, j) ==
  /\ handler[h].at = "idle"
  /\ store[j] # None
  /\ CanResumeFinalize(store[j])
  /\ handler' = [handler EXCEPT ![h] =
                   [at |-> "ftest", job |-> j, doc |-> store[j], sess |-> None]]
  /\ UNCHANGED <<records, task, runner, slots, restarts>>

(* ... and so is a job that is running.      *)
FinalizeTest(h) ==
  /\ handler[h].at = "ftest"
  /\ IF handler[h].job \notin running THEN Goto(h, "fput") ELSE Answer(h)
  /\ UNCHANGED <<records, task, runner, slots, restarts>>

(* It puts its copy with the step "finalize_queued" ... *)
FinalizePut(h) ==
  /\ handler[h].at = "fput"
  /\ Put(handler[h].job, handler[h].doc)
  /\ Goto(h, "finalize")
  /\ UNCHANGED <<cloud, task, runner, slots, restarts>>

(* ... and hands the job to the pool. *)
FinalizeSubmit(h) ==
  /\ handler[h].at = "finalize"
  /\ running' = running \cup {handler[h].job}
  /\ Enqueue("finalize", handler[h].job)
  /\ Answer(h)
  /\ UNCHANGED <<records, cancelReq, jobSession, pins, slots, restarts>>

(* finish_installation: the user reports an ISO installation as done. *)
FinishRead(h, j) ==
  /\ handler[h].at = "idle"
  /\ j \in IsoJob
  /\ store[j] # None
  /\ store[j].phase = "INSTALLING"
  /\ handler' = [handler EXCEPT ![h] =
                   [at |-> "complete", job |-> j, doc |-> store[j], sess |-> None]]
  /\ UNCHANGED <<records, task, runner, slots, restarts>>

(* IsoInstaller.finish *)
FinishPut(h) ==
  /\ handler[h].at = "complete"
  /\ Put(handler[h].job, [handler[h].doc EXCEPT !.phase = "COMPLETED"])
  /\ Answer(h)
  /\ UNCHANGED <<cloud, task, runner, slots, restarts>>

-----------------------------------------------------------------------------
(* The pool threads. *)
Step(t, at, doc) == task' = [task EXCEPT ![t].at = at, ![t].doc = doc]

(* _save: the task's copy, with a new phase, replaces the record. *)
Save(t, at, doc) == Step(t, at, doc) /\ Put(task[t].job, doc)

Uncancelled(t) == task[t].job \notin cancelReq

FirstPlace(kind) == CASE kind = "run" -> "gate"
                      [] kind = "cleanup" -> "clean"
                      [] OTHER -> "begin"

(* A pool thread is free. *)
ThreadFree == Cardinality({t \in Live : task[t].at # "pool"}) < Cap + Headroom

(* Slip: the record is used without a look whether it is still there. *)
StartSlip(t) ==
  /\ task[t].at = "pool"
  /\ ThreadFree
  /\ UNCHANGED <<records, handler, runner, restarts>>
  /\ Step(t, FirstPlace(task[t].kind), store[task[t].job])
  /\ IF task[t].kind = "run" THEN Gate!Arrive(t) ELSE UNCHANGED slots

(* A thread picks the task up and reads the record; without one it ends.   *)
Start(t) ==
  LET j == task[t].job IN
  /\ task[t].at = "pool"
  /\ ThreadFree
  /\ UNCHANGED <<records, handler, runner, restarts>>
  /\ IF store[j] = None
     THEN Step(t, "finish", None) /\ UNCHANGED slots
     ELSE /\ Step(t, FirstPlace(task[t].kind), store[j])
          /\ IF task[t].kind = "run" THEN Gate!Arrive(t) ELSE UNCHANGED slots

(* _acquire_slot: a full gate is waited for, and the first wait is noted   *)
(* in the record ...                                                       *)
WaitForSlot(t) ==
  /\ task[t].at \in {"gate", "waiting"}
  /\ IF task[t].at = "gate" THEN Save(t, "waiting", task[t].doc) ELSE UNCHANGED <<task, store>>
  /\ UNCHANGED <<cloud, handler, runner, restarts>>
  /\ Gate!Sleep(t)

Wake(t) ==
  /\ UNCHANGED <<records, task, handler, runner, restarts>>
  /\ Gate!Timeout(t)

(* Slip: the full gate is tested once, with if instead of while. *)
TakeSlotSlip(t) ==
  /\ task[t].at \in {"gate", "waiting"}
  /\ task[t].at = "gate" => migrating < limit
  /\ gate[t] = "look"
  /\ Step(t, "begin", task[t].doc)
  /\ gate' = [gate EXCEPT ![t] = "in"]
  /\ migrating' = migrating + 1
  /\ UNCHANGED <<limit, records, handler, runner, restarts>>

(* ... until there is a slot ... *)
TakeSlot(t) ==
  /\ task[t].at \in {"gate", "waiting"}
  /\ Step(t, "begin", task[t].doc)
  /\ UNCHANGED <<records, handler, runner, restarts>>
  /\ Gate!Take(t)

(* ... or the job is cancelled. *)
GiveUpSlot(t) ==
  /\ task[t].at \in {"gate", "waiting"}
  /\ Step(t, "note", task[t].doc)
  /\ UNCHANGED <<records, handler, runner, restarts>>
  /\ Gate!GiveUp(t)

(* A migration or ISO job: PROVISIONING is saved.  A migration whose       *)
(* session another task has popped fails here.                             *)
Provision(t) ==
  /\ task[t].at = "begin"
  /\ task[t].kind \in {"run", "iso"}
  /\ task[t].kind = "run" => jobSession[task[t].job] # None
  /\ Save(t, "provision", [task[t].doc EXCEPT !.phase = "PROVISIONING"])
  /\ UNCHANGED <<cloud, handler, runner, slots, restarts>>

(* prepare, IsoInstaller.run: LaunchInstance returns ... *)
Launch(t) ==
  /\ task[t].at = "provision"
  /\ Uncancelled(t)
  /\ cloud' = [cloud EXCEPT ![task[t].job] = "placeholder"]
  /\ Step(t, "launched", task[t].doc)
  /\ UNCHANGED <<store, handler, runner, slots, restarts>>

(* ... and instance_id is saved. *)
Recorded(t) ==
  /\ task[t].at = "launched"
  /\ Save(t, "ready", [task[t].doc EXCEPT !.inst = TRUE])
  /\ UNCHANGED <<cloud, handler, runner, slots, restarts>>

(* An ISO job is handed over to the user. *)
HandOver(t) ==
  /\ task[t].at = "ready"
  /\ task[t].kind = "iso"
  /\ Save(t, "finish", [task[t].doc EXCEPT !.phase = "INSTALLING"])
  /\ UNCHANGED <<cloud, handler, runner, slots, restarts>>

(* EXPORTING is saved and the disks are copied ... *)
Export(t) ==
  /\ task[t].at = "ready"
  /\ task[t].kind = "run"
  /\ Uncancelled(t)
  /\ Save(t, "export", [task[t].doc EXCEPT !.phase = "EXPORTING"])
  /\ UNCHANGED <<cloud, handler, runner, slots, restarts>>

(* ... until each of them is COPIED. *)
Copied(t) ==
  /\ task[t].at = "export"
  /\ Uncancelled(t)
  /\ Save(t, "copied", [task[t].doc EXCEPT !.copied = TRUE])
  /\ UNCHANGED <<cloud, handler, runner, slots, restarts>>

(* Slip: no look at the flag before the guest fix-up. *)
FinalizeSlip(t) ==
  /\ \/ task[t].at = "copied"
     \/ task[t].at = "begin" /\ task[t].kind = "finalize"
  /\ Save(t, "finalize", [task[t].doc EXCEPT !.phase = "FINALIZING"])
  /\ UNCHANGED <<cloud, handler, runner, slots, restarts>>

(* The last look at the flag, then the guest fix-up and finalize; a resumed *)
(* finalize starts here and never looks.                                    *)
Finalize(t) ==
  /\ \/ task[t].at = "copied" /\ Uncancelled(t)
     \/ task[t].at = "begin" /\ task[t].kind = "finalize"
  /\ Save(t, "finalize", [task[t].doc EXCEPT !.phase = "FINALIZING"])
  /\ UNCHANGED <<cloud, handler, runner, slots, restarts>>

(* The volumes are attached and the guest starts, if the instance exists. *)
Serve(t) ==
  LET j == task[t].job IN
  /\ task[t].at = "finalize"
  /\ cloud[j] \in {"placeholder", "serving"}
  /\ cloud' = [cloud EXCEPT ![j] = "serving"]
  /\ Step(t, "served", task[t].doc)
  /\ UNCHANGED <<store, handler, runner, slots, restarts>>

Ending(t) == IF gate[t] = "in" THEN "release" ELSE "finish"

(* finalize saves COMPLETED ... *)
Complete(t) ==
  /\ task[t].at = "served"
  /\ Save(t, "saved", [task[t].doc EXCEPT !.phase = "COMPLETED"])
  /\ UNCHANGED <<cloud, handler, runner, slots, restarts>>

(* ... and the runner saves the record again with its last message. *)
SaveMessage(t) ==
  /\ task[t].at = "saved"
  /\ Save(t, Ending(t), task[t].doc)
  /\ UNCHANGED <<cloud, handler, runner, slots, restarts>>

(* An exception anywhere: FAILED. *)
Fail(t) ==
  /\ task[t].at \in WorkPlaces
  /\ Save(t, Ending(t), [task[t].doc EXCEPT !.phase = "FAILED"])
  /\ UNCHANGED <<cloud, handler, runner, slots, restarts>>

(* JobCancelled at one of the checks.  The last one of a migration is      *)
(* before the guest fix-up, that of an ISO job before the launch.          *)
Cancelled(t) ==
  /\ task[t].at \in (IF task[t].kind = "run" THEN {"provision", "ready", "export", "copied"}
                                             ELSE {"provision"})
  /\ ~Uncancelled(t)
  /\ Step(t, "note", task[t].doc)
  /\ UNCHANGED <<records, handler, runner, slots, restarts>>

(* "Cancelled; cleaning up OCI resources" *)
NoteCancel(t) ==
  /\ task[t].at = "note"
  /\ Save(t, "clean", task[t].doc)
  /\ UNCHANGED <<cloud, handler, runner, slots, restarts>>

(* cleanup, best effort: the recorded instance is terminated, or that      *)
(* fails and is only reported.                                             *)
TearDown(t) ==
  LET j == task[t].job IN
  /\ task[t].at = "clean"
  /\ \/ UNCHANGED cloud
     \/ /\ task[t].doc.inst
        /\ cloud[j] \in {"placeholder", "serving"}
        /\ cloud' = [cloud EXCEPT ![j] = "gone"]
  /\ Step(t, "torn", task[t].doc)
  /\ UNCHANGED <<store, handler, runner, slots, restarts>>

(* The cleanup always ends in CANCELLED. *)
SaveCancelled(t) ==
  /\ task[t].at = "torn"
  /\ Save(t, Ending(t), [task[t].doc EXCEPT !.phase = "CANCELLED"])
  /\ UNCHANGED <<cloud, handler, runner, slots, restarts>>

(* Slip: a cancelled run keeps its slot. *)
ReleaseSlotSlip(t) ==
  /\ task[t].at = "release"
  /\ Step(t, "finish", task[t].doc)
  /\ UNCHANGED <<records, handler, runner, slots, restarts>>

(* finally: _release_slot ... *)
ReleaseSlot(t) ==
  /\ task[t].at = "release"
  /\ Step(t, "finish", task[t].doc)
  /\ UNCHANGED <<records, handler, runner, restarts>>
  /\ Gate!Release(t)

(* Of a task that is over only the outcome is kept. *)
Depart(t) ==
  Step(t, IF task[t].doc # None /\ task[t].doc.phase = "COMPLETED" THEN "completed" ELSE "ended",
       None)

(* Slip: the session stays pinned. *)
FinishSlip(t) ==
  LET j == task[t].job IN
  /\ task[t].at = "finish"
  /\ Depart(t)
  /\ running' = running \ {j}
  /\ cancelReq' = cancelReq \ {j}
  /\ jobSession' = [jobSession EXCEPT ![j] = None]
  /\ UNCHANGED <<records, handler, pins, slots, restarts>>

(* Slip: the job stays in _running. *)
FinishRunningSlip(t) ==
  LET j == task[t].job
      s == jobSession[j] IN
  /\ task[t].at = "finish"
  /\ Depart(t)
  /\ cancelReq' = cancelReq \ {j}
  /\ jobSession' = [jobSession EXCEPT ![j] = None]
  /\ pins' = IF s = None THEN pins ELSE [pins EXCEPT ![s] = @ \ {j}]
  /\ UNCHANGED <<records, handler, running, slots, restarts>>

(* ... and _finish, which drops everything the runner keeps about the job. *)
Finish(t) ==
  LET j == task[t].job
      s == jobSession[j] IN
  /\ task[t].at = "finish"
  /\ Depart(t)
  /\ running' = running \ {j}
  /\ cancelReq' = cancelReq \ {j}
  /\ jobSession' = [jobSession EXCEPT ![j] = None]
  /\ pins' = IF s = None THEN pins ELSE [pins EXCEPT ![s] = @ \ {j}]
  /\ UNCHANGED <<records, handler, slots, restarts>>

-----------------------------------------------------------------------------
(* The service stops at any point and starts again: fail_stale_jobs marks  *)
(* every active job FAILED but the ISO jobs that wait for their user.      *)
Restart ==
  /\ restarts < MaxRestarts
  /\ restarts' = restarts + 1
  /\ store' = [j \in Job |->
                 IF store[j] # None /\ store[j].phase \notin Terminal \cup {"INSTALLING"}
                 THEN [store[j] EXCEPT !.phase = "FAILED"] ELSE store[j]]
  /\ task' = [t \in Task |-> IF t \in Live THEN [task[t] EXCEPT !.at = "ended", !.doc = None]
                                         ELSE task[t]]
  /\ handler' = [h \in Handler |-> NoRequest]
  /\ running' = {}
  /\ cancelReq' = {}
  /\ jobSession' = [j \in Job |-> None]
  /\ pins' = [s \in Session |-> {}]
  /\ UNCHANGED cloud
  /\ Gate!Restart

(* The Setup page *)
SetMax(n) ==
  /\ UNCHANGED <<records, task, handler, runner, restarts>>
  /\ Gate!SetMax(n)

HandlerStep(h) ==
  \/ \E j \in Job : \/ CreateBegin(h, j) \/ CancelRead(h, j) \/ FinalizeRead(h, j)
                    \/ FinishRead(h, j)
  \/ CreatePut(h) \/ Submit(h) \/ CancelTest(h) \/ CancelFlag(h) \/ CancelNote(h)
  \/ CleanupPut(h) \/ CleanupSubmit(h) \/ FinalizeTest(h) \/ FinalizePut(h)
  \/ FinalizeSubmit(h) \/ FinishPut(h)

TaskStep(t) ==
  \/ Start(t) \/ WaitForSlot(t) \/ Wake(t) \/ TakeSlot(t) \/ GiveUpSlot(t) \/ Provision(t)
  \/ Launch(t) \/ Recorded(t) \/ HandOver(t) \/ Export(t) \/ Copied(t) \/ Finalize(t)
  \/ Serve(t) \/ Complete(t) \/ SaveMessage(t) \/ Fail(t) \/ Cancelled(t) \/ NoteCancel(t) \/ TearDown(t)
  \/ SaveCancelled(t) \/ ReleaseSlot(t) \/ Finish(t)

Next ==
  \/ \E h \in Handler : HandlerStep(h)
  \/ \E t \in Task : TaskStep(t)
  \/ \E P \in {{"FAILED", "CANCELLED"}, Terminal} : Purge(P)
  \/ \E n \in 1..Cap : SetMax(n)
  \/ Restart

Spec == Init /\ [][Next]_vars

FairSpec == Spec /\ \A t \in Task : WF_vars(TaskStep(t))

-----------------------------------------------------------------------------
(* The runner's bookkeeping. *)

(* _running names exactly the jobs some pool thread has in hand: neither   *)
(* an error path nor a purged record leaves a job "running" that nobody    *)
(* runs, which no request could ever cancel or clean up again.             *)
RunningIsLive == running = {task[t].job : t \in Live}

(* The half of it that holds whatever requests overlap: no job stays       *)
(* "running" that nobody runs.                                             *)
RunningHasTask == running \subseteq {task[t].job : t \in Live}

(* Two threads never work on one job: its resources are not torn down      *)
(* while they are built.  "Tear down the OCI resources of a job that is    *)
(* not running", says cleanup.                                             *)
OneTaskPerJob == \A j \in Job : Cardinality(OnJob(j)) <= 1

(* A migration keeps the session it was started from pinned for as long as *)
(* it runs, and a session is pinned by nobody else, so a dead session's    *)
(* connection closes when its last job ends, and not before.               *)
PinsFollowTasks ==
  /\ \A t \in Live : task[t].kind = "run" =>
       jobSession[task[t].job] # None /\ task[t].job \in pins[jobSession[task[t].job]]
  /\ \A s \in Session : \A j \in pins[s] : jobSession[j] = s /\ OnJob(j) # {}

(* What the runner has noted down agrees with what its threads do: the     *)
(* jobs it takes for running are those that run, by one thread each, and   *)
(* the sessions pinned are theirs.                                         *)
BookkeepingAgrees == RunningIsLive /\ OneTaskPerJob /\ PinsFollowTasks

-----------------------------------------------------------------------------
(* The records. *)

(* The migrations and ISO jobs whose last phase is still to be saved. *)
AtWork == {t \in Live : /\ task[t].kind \in {"run", "iso"}
                        /\ task[t].at \notin {"saved", "release", "finish"}}

(* A migration whose record says COMPLETED has an instance that serves: no *)
(* cancel, retry or restart takes it away.                                 *)
CompletedIsServing ==
  \A j \in Job \ IsoJob : (store[j] # None /\ store[j].phase = "COMPLETED") =>
    cloud[j] = "serving"

(* "the job completes (the instance stays)", says finish_installation of   *)
(* an ISO job.                                                             *)
FinishedInstanceStays ==
  \A j \in IsoJob : (store[j] # None /\ store[j].phase = "COMPLETED") =>
    cloud[j] = "placeholder"

(* From the moment a migration or an ISO job is handed to the pool until   *)
(* its last phase is saved, its record exists and is not terminal:         *)
(* "Running or queued jobs are never deleted".                             *)
WorkIsRecorded ==
  \A t \in AtWork : store[task[t].job] # None /\ store[task[t].job].phase \notin Terminal

(* One machine is never migrated twice at the same time. *)
OneMigrationPerVm ==
  \A t, u \in AtWork : (task[t].kind = "run" /\ task[u].kind = "run" /\ t # u) =>
    VmOf[task[t].job] # VmOf[task[u].job]

(* Once nobody works on a job any more, its record is terminal or waits    *)
(* for the user of an ISO installation.                                    *)
IdleMeansFinished ==
  (Live = {} /\ \A h \in Handler : handler[h].at = "idle") =>
    \A j \in Job : store[j] # None => store[j].phase \in Terminal \cup {"INSTALLING"}

(* "Completed migrations cannot be cancelled": COMPLETED is for good.      *)
CompletedStays ==
  [][\A j \in Job : (store[j] # None /\ store[j].phase = "COMPLETED") =>
       (store'[j] = None \/ store'[j].phase = "COMPLETED")]_vars

-----------------------------------------------------------------------------
(* The inductive invariant behind these properties. *)

(* The condition they need: requests in flight at the same time are about  *)
(* different jobs.  Nobody cancels one job from two windows.               *)
RequestsApart ==
  \A g, h \in Handler : (g # h /\ handler[g].at # "idle" /\ handler[h].at # "idle") =>
    handler[g].job # handler[h].job

OneLiveTask == \A t, u \in Live : task[t].job = task[u].job => t = u

(* A request that is about to hand its job to the pool finds nobody on it, *)
(* and that of a migration has a session to pin.                           *)
RequestsFree ==
  \A h \in Handler :
    /\ handler[h].at \in {"create", "submit", "clean", "cleanup", "fput", "finalize"} =>
         \A t \in Live : task[t].job # handler[h].job
    /\ handler[h].at \in {"create", "submit"} =>
         (handler[h].sess = None <=> handler[h].job \in IsoJob)

BookInv == RunningIsLive /\ OneLiveTask /\ PinsFollowTasks /\ RequestsFree

Settled(doc) == doc # None /\ doc.phase \in Terminal \cup {"INSTALLING"}
Done(doc) == doc # None /\ doc.phase = "COMPLETED"

(* Neither the record of a migration or ISO job at work nor the copy that  *)
(* its task will save is settled.                                          *)
WorkIsOpen ==
  \A t \in AtWork : /\ store[task[t].job] # None
                    /\ ~Settled(store[task[t].job])
                    /\ ~Settled(task[t].doc)

(* The copy a request will put does not close a job at work, and of those  *)
(* that go on to the pool none brings COMPLETED back.                      *)
CopiesHarmless ==
  \A h \in Handler :
    LET j == handler[h].job
        doc == handler[h].doc
        at == handler[h].at IN
    /\ at = "submit" => store[j] # None /\ ~Settled(store[j])
    /\ at \in {"test", "flag", "note", "complete"} /\ Settled(doc) =>
         \A t \in AtWork : task[t].job # j
    /\ at = "complete" => j \in IsoJob /\ Settled(doc)
    /\ at \in {"test", "flag", "note", "clean", "cleanup", "ftest", "fput", "finalize"} => ~Done(doc)
    /\ at \in {"submit", "cleanup", "finalize"} => ~Done(store[j])

(* The job of a task that has not saved its last phase is not COMPLETED.   *)
BusyNotDone ==
  \A t \in Live : (task[t].job \notin IsoJob /\ task[t].at \notin {"saved", "release", "finish"}) =>
    ~Done(store[task[t].job]) /\ ~Done(task[t].doc)

ServedServes ==
  \A t \in Live : task[t].at \in {"served", "saved"} => cloud[task[t].job] = "serving"

(* The migrations that keep their machine from being migrated again. *)
Claims == {handler[h].job : h \in {g \in Handler : handler[g].at = "submit"}}
          \cup {task[t].job : t \in {u \in AtWork : task[u].kind = "run"}}

OneClaimPerVm ==
  /\ \A t \in Live : task[t].kind = "run" => task[t].job \notin IsoJob
  /\ \A j, k \in Claims \ IsoJob : VmOf[j] = VmOf[k] => j = k

RecordInv == WorkIsOpen /\ CopiesHarmless /\ BusyNotDone /\ ServedServes /\ CompletedIsServing
             /\ OneClaimPerVm

-----------------------------------------------------------------------------
(* Every task comes to its end. *)
TasksEnd == \A t \in Task : t \in Live ~> t \notin Live

(* A migration that is cancelled before its last check never completes     *)
(* afterwards, wherever it is: in the pool, in the queue for a slot, in    *)
(* prepare or in the copy.                                                 *)
CancelHonoured ==
  \A t \in Task :
    (/\ task[t].kind = "run"
     /\ task[t].at \in {"pool", "gate", "waiting", "begin", "provision", "launched", "ready",
                        "export", "copied"}
     /\ ~Uncancelled(t))
      ~> task[t].at = "ended"

(* The slots are used as SlotGate specifies. *)
UsesGate == Gate!Spec
=============================================================================
