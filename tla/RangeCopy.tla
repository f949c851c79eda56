------------------------------ MODULE RangeCopy -----------------------------
(***************************************************************************)
(* One disk of an Azure migration: _copy_azure_disk of jobs/runner.py lets *)
(* the workers of run_workers (disk/copy_common.py) fetch the allocated    *)
(* ranges of the disk in chunks and write each in place (copy_ranges of    *)
(* disk/vhd_range_copy.py).  They read through one SAS URL, which expires; *)
(* a worker that is refused has it renewed, unless another one just did.   *)
(*                                                                         *)
(* The threads interleave at every step that reads or changes what they    *)
(* share: the pending chunks, the stop flag, the first failure, the SAS.   *)
(***************************************************************************)
EXTENDS Naturals, FiniteSets

CONSTANTS Chunk,    \* split_chunks of the allocated ranges
          Worker,   \* download threads of an attempt
          Retries,  \* requests per chunk
          Attempts, \* disk_retry_attempts
          Faults,   \* bound on failing requests, writes and renewals
          Expiries, \* bound on expiries of the SAS
          None

ASSUME RangeAssumption == /\ Worker # {}
                          /\ Retries \in Nat \ {0}
                          /\ Attempts \in Nat \ {0}
                          /\ Faults \in Nat
                          /\ Expiries \in Nat
                          /\ None \notin Chunk \cup Worker

VARIABLES
  pc,        \* the thread of the job in _copy_azure_disk
  attempt, status, outcome,  \* as in DiskExport
  worker,    \* the download threads
  pending,   \* run_workers: what the iterator still holds
  stopped,   \* run_workers: the event
  failure,   \* run_workers: the first failure
  written,   \* the chunks written in this attempt
  sas,       \* AzureDiskExport._sas of the disk: which grant it is of
  valid,     \* the grant Azure accepts, 0 if there is none
  renewing,  \* the holder of refresh_lock
  recent,    \* the last renewal is less than 30 seconds ago
  cancel,    \* the job's cancel flag
  faults, expiries

main == <<pc, attempt, status, outcome>>
shared == <<pending, stopped, failure, written>>
access == <<sas, valid, renewing, recent>>
vars == <<main, worker, shared, access, cancel, faults, expiries>>

(* A thread: where it is, its chunk, which request of the chunk it is at,  *)
(* and whether Azure accepted the SAS of the request.                      *)
WorkerState == [at : {"ended", "loop", "check", "fetch", "sent", "refused", "revoked", "retry",
                      "write"},
                item : Chunk \cup {None}, tries : 0..Retries, accepted : BOOLEAN]

TypeOK ==
  /\ pc \in {"begin", "list", "copy", "close", "end"}
  /\ attempt \in 0..Attempts
  /\ status \in {"PENDING", "COPYING", "FAILED", "COPIED"}
  /\ outcome \in {"running", "copied", "cancelled", "failed"}
  /\ worker \in [Worker -> WorkerState]
  /\ pending \subseteq Chunk
  /\ stopped \in BOOLEAN
  /\ failure \in {"none", "retry", "cancel"}
  /\ written \subseteq Chunk
  /\ sas \in Nat /\ valid \in {0, sas}
  /\ renewing \in Worker \cup {None}
  /\ recent \in BOOLEAN
  /\ cancel \in BOOLEAN
  /\ faults \in 0..Faults
  /\ expiries \in 0..Expiries

Idle == [at |-> "ended", item |-> None, tries |-> 0, accepted |-> FALSE]
Looping == [at |-> "loop", item |-> None, tries |-> 0, accepted |-> FALSE]

Init ==
  /\ pc = "begin" /\ attempt = 0 /\ status = "PENDING" /\ outcome = "running"
  /\ worker = [w \in Worker |-> Idle]
  /\ pending = {} /\ stopped = FALSE /\ failure = "none" /\ written = {}
  /\ sas = 1 /\ valid = 1 /\ renewing = None /\ recent = FALSE
  /\ cancel = FALSE /\ faults = 0 /\ expiries = 0

-----------------------------------------------------------------------------
(* The thread of the job. *)

Fault == faults < Faults /\ faults' = faults + 1

(* A new attempt, or the loop is left: cancelled, or none is left. *)
Begin ==
  /\ pc = "begin"
  /\ IF attempt = Attempts \/ cancel
     THEN /\ outcome' = IF attempt = Attempts THEN "failed" ELSE "cancelled"
          /\ pc' = "end"
          /\ UNCHANGED <<attempt, status, written>>
     ELSE /\ attempt' = attempt + 1
          /\ status' = "COPYING"
          /\ written' = {}
          /\ pc' = "list"
          /\ UNCHANGED outcome
  /\ UNCHANGED <<worker, pending, stopped, failure, access, cancel, faults, expiries>>

(* The job keeps one time of expiry for the SAS of all its disks, that of  *)
(* the last renewal: the SAS of this disk may be renewed early, and it may *)
(* have expired unnoticed once that of another disk was renewed.           *)
Renewed == sas' = sas + 1 /\ valid' = sas + 1

(* The SAS is renewed or is still good; the ranges are listed, and the     *)
(* workers started.                                                        *)
List ==
  /\ pc = "list"
  /\ Renewed \/ (valid = sas /\ UNCHANGED <<sas, valid>>)
  /\ recent' = FALSE
  /\ pending' = Chunk
  /\ stopped' = FALSE
  /\ failure' = "none"
  /\ worker' = [w \in Worker |-> Looping]
  /\ pc' = "copy"
  /\ UNCHANGED <<attempt, status, outcome, written, renewing, cancel, faults, expiries>>

(* It has expired and is not renewed: Azure refuses the list.              *)
ListRefused ==
  /\ pc = "list"
  /\ valid # sas
  /\ status' = "FAILED"
  /\ pc' = "close"
  /\ UNCHANGED <<attempt, outcome, worker, shared, access, cancel, faults, expiries>>

(* Something of it fails, the renewal, before or after the old SAS was     *)
(* revoked, or the list: another attempt may follow.  Not so if the device *)
(* cannot be opened: ExportError, and the status is left.                  *)
ListFails ==
  /\ pc = "list"
  /\ Fault
  /\ \/ /\ status' = "FAILED" /\ pc' = "close" /\ UNCHANGED outcome
        /\ Renewed \/ (valid' \in {valid, 0} /\ UNCHANGED sas)
     \/ outcome' = "failed" /\ pc' = "end" /\ UNCHANGED <<status, sas, valid>>
  /\ UNCHANGED <<attempt, worker, shared, renewing, recent, cancel, expiries>>

(* Cancelled while Azure grants the new SAS. *)
ListCancelled ==
  /\ pc = "list"
  /\ cancel
  /\ status' = "FAILED"
  /\ outcome' = "cancelled"
  /\ valid' = 0
  /\ pc' = "close"
  /\ UNCHANGED <<attempt, worker, shared, sas, renewing, recent, cancel, faults, expiries>>

(* Slip: a failure of a worker is forgotten. *)
JoinSlip ==
  /\ pc = "copy"
  /\ \A w \in Worker : worker[w].at = "ended"
  /\ status' = "COPIED"
  /\ pc' = "close"
  /\ UNCHANGED <<attempt, outcome, worker, shared, access, cancel, faults, expiries>>

(* All threads are joined, the first failure is raised. *)
Join ==
  /\ pc = "copy"
  /\ \A w \in Worker : worker[w].at = "ended"
  /\ status' = IF failure = "none" THEN "COPIED" ELSE "FAILED"
  /\ pc' = "close"
  /\ UNCHANGED <<attempt, outcome, worker, shared, access, cancel, faults, expiries>>

(* writer.close(), as in DiskExport, and on to the next attempt. *)
Close ==
  /\ pc = "close"
  /\ \/ /\ outcome' = CASE status = "COPIED" -> "copied"
                        [] failure = "cancel" -> "cancelled"
                        [] OTHER -> outcome
        /\ pc' = IF outcome' = "running" THEN "begin" ELSE "end"
        /\ UNCHANGED faults
     \/ Fault /\ outcome' = "failed" /\ pc' = "end"
  /\ UNCHANGED <<attempt, status, worker, shared, access, cancel, expiries>>

-----------------------------------------------------------------------------
(* The download threads. *)

At(w, at) == worker[w].at = at
Go(w, at) == worker' = [worker EXCEPT ![w].at = at]

(* An exception of a thread: the first one is kept, all threads stop.      *)
FailWith(w, e) ==
  /\ failure' = IF failure = "none" THEN e ELSE failure
  /\ stopped' = TRUE
  /\ worker' = [worker EXCEPT ![w] = Idle]
  /\ UNCHANGED <<pending, written>>

Pick == CHOOSE c \in pending : TRUE

(* Slip: the flag is not looked at again under the lock. *)
TakeSlip(w) ==
  /\ At(w, "loop")
  /\ IF pending = {}
     THEN worker' = [worker EXCEPT ![w] = Idle] /\ UNCHANGED pending
     ELSE /\ worker' = [worker EXCEPT ![w].at = "check", ![w].item = Pick]
          /\ pending' = pending \ {Pick}
  /\ UNCHANGED <<main, stopped, failure, written, access, cancel, faults, expiries>>

(* Slip: the iterator is read without the lock, another thread gets the    *)
(* same chunk.                                                             *)
TakeRacySlip(w) ==
  /\ At(w, "loop")
  /\ IF stopped \/ pending = {}
     THEN worker' = [worker EXCEPT ![w] = Idle] /\ UNCHANGED pending
     ELSE /\ worker' = [worker EXCEPT ![w].at = "check", ![w].item = Pick]
          /\ pending' \in {pending, pending \ {Pick}}
  /\ UNCHANGED <<main, stopped, failure, written, access, cancel, faults, expiries>>

(* The next chunk, under the lock of run_workers. *)
Take(w) ==
  /\ At(w, "loop")
  /\ IF stopped \/ pending = {}
     THEN worker' = [worker EXCEPT ![w] = Idle] /\ UNCHANGED pending
     ELSE /\ worker' = [worker EXCEPT ![w].at = "check", ![w].item = Pick]
          /\ pending' = pending \ {Pick}
  /\ UNCHANGED <<main, stopped, failure, written, access, cancel, faults, expiries>>

(* check_cancel *)
Check(w) ==
  /\ At(w, "check")
  /\ IF cancel
     THEN FailWith(w, "cancel")
     ELSE /\ worker' = [worker EXCEPT ![w].at = "fetch", ![w].tries = 1]
          /\ UNCHANGED shared
  /\ UNCHANGED <<main, access, cancel, faults, expiries>>

(* A request with the SAS of the moment. *)
Fetch(w) ==
  /\ At(w, "fetch")
  /\ IF stopped
     THEN FailWith(w, "retry")
     ELSE /\ worker' = [worker EXCEPT ![w].at = "sent", ![w].accepted = (sas = valid)]
          /\ UNCHANGED shared
  /\ UNCHANGED <<main, access, cancel, faults, expiries>>

(* It is answered with the data, with 403, or fails. *)
Answer(w) ==
  /\ At(w, "sent")
  /\ \/ Go(w, IF worker[w].accepted THEN "write" ELSE "refused") /\ UNCHANGED faults
     \/ Fault /\ Go(w, "retry")
  /\ UNCHANGED <<main, shared, access, cancel, expiries>>

(* Slip: every refused thread renews the SAS. *)
RefreshSlip(w) ==
  /\ At(w, "refused")
  /\ renewing = None
  /\ renewing' = w /\ valid' = 0 /\ Go(w, "revoked")
  /\ UNCHANGED <<main, shared, sas, recent, cancel, faults, expiries>>

(* refresh_sas, when the lock is free: end_get_access first.               *)
Refresh(w) ==
  /\ At(w, "refused")
  /\ renewing = None
  /\ IF recent
     THEN Go(w, "retry") /\ UNCHANGED <<renewing, valid>>
     ELSE renewing' = w /\ valid' = 0 /\ Go(w, "revoked")
  /\ UNCHANGED <<main, shared, sas, recent, cancel, faults, expiries>>

(* begin_get_access; only a renewal that succeeds starts the 30 seconds.   *)
Grant(w) ==
  /\ At(w, "revoked")
  /\ sas' = sas + 1
  /\ valid' = sas + 1
  /\ renewing' = None
  /\ recent' = TRUE
  /\ Go(w, "retry")
  /\ UNCHANGED <<main, shared, cancel, faults, expiries>>

(* Slip: the lock is kept when the renewal fails. *)
GrantFailsSlip(w) ==
  /\ At(w, "revoked")
  /\ Fault
  /\ Go(w, "retry")
  /\ UNCHANGED <<main, shared, access, cancel, expiries>>

GrantFails(w) ==
  /\ At(w, "revoked")
  /\ Fault
  /\ renewing' = None
  /\ Go(w, "retry")
  /\ UNCHANGED <<main, shared, sas, valid, recent, cancel, expiries>>

(* Slip: one request too many. *)
RetrySlip(w) ==
  /\ At(w, "retry")
  /\ IF worker[w].tries <= Retries
     THEN /\ worker' = [worker EXCEPT ![w].at = "fetch", ![w].tries = @ + 1]
          /\ UNCHANGED shared
     ELSE FailWith(w, "retry")
  /\ UNCHANGED <<main, access, cancel, faults, expiries>>

(* on_wait of begin_get_access: JobCancelled, which fetch does not catch. *)
GrantCancelled(w) ==
  /\ At(w, "revoked")
  /\ cancel
  /\ FailWith(w, "cancel")
  /\ renewing' = None
  /\ UNCHANGED <<main, sas, valid, recent, cancel, faults, expiries>>

(* The chunk is requested again, or given up, and the copy with it. *)
Retry(w) ==
  /\ At(w, "retry")
  /\ IF worker[w].tries < Retries
     THEN /\ worker' = [worker EXCEPT ![w].at = "fetch", ![w].tries = @ + 1]
          /\ UNCHANGED shared
     ELSE FailWith(w, "retry")
  /\ UNCHANGED <<main, access, cancel, faults, expiries>>

(* write_at *)
Write(w) ==
  /\ At(w, "write")
  /\ \/ /\ written' = written \cup {worker[w].item}
        /\ worker' = [worker EXCEPT ![w] = Looping]
        /\ UNCHANGED <<pending, stopped, failure, faults>>
     \/ Fault /\ FailWith(w, "retry")
  /\ UNCHANGED <<main, access, cancel, expiries>>

-----------------------------------------------------------------------------
(* The SAS expires; it lasts longer than 30 seconds. *)
Expire ==
  /\ valid = sas
  /\ ~recent
  /\ expiries < Expiries
  /\ expiries' = expiries + 1
  /\ valid' = 0
  /\ UNCHANGED <<main, worker, shared, sas, renewing, recent, cancel, faults>>

(* 30 seconds pass: a refusal that is on its way has arrived by then, and  *)
(* its thread has asked for the lock.                                      *)
WindowEnds ==
  /\ recent
  /\ \A w \in Worker : ~(At(w, "sent") /\ ~worker[w].accepted) /\ ~At(w, "refused")
  /\ recent' = FALSE
  /\ UNCHANGED <<main, worker, shared, sas, valid, renewing, cancel, faults, expiries>>

(* request_cancel *)
RequestCancel ==
  /\ ~cancel
  /\ cancel' = TRUE
  /\ UNCHANGED <<main, worker, shared, access, faults, expiries>>

MainStep == Begin \/ List \/ ListRefused \/ ListFails \/ ListCancelled \/ Join \/ Close

WorkerStep(w) ==
  \/ Take(w) \/ Check(w) \/ Fetch(w) \/ Answer(w) \/ Refresh(w) \/ Grant(w) \/ GrantFails(w)
  \/ GrantCancelled(w) \/ Retry(w) \/ Write(w)

Next == MainStep \/ (\E w \in Worker : WorkerStep(w)) \/ Expire \/ WindowEnds \/ RequestCancel

Spec == Init /\ [][Next]_vars

(* Requests have timeouts and threads are scheduled. *)
FairSpec == Spec /\ WF_vars(MainStep) /\ \A w \in Worker : WF_vars(WorkerStep(w))

-----------------------------------------------------------------------------
(* While an attempt copies, every chunk is in exactly one place: pending,  *)
(* with one thread, or written; none is lost and none fetched twice.       *)
Busy == {w \in Worker : worker[w].item # None}
EachChunkOnce ==
  /\ pending \cap written = {}
  /\ \A w \in Busy : worker[w].item \notin pending \cup written
  /\ \A w, x \in Busy : w # x => worker[w].item # worker[x].item
  /\ pc = "copy" /\ ~stopped => pending \cup written \cup {worker[w].item : w \in Busy} = Chunk

(* A SAS that expires while the threads copy costs no attempt, whenever it *)
(* does and however many threads are refused at once: as long as nothing   *)
(* else fails and a chunk has a request more than there are expiries, no   *)
(* thread gives up.  (One that expires before may: ListRefused.)           *)
ExpirySurvived == (faults = 0 /\ expiries < Retries) => failure # "retry" \/ cancel

(* After the first failure no thread takes another chunk. *)
NothingTakenAfterFailure ==
  [][stopped /\ stopped' => pending' = pending]_vars

(* The copy ends: no thread waits for ever for the lock of the renewal.    *)
CopyEnds == <>(outcome # "running")

(* A disk is COPIED only with all its chunks written, and left alone then. *)
Copy == INSTANCE DiskCopy WITH Piece <- Chunk
ImplementsDiskCopy == Copy!Spec
=============================================================================
