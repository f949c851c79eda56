------------------------------ MODULE OvaExport -------------------------------
(***************************************************************************)
(* The export of an OCI instance as an OVF set (oci/ova_export.py, with    *)
(* prepare_export and restore_export_source of oci/provision.py): stop the *)
(* instance, bring its volumes to the helper, write one VMDK per volume,   *)
(* then bring everything back and leave the instance stopped.              *)
(*                                                                         *)
(* Unlike a migration, what is at stake is somebody's working instance: a  *)
(* call can fail, with or without effect, the job can be cancelled and the *)
(* service can stop at every step, and each time the restore has to find   *)
(* its way from wherever things are.  The upload is ObjectUpload.          *)
(*                                                                         *)
(* A wait for a state of OCI is part of the call before it; a transition   *)
(* whose wait failed has been made or not when somebody looks again.       *)
(***************************************************************************)
EXTENDS Naturals

CONSTANTS NumDisks,    \* volumes of the instance; the first is its boot volume
          MaxFaults,   \* bound on the calls that fail
          MaxCrashes   \* bound on the restarts of the service

VARIABLES
  inst,    \* the instance: "RUNNING" or "STOPPED"
  kind,    \* what the record says of each attachment: ExportDiskSource
  source,  \* the attachment of each volume to its instance: "none", "own", "shareable"
  helper,  \* the volumes attached to the helper
  listed,  \* the volumes with a helper_attachment_id in the record
  known,   \* spec.sources and job.disks are in the record
  copied,  \* the volumes whose DiskState is COPIED
  manifest, \* the OVF descriptor and its manifest are in the bucket
  cancel, phase, at,
  step,    \* the call the task makes next, and the volume it is about
  refused, \* OCI has refused a call
  faults, crashes

oci == <<inst, source, helper>>
record == <<kind, listed, known, copied, phase>>
vars == <<oci, record, manifest, cancel, at, step, refused, faults, crashes>>

Disk == 1..NumDisks
Boot == 1
Data == Disk \ {Boot}
Kinds == {"emulated", "plain", "shareable"}
Op == {"read", "list", "start", "stop", "detach", "share", "help", "note", "copy", "describe",
       "write", "unhelp", "reattach", "done"}

TypeOK ==
  /\ inst \in {"RUNNING", "STOPPED"}
  /\ kind \in [Data -> Kinds] /\ source \in [Disk -> {"none", "own", "shareable"}]
  /\ helper \subseteq Disk /\ listed \subseteq Disk /\ copied \subseteq Disk
  /\ known \in BOOLEAN /\ manifest \in BOOLEAN /\ cancel \in BOOLEAN /\ refused \in BOOLEAN
  /\ phase \in {"active", "COMPLETED", "FAILED", "CANCELLED"}
  /\ at \in {"run", "restore", "cleanup", "ended"}
  /\ step \in Op \X Disk
  /\ faults \in 0..MaxFaults /\ crashes \in 0..MaxCrashes

-----------------------------------------------------------------------------
(* The order of the calls. *)
op == step[1]
disk == step[2]
Of(call) == <<call, Boot>>   \* of the instance or its boot volume

(* _export_attach_data_volumes, how it begins with one volume: an emulated *)
(* one cannot be shared, one that is not shareable is attached again.      *)
ExportAttach(d) == <<IF kind[d] = "shareable" THEN "help" ELSE "detach", d>>

(* The data volumes from one on, then the boot volume of the stopped       *)
(* instance.  Slip: one data volume is attached, and no other.             *)
ExportAttachFromSlip(d) == IF d \in Disk /\ d = 2 THEN ExportAttach(d) ELSE Of("stop")
ExportAttachFrom(d) == IF d \in Disk THEN ExportAttach(d) ELSE Of("stop")

(* Slip: the instance is not started for the volumes to be shared. *)
ExportAttachDataVolumesSlip == ExportAttachFrom(2)
ExportAttachDataVolumes ==
  IF \E d \in Data : kind[d] = "plain" THEN Of("start") ELSE ExportAttachFrom(2)

PrepareExport ==
  CASE op = "read" -> Of("list")
    [] op = "list" -> ExportAttachDataVolumes
    [] op = "start" -> ExportAttachFrom(2)
    [] op = "detach" -> <<IF disk # Boot /\ kind[disk] = "plain" THEN "share" ELSE "help", disk>>
    [] op = "share" -> <<"help", disk>>
    [] op = "help" -> <<"note", disk>>
    [] op = "note" -> IF disk = Boot THEN Of("copy") ELSE ExportAttachFrom(disk + 1)
    [] op = "stop" -> Of("detach")

(* OvaExporter.run, up to the restore *)
Run ==
  CASE op = "copy" -> IF disk < NumDisks THEN <<"copy", disk + 1>> ELSE Of("describe")
    [] op = "describe" -> Of("write")
    [] op = "write" -> Of("done")
    [] OTHER -> PrepareExport

(* restore_export_source: off the helper (_detach_all_from_helper), then   *)
(* the boot volume, the volumes that are not attached any more, and the    *)
(* instance stopped.  Slip: nothing is attached again.                     *)
RestoreVolumesSlip == Of("stop")
RestoreVolumes == Of("reattach")
RestoreExportSource == IF known THEN Of("unhelp") ELSE Of("stop")
Restore ==
  CASE op = "unhelp" -> IF disk < NumDisks THEN <<"unhelp", disk + 1>> ELSE RestoreVolumes
    [] op = "reattach" -> IF disk = NumDisks THEN Of("stop")
                          ELSE IF disk = Boot THEN Of("start") ELSE <<"reattach", disk + 1>>
    [] op = "start" -> <<"reattach", 2>>
    [] op = "stop" -> Of("done")

Forward == step' = IF at = "run" THEN Run ELSE Restore

Init ==
  /\ inst \in {"RUNNING", "STOPPED"}
  /\ kind \in [Data -> Kinds]
  /\ source = [d \in Disk |-> IF d \in Data /\ kind[d] = "shareable" THEN "shareable" ELSE "own"]
  /\ helper = {} /\ listed = {} /\ known = FALSE /\ copied = {} /\ manifest = FALSE
  /\ cancel = FALSE /\ phase = "active" /\ at = "run" /\ step = Of("read")
  /\ refused = FALSE /\ faults = 0 /\ crashes = 0

-----------------------------------------------------------------------------
(* What a call asks of OCI, when it is not made at all, when OCI accepts   *)
(* it and what it does.                                                    *)
Missing == {d \in Data : source[d] = "none"}

Needless ==
  CASE op = "start" -> inst = "RUNNING" \/ (at # "run" /\ Missing = {})
    [] op = "stop" -> inst = "STOPPED"
    [] op = "detach" -> source[disk] = "none"
    [] op = "help" -> disk \in listed
    [] op = "unhelp" -> disk \notin helper \cap listed   \* what the record names
    [] op = "reattach" -> source[disk] # "none"
    [] OTHER -> FALSE

(* Data volumes attach to a running instance, a boot volume to a stopped   *)
(* one; a volume with two attachments has shareable ones only; an instance *)
(* without its boot volume does not start.                                 *)
Accepts ==
  CASE op = "start" -> source[Boot] # "none"
    [] op = "detach" /\ disk = Boot -> inst = "STOPPED"
    [] op = "share" -> inst = "RUNNING" /\ disk \notin helper
    [] op = "help" -> source[disk] = "none" \/ (source[disk] = "shareable" /\ disk # Boot)
    [] op = "reattach" -> /\ disk \notin helper
                          /\ inst = IF disk = Boot THEN "STOPPED" ELSE "RUNNING"
    [] OTHER -> TRUE

Effect ==
  /\ inst' = CASE op = "start" -> "RUNNING" [] op = "stop" -> "STOPPED" [] OTHER -> inst
  /\ source' = CASE op = "detach" -> [source EXCEPT ![disk] = "none"]
                 [] op = "share" -> [source EXCEPT ![disk] = "shareable"]
                 [] op = "reattach" ->
                      [source EXCEPT ![disk] = IF disk \in Data /\ kind[disk] = "shareable"
                                               THEN "shareable" ELSE "own"]
                 [] OTHER -> source
  /\ helper' = CASE op = "help" -> helper \cup {disk} [] op = "unhelp" -> helper \ {disk}
                 [] OTHER -> helper

(* What the job remembers of a step that succeeded, and saves. *)
Saves ==
  /\ listed' = CASE op = "note" -> listed \cup {disk} [] op = "unhelp" -> listed \ {disk}
                 [] OTHER -> listed
  /\ kind' = IF op = "share" THEN [kind EXCEPT ![disk] = "shareable"] ELSE kind
  /\ known' = (known \/ op = "list")
  /\ copied' = IF op = "copy" THEN copied \cup {disk} ELSE copied
  /\ manifest' = (manifest \/ op = "write")

(* An exception: in the run, the phase is saved and OvaExporter.cleanup    *)
(* restores the source; in the restore of the run the same; in the restore *)
(* of a cleanup it is logged.  The one of a detach from the helper is      *)
(* logged too, and the rest of those is left out.                          *)
Cleanup(outcome) == at' = "cleanup" /\ phase' = outcome /\ step' = RestoreExportSource
CleanupDone == /\ at' = "ended" /\ step' = Of("done")
               /\ phase' = IF phase = "active" THEN "CANCELLED" ELSE phase
Raise ==
  IF op = "unhelp" THEN step' = RestoreVolumes /\ UNCHANGED <<at, phase>>
  ELSE IF at = "cleanup" THEN CleanupDone
  ELSE Cleanup("FAILED")

Unlisted == op \in {"share", "help"}   \* what the call makes has no name in the record yet

Do ==
  /\ op \notin {"note", "copy", "done"}
  /\ \/ /\ Needless
        /\ Saves /\ Forward
        /\ UNCHANGED <<oci, at, phase, refused, faults>>
     \/ /\ ~Needless /\ Accepts
        /\ Effect /\ Saves /\ Forward
        /\ UNCHANGED <<at, phase, refused, faults>>
     \/ /\ ~Needless /\ ~Accepts
        /\ refused' = TRUE /\ Raise
        /\ UNCHANGED <<oci, kind, listed, known, copied, manifest, faults>>
     \/ /\ ~Needless /\ faults < MaxFaults /\ faults' = faults + 1
        /\ (Accepts /\ Effect) \/ UNCHANGED oci
        /\ Raise
        /\ UNCHANGED <<kind, listed, known, copied, manifest, refused>>
  /\ UNCHANGED <<cancel, crashes>>

(* _attach_to_helper saves the id of the attachment before it waits. *)
Note ==
  /\ op = "note"
  /\ Saves /\ Forward
  /\ UNCHANGED <<oci, phase, cancel, at, refused, faults, crashes>>

(* The export of one volume; its failure is the job's. *)
ExportDisk ==
  /\ op = "copy" /\ ~cancel
  /\ \/ Saves /\ Forward /\ UNCHANGED <<at, phase, faults>>
     \/ /\ faults < MaxFaults /\ faults' = faults + 1 /\ Raise
        /\ UNCHANGED <<kind, listed, known, copied, manifest>>
  /\ UNCHANGED <<oci, cancel, refused, crashes>>

(* every _step of the run looks at the flag, and the copy at every grain *)
Cancelled ==
  /\ at = "run" /\ cancel /\ op \notin {"note", "done"}
  /\ Cleanup("active")
  /\ UNCHANGED <<oci, kind, listed, known, copied, manifest, cancel, refused, faults, crashes>>

ScriptDone ==
  /\ op = "done" /\ at # "ended"
  /\ CASE at = "run" -> IF cancel THEN Cleanup("active")
                        ELSE at' = "restore" /\ step' = RestoreExportSource /\ UNCHANGED phase
       [] at = "restore" -> at' = "ended" /\ phase' = "COMPLETED" /\ UNCHANGED step
       [] at = "cleanup" -> CleanupDone
  /\ UNCHANGED <<oci, kind, listed, known, copied, manifest, cancel, refused, faults, crashes>>

RequestCancel ==
  /\ at # "ended" /\ ~cancel
  /\ cancel' = TRUE
  /\ UNCHANGED <<oci, record, manifest, at, step, refused, faults, crashes>>

(* fail_stale_jobs after a restart: the record is all there is. *)
Crash ==
  /\ at # "ended" /\ crashes < MaxCrashes
  /\ crashes' = crashes + 1
  /\ at' = "ended" /\ step' = Of("done") /\ cancel' = FALSE
  /\ phase' = IF phase = "active" THEN "FAILED" ELSE phase
  /\ UNCHANGED <<oci, kind, listed, known, copied, manifest, refused, faults>>

(* cancel_job of a job that is not COMPLETED: _cleanup_safely *)
AskCleanup ==
  /\ at = "ended" /\ phase \in {"FAILED", "CANCELLED"}
  /\ Cleanup(phase)
  /\ UNCHANGED <<oci, kind, listed, known, copied, manifest, cancel, refused, faults, crashes>>

TaskStep == Do \/ Note \/ ExportDisk \/ Cancelled \/ ScriptDone
Next == TaskStep \/ RequestCancel \/ Crash \/ AskCleanup

(* The pool runs the task, and somebody repeats the cleanup. *)
Spec == Init /\ [][Next]_vars /\ WF_vars(TaskStep) /\ WF_vars(AskCleanup)

-----------------------------------------------------------------------------
Trouble == faults > 0 \/ crashes > 0
Whole == inst = "STOPPED" /\ \A d \in Disk : source[d] # "none"

(* OCI refuses no call of an export that nothing went wrong with, whatever *)
(* the volumes are attached as and wherever the job is cancelled: the      *)
(* order in which prepare_export and restore_export_source start and stop  *)
(* the instance and move its volumes is one OCI accepts.                   *)
CallsAccepted == refused => Trouble

(* A volume is read while the instance is stopped and its boot volume is   *)
(* the helper's alone, and never before every volume is on the helper.     *)
ReadAtRest ==
  op = "copy" => /\ inst = "STOPPED" /\ source[Boot] = "none"
                 /\ helper = Disk

(* COMPLETED means that everything was exported and the instance has all   *)
(* its volumes back and is stopped, after any failures; and that nothing   *)
(* is left on the helper, unless a detach failed.                          *)
CompletedWhole ==
  phase = "COMPLETED" => /\ Whole /\ copied = Disk /\ manifest
                         /\ helper = {} \/ faults > 0

(* Every end without COMPLETED comes to a whole, stopped instance when the *)
(* cleanup is repeated, if the record names every volume on the helper.    *)
SourceComesBack ==
  (at = "ended" /\ phase # "COMPLETED" /\ helper \subseteq listed) ~> Whole

(* docs/how-it-works.md: the restore detaches what was attached to the     *)
(* helper; but an error of a detach is passed over, also on the way to     *)
(* COMPLETED, and a COMPLETED job cannot be cleaned up.                    *)
CompletedLeavesHelper == phase = "COMPLETED" => helper = {}

-----------------------------------------------------------------------------
(* What carries the three. *)
Given == \A d \in Disk : source[d] # "none"

(* Which calls belong where; the run is given up at the first failure, and *)
(* what is left to do for COMPLETED is the restore.                        *)
Placed ==
  /\ at = "run" => op \notin {"unhelp", "reattach"} /\ phase = "active" /\ ~Trouble
  /\ at \in {"restore", "cleanup"} => op \in {"unhelp", "reattach", "start", "stop", "done"}
  /\ at = "ended" => op = "done" /\ phase # "active"
  /\ phase = "COMPLETED" => at = "ended"
  /\ at = "restore" => phase = "active" /\ known /\ copied = Disk /\ manifest /\ crashes = 0
  /\ op \in {"read", "list", "start", "stop", "describe", "write", "done"} => disk = Boot
  /\ op = "share" => disk # Boot
  /\ op = "start" => NumDisks > 1

(* The instance runs with its boot volume only; nothing is taken apart     *)
(* before it is on record what it had.                                     *)
InstanceSound ==
  /\ source[Boot] = "none" => inst = "STOPPED"
  /\ ~known => Given /\ helper = {} /\ listed = {} /\ (at = "run" => op \in {"read", "list"})
  /\ at \in {"restore", "cleanup"} /\ op \in {"unhelp", "reattach", "start"} => known

(* What the run has taken apart, by the call it is about to make *)
Alone == op \in {"help", "note"} /\ disk = Boot
OnHelper ==
  CASE op \in {"read", "list", "start"} -> {}
    [] op \in {"detach", "share", "help"} /\ disk # Boot -> 2..(disk - 1)
    [] op = "note" /\ disk # Boot -> 2..disk
    [] op \in {"stop", "detach", "help"} /\ disk = Boot -> Data
    [] OTHER -> Disk
RunSound ==
  at = "run" =>
    /\ helper = OnHelper
    /\ IF Alone \/ op \in {"copy", "describe", "write", "done"}
       THEN inst = "STOPPED" /\ source[Boot] = "none"
       ELSE source[Boot] # "none" /\ (op = "detach" /\ disk = Boot => inst = "STOPPED")
    /\ (/\ op \in {"detach", "share", "help", "note"} /\ disk # Boot
        /\ \E d \in disk..NumDisks : kind[d] = "plain") => inst = "RUNNING"
    /\ op = "share" => kind[disk] = "plain"
    /\ op = "detach" /\ disk # Boot => kind[disk] # "shareable"
    /\ op = "help" => source[disk] # "own"
    /\ \A d \in Data : kind[d] = "shareable" => source[d] = "shareable"
    /\ copied = IF op = "copy" THEN 1..(disk - 1)
                ELSE IF op \in {"describe", "write", "done"} THEN Disk ELSE {}
    /\ op = "done" => manifest

(* What the restore has put back, by the call it is about to make *)
RestoreSound ==
  at \in {"restore", "cleanup"} =>
    /\ op \in {"start", "stop", "done"} \/ (op = "reattach" /\ disk # Boot) => source[Boot] # "none"
    /\ op = "reattach" /\ disk # Boot => /\ \A d \in 2..(disk - 1) : source[d] # "none"
                                         /\ inst = "RUNNING" \/ Missing = {}
    /\ op = "stop" => Given
    /\ op = "done" => Whole

(* Without a failure the record names what is on the helper, but for the   *)
(* call that is about to be noted, and the restore has taken it off.       *)
HelperSound ==
  ~Trouble =>
    /\ ~refused /\ listed \subseteq helper
    /\ helper \ listed \subseteq (IF op = "note" THEN {disk} ELSE {})
    /\ at \in {"restore", "cleanup"} =>
         IF op = "unhelp" THEN helper \cap (1..(disk - 1)) = {} ELSE helper = {}

ExportInv ==
  /\ TypeOK /\ Placed /\ InstanceSound /\ RunSound /\ RestoreSound /\ HelperSound
  /\ CompletedWhole
=============================================================================
