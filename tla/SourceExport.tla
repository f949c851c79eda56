----------------------------- MODULE SourceExport -----------------------------
(***************************************************************************)
(* What a migration leaves at its source: the _run_<source> methods of     *)
(* jobs/runner.py, the <source>/export.py modules and the release of       *)
(* source resources (jobs/source_cleanup.py).                              *)
(*                                                                         *)
(* A migration makes temporary things at the source (snapshots, access     *)
(* grants, objects, images, transfers, NBD servers, a lease), lists most   *)
(* of them in the job record, copies every disk, and takes them away       *)
(* again: when the export is left, in the cleanup of a cancelled job, or   *)
(* in a cleanup somebody asks for later.  Every call to the source can     *)
(* fail, with or without effect; a job can be cancelled at every look at   *)
(* its flag; the service can stop between any two steps, and then only     *)
(* the record is left.                                                     *)
(*                                                                         *)
(* What each source does is a script, a sequence of the steps below; one   *)
(* action per step runs it.  The copy of a disk is DiskExport and          *)
(* RangeCopy, what happens in OCI is Provision.                            *)
(***************************************************************************)
EXTENDS Naturals, Sequences

CONSTANTS Source,      \* the sources a job may have, of AllSources
          DisksOf,     \* number of disks of the machine, for each source
          MaxAttempts, \* Settings.disk_retry_attempts
          MaxCrashes   \* bound on the restarts of the service

AllSources == {"vsphere", "azure", "aws", "gcp", "olvm", "nutanix", "prism_element",
               "hyperv", "proxmox"}

ASSUME SourceAssumption == /\ Source \subseteq AllSources
                           /\ DisksOf \in [Source -> Nat \ {0}]
                           /\ MaxAttempts \in Nat \ {0}
                           /\ MaxCrashes \in Nat

VARIABLES
  src,       \* the source of the job; Nutanix through Prism Central or a Prism Element
  capture,   \* capture_mode: "off" (deallocate, stop) or "snapshot"
  consent,   \* Job.power_off_source
  vm,        \* the source machine: "on", "stopping", "off" or "suspended"
  world,     \* the temporary resources that exist at the source
  info,      \* the resources the task's copy of the record lists
  record,    \* the resources the record in the store lists
  handles,   \* resources only the export object knows (open_ids, _open, lease)
  status,    \* DiskState.status of every disk
  cancel,    \* the job is in MigrationRunner._cancel_requested
  phase,     \* Job.phase
  at,        \* where the task is
  todo,      \* the rest of the script it runs
  disk, round, attempt,   \* the disk, the script of __enter__, the attempt
  outcome,   \* how the export is being left
  pending,   \* what the release in progress still has to look at
  trouble,   \* a call failed, or the service stopped
  crashes

place == <<at, todo, disk, round, attempt, outcome, pending>>
listed == <<info, record, handles>>
job == <<src, capture, consent>>
vars == <<job, vm, world, listed, status, cancel, phase, place, trouble, crashes>>

Disks == DisksOf[src]
Disk == 1..Disks
What == {"snapshot", "grant", "object", "image", "point", "domain", "transfer", "nbd", "lease"}

(* An image and a transfer are new in every attempt; the name of every     *)
(* other resource is that of the job and the disk.                         *)
Resource == What \X Disk \X (1..MaxAttempts)
Made(w) == <<w, disk, IF w \in {"image", "transfer"} THEN attempt ELSE 1>>

Op == {"check", "read", "record", "create", "keep", "wait", "drop", "try", "ask", "force", "off"}
Step == Op \X (What \cup {"-"})

Check == <<"check", "-">>        \* JobCancelled when the job is to be cancelled
Read == <<"read", "-">>          \* a call that changes nothing
Note(w) == <<"record", w>>       \* list the resource in the record and save it
Create(w) == <<"create", w>>     \* the call that makes it
Keep(w) == <<"keep", w>>         \* remember it in the export object only
Wait(w) == <<"wait", w>>         \* poll until it is ready, looking at the flag
Drop(w) == <<"drop", w>>         \* take away those of this disk; a failure is raised
Try(w) == <<"try", w>>           \* the same; a failure is logged

Ask == <<"ask", "-">>            \* ask the guest to shut down
TurnOff == <<"force", "-">>        \* turn the machine off
Off == <<"off", "-">>            \* wait until it is off, looking at the flag

Places == {"power", "down", "enter", "regions", "mapped", "disk", "open", "copy", "finish",
           "failing", "leave", "left", "fixup", "release", "ended"}
Phases == {"EXPORTING", "FINALIZING", "COMPLETED", "FAILED", "CANCELLED"}

TypeOK ==
  /\ src \in Source /\ capture \in {"off", "snapshot"} /\ consent \in BOOLEAN
  /\ vm \in {"on", "stopping", "off", "suspended"}
  /\ world \subseteq Resource /\ info \subseteq Resource
  /\ record \subseteq Resource /\ handles \subseteq Resource
  /\ status \in [Disk -> {"pending", "copying", "copied", "failed"}]
  /\ cancel \in BOOLEAN /\ phase \in Phases /\ at \in Places
  /\ todo \in Seq(Step) /\ disk \in 1..(Disks + 1) /\ round \in 1..3
  /\ attempt \in 1..MaxAttempts
  /\ outcome \in {"none", "done", "failed", "cancelled"}
  /\ pending \subseteq Resource
  /\ trouble \in BOOLEAN /\ crashes \in 0..MaxCrashes

-----------------------------------------------------------------------------
(* The scripts of the exports. *)

(* The calls that make something, and poll until it is there. *)
AzureSnapshot == <<Create("snapshot"), Wait("snapshot")>>
AzureBeginGetAccess == <<Create("grant"), Wait("grant")>>
AwsSnapshot == <<Create("snapshot"), Wait("snapshot")>>
GcpSnapshot == <<Create("snapshot"), Wait("snapshot"), Read>>
GcpExport == <<Create("object"), Wait("object")>>

(* Slip: the snapshot is recorded when it is ready. *)
AzureCreateSnapshotsSlip == <<Check, Read>> \o AzureSnapshot \o <<Note("snapshot")>>

(* AzureDiskExport._create_snapshots: the id is recorded before the call *)
AzureCreateSnapshots == <<Check, Read, Note("snapshot")>> \o AzureSnapshot

(* AzureDiskExport._grant: begin_get_access, then the record *)
AzureGrant == <<Check>> \o AzureBeginGetAccess \o <<Note("grant")>>

(* AwsDiskExport._create_snapshots: create_snapshot returns when the       *)
(* snapshot is complete, and only then is its id recorded.                 *)
AwsCreateSnapshots == <<Check>> \o AwsSnapshot \o <<Note("snapshot")>>

(* GcpDiskExport._ensure_snapshots_and_exports, of one disk *)
GcpEnsureSnapshotAndExport ==
  <<Check, Note("snapshot")>> \o GcpSnapshot \o <<Note("object")>> \o GcpExport

(* NfcExport.__enter__: the lease is known to the object only *)
NfcEnter == <<Create("lease"), Keep("lease"), Wait("lease")>>

(* RegionMapper._map_recovery_point (Prism Central), _map_protection_domain *)
(* (Prism Element), without the deletion in their finally                   *)
MapRecoveryPoint == <<Create("point"), Wait("point"), Note("point"), Read, Check, Read>>
MapProtectionDomain ==
  <<Read, Try("domain"), Note("domain"), Create("domain"), Wait("domain"), Check, Read>>

(* NutanixDiskExport.open: Prism Central names the image at once, Prism    *)
(* Element only when the task is done.                                     *)
NutanixOpen ==
  <<Check, Read, Try("image"), Create("image")>>
    \o (IF src = "nutanix" THEN <<Note("image")>> ELSE <<>>)
    \o <<Wait("image"), Read, Note("image"), Read>>

(* Slip: the object does not remember the transfer before the wait. *)
OlvmOpenSlip == <<Try("transfer"), Check, Read, Drop("transfer"), Create("transfer"),
                  Wait("transfer"), Keep("transfer")>>

(* OlvmDiskExport.open: _cancel_open, check, _release_disk, create, wait *)
OlvmOpen == <<Try("transfer"), Check, Read, Drop("transfer"), Create("transfer"),
              Keep("transfer"), Wait("transfer")>>

(* ProxmoxDiskExport.open: the socket is recorded before qemu-nbd starts *)
ProxmoxOpen == <<Check, Read, Check, Read, Drop("nbd"), Note("nbd"), Create("nbd"), Keep("nbd")>>

(* The copy of a disk, around the transfer of its bytes: what each attempt *)
(* does before it, and what it takes away after it.                        *)
CopyAzureDisk == [open |-> <<Read>>, finish |-> <<>>]
CopyAwsDisk == [open |-> <<Read>>, finish |-> <<>>]
CopyGcpDisk == [open |-> <<Read>>, finish |-> <<>>]
CopyOlvmDisk == [open |-> OlvmOpen \o <<Read>>, finish |-> <<Drop("transfer")>>]
CopyNutanixDisk == [open |-> NutanixOpen, finish |-> <<Try("image")>>]
CopyHypervDisk == [open |-> <<Read>>, finish |-> <<>>]
CopyProxmoxDisk == [open |-> ProxmoxOpen, finish |-> <<Try("nbd")>>]
ExportVmwareDisk == [open |-> <<>>, finish |-> <<>>]

(* How the machine is brought down: ask the guest, wait, turn it off, wait; *)
(* or the one call of the cloud.                                            *)
VsphereShutDown == <<Ask, Off, TurnOff, Off>>
OlvmShutDown == <<Ask, Off, TurnOff, Off>>
NutanixShutDown == <<Ask, Off, TurnOff, Off>>
ProxmoxShutDown == <<Ask, Off, TurnOff, Off>>
HypervShutDown == <<Ask, Off, TurnOff, Off>>
AzureDeallocate == <<TurnOff, Off>>
AwsStop == <<TurnOff, Off>>
GcpStop == <<TurnOff, Off>>

(* What each release goes through, in this order, and what it forgets even *)
(* when the call failed: transfers and leases end by themselves, and the   *)
(* objects of Google Cloud are deleted by their prefix.                    *)
ReleaseVsphere == [order |-> <<"lease">>, forgets |-> {"lease"}]
ReleaseAzure == [order |-> <<"grant", "snapshot">>, forgets |-> {}]
ReleaseAws == [order |-> <<"snapshot">>, forgets |-> {}]
ReleaseGcp == [order |-> <<"object", "snapshot">>, forgets |-> {"object"}]
ReleaseOlvm == [order |-> <<"transfer">>, forgets |-> {"transfer"}]
ReleaseNutanix == [order |-> <<"point", "domain", "image">>, forgets |-> {}]
ReleaseProxmox == [order |-> <<"nbd">>, forgets |-> {}]

(* What each _run_<source> asks of the machine, how it enters its export   *)
(* (scripts, each for every disk), how it copies a disk, and what the exit *)
(* of the export releases.                                                 *)
RunVsphere == [mustBeOff |-> TRUE, enter |-> <<NfcEnter>>, regions |-> <<>>,
               copy |-> ExportVmwareDisk, stop |-> VsphereShutDown, exit |-> ReleaseVsphere]
RunAzure == [mustBeOff |-> capture = "off",
             enter |-> IF capture = "snapshot" THEN <<AzureCreateSnapshots, AzureGrant>>
                                               ELSE <<AzureGrant>>,
             regions |-> <<>>, copy |-> CopyAzureDisk, stop |-> AzureDeallocate, exit |-> ReleaseAzure]
RunGcp == [mustBeOff |-> capture = "off", enter |-> <<GcpEnsureSnapshotAndExport>>, regions |-> <<>>,
           copy |-> CopyGcpDisk, stop |-> GcpStop, exit |-> ReleaseGcp]
RunAws == [mustBeOff |-> capture = "off", enter |-> <<AwsCreateSnapshots>>, regions |-> <<>>,
           copy |-> CopyAwsDisk, stop |-> AwsStop, exit |-> ReleaseAws]
RunOlvm == [mustBeOff |-> TRUE, enter |-> <<>>, regions |-> <<>>,
            copy |-> CopyOlvmDisk, stop |-> OlvmShutDown, exit |-> ReleaseOlvm]
RunNutanix == [mustBeOff |-> TRUE, enter |-> <<>>,
               regions |-> IF src = "nutanix" THEN MapRecoveryPoint ELSE MapProtectionDomain,
               copy |-> CopyNutanixDisk, stop |-> NutanixShutDown, exit |-> ReleaseNutanix]
RunHyperv == [mustBeOff |-> TRUE, enter |-> <<>>, regions |-> <<>>,
              copy |-> CopyHypervDisk, stop |-> HypervShutDown, exit |-> [order |-> <<>>, forgets |-> {}]]
RunProxmox == [mustBeOff |-> TRUE, enter |-> <<>>, regions |-> <<>>,
               copy |-> CopyProxmoxDisk, stop |-> ProxmoxShutDown, exit |-> ReleaseProxmox]

Run == CASE src = "vsphere" -> RunVsphere
         [] src = "azure" -> RunAzure
         [] src = "gcp" -> RunGcp
         [] src = "aws" -> RunAws
         [] src = "olvm" -> RunOlvm
         [] src \in {"nutanix", "prism_element"} -> RunNutanix
         [] src = "hyperv" -> RunHyperv
         [] src = "proxmox" -> RunProxmox

Init ==
  /\ src \in Source
  /\ capture \in IF src \in {"azure", "aws", "gcp"} THEN {"off", "snapshot"} ELSE {"off"}
  /\ consent \in IF capture = "off" THEN BOOLEAN ELSE {FALSE}   \* not looked at
  /\ vm \in IF capture = "off" THEN {"on", "off", "suspended"} ELSE {"on"}
  /\ world = {} /\ info = {} /\ record = {} /\ handles = {}
  /\ status = [d \in Disk |-> "pending"]
  /\ cancel = FALSE /\ phase = "EXPORTING"
  /\ at = "power" /\ todo = <<>> /\ disk = 1 /\ round = 1 /\ attempt = 1
  /\ outcome = "none" /\ pending = {}
  /\ trouble = FALSE /\ crashes = 0

-----------------------------------------------------------------------------
(* The source machine. *)

Quiet == UNCHANGED <<job, cancel, crashes>>

(* The job's kind makes the disks first: __enter__, or the regions, or    *)
(* nothing before the loop over the disks.                                 *)
StartExport ==
  /\ disk' = 1 /\ round' = 1 /\ attempt' = 1 /\ outcome' = "none" /\ pending' = {}
  /\ CASE Run.enter # <<>> -> at' = "enter" /\ todo' = Head(Run.enter)
       [] Run.regions # <<>> -> \/ at' = "regions" /\ todo' = Run.regions
                                \/ at' = "disk" /\ todo' = <<>>   \* nutanix_sparse_copy is off
       [] OTHER -> at' = "disk" /\ todo' = <<>>

(* An exception outside the export: _run_safely records the end. *)
End(how) ==
  /\ at' = IF how = "cancelled" THEN "left" ELSE "ended"
  /\ phase' = IF how = "cancelled" THEN phase ELSE "FAILED"
  /\ record' = info
  /\ outcome' = how /\ todo' = <<>>

(* Slip: whoever created the job is not asked. *)
MayStopSlip == TRUE

(* the machine is on: only with power_off_source is it shut down *)
MayStop == consent

(* The look at the power state, once the target is prepared.  A suspended  *)
(* vSphere machine is left alone.                                          *)
CheckPower ==
  /\ at = "power"
  /\ \/ /\ ~Run.mustBeOff \/ vm = "off"
        /\ StartExport
        /\ UNCHANGED <<phase, listed, trouble>>
     \/ /\ Run.mustBeOff /\ vm # "off"
        /\ IF MayStop /\ ~(src = "vsphere" /\ vm = "suspended")
           THEN /\ at' = "down" /\ todo' = Run.stop
                /\ UNCHANGED <<phase, listed, disk, round, attempt, outcome, pending, trouble>>
           ELSE /\ End("failed")
                /\ UNCHANGED <<info, handles, disk, round, attempt, pending, trouble>>
     \/ \* the call failed
        /\ End("failed")
        /\ trouble' = TRUE
        /\ UNCHANGED <<info, handles, disk, round, attempt, pending>>
  /\ UNCHANGED <<vm, world, status>> /\ Quiet

-----------------------------------------------------------------------------
(* One action per step of a script. *)

Scripted == {"down", "enter", "regions", "mapped", "open", "finish", "failing"}
Next1(op) == at \in Scripted /\ todo # <<>> /\ Head(todo)[1] = op
What1 == Head(todo)[2]
Here(w) == {r \in world : r[1] = w /\ r[2] = disk}
Advance == todo' = Tail(todo) /\ UNCHANGED <<at, disk, round, attempt, outcome, pending, phase>>

(* The temporary resource the regions are read from, once it is recorded: *)
(* its deletion is the finally of map_regions.                             *)
RegionsLeft(l) == LET w == IF src = "nutanix" THEN "point" ELSE "domain"
                  IN IF Made(w) \in l THEN <<Try(w)>> ELSE <<>>

(* _nutanix_regions: without a region map the disks are read in full *)
RaiseInRegions(why) ==
  /\ at' = "mapped" /\ todo' = RegionsLeft(info)
  /\ outcome' = IF why = "cancelled" THEN why ELSE "none"
  /\ UNCHANGED <<phase, record, pending>>

(* Everything the record lets a cleanup find: what it lists, and with      *)
(* Google Cloud whatever is below the prefix of the job.                   *)
Objects == IF src = "gcp" THEN {<<"object", d, 1>> : d \in Disk} ELSE {}
Findable(l) == l \cup Objects

(* What an exception does, by the place it is raised at.  NfcExport has    *)
(* no __exit__ before __enter__ returned; the other exports are closed.    *)
Raise(why) ==
  /\ CASE at = "down" \/ (at = "enter" /\ src = "vsphere") -> End(why) /\ UNCHANGED pending
       [] at = "enter" /\ src # "vsphere" ->
            /\ at' = "leave" /\ todo' = <<>> /\ outcome' = why
            /\ pending' = Findable(info)
            /\ UNCHANGED <<phase, record>>
       [] at = "regions" -> RaiseInRegions(why)
       [] OTHER ->
            /\ at' = "failing" /\ outcome' = why
            /\ todo' = IF src = "proxmox" /\ Made("nbd") \in handles THEN <<Try("nbd")>> ELSE <<>>
            /\ UNCHANGED <<phase, record, pending>>
  /\ UNCHANGED <<disk, round, attempt>>

Failing(why) == Raise(why) /\ trouble' = TRUE

(* The request to the guest, or the call that turns the machine off: it    *)
(* fails, or is heard; but the error of a guest that cannot be asked is    *)
(* passed over in vSphere.                                                 *)
DoStop ==
  /\ Next1("ask") \/ Next1("force")
  /\ vm' \in CASE vm = "on" -> {"on", "stopping"}
               [] vm = "suspended" /\ Head(todo) = TurnOff -> {"suspended", "stopping"}
               [] OTHER -> {vm}
  /\ \/ Advance /\ UNCHANGED <<record, trouble>>
     \/ ~(src = "vsphere" /\ Head(todo) = Ask) /\ Failing("failed")
  /\ UNCHANGED <<world, info, handles, status>> /\ Quiet

(* off: the export starts; or the next step at the deadline; or cancelled *)
DoOff ==
  /\ Next1("off")
  /\ \/ vm = "off" /\ StartExport /\ UNCHANGED <<phase, record, trouble>>
     \/ vm # "off" /\ Len(todo) > 1 /\ Advance /\ UNCHANGED <<record, trouble>>
     \/ vm # "off" /\ Len(todo) = 1 /\ Failing("failed")
     \/ vm # "off" /\ cancel /\ Raise("cancelled") /\ UNCHANGED trouble
  /\ UNCHANGED <<vm, world, info, handles, status>> /\ Quiet

DoCheck ==
  /\ Next1("check")
  /\ IF cancel THEN Raise("cancelled") ELSE Advance /\ UNCHANGED record
  /\ UNCHANGED <<vm, world, info, handles, status, trouble>> /\ Quiet

DoRead ==
  /\ Next1("read")
  /\ \/ Advance /\ UNCHANGED <<record, trouble>>
     \/ Failing("failed")
  /\ UNCHANGED <<vm, world, info, handles, status>> /\ Quiet

(* append to the list of the record, and save it *)
DoRecord ==
  /\ Next1("record")
  /\ info' = info \cup {Made(What1)}
  /\ record' = info'
  /\ Advance
  /\ UNCHANGED <<vm, world, handles, status, trouble>> /\ Quiet

DoKeep ==
  /\ Next1("keep")
  /\ handles' = handles \cup {Made(What1)}
  /\ Advance
  /\ UNCHANGED <<vm, world, info, record, status, trouble>> /\ Quiet

(* The call succeeds; or it fails, and may have had its effect. *)
DoCreate ==
  /\ Next1("create")
  /\ \/ world' = world \cup {Made(What1)} /\ Advance /\ UNCHANGED <<record, trouble>>
     \/ world' \in {world, world \cup {Made(What1)}} /\ Failing("failed")
  /\ UNCHANGED <<vm, info, handles, status>> /\ Quiet

(* The loops that poll: ready, failed or too late, or cancelled. *)
DoWait ==
  /\ Next1("wait")
  /\ \/ Advance /\ UNCHANGED <<record, trouble>>
     \/ Failing("failed")
     \/ /\ cancel /\ src # "vsphere"   \* the wait for a lease does not look
        /\ Raise("cancelled") /\ UNCHANGED trouble
  /\ UNCHANGED <<vm, world, info, handles, status>> /\ Quiet

(* What a deletion is about: the resource of this attempt; the image found *)
(* by its name; the transfers the object knows, or all of the disk.        *)
Targets == IF at # "open" THEN {{Made(What1)}}
           ELSE CASE What1 = "image" -> IF Here("image") = {} THEN {{}} ELSE {{r} : r \in Here("image")}
                  [] Head(todo) = Try("transfer") -> {handles}
                  [] OTHER -> {Here(What1)}

(* The record forgets what is gone and is saved; the export object forgets *)
(* a transfer even when the call failed.                                   *)
DoDrop ==
  /\ at \in Scripted /\ todo # <<>> /\ Head(todo)[1] \in {"drop", "try"}
  /\ \E gone \in Targets :
       \/ /\ world' = world \ gone /\ info' = info \ gone /\ handles' = handles \ gone
          /\ record' = IF info' = info THEN record ELSE info'
          /\ Advance /\ UNCHANGED trouble
       \/ /\ Head(todo)[1] = "try"
          /\ handles' = handles \ gone /\ world' \in {world, world \ gone}
          /\ trouble' = TRUE
          /\ Advance /\ UNCHANGED <<info, record>>
       \/ /\ Head(todo)[1] = "drop"
          /\ world' \in {world, world \ gone}
          /\ Failing("failed") /\ UNCHANGED <<info, handles>>
  /\ UNCHANGED <<vm, status>> /\ Quiet

-----------------------------------------------------------------------------
(* Between the scripts. *)

(* Slip: the last disk is left out. *)
LastDiskSlip == IF Disks > 1 THEN Disks - 1 ELSE 1

(* One lease serves all disks. *)
LastDisk == IF src = "vsphere" THEN 1 ELSE Disks

(* __enter__: the next disk, the next script, or the loop over the disks *)
EnterMore ==
  /\ at = "enter" /\ todo = <<>>
  /\ IF disk < LastDisk
     THEN disk' = disk + 1 /\ todo' = Run.enter[round] /\ UNCHANGED <<at, round>>
     ELSE IF round < Len(Run.enter)
     THEN disk' = 1 /\ round' = round + 1 /\ todo' = Run.enter[round + 1] /\ UNCHANGED at
     ELSE disk' = 1 /\ at' = "disk" /\ UNCHANGED <<round, todo>>
  /\ UNCHANGED <<vm, world, listed, status, phase, attempt, outcome, pending, trouble>> /\ Quiet

(* map_regions returned: its finally, then the disks or the exit *)
RegionsDone ==
  /\ todo = <<>>
  /\ \/ /\ at = "regions" /\ at' = "mapped" /\ todo' = RegionsLeft(info)
        /\ UNCHANGED <<pending, outcome>>
     \/ /\ at = "mapped" /\ UNCHANGED todo
        /\ IF outcome = "cancelled"
           THEN at' = "leave" /\ pending' = info /\ UNCHANGED outcome
           ELSE at' = "disk" /\ UNCHANGED <<pending, outcome>>
  /\ UNCHANGED <<vm, world, listed, status, phase, disk, round, attempt, trouble>> /\ Quiet

(* What the exit of the export goes through. *)
ToRelease(l) == IF src \in {"vsphere", "olvm"} THEN handles ELSE Findable(l)

Leave(how, l) == at' = "leave" /\ outcome' = how /\ todo' = <<>> /\ pending' = ToRelease(l)

(* The loop over the disks, and the head of every attempt: the flag, the   *)
(* status, the save, the writer; a device that cannot be opened ends it.   *)
StartDisk ==
  /\ at = "disk"
  /\ \/ /\ disk > Disks
        /\ Leave("done", info)
        /\ UNCHANGED <<status, record, trouble>>
     \/ /\ disk <= Disks /\ cancel
        /\ Leave("cancelled", info)
        /\ UNCHANGED <<status, record, trouble>>
     \/ /\ disk <= Disks /\ ~cancel
        /\ status' = [status EXCEPT ![disk] = "copying"]
        /\ record' = info
        /\ \/ at' = "open" /\ todo' = Run.copy.open /\ UNCHANGED <<outcome, pending, trouble>>
           \/ Leave("failed", info) /\ trouble' = TRUE
  /\ UNCHANGED <<vm, world, info, handles, phase, disk, round, attempt>> /\ Quiet

(* Everything is open: the bytes are copied. *)
StartCopy ==
  /\ at = "open" /\ todo = <<>>
  /\ at' = "copy"
  /\ UNCHANGED <<vm, world, listed, status, phase, todo, disk, round, attempt, outcome, pending, trouble>>
  /\ Quiet

Copied ==
  /\ at = "copy"
  /\ \/ at' = "finish" /\ todo' = Run.copy.finish
        /\ UNCHANGED <<phase, record, disk, round, attempt, outcome, pending, trouble>>
     \/ Failing("failed")
     \/ cancel /\ Raise("cancelled") /\ UNCHANGED trouble
  /\ UNCHANGED <<vm, world, info, handles, status>> /\ Quiet

(* The end of an attempt that succeeded: COPIED is saved, the next disk. *)
FinishDisk ==
  /\ at = "finish" /\ todo = <<>>
  /\ status' = [status EXCEPT ![disk] = "copied"]
  /\ record' = info
  /\ at' = "disk" /\ disk' = disk + 1 /\ attempt' = 1
  /\ UNCHANGED <<vm, world, info, handles, phase, todo, round, outcome, pending, trouble>> /\ Quiet

(* Slip: one attempt too many. *)
FailDiskSlip ==
  /\ at = "failing" /\ todo = <<>>
  /\ status' = [status EXCEPT ![disk] = "failed"]
  /\ at' = "disk" /\ attempt' = attempt + 1 /\ outcome' = "none" /\ record' = info
  /\ attempt <= MaxAttempts
  /\ UNCHANGED <<todo, pending, vm, world, info, handles, phase, disk, round, trouble>> /\ Quiet

(* An attempt that failed: FAILED is saved, and there is another one, or   *)
(* ExportError; a cancelled one leaves at once.                            *)
FailDisk ==
  /\ at = "failing" /\ todo = <<>>
  /\ status' = [status EXCEPT ![disk] = "failed"]
  /\ IF outcome = "failed" /\ attempt < MaxAttempts
     THEN at' = "disk" /\ attempt' = attempt + 1 /\ outcome' = "none" /\ record' = info
          /\ UNCHANGED <<todo, pending>>
     ELSE /\ Leave(outcome, info)
          /\ record' = IF outcome = "failed" THEN info ELSE record
          /\ UNCHANGED attempt
  /\ UNCHANGED <<vm, world, info, handles, phase, disk, round, trouble>> /\ Quiet

-----------------------------------------------------------------------------
(* Taking the resources away: release_<source>_resources. *)

Rank(r) == CHOOSE i \in DOMAIN Run.exit.order : Run.exit.order[i] = r[1]
First1(S) == {r \in S : \A q \in S : Rank(r) <= Rank(q)}

(* Azure refuses to delete a snapshot with an access grant on it. *)
Refused(r) == src = "azure" /\ r[1] = "snapshot" /\ <<"grant", r[2], r[3]>> \in world

(* Slip: the record keeps what was deleted. *)
ReleaseOkSlip(r) ==
  /\ at \in {"leave", "release"} /\ r \in First1(pending) /\ ~Refused(r)
  /\ world' = world \ {r} /\ handles' = handles \ {r}
  /\ pending' = pending \ {r}
  /\ UNCHANGED <<vm, info, record, status, phase, at, todo, disk, round, attempt, outcome, trouble>> /\ Quiet

ReleaseOk(r) ==
  /\ at \in {"leave", "release"} /\ r \in First1(pending) /\ ~Refused(r)
  /\ world' = world \ {r} /\ info' = info \ {r} /\ handles' = handles \ {r}
  /\ pending' = pending \ {r}
  /\ UNCHANGED <<vm, record, status, phase, at, todo, disk, round, attempt, outcome, trouble>> /\ Quiet

ReleaseFails(r) ==
  /\ at \in {"leave", "release"} /\ r \in First1(pending)
  /\ world' \in {world, IF Refused(r) THEN world ELSE world \ {r}}
  /\ info' = IF r[1] \in Run.exit.forgets THEN info \ {r} ELSE info
  /\ handles' = handles \ {r}
  /\ pending' = pending \ {r}
  /\ trouble' = TRUE
  /\ UNCHANGED <<vm, record, status, phase, at, todo, disk, round, attempt, outcome>> /\ Quiet

(* Google Cloud: a listing that fails is raised out of the release; on the *)
(* exit of the export it takes the place of a cancel.                      *)
ReleaseAborts ==
  /\ src = "gcp" /\ at \in {"leave", "release"} /\ pending # {}
  /\ Objects \subseteq pending \/ Objects \cap pending = {}
  /\ pending' = {}
  /\ outcome' = IF at = "leave" THEN "failed" ELSE outcome
  /\ trouble' = TRUE
  /\ UNCHANGED <<vm, world, listed, status, phase, at, todo, disk, round, attempt>> /\ Quiet

(* close: the record is saved, but GcpDiskExport.close leaves that to the  *)
(* next save; then an exception goes on, or the export is done.            *)
LeaveDone ==
  /\ at = "leave" /\ pending = {}
  /\ IF outcome = "failed"
     THEN End("failed")
     ELSE /\ at' = "left"
          /\ record' = IF src = "gcp" THEN record ELSE info
          /\ UNCHANGED <<phase, todo, outcome>>
  /\ UNCHANGED <<vm, world, info, handles, status, disk, round, attempt, pending, trouble>> /\ Quiet

(* After the export: on to the guest; or the cleanup of a cancelled job,   *)
(* whose session still has the login.  An error of the cleanup in OCI      *)
(* comes before the release.                                               *)
AfterExport ==
  /\ at = "left"
  /\ record' = info
  /\ IF outcome = "done" /\ ~cancel
     THEN at' = "fixup" /\ UNCHANGED <<phase, pending, outcome, trouble>>
     ELSE /\ outcome' = "cancelled"
          /\ \/ at' = "release" /\ pending' = Findable(info) /\ UNCHANGED <<phase, trouble>>
             \/ at' = "ended" /\ phase' = "CANCELLED" /\ trouble' = TRUE /\ UNCHANGED pending
  /\ UNCHANGED <<vm, world, info, handles, status, todo, disk, round, attempt>> /\ Quiet

(* release_source: saved at its end *)
ReleaseDone ==
  /\ at = "release" /\ pending = {}
  /\ record' = info /\ phase' = "CANCELLED" /\ at' = "ended"
  /\ UNCHANGED <<vm, world, info, handles, status, todo, disk, round, attempt, outcome, pending, trouble>>
  /\ Quiet

(* _guest_fixup never fails the job; finalize may. *)
FixupAndFinalize ==
  /\ at = "fixup"
  /\ at' = "ended" /\ phase' \in {"COMPLETED", "FAILED"}
  /\ trouble' = (trouble \/ phase' = "FAILED")
  /\ UNCHANGED <<vm, world, listed, status, todo, disk, round, attempt, outcome, pending>> /\ Quiet

-----------------------------------------------------------------------------
(* Around the task. *)

RequestCancel ==
  /\ at # "ended" /\ ~cancel
  /\ cancel' = TRUE
  /\ UNCHANGED <<job, vm, world, listed, status, phase, place, trouble, crashes>>

(* The service stops: what is in memory is lost, fail_stale_jobs.  NBD     *)
(* servers, snapshots and the rest stay.                                   *)
Crash ==
  /\ at # "ended" /\ crashes < MaxCrashes
  /\ crashes' = crashes + 1 /\ trouble' = TRUE
  /\ at' = "ended" /\ phase' = "FAILED" /\ cancel' = FALSE
  /\ info' = {} /\ handles' = {} /\ todo' = <<>> /\ pending' = {} /\ outcome' = "none"
  /\ UNCHANGED <<job, vm, world, record, status, disk, round, attempt>>

(* A cleanup asked for later works on the record; release_source needs a   *)
(* login to that source in the session of whoever asks.                    *)
AskCleanup ==
  /\ at = "ended" /\ phase \in {"FAILED", "CANCELLED"} /\ src \notin {"vsphere", "olvm", "hyperv"}
  /\ Findable(record) # {}
  /\ at' = "release" /\ info' = record /\ pending' = Findable(record)
  /\ UNCHANGED <<job, vm, world, record, handles, status, cancel, phase, todo, disk, round,
                 attempt, outcome, trouble, crashes>>

(* The machine goes down some time after it was told to. *)
GoesDown ==
  /\ vm = "stopping" /\ vm' = "off"
  /\ UNCHANGED <<job, world, listed, status, cancel, phase, place, trouble, crashes>>

(* What nobody renews ends by itself at the source. *)
Expire ==
  /\ at \in {"release", "ended"}
  /\ \E r \in world : /\ r[1] \in {"grant", "transfer", "lease", "point"}
                      /\ world' = world \ {r}
  /\ UNCHANGED <<job, vm, listed, status, cancel, phase, place, trouble, crashes>>

TaskStep ==
  \/ CheckPower \/ DoStop \/ DoOff
  \/ DoCheck \/ DoRead \/ DoRecord \/ DoKeep \/ DoCreate \/ DoWait \/ DoDrop
  \/ EnterMore \/ RegionsDone \/ StartDisk \/ StartCopy \/ Copied \/ FinishDisk \/ FailDisk
  \/ ReleaseAborts \/ LeaveDone \/ AfterExport \/ ReleaseDone \/ FixupAndFinalize
  \/ \E r \in pending : ReleaseOk(r) \/ ReleaseFails(r)

Next == TaskStep \/ RequestCancel \/ Crash \/ AskCleanup \/ Expire \/ GoesDown

(* The pool runs the task: every call returns, every wait has a deadline.  *)
(* What nobody renews expires.  An operator repeats the cleanup of what is *)
(* still listed, and a deletion that is tried again and again succeeds in  *)
(* the end.                                                                *)
Fairness ==
  /\ WF_vars(TaskStep) /\ WF_vars(Expire) /\ WF_vars(AskCleanup)
  /\ SF_vars(\E r \in pending : r \in info \cup world /\ ReleaseOk(r))
  /\ SF_vars(\E r \in pending : r[1] = "object" /\ ReleaseOk(r))

Spec == Init /\ [][Next]_vars /\ Fairness

-----------------------------------------------------------------------------
(* What each source lists before it makes it. *)
ListedFirst(r) == \/ src \in {"azure", "gcp"} /\ r[1] = "snapshot"
                  \/ src = "proxmox" /\ r[1] = "nbd"
                  \/ src = "prism_element" /\ r[1] = "domain"

(* What is listed before it is made is in the stored record for as long as *)
(* it exists: whatever is cancelled, fails or stops in between, a cleanup  *)
(* finds it ("record the ID before the call so a crash mid-way still       *)
(* leaves a trace for the cleanup", azure/export.py:83).                   *)
CrashLeavesTrace == \A r \in world : ListedFirst(r) => r \in record

(* While a disk is copied, all it is copied from exists at the source:     *)
(* nothing was released, replaced or cleaned up under the copy.            *)
CopyHasSource ==
  at = "copy" =>
    CASE src = "vsphere" -> <<"lease", 1, 1>> \in world
      [] src = "azure" -> /\ <<"grant", disk, 1>> \in world
                          /\ capture = "snapshot" => <<"snapshot", disk, 1>> \in world
      [] src = "aws" -> <<"snapshot", disk, 1>> \in world
      [] src = "gcp" -> <<"object", disk, 1>> \in world
      [] src \in {"nutanix", "prism_element"} -> Made("image") \in world
      [] src = "olvm" -> Made("transfer") \in world
      [] src = "proxmox" -> Made("nbd") \in world
      [] OTHER -> TRUE

(* When every call to the source worked, a job that ended left nothing     *)
(* there, wherever it was cancelled.  It holds for the sources that can    *)
(* name or find what they are making.                                      *)
CancelLeavesNothing == at = "ended" /\ ~trouble => world = {}

NamesWhatItMakes == {"vsphere", "gcp", "olvm", "proxmox", "hyperv"}
NothingLeftBehind == src \in NamesWhatItMakes => CancelLeavesNothing

(* What is listed before it is made stays in the stored record, what a     *)
(* disk is copied from exists for as long as the copy lasts, and when      *)
(* every call worked a job that ended left nothing at its source.          *)
SourceTraced == TypeOK /\ CrashLeavesTrace /\ CopyHasSource /\ NothingLeftBehind

(* The machine is turned off only by a job whose creator agreed, and a     *)
(* suspended vSphere machine never is.                                     *)
StopsOnlyWithConsent ==
  [][vm' # vm => consent /\ ~(src = "vsphere" /\ vm = "suspended")]_vars

(* What a failed or cancelled job lists is released in the end, when its   *)
(* cleanup is repeated.                                                    *)
ListedIsReleased ==
  (at = "ended" /\ phase \in {"FAILED", "CANCELLED"} /\ record # {}) ~> (record = {})
=============================================================================
