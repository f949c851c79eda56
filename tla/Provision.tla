------------------------------ MODULE Provision ------------------------------
(***************************************************************************)
(* What a migration does to OCI: Provisioner.prepare, finalize and cleanup *)
(* (oci/provision.py, oci/cleanup.py).  A placeholder instance is launched *)
(* and stopped, its boot volume and the data volumes are attached to the   *)
(* migration tool VM (the helper), written to, and given back.             *)
(*                                                                         *)
(* Every call to OCI takes effect at once or later; the record names what  *)
(* it created only after the save that follows the call; a call or a wait  *)
(* may fail; the service may restart between any two steps.  OCI refuses   *)
(* what it refuses in the tests' fake_oci.py.                              *)
(***************************************************************************)
EXTENDS Naturals, FiniteSets

CONSTANTS Job, Disk,
          BootOf, DataOf,  \* disk 0 of a job, and its other disks
          Size,            \* sizes that device_size_matches tells apart
          MaxFaults,       \* bound on failing calls and waits
          MaxRestarts,     \* bound on restarts of the service
          None, Named

DisksOf(j) == {BootOf[j]} \cup DataOf[j]

ASSUME ProvisionAssumption ==
  /\ BootOf \in [Job -> Disk]
  /\ DataOf \in [Job -> SUBSET Disk]
  /\ \A j \in Job : BootOf[j] \notin DataOf[j]
  /\ \A j, k \in Job : j # k => DisksOf(j) \cap DisksOf(k) = {}
  /\ IsFiniteSet(Disk)
  /\ Size \in [Disk -> Nat]
  /\ MaxFaults \in Nat /\ MaxRestarts \in Nat
  /\ None \notin Disk \cup Nat \cup Job

VARIABLES
  emulated, staysOff,  \* jobs with emulated attachments; with start_after_migration off
  \* the record
  phase, instId, copied, volId, helperAtt, targetAtt, device,
  \* the thread of a job: where it is, the disk it is at, and its locals
  at, cur, cancel, started, tried,
  \* OCI: instances, volumes, attachments to the helper and to the target
  inst, exists, help, targ,
  \* the helper: the kernel's disks, _attach_lock and the scan made under it
  sys, lock, before,
  content,             \* whose data was written to a volume
  faults, restarts,
  \* history: an attempt of the cleanup failed; finalize was called again; volumes
  \* with a call in flight that was interrupted before its outcome was known; jobs
  \* that gave up between the scan and the device
  botched, retried, stray, abandoned

options == <<emulated, staysOff>>
record == <<phase, instId, copied, volId, helperAtt, targetAtt, device>>
thread == <<at, cur, cancel, started, tried>>
oci == <<inst, exists, help, targ>>
helper == <<sys, lock, before, content>>
ghosts == <<faults, restarts, botched, retried, stray, abandoned>>
vars == <<options, record, thread, oci, helper, ghosts>>

Path == 1..Cardinality(Disk)

(* Places of prepare and the copy, of finalize, and of cleanup.  After a   *)
(* call the thread is at a place named for what it has to save or wait for. *)
PreparePlaces == {"launch", "launched", "booting", "create", "created", "pre", "preattached",
                  "prewait", "stopping", "detach", "unboot", "unbootwait", "helper", "helped",
                  "helpwait", "search", "copy", "copied"}
FinalizePlaces == {"fdetach", "fdetwait", "fboot", "fbooted", "fbootwait", "fpend", "fstart",
                   "fstartwait", "fdata", "fattached", "fattwait", "fend", "fstopwait", "fdone"}
CleanupPlaces == {"cdetach", "cdetwait", "ctarget", "ctargwait", "cterminate", "cdelete"}

Phases == {"QUEUED", "PROVISIONING", "EXPORTING", "FINALIZING", "COMPLETED", "FAILED",
           "CANCELLED"}
Attachment == {"no", "attaching", "attached", "detaching"}

TypeOK ==
  /\ emulated \subseteq Job /\ staysOff \subseteq Job
  /\ phase \in [Job -> Phases]
  /\ instId \subseteq Job /\ copied \subseteq instId
  /\ volId \subseteq Disk /\ helperAtt \subseteq volId /\ targetAtt \subseteq volId
  /\ device \in [Disk -> Path \cup {Named, None}]
  /\ at \in [Job -> {"idle"} \cup PreparePlaces \cup FinalizePlaces \cup CleanupPlaces]
  /\ cur \in [Job -> Disk \cup {None}]
  /\ cancel \subseteq Job /\ started \subseteq Job /\ tried \subseteq Disk
  /\ inst \in [Job -> {"none", "starting", "running", "stopping", "stopped", "gone"}]
  /\ exists \subseteq Disk
  /\ help \in [Disk -> Attachment] /\ targ \in [Disk -> Attachment]
  /\ sys \in [Path -> Disk \cup {None}]
  /\ lock \in Job \cup {None} /\ before \subseteq Path
  /\ content \in [Disk -> Disk \cup {None}]
  /\ faults \in 0..MaxFaults /\ restarts \in 0..MaxRestarts
  /\ botched \subseteq Job /\ retried \subseteq Job /\ stray \subseteq Disk
  /\ abandoned \subseteq Job

Init ==
  /\ emulated \in SUBSET {j \in Job : DataOf[j] # {}} /\ staysOff \in SUBSET Job
  /\ phase = [j \in Job |-> "QUEUED"]
  /\ instId = {} /\ copied = {} /\ volId = {} /\ helperAtt = {} /\ targetAtt = {}
  /\ device = [d \in Disk |-> None]
  /\ at = [j \in Job |-> "launch"] /\ cur = [j \in Job |-> None]
  /\ cancel = {} /\ started = {} /\ tried = {}
  /\ inst = [j \in Job |-> "none"] /\ exists = {}
  /\ help = [d \in Disk |-> "no"] /\ targ = [d \in Disk |-> "no"]
  /\ sys = [p \in Path |-> None] /\ lock = None /\ before = {}
  /\ content = [d \in Disk |-> None]
  /\ faults = 0 /\ restarts = 0 /\ botched = {} /\ retried = {} /\ stray = {} /\ abandoned = {}

-----------------------------------------------------------------------------
Goto(j, place) == at' = [at EXCEPT ![j] = place] /\ UNCHANGED <<cur, cancel, started, tried>>
GotoDisk(j, place, d) == /\ at' = [at EXCEPT ![j] = place]
                         /\ cur' = [cur EXCEPT ![j] = d]
                         /\ UNCHANGED <<cancel, started, tried>>
Phase(j, p) == phase' = [phase EXCEPT ![j] = p]

(* _step(check=...): the flag is looked at before the next call. *)
Checked(j, place) == at[j] = place /\ j \notin cancel

Visible == {p \in Path : sys[p] # None}

-----------------------------------------------------------------------------
(* prepare *)

(* LaunchInstance returns; the boot volume comes with the instance ... *)
Launch(j) ==
  /\ Checked(j, "launch")
  /\ Phase(j, "PROVISIONING")
  /\ inst' = [inst EXCEPT ![j] = "starting"]
  /\ exists' = exists \cup {BootOf[j]}
  /\ targ' = [targ EXCEPT ![BootOf[j]] = "attached"]
  /\ Goto(j, "launched")
  /\ UNCHANGED <<options, instId, copied, volId, helperAtt, targetAtt, device, help, helper, ghosts>>

(* ... and instance_id is saved. *)
SaveInstance(j) ==
  /\ at[j] = "launched"
  /\ instId' = instId \cup {j}
  /\ Goto(j, "booting")
  /\ UNCHANGED <<options, phase, copied, volId, helperAtt, targetAtt, device, oci, helper, ghosts>>

Booted(j) ==
  /\ at[j] = "booting"
  /\ inst[j] = "running"
  /\ Goto(j, "create")
  /\ UNCHANGED <<options, record, oci, helper, ghosts>>

(* A data volume is created, and its id saved. *)
CreateVolume(j) ==
  /\ Checked(j, "create")
  /\ \E d \in DataOf[j] \ volId :
       /\ exists' = exists \cup {d}
       /\ GotoDisk(j, "created", d)
  /\ UNCHANGED <<options, record, inst, help, targ, helper, ghosts>>

SaveVolume(j) ==
  /\ at[j] = "created"
  /\ volId' = volId \cup {cur[j]}
  /\ Goto(j, "create")
  /\ UNCHANGED <<options, phase, instId, copied, helperAtt, targetAtt, device, oci, helper, ghosts>>

VolumesReady(j) ==
  /\ at[j] = "create"
  /\ DataOf[j] \subseteq volId
  /\ Goto(j, "pre")
  /\ UNCHANGED <<options, record, oci, helper, ghosts>>

(* OCI attaches a data volume to a running instance only, and a volume     *)
(* that is attached elsewhere only if all its attachments are shareable.   *)
MayAttachToTarget(j, d) == inst[j] = "running" /\ targ[d] = "no"
                           /\ (help[d] = "no" \/ j \notin emulated)

(* _attach_to_target, before the first boot unless attachments are emulated *)
PreAttach(j) ==
  /\ Checked(j, "pre")
  /\ j \notin emulated
  /\ \E d \in DataOf[j] \ targetAtt :
       /\ MayAttachToTarget(j, d)
       /\ targ' = [targ EXCEPT ![d] = "attaching"]
       /\ GotoDisk(j, "preattached", d)
  /\ UNCHANGED <<options, record, inst, exists, help, helper, ghosts>>

(* The attachment id is saved before the wait, here and in finalize. *)
SaveTargetAttachment(j) ==
  /\ at[j] \in {"preattached", "fattached", "fbooted"}
  /\ targetAtt' = targetAtt \cup {cur[j]}
  /\ Goto(j, CASE at[j] = "preattached" -> "prewait"
               [] at[j] = "fattached" -> "fattwait"
               [] OTHER -> "fbootwait")
  /\ UNCHANGED <<options, phase, instId, copied, volId, helperAtt, device, oci, helper, ghosts>>

TargetAttached(j) ==
  /\ at[j] \in {"prewait", "fattwait", "fbootwait"}
  /\ targ[cur[j]] = "attached"
  /\ Goto(j, CASE at[j] = "prewait" -> "pre" [] at[j] = "fattwait" -> "fdata" [] OTHER -> "fpend")
  /\ UNCHANGED <<options, record, oci, helper, ghosts>>

(* Slip: the instance is stopped first. *)
StopSlip(j) ==
  /\ Checked(j, "pre")
  /\ inst' = [inst EXCEPT ![j] = "stopping"]
  /\ Goto(j, IF j \in emulated \/ DataOf[j] \subseteq targetAtt THEN "stopping" ELSE "pre")
  /\ UNCHANGED <<options, record, exists, help, targ, helper, ghosts>>

Stop(j) ==
  /\ Checked(j, "pre")
  /\ j \in emulated \/ DataOf[j] \subseteq targetAtt
  /\ inst' = [inst EXCEPT ![j] = "stopping"]
  /\ Goto(j, "stopping")
  /\ UNCHANGED <<options, record, exists, help, targ, helper, ghosts>>

Stopped(j) ==
  /\ at[j] \in {"stopping", "fstopwait"}
  /\ inst[j] = "stopped"
  /\ Goto(j, IF at[j] = "stopping" THEN "detach" ELSE "fdone")
  /\ UNCHANGED <<options, record, oci, helper, ghosts>>

(* Slip: the detached volume is not recorded. *)
SaveBootVolumeSlip(j) ==
  /\ Checked(j, "detach")
  /\ Goto(j, "unboot")
  /\ UNCHANGED <<options, record, oci, helper, ghosts>>

(* boot_volume_id is saved before the boot volume is detached. *)
SaveBootVolume(j) ==
  /\ Checked(j, "detach")
  /\ volId' = volId \cup {BootOf[j]}
  /\ Goto(j, "unboot")
  /\ UNCHANGED <<options, phase, instId, copied, helperAtt, targetAtt, device, oci, helper, ghosts>>

DetachBoot(j) ==
  /\ at[j] = "unboot"
  /\ targ' = [targ EXCEPT ![BootOf[j]] = "detaching"]
  /\ Goto(j, "unbootwait")
  /\ UNCHANGED <<options, record, inst, exists, help, helper, ghosts>>

BootDetached(j) ==
  /\ at[j] = "unbootwait"
  /\ targ[BootOf[j]] = "no"
  /\ Goto(j, "helper")
  /\ UNCHANGED <<options, record, oci, helper, ghosts>>

(* Slip: without the lock. *)
AttachBootSlip(j) ==
  /\ Checked(j, "helper")
  /\ device[BootOf[j]] = None
  /\ lock' = j
  /\ before' = Visible
  /\ help' = [help EXCEPT ![BootOf[j]] = "attaching"]
  /\ GotoDisk(j, "helped", BootOf[j])
  /\ UNCHANGED <<options, record, inst, exists, targ, sys, content, ghosts>>

(* _attach_to_helper of a boot volume: OCI takes no device path for it, so *)
(* the disks are scanned before, under the lock of all jobs ...            *)
AttachBoot(j) ==
  /\ Checked(j, "helper")
  /\ device[BootOf[j]] = None
  /\ lock = None
  /\ lock' = j
  /\ before' = Visible
  /\ help' = [help EXCEPT ![BootOf[j]] = "attaching"]
  /\ GotoDisk(j, "helped", BootOf[j])
  /\ UNCHANGED <<options, record, inst, exists, targ, sys, content, ghosts>>

(* ... of a data volume: by name, and as a second attachment if it already *)
(* hangs off the target.                                                   *)
AttachData(j) ==
  /\ Checked(j, "helper")
  /\ device[BootOf[j]] # None
  /\ \E d \in DataOf[j] :
       /\ device[d] = None
       /\ help' = [help EXCEPT ![d] = "attaching"]
       /\ GotoDisk(j, "helped", d)
  /\ UNCHANGED <<options, record, inst, exists, targ, helper, ghosts>>

SaveHelperAttachment(j) ==
  /\ at[j] = "helped"
  /\ helperAtt' = helperAtt \cup {cur[j]}
  /\ Goto(j, "helpwait")
  /\ UNCHANGED <<options, phase, instId, copied, volId, targetAtt, device, oci, helper, ghosts>>

HelperAttached(j) ==
  /\ at[j] = "helpwait"
  /\ help[cur[j]] = "attached"
  /\ IF cur[j] = BootOf[j]
     THEN Goto(j, "search") /\ UNCHANGED device
     ELSE Goto(j, "helper") /\ device' = [device EXCEPT ![cur[j]] = Named]
  /\ UNCHANGED <<options, phase, instId, copied, volId, helperAtt, targetAtt, oci, helper, ghosts>>

(* wait_for_new_device: the disks of about the right size that were not    *)
(* there at the scan                                                       *)
Candidates(j) == {p \in Visible \ before : Size[sys[p]] = Size[BootOf[j]]}

FoundDevice(j) ==
  /\ at[j] = "search"
  /\ \E p \in Path : Candidates(j) = {p} /\ device' = [device EXCEPT ![BootOf[j]] = p]
  /\ lock' = None
  /\ Goto(j, "helper")
  /\ UNCHANGED <<options, phase, instId, copied, volId, helperAtt, targetAtt, oci, sys, before,
                 content, ghosts>>

(* Everything is attached: the copy writes each disk through its device. *)
VolumeAt(d) == IF device[d] = Named THEN d ELSE sys[device[d]]

Ready(j) ==
  /\ Checked(j, "helper")
  /\ \A d \in DisksOf(j) : device[d] # None
  /\ Phase(j, "EXPORTING")
  /\ Goto(j, "copy")
  /\ UNCHANGED <<options, instId, copied, volId, helperAtt, targetAtt, device, oci, helper, ghosts>>

CopyDisks(j) ==
  /\ Checked(j, "copy")
  /\ \A d \in DisksOf(j) : VolumeAt(d) # None
  /\ content' = [v \in Disk |-> IF \E d \in DisksOf(j) : VolumeAt(d) = v
                                THEN CHOOSE d \in DisksOf(j) : VolumeAt(d) = v ELSE content[v]]
  /\ copied' = copied \cup {j}
  /\ Goto(j, "copied")
  /\ UNCHANGED <<options, phase, instId, volId, helperAtt, targetAtt, device, oci, sys, lock,
                 before, ghosts>>

-----------------------------------------------------------------------------
(* finalize: called after the copy, or again for a job that FAILED in it.  *)

Finalize(j) ==
  /\ \/ Checked(j, "copied") /\ UNCHANGED retried
     \/ at[j] = "idle" /\ phase[j] = "FAILED" /\ j \in copied /\ retried' = retried \cup {j}
  /\ Phase(j, "FINALIZING")
  /\ at' = [at EXCEPT ![j] = "fdetach"]
  /\ started' = started \ {j}
  /\ UNCHANGED <<options, instId, copied, volId, helperAtt, targetAtt, device, cur, cancel, tried,
                 oci, helper, faults, restarts, botched, stray, abandoned>>

Detach(d, attachment) ==
  IF attachment[d] = "no" THEN attachment ELSE [attachment EXCEPT ![d] = "detaching"]

(* Slip: DETACHING is as good as DETACHED. *)
DetachHelperSlip(j) ==
  /\ at[j] \in {"fdetach", "cdetach"}
  /\ \E d \in DisksOf(j) \cap helperAtt :
       /\ help' = Detach(d, help)
       /\ helperAtt' = helperAtt \ {d}
       /\ device' = [device EXCEPT ![d] = None]
  /\ UNCHANGED <<options, phase, instId, copied, volId, targetAtt, thread, inst, exists, targ,
                 helper, ghosts>>

(* _detach_all_from_helper, also of cleanup *)
DetachHelper(j) ==
  /\ at[j] \in {"fdetach", "cdetach"}
  /\ \E d \in DisksOf(j) \cap helperAtt :
       /\ help' = Detach(d, help)
       /\ GotoDisk(j, IF at[j] = "fdetach" THEN "fdetwait" ELSE "cdetwait", d)
  /\ UNCHANGED <<options, record, inst, exists, targ, helper, ghosts>>

HelperDetached(j) ==
  /\ at[j] \in {"fdetwait", "cdetwait"}
  /\ help[cur[j]] = "no"
  /\ helperAtt' = helperAtt \ {cur[j]}
  /\ device' = [device EXCEPT ![cur[j]] = None]
  /\ Goto(j, IF at[j] = "fdetwait" THEN "fdetach" ELSE "cdetach")
  /\ UNCHANGED <<options, phase, instId, copied, volId, targetAtt, oci, helper, ghosts>>

HelperFree(j) ==
  /\ at[j] \in {"fdetach", "cdetach"}
  /\ DisksOf(j) \cap helperAtt = {}
  /\ Goto(j, IF at[j] = "fdetach" THEN "fboot" ELSE "ctarget")
  /\ UNCHANGED <<options, record, oci, helper, ghosts>>

(* The boot volume, unless its attachment is recorded already *)
MayAttachBoot(j) == inst[j] = "stopped" /\ targ[BootOf[j]] = "no" /\ help[BootOf[j]] = "no"

ReattachBoot(j) ==
  /\ at[j] = "fboot"
  /\ IF BootOf[j] \in targetAtt
     THEN Goto(j, "fpend") /\ UNCHANGED targ
     ELSE /\ MayAttachBoot(j)
          /\ targ' = [targ EXCEPT ![BootOf[j]] = "attaching"]
          /\ GotoDisk(j, "fbooted", BootOf[j])
  /\ UNCHANGED <<options, record, inst, exists, help, helper, ghosts>>

Pending(j) == DataOf[j] \ targetAtt

(* The data volumes that are left need a running instance. *)
LookPending(j) ==
  /\ at[j] = "fpend"
  /\ at' = [at EXCEPT ![j] = IF Pending(j) = {} THEN "fend" ELSE "fstart"]
  /\ started' = IF Pending(j) = {} THEN started ELSE started \cup {j}
  /\ UNCHANGED <<options, record, cur, cancel, tried, oci, helper, ghosts>>

(* _start_target; an instance without its boot volume does not start. *)
MayStart(j) == inst[j] \in {"starting", "running"} \/
               (inst[j] = "stopped" /\ targ[BootOf[j]] = "attached")

StartTarget(j) ==
  /\ at[j] = "fstart"
  /\ MayStart(j)
  /\ inst' = [inst EXCEPT ![j] = IF @ = "stopped" THEN "starting" ELSE @]
  /\ Goto(j, "fstartwait")
  /\ UNCHANGED <<options, record, exists, help, targ, helper, ghosts>>

TargetRuns(j) ==
  /\ at[j] = "fstartwait"
  /\ inst[j] = "running"
  /\ Goto(j, IF j \in started THEN "fdata" ELSE "fdone")
  /\ UNCHANGED <<options, record, oci, helper, ghosts>>

PlugData(j) ==
  /\ at[j] = "fdata"
  /\ IF Pending(j) = {}
     THEN Goto(j, "fend") /\ UNCHANGED targ
     ELSE \E d \in Pending(j) :
            /\ MayAttachToTarget(j, d)
            /\ targ' = [targ EXCEPT ![d] = "attaching"]
            /\ GotoDisk(j, "fattached", d)
  /\ UNCHANGED <<options, record, inst, exists, help, helper, ghosts>>

(* Slip: only an instance that was not started yet is looked at. *)
StartOrStopSlip(j) ==
  /\ at[j] = "fend"
  /\ Goto(j, IF j \in started \cup staysOff THEN "fdone" ELSE "fstart")
  /\ UNCHANGED <<options, record, oci, helper, ghosts>>

(* Started as asked for, or stopped again *)
StartOrStop(j) ==
  /\ at[j] = "fend"
  /\ IF j \in started /\ j \in staysOff
     THEN inst' = [inst EXCEPT ![j] = "stopping"] /\ Goto(j, "fstopwait")
     ELSE /\ Goto(j, IF j \in started \/ j \in staysOff THEN "fdone" ELSE "fstart")
          /\ UNCHANGED inst
  /\ UNCHANGED <<options, record, exists, help, targ, helper, ghosts>>

Complete(j) ==
  /\ at[j] = "fdone"
  /\ Phase(j, "COMPLETED")
  /\ Goto(j, "idle")
  /\ UNCHANGED <<options, instId, copied, volId, helperAtt, targetAtt, device, oci, helper, ghosts>>

-----------------------------------------------------------------------------
(* cleanup, of a job that was cancelled at a step of prepare or the copy,  *)
(* or on request of the user once it has ended                             *)
CheckPlaces == {"launch", "create", "pre", "detach", "helper", "search", "copy", "copied"}

(* Slip: the lock is kept. *)
UnlockSlip(j) == UNCHANGED <<lock, abandoned>>

(* JobCancelled or an error leaves the block that holds the lock. *)
Unlock(j) == /\ lock' = IF lock = j THEN None ELSE lock
             /\ abandoned' = IF lock = j THEN abandoned \cup {j} ELSE abandoned

Cleanup(j) ==
  /\ \/ at[j] \in CheckPlaces /\ j \in cancel
     \/ at[j] = "idle" /\ phase[j] \in {"FAILED", "CANCELLED"}
  /\ at' = [at EXCEPT ![j] = "cdetach"]
  /\ cancel' = cancel \ {j}
  /\ tried' = tried \ DisksOf(j)
  /\ botched' = botched \ {j}
  /\ Unlock(j)
  /\ UNCHANGED <<options, record, cur, started, oci, sys, before, content, faults, restarts,
                 retried, stray>>

(* Slip: the volumes are left to the termination of the instance. *)
DetachTargetSlip(j) ==
  /\ at[j] = "ctarget"
  /\ Goto(j, "cterminate")
  /\ UNCHANGED <<options, record, oci, helper, ghosts>>

(* The data volumes are released before the instance is terminated. *)
DetachTarget(j) ==
  /\ at[j] = "ctarget"
  /\ IF DataOf[j] \cap targetAtt \subseteq tried
     THEN Goto(j, "cterminate") /\ UNCHANGED targ
     ELSE \E d \in (DataOf[j] \cap targetAtt) \ tried :
            targ' = Detach(d, targ) /\ GotoDisk(j, "ctargwait", d)
  /\ UNCHANGED <<options, record, inst, exists, help, helper, ghosts>>

TargetDetached(j) ==
  /\ at[j] = "ctargwait"
  /\ targ[cur[j]] = "no"
  /\ targetAtt' = targetAtt \ {cur[j]}
  /\ Goto(j, "ctarget")
  /\ UNCHANGED <<options, phase, instId, copied, volId, helperAtt, device, oci, helper, ghosts>>

(* An attached boot volume goes with the instance, other volumes are let go. *)
Terminate(j) ==
  /\ at[j] = "cterminate"
  /\ IF j \in instId /\ inst[j] # "gone"
     THEN /\ inst' = [inst EXCEPT ![j] = "gone"]
          /\ exists' = IF targ[BootOf[j]] \in {"attaching", "attached"}
                       THEN exists \ {BootOf[j]} ELSE exists
          /\ targ' = [d \in Disk |->
                        IF d = BootOf[j] /\ targ[d] # "detaching" THEN "no"
                        ELSE IF d \in DataOf[j] /\ targ[d] # "no" THEN "detaching" ELSE targ[d]]
     ELSE UNCHANGED <<inst, exists, targ>>
  /\ Goto(j, "cdelete")
  /\ UNCHANGED <<options, record, help, helper, ghosts>>

(* What is attached cannot be deleted.  The job ends as CANCELLED, with    *)
(* whatever could not be removed in its message.                           *)
Delete(j) ==
  /\ at[j] = "cdelete"
  /\ exists' = exists \ {d \in DisksOf(j) \cap volId : help[d] = "no" /\ targ[d] = "no"}
  /\ Phase(j, "CANCELLED")
  /\ Goto(j, "idle")
  /\ UNCHANGED <<options, instId, copied, volId, helperAtt, targetAtt, device, inst, help, targ,
                 helper, ghosts>>

-----------------------------------------------------------------------------
(* Failures *)

(* A call whose effect is not recorded, or not waited for *)
Interrupted(j) ==
  stray' = IF at[j] \in {"helped", "preattached", "fattached"} THEN stray \cup {cur[j]}
           ELSE IF at[j] = "unbootwait" THEN stray \cup {BootOf[j]} ELSE stray

Fail(j) ==
  /\ Phase(j, "FAILED")
  /\ at' = [at EXCEPT ![j] = "idle"]
  /\ cancel' = cancel \ {j}
  /\ Unlock(j)
  /\ UNCHANGED <<options, instId, copied, volId, helperAtt, targetAtt, device, cur, started, tried,
                 oci, sys, before, content, restarts, botched, retried>>

(* A call fails, with or without effect, or a wait times out. *)
Trouble(j) ==
  /\ at[j] \in PreparePlaces \cup FinalizePlaces
  /\ faults < MaxFaults
  /\ faults' = faults + 1
  /\ Interrupted(j)
  /\ Fail(j)

(* OCI refuses the call the job is about to make. *)
Refused(j) ==
  CASE at[j] = "pre" -> j \notin emulated /\ \E d \in Pending(j) : ~MayAttachToTarget(j, d)
    [] at[j] = "fboot" -> BootOf[j] \notin targetAtt /\ ~MayAttachBoot(j)
    [] at[j] = "fstart" -> ~MayStart(j)
    [] at[j] = "fdata" -> \E d \in Pending(j) : ~MayAttachToTarget(j, d)
    [] OTHER -> FALSE

(* The boot volume is not among the new disks, or not the only candidate;  *)
(* the device that was taken for it has left since.                        *)
Missed(j) ==
  \/ /\ at[j] = "search"
     /\ \/ Cardinality(Candidates(j)) > 1
        \/ Candidates(j) = {} /\ \E p \in before : sys[p] = BootOf[j]
  \/ at[j] = "copy" /\ \E d \in DisksOf(j) : VolumeAt(d) = None

Unlucky(j) ==
  /\ (Refused(j) /\ j \notin cancel) \/ Missed(j)
  /\ UNCHANGED <<faults, stray>>
  /\ Fail(j)

(* One attempt of a cleanup fails, the next one is made. *)
AttemptFails(j) ==
  /\ at[j] \in CleanupPlaces
  /\ faults < MaxFaults
  /\ faults' = faults + 1
  /\ botched' = botched \cup {j}
  /\ phase' = IF at[j] = "cdelete" THEN [phase EXCEPT ![j] = "CANCELLED"] ELSE phase
  /\ at' = [at EXCEPT ![j] = CASE at[j] \in {"cdetach", "cdetwait", "ctargwait"} -> "ctarget"
                               [] at[j] = "ctarget" -> "cterminate"
                               [] at[j] = "cterminate" -> "cdelete"
                               [] OTHER -> "idle"]
  /\ tried' = IF at[j] = "ctargwait" THEN tried \cup {cur[j]} ELSE tried
  /\ UNCHANGED <<options, instId, copied, volId, helperAtt, targetAtt, device, cur, cancel, started,
                 oci, helper, restarts, retried, stray, abandoned>>

(* The service restarts: fail_stale_jobs. *)
Restart ==
  /\ restarts < MaxRestarts
  /\ restarts' = restarts + 1
  /\ phase' = [j \in Job |-> IF phase[j] \in {"COMPLETED", "FAILED", "CANCELLED"} THEN phase[j]
                                                                           ELSE "FAILED"]
  /\ at' = [j \in Job |-> "idle"]
  /\ stray' = stray \cup {cur[j] : j \in {k \in Job : at[k] \in {"helped", "preattached", "fattached"}}}
                    \cup {BootOf[j] : j \in {k \in Job : at[k] = "unbootwait"}}
  /\ botched' = botched \cup {j \in Job : at[j] \in CleanupPlaces}
  /\ abandoned' = abandoned \cup {j \in Job : lock = j}
  /\ cancel' = {} /\ started' = {} /\ tried' = {} /\ lock' = None
  /\ UNCHANGED <<options, instId, copied, volId, helperAtt, targetAtt, device, cur, oci, sys, before,
                 content, faults, retried>>

(* request_cancel: finalize does not look at the flag. *)
RequestCancel(j) ==
  /\ at[j] \in PreparePlaces
  /\ cancel' = cancel \cup {j}
  /\ UNCHANGED <<options, record, at, cur, started, tried, oci, helper, ghosts>>

-----------------------------------------------------------------------------
(* OCI and the kernel of the helper *)

Settled(state) == CASE state = "starting" -> "running"
                    [] state = "stopping" -> "stopped"
                    [] state = "attaching" -> "attached"
                    [] state = "detaching" -> "no"

InstanceSettles(j) ==
  /\ inst[j] \in {"starting", "stopping"}
  /\ inst' = [inst EXCEPT ![j] = Settled(@)]
  /\ UNCHANGED <<options, record, thread, exists, help, targ, helper, ghosts>>

TargetSettles(d) ==
  /\ targ[d] \in {"attaching", "detaching"}
  /\ targ' = [targ EXCEPT ![d] = Settled(@)]
  /\ UNCHANGED <<options, record, thread, inst, exists, help, helper, ghosts>>

(* A volume that is detached leaves its path. *)
HelperSettles(d) ==
  /\ help[d] \in {"attaching", "detaching"}
  /\ help' = [help EXCEPT ![d] = Settled(@)]
  /\ sys' = IF help[d] = "detaching" THEN [p \in Path |-> IF sys[p] = d THEN None ELSE sys[p]]
                                     ELSE sys
  /\ UNCHANGED <<options, record, thread, inst, exists, targ, lock, before, content, ghosts>>

(* The kernel names a new disk by the first letter that is free. *)
Appear(d) ==
  /\ help[d] \in {"attaching", "attached"}
  /\ d \notin {sys[p] : p \in Path}
  /\ sys' = [sys EXCEPT ![CHOOSE p \in Path \ Visible : \A q \in Path \ Visible : p <= q] = d]
  /\ UNCHANGED <<options, record, thread, oci, lock, before, content, ghosts>>

JobStep(j) ==
  \/ Launch(j) \/ SaveInstance(j) \/ Booted(j) \/ CreateVolume(j) \/ SaveVolume(j)
  \/ VolumesReady(j) \/ PreAttach(j) \/ SaveTargetAttachment(j) \/ TargetAttached(j) \/ Stop(j)
  \/ Stopped(j) \/ SaveBootVolume(j) \/ DetachBoot(j) \/ BootDetached(j) \/ AttachBoot(j)
  \/ AttachData(j) \/ SaveHelperAttachment(j) \/ HelperAttached(j) \/ FoundDevice(j) \/ Ready(j)
  \/ CopyDisks(j) \/ Finalize(j) \/ DetachHelper(j) \/ HelperDetached(j) \/ HelperFree(j)
  \/ ReattachBoot(j) \/ LookPending(j) \/ StartTarget(j) \/ TargetRuns(j) \/ PlugData(j)
  \/ StartOrStop(j) \/ Complete(j) \/ Cleanup(j) \/ DetachTarget(j) \/ TargetDetached(j)
  \/ Terminate(j) \/ Delete(j) \/ Unlucky(j)

OciStep ==
  \/ \E j \in Job : InstanceSettles(j)
  \/ \E d \in Disk : TargetSettles(d) \/ HelperSettles(d) \/ Appear(d)

Next ==
  \/ \E j \in Job : JobStep(j) \/ Trouble(j) \/ AttemptFails(j) \/ RequestCancel(j)
  \/ OciStep
  \/ Restart

Spec == Init /\ [][Next]_vars

(* Threads run, and OCI does what it was asked for. *)
Fairness ==
  /\ \A j \in Job : WF_vars(at[j] # "idle" /\ JobStep(j)) /\ WF_vars(InstanceSettles(j))
  /\ \A d \in Disk : WF_vars(TargetSettles(d)) /\ WF_vars(HelperSettles(d)) /\ WF_vars(Appear(d))

FairSpec == Spec /\ Fairness

-----------------------------------------------------------------------------
(* The data of a disk only ever goes to the volume of that disk: however   *)
(* the jobs interleave, none takes the disk of another for its own, as     *)
(* long as data disks differ in size from boot disks and none gives up     *)
(* while its disk may still appear.                                        *)
OwnVolume == abandoned = {} => \A v \in Disk : content[v] \in {None, v}

(* "boot volumes are attached without a device path and identified by      *)
(* 'which disk appeared', so only one such attachment may be in flight at  *)
(* a time even with concurrent jobs": each disk gets its own volume.       *)
OwnVolumeAlways == \A v \in Disk : content[v] \in {None, v}

(* As long as nothing fails, OCI accepts every call: data volumes are      *)
(* attached to a running instance, boot volumes to a stopped one, and no   *)
(* volume twice, emulated or shareable, started or not at the end.         *)
CallsAccepted == (faults = 0 /\ restarts = 0) => \A j \in Job : ~Refused(j)

(* The guest never runs while the helper can write to one of its disks,    *)
(* whatever failed and was retried before.                                 *)
GuestAlone ==
  \A j \in Job : (j \in copied /\ inst[j] \in {"starting", "running"}) =>
    \A d \in DisksOf(j) : help[d] = "no"

(* A cleanup none of whose attempts failed has removed all that is on      *)
(* record, wherever the job was when it was cancelled, failed or cut off,  *)
(* but for volumes a call was left in flight on.                           *)
CleanupRemoves ==
  \A j \in Job \ botched : (phase[j] = "CANCELLED" /\ at[j] = "idle") =>
    /\ j \in instId => inst[j] = "gone"
    /\ DisksOf(j) \cap volId \cap exists \subseteq stray

(* All disks are attached, and the instance is started or not as asked. *)
Whole(j) ==
  /\ \A d \in DisksOf(j) : targ[d] = "attached" /\ help[d] = "no"
  /\ inst[j] = IF j \in staysOff THEN "stopped" ELSE "running"

(* A migration that completes in one go is whole. *)
CompletedWhole == \A j \in Job \ retried : phase[j] = "COMPLETED" => Whole(j)

(* "it is idempotent": a finalize that is called again ends as the first   *)
(* one would have.                                                         *)
FinalizeIdempotent == \A j \in Job : phase[j] = "COMPLETED" => Whole(j)

(* As long as nothing fails, OCI accepts every call prepare and finalize   *)
(* make.                                                                   *)
CallsGo == TypeOK /\ CallsAccepted

(* A job that ends leaves what it should: all disks on the instance after  *)
(* a migration in one go, nothing on record after a cleanup that nothing   *)
(* came in the way of.                                                     *)
JobsEndWhole == CompletedWhole /\ CleanupRemoves

(* prepare, finalize and cleanup come to an end: no attachment waits for   *)
(* ever for the lock.                                                      *)
JobsSettle == \A j \in Job : at[j] # "idle" ~> at[j] = "idle"
=============================================================================
