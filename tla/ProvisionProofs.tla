--------------------------- MODULE ProvisionProofs ---------------------------
(***************************************************************************)
(* For any number of jobs and disks on one helper, whatever fails, is      *)
(* cancelled, cleaned up, retried or cut off by a restart: the guest never *)
(* runs while the helper can write to one of its disks, the data of a disk *)
(* only go to the volume of that disk, a cleanup that succeeds leaves      *)
(* nothing on record, and, as long as nothing fails, OCI refuses no call.  *)
(***************************************************************************)
EXTENDS Provision, FiniteSetTheorems, WellFoundedInduction, TLAPS

Early == {"launch", "launched", "booting", "create", "created"}
BeforeBoot == Early \cup {"pre", "preattached", "prewait", "stopping", "detach"}
Unbooted == PreparePlaces \ BeforeBoot
Places == {"idle"} \cup PreparePlaces \cup FinalizePlaces \cup CleanupPlaces

(* What the record and the locals of a thread have got by the place where  *)
(* it is; a migration is prepared and copied once.                         *)
Recorded ==
  \A j \in Job :
    /\ at[j] \in PreparePlaces \ {"launch", "launched"} => j \in instId
    /\ at[j] \in PreparePlaces \ Early => DataOf[j] \subseteq volId
    /\ at[j] \in Unbooted => BootOf[j] \in volId
    /\ j \in copied => DisksOf(j) \subseteq volId
    /\ at[j] \in {"created", "preattached", "prewait", "fattached", "fattwait", "ctargwait"} =>
         cur[j] \in DataOf[j]
    /\ at[j] \in {"helped", "helpwait", "fdetwait", "cdetwait"} => cur[j] \in DisksOf(j)
    /\ at[j] \in {"search", "fbooted", "fbootwait"} => cur[j] = BootOf[j]
    /\ j \in copied => at[j] \notin PreparePlaces \ {"copied"}
    /\ at[j] \in FinalizePlaces \cup {"copied"} => j \in copied

(* The kernel has each disk once, and those that are attached only.        *)
KernelInv ==
  /\ \A p, q \in Path : sys[p] = sys[q] /\ sys[p] # None => p = q
  /\ \A p \in Path : sys[p] # None => help[sys[p]] # "no"
  /\ \A d \in Disk : help[d] # "no" => \E j \in Job : d \in DisksOf(j)

BaseInv == TypeOK /\ Recorded /\ KernelInv

(* The helper has nothing of a migration that its record does not name:    *)
(* finalize detaches all of it before the instance is started.             *)
GuestInv ==
  /\ \A j \in Job : (at[j] \in PreparePlaces \/ j \in copied) => \A d \in DisksOf(j) :
        help[d] # "no" => d \in helperAtt \/ (at[j] = "helped" /\ cur[j] = d)
  /\ \A j \in Job : at[j] \in FinalizePlaces \ {"fdetach", "fdetwait"} =>
        \A d \in DisksOf(j) : help[d] = "no"
  /\ \A j \in Job : at[j] \in {"detach"} \cup Unbooted => inst[j] = "stopped"
  /\ GuestAlone

(* A boot volume is attached and found under the lock; what a migration    *)
(* has attached stays until it is copied.                                  *)
LockInv ==
  \A j \in Job :
    /\ at[j] = "search" \/ (at[j] \in {"helped", "helpwait"} /\ cur[j] = BootOf[j]) => lock = j
    /\ at[j] \in PreparePlaces => \A d \in DisksOf(j) : help[d] # "detaching"
    /\ \A d \in DataOf[j] : device[d] \in {None, Named}
    /\ at[j] = "copy" => \A d \in DisksOf(j) : device[d] # None

(* As long as nobody gave up the lock: the device of a boot disk is its    *)
(* own; of the boot disks only that of the holder of the lock has come     *)
(* since the scan; and every other that is attached is there.              *)
SeenInv ==
  /\ \A j \in Job : at[j] \in PreparePlaces /\ device[BootOf[j]] # None =>
        device[BootOf[j]] \in Path /\ sys[device[BootOf[j]]] = BootOf[j]
  /\ \A j \in Job : lock = j => \A p \in Visible \ before :
        sys[p] = BootOf[j] \/ \A k \in Job : sys[p] # BootOf[k]
  /\ \A j \in Job : help[BootOf[j]] \in {"attaching", "attached"} /\ lock # j =>
        \E p \in Path : sys[p] = BootOf[j]
OwnInv == abandoned = {} => SeenInv /\ \A v \in Disk : content[v] \in {None, v}

(* A migration that goes on to its end in one go *)
Going(j) == at[j] \in PreparePlaces \/ (at[j] \in FinalizePlaces /\ j \notin retried)

(* Every data volume that is attached to the target is on record, and was  *)
(* waited for.                                                             *)
PlugInv ==
  \A j \in Job : Going(j) => \A d \in DataOf[j] :
    /\ targ[d] # "no" =>
         d \in targetAtt \/ (at[j] \in {"preattached", "fattached"} /\ cur[j] = d)
    /\ d \in targetAtt =>
         \/ targ[d] = "attached"
         \/ at[j] \in {"prewait", "fattwait"} /\ cur[j] = d /\ targ[d] = "attaching"
    /\ at[j] \in {"preattached", "fattached"} /\ cur[j] = d =>
         targ[d] \in {"attaching", "attached"}

(* The instance and its boot volume, by the place prepare is at            *)
BootInv ==
  \A j \in Job :
    /\ at[j] \in {"create", "created", "pre", "preattached", "prewait"} => inst[j] = "running"
    /\ at[j] \in PreparePlaces => BootOf[j] \notin targetAtt
    /\ at[j] \in Unbooted \ {"unboot", "unbootwait"} => targ[BootOf[j]] = "no"

(* The same for a finalize that is not called again                        *)
TargetInv ==
  \A j \in Job : Going(j) =>
    /\ at[j] \in {"fdetach", "fdetwait", "fboot", "fbooted", "fbootwait", "fpend"} =>
         j \notin started
    /\ at[j] \in {"fdetach", "fdetwait", "fboot"} =>
         BootOf[j] \notin targetAtt /\ targ[BootOf[j]] = "no" /\ inst[j] = "stopped"
    /\ at[j] \in {"fbooted", "fbootwait"} =>
         targ[BootOf[j]] \in {"attaching", "attached"} /\ inst[j] = "stopped"
    /\ at[j] \in {"fpend", "fstart", "fstartwait", "fdata", "fattached", "fattwait", "fend",
                  "fstopwait", "fdone"} => targ[BootOf[j]] = "attached"
    /\ at[j] \in {"fpend", "fstart"} => inst[j] = "stopped"
    /\ at[j] = "fstartwait" => inst[j] \in {"starting", "running"}
    /\ at[j] \in {"fdata", "fattached", "fattwait"} => inst[j] = "running" /\ j \in started
    /\ at[j] = "fend" => inst[j] = IF j \in started THEN "running" ELSE "stopped"
    /\ at[j] = "fstopwait" => inst[j] \in {"stopping", "stopped"} /\ j \in staysOff
    /\ at[j] = "fdone" => inst[j] = IF j \in staysOff THEN "stopped" ELSE "running"
    /\ at[j] \in {"fstart", "fstartwait"} /\ j \notin started =>
         j \notin staysOff /\ Pending(j) = {}
    /\ at[j] \in {"fend", "fstopwait", "fdone"} => Pending(j) = {}

(* A job that is COMPLETED is left alone. *)
EndInv ==
  /\ \A j \in Job : at[j] \in PreparePlaces \cup FinalizePlaces =>
        phase[j] \notin {"FAILED", "CANCELLED"}
  /\ \A j \in Job : phase[j] = "COMPLETED" => at[j] = "idle" /\ (j \notin retried => Whole(j))
  /\ faults = 0 /\ restarts = 0 =>
       \A j \in Job : j \notin retried /\ (phase[j] = "FAILED" => j \notin copied)

(* Whatever is attached is on record, or its call was interrupted.         *)
TraceInv ==
  \A j \in Job :
    /\ \A d \in DisksOf(j) :
         help[d] # "no" => d \in helperAtt \cup stray \/ (at[j] = "helped" /\ cur[j] = d)
    /\ \A d \in DataOf[j] :
         targ[d] # "no" => \/ d \in targetAtt \cup stray
                           \/ at[j] \in {"preattached", "fattached"} /\ cur[j] = d
    /\ targ[BootOf[j]] = "detaching" => at[j] = "unbootwait" \/ BootOf[j] \in stray
    /\ inst[j] = "gone" => targ[BootOf[j]] \in {"no", "detaching"}
    /\ BootOf[j] \in volId => j \in instId

(* What a cleanup none of whose attempts failed has done by its place *)
Cleaned ==
  \A j \in Job \ botched :
    /\ at[j] \in CleanupPlaces => tried \cap DisksOf(j) = {}
    /\ at[j] \in {"ctarget", "ctargwait", "cterminate", "cdelete"} =>
         DisksOf(j) \cap helperAtt = {}
    /\ at[j] \in {"cterminate", "cdelete"} => DataOf[j] \cap targetAtt = {}
    /\ at[j] = "cdelete" =>
         /\ j \in instId => inst[j] = "gone"
         /\ BootOf[j] \in volId /\ targ[BootOf[j]] # "no" => BootOf[j] \in stray
CleanInv == Cleaned /\ CleanupRemoves

EndsInv == PlugInv /\ BootInv /\ TargetInv /\ EndInv /\ TraceInv /\ CleanInv

(* What tells the devices apart: no data disk has the size of a boot disk. *)
SizesDiffer == \A j, k \in Job : \A d \in DataOf[k] : Size[d] # Size[BootOf[j]]

-----------------------------------------------------------------------------
(* The disks of a migration: its boot disk and its data disks. *)
LEMMA DisksAre ==
  ASSUME NEW j \in Job
  PROVE  /\ BootOf[j] \in Disk /\ DataOf[j] \subseteq Disk /\ DisksOf(j) \subseteq Disk
         /\ BootOf[j] \in DisksOf(j) /\ DataOf[j] \subseteq DisksOf(j)
         /\ BootOf[j] \notin DataOf[j]
  BY ProvisionAssumption DEF DisksOf

(* No disk belongs to two jobs. *)
LEMMA DisksApart ==
  ASSUME NEW j \in Job, NEW k \in Job, j # k
  PROVE  /\ DisksOf(j) \cap DisksOf(k) = {}
         /\ BootOf[j] # BootOf[k] /\ BootOf[j] \notin DataOf[k]
  BY ProvisionAssumption DEF DisksOf

-----------------------------------------------------------------------------
(* The steps of the jobs. *)

(* A step keeps the types; a disk that is taken is one of the job. *)
LEMMA StepTyped ==
  ASSUME TypeOK, Recorded,
         NEW j \in Job, JobStep(j) \/ Trouble(j) \/ AttemptFails(j) \/ RequestCancel(j)
  PROVE  TypeOK'
<1> USE DisksAre DEF TypeOK, Recorded, Phases, Attachment, PreparePlaces, FinalizePlaces,
           CleanupPlaces, Early, BeforeBoot, Unbooted, Goto, GotoDisk, Phase, Checked,
           options, record, thread, oci, helper, ghosts
<1>1. CASE Launch(j)
  BY <1>1 DEF Launch
<1>2. CASE SaveInstance(j)
  BY <1>2 DEF SaveInstance
<1>3. CASE Booted(j)
  BY <1>3 DEF Booted
<1>4. CASE CreateVolume(j)
  BY <1>4 DEF CreateVolume
<1>5. CASE SaveVolume(j)
  BY <1>5 DEF SaveVolume
<1>6. CASE VolumesReady(j)
  BY <1>6 DEF VolumesReady
<1>7. CASE PreAttach(j)
  BY <1>7 DEF PreAttach
<1>8. CASE SaveTargetAttachment(j)
  <2>1. cur[j] \in volId
    BY <1>8 DEF SaveTargetAttachment, DisksOf
  <2> QED BY <1>8, <2>1 DEF SaveTargetAttachment
<1>9. CASE TargetAttached(j)
  BY <1>9 DEF TargetAttached
<1>10. CASE Stop(j)
  BY <1>10 DEF Stop
<1>11. CASE Stopped(j)
  BY <1>11 DEF Stopped
<1>12. CASE SaveBootVolume(j)
  BY <1>12 DEF SaveBootVolume
<1>13. CASE DetachBoot(j)
  BY <1>13 DEF DetachBoot
<1>14. CASE BootDetached(j)
  BY <1>14 DEF BootDetached
<1>15. CASE AttachBoot(j)
  <2>1. Visible \subseteq Path
    BY DEF Visible
  <2> QED BY <1>15, <2>1 DEF AttachBoot
<1>16. CASE AttachData(j)
  BY <1>16 DEF AttachData
<1>17. CASE SaveHelperAttachment(j)
  <2>1. cur[j] \in volId
    BY <1>17 DEF SaveHelperAttachment, DisksOf
  <2> QED BY <1>17, <2>1 DEF SaveHelperAttachment
<1>18. CASE HelperAttached(j)
  BY <1>18 DEF HelperAttached
<1>19. CASE FoundDevice(j)
  BY <1>19 DEF FoundDevice
<1>20. CASE Ready(j)
  BY <1>20 DEF Ready
<1>21. CASE CopyDisks(j)
  BY <1>21 DEF CopyDisks
<1>22. CASE Finalize(j)
  BY <1>22 DEF Finalize
<1>23. CASE DetachHelper(j)
  BY <1>23 DEF DetachHelper, Detach
<1>24. CASE HelperDetached(j)
  BY <1>24 DEF HelperDetached
<1>25. CASE HelperFree(j)
  BY <1>25 DEF HelperFree
<1>26. CASE ReattachBoot(j)
  BY <1>26 DEF ReattachBoot
<1>27. CASE LookPending(j)
  BY <1>27 DEF LookPending
<1>28. CASE StartTarget(j)
  BY <1>28 DEF StartTarget
<1>29. CASE TargetRuns(j)
  BY <1>29 DEF TargetRuns
<1>30. CASE PlugData(j)
  <2>1. CASE Pending(j) = {}
    BY <1>30, <2>1 DEF PlugData
  <2>2. CASE Pending(j) # {}
    BY <1>30, <2>2 DEF PlugData, Pending
  <2> QED BY <2>1, <2>2
<1>31. CASE StartOrStop(j)
  BY <1>31 DEF StartOrStop
<1>32. CASE Complete(j)
  BY <1>32 DEF Complete
<1>33. CASE Cleanup(j)
  BY <1>33 DEF Cleanup, Unlock, CheckPlaces
<1>34. CASE DetachTarget(j)
  BY <1>34 DEF DetachTarget, Detach
<1>35. CASE TargetDetached(j)
  BY <1>35 DEF TargetDetached
<1>36. CASE Terminate(j)
  BY <1>36 DEF Terminate
<1>37. CASE Delete(j)
  BY <1>37 DEF Delete
<1>38. CASE Unlucky(j)
  BY <1>38 DEF Unlucky, Fail, Unlock
<1>39. CASE Trouble(j)
  <2>1. stray' \subseteq Disk
    BY <1>39 DEF Trouble, Interrupted
  <2>2. faults' \in 0..MaxFaults
    BY <1>39, ProvisionAssumption DEF Trouble
  <2> QED BY <1>39, <2>1, <2>2 DEF Trouble, Fail, Unlock
<1>40. CASE AttemptFails(j)
  <2>1. at'[j] \in {"ctarget", "cterminate", "cdelete", "idle"}
    BY <1>40 DEF AttemptFails
  <2>2. faults' \in 0..MaxFaults
    BY <1>40, ProvisionAssumption DEF AttemptFails
  <2>3. tried' \subseteq Disk
    BY <1>40 DEF AttemptFails
  <2> QED BY <1>40, <2>1, <2>2, <2>3 DEF AttemptFails
<1>41. CASE RequestCancel(j)
  BY <1>41 DEF RequestCancel
<1>. QED BY <1>1, <1>2, <1>3, <1>4, <1>5, <1>6, <1>7, <1>8, <1>9, <1>10, <1>11, <1>12,
            <1>13, <1>14, <1>15, <1>16, <1>17, <1>18, <1>19, <1>20, <1>21, <1>22, <1>23,
            <1>24, <1>25, <1>26, <1>27, <1>28, <1>29, <1>30, <1>31, <1>32, <1>33, <1>34,
            <1>35, <1>36, <1>37, <1>38, <1>39, <1>40, <1>41 DEF JobStep

(* A step goes on only with what it has put on record. *)
LEMMA StepRecorded ==
  ASSUME TypeOK, TypeOK', Recorded,
         NEW j \in Job, JobStep(j) \/ Trouble(j) \/ AttemptFails(j) \/ RequestCancel(j)
  PROVE  Recorded'
<1> USE DisksAre DEF TypeOK, Recorded, PreparePlaces, FinalizePlaces, CleanupPlaces, Early,
           BeforeBoot, Unbooted, Goto, GotoDisk, Phase, Checked, options, record, thread,
           oci, helper, ghosts
<1>1. CASE Launch(j)
  BY <1>1 DEF Launch
<1>2. CASE SaveInstance(j)
  BY <1>2 DEF SaveInstance
<1>3. CASE Booted(j)
  BY <1>3 DEF Booted
<1>4. CASE CreateVolume(j)
  BY <1>4 DEF CreateVolume
<1>5. CASE SaveVolume(j)
  BY <1>5 DEF SaveVolume
<1>6. CASE VolumesReady(j)
  BY <1>6 DEF VolumesReady
<1>7. CASE PreAttach(j)
  BY <1>7 DEF PreAttach
<1>8. CASE SaveTargetAttachment(j)
  BY <1>8 DEF SaveTargetAttachment
<1>9. CASE TargetAttached(j)
  BY <1>9 DEF TargetAttached
<1>10. CASE Stop(j)
  BY <1>10 DEF Stop
<1>11. CASE Stopped(j)
  BY <1>11 DEF Stopped
<1>12. CASE SaveBootVolume(j)
  BY <1>12 DEF SaveBootVolume
<1>13. CASE DetachBoot(j)
  BY <1>13 DEF DetachBoot
<1>14. CASE BootDetached(j)
  BY <1>14 DEF BootDetached
<1>15. CASE AttachBoot(j)
  BY <1>15 DEF AttachBoot, DisksOf
<1>16. CASE AttachData(j)
  BY <1>16 DEF AttachData, DisksOf
<1>17. CASE SaveHelperAttachment(j)
  BY <1>17 DEF SaveHelperAttachment
<1>18. CASE HelperAttached(j)
  BY <1>18 DEF HelperAttached
<1>19. CASE FoundDevice(j)
  BY <1>19 DEF FoundDevice
<1>20. CASE Ready(j)
  BY <1>20 DEF Ready
<1>21. CASE CopyDisks(j)
  BY <1>21 DEF CopyDisks, DisksOf
<1>22. CASE Finalize(j)
  BY <1>22 DEF Finalize
<1>23. CASE DetachHelper(j)
  BY <1>23 DEF DetachHelper, Detach
<1>24. CASE HelperDetached(j)
  BY <1>24 DEF HelperDetached
<1>25. CASE HelperFree(j)
  BY <1>25 DEF HelperFree
<1>26. CASE ReattachBoot(j)
  BY <1>26 DEF ReattachBoot
<1>27. CASE LookPending(j)
  BY <1>27 DEF LookPending
<1>28. CASE StartTarget(j)
  BY <1>28 DEF StartTarget
<1>29. CASE TargetRuns(j)
  BY <1>29 DEF TargetRuns
<1>30. CASE PlugData(j)
  <2>1. CASE Pending(j) = {}
    BY <1>30, <2>1 DEF PlugData
  <2>2. CASE Pending(j) # {}
    BY <1>30, <2>2 DEF PlugData, Pending
  <2> QED BY <2>1, <2>2
<1>31. CASE StartOrStop(j)
  BY <1>31 DEF StartOrStop
<1>32. CASE Complete(j)
  BY <1>32 DEF Complete
<1>33. CASE Cleanup(j)
  BY <1>33 DEF Cleanup, Unlock, CheckPlaces
<1>34. CASE DetachTarget(j)
  BY <1>34 DEF DetachTarget, Detach
<1>35. CASE TargetDetached(j)
  BY <1>35 DEF TargetDetached
<1>36. CASE Terminate(j)
  BY <1>36 DEF Terminate
<1>37. CASE Delete(j)
  BY <1>37 DEF Delete
<1>38. CASE Unlucky(j)
  BY <1>38 DEF Unlucky, Fail, Unlock
<1>39. CASE Trouble(j)
  BY <1>39 DEF Trouble, Fail, Interrupted, Unlock
<1>40. CASE AttemptFails(j)
  BY <1>40 DEF AttemptFails
<1>41. CASE RequestCancel(j)
  BY <1>41 DEF RequestCancel
<1>. QED BY <1>1, <1>2, <1>3, <1>4, <1>5, <1>6, <1>7, <1>8, <1>9, <1>10, <1>11, <1>12,
            <1>13, <1>14, <1>15, <1>16, <1>17, <1>18, <1>19, <1>20, <1>21, <1>22, <1>23,
            <1>24, <1>25, <1>26, <1>27, <1>28, <1>29, <1>30, <1>31, <1>32, <1>33, <1>34,
            <1>35, <1>36, <1>37, <1>38, <1>39, <1>40, <1>41 DEF JobStep

(* The kernel gives a disk no second name and no detached disk a name. *)
LEMMA StepKernel ==
  ASSUME TypeOK, Recorded, KernelInv,
         NEW j \in Job, JobStep(j) \/ Trouble(j) \/ AttemptFails(j) \/ RequestCancel(j)
  PROVE  KernelInv'
<1> USE DisksAre DEF TypeOK, Recorded, KernelInv, PreparePlaces, FinalizePlaces,
           CleanupPlaces, Early, BeforeBoot, Unbooted, Goto, GotoDisk, Phase, Checked,
           options, record, thread, oci, helper, ghosts
<1>1. CASE Launch(j)
  BY <1>1 DEF Launch
<1>2. CASE SaveInstance(j)
  BY <1>2 DEF SaveInstance
<1>3. CASE Booted(j)
  BY <1>3 DEF Booted
<1>4. CASE CreateVolume(j)
  BY <1>4 DEF CreateVolume
<1>5. CASE SaveVolume(j)
  BY <1>5 DEF SaveVolume
<1>6. CASE VolumesReady(j)
  BY <1>6 DEF VolumesReady
<1>7. CASE PreAttach(j)
  BY <1>7 DEF PreAttach
<1>8. CASE SaveTargetAttachment(j)
  BY <1>8 DEF SaveTargetAttachment
<1>9. CASE TargetAttached(j)
  BY <1>9 DEF TargetAttached
<1>10. CASE Stop(j)
  BY <1>10 DEF Stop
<1>11. CASE Stopped(j)
  BY <1>11 DEF Stopped
<1>12. CASE SaveBootVolume(j)
  BY <1>12 DEF SaveBootVolume
<1>13. CASE DetachBoot(j)
  BY <1>13 DEF DetachBoot
<1>14. CASE BootDetached(j)
  BY <1>14 DEF BootDetached
<1>15. CASE AttachBoot(j)
  BY <1>15 DEF AttachBoot, DisksOf
<1>16. CASE AttachData(j)
  BY <1>16 DEF AttachData, DisksOf
<1>17. CASE SaveHelperAttachment(j)
  BY <1>17 DEF SaveHelperAttachment
<1>18. CASE HelperAttached(j)
  BY <1>18 DEF HelperAttached
<1>19. CASE FoundDevice(j)
  BY <1>19 DEF FoundDevice
<1>20. CASE Ready(j)
  BY <1>20 DEF Ready
<1>21. CASE CopyDisks(j)
  BY <1>21 DEF CopyDisks
<1>22. CASE Finalize(j)
  BY <1>22 DEF Finalize
<1>23. CASE DetachHelper(j)
  BY <1>23 DEF DetachHelper, Detach
<1>24. CASE HelperDetached(j)
  BY <1>24 DEF HelperDetached
<1>25. CASE HelperFree(j)
  BY <1>25 DEF HelperFree
<1>26. CASE ReattachBoot(j)
  BY <1>26 DEF ReattachBoot
<1>27. CASE LookPending(j)
  BY <1>27 DEF LookPending
<1>28. CASE StartTarget(j)
  BY <1>28 DEF StartTarget
<1>29. CASE TargetRuns(j)
  BY <1>29 DEF TargetRuns
<1>30. CASE PlugData(j)
  BY <1>30 DEF PlugData
<1>31. CASE StartOrStop(j)
  BY <1>31 DEF StartOrStop
<1>32. CASE Complete(j)
  BY <1>32 DEF Complete
<1>33. CASE Cleanup(j)
  BY <1>33 DEF Cleanup, Unlock, CheckPlaces
<1>34. CASE DetachTarget(j)
  BY <1>34 DEF DetachTarget, Detach
<1>35. CASE TargetDetached(j)
  BY <1>35 DEF TargetDetached
<1>36. CASE Terminate(j)
  BY <1>36 DEF Terminate
<1>37. CASE Delete(j)
  BY <1>37 DEF Delete
<1>38. CASE Unlucky(j)
  BY <1>38 DEF Unlucky, Fail, Unlock
<1>39. CASE Trouble(j)
  BY <1>39 DEF Trouble, Fail, Interrupted, Unlock
<1>40. CASE AttemptFails(j)
  BY <1>40 DEF AttemptFails
<1>41. CASE RequestCancel(j)
  BY <1>41 DEF RequestCancel
<1>. QED BY <1>1, <1>2, <1>3, <1>4, <1>5, <1>6, <1>7, <1>8, <1>9, <1>10, <1>11, <1>12,
            <1>13, <1>14, <1>15, <1>16, <1>17, <1>18, <1>19, <1>20, <1>21, <1>22, <1>23,
            <1>24, <1>25, <1>26, <1>27, <1>28, <1>29, <1>30, <1>31, <1>32, <1>33, <1>34,
            <1>35, <1>36, <1>37, <1>38, <1>39, <1>40, <1>41 DEF JobStep

(* No step attaches to the helper what the record does not name, nor starts
   a guest before everything is detached. *)
LEMMA StepGuest ==
  ASSUME TypeOK, TypeOK', Recorded, GuestInv,
         NEW j \in Job, JobStep(j) \/ Trouble(j) \/ AttemptFails(j) \/ RequestCancel(j)
  PROVE  GuestInv'
<1> USE DisksAre, DisksApart DEF TypeOK, Recorded, GuestInv, GuestAlone, PreparePlaces,
           FinalizePlaces, CleanupPlaces, Early, BeforeBoot, Unbooted, Goto, GotoDisk,
           Phase, Checked, options, record, thread, oci, helper, ghosts
<1>1. CASE Launch(j)
  BY <1>1 DEF Launch
<1>2. CASE SaveInstance(j)
  BY <1>2 DEF SaveInstance
<1>3. CASE Booted(j)
  BY <1>3 DEF Booted
<1>4. CASE CreateVolume(j)
  BY <1>4 DEF CreateVolume
<1>5. CASE SaveVolume(j)
  BY <1>5 DEF SaveVolume
<1>6. CASE VolumesReady(j)
  BY <1>6 DEF VolumesReady
<1>7. CASE PreAttach(j)
  BY <1>7 DEF PreAttach
<1>8. CASE SaveTargetAttachment(j)
  BY <1>8 DEF SaveTargetAttachment
<1>9. CASE TargetAttached(j)
  BY <1>9 DEF TargetAttached
<1>10. CASE Stop(j)
  BY <1>10 DEF Stop
<1>11. CASE Stopped(j)
  BY <1>11 DEF Stopped
<1>12. CASE SaveBootVolume(j)
  BY <1>12 DEF SaveBootVolume
<1>13. CASE DetachBoot(j)
  BY <1>13 DEF DetachBoot
<1>14. CASE BootDetached(j)
  BY <1>14 DEF BootDetached
<1>15. CASE AttachBoot(j)
  BY <1>15 DEF AttachBoot
<1>16. CASE AttachData(j)
  BY <1>16 DEF AttachData
<1>17. CASE SaveHelperAttachment(j)
  BY <1>17 DEF SaveHelperAttachment
<1>18. CASE HelperAttached(j)
  BY <1>18 DEF HelperAttached
<1>19. CASE FoundDevice(j)
  BY <1>19 DEF FoundDevice
<1>20. CASE Ready(j)
  BY <1>20 DEF Ready
<1>21. CASE CopyDisks(j)
  BY <1>21 DEF CopyDisks
<1>22. CASE Finalize(j)
  BY <1>22 DEF Finalize
<1>23. CASE DetachHelper(j)
  BY <1>23 DEF DetachHelper, Detach
<1>24. CASE HelperDetached(j)
  BY <1>24 DEF HelperDetached
<1>25. CASE HelperFree(j)
  BY <1>25 DEF HelperFree
<1>26. CASE ReattachBoot(j)
  BY <1>26 DEF ReattachBoot
<1>27. CASE LookPending(j)
  BY <1>27 DEF LookPending
<1>28. CASE StartTarget(j)
  BY <1>28 DEF StartTarget
<1>29. CASE TargetRuns(j)
  BY <1>29 DEF TargetRuns
<1>30. CASE PlugData(j)
  BY <1>30 DEF PlugData
<1>31. CASE StartOrStop(j)
  BY <1>31 DEF StartOrStop
<1>32. CASE Complete(j)
  BY <1>32 DEF Complete
<1>33. CASE Cleanup(j)
  BY <1>33 DEF Cleanup, Unlock, CheckPlaces
<1>34. CASE DetachTarget(j)
  BY <1>34 DEF DetachTarget, Detach
<1>35. CASE TargetDetached(j)
  BY <1>35 DEF TargetDetached
<1>36. CASE Terminate(j)
  BY <1>36 DEF Terminate
<1>37. CASE Delete(j)
  BY <1>37 DEF Delete
<1>38. CASE Unlucky(j)
  BY <1>38 DEF Unlucky, Fail, Unlock
<1>39. CASE Trouble(j)
  BY <1>39 DEF Trouble, Fail, Interrupted, Unlock
<1>40. CASE AttemptFails(j)
  BY <1>40 DEF AttemptFails
<1>41. CASE RequestCancel(j)
  BY <1>41 DEF RequestCancel
<1>. QED BY <1>1, <1>2, <1>3, <1>4, <1>5, <1>6, <1>7, <1>8, <1>9, <1>10, <1>11, <1>12,
            <1>13, <1>14, <1>15, <1>16, <1>17, <1>18, <1>19, <1>20, <1>21, <1>22, <1>23,
            <1>24, <1>25, <1>26, <1>27, <1>28, <1>29, <1>30, <1>31, <1>32, <1>33, <1>34,
            <1>35, <1>36, <1>37, <1>38, <1>39, <1>40, <1>41 DEF JobStep

(* The lock is held from the attachment of a boot disk to its discovery. *)
LEMMA StepLock ==
  ASSUME TypeOK, TypeOK', Recorded, LockInv,
         NEW j \in Job, JobStep(j) \/ Trouble(j) \/ AttemptFails(j) \/ RequestCancel(j)
  PROVE  LockInv'
<1> USE DisksAre, DisksApart, ProvisionAssumption DEF TypeOK, Recorded, LockInv,
           PreparePlaces, FinalizePlaces, CleanupPlaces, Early, BeforeBoot, Unbooted, Goto,
           GotoDisk, Phase, Checked, options, record, thread, oci, helper, ghosts
<1>1. CASE Launch(j)
  BY <1>1 DEF Launch
<1>2. CASE SaveInstance(j)
  BY <1>2 DEF SaveInstance
<1>3. CASE Booted(j)
  BY <1>3 DEF Booted
<1>4. CASE CreateVolume(j)
  BY <1>4 DEF CreateVolume
<1>5. CASE SaveVolume(j)
  BY <1>5 DEF SaveVolume
<1>6. CASE VolumesReady(j)
  BY <1>6 DEF VolumesReady
<1>7. CASE PreAttach(j)
  BY <1>7 DEF PreAttach
<1>8. CASE SaveTargetAttachment(j)
  BY <1>8 DEF SaveTargetAttachment
<1>9. CASE TargetAttached(j)
  BY <1>9 DEF TargetAttached
<1>10. CASE Stop(j)
  BY <1>10 DEF Stop
<1>11. CASE Stopped(j)
  BY <1>11 DEF Stopped
<1>12. CASE SaveBootVolume(j)
  BY <1>12 DEF SaveBootVolume
<1>13. CASE DetachBoot(j)
  BY <1>13 DEF DetachBoot
<1>14. CASE BootDetached(j)
  BY <1>14 DEF BootDetached
<1>15. CASE AttachBoot(j)
  BY <1>15 DEF AttachBoot
<1>16. CASE AttachData(j)
  BY <1>16 DEF AttachData
<1>17. CASE SaveHelperAttachment(j)
  BY <1>17 DEF SaveHelperAttachment
<1>18. CASE HelperAttached(j)
  <2>1. CASE cur[j] = BootOf[j]
    BY <1>18, <2>1 DEF HelperAttached
  <2>2. CASE cur[j] # BootOf[j]
    <3>1. cur[j] \in DataOf[j]
      BY <1>18, <2>2 DEF HelperAttached, DisksOf
    <3>2. device' = [device EXCEPT ![cur[j]] = Named] /\ lock' = lock /\ help' = help /\ cur' = cur
          /\ at' = [at EXCEPT ![j] = "helper"]
      BY <1>18, <2>2 DEF HelperAttached
    <3>3. \A d \in Disk : device'[d] = IF d = cur[j] THEN Named ELSE device[d]
      BY <3>2
    <3>4. \A k \in Job \ {j} : at'[k] = at[k] /\ cur[j] \notin DisksOf(k)
      BY <3>1, <3>2
    <3>5. ASSUME NEW k \in Job, at'[k] = "copy", NEW d \in DisksOf(k)
          PROVE  device'[d] # None
      <4>1. k # j
        BY <3>2, <3>5
      <4> QED BY <3>3, <3>4, <3>5, <4>1
    <3>6. ASSUME NEW k \in Job
          PROVE  /\ at'[k] = "search" \/ (at'[k] \in {"helped", "helpwait"} /\ cur'[k] = BootOf[k]) =>
                      lock' = k
                 /\ at'[k] \in PreparePlaces => \A d \in DisksOf(k) : help'[d] # "detaching"
      BY <1>18, <3>2, <3>4 DEF HelperAttached
    <3>7. ASSUME NEW k \in Job, NEW d \in DataOf[k]
          PROVE  device'[d] \in {None, Named}
      BY <3>3, <3>7
    <3> QED BY <3>5, <3>6, <3>7
  <2> QED BY <2>1, <2>2
<1>19. CASE FoundDevice(j)
  BY <1>19 DEF FoundDevice
<1>20. CASE Ready(j)
  BY <1>20 DEF Ready
<1>21. CASE CopyDisks(j)
  BY <1>21 DEF CopyDisks
<1>22. CASE Finalize(j)
  BY <1>22 DEF Finalize
<1>23. CASE DetachHelper(j)
  BY <1>23 DEF DetachHelper, Detach
<1>24. CASE HelperDetached(j)
  BY <1>24 DEF HelperDetached
<1>25. CASE HelperFree(j)
  BY <1>25 DEF HelperFree
<1>26. CASE ReattachBoot(j)
  BY <1>26 DEF ReattachBoot
<1>27. CASE LookPending(j)
  BY <1>27 DEF LookPending
<1>28. CASE StartTarget(j)
  BY <1>28 DEF StartTarget
<1>29. CASE TargetRuns(j)
  BY <1>29 DEF TargetRuns
<1>30. CASE PlugData(j)
  BY <1>30 DEF PlugData
<1>31. CASE StartOrStop(j)
  BY <1>31 DEF StartOrStop
<1>32. CASE Complete(j)
  BY <1>32 DEF Complete
<1>33. CASE Cleanup(j)
  BY <1>33 DEF Cleanup, Unlock, CheckPlaces
<1>34. CASE DetachTarget(j)
  BY <1>34 DEF DetachTarget, Detach
<1>35. CASE TargetDetached(j)
  BY <1>35 DEF TargetDetached
<1>36. CASE Terminate(j)
  BY <1>36 DEF Terminate
<1>37. CASE Delete(j)
  BY <1>37 DEF Delete
<1>38. CASE Unlucky(j)
  BY <1>38 DEF Unlucky, Fail, Unlock
<1>39. CASE Trouble(j)
  BY <1>39 DEF Trouble, Fail, Interrupted, Unlock
<1>40. CASE AttemptFails(j)
  BY <1>40 DEF AttemptFails
<1>41. CASE RequestCancel(j)
  BY <1>41 DEF RequestCancel
<1>. QED BY <1>1, <1>2, <1>3, <1>4, <1>5, <1>6, <1>7, <1>8, <1>9, <1>10, <1>11, <1>12,
            <1>13, <1>14, <1>15, <1>16, <1>17, <1>18, <1>19, <1>20, <1>21, <1>22, <1>23,
            <1>24, <1>25, <1>26, <1>27, <1>28, <1>29, <1>30, <1>31, <1>32, <1>33, <1>34,
            <1>35, <1>36, <1>37, <1>38, <1>39, <1>40, <1>41 DEF JobStep

(* With sizes that differ, the disk a search finds is that of the holder of
   the lock. *)
LEMMA StepOwn ==
  ASSUME TypeOK, TypeOK', Recorded, KernelInv, LockInv, OwnInv, SizesDiffer,
         NEW j \in Job, JobStep(j) \/ Trouble(j) \/ AttemptFails(j) \/ RequestCancel(j)
  PROVE  OwnInv'
<1> USE DisksAre, DisksApart, ProvisionAssumption DEF TypeOK, Recorded, LockInv, OwnInv,
           SeenInv, Visible, PreparePlaces, FinalizePlaces, CleanupPlaces, Early,
           BeforeBoot, Unbooted, Goto, GotoDisk, Phase, Checked, options, record, thread,
           oci, helper, ghosts
<1>1. CASE Launch(j)
  BY <1>1 DEF Launch
<1>2. CASE SaveInstance(j)
  BY <1>2 DEF SaveInstance
<1>3. CASE Booted(j)
  BY <1>3 DEF Booted
<1>4. CASE CreateVolume(j)
  BY <1>4 DEF CreateVolume
<1>5. CASE SaveVolume(j)
  BY <1>5 DEF SaveVolume
<1>6. CASE VolumesReady(j)
  BY <1>6 DEF VolumesReady
<1>7. CASE PreAttach(j)
  BY <1>7 DEF PreAttach
<1>8. CASE SaveTargetAttachment(j)
  BY <1>8 DEF SaveTargetAttachment
<1>9. CASE TargetAttached(j)
  BY <1>9 DEF TargetAttached
<1>10. CASE Stop(j)
  BY <1>10 DEF Stop
<1>11. CASE Stopped(j)
  BY <1>11 DEF Stopped
<1>12. CASE SaveBootVolume(j)
  BY <1>12 DEF SaveBootVolume
<1>13. CASE DetachBoot(j)
  BY <1>13 DEF DetachBoot
<1>14. CASE BootDetached(j)
  BY <1>14 DEF BootDetached
<1>15. CASE AttachBoot(j)
  <2> SUFFICES ASSUME abandoned = {} PROVE OwnInv'
    BY <1>15 DEF AttachBoot
  <2>1. /\ lock = None /\ lock' = j /\ device[BootOf[j]] = None
        /\ \A p \in Path : sys[p] # None => p \in before'
    BY <1>15 DEF AttachBoot
  <2>2. \A k \in Job \ {j} : /\ at'[k] = at[k] /\ help'[BootOf[k]] = help[BootOf[k]]
                           /\ lock # k /\ lock' # k
    BY <1>15, <2>1 DEF AttachBoot
  <2>3. device' = device /\ sys' = sys /\ content' = content
    BY <1>15 DEF AttachBoot
  <2> QED BY <2>1, <2>2, <2>3
<1>16. CASE AttachData(j)
  BY <1>16 DEF AttachData
<1>17. CASE SaveHelperAttachment(j)
  BY <1>17 DEF SaveHelperAttachment
<1>18. CASE HelperAttached(j)
  BY <1>18 DEF HelperAttached
<1>19. CASE FoundDevice(j)
  <2> SUFFICES ASSUME abandoned = {} PROVE OwnInv'
    BY <1>19 DEF FoundDevice
  <2>1. PICK p \in Path : Candidates(j) = {p} /\ device' = [device EXCEPT ![BootOf[j]] = p]
    BY <1>19 DEF FoundDevice
  <2>2. /\ lock = j /\ lock' = None /\ sys' = sys /\ help' = help /\ content' = content
        /\ \A k \in Job \ {j} : at'[k] = at[k]
    BY <1>19 DEF FoundDevice
  <2>3. /\ p \in Visible \ before /\ sys[p] \in Disk /\ sys[p] # None
        /\ Size[sys[p]] = Size[BootOf[j]]
    BY <2>1 DEF Candidates
  <2>4. PICK k \in Job : sys[p] \in DisksOf(k)
    BY <2>3 DEF KernelInv
  <2>5. sys[p] = BootOf[k]
    BY <2>3, <2>4 DEF DisksOf, SizesDiffer
  <2>6. sys[p] = BootOf[j]
    BY <2>2, <2>3, <2>5
  <2>7. \A k2 \in Job : device'[BootOf[k2]] = IF k2 = j THEN p ELSE device[BootOf[k2]]
    BY <2>1
  <2> QED BY <2>2, <2>6, <2>7
<1>20. CASE Ready(j)
  BY <1>20 DEF Ready
<1>21. CASE CopyDisks(j)
  <2> SUFFICES ASSUME abandoned = {} PROVE OwnInv'
    BY <1>21 DEF CopyDisks
  <2>1. ASSUME NEW d \in DisksOf(j) PROVE VolumeAt(d) = d
    <3>1. CASE device[d] = Named
      BY <3>1 DEF VolumeAt
    <3>2. CASE device[d] # Named
      <4>1. d = BootOf[j] /\ device[d] # None
        BY <1>21, <2>1, <3>2 DEF CopyDisks, DisksOf
      <4> QED BY <1>21, <3>2, <4>1 DEF CopyDisks, VolumeAt
    <3> QED BY <3>1, <3>2
  <2>2. \A v \in Disk : content'[v] \in {None, v}
    <3> SUFFICES ASSUME NEW v \in Disk PROVE content'[v] \in {None, v}
      OBVIOUS
    <3>1. CASE v \in DisksOf(j)
      BY <1>21, <2>1, <3>1 DEF CopyDisks
    <3>2. CASE v \notin DisksOf(j)
      BY <1>21, <2>1, <3>2 DEF CopyDisks
    <3> QED BY <3>1, <3>2
  <2> QED BY <1>21, <2>2 DEF CopyDisks
<1>22. CASE Finalize(j)
  BY <1>22 DEF Finalize
<1>23. CASE DetachHelper(j)
  BY <1>23 DEF DetachHelper, Detach
<1>24. CASE HelperDetached(j)
  BY <1>24 DEF HelperDetached
<1>25. CASE HelperFree(j)
  BY <1>25 DEF HelperFree
<1>26. CASE ReattachBoot(j)
  BY <1>26 DEF ReattachBoot
<1>27. CASE LookPending(j)
  BY <1>27 DEF LookPending
<1>28. CASE StartTarget(j)
  BY <1>28 DEF StartTarget
<1>29. CASE TargetRuns(j)
  BY <1>29 DEF TargetRuns
<1>30. CASE PlugData(j)
  BY <1>30 DEF PlugData
<1>31. CASE StartOrStop(j)
  BY <1>31 DEF StartOrStop
<1>32. CASE Complete(j)
  BY <1>32 DEF Complete
<1>33. CASE Cleanup(j)
  <2>1. CASE lock = j
    BY <1>33, <2>1 DEF Cleanup, Unlock, CheckPlaces
  <2>2. CASE lock # j
    BY <1>33, <2>2 DEF Cleanup, Unlock, CheckPlaces
  <2> QED BY <2>1, <2>2
<1>34. CASE DetachTarget(j)
  BY <1>34 DEF DetachTarget, Detach
<1>35. CASE TargetDetached(j)
  BY <1>35 DEF TargetDetached
<1>36. CASE Terminate(j)
  BY <1>36 DEF Terminate
<1>37. CASE Delete(j)
  BY <1>37 DEF Delete
<1>38. CASE Unlucky(j)
  <2>1. CASE lock = j
    BY <1>38, <2>1 DEF Unlucky, Fail, Unlock
  <2>2. CASE lock # j
    BY <1>38, <2>2 DEF Unlucky, Fail, Unlock
  <2> QED BY <2>1, <2>2
<1>39. CASE Trouble(j)
  <2>1. CASE lock = j
    BY <1>39, <2>1 DEF Trouble, Fail, Unlock
  <2>2. CASE lock # j
    BY <1>39, <2>2 DEF Trouble, Fail, Unlock
  <2> QED BY <2>1, <2>2
<1>40. CASE AttemptFails(j)
  BY <1>40 DEF AttemptFails
<1>41. CASE RequestCancel(j)
  BY <1>41 DEF RequestCancel
<1>. QED BY <1>1, <1>2, <1>3, <1>4, <1>5, <1>6, <1>7, <1>8, <1>9, <1>10, <1>11, <1>12,
            <1>13, <1>14, <1>15, <1>16, <1>17, <1>18, <1>19, <1>20, <1>21, <1>22, <1>23,
            <1>24, <1>25, <1>26, <1>27, <1>28, <1>29, <1>30, <1>31, <1>32, <1>33, <1>34,
            <1>35, <1>36, <1>37, <1>38, <1>39, <1>40, <1>41 DEF JobStep

(* The data disks of a migration that is not called again are attached to the
   target where the thread takes them to be. *)
LEMMA StepPlug ==
  ASSUME TypeOK, TypeOK', Recorded, Recorded', PlugInv, BootInv,
         NEW j \in Job, JobStep(j) \/ Trouble(j) \/ AttemptFails(j) \/ RequestCancel(j)
  PROVE  PlugInv'
<1> USE DisksAre, DisksApart DEF TypeOK, Recorded, PlugInv, BootInv, Going, PreparePlaces,
           FinalizePlaces, CleanupPlaces, Early, BeforeBoot, Unbooted, Goto, GotoDisk,
           Phase, Checked, options, record, thread, oci, helper, ghosts
<1>1. CASE Launch(j)
  BY <1>1 DEF Launch
<1>2. CASE SaveInstance(j)
  BY <1>2 DEF SaveInstance
<1>3. CASE Booted(j)
  BY <1>3 DEF Booted
<1>4. CASE CreateVolume(j)
  BY <1>4 DEF CreateVolume
<1>5. CASE SaveVolume(j)
  BY <1>5 DEF SaveVolume
<1>6. CASE VolumesReady(j)
  BY <1>6 DEF VolumesReady
<1>7. CASE PreAttach(j)
  BY <1>7 DEF PreAttach
<1>8. CASE SaveTargetAttachment(j)
  BY <1>8 DEF SaveTargetAttachment
<1>9. CASE TargetAttached(j)
  BY <1>9 DEF TargetAttached
<1>10. CASE Stop(j)
  BY <1>10 DEF Stop
<1>11. CASE Stopped(j)
  BY <1>11 DEF Stopped
<1>12. CASE SaveBootVolume(j)
  BY <1>12 DEF SaveBootVolume
<1>13. CASE DetachBoot(j)
  BY <1>13 DEF DetachBoot
<1>14. CASE BootDetached(j)
  BY <1>14 DEF BootDetached
<1>15. CASE AttachBoot(j)
  BY <1>15 DEF AttachBoot
<1>16. CASE AttachData(j)
  BY <1>16 DEF AttachData
<1>17. CASE SaveHelperAttachment(j)
  BY <1>17 DEF SaveHelperAttachment
<1>18. CASE HelperAttached(j)
  BY <1>18 DEF HelperAttached
<1>19. CASE FoundDevice(j)
  BY <1>19 DEF FoundDevice
<1>20. CASE Ready(j)
  BY <1>20 DEF Ready
<1>21. CASE CopyDisks(j)
  BY <1>21 DEF CopyDisks
<1>22. CASE Finalize(j)
  BY <1>22 DEF Finalize
<1>23. CASE DetachHelper(j)
  BY <1>23 DEF DetachHelper, Detach
<1>24. CASE HelperDetached(j)
  BY <1>24 DEF HelperDetached
<1>25. CASE HelperFree(j)
  BY <1>25 DEF HelperFree
<1>26. CASE ReattachBoot(j)
  BY <1>26 DEF ReattachBoot
<1>27. CASE LookPending(j)
  BY <1>27 DEF LookPending
<1>28. CASE StartTarget(j)
  BY <1>28 DEF StartTarget
<1>29. CASE TargetRuns(j)
  BY <1>29 DEF TargetRuns
<1>30. CASE PlugData(j)
  <2>1. CASE Pending(j) = {}
    BY <1>30, <2>1 DEF PlugData
  <2>2. CASE Pending(j) # {}
    BY <1>30, <2>2 DEF PlugData, Pending
  <2> QED BY <2>1, <2>2
<1>31. CASE StartOrStop(j)
  BY <1>31 DEF StartOrStop
<1>32. CASE Complete(j)
  BY <1>32 DEF Complete
<1>33. CASE Cleanup(j)
  BY <1>33 DEF Cleanup, Unlock, CheckPlaces
<1>34. CASE DetachTarget(j)
  BY <1>34 DEF DetachTarget, Detach
<1>35. CASE TargetDetached(j)
  BY <1>35 DEF TargetDetached
<1>36. CASE Terminate(j)
  BY <1>36 DEF Terminate
<1>37. CASE Delete(j)
  BY <1>37 DEF Delete
<1>38. CASE Unlucky(j)
  BY <1>38 DEF Unlucky, Fail, Unlock
<1>39. CASE Trouble(j)
  BY <1>39 DEF Trouble, Fail, Interrupted, Unlock
<1>40. CASE AttemptFails(j)
  BY <1>40 DEF AttemptFails
<1>41. CASE RequestCancel(j)
  BY <1>41 DEF RequestCancel
<1>. QED BY <1>1, <1>2, <1>3, <1>4, <1>5, <1>6, <1>7, <1>8, <1>9, <1>10, <1>11, <1>12,
            <1>13, <1>14, <1>15, <1>16, <1>17, <1>18, <1>19, <1>20, <1>21, <1>22, <1>23,
            <1>24, <1>25, <1>26, <1>27, <1>28, <1>29, <1>30, <1>31, <1>32, <1>33, <1>34,
            <1>35, <1>36, <1>37, <1>38, <1>39, <1>40, <1>41 DEF JobStep

(* So is the boot disk, which prepare takes from its instance. *)
LEMMA StepBoot ==
  ASSUME TypeOK, TypeOK', Recorded, Recorded', BootInv,
         NEW j \in Job, JobStep(j) \/ Trouble(j) \/ AttemptFails(j) \/ RequestCancel(j)
  PROVE  BootInv'
<1> USE DisksAre, DisksApart DEF TypeOK, Recorded, BootInv, PreparePlaces, FinalizePlaces,
           CleanupPlaces, Early, BeforeBoot, Unbooted, Goto, GotoDisk, Phase, Checked,
           options, record, thread, oci, helper, ghosts
<1>1. CASE Launch(j)
  BY <1>1 DEF Launch
<1>2. CASE SaveInstance(j)
  BY <1>2 DEF SaveInstance
<1>3. CASE Booted(j)
  BY <1>3 DEF Booted
<1>4. CASE CreateVolume(j)
  BY <1>4 DEF CreateVolume
<1>5. CASE SaveVolume(j)
  BY <1>5 DEF SaveVolume
<1>6. CASE VolumesReady(j)
  BY <1>6 DEF VolumesReady
<1>7. CASE PreAttach(j)
  BY <1>7 DEF PreAttach
<1>8. CASE SaveTargetAttachment(j)
  BY <1>8 DEF SaveTargetAttachment
<1>9. CASE TargetAttached(j)
  BY <1>9 DEF TargetAttached
<1>10. CASE Stop(j)
  BY <1>10 DEF Stop
<1>11. CASE Stopped(j)
  BY <1>11 DEF Stopped
<1>12. CASE SaveBootVolume(j)
  BY <1>12 DEF SaveBootVolume
<1>13. CASE DetachBoot(j)
  BY <1>13 DEF DetachBoot
<1>14. CASE BootDetached(j)
  BY <1>14 DEF BootDetached
<1>15. CASE AttachBoot(j)
  BY <1>15 DEF AttachBoot
<1>16. CASE AttachData(j)
  BY <1>16 DEF AttachData
<1>17. CASE SaveHelperAttachment(j)
  BY <1>17 DEF SaveHelperAttachment
<1>18. CASE HelperAttached(j)
  BY <1>18 DEF HelperAttached
<1>19. CASE FoundDevice(j)
  BY <1>19 DEF FoundDevice
<1>20. CASE Ready(j)
  BY <1>20 DEF Ready
<1>21. CASE CopyDisks(j)
  BY <1>21 DEF CopyDisks
<1>22. CASE Finalize(j)
  BY <1>22 DEF Finalize
<1>23. CASE DetachHelper(j)
  BY <1>23 DEF DetachHelper, Detach
<1>24. CASE HelperDetached(j)
  BY <1>24 DEF HelperDetached
<1>25. CASE HelperFree(j)
  BY <1>25 DEF HelperFree
<1>26. CASE ReattachBoot(j)
  BY <1>26 DEF ReattachBoot
<1>27. CASE LookPending(j)
  BY <1>27 DEF LookPending
<1>28. CASE StartTarget(j)
  BY <1>28 DEF StartTarget
<1>29. CASE TargetRuns(j)
  BY <1>29 DEF TargetRuns
<1>30. CASE PlugData(j)
  BY <1>30 DEF PlugData
<1>31. CASE StartOrStop(j)
  BY <1>31 DEF StartOrStop
<1>32. CASE Complete(j)
  BY <1>32 DEF Complete
<1>33. CASE Cleanup(j)
  BY <1>33 DEF Cleanup, Unlock, CheckPlaces
<1>34. CASE DetachTarget(j)
  BY <1>34 DEF DetachTarget, Detach
<1>35. CASE TargetDetached(j)
  BY <1>35 DEF TargetDetached
<1>36. CASE Terminate(j)
  BY <1>36 DEF Terminate
<1>37. CASE Delete(j)
  BY <1>37 DEF Delete
<1>38. CASE Unlucky(j)
  BY <1>38 DEF Unlucky, Fail, Unlock
<1>39. CASE Trouble(j)
  BY <1>39 DEF Trouble, Fail, Interrupted, Unlock
<1>40. CASE AttemptFails(j)
  BY <1>40 DEF AttemptFails
<1>41. CASE RequestCancel(j)
  BY <1>41 DEF RequestCancel
<1>. QED BY <1>1, <1>2, <1>3, <1>4, <1>5, <1>6, <1>7, <1>8, <1>9, <1>10, <1>11, <1>12,
            <1>13, <1>14, <1>15, <1>16, <1>17, <1>18, <1>19, <1>20, <1>21, <1>22, <1>23,
            <1>24, <1>25, <1>26, <1>27, <1>28, <1>29, <1>30, <1>31, <1>32, <1>33, <1>34,
            <1>35, <1>36, <1>37, <1>38, <1>39, <1>40, <1>41 DEF JobStep

(* The instance and its boot disk are what the place in finalize says. *)
LEMMA StepTarget ==
  ASSUME TypeOK, TypeOK', Recorded, Recorded', GuestInv, BootInv, TargetInv,
         NEW j \in Job, JobStep(j) \/ Trouble(j) \/ AttemptFails(j) \/ RequestCancel(j)
  PROVE  TargetInv'
<1> USE DisksAre, DisksApart DEF TypeOK, Recorded, GuestInv, BootInv, TargetInv, Going,
           Pending, PreparePlaces, FinalizePlaces, CleanupPlaces, Early, BeforeBoot,
           Unbooted, Goto, GotoDisk, Phase, Checked, options, record, thread, oci, helper,
           ghosts
<1>1. CASE Launch(j)
  BY <1>1 DEF Launch
<1>2. CASE SaveInstance(j)
  BY <1>2 DEF SaveInstance
<1>3. CASE Booted(j)
  BY <1>3 DEF Booted
<1>4. CASE CreateVolume(j)
  BY <1>4 DEF CreateVolume
<1>5. CASE SaveVolume(j)
  BY <1>5 DEF SaveVolume
<1>6. CASE VolumesReady(j)
  BY <1>6 DEF VolumesReady
<1>7. CASE PreAttach(j)
  BY <1>7 DEF PreAttach
<1>8. CASE SaveTargetAttachment(j)
  BY <1>8 DEF SaveTargetAttachment
<1>9. CASE TargetAttached(j)
  BY <1>9 DEF TargetAttached
<1>10. CASE Stop(j)
  BY <1>10 DEF Stop
<1>11. CASE Stopped(j)
  BY <1>11 DEF Stopped
<1>12. CASE SaveBootVolume(j)
  BY <1>12 DEF SaveBootVolume
<1>13. CASE DetachBoot(j)
  BY <1>13 DEF DetachBoot
<1>14. CASE BootDetached(j)
  BY <1>14 DEF BootDetached
<1>15. CASE AttachBoot(j)
  BY <1>15 DEF AttachBoot
<1>16. CASE AttachData(j)
  BY <1>16 DEF AttachData
<1>17. CASE SaveHelperAttachment(j)
  BY <1>17 DEF SaveHelperAttachment
<1>18. CASE HelperAttached(j)
  BY <1>18 DEF HelperAttached
<1>19. CASE FoundDevice(j)
  BY <1>19 DEF FoundDevice
<1>20. CASE Ready(j)
  BY <1>20 DEF Ready
<1>21. CASE CopyDisks(j)
  BY <1>21 DEF CopyDisks
<1>22. CASE Finalize(j)
  BY <1>22 DEF Finalize
<1>23. CASE DetachHelper(j)
  BY <1>23 DEF DetachHelper, Detach
<1>24. CASE HelperDetached(j)
  BY <1>24 DEF HelperDetached
<1>25. CASE HelperFree(j)
  BY <1>25 DEF HelperFree
<1>26. CASE ReattachBoot(j)
  BY <1>26 DEF ReattachBoot
<1>27. CASE LookPending(j)
  <2>1. CASE Pending(j) = {}
    BY <1>27, <2>1 DEF LookPending, Pending
  <2>2. CASE Pending(j) # {}
    BY <1>27, <2>2 DEF LookPending, Pending
  <2> QED BY <2>1, <2>2
<1>28. CASE StartTarget(j)
  BY <1>28 DEF StartTarget
<1>29. CASE TargetRuns(j)
  BY <1>29 DEF TargetRuns
<1>30. CASE PlugData(j)
  BY <1>30 DEF PlugData
<1>31. CASE StartOrStop(j)
  BY <1>31 DEF StartOrStop
<1>32. CASE Complete(j)
  BY <1>32 DEF Complete
<1>33. CASE Cleanup(j)
  BY <1>33 DEF Cleanup, Unlock, CheckPlaces
<1>34. CASE DetachTarget(j)
  BY <1>34 DEF DetachTarget, Detach
<1>35. CASE TargetDetached(j)
  BY <1>35 DEF TargetDetached
<1>36. CASE Terminate(j)
  BY <1>36 DEF Terminate
<1>37. CASE Delete(j)
  BY <1>37 DEF Delete
<1>38. CASE Unlucky(j)
  BY <1>38 DEF Unlucky, Fail, Unlock
<1>39. CASE Trouble(j)
  BY <1>39 DEF Trouble, Fail, Interrupted, Unlock
<1>40. CASE AttemptFails(j)
  BY <1>40 DEF AttemptFails
<1>41. CASE RequestCancel(j)
  BY <1>41 DEF RequestCancel
<1>. QED BY <1>1, <1>2, <1>3, <1>4, <1>5, <1>6, <1>7, <1>8, <1>9, <1>10, <1>11, <1>12,
            <1>13, <1>14, <1>15, <1>16, <1>17, <1>18, <1>19, <1>20, <1>21, <1>22, <1>23,
            <1>24, <1>25, <1>26, <1>27, <1>28, <1>29, <1>30, <1>31, <1>32, <1>33, <1>34,
            <1>35, <1>36, <1>37, <1>38, <1>39, <1>40, <1>41 DEF JobStep

(* What OCI would refuse does not happen. *)
LEMMA NothingRefused ==
  ASSUME TypeOK, Recorded, GuestInv, PlugInv, BootInv, TargetInv, EndInv
  PROVE  CallsAccepted
<1> SUFFICES ASSUME faults = 0, restarts = 0, NEW j \in Job PROVE ~Refused(j)
  BY DEF CallsAccepted
<1>1. j \notin retried
  BY DEF EndInv
<1>2. CASE at[j] = "pre"
  BY <1>2 DEF Refused, Pending, MayAttachToTarget, PlugInv, BootInv, Going, PreparePlaces
<1>3. CASE at[j] = "fboot"
  BY <1>1, <1>3, DisksAre DEF Refused, MayAttachBoot, TargetInv, GuestInv, Going, FinalizePlaces
<1>4. CASE at[j] = "fstart"
  BY <1>1, <1>4 DEF Refused, MayStart, TargetInv, Going, FinalizePlaces
<1>5. CASE at[j] = "fdata"
  BY <1>1, <1>5, DisksAre 
     DEF Refused, Pending, MayAttachToTarget, PlugInv, TargetInv, GuestInv, Going, FinalizePlaces
<1>. QED BY <1>2, <1>3, <1>4, <1>5 DEF Refused

(* A migration completes only with everything attached. *)
LEMMA StepEnd ==
  ASSUME TypeOK, TypeOK', Recorded, Recorded', GuestInv, PlugInv, BootInv, TargetInv, EndInv,
         NEW j \in Job, JobStep(j) \/ Trouble(j) \/ AttemptFails(j) \/ RequestCancel(j)
  PROVE  EndInv'
<1> USE DisksAre, DisksApart, ProvisionAssumption DEF TypeOK, Recorded, EndInv, Whole,
           PreparePlaces, FinalizePlaces, CleanupPlaces, Early, BeforeBoot, Unbooted, Goto,
           GotoDisk, Phase, Checked, options, record, thread, oci, helper, ghosts
<1>1. CASE Launch(j)
  BY <1>1 DEF Launch
<1>2. CASE SaveInstance(j)
  BY <1>2 DEF SaveInstance
<1>3. CASE Booted(j)
  BY <1>3 DEF Booted
<1>4. CASE CreateVolume(j)
  BY <1>4 DEF CreateVolume
<1>5. CASE SaveVolume(j)
  BY <1>5 DEF SaveVolume
<1>6. CASE VolumesReady(j)
  BY <1>6 DEF VolumesReady
<1>7. CASE PreAttach(j)
  BY <1>7 DEF PreAttach
<1>8. CASE SaveTargetAttachment(j)
  BY <1>8 DEF SaveTargetAttachment
<1>9. CASE TargetAttached(j)
  BY <1>9 DEF TargetAttached
<1>10. CASE Stop(j)
  BY <1>10 DEF Stop
<1>11. CASE Stopped(j)
  BY <1>11 DEF Stopped
<1>12. CASE SaveBootVolume(j)
  BY <1>12 DEF SaveBootVolume
<1>13. CASE DetachBoot(j)
  BY <1>13 DEF DetachBoot
<1>14. CASE BootDetached(j)
  BY <1>14 DEF BootDetached
<1>15. CASE AttachBoot(j)
  BY <1>15 DEF AttachBoot
<1>16. CASE AttachData(j)
  BY <1>16 DEF AttachData
<1>17. CASE SaveHelperAttachment(j)
  BY <1>17 DEF SaveHelperAttachment
<1>18. CASE HelperAttached(j)
  BY <1>18 DEF HelperAttached
<1>19. CASE FoundDevice(j)
  BY <1>19 DEF FoundDevice
<1>20. CASE Ready(j)
  BY <1>20 DEF Ready
<1>21. CASE CopyDisks(j)
  BY <1>21 DEF CopyDisks
<1>22. CASE Finalize(j)
  BY <1>22 DEF Finalize
<1>23. CASE DetachHelper(j)
  BY <1>23 DEF DetachHelper, Detach
<1>24. CASE HelperDetached(j)
  BY <1>24 DEF HelperDetached
<1>25. CASE HelperFree(j)
  BY <1>25 DEF HelperFree
<1>26. CASE ReattachBoot(j)
  BY <1>26 DEF ReattachBoot
<1>27. CASE LookPending(j)
  BY <1>27 DEF LookPending
<1>28. CASE StartTarget(j)
  BY <1>28 DEF StartTarget
<1>29. CASE TargetRuns(j)
  BY <1>29 DEF TargetRuns
<1>30. CASE PlugData(j)
  BY <1>30 DEF PlugData
<1>31. CASE StartOrStop(j)
  BY <1>31 DEF StartOrStop
<1>32. CASE Complete(j)
  <2>1. at[j] = "fdone"
    BY <1>32 DEF Complete
  <2>2. j \notin retried => Whole(j)
    BY <2>1 DEF TargetInv, PlugInv, GuestInv, Going, Pending, DisksOf
  <2> QED BY <1>32, <2>1, <2>2 DEF Complete, Whole
<1>33. CASE Cleanup(j)
  BY <1>33 DEF Cleanup, Unlock, CheckPlaces
<1>34. CASE DetachTarget(j)
  BY <1>34 DEF DetachTarget, Detach
<1>35. CASE TargetDetached(j)
  BY <1>35 DEF TargetDetached
<1>36. CASE Terminate(j)
  BY <1>36 DEF Terminate
<1>37. CASE Delete(j)
  BY <1>37 DEF Delete
<1>38. CASE Unlucky(j)
  <2>1. at[j] \in {"pre", "fboot", "fstart", "fdata", "search", "copy"}
    BY <1>38 DEF Unlucky, Refused, Missed
  <2>2. ASSUME faults = 0, restarts = 0 PROVE j \notin copied
    <3>1. ~Refused(j)
      BY <2>2, NothingRefused DEF CallsAccepted
    <3> QED BY <1>38, <3>1 DEF Unlucky, Missed
  <2> QED BY <1>38, <2>1, <2>2 DEF Unlucky, Fail, Unlock
<1>39. CASE Trouble(j)
  BY <1>39 DEF Trouble, Fail, Interrupted, Unlock
<1>40. CASE AttemptFails(j)
  BY <1>40 DEF AttemptFails
<1>41. CASE RequestCancel(j)
  BY <1>41 DEF RequestCancel
<1>. QED BY <1>1, <1>2, <1>3, <1>4, <1>5, <1>6, <1>7, <1>8, <1>9, <1>10, <1>11, <1>12,
            <1>13, <1>14, <1>15, <1>16, <1>17, <1>18, <1>19, <1>20, <1>21, <1>22, <1>23,
            <1>24, <1>25, <1>26, <1>27, <1>28, <1>29, <1>30, <1>31, <1>32, <1>33, <1>34,
            <1>35, <1>36, <1>37, <1>38, <1>39, <1>40, <1>41 DEF JobStep

(* What is attached is on record, or a stray. *)
LEMMA StepTrace ==
  ASSUME TypeOK, TypeOK', Recorded, Recorded', TraceInv,
         NEW j \in Job, JobStep(j) \/ Trouble(j) \/ AttemptFails(j) \/ RequestCancel(j)
  PROVE  TraceInv'
<1> USE DisksAre, DisksApart DEF TypeOK, Recorded, TraceInv, PreparePlaces, FinalizePlaces,
           CleanupPlaces, Early, BeforeBoot, Unbooted, Goto, GotoDisk, Phase, Checked,
           options, record, thread, oci, helper, ghosts
<1>1. CASE Launch(j)
  BY <1>1 DEF Launch
<1>2. CASE SaveInstance(j)
  BY <1>2 DEF SaveInstance
<1>3. CASE Booted(j)
  BY <1>3 DEF Booted
<1>4. CASE CreateVolume(j)
  BY <1>4 DEF CreateVolume
<1>5. CASE SaveVolume(j)
  BY <1>5 DEF SaveVolume
<1>6. CASE VolumesReady(j)
  BY <1>6 DEF VolumesReady
<1>7. CASE PreAttach(j)
  BY <1>7 DEF PreAttach
<1>8. CASE SaveTargetAttachment(j)
  BY <1>8 DEF SaveTargetAttachment
<1>9. CASE TargetAttached(j)
  BY <1>9 DEF TargetAttached
<1>10. CASE Stop(j)
  BY <1>10 DEF Stop
<1>11. CASE Stopped(j)
  BY <1>11 DEF Stopped
<1>12. CASE SaveBootVolume(j)
  BY <1>12 DEF SaveBootVolume
<1>13. CASE DetachBoot(j)
  BY <1>13 DEF DetachBoot
<1>14. CASE BootDetached(j)
  BY <1>14 DEF BootDetached
<1>15. CASE AttachBoot(j)
  BY <1>15 DEF AttachBoot
<1>16. CASE AttachData(j)
  BY <1>16 DEF AttachData
<1>17. CASE SaveHelperAttachment(j)
  BY <1>17 DEF SaveHelperAttachment
<1>18. CASE HelperAttached(j)
  BY <1>18 DEF HelperAttached
<1>19. CASE FoundDevice(j)
  BY <1>19 DEF FoundDevice
<1>20. CASE Ready(j)
  BY <1>20 DEF Ready
<1>21. CASE CopyDisks(j)
  BY <1>21 DEF CopyDisks
<1>22. CASE Finalize(j)
  BY <1>22 DEF Finalize
<1>23. CASE DetachHelper(j)
  BY <1>23 DEF DetachHelper, Detach
<1>24. CASE HelperDetached(j)
  BY <1>24 DEF HelperDetached
<1>25. CASE HelperFree(j)
  BY <1>25 DEF HelperFree
<1>26. CASE ReattachBoot(j)
  <2>1. CASE BootOf[j] \in targetAtt
    BY <1>26, <2>1 DEF ReattachBoot
  <2>2. CASE BootOf[j] \notin targetAtt
    BY <1>26, <2>2 DEF ReattachBoot, MayAttachBoot
  <2> QED BY <2>1, <2>2
<1>27. CASE LookPending(j)
  BY <1>27 DEF LookPending
<1>28. CASE StartTarget(j)
  BY <1>28 DEF StartTarget
<1>29. CASE TargetRuns(j)
  BY <1>29 DEF TargetRuns
<1>30. CASE PlugData(j)
  BY <1>30 DEF PlugData
<1>31. CASE StartOrStop(j)
  BY <1>31 DEF StartOrStop
<1>32. CASE Complete(j)
  BY <1>32 DEF Complete
<1>33. CASE Cleanup(j)
  BY <1>33 DEF Cleanup, Unlock, CheckPlaces
<1>34. CASE DetachTarget(j)
  BY <1>34 DEF DetachTarget, Detach
<1>35. CASE TargetDetached(j)
  BY <1>35 DEF TargetDetached
<1>36. CASE Terminate(j)
  BY <1>36 DEF Terminate
<1>37. CASE Delete(j)
  BY <1>37 DEF Delete
<1>38. CASE Unlucky(j)
  <2>1. at[j] \in {"pre", "fboot", "fstart", "fdata", "search", "copy"}
    BY <1>38 DEF Unlucky, Refused, Missed
  <2> QED BY <1>38, <2>1 DEF Unlucky, Fail, Unlock
<1>39. CASE Trouble(j)
  BY <1>39 DEF Trouble, Fail, Interrupted, Unlock
<1>40. CASE AttemptFails(j)
  BY <1>40 DEF AttemptFails
<1>41. CASE RequestCancel(j)
  BY <1>41 DEF RequestCancel
<1>. QED BY <1>1, <1>2, <1>3, <1>4, <1>5, <1>6, <1>7, <1>8, <1>9, <1>10, <1>11, <1>12,
            <1>13, <1>14, <1>15, <1>16, <1>17, <1>18, <1>19, <1>20, <1>21, <1>22, <1>23,
            <1>24, <1>25, <1>26, <1>27, <1>28, <1>29, <1>30, <1>31, <1>32, <1>33, <1>34,
            <1>35, <1>36, <1>37, <1>38, <1>39, <1>40, <1>41 DEF JobStep

(* A cleanup that no failure botched removes what is on record. *)
LEMMA StepClean ==
  ASSUME TypeOK, TypeOK', Recorded, Recorded', TraceInv, CleanInv,
         NEW j \in Job, JobStep(j) \/ Trouble(j) \/ AttemptFails(j) \/ RequestCancel(j)
  PROVE  CleanInv'
<1> USE DisksAre, DisksApart DEF TypeOK, Recorded, TraceInv, CleanInv, Cleaned,
           CleanupRemoves, PreparePlaces, FinalizePlaces, CleanupPlaces, Early, BeforeBoot,
           Unbooted, Goto, GotoDisk, Phase, Checked, options, record, thread, oci, helper,
           ghosts
<1>1. CASE Launch(j)
  BY <1>1 DEF Launch
<1>2. CASE SaveInstance(j)
  BY <1>2 DEF SaveInstance
<1>3. CASE Booted(j)
  BY <1>3 DEF Booted
<1>4. CASE CreateVolume(j)
  BY <1>4 DEF CreateVolume
<1>5. CASE SaveVolume(j)
  BY <1>5 DEF SaveVolume
<1>6. CASE VolumesReady(j)
  BY <1>6 DEF VolumesReady
<1>7. CASE PreAttach(j)
  BY <1>7 DEF PreAttach
<1>8. CASE SaveTargetAttachment(j)
  BY <1>8 DEF SaveTargetAttachment
<1>9. CASE TargetAttached(j)
  BY <1>9 DEF TargetAttached
<1>10. CASE Stop(j)
  BY <1>10 DEF Stop
<1>11. CASE Stopped(j)
  BY <1>11 DEF Stopped
<1>12. CASE SaveBootVolume(j)
  BY <1>12 DEF SaveBootVolume
<1>13. CASE DetachBoot(j)
  BY <1>13 DEF DetachBoot
<1>14. CASE BootDetached(j)
  BY <1>14 DEF BootDetached
<1>15. CASE AttachBoot(j)
  BY <1>15 DEF AttachBoot
<1>16. CASE AttachData(j)
  BY <1>16 DEF AttachData
<1>17. CASE SaveHelperAttachment(j)
  BY <1>17 DEF SaveHelperAttachment
<1>18. CASE HelperAttached(j)
  BY <1>18 DEF HelperAttached
<1>19. CASE FoundDevice(j)
  BY <1>19 DEF FoundDevice
<1>20. CASE Ready(j)
  BY <1>20 DEF Ready
<1>21. CASE CopyDisks(j)
  BY <1>21 DEF CopyDisks
<1>22. CASE Finalize(j)
  BY <1>22 DEF Finalize
<1>23. CASE DetachHelper(j)
  BY <1>23 DEF DetachHelper, Detach
<1>24. CASE HelperDetached(j)
  BY <1>24 DEF HelperDetached
<1>25. CASE HelperFree(j)
  BY <1>25 DEF HelperFree
<1>26. CASE ReattachBoot(j)
  BY <1>26 DEF ReattachBoot
<1>27. CASE LookPending(j)
  BY <1>27 DEF LookPending
<1>28. CASE StartTarget(j)
  BY <1>28 DEF StartTarget
<1>29. CASE TargetRuns(j)
  BY <1>29 DEF TargetRuns
<1>30. CASE PlugData(j)
  BY <1>30 DEF PlugData
<1>31. CASE StartOrStop(j)
  BY <1>31 DEF StartOrStop
<1>32. CASE Complete(j)
  BY <1>32 DEF Complete
<1>33. CASE Cleanup(j)
  BY <1>33 DEF Cleanup, Unlock, CheckPlaces
<1>34. CASE DetachTarget(j)
  BY <1>34 DEF DetachTarget, Detach
<1>35. CASE TargetDetached(j)
  BY <1>35 DEF TargetDetached
<1>36. CASE Terminate(j)
  BY <1>36 DEF Terminate
<1>37. CASE Delete(j)
  <2>1. at[j] = "cdelete" /\ at' = [at EXCEPT ![j] = "idle"]
    BY <1>37 DEF Delete
  <2>2. /\ exists' = exists \ {d \in DisksOf(j) \cap volId : help[d] = "no" /\ targ[d] = "no"}
        /\ UNCHANGED <<inst, help, targ, volId, helperAtt, targetAtt, instId, botched, stray, tried>>
        /\ \A k \in Job \ {j} : phase'[k] = phase[k]
    BY <1>37 DEF Delete
  <2>3. Cleaned'
    BY <2>1, <2>2 DEF CleanInv
  <2>4. ASSUME j \notin botched, NEW d \in DisksOf(j) \cap volId \cap exists' PROVE d \in stray
    <3>1. help[d] # "no" \/ targ[d] # "no"
      BY <2>2
    <3>2. help[d] # "no" => d \in stray
      BY <2>1, <2>4
    <3>3. d \in DataOf[j] /\ targ[d] # "no" => d \in stray
      BY <2>1, <2>4
    <3>4. d = BootOf[j] /\ targ[d] # "no" => d \in stray
      BY <2>1, <2>4
    <3> QED BY <3>1, <3>2, <3>3, <3>4 DEF DisksOf
  <2>5. CleanupRemoves'
    <3>1. ASSUME NEW k \in Job \ botched, k # j, phase[k] = "CANCELLED", at[k] = "idle"
          PROVE  /\ k \in instId => inst[k] = "gone"
                 /\ DisksOf(k) \cap volId \cap exists' \subseteq stray
      BY <2>2, <3>1 DEF CleanInv
    <3>2. j \notin botched /\ j \in instId => inst[j] = "gone"
      BY <2>1 DEF CleanInv
    <3> QED BY <2>1, <2>2, <2>4, <3>1, <3>2
  <2> QED BY <2>3, <2>5 DEF CleanInv
<1>38. CASE Unlucky(j)
  BY <1>38 DEF Unlucky, Fail, Unlock
<1>39. CASE Trouble(j)
  BY <1>39 DEF Trouble, Fail, Interrupted, Unlock
<1>40. CASE AttemptFails(j)
  BY <1>40 DEF AttemptFails
<1>41. CASE RequestCancel(j)
  BY <1>41 DEF RequestCancel
<1>. QED BY <1>1, <1>2, <1>3, <1>4, <1>5, <1>6, <1>7, <1>8, <1>9, <1>10, <1>11, <1>12,
            <1>13, <1>14, <1>15, <1>16, <1>17, <1>18, <1>19, <1>20, <1>21, <1>22, <1>23,
            <1>24, <1>25, <1>26, <1>27, <1>28, <1>29, <1>30, <1>31, <1>32, <1>33, <1>34,
            <1>35, <1>36, <1>37, <1>38, <1>39, <1>40, <1>41 DEF JobStep

-----------------------------------------------------------------------------
(* The steps of OCI and of the kernel. *)

(* A set of letters that is not empty has a first one. *)
LEMMA Least ==
  ASSUME NEW S \in SUBSET Nat, S # {}
  PROVE  \E p \in S : \A q \in S : p <= q
<1> DEFINE R == OpToRel(<, Nat)
<1>1. IsWellFoundedOn(R, Nat)
  BY NatLessThanWellFounded
<1>2. PICK p \in S : \A q \in S : ~(<<q, p>> \in R)
  <2> HIDE DEF R
  <2> QED BY <1>1, WFMin
<1>3. \A q \in S : q < p => <<q, p>> \in R
  BY DEF OpToRel
<1> HIDE DEF R
<1>4. \A q \in S : ~(q < p)
  BY <1>2, <1>3, Zenon
<1>. QED BY <1>4

(* There is a letter left for every disk that is not there yet. *)
LEMMA FreePath ==
  ASSUME TypeOK, KernelInv, NEW d \in Disk, Appear(d)
  PROVE  \E p \in Path : /\ sys[p] = None /\ sys' = [sys EXCEPT ![p] = d]
                         /\ d \notin {sys[q] : q \in Path}
<1>1. IsFiniteSet(Disk) /\ Cardinality(Disk) \in Nat
  BY ProvisionAssumption, FS_CardinalityType
<1>2. IsFiniteSet(Path) /\ Cardinality(Path) = Cardinality(Disk)
  BY <1>1, FS_Interval DEF Path
<1>3. /\ IsFiniteSet(Disk \ {d}) /\ Cardinality(Disk \ {d}) = Cardinality(Disk) - 1
  BY <1>1, FS_RemoveElement
<1>4. Path \ Visible # {}
  <2> SUFFICES ASSUME Path \subseteq Visible PROVE FALSE
    OBVIOUS
  <2>1. sys \in [Path -> Disk \ {d}]
    BY DEF TypeOK, Appear, Visible
  <2>2. Cardinality(Disk \ {d}) < Cardinality(Path)
    BY <1>1, <1>2, <1>3
  <2>3. \E p, q \in Path : p # q /\ sys[p] = sys[q]
    BY <1>2, <1>3, <2>1, <2>2, FS_PigeonHole
  <2> QED BY <2>3 DEF KernelInv, Visible
<1>5. Path \ Visible \in SUBSET Nat
  BY <1>1 DEF Path
<1>6. \E p \in Path \ Visible : \A q \in Path \ Visible : p <= q
  BY <1>4, <1>5, Least
<1> DEFINE x == CHOOSE p \in Path \ Visible : \A q \in Path \ Visible : p <= q
<1>7. x \in Path \ Visible
  BY <1>6
<1>8. sys' = [sys EXCEPT ![x] = d] /\ d \notin {sys[q] : q \in Path}
  BY DEF Appear
<1> HIDE DEF x
<1>. QED BY <1>7, <1>8 DEF Visible

ProvisionInv == BaseInv /\ GuestInv /\ LockInv

(* What OCI and the kernel finish keeps the invariants of the guest and the
   lock. *)
LEMMA SettleKeeps ==
  ASSUME ProvisionInv, OciStep
  PROVE  ProvisionInv' /\ (OwnInv => OwnInv')
<1> USE DisksAre, DisksApart, ProvisionAssumption
    DEF ProvisionInv, BaseInv, TypeOK, Attachment, options, record, thread, oci, helper, ghosts
<1>1. ASSUME NEW j \in Job, InstanceSettles(j)
      PROVE  ProvisionInv' /\ (OwnInv => OwnInv')
  <2> USE <1>1 DEF InstanceSettles
  <2>1. inst'[j] \in {"running", "stopped"} /\ \A k \in Job \ {j} : inst'[k] = inst[k]
    BY DEF Settled
  <2>2. inst' \in [Job -> {"none", "starting", "running", "stopping", "stopped", "gone"}]
    BY <2>1
  <2>3. TypeOK'
    BY <2>2
  <2>4. Recorded' /\ KernelInv'
    BY DEF Recorded, KernelInv
  <2>5. GuestInv'
    BY <2>1 DEF GuestInv, GuestAlone, Settled
  <2>6. LockInv' /\ (OwnInv => OwnInv')
    BY DEF LockInv, OwnInv, SeenInv, Visible
  <2> QED BY <2>3, <2>4, <2>5, <2>6
<1>2. ASSUME NEW d \in Disk, TargetSettles(d)
      PROVE  ProvisionInv' /\ (OwnInv => OwnInv')
  <2> USE <1>2 DEF TargetSettles
  <2>1. targ' \in [Disk -> Attachment]
    BY DEF Settled
  <2>2. TypeOK'
    BY <2>1
  <2>3. Recorded' /\ KernelInv'
    BY DEF Recorded, KernelInv
  <2>4. GuestInv' /\ LockInv' /\ (OwnInv => OwnInv')
    BY DEF GuestInv, GuestAlone, LockInv, OwnInv, SeenInv, Visible
  <2> QED BY <2>2, <2>3, <2>4
<1>3. ASSUME NEW d \in Disk, HelperSettles(d)
      PROVE  ProvisionInv' /\ (OwnInv => OwnInv')
  <2> USE <1>3 DEF HelperSettles
  <2>1. /\ help'[d] = IF help[d] = "detaching" THEN "no" ELSE "attached"
        /\ help[d] \in {"attaching", "detaching"}
        /\ \A e \in Disk \ {d} : help'[e] = help[e]
    BY DEF Settled
  <2>2. \A p \in Path : sys'[p] = IF help[d] = "detaching" /\ sys[p] = d THEN None ELSE sys[p]
    OBVIOUS
  <2>3. help' \in [Disk -> Attachment] /\ sys' \in [Path -> Disk \cup {None}]
    BY <2>1, <2>2
  <2>4. TypeOK'
    BY <2>3
  <2>5. Recorded'
    BY DEF Recorded
  <2>6. KernelInv'
    BY <2>1, <2>2, <2>3 DEF KernelInv
  <2>7. GuestInv' /\ LockInv'
    BY <2>1 DEF GuestInv, GuestAlone, LockInv
  <2>8. ASSUME OwnInv, abandoned = {} PROVE SeenInv'
    BY <2>1, <2>2, <2>8 DEF OwnInv, SeenInv, LockInv, Visible
  <2> QED BY <2>4, <2>5, <2>6, <2>7, <2>8 DEF OwnInv
<1>4. ASSUME NEW d \in Disk, Appear(d)
      PROVE  ProvisionInv' /\ (OwnInv => OwnInv')
  <2>1. PICK p \in Path : /\ sys[p] = None /\ sys' = [sys EXCEPT ![p] = d]
                          /\ d \notin {sys[q] : q \in Path}
    BY <1>4, FreePath
  <2>2. \A q \in Path : sys'[q] = IF q = p THEN d ELSE sys[q]
    BY <2>1
  <2>3. sys' \in [Path -> Disk \cup {None}]
    BY <2>1
  <2> USE <1>4 DEF Appear
  <2>4. TypeOK'
    BY <2>3
  <2>5. Recorded'
    BY DEF Recorded
  <2>6. KernelInv'
    BY <2>1, <2>2 DEF KernelInv
  <2>7. GuestInv' /\ LockInv'
    BY DEF GuestInv, GuestAlone, LockInv
  <2>8. ASSUME OwnInv, abandoned = {} PROVE SeenInv'
    BY <2>1, <2>2, <2>8 DEF OwnInv, SeenInv, LockInv, Visible
  <2> QED BY <2>4, <2>5, <2>6, <2>7, <2>8 DEF OwnInv
<1>. QED BY <1>1, <1>2, <1>3, <1>4 DEF OciStep

(* It keeps those of the ends as well. *)
LEMMA SettleKeepsEnds ==
  ASSUME ProvisionInv, EndsInv, OciStep
  PROVE  EndsInv'
<1> USE DisksAre, DisksApart
    DEF ProvisionInv, BaseInv, EndsInv, TypeOK, options, record, thread, oci, helper, ghosts
<1>1. ASSUME NEW j \in Job, InstanceSettles(j)
      PROVE  EndsInv'
  <2> USE <1>1 DEF InstanceSettles
  <2>1. /\ inst[j] \in {"starting", "stopping"}
        /\ inst'[j] = IF inst[j] = "starting" THEN "running" ELSE "stopped"
        /\ \A k \in Job \ {j} : inst'[k] = inst[k]
    BY DEF Settled
  <2>2. PlugInv' /\ BootInv'
    BY <2>1 DEF PlugInv, BootInv, Going
  <2>3. TargetInv'
    BY <2>1 DEF TargetInv, Going, Pending
  <2>4. EndInv'
    BY <2>1 DEF EndInv, Whole
  <2>5. TraceInv' /\ CleanInv'
    BY <2>1 DEF TraceInv, CleanInv, Cleaned, CleanupRemoves
  <2> QED BY <2>2, <2>3, <2>4, <2>5
<1>2. ASSUME NEW d \in Disk, TargetSettles(d)
      PROVE  EndsInv'
  <2> USE <1>2 DEF TargetSettles
  <2>1. /\ targ[d] \in {"attaching", "detaching"}
        /\ targ'[d] = IF targ[d] = "attaching" THEN "attached" ELSE "no"
        /\ \A e \in Disk \ {d} : targ'[e] = targ[e]
    BY DEF Settled
  <2>2. PlugInv' /\ BootInv'
    BY <2>1 DEF PlugInv, BootInv, Going
  <2>3. TargetInv'
    BY <2>1 DEF TargetInv, Going, Pending
  <2>4. EndInv'
    BY <2>1 DEF EndInv, Whole
  <2>5. TraceInv' /\ CleanInv'
    BY <2>1 DEF TraceInv, CleanInv, Cleaned, CleanupRemoves
  <2> QED BY <2>2, <2>3, <2>4, <2>5
<1>3. ASSUME NEW d \in Disk, HelperSettles(d) \/ Appear(d)
      PROVE  EndsInv'
  <2>1. /\ \A e \in Disk : help[e] = "no" => help'[e] = "no"
        /\ UNCHANGED <<options, record, thread, inst, exists, targ, ghosts>>
    BY <1>3 DEF HelperSettles, Appear
  <2>2. PlugInv' /\ BootInv'
    BY <2>1 DEF PlugInv, BootInv, Going
  <2>3. TargetInv'
    BY <2>1 DEF TargetInv, Going, Pending
  <2>4. EndInv'
    BY <2>1 DEF EndInv, Whole
  <2>5. TraceInv' /\ CleanInv'
    BY <2>1 DEF TraceInv, CleanInv, Cleaned, CleanupRemoves
  <2> QED BY <2>2, <2>3, <2>4, <2>5
<1>. QED BY <1>1, <1>2, <1>3 DEF OciStep

-----------------------------------------------------------------------------
(* A restart ends all threads. *)
LEMMA RestartKeeps ==
  ASSUME ProvisionInv, Restart
  PROVE  ProvisionInv' /\ (OwnInv => OwnInv')
<1> USE DisksAre, ProvisionAssumption
    DEF ProvisionInv, BaseInv, Restart, options, record, thread, oci, helper, ghosts
<1>1. \A j \in Job : at'[j] = "idle" /\ at'[j] \notin PreparePlaces \cup FinalizePlaces
  BY DEF PreparePlaces, FinalizePlaces
<1>2. stray' \subseteq Disk
  <2>1. \A j \in Job : at[j] \in {"helped", "preattached", "fattached"} => cur[j] \in Disk
    BY DEF Recorded
  <2> QED BY <2>1 DEF TypeOK
<1>3. phase' \in [Job -> Phases] /\ restarts' \in 0..MaxRestarts
  BY DEF TypeOK, Phases
<1>4. TypeOK'
  BY <1>2, <1>3 DEF TypeOK
<1>5. Recorded'
  BY <1>1 DEF Recorded, Unbooted
<1>6. KernelInv'
  BY DEF KernelInv
<1>7. GuestInv'
  BY <1>1 DEF Recorded, GuestInv, GuestAlone, Unbooted, PreparePlaces
<1>8. LockInv'
  BY <1>1 DEF LockInv
<1>9. ASSUME OwnInv PROVE OwnInv'
  <2>1. abandoned' = {} => abandoned = {} /\ \A j \in Job : lock # j
    OBVIOUS
  <2> QED BY <1>1, <1>9, <2>1 DEF OwnInv, SeenInv, Visible
<1>. QED BY <1>4, <1>5, <1>6, <1>7, <1>8, <1>9

(* What the restart leaves of a job on record can be cleaned up. *)
LEMMA RestartKeepsEnds ==
  ASSUME ProvisionInv, EndsInv, Restart
  PROVE  EndsInv'
<1> USE DisksAre, ProvisionAssumption
    DEF ProvisionInv, BaseInv, EndsInv, TypeOK, Restart, options, record, thread, oci, helper, ghosts
<1>1. \A j \in Job : at'[j] = "idle" /\ at'[j] \notin PreparePlaces \cup FinalizePlaces \cup CleanupPlaces
  BY DEF PreparePlaces, FinalizePlaces, CleanupPlaces
<1>2. PlugInv' /\ BootInv' /\ TargetInv'
  BY <1>1 DEF PlugInv, BootInv, TargetInv, Going, Unbooted
<1>3. EndInv'
  BY <1>1 DEF EndInv, Whole
<1>4. TraceInv'
  BY <1>1 DEF TraceInv
<1>5. CleanInv'
  <2>1. \A j \in Job \ botched' : phase'[j] = "CANCELLED" => phase[j] = "CANCELLED" /\ at[j] = "idle"
    BY DEF EndInv, Places
  <2>2. botched \subseteq botched' /\ stray \subseteq stray'
    OBVIOUS
  <2> QED BY <1>1, <2>1, <2>2 DEF CleanInv, Cleaned, CleanupRemoves
<1>. QED BY <1>2, <1>3, <1>4, <1>5

-----------------------------------------------------------------------------
(* The invariants. *)

(* At first there is nothing on record and nothing attached. *)
LEMMA ProvisionStarts == Init => ProvisionInv /\ OwnInv
<1> SUFFICES ASSUME Init PROVE ProvisionInv /\ OwnInv
  OBVIOUS
<1> USE ProvisionAssumption, DisksAre DEF Init
<1>1. TypeOK
  BY DEF TypeOK, Phases, PreparePlaces, Attachment
<1>2. Recorded /\ KernelInv
  BY DEF Recorded, KernelInv, Early, Unbooted, BeforeBoot, FinalizePlaces
<1>3. GuestInv /\ LockInv /\ OwnInv
  BY DEF GuestInv, GuestAlone, LockInv, OwnInv, SeenInv, Visible, Unbooted, BeforeBoot, Early,
         FinalizePlaces
<1>. QED BY <1>1, <1>2, <1>3 DEF ProvisionInv, BaseInv

(* Every step of anybody keeps the invariants of the guest and the lock. *)
LEMMA ProvisionKept ==
  ASSUME ProvisionInv, [Next]_vars
  PROVE  ProvisionInv' /\ (SizesDiffer /\ OwnInv => OwnInv')
<1>1. ASSUME NEW j \in Job, JobStep(j) \/ Trouble(j) \/ AttemptFails(j) \/ RequestCancel(j)
      PROVE  ProvisionInv' /\ (SizesDiffer /\ OwnInv => OwnInv')
  <2>1. TypeOK'
    BY <1>1, StepTyped DEF ProvisionInv, BaseInv
  <2> QED BY <1>1, <2>1, StepRecorded, StepKernel, StepGuest, StepLock, StepOwn
          DEF ProvisionInv, BaseInv
<1>2. CASE UNCHANGED vars
  <2> USE <1>2 DEF vars, options, record, thread, oci, helper, ghosts
  <2>1. TypeOK' /\ Recorded' /\ KernelInv'
    BY DEF ProvisionInv, BaseInv, TypeOK, Recorded, KernelInv
  <2>2. GuestInv' /\ LockInv'
    BY DEF ProvisionInv, GuestInv, GuestAlone, LockInv
  <2>3. OwnInv => OwnInv'
    BY DEF OwnInv, SeenInv, Visible
  <2> QED BY <2>1, <2>2, <2>3 DEF ProvisionInv, BaseInv
<1>. QED BY <1>1, <1>2, SettleKeeps, RestartKeeps DEF Next

(* No job has ended at first. *)
LEMMA EndsStart == Init => EndsInv
<1> SUFFICES ASSUME Init PROVE EndsInv
  OBVIOUS
<1> USE ProvisionAssumption, DisksAre DEF Init
<1>1. PlugInv /\ BootInv /\ TargetInv
  BY DEF PlugInv, BootInv, TargetInv, Unbooted, BeforeBoot, Early
<1>2. EndInv /\ TraceInv /\ CleanInv
  BY DEF EndInv, TraceInv, CleanInv, Cleaned, CleanupRemoves, CleanupPlaces
<1>. QED BY <1>1, <1>2 DEF EndsInv

(* Every step keeps those of the ends. *)
LEMMA EndsKept ==
  ASSUME ProvisionInv, ProvisionInv', EndsInv, [Next]_vars
  PROVE  EndsInv'
<1>1. ASSUME NEW j \in Job, JobStep(j) \/ Trouble(j) \/ AttemptFails(j) \/ RequestCancel(j)
      PROVE  EndsInv'
  BY <1>1, StepPlug, StepBoot, StepTarget, StepEnd, StepTrace, StepClean
     DEF ProvisionInv, BaseInv, EndsInv
<1>2. CASE UNCHANGED vars
  <2> USE <1>2 DEF vars, options, record, thread, oci, helper, ghosts
  <2>1. PlugInv' /\ BootInv' /\ TargetInv'
    BY DEF EndsInv, PlugInv, BootInv, TargetInv, Going, Pending
  <2>2. EndInv' /\ TraceInv' /\ CleanInv'
    BY DEF EndsInv, EndInv, Whole, TraceInv, CleanInv, Cleaned, CleanupRemoves
  <2> QED BY <2>1, <2>2 DEF EndsInv
<1>. QED BY <1>1, <1>2, SettleKeepsEnds, RestartKeepsEnds DEF Next

(* All of it holds at all times. *)
LEMMA ProvisionHolds == Spec => [](ProvisionInv /\ EndsInv)
<1>1. Init => ProvisionInv /\ EndsInv
  BY ProvisionStarts, EndsStart
<1>2. ProvisionInv /\ EndsInv /\ [Next]_vars => ProvisionInv' /\ EndsInv'
  <2> SUFFICES ASSUME ProvisionInv, EndsInv, [Next]_vars PROVE ProvisionInv' /\ EndsInv'
    OBVIOUS
  <2>1. ProvisionInv'
    BY ProvisionKept
  <2> QED BY <2>1, EndsKept
<1>. QED BY <1>1, <1>2, PTL DEF Spec

(* Records, threads, OCI and the kernel keep their types, and as long as    *)
(* nothing fails, OCI has no reason to refuse a call of prepare or finalize: *)
(* each instance and volume is in the state the call asks for.             *)
THEOREM CallsAreAccepted == Spec => []CallsGo
<1>1. ProvisionInv /\ EndsInv => CallsGo
  BY NothingRefused DEF ProvisionInv, BaseInv, EndsInv, CallsGo
<1>. QED BY <1>1, ProvisionHolds, PTL

(* A migration that completes in one go has all its disks on an instance   *)
(* in the state asked for; a cleanup of which no attempt failed leaves     *)
(* nothing that is on record, wherever the job had got and whatever had    *)
(* failed before, but for volumes a call was left in flight on.            *)
THEOREM EndsWhole == Spec => []JobsEndWhole
<1>1. EndsInv => JobsEndWhole
  BY DEF EndsInv, EndInv, CleanInv, JobsEndWhole, CompletedWhole
<1>. QED BY <1>1, ProvisionHolds, PTL

(* Whatever fails and is retried, cleaned up or cut off: the guest never   *)
(* runs while the helper has one of its disks attached.                    *)
THEOREM GuestNeverShares == Spec => []GuestAlone
<1>1. ProvisionInv => GuestAlone
  BY DEF ProvisionInv, GuestInv
<1>. QED BY <1>1, ProvisionHolds, PTL

(* The lock and the scan give every job its own volume, as long as the     *)
(* sizes tell data disks from boot disks and no wait is given up.          *)
THEOREM EachItsVolume == SizesDiffer => (Spec => []OwnVolume)
<1> SUFFICES ASSUME SizesDiffer PROVE Spec => []OwnVolume
  OBVIOUS
<1>1. Init => ProvisionInv /\ OwnInv
  BY ProvisionStarts
<1>2. ProvisionInv /\ OwnInv /\ [Next]_vars => ProvisionInv' /\ OwnInv'
  BY ProvisionKept
<1>3. OwnInv => OwnVolume
  BY DEF OwnInv, OwnVolume
<1>. QED BY <1>1, <1>2, <1>3, PTL DEF Spec
=============================================================================
