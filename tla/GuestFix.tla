------------------------------- MODULE GuestFix -------------------------------
(***************************************************************************)
(* The fix-up of a copied Linux guest (GuestFixer.fix of guest/fixup.py    *)
(* with _Session of guest/initramfs.py): the helper activates the guest's  *)
(* volume groups, mounts its root and /boot, rebuilds the initramfs of the *)
(* kernels that lack the drivers OCI needs, lets the other steps edit the  *)
(* guest's files, and undoes its mounts and groups, whatever went wrong.   *)
(* The volume is the only copy that will boot in OCI.                      *)
(*                                                                         *)
(* What there is and what the helper has noted down are kept apart:        *)
(* mounted and mounts, active and vgs.                                     *)
(***************************************************************************)
EXTENDS Naturals, Sequences, SequencesExt

CONSTANTS NumKernels, \* installed kernels, by age
          NumGroups,  \* volume groups of the guest
          MaxRoom,    \* room in /boot: a generic image takes 2, a host-only one takes 1
          MaxFaults   \* bound on commands and writes that fail; vgchange -an is not counted

VARIABLES
  guest,    \* what does not change: has (the drivers are in the image), ships (the kernel has them),
            \* default (the kernel GRUB boots), staging (room on the root fs), hostonly (dracut knows the flag),
            \* groups (volume groups on the disk)
  pc,
  left,     \* history: mounts and groups that a failing undo left, or that were never noted down: a mount
            \* made after its time-out, a group udev has activated and that activate_lvm did not come to
  active, vgs, mounted, mounts,
  tries,    \* candidates for the root that are left to look at
  bootProblem,
  image,    \* per kernel: "old", "new" or "lost"
  room, todo,
  rebuilt, unfixable, noSpace,
  status,   \* outcome of the initramfs step
  wiped,    \* what was mounted when the mount point was removed
  faults

vars == <<guest, pc, left, active, vgs, mounted, mounts, tries, bootProblem, image, room, todo, rebuilt,
          unfixable, noSpace, status, wiped, faults>>
kernelVars == <<image, room, todo, rebuilt, unfixable, noSpace>>
mountVars == <<mounted, mounts, tries, bootProblem>>
lvmVars == <<left, active, vgs>>

Kernel == 1..NumKernels
Places == {"root", "usr", "boot", "dev", "proc", "sys"}
Images == {"root", "boot"} \* where the images are
Outcomes == {"none", "skipped", "failed", "not_needed", "done"}

Guests ==
  [has: [Kernel -> BOOLEAN], ships: [Kernel -> BOOLEAN], default: Kernel, staging: BOOLEAN, hostonly: BOOLEAN,
   groups: 0..NumGroups]
Left == [mounts: SUBSET Places, groups: SUBSET (1..NumGroups)]

TypeOK ==
  /\ guest \in Guests
  /\ pc \in {"scan", "lvm", "root", "split", "look", "boot", "initramfs", "kernel", "rest", "umount", "lvmoff",
             "remove", "done"}
  /\ left \in Left /\ active \subseteq 1..NumGroups /\ vgs \in Seq(1..NumGroups)
  /\ mounted \subseteq Places /\ mounts \in Seq(Places)
  /\ tries \in 0..2 /\ bootProblem \in BOOLEAN
  /\ image \in [Kernel -> {"old", "new", "lost"}] /\ room \in 0..MaxRoom
  /\ todo \union rebuilt \union unfixable \union noSpace \subseteq Kernel
  /\ status \in Outcomes /\ wiped \subseteq Places /\ faults \in 0..MaxFaults

Init ==
  /\ guest \in Guests
  /\ pc = "scan" /\ left = [mounts |-> {}, groups |-> {}] /\ active = {} /\ vgs = <<>> /\ mounted = {} /\ mounts = <<>> /\ tries = 2
  /\ bootProblem = FALSE /\ image = [k \in Kernel |-> "old"] /\ room \in 0..MaxRoom /\ todo = {}
  /\ rebuilt = {} /\ unfixable = {} /\ noSpace = {} /\ status = "none"
  /\ wiped = {} /\ faults = 0

Fault == faults < MaxFaults /\ faults' = faults + 1

(* open_root raised: the initramfs step, like every other one, gets this answer. *)
NoRoot(outcome) == status' = outcome /\ pc' = "umount"
(* What is active and not noted down stays so. *)
Forgotten == left' = [left EXCEPT !.groups = @ \union (active \ ToSet(vgs))]

-----------------------------------------------------------------------------
(* open_root *)

(* A guest group may be active as soon as the disk appears. *)
UdevActivates(g) ==
  /\ pc \in {"scan", "lvm"} /\ g \in (1..guest.groups) \ active /\ active' = active \union {g}
  /\ UNCHANGED <<left, vgs, pc, status, faults, guest, mountVars, kernelVars, wiped>>

Scan ==
  /\ pc = "scan" /\ pc' = IF guest.groups = 0 THEN "root" ELSE "lvm"
  /\ UNCHANGED <<lvmVars, status, faults, guest, mountVars, kernelVars, wiped>>

(* A name that a group of the helper has, too. *)
Clash ==
  /\ pc = "lvm" /\ vgs = <<>> /\ NoRoot("skipped") /\ Forgotten
  /\ UNCHANGED <<active, vgs, faults, guest, mountVars, kernelVars, wiped>>

(* Slip: a group that was active already is not noted down. *)
ActivateGroupSlip(g) ==
  /\ pc = "lvm" /\ g = Len(vgs) + 1 /\ g <= guest.groups
  /\ vgs' = IF g \in active THEN vgs ELSE Append(vgs, g)
  /\ active' = active \union {g}
  /\ pc' = IF g \in active \/ g = guest.groups THEN "root" ELSE "lvm"
  /\ UNCHANGED <<left, status, faults, guest, mountVars, kernelVars, wiped>>
(* vgchange does it, or complains of a group that udev has activated and that is found to be active. *)
ActivateGroup(g) ==
  /\ pc = "lvm" /\ g = Len(vgs) + 1 /\ g <= guest.groups
  /\ vgs' = Append(vgs, g) /\ active' = active \union {g}
  /\ pc' = IF g = guest.groups THEN "root" ELSE "lvm"
  /\ UNCHANGED <<left, status, faults, guest, mountVars, kernelVars, wiped>>

(* lsblk or pvs fails, or nothing of a group is active after the second attempt either. *)
OpenFails ==
  /\ pc \in {"scan", "lvm", "root"} /\ mounts = <<>> /\ Fault /\ NoRoot("failed") /\ Forgotten
  /\ UNCHANGED <<active, vgs, guest, mountVars, kernelVars, wiped>>

MountDone(where) ==
  mounted' = mounted \union {where} /\ mounts' = Append(mounts, where) /\ UNCHANGED <<left, faults>>
(* An error, or a time-out: in the end the file system may be there. *)
MountFails(where) ==
  /\ Fault /\ mounts' = mounts
  /\ \/ UNCHANGED <<mounted, left>>
     \/ mounted' = mounted \union {where} /\ left' = [left EXCEPT !.mounts = @ \union {where}]

(* The next candidate is mounted read-only; a candidate that cannot be mounted is passed over. *)
MountRoot ==
  /\ pc = "root" /\ tries > 0 /\ tries' = tries - 1
  /\ \/ MountDone("root") /\ pc' = "split"
     \/ MountFails("root") /\ pc' = "root"
  /\ UNCHANGED <<active, vgs, bootProblem, status, guest, kernelVars, wiped>>

(* A separate /usr of the guest's fstab; without it the others go on. *)
MountSplit ==
  /\ pc = "split" /\ pc' = "look"
  /\ \/ MountDone("usr")
     \/ MountFails("usr")
     \/ UNCHANGED <<mounted, mounts, left, faults>>
  /\ UNCHANGED <<active, vgs, tries, bootProblem, status, guest, kernelVars, wiped>>

(* fstab and modules: this is the root; if not, what was mounted for it is unmounted.  Some may stay, if both
   umounts of it fail; a root that was mounted late lies below. *)
IsRoot ==
  /\ pc = "look" /\ pc' = "boot" /\ tries' = 0
  /\ UNCHANGED <<lvmVars, mounted, mounts, bootProblem, status, faults, guest, kernelVars, wiped>>
NotRoot ==
  /\ pc = "look" /\ pc' = "root" /\ mounts' = <<>>
  /\ mounted' \in SUBSET mounted /\ ("root" \in left.mounts => "root" \in mounted')
  /\ left' = [left EXCEPT !.mounts = @ \union mounted']
  /\ IF mounted' \subseteq left.mounts THEN UNCHANGED faults ELSE Fault
  /\ UNCHANGED <<active, vgs, tries, bootProblem, status, guest, kernelVars, wiped>>
NoRootFound ==
  /\ pc = "root" /\ NoRoot("skipped") /\ tries' = 0
  /\ UNCHANGED <<lvmVars, mounted, mounts, bootProblem, faults, guest, kernelVars, wiped>>

(* /boot is on the root, or a file system of its own, or not found, which only the initramfs needs. *)
MountBoot ==
  /\ pc = "boot"
  /\ \/ MountDone("boot") /\ UNCHANGED bootProblem
     \/ bootProblem' \in BOOLEAN /\ UNCHANGED <<mounted, mounts, left, faults>>
  /\ pc' = "initramfs"
  /\ UNCHANGED <<active, vgs, tries, status, guest, kernelVars, wiped>>
MountBootFails ==
  /\ pc = "boot" /\ MountFails("boot") /\ NoRoot("failed")
  /\ UNCHANGED <<active, vgs, tries, bootProblem, guest, kernelVars, wiped>>

-----------------------------------------------------------------------------
(* rebuild_initramfs *)

Has(k) == IF image[k] = "old" THEN guest.has[k] ELSE image[k] = "new"

(* No dracut, no kernels, or no /boot. *)
SkipInitramfs ==
  /\ pc = "initramfs" /\ "dev" \notin ToSet(mounts) /\ status' = "skipped" /\ pc' = "rest"
  /\ UNCHANGED <<lvmVars, mountVars, faults, guest, kernelVars, wiped>>

(* /dev, then /proc, then /sys; one that fails fails the step. *)
Bind(where) ==
  /\ pc = "initramfs" /\ ~bootProblem /\ where \in {"dev", "proc", "sys"} \ ToSet(mounts)
  /\ where # "dev" => "dev" \in ToSet(mounts)
  /\ where = "sys" => "proc" \in ToSet(mounts)
  /\ \/ MountDone(where) /\ UNCHANGED <<pc, status>>
     \/ MountFails(where) /\ status' = "failed" /\ pc' = "rest"
  /\ UNCHANGED <<active, vgs, tries, bootProblem, guest, kernelVars, wiped>>

(* An image that lsinitrd cannot read counts as one that lacks drivers. *)
Survey(unread) ==
  /\ pc = "initramfs" /\ {"dev", "proc", "sys"} \subseteq ToSet(mounts)
  /\ IF unread = {} THEN UNCHANGED faults ELSE Fault
  /\ LET lack == {k \in Kernel : ~Has(k)} \union unread
         without == {k \in lack : ~guest.ships[k]}
     IN IF lack = {} THEN status' = "not_needed" /\ pc' = "rest" /\ UNCHANGED <<todo, unfixable>>
        ELSE IF without = Kernel THEN status' = "failed" /\ pc' = "rest" /\ UNCHANGED <<todo, unfixable>>
        ELSE /\ todo' = lack \ without /\ unfixable' = without /\ pc' = "kernel" /\ UNCHANGED status
  /\ UNCHANGED <<lvmVars, mountVars, guest, image, room, rebuilt, noSpace, wiped>>

Failed == status' = "failed" /\ pc' = "rest" /\ todo' = {} /\ UNCHANGED <<rebuilt, noSpace>>

(* The default kernel first, then the newest. *)
Turn(k) == pc = "kernel" /\ k \in todo /\ (k = guest.default \/ (guest.default \notin todo /\ \A j \in todo : j <= k))

(* The size of the image that would go into /boot, 0 if none fits. *)
Fitting ==
  IF room >= 2 THEN 2 ELSE IF room = 1 /\ guest.staging /\ guest.hostonly THEN 1 ELSE 0

(* A write before dracut fails; dracut fails, or takes too long and is killed, or makes an image that still
   lacks something: the step has failed.  Without a staging directory dracut writes the image in /boot. *)
DracutFails(k) ==
  /\ Turn(k) /\ Fault /\ Failed
  /\ \/ UNCHANGED image
     \/ ~guest.staging /\ Fitting > 0 /\ image' \in {[image EXCEPT ![k] = what] : what \in {"new", "lost"}}
  /\ UNCHANGED <<lvmVars, mountVars, guest, room, unfixable, wiped>>

(* Slip: another kernel's image is left alone, though none has been rebuilt. *)
NoRoomSlip(k) ==
  /\ Turn(k) /\ Fitting = 0
  /\ IF k = guest.default THEN Failed
     ELSE noSpace' = noSpace \union {k} /\ todo' = todo \ {k} /\ UNCHANGED <<status, pc, rebuilt>>
  /\ UNCHANGED <<lvmVars, mountVars, faults, guest, image, room, unfixable, wiped>>
(* An image that does not fit fails the step, unless another kernel can be booted instead. *)
NoRoom(k) ==
  /\ Turn(k) /\ Fitting = 0
  /\ IF k = guest.default \/ rebuilt = {} THEN Failed
     ELSE noSpace' = noSpace \union {k} /\ todo' = todo \ {k} /\ UNCHANGED <<status, pc, rebuilt>>
  /\ UNCHANGED <<lvmVars, mountVars, faults, guest, image, room, unfixable, wiped>>

Install(k) ==
  /\ Turn(k) /\ Fitting > 0
  /\ image' = [image EXCEPT ![k] = "new"] /\ room' = room - Fitting
  /\ rebuilt' = rebuilt \union {k} /\ todo' = todo \ {k}
  /\ UNCHANGED <<lvmVars, mountVars, pc, faults, guest, unfixable, noSpace, status, wiped>>

(* Slip: the old image is not put back. *)
InstallFailsSlip(k) ==
  /\ Turn(k) /\ guest.staging /\ Fitting > 0 /\ Failed /\ Fault
  /\ image' = [image EXCEPT ![k] = "lost"]
  /\ UNCHANGED <<lvmVars, mountVars, guest, room, unfixable, wiped>>
(* The copy into /boot breaks off: the backup is copied back, and removed whether that went well or not. *)
InstallFails(k) ==
  /\ Turn(k) /\ guest.staging /\ Fitting > 0 /\ Failed
  /\ \/ Fault /\ UNCHANGED image
     \/ /\ faults + 2 <= MaxFaults /\ faults' = faults + 2
        /\ image' = [image EXCEPT ![k] = "lost"]
  /\ UNCHANGED <<lvmVars, mountVars, guest, room, unfixable, wiped>>

KernelsDone ==
  /\ pc = "kernel" /\ todo = {} /\ pc' = "rest"
  /\ status' = IF rebuilt = {} THEN "not_needed" ELSE "done"
  /\ UNCHANGED <<lvmVars, mountVars, faults, guest, kernelVars, wiped>>

-----------------------------------------------------------------------------
(* The other steps of fix, each on its own; then cleanup. *)

Rest ==
  /\ pc = "rest" /\ pc' = "umount"
  /\ UNCHANGED <<lvmVars, mountVars, status, faults, guest, kernelVars, wiped>>

(* umount, or if it fails umount -l, which detaches what is mounted below, too.  Both may fail: the entry is
   dropped all the same.  A root that was mounted late lies below and stays. *)
Umount ==
  /\ pc = "umount" /\ mounts # <<>> /\ mounts' = Front(mounts)
  /\ LET where == Last(mounts)
         lazily == IF where # "root" THEN {mounted \ ({where} \ left.mounts)}
                   ELSE {S \in SUBSET (mounted \cap left.mounts) :
                           IF "root" \in left.mounts THEN "root" \in S ELSE S = {}}
     IN \/ /\ where = "root" => mounted \subseteq {"root"}
           /\ mounted' = mounted \ ({where} \ left.mounts) /\ UNCHANGED <<left, faults>>
        \/ mounted' \in lazily /\ UNCHANGED <<left, faults>>
        \/ Fault /\ mounted' = mounted /\ left' = [left EXCEPT !.mounts = @ \union {where}]
  /\ UNCHANGED <<active, vgs, pc, tries, bootProblem, status, guest, kernelVars, wiped>>
UmountsDone ==
  /\ pc = "umount" /\ mounts = <<>> /\ pc' = "lvmoff"
  /\ UNCHANGED <<lvmVars, mountVars, status, faults, guest, kernelVars, wiped>>

(* vgchange -an fails, surely on a group in use; that is not looked at. *)
Deactivate ==
  /\ pc = "lvmoff" /\ vgs # <<>> /\ vgs' = Front(vgs)
  /\ \/ mounted = {} /\ active' = active \ {Last(vgs)} /\ UNCHANGED left
     \/ active' = active /\ left' = [left EXCEPT !.groups = @ \union {Last(vgs)}]
  /\ UNCHANGED <<mountVars, pc, status, faults, guest, kernelVars, wiped>>
DeactivateDone ==
  /\ pc = "lvmoff" /\ vgs = <<>> /\ pc' = "remove"
  /\ UNCHANGED <<lvmVars, mountVars, status, faults, guest, kernelVars, wiped>>

(* rmtree of the mount point goes into what is still mounted. *)
Wiped(gone) == [k \in Kernel |-> IF k \in gone THEN "lost" ELSE image[k]]
RemoveTree ==
  /\ pc = "remove" /\ wiped' = mounted /\ pc' = "done"
  /\ image' \in {Wiped(gone) : gone \in IF mounted \cap Images = {} THEN {{}} ELSE SUBSET Kernel}
  /\ UNCHANGED <<lvmVars, mountVars, status, faults, guest, room, todo, rebuilt, unfixable, noSpace>>

Next ==
  \/ Scan \/ Clash \/ OpenFails \/ MountRoot \/ MountSplit \/ IsRoot \/ NotRoot \/ NoRootFound
  \/ \E g \in 1..NumGroups : UdevActivates(g) \/ ActivateGroup(g)
  \/ MountBoot \/ MountBootFails \/ SkipInitramfs
  \/ \E where \in {"dev", "proc", "sys"} : Bind(where)
  \/ \E unread \in SUBSET Kernel : Survey(unread)
  \/ \E k \in Kernel : DracutFails(k) \/ NoRoom(k) \/ Install(k) \/ InstallFails(k)
  \/ KernelsDone \/ Rest \/ Umount \/ UmountsDone \/ Deactivate \/ DeactivateDone \/ RemoveTree

Spec == Init /\ [][Next]_vars

-----------------------------------------------------------------------------
(* The boot volume is detached next.  When the fix-up is over, however it   *)
(* went, nothing is mounted or active but what a command that was to undo   *)
(* it failed on, a mount made after its time-out, and a group that udev had *)
(* activated before the groups could be looked at; and rmtree goes only     *)
(* into a mount of the first two kinds.                                     *)
NothingLeft ==
  pc = "done" => mounted \subseteq left.mounts /\ active \subseteq left.groups /\ wiped \subseteq left.mounts

(* Every kernel keeps an image that is whole, the old one or a new one,     *)
(* over any one failure of a command or a write.  An image is lost only if  *)
(* the step says that it failed, and with a staging directory only by two   *)
(* failures (the backup is removed although it could not be copied back);   *)
(* or when rmtree goes into a mount that stayed.                            *)
ImagesKept ==
  \A k \in Kernel :
    image[k] = "lost" => wiped \cap Images # {} \/ (status = "failed" /\ (guest.staging => faults >= 2))

(* An initramfs step that reports success leaves a guest that can boot in   *)
(* OCI: some kernel has the drivers, and if it is not the default one, that *)
(* was reported.                                                            *)
SuccessBoots ==
  wiped \cap Images = {} /\ status \in {"done", "not_needed"} =>
    /\ \E k \in Kernel : Has(k)
    /\ Has(guest.default) \/ guest.default \in unfixable

(* Before the initramfs step ends nothing is said of it; while kernels are  *)
(* rebuilt, each has its drivers, or its turn is to come, or it cannot have *)
(* them; the default one is never left for want of room.                    *)
Surveyed ==
  /\ pc \notin {"rest", "umount", "lvmoff", "remove", "done"} => status = "none"
  /\ pc \notin {"kernel", "rest", "umount", "lvmoff", "remove", "done"} => noSpace = {} /\ rebuilt = {}
  /\ pc = "kernel" =>
       /\ \A k \in Kernel : Has(k) \/ k \in todo \union unfixable \union noSpace
       /\ unfixable # Kernel /\ guest.default \notin noSpace
       /\ rebuilt = {} => noSpace = {}
       /\ rebuilt # {} => \E k \in Kernel : Has(k)

(* What is mounted or active has been noted down, or is left, or is a group *)
(* whose turn is to come; and what was noted down is undone before the      *)
(* mount point goes.                                                        *)
Noted ==
  /\ mounted \subseteq ToSet(mounts) \union left.mounts
  /\ pc \in {"scan", "lvm"} =>
       ToSet(vgs) = 1..Len(vgs) /\ Len(vgs) <= guest.groups /\ active \subseteq 1..guest.groups
  /\ pc \notin {"scan", "lvm"} => active \subseteq ToSet(vgs) \union left.groups
  /\ pc \in {"lvmoff", "remove", "done"} => mounted \subseteq left.mounts
  /\ pc \in {"remove", "done"} => active \subseteq left.groups
  /\ wiped \subseteq left.mounts /\ (pc # "done" => wiped = {})

(* The inductive invariant *)
GuestInv == TypeOK /\ Noted /\ ImagesKept /\ Surveyed /\ SuccessBoots
=============================================================================
