------------------------------ MODULE OvaImport -------------------------------
(***************************************************************************)
(* The import of an OVA, OVF set, VMDK or qcow2 object (oci/ova_import.py):*)
(* find out what the object holds (ova/package.py, ova/tar_index.py,       *)
(* ova/ovf.py), build the placeholder and its volumes (prepare_placeholder *)
(* of oci/provision.py), and stream every disk onto its volume             *)
(* (disk/object_vmdk_copy.py).  Finalizing and cleaning up are those of    *)
(* every migration: module Provision.                                      *)
(*                                                                         *)
(* What an upload can get wrong is a field of the object; disks are 1..n,  *)
(* and disk 0 stands for "no disk".                                        *)
(***************************************************************************)
EXTENDS Naturals, Sequences, FiniteSetsExt, SequencesExt

CONSTANTS Kinds,     \* the suffixes of the objects: "ova", "ovf", "vmdk", "qcow2"
          MaxDisks,  \* MAX_DISKS, scaled down
          MaxFaults  \* bound on the calls and responses that fail

VARIABLES
  object,  \* what lies in the bucket
  disks,   \* job.disks: where each disk comes from, and whether it boots
  seed, inst, \* the seed image is known; the placeholder
  volume,  \* the volume of each disk: "none", "block" or "boot"
  target,  \* the disks attached to the placeholder
  helper,  \* the disks attached to the helper, with a device
  status, data, \* of each disk: DiskState.status, and what its volume holds
  at, todo, phase, cancel,
  refused, \* OCI has refused an attachment
  faults

record == <<disks, phase, status>>
oci == <<seed, inst, volume, target, helper>>
vars == <<object, record, oci, data, at, todo, cancel, refused, faults>>

Disk == 1..MaxDisks
(* A Boot element of the descriptor: its order, 9 when it has none, and the disk it refers to. *)
Boots == {<<>>, <<[order |-> 1, disk |-> 2]>>, <<[order |-> 9, disk |-> 2], [order |-> 0, disk |-> 1]>>,
          <<[order |-> 0, disk |-> 0], [order |-> 1, disk |-> 2]>>}

(***************************************************************************)
(* An object: n disks; the members or objects named by the descriptor are  *)
(* listed but for "missing"; "stray" VMDKs have names of their own; the    *)
(* VMDK header of disk "odd" has another capacity than the descriptor; a   *)
(* Disk element refers to a File element that is not there (dangling).     *)
(***************************************************************************)
Objects ==
  {o \in [kind: Kinds, n: 1..MaxDisks + 1, boots: Boots, dangling: BOOLEAN, missing: 0..MaxDisks,
          stray: 0..1, odd: 0..MaxDisks, shape: {"plain", "gzip", "cut", "damaged", "alien"}] :
     /\ o.missing <= o.n /\ o.odd <= o.n
     /\ o.kind # "ova" => o.stray = 0 /\ o.shape \in {"plain", "alien"}
     /\ o.kind \in {"vmdk", "qcow2"} => o.n = 1 /\ o.missing = 0 /\ o.boots = <<>> /\ ~o.dangling}

TypeOK ==
  /\ object \in Objects
  /\ \A d \in DOMAIN disks : /\ disks[d].from \in {"object", "clusters", "range", "stream"}
                             /\ disks[d].boot \in BOOLEAN /\ disks[d].fits \in BOOLEAN
  /\ seed \in BOOLEAN /\ inst \in {"none", "RUNNING", "STOPPED"}
  /\ volume \in [Disk -> {"none", "block", "boot"}] /\ target \subseteq Disk /\ helper \subseteq Disk
  /\ status \in [Disk -> {"PENDING", "ATTACHED", "COPYING", "COPIED"}]
  /\ data \in [Disk -> {"empty", "part", "whole"}]
  /\ at \in {"layout", "seed", "launch", "volumes", "preattach", "stop", "detach", "help",
             "copy", "copying", "finalize", "cleanup", "ended"}
  /\ todo \subseteq Disk /\ phase \in {"active", "FAILED", "CANCELLED"}
  /\ cancel \in BOOLEAN /\ refused \in BOOLEAN /\ faults \in 0..MaxFaults

-----------------------------------------------------------------------------
(* What the object holds. *)

(* The archive can be listed by ranges, or in one pass when it is not a plain tar.  A listing that stops at
   something that is no header ("cut") is taken for the whole; the members after it are missing. *)
Indexed(o) == o.shape \in {"plain", "gzip", "cut"}

(* The Boot element to follow: the lowest order, a missing order last, the first of equals. *)
Foremost(boots) ==
  boots[Min({i \in DOMAIN boots : \A k \in DOMAIN boots : boots[i].order <= boots[k].order})]

(* The first disk unless the foremost Boot element names a disk of the descriptor. *)
BootDisk(o) ==
  IF o.boots # <<>> /\ Foremost(o.boots).disk \in 1..o.n THEN Foremost(o.boots).disk ELSE 1

(* Slip: any stray VMDK stands in for a missing one, however many disks there are. *)
MemberSlip(o, d) == d # o.missing \/ o.stray = 1
(* The member of the archive for a disk: by name, or the lone VMDK for a lone disk. *)
Member(o, d) == d # o.missing \/ (o.n = 1 /\ o.stray = 1)

(* The descriptor is an OVF, has no more disks than the helper takes, and its references resolve. *)
DisksOf(o) == o.n <= MaxDisks /\ ~o.dangling

(* Nothing is said here of the objects that an OVF set consists of. *)
Readable(o) ==
  CASE o.kind = "ova" -> Indexed(o) /\ DisksOf(o) /\ \A d \in 1..o.n : Member(o, d)
    [] o.kind = "ovf" -> o.shape = "plain" /\ DisksOf(o)
    [] o.kind = "vmdk" -> TRUE
    [] OTHER -> o.shape = "plain"

(***************************************************************************)
(* Where a disk is read from, and whether the capacity recorded for it is  *)
(* the one its image has.  Of a bare VMDK the length of the object is      *)
(* recorded, which is not the capacity of the disk that is compressed in   *)
(* it.                                                                     *)
(***************************************************************************)
Source(o, d) ==
  [boot |-> o.kind \in {"vmdk", "qcow2"} \/ d = BootDisk(o),
   fits |-> o.kind # "vmdk" /\ d # o.odd,
   from |-> CASE o.kind = "ova" -> (IF o.shape = "gzip" THEN "stream" ELSE "range")
              [] o.kind = "qcow2" -> "clusters"
              [] OTHER -> "object"]

Init ==
  /\ object \in Objects
  /\ disks = <<>> /\ seed = FALSE /\ inst = "none" /\ volume = [d \in Disk |-> "none"]
  /\ target = {} /\ helper = {} /\ status = [d \in Disk |-> "PENDING"] /\ data = [d \in Disk |-> "empty"]
  /\ at = "layout" /\ todo = {} /\ phase = "active" /\ cancel = FALSE /\ refused = FALSE /\ faults = 0

Known == DOMAIN disks
IsNext(d) == d = Min(todo)   \* the loops go through the disks in order

-----------------------------------------------------------------------------
(* How a step ends. *)

Fail == phase' = "FAILED" /\ at' = "ended"

(* A call, or the wait after it, fails; what it was to do may have been done: see Provision. *)
CallFails ==
  /\ at \notin {"copying", "cleanup", "ended"} /\ phase = "active" /\ faults < MaxFaults
  /\ faults' = faults + 1 /\ Fail
  /\ UNCHANGED <<object, disks, status, oci, data, todo, cancel, refused>>

Cancel ==
  /\ phase = "active" /\ ~cancel /\ cancel' = TRUE
  /\ UNCHANGED <<object, record, oci, data, at, todo, refused, faults>>

(* Every step, and every chunk of a copy, begins with a look at the flag. *)
CancelSeen ==
  /\ cancel /\ at \notin {"cleanup", "ended"} /\ at' = "cleanup"
  /\ UNCHANGED <<object, record, oci, data, todo, cancel, refused, faults>>

Cleanup ==
  /\ at = "cleanup" /\ at' = "ended" /\ phase' = "CANCELLED"
  /\ inst' = "none" /\ volume' = [d \in Disk |-> "none"] /\ target' = {} /\ helper' = {}
  /\ UNCHANGED <<object, disks, status, seed, data, todo, cancel, refused, faults>>

Go(from, to) == at = from /\ phase = "active" /\ ~cancel /\ at' = to
Keep == UNCHANGED <<object, cancel, faults>>

-----------------------------------------------------------------------------
(* OvaImporter.run and prepare_placeholder. *)

Layout ==
  /\ Go("layout", IF Readable(object) THEN "seed" ELSE "ended")
  /\ IF Readable(object)
     THEN disks' = [d \in 1..object.n |-> Source(object, d)] /\ UNCHANGED phase
     ELSE phase' = "FAILED" /\ UNCHANGED disks
  /\ Keep /\ UNCHANGED <<status, oci, data, todo, refused>>

SeedImage ==
  /\ Go("seed", "launch") /\ seed' = TRUE
  /\ Keep /\ UNCHANGED <<record, inst, volume, target, helper, data, todo, refused>>

(* The boot volume of the placeholder has the size of the first disk. *)
Launch ==
  /\ Go("launch", "volumes") /\ inst' = "RUNNING" /\ todo' = Known \ {1}
  /\ Keep /\ UNCHANGED <<record, seed, volume, target, helper, data, refused>>

CreateVolume ==
  /\ IF todo = {} THEN Go("volumes", "preattach") /\ todo' = Known \ {1} /\ UNCHANGED volume
     ELSE \E d \in todo : /\ IsNext(d) /\ Go("volumes", "volumes") /\ todo' = todo \ {d}
                          /\ volume' = [volume EXCEPT ![d] = "block"]
  /\ Keep /\ UNCHANGED <<record, seed, inst, target, helper, data, refused>>

(* Shareable, while the placeholder runs; emulated devices cannot be shared and are attached later. *)
Preattach ==
  /\ \/ /\ todo = {} \/ target = {}   \* all attached, or emulated devices
        /\ Go("preattach", "stop") /\ todo' = {} /\ UNCHANGED target
     \/ \E d \in todo : /\ IsNext(d) /\ Go("preattach", "preattach") /\ todo' = todo \ {d}
                        /\ target' = target \union {d}
  /\ Keep /\ UNCHANGED <<record, seed, inst, volume, helper, data, refused>>

Stop ==
  /\ Go("stop", "detach") /\ inst' = "STOPPED"
  /\ Keep /\ UNCHANGED <<record, seed, volume, target, helper, data, todo, refused>>

(* job.disks[0].volume_id = att.boot_volume_id *)
DetachBoot ==
  /\ Go("detach", "help") /\ volume' = [volume EXCEPT ![1] = "boot"] /\ todo' = Known
  /\ Keep /\ UNCHANGED <<record, seed, inst, target, helper, data, refused>>

(***************************************************************************)
(* What OCI takes: a boot volume without a device path, and a volume that  *)
(* is attached elsewhere only as shareable.  The disk that boots is        *)
(* attached without a path and not shareable, the others with a path, and  *)
(* shareable when the placeholder has them.                                *)
(***************************************************************************)
Accepted(d) ==
  IF disks[d].boot THEN d \notin target ELSE volume[d] # "boot"

AttachToHelper ==
  /\ at = "help"
  /\ IF todo = {} THEN Go("help", "copy") /\ todo' = Known /\ UNCHANGED <<status, helper, refused, phase>>
     ELSE \E d \in todo :
            /\ IsNext(d) /\ Go("help", IF Accepted(d) THEN "help" ELSE "ended")
            /\ IF Accepted(d)
               THEN /\ helper' = helper \union {d} /\ todo' = todo \ {d}
                    /\ status' = [status EXCEPT ![d] = "ATTACHED"] /\ UNCHANGED <<phase, refused>>
               ELSE phase' = "FAILED" /\ refused' = TRUE /\ UNCHANGED <<helper, todo, status>>
  /\ Keep /\ UNCHANGED <<disks, seed, inst, volume, target, data>>

-----------------------------------------------------------------------------
(* The disks, one by one. *)

StartCopy ==
  /\ IF todo = {} THEN Go("copy", "finalize") /\ UNCHANGED status
     ELSE \E d \in todo : /\ IsNext(d) /\ d \in helper /\ Go("copy", "copying")
                          /\ status' = [status EXCEPT ![d] = "COPYING"]
  /\ Keep /\ UNCHANGED <<disks, phase, oci, data, todo, refused>>

(* A capacity that is not the recorded one, or an object that is not there: nothing is written. *)
CannotCopy ==
  /\ at = "copying" /\ Fail
  /\ LET d == Min(todo) IN ~disks[d].fits \/ (disks[d].from = "object" /\ d = object.missing)
  /\ UNCHANGED <<object, disks, status, oci, data, todo, cancel, refused, faults>>

(* Slip: the bytes that came are not counted against the length of the member. *)
EndsWellSlip(from, body) == body # "inside"
(***************************************************************************)
(* A response can end early, inside a grain or between two.  The bytes of  *)
(* a tar member and of a cluster are counted; of an object of its own only *)
(* the decoder can tell, and it takes the end of a grain for the end.      *)
(***************************************************************************)
EndsWell(from, body) == body = "whole" \/ (body = "between" /\ from = "object")

Copy(body) ==
  LET d == Min(todo) IN
  /\ at = "copying" /\ ~cancel /\ disks[d].fits /\ ~(disks[d].from = "object" /\ d = object.missing)
  /\ body # "whole" => faults < MaxFaults
  /\ faults' = IF body = "whole" THEN faults ELSE faults + 1
  /\ data' = [data EXCEPT ![d] = IF body = "whole" THEN "whole" ELSE "part"]
  /\ IF EndsWell(disks[d].from, body)
     THEN /\ status' = [status EXCEPT ![d] = "COPIED"] /\ todo' = todo \ {d} /\ at' = "copy"
          /\ UNCHANGED phase
     ELSE Fail /\ UNCHANGED <<status, todo>>
  /\ UNCHANGED <<object, disks, oci, cancel, refused>>

(* Cancelled in the middle of a copy: the volume holds a part. *)
CancelledCopy ==
  /\ at = "copying" /\ cancel /\ data[Min(todo)] = "empty"
  /\ data' = [data EXCEPT ![Min(todo)] = "part"] /\ at' = "cleanup"
  /\ UNCHANGED <<object, record, oci, todo, cancel, refused, faults>>

(* The guest fix-up and Provision's finalize. *)
Finalize ==
  /\ Go("finalize", "ended") /\ inst' = "RUNNING" /\ helper' = {}
  /\ Keep /\ UNCHANGED <<record, seed, volume, target, data, todo, refused>>

Next ==
  \/ CallFails \/ Cancel \/ CancelSeen \/ Cleanup
  \/ Layout \/ SeedImage \/ Launch \/ CreateVolume \/ Preattach \/ Stop \/ DetachBoot \/ AttachToHelper
  \/ StartCopy \/ CannotCopy \/ \E body \in {"whole", "between", "inside"} : Copy(body)
  \/ CancelledCopy \/ Finalize

Spec == Init /\ [][Next]_vars

-----------------------------------------------------------------------------
(* The disk of every element of the descriptor is in the archive, or is the only one there can be. *)
AllThere(o) == o.missing = 0 \/ (o.n = 1 /\ o.stray = 1)

(* Before the first resource exists in OCI the archive is known to be one    *)
(* that can be read, and to hold every disk its descriptor names, however it *)
(* was packed and wherever its listing stopped.                              *)
NothingBuiltForABadArchive ==
  (seed /\ object.kind = "ova") =>
    AllThere(object) /\ object.shape \notin {"damaged", "alien"} /\ object.n <= MaxDisks

(* A disk of an archive or a qcow2 image counts as copied only if its volume *)
(* holds all of it, however the responses of Object Storage ended.           *)
CopiedIsWhole ==
  \A d \in Known : status[d] = "COPIED" => data[d] = "whole" \/ object.kind = "ovf"

(* An object of a kind the documentation names, with nothing wrong in it,    *)
(* is imported unless a call fails.  It does not hold: the volumes are made  *)
(* as if the first disk were the one that boots, and of a bare VMDK the      *)
(* length of the object is taken for the capacity of the disk.               *)
GoodObjectIsImported ==
  (phase = "FAILED" /\ faults = 0) =>
    \/ object.missing # 0 \/ object.odd # 0 \/ object.dangling \/ object.n > MaxDisks
    \/ object.shape \notin {"plain", "gzip"}

-----------------------------------------------------------------------------
(* What carries the two: the disks are those of an object that was read,   *)
(* and a disk that is still to be copied has not been.                     *)
LayoutRead ==
  /\ disks = <<>> \/ (Readable(object) /\ disks = [d \in 1..object.n |-> Source(object, d)])
  /\ seed \/ at \notin {"layout", "cleanup", "ended"} => disks # <<>>
StillToCopy ==
  /\ at \notin {"copy", "copying", "finalize", "cleanup", "ended"} => \A d \in Disk : status[d] # "COPIED"
  /\ at \in {"copy", "copying"} => todo \subseteq Known /\ \A d \in todo : status[d] # "COPIED"
  /\ at = "help" => todo \subseteq Known
  /\ at = "copying" => Min(todo) \in todo
ImportInv == TypeOK /\ LayoutRead /\ StillToCopy /\ CopiedIsWhole
=============================================================================
