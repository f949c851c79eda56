------------------------------ MODULE MCObjects -------------------------------
(* What becomes of a disk outside the source, one model at a time: the     *)
(* stream that is decoded beside the download (DiskExport), multipart      *)
(* uploads, the libraries of seed and ISO images, the import of an         *)
(* archive, and the fixes made in the guest.  The models but the first     *)
(* take turns on the variables x1 to x18.                                  *)
EXTENDS DiskExport

CONSTANTS
  Exporter, NumParts, UploadFaults,   \* one export at a time
  Jobs, LibraryFaults,
  Kinds, MaxDisks, ImportFaults,
  NumKernels, NumGroups, MaxRoom

(* An object has a last part; a job is not "none"; the suffixes are those  *)
(* OvaImport knows.                                                        *)
ASSUME ObjectAssumption ==
  /\ NumParts \in Nat \ {0} /\ UploadFaults \in Nat
  /\ "none" \notin Jobs /\ LibraryFaults \in Nat
  /\ NumKernels \in Nat /\ NumGroups \in Nat /\ MaxRoom \in Nat
  /\ Kinds \subseteq {"ova", "ovf", "vmdk", "qcow2"} /\ MaxDisks \in Nat \ {0} /\ ImportFaults \in Nat

VARIABLES which, x1, x2, x3, x4, x5, x6, x7, x8, x9, x10, x11, x12, x13, x14, x15,
  x16, x17, x18

Upload == INSTANCE ObjectUpload WITH
  Export <- {Exporter}, MaxFaults <- UploadFaults, at <- x1, written <- x2, uploadId <- x3, listed <- x4,
  open <- x5, aborting <- x6, cancel <- x7, uploads <- x8, ids <- x9, object <- x10,
  faults <- x11
Library == INSTANCE ImageLibrary WITH
  MaxFaults <- LibraryFaults, library <- x1, want <- x2, images <- x3, objects <- x4,
  image <- x5, at <- x6, schema <- x7, how <- x8, cancel <- x9, clean <- x10, faults <- x11
Import == INSTANCE OvaImport WITH
  MaxFaults <- ImportFaults, object <- x1, disks <- x2, seed <- x3, inst <- x4, volume <- x5,
  target <- x6, helper <- x7, status <- x8, data <- x9, at <- x10, todo <- x11, phase <- x12,
  cancel <- x13, refused <- x14, faults <- x15

Guest == INSTANCE GuestFix WITH
  MaxFaults <- 2, guest <- x1, pc <- x2, left <- x3, active <- x4,
  vgs <- x5, mounted <- x6, mounts <- x7, tries <- x8, bootProblem <- x9, image <- x10,
  room <- x11, todo <- x12, rebuilt <- x13, unfixable <- x14, noSpace <- x15, status <- x16,
  wiped <- x17, faults <- x18
Network == INSTANCE GuestNetwork WITH
  MaxFaults <- 2, stack <- x1, step <- x2, had <- x3, written <- x4, labelled <- x5,
  relabel <- x6, left <- x7, attrsSet <- x8, changed <- x9, handled <- x10, result <- x11,
  faults <- x12

(* The variables a model leaves over *)
rest15 == <<x16, x17, x18>>
rest12 == <<x13, x14, x15, rest15>>
rest11 == <<x12, rest12>>
others == <<x1, x2, x3, x4, x5, x6, x7, x8, x9, x10, x11, rest11>>
Off15 == x16 = 0 /\ x17 = 0 /\ x18 = 0
Off12 == x13 = 0 /\ x14 = 0 /\ x15 = 0 /\ Off15
Off11 == x12 = 0 /\ Off12

ObjectsInit ==
  \/ which = "upload" /\ Upload!Init /\ Off11
  \/ which = "library" /\ Library!Init /\ Off11
  \/ which = "import" /\ Import!Init /\ Off15
  \/ which = "guest" /\ Guest!Init
  \/ which = "network" /\ Network!Init /\ Off12
ObjectsNext ==
  \/ which = "upload" /\ Upload!Next /\ UNCHANGED <<which, rest11>>
  \/ which = "library" /\ Library!Next /\ UNCHANGED <<which, rest11>>
  \/ which = "import" /\ Import!Next /\ UNCHANGED <<which, rest15>>
  \/ which = "guest" /\ Guest!Next /\ UNCHANGED which
  \/ which = "network" /\ Network!Next /\ UNCHANGED <<which, rest12>>
ObjectsSpec == ObjectsInit /\ [][ObjectsNext]_<<which, others>>

-----------------------------------------------------------------------------
(* An object that was committed has every part of its payload, in order;   *)
(* no multipart upload is left behind by exports that ended.               *)
UploadsWhole ==
  which = "upload" => Upload!TypeOK /\ Upload!ObjectIsWhole /\ Upload!NoUploadLeft

(* A placeholder is launched from an image with the devices and the shape  *)
(* its job needs, and the object it was imported from is removed.          *)
LaunchedAsNeeded ==
  which = "library" =>
    Library!TypeOK /\ Library!LaunchPinnedAlone /\ Library!LaunchFits /\ Library!PlaceholderRemoved

(* Nothing is built in OCI for an archive that cannot be imported, and a   *)
(* disk that counts as copied is whole.                                    *)
ImportWhole ==
  which = "import" => Import!TypeOK /\ Import!NothingBuiltForABadArchive /\ Import!CopiedIsWhole

(* The fixes leave nothing mounted or active but what a failing undo and   *)
(* a mount or an activation behind their back leave, lose no initramfs by  *)
(* a single failure unless dracut works in place, say so when the guest    *)
(* cannot boot, and make every network stack ask for its address.          *)
GuestStaysWhole ==
  /\ which = "guest" => /\ Guest!TypeOK /\ Guest!NothingLeft
                         /\ Guest!ImagesKept /\ Guest!SuccessBoots
  /\ which = "network" => Network!TypeOK /\ Network!DhcpAnywhere
=============================================================================
