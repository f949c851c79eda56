------------------------------- MODULE MCImages -------------------------------
(* What becomes of bytes and of the guest in them, one model at a time:    *)
(* the stream that is decoded beside the download (DiskExport), multipart  *)
(* uploads, the libraries of seed and ISO images, the import of an         *)
(* archive, the formats VMDK, qcow2, VHD and VHDX, the plans by which      *)
(* parts of a disk are read, and the fixes made in the guest.  The models  *)
(* but the first take turns on the variables x1 to x18.                    *)
EXTENDS MCObjects

CONSTANTS
  MaxSectors, Grain, TableSize,
  MaxGuest, FileSize, MaxRange,
  BlockSize, ChunkRatio,
  Maps, VolumeSize, PageSize, Gap, ChunkSize

Vmdk == INSTANCE VmdkStream WITH
  image <- x1, expect <- x2, stream <- x3, arrives <- x4, fed <- x5, dec <- x6
Qcow2 == INSTANCE Qcow WITH
  Preallocated <- FALSE, header <- x1, table <- x2, file <- x3, l1 <- x4, pieces <- x5,
  run <- x6, volume <- x7, result <- x8
Vhd == INSTANCE VirtualDisk WITH
  NumSectors <- 5, ChunkSize <- 3, MaxFaults <- 1, MaxAttempts <- Attempts, chain <- x1,
  disk <- x2, todo <- x3, volume <- x4, attempt <- x5, status <- x6, faults <- x7
Plan == INSTANCE ReadPlan WITH
  NumSectors <- 6, Retries <- Attempts, MaxFaults <- 2, map <- x1, content <- x2, offset <- x3,
  extents <- x4, buf <- x5, todo <- x6, stage <- x7, volume <- x8, attempt <- x9, faults <- x10

(* The variables a model leaves over *)
rest10 == <<x11, rest11>>
rest8 == <<x9, x10, rest10>>
rest7 == <<x8, rest8>>
rest6 == <<x7, rest7>>
rest == <<x1, x2, x3, x4, x5, x6, rest6>>
Off10 == x11 = 0 /\ Off11
Off8 == x9 = 0 /\ x10 = 0 /\ Off10
Off7 == x8 = 0 /\ Off8
Off6 == x7 = 0 /\ Off7
Off == x1 = 0 /\ x2 = 0 /\ x3 = 0 /\ x4 = 0 /\ x5 = 0 /\ x6 = 0 /\ Off6

FormatsInit ==
  \/ which = "vmdk" /\ Vmdk!Init /\ Off6
  \/ which = "qcow2" /\ Qcow2!Init /\ Off8
  \/ which = "vhd" /\ Vhd!Init /\ Off7
  \/ which = "plan" /\ Plan!Init /\ Off10
FormatsNext ==
  \/ which = "vmdk" /\ Vmdk!Next /\ UNCHANGED <<which, rest6>>
  \/ which = "qcow2" /\ Qcow2!Next /\ UNCHANGED <<which, rest8>>
  \/ which = "vhd" /\ Vhd!Next /\ UNCHANGED <<which, rest7>>
  \/ which = "plan" /\ Plan!Next /\ UNCHANGED <<which, rest10>>
ImagesInit ==
  /\ Init
  /\ \/ which = "stream" /\ Off
     \/ ~pipelined /\ (ObjectsInit \/ FormatsInit)
ImagesNext ==
  \/ which = "stream" /\ Next /\ UNCHANGED <<which, rest>>
  \/ (ObjectsNext \/ FormatsNext) /\ UNCHANGED vars
ImagesSpec ==
  /\ ImagesInit /\ [][ImagesNext]_<<which, vars, rest>>
  /\ WF_vars(which = "stream" /\ ReaderStep) /\ WF_vars(which = "stream" /\ WorkerStep)
  /\ WF_vars(which = "stream" /\ OrphanEnds)

-----------------------------------------------------------------------------
(* The export of a stream comes to its end, whatever fails or is cancelled. *)
StreamEnds == which = "stream" => ExportEnds

(* Whatever the format and the plan: what is written to the volume is what *)
(* the disk has, in whatever pieces it arrives, and a broken stream or     *)
(* image is not accepted.                                                  *)
DisksReadBack ==
  /\ which = "vmdk" => Vmdk!TypeOK /\ Vmdk!PiecesDoNotMatter /\ Vmdk!RoundTrip
  /\ which = "qcow2" => Qcow2!TypeOK /\ Qcow2!GuestIsCopied
  /\ which = "vhd" => Vhd!ChainIsCopied
  /\ which = "plan" => Plan!TypeOK /\ Plan!DataIsCopied
===============================================================================
