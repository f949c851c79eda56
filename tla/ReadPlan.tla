------------------------------- MODULE ReadPlan -------------------------------
(***************************************************************************)
(* Which parts of a source disk are read, and where they are written: the  *)
(* region maps of Prism (nutanix/regions.py), the extents of an OLVM image *)
(* transfer (disk/imageio_range_copy.py), qemu-img map on Proxmox          *)
(* (proxmox/export.py), the blocks of an EBS snapshot                      *)
(* (disk/ebs_range_copy.py) and the downloads that have no map: by ranges  *)
(* or as one stream (disk/gcs_range_copy.py, disk/nutanix_image_copy.py).  *)
(*                                                                         *)
(* Sectors hold data or zeros.  A map is told by the source in its own     *)
(* way; what it leaves out is never read, and stays zero on the volume.    *)
(***************************************************************************)
EXTENDS Naturals, Sequences, FiniteSets, FiniteSetsExt, SequencesExt, TLC

CONSTANTS Maps,       \* the kinds of source
          NumSectors, \* size of the disk on the source
          VolumeSize, \* sectors of the disk that the job has recorded
          PageSize,   \* regions, or sectors, of one answer of Prism
          Gap,        \* REGION_MERGE_GAP, in sectors
          BlockSize,  \* sectors of an EBS block
          ChunkSize,  \* sectors of a read
          Retries,    \* attempts of a read, of a stream
          MaxFaults   \* bound on the answers that fail

VARIABLES
  map,      \* the kind of source
  content,  \* the sectors of the disk that hold data
  offset,   \* where the next page, or the next piece of the stream, begins
  extents,  \* what the map has told so far: <<first sector, length>>
  buf,      \* sectors of the stream that are not written yet
  todo,     \* the reads that are planned
  stage,    \* "map", "plan", "read", "stream", "done" or "failed"
  volume,   \* what has been written
  attempt,  \* how often the stream broke off
  faults

vars == <<map, content, offset, extents, buf, todo, stage, volume, attempt, faults>>

Disk == 0..(NumSectors - 1)
Size == Min({NumSectors, VolumeSize})
Cells(e) == e[1]..(e[1] + e[2] - 1)

TypeOK ==
  /\ map \in Maps /\ content \subseteq Disk /\ offset \in 0..NumSectors
  /\ \A i \in DOMAIN extents : Cells(extents[i]) \subseteq Disk
  /\ buf \in 0..NumSectors /\ \A c \in todo : c[2] > 0
  /\ stage \in {"map", "plan", "read", "stream", "done", "failed"}
  /\ DOMAIN volume \subseteq Disk /\ attempt \in 0..Retries /\ faults \in 0..MaxFaults

-----------------------------------------------------------------------------
(* What a source knows of its disk. *)

(* The maximal runs of sectors of one kind, in order: <<first, length>>. *)
Runs(set) ==
  LET firsts == {s \in set : s = 0 \/ s - 1 \notin set}
      lastOf(a) == Max({b \in set : a <= b /\ a..b \subseteq set})
  IN  SetToSortSeq({<<a, lastOf(a) - a + 1>> : a \in firsts}, LAMBDA x, y : x[1] < y[1])

(* A page of regions that end behind the offset; without data they are told, but of another type. *)
Regions(from) ==
  LET all == SelectSeq(SetToSortSeq(ToSet(Runs(content)) \union ToSet(Runs(Disk \ content)),
                                    LAMBDA x, y : x[1] < y[1]), LAMBDA r : r[1] + r[2] > from)
  IN  SubSeq(all, 1, Min({PageSize, Len(all)}))

(* Only what is of the regular type counts. *)
Regular(rs) == SelectSeq(rs, LAMBDA r : Cells(r) \subseteq content)

Init ==
  /\ map \in Maps /\ content \in SUBSET Disk
  /\ stage = IF map = "stream" THEN "stream" ELSE "map"
  /\ offset = 0 /\ extents = <<>> /\ buf = 0 /\ todo = {} /\ volume = <<>> /\ attempt = 0 /\ faults = 0

-----------------------------------------------------------------------------
(* Collecting the map. *)

(* Prism Central: the next page begins where the farthest region of this one ends. *)
PageV4 ==
  /\ stage = "map" /\ map = "nutanix4"
  /\ LET rs == Regions(offset)
         end == Max({offset} \union {r[1] + r[2] : r \in ToSet(rs)})
     IN /\ extents' = extents \o Regular(rs)
        /\ offset' = end /\ stage' = IF end <= offset THEN "plan" ELSE "map"
  /\ UNCHANGED <<map, content, buf, todo, volume, attempt, faults>>

(* Prism Element: the answer says where to go on, and how large the file is. *)
PageV3 ==
  /\ stage = "map" /\ map = "nutanix3"
  /\ LET next == Min({offset + PageSize, NumSectors})
         inside == {r \in ToSet(Runs(content)) : r[1] < next /\ r[1] + r[2] > offset}
         cut(r) == LET a == Max({r[1], offset}) IN <<a, Min({r[1] + r[2], next}) - a>>
     IN /\ extents' = extents \o SetToSortSeq({cut(r) : r \in inside}, LAMBDA x, y : x[1] < y[1])
        /\ offset' = IF next >= NumSectors THEN offset ELSE next
        /\ stage' = IF next <= offset \/ next >= NumSectors THEN "plan" ELSE "map"
  /\ UNCHANGED <<map, content, buf, todo, volume, attempt, faults>>

(* The cluster does not answer: the same page is asked of Prism Central. *)
PageFails ==
  /\ stage = "map" /\ map = "nutanix4" /\ faults < MaxFaults /\ faults' = faults + 1
  /\ UNCHANGED <<map, content, offset, extents, buf, todo, stage, volume, attempt>>

(* The blocks of an EBS snapshot that are allocated. *)
BlocksTold ==
  SetToSortSeq({<<b * BlockSize, Min({BlockSize, NumSectors - b * BlockSize})>> :
                  b \in {s \div BlockSize : s \in content}}, LAMBDA x, y : x[1] < y[1])

(* OLVM and qemu-img tell all extents in one answer; a disk without a map is read from end to end. *)
Answer ==
  /\ stage = "map" /\ map \in {"olvm", "proxmox", "aws", "none"} /\ stage' = "plan"
  /\ extents' = CASE map \in {"olvm", "proxmox"} -> Runs(content)
                  [] map = "aws" -> BlocksTold
                  [] OTHER -> <<<<0, NumSectors>>>>
  /\ UNCHANGED <<map, content, offset, buf, todo, volume, attempt, faults>>

-----------------------------------------------------------------------------
(* The plan: clip to the disk, join what is close together, cut into reads. *)

(* Slip: an extent that begins inside the disk and ends behind it is left out. *)
ClippedSlip(es) == {Cells(e) : e \in {x \in es : x[1] + x[2] <= Size}}
Clipped(es) == {{s \in Cells(e) : s < Size} : e \in {x \in es : x[1] < Size}}

(* Extents that overlap or touch become one. *)
Merged(es) == UNION Clipped(es)

(* Prism's extents are joined across gaps, which are read though they hold nothing; the others only
   when they touch, and the blocks of EBS never. *)
Joined(es) ==
  LET all == Merged(es)
      between == {s \in 0..(Size - 1) : \E a \in all, b \in all : a < s /\ s < b /\ b - a - 1 <= Gap
                                           /\ (a + 1)..(b - 1) \cap all = {}}
  IN  IF map \in {"nutanix3", "nutanix4"} THEN all \union between ELSE all

Reads(r) ==
  {<<r[1] + k * ChunkSize, Min({ChunkSize, r[2] - k * ChunkSize})>> : k \in {j \in 0..r[2] : j * ChunkSize < r[2]}}

Plan ==
  /\ stage = "plan" /\ stage' = "read"
  /\ todo' = IF map = "aws" THEN {<<Min(c), Cardinality(c)>> : c \in Clipped(ToSet(extents))}
             ELSE UNION {Reads(r) : r \in ToSet(Runs(Joined(ToSet(extents))))}
  /\ UNCHANGED <<map, content, offset, extents, buf, volume, attempt, faults>>

-----------------------------------------------------------------------------
(* The reads, in any order: several workers take them. *)

(* What is read is written; the copies from Prism and the streams leave out what is zeros throughout. *)
Written(v, c) ==
  IF map \in {"nutanix3", "nutanix4", "none", "stream"} /\ Cells(c) \cap content = {} THEN v
  ELSE [s \in Cells(c) |-> IF s \in content THEN 1 ELSE 0] @@ v

Read(c) ==
  /\ stage = "read" /\ c \in todo /\ todo' = todo \ {c} /\ volume' = Written(volume, c)
  /\ UNCHANGED <<map, content, offset, extents, buf, stage, attempt, faults>>

(* Short, refused or broken off: the same read again; after its last attempt, no other. *)
ReadFails ==
  /\ stage = "read" /\ todo # {} /\ faults < MaxFaults /\ faults' = faults + 1
  /\ stage' \in {"read", "failed"}
  /\ UNCHANGED <<map, content, offset, extents, buf, todo, volume, attempt>>

Complete ==
  /\ stage = "read" /\ todo = {} /\ stage' = "done"
  /\ UNCHANGED <<map, content, offset, extents, buf, todo, volume, attempt, faults>>

-----------------------------------------------------------------------------
(* One stream from the start: a piece of any length comes, and full blocks are written. *)

Blocks(n) == (n \div ChunkSize) * ChunkSize

Piece(n) ==
  /\ stage = "stream" /\ offset + buf + n <= NumSectors /\ n > 0
  /\ volume' = Written(volume, <<offset, Blocks(buf + n)>>)
  /\ offset' = offset + Blocks(buf + n) /\ buf' = (buf + n) % ChunkSize
  /\ UNCHANGED <<map, content, extents, todo, stage, attempt, faults>>

(* Slip: a stream that is opened again goes on behind what had come, not behind what was written. *)
BreaksSlip ==
  /\ stage = "stream" /\ faults < MaxFaults /\ faults' = faults + 1 /\ attempt' = attempt + 1
  /\ stage' \in IF attempt' >= Retries THEN {"failed"} ELSE {"stream", "failed"}
  /\ buf' = 0 /\ offset' = offset + buf
  /\ UNCHANGED <<map, content, extents, todo, volume>>
(* The stream breaks off with an error: it is opened again where the last block ended, if the server
   can do that. *)
Breaks ==
  /\ stage = "stream" /\ faults < MaxFaults /\ faults' = faults + 1 /\ attempt' = attempt + 1
  /\ stage' \in IF attempt' >= Retries THEN {"failed"} ELSE {"stream", "failed"}
  /\ buf' = 0
  /\ UNCHANGED <<map, content, offset, extents, todo, volume>>

(* The stream ends: the rest is written, and too short a stream is an error. *)
StreamEnds(early) ==
  /\ stage = "stream" /\ IF early THEN faults < MaxFaults ELSE offset + buf = NumSectors
  /\ volume' = Written(volume, <<offset, buf>>) /\ offset' = offset + buf /\ buf' = 0
  /\ faults' = IF early THEN faults + 1 ELSE faults
  /\ stage' = IF offset' < Size THEN "failed" ELSE "done"
  /\ UNCHANGED <<map, content, extents, todo, attempt>>

Next ==
  \/ PageV4 \/ PageV3 \/ PageFails \/ Answer \/ Plan \/ ReadFails \/ Complete
  \/ \E c \in todo : Read(c)
  \/ \E n \in 1..NumSectors : Piece(n)
  \/ Breaks \/ \E early \in BOOLEAN : StreamEnds(early)

Spec == Init /\ [][Next]_vars

-----------------------------------------------------------------------------
(* A copy that is done has written every sector of the disk that holds data *)
(* at its own place, through pages, joins, cuts, retries and broken         *)
(* streams, and nothing that the source does not hold.                      *)
DataIsCopied ==
  stage = "done" =>
    /\ \A s \in content : s < Size => s \in DOMAIN volume
    /\ \A s \in DOMAIN volume : volume[s] = IF s \in content THEN 1 ELSE 0
=============================================================================
