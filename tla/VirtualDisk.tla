----------------------------- MODULE VirtualDisk ------------------------------
(***************************************************************************)
(* The copy of a Hyper-V disk (MigrationRunner._copy_hyperv_disk): a chain *)
(* of VHD and VHDX files, the leaf first, is opened over SMB and read as   *)
(* the guest saw it (disk/vhd_image.py), and the ranges that hold data are *)
(* copied in chunks (disk/imageio_range_copy.py).                          *)
(*                                                                         *)
(* A sector of the disk reads as zeros, <<>>, or as <<layer, sector>>: what *)
(* that layer of the chain holds for it.                                   *)
(***************************************************************************)
EXTENDS Naturals, Sequences, FiniteSetsExt, SequencesExt

CONSTANTS NumSectors,  \* size of the disk
          BlockSize,   \* sectors of a block
          ChunkRatio,  \* blocks that share a sector bitmap in a VHDX
          ChunkSize,   \* sectors of a read of the copy
          MaxAttempts, \* disk_retry_attempts
          MaxFaults    \* bound on the reads that fail

VARIABLES
  chain,   \* the files, leaf first
  disk,    \* the spans of each layer, as the helper has parsed them
  todo,    \* the chunks of this attempt that are still to copy
  volume, attempt, status, faults

vars == <<chain, disk, todo, volume, attempt, status, faults>>

Sectors == 0..(NumSectors - 1)
NumBlocks == (NumSectors + BlockSize - 1) \div BlockSize
Block == 0..(NumBlocks - 1)
NumBitmaps == (NumBlocks + ChunkRatio - 1) \div ChunkRatio
BlockOf(s) == s \div BlockSize
SectorsOf(b) == {s \in Sectors : BlockOf(s) = b}
Modes == {"data", "zero", "parent", "partial"}

(***************************************************************************)
(* A file: its format; the state of each block; and, of a block that is    *)
(* held in part, the sectors it holds.  A fixed VHD has no table.          *)
(***************************************************************************)
Files(formats) ==
  {f \in [format: formats, state: [Block -> {"none", "zero", "full", "partial"}], bits: SUBSET Sectors] :
     /\ f.format = "fixed" => \A b \in Block : f.state[b] = "full"
     /\ f.format \in {"dynamic", "vhdx"} => \A b \in Block : f.state[b] # "partial"
     /\ f.format \in {"dynamic", "diff"} => \A b \in Block : f.state[b] # "zero"
     /\ f.format = "diff" => \A b \in Block : f.state[b] # "full"
     /\ \A s \in f.bits : f.state[BlockOf(s)] = "partial"}

(* The files that refer to a parent. *)
Differencing(f) == f.format \in {"diff", "vhdxdiff"}

(* Bases of a few shapes are enough for what a leaf can take from them. *)
Bases == {f \in Files({"fixed", "dynamic", "vhdx"}) : \A b \in Block : b > 0 => f.state[b] # "zero"}
Chains == {<<f>> : f \in Bases \union {g \in Files({"diff"}) : g.bits = {}}}
            \union {<<f, g>> : f \in Files({"diff", "vhdxdiff"}), g \in Bases}

TypeOK ==
  /\ chain \in Chains
  /\ \A i \in DOMAIN disk : /\ DOMAIN disk[i] = Block
                            /\ \A b \in Block : disk[i][b].mode \in Modes
  /\ \A r \in todo : r \subseteq Sectors
  /\ DOMAIN volume = Sectors /\ attempt \in 0..MaxAttempts
  /\ status \in {"PENDING", "OPEN", "COPYING", "COPIED", "FAILED"} /\ faults \in 0..MaxFaults

-----------------------------------------------------------------------------
(* The table of a file, as Hyper-V writes it: after the blocks that share a bitmap comes its slot, after
   the last of them only when the file needs it. *)

Slots(f) ==
  IF f.format \in {"vhdx", "vhdxdiff"}
  THEN [k \in 0..(IF Differencing(f) THEN NumBitmaps * (ChunkRatio + 1) - 1
                   ELSE NumBlocks - 1 + ((NumBlocks - 1) \div ChunkRatio)) |->
          IF k % (ChunkRatio + 1) = ChunkRatio
          THEN [state |-> "bitmap", of |-> k \div (ChunkRatio + 1)]
          ELSE LET b == k - k \div (ChunkRatio + 1) IN
               [state |-> IF b \in Block THEN f.state[b] ELSE "none", of |-> b]]
  ELSE [b \in Block |-> [state |-> f.state[b], of |-> b]]

Slot(f, k) == IF k \in DOMAIN Slots(f) THEN Slots(f)[k] ELSE [state |-> "none", of |-> 0]

(* Bit n of the bitmap of a chunk of blocks, or of a VHD block's own: whether the sector is held. *)
Bit(f, slot, n) ==
  LET s == IF slot.state = "bitmap" THEN slot.of * ChunkRatio * BlockSize + n ELSE slot.of * BlockSize + n
  IN  s \in f.bits

(* Slip: the slots of the bitmaps are taken for blocks. *)
BatIndexSlip(b) == b
(* A slot is reserved for the bitmap after every chunk, with and without a parent. *)
BatIndex(b) == b + b \div ChunkRatio

(* The spans of a file: where block b is read from, and the bits that tell its sectors apart. *)
Span(f, b) ==
  IF f.format = "fixed" THEN [mode |-> "data", from |-> b, bits |-> {}]
  ELSE LET vhdx == f.format \in {"vhdx", "vhdxdiff"}
           slot == Slot(f, IF vhdx THEN BatIndex(b) ELSE b)
           map  == IF vhdx THEN Slot(f, (b \div ChunkRatio) * (ChunkRatio + 1) + ChunkRatio) ELSE slot
           bit0 == IF vhdx THEN (b % ChunkRatio) * BlockSize ELSE 0
       IN [from |-> slot.of,
           bits |-> {s \in SectorsOf(b) : Bit(f, map, bit0 + s - b * BlockSize)},
           mode |-> CASE slot.state = "full" -> "data"
                      [] slot.state = "zero" -> "zero"
                      [] slot.state = "partial" -> "partial"
                      [] OTHER -> IF Differencing(f) THEN "parent" ELSE "zero"]

Spans(f) == [b \in Block |-> Span(f, b)]

-----------------------------------------------------------------------------
(* Reading, from layer i of the chain down. *)

Held(i, s) == LET p == disk[i][BlockOf(s)] IN p.mode = "data" \/ (p.mode = "partial" /\ s \in p.bits)
FromBelow(i, s) == LET p == disk[i][BlockOf(s)] IN p.mode = "parent" \/ (p.mode = "partial" /\ s \notin p.bits)

(* The first layer that holds the sector, with nothing but references to the parent above it. *)
Source(s) == {i \in DOMAIN disk : Held(i, s) /\ \A k \in 1..(i - 1) : FromBelow(k, s)}

Read(s) ==
  IF Source(s) = {} THEN <<>>
  ELSE LET i == Min(Source(s)) IN <<i, (disk[i][BlockOf(s)].from * BlockSize) + (s % BlockSize)>>

(* The sectors that hold data in some layer that shows. *)
Allocated == {s \in Sectors : Source(s) # {}}

(* Allocated ranges without gaps, cut into chunks that start where the range starts. *)
Starts == {s \in Allocated : s = 0 \/ s - 1 \notin Allocated}
Chunks ==
  {{s \in Allocated : a <= s /\ s < a + ChunkSize /\ a..s \subseteq Allocated} :
     a \in {x \in Allocated : \E r \in Starts : r <= x /\ r..x \subseteq Allocated /\ (x - r) % ChunkSize = 0}}

-----------------------------------------------------------------------------
Init ==
  /\ chain \in Chains /\ disk = <<>> /\ todo = {} /\ volume = [s \in Sectors |-> <<>>]
  /\ attempt = 0 /\ status = "PENDING" /\ faults = 0

(* A file that needs a parent and has none cannot be read. *)
Openable == ~Differencing(Last(chain))

Open ==
  /\ status \in {"PENDING", "FAILED"} /\ attempt < MaxAttempts /\ attempt' = attempt + 1
  /\ IF Openable
     THEN status' = "OPEN" /\ disk' = [i \in DOMAIN chain |-> Spans(chain[i])]
     ELSE status' = "FAILED" /\ UNCHANGED disk
  /\ UNCHANGED <<chain, todo, volume, faults>>

List ==
  /\ status = "OPEN" /\ status' = "COPYING" /\ todo' = Chunks
  /\ UNCHANGED <<chain, disk, volume, attempt, faults>>

Copy(c) ==
  /\ status = "COPYING" /\ c \in todo /\ todo' = todo \ {c}
  /\ volume' = [s \in Sectors |-> IF s \in c THEN Read(s) ELSE volume[s]]
  /\ UNCHANGED <<chain, disk, attempt, status, faults>>

(* A short read, or a host that does not answer: the attempt is over, what was written stays. *)
ReadFails ==
  /\ status = "COPYING" /\ todo # {} /\ faults < MaxFaults
  /\ faults' = faults + 1 /\ status' = "FAILED"
  /\ UNCHANGED <<chain, disk, todo, volume, attempt>>

Copied ==
  /\ status = "COPYING" /\ todo = {} /\ status' = "COPIED"
  /\ UNCHANGED <<chain, disk, todo, volume, attempt, faults>>

Next == Open \/ List \/ ReadFails \/ Copied \/ \E c \in todo : Copy(c)

Spec == Init /\ [][Next]_vars

-----------------------------------------------------------------------------
(* What the guest saw: the formats. *)
Shown(s) ==
  LET Own(f) == f.state[BlockOf(s)] = "full" \/ (f.state[BlockOf(s)] = "partial" /\ s \in f.bits)
      Through(f) == Differencing(f) /\ ~Own(f) /\ f.state[BlockOf(s)] # "zero"
      layers == {i \in DOMAIN chain : Own(chain[i]) /\ \A k \in 1..(i - 1) : Through(chain[k])}
  IN  IF layers = {} THEN <<>> ELSE <<Min(layers), s>>

(* A disk is COPIED only with every sector as the guest saw it, through     *)
(* every layer of the chain and in spite of attempts that broke off.        *)
ChainIsCopied == status = "COPIED" => \A s \in Sectors : volume[s] = Shown(s)
=============================================================================
