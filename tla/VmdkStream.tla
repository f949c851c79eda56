------------------------------ MODULE VmdkStream ------------------------------
(***************************************************************************)
(* Stream-optimized VMDK (disk/vmdk_stream.py with disk/block_reader.py):  *)
(* a disk is encoded as a header, a preamble, one marker per grain that    *)
(* is not zero, grain tables, a directory, a footer and an end marker, and *)
(* the decoder is fed the stream in whatever pieces the network makes of   *)
(* it.                                                                     *)
(*                                                                         *)
(* Streams are measured in half sectors, so that a piece can end inside a  *)
(* sector; a sector of the disk holds 0 (zeros) or 1 (something).          *)
(***************************************************************************)
EXTENDS Naturals, Sequences, FiniteSets, SequencesExt

CONSTANTS MaxSectors,  \* size of the largest disk
          Grain,       \* sectors of a grain
          TableSize    \* grains of a grain table

VARIABLES
  image,   \* the disk that was encoded: its sectors
  expect,  \* the capacity the decoder is told to expect
  stream,  \* the parts of the stream
  arrives, \* how much of it arrives, in half sectors
  fed,     \* how much the decoder was given
  dec      \* the decoder: state, buffered half sectors, next part, what it wrote

vars == <<image, expect, stream, arrives, fed, dec>>

Sector == 2
Images == UNION {[0..(n - 1) -> {0, 1}] : n \in 1..MaxSectors}
Capacity(img) == Cardinality(DOMAIN img)
Up(n, to) == ((n + to - 1) \div to) * to

(* A part: its kind, its length in half sectors and, of a grain, its sector and its contents. *)
Part(kind, sectors) == [kind |-> kind, len |-> sectors * Sector, lba |-> 0, data |-> <<>>]

TypeOK ==
  /\ image \in Images /\ expect \in Nat
  /\ \A i \in DOMAIN stream : stream[i].len \in Nat
  /\ arrives \in Nat /\ fed \in 0..arrives
  /\ dec.st \in {"HEADER", "PREAMBLE", "MARKERS", "DONE", "finished", "error"}
  /\ dec.buf \in Nat /\ dec.next \in 1..Len(stream) + 1
  /\ DOMAIN dec.out \subseteq 0..(MaxSectors - 1)

-----------------------------------------------------------------------------
(* The encoder. *)

(* The sectors of grain g, padded to a full grain. *)
GrainData(img, g) == [i \in 0..(Grain - 1) |-> IF g * Grain + i \in DOMAIN img THEN img[g * Grain + i] ELSE 0]

(* The grains that are not zero, in the order in which the device is read. *)
Grains(img) ==
  SetToSortSeq({g \in 0..(MaxSectors - 1) : \E i \in 0..(Grain - 1) : GrainData(img, g)[i] = 1}, <)

(* Contents that do not compress take one sector more. *)
GrainPart(img, g) ==
  LET data == GrainData(img, g) IN
  [kind |-> "grain", len |-> (IF data[0] = 1 THEN 2 ELSE 1) * Sector, lba |-> g * Grain, data |-> data]

Tables(img) == Up(Up(Capacity(img), Grain) \div Grain, TableSize) \div TableSize

Encode(img) ==
  <<Part("header", 1), Part("preamble", 1)>>
    \o [i \in DOMAIN Grains(img) |-> GrainPart(img, Grains(img)[i])]
    \o [i \in 1..Tables(img) |-> Part("meta", 2)]
    \o <<Part("meta", 2), Part("meta", 2), Part("eos", 1)>>

-----------------------------------------------------------------------------
(* What arrives. *)

Length(parts) == FoldSeq(LAMBDA p, n : p.len + n, 0, parts)

(* The stream as it was made; without its end marker, as some tools write it; with a marker of no
   known type; with a grain that lies behind the end of the disk; or not a stream of this kind. *)
Variants(img) ==
  LET whole == Encode(img) IN
  {whole, SubSeq(whole, 1, Len(whole) - 1),
   SubSeq(whole, 1, 2) \o <<Part("junk", 1)>> \o SubSeq(whole, 3, Len(whole)),
   SubSeq(whole, 1, 2) \o <<[GrainPart(img, 0) EXCEPT !.lba = Up(Capacity(img), Grain)]>>
     \o SubSeq(whole, 3, Len(whole)),
   <<Part("alien", 1)>> \o Tail(whole)}

Init ==
  /\ image \in Images /\ stream \in Variants(image)
  /\ arrives \in {Length(stream)} \union 1..Length(stream)
  /\ expect \in {Capacity(image), Capacity(image) + 1}
  /\ fed = 0 /\ dec = [st |-> "HEADER", buf |-> 0, next |-> 1, out |-> <<>>]

(* The sectors that part p puts on the disk: what is behind its end is cut off, zeros are skipped. *)
Written(p, cap) ==
  IF \A i \in DOMAIN p.data : p.lba + i >= cap \/ p.data[i] = 0 THEN <<>>
  ELSE [s \in {p.lba + i : i \in {k \in DOMAIN p.data : p.lba + k < cap}} |-> p.data[s - p.lba]]

(* Later writes win. *)
Over(new, old) == [s \in DOMAIN new \union DOMAIN old |-> IF s \in DOMAIN new THEN new[s] ELSE old[s]]

-----------------------------------------------------------------------------
(* The decoder. *)

Take(d, p, st) == [d EXCEPT !.buf = @ - p.len, !.next = @ + 1, !.st = st]

(* Slip: the marker is taken when its first sector is there. *)
ReadySlip(d, p) == d.buf >= Sector
(* A part is looked at when it is there as a whole. *)
Ready(d, p) == d.buf >= p.len

(* One round of _drain; a decoder that waits for more stays as it is. *)
Drained(d) ==
  IF d.next > Len(stream) \/ d.st \notin {"HEADER", "PREAMBLE", "MARKERS"} THEN d
  ELSE LET p == stream[d.next] IN
    IF p.kind = "junk" /\ d.buf >= Sector THEN [d EXCEPT !.st = "error"]
    ELSE IF ~Ready(d, p) THEN d
    ELSE CASE d.st = "HEADER" ->
                IF p.kind = "header" /\ expect = Capacity(image) THEN Take(d, p, "PREAMBLE")
                ELSE [d EXCEPT !.st = "error"]
           [] d.st = "PREAMBLE" -> Take(d, p, "MARKERS")
           [] p.kind = "grain" ->
                IF p.lba >= Capacity(image) THEN [d EXCEPT !.st = "error"]
                ELSE [Take(d, p, "MARKERS") EXCEPT !.out = Over(Written(p, Capacity(image)), @)]
           [] p.kind = "eos" -> Take(d, p, "DONE")
           [] OTHER -> Take(d, p, "MARKERS")

(* Rounds until nothing moves; a stream has no more rounds than parts. *)
Drain(d) == LET f[k \in 0..Len(stream)] == IF k = 0 THEN d ELSE Drained(f[k - 1]) IN f[Len(stream)]

(* After the end marker bytes are counted and dropped. *)
Feed(n) ==
  /\ dec.st \notin {"error", "finished"} /\ fed + n <= arrives /\ fed' = fed + n
  /\ dec' = IF dec.st = "DONE" THEN dec ELSE Drain([dec EXCEPT !.buf = @ + n])
  /\ UNCHANGED <<image, expect, stream, arrives>>

(* Slip: an end inside a marker is taken for the end, too. *)
FinishSlip ==
  /\ fed = arrives /\ dec.st \notin {"error", "finished"}
  /\ dec' = [dec EXCEPT !.st = IF @ \in {"DONE", "MARKERS"} THEN "finished" ELSE "error"]
  /\ UNCHANGED <<image, expect, stream, arrives, fed>>
(* The source has ended: only between two markers is the end taken for the end of the disk. *)
Finish ==
  /\ fed = arrives /\ dec.st \notin {"error", "finished"}
  /\ dec' = [dec EXCEPT !.st = IF @ = "DONE" \/ (@ = "MARKERS" /\ dec.buf = 0) THEN "finished" ELSE "error"]
  /\ UNCHANGED <<image, expect, stream, arrives, fed>>

Next == Finish \/ \E n \in {1, 3, 5} : Feed(n)

Spec == Init /\ [][Next]_vars

-----------------------------------------------------------------------------
(* The parts that lie within the first n half sectors. *)
Within(n) == {k \in 0..Len(stream) : Length(SubSeq(stream, 1, k)) <= n}
Complete(n) == CHOOSE k \in Within(n) : \A m \in Within(n) : m <= k

(* The sectors of the grains among parts 1..k. *)
Said(k) ==
  [s \in UNION {DOMAIN Written(stream[i], Capacity(image)) : i \in {j \in 1..k : stream[j].kind = "grain"}}
     |-> image[s]]

(* However the stream is cut into pieces, the decoder has written exactly   *)
(* the grains that have arrived whole, each where it belongs.               *)
PiecesDoNotMatter ==
  dec.st # "error" => dec.out = Said(Complete(fed))

(* A stream that arrives whole and is accepted gives back the disk that was *)
(* encoded, sector for sector, on a volume of zeros; cut off anywhere but   *)
(* between two markers it is refused.                                       *)
RoundTrip ==
  dec.st = "finished" =>
    /\ arrives = Length(stream) =>
         \A s \in DOMAIN image : image[s] = IF s \in DOMAIN dec.out THEN dec.out[s] ELSE 0
    /\ Length(SubSeq(stream, 1, Complete(arrives))) = arrives \/ stream[Complete(arrives)].kind = "eos"
=============================================================================
