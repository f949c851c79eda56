--------------------------------- MODULE Qcow ---------------------------------
(***************************************************************************)
(* The copy of a qcow2 image onto a volume (disk/qcow.py): the L1 table is *)
(* read, then L2 table by L2 table the clusters that are allocated, in the *)
(* order in which they lie in the file, neighbours with one request.       *)
(*                                                                         *)
(* Clusters of the guest and of the file have the same size; a compressed  *)
(* cluster lies at a place of its own.  0 is a cluster of zeros.           *)
(***************************************************************************)
EXTENDS Naturals, Sequences, SequencesExt

CONSTANTS MaxGuest,     \* clusters of the largest disk
          TableSize,    \* clusters an L2 table describes
          FileSize,     \* clusters of data in the file
          MaxRange,     \* _MAX_RANGE: clusters of the longest request
          Preallocated  \* whether zero clusters may keep the place that was allocated for them

VARIABLES
  header,  \* what makes an image acceptable or not
  table,   \* the entry of each guest cluster
  file,    \* the clusters in the file; those behind the end of the object are missing
  l1,      \* the L1 entries read so far
  pieces,  \* the clusters of the current table that are still to copy
  run,     \* neighbours to be fetched with one request
  volume,  \* what has been written, by guest cluster
  result   \* "copying", "copied" or "refused"

vars == <<header, table, file, l1, pieces, run, volume, result>>

Place == 1..FileSize
Content == 0..1
(* An entry of an L2 table: nothing, a place, a compressed cluster or, from version 3 on, zeros. *)
Entries ==
  [kind: {"none"}, at: {0}] \union [kind: {"raw", "zlib"}, at: Place]
    \union [kind: {"zero"}, at: IF Preallocated THEN {0} \union Place ELSE {0}]

Headers == [version: 1..3, backing: BOOLEAN, crypt: BOOLEAN, incompat: {"none", "dirty", "extl2"}, zlib: BOOLEAN,
            l1: BOOLEAN]

TypeOK ==
  /\ header \in Headers /\ DOMAIN table \subseteq 0..(MaxGuest - 1)
  /\ \A g \in DOMAIN table : table[g] \in Entries
  /\ DOMAIN file \subseteq Place /\ l1 \in 0..MaxGuest
  /\ \A p \in ToSet(pieces) \union ToSet(run) : p.guest \in DOMAIN table /\ p.at \in Place
  /\ DOMAIN volume \subseteq DOMAIN table /\ result \in {"copying", "copied", "refused"}

-----------------------------------------------------------------------------
(* parse_qcow_header: what is refused, whatever the clusters hold. *)
Acceptable(h) ==
  /\ h.version \in {2, 3} /\ ~h.backing /\ ~h.crypt /\ h.l1
  /\ h.version = 3 => h.incompat \in {"none", "dirty"} /\ h.zlib

Plain == [version |-> 3, backing |-> FALSE, crypt |-> FALSE, incompat |-> "none", zlib |-> TRUE, l1 |-> TRUE]

Init ==
  /\ table \in UNION {[0..(n - 1) -> Entries] : n \in 1..MaxGuest}
  /\ header \in {h \in Headers : h = Plain \/ \A g \in DOMAIN table : table[g].kind = "none"}
  /\ file \in UNION {[1..n -> Content] : n \in {FileSize - 1, FileSize}}
  /\ l1 = 0 /\ pieces = <<>> /\ run = <<>> /\ volume = <<>>
  /\ result = IF Acceptable(header) THEN "copying" ELSE "refused"

(* By place in the file, then by guest cluster. *)
PieceBefore(a, b) == a.at < b.at \/ (a.at = b.at /\ a.guest < b.guest)

(* Slip: the place of the table is left out of the guest's cluster. *)
PiecesOfSlip(t) ==
  LET gs == {g \in DOMAIN table : g \div TableSize = t /\ table[g].at # 0} IN
  SetToSortSeq({[guest |-> g % TableSize, at |-> table[g].at, kind |-> table[g].kind] : g \in gs}, PieceBefore)
(* The clusters of L2 table t that have a place in the file.  The bit that says that a cluster reads
   as zeros is not looked at. *)
PiecesOf(t) ==
  LET gs == {g \in DOMAIN table : g \div TableSize = t /\ table[g].at # 0} IN
  SetToSortSeq({[guest |-> g, at |-> table[g].at, kind |-> table[g].kind] : g \in gs}, PieceBefore)

(* A range that reaches behind the end of the object comes back short, and that is an error. *)
Whole(from, len) == from..(from + len - 1) \subseteq DOMAIN file

(* Zeros are not written. *)
Emit(v, new) ==
  LET some == {g \in DOMAIN new : new[g] # 0} IN
  [g \in DOMAIN v \union some |-> IF g \in some THEN new[g] ELSE v[g]]

(* One request for the run; its pieces are cut out of the answer by their distance from the first. *)
Fetched(r) ==
  LET answer == [k \in 0..(Last(r).at - r[1].at) |-> file[r[1].at + k]]
      piece(g) == CHOOSE p \in ToSet(r) : p.guest = g
  IN  [g \in {p.guest : p \in ToSet(r)} |-> answer[piece(g).at - r[1].at]]
Span(r) == Whole(r[1].at, Last(r).at - r[1].at + 1)

-----------------------------------------------------------------------------
(* The next piece lies behind the run, and the request does not grow too long. *)
Joins(p) == run # <<>> => (p.at = Last(run).at + 1 /\ p.at - run[1].at + 1 <= MaxRange)

ReadTable ==
  /\ result = "copying" /\ pieces = <<>> /\ run = <<>>
  /\ IF l1 * TableSize \in DOMAIN table
     THEN l1' = l1 + 1 /\ pieces' = PiecesOf(l1) /\ UNCHANGED result
     ELSE result' = "copied" /\ UNCHANGED <<l1, pieces>>
  /\ UNCHANGED <<header, table, file, run, volume>>

Collect ==
  /\ result = "copying" /\ pieces # <<>> /\ Head(pieces).kind # "zlib" /\ Joins(Head(pieces))
  /\ run' = Append(run, Head(pieces)) /\ pieces' = Tail(pieces)
  /\ UNCHANGED <<header, table, file, l1, volume, result>>

(* Before a piece that does not join, before a compressed one, and at the end of the table. *)
Flush ==
  /\ result = "copying" /\ run # <<>>
  /\ pieces # <<>> => (Head(pieces).kind = "zlib" \/ ~Joins(Head(pieces)))
  /\ IF Span(run) THEN volume' = Emit(volume, Fetched(run)) /\ run' = <<>> /\ UNCHANGED result
     ELSE result' = "refused" /\ UNCHANGED <<volume, run>>
  /\ UNCHANGED <<header, table, file, l1, pieces>>

Inflate ==
  /\ result = "copying" /\ pieces # <<>> /\ run = <<>> /\ Head(pieces).kind = "zlib"
  /\ LET p == Head(pieces) IN
       IF Whole(p.at, 1)
       THEN volume' = Emit(volume, p.guest :> file[p.at]) /\ pieces' = Tail(pieces) /\ UNCHANGED result
       ELSE result' = "refused" /\ UNCHANGED <<volume, pieces>>
  /\ UNCHANGED <<header, table, file, l1, run>>

Next == ReadTable \/ Collect \/ Flush \/ Inflate

Spec == Init /\ [][Next]_vars

-----------------------------------------------------------------------------
(* What the guest sees: the qcow2 format. *)
Guest(g) == IF table[g].kind \in {"raw", "zlib"} THEN file[table[g].at] ELSE 0

(* After the copy the volume, zeros to begin with, reads as the guest's disk *)
(* did, whatever order its clusters have in the file and however they share  *)
(* requests.  With Preallocated it fails: a cluster that reads as zeros but  *)
(* kept its place is copied with what still lies there.                      *)
GuestIsCopied ==
  result = "copied" => \A g \in DOMAIN table : Guest(g) = IF g \in DOMAIN volume THEN volume[g] ELSE 0
=============================================================================
