------------------------------ MODULE DiskCopy ------------------------------
(***************************************************************************)
(* What copying one disk promises, whichever way it is read from its       *)
(* source: DiskState.status of the record (models.py) against what has     *)
(* been written to the OCI volume.  The runner skips a COPIED disk when it *)
(* goes on, and finalize boots from it.                                    *)
(***************************************************************************)

CONSTANT Piece  \* the pieces of the disk image: stream chunks or byte ranges

VARIABLES
  written,  \* the pieces written since the disk was last begun
  status    \* DiskState.status

vars == <<written, status>>

Init == written = {} /\ status = "PENDING"

(* An attempt starts from nothing. *)
Begin == /\ status # "COPIED"
         /\ status' = "COPYING"
         /\ written' = {}

(* A piece may still arrive while a failed attempt is wound up. *)
Write == /\ status # "COPIED"
         /\ written' \in SUBSET Piece
         /\ written \subseteq written'
         /\ UNCHANGED status

Copied == /\ status = "COPYING"
          /\ written = Piece
          /\ status' = "COPIED"
          /\ UNCHANGED written

Failed == /\ status = "COPYING"
          /\ status' = "FAILED"
          /\ UNCHANGED written

Next == Begin \/ Write \/ Copied \/ Failed

Spec == Init /\ [][Next]_vars
=============================================================================
