----------------------------- MODULE ObjectUpload -----------------------------
(***************************************************************************)
(* The upload of an exported volume (oci/object_upload.py), as the exports *)
(* of oci/ova_export.py share it: the runner has one OvaExporter, and its  *)
(* _open_writers lists the writers of every export that runs.  Each export *)
(* writes one object here, in parts; the last part is shorter than a part  *)
(* has to be and stays in the buffer until close.                          *)
(***************************************************************************)
EXTENDS Naturals, Sequences, FiniteSets

CONSTANTS Export,     \* the exports
          NumParts,   \* parts of each object
          MaxFaults   \* bound on the calls that fail

VARIABLES
  at,       \* where the thread of each export is
  written,  \* parts of its payload that went into the writer
  uploadId, \* MultipartObjectWriter.upload_id; 0 is None
  listed,   \* MultipartObjectWriter._parts, as the uploads they went to
  open,     \* OvaExporter._open_writers
  aborting, \* the writers a cleanup still has to abort
  cancel,
  uploads,  \* the multipart uploads Object Storage holds: a set of ids
  ids,      \* number of uploads made so far
  object,   \* the parts of the payload that the stored object has; {} if none
  faults

vars == <<at, written, uploadId, listed, open, aborting, cancel, uploads, ids, object, faults>>

Part == 1..NumParts
Full == 1..(NumParts - 1)  \* those that fill a part
Places == {"write", "upload", "flush", "close", "commit", "failing", "cleanup", "done", "ended"}

TypeOK ==
  /\ at \in [Export -> Places] /\ written \in [Export -> 0..NumParts]
  /\ uploads \subseteq 1..ids /\ uploadId \in [Export -> 0..ids]
  /\ listed \in [Export -> Seq(1..ids)]
  /\ open \subseteq Export /\ aborting \in [Export -> SUBSET Export]
  /\ cancel \in SUBSET Export /\ object \in [Export -> SUBSET Part] /\ faults \in 0..MaxFaults

Init ==
  /\ at = [e \in Export |-> "write"] /\ written = [e \in Export |-> 0]
  /\ uploadId = [e \in Export |-> 0] /\ listed = [e \in Export |-> <<>>]
  /\ open = Export /\ aborting = [e \in Export |-> {}]
  /\ cancel = {} /\ uploads = {} /\ ids = 0
  /\ object = [e \in Export |-> {}] /\ faults = 0

-----------------------------------------------------------------------------
Goto(e, place) == at' = [at EXCEPT ![e] = place]
Fail(e) == faults < MaxFaults /\ faults' = faults + 1 /\ Goto(e, "failing")

(* write: the data go to the buffer; a full part goes out at once. *)
Write(e) ==
  /\ at[e] = "write"
  /\ IF e \in cancel THEN Goto(e, "failing") /\ UNCHANGED written
     ELSE IF written[e] = NumParts THEN Goto(e, "close") /\ UNCHANGED written
     ELSE /\ written' = [written EXCEPT ![e] = @ + 1]
          /\ Goto(e, IF written[e] + 1 \in Full THEN "upload" ELSE "write")
  /\ UNCHANGED <<uploadId, listed, open, aborting, cancel, uploads, ids, object, faults>>

(* Slip: every part starts an upload of its own. *)
EnsureUploadSlip(e) ==
  /\ at[e] = "upload"
  /\ ids' = ids + 1 /\ uploads' = uploads \cup {ids'}
  /\ uploadId' = [uploadId EXCEPT ![e] = ids']
  /\ Goto(e, "flush") /\ UNCHANGED faults
  /\ UNCHANGED <<written, listed, open, aborting, cancel, object>>

(* _ensure_upload *)
EnsureUpload(e) ==
  /\ at[e] = "upload"
  /\ \/ /\ uploadId[e] # 0
        /\ Goto(e, "flush") /\ UNCHANGED <<ids, uploads, uploadId, faults>>
     \/ /\ uploadId[e] = 0
        /\ ids' = ids + 1 /\ uploads' = uploads \cup {ids'}
        /\ uploadId' = [uploadId EXCEPT ![e] = ids']
        /\ Goto(e, "flush") /\ UNCHANGED faults
     \/ uploadId[e] = 0 /\ Fail(e) /\ UNCHANGED <<ids, uploads, uploadId>>
  /\ UNCHANGED <<written, listed, open, aborting, cancel, object>>

(* _flush_part: refused without an upload that is still there *)
FlushPart(e) ==
  /\ at[e] = "flush"
  /\ \/ /\ uploadId[e] \in uploads
        /\ listed' = [listed EXCEPT ![e] = Append(@, uploadId[e])]
        /\ Goto(e, IF written[e] = NumParts THEN "commit" ELSE "write") /\ UNCHANGED faults
     \/ uploadId[e] \notin uploads /\ Goto(e, "failing") /\ UNCHANGED <<listed, faults>>
     \/ Fail(e) /\ UNCHANGED listed
  /\ UNCHANGED <<written, uploadId, open, aborting, cancel, uploads, ids, object>>

(* Slip: what is left in the buffer is stored by itself. *)
CloseSlip(e) ==
  /\ at[e] = "close"
  /\ object' = [object EXCEPT ![e] = Part \ Full]
  /\ Goto(e, "done") /\ UNCHANGED faults
  /\ UNCHANGED <<written, uploadId, listed, open, aborting, cancel, uploads, ids>>

(* close: a payload that never started an upload is put as it is in the    *)
(* buffer; else the rest is the last part.                                 *)
Close(e) ==
  /\ at[e] = "close"
  /\ \/ /\ uploadId[e] = 0
        /\ object' = [object EXCEPT ![e] = Part \ Full]
        /\ Goto(e, "done") /\ UNCHANGED faults
     \/ uploadId[e] = 0 /\ Fail(e) /\ UNCHANGED object
     \/ uploadId[e] # 0 /\ Goto(e, "flush") /\ UNCHANGED <<object, faults>>
  /\ UNCHANGED <<written, uploadId, listed, open, aborting, cancel, uploads, ids>>

(* commit_multipart_upload: refused unless the upload is there and has     *)
(* every part that is listed                                               *)
Commit(e) ==
  /\ at[e] = "commit"
  /\ IF uploadId[e] \in uploads /\ \A i \in DOMAIN listed[e] : listed[e][i] = uploadId[e]
     THEN \/ /\ object' = [object EXCEPT ![e] = DOMAIN listed[e]]
             /\ uploads' = uploads \ {uploadId[e]}
             /\ Goto(e, "done") /\ UNCHANGED faults
          \/ Fail(e) /\ UNCHANGED <<object, uploads>>
     ELSE Goto(e, "failing") /\ UNCHANGED <<object, uploads, faults>>
  /\ UNCHANGED <<written, uploadId, listed, open, aborting, cancel, ids>>

(* abort, of any writer: one that is committed, or has no upload, is left  *)
(* alone; an error is logged.                                              *)
Abort(w, failed) ==
  /\ IF uploadId[w] = 0 \/ object[w] # {} THEN UNCHANGED <<uploads, uploadId>>
     ELSE /\ uploads' = IF failed THEN uploads ELSE uploads \ {uploadId[w]}
          /\ uploadId' = [uploadId EXCEPT ![w] = 0]

(* Slip: an error of the copy leaves the upload open. *)
GiveUpSlip(e) ==
  /\ at[e] = "failing"
  /\ open' = open \ {e} /\ Goto(e, "cleanup")
  /\ UNCHANGED <<written, uploadId, uploads, listed, aborting, cancel, ids, object, faults>>

(* The except clauses of close and run abort the writer; the job is failed *)
(* or cancelled, and its cleanup goes through _open_writers.               *)
GiveUp(e) ==
  /\ at[e] = "failing"
  /\ \/ Abort(e, FALSE) /\ UNCHANGED faults
     \/ faults < MaxFaults /\ Abort(e, TRUE) /\ faults' = faults + 1
  /\ aborting' = [aborting EXCEPT ![e] = open]
  /\ Goto(e, "cleanup")
  /\ UNCHANGED <<written, listed, open, cancel, ids, object>>

(* OvaExporter.cleanup: abort every open writer, whosever it is, and clear *)
(* the list.                                                               *)
CleanupAbort(e) ==
  /\ at[e] = "cleanup" /\ aborting[e] # {}
  /\ \E w \in aborting[e] :
       /\ \/ Abort(w, FALSE) /\ UNCHANGED faults
          \/ faults < MaxFaults /\ Abort(w, TRUE) /\ faults' = faults + 1
       /\ aborting' = [aborting EXCEPT ![e] = @ \ {w}]
  /\ UNCHANGED <<at, written, listed, open, cancel, ids, object>>

CleanupDone(e) ==
  /\ at[e] = "cleanup" /\ aborting[e] = {}
  /\ open' = {} /\ Goto(e, "ended")
  /\ UNCHANGED <<written, uploadId, listed, aborting, cancel, uploads, ids, object, faults>>

(* the disk is COPIED, its digest goes to the manifest *)
Done(e) ==
  /\ at[e] = "done" /\ e \in open
  /\ open' = open \ {e}
  /\ UNCHANGED <<at, written, uploadId, listed, aborting, cancel, uploads, ids, object, faults>>

RequestCancel(e) ==
  /\ e \notin cancel /\ at[e] # "ended"
  /\ cancel' = cancel \cup {e}
  /\ UNCHANGED <<at, written, uploadId, listed, open, aborting, uploads, ids, object, faults>>

Next == \E e \in Export :
  \/ Write(e) \/ EnsureUpload(e) \/ FlushPart(e) \/ Close(e) \/ Commit(e)
  \/ GiveUp(e) \/ CleanupAbort(e) \/ CleanupDone(e) \/ Done(e) \/ RequestCancel(e)

Spec == Init /\ [][Next]_vars

-----------------------------------------------------------------------------
(* The object of a volume reported as COPIED holds all of it: its digest   *)
(* in the manifest is of every byte that was written.  True of one export  *)
(* at a time; with two, the cleanup of one aborts the upload of the other, *)
(* which then stores its last part as if it were everything.               *)
ObjectIsWhole == \A e \in Export : at[e] = "done" => object[e] = Part

(* An export that ended leaves no multipart upload in the bucket, if no    *)
(* call failed: neither when it is cancelled between any two calls.        *)
NoUploadLeft ==
  faults = 0 => \A e \in Export : at[e] \in {"done", "ended"} => uploadId[e] \notin uploads
                                  /\ (Cardinality(Export) = 1 => uploads = {})

-----------------------------------------------------------------------------
(* What carries the two, of one export: until it fails, every part listed  *)
(* went to its own upload, which is there, and the parts are as many as    *)
(* its place says; without a failed call there is no other upload.         *)
Working(e) == at[e] \in {"write", "upload", "flush", "close", "commit"}
Sent(e) ==
  CASE at[e] = "write" -> IF written[e] = NumParts THEN NumParts - 1 ELSE written[e]
    [] at[e] = "commit" -> NumParts
    [] OTHER -> written[e] - 1

UploadSound(e) ==
  /\ Working(e) \/ at[e] = "failing" => object[e] = {}
  /\ Working(e) => /\ uploadId[e] \in uploads \/ (uploadId[e] = 0 /\ listed[e] = <<>>)
                   /\ Len(listed[e]) = Sent(e)
                   /\ \A i \in 1..Len(listed[e]) : listed[e][i] = uploadId[e]
  /\ at[e] \in {"close", "commit"} => written[e] = NumParts
  /\ at[e] \in {"upload", "flush"} => written[e] # 0
  /\ at[e] = "upload" => written[e] # NumParts
  /\ at[e] \in {"flush", "commit"} => uploadId[e] # 0
  /\ at[e] = "done" => object[e] = Part
  /\ faults = 0 => uploads = IF Working(e) \/ at[e] = "failing" THEN {uploadId[e]} \ {0} ELSE {}

UploadInv == TypeOK /\ ids \in Nat /\ \A e \in Export : UploadSound(e)
=============================================================================
