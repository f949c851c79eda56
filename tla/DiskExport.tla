----------------------------- MODULE DiskExport -----------------------------
(***************************************************************************)
(* One disk of a vSphere migration: _export_disk of jobs/runner.py reads   *)
(* the stream of the disk chunk by chunk and feeds it to the VMDK decoder, *)
(* directly or through the PipelinedDecoder of disk/pipeline.py, whose     *)
(* worker thread decodes and writes behind a bounded queue.  Every attempt *)
(* has a writer, a decoder and a worker of its own.                        *)
(*                                                                         *)
(* A chunk is its number in the stream.  The reader and the worker         *)
(* interleave at every look at the queue, the error and the stop flag.     *)
(***************************************************************************)
EXTENDS Naturals, Sequences

CONSTANTS N,         \* chunks of the stream
          Depth,     \* nfc_pipeline_depth
          Attempts   \* disk_retry_attempts

(* PipelinedDecoder refuses a depth below one. *)
ASSUME StreamAssumption == N \in Nat /\ Depth \in Nat \ {0} /\ Attempts \in Nat \ {0}

VARIABLES
  pc,         \* where the reading thread is in _export_disk
  pipelined,  \* target.pipelined_decode
  attempt,    \* disk.attempts
  read,       \* chunks the source has delivered in this attempt
  flying,     \* the exception that is being handled
  status,     \* disk.status
  outcome,    \* how _export_disk ended
  open,       \* the writer's file descriptor
  queue,      \* PipelinedDecoder._q
  worker,     \* where its thread is
  hand,       \* the chunk the worker decodes
  error,      \* PipelinedDecoder._error, set together with _failed
  stop,       \* PipelinedDecoder._stop
  decoded,    \* the chunks decoded and written in this attempt
  orphans,    \* the attempts whose worker was left in a write
  cancel      \* the job's cancel flag

reader == <<pipelined, attempt, read, status, outcome, open, orphans>>
pipe == <<queue, worker, hand, error, stop, decoded>>
vars == <<pc, flying, reader, pipe, cancel>>

EOF == 0
Chunks == 1..N

(* What the except clauses of _export_disk tell apart: errors that are     *)
(* retried, JobCancelled, and any other; and the error of abort() itself.  *)
Errors == {"retry", "fatal"}

TypeOK ==
  /\ pc \in {"begin", "read", "feed", "put", "finish", "eof", "join", "decfinish", "failed",
             "abort", "drain", "ajoin", "close", "end"}
  /\ pipelined \in BOOLEAN
  /\ attempt \in 0..Attempts
  /\ read \in 0..N
  /\ flying \in Errors \cup {"none", "cancel"}
  /\ status \in {"PENDING", "COPYING", "FAILED", "COPIED"}
  /\ outcome \in {"running", "copied", "cancelled", "failed"}
  /\ open \in BOOLEAN
  /\ queue \in Seq(Chunks \cup {EOF}) /\ Len(queue) <= Depth
  /\ worker \in {"none", "test", "get", "feed", "drain", "ended"}
  /\ hand \in Chunks \cup {EOF}
  /\ error \in Errors \cup {"none", "aborted"}
  /\ stop \in BOOLEAN
  /\ decoded \in Seq(Chunks)
  /\ orphans \subseteq 1..Attempts
  /\ cancel \in BOOLEAN

Init ==
  /\ pc = "begin" /\ pipelined \in BOOLEAN /\ attempt = 0 /\ read = 0 /\ flying = "none"
  /\ status = "PENDING" /\ outcome = "running" /\ open = FALSE
  /\ queue = <<>> /\ worker = "none" /\ hand = EOF /\ error = "none" /\ stop = FALSE
  /\ decoded = <<>> /\ orphans = {}
  /\ cancel = FALSE

-----------------------------------------------------------------------------
(* The reading thread. *)

Go(at) == pc' = at /\ UNCHANGED flying
Raise(exc) == pc' = "failed" /\ flying' = exc
Leave(how) == outcome' = how /\ Go("end")

(* A new attempt: the flag is looked at, the writer opened, the decoder and *)
(* its worker started.                                                     *)
Begin ==
  /\ pc = "begin"
  /\ IF cancel
     THEN Leave("cancelled") /\ UNCHANGED <<pipelined, attempt, read, status, open, orphans, pipe>>
     ELSE /\ attempt' = attempt + 1
          /\ status' = "COPYING"
          /\ read' = 0
          /\ queue' = <<>> /\ hand' = EOF /\ error' = "none" /\ stop' = FALSE /\ decoded' = <<>>
          /\ UNCHANGED <<pipelined, orphans>>
          /\ \/ /\ open' = TRUE
                /\ worker' = IF pipelined THEN "test" ELSE "none"
                /\ Go("read")
                /\ UNCHANGED outcome
             \/ /\ Leave("failed")  \* the device cannot be opened: ExportError
                /\ worker' = "none"
                /\ UNCHANGED open
  /\ UNCHANGED cancel

(* iter_disk delivers a chunk, and the flag is looked at; or the stream    *)
(* ends, for the reader also when it ends too soon; or it breaks.          *)
Read ==
  /\ pc = "read"
  /\ \/ /\ read < N
        /\ read' = read + 1
        /\ IF cancel THEN Raise("cancel") ELSE Go("feed")
     \/ Go("finish") /\ UNCHANGED read
     \/ \E e \in Errors : Raise(e) /\ UNCHANGED read
  /\ UNCHANGED <<pipelined, attempt, status, outcome, open, orphans, pipe, cancel>>

(* _raise_if_failed *)
CheckThen(at) == IF error # "none" THEN Raise(error) ELSE Go(at)

(* feed: of the decoder ... *)
FeedDirect ==
  /\ pc = "feed"
  /\ ~pipelined
  /\ \/ decoded' = Append(decoded, read) /\ Go("read")
     \/ \E e \in Errors : Raise(e) /\ UNCHANGED decoded
  /\ UNCHANGED <<reader, queue, worker, hand, error, stop, cancel>>

(* ... or of the pipeline: an error of the worker surfaces here, else the  *)
(* chunk is queued ...                                                     *)
Feed ==
  /\ pc = "feed"
  /\ pipelined
  /\ CheckThen("put")
  /\ UNCHANGED <<reader, pipe, cancel>>

(* Slip: put is repeated after it succeeded. *)
PutSlip ==
  /\ pc = "put"
  /\ Len(queue) < Depth
  /\ queue' = Append(queue, read)
  /\ Go("read") \/ Go("put")
  /\ UNCHANGED <<reader, worker, hand, error, stop, decoded, cancel>>

Put ==
  /\ pc = "put"
  /\ Len(queue) < Depth
  /\ queue' = Append(queue, read)
  /\ Go("read")
  /\ UNCHANGED <<reader, worker, hand, error, stop, decoded, cancel>>

(* ... and while there is no room, every half second the error is looked   *)
(* at again.                                                               *)
PutTimeout ==
  /\ pc = "put"
  /\ Len(queue) = Depth
  /\ error # "none"
  /\ Raise(error)
  /\ UNCHANGED <<reader, pipe, cancel>>

(* finish *)
Finish ==
  /\ pc = "finish"
  /\ IF pipelined THEN CheckThen("eof") ELSE Go("decfinish")
  /\ UNCHANGED <<reader, pipe, cancel>>

(* The end marker is put without a timeout. *)
PutEof ==
  /\ pc = "eof"
  /\ Len(queue) < Depth
  /\ queue' = Append(queue, EOF)
  /\ Go("join")
  /\ UNCHANGED <<reader, worker, hand, error, stop, decoded, cancel>>

Join ==
  /\ pc = "join"
  /\ worker = "ended"
  /\ CheckThen("decfinish")
  /\ UNCHANGED <<reader, pipe, cancel>>

(* Slip: the decoder is not asked whether the stream was complete. *)
DecoderFinishSlip ==
  /\ pc = "decfinish"
  /\ status' = "COPIED" /\ Go("close")
  /\ UNCHANGED <<pipelined, attempt, read, outcome, open, orphans, pipe, cancel>>

(* StreamOptimizedDecoder.finish refuses a stream that ends within a       *)
(* marker; the disk is saved as COPIED.                                    *)
DecoderFinish ==
  /\ pc = "decfinish"
  /\ IF Len(decoded) = N
     THEN status' = "COPIED" /\ Go("close")
     ELSE Raise("retry") /\ UNCHANGED status
  /\ UNCHANGED <<pipelined, attempt, read, outcome, open, orphans, pipe, cancel>>

(* The except clauses: any other exception leaves the status. *)
Failed ==
  /\ pc = "failed"
  /\ status' = IF flying = "fatal" THEN status ELSE "FAILED"
  /\ Go(IF pipelined /\ worker # "ended" THEN "abort" ELSE "close")
  /\ UNCHANGED <<pipelined, attempt, read, outcome, open, orphans, pipe, cancel>>

(* abort: nothing more to do after a finish that got to its join; else the *)
(* worker is told to stop, ...                                             *)
Abort ==
  /\ pc = "abort"
  /\ stop' = TRUE
  /\ error' = IF error = "none" THEN "aborted" ELSE error
  /\ Go("drain")
  /\ UNCHANGED <<reader, queue, worker, hand, decoded, cancel>>

(* ... the queue is emptied, the end marker put ... *)
Drain ==
  /\ pc = "drain"
  /\ IF queue # <<>>
     THEN queue' = Tail(queue) /\ Go("drain")
     ELSE queue' = <<EOF>> /\ Go("ajoin")
  /\ UNCHANGED <<reader, worker, hand, error, stop, decoded, cancel>>

(* Slip: abort does not wait. *)
AbortJoinSlip ==
  /\ pc = "ajoin"
  /\ orphans' = IF worker = "ended" THEN orphans ELSE orphans \cup {attempt}
  /\ Go("close")
  /\ UNCHANGED <<pipelined, attempt, read, status, outcome, open, pipe, cancel>>

(* ... and the worker waited for, thirty seconds at most, which only a     *)
(* write can outlast.                                                      *)
AbortJoin ==
  /\ pc = "ajoin"
  /\ worker \in {"ended", "feed"}
  /\ orphans' = IF worker = "ended" THEN orphans ELSE orphans \cup {attempt}
  /\ Go("close")
  /\ UNCHANGED <<pipelined, attempt, read, status, outcome, open, pipe, cancel>>

(* Slip: one attempt too many. *)
CloseSlip ==
  /\ pc = "close"
  /\ open' = FALSE
  /\ flying' = "none"
  /\ pc' = IF flying = "retry" /\ attempt <= Attempts THEN "begin" ELSE "end"
  /\ outcome' = CASE flying = "none" -> "copied"
                  [] flying = "cancel" -> "cancelled"
                  [] flying = "retry" /\ attempt <= Attempts -> "running"
                  [] OTHER -> "failed"
  /\ UNCHANGED <<pipelined, attempt, read, status, orphans, pipe, cancel>>

(* writer.close() in the finally; an error of its fsync replaces whatever  *)
(* was in flight, a return too.                                            *)
Close ==
  /\ pc = "close"
  /\ open' = FALSE
  /\ flying' = "none"
  /\ \/ /\ pc' = IF flying = "retry" /\ attempt < Attempts THEN "begin" ELSE "end"
        /\ outcome' = CASE flying = "none" -> "copied"
                        [] flying = "cancel" -> "cancelled"
                        [] flying = "retry" /\ attempt < Attempts -> "running"
                        [] OTHER -> "failed"
     \/ pc' = "end" /\ outcome' = "failed"
  /\ UNCHANGED <<pipelined, attempt, read, status, orphans, pipe, cancel>>

-----------------------------------------------------------------------------
(* The worker thread of the attempt, and those left over.                  *)

WorkerTest ==
  /\ worker = "test"
  /\ worker' = IF stop THEN "ended" ELSE "get"
  /\ UNCHANGED <<pc, flying, reader, queue, hand, error, stop, decoded, cancel>>

WorkerGet ==
  /\ worker = "get"
  /\ queue # <<>>
  /\ queue' = Tail(queue)
  /\ hand' = Head(queue)
  /\ worker' = IF Head(queue) = EOF THEN "ended" ELSE "feed"
  /\ UNCHANGED <<pc, flying, reader, error, stop, decoded, cancel>>

(* decoder.feed: the chunk is inflated and written ... *)
WorkerFeed ==
  /\ worker = "feed"
  /\ attempt \notin orphans
  /\ decoded' = Append(decoded, hand)
  /\ hand' = EOF
  /\ worker' = "test"
  /\ UNCHANGED <<pc, flying, reader, queue, error, stop, cancel>>

(* Slip: the worker ends with its error and leaves the queue full. *)
WorkerFailsSlip ==
  /\ worker = "feed"
  /\ attempt \notin orphans
  /\ error' \in Errors
  /\ stop' = TRUE
  /\ worker' = "ended"
  /\ hand' = EOF
  /\ UNCHANGED <<pc, flying, reader, queue, decoded, cancel>>

(* ... or fails: the error is kept, and the queue is emptied afterwards.   *)
WorkerFails ==
  /\ worker = "feed"
  /\ attempt \notin orphans
  /\ error' \in Errors
  /\ stop' = TRUE
  /\ worker' = "drain"
  /\ hand' = EOF
  /\ UNCHANGED <<pc, flying, reader, queue, decoded, cancel>>

WorkerDrain ==
  /\ worker = "drain"
  /\ IF queue # <<>>
     THEN queue' = Tail(queue) /\ UNCHANGED worker
     ELSE worker' = "ended" /\ UNCHANGED queue
  /\ UNCHANGED <<pc, flying, reader, hand, error, stop, decoded, cancel>>

(* The write of a left-over worker returns; it finds the stop flag set.    *)
OrphanEnds ==
  /\ \E a \in orphans : orphans' = orphans \ {a}
  /\ worker' = IF attempt \in orphans \ orphans' THEN "ended" ELSE worker
  /\ UNCHANGED <<pc, flying, pipelined, attempt, read, status, outcome, open, queue, hand, error,
                 stop, decoded, cancel>>

(* request_cancel *)
RequestCancel ==
  /\ ~cancel
  /\ cancel' = TRUE
  /\ UNCHANGED <<pc, flying, reader, pipe>>

ReaderStep ==
  \/ Begin \/ Read \/ FeedDirect \/ Feed \/ Put \/ PutTimeout \/ Finish \/ PutEof \/ Join
  \/ DecoderFinish \/ Failed \/ Abort \/ Drain \/ AbortJoin \/ Close

WorkerStep == WorkerTest \/ WorkerGet \/ WorkerFeed \/ WorkerFails \/ WorkerDrain

Next == ReaderStep \/ WorkerStep \/ OrphanEnds \/ RequestCancel

Spec == Init /\ [][Next]_vars

(* Both threads are scheduled: a read of the source has a timeout, and a   *)
(* write returns.                                                          *)
FairSpec == Spec /\ WF_vars(ReaderStep) /\ WF_vars(WorkerStep) /\ WF_vars(OrphanEnds)

-----------------------------------------------------------------------------
(* The decoder gets the chunks of the stream one after the other, none     *)
(* skipped and none twice, whatever timeouts, failures and retries do: a   *)
(* chunk that is lost or repeated would shift all that follows.  Only the  *)
(* last chunk of an attempt that is being aborted may come after a gap,    *)
(* when the worker takes it from under the drain; such an attempt never    *)
(* ends in COPIED.                                                         *)
DecodedInOrder ==
  \A k \in 1..Len(decoded) :
    decoded[k] = k \/ (k = Len(decoded) /\ stop /\ status # "COPIED")

(* The queue, its drains and its end marker never leave the reader behind: *)
(* every attempt comes to its end, the export with it.                     *)
ExportEnds == <>(outcome # "running")

(* "stops the worker before the fd goes away": of a worker at most the     *)
(* write that outlasts the wait of abort is left when the file descriptor  *)
(* is closed, and no chunk is taken up afterwards.                         *)
ClosedAfterWorker ==
  ~open => worker \in {"none", "ended"} \/ (worker = "feed" /\ stop /\ attempt \in orphans)

(* The same without the exception. *)
NothingWritesAfterClose == ~open => worker \in {"none", "ended"} /\ orphans = {}

(* What the two threads of a stream owe each other *)
StreamKeepsOrder == TypeOK /\ DecodedInOrder /\ ClosedAfterWorker

(* A disk is COPIED only after all of its stream was written, and nothing  *)
(* is written to it afterwards.                                            *)
Copy == INSTANCE DiskCopy WITH Piece <- Chunks,
                               written <- {decoded[k] : k \in 1..Len(decoded)}
StreamImplementsDiskCopy == Copy!Spec

(* A COPIED disk is on stable storage: its volume is synced before anyone  *)
(* acts on the status.                                                     *)
CopiedIsSynced == (status = "COPIED" /\ pc = "end") => outcome = "copied"
=============================================================================
