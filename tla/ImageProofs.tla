----------------------------- MODULE ImageProofs -----------------------------
(***************************************************************************)
(* What becomes of a disk outside the source, the models of MCObjects.     *)
(*                                                                         *)
(* The stream (DiskExport), of any length, for a queue of any capacity and *)
(* any number of attempts: the decoder gets the chunks in order, the       *)
(* worker is gone before the file descriptor is closed, and a disk is      *)
(* COPIED only with its whole stream written, also when the worker decodes *)
(* beside the download, fails, is aborted or is left in a write.           *)
(*                                                                         *)
(* One multipart upload of any number of parts, a library of images used   *)
(* by any set of jobs, and the import of an object with any number of      *)
(* disks, whatever fails and however often.                                *)
(***************************************************************************)
EXTENDS MCObjects, SequenceTheorems, FiniteSetTheorems, TLAPS

-----------------------------------------------------------------------------
(* The stream. *)

(* Where the reader is still delivering the stream of an attempt *)
Delivering == {"read", "feed", "put", "finish", "eof", "join", "decfinish"}

(* The reader: an attempt that is begun is neither the last nor done, its  *)
(* status is COPYING until it failed or ended, and what abort leaves in    *)
(* the error is seen by nobody.                                            *)
ReaderInv ==
  /\ pc = "begin" => attempt < Attempts /\ status # "COPIED"
  /\ pc \notin {"begin", "end"} => open /\ attempt # 0
  /\ pc \in {"begin", "end"} => ~open
  /\ pc \in {"feed", "put"} => read # 0
  /\ pc \in Delivering \cup {"begin"} => flying = "none"
  /\ pc \in Delivering \cup {"failed"} => status = "COPYING"
  /\ pc \in Delivering \cup {"failed", "abort"} => error # "aborted"
  /\ status = "COPIED" => pc \in {"close", "end"} /\ flying = "none" /\ ~stop

(* The worker: there is one with a pipeline only, it is told to stop       *)
(* together with its error, and outlives its attempt only in a write.      *)
WorkerInv ==
  /\ stop <=> error # "none"
  /\ worker = "drain" \/ pc \in {"drain", "ajoin"} => stop
  /\ ~pipelined => worker = "none" /\ ~stop
                   /\ pc \notin {"put", "eof", "join", "abort", "drain", "ajoin"}
  /\ pc = "decfinish" => ~stop
  /\ pc \in {"decfinish", "close", "begin", "end"} =>
       worker \in {"none", "ended"} \/ attempt \in orphans
  /\ orphans \subseteq 1..attempt
  /\ attempt \in orphans => worker = "feed" /\ stop /\ pc \in {"close", "begin", "end"}

(* The chunks decoded are the first of the stream; the last of an attempt  *)
(* that is being aborted may be a later one.                               *)
OrderInv ==
  /\ \A k \in 1..Len(decoded) : k < Len(decoded) => decoded[k] = k
  /\ ~stop \/ worker \in {"get", "feed"} => \A k \in 1..Len(decoded) : decoded[k] = k
  /\ worker = "feed" => hand \in Chunks

(* The chunks the worker has taken up *)
TakenUp == Len(decoded) + IF worker = "feed" THEN 1 ELSE 0

(* Nothing is lost between the two threads: the queue continues where the  *)
(* worker is, and the reader where the queue ends.                         *)
HandOver ==
  /\ worker = "feed" => hand = Len(decoded) + 1
  /\ \A i \in 1..Len(queue) :
       queue[i] = TakenUp + i \/ (pc = "join" /\ i = Len(queue) /\ queue[i] = EOF)
  /\ pc = "read" => read = TakenUp + Len(queue)
  /\ pc \in {"feed", "put"} => read = TakenUp + Len(queue) + 1

(* Without a worker the reader decodes what it has read. *)
Direct ==
  /\ pc = "read" => read = Len(decoded)
  /\ pc = "feed" => read = Len(decoded) + 1

ChunksInv ==
  /\ OrderInv
  /\ (~stop /\ worker \in {"test", "get", "feed"}) => HandOver
  /\ ~pipelined => Direct

StreamInv == TypeOK /\ ReaderInv /\ WorkerInv /\ ChunksInv

(* A cancelled reader ends before the attempt, and touches nothing. *)
NoAttempt ==
  /\ pc' = "end" /\ outcome' = "cancelled"
  /\ flying' = flying /\ pipelined' = pipelined /\ attempt' = attempt /\ read' = read
  /\ status' = status /\ open' = open /\ orphans' = orphans /\ cancel' = cancel
  /\ queue' = queue /\ worker' = worker /\ hand' = hand /\ error' = error
  /\ stop' = stop /\ decoded' = decoded

(* An attempt starts with everything empty, or fails to. *)
NewAttempt ==
  /\ attempt' = attempt + 1 /\ status' = "COPYING" /\ read' = 0
  /\ queue' = <<>> /\ hand' = EOF /\ error' = "none" /\ stop' = FALSE /\ decoded' = <<>>
  /\ flying' = flying /\ pipelined' = pipelined /\ orphans' = orphans /\ cancel' = cancel
  /\ \/ /\ pc' = "read" /\ open' = TRUE /\ outcome' = outcome
        /\ worker' = IF pipelined THEN "test" ELSE "none"
     \/ /\ pc' = "end" /\ open' = open /\ outcome' = "failed" /\ worker' = "none"

(* An attempt is begun, or the reader leaves. *)
LEMMA BeginCases == Begin => pc = "begin" /\ (NoAttempt \/ NewAttempt)
<1> SUFFICES ASSUME Begin PROVE pc = "begin" /\ (NoAttempt \/ NewAttempt)
  OBVIOUS
<1>1. CASE cancel
  BY <1>1 DEF Begin, Leave, Go, pipe, NoAttempt
<1>2. CASE ~cancel
  BY <1>2 DEF Begin, Leave, Go, NewAttempt
<1>. QED
  BY <1>1, <1>2 DEF Begin

(* The types of the sequences and of the rest *)
Sequences ==
  /\ queue \in Seq(Chunks \cup {EOF}) /\ Len(queue) <= Depth
  /\ decoded \in Seq(Chunks)

Scalars ==
  /\ pc \in {"begin", "read", "feed", "put", "finish", "eof", "join", "decfinish", "failed",
             "abort", "drain", "ajoin", "close", "end"}
  /\ pipelined \in BOOLEAN
  /\ attempt \in 0..Attempts
  /\ read \in 0..N
  /\ flying \in Errors \cup {"none", "cancel"}
  /\ status \in {"PENDING", "COPYING", "FAILED", "COPIED"}
  /\ outcome \in {"running", "copied", "cancelled", "failed"}
  /\ open \in BOOLEAN
  /\ worker \in {"none", "test", "get", "feed", "drain", "ended"}
  /\ hand \in Chunks \cup {EOF}
  /\ error \in Errors \cup {"none", "aborted"}
  /\ stop \in BOOLEAN
  /\ orphans \subseteq 1..Attempts
  /\ cancel \in BOOLEAN

(* Together they are the types of the module. *)
LEMMA Parts == TypeOK <=> Scalars /\ Sequences
BY DEF TypeOK, Scalars, Sequences

(* The queue stays within its capacity, and holds chunks and end markers. *)
LEMMA SequencesKept ==
  ASSUME Scalars, Sequences, ReaderInv, OrderInv, Next
  PROVE  Sequences'
<1> USE StreamAssumption
<1>1. <<>> \in Seq(Chunks \cup {EOF}) /\ <<>> \in Seq(Chunks) /\ Len(<<>>) <= Depth
  BY EmptySeq
<1>2. CASE Begin
  <2>1. CASE NoAttempt
    BY <2>1 DEF NoAttempt, Sequences
  <2>2. CASE NewAttempt
    BY <1>1, <2>2 DEF NewAttempt, Sequences
  <2>. QED
    BY <1>2, <2>1, <2>2, BeginCases
<1>3. CASE queue' = queue /\ decoded' = decoded
  BY <1>3 DEF Sequences
<1>4. CASE FeedDirect
  <2>1. read \in Chunks
    BY <1>4 DEF FeedDirect, Scalars, ReaderInv, Chunks
  <2>. QED
    BY <1>4, <2>1, AppendProperties DEF FeedDirect, Sequences
<1>5. CASE WorkerFeed
  BY <1>5, AppendProperties DEF WorkerFeed, Sequences, OrderInv
<1>6. ASSUME NEW x \in Chunks \cup {EOF}, Len(queue) < Depth, queue' = Append(queue, x),
             decoded' = decoded
      PROVE  Sequences'
  BY <1>6, AppendProperties, LenProperties DEF Sequences
<1>7. CASE Put
  <2>1. read \in Chunks \cup {EOF}
    BY DEF Scalars, Chunks, EOF
  <2>. QED
    BY <1>6, <1>7, <2>1 DEF Put
<1>8. CASE PutEof
  BY <1>6, <1>8 DEF PutEof
<1>9. ASSUME queue # <<>>, queue' = Tail(queue), decoded' = decoded
      PROVE  Sequences'
  BY <1>9, HeadTailProperties, LenProperties DEF Sequences
<1>10. CASE Drain
  <2>1. <<EOF>> \in Seq(Chunks \cup {EOF}) /\ Len(<<EOF>>) = 1
    OBVIOUS
  <2>2. decoded' = decoded
    BY <1>10 DEF Drain
  <2>3. queue' = <<EOF>> => Sequences'
    BY <2>1, <2>2 DEF Sequences
  <2>. QED
    BY <1>9, <1>10, <2>2, <2>3 DEF Drain
<1>11. CASE WorkerGet
  BY <1>9, <1>11 DEF WorkerGet
<1>12. CASE WorkerDrain
  BY <1>3, <1>9, <1>12 DEF WorkerDrain
<1>. QED
  BY <1>2, <1>3, <1>4, <1>5, <1>7, <1>8, <1>10, <1>11, <1>12
     DEF Next, ReaderStep, WorkerStep, Read, Feed, PutTimeout, Finish, Join, DecoderFinish, Failed,
         Abort, AbortJoin, Close, WorkerTest, WorkerFails, OrphanEnds, RequestCancel, pipe

(* Everything else keeps its type. *)
LEMMA ScalarsKept ==
  ASSUME Scalars, Sequences, ReaderInv, WorkerInv, Next
  PROVE  Scalars'
<1> USE StreamAssumption DEF Scalars, Errors, reader, pipe
<1>1. CASE Begin
  <2>1. CASE NoAttempt
    BY <2>1 DEF NoAttempt
  <2>2. CASE NewAttempt
    <3>1. attempt' \in 0..Attempts
      BY <1>1, <2>2, BeginCases DEF NewAttempt, ReaderInv
    <3>2. read' \in 0..N
      BY <2>2 DEF NewAttempt
    <3>. QED
      BY <2>2, <3>1, <3>2 DEF NewAttempt
  <2>. QED
    BY <1>1, <2>1, <2>2, BeginCases
<1>2. CASE Read
  BY <1>2 DEF Read, Go, Raise
<1>3. CASE FeedDirect
  BY <1>3 DEF FeedDirect, Go, Raise
<1>4. CASE Feed
  BY <1>4 DEF Feed, Go, Raise, CheckThen, ReaderInv, Delivering
<1>5. CASE Put
  BY <1>5 DEF Put, Go
<1>6. CASE PutTimeout
  BY <1>6 DEF PutTimeout, Go, Raise, CheckThen, ReaderInv, Delivering
<1>7. CASE Finish
  BY <1>7 DEF Finish, Go, Raise, CheckThen, ReaderInv, Delivering
<1>8. CASE PutEof
  BY <1>8 DEF PutEof, Go
<1>9. CASE Join
  BY <1>9 DEF Join, Go, Raise, CheckThen, ReaderInv, Delivering
<1>10. CASE DecoderFinish
  BY <1>10 DEF DecoderFinish, Go, Raise
<1>11. CASE Failed
  BY <1>11 DEF Failed, Go
<1>12. CASE Abort
  BY <1>12 DEF Abort, Go
<1>13. CASE Drain
  BY <1>13 DEF Drain, Go
<1>14. CASE AbortJoin
  BY <1>14 DEF AbortJoin, Go, ReaderInv
<1>15. CASE Close
  <2>1. pc' \in {"begin", "end"} /\ outcome' \in {"running", "copied", "cancelled", "failed"}
    BY <1>15 DEF Close
  <2>2. /\ flying' = "none" /\ open' = FALSE
        /\ UNCHANGED <<pipelined, attempt, read, status, orphans, pipe, cancel>>
    BY <1>15 DEF Close
  <2>3. flying' \in Errors \cup {"none", "cancel"} /\ open' \in BOOLEAN
    BY <2>2
  <2>4. UNCHANGED <<pipelined, attempt, read, status, orphans, worker, hand, error, stop, cancel>>
    BY <2>2
  <2>. QED
    BY <2>1, <2>3, <2>4
<1>16. CASE WorkerTest
  BY <1>16 DEF WorkerTest
<1>17. CASE WorkerGet
  <2>1. Head(queue) \in Chunks \cup {EOF}
    BY <1>17, HeadTailProperties DEF WorkerGet, Sequences
  <2>. QED
    BY <1>17, <2>1 DEF WorkerGet
<1>18. CASE WorkerFeed
  BY <1>18 DEF WorkerFeed
<1>19. CASE WorkerFails
  BY <1>19 DEF WorkerFails
<1>20. CASE WorkerDrain
  BY <1>20 DEF WorkerDrain
<1>21. CASE OrphanEnds
  BY <1>21 DEF OrphanEnds
<1>22. CASE RequestCancel
  BY <1>22 DEF RequestCancel
<1>. QED
  BY <1>1, <1>2, <1>3, <1>4, <1>5, <1>6, <1>7, <1>8, <1>9, <1>10, <1>11, <1>12, <1>13, <1>14,
     <1>15, <1>16, <1>17, <1>18, <1>19, <1>20, <1>21, <1>22
     DEF Next, ReaderStep, WorkerStep

(* Every step keeps what is said of the reader ... *)
LEMMA ReaderKept ==
  ASSUME TypeOK, ReaderInv, WorkerInv, Next
  PROVE  ReaderInv'
<1> USE StreamAssumption DEF TypeOK, ReaderInv, WorkerInv, reader, pipe, Errors, Delivering
<1>1. CASE Begin
  BY <1>1 DEF Begin, Go, Leave
<1>2. CASE Read
  BY <1>2 DEF Read, Go, Raise
<1>3. CASE FeedDirect
  BY <1>3 DEF FeedDirect, Go, Raise
<1>4. CASE Feed
  BY <1>4 DEF Feed, CheckThen, Go, Raise
<1>5. CASE Put
  BY <1>5 DEF Put, Go
<1>6. CASE PutTimeout
  BY <1>6 DEF PutTimeout, Raise
<1>7. CASE Finish
  BY <1>7 DEF Finish, Go, CheckThen, Raise
<1>8. CASE PutEof
  BY <1>8 DEF PutEof, Go
<1>9. CASE Join
  BY <1>9 DEF Join, CheckThen, Go, Raise
<1>10. CASE DecoderFinish
  BY <1>10 DEF DecoderFinish, Go, Raise
<1>11. CASE Failed
  BY <1>11 DEF Failed, Go
<1>12. CASE Abort
  BY <1>12 DEF Abort, Go
<1>13. CASE Drain
  BY <1>13 DEF Drain, Go
<1>14. CASE AbortJoin
  BY <1>14 DEF AbortJoin, Go
<1>15. CASE Close
  BY <1>15 DEF Close
<1>16. CASE WorkerTest
  BY <1>16 DEF WorkerTest
<1>17. CASE WorkerGet
  BY <1>17 DEF WorkerGet
<1>18. CASE WorkerFeed
  BY <1>18 DEF WorkerFeed
<1>19. CASE WorkerFails
  BY <1>19 DEF WorkerFails
<1>20. CASE WorkerDrain
  BY <1>20 DEF WorkerDrain
<1>21. CASE OrphanEnds
  BY <1>21 DEF OrphanEnds
<1>22. CASE RequestCancel
  BY <1>22 DEF RequestCancel
<1>. QED
  BY <1>1, <1>2, <1>3, <1>4, <1>5, <1>6, <1>7, <1>8, <1>9, <1>10, <1>11, <1>12, <1>13, <1>14,
     <1>15, <1>16, <1>17, <1>18, <1>19, <1>20, <1>21, <1>22
     DEF Next, ReaderStep, WorkerStep

(* ... of the worker and the attempts it is left over from ... *)
LEMMA WorkerKept ==
  ASSUME TypeOK, ReaderInv, WorkerInv, Next
  PROVE  WorkerInv'
<1> USE StreamAssumption DEF TypeOK, ReaderInv, WorkerInv, reader, pipe, Errors, Delivering
<1>1. CASE Begin
  <2>1. CASE NoAttempt
    BY <1>1, <2>1, BeginCases DEF NoAttempt
  <2>2. CASE NewAttempt
    <3>1. attempt' = attempt + 1 /\ attempt' \notin orphans /\ orphans \subseteq 1..attempt'
      BY <2>2 DEF NewAttempt
    <3>. QED
      BY <1>1, <2>2, <3>1 DEF NewAttempt
  <2>. QED
    BY <1>1, <2>1, <2>2, BeginCases
<1>2. CASE Read
  BY <1>2 DEF Read, Go, Raise
<1>3. CASE FeedDirect
  BY <1>3 DEF FeedDirect, Go, Raise
<1>4. CASE Feed
  BY <1>4 DEF Feed, CheckThen, Go, Raise
<1>5. CASE Put
  BY <1>5 DEF Put, Go
<1>6. CASE PutTimeout
  BY <1>6 DEF PutTimeout, Raise
<1>7. CASE Finish
  BY <1>7 DEF Finish, Go, CheckThen, Raise
<1>8. CASE PutEof
  BY <1>8 DEF PutEof, Go
<1>9. CASE Join
  BY <1>9 DEF Join, CheckThen, Go, Raise
<1>10. CASE DecoderFinish
  BY <1>10 DEF DecoderFinish, Go, Raise
<1>11. CASE Failed
  BY <1>11 DEF Failed, Go
<1>12. CASE Abort
  BY <1>12 DEF Abort, Go
<1>13. CASE Drain
  BY <1>13 DEF Drain, Go
<1>14. CASE AbortJoin
  BY <1>14 DEF AbortJoin, Go
<1>15. CASE Close
  BY <1>15 DEF Close
<1>16. CASE WorkerTest
  BY <1>16 DEF WorkerTest
<1>17. CASE WorkerGet
  BY <1>17 DEF WorkerGet
<1>18. CASE WorkerFeed
  BY <1>18 DEF WorkerFeed
<1>19. CASE WorkerFails
  BY <1>19 DEF WorkerFails
<1>20. CASE WorkerDrain
  BY <1>20 DEF WorkerDrain
<1>21. CASE OrphanEnds
  BY <1>21 DEF OrphanEnds
<1>22. CASE RequestCancel
  BY <1>22 DEF RequestCancel
<1>. QED
  BY <1>1, <1>2, <1>3, <1>4, <1>5, <1>6, <1>7, <1>8, <1>9, <1>10, <1>11, <1>12, <1>13, <1>14,
     <1>15, <1>16, <1>17, <1>18, <1>19, <1>20, <1>21, <1>22
     DEF Next, ReaderStep, WorkerStep

(* The reader adds the next chunk behind the queue ... *)
LEMMA PutHandsOver ==
  ASSUME Sequences, HandOver, Put
  PROVE  HandOver'
<1> DEFINE n == Len(queue)
<1>1. n \in Nat /\ TakenUp \in Nat
  BY LenProperties DEF Sequences, TakenUp
<1>2. pc = "put" /\ read = TakenUp + n + 1 /\ pc' \in {"read", "put"} /\ pc' = "read"
  BY DEF Put, Go, HandOver
<1>3. read' = read /\ worker' = worker /\ hand' = hand /\ decoded' = decoded
  BY DEF Put, reader
<1>4. TakenUp' = TakenUp
  BY <1>3 DEF TakenUp
<1>5. Len(queue') = n + 1 /\ \A i \in 1..(n + 1) : queue'[i] = IF i <= n THEN queue[i] ELSE read
  <2>1. read \in Nat
    BY <1>1, <1>2
  <2>. QED
    BY <1>1, <2>1, AppendProperties DEF Put, Sequences
<1>6. \A i \in 1..n : queue[i] = TakenUp + i
  BY <1>2 DEF HandOver
<1>7. \A i \in 1..(n + 1) : queue'[i] = TakenUp + i
  BY <1>1, <1>2, <1>5, <1>6
<1>8. read' = TakenUp' + Len(queue')
  BY <1>1, <1>2, <1>3, <1>4, <1>5
<1>9. worker' = "feed" => hand' = Len(decoded') + 1
  BY <1>3 DEF HandOver
<1>. QED
  BY <1>2, <1>4, <1>5, <1>7, <1>8, <1>9 DEF HandOver

(* ... and the worker takes the one in front. *)
LEMMA GetHandsOver ==
  ASSUME Sequences, HandOver, WorkerGet, worker' = "feed"
  PROVE  HandOver'
<1> DEFINE n == Len(queue)
<1>1. n \in Nat \ {0} /\ Len(decoded) \in Nat
  BY EmptySeq, LenProperties DEF Sequences, WorkerGet
<1>2. Len(queue') = n - 1 /\ \A i \in 1..(n - 1) : queue'[i] = queue[i + 1]
  BY HeadTailProperties DEF Sequences, WorkerGet
<1>3. Head(queue) = queue[1] /\ hand' = queue[1] /\ queue[1] # EOF /\ worker = "get"
  BY DEF WorkerGet
<1>4. pc' = pc /\ read' = read /\ decoded' = decoded
  BY DEF WorkerGet, reader
<1>5. TakenUp = Len(decoded) /\ TakenUp' = Len(decoded) + 1
  BY <1>1, <1>3, <1>4 DEF TakenUp
<1>6. queue[1] = TakenUp + 1
  BY <1>1, <1>3 DEF HandOver
<1>7. ASSUME NEW i \in 1..(n - 1)
      PROVE  queue'[i] = TakenUp' + i \/ (pc' = "join" /\ i = n - 1 /\ queue'[i] = EOF)
  <2>1. i + 1 \in 1..n /\ queue'[i] = queue[i + 1]
    BY <1>1, <1>2
  <2>2. queue[i + 1] = TakenUp + (i + 1) \/ (pc = "join" /\ i + 1 = n /\ queue[i + 1] = EOF)
    BY <2>1 DEF HandOver
  <2>. QED
    BY <1>1, <1>4, <1>5, <2>1, <2>2
<1>8. TakenUp' + Len(queue') = TakenUp + n
  BY <1>1, <1>2, <1>5
<1>9. hand' = Len(decoded') + 1
  BY <1>3, <1>4, <1>5, <1>6
<1>. QED
  BY <1>1, <1>2, <1>4, <1>7, <1>8, <1>9 DEF HandOver

(* ... and of the chunks between them. *)
LEMMA ChunksKept ==
  ASSUME StreamInv, Next
  PROVE  ChunksInv'
<1> USE StreamAssumption DEF StreamInv, TypeOK, ReaderInv, WorkerInv, ChunksInv, OrderInv,
            HandOver, Direct, TakenUp, reader, pipe, Errors, EOF, Chunks, Delivering
<1>1. CASE Begin
  BY <1>1 DEF Begin, Go, Leave
<1>2. CASE Read
  BY <1>2 DEF Read, Go, Raise
<1>3. CASE FeedDirect
  <2>1. /\ Len(decoded) \in Nat /\ read = Len(decoded) + 1 /\ worker = "none" /\ ~stop
        /\ \A k \in 1..Len(decoded) : decoded[k] = k
    BY <1>3, LenProperties DEF FeedDirect
  <2>2. CASE decoded' = Append(decoded, read) /\ Go("read")
    <3>1. Len(decoded') = Len(decoded) + 1 /\ \A k \in 1..Len(decoded') : decoded'[k] = k
      BY <2>1, <2>2, AppendProperties
    <3>. QED
      BY <1>3, <2>1, <2>2, <3>1 DEF FeedDirect, Go
  <2>3. CASE \E e \in Errors : Raise(e) /\ UNCHANGED decoded
    BY <1>3, <2>1, <2>3 DEF FeedDirect, Raise
  <2>. QED
    BY <1>3, <2>2, <2>3 DEF FeedDirect
<1>4. CASE Feed
  BY <1>4 DEF Feed, CheckThen, Go, Raise
<1>5. CASE Put
  <2>1. OrderInv' /\ (~pipelined => Direct)'
    BY <1>5 DEF Put, Go
  <2>2. (~stop /\ worker \in {"test", "get", "feed"}) => HandOver'
    BY <1>5, PutHandsOver, Parts
  <2>. QED
    BY <1>5, <2>1, <2>2 DEF Put
<1>6. CASE PutTimeout
  BY <1>6 DEF PutTimeout, Raise
<1>7. CASE Finish
  BY <1>7 DEF Finish, Go, CheckThen, Raise
<1>8. CASE PutEof
  BY <1>8 DEF PutEof, Go
<1>9. CASE Join
  BY <1>9 DEF Join, CheckThen, Go, Raise
<1>10. CASE DecoderFinish
  BY <1>10 DEF DecoderFinish, Go, Raise
<1>11. CASE Failed
  BY <1>11 DEF Failed, Go
<1>12. CASE Abort
  BY <1>12 DEF Abort, Go
<1>13. CASE Drain
  BY <1>13 DEF Drain, Go
<1>14. CASE AbortJoin
  BY <1>14 DEF AbortJoin, Go
<1>15. CASE Close
  BY <1>15 DEF Close
<1>16. CASE WorkerTest
  BY <1>16 DEF WorkerTest
<1>17. CASE WorkerGet
  <2>1. Head(queue) \in Chunks \cup {EOF}
    BY <1>17, HeadTailProperties DEF WorkerGet
  <2>2. OrderInv' /\ (~pipelined => Direct)'
    BY <1>17, <2>1 DEF WorkerGet
  <2>3. (~stop /\ worker' = "feed") => HandOver'
    BY <1>17, GetHandsOver, Parts DEF WorkerGet
  <2>. QED
    BY <1>17, <2>2, <2>3 DEF WorkerGet
<1>18. CASE WorkerFeed
  BY <1>18 DEF WorkerFeed
<1>19. CASE WorkerFails
  BY <1>19 DEF WorkerFails
<1>20. CASE WorkerDrain
  BY <1>20 DEF WorkerDrain
<1>21. CASE OrphanEnds
  BY <1>21 DEF OrphanEnds
<1>22. CASE RequestCancel
  BY <1>22 DEF RequestCancel
<1>. QED
  BY <1>1, <1>2, <1>3, <1>4, <1>5, <1>6, <1>7, <1>8, <1>9, <1>10, <1>11, <1>12, <1>13, <1>14,
     <1>15, <1>16, <1>17, <1>18, <1>19, <1>20, <1>21, <1>22
     DEF Next, ReaderStep, WorkerStep

(***************************************************************************)
(* StreamInv holds at the start and is kept by every step.                 *)
(***************************************************************************)
LEMMA StreamInvInit ==
  ASSUME Init
  PROVE  StreamInv
<1>1. Scalars
  <2>1. open \in BOOLEAN /\ stop \in BOOLEAN /\ cancel \in BOOLEAN
    BY DEF Init
  <2>2. attempt \in 0..Attempts /\ read \in 0..N
    BY StreamAssumption DEF Init
  <2>. QED
    BY <2>1, <2>2 DEF Init, Scalars, Errors, EOF
<1>2. Sequences
  BY StreamAssumption, EmptySeq DEF Init, Sequences
<1>3. ReaderInv /\ WorkerInv
  BY StreamAssumption DEF Init, ReaderInv, WorkerInv, Delivering
<1>4. ChunksInv
  BY EmptySeq DEF Init, ChunksInv, OrderInv, Direct
<1>. QED
  BY <1>1, <1>2, <1>3, <1>4, Parts DEF StreamInv

(* Every step of either thread keeps it. *)
LEMMA StreamInvKept ==
  ASSUME StreamInv, [Next]_vars
  PROVE  StreamInv'
<1>1. CASE Next
  <2>1. TypeOK'
    <3>1. Scalars /\ Sequences /\ ReaderInv /\ WorkerInv /\ OrderInv
      BY Parts DEF StreamInv, ChunksInv
    <3>2. Scalars' /\ Sequences'
      BY <1>1, <3>1, SequencesKept, ScalarsKept
    <3>. QED
      BY <3>2 DEF TypeOK, Scalars, Sequences
  <2>. QED
    BY <1>1, <2>1, ReaderKept, WorkerKept, ChunksKept DEF StreamInv
<1>2. CASE UNCHANGED vars
  BY <1>2 DEF vars, reader, pipe, StreamInv, TypeOK, ReaderInv, WorkerInv, ChunksInv, OrderInv,
              HandOver, TakenUp, Direct
<1>. QED
  BY <1>1, <1>2

(* The invariant that the theorems rest on *)
THEOREM StreamInvariant == Spec => []StreamInv
<1>1. Init => StreamInv
  BY StreamInvInit
<1>2. StreamInv /\ [Next]_vars => StreamInv'
  BY StreamInvKept
<1>. QED
  BY <1>1, <1>2, PTL DEF Spec

(* Between the queue, its timeouts, its drain and its end marker no chunk  *)
(* is lost, repeated or overtaken on its way to the decoder; and when the  *)
(* file descriptor is closed the worker has ended, or is in the one write  *)
(* that outlasted the wait of abort.                                       *)
THEOREM StreamInOrder == Spec => []StreamKeepsOrder
<1>1. StreamInv => DecodedInOrder
  BY LenProperties DEF StreamInv, TypeOK, ReaderInv, ChunksInv, OrderInv, DecodedInOrder
<1>2. StreamInv => ClosedAfterWorker
  BY DEF StreamInv, TypeOK, ReaderInv, WorkerInv, ClosedAfterWorker
<1>3. StreamInv => StreamKeepsOrder
  BY <1>1, <1>2 DEF StreamInv, StreamKeepsOrder
<1>. QED
  BY <1>3, StreamInvariant, PTL

(***************************************************************************)
(* Every step of the stream is a step of DiskCopy, or none.                *)
(***************************************************************************)
Written == {decoded[k] : k \in 1..Len(decoded)}

(* A chunk that is decoded is written, and what was written stays. *)
LEMMA DecodedIsWritten ==
  ASSUME NEW x \in Chunks, decoded \in Seq(Chunks), decoded' = Append(decoded, x)
  PROVE  Written' \in SUBSET Chunks /\ Written \subseteq Written'
<1>1. Len(decoded') = Len(decoded) + 1 /\ Len(decoded) \in Nat /\ decoded' \in Seq(Chunks)
  BY AppendProperties, LenProperties
<1>2. \A k \in 1..Len(decoded) : decoded'[k] = decoded[k]
  BY <1>1, AppendProperties
<1>3. \A k \in 1..Len(decoded') : decoded'[k] \in Chunks
  BY <1>1, ElementOfSeq
<1>. QED
  BY <1>1, <1>2, <1>3 DEF Written

(* All chunks in order are the whole stream. *)
LEMMA AllIsWritten ==
  ASSUME Len(decoded) = N, \A k \in 1..Len(decoded) : decoded[k] = k
  PROVE  Written = Chunks
BY DEF Written, Chunks

(* A chunk decoded is a Write, the end of the decoder a Copied, the rest stutters. *)
LEMMA StreamStep ==
  ASSUME StreamInv, [Next]_vars
  PROVE  [Copy!Next]_(Copy!vars)
<1> USE DEF Copy!Next, Copy!vars, Written
<1>1. UNCHANGED <<decoded, status>> => UNCHANGED <<Written, status>>
  BY DEF Written
<1>2. CASE Begin
  <2>1. CASE NoAttempt
    BY <1>1, <2>1 DEF NoAttempt
  <2>2. CASE NewAttempt
    <3>1. Written' = {}
      BY <2>2 DEF NewAttempt
    <3>. QED
      BY <1>2, <2>2, <3>1, BeginCases DEF NewAttempt, Copy!Begin, StreamInv, ReaderInv
  <2>. QED
    BY <1>2, <2>1, <2>2, BeginCases
<1>3. ASSUME NEW x \in Chunks, decoded' = Append(decoded, x), status' = status, status # "COPIED"
      PROVE  Copy!Write
  BY <1>3, DecodedIsWritten DEF Copy!Write, StreamInv, TypeOK
<1>4. CASE FeedDirect
  <2>1. read \in Chunks /\ status # "COPIED"
    BY <1>4 DEF FeedDirect, StreamInv, TypeOK, ReaderInv, Chunks, Delivering
  <2>. QED
    BY <1>1, <1>3, <1>4, <2>1 DEF FeedDirect, reader
<1>5. CASE WorkerFeed
  <2>1. hand \in Chunks /\ status # "COPIED"
    BY <1>5 DEF WorkerFeed, StreamInv, ReaderInv, WorkerInv, ChunksInv, OrderInv
  <2>. QED
    BY <1>3, <1>5, <2>1 DEF WorkerFeed, reader
<1>6. CASE DecoderFinish
  <2>1. CASE Len(decoded) = N
    <3>1. status = "COPYING" /\ ~stop
      BY <1>6 DEF DecoderFinish, StreamInv, ReaderInv, WorkerInv, Delivering
    <3>2. Written = Chunks
      BY <2>1, <3>1, AllIsWritten DEF StreamInv, ChunksInv, OrderInv
    <3>. QED
      BY <1>6, <2>1, <3>1, <3>2 DEF DecoderFinish, Copy!Copied, pipe
  <2>2. CASE Len(decoded) # N
    BY <1>1, <1>6, <2>2 DEF DecoderFinish, pipe
  <2>. QED
    BY <2>1, <2>2
<1>7. CASE Failed
  <2>1. status = "COPYING" /\ decoded' = decoded
    BY <1>7 DEF Failed, StreamInv, ReaderInv, pipe
  <2>2. status' = status \/ status' = "FAILED"
    BY <1>7 DEF Failed
  <2>. QED
    BY <1>1, <2>1, <2>2 DEF Copy!Failed
<1>8. CASE UNCHANGED <<decoded, status>>
  BY <1>1, <1>8
<1>. QED
  BY <1>2, <1>4, <1>5, <1>6, <1>7, <1>8
     DEF vars, Next, ReaderStep, WorkerStep, Read, Feed, Put, PutTimeout, Finish, PutEof, Join,
         Abort, Drain, AbortJoin, Close, WorkerTest, WorkerGet, WorkerFails, WorkerDrain,
         OrphanEnds, RequestCancel, pipe, reader

(* A disk whose stream is decoded, beside the download or not, is COPIED   *)
(* only after all of it was written, and never written to afterwards.      *)
THEOREM StreamImplemented == Spec => StreamImplementsDiskCopy
<1>1. Init => Copy!Init
  BY EmptySeq DEF Init, Copy!Init
<1>2. StreamInv /\ [Next]_vars => [Copy!Next]_(Copy!vars)
  BY StreamStep
<1>. QED
  BY <1>1, <1>2, StreamInvariant, PTL DEF Spec, StreamImplementsDiskCopy, Copy!Spec

-----------------------------------------------------------------------------
(* The uploads.  e is the one export. *)
LEMMA UploadStarts == Upload!Init => Upload!UploadInv
BY ObjectAssumption
   DEF Upload!Init, Upload!UploadInv, Upload!UploadSound, Upload!TypeOK, Upload!Places, Upload!Part,
       Upload!Working, Upload!Sent

(* An upload that is made, and a part that is added to the list *)
LEMMA IdsGrow ==
  ASSUME NEW n \in Nat, NEW s \in Seq(1..n)
  PROVE  s \in Seq(1..(n + 1))
OBVIOUS

(* Every step of an export keeps what is known of its upload. *)
LEMMA UploadKept ==
  ASSUME Upload!UploadInv, Upload!Next
  PROVE  Upload!UploadInv'
<1> DEFINE e == Exporter
<1>n. NumParts \in Nat \ {0} /\ UploadFaults \in Nat
  BY ObjectAssumption
<1> USE <1>n
<1>0. /\ Upload!TypeOK /\ x9 \in Nat /\ Upload!UploadSound(e)
  BY DEF Upload!UploadInv
<1>a. /\ DOMAIN x1 = {e} /\ DOMAIN x2 = {e} /\ DOMAIN x3 = {e} /\ DOMAIN x4 = {e} /\ DOMAIN x6 = {e}
      /\ DOMAIN x10 = {e} /\ x11 \in 0..UploadFaults /\ x8 \subseteq 1..x9
      /\ x4[e] \in Seq(1..x9) /\ x2[e] \in 0..NumParts /\ x3[e] \in 0..x9 /\ x6[e] \in SUBSET {e} /\ x9 \in Nat
      /\ x10[e] \in SUBSET (1..NumParts) /\ x1[e] \in Upload!Places
      /\ x5 \subseteq {e} /\ x7 \subseteq {e}
  BY <1>0 DEF Upload!TypeOK, Upload!Part
<1> SUFFICES Upload!TypeOK' /\ (x9 \in Nat)' /\ Upload!UploadSound(e)'
  BY DEF Upload!UploadInv
<1> USE DEF Upload!UploadSound, Upload!Working, Upload!Goto, Upload!Sent, Upload!Part, Upload!Full,
   Upload!Fail
<1>1. CASE Upload!Write(e)
  <2>2. /\ x1'[e] \in {"failing", "close", "upload", "write"} /\ x1[e] = "write"
        /\ x1'[e] = "failing" => x2'[e] = x2[e]
        /\ x1'[e] = "close" => x2'[e] = x2[e] /\ x2[e] = NumParts
        /\ x1'[e] = "upload" => x2'[e] = x2[e] + 1 /\ x2[e] + 1 < NumParts
        /\ x1'[e] = "write" => x2'[e] = NumParts /\ x2[e] + 1 = NumParts
    <3>1. CASE x1' = [x1 EXCEPT ![e] = "failing"] /\ x2' = x2
      BY <1>1, <1>a, <3>1 DEF Upload!Write
    <3>2. CASE x2[e] = NumParts /\ x1' = [x1 EXCEPT ![e] = "close"] /\ x2' = x2
      BY <1>1, <1>a, <3>2 DEF Upload!Write
    <3>3. CASE /\ x2[e] # NumParts /\ x2' = [x2 EXCEPT ![e] = x2[e] + 1]
               /\ x1' = [x1 EXCEPT ![e] = IF x2[e] + 1 \in Upload!Full THEN "upload" ELSE "write"]
      <4>1. x2[e] + 1 \in Upload!Full <=> x2[e] + 1 < NumParts
        BY <1>a
      <4>2. ~(x2[e] + 1 < NumParts) => x2[e] + 1 = NumParts
        BY <1>a, <3>3
      <4>3. x2'[e] = x2[e] + 1 /\ x1'[e] = IF x2[e] + 1 \in Upload!Full THEN "upload" ELSE "write"
        BY <1>a, <3>3
      <4>4. x1[e] = "write"
        BY <1>1 DEF Upload!Write
      <4> QED BY <4>1, <4>2, <4>3, <4>4
    <3> QED BY <1>1, <3>1, <3>2, <3>3 DEF Upload!Write
  <2>3. UNCHANGED <<x3, x4, x5, x6, x7, x8, x9, x10, x11>>
    BY <1>1 DEF Upload!Write
  <2>4. x1' = [x1 EXCEPT ![e] = x1'[e]] /\ x2' = [x2 EXCEPT ![e] = x2'[e]] /\ x2'[e] \in {x2[e], NumParts, x2[e] + 1}
    BY <1>0, <1>1, <1>a, <2>2 DEF Upload!Write, Upload!TypeOK
  <2>5. x1'[e] \in Upload!Places /\ x2'[e] \in 0..NumParts
    BY <1>a, <2>2, <2>4 DEF Upload!Places
  <2>6. x1' \in [{e} -> Upload!Places] /\ x2' \in [{e} -> 0..NumParts]
    BY <1>0, <2>4, <2>5 DEF Upload!TypeOK
  <2>1. Upload!TypeOK'
    BY <1>0, <2>3, <2>6 DEF Upload!TypeOK
  <2>7. CASE x1'[e] \in {"failing", "close"}
    BY <1>0, <1>a, <2>1, <2>2, <2>3, <2>7
  <2>8. CASE x1'[e] \in {"upload", "write"}
    BY <1>0, <1>a, <2>1, <2>2, <2>3, <2>8
  <2> QED BY <2>2, <2>7, <2>8
<1>2. CASE Upload!EnsureUpload(e)
  <2>a. x9' \in {x9, x9 + 1} /\ x8' \subseteq 1..x9' /\ x11' \in 0..UploadFaults
        /\ x1' \in [{e} -> Upload!Places] /\ x3' \in [{e} -> 0..x9']
        /\ UNCHANGED <<x2, x4, x5, x6, x7, x10>>
    <3>1. CASE x3[e] # 0
      BY <1>0, <1>2, <1>a, <3>1 DEF Upload!EnsureUpload, Upload!Places, Upload!TypeOK
    <3>2. CASE x3[e] = 0 /\ x1'[e] = "flush"
      BY <1>0, <1>2, <1>a, <3>2 DEF Upload!EnsureUpload, Upload!Places, Upload!TypeOK
    <3>3. CASE x3[e] = 0 /\ x1'[e] = "failing"
      BY <1>0, <1>2, <1>a, <3>3 DEF Upload!EnsureUpload, Upload!Places, Upload!TypeOK
    <3> QED BY <1>2, <1>a, <3>1, <3>2, <3>3 DEF Upload!EnsureUpload
  <2>b. x4[e] \in Seq(1..x9')
    BY <1>a, <2>a, IdsGrow
  <2>c. x4' \in [{e} -> Seq(1..x9')]
    BY <1>0, <2>a, <2>b DEF Upload!TypeOK
  <2>1. Upload!TypeOK'
    BY <1>0, <2>a, <2>c DEF Upload!TypeOK
  <2>2. CASE x3[e] # 0
    BY <1>0, <1>2, <1>a, <2>1, <2>2 DEF Upload!EnsureUpload
  <2>3. CASE x3[e] = 0 /\ x1'[e] = "flush"
    BY <1>0, <1>2, <1>a, <2>1, <2>3 DEF Upload!EnsureUpload
  <2>4. CASE x3[e] = 0 /\ x1'[e] = "failing"
    BY <1>0, <1>2, <1>a, <2>1, <2>4 DEF Upload!EnsureUpload
  <2> QED BY <1>2, <1>a, <2>2, <2>3, <2>4 DEF Upload!EnsureUpload
<1>3. CASE Upload!FlushPart(e)
  <2>1. /\ UNCHANGED <<x2, x3, x5, x6, x7, x8, x9, x10>> /\ x1[e] = "flush"
        /\ x1' = [x1 EXCEPT ![e] = x1'[e]] /\ x4' = [x4 EXCEPT ![e] = x4'[e]]
    BY <1>0, <1>3, <1>a DEF Upload!FlushPart, Upload!TypeOK
  <2>2. CASE x4'[e] = Append(x4[e], x3[e]) /\ x11' = x11
             /\ x1'[e] = IF x2[e] = NumParts THEN "commit" ELSE "write"
    <3>1. Len(x4'[e]) = Len(x4[e]) + 1 /\ x4'[e] \in Seq(1..x9)
          /\ \A i \in 1..Len(x4'[e]) : x4'[e][i] = x3[e]
      BY <1>0, <1>a, <2>1, <2>2
    <3>2. x1'[e] \in {"commit", "write"} /\ x11' = x11
      BY <2>2
    <3>3. x4' \in [{e} -> Seq(1..x9)]
      BY <1>a, <2>1, <3>1
    <3>4. x1' \in [{e} -> Upload!Places]
      BY <1>a, <2>1, <3>2 DEF Upload!Places
    <3>5. Upload!TypeOK'
      BY <1>0, <2>1, <3>2, <3>3, <3>4 DEF Upload!TypeOK
    <3>6. Len(x4'[e]) = x2[e]
      BY <1>0, <1>a, <2>1, <3>1
    <3>7. x1'[e] = "commit" => x2[e] = NumParts
      BY <2>2
    <3>8. x1'[e] = "write" => x2[e] # NumParts
      BY <2>2
    <3> QED BY <1>0, <1>a, <2>1, <3>1, <3>2, <3>5, <3>6, <3>7, <3>8
  <2>3. CASE x4' = x4 /\ x1'[e] = "failing" /\ x11' = x11 + 1 /\ x11 < UploadFaults
    <3>1. Upload!TypeOK'
      BY <1>0, <1>a, <2>1, <2>3 DEF Upload!Places, Upload!TypeOK
    <3> QED BY <1>0, <1>a, <2>1, <2>3, <3>1
  <2>4. x3[e] \in x8
    BY <1>0, <1>a, <2>1
  <2> QED BY <1>3, <1>a, <2>2, <2>3, <2>4 DEF Upload!FlushPart
<1>4. CASE Upload!Close(e)
  <2>1. Upload!TypeOK'
    BY <1>0, <1>4, <1>a DEF Upload!Close, Upload!Places, Upload!TypeOK
  <2>2. /\ UNCHANGED <<x2, x3, x4, x5, x6, x7, x8, x9>> /\ x1[e] = "close" /\ x2[e] = NumParts
    BY <1>0, <1>4 DEF Upload!Close
  <2>3. CASE x1'[e] = "done"
    <3>1. NumParts = 1 /\ x10'[e] = (1..NumParts) \ (1..(NumParts - 1)) /\ x11' = x11 /\ x3[e] = 0
      BY <1>0, <1>4, <1>a, <2>2, <2>3 DEF Upload!Close
    <3> QED BY <1>0, <1>a, <2>1, <2>2, <2>3, <3>1
  <2>4. CASE x1'[e] # "done"
    BY <1>0, <1>4, <1>a, <2>1, <2>2, <2>4 DEF Upload!Close
  <2> QED BY <2>3, <2>4
<1>5. CASE Upload!Commit(e)
  <2>1. x1[e] = "commit" /\ UNCHANGED <<x2, x3, x4, x5, x6, x7,
     x9>> /\ x3[e] \in x8 /\ Len(x4[e]) = NumParts
    BY <1>0, <1>5 DEF Upload!Commit
  <2>2. CASE x10' = [x10 EXCEPT ![e] = DOMAIN x4[e]] /\ x8' = x8 \ {x3[e]} /\ x1' = [x1 EXCEPT ![e] = "done"]
             /\ x11' = x11
    <3>1. DOMAIN x4[e] = 1..NumParts
      BY <1>a, <2>1
    <3>2. Upload!TypeOK'
      BY <1>0, <2>1, <2>2, <3>1 DEF Upload!TypeOK, Upload!Places
    <3>3. x1'[e] = "done" /\ x10'[e] = 1..NumParts
      BY <1>a, <2>2, <3>1
    <3> QED BY <1>0, <1>a, <2>1, <2>2, <3>2, <3>3
  <2>3. CASE UNCHANGED <<x10, x8>> /\ x11' \in {x11,
     x11 + 1} /\ x11' <= UploadFaults /\ x1' = [x1 EXCEPT ![e] = "failing"]
    <3>1. Upload!TypeOK'
      BY <1>0, <1>a, <2>1, <2>3 DEF Upload!TypeOK, Upload!Places
    <3> QED BY <1>0, <1>a, <2>1, <2>3, <3>1
  <2> QED BY <1>5, <1>a, <2>2, <2>3 DEF Upload!Commit
<1>6. CASE Upload!GiveUp(e)
  <2>1. Upload!TypeOK'
    BY <1>0, <1>6, <1>a DEF Upload!GiveUp, Upload!Abort, Upload!Places, Upload!TypeOK
  <2>2. x1[e] = "failing" /\ x1'[e] = "cleanup" /\ x9' = x9
    BY <1>6, <1>a DEF Upload!GiveUp
  <2>3. ASSUME x11' = 0 PROVE x8' = {}
    BY <1>0, <1>6, <1>a, <2>2, <2>3 DEF Upload!GiveUp, Upload!Abort
  <2> QED BY <1>a, <2>1, <2>2, <2>3
<1>7. CASE Upload!CleanupAbort(e)
  <2>1. Upload!TypeOK'
    BY <1>0, <1>7, <1>a DEF Upload!CleanupAbort, Upload!Abort, Upload!TypeOK
  <2>2. x1[e] = "cleanup" /\ x1'[e] = "cleanup" /\ x9' = x9
    BY <1>7, <1>a DEF Upload!CleanupAbort
  <2>3. ASSUME x11' = 0 PROVE x8' = {}
    BY <1>0, <1>7, <1>a, <2>2, <2>3 DEF Upload!CleanupAbort, Upload!Abort
  <2> QED BY <1>a, <2>1, <2>2, <2>3
<1>8. CASE Upload!CleanupDone(e)
  BY <1>0, <1>8, <1>a DEF Upload!CleanupDone, Upload!Places, Upload!TypeOK
<1>9. CASE Upload!Done(e) \/ Upload!RequestCancel(e)
  BY <1>0, <1>9, <1>a DEF Upload!Done, Upload!RequestCancel, Upload!TypeOK
<1>. QED BY <1>1, <1>2, <1>3, <1>4, <1>5, <1>6, <1>7, <1>8, <1>9 DEF Upload!Next

(* What is known of an upload holds throughout an export of one migration. *)
LEMMA UploadHolds ==
  ASSUME Upload!UploadInv
  PROVE  Upload!TypeOK /\ Upload!ObjectIsWhole /\ Upload!NoUploadLeft
BY DEF Upload!UploadInv, Upload!UploadSound, Upload!TypeOK, Upload!ObjectIsWhole,
   Upload!NoUploadLeft, Upload!Working

-----------------------------------------------------------------------------
(* The libraries of images. *)

(* The libraries begin sound. *)
LEMMA LibraryStarts == Library!Init => Library!LibraryInv
BY ObjectAssumption
   DEF Library!Init, Library!LibraryInv, Library!TypeOK, Library!ImageSound, Library!ObjectSound,
       Library!CleanInv,
       Library!CleanSound, Library!Images, Library!Places, Library!Types, Library!None,
       Library!Chosen, Library!Idle, Library!Devices

(* What is set of an image *)
LEMMA SetState ==
  ASSUME Library!TypeOK, NEW k \in Jobs, NEW v \in {"AVAILABLE", "DELETED"}, Library!Set(k, "state", v)
  PROVE  /\ x3' \in [Jobs -> Library!Images] /\ \A i \in Jobs \ {k} : x3'[i] = x3[i]
         /\ x3'[k].state = v /\ x3'[k].mode = x3[k].mode /\ x3'[k].schema = x3[k].schema /\ x3'[k].shape = x3[k].shape
<1> DEFINE r == [x3[k] EXCEPT !["state"] = v]
<1>1. x3 \in [Jobs -> Library!Images] /\ x3' = [x3 EXCEPT ![k] = r]
  BY DEF Library!Set, Library!TypeOK
<1>2. x3[k] \in Library!Images
  BY <1>1
<1>3. r \in Library!Images
  BY <1>2 DEF Library!Images
<1>4. r.state = v /\ r.mode = x3[k].mode /\ r.schema = x3[k].schema /\ r.shape = x3[k].shape
  BY <1>2 DEF Library!Images
<1> HIDE DEF r
<1>5. x3'[k] = r
  BY <1>1
<1> QED BY <1>1, <1>3, <1>4, <1>5

(* What is set of an image leaves its other fields alone. *)
LEMMA SetSchema ==
  ASSUME Library!TypeOK, NEW k \in Jobs, NEW v \in Library!Types, Library!Set(k, "schema", v)
  PROVE  /\ x3' \in [Jobs -> Library!Images] /\ \A i \in Jobs \ {k} : x3'[i] = x3[i]
         /\ x3'[k].schema = v /\ x3'[k].mode = x3[k].mode /\ x3'[k].state = x3[k].state /\ x3'[k].shape = x3[k].shape
<1> DEFINE r == [x3[k] EXCEPT !["schema"] = v]
<1>1. x3 \in [Jobs -> Library!Images] /\ x3' = [x3 EXCEPT ![k] = r]
  BY DEF Library!Set, Library!TypeOK
<1>2. x3[k] \in Library!Images
  BY <1>1
<1>3. r \in Library!Images
  BY <1>2 DEF Library!Images
<1>4. r.schema = v /\ r.mode = x3[k].mode /\ r.state = x3[k].state /\ r.shape = x3[k].shape
  BY <1>2 DEF Library!Images
<1> HIDE DEF r
<1>5. x3'[k] = r
  BY <1>1
<1> QED BY <1>1, <1>3, <1>4, <1>5

(* The same for its shapes. *)
LEMMA SetShape ==
  ASSUME Library!TypeOK, NEW k \in Jobs, Library!Set(k, "shape", TRUE)
  PROVE  /\ x3' \in [Jobs -> Library!Images] /\ \A i \in Jobs \ {k} : x3'[i] = x3[i]
         /\ x3'[k].shape /\ x3'[k].mode = x3[k].mode /\ x3'[k].state = x3[k].state /\ x3'[k].schema = x3[k].schema
<1> DEFINE r == [x3[k] EXCEPT !["shape"] = TRUE]
<1>1. x3 \in [Jobs -> Library!Images] /\ x3' = [x3 EXCEPT ![k] = r]
  BY DEF Library!Set, Library!TypeOK
<1>2. x3[k] \in Library!Images
  BY <1>1
<1>3. r \in Library!Images
  BY <1>2 DEF Library!Images
<1>4. r.shape = TRUE /\ r.mode = x3[k].mode /\ r.state = x3[k].state /\ r.schema = x3[k].schema
  BY <1>2 DEF Library!Images
<1> HIDE DEF r
<1>5. x3'[k] = r
  BY <1>1
<1> QED BY <1>1, <1>3, <1>4, <1>5

(* A job moves on alone. *)
LEMMA LibMoves ==
  ASSUME Library!TypeOK, NEW j \in Jobs, NEW place \in Library!Places, Library!Goto(j, place)
  PROVE  x6' \in [Jobs -> Library!Places] /\ x6'[j] = place /\ \A k \in Jobs \ {j} : x6'[k] = x6[k]
BY DEF Library!TypeOK, Library!Goto

(* What a step of a job leaves of the others, of the images, and of what   *)
(* is known while nothing goes wrong                                       *)
StepTyped ==
  /\ x6' \in [Jobs -> Library!Places] /\ x5' \in [Jobs -> Jobs \cup {Library!None}]
  /\ x7' \in [Jobs -> Library!Types \cup {Library!None}]
  /\ x8' \in [Jobs -> {"running", "ok", "failed", "cancelled"}]
  /\ x4' \subseteq Jobs /\ x9' \subseteq Jobs /\ x11' \in x11..LibraryFaults
  /\ x3' \in [Jobs -> Library!Images]
StepApart(j) ==
  /\ UNCHANGED Library!what
  /\ \A k \in Jobs \ {j} : x6'[k] = x6[k] /\ x5'[k] = x5[k] /\ x8'[k] = x8[k] /\ (k \in x4' <=> k \in x4)
StepClean(j) == x10' \in BOOLEAN /\ (x10' => x10 /\ x9' = x9 /\ \A k \in Jobs \ {j} : Library!Idle(k))
StepImages(j) ==
  /\ \A k \in Jobs : x3[k].state = "AVAILABLE" =>
       x3'[k].state = "AVAILABLE" /\ x3'[k].mode = x3[k].mode /\ (x3[k].shape => x3'[k].shape)
  /\ \A k \in Jobs \ {j} :
       /\ x3'[k].state = x3[k].state /\ x3'[k].mode = x3[k].mode
       /\ x3'[k].schema = x3[k].schema \/ x3'[k].schema # Library!None

(* A job whose own state a step leaves alone is as sound after it as before. *)
LEMMA OthersStay ==
  ASSUME Library!LibraryInv, NEW j \in Jobs, StepTyped, StepApart(j), StepClean(j), StepImages(j),
         (Library!ImageSound(j) /\ Library!ObjectSound(j) /\ (x10 => Library!CleanSound(j)))'
  PROVE  Library!LibraryInv'
<1>0. Library!TypeOK /\ (\A k \in Jobs : Library!ImageSound(k) /\ Library!ObjectSound(k)) /\ Library!CleanInv
  BY DEF Library!LibraryInv
<1>1. Library!TypeOK'
  BY <1>0 DEF Library!TypeOK, StepTyped, StepApart, StepClean, Library!what
<1>2. ASSUME NEW k \in Jobs \ {j} PROVE Library!ImageSound(k)'
  <2>1. Library!Chosen(k)' => Library!Chosen(k)
    BY DEF StepApart, Library!Chosen
  <2>2. Library!Chosen(k) => Library!Fits(k)'
    BY <1>0 DEF StepApart, StepImages, Library!ImageSound, Library!Fits, Library!what
  <2>3. x6[k] = "launch" => x3'[x5'[k]].shape
    BY <1>0 DEF StepApart, StepImages, Library!ImageSound, Library!Fits, Library!Chosen
  <2>4. UNCHANGED Library!what /\ x6'[k] = x6[k] /\ x3'[k].state = x3[k].state /\ x3'[k].mode = x3[k].mode
    BY DEF StepApart, StepImages
  <2>5. Library!ImageSound(k)
    BY <1>0
  <2> QED BY <2>1, <2>2, <2>3, <2>4, <2>5 DEF Library!ImageSound, Library!what
<1>3. ASSUME NEW k \in Jobs \ {j} PROVE Library!ObjectSound(k)'
  BY <1>0 DEF Library!ObjectSound, Library!TypeOK, StepTyped, StepApart, Library!what
<1>4. Library!CleanInv'
  <2>1. ASSUME x10', NEW k \in Jobs \ {j} PROVE Library!CleanSound(k)'
    <3>1. Library!CleanSound(k) /\ Library!Idle(k)
      BY <1>0, <2>1 DEF Library!CleanInv, StepClean
    <3>2. UNCHANGED Library!what /\ x6'[k] = x6[k] /\ x8'[k] = x8[k] /\ (k \in x4' <=> k \in x4)
      BY DEF StepApart
    <3>3. x3'[k].state = x3[k].state /\ (x3'[k].schema = x3[k].schema \/ x3'[k].schema # Library!None)
      BY DEF StepImages
    <3> HIDE <2>1
    <3> QED BY <3>1, <3>2, <3>3 DEF Library!CleanSound, Library!Idle
  <2>2. ASSUME x10', NEW k \in Jobs, NEW i \in Jobs, k # i PROVE Library!Idle(k)' \/ Library!Idle(i)'
    BY <2>2 DEF StepClean, StepApart, Library!Idle
  <2>3. x10' => x9' = {}
    BY <1>0 DEF Library!CleanInv, StepClean
  <2> QED BY <2>1, <2>2, <2>3 DEF Library!CleanInv
<1>. QED BY <1>1, <1>2, <1>3, <1>4 DEF Library!LibraryInv

(* A step without an effect on the images *)
LEMMA ImagesStay == ASSUME NEW j \in Jobs, UNCHANGED x3 PROVE StepImages(j)
BY DEF StepImages

(* A flag that stays or falls was up if it is. *)
LEMMA CleanFalls ==
  ASSUME x10 \in BOOLEAN, x10' = x10 \/ x10' = FALSE
  PROVE  x10' \in BOOLEAN /\ (x10' => x10)
<1>1. CASE x10' = x10
  BY <1>1
<1>2. CASE x10' = FALSE
  BY <1>2
<1>. QED BY <1>2

(* What a job asks for *)
LEMMA WantTyped ==
  ASSUME Library!TypeOK, NEW j \in Jobs
  PROVE  x2[j].data \in Library!Types /\ x2[j].mode \in {"PARAVIRTUALIZED", "EMULATED"} /\ x2[j].data # Library!None
BY DEF Library!TypeOK, Library!Devices, Library!Types, Library!None

(* The libraries stay sound when Start is what a job does. *)
LEMMA StartKept ==
  ASSUME Library!LibraryInv, NEW j \in Jobs, Library!Start(j)
  PROVE  Library!LibraryInv'
<1> USE ObjectAssumption DEF Library!Start, Library!Now, Library!Ends, Library!Fails, Library!Fine, Library!Leave, Library!what
<1>0. Library!TypeOK /\ Library!ImageSound(j) /\ Library!ObjectSound(j) /\ Library!CleanInv
  BY DEF Library!LibraryInv
<1>1. StepTyped
  <2>1. x6' \in [Jobs -> Library!Places]
    BY <1>0, LibMoves DEF Library!Places
  <2>2. x11' \in x11..LibraryFaults /\ x4' \subseteq Jobs /\ x9' \subseteq Jobs
    BY <1>0 DEF Library!TypeOK
  <2>3. x5' \in [Jobs -> Jobs \cup {Library!None}] /\ x7' \in [Jobs -> Library!Types \cup {Library!None}]
    BY <1>0 DEF Library!TypeOK
  <2>4. x8' \in [Jobs -> {"running", "ok", "failed", "cancelled"}]
    BY <1>0 DEF Library!TypeOK
  <2>5. x3' \in [Jobs -> Library!Images]
    BY <1>0 DEF Library!TypeOK
  <2> QED BY <2>1, <2>2, <2>3, <2>4, <2>5 DEF StepTyped
<1>2. StepApart(j)
  BY <1>0, LibMoves DEF StepApart, Library!Places
<1>3. StepClean(j)
  <2>1. x10 \in BOOLEAN /\ x10' = (x10 /\ \A k \in Jobs \ {j} : Library!Idle(k)) /\ x9' = x9
    BY <1>0 DEF Library!TypeOK, Library!Idle
  <2>2. x10' \in BOOLEAN /\ (x10' => x10 /\ \A k \in Jobs \ {j} : Library!Idle(k))
    BY <2>1
  <2> QED BY <2>2 DEF StepClean
<1>4. StepImages(j)
  BY ImagesStay
<1>5. Library!ImageSound(j)'
  BY <1>0, LibMoves DEF Library!ImageSound, Library!Chosen, Library!Places
<1>6. Library!ObjectSound(j)'
  BY <1>0, LibMoves DEF Library!ObjectSound, Library!Places
<1>7. ASSUME x10' PROVE Library!CleanSound(j)'
  <2>1. x10 /\ x9 = {} /\ Library!CleanSound(j)
    BY <1>0, <1>7 DEF Library!CleanInv
  <2> QED BY <1>0, <2>1, LibMoves DEF Library!CleanSound, Library!Places
<1>. QED BY <1>1, <1>2, <1>3, <1>4, <1>5, <1>6, <1>7, OthersStay

(* The libraries stay sound when Find is what a job does. *)
LEMMA FindKept ==
  ASSUME Library!LibraryInv, NEW j \in Jobs, Library!Find(j)
  PROVE  Library!LibraryInv'
<1> USE ObjectAssumption DEF Library!Find, Library!Now, Library!Ends, Library!Fails, Library!Fine, Library!Leave, Library!what
<1>0. Library!TypeOK /\ Library!ImageSound(j) /\ Library!ObjectSound(j) /\ Library!CleanInv
  BY DEF Library!LibraryInv
<1>1. StepTyped
  <2>1. x6' \in [Jobs -> Library!Places]
    BY <1>0, LibMoves DEF Library!Places
  <2>2. x11' \in x11..LibraryFaults /\ x4' \subseteq Jobs /\ x9' \subseteq Jobs
    BY <1>0 DEF Library!TypeOK
  <2>3. x5' \in [Jobs -> Jobs \cup {Library!None}] /\ x7' \in [Jobs -> Library!Types \cup {Library!None}]
    BY <1>0 DEF Library!TypeOK, Library!Matches
  <2>4. x8' \in [Jobs -> {"running", "ok", "failed", "cancelled"}]
    BY <1>0 DEF Library!TypeOK
  <2>5. x3' \in [Jobs -> Library!Images]
    BY <1>0 DEF Library!TypeOK
  <2> QED BY <2>1, <2>2, <2>3, <2>4, <2>5 DEF StepTyped
<1>2. StepApart(j)
  BY <1>0, LibMoves DEF StepApart, Library!TypeOK, Library!what, Library!Places
<1>3. StepClean(j)
  <2>0. x10 \in BOOLEAN /\ (x10' = x10 \/ x10' = FALSE) /\ x9' = x9
    BY <1>0 DEF Library!TypeOK
  <2>1. x10' \in BOOLEAN /\ (x10' => x10 /\ x9' = x9)
    BY <2>0, CleanFalls
  <2>2. ASSUME x10', NEW k \in Jobs \ {j} PROVE Library!Idle(k)
    <3>1. x10
      BY <2>2
    <3>2. ~Library!Idle(j)
      BY DEF Library!Idle
    <3> QED BY <1>0, <3>1, <3>2 DEF Library!CleanInv
  <2> QED BY <2>1, <2>2 DEF StepClean
<1>4. StepImages(j)
  BY ImagesStay
<1>5. Library!ImageSound(j)'
  BY <1>0, LibMoves DEF Library!TypeOK, Library!ImageSound, Library!Chosen, Library!Fits,
     Library!Matches, Library!Places
<1>6. Library!ObjectSound(j)'
  BY <1>0, LibMoves DEF Library!TypeOK, Library!ObjectSound, Library!Places
<1>7. ASSUME x10' PROVE Library!CleanSound(j)'
  <2>1. x10 /\ x9 = {} /\ Library!CleanSound(j)
    BY <1>0, <1>7 DEF Library!CleanInv
  <2> QED BY <1>0, <1>7, <2>1, LibMoves DEF Library!CleanSound, Library!Places
<1>. QED BY <1>1, <1>2, <1>3, <1>4, <1>5, <1>6, <1>7, OthersStay

(* The libraries stay sound when ReadSchema is what a job does. *)
LEMMA ReadSchemaKept ==
  ASSUME Library!LibraryInv, NEW j \in Jobs, Library!ReadSchema(j)
  PROVE  Library!LibraryInv'
<1> USE ObjectAssumption DEF Library!ReadSchema, Library!Now, Library!Ends, Library!Fails, Library!Fine, Library!Leave, Library!what
<1>0. Library!TypeOK /\ Library!ImageSound(j) /\ Library!ObjectSound(j) /\ Library!CleanInv
  BY DEF Library!LibraryInv
<1>1. StepTyped
  <2>1. x6' \in [Jobs -> Library!Places]
    BY <1>0, LibMoves DEF Library!Places
  <2>2. x11' \in x11..LibraryFaults /\ x4' \subseteq Jobs /\ x9' \subseteq Jobs
    BY <1>0 DEF Library!TypeOK
  <2>3. x5' \in [Jobs -> Jobs \cup {Library!None}] /\ x7' \in [Jobs -> Library!Types \cup {Library!None}]
    BY <1>0 DEF Library!TypeOK, Library!Images, Library!ImageSound, Library!Chosen, Library!Fits,
       Library!Matches
  <2>4. x8' \in [Jobs -> {"running", "ok", "failed", "cancelled"}]
    BY <1>0 DEF Library!TypeOK
  <2>5. x3' \in [Jobs -> Library!Images]
    BY <1>0 DEF Library!TypeOK
  <2> QED BY <2>1, <2>2, <2>3, <2>4, <2>5 DEF StepTyped
<1>2. StepApart(j)
  BY <1>0, LibMoves DEF StepApart, Library!Places
<1>3. StepClean(j)
  <2>0. x10 \in BOOLEAN /\ (x10' = x10 \/ x10' = FALSE) /\ x9' = x9
    BY <1>0 DEF Library!TypeOK
  <2>1. x10' \in BOOLEAN /\ (x10' => x10 /\ x9' = x9)
    BY <2>0, CleanFalls
  <2>2. ASSUME x10', NEW k \in Jobs \ {j} PROVE Library!Idle(k)
    <3>1. x10
      BY <2>2
    <3>2. ~Library!Idle(j)
      BY DEF Library!Idle
    <3> QED BY <1>0, <3>1, <3>2 DEF Library!CleanInv
  <2> QED BY <2>1, <2>2 DEF StepClean
<1>4. StepImages(j)
  BY ImagesStay
<1>5. Library!ImageSound(j)'
  BY <1>0, LibMoves DEF Library!ImageSound, Library!Chosen, Library!Fits, Library!Places
<1>6. Library!ObjectSound(j)'
  BY <1>0, LibMoves DEF Library!TypeOK, Library!ObjectSound, Library!Places
<1>7. ASSUME x10' PROVE Library!CleanSound(j)'
  <2>1. x10 /\ x9 = {} /\ Library!CleanSound(j)
    BY <1>0, <1>7 DEF Library!CleanInv
  <2>2. x5[j] \in Jobs /\ x3[x5[j]].state = "AVAILABLE" /\ x6[j] = "schemas" /\ x1' = x1
    BY <1>0 DEF Library!ImageSound, Library!Chosen, Library!Fits
  <2>3. x6[x5[j]] \notin {"wait", "apply"}
    BY <1>0, <2>1, <2>2 DEF Library!CleanInv, Library!Idle
  <2>4. x3[x5[j]].schema # Library!None
    BY <1>0, <2>1, <2>2, <2>3 DEF Library!CleanInv, Library!CleanSound
  <2>5. x6'[j] \in {"check", "repair"} /\ (x6'[j] = "check" => x3[x5[j]].schema = x2[j].data)
    BY <1>0, <1>7, <2>4, LibMoves DEF Library!TypeOK, Library!Places
  <2> QED BY <2>1, <2>5 DEF Library!CleanSound, Library!Pinned
<1>. QED BY <1>1, <1>2, <1>3, <1>4, <1>5, <1>6, <1>7, OthersStay

(* The libraries stay sound when Repair is what a job does. *)
LEMMA RepairKept ==
  ASSUME Library!LibraryInv, NEW j \in Jobs, Library!Repair(j)
  PROVE  Library!LibraryInv'
<1> USE ObjectAssumption DEF Library!Repair, Library!Now, Library!Ends, Library!Fails, Library!Fine, Library!Leave, Library!what
<1>0. Library!TypeOK /\ Library!ImageSound(j) /\ Library!ObjectSound(j) /\ Library!CleanInv
  BY DEF Library!LibraryInv
<1>a. x2[j].data \in Library!Types /\ x2[j].mode \in {"PARAVIRTUALIZED", "EMULATED"} /\ x2[j].data # Library!None
  BY <1>0, WantTyped
<1>b. x5[j] \in Jobs /\ x3 \in [Jobs -> Library!Images]
  BY <1>0 DEF Library!TypeOK, Library!ImageSound, Library!Chosen, Library!Fits
<1>c. \/ UNCHANGED x3
      \/ /\ x3' \in [Jobs -> Library!Images] /\ \A i \in Jobs \ {x5[j]} : x3'[i] = x3[i]
         /\ x3'[x5[j]].schema = x2[j].data /\ x3'[x5[j]].mode = x3[x5[j]].mode /\ x3'[x5[j]].state = x3[x5[j]].state /\ x3'[x5[j]].shape = x3[x5[j]].shape
  BY <1>0, <1>a, <1>b, SetSchema
<1>1. StepTyped
  <2>1. x6' \in [Jobs -> Library!Places]
    BY <1>0, LibMoves DEF Library!Places
  <2>2. x11' \in x11..LibraryFaults /\ x4' \subseteq Jobs /\ x9' \subseteq Jobs
    BY <1>0 DEF Library!TypeOK
  <2>3. x5' \in [Jobs -> Jobs \cup {Library!None}] /\ x7' \in [Jobs -> Library!Types \cup {Library!None}]
    BY <1>0 DEF Library!TypeOK
  <2>4. x8' \in [Jobs -> {"running", "ok", "failed", "cancelled"}]
    BY <1>0 DEF Library!TypeOK
  <2>5. x3' \in [Jobs -> Library!Images]
    BY <1>b, <1>c
  <2> QED BY <2>1, <2>2, <2>3, <2>4, <2>5 DEF StepTyped
<1>2. StepApart(j)
  BY <1>0, LibMoves DEF StepApart, Library!Places
<1>3. StepClean(j)
  <2>0. x10 \in BOOLEAN /\ (x10' = x10 \/ x10' = FALSE) /\ x9' = x9
    BY <1>0 DEF Library!TypeOK
  <2>1. x10' \in BOOLEAN /\ (x10' => x10 /\ x9' = x9)
    BY <2>0, CleanFalls
  <2>2. ASSUME x10', NEW k \in Jobs \ {j} PROVE Library!Idle(k)
    <3>1. x10
      BY <2>2
    <3>2. ~Library!Idle(j)
      BY DEF Library!Idle
    <3> QED BY <1>0, <3>1, <3>2 DEF Library!CleanInv
  <2> QED BY <2>1, <2>2 DEF StepClean
<1>4. StepImages(j)
  BY <1>a, <1>c DEF StepImages
<1>5. Library!ImageSound(j)'
  BY <1>0, <1>c, LibMoves DEF Library!ImageSound, Library!Chosen, Library!Fits, Library!Places
<1>6. Library!ObjectSound(j)'
  BY <1>0, LibMoves DEF Library!TypeOK, Library!ObjectSound, Library!Places
<1>7. ASSUME x10' PROVE Library!CleanSound(j)'
  <2>1. x10 /\ x9 = {} /\ Library!CleanSound(j)
    BY <1>0, <1>7 DEF Library!CleanInv
  <2>2. Library!Set(x5[j], "schema", x2[j].data) /\ x6'[j] = "check" /\ UNCHANGED <<x1, x2, x4, x5, x8>> /\ x6[j] = "repair"
    BY <1>0, <1>7, LibMoves DEF Library!Places
  <2>3. x3'[x5[j]].schema = x2[j].data /\ x3'[x5[j]].state = x3[x5[j]].state
        /\ (j # x5[j] => x3'[j] = x3[j])
    BY <1>0, <1>a, <1>b, <2>2, SetSchema
  <2> QED BY <2>1, <2>2, <2>3, <1>a DEF Library!CleanSound, Library!Pinned
<1>. QED BY <1>1, <1>2, <1>3, <1>4, <1>5, <1>6, <1>7, OthersStay

(* The libraries stay sound when Placeholder is what a job does. *)
LEMMA PlaceholderKept ==
  ASSUME Library!LibraryInv, NEW j \in Jobs, Library!Upload(j)
  PROVE  Library!LibraryInv'
<1> USE ObjectAssumption DEF Library!Upload, Library!Now, Library!Ends, Library!Fails, Library!Fine, Library!Leave, Library!what
<1>0. Library!TypeOK /\ Library!ImageSound(j) /\ Library!ObjectSound(j) /\ Library!CleanInv
  BY DEF Library!LibraryInv
<1>1. StepTyped
  <2>1. x6' \in [Jobs -> Library!Places]
    BY <1>0, LibMoves DEF Library!Places
  <2>2. x11' \in x11..LibraryFaults /\ x4' \subseteq Jobs /\ x9' \subseteq Jobs
    BY <1>0 DEF Library!TypeOK
  <2>3. x5' \in [Jobs -> Jobs \cup {Library!None}] /\ x7' \in [Jobs -> Library!Types \cup {Library!None}]
    BY <1>0 DEF Library!TypeOK
  <2>4. x8' \in [Jobs -> {"running", "ok", "failed", "cancelled"}]
    BY <1>0 DEF Library!TypeOK
  <2>5. x3' \in [Jobs -> Library!Images]
    BY <1>0 DEF Library!TypeOK
  <2> QED BY <2>1, <2>2, <2>3, <2>4, <2>5 DEF StepTyped
<1>2. StepApart(j)
  BY <1>0, LibMoves DEF StepApart, Library!Places
<1>3. StepClean(j)
  <2>0. x10 \in BOOLEAN /\ (x10' = x10 \/ x10' = FALSE) /\ x9' = x9
    BY <1>0 DEF Library!TypeOK
  <2>1. x10' \in BOOLEAN /\ (x10' => x10 /\ x9' = x9)
    BY <2>0, CleanFalls
  <2>2. ASSUME x10', NEW k \in Jobs \ {j} PROVE Library!Idle(k)
    <3>1. x10
      BY <2>2
    <3>2. ~Library!Idle(j)
      BY DEF Library!Idle
    <3> QED BY <1>0, <3>1, <3>2 DEF Library!CleanInv
  <2> QED BY <2>1, <2>2 DEF StepClean
<1>4. StepImages(j)
  BY ImagesStay
<1>5. Library!ImageSound(j)'
  BY <1>0, LibMoves DEF Library!ImageSound, Library!Chosen, Library!Places
<1>6. Library!ObjectSound(j)'
  BY <1>0, LibMoves DEF Library!TypeOK, Library!ObjectSound, Library!Places
<1>7. ASSUME x10' PROVE Library!CleanSound(j)'
  <2>1. x10 /\ x9 = {} /\ Library!CleanSound(j)
    BY <1>0, <1>7 DEF Library!CleanInv
  <2> QED BY <1>0, <1>7, <2>1, LibMoves DEF Library!CleanSound, Library!Places
<1>. QED BY <1>1, <1>2, <1>3, <1>4, <1>5, <1>6, <1>7, OthersStay

(* The libraries stay sound when CreateImage is what a job does. *)
LEMMA CreateImageKept ==
  ASSUME Library!LibraryInv, NEW j \in Jobs, Library!CreateImage(j)
  PROVE  Library!LibraryInv'
<1> USE ObjectAssumption DEF Library!CreateImage, Library!Now, Library!Ends, Library!Fails, Library!Fine, Library!Leave, Library!what
<1>0. Library!TypeOK /\ Library!ImageSound(j) /\ Library!ObjectSound(j) /\ Library!CleanInv
  BY DEF Library!LibraryInv
<1>1. StepTyped
  <2>1. x6' \in [Jobs -> Library!Places]
    BY <1>0, LibMoves DEF Library!Places
  <2>2. x11' \in x11..LibraryFaults /\ x4' \subseteq Jobs /\ x9' \subseteq Jobs
    BY <1>0 DEF Library!TypeOK
  <2>3. x5' \in [Jobs -> Jobs \cup {Library!None}] /\ x7' \in [Jobs -> Library!Types \cup {Library!None}]
    BY <1>0 DEF Library!TypeOK
  <2>4. x8' \in [Jobs -> {"running", "ok", "failed", "cancelled"}]
    BY <1>0 DEF Library!TypeOK
  <2>5. x3' \in [Jobs -> Library!Images]
    <3>1. [mode |-> x2[j].mode, state |-> "IMPORTING", schema |-> Library!None, shape |-> FALSE] \in Library!Images
      BY <1>0, WantTyped DEF Library!Images
    <3> QED BY <1>0, <3>1 DEF Library!TypeOK
  <2> QED BY <2>1, <2>2, <2>3, <2>4, <2>5 DEF StepTyped
<1>2. StepApart(j)
  BY <1>0, LibMoves DEF StepApart, Library!TypeOK, Library!what, Library!Places
<1>3. StepClean(j)
  <2>0. x10 \in BOOLEAN /\ (x10' = x10 \/ x10' = FALSE) /\ x9' = x9
    BY <1>0 DEF Library!TypeOK
  <2>1. x10' \in BOOLEAN /\ (x10' => x10 /\ x9' = x9)
    BY <2>0, CleanFalls
  <2>2. ASSUME x10', NEW k \in Jobs \ {j} PROVE Library!Idle(k)
    <3>1. x10
      BY <2>2
    <3>2. ~Library!Idle(j)
      BY DEF Library!Idle
    <3> QED BY <1>0, <3>1, <3>2 DEF Library!CleanInv
  <2> QED BY <2>1, <2>2 DEF StepClean
<1>4. StepImages(j)
  BY <1>0 DEF StepImages, Library!TypeOK, Library!ImageSound
<1>5. Library!ImageSound(j)'
  BY <1>0, LibMoves DEF Library!TypeOK, Library!ImageSound, Library!Chosen, Library!Places
<1>6. Library!ObjectSound(j)'
  BY <1>0, LibMoves DEF Library!ObjectSound, Library!Places
<1>7. ASSUME x10' PROVE Library!CleanSound(j)'
  <2>1. x10 /\ x9 = {} /\ Library!CleanSound(j)
    BY <1>0, <1>7 DEF Library!CleanInv
  <2> QED BY <1>0, <1>7, <2>1, LibMoves DEF Library!TypeOK, Library!CleanSound, Library!Places
<1>. QED BY <1>1, <1>2, <1>3, <1>4, <1>5, <1>6, <1>7, OthersStay

(* The libraries stay sound when WaitImport is what a job does. *)
LEMMA WaitImportKept ==
  ASSUME Library!LibraryInv, NEW j \in Jobs, Library!WaitImport(j)
  PROVE  Library!LibraryInv'
<1> USE ObjectAssumption DEF Library!WaitImport, Library!Now, Library!Ends, Library!Fails, Library!Fine, Library!Leave, Library!what
<1>0. Library!TypeOK /\ Library!ImageSound(j) /\ Library!ObjectSound(j) /\ Library!CleanInv
  BY DEF Library!LibraryInv
<1>1. StepTyped
  <2>1. x6' \in [Jobs -> Library!Places]
    BY <1>0, LibMoves DEF Library!Places
  <2>2. x11' \in x11..LibraryFaults /\ x4' \subseteq Jobs /\ x9' \subseteq Jobs
    BY <1>0 DEF Library!TypeOK
  <2>3. x5' \in [Jobs -> Jobs \cup {Library!None}] /\ x7' \in [Jobs -> Library!Types \cup {Library!None}]
    BY <1>0 DEF Library!TypeOK
  <2>4. x8' \in [Jobs -> {"running", "ok", "failed", "cancelled"}]
    BY <1>0 DEF Library!TypeOK
  <2>5. x3' \in [Jobs -> Library!Images]
    BY <1>0 DEF Library!TypeOK
  <2> QED BY <2>1, <2>2, <2>3, <2>4, <2>5 DEF StepTyped
<1>2. StepApart(j)
  BY <1>0, LibMoves DEF StepApart, Library!TypeOK, Library!what, Library!Places
<1>3. StepClean(j)
  <2>0. x10 \in BOOLEAN /\ (x10' = x10 \/ x10' = FALSE) /\ x9' = x9
    BY <1>0 DEF Library!TypeOK
  <2>1. x10' \in BOOLEAN /\ (x10' => x10 /\ x9' = x9)
    BY <2>0, CleanFalls
  <2>2. ASSUME x10', NEW k \in Jobs \ {j} PROVE Library!Idle(k)
    <3>1. x10
      BY <2>2
    <3>2. ~Library!Idle(j)
      BY DEF Library!Idle
    <3> QED BY <1>0, <3>1, <3>2 DEF Library!CleanInv
  <2> QED BY <2>1, <2>2 DEF StepClean
<1>4. StepImages(j)
  BY ImagesStay
<1>5. Library!ImageSound(j)'
  BY <1>0, LibMoves DEF Library!TypeOK, Library!ImageSound, Library!Chosen, Library!Places
<1>6. Library!ObjectSound(j)'
  BY <1>0, LibMoves DEF Library!ObjectSound, Library!Places
<1>7. ASSUME x10' PROVE Library!CleanSound(j)'
  <2>1. x10 /\ x9 = {} /\ Library!CleanSound(j)
    BY <1>0, <1>7 DEF Library!CleanInv
  <2> QED BY <1>0, <1>7, <2>1, LibMoves DEF Library!CleanSound, Library!Places
<1>. QED BY <1>1, <1>2, <1>3, <1>4, <1>5, <1>6, <1>7, OthersStay

(* The libraries stay sound when ApplyCapabilitySchema is what a job does. *)
LEMMA ApplyCapabilitySchemaKept ==
  ASSUME Library!LibraryInv, NEW j \in Jobs, Library!ApplyCapabilitySchema(j)
  PROVE  Library!LibraryInv'
<1> USE ObjectAssumption DEF Library!ApplyCapabilitySchema, Library!Now, Library!Ends, Library!Fails, Library!Fine, Library!Leave, Library!what
<1>0. Library!TypeOK /\ Library!ImageSound(j) /\ Library!ObjectSound(j) /\ Library!CleanInv
  BY DEF Library!LibraryInv
<1>a. x2[j].data \in Library!Types /\ x2[j].mode \in {"PARAVIRTUALIZED", "EMULATED"} /\ x2[j].data # Library!None
  BY <1>0, WantTyped
<1>b. j \in Jobs /\ x3 \in [Jobs -> Library!Images]
  BY <1>0 DEF Library!TypeOK
<1>c. \/ UNCHANGED x3
      \/ /\ x3' \in [Jobs -> Library!Images] /\ \A i \in Jobs \ {j} : x3'[i] = x3[i]
         /\ x3'[j].schema = x2[j].data /\ x3'[j].mode = x3[j].mode /\ x3'[j].state = x3[j].state /\ x3'[j].shape = x3[j].shape
  BY <1>0, <1>a, SetSchema
<1>1. StepTyped
  <2>1. x6' \in [Jobs -> Library!Places]
    BY <1>0, LibMoves DEF Library!Places
  <2>2. x11' \in x11..LibraryFaults /\ x4' \subseteq Jobs /\ x9' \subseteq Jobs
    BY <1>0 DEF Library!TypeOK
  <2>3. x5' \in [Jobs -> Jobs \cup {Library!None}] /\ x7' \in [Jobs -> Library!Types \cup {Library!None}]
    BY <1>0 DEF Library!TypeOK
  <2>4. x8' \in [Jobs -> {"running", "ok", "failed", "cancelled"}]
    BY <1>0 DEF Library!TypeOK
  <2>5. x3' \in [Jobs -> Library!Images]
    BY <1>b, <1>c
  <2> QED BY <2>1, <2>2, <2>3, <2>4, <2>5 DEF StepTyped
<1>2. StepApart(j)
  BY <1>0, LibMoves DEF StepApart, Library!TypeOK, Library!what, Library!Places
<1>3. StepClean(j)
  <2>0. x10 \in BOOLEAN /\ (x10' = x10 \/ x10' = FALSE) /\ x9' = x9
    BY <1>0 DEF Library!TypeOK
  <2>1. x10' \in BOOLEAN /\ (x10' => x10 /\ x9' = x9)
    BY <2>0, CleanFalls
  <2>2. ASSUME x10', NEW k \in Jobs \ {j} PROVE Library!Idle(k)
    <3>1. x10
      BY <2>2
    <3>2. ~Library!Idle(j)
      BY DEF Library!Idle
    <3> QED BY <1>0, <3>1, <3>2 DEF Library!CleanInv
  <2> QED BY <2>1, <2>2 DEF StepClean
<1>4. StepImages(j)
  BY <1>c DEF StepImages
<1>5. Library!ImageSound(j)'
  BY <1>0, <1>c, LibMoves DEF Library!TypeOK, Library!ImageSound, Library!Chosen, Library!Fits,
     Library!Places
<1>6. Library!ObjectSound(j)'
  BY <1>0, LibMoves DEF Library!ObjectSound, Library!Places
<1>7. ASSUME x10' PROVE Library!CleanSound(j)'
  <2>1. x10 /\ x9 = {} /\ Library!CleanSound(j)
    BY <1>0, <1>7 DEF Library!CleanInv
  <2>2. /\ Library!Set(j, "schema", x2[j].data) /\ UNCHANGED <<x1, x2, x4>> /\ x6[j] = "apply"
        /\ x5'[j] = j /\ x8'[j] = "ok" /\ x6'[j] = IF x1 = "seed" THEN "remove" ELSE "check"
        /\ x3[j].state = "AVAILABLE"
    BY <1>0, <1>7, <2>1, LibMoves DEF Library!Places, Library!TypeOK
  <2>3. x3'[j].schema = x2[j].data /\ x3'[j].state = x3[j].state
    BY <1>0, <1>a, <2>2, SetSchema
  <2> QED BY <2>2, <2>3, <1>a DEF Library!CleanSound, Library!Pinned
<1>. QED BY <1>1, <1>2, <1>3, <1>4, <1>5, <1>6, <1>7, OthersStay

(* The libraries stay sound when RemoveObject is what a job does. *)
LEMMA RemoveObjectKept ==
  ASSUME Library!LibraryInv, NEW j \in Jobs, Library!RemoveObject(j)
  PROVE  Library!LibraryInv'
<1> USE ObjectAssumption DEF Library!RemoveObject, Library!Now, Library!Ends, Library!Fails, Library!Fine, Library!Leave, Library!what
<1>0. Library!TypeOK /\ Library!ImageSound(j) /\ Library!ObjectSound(j) /\ Library!CleanInv
  BY DEF Library!LibraryInv
<1>1. StepTyped
  <2>1. x6' \in [Jobs -> Library!Places]
    BY <1>0, LibMoves DEF Library!Places
  <2>2. x11' \in x11..LibraryFaults /\ x4' \subseteq Jobs /\ x9' \subseteq Jobs
    BY <1>0 DEF Library!TypeOK
  <2>3. x5' \in [Jobs -> Jobs \cup {Library!None}] /\ x7' \in [Jobs -> Library!Types \cup {Library!None}]
    BY <1>0 DEF Library!TypeOK
  <2>4. x8' \in [Jobs -> {"running", "ok", "failed", "cancelled"}]
    BY <1>0 DEF Library!TypeOK
  <2>5. x3' \in [Jobs -> Library!Images]
    BY <1>0 DEF Library!TypeOK
  <2> QED BY <2>1, <2>2, <2>3, <2>4, <2>5 DEF StepTyped
<1>2. StepApart(j)
  BY <1>0, LibMoves DEF StepApart, Library!Places
<1>3. StepClean(j)
  <2>0. x10 \in BOOLEAN /\ (x10' = x10 \/ x10' = FALSE) /\ x9' = x9
    BY <1>0 DEF Library!TypeOK
  <2>1. x10' \in BOOLEAN /\ (x10' => x10 /\ x9' = x9)
    BY <2>0, CleanFalls
  <2>2. ASSUME x10', NEW k \in Jobs \ {j} PROVE Library!Idle(k)
    <3>1. x10
      BY <2>2
    <3>2. ~Library!Idle(j)
      BY DEF Library!Idle
    <3> QED BY <1>0, <3>1, <3>2 DEF Library!CleanInv
  <2> QED BY <2>1, <2>2 DEF StepClean
<1>4. StepImages(j)
  BY ImagesStay
<1>5. Library!ImageSound(j)'
  BY <1>0, LibMoves DEF Library!ImageSound, Library!Chosen, Library!Fits, Library!Places
<1>6. Library!ObjectSound(j)'
  BY <1>0, LibMoves DEF Library!TypeOK, Library!ObjectSound, Library!Places
<1>7. ASSUME x10' PROVE Library!CleanSound(j)'
  <2>1. x10 /\ x9 = {} /\ Library!CleanSound(j)
    BY <1>0, <1>7 DEF Library!CleanInv
  <2> QED BY <1>0, <2>1, LibMoves DEF Library!CleanSound, Library!Pinned, Library!Places
<1>. QED BY <1>1, <1>2, <1>3, <1>4, <1>5, <1>6, <1>7, OthersStay

(* The libraries stay sound when CheckShape is what a job does. *)
LEMMA CheckShapeKept ==
  ASSUME Library!LibraryInv, NEW j \in Jobs, Library!CheckShape(j)
  PROVE  Library!LibraryInv'
<1> USE ObjectAssumption DEF Library!CheckShape, Library!Now, Library!Ends, Library!Fails, Library!Fine, Library!Leave, Library!what
<1>0. Library!TypeOK /\ Library!ImageSound(j) /\ Library!ObjectSound(j) /\ Library!CleanInv
  BY DEF Library!LibraryInv
<1>1. StepTyped
  <2>1. x6' \in [Jobs -> Library!Places]
    BY <1>0, LibMoves DEF Library!Places
  <2>2. x11' \in x11..LibraryFaults /\ x4' \subseteq Jobs /\ x9' \subseteq Jobs
    BY <1>0 DEF Library!TypeOK
  <2>3. x5' \in [Jobs -> Jobs \cup {Library!None}] /\ x7' \in [Jobs -> Library!Types \cup {Library!None}]
    BY <1>0 DEF Library!TypeOK
  <2>4. x8' \in [Jobs -> {"running", "ok", "failed", "cancelled"}]
    BY <1>0 DEF Library!TypeOK
  <2>5. x3' \in [Jobs -> Library!Images]
    BY <1>0 DEF Library!TypeOK
  <2> QED BY <2>1, <2>2, <2>3, <2>4, <2>5 DEF StepTyped
<1>2. StepApart(j)
  BY <1>0, LibMoves DEF StepApart, Library!Places
<1>3. StepClean(j)
  <2>0. x10 \in BOOLEAN /\ (x10' = x10 \/ x10' = FALSE) /\ x9' = x9
    BY <1>0 DEF Library!TypeOK
  <2>1. x10' \in BOOLEAN /\ (x10' => x10 /\ x9' = x9)
    BY <2>0, CleanFalls
  <2>2. ASSUME x10', NEW k \in Jobs \ {j} PROVE Library!Idle(k)
    <3>1. x10
      BY <2>2
    <3>2. ~Library!Idle(j)
      BY DEF Library!Idle
    <3> QED BY <1>0, <3>1, <3>2 DEF Library!CleanInv
  <2> QED BY <2>1, <2>2 DEF StepClean
<1>4. StepImages(j)
  BY ImagesStay
<1>5. Library!ImageSound(j)'
  BY <1>0, LibMoves DEF Library!ImageSound, Library!Chosen, Library!Fits, Library!Places
<1>6. Library!ObjectSound(j)'
  BY <1>0, LibMoves DEF Library!TypeOK, Library!ObjectSound, Library!Places
<1>7. ASSUME x10' PROVE Library!CleanSound(j)'
  <2>1. x10 /\ x9 = {} /\ Library!CleanSound(j)
    BY <1>0, <1>7 DEF Library!CleanInv
  <2> QED BY <1>0, <1>7, <2>1, LibMoves DEF Library!CleanSound, Library!Pinned, Library!Places
<1>. QED BY <1>1, <1>2, <1>3, <1>4, <1>5, <1>6, <1>7, OthersStay

(* The libraries stay sound when AddShape is what a job does. *)
LEMMA AddShapeKept ==
  ASSUME Library!LibraryInv, NEW j \in Jobs, Library!AddShape(j)
  PROVE  Library!LibraryInv'
<1> USE ObjectAssumption DEF Library!AddShape, Library!Now, Library!Ends, Library!Fails, Library!Fine, Library!Leave, Library!what
<1>0. Library!TypeOK /\ Library!ImageSound(j) /\ Library!ObjectSound(j) /\ Library!CleanInv
  BY DEF Library!LibraryInv
<1>a. x2[j].data \in Library!Types /\ x2[j].mode \in {"PARAVIRTUALIZED", "EMULATED"} /\ x2[j].data # Library!None
  BY <1>0, WantTyped
<1>b. x5[j] \in Jobs /\ x3 \in [Jobs -> Library!Images]
  BY <1>0 DEF Library!TypeOK, Library!ImageSound, Library!Chosen, Library!Fits
<1>c. \/ UNCHANGED x3
      \/ /\ x3' \in [Jobs -> Library!Images] /\ \A i \in Jobs \ {x5[j]} : x3'[i] = x3[i]
         /\ x3'[x5[j]].shape /\ x3'[x5[j]].mode = x3[x5[j]].mode /\ x3'[x5[j]].state = x3[x5[j]].state /\ x3'[x5[j]].schema = x3[x5[j]].schema
  BY <1>0, <1>b, SetShape
<1>1. StepTyped
  <2>1. x6' \in [Jobs -> Library!Places]
    BY <1>0, LibMoves DEF Library!Places
  <2>2. x11' \in x11..LibraryFaults /\ x4' \subseteq Jobs /\ x9' \subseteq Jobs
    BY <1>0 DEF Library!TypeOK, Library!Set
  <2>3. x5' \in [Jobs -> Jobs \cup {Library!None}] /\ x7' \in [Jobs -> Library!Types \cup {Library!None}]
    BY <1>0 DEF Library!TypeOK
  <2>4. x8' \in [Jobs -> {"running", "ok", "failed", "cancelled"}]
    BY <1>0 DEF Library!TypeOK
  <2>5. x3' \in [Jobs -> Library!Images]
    BY <1>b, <1>c
  <2> QED BY <2>1, <2>2, <2>3, <2>4, <2>5 DEF StepTyped
<1>2. StepApart(j)
  BY <1>0, LibMoves DEF StepApart, Library!Places
<1>3. StepClean(j)
  <2>0. x10 \in BOOLEAN /\ (x10' = x10 \/ x10' = FALSE) /\ x9' = x9
    BY <1>0 DEF Library!TypeOK
  <2>1. x10' \in BOOLEAN /\ (x10' => x10 /\ x9' = x9)
    BY <2>0, CleanFalls
  <2>2. ASSUME x10', NEW k \in Jobs \ {j} PROVE Library!Idle(k)
    <3>1. x10
      BY <2>2
    <3>2. ~Library!Idle(j)
      BY DEF Library!Idle
    <3> QED BY <1>0, <3>1, <3>2 DEF Library!CleanInv
  <2> QED BY <2>1, <2>2 DEF StepClean
<1>4. StepImages(j)
  BY <1>c DEF StepImages
<1>5. Library!ImageSound(j)'
  BY <1>0, LibMoves, SetShape DEF Library!ImageSound, Library!Chosen, Library!Fits, Library!Places
<1>6. Library!ObjectSound(j)'
  BY <1>0, LibMoves DEF Library!TypeOK, Library!ObjectSound, Library!Places, Library!Set
<1>7. ASSUME x10' PROVE Library!CleanSound(j)'
  <2>1. x10 /\ x9 = {} /\ Library!CleanSound(j)
    BY <1>0, <1>7 DEF Library!CleanInv
  <2> QED BY <1>0, <1>7, <2>1, <1>c, LibMoves DEF Library!CleanSound, Library!Pinned, Library!Places
<1>. QED BY <1>1, <1>2, <1>3, <1>4, <1>5, <1>6, <1>7, OthersStay

(* The libraries stay sound when Launch is what a job does. *)
LEMMA LaunchKept ==
  ASSUME Library!LibraryInv, NEW j \in Jobs, Library!Launch(j)
  PROVE  Library!LibraryInv'
<1> USE ObjectAssumption DEF Library!Launch, Library!Now, Library!Ends, Library!Fails, Library!Fine, Library!Leave, Library!what
<1>0. Library!TypeOK /\ Library!ImageSound(j) /\ Library!ObjectSound(j) /\ Library!CleanInv
  BY DEF Library!LibraryInv
<1>1. StepTyped
  <2>1. x6' \in [Jobs -> Library!Places]
    BY <1>0, LibMoves DEF Library!Places
  <2>2. x11' \in x11..LibraryFaults /\ x4' \subseteq Jobs /\ x9' \subseteq Jobs
    BY <1>0 DEF Library!TypeOK
  <2>3. x5' \in [Jobs -> Jobs \cup {Library!None}] /\ x7' \in [Jobs -> Library!Types \cup {Library!None}]
    BY <1>0 DEF Library!TypeOK
  <2>4. x8' \in [Jobs -> {"running", "ok", "failed", "cancelled"}]
    BY <1>0 DEF Library!TypeOK
  <2>5. x3' \in [Jobs -> Library!Images]
    BY <1>0 DEF Library!TypeOK
  <2> QED BY <2>1, <2>2, <2>3, <2>4, <2>5 DEF StepTyped
<1>2. StepApart(j)
  BY <1>0, LibMoves DEF StepApart, Library!Places
<1>3. StepClean(j)
  <2>0. x10 \in BOOLEAN /\ (x10' = x10 \/ x10' = FALSE) /\ x9' = x9
    BY <1>0 DEF Library!TypeOK
  <2>1. x10' \in BOOLEAN /\ (x10' => x10 /\ x9' = x9)
    BY <2>0
  <2>2. ASSUME x10', NEW k \in Jobs \ {j} PROVE Library!Idle(k)
    <3>1. x10
      BY <2>2
    <3>2. ~Library!Idle(j)
      BY DEF Library!Idle
    <3> QED BY <1>0, <3>1, <3>2 DEF Library!CleanInv
  <2> QED BY <2>1, <2>2 DEF StepClean
<1>4. StepImages(j)
  BY ImagesStay
<1>5. Library!ImageSound(j)'
  BY <1>0, LibMoves DEF Library!ImageSound, Library!Chosen, Library!Places
<1>6. Library!ObjectSound(j)'
  BY <1>0, LibMoves DEF Library!ObjectSound, Library!Places
<1>7. ASSUME x10' PROVE Library!CleanSound(j)'
  <2>1. x10 /\ x9 = {} /\ Library!CleanSound(j)
    BY <1>0, <1>7 DEF Library!CleanInv
  <2> QED BY <1>0, <2>1, LibMoves DEF Library!CleanSound, Library!Places
<1>. QED BY <1>1, <1>2, <1>3, <1>4, <1>5, <1>6, <1>7, OthersStay

(* The libraries stay sound when RequestCancel is what a job does. *)
LEMMA RequestCancelKept ==
  ASSUME Library!LibraryInv, NEW j \in Jobs, Library!RequestCancel(j)
  PROVE  Library!LibraryInv'
<1> USE ObjectAssumption DEF Library!RequestCancel, Library!Now, Library!Ends, Library!Fails, Library!Fine, Library!Leave, Library!what
<1>0. Library!TypeOK /\ Library!ImageSound(j) /\ Library!ObjectSound(j) /\ Library!CleanInv
  BY DEF Library!LibraryInv
<1>1. StepTyped
  <2>1. x6' \in [Jobs -> Library!Places]
    BY <1>0 DEF Library!TypeOK
  <2>2. x11' \in x11..LibraryFaults /\ x4' \subseteq Jobs /\ x9' \subseteq Jobs
    BY <1>0 DEF Library!TypeOK
  <2>3. x5' \in [Jobs -> Jobs \cup {Library!None}] /\ x7' \in [Jobs -> Library!Types \cup {Library!None}]
    BY <1>0 DEF Library!TypeOK
  <2>4. x8' \in [Jobs -> {"running", "ok", "failed", "cancelled"}]
    BY <1>0 DEF Library!TypeOK
  <2>5. x3' \in [Jobs -> Library!Images]
    BY <1>0 DEF Library!TypeOK
  <2> QED BY <2>1, <2>2, <2>3, <2>4, <2>5 DEF StepTyped
<1>2. StepApart(j)
  BY DEF StepApart
<1>3. StepClean(j)
  BY DEF StepClean
<1>4. StepImages(j)
  BY ImagesStay
<1>5. Library!ImageSound(j)'
  BY <1>0 DEF Library!ImageSound, Library!Chosen, Library!Fits
<1>6. Library!ObjectSound(j)'
  BY <1>0 DEF Library!ObjectSound
<1>7. ASSUME x10' PROVE Library!CleanSound(j)'
  <2>1. x10 /\ x9 = {} /\ Library!CleanSound(j)
    BY <1>7
  <2> QED BY <1>7
<1>. QED BY <1>1, <1>2, <1>3, <1>4, <1>5, <1>6, OthersStay

(* The libraries stay sound when ImportEnds is what a job does. *)
LEMMA ImportEndsKept ==
  ASSUME Library!LibraryInv, NEW j \in Jobs, Library!ImportEnds(j)
  PROVE  Library!LibraryInv'
<1> USE ObjectAssumption DEF Library!ImportEnds, Library!Now, Library!Ends, Library!Fails, Library!Fine, Library!Leave, Library!what
<1>0. Library!TypeOK /\ Library!ImageSound(j) /\ Library!ObjectSound(j) /\ Library!CleanInv
  BY DEF Library!LibraryInv
<1>1. StepTyped
  <2>1. x6' \in [Jobs -> Library!Places]
    BY <1>0 DEF Library!TypeOK
  <2>2. x11' \in x11..LibraryFaults /\ x4' \subseteq Jobs /\ x9' \subseteq Jobs
    BY <1>0 DEF Library!TypeOK
  <2>3. x5' \in [Jobs -> Jobs \cup {Library!None}] /\ x7' \in [Jobs -> Library!Types \cup {Library!None}]
    BY <1>0 DEF Library!TypeOK
  <2>4. x8' \in [Jobs -> {"running", "ok", "failed", "cancelled"}]
    BY <1>0 DEF Library!TypeOK
  <2>5. x3' \in [Jobs -> Library!Images]
    BY <1>0, SetState
  <2> QED BY <2>1, <2>2, <2>3, <2>4, <2>5 DEF StepTyped
<1>2. StepApart(j)
  BY DEF StepApart
<1>3. StepClean(j)
  <2>0. x10 \in BOOLEAN /\ (x10' = x10 \/ x10' = FALSE) /\ x9' = x9
    BY <1>0 DEF Library!TypeOK
  <2>1. x10' \in BOOLEAN /\ (x10' => x10 /\ x9' = x9)
    BY <2>0, CleanFalls
  <2>2. ASSUME x10', NEW k \in Jobs \ {j} PROVE Library!Idle(k)
    <3>1. x10
      BY <2>2
    <3>0. Library!CleanSound(j)
      BY <1>0, <3>1 DEF Library!CleanInv
    <3>2. ~Library!Idle(j)
      BY <3>0 DEF Library!Idle, Library!CleanSound
    <3> QED BY <1>0, <3>1, <3>2 DEF Library!CleanInv
  <2> QED BY <2>1, <2>2 DEF StepClean
<1>4. StepImages(j)
  BY <1>0, SetState DEF StepImages
<1>5. Library!ImageSound(j)'
  BY <1>0, SetState DEF Library!ImageSound, Library!Chosen, Library!Fits
<1>6. Library!ObjectSound(j)'
  BY <1>0 DEF Library!TypeOK, Library!ObjectSound
<1>7. ASSUME x10' PROVE Library!CleanSound(j)'
  <2>1. x10 /\ x9 = {} /\ Library!CleanSound(j)
    BY <1>0, <1>7 DEF Library!CleanInv
  <2> QED BY <1>0, <1>7, <2>1, SetState DEF Library!CleanSound
<1>. QED BY <1>1, <1>2, <1>3, <1>4, <1>5, <1>6, <1>7, OthersStay

(* Every step of a job keeps the libraries sound. *)
LEMMA LibraryKept ==
  ASSUME Library!LibraryInv, Library!Next
  PROVE  Library!LibraryInv'
BY StartKept, FindKept, ReadSchemaKept, RepairKept, PlaceholderKept, CreateImageKept,
   WaitImportKept,
   ApplyCapabilitySchemaKept, RemoveObjectKept, CheckShapeKept, AddShapeKept, LaunchKept,
   RequestCancelKept, ImportEndsKept DEF Library!Next

(* What the runs check of the libraries follows. *)
LEMMA LibraryHolds ==
  ASSUME Library!LibraryInv
  PROVE  Library!TypeOK /\ Library!LaunchPinnedAlone /\ Library!LaunchFits /\ Library!PlaceholderRemoved
<1>0. /\ Library!TypeOK /\ Library!CleanInv
      /\ \A j \in Jobs : Library!ImageSound(j) /\ Library!ObjectSound(j)
  BY DEF Library!LibraryInv
<1>1. Library!LaunchPinnedAlone
  BY <1>0 DEF Library!LaunchPinnedAlone, Library!LaunchPinned, Library!CleanInv,
     Library!CleanSound, Library!Now
<1>2. Library!LaunchFits
  BY <1>0 DEF Library!LaunchFits, Library!ImageSound, Library!Chosen, Library!Fits, Library!Now
<1>3. Library!PlaceholderRemoved
  BY <1>0 DEF Library!PlaceholderRemoved, Library!ObjectSound, Library!TypeOK
<1>. QED BY <1>0, <1>1, <1>2, <1>3

-----------------------------------------------------------------------------
(* The import of an object. *)

(* An import begins sound. *)
LEMMA ImportStarts == Import!Init => Import!ImportInv
<1> SUFFICES ASSUME Import!Init PROVE Import!ImportInv
  OBVIOUS
<1> USE ObjectAssumption DEF Import!Init
<1>1. Import!TypeOK
  <2>1. DOMAIN x2 = {}
    OBVIOUS
  <2>2. x5 \in [Import!Disk -> {"none", "block", "boot"}]
    OBVIOUS
  <2>3. x8 \in [Import!Disk -> {"PENDING", "ATTACHED", "COPYING", "COPIED"}]
    OBVIOUS
  <2>4. x9 \in [Import!Disk -> {"empty", "part", "whole"}]
    OBVIOUS
  <2>5. x15 \in 0..ImportFaults
    OBVIOUS
  <2> QED BY <2>1, <2>2, <2>3, <2>4, <2>5 DEF Import!TypeOK
<1>2. Import!LayoutRead /\ Import!StillToCopy /\ Import!CopiedIsWhole
  BY DEF Import!LayoutRead, Import!StillToCopy, Import!CopiedIsWhole, Import!Known, Import!Disk
<1>. QED BY <1>1, <1>2 DEF Import!ImportInv

(* The disks of an object that was read *)
LEMMA DisksRead ==
  ASSUME x1 \in Import!Objects, Import!Readable(x1)
  PROVE  /\ 1..x1.n \subseteq Import!Disk
         /\ \A d \in 1..x1.n : Import!Source(x1, d).from \in {"object", "clusters", "range",
            "stream"}
                               /\ Import!Source(x1, d).boot \in BOOLEAN /\ Import!Source(x1,
                                  d).fits \in BOOLEAN
<1>1. x1.kind \in {"ova", "ovf", "vmdk",
   "qcow2"} /\ x1.n \in 1..(MaxDisks + 1) /\ (x1.kind \in {"vmdk", "qcow2"} => x1.n = 1)
  BY ObjectAssumption DEF Import!Objects
<1>2. x1.n <= MaxDisks
  BY <1>1, ObjectAssumption DEF Import!Readable, Import!DisksOf
<1>3. 1..x1.n \subseteq Import!Disk
  BY <1>1, <1>2, ObjectAssumption DEF Import!Disk
<1>4. ASSUME NEW d \in 1..x1.n
      PROVE  Import!Source(x1, d).from \in {"object", "clusters", "range", "stream"}
             /\ Import!Source(x1, d).boot \in BOOLEAN /\ Import!Source(x1, d).fits \in BOOLEAN
  BY DEF Import!Source
<1>. QED BY <1>3, <1>4

(* What the disks are taken to be does not change once they are known. *)
LEMMA ImportKept ==
  ASSUME Import!ImportInv, Import!Next
  PROVE  Import!ImportInv'
<1> USE ObjectAssumption DEF Import!record, Import!oci, Import!Keep, Import!Go
<1>0. Import!TypeOK /\ Import!LayoutRead /\ Import!StillToCopy /\ Import!CopiedIsWhole
  BY DEF Import!ImportInv
<1>a. x1 \in Import!Objects /\ x9 \in [Import!Disk -> {"empty", "part", "whole"}]
      /\ x8 \in [Import!Disk -> {"PENDING", "ATTACHED", "COPYING",
         "COPIED"}] /\ x11 \subseteq Import!Disk
  BY <1>0 DEF Import!TypeOK
<1>b. Import!Known \subseteq Import!Disk
  <2>1. CASE x2 = <<>>
    BY <2>1 DEF Import!Known
  <2>2. CASE x2 # <<>>
    BY <1>0, <1>a, <2>2, DisksRead DEF Import!LayoutRead, Import!Known
  <2> QED BY <2>1, <2>2
<1>1. CASE Import!CallFails \/ Import!Cancel \/ Import!CancelSeen
  <2>1. Import!TypeOK'
    <3>1. CASE Import!CallFails
      BY <1>0, <3>1 DEF Import!TypeOK, Import!CallFails, Import!Fail
    <3>2. CASE Import!Cancel
      BY <1>0, <3>2 DEF Import!TypeOK, Import!Cancel
    <3>3. CASE Import!CancelSeen
      BY <1>0, <3>3 DEF Import!TypeOK, Import!CancelSeen
    <3> QED BY <1>1, <3>1, <3>2, <3>3
  <2>2. Import!LayoutRead' /\ Import!StillToCopy' /\ Import!CopiedIsWhole'
    BY <1>0, <1>1 DEF Import!CallFails, Import!Cancel, Import!CancelSeen, Import!Fail,
       Import!LayoutRead,
       Import!StillToCopy, Import!CopiedIsWhole, Import!Known
  <2> QED BY <2>1, <2>2 DEF Import!ImportInv
<1>2. CASE Import!Cleanup
  <2>1. Import!TypeOK'
    BY <1>0, <1>2 DEF Import!TypeOK, Import!Cleanup
  <2>2. Import!LayoutRead' /\ Import!StillToCopy' /\ Import!CopiedIsWhole'
    BY <1>0, <1>2 DEF Import!Cleanup, Import!LayoutRead, Import!StillToCopy, Import!CopiedIsWhole,
       Import!Known
  <2> QED BY <2>1, <2>2 DEF Import!ImportInv
<1>3. CASE Import!Layout
  <2>1. CASE ~Import!Readable(x1)
    <3>1. Import!TypeOK'
      BY <1>0, <1>3, <2>1 DEF Import!TypeOK, Import!Layout
    <3>2. Import!LayoutRead' /\ Import!StillToCopy' /\ Import!CopiedIsWhole'
      BY <1>0, <1>3, <2>1 DEF Import!Layout, Import!LayoutRead, Import!StillToCopy,
         Import!CopiedIsWhole, Import!Known
    <3> QED BY <3>1, <3>2 DEF Import!ImportInv
  <2>2. CASE Import!Readable(x1)
    <3>1. x2' = [d \in 1..x1.n |-> Import!Source(x1,
       d)] /\ x1' = x1 /\ x10' = "seed" /\ x10 = "layout"
          /\ UNCHANGED <<x3, x4, x5, x6, x7, x8, x9, x11, x12, x13, x14, x15>>
      BY <1>3, <2>2 DEF Import!Layout
    <3>2. Import!TypeOK'
      BY <1>0, <1>a, <2>2, <3>1, DisksRead DEF Import!TypeOK
    <3>3. x2' # <<>>
      <4>1. x1.n \in Nat \ {0}
        BY <1>a DEF Import!Objects
      <4>2. 1 \in DOMAIN x2'
        BY <3>1, <4>1
      <4> QED BY <4>2
    <3>4. Import!LayoutRead' /\ Import!StillToCopy'
      BY <1>0, <2>2, <3>1, <3>3 DEF Import!LayoutRead, Import!StillToCopy, Import!Readable
    <3>5. \A d \in Import!Disk : x8'[d] # "COPIED"
      BY <1>0, <3>1 DEF Import!StillToCopy
    <3>6. Import!Known' \subseteq Import!Disk
      BY <1>a, <2>2, <3>1, DisksRead DEF Import!Known
    <3>7. Import!CopiedIsWhole'
      BY <3>5, <3>6 DEF Import!CopiedIsWhole
    <3> QED BY <3>2, <3>4, <3>7 DEF Import!ImportInv
  <2> QED BY <2>1, <2>2
<1>4. CASE Import!SeedImage \/ Import!Launch \/ Import!CreateVolume \/ Import!Preattach \/ Import!Stop \/ Import!DetachBoot
  <2>1. Import!TypeOK'
    BY <1>0, <1>4, <1>b DEF Import!TypeOK, Import!SeedImage, Import!Launch, Import!CreateVolume,
       Import!Preattach,
       Import!Stop, Import!DetachBoot, Import!Disk
  <2>2. Import!LayoutRead' /\ Import!CopiedIsWhole'
    BY <1>0, <1>4 DEF Import!LayoutRead, Import!CopiedIsWhole, Import!Known, Import!SeedImage,
       Import!Launch,
       Import!CreateVolume, Import!Preattach, Import!Stop, Import!DetachBoot
  <2>3. Import!StillToCopy'
    BY <1>0, <1>4 DEF Import!StillToCopy, Import!Known, Import!SeedImage, Import!Launch,
       Import!CreateVolume, Import!Preattach, Import!Stop, Import!DetachBoot
  <2> QED BY <2>1, <2>2, <2>3 DEF Import!ImportInv
<1>5. CASE Import!AttachToHelper
  <2>0. /\ UNCHANGED <<x1, x2, x3, x4, x5, x6, x9, x13, x15>> /\ x10 = "help"
        /\ x10' \in {"help", "copy", "ended"} /\ x12' \in {x12, "FAILED"} /\ x14' \in {x14, TRUE}
        /\ \/ x11' = x11 /\ UNCHANGED <<x7, x8>> /\ x10' # "copy"
           \/ x11' = Import!Known /\ x10' = "copy" /\ UNCHANGED <<x7, x8>>
           \/ \E d \in x11 : /\ x7' = x7 \union {d} /\ x11' = x11 \ {d} /\ x8' = [x8 EXCEPT ![d] = "ATTACHED"]
                            /\ x10' = "help"
    BY <1>5 DEF Import!AttachToHelper
  <2>1. x8' \in [Import!Disk -> {"PENDING", "ATTACHED", "COPYING", "COPIED"}]
        /\ \A d \in Import!Disk : x8'[d] = x8[d] \/ x8'[d] = "ATTACHED"
    BY <1>a, <2>0
  <2>2. x11' \subseteq Import!Disk /\ x7' \subseteq Import!Disk
    BY <1>0, <1>a, <1>b, <2>0 DEF Import!TypeOK
  <2>3. Import!TypeOK'
    BY <1>0, <2>0, <2>1, <2>2 DEF Import!TypeOK
  <2>4. Import!LayoutRead'
    BY <1>0, <2>0 DEF Import!LayoutRead
  <2>5. \A d \in Import!Disk : x8'[d] # "COPIED"
    BY <1>0, <2>0, <2>1 DEF Import!StillToCopy
  <2>6. Import!StillToCopy' /\ Import!CopiedIsWhole'
    BY <1>0, <1>b, <2>0, <2>2, <2>5 DEF Import!StillToCopy, Import!CopiedIsWhole, Import!Known
  <2> QED BY <2>3, <2>4, <2>6 DEF Import!ImportInv
<1>6. CASE Import!StartCopy
  <2>1. Import!TypeOK'
    BY <1>0, <1>6 DEF Import!TypeOK, Import!StartCopy
  <2>2. Import!LayoutRead'
    BY <1>0, <1>6 DEF Import!LayoutRead, Import!StartCopy
  <2>3. Import!StillToCopy'
    BY <1>0, <1>6, <1>a, <1>b DEF Import!StillToCopy, Import!Known, Import!StartCopy, Import!IsNext
  <2>4. \A d \in Import!Disk : x8'[d] = "COPIED" => x8[d] = "COPIED"
    BY <1>a, <1>6 DEF Import!StartCopy
  <2>5. Import!CopiedIsWhole'
    BY <1>0, <1>6, <1>b, <2>4 DEF Import!CopiedIsWhole, Import!Known, Import!StartCopy
  <2> QED BY <2>1, <2>2, <2>3, <2>5 DEF Import!ImportInv
<1>7. CASE Import!CannotCopy \/ Import!Finalize
  <2>1. Import!TypeOK'
    BY <1>0, <1>7 DEF Import!TypeOK, Import!CannotCopy, Import!Finalize, Import!Fail
  <2>2. Import!LayoutRead' /\ Import!StillToCopy' /\ Import!CopiedIsWhole'
    BY <1>0, <1>7 DEF Import!CannotCopy, Import!Finalize, Import!Fail, Import!LayoutRead,
       Import!StillToCopy, Import!CopiedIsWhole, Import!Known
  <2> QED BY <2>1, <2>2 DEF Import!ImportInv
<1>8. ASSUME NEW body \in {"whole", "between", "inside"}, Import!Copy(body) PROVE Import!ImportInv'
  <2> DEFINE d == Import!Min(x11)
  <2>1. d \in x11 /\ d \in Import!Known /\ d \in Import!Disk /\ x8[d] # "COPIED"
    BY <1>0, <1>8, <1>b DEF Import!StillToCopy, Import!Copy
  <2>2. /\ UNCHANGED <<x1, x2, x3, x4, x5, x6, x7, x13, x14>>
        /\ x10 = "copying" /\ x10' \in {"copy", "ended"} /\ x12' \in {x12, "FAILED"}
        /\ x15' \in {x15, x15 + 1} /\ (x15' = x15 \/ x15 < ImportFaults)
        /\ x9' = [x9 EXCEPT ![d] = IF body = "whole" THEN "whole" ELSE "part"]
        /\ IF Import!EndsWell(x2[d].from, body)
           THEN x8' = [x8 EXCEPT ![d] = "COPIED"] /\ x11' = x11 \ {d}
           ELSE x8' = x8 /\ x11' = x11 /\ x10' = "ended"
        /\ x2[d].fits
    BY <1>8 DEF Import!Copy, Import!Fail
  <2> HIDE DEF d
  <2>3. Import!TypeOK'
    <3>1. x8' \in [Import!Disk -> {"PENDING", "ATTACHED", "COPYING", "COPIED"}]
      BY <1>a, <2>2
    <3>2. x9' \in [Import!Disk -> {"empty", "part", "whole"}]
      BY <1>a, <2>2
    <3>3. x11' \subseteq Import!Disk
      BY <1>a, <2>2
    <3>4. x12' \in {"active", "FAILED", "CANCELLED"} /\ x15' \in 0..ImportFaults
      BY <1>0, <2>2 DEF Import!TypeOK
    <3> QED BY <1>0, <2>2, <3>1, <3>2, <3>3, <3>4 DEF Import!TypeOK
  <2>4. Import!LayoutRead'
    BY <1>0, <2>2 DEF Import!LayoutRead
  <2>5. \A e \in Import!Disk \ {d} : x8'[e] = x8[e] /\ x9'[e] = x9[e]
    BY <1>a, <2>2
  <2>6. Import!StillToCopy'
    BY <1>0, <1>b, <2>1, <2>2, <2>5 DEF Import!StillToCopy, Import!Known
  <2>7. x8'[d] = "COPIED" => x9'[d] = "whole" \/ x1.kind = "ovf"
    <3>1. ASSUME x8'[d] = "COPIED", body # "whole" PROVE x1.kind = "ovf"
      <4>1. Import!EndsWell(x2[d].from, body)
        BY <2>1, <2>2, <3>1
      <4>2. x2[d].from = "object"
        BY <3>1, <4>1 DEF Import!EndsWell
      <4>3. x2[d] = Import!Source(x1, d)
        <5>1. d \in DOMAIN x2
          BY <2>1 DEF Import!Known
        <5>2. x2 # <<>>
          BY <5>1
        <5>3. x2 = [e \in 1..x1.n |-> Import!Source(x1, e)]
          BY <1>0, <5>2 DEF Import!LayoutRead
        <5> QED BY <5>1, <5>3
      <4>4. x1.kind \in {"ova", "ovf", "vmdk", "qcow2"}
        BY <1>a, ObjectAssumption DEF Import!Objects
      <4>5. x1.kind # "vmdk"
        <5>1. Import!Source(x1, d).fits
          BY <2>2, <4>3
        <5> QED BY <5>1 DEF Import!Source
      <4>6. x1.kind \notin {"ova", "qcow2"}
        BY <4>2, <4>3 DEF Import!Source
      <4> QED BY <4>4, <4>5, <4>6
    <3> QED BY <1>a, <2>1, <2>2, <3>1
  <2>8. Import!CopiedIsWhole'
    BY <1>0, <1>b, <2>2, <2>5, <2>7 DEF Import!CopiedIsWhole, Import!Known
  <2> QED BY <2>3, <2>4, <2>6, <2>8 DEF Import!ImportInv
<1>9. CASE Import!CancelledCopy
  <2>1. Import!TypeOK'
    BY <1>0, <1>9 DEF Import!TypeOK, Import!CancelledCopy
  <2>2. Import!LayoutRead' /\ Import!StillToCopy' /\ Import!CopiedIsWhole'
    BY <1>0, <1>9, <1>a, <1>b DEF Import!CancelledCopy, Import!LayoutRead,
       Import!StillToCopy, Import!CopiedIsWhole, Import!Known
  <2> QED BY <2>1, <2>2 DEF Import!ImportInv
<1>. QED BY <1>1, <1>2, <1>3, <1>4, <1>5, <1>6, <1>7, <1>8, <1>9 DEF Import!Next

(* What the runs check of an import follows. *)
LEMMA ImportHolds ==
  ASSUME Import!ImportInv
  PROVE  Import!TypeOK /\ Import!NothingBuiltForABadArchive /\ Import!CopiedIsWhole
<1>1. ASSUME x3, x1.kind = "ova"
      PROVE  Import!AllThere(x1) /\ x1.shape \notin {"damaged", "alien"} /\ x1.n <= MaxDisks
  <2>1. Import!Readable(x1)
    BY <1>1 DEF Import!ImportInv, Import!LayoutRead
  <2>2. x1.n \in Nat /\ x1.missing \in 0..x1.n
    BY ObjectAssumption DEF Import!ImportInv, Import!TypeOK, Import!Objects
  <2> QED BY <1>1, <2>1, <2>2 DEF Import!Readable, Import!DisksOf, Import!Indexed, Import!Member,
     Import!AllThere
<1>. QED BY <1>1 DEF Import!ImportInv, Import!NothingBuiltForABadArchive

-----------------------------------------------------------------------------
(* The fix-up of a guest. *)

(* What Append, Front and Last do to the elements of a sequence *)
LEMMA Noting ==
  ASSUME NEW S, NEW s \in Seq(S), NEW e \in S
  PROVE  /\ Append(s, e) \in Seq(S) /\ Guest!ToSet(Append(s, e)) = Guest!ToSet(s) \union {e}
         /\ Append(s, e) # <<>>
<1>1. \A i \in 1..Len(Append(s, e)) : Append(s, e)[i] = IF i = Len(s) + 1 THEN e ELSE s[i]
  OBVIOUS
<1>2. Len(Append(s, e)) = Len(s) + 1 /\ Len(s) \in Nat
  OBVIOUS
<1>. QED BY <1>1, <1>2 DEF Guest!ToSet

(* Front and Last part a sequence. *)
LEMMA Undoing ==
  ASSUME NEW S, NEW s \in Seq(S), s # <<>>
  PROVE  /\ Guest!Front(s) \in Seq(S) /\ Guest!Last(s) \in S
         /\ Guest!ToSet(s) = Guest!ToSet(Guest!Front(s)) \union {Guest!Last(s)}
<1>1. Len(s) \in Nat \ {0}
  OBVIOUS
<1>2. /\ Guest!Front(s) \in Seq(S) /\ Len(Guest!Front(s)) = Len(s) - 1
      /\ \A i \in 1..Len(s) - 1 : Guest!Front(s)[i] = s[i]
  <2> DEFINE n == Len(s) - 1
  <2>1. 1 \in Int /\ n \in Int /\ (IF 1 <= n THEN n - 1 + 1 ELSE 0) = n
        /\ n - 1 + 1 = n /\ \A i \in 1..n : 1 + i - 1 = i
    BY <1>1
  <2>2. Guest!Front(s) = SubSeq(s, 1, Len(s) - 1)
    BY DEF Guest!Front
  <2>3. \A i \in 1..n : s[i] \in S
    BY <1>1
  <2> HIDE DEF n
  <2>4. /\ SubSeq(s, 1, n) \in Seq(S) /\ Len(SubSeq(s, 1, n)) = (IF 1 <= n THEN n - 1 + 1 ELSE 0)
        /\ \A i \in 1..n - 1 + 1 : SubSeq(s, 1, n)[i] = s[1 + i - 1]
    BY <2>1, <2>3, SubSeqProperties
  <2>5. /\ SubSeq(s, 1, n) \in Seq(S) /\ Len(SubSeq(s, 1, n)) = n
        /\ \A i \in 1..n : SubSeq(s, 1, n)[i] = s[i]
    BY <2>1, <2>4
  <2> QED BY <2>2, <2>5 DEF n
<1>4. Guest!Last(s) = s[Len(s)]
  BY DEF Guest!Last
<1>. QED BY <1>1, <1>2, <1>4 DEF Guest!ToSet

(* Nothing is noted in the empty sequence. *)
LEMMA NothingNoted == Guest!ToSet(<<>>) = {}
BY DEF Guest!ToSet

(* A session starts with nothing. *)
LEMMA GuestStarts == Guest!Init => Guest!GuestInv
<1> SUFFICES ASSUME Guest!Init PROVE Guest!GuestInv
  OBVIOUS
<1>1. x10 \in [Guest!Kernel -> {"old", "new", "lost"}] /\ Guest!ImagesKept
  BY DEF Guest!Init, Guest!ImagesKept
<1>2. x5 = <<>> /\ x5 \in Seq(1..NumGroups) /\ x7 = <<>> /\ x7 \in Seq(Guest!Places)
  BY DEF Guest!Init
<1>3. /\ x1 \in Guest!Guests /\ x2 = "scan" /\ x4 = {} /\ x6 = {} /\ x8 = 2 /\ x9 = FALSE
      /\ x11 \in 0..MaxRoom /\ x12 = {} /\ x13 = {} /\ x14 = {} /\ x15 = {} /\ x16 = "none"
      /\ x17 = {} /\ x18 = 0
  BY DEF Guest!Init
<1>6. Guest!TypeOK
  <2>1. x9 \in BOOLEAN
    BY <1>3
  <2>2. x8 \in 0..2 /\ x11 \in 0..MaxRoom /\ x18 \in 0..2
    BY <1>3, ObjectAssumption
  <2>3. /\ x4 \subseteq 1..NumGroups /\ x6 \subseteq Guest!Places /\ x17 \subseteq Guest!Places
        /\ x12 \union x13 \union x14 \union x15 \subseteq Guest!Kernel
    BY <1>3
  <2>4. x3 \in Guest!Left
    BY DEF Guest!Init, Guest!Left
  <2> QED BY <1>1, <1>2, <1>3, <2>1, <2>2, <2>3, <2>4 DEF Guest!TypeOK, Guest!Outcomes
<1>4. Guest!Noted
  <2>1. x1.groups \in Nat
    BY <1>3, ObjectAssumption DEF Guest!Guests
  <2>2. Len(x5) = 0 /\ 1..Len(x5) = {} /\ Len(x5) <= x1.groups
    BY <1>2, <2>1
  <2> QED BY <1>2, <1>3, <2>2, NothingNoted DEF Guest!Noted
<1>5. Guest!Surveyed /\ Guest!SuccessBoots
  BY DEF Guest!Init, Guest!Surveyed, Guest!SuccessBoots
<1> QED BY <1>1, <1>4, <1>5, <1>6 DEF Guest!GuestInv

GuestKernels == <<x10, x11, x12, x13, x14, x15, x17>>

(* What is left grows by some mounts, or by some groups. *)
LEMMA LeftGrows ==
  ASSUME x3 \in Guest!Left, NEW M \in SUBSET Guest!Places, NEW G \in SUBSET (1..NumGroups)
  PROVE  /\ x3.mounts \subseteq Guest!Places /\ x3.groups \subseteq 1..NumGroups
         /\ LET l == [x3 EXCEPT !.mounts = @ \union M]
            IN l \in Guest!Left /\ l.mounts = x3.mounts \union M /\ l.groups = x3.groups
         /\ LET l == [x3 EXCEPT !.groups = @ \union G]
            IN l \in Guest!Left /\ l.groups = x3.groups \union G /\ l.mounts = x3.mounts
BY DEF Guest!Left

(* What the part of the invariant about kernels says is kept where kernels *)
(* stay and the place stays early, or late.                                *)
LEMMA KernelsStay ==
  ASSUME Guest!GuestInv, UNCHANGED <<x1, GuestKernels>>, x18 >= 2 => x18' >= 2,
         \/ /\ x2 \in {"scan", "lvm", "root", "split", "look", "boot", "initramfs"}
            /\ \/ x2' \in {"scan", "lvm", "root", "split", "look", "boot", "initramfs"} /\ x16' = x16
               \/ x2' \in {"rest", "umount"} /\ x16' \in {"skipped", "failed"}
         \/ /\ x2 \in {"rest", "umount", "lvmoff", "remove"} /\ x16' = x16
            /\ x2' \in {"rest", "umount", "lvmoff", "remove"}
  PROVE  Guest!ImagesKept' /\ Guest!Surveyed' /\ Guest!SuccessBoots'
<1>1. x16' = x16 \/ x16 = "none"
  BY DEF Guest!GuestInv, Guest!Surveyed
<1>2. Guest!ImagesKept'
  BY <1>1 DEF GuestKernels, Guest!GuestInv, Guest!ImagesKept
<1>3. \A k \in Guest!Kernel : Guest!Has(k)' <=> Guest!Has(k)
  BY DEF GuestKernels, Guest!Has
<1>4. Guest!Surveyed'
  BY DEF GuestKernels, Guest!GuestInv, Guest!Surveyed
<1>5. Guest!SuccessBoots'
  <2>1. x1.default \in Guest!Kernel
    BY DEF Guest!GuestInv, Guest!TypeOK, Guest!Guests
  <2> QED BY <1>1, <1>3, <2>1 DEF GuestKernels, Guest!GuestInv, Guest!SuccessBoots
<1> QED BY <1>2, <1>4, <1>5

(* Every step keeps what is noted, and every kernel accounted for. *)
LEMMA GuestKept == ASSUME Guest!GuestInv, Guest!Next PROVE Guest!GuestInv'
<1>0. Guest!TypeOK /\ Guest!Noted /\ Guest!ImagesKept /\ Guest!Surveyed /\ Guest!SuccessBoots
  BY DEF Guest!GuestInv
<1>a. /\ x18 \in 0..2 /\ x3 \in Guest!Left /\ x5 \in Seq(1..NumGroups) /\ x7 \in Seq(Guest!Places)
      /\ x4 \subseteq 1..NumGroups /\ x6 \subseteq Guest!Places
  BY <1>0 DEF Guest!TypeOK
<1>f. /\ Guest!Fault => x18' \in 0..2 /\ x18' >= 1 /\ (x18 >= 2 => x18' >= 2)
      /\ UNCHANGED x18 => x18' \in 0..2 /\ (x18 >= 2 => x18' >= 2)
  BY <1>a DEF Guest!Fault
<1>g. x1.groups \in 0..NumGroups /\ x1.default \in Guest!Kernel
  BY <1>0 DEF Guest!TypeOK, Guest!Guests
<1>h. x3.mounts \subseteq Guest!Places /\ x3.groups \subseteq 1..NumGroups
  BY <1>a DEF Guest!Left
<1>1. CASE Guest!Scan
  <2>1. Guest!TypeOK'
    BY <1>0, <1>1 DEF Guest!Scan, Guest!TypeOK, Guest!mountVars, Guest!kernelVars, Guest!lvmVars
  <2>2. Guest!Noted'
    <3>1. /\ UNCHANGED <<x1, x3, x4, x5, x6, x7, x17>> /\ x2 = "scan"
          /\ x2' = IF x1.groups = 0 THEN "root" ELSE "lvm"
      BY <1>1 DEF Guest!Scan, Guest!mountVars, Guest!lvmVars
    <3>2. x1.groups = 0 => x4 = {}
      BY <1>0, <3>1 DEF Guest!Noted
    <3> QED BY <1>0, <3>1, <3>2 DEF Guest!Noted
  <2>3. Guest!ImagesKept' /\ Guest!Surveyed' /\ Guest!SuccessBoots'
    BY <1>1, <1>f, KernelsStay DEF Guest!Scan, Guest!kernelVars, GuestKernels
  <2> QED BY <2>1, <2>2, <2>3 DEF Guest!GuestInv
<1>2. CASE Guest!Clash \/ Guest!OpenFails
  <2>a. /\ UNCHANGED <<x1, x4, x5, x6, x7, x8, x9, GuestKernels>> /\ x2' = "umount"
        /\ x2 \in {"scan", "lvm", "root"} /\ x16' \in {"skipped", "failed"}
        /\ x18' \in 0..2 /\ (x18 >= 2 => x18' >= 2) /\ Guest!Forgotten
    BY <1>2, <1>f DEF Guest!Clash, Guest!OpenFails, Guest!NoRoot, Guest!mountVars, Guest!kernelVars, GuestKernels
  <2>b. x3' \in Guest!Left /\ x3'.mounts = x3.mounts /\ x3'.groups = x3.groups \union (x4 \ Guest!ToSet(x5))
    <3>1. x4 \ Guest!ToSet(x5) \in SUBSET (1..NumGroups) /\ {} \in SUBSET Guest!Places
      BY <1>a
    <3> QED BY <1>a, <2>a, <3>1, LeftGrows DEF Guest!Forgotten
  <2>1. Guest!TypeOK'
    BY <1>0, <2>a, <2>b DEF Guest!TypeOK, Guest!Outcomes, GuestKernels
  <2>2. Guest!Noted'
    BY <1>0, <2>a, <2>b DEF Guest!Noted, GuestKernels
  <2>3. Guest!ImagesKept' /\ Guest!Surveyed' /\ Guest!SuccessBoots'
    BY <2>a, KernelsStay
  <2> QED BY <2>1, <2>2, <2>3 DEF Guest!GuestInv
<1>18. ASSUME NEW g \in 1..NumGroups, Guest!UdevActivates(g) PROVE Guest!GuestInv'
  <2>1. /\ x2 \in {"scan", "lvm"} /\ x4' = x4 \union {g} /\ g \in 1..x1.groups
        /\ UNCHANGED <<x1, x2, x3, x5, x6, x7, x8, x9, GuestKernels, x16, x18>>
    BY <1>18 DEF Guest!UdevActivates, Guest!mountVars, Guest!kernelVars, GuestKernels
  <2>2. Guest!TypeOK'
    BY <1>0, <1>18, <2>1 DEF Guest!TypeOK, GuestKernels
  <2>3. Guest!Noted'
    BY <1>0, <2>1 DEF Guest!Noted, GuestKernels
  <2>4. Guest!ImagesKept' /\ Guest!Surveyed' /\ Guest!SuccessBoots'
    BY <2>1, <1>f, KernelsStay
  <2> QED BY <2>2, <2>3, <2>4 DEF Guest!GuestInv
<1>3. ASSUME NEW g \in 1..NumGroups, Guest!ActivateGroup(g) PROVE Guest!GuestInv'
  <2>1. /\ x2 = "lvm" /\ x5' = Append(x5, g) /\ x4' = x4 \union {g} /\ g = Len(x5) + 1 /\ g <= x1.groups
        /\ x2' = IF g = x1.groups THEN "root" ELSE "lvm"
        /\ UNCHANGED <<x1, x3, x6, x7, x8, x9, GuestKernels, x16, x18>>
    BY <1>3 DEF Guest!ActivateGroup, Guest!mountVars, Guest!kernelVars, GuestKernels
  <2>2. x5' \in Seq(1..NumGroups) /\ Guest!ToSet(x5') = Guest!ToSet(x5) \union {g} /\ Len(x5') = g
    <3> DEFINE T == 1..NumGroups
    <3>1. x5 \in Seq(T) /\ g \in T
      BY <1>3, <1>a
    <3> HIDE DEF T
    <3>2. x5' \in Seq(T) /\ Guest!ToSet(x5') = Guest!ToSet(x5) \union {g}
      BY <2>1, <3>1, Noting
    <3>3. Len(x5') = g
      BY <2>1, <3>1
    <3> QED BY <3>2, <3>3 DEF T
  <2>3. Guest!ToSet(x5') = 1..g
    <3>1. Len(x5) \in Nat /\ Guest!ToSet(x5) = 1..Len(x5)
      BY <1>0, <1>a, <2>1 DEF Guest!Noted
    <3>2. 1..g = (1..Len(x5)) \union {g}
      BY <2>1, <3>1
    <3> QED BY <2>2, <3>1, <3>2
  <2>4. Guest!TypeOK'
    BY <1>0, <1>3, <2>1, <2>2 DEF Guest!TypeOK, GuestKernels
  <2>5. Guest!Noted'
    <3>1. x4' \subseteq 1..x1.groups
      BY <1>0, <1>g, <1>3, <2>1 DEF Guest!Noted
    <3> QED BY <1>0, <2>1, <2>2, <2>3, <3>1 DEF Guest!Noted, GuestKernels
  <2>6. Guest!ImagesKept' /\ Guest!Surveyed' /\ Guest!SuccessBoots'
    BY <2>1, <1>f, KernelsStay
  <2> QED BY <2>4, <2>5, <2>6 DEF Guest!GuestInv
<1>4. ASSUME NEW where \in Guest!Places,
             Guest!MountDone(where) \/ Guest!MountFails(where) \/ UNCHANGED <<x3, x6, x7, x18>>
      PROVE  /\ x7' \in Seq(Guest!Places) /\ x6' \subseteq Guest!Places /\ x3' \in Guest!Left
             /\ x18' \in 0..2 /\ (x18 >= 2 => x18' >= 2)
             /\ x3.mounts \subseteq x3'.mounts /\ x3'.groups = x3.groups
             /\ x6' \subseteq Guest!ToSet(x7') \union x3'.mounts
             /\ Guest!ToSet(x7) \subseteq Guest!ToSet(x7')
  <2>1. CASE Guest!MountDone(where)
    BY <2>1, <1>a, <1>0, <1>f, Noting DEF Guest!MountDone, Guest!Noted
  <2>2. CASE Guest!MountFails(where) /\ UNCHANGED <<x6, x3>>
    BY <2>2, <1>a, <1>0, <1>f DEF Guest!MountFails, Guest!Noted
  <2>3. CASE Guest!MountFails(where) /\ ~UNCHANGED <<x6, x3>>
    <3>1. /\ x7' = x7 /\ x6' = x6 \union {where} /\ x3' = [x3 EXCEPT !.mounts = @ \union {where}] /\ Guest!Fault
      BY <2>3 DEF Guest!MountFails
    <3>2. x3' \in Guest!Left /\ x3'.mounts = x3.mounts \union {where} /\ x3'.groups = x3.groups
      BY <3>1, <1>a, <1>4, LeftGrows
    <3> QED BY <3>1, <3>2, <1>a, <1>0, <1>f, <1>4 DEF Guest!Noted
  <2>4. CASE UNCHANGED <<x3, x6, x7, x18>>
    BY <2>4, <1>a, <1>0, <1>f DEF Guest!Noted
  <2> QED BY <1>4, <2>1, <2>2, <2>3, <2>4
<1>5. CASE Guest!MountRoot \/ Guest!MountSplit \/ Guest!MountBoot \/ Guest!MountBootFails
           \/ \E where \in {"dev", "proc", "sys"} : Guest!Bind(where)
  <2>1. /\ UNCHANGED <<x1, x4, x5, GuestKernels>> /\ x8' \in 0..2 /\ x9' \in BOOLEAN
        /\ x16' \in Guest!Outcomes
        /\ x2 \in {"root", "split", "boot", "initramfs"}
        /\ \/ x2' \in {"root", "split", "look", "initramfs"} /\ x16' = x16
           \/ x2' \in {"rest", "umount"} /\ x16' = "failed"
    <3>1. x8 \in 0..2 /\ x9 \in BOOLEAN /\ x16 \in Guest!Outcomes /\ "failed" \in Guest!Outcomes
      BY <1>0 DEF Guest!TypeOK, Guest!Outcomes
    <3>2. CASE Guest!MountRoot
      BY <3>1, <3>2 DEF Guest!MountRoot, Guest!kernelVars, GuestKernels
    <3>3. CASE Guest!MountSplit
      BY <3>1, <3>3 DEF Guest!MountSplit, Guest!kernelVars, GuestKernels
    <3>4. CASE Guest!MountBoot \/ Guest!MountBootFails
      BY <3>1, <3>4 DEF Guest!MountBoot, Guest!MountBootFails, Guest!NoRoot, Guest!kernelVars, GuestKernels
    <3>5. CASE \E where \in {"dev", "proc", "sys"} : Guest!Bind(where)
      BY <3>1, <3>5 DEF Guest!Bind, Guest!kernelVars, GuestKernels
    <3> QED BY <1>5, <3>2, <3>3, <3>4, <3>5
  <2>2. \E where \in Guest!Places :
          Guest!MountDone(where) \/ Guest!MountFails(where) \/ UNCHANGED <<x3, x6, x7, x18>>
    BY <1>5 DEF Guest!MountRoot, Guest!MountSplit, Guest!MountBoot, Guest!MountBootFails, Guest!Bind, Guest!Places
  <2>3. /\ x7' \in Seq(Guest!Places) /\ x6' \subseteq Guest!Places /\ x3' \in Guest!Left
        /\ x18' \in 0..2 /\ (x18 >= 2 => x18' >= 2) /\ x3'.groups = x3.groups
        /\ x3.mounts \subseteq x3'.mounts /\ x6' \subseteq Guest!ToSet(x7') \union x3'.mounts
    BY <2>2, <1>4
  <2>4. Guest!TypeOK'
    BY <1>0, <2>1, <2>3 DEF Guest!TypeOK, GuestKernels
  <2>5. Guest!Noted'
    BY <1>0, <2>1, <2>3 DEF Guest!Noted, GuestKernels
  <2>6. Guest!ImagesKept' /\ Guest!Surveyed' /\ Guest!SuccessBoots'
    BY <2>1, <2>3, KernelsStay
  <2> QED BY <2>4, <2>5, <2>6 DEF Guest!GuestInv
<1>6. CASE Guest!IsRoot \/ Guest!NoRootFound \/ Guest!SkipInitramfs \/ Guest!Rest
  <2>1. /\ UNCHANGED <<x1, x3, x4, x5, x6, x7, x9, GuestKernels, x18>> /\ x8' \in {0, x8}
        /\ x2 \in {"look", "root", "initramfs", "rest"}
        /\ \/ x2 = "look" /\ x2' = "boot" /\ x16' = x16
           \/ x2 \in {"root", "initramfs"} /\ x2' \in {"rest", "umount"} /\ x16' = "skipped"
           \/ x2 = "rest" /\ x2' = "umount" /\ x16' = x16
    BY <1>6 DEF Guest!IsRoot, Guest!NoRootFound, Guest!SkipInitramfs, Guest!Rest, Guest!NoRoot, Guest!mountVars,
       Guest!kernelVars, Guest!lvmVars, GuestKernels
  <2>2. x8' \in 0..2
    BY <1>0, <2>1 DEF Guest!TypeOK
  <2>3. Guest!TypeOK'
    BY <1>0, <2>1, <2>2 DEF Guest!TypeOK, Guest!Outcomes, GuestKernels
  <2>4. Guest!Noted'
    BY <1>0, <2>1 DEF Guest!Noted, GuestKernels
  <2>5. Guest!ImagesKept' /\ Guest!Surveyed' /\ Guest!SuccessBoots'
    BY <2>1, <1>f, KernelsStay
  <2> QED BY <2>3, <2>4, <2>5 DEF Guest!GuestInv
<1>7. CASE Guest!NotRoot
  <2>1. /\ x2 = "look" /\ x2' = "root" /\ x7' = <<>> /\ x6' \in SUBSET x6
        /\ x3' = [x3 EXCEPT !.mounts = @ \union x6']
        /\ UNCHANGED <<x1, x4, x5, x8, x9, GuestKernels, x16>>
    BY <1>7 DEF Guest!NotRoot, Guest!kernelVars, GuestKernels
  <2>2. x18' \in 0..2 /\ (x18 >= 2 => x18' >= 2)
    BY <1>7, <1>f DEF Guest!NotRoot
  <2>3. x3' \in Guest!Left /\ x3'.mounts = x3.mounts \union x6' /\ x3'.groups = x3.groups
    <3>1. x6' \in SUBSET Guest!Places /\ {} \in SUBSET (1..NumGroups)
      BY <1>a, <2>1
    <3> QED BY <1>a, <2>1, <3>1, LeftGrows
  <2>4. x7' \in Seq(Guest!Places) /\ x6' \subseteq Guest!Places
    BY <1>a, <2>1
  <2>5. Guest!TypeOK'
    BY <1>0, <2>1, <2>2, <2>3, <2>4 DEF Guest!TypeOK, GuestKernels
  <2>6. Guest!Noted'
    BY <1>0, <2>1, <2>3 DEF Guest!Noted, GuestKernels
  <2>7. Guest!ImagesKept' /\ Guest!Surveyed' /\ Guest!SuccessBoots'
    BY <2>1, <2>2, KernelsStay
  <2> QED BY <2>5, <2>6, <2>7 DEF Guest!GuestInv
<1>8. ASSUME NEW unread \in SUBSET Guest!Kernel, Guest!Survey(unread) PROVE Guest!GuestInv'
  <2> DEFINE lack == {k \in Guest!Kernel : ~Guest!Has(k)} \union unread
             without == {k \in lack : ~x1.ships[k]}
  <2>1. /\ x2 = "initramfs"
        /\ UNCHANGED <<x1, x3, x4, x5, x6, x7, x8, x9, x10, x11, x13, x15, x17>>
        /\ \/ lack = {} /\ x16' = "not_needed" /\ x2' = "rest" /\ UNCHANGED <<x12, x14>>
           \/ x16' = "failed" /\ x2' = "rest" /\ UNCHANGED <<x12, x14>>
           \/ /\ without # Guest!Kernel
              /\ x12' = lack \ without /\ x14' = without /\ x2' = "kernel" /\ UNCHANGED x16
    BY <1>8 DEF Guest!Survey, Guest!lvmVars, Guest!mountVars
  <2>2. x18' \in 0..2 /\ (x18 >= 2 => x18' >= 2)
    BY <1>8, <1>f DEF Guest!Survey
  <2>3. lack \subseteq Guest!Kernel /\ without \subseteq lack
    BY <1>8
  <2>4. /\ \A k \in Guest!Kernel : Guest!Has(k)' <=> Guest!Has(k)
        /\ \A k \in Guest!Kernel : k \notin lack => Guest!Has(k)
    BY <2>1 DEF Guest!Has
  <2> HIDE DEF lack, without
  <2>6. Guest!TypeOK'
    BY <1>0, <2>1, <2>2, <2>3 DEF Guest!TypeOK, Guest!Outcomes
  <2>7. Guest!Noted'
    BY <1>0, <2>1 DEF Guest!Noted
  <2>8. x13 = {} /\ x15 = {} /\ x16 = "none"
    BY <1>0, <2>1 DEF Guest!Surveyed
  <2>9. Guest!Surveyed'
    BY <2>1, <2>3, <2>4, <1>g, <2>8 DEF Guest!Surveyed
  <2>10. Guest!SuccessBoots'
    BY <2>1, <2>4, <1>g, <2>8 DEF Guest!SuccessBoots
  <2>11. Guest!ImagesKept'
    BY <1>0, <2>1, <2>8 DEF Guest!ImagesKept
  <2> QED BY <2>6, <2>7, <2>9, <2>10, <2>11 DEF Guest!GuestInv
<1>9. ASSUME x2 = "kernel", Guest!Failed, UNCHANGED <<x1, x3, x4, x5, x6, x7, x8, x9, x11, x14, x17>>, x18' \in 0..2,
             NEW k \in Guest!Kernel, NEW what \in {"old", "new", "lost"}, x10' \in {x10, [x10 EXCEPT ![k] = what]},
             x10' = x10 \/ what # "lost" \/ (~x1.staging) \/ x18' >= 2
      PROVE Guest!GuestInv'
  <2>1. x10' \in [Guest!Kernel -> {"old", "new", "lost"}]
    BY <1>0, <1>9 DEF Guest!TypeOK
  <2>2. Guest!TypeOK'
    BY <1>0, <1>9, <2>1 DEF Guest!Failed, Guest!TypeOK, Guest!Outcomes
  <2>3. Guest!Noted' /\ Guest!Surveyed' /\ Guest!SuccessBoots'
    BY <1>0, <1>9 DEF Guest!Failed, Guest!Noted, Guest!Surveyed, Guest!SuccessBoots
  <2>4. x16' = "failed" /\ x16 = "none" /\ x17 = {}
    BY <1>0, <1>9 DEF Guest!Failed, Guest!Surveyed, Guest!Noted
  <2>5. \A j \in Guest!Kernel : x10[j] # "lost"
    BY <1>0, <2>4 DEF Guest!ImagesKept
  <2>6. \A j \in Guest!Kernel : x10'[j] = "lost" => x10' # x10 /\ what = "lost"
    BY <1>0, <1>9, <2>5 DEF Guest!TypeOK
  <2>7. Guest!ImagesKept'
    BY <1>9, <2>4, <2>6 DEF Guest!ImagesKept
  <2> QED BY <2>2, <2>3, <2>7 DEF Guest!GuestInv
<1>10. ASSUME NEW k \in Guest!Kernel, Guest!DracutFails(k) PROVE Guest!GuestInv'
  <2>1. /\ x2 = "kernel" /\ Guest!Failed /\ UNCHANGED <<x1, x3, x4, x5, x6, x7, x8, x9, x11, x14, x17>>
        /\ x18' \in 0..2
        /\ \/ UNCHANGED x10
           \/ (~x1.staging) /\ x10' \in {[x10 EXCEPT ![k] = what] : what \in {"new", "lost"}}
    BY <1>10, <1>f DEF Guest!DracutFails, Guest!Turn, Guest!lvmVars, Guest!mountVars
  <2>2. PICK what \in {"old", "new", "lost"} :
          x10' = x10 \/ ((~x1.staging) /\ x10' = [x10 EXCEPT ![k] = what])
    BY <2>1
  <2> QED BY <1>9, <1>10, <2>1, <2>2
<1>11. ASSUME NEW k \in Guest!Kernel, Guest!InstallFails(k) PROVE Guest!GuestInv'
  <2>1. /\ x2 = "kernel" /\ Guest!Failed /\ UNCHANGED <<x1, x3, x4, x5, x6, x7, x8, x9, x11, x14, x17>>
        /\ \/ Guest!Fault /\ x10' = x10
           \/ x18 + 2 <= 2 /\ x18' = x18 + 2 /\ x10' = [x10 EXCEPT ![k] = "lost"]
    BY <1>11 DEF Guest!InstallFails, Guest!Turn, Guest!lvmVars, Guest!mountVars
  <2>2. x18' \in 0..2 /\ (x10' = x10 \/ (x18' >= 2 /\ x10' = [x10 EXCEPT ![k] = "lost"]))
    BY <2>1, <1>a, <1>f
  <2> QED BY <1>9, <1>11, <2>1, <2>2
<1>12. ASSUME NEW k \in Guest!Kernel, Guest!NoRoom(k) PROVE Guest!GuestInv'
  <2>1. CASE Guest!Failed
    BY <1>9, <1>12, <2>1, <1>a DEF Guest!NoRoom, Guest!Turn, Guest!lvmVars, Guest!mountVars
  <2>2. CASE ~Guest!Failed
    <3>1. /\ x2 = "kernel" /\ k # x1.default /\ x13 # {} /\ x15' = x15 \union {k} /\ x12' = x12 \ {k}
          /\ UNCHANGED <<x1, x2, x3, x4, x5, x6, x7, x8, x9, x10, x11, x13, x14, x16, x17, x18>>
      BY <1>12, <2>2 DEF Guest!NoRoom, Guest!Turn, Guest!lvmVars, Guest!mountVars
    <3>2. Guest!TypeOK'
      BY <1>0, <1>12, <3>1 DEF Guest!TypeOK
    <3>3. Guest!Noted' /\ Guest!ImagesKept'
      BY <1>0, <3>1 DEF Guest!Noted, Guest!ImagesKept
    <3>4. \A j \in Guest!Kernel : Guest!Has(j)' <=> Guest!Has(j)
      BY <3>1 DEF Guest!Has
    <3>5. Guest!Surveyed'
      BY <1>0, <3>1, <3>4 DEF Guest!Surveyed
    <3>6. Guest!SuccessBoots'
      BY <1>0, <3>1 DEF Guest!SuccessBoots, Guest!Surveyed
    <3> QED BY <3>2, <3>3, <3>5, <3>6 DEF Guest!GuestInv
  <2> QED BY <2>1, <2>2
<1>13. ASSUME NEW k \in Guest!Kernel, Guest!Install(k) PROVE Guest!GuestInv'
  <2>1. /\ x2 = "kernel" /\ x10' = [x10 EXCEPT ![k] = "new"] /\ x13' = x13 \union {k} /\ x12' = x12 \ {k}
        /\ UNCHANGED <<x1, x2, x3, x4, x5, x6, x7, x8, x9, x14, x15, x16, x17, x18>>
    BY <1>13 DEF Guest!Install, Guest!Turn, Guest!lvmVars, Guest!mountVars
  <2>2. x11' \in 0..MaxRoom
    BY <1>0, <1>13, ObjectAssumption DEF Guest!Install, Guest!Fitting, Guest!TypeOK
  <2>3. Guest!TypeOK'
    BY <1>0, <1>13, <2>1, <2>2 DEF Guest!TypeOK
  <2>4. x10'[k] = "new" /\ \A j \in Guest!Kernel \ {k} : x10'[j] = x10[j]
    BY <1>0, <2>1 DEF Guest!TypeOK
  <2>5. Guest!Has(k)' /\ \A j \in Guest!Kernel \ {k} : Guest!Has(j)' <=> Guest!Has(j)
    BY <2>1, <2>4 DEF Guest!Has
  <2>6. Guest!Noted' /\ Guest!ImagesKept'
    BY <1>0, <2>1, <2>4 DEF Guest!Noted, Guest!ImagesKept
  <2>7. Guest!Surveyed'
    BY <1>0, <1>13, <2>1, <2>5 DEF Guest!Surveyed
  <2>8. Guest!SuccessBoots'
    BY <1>0, <2>1 DEF Guest!SuccessBoots, Guest!Surveyed
  <2> QED BY <2>3, <2>6, <2>7, <2>8 DEF Guest!GuestInv
<1>14. CASE Guest!KernelsDone
  <2>1. /\ x2 = "kernel" /\ x12 = {} /\ x2' = "rest" /\ x16' = IF x13 = {} THEN "not_needed" ELSE "done"
        /\ UNCHANGED <<x1, x3, x4, x5, x6, x7, x8, x9, x10, x11, x12, x13, x14, x15, x17, x18>>
    BY <1>14 DEF Guest!KernelsDone, Guest!lvmVars, Guest!mountVars, Guest!kernelVars
  <2>2. Guest!TypeOK'
    BY <1>0, <2>1 DEF Guest!TypeOK, Guest!Outcomes
  <2>3. Guest!Noted' /\ Guest!Surveyed'
    BY <1>0, <2>1 DEF Guest!Noted, Guest!Surveyed
  <2>4. \A j \in Guest!Kernel : Guest!Has(j)' <=> Guest!Has(j)
    BY <2>1 DEF Guest!Has
  <2>5. x14 \subseteq Guest!Kernel
    BY <1>0 DEF Guest!TypeOK
  <2>6. Guest!SuccessBoots'
    BY <1>0, <1>g, <2>1, <2>4, <2>5 DEF Guest!Surveyed, Guest!SuccessBoots
  <2>7. Guest!ImagesKept'
    BY <1>0, <2>1 DEF Guest!Surveyed, Guest!ImagesKept
  <2> QED BY <2>2, <2>3, <2>6, <2>7 DEF Guest!GuestInv
<1>15. CASE Guest!Umount
  <2>1. /\ x2 = "umount" /\ x7 # <<>> /\ x7' = Guest!Front(x7)
        /\ UNCHANGED <<x1, x2, x4, x5, x8, x9, GuestKernels, x16>>
        /\ x18' \in 0..2 /\ (x18 >= 2 => x18' >= 2)
    BY <1>15, <1>f DEF Guest!Umount, Guest!kernelVars, GuestKernels
  <2>2. /\ x7' \in Seq(Guest!Places) /\ Guest!ToSet(x7) = Guest!ToSet(x7') \union {Guest!Last(x7)}
        /\ Guest!Last(x7) \in Guest!Places
    BY <2>1, <1>a, Undoing
  <2>3. /\ x3' \in Guest!Left /\ x3'.groups = x3.groups /\ x3.mounts \subseteq x3'.mounts /\ x6' \subseteq x6
        /\ x6' \ {Guest!Last(x7)} \subseteq x6 /\ (Guest!Last(x7) \in x6' => Guest!Last(x7) \in x3'.mounts)
    <3>1. CASE UNCHANGED x3 /\ x6' = x6 \ ({Guest!Last(x7)} \ x3.mounts)
      BY <3>1, <1>a
    <3>2. CASE UNCHANGED x3 /\ x6' \in SUBSET (x6 \cap x3.mounts)
      BY <3>2, <1>a
    <3>4. CASE x6' = x6 /\ x3' = [x3 EXCEPT !.mounts = @ \union {Guest!Last(x7)}]
      <4>1. x3' \in Guest!Left /\ x3'.groups = x3.groups /\ x3'.mounts = x3.mounts \union {Guest!Last(x7)}
        BY <3>4, <1>a, <2>2, LeftGrows
      <4> QED BY <3>4, <4>1
    <3> QED BY <1>15, <3>1, <3>2, <3>4 DEF Guest!Umount
  <2>4. Guest!TypeOK'
    BY <1>0, <2>1, <2>2, <2>3 DEF Guest!TypeOK, GuestKernels
  <2>5. Guest!Noted'
    BY <1>0, <2>1, <2>2, <2>3 DEF Guest!Noted, GuestKernels
  <2>6. Guest!ImagesKept' /\ Guest!Surveyed' /\ Guest!SuccessBoots'
    BY <2>1, KernelsStay
  <2> QED BY <2>4, <2>5, <2>6 DEF Guest!GuestInv
<1>16. CASE Guest!UmountsDone \/ Guest!DeactivateDone
  <2>1. /\ UNCHANGED <<x1, x3, x4, x5, x6, x7, x8, x9, GuestKernels, x16, x18>>
        /\ \/ x2 = "umount" /\ x7 = <<>> /\ x2' = "lvmoff"
           \/ x2 = "lvmoff" /\ x5 = <<>> /\ x2' = "remove"
    BY <1>16 DEF Guest!UmountsDone, Guest!DeactivateDone, Guest!mountVars, Guest!kernelVars, Guest!lvmVars, GuestKernels
  <2>2. Guest!TypeOK'
    BY <1>0, <2>1 DEF Guest!TypeOK, GuestKernels
  <2>3. Guest!Noted'
    BY <1>0, <2>1, NothingNoted DEF Guest!Noted, GuestKernels
  <2>4. Guest!ImagesKept' /\ Guest!Surveyed' /\ Guest!SuccessBoots'
    BY <2>1, <1>f, KernelsStay
  <2> QED BY <2>2, <2>3, <2>4 DEF Guest!GuestInv
<1>17. CASE Guest!Deactivate
  <2>1. /\ x2 = "lvmoff" /\ x5 # <<>> /\ x5' = Guest!Front(x5)
        /\ UNCHANGED <<x1, x2, x6, x7, x8, x9, GuestKernels, x16, x18>>
        /\ \/ x4' = x4 \ {Guest!Last(x5)} /\ UNCHANGED x3
           \/ x4' = x4 /\ x3' = [x3 EXCEPT !.groups = @ \union {Guest!Last(x5)}]
    BY <1>17 DEF Guest!Deactivate, Guest!mountVars, Guest!kernelVars, GuestKernels
  <2>2. /\ x5' \in Seq(1..NumGroups) /\ Guest!ToSet(x5) = Guest!ToSet(x5') \union {Guest!Last(x5)}
        /\ Guest!Last(x5) \in 1..NumGroups
    BY <2>1, <1>a, Undoing
  <2>3. /\ x3' \in Guest!Left /\ x3'.mounts = x3.mounts /\ x3.groups \subseteq x3'.groups /\ x4' \subseteq x4
        /\ Guest!Last(x5) \in x4' => Guest!Last(x5) \in x3'.groups
    <3>1. CASE x4' = x4 \ {Guest!Last(x5)} /\ UNCHANGED x3
      BY <3>1, <1>a
    <3>2. CASE x4' = x4 /\ x3' = [x3 EXCEPT !.groups = @ \union {Guest!Last(x5)}]
      <4>1. {Guest!Last(x5)} \in SUBSET (1..NumGroups) /\ {} \in SUBSET Guest!Places
        BY <2>2
      <4>2. x3' \in Guest!Left /\ x3'.mounts = x3.mounts /\ x3'.groups = x3.groups \union {Guest!Last(x5)}
        BY <3>2, <4>1, <1>a, LeftGrows
      <4> QED BY <3>2, <4>2
    <3> QED BY <2>1, <3>1, <3>2
  <2>4. Guest!TypeOK'
    BY <1>0, <2>1, <2>2, <2>3 DEF Guest!TypeOK, GuestKernels
  <2>5. Guest!Noted'
    BY <1>0, <2>1, <2>2, <2>3 DEF Guest!Noted, GuestKernels
  <2>6. Guest!ImagesKept' /\ Guest!Surveyed' /\ Guest!SuccessBoots'
    BY <2>1, <1>f, KernelsStay
  <2> QED BY <2>4, <2>5, <2>6 DEF Guest!GuestInv
<1>19. CASE Guest!RemoveTree
  <2>1. /\ x2 = "remove" /\ x2' = "done" /\ x17' = x6
        /\ UNCHANGED <<x1, x3, x4, x5, x6, x7, x8, x9, x11, x12, x13, x14, x15, x16, x18>>
    BY <1>19 DEF Guest!RemoveTree, Guest!lvmVars, Guest!mountVars
  <2>2. PICK gone \in SUBSET Guest!Kernel :
          x10' = Guest!Wiped(gone) /\ (x6 \cap Guest!Images = {} => gone = {})
    BY <1>19 DEF Guest!RemoveTree
  <2>3. /\ x10' \in [Guest!Kernel -> {"old", "new", "lost"}]
        /\ \A k \in Guest!Kernel : x10'[k] = IF k \in gone THEN "lost" ELSE x10[k]
    BY <1>0, <2>2 DEF Guest!Wiped, Guest!TypeOK
  <2>4. Guest!TypeOK'
    BY <1>0, <2>1, <2>3 DEF Guest!TypeOK
  <2>5. Guest!Noted'
    BY <1>0, <2>1 DEF Guest!Noted
  <2>6. Guest!ImagesKept'
    BY <1>0, <2>1, <2>2, <2>3 DEF Guest!ImagesKept, Guest!Noted
  <2>7. Guest!Surveyed'
    BY <1>0, <2>1 DEF Guest!Surveyed
  <2>8. Guest!SuccessBoots'
    <3>1. SUFFICES ASSUME x6 \cap Guest!Images = {} PROVE Guest!SuccessBoots'
      BY <2>1 DEF Guest!SuccessBoots
    <3>2. \A k \in Guest!Kernel : Guest!Has(k)' <=> Guest!Has(k)
      BY <2>1, <2>2, <2>3, <3>1 DEF Guest!Has
    <3> QED BY <1>0, <1>g, <2>1, <3>2 DEF Guest!SuccessBoots, Guest!Noted
  <2> QED BY <2>4, <2>5, <2>6, <2>7, <2>8 DEF Guest!GuestInv
<1>. QED
  BY <1>1, <1>2, <1>3, <1>5, <1>6, <1>7, <1>8, <1>10, <1>11, <1>12, <1>13, <1>14, <1>15, <1>16, <1>17, <1>18, <1>19
     DEF Guest!Next

(* What the runs check of a fix-up follows. *)
LEMMA GuestHolds ==
  ASSUME Guest!GuestInv
  PROVE  Guest!TypeOK /\ Guest!NothingLeft /\ Guest!ImagesKept /\ Guest!SuccessBoots
BY DEF Guest!GuestInv, Guest!Noted, Guest!NothingLeft

-----------------------------------------------------------------------------
(* The network step. *)

(* It starts with nothing given. *)
LEMMA NetworkStarts == Network!Init => Network!NetworkInv
<1> SUFFICES ASSUME Network!Init PROVE Network!NetworkInv
  OBVIOUS
<1>1. x1 \in Network!Stacks
  BY DEF Network!Init
<1>2. x3 \subseteq Network!Files
  BY DEF Network!Init
<1>3. /\ x2 = "rules" /\ x4 = {} /\ x5 = {} /\ x6 = FALSE /\ x7 = {} /\ x8 = TRUE
      /\ x9 = FALSE /\ x10 = FALSE /\ x11 = "none" /\ x12 = 0
  BY DEF Network!Init
<1>5. Network!TypeOK
  <2>1. x6 \in BOOLEAN /\ x8 \in BOOLEAN /\ x9 \in BOOLEAN /\ x10 \in BOOLEAN
    BY <1>3
  <2>2. x4 \union x7 \union x5 \subseteq Network!Files /\ x12 \in 0..2
    BY <1>3
  <2> QED BY <1>1, <1>2, <1>3, <2>1, <2>2 DEF Network!TypeOK
<1>4. Network!Given
  BY <1>3 DEF Network!Given, Network!Succeeded
<1> QED BY <1>4, <1>5 DEF Network!NetworkInv

(* Every step keeps what was given, and labels what it has seen. *)
LEMMA NetworkKept == ASSUME Network!NetworkInv, Network!Next PROVE Network!NetworkInv'
<1>0. Network!TypeOK /\ Network!Given
  BY DEF Network!NetworkInv
<1>a. x12 \in 0..2 /\ x3 \subseteq Network!Files /\ x4 \subseteq Network!Files
  BY <1>0 DEF Network!TypeOK
<1>1. ASSUME NEW files \in SUBSET Network!Files, Network!Give(files)
      PROVE  /\ x3 \subseteq x3' /\ files \subseteq x3' /\ x3' \subseteq Network!Files /\ x4' \subseteq Network!Files
             /\ x9' \in BOOLEAN
  BY <1>0, <1>1, <1>a DEF Network!Give, Network!TypeOK
<1>2. CASE Network!DisableRules
  <2>1. x9' \in BOOLEAN
    BY <1>0, <1>2 DEF Network!DisableRules, Network!TypeOK, Network!Stacks
  <2> QED BY <1>0, <1>2, <2>1 DEF Network!DisableRules, Network!NetworkInv, Network!TypeOK, Network!Given,
            Network!Succeeded, Network!labelVars
<1>3. ASSUME NEW here, NEW next, NEW applies \in BOOLEAN, NEW files \in SUBSET Network!Files,
             Network!Stack(here, next, applies, files)
      PROVE  /\ x2 = here /\ x2' = next /\ UNCHANGED <<x1, x5, x6, x7, x8, x11, x12>>
             /\ x3 \subseteq x3' /\ (applies => files \subseteq x3')
             /\ x3' \subseteq Network!Files /\ x4' \subseteq Network!Files /\ x9' \in BOOLEAN /\ x10' \in BOOLEAN
  <2>1. (IF applies THEN files ELSE {}) \in SUBSET Network!Files
    OBVIOUS
  <2>2. Network!Give(IF applies THEN files ELSE {})
    BY <1>3 DEF Network!Stack
  <2>3. /\ x3 \subseteq x3' /\ (IF applies THEN files ELSE {}) \subseteq x3' /\ x3' \subseteq Network!Files
        /\ x4' \subseteq Network!Files /\ x9' \in BOOLEAN
    BY <1>1, <2>1, <2>2
  <2>4. x10' \in BOOLEAN
    BY <1>0, <1>3 DEF Network!Stack, Network!TypeOK
  <2> QED BY <1>3, <2>3, <2>4 DEF Network!Stack, Network!labelVars
<1>b. /\ {"nm"} \in SUBSET Network!Files /\ (IF x1.systemd THEN Network!FirstBoot ELSE {}) \in SUBSET Network!Files
      /\ {"netplan"} \in SUBSET Network!Files /\ {"waitonline"} \in SUBSET Network!Files
      /\ {"networkd"} \in SUBSET Network!Files
  BY DEF Network!Files
<1>c. /\ x1.nm \in {"none", "installed", "enabled"} /\ x1.legacy \in BOOLEAN /\ x1.netplan \in BOOLEAN
      /\ x1.networkd \in BOOLEAN /\ x1.systemd \in BOOLEAN
  BY <1>0 DEF Network!TypeOK, Network!Stacks
<1>4. CASE Network!ConfigureNetworkManager
  <2>1. /\ x2 = "nm" /\ x2' = "legacy" /\ UNCHANGED <<x1, x5, x6, x7, x8, x11, x12>> /\ x3 \subseteq x3'
        /\ (x1.nm = "enabled" \/ (x1.nm = "installed" /\ ~x1.legacy)) => {"nm"} \subseteq x3'
        /\ x3' \subseteq Network!Files /\ x4' \subseteq Network!Files /\ x9' \in BOOLEAN /\ x10' \in BOOLEAN
    BY <1>3, <1>4, <1>b, <1>c DEF Network!ConfigureNetworkManager
  <2> QED BY <1>0, <2>1 DEF Network!NetworkInv, Network!TypeOK, Network!Given, Network!Succeeded
<1>5. CASE Network!InstallFirstbootUnit
  <2>1. /\ x2 = "legacy" /\ x2' = "netplan" /\ UNCHANGED <<x1, x5, x6, x7, x8, x11, x12>> /\ x3 \subseteq x3'
        /\ (x1.legacy /\ x1.nm # "enabled") => (IF x1.systemd THEN Network!FirstBoot ELSE {}) \subseteq x3'
        /\ x3' \subseteq Network!Files /\ x4' \subseteq Network!Files /\ x9' \in BOOLEAN /\ x10' \in BOOLEAN
    BY <1>3, <1>5, <1>b, <1>c DEF Network!InstallFirstbootUnit
  <2> QED BY <1>0, <2>1 DEF Network!NetworkInv, Network!TypeOK, Network!Given, Network!Succeeded
<1>6. CASE Network!WriteNetplan
  <2>1. /\ x2 = "netplan" /\ x2' = "waitonline" /\ UNCHANGED <<x1, x5, x6, x7, x8, x11, x12>> /\ x3 \subseteq x3'
        /\ x1.netplan => {"netplan"} \subseteq x3'
        /\ x3' \subseteq Network!Files /\ x4' \subseteq Network!Files /\ x9' \in BOOLEAN /\ x10' \in BOOLEAN
    BY <1>3, <1>6, <1>b, <1>c DEF Network!WriteNetplan
  <2> QED BY <1>0, <2>1 DEF Network!NetworkInv, Network!TypeOK, Network!Given, Network!Succeeded
<1>7. CASE Network!WriteWaitOnline
  <2>1. /\ x2 = "waitonline" /\ x2' = "networkd" /\ UNCHANGED <<x1, x5, x6, x7, x8, x11, x12>> /\ x3 \subseteq x3'
        /\ x3' \subseteq Network!Files /\ x4' \subseteq Network!Files /\ x9' \in BOOLEAN /\ x10' \in BOOLEAN
    BY <1>3, <1>7, <1>b, <1>c DEF Network!WriteWaitOnline
  <2> QED BY <1>0, <2>1 DEF Network!NetworkInv, Network!TypeOK, Network!Given, Network!Succeeded
<1>8. CASE Network!WriteNetworkd
  <2>1. /\ x2 = "networkd" /\ x2' = "label" /\ UNCHANGED <<x1, x5, x6, x7, x8, x11, x12>> /\ x3 \subseteq x3'
        /\ x1.networkd => {"networkd"} \subseteq x3'
        /\ x3' \subseteq Network!Files /\ x4' \subseteq Network!Files /\ x9' \in BOOLEAN /\ x10' \in BOOLEAN
    BY <1>3, <1>8, <1>b, <1>c DEF Network!WriteNetworkd
  <2> QED BY <1>0, <2>1 DEF Network!NetworkInv, Network!TypeOK, Network!Given, Network!Succeeded
<1>9. CASE Network!Fails \/ Network!NothingKnown
  BY <1>0, <1>9, <1>a DEF Network!Fails, Network!NothingKnown, Network!Fault, Network!NetworkInv, Network!TypeOK,
     Network!Given, Network!Succeeded, Network!labelVars
<1>10. CASE Network!NoLabels \/ Network!SetFiles
  BY <1>0, <1>10, <1>a DEF Network!NoLabels, Network!SetFiles, Network!NetworkInv, Network!TypeOK,
     Network!Given, Network!Succeeded, Network!labelVars
<1>11. CASE Network!NoSetFiles
  <2>1. x12' \in 0..2
    BY <1>11, <1>a DEF Network!NoSetFiles, Network!Fault
  <2> QED BY <1>0, <1>11, <2>1 DEF Network!NoSetFiles, Network!NetworkInv, Network!TypeOK, Network!Given,
            Network!Succeeded
<1>12. ASSUME NEW file \in Network!Files, NEW good \in BOOLEAN, Network!SetAttr(file, good)
       PROVE  Network!NetworkInv'
  <2>1. /\ x2 = "setfattr" /\ x7' = x7 \ {file} /\ UNCHANGED <<x1, x2, x3, x4, x6, x9, x10, x11>>
        /\ \/ x5' = x5 \union {file} /\ x8' = x8
           \/ x5' = x5 /\ x8' = FALSE
        /\ x12' \in 0..2
    BY <1>12, <1>a DEF Network!SetAttr, Network!Fault
  <2>2. Network!TypeOK'
    BY <1>0, <1>12, <2>1 DEF Network!TypeOK
  <2>3. x8' /\ x4 \subseteq x5 \union x7 => x8 /\ x4' \subseteq x5' \union x7'
    BY <2>1
  <2>4. Network!Given'
    BY <1>0, <2>1, <2>3 DEF Network!Given, Network!Succeeded
  <2> QED BY <2>2, <2>4 DEF Network!NetworkInv
<1>13. CASE Network!AttrsDone \/ Network!Finish
  <2>1. CASE Network!AttrsDone
    <3>1. Network!TypeOK'
      BY <1>0, <2>1 DEF Network!AttrsDone, Network!TypeOK
    <3>2. Network!Given'
      BY <1>0, <2>1 DEF Network!AttrsDone, Network!Given, Network!Succeeded, Network!TypeOK
    <3> QED BY <3>1, <3>2 DEF Network!NetworkInv
  <2>2. CASE Network!Finish
    BY <1>0, <2>2 DEF Network!Finish, Network!NetworkInv, Network!TypeOK, Network!Given, Network!Succeeded,
       Network!labelVars
  <2> QED BY <1>13, <2>1, <2>2
<1>. QED
  BY <1>2, <1>4, <1>5, <1>6, <1>7, <1>8, <1>9, <1>10, <1>11, <1>12, <1>13 DEF Network!Next

(* A step that says it succeeded has given every stack its files, labelled. *)
LEMMA NetworkHolds == ASSUME Network!NetworkInv PROVE Network!TypeOK /\ Network!DhcpAnywhere
BY DEF Network!NetworkInv, Network!TypeOK, Network!Given, Network!DhcpAnywhere, Network!Succeeded, Network!Needed

-----------------------------------------------------------------------------
(* The models side by side. *)

ObjectsInv ==
  /\ which = "upload" => Upload!UploadInv
  /\ which = "library" => Library!LibraryInv
  /\ which = "import" => Import!ImportInv
  /\ which = "guest" => Guest!GuestInv
  /\ which = "network" => Network!NetworkInv

(* Nothing of an invariant changes with variables that stay. *)
LEMMA UploadStays == ASSUME Upload!UploadInv, UNCHANGED others PROVE Upload!UploadInv'
BY DEF others, Upload!UploadInv, Upload!UploadSound, Upload!TypeOK, Upload!Places, Upload!Part,
       Upload!Working, Upload!Sent

(* A step of another model keeps the libraries sound. *)
LEMMA LibraryStays == ASSUME Library!LibraryInv, UNCHANGED others PROVE Library!LibraryInv'
BY DEF others, Library!LibraryInv, Library!TypeOK, Library!ImageSound, Library!ObjectSound,
       Library!CleanInv, Library!CleanSound, Library!Chosen, Library!Fits, Library!Idle,
       Library!Pinned

(* A step of another model keeps the import sound. *)
LEMMA ImportStays == ASSUME Import!ImportInv, UNCHANGED others PROVE Import!ImportInv'
BY DEF others, rest11, rest12, Import!ImportInv, Import!TypeOK, Import!LayoutRead, Import!StillToCopy,
       Import!CopiedIsWhole, Import!Known

(* A step of another model keeps the guest sound. *)
LEMMA GuestStays == ASSUME Guest!GuestInv, UNCHANGED others PROVE Guest!GuestInv'
BY DEF others, rest11, rest12, rest15, Guest!GuestInv, Guest!TypeOK, Guest!Noted, Guest!ImagesKept, Guest!Surveyed,
       Guest!SuccessBoots, Guest!Has, Guest!Kernel, Guest!Places, Guest!ToSet

(* A step of another model keeps the network step sound. *)
LEMMA NetworkStays == ASSUME Network!NetworkInv, UNCHANGED others PROVE Network!NetworkInv'
BY DEF others, rest11, Network!NetworkInv, Network!TypeOK, Network!Given, Network!Succeeded, Network!Files,
       Network!FirstBoot

(* The five side by side *)
LEMMA ObjectsInvariant == ObjectsSpec => []ObjectsInv
<1>1. ObjectsInit => ObjectsInv
  BY UploadStarts, LibraryStarts, ImportStarts, GuestStarts, NetworkStarts DEF ObjectsInit, ObjectsInv
<1>2. ObjectsInv /\ [ObjectsNext]_<<which, others>> => ObjectsInv'
  <2> SUFFICES ASSUME ObjectsInv, [ObjectsNext]_<<which, others>> PROVE ObjectsInv'
    OBVIOUS
  <2>1. CASE UNCHANGED <<which, others>>
    BY <2>1, UploadStays, LibraryStays, ImportStays, GuestStays, NetworkStays DEF ObjectsInv
  <2>2. CASE ObjectsNext
    BY <2>2, UploadKept, LibraryKept, ImportKept, GuestKept, NetworkKept DEF ObjectsNext, ObjectsInv
  <2> QED BY <2>1, <2>2
<1>. QED BY <1>1, <1>2, PTL DEF ObjectsSpec

(* An object that was committed has every part that was written to it, in  *)
(* order, and an export that ended leaves no multipart upload behind if no *)
(* call failed, whenever it is cancelled and whatever its length; of one   *)
(* export at a time.                                                       *)
THEOREM UploadsAreWhole == ObjectsSpec => []UploadsWhole
<1>1. ObjectsInv => UploadsWhole
  BY UploadHolds DEF ObjectsInv, UploadsWhole
<1>. QED BY <1>1, ObjectsInvariant, PTL

(* However jobs that share the library overlap, fail and are cancelled, an *)
(* instance is launched from an image that is imported, of its mode, with  *)
(* its shape; of jobs one after the other, with its volume type pinned.    *)
THEOREM LaunchesFit == ObjectsSpec => []LaunchedAsNeeded
<1>1. ObjectsInv => LaunchedAsNeeded
  BY LibraryHolds DEF ObjectsInv, LaunchedAsNeeded
<1>. QED BY <1>1, ObjectsInvariant, PTL

(* Before anything is built in OCI an archive was listed as far as the     *)
(* disks that its descriptor names, and a disk counts as copied only when  *)
(* its volume holds all of it, whatever calls and responses fail and       *)
(* whenever the import is cancelled.                                       *)
THEOREM ImportsWhole == ObjectsSpec => []ImportWhole
<1>1. ObjectsInv => ImportWhole
  BY ImportHolds DEF ObjectsInv, ImportWhole
<1>. QED BY <1>1, ObjectsInvariant, PTL

(* However the fix-up of a guest with any number of kernels and volume     *)
(* groups goes, when up to two commands or writes fail, nothing of it is   *)
(* left mounted or active but what a failing undo, a mount made after its  *)
(* time-out and a group activated by udev alone leave; no initramfs is     *)
(* lost by one failure, except where dracut works in place or rmtree goes  *)
(* into a mount that stayed; and success means a guest that boots.  A      *)
(* network step that reports success has given every enabled stack its     *)
(* files, readable under SELinux.                                          *)
THEOREM GuestKeptWhole == ObjectsSpec => []GuestStaysWhole
<1>1. ObjectsInv => GuestStaysWhole
  BY GuestHolds, NetworkHolds DEF ObjectsInv, GuestStaysWhole
<1>. QED BY <1>1, ObjectsInvariant, PTL
=============================================================================
