--------------------------- MODULE RangeCopyProofs ---------------------------
(***************************************************************************)
(* For any chunks, any number of download threads, retries, attempts,      *)
(* faults and expiries: every chunk is in exactly one place, nothing is    *)
(* taken after a failure, a disk is COPIED only with all its chunks        *)
(* written, and no thread gives up for expiries alone.  For any number of  *)
(* readers, reads and connections: none waits for a connection that nobody *)
(* gives back, and none is left open.                                      *)
(***************************************************************************)
EXTENDS MCCopies, Sequences, FiniteSetTheorems, TLAPS

(* A thread has a chunk exactly while it works on one, and no thread lives *)
(* outside the copy of an attempt.                                         *)
Carrying ==
  /\ \A w \in Worker : worker[w].item = None <=> worker[w].at \in {"ended", "loop"}
  /\ pc # "copy" => \A w \in Worker : worker[w].at = "ended"

TypeInv == TypeOK /\ Carrying

(* The chunk a thread picks is one that is pending. *)
LEMMA PickPending == pending # {} => Pick \in pending
BY DEF Pick

(* The two states of a thread without a chunk *)
LEMMA IdleTyped ==
  /\ Idle \in WorkerState /\ Looping \in WorkerState
  /\ Idle.item = None /\ Looping.item = None
  /\ Idle.at = "ended" /\ Looping.at = "loop"
BY RangeAssumption DEF WorkerState, Idle, Looping

(* What is left of the types when the threads are put aside *)
Rest ==
  /\ pc \in {"begin", "list", "copy", "close", "end"}
  /\ attempt \in 0..Attempts
  /\ status \in {"PENDING", "COPYING", "FAILED", "COPIED"}
  /\ outcome \in {"running", "copied", "cancelled", "failed"}
  /\ pending \subseteq Chunk
  /\ stopped \in BOOLEAN
  /\ failure \in {"none", "retry", "cancel"}
  /\ written \subseteq Chunk
  /\ sas \in Nat /\ valid \in {0, sas}
  /\ renewing \in Worker \cup {None}
  /\ recent \in BOOLEAN
  /\ cancel \in BOOLEAN
  /\ faults \in 0..Faults
  /\ expiries \in 0..Expiries

Threads == worker \in [Worker -> WorkerState] /\ Carrying

(* The types are those of the threads and the rest. *)
LEMMA Parts == TypeInv <=> Rest /\ Threads
BY DEF TypeInv, TypeOK, Rest, Threads

(* The thread of the job keeps the types. *)
LEMMA MainTyped ==
  ASSUME TypeInv, MainStep
  PROVE  TypeInv'
<1>1. Rest'
  <2> USE Parts, RangeAssumption DEF Rest, Fault, main, shared, access
  <2>1. CASE Begin
    <3>1. attempt \in 0..Attempts /\ Attempts \in Nat
      BY <2>1, RangeAssumption
    <3>2. CASE attempt = Attempts \/ cancel
      BY <2>1, <3>1, <3>2 DEF Begin
    <3>3. CASE ~(attempt = Attempts \/ cancel)
      <4>1. attempt + 1 \in 0..Attempts
        BY <3>1, <3>3
      <4> QED BY <2>1, <3>3, <4>1 DEF Begin
    <3> QED BY <3>2, <3>3
  <2>2. CASE List
    <3>1. sas' \in Nat /\ valid' \in {0, sas'}
      BY <2>2 DEF List, Renewed
    <3> HIDE Parts
    <3>2. pending' \subseteq Chunk
      BY <2>2 DEF List
    <3> QED BY <2>2, <3>1, <3>2, Parts DEF List
  <2>3. CASE ListFails
    <3>1. sas' \in Nat /\ valid' \in {0, sas'}
      BY <2>3 DEF ListFails, Renewed
    <3> QED BY <2>3, <3>1 DEF ListFails
  <2>4. CASE Join BY <2>4 DEF Join
  <2>5. CASE Close BY <2>5 DEF Close
  <2>6. CASE ListRefused BY <2>6 DEF ListRefused
  <2>7. CASE ListCancelled BY <2>7 DEF ListCancelled
  <2> QED BY <2>1, <2>2, <2>3, <2>4, <2>5, <2>6, <2>7 DEF MainStep
<1>2. Threads'
  <2> USE Parts DEF Threads, Carrying, main, shared, access
  <2>1. CASE Begin BY <2>1 DEF Begin
  <2>2. CASE List BY <2>2, IdleTyped DEF List
  <2>3. CASE ListFails BY <2>3 DEF ListFails
  <2>4. CASE Join BY <2>4 DEF Join
  <2>5. CASE Close BY <2>5 DEF Close
  <2>6. CASE ListRefused BY <2>6 DEF ListRefused
  <2>7. CASE ListCancelled BY <2>7 DEF ListCancelled
  <2> QED BY <2>1, <2>2, <2>3, <2>4, <2>5, <2>6, <2>7 DEF MainStep
<1> QED BY <1>1, <1>2 DEF TypeInv, TypeOK, Rest, Threads

(* So do the download threads: each changes its own state only.            *)
LEMMA ThreadsTyped ==
  ASSUME TypeInv, NEW w \in Worker, NEW r \in WorkerState, pc = "copy", pc' = pc,
         worker' = [worker EXCEPT ![w] = r],
         r.item = None <=> r.at \in {"ended", "loop"}
  PROVE  Threads'
BY DEF TypeInv, TypeOK, Threads, Carrying

(* A thread that goes on with its chunk. *)
LEMMA MoveTyped ==
  ASSUME TypeInv, NEW w \in Worker, pc = "copy", pc' = pc,
         worker[w].at \notin {"ended", "loop"},
         NEW a \in {"check", "fetch", "sent", "refused", "revoked", "retry", "write"},
         NEW n \in 0..Retries, NEW b \in BOOLEAN,
         worker' = [worker EXCEPT ![w] = [at |-> a, item |-> worker[w].item, tries |-> n,
                                          accepted |-> b]]
  PROVE  Threads'
<1> DEFINE r == [at |-> a, item |-> worker[w].item, tries |-> n, accepted |-> b]
<1>1. worker[w].item \in Chunk
  BY DEF TypeInv, TypeOK, Carrying, WorkerState
<1>2. r \in WorkerState
  BY <1>1 DEF WorkerState
<1>3. r.item # None /\ r.at \notin {"ended", "loop"}
  BY <1>1, RangeAssumption
<1> HIDE DEF r
<1> QED BY <1>2, <1>3, ThreadsTyped DEF r

(* Every step of a thread keeps the types. *)
LEMMA WorkerTyped ==
  ASSUME TypeInv, NEW w \in Worker, WorkerStep(w)
  PROVE  TypeInv'
<1> DEFINE v == worker[w]
<1>1. /\ v \in WorkerState
      /\ pc = "copy"  \/ v.at = "ended"
      /\ v.item = None <=> v.at \in {"ended", "loop"}
  BY DEF TypeInv, TypeOK, Carrying
<1>2. pc = "copy" /\ pc' = pc
  BY <1>1
  DEF WorkerStep, Take, Check, Fetch, Answer, Refresh, Grant, GrantFails, GrantCancelled, Retry,
      Write, At, main
<1>3. Rest'
  <2> USE RangeAssumption DEF TypeInv, TypeOK, Rest, Fault, FailWith, main, shared, access
  <2>0. ASSUME NEW e \in {"retry", "cancel"}, FailWith(w, e),
               UNCHANGED <<main, access, cancel, expiries>>,
               UNCHANGED faults \/ Fault
        PROVE  Rest'
    <3>1. failure' \in {"none", "retry", "cancel"} /\ stopped' \in BOOLEAN
      BY <2>0
    <3> QED BY <2>0, <3>1
  <2>1. CASE Take(w) BY <2>1, PickPending DEF Take
  <2>2. CASE Check(w)
    <3>1. CASE cancel BY <2>0, <2>2, <3>1 DEF Check
    <3>2. CASE ~cancel BY <2>2, <3>2 DEF Check
    <3> QED BY <3>1, <3>2
  <2>3. CASE Fetch(w)
    <3>1. CASE stopped BY <2>0, <2>3, <3>1 DEF Fetch
    <3>2. CASE ~stopped BY <2>3, <3>2 DEF Fetch
    <3> QED BY <3>1, <3>2
  <2>4. CASE Answer(w) BY <2>4 DEF Answer
  <2>5. CASE Refresh(w) BY <2>5 DEF Refresh
  <2>6. CASE Grant(w) BY <2>6 DEF Grant
  <2>7. CASE GrantFails(w) BY <2>7 DEF GrantFails
  <2>8. CASE Retry(w)
    <3>1. CASE worker[w].tries < Retries BY <2>8, <3>1 DEF Retry
    <3>2. CASE ~(worker[w].tries < Retries) BY <2>0, <2>8, <3>2 DEF Retry
    <3> QED BY <3>1, <3>2
  <2>9. CASE Write(w)
    <3>1. worker[w].item \in Chunk
      BY <1>1, <2>9 DEF Write, At, WorkerState
    <3>2. CASE Fault /\ FailWith(w, "retry") BY <2>0, <2>9, <3>2 DEF Write
    <3>3. CASE ~(Fault /\ FailWith(w, "retry")) BY <2>9, <3>1, <3>3 DEF Write
    <3> QED BY <3>2, <3>3
  <2>10. CASE GrantCancelled(w)
    <3>1. failure' \in {"none", "retry", "cancel"} /\ stopped' \in BOOLEAN
      BY <2>10 DEF GrantCancelled
    <3> QED BY <2>10, <3>1 DEF GrantCancelled
  <2> QED BY <2>1, <2>2, <2>3, <2>4, <2>5, <2>6, <2>7, <2>8, <2>9, <2>10 DEF WorkerStep
<1>4. Threads'
  <2>1. ASSUME NEW a \in {"check", "fetch", "sent", "refused", "revoked", "retry", "write"},
               v.at \notin {"ended", "loop"}, Go(w, a)
        PROVE  Threads'
    <3>1. worker' = [worker EXCEPT ![w] = [v EXCEPT !.at = a]]
      BY <2>1 DEF Go, TypeInv, TypeOK
    <3>2. [v EXCEPT !.at = a] = [at |-> a, item |-> v.item, tries |-> v.tries,
                                 accepted |-> v.accepted]
      BY <1>1 DEF WorkerState
    <3>3. worker' = [worker EXCEPT ![w] = [at |-> a, item |-> v.item, tries |-> v.tries,
                                           accepted |-> v.accepted]]
      BY <3>1, <3>2
    <3> QED BY <1>1, <1>2, <2>1, <3>3, MoveTyped DEF WorkerState
  <2>2. ASSUME worker' = [worker EXCEPT ![w] = Idle] PROVE Threads'
    BY <1>2, <2>2, IdleTyped, ThreadsTyped
  <2>3. CASE Take(w)
    <3>1. CASE pending # {} /\ ~stopped
      <4> DEFINE r == [at |-> "check", item |-> Pick, tries |-> v.tries, accepted |-> v.accepted]
      <4>1. Pick \in Chunk
        BY <3>1, PickPending DEF TypeInv, TypeOK
      <4>2. r \in WorkerState /\ r.item # None /\ r.at = "check"
        BY <1>1, <4>1, RangeAssumption DEF WorkerState
      <4>3. worker' = [worker EXCEPT ![w] = r]
        BY <1>1, <2>3, <3>1 DEF Take, WorkerState, TypeInv, TypeOK
      <4> QED BY <1>2, <4>2, <4>3, ThreadsTyped
    <3> QED BY <2>2, <2>3, <3>1 DEF Take
  <2>4. CASE Check(w)
    <3>1. CASE ~cancel
      <4>1. worker' = [worker EXCEPT ![w] = [at |-> "fetch", item |-> v.item, tries |-> 1,
                                             accepted |-> v.accepted]]
        BY <1>1, <2>4, <3>1 DEF Check, WorkerState, TypeInv, TypeOK
      <4>2. 1 \in 0..Retries
        BY RangeAssumption
      <4> QED BY <1>1, <1>2, <2>4, <4>1, <4>2, MoveTyped DEF Check, At, WorkerState
    <3> QED BY <2>2, <2>4, <3>1 DEF Check, FailWith
  <2>5. CASE Fetch(w)
    <3>1. CASE ~stopped
      <4>1. worker' = [worker EXCEPT ![w] = [at |-> "sent", item |-> v.item, tries |-> v.tries,
                                             accepted |-> (sas = valid)]]
        BY <1>1, <2>5, <3>1 DEF Fetch, WorkerState, TypeInv, TypeOK
      <4> QED BY <1>1, <1>2, <2>5, <4>1, MoveTyped DEF Fetch, At, WorkerState
    <3> QED BY <2>2, <2>5, <3>1 DEF Fetch, FailWith
  <2>6. CASE Answer(w) BY <2>1, <2>6 DEF Answer, At
  <2>7. CASE Refresh(w) BY <2>1, <2>7 DEF Refresh, At
  <2>8. CASE Grant(w) BY <2>1, <2>8 DEF Grant, At
  <2>9. CASE GrantFails(w) BY <2>1, <2>9 DEF GrantFails, At
  <2>10. CASE Retry(w)
    <3>1. CASE v.tries < Retries
      <4>1. worker' = [worker EXCEPT ![w] = [at |-> "fetch", item |-> v.item,
                                             tries |-> v.tries + 1, accepted |-> v.accepted]]
        BY <1>1, <2>10, <3>1 DEF Retry, WorkerState, TypeInv, TypeOK
      <4>2. v.tries + 1 \in 0..Retries
        BY <1>1, <3>1, RangeAssumption DEF WorkerState
      <4> QED BY <1>1, <1>2, <2>10, <4>1, <4>2, MoveTyped DEF Retry, At, WorkerState
    <3> QED BY <2>2, <2>10, <3>1 DEF Retry, FailWith
  <2>11. CASE Write(w)
    <3>1. CASE worker' = [worker EXCEPT ![w] = Looping]
      BY <1>2, <3>1, IdleTyped, ThreadsTyped
    <3> QED BY <2>2, <2>11, <3>1 DEF Write, FailWith
  <2>12. CASE GrantCancelled(w) BY <2>2, <2>12 DEF GrantCancelled, FailWith
  <2> QED BY <2>3, <2>4, <2>5, <2>6, <2>7, <2>8, <2>9, <2>10, <2>11, <2>12 DEF WorkerStep
<1> QED BY <1>3, <1>4 DEF TypeInv, TypeOK, Rest, Threads

(* The SAS and the user. *)
LEMMA OthersTyped ==
  ASSUME TypeInv, Expire \/ WindowEnds \/ RequestCancel \/ UNCHANGED vars
  PROVE  TypeInv'
<1>1. UNCHANGED <<pc, attempt, status, outcome, worker, pending, stopped, failure, written, sas,
                  renewing, faults>>
  BY DEF Expire, WindowEnds, RequestCancel, vars, main, shared, access
<1>2. valid' \in {0, sas}
  BY DEF TypeInv, TypeOK, Expire, WindowEnds, RequestCancel, vars, access
<1>3. recent' \in BOOLEAN /\ cancel' \in BOOLEAN
  BY DEF TypeInv, TypeOK, Expire, WindowEnds, RequestCancel, vars, access
<1>4. expiries' \in 0..Expiries
  BY RangeAssumption
  DEF TypeInv, TypeOK, Expire, WindowEnds, RequestCancel, vars
<1>5. Rest'
  <2>1. Rest
    BY Parts
  <2> QED BY <1>1, <1>2, <1>3, <1>4, <2>1 DEF Rest
<1>6. Threads'
  BY <1>1, Parts DEF Threads, Carrying
<1> QED BY <1>5, <1>6 DEF TypeInv, TypeOK, Rest, Threads

(* A copy begins well typed, and stays so. *)
LEMMA InitTyped ==
  ASSUME Init
  PROVE  TypeInv
<1>1. worker \in [Worker -> WorkerState] /\ Carrying
  BY IdleTyped DEF Init, Carrying
<1>2. Rest
  <2>1. 0 \in 0..Attempts /\ 0 \in 0..Faults /\ 0 \in 0..Expiries
    BY RangeAssumption
  <2>2. pc = "begin" /\ attempt = 0 /\ status = "PENDING" /\ outcome = "running"
    BY DEF Init
  <2>3. pending = {} /\ written = {} /\ sas = 1 /\ valid = 1 /\ renewing = None
    BY DEF Init
  <2>4. stopped = FALSE /\ failure = "none" /\ recent = FALSE /\ cancel = FALSE
    BY DEF Init
  <2>5. faults = 0 /\ expiries = 0
    BY DEF Init
  <2> QED BY <2>1, <2>2, <2>3, <2>4, <2>5 DEF Rest
<1> QED BY <1>1, <1>2, Parts DEF Threads

(* The types and the places of the threads, at any time. *)
LEMMA AlwaysTyped == Spec => []TypeInv
<1>1. Init => TypeInv
  BY InitTyped
<1>2. TypeInv /\ [Next]_vars => TypeInv'
  BY MainTyped, WorkerTyped, OthersTyped DEF Next
<1> QED BY <1>1, <1>2, PTL DEF Spec

(* Requests, attempts and renewals never exceed their bounds, and the      *)
(* grant Azure accepts is the one the threads read, or none.               *)
THEOREM RangeTypeCorrect == Spec => []TypeOK
<1>1. TypeInv => TypeOK
  BY DEF TypeInv
<1> QED BY <1>1, AlwaysTyped, PTL

-----------------------------------------------------------------------------
(* What a step of a thread does with its chunk: it keeps it, takes one, is *)
(* done with it, or drops it and stops the others.                         *)
Kept(w) ==
  /\ worker'[w].item = worker[w].item
  /\ UNCHANGED shared

Taken(w) ==
  /\ ~stopped /\ worker[w].item = None /\ worker'[w].item \in pending
  /\ pending' = pending \ {worker'[w].item}
  /\ UNCHANGED <<stopped, failure, written>>

Done(w) ==
  /\ worker[w].item \in Chunk /\ worker'[w].item = None
  /\ written' = written \cup {worker[w].item}
  /\ UNCHANGED <<pending, stopped, failure>>

Dropped(w) ==
  /\ worker'[w].item = None
  /\ stopped' /\ failure' # "none"
  /\ UNCHANGED <<pending, written>>

(* Every step of a thread is one of these, and touches no other thread;    *)
(* one that ends has nothing left to take, or was stopped.                 *)
LEMMA StepShape ==
  ASSUME TypeInv, NEW w \in Worker, WorkerStep(w)
  PROVE  /\ pc = "copy" /\ UNCHANGED main
         /\ \A x \in Worker \ {w} : worker'[x] = worker[x]
         /\ worker'[w].at = "ended" => stopped' \/ pending' = {}
         /\ Kept(w) \/ Taken(w) \/ Done(w) \/ Dropped(w)
<1>1. /\ worker \in [Worker -> WorkerState] /\ worker[w] \in WorkerState
      /\ pc # "copy" => worker[w].at = "ended"
      /\ worker[w].item = None <=> worker[w].at \in {"ended", "loop"}
  BY DEF TypeInv, TypeOK, Carrying
<1>2. pc = "copy" /\ UNCHANGED main
  BY <1>1
  DEF WorkerStep, Take, Check, Fetch, Answer, Refresh, Grant, GrantFails, GrantCancelled, Retry,
      Write, At
<1>3. ASSUME FailWith(w, "retry") \/ FailWith(w, "cancel")
      PROVE  /\ \A x \in Worker \ {w} : worker'[x] = worker[x]
             /\ stopped' /\ Dropped(w)
  BY <1>1, <1>3, IdleTyped DEF FailWith, Dropped
<1>4. ASSUME NEW a, Go(w, a), a # "ended", UNCHANGED shared
      PROVE  /\ \A x \in Worker \ {w} : worker'[x] = worker[x]
             /\ worker'[w].at # "ended" /\ Kept(w)
  BY <1>1, <1>4 DEF Go, Kept, WorkerState
<1> DEFINE Others == \A x \in Worker \ {w} : worker'[x] = worker[x]
           Ends == worker'[w].at = "ended" => stopped' \/ pending' = {}
           Shape == Kept(w) \/ Taken(w) \/ Done(w) \/ Dropped(w)
<1>5. Others /\ Ends /\ Shape
  <2>1. CASE Take(w)
    <3>1. CASE stopped \/ pending = {}
      <4>1. worker' = [worker EXCEPT ![w] = Idle] /\ UNCHANGED shared
        BY <2>1, <3>1 DEF Take, shared
      <4> QED BY <1>1, <2>1, <3>1, <4>1, IdleTyped DEF At, Take, Kept, shared
    <3>2. CASE ~(stopped \/ pending = {})
      <4>1. worker' = [worker EXCEPT ![w].at = "check", ![w].item = Pick]
        BY <2>1, <3>2 DEF Take
      <4>2. Others /\ worker'[w].at = "check" /\ worker'[w].item = Pick
        BY <1>1, <4>1 DEF WorkerState
      <4>3. Pick \in pending
        BY <3>2, PickPending
      <4> QED BY <1>1, <2>1, <3>2, <4>2, <4>3 DEF Take, At, Taken
    <3> QED BY <3>1, <3>2
  <2>2. CASE Check(w)
    <3>1. CASE ~cancel
      BY <1>1, <2>2, <3>1 DEF Check, WorkerState, Kept
    <3> QED BY <1>3, <2>2, <3>1 DEF Check
  <2>3. CASE Fetch(w)
    <3>1. CASE ~stopped
      BY <1>1, <2>3, <3>1 DEF Fetch, WorkerState, Kept
    <3> QED BY <1>3, <2>3, <3>1 DEF Fetch
  <2>4. CASE Answer(w)
    <3>1. UNCHANGED shared /\ (Go(w, "write") \/ Go(w, "refused") \/ Go(w, "retry"))
      BY <2>4 DEF Answer
    <3> QED BY <1>4, <3>1
  <2>5. CASE Refresh(w)
    <3>1. UNCHANGED shared /\ (Go(w, "retry") \/ Go(w, "revoked"))
      BY <2>5 DEF Refresh
    <3> QED BY <1>4, <3>1
  <2>6. CASE Grant(w)
    <3>1. UNCHANGED shared /\ Go(w, "retry")
      BY <2>6 DEF Grant
    <3> QED BY <1>4, <3>1
  <2>7. CASE GrantFails(w)
    <3>1. UNCHANGED shared /\ Go(w, "retry")
      BY <2>7 DEF GrantFails
    <3> QED BY <1>4, <3>1
  <2>8. CASE Retry(w)
    <3>1. CASE worker[w].tries < Retries
      BY <1>1, <2>8, <3>1 DEF Retry, WorkerState, Kept
    <3> QED BY <1>3, <2>8, <3>1 DEF Retry
  <2>9. CASE Write(w)
    <3>1. CASE FailWith(w, "retry")
      BY <1>3, <3>1
    <3>2. CASE ~FailWith(w, "retry")
      <4>1. /\ worker' = [worker EXCEPT ![w] = Looping]
            /\ written' = written \cup {worker[w].item}
            /\ UNCHANGED <<pending, stopped, failure>>
        BY <2>9, <3>2 DEF Write
      <4>2. worker[w].item \in Chunk
        BY <1>1, <2>9 DEF Write, At, WorkerState
      <4> QED BY <1>1, <4>1, <4>2, IdleTyped DEF Done
    <3> QED BY <3>1, <3>2
  <2>10. CASE GrantCancelled(w) BY <1>3, <2>10 DEF GrantCancelled
  <2> QED BY <2>1, <2>2, <2>3, <2>4, <2>5, <2>6, <2>7, <2>8, <2>9, <2>10 DEF WorkerStep
<1> QED BY <1>2, <1>5

-----------------------------------------------------------------------------
(* What the places of the chunks need of the rest: an attempt begins with  *)
(* nothing written, threads stop exactly after a failure, and without one  *)
(* none ends before the last chunk is taken.                               *)
Phases ==
  /\ pc \in {"list", "copy"} => status = "COPYING"
  /\ status = "COPIED" => pc \in {"close", "end"}
  /\ pc = "list" => written = {}
  /\ pc = "copy" => (stopped <=> failure # "none")
  /\ pc = "copy" /\ ~stopped /\ pending # {} => \A w \in Worker : worker[w].at # "ended"

RangeInv == TypeInv /\ Phases /\ EachChunkOnce

(* The thread of the job keeps the chunks in their places. *)
LEMMA MainKeeps ==
  ASSUME RangeInv, MainStep
  PROVE  Phases' /\ EachChunkOnce'
<1>1. TypeInv /\ TypeInv'
  BY MainTyped DEF RangeInv
<1>2. ASSUME pc' # "copy", pending' = pending, written' \in {{}, written}
      PROVE  EachChunkOnce'
  <2>1. \A w \in Worker : worker'[w].item = None
    BY <1>1, <1>2 DEF TypeInv, Carrying
  <2> QED BY <1>2, <2>1 DEF RangeInv, EachChunkOnce, Busy
<1>3. CASE Begin
  BY <1>2, <1>3 DEF RangeInv, Phases, Begin
<1>4. CASE List
  <2>1. \A w \in Worker : worker'[w].item = None /\ worker'[w].at = "loop"
    BY <1>4, IdleTyped DEF List
  <2>2. written' = {} /\ pending' = Chunk /\ ~stopped' /\ failure' = "none" /\ pc' = "copy"
    BY <1>4 DEF List, RangeInv, Phases
  <2>3. EachChunkOnce'
    BY <2>1, <2>2 DEF EachChunkOnce, Busy
  <2>4. status' = "COPYING"
    BY <1>4 DEF List, RangeInv, Phases
  <2> QED BY <2>1, <2>2, <2>3, <2>4 DEF Phases
<1>5. CASE ListFails
  BY <1>2, <1>5 DEF RangeInv, Phases, shared, ListFails
<1>6. CASE Join
  BY <1>2, <1>6 DEF RangeInv, Phases, shared, Join
<1>7. CASE Close
  BY <1>1, <1>2, <1>7 DEF RangeInv, Phases, shared, Close
<1>8. CASE ListRefused
  BY <1>2, <1>8 DEF RangeInv, Phases, shared, ListRefused
<1>9. CASE ListCancelled
  BY <1>2, <1>9 DEF RangeInv, Phases, shared, ListCancelled
<1> QED BY <1>3, <1>4, <1>5, <1>6, <1>7, <1>8, <1>9 DEF MainStep

(* So does every step of a download thread. *)
LEMMA WorkerKeeps ==
  ASSUME RangeInv, NEW w \in Worker, WorkerStep(w)
  PROVE  Phases' /\ EachChunkOnce'
<1>1. /\ pc = "copy" /\ pc' = "copy" /\ status' = status
      /\ \A x \in Worker \ {w} : worker'[x] = worker[x]
      /\ worker'[w].at = "ended" => stopped' \/ pending' = {}
      /\ Kept(w) \/ Taken(w) \/ Done(w) \/ Dropped(w)
  BY StepShape DEF RangeInv, main
<1>2. Phases'
  BY <1>1 DEF RangeInv, Phases, Kept, Taken, Done, Dropped, shared
<1>3. EachChunkOnce'
  <2>1. CASE Kept(w)
    BY <1>1, <2>1 DEF RangeInv, EachChunkOnce, Busy, Kept, shared
  <2>2. CASE Taken(w)
    <3> DEFINE Held == {worker[x].item : x \in Busy}
               i == worker'[w].item
    <3>1. i \in pending /\ i # None /\ worker[w].item = None
      BY <2>2, RangeAssumption DEF Taken, RangeInv, TypeInv, TypeOK
    <3>2. Busy' = Busy \cup {w} /\ w \notin Busy
      BY <1>1, <3>1 DEF Busy
    <3>3. \A x \in Busy : worker'[x].item = worker[x].item
      BY <1>1, <3>2 DEF Busy
    <3>4. Held' = Held \cup {i}
      BY <3>2, <3>3
    <3>5. \A x \in Busy : worker[x].item \notin pending \cup written
      BY DEF RangeInv, EachChunkOnce
    <3>6. pending' = pending \ {i} /\ written' = written /\ ~stopped
      BY <2>2 DEF Taken
    <3>7. i \notin written
      BY <3>1 DEF RangeInv, EachChunkOnce
    <3>8. \A x \in Busy' : worker'[x].item \notin pending' \cup written'
      BY <3>1, <3>2, <3>3, <3>5, <3>6, <3>7
    <3>9. \A x, y \in Busy' : x # y => worker'[x].item # worker'[y].item
      BY <3>1, <3>2, <3>3, <3>5 DEF RangeInv, EachChunkOnce
    <3>10. pending' \cup written' \cup Held' = Chunk
      BY <1>1, <3>1, <3>4, <3>6 DEF RangeInv, EachChunkOnce
    <3> QED BY <3>6, <3>8, <3>9, <3>10 DEF RangeInv, EachChunkOnce
  <2>3. CASE Done(w)
    <3> DEFINE Held == {worker[x].item : x \in Busy}
               i == worker[w].item
    <3>1. /\ i \in Chunk /\ i # None /\ worker'[w].item = None
          /\ written' = written \cup {i} /\ UNCHANGED <<pending, stopped>>
      BY <2>3, RangeAssumption DEF Done
    <3>2. w \in Busy /\ Busy' = Busy \ {w}
      BY <1>1, <3>1 DEF Busy
    <3>3. \A x \in Busy' : worker'[x].item = worker[x].item
      BY <1>1, <3>2 DEF Busy
    <3>4. Held = Held' \cup {i}
      BY <3>2, <3>3
    <3>5. i \notin pending /\ pending' \cap written' = {}
      BY <3>1, <3>2 DEF RangeInv, EachChunkOnce
    <3>6. \A x \in Busy' : worker'[x].item # i
      BY <3>2, <3>3 DEF RangeInv, EachChunkOnce
    <3>7. \A x \in Busy' : worker'[x].item \notin pending' \cup written'
      BY <3>1, <3>2, <3>3, <3>6 DEF RangeInv, EachChunkOnce
    <3>8. \A x, y \in Busy' : x # y => worker'[x].item # worker'[y].item
      BY <3>2, <3>3 DEF RangeInv, EachChunkOnce
    <3>9. pc' = "copy" /\ ~stopped' => pending' \cup written' \cup Held' = Chunk
      BY <1>1, <3>1, <3>4 DEF RangeInv, EachChunkOnce
    <3> QED BY <3>5, <3>7, <3>8, <3>9 DEF EachChunkOnce
  <2>4. CASE Dropped(w)
    BY <1>1, <2>4 DEF RangeInv, EachChunkOnce, Busy, Dropped
  <2> QED BY <1>1, <2>1, <2>2, <2>3, <2>4
<1> QED BY <1>2, <1>3

(* The SAS and the user move no chunk. *)
LEMMA OthersKeep ==
  ASSUME RangeInv, Expire \/ WindowEnds \/ RequestCancel \/ UNCHANGED vars
  PROVE  Phases' /\ EachChunkOnce'
<1>1. UNCHANGED <<pc, status, worker, pending, stopped, failure, written>>
  BY DEF Expire, WindowEnds, RequestCancel, vars, main, shared
<1> QED BY <1>1 DEF RangeInv, Phases, EachChunkOnce, Busy

(* The inductive invariant holds at any time. *)
LEMMA RangeInvariant == Spec => []RangeInv
<1>1. Init => RangeInv
  <2> SUFFICES ASSUME Init PROVE RangeInv
    OBVIOUS
  <2>1. TypeInv
    BY InitTyped
  <2>2. \A w \in Worker : worker[w].item = None
    BY IdleTyped DEF Init
  <2>3. pc = "begin" /\ status = "PENDING"
    BY DEF Init
  <2>4. Busy = {}
    BY <2>2 DEF Busy
  <2>5. Phases
    BY <2>3 DEF Phases
  <2>6. EachChunkOnce
    BY <2>3, <2>4 DEF EachChunkOnce, Init
  <2> QED BY <2>1, <2>5, <2>6 DEF RangeInv
<1>2. RangeInv /\ [Next]_vars => RangeInv'
  <2> SUFFICES ASSUME RangeInv, [Next]_vars PROVE RangeInv'
    OBVIOUS
  <2>1. TypeInv'
    BY MainTyped, WorkerTyped, OthersTyped DEF RangeInv, Next
  <2>2. Phases' /\ EachChunkOnce'
    BY MainKeeps, WorkerKeeps, OthersKeep DEF Next
  <2> QED BY <2>1, <2>2 DEF RangeInv
<1> QED BY <1>1, <1>2, PTL DEF Spec

(* However the threads interleave, no chunk is lost between the iterator,  *)
(* a thread and the volume, and none is with two threads.                  *)
THEOREM EveryChunkOnce == Spec => []EachChunkOnce
<1>1. RangeInv => EachChunkOnce
  BY DEF RangeInv
<1> QED BY <1>1, RangeInvariant, PTL

(* After the first failure no thread takes another chunk. *)
THEOREM NoneTakenAfterFailure == Spec => NothingTakenAfterFailure
<1>1. TypeInv /\ [Next]_vars => [stopped /\ stopped' => pending' = pending]_vars
  <2> SUFFICES ASSUME TypeInv, [Next]_vars, stopped, stopped'
               PROVE  pending' = pending
    OBVIOUS
  <2>1. ASSUME NEW w \in Worker, WorkerStep(w) PROVE pending' = pending
    BY <2>1, StepShape DEF Kept, Taken, Done, Dropped, shared
  <2>2. CASE MainStep
    BY <2>2 DEF MainStep, Begin, List, ListRefused, ListFails, ListCancelled, Join, Close, shared
  <2>3. CASE Expire \/ WindowEnds \/ RequestCancel \/ UNCHANGED vars
    BY <2>3 DEF Expire, WindowEnds, RequestCancel, vars, shared
  <2> QED BY <2>1, <2>2, <2>3 DEF Next
<1> QED BY <1>1, AlwaysTyped, PTL DEF Spec, NothingTakenAfterFailure

(* The disk is COPIED only when the last thread has ended without a        *)
(* failure, and then nothing is pending.                                   *)
LEMMA JoinCopied ==
  ASSUME RangeInv, Join, failure = "none"
  PROVE  written = Chunk
<1>1. pc = "copy" /\ \A w \in Worker : worker[w].at = "ended"
  BY DEF Join
<1>2. ~stopped /\ pending = {}
  BY <1>1, RangeAssumption DEF RangeInv, Phases
<1>3. Busy = {}
  BY <1>1 DEF Busy, RangeInv, TypeInv, Carrying
<1> QED BY <1>1, <1>2, <1>3 DEF RangeInv, EachChunkOnce

(* The copy of an Azure disk does what copying a disk promises: COPIED is  *)
(* said of a disk with all its chunks written, and for good.               *)
THEOREM CopyImplemented == Spec => ImplementsDiskCopy
<1> USE DEF Copy!vars
<1>1. Init => Copy!Init
  BY DEF Init, Copy!Init
<1>2. RangeInv /\ [Next]_vars => [Copy!Next]_(Copy!vars)
  <2> SUFFICES ASSUME RangeInv, [Next]_vars PROVE [Copy!Next]_(Copy!vars)
    OBVIOUS
  <2>1. CASE Begin
    BY <2>1 DEF Begin, RangeInv, Phases, Copy!Next, Copy!Begin
  <2>2. CASE List
    BY <2>2 DEF List
  <2>3. CASE ListFails
    BY <2>3 DEF ListFails, RangeInv, Phases, shared, Copy!Next, Copy!Failed
  <2>4. CASE Join
    <3>1. CASE failure = "none"
      BY <2>4, <3>1, JoinCopied DEF Join, RangeInv, Phases, shared, Copy!Next, Copy!Copied
    <3>2. CASE failure # "none"
      BY <2>4, <3>2 DEF Join, RangeInv, Phases, shared, Copy!Next, Copy!Failed
    <3> QED BY <3>1, <3>2
  <2>5. CASE Close
    BY <2>5 DEF Close, shared
  <2>6. ASSUME NEW w \in Worker, WorkerStep(w) PROVE [Copy!Next]_(Copy!vars)
    <3>1. pc = "copy" /\ status' = status
      BY <2>6, StepShape DEF RangeInv, main
    <3>2. written \subseteq written' /\ written' \subseteq Chunk
      BY <2>6, StepShape
      DEF RangeInv, TypeInv, TypeOK, Kept, Taken, Done, Dropped, shared
    <3> QED BY <3>1, <3>2 DEF RangeInv, Phases, Copy!Next, Copy!Write
  <2>7. CASE Expire \/ WindowEnds \/ RequestCancel \/ UNCHANGED vars
    BY <2>7 DEF Expire, WindowEnds, RequestCancel, vars, main, shared
  <2>8. CASE ListRefused
    BY <2>8 DEF ListRefused, RangeInv, Phases, shared, Copy!Next, Copy!Failed
  <2>9. CASE ListCancelled
    BY <2>9 DEF ListCancelled, RangeInv, Phases, shared, Copy!Next, Copy!Failed
  <2> QED BY <2>1, <2>2, <2>3, <2>4, <2>5, <2>6, <2>7, <2>8, <2>9 DEF Next, MainStep
<1> QED BY <1>1, <1>2, RangeInvariant, PTL DEF Spec, ImplementsDiskCopy, Copy!Spec

-----------------------------------------------------------------------------
(* An expiry takes one request from a thread, and no more: a renewal       *)
(* follows an expiry that no thread has answered yet, and until the next   *)
(* one every refused thread finds the new SAS.                             *)
GrantInv ==
  /\ sas \in Nat \ {0}
  /\ valid = 0 /\ faults = 0 /\ ~cancel => expiries >= 1
  /\ pc = "copy" /\ recent => valid = sas
  /\ valid = sas /\ ~recent => \A w \in Worker :
       worker[w].at # "refused" /\ (worker[w].at = "sent" => worker[w].accepted)

Spent == IF valid = 0 THEN expiries ELSE expiries + 1
RequestsInv ==
  \A w \in Worker :
    /\ worker[w].at = "fetch" => worker[w].tries <= Spent
    /\ worker[w].at = "sent" /\ ~worker[w].accepted => worker[w].tries <= expiries
    /\ worker[w].at \in {"refused", "revoked"} => worker[w].tries <= expiries
    /\ worker[w].at = "retry" => worker[w].tries + 1 <= Spent

ExpiryInv == GrantInv /\ (faults = 0 /\ ~cancel => RequestsInv) /\ ExpirySurvived

(* The thread of the job renews the SAS only while no other thread lives. *)
LEMMA MainKeepsGrants ==
  ASSUME RangeInv, ExpiryInv, MainStep
  PROVE  ExpiryInv'
<1> USE DEF ExpiryInv, GrantInv, RequestsInv, ExpirySurvived, Spent
<1>1. CASE Begin
  BY <1>1 DEF Begin, access
<1>2. CASE List
  <2>1. \A w \in Worker : worker'[w].at = "loop"
    BY <1>2, IdleTyped DEF List
  <2>2. sas' \in Nat \ {0} /\ valid' = sas' /\ failure' = "none" /\ ~recent'
    BY <1>2 DEF List, Renewed
  <2> QED BY <2>1, <2>2
<1>3. CASE ListFails
  <2>1. sas' \in Nat \ {0} /\ faults' # 0 /\ pc' # "copy" /\ worker' = worker
    BY <1>3, RangeAssumption DEF ListFails, Renewed, Fault, RangeInv, TypeInv, TypeOK
  <2>2. \A w \in Worker : worker[w].at = "ended"
    BY <1>3 DEF ListFails, RangeInv, TypeInv, Carrying
  <2> QED BY <1>3, <2>1, <2>2 DEF ListFails, shared
<1>4. CASE Join
  BY <1>4 DEF Join, shared, access
<1>5. CASE Close
  <2>1. faults' = 0 => faults = 0
    BY <1>5 DEF Close, Fault, RangeInv, TypeInv, TypeOK
  <2> QED BY <1>5, <2>1 DEF Close, shared, access
<1>6. CASE ListRefused
  BY <1>6 DEF ListRefused, shared, access
<1>7. CASE ListCancelled
  <2>1. \A w \in Worker : worker[w].at = "ended"
    BY <1>7 DEF ListCancelled, RangeInv, TypeInv, Carrying
  <2> QED BY <1>7, <2>1 DEF ListCancelled, shared
<1> QED BY <1>1, <1>2, <1>3, <1>4, <1>5, <1>6, <1>7 DEF MainStep

(* A thread gives up only after more refusals than there were expiries, or *)
(* because another one has failed.                                         *)
LEMMA WorkerKeepsGrants ==
  ASSUME RangeInv, ExpiryInv, NEW w \in Worker, WorkerStep(w)
  PROVE  ExpiryInv'
<1> DEFINE v == worker[w]
<1>1. /\ pc = "copy" /\ (stopped <=> failure # "none")
      /\ \A x \in Worker \ {w} : worker'[x] = worker[x]
  BY StepShape DEF RangeInv, Phases
<1>2. /\ worker \in [Worker -> WorkerState] /\ v \in WorkerState /\ v.tries \in 0..Retries
      /\ sas \in Nat \ {0} /\ valid \in {0, sas} /\ expiries \in Nat /\ faults \in Nat
      /\ Retries \in Nat /\ recent \in BOOLEAN
  BY RangeAssumption DEF RangeInv, TypeInv, TypeOK, WorkerState, ExpiryInv, GrantInv
<1>3. Idle.at = "ended" /\ Looping.at = "loop"
  BY IdleTyped
<1> USE DEF GrantInv, RequestsInv, ExpirySurvived, Spent
<1>4. CASE Take(w)
  <2>1. /\ worker'[w].at \in {"ended", "check"}
        /\ UNCHANGED <<failure, access, cancel, faults, expiries>>
    BY <1>2, <1>3, <1>4 DEF Take, WorkerState
  <2> QED BY <1>1, <1>2, <2>1 DEF ExpiryInv, access
<1>5. CASE Check(w)
  <2>1. CASE cancel
    BY <1>1, <1>2, <1>3, <1>5, <2>1 DEF Check, FailWith, ExpiryInv, access
  <2>2. CASE ~cancel
    <3>1. worker'[w].at = "fetch" /\ worker'[w].tries = 1
      BY <1>2, <1>5, <2>2 DEF Check, WorkerState
    <3>2. UNCHANGED <<failure, access, cancel, faults, expiries>>
      BY <1>5, <2>2 DEF Check, shared
    <3> QED BY <1>1, <1>2, <3>1, <3>2 DEF ExpiryInv, access
  <2> QED BY <2>1, <2>2
<1>6. CASE Fetch(w)
  <2>1. CASE stopped
    BY <1>1, <1>2, <1>3, <1>6, <2>1 DEF Fetch, FailWith, ExpiryInv, access
  <2>2. CASE ~stopped
    <3>1. /\ worker'[w].at = "sent" /\ worker'[w].tries = v.tries
          /\ worker'[w].accepted = (sas = valid)
      BY <1>2, <1>6, <2>2 DEF Fetch, WorkerState
    <3>2. v.at = "fetch" /\ UNCHANGED <<failure, access, cancel, faults, expiries>>
      BY <1>6, <2>2 DEF Fetch, shared, At
    <3> QED BY <1>1, <1>2, <3>1, <3>2 DEF ExpiryInv, access
  <2> QED BY <2>1, <2>2
<1>7. CASE Answer(w)
  <2>1. v.at = "sent" /\ UNCHANGED <<failure, access, cancel, expiries>>
    BY <1>7 DEF Answer, shared, At
  <2>2. CASE Fault
    <3>1. worker'[w].at = "retry" /\ faults' # 0
      BY <1>2, <1>7, <2>2 DEF Answer, Go, WorkerState, Fault
    <3> QED BY <1>1, <1>2, <2>1, <3>1 DEF ExpiryInv, access
  <2>3. CASE ~Fault
    <3>1. /\ worker'[w].at = IF v.accepted THEN "write" ELSE "refused"
          /\ worker'[w].tries = v.tries /\ faults' = faults
      BY <1>2, <1>7, <2>3 DEF Answer, Go, WorkerState
    <3> QED BY <1>1, <1>2, <2>1, <3>1 DEF ExpiryInv, access
  <2> QED BY <2>2, <2>3
<1>8. CASE Refresh(w)
  <2>1. /\ v.at = "refused" /\ worker'[w].tries = v.tries
        /\ UNCHANGED <<failure, sas, recent, cancel, faults, expiries>>
    BY <1>2, <1>8 DEF Refresh, shared, At, Go, WorkerState
  <2>2. CASE recent
    <3>1. worker'[w].at = "retry" /\ UNCHANGED valid
      BY <1>2, <1>8, <2>2 DEF Refresh, Go, WorkerState
    <3> QED BY <1>1, <1>2, <2>1, <2>2, <3>1 DEF ExpiryInv
  <2>3. CASE ~recent
    <3>1. worker'[w].at = "revoked" /\ valid' = 0
      BY <1>2, <1>8, <2>3 DEF Refresh, Go, WorkerState
    <3>2. valid = 0
      BY <1>2, <2>1, <2>3 DEF ExpiryInv
    <3> QED BY <1>1, <1>2, <2>1, <2>3, <3>1, <3>2 DEF ExpiryInv
  <2> QED BY <2>2, <2>3
<1>9. CASE Grant(w)
  <2>1. /\ v.at = "revoked" /\ worker'[w].tries = v.tries /\ worker'[w].at = "retry"
        /\ sas' = sas + 1 /\ valid' = sas + 1 /\ recent' = TRUE
        /\ UNCHANGED <<failure, cancel, faults, expiries>>
    BY <1>2, <1>9 DEF Grant, shared, At, Go, WorkerState
  <2>2. GrantInv' /\ ExpirySurvived'
    BY <1>2, <2>1 DEF ExpiryInv
  <2>3. Spent' = expiries + 1 /\ Spent \in {expiries, expiries + 1}
    BY <1>2, <2>1
  <2>4. ASSUME faults = 0, ~cancel, NEW x \in Worker
        PROVE  /\ worker'[x].at = "fetch" => worker'[x].tries <= expiries + 1
               /\ worker'[x].at = "sent" /\ ~worker'[x].accepted => worker'[x].tries <= expiries
               /\ worker'[x].at \in {"refused", "revoked"} => worker'[x].tries <= expiries
               /\ worker'[x].at = "retry" => worker'[x].tries + 1 <= expiries + 1
    <3>1. worker[x].tries \in Nat
      BY <1>2 DEF WorkerState
    <3> QED BY <1>1, <1>2, <2>1, <2>4, <3>1 DEF ExpiryInv
  <2> HIDE DEF Spent
  <2> QED BY <2>1, <2>2, <2>3, <2>4 DEF ExpiryInv
<1>10. CASE GrantFails(w)
  <2>1. worker'[w].at = "retry" /\ faults' # 0
    BY <1>2, <1>10 DEF GrantFails, Go, WorkerState, Fault
  <2> QED BY <1>1, <1>2, <1>10, <2>1 DEF GrantFails, shared, ExpiryInv
<1>11. CASE Retry(w)
  <2>1. v.at = "retry" /\ UNCHANGED <<access, cancel, faults, expiries>>
    BY <1>11 DEF Retry, At
  <2>2. CASE v.tries < Retries
    <3>1. worker'[w].at = "fetch" /\ worker'[w].tries = v.tries + 1 /\ UNCHANGED failure
      BY <1>2, <1>11, <2>2 DEF Retry, WorkerState, shared
    <3> QED BY <1>1, <1>2, <2>1, <3>1 DEF ExpiryInv, access
  <2>3. CASE ~(v.tries < Retries)
    <3>1. worker'[w] = Idle /\ failure' = IF failure = "none" THEN "retry" ELSE failure
      BY <1>2, <1>11, <2>3 DEF Retry, FailWith
    <3>2. faults = 0 /\ ~cancel => ~(expiries < Retries)
      BY <1>2, <2>1, <2>3 DEF ExpiryInv
    <3> QED BY <1>1, <1>2, <1>3, <2>1, <3>1, <3>2 DEF ExpiryInv, access
  <2> QED BY <2>2, <2>3
<1>12. CASE Write(w)
  <2>1. CASE FailWith(w, "retry") /\ Fault
    <3>1. worker'[w] = Idle /\ faults' # 0 /\ UNCHANGED <<access, cancel, expiries>>
      BY <1>2, <1>12, <2>1 DEF Write, FailWith, Fault
    <3> QED BY <1>1, <1>2, <1>3, <3>1 DEF ExpiryInv, access
  <2>2. CASE ~(FailWith(w, "retry") /\ Fault)
    <3>1. worker'[w] = Looping /\ UNCHANGED <<access, cancel, expiries, failure, faults>>
      BY <1>2, <1>12, <2>2 DEF Write
    <3> QED BY <1>1, <1>2, <1>3, <3>1 DEF ExpiryInv, access
  <2> QED BY <2>1, <2>2
<1>13. CASE GrantCancelled(w)
  <2>1. worker'[w] = Idle /\ cancel /\ UNCHANGED <<sas, valid, recent, cancel, faults, expiries>>
    BY <1>2, <1>13 DEF GrantCancelled, FailWith
  <2> QED BY <1>1, <1>2, <1>3, <2>1 DEF ExpiryInv
<1>. QED BY <1>4, <1>5, <1>6, <1>7, <1>8, <1>9, <1>10, <1>11, <1>12, <1>13 DEF WorkerStep

(* The SAS expires only when all refusals before have been answered.       *)
LEMMA OthersKeepGrants ==
  ASSUME RangeInv, ExpiryInv, Expire \/ WindowEnds \/ RequestCancel \/ UNCHANGED vars
  PROVE  ExpiryInv'
<1> USE RangeAssumption DEF ExpiryInv, GrantInv, RequestsInv, ExpirySurvived, Spent
<1>1. /\ UNCHANGED <<pc, worker, failure, sas, faults>> /\ (cancel => cancel')
      /\ sas \in Nat /\ expiries \in Nat /\ Retries \in Nat
      /\ \A w \in Worker : worker[w].tries \in Nat
  BY DEF Expire, WindowEnds, RequestCancel, vars, main, shared, access,
         RangeInv, TypeInv, TypeOK, WorkerState
<1>2. CASE Expire
  BY <1>1, <1>2 DEF Expire
<1>3. CASE WindowEnds
  BY <1>1, <1>3 DEF WindowEnds, At
<1>4. CASE RequestCancel \/ UNCHANGED vars
  BY <1>1, <1>4 DEF RequestCancel, vars, access
<1>. QED BY <1>2, <1>3, <1>4

(* No thread gives up for expiries alone. *)
LEMMA ExpiryInvariant == Spec => []ExpirySurvived
<1>1. Init => ExpiryInv
  BY IdleTyped DEF Init, ExpiryInv, GrantInv, RequestsInv, ExpirySurvived
<1>2. RangeInv /\ ExpiryInv /\ [Next]_vars => ExpiryInv'
  BY MainKeepsGrants, WorkerKeepsGrants, OthersKeepGrants DEF Next
<1>3. ExpiryInv => ExpirySurvived
  BY DEF ExpiryInv
<1>. QED BY <1>1, <1>2, <1>3, RangeInvariant, PTL DEF Spec

-----------------------------------------------------------------------------
(* The readers that have a place of the pool, those that still have to get *)
(* one or have given theirs back before they closed the connection, and    *)
(* those with a connection.                                                *)
Placed == {w \in Reader : poolPc[w] \in {"connect", "read"}}
Waiting == {w \in Reader : poolPc[w] \in {"lock", "get", "drop"}}
Connected == {w \in Reader : poolPc[w] \in {"read", "drop"}}
Dropping == {w \in Reader : poolPc[w] = "drop"}
Elements(s) == {s[i] : i \in 1..Len(s)}

(* A place is a reader's or an idle connection's; a reader that needs one  *)
(* has met an empty queue, so places and those that need one are never     *)
(* more than the readers.                                                  *)
PlacesInv ==
  /\ ~poolClosed => poolOpen = Cardinality(Placed) + Len(idle)
  /\ poolOpen + Cardinality(Waiting) <= Cardinality(Reader)
  /\ \A w \in Reader : poolPc[w] # "get"

(* Whatever qemu-nbd has open is somebody's, and in the pool's list.       *)
OpenInv ==
  /\ ~poolClosed => conns \subseteq Elements(idle) \cup {mine[w] : w \in Connected}
  /\ conns \subseteq all \cup {mine[w] : w \in Dropping}
  /\ \A w \in Connected : mine[w] # 0
  /\ poolClosed => conns = {} /\ \A w \in Reader : poolPc[w] = "end"

PoolInv == Pool!TypeOK /\ PlacesInv /\ OpenInv

(* The sets of readers are finite. *)
LEMMA ReadersFinite ==
  ASSUME NEW S \in SUBSET Reader
  PROVE  IsFiniteSet(S) /\ Cardinality(S) \in Nat /\ Cardinality(S) <= Cardinality(Reader)
BY PoolAssumption, FS_Subset, FS_CardinalityType

(* How many readers are in a set, after one has come or gone *)
LEMMA OneMore ==
  ASSUME NEW S \in SUBSET Reader, NEW w \in Reader
  PROVE  /\ w \notin S => Cardinality(S \cup {w}) = Cardinality(S) + 1
         /\ w \in S => Cardinality(S \ {w}) = Cardinality(S) - 1
BY ReadersFinite, FS_AddElement, FS_RemoveElement

(* Two sets of readers without one of them and with nobody in common are   *)
(* smaller together than the set of all.                                   *)
LEMMA OneApart ==
  ASSUME NEW S \in SUBSET Reader, NEW T \in SUBSET Reader, S \cap T = {},
         NEW w \in Reader, w \notin S \cup T
  PROVE  Cardinality(S) + Cardinality(T) + 1 <= Cardinality(Reader)
<1>1. Cardinality(S \cup T) = Cardinality(S) + Cardinality(T)
  <2>1. IsFiniteSet(S) /\ IsFiniteSet(T) /\ Cardinality(S) \in Nat /\ Cardinality(T) \in Nat
    BY ReadersFinite
  <2>2. Cardinality(S \cup T) = Cardinality(S) + Cardinality(T) - Cardinality(S \cap T)
    BY <2>1, FS_Union
  <2> QED BY <2>1, <2>2, FS_EmptySet
<1>2. Cardinality((S \cup T) \cup {w}) = Cardinality(S \cup T) + 1
  BY OneMore
<1>3. Cardinality((S \cup T) \cup {w}) <= Cardinality(Reader)
  <2>1. (S \cup T) \cup {w} \in SUBSET Reader
    OBVIOUS
  <2> QED BY <2>1, ReadersFinite
<1>. QED BY <1>1, <1>2, <1>3, ReadersFinite

(* The idle connections, when one is taken from the queue or put into it *)
LEMMA QueueElements ==
  ASSUME NEW s \in Seq(1..MaxConns)
  PROVE  /\ \A c : Elements(Append(s, c)) = Elements(s) \cup {c}
         /\ s # <<>> => Elements(s) = Elements(Tail(s)) \cup {Head(s)}
         /\ IsFiniteSet(Elements(s)) /\ Cardinality(Elements(s)) <= Len(s)
         /\ Cardinality(Elements(s)) \in Nat
<1>1. Len(s) \in Nat
  OBVIOUS
<1>2. ASSUME NEW c PROVE Elements(Append(s, c)) = Elements(s) \cup {c}
  <2>1. Len(Append(s, c)) = Len(s) + 1
    OBVIOUS
  <2>2. \A i \in 1..Len(s) : Append(s, c)[i] = s[i]
    OBVIOUS
  <2>3. Append(s, c)[Len(s) + 1] = c
    OBVIOUS
  <2> QED BY <1>1, <2>1, <2>2, <2>3 DEF Elements
<1>3. ASSUME s # <<>> PROVE Elements(s) = Elements(Tail(s)) \cup {Head(s)}
  <2>1. Len(Tail(s)) = Len(s) - 1 /\ Len(s) >= 1 /\ Head(s) = s[1]
    BY <1>3
  <2>2. \A i \in 1..Len(s) - 1 : Tail(s)[i] = s[i + 1]
    BY <1>3
  <2>3. \A i \in 1..Len(s) : i = 1 \/ i - 1 \in 1..Len(s) - 1
    BY <1>1
  <2>4. Elements(s) \subseteq Elements(Tail(s)) \cup {Head(s)}
    <3> SUFFICES ASSUME NEW i \in 1..Len(s) PROVE s[i] \in Elements(Tail(s)) \cup {Head(s)}
      BY DEF Elements
    <3>1. CASE i = 1
      BY <2>1, <3>1
    <3>2. CASE i # 1
      <4>1. i - 1 \in 1..Len(Tail(s)) /\ Tail(s)[i - 1] = s[i]
        BY <1>1, <2>1, <2>2, <3>2
      <4> QED BY <4>1 DEF Elements
    <3> QED BY <3>1, <3>2
  <2>5. Elements(Tail(s)) \cup {Head(s)} \subseteq Elements(s)
    BY <1>1, <2>1, <2>2 DEF Elements
  <2> QED BY <2>4, <2>5
<1>4. /\ IsFiniteSet(Elements(s)) /\ Cardinality(Elements(s)) <= Len(s)
      /\ Cardinality(Elements(s)) \in Nat
  <2>1. IsFiniteSet(1..Len(s)) /\ Cardinality(1..Len(s)) = Len(s)
    BY <1>1, FS_Interval
  <2>2. s \in Surjection(1..Len(s), Elements(s))
    BY DEF Surjection, Elements
  <2> QED BY <2>1, <2>2, FS_Surjection, FS_CardinalityType
<1>. QED BY <1>2, <1>3, <1>4

(* What a set of readers holds is not more than there are of them. *)
LEMMA HeldBy ==
  ASSUME NEW S \in SUBSET Reader
  PROVE  /\ IsFiniteSet({mine[w] : w \in S})
         /\ Cardinality({mine[w] : w \in S}) \in Nat
         /\ Cardinality({mine[w] : w \in S}) <= Cardinality(S)
<1> DEFINE held == [w \in S |-> mine[w]]
<1>1. held \in Surjection(S, {mine[w] : w \in S})
  BY DEF Surjection
<1>. QED BY <1>1, ReadersFinite, FS_Surjection, FS_CardinalityType

(* How many readers have a place, and how many need one, after a step of   *)
(* one of them to a                                                        *)
Places == {"chunk", "lock", "connect", "get", "read", "drop", "retry", "end"}
HasPlace(a) == a \in {"connect", "read"}
Needs(a) == a \in {"lock", "get", "drop"}

LEMMA ReaderMoves ==
  ASSUME NEW w \in Reader, NEW a \in Places, poolPc \in [Reader -> Places],
         poolPc' = [poolPc EXCEPT ![w] = a]
  PROVE  /\ poolPc' \in [Reader -> Places]
         /\ poolPc'[w] = a /\ \A x \in Reader \ {w} : poolPc'[x] = poolPc[x]
         /\ (HasPlace(poolPc[w]) <=> HasPlace(a)) => Cardinality(Placed') = Cardinality(Placed)
         /\ ~HasPlace(poolPc[w]) /\ HasPlace(a) => Cardinality(Placed') = Cardinality(Placed) + 1
         /\ HasPlace(poolPc[w]) /\ ~HasPlace(a) => Cardinality(Placed') = Cardinality(Placed) - 1
         /\ (Needs(poolPc[w]) <=> Needs(a)) => Cardinality(Waiting') = Cardinality(Waiting)
         /\ ~Needs(poolPc[w]) /\ Needs(a) => Cardinality(Waiting') = Cardinality(Waiting) + 1
         /\ Needs(poolPc[w]) /\ ~Needs(a) => Cardinality(Waiting') = Cardinality(Waiting) - 1
         /\ Cardinality(Placed') \in Nat /\ Cardinality(Waiting') \in Nat
<1>1. /\ poolPc' \in [Reader -> Places]
      /\ poolPc'[w] = a /\ \A x \in Reader \ {w} : poolPc'[x] = poolPc[x]
  OBVIOUS
<1>2. ASSUME NEW S \in SUBSET Reader, NEW T \in SUBSET Reader, S \ {w} = T \ {w}
      PROVE  /\ (w \in S <=> w \in T) => Cardinality(T) = Cardinality(S)
             /\ w \notin S /\ w \in T => Cardinality(T) = Cardinality(S) + 1
             /\ w \in S /\ w \notin T => Cardinality(T) = Cardinality(S) - 1
  <2>1. (w \in S <=> w \in T) => S = T
    BY <1>2
  <2>2. w \notin S /\ w \in T => T = S \cup {w}
    BY <1>2
  <2>3. w \in S /\ w \notin T => T = S \ {w}
    BY <1>2
  <2> QED BY <2>1, <2>2, <2>3, OneMore
<1>3. /\ Placed \in SUBSET Reader /\ Placed' \in SUBSET Reader
      /\ Waiting \in SUBSET Reader /\ Waiting' \in SUBSET Reader
      /\ Placed \ {w} = Placed' \ {w} /\ Waiting \ {w} = Waiting' \ {w}
  BY <1>1 DEF Placed, Waiting
<1>4. /\ w \in Placed <=> HasPlace(poolPc[w])
      /\ w \in Placed' <=> HasPlace(a)
      /\ w \in Waiting <=> Needs(poolPc[w])
      /\ w \in Waiting' <=> Needs(a)
  BY <1>1 DEF Placed, Waiting, HasPlace, Needs
<1>. QED BY <1>1, <1>2, <1>3, <1>4, ReadersFinite

(* The queue of idle connections, when one is taken or given back          *)
LEMMA QueueTyped ==
  ASSUME NEW S, NEW s \in Seq(S)
  PROVE  /\ Len(s) \in Nat /\ (s = <<>> => Len(s) = 0)
         /\ s # <<>> => Head(s) \in S /\ Tail(s) \in Seq(S) /\ Len(Tail(s)) + 1 = Len(s)
         /\ \A c \in S : Append(s, c) \in Seq(S) /\ Len(Append(s, c)) = Len(s) + 1
<1>1. Len(s) \in Nat /\ (s = <<>> => Len(s) = 0)
  OBVIOUS
<1>2. ASSUME s # <<>> PROVE Head(s) \in S /\ Tail(s) \in Seq(S) /\ Len(Tail(s)) + 1 = Len(s)
  BY <1>2
<1>3. ASSUME NEW c \in S PROVE Append(s, c) \in Seq(S) /\ Len(Append(s, c)) = Len(s) + 1
  OBVIOUS
<1>. QED BY <1>1, <1>2, <1>3

(* As long as nobody has closed the pool, its steps keep types and places. *)
LEMMA PlacesKept ==
  ASSUME PoolInv, NEW w \in Reader, Pool!Step(w)
  PROVE  Pool!TypeOK' /\ PlacesInv' /\ ~poolClosed /\ ~poolClosed'
<1>1. ~poolClosed /\ poolClosed' = poolClosed /\ poolClosed \in BOOLEAN
  BY DEF PoolInv, OpenInv, Pool!TypeOK, Pool!Step, Pool!NextChunk, Pool!TakeIdle, Pool!Reserve,
         Pool!Get, Pool!Connect, Pool!ConnectFails, Pool!ReadDone, Pool!ReadBreaks,
         Pool!DropClose
<1>2. /\ poolPc \in [Reader -> Places] /\ poolPc[w] # "get"
      /\ mine \in [Reader -> 0..MaxConns] /\ idle \in Seq(1..MaxConns)
      /\ all \subseteq 1..MaxConns /\ conns \subseteq 1..MaxConns /\ opened \in 0..MaxConns
      /\ reads \in 0..MaxReads /\ poolStopped \in BOOLEAN
      /\ w \in Connected => mine[w] \in 1..MaxConns
  BY <1>1 DEF PoolInv, PlacesInv, OpenInv, Pool!TypeOK, Places, Connected
<1>3. /\ MaxConns \in Nat /\ MaxReads \in Nat
      /\ Placed \in SUBSET Reader /\ Waiting \in SUBSET Reader
  BY PoolAssumption DEF Placed, Waiting
<1>4. /\ Cardinality(Placed) \in Nat /\ Cardinality(Waiting) \in Nat
      /\ Cardinality(Reader) \in Nat /\ Len(idle) \in Nat /\ Size \in Nat /\ poolOpen \in Nat
      /\ Cardinality(Reader) <= Size /\ poolOpen <= Size
      /\ poolOpen = Cardinality(Placed) + Len(idle)
      /\ poolOpen + Cardinality(Waiting) <= Cardinality(Reader)
  <2>1. Len(idle) \in Nat
    BY <1>2
  <2>2. poolOpen \in 0..Size
    BY DEF PoolInv, Pool!TypeOK
  <2> QED BY <1>1, <1>3, <2>1, <2>2, PoolAssumption, ReadersFinite DEF PoolInv, PlacesInv
<1>5. ASSUME NEW a \in Places \ {"get"}, poolPc' = [poolPc EXCEPT ![w] = a],
             Len(idle') \in Nat, poolOpen' = Cardinality(Placed') + Len(idle'),
             poolOpen' + Cardinality(Waiting') <= Cardinality(Reader)
      PROVE  PlacesInv' /\ poolPc' \in [Reader -> Places] /\ poolOpen' \in 0..Size
  <2>1. /\ poolPc' \in [Reader -> Places]
        /\ poolPc'[w] = a /\ \A x \in Reader \ {w} : poolPc'[x] = poolPc[x]
        /\ Cardinality(Placed') \in Nat /\ Cardinality(Waiting') \in Nat
    BY <1>2, <1>5, ReaderMoves
  <2>2. poolOpen' \in Nat
    BY <1>5, <2>1
  <2>3. poolOpen' \in 0..Size
    BY <1>4, <1>5, <2>1, <2>2
  <2>4. \A x \in Reader : poolPc'[x] # "get"
    BY <1>5, <2>1 DEF PoolInv, PlacesInv
  <2> QED BY <1>5, <2>1, <2>3, <2>4 DEF PlacesInv
<1>7. w \in Waiting => Cardinality(Waiting) >= 1
  <2>1. w \in Waiting => Cardinality(Waiting \ {w}) \in Nat
                         /\ Cardinality(Waiting \ {w}) = Cardinality(Waiting) - 1
    BY <1>3, ReadersFinite, OneMore
  <2> QED BY <1>4, <2>1
<1>8. /\ mine' \in [Reader -> 0..MaxConns] /\ idle' \in Seq(1..MaxConns)
      /\ all' \subseteq 1..MaxConns /\ conns' \subseteq 1..MaxConns /\ opened' \in 0..MaxConns
      /\ reads' \in 0..MaxReads /\ poolStopped' \in BOOLEAN
  <2> USE <1>2, <1>3
  <2>1. CASE Pool!NextChunk(w)
    BY <2>1 DEF Pool!NextChunk
  <2>2. CASE Pool!TakeIdle(w)
    <3>1. idle # <<>> => Head(idle) \in 0..MaxConns /\ Tail(idle) \in Seq(1..MaxConns)
      BY QueueTyped
    <3> QED BY <2>2, <3>1 DEF Pool!TakeIdle
  <2>3. CASE Pool!Reserve(w)
    BY <2>3 DEF Pool!Reserve
  <2>4. CASE Pool!Get(w)
    BY <2>4 DEF Pool!Get
  <2>5. CASE Pool!Connect(w)
    BY <2>5 DEF Pool!Connect
  <2>6. CASE Pool!ConnectFails(w)
    BY <2>6 DEF Pool!ConnectFails, Pool!AfterFailure
  <2>7. CASE Pool!ReadDone(w)
    <3>1. Append(idle, mine[w]) \in Seq(1..MaxConns)
      BY <2>7, QueueTyped DEF Pool!ReadDone, Connected
    <3> QED BY <2>7, <3>1 DEF Pool!ReadDone
  <2>8. CASE Pool!ReadBreaks(w)
    BY <2>8 DEF Pool!ReadBreaks
  <2>9. CASE Pool!DropClose(w)
    <3>1. poolStopped' \in BOOLEAN
      BY <2>9 DEF Pool!DropClose, Pool!AfterFailure
    <3>2. /\ conns' \subseteq conns /\ mine' = [mine EXCEPT ![w] = 0]
          /\ UNCHANGED <<idle, all, opened, reads>>
      BY <2>9 DEF Pool!DropClose
    <3>3. mine' \in [Reader -> 0..MaxConns]
      BY <3>2
    <3> QED BY <3>1, <3>2, <3>3
  <2> QED BY <2>1, <2>2, <2>3, <2>4, <2>5, <2>6, <2>7, <2>8, <2>9 DEF Pool!Step
<1>9. /\ Len(idle') \in Nat
      /\ idle # <<>> => Len(Tail(idle)) + 1 = Len(idle)
      /\ idle = <<>> => Len(idle) = 0
  BY <1>2, <1>8, QueueTyped
<1>10. PlacesInv' /\ poolPc' \in [Reader -> Places] /\ poolOpen' \in 0..Size
  <2> USE <1>4, <1>9 DEF HasPlace, Needs
  <2>1. CASE Pool!NextChunk(w)
    <3>1. PICK a \in {"end", "retry"} : poolPc' = [poolPc EXCEPT ![w] = a]
      BY <2>1 DEF Pool!NextChunk
    <3>2. poolPc[w] = "chunk" /\ UNCHANGED <<idle, poolOpen>> /\ a \in Places
      BY <2>1 DEF Pool!NextChunk, Places
    <3>3. Cardinality(Placed') = Cardinality(Placed) /\ Cardinality(Waiting') = Cardinality(Waiting)
      BY <1>2, <3>1, <3>2, ReaderMoves
    <3>4. /\ poolOpen' = Cardinality(Placed') + Len(idle')
          /\ poolOpen' + Cardinality(Waiting') <= Cardinality(Reader)
      BY <3>1, <3>2, <3>3
    <3> QED BY <1>5, <3>1, <3>2, <3>4
  <2>2. CASE Pool!TakeIdle(w) /\ idle # <<>>
    <3>1. /\ poolPc[w] = "retry" /\ poolPc' = [poolPc EXCEPT ![w] = "read"] /\ "read" \in Places
          /\ idle' = Tail(idle) /\ poolOpen' = poolOpen
      BY <2>2 DEF Pool!TakeIdle, Places
    <3>2. /\ Cardinality(Placed') = Cardinality(Placed) + 1
          /\ Cardinality(Waiting') = Cardinality(Waiting)
      BY <1>2, <3>1, ReaderMoves
    <3>3. /\ poolOpen' = Cardinality(Placed') + Len(idle')
          /\ poolOpen' + Cardinality(Waiting') <= Cardinality(Reader)
      BY <2>2, <3>1, <3>2
    <3> QED BY <1>5, <3>1, <3>3
  <2>3. CASE Pool!TakeIdle(w) /\ idle = <<>>
    <3>1. Cardinality(Placed) + Cardinality(Waiting) + 1 <= Cardinality(Reader)
      <4>1. Placed \cap Waiting = {} /\ w \notin Placed \cup Waiting
        BY <2>3 DEF Placed, Waiting, Pool!TakeIdle
      <4> QED BY <1>3, <4>1, OneApart
    <3>2. /\ poolPc[w] = "retry" /\ poolPc' = [poolPc EXCEPT ![w] = "lock"] /\ "lock" \in Places
          /\ idle' = idle /\ poolOpen' = poolOpen
      BY <2>3 DEF Pool!TakeIdle, Places
    <3>3. /\ Cardinality(Placed') = Cardinality(Placed)
          /\ Cardinality(Waiting') = Cardinality(Waiting) + 1
      BY <1>2, <3>2, ReaderMoves
    <3>4. /\ poolOpen' = Cardinality(Placed') + Len(idle')
          /\ poolOpen' + Cardinality(Waiting') <= Cardinality(Reader)
      BY <2>3, <3>1, <3>2, <3>3
    <3> QED BY <1>5, <3>1, <3>2, <3>4
  <2>4. CASE Pool!Reserve(w)
    <3>1. poolOpen < Size
      BY <1>7, <2>4 DEF Pool!Reserve, Waiting
    <3>2. /\ poolPc[w] = "lock" /\ poolPc' = [poolPc EXCEPT ![w] = "connect"]
          /\ "connect" \in Places /\ idle' = idle /\ poolOpen' = poolOpen + 1
      BY <2>4, <3>1 DEF Pool!Reserve, Places
    <3>3. /\ Cardinality(Placed') = Cardinality(Placed) + 1
          /\ Cardinality(Waiting') = Cardinality(Waiting) - 1
      BY <1>2, <3>2, ReaderMoves
    <3>4. /\ poolOpen' = Cardinality(Placed') + Len(idle')
          /\ poolOpen' + Cardinality(Waiting') <= Cardinality(Reader)
      BY <3>2, <3>3
    <3> QED BY <1>5, <3>1, <3>2, <3>4
  <2>5. CASE Pool!Connect(w)
    <3>1. /\ poolPc[w] = "connect" /\ poolPc' = [poolPc EXCEPT ![w] = "read"]
          /\ "read" \in Places /\ idle' = idle /\ poolOpen' = poolOpen
      BY <2>5 DEF Pool!Connect, Places
    <3>2. Cardinality(Placed') = Cardinality(Placed) /\ Cardinality(Waiting') = Cardinality(Waiting)
      BY <1>2, <3>1, ReaderMoves
    <3>3. /\ poolOpen' = Cardinality(Placed') + Len(idle')
          /\ poolOpen' + Cardinality(Waiting') <= Cardinality(Reader)
      BY <3>1, <3>2
    <3> QED BY <1>5, <3>1, <3>3
  <2>6. CASE Pool!ConnectFails(w)
    <3>1. PICK a \in {"end", "retry"} : poolPc' = [poolPc EXCEPT ![w] = a]
      BY <2>6 DEF Pool!ConnectFails, Pool!AfterFailure
    <3>2. poolPc[w] = "connect" /\ idle' = idle /\ poolOpen' = poolOpen - 1 /\ a \in Places
      BY <2>6 DEF Pool!ConnectFails, Places
    <3>3. /\ Cardinality(Placed') = Cardinality(Placed) - 1
          /\ Cardinality(Waiting') = Cardinality(Waiting)
      BY <1>2, <3>1, <3>2, ReaderMoves
    <3>4. /\ poolOpen' = Cardinality(Placed') + Len(idle')
          /\ poolOpen' + Cardinality(Waiting') <= Cardinality(Reader)
      BY <3>1, <3>2, <3>3
    <3> QED BY <1>5, <3>1, <3>2, <3>4
  <2>7. CASE Pool!ReadDone(w)
    <3>1. Append(idle, mine[w]) = idle' /\ Len(idle') = Len(idle) + 1
      BY <1>2, <2>7, QueueTyped DEF Pool!ReadDone, Connected
    <3>2. /\ poolPc[w] = "read" /\ poolPc' = [poolPc EXCEPT ![w] = "chunk"]
          /\ "chunk" \in Places /\ poolOpen' = poolOpen
      BY <2>7 DEF Pool!ReadDone, Places
    <3>3. /\ Cardinality(Placed') = Cardinality(Placed) - 1
          /\ Cardinality(Waiting') = Cardinality(Waiting)
      BY <1>2, <3>2, ReaderMoves
    <3>4. /\ poolOpen' = Cardinality(Placed') + Len(idle')
          /\ poolOpen' + Cardinality(Waiting') <= Cardinality(Reader)
      BY <3>1, <3>2, <3>3
    <3> QED BY <1>5, <3>1, <3>2, <3>4
  <2>8. CASE Pool!ReadBreaks(w)
    <3>1. /\ poolPc[w] = "read" /\ poolPc' = [poolPc EXCEPT ![w] = "drop"]
          /\ "drop" \in Places /\ idle' = idle /\ poolOpen' = poolOpen - 1
      BY <2>8 DEF Pool!ReadBreaks, Places
    <3>2. /\ Cardinality(Placed') = Cardinality(Placed) - 1
          /\ Cardinality(Waiting') = Cardinality(Waiting) + 1
      BY <1>2, <3>1, ReaderMoves
    <3>3. /\ poolOpen' = Cardinality(Placed') + Len(idle')
          /\ poolOpen' + Cardinality(Waiting') <= Cardinality(Reader)
      BY <3>1, <3>2
    <3> QED BY <1>5, <3>1, <3>3
  <2>9. CASE Pool!DropClose(w)
    <3>1. PICK a \in {"end", "retry"} : poolPc' = [poolPc EXCEPT ![w] = a]
      BY <2>9 DEF Pool!DropClose, Pool!AfterFailure
    <3>2. poolPc[w] = "drop" /\ UNCHANGED <<idle, poolOpen>> /\ a \in Places
      BY <2>9 DEF Pool!DropClose, Places
    <3>3. /\ Cardinality(Placed') = Cardinality(Placed)
          /\ Cardinality(Waiting') = Cardinality(Waiting) - 1
      BY <1>2, <3>1, <3>2, ReaderMoves
    <3>4. /\ poolOpen' = Cardinality(Placed') + Len(idle')
          /\ poolOpen' + Cardinality(Waiting') <= Cardinality(Reader)
      BY <3>1, <3>2, <3>3
    <3> QED BY <1>5, <3>1, <3>2, <3>4
  <2>10. ~Pool!Get(w)
    BY <1>2 DEF Pool!Get
  <2> QED BY <2>1, <2>2, <2>3, <2>4, <2>5, <2>6, <2>7, <2>8, <2>9, <2>10 DEF Pool!Step
<1>11. Pool!TypeOK'
  BY <1>1, <1>8, <1>10 DEF Pool!TypeOK, Places
<1>. QED BY <1>1, <1>10, <1>11

(* A connection is in the queue, with a reader, or closed by the one that  *)
(* dropped it.                                                             *)
LEMMA OpenKept ==
  ASSUME PoolInv, NEW w \in Reader, Pool!Step(w)
  PROVE  OpenInv'
<1>1. ~poolClosed /\ ~poolClosed' /\ Pool!TypeOK
  BY PlacesKept DEF PoolInv
<1>2. /\ poolPc \in [Reader -> Places] /\ mine \in [Reader -> 0..MaxConns]
      /\ idle \in Seq(1..MaxConns) /\ opened \in Nat
      /\ conns \subseteq Elements(idle) \cup {mine[x] : x \in Connected}
      /\ conns \subseteq all \cup {mine[x] : x \in Dropping}
      /\ \A x \in Reader : poolPc[x] # "get" /\ (poolPc[x] \in {"read", "drop"} => mine[x] # 0)
  BY <1>1, PoolAssumption DEF PoolInv, PlacesInv, OpenInv, Pool!TypeOK, Places, Connected
<1>3. SUFFICES /\ conns' \subseteq Elements(idle') \cup {mine'[x] : x \in Connected'}
               /\ conns' \subseteq all' \cup {mine'[x] : x \in Dropping'}
               /\ \A x \in Connected' : mine'[x] # 0
  BY <1>1 DEF OpenInv
(* What the other readers hold stays with them. *)
<1>4. ASSUME NEW a, poolPc' = [poolPc EXCEPT ![w] = a], NEW c,
             mine' = [mine EXCEPT ![w] = c]
      PROVE  /\ poolPc'[w] = a /\ mine'[w] = c
             /\ \A x \in Reader \ {w} : poolPc'[x] = poolPc[x] /\ mine'[x] = mine[x]
             /\ {mine[x] : x \in Connected} \subseteq {mine'[x] : x \in Connected'} \cup {mine[w]}
             /\ {mine[x] : x \in Dropping} \subseteq {mine'[x] : x \in Dropping'} \cup {mine[w]}
  <2>1. /\ poolPc'[w] = a /\ mine'[w] = c
        /\ \A x \in Reader \ {w} : poolPc'[x] = poolPc[x] /\ mine'[x] = mine[x]
    BY <1>2, <1>4
  <2> QED BY <2>1 DEF Connected, Dropping
<1>5. ASSUME NEW a, poolPc' = [poolPc EXCEPT ![w] = a], mine' = mine
      PROVE  mine' = [mine EXCEPT ![w] = mine[w]]
  BY <1>2, <1>5
<1> USE <1>2
<1>6. ASSUME poolPc[w] \notin {"read", "drop"}, NEW a \in {"end", "retry", "lock", "connect"},
             poolPc' = [poolPc EXCEPT ![w] = a], UNCHANGED <<mine, idle, conns, all>>
      PROVE  OpenInv'
  <2>1. Connected' = Connected /\ Dropping' = Dropping
    BY <1>6 DEF Connected, Dropping
  <2> QED BY <1>1, <1>6, <2>1 DEF PoolInv, OpenInv
<1>7. CASE Pool!NextChunk(w)
  <2>1. \E a \in {"end", "retry", "lock", "connect"} : poolPc' = [poolPc EXCEPT ![w] = a]
    BY <1>7 DEF Pool!NextChunk
  <2> QED BY <1>6, <1>7, <2>1 DEF Pool!NextChunk, OpenInv
<1>8. CASE Pool!TakeIdle(w)
  <2>1. CASE idle # <<>>
    <3>1. /\ poolPc' = [poolPc EXCEPT ![w] = "read"] /\ mine' = [mine EXCEPT ![w] = Head(idle)]
          /\ poolPc[w] = "retry" /\ idle' = Tail(idle) /\ conns' = conns /\ all' = all
      BY <1>8, <2>1 DEF Pool!TakeIdle
    <3>2. Elements(idle) = Elements(idle') \cup {Head(idle)} /\ Head(idle) # 0
      BY <2>1, <3>1, QueueElements, QueueTyped, PoolAssumption
    <3>3. /\ poolPc'[w] = "read" /\ mine'[w] = Head(idle)
          /\ \A x \in Reader \ {w} : poolPc'[x] = poolPc[x] /\ mine'[x] = mine[x]
      BY <3>1
    <3>4. Connected' = Connected \cup {w} /\ w \notin Connected
          /\ Dropping' = Dropping /\ w \notin Dropping
      BY <3>1, <3>3 DEF Connected, Dropping
    <3>5. /\ {mine'[x] : x \in Connected'} = {mine[x] : x \in Connected} \cup {Head(idle)}
          /\ {mine'[x] : x \in Dropping'} = {mine[x] : x \in Dropping}
      <4>1. Connected \subseteq Reader /\ Dropping \subseteq Reader
        BY DEF Connected, Dropping
      <4> QED BY <3>3, <3>4, <4>1
    <3>6. \A x \in Connected' : mine'[x] # 0
      BY <3>2, <3>3, <3>4 DEF Connected
    <3> QED BY <1>1, <3>1, <3>2, <3>5, <3>6 DEF OpenInv
  <2>2. CASE idle = <<>>
    BY <1>6, <1>8, <2>2 DEF Pool!TakeIdle, OpenInv
  <2> QED BY <2>1, <2>2
<1>9. CASE Pool!Reserve(w)
  BY <1>6, <1>9, PlacesKept DEF Pool!Reserve, PlacesInv, OpenInv
<1>10. CASE Pool!Connect(w)
  <2>1. /\ poolPc' = [poolPc EXCEPT ![w] = "read"] /\ mine' = [mine EXCEPT ![w] = opened']
        /\ poolPc[w] = "connect" /\ idle' = idle /\ opened' = opened + 1
        /\ conns' = conns \cup {opened'} /\ all' = all \cup {opened'}
    BY <1>10 DEF Pool!Connect
  <2>2. /\ poolPc'[w] = "read" /\ mine'[w] = opened' /\ opened' # 0
        /\ \A x \in Reader \ {w} : poolPc'[x] = poolPc[x] /\ mine'[x] = mine[x]
    BY <2>1
  <2>3. Connected' = Connected \cup {w} /\ w \notin Connected
          /\ Dropping' = Dropping /\ w \notin Dropping
    BY <2>1, <2>2 DEF Connected, Dropping
  <2>4. /\ {mine'[x] : x \in Connected'} = {mine[x] : x \in Connected} \cup {opened'}
        /\ {mine'[x] : x \in Dropping'} = {mine[x] : x \in Dropping}
    <3>1. Connected \subseteq Reader /\ Dropping \subseteq Reader
      BY DEF Connected, Dropping
    <3> QED BY <2>2, <2>3, <3>1
  <2>5. \A x \in Connected' : mine'[x] # 0
    BY <2>2, <2>3 DEF Connected
  <2> QED BY <1>1, <2>1, <2>4, <2>5 DEF OpenInv
<1>11. CASE Pool!ConnectFails(w)
  <2>1. \E a \in {"end", "retry", "lock", "connect"} : poolPc' = [poolPc EXCEPT ![w] = a]
    BY <1>11 DEF Pool!ConnectFails, Pool!AfterFailure
  <2> QED BY <1>6, <1>11, <2>1 DEF Pool!ConnectFails, OpenInv
<1>12. CASE Pool!ReadDone(w)
  <2>1. /\ poolPc' = [poolPc EXCEPT ![w] = "chunk"] /\ mine' = [mine EXCEPT ![w] = 0]
        /\ poolPc[w] = "read" /\ idle' = Append(idle, mine[w]) /\ conns' = conns /\ all' = all
    BY <1>12 DEF Pool!ReadDone
  <2>2. Elements(idle') = Elements(idle) \cup {mine[w]}
    BY <2>1, QueueElements
  <2>3. \A x \in Reader \ {w} : poolPc'[x] = poolPc[x] /\ mine'[x] = mine[x]
    BY <2>1
  <2>4. Connected' \subseteq Connected \ {w} /\ Dropping' = Dropping /\ w \notin Dropping
    BY <2>1 DEF Connected, Dropping
  <2>5. {mine'[x] : x \in Dropping'} = {mine[x] : x \in Dropping}
    BY <2>3, <2>4 DEF Dropping
  <2>6. \A x \in Connected' : mine'[x] # 0
    BY <2>3, <2>4 DEF Connected
  <2> QED BY <1>1, <1>4, <2>1, <2>2, <2>5, <2>6 DEF OpenInv
<1>13. CASE Pool!ReadBreaks(w)
  <2>1. /\ poolPc' = [poolPc EXCEPT ![w] = "drop"] /\ UNCHANGED <<mine, idle, conns>>
        /\ poolPc[w] = "read" /\ all' = all \ {mine[w]}
    BY <1>13 DEF Pool!ReadBreaks
  <2>2. Connected' = Connected /\ Dropping' = Dropping \cup {w}
    BY <2>1 DEF Connected, Dropping
  <2>3. {mine'[x] : x \in Dropping'} = {mine[x] : x \in Dropping} \cup {mine[w]}
    BY <2>1, <2>2
  <2> QED BY <1>1, <2>1, <2>2, <2>3 DEF PoolInv, OpenInv
<1>14. CASE Pool!DropClose(w)
  <2>1. /\ mine' = [mine EXCEPT ![w] = 0] /\ poolPc[w] = "drop" /\ idle' = idle
        /\ conns' = conns \ {mine[w]} /\ all' = all
    BY <1>14 DEF Pool!DropClose
  <2>2. PICK a \in {"end", "retry"} : poolPc' = [poolPc EXCEPT ![w] = a]
    BY <1>14 DEF Pool!DropClose, Pool!AfterFailure
  <2>3. \A x \in Connected' : mine'[x] # 0
    BY <2>1, <2>2 DEF Connected
  <2> QED BY <1>1, <1>4, <2>1, <2>2, <2>3 DEF OpenInv
<1>15. ~Pool!Get(w)
  BY DEF Pool!Get
<1>. QED BY <1>7, <1>8, <1>9, <1>10, <1>11, <1>12, <1>13, <1>14, <1>15 DEF Pool!Step

(* The pool is closed when all readers have ended.                         *)
LEMMA CloseKeeps ==
  ASSUME PoolInv, Pool!Close
  PROVE  PoolInv'
<1>1. /\ poolClosed' /\ \A x \in Reader : poolPc'[x] = "end" /\ poolPc[x] = "end"
      /\ conns' = conns \ all /\ all' = {} /\ poolOpen' = 0
      /\ UNCHANGED <<poolPc, mine, idle, opened, reads, poolStopped>>
  BY DEF Pool!Close
<1>2. Connected' = {} /\ Dropping = {} /\ Waiting' = {}
  BY <1>1 DEF Connected, Dropping, Waiting
<1>3. conns' = {}
  BY <1>1, <1>2 DEF PoolInv, OpenInv
<1>4. Pool!TypeOK'
  BY <1>1, <1>3, PoolAssumption DEF Pool!TypeOK, Pool!Close, PoolInv
<1>5. PlacesInv'
  BY <1>1, <1>2, FS_EmptySet, ReadersFinite DEF PlacesInv
<1>. QED BY <1>1, <1>2, <1>3, <1>4, <1>5 DEF PoolInv, OpenInv

(* The pool is empty at first. *)
LEMMA PoolStarts == Pool!Init => PoolInv
<1> SUFFICES ASSUME Pool!Init PROVE PoolInv
  OBVIOUS
<1>1. Placed = {} /\ Waiting = {} /\ Connected = {} /\ Dropping = {}
  BY DEF Pool!Init, Placed, Waiting, Connected, Dropping
<1>2. Pool!TypeOK
  <2>1. /\ poolPc \in [Reader -> {"chunk", "lock", "connect", "get", "read", "drop", "retry", "end"}]
        /\ mine \in [Reader -> 0..MaxConns]
    BY PoolAssumption DEF Pool!Init
  <2>2. idle \in Seq(1..MaxConns)
    BY DEF Pool!Init
  <2>3. /\ all \subseteq 1..MaxConns /\ conns \subseteq 1..MaxConns
        /\ poolStopped \in BOOLEAN /\ poolClosed \in BOOLEAN
    BY DEF Pool!Init
  <2>4. poolOpen \in 0..Size /\ opened \in 0..MaxConns /\ reads \in 0..MaxReads
    BY PoolAssumption DEF Pool!Init
  <2> QED BY <2>1, <2>2, <2>3, <2>4 DEF Pool!TypeOK
<1>3. idle = <<>> /\ Len(idle) = 0 /\ poolOpen = 0 /\ conns = {} /\ ~poolClosed
  BY DEF Pool!Init
<1>4. PlacesInv
  BY <1>1, <1>3, FS_EmptySet, ReadersFinite DEF PlacesInv, Pool!Init
<1>. QED BY <1>1, <1>2, <1>3, <1>4 DEF PoolInv, OpenInv

(* No reader waits for a connection, and none is left open.                *)
LEMMA PoolPromises ==
  ASSUME PoolInv
  PROVE  Pool!TypeOK /\ Pool!NobodyWaits /\ Pool!ConnectionsClosed
<1>1. Pool!TypeOK /\ Pool!NobodyWaits
  BY DEF PoolInv, PlacesInv, Pool!NobodyWaits
(* The module of the pool takes its cardinalities from a copy of FiniteSets. *)
<1>2. Pool!Cardinality(conns) = Cardinality(conns)
  BY DEF Pool!Cardinality, Pool!IsFiniteSet, Cardinality, IsFiniteSet
<1>3. CASE poolClosed
  <2>1. conns = {}
    BY <1>3 DEF PoolInv, OpenInv
  <2>2. Cardinality(conns) <= Size + 1
    BY <2>1, FS_EmptySet, PoolAssumption
  <2> QED BY <1>1, <1>2, <2>1, <2>2 DEF Pool!ConnectionsClosed
<1>4. CASE ~poolClosed
  <2>1. /\ Connected \in SUBSET Reader /\ Placed \in SUBSET Reader /\ Waiting \in SUBSET Reader
        /\ Connected \subseteq Placed \cup Waiting /\ Placed \cap Waiting = {}
    BY DEF Connected, Placed, Waiting
  <2>2. Cardinality(Connected) <= Cardinality(Placed) + Cardinality(Waiting)
    <3>1. Cardinality(Placed \cup Waiting) = Cardinality(Placed) + Cardinality(Waiting)
      <4>1. /\ IsFiniteSet(Placed) /\ Cardinality(Placed) \in Nat
            /\ IsFiniteSet(Waiting) /\ Cardinality(Waiting) \in Nat
        BY <2>1, ReadersFinite
      <4>2. Cardinality(Placed \cup Waiting)
              = Cardinality(Placed) + Cardinality(Waiting) - Cardinality(Placed \cap Waiting)
        BY <4>1, FS_Union
      <4>3. Cardinality(Placed \cap Waiting) = 0
        BY <2>1, FS_EmptySet
      <4> QED BY <4>1, <4>2, <4>3
    <3>2. IsFiniteSet(Placed \cup Waiting)
      BY <2>1, ReadersFinite, FS_Union
    <3>3. Cardinality(Connected) <= Cardinality(Placed \cup Waiting)
      BY <2>1, <3>2, FS_Subset
    <3> QED BY <3>1, <3>3
  <2> DEFINE held == {mine[x] : x \in Connected}
             queued == Elements(idle)
  <2>3. /\ IsFiniteSet(held) /\ Cardinality(held) \in Nat
        /\ Cardinality(held) <= Cardinality(Connected)
    BY <2>1, HeldBy
  <2>4. /\ IsFiniteSet(queued) /\ Cardinality(queued) \in Nat
        /\ Cardinality(queued) <= Len(idle)
    BY QueueElements DEF PoolInv, Pool!TypeOK
  <2>5. Cardinality(conns) <= Cardinality(queued) + Cardinality(held) /\ Cardinality(conns) \in Nat
    <3> HIDE DEF held, queued
    <3>1. /\ IsFiniteSet(queued \cup held)
          /\ Cardinality(queued \cup held)
               = Cardinality(queued) + Cardinality(held) - Cardinality(queued \cap held)
      BY <2>3, <2>4, FS_Union
    <3>2. Cardinality(queued \cap held) \in Nat
      BY <2>3, FS_Subset, FS_CardinalityType
    <3>3. conns \in SUBSET (queued \cup held)
      BY <1>4 DEF PoolInv, OpenInv, held, queued
    <3>4. Cardinality(conns) <= Cardinality(queued \cup held) /\ Cardinality(conns) \in Nat
      BY <3>1, <3>3, FS_Subset, FS_CardinalityType
    <3> QED BY <2>3, <2>4, <3>1, <3>2, <3>4
  <2>6. /\ poolOpen \in Nat /\ poolOpen = Cardinality(Placed) + Len(idle) /\ Len(idle) \in Nat
        /\ poolOpen + Cardinality(Waiting) <= Cardinality(Reader)
    BY <1>4, QueueTyped, PoolAssumption DEF PoolInv, PlacesInv, Pool!TypeOK
  <2>7. /\ Cardinality(Connected) \in Nat /\ Cardinality(Placed) \in Nat
        /\ Cardinality(Waiting) \in Nat /\ Cardinality(Reader) \in Nat
        /\ Cardinality(Reader) <= Size /\ Size \in Nat
    BY <2>1, ReadersFinite, PoolAssumption
  <2>8. Cardinality(conns) <= Len(idle) + Cardinality(Connected)
    BY <2>3, <2>4, <2>5, <2>6, <2>7
  <2>9. Cardinality(conns) <= Len(idle) + Cardinality(Placed) + Cardinality(Waiting)
    BY <2>2, <2>5, <2>6, <2>7, <2>8
  <2>10. Len(idle) + Cardinality(Placed) + Cardinality(Waiting) <= Cardinality(Reader)
    BY <2>6, <2>7
  <2>11. Cardinality(conns) <= Cardinality(Reader)
    BY <2>5, <2>6, <2>7, <2>9, <2>10
  <2>12. Cardinality(conns) <= Size + 1
    BY <2>5, <2>7, <2>11
  <2>13. poolClosed => conns = {}
    BY <1>4
  <2> QED BY <1>1, <1>2, <2>12, <2>13 DEF Pool!ConnectionsClosed
<1>. QED BY <1>3, <1>4

-----------------------------------------------------------------------------
(* Side by side, each of the two is a behaviour of its own specification.  *)
LEMMA SideBySide == CopiesSpec => Spec /\ Pool!Spec
<1>1. CopiesInit => Init /\ Pool!Init
  BY DEF CopiesInit
<1>2. [CopiesNext]_<<means, vars, poolVars>> => [Next]_vars /\ [Pool!Next]_(Pool!vars)
  BY DEF CopiesNext, Ranges, Pools, poolVars, Pool!vars
<1>. QED BY <1>1, <1>2, PTL DEF CopiesSpec, Spec, Pool!Spec

(* A SAS that expires while it is used costs no attempt of the disk,       *)
(* however many threads share it; no reader waits for a connection that    *)
(* nobody will give back, and qemu-nbd has none left when the copy is      *)
(* over.                                                                   *)
THEOREM OrderKept == CopiesSpec => []ThreadsKeepOrder
<1>1. Pool!Init => PoolInv
  BY PoolStarts
<1>2. PoolInv /\ [Pool!Next]_(Pool!vars) => PoolInv'
  <2> SUFFICES ASSUME PoolInv, [Pool!Next]_(Pool!vars) PROVE PoolInv'
    OBVIOUS
  <2>1. CASE Pool!Next
    BY <2>1, PlacesKept, OpenKept, CloseKeeps DEF Pool!Next, PoolInv
  <2>2. CASE UNCHANGED Pool!vars
    BY <2>2 DEF Pool!vars, PoolInv, Pool!TypeOK, PlacesInv, OpenInv, Placed, Waiting, Connected,
                Dropping
  <2> QED BY <2>1, <2>2
<1>3. Pool!Spec => []PoolInv
  BY <1>1, <1>2, PTL DEF Pool!Spec
<1>4. TypeOK /\ ExpirySurvived /\ PoolInv => ThreadsKeepOrder
  BY PoolPromises DEF ThreadsKeepOrder
<1>. QED BY <1>3, <1>4, SideBySide, RangeTypeCorrect, ExpiryInvariant, PTL
=============================================================================
