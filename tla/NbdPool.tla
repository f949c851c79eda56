-------------------------------- MODULE NbdPool --------------------------------
(***************************************************************************)
(* The readers of a Proxmox disk (NbdPool of proxmox/nbd.py): the workers  *)
(* of run_workers share NBD connections to one qemu-nbd on the node.  A    *)
(* worker takes an idle connection, or opens one while there are fewer     *)
(* than the size of the pool, or waits, without a time limit, for one to   *)
(* be given back; a connection that fails is dropped.                      *)
(*                                                                         *)
(* The workers interleave at the lock of the pool and at its queue.        *)
(***************************************************************************)
EXTENDS Naturals, Sequences, FiniteSets

CONSTANTS Worker,    \* download threads: proxmox_range_workers
          Size,      \* connections of the pool: proxmox_range_workers, too
          MaxConns,  \* bound on the connections that are opened
          MaxReads   \* bound on the chunks that are read

VARIABLES
  pc,      \* per worker: "chunk", "lock", "connect", "get", "read", "drop", "retry" or "end"
  mine,    \* per worker: the connection it holds, 0 if none
  idle,    \* NbdPool._idle
  open,    \* NbdPool._open
  all,     \* NbdPool._all
  conns,   \* the connections that qemu-nbd has
  opened,  \* how many there have been
  reads, stopped, closed

vars == <<pc, mine, idle, open, all, conns, opened, reads, stopped, closed>>

TypeOK ==
  /\ pc \in [Worker -> {"chunk", "lock", "connect", "get", "read", "drop", "retry", "end"}]
  /\ mine \in [Worker -> 0..MaxConns] /\ idle \in Seq(1..MaxConns)
  /\ open \in 0..Size /\ all \subseteq 1..MaxConns /\ conns \subseteq 1..MaxConns
  /\ opened \in 0..MaxConns /\ reads \in 0..MaxReads /\ stopped \in BOOLEAN /\ closed \in BOOLEAN

Init ==
  /\ pc = [w \in Worker |-> "chunk"] /\ mine = [w \in Worker |-> 0] /\ idle = <<>> /\ open = 0
  /\ all = {} /\ conns = {} /\ opened = 0 /\ reads = 0 /\ stopped = FALSE /\ closed = FALSE

-----------------------------------------------------------------------------
(* The next chunk, or the next attempt of one. *)
NextChunk(w) ==
  /\ pc[w] = "chunk"
  /\ IF stopped \/ reads = MaxReads THEN pc' = [pc EXCEPT ![w] = "end"] /\ UNCHANGED reads
     ELSE pc' = [pc EXCEPT ![w] = "retry"] /\ reads' = reads + 1
  /\ UNCHANGED <<mine, idle, open, all, conns, opened, stopped, closed>>

(* _take, before the lock. *)
TakeIdle(w) ==
  /\ pc[w] = "retry"
  /\ IF idle # <<>>
     THEN mine' = [mine EXCEPT ![w] = Head(idle)] /\ idle' = Tail(idle) /\ pc' = [pc EXCEPT ![w] = "read"]
     ELSE pc' = [pc EXCEPT ![w] = "lock"] /\ UNCHANGED <<mine, idle>>
  /\ UNCHANGED <<open, all, conns, opened, reads, stopped, closed>>

(* _take, under the lock: there is room for one more, or not. *)
Reserve(w) ==
  /\ pc[w] = "lock"
  /\ IF open < Size
     THEN open' = open + 1 /\ pc' = [pc EXCEPT ![w] = "connect"]
     ELSE pc' = [pc EXCEPT ![w] = "get"] /\ UNCHANGED open
  /\ UNCHANGED <<mine, idle, all, conns, opened, reads, stopped, closed>>

(* self._idle.get() *)
Get(w) ==
  /\ pc[w] = "get" /\ idle # <<>>
  /\ mine' = [mine EXCEPT ![w] = Head(idle)] /\ idle' = Tail(idle) /\ pc' = [pc EXCEPT ![w] = "read"]
  /\ UNCHANGED <<open, all, conns, opened, reads, stopped, closed>>

(* The handshake is done. *)
Connect(w) ==
  /\ pc[w] = "connect" /\ opened < MaxConns /\ opened' = opened + 1
  /\ conns' = conns \union {opened'} /\ all' = all \union {opened'}
  /\ mine' = [mine EXCEPT ![w] = opened'] /\ pc' = [pc EXCEPT ![w] = "read"]
  /\ UNCHANGED <<idle, open, reads, stopped, closed>>

(* A read that failed is repeated while the copy goes on; its last failure stops the others. *)
AfterFailure(w) ==
  \/ ~stopped /\ pc' = [pc EXCEPT ![w] = "retry"] /\ UNCHANGED stopped
  \/ pc' = [pc EXCEPT ![w] = "end"] /\ stopped' = TRUE

(* Refused, or the greeting makes no sense: the stream is closed at once. *)
ConnectFails(w) ==
  /\ pc[w] = "connect" /\ open' = open - 1 /\ AfterFailure(w)
  /\ UNCHANGED <<mine, idle, all, conns, opened, reads, closed>>

(* Slip: the connection is kept by the worker that used it. *)
ReadDoneSlip(w) ==
  /\ pc[w] = "read" /\ pc' = [pc EXCEPT ![w] = "chunk"]
  /\ mine' = [mine EXCEPT ![w] = 0]
  /\ UNCHANGED <<idle, open, all, conns, opened, reads, stopped, closed>>
ReadDone(w) ==
  /\ pc[w] = "read" /\ idle' = Append(idle, mine[w]) /\ mine' = [mine EXCEPT ![w] = 0]
  /\ pc' = [pc EXCEPT ![w] = "chunk"]
  /\ UNCHANGED <<open, all, conns, opened, reads, stopped, closed>>

(* An error, a wrong handle, a stream that ended: fetch drops the connection. *)
ReadBreaks(w) ==
  /\ pc[w] = "read" /\ pc' = [pc EXCEPT ![w] = "drop"]
  /\ open' = open - 1 /\ all' = all \ {mine[w]}
  /\ UNCHANGED <<mine, idle, conns, opened, reads, stopped, closed>>

DropClose(w) ==
  /\ pc[w] = "drop" /\ conns' = conns \ {mine[w]} /\ mine' = [mine EXCEPT ![w] = 0] /\ AfterFailure(w)
  /\ UNCHANGED <<idle, open, all, opened, reads, closed>>

(* ProxmoxDiskExport.finish or close, when the workers have been joined. *)
Close ==
  /\ \A w \in Worker : pc[w] = "end"
  /\ ~closed /\ closed' = TRUE /\ conns' = conns \ all /\ all' = {} /\ open' = 0
  /\ UNCHANGED <<pc, mine, idle, opened, reads, stopped>>

Step(w) ==
  \/ NextChunk(w) \/ TakeIdle(w) \/ Reserve(w) \/ Get(w) \/ Connect(w) \/ ConnectFails(w)
  \/ ReadDone(w) \/ ReadBreaks(w) \/ DropClose(w)

Next == Close \/ \E w \in Worker : Step(w)

Spec == Init /\ [][Next]_vars

-----------------------------------------------------------------------------
(* With as many connections as workers no worker ever waits in get(), where *)
(* neither a cancel nor the failure of another worker would reach it.       *)
NobodyWaits == Cardinality(Worker) <= Size => \A w \in Worker : pc[w] # "get"

(* qemu-nbd, started for one more client than there are workers, is never   *)
(* asked for more, and after the copy no connection is left.                *)
ConnectionsClosed == Cardinality(conns) <= Size + 1 /\ (closed => conns = {})
=============================================================================
