------------------------------ MODULE MCCopies ------------------------------
(* The threads that share a copy, by one of two means at a time: the       *)
(* workers that fetch ranges of an Azure disk (RangeCopy), or the readers  *)
(* that share connections to a qemu-nbd (NbdPool).  The variables of the   *)
(* other stay as they were.                                                *)
EXTENDS RangeCopy

CONSTANTS Reader, Size, MaxConns, MaxReads

\* The pool has a place for each reader: one setting gives both numbers.
ASSUME PoolAssumption ==
  /\ IsFiniteSet(Reader) /\ Cardinality(Reader) <= Size
  /\ Size \in Nat /\ MaxConns \in Nat /\ MaxReads \in Nat

VARIABLES
  means,
  poolPc, mine, idle, poolOpen, all, conns, opened, reads, poolStopped, poolClosed

poolVars == <<poolPc, mine, idle, poolOpen, all, conns, opened, reads, poolStopped, poolClosed>>

Pool == INSTANCE NbdPool WITH
  Worker <- Reader, pc <- poolPc, open <- poolOpen, stopped <- poolStopped, closed <- poolClosed

Ranges(A) == means = "ranges" /\ A /\ UNCHANGED <<means, poolVars>>
Pools(A) == means = "pool" /\ A /\ UNCHANGED <<means, vars>>

CopiesInit == means \in {"ranges", "pool"} /\ Init /\ Pool!Init
CopiesNext == Ranges(Next) \/ Pools(Pool!Next)
CopiesSpec ==
  /\ CopiesInit /\ [][CopiesNext]_<<means, vars, poolVars>>
  /\ WF_vars(Ranges(MainStep)) /\ \A w \in Worker : WF_vars(Ranges(WorkerStep(w)))

-----------------------------------------------------------------------------
(* A SAS that expires during the copy costs no attempt; no thread waits for *)
(* a connection that nobody will give back, and none is left open when the  *)
(* copy is over.                                                            *)
ThreadsKeepOrder ==
  /\ TypeOK /\ ExpirySurvived
  /\ Pool!TypeOK /\ Pool!NobodyWaits /\ Pool!ConnectionsClosed

(* A copy comes to its end, whatever fails, expires or is cancelled.        *)
CopiesEnd == means = "ranges" => CopyEnds
=============================================================================
