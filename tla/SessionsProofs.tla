--------------------------- MODULE SessionsProofs ---------------------------
(***************************************************************************)
(* For any number of sessions, jobs and requests: the types, and that a    *)
(* connection pinned in time outlives every logout.  The inductive         *)
(* invariant adds what the two conditional closes rely on: only a dead     *)
(* session is ever closed before shutdown, and an early pin is a pin.      *)
(***************************************************************************)
EXTENDS Sessions, TLAPS

(* What EarlyPinProtects needs to be inductive: kill and unpin decide on   *)
(* _pins, so an early pin must still be among them, and a pin can only be  *)
(* early while nothing has been closed.                                    *)
PinInv ==
  /\ \A s \in Session : early[s] \subseteq pins[s]
  /\ \A s \in Session : s \in closed => s \in dead \/ stopping
  /\ EarlyPinProtects

(* Every state of the session store is well formed. *)
THEOREM SessionsTypeCorrect == Spec => []TypeOK
<1>1. Init => TypeOK
  BY DEF Init, TypeOK
<1>2. TypeOK /\ [Next]_vars => TypeOK'
  <2> SUFFICES ASSUME TypeOK, [Next]_vars PROVE TypeOK'
    OBVIOUS
  <2> USE DEF TypeOK
  <2>1. ASSUME NEW s \in Session, Create(s) PROVE TypeOK'
    BY <2>1 DEF Create
  <2>2. ASSUME NEW s \in Session, Kill(s) PROVE TypeOK'
    BY <2>2 DEF Kill
  <2>3. ASSUME NEW s \in Session, CloseBackends(s) PROVE TypeOK'
    BY <2>3 DEF CloseBackends
  <2>4. ASSUME NEW s \in Session, NEW r \in Request, Get(r, s) PROVE TypeOK'
    BY <2>4 DEF Get
  <2>5. ASSUME NEW s \in Session, NEW r \in Request, NEW j \in Job, Pin(r, s, j)
        PROVE  TypeOK'
    BY <2>5 DEF Pin
  <2>6. ASSUME NEW s \in Session, NEW j \in Job, Unpin(s, j) PROVE TypeOK'
    BY <2>6 DEF Unpin
  <2>7. ASSUME NEW r \in Request, Leave(r) PROVE TypeOK'
    BY <2>7 DEF Leave
  <2>8. ASSUME NEW S \in SUBSET Session, Pop(S) PROVE TypeOK'
    BY <2>8 DEF Pop
  <2>9. CASE CloseAll
    BY <2>9 DEF CloseAll
  <2>10. CASE UNCHANGED vars
    BY <2>10 DEF vars
  <2> QED
    BY <2>1, <2>2, <2>3, <2>4, <2>5, <2>6, <2>7, <2>8, <2>9, <2>10 DEF Next
<1> QED
  BY <1>1, <1>2, PTL DEF Spec

(* A connection that a job pinned while its session was alive stays open   *)
(* until the job lets go of it or the service stops.                       *)
THEOREM PinnedConnectionSurvives == Spec => []EarlyPinProtects
<1>1. Init => PinInv
  BY DEF Init, PinInv, EarlyPinProtects
<1>2. TypeOK /\ PinInv /\ [Next]_vars => PinInv'
  <2> SUFFICES ASSUME TypeOK, PinInv, [Next]_vars PROVE PinInv'
    OBVIOUS
  <2> USE DEF TypeOK, PinInv, EarlyPinProtects
  <2>1. ASSUME NEW s \in Session, Create(s) PROVE PinInv'
    BY <2>1 DEF Create
  <2>2. ASSUME NEW s \in Session, Kill(s) PROVE PinInv'
    BY <2>2 DEF Kill
  <2>3. ASSUME NEW s \in Session, CloseBackends(s) PROVE PinInv'
    BY <2>3 DEF CloseBackends
  <2>4. ASSUME NEW s \in Session, NEW r \in Request, Get(r, s) PROVE PinInv'
    BY <2>4 DEF Get
  <2>5. ASSUME NEW s \in Session, NEW r \in Request, NEW j \in Job, Pin(r, s, j)
        PROVE  PinInv'
    BY <2>5 DEF Pin
  <2>6. ASSUME NEW s \in Session, NEW j \in Job, Unpin(s, j) PROVE PinInv'
    BY <2>6 DEF Unpin
  <2>7. ASSUME NEW r \in Request, Leave(r) PROVE PinInv'
    BY <2>7 DEF Leave
  <2>8. ASSUME NEW S \in SUBSET Session, Pop(S) PROVE PinInv'
    BY <2>8 DEF Pop
  <2>9. CASE CloseAll
    BY <2>9 DEF CloseAll
  <2>10. CASE UNCHANGED vars
    BY <2>10 DEF vars
  <2> QED
    BY <2>1, <2>2, <2>3, <2>4, <2>5, <2>6, <2>7, <2>8, <2>9, <2>10 DEF Next
<1>3. PinInv => EarlyPinProtects
  BY DEF PinInv
<1> QED
  BY <1>1, <1>2, <1>3, SessionsTypeCorrect, PTL DEF Spec
=============================================================================
