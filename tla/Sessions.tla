------------------------------ MODULE Sessions ------------------------------
(***************************************************************************)
(* Web UI sessions and the source connections they hold (sessions.py): the *)
(* SessionStore maps cookies to sessions; a UserSession carries the pins   *)
(* of the jobs that use its connection.  Logout, expiry and a change of    *)
(* the UI password take a session out of the store under the store's lock  *)
(* and kill it afterwards under its own lock; the backends are closed      *)
(* after that lock is released.  Requests and pool threads pin and unpin   *)
(* at any point between these steps.                                       *)
(***************************************************************************)
EXTENDS FiniteSets

CONSTANTS Session,  \* UserSession objects
          Job,      \* jobs that pin sessions
          Request   \* HTTP requests in flight that hold a session

VARIABLES
  place,    \* "new", "listed" in SessionStore._sessions, "popped" by a logout that has
            \* yet to kill it, or "gone" from the store
  dead,     \* UserSession._dead
  pins,     \* UserSession._pins
  closing,  \* the decision to close is taken, _close_backends is still to run
  closed,   \* the source connection is closed
  held,     \* the sessions require_session handed to requests still in flight
  stopping, \* the service shuts down (close_all has run)
  early     \* history: the pins a session got while it was not dead

vars == <<place, dead, pins, closing, closed, held, stopping, early>>

TypeOK ==
  /\ place \in [Session -> {"new", "listed", "popped", "gone"}]
  /\ dead \subseteq Session
  /\ pins \in [Session -> SUBSET Job]
  /\ closing \subseteq dead
  /\ closed \subseteq Session
  /\ held \in [Request -> SUBSET Session]
  /\ stopping \in BOOLEAN
  /\ early \in [Session -> SUBSET Job]

Init ==
  /\ place = [s \in Session |-> "new"]
  /\ dead = {}
  /\ pins = [s \in Session |-> {}]
  /\ closing = {}
  /\ closed = {}
  /\ held = [r \in Request |-> {}]
  /\ stopping = FALSE
  /\ early = [s \in Session |-> {}]

-----------------------------------------------------------------------------
(* SessionStore.create, after a login *)
Create(s) ==
  /\ place[s] = "new"
  /\ ~stopping
  /\ place' = [place EXCEPT ![s] = "listed"]
  /\ UNCHANGED <<dead, pins, closing, closed, held, stopping, early>>

(* SessionStore.get for a request: listed and not dead. *)
Get(r, s) ==
  /\ held[r] = {}
  /\ place[s] = "listed"
  /\ s \notin dead
  /\ held' = [held EXCEPT ![r] = {s}]
  /\ UNCHANGED <<place, dead, pins, closing, closed, stopping, early>>

(* The request ends without having started a job. *)
Leave(r) ==
  /\ held[r] # {}
  /\ held' = [held EXCEPT ![r] = {}]
  /\ UNCHANGED <<place, dead, pins, closing, closed, stopping, early>>

(* logout takes one session, logout_others all but one, sweep the expired  *)
(* ones: popped together under the store's lock, killed one by one later.  *)
Pop(S) ==
  /\ S # {}
  /\ S \subseteq {s \in Session : place[s] = "listed"}
  /\ place' = [s \in Session |-> IF s \in S THEN "popped" ELSE place[s]]
  /\ UNCHANGED <<dead, pins, closing, closed, held, stopping, early>>

(* Slip: close without looking at the pins. *)
KillSlip(s) ==
  /\ place[s] = "popped"
  /\ place' = [place EXCEPT ![s] = "gone"]
  /\ dead' = dead \cup {s}
  /\ closing' = closing \cup {s}
  /\ UNCHANGED <<pins, closed, held, stopping, early>>

(* UserSession.kill: dead, and to be closed here unless a job is pinned. *)
Kill(s) ==
  /\ place[s] = "popped"
  /\ place' = [place EXCEPT ![s] = "gone"]
  /\ dead' = dead \cup {s}
  /\ closing' = IF pins[s] = {} THEN closing \cup {s} ELSE closing
  /\ UNCHANGED <<pins, closed, held, stopping, early>>

(* _close_backends, outside the session's lock *)
CloseBackends(s) ==
  /\ s \in closing
  /\ closing' = closing \ {s}
  /\ closed' = closed \cup {s}
  /\ UNCHANGED <<place, dead, pins, held, stopping, early>>

(* MigrationRunner.submit or cleanup on behalf of a request: the session   *)
(* the request got earlier is pinned, dead or not.                         *)
Pin(r, s, j) ==
  /\ s \in held[r]
  /\ held' = [held EXCEPT ![r] = {}]
  /\ pins' = [pins EXCEPT ![s] = @ \cup {j}]
  /\ early' = IF s \in dead THEN early ELSE [early EXCEPT ![s] = @ \cup {j}]
  /\ UNCHANGED <<place, dead, closing, closed, stopping>>

(* Slip: the last pin of a dead session is dropped and nobody closes it. *)
UnpinSlip(s, j) ==
  /\ j \in pins[s]
  /\ pins' = [pins EXCEPT ![s] = @ \ {j}]
  /\ early' = [early EXCEPT ![s] = @ \ {j}]
  /\ UNCHANGED <<place, dead, closing, closed, held, stopping>>

(* Slip: the last pin closes the connection, although the user still works. *)
UnpinLiveSlip(s, j) ==
  /\ j \in pins[s]
  /\ pins' = [pins EXCEPT ![s] = @ \ {j}]
  /\ early' = [early EXCEPT ![s] = @ \ {j}]
  /\ closing' = IF pins'[s] = {} THEN closing \cup {s} ELSE closing
  /\ UNCHANGED <<place, dead, closed, held, stopping>>

(* MigrationRunner._finish *)
Unpin(s, j) ==
  /\ j \in pins[s]
  /\ pins' = [pins EXCEPT ![s] = @ \ {j}]
  /\ early' = [early EXCEPT ![s] = @ \ {j}]
  /\ closing' = IF s \in dead /\ pins'[s] = {} THEN closing \cup {s} ELSE closing
  /\ UNCHANGED <<place, dead, closed, held, stopping>>

(* SessionStore.close_all at shutdown: whatever is listed is closed, pinned *)
(* or not.                                                                 *)
CloseAll ==
  /\ ~stopping
  /\ stopping' = TRUE
  /\ closed' = closed \cup {s \in Session : place[s] = "listed"}
  /\ place' = [s \in Session |-> IF place[s] = "listed" THEN "gone" ELSE place[s]]
  /\ UNCHANGED <<dead, pins, closing, held, early>>

Next ==
  \/ \E s \in Session :
       \/ Create(s) \/ Kill(s) \/ CloseBackends(s)
       \/ \E r \in Request : Get(r, s) \/ \E j \in Job : Pin(r, s, j)
       \/ \E j \in Job : Unpin(s, j)
  \/ \E r \in Request : Leave(r)
  \/ \E S \in SUBSET Session : Pop(S)
  \/ CloseAll

Spec == Init /\ [][Next]_vars

(* A logout goes on from the pop to the kill, and a thread that decided to *)
(* close does; jobs need not end.                                          *)
FairSpec == Spec /\ \A s \in Session : WF_vars(Kill(s)) /\ WF_vars(CloseBackends(s))

-----------------------------------------------------------------------------
(* A connection that a job pinned while its session was alive is neither   *)
(* closed nor about to be, whatever logouts, expiries and other jobs do,   *)
(* until that job has finished or the service stops: "a running export     *)
(* never loses its lease".                                                 *)
EarlyPinProtects ==
  \A s \in Session : early[s] # {} => s \notin closing /\ (stopping \/ s \notin closed)

(* The connection of a session nobody can use any more does not stay open  *)
(* for ever: of the kill and the last unpin, at least one closes it,       *)
(* whichever comes first.                                                  *)
DeadConnectionCloses ==
  \A s \in Session :
    (place[s] = "popped" \/ s \in dead) /\ pins[s] = {} ~> (s \in closed \/ pins[s] # {})

(* "the source connection is only closed after the job has finished":      *)
(* no job works through a closed connection.                               *)
ClosedOnlyAfterJobs == \A s \in Session : s \in closed => pins[s] = {} \/ stopping
=============================================================================
