------------------------------- MODULE Console -------------------------------
(***************************************************************************)
(* Remote consoles (console/manager.py, connection.py, tunnel.py and the   *)
(* handlers in api/): OCI allows one console connection per instance; the  *)
(* manager keeps a session per key, the job or the instance it was opened  *)
(* for.  One instance here, so both keys serve it, as for a migrated       *)
(* instance.  Handlers, the creating task and the reaper are coroutines:   *)
(* they interleave where they await a pool thread, and the thread of a     *)
(* cancelled task goes on.                                                 *)
(***************************************************************************)
EXTENDS Naturals, FiniteSets

CONSTANTS Request,      \* POST requests that open a console
          Viewer,       \* WebSocket bridges
          MaxSessions,  \* bound on the ConsoleSession objects made
          MaxFaults     \* bound on the failed calls, foreign connections and restarts

ASSUME ConsoleAssumption == IsFiniteSet(Viewer) /\ MaxSessions \in Nat \ {0} /\ MaxFaults \in Nat

VARIABLES
  sessions,  \* ConsoleManager.sessions: key -> session; 0 is none
  state,     \* ConsoleSession.state
  known,     \* sessions whose .connection is set; it has the session's number
  viewers,   \* ConsoleSession.viewers
  made,      \* sessions made so far
  create,    \* where the creating thread of a session is
  conns,     \* the connections OCI has for the instance
  req,       \* the open requests: place, key, replace, and what find_existing returned
  deleting,  \* sessions popped by close whose connection is still to be deleted
  sweep,     \* the rest of reap_idle's copy of the items, while it awaits a close
  reaped,    \* history: the sessions reap_idle closed
  bridge,    \* the bridges: place, key, session they connected through, SSH hops open
  faults

vars == <<sessions, state, known, viewers, made, create, conns, req, deleting, sweep, reaped, bridge, faults>>
memory == <<sessions, state, known, viewers, made>>
sweeper == <<deleting, sweep, reaped>>

Key == {"job", "instance"}
Id == 1..MaxSessions
Foreign == MaxSessions + 1   \* a connection made elsewhere
ReqState == [at : {"idle", "queued", "clear"}, key : Key, replace : BOOLEAN,
             found : SUBSET (Id \cup {Foreign})]
BridgeState == [at : {"off", "hop1", "hop2", "channel", "on"}, key : Key, own : 0..MaxSessions, hops : 0..2]
NoReq == [at |-> "idle", key |-> "job", replace |-> FALSE, found |-> {}]
NoBridge == [at |-> "off", key |-> "job", own |-> 0, hops |-> 0]

TypeOK ==
  /\ sessions \in [Key -> 0..made]
  /\ state \in [Id -> {"NONE", "CREATING", "ACTIVE", "FAILED", "CLOSED"}]
  /\ known \subseteq Id /\ viewers \in [Id -> 0..Cardinality(Viewer)]
  /\ made \in 0..MaxSessions /\ create \in [Id -> {"none", "call", "wait", "done"}]
  /\ conns \subseteq Id \cup {Foreign}
  /\ req \in [Request -> ReqState]
  /\ deleting \subseteq known /\ sweep \subseteq Key \X Id /\ reaped \subseteq Id
  /\ bridge \in [Viewer -> BridgeState]
  /\ faults \in 0..MaxFaults

Init ==
  /\ sessions = [k \in Key |-> 0] /\ state = [s \in Id |-> "NONE"]
  /\ known = {} /\ viewers = [s \in Id |-> 0] /\ made = 0
  /\ create = [s \in Id |-> "none"] /\ conns = {}
  /\ req = [r \in Request |-> NoReq] /\ deleting = {} /\ sweep = {} /\ reaped = {}
  /\ bridge = [v \in Viewer |-> NoBridge] /\ faults = 0

-----------------------------------------------------------------------------
Fault == faults < MaxFaults /\ faults' = faults + 1
Live(k) == sessions[k] # 0 /\ state[sessions[k]] \in {"CREATING", "ACTIVE"}
LockFree == \A r \in Request : req[r].at # "clear"
Ask(r, place) == req' = [req EXCEPT ![r].at = place]

(* open (a job's console): always the job's key *)
OpenJob(r, replace) ==
  /\ req[r].at = "idle"
  /\ req' = [req EXCEPT ![r] = [at |-> "queued", key |-> "job", replace |-> replace, found |-> {}]]
  /\ UNCHANGED <<memory, create, conns, sweeper, bridge, faults>>

(* open_instance: a live session of the instance is used, under any key. *)
OpenInstance(r, replace) ==
  /\ req[r].at = "idle"
  /\ ~\E k \in Key : Live(k)
  /\ req' = [req EXCEPT ![r] = [at |-> "queued", key |-> "instance", replace |-> replace, found |-> {}]]
  /\ UNCHANGED <<memory, create, conns, sweeper, bridge, faults>>

(* Slip: what stands in the way goes, whoever made it. *)
FindExistingSlip(r) == req' = [req EXCEPT ![r].found = conns, ![r].at = "clear"]

(* ensure_no_other lists the connections.  One that was made elsewhere is  *)
(* a ConsoleConflict unless it is to be replaced.                          *)
FindExisting(r) ==
  req' = [req EXCEPT ![r].found = conns,
                     ![r].at = IF Foreign \in conns /\ ~req[r].replace THEN "idle" ELSE "clear"]

(* Slip: the requests do not wait for each other. *)
OpenTargetSlip(r) ==
  /\ req[r].at = "queued"
  /\ IF Live(req[r].key) THEN Ask(r, "idle") ELSE FindExisting(r)
  /\ UNCHANGED <<memory, create, conns, sweeper, bridge, faults>>

(* open_target takes the lock; a live session of the key is answered with, *)
(* else room is made.                                                      *)
OpenTarget(r) ==
  /\ req[r].at = "queued" /\ LockFree
  /\ IF Live(req[r].key) THEN Ask(r, "idle") ELSE FindExisting(r)
  /\ UNCHANGED <<memory, create, conns, sweeper, bridge, faults>>

(* Every connection that was listed is deleted; one that is gone is fine,  *)
(* any other error ends the request.  The session is registered, its task  *)
(* is created and the lock is released.                                    *)
ClearAndRegister(r) ==
  /\ req[r].at = "clear"
  /\ Ask(r, "idle")
  /\ \/ Fault /\ UNCHANGED <<memory, create, conns>>
     \/ /\ made < MaxSessions
        /\ made' = made + 1
        /\ conns' = conns \ req[r].found
        /\ sessions' = [sessions EXCEPT ![req[r].key] = made']
        /\ state' = [state EXCEPT ![made'] = "CREATING"]
        /\ create' = [create EXCEPT ![made'] = "call"]
        /\ UNCHANGED <<known, viewers, faults>>
  /\ UNCHANGED <<sweeper, bridge>>

(* _create: CreateInstanceConsoleConnection, refused while there is one.   *)
(* The task of a session that was closed is cancelled, its thread is not.  *)
CreateCall(s) ==
  /\ create[s] = "call"
  /\ \/ /\ conns = {}
        /\ conns' = {s} /\ create' = [create EXCEPT ![s] = "wait"] /\ UNCHANGED <<state, faults>>
     \/ /\ IF conns # {} THEN UNCHANGED faults ELSE Fault
        /\ create' = [create EXCEPT ![s] = "done"]
        /\ state' = [state EXCEPT ![s] = IF @ = "CREATING" THEN "FAILED" ELSE @]
        /\ UNCHANGED conns
  /\ UNCHANGED <<sessions, known, viewers, made, req, sweeper, bridge>>

(* The wait for ACTIVE ends, or times out; for a cancelled task, in vain. *)
CreateDone(s) ==
  /\ create[s] = "wait"
  /\ create' = [create EXCEPT ![s] = "done"]
  /\ IF state[s] # "CREATING" THEN UNCHANGED <<state, known, faults>>
     ELSE \/ s \in conns /\ state' = [state EXCEPT ![s] = "ACTIVE"] /\ known' = known \cup {s} /\ UNCHANGED faults
          \/ s \notin conns /\ state' = [state EXCEPT ![s] = "FAILED"] /\ UNCHANGED <<known, faults>>
          \/ Fault /\ state' = [state EXCEPT ![s] = "FAILED"] /\ UNCHANGED known
  /\ UNCHANGED <<sessions, viewers, made, conns, req, sweeper, bridge>>

(* close: popped before anything is awaited *)
Pop(k) ==
  /\ sessions' = [sessions EXCEPT ![k] = 0]
  /\ state' = [state EXCEPT ![sessions[k]] = "CLOSED"]
  /\ deleting' = deleting \cup ({sessions[k]} \cap known)
  /\ UNCHANGED <<known, viewers, made, create, conns, req, bridge, faults>>

(* DELETE, of a job's console or an instance's *)
Close(k) == sessions[k] # 0 /\ Pop(k) /\ UNCHANGED <<sweep, reaped>>

(* the delete call of close; an error is logged *)
DeleteConnection(s) ==
  /\ s \in deleting
  /\ deleting' = deleting \ {s}
  /\ \/ conns' = conns \ {s} /\ UNCHANGED faults
     \/ Fault /\ UNCHANGED conns
  /\ UNCHANGED <<memory, create, req, sweep, reaped, bridge>>

(* reap_idle goes through a copy of the items and awaits each close.       *)
(* Whether a session was idle for long enough is open.                     *)
Idle(s) == state[s] # "CREATING" /\ viewers[s] = 0

Reap(k) ==
  /\ sweep = {} /\ sessions[k] # 0 /\ Idle(sessions[k])
  /\ Pop(k) /\ reaped' = reaped \cup {sessions[k]}
  /\ sweep' = IF sessions[k] \notin known THEN {}
              ELSE {<<other, sessions[other]>> : other \in {o \in Key \ {k} : sessions[o] # 0}}

(* The rest of the copy: what is looked at is the session of back then,    *)
(* what is closed is the one that has the key now.                         *)
ReapNext(k, s) ==
  /\ <<k, s>> \in sweep /\ sweep' = {}
  /\ deleting \cap reaped = {}
  /\ IF Idle(s) /\ sessions[k] # 0
     THEN Pop(k) /\ reaped' = reaped \cup {sessions[k]}
     ELSE UNCHANGED <<memory, create, conns, req, deleting, reaped, bridge, faults>>

-----------------------------------------------------------------------------
Move(v, place, hops) == bridge' = [bridge EXCEPT ![v].at = place, ![v].hops = hops]
Release(k) ==
  viewers' = IF sessions[k] = 0 THEN viewers
             ELSE [viewers EXCEPT ![sessions[k]] = IF @ = 0 THEN 0 ELSE @ - 1]

(* bridge_vnc and connect, up to the tunnel: only to an ACTIVE session *)
Connect(v, k) ==
  /\ bridge[v].at = "off"
  /\ sessions[k] # 0 /\ state[sessions[k]] = "ACTIVE"
  /\ viewers' = [viewers EXCEPT ![sessions[k]] = @ + 1]
  /\ bridge' = [bridge EXCEPT ![v] = [at |-> "hop1", key |-> k, own |-> sessions[k], hops |-> 0]]
  /\ UNCHANGED <<sessions, state, known, made, create, conns, req, sweeper, faults>>

(* open_vnc_stream, up to the VNC channel: user names of the second hop    *)
(* and targets of the channel are tried while they are refused.            *)
Dialing == {"hop1", "hop2", "channel"}
Dial(v) ==
  /\ bridge[v].at \in Dialing /\ bridge[v].own \in conns
  /\ CASE bridge[v].at = "hop1" -> Move(v, "hop2", 1)
       [] bridge[v].at = "hop2" -> Move(v, "channel", 2)
       [] OTHER -> Move(v, "on", 2)
  /\ UNCHANGED <<memory, create, conns, req, sweeper, faults>>

(* Slip: a tunnel that fails half-way keeps the first hop. *)
DialFailedSlip(v) ==
  /\ bridge[v].at \in Dialing
  /\ Move(v, "off", IF bridge[v].hops = 2 THEN 1 ELSE 0) /\ Release(bridge[v].key)
  /\ UNCHANGED <<sessions, state, known, made, create, conns, req, sweeper, faults>>

(* Slip: only a bridge that was up gives its place back. *)
DialKeepsPlaceSlip(v) ==
  /\ bridge[v].at \in Dialing
  /\ Move(v, "off", 0)
  /\ UNCHANGED <<memory, create, conns, req, sweeper, faults>>

(* An error, the last refusal or the timeout of the whole: the except      *)
(* clauses close what is open and release the place.                       *)
DialFailed(v) ==
  /\ bridge[v].at \in Dialing
  /\ Move(v, "off", 0) /\ Release(bridge[v].key)
  /\ UNCHANGED <<sessions, state, known, made, create, conns, req, sweeper, faults>>

(* Either side closes: the finally clause of bridge_vnc. *)
Hangup(v) ==
  /\ bridge[v].at = "on"
  /\ Move(v, "off", 0) /\ Release(bridge[v].key)
  /\ UNCHANGED <<sessions, state, known, made, create, conns, req, sweeper, faults>>

(* Somebody else makes or deletes a connection for the instance. *)
Elsewhere ==
  /\ \/ conns = {} /\ Fault /\ conns' = {Foreign}
     \/ Foreign \in conns /\ conns' = {} /\ UNCHANGED faults
  /\ UNCHANGED <<memory, create, req, sweeper, bridge>>

(* The service is killed, or stops and close_all deletes what it can.      *)
(* Sessions, keys and threads are gone afterwards.                         *)
Restart ==
  /\ Fault
  /\ \/ UNCHANGED conns
     \/ conns' = conns \ {s \in known : \E k \in Key : sessions[k] = s}
  /\ sessions' = [k \in Key |-> 0] /\ create' = [s \in Id |-> "none"]
  /\ state' = [s \in Id |-> IF state[s] = "NONE" THEN "NONE" ELSE "CLOSED"]
  /\ req' = [r \in Request |-> NoReq] /\ bridge' = [v \in Viewer |-> NoBridge]
  /\ deleting' = {} /\ sweep' = {}
  /\ UNCHANGED <<known, viewers, made, reaped>>

Next ==
  \/ \E r \in Request : \/ \E replace \in BOOLEAN : OpenJob(r, replace) \/ OpenInstance(r, replace)
                        \/ OpenTarget(r) \/ ClearAndRegister(r)
  \/ \E s \in Id : CreateCall(s) \/ CreateDone(s) \/ DeleteConnection(s) \/ \E k \in Key : ReapNext(k, s)
  \/ \E k \in Key : Close(k) \/ Reap(k)
  \/ \E v \in Viewer : Dial(v) \/ DialFailed(v) \/ Hangup(v) \/ \E k \in Key : Connect(v, k)
  \/ Elsewhere \/ Restart

Spec == Init /\ [][Next]_vars

-----------------------------------------------------------------------------
(* Opening is idempotent: a session that is being created or is active is  *)
(* never pushed aside by another open of the same key, however the         *)
(* requests overlap; it leaves its key through close.                      *)
OpenIsIdempotent ==
  [][\A k \in Key : Live(k) /\ sessions'[k] # sessions[k] => sessions'[k] = 0]_vars

(* A connection that was made elsewhere is only taken away for a request   *)
(* that was told to, although it is deleted some time after it was seen.   *)
ForeignOnlyReplaced ==
  [][\A r \in Request : Foreign \in conns \ conns' /\ req'[r] # req[r] => req[r].replace]_vars

(* viewers never counts more bridges than there are: a console whose       *)
(* viewers have all left can be reaped.                                    *)
NotOvercounted ==
  \A k \in Key : sessions[k] # 0 =>
    viewers[sessions[k]] <= Cardinality({v \in Viewer : bridge[v].at # "off" /\ bridge[v].own = sessions[k]})

(* No SSH connection outlives the bridge it was opened for. *)
HopsClosed == \A v \in Viewer : bridge[v].at = "off" => bridge[v].hops = 0

(* "Delete console connections nobody has looked at": one that somebody is *)
(* looking at is not reaped.                                               *)
WatchedIsKept ==
  [][\A s \in reaped' \ reaped : ~\E v \in Viewer : bridge[v].at = "on" /\ bridge[v].own = s]_vars

(* "The console connection is deleted when the console is closed": OCI     *)
(* keeps none that no session, thread or pending delete stands for.        *)
ClosedIsDeleted ==
  \A s \in conns \ {Foreign} :
    s \in deleting \/ create[s] \in {"call", "wait"} \/ \E k \in Key : sessions[k] = s

(* "there is never more than one connection per instance": the two keys    *)
(* share a session.                                                        *)
OneLiveSession == Cardinality({k \in Key : Live(k)}) <= 1
=============================================================================
