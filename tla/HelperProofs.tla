---------------------------- MODULE HelperProofs ----------------------------
(***************************************************************************)
(* The three models of MCHelper, for any number of requests, viewers,      *)
(* browsers, sessions and changes: the places at a console are counted     *)
(* right and no SSH hop is left open, opening and replacing a console; the *)
(* saved settings, the logins and the password; the self-update.           *)
(***************************************************************************)
EXTENDS MCHelper, FiniteSetTheorems, TLAPS

-----------------------------------------------------------------------------
(* The self-update. *)

(* Which scripts there are: with systemd there is one at most, so that it  *)
(* installs what it has checked out and restarts into what it installed;   *)
(* without systemd nothing is restarted.                                   *)
UpdateInv ==
  /\ script \in [Request -> {"off", "fetch", "reset", "install", "restart"}]
  /\ systemd => \A u, v \in Request : script[u] # "off" /\ script[v] # "off" => u = v
  /\ systemd => \A u \in Request : script[u] = "restart" => venv = src

(* An update begins with no script. *)
LEMMA UpdateStarts == Update!Init => UpdateInv
BY DEF Update!Init, UpdateInv

(* Every step keeps the scripts apart. *)
LEMMA UpdateKept ==
  ASSUME UpdateInv, [Update!Next]_updateVars
  PROVE  UpdateInv'
<1> USE DEF UpdateInv, Update!commits
<1>1. ASSUME NEW u \in Request, NEW force \in BOOLEAN, Update!SoftwareUpdate(u, force)
      PROVE  UpdateInv'
  BY <1>1 DEF Update!SoftwareUpdate
<1>2. ASSUME NEW u \in Request, Update!Status(u) PROVE UpdateInv'
  BY <1>2 DEF Update!Status
<1>3. ASSUME NEW u \in Request, Update!Start(u) PROVE UpdateInv'
  BY <1>3 DEF Update!Start, Update!Running
<1>4. ASSUME NEW u \in Request, Update!Fetch(u) PROVE UpdateInv'
  BY <1>4 DEF Update!Fetch, Update!NextStep
<1>5. ASSUME NEW u \in Request, Update!Reset(u) PROVE UpdateInv'
  BY <1>5 DEF Update!Reset, Update!NextStep
<1>6. ASSUME NEW u \in Request, Update!Install(u) PROVE UpdateInv'
  BY <1>6 DEF Update!Install, Update!NextStep
<1>7. ASSUME NEW u \in Request, Update!RestartService(u) PROVE UpdateInv'
  BY <1>7 DEF Update!RestartService, Update!NextStep
<1>8. ASSUME NEW u \in Request, Update!StepFails(u) PROVE UpdateInv'
  BY <1>8 DEF Update!StepFails, Update!NextStep
<1>9. CASE Update!Push \/ Update!JobsChange
  BY <1>9 DEF Update!Push, Update!JobsChange
<1>10. CASE UNCHANGED updateVars
  BY <1>10 DEF updateVars
<1>. QED
  BY <1>1, <1>2, <1>3, <1>4, <1>5, <1>6, <1>7, <1>8, <1>9, <1>10 DEF Update!Next

(* The version the service restarts into is the one that is checked out.   *)
LEMMA RestartsWhole ==
  ASSUME UpdateInv, [Update!Next]_updateVars
  PROVE  running' # running => running' = src
<1> USE DEF UpdateInv, Update!commits
<1>1. ASSUME NEW u \in Request, Update!RestartService(u) PROVE running' = src
  BY <1>1 DEF Update!RestartService
<1>2. ASSUME NEW u \in Request,
             \/ Update!Status(u) \/ Update!Start(u) \/ Update!Fetch(u) \/ Update!Reset(u)
             \/ Update!Install(u) \/ Update!StepFails(u)
             \/ \E force \in BOOLEAN : Update!SoftwareUpdate(u, force)
      PROVE  running' = running
  BY <1>2 DEF Update!Status, Update!Start, Update!Fetch, Update!Reset, Update!Install,
              Update!StepFails, Update!SoftwareUpdate
<1>3. CASE Update!Push \/ Update!JobsChange
  BY <1>3 DEF Update!Push, Update!JobsChange
<1>4. CASE UNCHANGED updateVars
  BY <1>4 DEF updateVars
<1>. QED
  BY <1>1, <1>2, <1>3, <1>4 DEF Update!Next
-----------------------------------------------------------------------------
(* The consoles. *)

Watching(s) == {v \in Viewer : bridge[v].at # "off" /\ bridge[v].own = s}

(* A session is registered under one key only, the one its bridges know it *)
(* by; one that is not made yet has no viewers.                            *)
Keyed ==
  /\ \A k, l \in Key : sessions[k] # 0 /\ sessions[k] = sessions[l] => k = l
  /\ \A v \in Viewer : bridge[v].at # "off" =>
       bridge[v].own \in 1..made /\ \A k \in Key : sessions[k] = bridge[v].own => k = bridge[v].key
  /\ \A s \in Id : s > made => viewers[s] = 0

(* One request at a time is between its look and its registration; until   *)
(* then no session of its key comes alive, and a foreign connection was    *)
(* seen by a request that may replace it.                                  *)
Alone ==
  /\ \A r, q \in Request : req[r].at = "clear" /\ req[q].at = "clear" => r = q
  /\ \A r \in Request : req[r].at = "clear" =>
       ~Live(req[r].key) /\ (Foreign \in req[r].found => req[r].replace)

ConsoleInv == TypeOK /\ Keyed /\ NotOvercounted /\ HopsClosed /\ Alone

(* What the invariant says of the numbers of sessions and viewers *)
LEMMA WatchingFinite ==
  ASSUME NEW s
  PROVE  /\ IsFiniteSet(Watching(s)) /\ Cardinality(Watching(s)) \in Nat
         /\ Cardinality(Viewer) \in Nat /\ Cardinality(Watching(s)) <= Cardinality(Viewer)
<1>1. Watching(s) \subseteq Viewer
  BY DEF Watching
<1>. QED
  BY <1>1, ConsoleAssumption, FS_Subset, FS_CardinalityType

(* A request or a bridge that goes to another place *)
LEMMA AskTyped ==
  ASSUME req \in [Request -> ReqState], NEW r \in Request, NEW at \in {"idle", "queued", "clear"},
         Ask(r, at)
  PROVE  /\ req' \in [Request -> ReqState]
         /\ req'[r].at = at /\ \A q \in Request \ {r} : req'[q] = req[q]
<1>1. req' = [req EXCEPT ![r] = [req[r] EXCEPT !.at = at]]
  BY DEF Ask
<1>2. [req[r] EXCEPT !.at = at] \in ReqState
  BY DEF ReqState
<1>3. [req[r] EXCEPT !.at = at].at = at
  BY DEF ReqState
<1>. QED BY <1>1, <1>2, <1>3

(* The bridge of one viewer goes on. *)
LEMMA MoveTyped ==
  ASSUME bridge \in [Viewer -> BridgeState], NEW v \in Viewer,
         NEW at \in {"off", "hop1", "hop2", "channel", "on"}, NEW hops \in 0..2, Move(v, at, hops)
  PROVE  /\ bridge' \in [Viewer -> BridgeState]
         /\ bridge'[v].at = at /\ bridge'[v].hops = hops
         /\ bridge'[v].own = bridge[v].own /\ bridge'[v].key = bridge[v].key
         /\ \A w \in Viewer \ {v} : bridge'[w] = bridge[w]
<1> DEFINE b == [bridge[v] EXCEPT !.at = at, !.hops = hops]
<1>1. bridge' = [bridge EXCEPT ![v] = b]
  BY DEF Move
<1>2. b \in BridgeState /\ b.at = at /\ b.hops = hops /\ b.own = bridge[v].own /\ b.key = bridge[v].key
  BY DEF BridgeState
<1> HIDE DEF b
<1>. QED BY <1>1, <1>2

(* A manager begins without sessions. *)
LEMMA ConsoleStarts == Init => ConsoleInv
<1> SUFFICES ASSUME Init PROVE ConsoleInv
  OBVIOUS
<1>1. Cardinality(Viewer) \in Nat
  BY ConsoleAssumption, FS_CardinalityType
<1>2. TypeOK
  BY <1>1, ConsoleAssumption DEF Init, TypeOK, NoReq, NoBridge, Key, Id, ReqState, BridgeState
<1>3. Keyed /\ NotOvercounted /\ HopsClosed /\ Alone
  BY ConsoleAssumption DEF Init, Keyed, NotOvercounted, HopsClosed, Alone, NoReq, NoBridge, Key, Id
<1>. QED
  BY <1>2, <1>3 DEF ConsoleInv

(* The steps of requests, tasks and sweeps leave the bridges alone and the *)
(* counts as they are: what they do to the sessions.                       *)
LEMMA CountsKept ==
  ASSUME ConsoleInv, UNCHANGED <<bridge, viewers>>, made' \in made..MaxSessions,
         sessions' \in [Key -> 0..made'],
         \A k \in Key : sessions'[k] \in {0, sessions[k]} \cup (made + 1)..made',
         \A k, l \in Key : sessions'[k] # 0 /\ sessions'[k] = sessions'[l] => k = l
  PROVE  Keyed' /\ NotOvercounted' /\ HopsClosed'
<1> USE ConsoleAssumption DEF ConsoleInv, TypeOK, Id
<1>1. Keyed'
  <2>1. \A v \in Viewer : bridge'[v].at # "off" =>
          /\ bridge'[v].own \in 1..made'
          /\ \A k \in Key : sessions'[k] = bridge'[v].own => k = bridge'[v].key
    <3> SUFFICES ASSUME NEW v \in Viewer, bridge[v].at # "off"
                 PROVE  /\ bridge[v].own \in 1..made'
                        /\ \A k \in Key : sessions'[k] = bridge[v].own => k = bridge[v].key
      OBVIOUS
    <3>1. bridge[v].own \in 1..made /\ \A k \in Key : sessions[k] = bridge[v].own => k = bridge[v].key
      BY DEF Keyed
    <3>2. made \in Nat /\ made' \in Nat /\ made <= made'
      OBVIOUS
    <3>3. ASSUME NEW k \in Key, sessions'[k] = bridge[v].own PROVE k = bridge[v].key
      <4>1. sessions'[k] # 0 /\ sessions'[k] \notin (made + 1)..made'
        BY <3>1, <3>2, <3>3
      <4>2. sessions'[k] = sessions[k]
        BY <4>1
      <4> QED BY <3>1, <3>3, <4>2
    <3> QED BY <3>1, <3>2, <3>3
  <2>2. \A s \in Id : s > made' => viewers'[s] = 0
    BY DEF Keyed
  <2> QED BY <2>1, <2>2 DEF Keyed
<1>2. NotOvercounted'
  <2> SUFFICES ASSUME NEW k \in Key, sessions'[k] # 0
               PROVE  viewers[sessions'[k]] <= Cardinality(Watching(sessions'[k]))
    BY DEF NotOvercounted, Watching
  <2>1. CASE sessions'[k] = sessions[k]
    BY <2>1 DEF NotOvercounted, Watching
  <2>2. CASE sessions'[k] # sessions[k]
    BY <2>2, WatchingFinite DEF Keyed
  <2> QED BY <2>1, <2>2
<1>3. HopsClosed'
  BY DEF HopsClosed
<1>. QED BY <1>1, <1>2, <1>3

(* A request comes in. *)
LEMMA AskKept ==
  ASSUME ConsoleInv, NEW r \in Request, NEW replace \in BOOLEAN,
         OpenJob(r, replace) \/ OpenInstance(r, replace)
  PROVE  ConsoleInv'
<1> USE ConsoleAssumption DEF ConsoleInv, OpenJob, OpenInstance, memory, sweeper
<1>1. TypeOK'
  <2>1. req' \in [Request -> ReqState]
    <3>1. ASSUME NEW key \in Key
          PROVE  [at |-> "queued", key |-> key, replace |-> replace, found |-> {}] \in ReqState
      BY <3>1 DEF ReqState
    <3> QED BY <3>1 DEF TypeOK, Key
  <2>2. UNCHANGED <<sessions, state, known, viewers, made, create, conns, deleting, sweep, reaped, bridge, faults>>
    OBVIOUS
  <2> QED BY <2>1, <2>2 DEF TypeOK
<1>2. Keyed' /\ NotOvercounted' /\ HopsClosed'
  BY CountsKept DEF TypeOK, Keyed
<1>3. req'[r].at = "queued" /\ \A q \in Request \ {r} : req'[q] = req[q]
  BY DEF TypeOK
<1>4. Alone'
  BY <1>3 DEF Alone, Live
<1>. QED BY <1>1, <1>2, <1>4

(* It takes the lock and looks. *)
LEMMA LookKept ==
  ASSUME ConsoleInv, NEW r \in Request, OpenTarget(r)
  PROVE  ConsoleInv'
<1> USE ConsoleAssumption DEF ConsoleInv, OpenTarget, memory, sweeper, Ask, FindExisting
<1>1. TypeOK'
  <2>1. conns \in SUBSET (Id \cup {Foreign})
    BY DEF TypeOK
  <2>2. req' \in [Request -> ReqState]
    <3>1. CASE Live(req[r].key)
      BY <3>1, AskTyped DEF TypeOK
    <3>2. CASE ~Live(req[r].key)
      <4> DEFINE q == [req[r] EXCEPT !.found = conns,
                         !.at = IF Foreign \in conns /\ ~req[r].replace THEN "idle" ELSE "clear"]
      <4>1. req' = [req EXCEPT ![r] = q]
        BY <3>2
      <4>2. q \in ReqState
        <5>1. req[r] \in ReqState /\ conns \in SUBSET (Id \cup {Foreign})
          BY <2>1 DEF TypeOK
        <5>2. (IF Foreign \in conns /\ ~req[r].replace THEN "idle" ELSE "clear") \in {"idle", "queued", "clear"}
          OBVIOUS
        <5> QED BY <5>1, <5>2 DEF ReqState
      <4> HIDE DEF q
      <4> QED BY <4>1, <4>2 DEF TypeOK
    <3> QED BY <3>1, <3>2
  <2> QED BY <2>2 DEF TypeOK
<1>2. Keyed' /\ NotOvercounted' /\ HopsClosed'
  BY CountsKept DEF TypeOK, Keyed
<1>3. Alone'
  <2>1. \A k \in Key : Live(k)' <=> Live(k)
    BY DEF Live
  <2>2. CASE Live(req[r].key)
    <3>1. req'[r].at = "idle" /\ \A q \in Request \ {r} : req'[q] = req[q]
      BY <2>2, AskTyped DEF TypeOK
    <3>2. \A q \in Request \ {r} : req[q].key \in Key
      BY DEF TypeOK, ReqState
    <3> QED BY <2>1, <3>1, <3>2 DEF Alone
  <2>3. CASE ~Live(req[r].key)
    <3>1. /\ \A q \in Request \ {r} : req'[q] = req[q]
          /\ req'[r].key = req[r].key /\ req'[r].replace = req[r].replace /\ req'[r].found = conns
          /\ req'[r].at = IF Foreign \in conns /\ ~req[r].replace THEN "idle" ELSE "clear"
      BY <2>3 DEF TypeOK, ReqState
    <3>2. req[r].key \in Key
      BY DEF TypeOK, ReqState
    <3> QED BY <2>1, <2>3, <3>1, <3>2 DEF Alone, LockFree
  <2> QED BY <2>2, <2>3
<1>. QED BY <1>1, <1>2, <1>3

(* It makes room and registers its session, or gives up. *)
LEMMA RegisterKept ==
  ASSUME ConsoleInv, NEW r \in Request, ClearAndRegister(r)
  PROVE  ConsoleInv'
<1> USE ConsoleAssumption DEF ConsoleInv, ClearAndRegister, memory, sweeper, Fault
<1>0. req[r].key \in Key /\ Ask(r, "idle") /\ (made + 1 \in Nat \ {made})
  BY DEF TypeOK, ReqState, Id
<1>1. /\ req' \in [Request -> ReqState]
      /\ req'[r].at = "idle" /\ \A q \in Request \ {r} : req'[q] = req[q]
  BY <1>0, AskTyped DEF TypeOK
<1>2. CASE UNCHANGED memory
  <2>1. TypeOK'
    BY <1>1, <1>2 DEF TypeOK
  <2>2. Keyed' /\ NotOvercounted' /\ HopsClosed'
    BY <1>2, CountsKept DEF TypeOK, Keyed
  <2>3. Alone'
    BY <1>1, <1>2 DEF Alone, Live
  <2> QED BY <2>1, <2>2, <2>3
<1>3. CASE made' = made + 1
  <2>0. /\ made \in Nat /\ made + 1 \in Id
        /\ sessions' = [sessions EXCEPT ![req[r].key] = made + 1]
        /\ state' = [state EXCEPT ![made + 1] = "CREATING"]
        /\ create' = [create EXCEPT ![made + 1] = "call"]
        /\ UNCHANGED <<known, viewers, faults>> /\ conns' \subseteq conns
    BY <1>3 DEF TypeOK, Id
  <2>1. sessions' \in [Key -> 0..made']
    BY <1>0, <1>3, <2>0 DEF TypeOK
  <2>2. TypeOK'
    BY <1>1, <1>3, <2>0, <2>1 DEF TypeOK, Id
  <2>3. \A k \in Key : sessions'[k] = IF k = req[r].key THEN made + 1 ELSE sessions[k]
    BY <1>0, <2>0 DEF TypeOK
  <2>4. Keyed' /\ NotOvercounted' /\ HopsClosed'
    <3>1. \A k \in Key : sessions[k] \in 0..made
      BY DEF TypeOK
    <3>2. \A k, l \in Key : sessions'[k] # 0 /\ sessions'[k] = sessions'[l] => k = l
      BY <2>0, <2>3, <3>1 DEF Keyed
    <3>3. \A k \in Key : sessions'[k] \in {0, sessions[k]} \cup (made + 1)..made'
      BY <1>3, <2>0, <2>3
    <3>4. made' \in made..MaxSessions
      BY <1>3, <2>0 DEF Id
    <3> QED BY <2>0, <2>1, <3>2, <3>3, <3>4, CountsKept
  <2>5. Alone'
    <3>1. \A q \in Request : req[q].at = "clear" => q = r
      BY DEF Alone
    <3> QED BY <1>1, <3>1 DEF Alone
  <2> QED BY <2>2, <2>4, <2>5
<1>. QED BY <1>2, <1>3

(* The creating threads *)
LEMMA CreateKept ==
  ASSUME ConsoleInv, NEW s \in Id, CreateCall(s) \/ CreateDone(s)
  PROVE  ConsoleInv'
<1> USE ConsoleAssumption DEF ConsoleInv, CreateCall, CreateDone, memory, sweeper, Fault
<1>1. TypeOK'
  BY DEF TypeOK
<1>2. Keyed' /\ NotOvercounted' /\ HopsClosed'
  BY CountsKept DEF TypeOK, Keyed
<1>3. Alone'
  <2>1. \A q \in Id : state'[q] \in {"CREATING", "ACTIVE"} => state[q] \in {"CREATING", "ACTIVE"}
    BY DEF TypeOK
  <2>2. \A k \in Key : Live(k)' => Live(k)
    BY <2>1 DEF TypeOK, Live, Id
  <2>3. \A r \in Request : req[r].key \in Key
    BY DEF TypeOK, ReqState
  <2> QED BY <2>2, <2>3 DEF Alone
<1>. QED BY <1>1, <1>2, <1>3

(* A session leaves its key. *)
LEMMA PopKept ==
  ASSUME ConsoleInv, NEW k \in Key, sessions[k] # 0, Pop(k),
         sweep' \subseteq Key \X Id, reaped' \in {reaped, reaped \cup {sessions[k]}}
  PROVE  ConsoleInv'
<1> USE ConsoleAssumption DEF ConsoleInv, Pop
<1>0. sessions[k] \in Id
  BY DEF TypeOK, Id
<1>1. TypeOK'
  BY <1>0 DEF TypeOK
<1>2. Keyed' /\ NotOvercounted' /\ HopsClosed'
  BY CountsKept DEF TypeOK, Keyed
<1>3. Alone'
  BY <1>0 DEF TypeOK, Alone, Live
<1>. QED BY <1>1, <1>2, <1>3

(* It is closed by a request or by the sweep, and its connection deleted. *)
LEMMA CloseKept ==
  ASSUME ConsoleInv, NEW k \in Key, Close(k) \/ Reap(k) \/ \E s \in Id : ReapNext(k, s)
  PROVE  ConsoleInv'
<1> USE ConsoleAssumption DEF ConsoleInv
<1>1. CASE Close(k)
  BY <1>1, PopKept DEF Close, TypeOK
<1>2. CASE Reap(k)
  <2>1. {<<other, sessions[other]>> : other \in {o \in Key \ {k} : sessions[o] # 0}} \subseteq Key \X Id
    BY DEF TypeOK, Id
  <2> QED BY <1>2, <2>1, PopKept DEF Reap
<1>3. ASSUME NEW s \in Id, ReapNext(k, s) PROVE ConsoleInv'
  <2>1. CASE Idle(s) /\ sessions[k] # 0
    BY <1>3, <2>1, PopKept DEF ReapNext
  <2>2. CASE ~(Idle(s) /\ sessions[k] # 0)
    <3>1. UNCHANGED <<memory, create, conns, req, deleting, reaped, bridge, faults>> /\ sweep' = {}
      BY <1>3, <2>2 DEF ReapNext
    <3>2. TypeOK' /\ Alone'
      BY <3>1 DEF memory, TypeOK, Alone, Live
    <3>3. Keyed' /\ NotOvercounted' /\ HopsClosed'
      BY <3>1, CountsKept DEF memory, TypeOK, Keyed
    <3> QED BY <3>2, <3>3
  <2> QED BY <2>1, <2>2
<1>. QED BY <1>1, <1>2, <1>3

(* What happens elsewhere, and the deletion of a connection *)
LEMMA ElsewhereKept ==
  ASSUME ConsoleInv, Elsewhere \/ \E s \in Id : DeleteConnection(s)
  PROVE  ConsoleInv'
<1> USE ConsoleAssumption DEF ConsoleInv, Elsewhere, DeleteConnection, memory, sweeper, Fault
<1>1. TypeOK'
  BY DEF TypeOK
<1>2. Keyed' /\ NotOvercounted' /\ HopsClosed'
  BY CountsKept DEF TypeOK, Keyed
<1>3. Alone'
  BY DEF TypeOK, Alone, Live
<1>. QED BY <1>1, <1>2, <1>3

(* A bridge takes its place: one more viewer, one more that is watching.   *)
LEMMA ConnectKept ==
  ASSUME ConsoleInv, NEW v \in Viewer, NEW k \in Key, Connect(v, k)
  PROVE  ConsoleInv'
<1> USE ConsoleAssumption DEF ConsoleInv, Connect, sweeper
<1>1. sessions[k] \in Id /\ sessions[k] \in 1..made
  BY DEF TypeOK, Id
<1>2. \A s \in Id : Watching(s)' = IF s = sessions[k] THEN Watching(s) \cup {v} ELSE Watching(s)
  BY DEF TypeOK, Watching
<1>3. v \notin Watching(sessions[k])
  BY DEF Watching
<1>4. Cardinality(Watching(sessions[k])') = Cardinality(Watching(sessions[k])) + 1
  BY <1>1, <1>2, <1>3, WatchingFinite, FS_AddElement
<1>5. Cardinality(Watching(sessions[k])') <= Cardinality(Viewer)
  <2>1. Watching(sessions[k])' \subseteq Viewer
    BY DEF Watching
  <2> QED BY <2>1, FS_Subset
<1>6. viewers[sessions[k]] <= Cardinality(Watching(sessions[k]))
  BY DEF NotOvercounted, Watching
<1>7. TypeOK'
  <2>1. viewers[sessions[k]] + 1 \in 0..Cardinality(Viewer)
    BY <1>1, <1>4, <1>5, <1>6, WatchingFinite DEF TypeOK
  <2>2. viewers' \in [Id -> 0..Cardinality(Viewer)]
    BY <1>1, <2>1 DEF TypeOK
  <2>3. bridge' \in [Viewer -> BridgeState]
    BY <1>1 DEF TypeOK, BridgeState, Id
  <2> QED BY <2>2, <2>3 DEF TypeOK
<1>8. Keyed'
  BY <1>1 DEF TypeOK, Keyed, Id
<1>9. NotOvercounted'
  <2> SUFFICES ASSUME NEW l \in Key, sessions[l] # 0
               PROVE  viewers'[sessions[l]] <= Cardinality(Watching(sessions[l])')
    BY DEF NotOvercounted, Watching
  <2>1. sessions[l] \in Id
    BY DEF TypeOK, Id
  <2>2. CASE sessions[l] = sessions[k]
    BY <1>1, <1>4, <1>6, <2>2, WatchingFinite DEF TypeOK
  <2>3. CASE sessions[l] # sessions[k]
    BY <1>1, <1>2, <2>1, <2>3 DEF TypeOK, NotOvercounted, Watching
  <2> QED BY <2>2, <2>3
<1>10. HopsClosed' /\ Alone'
  BY DEF TypeOK, HopsClosed, Alone, Live
<1>. QED BY <1>7, <1>8, <1>9, <1>10

(* The hops of its tunnel *)
LEMMA DialKept ==
  ASSUME ConsoleInv, NEW v \in Viewer, Dial(v)
  PROVE  ConsoleInv'
<1> USE ConsoleAssumption DEF ConsoleInv
<1>1. PICK place \in {"hop2", "channel", "on"}, hops \in 1..2 :
        /\ Move(v, place, hops)
        /\ bridge[v].at # "off"
        /\ UNCHANGED <<sessions, state, known, viewers, made, create, conns, req, deleting, sweep,
                       reaped, faults>>
  BY DEF Dial, Dialing, memory, sweeper
<1>2. /\ bridge' \in [Viewer -> BridgeState]
      /\ bridge'[v].at # "off" /\ bridge'[v].own = bridge[v].own /\ bridge'[v].key = bridge[v].key
      /\ \A w \in Viewer \ {v} : bridge'[w] = bridge[w]
  BY <1>1, MoveTyped DEF TypeOK
<1>3. TypeOK'
  BY <1>1, <1>2 DEF TypeOK
<1>4. Keyed'
  BY <1>1, <1>2 DEF Keyed
<1>6. NotOvercounted'
  <2> SUFFICES ASSUME NEW l \in Key, sessions[l] # 0
               PROVE  viewers[sessions[l]] <= Cardinality(Watching(sessions[l])')
    BY <1>1 DEF NotOvercounted, Watching
  <2>1. viewers[sessions[l]] <= Cardinality(Watching(sessions[l]))
    BY DEF NotOvercounted, Watching
  <2>2. Watching(sessions[l])' = Watching(sessions[l])
    BY <1>1, <1>2 DEF Watching
  <2> QED BY <2>1, <2>2
<1>7. HopsClosed'
  BY <1>2 DEF HopsClosed
<1>8. Alone'
  BY <1>1 DEF Alone, Live
<1>. QED BY <1>3, <1>4, <1>6, <1>7, <1>8

(* It ends: the place it gives back is one of the session that has its key *)
(* now, which is its own or one that never counted it.                     *)
LEMMA LeaveKept ==
  ASSUME ConsoleInv, NEW v \in Viewer, DialFailed(v) \/ Hangup(v)
  PROVE  ConsoleInv'
<1> DEFINE k == bridge[v].key
<1> USE ConsoleAssumption DEF ConsoleInv
<1>0. /\ bridge[v].at # "off" /\ Move(v, "off", 0) /\ Release(k)
      /\ UNCHANGED <<sessions, state, known, made, create, conns, req, sweeper, faults>>
  BY DEF DialFailed, Hangup, Dialing
<1> USE <1>0 DEF Release, sweeper
<1>1. /\ k \in Key
      /\ bridge' \in [Viewer -> BridgeState] /\ bridge'[v].at = "off" /\ bridge'[v].hops = 0
      /\ bridge'[v].own = bridge[v].own
      /\ \A w \in Viewer \ {v} : bridge'[w] = bridge[w]
  BY MoveTyped DEF TypeOK, BridgeState
<1>2. TypeOK'
  <2>1. viewers' \in [Id -> 0..Cardinality(Viewer)]
    <3>1. CASE sessions[k] = 0
      BY <3>1 DEF TypeOK
    <3>2. CASE sessions[k] # 0
      <4>1. sessions[k] \in Id
        BY <1>1, <3>2 DEF TypeOK, Id
      <4>2. viewers[sessions[k]] \in 0..Cardinality(Viewer)
        BY <4>1 DEF TypeOK
      <4>3. (IF viewers[sessions[k]] = 0 THEN 0 ELSE viewers[sessions[k]] - 1) \in 0..Cardinality(Viewer)
        BY <4>2, FS_CardinalityType
      <4> QED BY <3>2, <4>1, <4>3 DEF TypeOK
    <3> QED BY <3>1, <3>2
  <2> QED BY <1>1, <2>1 DEF TypeOK
<1>3. Keyed'
  <2>1. \A w \in Viewer : bridge'[w].at # "off" => bridge'[w] = bridge[w]
    BY <1>1
  <2>2. ASSUME NEW s \in Id, s > made PROVE viewers'[s] = 0
    <3>1. viewers[s] = 0 /\ sessions[k] \in 0..made
      BY <1>1, <2>2 DEF TypeOK, Keyed
    <3>2. CASE s = sessions[k]
      BY <2>2, <3>1, <3>2 DEF TypeOK, Id
    <3>3. CASE s # sessions[k]
      BY <2>2, <3>1, <3>3 DEF TypeOK
    <3> QED BY <3>2, <3>3
  <2> QED BY <2>1, <2>2 DEF Keyed
<1>4. NotOvercounted'
  <2> SUFFICES ASSUME NEW l \in Key, sessions[l] # 0
               PROVE  viewers'[sessions[l]] <= Cardinality(Watching(sessions[l])')
    BY DEF NotOvercounted, Watching
  <2>1. sessions[l] \in Id
    BY DEF TypeOK, Id
  <2>2. viewers[sessions[l]] \in Nat /\ viewers[sessions[l]] <= Cardinality(Watching(sessions[l]))
    BY <2>1 DEF TypeOK, NotOvercounted, Watching
  <2>3. CASE l = k
    <3>1. viewers'[sessions[l]] = IF viewers[sessions[l]] = 0 THEN 0 ELSE viewers[sessions[l]] - 1
      BY <2>1, <2>3 DEF TypeOK
    <3>2. Watching(sessions[l])' = Watching(sessions[l]) \ {v}
      BY <1>1 DEF Watching
    <3>3. /\ IsFiniteSet(Watching(sessions[l]) \ {v})
          /\ Cardinality(Watching(sessions[l]) \ {v}) =
               IF v \in Watching(sessions[l]) THEN Cardinality(Watching(sessions[l])) - 1
               ELSE Cardinality(Watching(sessions[l]))
      BY WatchingFinite, FS_RemoveElement
    <3>4. Cardinality(Watching(sessions[l]) \ {v}) \in Nat
      BY <3>3, FS_CardinalityType
    <3> QED BY <2>2, <3>1, <3>2, <3>3, <3>4, WatchingFinite
  <2>4. CASE l # k
    <3>1. sessions[l] # bridge[v].own
      BY <2>4 DEF Keyed
    <3>2. Watching(sessions[l])' = Watching(sessions[l])
      BY <1>1, <3>1 DEF Watching
    <3>3. viewers'[sessions[l]] = viewers[sessions[l]]
      BY <1>1, <2>4 DEF TypeOK, Keyed
    <3> QED BY <2>2, <3>2, <3>3
  <2> QED BY <2>3, <2>4
<1>5. HopsClosed' /\ Alone'
  BY <1>1 DEF HopsClosed, Alone, Live
<1>. QED BY <1>2, <1>3, <1>4, <1>5

(* A restart leaves nothing of it. *)
LEMMA RestartKept == ASSUME ConsoleInv, Restart PROVE ConsoleInv'
<1> USE ConsoleAssumption DEF ConsoleInv, Restart, Fault
<1>1. TypeOK'
  BY DEF TypeOK, NoReq, NoBridge, Key, ReqState, BridgeState
<1>2. Keyed' /\ NotOvercounted' /\ HopsClosed' /\ Alone'
  BY DEF TypeOK, Keyed, NotOvercounted, HopsClosed, Alone, NoReq, NoBridge
<1>. QED BY <1>1, <1>2

(* Every step keeps the consoles sound. *)
LEMMA ConsoleKept ==
  ASSUME ConsoleInv, [Next]_vars
  PROVE  ConsoleInv'
<1>1. CASE UNCHANGED vars
  BY <1>1 DEF vars, ConsoleInv, TypeOK, Keyed, NotOvercounted, HopsClosed, Alone, Live
<1>. QED
  BY <1>1, AskKept, LookKept, RegisterKept, CreateKept, CloseKept, ElsewhereKept, ConnectKept,
     DialKept, LeaveKept, RestartKept DEF Next

(* Which steps give a key another session, *)
LEMMA SessionReplaced ==
  ASSUME ConsoleInv, [Next]_vars, NEW k \in Key, Live(k), sessions'[k] # sessions[k]
  PROVE  sessions'[k] = 0
<1> USE DEF ConsoleInv, TypeOK
<1>1. ASSUME NEW r \in Request, ClearAndRegister(r) PROVE sessions'[k] = 0
  BY <1>1 DEF ClearAndRegister, memory, Ask, Alone
<1>2. ASSUME NEW l \in Key, Close(l) \/ Reap(l) \/ \E s \in Id : ReapNext(l, s)
      PROVE  sessions'[k] = 0
  BY <1>2 DEF Close, Reap, ReapNext, Pop, memory
<1>3. CASE Restart
  BY <1>3 DEF Restart
<1>. QED
  BY <1>1, <1>2, <1>3 DEF Next, vars, memory, OpenJob, OpenInstance, OpenTarget, CreateCall,
     CreateDone, DeleteConnection, Dial, DialFailed, Hangup, Connect, Elsewhere

(* and which take away a connection that was made elsewhere *)
LEMMA ForeignTaken ==
  ASSUME ConsoleInv, [Next]_vars, NEW r \in Request, Foreign \in conns \ conns', req'[r] # req[r]
  PROVE  req[r].replace
<1> USE DEF ConsoleInv, TypeOK
<1>0. Foreign \notin Id
  BY ConsoleAssumption DEF Foreign, Id
<1>1. ASSUME NEW q \in Request, ClearAndRegister(q) PROVE req[r].replace
  BY <1>1 DEF ClearAndRegister, Ask, Alone
<1>2. Restart => FALSE
  BY <1>0 DEF Restart
<1>. QED
  BY <1>0, <1>1, <1>2 DEF Next, vars, memory, OpenJob, OpenInstance, OpenTarget, CreateCall,
     CreateDone, DeleteConnection, Dial, DialFailed, Hangup, Connect, Elsewhere, Close, Reap,
     ReapNext, Pop

-----------------------------------------------------------------------------
(* The logins, the password and the settings. *)

Busy(r) == desk[r].at \notin {"idle", "provider"}
Changing == {"change", "first_use"}

(* What the place of a handler says of what it does and has noted *)
Placed ==
  \A r \in Request :
    /\ desk[r].at \in {"hash", "record", "logout"} => desk[r].do \in Changing
    /\ desk[r].at \in {"hash", "record"} /\ desk[r].do = "first_use" => desk[r].value # 0
    /\ desk[r].at \in {"hash", "record", "provider"} \/ desk[r].do \notin Changing => desk[r].old = {}

(* The sessions a handler has noted are no younger than its note.  A first *)
(* use that goes on after it logged the others out has only its browser's  *)
(* session left of them: a new session of that browser replaces it.        *)
Noted ==
  \A r \in Request :
    /\ desk[r].old \subseteq 1..minted
    /\ desk[r].do = "first_use" /\ desk[r].at \in {"read", "truncate", "store"} =>
         desk[r].old \cap logins \subseteq {cookie[desk[r].by]}

(* The password of the process is that of the file but between the two     *)
(* steps of a handler, of which there is one at a time.                    *)
PasswordInv ==
  "password" \notin overlap =>
    /\ \A r, q \in Request :
         Busy(r) /\ desk[r].do \in Changing /\ Busy(q) /\ desk[q].do \in Changing => r = q
    /\ \A r \in Request : desk[r].at = "record" => hash = desk[r].value
    /\ (\A r \in Request : desk[r].at # "record") => hash = record

(* One handler at a time saves.  If a limit was saved, and no save broke   *)
(* off since, the file has it, and so has what a handler is about to write *)
(* to it, unless it is a new limit.                                        *)
SettingsInv ==
  "settings" \notin overlap =>
    /\ \A r, q \in Request : Busy(r) /\ Busy(q) => r = q
    /\ \A r \in Request : desk[r].at \in {"truncate", "store"} /\ desk[r].do = "operation" =>
         desk[r].data.limit = desk[r].value
    /\ saved # 0 =>
         /\ torn => \E r \in Request : desk[r].at = "store"
         /\ file.limit = saved
         /\ \A r \in Request : desk[r].at \in {"truncate", "store"} /\ desk[r].do # "operation" =>
              desk[r].data.limit = file.limit

DeskInv == Setup!TypeOK /\ Placed /\ Noted /\ PasswordInv /\ SettingsInv

(* What every change of the logins comes to *)
LoginsStep ==
  /\ minted' \in minted..MaxSessions /\ logins' \subseteq logins \cup ((minted + 1)..minted')
  /\ cookie' \in [Browser -> 0..minted']
  /\ \A b \in Browser : cookie'[b] # cookie[b] => cookie[b] \notin logins'

(* Nobody logs in or out. *)
LEMMA LoginsSame ==
  ASSUME Setup!TypeOK, UNCHANGED Setup!logins
  PROVE  LoginsStep
BY ConsoleAssumption DEF Setup!TypeOK, Setup!logins, LoginsStep

(* A log-in mints a session, if the browser has none. *)
LEMMA LoginsMint ==
  ASSUME Setup!TypeOK, NEW b \in Browser, Setup!Mint(b)
  PROVE  LoginsStep
<1>1. CASE UNCHANGED Setup!logins
  BY <1>1, LoginsSame
<1>2. CASE ~Setup!Known(b) /\ minted' = minted + 1 /\ minted < MaxSessions
  BY <1>2, ConsoleAssumption DEF Setup!TypeOK, Setup!Mint, Setup!Known, LoginsStep
<1>. QED BY <1>1, <1>2 DEF Setup!Mint

(* The sessions handlers have noted, when the logins change *)
LEMMA NotedKept ==
  ASSUME Setup!TypeOK, Noted, LoginsStep, NEW r \in Request, desk'[r] = desk[r]
  PROVE  /\ desk'[r].old \subseteq 1..minted'
         /\ desk'[r].do = "first_use" /\ desk'[r].at \in {"read", "truncate", "store"} =>
              desk'[r].old \cap logins' \subseteq {cookie'[desk'[r].by]}
<1> USE DEF LoginsStep
<1>1. desk[r].old \subseteq 1..minted /\ desk[r].by \in Browser /\ minted \in Nat /\ minted' \in Nat /\ minted <= minted'
  BY ConsoleAssumption DEF Setup!TypeOK, Setup!ReqState, Noted
<1>2. desk[r].old \cap logins' \subseteq desk[r].old \cap logins
  BY <1>1
<1>. QED BY <1>1, <1>2 DEF Noted

(* The logins that come of it are well-formed. *)
LEMMA LoginsTyped ==
  ASSUME Setup!TypeOK, LoginsStep
  PROVE  minted' \in 0..MaxSessions /\ logins' \subseteq 1..minted' /\ cookie' \in [Browser -> 0..minted']
BY ConsoleAssumption DEF Setup!TypeOK, LoginsStep

(* A handler goes on to another place. *)
LEMMA GoesTo ==
  ASSUME desk \in [Request -> Setup!ReqState], NEW r \in Request, NEW at \in Setup!Places,
         Setup!Goto(r, at)
  PROVE  /\ desk' \in [Request -> Setup!ReqState]
         /\ desk'[r].at = at /\ desk'[r].do = desk[r].do /\ desk'[r].by = desk[r].by
         /\ desk'[r].value = desk[r].value /\ desk'[r].data = desk[r].data /\ desk'[r].old = desk[r].old
         /\ \A q \in Request \ {r} : desk'[q] = desk[q]
<1> DEFINE d == [desk[r] EXCEPT !.at = at]
<1>1. desk' = [desk EXCEPT ![r] = d]
  BY DEF Setup!Goto
<1>2. /\ d \in Setup!ReqState /\ d.at = at /\ d.do = desk[r].do /\ d.by = desk[r].by
      /\ d.value = desk[r].value /\ d.data = desk[r].data /\ d.old = desk[r].old
  BY DEF Setup!ReqState
<1> HIDE DEF d
<1>. QED BY <1>1, <1>2

(* A handler that is not about to start, as it was *)
LEMMA NoReqTyped ==
  /\ Setup!NoReq \in Setup!ReqState
  /\ Setup!NoReq.at = "idle" /\ Setup!NoReq.do = "none" /\ Setup!NoReq.old = {} /\ Setup!NoReq.value = 0
BY HelperAssumption, ConsoleAssumption
   DEF Setup!NoReq, Setup!ReqState, Setup!Places, Setup!Kinds, Setup!File, Setup!Empty

(* What is known of the password stays known when no handler comes to its *)
(* record or leaves it.                                                    *)
LEMMA PasswordSame ==
  ASSUME PasswordInv, UNCHANGED <<hash, record, overlap>>,
         \A q \in Request : desk'[q].at = "record" <=> desk[q].at = "record",
         \A q \in Request : desk'[q].do = desk[q].do /\ desk'[q].value = desk[q].value,
         \A q \in Request : Busy(q)' => Busy(q)
  PROVE  PasswordInv'
<1> SUFFICES ASSUME "password" \notin overlap' PROVE PasswordInv'
  BY DEF PasswordInv
<1>1. ASSUME NEW r \in Request, NEW q \in Request,
             Busy(r)', desk'[r].do \in Changing, Busy(q)', desk'[q].do \in Changing
      PROVE  r = q
  BY <1>1 DEF PasswordInv
<1>2. ASSUME NEW r \in Request, desk'[r].at = "record" PROVE hash' = desk'[r].value
  BY <1>2 DEF PasswordInv
<1>3. ASSUME \A r \in Request : desk'[r].at # "record" PROVE hash' = record'
  BY <1>3 DEF PasswordInv
<1>. QED BY <1>1, <1>2, <1>3 DEF PasswordInv

(* No handler is in the way of another when none is on its way. *)
LEMMA PasswordIdle ==
  ASSUME hash = record, \A r \in Request : desk[r].at = "idle"
  PROVE  PasswordInv
<1>1. \A r \in Request : ~Busy(r) /\ desk[r].at # "record"
  BY DEF Busy
<1>. QED BY <1>1 DEF PasswordInv

(* The desk begins with what is in its file. *)
LEMMA DeskStarts == Setup!Init => DeskInv
<1> SUFFICES ASSUME Setup!Init PROVE DeskInv
  OBVIOUS
<1> USE NoReqTyped, HelperAssumption, ConsoleAssumption DEF Setup!Init
<1>1. Setup!TypeOK
  <2>1. Setup!Empty \in Setup!File /\ 0 \in 0..MaxChanges /\ 0 \in 0..MaxSessions /\ 0 \in 0..MaxFaults
    BY DEF Setup!File, Setup!Empty
  <2>2. desk \in [Request -> Setup!ReqState]
    OBVIOUS
  <2>3. hash \in 0..MaxChanges /\ record \in 0..MaxChanges /\ file \in Setup!File /\ torn \in BOOLEAN
    BY <2>1
  <2>4. limit \in 0..MaxChanges /\ level \in 0..MaxChanges
    BY <2>1
  <2>5. minted \in 0..MaxSessions /\ logins \subseteq 1..minted /\ cookie \in [Browser -> 0..minted]
    BY <2>1
  <2>6. changes \in 0..MaxChanges /\ failures \in 0..MaxFaults /\ saved \in 0..MaxChanges
    BY <2>1
  <2> QED BY <2>2, <2>3, <2>4, <2>5, <2>6 DEF Setup!TypeOK
<1>2. \A r \in Request : desk[r] = Setup!NoReq
  OBVIOUS
<1>3. Placed /\ Noted
  BY <1>2 DEF Placed, Noted, Changing
<1>4. PasswordInv
  BY <1>2, PasswordIdle
<1>5. SettingsInv
  BY <1>2 DEF SettingsInv, Busy
<1>. QED BY <1>1, <1>3, <1>4, <1>5 DEF DeskInv

(* A handler starts. *)
LEMMA BeginKept ==
  ASSUME DeskInv, NEW r \in Request, NEW b \in Browser,
         NEW kind \in {"operation", "logging", "change", "first_use"}, NEW place \in {"read", "hash"},
         NEW value \in 0..(changes + 1), Setup!Begin(r, b, kind, place, value),
         place = "hash" => kind \in Changing /\ (kind = "first_use" => value # 0),
         UNCHANGED <<hash, record, file, torn, logins, cookie, minted, failures, saved>>,
         limit' \in {limit, changes + 1}, level' \in {level, changes + 1}
  PROVE  DeskInv'
<1> USE DEF DeskInv
<1> DEFINE d == [Setup!NoReq EXCEPT !.at = place, !.do = kind, !.by = b, !.value = value]
<1>1. /\ desk' = [desk EXCEPT ![r] = d] /\ desk[r].at = "idle"
      /\ changes \in 0..MaxChanges /\ changes < MaxChanges /\ changes' = changes + 1
  BY DEF Setup!Begin, Setup!TypeOK
<1>2. value \in 0..MaxChanges /\ changes + 1 \in 0..MaxChanges
  BY <1>1, HelperAssumption
<1>3. /\ d \in Setup!ReqState /\ d.at = place /\ d.do = kind /\ d.by = b /\ d.value = value /\ d.old = {}
  BY <1>2, NoReqTyped DEF Setup!ReqState, Setup!Places, Setup!Kinds
<1> HIDE DEF d
<1>4. /\ desk' \in [Request -> Setup!ReqState] /\ desk'[r] = d
      /\ \A q \in Request \ {r} : desk'[q] = desk[q]
  BY <1>1, <1>3 DEF Setup!TypeOK
<1>5. /\ overlap' \subseteq {"settings", "password"} /\ overlap \subseteq overlap'
      /\ \A q \in Request : Busy(q) => "settings" \in overlap'
      /\ \A q \in Request : Busy(q) /\ desk[q].do \in Changing /\ kind \in Changing => "password" \in overlap'
  BY DEF Setup!TypeOK, Setup!Begin, Setup!Touches, Busy, Changing
<1>6. Setup!TypeOK'
  BY <1>1, <1>2, <1>4, <1>5 DEF Setup!TypeOK
<1>7. Placed'
  BY <1>3, <1>4 DEF Placed, Changing
<1>8. Noted'
  BY <1>3, <1>4 DEF Noted
<1>9. PasswordInv'
  BY <1>1, <1>3, <1>4, <1>5 DEF PasswordInv, Busy
<1>10. SettingsInv'
  <2> SUFFICES ASSUME "settings" \notin overlap' PROVE SettingsInv'
    BY DEF SettingsInv
  <2>1. \A q \in Request : ~Busy(q)
    BY <1>5
  <2> QED BY <1>1, <1>3, <1>4, <1>5, <2>1 DEF SettingsInv, Busy
<1>. QED BY <1>6, <1>7, <1>8, <1>9, <1>10

(* A handler that changes something begins. *)
LEMMA PutKept ==
  ASSUME DeskInv, NEW r \in Request, NEW b \in Browser,
         \/ Setup!PutOperation(r, b) \/ Setup!PutLogging(r, b)
         \/ \E value \in {0, changes + 1} : Setup!PutUiPassword(r, b, value) \/ Setup!FirstUse(r, b, value)
  PROVE  DeskInv'
<1> USE DEF Setup!password, Setup!settings, Setup!logins
<1>0. changes \in Nat /\ changes + 1 \in 0..(changes + 1) /\ 0 \in 0..(changes + 1)
  BY HelperAssumption DEF DeskInv, Setup!TypeOK
<1>1. CASE Setup!PutOperation(r, b)
  BY <1>0, <1>1, BeginKept DEF Setup!PutOperation
<1>2. CASE Setup!PutLogging(r, b)
  BY <1>0, <1>2, BeginKept DEF Setup!PutLogging
<1>3. ASSUME NEW value \in {0, changes + 1}, Setup!PutUiPassword(r, b, value) PROVE DeskInv'
  <2>1. (IF value = 0 /\ ~Setup!Required THEN "read" ELSE "hash") \in {"read", "hash"}
    OBVIOUS
  <2> QED BY <1>0, <1>3, <2>1, BeginKept DEF Setup!PutUiPassword, Changing
<1>4. ASSUME NEW value \in {0, changes + 1}, Setup!FirstUse(r, b, value) PROVE DeskInv'
  <2>1. CASE value = 0
    BY <1>0, <1>4, <2>1, BeginKept DEF Setup!FirstUse, Changing
  <2>2. CASE value # 0
    BY <1>0, <1>4, <2>2, BeginKept DEF Setup!FirstUse, Changing
  <2> QED BY <2>1, <2>2
<1>. QED BY <1>1, <1>2, <1>3, <1>4

(* A password takes the place of another. *)
LEMMA HashKept ==
  ASSUME DeskInv, NEW r \in Request, Setup!ReplaceHash(r)
  PROVE  DeskInv'
<1> USE DEF DeskInv, Setup!ReplaceHash, Setup!settings, Setup!logins
<1>1. /\ desk' \in [Request -> Setup!ReqState]
      /\ desk'[r].at = "record" /\ desk'[r].do = desk[r].do /\ desk'[r].by = desk[r].by
      /\ desk'[r].value = desk[r].value /\ desk'[r].data = desk[r].data /\ desk'[r].old = desk[r].old
      /\ \A q \in Request \ {r} : desk'[q] = desk[q]
  BY GoesTo DEF Setup!TypeOK, Setup!Places
<1>2. Setup!TypeOK'
  BY <1>1 DEF Setup!TypeOK, Setup!ReqState
<1>3. Placed' /\ Noted'
  BY <1>1 DEF Placed, Noted
<1>4. PasswordInv'
  BY <1>1 DEF Placed, PasswordInv, Busy
<1>5. SettingsInv'
  BY <1>1 DEF SettingsInv, Busy
<1>. QED BY <1>2, <1>3, <1>4, <1>5

(* The new password is in force. *)
LEMMA RecordKept ==
  ASSUME DeskInv, NEW r \in Request, Setup!SetRecord(r)
  PROVE  DeskInv'
<1> USE DEF DeskInv, Setup!SetRecord, Setup!settings, Setup!logins
<1> DEFINE place == IF desk[r].do = "change" THEN "read" ELSE "logout"
           d == [desk[r] EXCEPT !.old = logins, !.at = place]
<1>0. logins \in SUBSET (1..minted) /\ logins \in SUBSET (1..MaxSessions)
  BY ConsoleAssumption DEF Setup!TypeOK
<1>1. /\ d \in Setup!ReqState /\ d.at = place /\ d.do = desk[r].do /\ d.by = desk[r].by
      /\ d.value = desk[r].value /\ d.data = desk[r].data /\ d.old = logins
  <2>1. desk[r] \in Setup!ReqState
    BY DEF Setup!TypeOK
  <2>3. d.at = place /\ d.old = logins
    BY <2>1 DEF Setup!ReqState
  <2>4. d.do = desk[r].do /\ d.by = desk[r].by /\ d.value = desk[r].value /\ d.data = desk[r].data
    BY <2>1 DEF Setup!ReqState
  <2>5. d \in Setup!ReqState
    BY <1>0, <2>1 DEF Setup!ReqState, Setup!Places
  <2> QED BY <2>3, <2>4, <2>5
<1>2. desk' = [desk EXCEPT ![r] = d]
  OBVIOUS
<1> HIDE DEF d
<1>3. /\ desk' \in [Request -> Setup!ReqState] /\ desk'[r] = d
      /\ \A q \in Request \ {r} : desk'[q] = desk[q]
  BY <1>1, <1>2 DEF Setup!TypeOK
<1>4. Setup!TypeOK'
  BY <1>3 DEF Setup!TypeOK, Setup!ReqState
<1>5. Placed'
  BY <1>1, <1>3 DEF Placed, Changing
<1>8. Noted'
  <2>1. place \notin {"truncate", "store"} /\ (desk[r].do = "first_use" => place = "logout")
    OBVIOUS
  <2> QED BY <1>0, <1>1, <1>3, <2>1 DEF Noted
<1>6. PasswordInv'
  BY <1>1, <1>3 DEF Placed, PasswordInv, Busy
<1>7. SettingsInv'
  BY <1>1, <1>3 DEF SettingsInv, Busy
<1>. QED BY <1>4, <1>5, <1>6, <1>7, <1>8

(* The settings file is read, *)
LEMMA ReadKept ==
  ASSUME DeskInv, NEW r \in Request, Setup!ReadSettings(r)
  PROVE  DeskInv'
<1> USE DEF DeskInv, Setup!settings, Setup!password, Setup!logins
<1> DEFINE read == IF torn THEN Setup!Empty ELSE file
           data == CASE desk[r].do = "operation" -> [read EXCEPT !.limit = desk[r].value]
                     [] desk[r].do = "logging" -> [read EXCEPT !.level = desk[r].value]
                     [] OTHER -> [read EXCEPT !.prompt = TRUE]
           d == [desk[r] EXCEPT !.at = "truncate", !.data = data]
<1>0. read \in Setup!File /\ desk[r].value \in 0..MaxChanges
  BY HelperAssumption DEF Setup!TypeOK, Setup!File, Setup!Empty, Setup!ReqState
<1> HIDE DEF read
<1>1. /\ data \in Setup!File
      /\ data.limit = IF desk[r].do = "operation" THEN desk[r].value ELSE read.limit
  BY <1>0 DEF Setup!File
<1>2. desk' = [desk EXCEPT ![r] = d] /\ desk[r].at = "read"
  BY DEF Setup!ReadSettings, read
<1> HIDE DEF data
<1>3. /\ d \in Setup!ReqState /\ d.at = "truncate" /\ d.do = desk[r].do /\ d.by = desk[r].by
      /\ d.value = desk[r].value /\ d.data = data /\ d.old = desk[r].old
  BY <1>1 DEF Setup!TypeOK, Setup!ReqState, Setup!Places
<1> HIDE DEF d
<1>4. /\ desk' \in [Request -> Setup!ReqState] /\ desk'[r] = d
      /\ \A q \in Request \ {r} : desk'[q] = desk[q]
  BY <1>2, <1>3 DEF Setup!TypeOK
<1> USE DEF Setup!ReadSettings
<1>5. Setup!TypeOK'
  BY <1>4 DEF Setup!TypeOK
<1>6. Placed' /\ Noted'
  BY <1>2, <1>3, <1>4 DEF Placed, Noted
<1>7. PasswordInv'
  BY <1>2, <1>3, <1>4 DEF PasswordInv, Busy
<1>8. SettingsInv'
  <2> SUFFICES ASSUME "settings" \notin overlap PROVE SettingsInv'
    BY DEF SettingsInv
  <2>1. Busy(r) /\ \A q \in Request \ {r} : ~Busy(q)
    BY <1>2 DEF SettingsInv, Busy
  <2>2. saved # 0 => ~torn
    BY <1>2, <2>1 DEF SettingsInv, Busy
  <2>3. saved # 0 => read.limit = file.limit
    BY <2>2 DEF read
  <2> QED BY <1>1, <1>2, <1>3, <1>4, <2>1, <2>2, <2>3 DEF SettingsInv, Busy
<1>. QED BY <1>5, <1>6, <1>7, <1>8

(* A handler is done with the settings file. *)
LEMMA WriteEnds ==
  ASSUME DeskInv, NEW r \in Request, desk[r].at \in {"truncate", "store"}, Setup!AfterWrite(r),
         UNCHANGED <<hash, record, limit, level, changes, overlap>>, failures' \in 0..MaxFaults,
         file' \in Setup!File, torn' \in BOOLEAN, saved' \in 0..MaxChanges,
         "settings" \notin overlap /\ saved' # 0 => ~torn' /\ file'.limit = saved'
  PROVE  DeskInv'
<1> USE DEF DeskInv
<1> DEFINE place == IF desk[r].do = "change" THEN "logout" ELSE "idle"
<1>1. /\ desk' \in [Request -> Setup!ReqState]
      /\ desk'[r].at = place /\ desk'[r].do = desk[r].do /\ desk'[r].by = desk[r].by
      /\ desk'[r].value = desk[r].value /\ desk'[r].data = desk[r].data /\ desk'[r].old = desk[r].old
      /\ \A q \in Request \ {r} : desk'[q] = desk[q]
  BY GoesTo DEF Setup!AfterWrite, Setup!TypeOK, Setup!Places
<1>2. LoginsStep
  <2>1. desk[r].by \in Browser
    BY DEF Setup!TypeOK, Setup!ReqState
  <2> QED BY <2>1, LoginsMint, LoginsSame DEF Setup!AfterWrite
<1>3. Setup!TypeOK'
  BY <1>1, <1>2, LoginsTyped DEF Setup!TypeOK
<1>4. Placed'
  BY <1>1 DEF Placed, Changing
<1>5. Noted'
  <2>1. ASSUME NEW q \in Request
        PROVE  /\ desk'[q].old \subseteq 1..minted'
               /\ desk'[q].do = "first_use" /\ desk'[q].at \in {"read", "truncate", "store"} =>
                    desk'[q].old \cap logins' \subseteq {cookie'[desk'[q].by]}
    <3>1. CASE q = r
      BY <1>1, <1>2, <3>1, ConsoleAssumption DEF Setup!TypeOK, LoginsStep, Noted
    <3>2. CASE q # r
      BY <1>1, <1>2, <3>2, NotedKept
    <3> QED BY <3>1, <3>2
  <2> QED BY <2>1 DEF Noted
<1>6. PasswordInv'
  <2>1. /\ \A q \in Request : desk'[q].at = "record" => desk[q].at = "record" /\ desk'[q] = desk[q]
        /\ \A q \in Request : desk[q].at = "record" => desk'[q].at = "record"
        /\ \A q \in Request : Busy(q)' => Busy(q)
        /\ \A q \in Request : desk'[q].do = desk[q].do /\ desk'[q].value = desk[q].value
    BY <1>1 DEF Busy
  <2> QED BY <2>1, PasswordSame
<1>7. SettingsInv'
  BY <1>1 DEF SettingsInv, Busy
<1>. QED BY <1>3, <1>4, <1>5, <1>6, <1>7

(* emptied, or not opened, *)
LEMMA TruncateKept ==
  ASSUME DeskInv, NEW r \in Request, Setup!Truncate(r)
  PROVE  DeskInv'
<1> USE DEF DeskInv, Setup!settings, Setup!password, Setup!logins
<1>0. /\ desk[r].at = "truncate" /\ Busy(r) /\ desk[r].by \in Browser
      /\ UNCHANGED <<hash, record, file, limit, level, changes, saved, overlap>>
  BY DEF Setup!Truncate, Setup!TypeOK, Setup!ReqState, Busy
<1>1. CASE torn' = TRUE /\ Setup!Goto(r, "store") /\ UNCHANGED <<logins, cookie, minted, failures>>
  <2>1. /\ desk' \in [Request -> Setup!ReqState]
        /\ desk'[r].at = "store" /\ desk'[r].do = desk[r].do /\ desk'[r].by = desk[r].by
        /\ desk'[r].value = desk[r].value /\ desk'[r].data = desk[r].data /\ desk'[r].old = desk[r].old
        /\ \A q \in Request \ {r} : desk'[q] = desk[q]
    BY <1>1, GoesTo DEF Setup!TypeOK, Setup!Places
  <2>2. Setup!TypeOK'
    BY <1>0, <1>1, <2>1 DEF Setup!TypeOK
  <2>3. Placed' /\ Noted'
    BY <1>0, <1>1, <2>1 DEF Placed, Noted
  <2>4. PasswordInv' /\ SettingsInv'
    BY <1>0, <1>1, <2>1 DEF PasswordInv, SettingsInv, Busy
  <2> QED BY <2>2, <2>3, <2>4
<1>2. CASE failures < MaxFaults /\ failures' = failures + 1 /\ Setup!AfterWrite(r) /\ UNCHANGED torn
  <2>1. failures' \in 0..MaxFaults
    BY <1>2, ConsoleAssumption DEF Setup!TypeOK
  <2>2. file' \in Setup!File /\ saved' \in 0..MaxChanges
    BY <1>0 DEF Setup!TypeOK
  <2>3. "settings" \notin overlap /\ saved' # 0 => ~torn' /\ file'.limit = saved'
    BY <1>0, <1>2 DEF SettingsInv, Busy
  <2> QED BY <1>0, <1>2, <2>1, <2>2, <2>3, WriteEnds DEF Setup!TypeOK
<1>. QED BY <1>1, <1>2 DEF Setup!Truncate

(* and written. *)
LEMMA StoreKept ==
  ASSUME DeskInv, NEW r \in Request, Setup!Store(r)
  PROVE  DeskInv'
<1> USE DEF DeskInv, Setup!password, Setup!Store
<1>1. file' \in Setup!File /\ saved' \in 0..MaxChanges
  BY DEF Setup!TypeOK, Setup!ReqState
<1>2. "settings" \notin overlap /\ saved' # 0 => ~torn' /\ file'.limit = saved'
  BY DEF SettingsInv, Busy
<1>3. failures' \in 0..MaxFaults /\ torn' \in BOOLEAN
  BY DEF Setup!TypeOK
<1>. QED BY <1>1, <1>2, <1>3, WriteEnds DEF Setup!TypeOK

(* A write that fails leaves no limit that was saved. *)
LEMMA StoreFailsKept ==
  ASSUME DeskInv, NEW r \in Request, Setup!StoreFails(r)
  PROVE  DeskInv'
<1> USE DEF DeskInv, Setup!password, Setup!settings, Setup!StoreFails
<1>1. file' \in Setup!File /\ torn' \in BOOLEAN /\ saved' \in 0..MaxChanges /\ saved' = 0
  BY HelperAssumption DEF Setup!TypeOK
<1>2. failures' \in 0..MaxFaults
  BY ConsoleAssumption DEF Setup!TypeOK
<1>. QED BY <1>1, <1>2, WriteEnds

(* The others are logged out. *)
LEMMA LogoutOthersKept ==
  ASSUME DeskInv, NEW r \in Request, Setup!LogoutOthers(r)
  PROVE  DeskInv'
<1> USE DEF DeskInv, Setup!LogoutOthers, Setup!settings, Setup!password
<1> DEFINE place == IF desk[r].do = "change" THEN "idle" ELSE "read"
<1>1. /\ desk' \in [Request -> Setup!ReqState]
      /\ desk'[r].at = place /\ desk'[r].do = desk[r].do /\ desk'[r].by = desk[r].by
      /\ desk'[r].value = desk[r].value /\ desk'[r].data = desk[r].data /\ desk'[r].old = desk[r].old
      /\ \A q \in Request \ {r} : desk'[q] = desk[q]
  BY GoesTo DEF Setup!TypeOK, Setup!Places
<1>2. Setup!TypeOK'
  BY <1>1 DEF Setup!TypeOK
<1>3. Placed' /\ Noted'
  BY <1>1 DEF Placed, Noted
<1>4. /\ \A q \in Request : desk'[q].at \in {"record", "truncate", "store"} =>
           desk[q].at = desk'[q].at /\ desk'[q] = desk[q]
      /\ \A q \in Request : desk[q].at \in {"record", "store"} => desk'[q].at = desk[q].at
      /\ \A q \in Request : Busy(q)' => Busy(q)
      /\ \A q \in Request : desk'[q].do = desk[q].do /\ desk'[q].value = desk[q].value
  BY <1>1 DEF Busy
<1>5. PasswordInv'
  BY <1>4, PasswordSame
<1>6. SettingsInv'
  BY <1>4 DEF SettingsInv
<1>. QED BY <1>2, <1>3, <1>5, <1>6

(* Sessions come and go beside the handlers of settings. *)
LEMMA OthersKept ==
  ASSUME DeskInv, LoginsStep, NEW r, desk' \in [Request -> Setup!ReqState],
         \A q \in Request \ {r} : desk'[q] = desk[q],
         desk'[r] = desk[r] \/ (~Busy(r) /\ desk'[r].at \in {"idle", "provider"} /\ desk'[r].old = {}),
         UNCHANGED <<hash, record, file, torn, limit, level, changes, failures, saved, overlap>>
  PROVE  DeskInv'
<1> USE DEF DeskInv
<1>1. Setup!TypeOK'
  BY LoginsTyped DEF Setup!TypeOK
<1>2. Placed'
  BY DEF Placed
<1>3. Noted'
  <2>1. ASSUME NEW q \in Request
        PROVE  /\ desk'[q].old \subseteq 1..minted'
               /\ desk'[q].do = "first_use" /\ desk'[q].at \in {"read", "truncate", "store"} =>
                    desk'[q].old \cap logins' \subseteq {cookie'[desk'[q].by]}
    <3>1. CASE desk'[q] = desk[q]
      BY <3>1, NotedKept
    <3>2. CASE desk'[q] # desk[q]
      BY <3>2
    <3> QED BY <3>1, <3>2
  <2> QED BY <2>1 DEF Noted
<1>4. PasswordInv' /\ SettingsInv'
  BY DEF PasswordInv, SettingsInv, Busy
<1>. QED BY <1>1, <1>2, <1>3, <1>4

(* A change of the logins alone *)
LEMMA LoginsKept ==
  ASSUME DeskInv, NEW b \in Browser, Setup!Unlock(b) \/ Setup!Logout(b)
  PROVE  DeskInv'
<1> USE DEF Setup!settings, Setup!password
<1>1. UNCHANGED <<desk, hash, record, file, torn, limit, level, changes, failures, saved, overlap>>
  BY DEF Setup!Unlock, Setup!Logout
<1>2. LoginsStep
  <2>1. CASE Setup!Unlock(b)
    BY <2>1, LoginsMint DEF Setup!Unlock, DeskInv
  <2>2. CASE Setup!Logout(b)
    BY <2>2, ConsoleAssumption DEF Setup!Logout, Setup!Known, DeskInv, Setup!TypeOK, LoginsStep
  <2> QED BY <2>1, <2>2
<1>3. desk' \in [Request -> Setup!ReqState]
  BY <1>1 DEF DeskInv, Setup!TypeOK
<1>. QED BY <1>1, <1>2, <1>3, OthersKept

(* A log-in by the password *)
LEMMA LoginKept ==
  ASSUME DeskInv, NEW r \in Request,
         Setup!LoginDone(r) \/ \E b \in Browser : Setup!Login(r, b)
  PROVE  DeskInv'
<1> USE DEF Setup!settings, Setup!password, Setup!logins
<1>1. ASSUME NEW b \in Browser, Setup!Login(r, b) PROVE DeskInv'
  <2> DEFINE d == [Setup!NoReq EXCEPT !.at = "provider", !.do = "login", !.by = b]
  <2>1. d \in Setup!ReqState /\ d.at = "provider" /\ d.old = {}
    BY NoReqTyped DEF Setup!ReqState, Setup!Places, Setup!Kinds
  <2>2. desk' = [desk EXCEPT ![r] = d] /\ desk[r].at = "idle"
    BY <1>1 DEF Setup!Login
  <2> HIDE DEF d
  <2>3. /\ desk' \in [Request -> Setup!ReqState] /\ desk'[r] = d
        /\ \A q \in Request \ {r} : desk'[q] = desk[q]
    BY <2>1, <2>2 DEF DeskInv, Setup!TypeOK
  <2>4. LoginsStep
    BY <1>1, LoginsSame DEF Setup!Login, DeskInv
  <2> QED BY <1>1, <2>1, <2>2, <2>3, <2>4, OthersKept DEF Setup!Login, Busy
<1>2. CASE Setup!LoginDone(r)
  <2>1. desk[r].at = "provider" /\ Setup!Goto(r, "idle") /\ desk[r].by \in Browser
    BY <1>2 DEF Setup!LoginDone, DeskInv, Setup!TypeOK, Setup!ReqState
  <2>2. /\ desk' \in [Request -> Setup!ReqState] /\ desk'[r].at = "idle" /\ desk'[r].old = desk[r].old
        /\ \A q \in Request \ {r} : desk'[q] = desk[q]
    BY <2>1, GoesTo DEF DeskInv, Setup!TypeOK, Setup!Places
  <2>3. desk[r].old = {}
    BY <2>1 DEF DeskInv, Placed
  <2>4. LoginsStep
    <3>1. CASE UNCHANGED Setup!logins
      BY <3>1, LoginsSame DEF DeskInv
    <3>2. CASE minted' = minted + 1
      BY <1>2, <2>1, <3>2, ConsoleAssumption DEF Setup!LoginDone, DeskInv, Setup!TypeOK, LoginsStep
    <3> QED BY <1>2, <3>1, <3>2 DEF Setup!LoginDone
  <2> QED BY <1>2, <2>1, <2>2, <2>3, <2>4, OthersKept DEF Setup!LoginDone, Busy
<1>. QED BY <1>1, <1>2

(* The service restarts: what is cut off in the write counts as overlapped. *)
LEMMA DeskRestartKept == ASSUME DeskInv, Setup!Restart PROVE DeskInv'
<1> USE NoReqTyped DEF DeskInv, Setup!Restart, Setup!settings
<1>1. Setup!TypeOK'
  <2>1. failures' \in 0..MaxFaults
    BY ConsoleAssumption DEF Setup!TypeOK
  <2>2. limit' \in 0..MaxChanges /\ level' \in 0..MaxChanges
    BY HelperAssumption DEF Setup!TypeOK, Setup!File
  <2>3. overlap' \subseteq {"settings", "password"}
    BY DEF Setup!TypeOK
  <2>4. desk' \in [Request -> Setup!ReqState] /\ logins' \subseteq 1..minted'
    OBVIOUS
  <2> QED BY <2>1, <2>2, <2>3, <2>4 DEF Setup!TypeOK
<1>2. Placed' /\ Noted'
  BY DEF Placed, Noted, Changing
<1>3. \A r \in Request : desk'[r] = Setup!NoReq
  OBVIOUS
<1>4. PasswordInv'
  <2>1. \A r \in Request : ~Busy(r)' /\ desk'[r].at # "record"
    BY <1>3 DEF Busy
  <2> QED BY <2>1 DEF PasswordInv
<1>5. SettingsInv'
  <2> SUFFICES ASSUME "settings" \notin overlap' PROVE SettingsInv'
    BY DEF SettingsInv
  <2>1. "settings" \notin overlap /\ \A r \in Request : desk[r].at # "store"
    OBVIOUS
  <2> QED BY <1>3, <2>1 DEF SettingsInv, Busy
<1>. QED BY <1>1, <1>2, <1>4, <1>5

(* Every step keeps the desk sound. *)
LEMMA DeskKept ==
  ASSUME DeskInv, [Setup!Next]_deskVars
  PROVE  DeskInv'
<1>1. CASE UNCHANGED deskVars
  BY <1>1 DEF deskVars, DeskInv, Setup!TypeOK, Placed, Noted, PasswordInv, SettingsInv, Busy
<1>. QED
  BY <1>1, LoginsKept, HashKept, RecordKept, ReadKept, TruncateKept, StoreKept, StoreFailsKept, LogoutOthersKept, LoginKept,
     PutKept, DeskRestartKept DEF Setup!Next

(* When a handler of a password ends, the sessions it has noted are gone   *)
(* but its browser's.                                                      *)
LEMMA LogsOthersOut ==
  ASSUME DeskInv, [Setup!Next]_deskVars, NEW r \in Request,
         desk[r].at # "idle", desk'[r].at = "idle", desk'[r].do # "none"
  PROVE  desk[r].old \cap logins' \subseteq {cookie[desk[r].by]}
<1> USE DEF DeskInv
<1>1. ASSUME NEW q \in Request, Setup!LogoutOthers(q) PROVE desk[r].old \cap logins' \subseteq {cookie[desk[r].by]}
  <2>1. q = r
    BY <1>1, GoesTo DEF Setup!LogoutOthers, Setup!TypeOK, Setup!Places
  <2> QED BY <1>1, <2>1 DEF Setup!LogoutOthers
<1>2. ASSUME NEW q \in Request, Setup!LoginDone(q) PROVE desk[r].old \cap logins' \subseteq {cookie[desk[r].by]}
  <2>1. q = r
    BY <1>2, GoesTo DEF Setup!LoginDone, Setup!TypeOK, Setup!Places
  <2> QED BY <1>2, <2>1 DEF Setup!LoginDone, Placed
<1>3. ASSUME NEW q \in Request, Setup!Truncate(q) \/ Setup!Store(q) \/ Setup!StoreFails(q)
      PROVE  desk[r].old \cap logins' \subseteq {cookie[desk[r].by]}
  <2>1. desk[q].at \in {"truncate", "store"}
    BY <1>3 DEF Setup!Truncate, Setup!Store, Setup!StoreFails
  <2>2. CASE torn' = TRUE /\ Setup!Goto(q, "store")
    BY <2>2, GoesTo DEF Setup!TypeOK, Setup!Places
  <2>3. CASE Setup!AfterWrite(q)
    <3>1. /\ q = r /\ desk[r].do # "change"
      BY <2>3, GoesTo DEF Setup!AfterWrite, Setup!TypeOK, Setup!Places
    <3>2. LoginsStep
      BY <2>3, <3>1, LoginsMint, LoginsSame DEF Setup!AfterWrite, Setup!TypeOK, Setup!ReqState
    <3>3. desk[r].old \cap logins' \subseteq desk[r].old \cap logins
      BY <3>2, ConsoleAssumption DEF LoginsStep, Noted, Setup!TypeOK
    <3> QED BY <2>1, <3>1, <3>3 DEF Placed, Noted, Changing
  <2> QED BY <1>3, <2>2, <2>3 DEF Setup!Truncate, Setup!Store, Setup!StoreFails
<1>4. ~Setup!Restart
  BY NoReqTyped DEF Setup!Restart
<1>5. ASSUME NEW q \in Request, Setup!ReplaceHash(q) \/ Setup!SetRecord(q) \/ Setup!ReadSettings(q) PROVE FALSE
  BY <1>5, GoesTo DEF Setup!ReplaceHash, Setup!SetRecord, Setup!ReadSettings, Setup!TypeOK, Setup!Places, Setup!ReqState
<1>6. ASSUME NEW q \in Request, NEW b \in Browser, NEW kind, NEW place \in {"read", "hash"}, NEW value,
             Setup!Begin(q, b, kind, place, value)
      PROVE  FALSE
  <2> DEFINE d == [Setup!NoReq EXCEPT !.at = place, !.do = kind, !.by = b, !.value = value]
  <2>1. d.at = place /\ desk' = [desk EXCEPT ![q] = d]
    BY <1>6, NoReqTyped DEF Setup!Begin, Setup!ReqState
  <2> HIDE DEF d
  <2> QED BY <2>1 DEF Setup!TypeOK
<1>7. ASSUME NEW q \in Request, NEW b \in Browser,
             \/ Setup!PutOperation(q, b) \/ Setup!PutLogging(q, b)
             \/ \E value \in {0, changes + 1} : Setup!PutUiPassword(q, b, value) \/ Setup!FirstUse(q, b, value)
      PROVE  FALSE
  BY <1>6, <1>7 DEF Setup!PutOperation, Setup!PutLogging, Setup!PutUiPassword, Setup!FirstUse
<1>8. ASSUME NEW q \in Request, NEW b \in Browser, Setup!Login(q, b) PROVE FALSE
  <2> DEFINE d == [Setup!NoReq EXCEPT !.at = "provider", !.do = "login", !.by = b]
  <2>1. d.at = "provider" /\ desk' = [desk EXCEPT ![q] = d]
    BY <1>8, NoReqTyped DEF Setup!Login, Setup!ReqState
  <2> HIDE DEF d
  <2> QED BY <2>1 DEF Setup!TypeOK
<1>. QED
  BY <1>1, <1>2, <1>3, <1>4, <1>5, <1>7, <1>8 DEF Setup!Next, Setup!Unlock, Setup!Logout, deskVars

(* A restart asks for no password only if one was being cleared. *)
LEMMA PasswordKept ==
  ASSUME DeskInv, Setup!Restart, "password" \notin overlap, Setup!Required, ~Setup!Required'
  PROVE  \E r \in Request : desk[r].do = "change" /\ desk[r].value = 0
<1>1. record # 0 /\ hash = 0
  BY DEF Setup!Required, Setup!Restart
<1>2. PICK r \in Request : desk[r].at = "record"
  BY <1>1 DEF DeskInv, PasswordInv
<1>. QED
  BY <1>1, <1>2 DEF DeskInv, PasswordInv, Placed, Changing

(* What was saved is what a restart finds. *)
LEMMA SavedFound == DeskInv => Setup!SavedIsFound
BY DEF DeskInv, SettingsInv, Setup!SavedIsFound

-----------------------------------------------------------------------------
(* The three side by side. *)

(* Each of the three runs as by itself. *)
LEMMA EachByItself ==
  HelperSpec => /\ Spec
                /\ Setup!Init /\ [][Setup!Next]_deskVars
                /\ Update!Init /\ [][Update!Next]_updateVars
<1>1. HelperInit => Init /\ Setup!Init /\ Update!Init
  BY DEF HelperInit
<1>2. [HelperNext]_<<part, vars, deskVars, updateVars>> =>
        [Next]_vars /\ [Setup!Next]_deskVars /\ [Update!Next]_updateVars
  BY DEF HelperNext
<1>. QED BY <1>1, <1>2, PTL DEF HelperSpec, Spec

(* The three side by side *)
LEMMA InvariantsHold == HelperSpec => [](ConsoleInv /\ DeskInv /\ UpdateInv)
<1>1. ConsoleInv /\ [Next]_vars => ConsoleInv'
  BY ConsoleKept
<1>2. DeskInv /\ [Setup!Next]_deskVars => DeskInv'
  BY DeskKept
<1>3. UpdateInv /\ [Update!Next]_updateVars => UpdateInv'
  BY UpdateKept
<1>. QED
  BY <1>1, <1>2, <1>3, ConsoleStarts, DeskStarts, UpdateStarts, EachByItself, PTL DEF Spec

(* A viewer that left is not counted, so that the sweep can close an idle  *)
(* console, and no SSH hop stays open without its bridge, however many     *)
(* bridges and consoles come, fail and go.                                 *)
THEOREM ConsolesAreHeld == HelperSpec => []ConsolesHeld
<1>1. ConsoleInv => ConsolesHeld
  BY DEF ConsoleInv, ConsolesHeld
<1>. QED BY <1>1, InvariantsHold, PTL

(* A console that is being made or is active leaves its key through close  *)
(* only, and a connection made elsewhere goes only for a request that      *)
(* agreed to replace it, however the requests overlap.                     *)
THEOREM OpensAgain == HelperSpec => ConsoleOpens
<1>1. ConsoleInv /\ [Next]_vars =>
        [\A k \in Key : Live(k) /\ sessions'[k] # sessions[k] => sessions'[k] = 0]_vars
  BY SessionReplaced
<1>2. ConsoleInv /\ [Next]_vars =>
        [\A r \in Request : Foreign \in conns \ conns' /\ req'[r] # req[r] => req[r].replace]_vars
  BY ForeignTaken
<1>. QED
  BY <1>1, <1>2, InvariantsHold, EachByItself, PTL DEF Spec, ConsoleOpens, OpenIsIdempotent, ForeignOnlyReplaced

(* The limit that was answered as saved is the one a restart finds, as     *)
(* long as handlers of settings do not overlap, and none fails or is cut   *)
(* off after it has emptied the file and before it has written it.         *)
THEOREM SettingsAreFound == HelperSpec => []SettingsFound
<1>1. DeskInv => SettingsFound
  BY SavedFound DEF DeskInv, SettingsFound
<1>. QED BY <1>1, InvariantsHold, PTL

(* A change of the password leaves no older session of another browser,    *)
(* a restart in the middle of it asks for the old or the new password, and *)
(* an update restarts the service only into what is checked out.           *)
THEOREM ChangesWhole == HelperSpec => ChangesAreWhole
<1>1. DeskInv /\ [Setup!Next]_deskVars =>
        [\A r \in Request : desk[r].at # "idle" /\ desk'[r].at = "idle" /\ desk'[r].do # "none" =>
           desk[r].old \cap logins' \subseteq {cookie[desk[r].by]}]_deskVars
  BY LogsOthersOut
<1>2. DeskInv /\ [Setup!Next]_deskVars =>
        [Setup!Restart /\ "password" \notin overlap /\ Setup!Required /\ ~Setup!Required' =>
           \E r \in Request : desk[r].do = "change" /\ desk[r].value = 0]_deskVars
  BY PasswordKept
<1>3. UpdateInv /\ [Update!Next]_updateVars => [running' # running => running' = src]_updateVars
  BY RestartsWhole
<1>. QED
  BY <1>1, <1>2, <1>3, InvariantsHold, EachByItself, PTL
  DEF ChangesAreWhole, Setup!OthersLoggedOut, Setup!PasswordSurvives, Update!RestartIsWhole,
      Setup!vars, Update!vars, deskVars, updateVars
=============================================================================
