-------------------------------- MODULE Desk --------------------------------
(***************************************************************************)
(* What the login page and the Setup page change: the sessions of the      *)
(* browsers (api/routes_auth.py, auth.py), the optional UI password and    *)
(* its hash file (ui_password.py), and the operation and logging settings  *)
(* in the runtime settings file (runtime_settings.py, logging_config.py,   *)
(* api/routes_setup.py).  The handlers run in pool threads and interleave; *)
(* the settings file is read, merged and written without a lock.           *)
(***************************************************************************)
EXTENDS Naturals

CONSTANTS Request, Browser,
          MaxSessions,  \* bound on the sessions created
          MaxChanges,   \* bound on the changes of settings and password
          MaxFaults     \* bound on the failed saves and restarts

VARIABLES
  hash,      \* the hash file: which password; 0 is no file
  record,    \* UiPasswordStore._record
  file,      \* the runtime settings file
  torn,      \* write_text has emptied it and not yet written
  limit, level,  \* the settings of the process
  sessions,  \* SessionStore._sessions
  cookie,    \* the session each browser holds
  minted,    \* sessions created so far
  req,       \* the requests: place, browser, patch or password, data read, old sessions
  changes, faults,
  saved,     \* history: the limit last answered as persisted; 0 once a save broke off
  overlap    \* history: which handlers overlapped, or were cut off by a restart

vars == <<hash, record, file, torn, limit, level, sessions, cookie, minted, req, changes, faults, saved, overlap>>
password == <<hash, record>>
settings == <<file, torn>>
logins == <<sessions, cookie, minted>>

Values == 1..MaxChanges   \* limits, log levels and passwords; 0 is the default, or none
File == [limit : 0..MaxChanges, level : 0..MaxChanges, prompt : BOOLEAN]
Empty == [limit |-> 0, level |-> 0, prompt |-> FALSE]
NoReq == [at |-> "idle", do |-> "none", by |-> CHOOSE b \in Browser : TRUE, value |-> 0, data |-> Empty, old |-> {}]

Kinds == {"none", "operation", "logging", "change", "first_use", "login"}
Places == {"idle", "read", "truncate", "store", "hash", "record", "logout", "provider"}

ReqState == [at : Places, do : Kinds, by : Browser, value : 0..MaxChanges, data : File,
             old : SUBSET (1..MaxSessions)]

TypeOK ==
  /\ hash \in 0..MaxChanges /\ record \in 0..MaxChanges /\ file \in File /\ torn \in BOOLEAN
  /\ limit \in 0..MaxChanges /\ level \in 0..MaxChanges
  /\ minted \in 0..MaxSessions /\ sessions \subseteq 1..minted /\ cookie \in [Browser -> 0..minted]
  /\ req \in [Request -> ReqState]
  /\ changes \in 0..MaxChanges /\ faults \in 0..MaxFaults
  /\ saved \in 0..MaxChanges /\ overlap \subseteq {"settings", "password"}

Init ==
  /\ hash = 0 /\ record = 0 /\ file = Empty /\ torn = FALSE /\ limit = 0 /\ level = 0
  /\ sessions = {} /\ cookie = [b \in Browser |-> 0] /\ minted = 0
  /\ req = [r \in Request |-> NoReq] /\ changes = 0 /\ faults = 0 /\ saved = 0 /\ overlap = {}

-----------------------------------------------------------------------------
Required == record # 0
Known(b) == cookie[b] \in sessions        \* existing_session
SetupPending == ~Required /\ (torn \/ ~file.prompt)
Goto(r, place) == req' = [req EXCEPT ![r].at = place]
Touches(r) == IF req[r].do \in {"change", "first_use"} THEN {"settings", "password"} ELSE {"settings"}

(* A handler starts; history: it overlaps with those that are not done. *)
Begin(r, b, kind, place, value) ==
  /\ req[r].at = "idle" /\ changes < MaxChanges /\ changes' = changes + 1
  /\ req' = [req EXCEPT ![r] = [NoReq EXCEPT !.at = place, !.do = kind, !.by = b, !.value = value]]
  /\ LET others == {o \in Request : req[o].at \notin {"idle", "provider"}}
         mine == IF kind \in {"change", "first_use"} THEN {"settings", "password"} ELSE {"settings"}
     IN overlap' = overlap \cup UNION {mine \cap Touches(o) : o \in others}

(* put_operation: applied to the process, then merged into the file *)
PutOperation(r, b) ==
  /\ Known(b) /\ Begin(r, b, "operation", "read", changes + 1)
  /\ limit' = changes + 1
  /\ UNCHANGED <<password, settings, level, logins, faults, saved>>

(* put_logging, logging_config.update *)
PutLogging(r, b) ==
  /\ Known(b) /\ Begin(r, b, "logging", "read", changes + 1)
  /\ level' = changes + 1
  /\ UNCHANGED <<password, settings, limit, logins, faults, saved>>

(* put_ui_password: the current password is needed if there is one; value  *)
(* 0 clears it, which does nothing if there is none.                       *)
PutUiPassword(r, b, value) ==
  /\ Known(b)
  /\ Begin(r, b, "change", IF value = 0 /\ ~Required THEN "read" ELSE "hash", value)
  /\ UNCHANGED <<password, settings, limit, level, logins, faults, saved>>

(* first_use while setup_pending: value 0 goes on without a password. *)
FirstUse(r, b, value) ==
  /\ SetupPending
  /\ Begin(r, b, "first_use", IF value = 0 THEN "read" ELSE "hash", value)
  /\ UNCHANGED <<password, settings, limit, level, logins, faults, saved>>

(* Slip: the old file makes way before the new one is in place. *)
ReplaceHashSlip(r) ==
  /\ req[r].at = "hash"
  /\ hash' = IF hash # 0 THEN 0 ELSE req[r].value
  /\ Goto(r, IF hash # 0 /\ req[r].value # 0 THEN "hash" ELSE "record")
  /\ UNCHANGED <<record, settings, limit, level, logins, changes, faults, saved, overlap>>

(* set_password or clear, as far as the file: a temporary file takes its   *)
(* place at once, or it is unlinked.                                       *)
ReplaceHash(r) ==
  /\ req[r].at = "hash"
  /\ hash' = req[r].value
  /\ Goto(r, "record")
  /\ UNCHANGED <<record, settings, limit, level, logins, changes, faults, saved, overlap>>

(* Slip: a first use logs nobody out. *)
SetRecordSlip(r) ==
  /\ req[r].at = "record"
  /\ record' = req[r].value
  /\ req' = [req EXCEPT ![r].old = sessions, ![r].at = "read"]
  /\ UNCHANGED <<hash, settings, limit, level, logins, changes, faults, saved, overlap>>

(* _record; history: the sessions of before the change.  A change marks    *)
(* the prompt as done first, the first use logs the others out first.      *)
SetRecord(r) ==
  /\ req[r].at = "record"
  /\ record' = req[r].value
  /\ req' = [req EXCEPT ![r].old = sessions, ![r].at = IF req[r].do = "change" THEN "read" ELSE "logout"]
  /\ UNCHANGED <<hash, settings, limit, level, logins, changes, faults, saved, overlap>>

(* Slip: a handler that writes only its own keys. *)
ReadSettingsSlip(r) ==
  /\ req[r].at = "read"
  /\ req' = [req EXCEPT ![r].at = "truncate",
       ![r].data = CASE req[r].do = "operation" -> [Empty EXCEPT !.limit = req[r].value]
                     [] req[r].do = "logging" -> [Empty EXCEPT !.level = req[r].value]
                     [] OTHER -> [Empty EXCEPT !.prompt = TRUE]]
  /\ UNCHANGED <<password, settings, limit, level, logins, changes, faults, saved, overlap>>

(* write: read, and merge the patch in; a file that is being written reads *)
(* as none.                                                                *)
ReadSettings(r) ==
  /\ req[r].at = "read"
  /\ LET read == IF torn THEN Empty ELSE file IN
     req' = [req EXCEPT ![r].at = "truncate",
       ![r].data = CASE req[r].do = "operation" -> [read EXCEPT !.limit = req[r].value]
                     [] req[r].do = "logging" -> [read EXCEPT !.level = req[r].value]
                     [] OTHER -> [read EXCEPT !.prompt = TRUE]]
  /\ UNCHANGED <<password, settings, limit, level, logins, changes, faults, saved, overlap>>

(* the end of a handler: a browser without a session gets one after its    *)
(* first use                                                               *)
Mint(b) ==
  IF Known(b) THEN UNCHANGED logins
  ELSE /\ minted < MaxSessions /\ minted' = minted + 1
       /\ sessions' = sessions \cup {minted'} /\ cookie' = [cookie EXCEPT ![b] = minted']

AfterWrite(r) ==
  /\ Goto(r, IF req[r].do = "change" THEN "logout" ELSE "idle")
  /\ IF req[r].do = "first_use" THEN Mint(req[r].by) ELSE UNCHANGED logins

(* write_text: the file is emptied, or cannot be opened (a warning), *)
Truncate(r) ==
  /\ req[r].at = "truncate"
  /\ \/ torn' = TRUE /\ Goto(r, "store") /\ UNCHANGED <<logins, faults>>
     \/ faults < MaxFaults /\ faults' = faults + 1 /\ AfterWrite(r) /\ UNCHANGED torn
  /\ UNCHANGED <<password, file, limit, level, changes, saved, overlap>>

(* and written. *)
Store(r) ==
  /\ req[r].at = "store"
  /\ file' = req[r].data /\ torn' = FALSE
  /\ saved' = IF req[r].do = "operation" THEN req[r].value ELSE saved
  /\ AfterWrite(r)
  /\ UNCHANGED <<password, limit, level, changes, faults, overlap>>

(* OSError of the write, a full disk for one: the file stays emptied or    *)
(* cut short, whatever it held, and the handler goes on with a warning.    *)
StoreFails(r) ==
  /\ req[r].at = "store"
  /\ faults < MaxFaults /\ faults' = faults + 1
  /\ saved' = 0
  /\ AfterWrite(r)
  /\ UNCHANGED <<password, settings, limit, level, changes, overlap>>

(* logout_others *)
LogoutOthers(r) ==
  /\ req[r].at = "logout"
  /\ sessions' = sessions \cap {cookie[req[r].by]}
  /\ Goto(r, IF req[r].do = "change" THEN "idle" ELSE "read")
  /\ UNCHANGED <<password, settings, limit, level, cookie, minted, changes, faults, saved, overlap>>

(* anonymous, and unlock with the right password: a session unless the     *)
(* browser has one                                                         *)
Unlock(b) ==
  /\ ~Known(b) /\ Mint(b)
  /\ UNCHANGED <<password, settings, limit, level, req, changes, faults, saved, overlap>>

(* login, to any of the eight kinds of source: a protected page wants a    *)
(* session first; the provider is asked in a pool thread,                  *)
Login(r, b) ==
  /\ req[r].at = "idle" /\ (Required => Known(b))
  /\ req' = [req EXCEPT ![r] = [NoReq EXCEPT !.at = "provider", !.do = "login", !.by = b]]
  /\ UNCHANGED <<password, settings, limit, level, logins, changes, faults, saved, overlap>>

(* and refuses, or the browser's session is replaced. *)
LoginDone(r) ==
  /\ req[r].at = "provider" /\ Goto(r, "idle")
  /\ \/ UNCHANGED logins
     \/ /\ minted < MaxSessions /\ minted' = minted + 1
        /\ sessions' = (sessions \ {cookie[req[r].by]}) \cup {minted'}
        /\ cookie' = [cookie EXCEPT ![req[r].by] = minted']
  /\ UNCHANGED <<password, settings, limit, level, changes, faults, saved, overlap>>

(* logout, and the sweep of a session that expired *)
Logout(b) ==
  /\ Known(b) /\ sessions' = sessions \ {cookie[b]}
  /\ cookie' = [cookie EXCEPT ![b] = 0]
  /\ UNCHANGED <<password, settings, limit, level, minted, req, changes, faults, saved, overlap>>

(* The service restarts: UiPasswordStore.reload and the overrides.  A      *)
(* handler that is cut off counts as overlapped.                           *)
Restart ==
  /\ faults < MaxFaults /\ faults' = faults + 1
  /\ record' = hash
  /\ limit' = IF torn THEN 0 ELSE file.limit
  /\ level' = IF torn THEN 0 ELSE file.level
  /\ sessions' = {} /\ req' = [r \in Request |-> NoReq]
  /\ overlap' = overlap \cup (IF \E r \in Request : req[r].at = "store" THEN {"settings"} ELSE {})
  /\ UNCHANGED <<hash, settings, cookie, minted, changes, saved>>

Next ==
  \/ \E r \in Request : \/ ReplaceHash(r) \/ SetRecord(r) \/ ReadSettings(r) \/ Truncate(r) \/ Store(r)
                        \/ StoreFails(r) \/ LogoutOthers(r) \/ LoginDone(r)
                        \/ \E b \in Browser : \/ PutOperation(r, b) \/ PutLogging(r, b) \/ Login(r, b)
                                              \/ \E value \in {0, changes + 1} :
                                                   PutUiPassword(r, b, value) \/ FirstUse(r, b, value)
  \/ \E b \in Browser : Unlock(b) \/ Logout(b)
  \/ Restart

Spec == Init /\ [][Next]_vars

-----------------------------------------------------------------------------
(* When a change of the UI password ends, every session from before it is  *)
(* gone but the one of the browser that made it, whatever logins and other *)
(* changes come in between.                                                *)
OthersLoggedOut ==
  [][\A r \in Request : req[r].at # "idle" /\ req'[r].at = "idle" /\ req'[r].do # "none" =>
       req[r].old \cap sessions' \subseteq {cookie[req[r].by]}]_vars

(* "Only a missing file means the web UI is open": a restart at any moment *)
(* of a change asks for the old or the new password and never for none,    *)
(* unless it is being cleared.                                             *)
PasswordSurvives ==
  [][Restart /\ "password" \notin overlap /\ Required /\ ~Required' =>
       \E r \in Request : req[r].do = "change" /\ req[r].value = 0]_vars

(* "writers merge their own keys into it": the limit that was answered as  *)
(* persisted is the one a restart finds, whatever saves of other settings  *)
(* come after it and whichever of them cannot open the file, as long as    *)
(* the handlers did not overlap and none broke off after it had emptied    *)
(* the file.  After one that did, the next save of a limit is found again. *)
SavedIsFound ==
  ("settings" \notin overlap /\ saved # 0 /\ \A r \in Request : req[r].at # "store") => ~torn /\ file.limit = saved

(* The same without that restriction, which does not hold. *)
SavedIsFoundAlways ==
  (saved # 0 /\ \A r \in Request : req[r].at = "idle") => ~torn /\ file.limit = saved
=============================================================================
