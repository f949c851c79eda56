------------------------------- MODULE MCHelper -------------------------------
(* What the helper does beside its jobs, one part at a time: the consoles  *)
(* (Console), the logins and settings (Desk), its own update (Updater).    *)
(* The variables of the other two stay as they were.  The requests are     *)
(* alike.                                                                  *)
EXTENDS Console, TLC

CONSTANTS Browser, MaxChanges, MaxCommits

ASSUME HelperAssumption == Browser # {} /\ MaxChanges \in Nat

Alike == Permutations(Request)

VARIABLES
  part,
  hash, record, file, torn, limit, level, logins, cookie, minted, desk, changes, failures, saved,
  overlap,
  systemd, remote, fetched, src, venv, running, starter, script, jobs, mishaps

deskVars == <<hash, record, file, torn, limit, level, logins, cookie, minted, desk, changes,
              failures, saved, overlap>>
updateVars == <<systemd, remote, fetched, src, venv, running, starter, script, jobs, mishaps>>

Setup == INSTANCE Desk WITH sessions <- logins, req <- desk, faults <- failures
Update == INSTANCE Updater WITH Starter <- Request, faults <- mishaps

HelperInit ==
  /\ part \in {"console", "desk", "update"}
  /\ Init /\ Setup!Init /\ Update!Init /\ (systemd \/ part = "update")
HelperNext ==
  \/ part = "console" /\ Next /\ UNCHANGED <<part, deskVars, updateVars>>
  \/ part = "desk" /\ Setup!Next /\ UNCHANGED <<part, vars, updateVars>>
  \/ part = "update" /\ Update!Next /\ UNCHANGED <<part, vars, deskVars>>
HelperSpec == HelperInit /\ [][HelperNext]_<<part, vars, deskVars, updateVars>>

-----------------------------------------------------------------------------
(* A viewer that left is not counted, so that the sweep can close an idle  *)
(* console, and no SSH hop stays open without its bridge.                  *)
ConsolesHeld == TypeOK /\ NotOvercounted /\ HopsClosed

(* Opening a console again finds it, and a connection that was made        *)
(* elsewhere is only deleted by a request that agreed to replace it.       *)
ConsoleOpens == OpenIsIdempotent /\ ForeignOnlyReplaced

(* A setting that was answered as saved is in the file, unless saves       *)
(* overlapped or one broke off after it had emptied the file.              *)
SettingsFound == Setup!TypeOK /\ Setup!SavedIsFound

(* A change of the UI password logs out every other browser and is not     *)
(* undone by a restart; and the service restarts only into the version     *)
(* that is checked out.                                                    *)
ChangesAreWhole == Setup!OthersLoggedOut /\ Setup!PasswordSurvives /\ Update!RestartIsWhole
=============================================================================
