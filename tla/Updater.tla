------------------------------- MODULE Updater -------------------------------
(***************************************************************************)
(* The self-update (updater.py): a script, run as a systemd unit of its    *)
(* own, fetches, resets, installs and restarts the service, each step only *)
(* after the one before it succeeded.  Requests look first and start the   *)
(* unit afterwards, in pool threads; without systemd the script is a plain *)
(* process and its restart fails.                                          *)
(***************************************************************************)
EXTENDS Naturals, FiniteSets

CONSTANTS Starter,   \* requests to update
          MaxCommits, MaxFaults

VARIABLES
  systemd,   \* systemd-run is available
  remote, fetched, src, venv, running,  \* commits: on the branch, fetched, checked out,
                                        \* installed, and that of the running service
  starter,   \* the requests: place, force, and the jobs that were active
  script,    \* the script each of them started: its next step
  jobs,      \* active migrations
  faults

vars == <<systemd, remote, fetched, src, venv, running, starter, script, jobs, faults>>
commits == <<remote, fetched, src, venv, running>>

TypeOK ==
  /\ systemd \in BOOLEAN /\ \A c \in {remote, fetched, src, venv, running} : c \in 1..MaxCommits
  /\ starter \in [Starter -> [at : {"idle", "status", "run"}, force : BOOLEAN, jobs : {0, 1}]]
  /\ script \in [Starter -> {"off", "fetch", "reset", "install", "restart"}]
  /\ jobs \in {0, 1} /\ faults \in 0..MaxFaults

Init ==
  /\ systemd \in BOOLEAN
  /\ remote = 1 /\ fetched = 1 /\ src = 1 /\ venv = 1 /\ running = 1
  /\ starter = [u \in Starter |-> [at |-> "idle", force |-> FALSE, jobs |-> 0]]
  /\ script = [u \in Starter |-> "off"] /\ jobs = 0 /\ faults = 0

-----------------------------------------------------------------------------
Running == \E u \in Starter : script[u] # "off"

Push ==
  /\ remote < MaxCommits /\ remote' = remote + 1
  /\ UNCHANGED <<systemd, fetched, src, venv, running, starter, script, jobs, faults>>

(* Migrations start and end. *)
JobsChange == jobs' = 1 - jobs /\ UNCHANGED <<systemd, commits, starter, script, faults>>

(* software_update counts the active jobs, *)
SoftwareUpdate(u, force) ==
  /\ starter[u].at = "idle" /\ script[u] = "off"
  /\ starter' = [starter EXCEPT ![u] = [at |-> "status", force |-> force, jobs |-> jobs]]
  /\ UNCHANGED <<systemd, commits, script, jobs, faults>>

(* start looks whether an update runs, or jobs did and it is not forced, *)
Status(u) ==
  /\ starter[u].at = "status"
  /\ starter' = [starter EXCEPT ![u].at =
       IF Running \/ (starter[u].jobs # 0 /\ ~starter[u].force) THEN "idle" ELSE "run"]
  /\ UNCHANGED <<systemd, commits, script, jobs, faults>>

(* Slip: every update gets a unit of its own. *)
StartSlip(u) ==
  /\ starter[u].at = "run"
  /\ script' = [script EXCEPT ![u] = "fetch"] /\ starter' = [starter EXCEPT ![u].at = "idle"]
  /\ UNCHANGED <<systemd, commits, jobs, faults>>

(* and starts the unit; systemd refuses a second one of that name. *)
Start(u) ==
  /\ starter[u].at = "run"
  /\ script' = IF systemd /\ Running THEN script ELSE [script EXCEPT ![u] = "fetch"]
  /\ starter' = [starter EXCEPT ![u].at = "idle"]
  /\ UNCHANGED <<systemd, commits, jobs, faults>>

NextStep(u, step) == script' = [script EXCEPT ![u] = step]

(* build_script: git fetch; checkout and reset; pip install; restart, which *)
(* aborts what the service does                                             *)
Fetch(u) ==
  /\ script[u] = "fetch" /\ fetched' = remote /\ NextStep(u, "reset")
  /\ UNCHANGED <<systemd, remote, src, venv, running, starter, jobs, faults>>
Reset(u) ==
  /\ script[u] = "reset" /\ src' = fetched /\ NextStep(u, "install")
  /\ UNCHANGED <<systemd, remote, fetched, venv, running, starter, jobs, faults>>
Install(u) ==
  /\ script[u] = "install" /\ venv' = src /\ NextStep(u, "restart")
  /\ UNCHANGED <<systemd, remote, fetched, src, running, starter, jobs, faults>>
RestartService(u) ==
  /\ script[u] = "restart" /\ systemd /\ running' = venv /\ jobs' = 0 /\ NextStep(u, "off")
  /\ starter' = [v \in Starter |-> [starter[v] EXCEPT !.at = "idle"]]
  /\ UNCHANGED <<systemd, remote, fetched, src, venv, faults>>

(* A step fails: UPDATE FAILED, and nothing after it runs. *)
StepFails(u) ==
  /\ script[u] # "off" /\ NextStep(u, "off")
  /\ IF script[u] = "restart" /\ ~systemd THEN UNCHANGED faults ELSE faults < MaxFaults /\ faults' = faults + 1
  /\ UNCHANGED <<systemd, commits, starter, jobs>>

Next ==
  \/ \E u \in Starter : \/ \E force \in BOOLEAN : SoftwareUpdate(u, force)
                        \/ Status(u) \/ Start(u)
                        \/ Fetch(u) \/ Reset(u) \/ Install(u) \/ RestartService(u) \/ StepFails(u)
  \/ Push \/ JobsChange

Spec == Init /\ [][Next]_vars

-----------------------------------------------------------------------------
(* The service only restarts into the version that is checked out and that *)
(* the Setup page therefore shows, however requests and pushes overlap.    *)
RestartIsWhole == [][running' # running => running' = src]_vars
=============================================================================
