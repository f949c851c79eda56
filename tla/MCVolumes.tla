------------------------------ MODULE MCVolumes ------------------------------
(* Provision with two jobs next to each other on which nothing fails, or   *)
(* with one of them, while the other does not begin, with faults, a        *)
(* restart and all options.                                                *)
EXTENDS MCProvision

VARIABLE alone

AloneInit == Init /\ emulated \subseteq {j1} /\ staysOff \subseteq {j1}
AloneNext ==
  \/ JobStep(j1) \/ Trouble(j1) \/ AttemptFails(j1) \/ RequestCancel(j1)
  \/ OciStep
  \/ Restart

PairNext == Next /\ faults' = 0 /\ restarts' = 0

VolumesInit ==
  \/ alone = TRUE  /\ AloneInit
  \/ alone = FALSE /\ PlainInit
VolumesNext == alone' = alone /\ ((alone /\ AloneNext) \/ (~alone /\ PairNext))
PairFairness ==
  /\ \A j \in Job : WF_vars(~alone /\ at[j] # "idle" /\ JobStep(j))
                    /\ WF_vars(~alone /\ InstanceSettles(j))
  /\ \A d \in Disk : /\ WF_vars(~alone /\ TargetSettles(d))
                     /\ WF_vars(~alone /\ HelperSettles(d))
                     /\ WF_vars(~alone /\ Appear(d))
VolumesSpec == VolumesInit /\ [][VolumesNext]_<<alone, vars>> /\ PairFairness

-----------------------------------------------------------------------------
(* prepare, finalize and cleanup come to an end: no attachment waits for   *)
(* ever for the lock of the other job.                                     *)
PairSettles == \A j \in Job : (~alone /\ at[j] # "idle") ~> (alone \/ at[j] = "idle")
=============================================================================
