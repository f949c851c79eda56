----------------------------- MODULE MCProvision -----------------------------
(* Instances of Provision: a job with a data disk next to one without, and *)
(* a job alone.  In the first, either the data disk differs in size from   *)
(* the boot disks, or all sizes are the same.                              *)
EXTENDS Provision, TLC

CONSTANTS j1, j2, b1, b2, d1

MCBootOf == [j \in Job |-> IF j = j1 THEN b1 ELSE b2]
MCDataOf == [j \in Job |-> IF j = j1 THEN {d1} ELSE {}]
DataDiffers == [d \in Disk |-> IF d = d1 THEN 100 ELSE 50]
AllAlike == [d \in Disk |-> 50]

(* Two jobs next to each other, with shareable attachments and started     *)
(* at the end: the options matter to one job at a time, and the runs of    *)
(* one job go through all of them.                                         *)
PlainInit == emulated = {} /\ staysOff = {} /\ Init

PlainSpec == PlainInit /\ [][Next]_vars /\ Fairness
=============================================================================
