------------------------------- MODULE MCJobs -------------------------------
(* JobControl with two migrations of one machine, and with a migration and *)
(* an ISO installation.                                                    *)
EXTENDS MCJobControl

VARIABLE installs \* whether the second job is an ISO installation

SameVm == [j \in Job |-> IF j = i1 THEN v2 ELSE v1]

Pair == IF installs THEN {m1, i1} ELSE {m1, m2}

(* Next to an installation the migration is only created and run: what is  *)
(* asked of a migration later on is asked of the two migrations.           *)
Asked(h) ==
  handler[h].at # "idle" =>
    /\ handler[h].job \in Pair
    /\ installs /\ handler[h].job = m1 => handler[h].at \in {"create", "submit"}

EitherInit == installs \in BOOLEAN /\ Init
EitherNext == Next /\ UNCHANGED installs /\ \A h \in Handler : Asked(h)'
EitherSpec == EitherInit /\ [][EitherNext]_<<installs, vars>>
=============================================================================
