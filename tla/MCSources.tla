------------------------------ MODULE MCSources ------------------------------
(* What is at stake at a source: the temporary resources of a migration    *)
(* (SourceExport, every source), or the instance an OVA export takes apart *)
(* (OvaExport).  The variables of the other stay at one initial state.     *)
EXTENDS SourceExport

CONSTANTS NumDisks, MaxFaults

(* An instance has a boot volume. *)
ASSUME ExportAssumption == NumDisks \in Nat \ {0} /\ MaxFaults \in Nat

MCSource == AllSources
MCDisksOf == [s \in MCSource |-> IF s \in {"azure", "aws", "olvm", "proxmox"} THEN 2 ELSE 1]

VARIABLES
  exporting,  \* whether it is the OVA export
  inst, kind, source, helper, attached, known, copied, manifest, exportCancel, exportPhase,
  exportAt, exportStep, refused, faults, restarts

exportVars == <<inst, kind, source, helper, attached, known, copied, manifest, exportCancel,
                exportPhase, exportAt, exportStep, refused, faults, restarts>>

Export == INSTANCE OvaExport WITH
  listed <- attached, cancel <- exportCancel, phase <- exportPhase, at <- exportAt,
  step <- exportStep, crashes <- restarts

OfMigration(A) == ~exporting /\ A /\ UNCHANGED <<exporting, exportVars>>
OfExport(A) == exporting /\ A /\ UNCHANGED <<exporting, vars>>

SourcesInit ==
  /\ exporting \in BOOLEAN
  /\ Init /\ (exporting => src = "hyperv" /\ vm = "off" /\ consent)
  /\ Export!Init /\ (exporting \/ (inst = "STOPPED" /\ \A d \in DOMAIN kind : kind[d] = "plain"))
SourcesNext == OfMigration(Next) \/ OfExport(Export!Next)

(* The fairness of each, while it is the one that takes steps. *)
SourcesFairness ==
  /\ WF_vars(~exporting /\ TaskStep) /\ WF_vars(~exporting /\ Expire)
  /\ WF_vars(~exporting /\ AskCleanup)
  /\ SF_vars(~exporting /\ \E r \in pending : r \in info \cup world /\ ReleaseOk(r))
  /\ SF_vars(~exporting /\ \E r \in pending : r[1] = "object" /\ ReleaseOk(r))
  /\ WF_exportVars(exporting /\ Export!TaskStep) /\ WF_exportVars(exporting /\ Export!AskCleanup)
SourcesSpec == SourcesInit /\ [][SourcesNext]_<<exporting, vars, exportVars>> /\ SourcesFairness

-----------------------------------------------------------------------------
(* An OVA export makes only calls OCI accepts, as long as nothing fails;   *)
(* it reads volumes at rest; and when it is COMPLETED all was exported and *)
(* the instance has its volumes back.                                      *)
ExportKeepsInstance ==
  Export!TypeOK /\ Export!CallsAccepted /\ Export!ReadAtRest /\ Export!CompletedWhole

(* In the end everything is given back: what a failed job lists is         *)
(* released when its cleanup is repeated, and an instance that was taken   *)
(* apart is whole again.                                                   *)
AllGivenBack == ListedIsReleased /\ Export!SourceComesBack
=============================================================================
