----------------------------- MODULE GuestNetwork -----------------------------
(***************************************************************************)
(* NetworkFixer.apply of guest/network.py: every network stack the guest   *)
(* uses is given a profile for "DHCP on any Ethernet device", and the      *)
(* files written are labelled for the guest's SELinux, which otherwise     *)
(* would not let them be read.  A file counts as had when the guest came   *)
(* with it; a fixer that ran before has labelled its own.                  *)
(***************************************************************************)
EXTENDS Naturals

CONSTANT MaxFaults \* bound on commands and writes that fail

VARIABLES
  stack,    \* what does not change: nm, legacy, systemd, netplan, networkd, rules, selinux, setfiles
  step,
  had,      \* files that are there
  written, labelled, relabel,
  left,     \* files setfattr has not seen
  attrsSet, \* whether every setfattr so far went well
  changed, handled, result, faults

vars == <<stack, step, had, written, labelled, relabel, left, attrsSet, changed, handled, result, faults>>
labelVars == <<labelled, relabel, left, attrsSet>>

FirstBoot == {"script", "unit", "wants"}
Files == FirstBoot \union {"nm", "netplan", "waitonline", "networkd"}

Stacks == [nm: {"none", "installed", "enabled"}, legacy: BOOLEAN, systemd: BOOLEAN, netplan: BOOLEAN,
           networkd: BOOLEAN, rules: BOOLEAN, selinux: BOOLEAN, setfiles: BOOLEAN]

TypeOK ==
  /\ stack \in Stacks
  /\ step \in {"rules", "nm", "legacy", "netplan", "waitonline", "networkd", "label", "setfattr", "end", "done"}
  /\ had \subseteq Files /\ written \union left \union labelled \subseteq Files
  /\ relabel \in BOOLEAN /\ attrsSet \in BOOLEAN /\ changed \in BOOLEAN /\ handled \in BOOLEAN
  /\ result \in {"none", "skipped", "failed", "not_needed", "done"} /\ faults \in 0..MaxFaults

(* systemd-networkd and the wants of NetworkManager are systemd's. *)
Init ==
  /\ stack \in {s \in Stacks : (s.networkd \/ s.nm # "none" \/ s.netplan) => s.systemd}
  /\ step = "rules" /\ had \in {{}, Files} \union {{f} : f \in Files}
  /\ written = {} /\ labelled = {} /\ relabel = FALSE /\ left = {} /\ attrsSet = TRUE
  /\ changed = FALSE /\ handled = FALSE /\ result = "none" /\ faults = 0

Fault == faults < MaxFaults /\ faults' = faults + 1

(* 70-persistent-net.rules is moved away. *)
DisableRules ==
  /\ step = "rules" /\ step' = "nm" /\ changed' = stack.rules
  /\ UNCHANGED <<stack, had, written, labelVars, handled, result, faults>>

(* A stack's files are written unless they are there. *)
Give(files) ==
  IF files \subseteq had THEN UNCHANGED <<had, written, changed>>
  ELSE had' = had \union files /\ written' = written \union files /\ changed' = TRUE
Stack(here, next, applies, files) ==
  /\ step = here /\ step' = next /\ handled' = (handled \/ applies)
  /\ Give(IF applies THEN files ELSE {})
  /\ UNCHANGED <<stack, labelVars, result, faults>>

(* Slip: NetworkManager is left alone wherever the legacy service is enabled. *)
ConfigureNetworkManagerSlip ==
  Stack("nm", "legacy", stack.nm # "none" /\ ~stack.legacy, {"nm"})
(* NetworkManager, unless it is only installed and the legacy service is the one that runs. *)
ConfigureNetworkManager ==
  Stack("nm", "legacy", stack.nm = "enabled" \/ (stack.nm = "installed" /\ ~stack.legacy), {"nm"})
(* A unit that writes the ifcfg files at the first boot; without systemd the stack counts as handled, too. *)
InstallFirstbootUnit ==
  Stack("legacy", "netplan", stack.legacy /\ stack.nm # "enabled", IF stack.systemd THEN FirstBoot ELSE {})
WriteNetplan == Stack("netplan", "waitonline", stack.netplan, {"netplan"})
WriteWaitOnline == Stack("waitonline", "networkd", stack.netplan, {"waitonline"})
WriteNetworkd == Stack("networkd", "label", stack.networkd, {"networkd"})

(* A write, or a command that cannot be run, ends the step. *)
Fails ==
  /\ step \notin {"end", "done"} /\ Fault /\ result' = "failed" /\ step' = "done"
  /\ UNCHANGED <<stack, had, written, labelVars, changed, handled>>

NothingKnown ==
  /\ step = "label" /\ ~handled /\ result' = "skipped" /\ step' = "done"
  /\ UNCHANGED <<stack, had, written, labelVars, changed, handled, faults>>

NoLabels ==
  /\ step = "label" /\ handled /\ (written = {} \/ ~stack.selinux) /\ step' = "end"
  /\ UNCHANGED <<stack, had, written, labelVars, changed, handled, result, faults>>

(* The guest's own setfiles, if it is there and works. *)
SetFiles ==
  /\ step = "label" /\ handled /\ written # {} /\ stack.selinux /\ stack.setfiles
  /\ labelled' = written /\ step' = "end"
  /\ UNCHANGED <<stack, had, written, relabel, left, attrsSet, changed, handled, result, faults>>
NoSetFiles ==
  /\ step = "label" /\ handled /\ written # {} /\ stack.selinux
  /\ IF stack.setfiles THEN Fault ELSE UNCHANGED faults
  /\ left' = written /\ step' = "setfattr"
  /\ UNCHANGED <<stack, had, written, labelled, relabel, attrsSet, changed, handled, result>>

(* Slip: only the last file's outcome is looked at. *)
SetAttrSlip(file, good) ==
  /\ step = "setfattr" /\ file \in left /\ left' = left \ {file}
  /\ IF good THEN labelled' = labelled \union {file} /\ attrsSet' = TRUE /\ UNCHANGED faults
     ELSE Fault /\ attrsSet' = FALSE /\ UNCHANGED labelled
  /\ UNCHANGED <<stack, step, had, written, relabel, changed, handled, result>>
SetAttr(file, good) ==
  /\ step = "setfattr" /\ file \in left /\ left' = left \ {file}
  /\ IF good THEN labelled' = labelled \union {file} /\ UNCHANGED <<attrsSet, faults>>
     ELSE Fault /\ attrsSet' = FALSE /\ UNCHANGED labelled
  /\ UNCHANGED <<stack, step, had, written, relabel, changed, handled, result>>
(* .autorelabel, if a label is missing. *)
AttrsDone ==
  /\ step = "setfattr" /\ left = {} /\ relabel' = ~attrsSet /\ changed' = (changed \/ ~attrsSet) /\ step' = "end"
  /\ UNCHANGED <<stack, had, written, labelled, left, attrsSet, handled, result, faults>>

Finish ==
  /\ step = "end" /\ result' = (IF changed THEN "done" ELSE "not_needed") /\ step' = "done"
  /\ UNCHANGED <<stack, had, written, labelVars, changed, handled, faults>>

Next ==
  \/ DisableRules \/ ConfigureNetworkManager \/ InstallFirstbootUnit \/ WriteNetplan \/ WriteWaitOnline
  \/ WriteNetworkd \/ Fails \/ NothingKnown \/ NoLabels \/ SetFiles \/ NoSetFiles \/ AttrsDone \/ Finish
  \/ \E file \in Files, good \in BOOLEAN : SetAttr(file, good)

Spec == Init /\ [][Next]_vars

-----------------------------------------------------------------------------
Succeeded == result \in {"done", "not_needed"}

(* The stack that brings the guest's interfaces up, and what it needs. *)
Needed ==
  (IF stack.nm = "enabled" THEN {"nm"} ELSE IF stack.legacy THEN FirstBoot ELSE {})
  \union (IF stack.netplan THEN {"netplan"} ELSE {}) \union (IF stack.networkd THEN {"networkd"} ELSE {})

(* A network step that reports success leaves a guest whose every enabled   *)
(* stack brings up any Ethernet device with DHCP, and every file it wrote   *)
(* can be read under SELinux after the first boot; a legacy service without *)
(* systemd excepted.                                                        *)
DhcpAnywhere ==
  Succeeded =>
    /\ stack.systemd => Needed \subseteq had
    /\ stack.selinux => relabel \/ written \subseteq labelled

(* A stack whose step has gone well has its files, and a file that          *)
(* setfattr has seen has its label.                                         *)
Given ==
  /\ step # "done" => result = "none"
  /\ step # "done" \/ Succeeded =>
       /\ stack.nm = "enabled" => step \in {"rules", "nm"} \/ "nm" \in had
       /\ stack.systemd /\ stack.legacy /\ stack.nm # "enabled" =>
            step \in {"rules", "nm", "legacy"} \/ FirstBoot \subseteq had
       /\ stack.netplan => step \in {"rules", "nm", "legacy", "netplan"} \/ "netplan" \in had
       /\ stack.networkd =>
            step \in {"rules", "nm", "legacy", "netplan", "waitonline", "networkd"} \/ "networkd" \in had
  /\ step = "setfattr" /\ attrsSet => written \subseteq labelled \union left
  /\ (step = "end" \/ Succeeded) /\ stack.selinux => relabel \/ written \subseteq labelled

(* The inductive invariant *)
NetworkInv == TypeOK /\ Given
=============================================================================
