--------------------------- MODULE MCRemediation ---------------------------
(* Small instances of Remediation for TLC. *)
EXTENDS Remediation, TLC

CONSTANTS h1, s1, s2, linux  \* model values the settings below name

\* Settings, policies and triggers are sets of records with one member.
Setting(approval, script, cooldown, maxRuns, target, os) ==
    [requiresApproval : {approval}, script : {script}, timeout : {1},
     cooldown : {cooldown}, maxRuns : {maxRuns}, target : {target}, os : {os}]

\* An hourly limit without cooldown, and a cooldown longer than the rate window.
GuardSettings == Setting(FALSE, s1, 0, 2, None, {}) \cup Setting(FALSE, s1, 2, 3, None, {})
OneSetting == Setting(FALSE, s1, 0, 3, None, {})
\* An edit that changes the script and starts to require an approval.
ApprovalSettings == Setting(FALSE, s1, 0, 3, None, {}) \cup Setting(TRUE, s2, 0, 3, None, {})
\* A fixed target with an operating-system filter, and no target.
TargetSettings == Setting(TRUE, s1, 0, 3, h1, {linux}) \cup Setting(FALSE, s1, 0, 3, None, {})

Policy(mode, allow) == [mode : {mode}, allow : {allow}]
AnyPolicy == Policy("any", {})

Manual(h) == [trigger : {"MANUAL"}, host : {h}, auto : {FALSE}]
Alert(h, auto) == [trigger : {"ALERT"}, host : {h}, auto : {auto}]
ManualOnly == Manual(h1)
AutoOnly == Alert(h1, TRUE)
EveryTrigger == Manual(None) \cup Alert(h1, FALSE)

Linux == [h \in HostIds |-> linux]

Symmetry == Permutations(Requests)
=============================================================================
