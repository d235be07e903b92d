----------------------------- MODULE MCApproval -----------------------------
(* Instances of Approval for TLC. *)
EXTENDS Approval, TLC

CONSTANTS w1, w2, ann, bob, eve, dan, bot

OwnIds == [p \in Procs |-> p]
ChainKeys == [s \in Step |-> s]
ChainDeps == [s \in Step |-> IF s = 1 THEN {} ELSE {s - 1}]

(* The last step is gated by two signatures, the others by none. *)
LastNeedsTwo == [s \in Step |-> IF s = NSteps THEN 2 ELSE 0]

(* ann and eve are both supervisors, bob is finance; dan, who started the run, *)
(* and the machine are one of a kind. *)
TwoRoles == [a \in Approvers |-> CASE a = bob -> "finance" [] a = dan -> "support"
                                   [] a = bot -> "agent" [] OTHER -> "supervisor"]
=============================================================================
