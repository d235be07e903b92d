------------------------------ MODULE Approval ------------------------------
(***************************************************************************)
(* Human approval (api/routes/runs.py approve_step, governance/policy.py    *)
(* evaluate_approval) beside the executors.  A request loads the run, asks  *)
(* the tool for the amount and counts the signatures it needs, and writes    *)
(* back what it computed from the loaded copy: the whole approvals map, and *)
(* the status if the copy said WAITING_APPROVAL.  `desk` is that copy, per   *)
(* person; a request that is cut off simply never commits.                  *)
(*                                                                         *)
(* Approvers are whoever calls the route, the actor of the run and agents    *)
(* among them: the policy tells them apart.                                 *)
(***************************************************************************)
EXTENDS Executor

CONSTANTS
  Role,           \* approver -> role; without a configured role one is a role of one's own
  Actor,          \* who started the run
  Agents,         \* approvers that are machines
  AgentsMaySign   \* settings.policy_allow_agent_approval

ASSUME ApprovalAssumption ==
  IsFiniteSet(Approvers) /\ Approvers \subseteq DOMAIN Role /\ AgentsMaySign \in BOOLEAN

VARIABLES
  desk,    \* person -> the copy of the run their request holds
  signed   \* step -> everybody whose signature was ever committed for it

approvalVars == <<vars, desk, signed>>

Gated == {s \in Step : Need[s] > 0}

(* policy.approval_requirement asks at least one signature of any step. *)
Required(s) == IF Need[s] = 0 THEN 1 ELSE Need[s]

NoDesk == [step |-> 0, status |-> "PENDING", marker |-> "none", sigs |-> [s \in Step |-> {}]]
Desk == [step : Step \cup {0}, status : RunStatus, marker : Marker, sigs : [Step -> SUBSET Approvers]]

ApprovalTypeOK ==
  /\ TypeOK
  /\ desk \in [Approvers -> Desk]
  /\ signed \in [Step -> SUBSET Approvers]

ApprovalInit ==
  /\ Init
  /\ desk = [a \in Approvers |-> NoDesk]
  /\ signed = [s \in Step |-> {}]

(* policy.evaluate_approval: nobody signs for a run of their own, no machine  *)
(* for any ... *)
Accountable(a) == a # Actor /\ (a \in Agents => AgentsMaySign)

(* Mutation: a second person of the same role is accepted. *)
AnyRole(a, existing) == TRUE

(* ... one's own signature again is a duplicate, a second one from the same   *)
(* role is refused. *)
RoleAllowed(a, existing) == a \in existing \/ Role[a] \notin {Role[b] : b \in existing}

(* The request loads the run; it returns early when the step is already     *)
(* fully approved, and is refused to those who may not sign.                *)
ApproveLoad(a, s) ==
  /\ desk[a].step = 0
  /\ Cardinality(run.sigs[s]) < Required(s)
  /\ Accountable(a) /\ RoleAllowed(a, run.sigs[s])
  /\ desk' = [desk EXCEPT ![a] = [step |-> s, status |-> run.status, marker |-> run.marker,
                                  sigs |-> run.sigs]]
  /\ UNCHANGED <<vars, signed>>

(* What the request writes.  Short of signatures only the checkpoint is      *)
(* rewritten, from the loaded copy, so its compensation marker comes back.   *)
Signed(a) == [desk[a].sigs EXCEPT ![desk[a].step] = @ \cup {a}]

Approved(a, r) ==
  LET s == desk[a].step
      enough == Cardinality(Signed(a)[s]) >= Required(s)
  IN  [r EXCEPT !.sigs = IF a \notin desk[a].sigs[s] THEN Signed(a) ELSE @,
                !.status = IF enough /\ desk[a].status = "WAITING_APPROVAL" THEN "PENDING" ELSE @,
                !.marker = IF enough THEN @ ELSE desk[a].marker]

ApproveCommit(a) ==
  /\ desk[a].step # 0
  /\ run' = Approved(a, run)
  /\ signed' = [signed EXCEPT ![desk[a].step] = @ \cup {a}]
  /\ desk' = [desk EXCEPT ![a] = NoDesk]
  /\ UNCHANGED <<pc, mem, mishaps>> /\ UNCHANGED db

ApprovalNext ==
  \/ Next /\ UNCHANGED <<desk, signed>>
  \/ \E a \in Approvers : (\E s \in Step : ApproveLoad(a, s)) \/ ApproveCommit(a)

ApprovalSpec == ApprovalInit /\ [][ApprovalNext]_approvalVars

-----------------------------------------------------------------------------
(* No worker executes a gated step before people of as many different roles *)
(* as it needs, none of them its actor or a machine, have signed for it,      *)
(* however their requests, a crash or a second worker interleave with it      *)
(* (policy.py: two signers, two roles).                                     *)
GateHolds ==
  \A w \in Workers, s \in Gated :
    pc[w] \in {"step", "open", "key", "write"} /\ mem[w].step = s
      => Cardinality({Role[a] : a \in {b \in signed[s] \ {Actor} : b \in Agents => AgentsMaySign}}) >= Need[s]

(* No two signatures on record for one step come from the same role, even   *)
(* when both people loaded the run before either signed.                    *)
DistinctRoles ==
  \A s \in Step : \A a, b \in run.sigs[s] : Role[a] = Role[b] => a = b

=============================================================================
