-------------------------------- MODULE Policy --------------------------------
(***************************************************************************)
(* The policy engine (governance/policy.py) and what it is told of a call:   *)
(* the declaration of the tool (tools/base.py, tools/registry.py), the trust *)
(* the platform gives the actor (domain/trust.py) and the amount the call     *)
(* would move.  All of it is functions of the arguments; reasons and rule     *)
(* names are wording and left out.                                          *)
(***************************************************************************)
EXTENDS Integers, FiniteSets

CONSTANTS
  Limit,      \* settings.policy_l4_high_risk_limit_cents
  Threshold,  \* settings.policy_dual_approval_threshold_cents
  None,       \* no amount: not in the arguments, or not known
  Unreadable  \* an argument int() refuses, such as an unresolved $ref

ASSUME PolicyAssumption ==
  /\ Limit \in Nat /\ Threshold \in Nat
  /\ None \notin Int /\ Unreadable \notin Int /\ None # Unreadable

(* TrustLevel, by rank. *)
TrustLevel == 0..4

RiskLevel == {"read_only", "low", "high"}
Decision == {"ALLOW", "REQUIRE_APPROVAL", "DENY"}

(* What a declaration says to the policy; `amount`: it names an amount field, *)
(* `resolver`: it can work out an amount the arguments leave out.            *)
ToolSpec == [risk : RiskLevel, effect : BOOLEAN, snapshot : BOOLEAN, idempotent : BOOLEAN,
             compensable : BOOLEAN, compensateArgs : BOOLEAN, amount : BOOLEAN, resolver : BOOLEAN]

(* _assert_declarable: a read tool has no side effect; a write tool has one   *)
(* and an audit snapshot, and a risky one can be repeated and undone.        *)
Declarable(spec) ==
  IF spec.risk = "read_only" THEN ~spec.effect
  ELSE /\ spec.effect /\ spec.snapshot
       /\ spec.risk = "high" => spec.idempotent /\ spec.compensable /\ spec.compensateArgs

-----------------------------------------------------------------------------
(* The amount of a call.  `arg` is the argument of the amount field: None, an *)
(* integer, or Unreadable; `answer` is what the tool's resolver finds, None  *)
(* where the arguments are invalid or a business rule refuses.              *)
Argument == Int \cup {None, Unreadable}
Amount == Int \cup {None}

Readable(arg) == IF arg = Unreadable THEN None ELSE arg

(* policy._amount_of *)
AmountOf(spec, arg, resolved) ==
  IF ~spec.amount THEN None ELSE IF arg = None THEN resolved ELSE Readable(arg)

(* registry.resolve_effective_amount, as the approval route asks it. *)
EffectiveAmount(spec, arg, answer) ==
  IF ~spec.amount THEN None
  ELSE IF arg # None THEN Readable(arg)
  ELSE IF spec.resolver THEN answer ELSE None

(* RunExecutor._resolve_amount *)
GateAmount(spec, arg, answer) ==
  IF ~spec.amount \/ arg # None THEN None ELSE EffectiveAmount(spec, arg, answer)

-----------------------------------------------------------------------------
(* _evaluate_high_risk: at L4 what can be repeated, undone and is within the  *)
(* limit goes ahead; everything else, the unknown amount too, is approved.  *)
HighRisk(spec, trust, amount) ==
  IF /\ trust = 4 /\ spec.idempotent /\ spec.compensable
     /\ amount # None /\ amount <= Limit
    THEN "ALLOW" ELSE "REQUIRE_APPROVAL"

(* evaluate *)
Evaluate(spec, trust, arg, resolved) ==
  CASE spec.risk = "read_only" -> "ALLOW"
    [] spec.risk # "read_only" /\ trust = 0 -> "DENY"
    [] spec.risk # "read_only" /\ trust = 1 -> "REQUIRE_APPROVAL"
    [] spec.risk = "high" /\ trust > 1 -> HighRisk(spec, trust, AmountOf(spec, arg, resolved))
    [] spec.risk = "low" /\ trust > 1 ->
         IF trust = 2 /\ ~spec.compensable THEN "REQUIRE_APPROVAL" ELSE "ALLOW"

(* approval_requirement: two people for a risky call whose amount is above    *)
(* the threshold or not known, one for any other.                           *)
Requirement(spec, arg, resolved) ==
  LET amount == AmountOf(spec, arg, resolved)
  IN  IF spec.risk = "high" /\ (amount = None \/ amount > Threshold) THEN 2 ELSE 1

-----------------------------------------------------------------------------
(* From the strictest decision to the loosest. *)
Strictness(decision) == CASE decision = "ALLOW" -> 0 [] decision = "REQUIRE_APPROVAL" -> 1 [] decision = "DENY" -> 2

(* An amount at most as hard to approve: the unknown one is the hardest.      *)
NoMore(a, b) == b = None \/ (a # None /\ a <= b)

(* Signatures without which a call does not go ahead. *)
SignaturesFor(spec, trust, arg, resolved) ==
  IF Evaluate(spec, trust, arg, resolved) = "ALLOW" THEN 0 ELSE Requirement(spec, arg, resolved)
=============================================================================
