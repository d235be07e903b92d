---------------------------- MODULE PlanningProofs ----------------------------
(***************************************************************************)
(* Proofs about what Planning is built from and about Planning itself: what   *)
(* the policy promises for every tool, actor, limit and amount; what          *)
(* validating a plan is good for; and, for whatever people say, the model     *)
(* replies and callers submit, the safety properties TLC checks for some      *)
(* sentences and replies.                                                   *)
(***************************************************************************)
EXTENDS Planning, WellFoundedInduction, TLAPS

(* The policy engine (module Policy).                                        *)

(* The rule table in the head of policy.py, column by column.                *)
RuleTable(spec, level, amount) ==
  CASE spec.risk = "read_only" -> "ALLOW"
    [] spec.risk = "low"  -> IF level = 0 THEN "DENY"
                             ELSE IF level = 1 \/ (level = 2 /\ ~spec.compensable) THEN "REQUIRE_APPROVAL"
                             ELSE "ALLOW"
    [] spec.risk = "high" -> IF level = 0 THEN "DENY"
                             ELSE IF level < 4 THEN "REQUIRE_APPROVAL"
                             ELSE IF spec.compensable /\ spec.idempotent /\ amount # None /\ amount <= Limit
                                  THEN "ALLOW" ELSE "REQUIRE_APPROVAL"

LEMMA AmountType ==
  ASSUME NEW spec \in ToolSpec, NEW arg \in Argument, NEW resolved \in Amount
  PROVE  AmountOf(spec, arg, resolved) \in Amount
BY PolicyAssumption DEF AmountOf, Readable, Argument, Amount, ToolSpec

(* The code decides what the published table says (policy.py, rule table).   *)
THEOREM EvaluateIsTable ==
  ASSUME NEW spec \in ToolSpec, NEW level \in TrustLevel,
         NEW arg \in Argument, NEW resolved \in Amount
  PROVE  Evaluate(spec, level, arg, resolved) = RuleTable(spec, level, AmountOf(spec, arg, resolved))
<1> DEFINE a == AmountOf(spec, arg, resolved)
<1>1. a \in Amount BY AmountType
<1>2. spec.risk \in RiskLevel /\ spec.compensable \in BOOLEAN /\ spec.idempotent \in BOOLEAN
  BY DEF ToolSpec
<1>3. level \in {0, 1, 2, 3, 4} BY DEF TrustLevel
<1>4. CASE spec.risk = "read_only" BY <1>4 DEF Evaluate, RuleTable
<1>5. CASE spec.risk = "low" BY <1>3, <1>5 DEF Evaluate, RuleTable
<1>6. CASE spec.risk = "high"
  <2>1. CASE level < 2 BY <1>3, <1>6, <2>1 DEF Evaluate, RuleTable
  <2>2. CASE level > 1
    <3>1. Evaluate(spec, level, arg, resolved) = HighRisk(spec, level, a)
      BY <1>3, <1>6, <2>2 DEF Evaluate
    <3> HIDE DEF a
    <3>2. HighRisk(spec, level, a) = RuleTable(spec, level, a)
      BY <1>1, <1>2, <1>3, <1>6, <2>2 DEF HighRisk, RuleTable
    <3> QED BY <3>1, <3>2 DEF a
  <2> QED BY <1>3, <2>1, <2>2
<1> QED BY <1>2, <1>4, <1>5, <1>6 DEF RiskLevel

(* A risky call goes ahead unseen only at L4, if it can be repeated and       *)
(* undone, and for an amount that is known and within the limit.             *)
THEOREM AutonomyIsEarned ==
  ASSUME NEW spec \in ToolSpec, NEW level \in TrustLevel,
         NEW arg \in Argument, NEW resolved \in Amount,
         spec.risk = "high", Evaluate(spec, level, arg, resolved) = "ALLOW"
  PROVE  /\ level = 4 /\ spec.idempotent /\ spec.compensable
         /\ AmountOf(spec, arg, resolved) \in Int /\ AmountOf(spec, arg, resolved) <= Limit
<1> DEFINE a == AmountOf(spec, arg, resolved)
<1>1. a \in Amount BY AmountType
<1>2. RuleTable(spec, level, a) = "ALLOW" BY EvaluateIsTable
<1> HIDE DEF a
<1>3. level \in {0, 1, 2, 3, 4} BY DEF TrustLevel
<1>4. level = 4 /\ spec.idempotent /\ spec.compensable /\ a # None /\ a <= Limit
  BY <1>2, <1>3 DEF RuleTable
<1> QED BY <1>1, <1>4 DEF a, Amount

(* More level never makes a decision stricter.                              *)
THEOREM TrustOnlyLoosens ==
  ASSUME NEW spec \in ToolSpec, NEW t \in TrustLevel, NEW u \in TrustLevel, t <= u,
         NEW arg \in Argument, NEW resolved \in Amount
  PROVE  Strictness(Evaluate(spec, u, arg, resolved)) <= Strictness(Evaluate(spec, t, arg, resolved))
<1> DEFINE a == AmountOf(spec, arg, resolved)
<1>1. /\ Evaluate(spec, t, arg, resolved) = RuleTable(spec, t, a)
      /\ Evaluate(spec, u, arg, resolved) = RuleTable(spec, u, a)
  BY EvaluateIsTable
<1>2. spec.risk \in RiskLevel BY DEF ToolSpec
<1>3. t \in {0, 1, 2, 3, 4} /\ u \in {0, 1, 2, 3, 4} BY DEF TrustLevel
<1> HIDE DEF a
<1>4. CASE spec.risk = "read_only" BY <1>1, <1>4 DEF RuleTable, Strictness
<1>5. CASE spec.risk = "low" BY <1>1, <1>3, <1>5 DEF RuleTable, Strictness
<1>6. CASE spec.risk = "high" BY <1>1, <1>3, <1>6 DEF RuleTable, Strictness
<1> QED BY <1>2, <1>4, <1>5, <1>6 DEF RiskLevel

(* An amount that is not known is never judged more loosely than one that    *)
(* is, nor a larger one than a smaller: neither the decision nor the number   *)
(* of signatures (policy.py: unknown is treated strictly, never as zero).    *)
THEOREM LargerIsNotLooser ==
  ASSUME NEW spec \in ToolSpec, NEW level \in TrustLevel,
         NEW x \in Amount, NEW y \in Amount, NoMore(x, y)
  PROVE  /\ Strictness(Evaluate(spec, level, None, x)) <= Strictness(Evaluate(spec, level, None, y))
         /\ Requirement(spec, None, x) <= Requirement(spec, None, y)
         /\ SignaturesFor(spec, level, None, x) <= SignaturesFor(spec, level, None, y)
<1> DEFINE a == AmountOf(spec, None, x)
           b == AmountOf(spec, None, y)
<1>1. a \in Amount /\ b \in Amount BY AmountType DEF Argument
<1>2. NoMore(a, b)
  BY PolicyAssumption DEF AmountOf, NoMore
<1>3. /\ Evaluate(spec, level, None, x) = RuleTable(spec, level, a)
      /\ Evaluate(spec, level, None, y) = RuleTable(spec, level, b)
  BY EvaluateIsTable DEF Argument
<1>4. spec.risk \in RiskLevel BY DEF ToolSpec
<1>5. Requirement(spec, None, x) = IF spec.risk = "high" /\ (a = None \/ a > Threshold) THEN 2 ELSE 1
  BY DEF Requirement
<1>6. Requirement(spec, None, y) = IF spec.risk = "high" /\ (b = None \/ b > Threshold) THEN 2 ELSE 1
  BY DEF Requirement
<1> HIDE DEF a, b
<1>7. Requirement(spec, None, x) <= Requirement(spec, None, y)
  BY <1>1, <1>2, <1>5, <1>6, PolicyAssumption DEF NoMore, Amount
<1>8. Strictness(RuleTable(spec, level, a)) <= Strictness(RuleTable(spec, level, b))
  <2>1. CASE spec.risk # "high"
    BY <1>4, <2>1 DEF RuleTable, Strictness, RiskLevel
  <2>2. CASE spec.risk = "high"
    BY <1>1, <1>2, <2>2, PolicyAssumption DEF RuleTable, Strictness, NoMore, Amount
  <2> QED BY <2>1, <2>2
<1>9. RuleTable(spec, level, b) = "ALLOW" => RuleTable(spec, level, a) = "ALLOW"
  <2>1. RuleTable(spec, level, a) \in {"ALLOW", "REQUIRE_APPROVAL", "DENY"}
    BY <1>4 DEF RuleTable, RiskLevel
  <2> QED BY <1>8, <2>1 DEF Strictness
<1>10. SignaturesFor(spec, level, None, x) <= SignaturesFor(spec, level, None, y)
  <2>1. Requirement(spec, None, x) \in {1, 2} /\ Requirement(spec, None, y) \in {1, 2}
    BY <1>5, <1>6
  <2> QED BY <1>3, <1>7, <1>9, <2>1 DEF SignaturesFor
<1> QED BY <1>3, <1>7, <1>8, <1>10

(* The approval route and the executor ask for the same number of people     *)
(* (runs.py:274): the one hands the policy the amount it worked out even where *)
(* the arguments name one, the other does not.                              *)
THEOREM BothCountAlike ==
  ASSUME NEW spec \in ToolSpec, NEW arg \in Argument, NEW answer \in Amount
  PROVE  Requirement(spec, arg, EffectiveAmount(spec, arg, answer))
           = Requirement(spec, arg, GateAmount(spec, arg, answer))
<1>1. AmountOf(spec, arg, EffectiveAmount(spec, arg, answer)) = AmountOf(spec, arg, GateAmount(spec, arg, answer))
  BY PolicyAssumption DEF AmountOf, EffectiveAmount, GateAmount, Readable
<1> QED BY <1>1 DEF Requirement

(* Of a risky tool that could be registered the only thing the policy still  *)
(* weighs at L4 is the amount.                                              *)
THEOREM DeclaredToolsAreWeighedByAmount ==
  ASSUME NEW spec \in ToolSpec, Declarable(spec), spec.risk = "high",
         NEW arg \in Argument, NEW resolved \in Amount
  PROVE  Evaluate(spec, 4, arg, resolved) = "ALLOW"
           <=> /\ AmountOf(spec, arg, resolved) # None
               /\ AmountOf(spec, arg, resolved) <= Limit
<1>1. Evaluate(spec, 4, arg, resolved) = RuleTable(spec, 4, AmountOf(spec, arg, resolved))
  BY EvaluateIsTable DEF TrustLevel
<1>2. spec.compensable /\ spec.idempotent BY DEF Declarable
<1> QED BY <1>1, <1>2 DEF RuleTable

-------------------------------------------------------------------------------
(* Plans (module PlanRefs): exactly the plans that run through are             *)
(* registered, and a placeholder never reaches the policy or a tool.          *)

(* A list of numbered steps, as the request or the planner gave it.          *)
IsPlan(steps) ==
  /\ \E n \in Nat : DOMAIN steps = 1..n
  /\ \A i \in DOMAIN steps : steps[i].seq \in Int

(* Read from the front, no step needs anything but what stands before it.    *)
RunsThrough(steps, tools) ==
  /\ steps # <<>>
  /\ \A i, j \in DOMAIN steps : i < j => steps[i].seq < steps[j].seq
  /\ \A i \in DOMAIN steps :
       /\ steps[i].tool \in tools
       /\ \A r \in Refs(steps[i].args) : r.kind = "ref"
       /\ Needs(steps[i]) \subseteq {steps[j].seq : j \in {k \in DOMAIN steps : k < i}}

(* validate() accepts the plans that run through in the order of their        *)
(* numbers, and no others (plan.py: order and no cycles by construction).    *)
THEOREM ValidPlansRunThrough ==
  ASSUME NEW steps, NEW tools, IsPlan(steps)
  PROVE  Validate(steps, tools) <=> RunsThrough(steps, tools)
<1>1. PICK n \in Nat : DOMAIN steps = 1..n BY DEF IsPlan
<1>2. \A i \in DOMAIN steps : i \in Int /\ steps[i].seq \in Int BY <1>1 DEF IsPlan
<1>3. ASSUME Validate(steps, tools) PROVE RunsThrough(steps, tools)
  <2>1. \A i, j \in DOMAIN steps : i < j => steps[i].seq < steps[j].seq
    BY <1>2, <1>3 DEF Validate
  <2>2. ASSUME NEW i \in DOMAIN steps, NEW m \in Needs(steps[i])
        PROVE  m \in {steps[j].seq : j \in {k \in DOMAIN steps : k < i}}
    <3>1. m \in Seqs(steps) /\ m < steps[i].seq
      BY <1>3, <2>2 DEF Validate, NeedsAreEarlier
    <3>2. PICK j \in DOMAIN steps : m = steps[j].seq BY <3>1 DEF Seqs
    <3>3. ~(i <= j)
      <4>1. CASE i = j BY <1>2, <3>1, <3>2, <4>1
      <4>2. CASE i < j BY <1>2, <2>1, <3>1, <3>2, <4>2
      <4> QED BY <1>2, <4>1, <4>2
    <3> QED BY <1>2, <3>2, <3>3
  <2> QED BY <1>3, <2>1, <2>2 DEF Validate, RunsThrough
<1>4. ASSUME RunsThrough(steps, tools) PROVE Validate(steps, tools)
  <2>1. \A i, j \in DOMAIN steps : i < j => steps[i].seq < steps[j].seq
    BY <1>4 DEF RunsThrough
  <2>2. \A i, j \in DOMAIN steps : i # j => steps[i].seq # steps[j].seq
    <3>1. \A i, j \in DOMAIN steps : i # j => i < j \/ j < i BY <1>2
    <3> QED BY <1>2, <2>1, <3>1
  <2>3. \A i, j \in DOMAIN steps : i < j => steps[i].seq <= steps[j].seq BY <1>2, <2>1
  <2>4. ASSUME NEW i \in DOMAIN steps PROVE NeedsAreEarlier(steps[i], steps)
    <3>1. SUFFICES ASSUME NEW m \in Needs(steps[i])
                   PROVE  m \in Seqs(steps) /\ m < steps[i].seq
      BY DEF NeedsAreEarlier
    <3>2. PICK j \in DOMAIN steps : j < i /\ m = steps[j].seq BY <1>4, <3>1 DEF RunsThrough
    <3> QED BY <2>1, <3>2 DEF Seqs
  <2> QED BY <1>4, <2>2, <2>3, <2>4 DEF Validate, RunsThrough
<1> QED BY <1>3, <1>4

(* The step an executor comes to next has all it needs: _assert_deps_done     *)
(* and the lookup of a referenced step refuse nothing of a registered plan    *)
(* that is driven in order (executor.py: no third state between succeeded    *)
(* and never to succeed).                                                   *)
THEOREM NextStepHasItsNeeds ==
  ASSUME NEW steps, NEW tools, IsPlan(steps), Validate(steps, tools),
         NEW done, NEW i \in Remaining(steps, done),
         \A j \in Remaining(steps, done) : i <= j
  PROVE  Needs(steps[i]) \subseteq done
<1>1. PICK n \in Nat : DOMAIN steps = 1..n BY DEF IsPlan
<1>2. i \in DOMAIN steps BY DEF Remaining
<1>3. RunsThrough(steps, tools) BY ValidPlansRunThrough
<1>4. SUFFICES ASSUME NEW m \in Needs(steps[i]) PROVE m \in done
  OBVIOUS
<1>5. PICK j \in DOMAIN steps : j < i /\ m = steps[j].seq BY <1>2, <1>3, <1>4 DEF RunsThrough
<1>6. j \notin Remaining(steps, done) BY <1>1, <1>2, <1>5
<1> QED BY <1>5, <1>6 DEF Remaining

(* What is judged, keyed and executed holds no reference any more: amount,    *)
(* risk and idempotency key are read off real arguments (executor.py:330).    *)
THEOREM NoPlaceholderIsJudged ==
  ASSUME NEW args, NEW given, Resolvable(args, given)
  PROVE  Refs(Resolve(args, given)) = {}
<1>1. DOMAIN Resolve(args, given) = DOMAIN args BY DEF Resolve
<1>2. ASSUME NEW p \in DOMAIN args PROVE ~IsRef(Resolve(args, given)[p])
  <2>1. CASE IsRef(args[p])
    <3>1. args[p] \in Refs(args) BY <2>1 DEF Refs
    <3>2. given[args[p].seq][args[p].path].kind = "scalar" BY <3>1 DEF Resolvable
    <3> QED BY <2>1, <3>2 DEF Resolve, IsRef
  <2>2. CASE ~IsRef(args[p]) BY <2>2 DEF Resolve
  <2> QED BY <2>1, <2>2
<1> QED BY <1>1, <1>2 DEF Refs

-------------------------------------------------------------------------------
(* From an intent to a run that has ended (module Planning).                  *)

StepFields == {"seq", "tool", "args", "deps", "approval"}

StepList(steps) ==
  /\ \E n \in Nat : steps = [i \in 1..n |-> steps[i]]
  /\ \A i \in DOMAIN steps :
       DOMAIN steps[i] = StepFields /\ steps[i].seq \in Int /\ steps[i].approval \in BOOLEAN

(* A plan that may be registered, and what was shown of it: a step that is    *)
(* not marked for approval was announced as allowed.                        *)
Vetted(steps, shown) ==
  /\ StepList(steps) /\ Validate(steps, Tools)
  /\ shown # <<>> => \A i \in DOMAIN steps : ~steps[i].approval => shown[i] = "ALLOW"

DraftInv ==
  /\ DOMAIN draft = {"at", "attempt", "planner", "steps", "shown"}
  /\ draft.at = "announced" => Vetted(draft.steps, draft.shown)
  /\ AnnouncedIsUsable

RunInv ==
  /\ DOMAIN run = {"status", "plan", "shown"}
  /\ run.plan # <<>> => Vetted(run.plan, run.shown)

(* A step past the gate is still the one that is next, and what the gate asked  *)
(* for its amount is there: signatures are never taken back, and a restart     *)
(* that changes the trust forgets the step.                                  *)
CallInv ==
  call # NoCall =>
    /\ Remaining(run.plan, Done) # {} /\ call.at = NextUp(run.plan, Done)
    /\ Evaluate(Spec(Current), trust, call.amount, None) # "DENY"
    /\ Signed(Current) >= SignaturesFor(Spec(Current), trust, call.amount, None)
    /\ Current.approval => Signed(Current) >= 1
    /\ IF Named(call.args)
         THEN AmountArgument(call.args) # None =>
                call.amount = AmountOf(Spec(Current), AmountArgument(call.args), None)
         ELSE call.amount \in Amount

PInv == PlanningTypeOK /\ DraftInv /\ RunInv /\ CallInv

-----------------------------------------------------------------------------
LEMMA GivenIsStepList == ASSUME NEW steps, IsStepList(steps) PROVE StepList(steps)
<1>1. PICK n \in Nat : steps \in [1..n -> {steps[i] : i \in DOMAIN steps}]
  BY DEF IsStepList
<1>2. steps = [i \in 1..n |-> steps[i]] BY <1>1
<1> QED BY <1>2 DEF IsStepList, StepList, StepFields

LEMMA StepListIsPlan == ASSUME NEW steps, StepList(steps) PROVE IsPlan(steps)
<1>1. PICK n \in Nat : steps = [i \in 1..n |-> steps[i]] BY DEF StepList
<1>2. DOMAIN steps = 1..n BY <1>1
<1> QED BY <1>2 DEF StepList, IsPlan

(* The verdict of a registered tool is a decision.                          *)
LEMMA Decided ==
  ASSUME NEW tool \in Tools, NEW level \in TrustLevel, NEW arg, NEW answer
  PROVE  Evaluate(Declared[tool], level, arg, answer) \in Decision
<1>1. Declared[tool].risk \in RiskLevel
  <2>1. tool \in {"query_order", "query_logistics", "query_refundable", "create_refund", "close_ticket"}
    BY DEF Tools, Declared
  <2>2. ReadOnly.risk = "read_only" BY DEF ReadOnly
  <2>3. CloseTicket.risk = "low" BY DEF CloseTicket, ReadOnly
  <2>4. CreateRefund.risk = "high" BY DEF CreateRefund
  <2>5. Declared[tool] \in {ReadOnly, CloseTicket, CreateRefund} BY <2>1 DEF Declared
  <2> QED BY <2>2, <2>3, <2>4, <2>5 DEF RiskLevel
<1>2. HighRisk(Declared[tool], level, AmountOf(Declared[tool], arg, answer)) \in Decision
  BY DEF HighRisk, Decision
<1>3. level = 0 \/ level = 1 \/ level > 1 BY DEF TrustLevel
<1> QED BY <1>1, <1>2, <1>3 DEF Evaluate, RiskLevel, Decision, TrustLevel

LEMMA OneOrTwo ==
  ASSUME NEW spec, NEW arg, NEW answer PROVE Requirement(spec, arg, answer) \in 1..2
BY DEF Requirement

(* Validation looks at numbers, tools, arguments and dependencies only.       *)
LEMMA SameValidation ==
  ASSUME NEW a, NEW b, StepList(a), DOMAIN b = DOMAIN a, Validate(a, Tools),
         \A i \in DOMAIN a : /\ b[i].seq = a[i].seq /\ b[i].tool = a[i].tool
                             /\ b[i].args = a[i].args /\ b[i].deps = a[i].deps
  PROVE  Validate(b, Tools)
<1>1. b # <<>>
  <2>1. PICK n \in Nat : a = [i \in 1..n |-> a[i]] BY DEF StepList
  <2>2. n # 0 BY <2>1 DEF Validate
  <2>3. 1 \in DOMAIN b BY <2>1, <2>2
  <2> QED BY <2>3
<1>2. Seqs(b) = Seqs(a) BY DEF Seqs
<1>3. ASSUME NEW i \in DOMAIN b PROVE NeedsAreEarlier(b[i], b)
  <2>1. Needs(b[i]) = Needs(a[i]) /\ b[i].seq = a[i].seq BY DEF Needs, Targets
  <2>2. NeedsAreEarlier(a[i], a) BY DEF Validate
  <2> QED BY <1>2, <2>1, <2>2 DEF NeedsAreEarlier
<1> QED BY <1>1, <1>3 DEF Validate

LEMMA FinalizedKeeps ==
  ASSUME NEW steps, StepList(steps)
  PROVE  /\ DOMAIN Finalized(steps) = DOMAIN steps
         /\ StepList(Finalized(steps))
         /\ \A i \in DOMAIN steps :
              LET f == Finalized(steps)[i]
              IN  /\ f.seq = steps[i].seq /\ f.tool = steps[i].tool
                  /\ f.args = steps[i].args /\ f.deps = steps[i].deps
                  /\ f.approval = (Verdict(steps[i]) = "REQUIRE_APPROVAL")
<1>1. PICK n \in Nat : steps = [i \in 1..n |-> steps[i]] BY DEF StepList
<1>2. DOMAIN steps = 1..n BY <1>1
<1> DEFINE F == Finalized(steps)
<1>3. F = [i \in 1..n |-> F[i]] /\ DOMAIN F = 1..n BY <1>2 DEF Finalized
<1>4. ASSUME NEW i \in 1..n
      PROVE  /\ F[i].seq = steps[i].seq /\ F[i].tool = steps[i].tool
             /\ F[i].args = steps[i].args /\ F[i].deps = steps[i].deps
             /\ F[i].approval = (Verdict(steps[i]) = "REQUIRE_APPROVAL")
             /\ DOMAIN F[i] = StepFields
  <2>1. F[i] = [steps[i] EXCEPT !.approval = Verdict(steps[i]) = "REQUIRE_APPROVAL"]
    BY <1>2 DEF Finalized
  <2>2. DOMAIN steps[i] = StepFields BY <1>2 DEF StepList
  <2> QED BY <2>1, <2>2 DEF StepFields
<1>5. StepList(F)
  <2>1. \A i \in 1..n : F[i].seq \in Int /\ F[i].approval \in BOOLEAN
    BY <1>2, <1>4 DEF StepList
  <2> QED BY <1>3, <1>4, <2>1 DEF StepList
<1> QED BY <1>2, <1>3, <1>4, <1>5

(* Announcing vets a valid plan.                                            *)
LEMMA AnnouncedIsVetted ==
  ASSUME PInv, NEW steps, StepList(steps), Validate(steps, Tools), Announce(steps)
  PROVE  /\ DOMAIN draft' = DOMAIN draft /\ draft'.attempt = draft.attempt /\ draft'.planner = draft.planner
         /\ draft'.at \in {"announced", "refused"}
         /\ draft'.at = "announced" =>
              Vetted(draft'.steps, draft'.shown) /\ draft'.steps = Finalized(steps)
<1>0. DOMAIN draft = {"at", "attempt", "planner", "steps", "shown"} BY DEF PInv, DraftInv
<1>1. CASE \E i \in DOMAIN steps : Verdict(steps[i]) = "DENY"
  BY <1>0, <1>1 DEF Announce, Refused
<1>2. CASE ~\E i \in DOMAIN steps : Verdict(steps[i]) = "DENY"
  <2> DEFINE shown == [i \in DOMAIN steps |-> Verdict(steps[i])]
  <2>1. draft' = [draft EXCEPT !.at = "announced", !.steps = Finalized(steps), !.shown = shown]
    BY <1>2 DEF Announce
  <2>2. /\ draft'.steps = Finalized(steps) /\ draft'.shown = shown /\ draft'.at = "announced"
        /\ DOMAIN draft' = DOMAIN draft /\ draft'.attempt = draft.attempt /\ draft'.planner = draft.planner
    BY <1>0, <2>1
  <2>3. StepList(Finalized(steps)) /\ Validate(Finalized(steps), Tools)
    BY FinalizedKeeps, SameValidation
  <2>4. ASSUME NEW i \in DOMAIN Finalized(steps), ~Finalized(steps)[i].approval
        PROVE  shown[i] = "ALLOW"
    <3>1. i \in DOMAIN steps /\ Verdict(steps[i]) # "REQUIRE_APPROVAL" BY <2>4, FinalizedKeeps
    <3>2. steps[i].tool \in Tools BY <3>1 DEF Validate
    <3>3. trust \in TrustLevel BY PlanningAssumption DEF PInv, PlanningTypeOK
    <3>4. Verdict(steps[i]) \in Decision BY <3>2, <3>3, Decided DEF Verdict
    <3> QED BY <1>2, <3>1, <3>4 DEF Decision
  <2> QED BY <2>2, <2>3, <2>4 DEF Vetted
<1> QED BY <1>1, <1>2

-----------------------------------------------------------------------------
(* What the deterministic planner drafts is valid.                          *)
LEMMA DraftedIsValid ==
  ASSUME NEW intent \in Intents, intent.action # "unknown"
  PROVE  StepList(Drafted(intent)) /\ Validate(Drafted(intent), Tools)
<1>1. /\ intent.action \in {"create_refund", "query_order", "query_logistics"}
      /\ intent.full \in BOOLEAN
  BY PlanningAssumption
<1>2. \A v : ~IsRef(Scalar(v)) BY DEF IsRef, Scalar
<1>3. ASSUME NEW r \in Refs(RefundArgs(intent))
      PROVE  r.kind = "ref" /\ r.seq = 1 /\ intent.full
  <2>1. PICK p \in DOMAIN RefundArgs(intent) : r = RefundArgs(intent)[p] /\ IsRef(r)
    BY DEF Refs
  <2>2. p \in {"order_id", "reason_code", "amount_cents"} BY <2>1 DEF RefundArgs
  <2>3. p = "amount_cents" BY <1>2, <2>1, <2>2 DEF RefundArgs
  <2>4. intent.amount = None /\ intent.full BY <1>2, <2>1, <2>3 DEF RefundArgs
  <2>5. r = Ref(1, "available_refund_cents") BY <2>1, <2>3, <2>4 DEF RefundArgs
  <2> QED BY <2>4, <2>5 DEF Ref
<1>4. \A place : Refs([x \in {place} |-> Scalar(OrderId)]) = {}
  BY <1>2 DEF Refs
<1>5. CASE intent.action = "create_refund" /\ intent.full
  <2> DEFINE a == Step(1, "query_refundable", [order_id |-> Scalar(OrderId)], {})
             b == Step(2, "create_refund", RefundArgs(intent), {1})
  <2>1. Drafted(intent) = <<a, b>> BY <1>5 DEF Drafted
  <2>2. /\ a.seq = 1 /\ a.tool = "query_refundable" /\ a.args = [order_id |-> Scalar(OrderId)]
        /\ a.deps = {} /\ a.approval = FALSE /\ DOMAIN a = StepFields
        /\ b.seq = 2 /\ b.tool = "create_refund" /\ b.args = RefundArgs(intent)
        /\ b.deps = {1} /\ b.approval = FALSE /\ DOMAIN b = StepFields
    BY DEF Step, StepFields
  <2>3. Refs([order_id |-> Scalar(OrderId)]) = {} BY <1>2 DEF Refs
  <2> HIDE DEF a, b
  <2>4. StepList(<<a, b>>)
    <3>1. <<a, b>> = [i \in 1..2 |-> <<a, b>>[i]] OBVIOUS
    <3>2. \A i \in DOMAIN <<a, b>> : <<a, b>>[i] = a \/ <<a, b>>[i] = b OBVIOUS
    <3>3. \E n \in Nat : <<a, b>> = [i \in 1..n |-> <<a, b>>[i]] BY <3>1
    <3>4. \A x \in {a, b} : DOMAIN x = StepFields /\ x.seq \in Int BY <2>2
    <3>5. \A x \in {a, b} : x.approval \in BOOLEAN BY <2>2, Zenon
    <3> QED BY <3>2, <3>3, <3>4, <3>5, Zenon DEF StepList
  <2>5. Seqs(<<a, b>>) = {1, 2} BY <2>2 DEF Seqs
  <2>6. Needs(a) = {} /\ Needs(b) \subseteq {1} BY <1>3, <2>2, <2>3 DEF Needs, Targets
  <2>7. NeedsAreEarlier(a, <<a, b>>) /\ NeedsAreEarlier(b, <<a, b>>)
    BY <2>2, <2>5, <2>6 DEF NeedsAreEarlier
  <2>8. \A r \in Refs(a.args) \cup Refs(b.args) : r.kind = "ref" BY <1>3, <2>2, <2>3
  <2>9. a.tool \in Tools /\ b.tool \in Tools BY <2>2 DEF Tools, Declared
  <2>10. Validate(<<a, b>>, Tools) BY <2>2, <2>7, <2>8, <2>9 DEF Validate
  <2> QED BY <2>1, <2>4, <2>10
<1>6. ASSUME NEW tool \in Tools, NEW args, Refs(args) = {}
      PROVE  LET s == <<Step(1, tool, args, {})>> IN StepList(s) /\ Validate(s, Tools)
  <2> DEFINE a == Step(1, tool, args, {})
  <2>1. /\ a.seq = 1 /\ a.tool = tool /\ a.args = args
        /\ a.deps = {} /\ a.approval = FALSE /\ DOMAIN a = StepFields
    BY DEF Step, StepFields
  <2> HIDE DEF a
  <2>2. StepList(<<a>>)
    <3>1. <<a>> = [i \in 1..1 |-> <<a>>[i]] OBVIOUS
    <3>2. \A i \in DOMAIN <<a>> : <<a>>[i] = a OBVIOUS
    <3>3. \E n \in Nat : <<a>> = [i \in 1..n |-> <<a>>[i]] BY <3>1
    <3>4. DOMAIN a = StepFields /\ a.seq \in Int BY <2>1
    <3>5. a.approval \in BOOLEAN BY <2>1, Zenon
    <3> QED BY <3>2, <3>3, <3>4, <3>5, Zenon DEF StepList
  <2>3. Needs(a) = {} BY <1>6, <2>1 DEF Needs, Targets
  <2>4. NeedsAreEarlier(a, <<a>>) BY <2>3 DEF NeedsAreEarlier
  <2>5. Validate(<<a>>, Tools) BY <1>6, <2>1, <2>4 DEF Validate
  <2> QED BY <2>2, <2>5 DEF a
<1>7. CASE intent.action = "create_refund" /\ ~intent.full
  <2>1. Drafted(intent) = <<Step(1, "create_refund", RefundArgs(intent), {})>> BY <1>7 DEF Drafted
  <2>2. Refs(RefundArgs(intent)) = {} BY <1>3, <1>7
  <2>3. "create_refund" \in Tools BY DEF Tools, Declared
  <2> QED BY <1>6, <2>1, <2>2, <2>3
<1>8. CASE intent.action = "query_order"
  <2>1. Drafted(intent) = <<Step(1, "query_order", [order_id |-> Scalar(OrderId)], {})>> BY <1>8 DEF Drafted
  <2>2. Refs([order_id |-> Scalar(OrderId)]) = {} BY <1>2 DEF Refs
  <2>3. "query_order" \in Tools BY DEF Tools, Declared
  <2> QED BY <1>6, <2>1, <2>2, <2>3
<1>9. CASE intent.action = "query_logistics"
  <2>1. Drafted(intent) = <<Step(1, "query_logistics", [order_no |-> Scalar(OrderId)], {})>> BY <1>9 DEF Drafted
  <2>2. Refs([order_no |-> Scalar(OrderId)]) = {} BY <1>2 DEF Refs
  <2>3. "query_logistics" \in Tools BY DEF Tools, Declared
  <2> QED BY <1>6, <2>1, <2>2, <2>3
<1> QED BY <1>1, <1>5, <1>7, <1>8, <1>9

-----------------------------------------------------------------------------
(* What the checks of a model's reply leave of its steps.                   *)
LEMMA CompletedKeepsRefs ==
  ASSUME NEW tool, NEW args, Refs(Completed(tool, args)) = {} PROVE Refs(args) = {}
<1> SUFFICES ASSUME NEW p \in DOMAIN args, IsRef(args[p]) PROVE FALSE
  BY DEF Refs
<1>1. p \in DOMAIN Completed(tool, args) /\ Completed(tool, args)[p] = args[p]
  BY DEF Completed
<1> QED BY <1>1 DEF Refs

LEMMA CompletedIsPinned ==
  ASSUME NEW tool, NEW args, Pinned(args)
  PROVE  /\ "order_id" \in DOMAIN Completed(tool, args)
         /\ \/ IsRef(Completed(tool, args)["order_id"])
            \/ Completed(tool, args)["order_id"] = Scalar(OrderId)
BY DEF Completed, Pinned

LEMMA WithOrderKeeps ==
  ASSUME NEW steps, StepList(steps)
  PROVE  LET given == [i \in DOMAIN steps |-> WithOrder(steps[i])]
         IN  /\ StepList(given) /\ DOMAIN given = DOMAIN steps
             /\ \A i \in DOMAIN steps :
                  /\ given[i].tool = steps[i].tool
                  /\ given[i].args = Completed(steps[i].tool, steps[i].args)
<1> DEFINE given == [i \in DOMAIN steps |-> WithOrder(steps[i])]
<1>1. PICK n \in Nat : steps = [i \in 1..n |-> steps[i]] BY DEF StepList
<1>2. DOMAIN steps = 1..n BY <1>1
<1>3. DOMAIN given = 1..n /\ given = [i \in 1..n |-> given[i]] BY <1>2
<1>4. ASSUME NEW i \in 1..n
      PROVE  /\ given[i].tool = steps[i].tool /\ given[i].seq = steps[i].seq
             /\ given[i].args = Completed(steps[i].tool, steps[i].args)
             /\ given[i].approval = steps[i].approval /\ DOMAIN given[i] = StepFields
  <2>1. given[i] = [steps[i] EXCEPT !.args = Completed(steps[i].tool, @)]
    BY <1>2 DEF WithOrder
  <2>2. DOMAIN steps[i] = StepFields BY <1>2 DEF StepList
  <2> QED BY <2>1, <2>2 DEF StepFields
<1>5. \A i \in 1..n : steps[i].seq \in Int /\ steps[i].approval \in BOOLEAN BY <1>2 DEF StepList
<1> HIDE DEF given
<1>6. StepList(given) BY <1>3, <1>4, <1>5 DEF StepList
<1> QED BY <1>2, <1>3, <1>4, <1>6 DEF given

-----------------------------------------------------------------------------
LEMMA InitPlanning == PlanningInit => PInv
<1> SUFFICES ASSUME PlanningInit PROVE PInv OBVIOUS
<1>1. PICK backend \in Backends :
        draft = [at |-> "idle", attempt |-> 0, planner |-> backend, steps |-> <<>>, shown |-> <<>>]
  BY DEF PlanningInit
<1>2. run = [status |-> "NONE", plan |-> <<>>, shown |-> <<>>] BY DEF PlanningInit, NoRun
<1>3. DOMAIN results = {} /\ DOMAIN signed = {} BY DEF PlanningInit
<1>4. call = NoCall /\ call.at = 0 BY DEF PlanningInit, NoCall
<1>5. PlanningTypeOK BY <1>1, <1>2, <1>3, <1>4, PlanningAssumption DEF PlanningInit, PlanningTypeOK
<1>6. DraftInv BY <1>1 DEF DraftInv, AnnouncedIsUsable
<1>7. RunInv BY <1>2 DEF RunInv
<1>8. CallInv BY <1>4 DEF CallInv
<1> QED BY <1>5, <1>6, <1>7, <1>8 DEF PInv

(* A step that leaves the draft or the run alone.                           *)
LEMMA DraftStands == ASSUME PInv, UNCHANGED draft PROVE DraftInv'
BY DEF PInv, DraftInv, AnnouncedIsUsable

LEMMA RunStands == ASSUME PInv, UNCHANGED run PROVE RunInv'
BY DEF PInv, RunInv

LEMMA SignedType ==
  PlanningTypeOK => \A step : Signed(step) \in 0..2
BY DEF PlanningTypeOK, Signed

(* A step that leaves the plan, the results and the step past the gate alone,   *)
(* and takes no signature back.                                             *)
LEMMA CallStands ==
  ASSUME PInv, PlanningTypeOK', run'.plan = run.plan, UNCHANGED <<trust, results, call>>,
         \A step : Signed(step)' >= Signed(step)
  PROVE  CallInv'
<1> SUFFICES ASSUME call # NoCall PROVE CallInv' BY DEF CallInv
<1>1. /\ Done' = Done /\ Remaining(run.plan, Done)' = Remaining(run.plan, Done)
      /\ NextUp(run.plan, Done)' = NextUp(run.plan, Done) /\ Current' = Current
  BY DEF Done, Remaining, NextUp, Current
<1>2. CallInv BY DEF PInv
<1>3. PICK step : step = Current OBVIOUS
<1> DEFINE needed == SignaturesFor(Spec(step), trust, call.amount, None)
<1>4. Remaining(run.plan, Done) # {} /\ Signed(step) >= needed
  BY <1>2, <1>3 DEF CallInv
<1>5. Spec(Current)' = Spec(step) /\ Signed(Current)' = Signed(step)'
  BY <1>1, <1>3 DEF Spec, Signed
<1>6. Signed(step) \in 0..2 /\ Signed(step)' \in 0..2 BY DEF PInv, PlanningTypeOK, Signed
<1>7. needed \in 0..2 BY OneOrTwo DEF SignaturesFor
<1> HIDE DEF needed
<1>8. Signed(step)' >= needed BY <1>4, <1>6, <1>7
<1>9. Signed(step) >= 1 => Signed(step)' >= 1 BY <1>6
<1> QED BY <1>1, <1>2, <1>3, <1>5, <1>8, <1>9 DEF CallInv, needed

LEMMA CallForgotten == ASSUME call' = NoCall PROVE CallInv'
BY DEF CallInv

(* A step of the planner. *)
LEMMA RunSideStands ==
  ASSUME PInv, PlanningTypeOK', UNCHANGED <<trust, available, run, results, signed, call>>
  PROVE  RunInv' /\ CallInv'
<1>1. \A step : Signed(step)' >= Signed(step)
  <2>1. \A step : Signed(step)' = Signed(step) BY DEF Signed
  <2> QED BY <2>1, SignedType DEF PInv
<1> QED BY <1>1, RunStands, CallStands

LEMMA DraftTypeStands ==
  ASSUME PInv, trust' \in Trusts, available' \in Int, UNCHANGED <<run, results, signed, call>>,
         draft'.at \in {"idle", "asking", "announced", "refused"},
         draft'.attempt \in 0..MaxRepairs + 1, draft'.planner \in Backends
  PROVE  PlanningTypeOK'
BY DEF PInv, PlanningTypeOK

LEMMA RulesPInv == ASSUME PInv, NEW intent \in Intents, DraftByRules(intent) PROVE PInv'
<1>0. /\ DOMAIN draft = {"at", "attempt", "planner", "steps", "shown"}
      /\ UNCHANGED <<trust, available, run, results, signed, call>> /\ draft.planner = "deterministic"
  BY DEF PInv, DraftInv, DraftByRules
<1>1. /\ DOMAIN draft' = DOMAIN draft /\ draft'.attempt = draft.attempt /\ draft'.planner = draft.planner
      /\ draft'.at \in {"announced", "refused"}
      /\ draft'.at = "announced" => Vetted(draft'.steps, draft'.shown)
  <2>1. CASE intent.action # "unknown" /\ Announce(Drafted(intent))
    BY <2>1, DraftedIsValid, AnnouncedIsVetted
  <2>2. CASE Refused BY <1>0, <2>2 DEF Refused
  <2> QED BY <2>1, <2>2 DEF DraftByRules
<1>2. AnnouncedIsUsable' BY <1>0, <1>1 DEF AnnouncedIsUsable, Vetted
<1>3. DraftInv' BY <1>0, <1>1, <1>2 DEF DraftInv
<1>4. PlanningTypeOK' BY <1>0, <1>1, DraftTypeStands DEF PInv, PlanningTypeOK
<1> QED BY <1>0, <1>3, <1>4, RunSideStands DEF PInv

LEMMA AskPInv == ASSUME PInv, NEW intent \in Intents, Ask(intent) PROVE PInv'
<1>0. /\ DOMAIN draft = {"at", "attempt", "planner", "steps", "shown"}
      /\ UNCHANGED <<trust, available, run, results, signed, call>>
  BY DEF PInv, DraftInv, Ask
<1>1. /\ DOMAIN draft' = DOMAIN draft /\ draft'.planner = draft.planner
      /\ draft'.at \in {"asking", "refused"} /\ draft'.attempt \in {1, draft.attempt}
  BY <1>0 DEF Ask, Refused
<1>2. DraftInv' BY <1>0, <1>1 DEF DraftInv, AnnouncedIsUsable
<1>3. draft'.attempt \in 0..MaxRepairs + 1
  BY <1>1, PlanningAssumption DEF PInv, PlanningTypeOK
<1>4. PlanningTypeOK' BY <1>0, <1>1, <1>3, DraftTypeStands DEF PInv, PlanningTypeOK
<1> QED BY <1>0, <1>2, <1>4, RunSideStands DEF PInv

LEMMA ReplyPInv == ASSUME PInv, NEW reply \in Replies, Reply(reply) PROVE PInv'
<1>0. /\ DOMAIN draft = {"at", "attempt", "planner", "steps", "shown"}
      /\ UNCHANGED <<trust, available, run, results, signed, call>>
  BY DEF PInv, DraftInv, Reply
<1> DEFINE given == [i \in DOMAIN reply.steps |-> WithOrder(reply.steps[i])]
<1>1. CASE PlanAccepted(reply) /\ Announce(given)
  <2>1. StepList(reply.steps) BY GivenIsStepList, PlanningAssumption
  <2>2. /\ StepList(given) /\ DOMAIN given = DOMAIN reply.steps
        /\ \A i \in DOMAIN given :
             /\ given[i].tool = reply.steps[i].tool
             /\ given[i].args = Completed(reply.steps[i].tool, reply.steps[i].args)
    BY <2>1, WithOrderKeeps
  <2>3. Validate(given, Tools) BY <1>1 DEF PlanAccepted
  <2>4. \A i \in DOMAIN given : StepAccepted(reply.steps[i]) BY <1>1, <2>2 DEF PlanAccepted
  <2> HIDE DEF given
  <2>5. /\ DOMAIN draft' = DOMAIN draft /\ draft'.attempt = draft.attempt /\ draft'.planner = draft.planner
        /\ draft'.at \in {"announced", "refused"}
        /\ draft'.at = "announced" =>
             Vetted(draft'.steps, draft'.shown) /\ draft'.steps = Finalized(given)
    BY <1>1, <2>2, <2>3, AnnouncedIsVetted
  <2>6. ASSUME NEW i \in DOMAIN given
        PROVE  LET step == Finalized(given)[i]
               IN  /\ Refs(step.args) = {} => Fits(step.tool, step.args)
                   /\ "order_id" \in DOMAIN step.args
                   /\ IsRef(step.args["order_id"]) \/ step.args["order_id"] = Scalar(OrderId)
    <3> DEFINE t == reply.steps[i].tool
               a == reply.steps[i].args
    <3>1. Finalized(given)[i].tool = t /\ Finalized(given)[i].args = Completed(t, a)
      BY <2>2, <2>6, FinalizedKeeps
    <3>2. Pinned(a) /\ (Refs(a) = {} => Fits(t, Completed(t, a))) BY <2>4, <2>6 DEF StepAccepted
    <3> QED BY <3>1, <3>2, CompletedKeepsRefs, CompletedIsPinned
  <2>7. DOMAIN Finalized(given) = DOMAIN given BY <2>2, FinalizedKeeps
  <2>8. AnnouncedIsUsable' BY <2>5, <2>6, <2>7 DEF AnnouncedIsUsable, Vetted
  <2>9. DraftInv' BY <1>0, <2>5, <2>8 DEF DraftInv
  <2>10. PlanningTypeOK' BY <1>0, <2>5, DraftTypeStands DEF PInv, PlanningTypeOK
  <2> QED BY <1>0, <2>9, <2>10, RunSideStands DEF PInv
<1>2. CASE Refused \/ Rejected
  <2>1. /\ DOMAIN draft' = DOMAIN draft /\ draft'.planner = draft.planner
        /\ draft'.at \in {draft.at, "refused"}
        /\ draft'.attempt = draft.attempt \/ (~(draft.attempt > MaxRepairs) /\ draft'.attempt = draft.attempt + 1)
    BY <1>0, <1>2 DEF Refused, Rejected
  <2>2. draft.at = "asking" BY DEF Reply
  <2>3. DraftInv' BY <1>0, <2>1, <2>2 DEF DraftInv, AnnouncedIsUsable
  <2>4. draft'.attempt \in 0..MaxRepairs + 1
    BY <2>1, PlanningAssumption DEF PInv, PlanningTypeOK
  <2>5. PlanningTypeOK' BY <1>0, <2>1, <2>2, <2>4, DraftTypeStands DEF PInv, PlanningTypeOK
  <2> QED BY <1>0, <2>3, <2>5, RunSideStands DEF PInv
<1>3. (PlanAccepted(reply) /\ Announce(given)) \/ Refused \/ Rejected
  BY Zenon DEF Reply
<1> QED BY <1>1, <1>2, <1>3

(* Registering: the plan is valid, and what was shown was vetted.           *)
LEMMA RegisterPInv ==
  ASSUME PInv, NEW steps, NEW shown, Register(steps, shown), StepList(steps),
         shown = <<>> \/ Vetted(steps, shown)
  PROVE  PInv'
<1>1. /\ run' = [status |-> "PENDING", plan |-> steps, shown |-> shown] /\ Validate(steps, Tools)
      /\ run = NoRun /\ UNCHANGED <<trust, available, draft, results, signed, call>>
  BY DEF Register
<1>2. Vetted(steps, shown) BY <1>1 DEF Vetted
<1>3. RunInv' BY <1>1, <1>2 DEF RunInv
<1>4. Seqs(run.plan) = {} BY <1>1 DEF NoRun, Seqs
<1>5. DOMAIN results = {} BY <1>4 DEF PInv, PlanningTypeOK
<1>6. call = NoCall BY <1>1 DEF PInv, CallInv, NoRun, Remaining
<1>7. PlanningTypeOK' BY <1>1, <1>5, <1>6 DEF PInv, PlanningTypeOK, NoCall
<1> QED BY <1>1, <1>3, <1>6, <1>7, CallForgotten, DraftStands DEF PInv

LEMMA CreatePInv ==
  ASSUME PInv, CreateFromDraft \/ \E steps \in Submitted : CreateFromSteps(steps) PROVE PInv'
<1>1. CASE CreateFromDraft
  <2>1. Vetted(draft.steps, draft.shown) BY <1>1 DEF CreateFromDraft, PInv, DraftInv
  <2> QED BY <1>1, <2>1, RegisterPInv DEF CreateFromDraft, Vetted
<1>2. ASSUME NEW steps \in Submitted, CreateFromSteps(steps) PROVE PInv'
  <2>1. StepList(steps) BY GivenIsStepList, PlanningAssumption
  <2> QED BY <1>2, <2>1, RegisterPInv DEF CreateFromSteps
<1> QED BY <1>1, <1>2

(* Only the status of the run moves.                                        *)
LEMMA EndedPInv ==
  ASSUME PInv, NEW status \in {"PENDING", "WAITING_APPROVAL", "SUCCEEDED", "FAILED"}, Ended(status),
         UNCHANGED <<trust, available, draft, results, signed>>, call' = NoCall
  PROVE  PInv'
<1>1. run' = [run EXCEPT !.status = status] /\ DOMAIN run = {"status", "plan", "shown"}
  BY DEF Ended, PInv, RunInv
<1>2. run'.status = status /\ run'.plan = run.plan /\ run'.shown = run.shown /\ DOMAIN run' = DOMAIN run
  BY <1>1
<1>3. RunInv' BY <1>1, <1>2 DEF PInv, RunInv
<1>4. PlanningTypeOK' BY <1>2 DEF PInv, PlanningTypeOK, NoCall
<1> QED BY <1>3, <1>4, DraftStands, CallForgotten DEF PInv

(* The step that is next stands in the plan and is the first not yet done.   *)
LEMMA NextUpIsFirst ==
  ASSUME NEW steps, StepList(steps), NEW done, Remaining(steps, done) # {}
  PROVE  /\ NextUp(steps, done) \in Remaining(steps, done)
         /\ \A j \in Remaining(steps, done) : NextUp(steps, done) <= j
<1> DEFINE R == Remaining(steps, done)
<1>1. PICK n \in Nat : steps = [i \in 1..n |-> steps[i]] BY DEF StepList
<1>2. R \subseteq Nat BY <1>1 DEF Remaining
<1>3. PICK i \in R : \A j \in R : <<j, i>> \notin OpToRel(<, Nat)
  BY <1>2, NatLessThanWellFounded, WFMin, Zenon
<1>4. \A j \in R : ~(j < i)
  BY <1>2, <1>3 DEF OpToRel
<1>5. \A j \in R : i <= j BY <1>2, <1>4
<1> QED BY <1>5, Zenon DEF NextUp

LEMMA CurrentIsInPlan ==
  ASSUME PInv, Remaining(run.plan, Done) # {}
  PROVE  /\ NextUp(run.plan, Done) \in DOMAIN run.plan /\ run.plan # <<>>
         /\ Current.seq \in Seqs(run.plan) \ Done /\ Current.tool \in Tools
<1>1. run.plan # <<>> BY DEF Remaining
<1>2. StepList(run.plan) /\ Validate(run.plan, Tools) BY <1>1 DEF PInv, RunInv, Vetted
<1>3. NextUp(run.plan, Done) \in Remaining(run.plan, Done) BY <1>2, NextUpIsFirst
<1> QED BY <1>1, <1>2, <1>3 DEF Remaining, Current, Seqs, Validate

(* Policy: only the amount counts, however it is told.                      *)
LEMMA SameAmountSameVerdict ==
  ASSUME NEW spec, NEW level, NEW a, NEW x, NEW b, NEW y, AmountOf(spec, a, x) = AmountOf(spec, b, y)
  PROVE  /\ Evaluate(spec, level, a, x) = Evaluate(spec, level, b, y)
         /\ Requirement(spec, a, x) = Requirement(spec, b, y)
         /\ SignaturesFor(spec, level, a, x) = SignaturesFor(spec, level, b, y)
BY DEF Evaluate, Requirement, SignaturesFor

LEMMA AnswerType == ASSUME PInv, NEW step PROVE GateAnswer(step) \in Amount
<1>1. available \in Int BY DEF PInv, PlanningTypeOK
<1> QED BY <1>1 DEF GateAnswer, GateAmount, EffectiveAmount, Answer, Amount

LEMMA PassGateKeeps == ASSUME PInv, PassGate PROVE CallInv'
<1> DEFINE spec == Spec(Current)
           arg == AmountArgument(Resolved(Current))
           answer == GateAnswer(Current)
           amount == AmountOf(spec, arg, answer)
<1>1. /\ UNCHANGED <<trust, run, results, signed>> /\ Remaining(run.plan, Done) # {} /\ MayGo(Current)
      /\ call'.at = NextUp(run.plan, Done) /\ call'.args = Resolved(Current) /\ call'.amount = amount
  BY DEF PassGate, AtStep, AtGate, Driving
<1>2. /\ Remaining(run.plan, Done)' = Remaining(run.plan, Done) /\ NextUp(run.plan, Done)' = NextUp(run.plan, Done)
      /\ Current' = Current /\ Spec(Current)' = spec /\ Signed(Current)' = Signed(Current)
  BY <1>1 DEF Done, Remaining, NextUp, Current, Spec, Signed
<1>3. answer \in Amount BY AnswerType
<1>4. AmountOf(spec, amount, None) = amount
  BY <1>3, PolicyAssumption DEF AmountOf, Readable, Amount
<1>5. Judged(Current) = Evaluate(spec, trust, arg, answer) /\ RequiredNow(Current) = Requirement(spec, arg, answer)
  BY DEF Judged, RequiredNow
<1> HIDE DEF spec, arg, answer, amount
<1>6. /\ Evaluate(spec, trust, amount, None) = Judged(Current)
      /\ SignaturesFor(spec, trust, amount, None) = IF Judged(Current) = "ALLOW" THEN 0 ELSE RequiredNow(Current)
  <2>1. /\ Evaluate(spec, trust, amount, None) = Evaluate(spec, trust, arg, answer)
        /\ SignaturesFor(spec, trust, amount, None) = SignaturesFor(spec, trust, arg, answer)
    BY <1>4, SameAmountSameVerdict DEF amount
  <2> QED BY <1>5, <2>1 DEF SignaturesFor
<1>7. Judged(Current) \in Decision /\ Judged(Current) # "DENY"
  <2>1. Current.tool \in Tools BY <1>1, CurrentIsInPlan
  <2>2. trust \in TrustLevel BY PlanningAssumption DEF PInv, PlanningTypeOK
  <2> QED BY <1>1, <2>1, <2>2, Decided DEF Judged, Spec, MayGo
<1>8. Signed(Current) \in 0..2 BY SignedType DEF PInv
<1>9. RequiredNow(Current) \in 1..2 BY OneOrTwo DEF RequiredNow
<1>10. Signed(Current) >= SignaturesFor(spec, trust, amount, None)
  BY <1>1, <1>6, <1>7, <1>8, <1>9 DEF MayGo, NeedsApproval, Decision
<1>11. Current.approval => Signed(Current) >= 1
  BY <1>1, <1>8, <1>9 DEF MayGo, NeedsApproval
<1>12. IF Named(Resolved(Current)) THEN arg # None => amount = AmountOf(spec, arg, None)
                                   ELSE amount \in Amount
  <2>1. CASE Named(Resolved(Current)) BY <2>1 DEF amount, AmountOf
  <2>2. CASE ~Named(Resolved(Current))
    <3>1. arg = None BY <2>2 DEF arg, AmountArgument, Named
    <3> QED BY <1>3, <2>2, <3>1 DEF amount, AmountOf, Amount
  <2> QED BY <2>1, <2>2
<1> QED BY <1>1, <1>2, <1>6, <1>7, <1>10, <1>11, <1>12 DEF CallInv, arg

(* What the tool takes leaves a whole number of cents.                      *)
LEMMA LeavesCents == ASSUME PInv, Perform PROVE available' \in Int
<1>1. available \in Int BY DEF PInv, PlanningTypeOK
<1>2. Named(call.args) => call.args["amount_cents"].value \in Int
  BY DEF Perform, Fits, Named
<1>3. Requested \in Int BY <1>1, <1>2 DEF Requested
<1> QED BY <1>1, <1>3, PlanningAssumption DEF Perform, Moves

LEMMA CalleeIsCurrent ==
  ASSUME PInv, InCall
  PROVE  /\ Remaining(run.plan, Done) # {} /\ Callee = Current
         /\ call.at \in DOMAIN run.plan /\ call.at = NextUp(run.plan, Done)
<1>1. Remaining(run.plan, Done) # {} /\ call.at = NextUp(run.plan, Done) BY DEF InCall, PInv, CallInv
<1> QED BY <1>1, CurrentIsInPlan DEF Callee, Current

LEMMA DrivePInv == ASSUME PInv, Drive PROVE PInv'
<1>1. CASE Finish \/ Refuse \/ Suspend \/ Fail
  BY <1>1, EndedPInv DEF Finish, Refuse, Suspend, Fail, AtStep, AtGate, InCall, Driving
<1>2. CASE PassGate
  <2>1. /\ UNCHANGED <<trust, available, draft, run, results, signed>>
        /\ call'.at = NextUp(run.plan, Done) /\ Remaining(run.plan, Done) # {}
    BY <1>2 DEF PassGate, AtStep, AtGate, Driving
  <2>2. call'.at \in DOMAIN run.plan BY <2>1, CurrentIsInPlan
  <2>3. PlanningTypeOK' BY <2>1, <2>2 DEF PInv, PlanningTypeOK
  <2>4. CallInv' BY <1>2, PassGateKeeps
  <2> QED BY <2>1, <2>3, <2>4, DraftStands, RunStands DEF PInv
<1>3. CASE Perform
  <2>1. /\ UNCHANGED <<trust, draft, run, signed>> /\ call' = NoCall
        /\ DOMAIN results' = DOMAIN results \cup {Callee.seq}
    BY <1>3 DEF Perform, InCall, Driving, Done
  <2>2. Callee.seq \in Seqs(run.plan) BY <1>3, CalleeIsCurrent, CurrentIsInPlan DEF Perform
  <2>3. available' \in Int BY <1>3, LeavesCents
  <2>4. PlanningTypeOK' BY <2>1, <2>2, <2>3 DEF PInv, PlanningTypeOK, NoCall
  <2> QED BY <2>1, <2>4, DraftStands, RunStands, CallForgotten DEF PInv
<1> QED BY <1>1, <1>2, <1>3 DEF Drive

LEMMA ApprovePInv == ASSUME PInv, NEW i \in DOMAIN run.plan, Approve(i) PROVE PInv'
<1> DEFINE step == run.plan[i]
           status == IF run.status = "WAITING_APPROVAL" /\ Signed(step) + 1 >= RequiredAtRoute(step)
                       THEN "PENDING" ELSE run.status
<1>1. /\ run # NoRun /\ Signed(step) < RequiredAtRoute(step)
      /\ signed' = [n \in DOMAIN signed \cup {step.seq} |->
                      IF n = step.seq THEN Signed(step) + 1 ELSE signed[n]]
      /\ run' = [run EXCEPT !.status = status]
      /\ UNCHANGED <<trust, available, draft, results, call>>
  BY Zenon DEF Approve
<1>2. Signed(step) \in 0..2 BY DEF Signed, PInv, PlanningTypeOK
<1>3. RequiredAtRoute(step) \in 1..2 BY OneOrTwo DEF RequiredAtRoute
<1>4. Signed(step) + 1 \in 0..2 BY <1>1, <1>2, <1>3
<1>5. \A n \in DOMAIN signed' : signed'[n] \in 0..2
  BY <1>1, <1>4 DEF PInv, PlanningTypeOK
<1>6. /\ run'.status = status /\ run'.plan = run.plan /\ run'.shown = run.shown
      /\ DOMAIN run' = DOMAIN run
  BY <1>1 DEF PInv, RunInv
<1>7. RunInv' BY <1>6 DEF PInv, RunInv
<1>8. PlanningTypeOK' BY <1>1, <1>5, <1>6 DEF PInv, PlanningTypeOK
<1>9. ASSUME NEW other PROVE Signed(other)' >= Signed(other)
  <2>1. Signed(other) \in 0..2 BY SignedType DEF PInv
  <2>2. CASE other.seq = step.seq
    <3>1. Signed(other) = Signed(step) BY <2>2 DEF Signed
    <3>2. Signed(other)' = Signed(step) + 1 BY <1>1, <2>2 DEF Signed
    <3> QED BY <1>2, <3>1, <3>2
  <2>3. CASE other.seq # step.seq
    <3>1. Signed(other)' = Signed(other) BY <1>1, <2>3 DEF Signed
    <3> QED BY <2>1, <3>1
  <2> QED BY <2>2, <2>3
<1>10. CallInv' BY <1>1, <1>6, <1>8, <1>9, CallStands
<1> QED BY <1>1, <1>7, <1>8, <1>10, DraftStands DEF PInv

LEMMA NextPInv == PInv /\ [PlanningNext]_planningVars => PInv'
<1> SUFFICES ASSUME PInv, [PlanningNext]_planningVars PROVE PInv' OBVIOUS
<1>1. CASE UNCHANGED planningVars
  <2>1. UNCHANGED <<trust, available, draft, run, results, signed, call>> BY <1>1 DEF planningVars
  <2>2. PlanningTypeOK' BY <2>1 DEF PInv, PlanningTypeOK
  <2> QED BY <2>1, <2>2, DraftStands, RunSideStands DEF PInv
<1>2. ASSUME NEW level \in Trusts, Reconfigure(level) PROVE PInv'
  <2>1. trust' = level /\ call' = NoCall /\ UNCHANGED <<available, draft, run, results, signed>>
    BY <1>2 DEF Reconfigure
  <2>2. PlanningTypeOK' BY <2>1 DEF PInv, PlanningTypeOK, NoCall
  <2> QED BY <2>1, <2>2, DraftStands, RunStands, CallForgotten DEF PInv
<1>3. ASSUME NEW cents \in Available, Drift(cents) PROVE PInv'
  <2>1. available' = cents /\ UNCHANGED <<trust, draft, run, results, signed, call>> BY <1>3 DEF Drift
  <2>2. PlanningTypeOK' BY <2>1, PlanningAssumption DEF PInv, PlanningTypeOK
  <2>3. \A step : Signed(step)' >= Signed(step)
    <3>1. \A step : Signed(step)' = Signed(step) BY <2>1 DEF Signed
    <3> QED BY <3>1, SignedType DEF PInv
  <2> QED BY <2>1, <2>2, <2>3, DraftStands, RunStands, CallStands DEF PInv
<1> QED BY <1>1, <1>2, <1>3, RulesPInv, AskPInv, ReplyPInv, CreatePInv, DrivePInv, ApprovePInv
     DEF PlanningNext

LEMMA PlanningInvariant == PlanningSpec => []PInv
<1> QED BY InitPlanning, NextPInv, PTL DEF PlanningSpec

-----------------------------------------------------------------------------
(* Type correctness, for any sentences, replies, plans and settings.        *)
THEOREM PlanningTypeCorrect == PlanningSpec => []PlanningTypeOK
<1> QED BY PlanningInvariant, PTL DEF PInv

(* Whatever the model replies, what is announced can be registered, fits the  *)
(* tools and is about the order the system found (llm.py, _validate_plan;     *)
(* plan.py: no plan is accepted by the planner and blown up afterwards).     *)
THEOREM AnnouncedAlwaysUsable == PlanningSpec => []AnnouncedIsUsable
<1>1. PInv => AnnouncedIsUsable BY DEF PInv, DraftInv
<1> QED BY <1>1, PlanningInvariant, PTL

(* No registered plan comes to a step whose dependencies or references are    *)
(* missing (executor.py, _assert_deps_done; plan.py, validate).             *)
THEOREM NothingIsEverMissing == PlanningSpec => []NothingIsMissing
<1>1. PInv => NothingIsMissing
  <2> SUFFICES ASSUME PInv, Remaining(run.plan, Done) # {} PROVE Needs(Current) \subseteq Done
    BY DEF NothingIsMissing
  <2>1. run.plan # <<>> BY CurrentIsInPlan
  <2>2. StepList(run.plan) /\ Validate(run.plan, Tools) BY <2>1 DEF PInv, RunInv, Vetted
  <2>3. /\ NextUp(run.plan, Done) \in Remaining(run.plan, Done)
        /\ \A j \in Remaining(run.plan, Done) : NextUp(run.plan, Done) <= j
    BY <2>2, NextUpIsFirst
  <2>4. IsPlan(run.plan) BY <2>2, StepListIsPlan
  <2> QED BY <2>2, <2>3, <2>4, NextStepHasItsNeeds DEF Current
<1> QED BY <1>1, PlanningInvariant, PTL

(* A write that passed the gate is as well signed as what it moves asks for.   *)
LEMMA MovedWasSigned ==
  ASSUME PInv, Perform, Writes(Current.tool), ~Outgrown
  PROVE  LET moved == Moved(Result(Current.tool, available, Requested))
         IN  /\ Evaluate(Spec(Current), trust, moved, None) # "DENY"
             /\ Signed(Current) >= SignaturesFor(Spec(Current), trust, moved, None)
<1> DEFINE spec == Spec(Current)
           moved == Moved(Result(Current.tool, available, Requested))
<1>1. /\ call # NoCall /\ Remaining(run.plan, Done) # {} /\ Fits(Current.tool, call.args)
      /\ Current.tool \in Tools
  BY CalleeIsCurrent, CurrentIsInPlan DEF Perform, InCall
<1>2. /\ Evaluate(spec, trust, call.amount, None) # "DENY"
      /\ Signed(Current) >= SignaturesFor(spec, trust, call.amount, None)
  BY <1>1 DEF PInv, CallInv
<1>3. Current.tool \in {"create_refund", "close_ticket"}
  BY <1>1 DEF Tools, Declared, Writes, ReadOnly
<1>4. CASE Current.tool = "close_ticket"
  <2>1. spec = CloseTicket BY <1>4 DEF Spec, Declared
  <2>2. CloseTicket.amount = FALSE BY DEF CloseTicket, ReadOnly
  <2> HIDE DEF spec, moved
  <2>3. AmountOf(spec, moved, None) = AmountOf(spec, call.amount, None) BY <2>1, <2>2, Zenon DEF AmountOf
  <2> QED BY <1>2, <2>3, SameAmountSameVerdict DEF spec, moved
<1>5. CASE Current.tool = "create_refund"
  <2>1. moved = Requested
    <3>1. Result(Current.tool, available, Requested)
            = [ticket_id |-> Scalar(1), refund_amount_cents |-> Scalar(Requested)]
      BY <1>5 DEF Result
    <3> QED BY <3>1 DEF Moved, Scalar
  <2> HIDE DEF moved, spec
  <2>2. CASE Named(call.args)
    <3>1. /\ call.args["amount_cents"].kind = "scalar" /\ call.args["amount_cents"].value \in Int
      BY <1>1, <2>2 DEF Fits, Named
    <3>2. AmountArgument(call.args) = moved /\ moved \in Int
      BY <2>1, <2>2, <3>1 DEF AmountArgument, Requested, Named
    <3>3. call.amount = AmountOf(spec, moved, None)
      BY <1>1, <2>2, <3>2, PolicyAssumption DEF PInv, CallInv, spec
    <3>4. AmountOf(spec, moved, None) = AmountOf(spec, call.amount, None)
      BY <3>2, <3>3, PolicyAssumption DEF AmountOf, Readable
    <3> QED BY <1>2, <3>4, SameAmountSameVerdict DEF spec, moved
  <2>3. CASE ~Named(call.args)
    <3>1. moved = available /\ available \in Int /\ call.amount \in Amount
      BY <1>1, <2>1, <2>3 DEF Requested, PInv, CallInv, PlanningTypeOK
    <3>2. NoMore(moved, call.amount) BY <2>3, <3>1, PolicyAssumption DEF Outgrown, NoMore, Amount
    <3>3. spec \in ToolSpec /\ trust \in TrustLevel
      <4>1. CreateRefund \in ToolSpec BY DEF CreateRefund, ToolSpec, RiskLevel
      <4> QED BY <1>5, <4>1, PlanningAssumption DEF spec, Spec, Declared, PInv, PlanningTypeOK
    <3>4. moved \in Amount /\ moved # Unreadable /\ call.amount # Unreadable /\ None # Unreadable
      BY <3>1, PolicyAssumption DEF Amount
    <3>5. /\ AmountOf(spec, moved, None) = AmountOf(spec, None, moved)
          /\ AmountOf(spec, call.amount, None) = AmountOf(spec, None, call.amount)
      BY <3>4 DEF AmountOf, Readable
    <3>6. /\ Strictness(Evaluate(spec, trust, None, moved)) <= Strictness(Evaluate(spec, trust, None, call.amount))
          /\ SignaturesFor(spec, trust, None, moved) <= SignaturesFor(spec, trust, None, call.amount)
      BY <3>1, <3>2, <3>3, <3>4, LargerIsNotLooser
    <3>7. /\ Evaluate(spec, trust, None, call.amount) # "DENY"
          /\ Signed(Current) >= SignaturesFor(spec, trust, None, call.amount)
      BY <1>2, <3>5, SameAmountSameVerdict DEF spec
    <3>8. \A x : Evaluate(spec, trust, None, x) \in Decision
      BY <1>1, <3>3, Decided DEF spec, Spec
    <3>9. Evaluate(spec, trust, None, moved) # "DENY" BY <3>6, <3>7, <3>8 DEF Decision, Strictness
    <3>10. Signed(Current) >= SignaturesFor(spec, trust, None, moved)
      <4>1. Signed(Current) \in 0..2 BY SignedType DEF PInv
      <4>2. \A x : SignaturesFor(spec, trust, None, x) \in 0..2 BY OneOrTwo DEF SignaturesFor
      <4> QED BY <3>6, <3>7, <4>1, <4>2
    <3> QED BY <3>5, <3>9, <3>10, SameAmountSameVerdict DEF spec, moved
  <2> QED BY <2>2, <2>3
<1> QED BY <1>3, <1>4, <1>5

(* However the settings, the quota and the references move between drafting,    *)
(* gate and tool, no write happens for an amount it has too few signatures     *)
(* for, but where the tool was left to name the amount and it grew in between  *)
(* (executor.py, the gate of _drive and _resolve_amount; services/aftersales.py, *)
(* request_refund; finalize.py: the model does not loosen what the policy says). *)
THEOREM AlwaysSignedForWhatItMoves == PlanningSpec => SignedForWhatItMoves
<1>1. ASSUME PInv, PlanningNext, NEW i \in DOMAIN run.plan PROVE WellSigned(i)
  <2> SUFFICES ASSUME Writes(run.plan[i].tool), run.plan[i].seq \in DOMAIN results' \ Done
               PROVE  LET step  == run.plan[i]
                          moved == Moved(results'[step.seq])
                      IN  /\ ~Outgrown =>
                               /\ Evaluate(Spec(step), trust, moved, None) # "DENY"
                               /\ Signed(step) >= SignaturesFor(Spec(step), trust, moved, None)
                          /\ step.approval => Signed(step) >= 1
                          /\ Signed(step) = 0 /\ run.shown # <<>> => run.shown[i] = "ALLOW"
    BY DEF WellSigned
  <2>1. results' # results BY DEF Done
  <2>2. Perform
    BY <1>1, <2>1 DEF PlanningNext, Drive, DraftByRules, Ask, Reply, CreateFromDraft, CreateFromSteps, Register,
                Finish, Refuse, Suspend, PassGate, Fail, AtStep, AtGate, Approve, Reconfigure, Drift
  <2>3. /\ Remaining(run.plan, Done) # {} /\ Callee = Current /\ call # NoCall
        /\ NextUp(run.plan, Done) \in DOMAIN run.plan /\ run.plan # <<>>
    BY <1>1, <2>2, CalleeIsCurrent, CurrentIsInPlan DEF Perform, InCall
  <2>4. DOMAIN results' = Done \cup {Current.seq} /\ Current.seq \notin Done
        /\ results'[Current.seq] = Result(Current.tool, available, Requested)
    BY <1>1, <2>2, <2>3, CurrentIsInPlan DEF Perform
  <2>5. Vetted(run.plan, run.shown) BY <1>1, <2>3 DEF PInv, RunInv
  <2>6. i = NextUp(run.plan, Done) /\ run.plan[i] = Current
    <3>1. run.plan[i].seq = Current.seq BY <2>4
    <3> QED BY <1>1, <2>3, <2>5, <3>1 DEF Current, Vetted, Validate
  <2>7. Current.approval => Signed(Current) >= 1 BY <1>1, <2>3 DEF PInv, CallInv
  <2>8. Signed(Current) = 0 /\ run.shown # <<>> => run.shown[i] = "ALLOW"
    <3>1. Signed(Current) = 0 => ~Current.approval BY <2>7
    <3> QED BY <2>5, <2>6, <3>1 DEF Vetted
  <2> QED BY <1>1, <2>2, <2>4, <2>6, <2>7, <2>8, MovedWasSigned
<1>2. PInv /\ [PlanningNext]_planningVars => [\A i \in DOMAIN run.plan : WellSigned(i)]_planningVars
  BY <1>1
<1> QED BY <1>2, PlanningInvariant, PTL DEF PlanningSpec, SignedForWhatItMoves

===============================================================================
