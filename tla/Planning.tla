------------------------------- MODULE Planning -------------------------------
(***************************************************************************)
(* From an intent to a run that has ended: the planners (planner/), the       *)
(* registration of a run (routes/runs.py, create_run), the gate of _drive     *)
(* with the real policy, and the approval route.                            *)
(*                                                                         *)
(* One request, one plan, one driver: what several executors do to each other *)
(* is in module Executor.  What changes between drafting and executing is     *)
(* here instead: the settings (`trust`; a restart) and what can be refunded   *)
(* (`available`; other requests, module Refund).  The gate asks for the       *)
(* amount in a session of its own; the tool works it out again in the step's  *)
(* transaction, and between the two the driver holds `call`.                 *)
(*                                                                         *)
(* An intent is what the regular expressions and keyword tables find in the   *)
(* sentence.  A reply of the model is a transport or response error, a text   *)
(* that is no plan, or the steps of a plan with any arguments.               *)
(***************************************************************************)
EXTENDS Registry

CONSTANTS
  Backends,       \* planners the settings may choose (settings.llm_configured)
  Intents,        \* [action, order, reason, full, amount]
  Replies,        \* [kind, steps] the model may answer
  Submitted,      \* plans a caller may post without the planner
  MaxRepairs,     \* settings.llm_max_repair_attempts
  Trusts,         \* trust levels the settings may give the actor
  Available       \* what the order may have left to refund

(* A list of steps with the fields the request and the model's reply must     *)
(* have.                                                                    *)
IsStepList(steps) ==
  /\ steps \in Seq({steps[i] : i \in DOMAIN steps})
  /\ \A i \in DOMAIN steps :
       /\ DOMAIN steps[i] = {"seq", "tool", "args", "deps", "approval"}
       /\ steps[i].seq \in Int /\ steps[i].approval \in BOOLEAN

ASSUME PlanningAssumption ==
  /\ \A intent \in Intents :
       intent.action \in {"create_refund", "query_order", "query_logistics", "unknown"} /\ intent.full \in BOOLEAN
  /\ \A reply \in Replies : IsStepList(reply.steps)
  /\ \A steps \in Submitted : IsStepList(steps)
  /\ Backends \subseteq {"deterministic", "llm"} /\ MaxRepairs \in Nat
  /\ Trusts \subseteq TrustLevel /\ Trusts # {}
  /\ Available \subseteq Int /\ Available # {}

VARIABLES
  trust,      \* TrustLevel of the actor under the current settings
  available,  \* refundable cents of the order
  draft,      \* the request at the planner
  run,        \* the registered run
  results,    \* number of a succeeded step -> its result
  signed,     \* number of a step -> people who have signed it
  call        \* the step past the gate: its place in the plan, its arguments, the
              \* amount it was judged by

planningVars == <<trust, available, draft, run, results, signed, call>>

NoRun == [status |-> "NONE", plan |-> <<>>, shown |-> <<>>]
NoCall == [at |-> 0, args |-> <<>>, amount |-> None]
OrderId == 1

PlanningTypeOK ==
  /\ trust \in Trusts /\ available \in Int
  /\ draft.at \in {"idle", "asking", "announced", "refused"}
  /\ draft.attempt \in 0..MaxRepairs + 1 /\ draft.planner \in Backends
  /\ run.status \in {"NONE", "PENDING", "WAITING_APPROVAL", "SUCCEEDED", "FAILED"}
  /\ DOMAIN results \subseteq Seqs(run.plan)
  /\ \A n \in DOMAIN signed : signed[n] \in 0..2
  /\ call.at \in {0} \cup DOMAIN run.plan

PlanningInit ==
  /\ trust \in Trusts /\ available \in Available
  /\ \E backend \in Backends :
       draft = [at |-> "idle", attempt |-> 0, planner |-> backend, steps |-> <<>>, shown |-> <<>>]
  /\ run = NoRun
  /\ results = <<>> /\ signed = <<>> /\ call = NoCall

-----------------------------------------------------------------------------
(* finalize: the policy's verdict on every step, on the arguments as they     *)
(* stand, references and all; a plan with a step that is denied is refused.  *)
(* What the model said about approval is overwritten.                       *)
Verdict(step) == Evaluate(Declared[step.tool], trust, AmountArgument(step.args), None)

Finalized(steps) ==
  [i \in DOMAIN steps |-> [steps[i] EXCEPT !.approval = Verdict(steps[i]) = "REQUIRE_APPROVAL"]]

Refused == draft' = [draft EXCEPT !.at = "refused"]

Announce(steps) ==
  IF \E i \in DOMAIN steps : Verdict(steps[i]) = "DENY" THEN Refused
  ELSE draft' = [draft EXCEPT !.at = "announced", !.steps = Finalized(steps),
                              !.shown = [i \in DOMAIN steps |-> Verdict(steps[i])]]

(* The deterministic planner. *)
RefundArgs(intent) ==
  [place \in {"order_id", "reason_code"}
             \cup (IF intent.amount # None \/ intent.full THEN {"amount_cents"} ELSE {}) |->
     CASE place = "order_id" -> Scalar(OrderId)
       [] place = "reason_code" -> Scalar(1)
       [] place = "amount_cents" -> IF intent.amount # None THEN Scalar(intent.amount)
                                    ELSE Ref(1, "available_refund_cents")]

Step(seq, tool, args, deps) ==
  [seq |-> seq, tool |-> tool, args |-> args, deps |-> deps, approval |-> FALSE]

Drafted(intent) ==
  CASE intent.action = "create_refund" /\ intent.full ->
         << Step(1, "query_refundable", [order_id |-> Scalar(OrderId)], {}),
            Step(2, "create_refund", RefundArgs(intent), {1}) >>
    [] intent.action = "create_refund" /\ ~intent.full ->
         << Step(1, "create_refund", RefundArgs(intent), {}) >>
    [] intent.action = "query_order" ->
         << Step(1, "query_order", [order_id |-> Scalar(OrderId)], {}) >>
    [] intent.action = "query_logistics" ->
         << Step(1, "query_logistics", [order_no |-> Scalar(OrderId)], {}) >>

DraftByRules(intent) ==
  /\ draft.at = "idle" /\ draft.planner = "deterministic"
  /\ IF /\ intent.action # "unknown" /\ intent.order
        /\ intent.action = "create_refund" => intent.reason
       THEN Announce(Drafted(intent)) ELSE Refused
  /\ UNCHANGED <<trust, available, run, results, signed, call>>

-----------------------------------------------------------------------------
(* The model: ask, check, hand the error back, at most MaxRepairs times.      *)
Ask(intent) ==
  /\ draft.at = "idle" /\ draft.planner = "llm"
  /\ IF intent.order THEN draft' = [draft EXCEPT !.at = "asking", !.attempt = 1] ELSE Refused
  /\ UNCHANGED <<trust, available, run, results, signed, call>>

(* An order named in the arguments is the one the system found. *)
Pinned(args) ==
  \A place \in DOMAIN args \cap {"order_id", "order_no"} :
    IsRef(args[place]) \/ args[place] = Scalar(OrderId)

(* An order number is taken out where the tool has no order_id; then the      *)
(* order_id is put in, whatever the tool takes (llm.py:244-246).              *)
Completed(tool, args) ==
  LET kept == IF /\ "order_no" \in DOMAIN args /\ ~IsRef(args["order_no"])
                 /\ "order_id" \notin Fields[tool]
                THEN DOMAIN args \ {"order_no"} ELSE DOMAIN args
  IN  [place \in kept \cup {"order_id"} |->
         IF place \in DOMAIN args THEN args[place] ELSE Scalar(OrderId)]

WithOrder(step) == [step EXCEPT !.args = Completed(step.tool, @)]

(* Mutation: the arguments are left to the tool. *)
StepNamesTool(step) == step.tool \in Tools /\ Pinned(step.args)

(* _validate_step: arguments with a reference are checked when it is resolved. *)
StepAccepted(step) ==
  /\ step.tool \in Tools /\ Pinned(step.args)
  /\ Refs(step.args) = {} => Fits(step.tool, Completed(step.tool, step.args))

(* A step looks at its first reference only, and one that is not a string      *)
(* raises PlanError there, which nobody catches; which reference the model     *)
(* wrote first is open.                                                     *)
LooksAt(steps, i) ==
  /\ steps[i].tool \in Tools /\ Pinned(steps[i].args)
  /\ \A j \in 1..(i - 1) : StepAccepted(steps[j])

MayEscape(steps) == \E i \in DOMAIN steps : LooksAt(steps, i) /\ Odd \in Refs(steps[i].args)
MustEscape(steps) == \E i \in DOMAIN steps : LooksAt(steps, i) /\ Refs(steps[i].args) = {Odd}

(* Mutation: after the last attempt the count starts over. *)
RejectedForever == draft' = [draft EXCEPT !.attempt = IF @ > MaxRepairs THEN 1 ELSE @ + 1]

(* Mutation: the limit is compared one too late. *)
RejectedLate ==
  IF draft.attempt > MaxRepairs + 1 THEN Refused
  ELSE draft' = [draft EXCEPT !.attempt = @ + 1]

Rejected ==
  IF draft.attempt > MaxRepairs THEN Refused
  ELSE draft' = [draft EXCEPT !.attempt = @ + 1]

(* The steps are the fields of a Plan; nothing else of it is looked at here.  *)
Parsed(reply) ==
  /\ reply.kind = "plan" /\ reply.steps # <<>>
  /\ \A i \in DOMAIN reply.steps : reply.steps[i].seq >= 1

(* _validate_plan *)
PlanAccepted(reply) ==
  /\ Parsed(reply)
  /\ \A i \in DOMAIN reply.steps : StepAccepted(reply.steps[i])
  /\ Validate([i \in DOMAIN reply.steps |-> WithOrder(reply.steps[i])], Tools)

Reply(reply) ==
  /\ draft.at = "asking"
  /\ \/ PlanAccepted(reply) /\ Announce([i \in DOMAIN reply.steps |-> WithOrder(reply.steps[i])])
     \/ reply.kind = "error" /\ Refused
     \/ Parsed(reply) /\ MayEscape(reply.steps) /\ Refused
     \/ /\ reply.kind # "error" /\ ~PlanAccepted(reply)
        /\ ~(Parsed(reply) /\ MustEscape(reply.steps)) /\ Rejected
  /\ UNCHANGED <<trust, available, run, results, signed, call>>

-----------------------------------------------------------------------------
(* create_run. *)
Register(steps, shown) ==
  /\ run = NoRun /\ Validate(steps, Tools)
  /\ run' = [status |-> "PENDING", plan |-> steps, shown |-> shown]
  /\ UNCHANGED <<trust, available, draft, results, signed, call>>

CreateFromDraft == draft.at = "announced" /\ Register(draft.steps, draft.shown)

(* The steps are in the request and nobody was shown anything. *)
CreateFromSteps(steps) == draft.at = "idle" /\ Register(steps, <<>>)

-----------------------------------------------------------------------------
(* One round of _drive. *)
Done == DOMAIN results
Current == run.plan[NextUp(run.plan, Done)]
Signed(step) == IF step.seq \in DOMAIN signed THEN signed[step.seq] ELSE 0
Spec(step) == Declared[step.tool]
Ended(status) == run' = [run EXCEPT !.status = status]

Driving == run.status = "PENDING" /\ UNCHANGED <<trust, draft, signed>>
AtGate == Driving /\ call = NoCall /\ UNCHANGED <<available, results>>
AtStep == AtGate /\ Remaining(run.plan, Done) # {}

Ready(step) == DepsDone(step, Done) /\ Resolvable(step.args, results)

(* Arguments with their references resolved, and the amount the tool itself   *)
(* would give them; it is asked only about arguments it takes.               *)
Resolved(step) == Resolve(step.args, results)
Answer(step, args) == IF Fits(step.tool, args) THEN available ELSE None

(* What the gate makes of a step. *)
GateAnswer(step) == GateAmount(Spec(step), AmountArgument(Resolved(step)), Answer(step, Resolved(step)))
Judged(step) == Evaluate(Spec(step), trust, AmountArgument(Resolved(step)), GateAnswer(step))
RequiredNow(step) == Requirement(Spec(step), AmountArgument(Resolved(step)), GateAnswer(step))

(* Mutation: what the plan says about approval is forgotten. *)
NeedsByPolicy(step) == Judged(step) = "REQUIRE_APPROVAL"

NeedsApproval(step) == step.approval \/ Judged(step) = "REQUIRE_APPROVAL"

MayGo(step) ==
  /\ Judged(step) # "DENY"
  /\ NeedsApproval(step) => Signed(step) >= RequiredNow(step)

Finish ==
  /\ AtGate /\ Remaining(run.plan, Done) = {}
  /\ Ended("SUCCEEDED") /\ UNCHANGED call

(* A missing dependency or reference, or a denial: recorded, nothing done.    *)
Refuse ==
  /\ AtStep
  /\ Ready(Current) => Judged(Current) = "DENY"
  /\ Ended("FAILED") /\ UNCHANGED call

Suspend ==
  /\ AtStep /\ Ready(Current) /\ Judged(Current) # "DENY" /\ ~MayGo(Current)
  /\ Ended("WAITING_APPROVAL") /\ UNCHANGED call

PassGate ==
  /\ AtStep /\ Ready(Current) /\ MayGo(Current)
  /\ call' = [at |-> NextUp(run.plan, Done), args |-> Resolved(Current),
              amount |-> AmountOf(Spec(Current), AmountArgument(Resolved(Current)), GateAnswer(Current))]
  /\ UNCHANGED run

(* The step transaction.  A refund without an amount takes all that is         *)
(* refundable, which is what is available as long as no ticket is pending      *)
(* (with one pending it is refused, see Fail); a closed ticket may give its     *)
(* claim back.                                                              *)
InCall == Driving /\ call # NoCall /\ call' = NoCall
Callee == run.plan[call.at]
Named(args) == "amount_cents" \in DOMAIN args
Requested == IF Named(call.args) THEN call.args["amount_cents"].value ELSE available

Moves(tool) ==
  CASE tool = "create_refund" -> 0 < Requested /\ Requested <= available /\ available' = available - Requested
    [] tool = "close_ticket" -> available' \in {available} \cup Available
    [] OTHER -> UNCHANGED available

Perform ==
  /\ InCall /\ Fits(Callee.tool, call.args) /\ Moves(Callee.tool)
  /\ results' = [n \in Done \cup {Callee.seq} |->
       IF n \in Done THEN results[n] ELSE Result(Callee.tool, available, Requested)]
  /\ UNCHANGED run

(* The arguments do not fit, or a business rule says no (which is left open).  *)
Fail == InCall /\ Ended("FAILED") /\ UNCHANGED <<available, results>>

Drive == Finish \/ Refuse \/ Suspend \/ PassGate \/ Perform \/ Fail

(* approve_step by somebody whose role has not signed; the amount is worked    *)
(* out anew, and a reference that does not resolve makes it unknown.         *)
RequiredAtRoute(step) ==
  LET args == IF Resolvable(step.args, results) THEN Resolved(step) ELSE step.args
      arg  == AmountArgument(args)
  IN  Requirement(Spec(step), arg, EffectiveAmount(Spec(step), arg, Answer(step, args)))

Approve(i) ==
  LET step == run.plan[i]
  IN  /\ run # NoRun /\ Signed(step) < RequiredAtRoute(step)
      /\ signed' = [n \in DOMAIN signed \cup {step.seq} |->
           IF n = step.seq THEN Signed(step) + 1 ELSE signed[n]]
      /\ run' = [run EXCEPT !.status =
           IF @ = "WAITING_APPROVAL" /\ Signed(step) + 1 >= RequiredAtRoute(step) THEN "PENDING" ELSE @]
      /\ UNCHANGED <<trust, available, draft, results, call>>

-----------------------------------------------------------------------------
(* A restart, with other settings or the same, loses what the driver held;     *)
(* other requests at the order.                                             *)
Reconfigure(level) ==
  trust' = level /\ call' = NoCall /\ UNCHANGED <<available, draft, run, results, signed>>
Drift(cents) == available' = cents /\ UNCHANGED <<trust, draft, run, results, signed, call>>

PlanningNext ==
  \/ \E intent \in Intents : DraftByRules(intent) \/ Ask(intent)
  \/ \E reply \in Replies : Reply(reply)
  \/ CreateFromDraft \/ (\E steps \in Submitted : CreateFromSteps(steps))
  \/ Drive
  \/ \E i \in DOMAIN run.plan : Approve(i)
  \/ \E level \in Trusts : Reconfigure(level)
  \/ \E cents \in Available : Drift(cents)

(* Every call of the model ends: it is answered or its timeout passes.        *)
PlanningFairness == WF_planningVars(\E reply \in Replies : Reply(reply))

PlanningSpec == PlanningInit /\ [][PlanningNext]_planningVars /\ PlanningFairness

-----------------------------------------------------------------------------
(* A plan that was announced is one the executor can take: it would be        *)
(* registered, and what the model put into a step fits the tool, about the     *)
(* order the system found, unless it is still to be referred to (plan.py:     *)
(* accepted by the planner and blown up by the executor must be impossible).  *)
AnnouncedIsUsable ==
  draft.at = "announced" =>
    /\ Validate(draft.steps, Tools)
    /\ draft.planner = "llm" => \A i \in DOMAIN draft.steps :
         LET step == draft.steps[i]
         IN  /\ Refs(step.args) = {} => Fits(step.tool, step.args)
             /\ "order_id" \in DOMAIN step.args
             /\ IsRef(step.args["order_id"]) \/ step.args["order_id"] = Scalar(OrderId)

(* A registered plan never comes to a step whose dependencies or whose        *)
(* referenced steps have not succeeded (executor.py, _assert_deps_done: in     *)
(* order there is nothing to wait for).                                     *)
NothingIsMissing ==
  run.status \in {"PENDING", "WAITING_APPROVAL"} /\ Remaining(run.plan, Done) # {}
    => Needs(Current) \subseteq Done

(* What a step moved; an amount left to the tool has grown since the gate       *)
(* asked for it.                                                            *)
Moved(result) ==
  IF "refund_amount_cents" \in DOMAIN result THEN result["refund_amount_cents"].value ELSE None

Outgrown == call.amount # None /\ ~Named(call.args) /\ available > call.amount

(* Step i, if it writes now, may write what it writes.                      *)
WellSigned(i) ==
  LET step  == run.plan[i]
      moved == Moved(results'[step.seq])
  IN  Writes(step.tool) /\ step.seq \in DOMAIN results' \ Done =>
        /\ ~Outgrown => /\ Evaluate(Spec(step), trust, moved, None) # "DENY"
                        /\ Signed(step) >= SignaturesFor(Spec(step), trust, moved, None)
        /\ step.approval => Signed(step) >= 1
        /\ Signed(step) = 0 /\ run.shown # <<>> => run.shown[i] = "ALLOW"

(* A write has the signatures that the amount it really moves asks for, under   *)
(* the trust of the moment, and one at least where the plan says so; without    *)
(* any it was announced as allowed if it was announced.  Neither more trust     *)
(* since the plan was shown, nor less, nor a reference that turned out large,   *)
(* nor a gate passed earlier lets one slip by -- except that an amount left to  *)
(* the tool may grow between the gate's question and the tool's own answer.    *)
SignedForWhatItMoves == [][\A i \in DOMAIN run.plan : WellSigned(i)]_planningVars

(* Drafting ends, however often the model is wrong. *)
DraftEnds == draft.at = "asking" ~> draft.at \in {"announced", "refused"}
=============================================================================
