-------------------------------- MODULE Saga --------------------------------
(***************************************************************************)
(* Compensation (governance/executor.py compensate, _after_failure and      *)
(* _compensate_locked, governance/compensation.py) beside the executors.    *)
(* It is run by a worker after a failure when compensation_mode is "auto",  *)
(* and by requests (POST .../compensate); both claim the lease of a FAILED  *)
(* run and leave the status alone, and neither renews that lease.           *)
(*                                                                         *)
(* `at` and `todo` are what a compensator holds in memory: where it is       *)
(* between two transactions, and the steps of its plan still to be undone.  *)
(* `undone`, `undoAudits`, `undoLedger` and `undoRows` are the committed    *)
(* compensating writes, audit rows, ledger keys and agent_step rows (seq <0) *)
(* by the step they undo.  A step transaction of a compensation is one       *)
(* action: its row and its key belong to compensation alone, so whoever     *)
(* comes second waits and then sees the outcome.                            *)
(***************************************************************************)
EXTENDS Executor

CONSTANTS
  Compensators,  \* requests that compensate the run, with force
  Automatic,     \* settings.compensation_mode is "auto"
  Undoable,      \* write steps whose compensation is declared and can be built
  Verdict        \* step -> what the policy says of its compensation

Agents == Workers \cup Compensators
Crew == Procs \cup Compensators

ASSUME SagaAssumption ==
  /\ Compensators \cap Procs = {} /\ Compensators \subseteq DOMAIN WorkerId
  /\ Automatic \in BOOLEAN
  /\ Undoable \subseteq Writes
  /\ Verdict \in [Step -> {"ALLOW", "REQUIRE_APPROVAL", "DENY"}]

VARIABLES at, todo, undone, undoAudits, undoLedger, undoRows

undoDb == <<undone, undoAudits, undoLedger, undoRows>>
sagaVars == <<vars, at, todo, undoDb>>

(* _finish writes one of these outcomes into the checkpoint. *)
Outcome == Marker \ {"none"}

SagaInit ==
  /\ Init
  /\ at = [c \in Agents |-> "idle"] /\ todo = [c \in Agents |-> {}]
  /\ undone = [k \in Step |-> 0] /\ undoAudits = [k \in Step |-> 0]
  /\ undoLedger = {} /\ undoRows = [s \in Step |-> "NONE"]

-----------------------------------------------------------------------------
Proceed(c, to) == at' = [at EXCEPT ![c] = to]

(* A compensator ends; a worker then goes back to its poll loop. *)
Leave(c) ==
  /\ Proceed(c, "idle") /\ todo' = [todo EXCEPT ![c] = {}]
  /\ IF c \in Workers THEN Stop(c) ELSE UNCHANGED <<pc, mem>>

(* Mutation: compensation marks the run RUNNING, as any other claim does. *)
ClaimFailedRunning(c) ==
  /\ run.status = "FAILED" /\ LeaseFree /\ ~RunRowShared
  /\ run' = [run EXCEPT !.owner = WorkerId[c], !.fresh = TRUE, !.status = "RUNNING"]

(* claim(statuses=(FAILED,), count_attempt=False, mark_running=False) *)
ClaimFailed(c) ==
  /\ run.status = "FAILED" /\ LeaseFree /\ ~RunRowShared
  /\ run' = [run EXCEPT !.owner = WorkerId[c], !.fresh = TRUE]

CompensateRequested(c) ==
  /\ c \in Compensators /\ at[c] = "idle"
  /\ ClaimFailed(c) /\ Proceed(c, "load")
  /\ UNCHANGED <<pc, mem, todo, mishaps>> /\ UNCHANGED db /\ UNCHANGED undoDb

(* _after_failure in mode "auto": the worker claims the failed run; what      *)
(* somebody else is compensating, or has compensated, it leaves alone.      *)
AutoCompensate(w) ==
  /\ Automatic /\ pc[w] = "failed" /\ at[w] = "idle"
  /\ ClaimFailed(w) /\ Proceed(w, "load")
  /\ UNCHANGED <<pc, mem, todo, mishaps>> /\ UNCHANGED db /\ UNCHANGED undoDb

FailureLeft(w) ==
  /\ at[w] = "idle"
  /\ Automatic => ~(run.status = "FAILED" /\ LeaseFree /\ ~RunRowShared)
  /\ AfterFailure(w)
  /\ UNCHANGED <<at, todo>> /\ UNCHANGED undoDb

(* Mutation: a step that cannot be undone is left out of the plan. *)
PlanSkipsUndeclared(c) ==
  LET steps == Completed \cap Undoable
  IN  /\ at[c] = "load"
      /\ Proceed(c, IF steps = {} THEN "NOTHING_TO_ROLLBACK" ELSE "next")
      /\ todo' = [todo EXCEPT ![c] = steps]
      /\ UNCHANGED <<run, pc, mem, mishaps>> /\ UNCHANGED db /\ UNCHANGED undoDb

(* compensation.plan: the completed writes, or the reasons why not. *)
CompensationPlan(c) ==
  LET steps == Completed \cap Writes
  IN  /\ at[c] = "load"
      /\ Proceed(c, IF ~(steps \subseteq Undoable) THEN "BLOCKED"
                    ELSE IF steps = {} THEN "NOTHING_TO_ROLLBACK" ELSE "next")
      /\ todo' = [todo EXCEPT ![c] = steps]
      /\ UNCHANGED <<run, pc, mem, mishaps>> /\ UNCHANGED db /\ UNCHANGED undoDb

(* Mutation: compensation in plan order. *)
Earliest(c, s) == s \in todo[c] /\ \A t \in todo[c] : s <= t

(* The plan is in reverse order. *)
Latest(c, s) == s \in todo[c] /\ \A t \in todo[c] : t <= s

(* A request was confirmed by a person; nothing lifts a DENY. *)
Permitted(c, s) == Verdict[s] = "ALLOW" \/ (Verdict[s] = "REQUIRE_APPROVAL" /\ c \in Compensators)

CompensationRefused(c) ==
  /\ at[c] = "next"
  /\ \E s \in todo[c] :
       /\ Latest(c, s) /\ ~Permitted(c, s)
       /\ Proceed(c, IF Verdict[s] = "DENY" THEN "BLOCKED" ELSE "NEEDS_APPROVAL")
  /\ UNCHANGED <<run, pc, mem, todo, mishaps>> /\ UNCHANGED db /\ UNCHANGED undoDb

-----------------------------------------------------------------------------
(* Mutation: the compensating write does not go through the ledger. *)
UndoBlind(s) ==
  LET k == KeyOf[s]
  IN  /\ undone' = [undone EXCEPT ![k] = @ + 1]
      /\ undoAudits' = [undoAudits EXCEPT ![k] = @ + 1]
      /\ undoLedger' = undoLedger \cup {k}
      /\ undoRows' = [undoRows EXCEPT ![s] = "SUCCEEDED"]

(* The step transaction of a compensation.  The arguments come from the     *)
(* recorded result, so steps that share a key share the compensation's key. *)
(* A replay is never committed: the row it touched rolls back.              *)
Undo(s) ==
  LET k == KeyOf[s]
  IN  \/ k \in undoLedger /\ UNCHANGED undoDb
      \/ /\ k \notin undoLedger
         /\ undone' = [undone EXCEPT ![k] = @ + 1]
         /\ undoAudits' = [undoAudits EXCEPT ![k] = @ + 1]
         /\ undoLedger' = undoLedger \cup {k}
         /\ undoRows' = [undoRows EXCEPT ![s] = "SUCCEEDED"]

CompensateStep(c) ==
  /\ at[c] = "next"
  /\ \E s \in todo[c] :
       /\ Latest(c, s) /\ Permitted(c, s) /\ Undo(s)
       /\ todo' = [todo EXCEPT ![c] = @ \ {s}]
       /\ Proceed(c, IF todo[c] = {s} THEN "COMPENSATED" ELSE "next")
  /\ UNCHANGED <<run, pc, mem, mishaps>> /\ UNCHANGED db

(* Mutation: a compensation that fails is passed over. *)
CompensationPassedOver(c) ==
  /\ at[c] = "next"
  /\ \E s \in todo[c] :
       /\ Latest(c, s) /\ Permitted(c, s)
       /\ todo' = [todo EXCEPT ![c] = @ \ {s}]
       /\ Proceed(c, IF todo[c] = {s} THEN "COMPENSATED" ELSE "next")
  /\ UNCHANGED <<run, pc, mem, mishaps>> /\ UNCHANGED db /\ UNCHANGED undoDb

(* The compensating tool refuses, or something below it raises.             *)
CompensationRaises(c) ==
  /\ at[c] = "next"
  /\ \E s \in todo[c] : Latest(c, s) /\ Permitted(c, s)
  /\ Proceed(c, "undoFailed")
  /\ UNCHANGED <<run, pc, mem, todo, mishaps>> /\ UNCHANGED db /\ UNCHANGED undoDb

(* The commit takes effect but is not acknowledged. *)
CompensationUnacknowledged(c) ==
  /\ at[c] = "next"
  /\ mishaps < MaxMishaps /\ mishaps' = mishaps + 1
  /\ \E s \in todo[c] : Latest(c, s) /\ Permitted(c, s) /\ Undo(s)
  /\ Proceed(c, "undoFailed")
  /\ UNCHANGED <<run, pc, mem, todo>> /\ UNCHANGED db

(* _record_failure of a compensation step gives the lease back already. *)
CompensationFailed(c) ==
  /\ at[c] = "undoFailed"
  /\ \E s \in todo[c] : Latest(c, s) /\ undoRows' = [undoRows EXCEPT ![s] = "FAILED"]
  /\ run' = Released(c, IF run.status \in Terminal THEN run ELSE [run EXCEPT !.status = "FAILED"])
  /\ Proceed(c, "PARTIAL")
  /\ UNCHANGED <<pc, mem, todo, mishaps, undone, undoAudits, undoLedger>> /\ UNCHANGED db

(* _finish: status and marker in one commit, whatever they are by now. *)
CompensationEnds(c) ==
  /\ at[c] \in Outcome
  /\ run' = Released(c, [run EXCEPT !.status = IF at[c] = "COMPENSATED" THEN at[c] ELSE "FAILED",
                                    !.marker = at[c]])
  /\ Leave(c)
  /\ UNCHANGED mishaps /\ UNCHANGED db /\ UNCHANGED undoDb

CompensatorCrashes(c) ==
  /\ c \in Compensators /\ at[c] # "idle"
  /\ mishaps < MaxMishaps /\ mishaps' = mishaps + 1
  /\ Leave(c)
  /\ UNCHANGED run /\ UNCHANGED db /\ UNCHANGED undoDb

-----------------------------------------------------------------------------
Compensate(c) == CompensateRequested(c) \/ CompensationPlan(c) \/ CompensationRefused(c)
                 \/ CompensateStep(c) \/ CompensationRaises(c) \/ CompensationUnacknowledged(c)
                 \/ CompensationFailed(c) \/ CompensationEnds(c) \/ CompensatorCrashes(c)

(* A worker killed while it compensates loses its plan with its memory. *)
PlansLost ==
  LET gone == {w \in Workers : at[w] # "idle" /\ pc'[w] = "idle"}
  IN  /\ at' = [c \in Agents |-> IF c \in gone THEN "idle" ELSE at[c]]
      /\ todo' = [c \in Agents |-> IF c \in gone THEN {} ELSE todo[c]]

SagaNext ==
  \/ Forward /\ PlansLost /\ UNCHANGED undoDb
  \/ \E w \in Workers : AutoCompensate(w) \/ FailureLeft(w)
  \/ \E c \in Agents : Compensate(c)

SagaSpec == SagaInit /\ [][SagaNext]_sagaVars

-----------------------------------------------------------------------------
(* Compensation is itself exactly-once and audited (README: "a double click, *)
(* two people at once: undone once"): the compensating writes implement      *)
(* WriteOnce.                                                               *)
UndoPromise == INSTANCE WriteOnce WITH Key <- Step, written <- undone,
                                       audited <- undoAudits, recorded <- undoLedger
UndoKeepsPromise == UndoPromise!Spec

(* As long as nobody re-runs a step by hand, writes are undone latest first, *)
(* only if they were done, and nothing is done after an undo.               *)
Orderly == INSTANCE Rollback WITH Item <- Step, done <- {k \in Step : effects[k] > 0},
                                  undone <- {k \in Step : undone[k] > 0}
UndoesInOrder == Orderly!Spec

(* A run reported COMPENSATED has no write left standing, whichever of two   *)
(* overlapping compensators reported it.                                    *)
CompensatedIsClean == run.status = "COMPENSATED" => \A k \in Step : undone[k] = effects[k]

(* Fail closed (README, "not undone cleanly, then not at all"): while a write *)
(* stands that no compensation is declared for, nothing else is undone. An   *)
(* undo the policy refuses is not covered: it may come after others.        *)
FailClosed ==
  (\E s \in Writes \ Undoable : effects[KeyOf[s]] > 0) => \A k \in Step : undone[k] = 0

(* Crash matrix: a run that has been undone in part is never one that a      *)
(* worker may claim and drive on, wherever the compensator was killed.      *)
UndoneNotDriven ==
  (\E k \in Step : undone[k] > 0) => run.status \in {"FAILED", "COMPENSATED"}

-----------------------------------------------------------------------------
(* What the code says and does not keep; each refuted by a run of its own.  *)

(* README:226, "no replay after an undo".                                   *)
NoWriteAfterUndo == [][(\E k \in Step : undone[k] > 0) => UNCHANGED effects]_sagaVars
=============================================================================
