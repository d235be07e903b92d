----------------------------- MODULE SagaProofs -----------------------------
(***************************************************************************)
(* Proofs about Saga, for any plan and any number of compensators: what holds *)
(* however executors, retries and compensators overlap, and what holds while  *)
(* the run has one driver at a time.                                        *)
(***************************************************************************)
EXTENDS Saga, ExecutorProofs

Settled == run.status \in {"FAILED", "COMPENSATED"}

(* The writes a compensation has to take back. *)
Standing == Completed \cap Writes
Taken(s) == KeyOf[s] \in undoLedger

UndoTypeOK ==
  /\ at \in [Agents -> {"idle", "load", "next", "undoFailed"} \cup Outcome]
  /\ todo \in [Agents -> SUBSET Step]
  /\ undone \in [Step -> Nat] /\ undoAudits \in [Step -> Nat]
  /\ undoLedger \subseteq Step /\ undoRows \in [Step -> StepStatus]

(* What was undone is what the ledger says was undone, once. *)
UndoRecorded == \A k \in Step : undone[k] = IF k \in undoLedger THEN 1 ELSE 0

CInv == IInv /\ UndoTypeOK /\ UndoRecorded

-----------------------------------------------------------------------------
(* The run row under compensation. *)
LEMMA ClaimedRun ==
  ASSUME run \in Run, NEW c \in Agents, ClaimFailed(c)
  PROVE  run' \in Run /\ run'.status = run.status /\ run'.ckpt = run.ckpt /\ run.status = "FAILED"
<1>1. WorkerId[c] \in {WorkerId[p] : p \in DOMAIN WorkerId}
  BY ProcAssumption, SagaAssumption DEF Agents, Procs
<1>2. QED BY <1>1 DEF ClaimFailed, Run

LEMMA ReleasedRun ==
  ASSUME NEW c, NEW r \in Run
  PROVE  Released(c, r) \in Run /\ Released(c, r).status = r.status /\ Released(c, r).ckpt = r.ckpt
BY DEF Released, Run

LEMMA MarkedRun ==
  ASSUME NEW r \in Run, NEW st \in RunStatus, NEW mk \in Marker
  PROVE  /\ [r EXCEPT !.status = st, !.marker = mk] \in Run
         /\ [r EXCEPT !.status = st, !.marker = mk].status = st
         /\ [r EXCEPT !.status = st, !.marker = mk].ckpt = r.ckpt
BY DEF Run

(* The executors' invariant while a compensator moves. *)
LEMMA ExecutorsStand ==
  ASSUME IInv, run' \in Run, run'.ckpt = run.ckpt,
         run'.status = "SUCCEEDED" => run.status = "SUCCEEDED",
         UNCHANGED db, mishaps' \in Nat,
         UNCHANGED <<pc, mem>> \/ \E w \in Workers : Stop(w)
  PROVE  IInv'
<1>1. CASE UNCHANGED <<pc, mem>>
  <2>1. TypeOK' /\ Located'
    BY <1>1 DEF IInv, TypeOK, Located, db
  <2>2. ExactlyOnce' /\ AtomicRecord' /\ RowsVouched'
    BY DbQuiet DEF IInv
  <2>3. SucceededIsComplete' /\ CheckpointBacked'
    BY RunQuiet DEF IInv, db
  <2>4. LedgerSeen' /\ KeyExclusive' /\ DepsBacked' /\ FinishBacked' /\ LoadedBacked'
    BY <1>1 DEF IInv, Safe, db, LedgerSeen, KeyExclusive, DepsBacked, FinishBacked, LoadedBacked
  <2>5. QED BY <2>1, <2>2, <2>3, <2>4 DEF IInv, Safe
<1>2. ASSUME NEW w \in Workers, Stop(w) PROVE IInv'
  <2>1. w \in Procs
    BY DEF Procs
  <2>2. TypeOK'
    BY <1>2, <2>1, ForgetType, MoveType DEF IInv, TypeOK, Stop, PC
  <2>3. Located' /\ Safe'
    BY <1>2, <2>1, StopFacts, AsideQuiet DEF IInv, PC, BeforeCommit
  <2>4. QED BY <2>2, <2>3 DEF IInv
<1>3. QED BY <1>1, <1>2

LEMMA LeaveFacts ==
  ASSUME NEW c \in Agents, Leave(c)
  PROVE  /\ at' = [at EXCEPT ![c] = "idle"] /\ todo' = [todo EXCEPT ![c] = {}]
         /\ UNCHANGED <<pc, mem>> \/ \E w \in Workers : Stop(w)
         /\ c \in Workers => Stop(c)
         /\ c \notin Workers => UNCHANGED <<pc, mem>>
BY DEF Leave, Proceed

(* Where a compensator that is done leaves the run. *)
LEMMA EndsFacts ==
  ASSUME run \in Run, NEW c \in Agents, CompensationEnds(c)
  PROVE  /\ run' \in Run /\ run'.ckpt = run.ckpt
         /\ run'.status = IF at[c] = "COMPENSATED" THEN "COMPENSATED" ELSE "FAILED"
<1> DEFINE st == IF at[c] = "COMPENSATED" THEN at[c] ELSE "FAILED"
           r == [run EXCEPT !.status = st, !.marker = at[c]]
<1>1. st \in RunStatus /\ at[c] \in Marker
  BY DEF CompensationEnds, Outcome, RunStatus, Terminal
<1>2. run' = Released(c, r)
  BY DEF CompensationEnds
<1> HIDE DEF st
<1>3. r \in Run /\ r.status = st /\ r.ckpt = run.ckpt
  <2>1. \A t \in RunStatus, m \in Marker :
          /\ [run EXCEPT !.status = t, !.marker = m] \in Run
          /\ [run EXCEPT !.status = t, !.marker = m].status = t
          /\ [run EXCEPT !.status = t, !.marker = m].ckpt = run.ckpt
    BY MarkedRun
  <2>2. QED BY <1>1, <2>1
<1> HIDE DEF r
<1>4. QED BY <1>2, <1>3, ReleasedRun DEF st

LEMMA FailedFacts ==
  ASSUME run \in Run, NEW c \in Agents, CompensationFailed(c)
  PROVE  run' \in Run /\ run'.ckpt = run.ckpt /\ run'.status \in {run.status, "FAILED"}
<1> DEFINE r == IF run.status \in Terminal THEN run ELSE [run EXCEPT !.status = "FAILED"]
<1>1. r \in Run /\ r.ckpt = run.ckpt /\ r.status \in {run.status, "FAILED"}
  BY StatusFacts DEF RunStatus, Terminal
<1>2. run' = Released(c, r)
  BY DEF CompensationFailed
<1> HIDE DEF r
<1>3. QED BY <1>1, <1>2, ReleasedRun

(* All compensators do to the executors' state. *)
LEMMA Touched ==
  ASSUME IInv, NEW c \in Agents, Compensate(c) \/ (c \in Workers /\ AutoCompensate(c))
  PROVE  /\ run' \in Run /\ run'.ckpt = run.ckpt /\ UNCHANGED db /\ mishaps' \in Nat
         /\ run'.status \in {run.status, "FAILED", "COMPENSATED"}
         /\ UNCHANGED <<pc, mem>> \/ \E w \in Workers : Stop(w)
<1>0. run \in Run /\ mishaps \in Nat
  BY DEF IInv, TypeOK
<1>1. CASE CompensateRequested(c)
  BY <1>0, <1>1, ClaimedRun DEF CompensateRequested
<1>2. CASE c \in Workers /\ AutoCompensate(c)
  BY <1>0, <1>2, ClaimedRun DEF AutoCompensate
<1>3. CASE CompensationEnds(c)
  BY <1>0, <1>3, EndsFacts, LeaveFacts DEF CompensationEnds
<1>4. CASE CompensationFailed(c)
  BY <1>0, <1>4, FailedFacts DEF CompensationFailed
<1>5. CASE CompensatorCrashes(c)
  BY <1>0, <1>5, LeaveFacts DEF CompensatorCrashes
<1>6. CASE CompensationPlan(c) \/ CompensationRefused(c) \/ CompensateStep(c)
           \/ CompensationRaises(c) \/ CompensationUnacknowledged(c)
  BY <1>0, <1>6 DEF CompensationPlan, CompensationRefused, CompensateStep, CompensationRaises,
                    CompensationUnacknowledged
<1>7. QED BY <1>1, <1>2, <1>3, <1>4, <1>5, <1>6 DEF Compensate

LEMMA CompensatorIInv ==
  ASSUME IInv, NEW c \in Agents, Compensate(c) \/ (c \in Workers /\ AutoCompensate(c))
  PROVE  IInv'
BY Touched, ExecutorsStand

LEMMA ForwardIInv ==
  ASSUME IInv, Forward \/ \E w \in Workers : FailureLeft(w) PROVE IInv'
BY NextInv DEF Next, FailureLeft

-----------------------------------------------------------------------------
(* The step transaction of a compensation. *)
LEMMA UndoFacts ==
  ASSUME UndoTypeOK, UndoRecorded, NEW s \in Step, Undo(s)
  PROVE  /\ undone' \in [Step -> Nat] /\ undoAudits' \in [Step -> Nat]
         /\ undoLedger' \subseteq Step /\ undoRows' \in [Step -> StepStatus]
         /\ UndoRecorded' /\ undoLedger' = undoLedger \cup {KeyOf[s]}
         /\ UndoPromise!Next \/ UNCHANGED <<undone, undoAudits, undoLedger>>
<1> DEFINE k == KeyOf[s]
<1>1. k \in Step
  BY PlanAssumption
<1>2. CASE k \in undoLedger /\ UNCHANGED undoDb
  BY <1>1, <1>2 DEF UndoTypeOK, UndoRecorded, undoDb
<1>3. CASE /\ k \notin undoLedger
           /\ undone' = [undone EXCEPT ![k] = @ + 1] /\ undoAudits' = [undoAudits EXCEPT ![k] = @ + 1]
           /\ undoLedger' = undoLedger \cup {k} /\ undoRows' = [undoRows EXCEPT ![s] = "SUCCEEDED"]
  <2> HIDE DEF k
  <2>1. /\ undone' \in [Step -> Nat] /\ undoAudits' \in [Step -> Nat]
        /\ undoLedger' \subseteq Step /\ undoRows' \in [Step -> StepStatus]
    BY <1>1, <1>3 DEF UndoTypeOK, StepStatus
  <2>2. UndoRecorded'
    BY <1>1, <1>3 DEF UndoTypeOK, UndoRecorded
  <2>3. UndoPromise!Next
    BY <1>1, <1>3 DEF UndoPromise!Next, UndoPromise!Write
  <2>4. QED BY <1>3, <2>1, <2>2, <2>3 DEF k
<1>4. QED BY <1>2, <1>3 DEF Undo

(* The writes of compensation change in its step transaction only.          *)
Untouched == UNCHANGED <<undone, undoAudits, undoLedger>>

LEMMA OnlyUndo ==
  ASSUME CInv, SagaNext
  PROVE  \/ Untouched
         \/ \E c \in Agents : /\ (CompensateStep(c) \/ CompensationUnacknowledged(c))
                               /\ \E s \in todo[c] : Latest(c, s) /\ Undo(s)
BY DEF SagaNext, Compensate, CompensateRequested, CompensationPlan, CompensationRefused, CompensateStep,
       CompensationRaises, CompensationUnacknowledged, CompensationFailed, CompensationEnds,
       CompensatorCrashes, AutoCompensate, FailureLeft, Untouched, undoDb

LEMMA UndoTypeNext == ASSUME CInv, SagaNext PROVE UndoTypeOK' /\ UndoRecorded'
<1> DEFINE At == {"idle", "load", "next", "undoFailed"} \cup Outcome
<1>0. at \in [Agents -> At] /\ todo \in [Agents -> SUBSET Step]
  BY DEF CInv, UndoTypeOK
<1>1. /\ undone' \in [Step -> Nat] /\ undoAudits' \in [Step -> Nat]
      /\ undoLedger' \subseteq Step /\ UndoRecorded'
  <2>1. CASE Untouched
    BY <2>1 DEF CInv, UndoTypeOK, UndoRecorded, Untouched
  <2>2. ASSUME NEW c \in Agents, NEW s \in todo[c], Undo(s)
        PROVE  /\ undone' \in [Step -> Nat] /\ undoAudits' \in [Step -> Nat]
               /\ undoLedger' \subseteq Step /\ UndoRecorded'
    BY <1>0, <2>2, UndoFacts DEF CInv
  <2>3. QED BY <2>1, <2>2, OnlyUndo
<1>2. ASSUME NEW c \in Agents, Compensate(c) \/ AutoCompensate(c)
      PROVE  /\ at' \in [Agents -> At] /\ todo' \in [Agents -> SUBSET Step]
             /\ undoRows' \in [Step -> StepStatus]
  <2>1. /\ "idle" \in At /\ "load" \in At /\ "next" \in At /\ "undoFailed" \in At /\ "BLOCKED" \in At
        /\ "NOTHING_TO_ROLLBACK" \in At /\ "NEEDS_APPROVAL" \in At /\ "COMPENSATED" \in At
        /\ "PARTIAL" \in At
    BY DEF Outcome, Marker
  <2>2. undoRows \in [Step -> StepStatus]
    BY DEF CInv, UndoTypeOK
  <2> HIDE DEF At
  <2>3. CASE CompensateRequested(c) \/ AutoCompensate(c)
    BY <1>0, <2>1, <2>2, <2>3 DEF CompensateRequested, AutoCompensate, Proceed, undoDb
  <2>4. CASE CompensationPlan(c)
    <3>1. Completed \cap Writes \in SUBSET Step
      BY DEF Completed
    <3>2. QED BY <1>0, <2>1, <2>2, <2>4, <3>1 DEF CompensationPlan, Proceed, undoDb
  <2>5. CASE CompensationRefused(c) \/ CompensationRaises(c)
    BY <1>0, <2>1, <2>2, <2>5 DEF CompensationRefused, CompensationRaises, Proceed, undoDb
  <2>6. CASE CompensateStep(c)
    <3>1. PICK s \in todo[c] : Undo(s) /\ todo' = [todo EXCEPT ![c] = @ \ {s}]
                               /\ Proceed(c, IF todo[c] = {s} THEN "COMPENSATED" ELSE "next")
      BY <2>6 DEF CompensateStep
    <3>2. undoRows' \in [Step -> StepStatus]
      BY <1>0, <3>1, UndoFacts DEF CInv
    <3>3. QED BY <1>0, <2>1, <3>1, <3>2 DEF Proceed
  <2>7. CASE CompensationUnacknowledged(c)
    <3>1. PICK s \in todo[c] : Undo(s)
      BY <2>7 DEF CompensationUnacknowledged
    <3>2. undoRows' \in [Step -> StepStatus]
      BY <1>0, <3>1, UndoFacts DEF CInv
    <3>3. QED BY <1>0, <2>1, <2>7, <3>2 DEF CompensationUnacknowledged, Proceed
  <2>8. CASE CompensationFailed(c)
    BY <1>0, <2>1, <2>2, <2>8 DEF CompensationFailed, Proceed, StepStatus
  <2>9. CASE CompensationEnds(c) \/ CompensatorCrashes(c)
    BY <1>0, <2>1, <2>2, <2>9, LeaveFacts DEF CompensationEnds, CompensatorCrashes, undoDb
  <2>10. QED BY <1>2, <2>3, <2>4, <2>5, <2>6, <2>7, <2>8, <2>9 DEF Compensate
<1>3. CASE Forward /\ PlansLost /\ UNCHANGED undoDb
  <2>1. at' \in [Agents -> At] /\ todo' \in [Agents -> SUBSET Step]
    BY <1>0, <1>3 DEF PlansLost
  <2>2. QED BY <1>1, <1>3, <2>1 DEF CInv, UndoTypeOK, undoDb
<1>4. CASE \E w \in Workers : FailureLeft(w)
  BY <1>1, <1>4 DEF CInv, UndoTypeOK, FailureLeft, undoDb
<1>5. CASE \E c \in Agents : Compensate(c) \/ AutoCompensate(c)
  BY <1>1, <1>2, <1>5 DEF UndoTypeOK
<1>6. QED BY <1>3, <1>4, <1>5 DEF SagaNext, Agents

LEMMA CInvNext == CInv /\ [SagaNext]_sagaVars => CInv'
<1> SUFFICES ASSUME CInv, [SagaNext]_sagaVars PROVE CInv'
  OBVIOUS
<1>1. CASE SagaNext
  <2>1. IInv'
    BY <1>1, CompensatorIInv, ForwardIInv DEF CInv, SagaNext, Agents
  <2>2. QED BY <1>1, <2>1, UndoTypeNext DEF CInv
<1>2. CASE UNCHANGED sagaVars
  <2>1. IInv'
    BY <1>2, NextInv DEF CInv, sagaVars
  <2>2. QED BY <1>2, <2>1 DEF CInv, sagaVars, undoDb, UndoTypeOK, UndoRecorded
<1>3. QED BY <1>1, <1>2

LEMMA CInvInit == SagaInit => CInv
<1> SUFFICES ASSUME SagaInit PROVE CInv
  OBVIOUS
<1>1. IInv
  BY InitInv DEF SagaInit
<1>2. QED BY <1>1 DEF SagaInit, CInv, UndoTypeOK, UndoRecorded, StepStatus

LEMMA CompensationInvariant == SagaSpec => []CInv
BY CInvInit, CInvNext, PTL DEF SagaSpec

(* The executors' promises survive compensation, whoever runs it and whenever *)
(* (governance/executor.py, _compensate_locked beside _drive).              *)
THEOREM CompensationBreaksNothing ==
  SagaSpec => [](ExactlyOnce /\ AtomicRecord /\ RowsVouched /\ SucceededIsComplete /\ CheckpointBacked)
<1>1. CInv => ExactlyOnce /\ AtomicRecord /\ RowsVouched /\ SucceededIsComplete /\ CheckpointBacked
  BY DEF CInv, IInv, Safe
<1>2. QED BY <1>1, CompensationInvariant, PTL

(* UndoKeepsPromise: compensation implements WriteOnce, however many people    *)
(* and workers compensate at once (README: undone once).                    *)
THEOREM UndoneExactlyOnce == SagaSpec => UndoKeepsPromise
<1>1. SagaInit => UndoPromise!Init
  BY DEF SagaInit, UndoPromise!Init
<1>2. CInv /\ [SagaNext]_sagaVars => [UndoPromise!Next]_(UndoPromise!vars)
  <2> SUFFICES ASSUME CInv, [SagaNext]_sagaVars
               PROVE  UndoPromise!Next \/ UNCHANGED <<undone, undoAudits, undoLedger>>
    BY DEF UndoPromise!vars
  <2>1. CASE UNCHANGED sagaVars
    BY <2>1 DEF sagaVars, undoDb
  <2>2. CASE Untouched
    BY <2>2 DEF Untouched
  <2>3. ASSUME NEW c \in Agents, NEW s \in todo[c], Undo(s)
        PROVE  UndoPromise!Next \/ UNCHANGED <<undone, undoAudits, undoLedger>>
    <3>1. s \in Step
      BY DEF CInv, UndoTypeOK
    <3>2. QED BY <2>3, <3>1, UndoFacts DEF CInv
  <2>4. QED BY <2>1, <2>2, <2>3, OnlyUndo
<1>3. QED
  BY <1>1, <1>2, CompensationInvariant, PTL DEF SagaSpec, UndoKeepsPromise, UndoPromise!Spec

-----------------------------------------------------------------------------
(* One driver: one worker, and nobody re-runs a step by hand.               *)
SoleDriver == Retriers = {} /\ \A v, w \in Workers : v = w

(* Nobody drives a run that compensation may touch.                         *)
Parked ==
  /\ Settled => \A w \in Workers : pc[w] \in {"idle", "failed"}
  /\ \A c \in Agents : at[c] # "idle" => Settled
  /\ undoLedger # {} => Settled

SInv == CInv /\ Parked

(* A run that compensation may touch is one that no executor changes ...      *)
LEMMA ForwardSettled ==
  ASSUME SoleDriver, SInv, Settled, Forward
  PROVE  /\ run'.status = run.status /\ UNCHANGED db
         /\ \A w \in Workers : pc'[w] \in {"idle", "failed"}
<1>0. /\ run \in Run /\ pc \in [Procs -> PC] /\ Procs = Workers
      /\ \A w \in Workers : pc[w] \in {"idle", "failed"}
  BY DEF SInv, CInv, IInv, TypeOK, Parked, SoleDriver, Procs
<1>1. ASSUME NEW w \in Workers
      PROVE  /\ ~Claim(w) /\ ~Drive(w) /\ ~StepTxn(w) /\ ~StepCommitUnacknowledged(w)
  BY <1>0 DEF Settled, Claim, CLAIMABLE_STATUSES, Drive, AssertHoldsLease, DriveLoad, DriveDecide,
     FinishSucceeded, FinishOverBudget, WaitForApproval, StepTxn, StepBegin, StepOpen, StepClaimKey,
     StepCommit, StepRaises, FailLoad, FailCommit, StepCommitUnacknowledged
<1>2. ASSUME NEW w \in Workers, Heartbeat(w) \/ HeartbeatRaises(w)
      PROVE  run'.status = run.status /\ UNCHANGED db /\ pc' = pc
  BY <1>0, <1>2 DEF Heartbeat, HeartbeatRaises, Run
<1>3. ASSUME NEW w \in Workers, Crash(w)
      PROVE  run'.status = run.status /\ UNCHANGED db /\ pc' = [pc EXCEPT ![w] = "idle"]
  BY <1>3 DEF Crash, Stop, Goto
<1>4. CASE LeaseLapses \/ LeaseExpires
  BY <1>0, <1>4 DEF LeaseLapses, LeaseExpires, Run
<1>5. QED BY <1>0, <1>1, <1>2, <1>3, <1>4 DEF Forward, SoleDriver

(* ... and the sole driver that fails a run has let go of it.               *)
LEMMA ForwardSettles ==
  ASSUME SoleDriver, SInv, ~Settled, Forward
  PROVE  /\ run'.status # "COMPENSATED"
         /\ Settled' => \A w \in Workers : pc'[w] \in {"idle", "failed"}
<1>0. /\ run \in Run /\ pc \in [Procs -> PC] /\ mem \in [Procs -> Mem] /\ Procs = Workers
      /\ run.status \notin {"FAILED", "COMPENSATED"}
  BY DEF SInv, CInv, IInv, TypeOK, Settled, SoleDriver, Procs
<1> DEFINE Goal == /\ run'.status # "COMPENSATED"
                   /\ Settled' => \A w \in Workers : pc'[w] \in {"idle", "failed"}
<1>1. ASSUME run'.status \in {run.status, "RUNNING", "SUCCEEDED", "WAITING_APPROVAL"} PROVE Goal
  BY <1>0, <1>1 DEF Settled
<1>2. ASSUME NEW w \in Workers, pc' = [pc EXCEPT ![w] = "idle"] \/ pc' = [pc EXCEPT ![w] = "failed"],
             run'.status # "COMPENSATED"
      PROVE  Goal
  BY <1>0, <1>2 DEF SoleDriver
<1>3. ASSUME NEW w \in Workers, Claim(w) \/ Heartbeat(w) \/ HeartbeatRaises(w) PROVE Goal
  <2>1. run'.status \in {run.status, "RUNNING"}
    BY <1>0, <1>3 DEF Claim, Heartbeat, HeartbeatRaises, Run
  <2>2. QED BY <1>1, <2>1
<1>4. ASSUME NEW w \in Workers, Drive(w) PROVE Goal
  <2>1. CASE AssertHoldsLease(w) \/ DriveLoad(w) \/ DriveDecide(w)
    BY <1>1, <2>1 DEF AssertHoldsLease, DriveLoad, DriveDecide
  <2>2. CASE FinishSucceeded(w)
    <3>1. [run EXCEPT !.status = "SUCCEEDED"] \in Run /\ [run EXCEPT !.status = "SUCCEEDED"].status = "SUCCEEDED"
      BY <1>0, StatusFacts DEF RunStatus, Terminal
    <3>2. run'.status = "SUCCEEDED"
      BY <2>2, <3>1, ReleasedRun DEF FinishSucceeded
    <3>3. QED BY <1>1, <3>2
  <2>3. CASE FinishOverBudget(w)
    <3>1. [run EXCEPT !.status = "FAILED"] \in Run /\ [run EXCEPT !.status = "FAILED"].status = "FAILED"
      BY <1>0, StatusFacts DEF RunStatus, Terminal
    <3>2. run'.status = "FAILED"
      BY <2>3, <3>1, ReleasedRun DEF FinishOverBudget
    <3>3. QED BY <1>2, <2>3, <3>2 DEF FinishOverBudget, Goto
  <2>4. CASE WaitForApproval(w)
    <3> DEFINE r == [run EXCEPT !.status = "WAITING_APPROVAL", !.marker = "none"]
    <3>1. r \in Run /\ r.status = "WAITING_APPROVAL"
      <4>1. run \in Run
        BY <1>0
      <4>2. r \in Run
        BY <4>1 DEF Run, RunStatus, Marker
      <4>3. QED BY <4>1, <4>2 DEF Run
    <3>2. run' = Released(w, r)
      BY <2>4 DEF WaitForApproval
    <3> HIDE DEF r
    <3>3. run'.status = "WAITING_APPROVAL"
      BY <3>1, <3>2, ReleasedRun
    <3>4. QED BY <1>1, <3>3
  <2>5. QED BY <1>4, <2>1, <2>2, <2>3, <2>4 DEF Drive
<1>5. ASSUME NEW w \in Workers, StepTxn(w) \/ StepCommitUnacknowledged(w) PROVE Goal
  <2>1. CASE StepBegin(w) \/ StepOpen(w) \/ StepClaimKey(w) \/ StepRaises(w) \/ FailLoad(w)
    BY <1>1, <2>1 DEF StepBegin, StepOpen, StepClaimKey, StepRaises, FailLoad
  <2>2. CASE CommitStep(w)
    <3>1. mem[w].status \in RunStatus
      BY <1>0 DEF Mem
    <3>2. run' = Checkpointed(mem[w])
      BY <2>2 DEF CommitStep
    <3>3. run'.status \in {run.status, "RUNNING"}
      BY <1>0, <3>2 DEF Checkpointed, Run
    <3>4. QED BY <1>1, <3>3
  <2>3. CASE FailCommit(w)
    <3>1. [run EXCEPT !.status = "FAILED"] \in Run /\ [run EXCEPT !.status = "FAILED"].status = "FAILED"
      BY <1>0, StatusFacts DEF RunStatus, Terminal
    <3>2. Deferred(w, run).status = run.status
      BY <1>0, ReleasedFacts DEF Procs
    <3>3. run'.status \in {run.status, "FAILED"}
      BY <1>0, <2>3, <3>1, <3>2, ReleasedRun DEF FailCommit, FailedRun
    <3>4. QED BY <1>0, <1>2, <2>3, <3>3 DEF FailCommit, Goto, Stop
  <2>4. QED BY <1>5, <2>1, <2>2, <2>3 DEF StepTxn, StepCommit, StepCommitUnacknowledged
<1>6. ASSUME NEW w \in Workers, Crash(w) PROVE Goal
  BY <1>1, <1>6 DEF Crash
<1>7. CASE LeaseLapses \/ LeaseExpires
  <2>1. run'.status = run.status
    BY <1>0, <1>7 DEF LeaseLapses, LeaseExpires, Run
  <2>2. QED BY <1>1, <2>1
<1>8. QED BY <1>0, <1>3, <1>4, <1>5, <1>6, <1>7 DEF Forward, SoleDriver

(* Compensators touch settled runs only and leave them settled.             *)
LEMMA CompensatorSettled ==
  ASSUME SInv, NEW c \in Agents, Compensate(c) \/ (c \in Workers /\ AutoCompensate(c))
  PROVE  /\ Settled /\ Settled' /\ UNCHANGED db
         /\ \A w \in Workers : pc'[w] \in {"idle", "failed"}
<1>1. Settled
  BY DEF SInv, Parked, Settled, Outcome, Marker, Compensate, CompensateRequested, AutoCompensate, ClaimFailed,
         CompensationPlan, CompensationRefused, CompensateStep, CompensationRaises,
         CompensationUnacknowledged, CompensationFailed, CompensationEnds, CompensatorCrashes
<1>2. /\ run'.status \in {run.status, "FAILED", "COMPENSATED"} /\ UNCHANGED db
      /\ UNCHANGED <<pc, mem>> \/ \E w \in Workers : Stop(w)
  BY Touched DEF SInv, CInv
<1>3. \A w \in Workers : pc'[w] \in {"idle", "failed"}
  BY <1>1, <1>2 DEF SInv, CInv, IInv, TypeOK, Parked, Stop, Goto, Procs
<1>4. QED BY <1>1, <1>2, <1>3 DEF Settled

LEMMA SInvNext == SoleDriver /\ SInv /\ [SagaNext]_sagaVars => SInv'
<1> SUFFICES ASSUME SoleDriver, SInv, [SagaNext]_sagaVars PROVE SInv'
  OBVIOUS
<1>0. CInv' /\ pc \in [Procs -> PC] /\ Workers \subseteq Procs
  BY CInvNext DEF SInv, CInv, IInv, TypeOK, Procs
<1>1. CASE Forward /\ PlansLost /\ UNCHANGED undoDb
  <2>1. CASE Settled
    <3>1. run'.status = run.status /\ \A w \in Workers : pc'[w] \in {"idle", "failed"}
      BY <1>1, <2>1, ForwardSettled
    <3>2. Settled'
      BY <2>1, <3>1 DEF Settled
    <3>3. QED BY <1>0, <3>1, <3>2 DEF SInv, Parked
  <2>2. CASE ~Settled
    <3>1. undoLedger' = {} /\ \A c \in Agents : at'[c] = "idle"
      BY <1>1, <2>2 DEF SInv, Parked, PlansLost, undoDb
    <3>2. Settled' => \A w \in Workers : pc'[w] \in {"idle", "failed"}
      BY <1>1, <2>2, ForwardSettles
    <3>3. QED BY <1>0, <3>1, <3>2 DEF SInv, Parked
  <2>3. QED BY <1>0, <2>1, <2>2 DEF SInv
<1>2. ASSUME NEW w \in Workers, FailureLeft(w) PROVE SInv'
  <2>1. /\ run' = run /\ at' = at /\ undoLedger' = undoLedger /\ pc' = [pc EXCEPT ![w] = "idle"]
    BY <1>2 DEF FailureLeft, AfterFailure, Stop, Goto, undoDb
  <2>2. QED BY <1>0, <2>1 DEF SInv, Parked, Settled
<1>3. ASSUME NEW c \in Agents, Compensate(c) \/ (c \in Workers /\ AutoCompensate(c)) PROVE SInv'
  BY <1>0, <1>3, CompensatorSettled DEF SInv, Parked
<1>4. CASE UNCHANGED sagaVars
  BY <1>0, <1>4 DEF SInv, Parked, Settled, sagaVars, vars, undoDb
<1>5. QED BY <1>1, <1>2, <1>3, <1>4 DEF SagaNext, Agents

LEMMA SInvInit == SagaInit => SInv
BY CInvInit DEF SInv, Parked, Settled, SagaInit, Init, NewRun

LEMMA SoleDriverInvariant == ASSUME SoleDriver PROVE SagaSpec => []SInv
<1>1. SInv /\ [SagaNext]_sagaVars => SInv'
  BY SInvNext
<1>2. QED BY <1>1, SInvInit, PTL DEF SagaSpec

(* UndoneNotDriven, wherever compensators are killed and whatever commits are *)
(* not acknowledged, as long as the run has one driver at a time            *)
(* (executor.py, claim with mark_running=False).                            *)
THEOREM UndoneIsNotDriven == ASSUME SoleDriver PROVE SagaSpec => []UndoneNotDriven
<1>1. SInv => UndoneNotDriven
  BY DEF SInv, CInv, UndoRecorded, Parked, Settled, UndoneNotDriven
<1>2. QED BY <1>1, SoleDriverInvariant, PTL

-----------------------------------------------------------------------------
(* Writes that share a key follow one another in the plan (keys are numbered  *)
(* in the order of the plan): "undone latest first" is then said of keys as   *)
(* well as of steps.                                                        *)
KeysInOrder == \A s \in Writes, t \in Writes : s < t => KeyOf[s] <= KeyOf[t]

(* Steps that share a key call the same tool with the same arguments and have *)
(* one result: either both can be undone or neither.                        *)
SharedFate == \A s \in Writes, t \in Writes : KeyOf[s] = KeyOf[t] /\ s \in Undoable => t \in Undoable

Keys(S) == {KeyOf[s] : s \in S}

(* What a driver has in hand has not succeeded yet ... *)
Untried ==
  \A w \in Workers :
    pc[w] \in BeforeCommit \cup {"failing", "failOpen"} => rows[mem[w].step] # "SUCCEEDED"

(* ... so the rows name every write there is. *)
Named == ledger \subseteq Keys(Standing)

(* A compensator that has planned has the rest of the writes in hand; those   *)
(* it has not, somebody has undone.                                         *)
PlanHolds ==
  \A c \in Agents :
    /\ at[c] \in {"next", "COMPENSATED"} =>
         /\ todo[c] \subseteq Standing /\ Standing \subseteq Undoable
         /\ \A s \in Standing \ todo[c] : Taken(s)
    /\ at[c] = "COMPENSATED" => todo[c] = {}

(* Only what was done is undone, all of it or nothing.                      *)
AllOrNothing ==
  /\ undoLedger \subseteq Keys(Standing)
  /\ undoLedger # {} => Standing \subseteq Undoable
  /\ run.status = "COMPENSATED" => \A s \in Standing : Taken(s)

TInv == SInv /\ Untried /\ Named /\ PlanHolds /\ AllOrNothing

-----------------------------------------------------------------------------
(* One driver at a time, acknowledged commits: the rows name what stands.     *)
LEMMA StandingKept ==
  ASSUME UNCHANGED db PROVE Standing' = Standing /\ ledger' = ledger /\ rows' = rows
BY DEF Standing, Completed, db

LEMMA QuietDriver ==
  ASSUME TInv, UNCHANGED db, \A w \in Workers : pc'[w] \in {"idle", "failed"}
  PROVE  Untried' /\ Named'
<1>1. Untried'
  BY DEF Untried, BeforeCommit
<1>2. Named'
  BY StandingKept DEF TInv, Named
<1>3. QED BY <1>1, <1>2

(* Forward steps: what a driver has in hand, and what it writes.            *)
LEMMA ForwardTried ==
  ASSUME SoleDriver, ~LostAcks, TInv, Forward PROVE Untried' /\ Named'
<1>0. /\ TypeOK /\ Located /\ Procs = Workers /\ \A v, w \in Workers : v = w
      /\ pc \in [Procs -> PC] /\ mem \in [Procs -> Mem] /\ rows \in [Step -> StepStatus]
      /\ Untried /\ Named
  BY DEF TInv, SInv, CInv, IInv, TypeOK, SoleDriver, Procs
<1>1. ASSUME NEW w \in Workers, UNCHANGED db,
             \/ pc'[w] \notin BeforeCommit \cup {"failing", "failOpen"}
             \/ rows[mem'[w].step] # "SUCCEEDED"
             \/ pc[w] \in BeforeCommit \cup {"failing", "failOpen"} /\ mem'[w].step = mem[w].step
      PROVE  Untried' /\ Named'
  <2>1. Named'
    BY <1>0, <1>1, StandingKept DEF Named
  <2>2. Untried'
    BY <1>0, <1>1, StandingKept DEF Untried
  <2>3. QED BY <2>1, <2>2
<1>2. ASSUME NEW w \in Workers, Claim(w) PROVE Untried' /\ Named'
  BY <1>0, <1>1, <1>2 DEF Claim, Goto, BeforeCommit
<1>3. ASSUME NEW w \in Workers, Heartbeat(w) \/ HeartbeatRaises(w) PROVE Untried' /\ Named'
  <2>1. pc' = pc /\ mem'[w].step = mem[w].step /\ UNCHANGED db
    BY <1>0, <1>3 DEF Heartbeat, HeartbeatRaises, Mem
  <2>2. QED BY <1>1, <2>1
<1>4. ASSUME NEW w \in Workers, Drive(w) PROVE Untried' /\ Named'
  <2>1. CASE AssertHoldsLease(w) \/ DriveLoad(w) \/ FinishSucceeded(w) \/ FinishOverBudget(w)
             \/ WaitForApproval(w)
    <3>1. pc'[w] \in {"idle", "drive", "decide", "failed"} /\ UNCHANGED db
      BY <1>0, <2>1 DEF AssertHoldsLease, DriveLoad, FinishSucceeded, FinishOverBudget,
                        WaitForApproval, Stop, Goto
    <3>2. QED BY <1>1, <3>1 DEF BeforeCommit
  <2>2. CASE DriveDecide(w)
    <3>0. w \in Procs /\ UNCHANGED db
      BY <1>0, <2>2 DEF DriveDecide
    <3>1. CASE \E to \in {"finish", "budget", "wait"} : Goto(w, to)
      BY <1>0, <1>1, <3>0, <3>1 DEF Goto, BeforeCommit
    <3>2. ASSUME NEW s \in Step, NextStep(s),
                 Failing(w, s, "domain") \/ (Goto(w, "step") /\ mem' = [mem EXCEPT ![w].step = s])
          PROVE  Untried' /\ Named'
      <4>1. rows[s] # "SUCCEEDED"
        BY <3>2 DEF NextStep, Completed
      <4>2. mem'[w].step = s
        <5>1. CASE Failing(w, s, "domain")
          BY <1>0, <3>0, <5>1, FailingFacts
        <5>2. CASE mem' = [mem EXCEPT ![w].step = s]
          BY <1>0, <3>0, <5>2 DEF Mem
        <5>3. QED BY <3>2, <5>1, <5>2
      <4>3. QED BY <1>1, <3>0, <4>1, <4>2
    <3>3. QED BY <2>2, <3>1, <3>2 DEF DriveDecide
  <2>3. QED BY <1>4, <2>1, <2>2 DEF Drive
<1>5. ASSUME NEW w \in Workers, StepTxn(w) PROVE Untried' /\ Named'
  <2>0. w \in Procs
    BY <1>0
  <2>1. CASE StepBegin(w) \/ StepOpen(w) \/ StepClaimKey(w)
    <3>1. pc[w] \in {"step", "open", "key"} /\ mem'[w].step = mem[w].step /\ UNCHANGED db
      BY <1>0, <2>0, <2>1 DEF StepBegin, StepOpen, StepClaimKey, Mem
    <3>2. QED BY <1>1, <3>1 DEF BeforeCommit
  <2>2. CASE StepRaises(w)
    <3>1. pc[w] = "write" /\ mem[w].step \in Step /\ UNCHANGED db
      BY <1>0, <2>0, <2>2 DEF StepRaises, Located
    <3>2. mem'[w].step = mem[w].step
      BY <1>0, <2>0, <2>2, <3>1, FailingFacts DEF StepRaises
    <3>3. QED BY <1>1, <3>1, <3>2 DEF BeforeCommit
  <2>3. CASE FailLoad(w)
    <3>1. pc[w] = "failing" /\ mem'[w].step = mem[w].step /\ UNCHANGED db
      BY <1>0, <2>0, <2>3 DEF FailLoad, Mem
    <3>2. QED BY <1>1, <3>1
  <2>4. CASE StepCommit(w)
    <3> DEFINE s == mem[w].step
    <3>1. s \in Step
      BY <1>0, <2>0, <2>4 DEF StepCommit, Located
    <3>2. /\ rows' = [rows EXCEPT ![s] = "SUCCEEDED"]
          /\ ledger' = ledger \/ (s \in Writes /\ ledger' = ledger \cup {KeyOf[s]})
      BY <2>4, <3>1 DEF StepCommit, CommitStep
    <3>3. pc'[w] \in {"drive", "idle"}
      BY <1>0, <2>0, <2>4 DEF StepCommit, Goto, Stop
    <3> HIDE DEF s
    <3>4. Named'
      BY <1>0, <3>1, <3>2 DEF Named, Keys, Standing, Completed
    <3>5. Untried'
      BY <1>0, <3>3 DEF Untried, BeforeCommit
    <3>6. QED BY <3>4, <3>5
  <2>5. CASE FailCommit(w)
    <3> DEFINE s == mem[w].step
    <3>1. rows[s] # "SUCCEEDED" /\ rows' = [rows EXCEPT ![s] = "FAILED"] /\ ledger' = ledger
      BY <1>0, <2>5 DEF FailCommit, Untried
    <3>2. pc'[w] \in {"failed", "idle"}
      BY <1>0, <2>0, <2>5 DEF FailCommit, Goto, Stop
    <3> HIDE DEF s
    <3>3. Named'
      BY <1>0, <3>1 DEF Named, Standing, Completed
    <3>4. Untried'
      BY <1>0, <3>2 DEF Untried, BeforeCommit
    <3>5. QED BY <3>3, <3>4
  <2>6. QED BY <1>5, <2>1, <2>2, <2>3, <2>4, <2>5 DEF StepTxn
<1>6. ASSUME NEW w \in Workers, Crash(w) PROVE Untried' /\ Named'
  BY <1>0, <1>1, <1>6 DEF Crash, Stop, Goto, BeforeCommit
<1>7. CASE LeaseLapses \/ LeaseExpires
  BY <1>0, <1>7, StandingKept DEF LeaseLapses, LeaseExpires, Untried, Named
<1>8. QED
  BY <1>0, <1>2, <1>3, <1>4, <1>5, <1>6, <1>7 DEF Forward, SoleDriver, StepCommitUnacknowledged

LEMMA ForwardTInv ==
  ASSUME SoleDriver, TInv, Forward, PlansLost, UNCHANGED undoDb
  PROVE  PlanHolds' /\ AllOrNothing'
<1>0. undoLedger' = undoLedger
  BY DEF undoDb
<1>1. CASE Settled
  <2>1. Standing' = Standing /\ run'.status = run.status
    BY <1>1, ForwardSettled, StandingKept DEF TInv
  <2>2. \A c \in Agents : at'[c] = "idle" \/ (at'[c] = at[c] /\ todo'[c] = todo[c])
    BY DEF PlansLost
  <2>3. QED BY <1>0, <2>1, <2>2 DEF TInv, PlanHolds, AllOrNothing, Taken
<1>2. CASE ~Settled
  <2>1. undoLedger = {} /\ \A c \in Agents : at'[c] = "idle"
    BY <1>2 DEF TInv, SInv, Parked, PlansLost
  <2>2. run'.status # "COMPENSATED"
    BY <1>2, ForwardSettles DEF TInv
  <2>3. QED BY <1>0, <2>1, <2>2 DEF PlanHolds, AllOrNothing, Taken
<1>3. QED BY <1>1, <1>2

(* An undo whose commit nobody acknowledged: a key more in the ledger, and the *)
(* plan in hand is given up.                                                *)
LEMMA UnacknowledgedTInv ==
  ASSUME TInv, NEW c \in Agents, CompensationUnacknowledged(c) PROVE PlanHolds' /\ AllOrNothing'
<1>0. /\ at \in [Agents -> {"idle", "load", "next", "undoFailed"} \cup Outcome]
      /\ todo \in [Agents -> SUBSET Step] /\ at[c] = "next" /\ Standing \subseteq Step
  BY DEF TInv, SInv, CInv, UndoTypeOK, CompensationUnacknowledged, Standing, Completed
<1>1. PICK s \in todo[c] : Undo(s)
  BY DEF CompensationUnacknowledged
<1>2. s \in Standing /\ Standing \subseteq Undoable /\ s \in Step
  BY <1>0 DEF TInv, PlanHolds
<1>3. undoLedger' = undoLedger \cup {KeyOf[s]}
  BY <1>1, <1>2, UndoFacts DEF TInv, SInv, CInv
<1>4. /\ Standing' = Standing /\ run' = run /\ todo' = todo
      /\ at' = [at EXCEPT ![c] = "undoFailed"]
  BY StandingKept DEF CompensationUnacknowledged, Proceed
<1>5. PlanHolds'
  BY <1>0, <1>3, <1>4 DEF TInv, PlanHolds, Taken
<1>6. AllOrNothing'
  BY <1>2, <1>3, <1>4 DEF TInv, AllOrNothing, Keys, Taken
<1>7. QED BY <1>5, <1>6

(* A compensation's step: a write less in hand, a key more in the ledger.    *)
LEMMA StepTInv ==
  ASSUME TInv, NEW c \in Agents, CompensateStep(c) PROVE PlanHolds' /\ AllOrNothing'
<1>0. /\ at \in [Agents -> {"idle", "load", "next", "undoFailed"} \cup Outcome]
      /\ todo \in [Agents -> SUBSET Step] /\ at[c] = "next" /\ Standing \subseteq Step
  BY DEF TInv, SInv, CInv, UndoTypeOK, CompensateStep, Standing, Completed
<1>1. PICK s \in todo[c] : /\ Undo(s) /\ todo' = [todo EXCEPT ![c] = @ \ {s}]
                            /\ Proceed(c, IF todo[c] = {s} THEN "COMPENSATED" ELSE "next")
  BY DEF CompensateStep
<1>2. /\ s \in Standing /\ Standing \subseteq Undoable /\ s \in Step
      /\ \A t \in Standing \ todo[c] : Taken(t)
  BY <1>0 DEF TInv, PlanHolds
<1>3. undoLedger' = undoLedger \cup {KeyOf[s]}
  BY <1>1, <1>2, UndoFacts DEF TInv, SInv, CInv
<1>4. Taken(s)' /\ \A t \in Standing : Taken(t) => Taken(t)'
  BY <1>3 DEF Taken
<1>5. Standing' = Standing /\ run' = run
  BY StandingKept DEF CompensateStep
<1>6. /\ at'[c] = IF todo[c] = {s} THEN "COMPENSATED" ELSE "next"
      /\ todo'[c] = todo[c] \ {s}
      /\ \A d \in Agents \ {c} : at'[d] = at[d] /\ todo'[d] = todo[d]
  BY <1>0, <1>1 DEF Proceed
<1>7. PlanHolds'
  <2>1. ASSUME NEW d \in Agents
        PROVE  /\ at'[d] \in {"next", "COMPENSATED"} =>
                    /\ todo'[d] \subseteq Standing' /\ Standing' \subseteq Undoable
                    /\ \A t \in Standing' \ todo'[d] : Taken(t)'
               /\ at'[d] = "COMPENSATED" => todo'[d] = {}
    <3>1. CASE d = c
      BY <1>0, <1>2, <1>4, <1>5, <1>6, <3>1 DEF TInv, PlanHolds
    <3>2. CASE d # c
      BY <1>4, <1>5, <1>6, <3>2 DEF TInv, PlanHolds
    <3>3. QED BY <3>1, <3>2
  <2>2. QED BY <2>1 DEF PlanHolds
<1>8. AllOrNothing'
  BY <1>2, <1>3, <1>4, <1>5 DEF TInv, AllOrNothing, Keys
<1>9. QED BY <1>7, <1>8

LEMMA CompensatorTInv ==
  ASSUME TInv, NEW c \in Agents,
         Compensate(c) \/ (c \in Workers /\ AutoCompensate(c))
  PROVE  PlanHolds' /\ AllOrNothing'
<1>0. /\ at \in [Agents -> {"idle", "load", "next", "undoFailed"} \cup Outcome]
      /\ todo \in [Agents -> SUBSET Step] /\ run \in Run
      /\ PlanHolds /\ AllOrNothing
  BY DEF TInv, SInv, CInv, UndoTypeOK, IInv, TypeOK
<1>1. Standing' = Standing
  BY CompensatorSettled, StandingKept DEF TInv
<1>2. ASSUME undoLedger' = undoLedger, run'.status = "COMPENSATED" => run.status = "COMPENSATED"
      PROVE  AllOrNothing'
  BY <1>0, <1>1, <1>2 DEF AllOrNothing, Taken
<1>3. ASSUME undoLedger' = undoLedger, \A d \in Agents \ {c} : at'[d] = at[d] /\ todo'[d] = todo[d],
             at'[c] \notin {"next", "COMPENSATED"}
      PROVE  PlanHolds'
  BY <1>0, <1>1, <1>3 DEF PlanHolds, Taken
<1>4. CASE CompensateRequested(c) \/ (c \in Workers /\ AutoCompensate(c))
  <2>1. /\ run'.status = run.status /\ undoLedger' = undoLedger /\ todo' = todo
        /\ at' = [at EXCEPT ![c] = "load"]
    BY <1>0, <1>4, ClaimedRun DEF CompensateRequested, AutoCompensate, Proceed, undoDb
  <2>2. QED BY <1>0, <1>2, <1>3, <2>1
<1>5. CASE CompensationPlan(c)
  <2>1. /\ run' = run /\ undoLedger' = undoLedger /\ todo' = [todo EXCEPT ![c] = Standing]
        /\ at' = [at EXCEPT ![c] = IF ~(Standing \subseteq Undoable) THEN "BLOCKED"
                                   ELSE IF Standing = {} THEN "NOTHING_TO_ROLLBACK" ELSE "next"]
    BY <1>5 DEF CompensationPlan, Proceed, Standing, undoDb
  <2>2. PlanHolds'
    BY <1>0, <1>1, <2>1 DEF PlanHolds, Taken
  <2>3. QED BY <1>2, <2>1, <2>2
<1>6. CASE CompensationRefused(c) \/ CompensationRaises(c)
  <2>1. /\ run' = run /\ undoLedger' = undoLedger /\ todo' = todo
        /\ \E to \in {"BLOCKED", "NEEDS_APPROVAL", "undoFailed"} : at' = [at EXCEPT ![c] = to]
    BY <1>6 DEF CompensationRefused, CompensationRaises, Proceed, undoDb
  <2>2. QED BY <1>0, <1>2, <1>3, <2>1
<1>7. CASE CompensateStep(c)
  BY <1>7, StepTInv
<1>8. CASE CompensationFailed(c)
  <2>1. /\ run'.status \in {run.status, "FAILED"} /\ undoLedger' = undoLedger /\ todo' = todo
        /\ at' = [at EXCEPT ![c] = "PARTIAL"]
    BY <1>0, <1>8, FailedFacts DEF CompensationFailed, Proceed
  <2>2. QED BY <1>0, <1>2, <1>3, <2>1
<1>9. CASE CompensationEnds(c)
  <2>1. /\ run'.status = IF at[c] = "COMPENSATED" THEN "COMPENSATED" ELSE "FAILED"
        /\ undoLedger' = undoLedger /\ todo' = [todo EXCEPT ![c] = {}]
        /\ at' = [at EXCEPT ![c] = "idle"]
    BY <1>0, <1>9, EndsFacts, LeaveFacts DEF CompensationEnds, undoDb
  <2>2. at[c] = "COMPENSATED" => \A s \in Standing : Taken(s)
    BY <1>0 DEF PlanHolds
  <2>3. AllOrNothing'
    BY <1>0, <1>1, <2>1, <2>2 DEF AllOrNothing, Taken
  <2>4. QED BY <1>0, <1>3, <2>1, <2>3
<1>10. CASE CompensatorCrashes(c)
  <2>1. /\ run' = run /\ undoLedger' = undoLedger /\ todo' = [todo EXCEPT ![c] = {}]
        /\ at' = [at EXCEPT ![c] = "idle"]
    BY <1>10, LeaveFacts DEF CompensatorCrashes, undoDb
  <2>2. QED BY <1>0, <1>2, <1>3, <2>1
<1>11. CASE CompensationUnacknowledged(c)
  BY <1>11, UnacknowledgedTInv
<1>12. QED
  BY <1>4, <1>5, <1>6, <1>7, <1>8, <1>9, <1>10, <1>11 DEF Compensate

LEMMA TInvNext == SoleDriver /\ ~LostAcks /\ TInv /\ [SagaNext]_sagaVars => TInv'
<1> SUFFICES ASSUME SoleDriver, ~LostAcks, TInv, [SagaNext]_sagaVars PROVE TInv'
  OBVIOUS
<1>0. SInv' /\ Untried /\ Named /\ PlanHolds /\ AllOrNothing
  BY SInvNext DEF TInv
<1>1. CASE Forward /\ PlansLost /\ UNCHANGED undoDb
  BY <1>0, <1>1, ForwardTried, ForwardTInv DEF TInv
<1>2. ASSUME NEW w \in Workers, FailureLeft(w) PROVE TInv'
  <2>1. /\ run' = run /\ at' = at /\ todo' = todo /\ undoLedger' = undoLedger /\ UNCHANGED db
        /\ Stop(w) /\ w \in Procs
    BY <1>2 DEF FailureLeft, AfterFailure, undoDb, Procs
  <2>2. PlanHolds' /\ AllOrNothing' /\ Named'
    BY <1>0, <2>1, StandingKept DEF PlanHolds, AllOrNothing, Taken, Named
  <2>3. Alone(w) /\ pc'[w] = "idle"
    BY <2>1, StopFacts DEF TInv, SInv, CInv, IInv
  <2>4. Untried'
    BY <1>0, <2>1, <2>3, StandingKept DEF Untried, Alone, BeforeCommit, Procs
  <2>5. QED BY <1>0, <2>2, <2>4 DEF TInv
<1>3. ASSUME NEW c \in Agents, Compensate(c) \/ (c \in Workers /\ AutoCompensate(c)) PROVE TInv'
  <2>1. Untried' /\ Named'
    BY <1>3, CompensatorSettled, QuietDriver DEF TInv
  <2>2. QED BY <1>0, <1>3, <2>1, CompensatorTInv DEF TInv
<1>4. CASE UNCHANGED sagaVars
  BY <1>0, <1>4, StandingKept
  DEF TInv, Untried, Named, PlanHolds, AllOrNothing, Taken, sagaVars, vars, db, undoDb
<1>5. QED BY <1>1, <1>2, <1>3, <1>4 DEF SagaNext, Agents

LEMMA TInvInit == SagaInit => TInv
<1> SUFFICES ASSUME SagaInit PROVE TInv
  OBVIOUS
<1>1. /\ SInv /\ undoLedger = {} /\ ledger = {} /\ run.status = "PENDING"
      /\ \A c \in Agents : at[c] = "idle"
      /\ \A w \in Workers : pc[w] = "idle"
  BY SInvInit DEF SagaInit, Init, NewRun, Procs
<1>2. Untried
  BY <1>1 DEF Untried, BeforeCommit
<1>3. Named /\ PlanHolds /\ AllOrNothing
  BY <1>1 DEF Named, PlanHolds, AllOrNothing, Taken
<1>4. QED BY <1>1, <1>2, <1>3 DEF TInv

LEMMA OrderlyInvariant ==
  ASSUME SoleDriver, ~LostAcks PROVE SagaSpec => []TInv
<1>1. TInv /\ [SagaNext]_sagaVars => TInv'
  BY TInvNext
<1>2. QED BY <1>1, TInvInit, PTL DEF SagaSpec

(* What is written and what is undone, by key. *)
LEMMA Written ==
  ASSUME TInv, NEW k \in Step
  PROVE  /\ effects[k] = IF k \in Keys(Standing) THEN 1 ELSE 0
         /\ undone[k] = IF k \in undoLedger THEN 1 ELSE 0
<1>1. effects[k] \in Nat /\ effects[k] <= 1 /\ (k \in ledger <=> effects[k] > 0)
  BY DEF TInv, SInv, CInv, IInv, TypeOK, Safe, ExactlyOnce, AtomicRecord
<1>2. ledger \subseteq Keys(Standing)
  BY DEF TInv, Named
<1>3. Keys(Standing) \subseteq ledger
  BY DEF TInv, SInv, CInv, IInv, Safe, RowsVouched, Keys, Standing, Completed
<1>4. undone[k] = IF k \in undoLedger THEN 1 ELSE 0
  BY DEF TInv, SInv, CInv, UndoRecorded
<1>5. QED BY <1>1, <1>2, <1>3, <1>4

(* CompensatedIsClean: with one driver and acknowledged step commits, no    *)
(* write is left standing by what reports COMPENSATED, also where steps     *)
(* share a key (executor.py, _compensate_locked and _finish).               *)
THEOREM CompensatedLeavesNothing ==
  ASSUME SoleDriver, ~LostAcks PROVE SagaSpec => []CompensatedIsClean
<1>1. ASSUME TInv, run.status = "COMPENSATED", NEW k \in Step PROVE undone[k] = effects[k]
  <2>1. undoLedger \subseteq Keys(Standing) /\ Keys(Standing) \subseteq undoLedger
    BY <1>1 DEF TInv, AllOrNothing, Taken, Keys
  <2>2. QED BY <1>1, <2>1, Written
<1>2. TInv => CompensatedIsClean
  BY <1>1 DEF CompensatedIsClean
<1>3. QED BY <1>2, OrderlyInvariant, PTL

(* FailClosed under the same conditions: a write that cannot be undone keeps  *)
(* all the others (compensation.py, blocked plans).                         *)
THEOREM FailsClosed ==
  ASSUME SoleDriver, ~LostAcks, SharedFate PROVE SagaSpec => []FailClosed
<1>1. ASSUME TInv, NEW s \in Writes, s \notin Undoable, effects[KeyOf[s]] > 0, NEW k \in Step
      PROVE  undone[k] = 0
  <2>1. KeyOf[s] \in Step
    BY PlanAssumption
  <2>2. PICK t \in Standing : KeyOf[t] = KeyOf[s]
    BY <1>1, <2>1, Written DEF Keys
  <2>3. t \notin Undoable
    BY <1>1, <2>2 DEF SharedFate, Standing
  <2>4. undoLedger = {}
    BY <1>1, <2>2, <2>3 DEF TInv, AllOrNothing
  <2>5. QED BY <1>1, <2>4, Written
<1>2. TInv => FailClosed
  BY <1>1 DEF FailClosed
<1>3. QED BY <1>2, OrderlyInvariant, PTL

-----------------------------------------------------------------------------
(* Refinement of Rollback. *)
OrderlyPair == <<{k \in Step : effects[k] > 0}, {k \in Step : undone[k] > 0}>>

(* A write is done only while nothing has been undone. *)
LEMMA ForwardOrderly ==
  ASSUME SoleDriver, ~LostAcks, TInv, Forward, UNCHANGED undoDb
  PROVE  Orderly!Next \/ UNCHANGED OrderlyPair
<1>0. undone' = undone /\ effects \in [Step -> Nat]
  BY DEF undoDb, TInv, SInv, CInv, IInv, TypeOK
<1>1. CASE UNCHANGED effects
  BY <1>0, <1>1 DEF OrderlyPair
<1>2. ASSUME NEW w \in Workers, w \in Procs, StepCommit(w), effects' # effects
      PROVE  Orderly!Next \/ UNCHANGED OrderlyPair
  <2>1. PICK k \in Step : k = KeyOf[mem[w].step]
    BY <1>2, PlanAssumption DEF StepCommit, TInv, SInv, CInv, IInv, Located
  <2>2. effects' = [effects EXCEPT ![k] = @ + 1]
    BY <1>2, <2>1 DEF StepCommit, CommitStep
  <2>3. ~Settled
    BY <1>2 DEF TInv, SInv, Parked, StepCommit
  <2>4. \A j \in Step : undone[j] = 0
    BY <2>3 DEF TInv, SInv, CInv, Parked, UndoRecorded
  <2>5. CASE effects[k] > 0
    <3>1. {j \in Step : effects'[j] > 0} = {j \in Step : effects[j] > 0}
      BY <1>0, <2>1, <2>2, <2>5
    <3>2. QED BY <1>0, <3>1 DEF OrderlyPair
  <2>6. CASE effects[k] = 0
    <3>1. {j \in Step : effects'[j] > 0} = {j \in Step : effects[j] > 0} \cup {k}
      BY <1>0, <2>1, <2>2, <2>6
    <3>2. k \notin {j \in Step : effects[j] > 0}
      BY <2>6
    <3>3. {j \in Step : undone[j] > 0} = {}
      BY <2>4
    <3>4. Orderly!Do(k)
      BY <1>0, <3>1, <3>2, <3>3 DEF Orderly!Do
    <3>5. QED BY <3>4 DEF Orderly!Next
  <2>7. QED BY <1>0, <2>1, <2>5, <2>6
<1>3. ASSUME effects' # effects PROVE \E w \in Workers : w \in Procs /\ StepCommit(w)
  <2>1. Workers = Procs
    BY DEF SoleDriver, Procs
  <2>2. PICK w \in Workers : Claim(w) \/ Drive(w) \/ Heartbeat(w) \/ HeartbeatRaises(w) \/ StepTxn(w)
                              \/ StepCommitUnacknowledged(w) \/ Crash(w)
    BY <1>3, <2>1 DEF Forward, SoleDriver, LeaseLapses, LeaseExpires, db
  <2>3. QED
    BY <1>3, <2>1, <2>2
    DEF Claim, Drive, AssertHoldsLease, DriveLoad, DriveDecide, FinishSucceeded, FinishOverBudget,
        WaitForApproval, Heartbeat, HeartbeatRaises, StepTxn, StepBegin, StepOpen, StepClaimKey,
        StepRaises, FailLoad, FailCommit, StepCommitUnacknowledged, Crash, db
<1>4. QED BY <1>1, <1>2, <1>3

(* What is undone is the latest write that stands. *)
LEMMA CompensatorOrderly ==
  ASSUME KeysInOrder, TInv, SagaNext, UNCHANGED effects
  PROVE  Orderly!Next \/ UNCHANGED OrderlyPair
<1>1. CASE Untouched
  BY <1>1 DEF Untouched, OrderlyPair
<1>2. ASSUME NEW c \in Agents, CompensateStep(c) \/ CompensationUnacknowledged(c),
             NEW s \in todo[c], Latest(c, s), Undo(s)
      PROVE  Orderly!Next \/ UNCHANGED OrderlyPair
  <2> DEFINE k == KeyOf[s]
  <2>1. s \in Standing /\ \A t \in Standing \ todo[c] : Taken(t)
    BY <1>2 DEF TInv, PlanHolds, CompensateStep, CompensationUnacknowledged
  <2>2. k \in Keys(Standing) /\ k \in Step /\ s \in Step /\ Standing \subseteq Step
    BY <2>1, PlanAssumption DEF Keys, Standing, Completed
  <2>3. UndoRecorded /\ UndoRecorded' /\ undoLedger' = undoLedger \cup {k}
    BY <1>2, <2>2, UndoFacts DEF TInv, SInv, CInv
  <2>4. /\ {j \in Step : undone[j] > 0} = undoLedger
        /\ {j \in Step : undone'[j] > 0} = undoLedger \cup {k}
        /\ {j \in Step : effects[j] > 0} = Keys(Standing)
    <3>1. undoLedger \subseteq Step
      BY DEF TInv, SInv, CInv, UndoTypeOK
    <3>2. Keys(Standing) \subseteq Step
      BY <2>2, PlanAssumption DEF Keys
    <3>3. {j \in Step : effects[j] > 0} = Keys(Standing)
      BY <3>2, Written
    <3> HIDE DEF k
    <3>4. QED BY <2>2, <2>3, <3>1, <3>3 DEF UndoRecorded
  <2>5. CASE k \in undoLedger
    BY <2>4, <2>5 DEF OrderlyPair
  <2>6. CASE k \notin undoLedger
    <3>1. ASSUME NEW t \in Standing, KeyOf[t] \notin undoLedger PROVE KeyOf[t] <= k
      <4>1. t \in todo[c]
        BY <2>1, <3>1 DEF Taken
      <4>2. t <= s /\ t \in Writes /\ s \in Writes /\ t \in Step
        BY <1>2, <2>1, <2>2, <4>1 DEF Latest, Standing
      <4>3. CASE t = s
        BY <2>2, <4>3 DEF Step
      <4>4. CASE t # s
        BY <2>2, <4>2, <4>4 DEF KeysInOrder, Step
      <4>5. QED BY <4>3, <4>4
    <3>2. \A j \in Keys(Standing) \ undoLedger : j <= k
      BY <3>1 DEF Keys
    <3>3. Orderly!Undo(k)
      BY <2>2, <2>4, <2>6, <3>2 DEF Orderly!Undo
    <3>4. QED BY <2>2, <3>3 DEF Orderly!Next
  <2>7. QED BY <2>5, <2>6
<1>3. QED BY <1>1, <1>2, OnlyUndo DEF TInv, SInv

(* UndoesInOrder: compensation implements Rollback, step by step: nothing is    *)
(* done after an undo, and what is undone is the latest that stands         *)
(* (compensation.py, reversed plan).                                        *)
THEOREM UndoneInOrder ==
  ASSUME SoleDriver, ~LostAcks, KeysInOrder PROVE SagaSpec => UndoesInOrder
<1>1. SagaInit => Orderly!Init
  BY DEF SagaInit, Init, Orderly!Init
<1>2. TInv /\ [SagaNext]_sagaVars => [Orderly!Next]_(Orderly!vars)
  <2> SUFFICES ASSUME TInv, [SagaNext]_sagaVars PROVE Orderly!Next \/ UNCHANGED OrderlyPair
    BY DEF Orderly!vars, OrderlyPair
  <2>1. CASE Forward /\ UNCHANGED undoDb
    BY <2>1, ForwardOrderly
  <2>2. CASE UNCHANGED sagaVars
    BY <2>2 DEF sagaVars, vars, undoDb, OrderlyPair
  <2>3. ASSUME NEW w \in Workers, FailureLeft(w) PROVE UNCHANGED effects
    BY <2>3 DEF FailureLeft, AfterFailure, db
  <2>4. ASSUME NEW c \in Agents, Compensate(c) \/ (c \in Workers /\ AutoCompensate(c))
        PROVE  UNCHANGED effects
    BY <2>4, CompensatorSettled DEF TInv, db
  <2>5. CASE SagaNext /\ UNCHANGED effects
    BY <2>5, CompensatorOrderly
  <2>6. QED BY <2>1, <2>2, <2>3, <2>4, <2>5 DEF SagaNext, Agents
<1>3. QED
  BY <1>1, <1>2, OrderlyInvariant, PTL DEF SagaSpec, UndoesInOrder, Orderly!Spec
=============================================================================
