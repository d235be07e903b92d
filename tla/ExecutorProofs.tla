--------------------------- MODULE ExecutorProofs ---------------------------
(***************************************************************************)
(* Proofs about Executor, for every plan, any number of processes, people   *)
(* and mishaps.  First the types, then the invariant that makes the write   *)
(* path exactly-once, then the refinement of WriteOnce.                     *)
(***************************************************************************)
EXTENDS Executor, FiniteSetTheorems, TLAPS

-----------------------------------------------------------------------------
(* Types: the values an action builds. *)

LEMMA NoMemType == NoMem \in Mem
BY PlanAssumption DEF NoMem, Mem, RunStatus, Marker, Terminal

(* The fields of a run row, and of a memory. *)
LEMMA RunFields ==
  ASSUME NEW r \in Run
  PROVE  /\ r.status \in RunStatus /\ r.ckpt \in 0..NSteps /\ r.marker \in Marker
         /\ r.fresh \in BOOLEAN /\ r.attempt \in 0..MaxRetries
         /\ r.owner \in {WorkerId[p] : p \in DOMAIN WorkerId} \cup {NoOne}
         /\ r.sigs \in [Step -> SUBSET Approvers]
BY DEF Run

LEMMA MemFields ==
  ASSUME NEW m \in Mem
  PROVE  /\ m.status \in RunStatus /\ m.ckpt \in 0..NSteps /\ m.marker \in Marker
         /\ m.step \in Step \cup {0} /\ m.replay \in BOOLEAN /\ m.lost \in BOOLEAN
         /\ m.sigs \in [Step -> SUBSET Approvers] /\ m.defer \in BOOLEAN
         /\ m.fault \in {"none", "domain", "infra"}
BY DEF Mem

(* The lease helpers keep the run row a run row. *)
LEMMA ReleasedType ==
  ASSUME NEW p \in Procs, NEW r \in Run PROVE Released(p, r) \in Run
BY DEF Released, Run

LEMMA DeferredType ==
  ASSUME NEW p \in Procs, NEW r \in Run PROVE Deferred(p, r) \in Run
BY DEF Deferred, Run

LEMMA StatusType ==
  ASSUME NEW r \in Run, NEW st \in RunStatus PROVE [r EXCEPT !.status = st] \in Run
BY DEF Run

LEMMA FurthestType == ASSUME NEW m \in Mem PROVE Furthest(m) \in 0..NSteps
BY PlanAssumption, MemFields DEF Furthest, Step

LEMMA CheckpointedType ==
  ASSUME run \in Run, NEW m \in Mem PROVE Checkpointed(m) \in Run
<1> DEFINE c == IF Furthest(m) # m.ckpt THEN Furthest(m) ELSE run.ckpt
           st == IF m.status # "RUNNING" THEN "RUNNING" ELSE run.status
           fr == run.owner # NoOne
<1>1. c \in 0..NSteps
  BY FurthestType, RunFields
<1>2. st \in RunStatus
  BY RunFields DEF RunStatus
<1>3. fr \in BOOLEAN
  OBVIOUS
<1>4. m.marker \in Marker
  BY MemFields
<1> HIDE DEF c, st, fr
<1>5. [run EXCEPT !.ckpt = c, !.status = st, !.marker = m.marker, !.fresh = fr] \in Run
  BY <1>1, <1>2, <1>3, <1>4 DEF Run
<1>6. QED
  BY <1>5 DEF Checkpointed, c, st, fr

(* What an executor forgets or keeps is always a memory. *)
LEMMA ForgetType ==
  ASSUME mem \in [Procs -> Mem], NEW p \in Procs
  PROVE  /\ [mem EXCEPT ![p] = NoMem] \in [Procs -> Mem]
         /\ [mem EXCEPT ![p] = [NoMem EXCEPT !.lost = mem[p].lost]] \in [Procs -> Mem]
         /\ \A s \in Step, f \in {"none", "domain", "infra"} :
              [mem EXCEPT ![p] = [NoMem EXCEPT !.step = s, !.fault = f, !.lost = mem[p].lost]]
                \in [Procs -> Mem]
<1>1. mem[p].lost \in BOOLEAN
  BY DEF Mem
<1>2. [NoMem EXCEPT !.lost = mem[p].lost] \in Mem
  BY <1>1, NoMemType DEF Mem
<1>3. ASSUME NEW s \in Step, NEW f \in {"none", "domain", "infra"}
      PROVE  [NoMem EXCEPT !.step = s, !.fault = f, !.lost = mem[p].lost] \in Mem
  BY <1>1, <1>3, NoMemType DEF Mem
<1>4. QED
  BY <1>2, <1>3, NoMemType

(* ... and so is what it loads. *)
LEMMA LoadType ==
  ASSUME mem \in [Procs -> Mem], NEW p \in Procs
  PROVE  /\ \A s \in Step : [mem EXCEPT ![p].step = s] \in [Procs -> Mem]
         /\ \A b \in BOOLEAN : /\ [mem EXCEPT ![p].lost = b] \in [Procs -> Mem]
                               /\ [mem EXCEPT ![p].replay = b] \in [Procs -> Mem]
         /\ \A g \in [Step -> SUBSET Approvers] : [mem EXCEPT ![p].sigs = g] \in [Procs -> Mem]
         /\ \A st \in RunStatus, b \in BOOLEAN :
              [mem EXCEPT ![p].status = st, ![p].defer = b] \in [Procs -> Mem]
         /\ \A st \in RunStatus, c \in 0..NSteps, k \in Marker :
              [mem EXCEPT ![p].status = st, ![p].ckpt = c, ![p].marker = k] \in [Procs -> Mem]
<1>1. \A s \in Step : [mem EXCEPT ![p].step = s] \in [Procs -> Mem]
  BY DEF Mem
<1>2. \A b \in BOOLEAN : /\ [mem EXCEPT ![p].lost = b] \in [Procs -> Mem]
                         /\ [mem EXCEPT ![p].replay = b] \in [Procs -> Mem]
  BY DEF Mem
<1>3. \A g \in [Step -> SUBSET Approvers] : [mem EXCEPT ![p].sigs = g] \in [Procs -> Mem]
  BY DEF Mem
<1>4. ASSUME NEW st \in RunStatus, NEW b \in BOOLEAN
      PROVE  [mem EXCEPT ![p].status = st, ![p].defer = b] \in [Procs -> Mem]
  <2>1. [mem[p] EXCEPT !.status = st, !.defer = b] \in Mem
    BY DEF Mem
  <2>2. QED BY <2>1
<1>5. ASSUME NEW st \in RunStatus, NEW c \in 0..NSteps, NEW k \in Marker
      PROVE  [mem EXCEPT ![p].status = st, ![p].ckpt = c, ![p].marker = k] \in [Procs -> Mem]
  <2>1. [mem[p] EXCEPT !.status = st, !.ckpt = c, !.marker = k] \in Mem
    BY DEF Mem
  <2>2. QED BY <2>1
<1>6. QED
  BY <1>1, <1>2, <1>3, <1>4, <1>5

-----------------------------------------------------------------------------
(* Types: the actions. *)

LEMMA InitType == Init => TypeOK
<1> SUFFICES ASSUME Init PROVE TypeOK
  OBVIOUS
<1>1. run \in Run
  BY PlanAssumption DEF Init, NewRun, Run, RunStatus, Marker, Terminal
<1>2. mem \in [Procs -> Mem]
  BY NoMemType DEF Init
<1>3. QED
  BY <1>1, <1>2 DEF Init, TypeOK, StepStatus, PC

LEMMA ClaimType == ASSUME TypeOK, NEW w \in Workers, Claim(w) PROVE TypeOK'
<1> DEFINE n == IF run.attempt < MaxRetries THEN run.attempt + 1 ELSE run.attempt
<1>1. n \in 0..MaxRetries
  BY PlanAssumption, RunFields DEF TypeOK
<1>2. "RUNNING" \in RunStatus /\ WorkerId[w] \in {WorkerId[p] : p \in DOMAIN WorkerId}
  BY ProcAssumption DEF RunStatus, Procs
<1>3. run' = [run EXCEPT !.owner = WorkerId[w], !.fresh = TRUE, !.status = "RUNNING", !.attempt = n]
  BY DEF Claim, TypeOK
<1> HIDE DEF n
<1>4. run' \in Run
  BY <1>1, <1>2, <1>3 DEF TypeOK, Run
<1>5. QED
  BY <1>4 DEF TypeOK, Claim, Goto, db, PC, Procs

(* An action that moves one executor and leaves the database alone. *)
LEMMA MoveType ==
  ASSUME TypeOK, NEW p \in Procs, NEW at \in PC, Goto(p, at),
         mem' \in [Procs -> Mem], run' \in Run, UNCHANGED db, mishaps' \in Nat
  PROVE  TypeOK'
BY DEF TypeOK, Goto, db

LEMMA DriveType == ASSUME TypeOK, NEW w \in Workers, Drive(w) PROVE TypeOK'
<1>0. w \in Procs /\ run \in Run /\ mem \in [Procs -> Mem] /\ mishaps \in Nat
  BY DEF TypeOK, Procs
<1>1. CASE AssertHoldsLease(w)
  BY <1>0, <1>1, ForgetType, MoveType DEF AssertHoldsLease, Stop, PC
<1>2. CASE DriveLoad(w)
  <2>1. run.sigs \in [Step -> SUBSET Approvers]
    BY <1>0, RunFields
  <2>2. CASE Stop(w)
    BY <1>0, <1>2, <2>2, ForgetType, MoveType DEF DriveLoad, Stop, PC
  <2>3. CASE Goto(w, "decide") /\ mem' = [mem EXCEPT ![w].sigs = run.sigs]
    <3>1. mem' \in [Procs -> Mem]
      BY <1>0, <2>1, <2>3, LoadType
    <3>2. QED BY <1>0, <1>2, <2>3, <3>1, MoveType DEF DriveLoad, PC
  <2>4. QED BY <1>2, <2>2, <2>3 DEF DriveLoad
<1>3. CASE DriveDecide(w)
  <2>1. mem' \in [Procs -> Mem]
    <3>1. ASSUME NEW s \in Step, Failing(w, s, "domain") PROVE mem' \in [Procs -> Mem]
      BY <1>0, <3>1, ForgetType DEF Failing
    <3>2. ASSUME NEW s \in Step, mem' = [mem EXCEPT ![w].step = s] PROVE mem' \in [Procs -> Mem]
      BY <1>0, <3>2, LoadType
    <3>3. QED BY <1>0, <1>3, <3>1, <3>2 DEF DriveDecide
  <2>2. \E at \in PC : Goto(w, at)
    BY <1>3 DEF DriveDecide, Failing, PC
  <2>3. QED BY <1>0, <1>3, <2>1, <2>2, MoveType DEF DriveDecide
<1>4. CASE FinishSucceeded(w)
  <2>1. run' \in Run
    BY <1>0, <1>4, StatusType, ReleasedType DEF FinishSucceeded, RunStatus, Terminal
  <2>2. QED BY <1>0, <1>4, <2>1, ForgetType, MoveType DEF FinishSucceeded, Stop, PC
<1>5. CASE FinishOverBudget(w)
  <2>1. run' \in Run
    BY <1>0, <1>5, StatusType, ReleasedType DEF FinishOverBudget, RunStatus, Terminal
  <2>2. QED BY <1>0, <1>5, <2>1, ForgetType, MoveType DEF FinishOverBudget, Forget, PC
<1>6. CASE WaitForApproval(w)
  <2>1. [run EXCEPT !.status = "WAITING_APPROVAL", !.marker = "none"] \in Run
    BY <1>0 DEF Run, RunStatus, Marker
  <2>2. run' \in Run
    BY <1>0, <1>6, <2>1, ReleasedType DEF WaitForApproval
  <2>3. QED BY <1>0, <1>6, <2>2, ForgetType, MoveType DEF WaitForApproval, Stop, PC
<1>7. QED
  BY <1>1, <1>2, <1>3, <1>4, <1>5, <1>6 DEF Drive

LEMMA CommitType ==
  ASSUME TypeOK, NEW p \in Procs, mem[p].step \in Step, CommitStep(p)
  PROVE  /\ run' \in Run /\ rows' \in [Step -> StepStatus] /\ ledger' \subseteq Step
         /\ effects' \in [Step -> Nat] /\ audits' \in [Step -> Nat] /\ failAudits' \subseteq Step
<1>1. mem[p] \in Mem /\ run \in Run
  BY DEF TypeOK
<1>2. run' \in Run
  BY <1>1, CheckpointedType DEF CommitStep
<1>3. KeyOf[mem[p].step] \in Step
  BY PlanAssumption
<1>4. rows' \in [Step -> StepStatus] /\ ledger' \subseteq Step /\ failAudits' \subseteq Step
  BY <1>3 DEF CommitStep, TypeOK, StepStatus
<1>5. effects' \in [Step -> Nat] /\ audits' \in [Step -> Nat]
  BY <1>3 DEF CommitStep, TypeOK
<1>6. QED
  BY <1>2, <1>4, <1>5

(* An executor in a step transaction, or failing, knows which step it is   *)
(* about; one that claims a key is about a write.                          *)
Located ==
  \A p \in Procs :
    /\ pc[p] \in {"recheck", "step", "open", "key", "write", "failing", "failOpen"}
         => mem[p].step \in Step
    /\ pc[p] = "key" => mem[p].step \in Writes

LEMMA StepTxnType ==
  ASSUME TypeOK, Located, NEW p \in Procs, StepTxn(p) \/ StepCommitUnacknowledged(p)
  PROVE  TypeOK'
<1>0. run \in Run /\ mem \in [Procs -> Mem] /\ mem[p] \in Mem /\ mishaps \in Nat
  BY DEF TypeOK
<1>1. CASE StepBegin(p)
  <2>1. mem' \in [Procs -> Mem]
    BY <1>0, <1>1, RunFields, LoadType DEF StepBegin
  <2>2. QED BY <1>0, <1>1, <2>1, MoveType DEF StepBegin, PC
<1>2. CASE StepOpen(p)
  BY <1>0, <1>2, MoveType DEF StepOpen, PC
<1>3. CASE StepClaimKey(p)
  <2>1. mem' \in [Procs -> Mem]
    <3> DEFINE b == KeyOf[mem[p].step] \in ledger
    <3>1. b \in BOOLEAN /\ mem' = [mem EXCEPT ![p].replay = b]
      BY <1>3 DEF StepClaimKey
    <3> HIDE DEF b
    <3>2. QED BY <1>0, <3>1, LoadType
  <2>2. QED BY <1>0, <1>3, <2>1, MoveType DEF StepClaimKey, PC
<1>4. CASE StepRaises(p)
  <2>1. mem[p].step \in Step
    BY <1>4 DEF StepRaises, Located
  <2>2. mem' \in [Procs -> Mem] /\ Goto(p, "failing")
    <3>1. PICK f \in {"none", "domain", "infra"} : Failing(p, mem[p].step, f)
      BY <1>4 DEF StepRaises
    <3>2. mem' = [mem EXCEPT ![p] = [NoMem EXCEPT !.step = mem[p].step, !.fault = f, !.lost = mem[p].lost]]
      BY <3>1 DEF Failing
    <3>3. mem' \in [Procs -> Mem]
      BY <1>0, <2>1, <3>2, ForgetType
    <3>4. QED BY <3>1, <3>3 DEF Failing
  <2>3. QED BY <1>0, <1>4, <2>2, MoveType DEF StepRaises, PC
<1>5. CASE FailLoad(p)
  <2>1. mem' \in [Procs -> Mem]
    <3> DEFINE d == mem[p].fault = "infra" /\ ~Exhausted
    <3>1. d \in BOOLEAN
      OBVIOUS
    <3>2. mem' = [mem EXCEPT ![p].status = run.status, ![p].defer = d]
      BY <1>5 DEF FailLoad
    <3> HIDE DEF d
    <3>3. QED BY <1>0, <3>1, <3>2, RunFields, LoadType
  <2>2. QED BY <1>0, <1>5, <2>1, MoveType DEF FailLoad, PC
<1>6. CASE StepCommit(p)
  <2>1. mem[p].step \in Step
    BY <1>6 DEF StepCommit, Located
  <2>2. mem' \in [Procs -> Mem] /\ pc' \in [Procs -> PC]
    BY <1>0, <1>6, ForgetType DEF StepCommit, TypeOK, Goto, Forget, Stop, PC
  <2>3. QED BY <1>0, <1>6, <2>1, <2>2, CommitType DEF StepCommit, TypeOK
<1>7. CASE StepCommitUnacknowledged(p)
  <2>1. mem[p].step \in Step
    BY <1>7 DEF StepCommitUnacknowledged, Located
  <2>2. mem' \in [Procs -> Mem] /\ pc' \in [Procs -> PC]
    BY <1>0, <1>7, <2>1, ForgetType DEF StepCommitUnacknowledged, TypeOK, Failing, Goto, PC
  <2>3. mishaps' \in Nat
    BY <1>0, <1>7 DEF StepCommitUnacknowledged
  <2>4. QED BY <1>7, <2>1, <2>2, <2>3, CommitType DEF StepCommitUnacknowledged, TypeOK
<1>8. CASE FailCommit(p)
  <2>1. run' \in Run
    BY <1>0, <1>8, StatusType, ReleasedType, DeferredType
       DEF FailCommit, FailedRun, RunStatus, Terminal
  <2>2. mem' \in [Procs -> Mem] /\ pc' \in [Procs -> PC]
    BY <1>0, <1>8, ForgetType DEF FailCommit, TypeOK, Goto, Forget, Stop, PC
  <2>3. rows' \in [Step -> StepStatus] /\ failAudits' \subseteq Step
    BY <1>8, PlanAssumption DEF FailCommit, TypeOK, StepStatus, Located
  <2>4. QED BY <1>8, <2>1, <2>2, <2>3 DEF FailCommit, TypeOK
<1>9. QED
  BY <1>1, <1>2, <1>3, <1>4, <1>5, <1>6, <1>7, <1>8 DEF StepTxn

LEMMA OtherType ==
  ASSUME TypeOK, Located,
         \/ \E w \in Workers : AfterFailure(w) \/ Heartbeat(w) \/ HeartbeatRaises(w)
         \/ \E r \in Retriers : (\E s \in Step : Retry(r, s)) \/ RetryDeps(r)
         \/ \E p \in Procs : Crash(p)
         \/ LeaseLapses \/ LeaseExpires
  PROVE  TypeOK'
<1>0. run \in Run /\ mem \in [Procs -> Mem] /\ mishaps \in Nat /\ mishaps + 1 \in Nat
  BY DEF TypeOK
<1>1. [run EXCEPT !.fresh = TRUE] \in Run /\ [run EXCEPT !.fresh = FALSE] \in Run
  BY <1>0 DEF Run
<1>2. ASSUME NEW w \in Workers, AfterFailure(w) PROVE TypeOK'
  BY <1>0, <1>2, ForgetType, MoveType DEF AfterFailure, Stop, PC, Procs
<1>3. ASSUME NEW w \in Workers, Heartbeat(w) PROVE TypeOK'
  <2>1. mem' \in [Procs -> Mem] /\ run' \in Run
    BY <1>0, <1>1, <1>3, LoadType DEF Heartbeat, Procs
  <2>2. QED BY <1>3, <2>1 DEF Heartbeat, TypeOK, db
<1>4. ASSUME NEW w \in Workers, HeartbeatRaises(w) PROVE TypeOK'
  <2>1. mem' \in [Procs -> Mem]
    BY <1>0, <1>4, LoadType DEF HeartbeatRaises, Procs
  <2>2. QED BY <1>0, <1>4, <2>1 DEF HeartbeatRaises, TypeOK, db
<1>5. ASSUME NEW r \in Retriers, NEW s \in Step, Retry(r, s) PROVE TypeOK'
  BY <1>0, <1>5, LoadType, MoveType DEF Retry, PC, Procs
<1>6. ASSUME NEW r \in Retriers, RetryDeps(r) PROVE TypeOK'
  BY <1>0, <1>6, ForgetType, MoveType DEF RetryDeps, Stop, PC, Procs
<1>7. ASSUME NEW p \in Procs, Crash(p) PROVE TypeOK'
  BY <1>0, <1>7, ForgetType, MoveType DEF Crash, Stop, PC
<1>8. CASE LeaseLapses \/ LeaseExpires
  BY <1>0, <1>1, <1>8 DEF LeaseLapses, LeaseExpires, TypeOK, db
<1>9. QED
  BY <1>2, <1>3, <1>4, <1>5, <1>6, <1>7, <1>8

-----------------------------------------------------------------------------
(* The inductive invariant.  ExactlyOnce alone is not inductive: a commit   *)
(* that writes must know that nobody has recorded its key since it looked.  *)

BeforeCommit == {"step", "open", "key", "write"}

(* In front of its commit, an executor that looked at the ledger saw what   *)
(* is there now ...                                                        *)
LedgerSeen ==
  \A p \in Procs :
    pc[p] = "write" /\ mem[p].step \in Writes => (mem[p].replay <=> KeyOf[mem[p].step] \in ledger)

(* ... because it alone is in front of a commit for that key.              *)
KeyExclusive ==
  \A p, q \in Procs :
    /\ pc[p] = "write" /\ mem[p].step \in Writes
    /\ pc[q] = "write" /\ mem[q].step \in Writes
    /\ KeyOf[mem[p].step] = KeyOf[mem[q].step]
    => p = q

(* The writes a step depends on are recorded before the step is opened.     *)
DepsBacked ==
  \A p \in Procs :
    pc[p] \in BeforeCommit => \A d \in Deps[mem[p].step] \cap Writes : KeyOf[d] \in ledger

(* An executor about to finish the run saw all writes recorded, and a loaded *)
(* checkpoint names a recorded write.                                       *)
FinishBacked == \A p \in Procs : pc[p] = "finish" => \A s \in Writes : KeyOf[s] \in ledger
LoadedBacked ==
  \A p \in Procs :
    pc[p] \in {"open", "key", "write"} /\ mem[p].ckpt \in Writes => KeyOf[mem[p].ckpt] \in ledger

Safe == /\ ExactlyOnce /\ AtomicRecord /\ RowsVouched /\ SucceededIsComplete /\ CheckpointBacked
        /\ LedgerSeen /\ KeyExclusive /\ DepsBacked /\ FinishBacked /\ LoadedBacked

IInv == TypeOK /\ Located /\ Safe

LEMMA InitInv == Init => IInv
<1> SUFFICES ASSUME Init PROVE IInv
  OBVIOUS
<1>1. TypeOK
  BY InitType
<1>2. Located /\ LedgerSeen /\ KeyExclusive /\ DepsBacked /\ FinishBacked /\ LoadedBacked
  BY DEF Init, Located, LedgerSeen, KeyExclusive, DepsBacked, FinishBacked, LoadedBacked, BeforeCommit
<1>3. ExactlyOnce /\ AtomicRecord
  BY DEF Init, ExactlyOnce, AtomicRecord
<1>4. RowsVouched /\ SucceededIsComplete /\ CheckpointBacked
  BY PlanAssumption DEF Init, NewRun, RowsVouched, SucceededIsComplete, CheckpointBacked, Step
<1>5. QED
  BY <1>1, <1>2, <1>3, <1>4 DEF IInv, Safe

(* Only p moves. *)
Alone(p) == \A q \in Procs \ {p} : pc'[q] = pc[q] /\ mem'[q] = mem[q]

LEMMA AloneFacts ==
  ASSUME TypeOK, NEW p \in Procs, NEW at, pc' = [pc EXCEPT ![p] = at],
         NEW m, mem' = [mem EXCEPT ![p] = m]
  PROVE  Alone(p) /\ pc'[p] = at /\ mem'[p] = m
BY DEF TypeOK, Alone

(* Nothing is written: the database stays safe. *)
LEMMA DbQuiet ==
  ASSUME Safe, UNCHANGED db PROVE ExactlyOnce' /\ AtomicRecord' /\ RowsVouched'
BY DEF Safe, db, ExactlyOnce, AtomicRecord, RowsVouched, Completed

(* A run row that is not declared SUCCEEDED and keeps its checkpoint. *)
LEMMA RunQuiet ==
  ASSUME Safe, ledger \subseteq ledger', run'.ckpt = run.ckpt,
         run'.status = "SUCCEEDED" => run.status = "SUCCEEDED"
  PROVE  SucceededIsComplete' /\ CheckpointBacked'
BY DEF Safe, SucceededIsComplete, CheckpointBacked

(* An executor that moves away from the write path. *)
LEMMA MovesAside ==
  ASSUME TypeOK, Located, Safe, NEW p \in Procs, Alone(p), ledger' = ledger,
         pc'[p] \in PC \ ({"finish"} \cup BeforeCommit),
         pc'[p] \in {"recheck", "failing", "failOpen"} => mem'[p].step \in Step
  PROVE  /\ Located' /\ LedgerSeen' /\ KeyExclusive' /\ DepsBacked'
         /\ FinishBacked' /\ LoadedBacked'
<1>1. \A q \in Procs : q = p \/ (pc'[q] = pc[q] /\ mem'[q] = mem[q])
  BY DEF Alone
<1>2. pc'[p] \notin {"finish", "step", "open", "key", "write"}
  BY DEF BeforeCommit
<1>3. Located'
  BY <1>1, <1>2 DEF Located
<1>4. LedgerSeen' /\ KeyExclusive'
  BY <1>1, <1>2 DEF Safe, LedgerSeen, KeyExclusive
<1>5. DepsBacked' /\ FinishBacked' /\ LoadedBacked'
  BY <1>1, <1>2 DEF Safe, DepsBacked, FinishBacked, LoadedBacked, BeforeCommit
<1>6. QED
  BY <1>3, <1>4, <1>5

LEMMA AsideQuiet ==
  ASSUME TypeOK, Located, Safe, NEW p \in Procs, Alone(p), UNCHANGED db,
         pc'[p] \in PC \ ({"finish"} \cup BeforeCommit),
         pc'[p] \in {"recheck", "failing", "failOpen"} => mem'[p].step \in Step,
         run'.ckpt = run.ckpt, run'.status = "SUCCEEDED" => run.status = "SUCCEEDED"
  PROVE  Located' /\ Safe'
<1>1. ledger' = ledger
  BY DEF db
<1>2. QED
  BY <1>1, DbQuiet, RunQuiet, MovesAside DEF Safe

LEMMA StopFacts ==
  ASSUME TypeOK, NEW p \in Procs, Stop(p) PROVE Alone(p) /\ pc'[p] = "idle" /\ mem'[p] = NoMem
BY AloneFacts DEF Stop, Goto

LEMMA ForgetFacts ==
  ASSUME TypeOK, NEW p \in Procs, NEW at, Goto(p, at), Forget(p) PROVE Alone(p) /\ pc'[p] = at
BY AloneFacts DEF Forget, Goto

LEMMA FailingFacts ==
  ASSUME TypeOK, NEW p \in Procs, NEW s \in Step, NEW f, Failing(p, s, f)
  PROVE  Alone(p) /\ pc'[p] = "failing" /\ mem'[p].step = s
<1>1. [NoMem EXCEPT !.step = s, !.fault = f, !.lost = mem[p].lost].step = s
  BY DEF NoMem
<1>2. QED
  BY <1>1, AloneFacts DEF Failing, Goto

LEMMA StayFacts ==
  ASSUME TypeOK, NEW p \in Procs, NEW at, Goto(p, at), UNCHANGED mem
  PROVE  Alone(p) /\ pc'[p] = at /\ mem'[p] = mem[p]
BY DEF TypeOK, Goto, Alone

LEMMA StatusFacts ==
  ASSUME NEW r \in Run, NEW st \in RunStatus
  PROVE  /\ [r EXCEPT !.status = st] \in Run
         /\ [r EXCEPT !.status = st].status = st /\ [r EXCEPT !.status = st].ckpt = r.ckpt
BY DEF Run

LEMMA ReleasedFacts ==
  ASSUME NEW p \in Procs, NEW r \in Run
  PROVE  /\ Released(p, r).status = r.status /\ Released(p, r).ckpt = r.ckpt
         /\ Deferred(p, r).status = r.status /\ Deferred(p, r).ckpt = r.ckpt
BY DEF Released, Deferred, Run

LEMMA DecideSafe ==
  ASSUME IInv, NEW w \in Workers, DriveDecide(w) PROVE Located' /\ Safe'
<1> USE DEF IInv
<1>0. w \in Procs /\ UNCHANGED run /\ UNCHANGED db /\ ledger' = ledger
  BY DEF DriveDecide, Procs, db
<1>1. CASE Completed = Step /\ Goto(w, "finish") /\ UNCHANGED mem
  <2>1. \A q \in Procs : pc'[q] = pc[q] \/ (q = w /\ pc'[q] = "finish")
    BY <1>0, <1>1, StayFacts DEF Alone
  <2>2. \A s \in Writes : KeyOf[s] \in ledger
    BY <1>1, PlanAssumption DEF Safe, RowsVouched, Completed
  <2>3. LedgerSeen' /\ KeyExclusive' /\ Located'
    BY <1>0, <1>1, <2>1 DEF Safe, LedgerSeen, KeyExclusive, Located
  <2>4. DepsBacked' /\ LoadedBacked' /\ FinishBacked'
    BY <1>0, <1>1, <2>1, <2>2 DEF Safe, DepsBacked, LoadedBacked, FinishBacked, BeforeCommit
  <2>5. QED BY <1>0, <2>3, <2>4, DbQuiet, RunQuiet DEF Safe
<1>2. CASE \E at \in {"budget", "wait"} : Goto(w, at) /\ UNCHANGED mem
  BY <1>0, <1>2, StayFacts, AsideQuiet DEF PC, BeforeCommit
<1>3. CASE \E s \in Step : Failing(w, s, "domain")
  BY <1>0, <1>3, FailingFacts, AsideQuiet DEF PC, BeforeCommit
<1>4. ASSUME NEW s \in Step, NextStep(s), Goto(w, "step"), mem' = [mem EXCEPT ![w].step = s]
      PROVE  Located' /\ Safe'
  <2>1. Alone(w) /\ pc'[w] = "step" /\ mem'[w].step = s
    BY <1>0, <1>4 DEF TypeOK, Mem, Goto, Alone
  <2>2. \A d \in Deps[s] \cap Writes : KeyOf[d] \in ledger
    <3> TAKE d \in Deps[s] \cap Writes
    <3>1. d \in Completed
      BY <1>4, PlanAssumption DEF NextStep
    <3>2. QED BY <3>1 DEF Safe, RowsVouched, Completed
  <2>3. LedgerSeen' /\ KeyExclusive' /\ Located'
    BY <1>0, <2>1 DEF Safe, LedgerSeen, KeyExclusive, Located, Alone
  <2>4. DepsBacked' /\ LoadedBacked' /\ FinishBacked'
    BY <1>0, <2>1, <2>2 DEF Safe, DepsBacked, LoadedBacked, FinishBacked, BeforeCommit, Alone
  <2>5. QED BY <1>0, <2>3, <2>4, DbQuiet, RunQuiet DEF Safe
<1>5. QED
  BY <1>1, <1>2, <1>3, <1>4 DEF DriveDecide

LEMMA DriveSafe ==
  ASSUME IInv, NEW w \in Workers, Drive(w) \/ Claim(w) \/ AfterFailure(w) PROVE Located' /\ Safe'
<1> USE DEF IInv
<1>0. w \in Procs /\ run \in Run
  BY DEF Procs, TypeOK
<1>1. CASE AssertHoldsLease(w)
  BY <1>0, <1>1, StopFacts, StayFacts, AsideQuiet DEF AssertHoldsLease, PC, BeforeCommit
<1>2. CASE DriveLoad(w)
  <2>1. Alone(w) /\ pc'[w] \in {"idle", "decide"}
    <3>1. CASE Stop(w)
      BY <1>0, <3>1, StopFacts
    <3>2. CASE Goto(w, "decide") /\ mem' = [mem EXCEPT ![w].sigs = run.sigs]
      BY <1>0, <3>2 DEF TypeOK, Goto, Alone
    <3>3. QED BY <1>2, <3>1, <3>2 DEF DriveLoad
  <2>2. QED BY <1>0, <1>2, <2>1, AsideQuiet DEF DriveLoad, PC, BeforeCommit
<1>3. CASE DriveDecide(w)
  BY <1>3, DecideSafe
<1>4. CASE FinishSucceeded(w)
  <2>1. run'.ckpt = run.ckpt /\ UNCHANGED db /\ ledger' = ledger
    <3> DEFINE r == [run EXCEPT !.status = "SUCCEEDED"]
    <3>1. r \in Run /\ r.ckpt = run.ckpt
      BY <1>0, StatusFacts DEF RunStatus, Terminal
    <3>2. run' = Released(w, r) /\ UNCHANGED db
      BY <1>4 DEF FinishSucceeded
    <3> HIDE DEF r
    <3>3. QED BY <1>0, <3>1, <3>2, ReleasedFacts DEF db
  <2>2. SucceededIsComplete' /\ CheckpointBacked'
    BY <1>0, <1>4, <2>1 DEF FinishSucceeded, Safe, FinishBacked, SucceededIsComplete, CheckpointBacked
  <2>3. Alone(w) /\ pc'[w] = "idle"
    BY <1>0, <1>4, StopFacts DEF FinishSucceeded
  <2>4. QED BY <1>0, <2>1, <2>2, <2>3, DbQuiet, MovesAside DEF PC, BeforeCommit, Safe
<1>5. CASE FinishOverBudget(w)
  <2>1. run'.ckpt = run.ckpt /\ run'.status = "FAILED"
    <3> DEFINE r == [run EXCEPT !.status = "FAILED"]
    <3>1. r \in Run /\ r.ckpt = run.ckpt /\ r.status = "FAILED"
      BY <1>0, StatusFacts DEF RunStatus, Terminal
    <3>2. run' = Released(w, r)
      BY <1>5 DEF FinishOverBudget
    <3> HIDE DEF r
    <3>3. QED BY <1>0, <3>1, <3>2, ReleasedFacts
  <2>2. QED BY <1>0, <1>5, <2>1, ForgetFacts, AsideQuiet DEF FinishOverBudget, PC, BeforeCommit
<1>6. CASE WaitForApproval(w)
  <2>1. [run EXCEPT !.status = "WAITING_APPROVAL", !.marker = "none"] \in Run
    BY <1>0 DEF Run, RunStatus, Marker
  <2>2. run'.ckpt = run.ckpt /\ run'.status = "WAITING_APPROVAL"
    BY <1>0, <1>6, <2>1, ReleasedFacts DEF WaitForApproval, Run
  <2>3. QED BY <1>0, <1>6, <2>2, StopFacts, AsideQuiet DEF WaitForApproval, PC, BeforeCommit
<1>7. CASE Claim(w)
  <2>1. run'.ckpt = run.ckpt /\ run'.status = "RUNNING"
    BY <1>0, <1>7 DEF Claim, Run
  <2>2. QED BY <1>0, <1>7, <2>1, StayFacts, AsideQuiet DEF Claim, PC, BeforeCommit
<1>8. CASE AfterFailure(w)
  BY <1>0, <1>8, StopFacts, AsideQuiet DEF AfterFailure, PC, BeforeCommit
<1>9. QED
  BY <1>1, <1>2, <1>3, <1>4, <1>5, <1>6, <1>7, <1>8 DEF Drive

LEMMA BeginSafe == ASSUME IInv, NEW p \in Procs, StepBegin(p) PROVE Located' /\ Safe'
<1> USE DEF IInv
<1> DEFINE m == [mem[p] EXCEPT !.status = run.status, !.ckpt = run.ckpt, !.marker = run.marker]
<1>1. mem' = [mem EXCEPT ![p] = m] /\ m.step = mem[p].step /\ m.ckpt = run.ckpt
  BY DEF StepBegin, TypeOK, Mem
<1> HIDE DEF m
<1>2. Alone(p) /\ pc'[p] = "open" /\ mem'[p].step = mem[p].step /\ mem'[p].ckpt = run.ckpt
  <2>1. pc' = [pc EXCEPT ![p] = "open"]
    BY DEF StepBegin, Goto
  <2>2. Alone(p) /\ pc'[p] = "open" /\ mem'[p] = m
    BY <1>1, <2>1, AloneFacts
  <2>3. QED BY <1>1, <2>2
<1>3. pc[p] = "step" /\ UNCHANGED db /\ ledger' = ledger /\ run' = run
  BY DEF StepBegin, db
<1>4. LedgerSeen' /\ KeyExclusive' /\ Located'
  BY <1>2, <1>3 DEF Safe, LedgerSeen, KeyExclusive, Located, Alone
<1>5. DepsBacked' /\ LoadedBacked' /\ FinishBacked'
  BY <1>2, <1>3 DEF Safe, DepsBacked, LoadedBacked, FinishBacked, BeforeCommit, Alone, CheckpointBacked
<1>6. QED
  BY <1>3, <1>4, <1>5, DbQuiet, RunQuiet DEF Safe

LEMMA OpenSafe == ASSUME IInv, NEW p \in Procs, StepOpen(p) PROVE Located' /\ Safe'
<1> USE DEF IInv
<1>1. Alone(p) /\ mem'[p] = mem[p] /\ pc'[p] = IF mem[p].step \in Writes THEN "key" ELSE "write"
  BY StayFacts DEF StepOpen
<1>2. pc[p] = "open" /\ UNCHANGED db /\ ledger' = ledger /\ run' = run
  BY DEF StepOpen, db
<1>3. LedgerSeen' /\ KeyExclusive' /\ Located'
  BY <1>1, <1>2 DEF Safe, LedgerSeen, KeyExclusive, Located, Alone
<1>4. DepsBacked' /\ LoadedBacked' /\ FinishBacked'
  BY <1>1, <1>2 DEF Safe, DepsBacked, LoadedBacked, FinishBacked, BeforeCommit, Alone
<1>5. QED
  BY <1>2, <1>3, <1>4, DbQuiet, RunQuiet DEF Safe

LEMMA ClaimKeySafe == ASSUME IInv, NEW p \in Procs, StepClaimKey(p) PROVE Located' /\ Safe'
<1> USE DEF IInv
<1> DEFINE b == KeyOf[mem[p].step] \in ledger
           m == [mem[p] EXCEPT !.replay = b]
<1>1. mem' = [mem EXCEPT ![p] = m] /\ m.step = mem[p].step /\ m.ckpt = mem[p].ckpt /\ m.replay = b
  BY DEF StepClaimKey, TypeOK, Mem
<1> HIDE DEF m, b
<1>2. /\ Alone(p) /\ pc'[p] = "write" /\ mem'[p].step = mem[p].step
      /\ mem'[p].ckpt = mem[p].ckpt /\ (mem'[p].replay <=> KeyOf[mem[p].step] \in ledger)
  <2>1. pc' = [pc EXCEPT ![p] = "write"]
    BY DEF StepClaimKey, Goto
  <2>2. Alone(p) /\ pc'[p] = "write" /\ mem'[p] = m
    BY <1>1, <2>1, AloneFacts
  <2>3. QED BY <1>1, <2>2 DEF b
<1>3. pc[p] = "key" /\ UNCHANGED db /\ ledger' = ledger /\ run' = run
  BY DEF StepClaimKey, db
<1>4. LedgerSeen' /\ Located'
  BY <1>2, <1>3 DEF Safe, LedgerSeen, Located, Alone
<1>5. KeyExclusive'
  BY <1>2, <1>3 DEF Safe, KeyExclusive, Alone, StepClaimKey, KeyFree
<1>6. DepsBacked' /\ LoadedBacked' /\ FinishBacked'
  BY <1>2, <1>3 DEF Safe, DepsBacked, LoadedBacked, FinishBacked, BeforeCommit, Alone
<1>7. QED
  BY <1>3, <1>4, <1>5, <1>6, DbQuiet, RunQuiet DEF Safe

LEMMA RetryDepsSafe == ASSUME IInv, NEW r \in Retriers, RetryDeps(r) PROVE Located' /\ Safe'
<1> USE DEF IInv
<1>0. r \in Procs /\ UNCHANGED db /\ ledger' = ledger /\ run' = run /\ pc[r] = "recheck"
  BY DEF RetryDeps, db, Procs
<1>1. CASE Stop(r)
  BY <1>0, <1>1, StopFacts, AsideQuiet DEF PC, BeforeCommit
<1>2. CASE Deps[mem[r].step] \subseteq Completed /\ Goto(r, "step") /\ UNCHANGED mem
  <2>1. Alone(r) /\ pc'[r] = "step" /\ mem'[r] = mem[r]
    BY <1>0, <1>2, StayFacts
  <2>2. \A d \in Deps[mem[r].step] \cap Writes : KeyOf[d] \in ledger
    BY <1>2 DEF Safe, RowsVouched, Completed
  <2>3. LedgerSeen' /\ KeyExclusive' /\ Located'
    BY <1>0, <2>1 DEF Safe, LedgerSeen, KeyExclusive, Located, Alone
  <2>4. DepsBacked' /\ LoadedBacked' /\ FinishBacked'
    BY <1>0, <2>1, <2>2 DEF Safe, DepsBacked, LoadedBacked, FinishBacked, BeforeCommit, Alone
  <2>5. QED BY <1>0, <2>3, <2>4, DbQuiet, RunQuiet DEF Safe
<1>3. QED
  BY <1>1, <1>2 DEF RetryDeps

(* The commit: the only action that writes.  p is alone in front of a       *)
(* commit for its key, so what it saw in the ledger is still true.          *)
LEMMA CommitSafe ==
  ASSUME IInv, NEW p \in Procs, pc[p] = "write", CommitStep(p), Alone(p),
         pc'[p] \in {"idle", "drive", "failing"},
         pc'[p] = "failing" => mem'[p].step \in Step
  PROVE  Located' /\ Safe'
<1> USE DEF IInv
<1> DEFINE s == mem[p].step
           k == KeyOf[s]
           writes == s \in Writes /\ ~mem[p].replay
<1>0. s \in Step /\ k \in Step
  BY PlanAssumption DEF Located
<1>1. /\ rows' = [rows EXCEPT ![s] = "SUCCEEDED"] /\ failAudits' = failAudits
      /\ effects' = IF writes THEN [effects EXCEPT ![k] = @ + 1] ELSE effects
      /\ audits' = IF writes THEN [audits EXCEPT ![k] = @ + 1] ELSE audits
      /\ ledger' = IF writes THEN ledger \cup {k} ELSE ledger
      /\ run' = Checkpointed(mem[p])
  BY DEF CommitStep
<1>2. ledger \subseteq ledger' /\ (s \in Writes => k \in ledger')
  BY <1>1 DEF Safe, LedgerSeen
<1>3. writes => effects[k] = 0 /\ k \notin ledger
  BY <1>0 DEF Safe, LedgerSeen, AtomicRecord, TypeOK
<1>4. ExactlyOnce' /\ AtomicRecord'
  <2>1. CASE writes
    <3>1. \A j \in Step : /\ effects'[j] = IF j = k THEN effects[j] + 1 ELSE effects[j]
                          /\ audits'[j] = IF j = k THEN audits[j] + 1 ELSE audits[j]
                          /\ j \in ledger' <=> j = k \/ j \in ledger
      BY <1>0, <1>1, <2>1 DEF TypeOK
    <3>2. effects[k] = 0 /\ audits[k] = 0 /\ effects \in [Step -> Nat]
      <4>1. effects \in [Step -> Nat]
        BY DEF TypeOK
      <4>2. audits[k] = effects[k]
        <5> AtomicRecord
          BY DEF Safe
        <5> HIDE DEF k
        <5>1. QED BY <1>0 DEF AtomicRecord
      <4>3. QED BY <1>3, <2>1, <4>1, <4>2
    <3> HIDE DEF s, k, writes
    <3>3. QED BY <3>1, <3>2 DEF Safe, ExactlyOnce, AtomicRecord
  <2>2. CASE ~writes
    BY <1>1, <2>2 DEF Safe, ExactlyOnce, AtomicRecord
  <2>3. QED BY <2>1, <2>2
<1>5. RowsVouched'
  <2>1. \A d \in Deps[s] \cap Writes : KeyOf[d] \in ledger'
    BY <1>2 DEF Safe, DepsBacked, BeforeCommit
  <2>2. QED BY <1>0, <1>1, <1>2, <2>1 DEF Safe, RowsVouched, TypeOK
<1>6. run'.status = "SUCCEEDED" => run.status = "SUCCEEDED"
  BY <1>1 DEF Checkpointed, TypeOK, Run
<1>7. CheckpointBacked'
  <2>1. run'.ckpt \in {run.ckpt, s, mem[p].ckpt}
    BY <1>1 DEF Checkpointed, Furthest, TypeOK, Run
  <2>2. QED BY <1>2, <2>1 DEF Safe, CheckpointBacked, LoadedBacked
<1>8. SucceededIsComplete'
  BY <1>2, <1>6 DEF Safe, SucceededIsComplete
<1>9. Located' /\ KeyExclusive'
  BY DEF Safe, KeyExclusive, Located, Alone
<1>10. LedgerSeen'
  <2> SUFFICES ASSUME NEW q \in Procs, pc'[q] = "write", mem'[q].step \in Writes
               PROVE  mem'[q].replay <=> KeyOf[mem'[q].step] \in ledger'
    BY DEF LedgerSeen
  <2>1. q # p /\ pc'[q] = pc[q] /\ mem'[q] = mem[q]
    BY DEF Alone
  <2>2. mem[q].replay <=> KeyOf[mem[q].step] \in ledger
    BY <2>1 DEF Safe, LedgerSeen
  <2>3. writes => KeyOf[mem[q].step] # k
    BY <2>1 DEF Safe, KeyExclusive
  <2>4. QED BY <1>1, <2>1, <2>2, <2>3
<1>11. DepsBacked' /\ LoadedBacked' /\ FinishBacked'
  <2>1. DepsBacked' /\ LoadedBacked'
    BY <1>2 DEF Safe, DepsBacked, LoadedBacked, BeforeCommit, Alone
  <2>2. FinishBacked'
    BY <1>2 DEF Safe, FinishBacked, Alone
  <2>3. QED BY <2>1, <2>2
<1>12. QED
  BY <1>4, <1>5, <1>7, <1>8, <1>9, <1>10, <1>11 DEF Safe

LEMMA FailCommitSafe == ASSUME IInv, NEW p \in Procs, FailCommit(p) PROVE Located' /\ Safe'
<1> USE DEF IInv
<1>0. mem[p].step \in Step /\ run \in Run
  BY DEF FailCommit, Located, TypeOK
<1>1. /\ rows' = [rows EXCEPT ![mem[p].step] = "FAILED"] /\ ledger' = ledger
      /\ effects' = effects /\ audits' = audits
      /\ failAudits' = IF mem[p].step \in Writes THEN failAudits \cup {mem[p].step} ELSE failAudits
  BY DEF FailCommit
<1>2. ExactlyOnce' /\ AtomicRecord'
  BY <1>1 DEF Safe, ExactlyOnce, AtomicRecord
<1>3. RowsVouched'
  BY <1>0, <1>1 DEF Safe, RowsVouched, TypeOK
<1>4. Alone(p) /\ pc'[p] \in {"failed", "idle"}
  BY StopFacts, ForgetFacts DEF FailCommit
<1>5. run'.ckpt = run.ckpt /\ (run'.status = "SUCCEEDED" => run.status = "SUCCEEDED")
  <2> DEFINE r == IF mem[p].status \in Terminal THEN run ELSE [run EXCEPT !.status = "FAILED"]
  <2>1. r \in Run /\ r.ckpt = run.ckpt /\ (r.status = "SUCCEEDED" => run.status = "SUCCEEDED")
    BY <1>0, StatusFacts DEF RunStatus, Terminal
  <2>2. run' = Deferred(p, run) \/ run' = Released(p, r)
    BY DEF FailCommit, FailedRun
  <2> HIDE DEF r
  <2>3. QED BY <1>0, <2>1, <2>2, ReleasedFacts
<1>6. QED
  BY <1>1, <1>2, <1>3, <1>4, <1>5, RunQuiet, MovesAside DEF PC, BeforeCommit, Safe

LEMMA StepTxnSafe ==
  ASSUME IInv, NEW p \in Procs, StepTxn(p) \/ StepCommitUnacknowledged(p)
  PROVE  Located' /\ Safe'
<1> USE DEF IInv
<1>1. CASE StepCommit(p)
  <2>1. Alone(p) /\ pc'[p] \in {"drive", "idle"}
    BY <1>1, StopFacts, ForgetFacts DEF StepCommit
  <2>2. QED BY <1>1, <2>1, CommitSafe DEF StepCommit
<1>2. CASE StepCommitUnacknowledged(p)
  <2>1. mem[p].step \in Step
    BY <1>2 DEF StepCommitUnacknowledged, Located
  <2>2. Alone(p) /\ pc'[p] = "failing" /\ mem'[p].step = mem[p].step
    BY <1>2, <2>1, FailingFacts DEF StepCommitUnacknowledged
  <2>3. QED BY <1>2, <2>1, <2>2, CommitSafe DEF StepCommitUnacknowledged
<1>3. CASE StepRaises(p)
  <2>1. mem[p].step \in Step
    BY <1>3 DEF StepRaises, Located
  <2>2. Alone(p) /\ pc'[p] = "failing" /\ mem'[p].step = mem[p].step
    BY <1>3, <2>1, FailingFacts DEF StepRaises
  <2>3. QED BY <1>3, <2>1, <2>2, AsideQuiet DEF StepRaises, PC, BeforeCommit
<1>4. CASE FailLoad(p)
  <2>1. mem[p].step \in Step
    BY <1>4 DEF FailLoad, Located
  <2>2. Alone(p) /\ pc'[p] = "failOpen" /\ mem'[p].step = mem[p].step
    <3> DEFINE m == [mem[p] EXCEPT !.status = run.status,
                                   !.defer = mem[p].fault = "infra" /\ ~Exhausted]
    <3>1. mem' = [mem EXCEPT ![p] = m] /\ m.step = mem[p].step
      BY <1>4 DEF FailLoad, TypeOK, Mem
    <3>2. pc' = [pc EXCEPT ![p] = "failOpen"]
      BY <1>4 DEF FailLoad, Goto
    <3> HIDE DEF m
    <3>3. Alone(p) /\ pc'[p] = "failOpen" /\ mem'[p] = m
      BY <3>1, <3>2, AloneFacts
    <3>4. QED BY <3>1, <3>3
  <2>3. QED BY <1>4, <2>1, <2>2, AsideQuiet DEF FailLoad, PC, BeforeCommit
<1>5. QED
  BY <1>1, <1>2, <1>3, <1>4, BeginSafe, OpenSafe, ClaimKeySafe, FailCommitSafe DEF StepTxn

LEMMA OtherSafe ==
  ASSUME IInv,
         \/ \E w \in Workers : Heartbeat(w) \/ HeartbeatRaises(w)
         \/ \E r \in Retriers, s \in Step : Retry(r, s)
         \/ \E p \in Procs : Crash(p)
         \/ LeaseLapses \/ LeaseExpires
  PROVE  Located' /\ Safe'
<1> USE DEF IInv
<1>1. ASSUME NEW p \in Procs, Crash(p) PROVE Located' /\ Safe'
  BY <1>1, StopFacts, AsideQuiet DEF Crash, PC, BeforeCommit
<1>2. ASSUME NEW r \in Retriers, NEW s \in Step, Retry(r, s) PROVE Located' /\ Safe'
  <2>1. r \in Procs /\ Alone(r) /\ pc'[r] = "recheck" /\ mem'[r].step = s
    BY <1>2 DEF Retry, Goto, Alone, Procs, TypeOK, Mem
  <2>2. QED BY <1>2, <2>1, AsideQuiet DEF Retry, PC, BeforeCommit
<1>3. ASSUME pc' = pc, UNCHANGED db, run'.ckpt = run.ckpt, run'.status = run.status,
             \A p \in Procs : /\ mem'[p].step = mem[p].step /\ mem'[p].ckpt = mem[p].ckpt
                              /\ mem'[p].replay = mem[p].replay
      PROVE  Located' /\ Safe'
  <2>1. ledger' = ledger
    BY <1>3 DEF db
  <2>2. Located' /\ LedgerSeen' /\ KeyExclusive'
    BY <1>3, <2>1 DEF Safe, Located, LedgerSeen, KeyExclusive
  <2>3. DepsBacked' /\ FinishBacked' /\ LoadedBacked'
    BY <1>3, <2>1 DEF Safe, DepsBacked, FinishBacked, LoadedBacked, BeforeCommit
  <2>4. QED BY <1>3, <2>1, <2>2, <2>3, DbQuiet, RunQuiet DEF Safe
<1>4. CASE LeaseLapses \/ LeaseExpires
  <2>1. run'.ckpt = run.ckpt /\ run'.status = run.status
    BY <1>4 DEF LeaseLapses, LeaseExpires, TypeOK, Run
  <2>2. QED BY <1>3, <1>4, <2>1 DEF LeaseLapses, LeaseExpires
<1>5. ASSUME NEW w \in Workers, Heartbeat(w) \/ HeartbeatRaises(w) PROVE Located' /\ Safe'
  <2>1. run'.ckpt = run.ckpt /\ run'.status = run.status
    BY <1>5 DEF Heartbeat, HeartbeatRaises, TypeOK, Run
  <2>2. mem' = mem \/ mem' = [mem EXCEPT ![w].lost = TRUE]
    BY <1>5 DEF Heartbeat, HeartbeatRaises
  <2>3. \A p \in Procs : /\ mem'[p].step = mem[p].step /\ mem'[p].ckpt = mem[p].ckpt
                         /\ mem'[p].replay = mem[p].replay
    BY <2>2 DEF TypeOK, Mem
  <2>4. QED BY <1>3, <1>5, <2>1, <2>3 DEF Heartbeat, HeartbeatRaises
<1>6. QED
  BY <1>1, <1>2, <1>4, <1>5

LEMMA NextInv == IInv /\ [Next]_vars => IInv'
<1> SUFFICES ASSUME IInv, [Next]_vars PROVE IInv'
  OBVIOUS
<1> USE DEF IInv
<1>1. ASSUME NEW w \in Workers, Claim(w) \/ Drive(w) \/ AfterFailure(w) PROVE IInv'
  BY <1>1, ClaimType, DriveType, OtherType, DriveSafe
<1>2. ASSUME NEW w \in Workers, Heartbeat(w) \/ HeartbeatRaises(w) PROVE IInv'
  BY <1>2, OtherType, OtherSafe
<1>3. ASSUME NEW r \in Retriers, (\E s \in Step : Retry(r, s)) \/ RetryDeps(r) PROVE IInv'
  BY <1>3, OtherType, OtherSafe, RetryDepsSafe
<1>4. ASSUME NEW p \in Procs, StepTxn(p) \/ StepCommitUnacknowledged(p) PROVE IInv'
  BY <1>4, StepTxnType, StepTxnSafe
<1>5. ASSUME NEW p \in Procs, Crash(p) PROVE IInv'
  BY <1>5, OtherType, OtherSafe
<1>6. CASE LeaseLapses \/ LeaseExpires
  BY <1>6, OtherType, OtherSafe
<1>7. CASE UNCHANGED vars
  <2>1. UNCHANGED <<run, pc, mem, mishaps, rows, ledger, effects, audits, failAudits>>
    BY <1>7 DEF vars
  <2>2. TypeOK' /\ Located'
    BY <2>1 DEF TypeOK, Located
  <2>3. /\ ExactlyOnce' /\ AtomicRecord' /\ RowsVouched' /\ SucceededIsComplete' /\ CheckpointBacked'
        /\ LedgerSeen' /\ KeyExclusive' /\ DepsBacked' /\ FinishBacked' /\ LoadedBacked'
    BY <2>1 DEF Safe, ExactlyOnce, AtomicRecord, RowsVouched, SucceededIsComplete, CheckpointBacked,
                LedgerSeen, KeyExclusive, DepsBacked, FinishBacked, LoadedBacked
  <2>4. QED BY <2>2, <2>3 DEF Safe
<1>8. QED
  BY <1>1, <1>2, <1>3, <1>4, <1>5, <1>6, <1>7 DEF Next, Forward

LEMMA Invariant == Spec => []IInv
BY InitInv, NextInv, PTL DEF Spec

(* TypeOK: whatever the executors do, every column and every memory keeps  *)
(* its type; in particular no step or key outside the plan is ever named.  *)
THEOREM TypeCorrect == Spec => []TypeOK
BY Invariant, PTL DEF IInv

(* ExactlyOnce, for every plan and any number of executors, crashes,        *)
(* retries and lost acknowledgements: a key is written at most once.        *)
THEOREM WritesExactlyOnce == Spec => []ExactlyOnce
BY Invariant, PTL DEF IInv, Safe

(* AtomicRecord: business write, audit row and ledger record go together.   *)
THEOREM RecordsAtomic == Spec => []AtomicRecord
BY Invariant, PTL DEF IInv, Safe

(* RowsVouched: a step row of a write never claims more than the ledger and *)
(* the audit log hold, dependencies included.                               *)
THEOREM RowsAreVouched == Spec => []RowsVouched
BY Invariant, PTL DEF IInv, Safe

(* SucceededIsComplete: a run reported SUCCEEDED has all its writes.        *)
THEOREM SucceededComplete == Spec => []SucceededIsComplete
BY Invariant, PTL DEF IInv, Safe

(* CheckpointBacked: checkpoint_seq never names a write that is not there.  *)
THEOREM CheckpointIsBacked == Spec => []CheckpointBacked
BY Invariant, PTL DEF IInv, Safe

-----------------------------------------------------------------------------
(* The limits of a run: budget and refusals are looked at by the loop, long   *)
(* before the commit that counts.                                           *)

(* Which step comes next says how many are completed.                       *)
LEMMA NextInBudget ==
  ASSUME NEW s \in Step, NextStep(s), ~OverBudget PROVE s <= StepBudget
<1>1. s \in Nat /\ s > 0 /\ NSteps \in Nat /\ StepBudget \in Nat
  BY PlanAssumption DEF Step
<1>2. IsFiniteSet(1..(s - 1)) /\ Cardinality(1..(s - 1)) = s - 1
  BY <1>1, FS_Interval
<1>3. IsFiniteSet(Completed) /\ Cardinality(Completed) \in Nat
  <2>1. IsFiniteSet(1..NSteps)
    BY <1>1, FS_Interval
  <2>2. Completed \subseteq 1..NSteps
    BY DEF Completed, Step
  <2>3. IsFiniteSet(Completed)
    BY <2>1, <2>2, FS_Subset
  <2>4. QED BY <2>3, FS_CardinalityType
<1>4. 1..(s - 1) \subseteq Completed
  BY <1>1 DEF NextStep, Step
<1>5. Cardinality(1..(s - 1)) <= Cardinality(Completed)
  BY <1>3, <1>4, FS_Subset
<1>6. ~(Cardinality(Completed) >= StepBudget)
  BY DEF OverBudget
<1>7. QED BY <1>1, <1>2, <1>3, <1>5, <1>6

(* What a worker has in hand was allowed when it took it in hand.           *)
Allowed(s) == s <= StepBudget /\ s \notin Refused
Limited == \A w \in Workers : pc[w] \in BeforeCommit => Allowed(mem[w].step)

LInv == IInv /\ Limited /\ WithinLimits

LEMMA WorkerLimited ==
  ASSUME LInv, NEW p \in Procs, Alone(p), UNCHANGED rows,
         \/ p \notin Workers \/ pc'[p] \notin BeforeCommit \/ Allowed(mem'[p].step)
         \/ pc[p] \in BeforeCommit /\ mem'[p].step = mem[p].step
  PROVE  Limited' /\ WithinLimits'
<1>1. Limited'
  BY DEF LInv, Limited, Alone, Procs, Allowed
<1>2. WithinLimits'
  BY DEF LInv, WithinLimits
<1>3. QED BY <1>1, <1>2

LEMMA LimitsNext == LInv /\ [Next]_vars => LInv'
<1> SUFFICES ASSUME LInv, [Next]_vars PROVE LInv'
  OBVIOUS
<1>0. IInv' /\ TypeOK /\ Located /\ mem \in [Procs -> Mem] /\ pc \in [Procs -> PC]
      /\ rows \in [Step -> StepStatus]
  BY NextInv DEF LInv, IInv, TypeOK
<1>1. SUFFICES Limited' /\ WithinLimits'
  BY <1>0 DEF LInv
<1>2. ASSUME NEW p \in Procs, Alone(p), pc'[p] \notin BeforeCommit, UNCHANGED rows
      PROVE  Limited' /\ WithinLimits'
  BY <1>2, WorkerLimited
<1>3. ASSUME NEW w \in Workers, Claim(w) \/ AfterFailure(w) \/ Drive(w) PROVE Limited' /\ WithinLimits'
  <2>0. w \in Procs
    BY DEF Procs
  <2>1. CASE Claim(w) \/ AfterFailure(w) \/ AssertHoldsLease(w) \/ FinishSucceeded(w)
             \/ WaitForApproval(w)
    <3>1. Alone(w) /\ pc'[w] \in {"claimed", "idle", "drive"} /\ UNCHANGED rows
      BY <1>0, <2>0, <2>1, StopFacts, StayFacts
      DEF Claim, AfterFailure, AssertHoldsLease, FinishSucceeded, WaitForApproval, db
    <3>2. QED BY <1>2, <2>0, <3>1 DEF BeforeCommit
  <2>2. CASE FinishOverBudget(w)
    BY <1>0, <1>2, <2>0, <2>2, ForgetFacts DEF FinishOverBudget, db, BeforeCommit
  <2>3. CASE DriveLoad(w)
    <3>1. Alone(w) /\ pc'[w] \in {"idle", "decide"} /\ UNCHANGED rows
      BY <1>0, <2>0, <2>3 DEF DriveLoad, Stop, Goto, Alone, db
    <3>2. QED BY <1>2, <2>0, <3>1 DEF BeforeCommit
  <2>4. CASE DriveDecide(w)
    <3>0. UNCHANGED rows
      BY <2>4 DEF DriveDecide, db
    <3>1. CASE \E to \in {"finish", "budget", "wait"} : Goto(w, to) /\ UNCHANGED mem
      BY <1>0, <1>2, <2>0, <3>0, <3>1, StayFacts DEF BeforeCommit
    <3>2. CASE \E s \in Step : Failing(w, s, "domain")
      BY <1>0, <1>2, <2>0, <3>0, <3>2, FailingFacts DEF BeforeCommit
    <3>3. ASSUME NEW s \in Step, NextStep(s), ~OverBudget, s \notin Refused, Goto(w, "step"),
                 mem' = [mem EXCEPT ![w].step = s]
          PROVE  Limited' /\ WithinLimits'
      <4>1. Alone(w) /\ mem'[w].step = s
        BY <1>0, <2>0, <3>3 DEF Mem, Goto, Alone
      <4>2. Allowed(s)
        BY <3>3, NextInBudget DEF Allowed
      <4>3. QED BY <2>0, <3>0, <4>1, <4>2, WorkerLimited
    <3>4. QED BY <2>4, <3>1, <3>2, <3>3 DEF DriveDecide
  <2>5. QED BY <1>3, <2>1, <2>2, <2>3, <2>4 DEF Drive
<1>4. ASSUME NEW w \in Workers, Heartbeat(w) \/ HeartbeatRaises(w) PROVE Limited' /\ WithinLimits'
  <2>1. w \in Procs /\ pc' = pc /\ Alone(w) /\ mem'[w].step = mem[w].step /\ UNCHANGED rows
    BY <1>0, <1>4 DEF Heartbeat, HeartbeatRaises, Mem, Alone, Procs, db
  <2>2. QED BY <2>1, WorkerLimited
<1>5. ASSUME NEW r \in Retriers, RetryDeps(r) \/ \E s \in Step : Retry(r, s) PROVE Limited' /\ WithinLimits'
  <2>1. r \in Procs /\ r \notin Workers /\ Alone(r) /\ UNCHANGED rows
    BY <1>0, <1>5, ProcAssumption DEF Retry, RetryDeps, Stop, Goto, Alone, Procs, db
  <2>2. QED BY <2>1, WorkerLimited
<1>6. ASSUME NEW p \in Procs, CommitStep(p), pc[p] = "write", Alone(p), pc'[p] \notin BeforeCommit
      PROVE  Limited' /\ WithinLimits'
  <2>1. Limited'
    BY <1>6 DEF LInv, Limited, Alone, Procs
  <2>2. WithinLimits'
    <3>1. Retriers = {} => Allowed(mem[p].step)
      BY <1>6 DEF LInv, Limited, BeforeCommit, Procs
    <3>2. rows' = [rows EXCEPT ![mem[p].step] = "SUCCEEDED"]
      BY <1>6 DEF CommitStep
    <3>3. QED BY <1>0, <3>1, <3>2 DEF LInv, WithinLimits, Allowed
  <2>3. QED BY <2>1, <2>2
<1>7. ASSUME NEW p \in Procs, StepTxn(p) \/ StepCommitUnacknowledged(p) \/ Crash(p)
      PROVE  Limited' /\ WithinLimits'
  <2>1. CASE StepBegin(p) \/ StepOpen(p) \/ StepClaimKey(p)
    <3>1. /\ Alone(p) /\ pc[p] \in BeforeCommit /\ mem'[p].step = mem[p].step /\ UNCHANGED rows
      BY <1>0, <2>1 DEF StepBegin, StepOpen, StepClaimKey, Goto, Alone, Mem, BeforeCommit, db
    <3>2. QED BY <3>1, WorkerLimited
  <2>2. CASE StepRaises(p)
    <3>1. mem[p].step \in Step
      BY <1>0, <2>2 DEF StepRaises, Located
    <3>2. Alone(p) /\ pc'[p] = "failing" /\ UNCHANGED rows
      BY <1>0, <2>2, <3>1, FailingFacts DEF StepRaises, db
    <3>3. QED BY <1>2, <3>2 DEF BeforeCommit
  <2>3. CASE FailLoad(p)
    <3>1. Alone(p) /\ pc'[p] = "failOpen" /\ UNCHANGED rows
      BY <1>0, <2>3 DEF FailLoad, Goto, Alone, db
    <3>2. QED BY <1>2, <3>1 DEF BeforeCommit
  <2>4. CASE StepCommit(p)
    <3>1. Alone(p) /\ pc'[p] \in {"drive", "idle"}
      BY <1>0, <2>4, StopFacts, ForgetFacts DEF StepCommit
    <3>2. QED BY <1>6, <2>4, <3>1 DEF StepCommit, BeforeCommit
  <2>5. CASE StepCommitUnacknowledged(p)
    <3>1. mem[p].step \in Step
      BY <1>0, <2>5 DEF StepCommitUnacknowledged, Located
    <3>2. Alone(p) /\ pc'[p] = "failing"
      BY <1>0, <2>5, <3>1, FailingFacts DEF StepCommitUnacknowledged
    <3>3. QED BY <1>6, <2>5, <3>2 DEF StepCommitUnacknowledged, BeforeCommit
  <2>6. CASE FailCommit(p)
    <3>1. Alone(p) /\ pc'[p] \in {"failed", "idle"}
      BY <1>0, <2>6, StopFacts, ForgetFacts DEF FailCommit
    <3>2. Limited'
      BY <3>1 DEF LInv, Limited, Alone, Procs, BeforeCommit
    <3>3. WithinLimits'
      BY <1>0, <2>6 DEF LInv, WithinLimits, FailCommit
    <3>4. QED BY <3>2, <3>3
  <2>7. CASE Crash(p)
    BY <1>0, <1>2, <2>7, StopFacts DEF Crash, db, BeforeCommit
  <2>8. QED BY <1>7, <2>1, <2>2, <2>3, <2>4, <2>5, <2>6, <2>7 DEF StepTxn
<1>8. CASE LeaseLapses \/ LeaseExpires \/ UNCHANGED vars
  BY <1>8 DEF LInv, Limited, WithinLimits, Allowed, LeaseLapses, LeaseExpires, vars, db
<1>9. QED BY <1>3, <1>4, <1>5, <1>7, <1>8 DEF Next, Forward

(* WithinLimits: left to the workers, however many drive the run at once, no    *)
(* step is executed beyond the budget or against the policy (executor.py,   *)
(* _drive: the completed steps are counted in another transaction).          *)
THEOREM LimitsKept == Spec => []WithinLimits
<1>1. Init => LInv
  BY InitInv DEF Init, LInv, Limited, WithinLimits, BeforeCommit, Procs
<1>2. LInv => WithinLimits
  BY DEF LInv
<1>3. QED BY <1>1, <1>2, LimitsNext, PTL DEF Spec

-----------------------------------------------------------------------------
(* Refinement: every step of Executor is a Write of WriteOnce or a stutter. *)

Observed == <<effects, audits, ledger>>

LEMMA PromiseInit == Init => Promise!Init
BY DEF Init, Promise!Init

LEMMA CommitKeepsPromise ==
  ASSUME IInv, NEW p \in Procs, pc[p] = "write", CommitStep(p)
  PROVE  Promise!Next \/ UNCHANGED Observed
<1> DEFINE s == mem[p].step
           k == KeyOf[s]
<1>1. k \in Step
  BY PlanAssumption DEF IInv, Located
<1>2. CASE s \in Writes /\ ~mem[p].replay
  <2>1. k \notin ledger
    BY <1>2 DEF IInv, Safe, LedgerSeen
  <2>2. Promise!Write(k)
    BY <1>2, <2>1 DEF CommitStep, Promise!Write
  <2>3. QED BY <1>1, <2>2 DEF Promise!Next
<1>3. CASE ~(s \in Writes /\ ~mem[p].replay)
  BY <1>3 DEF CommitStep, Observed
<1>4. QED
  BY <1>2, <1>3

LEMMA PromiseStep == IInv /\ [Next]_vars => [Promise!Next]_(Promise!vars)
<1> SUFFICES ASSUME IInv, [Next]_vars PROVE Promise!Next \/ UNCHANGED Observed
  BY DEF Promise!vars, Observed
<1>1. ASSUME NEW p \in Procs, StepCommit(p) \/ StepCommitUnacknowledged(p)
      PROVE  Promise!Next \/ UNCHANGED Observed
  BY <1>1, CommitKeepsPromise DEF StepCommit, StepCommitUnacknowledged
<1>2. CASE UNCHANGED db
  BY <1>2 DEF db, Observed
<1>3. ASSUME NEW p \in Procs, FailCommit(p) PROVE UNCHANGED Observed
  BY <1>3 DEF FailCommit, Observed
<1>4. ASSUME NEW p \in Procs,
             StepBegin(p) \/ StepOpen(p) \/ StepClaimKey(p) \/ StepRaises(p) \/ FailLoad(p) \/ Crash(p)
      PROVE  UNCHANGED db
  BY <1>4 DEF StepBegin, StepOpen, StepClaimKey, StepRaises, FailLoad, Crash
<1>5. ASSUME NEW w \in Workers, Claim(w) \/ Drive(w) \/ AfterFailure(w) \/ Heartbeat(w) \/ HeartbeatRaises(w)
      PROVE  UNCHANGED db
  BY <1>5 DEF Claim, Drive, AssertHoldsLease, DriveLoad, DriveDecide, FinishSucceeded, FinishOverBudget,
              WaitForApproval, AfterFailure, Heartbeat, HeartbeatRaises
<1>6. ASSUME NEW r \in Retriers, (\E s \in Step : Retry(r, s)) \/ RetryDeps(r) PROVE UNCHANGED db
  BY <1>6 DEF Retry, RetryDeps
<1>7. CASE LeaseLapses \/ LeaseExpires \/ UNCHANGED vars
  <2>1. CASE LeaseLapses \/ LeaseExpires
    BY <2>1 DEF db, Observed, LeaseLapses, LeaseExpires
  <2>2. CASE UNCHANGED vars
    BY <2>2 DEF vars, Observed
  <2>3. QED BY <1>7, <2>1, <2>2
<1>8. QED
  BY <1>1, <1>2, <1>3, <1>4, <1>5, <1>6, <1>7 DEF Next, Forward, StepTxn

(* KeepsPromise: the executor implements the write-once contract.           *)
THEOREM ExecutorKeepsPromise == Spec => KeepsPromise
BY Invariant, PromiseInit, PromiseStep, PTL DEF Spec, KeepsPromise, Promise!Spec

-----------------------------------------------------------------------------
(* LeaseKept, an action property, whatever names the processes go by.         *)

HolderUnmoved ==
  \A w \in Workers :
    HoldsLive(w) /\ pc'[w] = pc[w] /\ run'.owner # run.owner => NamesakeGivesUp(w)

LEMMA OwnerAfterRelease ==
  ASSUME NEW p \in Procs, NEW r \in Run
  PROVE  /\ Deferred(p, r).owner = r.owner
         /\ r.owner # WorkerId[p] => Released(p, r).owner = r.owner
BY DEF Released, Deferred, Run

LEMMA LeaseStep == ASSUME TypeOK, [Next]_vars PROVE HolderUnmoved
<1> SUFFICES ASSUME NEW w \in Workers, HoldsLive(w), pc'[w] = pc[w], run'.owner # run.owner
             PROVE  NamesakeGivesUp(w)
  BY DEF HolderUnmoved
<1>0. w \in Procs /\ run \in Run /\ run.owner = WorkerId[w] /\ run.fresh /\ pc \in [Procs -> PC]
  BY DEF HoldsLive, Procs, TypeOK
<1>1. ASSUME NEW v \in Workers, Claim(v) PROVE FALSE
  BY <1>0, <1>1, ProcAssumption DEF Claim, LeaseFree, Procs
(* Whoever gives the run up stands at the end of it, and is not w ...        *)
<1>2. ASSUME NEW p \in Procs, pc[p] \in {"finish", "budget", "wait", "failOpen"},
             Goto(p, "idle") \/ Goto(p, "failed")
      PROVE  p # w /\ pc'[p] \in {"idle", "failed"}
  BY <1>0, <1>2 DEF Goto
(* ... and the lease it gives back is its own.                               *)
<1>3. ASSUME NEW p \in Procs, pc[p] \in {"finish", "budget", "wait", "failOpen"},
             Goto(p, "idle") \/ Goto(p, "failed"),
             NEW r \in Run, r.owner = run.owner, run' = Released(p, r) \/ run' = Deferred(p, r)
      PROVE  NamesakeGivesUp(w)
  <2>1. run'.owner = r.owner \/ r.owner = WorkerId[p]
    BY <1>3, OwnerAfterRelease
  <2>2. WorkerId[p] = WorkerId[w]
    BY <1>0, <1>3, <2>1
  <2>3. QED BY <1>2, <1>3, <2>2 DEF NamesakeGivesUp
<1>4. ASSUME NEW v \in Workers, Drive(v) PROVE NamesakeGivesUp(w)
  <2>0. v \in Procs
    BY DEF Procs
  <2>1. CASE FinishSucceeded(v)
    <3> DEFINE r == [run EXCEPT !.status = "SUCCEEDED"]
    <3>1. r \in Run /\ r.owner = run.owner
      BY <1>0 DEF Run, RunStatus, Terminal
    <3>2. run' = Released(v, r) /\ pc[v] = "finish" /\ Goto(v, "idle")
      BY <2>1 DEF FinishSucceeded, Stop
    <3> HIDE DEF r
    <3>3. QED BY <1>3, <2>0, <3>1, <3>2
  <2>2. CASE FinishOverBudget(v)
    <3> DEFINE r == [run EXCEPT !.status = "FAILED"]
    <3>1. r \in Run /\ r.owner = run.owner
      BY <1>0 DEF Run, RunStatus, Terminal
    <3>2. run' = Released(v, r) /\ pc[v] = "budget" /\ Goto(v, "failed")
      BY <2>2 DEF FinishOverBudget
    <3> HIDE DEF r
    <3>3. QED BY <1>3, <2>0, <3>1, <3>2
  <2>3. CASE WaitForApproval(v)
    <3> DEFINE r == [run EXCEPT !.status = "WAITING_APPROVAL", !.marker = "none"]
    <3>1. r \in Run /\ r.owner = run.owner
      BY <1>0 DEF Run, RunStatus, Marker
    <3>2. run' = Released(v, r) /\ pc[v] = "wait" /\ Goto(v, "idle")
      BY <2>3 DEF WaitForApproval, Stop
    <3> HIDE DEF r
    <3>3. QED BY <1>3, <2>0, <3>1, <3>2
  <2>4. QED BY <1>4, <2>1, <2>2, <2>3 DEF Drive, AssertHoldsLease, DriveLoad, DriveDecide
<1>5. ASSUME NEW p \in Procs, CommitStep(p) PROVE FALSE
  BY <1>0, <1>5 DEF CommitStep, Checkpointed, Run
<1>6. ASSUME NEW p \in Procs, FailCommit(p) PROVE NamesakeGivesUp(w)
  <2> DEFINE r == IF mem[p].status \in Terminal THEN run ELSE [run EXCEPT !.status = "FAILED"]
  <2>1. r \in Run /\ r.owner = run.owner
    BY <1>0 DEF Run, RunStatus, Terminal
  <2>2. run' = Deferred(p, run) \/ run' = Released(p, r)
    BY <1>6 DEF FailCommit, FailedRun
  <2>3. pc[p] = "failOpen" /\ (Goto(p, "idle") \/ Goto(p, "failed"))
    BY <1>6 DEF FailCommit, Stop
  <2> HIDE DEF r
  <2>4. QED BY <1>0, <1>3, <2>1, <2>2, <2>3
<1>7. ASSUME NEW v \in Workers, Heartbeat(v) PROVE FALSE
  BY <1>0, <1>7 DEF Heartbeat, Run
<1>8. CASE LeaseLapses \/ LeaseExpires
  BY <1>0, <1>8 DEF LeaseLapses, LeaseExpires, Run
<1>9. ASSUME NEW p \in Procs, StepTxn(p) \/ StepCommitUnacknowledged(p) PROVE NamesakeGivesUp(w)
  BY <1>5, <1>6, <1>9 DEF StepTxn, StepBegin, StepOpen, StepClaimKey, StepCommit, StepRaises, FailLoad,
                          StepCommitUnacknowledged
<1>10. QED
  BY <1>1, <1>4, <1>7, <1>8, <1>9
     DEF Next, Forward, AfterFailure, HeartbeatRaises, Retry, RetryDeps, Crash, vars

(* LeaseKept, for every way of naming the processes: only a namesake that is   *)
(* done with the run or fails on it ends a lease in use (lease.py, release and *)
(* defer; runs.py:42, "api-inline" for every request).                      *)
THEOREM LeaseNotTaken == Spec => LeaseKept
<1>1. TypeOK /\ [Next]_vars => [HolderUnmoved]_vars
  BY LeaseStep
<1>2. QED
  BY <1>1, TypeCorrect, PTL DEF Spec, LeaseKept, HolderUnmoved
=============================================================================
