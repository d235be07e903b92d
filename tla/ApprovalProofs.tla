--------------------------- MODULE ApprovalProofs ---------------------------
(***************************************************************************)
(* Proofs about Approval, for every plan, any number of workers, retries,    *)
(* mishaps and people: the gate holds, and what ExecutorProofs shows of the  *)
(* executors stays true while people sign.                                  *)
(***************************************************************************)
EXTENDS Approval, ExecutorProofs, FiniteSetTheorems

Admitted == {"step", "open", "key", "write"}

SomeSigs == [Step -> SUBSET Approvers]
OneOfARole(g) == \A s \in Step : \A a, b \in g[s] : Role[a] = Role[b] => a = b

(* The signatures in a copy of the run were committed by people who may sign *)
(* and who are of different roles.                                          *)
Genuine(g) == OneOfARole(g) /\ \A s \in Step : g[s] \subseteq signed[s]

(* All copies of the run are genuine, those of the workers and of the people *)
(* as well as the row itself; a person who is about to commit has been found *)
(* admissible on the copy they hold; and a worker past the gate still has    *)
(* the copy it has counted.                                                 *)
SigsGenuine ==
  /\ Genuine(run.sigs)
  /\ \A w \in Workers : Genuine(mem[w].sigs)
  /\ \A a \in Approvers : Genuine(desk[a].sigs)

Entitled ==
  /\ \A s \in Step : \A a \in signed[s] : Accountable(a)
  /\ \A a \in Approvers :
       desk[a].step # 0 => Accountable(a) /\ RoleAllowed(a, desk[a].sigs[desk[a].step])

PastGate == \A w \in Workers : pc[w] \in Admitted => EnoughSignatures(w, mem[w].step)

Paper == desk \in [Approvers -> Desk] /\ signed \in [Step -> SUBSET Approvers]

AInv == IInv /\ Paper /\ SigsGenuine /\ Entitled /\ PastGate

-----------------------------------------------------------------------------
(* A row of the table of signatures: as many roles as people.               *)
LEMMA AsManyRoles ==
  ASSUME NEW S \in SUBSET Approvers, NEW X \in SUBSET Approvers, S \subseteq X,
         \A a, b \in S : Role[a] = Role[b] => a = b
  PROVE  Cardinality(S) <= Cardinality({Role[a] : a \in X})
<1> DEFINE T == {Role[a] : a \in X}
           f == [a \in X |-> Role[a]]
           g == [a \in S |-> Role[a]]
<1>1. IsFiniteSet(X)
  BY ApprovalAssumption, FS_Subset
<1>2. f \in Surjection(X, T)
  BY DEF Surjection
<1>3. IsFiniteSet(T)
  BY <1>1, <1>2, FS_Surjection
<1>4. g \in Injection(S, T)
  <2>1. g \in [S -> T]
    OBVIOUS
  <2>2. \A a, b \in S : g[a] = g[b] => a = b
    OBVIOUS
  <2> HIDE DEF g, T
  <2>3. DOMAIN g = S
    BY <2>1
  <2>4. QED BY <2>1, <2>2, <2>3, Zenon DEF Injection, IsInjective
<1>5. QED
  BY <1>3, <1>4, FS_Injection

(* The gate follows from the invariant. *)
LEMMA GateFromInv == AInv => GateHolds
<1> SUFFICES ASSUME AInv, NEW w \in Workers, NEW s \in Gated, pc[w] \in Admitted, mem[w].step = s
             PROVE  Cardinality({Role[a] : a \in {b \in signed[s] \ {Actor} : b \in Agents => AgentsMaySign}})
                      >= Need[s]
  BY DEF GateHolds, Admitted
<1> DEFINE S == mem[w].sigs[s]
           X == {b \in signed[s] \ {Actor} : b \in Agents => AgentsMaySign}
<1>1. s \in Step /\ w \in Procs /\ mem[w] \in Mem
  BY DEF Gated, AInv, IInv, TypeOK, Procs
<1>2. S \in SUBSET Approvers /\ X \in SUBSET Approvers
  BY <1>1, MemFields DEF AInv, Paper
<1>3. S \subseteq X /\ \A a, b \in S : Role[a] = Role[b] => a = b
  BY <1>1 DEF AInv, SigsGenuine, Genuine, OneOfARole, Entitled, Accountable
<1>4. Cardinality(S) >= Need[s]
  BY DEF AInv, PastGate, EnoughSignatures
<1>5. Cardinality(S) \in Nat
  BY <1>2, ApprovalAssumption, FS_Subset, FS_CardinalityType
<1>6. Cardinality({Role[a] : a \in X}) \in Nat
  <2>1. IsFiniteSet(X)
    BY <1>2, ApprovalAssumption, FS_Subset
  <2>2. [a \in X |-> Role[a]] \in Surjection(X, {Role[a] : a \in X})
    BY DEF Surjection
  <2>3. QED BY <2>1, <2>2, FS_Surjection, FS_CardinalityType
<1>7. Cardinality(S) <= Cardinality({Role[a] : a \in X})
  BY <1>2, <1>3, AsManyRoles
<1>8. Need[s] \in Nat
  BY <1>1, PlanAssumption
<1> HIDE DEF S, X
<1>9. QED BY <1>4, <1>5, <1>6, <1>7, <1>8 DEF X

LEMMA InitAInv == ApprovalInit => AInv
<1> SUFFICES ASSUME ApprovalInit PROVE AInv
  OBVIOUS
<1>1. IInv
  BY InitInv DEF ApprovalInit
<1>2. NoDesk \in Desk
  BY DEF NoDesk, Desk, RunStatus, Marker
<1>3. Paper
  BY <1>2 DEF ApprovalInit, Paper
<1>4. SigsGenuine
  BY DEF ApprovalInit, Init, NewRun, NoMem, NoDesk, SigsGenuine, Genuine, OneOfARole, Procs
<1>5. Entitled /\ PastGate
  BY DEF ApprovalInit, Init, NoDesk, Entitled, PastGate, Admitted, Procs
<1>6. QED BY <1>1, <1>3, <1>4, <1>5 DEF AInv

-----------------------------------------------------------------------------
(* What the executors do to signatures: nobody writes them, a worker loads   *)
(* them at the loop head, and it comes past the gate only with enough.       *)
Sealed(q) == mem'[q].sigs \in {mem[q].sigs, run.sigs, NoMem.sigs}

Counted(q) ==
  pc'[q] \in Admitted =>
    \/ pc[q] \in Admitted /\ mem'[q].step = mem[q].step /\ mem'[q].sigs = mem[q].sigs
    \/ mem'[q].sigs = mem[q].sigs /\ EnoughSignatures(q, mem'[q].step)

LEMMA Others ==
  ASSUME TypeOK, NEW p \in Procs, Alone(p), run'.sigs = run.sigs, Sealed(p), p \in Workers => Counted(p)
  PROVE  run'.sigs = run.sigs /\ \A q \in Workers : Sealed(q) /\ Counted(q)
BY DEF Alone, Sealed, Counted, Procs

LEMMA ReleasedSigs ==
  ASSUME NEW p \in Procs, NEW r \in Run
  PROVE  Released(p, r).sigs = r.sigs /\ Deferred(p, r).sigs = r.sigs
BY DEF Released, Deferred, Run

LEMMA DriveSigs ==
  ASSUME IInv, NEW w \in Workers, Claim(w) \/ Drive(w) \/ AfterFailure(w)
  PROVE  run'.sigs = run.sigs /\ \A q \in Workers : Sealed(q) /\ Counted(q)
<1>0. TypeOK /\ run \in Run /\ mem \in [Procs -> Mem] /\ pc \in [Procs -> PC] /\ w \in Procs /\ mem[w] \in Mem
  BY DEF IInv, TypeOK, Procs
<1>1. CASE Claim(w)
  BY <1>0, <1>1, Others DEF Claim, Goto, Alone, Sealed, Counted, Admitted, Run
<1>2. CASE AssertHoldsLease(w)
  BY <1>0, <1>2, Others DEF AssertHoldsLease, Goto, Stop, Alone, Sealed, Counted, Admitted
<1>3. CASE DriveLoad(w)
  <2>1. run' = run /\ Alone(w) /\ Sealed(w)
    BY <1>0, <1>3 DEF DriveLoad, Goto, Stop, Alone, Sealed, Mem
  <2>2. Counted(w)
    BY <1>0, <1>3 DEF DriveLoad, Goto, Stop, Counted, Admitted
  <2>3. QED BY <1>0, <2>1, <2>2, Others
<1>4. CASE DriveDecide(w)
  <2>1. run' = run /\ Alone(w)
    BY <1>0, <1>4 DEF DriveDecide, Goto, Failing, Alone
  <2>2. CASE UNCHANGED mem /\ pc'[w] \notin Admitted
    BY <1>0, <2>1, <2>2, Others DEF Sealed, Counted
  <2>3. ASSUME NEW s \in Step, Failing(w, s, "domain") PROVE Sealed(w) /\ Counted(w)
    BY <1>0, <2>3 DEF Failing, Goto, Sealed, Counted, Admitted, NoMem
  <2>4. ASSUME NEW s \in Step, EnoughSignatures(w, s), mem' = [mem EXCEPT ![w].step = s]
        PROVE  Sealed(w) /\ Counted(w)
    <3>1. mem'[w].sigs = mem[w].sigs /\ mem'[w].step = s
      BY <1>0, <2>4 DEF Mem
    <3>2. QED BY <2>4, <3>1 DEF Sealed, Counted
  <2>5. \/ UNCHANGED mem /\ pc'[w] \notin Admitted
        \/ \E s \in Step : Failing(w, s, "domain")
        \/ \E s \in Step : EnoughSignatures(w, s) /\ mem' = [mem EXCEPT ![w].step = s]
    BY <1>0, <1>4 DEF DriveDecide, Goto, Admitted
  <2>6. QED BY <1>0, <2>1, <2>2, <2>3, <2>4, <2>5, Others
<1>5. CASE FinishSucceeded(w) \/ FinishOverBudget(w) \/ WaitForApproval(w)
  <2>1. [run EXCEPT !.status = "SUCCEEDED"] \in Run /\ [run EXCEPT !.status = "FAILED"] \in Run
        /\ [run EXCEPT !.status = "WAITING_APPROVAL", !.marker = "none"] \in Run
    BY <1>0 DEF Run, RunStatus, Terminal, Marker
  <2>2. \E r \in Run : run' = Released(w, r) /\ r.sigs = run.sigs
    BY <1>0, <1>5, <2>1 DEF FinishSucceeded, FinishOverBudget, WaitForApproval, Run
  <2>3. run'.sigs = run.sigs
    BY <1>0, <2>2, ReleasedSigs
  <2>4. Alone(w) /\ Sealed(w) /\ Counted(w)
    BY <1>0, <1>5 DEF FinishSucceeded, FinishOverBudget, WaitForApproval, Stop, Forget, Goto, Alone,
                      Sealed, Counted, Admitted, NoMem
  <2>5. QED BY <1>0, <2>3, <2>4, Others
<1>6. CASE AfterFailure(w)
  BY <1>0, <1>6, Others DEF AfterFailure, Goto, Stop, Alone, Sealed, Counted, Admitted
<1>7. QED
  BY <1>1, <1>2, <1>3, <1>4, <1>5, <1>6 DEF Drive

LEMMA TxnSigs ==
  ASSUME IInv, NEW p \in Procs, StepTxn(p) \/ StepCommitUnacknowledged(p)
  PROVE  run'.sigs = run.sigs /\ \A q \in Workers : Sealed(q) /\ Counted(q)
<1>0. TypeOK /\ run \in Run /\ mem \in [Procs -> Mem] /\ pc \in [Procs -> PC] /\ mem[p] \in Mem
  BY DEF IInv, TypeOK
<1>1. CASE StepBegin(p)
  BY <1>0, <1>1, Others DEF StepBegin, Goto, Alone, Sealed, Counted, Admitted, Mem
<1>2. CASE StepOpen(p)
  BY <1>0, <1>2, Others DEF StepOpen, Goto, Alone, Sealed, Counted, Admitted
<1>3. CASE StepClaimKey(p)
  BY <1>0, <1>3, Others DEF StepClaimKey, Goto, Alone, Sealed, Counted, Admitted, Mem
<1>4. ASSUME CommitStep(p) PROVE run'.sigs = run.sigs
  BY <1>0, <1>4 DEF CommitStep, Checkpointed, Run
<1>5. ASSUME NEW s, NEW f, Failing(p, s, f) PROVE Alone(p) /\ Sealed(p) /\ Counted(p)
  BY <1>0, <1>5 DEF Failing, Goto, Alone, Sealed, Counted, Admitted, NoMem
<1>6. CASE StepCommit(p)
  <2>1. Alone(p) /\ Sealed(p) /\ Counted(p)
    BY <1>0, <1>6 DEF StepCommit, Goto, Forget, Stop, Alone, Sealed, Counted, Admitted, NoMem
  <2>2. QED BY <1>0, <1>4, <1>6, <2>1, Others DEF StepCommit
<1>7. CASE StepRaises(p)
  <2>1. run' = run
    BY <1>7 DEF StepRaises
  <2>2. QED BY <1>0, <1>5, <1>7, <2>1, Others DEF StepRaises
<1>8. CASE StepCommitUnacknowledged(p)
  BY <1>0, <1>4, <1>5, <1>8, Others DEF StepCommitUnacknowledged
<1>9. CASE FailLoad(p)
  BY <1>0, <1>9, Others DEF FailLoad, Goto, Alone, Sealed, Counted, Admitted, Mem
<1>10. CASE FailCommit(p)
  <2> DEFINE r == IF mem[p].status \in Terminal THEN run ELSE [run EXCEPT !.status = "FAILED"]
  <2>1. r \in Run /\ r.sigs = run.sigs
    BY <1>0 DEF Run, RunStatus, Terminal
  <2>2. run' = Deferred(p, run) \/ run' = Released(p, r)
    BY <1>10 DEF FailCommit, FailedRun
  <2> HIDE DEF r
  <2>3. run'.sigs = run.sigs
    BY <1>0, <2>1, <2>2, ReleasedSigs
  <2>4. Alone(p) /\ Sealed(p) /\ Counted(p)
    BY <1>0, <1>10 DEF FailCommit, Goto, Forget, Stop, Alone, Sealed, Counted, Admitted, NoMem
  <2>5. QED BY <1>0, <2>3, <2>4, Others
<1>11. QED
  BY <1>1, <1>2, <1>3, <1>6, <1>7, <1>8, <1>9, <1>10 DEF StepTxn

LEMMA ExecutorSigs ==
  ASSUME IInv, Next
  PROVE  run'.sigs = run.sigs /\ \A q \in Workers : Sealed(q) /\ Counted(q)
<1>0. TypeOK /\ run \in Run /\ mem \in [Procs -> Mem] /\ pc \in [Procs -> PC]
  BY DEF IInv, TypeOK
<1>1. ASSUME NEW w \in Workers, Heartbeat(w) \/ HeartbeatRaises(w)
      PROVE  run'.sigs = run.sigs /\ \A q \in Workers : Sealed(q) /\ Counted(q)
  <2>1. w \in Procs /\ mem[w] \in Mem
    BY <1>0 DEF Procs
  <2>2. run'.sigs = run.sigs /\ pc' = pc
    BY <1>0, <1>1 DEF Heartbeat, HeartbeatRaises, Run
  <2>3. mem' = mem \/ mem' = [mem EXCEPT ![w].lost = TRUE]
    BY <1>1 DEF Heartbeat, HeartbeatRaises
  <2>4. Alone(w) /\ Sealed(w) /\ Counted(w)
    BY <1>0, <2>1, <2>2, <2>3 DEF Alone, Sealed, Counted, Mem
  <2>5. QED BY <1>0, <2>1, <2>2, <2>4, Others
<1>2. ASSUME NEW r \in Retriers, (\E s \in Step : Retry(r, s)) \/ RetryDeps(r)
      PROVE  run'.sigs = run.sigs /\ \A q \in Workers : Sealed(q) /\ Counted(q)
  <2>1. r \in Procs /\ r \notin Workers /\ mem[r] \in Mem
    BY <1>0, ProcAssumption DEF Procs
  <2>2. run' = run /\ Alone(r) /\ Sealed(r)
    BY <1>0, <1>2, <2>1 DEF Retry, RetryDeps, Goto, Stop, Alone, Sealed, Mem
  <2>3. QED BY <1>0, <2>1, <2>2, Others
<1>3. ASSUME NEW p \in Procs, Crash(p)
      PROVE  run'.sigs = run.sigs /\ \A q \in Workers : Sealed(q) /\ Counted(q)
  <2>1. run' = run /\ Alone(p) /\ Sealed(p) /\ Counted(p)
    BY <1>0, <1>3 DEF Crash, Goto, Stop, Alone, Sealed, Counted, Admitted
  <2>2. QED BY <1>0, <2>1, Others
<1>4. CASE LeaseLapses \/ LeaseExpires
  <2>1. run'.sigs = run.sigs /\ pc' = pc /\ mem' = mem
    BY <1>0, <1>4 DEF LeaseLapses, LeaseExpires, Run
  <2>2. QED BY <2>1 DEF Sealed, Counted
<1>5. QED
  BY <1>1, <1>2, <1>3, <1>4, DriveSigs, TxnSigs DEF Next, Forward

(* So a step of theirs keeps the invariant.                                 *)
LEMMA ExecutorAInv == ASSUME AInv, Next, UNCHANGED <<desk, signed>> PROVE AInv'
<1>1. IInv'
  BY NextInv DEF AInv
<1>2. run'.sigs = run.sigs /\ \A q \in Workers : Sealed(q) /\ Counted(q)
  BY ExecutorSigs DEF AInv
<1>3. Genuine(NoMem.sigs)
  BY DEF Genuine, OneOfARole, NoMem
<1>4. SigsGenuine'
  <2>1. Genuine(run.sigs)' /\ \A a \in Approvers : Genuine(desk[a].sigs)'
    BY <1>2 DEF AInv, SigsGenuine, Genuine, OneOfARole
  <2>2. ASSUME NEW w \in Workers PROVE Genuine(mem[w].sigs)'
    BY <1>2, <1>3 DEF AInv, SigsGenuine, Sealed, Genuine, OneOfARole
  <2>3. QED BY <2>1, <2>2 DEF SigsGenuine
<1>5. PastGate'
  BY <1>2 DEF AInv, PastGate, Counted, EnoughSignatures
<1>6. Paper' /\ Entitled'
  BY DEF AInv, Paper, Entitled
<1>7. QED BY <1>1, <1>4, <1>5, <1>6 DEF AInv

-----------------------------------------------------------------------------
(* People. *)
LEMMA LoadAInv ==
  ASSUME AInv, NEW a \in Approvers, NEW s \in Step, ApproveLoad(a, s) PROVE AInv'
<1> DEFINE d == [step |-> s, status |-> run.status, marker |-> run.marker, sigs |-> run.sigs]
<1>0. run \in Run /\ desk \in [Approvers -> Desk]
  BY DEF AInv, IInv, TypeOK, Paper
<1>1. d \in Desk /\ d.step = s /\ d.sigs = run.sigs
  BY <1>0, RunFields DEF Desk
<1>2. desk' = [desk EXCEPT ![a] = d] /\ UNCHANGED <<vars, signed>>
  BY DEF ApproveLoad
<1> HIDE DEF d
<1>3. IInv'
  BY <1>2, NextInv DEF AInv
<1>4. Paper'
  BY <1>0, <1>1, <1>2 DEF AInv, Paper
<1>5. run' = run /\ mem' = mem /\ pc' = pc /\ signed' = signed
  BY <1>2 DEF vars
<1>6. SigsGenuine'
  <2>1. \A b \in Approvers : desk'[b].sigs \in {desk[b].sigs, run.sigs}
    BY <1>0, <1>1, <1>2
  <2>2. QED BY <1>5, <2>1 DEF AInv, SigsGenuine, Genuine, OneOfARole
<1>7. Entitled'
  <2>1. Accountable(a) /\ RoleAllowed(a, run.sigs[s])
    BY DEF ApproveLoad
  <2>2. QED BY <1>0, <1>1, <1>2, <1>5, <2>1 DEF AInv, Entitled
<1>8. PastGate'
  BY <1>5 DEF AInv, PastGate, EnoughSignatures
<1>9. QED BY <1>3, <1>4, <1>6, <1>7, <1>8 DEF AInv

LEMMA CommitAInv == ASSUME AInv, NEW a \in Approvers, ApproveCommit(a) PROVE AInv'
<1> DEFINE s == desk[a].step
           h == Signed(a)
           r == Approved(a, run)
<1>0. /\ run \in Run /\ desk \in [Approvers -> Desk] /\ signed \in [Step -> SUBSET Approvers]
      /\ s \in Step /\ desk[a].sigs \in [Step -> SUBSET Approvers]
      /\ desk[a].marker \in Marker /\ run.sigs \in [Step -> SUBSET Approvers]
  BY RunFields DEF AInv, IInv, TypeOK, Paper, Desk, ApproveCommit
<1>1. /\ run' = r /\ pc' = pc /\ mem' = mem /\ UNCHANGED db /\ mishaps' = mishaps
      /\ signed' = [signed EXCEPT ![s] = @ \cup {a}] /\ desk' = [desk EXCEPT ![a] = NoDesk]
  BY DEF ApproveCommit
<1>2. h \in [Step -> SUBSET Approvers] /\ h[s] = desk[a].sigs[s] \cup {a}
      /\ \A t \in Step \ {s} : h[t] = desk[a].sigs[t]
  BY <1>0 DEF Signed
<1> DEFINE st == IF Cardinality(h[s]) >= Required(s) /\ desk[a].status = "WAITING_APPROVAL"
                 THEN "PENDING" ELSE run.status
           mk == IF Cardinality(h[s]) >= Required(s) THEN run.marker ELSE desk[a].marker
           g == IF a \notin desk[a].sigs[s] THEN h ELSE run.sigs
<1>3. r = [run EXCEPT !.sigs = g, !.status = st, !.marker = mk]
  BY DEF Approved
<1>4. st \in RunStatus /\ mk \in Marker /\ g \in [Step -> SUBSET Approvers]
      /\ (st = "SUCCEEDED" => run.status = "SUCCEEDED")
  BY <1>0, <1>2, RunFields DEF RunStatus
<1>5. g = h \/ g = run.sigs
  OBVIOUS
<1> HIDE DEF st, mk, g, h
<1>6. r \in Run /\ r.sigs = g /\ r.status = st /\ r.ckpt = run.ckpt
  BY <1>0, <1>3, <1>4 DEF Run
<1> HIDE DEF r
<1>7. IInv'
  <2>1. TypeOK' /\ Located'
    BY <1>1, <1>6 DEF AInv, IInv, TypeOK, Located, db
  <2>2. ExactlyOnce' /\ AtomicRecord' /\ RowsVouched'
    BY <1>1, DbQuiet DEF AInv, IInv
  <2>3. SucceededIsComplete' /\ CheckpointBacked'
    BY <1>1, <1>4, <1>6, RunQuiet DEF AInv, IInv, db
  <2>4. LedgerSeen' /\ KeyExclusive' /\ DepsBacked' /\ FinishBacked' /\ LoadedBacked'
    BY <1>1 DEF AInv, IInv, Safe, db, LedgerSeen, KeyExclusive, DepsBacked, FinishBacked, LoadedBacked
  <2>5. QED BY <2>1, <2>2, <2>3, <2>4 DEF IInv, Safe
<1>8. Paper'
  <2>1. NoDesk \in Desk
    BY DEF NoDesk, Desk, RunStatus, Marker
  <2>2. QED BY <1>0, <1>1, <2>1 DEF Paper
<1>9. \A t \in Step : signed[t] \subseteq signed'[t] /\ signed'[t] \subseteq signed[t] \cup {a}
  BY <1>0, <1>1
<1>10. a \in signed'[s]
  BY <1>0, <1>1
<1>11. OneOfARole(h) /\ \A t \in Step : h[t] \subseteq signed'[t]
  <2>1. Genuine(desk[a].sigs)
    BY DEF AInv, SigsGenuine
  <2>2. RoleAllowed(a, desk[a].sigs[s])
    BY <1>0 DEF AInv, Entitled, ApproveCommit
  <2>3. OneOfARole(h)
    <3> SUFFICES ASSUME NEW t \in Step, NEW b \in h[t], NEW c \in h[t], Role[b] = Role[c] PROVE b = c
      BY DEF OneOfARole
    <3>1. CASE t # s
      BY <1>2, <2>1, <3>1 DEF Genuine, OneOfARole
    <3>2. CASE t = s
      BY <1>2, <2>1, <2>2, <3>2 DEF Genuine, OneOfARole, RoleAllowed
    <3>3. QED BY <3>1, <3>2
  <2>4. \A t \in Step : h[t] \subseteq signed'[t]
    BY <1>0, <1>2, <1>9, <1>10, <2>1 DEF Genuine
  <2>5. QED BY <2>3, <2>4
<1>12. SigsGenuine'
  <2>1. Genuine(run.sigs)'
    <3>1. Genuine(run.sigs)
      BY DEF AInv, SigsGenuine
    <3>2. CASE g = h
      BY <1>1, <1>6, <1>11, <3>2 DEF Genuine, OneOfARole
    <3>3. CASE g = run.sigs
      BY <1>1, <1>6, <1>9, <3>1, <3>3 DEF Genuine, OneOfARole
    <3>4. QED BY <1>5, <3>2, <3>3
  <2>2. ASSUME NEW w \in Workers PROVE Genuine(mem[w].sigs)'
    BY <1>1, <1>9 DEF AInv, SigsGenuine, Genuine, OneOfARole
  <2>3. ASSUME NEW b \in Approvers PROVE Genuine(desk[b].sigs)'
    <3>1. CASE b = a
      BY <1>0, <1>1, <3>1 DEF NoDesk, Genuine, OneOfARole
    <3>2. CASE b # a
      BY <1>0, <1>1, <1>9, <3>2 DEF AInv, SigsGenuine, Genuine, OneOfARole
    <3>3. QED BY <3>1, <3>2
  <2>4. QED BY <2>1, <2>2, <2>3 DEF SigsGenuine
<1>13. Entitled'
  <2>1. Accountable(a)
    BY DEF AInv, Entitled, ApproveCommit
  <2>2. \A t \in Step : \A b \in signed'[t] : Accountable(b)
    BY <1>9, <2>1 DEF AInv, Entitled
  <2>3. ASSUME NEW b \in Approvers, desk'[b].step # 0
        PROVE  Accountable(b) /\ RoleAllowed(b, desk'[b].sigs[desk'[b].step])
    BY <1>0, <1>1, <2>3 DEF AInv, Entitled, NoDesk
  <2>4. QED BY <2>2, <2>3 DEF Entitled, Accountable, RoleAllowed
<1>14. PastGate'
  BY <1>1 DEF AInv, PastGate, EnoughSignatures
<1>15. QED BY <1>7, <1>8, <1>12, <1>13, <1>14 DEF AInv

LEMMA NextAInv == AInv /\ [ApprovalNext]_approvalVars => AInv'
<1>1. ASSUME AInv, ApprovalNext PROVE AInv'
  BY <1>1, ExecutorAInv, LoadAInv, CommitAInv DEF ApprovalNext
<1>2. ASSUME AInv, UNCHANGED approvalVars PROVE AInv'
  <2>1. IInv'
    BY <1>2, NextInv DEF AInv, approvalVars
  <2>2. UNCHANGED <<run, pc, mem, desk, signed>>
    BY <1>2 DEF approvalVars, vars
  <2>3. QED
    BY <1>2, <2>1, <2>2 DEF AInv, Paper, SigsGenuine, Genuine, OneOfARole, Entitled, PastGate, EnoughSignatures
<1>3. QED BY <1>1, <1>2

LEMMA ApprovalInvariant == ApprovalSpec => []AInv
BY InitAInv, NextAInv, PTL DEF ApprovalSpec

-----------------------------------------------------------------------------
(* Types, of the executors and of the people.                               *)
THEOREM ApprovalTypeCorrect == ApprovalSpec => []ApprovalTypeOK
<1>1. AInv => ApprovalTypeOK
  BY DEF AInv, IInv, Paper, ApprovalTypeOK
<1>2. QED BY <1>1, ApprovalInvariant, PTL

(* GateHolds: no gated step is executed by a worker before people of as many *)
(* roles as it needs, all of them entitled, have signed (executor.py:364).   *)
THEOREM GateIsNeverPassed == ApprovalSpec => []GateHolds
BY ApprovalInvariant, GateFromInv, PTL

(* DistinctRoles: one signature per role, however requests overlap.         *)
THEOREM RolesDistinct == ApprovalSpec => []DistinctRoles
<1>1. AInv => DistinctRoles
  BY DEF AInv, SigsGenuine, Genuine, OneOfARole, DistinctRoles
<1>2. QED BY <1>1, ApprovalInvariant, PTL

(* ExactlyOnce and the rest of the executor's promises survive the people,   *)
(* whose requests write the run row from copies that may be stale.          *)
THEOREM PeopleBreakNothing ==
  ApprovalSpec => [](ExactlyOnce /\ AtomicRecord /\ RowsVouched /\ SucceededIsComplete /\ CheckpointBacked)
<1>1. AInv => ExactlyOnce /\ AtomicRecord /\ RowsVouched /\ SucceededIsComplete /\ CheckpointBacked
  BY DEF AInv, IInv, Safe
<1>2. QED BY <1>1, ApprovalInvariant, PTL
=============================================================================
