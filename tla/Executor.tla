------------------------------ MODULE Executor ------------------------------
(***************************************************************************)
(* The run executor of GuardRail (governance/executor.py) with the lease    *)
(* (governance/lease.py), the worker loop (governance/worker.py) and the    *)
(* idempotency ledger (governance/idempotency.py) it stands on.             *)
(*                                                                         *)
(* One run, driven by several executors.  `run` is the committed agent_run  *)
(* row, `rows` the committed agent_step rows, `ledger` the keys whose       *)
(* idempotency record is SUCCEEDED, `effects` the business writes and       *)
(* `audits`/`failAudits` the audit rows.  `pc` and `mem` are what an        *)
(* executor holds in its own memory: where it is between two transactions,  *)
(* and the columns it loaded and still believes.                            *)
(*                                                                         *)
(* Granularity.  PostgreSQL runs at READ COMMITTED and every phase of the   *)
(* executor is a transaction of its own, so a phase is one action; the two  *)
(* transactions that can block on a row lock held by somebody else (the     *)
(* step transaction and _record_failure) are split where they block.  A row *)
(* of agent_run is loaded without a lock and the ORM writes back only the   *)
(* columns whose value differs from the loaded one, so each such write is   *)
(* modelled from the loaded copy in `mem`.                                  *)
(*                                                                         *)
(* Time is one bit: `run.fresh` says lease_expires_at lies in the future.   *)
(* `attempt` saturates at MaxRetries, the only value it is compared with.   *)
(***************************************************************************)
EXTENDS Integers, FiniteSets

CONSTANTS
  NSteps,      \* the plan is the steps 1..NSteps, in seq order
  Writes,      \* the steps whose tool is not read-only
  KeyOf,       \* step -> idempotency key; steps with equal tool and arguments share one
  Deps,        \* step -> the earlier steps it depends_on
  Need,        \* step -> signatures the approval gate asks for (0: none)
  Refused,     \* steps the policy denies or whose references do not resolve
  StepBudget,  \* run.step_budget
  MaxRetries,  \* settings.max_step_retries
  Workers,     \* processes that claim and drive (worker replicas, inline execution)
  Retriers,    \* requests that re-run one step (POST .../steps/{seq}/retry)
  WorkerId,    \* process -> worker_id (all API requests share "api-inline"); its domain
               \* may hold processes of other modules that take the lease
  Approvers,   \* people who may sign
  NoOne,       \* lease_owner IS NULL
  MaxMishaps,  \* bound on crashes, lost acknowledgements and early lease losses
  LostAcks     \* whether the acknowledgement of a step's commit may be lost

Step == 1..NSteps
Procs == Workers \cup Retriers

ASSUME PlanAssumption ==
  /\ NSteps \in Nat /\ NSteps > 0
  /\ Writes \subseteq Step /\ Refused \subseteq Step
  /\ KeyOf \in [Step -> Step]
  /\ Deps \in [Step -> SUBSET Step]
  /\ \A s \in Step : \A d \in Deps[s] : d < s
  /\ Need \in [Step -> Nat]
  /\ StepBudget \in Nat /\ MaxRetries \in Nat /\ MaxMishaps \in Nat
  /\ LostAcks \in BOOLEAN

ASSUME ProcAssumption ==
  /\ Workers \cap Retriers = {}
  /\ Procs \subseteq DOMAIN WorkerId
  /\ NoOne \notin {WorkerId[p] : p \in DOMAIN WorkerId}

Terminal == {"SUCCEEDED", "FAILED", "COMPENSATED"}
RunStatus == {"PENDING", "RUNNING", "WAITING_APPROVAL"} \cup Terminal
StepStatus == {"NONE", "SUCCEEDED", "FAILED"}
Marker == {"none", "COMPENSATED", "PARTIAL", "BLOCKED", "NEEDS_APPROVAL", "NOTHING_TO_ROLLBACK"}
CLAIMABLE_STATUSES == {"PENDING", "RUNNING"}

VARIABLES
  run,         \* committed agent_run row
  rows,        \* committed agent_step status per step
  ledger,      \* keys recorded SUCCEEDED
  effects,     \* key -> committed business writes
  audits,      \* key -> committed SUCCEEDED audit rows
  failAudits,  \* steps with a committed FAILED audit row
  pc,          \* executor -> control state
  mem,         \* executor -> what it loaded
  mishaps      \* crashes and early expiries so far

db == <<rows, ledger, effects, audits, failAudits>>
vars == <<run, rows, ledger, effects, audits, failAudits, pc, mem, mishaps>>

NoMem == [step |-> 0, status |-> "PENDING", ckpt |-> 0, marker |-> "none",
          sigs |-> [s \in Step |-> {}], replay |-> FALSE, fault |-> "none",
          defer |-> FALSE, lost |-> FALSE]

Mem == [step : Step \cup {0}, status : RunStatus, ckpt : 0..NSteps, marker : Marker,
        sigs : [Step -> SUBSET Approvers], replay : BOOLEAN,
        fault : {"none", "domain", "infra"}, defer : BOOLEAN, lost : BOOLEAN]

Run == [status : RunStatus, owner : {WorkerId[p] : p \in DOMAIN WorkerId} \cup {NoOne},
        fresh : BOOLEAN, attempt : 0..MaxRetries, ckpt : 0..NSteps, marker : Marker,
        sigs : [Step -> SUBSET Approvers]]

PC == {"idle", "claimed", "drive", "decide", "finish", "budget", "wait", "recheck",
       "step", "open", "key", "write", "failing", "failOpen", "failed"}

TypeOK ==
  /\ run \in Run
  /\ rows \in [Step -> StepStatus]
  /\ ledger \subseteq Step
  /\ effects \in [Step -> Nat]
  /\ audits \in [Step -> Nat]
  /\ failAudits \subseteq Step
  /\ pc \in [Procs -> PC]
  /\ mem \in [Procs -> Mem]
  /\ mishaps \in Nat

(* A run as create_run leaves it. *)
NewRun == [status |-> "PENDING", owner |-> NoOne, fresh |-> FALSE, attempt |-> 0,
           ckpt |-> 0, marker |-> "none", sigs |-> [s \in Step |-> {}]]

Init ==
  /\ run = NewRun
  /\ rows = [s \in Step |-> "NONE"]
  /\ ledger = {} /\ failAudits = {}
  /\ effects = [k \in Step |-> 0] /\ audits = [k \in Step |-> 0]
  /\ pc = [p \in Procs |-> "idle"]
  /\ mem = [p \in Procs |-> NoMem]
  /\ mishaps = 0

-----------------------------------------------------------------------------
(* Control and memory of one executor. *)
Goto(p, at) == pc' = [pc EXCEPT ![p] = at]
Forget(p) == mem' = [mem EXCEPT ![p] = [NoMem EXCEPT !.lost = mem[p].lost]]
Stop(p) == Goto(p, "idle") /\ mem' = [mem EXCEPT ![p] = NoMem]

(* Towards _record_failure: only the step and the exception are kept.      *)
Failing(p, s, fault) ==
  /\ mem' = [mem EXCEPT ![p] = [NoMem EXCEPT !.step = s, !.fault = fault, !.lost = mem[p].lost]]
  /\ Goto(p, "failing")

(* Mutation: any attempted step counts as completed. *)
AttemptedSteps == {s \in Step : rows[s] # "NONE"}

Completed == {s \in Step : rows[s] = "SUCCEEDED"}

(* Mutation: the budget allows one step too many. *)
BeyondBudget == Cardinality(Completed) > StepBudget

OverBudget == Cardinality(Completed) >= StepBudget

(* Mutation: a step is retried without end. *)
NeverExhausted == FALSE

Exhausted == run.attempt >= MaxRetries

(* Row locks: a transaction past _open_step holds its agent_step row, one  *)
(* past idempotency.claim also the ledger row of its key.                  *)
RowFree(p, s) == \A q \in Procs \ {p} : mem[q].step = s => pc[q] \notin {"key", "write"}
(* Mutation: the ledger insert does not wait for the holder of the key. *)
KeyUnlocked(p, k) == TRUE

KeyFree(p, k) ==
  \A q \in Procs \ {p} :
    (pc[q] = "write" /\ mem[q].step \in Writes) => KeyOf[mem[q].step] # k

(* lease.py, each a conditional UPDATE of the run row. *)
(* Mutation: an expired lease still counts as held. *)
LeaseUnowned == run.owner = NoOne

LeaseFree == run.owner = NoOne \/ ~run.fresh
(* Mutation: the UPDATE lost its lease_owner condition. *)
ReleasedByAnyone(p, r) == [r EXCEPT !.owner = NoOne, !.fresh = FALSE]

Released(p, r) ==
  IF r.owner = WorkerId[p] THEN [r EXCEPT !.owner = NoOne, !.fresh = FALSE] ELSE r
Deferred(p, r) == IF r.owner = WorkerId[p] THEN [r EXCEPT !.fresh = TRUE] ELSE r

(* A transaction that inserted its agent_step row holds a key-share lock on *)
(* the run row until it ends (foreign key): FOR UPDATE SKIP LOCKED skips it. *)
RunRowShared == \E q \in Procs : pc[q] \in {"key", "write"} /\ rows[mem[q].step] = "NONE"

Claim(w) ==
  /\ pc[w] = "idle"
  /\ run.status \in CLAIMABLE_STATUSES
  /\ LeaseFree /\ ~RunRowShared
  /\ run' = [run EXCEPT !.owner = WorkerId[w], !.fresh = TRUE, !.status = "RUNNING",
                        !.attempt = IF @ < MaxRetries THEN @ + 1 ELSE @]
  /\ Goto(w, "claimed")
  /\ UNCHANGED <<mem, mishaps>> /\ UNCHANGED db

AssertHoldsLease(w) ==
  /\ pc[w] = "claimed"
  /\ IF run.status \notin Terminal /\ run.owner = WorkerId[w] /\ run.fresh
       THEN Goto(w, "drive") /\ UNCHANGED mem
       ELSE Stop(w)
  /\ UNCHANGED <<run, mishaps>> /\ UNCHANGED db

(* The heartbeat task runs beside _drive; a renewal that finds no row, or  *)
(* that raises, only sets the flag the loop head reads.                    *)
Driving(w) == pc[w] \notin {"idle", "claimed"}

Heartbeat(w) ==
  /\ Driving(w) /\ ~mem[w].lost
  /\ \/ /\ run.owner = WorkerId[w] /\ run.status = "RUNNING"
        /\ run' = [run EXCEPT !.fresh = TRUE]
        /\ UNCHANGED mem
     \/ /\ ~(run.owner = WorkerId[w] /\ run.status = "RUNNING")
        /\ mem' = [mem EXCEPT ![w].lost = TRUE]
        /\ UNCHANGED run
  /\ UNCHANGED <<pc, mishaps>> /\ UNCHANGED db

HeartbeatRaises(w) ==
  /\ Driving(w) /\ ~mem[w].lost
  /\ mishaps < MaxMishaps /\ mishaps' = mishaps + 1
  /\ mem' = [mem EXCEPT ![w].lost = TRUE]
  /\ UNCHANGED <<run, pc>> /\ UNCHANGED db

-----------------------------------------------------------------------------
(* _drive: the loop head loads the run, then reads the completed steps. *)
DriveLoad(w) ==
  /\ pc[w] = "drive"
  /\ IF mem[w].lost \/ run.status \in Terminal \cup {"WAITING_APPROVAL"}
         \/ run.owner # WorkerId[w]
       THEN Stop(w)
       ELSE Goto(w, "decide") /\ mem' = [mem EXCEPT ![w].sigs = run.sigs]
  /\ UNCHANGED <<run, mishaps>> /\ UNCHANGED db

(* Mutation: one signature is as good as two. *)
AnySignature(w, s) == Need[s] = 0 \/ mem[w].sigs[s] # {}

(* The gate counts the signatures in the copy of the run the loop head loaded. *)
EnoughSignatures(w, s) == Cardinality(mem[w].sigs[s]) >= Need[s]

NextStep(s) == s \in Step \ Completed /\ \A t \in Step : t < s => t \in Completed

DriveDecide(w) ==
  /\ pc[w] = "decide"
  /\ \/ Completed = Step /\ Goto(w, "finish") /\ UNCHANGED mem
     \/ /\ Completed # Step /\ OverBudget
        /\ Goto(w, "budget") /\ UNCHANGED mem
     \/ /\ ~OverBudget
        /\ \E s \in Step :
             /\ NextStep(s)
             /\ \/ /\ s \in Refused
                   /\ Failing(w, s, "domain")
                \/ /\ s \notin Refused /\ ~EnoughSignatures(w, s)
                   /\ Goto(w, "wait") /\ UNCHANGED mem
                \/ /\ s \notin Refused /\ EnoughSignatures(w, s)
                   /\ Goto(w, "step")
                   /\ mem' = [mem EXCEPT ![w].step = s]
  /\ UNCHANGED <<run, mishaps>> /\ UNCHANGED db

(* _finish writes the status whatever it is now, and gives the lease back. *)
FinishSucceeded(w) ==
  /\ pc[w] = "finish"
  /\ run' = Released(w, [run EXCEPT !.status = "SUCCEEDED"])
  /\ Stop(w)
  /\ UNCHANGED mishaps /\ UNCHANGED db

FinishOverBudget(w) ==
  /\ pc[w] = "budget"
  /\ run' = Released(w, [run EXCEPT !.status = "FAILED"])
  /\ Goto(w, "failed") /\ Forget(w)
  /\ UNCHANGED mishaps /\ UNCHANGED db

(* _wait_for_approval replaces the whole checkpoint, marker included. *)
WaitForApproval(w) ==
  /\ pc[w] = "wait"
  /\ run' = Released(w, [run EXCEPT !.status = "WAITING_APPROVAL", !.marker = "none"])
  /\ Stop(w)
  /\ UNCHANGED mishaps /\ UNCHANGED db

-----------------------------------------------------------------------------
(* _execute_step: load the run, lock the step row, claim the key, write.   *)
StepBegin(p) ==
  /\ pc[p] = "step"
  /\ Goto(p, "open")
  /\ mem' = [mem EXCEPT ![p].status = run.status, ![p].ckpt = run.ckpt,
                        ![p].marker = run.marker]
  /\ UNCHANGED <<run, mishaps>> /\ UNCHANGED db

StepOpen(p) ==
  /\ pc[p] = "open" /\ RowFree(p, mem[p].step)
  /\ Goto(p, IF mem[p].step \in Writes THEN "key" ELSE "write")
  /\ UNCHANGED <<run, mem, mishaps>> /\ UNCHANGED db

(* Mutation: the ledger record is not looked at. *)
StepClaimKeyBlind(p) ==
  /\ pc[p] = "key" /\ KeyFree(p, KeyOf[mem[p].step])
  /\ Goto(p, "write")
  /\ mem' = [mem EXCEPT ![p].replay = FALSE]
  /\ UNCHANGED <<run, mishaps>> /\ UNCHANGED db

(* INSERT .. ON CONFLICT waits for the holder of the key, then sees what   *)
(* it committed.                                                           *)
StepClaimKey(p) ==
  /\ pc[p] = "key" /\ KeyFree(p, KeyOf[mem[p].step])
  /\ Goto(p, "write")
  /\ mem' = [mem EXCEPT ![p].replay = KeyOf[mem[p].step] \in ledger]
  /\ UNCHANGED <<run, mishaps>> /\ UNCHANGED db

(* Mutation: the checkpoint names the step to run next. *)
FurthestNext(m) == IF m.step >= m.ckpt THEN m.step + 1 ELSE m.ckpt

Furthest(m) == IF m.step > m.ckpt THEN m.step ELSE m.ckpt

(* Mutation: a committed step gives the lease back. *)
CheckpointedFree(m) ==
  [run EXCEPT !.ckpt = Furthest(m), !.marker = m.marker, !.owner = NoOne, !.fresh = FALSE]

(* _checkpoint, computed from the loaded row.  A column is written when    *)
(* its new value differs from the loaded one; the JSON checkpoint and the  *)
(* lease expiry always change.                                             *)
Checkpointed(m) ==
  IF m.status \in Terminal THEN run
  ELSE [run EXCEPT !.ckpt = IF Furthest(m) # m.ckpt THEN Furthest(m) ELSE @,
                   !.status = IF m.status # "RUNNING" THEN "RUNNING" ELSE @,
                   !.marker = m.marker,
                   !.fresh = run.owner # NoOne]

(* What the step transaction commits, all of it at once. *)
CommitStep(p) ==
  LET s == mem[p].step
      k == KeyOf[s]
      writes == s \in Writes /\ ~mem[p].replay
  IN  /\ rows' = [rows EXCEPT ![s] = "SUCCEEDED"]
      /\ effects' = IF writes THEN [effects EXCEPT ![k] = @ + 1] ELSE effects
      /\ audits' = IF writes THEN [audits EXCEPT ![k] = @ + 1] ELSE audits
      /\ ledger' = IF writes THEN ledger \cup {k} ELSE ledger
      /\ run' = Checkpointed(mem[p])
      /\ UNCHANGED failAudits

StepCommit(p) ==
  /\ pc[p] = "write"
  /\ CommitStep(p)
  /\ IF p \in Workers THEN Goto(p, "drive") /\ Forget(p) ELSE Stop(p)
  /\ UNCHANGED mishaps

(* Mutation: the tool's write survives the rollback. *)
StepRaisesAfterWrite(p) ==
  /\ pc[p] = "write"
  /\ effects' = [effects EXCEPT ![KeyOf[mem[p].step]] = @ + 1]
  /\ Failing(p, mem[p].step, "domain")
  /\ UNCHANGED <<run, rows, ledger, audits, failAudits, mishaps>>

(* The tool refuses (DomainError), or something below it raises: the       *)
(* transaction rolls back.                                                 *)
StepRaises(p) ==
  /\ pc[p] = "write"
  /\ \/ Failing(p, mem[p].step, "infra")
     \/ ~mem[p].replay /\ Failing(p, mem[p].step, "domain")
  /\ UNCHANGED <<run, mishaps>> /\ UNCHANGED db

(* The commit takes effect but its acknowledgement is lost: the executor   *)
(* sees an exception and takes the failure path.                           *)
StepCommitUnacknowledged(p) ==
  /\ pc[p] = "write" /\ LostAcks
  /\ mishaps < MaxMishaps /\ mishaps' = mishaps + 1
  /\ CommitStep(p)
  /\ Failing(p, mem[p].step, "infra")

-----------------------------------------------------------------------------
(* _record_failure: load the run, then lock the step row (it may wait for  *)
(* another transaction on the same step), then decide from the loaded row. *)
FailLoad(p) ==
  /\ pc[p] = "failing"
  /\ Goto(p, "failOpen")
  /\ mem' = [mem EXCEPT ![p].status = run.status,
               ![p].defer = mem[p].fault = "infra" /\ ~Exhausted]
  /\ UNCHANGED <<run, mishaps>> /\ UNCHANGED db

FailedRun(p) ==
  IF mem[p].defer THEN Deferred(p, run)
  ELSE Released(p, IF mem[p].status \in Terminal THEN run
                   ELSE [run EXCEPT !.status = "FAILED"])

(* A domain failure returns to _drive, which calls _after_failure; any     *)
(* other failure is re-raised out of execute_run.                          *)
FailCommit(p) ==
  /\ pc[p] = "failOpen" /\ RowFree(p, mem[p].step)
  /\ rows' = [rows EXCEPT ![mem[p].step] = "FAILED"]
  /\ failAudits' = IF mem[p].step \in Writes THEN failAudits \cup {mem[p].step} ELSE failAudits
  /\ run' = FailedRun(p)
  /\ IF p \in Workers /\ mem[p].fault = "domain"
       THEN Goto(p, "failed") /\ Forget(p)
       ELSE Stop(p)
  /\ UNCHANGED <<ledger, effects, audits, mishaps>>

(* _after_failure with compensation_mode other than "auto". *)
AfterFailure(w) ==
  /\ pc[w] = "failed"
  /\ Stop(w)
  /\ UNCHANGED <<run, mishaps>> /\ UNCHANGED db

-----------------------------------------------------------------------------
(* retry_step: no lease, no approval gate; the compensation marker and the *)
(* dependencies are read in two transactions before the step's own.        *)
RetryBlocked == run.status = "COMPENSATED" \/ run.marker \in {"COMPENSATED", "PARTIAL"}

Retry(r, s) ==
  /\ pc[r] = "idle" /\ ~RetryBlocked
  /\ Goto(r, "recheck")
  /\ mem' = [mem EXCEPT ![r].step = s]
  /\ UNCHANGED <<run, mishaps>> /\ UNCHANGED db

(* Mutation: a retry does not look at the dependencies. *)
RetryDepsSkipped(r) ==
  /\ pc[r] = "recheck"
  /\ Goto(r, "step")
  /\ UNCHANGED <<run, mem, mishaps>> /\ UNCHANGED db

RetryDeps(r) ==
  /\ pc[r] = "recheck"
  /\ IF Deps[mem[r].step] \subseteq Completed /\ mem[r].step \notin Refused
       THEN Goto(r, "step") /\ UNCHANGED mem
       ELSE Stop(r)
  /\ UNCHANGED <<run, mishaps>> /\ UNCHANGED db

-----------------------------------------------------------------------------
(* The environment.  An open transaction of a killed process rolls back.   *)
Crash(p) ==
  /\ pc[p] # "idle"
  /\ mishaps < MaxMishaps /\ mishaps' = mishaps + 1
  /\ Stop(p)
  /\ UNCHANGED run /\ UNCHANGED db

OwnerAlive == \E w \in Workers : WorkerId[w] = run.owner /\ pc[w] # "idle"

(* The lease runs out although its holder is still at work. *)
LeaseLapses ==
  /\ run.fresh /\ OwnerAlive
  /\ mishaps < MaxMishaps /\ mishaps' = mishaps + 1
  /\ run' = [run EXCEPT !.fresh = FALSE]
  /\ UNCHANGED <<pc, mem>> /\ UNCHANGED db

(* The lease of a dead or backed-off holder runs out. *)
LeaseExpires ==
  /\ run.fresh /\ ~OwnerAlive
  /\ run' = [run EXCEPT !.fresh = FALSE]
  /\ UNCHANGED <<pc, mem, mishaps>> /\ UNCHANGED db

-----------------------------------------------------------------------------
StepTxn(p) == StepBegin(p) \/ StepOpen(p) \/ StepClaimKey(p) \/ StepCommit(p)
              \/ StepRaises(p) \/ FailLoad(p) \/ FailCommit(p)

Drive(w) == AssertHoldsLease(w) \/ DriveLoad(w) \/ DriveDecide(w) \/ FinishSucceeded(w)
            \/ FinishOverBudget(w) \/ WaitForApproval(w)

(* Everything but what follows a failure, which Saga models for mode "auto". *)
Forward ==
  \/ \E w \in Workers : Claim(w) \/ Drive(w) \/ Heartbeat(w) \/ HeartbeatRaises(w)
  \/ \E r \in Retriers : (\E s \in Step : Retry(r, s)) \/ RetryDeps(r)
  \/ \E p \in Procs : StepTxn(p) \/ StepCommitUnacknowledged(p) \/ Crash(p)
  \/ LeaseLapses \/ LeaseExpires

Next == Forward \/ \E w \in Workers : AfterFailure(w)

Spec == Init /\ [][Next]_vars

(* Workers poll for ever, a live process finishes what it started, the     *)
(* database hands a lock to a waiter, and the clock goes on.  Nothing is    *)
(* assumed of heartbeats, of crashes or of the people who click.           *)
Fairness ==
  /\ \A w \in Workers : WF_vars(Claim(w)) /\ WF_vars(Drive(w) \/ AfterFailure(w))
  /\ \A r \in Retriers : WF_vars(RetryDeps(r))
  /\ \A p \in Procs : WF_vars(StepTxn(p))
  /\ WF_vars(LeaseExpires)

FairSpec == Spec /\ Fairness

-----------------------------------------------------------------------------
(* Exactly once (README: a step is never executed twice): whatever crashes, *)
(* is retried or overlaps, one key is written to the business tables at     *)
(* most once.                                                              *)
ExactlyOnce == \A k \in Step : effects[k] <= 1

(* No half-done step: the business write, its SUCCEEDED audit row and the  *)
(* ledger entry of a key are all committed or none is.                     *)
AtomicRecord ==
  \A k \in Step : /\ audits[k] = effects[k]
                  /\ k \in ledger <=> effects[k] > 0

(* What recovery and the UI read of a write step is vouched for: SUCCEEDED *)
(* means its write is in the ledger and every write it depends on too,     *)
(* FAILED means a FAILED audit row exists.                                 *)
RowsVouched ==
  \A s \in Writes :
    /\ rows[s] = "SUCCEEDED" => /\ KeyOf[s] \in ledger
                                /\ \A d \in Deps[s] \cap Writes : KeyOf[d] \in ledger
    /\ rows[s] = "FAILED" => s \in failAudits

(* A run that is reported SUCCEEDED has all its writes in the database,    *)
(* even when two executors drove it or a stale one finished it.            *)
SucceededIsComplete == run.status = "SUCCEEDED" => \A s \in Writes : KeyOf[s] \in ledger

(* checkpoint_seq, computed from a copy that may be stale, never names a   *)
(* write that is not committed.                                            *)
CheckpointBacked == run.ckpt \in Writes => KeyOf[run.ckpt] \in ledger

(* A lease that is running is taken from an executor at work by nobody but a  *)
(* namesake that is done with the run or fails on it: lease.py checks          *)
(* lease_owner, and all API requests go by "api-inline" (runs.py:42), so a     *)
(* retry that fails ends the lease of the inline execution it overlaps.       *)
HoldsLive(w) == Driving(w) /\ run.owner = WorkerId[w] /\ run.fresh

NamesakeGivesUp(w) ==
  \E p \in Procs \ {w} : /\ WorkerId[p] = WorkerId[w]
                         /\ pc[p] \in {"finish", "budget", "wait", "failOpen"}
                         /\ pc'[p] \in {"idle", "failed"}

LeaseKept ==
  [][\A w \in Workers :
       HoldsLive(w) /\ pc'[w] = pc[w] /\ run'.owner # run.owner => NamesakeGivesUp(w)]_vars

(* Left to the workers, a run stays within its limits: no step beyond the  *)
(* step budget and no refused step is ever executed, two drivers or not.   *)
WithinLimits ==
  Retriers = {} => \A s \in Step : rows[s] = "SUCCEEDED" => s <= StepBudget /\ s \notin Refused

(* A claimable run settles: once people stop re-running its steps it does  *)
(* not stay PENDING or RUNNING for ever, although executors crash, leases  *)
(* lapse, acknowledgements are lost and tools fail.                        *)
Settles ==
  <>[](\A r \in Retriers : pc[r] = "idle") =>
    (run.status \in CLAIMABLE_STATUSES ~> run.status \notin CLAIMABLE_STATUSES)

-----------------------------------------------------------------------------
(* Executor implements WriteOnce, with the keys of the plan as the keys.    *)
Promise == INSTANCE WriteOnce WITH Key <- Step, written <- effects,
                                   audited <- audits, recorded <- ledger
KeepsPromise == Promise!Spec
=============================================================================
