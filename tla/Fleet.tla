------------------------------- MODULE Fleet -------------------------------
(***************************************************************************)
(* Many runs, many executors: worker replicas that poll for any run          *)
(* (governance/worker.py, lease.claim_runs), requests that execute a given   *)
(* one (POST /runs/{uid}/execute) and direct tool calls, which create a run  *)
(* of one step, claim it like anybody else, drive it and turn what came of   *)
(* it into an answer (api/routes/tools.py).                                  *)
(*                                                                         *)
(* The driving itself is module Executor's; here a run has one writing step, *)
(* its ledger, audit and business rows are the one bit `written`, and         *)
(* heartbeats are left out: they renew what lapses only as a mishap.  The     *)
(* step transaction still holds its row from "write" on, and the status it    *)
(* writes back comes from the copy it loaded (`loaded`).                     *)
(*                                                                         *)
(* `lapsed` of a run is history: its lease once ran out on a live holder.    *)
(***************************************************************************)
EXTENDS Integers, Sequences

CONSTANTS
  Callers,     \* direct tool calls (POST /tools/{name}/invoke), one run each
  Workers,     \* worker replicas
  Requests,    \* POST /runs/{uid}/execute
  WorkerId,    \* executor -> worker_id; all calls share one, all requests another
  NoOne,       \* lease_owner IS NULL; the actor of a run nobody waits for
  Kinds,       \* <<of the oldest run, of the next, ...>>, each a set to choose from
  MaxRetries,  \* settings.max_step_retries
  MaxMishaps   \* bound on crashes, lost acknowledgements and early lease losses

MaxRuns == Len(Kinds)
Executors == Callers \cup Workers \cup Requests

ASSUME FleetAssumption ==
  /\ Callers \cap Workers = {} /\ Callers \cap Requests = {} /\ Workers \cap Requests = {}
  /\ DOMAIN WorkerId = Executors /\ NoOne \notin {WorkerId[e] : e \in Executors}
  /\ NoOne \notin Callers /\ Kinds \in Seq(SUBSET {"free", "gated", "denied"})
  /\ MaxRetries \in Nat /\ MaxMishaps \in Nat

VARIABLES
  runs,    \* committed agent_run rows in the order of their id
  at,      \* executor -> where it is and what it holds in memory
  answer,  \* call -> what it was answered
  mishaps

fleetVars == <<runs, at, answer, mishaps>>

Terminal == {"SUCCEEDED", "FAILED"}
RunStatus == {"PENDING", "RUNNING", "WAITING_APPROVAL"} \cup Terminal
CLAIMABLE_STATUSES == {"PENDING", "RUNNING"}
Kind == {"free", "gated", "denied"}
Answer == {"none", "done", "waiting", "refused", "error"}

Run == [status : RunStatus, owner : {WorkerId[e] : e \in Executors} \cup {NoOne}, fresh : BOOLEAN,
        attempt : 0..MaxRetries, actor : Callers \cup {NoOne}, kind : Kind, signed : BOOLEAN, row : {"NONE", "SUCCEEDED", "FAILED"},
        written : BOOLEAN, lapsed : BOOLEAN]

NewRun(actor, kind) ==
  [status |-> "PENDING", owner |-> NoOne, fresh |-> FALSE, attempt |-> 0, actor |-> actor, kind |-> kind,
   signed |-> FALSE, row |-> "NONE", written |-> FALSE, lapsed |-> FALSE]

(* `outcome`: the executor has completed the step itself; `defer`: a failure *)
(* it is recording is to be tried again. *)
Away == [pc |-> "idle", run |-> 0, loaded |-> "PENDING", fault |-> "none",
         defer |-> FALSE, outcome |-> FALSE]

PC == {"idle", "created", "claimed", "drive", "finish", "wait", "step", "open", "write",
       "failing", "failOpen"}
Mem == [pc : PC, run : Nat, loaded : RunStatus, fault : {"none", "denied", "domain", "infra"},
        defer : BOOLEAN, outcome : BOOLEAN]

FleetTypeOK ==
  /\ runs \in Seq(Run)
  /\ at \in [Executors -> Mem]
  /\ answer \in [Callers -> Answer]
  /\ mishaps \in 0..MaxMishaps

FleetInit ==
  /\ runs = <<>>
  /\ at = [e \in Executors |-> Away]
  /\ answer = [c \in Callers |-> "none"]
  /\ mishaps = 0

-----------------------------------------------------------------------------
Mine(e) == runs[at[e].run]
Owns(e) == Mine(e).owner = WorkerId[e]
At(e, pc) == at[e].pc = pc
Goto(e, pc) == at' = [at EXCEPT ![e].pc = pc]
Update(e, r) == runs' = [runs EXCEPT ![at[e].run] = r]

(* The executor is done with its run; a call answers. *)
Leave(e, reply) ==
  /\ at' = [at EXCEPT ![e] = Away]
  /\ answer' = IF e \in Callers THEN [answer EXCEPT ![e] = reply] ELSE answer

(* invoke_tool, once _drive has returned: without an outcome of its own it   *)
(* says so and knows no more. *)
Reply(e, status) ==
  CASE status = "WAITING_APPROVAL" -> "waiting"
    [] status # "WAITING_APPROVAL" /\ at[e].outcome -> "done"
    [] OTHER -> "error"

(* Mutation: who claims does not look at the lease. *)
LeaseIgnored(r) == TRUE

(* Mutation: a lease that has run out still counts. *)
LeaseUnowned(r) == r.owner = NoOne

LeaseFree(r) == r.owner = NoOne \/ ~r.fresh

(* The foreign key of a step row just inserted: SKIP LOCKED skips the run.   *)
RunRowShared(i) == \E e \in Executors : At(e, "write") /\ at[e].run = i /\ runs[i].row = "NONE"

Claimable(i) ==
  runs[i].status \in CLAIMABLE_STATUSES /\ LeaseFree(runs[i]) /\ ~RunRowShared(i)

RowFree(e) == \A f \in Executors \ {e} : At(f, "write") => at[f].run # at[e].run

Released(e, r) == IF r.owner = WorkerId[e] THEN [r EXCEPT !.owner = NoOne, !.fresh = FALSE] ELSE r
Deferred(e, r) == IF r.owner = WorkerId[e] THEN [r EXCEPT !.fresh = TRUE] ELSE r

Exhausted(r) == r.attempt >= MaxRetries

-----------------------------------------------------------------------------
(* Getting a run; `attempt` is counted as far as the limit it is compared to. *)
Claimed(e, r) ==
  [r EXCEPT !.owner = WorkerId[e], !.fresh = TRUE, !.status = "RUNNING",
            !.attempt = IF r.attempt < MaxRetries THEN r.attempt + 1 ELSE r.attempt]

ClaimRun(e, i) ==
  /\ runs' = [runs EXCEPT ![i] = Claimed(e, @)]
  /\ at' = [at EXCEPT ![e] = [Away EXCEPT !.pc = "claimed", !.run = i]]
  /\ UNCHANGED <<answer, mishaps>>

(* create_run, by POST /runs or by a direct call. *)
Register(actor) ==
  /\ Len(runs) < MaxRuns
  /\ \E kind \in Kinds[Len(runs) + 1] : runs' = Append(runs, NewRun(actor, kind))

Submit == Register(NoOne) /\ UNCHANGED <<at, answer, mishaps>>

(* A call registers its run and commits, before it claims it. *)
Create(c) ==
  /\ At(c, "idle") /\ answer[c] = "none"
  /\ Register(c)
  /\ at' = [at EXCEPT ![c] = [Away EXCEPT !.pc = "created", !.run = Len(runs) + 1]]
  /\ UNCHANGED <<answer, mishaps>>

ClaimOwn(c) ==
  /\ At(c, "created")
  /\ \/ Claimable(at[c].run) /\ ClaimRun(c, at[c].run)
     \/ ~Claimable(at[c].run) /\ Leave(c, "error") /\ UNCHANGED <<runs, mishaps>>

ClaimNamed(q) ==
  /\ At(q, "idle")
  /\ \E i \in DOMAIN runs : Claimable(i) /\ ClaimRun(q, i)

(* A worker takes the oldest run it can get. *)
ClaimNext(w) ==
  /\ At(w, "idle")
  /\ \E i \in DOMAIN runs :
       Claimable(i) /\ (\A j \in 1..(i - 1) : ~Claimable(j)) /\ ClaimRun(w, i)

AssertHoldsLease(e) ==
  /\ At(e, "claimed")
  /\ IF Mine(e).status \in Terminal \/ (Owns(e) /\ Mine(e).fresh)
       THEN Goto(e, "drive") /\ UNCHANGED answer ELSE Leave(e, "error")
  /\ UNCHANGED <<runs, mishaps>>

-----------------------------------------------------------------------------
(* _drive and the transactions it leads to. *)
Fail(e, fault) == at' = [at EXCEPT ![e].pc = "failing", ![e].fault = fault]

Decide(e, r) ==
  \/ r.row = "SUCCEEDED" /\ Goto(e, "finish")
  \/ r.row # "SUCCEEDED" /\ r.kind = "denied" /\ Fail(e, "denied")
  \/ r.row # "SUCCEEDED" /\ r.kind = "gated" /\ ~r.signed /\ Goto(e, "wait")
  \/ r.row # "SUCCEEDED" /\ (r.kind = "free" \/ (r.kind = "gated" /\ r.signed)) /\ Goto(e, "step")

DriveLoad(e) ==
  LET r == Mine(e)
  IN  /\ At(e, "drive")
      /\ \/ r.status \in Terminal /\ Leave(e, Reply(e, r.status))
         \/ r.status \notin Terminal /\ ~Owns(e) /\ Leave(e, "error")
         \/ r.status = "WAITING_APPROVAL" /\ Owns(e) /\ Leave(e, Reply(e, r.status))
         \/ r.status \in CLAIMABLE_STATUSES /\ Owns(e) /\ Decide(e, r) /\ UNCHANGED answer
      /\ UNCHANGED <<runs, mishaps>>

Finish(e) ==
  /\ At(e, "finish")
  /\ Update(e, Released(e, [Mine(e) EXCEPT !.status = "SUCCEEDED"]))
  /\ Leave(e, Reply(e, "SUCCEEDED"))
  /\ UNCHANGED mishaps

WaitForApproval(e) ==
  /\ At(e, "wait")
  /\ Update(e, Released(e, [Mine(e) EXCEPT !.status = "WAITING_APPROVAL"]))
  /\ Leave(e, Reply(e, "WAITING_APPROVAL"))
  /\ UNCHANGED mishaps

StepBegin(e) ==
  /\ At(e, "step")
  /\ at' = [at EXCEPT ![e].pc = "open", ![e].loaded = Mine(e).status]
  /\ UNCHANGED <<runs, answer, mishaps>>

StepOpen(e) ==
  /\ At(e, "open") /\ RowFree(e)
  /\ Goto(e, "write")
  /\ UNCHANGED <<runs, answer, mishaps>>

(* What the step transaction commits; a write on record is not repeated.     *)
CommitStep(e) ==
  LET r == [Mine(e) EXCEPT !.row = "SUCCEEDED", !.written = TRUE]
  IN  Update(e, IF at[e].loaded \in Terminal THEN r
                ELSE [r EXCEPT !.status = IF at[e].loaded # "RUNNING" THEN "RUNNING" ELSE @,
                               !.fresh = r.owner # NoOne])

StepCommit(e) ==
  /\ At(e, "write")
  /\ CommitStep(e)
  /\ at' = [at EXCEPT ![e].pc = "drive", ![e].outcome = TRUE]
  /\ UNCHANGED <<answer, mishaps>>

StepRaises(e) ==
  /\ At(e, "write")
  /\ \/ Fail(e, "infra")
     \/ ~Mine(e).written /\ Fail(e, "domain")
  /\ UNCHANGED <<runs, answer, mishaps>>

StepCommitUnacknowledged(e) ==
  /\ At(e, "write") /\ mishaps < MaxMishaps
  /\ mishaps' = mishaps + 1
  /\ CommitStep(e)
  /\ Fail(e, "infra")
  /\ UNCHANGED answer

FailLoad(e) ==
  /\ At(e, "failing")
  /\ at' = [at EXCEPT ![e].pc = "failOpen", ![e].loaded = Mine(e).status,
                      ![e].defer = at[e].fault = "infra" /\ ~Exhausted(Mine(e))]
  /\ UNCHANGED <<runs, answer, mishaps>>

(* Mutation: whatever went wrong is told as a refusal. *)
AlwaysRefused(fault) == "refused"

(* Only the tool's own refusal reaches the caller as such: what the policy    *)
(* denies leaves no outcome, what breaks below the tool is re-raised.         *)
ReplyToFailure(fault) == IF fault = "domain" THEN "refused" ELSE "error"

FailCommit(e) ==
  LET r == [Mine(e) EXCEPT !.row = "FAILED"]
  IN  /\ At(e, "failOpen") /\ RowFree(e)
      /\ Update(e, IF at[e].defer THEN Deferred(e, r)
                   ELSE Released(e, IF at[e].loaded \in Terminal THEN r ELSE [r EXCEPT !.status = "FAILED"]))
      /\ Leave(e, ReplyToFailure(at[e].fault))
      /\ UNCHANGED mishaps

-----------------------------------------------------------------------------
(* Somebody signs; the overlap of several signatures is module Approval's.   *)
Approve(i) ==
  /\ runs[i].kind = "gated" /\ ~runs[i].signed
  /\ runs' = [runs EXCEPT ![i].signed = TRUE,
                          ![i].status = IF @ = "WAITING_APPROVAL" THEN "PENDING" ELSE @]
  /\ UNCHANGED <<at, answer, mishaps>>

(* The process dies, or its heartbeat raises and the loop head gives up. *)
Crash(e) ==
  /\ ~At(e, "idle") /\ mishaps < MaxMishaps
  /\ mishaps' = mishaps + 1
  /\ Leave(e, "error")
  /\ UNCHANGED runs

HolderAtWork(i) == \E e \in Executors : at[e].run = i /\ WorkerId[e] = runs[i].owner

LeaseLapses(i) ==
  /\ runs[i].fresh /\ HolderAtWork(i) /\ mishaps < MaxMishaps
  /\ mishaps' = mishaps + 1
  /\ runs' = [runs EXCEPT ![i].fresh = FALSE, ![i].lapsed = TRUE]
  /\ UNCHANGED <<at, answer>>

LeaseExpires(i) ==
  /\ runs[i].fresh /\ ~HolderAtWork(i)
  /\ runs' = [runs EXCEPT ![i].fresh = FALSE]
  /\ UNCHANGED <<at, answer, mishaps>>

-----------------------------------------------------------------------------
StepTxn(e) == StepBegin(e) \/ StepOpen(e) \/ StepCommit(e) \/ StepRaises(e) \/ FailLoad(e) \/ FailCommit(e)

Drive(e) == AssertHoldsLease(e) \/ DriveLoad(e) \/ Finish(e) \/ WaitForApproval(e) \/ StepTxn(e)

FleetNext ==
  \/ Submit
  \/ \E c \in Callers : Create(c) \/ ClaimOwn(c)
  \/ \E q \in Requests : ClaimNamed(q)
  \/ \E w \in Workers : ClaimNext(w)
  \/ \E e \in Executors : Drive(e) \/ StepCommitUnacknowledged(e) \/ Crash(e)
  \/ \E i \in DOMAIN runs : Approve(i) \/ LeaseLapses(i) \/ LeaseExpires(i)

(* Workers poll for ever, live processes go on, the clock too.  Nobody has   *)
(* to call, to sign or to press "execute".                                  *)
FleetFairness ==
  /\ \A w \in Workers : WF_fleetVars(ClaimNext(w))
  /\ \A c \in Callers : WF_fleetVars(ClaimOwn(c))
  /\ \A e \in Executors : WF_fleetVars(Drive(e))
  /\ \A i \in 1..MaxRuns : WF_fleetVars(i \in DOMAIN runs /\ LeaseExpires(i))

FleetSpec == FleetInit /\ [][FleetNext]_fleetVars /\ FleetFairness

-----------------------------------------------------------------------------
(* No two executors are at work on one run, workers, requests and calls      *)
(* that share a worker_id alike, unless its lease ran out on a live one      *)
(* (lease.py: no run is driven by two workers at a time).                    *)
AtWork(e, i) == at[e].run = i /\ ~At(e, "created")

OneDriver ==
  \A i \in DOMAIN runs : \A e, f \in Executors :
    AtWork(e, i) /\ AtWork(f, i) => e = f \/ runs[i].lapsed

(* What a direct call is answered is true, whoever else took part in its     *)
(* run: "done" means written; a refused call has written nothing and never   *)
(* will unless its lease lapsed; one told to wait for approval writes nothing *)
(* before somebody has signed. *)
AnsweredTruly ==
  \A i \in DOMAIN runs :
    LET r == runs[i]
    IN  r.actor \in Callers =>
          /\ answer[r.actor] = "done" => r.written
          /\ answer[r.actor] = "refused" /\ r.written => r.lapsed
          /\ answer[r.actor] = "waiting" /\ r.written => r.signed

(* Every run settles, also the one whose caller died before claiming it and   *)
(* the younger one while an older one keeps failing and coming back: no run   *)
(* stays claimable for ever (worker.py, claim_runs with its order and limit).  *)
RunsSettle ==
  \A i \in 1..MaxRuns :
    LET unsettled == i \in DOMAIN runs /\ runs[i].status \in CLAIMABLE_STATUSES
    IN  unsettled ~> ~unsettled
=============================================================================
