# GuardRail in TLA+

GuardRail executes plans of tool calls on behalf of an agent: an order system with
refunds behind a governance layer that plans, claims, executes, audits, suspends for
approval, retries and compensates them. This directory models the governance layer
(`apps/api/src/guardrail_api/governance`, `planner`, the routes that drive it) and the two
business services it acts on (`services/order.py`, `services/aftersales.py`), checks the
models with TLC and proves their main safety properties with TLAPS.

## 1. Inventory

| Component | State it keeps | Operations | Talks to |
| --- | --- | --- | --- |
| Run executor (`executor.py`) | `agent_run` (status, checkpoint, attempt, lease, approvals), `agent_step` | create, claim, drive, execute step, record failure, wait, finish, retry, compensate | lease, ledger, audit, policy, plan, tools |
| Lease (`lease.py`) | `lease_owner`, `lease_expires_at` of a run | claim_runs, heartbeat, release, defer | the run row, `SKIP LOCKED` |
| Worker loop (`worker.py`) | none of its own | poll, drive, swallow, poll again; kill hooks | executor |
| Idempotency ledger (`idempotency.py`) | one record per (run, tool, arguments) | claim, reopen, succeed, lookup | the step transaction |
| Compensation planner (`compensation.py`) | none | plan: reverse order, or blockers | step rows, registry |
| Approval (`runs.py approve_step`, `policy.evaluate_approval`) | `agent_run.approvals` | sign a step | executor (through the run row) |
| Policy engine (`policy.py`, `trust.py`) | settings | evaluate, approval_requirement | executor, routes, planner |
| Plan references (`plan.py`) | none | validate, lookup, resolve | executor, planner |
| Planner (`planner/`) | one request | draft, validate, repair, finalize | registry, policy |
| Tool registry (`tools/registry.py`, `base.py`) | declarations | validate_args, resolve_effective_amount | executor, routes, planner |
| Direct invocation (`routes/tools.py`) | none | create a run, claim it, execute it, answer | executor |
| After-sales (`services/aftersales.py`, tools, routes) | tickets, refund quota of an order | request, approve, reject, execute, close | tools, routes |
| Orders and stock (`services/order.py`, routes) | orders, inventory rows | create, pay, ship, complete, cancel, update address | tools, routes |
| Transition tables (`domain/state.py`) | none | assert_transition | both services |
| Audit log (`audit.py`, trigger) | append-only rows | append | the step transaction |
| Login sessions (`auth/`) | session rows | login, load, revoke, expiry | every route |
| Logistics, read routes, start-up, migrations, demos, web console | none that matters here | | |

What makes it hard: every phase of the executor is a transaction of its own at READ
COMMITTED; rows are loaded without a lock and written back from that copy; several executors
reach one run at the same time (worker replicas, inline execution, direct calls, retries
without a lease, compensations); leases run out while their holder is at work; processes are
killed anywhere; a commit may succeed without its caller learning of it; people sign and
click at any moment; the refund quota is read in two statements with no lock on the order;
inventory rows are locked one after the other; settings and amounts change between the plan
that was shown and the step that is executed; and a language model may answer anything.

What makes it correct, component by component: a write happens once (ledger, executor);
the write, its audit row and its ledger entry appear together (audit); what recovery and the
UI read never claims more than was done (checkpoint, step rows, final status); a lease in use
is taken by nobody but a namesake that gives the run up (lease); every run settles, also the younger one while an older one keeps
coming back (worker, lease); a direct call is answered what is true (routes); no gated write
before the people it needs have signed (approval); writes are undone once, latest first, all
or none, and a run that was undone is not driven on (compensation); no write moves more than
it was signed for (policy, planner); a plan that was
announced can be executed and never lacks what it depends on (plan, planner); the quota is
exact for whoever is not overtaken, and a step has one ticket (after-sales); reservations
balance, decisions taken under a lock stand, transactions end (orders).

## 2. Modules

| Module | Models | About |
| --- | --- | --- |
| `WriteOnce` | abstract contract of the ledger | a key is written, audited and recorded in one step, once |
| `Rollback` | abstract contract of compensation | doing stops when undoing starts, and undoing goes latest first |
| `Executor` | `executor.py` forward and retry, `lease.py`, `worker.py`, `idempotency.py` | one run, its workers and its retry requests |
| `Approval` | `approve_step`, `evaluate_approval` | extends `Executor` by the people who sign |
| `Saga` | `compensate`, `_after_failure`, `compensation.py` | extends `Executor` by the compensators |
| `Fleet` | `claim_runs` among many runs, `worker.py`, `routes/tools.py`, `routes/runs.py` execute | many runs of one step, many executors, shared worker_ids |
| `Policy` | `policy.py`, `trust.py`, `tools/base.py` | pure functions: decision and signatures of a call |
| `PlanRefs` | `plan.py` | pure functions: validation and resolution of references |
| `Registry` | `tools/*.py` declarations, `registry.py` | extends `Policy` and `PlanRefs` by the registered tools |
| `Planning` | `planner/`, `create_run`, the gate of `_drive`, `approve_step` | extends `Registry`: a request from the sentence to the end of its run |
| `Refund` | `services/aftersales.py`, `tools/aftersales.py`, ticket routes | extends `Registry`: refund steps and tickets of one order |
| `Stock` | `services/order.py`, order routes, CHECKs of `models/catalog.py` | orders and the inventory rows they lock |
| `StateTables` | `domain/state.py` | the guards of `Stock` and `Refund` |
| `MCExecutor`, `MCApproval`, `MCSaga`, `MCFleet`, `MCPlanning`, `MCRefund`, `MCStock` | instances for TLC | |
| `ExecutorProofs`, `ApprovalProofs`, `SagaProofs`, `FleetProofs`, `PlanningProofs` (with `Policy` and `PlanRefs`), `RefundProofs`, `StockProofs` | | theorems about the module of that name |
| `SumProofs` | | lemmas about sums over finite sets, for `RefundProofs` and `StockProofs` |

`Executor` implements `WriteOnce` (`KeepsPromise`), and so does the compensating half of
`Saga` (`UndoKeepsPromise`); `Saga` as a whole implements `Rollback` as long as nobody re-runs
a step by hand (`UndoesInOrder`). `Executor` looks at one run very closely and leaves amounts
out; `Fleet` has many runs of one step each; `Planning` and `Refund` have the amounts, the
policy and the registry and one executor per step. Each leaves to the others what they
interleave.

### How state and actions correspond to the code

**Executor, Approval, Saga.** `run` is the committed `agent_run` row: `status`, `owner`
(`lease_owner`), `fresh` (`lease_expires_at` lies in the future), `attempt`, `ckpt`
(`checkpoint_seq`), `marker` (`checkpoint.compensation.status`) and `sigs` (`approvals`). `rows`
are the committed `agent_step` statuses: RUNNING is never committed, because `_open_step` and
`_close_step` or the roll-back share a transaction. `ledger` holds the keys recorded
SUCCEEDED; a record is never committed in another status, since `idempotency.fail` has no
caller. `effects` counts the committed business writes per key, `audits` their SUCCEEDED audit
rows. `pc[p]` is where a process stands between two transactions and `mem[p]` what it has
loaded; `desk` in `Approval` is the copy of the run a person's request holds.

| Code | Actions |
| --- | --- |
| `claim_runs` | `Claim`, `ClaimFailed` (the row is skipped while an inserting step transaction shares it through the foreign key: `RunRowShared`) |
| `_assert_holds_lease`, `_heartbeat_loop` | `AssertHoldsLease`, `Heartbeat`, `HeartbeatRaises` |
| `_drive`, one turn of the loop | `DriveLoad`, `DriveDecide`, then `FinishSucceeded`, `FinishOverBudget`, `WaitForApproval` or a step |
| `_execute_step` | `StepBegin` (load the run), `StepOpen` (lock the step row), `StepClaimKey` (wait for the key), then `StepCommit`, `StepRaises` or `StepCommitUnacknowledged` |
| `_record_failure` | `FailLoad`, `FailCommit` |
| `_after_failure` | `AfterFailure`; in `Saga`, `AutoCompensate` and `FailureLeft` |
| `retry_step` | `Retry` (marker), `RetryDeps` (dependencies, verdict), then the step transaction |
| `approve_step` | `ApproveLoad`, `ApproveCommit` |
| `compensate`, `_compensate_locked` | `CompensateRequested`, `CompensationPlan`, `CompensationRefused`, `CompensateStep`, `CompensationRaises`, `CompensationUnacknowledged`, `CompensationFailed`, `CompensationEnds` |
| SIGKILL, the clock | `Crash`, `CompensatorCrashes`, `LeaseLapses`, `LeaseExpires` |

**Fleet.** `runs` is the table in the order of creation; a run has one step, so `row` is its
step row and `written` its business write. What kind of run it is says what the gate makes
of it (`free`, `gated`, `denied`). `answer` is what a direct call was told.

| Code | Actions |
| --- | --- |
| `create_run`, `POST /runs` | `Submit` |
| `invoke_tool` (`routes/tools.py`) | `Create`, `ClaimOwn`, then the driver, then `Reply` of its outcome |
| `POST /runs/{uid}/execute` | `ClaimNamed` |
| `claim_runs`, `run_worker` | `ClaimNext` (oldest claimable row not locked, `SKIP LOCKED`) |
| `_drive` .. `_record_failure` | `AssertHoldsLease`, `DriveLoad`, `Finish`, `WaitForApproval`, `StepBegin` .. `FailCommit` |

**Planning.** `draft` is the request at the planner, `run` the registered run, `results` what
succeeded steps have returned, `signed` the number of people who signed a step, `trust` and
`available` what the settings and the order say at the moment. `call` is what the driver holds
between the gate and the step's transaction: the step, its resolved arguments, and the amount the
gate judged it by. The gate asks for that amount in a session of its own, the tool works it out
again from the order (`Requested`), and settings and order may change in between.

| Code | Actions |
| --- | --- |
| `deterministic.draft` | `DraftByRules` |
| `LLMPlanner.draft`, `_validate_plan`, `_validate_step` | `Ask`, `Reply` |
| `finalize` | in `Announce`, the end of both |
| `create`, `create_run` | `CreateFromDraft`, `CreateFromSteps` |
| `_drive` with `_judge` and `_resolve_amount` | `Finish`, `Refuse`, `Suspend`, `PassGate` |
| `_execute_step` with the tool, `request_refund` | `Perform` (with `Moves`: what it does to the quota), `Fail` |
| `approve_step` | `Approve` |
| another configuration, other requests | `Reconfigure`, `Drift` |

**Refund.** `order`, `tickets` and `ledger` are committed rows; `desk` is what the executor of a
step has read so far, `closing` the ticket object `close_ticket` has in its session.

| Code | Actions |
| --- | --- |
| `query_refundable` | `QueryBegin`, `Query` (two statements) |
| the gate with `available_refund_cents` | `GateNamed`, `GateBegin`, `GateOmitted`; `Retry` goes around it |
| `create_refund`, `request_refund`, ledger, commit | `LoadOrder`, `ReadRefunded`, `ReadPending`, `Insert` |
| approve, reject, execute, close of the service | `Handle` |
| tool `close_ticket` | `CloseLoad`, `CloseWrite` |

**Stock.** `orders` and `stock` are committed rows; `txn` the open transaction of a client with
the order lines it has still to lock.

| Code | Actions |
| --- | --- |
| `create_order`, `_reserve_stock` | `Place`, `Reserve`, `Refuse`, `Commit` |
| `ship_order`, `cancel_order` | `Start`, `TakeLine`, `Commit` |
| `pay_order`, `complete_order`, `update_address` | `Move`, `UpdateAddress` |
| PostgreSQL | `Victim` (deadlock detector), `ClientLost` |

Abstractions, each with its reason:

- In `Executor` two steps are told apart by their ledger key only (`KeyOf`); what amounts decide
  is `Need` (signatures) and `Refused` (denied, or references that do not resolve). `$ref` values
  do not change between two tries there; where they do, it is `Refund`.
- `_assert_deps_done` never fails inside `_drive`: `NothingIsMissing` (`Planning`, proved) says why.
  It is modelled where it can fail, in a retry.
- Time is the bit `fresh`. Back-off and lease length only decide when a lease runs out, which may
  be at any moment.
- `attempt` saturates at `MaxRetries`, the only value it is compared with.
- A transaction that only loads and writes the run row (`_finish`, `_wait_for_approval`) is one
  action; one that can wait for another in between (step, failure) is split where it waits.
- A step transaction of a compensation is one action: its row and its key belong to compensation
  alone, so whoever comes second waits for the first and sees the outcome.
- In `Saga` people approve outside the picture (`Need` is 0), in `Approval` nothing is compensated.
- In `Stock` a row is locked before it is read, so an uncommitted transaction is its list of
  lines still to lock; its changes are applied at the commit. Prices, customers and the
  `version` column (incremented, never compared) are left out.
- In `Refund` the SELECTs are statements of their own at READ COMMITTED; the signatures a gated
  run ends up with are the least that let it through. Reason codes and order items are
  compared with constants and left out. `signed`, `by`, `calm`, `exact` are history: no guard
  reads them.
- In `Planning` a sentence is what the regular expressions find in it, a model's reply is an
  error, a text that is no plan, or any steps; a reference is well formed, ill formed or no
  string at all. The texts around them are left out.

## 3. Runs

| Run | Instance | Shows |
| --- | --- | --- |
| `ExecutorFull` | 2 workers, 1 retry request, 2 dependent writes, 1 mishap, 2 tries | `TypeOK`, `ExactlyOnce`, `AtomicRecord`, `RowsVouched`, `SucceededIsComplete`, `CheckpointBacked`, `LeaseKept`, `KeepsPromise` |
| `ExecutorLive` | 2 workers, 3 steps (one read-only), budget 2, 3 mishaps | `WithinLimits`, `Settles` |
| `ExecutorRetryLive` | 1 inline execution, 1 retry request, both as `api-inline`, 2 steps with one key, the second waiting for a signature that only a retry makes up for, 1 mishap | `ExactlyOnce`, `Settles` with people re-running steps, `LeaseKept` among namesakes |
| `ApprovalGate` | 2 workers, 5 people (two of one role, one of another, the actor, a machine), 1 step that needs 2 signatures, 1 mishap | `GateHolds`, `DistinctRoles` |
| `SagaAuto` | 1 worker in mode auto, 2 requests, 4 writes of which the third cannot be undone and the fourth is denied, undoing the first needs a person, 2 mishaps (crashes, lapses, lost acknowledgements of an undo) | `CompensatedIsClean`, `UndoneNotDriven`, `FailClosed`, `UndoKeepsPromise`, `UndoesInOrder` |
| `FleetLive` | 1 worker, 1 execute request, 1 direct call, 2 runs of which the younger is stopped at the gate, 2 tries, 1 mishap | `OneDriver`, `AnsweredTruly`, `RunsSettle` |
| `PlanLife` | both planners, 9 kinds of sentences, 22 replies of which 14 are plans with something wrong, 22 submitted plans, 2 repairs, 4 trust levels, 3 amounts | `PlanningTypeOK`, `AnnouncedIsUsable`, `NothingIsMissing`, `SignedForWhatItMoves`, `DraftEnds` |
| `RefundDesk` | 2 refund steps with every kind of amount, 1 caller of `close_ticket`, order of 2, 2 tickets | `RefundTypeOK`, `QuotaOfUndisturbed`, `GatedIfCalm`, `OneTicketPerStep` |
| `StockFull` | 2 clients, 3 orders: two with the same two products in opposite order, one with a product twice; one piece short for all | `StockTypeOK`, `BooksBalance`, `NeverRefusedByCheck`, `DeadlockNeedsTwoRows`, `DecisionStands`, `AddressSettled`, `TransactionsEnd` |
| `ClaimNoReplay` | 1 worker, 1 request, 1 retry request, 2 writes | violated, see below |
| `ClaimQuota` | as `RefundDesk` | violated, see below |
| `ClaimTicketTable` | as `RefundDesk` | violated, see below |

Why these bounds are enough for the cases meant. An executor's next step depends on the
completed prefix of the plan only, so two steps give every order of "this step, another step, a
retry of an earlier one"; four are used where a budget, a blocker and a refused step have to
meet. `MaxMishaps` bounds crashes, heartbeats that raise, lost acknowledgements and leases that
lapse under a live holder; leases of holders that are gone run out without being counted, and
tools fail as often as they like. `FleetLive` needs an older and a younger run for the order of
claiming, and one executor of each kind for the shared worker_ids. In `RefundDesk` two requests
suffice for a stale read, an order of two for one refund to exhaust it and two not to
(about 2.5 million states). In `StockFull` two transactions deadlock, and the third order makes
a product run short and locks one row twice. The safety properties do not rest on
these bounds: every one of them is proved (section 5), some of them under
conditions on who acts that the runs meet too. What the bounds limit is liveness.

`SagaAuto` has no retry request and loses no acknowledgement of a step (`LostAcks` is FALSE; those of
undos it does lose): with either, `CompensatedIsClean` and `UndoesInOrder` are false
(`ClaimNoReplay`, and in section 4 the try that fails after another one has written). What keeps
holding with both is proved (`CompensationBreaksNothing`, `UndoneExactlyOnce`). `FirstConfirmed` is a
registry in which undoing the first write needs a person; with the shipped one, where all
compensations are `close_ticket`, no undo is refused after another has been done. `ExecutorFull` gives
every process a worker_id of its own, `ExecutorRetryLive` gives both the one of the API; with all
three processes and shared names the first is twice as large and shows nothing else.

In `PlanLife` some plans leave the amount of a refund to the tool, some name it and some refer to it;
`Drift` moves the quota between the announcement, the gate and the tool, down below what was judged
and up beyond the limit. `SignedForWhatItMoves` excepts one case, an amount left to the tool that has
grown since the gate asked (`Outgrown`): it is needed (section 4), and the first half of the property
is all it lifts: a step the plan marks for approval is signed, and an unsigned one was announced as
allowed, all the same.

Symmetry is used for
workers, requests and steps in runs without liveness properties; the runs that turn deadlock
checking off are those in which the system may really come to rest (nobody is left who may act
on a terminal run; every order is shipped or cancelled; no ticket may be added).

Every property has a mutant: a definition written next to the one it replaces
(`StepClaimKeyBlind`, `UndoBlind`, `OrderUnlocked`, ...) that changes it as a plausible bug would,
under which TLC finds the property violated in the same instance.

### What the code says and does not keep

| Run | Sentence | Counterexample |
| --- | --- | --- |
| `ClaimNoReplay` | `README.md:226`, no replay after an undo | a retry passes its check, compensation undoes, the retry commits |
| `ClaimQuota` | `services/aftersales.py:43`, asking takes up the quota at once, so repeated requests cannot exceed it | two requests read the quota before either commits, and both get a ticket |
| `ClaimTicketTable` | `domain/state.py:24`, PENDING, APPROVED, REFUNDED, or PENDING, REJECTED / CLOSED; `tools/aftersales.py:220`, `close_ticket` wants a PENDING ticket | the tool loads the ticket while PENDING and keeps the object (`tools/aftersales.py:229`); it is approved and paid; the locked read does not refresh the object, the check passes, and CLOSED replaces REFUNDED |

`QuotaOfUndisturbed` says that this is all: a request that neither missed a payout between its
two reads nor a ticket before its own commit never takes more than there is.

### Fairness

- `Fairness` (`Settles`): a worker that can claim eventually does (it polls for ever,
  `run_worker`), a live process finishes what it has begun, a transaction waiting for a lock gets
  it when its holder ends (PostgreSQL queues lock waiters), and a lease without a live owner runs
  out (the clock). Weak fairness is enough because each of these stays enabled.
- `FleetFairness` (`RunsSettle`): the same for every worker, driver and lease. Nobody has to press
  "execute", to call or to sign.
- `PlanningFairness` (`DraftEnds`): a call of the model is answered or its timeout passes.
- `StockFairness` (`TransactionsEnd`): strong fairness of a transaction's next step, because a row
  lock is handed to its waiters in turn although others may take it in between; weak fairness of
  the deadlock detector. A client may be lost at any time and need never place an order.

Nothing is assumed of heartbeats, approvals, retries or mishaps, and a tool may fail every time.
Settled means: neither PENDING nor RUNNING. That a suspended run is eventually signed is nobody's
obligation.

## 4. Met on the way

Read off the code and seen in the models; no run claims them, because the repository promises
nothing to the contrary in so many words, or because what it promises is kept in a weaker sense.

- A step that loaded its run before it became terminal turns it back to RUNNING
  (`executor.py:1000`): a retry loads the run while PENDING, a worker ends it, the retry commits.
- All API requests share the worker_id `api-inline` (`runs.py:42`): a failing retry releases the
  lease of the inline execution it overlaps, although `release` says one cannot release for others
  (`lease.py:103`), which it keeps for worker_ids. `LeaseKept` says that this is all: nobody but a
  namesake that is done with the run or fails on it, whatever the names are.
- A refund that leaves its amount out is judged by what the order has left when the gate asks
  (`executor.py:741`, a session of its own) and takes what it has left when the tool asks
  (`services/aftersales.py:57-75`): a posted plan of an L4 actor, small at the gate, moves more than
  the limit with nobody's signature when a ticket is closed in between. `registry.py:156` speaks of
  the amount the call really moves. `SignedForWhatItMoves` excepts this case and no other; without
  the exception TLC refutes it in five states. The planner never leaves the exception open for
  good plans that query first: a referred amount is an argument, and judged as it is used.
- A compensation refused by the policy comes up only when its turn does (`executor.py:490`): the later
  writes are undone by then, and the run is left undone in part as NEEDS_APPROVAL or BLOCKED.
  `README.md:214-216` promises that such a plan is not executed at all, and so does the comment at
  `executor.py:505`. It takes two compensating tools that the policy treats differently, which the
  shipped registry does not have; `SagaAuto` has them and shows what stands all the same.
- An approval that lands between the loop head and `_wait_for_approval` (`executor.py:1089`) leaves
  the run WAITING_APPROVAL although all have signed; a repeated approval returns early.
- Two approvals that load the run together overwrite each other's signature (`runs.py:312`).
  `DistinctRoles` and `GateHolds` stand all the same.
- A later try that fails turns a step's row FAILED and hides its write from the compensation plan
  (`executor.py:1027`, `:655`); the run ends NOTHING_TO_ROLLBACK with the write in place.
- Two writes of a plan with the same tool and arguments share a ledger key, and so do their
  compensations: with another write between them the first is undone before the one after it.
  The shipped compensations do not depend on their order.
- `checkpoint_seq` can go backwards (`executor.py:989`); recovery reads step rows, so nothing is
  lost. An exhausted infrastructure failure is re-raised past `_after_failure`
  (`executor.py:861`), so mode auto compensates nothing. A failing compensation gives its lease
  back before it has written PARTIAL. A worker that was overtaken suspends the run under the
  lease of the other.
- The rule planner drafts `query_logistics` with `order_no` (`deterministic.py:118`), the tool wants
  `order_id`: such a run always fails.
- `llm.py:244` takes `order_no` out where the tool has *no* `order_id`, the comment above it says the
  opposite; `close_ticket` without references is given an `order_id` it does not take and is never
  accepted.
- A `$ref` that is not a string raises `PlanError` outside the `try` of the repair loop
  (`llm.py:250`): the request ends instead of being repaired.
- A response_format fallback is announced (`llm.py:123-129`) but cannot be reached.
- Roles configured as `supervisor-01=supervisor` never match the actor `human:supervisor-01`
  (`deps.py:26-32`, `policy.py:210`): everybody is then a role of their own.
- What an order has left to refund moves between two signatures (`runs.py:288`, `:317`): a run
  whose need falls to what it has collected waits for somebody else to sign.
- A direct call is told "busy" when a worker claims its fresh run first (`routes/tools.py:107`),
  though the call is then done; repeated, it is another run with another key. A denial is
  answered as "no result", without its reason.

## 5. Proofs

For all values of the constants, from the named assumptions on them only.

`ExecutorProofs` (any plan, keys, dependencies, workers, retry requests, mishaps):
`TypeCorrect`, `WritesExactlyOnce`, `RecordsAtomic`, `RowsAreVouched`, `SucceededComplete`,
`CheckpointIsBacked`; `ExecutorKeepsPromise`: `Spec` implements `WriteOnce`; `LeaseNotTaken`,
for every way of naming the processes. The invariants are not inductive: that a commit writes only when the key is
absent depends on what the process remembered of the ledger, on the ledger not having changed
since, and on the dependencies it checked a transaction earlier still standing in the ledger
although a retry may have turned their rows FAILED. `IInv` adds that: `Located` (what a control
point implies about the step in memory) and, in `Safe`, `LedgerSeen`, `KeyExclusive` (no two
processes hold one key), `DepsBacked`, `FinishBacked` and `LoadedBacked` (dependencies, completed
plan and loaded checkpoint are backed by the ledger, which only grows). The refinement follows
from `IInv`: only a commit moves the tables, and under `LedgerSeen` it is a `Write` of a fresh key or
a stutter.

`WithinLimits` (`LimitsKept`), which speaks of runs left to the workers, needs `Limited` besides: what a
worker has in hand was within the budget and allowed when it took it in hand. That is enough for
two drivers that count the completed steps at different moments, because a step keeps its place in
the plan.

`ApprovalProofs` (any number of people and roles besides): `ApprovalTypeCorrect`,
`GateIsNeverPassed`, `RolesDistinct`, and `PeopleBreakNothing`: the executor's invariants stand while
people sign. `AInv` is `IInv` with: every copy of the signatures (in the row, with a worker, with a
person) is `Genuine` - its signatures were committed and are of different roles; everybody who
signed was `Entitled`; a worker past the gate still holds the copy it counted (`PastGate`). As a
signature may be overwritten, the copies need not grow; that they are genuine is what is left,
and enough. Counting roles instead of people needs an injection (`AsManyRoles`).

`FleetProofs` (any number of runs, workers, requests, calls, whoever shares a worker_id):
`FleetTypeCorrect`, `OneDriverOnly`, `AnswersAreTrue`. The invariant says of every driver that it is
`Sound` with respect to its run (unless the lease lapsed it owns the lease, the run is RUNNING, and
a failure it is about to record is of an unwritten step) and that two drivers of one run are the
same or the run has lapsed.

`SagaProofs` (any number of requests and workers that compensate, any plan). Without any condition,
so with people re-running steps, lost acknowledgements and several workers:
`CompensationBreaksNothing` (the executor's invariants stand) and `UndoneExactlyOnce`: compensation
implements `WriteOnce` (`CInv`: what was undone is what the ledger of the undos says, once). The
rest is false in general and holds under conditions, each of which the `SagaAuto` run meets:

| Theorem | `SoleDriver`: one worker, nobody re-runs a step | `~LostAcks`: step commits are acknowledged | of the keys |
| --- | --- | --- | --- |
| `UndoneIsNotDriven` | yes | | |
| `CompensatedLeavesNothing` | yes | yes | |
| `FailsClosed` | yes | yes | `SharedFate`: steps with one key can both be undone or neither |
| `UndoneInOrder` | yes | yes | `KeysInOrder`: writes with one key follow one another |

TLC refutes each without each of its conditions. With a second driver a step loaded before the run
was terminal turns it back to RUNNING, or a stale one ends it SUCCEEDED, and a retry writes after
an undo (`ClaimNoReplay`, section 4). With a step's acknowledgement lost its row ends FAILED although the
write stands, and is not planned for. `SharedFate` is what the code provides: a key is the hash of
the run, the tool and the arguments (`idempotency.py:64`), and the result is the recorded one.
`SInv` adds to `CInv` that nobody drives a run that may be compensated (`Parked`); `TInv` that what a
driver has in hand has not succeeded yet (`Untried`), so that the rows name every write there is
(`Named`), that a compensator has the rest of them in hand (`PlanHolds`), and that only what was
done is undone, all of it or nothing (`AllOrNothing`). `TInv` gives `UndoneInOrder`, the refinement
of `Rollback`, step by step.

`PlanningProofs`, of the policy engine: `EvaluateIsTable` (the code decides what the table in its own
doc says), `AutonomyIsEarned`, `TrustOnlyLoosens`, `LargerIsNotLooser`, `BothCountAlike` (gate and
approval route need the same number of signatures), `DeclaredToolsAreWeighedByAmount`. Of plans:
`ValidPlansRunThrough` (validate accepts exactly the plans that run through in the order of their
numbers), `NextStepHasItsNeeds`, `NoPlaceholderIsJudged`. Of `Planning`, for any sentences, replies,
submitted plans, settings and amounts: `PlanningTypeCorrect`, `AnnouncedAlwaysUsable`,
`NothingIsEverMissing` (by `NextStepHasItsNeeds`; that there is a next step is well-foundedness of
the naturals), `AlwaysSignedForWhatItMoves`. `PInv` says that an announced or registered plan is
`Vetted`: it validates, and a step not marked for approval was shown as allowed. `CallInv` says of what
the driver holds that the gate let these arguments and this amount go, under the trust and the
signatures of the moment: a restart, which alone changes the trust, takes the call with it, and
signatures only grow. What the tool then moves is the named amount, which the gate judged, or one it
works out itself, no larger than the one judged unless it has outgrown it; and a smaller amount
is never judged more strictly (`LargerIsNotLooser`).

`StockProofs` (any number of clients, orders, lines, products): `DecisionsStand`,
`DeadlocksNeedTwoRows`, `AddressesSettled` from `LockInv`: an order is in the hands of one
transaction, which has found it as it is (`Found`), an inventory row is locked by one, and a
transaction has only lines of its order left to lock. `BooksAlwaysBalance`, `ChecksNeverRefuse` and
`StockTypeCorrect` from `LockInv` with `BookInv`: the CHECKs hold, the books balance, only what can be
ordered is ordered, and what a transaction has taken so far is still on the shelf for it
(`StillThere`), although others take from the same rows as soon as it commits.

`RefundProofs` (any number of refund steps, callers, tickets and amounts): `QuotaKeptUndisturbed`,
`GateJudgedIt`, `OneTicketOnly`, `RefundTypeCorrect`. `RInv` says of each request,
statement by statement, what it may still rely on: that its arguments are those of its plan and
have not succeeded before (`Asked`), that the judgement of the gate is still about what it will
claim unless somebody moved a ticket (`Judged`), that what it has read of the quota is not too little
unless it missed something (`InQuota`); and that the ledger knows every ticket (`Recorded`).

`SumProofs`. What is reserved, owed or claimed is a sum over a set, `SumFunctionOnSet` of the
community modules, whose definition is recursive. The provers cannot instantiate the induction
theorems of the library, which take an operator, so every fact is shown by a smallest
counterexample: among the sets on which a fact fails one has fewest elements (`Fewest`, by the
well-foundedness of < on the naturals), and the sets one element smaller refute it. First that
there is exactly one function that adds up (`AddsUpOnce`, `AddsUpSomehow`), hence `SumStep`; then
sums with an element less, more or changed, and of two sets that do not meet.

Assumed of the constants: `PlanAssumption`, `ProcAssumption`, `SagaAssumption`, `ApprovalAssumption`
(finitely many people), `FleetAssumption`, `PolicyAssumption`, `PlanningAssumption` (steps have the
fields their schema demands), `RefundAssumption`, `StockAssumption` (finitely many orders). TLC
evaluates each of them in the runs.

Only model-checked: everything under fairness (`Settles`, `RunsSettle`, `DraftEnds`,
`TransactionsEnd`), which is out of the prover's reach. Every invariant and every safety property
of the passing runs is proved.

## 6. Plan

1. `Saga` without one of its conditions, with a weaker claim: what remains of `CompensatedIsClean`
   when an acknowledgement is lost (the writes left are those whose row a later try turned
   FAILED), and of `UndoneNotDriven` when a second worker has been overtaken.
2. A run life-cycle specification (which status changes a reader of the run may see) that
   `Executor`, `Approval`, `Saga` and `Fleet` are shown to implement, with the known exceptions of
   section 4 named.
3. A property for a late approval that writes PENDING over a run that has moved on, once the
   lost signature is treated.

## 7. Not modelled

- Login sessions (`auth/`): create, load, revoke and expiry of one row by its own key, each a single
  statement; the rest of the system reads them for the caller's name only.
- The append-only trigger of the audit table: DDL. That audit rows are written in the step
  transaction is modelled.
- The logistics stub, read and health routes: queries without state.
- Database set-up, configuration, start-up: wiring; what PostgreSQL guarantees (READ COMMITTED, row
  locks, deadlock detection) is built into the actions.
- Migrations, seeds and demos; the web console and the generated contracts.
- Text, prompts, logging and rendering; pydantic's coercions.

Exceptions between two transactions (a database that is gone, a settings error) end a process as
`Crash` does.
