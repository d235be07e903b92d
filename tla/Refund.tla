------------------------------- MODULE Refund -------------------------------
(***************************************************************************)
(* Refunds of one order (services/aftersales.py, tools/aftersales.py, the    *)
(* ticket routes), asked for by steps of runs: the approval gate in front    *)
(* of the step (executor.py, policy.py), the tool, its ledger entry, and     *)
(* the people who handle the tickets meanwhile.                             *)
(*                                                                         *)
(* A planned create_refund step names an amount, leaves it out (all that is  *)
(* refundable) or refers to what an earlier query_refundable step returned.  *)
(* No row of the order is locked and every SELECT is a statement of its own  *)
(* at READ COMMITTED, so what is refunded and what is pending are read at    *)
(* two moments, at the gate and again in the tool; `desk` is what a step     *)
(* has read so far.  Ticket routes lock the ticket and are one action; the   *)
(* close_ticket tool loads it without a lock first, keeps the object and     *)
(* is not shown the row it then locks, so it is two.                        *)
(*                                                                         *)
(* `signed`, `by`, `calm` and `exact` (of a desk and of its ticket) are       *)
(* history: no guard reads them.  Reason codes, order items and texts are    *)
(* left out: they are checked against constants and refused.                *)
(***************************************************************************)
EXTENDS Registry, Functions, StateTables

CONSTANTS
  Steps,       \* planned create_refund steps, each driven by one executor at a time
  Closers,     \* callers of the close_ticket tool
  Total,       \* order.total_amount_cents
  Amounts,     \* amounts a plan may name
  Trust,       \* trust level of the agent
  MaxTickets,  \* bound on the tickets of the order
  Referred,    \* arguments with a $ref for the amount
  Unknown      \* no result yet

ASSUME RefundAssumption ==
  /\ Total \in Nat /\ Amounts \subseteq Nat \ {0} /\ MaxTickets \in Nat
  /\ Trust \in TrustLevel
  /\ Referred \notin Int /\ Unknown \notin Int /\ Cardinality({None, Referred, Unknown}) = 3

VARIABLES
  order,    \* the committed status of the order
  tickets,  \* committed tickets, in the order of their insertion
  plan,     \* step -> the amount its arguments name, None or Referred
  result,   \* step -> result of the query step it refers to
  ledger,   \* step -> arguments recorded SUCCEEDED in the idempotency ledger
  desk,     \* step -> what its executor has read
  closing   \* caller of close_ticket -> the ticket it has loaded

refundVars == <<order, tickets, plan, result, ledger, desk, closing>>

Resting == [at |-> "idle", refunded |-> 0, ask |-> Unknown, signed |-> 0,
            by |-> "gate", calm |-> TRUE, exact |-> TRUE]
NoTicket == 0

REFUNDABLE_ORDER_STATUSES == {"PAID", "SHIPPED", "COMPLETED"}
PENDING_REFUND_STATUSES == {"PENDING", "APPROVED"}

Ask == Int \cup {None, Unknown}
At == {"idle", "gate", "query", "load", "refunded", "pending", "insert"}

RefundTypeOK ==
  /\ order \in OrderStatus
  /\ tickets \in Seq([status : TicketStatus, amount : Nat \ {0}, step : Steps, signed : 0..2, by : {"gate", "retry"}, calm : BOOLEAN, exact : BOOLEAN])
  /\ plan \in [Steps -> Amounts \cup {None, Referred}]
  /\ result \in [Steps -> Int \cup {Unknown}]
  /\ ledger \in [Steps -> SUBSET Ask]
  /\ desk \in [Steps -> [at : At, refunded : Nat, ask : Ask, signed : 0..2,
                         by : {"gate", "retry"}, calm : BOOLEAN, exact : BOOLEAN]]
  /\ closing \in [Closers -> Nat]

RefundInit ==
  /\ order = "CREATED"
  /\ tickets = <<>>
  /\ plan \in [Steps -> Amounts \cup {None, Referred}]
  /\ result = [s \in Steps |-> Unknown]
  /\ ledger = [s \in Steps |-> {}]
  /\ desk = [s \in Steps |-> Resting]
  /\ closing = [c \in Closers |-> NoTicket]

-----------------------------------------------------------------------------
(* Queries. *)
Sum(statuses) ==
  SumFunctionOnSet([t \in DOMAIN tickets |-> tickets[t].amount],
                   {t \in DOMAIN tickets : tickets[t].status \in statuses})

refunded_cents == Sum({"REFUNDED"})

(* Mutation: approved tickets no longer take up quota. *)
OnlyPending == Sum({"PENDING"})

pending_refund_cents == Sum(PENDING_REFUND_STATUSES)

(* Signatures a refund of this amount needs. *)
Needed(amount) == SignaturesFor(CreateRefund, Trust, amount, None)

(* What the arguments of a step are once references are resolved. *)
Resolved(s) == IF plan[s] = Referred THEN result[s] ELSE plan[s]

(* History: what a change of the tickets means for what others have read.    *)
Disturbed(s, blind) ==
  [r \in Steps |->
    IF r = s THEN Resting
    ELSE IF desk[r].at \in {"idle", "query"} THEN desk[r]
    ELSE [desk[r] EXCEPT !.calm = @ /\ desk[r].ask # None /\ desk[r].at # "gate",
                         !.exact = @ /\ desk[r].at \notin blind]]

-----------------------------------------------------------------------------
(* query_refundable, run or run again as the step before s. *)
QueryBegin(s) ==
  /\ plan[s] = Referred /\ desk[s].at = "idle"
  /\ desk' = [desk EXCEPT ![s] = [Resting EXCEPT !.at = "query", !.refunded = refunded_cents]]
  /\ UNCHANGED <<order, tickets, plan, result, ledger, closing>>

Query(s) ==
  /\ desk[s].at = "query"
  /\ result' = [result EXCEPT ![s] = Total - desk[s].refunded - pending_refund_cents]
  /\ desk' = [desk EXCEPT ![s] = Resting]
  /\ UNCHANGED <<order, tickets, plan, ledger, closing>>

(* The gate.  A named amount is judged as it is; for one left out the tool   *)
(* is asked, in a session of its own (available_refund_cents).  The run waits *)
(* until people have signed and is judged anew; when it goes on it has at     *)
(* least the signatures needed, and to have no more is the worst case.       *)
Passes(s, args, signatures) ==
  desk' = [desk EXCEPT ![s] = [@ EXCEPT !.at = "load", !.ask = args, !.signed = signatures]]

(* Mutation: an amount that is not in the arguments counts as nothing. *)
JudgeArguments(s, args, answer) == Passes(s, args, Needed(IF args = None THEN 0 ELSE args))

Judge(s, args, answer) ==
  LET amount == GateAmount(CreateRefund, args, answer)
  IN  /\ Evaluate(CreateRefund, Trust, args, amount) # "DENY"
      /\ Passes(s, args, SignaturesFor(CreateRefund, Trust, args, amount))

GateNamed(s) ==
  /\ desk[s].at = "idle" /\ plan[s] # None /\ Resolved(s) # Unknown
  /\ Judge(s, Resolved(s), None)
  /\ UNCHANGED <<order, tickets, plan, result, ledger, closing>>

GateBegin(s) ==
  /\ desk[s].at = "idle" /\ plan[s] = None
  /\ desk' = [desk EXCEPT ![s] = [Resting EXCEPT !.at = "gate", !.refunded = refunded_cents]]
  /\ UNCHANGED <<order, tickets, plan, result, ledger, closing>>

GateOmitted(s) ==
  /\ desk[s].at = "gate"
  /\ Judge(s, None, Total - desk[s].refunded - pending_refund_cents)
  /\ UNCHANGED <<order, tickets, plan, result, ledger, closing>>

(* retry_step: the request counts as the confirmation, nobody signs; what    *)
(* the policy denies on the arguments alone stays denied. *)
Retry(s) ==
  /\ desk[s].at = "idle" /\ Resolved(s) # Unknown
  /\ Evaluate(CreateRefund, Trust, Resolved(s), None) # "DENY"
  /\ desk' = [desk EXCEPT ![s] = [Resting EXCEPT !.at = "load", !.ask = Resolved(s), !.by = "retry"]]
  /\ UNCHANGED <<order, tickets, plan, result, ledger, closing>>

-----------------------------------------------------------------------------
(* The step transaction. *)

(* Mutation: the ledger is not asked. *)
NeverDone(s) == desk[s].ask = Unknown

(* idempotency.claim: the same arguments have succeeded before. *)
Done(s) == desk[s].ask \in ledger[s]

Refundable == order \in REFUNDABLE_ORDER_STATUSES

(* The ledger, then load_order; request_refund meets the same object, so the *)
(* status it checks is this one. *)
LoadOrder(s) ==
  /\ desk[s].at = "load"
  /\ desk' = [desk EXCEPT ![s] =
       IF Done(s) \/ ~Refundable THEN Resting ELSE [@ EXCEPT !.at = "refunded"]]
  /\ UNCHANGED <<order, tickets, plan, result, ledger, closing>>

ReadRefunded(s) ==
  /\ desk[s].at = "refunded"
  /\ desk' = [desk EXCEPT ![s] = [@ EXCEPT !.at = "pending", !.refunded = refunded_cents]]
  /\ UNCHANGED <<order, tickets, plan, result, ledger, closing>>

(* Mutation: the sign of the amount is not looked at. *)
AnySign(requested, refundable, available) == 0 < available /\ requested <= available

(* request_refund: something is left, and no more than that is asked for.    *)
Granted(requested, refundable, available) ==
  0 < available /\ 0 < requested /\ requested <= available

ReadPending(s) ==
  /\ desk[s].at = "pending"
  /\ LET refundable == Total - desk[s].refunded
         requested == IF desk[s].ask = None THEN refundable ELSE desk[s].ask
     IN  desk' = [desk EXCEPT ![s] =
           IF Granted(requested, refundable, refundable - pending_refund_cents)
             THEN [@ EXCEPT !.at = "insert", !.refunded = requested] ELSE Resting]
  /\ UNCHANGED <<order, tickets, plan, result, ledger, closing>>

(* The commit: ticket and ledger entry together. *)
Insert(s) ==
  /\ desk[s].at = "insert" /\ Len(tickets) < MaxTickets
  /\ tickets' = Append(tickets,
       [status |-> "PENDING", amount |-> desk[s].refunded, step |-> s, signed |-> desk[s].signed, by |-> desk[s].by, calm |-> desk[s].calm, exact |-> desk[s].exact])
  /\ ledger' = [ledger EXCEPT ![s] = @ \cup {desk[s].ask}]
  /\ desk' = Disturbed(s, {"insert"})
  /\ UNCHANGED <<order, plan, result, closing>>

-----------------------------------------------------------------------------
(* People and callers at the tickets and the order. *)

(* approve_ticket, reject_ticket, execute_refund, close_ticket of the        *)
(* service: lock, ask the table, write. *)
Handle(t, target) ==
  /\ CanTransition(tickets[t].status, target, TICKET_TRANSITIONS)
  /\ tickets' = [tickets EXCEPT ![t].status = target]
  /\ desk' = Disturbed(0, IF target = "REFUNDED" THEN {"pending"} ELSE {})
  /\ UNCHANGED <<order, plan, result, ledger, closing>>

(* The tool close_ticket: the transition is checked on the object loaded     *)
(* first, the row is overwritten. *)
CloseLoad(c, t) ==
  /\ closing[c] = NoTicket
  /\ CanTransition(tickets[t].status, "CLOSED", TICKET_TRANSITIONS)
  /\ closing' = [closing EXCEPT ![c] = t]
  /\ UNCHANGED <<order, tickets, plan, result, ledger, desk>>

CloseWrite(c) ==
  /\ closing[c] # NoTicket
  /\ tickets' = [tickets EXCEPT ![closing[c]].status = "CLOSED"]
  /\ closing' = [closing EXCEPT ![c] = NoTicket]
  /\ desk' = Disturbed(0, {})
  /\ UNCHANGED <<order, plan, result, ledger>>

(* The routes of the order; what they do to the stock is in module Stock. *)
MoveOrder(target) ==
  /\ CanTransition(order, target, ORDER_TRANSITIONS)
  /\ order' = target
  /\ UNCHANGED <<tickets, plan, result, ledger, desk, closing>>

(* The executor dies or its transaction is rolled back. *)
Abandon(s) ==
  /\ desk[s].at # "idle"
  /\ desk' = [desk EXCEPT ![s] = Resting]
  /\ UNCHANGED <<order, tickets, plan, result, ledger, closing>>

Gate(s) == GateNamed(s) \/ GateBegin(s) \/ GateOmitted(s) \/ Retry(s)
StepTxn(s) == LoadOrder(s) \/ ReadRefunded(s) \/ ReadPending(s) \/ Insert(s) \/ Abandon(s)

RefundNext ==
  \/ \E s \in Steps : QueryBegin(s) \/ Query(s) \/ Gate(s) \/ StepTxn(s)
  \/ \E t \in DOMAIN tickets :
       \/ \E target \in TicketStatus : Handle(t, target)
       \/ \E c \in Closers : CloseLoad(c, t)
  \/ \E c \in Closers : CloseWrite(c)
  \/ \E target \in OrderStatus : MoveOrder(target)

RefundSpec == RefundInit /\ [][RefundNext]_refundVars

-----------------------------------------------------------------------------
Claims(ok(_)) ==
  SumFunctionOnSet([t \in DOMAIN tickets |-> tickets[t].amount],
    {t \in DOMAIN tickets : ok(tickets[t]) /\ tickets[t].status \in PENDING_REFUND_STATUSES \cup {"REFUNDED"}})

(* The quota is exact for every request that was not overtaken: tickets      *)
(* whose request neither missed a payout between its two reads nor a ticket   *)
(* inserted before its own commit never claim more than the order's total.   *)
(* Those two interleavings are all that can break the quota.                *)
QuotaOfUndisturbed == Claims(LAMBDA t : t.exact) <= Total

(* The gate judged the amount that is then claimed: unless the tickets of    *)
(* the order change in between, a refund that passed the gate has the        *)
(* signatures its real amount needs, also when the plan left the amount out  *)
(* and the gate asked the order for it (executor.py: the amount must not be  *)
(* guessed; registry.resolve_effective_amount).                             *)
GatedIfCalm ==
  \A t \in DOMAIN tickets :
    tickets[t].by = "gate" /\ tickets[t].calm => tickets[t].signed >= Needed(tickets[t].amount)

(* However often a step is retried it has one ticket, unless the query it    *)
(* takes its amount from was run again with another result.                 *)
OneTicketPerStep ==
  \A t, u \in DOMAIN tickets :
    t # u /\ tickets[t].step = tickets[u].step
      => plan[tickets[t].step] = Referred /\ tickets[t].amount # tickets[u].amount

-----------------------------------------------------------------------------
(* What the code says and does not keep; each refuted by a run of its own.   *)

(* aftersales.py:43, "asking takes up the quota at once, so that repeated    *)
(* requests cannot exceed it".                                              *)
QuotaKept == Claims(LAMBDA t : TRUE) <= Total

(* domain/state.py:24, "PENDING -> APPROVED -> REFUNDED; or PENDING ->        *)
(* REJECTED / CLOSED": a ticket moves by the table and what has ended stays.  *)
TicketsFollowTheTable ==
  [][\A t \in DOMAIN tickets : tickets'[t].status # tickets[t].status =>
       tickets'[t].status \in TICKET_TRANSITIONS[tickets[t].status]]_refundVars
=============================================================================
