----------------------------- MODULE RefundProofs -----------------------------
(***************************************************************************)
(* Proofs about Refund, for any number of refund steps, callers, tickets and  *)
(* amounts: how far the quota of an order holds, that the gate judged what    *)
(* is then claimed, and that a step has one ticket.                          *)
(***************************************************************************)
EXTENDS Refund, SumProofs

Sources == {"gate", "retry"}
Ticket == [status : TicketStatus, amount : Nat \ {0}, step : Steps, signed : 0..2,
           by : Sources, calm : BOOLEAN, exact : BOOLEAN]
Desk == [at : At, refunded : Nat, ask : Ask, signed : 0..2,
         by : Sources, calm : BOOLEAN, exact : BOOLEAN]
Claiming == PENDING_REFUND_STATUSES \cup {"REFUNDED"}

(* What the tickets of a set add up to. *)
Adds(tk, W) == SumFunctionOnSet([t \in DOMAIN tk |-> tk[t].amount], W)

(* All that the order's tickets claim. *)
Claimed == Adds(tickets, {t \in DOMAIN tickets : tickets[t].status \in Claiming})

(* The arguments of a step in its transaction are those of its plan, and have *)
(* not succeeded before.                                                    *)
Asked(s) ==
  /\ desk[s].at = "gate" => plan[s] = None
  /\ desk[s].at \in {"load", "refunded", "pending", "insert"} =>
       IF plan[s] = Referred THEN desk[s].ask \in Int ELSE desk[s].ask = plan[s]
  /\ desk[s].at \in {"refunded", "pending", "insert"} => desk[s].ask \notin ledger[s]
  /\ desk[s].at = "insert" =>
       desk[s].refunded > 0 /\ (desk[s].ask # None => desk[s].refunded = desk[s].ask)

(* What an undisturbed step was judged by is still what it will claim.       *)
Judged(s) ==
  desk[s].by = "gate" /\ desk[s].calm =>
    /\ desk[s].at = "gate" => desk[s].refunded = refunded_cents
    /\ desk[s].at \in {"load", "refunded", "pending"} =>
         desk[s].signed = Needed(IF desk[s].ask = None
                                   THEN Total - refunded_cents - pending_refund_cents
                                   ELSE desk[s].ask)
    /\ desk[s].at = "pending" /\ desk[s].ask = None => desk[s].refunded = refunded_cents
    /\ desk[s].at = "insert" => desk[s].signed = Needed(desk[s].refunded)

(* What an undisturbed step has read is no less than what is now refunded,    *)
(* and what it is about to claim is left.                                   *)
InQuota(s) ==
  desk[s].exact =>
    /\ desk[s].at = "pending" => refunded_cents <= desk[s].refunded
    /\ desk[s].at = "insert" => desk[s].refunded + Claimed <= Total

(* The ledger remembers what a step has a ticket for.                       *)
Recorded(t) ==
  LET s == tickets[t].step
  IN  (IF plan[s] = Referred THEN tickets[t].amount ELSE plan[s]) \in ledger[s]

RInv ==
  /\ RefundTypeOK
  /\ \A s \in Steps : Asked(s) /\ Judged(s) /\ InQuota(s)
  /\ \A t \in DOMAIN tickets : Recorded(t)
  /\ OneTicketPerStep /\ GatedIfCalm /\ QuotaOfUndisturbed

-----------------------------------------------------------------------------
(* Sums of amounts. *)
LEMMA AddsType ==
  ASSUME NEW tk \in Seq(Ticket), NEW W, W \subseteq DOMAIN tk
  PROVE  /\ IsFiniteSet(W) /\ Adds(tk, W) \in Nat
         /\ \A t \in DOMAIN tk : tk[t] \in Ticket /\ tk[t].amount \in Nat \ {0}
<1>1. Len(tk) \in Nat /\ DOMAIN tk = 1..Len(tk) OBVIOUS
<1>2. IsFiniteSet(W)
  <2>1. IsFiniteSet(1..Len(tk)) BY <1>1, FS_Interval
  <2> QED BY <1>1, <2>1, FS_Subset
<1>3. \A t \in DOMAIN tk : tk[t] \in Ticket BY <1>1
<1>4. \A t \in DOMAIN tk : tk[t].amount \in Nat \ {0} BY <1>3 DEF Ticket
<1> DEFINE f == [t \in DOMAIN tk |-> tk[t].amount]
<1>5. \A t \in W : f[t] \in Nat BY <1>4
<1>6. SumFunctionOnSet(f, W) \in Nat
  <2> HIDE DEF f
  <2> QED BY <1>2, <1>5, SumNat
<1> QED BY <1>2, <1>3, <1>4, <1>6 DEF Adds

LEMMA AddsPart ==
  ASSUME NEW tk \in Seq(Ticket), NEW W, W \subseteq DOMAIN tk, NEW V, V \subseteq W
  PROVE  Adds(tk, V) <= Adds(tk, W)
<1> DEFINE f == [t \in DOMAIN tk |-> tk[t].amount]
<1>1. IsFiniteSet(W) /\ \A t \in W : f[t] \in Nat BY AddsType
<1>2. SumFunctionOnSet(f, V) <= SumFunctionOnSet(f, W)
  <2> HIDE DEF f
  <2> QED BY <1>1, SumPart
<1> QED BY <1>2 DEF Adds

LEMMA AddsBoth ==
  ASSUME NEW tk \in Seq(Ticket), NEW W, W \subseteq DOMAIN tk, NEW V, V \subseteq DOMAIN tk,
         W \cap V = {}
  PROVE  Adds(tk, W \cup V) = Adds(tk, W) + Adds(tk, V)
<1> DEFINE f == [t \in DOMAIN tk |-> tk[t].amount]
<1>1. IsFiniteSet(W) /\ IsFiniteSet(V) BY AddsType
<1>5. \A t \in DOMAIN tk : f[t] \in Int BY AddsType
<1>6. \A t \in W \cup V : f[t] \in Int BY <1>5
<1>2. SumFunctionOnSet(f, W \cup V) = SumFunctionOnSet(f, W) + SumFunctionOnSet(f, V)
  <2> HIDE DEF f
  <2> QED BY <1>1, <1>6, SumDisjoint
<1> QED BY <1>2 DEF Adds

(* A ticket more. *)
LEMMA AddsAppend ==
  ASSUME NEW tk \in Seq(Ticket), NEW x \in Ticket, NEW W, W \subseteq DOMAIN tk
  PROVE  /\ Append(tk, x) \in Seq(Ticket)
         /\ DOMAIN Append(tk, x) = DOMAIN tk \cup {Len(tk) + 1} /\ Len(tk) + 1 \notin DOMAIN tk
         /\ \A t \in DOMAIN tk : Append(tk, x)[t] = tk[t]
         /\ Append(tk, x)[Len(tk) + 1] = x
         /\ Adds(Append(tk, x), W) = Adds(tk, W)
         /\ Adds(Append(tk, x), W \cup {Len(tk) + 1}) = Adds(tk, W) + x.amount
<1> DEFINE n == Len(tk) + 1
           ap == Append(tk, x)
           f == [t \in DOMAIN tk |-> tk[t].amount]
           g == [t \in DOMAIN ap |-> ap[t].amount]
<1>1. /\ ap \in Seq(Ticket) /\ DOMAIN ap = DOMAIN tk \cup {n} /\ n \notin DOMAIN tk
      /\ \A t \in DOMAIN tk : ap[t] = tk[t]
      /\ ap[n] = x
  <2> HIDE DEF Ticket
  <2> QED OBVIOUS
<1>2. IsFiniteSet(W) /\ \A t \in DOMAIN ap : ap[t].amount \in Nat \ {0} BY <1>1, AddsType
<1>3. \A t \in W : f[t] = g[t] BY <1>1
<1>4. SumFunctionOnSet(f, W) = SumFunctionOnSet(g, W)
  <2> HIDE DEF f, g
  <2> QED BY <1>2, <1>3, SumSame
<1>5. n \notin W /\ g[n] = x.amount /\ \A t \in W \cup {n} : g[t] \in Int BY <1>1, <1>2
<1>6. SumFunctionOnSet(g, W \cup {n}) = SumFunctionOnSet(g, W) + g[n]
  <2>1. IsFiniteSet(W) BY <1>2
  <2> HIDE DEF g, n
  <2> QED BY <2>1, <1>5, SumAdd
<1> QED BY <1>1, <1>4, <1>5, <1>6 DEF Adds

(* A ticket in another status is otherwise the same. *)
LEMMA StatusSet ==
  ASSUME NEW tk \in Seq(Ticket), NEW up, NEW t, NEW st \in TicketStatus,
         up = [tk EXCEPT ![t].status = st]
  PROVE  /\ up \in Seq(Ticket) /\ DOMAIN up = DOMAIN tk /\ Len(up) = Len(tk)
         /\ \A u \in DOMAIN tk :
              /\ up[u].status = IF u = t THEN st ELSE tk[u].status
              /\ up[u].amount = tk[u].amount /\ up[u].step = tk[u].step
              /\ up[u].signed = tk[u].signed /\ up[u].by = tk[u].by
              /\ up[u].calm = tk[u].calm /\ up[u].exact = tk[u].exact
<1>1. DOMAIN up = DOMAIN tk /\ DOMAIN tk = 1..Len(tk) /\ Len(tk) \in Nat OBVIOUS
<1>2. \A u \in DOMAIN tk : tk[u] \in Ticket BY AddsType
<1>3. \A u \in DOMAIN tk : up[u] = IF u = t THEN [tk[u] EXCEPT !.status = st] ELSE tk[u]
  OBVIOUS
<1>4. \A u \in DOMAIN tk : up[u] \in Ticket BY <1>2, <1>3 DEF Ticket
<1>5. up = [u \in 1..Len(tk) |-> up[u]] BY <1>1
<1>6. up \in [1..Len(tk) -> Ticket] BY <1>1, <1>4, <1>5
<1>7. up \in Seq(Ticket) /\ Len(up) = Len(tk)
  <2> HIDE DEF Ticket
  <2> QED BY <1>1, <1>6
<1>8. \A u \in DOMAIN tk :
        /\ up[u].status = IF u = t THEN st ELSE tk[u].status
        /\ up[u].amount = tk[u].amount /\ up[u].step = tk[u].step
        /\ up[u].signed = tk[u].signed /\ up[u].by = tk[u].by
        /\ up[u].calm = tk[u].calm /\ up[u].exact = tk[u].exact
  BY <1>2, <1>3 DEF Ticket
<1> QED BY <1>1, <1>7, <1>8

-----------------------------------------------------------------------------
LEMMA Constants ==
  /\ None \notin Int /\ Referred \notin Int /\ Unknown \notin Int
  /\ None # Referred /\ None # Unknown /\ Referred # Unknown
<1>1. None \notin Int /\ Referred \notin Int /\ Unknown \notin Int
  BY PolicyAssumption, RefundAssumption
<1>2. ASSUME NEW a, NEW b, {None, Referred, Unknown} = {a, b} PROVE FALSE
  <2>1. IsFiniteSet({a}) /\ Cardinality({a}) = 1 BY FS_Singleton
  <2>2. Cardinality({a} \cup {b}) = IF b \in {a} THEN 1 ELSE 1 + 1 BY <2>1, FS_AddElement
  <2>3. {a} \cup {b} = {None, Referred, Unknown} BY <1>2
  <2>4. Cardinality({None, Referred, Unknown}) <= 2 BY <2>2, <2>3
  <2> QED BY <2>4, RefundAssumption
<1>3. None # Referred
  <2>1. None = Referred => {None, Referred, Unknown} = {Referred, Unknown} OBVIOUS
  <2> QED BY <1>2, <2>1
<1>4. None # Unknown
  <2>1. None = Unknown => {None, Referred, Unknown} = {Referred, Unknown} OBVIOUS
  <2> QED BY <1>2, <2>1
<1>5. Referred # Unknown
  <2>1. Referred = Unknown => {None, Referred, Unknown} = {None, Unknown} OBVIOUS
  <2> QED BY <1>2, <2>1
<1> QED BY <1>1, <1>3, <1>4, <1>5

(* What is refunded and what is pending make up what is claimed.            *)
LEMMA SumsType ==
  ASSUME tickets \in Seq(Ticket)
  PROVE  /\ refunded_cents \in Nat /\ pending_refund_cents \in Nat /\ Claimed \in Nat
         /\ Claimed = refunded_cents + pending_refund_cents
<1> DEFINE R == {t \in DOMAIN tickets : tickets[t].status \in {"REFUNDED"}}
           P == {t \in DOMAIN tickets : tickets[t].status \in PENDING_REFUND_STATUSES}
           C == {t \in DOMAIN tickets : tickets[t].status \in Claiming}
<1>1. refunded_cents = Adds(tickets, R) /\ pending_refund_cents = Adds(tickets, P)
  BY DEF refunded_cents, pending_refund_cents, Sum, Adds
<1>2. C = R \cup P /\ R \cap P = {} BY DEF Claiming, PENDING_REFUND_STATUSES
<1>3. Adds(tickets, R \cup P) = Adds(tickets, R) + Adds(tickets, P) BY <1>2, AddsBoth
<1>4. Adds(tickets, R) \in Nat /\ Adds(tickets, P) \in Nat BY AddsType
<1>5. Claimed = Adds(tickets, C) BY DEF Claimed
<1> HIDE DEF R, P, C
<1> QED BY <1>1, <1>2, <1>3, <1>4, <1>5

(* Signatures: a known amount counts alike whether it was named or worked out. *)
LEMMA Signatures ==
  ASSUME NEW x \in Int
  PROVE  /\ SignaturesFor(CreateRefund, Trust, None, x) = Needed(x)
         /\ Needed(x) \in 0..2
<1>1. None \notin Int /\ Unreadable \notin Int BY PolicyAssumption
<1>2. AmountOf(CreateRefund, None, x) = x /\ AmountOf(CreateRefund, x, None) = x
  BY <1>1 DEF AmountOf, CreateRefund, ReadOnly, Readable
<1>3. Evaluate(CreateRefund, Trust, None, x) = Evaluate(CreateRefund, Trust, x, None)
  BY <1>2 DEF Evaluate
<1>4. Requirement(CreateRefund, None, x) = Requirement(CreateRefund, x, None)
  BY <1>2 DEF Requirement
<1>5. Requirement(CreateRefund, x, None) \in {1, 2} BY DEF Requirement
<1> QED BY <1>3, <1>4, <1>5 DEF SignaturesFor, Needed

-----------------------------------------------------------------------------
(* The invariant, with its sets named. *)
LEMMA Types ==
  ASSUME RefundTypeOK
  PROVE  /\ tickets \in Seq(Ticket) /\ desk \in [Steps -> Desk]
         /\ plan \in [Steps -> Amounts \cup {None, Referred}]
         /\ result \in [Steps -> Int \cup {Unknown}]
         /\ ledger \in [Steps -> SUBSET Ask] /\ closing \in [Closers -> Nat]
         /\ order \in OrderStatus
BY Zenon DEF RefundTypeOK, Ticket, Desk, Sources

(* What the undisturbed tickets claim. *)
Exacts == {t \in DOMAIN tickets : tickets[t].exact /\ tickets[t].status \in Claiming}

LEMMA ClaimsExact == QuotaOfUndisturbed <=> Adds(tickets, Exacts) <= Total
BY DEF QuotaOfUndisturbed, Claims, Adds, Exacts, Claiming

(* Nothing the invariant says of the tickets changes while they stay.        *)
LEMMA SameTickets ==
  ASSUME tickets' = tickets
  PROVE  /\ refunded_cents' = refunded_cents /\ pending_refund_cents' = pending_refund_cents
         /\ Claimed' = Claimed /\ QuotaOfUndisturbed' = QuotaOfUndisturbed
BY DEF refunded_cents, pending_refund_cents, Sum, Claimed, Adds, QuotaOfUndisturbed, Claims

(* Steps at which the tickets and the ledger stay. *)
LEMMA DeskStep ==
  ASSUME RInv, UNCHANGED <<tickets, plan, ledger>>,
         order' \in OrderStatus, closing' \in [Closers -> Nat],
         result' \in [Steps -> Int \cup {Unknown}], desk' \in [Steps -> Desk],
         \A r \in Steps : desk'[r] = desk[r] \/ (Asked(r)' /\ Judged(r)' /\ InQuota(r)')
  PROVE  RInv'
<1>1. RefundTypeOK' BY Types DEF RInv, RefundTypeOK, Ticket, Desk, Sources
<1>2. ASSUME NEW r \in Steps PROVE Asked(r)' /\ Judged(r)' /\ InQuota(r)'
  <2>1. CASE desk'[r] = desk[r]
    BY <2>1, SameTickets DEF RInv, Asked, Judged, InQuota
  <2> QED BY <2>1
<1>3. \A t \in DOMAIN tickets : Recorded(t)' BY DEF RInv, Recorded
<1>4. OneTicketPerStep' /\ GatedIfCalm' BY DEF RInv, OneTicketPerStep, GatedIfCalm
<1>5. QuotaOfUndisturbed' BY SameTickets DEF RInv
<1> QED BY <1>1, <1>2, <1>3, <1>4, <1>5 DEF RInv

(* The same for one desk. *)
LEMMA OneDesk ==
  ASSUME RInv, NEW s \in Steps, NEW d \in Desk, desk' = [desk EXCEPT ![s] = d],
         UNCHANGED <<order, tickets, plan, ledger, closing>>,
         result' \in [Steps -> Int \cup {Unknown}],
         desk'[s] = d => Asked(s)' /\ Judged(s)' /\ InQuota(s)'
  PROVE  RInv'
<1>1. desk \in [Steps -> Desk] /\ order \in OrderStatus /\ closing \in [Closers -> Nat]
  BY Types DEF RInv
<1>2. desk' \in [Steps -> Desk] /\ desk'[s] = d BY <1>1
<1>3. \A r \in Steps : r # s => desk'[r] = desk[r] BY <1>1
<1> QED BY <1>1, <1>2, <1>3, DeskStep

(* An idle desk promises nothing. *)
LEMMA AtRest ==
  /\ Resting \in Desk
  /\ \A s : desk'[s] = Resting => Asked(s)' /\ Judged(s)' /\ InQuota(s)'
  /\ \A s : desk[s] = Resting => Asked(s) /\ Judged(s) /\ InQuota(s)
BY DEF Resting, Desk, At, Ask, Sources, Asked, Judged, InQuota

LEMMA GivesUp ==
  ASSUME RInv, NEW s \in Steps, desk' = [desk EXCEPT ![s] = Resting],
         UNCHANGED <<order, tickets, plan, ledger, closing>>,
         result' \in [Steps -> Int \cup {Unknown}]
  PROVE  RInv'
BY AtRest, OneDesk

(* What the arguments of a step can be. *)
LEMMA ResolvedType ==
  ASSUME RInv, NEW s \in Steps, Resolved(s) # Unknown
  PROVE  /\ Resolved(s) \in Int \cup {None}
         /\ IF plan[s] = Referred THEN Resolved(s) \in Int ELSE Resolved(s) = plan[s]
         /\ plan[s] # None => Resolved(s) \in Int
<1>1. plan[s] \in Amounts \cup {None, Referred} /\ result[s] \in Int \cup {Unknown}
  BY Types DEF RInv
<1>2. Amounts \subseteq Int BY RefundAssumption
<1> QED BY <1>1, <1>2 DEF Resolved

LEMMA SumsOfState ==
  ASSUME RInv
  PROVE  /\ refunded_cents \in Nat /\ pending_refund_cents \in Nat /\ Claimed \in Nat
         /\ Claimed = refunded_cents + pending_refund_cents
BY Types, SumsType DEF RInv

LEMMA TypeOfDesk ==
  ASSUME RInv, NEW s \in Steps
  PROVE  /\ desk[s] \in Desk /\ plan[s] \in Amounts \cup {None, Referred}
         /\ result \in [Steps -> Int \cup {Unknown}]
         /\ Asked(s) /\ Judged(s) /\ InQuota(s)
BY Types DEF RInv

-----------------------------------------------------------------------------
(* Queries and the gate. *)
LEMMA StepQueryBegin == ASSUME RInv, NEW s \in Steps, QueryBegin(s) PROVE RInv'
<1> DEFINE d == [Resting EXCEPT !.at = "query", !.refunded = refunded_cents]
<1>1. d \in Desk BY AtRest, SumsOfState DEF Desk, At
<1>2. desk'[s] = d => Asked(s)' /\ Judged(s)' /\ InQuota(s)'
  BY DEF Resting, Asked, Judged, InQuota
<1> HIDE DEF d
<1>3. desk' = [desk EXCEPT ![s] = d] /\ UNCHANGED <<order, tickets, plan, result, ledger, closing>>
  BY DEF QueryBegin, d
<1> QED BY <1>1, <1>2, <1>3, TypeOfDesk, OneDesk

LEMMA StepQuery == ASSUME RInv, NEW s \in Steps, Query(s) PROVE RInv'
<1>1. Total - desk[s].refunded - pending_refund_cents \in Int
  BY SumsOfState, TypeOfDesk, RefundAssumption DEF Desk
<1>2. result' \in [Steps -> Int \cup {Unknown}] BY <1>1, TypeOfDesk DEF Query
<1> QED BY <1>2, GivesUp DEF Query

LEMMA StepGateNamed == ASSUME RInv, NEW s \in Steps, GateNamed(s) PROVE RInv'
<1> DEFINE a == Resolved(s)
           d == [desk[s] EXCEPT !.at = "load", !.ask = a, !.signed = Needed(a)]
<1>1. a \in Int /\ a # None /\ IF plan[s] = Referred THEN a \in Int ELSE a = plan[s]
  BY ResolvedType, PolicyAssumption DEF GateNamed
<1>2. Needed(a) \in 0..2 BY <1>1, Signatures
<1>3. d \in Desk BY <1>1, <1>2, TypeOfDesk DEF Desk, At, Ask
<1>4. desk'[s] = d => Asked(s)' /\ Judged(s)' /\ InQuota(s)'
  <2>1. desk[s] \in Desk BY TypeOfDesk
  <2>2. d.at = "load" /\ d.ask = a /\ d.signed = Needed(a) BY <2>1 DEF Desk
  <2>3. plan' = plan /\ ledger' = ledger BY DEF GateNamed
  <2> HIDE DEF d, a
  <2> QED BY <1>1, <2>2, <2>3 DEF Asked, Judged, InQuota
<1>5. GateAmount(CreateRefund, a, None) = None BY <1>1 DEF GateAmount
<1>6. /\ desk' = [desk EXCEPT ![s] = d]
      /\ UNCHANGED <<order, tickets, plan, result, ledger, closing>>
  BY <1>5, TypeOfDesk DEF GateNamed, Judge, Passes, Needed
<1> HIDE DEF d
<1> QED BY <1>3, <1>4, <1>6, TypeOfDesk, OneDesk

LEMMA StepGateBegin == ASSUME RInv, NEW s \in Steps, GateBegin(s) PROVE RInv'
<1> DEFINE d == [Resting EXCEPT !.at = "gate", !.refunded = refunded_cents]
<1>1. d \in Desk BY AtRest, SumsOfState DEF Desk, At
<1>2. desk'[s] = d => Asked(s)' /\ Judged(s)' /\ InQuota(s)'
  BY SameTickets DEF GateBegin, Resting, Asked, Judged, InQuota
<1> HIDE DEF d
<1>3. desk' = [desk EXCEPT ![s] = d] /\ UNCHANGED <<order, tickets, plan, result, ledger, closing>>
  BY DEF GateBegin, d
<1> QED BY <1>1, <1>2, <1>3, TypeOfDesk, OneDesk

LEMMA StepGateOmitted == ASSUME RInv, NEW s \in Steps, GateOmitted(s) PROVE RInv'
<1> DEFINE a == Total - desk[s].refunded - pending_refund_cents
           d == [desk[s] EXCEPT !.at = "load", !.ask = None, !.signed = Needed(a)]
<1>1. desk[s] \in Desk /\ Asked(s) /\ Judged(s) /\ desk[s].at = "gate"
  BY TypeOfDesk DEF GateOmitted
<1>2. a \in Int BY <1>1, SumsOfState, RefundAssumption DEF Desk
<1>3. Needed(a) \in 0..2 BY <1>2, Signatures
<1>4. d \in Desk BY <1>1, <1>3 DEF Desk, At, Ask
<1>5. plan[s] = None /\ plan[s] # Referred BY <1>1, Constants DEF Asked
<1>6. desk[s].by = "gate" /\ desk[s].calm => desk[s].refunded = refunded_cents
  BY <1>1 DEF Judged
<1>7. desk'[s] = d => Asked(s)' /\ Judged(s)' /\ InQuota(s)'
  <2>1. /\ d.at = "load" /\ d.ask = None /\ d.signed = Needed(a)
        /\ d.by = desk[s].by /\ d.calm = desk[s].calm BY <1>1 DEF Desk
  <2>2. tickets' = tickets /\ plan' = plan /\ ledger' = ledger BY DEF GateOmitted
  <2> HIDE DEF d
  <2> QED BY <1>5, <1>6, <2>1, <2>2, SameTickets DEF Asked, Judged, InQuota
<1>8. GateAmount(CreateRefund, None, a) = a
  BY DEF GateAmount, EffectiveAmount, CreateRefund, ReadOnly
<1>9. /\ desk' = [desk EXCEPT ![s] = d]
      /\ UNCHANGED <<order, tickets, plan, result, ledger, closing>>
  BY <1>2, <1>8, TypeOfDesk, Signatures DEF GateOmitted, Judge, Passes
<1> HIDE DEF d
<1> QED BY <1>4, <1>7, <1>9, TypeOfDesk, OneDesk

LEMMA StepRetry == ASSUME RInv, NEW s \in Steps, Retry(s) PROVE RInv'
<1> DEFINE a == Resolved(s)
           d == [Resting EXCEPT !.at = "load", !.ask = a, !.by = "retry"]
<1>1. a \in Int \cup {None} /\ IF plan[s] = Referred THEN a \in Int ELSE a = plan[s]
  BY ResolvedType DEF Retry
<1>2. d \in Desk BY <1>1, AtRest DEF Desk, At, Ask, Sources
<1>3. desk'[s] = d => Asked(s)' /\ Judged(s)' /\ InQuota(s)'
  BY <1>1 DEF Retry, Resting, Asked, Judged, InQuota
<1>4. desk' = [desk EXCEPT ![s] = d] /\ UNCHANGED <<order, tickets, plan, result, ledger, closing>>
  BY DEF Retry
<1> HIDE DEF d
<1> QED BY <1>2, <1>3, <1>4, TypeOfDesk, OneDesk

-----------------------------------------------------------------------------
(* The step transaction. *)
LEMMA StepLoadOrder == ASSUME RInv, NEW s \in Steps, LoadOrder(s) PROVE RInv'
<1> DEFINE d == [desk[s] EXCEPT !.at = "refunded"]
<1>1. desk[s] \in Desk /\ Asked(s) /\ Judged(s) /\ desk[s].at = "load" BY TypeOfDesk DEF LoadOrder
<1>2. UNCHANGED <<order, tickets, plan, result, ledger, closing>> BY DEF LoadOrder
<1>3. CASE desk' = [desk EXCEPT ![s] = Resting] BY <1>2, <1>3, TypeOfDesk, GivesUp
<1>4. CASE ~Done(s) /\ desk' = [desk EXCEPT ![s] = d]
  <2>1. d \in Desk BY <1>1 DEF Desk, At
  <2>2. /\ d.at = "refunded" /\ d.ask = desk[s].ask /\ d.signed = desk[s].signed
        /\ d.by = desk[s].by /\ d.calm = desk[s].calm BY <1>1 DEF Desk
  <2>3. d.ask \notin ledger[s] BY <1>4, <2>2 DEF Done
  <2> HIDE DEF d
  <2>4. desk'[s] = d => Asked(s)'
    BY <1>1, <1>2, <2>2, <2>3 DEF Asked
  <2>5. desk'[s] = d => Judged(s)' /\ InQuota(s)'
    BY <1>1, <1>2, <2>2, SameTickets DEF Judged, InQuota
  <2> QED BY <1>2, <1>4, <2>1, <2>4, <2>5, TypeOfDesk, OneDesk
<1> QED BY <1>3, <1>4, TypeOfDesk DEF LoadOrder

LEMMA StepReadRefunded == ASSUME RInv, NEW s \in Steps, ReadRefunded(s) PROVE RInv'
<1> DEFINE d == [desk[s] EXCEPT !.at = "pending", !.refunded = refunded_cents]
<1>1. /\ desk[s] \in Desk /\ Asked(s) /\ Judged(s) /\ desk[s].at = "refunded"
      /\ refunded_cents \in Nat
  BY TypeOfDesk, SumsOfState DEF ReadRefunded
<1>2. UNCHANGED <<order, tickets, plan, result, ledger, closing>> BY DEF ReadRefunded
<1>3. d \in Desk BY <1>1 DEF Desk, At
<1>4. /\ d.at = "pending" /\ d.ask = desk[s].ask /\ d.signed = desk[s].signed
      /\ d.by = desk[s].by /\ d.calm = desk[s].calm /\ d.refunded = refunded_cents
  BY <1>1 DEF Desk
<1>5. desk' = [desk EXCEPT ![s] = d] BY TypeOfDesk DEF ReadRefunded
<1> HIDE DEF d
<1>6. desk'[s] = d => Asked(s)' BY <1>1, <1>2, <1>4 DEF Asked
<1>7. desk'[s] = d => Judged(s)' /\ InQuota(s)'
  BY <1>1, <1>2, <1>4, SameTickets DEF Judged, InQuota
<1> QED BY <1>2, <1>3, <1>5, <1>6, <1>7, TypeOfDesk, OneDesk

(* What the tool grants an undisturbed request is left, and is what the gate  *)
(* judged: an amount left out is all of it, so nothing was pending.          *)
LEMMA StepReadPending == ASSUME RInv, NEW s \in Steps, ReadPending(s) PROVE RInv'
<1> DEFINE left == Total - desk[s].refunded
           a == IF desk[s].ask = None THEN left ELSE desk[s].ask
           d == [desk[s] EXCEPT !.at = "insert", !.refunded = a]
<1>1. /\ desk[s] \in Desk /\ Asked(s) /\ Judged(s) /\ InQuota(s) /\ desk[s].at = "pending"
      /\ refunded_cents \in Nat /\ pending_refund_cents \in Nat /\ Claimed \in Nat
      /\ Claimed = refunded_cents + pending_refund_cents
  BY TypeOfDesk, SumsOfState DEF ReadPending
<1>2. UNCHANGED <<order, tickets, plan, result, ledger, closing>> BY DEF ReadPending
<1>3. CASE desk' = [desk EXCEPT ![s] = Resting] BY <1>2, <1>3, TypeOfDesk, GivesUp
<1>4. CASE Granted(a, left, left - pending_refund_cents) /\ desk' = [desk EXCEPT ![s] = d]
  <2>1. left \in Int /\ desk[s].refunded \in Nat /\ Total \in Nat
    BY <1>1, RefundAssumption DEF Desk
  <2>2. a \in Int
    <3>1. plan[s] \in Amounts \cup {None, Referred} BY TypeOfDesk
    <3>2. Amounts \subseteq Int BY RefundAssumption
    <3>3. desk[s].ask # None => desk[s].ask \in Int BY <1>1, <3>1, <3>2 DEF Asked
    <3> QED BY <2>1, <3>3
  <2>3. 0 < a /\ a <= left - pending_refund_cents BY <1>4 DEF Granted
  <2>4. d \in Desk
    <3>1. a \in Nat BY <2>2, <2>3
    <3> HIDE DEF a
    <3> QED BY <1>1, <3>1 DEF Desk, At
  <2>5. /\ d.at = "insert" /\ d.ask = desk[s].ask /\ d.signed = desk[s].signed
        /\ d.by = desk[s].by /\ d.calm = desk[s].calm /\ d.exact = desk[s].exact
        /\ d.refunded = a
    BY <1>1 DEF Desk
  <2>6. d.ask # None => a = d.ask BY <2>5
  <2>7. d.by = "gate" /\ d.calm => d.signed = Needed(a)
    <3>1. CASE desk[s].ask = None
      <4>1. SUFFICES ASSUME desk[s].by = "gate", desk[s].calm PROVE desk[s].signed = Needed(a)
        BY <2>5
      <4>2. /\ desk[s].refunded = refunded_cents
            /\ desk[s].signed = Needed(Total - refunded_cents - pending_refund_cents)
        BY <1>1, <3>1, <4>1 DEF Judged
      <4>3. a = Total - refunded_cents - pending_refund_cents
        BY <1>1, <2>1, <2>3, <3>1, <4>2
      <4> QED BY <4>2, <4>3
    <3>2. CASE desk[s].ask # None BY <1>1, <2>5, <3>2 DEF Judged
    <3> QED BY <3>1, <3>2
  <2>8. d.exact => a + Claimed <= Total
    <3>1. desk[s].exact => refunded_cents <= desk[s].refunded BY <1>1 DEF InQuota
    <3> HIDE DEF a
    <3> QED BY <1>1, <2>1, <2>2, <2>3, <2>5, <3>1
  <2>9. desk'[s] = d => Asked(s)'
    <3> HIDE DEF d, a, left
    <3> QED BY <1>1, <1>2, <2>3, <2>5, <2>6 DEF Asked
  <2>10. desk'[s] = d => Judged(s)' /\ InQuota(s)'
    <3> HIDE DEF d, a, left
    <3> QED BY <1>1, <1>2, <2>5, <2>7, <2>8, SameTickets DEF Judged, InQuota
  <2> HIDE DEF d, a, left
  <2> QED BY <1>2, <1>4, <2>4, <2>9, <2>10, TypeOfDesk, OneDesk
<1> QED BY <1>3, <1>4, TypeOfDesk DEF ReadPending

-----------------------------------------------------------------------------
(* What a change of the tickets leaves of what the others have read.         *)
LEMMA OthersStand ==
  ASSUME RInv, NEW s, NEW blind, desk' = Disturbed(s, blind), plan' = plan,
         \A r \in Steps : r # s => ledger'[r] = ledger[r],
         "pending" \in blind \/ refunded_cents' <= refunded_cents,
         "insert" \in blind \/ Claimed' <= Claimed,
         refunded_cents' \in Nat, Claimed' \in Nat
  PROVE  desk' \in [Steps -> Desk] /\ \A r \in Steps : Asked(r)' /\ Judged(r)' /\ InQuota(r)'
<1>1. ASSUME NEW r \in Steps
      PROVE  desk'[r] \in Desk /\ Asked(r)' /\ Judged(r)' /\ InQuota(r)'
  <2> DEFINE d == [desk[r] EXCEPT !.calm = desk[r].calm /\ desk[r].ask # None /\ desk[r].at # "gate",
                                  !.exact = desk[r].exact /\ desk[r].at \notin blind]
  <2>1. desk[r] \in Desk /\ Asked(r) /\ Judged(r) /\ InQuota(r) BY TypeOfDesk
  <2>2. CASE r = s
    <3>1. desk'[r] = Resting BY <2>2 DEF Disturbed
    <3> QED BY <3>1, AtRest
  <2>3. CASE r # s /\ desk[r].at \in {"idle", "query"}
    <3>1. desk'[r] = desk[r] BY <2>3 DEF Disturbed
    <3> QED BY <2>1, <2>3, <3>1 DEF Asked, Judged, InQuota
  <2>4. CASE r # s /\ desk[r].at \notin {"idle", "query"}
    <3>1. desk'[r] = d BY <2>4 DEF Disturbed
    <3>2. /\ d \in Desk
          /\ d.at = desk[r].at /\ d.refunded = desk[r].refunded /\ d.ask = desk[r].ask
          /\ d.signed = desk[r].signed /\ d.by = desk[r].by
          /\ d.calm = (desk[r].calm /\ desk[r].ask # None /\ desk[r].at # "gate")
          /\ d.exact = (desk[r].exact /\ desk[r].at \notin blind)
      BY <2>1 DEF Desk
    <3>3. ledger'[r] = ledger[r] /\ plan'[r] = plan[r] BY <2>4
    <3> HIDE DEF d
    <3>4. Asked(r)' BY <2>1, <3>1, <3>2, <3>3 DEF Asked
    <3>5. Judged(r)' BY <2>1, <3>1, <3>2 DEF Judged
    <3>6. InQuota(r)'
      <4>1. refunded_cents \in Nat /\ Claimed \in Nat /\ desk[r].refunded \in Nat /\ Total \in Nat
        BY <2>1, SumsOfState, RefundAssumption DEF Desk
      <4>2. CASE ~d.exact BY <3>1, <4>2 DEF InQuota
      <4>3. CASE d.exact
        <5>1. desk[r].exact /\ desk[r].at \notin blind BY <3>2, <4>3
        <5>2. desk[r].at = "pending" => refunded_cents' <= desk[r].refunded
          BY <2>1, <4>1, <5>1 DEF InQuota
        <5>3. desk[r].at = "insert" => desk[r].refunded + Claimed' <= Total
          BY <2>1, <4>1, <5>1 DEF InQuota
        <5> QED BY <3>1, <3>2, <5>2, <5>3 DEF InQuota
      <4> QED BY <4>2, <4>3
    <3> QED BY <3>1, <3>2, <3>4, <3>5, <3>6
  <2> QED BY <2>2, <2>3, <2>4
<1>2. desk' = [r \in Steps |-> desk'[r]] BY DEF Disturbed
<1> QED BY <1>1, <1>2

LEMMA SumsNext ==
  ASSUME tickets' \in Seq(Ticket)
  PROVE  /\ refunded_cents' \in Nat /\ pending_refund_cents' \in Nat /\ Claimed' \in Nat
<1>1. /\ refunded_cents' = Adds(tickets', {t \in DOMAIN tickets' : tickets'[t].status \in {"REFUNDED"}})
      /\ pending_refund_cents'
           = Adds(tickets', {t \in DOMAIN tickets' : tickets'[t].status \in PENDING_REFUND_STATUSES})
      /\ Claimed' = Adds(tickets', {t \in DOMAIN tickets' : tickets'[t].status \in Claiming})
  BY DEF refunded_cents, pending_refund_cents, Claimed, Sum, Adds
<1> QED BY <1>1, AddsType

(* The commit of a refund. *)
LEMMA StepInsert == ASSUME RInv, NEW s \in Steps, Insert(s) PROVE RInv'
<1> DEFINE x == [status |-> "PENDING", amount |-> desk[s].refunded, step |-> s,
                 signed |-> desk[s].signed, by |-> desk[s].by, calm |-> desk[s].calm,
                 exact |-> desk[s].exact]
           n == Len(tickets) + 1
           C == {t \in DOMAIN tickets : tickets[t].status \in Claiming}
           R == {t \in DOMAIN tickets : tickets[t].status \in {"REFUNDED"}}
<1>1. /\ desk[s] \in Desk /\ Asked(s) /\ Judged(s) /\ InQuota(s) /\ desk[s].at = "insert"
      /\ plan[s] \in Amounts \cup {None, Referred} /\ tickets \in Seq(Ticket)
  BY TypeOfDesk, Types DEF Insert, RInv
<1>2. x \in Ticket
  <2>1. desk[s].refunded \in Nat \ {0} BY <1>1 DEF Desk, Asked
  <2> QED BY <1>1, <2>1 DEF Desk, Ticket, TicketStatus
<1>3. /\ x.status = "PENDING" /\ x.amount = desk[s].refunded /\ x.step = s
      /\ x.signed = desk[s].signed /\ x.by = desk[s].by /\ x.calm = desk[s].calm
      /\ x.exact = desk[s].exact
  OBVIOUS
<1>4. /\ tickets' = Append(tickets, x) /\ ledger' = [ledger EXCEPT ![s] = @ \cup {desk[s].ask}]
      /\ desk' = Disturbed(s, {"insert"}) /\ UNCHANGED <<order, plan, result, closing>>
  BY DEF Insert
<1> HIDE DEF x
<1>5. /\ tickets' \in Seq(Ticket) /\ DOMAIN tickets' = DOMAIN tickets \cup {n} /\ n \notin DOMAIN tickets
      /\ \A t \in DOMAIN tickets : tickets'[t] = tickets[t]
      /\ tickets'[n] = x
  BY <1>1, <1>2, <1>4, AddsAppend
<1>6. \A W : W \subseteq DOMAIN tickets =>
        /\ Adds(tickets', W) = Adds(tickets, W)
        /\ Adds(tickets', W \cup {n}) = Adds(tickets, W) + x.amount
  BY <1>1, <1>2, <1>4, AddsAppend
<1> HIDE DEF n
<1>7. refunded_cents' = refunded_cents
  <2>1. {t \in DOMAIN tickets' : tickets'[t].status \in {"REFUNDED"}} = R BY <1>3, <1>5
  <2>2. refunded_cents = Adds(tickets, R) /\ refunded_cents' = Adds(tickets', R)
    BY <2>1 DEF refunded_cents, Sum, Adds
  <2> QED BY <1>6, <2>2
<1>8. Claimed' = Claimed + desk[s].refunded
  <2>1. {t \in DOMAIN tickets' : tickets'[t].status \in Claiming} = C \cup {n}
    BY <1>3, <1>5 DEF Claiming, PENDING_REFUND_STATUSES
  <2>2. Claimed = Adds(tickets, C) /\ Claimed' = Adds(tickets', C \cup {n})
    BY <2>1 DEF Claimed, Adds
  <2> QED BY <1>3, <1>6, <2>2
<1>9. ledger \in [Steps -> SUBSET Ask] BY Types DEF RInv
<1>10. /\ ledger' \in [Steps -> SUBSET Ask] /\ ledger'[s] = ledger[s] \cup {desk[s].ask}
       /\ \A r \in Steps : r # s => ledger'[r] = ledger[r]
       /\ \A r \in Steps : ledger[r] \subseteq ledger'[r]
  <2>1. desk[s].ask \in Ask BY <1>1 DEF Desk
  <2> QED BY <1>4, <1>9, <2>1
<1>11. /\ refunded_cents' \in Nat /\ Claimed' \in Nat BY <1>5, SumsNext
<1>12. desk' \in [Steps -> Desk] /\ \A r \in Steps : Asked(r)' /\ Judged(r)' /\ InQuota(r)'
  BY <1>4, <1>7, <1>10, <1>11, OthersStand
<1>13. RefundTypeOK'
  BY <1>4, <1>5, <1>10, <1>12, Types DEF RInv, RefundTypeOK, Ticket, Desk, Sources
<1>14. ASSUME NEW t \in DOMAIN tickets' PROVE Recorded(t)'
  <2>1. CASE t \in DOMAIN tickets
    <3>1. Recorded(t) /\ tickets[t].step \in Steps /\ tickets'[t] = tickets[t]
      BY <1>1, <1>5, <2>1, AddsType DEF RInv, Ticket
    <3> QED BY <1>4, <1>10, <3>1 DEF Recorded
  <2>2. CASE t = n
    <3>1. plan[s] = Referred => desk[s].refunded = desk[s].ask
      BY <1>1, Constants DEF Asked
    <3>2. plan[s] # Referred => desk[s].ask = plan[s] BY <1>1 DEF Asked
    <3> QED BY <1>3, <1>4, <1>5, <1>10, <2>2, <3>1, <3>2 DEF Recorded
  <2> QED BY <1>5, <2>1, <2>2
<1>15. OneTicketPerStep'
  <2>1. ASSUME NEW t \in DOMAIN tickets, tickets[t].step = s
        PROVE  plan[s] = Referred /\ tickets[t].amount # desk[s].refunded
    <3>1. (IF plan[s] = Referred THEN tickets[t].amount ELSE plan[s]) \in ledger[s]
      BY <2>1 DEF RInv, Recorded
    <3>2. desk[s].ask \notin ledger[s] BY <1>1 DEF Asked
    <3>3. plan[s] = Referred BY <1>1, <3>1, <3>2 DEF Asked
    <3>4. desk[s].refunded = desk[s].ask BY <1>1, <3>3, Constants DEF Asked
    <3> QED BY <3>1, <3>2, <3>3, <3>4
  <2>2. SUFFICES ASSUME NEW t \in DOMAIN tickets', NEW u \in DOMAIN tickets', t # u,
                        tickets'[t].step = tickets'[u].step
                 PROVE  /\ plan'[tickets'[t].step] = Referred
                        /\ tickets'[t].amount # tickets'[u].amount
    BY DEF OneTicketPerStep
  <2>3. CASE t \in DOMAIN tickets /\ u \in DOMAIN tickets
    BY <1>4, <1>5, <2>2, <2>3 DEF RInv, OneTicketPerStep
  <2>4. CASE t = n \/ u = n
    BY <1>3, <1>4, <1>5, <2>1, <2>2, <2>4
  <2> QED BY <1>5, <2>3, <2>4
<1>16. GatedIfCalm'
  <2>1. ASSUME NEW t \in DOMAIN tickets', tickets'[t].by = "gate", tickets'[t].calm
        PROVE  tickets'[t].signed >= Needed(tickets'[t].amount)
    <3>1. CASE t \in DOMAIN tickets BY <1>5, <2>1, <3>1 DEF RInv, GatedIfCalm
    <3>2. CASE t = n
      <4>1. desk[s].signed = Needed(desk[s].refunded) BY <1>1, <1>3, <1>5, <2>1, <3>2 DEF Judged
      <4>2. desk[s].signed \in 0..2 BY <1>1 DEF Desk
      <4>3. tickets'[t].signed = desk[s].signed /\ tickets'[t].amount = desk[s].refunded
        BY <1>3, <1>5, <3>2
      <4> HIDE DEF Needed
      <4> QED BY <4>1, <4>2, <4>3
    <3> QED BY <1>5, <3>1, <3>2
  <2> QED BY <2>1 DEF GatedIfCalm, Needed
<1>17. QuotaOfUndisturbed'
  <2> DEFINE E == {t \in DOMAIN tickets' : tickets'[t].exact /\ tickets'[t].status \in Claiming}
  <2>1. QuotaOfUndisturbed' <=> Adds(tickets', E) <= Total
    BY DEF QuotaOfUndisturbed, Claims, Adds, Claiming
  <2>2. CASE desk[s].exact
    <3>1. Claimed' = Adds(tickets', {t \in DOMAIN tickets' : tickets'[t].status \in Claiming})
      BY DEF Claimed
    <3>2. Adds(tickets', E) <= Claimed' BY <1>5, <3>1, AddsPart
    <3>3. Claimed' <= Total
      <4>1. desk[s].refunded \in Nat /\ desk[s].refunded + Claimed <= Total
        BY <1>1, <2>2 DEF InQuota, Desk
      <4> QED BY <1>8, <4>1, SumsOfState
    <3>4. Adds(tickets', E) \in Nat BY <1>5, AddsType
    <3> QED BY <1>11, <2>1, <3>2, <3>3, <3>4, RefundAssumption
  <2>3. CASE ~desk[s].exact
    <3>1. E = Exacts BY <1>3, <1>5, <2>3 DEF Exacts
    <3>2. Exacts \subseteq DOMAIN tickets BY DEF Exacts
    <3> HIDE DEF E
    <3>3. Adds(tickets', E) = Adds(tickets, Exacts) BY <1>6, <3>1, <3>2
    <3> QED BY <2>1, <3>3, ClaimsExact DEF RInv
  <2> QED BY <2>2, <2>3
<1> QED BY <1>12, <1>13, <1>14, <1>15, <1>16, <1>17 DEF RInv

-----------------------------------------------------------------------------
(* A ticket in another status that claims no more than before.               *)
LEMMA StatusStep ==
  ASSUME RInv, NEW t, NEW st \in TicketStatus, NEW blind,
         tickets' = [tickets EXCEPT ![t].status = st], desk' = Disturbed(0, blind),
         st \in Claiming /\ t \in DOMAIN tickets => tickets[t].status \in Claiming,
         st = "REFUNDED" => "pending" \in blind,
         UNCHANGED <<order, plan, result, ledger>>, closing' \in [Closers -> Nat]
  PROVE  RInv'
<1>1. tickets \in Seq(Ticket) BY Types DEF RInv
<1>2. /\ tickets' \in Seq(Ticket) /\ DOMAIN tickets' = DOMAIN tickets
      /\ \A u \in DOMAIN tickets :
           /\ tickets'[u].status = IF u = t THEN st ELSE tickets[u].status
           /\ tickets'[u].amount = tickets[u].amount /\ tickets'[u].step = tickets[u].step
           /\ tickets'[u].signed = tickets[u].signed /\ tickets'[u].by = tickets[u].by
           /\ tickets'[u].calm = tickets[u].calm /\ tickets'[u].exact = tickets[u].exact
      /\ \A W : Adds(tickets', W) = Adds(tickets, W)
  <2>1. tickets' \in Seq(Ticket) /\ DOMAIN tickets' = DOMAIN tickets BY <1>1, StatusSet
  <2>2. \A u \in DOMAIN tickets :
          /\ tickets'[u].status = IF u = t THEN st ELSE tickets[u].status
          /\ tickets'[u].amount = tickets[u].amount /\ tickets'[u].step = tickets[u].step
          /\ tickets'[u].signed = tickets[u].signed /\ tickets'[u].by = tickets[u].by
          /\ tickets'[u].calm = tickets[u].calm /\ tickets'[u].exact = tickets[u].exact
    BY <1>1, StatusSet
  <2>3. [u \in DOMAIN tickets' |-> tickets'[u].amount] = [u \in DOMAIN tickets |-> tickets[u].amount]
    BY <2>1, <2>2
  <2>4. \A W : Adds(tickets', W) = Adds(tickets, W) BY <2>3 DEF Adds
  <2> QED BY <2>1, <2>2, <2>4
<1>3. refunded_cents' \in Nat /\ Claimed' \in Nat BY <1>2, SumsNext
<1>4. Claimed' <= Claimed
  <2> DEFINE C == {u \in DOMAIN tickets : tickets[u].status \in Claiming}
             D == {u \in DOMAIN tickets' : tickets'[u].status \in Claiming}
  <2>1. D \subseteq C BY <1>2
  <2>2. Claimed = Adds(tickets, C) /\ Claimed' = Adds(tickets', D) BY DEF Claimed
  <2>3. Adds(tickets, D) <= Adds(tickets, C) BY <1>1, <2>1, AddsPart
  <2> QED BY <1>2, <2>2, <2>3
<1>5. st # "REFUNDED" => refunded_cents' <= refunded_cents
  <2> DEFINE R == {u \in DOMAIN tickets : tickets[u].status \in {"REFUNDED"}}
             D == {u \in DOMAIN tickets' : tickets'[u].status \in {"REFUNDED"}}
  <2>1. st # "REFUNDED" => D \subseteq R BY <1>2
  <2>2. refunded_cents = Adds(tickets, R) /\ refunded_cents' = Adds(tickets', D)
    BY DEF refunded_cents, Sum, Adds
  <2>3. D \subseteq R => Adds(tickets, D) <= Adds(tickets, R) BY <1>1, AddsPart
  <2> QED BY <1>2, <2>1, <2>2, <2>3
<1>6. desk' \in [Steps -> Desk] /\ \A r \in Steps : Asked(r)' /\ Judged(r)' /\ InQuota(r)'
  BY <1>3, <1>4, <1>5, OthersStand
<1>7. RefundTypeOK' BY <1>2, <1>6, Types DEF RInv, RefundTypeOK, Ticket, Desk, Sources
<1>8. \A u \in DOMAIN tickets' : Recorded(u)' BY <1>2 DEF RInv, Recorded
<1>9. OneTicketPerStep' /\ GatedIfCalm' BY <1>2 DEF RInv, OneTicketPerStep, GatedIfCalm, Needed
<1>10. QuotaOfUndisturbed'
  <2> DEFINE E == {u \in DOMAIN tickets' : tickets'[u].exact /\ tickets'[u].status \in Claiming}
  <2>1. QuotaOfUndisturbed' <=> Adds(tickets', E) <= Total
    BY DEF QuotaOfUndisturbed, Claims, Adds, Claiming
  <2>2. E \subseteq Exacts /\ Exacts \subseteq DOMAIN tickets BY <1>2 DEF Exacts
  <2>3. /\ Adds(tickets, E) <= Adds(tickets, Exacts)
        /\ Adds(tickets, E) \in Nat /\ Adds(tickets, Exacts) \in Nat
    BY <1>1, <2>2, AddsPart, AddsType
  <2>4. Adds(tickets', E) = Adds(tickets, E) BY <1>2
  <2>5. Adds(tickets, Exacts) <= Total BY ClaimsExact DEF RInv
  <2> HIDE DEF E
  <2> QED BY <2>1, <2>3, <2>4, <2>5, RefundAssumption
<1> QED BY <1>6, <1>7, <1>8, <1>9, <1>10 DEF RInv

LEMMA StepHandle ==
  ASSUME RInv, NEW t \in DOMAIN tickets, NEW target \in TicketStatus, Handle(t, target)
  PROVE  RInv'
<1>1. target \in Claiming => tickets[t].status \in Claiming
  BY DEF Handle, CanTransition, TICKET_TRANSITIONS, Claiming, PENDING_REFUND_STATUSES
<1>2. closing' \in [Closers -> Nat] BY Types DEF RInv, Handle
<1> DEFINE blind == IF target = "REFUNDED" THEN {"pending"} ELSE {}
<1>3. /\ tickets' = [tickets EXCEPT ![t].status = target] /\ desk' = Disturbed(0, blind)
      /\ UNCHANGED <<order, plan, result, ledger>>
  BY DEF Handle
<1>4. target = "REFUNDED" => "pending" \in blind OBVIOUS
<1> HIDE DEF blind
<1> QED BY <1>1, <1>2, <1>3, <1>4, StatusStep

LEMMA StepCloseWrite == ASSUME RInv, NEW c \in Closers, CloseWrite(c) PROVE RInv'
<1>1. "CLOSED" \notin Claiming /\ "CLOSED" \in TicketStatus
  BY DEF Claiming, PENDING_REFUND_STATUSES, TicketStatus
<1>2. closing' \in [Closers -> Nat] BY Types DEF RInv, CloseWrite, NoTicket
<1> QED BY <1>1, <1>2, StatusStep DEF CloseWrite

LEMMA StepCloseLoad ==
  ASSUME RInv, NEW c \in Closers, NEW t \in DOMAIN tickets, CloseLoad(c, t) PROVE RInv'
<1>1. tickets \in Seq(Ticket) BY Types DEF RInv
<1>2. t \in Nat BY <1>1
<1>3. closing' \in [Closers -> Nat] BY <1>2, Types DEF RInv, CloseLoad
<1> QED BY <1>3, Types, DeskStep DEF RInv, CloseLoad

LEMMA StepMoveOrder == ASSUME RInv, NEW target \in OrderStatus, MoveOrder(target) PROVE RInv'
BY Types, DeskStep DEF RInv, MoveOrder

LEMMA StepAbandon == ASSUME RInv, NEW s \in Steps, Abandon(s) PROVE RInv'
BY TypeOfDesk, GivesUp DEF Abandon

-----------------------------------------------------------------------------
LEMMA RefundStarts == RefundInit => RInv
<1> SUFFICES ASSUME RefundInit PROVE RInv OBVIOUS
<1>1. DOMAIN tickets = {} /\ tickets \in Seq(Ticket) BY DEF RefundInit
<1>2. desk \in [Steps -> Desk] /\ \A s \in Steps : Asked(s) /\ Judged(s) /\ InQuota(s)
  BY AtRest DEF RefundInit
<1>3. RefundTypeOK
  BY <1>1, <1>2 DEF RefundInit, RefundTypeOK, Ticket, Desk, Sources, OrderStatus, NoTicket
<1>4. Adds(tickets, Exacts) = 0
  <2>1. Exacts = {} BY <1>1 DEF Exacts
  <2> QED BY <2>1, SumEmpty DEF Adds
<1>5. QuotaOfUndisturbed BY <1>4, ClaimsExact, RefundAssumption
<1> QED BY <1>1, <1>2, <1>3, <1>5 DEF RInv, OneTicketPerStep, GatedIfCalm

LEMMA RefundStays == RInv /\ [RefundNext]_refundVars => RInv'
<1> SUFFICES ASSUME RInv, [RefundNext]_refundVars PROVE RInv' OBVIOUS
<1>1. ASSUME NEW s \in Steps, QueryBegin(s) \/ Query(s) \/ Gate(s) \/ StepTxn(s) PROVE RInv'
  BY <1>1, StepQueryBegin, StepQuery, StepGateNamed, StepGateBegin, StepGateOmitted, StepRetry,
     StepLoadOrder, StepReadRefunded, StepReadPending, StepInsert, StepAbandon DEF Gate, StepTxn
<1>2. ASSUME NEW t \in DOMAIN tickets, NEW target \in TicketStatus, Handle(t, target) PROVE RInv'
  BY <1>2, StepHandle
<1>3. ASSUME NEW t \in DOMAIN tickets, NEW c \in Closers, CloseLoad(c, t) PROVE RInv'
  BY <1>3, StepCloseLoad
<1>4. ASSUME NEW c \in Closers, CloseWrite(c) PROVE RInv' BY <1>4, StepCloseWrite
<1>5. ASSUME NEW target \in OrderStatus, MoveOrder(target) PROVE RInv' BY <1>5, StepMoveOrder
<1>6. CASE UNCHANGED refundVars
  BY <1>6, Types, DeskStep DEF RInv, refundVars
<1> QED BY <1>1, <1>2, <1>3, <1>4, <1>5, <1>6 DEF RefundNext

LEMMA RefundInvariant == RefundSpec => []RInv
BY RefundStarts, RefundStays, PTL DEF RefundSpec

(* Every variable keeps its type; in particular no ticket is for nothing or   *)
(* less (services/aftersales.py: 0 < requested <= available).               *)
THEOREM RefundTypeCorrect == RefundSpec => []RefundTypeOK
<1>1. RInv => RefundTypeOK BY DEF RInv
<1> QED BY <1>1, RefundInvariant, PTL

(* The requests nobody overtook never claim more than the order's total,      *)
(* whatever the others do between their reads (request_refund).             *)
THEOREM QuotaKeptUndisturbed == RefundSpec => []QuotaOfUndisturbed
<1>1. RInv => QuotaOfUndisturbed BY DEF RInv
<1> QED BY <1>1, RefundInvariant, PTL

(* A refund that passed the gate while the tickets stood still has the        *)
(* signatures the amount on its ticket needs (executor._resolve_amount).     *)
THEOREM GateJudgedIt == RefundSpec => []GatedIfCalm
<1>1. RInv => GatedIfCalm BY DEF RInv
<1> QED BY <1>1, RefundInvariant, PTL

(* A step has one ticket, or several of different amounts that a repeated     *)
(* query gave it (governance/idempotency.py).                               *)
THEOREM OneTicketOnly == RefundSpec => []OneTicketPerStep
<1>1. RInv => OneTicketPerStep BY DEF RInv
<1> QED BY <1>1, RefundInvariant, PTL
=============================================================================
