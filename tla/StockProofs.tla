----------------------------- MODULE StockProofs -----------------------------
(***************************************************************************)
(* Proofs about Stock, for any number of clients, orders, lines, pieces and   *)
(* products: what the row locks are good for, and that the books balance.    *)
(***************************************************************************)
EXTENDS Stock, SumProofs

Ops == {"create", "ship", "cancel"}
OpenTxn == [op : Ops, order : Orders, left : Seq(Int), address : Addresses]

Shape ==
  /\ orders \in [Orders -> [status : OrderStatus \cup {"NONE"}, address : Addresses]]
  /\ txn \in [Clients -> {Idle} \cup OpenTxn]

(* An order is in the hands of one transaction, which has found it as it is.  *)
OneTxnPerOrder ==
  \A c, d \in Clients : c # d /\ Open(c) /\ Open(d) => txn[c].order # txn[d].order

Found ==
  \A c \in Clients : Open(c) =>
    IF txn[c].op = "create" THEN orders[txn[c].order].status = "NONE"
    ELSE CanTransition(orders[txn[c].order].status, Targets[txn[c].op], ORDER_TRANSITIONS)

(* An inventory row is locked by one transaction.                           *)
OneLockPerRow == \A c, d \in Clients : c # d => Held(c) \cap Held(d) = {}

LinesLeft == \A c \in Clients : Open(c) => ToSet(txn[c].left) \subseteq LinesOf(txn[c].order)

LockInv == Shape /\ OneTxnPerOrder /\ Found /\ OneLockPerRow /\ LinesLeft

-----------------------------------------------------------------------------
LEMMA OpenIsTxn ==
  ASSUME Shape, NEW c \in Clients
  PROVE  Open(c) <=> txn[c] \in OpenTxn
BY DEF Shape, Open, Idle, OpenTxn, Ops

(* What is held depends on the own transaction only.                        *)
LEMMA HeldUnchanged ==
  ASSUME NEW c \in Clients, txn'[c] = txn[c] PROVE Held(c)' = Held(c) /\ Open(c)' = Open(c)
BY DEF Held, Open, Done, LineAt, LinesOf

LEMMA HeldByNobody ==
  ASSUME NEW c \in Clients, txn'[c] = Idle PROVE Held(c)' = {} /\ ~Open(c)'
BY DEF Held, Open

(* A transaction that has just begun holds no inventory row.                *)
LEMMA HeldAtFirst ==
  ASSUME NEW c \in Clients, ToSet(txn'[c].left) = LinesOf(txn'[c].order)
  PROVE  Held(c)' = {}
BY DEF Held, Done, LineAt, LinesOf

LEMMA TailToSet ==
  ASSUME NEW q \in Seq(Int), q # <<>>
  PROVE  /\ Tail(q) \in Seq(Int) /\ Head(q) \in ToSet(q)
         /\ ToSet(Tail(q)) \subseteq ToSet(q) /\ ToSet(q) \subseteq ToSet(Tail(q)) \cup {Head(q)}
<1>1. Tail(q) \in Seq(Int) /\ Len(q) \in Nat /\ Len(q) > 0 /\ Len(Tail(q)) = Len(q) - 1
  OBVIOUS
<1>2. \A i \in 1..Len(Tail(q)) : Tail(q)[i] = q[i + 1]
  OBVIOUS
<1>3. ASSUME NEW i \in 1..Len(q) PROVE q[i] \in ToSet(Tail(q)) \cup {Head(q)}
  <2>1. CASE i = 1 BY <2>1
  <2>2. CASE i > 1
    <3>1. i - 1 \in 1..Len(Tail(q)) /\ (i - 1) + 1 = i BY <1>1, <2>2
    <3>2. Tail(q)[i - 1] = q[i] BY <1>2, <3>1
    <3>3. DOMAIN Tail(q) = 1..Len(Tail(q)) BY <1>1
    <3>4. Tail(q)[i - 1] \in {Tail(q)[j] : j \in DOMAIN Tail(q)} BY <3>1, <3>3
    <3> QED BY <3>2, <3>4 DEF ToSet
  <2> QED BY <1>1, <2>1, <2>2
<1>4. \A i \in 1..Len(Tail(q)) : i + 1 \in 1..Len(q) BY <1>1
<1>5. ToSet(Tail(q)) \subseteq ToSet(q) BY <1>1, <1>2, <1>4 DEF ToSet
<1>6. Head(q) \in ToSet(q) BY <1>1 DEF ToSet
<1> QED BY <1>1, <1>3, <1>5, <1>6 DEF ToSet

(* One more line locked adds one more row.                                  *)
LEMMA HeldByOneMore ==
  ASSUME Shape, NEW c \in Clients, Locking(c), LockLine(c)
  PROVE  Held(c)' \subseteq Held(c) \cup {NextLine(c).product}
<1>1. txn[c] \in OpenTxn BY OpenIsTxn DEF Locking
<1>2. txn'[c] = [txn[c] EXCEPT !.left = Tail(@)] BY DEF LockLine, Shape
<1>3. txn'[c].order = txn[c].order /\ txn'[c].left = Tail(txn[c].left) BY <1>1, <1>2 DEF OpenTxn
<1>4. txn[c].left \in Seq(Int) /\ txn[c].left # <<>> BY <1>1 DEF OpenTxn, Locking
<1>5. Done(c)' \subseteq Done(c) \cup {Head(txn[c].left)}
  BY <1>3, <1>4, TailToSet DEF Done, LinesOf
<1>6. \A i : LineAt(c, i)' = LineAt(c, i) BY <1>3 DEF LineAt
<1> QED BY <1>5, <1>6 DEF Held, NextLine, Locking

-----------------------------------------------------------------------------
LEMMA InitLocks == StockInit => LockInv
<1> SUFFICES ASSUME StockInit PROVE LockInv OBVIOUS
<1>1. Shape BY StockAssumption DEF StockInit, Shape
<1>2. \A c \in Clients : ~Open(c) BY DEF StockInit, Open
<1> QED BY <1>1, <1>2 DEF LockInv, OneTxnPerOrder, Found, OneLockPerRow, Held, LinesLeft

(* Only the own transaction moves, and by it only the own order.            *)
LEMMA OthersStand ==
  ASSUME LockInv, NEW c \in Clients, NEW t \in {Idle} \cup OpenTxn, Begin(c, t)
  PROVE  /\ txn' \in [Clients -> {Idle} \cup OpenTxn] /\ txn'[c] = t
         /\ \A d \in Clients \ {c} : txn'[d] = txn[d]
BY DEF LockInv, Shape, Begin

LEMMA EndLocks ==
  ASSUME LockInv, NEW c \in Clients, End(c), UNCHANGED orders PROVE LockInv'
<1>1. /\ txn' \in [Clients -> {Idle} \cup OpenTxn] /\ txn'[c] = Idle
      /\ \A d \in Clients \ {c} : txn'[d] = txn[d]
  BY OthersStand DEF End
<1>2. Held(c)' = {} /\ ~Open(c)' BY <1>1, HeldByNobody
<1>3. \A d \in Clients \ {c} : Held(d)' = Held(d) /\ Open(d)' = Open(d) BY <1>1, HeldUnchanged
<1>4. Shape' BY <1>1 DEF LockInv, Shape
<1>5. OneTxnPerOrder' BY <1>1, <1>2, <1>3 DEF LockInv, OneTxnPerOrder
<1>6. Found' BY <1>1, <1>2, <1>3 DEF LockInv, Found
<1>7. OneLockPerRow' BY <1>2, <1>3 DEF LockInv, OneLockPerRow
<1>8. LinesLeft' BY <1>1, <1>2, <1>3 DEF LockInv, LinesLeft, LinesOf
<1> QED BY <1>4, <1>5, <1>6, <1>7, <1>8 DEF LockInv

LEMMA BeginLocks ==
  ASSUME LockInv, NEW c \in Clients, NEW t \in OpenTxn, Begin(c, t), UNCHANGED orders,
         OrderFree(t.order), ToSet(t.left) = LinesOf(t.order),
         IF t.op = "create" THEN orders[t.order].status = "NONE"
         ELSE CanTransition(orders[t.order].status, Targets[t.op], ORDER_TRANSITIONS)
  PROVE  LockInv'
<1>1. /\ txn' \in [Clients -> {Idle} \cup OpenTxn] /\ txn'[c] = t
      /\ \A d \in Clients \ {c} : txn'[d] = txn[d]
  BY OthersStand
<1>2. Held(c)' = {} BY <1>1, HeldAtFirst
<1>3. \A d \in Clients \ {c} : Held(d)' = Held(d) /\ Open(d)' = Open(d) BY <1>1, HeldUnchanged
<1>4. Shape' BY <1>1 DEF LockInv, Shape
<1>5. OneTxnPerOrder' BY <1>1, <1>3 DEF LockInv, OneTxnPerOrder, OrderFree
<1>6. Found' BY <1>1, <1>3 DEF LockInv, Found
<1>7. OneLockPerRow' BY <1>2, <1>3 DEF LockInv, OneLockPerRow
<1>8. LinesLeft' BY <1>1, <1>2, <1>3 DEF LockInv, LinesLeft, LinesOf
<1> QED BY <1>4, <1>5, <1>6, <1>7, <1>8 DEF LockInv

LEMMA LockLineLocks ==
  ASSUME LockInv, NEW c \in Clients, Locking(c), RowFree(c, NextLine(c).product), LockLine(c),
         UNCHANGED orders
  PROVE  LockInv'
<1>1. txn[c] \in OpenTxn BY OpenIsTxn DEF Locking, LockInv
<1>2. Tail(txn[c].left) \in Seq(Int) BY <1>1, TailToSet DEF OpenTxn, Locking
<1>3. txn'[c] = [txn[c] EXCEPT !.left = Tail(@)] /\ \A d \in Clients \ {c} : txn'[d] = txn[d]
  BY DEF LockLine, LockInv, Shape
<1>4. /\ txn'[c] \in OpenTxn /\ txn'[c].order = txn[c].order /\ txn'[c].op = txn[c].op
      /\ Open(c)
  BY <1>1, <1>2, <1>3 DEF OpenTxn, Locking
<1>5. txn' \in [Clients -> {Idle} \cup OpenTxn] BY <1>1, <1>2 DEF LockLine, LockInv, Shape, OpenTxn
<1>6. Held(c)' \subseteq Held(c) \cup {NextLine(c).product} BY HeldByOneMore DEF LockInv
<1>7. \A d \in Clients \ {c} : Held(d)' = Held(d) /\ Open(d)' = Open(d) BY <1>3, HeldUnchanged
<1>8. Shape' BY <1>5 DEF LockInv, Shape
<1>9. OneTxnPerOrder' BY <1>3, <1>4, <1>7 DEF LockInv, OneTxnPerOrder
<1>10. Found' BY <1>3, <1>4, <1>7 DEF LockInv, Found
<1>11. OneLockPerRow' BY <1>6, <1>7 DEF LockInv, OneLockPerRow, RowFree
<1>12. txn'[c].left = Tail(txn[c].left) BY <1>1, <1>3 DEF OpenTxn
<1>13. ToSet(txn'[c].left) \subseteq ToSet(txn[c].left)
  BY <1>1, <1>12, TailToSet DEF OpenTxn, Locking
<1>14. LinesLeft' BY <1>3, <1>4, <1>7, <1>13 DEF LockInv, LinesLeft, LinesOf
<1> QED BY <1>8, <1>9, <1>10, <1>11, <1>14 DEF LockInv

LEMMA CommitLocks == ASSUME LockInv, NEW c \in Clients, Commit(c) PROVE LockInv'
<1>1. /\ txn' \in [Clients -> {Idle} \cup OpenTxn] /\ txn'[c] = Idle
      /\ \A d \in Clients \ {c} : txn'[d] = txn[d]
  BY OthersStand DEF End, Commit
<1>2. Held(c)' = {} /\ ~Open(c)' BY <1>1, HeldByNobody
<1>3. \A d \in Clients \ {c} : Held(d)' = Held(d) /\ Open(d)' = Open(d) BY <1>1, HeldUnchanged
<1>4. txn[c] \in OpenTxn BY OpenIsTxn DEF Commit, LockInv
<1>5. orders' \in [Orders -> [status : OrderStatus \cup {"NONE"}, address : Addresses]]
  BY <1>4 DEF Commit, LockInv, Shape, OpenTxn, Ops, Targets, OrderStatus
<1>6. \A o \in Orders \ {txn[c].order} : orders'[o] = orders[o]
  BY <1>4 DEF Commit, LockInv, Shape
<1>7. Shape' BY <1>1, <1>5 DEF Shape
<1>8. OneTxnPerOrder' BY <1>1, <1>2, <1>3 DEF LockInv, OneTxnPerOrder
<1>9. ASSUME NEW d \in Clients, Open(d)' PROVE txn'[d] = txn[d] /\ Open(d) /\ orders'[txn[d].order] = orders[txn[d].order]
  <2>1. d # c BY <1>2, <1>9
  <2>2. Open(d) /\ txn[d] \in OpenTxn BY <1>3, <1>9, <2>1, OpenIsTxn DEF LockInv
  <2>3. txn[d].order # txn[c].order BY <2>1, <2>2 DEF LockInv, OneTxnPerOrder, Commit
  <2> QED BY <1>1, <1>6, <2>1, <2>2, <2>3 DEF OpenTxn
<1>10. Found' BY <1>9 DEF LockInv, Found
<1>11. OneLockPerRow' BY <1>2, <1>3 DEF LockInv, OneLockPerRow
<1>12. LinesLeft' BY <1>9 DEF LockInv, LinesLeft, LinesOf
<1> QED BY <1>7, <1>8, <1>10, <1>11, <1>12 DEF LockInv

(* Whoever changes an order without a transaction of its own finds it free.  *)
LEMMA AloneLocks ==
  ASSUME LockInv, UNCHANGED txn, NEW o \in Orders, OrderFree(o),
         orders' \in [Orders -> [status : OrderStatus \cup {"NONE"}, address : Addresses]],
         \A u \in Orders \ {o} : orders'[u] = orders[u]
  PROVE  LockInv'
<1>1. \A d \in Clients : Held(d)' = Held(d) /\ Open(d)' = Open(d) BY HeldUnchanged
<1>2. \A d \in Clients : Open(d) => txn[d].order \in Orders \ {o}
  BY OpenIsTxn DEF OrderFree, LockInv, OpenTxn
<1>3. Shape' BY DEF LockInv, Shape
<1>4. OneTxnPerOrder' BY <1>1 DEF LockInv, OneTxnPerOrder
<1>5. Found' BY <1>1, <1>2 DEF LockInv, Found
<1>6. OneLockPerRow' BY <1>1 DEF LockInv, OneLockPerRow
<1>7. LinesLeft' BY <1>1 DEF LockInv, LinesLeft, LinesOf
<1> QED BY <1>3, <1>4, <1>5, <1>6, <1>7 DEF LockInv

(* How a transaction begins: on a free order it has found fit, with all its  *)
(* lines still to lock.                                                     *)
BeginsWell(c) ==
  \E t \in OpenTxn :
    /\ Begin(c, t) /\ OrderFree(t.order) /\ ToSet(t.left) = LinesOf(t.order)
    /\ IF t.op = "create" THEN orders[t.order].status = "NONE"
       ELSE CanTransition(orders[t.order].status, Targets[t.op], ORDER_TRANSITIONS)

LEMMA PlaceBegins ==
  ASSUME LockInv, NEW c \in Clients, NEW o \in Orders, NEW a \in Addresses, Place(c, o, a)
  PROVE  BeginsWell(c) /\ UNCHANGED <<orders, stock>>
<1> DEFINE q == [i \in LinesOf(o) |-> i]
           t == [op |-> "create", order |-> o, left |-> q, address |-> a]
<1>1. Len(Lines[o]) \in Nat BY StockAssumption
<1>2. q \in Seq(Int) /\ ToSet(q) = LinesOf(o)
  <2>1. q \in [1..Len(Lines[o]) -> Int] BY DEF LinesOf
  <2>2. q \in Seq(Int) BY <1>1, <2>1
  <2>3. DOMAIN q = LinesOf(o) /\ \A i \in LinesOf(o) : q[i] = i OBVIOUS
  <2> HIDE DEF q
  <2>4. ToSet(q) = LinesOf(o) BY <2>3 DEF ToSet
  <2> QED BY <2>2, <2>4
<1>3. t \in OpenTxn BY <1>2 DEF OpenTxn, Ops
<1>4. Begin(c, t) /\ OrderFree(o) /\ orders[o].status = "NONE" BY DEF Place
<1> HIDE DEF q
<1> QED BY <1>2, <1>3, <1>4 DEF BeginsWell, Place

LEMMA StartBegins ==
  ASSUME LockInv, NEW c \in Clients, NEW op \in DOMAIN Targets, NEW o \in Orders, Start(c, op, o)
  PROVE  BeginsWell(c) /\ UNCHANGED <<orders, stock>>
<1>1. PICK q \in SetToSeqs(LinesOf(o)) :
        Begin(c, [op |-> op, order |-> o, left |-> q, address |-> orders[o].address])
  BY DEF Start
<1> DEFINE n == Len(Lines[o])
           t == [op |-> op, order |-> o, left |-> q, address |-> orders[o].address]
<1>2. n \in Nat BY StockAssumption
<1>3. Cardinality(1..n) = n /\ IsFiniteSet(1..n) BY <1>2, FS_Interval
<1>4. q \in [1..n -> 1..n] /\ \A i, j \in 1..n : i # j => q[i] # q[j]
  BY <1>1, <1>3 DEF SetToSeqs, LinesOf
<1>5. ToSet(q) = 1..n
  <2>1. q \in Injection(1..n, 1..n) BY <1>4, Zenon DEF Injection, IsInjective
  <2>2. q \in Surjection(1..n, 1..n) BY <1>3, <2>1, FS_Injection
  <2>3. DOMAIN q = 1..n /\ \A i \in 1..n : q[i] \in 1..n BY <1>4
  <2>4. \A m \in 1..n : \E i \in 1..n : q[i] = m BY <2>2 DEF Surjection
  <2> QED BY <2>3, <2>4 DEF ToSet
<1>6. q \in Seq(Int) BY <1>2, <1>4
<1>7. t \in OpenTxn BY <1>6 DEF OpenTxn, Ops, Targets, LockInv, Shape
<1>8. op # "create" BY DEF Targets
<1> QED BY <1>1, <1>5, <1>7, <1>8 DEF BeginsWell, Start, LinesOf

LEMMA MoveLocks ==
  ASSUME LockInv, NEW o \in Orders, NEW target \in {"PAID", "COMPLETED"}, Move(o, target)
  PROVE  LockInv'
<1>1. orders' \in [Orders -> [status : OrderStatus \cup {"NONE"}, address : Addresses]]
  BY DEF Move, LockInv, Shape, OrderStatus
<1>2. \A u \in Orders \ {o} : orders'[u] = orders[u] BY DEF Move, LockInv, Shape
<1> QED BY <1>1, <1>2, AloneLocks DEF Move

LEMMA UpdateAddressLocks ==
  ASSUME LockInv, NEW o \in Orders, NEW a \in Addresses, UpdateAddress(o, a)
  PROVE  LockInv'
<1>1. orders' \in [Orders -> [status : OrderStatus \cup {"NONE"}, address : Addresses]]
  BY DEF UpdateAddress, LockInv, Shape
<1>2. \A u \in Orders \ {o} : orders'[u] = orders[u] BY DEF UpdateAddress, LockInv, Shape
<1> QED BY <1>1, <1>2, AloneLocks DEF UpdateAddress

LEMMA NextLocks == LockInv /\ [StockNext]_stockVars => LockInv'
<1> SUFFICES ASSUME LockInv, [StockNext]_stockVars PROVE LockInv' OBVIOUS
<1>1. CASE UNCHANGED stockVars
  <2>1. orders' = orders /\ txn' = txn BY <1>1 DEF stockVars
  <2>2. \A d \in Clients : Held(d)' = Held(d) /\ Open(d)' = Open(d) BY <2>1, HeldUnchanged
  <2>3. Shape' BY <2>1 DEF LockInv, Shape
  <2>4. OneTxnPerOrder' BY <2>1, <2>2 DEF LockInv, OneTxnPerOrder
  <2>5. Found' BY <2>1, <2>2 DEF LockInv, Found
  <2>6. OneLockPerRow' BY <2>2 DEF LockInv, OneLockPerRow
  <2>7. LinesLeft' BY <2>1, <2>2 DEF LockInv, LinesLeft, LinesOf
  <2> QED BY <2>3, <2>4, <2>5, <2>6, <2>7 DEF LockInv
<1>2. ASSUME NEW c \in Clients, Reserve(c) PROVE LockInv'
  BY <1>2, LockLineLocks DEF Reserve
<1>3. ASSUME NEW c \in Clients, TakeLine(c) PROVE LockInv'
  BY <1>3, LockLineLocks DEF TakeLine
<1>4. ASSUME NEW c \in Clients, Refuse(c) \/ Victim(c) \/ ClientLost(c) PROVE LockInv'
  BY <1>4, EndLocks DEF Refuse, Victim, ClientLost
<1>5. ASSUME NEW c \in Clients, Commit(c) PROVE LockInv'
  BY <1>5, CommitLocks
<1>6. ASSUME NEW c \in Clients, NEW o \in Orders,
             (\E a \in Addresses : Place(c, o, a)) \/ (\E op \in DOMAIN Targets : Start(c, op, o))
      PROVE  LockInv'
  BY <1>6, PlaceBegins, StartBegins, BeginLocks DEF BeginsWell
<1>7. ASSUME NEW o \in Orders,
             \/ \E target \in {"PAID", "COMPLETED"} : Move(o, target)
             \/ \E a \in Addresses : UpdateAddress(o, a)
      PROVE  LockInv'
  BY <1>7, MoveLocks, UpdateAddressLocks
<1> QED BY <1>1, <1>2, <1>3, <1>4, <1>5, <1>6, <1>7 DEF StockNext, Steps

LEMMA LocksKept == StockSpec => []LockInv
<1> QED BY InitLocks, NextLocks, PTL DEF StockSpec

-----------------------------------------------------------------------------
(* What shipping and cancelling decided under the lock of the order row still *)
(* holds when they commit (order.py, ship_order and cancel_order), for any    *)
(* number of requests and however many inventory rows they lock in between.  *)
THEOREM DecisionsStand == StockSpec => []DecisionStands
<1>1. LockInv => DecisionStands
  <2> SUFFICES ASSUME LockInv, NEW c \in Clients, Open(c), txn[c].op \in DOMAIN Targets
               PROVE  /\ CanTransition(orders[txn[c].order].status, Targets[txn[c].op], ORDER_TRANSITIONS)
                      /\ \A d \in Clients \ {c} : Open(d) => txn[d].order # txn[c].order
    BY DEF DecisionStands
  <2>1. txn[c].op # "create" BY DEF Targets
  <2> QED BY <2>1 DEF LockInv, Found, OneTxnPerOrder
<1> QED BY <1>1, LocksKept, PTL

(* Requests wait for each other in a circle only over different orders with    *)
(* two products in common (order.py: the order row is locked before the       *)
(* inventory rows, and each row by one transaction).                        *)
THEOREM DeadlocksNeedTwoRows == StockSpec => []DeadlockNeedsTwoRows
<1>1. LockInv => DeadlockNeedsTwoRows
  <2> SUFFICES ASSUME LockInv, NEW c \in Clients, NEW d \in Clients, WaitsFor(c, d), WaitsFor(d, c)
               PROVE  /\ txn[c].order # txn[d].order
                      /\ Cardinality({Lines[txn[c].order][i].product : i \in LinesOf(txn[c].order)}
                           \cap {Lines[txn[d].order][i].product : i \in LinesOf(txn[d].order)}) > 1
    BY DEF DeadlockNeedsTwoRows
  <2> DEFINE P(e) == {Lines[txn[e].order][i].product : i \in LinesOf(txn[e].order)}
             p == NextLine(c).product
             q == NextLine(d).product
             B == P(c) \cap P(d)
  <2>1. c # d /\ Open(c) /\ Open(d) /\ p \in Held(d) /\ q \in Held(c)
    BY DEF WaitsFor, Locking
  <2>2. p # q BY <2>1 DEF LockInv, OneLockPerRow
  <2>3. \A e \in Clients : Held(e) \subseteq P(e) BY DEF Held, Done, LineAt
  <2>4. ASSUME NEW e \in Clients, Locking(e) PROVE NextLine(e).product \in P(e)
    <3>1. txn[e] \in OpenTxn BY <2>4, OpenIsTxn DEF LockInv, Locking
    <3>2. Head(txn[e].left) \in ToSet(txn[e].left)
      BY <2>4, <3>1, TailToSet DEF OpenTxn, Locking
    <3>3. Head(txn[e].left) \in LinesOf(txn[e].order)
      BY <2>4, <3>2 DEF LockInv, LinesLeft, Locking
    <3> QED BY <3>3 DEF NextLine, LineAt
  <2>5. p \in B /\ q \in B BY <2>1, <2>3, <2>4 DEF WaitsFor
  <2>6. \A e \in Clients : Open(e) => IsFiniteSet(P(e))
    <3> SUFFICES ASSUME NEW e \in Clients, Open(e) PROVE IsFiniteSet(P(e)) OBVIOUS
    <3>1. txn[e].order \in Orders BY OpenIsTxn DEF LockInv, OpenTxn
    <3>2. IsFiniteSet(LinesOf(txn[e].order))
      BY <3>1, StockAssumption, FS_Interval DEF LinesOf
    <3> DEFINE f == [i \in LinesOf(txn[e].order) |-> Lines[txn[e].order][i].product]
    <3>3. f \in Surjection(LinesOf(txn[e].order), P(e)) BY DEF Surjection
    <3> QED BY <3>2, <3>3, FS_Surjection
  <2>7. IsFiniteSet(B) BY <2>1, <2>6, FS_Intersection
  <2>8. Cardinality({p, q}) = 2
    <3> HIDE DEF p, q
    <3>1. IsFiniteSet({p}) /\ Cardinality({p}) = 1 /\ q \notin {p} BY <2>2, FS_Singleton
    <3>2. Cardinality({p} \cup {q}) = Cardinality({p}) + 1 BY <3>1, FS_AddElement
    <3>3. {p} \cup {q} = {p, q} OBVIOUS
    <3> QED BY <3>1, <3>2, <3>3
  <2>9. {p, q} \subseteq B /\ Cardinality({p, q}) <= Cardinality(B)
    BY <2>5, <2>7, FS_Subset
  <2>10. Cardinality(B) \in Nat BY <2>7, FS_CardinalityType
  <2>11. Cardinality(B) > 1 BY <2>8, <2>9, <2>10
  <2>12. txn[c].order # txn[d].order BY <2>1 DEF LockInv, OneTxnPerOrder
  <2> QED BY <2>11, <2>12
<1> QED BY <1>1, LocksKept, PTL

(* The address an order is packed with is the one it keeps (order.py,         *)
(* update_address: no change once the order is being shipped).              *)
THEOREM AddressesSettled == StockSpec => AddressSettled
<1> DEFINE Kept == \A o \in Orders : orders[o].status # "NONE" /\ Settled(o)
                     => orders'[o].address = orders[o].address
<1>1. LockInv /\ [StockNext]_stockVars => [Kept]_stockVars
  <2> SUFFICES ASSUME LockInv, StockNext, NEW o \in Orders, orders[o].status # "NONE", Settled(o)
               PROVE  orders'[o].address = orders[o].address
    OBVIOUS
  <2>1. ASSUME NEW c \in Clients, Commit(c) PROVE orders'[o].address = orders[o].address
    <3>1. txn[c] \in OpenTxn BY <2>1, OpenIsTxn DEF Commit, LockInv
    <3>2. CASE txn[c].order # o BY <2>1, <3>1, <3>2 DEF Commit, LockInv, Shape, OpenTxn
    <3>3. CASE txn[c].order = o
      <4>1. txn[c].op # "create" BY <2>1, <3>3 DEF LockInv, Found, Commit
      <4> QED BY <2>1, <3>1, <3>3, <4>1 DEF Commit, LockInv, Shape, OpenTxn
    <3> QED BY <3>2, <3>3
  <2>2. ASSUME NEW u \in Orders, NEW target \in {"PAID", "COMPLETED"}, Move(u, target)
        PROVE  orders'[o].address = orders[o].address
    BY <2>2 DEF Move, LockInv, Shape
  <2>3. ASSUME NEW u \in Orders, NEW a \in Addresses, UpdateAddress(u, a)
        PROVE  orders'[o].address = orders[o].address
    <3>1. u # o BY <2>3 DEF UpdateAddress, Settled
    <3> QED BY <2>3, <3>1 DEF UpdateAddress, LockInv, Shape
  <2>4. CASE UNCHANGED orders BY <2>4
  <2> QED BY <2>1, <2>2, <2>3, <2>4
       DEF StockNext, Steps, Reserve, TakeLine, Refuse, Victim, ClientLost, Place, Start
<1> QED BY <1>1, LocksKept, PTL DEF StockSpec, AddressSettled

-----------------------------------------------------------------------------
(* The books.  What lines add up to, for one product. *)
LEMMA LinesFinite ==
  ASSUME NEW o \in Orders, NEW lines, lines \subseteq LinesOf(o), NEW p
  PROVE  /\ IsFiniteSet({i \in lines : Lines[o][i].product = p})
         /\ \A i \in LinesOf(o) : Lines[o][i] \in [product : Products, quantity : Int]
<1>1. IsFiniteSet(LinesOf(o)) BY StockAssumption, FS_Interval DEF LinesOf
<1>2. IsFiniteSet({i \in lines : Lines[o][i].product = p}) BY <1>1, FS_Subset
<1> DEFINE R == [product : Products, quantity : Int]
<1>3. Lines[o] \in Seq(R) BY StockAssumption
<1>4. \A i \in LinesOf(o) : Lines[o][i] \in R
  <2> HIDE DEF R
  <2> QED BY <1>3 DEF LinesOf
<1> QED BY <1>2, <1>4

LEMMA QuantityType ==
  ASSUME NEW o \in Orders, NEW lines, lines \subseteq LinesOf(o), NEW p
  PROVE  /\ Quantity(o, lines, p) \in Int
         /\ (\A i \in lines : Orderable(Lines[o][i])) => Quantity(o, lines, p) >= 0
<1> DEFINE f == [i \in LinesOf(o) |-> Lines[o][i].quantity]
           S == {i \in lines : Lines[o][i].product = p}
<1>1. IsFiniteSet(S) /\ \A i \in S : f[i] \in Int BY LinesFinite
<1>2. SumFunctionOnSet(f, S) \in Int BY <1>1, SumType
<1>3. ASSUME \A i \in lines : Orderable(Lines[o][i]) PROVE SumFunctionOnSet(f, S) \in Nat
  <2>1. \A i \in S : f[i] \in Nat BY <1>1, <1>3 DEF Orderable
  <2> QED BY <1>1, <2>1, SumNat
<1> QED BY <1>2, <1>3 DEF Quantity

LEMMA QuantityNone ==
  ASSUME NEW o \in Orders, NEW lines, lines \subseteq LinesOf(o), NEW p,
         \A i \in lines : Lines[o][i].product # p
  PROVE  Quantity(o, lines, p) = 0
<1>1. {i \in lines : Lines[o][i].product = p} = {} OBVIOUS
<1> QED BY <1>1, SumEmpty DEF Quantity

LEMMA QuantityOneMore ==
  ASSUME NEW o \in Orders, NEW lines, lines \subseteq LinesOf(o), NEW i \in LinesOf(o),
         i \notin lines, NEW p
  PROVE  Quantity(o, lines \cup {i}, p) =
           Quantity(o, lines, p) + IF Lines[o][i].product = p THEN Lines[o][i].quantity ELSE 0
<1> DEFINE f == [j \in LinesOf(o) |-> Lines[o][j].quantity]
           S(l) == {j \in l : Lines[o][j].product = p}
<1>1. IsFiniteSet(S(lines)) /\ \A j \in LinesOf(o) : f[j] \in Int BY LinesFinite
<1>2. CASE Lines[o][i].product = p
  <2>1. S(lines \cup {i}) = S(lines) \cup {i} /\ i \notin S(lines) BY <1>2
  <2>2. \A j \in S(lines) \cup {i} : f[j] \in Int BY <1>1
  <2>3. SumFunctionOnSet(f, S(lines) \cup {i}) = SumFunctionOnSet(f, S(lines)) + f[i]
    BY <1>1, <2>1, <2>2, SumAdd
  <2> QED BY <1>2, <2>1, <2>3 DEF Quantity
<1>3. CASE Lines[o][i].product # p
  <2>1. S(lines \cup {i}) = S(lines) BY <1>3
  <2>2. Quantity(o, lines \cup {i}, p) = Quantity(o, lines, p) BY <2>1 DEF Quantity
  <2> QED BY <1>3, <2>2, QuantityType
<1> QED BY <1>2, <1>3

(* What orders add up to. *)
LEMMA TotalType ==
  ASSUME NEW os, os \subseteq Orders, NEW p
  PROVE  Total(os, p) \in Int
<1>1. IsFiniteSet(os) BY StockAssumption, FS_Subset
<1>2. \A o \in os : Quantity(o, LinesOf(o), p) \in Int BY QuantityType
<1> QED BY <1>1, <1>2, SumType DEF Total

LEMMA TotalOneMore ==
  ASSUME NEW os, os \subseteq Orders, NEW o \in Orders, o \notin os, NEW p
  PROVE  Total(os \cup {o}, p) = Total(os, p) + Quantity(o, LinesOf(o), p)
<1> DEFINE f == [u \in Orders |-> Quantity(u, LinesOf(u), p)]
<1>1. IsFiniteSet(os) BY StockAssumption, FS_Subset
<1>2. \A u \in Orders : f[u] \in Int BY QuantityType
<1>3. SumFunctionOnSet(f, os \cup {o}) = SumFunctionOnSet(f, os) + f[o]
  <2> HIDE DEF f
  <2> QED BY <1>1, <1>2, SumAdd
<1> QED BY <1>3 DEF Total

LEMMA TotalOneLess ==
  ASSUME NEW os, os \subseteq Orders, NEW o \in os, NEW p
  PROVE  Total(os \ {o}, p) = Total(os, p) - Quantity(o, LinesOf(o), p)
<1>1. (os \ {o}) \cup {o} = os OBVIOUS
<1>2. Total((os \ {o}) \cup {o}, p) = Total(os \ {o}, p) + Quantity(o, LinesOf(o), p)
  <2>1. os \ {o} \subseteq Orders /\ o \in Orders /\ o \notin os \ {o} OBVIOUS
  <2> QED BY <2>1, TotalOneMore
<1>3. Total(os \ {o}, p) \in Int /\ Quantity(o, LinesOf(o), p) \in Int /\ o \notin os \ {o}
  BY TotalType, QuantityType
<1>4. Total(os, p) = Total(os \ {o}, p) + Quantity(o, LinesOf(o), p) BY <1>1, <1>2
<1> QED BY <1>3, <1>4

(* An order owed its lines is part of what is owed. *)
LEMMA TotalCovers ==
  ASSUME NEW os, os \subseteq Orders, NEW o \in os, NEW p,
         \A u \in os : \A i \in LinesOf(u) : Orderable(Lines[u][i])
  PROVE  Quantity(o, LinesOf(o), p) <= Total(os, p)
<1> DEFINE f == [u \in Orders |-> Quantity(u, LinesOf(u), p)]
<1>1. IsFiniteSet(os \ {o}) BY StockAssumption, FS_Subset
<1>2. \A u \in os \ {o} : f[u] \in Nat BY QuantityType
<1>3. SumFunctionOnSet(f, os \ {o}) \in Nat
  <2> HIDE DEF f
  <2> QED BY <1>1, <1>2, SumNat
<1>4. Total(os, p) - Quantity(o, LinesOf(o), p) \in Nat BY <1>3, TotalOneLess DEF Total
<1> QED BY <1>4, TotalType, QuantityType

(* The inductive invariant of the books: only what can be ordered is ordered, *)
(* and what a transaction has taken so far is still on the shelf for it.     *)
OnlyOrderable ==
  /\ \A o \in Orders : orders[o].status # "NONE" => \A i \in LinesOf(o) : Orderable(Lines[o][i])
  /\ \A c \in Clients : Open(c) => \A i \in Done(c) : Orderable(LineAt(c, i))

StillThere ==
  \A c \in Clients, p \in Products :
    Open(c) /\ txn[c].op = "create"
      => Quantity(txn[c].order, Done(c), p) <= stock[p].available - stock[p].reserved

BookInv ==
  /\ stock \in [Products -> [available : Int, reserved : Int]]
  /\ \A p \in Products : CheckHolds(stock[p])
  /\ BooksBalance /\ OnlyOrderable /\ StillThere

LEMMA InitBooks == StockInit => BookInv
<1> SUFFICES ASSUME StockInit PROVE BookInv OBVIOUS
<1>1. stock \in [Products -> [available : Int, reserved : Int]]
  BY StockAssumption DEF StockInit
<1>2. \A p \in Products : stock[p].available = Stock0[p] /\ stock[p].reserved = 0 /\ Stock0[p] \in Nat
  BY StockAssumption DEF StockInit
<1>3. \A p \in Products : CheckHolds(stock[p]) BY <1>2 DEF CheckHolds
<1>4. \A c \in Clients : ~Open(c) BY DEF StockInit, Open
<1>5. \A o \in Orders : orders[o].status = "NONE" BY DEF StockInit
<1>6. Owing = {} /\ Shipped = {} BY <1>5 DEF Owing, Shipped
<1>7. \A p : Total({}, p) = 0 BY SumEmpty DEF Total
<1>8. BooksBalance BY <1>2, <1>6, <1>7 DEF BooksBalance
<1> QED BY <1>1, <1>3, <1>4, <1>5, <1>8 DEF BookInv, OnlyOrderable, StillThere

(* Whatever leaves orders and stock alone and takes no line leaves the books  *)
(* alone.                                                                   *)
LEMMA SameBooks ==
  ASSUME BookInv, UNCHANGED stock,
         \A o \in Orders : orders'[o].status = orders[o].status,
         \A c \in Clients : Open(c)' => (Open(c) /\ txn'[c] = txn[c]) \/ Done(c)' = {},
         \A c \in Clients : Open(c)' => txn'[c].order \in Orders
  PROVE  BookInv'
<1>1. BooksBalance'
  <2>1. Owing' = Owing /\ Shipped' = Shipped BY DEF Owing, Shipped
  <2> QED BY <2>1 DEF BooksBalance, BookInv, Total, Quantity, LinesOf
<1>2. \A c \in Clients : txn'[c] = txn[c] => Done(c)' = Done(c) /\ \A i : LineAt(c, i)' = LineAt(c, i)
  BY DEF Done, LinesOf, LineAt
<1>3. OnlyOrderable' BY <1>2 DEF BookInv, OnlyOrderable, Orderable, LinesOf
<1>4. StillThere'
  <2> SUFFICES ASSUME NEW c \in Clients, NEW p \in Products, Open(c)', txn'[c].op = "create"
               PROVE  Quantity(txn'[c].order, Done(c)', p) <= stock[p].available - stock[p].reserved
    BY DEF StillThere, Quantity, LinesOf
  <2>1. CASE txn'[c] = txn[c] /\ Open(c) BY <1>2, <2>1 DEF BookInv, StillThere
  <2>2. CASE Done(c)' = {}
    <3>1. Quantity(txn'[c].order, {}, p) = 0 BY SumEmpty, QuantityNone
    <3> QED BY <2>2, <3>1 DEF BookInv, CheckHolds
  <2> QED BY <2>1, <2>2
<1> QED BY <1>1, <1>3, <1>4 DEF BookInv, CheckHolds

(* A line locked is a line of the order that was not locked before.         *)
LEMMA LineTaken ==
  ASSUME LockInv, NEW c \in Clients, Locking(c), LockLine(c)
  PROVE  /\ Open(c) /\ txn[c] \in OpenTxn /\ Done(c) \subseteq LinesOf(txn[c].order)
         /\ txn'[c].order = txn[c].order /\ txn'[c].op = txn[c].op
         /\ \A d \in Clients \ {c} : txn'[d] = txn[d]
         /\ Head(txn[c].left) \in LinesOf(txn[c].order) \ Done(c)
         /\ Done(c)' = Done(c) \/ Done(c)' = Done(c) \cup {Head(txn[c].left)}
<1>1. Open(c) /\ txn[c] \in OpenTxn BY OpenIsTxn DEF Locking, LockInv
<1>2. txn[c].left \in Seq(Int) /\ txn[c].left # <<>> BY <1>1 DEF OpenTxn, Locking
<1>3. txn'[c] = [txn[c] EXCEPT !.left = Tail(@)] /\ \A d \in Clients \ {c} : txn'[d] = txn[d]
  BY DEF LockLine, LockInv, Shape
<1>4. txn'[c].order = txn[c].order /\ txn'[c].op = txn[c].op /\ txn'[c].left = Tail(txn[c].left)
  BY <1>1, <1>3 DEF OpenTxn
<1>5. Done(c)' = LinesOf(txn[c].order) \ ToSet(Tail(txn[c].left)) BY <1>4 DEF Done, LinesOf
<1>6. ToSet(txn[c].left) \subseteq LinesOf(txn[c].order) BY <1>1 DEF LockInv, LinesLeft
<1>7. Head(txn[c].left) \in LinesOf(txn[c].order) \ Done(c)
  BY <1>2, <1>6, TailToSet DEF Done
<1>8. Done(c)' = Done(c) \/ Done(c)' = Done(c) \cup {Head(txn[c].left)}
  BY <1>2, <1>5, <1>7, TailToSet DEF Done
<1> QED BY <1>1, <1>3, <1>4, <1>7, <1>8 DEF Done

(* Taking a line that can be ordered, and for which there is enough.        *)
LEMMA LineTakenBooks ==
  ASSUME LockInv, BookInv, NEW c \in Clients, Locking(c), LockLine(c), UNCHANGED <<orders, stock>>,
         Orderable(NextLine(c)),
         txn[c].op = "create" => Sellable(c, NextLine(c).product) >= NextLine(c).quantity
  PROVE  BookInv'
<1> DEFINE o == txn[c].order
           h == Head(txn[c].left)
<1>1. /\ Open(c) /\ txn[c] \in OpenTxn /\ Done(c) \subseteq LinesOf(o)
      /\ txn'[c].order = o /\ txn'[c].op = txn[c].op
      /\ \A d \in Clients \ {c} : txn'[d] = txn[d]
      /\ h \in LinesOf(o) \ Done(c)
      /\ Done(c)' = Done(c) \/ Done(c)' = Done(c) \cup {h}
  BY LineTaken
<1>2. o \in Orders BY <1>1 DEF OpenTxn
<1>3. NextLine(c) = Lines[o][h] BY DEF NextLine, LineAt
<1>4. \A d \in Clients \ {c} : /\ Open(d)' = Open(d) /\ Done(d)' = Done(d)
                               /\ \A i : LineAt(d, i)' = LineAt(d, i)
  BY <1>1 DEF Open, Idle, Done, LinesOf, LineAt
<1>5. \A i : LineAt(c, i)' = LineAt(c, i) /\ LineAt(c, i) = Lines[o][i] BY <1>1 DEF LineAt
<1>6. BooksBalance' BY DEF BookInv, BooksBalance, Owing, Shipped, Total, Quantity, LinesOf
<1>7. OnlyOrderable'
  <2>1. \A i \in Done(c)' : Orderable(LineAt(c, i)')
    BY <1>1, <1>3, <1>5 DEF BookInv, OnlyOrderable
  <2> QED BY <1>4, <2>1 DEF BookInv, OnlyOrderable, Orderable, LinesOf
<1>8. StillThere'
  <2> SUFFICES ASSUME NEW d \in Clients, NEW p \in Products, Open(d)', txn'[d].op = "create"
               PROVE  Quantity(txn'[d].order, Done(d)', p) <= stock[p].available - stock[p].reserved
    BY DEF StillThere, Quantity, LinesOf
  <2>1. CASE d # c BY <1>1, <1>4, <2>1 DEF BookInv, StillThere
  <2>2. CASE d = c
    <3>1. Quantity(o, Done(c), p) <= stock[p].available - stock[p].reserved
      BY <1>1, <2>2 DEF BookInv, StillThere
    <3>2. CASE Done(c)' = Done(c) BY <1>1, <2>2, <3>1, <3>2
    <3>3. CASE Done(c)' = Done(c) \cup {h}
      <4>1. Quantity(o, Done(c) \cup {h}, p) =
              Quantity(o, Done(c), p) + IF Lines[o][h].product = p THEN Lines[o][h].quantity ELSE 0
        <5>1. Done(c) \subseteq LinesOf(o) /\ h \in LinesOf(o) /\ h \notin Done(c) BY <1>1
        <5> HIDE DEF o, h
        <5> QED BY <1>2, <5>1, QuantityOneMore
      <4>2. Quantity(o, Done(c), p) \in Int BY <1>1, <1>2, QuantityType
      <4>3. stock[p].available \in Int /\ stock[p].reserved \in Int BY DEF BookInv
      <4>4. CASE Lines[o][h].product = p
        <5>1. Lines[o][h].quantity \in Int BY <1>1, <1>2, LinesFinite
        <5>2. stock[p].available - stock[p].reserved - Quantity(o, Done(c), p) >= Lines[o][h].quantity
          BY <1>1, <1>3, <2>2, <4>4 DEF Sellable
        <5> QED BY <1>1, <2>2, <3>3, <4>1, <4>2, <4>3, <4>4, <5>1, <5>2
      <4>5. CASE Lines[o][h].product # p BY <1>1, <2>2, <3>1, <3>3, <4>1, <4>2, <4>5
      <4> QED BY <4>4, <4>5
    <3> QED BY <1>1, <3>2, <3>3
  <2> QED BY <2>1, <2>2
<1> QED BY <1>6, <1>7, <1>8 DEF BookInv, CheckHolds

LEMMA TakeLineBooks ==
  ASSUME LockInv, BookInv, NEW c \in Clients, TakeLine(c) PROVE BookInv'
<1>1. txn[c].op # "create" BY DEF TakeLine, Targets
<1>2. Locking(c) /\ LockLine(c) /\ UNCHANGED <<orders, stock>> BY DEF TakeLine
<1>3. orders[txn[c].order].status # "NONE"
  BY <1>1, <1>2 DEF LockInv, Found, Locking, CanTransition, ORDER_TRANSITIONS
<1>4. txn[c] \in OpenTxn /\ Head(txn[c].left) \in LinesOf(txn[c].order) BY <1>2, LineTaken
<1>5. Orderable(NextLine(c)) BY <1>3, <1>4 DEF BookInv, OnlyOrderable, NextLine, LineAt, OpenTxn
<1> QED BY <1>1, <1>2, <1>5, LineTakenBooks

(* What an open transaction that has locked all it needs stands for.        *)
LEMMA AllLocked ==
  ASSUME LockInv, BookInv, NEW c \in Clients, Open(c), txn[c].left = <<>>, NEW p \in Products
  PROVE  LET o == txn[c].order
             n == Quantity(o, LinesOf(o), p)
         IN  /\ txn[c] \in OpenTxn /\ o \in Orders /\ Done(c) = LinesOf(o)
             /\ \A i \in LinesOf(o) : Orderable(Lines[o][i])
             /\ n \in Int /\ n >= 0
             /\ p \notin Held(c) => n = 0
             /\ txn[c].op = "create" => o \notin Owing \cup Shipped
             /\ txn[c].op = "ship" => o \in Owing /\ o \notin Shipped
             /\ txn[c].op = "cancel" => o \in Owing /\ o \notin Shipped
             /\ txn[c].op \in Ops
<1> DEFINE o == txn[c].order
<1>1. txn[c] \in OpenTxn BY OpenIsTxn DEF LockInv
<1>2. o \in Orders /\ txn[c].op \in Ops BY <1>1 DEF OpenTxn
<1>3. Done(c) = LinesOf(o) BY DEF Done, ToSet
<1>4. \A i \in LinesOf(o) : Orderable(Lines[o][i]) BY <1>3 DEF BookInv, OnlyOrderable, LineAt
<1>5. Quantity(o, LinesOf(o), p) \in Int /\ Quantity(o, LinesOf(o), p) >= 0
  BY <1>2, <1>4, QuantityType
<1>6. p \notin Held(c) => Quantity(o, LinesOf(o), p) = 0
  BY <1>2, <1>3, QuantityNone DEF Held, LineAt
<1>7. txn[c].op = "create" => orders[o].status = "NONE" BY DEF LockInv, Found
<1>8. txn[c].op = "ship" => orders[o].status = "PAID"
  BY DEF LockInv, Found, CanTransition, ORDER_TRANSITIONS, Targets
<1>9. txn[c].op = "cancel" => orders[o].status \in {"CREATED", "PAID"}
  BY DEF LockInv, Found, CanTransition, ORDER_TRANSITIONS, Targets
<1> QED BY <1>1, <1>2, <1>3, <1>4, <1>5, <1>6, <1>7, <1>8, <1>9 DEF Owing, Shipped

(* The CHECKs refuse nothing to whoever has locked all rows it needs.       *)
LEMMA BooksNeverRefuse == LockInv /\ BookInv => NeverRefusedByCheck
<1> SUFFICES ASSUME LockInv, BookInv, NEW c \in Clients, Open(c), txn[c].left = <<>>,
                    NEW p \in Products
             PROVE  CheckHolds(After(c)[p])
  BY DEF NeverRefusedByCheck
<1> DEFINE o == txn[c].order
           n == Quantity(o, LinesOf(o), p)
           a == stock[p].available
           r == stock[p].reserved
<1>1. /\ txn[c] \in OpenTxn /\ o \in Orders /\ Done(c) = LinesOf(o)
      /\ n \in Int /\ n >= 0 /\ txn[c].op \in Ops
      /\ txn[c].op = "ship" => o \in Owing
      /\ txn[c].op = "cancel" => o \in Owing
  BY AllLocked
<1>2. a \in Int /\ r \in Int /\ a >= 0 /\ r >= 0 /\ r <= a
      /\ stock[p] = [available |-> a, reserved |-> r]
  BY DEF BookInv, CheckHolds
<1>3. txn[c].op = "create" => n <= a - r BY <1>1 DEF BookInv, StillThere
<1>4. o \in Owing => n <= r
  <2>1. \A u \in Owing : \A i \in LinesOf(u) : Orderable(Lines[u][i])
    BY DEF BookInv, OnlyOrderable, Owing
  <2>2. o \in Owing => n <= Total(Owing, p)
    <3>1. Owing \subseteq Orders BY DEF Owing
    <3> QED BY <2>1, <3>1, TotalCovers
  <2> QED BY <2>2 DEF BookInv, BooksBalance
<1>5. After(c)[p] = Moved(txn[c].op, stock[p], n) BY DEF After
<1> HIDE DEF n, a, r
<1>9. After(c)[p] = Moved(txn[c].op, [available |-> a, reserved |-> r], n) BY <1>2, <1>5
<1>6. CASE txn[c].op = "create"
  <2>1. After(c)[p] = [available |-> a, reserved |-> r + n] BY <1>9, <1>6 DEF Moved
  <2> QED BY <1>1, <1>2, <1>3, <1>6, <2>1 DEF CheckHolds
<1>7. CASE txn[c].op = "cancel"
  <2>1. After(c)[p] = [available |-> a, reserved |-> r - n] BY <1>9, <1>7 DEF Moved
  <2> QED BY <1>1, <1>2, <1>4, <1>7, <2>1 DEF CheckHolds
<1>8. CASE txn[c].op = "ship"
  <2>1. After(c)[p] = [available |-> a - n, reserved |-> r - n] BY <1>9, <1>8 DEF Moved
  <2> QED BY <1>1, <1>2, <1>4, <1>8, <2>1 DEF CheckHolds
<1> QED BY <1>1, <1>6, <1>7, <1>8 DEF Ops

LEMMA CommitBooks == ASSUME LockInv, BookInv, NEW c \in Clients, Commit(c) PROVE BookInv'
<1> DEFINE o == txn[c].order
           n(p) == Quantity(o, LinesOf(o), p)
<1>1. Open(c) /\ txn[c].left = <<>> /\ stock' = After(c) /\ End(c) BY DEF Commit
<1>2. \A p \in Products : CheckHolds(stock'[p]) BY DEF Commit
<1>3. txn[c] \in OpenTxn /\ o \in Orders /\ Done(c) = LinesOf(o) /\ txn[c].op \in Ops
  <2>1. txn[c] \in OpenTxn BY <1>1, OpenIsTxn DEF LockInv
  <2> QED BY <1>1, <2>1 DEF OpenTxn, Done, ToSet
<1>4. \A i \in LinesOf(o) : Orderable(Lines[o][i])
  BY <1>1, <1>3 DEF BookInv, OnlyOrderable, LineAt
<1>5. ASSUME NEW p \in Products
      PROVE  /\ n(p) \in Int /\ n(p) >= 0 /\ (p \notin Held(c) => n(p) = 0)
             /\ txn[c].op = "create" => o \notin Owing \cup Shipped
             /\ txn[c].op = "ship" => o \in Owing /\ o \notin Shipped
             /\ txn[c].op = "cancel" => o \in Owing /\ o \notin Shipped
  BY <1>1, AllLocked
<1>6. ASSUME NEW p \in Products
      PROVE  /\ stock[p].available \in Int /\ stock[p].reserved \in Int
             /\ stock[p] = [available |-> stock[p].available, reserved |-> stock[p].reserved]
             /\ stock'[p] = Moved(txn[c].op, stock[p], n(p))
  BY <1>1 DEF After, BookInv
<1>7. ASSUME NEW p \in Products
      PROVE  /\ stock'[p] \in [available : Int, reserved : Int]
             /\ txn[c].op = "create" => /\ stock'[p].reserved = stock[p].reserved + n(p)
                                        /\ stock'[p].available = stock[p].available
             /\ txn[c].op = "cancel" => /\ stock'[p].reserved = stock[p].reserved - n(p)
                                        /\ stock'[p].available = stock[p].available
             /\ txn[c].op = "ship" => /\ stock'[p].reserved = stock[p].reserved - n(p)
                                      /\ stock'[p].available = stock[p].available - n(p)
  <2> DEFINE a == stock[p].available
             r == stock[p].reserved
             m == n(p)
  <2>1. a \in Int /\ r \in Int /\ m \in Int /\ stock[p] = [available |-> a, reserved |-> r]
        /\ stock'[p] = Moved(txn[c].op, stock[p], m)
    BY <1>5, <1>6
  <2> HIDE DEF a, r, m
  <2>2. stock'[p] = Moved(txn[c].op, [available |-> a, reserved |-> r], m) BY <2>1
  <2>3. CASE txn[c].op = "create"
    <3>1. stock'[p] = [available |-> a, reserved |-> r + m] BY <2>2, <2>3 DEF Moved
    <3> QED BY <2>1, <2>3, <3>1 DEF a, r, m
  <2>4. CASE txn[c].op = "cancel"
    <3>1. stock'[p] = [available |-> a, reserved |-> r - m] BY <2>2, <2>4 DEF Moved
    <3> QED BY <2>1, <2>4, <3>1 DEF a, r, m
  <2>5. CASE txn[c].op = "ship"
    <3>1. stock'[p] = [available |-> a - m, reserved |-> r - m] BY <2>2, <2>5 DEF Moved
    <3> QED BY <2>1, <2>5, <3>1 DEF a, r, m
  <2> QED BY <1>3, <2>3, <2>4, <2>5 DEF Ops
<1>8. stock' \in [Products -> [available : Int, reserved : Int]]
  <2>1. stock' = [p \in Products |-> stock'[p]] BY <1>1 DEF After
  <2> HIDE DEF n
  <2> QED BY <1>7, <2>1
<1>9. /\ \A u \in Orders \ {o} : orders'[u] = orders[u]
      /\ orders'[o].status = IF txn[c].op = "create" THEN "CREATED" ELSE Targets[txn[c].op]
  BY <1>3 DEF Commit, LockInv, Shape
<1>10. BooksBalance'
  <2> SUFFICES ASSUME NEW p \in Products
               PROVE  /\ stock'[p].reserved = Total(Owing', p)
                      /\ stock'[p].available + Total(Shipped', p) = Stock0[p]
    BY DEF BooksBalance, Total, Quantity, LinesOf
  <2>1. Owing \subseteq Orders /\ Shipped \subseteq Orders BY DEF Owing, Shipped
  <2>2. Total(Owing, p) \in Int /\ Total(Shipped, p) \in Int BY <2>1, TotalType
  <2>3. stock[p].reserved = Total(Owing, p) /\ stock[p].available + Total(Shipped, p) = Stock0[p]
    BY DEF BookInv, BooksBalance
  <2>4. n(p) \in Int /\ stock[p].available \in Int BY <1>5, <1>6
  <2>5. CASE txn[c].op = "create"
    <3>1. o \notin Owing /\ o \notin Shipped BY <1>5, <2>5
    <3>2. Owing' = Owing \cup {o} BY <1>3, <1>9, <2>5 DEF Owing
    <3>3. Shipped' = Shipped BY <1>3, <1>9, <2>5, <3>1 DEF Shipped
    <3>4. Total(Owing \cup {o}, p) = Total(Owing, p) + n(p) BY <1>3, <2>1, <3>1, TotalOneMore
    <3> QED BY <1>7, <2>3, <2>5, <3>2, <3>3, <3>4
  <2>6. CASE txn[c].op = "cancel"
    <3>1. o \in Owing /\ o \notin Shipped BY <1>5, <2>6
    <3>2. orders'[o].status = "CANCELLED" BY <1>9, <2>6 DEF Targets
    <3>3. Owing' = Owing \ {o} BY <1>3, <1>9, <3>2 DEF Owing
    <3>4. Shipped' = Shipped BY <1>3, <1>9, <3>1, <3>2 DEF Shipped
    <3>5. Total(Owing \ {o}, p) = Total(Owing, p) - n(p) BY <2>1, <3>1, TotalOneLess
    <3> QED BY <1>7, <2>3, <2>6, <3>3, <3>4, <3>5
  <2>7. CASE txn[c].op = "ship"
    <3>1. o \in Owing /\ o \notin Shipped BY <1>5, <2>7
    <3>2. orders'[o].status = "SHIPPED" BY <1>9, <2>7 DEF Targets
    <3>3. Owing' = Owing \ {o} BY <1>3, <1>9, <3>2 DEF Owing
    <3>4. Shipped' = Shipped \cup {o} BY <1>3, <1>9, <3>2 DEF Shipped
    <3>5. Total(Owing \ {o}, p) = Total(Owing, p) - n(p) BY <2>1, <3>1, TotalOneLess
    <3>6. Total(Shipped \cup {o}, p) = Total(Shipped, p) + n(p) BY <1>3, <2>1, <3>1, TotalOneMore
    <3>7. stock'[p].reserved = Total(Owing', p) BY <1>7, <2>3, <2>7, <3>3, <3>5
    <3>8. stock'[p].available = stock[p].available - n(p) BY <1>7, <2>7
    <3> HIDE DEF n
    <3> QED BY <2>2, <2>3, <2>4, <3>4, <3>6, <3>7, <3>8
  <2> QED BY <1>3, <2>5, <2>6, <2>7 DEF Ops
<1>11. /\ txn'[c] = Idle /\ ~Open(c)'
       /\ \A d \in Clients \ {c} : /\ txn'[d] = txn[d] /\ Open(d)' = Open(d)
                                   /\ Done(d)' = Done(d)
                                   /\ \A i : LineAt(d, i)' = LineAt(d, i)
  BY <1>1, OthersStand DEF End, Open, Idle, Done, LinesOf, LineAt
<1>12. OnlyOrderable'
  BY <1>4, <1>9, <1>11 DEF BookInv, OnlyOrderable, Orderable, LinesOf
<1>13. StillThere'
  <2> SUFFICES ASSUME NEW d \in Clients, NEW p \in Products, Open(d)', txn'[d].op = "create"
               PROVE  Quantity(txn'[d].order, Done(d)', p) <= stock'[p].available - stock'[p].reserved
    BY DEF StillThere, Quantity, LinesOf
  <2>1. d # c /\ txn'[d] = txn[d] /\ Open(d) /\ Done(d)' = Done(d) BY <1>11
  <2>2. txn[d] \in OpenTxn BY <2>1, OpenIsTxn DEF LockInv
  <2>3. txn[d].order \in Orders /\ Done(d) \subseteq LinesOf(txn[d].order)
    BY <2>2 DEF OpenTxn, Done
  <2>4. CASE p \in Held(c)
    <3>1. p \notin Held(d) BY <2>1, <2>4 DEF LockInv, OneLockPerRow
    <3>2. Quantity(txn[d].order, Done(d), p) = 0
      BY <2>1, <2>3, <3>1, QuantityNone DEF Held, LineAt
    <3>3. CheckHolds(stock'[p]) /\ stock'[p] \in [available : Int, reserved : Int] BY <1>2, <1>7
    <3> QED BY <2>1, <3>2, <3>3 DEF CheckHolds
  <2>5. CASE p \notin Held(c)
    <3>1. n(p) = 0 BY <1>5, <2>5
    <3>2. stock'[p].available = stock[p].available /\ stock'[p].reserved = stock[p].reserved
      <4> DEFINE m == n(p)
      <4>1. m = 0 /\ stock[p].available \in Int /\ stock[p].reserved \in Int BY <1>6, <3>1
      <4>2. /\ txn[c].op = "create" => /\ stock'[p].reserved = stock[p].reserved + m
                                       /\ stock'[p].available = stock[p].available
            /\ txn[c].op = "cancel" => /\ stock'[p].reserved = stock[p].reserved - m
                                       /\ stock'[p].available = stock[p].available
            /\ txn[c].op = "ship" => /\ stock'[p].reserved = stock[p].reserved - m
                                     /\ stock'[p].available = stock[p].available - m
        BY <1>7
      <4> HIDE DEF m
      <4> QED BY <1>3, <4>1, <4>2 DEF Ops
    <3> QED BY <2>1, <3>2 DEF BookInv, StillThere
  <2> QED BY <2>4, <2>5
<1> QED BY <1>2, <1>8, <1>10, <1>12, <1>13 DEF BookInv, CheckHolds

LEMMA EndBooks ==
  ASSUME LockInv, BookInv, NEW c \in Clients, End(c), UNCHANGED <<orders, stock>> PROVE BookInv'
<1>1. ~Open(c)' /\ \A d \in Clients \ {c} : txn'[d] = txn[d] /\ Open(d)' = Open(d)
  BY OthersStand DEF End, Open
<1>2. \A d \in Clients : Open(d) => txn[d].order \in Orders BY OpenIsTxn DEF LockInv, OpenTxn
<1> QED BY <1>1, <1>2, SameBooks

LEMMA BeginBooks ==
  ASSUME LockInv, BookInv, NEW c \in Clients, NEW t \in OpenTxn, Begin(c, t),
         ToSet(t.left) = LinesOf(t.order), UNCHANGED <<orders, stock>>
  PROVE  BookInv'
<1>1. txn'[c] = t /\ \A d \in Clients \ {c} : txn'[d] = txn[d] /\ Open(d)' = Open(d)
  BY OthersStand DEF Open
<1>2. Done(c)' = {} BY <1>1 DEF Done, LinesOf
<1>3. \A d \in Clients : Open(d) => txn[d].order \in Orders BY OpenIsTxn DEF LockInv, OpenTxn
<1>4. t.order \in Orders BY DEF OpenTxn
<1> QED BY <1>1, <1>2, <1>3, <1>4, SameBooks

LEMMA MoveBooks ==
  ASSUME LockInv, BookInv, NEW o \in Orders, NEW target \in {"PAID", "COMPLETED"}, Move(o, target)
  PROVE  BookInv'
<1>1. /\ orders'[o].status = target /\ \A u \in Orders \ {o} : orders'[u] = orders[u]
      /\ orders[o].status # "NONE"
  BY DEF Move, LockInv, Shape
<1>2. orders[o].status = IF target = "PAID" THEN "CREATED" ELSE "SHIPPED"
  BY DEF Move, CanTransition, ORDER_TRANSITIONS
<1>3. Owing' = Owing /\ Shipped' = Shipped BY <1>1, <1>2 DEF Owing, Shipped
<1>4. BooksBalance' BY <1>3 DEF Move, BookInv, BooksBalance, Total, Quantity, LinesOf
<1>5. \A c \in Clients : /\ Open(c)' = Open(c) /\ Done(c)' = Done(c)
                         /\ \A i : LineAt(c, i)' = LineAt(c, i)
  BY DEF Move, Open, Idle, Done, LinesOf, LineAt
<1>6. OnlyOrderable' BY <1>1, <1>5 DEF BookInv, OnlyOrderable, Orderable, LinesOf
<1>7. StillThere' BY <1>5 DEF Move, BookInv, StillThere, Quantity, LinesOf
<1> QED BY <1>4, <1>6, <1>7 DEF Move, BookInv, CheckHolds

LEMMA NextBooks == LockInv /\ BookInv /\ [StockNext]_stockVars => BookInv'
<1> SUFFICES ASSUME LockInv, BookInv, [StockNext]_stockVars PROVE BookInv' OBVIOUS
<1>0. \A d \in Clients : Open(d) => txn[d].order \in Orders BY OpenIsTxn DEF LockInv, OpenTxn
<1>1. CASE UNCHANGED stockVars
  <2>1. UNCHANGED <<orders, stock, txn>> BY <1>1 DEF stockVars
  <2>2. \A d \in Clients : Open(d)' = Open(d) BY <2>1 DEF Open, Idle
  <2> QED BY <1>0, <2>1, <2>2, SameBooks
<1>2. ASSUME NEW c \in Clients, Reserve(c) PROVE BookInv'
  BY <1>2, LineTakenBooks DEF Reserve
<1>3. ASSUME NEW c \in Clients, TakeLine(c) PROVE BookInv'
  BY <1>3, TakeLineBooks
<1>4. ASSUME NEW c \in Clients, Refuse(c) \/ Victim(c) \/ ClientLost(c) PROVE BookInv'
  BY <1>4, EndBooks DEF Refuse, Victim, ClientLost
<1>5. ASSUME NEW c \in Clients, Commit(c) PROVE BookInv'
  BY <1>5, CommitBooks
<1>6. ASSUME NEW c \in Clients, NEW o \in Orders,
             (\E a \in Addresses : Place(c, o, a)) \/ (\E op \in DOMAIN Targets : Start(c, op, o))
      PROVE  BookInv'
  BY <1>6, PlaceBegins, StartBegins, BeginBooks DEF BeginsWell
<1>7. ASSUME NEW o \in Orders, NEW target \in {"PAID", "COMPLETED"}, Move(o, target)
      PROVE  BookInv'
  BY <1>7, MoveBooks
<1>8. ASSUME NEW o \in Orders, NEW a \in Addresses, UpdateAddress(o, a) PROVE BookInv'
  <2>1. UNCHANGED <<stock, txn>> /\ \A u \in Orders : orders'[u].status = orders[u].status
    BY <1>8 DEF UpdateAddress, LockInv, Shape
  <2>2. \A d \in Clients : Open(d)' = Open(d) BY <2>1 DEF Open, Idle
  <2> QED BY <1>0, <2>1, <2>2, SameBooks
<1> QED BY <1>1, <1>2, <1>3, <1>4, <1>5, <1>6, <1>7, <1>8 DEF StockNext, Steps

LEMMA BooksKept == StockSpec => []BookInv
<1> QED BY InitBooks, NextBooks, LocksKept, PTL DEF StockSpec

(* What is reserved is what is owed, and what has left the shelf is what was  *)
(* shipped, for any orders placed, shipped and cancelled by any number of    *)
(* requests at once, whoever is rolled back (order.py, _reserve_stock,       *)
(* ship_order, cancel_order).                                               *)
THEOREM BooksAlwaysBalance == StockSpec => []BooksBalance
<1>1. BookInv => BooksBalance BY DEF BookInv
<1> QED BY <1>1, BooksKept, PTL

(* The CHECK constraints of catalog.py never refuse a transaction that has    *)
(* locked all the rows it needs: the checks under the locks were enough.     *)
THEOREM ChecksNeverRefuse == StockSpec => []NeverRefusedByCheck
<1> QED BY BooksNeverRefuse, LocksKept, BooksKept, PTL

LEMMA SeqOfItsElements ==
  ASSUME NEW q \in Seq(Int), NEW S, ToSet(q) \subseteq S PROVE q \in Seq(S)
<1>1. Len(q) \in Nat /\ DOMAIN q = 1..Len(q) OBVIOUS
<1>2. q = [i \in 1..Len(q) |-> q[i]] OBVIOUS
<1>3. \A i \in 1..Len(q) : q[i] \in S BY <1>1 DEF ToSet
<1>4. q \in [1..Len(q) -> S] BY <1>2, <1>3
<1> QED BY <1>1, <1>4

(* Rows and transactions have the shape the model gives them. *)
THEOREM StockTypeCorrect == StockSpec => []StockTypeOK
<1>1. LockInv /\ BookInv => StockTypeOK
  <2> SUFFICES ASSUME LockInv, BookInv PROVE StockTypeOK OBVIOUS
  <2>1. ASSUME NEW c \in Clients, txn[c] # Idle PROVE txn[c] \in Txn
    <3>1. Open(c) /\ txn[c] \in OpenTxn BY <2>1, OpenIsTxn DEF Open, LockInv
    <3>2. txn[c].order \in Orders /\ txn[c].left \in Seq(Int) BY <3>1 DEF OpenTxn
    <3>3. txn[c].left \in Seq(LinesOf(txn[c].order))
      BY <3>1, <3>2, SeqOfItsElements DEF LockInv, LinesLeft
    <3> DEFINE U == UNION {Seq(LinesOf(o)) : o \in Orders}
    <3>4. txn[c].left \in U BY <3>2, <3>3
    <3> HIDE DEF U
    <3>5. txn[c] \in [op : Ops, order : Orders, left : U, address : Addresses]
      BY <3>1, <3>4 DEF OpenTxn
    <3> QED BY <3>5 DEF Txn, Ops, U
  <2> QED BY <2>1 DEF StockTypeOK, LockInv, Shape, BookInv
<1> QED BY <1>1, LocksKept, BooksKept, PTL
=============================================================================
