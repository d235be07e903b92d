-------------------------------- MODULE Stock --------------------------------
(***************************************************************************)
(* Orders and the inventory they reserve (services/order.py, the CHECKs of   *)
(* models/catalog.py, the routes of api/routes/orders.py).                  *)
(*                                                                         *)
(* `orders` and `stock` are the committed rows.  Placing, shipping and       *)
(* cancelling an order lock one inventory row after the other and change     *)
(* the rows only when they commit; `txn` is the open transaction of a        *)
(* client: what it does, to which order, the order lines it has still to     *)
(* lock.  Because a row is locked before it is read, what a transaction has  *)
(* in its session is the committed row and its own lines so far.             *)
(*                                                                         *)
(* Paying, completing and changing the address hold one row lock and         *)
(* nothing else, so each is one action.  create_order places the lines as    *)
(* they were given; `order.items` is loaded without ORDER BY, so shipping    *)
(* and cancelling meet them in any order.  Prices, the customer and the      *)
(* `version` column (incremented, never compared) are left out.             *)
(***************************************************************************)
EXTENDS Integers, Sequences, FiniteSets, SequencesExt, StateTables

CONSTANTS
  Clients,    \* requests being served
  Orders,     \* the orders that may be placed
  Products,
  Lines,      \* order -> its lines, [product, quantity], as the customer gave them
  OnSale,     \* products that may be ordered
  Stock0,     \* product -> available_qty before the first order
  Addresses

ASSUME StockAssumption ==
  /\ Lines \in [Orders -> Seq([product : Products, quantity : Int])]
  /\ OnSale \subseteq Products /\ Addresses # {} /\ IsFiniteSet(Orders)
  /\ Stock0 \in [Products -> Nat]

VARIABLES
  orders,   \* order -> committed row; status NONE: no row
  stock,    \* product -> committed inventory row
  txn       \* client -> open transaction

stockVars == <<orders, stock, txn>>

Idle == [op |-> "none"]
Targets == [ship |-> "SHIPPED", cancel |-> "CANCELLED"]
LinesOf(o) == 1..Len(Lines[o])

Txn == [op : {"create", "ship", "cancel"}, order : Orders,
        left : UNION {Seq(LinesOf(o)) : o \in Orders}, address : Addresses]

StockTypeOK ==
  /\ orders \in [Orders -> [status : OrderStatus \cup {"NONE"}, address : Addresses]]
  /\ stock \in [Products -> [available : Int, reserved : Int]]
  /\ \A c \in Clients : txn[c] = Idle \/ txn[c] \in Txn

StockInit ==
  /\ orders = [o \in Orders |-> [status |-> "NONE", address |-> CHOOSE a \in Addresses : TRUE]]
  /\ stock = [p \in Products |-> [available |-> Stock0[p], reserved |-> 0]]
  /\ txn = [c \in Clients |-> Idle]

-----------------------------------------------------------------------------
(* Row locks and what an open transaction has done so far. *)
Open(c) == txn[c] # Idle
Done(c) == LinesOf(txn[c].order) \ ToSet(txn[c].left)
LineAt(c, i) == Lines[txn[c].order][i]
Held(c) == IF Open(c) THEN {LineAt(c, i).product : i \in Done(c)} ELSE {}

Quantity(o, lines, p) ==
  SumFunctionOnSet([i \in LinesOf(o) |-> Lines[o][i].quantity],
                   {i \in lines : Lines[o][i].product = p})

(* Mutation: the order row is read without FOR UPDATE. *)
OrderUnlocked(o) == o \in Orders

RowFree(c, p) == \A d \in Clients \ {c} : p \notin Held(d)
OrderFree(o) == \A c \in Clients : Open(c) => txn[c].order # o

(* The line an open transaction locks next, and the row that it is. *)
NextLine(c) == LineAt(c, Head(txn[c].left))
Locking(c) == Open(c) /\ txn[c].left # <<>>

(* Mutation: the reservations of others are not looked at. *)
OnShelf(c, p) == stock[p].available

(* Inventory.sellable_qty as the session of c sees it. *)
Sellable(c, p) == stock[p].available - stock[p].reserved - Quantity(txn[c].order, Done(c), p)

Orderable(line) == line.product \in OnSale /\ line.quantity > 0

Begin(c, t) == txn' = [txn EXCEPT ![c] = t]
End(c) == Begin(c, Idle)
LockLine(c) == txn' = [txn EXCEPT ![c].left = Tail(@)]

-----------------------------------------------------------------------------
(* Mutation: lines are counted from zero. *)
PlaceFromZero(c, o, a) ==
  /\ ~Open(c) /\ OrderFree(o) /\ orders[o].status = "NONE" /\ Lines[o] # <<>>
  /\ Begin(c, [op |-> "create", order |-> o, left |-> [i \in LinesOf(o) |-> i - 1], address |-> a])
  /\ UNCHANGED <<orders, stock>>

(* create_order: the new row is nobody else's until it is committed. *)
Place(c, o, a) ==
  /\ ~Open(c) /\ OrderFree(o) /\ orders[o].status = "NONE" /\ Lines[o] # <<>>
  /\ Begin(c, [op |-> "create", order |-> o, left |-> [i \in LinesOf(o) |-> i], address |-> a])
  /\ UNCHANGED <<orders, stock>>

Reserve(c) ==
  /\ Locking(c) /\ txn[c].op = "create"
  /\ LET line == NextLine(c)
     IN  /\ Orderable(line) /\ RowFree(c, line.product)
         /\ Sellable(c, line.product) >= line.quantity
  /\ LockLine(c)
  /\ UNCHANGED <<orders, stock>>

(* Mutation: a shortage is waited out instead of refused. *)
RefuseUnorderable(c) ==
  /\ Locking(c) /\ txn[c].op = "create"
  /\ ~Orderable(NextLine(c))
  /\ End(c)
  /\ UNCHANGED <<orders, stock>>

(* A line that cannot be ordered, or not enough of it: the exception rolls   *)
(* the whole order back.                                                    *)
Refuse(c) ==
  /\ Locking(c) /\ txn[c].op = "create"
  /\ LET line == NextLine(c)
     IN  Orderable(line) =>
           RowFree(c, line.product) /\ Sellable(c, line.product) < line.quantity
  /\ End(c)
  /\ UNCHANGED <<orders, stock>>

(* Mutation: the order row is locked after the inventory rows. *)
StartUnlocked(c, op, o) ==
  /\ ~Open(c)
  /\ CanTransition(orders[o].status, Targets[op], ORDER_TRANSITIONS)
  /\ \E q \in SetToSeqs(LinesOf(o)) :
       Begin(c, [op |-> op, order |-> o, left |-> q, address |-> orders[o].address])
  /\ UNCHANGED <<orders, stock>>

(* ship_order and cancel_order lock the order row, ask the table and go      *)
(* through the lines in the order the database returned them in.            *)
Start(c, op, o) ==
  /\ ~Open(c) /\ OrderFree(o)
  /\ CanTransition(orders[o].status, Targets[op], ORDER_TRANSITIONS)
  /\ \E q \in SetToSeqs(LinesOf(o)) :
       Begin(c, [op |-> op, order |-> o, left |-> q, address |-> orders[o].address])
  /\ UNCHANGED <<orders, stock>>

TakeLine(c) ==
  /\ Locking(c) /\ txn[c].op \in DOMAIN Targets
  /\ RowFree(c, NextLine(c).product)
  /\ LockLine(c)
  /\ UNCHANGED <<orders, stock>>

(* Mutation: shipping forgets to give back the reservation. *)
ShippedKeepsReservation(op, row, n) ==
  CASE op = "create" -> [row EXCEPT !.reserved = @ + n]
    [] op = "cancel" -> [row EXCEPT !.reserved = @ - n]
    [] op = "ship"   -> [row EXCEPT !.available = @ - n]

(* What a transaction makes of an inventory row it changed by n. *)
Moved(op, row, n) ==
  CASE op = "create" -> [row EXCEPT !.reserved = @ + n]
    [] op = "cancel" -> [row EXCEPT !.reserved = @ - n]
    [] op = "ship"   -> [row EXCEPT !.available = @ - n, !.reserved = @ - n]

After(c) ==
  [p \in Products |-> Moved(txn[c].op, stock[p],
                            Quantity(txn[c].order, LinesOf(txn[c].order), p))]

(* The CHECK constraints of table inventory. *)
CheckHolds(row) == row.available >= 0 /\ row.reserved >= 0 /\ row.reserved <= row.available

Commit(c) ==
  /\ Open(c) /\ txn[c].left = <<>>
  /\ \A p \in Products : CheckHolds(After(c)[p])
  /\ stock' = After(c)
  /\ orders' = [orders EXCEPT ![txn[c].order] =
       IF txn[c].op = "create" THEN [status |-> "CREATED", address |-> txn[c].address]
                               ELSE [@ EXCEPT !.status = Targets[txn[c].op]]]
  /\ End(c)

(* pay_order and complete_order. *)
Move(o, target) ==
  /\ OrderFree(o) /\ orders[o].status # "NONE"
  /\ CanTransition(orders[o].status, target, ORDER_TRANSITIONS)
  /\ orders' = [orders EXCEPT ![o].status = target]
  /\ UNCHANGED <<stock, txn>>

(* Mutation: the order row is read without a lock. *)
UpdateAddressUnlocked(o, a) ==
  /\ orders[o].status \in {"CREATED", "PAID"} /\ orders[o].address # a
  /\ orders' = [orders EXCEPT ![o].address = a]
  /\ UNCHANGED <<stock, txn>>

UpdateAddress(o, a) ==
  /\ OrderFree(o)
  /\ orders[o].status \in {"CREATED", "PAID"} /\ orders[o].address # a
  /\ orders' = [orders EXCEPT ![o].address = a]
  /\ UNCHANGED <<stock, txn>>

(* A transaction waits for a row somebody else holds. *)
WaitsFor(c, d) == Locking(c) /\ c # d /\ NextLine(c).product \in Held(d)

(* PostgreSQL finds a cycle of waits and aborts one transaction of it.       *)
Deadlocked(c) ==
  \E q \in SetToAllKPermutations(Clients) :
    /\ Len(q) > 1 /\ q[1] = c
    /\ \A i \in DOMAIN q : WaitsFor(q[i], q[(i % Len(q)) + 1])

Victim(c) == Open(c) /\ Deadlocked(c) /\ End(c) /\ UNCHANGED <<orders, stock>>

(* The process dies or the connection is lost: PostgreSQL rolls back.        *)
ClientLost(c) == Open(c) /\ End(c) /\ UNCHANGED <<orders, stock>>

Steps(c) == Reserve(c) \/ TakeLine(c) \/ Refuse(c) \/ Commit(c)

StockNext ==
  \/ \E c \in Clients : Steps(c) \/ Victim(c) \/ ClientLost(c)
  \/ \E c \in Clients, o \in Orders :
       \/ \E a \in Addresses : Place(c, o, a)
       \/ \E op \in DOMAIN Targets : Start(c, op, o)
  \/ \E o \in Orders :
       \/ \E target \in {"PAID", "COMPLETED"} : Move(o, target)
       \/ \E a \in Addresses : UpdateAddress(o, a)

(* PostgreSQL hands a row lock to its waiters in turn and looks for cycles;  *)
(* nothing else is promised: a client may be lost, or never place an order.  *)
StockFairness ==
  /\ \A c \in Clients : SF_stockVars(Steps(c))
  /\ WF_stockVars(\E c \in Clients : Victim(c))

StockSpec == StockInit /\ [][StockNext]_stockVars /\ StockFairness

-----------------------------------------------------------------------------
Owing == {o \in Orders : orders[o].status \in {"CREATED", "PAID"}}
Shipped == {o \in Orders : orders[o].status \in {"SHIPPED", "COMPLETED"}}
Total(os, p) == SumFunctionOnSet([o \in Orders |-> Quantity(o, LinesOf(o), p)], os)

(* The books balance: a product's reserved_qty is what the orders not yet    *)
(* shipped or cancelled are owed, and what has left the shelf is what was    *)
(* shipped, whatever was placed, shipped and cancelled at the same time and  *)
(* whoever was rolled back half way (order.py: reserve, then deduct).        *)
BooksBalance ==
  \A p \in Products :
    /\ stock[p].reserved = Total(Owing, p)
    /\ stock[p].available + Total(Shipped, p) = Stock0[p]

(* The CHECKs of the table are a second line of defence that is never met:   *)
(* no transaction that has locked all its rows goes on to write values they  *)
(* refuse (catalog.py leaves the invariant to the database).                *)
NeverRefusedByCheck ==
  \A c \in Clients : Open(c) /\ txn[c].left = <<>> => \A p \in Products : CheckHolds(After(c)[p])

(* Two transactions that wait for each other are about two different orders  *)
(* with at least two products in common: the order row is locked first, so   *)
(* shipping and cancelling one order never deadlock with each other.         *)
DeadlockNeedsTwoRows ==
  \A c, d \in Clients :
    WaitsFor(c, d) /\ WaitsFor(d, c) =>
      /\ txn[c].order # txn[d].order
      /\ Cardinality({Lines[txn[c].order][i].product : i \in LinesOf(txn[c].order)}
             \cap {Lines[txn[d].order][i].product : i \in LinesOf(txn[d].order)}) > 1

(* What shipping and cancelling decided still holds when they commit, many   *)
(* locks later: nobody else has moved or is moving the order, so it is not    *)
(* shipped and cancelled both, nor either of them twice.                    *)
DecisionStands ==
  \A c \in Clients : Open(c) /\ txn[c].op \in DOMAIN Targets =>
    /\ CanTransition(orders[txn[c].order].status, Targets[txn[c].op], ORDER_TRANSITIONS)
    /\ \A d \in Clients \ {c} : Open(d) => txn[d].order # txn[c].order

(* The address is settled from the moment the parcel is being packed: while  *)
(* a request ships or cancels the order, and after, it does not change.      *)
Settled(o) == ~OrderFree(o) \/ orders[o].status \in {"SHIPPED", "COMPLETED", "CANCELLED"}

AddressSettled ==
  [][\A o \in Orders : orders[o].status # "NONE" /\ Settled(o)
       => orders'[o].address = orders[o].address]_stockVars

(* Every transaction ends: neither a row lock that is contended nor a        *)
(* deadlock keeps a request waiting for ever.                               *)
TransactionsEnd == \A c \in Clients : Open(c) ~> ~Open(c)
=============================================================================
