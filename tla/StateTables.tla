----------------------------- MODULE StateTables -----------------------------
(***************************************************************************)
(* The transition tables of orders and after-sales tickets                  *)
(* (domain/state.py, models/enums.py).  Every handler that moves one of      *)
(* them asks its table first; CanTransition is assert_transition without     *)
(* the wording of its refusal.                                              *)
(***************************************************************************)

OrderStatus == {"CREATED", "PAID", "SHIPPED", "COMPLETED", "CANCELLED"}

ORDER_TRANSITIONS ==
  [CREATED |-> {"PAID", "CANCELLED"}, PAID |-> {"SHIPPED", "CANCELLED"},
   SHIPPED |-> {"COMPLETED"}, COMPLETED |-> {}, CANCELLED |-> {}]

TicketStatus == {"PENDING", "APPROVED", "REJECTED", "REFUNDED", "CLOSED"}

TICKET_TRANSITIONS ==
  [PENDING |-> {"APPROVED", "REJECTED", "CLOSED"}, APPROVED |-> {"REFUNDED"},
   REJECTED |-> {}, REFUNDED |-> {}, CLOSED |-> {}]

(* A state the table does not know moves nowhere. *)
CanTransition(current, target, transitions) ==
  current \in DOMAIN transitions /\ target \in transitions[current]
=============================================================================
