------------------------------- MODULE Registry -------------------------------
(***************************************************************************)
(* The registered tools (tools/order.py, logistics.py, aftersales.py): what   *)
(* they declare to the policy, the arguments they take, the results a plan    *)
(* can refer to.  Arguments and results map places to values of PlanRefs;    *)
(* a scalar below 1 stands for one outside the range or enumeration of its   *)
(* field, texts and views are left out.                                     *)
(***************************************************************************)
EXTENDS Policy, PlanRefs

ReadOnly == [risk |-> "read_only", effect |-> FALSE, snapshot |-> FALSE, idempotent |-> FALSE,
             compensable |-> FALSE, compensateArgs |-> FALSE, amount |-> FALSE, resolver |-> FALSE]

CloseTicket == [ReadOnly EXCEPT !.risk = "low", !.effect = TRUE, !.snapshot = TRUE, !.idempotent = TRUE]

CreateRefund == [risk |-> "high", effect |-> TRUE, snapshot |-> TRUE, idempotent |-> TRUE,
                 compensable |-> TRUE, compensateArgs |-> TRUE, amount |-> TRUE, resolver |-> TRUE]

Declared ==
  [query_order |-> ReadOnly, query_logistics |-> ReadOnly, query_refundable |-> ReadOnly,
   create_refund |-> CreateRefund, close_ticket |-> CloseTicket]

Tools == DOMAIN Declared
Writes(tool) == Declared[tool].risk # "read_only"

ASSUME RegistryAssumption == \A tool \in Tools : Declarable(Declared[tool])

(* The arguments a tool cannot do without, and all it takes (extra=forbid).   *)
Required ==
  [query_order |-> {}, query_logistics |-> {"order_id"}, query_refundable |-> {"order_id"},
   create_refund |-> {"order_id", "reason_code"}, close_ticket |-> {"ticket_id", "reason"}]

Fields ==
  [Required EXCEPT !.query_order = {"order_id", "order_no"},
                   !.create_refund = {"order_id", "reason_code", "amount_cents", "description"}]

(* ToolRegistry.validate_args *)
Fits(tool, args) ==
  /\ Required[tool] \subseteq DOMAIN args /\ DOMAIN args \subseteq Fields[tool]
  /\ \A place \in DOMAIN args : args[place].kind = "scalar" /\ args[place].value \in Nat \ {0}
  /\ tool = "query_order" => ("order_id" \in DOMAIN args) # ("order_no" \in DOMAIN args)

(* The argument the policy reads the amount from. *)
AmountArgument(args) ==
  IF "amount_cents" \notin DOMAIN args THEN None
  ELSE IF args["amount_cents"].kind = "scalar" THEN args["amount_cents"].value ELSE Unreadable

(* What a tool returns about an order of which `available` can be refunded; a  *)
(* refund says how much it moved.                                           *)
Result(tool, available, moved) ==
  CASE tool = "query_refundable" -> [order_id |-> Scalar(1), available_refund_cents |-> Scalar(available)]
    [] tool = "query_order" -> [order_id |-> Scalar(1), items |-> Structure]
    [] tool = "query_logistics" -> [events |-> Structure]
    [] tool = "create_refund" -> [ticket_id |-> Scalar(1), refund_amount_cents |-> Scalar(moved)]
    [] tool = "close_ticket" -> [ticket_id |-> Scalar(1)]
=============================================================================
