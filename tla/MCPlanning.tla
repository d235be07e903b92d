------------------------------ MODULE MCPlanning ------------------------------
(* Instances of Planning for TLC. *)
EXTENDS Planning

Intent(action, full, amount) ==
  [action |-> action, order |-> TRUE, reason |-> TRUE, full |-> full, amount |-> amount]

(* What people say: refunds with and without an amount, questions, and the    *)
(* sentences no plan can be made of.                                        *)
SomeIntents ==
  {Intent("create_refund", full, amount) : full \in BOOLEAN, amount \in {None, 2}}
    \cup {Intent("query_order", FALSE, None), Intent("query_logistics", FALSE, None),
          Intent("unknown", FALSE, None),
          [Intent("create_refund", FALSE, 2) EXCEPT !.reason = FALSE],
          [Intent("query_order", FALSE, None) EXCEPT !.order = FALSE]}

Query == Step(1, "query_refundable", [order_id |-> Scalar(1)], {})
Refund(seq, amount, deps) ==
  Step(seq, "create_refund", [order_id |-> Scalar(1), reason_code |-> Scalar(1), amount_cents |-> amount], deps)
Quota(seq) == Ref(seq, "available_refund_cents")

Close(seq, ticket) == Step(seq, "close_ticket", [ticket_id |-> ticket, reason |-> Scalar(1)], {})

(* All that can be refunded: the amount is left to the tool. *)
RefundAll == Step(1, "create_refund", [order_id |-> Scalar(1), reason_code |-> Scalar(1)], {})

GoodPlans == {<<RefundAll>>, <<RefundAll, Close(2, Ref(1, "ticket_id"))>>,
              <<Query, Refund(2, Quota(1), {1})>>, <<Refund(1, Scalar(2), {})>>,
              <<Close(1, Scalar(1))>>, <<Refund(1, Scalar(1), {}), Close(2, Ref(1, "ticket_id"))>>}

(* Wrong in one way each: tool, order, field, range, number, dependency,      *)
(* reference to itself, to a structure, to a path that is not there.         *)
BadPlans ==
  {<<>>, <<[Query EXCEPT !.tool = "drop_order"]>>,
   <<Step(1, "query_refundable", [order_id |-> Scalar(2)], {})>>,
   <<Step(1, "query_logistics", [order_no |-> Scalar(1)], {})>>,
   <<Step(1, "close_ticket", [ticket_id |-> Scalar(1), reason |-> Scalar(1), order_no |-> Scalar(1)], {})>>,
   <<Refund(1, Scalar(0), {})>>, <<Query, Query>>, <<Refund(1, Scalar(2), {1})>>,
   <<Refund(1, Quota(2), {}), [Query EXCEPT !.seq = 2]>>, <<Refund(1, Broken, {})>>, <<Refund(1, Odd, {})>>,
   <<Query, [Refund(2, Odd, {1}) EXCEPT !.args.reason_code = Quota(1)]>>,
   <<Step(1, "query_order", [order_id |-> Scalar(1)], {}), Refund(2, Ref(1, "items"), {1})>>,
   <<Query, Refund(2, Ref(1, "ticket_id"), {1})>>}

SomeReplies ==
  {[kind |-> "error", steps |-> <<>>], [kind |-> "text", steps |-> <<>>]}
    \cup {[kind |-> "plan", steps |-> p] : p \in GoodPlans \cup BadPlans}

SomeSubmitted ==
  GoodPlans \cup BadPlans \cup {<<[Refund(1, Scalar(1), {}) EXCEPT !.approval = TRUE]>>,
                            <<[RefundAll EXCEPT !.approval = TRUE]>>}
=============================================================================
