------------------------------- MODULE MCStock -------------------------------
(* Instances of Stock for TLC. *)
EXTENDS Stock

CONSTANTS c1, c2, a, b

line(p, n) == [product |-> p, quantity |-> n]

(* Two orders that list the same products in opposite order, and one that    *)
(* lists a product twice.                                                   *)
CrossedLines == [o \in Orders |->
  CASE o = 1 -> <<line(a, 1), line(b, 1)>>
    [] o = 2 -> <<line(b, 1), line(a, 1)>>
    [] OTHER -> <<line(a, 1), line(a, 1)>>]

(* One piece short for all three orders to stand at once. *)
TightStock == [p \in Products |-> IF p = a THEN 3 ELSE 2]
=============================================================================
