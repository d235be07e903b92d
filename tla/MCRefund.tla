------------------------------ MODULE MCRefund ------------------------------
(* Instances of Refund for TLC. *)
EXTENDS Refund, TLC

CONSTANTS s1, s2, k1

(* Which step is which does not matter: their plans are chosen alike. *)
EitherStep == Permutations(Steps)
=============================================================================
