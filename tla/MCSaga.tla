------------------------------- MODULE MCSaga -------------------------------
(* Instances of Saga for TLC. *)
EXTENDS Saga, TLC

CONSTANTS w1, c1, c2, r1

OwnIds == [p \in Crew |-> p]
ChainKeys == [s \in Step |-> s]
ChainDeps == [s \in Step |-> IF s = 1 THEN {} ELSE {s - 1}]
NoSignature == [s \in Step |-> 0]

(* The policy treats all compensations alike (all of them close a ticket).  *)
AllAllowed == [s \in Step |-> "ALLOW"]

(* A registry in which undoing the first write needs a person's word.       *)
FirstConfirmed == [s \in Step |-> IF s = 1 THEN "REQUIRE_APPROVAL" ELSE "ALLOW"]

(* Requests are interchangeable. *)
Requests == Permutations(Compensators)
=============================================================================
