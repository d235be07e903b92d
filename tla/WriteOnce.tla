----------------------------- MODULE WriteOnce ------------------------------
(***************************************************************************)
(* What the write path promises, without saying how: a key is written to    *)
(* the business tables at most once, and its write, its audit row and its   *)
(* ledger record appear in one indivisible step and never disappear.  This  *)
(* is the contract stated by governance/idempotency.py and by the AgentStep *)
(* comment of models/governance.py; Executor and Saga implement it.         *)
(***************************************************************************)
EXTENDS Naturals

CONSTANT Key

VARIABLES written, audited, recorded

vars == <<written, audited, recorded>>

Init ==
  /\ written = [k \in Key |-> 0]
  /\ audited = [k \in Key |-> 0]
  /\ recorded = {}

Write(k) ==
  /\ k \notin recorded
  /\ written' = [written EXCEPT ![k] = @ + 1]
  /\ audited' = [audited EXCEPT ![k] = @ + 1]
  /\ recorded' = recorded \cup {k}

Next == \E k \in Key : Write(k)

Spec == Init /\ [][Next]_vars
=============================================================================
