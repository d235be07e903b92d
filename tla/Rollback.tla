------------------------------ MODULE Rollback -------------------------------
(***************************************************************************)
(* What compensation promises (governance/compensation.py, README "Saga"):  *)
(* writes are done while nothing has been undone, and undone latest first,  *)
(* so that the effects left in the database are always those of a prefix of *)
(* what was done.  A write done after an undo would be one the system        *)
(* believes it has taken back.  Saga implements it as long as nobody re-runs *)
(* a step by hand.                                                         *)
(***************************************************************************)
EXTENDS Naturals

CONSTANT Item   \* the write steps, numbered in plan order

VARIABLES done, undone

vars == <<done, undone>>

Init == done = {} /\ undone = {}

Do(i) ==
  /\ undone = {} /\ i \notin done
  /\ done' = done \cup {i}
  /\ UNCHANGED undone

Undo(i) ==
  /\ i \in done \ undone
  /\ \A j \in done \ undone : j <= i
  /\ undone' = undone \cup {i}
  /\ UNCHANGED done

Next == \E i \in Item : Do(i) \/ Undo(i)

Spec == Init /\ [][Next]_vars
=============================================================================
