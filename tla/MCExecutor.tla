----------------------------- MODULE MCExecutor -----------------------------
(* Instances of Executor for TLC. *)
EXTENDS Executor, TLC

CONSTANTS w1, w2, r1

(* Every process under its own worker_id, as worker replicas run. *)
OwnIds == [p \in Procs |-> p]

(* All API requests share one worker_id (routes/runs.py INLINE_WORKER_ID). *)
InlineIds == [p \in Procs |-> IF p = w2 THEN "worker" ELSE "api-inline"]

(* Step 2 depends on step 1; all tools write, all arguments differ. *)
ChainKeys == [s \in Step |-> s]
ChainDeps == [s \in Step |-> IF s = 1 THEN {} ELSE {s - 1}]

(* The last step repeats the tool and arguments of the first. *)
TwinKeys == [s \in Step |-> IF s = NSteps THEN 1 ELSE s]
NoDeps == [s \in Step |-> {}]

(* Worker replicas are interchangeable. *)
Replicas == Permutations(Workers)

NoSignature == [s \in Step |-> 0]

(* The last step waits for a signature that only a retry makes up for. *)
LastNeedsOne == [s \in Step |-> IF s = NSteps THEN 1 ELSE 0]
=============================================================================
