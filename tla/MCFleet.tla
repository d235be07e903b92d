------------------------------ MODULE MCFleet ------------------------------
(* Instances of Fleet for TLC. *)
EXTENDS Fleet, TLC

CONSTANTS c1, c2, w1, w2, q1

(* The worker_id of all direct calls, of all execute requests, and of each    *)
(* worker (INLINE_WORKER_ID of routes/tools.py and of routes/runs.py). *)
Ids == [e \in Executors |-> IF e \in Callers THEN "api-tool-gateway"
                           ELSE IF e \in Requests THEN "api-inline" ELSE e]

(* The oldest run needs nobody, the younger ones are stopped at the gate. *)
YoungerStopped == <<{"free"}, {"gated", "denied"}>>
=============================================================================
