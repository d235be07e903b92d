---------------------------- MODULE FleetProofs ----------------------------
(***************************************************************************)
(* Proofs about Fleet, for any number of runs, calls, workers and requests   *)
(* and any worker_ids, shared ones too: a run has one driver unless its      *)
(* lease lapsed, and what a direct call is answered is true.                *)
(*                                                                         *)
(* A driver changes its own run and its own memory only.  Sound says what a  *)
(* memory and the run it is about have to do with each other; OwnStep shows  *)
(* once and for all that a step which keeps its own pair sound disturbs      *)
(* nobody else's.                                                          *)
(***************************************************************************)
EXTENDS Fleet, TLAPS

Driving(m) == m.pc \notin {"idle", "created"}

(* A memory at work on a run, and the run.  Its lease is the driver's as long *)
(* as it has not lapsed. *)
Sound(e, m, r) ==
  /\ ~r.lapsed => /\ r.owner = WorkerId[e] /\ r.fresh /\ r.status = "RUNNING"
                  /\ m.pc \in {"open", "write", "failOpen"} => m.loaded = "RUNNING"
                  /\ m.pc \in {"failing", "failOpen"} /\ m.fault = "domain" => ~r.written
  /\ m.pc \in {"step", "open", "write"} /\ r.kind = "gated" => r.signed
  /\ m.pc = "wait" => r.kind = "gated"
  /\ m.pc = "failOpen" /\ m.defer => m.fault = "infra"
  /\ m.outcome => r.written

(* A run by itself. *)
Gated(r) ==
  /\ r.kind = "gated" /\ r.written => r.signed
  /\ r.status = "WAITING_APPROVAL" => r.kind = "gated"

(* A run and what the call that made it was answered. *)
Told(reply, r) ==
  /\ reply = "done" => r.written
  /\ reply = "waiting" => r.kind = "gated"
  /\ reply = "refused" /\ ~r.lapsed => ~r.written /\ r.status = "FAILED"

Placed ==
  \A e \in Executors :
    /\ at[e].pc = "idle" => at[e] = Away
    /\ at[e].pc # "idle" => at[e].run \in DOMAIN runs
    /\ at[e].pc = "created" => e \in Callers
    /\ Driving(at[e]) => Sound(e, at[e], Mine(e))

Called ==
  /\ \A c \in Callers : at[c].pc # "idle" => answer[c] = "none" /\ Mine(c).actor = c
  /\ \A i \in DOMAIN runs : runs[i].actor \in Callers =>
       at[runs[i].actor].run = i \/ answer[runs[i].actor] # "none"
  /\ \A i, j \in DOMAIN runs : runs[i].actor \in Callers /\ runs[i].actor = runs[j].actor => i = j

Answered ==
  \A i \in DOMAIN runs : runs[i].actor \in Callers =>
    /\ Told(answer[runs[i].actor], runs[i])
    /\ answer[runs[i].actor] = "refused" /\ ~runs[i].lapsed => \A e \in Executors : ~AtWork(e, i)

FleetInv ==
  /\ FleetTypeOK /\ Placed /\ OneDriver /\ Called /\ Answered
  /\ \A i \in DOMAIN runs : Gated(runs[i])

LEMMA AwayType == Away \in Mem
BY DEF Away, Mem, PC, RunStatus

LEMMA FleetInvInit == FleetInit => FleetInv
<1> SUFFICES ASSUME FleetInit PROVE FleetInv
  OBVIOUS
<1>1. runs = <<>> /\ DOMAIN runs = {}
  BY DEF FleetInit
<1>2. FleetTypeOK
  BY FleetAssumption, AwayType DEF FleetInit, FleetTypeOK, Answer
<1>3. Placed
  BY DEF FleetInit, Placed, Driving, Away
<1>4. Called
  BY <1>1, FleetAssumption DEF FleetInit, Called, Away, Executors
<1>5. QED
  BY <1>1, <1>2, <1>3, <1>4 DEF FleetInv, OneDriver, Answered

-----------------------------------------------------------------------------
(* A driver's step, given as its run and its memory afterwards. *)
LEMMA OwnStep ==
  ASSUME FleetInv, NEW e \in Executors, Driving(at[e]),
         NEW m \in Mem, NEW r \in Run, NEW reply \in Answer,
         runs' = [runs EXCEPT ![at[e].run] = r],
         at' = [at EXCEPT ![e] = m],
         answer' = IF e \in Callers /\ m = Away THEN [answer EXCEPT ![e] = reply] ELSE answer,
         mishaps' \in 0..MaxMishaps,
         r.actor = Mine(e).actor, r.kind = Mine(e).kind, r.signed = Mine(e).signed,
         r.lapsed = Mine(e).lapsed, Mine(e).written => r.written, Gated(r),
         \/ m = Away /\ reply # "none" /\ (e \in Callers => Told(reply, r))
         \/ m.run = at[e].run /\ Driving(m) /\ Sound(e, m, r)
  PROVE  FleetInv'
<1> DEFINE i == at[e].run
<1>1. /\ i \in DOMAIN runs /\ runs[i] = Mine(e) /\ DOMAIN runs' = DOMAIN runs
      /\ runs'[i] = r /\ \A j \in DOMAIN runs : j # i => runs'[j] = runs[j]
      /\ at'[e] = m /\ \A f \in Executors : f # e => at'[f] = at[f]
  BY DEF FleetInv, FleetTypeOK, Placed, Driving, Mine
<1>2. ASSUME NEW f \in Executors, f # e, Driving(at[f]), at[f].run = i PROVE r.lapsed
  BY <1>1, <1>2 DEF FleetInv, OneDriver, AtWork, At, Driving
<1>3. FleetTypeOK'
  BY <1>1 DEF FleetInv, FleetTypeOK
<1>4. Placed'
  <2> SUFFICES ASSUME NEW f \in Executors
               PROVE  /\ at'[f].pc = "idle" => at'[f] = Away
                      /\ at'[f].pc # "idle" => at'[f].run \in DOMAIN runs'
                      /\ at'[f].pc = "created" => f \in Callers
                      /\ Driving(at'[f]) => Sound(f, at'[f], runs'[at'[f].run])
    BY DEF Placed, Mine
  <2>1. CASE f = e
    <3>1. CASE m = Away
      BY <1>1, <2>1, <3>1 DEF Driving, Away
    <3>2. CASE m.run = i /\ Driving(m) /\ Sound(e, m, r)
      BY <1>1, <2>1, <3>2 DEF Driving
    <3>3. QED BY <3>1, <3>2
  <2>2. CASE f # e /\ at[f].run = i /\ Driving(at[f])
    BY <1>1, <1>2, <2>2 DEF FleetInv, Placed, Sound, Mine, Driving
  <2>3. CASE f # e /\ ~(at[f].run = i /\ Driving(at[f]))
    BY <1>1, <2>3 DEF FleetInv, Placed, Mine, Driving
  <2>4. QED BY <2>1, <2>2, <2>3
<1>5. OneDriver'
  <2> SUFFICES ASSUME NEW j \in DOMAIN runs, NEW f \in Executors, NEW g \in Executors,
                      AtWork(f, j)', AtWork(g, j)', f # g
               PROVE  runs'[j].lapsed
    BY <1>1 DEF OneDriver
  <2>1. AtWork(f, j) /\ AtWork(g, j)
    BY <1>1 DEF AtWork, At, Driving, Away, FleetInv, Placed, FleetTypeOK
  <2>2. QED
    BY <1>1, <2>1 DEF FleetInv, OneDriver
<1>6. Called'
  <2>1. ASSUME NEW c \in Callers, at'[c].pc # "idle" PROVE answer'[c] = "none" /\ Mine(c)'.actor = c
    BY <1>1, <2>1 DEF FleetInv, Called, Mine, Away, Driving, FleetTypeOK, Executors
  <2>2. ASSUME NEW j \in DOMAIN runs, runs'[j].actor \in Callers
        PROVE  at'[runs'[j].actor].run = j \/ answer'[runs'[j].actor] # "none"
    <3>1. runs'[j].actor = runs[j].actor
      BY <1>1
    <3>2. at[runs[j].actor].run = j \/ answer[runs[j].actor] # "none"
      BY <2>2, <3>1 DEF FleetInv, Called
    <3>3. runs[j].actor \in Executors /\ answer \in [Callers -> Answer]
      BY <2>2, <3>1 DEF Executors, FleetInv, FleetTypeOK
    <3>4. CASE runs[j].actor # e
      BY <1>1, <3>1, <3>2, <3>3, <3>4
    <3>5. CASE runs[j].actor = e /\ m = Away
      BY <1>1, <2>2, <3>1, <3>3, <3>5 DEF Driving, Away
    <3>6. CASE runs[j].actor = e /\ m # Away
      BY <1>1, <3>1, <3>2, <3>3, <3>6
    <3>7. QED BY <3>4, <3>5, <3>6
  <2>3. QED
    BY <1>1, <2>1, <2>2 DEF FleetInv, Called
<1>7. Answered'
  <2> SUFFICES ASSUME NEW j \in DOMAIN runs, runs'[j].actor \in Callers
               PROVE  /\ Told(answer'[runs'[j].actor], runs'[j])
                      /\ answer'[runs'[j].actor] = "refused" /\ ~runs'[j].lapsed
                           => \A f \in Executors : ~AtWork(f, j)'
    BY <1>1 DEF Answered
  <2>0. runs'[j].actor = runs[j].actor /\ answer \in [Callers -> Answer] /\ Callers \subseteq Executors
    BY <1>1 DEF FleetInv, FleetTypeOK, Executors
  <2>1. CASE j # i
    <3>1. runs[j].actor # e
      BY <1>1, <2>0, <2>1 DEF FleetInv, Called, Driving
    <3>2. \A f \in Executors : AtWork(f, j)' => AtWork(f, j)
      BY <1>1, <2>1 DEF AtWork, At, Driving, Away, FleetInv, FleetTypeOK, Placed
    <3>3. QED
      BY <1>1, <2>0, <2>1, <3>1, <3>2 DEF FleetInv, Answered
  <2>2. CASE j = i /\ runs[j].actor # e
    <3>1. answer'[runs[j].actor] = answer[runs[j].actor]
      BY <2>0, <2>2
    <3>2. AtWork(e, i)
      BY DEF AtWork, At, Driving
    <3>3. answer[runs[j].actor] = "refused" => r.lapsed
      BY <1>1, <2>0, <2>2, <3>2 DEF FleetInv, Answered
    <3>4. QED
      BY <1>1, <2>0, <2>2, <3>1, <3>3 DEF FleetInv, Answered, Told
  <2>3. CASE j = i /\ runs[j].actor = e
    <3>1. answer[e] = "none"
      BY <2>0, <2>3 DEF FleetInv, Called, Driving
    <3>2. CASE m # Away
      BY <1>1, <2>0, <2>3, <3>1, <3>2 DEF Told
    <3>3. CASE m = Away
      <4>1. ASSUME NEW f \in Executors, AtWork(f, j)' PROVE r.lapsed
        <5>1. f # e
          BY <1>1, <2>3, <3>3, <4>1 DEF AtWork, Away, FleetInv, FleetTypeOK
        <5>2. at[f].run = i /\ at[f].pc # "created"
          BY <1>1, <2>3, <4>1, <5>1 DEF AtWork, At
        <5>3. at[f].pc # "idle"
          BY <1>1, <5>2 DEF FleetInv, FleetTypeOK, Placed, Away
        <5>4. QED
          BY <1>2, <5>1, <5>2, <5>3 DEF Driving
      <4>2. QED
        BY <1>1, <2>0, <2>3, <3>3, <4>1 DEF Told, Driving, Away
    <3>4. QED BY <3>2, <3>3
  <2>4. QED BY <2>1, <2>2, <2>3
<1>8. QED
  BY <1>1, <1>3, <1>4, <1>5, <1>6, <1>7 DEF FleetInv

(* A driver's step that leaves the run alone. *)
LEMMA OwnMemoryStep ==
  ASSUME FleetInv, NEW e \in Executors, Driving(at[e]),
         NEW m \in Mem, NEW reply \in Answer,
         UNCHANGED <<runs, mishaps>>,
         at' = [at EXCEPT ![e] = m],
         answer' = IF e \in Callers /\ m = Away THEN [answer EXCEPT ![e] = reply] ELSE answer,
         \/ m = Away /\ reply # "none" /\ (e \in Callers => Told(reply, Mine(e)))
         \/ m.run = at[e].run /\ Driving(m) /\ Sound(e, m, Mine(e))
  PROVE  FleetInv'
<1>1. at[e].run \in DOMAIN runs /\ Mine(e) \in Run /\ Gated(Mine(e)) /\ mishaps \in 0..MaxMishaps
  BY DEF FleetInv, FleetTypeOK, Placed, Driving, Mine
<1>2. runs' = [runs EXCEPT ![at[e].run] = Mine(e)]
  BY <1>1 DEF FleetInv, FleetTypeOK, Mine
<1>3. QED
  BY <1>1, <1>2, OwnStep

-----------------------------------------------------------------------------
(* What is known of a driver at work. *)
LEMMA AtWorkFacts ==
  ASSUME FleetInv, NEW e \in Executors, at[e].pc \notin {"idle", "created"}
  PROVE  /\ Driving(at[e]) /\ at[e] \in Mem /\ Mine(e) \in Run /\ at[e].run \in DOMAIN runs
         /\ Sound(e, at[e], Mine(e)) /\ Gated(Mine(e)) /\ mishaps \in 0..MaxMishaps
         /\ at \in [Executors -> Mem] /\ runs \in Seq(Run) /\ answer \in [Callers -> Answer]
BY DEF FleetInv, FleetTypeOK, Placed, Driving, Mine

LEMMA AssertHoldsLeaseSound ==
  ASSUME FleetInv, NEW e \in Executors, AssertHoldsLease(e) PROVE FleetInv'
<1>1. CASE Goto(e, "drive") /\ UNCHANGED answer
  <2> DEFINE m == [at[e] EXCEPT !.pc = "drive"]
  <2>1. m \in Mem /\ m # Away /\ m.run = at[e].run /\ Driving(m) /\ Sound(e, m, Mine(e))
    BY AtWorkFacts DEF AssertHoldsLease, At, Mem, PC, Away, Driving, Sound
  <2>2. at' = [at EXCEPT ![e] = m]
    BY <1>1 DEF Goto
  <2>3. QED
    BY <1>1, <2>1, <2>2, AtWorkFacts, OwnMemoryStep DEF AssertHoldsLease, At, Answer
<1>2. CASE Leave(e, "error")
  BY <1>2, AtWorkFacts, AwayType, OwnMemoryStep DEF AssertHoldsLease, At, Leave, Told, Answer
<1>3. QED
  BY <1>1, <1>2 DEF AssertHoldsLease

(* What a driver that has returned from _drive replies is so. *)
LEMMA ReplyTold ==
  ASSUME FleetInv, NEW e \in Executors, Driving(at[e]), NEW status \in RunStatus, NEW r \in Run,
         status = "WAITING_APPROVAL" => r.kind = "gated",
         at[e].outcome => r.written
  PROVE  Reply(e, status) \in Answer /\ Reply(e, status) # "none" /\ Told(Reply(e, status), r)
BY DEF Reply, Told, Answer

LEMMA DriveLoadSound ==
  ASSUME FleetInv, NEW e \in Executors, DriveLoad(e) PROVE FleetInv'
<1> DEFINE r == Mine(e)
<1>0. at[e].pc = "drive" /\ UNCHANGED <<runs, mishaps>>
  BY DEF DriveLoad, At
<1>1. CASE r.status \in Terminal \cup {"WAITING_APPROVAL"} /\ Leave(e, Reply(e, r.status))
  <2>1. Reply(e, r.status) \in Answer /\ Reply(e, r.status) # "none" /\ Told(Reply(e, r.status), r)
    BY <1>0, AtWorkFacts, ReplyTold DEF Gated, Sound, Run
  <2>2. QED
    BY <1>0, <1>1, <2>1, AtWorkFacts, AwayType, OwnMemoryStep DEF Leave
<1>2. CASE Leave(e, "error")
  BY <1>0, <1>2, AtWorkFacts, AwayType, OwnMemoryStep DEF Leave, Told, Answer
<1>3. CASE r.status \in CLAIMABLE_STATUSES /\ Owns(e) /\ Decide(e, r) /\ UNCHANGED answer
  <2>1. ASSUME NEW m \in Mem, at' = [at EXCEPT ![e] = m], m # Away, m.run = at[e].run, Driving(m),
               Sound(e, m, r)
        PROVE  FleetInv'
    BY <1>0, <1>3, <2>1, AtWorkFacts, OwnMemoryStep DEF Answer
  <2>2. ASSUME NEW pc \in {"finish", "wait", "step"}, Goto(e, pc),
               pc = "wait" => r.kind = "gated",
               pc = "step" /\ r.kind = "gated" => r.signed
        PROVE  FleetInv'
    <3> DEFINE m == [at[e] EXCEPT !.pc = pc]
    <3>1. m \in Mem /\ m # Away /\ m.run = at[e].run /\ Driving(m) /\ Sound(e, m, r)
      BY <1>0, <2>2, AtWorkFacts DEF Mem, PC, Away, Driving, Sound
    <3>2. at' = [at EXCEPT ![e] = m]
      BY <2>2 DEF Goto
    <3>3. QED BY <2>1, <3>1, <3>2
  <2>3. CASE Fail(e, "denied")
    <3> DEFINE m == [at[e] EXCEPT !.pc = "failing", !.fault = "denied"]
    <3>0. m \in Mem /\ m.pc = "failing" /\ m.fault = "denied" /\ m.run = at[e].run /\ m.outcome = at[e].outcome
      BY <1>0, AtWorkFacts DEF Mem, PC
    <3>1. m \in Mem /\ m # Away /\ m.run = at[e].run /\ Driving(m) /\ Sound(e, m, r)
      BY <1>0, <3>0, AtWorkFacts DEF Away, Driving, Sound
    <3>2. at' = [at EXCEPT ![e] = m]
      BY <2>3, AtWorkFacts, <1>0 DEF Fail
    <3>3. QED BY <2>1, <3>1, <3>2
  <2>4. QED BY <1>3, <2>2, <2>3 DEF Decide
<1>4. QED
  BY <1>1, <1>2, <1>3 DEF DriveLoad

(* Giving back or postponing one's lease touches nothing else. *)
SameButLease(r, q) ==
  /\ q.status = r.status /\ q.actor = r.actor /\ q.kind = r.kind /\ q.signed = r.signed
  /\ q.written = r.written /\ q.lapsed = r.lapsed

LEMMA LeaseOnly ==
  ASSUME NEW e \in Executors, NEW r \in Run
  PROVE  /\ Released(e, r) \in Run /\ SameButLease(r, Released(e, r))
         /\ Deferred(e, r) \in Run /\ SameButLease(r, Deferred(e, r))
BY DEF Released, Deferred, Run, SameButLease

(* A driver that writes an outcome into its run and leaves it. *)
LEMMA LeavesSound ==
  ASSUME FleetInv, NEW e \in Executors, Driving(at[e]), NEW q \in Run, NEW r \in Run,
         NEW reply \in Answer, reply # "none", Leave(e, reply), UNCHANGED mishaps,
         Update(e, r), SameButLease(q, r),
         q.actor = Mine(e).actor, q.kind = Mine(e).kind, q.signed = Mine(e).signed,
         q.lapsed = Mine(e).lapsed, q.written = Mine(e).written, Gated(q),
         e \in Callers => Told(reply, q)
  PROVE  FleetInv'
<1>1. Gated(r) /\ (e \in Callers => Told(reply, r))
  BY DEF Gated, Told, SameButLease
<1>2. mishaps' \in 0..MaxMishaps
  BY DEF FleetInv, FleetTypeOK
<1>3. QED
  BY <1>1, <1>2, AwayType, OwnStep DEF Leave, Update, SameButLease

LEMMA FinishSound ==
  ASSUME FleetInv, NEW e \in Executors, Finish(e) PROVE FleetInv'
<1> DEFINE q == [Mine(e) EXCEPT !.status = "SUCCEEDED"]
<1>0. at[e].pc = "finish"
  BY DEF Finish, At
<1>1. /\ q \in Run /\ q.actor = Mine(e).actor /\ q.kind = Mine(e).kind /\ q.signed = Mine(e).signed
      /\ q.lapsed = Mine(e).lapsed /\ q.written = Mine(e).written /\ q.status = "SUCCEEDED"
  BY <1>0, AtWorkFacts DEF Run, RunStatus, Terminal
<1> HIDE DEF q
<1>2. Gated(q)
  BY <1>0, <1>1, AtWorkFacts DEF Gated
<1>3. Reply(e, "SUCCEEDED") \in Answer /\ Reply(e, "SUCCEEDED") # "none" /\ Told(Reply(e, "SUCCEEDED"), q)
  BY <1>0, <1>1, AtWorkFacts, ReplyTold DEF Sound, RunStatus, Terminal
<1>4. Released(e, q) \in Run /\ SameButLease(q, Released(e, q))
  BY <1>1, LeaseOnly
<1>5. Update(e, Released(e, q)) /\ Leave(e, Reply(e, "SUCCEEDED")) /\ UNCHANGED mishaps
  BY DEF Finish, q
<1>6. QED
  BY <1>0, <1>1, <1>2, <1>3, <1>4, <1>5, AtWorkFacts, LeavesSound

LEMMA WaitForApprovalSound ==
  ASSUME FleetInv, NEW e \in Executors, WaitForApproval(e) PROVE FleetInv'
<1> DEFINE q == [Mine(e) EXCEPT !.status = "WAITING_APPROVAL"]
           reply == Reply(e, "WAITING_APPROVAL")
<1>0. at[e].pc = "wait"
  BY DEF WaitForApproval, At
<1>1. /\ q \in Run /\ q.actor = Mine(e).actor /\ q.kind = Mine(e).kind /\ q.signed = Mine(e).signed
      /\ q.lapsed = Mine(e).lapsed /\ q.written = Mine(e).written /\ q.status = "WAITING_APPROVAL"
  BY <1>0, AtWorkFacts DEF Run, RunStatus
<1>5. Update(e, Released(e, q)) /\ Leave(e, reply) /\ UNCHANGED mishaps
  BY DEF WaitForApproval
<1> HIDE DEF q
<1>2. Gated(q) /\ q.kind = "gated"
  BY <1>0, <1>1, AtWorkFacts DEF Gated, Sound
<1>3. reply \in Answer /\ reply # "none" /\ Told(reply, q)
  BY <1>0, <1>1, <1>2, AtWorkFacts, ReplyTold DEF Sound, RunStatus
<1>4. Released(e, q) \in Run /\ SameButLease(q, Released(e, q))
  BY <1>1, LeaseOnly
<1>6. QED
  BY <1>0, <1>1, <1>2, <1>3, <1>4, <1>5, AtWorkFacts, LeavesSound

-----------------------------------------------------------------------------
(* The step transaction. *)
LEMMA StepBeginSound ==
  ASSUME FleetInv, NEW e \in Executors, StepBegin(e) PROVE FleetInv'
<1> DEFINE m == [at[e] EXCEPT !.pc = "open", !.loaded = Mine(e).status]
<1>0. at[e].pc = "step"
  BY DEF StepBegin, At
<1>1. /\ m \in Mem /\ m.run = at[e].run /\ m.pc = "open" /\ m.loaded = Mine(e).status
      /\ m.outcome = at[e].outcome
  BY <1>0, AtWorkFacts DEF Mem, PC, Run
<1>2. at' = [at EXCEPT ![e] = m]
  BY <1>0, AtWorkFacts DEF StepBegin
<1> HIDE DEF m
<1>3. m # Away /\ Driving(m) /\ Sound(e, m, Mine(e))
  BY <1>0, <1>1, AtWorkFacts DEF Away, Driving, Sound
<1>4. QED
  BY <1>0, <1>1, <1>2, <1>3, AtWorkFacts, OwnMemoryStep DEF StepBegin, Answer

LEMMA StepOpenSound ==
  ASSUME FleetInv, NEW e \in Executors, StepOpen(e) PROVE FleetInv'
<1> DEFINE m == [at[e] EXCEPT !.pc = "write"]
<1>0. at[e].pc = "open"
  BY DEF StepOpen, At
<1>1. /\ m \in Mem /\ m.run = at[e].run /\ m.pc = "write" /\ m.loaded = at[e].loaded
      /\ m.outcome = at[e].outcome
  BY <1>0, AtWorkFacts DEF Mem, PC
<1>2. at' = [at EXCEPT ![e] = m]
  BY DEF StepOpen, Goto
<1> HIDE DEF m
<1>3. m # Away /\ Driving(m) /\ Sound(e, m, Mine(e))
  BY <1>0, <1>1, AtWorkFacts DEF Away, Driving, Sound
<1>4. QED
  BY <1>0, <1>1, <1>2, <1>3, AtWorkFacts, OwnMemoryStep DEF StepOpen, Answer

(* The run a step transaction commits: written, and still the driver's.      *)
Committed(e, r) ==
  /\ r \in Run /\ Update(e, r)
  /\ r.actor = Mine(e).actor /\ r.kind = Mine(e).kind /\ r.signed = Mine(e).signed
  /\ r.lapsed = Mine(e).lapsed /\ r.written /\ Gated(r)
  /\ ~r.lapsed => r.owner = WorkerId[e] /\ r.fresh /\ r.status = "RUNNING"

LEMMA CommitStepRun ==
  ASSUME FleetInv, NEW e \in Executors, At(e, "write"), CommitStep(e)
  PROVE  \E r \in Run : Committed(e, r)
<1> DEFINE q == [Mine(e) EXCEPT !.row = "SUCCEEDED", !.written = TRUE]
           st == IF at[e].loaded # "RUNNING" THEN "RUNNING" ELSE q.status
           fr == q.owner # NoOne
           r == [q EXCEPT !.status = st, !.fresh = fr]
<1>0. at[e].pc = "write" /\ Mine(e) \in Run /\ Sound(e, at[e], Mine(e)) /\ Gated(Mine(e))
  BY AtWorkFacts DEF At
<1>1. /\ q \in Run /\ q.actor = Mine(e).actor /\ q.kind = Mine(e).kind /\ q.signed = Mine(e).signed
      /\ q.lapsed = Mine(e).lapsed /\ q.written /\ q.status = Mine(e).status
      /\ q.owner = Mine(e).owner /\ q.fresh = Mine(e).fresh
  BY <1>0 DEF Run
<1>2. Update(e, IF at[e].loaded \in Terminal THEN q ELSE r)
  BY DEF CommitStep
<1> HIDE DEF q
<1>3. WorkerId[e] # NoOne
  BY FleetAssumption
<1>4. CASE at[e].loaded \in Terminal
  BY <1>0, <1>1, <1>2, <1>4 DEF Committed, Sound, Gated
<1>5. CASE at[e].loaded \notin Terminal
  <2>1. st \in RunStatus /\ fr \in BOOLEAN /\ (st = "WAITING_APPROVAL" => Mine(e).status = "WAITING_APPROVAL")
    BY <1>0, <1>1 DEF Run, RunStatus
  <2> HIDE DEF st, fr
  <2>2. /\ r \in Run /\ r.actor = q.actor /\ r.kind = q.kind /\ r.signed = q.signed
        /\ r.lapsed = q.lapsed /\ r.written = q.written /\ r.owner = q.owner
        /\ r.status = st /\ r.fresh = fr
    BY <1>1, <2>1 DEF Run
  <2>3. ~r.lapsed => st = "RUNNING" /\ fr
    BY <1>0, <1>1, <1>3, <2>2 DEF Sound, st, fr
  <2> HIDE DEF r
  <2>4. QED
    BY <1>0, <1>1, <1>2, <1>5, <2>1, <2>2, <2>3 DEF Committed, Sound, Gated
<1>6. QED
  BY <1>4, <1>5

LEMMA StepCommitSound ==
  ASSUME FleetInv, NEW e \in Executors, StepCommit(e) PROVE FleetInv'
<1> DEFINE m == [at[e] EXCEPT !.pc = "drive", !.outcome = TRUE]
<1>0. at[e].pc = "write" /\ At(e, "write")
  BY DEF StepCommit, At
<1>1. PICK r \in Run : Committed(e, r)
  BY <1>0, CommitStepRun DEF StepCommit
<1>2. m \in Mem /\ m.run = at[e].run /\ m.pc = "drive"
  BY <1>0, AtWorkFacts DEF Mem, PC
<1>3. at' = [at EXCEPT ![e] = m]
  BY <1>0, AtWorkFacts DEF StepCommit
<1> HIDE DEF m
<1>4. m # Away /\ Driving(m) /\ Sound(e, m, r)
  BY <1>1, <1>2 DEF Away, Driving, Sound, Committed
<1>5. QED
  BY <1>0, <1>1, <1>2, <1>3, <1>4, AtWorkFacts, OwnStep DEF StepCommit, Committed, Update, Answer

(* What has failed, about a run that is still the driver's.                  *)
LEMMA FailSound ==
  ASSUME NEW e \in Executors, at \in [Executors -> Mem], at[e].pc = "write",
         NEW fault \in {"denied", "domain", "infra"}, Fail(e, fault), NEW r \in Run,
         ~r.lapsed => r.owner = WorkerId[e] /\ r.fresh /\ r.status = "RUNNING",
         fault = "domain" => ~r.written, at[e].outcome => r.written
  PROVE  \E m \in Mem : /\ at' = [at EXCEPT ![e] = m] /\ m # Away /\ m.run = at[e].run
                        /\ Driving(m) /\ Sound(e, m, r)
<1> DEFINE m == [at[e] EXCEPT !.pc = "failing", !.fault = fault]
<1>1. /\ m \in Mem /\ m.run = at[e].run /\ m.pc = "failing" /\ m.fault = fault
      /\ m.outcome = at[e].outcome
  BY DEF Mem, PC
<1>2. at' = [at EXCEPT ![e] = m]
  BY DEF Fail
<1> HIDE DEF m
<1>3. m # Away /\ Driving(m) /\ Sound(e, m, r)
  BY <1>1 DEF Away, Driving, Sound
<1>4. QED
  BY <1>1, <1>2, <1>3

LEMMA StepRaisesSound ==
  ASSUME FleetInv, NEW e \in Executors, StepRaises(e) PROVE FleetInv'
<1>0. at[e].pc = "write"
  BY DEF StepRaises, At
<1>1. PICK fault \in {"domain", "infra"} : Fail(e, fault) /\ (fault = "domain" => ~Mine(e).written)
  BY DEF StepRaises
<1>2. PICK m \in Mem : /\ at' = [at EXCEPT ![e] = m] /\ m # Away /\ m.run = at[e].run
                       /\ Driving(m) /\ Sound(e, m, Mine(e))
  BY <1>0, <1>1, AtWorkFacts, FailSound DEF Sound
<1>3. QED
  BY <1>0, <1>2, AtWorkFacts, OwnMemoryStep DEF StepRaises, Answer

LEMMA StepCommitUnacknowledgedSound ==
  ASSUME FleetInv, NEW e \in Executors, StepCommitUnacknowledged(e) PROVE FleetInv'
<1>0. at[e].pc = "write" /\ At(e, "write")
  BY DEF StepCommitUnacknowledged, At
<1>1. PICK r \in Run : Committed(e, r)
  BY <1>0, CommitStepRun DEF StepCommitUnacknowledged
<1>2. PICK m \in Mem : /\ at' = [at EXCEPT ![e] = m] /\ m # Away /\ m.run = at[e].run
                       /\ Driving(m) /\ Sound(e, m, r)
  BY <1>0, <1>1, AtWorkFacts, FailSound DEF Committed, StepCommitUnacknowledged
<1>3. mishaps' \in 0..MaxMishaps /\ UNCHANGED answer
  BY <1>0, AtWorkFacts, FleetAssumption DEF StepCommitUnacknowledged
<1>4. QED
  BY <1>0, <1>1, <1>2, <1>3, AtWorkFacts, OwnStep DEF Committed, Update, Answer

LEMMA FailLoadSound ==
  ASSUME FleetInv, NEW e \in Executors, FailLoad(e) PROVE FleetInv'
<1> DEFINE d == at[e].fault = "infra" /\ ~Exhausted(Mine(e))
           m == [at[e] EXCEPT !.pc = "failOpen", !.loaded = Mine(e).status, !.defer = d]
<1>0. at[e].pc = "failing"
  BY DEF FailLoad, At
<1>1. at' = [at EXCEPT ![e] = m]
  BY <1>0, AtWorkFacts DEF FailLoad
<1>2. d \in BOOLEAN /\ (d => at[e].fault = "infra")
  OBVIOUS
<1> HIDE DEF d
<1>3. /\ m \in Mem /\ m.run = at[e].run /\ m.pc = "failOpen" /\ m.loaded = Mine(e).status
      /\ m.fault = at[e].fault /\ m.defer = d /\ m.outcome = at[e].outcome
  BY <1>0, <1>2, AtWorkFacts DEF Mem, PC, Run
<1> HIDE DEF m
<1>4. m # Away /\ Driving(m) /\ Sound(e, m, Mine(e))
  BY <1>0, <1>2, <1>3, AtWorkFacts DEF Away, Driving, Sound
<1>5. QED
  BY <1>0, <1>1, <1>3, <1>4, AtWorkFacts, OwnMemoryStep DEF FailLoad, Answer

(* A refusal told to the caller is final: the run is FAILED and was the       *)
(* caller's alone, unless its lease had lapsed.                             *)
LEMMA FailCommitSound ==
  ASSUME FleetInv, NEW e \in Executors, FailCommit(e) PROVE FleetInv'
<1> DEFINE p == [Mine(e) EXCEPT !.row = "FAILED"]
           q == IF at[e].defer \/ at[e].loaded \in Terminal THEN p ELSE [p EXCEPT !.status = "FAILED"]
           r == IF at[e].defer THEN Deferred(e, p) ELSE Released(e, q)
           reply == ReplyToFailure(at[e].fault)
<1>0. at[e].pc = "failOpen"
  BY DEF FailCommit, At
<1>1. Update(e, r) /\ Leave(e, reply) /\ UNCHANGED mishaps
  BY DEF FailCommit
<1>2. /\ p \in Run /\ p.actor = Mine(e).actor /\ p.kind = Mine(e).kind /\ p.signed = Mine(e).signed
      /\ p.lapsed = Mine(e).lapsed /\ p.written = Mine(e).written /\ p.status = Mine(e).status
  BY <1>0, AtWorkFacts DEF Run
<1> HIDE DEF p
<1>3. /\ q \in Run /\ q.actor = p.actor /\ q.kind = p.kind /\ q.signed = p.signed
      /\ q.lapsed = p.lapsed /\ q.written = p.written /\ q.status \in {p.status, "FAILED"}
      /\ ~at[e].defer /\ at[e].loaded \notin Terminal => q.status = "FAILED"
      /\ at[e].defer => q = p
  BY <1>2 DEF Run, RunStatus, Terminal
<1> HIDE DEF q
<1>4. r \in Run /\ SameButLease(q, r)
  BY <1>2, <1>3, LeaseOnly
<1>5. Gated(q)
  BY <1>0, <1>2, <1>3, AtWorkFacts DEF Gated
<1>6. reply \in Answer /\ reply # "none"
  BY DEF ReplyToFailure, Answer
<1>7. Told(reply, q)
  BY <1>0, <1>2, <1>3, AtWorkFacts DEF Told, ReplyToFailure, Sound, Terminal
<1> HIDE DEF r
<1>8. QED
  BY <1>0, <1>1, <1>2, <1>3, <1>4, <1>5, <1>6, <1>7, AtWorkFacts, LeavesSound

LEMMA CrashSound ==
  ASSUME FleetInv, NEW e \in Executors, Crash(e) PROVE FleetInv'
<1>0. /\ at[e].pc # "idle" /\ mishaps' \in 0..MaxMishaps /\ UNCHANGED runs
      /\ Leave(e, "error") /\ "error" \in Answer
  BY FleetAssumption DEF Crash, At, FleetInv, FleetTypeOK, Answer
<1>1. CASE at[e].pc # "created"
  <2>1. runs' = [runs EXCEPT ![at[e].run] = Mine(e)]
    BY <1>0, <1>1, AtWorkFacts DEF Mine
  <2>2. QED
    BY <1>0, <1>1, <2>1, AtWorkFacts, AwayType, OwnStep DEF Leave, Told
<1>2. CASE at[e].pc = "created"
  <2>1. /\ e \in Callers /\ answer[e] = "none" /\ at' = [at EXCEPT ![e] = Away]
        /\ answer' = [answer EXCEPT ![e] = "error"]
    BY <1>0, <1>2 DEF FleetInv, Placed, Called, Leave
  <2>2. FleetTypeOK'
    BY <1>0, <2>1, AwayType DEF FleetInv, FleetTypeOK
  <2>3. Placed'
    BY <1>0, <2>1 DEF FleetInv, FleetTypeOK, Placed, Driving, Away, Mine
  <2>4. OneDriver' /\ \A f \in Executors, i \in DOMAIN runs : AtWork(f, i)' => AtWork(f, i)
    BY <1>0, <2>1 DEF FleetInv, FleetTypeOK, OneDriver, AtWork, At, Away
  <2>5. Called'
    BY <1>0, <2>1 DEF FleetInv, FleetTypeOK, Called, Away, Mine
  <2>6. Answered'
    BY <1>0, <2>1, <2>4 DEF FleetInv, FleetTypeOK, Answered, Told
  <2>7. QED
    BY <1>0, <2>2, <2>3, <2>4, <2>5, <2>6 DEF FleetInv
<1>3. QED
  BY <1>1, <1>2

-----------------------------------------------------------------------------
(* Steps that change a run and nobody's memory. *)
LEMMA RunStep ==
  ASSUME FleetInv, NEW i \in DOMAIN runs, NEW r \in Run, runs' = [runs EXCEPT ![i] = r],
         UNCHANGED <<at, answer>>, mishaps' \in 0..MaxMishaps,
         r.actor = runs[i].actor, r.kind = runs[i].kind, r.written = runs[i].written, Gated(r),
         runs[i].lapsed => r.lapsed, runs[i].status = "FAILED" => r.status = "FAILED",
         \A e \in Executors : Driving(at[e]) /\ at[e].run = i => Sound(e, at[e], r)
  PROVE  FleetInv'
<1>1. /\ DOMAIN runs' = DOMAIN runs /\ runs'[i] = r
      /\ \A j \in DOMAIN runs : j # i => runs'[j] = runs[j]
  BY DEF FleetInv, FleetTypeOK
<1>2. FleetTypeOK'
  BY DEF FleetInv, FleetTypeOK
<1>3. Placed'
  BY <1>1 DEF FleetInv, Placed, Mine, Driving
<1>4. OneDriver'
  BY <1>1 DEF FleetInv, OneDriver, AtWork, At
<1>5. \A j \in DOMAIN runs : runs'[j].actor = runs[j].actor
  BY <1>1
<1>6. Called'
  <2>1. \A c \in Callers : at[c].pc # "idle" => at[c].run \in DOMAIN runs
    BY DEF FleetInv, Placed, Executors
  <2>2. QED
    BY <1>1, <1>5, <2>1 DEF FleetInv, Called, Mine
<1>7. Answered'
  BY <1>1 DEF FleetInv, Answered, Told, AtWork, At
<1>8. QED
  BY <1>1, <1>2, <1>3, <1>4, <1>6, <1>7 DEF FleetInv

LEMMA ApproveSound ==
  ASSUME FleetInv, NEW i \in DOMAIN runs, Approve(i) PROVE FleetInv'
<1> DEFINE st == IF runs[i].status = "WAITING_APPROVAL" THEN "PENDING" ELSE runs[i].status
           r == [runs[i] EXCEPT !.signed = TRUE, !.status = st]
<1>0. runs \in Seq(Run) /\ runs[i] \in Run /\ Gated(runs[i]) /\ mishaps \in 0..MaxMishaps
  BY DEF FleetInv, FleetTypeOK
<1>1. runs' = [runs EXCEPT ![i] = r]
  BY <1>0 DEF Approve
<1>2. st \in RunStatus
  BY <1>0 DEF Run, RunStatus
<1>3. /\ r \in Run /\ r.actor = runs[i].actor /\ r.kind = runs[i].kind /\ r.written = runs[i].written
      /\ r.lapsed = runs[i].lapsed /\ r.owner = runs[i].owner /\ r.fresh = runs[i].fresh /\ r.signed
      /\ r.status = st
  BY <1>0, <1>2 DEF Run
<1> HIDE DEF r
<1>4. Gated(r)
  BY <1>0, <1>3 DEF Gated
<1>5. \A e \in Executors : Driving(at[e]) /\ at[e].run = i => Sound(e, at[e], r)
  BY <1>3 DEF FleetInv, Placed, Sound, Mine
<1>6. QED
  BY <1>0, <1>1, <1>3, <1>4, <1>5, RunStep DEF Approve

LEMMA LeaseLapsesSound ==
  ASSUME FleetInv, NEW i \in DOMAIN runs, LeaseLapses(i) PROVE FleetInv'
<1> DEFINE r == [runs[i] EXCEPT !.fresh = FALSE, !.lapsed = TRUE]
<1>0. runs \in Seq(Run) /\ runs[i] \in Run /\ Gated(runs[i]) /\ mishaps' \in 0..MaxMishaps
  BY FleetAssumption DEF FleetInv, FleetTypeOK, LeaseLapses
<1>1. runs' = [runs EXCEPT ![i] = r]
  BY <1>0 DEF LeaseLapses
<1>3. /\ r \in Run /\ r.actor = runs[i].actor /\ r.kind = runs[i].kind /\ r.written = runs[i].written
      /\ r.lapsed /\ r.signed = runs[i].signed /\ r.status = runs[i].status
  BY <1>0 DEF Run
<1> HIDE DEF r
<1>4. Gated(r)
  BY <1>0, <1>3 DEF Gated
<1>5. \A e \in Executors : Driving(at[e]) /\ at[e].run = i => Sound(e, at[e], r)
  BY <1>3 DEF FleetInv, Placed, Sound, Mine
<1>6. QED
  BY <1>0, <1>1, <1>3, <1>4, <1>5, RunStep DEF LeaseLapses

LEMMA LeaseExpiresSound ==
  ASSUME FleetInv, NEW i \in DOMAIN runs, LeaseExpires(i) PROVE FleetInv'
<1> DEFINE r == [runs[i] EXCEPT !.fresh = FALSE]
<1>0. runs \in Seq(Run) /\ runs[i] \in Run /\ Gated(runs[i]) /\ mishaps' \in 0..MaxMishaps
  BY DEF FleetInv, FleetTypeOK, LeaseExpires
<1>1. runs' = [runs EXCEPT ![i] = r]
  BY <1>0 DEF LeaseExpires
<1>3. /\ r \in Run /\ r.actor = runs[i].actor /\ r.kind = runs[i].kind /\ r.written = runs[i].written
      /\ r.lapsed = runs[i].lapsed /\ r.signed = runs[i].signed /\ r.status = runs[i].status
  BY <1>0 DEF Run
<1> HIDE DEF r
<1>4. Gated(r)
  BY <1>0, <1>3 DEF Gated
<1>5. \A e \in Executors : Driving(at[e]) /\ at[e].run = i => Sound(e, at[e], r)
  BY <1>3 DEF FleetInv, Placed, Sound, Mine, LeaseExpires, HolderAtWork
<1>6. QED
  BY <1>0, <1>1, <1>3, <1>4, <1>5, RunStep DEF LeaseExpires

-----------------------------------------------------------------------------
(* Claiming.  A lease that is free and has not lapsed is nobody's any more.  *)
LEMMA ClaimRunSound ==
  ASSUME FleetInv, NEW e \in Executors, NEW i \in DOMAIN runs, Claimable(i), ClaimRun(e, i),
         \/ at[e].pc = "idle" /\ e \notin Callers
         \/ at[e].pc = "created" /\ at[e].run = i
  PROVE  FleetInv'
<1> DEFINE r == Claimed(e, runs[i])
           m == [Away EXCEPT !.pc = "claimed", !.run = i]
<1>0. /\ runs \in Seq(Run) /\ runs[i] \in Run /\ Gated(runs[i]) /\ mishaps \in 0..MaxMishaps
      /\ at \in [Executors -> Mem] /\ answer \in [Callers -> Answer] /\ i \in Nat \ {0}
  BY DEF FleetInv, FleetTypeOK
<1>1. runs' = [runs EXCEPT ![i] = r] /\ at' = [at EXCEPT ![e] = m] /\ UNCHANGED <<answer, mishaps>>
  BY DEF ClaimRun
<1>3. /\ r \in Run /\ r.actor = runs[i].actor /\ r.kind = runs[i].kind /\ r.written = runs[i].written
      /\ r.lapsed = runs[i].lapsed /\ r.signed = runs[i].signed /\ r.status = "RUNNING"
      /\ r.owner = WorkerId[e] /\ r.fresh
  <2> DEFINE n == IF runs[i].attempt < MaxRetries THEN runs[i].attempt + 1 ELSE runs[i].attempt
  <2>1. n \in 0..MaxRetries
    BY <1>0, FleetAssumption DEF Run
  <2>2. r = [runs[i] EXCEPT !.owner = WorkerId[e], !.fresh = TRUE, !.status = "RUNNING", !.attempt = n]
    BY DEF Claimed
  <2> HIDE DEF n, r
  <2>3. QED
    BY <1>0, <2>1, <2>2 DEF Run, RunStatus
<1>4. /\ m \in Mem /\ m.run = i /\ m.pc = "claimed" /\ ~m.outcome
  BY <1>0, AwayType DEF Mem, PC, Away
<1> HIDE DEF r, m
<1>5. ASSUME NEW f \in Executors, Driving(at[f]), at[f].run = i PROVE r.lapsed
  BY <1>3, <1>5, FleetAssumption DEF FleetInv, Placed, Sound, Mine, Claimable, LeaseFree
<1>6. /\ DOMAIN runs' = DOMAIN runs /\ runs'[i] = r /\ at'[e] = m
      /\ \A j \in DOMAIN runs : j # i => runs'[j] = runs[j]
      /\ \A f \in Executors : f # e => at'[f] = at[f]
      /\ \A j \in DOMAIN runs : runs'[j].actor = runs[j].actor
  BY <1>0, <1>1, <1>3
<1>7. FleetTypeOK'
  BY <1>0, <1>1, <1>3, <1>4 DEF FleetInv, FleetTypeOK
<1>8. Placed'
  <2> SUFFICES ASSUME NEW f \in Executors
               PROVE  /\ at'[f].pc = "idle" => at'[f] = Away
                      /\ at'[f].pc # "idle" => at'[f].run \in DOMAIN runs'
                      /\ at'[f].pc = "created" => f \in Callers
                      /\ Driving(at'[f]) => Sound(f, at'[f], runs'[at'[f].run])
    BY DEF Placed, Mine
  <2>1. CASE f = e
    BY <1>3, <1>4, <1>6, <2>1 DEF Driving, Sound
  <2>2. CASE f # e /\ at[f].run = i /\ Driving(at[f])
    BY <1>3, <1>5, <1>6, <2>2 DEF FleetInv, Placed, Sound, Mine, Driving
  <2>3. CASE f # e /\ ~(at[f].run = i /\ Driving(at[f]))
    BY <1>6, <2>3 DEF FleetInv, Placed, Mine, Driving
  <2>4. QED BY <2>1, <2>2, <2>3
<1>9. OneDriver'
  <2> SUFFICES ASSUME NEW j \in DOMAIN runs, NEW f \in Executors, NEW g \in Executors,
                      AtWork(f, j)', AtWork(g, j)', f # g
               PROVE  runs'[j].lapsed
    BY <1>6 DEF OneDriver
  <2>1. CASE f # e /\ g # e
    BY <1>3, <1>6, <2>1 DEF FleetInv, OneDriver, AtWork, At
  <2>2. CASE f = e \/ g = e
    <3>1. PICK h \in {f, g} : h # e
      OBVIOUS
    <3>2. j = i /\ at[h].run = i /\ at[h].pc # "created"
      BY <1>4, <1>6, <2>2, <3>1 DEF AtWork, At
    <3>3. Driving(at[h])
      BY <1>0, <3>2 DEF FleetInv, Placed, Driving, Away
    <3>4. QED
      BY <1>5, <1>6, <3>2, <3>3
  <2>3. QED BY <2>1, <2>2
<1>10. Called'
  <2>1. ASSUME NEW c \in Callers, at'[c].pc # "idle" PROVE answer'[c] = "none" /\ Mine(c)'.actor = c
    <3>1. c \in Executors
      BY DEF Executors
    <3>2. CASE c = e
      BY <1>1, <1>4, <1>6, <3>2 DEF FleetInv, Called, Mine
    <3>3. CASE c # e
      BY <1>1, <1>6, <2>1, <3>1, <3>3 DEF FleetInv, Called, Placed, Mine
    <3>4. QED BY <3>2, <3>3
  <2>2. ASSUME NEW j \in DOMAIN runs, runs'[j].actor \in Callers
        PROVE  at'[runs'[j].actor].run = j \/ answer'[runs'[j].actor] # "none"
    <3>1. runs'[j].actor = runs[j].actor /\ runs[j].actor \in Executors
      BY <1>6, <2>2 DEF Executors
    <3>2. at[runs[j].actor].run = j \/ answer[runs[j].actor] # "none"
      BY <2>2, <3>1 DEF FleetInv, Called
    <3>3. CASE runs[j].actor # e
      BY <1>1, <1>6, <3>1, <3>2, <3>3
    <3>4. CASE runs[j].actor = e
      BY <1>1, <1>4, <1>6, <2>2, <3>1, <3>2, <3>4
    <3>5. QED BY <3>3, <3>4
  <2>3. QED
    BY <1>6, <2>1, <2>2 DEF FleetInv, Called
<1>11. Answered'
  <2>1. \A j \in DOMAIN runs : runs[j].actor \in Callers => Told(answer[runs[j].actor], runs'[j])
    BY <1>3, <1>6 DEF FleetInv, Answered, Told, Claimable, CLAIMABLE_STATUSES
  <2>2. ASSUME NEW j \in DOMAIN runs, runs[j].actor \in Callers, answer[runs[j].actor] = "refused",
               ~runs'[j].lapsed, NEW f \in Executors
        PROVE  ~AtWork(f, j)'
    <3>1. j # i
      BY <1>3, <1>6, <2>2 DEF FleetInv, Answered, Told, Claimable, CLAIMABLE_STATUSES
    <3>2. QED
      BY <1>4, <1>6, <2>2, <3>1 DEF FleetInv, Answered, AtWork, At
  <2>3. QED
    BY <1>1, <1>6, <2>1, <2>2 DEF Answered
<1>12. \A j \in DOMAIN runs' : Gated(runs'[j])
  BY <1>0, <1>3, <1>6 DEF FleetInv, Gated
<1>13. QED
  BY <1>7, <1>8, <1>9, <1>10, <1>11, <1>12 DEF FleetInv

(* A new run is nobody's yet. *)
LEMMA RegisterSound ==
  ASSUME FleetInv, NEW actor \in Callers \cup {NoOne}, Register(actor), UNCHANGED <<answer, mishaps>>,
         \/ actor = NoOne /\ UNCHANGED at
         \/ /\ actor \in Callers /\ at[actor].pc = "idle" /\ answer[actor] = "none"
            /\ at' = [at EXCEPT ![actor] = [Away EXCEPT !.pc = "created", !.run = Len(runs) + 1]]
  PROVE  FleetInv'
<1> DEFINE i == Len(runs) + 1
<1>0. /\ runs \in Seq(Run) /\ DOMAIN runs = 1..Len(runs) /\ Len(runs) \in Nat
      /\ at \in [Executors -> Mem] /\ answer \in [Callers -> Answer] /\ Callers \subseteq Executors
  BY DEF FleetInv, FleetTypeOK, Executors
<1>1. PICK kind \in Kinds[i] : runs' = Append(runs, NewRun(actor, kind))
  BY DEF Register
<1>2. kind \in Kind
  <2>1. Len(runs) < Len(Kinds)
    BY DEF Register, MaxRuns
  <2>2. QED BY <1>0, <1>1, <2>1, FleetAssumption DEF Kind
<1> DEFINE r == NewRun(actor, kind)
<1>3. /\ r \in Run /\ r.actor = actor /\ Gated(r) /\ ~r.written /\ r.status = "PENDING"
  BY <1>2, FleetAssumption DEF NewRun, Run, RunStatus, Gated
<1> HIDE DEF r
<1>4. /\ runs' \in Seq(Run) /\ DOMAIN runs' = 1..i /\ runs'[i] = r
      /\ \A j \in DOMAIN runs : runs'[j] = runs[j]
  BY <1>0, <1>1, <1>3 DEF r
<1>5. ASSUME actor \in Callers
      PROVE  /\ at' \in [Executors -> Mem] /\ at'[actor].pc = "created" /\ at'[actor].run = i
             /\ actor \in Executors
             /\ \A f \in Executors : f # actor => at'[f] = at[f]
  <2> DEFINE m == [Away EXCEPT !.pc = "created", !.run = Len(runs) + 1]
  <2>0. i \in Nat
    BY <1>0
  <2>1. m \in Mem /\ m.pc = "created" /\ m.run = i
    <3> HIDE DEF i
    <3> DEFINE m1 == [Away EXCEPT !.pc = "created", !.run = i]
    <3>1. m1 \in Mem /\ m1.pc = "created" /\ m1.run = i
      BY <2>0, AwayType DEF Mem, PC, Away
    <3>2. m = m1
      BY DEF i
    <3>3. QED BY <3>1, <3>2
  <2>2. at' = [at EXCEPT ![actor] = m]
    BY <1>5, FleetAssumption
  <2> HIDE DEF m
  <2>3. QED BY <1>0, <1>5, <2>1, <2>2
<1>6. \A f \in Executors : at'[f] = at[f] \/ (f = actor /\ actor \in Callers)
  BY <1>5
<1>7. FleetTypeOK'
  BY <1>0, <1>4, <1>5 DEF FleetInv, FleetTypeOK
<1>8. Placed'
  BY <1>0, <1>4, <1>5, <1>6 DEF FleetInv, Placed, Driving, Mine
<1>9. \A f \in Executors, j \in DOMAIN runs' : AtWork(f, j)' => AtWork(f, j) /\ j \in DOMAIN runs
  <2> SUFFICES ASSUME NEW f \in Executors, NEW j \in DOMAIN runs', AtWork(f, j)'
               PROVE  AtWork(f, j) /\ j \in DOMAIN runs
    OBVIOUS
  <2>1. at'[f] = at[f]
    BY <1>5, <1>6 DEF AtWork, At
  <2>2. at[f].run = j /\ at[f].pc # "created" /\ j # 0
    BY <1>0, <1>4, <2>1 DEF AtWork, At
  <2>3. QED
    BY <2>2 DEF FleetInv, Placed, Away, AtWork, At
<1>10. OneDriver'
  BY <1>4, <1>9 DEF FleetInv, OneDriver
<1>11. ASSUME actor \in Callers, NEW j \in DOMAIN runs PROVE runs[j].actor # actor
  <2>1. at[actor] = Away /\ answer[actor] = "none"
    BY <1>0, <1>11, FleetAssumption DEF FleetInv, Placed
  <2>2. at[actor].run # j
    BY <1>0, <2>1 DEF Away
  <2>3. QED BY <1>11, <2>1, <2>2 DEF FleetInv, Called
<1>12. Called'
  <2>1. ASSUME NEW c \in Callers, at'[c].pc # "idle" PROVE answer'[c] = "none" /\ Mine(c)'.actor = c
    BY <1>0, <1>3, <1>4, <1>5, <1>6, <2>1 DEF FleetInv, Called, Placed, Mine
  <2>2. ASSUME NEW j \in DOMAIN runs', runs'[j].actor \in Callers
        PROVE  at'[runs'[j].actor].run = j \/ answer'[runs'[j].actor] # "none"
    <3>1. CASE j = i
      BY <1>3, <1>4, <1>5, <2>2, <3>1
    <3>2. CASE j # i
      BY <1>0, <1>4, <1>6, <1>11, <2>2, <3>2 DEF FleetInv, Called
    <3>3. QED BY <3>1, <3>2
  <2>3. ASSUME NEW j \in DOMAIN runs', NEW k \in DOMAIN runs',
               runs'[j].actor \in Callers, runs'[j].actor = runs'[k].actor
        PROVE  j = k
    BY <1>0, <1>3, <1>4, <1>11, <2>3 DEF FleetInv, Called
  <2>4. QED BY <2>1, <2>2, <2>3 DEF Called
<1>13. Answered'
  <2>1. ASSUME NEW j \in DOMAIN runs', runs'[j].actor \in Callers
        PROVE  /\ Told(answer[runs'[j].actor], runs'[j])
               /\ answer[runs'[j].actor] = "refused" /\ ~runs'[j].lapsed
                    => \A e \in Executors : ~AtWork(e, j)'
    <3>1. CASE j = i
      BY <1>3, <1>4, <2>1, <3>1, FleetAssumption DEF Told
    <3>2. CASE j # i
      BY <1>0, <1>4, <1>9, <2>1, <3>2 DEF FleetInv, Answered
    <3>3. QED BY <3>1, <3>2
  <2>2. QED BY <2>1 DEF Answered
<1>14. \A j \in DOMAIN runs' : Gated(runs'[j])
  BY <1>0, <1>3, <1>4 DEF FleetInv
<1>15. QED
  BY <1>7, <1>8, <1>10, <1>12, <1>13, <1>14 DEF FleetInv

(* A call that does not get its own run goes like one that is cut off.       *)
LEMMA BusySound ==
  ASSUME FleetInv, NEW c \in Callers, at[c].pc = "created", Leave(c, "error"), UNCHANGED <<runs, mishaps>>
  PROVE  FleetInv'
<1>1. /\ c \in Executors /\ answer[c] = "none" /\ at' = [at EXCEPT ![c] = Away]
      /\ answer' = [answer EXCEPT ![c] = "error"] /\ "error" \in Answer
  BY DEF FleetInv, Called, Leave, Executors, Answer
<1>2. FleetTypeOK'
  BY <1>1, AwayType DEF FleetInv, FleetTypeOK
<1>3. Placed'
  BY <1>1 DEF FleetInv, FleetTypeOK, Placed, Driving, Away, Mine
<1>4. OneDriver' /\ \A f \in Executors, i \in DOMAIN runs : AtWork(f, i)' => AtWork(f, i)
  BY <1>1 DEF FleetInv, FleetTypeOK, OneDriver, AtWork, At, Away
<1>5. Called'
  BY <1>1 DEF FleetInv, FleetTypeOK, Called, Away, Mine
<1>6. Answered'
  BY <1>1, <1>4 DEF FleetInv, FleetTypeOK, Answered, Told
<1>7. QED
  BY <1>2, <1>3, <1>4, <1>5, <1>6 DEF FleetInv

LEMMA FleetInvStep == FleetInv /\ [FleetNext]_fleetVars => FleetInv'
<1> SUFFICES ASSUME FleetInv, [FleetNext]_fleetVars PROVE FleetInv'
  OBVIOUS
<1>0. Callers \subseteq Executors /\ Workers \subseteq Executors /\ Requests \subseteq Executors
  BY DEF Executors
<1>1. CASE Submit
  BY <1>1, RegisterSound DEF Submit
<1>2. ASSUME NEW c \in Callers, Create(c) PROVE FleetInv'
  BY <1>2, RegisterSound DEF Create, At
<1>3. ASSUME NEW c \in Callers, ClaimOwn(c) PROVE FleetInv'
  <2>1. at[c].pc = "created" /\ at[c].run \in DOMAIN runs /\ c \in Executors
    BY <1>0, <1>3 DEF ClaimOwn, At, FleetInv, Placed
  <2>2. CASE Claimable(at[c].run) /\ ClaimRun(c, at[c].run)
    BY <2>1, <2>2, ClaimRunSound
  <2>3. CASE Leave(c, "error") /\ UNCHANGED <<runs, mishaps>>
    BY <2>1, <2>3, BusySound
  <2>4. QED BY <1>3, <2>2, <2>3 DEF ClaimOwn
<1>4. ASSUME NEW q \in Requests, ClaimNamed(q) PROVE FleetInv'
  BY <1>0, <1>4, ClaimRunSound, FleetAssumption DEF ClaimNamed, At
<1>5. ASSUME NEW w \in Workers, ClaimNext(w) PROVE FleetInv'
  BY <1>0, <1>5, ClaimRunSound, FleetAssumption DEF ClaimNext, At
<1>6. ASSUME NEW e \in Executors, Drive(e) PROVE FleetInv'
  BY <1>6, AssertHoldsLeaseSound, DriveLoadSound, FinishSound, WaitForApprovalSound, StepBeginSound,
     StepOpenSound, StepCommitSound, StepRaisesSound, FailLoadSound, FailCommitSound
     DEF Drive, StepTxn
<1>7. ASSUME NEW e \in Executors, StepCommitUnacknowledged(e) \/ Crash(e) PROVE FleetInv'
  BY <1>7, StepCommitUnacknowledgedSound, CrashSound
<1>8. ASSUME NEW i \in DOMAIN runs, Approve(i) \/ LeaseLapses(i) \/ LeaseExpires(i) PROVE FleetInv'
  BY <1>8, ApproveSound, LeaseLapsesSound, LeaseExpiresSound
<1>9. CASE UNCHANGED fleetVars
  BY <1>9 DEF fleetVars, FleetInv, FleetTypeOK, Placed, OneDriver, Called, Answered, AtWork, At, Mine
<1>10. QED
  BY <1>1, <1>2, <1>3, <1>4, <1>5, <1>6, <1>7, <1>8, <1>9 DEF FleetNext

LEMMA FleetInvariant == FleetSpec => []FleetInv
<1>1. QED
  BY FleetInvInit, FleetInvStep, PTL DEF FleetSpec

-----------------------------------------------------------------------------
(* FleetTypeOK: type correctness of the fleet.                              *)
THEOREM FleetTypeCorrect == FleetSpec => []FleetTypeOK
BY FleetInvariant, PTL DEF FleetInv

(* OneDriver: no two executors drive one run unless its lease has lapsed on   *)
(* a live one (claim_runs, _assert_holds_lease, defer and release together).  *)
THEOREM OneDriverOnly == FleetSpec => []OneDriver
BY FleetInvariant, PTL DEF FleetInv

(* AnsweredTruly: a direct call that is told "done" has written, one that is  *)
(* refused never will, one told to wait writes nothing unsigned.             *)
THEOREM AnswersAreTrue == FleetSpec => []AnsweredTruly
<1>1. FleetInv => AnsweredTruly
  BY DEF FleetInv, Answered, Told, Gated, AnsweredTruly
<1>2. QED
  BY <1>1, FleetInvariant, PTL
=============================================================================
