------------------------------- MODULE PlanRefs -------------------------------
(***************************************************************************)
(* Plans: steps in an order, what they depend on and what they take from      *)
(* each other (governance/plan.py), and what a run has of their results.     *)
(*                                                                         *)
(* A step is [seq, tool, args, deps, approval].  `args` maps the places of    *)
(* the argument tree to what stands there: a scalar, a reference [seq, path] *)
(* to an earlier result, a reference that cannot be parsed (Broken) or one    *)
(* that is not a string (Odd).  A result maps its paths to scalars and       *)
(* structures; which characters make a path is left out.                     *)
(***************************************************************************)
EXTENDS Integers, Sequences

Scalar(v) == [kind |-> "scalar", value |-> v]
Ref(seq, path) == [kind |-> "ref", seq |-> seq, path |-> path]
Broken == [kind |-> "broken"]
Odd == [kind |-> "odd"]
Structure == [kind |-> "structure"]

IsRef(v) == v.kind \in {"ref", "broken", "odd"}

(* iter_refs *)
Refs(args) == {args[place] : place \in {p \in DOMAIN args : IsRef(args[p])}}

(* What a step needs of other steps. *)
Targets(step) == {r.seq : r \in {v \in Refs(step.args) : v.kind = "ref"}}
Needs(step) == step.deps \cup Targets(step)

Seqs(steps) == {steps[i].seq : i \in DOMAIN steps}

-----------------------------------------------------------------------------
(* Mutation: a step may need any step of the plan. *)
NeedsKnown(step, steps) == \A n \in Needs(step) : n \in Seqs(steps)

(* Dependencies and references name steps that exist and are numbered lower.  *)
NeedsAreEarlier(step, steps) == \A n \in Needs(step) : n \in Seqs(steps) /\ n < step.seq

(* validate: the numbers are distinct and in order; every reference can be    *)
(* parsed.  `tools` are the registered ones (the planner does not pass them). *)
Validate(steps, tools) ==
  /\ steps # <<>>
  /\ \A i, j \in DOMAIN steps : i # j => steps[i].seq # steps[j].seq
  /\ \A i, j \in DOMAIN steps : i < j => steps[i].seq <= steps[j].seq
  /\ \A i \in DOMAIN steps :
       /\ steps[i].tool \in tools
       /\ \A r \in Refs(steps[i].args) : r.kind = "ref"
       /\ NeedsAreEarlier(steps[i], steps)

(* resolve and lookup: every reference leads to a scalar in the result of a   *)
(* step that has succeeded; `results` maps the numbers of those steps.       *)
Resolvable(args, results) ==
  \A r \in Refs(args) :
    /\ r.kind = "ref" /\ r.seq \in DOMAIN results /\ r.path \in DOMAIN results[r.seq]
    /\ results[r.seq][r.path].kind = "scalar"

Resolve(args, results) ==
  [place \in DOMAIN args |->
     IF IsRef(args[place]) THEN results[args[place].seq][args[place].path] ELSE args[place]]

(* _assert_deps_done *)
DepsDone(step, done) == step.deps \subseteq done

(* The steps that have not succeeded, and the one that is next.              *)
Remaining(steps, done) == {i \in DOMAIN steps : steps[i].seq \notin done}
NextUp(steps, done) == CHOOSE i \in Remaining(steps, done) : \A j \in Remaining(steps, done) : i <= j
=============================================================================
