------------------------- MODULE MCQualifiedExecution -------------------------
(* A small instance of QualifiedExecution: one contract with one obligation  *)
(* and one requirement, and a host that drifts in every way the planner      *)
(* tells apart.                                                              *)
EXTENDS QualifiedExecution, TLC

CONSTANTS probe, snapshot1, snapshot2, output1

Contract ==
  [obligations |-> "citation" :> [kind |-> "citation-membership", rule |-> "r1", failure |-> "f1"],
   requirements |-> "accuracy" :> [direction |-> "min", threshold |-> 8, unit |-> "points"],
   answer |-> "answer-object", evidence |-> "precision-context-v5",
   composition |-> "single-source-precision", budget |-> 3072,
   nonbehavioral |-> {"label"}, targeting |-> TRUE, targeted |-> {"runtime", "label"}]

Dependency(kind, identity, assurance, until, policy) ==
  [kind |-> kind, identity |-> identity, assurance |-> assurance, until |-> until,
   policy |-> policy]

Manifest(order, fit, deps) ==
  [id |-> "local", scope |-> "provider-observable", order |-> order, dependencies |-> deps,
   capabilities |-> "structured" :> [binding |-> "b1", assurance |-> "pinned"],
   checks |-> {[kind |-> "citation-membership", rule |-> "r1", lowering |-> "l1", check |-> "c1"]},
   exact_fit |-> fit, calls |-> 1]

Model(until) == Dependency("model", "m1", "unknown", until, probe)
Runtime(i)   == Dependency("runtime", i, "pinned", Never, NoPolicy)
Label(i, a)  == Dependency("other", i, a, Never, NoPolicy)

Deps(r, l, a, until) ==
  ("model" :> Model(until)) @@ ("runtime" :> Runtime(r)) @@ ("label" :> Label(l, a))
Provider(r, l, a, until) == Manifest("as-listed", FALSE, Deps(r, l, a, until))

(* The qualified host; a new label; a label asserted by the host only; a new *)
(* runtime; one whose model may not be relied on for as long; the same       *)
(* manifest listed in another order; and a wider surface.                    *)
DriftingHosts ==
  {Provider("rt1", "lb1", "pinned", Never),
   Provider("rt1", "lb2", "pinned", Never),
   Provider("rt1", "lb2", "host-asserted", Never),
   Provider("rt2", "lb1", "pinned", Never),
   Provider("rt1", "lb1", "pinned", 0),
   Manifest("reversed", FALSE, Deps("rt1", "lb1", "pinned", Never)),
   Manifest("as-listed", TRUE, Deps("rt1", "lb1", "pinned", Never))}

Lower(check) == "citation" :> [lowering |-> "l1", check |-> check, failure |-> "f1"]
Policy(calls, check) ==
  [policy |-> "p1", lowerings |-> Lower(check), required |-> {"structured"}, calls |-> calls]
SmallSources == {Policy(1, "c1"), Policy(2, "c1"), Policy(1, "invented")}

Stated(status, passed, observation, violations) ==
  [status |-> status, violations |-> violations,
   results |-> "accuracy" :> [unit |-> "points", passed |-> passed, observed |-> observation]]
SmallMeasurements ==
  {Stated("qualified", TRUE, 8, 0), Stated("qualified", TRUE, 7, 0),
   Stated("failed", FALSE, 7, 0)}

Request(snapshot) ==
  [request |-> "req-1", evidence |-> snapshot, rendered |-> "d2", settings |-> "d3"]
TwoBindings == {Request(snapshot1), Request(snapshot2)}
Snapshots   == Permutations({snapshot1, snapshot2})
OneOutput   == {output1}
OnePolicy   == {probe}
=============================================================================
