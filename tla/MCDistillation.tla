---------------------------- MODULE MCDistillation ----------------------------
(* Worlds and hosts for TLC: two policies that matter, the others all alike. *)
EXTENDS DistillationBundles, TLC

Symmetry == Permutations(Procs)
Tokens == <<"tokens">>
Peaks == <<"ram">>

Host(id, fit, typed, gxh, proof, cache) ==
    [id |-> id, fit |-> fit, typed |-> typed, surface |-> typed, gxh |-> gxh, proof |-> proof,
     cache |-> cache, parity |-> cache # "off"]
MCHosts == {Host("h", TRUE, TRUE, TRUE, FALSE, "kv"), Host("h", FALSE, FALSE, FALSE, FALSE, "off")}

Objective(regressions, slack) ==
    [regressions |-> regressions, newHarm |-> [h \in Harms |-> 0], extraCalls |-> 0, slack |-> slack]
MCObjectives == {Objective(0, 0), Objective(1, 1)}

Kind(success, harms, tokens, output) ==
    [success |-> success, harms |-> harms, calls |-> 1,
     used |-> [m \in Meters |-> IF m = "tokens" THEN tokens ELSE 1], output |-> output]
Good == Kind(TRUE, {}, 3, "x")
Cheap == Kind(TRUE, {}, 1, "z")
Wrong == Kind(FALSE, {}, 2, "y")
Harmful == Kind(FALSE, Harms, 1, "y")

MCOutcome(w, p, i) ==
    IF p \in DOMAIN w.kinds THEN w.kinds[p][i]
    ELSE IF p = "Base" THEN Wrong ELSE IF p \in {"integrated", "integrated-K-off"} THEN Good ELSE w.others

\* c1 and c2 calibrate, t1 is held out.
World(p, f, q, g) == [kinds |-> (p :> f) @@ (q :> g), others |-> Wrong]
On(first, second, third) == ("c1" :> first) @@ ("c2" :> second) @@ ("t1" :> third)
MCWorlds ==
    {World("A+B+D", On(Cheap, Cheap, Harmful), "integrated", On(Good, Good, Wrong)),
     World("A+B+D", On(Good, Good, Wrong), "integrated", On(Cheap, Wrong, Good)),
     World("A+B+D", On(Wrong, Cheap, Good), "integrated", On(Good, Wrong, Good)),
     World("integrated", On(Cheap, Cheap, Good), "integrated-K-off", On(Good, Cheap, Good)),
     World("integrated", On(Cheap, Cheap, Good), "integrated-K-off", On(Cheap, Cheap, Good))}
=============================================================================
