------------------------- MODULE MCCapabilityBundles -------------------------
(* Two trees that differ in the revision of one operation, requests that   *)
(* share an identity, and artifacts and corpora of different coverage.     *)
EXTENDS CapabilityBundles, TLC

Symmetry == Permutations(Procs)

MCReviewed ==
    [t1 |-> [mean |-> "mean@1", var |-> "var@1", ped |-> "ped@1"],
     t2 |-> [mean |-> "mean@2", var |-> "var@1", ped |-> "ped@1"]]
MCRevisionOf == ("mean@1" :> 1) @@ ("mean@2" :> 2) @@ ("var@1" :> 1) @@ ("ped@1" :> 1)
MCArgsOf == [definition \in DOMAIN MCRevisionOf |->
                 IF definition = "ped@1" THEN <<"scalar", "scalar">> ELSE <<"vector">>]
MCFamilies == [statistics |-> [centre |-> {"mean"}, spread |-> {"var"}] @@ ("arithmetic-baseline" :> {}),
               economics |-> [elasticity |-> {"ped"}]]

Request(revision, families) ==
    [id |-> "cap", revision |-> revision, domain |-> "statistics", families |-> families, ops |-> Absent,
     calc |-> FALSE, tools |-> 1, steps |-> 0, bytes |-> 30, specialization |-> "selected",
     target |-> "no-import-wasm", artifactBytes |-> 3]
CalcProfile(revision) ==
    [Request(revision, {"arithmetic-baseline"}) EXCEPT !.id = "calc", !.ops = {}, !.calc = TRUE, !.steps = 8]
Economics == [Request(1, {"elasticity"}) EXCEPT !.id = "econ", !.domain = "economics"]
MCSources == {Request(1, {"centre"}), Request(2, {"spread"}), Request(3, {"centre", "spread"}), CalcProfile(6), CalcProfile(7),
              Economics}

Row(op, definition) == [op |-> op, expects |-> definition]
MCCorpora == {{Row("mean", "mean@1")}, {Row("mean", "mean@1"), Row("var", "var@1")}, {Row("ped", "ped@1")}, {}}
Artifact(source, ops) == [source |-> source, ops |-> ops, calc |-> FALSE, bytes |-> 1 + Cardinality(ops)]
MCArtifacts == {Artifact("t1", {"mean"}), Artifact("t1", {"mean", "var"})}

\* Nothing yet, or a compiled bundle and the revision that binds it.
MCEarlier ==
    LET compiled == CompileProfile(Request(1, {"centre"}), "t1", "t1")
    IN {<<>>, <<compiled, BoundBundle(compiled, Artifact("t1", {"mean"}), {Row("mean", "mean@1")}, "t1", 2, Absent)>>}

Arg(n) == [shape |-> "vector", n |-> n, exact |-> TRUE]
Scalar == [shape |-> "scalar", n |-> 1, exact |-> TRUE]
Eval(op, args) == [tool |-> "xs_eval", calls |-> 1, op |-> op, args |-> args]
Lit(l) == [lit |-> l]
Ref(n) == [ref |-> n]
Plan(steps) == [tool |-> "xs_calc", calls |-> 1, plan |-> steps]
Add(a, b) == [o |-> "add", a |-> <<a, b>>]
Powi(a, b) == [o |-> "powi", a |-> <<a, b>>]
MCReplies ==
    {Eval("mean", <<Arg(64)>>), Eval("mean", <<Arg(65)>>), Eval("mean", <<>>), Eval("other", <<Arg(1)>>),
     Eval("ped", <<Scalar, Scalar>>), Eval("ped", <<Scalar, Arg(1)>>),
     Plan(<<Add(Lit("small"), Lit("fraction")), Powi(Ref(0), Lit("small"))>>),
     Plan(<<Add(Lit("small"), Ref(0))>>), Plan(<<Add(Lit("malformed"), Lit("small"))>>),
     Plan(<<Powi(Lit("small"), Lit("beyond"))>>), Plan([i \in 1 .. 8 |-> Add(Lit("long"), Lit("small"))])}
MCPolicies == {SurfaceAssets, SurfaceAssets \ {"xs-calc.gbnf"}}
=============================================================================
