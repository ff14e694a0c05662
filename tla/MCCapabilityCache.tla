-------------------------- MODULE MCCapabilityCache --------------------------
(* Models that differ in the surfaces they support and the cases they solve. *)
EXTENDS CapabilityCache, TLC

CONSTANT output

Symmetry == Permutations(Procs)

Able(schema, grammar, v1, v3, v4) ==
    [surface |-> ("json-schema" :> schema) @@ ("compact-gbnf" :> grammar),
     solved |-> ("v1" :> v1) @@ ("v3" :> v3) @@ ("v4" :> v4)]
MCAbilities ==
    {Able("valid", "valid", Cases, Cases, {}), Able("unsupported", "valid", Cases, {"unit"}, {}),
     Able("invalid", "valid", {}, {"unit"}, {"code"}), Able("valid", "invalid", {}, {}, {}),
     Able("invalid", "unsupported", Cases, Cases, Cases)}

Text(text, n) == [type |-> "text", n |-> n, text |-> text]
Number(type, n) == [type |-> type, n |-> n, text |-> Blank]
MCValues == {Null, Text("x", 1), Text("xy", 2), Text("xyz", 3), Text(Blank, 1), Number("integer", 5),
             Number("number", 5), Number("huge", 9), Number("infinite", 9), Number("boolean", 1)}
Content(keys, repeated, value) == [keys |-> keys, repeated |-> repeated, value |-> value]
MCContents == {Content({"a"}, FALSE, v) : v \in MCValues}
              \cup {Content({"a", "b"}, FALSE, Null), Content({"a"}, TRUE, Text("x", 1)), Refused}

\* Arguments of every kind, well formed or not.
MCArguments == {[choices |-> {"x", "xy"}], [kind |-> "text", required |-> TRUE],
                [kind |-> "number", maximum |-> 5], [kind |-> "integer", minimum |-> 6], [required |-> TRUE]}

\* A caller names nothing, a contract, a contract and a surface with a record that does not count, or a record:
\* the output of a calibration, or a file of the cache, of this policy or the other.
Option(contract, surface, record) == [contract |-> contract, surface |-> surface, record |-> record]
MCOptions == {Option(Unset, Unset, Unset), Option("v4", Unset, Unset), Option("v1", "compact-gbnf", output),
              Option(Unset, Unset, output), Option(Unset, "compact-gbnf", <<"m", "policy">>)}
MCCalls == {[args |-> <<>>, options |-> options] : options \in MCOptions}
           \cup {[args |-> args, options |-> Nothing] : args \in MCArguments}

\* Commands meet in the files only: one with arguments of its own, or with a reply other than the plain one,
\* runs while the other process is idle.
PlainReply == [a |-> Text("x", 1), disposition |-> "answer"]
Plain(j) == j.pc # "idle" => j.args = <<>> /\ (j.pc = "done" /\ j.asked = 1 => j.reply = PlainReply)
Apart == \A p, q \in Procs : p # q => Plain(job[p]) \/ job[q].pc = "idle"

MCHostReply == [a |-> Text("host", 4), disposition |-> "answer"]
=============================================================================
