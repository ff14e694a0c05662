------------------------------ MODULE ToolCalls ------------------------------
(***************************************************************************)
(* What the llama.cpp reference adapters accept from a model: one xs_eval  *)
(* call over a semantic-only capability, or one xs_calc plan over a        *)
(* calc-only one, and what the plan grammars in the bundle admit.          *)
(*                                                                         *)
(* An eval argument is [shape, n, exact]: its shape, the decimals in it,   *)
(* whether all are exact decimal strings.  A plan operand is [ref |-> k],  *)
(* a result reference, or [lit |-> l] with a literal class l.              *)
(***************************************************************************)
EXTENDS CapabilityCompiler, SequencesExt

MaxDecimals == 64
MaxRequestBytes == 512
MaxPlanSteps == 8
UnaryOps == {"sqrt"}
PlanOperations == UnaryOps \cup {"add", "sub", "mul", "div", "powi"}
Arity(o) == IF o \in UnaryOps THEN 1 ELSE 2

\* Literal classes: "small" and "beyond" are integers inside and outside -32..32.
Literals == {"small", "beyond", "fraction", "long", "malformed"}
LitChars(l) == [small |-> 1, beyond |-> 2, fraction |-> 3, long |-> 90, malformed |-> 2][l]

(***************************************************************************)
(* Surfaces                                                                *)
(***************************************************************************)
\* load_capability_surface
ServesEval(bundle, policy) ==
    /\ Verifies(bundle) /\ AcceptedBy(policy, bundle)
    /\ ~ProfileOf(bundle).calc /\ ProfileOf(bundle).ops # {}
    /\ bundle.manifest.measurements.tools = 1

\* load_calc_surface
ServesCalc(bundle, policy) ==
    /\ Verifies(bundle) /\ AcceptedBy(policy, bundle)
    /\ ProfileOf(bundle).calc /\ ProfileOf(bundle).ops = {} /\ CatalogOf(bundle) = <<>>
    /\ bundle.manifest.measurements.tools = 1
    /\ bundle.files["xs-calc.contract.json"] = [contract |-> "plan-v0.1"]

(***************************************************************************)
(* Replies                                                                 *)
(***************************************************************************)
Decimals(args) == FoldLeft(LAMBDA sum, a : sum + a.n, 0, args)

\* validate_tool_call of xs_eval
EvalCallOK(bundle, reply) ==
    /\ reply.tool = "xs_eval" /\ reply.calls = 1
    /\ reply.op \in DOMAIN CatalogOf(bundle)
    /\ LET shapes == ArgsOf[CatalogOf(bundle)[reply.op]] IN
       /\ Len(reply.args) = Len(shapes)
       /\ \A i \in DOMAIN shapes : reply.args[i].shape = shapes[i] /\ reply.args[i].exact
    /\ Decimals(reply.args) <= MaxDecimals

\* A slip: a step may name its own result.
OperandOrSelf(operand, step) ==
    \/ "ref" \in DOMAIN operand /\ operand.ref <= step
    \/ "lit" \in DOMAIN operand /\ operand.lit # "malformed"
\* validate_operand of a step, steps counted from zero
OperandOK(operand, step) ==
    \/ "ref" \in DOMAIN operand /\ operand.ref < step
    \/ "lit" \in DOMAIN operand /\ operand.lit # "malformed"

\* A literal exponent must be an integer in -32..32; a referenced one is the runtime's to refuse.
ExponentOK(step) ==
    step.o = "powi" /\ "lit" \in DOMAIN step.a[2] => step.a[2].lit = "small"

StepChars(step) ==
    13 + (IF step.o \in {"powi", "sqrt"} THEN 4 ELSE 3)
    + FoldLeft(LAMBDA sum, a : sum + 2 + (IF "ref" \in DOMAIN a THEN 2 ELSE LitChars(a.lit)), 0, step.a)
    + Len(step.a) - 1 + 2
RequestBytes(plan) == 8 + FoldLeft(LAMBDA sum, s : sum + StepChars(s), 0, plan) + Len(plan) - 1

\* validate_plan
PlanOK(plan) ==
    /\ Len(plan) \in 1 .. MaxPlanSteps
    /\ \A i \in DOMAIN plan :
           /\ plan[i].o \in PlanOperations /\ Len(plan[i].a) = Arity(plan[i].o)
           /\ \A j \in DOMAIN plan[i].a : OperandOK(plan[i].a[j], i - 1)
           /\ ExponentOK(plan[i])
    /\ RequestBytes(plan) <= MaxRequestBytes

CalcCallOK(reply) == reply.tool = "xs_calc" /\ reply.calls = 1 /\ PlanOK(reply.plan)

(***************************************************************************)
(* Grammars: rule s(i) takes operands of v(i), which are decimals and the  *)
(* references #0 to #(i-1); the base grammar takes any of #0 to #7.        *)
(***************************************************************************)
GrammarValues(grammar, step) ==
    [lit : Literals \ {"malformed"}] \cup [ref : IF grammar.plan = "base" THEN 0 .. 7 ELSE 0 .. step - 1]
GrammarAdmitsPlan(grammar, plan) ==
    /\ Len(plan) \in 1 .. MaxPlanSteps
    /\ \A i \in DOMAIN plan :
           /\ plan[i].o \in PlanOperations /\ Len(plan[i].a) = Arity(plan[i].o)
           /\ \A j \in DOMAIN plan[i].a : plan[i].a[j] \in GrammarValues(grammar, i - 1)
=============================================================================
