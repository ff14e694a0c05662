--------------------------- MODULE FormulaPipeline ---------------------------
(* The life of one dynamic formula operation: its pack is parsed, which     *)
(* validates the formula and every classification predicate one instruction *)
(* at a time, and once mounted it is evaluated again and again, each call   *)
(* validating the programs anew and executing them.                         *)
(*                                                                          *)
(* Unit 0 is the formula, unit k > 0 the predicate of classification k.     *)
EXTENDS ScalarVM

VARIABLES
  operation,  \* what the pack declares; the bytes do not change
  phase,      \* where the parse or the call stands
  unit,       \* the program at hand
  pc,         \* the instruction at hand
  types,      \* validator: the stack of types
  deepest,    \* validator: maximum_depth
  typing,     \* history: the types the parse found before each instruction
  stack,      \* executor: the stack of values
  flags,      \* executor: the flags raised so far
  value,      \* the formula's value and its flags
  matched,    \* the classification that matched, 0 for none
  given,      \* the number of arguments the caller passes
  demand,     \* does the caller set REQUIRE_CLASSIFICATION?
  status      \* how the last parse or call ended

vars == <<operation, phase, unit, pc, types, deepest, typing, stack, flags,
          value, matched, given, demand, status>>

Phases    == {"bytes", "parse", "refused", "mounted", "check", "run", "answer", "done"}
Units     == 0..MaxClasses
Positions == 1..MaxInstructions
Untyped   == [k \in Units |-> [n \in Positions |-> <<>>]]
NoValue   == [grade |-> "exact", flags |-> {}]

(* What an argument may be refused for, before the program is touched: a    *)
(* comparison with its constraint may overflow too.                         *)
ArgumentFaults == {"INVALID_DECIMAL", "INVALID_REQUEST", "ARGUMENT_TYPE", "OVERFLOW",
                   "MISSING_INFORMATION", "CONSTRAINT_VIOLATION", "UNIT_MISMATCH"}
Statuses == {"OK", "PACK_INVALID", "RESOURCE_LIMIT", "INTERNAL_ERROR", "ARGUMENT_COUNT",
             "PRECISION_UNRESOLVED", "OVERFLOW", "DIVIDE_BY_ZERO", "DOMAIN_ERROR"}
              \cup ArgumentFaults

Classes    == operation.classes
ProgramOf(k) == IF k = 0 THEN operation.program ELSE Classes[k].program
KindOf(k)    == IF k = 0 THEN "Formula" ELSE "Classification"
SizesOf(k, arguments) ==
  [argument |-> IF k = 0 THEN arguments ELSE 0,
   constant |-> operation.constants,
   result   |-> IF k = 0 THEN 0 ELSE 1]

Arguments == IF phase = "parse" THEN operation.inputs ELSE given
Program   == ProgramOf(unit)
Kind      == KindOf(unit)
Sizes     == SizesOf(unit, Arguments)

Init ==
  /\ operation \in Operations
  /\ phase = "bytes" /\ unit = 0 /\ pc = 1
  /\ types = <<>> /\ deepest = 0 /\ typing = Untyped
  /\ stack = <<>> /\ flags = {}
  /\ value = NoValue /\ matched = 0
  /\ given = 0 /\ demand = "no" /\ status = "OK"

(* A parse ends refused, a call ends failed.                               *)
Refuse(s) ==
  /\ phase' = "refused" /\ status' = s
  /\ UNCHANGED <<operation, unit, pc, types, deepest, typing, stack, flags,
                 value, matched, given, demand>>

Fail(s) ==
  /\ phase' = "done" /\ status' = s
  /\ UNCHANGED <<operation, unit, pc, types, deepest, typing, stack, flags,
                 value, matched, given, demand>>

-----------------------------------------------------------------------------
(* The validator, called by the parse and again by every call.              *)

ValidationStatus ==
  IF EntryStatus(Program) # "OK" THEN EntryStatus(Program)
  ELSE IF Program[pc].op = "end" THEN EndStatus(Kind, Program, pc, types)
  ELSE ValidatorStatus(Kind, Sizes, Program[pc], types)

AtEnd == Program[pc].op = "end"

StartUnit(k) ==
  /\ unit' = k /\ pc' = 1
  /\ types' = <<>> /\ deepest' = 0
  /\ stack' = <<>> /\ flags' = {}

(* One turn of the validator's loop.                                        *)
ValidateInstruction ==
  /\ phase \in {"parse", "check"}
  /\ ValidationStatus = "OK" /\ ~AtEnd
  /\ LET after == TypesAfter(Program[pc], types) IN
     /\ types' = after
     /\ deepest' = Deeper(deepest, after)
     /\ typing' = IF phase = "parse"
                  THEN [typing EXCEPT ![unit][pc + 1] = after] ELSE typing
  /\ pc' = pc + 1
  /\ UNCHANGED <<operation, phase, unit, stack, flags, value, matched, given, demand, status>>

ValidationFails ==
  /\ ValidationStatus # "OK"
  /\ phase \in {"parse", "check"}
  /\ IF phase = "parse" THEN Refuse(ValidationStatus) ELSE Fail(ValidationStatus)

-----------------------------------------------------------------------------
(* Parsing: validate_operation for a formula, validate_classifications.     *)

(* A classification record: the priorities ascend and no two neighbours     *)
(* share an id.                                                             *)
HeaderOK(k) ==
  /\ Classes[k].id # 0
  /\ k > 1 => /\ Classes[k].priority >= Classes[k - 1].priority
              /\ Classes[k].id # Classes[k - 1].id

(* What the parse says once a unit is validated.                            *)
UnitStatus ==
  IF unit = 0 /\ deepest > operation.maxStack THEN "PACK_INVALID"
  ELSE IF Len(Classes) > MaxClasses THEN "RESOURCE_LIMIT"
  ELSE IF unit < Len(Classes)
  THEN IF HeaderOK(unit + 1) THEN "OK" ELSE "PACK_INVALID"
  ELSE IF operation.required = "required" /\ Len(Classes) = 0
  THEN "PACK_INVALID" ELSE "OK"

Parse ==
  /\ phase = "bytes"
  /\ \/ /\ operation.maxStack \in 1..MaxStack
        /\ phase' = "parse"
        /\ UNCHANGED <<operation, unit, pc, types, deepest, typing, stack, flags,
                       value, matched, given, demand, status>>
     \/ operation.maxStack \notin 1..MaxStack /\ Refuse("PACK_INVALID")

ParseUnit ==
  /\ phase = "parse" /\ ValidationStatus = "OK" /\ AtEnd
  /\ \/ UnitStatus # "OK" /\ Refuse(UnitStatus)
     \/ /\ UnitStatus = "OK"
        /\ IF unit < Len(Classes)
           THEN StartUnit(unit + 1) /\ phase' = "parse"
           ELSE StartUnit(0) /\ phase' = "mounted"
        /\ UNCHANGED <<operation, typing, value, matched, given, demand, status>>

-----------------------------------------------------------------------------
(* A call: eval_dynamic and evaluate_runtime_operation.                     *)

Countable(n) == n = operation.inputs

Call ==
  /\ phase \in {"mounted", "done"}
  /\ \E n \in 0..MaxGiven, d \in {"yes", "no"} :
       /\ given' = n /\ demand' = d
       /\ value' = NoValue /\ matched' = 0
       /\ StartUnit(0)
       /\ \/ ~Countable(n) /\ phase' = "done" /\ status' = "ARGUMENT_COUNT"
          \/ /\ Countable(n)
             /\ \/ phase' = "done" /\ n > 0 /\ status' \in ArgumentFaults
                \/ phase' = "check" /\ status' = "OK"
       /\ UNCHANGED <<operation, typing>>

Checked ==
  /\ phase = "check" /\ ValidationStatus = "OK" /\ AtEnd
  /\ phase' = "run" /\ pc' = 1
  /\ UNCHANGED <<operation, unit, types, deepest, typing, stack, flags,
                 value, matched, given, demand, status>>

-----------------------------------------------------------------------------
(* Execution.                                                               *)

Running == phase = "run" /\ pc <= Len(Program)
RunStatus == ExecutorStatus(Kind, Sizes, Program[pc], stack)

Execute ==
  /\ Running /\ ~AtEnd /\ RunStatus = "OK"
  /\ \E marks \in Marks(Program[pc].op) :
       /\ stack' = Push(stack, Len(ExecutorPops(Program[pc].op)),
                        [type  |-> ExecutorPushes(Program[pc].op),
                         grade |-> GradeOf(Program[pc], stack, marks, value.grade)])
       /\ flags' = Accumulated(flags, marks)
  /\ pc' = pc + 1
  /\ UNCHANGED <<operation, phase, unit, types, deepest, typing, value, matched,
                 given, demand, status>>

(* How execution may fail here: for the numbers (an overflow, a zero        *)
(* divisor, a negative radicand), or in the machine itself, which           *)
(* validation is there to exclude.                                          *)
ExecutionFailures ==
  IF pc > Len(Program) THEN {"PACK_INVALID"}
  ELSE IF ~AtEnd
  THEN IF RunStatus = "OK" THEN Faults(Program[pc].op) ELSE {RunStatus}
  ELSE IF stack = <<>> THEN {"PACK_INVALID"}
  ELSE IF stack[Len(stack)].type # ResultType(Kind) THEN {"INTERNAL_ERROR"} ELSE {}

ExecutionFails == phase = "run" /\ \E s \in ExecutionFailures : Fail(s)

Delivers == /\ Running /\ AtEnd /\ stack # <<>>
            /\ stack[Len(stack)].type = ResultType(Kind)

NextUnit ==
  IF unit < Len(Classes)
  THEN StartUnit(unit + 1) /\ phase' = "check"
  ELSE /\ phase' = "answer"
       /\ UNCHANGED <<unit, pc, types, deepest, stack, flags>>

(* Mutant: only an irrational root leaves the class unresolved.             *)
UnresolvedIfIrrational(fs) == operation.required = "required" /\ "INEXACT" \in fs

Unresolved(fs) == operation.required = "required" /\ fs # {}

(* The formula's value is classified, unless it is inexact and a class is   *)
(* required of it.                                                          *)
FormulaEnds ==
  /\ Delivers /\ unit = 0
  /\ \/ Unresolved(flags) /\ Fail("PRECISION_UNRESOLVED")
     \/ /\ ~Unresolved(flags)
        /\ value' = [grade |-> stack[Len(stack)].grade, flags |-> flags]
        /\ NextUnit
        /\ UNCHANGED <<operation, typing, matched, given, demand, status>>

(* A predicate holds or does not; a second one that holds is an error.      *)
PredicateEnds ==
  /\ Delivers /\ unit > 0
  /\ \/ matched # 0 /\ Fail("PACK_INVALID")
     \/ /\ matched' \in {matched} \cup (IF matched = 0 THEN {Classes[unit].id} ELSE {})
        /\ NextUnit
        /\ UNCHANGED <<operation, typing, value, given, demand, status>>

Unclassified == operation.required = "required" /\ matched = 0

(* The value is rounded to the output scale and answered with its flags.    *)
Answer ==
  /\ phase = "answer"
  /\ \/ Unclassified /\ Fail("PRECISION_UNRESOLVED")
     \/ ~Unclassified /\ Fail("OVERFLOW")
     \/ /\ ~Unclassified
        /\ \E marks \in Marks("round") : flags' = Accumulated(value.flags, marks)
        /\ phase' = "done" /\ status' = "OK"
        /\ UNCHANGED <<operation, unit, pc, types, deepest, typing, stack,
                       value, matched, given, demand>>

Next ==
  \/ Parse \/ ValidateInstruction \/ ValidationFails \/ ParseUnit
  \/ Call \/ Checked \/ Execute \/ ExecutionFails
  \/ FormulaEnds \/ PredicateEnds \/ Answer

Spec == Init /\ [][Next]_vars
-----------------------------------------------------------------------------
(* Properties.                                                              *)

TypeOK ==
  /\ operation \in Operation
  /\ phase \in Phases
  /\ unit \in Units /\ pc \in Nat \ {0}
  /\ types \in Seq(Types) /\ deepest \in Nat
  /\ typing \in [Units -> [Positions -> Seq(Types)]]
  /\ stack \in Seq(Value) /\ flags \subseteq ValueFlags
  /\ value \in [grade : Grades, flags : SUBSET ValueFlags]
  /\ matched \in Nat /\ given \in 0..MaxGiven
  /\ demand \in {"yes", "no"} /\ status \in Statuses

(* Once a pack is mounted, no call ends in a fault of the machine: the      *)
(* validation that every call repeats always succeeds and execution never   *)
(* runs into its own checks of stack, types, operands and length.  The one  *)
(* PACK_INVALID left is the answer to two predicates that both hold         *)
(* (dynamic.rs:931).                                                        *)
MountedNeverFaults ==
  phase = "done" /\ status \in {"PACK_INVALID", "RESOURCE_LIMIT", "INTERNAL_ERROR"} =>
    /\ status = "PACK_INVALID" /\ matched # 0
    /\ unit > 0 /\ pc = Len(Program) /\ TypesOf(stack) = <<"Boolean">>

(* The formula never needs a deeper stack than its pack declared, at any    *)
(* point of any call (SCOPEPACK_V0_1.md:286, dynamic.rs:611).               *)
DepthAsDeclared ==
  phase = "run" /\ unit = 0 => Len(stack) <= operation.maxStack

(* A value that a rounding or an irrational root went into, through however *)
(* many instructions and conditions, is never answered as exact             *)
(* (CORE_ABI_V0_1.md:186, evaluate.rs:354).                                 *)
QuantizedIsFlagged ==
  phase = "done" /\ status = "OK" /\ value.grade = "quantized" => flags # {}

(* An operation that requires a class answers one, and decides it on a      *)
(* value no rounding went into (evaluate.rs:309, NUMERIC_V0_1.md:202).      *)
RequiredClassIsExact ==
  phase = "done" /\ status = "OK" /\ operation.required = "required" =>
    matched # 0 /\ value.grade = "exact"

-----------------------------------------------------------------------------
(* The inductive invariant.                                                 *)

(* The parse typed the first n instructions of unit k.                      *)
TypedTo(k, n) ==
  \A j \in 1..(n - 1) :
    /\ ProgramOf(k)[j].op # "end"
    /\ ValidatorStatus(KindOf(k), SizesOf(k, operation.inputs),
                       ProgramOf(k)[j], typing[k][j]) = "OK"
    /\ typing[k][j + 1] = TypesAfter(ProgramOf(k)[j], typing[k][j])

WellFormed(k) ==
  /\ Len(ProgramOf(k)) \in Positions
  /\ ProgramOf(k)[Len(ProgramOf(k))].op = "end"

(* The parse accepted unit k.                                               *)
Complete(k) ==
  /\ WellFormed(k)
  /\ TypedTo(k, Len(ProgramOf(k)))
  /\ ProgramOf(k)[Len(ProgramOf(k))].operand = 0
  /\ typing[k][Len(ProgramOf(k))] = <<ResultType(KindOf(k))>>
  /\ k = 0 => \A j \in 1..Len(ProgramOf(k)) : Len(typing[k][j]) <= operation.maxStack

StartsUntyped == \A k \in Units : typing[k][1] = <<>>

(* The parse so far.                                                        *)
ParseSound ==
  phase \in {"bytes", "parse"} =>
    /\ unit <= Len(Classes)
    /\ unit > 0 => Len(Classes) <= MaxClasses
    /\ pc > 1 => WellFormed(unit) /\ pc <= Len(Program)
    /\ pc \in Positions /\ types = typing[unit][pc]
    /\ TypedTo(unit, pc)
    /\ \A j \in 1..pc : Len(typing[unit][j]) <= deepest
    /\ \A k \in 0..(unit - 1) : Complete(k)

Accepted == {"mounted", "check", "run", "answer", "done"}

(* Whatever was mounted is completely typed.                                *)
MountedSound ==
  phase \in Accepted =>
    /\ Len(Classes) <= MaxClasses /\ unit <= Len(Classes)
    /\ \A k \in 0..Len(Classes) : Complete(k)

(* A call's validator and its executor follow that typing.                  *)
CallFollows ==
  phase \in {"check", "run"} =>
    /\ given = operation.inputs
    /\ pc \in 1..Len(Program)
    /\ phase = "check" => types = typing[unit][pc] /\ stack = <<>> /\ flags = {}
    /\ phase = "run" => TypesOf(stack) = typing[unit][pc]

(* Rounded values travel with a flag.                                       *)
GradesAreFlagged ==
  /\ value.grade = "quantized" => value.flags # {}
  /\ phase \in {"check", "run"} /\ unit = 0 =>
       /\ value.grade = "exact"
       /\ \A j \in 1..Len(stack) : stack[j].grade = "quantized" => flags # {}
  /\ operation.required = "required" /\ phase \in {"check", "run", "answer"}
       /\ (unit > 0 \/ phase = "answer") => value.flags = {}

PipelineInv ==
  /\ TypeOK /\ StartsUntyped /\ ParseSound /\ MountedSound /\ CallFollows
  /\ GradesAreFlagged
  /\ MountedNeverFaults /\ QuantizedIsFlagged /\ RequiredClassIsExact

=============================================================================
