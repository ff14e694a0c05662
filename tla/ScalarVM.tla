------------------------------ MODULE ScalarVM ------------------------------
(* The instructions of the scalar formula VM of                             *)
(* crates/exactscope-kernel/src/vm.rs, as its validator and its executor    *)
(* treat them, one at a time.  The two passes are written separately there  *)
(* and here: that they agree is what FormulaPipeline checks.                *)
(*                                                                          *)
(* A number is abstracted to its grade: "exact", or "quantized" once a      *)
(* square root or a rounding has changed a value it was computed from.      *)
(* Whether an arithmetic operation overflows, and what a comparison says,   *)
(* is left open.                                                            *)
EXTENDS Integers, Sequences

CONSTANTS
  MaxInstructions,  \* MAX_VM_INSTRUCTIONS, 64 in the code
  MaxStack,         \* MAX_VM_STACK, 16 in the code
  MaxClasses,       \* MAX_CLASSIFICATIONS
  MaxGiven,         \* bound: arguments a caller may pass
  Operations        \* the operations packs may declare

-----------------------------------------------------------------------------
(* Instructions.                                                            *)

Loads       == {"argument", "constant", "result"}
Binary      == {"add", "sub", "mul", "div", "min", "max"}
Unary       == {"neg", "abs"}
Comparisons == {"lt", "le", "eq", "ge", "gt"}
Connectives == {"and", "or"}
Opcodes     == Loads \cup Binary \cup Unary \cup Comparisons \cup Connectives
                 \cup {"powi", "sqrt", "not", "select", "round", "end", "unknown"}

Instruction == [op : Opcodes, operand : Int]
Types       == {"Number", "Boolean"}
Grades      == {"exact", "quantized"}
Value       == [type : Types, grade : Grades]
ValueFlags  == {"ROUNDED", "INEXACT"}

Classification == [id : Nat, priority : Nat, program : Seq(Instruction)]

Operation == [program : Seq(Instruction), inputs : Nat, constants : Nat,
              maxStack : Nat, required : {"required", "optional"},
              classes : Seq(Classification)]

ASSUME BoundsAssumption ==
  /\ MaxInstructions \in Nat \ {0} /\ MaxStack \in Nat
  /\ MaxClasses \in Nat /\ MaxGiven \in Nat
ASSUME OperationsAssumption == Operations \subseteq Operation

(* The operands of round: scale and rounding mode, no other bit set.        *)
RoundOperands == {scale + 256 * mode : scale \in 0..18, mode \in 0..4}

(* What both passes find on top of a stack of types and leave below it.     *)
Holds(ts, pops) ==
  /\ Len(pops) <= Len(ts)
  /\ \A i \in 1..Len(pops) : ts[Len(ts) + 1 - i] = pops[i]
Push(s, n, e) == Append(SubSeq(s, 1, Len(s) - n), e)
TypesOf(s) == [i \in 1..Len(s) |-> s[i].type]

ResultType(kind) == IF kind = "Formula" THEN "Number" ELSE "Boolean"

-----------------------------------------------------------------------------
(* The validator: validate_program.                                         *)

ValidatorPops(op) ==
  CASE op \in Loads                          -> <<>>
    [] op \in Binary \cup Comparisons        -> <<"Number", "Number">>
    [] op \in Unary \cup {"powi", "sqrt", "round"} -> <<"Number">>
    [] op \in Connectives                    -> <<"Boolean", "Boolean">>
    [] op = "not"                            -> <<"Boolean">>
    [] op = "select"                         -> <<"Number", "Number", "Boolean">>
    [] OTHER                                 -> <<>>

ValidatorPushes(op) ==
  IF op \in Comparisons \cup Connectives \cup {"not"} THEN "Boolean" ELSE "Number"

(* An opcode of the program's kind with an operand it allows.               *)
Admits(kind, sizes, i) ==
  /\ i.op # "unknown"
  /\ i.op \in {"argument", "sqrt", "round"} => kind = "Formula"
  /\ i.op = "result" => kind = "Classification"
  /\ i.op \in Loads => i.operand \in 0 .. (sizes[i.op] - 1)
  /\ i.op = "powi" => i.operand \in -32 .. 32
  /\ i.op = "round" => i.operand \in RoundOperands
  /\ i.op \notin Loads \cup {"powi", "round"} => i.operand = 0

ValidatorStatus(kind, sizes, i, ts) ==
  IF ~(Admits(kind, sizes, i) /\ Holds(ts, ValidatorPops(i.op)))
  THEN "PACK_INVALID"
  ELSE IF Len(ts) - Len(ValidatorPops(i.op)) >= MaxStack
  THEN "RESOURCE_LIMIT" ELSE "OK"

TypesAfter(i, ts) == Push(ts, Len(ValidatorPops(i.op)), ValidatorPushes(i.op))

EntryStatus(program) ==
  IF Len(program) \notin 1..MaxInstructions THEN "RESOURCE_LIMIT"
  ELSE IF program[Len(program)].op # "end" THEN "PACK_INVALID" ELSE "OK"

EndStatus(kind, program, at, ts) ==
  IF at = Len(program) /\ program[at].operand = 0 /\ ts = <<ResultType(kind)>>
  THEN "OK" ELSE "PACK_INVALID"

(* The deepest stack seen, taken after the push.                            *)
Deeper(deep, after) == IF Len(after) > deep THEN Len(after) ELSE deep

-----------------------------------------------------------------------------
(* The executor: execute.                                                   *)

(* Mutant: select pops its condition first.                                 *)
PopsConditionFirst(op) ==
  IF op = "select" THEN <<"Boolean", "Number", "Number">> ELSE ValidatorPops(op)

ExecutorPops(op) ==
  CASE op \in Loads                          -> <<>>
    [] op \in Binary                         -> <<"Number", "Number">>
    [] op \in Unary                          -> <<"Number">>
    [] op = "powi"                           -> <<"Number">>
    [] op = "sqrt"                           -> <<"Number">>
    [] op \in Comparisons                    -> <<"Number", "Number">>
    [] op \in Connectives                    -> <<"Boolean", "Boolean">>
    [] op = "not"                            -> <<"Boolean">>
    [] op = "select"                         -> <<"Number", "Number", "Boolean">>
    [] op = "round"                          -> <<"Number">>
    [] OTHER                                 -> <<>>

ExecutorPushes(op) ==
  IF op \in Loads \cup Binary \cup Unary \cup {"powi", "sqrt", "select", "round"}
  THEN "Number" ELSE "Boolean"

(* The executor checks fewer operands than the validator.                   *)
Executable(kind, sizes, i) ==
  /\ i.op # "unknown"
  /\ i.op = "argument" => kind = "Formula"
  /\ i.op = "result" => kind = "Classification"
  /\ i.op \in Loads => i.operand \in 0 .. (sizes[i.op] - 1)
  /\ i.op = "round" => i.operand \in RoundOperands

ExecutorStatus(kind, sizes, i, s) ==
  IF ~(Executable(kind, sizes, i) /\ Holds(TypesOf(s), ExecutorPops(i.op)))
  THEN "PACK_INVALID"
  ELSE IF Len(s) - Len(ExecutorPops(i.op)) >= MaxStack
  THEN "RESOURCE_LIMIT" ELSE "OK"

(* The ways the numbers themselves may fail an operation.                   *)
Faults(op) ==
  CASE op \in (Binary \ {"div"}) \cup Unary \cup Comparisons \cup {"round"} -> {"OVERFLOW"}
    [] op \in {"div", "powi"} -> {"OVERFLOW", "DIVIDE_BY_ZERO"}
    [] op = "sqrt"            -> {"OVERFLOW", "DOMAIN_ERROR"}
    [] OTHER                  -> {}

(* The flags an operation may raise: an irrational root is always rounded.  *)
Marks(op) ==
  CASE op = "sqrt"  -> {{}, {"ROUNDED"}, {"ROUNDED", "INEXACT"}}
    [] op = "round" -> {{}, {"ROUNDED"}}
    [] OTHER        -> {{}}

(* Mutant: the flags of the last operation only.                            *)
LastMarks(old, marks) == marks

Accumulated(old, marks) == old \cup marks

(* The grade of a result: quantized if this operation rounded, or if any    *)
(* value it popped, a condition included, already was.                      *)
GradeOf(i, s, marks, loaded) ==
  IF \/ marks # {}
     \/ \E j \in (Len(s) + 1 - Len(ExecutorPops(i.op))) .. Len(s) : s[j].grade = "quantized"
     \/ i.op = "result" /\ loaded = "quantized"
  THEN "quantized" ELSE "exact"

=============================================================================
