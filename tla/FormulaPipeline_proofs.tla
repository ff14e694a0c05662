------------------------ MODULE FormulaPipeline_proofs ------------------------
(* Validation is enough: proofs that a mounted operation never runs into    *)
(* the executor's own checks, whatever its programs, and that rounded       *)
(* values are never answered or classified as exact ones.                   *)
EXTENDS FormulaPipeline, TLAPS

-----------------------------------------------------------------------------
(* Stacks.                                                                  *)

(* What popping n entries and pushing one makes of a stack.                 *)
Pushed(S, s, n, e) ==
  /\ Push(s, n, e) \in Seq(S)
  /\ Len(Push(s, n, e)) = Len(s) - n + 1
  /\ \A j \in 1..(Len(s) - n) : Push(s, n, e)[j] = s[j]
  /\ Push(s, n, e)[Len(s) - n + 1] = e

(* The entries below the popped ones stay, the pushed one is on top.        *)
LEMMA PushShape ==
  ASSUME NEW S, NEW s \in Seq(S), NEW n \in 0..Len(s), NEW e \in S
  PROVE  Pushed(S, s, n, e)
<1> DEFINE base == SubSeq(s, 1, Len(s) - n)
<1>1. /\ base \in Seq(S) /\ Len(base) = Len(s) - n
      /\ \A j \in 1..(Len(s) - n) : base[j] = s[j]
  OBVIOUS
<1> HIDE DEF base
<1>2. /\ Append(base, e) \in Seq(S) /\ Len(Append(base, e)) = Len(base) + 1
      /\ \A j \in 1..Len(base) : Append(base, e)[j] = base[j]
      /\ Append(base, e)[Len(base) + 1] = e
  BY <1>1
<1>3. Push(s, n, e) = Append(base, e)
  BY DEF Push, base
<1> QED
  BY <1>1, <1>2, <1>3 DEF Pushed

(* The types of a stack of values are a sequence of the same length.        *)
LEMMA TypesOfShape ==
  ASSUME NEW s \in Seq(Value)
  PROVE  /\ TypesOf(s) \in Seq(Types) /\ Len(TypesOf(s)) = Len(s)
         /\ \A j \in 1..Len(s) : TypesOf(s)[j] = s[j].type
<1>1. /\ Len(s) \in Nat
      /\ \A j \in 1..Len(s) : s[j] \in Value
  OBVIOUS
<1>2. \A j \in 1..Len(s) : s[j].type \in Types
  BY <1>1 DEF Value
<1>3. TypesOf(s) \in [1..Len(s) -> Types]
  BY <1>2 DEF TypesOf
<1>4. TypesOf(s) \in Seq(Types) /\ Len(TypesOf(s)) = Len(s)
  BY <1>1, <1>3
<1>5. \A j \in 1..Len(s) : TypesOf(s)[j] = s[j].type
  BY DEF TypesOf
<1> QED
  BY <1>4, <1>5

(* Two sequences with the same entries are equal.                           *)
LEMMA SameEntries ==
  ASSUME NEW S, NEW s \in Seq(S), NEW t \in Seq(S), Len(s) = Len(t),
         \A j \in 1..Len(s) : s[j] = t[j]
  PROVE  s = t
OBVIOUS

(* The types of a stack after popping n values and pushing one.             *)
LEMMA TypesOfPush ==
  ASSUME NEW s \in Seq(Value), NEW n \in 0..Len(s), NEW v \in Value
  PROVE  TypesOf(Push(s, n, v)) = Push(TypesOf(s), n, v.type)
<1> DEFINE t == TypesOf(s)
<1>1. v.type \in Types
  BY DEF Value
<1>2. t \in Seq(Types) /\ Len(t) = Len(s) /\ \A j \in 1..Len(s) : t[j] = s[j].type
  BY TypesOfShape
<1> HIDE DEF t
<1>3. n \in 0..Len(t)
  BY <1>2
<1>4. Pushed(Value, s, n, v) /\ Pushed(Types, t, n, v.type)
  BY <1>1, <1>2, <1>3, PushShape
<1>5. PICK a, b : a = Push(s, n, v) /\ b = Push(t, n, v.type)
  OBVIOUS
<1>6. /\ a \in Seq(Value) /\ Len(a) = Len(s) - n + 1
      /\ \A j \in 1..(Len(s) - n) : a[j] = s[j]
      /\ a[Len(s) - n + 1] = v
  BY <1>4, <1>5 DEF Pushed
<1>7. /\ b \in Seq(Types) /\ Len(b) = Len(t) - n + 1
      /\ \A j \in 1..(Len(t) - n) : b[j] = t[j]
      /\ b[Len(t) - n + 1] = v.type
  BY <1>4, <1>5 DEF Pushed
<1>8. /\ TypesOf(a) \in Seq(Types) /\ Len(TypesOf(a)) = Len(a)
      /\ \A j \in 1..Len(a) : TypesOf(a)[j] = a[j].type
  BY <1>6, TypesOfShape
<1>9. \A j \in 1..Len(a) : TypesOf(a)[j] = b[j]
  <2> SUFFICES ASSUME NEW j \in 1..Len(a) PROVE TypesOf(a)[j] = b[j]
    OBVIOUS
  <2>1. CASE j \in 1..(Len(s) - n)
    BY <2>1, <1>2, <1>6, <1>7, <1>8
  <2>2. CASE j = Len(s) - n + 1
    BY <2>2, <1>2, <1>6, <1>7, <1>8
  <2> QED
    BY <2>1, <2>2, <1>6
<1>10. TypesOf(a) = b
  BY <1>2, <1>6, <1>7, <1>8, <1>9, SameEntries
<1> QED
  BY <1>5, <1>10 DEF t

-----------------------------------------------------------------------------
(* The two passes agree on every instruction.                               *)

(* Validator and executor pop and push the same types.                      *)
LEMMA TablesAgree ==
  ASSUME NEW op \in Opcodes, op \notin {"end", "unknown"}
  PROVE  /\ ExecutorPops(op) = ValidatorPops(op)
         /\ ExecutorPushes(op) = ValidatorPushes(op)
         /\ ValidatorPushes(op) \in Types
         /\ ValidatorPops(op) \in Seq(Types)
<1> USE DEF Loads, Binary, Unary, Comparisons, Connectives, Types,
       ExecutorPops, ValidatorPops, ExecutorPushes, ValidatorPushes
<1>0. /\ <<>> \in Seq(Types)
      /\ <<"Number">> \in Seq(Types) /\ <<"Boolean">> \in Seq(Types)
      /\ <<"Number", "Number">> \in Seq(Types) /\ <<"Boolean", "Boolean">> \in Seq(Types)
      /\ <<"Number", "Number", "Boolean">> \in Seq(Types)
  OBVIOUS
<1>1. CASE op \in Loads
  BY <1>1
<1>2. CASE op \in Binary
  BY <1>0, <1>2
<1>3. CASE op \in Unary
  BY <1>3
<1>4. CASE op \in Comparisons
  <2>1. ExecutorPops(op) = <<"Number", "Number">> /\ ValidatorPops(op) = <<"Number", "Number">>
    BY <1>4
  <2>2. ExecutorPushes(op) = "Boolean" /\ ValidatorPushes(op) = "Boolean"
    BY <1>4
  <2> QED
    BY <1>0, <2>1, <2>2
<1>5. CASE op \in Connectives
  <2>1. ExecutorPops(op) = <<"Boolean", "Boolean">> /\ ValidatorPops(op) = <<"Boolean", "Boolean">>
    BY <1>5
  <2>2. ExecutorPushes(op) = "Boolean" /\ ValidatorPushes(op) = "Boolean"
    BY <1>5
  <2> QED
    BY <1>0, <2>1, <2>2
<1>6. CASE op \in {"powi", "sqrt", "round"}
  BY <1>6
<1>7. CASE op = "not"
  BY <1>7
<1>8. CASE op = "select"
  <2>1. /\ ExecutorPops(op) = <<"Number", "Number", "Boolean">>
        /\ ValidatorPops(op) = <<"Number", "Number", "Boolean">>
    BY <1>8
  <2>2. ExecutorPushes(op) = "Number" /\ ValidatorPushes(op) = "Number"
    BY <1>8
  <2> QED
    BY <1>0, <2>1, <2>2
<1> QED
  BY <1>1, <1>2, <1>3, <1>4, <1>5, <1>6, <1>7, <1>8 DEF Opcodes

(* An instruction the validator passes, the executor performs, and both     *)
(* leave the same types.                                                    *)
LEMMA ValidatedRuns ==
  ASSUME NEW kind, NEW sizes, NEW i \in Instruction, i.op # "end",
         NEW s \in Seq(Value),
         ValidatorStatus(kind, sizes, i, TypesOf(s)) = "OK"
  PROVE  /\ ExecutorStatus(kind, sizes, i, s) = "OK"
         /\ Len(ExecutorPops(i.op)) \in 0..Len(s)
         /\ ExecutorPushes(i.op) \in Types
         /\ \A g \in Grades :
              LET v == [type |-> ExecutorPushes(i.op), grade |-> g] IN
              TypesOf(Push(s, Len(ExecutorPops(i.op)), v)) = TypesAfter(i, TypesOf(s))
<1> DEFINE pops == ValidatorPops(i.op)
           ts == TypesOf(s)
<1>1. i.op \in Opcodes
  BY DEF Instruction
<1>2. Admits(kind, sizes, i) /\ Holds(ts, pops) /\ ~(Len(ts) - Len(pops) >= MaxStack)
  BY DEF ValidatorStatus
<1>3. i.op # "unknown"
  BY <1>2 DEF Admits
<1>4. /\ ExecutorPops(i.op) = pops /\ pops \in Seq(Types)
      /\ ExecutorPushes(i.op) = ValidatorPushes(i.op)
      /\ ValidatorPushes(i.op) \in Types
  BY <1>1, <1>3, TablesAgree
<1>5. ts \in Seq(Types) /\ Len(ts) = Len(s)
  BY TypesOfShape
<1>6. Executable(kind, sizes, i)
  BY <1>2 DEF Admits, Executable
<1>7. ExecutorStatus(kind, sizes, i, s) = "OK"
  BY <1>2, <1>4, <1>5, <1>6 DEF ExecutorStatus
<1>8. Len(pops) \in 0..Len(s)
  BY <1>2, <1>4, <1>5 DEF Holds
<1>9. ASSUME NEW g \in Grades
      PROVE  TypesOf(Push(s, Len(pops), [type |-> ValidatorPushes(i.op), grade |-> g]))
               = Push(ts, Len(pops), ValidatorPushes(i.op))
  <2> DEFINE v == [type |-> ValidatorPushes(i.op), grade |-> g]
  <2>1. v \in Value /\ v.type = ValidatorPushes(i.op)
    BY <1>4 DEF Value
  <2> HIDE DEF v
  <2>2. TypesOf(Push(s, Len(pops), v)) = Push(TypesOf(s), Len(pops), v.type)
    BY <1>8, <2>1, TypesOfPush, Zenon
  <2> QED
    BY <2>1, <2>2 DEF v
<1> QED
  BY <1>4, <1>7, <1>8, <1>9 DEF TypesAfter

(* What the validator leaves is a stack of types.                           *)
LEMMA TypesAfterShape ==
  ASSUME NEW kind, NEW sizes, NEW i \in Instruction, i.op # "end", NEW ts \in Seq(Types),
         ValidatorStatus(kind, sizes, i, ts) = "OK"
  PROVE  TypesAfter(i, ts) \in Seq(Types)
<1>1. i.op \in Opcodes /\ i.op # "unknown" /\ Holds(ts, ValidatorPops(i.op))
  BY DEF Instruction, ValidatorStatus, Admits
<1>2. ValidatorPops(i.op) \in Seq(Types) /\ ValidatorPushes(i.op) \in Types
  BY <1>1, TablesAgree
<1>3. Len(ValidatorPops(i.op)) \in 0..Len(ts)
  BY <1>1, <1>2 DEF Holds
<1> QED
  BY <1>2, <1>3, PushShape DEF TypesAfter, Pushed

-----------------------------------------------------------------------------
(* What the invariant says of the program at hand.                          *)

(* The operation and its programs.                                          *)
LEMMA OperationShape ==
  ASSUME TypeOK
  PROVE  /\ operation.inputs \in Nat /\ operation.maxStack \in Nat
         /\ Classes \in Seq(Classification) /\ Len(Classes) \in Nat
         /\ \A k \in 1..Len(Classes) : Classes[k].id \in Nat
         /\ \A k \in 0..Len(Classes) : ProgramOf(k) \in Seq(Instruction)
<1>1. operation \in Operation
  BY DEF TypeOK
<1>2. /\ operation.inputs \in Nat /\ operation.maxStack \in Nat
      /\ operation.program \in Seq(Instruction) /\ Classes \in Seq(Classification)
  BY <1>1 DEF Operation, Classes
<1>3. Len(Classes) \in Nat /\ \A k \in 1..Len(Classes) : Classes[k] \in Classification
  BY <1>2
<1>4. \A k \in 1..Len(Classes) :
        Classes[k].id \in Nat /\ Classes[k].program \in Seq(Instruction)
  BY <1>3 DEF Classification
<1> QED
  BY <1>2, <1>3, <1>4 DEF ProgramOf

(* An entry of a program is an instruction.                                 *)
LEMMA EntryShape ==
  ASSUME NEW p \in Seq(Instruction), NEW n \in 1..Len(p)
  PROVE  p[n] \in Instruction
OBVIOUS

(* A program the validator enters is well formed, and it has not reached    *)
(* the last instruction while it reads another one than the end.            *)
LEMMA ValidatorReads ==
  ASSUME PipelineInv, phase \in {"bytes", "parse", "check"}, ValidationStatus = "OK"
  PROVE  /\ WellFormed(unit) /\ pc \in 1..Len(Program)
         /\ Program \in Seq(Instruction) /\ Len(Program) \in Nat
         /\ ~AtEnd => /\ pc < Len(Program)
                      /\ ValidatorStatus(Kind, Sizes, Program[pc], types) = "OK"
         /\ AtEnd => EndStatus(Kind, Program, pc, types) = "OK"
<1>1. EntryStatus(Program) = "OK"
  BY DEF ValidationStatus
<1>2. unit \in Nat /\ unit <= Len(Classes) /\ Len(Classes) \in Nat
  BY OperationShape DEF PipelineInv, TypeOK, Units, ParseSound, MountedSound, Accepted
<1>3. Program \in Seq(Instruction)
  BY <1>2, OperationShape DEF PipelineInv, Program
<1>4. Len(Program) \in Positions /\ Program[Len(Program)].op = "end"
  BY <1>1 DEF EntryStatus, Positions
<1>5. WellFormed(unit)
  BY <1>4 DEF WellFormed, Program
<1>6. pc \in Nat /\ pc >= 1 /\ Len(Program) \in Nat /\ Len(Program) >= 1
  BY <1>4, BoundsAssumption DEF PipelineInv, TypeOK, Positions
<1>7. pc <= Len(Program)
  BY <1>6 DEF PipelineInv, ParseSound, CallFollows
<1>8. ~AtEnd => pc < Len(Program)
  BY <1>4, <1>6, <1>7 DEF AtEnd
<1>9. ~AtEnd => ValidatorStatus(Kind, Sizes, Program[pc], types) = "OK"
  BY <1>1 DEF ValidationStatus, AtEnd
<1>10. AtEnd => EndStatus(Kind, Program, pc, types) = "OK"
  BY <1>1 DEF ValidationStatus, AtEnd
<1> QED
  BY <1>3, <1>5, <1>6, <1>7, <1>8, <1>9, <1>10

(* The validation a call repeats never fails.                               *)
LEMMA CheckSucceeds ==
  ASSUME PipelineInv, phase = "check"
  PROVE  ValidationStatus = "OK"
<1>1. unit \in 0..Len(Classes) /\ Complete(unit)
  BY OperationShape DEF PipelineInv, MountedSound, Accepted, TypeOK, Units
<1>2. given = operation.inputs /\ pc \in 1..Len(Program) /\ types = typing[unit][pc]
  BY DEF PipelineInv, CallFollows
<1>3. Len(Program) \in Positions /\ Program[Len(Program)].op = "end"
  BY <1>1 DEF Complete, WellFormed, Program
<1>4. EntryStatus(Program) = "OK"
  BY <1>3 DEF EntryStatus, Positions
<1>5. Sizes = SizesOf(unit, operation.inputs)
  BY <1>2 DEF Sizes, Arguments
<1>6. CASE pc = Len(Program)
  <2>1. Program[pc].operand = 0 /\ types = <<ResultType(Kind)>>
    BY <1>1, <1>2, <1>6 DEF Complete, Program, Kind
  <2> QED
    BY <1>3, <1>4, <1>6, <2>1 DEF ValidationStatus, EndStatus
<1>7. CASE pc # Len(Program)
  <2>1. pc \in 1..(Len(Program) - 1)
    BY <1>2, <1>3, <1>7, BoundsAssumption DEF Positions
  <2>2. /\ Program[pc].op # "end"
        /\ ValidatorStatus(Kind, SizesOf(unit, operation.inputs), Program[pc],
                           typing[unit][pc]) = "OK"
    BY <1>1, <2>1 DEF Complete, TypedTo, Program, Kind
  <2> QED
    BY <1>2, <1>4, <1>5, <2>2 DEF ValidationStatus
<1> QED
  BY <1>6, <1>7

(* The executor's own checks never fire.                                    *)
LEMMA RunSucceeds ==
  ASSUME PipelineInv, phase = "run"
  PROVE  /\ unit \in 0..Len(Classes) /\ pc \in 1..Len(Program) /\ Len(Program) \in Nat
         /\ Program[pc] \in Instruction
         /\ pc < Len(Program) <=> ~AtEnd
         /\ ~AtEnd => /\ RunStatus = "OK"
                      /\ Len(ExecutorPops(Program[pc].op)) \in 0..Len(stack)
                      /\ ExecutorPushes(Program[pc].op) \in Types
                      /\ \A g \in Grades :
                           LET v == [type |-> ExecutorPushes(Program[pc].op), grade |-> g] IN
                           TypesOf(Push(stack, Len(ExecutorPops(Program[pc].op)), v))
                             = typing[unit][pc + 1]
         /\ AtEnd => /\ pc = Len(Program) /\ TypesOf(stack) = <<ResultType(Kind)>>
                     /\ stack # <<>> /\ stack[Len(stack)].type = ResultType(Kind)
                     /\ stack[Len(stack)] \in Value
<1>1. unit \in 0..Len(Classes) /\ Complete(unit)
  BY OperationShape DEF PipelineInv, MountedSound, Accepted, TypeOK, Units
<1>2. given = operation.inputs /\ pc \in 1..Len(Program) /\ TypesOf(stack) = typing[unit][pc]
  BY DEF PipelineInv, CallFollows
<1>3. Len(Program) \in Positions /\ Program[Len(Program)].op = "end"
  BY <1>1 DEF Complete, WellFormed, Program
<1>4. Sizes = SizesOf(unit, operation.inputs)
  BY <1>2 DEF Sizes, Arguments
<1>5. Program \in Seq(Instruction) /\ Len(Program) \in Nat
  BY <1>1, OperationShape DEF PipelineInv, Program
<1>6. Program[pc] \in Instruction
  BY <1>2, <1>5, EntryShape
<1>7. stack \in Seq(Value)
  BY DEF PipelineInv, TypeOK
<1>8. ASSUME pc < Len(Program)
      PROVE  /\ Program[pc].op # "end"
             /\ ValidatorStatus(Kind, Sizes, Program[pc], TypesOf(stack)) = "OK"
             /\ typing[unit][pc + 1] = TypesAfter(Program[pc], TypesOf(stack))
  <2>1. pc \in 1..(Len(Program) - 1)
    BY <1>2, <1>5, <1>8
  <2> QED
    BY <1>1, <1>2, <1>4, <2>1 DEF Complete, TypedTo, Program, Kind
<1>9. pc < Len(Program) <=> ~AtEnd
  BY <1>2, <1>3, <1>5, <1>8 DEF AtEnd
<1>10. ASSUME ~AtEnd
       PROVE  /\ RunStatus = "OK"
              /\ Len(ExecutorPops(Program[pc].op)) \in 0..Len(stack)
              /\ ExecutorPushes(Program[pc].op) \in Types
              /\ \A g \in Grades :
                   LET v == [type |-> ExecutorPushes(Program[pc].op), grade |-> g] IN
                   TypesOf(Push(stack, Len(ExecutorPops(Program[pc].op)), v))
                     = typing[unit][pc + 1]
  BY <1>6, <1>7, <1>8, <1>9, <1>10, ValidatedRuns DEF RunStatus
<1>11. ASSUME AtEnd
       PROVE  /\ pc = Len(Program) /\ TypesOf(stack) = <<ResultType(Kind)>>
              /\ stack # <<>> /\ stack[Len(stack)].type = ResultType(Kind)
              /\ stack[Len(stack)] \in Value
  <2>1. pc = Len(Program)
    BY <1>2, <1>5, <1>9, <1>11
  <2>2. TypesOf(stack) = <<ResultType(Kind)>>
    BY <1>1, <1>2, <2>1 DEF Complete, Program, Kind
  <2>3. Len(stack) = 1 /\ TypesOf(stack)[1] = stack[1].type
    BY <1>7, <2>2, TypesOfShape
  <2>4. TypesOf(stack)[1] = ResultType(Kind)
    BY <2>2
  <2>5. stack # <<>> /\ stack[1] \in Value
    BY <1>7, <2>3
  <2> QED
    BY <2>1, <2>2, <2>3, <2>4, <2>5
<1> QED
  BY <1>1, <1>2, <1>5, <1>6, <1>9, <1>10, <1>11

-----------------------------------------------------------------------------
(* Every action keeps the invariant.                                        *)

(* What was typed stays typed while the history stands.                     *)
LEMMA TypingStands ==
  ASSUME UNCHANGED <<operation, typing>>
  PROVE  /\ \A k : Complete(k)' <=> Complete(k)
         /\ \A k : WellFormed(k)' <=> WellFormed(k)
         /\ \A k, n : TypedTo(k, n)' <=> TypedTo(k, n)
         /\ \A k : ProgramOf(k)' = ProgramOf(k)
         /\ Classes' = Classes /\ (StartsUntyped' <=> StartsUntyped)
BY DEF Complete, WellFormed, TypedTo, ProgramOf, Classes, SizesOf, KindOf, StartsUntyped

(* A freshly created parse.                                                 *)
LEMMA InitKeeps == Init => PipelineInv
<1> SUFFICES ASSUME Init PROVE PipelineInv
  OBVIOUS
<1> USE DEF Init
<1>1. operation \in Operation
  BY OperationsAssumption
<1>2. <<>> \in Seq(Types) /\ <<>> \in Seq(Value)
  OBVIOUS
<1>3. typing \in [Units -> [Positions -> Seq(Types)]]
  BY <1>2 DEF Untyped
<1>4. 0 \in Units /\ 1 \in Positions /\ 0 \in 0..MaxGiven
  BY BoundsAssumption DEF Units, Positions
<1>5. TypeOK
  BY <1>1, <1>2, <1>3, <1>4 DEF TypeOK, Phases, NoValue, Grades, ValueFlags, Statuses
<1>6. StartsUntyped
  BY <1>4 DEF StartsUntyped, Untyped
<1>7. ParseSound
  <2>1. Len(Classes) >= 0
    BY <1>5, OperationShape
  <2>2. types = typing[unit][pc] /\ TypedTo(unit, pc)
    BY <1>4 DEF Untyped, TypedTo
  <2>3. \A j \in 1..pc : Len(typing[unit][j]) <= deepest
    BY <1>4 DEF Untyped
  <2> QED
    BY <1>4, <2>1, <2>2, <2>3 DEF ParseSound
<1>8. MountedSound /\ CallFollows /\ GradesAreFlagged
  BY DEF MountedSound, Accepted, CallFollows, GradesAreFlagged, NoValue
<1> QED
  BY <1>5, <1>6, <1>7, <1>8
     DEF PipelineInv, MountedNeverFaults, QuantizedIsFlagged, RequiredClassIsExact

(* The parse opens.                                                         *)
LEMMA ParseKeeps == PipelineInv /\ Parse => PipelineInv'
<1> SUFFICES ASSUME PipelineInv, Parse PROVE PipelineInv'
  OBVIOUS
<1>1. /\ UNCHANGED <<operation, unit, pc, types, deepest, typing, stack, flags, value,
                     matched, given, demand>>
      /\ phase = "bytes" /\ phase' \in {"parse", "refused"} /\ status' \in Statuses
  BY DEF Parse, Refuse, PipelineInv, TypeOK, Statuses
<1>2. TypeOK'
  BY <1>1 DEF PipelineInv, TypeOK, Phases
<1>3. ParseSound' /\ StartsUntyped'
  BY <1>1, TypingStands DEF PipelineInv, ParseSound, Program
<1>4. MountedSound' /\ CallFollows' /\ GradesAreFlagged'
  BY <1>1 DEF PipelineInv, MountedSound, Accepted, CallFollows, GradesAreFlagged
<1> QED
  BY <1>1, <1>2, <1>3, <1>4
     DEF PipelineInv, MountedNeverFaults, QuantizedIsFlagged, RequiredClassIsExact

(* One more instruction validated.                                          *)
LEMMA ValidateKeeps == PipelineInv /\ ValidateInstruction => PipelineInv'
<1> SUFFICES ASSUME PipelineInv, ValidateInstruction PROVE PipelineInv'
  OBVIOUS
<1> DEFINE after == TypesAfter(Program[pc], types)
<1>1. /\ phase \in {"parse", "check"} /\ ValidationStatus = "OK" /\ ~AtEnd
      /\ types' = after /\ deepest' = Deeper(deepest, after)
      /\ typing' = IF phase = "parse"
                   THEN [typing EXCEPT ![unit][pc + 1] = after] ELSE typing
      /\ pc' = pc + 1
      /\ UNCHANGED <<operation, phase, unit, stack, flags, value, matched, given, demand, status>>
  BY DEF ValidateInstruction
<1>2. /\ WellFormed(unit) /\ pc \in 1..Len(Program) /\ pc < Len(Program)
      /\ Program \in Seq(Instruction) /\ Len(Program) \in Nat
      /\ ValidatorStatus(Kind, Sizes, Program[pc], types) = "OK"
  BY <1>1, ValidatorReads
<1>3. Program[pc] \in Instruction /\ Program[pc].op # "end"
  BY <1>1, <1>2, EntryShape DEF AtEnd
<1>4. after \in Seq(Types)
  BY <1>2, <1>3, TypesAfterShape DEF PipelineInv, TypeOK
<1>5. unit \in Units /\ pc \in Nat /\ pc + 1 \in Positions /\ pc \in Positions
  BY <1>2, BoundsAssumption DEF PipelineInv, TypeOK, WellFormed, Positions, Program
<1>6. deepest' \in Nat /\ deepest <= deepest' /\ Len(after) <= deepest'
  BY <1>1, <1>4 DEF Deeper, PipelineInv, TypeOK
<1> HIDE DEF after
<1>7. /\ typing' \in [Units -> [Positions -> Seq(Types)]]
      /\ phase = "parse" => typing'[unit][pc + 1] = after
      /\ \A k \in Units, n \in Positions : k # unit \/ n # pc + 1 => typing'[k][n] = typing[k][n]
  BY <1>1, <1>4, <1>5 DEF PipelineInv, TypeOK
<1>8. TypeOK'
  BY <1>1, <1>4, <1>5, <1>6, <1>7 DEF PipelineInv, TypeOK
<1>9. StartsUntyped'
  <2>1. 1 \in Positions /\ 1 # pc + 1
    BY <1>5, BoundsAssumption DEF Positions
  <2>2. \A k \in Units : typing'[k][1] = typing[k][1]
    BY <1>7, <2>1
  <2> QED
    BY <2>2 DEF PipelineInv, StartsUntyped
<1>10. ProgramOf(unit)' = Program /\ Program' = Program /\ Classes' = Classes /\ Kind' = Kind
  BY <1>1 DEF ProgramOf, Program, Classes, Kind, KindOf
<1>11. CASE phase = "parse"
  <2>1. /\ unit <= Len(Classes) /\ (unit > 0 => Len(Classes) <= MaxClasses)
        /\ types = typing[unit][pc] /\ TypedTo(unit, pc)
        /\ \A j \in 1..pc : Len(typing[unit][j]) <= deepest
        /\ \A k \in 0..(unit - 1) : Complete(k)
    BY <1>11 DEF PipelineInv, ParseSound
  <2>2. \A k \in 0..(unit - 1) : Complete(k)'
    <3> SUFFICES ASSUME NEW k \in 0..(unit - 1) PROVE Complete(k)'
      OBVIOUS
    <3>1. k \in Units /\ k # unit
      BY <1>5, BoundsAssumption DEF Units
    <3>2. Complete(k)
      BY <2>1
    <3>3. Len(ProgramOf(k)) \in Positions
      BY <3>2 DEF Complete, WellFormed
    <3>4. \A n \in 1..Len(ProgramOf(k)) : typing'[k][n] = typing[k][n]
      BY <1>7, <3>1, <3>3, BoundsAssumption DEF Positions
    <3>5. ProgramOf(k)' = ProgramOf(k) /\ UNCHANGED operation
      BY <1>1 DEF ProgramOf, Classes
    <3>6. Len(ProgramOf(k)) \in 1..Len(ProgramOf(k))
      BY <3>3, BoundsAssumption DEF Positions
    <3>7. WellFormed(k)'
      BY <3>2, <3>5 DEF Complete, WellFormed
    <3>8. TypedTo(k, Len(ProgramOf(k)))'
      BY <3>2, <3>3, <3>4, <3>5, BoundsAssumption DEF Complete, TypedTo, SizesOf, KindOf, Positions
    <3> QED
      BY <3>2, <3>4, <3>5, <3>6, <3>7, <3>8 DEF Complete, KindOf
  <2>3. TypedTo(unit, pc)'
    <3> SUFFICES ASSUME NEW j \in 1..pc
                 PROVE  /\ Program[j].op # "end"
                        /\ ValidatorStatus(Kind, SizesOf(unit, operation.inputs),
                                           Program[j], typing'[unit][j]) = "OK"
                        /\ typing'[unit][j + 1] = TypesAfter(Program[j], typing'[unit][j])
      <4>1. (pc + 1) - 1 = pc
        BY <1>5
      <4>2. /\ KindOf(unit)' = Kind /\ operation' = operation /\ unit' = unit /\ pc' = pc + 1
            /\ SizesOf(unit, operation.inputs)' = SizesOf(unit, operation.inputs)
        BY <1>1 DEF KindOf, Kind, SizesOf
      <4> QED
        BY <1>10, <4>1, <4>2 DEF TypedTo
    <3>1. typing'[unit][j] = typing[unit][j]
      <4>1. j \in Positions /\ j # pc + 1
        BY <1>5, BoundsAssumption DEF Positions
      <4> QED
        BY <1>5, <1>7, <4>1
    <3>2. CASE j = pc
      <4>1. Sizes = SizesOf(unit, operation.inputs)
        BY <1>11 DEF Sizes, Arguments
      <4> QED
        BY <1>2, <1>3, <1>7, <1>11, <2>1, <3>1, <3>2, <4>1 DEF after
    <3>3. CASE j # pc
      <4>1. j \in 1..(pc - 1) /\ j + 1 \in Positions /\ j + 1 # pc + 1
        BY <1>5, <3>3, BoundsAssumption DEF Positions
      <4>2. typing'[unit][j + 1] = typing[unit][j + 1]
        BY <1>5, <1>7, <4>1
      <4> QED
        BY <2>1, <3>1, <4>1, <4>2 DEF TypedTo, Program, Kind
    <3> QED
      BY <3>2, <3>3
  <2>4. \A j \in 1..(pc + 1) : Len(typing'[unit][j]) <= deepest'
    <3> SUFFICES ASSUME NEW j \in 1..(pc + 1) PROVE Len(typing'[unit][j]) <= deepest'
      OBVIOUS
    <3>1. CASE j = pc + 1
      BY <1>6, <1>7, <1>11, <3>1
    <3>2. CASE j # pc + 1
      <4>1. j \in 1..pc /\ j \in Positions
        BY <1>5, <3>2, BoundsAssumption DEF Positions
      <4>2. typing'[unit][j] = typing[unit][j] /\ Len(typing[unit][j]) <= deepest
        BY <1>5, <1>7, <2>1, <3>2, <4>1
      <4>3. Len(typing[unit][j]) \in Nat /\ deepest \in Nat
        BY <1>5, <4>1 DEF PipelineInv, TypeOK
      <4> QED
        BY <1>6, <4>2, <4>3
    <3> QED
      BY <3>1, <3>2
  <2>5. WellFormed(unit)'
    BY <1>2, <1>10 DEF WellFormed, Program
  <2>6. types' = typing'[unit][pc + 1]
    BY <1>1, <1>7, <1>11 DEF after
  <2>7. ParseSound'
    <3>1. pc' \in Positions /\ pc' <= Len(Program) /\ unit' = unit /\ pc' = pc + 1
      BY <1>1, <1>2, <1>5
    <3> QED
      BY <1>10, <2>1, <2>2, <2>3, <2>4, <2>5, <2>6, <3>1 DEF ParseSound
  <2> QED
    BY <1>1, <1>8, <1>9, <1>11, <2>7
       DEF PipelineInv, MountedSound, Accepted, CallFollows, GradesAreFlagged,
           MountedNeverFaults, QuantizedIsFlagged, RequiredClassIsExact
<1>12. CASE phase = "check"
  <2>1. UNCHANGED <<operation, typing>>
    BY <1>1, <1>12
  <2>2. given = operation.inputs /\ types = typing[unit][pc] /\ stack = <<>> /\ flags = {}
    BY <1>12 DEF PipelineInv, CallFollows
  <2>3. Complete(unit)
    BY <1>12, OperationShape DEF PipelineInv, MountedSound, Accepted, TypeOK, Units
  <2>4. pc \in 1..(Len(Program) - 1)
    BY <1>2
  <2>5. typing[unit][pc + 1] = after
    BY <2>2, <2>3, <2>4 DEF Complete, TypedTo, Program, after
  <2>6. CallFollows'
    BY <1>1, <1>2, <1>10, <1>12, <2>1, <2>2, <2>5 DEF CallFollows, after
  <2>7. MountedSound'
    BY <1>1, <1>12, <2>1, TypingStands DEF PipelineInv, MountedSound, Accepted
  <2>8. GradesAreFlagged'
    BY <1>1 DEF PipelineInv, GradesAreFlagged
  <2> QED
    BY <1>1, <1>8, <1>9, <1>12, <2>6, <2>7, <2>8
       DEF PipelineInv, ParseSound, MountedNeverFaults, QuantizedIsFlagged, RequiredClassIsExact
<1> QED
  BY <1>1, <1>11, <1>12

(* A refusal ends the parse; a call's validation does not fail.             *)
LEMMA ValidationFailsKeeps == PipelineInv /\ ValidationFails => PipelineInv'
<1> SUFFICES ASSUME PipelineInv, ValidationFails PROVE PipelineInv'
  OBVIOUS
<1>1. phase = "parse" /\ Refuse(ValidationStatus)
  BY CheckSucceeds DEF ValidationFails
<1>2. ValidationStatus \in {"OK", "PACK_INVALID", "RESOURCE_LIMIT"}
  BY DEF ValidationStatus, EntryStatus, EndStatus, ValidatorStatus
<1>3. TypeOK' /\ StartsUntyped'
  BY <1>1, <1>2 DEF Refuse, PipelineInv, TypeOK, Phases, Statuses, StartsUntyped
<1> QED
  BY <1>1, <1>3
     DEF Refuse, PipelineInv, ParseSound, MountedSound, Accepted, CallFollows, GradesAreFlagged,
         MountedNeverFaults, QuantizedIsFlagged, RequiredClassIsExact

(* What the parse has established of a unit it is done with.                *)
LEMMA UnitCompletes ==
  ASSUME PipelineInv, phase = "parse", ValidationStatus = "OK", AtEnd, UnitStatus = "OK"
  PROVE  Complete(unit) /\ Len(Classes) <= MaxClasses
<1>1. /\ WellFormed(unit) /\ pc \in 1..Len(Program)
      /\ Program \in Seq(Instruction) /\ Len(Program) \in Nat
      /\ EndStatus(Kind, Program, pc, types) = "OK"
  BY ValidatorReads
<1>2. pc = Len(Program) /\ Program[pc].operand = 0 /\ types = <<ResultType(Kind)>>
  BY <1>1 DEF EndStatus
<1>3. /\ types = typing[unit][pc] /\ TypedTo(unit, pc)
      /\ \A j \in 1..pc : Len(typing[unit][j]) <= deepest
  BY DEF PipelineInv, ParseSound
<1>4. unit = 0 => deepest <= operation.maxStack
  BY OperationShape DEF UnitStatus, PipelineInv, TypeOK
<1>5. ASSUME unit = 0, NEW j \in 1..Len(ProgramOf(unit))
      PROVE  Len(typing[unit][j]) <= operation.maxStack
  <2>1. unit \in Units /\ j \in Positions
    BY <1>1, BoundsAssumption DEF WellFormed, Positions, PipelineInv, TypeOK
  <2>2. Len(typing[unit][j]) \in Nat /\ deepest \in Nat /\ operation.maxStack \in Nat
    BY <2>1, OperationShape DEF PipelineInv, TypeOK
  <2>3. Len(typing[unit][j]) <= deepest /\ deepest <= operation.maxStack
    BY <1>2, <1>3, <1>4, <1>5 DEF Program
  <2> QED
    BY <2>2, <2>3
<1>6. Complete(unit)
  BY <1>1, <1>2, <1>3, <1>5 DEF Complete, Program, Kind
<1>7. Len(Classes) <= MaxClasses
  BY OperationShape, BoundsAssumption DEF UnitStatus, PipelineInv
<1> QED
  BY <1>6, <1>7

(* The parse goes on to the next program or is done.                        *)
LEMMA ParseUnitKeeps == PipelineInv /\ ParseUnit => PipelineInv'
<1> SUFFICES ASSUME PipelineInv, ParseUnit PROVE PipelineInv'
  OBVIOUS
<1>0. phase = "parse" /\ ValidationStatus = "OK" /\ AtEnd
  BY DEF ParseUnit
<1>1. /\ unit \in Nat /\ unit <= Len(Classes) /\ Len(Classes) \in Nat
      /\ \A k \in 0..(unit - 1) : Complete(k)
  BY <1>0, OperationShape DEF PipelineInv, ParseSound, TypeOK, Units
<1>2. CASE UnitStatus # "OK" /\ Refuse(UnitStatus)
  <2>1. UnitStatus \in Statuses
    BY DEF UnitStatus, Statuses
  <2>2. TypeOK' /\ StartsUntyped'
    BY <1>2, <2>1 DEF Refuse, PipelineInv, TypeOK, Phases, StartsUntyped
  <2> QED
    BY <1>2, <2>2
       DEF Refuse, PipelineInv, ParseSound, MountedSound, Accepted, CallFollows,
           GradesAreFlagged, MountedNeverFaults, QuantizedIsFlagged, RequiredClassIsExact
<1>3. CASE /\ UnitStatus = "OK" /\ unit < Len(Classes)
           /\ StartUnit(unit + 1) /\ phase' = "parse"
           /\ UNCHANGED <<operation, typing, value, matched, given, demand, status>>
  <2>1. Complete(unit) /\ Len(Classes) <= MaxClasses
    BY <1>0, <1>3, UnitCompletes
  <2>2. unit + 1 \in Units /\ unit + 1 <= Len(Classes) /\ 1 \in Positions
    BY <1>1, <1>3, <2>1, BoundsAssumption DEF Units, Positions
  <2>3. /\ unit' = unit + 1 /\ pc' = 1 /\ types' = <<>> /\ deepest' = 0
        /\ stack' = <<>> /\ flags' = {}
    BY <1>3 DEF StartUnit
  <2>4. TypeOK'
    BY <1>3, <2>2, <2>3 DEF PipelineInv, TypeOK, Phases
  <2>5. StartsUntyped' /\ Classes' = Classes /\ \A k : Complete(k)' <=> Complete(k)
    BY <1>3, TypingStands DEF PipelineInv
  <2>6. typing[unit + 1][1] = <<>> /\ typing' = typing
    BY <1>3, <2>2 DEF PipelineInv, StartsUntyped
  <2>7. \A k \in 0..unit : Complete(k)'
    BY <1>1, <2>1, <2>5
  <2>8. TypedTo(unit, pc)'
    BY <2>3 DEF TypedTo
  <2>9. ParseSound'
    <3>1. \A j \in 1..pc' : Len(typing'[unit'][j]) <= deepest'
      BY <2>3, <2>6
    <3>2. \A k \in 0..(unit' - 1) : Complete(k)'
      BY <1>1, <2>3, <2>7
    <3> QED
      BY <2>1, <2>2, <2>3, <2>5, <2>6, <2>8, <3>1, <3>2 DEF ParseSound
  <2> QED
    BY <1>3, <2>3, <2>4, <2>5, <2>9
       DEF PipelineInv, MountedSound, Accepted, CallFollows, GradesAreFlagged,
           MountedNeverFaults, QuantizedIsFlagged, RequiredClassIsExact
<1>4. CASE /\ UnitStatus = "OK" /\ ~(unit < Len(Classes))
           /\ StartUnit(0) /\ phase' = "mounted"
           /\ UNCHANGED <<operation, typing, value, matched, given, demand, status>>
  <2>1. Complete(unit) /\ Len(Classes) <= MaxClasses
    BY <1>0, <1>4, UnitCompletes
  <2>2. unit' = 0 /\ pc' = 1 /\ types' = <<>> /\ deepest' = 0 /\ stack' = <<>> /\ flags' = {}
    BY <1>4 DEF StartUnit
  <2>3. 0 \in Units
    BY BoundsAssumption DEF Units
  <2>4. TypeOK'
    BY <1>4, <2>2, <2>3 DEF PipelineInv, TypeOK, Phases
  <2>5. StartsUntyped' /\ Classes' = Classes /\ \A k : Complete(k)' <=> Complete(k)
    BY <1>4, TypingStands DEF PipelineInv
  <2>6. \A k \in 0..Len(Classes) : Complete(k)'
    BY <1>1, <1>4, <2>1, <2>5
  <2>7. MountedSound'
    BY <1>1, <2>1, <2>2, <2>5, <2>6 DEF MountedSound
  <2> QED
    BY <1>4, <2>2, <2>4, <2>5, <2>7
       DEF PipelineInv, ParseSound, CallFollows, GradesAreFlagged,
           MountedNeverFaults, QuantizedIsFlagged, RequiredClassIsExact
<1> QED
  BY <1>2, <1>3, <1>4 DEF ParseUnit

(* A call takes its arguments and starts validating.                        *)
LEMMA CallKeeps == PipelineInv /\ Call => PipelineInv'
<1> SUFFICES ASSUME PipelineInv, Call PROVE PipelineInv'
  OBVIOUS
<1>1. /\ phase \in {"mounted", "done"} /\ given' \in 0..MaxGiven /\ demand' \in {"yes", "no"}
      /\ value' = NoValue /\ matched' = 0 /\ StartUnit(0)
      /\ \/ phase' = "done" /\ status' \in {"ARGUMENT_COUNT"} \cup ArgumentFaults
         \/ phase' = "check" /\ status' = "OK" /\ given' = operation.inputs
      /\ UNCHANGED <<operation, typing>>
  BY DEF Call, Countable
<1>2. unit' = 0 /\ pc' = 1 /\ types' = <<>> /\ deepest' = 0 /\ stack' = <<>> /\ flags' = {}
  BY <1>1 DEF StartUnit
<1>3. 0 \in Units /\ 1 \in Positions
  BY BoundsAssumption DEF Units, Positions
<1>4. NoValue \in [grade : Grades, flags : SUBSET ValueFlags]
  BY DEF NoValue, Grades, ValueFlags
<1>5. status' \in Statuses /\ phase' \in Phases
      /\ status' \notin {"PACK_INVALID", "RESOURCE_LIMIT", "INTERNAL_ERROR"}
      /\ (phase' = "done" => status' # "OK")
  BY <1>1 DEF Statuses, ArgumentFaults, Phases
<1>6. TypeOK'
  BY <1>1, <1>2, <1>3, <1>4, <1>5 DEF PipelineInv, TypeOK
<1>7. /\ StartsUntyped' /\ Classes' = Classes /\ \A k : Complete(k)' <=> Complete(k)
      /\ \A k : ProgramOf(k)' = ProgramOf(k)
  BY <1>1, TypingStands DEF PipelineInv
<1>8. Len(Classes) <= MaxClasses /\ \A k \in 0..Len(Classes) : Complete(k)
  BY <1>1 DEF PipelineInv, MountedSound, Accepted
<1>9. Len(Classes) \in Nat
  BY OperationShape DEF PipelineInv
<1>10. MountedSound'
  BY <1>2, <1>7, <1>8, <1>9 DEF MountedSound
<1>11. Len(ProgramOf(0)) \in Positions /\ typing[0][1] = <<>>
  BY <1>3, <1>8, <1>9 DEF Complete, WellFormed, PipelineInv, StartsUntyped
<1>12. Program' = ProgramOf(0)
  BY <1>2, <1>7 DEF Program
<1>13. CallFollows'
  <2>1. pc' \in 1..Len(Program')
    BY <1>2, <1>11, <1>12, BoundsAssumption DEF Positions
  <2> QED
    BY <1>1, <1>2, <1>11, <2>1 DEF CallFollows
<1>14. GradesAreFlagged'
  BY <1>1, <1>2 DEF GradesAreFlagged, NoValue
<1> QED
  BY <1>1, <1>5, <1>6, <1>7, <1>10, <1>13, <1>14
     DEF PipelineInv, ParseSound, MountedNeverFaults, QuantizedIsFlagged, RequiredClassIsExact

(* A program validated again is executed.                                   *)
LEMMA CheckedKeeps == PipelineInv /\ Checked => PipelineInv'
<1> SUFFICES ASSUME PipelineInv, Checked PROVE PipelineInv'
  OBVIOUS
<1>1. /\ phase = "check" /\ phase' = "run" /\ pc' = 1
      /\ UNCHANGED <<operation, unit, types, deepest, typing, stack, flags,
                     value, matched, given, demand, status>>
  BY DEF Checked
<1>2. given = operation.inputs /\ stack = <<>> /\ flags = {} /\ pc \in 1..Len(Program)
  BY <1>1 DEF PipelineInv, CallFollows
<1>3. /\ StartsUntyped' /\ Classes' = Classes /\ \A k : Complete(k)' <=> Complete(k)
      /\ \A k : ProgramOf(k)' = ProgramOf(k)
  BY <1>1, TypingStands DEF PipelineInv
<1>4. TypeOK'
  BY <1>1 DEF PipelineInv, TypeOK, Phases
<1>5. MountedSound'
  BY <1>1, <1>3 DEF PipelineInv, MountedSound, Accepted
<1>6. TypesOf(stack) = <<>>
  <2>1. TypesOf(stack) \in Seq(Types) /\ Len(TypesOf(stack)) = 0
    BY <1>2, TypesOfShape DEF PipelineInv, TypeOK
  <2> QED
    BY <2>1
<1>7. Complete(unit) /\ unit \in Units
  BY <1>1, OperationShape DEF PipelineInv, MountedSound, Accepted, TypeOK, Units
<1>8. CallFollows'
  <2>1. 1 \in 1..Len(Program) /\ Program' = Program
    BY <1>1, <1>3, <1>7, BoundsAssumption DEF Complete, WellFormed, Positions, Program
  <2>2. TypesOf(stack)' = TypesOf(stack)
    BY <1>1 DEF TypesOf
  <2>3. typing[unit][1] = <<>>
    BY <1>7 DEF PipelineInv, StartsUntyped
  <2> QED
    BY <1>1, <1>2, <1>6, <2>1, <2>2, <2>3 DEF CallFollows
<1>9. GradesAreFlagged'
  BY <1>1 DEF PipelineInv, GradesAreFlagged
<1> QED
  BY <1>1, <1>3, <1>4, <1>5, <1>8, <1>9
     DEF PipelineInv, ParseSound, MountedNeverFaults, QuantizedIsFlagged, RequiredClassIsExact

(* One more instruction executed: the types are those the parse found, and  *)
(* a rounded number is never on the stack without a flag.                   *)
LEMMA ExecuteKeeps == PipelineInv /\ Execute => PipelineInv'
<1> SUFFICES ASSUME PipelineInv, Execute PROVE PipelineInv'
  OBVIOUS
<1> DEFINE op == Program[pc].op
           n == Len(ExecutorPops(op))
<1>1. /\ phase = "run" /\ ~AtEnd /\ pc' = pc + 1
      /\ UNCHANGED <<operation, phase, unit, types, deepest, typing, value, matched,
                     given, demand, status>>
  BY DEF Execute, Running
<1>2. PICK marks \in Marks(op) :
        /\ stack' = Push(stack, n, [type  |-> ExecutorPushes(op),
                                    grade |-> GradeOf(Program[pc], stack, marks, value.grade)])
        /\ flags' = Accumulated(flags, marks)
  BY DEF Execute
<1> DEFINE grade == GradeOf(Program[pc], stack, marks, value.grade)
           v == [type |-> ExecutorPushes(op), grade |-> grade]
<1>3. /\ pc \in 1..Len(Program) /\ Len(Program) \in Nat /\ pc < Len(Program)
      /\ n \in 0..Len(stack) /\ ExecutorPushes(op) \in Types
      /\ \A g \in Grades : LET w == [type |-> ExecutorPushes(op), grade |-> g] IN
           TypesOf(Push(stack, n, w)) = typing[unit][pc + 1]
  BY <1>1, RunSucceeds
<1>4. grade \in Grades
  BY DEF GradeOf, Grades
<1>5. v \in Value
  BY <1>3, <1>4 DEF Value
<1>6. TypesOf(Push(stack, n, v)) = typing[unit][pc + 1]
  BY <1>3, <1>4
<1>7. marks \subseteq ValueFlags /\ flags' = flags \cup marks
  BY <1>2 DEF Marks, ValueFlags, Accumulated
<1>8. stack \in Seq(Value) /\ Len(stack) \in Nat
  BY DEF PipelineInv, TypeOK
<1>9. grade = "quantized" =>
        \/ marks # {}
        \/ \E j \in (Len(stack) + 1 - n) .. Len(stack) : stack[j].grade = "quantized"
        \/ value.grade = "quantized"
  BY DEF GradeOf
<1>10. stack' = Push(stack, n, v)
  BY <1>2
<1> HIDE DEF v, grade, n, op
<1>11. Pushed(Value, stack, n, v)
  BY <1>3, <1>5, <1>8, PushShape
<1>12. /\ stack' \in Seq(Value) /\ Len(stack') = Len(stack) - n + 1
       /\ \A j \in 1..(Len(stack) - n) : stack'[j] = stack[j]
       /\ stack'[Len(stack) - n + 1] = v
  BY <1>10, <1>11 DEF Pushed
<1>13. TypeOK'
  <2>1. pc' \in Nat \ {0} /\ flags' \subseteq ValueFlags
    BY <1>1, <1>3, <1>7 DEF PipelineInv, TypeOK
  <2> QED
    BY <1>1, <1>12, <2>1 DEF PipelineInv, TypeOK
<1>14. /\ StartsUntyped' /\ Classes' = Classes /\ \A k : Complete(k)' <=> Complete(k)
       /\ \A k : ProgramOf(k)' = ProgramOf(k)
  BY <1>1, TypingStands DEF PipelineInv
<1>15. MountedSound'
  BY <1>1, <1>14 DEF PipelineInv, MountedSound, Accepted
<1>16. CallFollows'
  <2>1. pc' \in 1..Len(Program') /\ Program' = Program
    BY <1>1, <1>3, <1>14 DEF Program
  <2>2. TypesOf(stack)' = typing[unit][pc + 1]
    BY <1>6, <1>10 DEF TypesOf
  <2> QED
    BY <1>1, <2>1, <2>2 DEF PipelineInv, CallFollows
<1>17. ASSUME unit = 0, NEW j \in 1..Len(stack'), stack'[j].grade = "quantized"
       PROVE  flags' # {}
  <2>1. value.grade = "exact" /\ \A i \in 1..Len(stack) : stack[i].grade = "quantized" => flags # {}
    BY <1>1, <1>17 DEF PipelineInv, GradesAreFlagged
  <2>2. CASE j \in 1..(Len(stack) - n)
    <3>1. j \in 1..Len(stack) /\ stack[j].grade = "quantized"
      BY <1>3, <1>8, <1>12, <1>17, <2>2
    <3> QED
      BY <1>7, <2>1, <3>1
  <2>3. CASE j = Len(stack) - n + 1
    <3>1. grade = "quantized"
      BY <1>12, <1>17, <2>3 DEF v
    <3>2. (Len(stack) + 1 - n) .. Len(stack) \subseteq 1..Len(stack)
      BY <1>3, <1>8
    <3>3. marks # {} \/ flags # {}
      BY <1>9, <2>1, <3>1, <3>2
    <3> QED
      BY <1>7, <3>3
  <2>4. j \in 1..(Len(stack) - n + 1)
    BY <1>12
  <2>5. j \in 1..(Len(stack) - n) \/ j = Len(stack) - n + 1
    BY <1>3, <1>8, <2>4
  <2> QED
    BY <2>2, <2>3, <2>5
<1>18. GradesAreFlagged'
  BY <1>1, <1>17 DEF PipelineInv, GradesAreFlagged
<1> QED
  BY <1>1, <1>13, <1>14, <1>15, <1>16, <1>18
     DEF PipelineInv, ParseSound, MountedNeverFaults, QuantizedIsFlagged, RequiredClassIsExact

(* Execution fails for the numbers alone.                                   *)
LEMMA ExecutionFailsKeeps == PipelineInv /\ ExecutionFails => PipelineInv'
<1> SUFFICES ASSUME PipelineInv, ExecutionFails PROVE PipelineInv'
  OBVIOUS
<1>1. PICK s \in ExecutionFailures : phase = "run" /\ Fail(s)
  BY DEF ExecutionFails
<1>2. /\ phase = "run" /\ phase' = "done" /\ status' = s
      /\ UNCHANGED <<operation, unit, pc, types, deepest, typing, stack, flags,
                     value, matched, given, demand>>
  BY <1>1 DEF Fail
<1>3. /\ pc \in 1..Len(Program) /\ Len(Program) \in Nat
      /\ ~AtEnd => RunStatus = "OK"
      /\ AtEnd => stack # <<>> /\ stack[Len(stack)].type = ResultType(Kind)
  BY <1>2, RunSucceeds
<1>4. s \in Faults(Program[pc].op)
  BY <1>1, <1>3 DEF ExecutionFailures
<1>5. s \in {"OVERFLOW", "DIVIDE_BY_ZERO", "DOMAIN_ERROR"}
  BY <1>4 DEF Faults
<1>6. TypeOK'
  BY <1>2, <1>5 DEF PipelineInv, TypeOK, Phases, Statuses
<1>7. StartsUntyped' /\ Classes' = Classes /\ \A k : Complete(k)' <=> Complete(k)
  BY <1>2, TypingStands DEF PipelineInv
<1>8. MountedSound'
  BY <1>2, <1>7 DEF PipelineInv, MountedSound, Accepted
<1> QED
  BY <1>2, <1>5, <1>6, <1>7, <1>8
     DEF PipelineInv, ParseSound, CallFollows, GradesAreFlagged,
         MountedNeverFaults, QuantizedIsFlagged, RequiredClassIsExact

(* A call that fails for a reason the caller may see ends nothing else.     *)
LEMMA FailKeeps ==
  ASSUME PipelineInv, phase \in Accepted, NEW s \in {"OVERFLOW", "PRECISION_UNRESOLVED"}, Fail(s)
  PROVE  PipelineInv'
<1>1. /\ phase' = "done" /\ status' = s
      /\ UNCHANGED <<operation, unit, pc, types, deepest, typing, stack, flags,
                     value, matched, given, demand>>
  BY DEF Fail
<1>2. TypeOK'
  BY <1>1 DEF PipelineInv, TypeOK, Phases, Statuses
<1>3. StartsUntyped' /\ Classes' = Classes /\ \A k : Complete(k)' <=> Complete(k)
  BY <1>1, TypingStands DEF PipelineInv
<1>4. MountedSound'
  BY <1>1, <1>3 DEF PipelineInv, MountedSound
<1>5. GradesAreFlagged'
  BY <1>1 DEF PipelineInv, GradesAreFlagged
<1> QED
  BY <1>1, <1>2, <1>3, <1>4, <1>5
     DEF PipelineInv, ParseSound, CallFollows,
         MountedNeverFaults, QuantizedIsFlagged, RequiredClassIsExact

(* The next predicate is validated from its start, or the value is          *)
(* answered.                                                                *)
LEMMA NextUnitKeeps ==
  ASSUME PipelineInv, phase = "run", NextUnit, UNCHANGED <<operation, typing, given>>
  PROVE  /\ phase' \in {"check", "answer"} /\ unit' \in Units /\ pc' \in Nat \ {0}
         /\ types' \in Seq(Types) /\ deepest' \in Nat
         /\ stack' \in Seq(Value) /\ flags' \subseteq ValueFlags
         /\ unit' > 0 \/ phase' = "answer"
         /\ StartsUntyped' /\ MountedSound' /\ CallFollows' /\ ParseSound'
<1>1. /\ Len(Classes) <= MaxClasses /\ unit <= Len(Classes) /\ Len(Classes) \in Nat
      /\ unit \in Nat /\ \A k \in 0..Len(Classes) : Complete(k)
  BY OperationShape DEF PipelineInv, MountedSound, Accepted, TypeOK, Units
<1>2. /\ StartsUntyped' /\ Classes' = Classes /\ \A k : Complete(k)' <=> Complete(k)
      /\ \A k : ProgramOf(k)' = ProgramOf(k)
  BY TypingStands DEF PipelineInv
<1>3. CASE unit < Len(Classes) /\ StartUnit(unit + 1) /\ phase' = "check"
  <2>1. /\ unit' = unit + 1 /\ pc' = 1 /\ types' = <<>> /\ deepest' = 0
        /\ stack' = <<>> /\ flags' = {}
    BY <1>3 DEF StartUnit
  <2>2. unit + 1 \in Units /\ unit + 1 \in 0..Len(Classes)
    BY <1>1, <1>3, BoundsAssumption DEF Units
  <2>3. Complete(unit + 1) /\ typing[unit + 1][1] = <<>>
    BY <1>1, <2>2 DEF PipelineInv, StartsUntyped
  <2>4. Program' = ProgramOf(unit + 1)
    BY <1>2, <2>1 DEF Program
  <2>5. 1 \in 1..Len(Program')
    BY <2>3, <2>4, BoundsAssumption DEF Complete, WellFormed, Positions
  <2>6. given = operation.inputs
    BY DEF PipelineInv, CallFollows
  <2>7. CallFollows'
    BY <1>3, <2>1, <2>3, <2>5, <2>6 DEF CallFollows
  <2>8. MountedSound' /\ ParseSound'
    BY <1>1, <1>2, <1>3, <2>1, <2>2 DEF MountedSound, ParseSound
  <2> QED
    BY <1>1, <1>2, <1>3, <2>1, <2>2, <2>7, <2>8
<1>4. CASE /\ phase' = "answer"
           /\ UNCHANGED <<unit, pc, types, deepest, stack, flags>>
  BY <1>1, <1>2, <1>4
     DEF PipelineInv, TypeOK, MountedSound, Accepted, CallFollows, ParseSound
<1> QED
  BY <1>3, <1>4 DEF NextUnit

(* The formula's value, with its flags, goes to the predicates.             *)
LEMMA FormulaEndsKeeps == PipelineInv /\ FormulaEnds => PipelineInv'
<1> SUFFICES ASSUME PipelineInv, FormulaEnds PROVE PipelineInv'
  OBVIOUS
<1>1. phase = "run" /\ unit = 0 /\ AtEnd /\ stack # <<>>
  BY DEF FormulaEnds, Delivers, Running
<1>2. CASE Fail("PRECISION_UNRESOLVED")
  BY <1>1, <1>2, FailKeeps DEF Accepted
<1>3. CASE /\ ~Unresolved(flags)
           /\ value' = [grade |-> stack[Len(stack)].grade, flags |-> flags]
           /\ NextUnit
           /\ UNCHANGED <<operation, typing, matched, given, demand, status>>
  <2> DEFINE top == stack[Len(stack)]
  <2>1. top \in Value /\ Len(stack) \in 1..Len(stack)
    <3>1. Len(stack) \in 1..Len(stack)
      BY <1>1 DEF PipelineInv, TypeOK
    <3> QED
      BY <3>1 DEF PipelineInv, TypeOK
  <2>2. top.grade \in Grades /\ (top.grade = "quantized" => flags # {})
    BY <1>1, <2>1 DEF Value, PipelineInv, GradesAreFlagged
  <2> HIDE DEF top
  <2>3. value' = [grade |-> top.grade, flags |-> flags]
    BY <1>3 DEF top
  <2>4. value'.grade = top.grade /\ value'.flags = flags
    BY <2>3
  <2>5. /\ phase' \in {"check", "answer"} /\ unit' \in Units /\ pc' \in Nat \ {0}
        /\ types' \in Seq(Types) /\ deepest' \in Nat
        /\ stack' \in Seq(Value) /\ flags' \subseteq ValueFlags
        /\ unit' > 0 \/ phase' = "answer"
        /\ StartsUntyped' /\ MountedSound' /\ CallFollows' /\ ParseSound'
    BY <1>1, <1>3, NextUnitKeeps
  <2>6. TypeOK'
    <3>1. value' \in [grade : Grades, flags : SUBSET ValueFlags]
      BY <2>2, <2>3 DEF PipelineInv, TypeOK
    <3> QED
      BY <1>3, <2>5, <3>1 DEF PipelineInv, TypeOK, Phases
  <2>7. operation.required = "required" => flags = {}
    BY <1>3 DEF Unresolved
  <2>8. GradesAreFlagged'
    BY <1>3, <2>2, <2>4, <2>5, <2>7, BoundsAssumption DEF GradesAreFlagged, Units
  <2> QED
    BY <2>5, <2>6, <2>8
       DEF PipelineInv, MountedNeverFaults, QuantizedIsFlagged, RequiredClassIsExact
<1> QED
  BY <1>2, <1>3 DEF FormulaEnds

(* A predicate's answer: the second that holds ends the call.               *)
LEMMA PredicateEndsKeeps == PipelineInv /\ PredicateEnds => PipelineInv'
<1> SUFFICES ASSUME PipelineInv, PredicateEnds PROVE PipelineInv'
  OBVIOUS
<1>1. phase = "run" /\ unit > 0 /\ unit \in Nat /\ AtEnd
  BY DEF PredicateEnds, Delivers, Running, PipelineInv, TypeOK, Units
<1>2. CASE matched # 0 /\ Fail("PACK_INVALID")
  <2>1. /\ phase' = "done" /\ status' = "PACK_INVALID"
        /\ UNCHANGED <<operation, unit, pc, types, deepest, typing, stack, flags,
                       value, matched, given, demand>>
    BY <1>2 DEF Fail
  <2>2. TypeOK'
    BY <2>1 DEF PipelineInv, TypeOK, Phases, Statuses
  <2>3. /\ StartsUntyped' /\ Classes' = Classes /\ \A k : Complete(k)' <=> Complete(k)
        /\ \A k : ProgramOf(k)' = ProgramOf(k)
    BY <2>1, TypingStands DEF PipelineInv
  <2>4. MountedSound'
    BY <1>1, <2>1, <2>3 DEF PipelineInv, MountedSound, Accepted
  <2>5. pc = Len(Program) /\ TypesOf(stack) = <<ResultType(Kind)>>
    BY <1>1, RunSucceeds
  <2>6. ResultType(Kind) = "Boolean"
    BY <1>1 DEF ResultType, Kind, KindOf
  <2>7. TypesOf(stack)' = TypesOf(stack) /\ Program' = Program
    BY <2>1, <2>3 DEF TypesOf, Program
  <2>8. MountedNeverFaults'
    BY <1>1, <1>2, <2>1, <2>5, <2>6, <2>7 DEF MountedNeverFaults
  <2> QED
    BY <2>1, <2>2, <2>3, <2>4, <2>8
       DEF PipelineInv, ParseSound, CallFollows, GradesAreFlagged, QuantizedIsFlagged,
           RequiredClassIsExact
<1>3. CASE /\ matched' \in {matched} \cup (IF matched = 0 THEN {Classes[unit].id} ELSE {})
           /\ NextUnit
           /\ UNCHANGED <<operation, typing, value, given, demand, status>>
  <2>1. /\ phase' \in {"check", "answer"} /\ unit' \in Units /\ pc' \in Nat \ {0}
        /\ types' \in Seq(Types) /\ deepest' \in Nat
        /\ stack' \in Seq(Value) /\ flags' \subseteq ValueFlags
        /\ unit' > 0 \/ phase' = "answer"
        /\ StartsUntyped' /\ MountedSound' /\ CallFollows' /\ ParseSound'
    BY <1>1, <1>3, NextUnitKeeps
  <2>2. unit \in 1..Len(Classes)
    BY <1>1, OperationShape DEF PipelineInv, MountedSound, Accepted
  <2>3. matched' \in Nat
    BY <1>3, <2>2, OperationShape DEF PipelineInv, TypeOK
  <2>4. TypeOK'
    BY <1>3, <2>1, <2>3 DEF PipelineInv, TypeOK, Phases
  <2>5. /\ value.grade = "quantized" => value.flags # {}
        /\ operation.required = "required" => value.flags = {}
    BY <1>1 DEF PipelineInv, GradesAreFlagged
  <2>6. GradesAreFlagged'
    BY <1>3, <2>1, <2>5, BoundsAssumption DEF GradesAreFlagged, Units
  <2> QED
    BY <2>1, <2>4, <2>6
       DEF PipelineInv, MountedNeverFaults, QuantizedIsFlagged, RequiredClassIsExact
<1> QED
  BY <1>2, <1>3 DEF PredicateEnds

(* An answer carries the flags of the formula and of its own rounding.      *)
LEMMA AnswerKeeps == PipelineInv /\ Answer => PipelineInv'
<1> SUFFICES ASSUME PipelineInv, Answer PROVE PipelineInv'
  OBVIOUS
<1>1. phase = "answer"
  BY DEF Answer
<1>2. CASE Fail("PRECISION_UNRESOLVED") \/ Fail("OVERFLOW")
  BY <1>1, <1>2, FailKeeps DEF Accepted
<1>3. CASE /\ ~Unclassified
           /\ \E marks \in Marks("round") : flags' = Accumulated(value.flags, marks)
           /\ phase' = "done" /\ status' = "OK"
           /\ UNCHANGED <<operation, unit, pc, types, deepest, typing, stack,
                          value, matched, given, demand>>
  <2>1. /\ value.grade \in Grades /\ value.flags \subseteq ValueFlags
        /\ value.grade = "quantized" => value.flags # {}
        /\ operation.required = "required" => value.flags = {}
    BY <1>1 DEF PipelineInv, TypeOK, GradesAreFlagged
  <2>2. flags' \subseteq ValueFlags /\ value.flags \subseteq flags'
    BY <1>3, <2>1 DEF Marks, ValueFlags, Accumulated
  <2>3. TypeOK'
    BY <1>3, <2>2 DEF PipelineInv, TypeOK, Phases, Statuses
  <2>4. StartsUntyped' /\ Classes' = Classes /\ \A k : Complete(k)' <=> Complete(k)
    BY <1>3, TypingStands DEF PipelineInv
  <2>5. MountedSound'
    BY <1>1, <1>3, <2>4 DEF PipelineInv, MountedSound, Accepted
  <2>6. QuantizedIsFlagged'
    BY <1>3, <2>1, <2>2 DEF QuantizedIsFlagged
  <2>7. RequiredClassIsExact'
    BY <1>3, <2>1 DEF RequiredClassIsExact, Unclassified, Grades
  <2>8. GradesAreFlagged'
    BY <1>3, <2>1 DEF GradesAreFlagged
  <2> QED
    BY <1>3, <2>3, <2>4, <2>5, <2>6, <2>7, <2>8
       DEF PipelineInv, ParseSound, CallFollows, MountedNeverFaults
<1> QED
  BY <1>2, <1>3 DEF Answer

(* A step that changes nothing.                                             *)
LEMMA StutterKeeps == PipelineInv /\ UNCHANGED vars => PipelineInv'
<1> SUFFICES ASSUME PipelineInv, UNCHANGED vars PROVE PipelineInv'
  OBVIOUS
<1>1. UNCHANGED <<operation, phase, unit, pc, types, deepest, typing, stack, flags,
                  value, matched, given, demand, status>>
  BY DEF vars
<1>2. /\ Classes' = Classes /\ \A k : Complete(k)' <=> Complete(k)
      /\ \A k : WellFormed(k)' <=> WellFormed(k)
      /\ \A k, n : TypedTo(k, n)' <=> TypedTo(k, n)
      /\ \A k : ProgramOf(k)' = ProgramOf(k)
      /\ StartsUntyped' <=> StartsUntyped
  BY <1>1, TypingStands
<1>3. TypeOK' /\ MountedSound' /\ CallFollows' /\ GradesAreFlagged' /\ StartsUntyped'
  BY <1>1, <1>2
     DEF PipelineInv, TypeOK, MountedSound, CallFollows, GradesAreFlagged, Program, TypesOf
<1>4. Program' = Program /\ TypesOf(stack)' = TypesOf(stack)
  BY <1>1, <1>2 DEF Program, TypesOf
<1>5. TypedTo(unit, pc)' <=> TypedTo(unit, pc)
  BY <1>1 DEF TypedTo, ProgramOf, Classes, SizesOf, KindOf
<1>6. WellFormed(unit)' <=> WellFormed(unit)
  BY <1>1 DEF WellFormed, ProgramOf, Classes
<1>7. ParseSound'
  BY <1>1, <1>2, <1>4, <1>5, <1>6 DEF PipelineInv, ParseSound
<1> QED
  BY <1>1, <1>3, <1>4, <1>7
     DEF PipelineInv, MountedNeverFaults, QuantizedIsFlagged, RequiredClassIsExact

-----------------------------------------------------------------------------
(* The theorems.                                                            *)

(* The invariant holds of every operation a pack may declare, whatever the  *)
(* bounds.                                                                  *)
THEOREM PipelineInvHolds == Spec => []PipelineInv
<1>1. Init => PipelineInv
  BY InitKeeps
<1>2. PipelineInv /\ [Next]_vars => PipelineInv'
  <2> SUFFICES ASSUME PipelineInv, [Next]_vars PROVE PipelineInv'
    OBVIOUS
  <2>1. CASE Parse
    BY <2>1, ParseKeeps
  <2>2. CASE ValidateInstruction
    BY <2>2, ValidateKeeps
  <2>3. CASE ValidationFails
    BY <2>3, ValidationFailsKeeps
  <2>4. CASE ParseUnit
    BY <2>4, ParseUnitKeeps
  <2>5. CASE Call
    BY <2>5, CallKeeps
  <2>6. CASE Checked
    BY <2>6, CheckedKeeps
  <2>7. CASE Execute
    BY <2>7, ExecuteKeeps
  <2>8. CASE ExecutionFails
    BY <2>8, ExecutionFailsKeeps
  <2>9. CASE FormulaEnds
    BY <2>9, FormulaEndsKeeps
  <2>10. CASE PredicateEnds
    BY <2>10, PredicateEndsKeeps
  <2>11. CASE Answer
    BY <2>11, AnswerKeeps
  <2>12. CASE UNCHANGED vars
    BY <2>12, StutterKeeps
  <2> QED
    BY <2>1, <2>2, <2>3, <2>4, <2>5, <2>6, <2>7, <2>8, <2>9, <2>10, <2>11, <2>12 DEF Next
<1> QED
  BY <1>1, <1>2, PTL DEF Spec

(* Whatever programs a pack holds, if its parse mounted it then no call     *)
(* runs into the machine's own checks (vm.rs:295).                          *)
THEOREM MountedOperationsNeverFault == Spec => []MountedNeverFaults
<1>1. PipelineInv => MountedNeverFaults
  BY DEF PipelineInv
<1> QED
  BY <1>1, PipelineInvHolds, PTL

(* The stack of a running formula stays within the depth the pack declared  *)
(* and the parse compared (dynamic.rs:611).                                 *)
THEOREM FormulasKeepTheirDepth == Spec => []DepthAsDeclared
<1>1. PipelineInv => DepthAsDeclared
  <2> SUFFICES ASSUME PipelineInv, phase = "run", unit = 0
               PROVE  Len(stack) <= operation.maxStack
    BY DEF DepthAsDeclared
  <2>1. Complete(0) /\ TypesOf(stack) = typing[0][pc] /\ pc \in 1..Len(ProgramOf(0))
    BY OperationShape
       DEF PipelineInv, MountedSound, Accepted, CallFollows, Program
  <2>2. Len(typing[0][pc]) <= operation.maxStack
    BY <2>1 DEF Complete
  <2>3. Len(TypesOf(stack)) = Len(stack)
    BY TypesOfShape DEF PipelineInv, TypeOK
  <2> QED
    BY <2>1, <2>2, <2>3
<1> QED
  BY <1>1, PipelineInvHolds, PTL

(* No rounding is lost on the way to the answer (evaluate.rs:354).          *)
THEOREM RoundingIsNeverLost == Spec => []QuantizedIsFlagged
<1>1. PipelineInv => QuantizedIsFlagged
  BY DEF PipelineInv
<1> QED
  BY <1>1, PipelineInvHolds, PTL

(* A required class is always that of an exact value (evaluate.rs:309).     *)
THEOREM RequiredClassesAreExact == Spec => []RequiredClassIsExact
<1>1. PipelineInv => RequiredClassIsExact
  BY DEF PipelineInv
<1> QED
  BY <1>1, PipelineInvHolds, PTL

=============================================================================
