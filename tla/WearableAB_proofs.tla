-------------------------- MODULE WearableAB_proofs --------------------------
(***************************************************************************)
(* The A/B activation journal and the update sequence around it, in three  *)
(* parts: types, the journal as one atomic register, and the images.       *)
(* Actors, digests, generations and faults are arbitrary.                  *)
(***************************************************************************)
EXTENDS ABUpdate, TLAPS

(* The storage and host contract under which the journal is correct.       *)
Disciplined == Serialized /\ ErrorsSettle /\ ~PartialReadFaults

-----------------------------------------------------------------------------
(* Records.                                                                *)

(* The four placeholder copies are copies, and none of them decodes.       *)
LEMMA Placeholders ==
  /\ {Blank, Torn, Fault, Nothing} \subseteq Copy
  /\ NoState \in State
  /\ \A v \in {Blank, Torn, Fault, Nothing} : ~Decodes(v)
BY RecordAssumption
   DEF Blank, Torn, Fault, Nothing, Void, Copy, Kinds, NoState, State, Slots, Copies, Decodes

(* A successor of an intact record is an intact record of the next         *)
(* generation.                                                             *)
LEMMA SuccessorsAreRecords ==
  ASSUME NEW r \in Copy, Decodes(r), r.generation # MaxGeneration, NEW n \in Successors(r)
  PROVE  n \in Copy /\ Decodes(n) /\ n.generation = r.generation + 1
<1>1. r.generation + 1 \in 0 .. MaxGeneration
  BY RecordAssumption DEF Copy
<1>2. CASE r.rollback
  <2>1. CASE n = Accepted(r)
    BY <1>1, <2>1, RecordAssumption DEF Accepted, Decodes, Copy, Kinds, Slots
  <2>2. CASE n = RolledBack(r)
    BY <1>1, <1>2, <2>2, RecordAssumption DEF RolledBack, Decodes, Copy, Kinds, Slots
  <2> QED
    BY <1>2, <2>1, <2>2 DEF Successors
<1>3. CASE ~r.rollback
  <2>1. PICK d \in Digests : n = Activated(r, Other(r.active), d)
    BY <1>3 DEF Successors
  <2> QED
    BY <1>1, <2>1, RecordAssumption DEF Activated, Other, Decodes, Copy, Kinds, Slots
<1> QED
  BY <1>2, <1>3

(* The successor relation is irreflexive and antisymmetric on generations. *)
LEMMA SuccessorIsNewer ==
  ASSUME NEW r \in Copy, NEW n \in Successors(r)
  PROVE  n.generation = r.generation + 1 /\ n.generation > r.generation
<1>1. r.generation \in Nat
  BY RecordAssumption DEF Copy
<1>2. n.generation = r.generation + 1
  BY DEF Successors, Accepted, RolledBack, Activated
<1> QED
  BY <1>1, <1>2

(* Recovery selects a copy that decodes and succeeds the other one.        *)
LEMMA Selects ==
  ASSUME NEW v \in [Copies -> Copy], NEW c \in Copies, Decodes(v[c]),
         Decodes(v[Other(c)]) => v[c] \in Successors(v[Other(c)])
  PROVE  /\ RecoverStatus(v) = "ok"
         /\ SelectedCopy(v) = c
         /\ Recovered(v) = [rec |-> v[c], selected_record_copy |-> c]
<1>1. \A x \in Copies : v[x].generation \in Nat
  BY RecordAssumption DEF Copy
<1>2. Decodes(v[Other(c)]) => v[c].generation > v[Other(c)].generation
  BY SuccessorIsNewer DEF Copies, Other
<1>3. RecoverStatus(v) = "ok"
  BY <1>1, <1>2 DEF RecoverStatus, Copies, Other
<1>4. SelectedCopy(v) = c
  BY <1>1, <1>2 DEF SelectedCopy, Copies, Other
<1> QED
  BY <1>3, <1>4 DEF Recovered

(* What recovery returns is a state of the type, and it is one of the      *)
(* copies read.                                                            *)
LEMMA RecoveredIsState ==
  ASSUME NEW v \in [Copies -> Copy]
  PROVE  /\ Recovered(v) \in State
         /\ RecoverStatus(v) \in Statuses
         /\ SelectedCopy(v) \in Copies
<1>1. SelectedCopy(v) \in Copies
  BY DEF SelectedCopy, Copies
<1> QED
  BY <1>1, Placeholders DEF Recovered, RecoverStatus, State, Statuses

-----------------------------------------------------------------------------
(* Type correctness, with no assumption on host or device.                 *)

TypeInv == TypeOK /\ CallsAdmitted

(* The record an admitted update persists succeeds the state it started    *)
(* from.                                                                   *)
LEMMA NextIsSuccessor ==
  ASSUME TypeInv, NEW a \in Actors, pc[a] # "idle", op[a] \in Updates
  PROVE  /\ Decodes(ram[a].rec)
         /\ ram[a].rec \in Copy
         /\ ram[a].rec.generation # MaxGeneration
         /\ NextRecord(a, ram[a].rec) \in Successors(ram[a].rec)
         /\ NextRecord(a, ram[a].rec) \in Copy
<1>1. /\ ram[a] \in State
      /\ arg[a] \in Args
      /\ Admission(op[a], ram[a], arg[a]) = "ok"
  BY DEF TypeInv, TypeOK, CallTypeOK, CallsAdmitted
<1>2. ram[a].rec \in Copy
  BY <1>1 DEF State
<1>3. ~Invalid(op[a], ram[a], arg[a]) /\ ~Overflows(op[a], ram[a])
  BY <1>1 DEF Admission
<1>4. Decodes(ram[a].rec) /\ ram[a].rec.generation # MaxGeneration
  BY <1>3 DEF Invalid, Overflows
<1>5. NextRecord(a, ram[a].rec) \in Successors(ram[a].rec)
  <2>1. CASE op[a] = "rollback" \/ op[a] = "accept"
    BY <2>1, <1>3 DEF Invalid, NextRecord, Successors
  <2>2. CASE op[a] = "commit"
    <3>1. arg[a].digest \in Digests
      BY <1>1, <1>3, <2>2 DEF Invalid, Args
    <3>2. arg[a].slot = Other(ram[a].rec.active) /\ ~ram[a].rec.rollback
      BY <1>3, <2>2 DEF Invalid
    <3> QED
      BY <2>2, <3>1, <3>2 DEF NextRecord, Successors
  <2> QED
    BY <2>1, <2>2 DEF Updates
<1> QED
  BY <1>2, <1>4, <1>5, SuccessorsAreRecords

(* The record bootstrap writes.                                            *)
LEMMA GenesisIsRecord ==
  ASSUME NEW s \in Slots, NEW d \in Digests
  PROVE  Genesis(s, d) \in Copy /\ Decodes(Genesis(s, d))
BY RecordAssumption DEF Genesis, Copy, Kinds, Slots, Decodes, Other

(* Returning keeps the types and touches no other call.                    *)
LEMMA ReturnTypes ==
  ASSUME TypeInv, NEW a \in Actors, NEW result \in Statuses, NEW st \in State,
         Return(a, result, st)
  PROVE  CallTypeOK' /\ CallsAdmitted'
<1>1. CallTypeOK'
  BY Placeholders, RecordAssumption
     DEF TypeInv, TypeOK, CallTypeOK, Return, Goto, Stages, Statuses, NoArgs, Args, Slots
<1>2. CallsAdmitted'
  BY DEF TypeInv, TypeOK, CallTypeOK, CallsAdmitted, Return, Goto
<1> QED
  BY <1>1, <1>2

(* The two copies a call saw are a function of the type.                   *)
LEMMA PairType ==
  ASSUME NEW v0 \in Copy, NEW v1 \in Copy
  PROVE  /\ Pair(v0, v1) \in [Copies -> Copy]
         /\ Pair(v0, v1)[0] = v0
         /\ Pair(v0, v1)[1] = v1
BY DEF Pair, Copies

(* A device outcome is a copy.                                             *)
LEMMA OutcomeType ==
  ASSUME StorageTypeOK, NEW c \in Copies, NEW p \in Copy, NEW v \in Outcomes(c, p)
  PROVE  v \in Copy
BY Placeholders DEF StorageTypeOK, Outcomes

(* A blank device and idle hosts are typed.                                 *)
LEMMA TypeInvInit == Init => TypeInv
<1> SUFFICES ASSUME Init PROVE TypeInv
  OBVIOUS
<1>1. StorageTypeOK
  BY Placeholders, JournalAssumption DEF Init, StorageTypeOK
<1>2. CallTypeOK
  BY Placeholders DEF Init, CallTypeOK, Stages, Ops, NoArgs, Args, Slots, Statuses
<1>3. CallsAdmitted
  BY DEF Init, CallsAdmitted
<1> QED
  BY <1>1, <1>2, <1>3 DEF TypeInv, TypeOK

(* Every step of every host and of the device keeps the types.              *)
LEMMA TypeInvStep == TypeInv /\ [Next]_vars => TypeInv'
<1> SUFFICES ASSUME TypeInv, [Next]_vars PROVE TypeInv'
  OBVIOUS
<1> USE DEF TypeInv, TypeOK
<1>1. ASSUME NEW a \in Actors, NEW o \in Ops, NEW x \in Inputs(o), Begin(a, o, x)
      PROVE  TypeInv'
  <2>1. x \in Args
    BY DEF Inputs, Args, NoArgs, Slots
  <2>2. StorageTypeOK' /\ CallTypeOK'
    BY <1>1, <2>1 DEF Begin, Goto, StorageTypeOK, CallTypeOK, Stages, Statuses
  <2>3. CallsAdmitted'
    BY <1>1, <2>1 DEF Begin, Goto, CallsAdmitted, CallTypeOK
  <2> QED
    BY <2>2, <2>3
<1>2. ASSUME NEW a \in Actors, NEW o \in Ops, NEW x \in Inputs(o), Refuse(a, o, x)
      PROVE  TypeInv'
  <2>1. Admission(o, ram[a], x) \in Statuses
    BY DEF Admission, Statuses
  <2> QED
    BY <1>2, <2>1 DEF Refuse, StorageTypeOK, CallTypeOK, CallsAdmitted
<1>3. ASSUME NEW a \in Actors, ReadFirst(a)
      PROVE  TypeInv'
  <2>1. PICK v \in {durable[0], Fault} :
          /\ Reading(0, v)
          /\ IF op[a] = "bootstrap" /\ v.kind = "fault"
               THEN Return(a, "io", ram[a])
               ELSE /\ seen' = [seen EXCEPT ![a] = v]
                    /\ Goto(a, "read1")
                    /\ UNCHANGED <<op, arg, next, ram, status>>
    BY <1>3 DEF ReadFirst
  <2>2. v \in Copy /\ ram[a] \in State /\ "io" \in Statuses
    BY Placeholders DEF StorageTypeOK, CallTypeOK, Copies, Statuses
  <2>3. StorageTypeOK'
    BY <1>3, <2>1, JournalAssumption DEF ReadFirst, storageVars, Reading, OneFault, NoFault, StorageTypeOK
  <2>4. CallTypeOK' /\ CallsAdmitted'
    <3>1. CASE op[a] = "bootstrap" /\ v.kind = "fault"
      BY <2>1, <2>2, <3>1, ReturnTypes
    <3>2. CASE ~(op[a] = "bootstrap" /\ v.kind = "fault")
      BY <1>3, <2>1, <2>2, <3>2 DEF ReadFirst, Goto, CallTypeOK, CallsAdmitted, Stages
    <3> QED
      BY <3>1, <3>2
  <2> QED
    BY <2>3, <2>4
<1>4. ASSUME NEW a \in Actors, ReadSecond(a)
      PROVE  TypeInv'
  <2>1. PICK v \in {durable[1], Fault} :
          /\ SecondReading(a, v)
          /\ IF op[a] = "recover" THEN DecideRecover(a, Pair(seen[a], v))
             ELSE IF op[a] = "bootstrap" THEN DecideBootstrap(a, Pair(seen[a], v))
             ELSE DecideUpdate(a, Pair(seen[a], v))
    BY <1>4 DEF ReadSecond
  <2>2. /\ v \in Copy
        /\ Pair(seen[a], v) \in [Copies -> Copy]
        /\ ram[a] \in State
        /\ {"io", "invalid", "integrity"} \subseteq Statuses
    BY Placeholders, PairType DEF StorageTypeOK, CallTypeOK, Copies, Statuses
  <2>3. StorageTypeOK'
    BY <1>4, <2>1, JournalAssumption
       DEF ReadSecond, storageVars, SecondReading, Reading, OneFault, NoFault, StorageTypeOK
  <2>4. pc[a] # "idle" /\ op[a] \in Ops /\ arg[a] \in Inputs(op[a])
    BY <1>4 DEF ReadSecond, CallsAdmitted
  <2>5. ASSUME NEW r \in Copy, Proceed(a, r)
        PROVE  CallTypeOK' /\ CallsAdmitted'
    BY <2>4, <2>5 DEF Proceed, Goto, CallTypeOK, CallsAdmitted, Stages
  <2>6. CallTypeOK' /\ CallsAdmitted'
    <3>1. CASE op[a] = "recover"
      <4>1. (IF RecoverStatus(Pair(seen[a], v)) = "ok" THEN Recovered(Pair(seen[a], v))
                                                     ELSE ram[a]) \in State
        BY <2>2, RecoveredIsState
      <4> QED
        BY <2>1, <2>2, <3>1, <4>1, RecoveredIsState, ReturnTypes DEF DecideRecover
    <3>2. CASE op[a] = "bootstrap"
      <4>1. arg[a].slot \in Slots /\ arg[a].digest \in Digests
        BY <2>4, <3>2, <1>4
           DEF ReadSecond, CallsAdmitted, Admission, Invalid, Inputs, Args
      <4>2. Genesis(arg[a].slot, arg[a].digest) \in Copy
        BY <4>1, GenesisIsRecord
      <4> QED
        BY <2>1, <2>2, <2>5, <3>2, <4>2, ReturnTypes DEF DecideBootstrap
    <3>3. CASE op[a] \in Updates
      <4>1. NextRecord(a, ram[a].rec) \in Copy
        BY <2>4, <3>3, NextIsSuccessor
      <4> QED
        BY <2>1, <2>2, <2>5, <3>3, <4>1, RecoveredIsState, ReturnTypes DEF DecideUpdate, Updates
    <3> QED
      BY <2>4, <3>1, <3>2, <3>3 DEF Ops
  <2> QED
    BY <2>3, <2>6
<1>5. ASSUME NEW a \in Actors, Write(a)
      PROVE  TypeInv'
  <2>1. TargetCopy(a) \in Copies /\ next[a] \in Copy /\ ram[a] \in State /\ "io" \in Statuses
    BY DEF TargetCopy, Other, Copies, CallTypeOK, State, Statuses
  <2>2. CASE WriteSucceeds(a)
    BY <1>5, <2>1, <2>2
       DEF Write, WriteSucceeds, Goto, StorageTypeOK, CallTypeOK, CallsAdmitted, Stages
  <2>3. CASE WriteFails(a)
    <3>1. StorageTypeOK'
      BY <2>1, <2>3, Placeholders, OutcomeType, JournalAssumption
         DEF WriteFails, OneFault, StorageTypeOK
    <3> QED
      BY <2>1, <2>3, <3>1, ReturnTypes DEF WriteFails
  <2> QED
    BY <1>5, <2>2, <2>3 DEF Write
<1>6. ASSUME NEW a \in Actors, Flush(a)
      PROVE  TypeInv'
  <2>1. ram[a] \in State /\ "io" \in Statuses
    BY DEF CallTypeOK, Statuses
  <2>2. CASE FlushSucceeds(a)
    BY <1>6, <2>2, Placeholders
       DEF Flush, FlushSucceeds, NoFault, Goto, StorageTypeOK, CallTypeOK, CallsAdmitted, Stages
  <2>3. CASE FlushTears(a)
    BY <1>6, <2>3, Placeholders, JournalAssumption
       DEF Flush, FlushTears, OneFault, Goto, StorageTypeOK, CallTypeOK, CallsAdmitted, Stages
  <2>4. CASE FlushFails(a)
    <3>1. StorageTypeOK'
      <4>1. CASE ErrorsSettle
        <5>1. PICK v0 \in Outcomes(0, staged[0]), v1 \in Outcomes(1, staged[1]) :
                durable' = Pair(v0, v1)
          BY <2>4, <4>1 DEF FlushFails
        <5>2. v0 \in Copy /\ v1 \in Copy
          BY OutcomeType DEF StorageTypeOK, Copies
        <5> QED
          BY <2>4, <4>1, <5>1, <5>2, PairType, Placeholders, JournalAssumption
             DEF FlushFails, OneFault, StorageTypeOK
      <4>2. CASE ~ErrorsSettle
        BY <2>4, <4>2, JournalAssumption DEF FlushFails, OneFault, storageVars, StorageTypeOK
      <4> QED
        BY <4>1, <4>2
    <3> QED
      BY <2>1, <2>4, <3>1, ReturnTypes DEF FlushFails
  <2> QED
    BY <1>6, <2>2, <2>3, <2>4 DEF Flush
<1>7. ASSUME NEW a \in Actors, Reread(a)
      PROVE  TypeInv'
  <2>1. TargetCopy(a) \in Copies /\ next[a] \in Copy /\ ram[a] \in State
    BY DEF TargetCopy, Other, Copies, CallTypeOK, State
  <2>2. [rec |-> next[a], selected_record_copy |-> TargetCopy(a)] \in State
    BY <2>1 DEF State
  <2>3. StorageTypeOK'
    BY <1>7, JournalAssumption DEF Reread, Reading, OneFault, NoFault, storageVars, StorageTypeOK
  <2>4. \/ Return(a, "io", ram[a])
        \/ Return(a, "ok", [rec |-> next[a], selected_record_copy |-> TargetCopy(a)])
        \/ Return(a, "integrity", ram[a])
    BY <1>7 DEF Reread
  <2> QED
    BY <2>1, <2>2, <2>3, <2>4, ReturnTypes DEF Statuses
<1>8. ASSUME NEW c \in Copies, Land(c)
      PROVE  TypeInv'
  BY <1>8, Placeholders DEF Land, callVars, StorageTypeOK, CallTypeOK, CallsAdmitted
<1>9. ASSUME NEW c \in Copies, RotOlder(c)
      PROVE  TypeInv'
  BY <1>9, Placeholders, JournalAssumption
     DEF RotOlder, OneFault, callVars, StorageTypeOK, CallTypeOK, CallsAdmitted
<1>10. CASE Crash
  <2>1. PICK v0 \in Outcomes(0, staged[0]), v1 \in Outcomes(1, staged[1]) :
          durable' = Pair(v0, v1)
    BY <1>10 DEF Crash
  <2>2. v0 \in Copy /\ v1 \in Copy
    BY OutcomeType DEF StorageTypeOK, Copies
  <2>3. StorageTypeOK'
    BY <1>10, <2>1, <2>2, PairType, Placeholders, JournalAssumption
       DEF Crash, OneFault, StorageTypeOK
  <2>4. CallTypeOK' /\ CallsAdmitted'
    BY <1>10, Placeholders
       DEF Crash, CallTypeOK, CallsAdmitted, Stages, NoArgs, Args, Slots, Statuses
  <2> QED
    BY <2>3, <2>4
<1>11. CASE UNCHANGED vars
  BY <1>11 DEF vars, StorageTypeOK, CallTypeOK, CallsAdmitted
<1> QED
  BY <1>1, <1>2, <1>3, <1>4, <1>5, <1>6, <1>7, <1>8, <1>9, <1>10, <1>11 DEF Next, Step

(* Every variable keeps its type whatever the host and the device do: in   *)
(* particular no generation ever exceeds UINT64_MAX.                       *)
THEOREM TypeCorrect == Spec => []TypeOK
<1>1. TypeInv => TypeOK
  BY DEF TypeInv
<1> QED
  BY <1>1, TypeInvInit, TypeInvStep, PTL DEF Spec

-----------------------------------------------------------------------------
(***************************************************************************)
(* The journal is correct under the documented contract: one call at a     *)
(* time, nothing stays staged after a failed callback, and a device that   *)
(* fails both reads of a recovery or neither.                              *)
(***************************************************************************)

-----------------------------------------------------------------------------
(* Consequences of the inductive invariant.                                *)

(* The invariant includes the types the other lemmas rest on.               *)
LEMMA IInvTyped == IInv => TypeInv
BY DEF IInv, TypeInv

(* The two copies and the place a call writes to.                          *)
LEMMA Places ==
  ASSUME TypeInv, NEW a \in Actors
  PROVE  /\ TargetCopy(a) \in Copies
         /\ Other(TargetCopy(a)) \in Copies
         /\ TargetCopy(a) # Other(TargetCopy(a))
         /\ \A c \in Copies : c = TargetCopy(a) \/ c = Other(TargetCopy(a))
         /\ op[a] # "bootstrap" => Other(TargetCopy(a)) = ram[a].selected_record_copy
         /\ next[a] \in Copy
         /\ ram[a].rec \in Copy
         /\ ram[a].selected_record_copy \in Copies
<1>1. ram[a].selected_record_copy \in Copies /\ ram[a].rec \in Copy
  BY DEF TypeInv, TypeOK, CallTypeOK, State
<1>2. next[a] \in Copy
  BY DEF TypeInv, TypeOK, CallTypeOK
<1> QED
  BY <1>1, <1>2 DEF TargetCopy, Other, Copies

(* A call that is not between its write and its flush has nothing staged,  *)
(* and neither has anyone else.                                            *)
LEMMA NothingStaged ==
  ASSUME IInv, NEW a \in Actors, pc[a] # "idle", pc[a] # "flush"
  PROVE  \A c \in Copies : staged[c] = Nothing
BY DEF IInv, OneCallRuns, StagedByFlusher

(* When no call runs and nothing is staged, what the invariant says of     *)
(* running calls holds.                                                    *)
LEMMA AllIdle ==
  ASSUME \A b \in Actors : pc'[b] = "idle", \A c \in Copies : staged'[c] = Nothing
  PROVE  OneCallRuns' /\ StagedByFlusher' /\ ReadersAreCurrent' /\ ProgressKnown'
BY DEF OneCallRuns, StagedByFlusher, ReadersAreCurrent, ProgressKnown

(* A call that returns leaves everyone idle.                               *)
LEMMA ReturnIdles ==
  ASSUME IInv, NEW a \in Actors, pc[a] # "idle", NEW result, NEW st, Return(a, result, st)
  PROVE  \A b \in Actors : pc'[b] = "idle"
BY DEF IInv, OneCallRuns, TypeOK, CallTypeOK, Return, Goto

(* The latest activation is the copy that holds the place.                 *)
LEMMA HoldsLatest ==
  ASSUME TypeInv, NEW c \in Copies, Holds(c, durable[c])
  PROVE  /\ Latest = [rec |-> durable[c], selected_record_copy |-> c]
         /\ SelectedCopy(durable) = c
         /\ Latest # NoState
<1>1. durable \in [Copies -> Copy]
  BY DEF TypeInv, TypeOK, StorageTypeOK
<1>2. /\ Latest = [rec |-> durable[c], selected_record_copy |-> c]
      /\ SelectedCopy(durable) = c
  BY <1>1, Selects DEF Holds, Latest
<1>3. Latest.rec # Nothing
  BY <1>2, Placeholders DEF Holds
<1> QED
  BY <1>2, <1>3 DEF NoState

(* When a copy decodes, one of the copies holds the place.                 *)
LEMMA SomeCopyHolds ==
  ASSUME CopiesAreChained, NEW d \in Copies, Decodes(durable[d])
  PROVE  \E c \in Copies : Holds(c, durable[c])
<1>1. CASE \A c \in Copies : Decodes(durable[c])
  BY <1>1 DEF CopiesAreChained, Holds, Other, Copies
<1>2. CASE ~Decodes(durable[Other(d)])
  BY <1>2 DEF Holds
<1> QED
  BY <1>1, <1>2 DEF Other, Copies

(* With nothing intact there is nothing to recover.                        *)
LEMMA NothingRecovered ==
  ASSUME \A c \in Copies : ~Decodes(durable[c])
  PROVE  Latest = NoState
BY DEF Latest, Recovered, RecoverStatus, Copies

(* The record a call is about to make durable is intact; for a bootstrap   *)
(* it is a first record, for an update a successor of its state.           *)
LEMMA BasedNext ==
  ASSUME TypeInv, NEW a \in Actors, pc[a] # "idle", op[a] # "recover", Based(a)
  PROVE  /\ Decodes(next[a])
         /\ next[a] # Nothing
         /\ op[a] = "bootstrap" =>
              \E s \in Slots, d \in Digests : next[a] = Genesis(s, d)
<1>1. Decodes(next[a]) /\ (op[a] = "bootstrap" =>
                             \E s \in Slots, d \in Digests : next[a] = Genesis(s, d))
  <2>1. CASE op[a] = "bootstrap"
    <3>1. arg[a].slot \in Slots /\ arg[a].digest \in Digests
      BY <2>1 DEF TypeInv, TypeOK, CallTypeOK, CallsAdmitted, Admission, Invalid, Args
    <3> QED
      BY <2>1, <3>1, GenesisIsRecord DEF Based
  <2>2. CASE op[a] # "bootstrap"
    <3>1. op[a] \in Updates
      BY <2>2 DEF TypeInv, CallsAdmitted, Ops
    <3>2. /\ ram[a].rec \in Copy /\ Decodes(ram[a].rec)
          /\ ram[a].rec.generation # MaxGeneration
      BY <3>1, NextIsSuccessor
    <3> QED
      BY <2>2, <3>2, SuccessorsAreRecords DEF Based
  <2> QED
    BY <2>1, <2>2
<1> QED
  BY <1>1, Placeholders

(* Writing over the target copy of a call, whole, torn or not at all,      *)
(* keeps the copies chained and advances the journal by at most one step.  *)
LEMMA Overwrite ==
  ASSUME TypeInv, TypeInv', CopiesWellFormed, CopiesAreChained,
         NEW a \in Actors, pc[a] # "idle", op[a] # "recover", Based(a),
         LET t == TargetCopy(a) IN
           /\ durable'[t] \in {durable[t], next[a], Torn}
           /\ durable'[Other(t)] = durable[Other(t)]
  PROVE  /\ CopiesWellFormed'
         /\ CopiesAreChained'
         /\ Advances
         /\ durable'[TargetCopy(a)] = next[a] =>
              /\ Decodes(durable'[Other(TargetCopy(a))]) =>
                   next[a] \in Successors(durable'[Other(TargetCopy(a))])
              /\ Latest' = [rec |-> next[a], selected_record_copy |-> TargetCopy(a)]
<1> DEFINE t == TargetCopy(a)
<1> HIDE DEF t
<1>1. /\ t \in Copies /\ Other(t) \in Copies /\ t # Other(t)
      /\ \A c \in Copies : c = t \/ c = Other(t)
      /\ op[a] # "bootstrap" => Other(t) = ram[a].selected_record_copy
      /\ Other(Other(t)) = t
  BY Places DEF t, Copies, Other
<1>2. /\ durable \in [Copies -> Copy]
      /\ durable' \in [Copies -> Copy]
      /\ durable'[t] \in {durable[t], next[a], Torn}
      /\ durable'[Other(t)] = durable[Other(t)]
  BY DEF t, TypeInv, TypeOK, StorageTypeOK
<1>3. /\ Decodes(next[a]) /\ next[a] # Nothing
      /\ op[a] = "bootstrap" => \E s \in Slots, d \in Digests : next[a] = Genesis(s, d)
  BY BasedNext
<1>4. CopiesWellFormed'
  BY <1>1, <1>2, <1>3 DEF CopiesWellFormed
<1>5. CASE op[a] = "bootstrap"
  <2>1. /\ \A c \in Copies : ~Decodes(durable[c])
        /\ ~Decodes(durable'[Other(t)])
    BY <1>1, <1>2, <1>5, Placeholders DEF Based
  <2>2. Latest = NoState
    BY <2>1, NothingRecovered
  <2>3. CopiesAreChained'
    BY <1>1, <2>1 DEF CopiesAreChained
  <2>4. CASE durable'[t] = next[a]
    <3>1. Latest' = [rec |-> next[a], selected_record_copy |-> t]
      BY <1>1, <1>2, <1>3, <2>1, <2>4, Selects DEF Latest
    <3> QED
      BY <1>1, <1>3, <1>4, <1>5, <2>1, <2>2, <2>3, <3>1 DEF Advances, t
  <2>5. CASE durable'[t] # next[a]
    <3>1. \A c \in Copies : ~Decodes(durable'[c])
      BY <1>1, <1>2, <2>1, <2>5, Placeholders
    <3>2. Latest' = NoState
      BY <3>1 DEF Latest, Recovered, RecoverStatus, Copies
    <3> QED
      BY <1>4, <2>2, <2>3, <2>5, <3>2 DEF Advances, t
  <2> QED
    BY <2>4, <2>5
<1>6. CASE op[a] # "bootstrap"
  <2>1. /\ Holds(Other(t), durable[Other(t)])
        /\ next[a] \in Successors(durable[Other(t)])
    BY <1>1, <1>6 DEF Based, Holds
  <2>2. Latest = [rec |-> durable[Other(t)], selected_record_copy |-> Other(t)] /\ Latest # NoState
    BY <1>1, <2>1, HoldsLatest
  <2>3. CASE durable'[t] = next[a]
    <3>1. Latest' = [rec |-> next[a], selected_record_copy |-> t]
      BY <1>1, <1>2, <1>3, <2>1, <2>3, Selects DEF Latest
    <3>2. CopiesAreChained'
      BY <1>1, <1>2, <2>1, <2>3 DEF CopiesAreChained
    <3> QED
      BY <1>1, <1>2, <1>4, <2>1, <2>2, <2>3, <3>1, <3>2 DEF Advances, t
  <2>4. CASE durable'[t] # next[a]
    <3>1. Decodes(durable'[t]) => durable'[t] = durable[t]
      BY <1>2, <2>4, Placeholders
    <3>2. Decodes(durable'[t]) => durable'[Other(t)] \in Successors(durable'[t])
      BY <1>1, <1>2, <2>1, <3>1 DEF Holds
    <3>3. CopiesAreChained'
      BY <1>1, <3>2 DEF CopiesAreChained
    <3>4. Decodes(durable'[Other(t)])
      BY <1>2, <2>1 DEF Holds
    <3>5. Latest' = [rec |-> durable'[Other(t)], selected_record_copy |-> Other(t)]
      BY <1>1, <1>2, <3>2, <3>4, Selects DEF Latest
    <3> QED
      BY <1>2, <1>4, <2>2, <2>4, <3>3, <3>5 DEF Advances, t
  <2> QED
    BY <2>3, <2>4
<1> QED
  BY <1>5, <1>6

(* Whatever a device makes of the staged copies when a flush fails or the  *)
(* power goes, the journal is intact and at most one activation further.   *)
LEMMA Settles ==
  ASSUME IInv, TypeInv', NEW v0 \in Outcomes(0, staged[0]), NEW v1 \in Outcomes(1, staged[1]),
         durable' = Pair(v0, v1)
  PROVE  CopiesWellFormed' /\ CopiesAreChained' /\ (durable' = durable \/ Advances)
<1>1. TypeInv /\ CopiesWellFormed /\ CopiesAreChained
  BY IInvTyped DEF IInv
<1>2. /\ durable \in [Copies -> Copy]
      /\ durable' \in [Copies -> Copy]
      /\ \A c \in Copies : durable'[c] \in Outcomes(c, staged[c])
  BY <1>1 DEF TypeInv, TypeOK, StorageTypeOK, Pair, Copies
<1>3. CASE \A c \in Copies : staged[c] = Nothing
  <2>1. durable' = durable
    BY <1>2, <1>3 DEF Outcomes
  <2> QED
    BY <1>1, <2>1 DEF CopiesWellFormed, CopiesAreChained
<1>4. CASE \E c \in Copies : staged[c] # Nothing
  <2>1. PICK a \in Actors : /\ pc[a] = "flush"
                            /\ staged[TargetCopy(a)] = next[a]
                            /\ staged[TargetCopy(a)] # Nothing
    BY <1>4 DEF IInv, StagedByFlusher
  <2>2. op[a] # "recover" /\ Based(a)
    BY <2>1 DEF IInv, ProgressKnown
  <2>3. staged[Other(TargetCopy(a))] = Nothing
    BY <1>1, <2>1, Places DEF IInv, StagedByFlusher, OneCallRuns
  <2>4. /\ durable'[TargetCopy(a)] \in {durable[TargetCopy(a)], next[a], Torn}
        /\ durable'[Other(TargetCopy(a))] = durable[Other(TargetCopy(a))]
    BY <1>1, <1>2, <2>1, <2>3, Places DEF Outcomes
  <2> QED
    BY <1>1, <2>1, <2>2, <2>4, Overwrite
<1> QED
  BY <1>3, <1>4

-----------------------------------------------------------------------------
(* One lemma per action.                                                   *)

(* What every step establishes besides the types.                          *)
Kept == /\ OneCallRuns' /\ CopiesWellFormed' /\ CopiesAreChained'
        /\ StagedByFlusher' /\ ReadersAreCurrent' /\ ProgressKnown'
        /\ durable' = durable \/ Advances
        /\ ReturnsLatest

(* The storage parts depend on the durable copies only.                    *)
LEMMA DurableUnchanged ==
  ASSUME IInv, durable' = durable
  PROVE  /\ CopiesWellFormed' /\ CopiesAreChained'
         /\ Latest' = Latest
         /\ \A c \in Copies, r \in Copy : Holds(c, r) => Holds(c, r)'
BY DEF IInv, CopiesWellFormed, CopiesAreChained, Latest, Holds

(* A call begins only while no other is under way, with nothing staged; it  *)
(* touches no record and no held state.                                     *)
LEMMA BeginKeeps ==
  ASSUME IInv, Disciplined, NEW a \in Actors, NEW o, NEW x, Begin(a, o, x)
  PROVE  Kept
<1>1. \A b \in Actors : pc[b] = "idle"
  BY DEF Disciplined, Begin, MayCall
<1>2. \A c \in Copies : staged[c] = Nothing
  BY <1>1 DEF IInv, StagedByFlusher
<1>3. durable' = durable /\ staged' = staged /\ ram' = ram /\ pc' = [pc EXCEPT ![a] = "read0"]
  BY DEF Begin, Goto
<1>4. pc \in [Actors -> Stages]
  BY DEF IInv, TypeOK, CallTypeOK
<1> QED
  BY <1>1, <1>2, <1>3, <1>4, DurableUnchanged
     DEF Kept, OneCallRuns, StagedByFlusher, ReadersAreCurrent, ProgressKnown, ReturnsLatest

(* A refused call ends where it began.                                      *)
LEMMA RefuseKeeps ==
  ASSUME IInv, UNCHANGED <<durable, staged, faults, pc, op, arg, seen, next, ram>>
  PROVE  Kept
BY DEF Kept, IInv, OneCallRuns, CopiesWellFormed, CopiesAreChained, StagedByFlusher,
       ReadersAreCurrent, ProgressKnown, Based, Written, Holds, TargetCopy, ReturnsLatest

(* A call that returns without a state change, storage untouched.          *)
LEMMA ReturnKeeps ==
  ASSUME IInv, NEW a \in Actors, pc[a] # "idle", pc[a] # "flush", NEW result, NEW st,
         Return(a, result, st), UNCHANGED storageVars,
         st = ram[a] \/ st = NoState \/ st = Latest
  PROVE  Kept
<1>1. \A b \in Actors : pc'[b] = "idle"
  BY ReturnIdles
<1>2. \A c \in Copies : staged'[c] = Nothing
  BY NothingStaged DEF storageVars
<1>3. durable' = durable
  BY DEF storageVars
<1>4. ReturnsLatest
  BY <1>3, DurableUnchanged DEF Return, ReturnsLatest, IInv, TypeOK, CallTypeOK
<1> QED
  BY <1>1, <1>2, <1>3, <1>4, AllIdle, DurableUnchanged DEF Kept

(* The first copy read is kept in the call only; the device is as it was.   *)
LEMMA ReadFirstKeeps ==
  ASSUME IInv, NEW a \in Actors, ReadFirst(a)
  PROVE  Kept
<1>1. pc[a] = "read0" /\ UNCHANGED storageVars
  BY DEF ReadFirst
<1>2. PICK v \in {durable[0], Fault} :
        IF op[a] = "bootstrap" /\ v.kind = "fault"
          THEN Return(a, "io", ram[a])
          ELSE /\ seen' = [seen EXCEPT ![a] = v]
               /\ Goto(a, "read1")
               /\ UNCHANGED <<op, arg, next, ram, status>>
  BY DEF ReadFirst
<1>3. CASE op[a] = "bootstrap" /\ v.kind = "fault"
  BY <1>1, <1>2, <1>3, ReturnKeeps
<1>4. CASE ~(op[a] = "bootstrap" /\ v.kind = "fault")
  <2>1. /\ pc' = [pc EXCEPT ![a] = "read1"] /\ seen' = [seen EXCEPT ![a] = v]
        /\ UNCHANGED <<durable, staged, op, ram>>
    BY <1>1, <1>2, <1>4 DEF Goto, storageVars
  <2>5. v = durable[0] \/ (v = Fault /\ op[a] # "bootstrap")
    <3>1. Fault.kind = "fault"
      BY DEF Fault, Void
    <3> QED
      BY <1>2, <1>4, <3>1
  <2>2. \A b \in Actors : pc'[b] # "idle" => b = a
    BY <1>1, <2>1 DEF IInv, OneCallRuns, TypeOK, CallTypeOK
  <2>3. pc'[a] = "read1" /\ seen'[a] = v
    BY <2>1 DEF IInv, TypeOK, CallTypeOK
  <2>4. \A c \in Copies : staged'[c] = Nothing
    BY <1>1, <2>1, NothingStaged
  <2> QED
    BY <2>1, <2>2, <2>3, <2>4, <2>5, DurableUnchanged
       DEF Kept, OneCallRuns, StagedByFlusher, ReadersAreCurrent, ProgressKnown, ReturnsLatest
<1> QED
  BY <1>3, <1>4

(* What a successful refresh selects is the latest durable activation,     *)
(* although the two copies were read at different moments.                 *)
LEMMA RefreshIsLatest ==
  ASSUME IInv, Disciplined, NEW a \in Actors, pc[a] = "read1", op[a] # "bootstrap",
         NEW v \in {durable[1], Fault}, SecondReading(a, v),
         RecoverStatus(Pair(seen[a], v)) = "ok"
  PROVE  /\ Recovered(Pair(seen[a], v)) = Latest
         /\ \E c \in Copies :
              /\ Holds(c, durable[c])
              /\ Latest = [rec |-> durable[c], selected_record_copy |-> c]
<1> DEFINE saw == Pair(seen[a], v)
<1>1. TypeInv /\ CopiesWellFormed /\ CopiesAreChained
  BY IInvTyped DEF IInv
<1>2. /\ durable \in [Copies -> Copy] /\ durable[0] \in Copy /\ durable[1] \in Copy
      /\ seen[a] \in Copy /\ v \in Copy
  BY <1>1, Placeholders DEF TypeInv, TypeOK, StorageTypeOK, CallTypeOK, Copies
<1>3. saw \in [Copies -> Copy] /\ saw[0] = seen[a] /\ saw[1] = v
  BY <1>2, PairType
<1>4. ~Decodes(Fault) /\ Fault.kind = "fault"
  BY Placeholders DEF Fault, Void
<1>5. v = IF seen[a].kind = "fault" THEN Fault ELSE durable[1]
  BY DEF SecondReading, Disciplined
<1>6. \E c \in Copies : Decodes(saw[c])
  <2>1. (\A c \in Copies : ~Decodes(saw[c])) => RecoverStatus(saw) # "ok"
    BY DEF RecoverStatus
  <2> QED
    BY <2>1
<1>7. seen[a].kind # "fault" /\ v = durable[1]
  <2>1. CASE seen[a].kind = "fault"
    <3>1. ~Decodes(seen[a])
      BY <2>1 DEF Decodes
    <3> QED
      BY <1>3, <1>4, <1>5, <1>6, <2>1, <3>1 DEF Copies
  <2> QED
    BY <1>5, <2>1
<1>8. CASE seen[a] = durable[0]
  <2>1. saw = durable
    BY <1>2, <1>3, <1>7, <1>8 DEF Copies, Pair
  <2>2. PICK c \in Copies : Holds(c, durable[c])
    BY <1>1, <1>6, <2>1, SomeCopyHolds
  <2> QED
    BY <1>1, <2>1, <2>2, HoldsLatest DEF Latest
<1>9. CASE /\ Decodes(seen[a]) /\ Decodes(durable[1])
           /\ durable[0] = Torn /\ durable[1] \in Successors(seen[a])
  <2>1. Holds(1, durable[1])
    BY <1>9, Placeholders DEF Holds, Other
  <2>2. Latest = [rec |-> durable[1], selected_record_copy |-> 1]
    BY <1>1, <2>1, HoldsLatest DEF Copies
  <2>3. Recovered(saw) = [rec |-> durable[1], selected_record_copy |-> 1]
    BY <1>3, <1>7, <1>9, Selects DEF Copies, Other
  <2> QED
    BY <2>1, <2>2, <2>3 DEF Copies
<1> QED
  BY <1>4, <1>7, <1>8, <1>9 DEF IInv, ReadersAreCurrent

(* A call that goes on to write is based on what is durable.               *)
LEMMA ProceedKeeps ==
  ASSUME IInv, NEW a \in Actors, pc[a] = "read1", NEW r, Proceed(a, r), UNCHANGED storageVars,
         op[a] # "recover",
         IF op[a] = "bootstrap"
           THEN /\ durable = [c \in Copies |-> Blank]
                /\ r = Genesis(arg[a].slot, arg[a].digest)
           ELSE /\ Holds(ram[a].selected_record_copy, ram[a].rec)
                /\ r \in Successors(ram[a].rec)
  PROVE  Kept
<1>1. /\ pc' = [pc EXCEPT ![a] = "write"] /\ next' = [next EXCEPT ![a] = r]
      /\ UNCHANGED <<durable, staged, op, arg, ram>>
  BY DEF Proceed, Goto, storageVars
<1>2. pc \in [Actors -> Stages] /\ next \in [Actors -> Copy]
  BY DEF IInv, TypeOK, CallTypeOK
<1>3. /\ \A b \in Actors : pc'[b] # "idle" => b = a
      /\ pc'[a] = "write" /\ next'[a] = r
  BY <1>1, <1>2 DEF IInv, OneCallRuns
<1>4. \A c \in Copies : staged'[c] = Nothing
  BY <1>1, NothingStaged
<1>5. Based(a)'
  BY <1>1, <1>3 DEF Based, Holds
<1> QED
  BY <1>1, <1>3, <1>4, <1>5, DurableUnchanged
     DEF Kept, OneCallRuns, StagedByFlusher, ReadersAreCurrent, ProgressKnown, ReturnsLatest

(* With both copies read the call decides: what it then holds, returns or   *)
(* wants written is the latest activation or its successor.                 *)
LEMMA ReadSecondKeeps ==
  ASSUME IInv, Disciplined, NEW a \in Actors, ReadSecond(a)
  PROVE  Kept
<1>1. pc[a] = "read1" /\ UNCHANGED storageVars /\ TypeInv
  BY IInvTyped DEF ReadSecond
<1>2. PICK v \in {durable[1], Fault} :
        /\ SecondReading(a, v)
        /\ IF op[a] = "recover" THEN DecideRecover(a, Pair(seen[a], v))
           ELSE IF op[a] = "bootstrap" THEN DecideBootstrap(a, Pair(seen[a], v))
           ELSE DecideUpdate(a, Pair(seen[a], v))
  BY DEF ReadSecond
<1> DEFINE saw == Pair(seen[a], v)
<1>3. op[a] \in Ops /\ saw[0] = seen[a] /\ saw[1] = v
  BY <1>1 DEF IInv, CallsAdmitted, Pair, Copies
<1>4. CASE op[a] = "recover"
  <2>1. RecoverStatus(saw) = "ok" => Recovered(saw) = Latest
    BY <1>1, <1>2, <1>4, RefreshIsLatest
  <2>2. PICK result, st : Return(a, result, st) /\ (st = ram[a] \/ st = Latest)
    BY <1>2, <1>4, <2>1 DEF DecideRecover
  <2> QED
    BY <1>1, <2>2, ReturnKeeps
<1>5. CASE op[a] = "bootstrap"
  <2>1. \/ \E result : Return(a, result, ram[a])
        \/ /\ \A c \in Copies : saw[c].kind = "blank"
           /\ Proceed(a, Genesis(arg[a].slot, arg[a].digest))
    BY <1>2, <1>5 DEF DecideBootstrap
  <2>2. ASSUME NEW result, Return(a, result, ram[a]) PROVE Kept
    BY <1>1, <2>2, ReturnKeeps
  <2>3. ASSUME \A c \in Copies : saw[c].kind = "blank" PROVE durable = [c \in Copies |-> Blank]
    <3>1. seen[a].kind = "blank" /\ v.kind = "blank"
      BY <1>3, <2>3 DEF Copies
    <3>2. Fault.kind = "fault" /\ Torn.kind = "torn"
      BY DEF Fault, Torn, Void
    <3>3. seen[a] = durable[0] /\ v = durable[1]
      BY <1>1, <1>2, <1>5, <3>1, <3>2 DEF IInv, ReadersAreCurrent, Decodes
    <3>4. \A c \in Copies : durable[c] = Blank
      BY <3>1, <3>2, <3>3 DEF IInv, CopiesWellFormed, Decodes, Copies
    <3> QED
      BY <3>4 DEF IInv, TypeOK, StorageTypeOK
  <2> QED
    BY <1>1, <1>5, <2>1, <2>2, <2>3, ProceedKeeps
<1>6. CASE op[a] \in Updates
  <2>1. \/ \E result : Return(a, result, ram[a])
        \/ /\ RecoverStatus(saw) = "ok" /\ Recovered(saw) = ram[a]
           /\ Proceed(a, NextRecord(a, ram[a].rec))
    BY <1>2, <1>6 DEF DecideUpdate, Updates
  <2>2. ASSUME NEW result, Return(a, result, ram[a]) PROVE Kept
    BY <1>1, <2>2, ReturnKeeps
  <2>3. ASSUME RecoverStatus(saw) = "ok", Recovered(saw) = ram[a],
               Proceed(a, NextRecord(a, ram[a].rec))
        PROVE  Kept
    <3>1. Holds(ram[a].selected_record_copy, ram[a].rec)
      BY <1>1, <1>2, <1>6, <2>3, RefreshIsLatest DEF Updates
    <3>2. NextRecord(a, ram[a].rec) \in Successors(ram[a].rec)
      BY <1>1, <1>6, NextIsSuccessor
    <3> QED
      BY <1>1, <1>6, <2>3, <3>1, <3>2, ProceedKeeps DEF Updates
  <2> QED
    BY <2>1, <2>2, <2>3
<1> QED
  BY <1>3, <1>4, <1>5, <1>6 DEF Ops

(* A record handed to the device is staged, torn, or lost; the copy it      *)
(* replaces is never the latest one.                                        *)
LEMMA WriteKeeps ==
  ASSUME IInv, TypeInv', Disciplined, NEW a \in Actors, Write(a)
  PROVE  Kept
<1>1. pc[a] = "write" /\ TypeInv /\ CopiesWellFormed /\ CopiesAreChained
  BY IInvTyped DEF Write, IInv
<1>2. op[a] # "recover" /\ Based(a)
  BY <1>1 DEF IInv, ProgressKnown
<1>3. \A c \in Copies : staged[c] = Nothing
  BY <1>1, NothingStaged
<1>4. /\ pc \in [Actors -> Stages] /\ staged \in [Copies -> Copy]
      /\ durable \in [Copies -> Copy] /\ ram \in [Actors -> State]
  BY DEF IInv, TypeOK, StorageTypeOK, CallTypeOK
<1>5. CASE WriteSucceeds(a)
  <2>1. /\ pc' = [pc EXCEPT ![a] = "flush"] /\ staged' = [staged EXCEPT ![TargetCopy(a)] = next[a]]
        /\ UNCHANGED <<durable, op, arg, next, ram>>
    BY <1>5 DEF WriteSucceeds, Goto
  <2>2. pc'[a] = "flush" /\ \A b \in Actors : pc'[b] # "idle" => b = a
    BY <1>1, <1>4, <2>1 DEF IInv, OneCallRuns
  <2>3. TargetCopy(a)' = TargetCopy(a) /\ Based(a)'
    BY <1>2, <2>1 DEF TargetCopy, Based, Holds
  <2>4. /\ staged'[TargetCopy(a)] = next'[a]
        /\ \A c \in Copies : staged'[c] # Nothing => c = TargetCopy(a)
    BY <1>1, <1>3, <1>4, <2>1, Places
  <2> QED
    BY <1>2, <2>1, <2>2, <2>3, <2>4, DurableUnchanged
       DEF Kept, OneCallRuns, StagedByFlusher, ReadersAreCurrent, ProgressKnown, ReturnsLatest
<1>6. CASE WriteFails(a)
  <2>1. /\ Return(a, "io", ram[a])
        /\ staged' = [staged EXCEPT ![TargetCopy(a)] = Nothing]
    BY <1>6 DEF WriteFails, Disciplined
  <2>2. PICK v \in Outcomes(TargetCopy(a), next[a]) :
          durable' = [durable EXCEPT ![TargetCopy(a)] = v]
    BY <1>6 DEF WriteFails, Disciplined
  <2>3. /\ durable'[TargetCopy(a)] \in {durable[TargetCopy(a)], next[a], Torn}
        /\ durable'[Other(TargetCopy(a))] = durable[Other(TargetCopy(a))]
    BY <1>1, <1>4, <2>2, Places DEF Outcomes
  <2>4. CopiesWellFormed' /\ CopiesAreChained' /\ Advances
    BY <1>1, <1>2, <2>3, Overwrite
  <2>5. \A b \in Actors : pc'[b] = "idle"
    BY <1>1, <2>1, ReturnIdles
  <2>6. \A c \in Copies : staged'[c] = Nothing
    BY <1>3, <1>4, <2>1
  <2>7. ReturnsLatest
    BY <1>4, <2>1 DEF Return, ReturnsLatest
  <2> QED
    BY <2>4, <2>5, <2>6, <2>7, AllIdle DEF Kept
<1> QED
  BY <1>5, <1>6 DEF Write

(* The flush, or the device on its own, made the staged record durable.    *)
LEMMA RecordLands ==
  ASSUME IInv, TypeInv', NEW a \in Actors, pc[a] = "flush", Based(a),
         TargetCopy(a)' = TargetCopy(a), next'[a] = next[a],
         durable'[TargetCopy(a)] = next[a],
         durable'[Other(TargetCopy(a))] = durable[Other(TargetCopy(a))]
  PROVE  CopiesWellFormed' /\ CopiesAreChained' /\ Advances /\ Written(a)'
<1>1. TypeInv /\ CopiesWellFormed /\ CopiesAreChained /\ op[a] # "recover"
  BY IInvTyped DEF IInv, ProgressKnown
<1>2. Decodes(next[a])
  BY <1>1, BasedNext
<1> QED
  BY <1>1, <1>2, Overwrite DEF Written, Holds

(* A flush makes the staged record durable, tears it or fails; the latest   *)
(* activation survives each outcome.                                        *)
LEMMA FlushKeeps ==
  ASSUME IInv, TypeInv', Disciplined, NEW a \in Actors, Flush(a)
  PROVE  Kept
<1>1. pc[a] = "flush" /\ TypeInv /\ CopiesWellFormed /\ CopiesAreChained
  BY IInvTyped DEF Flush, IInv
<1> DEFINE t == TargetCopy(a)
<1>2. /\ op[a] # "recover"
      /\ \/ Based(a) /\ staged[t] = next[a]
         \/ Written(a) /\ staged[t] = Nothing
  BY <1>1 DEF IInv, ProgressKnown
<1>3. staged[Other(t)] = Nothing
  BY <1>1, Places DEF IInv, StagedByFlusher, OneCallRuns
<1>4. /\ pc \in [Actors -> Stages] /\ staged \in [Copies -> Copy]
      /\ durable \in [Copies -> Copy] /\ ram \in [Actors -> State]
      /\ t \in Copies /\ Other(t) \in Copies /\ t # Other(t)
      /\ \A c \in Copies : c = t \/ c = Other(t)
  BY <1>1, Places DEF IInv, TypeOK, StorageTypeOK, CallTypeOK
<1>5. ASSUME Goto(a, "reread"), UNCHANGED <<op, arg, next, ram>>,
             \A c \in Copies : staged'[c] = Nothing,
             CopiesWellFormed', CopiesAreChained', durable' = durable \/ Advances,
             Written(a)' \/ durable'[t] = Torn
      PROVE  Kept
  <2>1. pc'[a] = "reread" /\ \A b \in Actors : pc'[b] # "idle" => b = a
    BY <1>1, <1>4, <1>5 DEF Goto, IInv, OneCallRuns
  <2>2. TargetCopy(a)' = t /\ op' = op
    BY <1>5 DEF TargetCopy
  <2> QED
    BY <1>2, <1>5, <2>1, <2>2
       DEF Kept, OneCallRuns, StagedByFlusher, ReadersAreCurrent, ProgressKnown, ReturnsLatest
<1>6. CASE FlushSucceeds(a)
  <2>1. /\ Goto(a, "reread") /\ UNCHANGED <<op, arg, next, ram>>
        /\ \A c \in Copies : staged'[c] = Nothing
        /\ \A c \in Copies : durable'[c] = IF staged[c] = Nothing THEN durable[c] ELSE staged[c]
        /\ DOMAIN durable' = Copies
    BY <1>6 DEF FlushSucceeds
  <2>2. TargetCopy(a)' = t
    BY <2>1 DEF TargetCopy
  <2>3. CASE Based(a) /\ staged[t] = next[a]
    <3>1. next[a] # Nothing
      BY <1>1, <1>2, <2>3, BasedNext
    <3>2. durable'[t] = next[a] /\ durable'[Other(t)] = durable[Other(t)]
      BY <1>3, <1>4, <2>1, <2>3, <3>1
    <3> QED
      BY <1>1, <1>5, <2>1, <2>2, <2>3, <3>2, RecordLands
  <2>4. CASE Written(a) /\ staged[t] = Nothing
    <3>1. durable' = durable
      BY <1>3, <1>4, <2>1, <2>4 DEF TypeInv, TypeOK, StorageTypeOK
    <3>2. Written(a)'
      BY <2>1, <2>2, <2>4, <3>1 DEF Written, Holds
    <3> QED
      BY <1>5, <2>1, <3>1, <3>2, DurableUnchanged
  <2> QED
    BY <1>2, <2>3, <2>4
<1>7. CASE FlushTears(a)
  <2>1. /\ Goto(a, "reread") /\ UNCHANGED <<op, arg, next, ram>>
        /\ \A c \in Copies : staged'[c] = Nothing
        /\ \A c \in Copies : durable'[c] = IF staged[c] = Nothing THEN durable[c] ELSE Torn
    BY <1>7 DEF FlushTears
  <2>2. TargetCopy(a)' = t
    BY <2>1 DEF TargetCopy
  <2>3. CASE Based(a) /\ staged[t] = next[a]
    <3>1. next[a] # Nothing
      BY <1>1, <1>2, <2>3, BasedNext
    <3>2. durable'[t] = Torn /\ durable'[Other(t)] = durable[Other(t)]
      BY <1>3, <1>4, <2>1, <2>3, <3>1
    <3>3. CopiesWellFormed' /\ CopiesAreChained' /\ Advances
      BY <1>1, <1>2, <2>3, <3>2, Overwrite
    <3> QED
      BY <1>5, <2>1, <3>2, <3>3
  <2>4. CASE Written(a) /\ staged[t] = Nothing
    <3>1. durable' = durable
      BY <1>3, <1>4, <2>1, <2>4 DEF TypeInv, TypeOK, StorageTypeOK
    <3>2. Written(a)'
      BY <2>1, <2>2, <2>4, <3>1 DEF Written, Holds
    <3> QED
      BY <1>5, <2>1, <3>1, <3>2, DurableUnchanged
  <2> QED
    BY <1>2, <2>3, <2>4
<1>8. CASE FlushFails(a)
  <2>1. Return(a, "io", ram[a]) /\ staged' = [c \in Copies |-> Nothing]
    BY <1>8 DEF FlushFails, Disciplined
  <2>2. CopiesWellFormed' /\ CopiesAreChained' /\ (durable' = durable \/ Advances)
    BY <1>8, Settles DEF FlushFails, Disciplined
  <2>3. \A b \in Actors : pc'[b] = "idle"
    BY <1>1, <2>1, ReturnIdles
  <2>4. ReturnsLatest
    BY <1>4, <2>1 DEF Return, ReturnsLatest
  <2> QED
    BY <2>1, <2>2, <2>3, <2>4, AllIdle DEF Kept
<1> QED
  BY <1>6, <1>7, <1>8 DEF Flush

(* A call returns the activation it wrote only when it reads it back.       *)
LEMMA RereadKeeps ==
  ASSUME IInv, NEW a \in Actors, Reread(a)
  PROVE  Kept
<1>1. pc[a] = "reread" /\ UNCHANGED storageVars /\ TypeInv
  BY IInvTyped DEF Reread
<1>2. Written(a) \/ durable[TargetCopy(a)] = Torn
  BY <1>1 DEF IInv, ProgressKnown
<1>3. PICK v \in {durable[TargetCopy(a)], Fault} :
        \/ \E result : Return(a, result, ram[a])
        \/ /\ Decodes(v)
           /\ Return(a, "ok", [rec |-> next[a], selected_record_copy |-> TargetCopy(a)])
  BY DEF Reread
<1>4. ASSUME NEW result, Return(a, result, ram[a]) PROVE Kept
  BY <1>1, <1>4, ReturnKeeps
<1>5. ASSUME Decodes(v),
             Return(a, "ok", [rec |-> next[a], selected_record_copy |-> TargetCopy(a)])
      PROVE  Kept
  <2>1. Written(a)
    BY <1>2, <1>3, <1>5, Placeholders
  <2>2. Latest = [rec |-> next[a], selected_record_copy |-> TargetCopy(a)]
    BY <1>1, <2>1, Places, HoldsLatest DEF Written
  <2> QED
    BY <1>1, <1>5, <2>2, ReturnKeeps
<1> QED
  BY <1>3, <1>4, <1>5

(* A staged record that becomes durable before its flush is the successor   *)
(* its writer prepared of the latest activation.                            *)
LEMMA LandKeeps ==
  ASSUME IInv, TypeInv', NEW c \in Copies, Land(c)
  PROVE  Kept
<1>1. /\ staged[c] # Nothing
      /\ durable' = [durable EXCEPT ![c] = staged[c]]
      /\ staged' = [staged EXCEPT ![c] = Nothing]
      /\ UNCHANGED <<pc, op, arg, seen, next, ram>>
  BY DEF Land, callVars
<1>2. PICK a \in Actors : pc[a] = "flush" /\ c = TargetCopy(a) /\ staged[c] = next[a]
  BY <1>1 DEF IInv, StagedByFlusher
<1>3. op[a] # "recover" /\ Based(a)
  BY <1>1, <1>2 DEF IInv, ProgressKnown
<1>4. /\ durable \in [Copies -> Copy] /\ staged \in [Copies -> Copy]
      /\ Other(c) \in Copies /\ c # Other(c) /\ \A x \in Copies : x = c \/ x = Other(c)
  BY IInvTyped, <1>2, Places DEF IInv, TypeOK, StorageTypeOK
<1>5. /\ durable'[c] = next[a] /\ durable'[Other(c)] = durable[Other(c)]
      /\ TargetCopy(a)' = c /\ next'[a] = next[a]
  BY <1>1, <1>2, <1>4 DEF TargetCopy
<1>6. CopiesWellFormed' /\ CopiesAreChained' /\ Advances /\ Written(a)'
  BY <1>2, <1>3, <1>5, RecordLands
<1>7. \A x \in Copies : staged'[x] = Nothing
  BY <1>1, <1>2, <1>4 DEF IInv, StagedByFlusher, OneCallRuns
<1>8. \A b \in Actors : pc'[b] # "idle" => b = a
  BY <1>1, <1>2 DEF IInv, OneCallRuns
<1> QED
  BY <1>1, <1>2, <1>3, <1>5, <1>6, <1>7, <1>8
     DEF Kept, OneCallRuns, StagedByFlusher, ReadersAreCurrent, ProgressKnown, ReturnsLatest

(* Decay of the older copy leaves the newer one in place.                  *)
LEMMA RotKeeps ==
  ASSUME IInv, TypeInv', NEW c \in Copies, RotOlder(c)
  PROVE  Kept
<1>1. /\ \A x \in Copies : Decodes(durable[x])
      /\ c # SelectedCopy(durable)
      /\ durable' = [durable EXCEPT ![c] = Torn]
      /\ UNCHANGED <<staged, pc, op, arg, seen, next, ram>>
  BY DEF RotOlder, callVars
<1>2. TypeInv /\ CopiesAreChained /\ CopiesWellFormed /\ durable \in [Copies -> Copy]
  BY IInvTyped DEF IInv, TypeOK, StorageTypeOK
<1> DEFINE n == Other(c)
<1>3. /\ n \in Copies /\ n # c /\ \A x \in Copies : x = c \/ x = n
      /\ Other(n) = c
  BY DEF Copies, Other
<1>4. /\ Holds(n, durable[n])
      /\ \A x \in Copies, r \in Copy : Holds(x, r) => x = n
  <2>1. PICK d \in Copies : Holds(d, durable[d])
    BY <1>1, <1>2, SomeCopyHolds
  <2>2. \A x \in Copies, r \in Copy : Holds(x, r) => x = SelectedCopy(durable)
    BY <1>2, HoldsLatest DEF Holds
  <2> QED
    BY <1>1, <1>2, <1>3, <2>1, <2>2
<1>5. /\ durable'[c] = Torn /\ durable'[n] = durable[n]
      /\ ~Decodes(durable'[c]) /\ Decodes(durable'[n])
  BY <1>1, <1>2, <1>3, Placeholders
<1>6. CopiesWellFormed' /\ CopiesAreChained'
  BY <1>3, <1>5 DEF CopiesWellFormed, CopiesAreChained
<1>7. Latest' = Latest
  <2>1. durable' \in [Copies -> Copy]
    BY DEF TypeInv, TypeOK, StorageTypeOK
  <2>2. Latest' = [rec |-> durable[n], selected_record_copy |-> n]
    BY <1>3, <1>5, <2>1, Selects DEF Latest
  <2> QED
    BY <1>2, <1>3, <1>4, <2>2, HoldsLatest
<1>8. \A x \in Copies, r \in Copy : Holds(x, r) => durable'[x] = r /\ ~Decodes(durable'[Other(x)])
  BY <1>3, <1>4, <1>5 DEF Holds
<1>9. ASSUME NEW b \in Actors, pc[b] = "read1"
      PROVE  \/ seen[b] = durable'[0]
             \/ seen[b] = Fault /\ op[b] # "bootstrap"
             \/ /\ Decodes(seen[b]) /\ Decodes(durable'[1])
                /\ durable'[0] = Torn /\ durable'[1] \in Successors(seen[b])
  <2>1. ~Decodes(Torn)
    BY Placeholders
  <2>2. CASE seen[b] = durable[0] /\ c = 0
    BY <1>1, <1>3, <1>4, <1>5, <2>2 DEF Holds, Other
  <2>3. CASE seen[b] = durable[0] /\ c = 1
    BY <1>5, <2>3 DEF Other
  <2> QED
    BY <1>1, <1>9, <2>1, <2>2, <2>3 DEF IInv, ReadersAreCurrent, Copies
<1>10. ReadersAreCurrent'
  BY <1>1, <1>9 DEF ReadersAreCurrent
<1>11. ASSUME NEW b \in Actors, pc[b] # "idle", Based(b) PROVE Based(b)'
  <2>1. op[b] # "bootstrap"
    BY <1>1, <1>11, Placeholders DEF Based, Copies
  <2>2. ram[b].selected_record_copy \in Copies /\ ram[b].rec \in Copy
    BY <1>2, Places
  <2> QED
    BY <1>1, <1>8, <1>11, <2>1, <2>2 DEF Based, Holds
<1>12. ASSUME NEW b \in Actors, Written(b) PROVE Written(b)'
  BY <1>1, <1>2, <1>8, <1>12, Places DEF Written, Holds, TargetCopy
<1>13. ProgressKnown'
  <2>1. \A b \in Actors : durable[TargetCopy(b)] # Torn
    BY <1>1, <1>2, Places, Placeholders
  <2> QED
    BY <1>1, <1>11, <1>12, <2>1 DEF ProgressKnown, IInv, TargetCopy
<1> QED
  BY <1>1, <1>6, <1>7, <1>10, <1>13
     DEF Kept, IInv, OneCallRuns, StagedByFlusher, TargetCopy, Advances, ReturnsLatest

(* Power loss forgets what is in memory and leaves the durable copies.      *)
LEMMA CrashKeeps ==
  ASSUME IInv, TypeInv', Crash
  PROVE  Kept
<1>1. CopiesWellFormed' /\ CopiesAreChained' /\ (durable' = durable \/ Advances)
  BY Settles DEF Crash
<1>2. /\ \A b \in Actors : pc'[b] = "idle" /\ ram'[b] = NoState
      /\ \A c \in Copies : staged'[c] = Nothing
  BY DEF Crash
<1> QED
  BY <1>1, <1>2, AllIdle DEF Kept, ReturnsLatest

-----------------------------------------------------------------------------
(* The theorems.                                                           *)

(* A blank device satisfies the invariant.                                  *)
LEMMA InitIInv == Init => IInv
<1> SUFFICES ASSUME Init PROVE IInv
  OBVIOUS
<1>1. TypeInv
  BY TypeInvInit
<1>2. OneCallRuns /\ StagedByFlusher /\ ReadersAreCurrent /\ ProgressKnown
  BY DEF Init, OneCallRuns, StagedByFlusher, ReadersAreCurrent, ProgressKnown
<1>3. CopiesWellFormed /\ CopiesAreChained
  BY Placeholders DEF Init, CopiesWellFormed, CopiesAreChained, Copies
<1> QED
  BY <1>1, <1>2, <1>3 DEF IInv, TypeInv

(* Every step keeps the invariant, advances the journal by at most one     *)
(* activation and returns no stale state.                                  *)
LEMMA EveryStep ==
  Disciplined /\ IInv /\ [Next]_vars => IInv' /\ [Advances]_durable /\ [ReturnsLatest]_vars
<1> SUFFICES ASSUME Disciplined, IInv, [Next]_vars
             PROVE  IInv' /\ [Advances]_durable /\ [ReturnsLatest]_vars
  OBVIOUS
<1>1. TypeInv'
  BY IInvTyped, TypeInvStep
<1>2. Kept
  <2>1. ASSUME NEW a \in Actors, NEW o \in Ops, NEW x \in Inputs(o), Begin(a, o, x) PROVE Kept
    BY <2>1, BeginKeeps
  <2>2. ASSUME NEW a \in Actors, NEW o \in Ops, NEW x \in Inputs(o), Refuse(a, o, x) PROVE Kept
    BY <2>2, RefuseKeeps DEF Refuse
  <2>3. ASSUME NEW a \in Actors, Step(a) PROVE Kept
    BY <1>1, <2>3, ReadFirstKeeps, ReadSecondKeeps, WriteKeeps, FlushKeeps, RereadKeeps DEF Step
  <2>4. ASSUME NEW c \in Copies, Land(c) \/ RotOlder(c) PROVE Kept
    BY <1>1, <2>4, LandKeeps, RotKeeps
  <2>5. CASE Crash
    BY <1>1, <2>5, CrashKeeps
  <2>6. CASE UNCHANGED vars
    BY <2>6, RefuseKeeps DEF vars
  <2> QED
    BY <2>1, <2>2, <2>3, <2>4, <2>5, <2>6 DEF Next
<1> QED
  BY <1>1, <1>2 DEF Kept, IInv, TypeInv

(* The inductive invariant holds of every run of a disciplined host.       *)
THEOREM InvariantHolds ==
  ASSUME Disciplined PROVE Spec => []IInv
<1>1. IInv /\ [Next]_vars => IInv'
  BY EveryStep
<1> QED
  BY <1>1, InitIInv, PTL DEF Spec

(* The two copies never contradict each other.                             *)
THEOREM CopiesStayChained ==
  ASSUME Disciplined PROVE Spec => []CopiesAreChained
<1>1. IInv => CopiesAreChained
  BY DEF IInv
<1> QED
  BY <1>1, InvariantHolds, PTL

(* A call about to write works from the latest durable activation and      *)
(* spares the copy that holds it.                                          *)
THEOREM WritersStayCurrent ==
  ASSUME Disciplined PROVE Spec => []WritersAreCurrent
<1>1. ASSUME IInv PROVE WritersAreCurrent
  <2>1. ASSUME NEW a \in Actors, pc[a] = "write", op[a] # "bootstrap"
        PROVE  /\ ram[a] = Latest
               /\ next[a] \in Successors(Latest.rec)
               /\ TargetCopy(a) # SelectedCopy(durable)
    <3>1. Based(a) /\ TypeInv
      BY <1>1, <2>1, IInvTyped DEF IInv, ProgressKnown
    <3>2. /\ Holds(ram[a].selected_record_copy, ram[a].rec)
          /\ next[a] \in Successors(ram[a].rec)
          /\ ram[a].selected_record_copy \in Copies
      BY <2>1, <3>1, Places DEF Based
    <3>3. /\ Latest = [rec |-> ram[a].rec, selected_record_copy |-> ram[a].selected_record_copy]
          /\ SelectedCopy(durable) = ram[a].selected_record_copy
      BY <3>1, <3>2, HoldsLatest DEF Holds
    <3>4. ram[a] = Latest
      BY <3>1, <3>3 DEF TypeInv, TypeOK, CallTypeOK, State
    <3> QED
      BY <2>1, <3>1, <3>2, <3>3, <3>4, Places
  <2>2. ASSUME NEW a \in Actors, pc[a] = "write", op[a] = "bootstrap"
        PROVE  \A c \in Copies : durable[c] = Blank
    BY <1>1, <2>2 DEF IInv, ProgressKnown, Based
  <2> QED
    BY <2>1, <2>2 DEF WritersAreCurrent
<1> QED
  BY <1>1, InvariantHolds, PTL

(* Durable activations move forward by one legal activation at a time.     *)
THEOREM JournalAdvances ==
  ASSUME Disciplined PROVE Spec => DurableOnlyAdvances
<1>1. IInv /\ [Next]_vars => [Advances]_durable
  BY EveryStep
<1> QED
  BY <1>1, InvariantHolds, PTL DEF Spec, DurableOnlyAdvances

(* Every state handed to a caller is the latest durable one.               *)
THEOREM CallersGetLatest ==
  ASSUME Disciplined PROVE Spec => ReturnedStateIsLatest
<1>1. IInv /\ [Next]_vars => [ReturnsLatest]_vars
  BY EveryStep
<1> QED
  BY <1>1, InvariantHolds, PTL DEF Spec, ReturnedStateIsLatest

-----------------------------------------------------------------------------
(* The journal implements the atomic register.                             *)

(* What is latest is an intact record, or nothing.                         *)
LEMMA LatestIntact ==
  ASSUME IInv, Latest # NoState
  PROVE  Latest.rec \in Copy /\ Decodes(Latest.rec)
<1>1. PICK d \in Copies : Decodes(durable[d])
  BY NothingRecovered
<1>2. PICK c \in Copies : Holds(c, durable[c])
  BY <1>1, SomeCopyHolds DEF IInv
<1> QED
  BY <1>2, IInvTyped, HoldsLatest DEF Holds, IInv, TypeOK, StorageTypeOK

(* A record that becomes the latest is one legal step of the register.      *)
LEMMA AdvanceIsRegisterStep ==
  ASSUME IInv, Advances
  PROVE  Register!Next \/ UNCHANGED Register!vars
<1>1. CASE Latest' = Latest
  BY <1>1 DEF Register!vars
<1>2. CASE Latest = NoState /\ \E s \in Slots, d \in Digests : Latest'.rec = Genesis(s, d)
  <2>1. Register!Provision
    BY <1>2 DEF Register!Provision, NoState, Nothing, Void, Genesis, Slots
  <2> QED
    BY <2>1 DEF Register!Next
<1>3. CASE Latest # NoState /\ Latest'.rec \in Successors(Latest.rec)
  <2> DEFINE r == Latest.rec
  <2>1. r \in Copy /\ Decodes(r)
    BY <1>3, LatestIntact
  <2>2. CASE r.rollback /\ Latest'.rec = Accepted(r)
    <3>1. Register!Accept
      BY <2>1, <2>2 DEF Register!Accept, Accepted, Decodes
    <3> QED
      BY <3>1 DEF Register!Next
  <2>3. CASE r.rollback /\ Latest'.rec = RolledBack(r)
    <3>1. r.previous = 1 - r.active
      BY <2>1 DEF Decodes, Copy, Slots
    <3>2. Register!Rollback
      BY <2>1, <2>3, <3>1 DEF Register!Rollback, RolledBack, Decodes
    <3> QED
      BY <3>2 DEF Register!Next
  <2>4. CASE ~r.rollback /\ \E d \in Digests : Latest'.rec = Activated(r, Other(r.active), d)
    <3>1. Register!Activate
      BY <2>1, <2>4 DEF Register!Activate, Activated, Other, Decodes
    <3> QED
      BY <3>1 DEF Register!Next
  <2> QED
    BY <1>3, <2>1, <2>2, <2>3, <2>4 DEF Successors, Copy
<1> QED
  BY <1>1, <1>2, <1>3 DEF Advances

(* Crashes, errors and torn records included, what the two copies and five *)
(* calls amount to is one atomic register of the served image.             *)
THEOREM JournalImplementsRegister ==
  ASSUME Disciplined PROVE Spec => ImplementsRegister
<1>1. Init => Register!Init
  <2> SUFFICES ASSUME Init PROVE Register!Init
    OBVIOUS
  <2>1. \A c \in Copies : ~Decodes(durable[c])
    BY Placeholders DEF Init
  <2>2. Latest = NoState
    BY <2>1, NothingRecovered
  <2> QED
    BY <2>2 DEF Register!Init, NoState, Nothing, Void
<1>2. IInv /\ [Next]_vars => [Register!Next]_(Register!vars)
  <2> SUFFICES ASSUME IInv, [Next]_vars PROVE [Register!Next]_(Register!vars)
    OBVIOUS
  <2>1. CASE durable' = durable
    BY <2>1, DurableUnchanged DEF Register!vars
  <2>2. CASE Advances
    BY <2>2, AdvanceIsRegisterStep
  <2> QED
    BY <2>1, <2>2, EveryStep
<1> QED
  BY <1>1, <1>2, InvariantHolds, PTL DEF Spec, ImplementsRegister, Register!Spec

-----------------------------------------------------------------------------
(***************************************************************************)
(* One updater never lets a partial image become active, and never touches *)
(* the image a rollback returns to, under the contract the journal needs.  *)
(***************************************************************************)

(* The device has one updater: job and RAM state of a second one would be  *)
(* stale as soon as the first commits.                                     *)
OneUpdater == \A a, b \in Actors : a = b

-----------------------------------------------------------------------------
(* What a step of the journal does to the latest activation.               *)

(* A copy changes only to the record a call is writing, or to a torn one.  *)
LEMMA CopiesComeFromWriters ==
  ASSUME IInv, Disciplined, [Next]_vars, NEW c \in Copies, durable'[c] # durable[c], durable'[c] # Torn
  PROVE  \E a \in Actors : pc[a] \in {"write", "flush"} /\ durable'[c] = next[a]
<1>1. /\ durable \in [Copies -> Copy] /\ \A x \in Copies : x = 0 \/ x = 1
      /\ \A x \in Copies : staged[x] # Nothing =>
           \E a \in Actors : pc[a] = "flush" /\ staged[x] = next[a]
  BY DEF IInv, TypeOK, StorageTypeOK, Copies, StagedByFlusher
<1>2. ASSUME NEW a \in Actors, WriteFails(a), pc[a] = "write"
      PROVE  durable'[c] = next[a]
  BY <1>1, <1>2 DEF WriteFails, Outcomes, Disciplined
<1>3. ASSUME NEW v0 \in Outcomes(0, staged[0]), NEW v1 \in Outcomes(1, staged[1]),
             durable' = Pair(v0, v1)
      PROVE  durable'[c] = staged[c] /\ staged[c] # Nothing
  <2>1. durable'[c] \in Outcomes(c, staged[c])
    BY <1>1, <1>3 DEF Pair
  <2> QED
    BY <2>1 DEF Outcomes
<1>4. ASSUME NEW a \in Actors, Step(a)
      PROVE  \/ WriteFails(a) /\ pc[a] = "write"
             \/ durable'[c] = staged[c] /\ staged[c] # Nothing
  <2>1. CASE ReadFirst(a) \/ ReadSecond(a) \/ Reread(a)
    BY <2>1 DEF ReadFirst, ReadSecond, Reread, storageVars
  <2>2. CASE Write(a)
    BY <2>2 DEF Write, WriteSucceeds
  <2>3. CASE FlushSucceeds(a) \/ FlushTears(a)
    BY <2>3 DEF FlushSucceeds, FlushTears
  <2>4. CASE FlushFails(a)
    BY <2>4, <1>3 DEF FlushFails, Disciplined
  <2> QED
    BY <1>4, <2>1, <2>2, <2>3, <2>4 DEF Step, Flush
<1>5. ASSUME NEW x \in Copies, Land(x) \/ RotOlder(x)
      PROVE  durable'[c] = staged[c] /\ staged[c] # Nothing
  BY <1>1, <1>5 DEF Land, RotOlder
<1>6. ASSUME Crash PROVE durable'[c] = staged[c] /\ staged[c] # Nothing
  BY <1>3, <1>6 DEF Crash
<1>7. ASSUME NEW a \in Actors, NEW o, NEW x, Begin(a, o, x) \/ Refuse(a, o, x) PROVE FALSE
  BY <1>7 DEF Begin, Refuse
<1> QED
  BY <1>1, <1>2, <1>4, <1>5, <1>6, <1>7 DEF Next, vars

(* A record already durable does not become the latest by itself: of two   *)
(* intact copies the newer one is the latest.                              *)
LEMMA OldCopyIsNotNewer ==
  ASSUME IInv, NEW c \in Copies, Decodes(durable[c])
  PROVE  Latest # NoState /\ durable[c] \notin Successors(Latest.rec)
<1>1. durable \in [Copies -> Copy] /\ \A x \in Copies : durable[x] \in Copy
  BY DEF IInv, TypeOK, StorageTypeOK
<1>2. PICK d \in Copies : Holds(d, durable[d])
  BY SomeCopyHolds DEF IInv
<1>3. Latest # NoState /\ Latest.rec = durable[d]
  BY <1>2, IInvTyped, HoldsLatest
<1>4. CASE c = d
  BY <1>1, <1>3, <1>4, SuccessorIsNewer DEF Copy
<1>5. CASE c # d
  <2>1. c = Other(d)
    BY <1>5 DEF Other, Copies
  <2>2. durable[d].generation > durable[c].generation
    BY <1>1, <1>2, <2>1, SuccessorIsNewer DEF Holds
  <2>3. durable[c] \in Successors(durable[d]) => durable[c].generation > durable[d].generation
    BY <1>1, SuccessorIsNewer
  <2>4. durable[c].generation \in Nat /\ durable[d].generation \in Nat
    BY <1>1, RecordAssumption DEF Copy
  <2> QED
    BY <1>3, <2>2, <2>3, <2>4
<1> QED
  BY <1>4, <1>5

(* Only a call that writes moves the latest activation, and only to the    *)
(* record it prepared from the latest.                                     *)
LEMMA LatestMoves ==
  ASSUME IInv, Disciplined, [Next]_vars, Latest' # Latest
  PROVE  \E a \in Actors : /\ pc[a] \in {"write", "flush"} /\ op[a] # "recover"
                           /\ Latest'.rec = next[a]
                           /\ Based(a)
<1>1. Advances /\ IInv'
  BY EveryStep DEF Latest
<1>2. Latest' # NoState
  <2>1. CASE Latest = NoState
    BY <1>1, <2>1
  <2>2. CASE Latest # NoState /\ Latest'.rec \in Successors(Latest.rec)
    <3>1. Latest'.rec.kind = "record"
      BY <2>2, LatestIntact DEF Successors, Accepted, RolledBack, Activated, Decodes
    <3> QED
      BY <3>1 DEF NoState, Nothing, Void
  <2> QED
    BY <1>1, <2>1, <2>2 DEF Advances
<1>3. PICK c \in Copies : Latest'.rec = durable'[c] /\ Decodes(durable'[c])
  <2>1. RecoverStatus(durable') = "ok" /\ SelectedCopy(durable') \in Copies
    BY <1>2 DEF Latest, Recovered, SelectedCopy, Copies
  <2>2. Latest'.rec = durable'[SelectedCopy(durable')]
    BY <2>1 DEF Latest, Recovered
  <2>3. Decodes(durable'[SelectedCopy(durable')])
    BY <2>1 DEF RecoverStatus, SelectedCopy, Copies
  <2> QED
    BY <2>1, <2>2, <2>3
<1>4. durable'[c] # Torn
  BY <1>3, Placeholders
<1>5. durable'[c] # durable[c]
  BY <1>1, <1>3, OldCopyIsNotNewer DEF Advances
<1>6. PICK a \in Actors : pc[a] \in {"write", "flush"} /\ durable'[c] = next[a]
  BY <1>4, <1>5, CopiesComeFromWriters
<1>7. op[a] # "recover" /\ (Based(a) \/ Written(a))
  BY <1>6 DEF IInv, ProgressKnown
<1>8. ~Written(a)
  <2>1. ASSUME Written(a) PROVE FALSE
    <3>1. Decodes(durable[TargetCopy(a)]) /\ TargetCopy(a) \in Copies
      BY <2>1, IInvTyped, Places DEF Written, Holds
    <3>2. Latest.rec = next[a] /\ Latest # NoState
      BY <2>1, <3>1, IInvTyped, HoldsLatest DEF Written
    <3>3. next[a] \in Successors(next[a])
      BY <1>1, <1>3, <1>6, <3>2 DEF Advances
    <3>4. next[a] \in Copy /\ next[a].generation \in Nat
      BY IInvTyped, Places, RecordAssumption DEF Copy
    <3> QED
      BY <3>3, <3>4, SuccessorIsNewer
  <2> QED
    BY <2>1
<1> QED
  BY <1>3, <1>6, <1>7, <1>8

(* While no call writes, the latest activation stays.                      *)
LEMMA LatestStays ==
  ASSUME IInv, Disciplined, [Next]_vars, \A a \in Actors : pc[a] \notin {"write", "flush"}
  PROVE  Latest' = Latest
BY LatestMoves

(* A call that ends with status OK leaves its caller the latest activation. *)
LEMMA OkIsLatest ==
  ASSUME IInv, Disciplined, NEW a \in Actors, Step(a), pc'[a] = "idle", status'[a] = "ok"
  PROVE  ram'[a] = Latest'
<1>1. /\ pc \in [Actors -> Stages] /\ status \in [Actors -> Statuses] /\ ram \in [Actors -> State]
      /\ \A result, st : Return(a, result, st) => status'[a] = result /\ ram'[a] = st
  BY DEF IInv, TypeOK, CallTypeOK, Return
<1>2. CASE ReadFirst(a)
  BY <1>1, <1>2 DEF ReadFirst, Goto
<1>3. CASE ReadSecond(a)
  <2>1. PICK v \in {durable[1], Fault} :
          /\ SecondReading(a, v)
          /\ IF op[a] = "recover" THEN DecideRecover(a, Pair(seen[a], v))
             ELSE IF op[a] = "bootstrap" THEN DecideBootstrap(a, Pair(seen[a], v))
             ELSE DecideUpdate(a, Pair(seen[a], v))
    BY <1>3 DEF ReadSecond
  <2>2. pc[a] = "read1" /\ durable' = durable
    BY <1>3 DEF ReadSecond, storageVars
  <2>3. CASE op[a] = "recover"
    <3>1. RecoverStatus(Pair(seen[a], v)) = "ok" /\ ram'[a] = Recovered(Pair(seen[a], v))
      BY <1>1, <2>1, <2>3 DEF DecideRecover
    <3> QED
      BY <2>1, <2>2, <2>3, <3>1, RefreshIsLatest, DurableUnchanged
  <2>4. CASE op[a] = "bootstrap"
    BY <1>1, <2>1, <2>4 DEF DecideBootstrap, Proceed, Goto
  <2>5. CASE op[a] \notin {"recover", "bootstrap"}
    BY <1>1, <2>1, <2>5 DEF DecideUpdate, Proceed, Goto
  <2> QED
    BY <2>3, <2>4, <2>5
<1>4. CASE Write(a)
  BY <1>1, <1>4 DEF Write, WriteSucceeds, WriteFails, Goto
<1>5. CASE Flush(a)
  BY <1>1, <1>5 DEF Flush, FlushSucceeds, FlushTears, FlushFails, Goto
<1>6. CASE Reread(a)
  <2>1. PICK v \in {durable[TargetCopy(a)], Fault} :
          /\ Decodes(v) /\ v = next[a]
          /\ ram'[a] = [rec |-> next[a], selected_record_copy |-> TargetCopy(a)]
    BY <1>1, <1>6 DEF Reread
  <2>2. pc[a] = "reread" /\ durable' = durable
    BY <1>6 DEF Reread, storageVars
  <2>3. v = durable[TargetCopy(a)] /\ durable[TargetCopy(a)] # Torn
    BY <2>1, Placeholders
  <2>4. Written(a)
    BY <2>2, <2>3 DEF IInv, ProgressKnown
  <2>5. Latest = ram'[a]
    BY <2>1, <2>4, IInvTyped, Places, HoldsLatest DEF Written
  <2> QED
    BY <2>2, <2>5, DurableUnchanged
<1> QED
  BY <1>2, <1>3, <1>4, <1>5, <1>6 DEF Step

(* A call that goes on keeps what it was asked and the state it started    *)
(* from; a commit that starts to write writes the activation asked for.    *)
LEMMA CallGoesOn ==
  ASSUME IInv, NEW a \in Actors, Step(a), pc'[a] # "idle"
  PROVE  /\ op' = op /\ arg' = arg /\ ram' = ram
         /\ \/ pc'[a] = "read1"
            \/ pc[a] \in {"write", "flush"} /\ next' = next
            \/ op[a] = "commit" => next'[a] = Activated(ram[a].rec, arg[a].slot, arg[a].digest)
<1>1. /\ pc \in [Actors -> Stages] /\ next \in [Actors -> Copy]
      /\ \A result, st : ~Return(a, result, st)
  BY DEF IInv, TypeOK, CallTypeOK, Return, Goto
<1>2. CASE ReadFirst(a)
  BY <1>1, <1>2 DEF ReadFirst, Goto
<1>3. CASE ReadSecond(a)
  <2>1. PICK v \in {durable[1], Fault} :
             IF op[a] = "recover" THEN DecideRecover(a, Pair(seen[a], v))
             ELSE IF op[a] = "bootstrap" THEN DecideBootstrap(a, Pair(seen[a], v))
             ELSE DecideUpdate(a, Pair(seen[a], v))
    BY <1>3 DEF ReadSecond
  <2>2. PICK r : /\ Proceed(a, r)
                 /\ op[a] = "commit" => r = NextRecord(a, ram[a].rec)
    BY <1>1, <2>1 DEF DecideRecover, DecideBootstrap, DecideUpdate
  <2> QED
    BY <1>1, <2>2 DEF Proceed, NextRecord
<1>4. CASE Write(a)
  BY <1>1, <1>4 DEF Write, WriteSucceeds, WriteFails
<1>5. CASE Flush(a)
  BY <1>1, <1>5 DEF Flush, FlushSucceeds, FlushTears, FlushFails
<1>6. CASE Reread(a)
  BY <1>1, <1>6 DEF Reread
<1> QED
  BY <1>2, <1>3, <1>4, <1>5, <1>6 DEF Step

-----------------------------------------------------------------------------
(* The images.                                                             *)

(* As long as no image is touched, whatever becomes the latest activation  *)
(* names complete images: a first one and a commit name what their caller  *)
(* had in place, an accept and a rollback what was already served or       *)
(* retained.                                                               *)
LEMMA ActivationsNameImages ==
  ASSUME IInv, UpdateIInv, Disciplined, [Next]_vars, image' = image
  PROVE  ActiveImageComplete' /\ RetainedImageIntact'
<1>1. CASE Latest' = Latest
  BY <1>1 DEF UpdateIInv, ActiveImageComplete, RetainedImageIntact
<1>2. CASE Latest' # Latest
  <2>1. PICK a \in Actors : /\ pc[a] \in {"write", "flush"} /\ op[a] # "recover"
                            /\ Latest'.rec = next[a]
                            /\ Based(a)
    BY <1>2, LatestMoves
  <2>2. /\ op[a] \in Ops /\ ~Invalid(op[a], ram[a], arg[a])
        /\ ram[a].rec \in Copy /\ ram[a].selected_record_copy \in Copies
    BY <2>1, IInvTyped, Places DEF IInv, CallsAdmitted, Admission
  <2>3. CASE op[a] = "bootstrap"
    BY <2>1, <2>3 DEF Based, Genesis, UpdateIInv, NamedImagesComplete,
                      ActiveImageComplete, RetainedImageIntact
  <2>4. CASE op[a] \in Updates
    <3>1. /\ Holds(ram[a].selected_record_copy, ram[a].rec)
          /\ next[a] \in Successors(ram[a].rec)
      BY <2>1, <2>4 DEF Based, Updates
    <3>2. Latest # NoState /\ Latest.rec = ram[a].rec
      BY <2>2, <3>1, IInvTyped, HoldsLatest DEF Holds
    <3>3. CASE op[a] = "commit"
      <4>1. Latest'.rec = Activated(Latest.rec, arg[a].slot, arg[a].digest)
        BY <2>1, <3>2, <3>3 DEF UpdateIInv, CommitsAsAsked
      <4>2. /\ Latest'.rec.active = arg[a].slot /\ Latest'.rec.active_digest = arg[a].digest
            /\ Latest'.rec.previous = Latest.rec.active
            /\ Latest'.rec.previous_digest = Latest.rec.active_digest
        BY <4>1 DEF Activated
      <4>3. image[arg[a].slot] = arg[a].digest
        BY <2>1, <3>3 DEF UpdateIInv, NamedImagesComplete
      <4> QED
        BY <3>2, <4>2, <4>3 DEF UpdateIInv, ActiveImageComplete, RetainedImageIntact
    <3>4. CASE op[a] # "commit"
      <4>1. ram[a].rec.rollback
        BY <2>2, <2>4, <3>4 DEF Invalid, Updates
      <4> QED
        BY <2>1, <3>1, <3>2, <4>1 DEF Successors, Accepted, RolledBack, UpdateIInv,
                                      ActiveImageComplete, RetainedImageIntact
    <3> QED
      BY <3>3, <3>4
  <2> QED
    BY <2>1, <2>2, <2>3, <2>4 DEF Ops
<1> QED
  BY <1>1, <1>2

(* The sequence calls the journal as any host does.                        *)
LEMMA SequenceStepsAreJournalSteps ==
  ASSUME UpdateTypeOK, [UpdateNext]_allVars
  PROVE  [Next]_vars
<1>1. ASSUME NEW a \in Actors, Stage(a) PROVE UNCHANGED vars
  BY <1>1 DEF Stage, BeginUpdate, StartImage, ValidateImage, AbandonImage
<1>2. ASSUME NEW a \in Actors, Call(a) PROVE \E o \in Ops : \E x \in Inputs(o) : Begin(a, o, x)
  <2>1. NoArgs \in Inputs("accept") /\ NoArgs \in Inputs("rollback") /\ NoArgs \in Inputs("recover")
        /\ Ops = {"commit", "accept", "rollback", "recover", "bootstrap"}
    BY DEF Inputs, Ops, Updates
  <2>2. /\ [slot |-> job[a].slot, digest |-> job[a].digest] \in Inputs("commit")
        /\ \A s \in Slots : [slot |-> s, digest |-> image[s]] \in Inputs("bootstrap")
    BY DEF UpdateTypeOK, Inputs, Args
  <2> QED
    BY <1>2, <2>1, <2>2 DEF Call, CommitCandidate, ProvisionFactory, AcceptRelease,
                            RollbackRelease, RecoverState
<1> QED
  BY <1>1, <1>2 DEF UpdateNext, Proceeding, Device, PowerLoss, Next, allVars

-----------------------------------------------------------------------------
(* The invariant of the sequence.                                          *)

(* The factory image is there and nobody knows anything yet.               *)
LEMMA UpdateInitIInv == UpdateInit => UpdateIInv
<1> SUFFICES ASSUME UpdateInit PROVE UpdateIInv
  OBVIOUS
<1>1. Latest = NoState
  <2>1. \A c \in Copies : ~Decodes(durable[c])
    BY Placeholders DEF UpdateInit, Init
  <2> QED
    BY <2>1, NothingRecovered
<1>2. UpdateTypeOK
  BY DEF UpdateInit, UpdateTypeOK, NoJob, Slots
<1>3. TrustedIsLatest /\ StagingIsAside /\ NamedImagesComplete /\ CommitsAsAsked
  BY DEF UpdateInit, Init, NoJob, TrustedIsLatest, StagingIsAside, NamedImagesComplete, CommitsAsAsked
<1> QED
  BY <1>1, <1>2, <1>3 DEF UpdateIInv, ActiveImageComplete, RetainedImageIntact

(* The steps keep the types.                                               *)
LEMMA UpdateTypesKept ==
  ASSUME IInv, UpdateTypeOK, [UpdateNext]_allVars
  PROVE  UpdateTypeOK'
<1> USE DEF UpdateTypeOK
<1>1. ASSUME NEW a \in Actors, BeginUpdate(a) PROVE UpdateTypeOK'
  <2>1. Other(ram[a].rec.active) \in Slots
    BY DEF IInv, TypeOK, CallTypeOK, State, Copy, Slots, Other
  <2> QED
    BY <1>1, <2>1 DEF BeginUpdate, CandidateSlot
<1>2. ASSUME NEW a \in Actors, StartImage(a) PROVE UpdateTypeOK'
  <2>1. PICK d \in Digests : job' = [job EXCEPT ![a] = [@ EXCEPT !.phase = "writing", !.digest = d]]
    BY <1>2 DEF StartImage
  <2>2. [job[a] EXCEPT !.phase = "writing", !.digest = d] \in
          [phase: {"none", "chosen", "writing", "validated"}, slot: Slots,
           digest: Digests \union {NoDigest}]
    OBVIOUS
  <2>3. job' = [job EXCEPT ![a] = [job[a] EXCEPT !.phase = "writing", !.digest = d]]
    BY <2>1
  <2>4. UNCHANGED trusted /\ image' = [image EXCEPT ![job[a].slot] = NoDigest]
    BY <1>2 DEF StartImage
  <2> QED
    BY <2>2, <2>3, <2>4
<1>3. ASSUME NEW a \in Actors, ValidateImage(a) PROVE UpdateTypeOK'
  <2>1. [job[a] EXCEPT !.phase = "validated"] \in
          [phase: {"none", "chosen", "writing", "validated"}, slot: Slots,
           digest: Digests \union {NoDigest}]
    OBVIOUS
  <2>2. job' = [job EXCEPT ![a] = [job[a] EXCEPT !.phase = "validated"]]
    BY <1>3 DEF ValidateImage
  <2>3. UNCHANGED trusted /\ image' = [image EXCEPT ![job[a].slot] = job[a].digest]
    BY <1>3 DEF ValidateImage
  <2> QED
    BY <2>1, <2>2, <2>3
<1>4. NoJob \in [phase: {"none", "chosen", "writing", "validated"}, slot: Slots,
                  digest: Digests \union {NoDigest}]
  BY DEF NoJob, Slots
<1>5. ASSUME NEW a \in Actors, AbandonImage(a) \/ Call(a) PROVE UpdateTypeOK'
  BY <1>4, <1>5 DEF AbandonImage, Call, updateVars
<1>6. ASSUME NEW a \in Actors, Proceeding(a) PROVE UpdateTypeOK'
  <2>1. image' = image /\ (job' = job \/ job' = [job EXCEPT ![a] = NoJob])
    BY <1>6 DEF Proceeding
  <2>2. trusted' = trusted \/ \E t \in BOOLEAN : trusted' = [trusted EXCEPT ![a] = t]
    BY <1>6 DEF Proceeding
  <2> QED
    BY <1>4, <2>1, <2>2
<1>7. ASSUME Device PROVE UpdateTypeOK'
  BY <1>7 DEF Device, updateVars
<1>8. ASSUME PowerLoss PROVE UpdateTypeOK'
  BY <1>4, <1>8 DEF PowerLoss
<1>9. CASE UNCHANGED allVars
  BY <1>9 DEF allVars
<1> QED
  BY <1>1, <1>2, <1>3, <1>5, <1>6, <1>7, <1>8, <1>9 DEF UpdateNext, Stage

(* Staging touches one slot, and not while that slot is active or retained. *)
LEMMA StagingKeeps ==
  ASSUME IInv, UpdateIInv, OneUpdater, NEW a \in Actors, Stage(a), UpdateTypeOK'
  PROVE  UpdateIInv'
<1>1. UNCHANGED vars /\ Latest' = Latest /\ \A b \in Actors : b = a
  BY DEF Stage, BeginUpdate, StartImage, ValidateImage, AbandonImage, OneUpdater, vars, Latest
<1>2. UNCHANGED <<pc, op, arg, next, ram>>
  BY <1>1 DEF vars
<1>3. UpdateTypeOK /\ trusted' = trusted
  BY DEF UpdateIInv, Stage, BeginUpdate, StartImage, ValidateImage, AbandonImage
<1>4. TrustedIsLatest' /\ CommitsAsAsked'
  BY <1>1, <1>2, <1>3 DEF UpdateIInv, TrustedIsLatest, CommitsAsAsked
<1>5. CASE BeginUpdate(a)
  <2>1. /\ image' = image /\ pc[a] = "idle" /\ trusted[a]
        /\ Decodes(ram[a].rec) /\ ~ram[a].rec.rollback
        /\ job'[a] = [phase |-> "chosen", slot |-> Other(ram[a].rec.active), digest |-> NoDigest]
    BY <1>3, <1>5 DEF BeginUpdate, CandidateSlot, UpdateTypeOK
  <2> QED
    BY <1>1, <1>2, <1>3, <1>4, <2>1
       DEF UpdateIInv, StagingIsAside, NamedImagesComplete, ActiveImageComplete, RetainedImageIntact
<1>6. ASSUME job[a].phase \in {"chosen", "writing"}
      PROVE  /\ pc[a] = "idle" /\ trusted[a]
             /\ Decodes(ram[a].rec) /\ ~ram[a].rec.rollback
             /\ job[a].slot = Other(ram[a].rec.active)
             /\ Latest.rec = ram[a].rec
             /\ job[a].slot # Latest.rec.active
  <2>1. /\ pc[a] = "idle" /\ trusted[a]
        /\ Decodes(ram[a].rec) /\ ~ram[a].rec.rollback
        /\ job[a].slot = Other(ram[a].rec.active)
        /\ Latest = ram[a]
    BY <1>6 DEF UpdateIInv, StagingIsAside, TrustedIsLatest
  <2>2. ram[a].rec.active \in Slots
    BY DEF IInv, TypeOK, CallTypeOK, State, Copy
  <2> QED
    BY <2>1, <2>2 DEF Other, Slots
<1>7. ASSUME StartImage(a) \/ ValidateImage(a),
             NEW phase \in {"writing", "validated"},
             job'[a].phase = phase, job'[a].slot = job[a].slot,
             phase = "validated" => image'[job[a].slot] = job'[a].digest,
             job[a].phase \in {"chosen", "writing"},
             \A s \in Slots : s # job[a].slot => image'[s] = image[s]
      PROVE  UpdateIInv'
  <2>1. StagingIsAside' /\ NamedImagesComplete'
    BY <1>1, <1>2, <1>3, <1>6, <1>7 DEF StagingIsAside, NamedImagesComplete
  <2>2. ActiveImageComplete' /\ RetainedImageIntact'
    <3>1. Latest.rec.active \in Slots
      BY <1>6, <1>7 DEF IInv, TypeOK, CallTypeOK, State, Copy
    <3> QED
      BY <1>1, <1>6, <1>7, <3>1 DEF UpdateIInv, ActiveImageComplete, RetainedImageIntact
  <2> QED
    BY <1>4, <2>1, <2>2 DEF UpdateIInv
<1>8. CASE StartImage(a)
  <2>1. PICK d \in Digests : job' = [job EXCEPT ![a] = [@ EXCEPT !.phase = "writing", !.digest = d]]
    BY <1>8 DEF StartImage
  <2>2. /\ job'[a].phase = "writing" /\ job'[a].slot = job[a].slot
        /\ job[a].phase \in {"chosen", "writing"}
    BY <1>3, <1>8, <2>1 DEF StartImage, UpdateTypeOK
  <2>3. \A s \in Slots : s # job[a].slot => image'[s] = image[s]
    BY <1>3, <1>8 DEF StartImage, UpdateTypeOK
  <2> QED
    BY <1>7, <1>8, <2>2, <2>3
<1>9. CASE ValidateImage(a)
  <2>1. /\ job'[a].phase = "validated" /\ job'[a].slot = job[a].slot
        /\ job'[a].digest = job[a].digest
        /\ job[a].phase \in {"chosen", "writing"}
    BY <1>3, <1>9 DEF ValidateImage, UpdateTypeOK
  <2>2. /\ image'[job[a].slot] = job[a].digest
        /\ \A s \in Slots : s # job[a].slot => image'[s] = image[s]
    BY <1>3, <1>9 DEF ValidateImage, UpdateTypeOK
  <2> QED
    BY <1>7, <1>9, <2>1, <2>2
<1>10. CASE AbandonImage(a)
  <2>1. job'[a] = NoJob /\ image' = image /\ pc[a] = "idle"
    BY <1>3, <1>10 DEF AbandonImage, UpdateTypeOK
  <2> QED
    BY <1>1, <1>2, <1>4, <2>1
       DEF NoJob, UpdateIInv, StagingIsAside, NamedImagesComplete,
           ActiveImageComplete, RetainedImageIntact
<1> QED
  BY <1>5, <1>8, <1>9, <1>10 DEF Stage

(* A call starts from what is in place.                                    *)
LEMMA CallingKeeps ==
  ASSUME IInv, UpdateIInv, Disciplined, OneUpdater, NEW a \in Actors, Call(a), UpdateTypeOK',
         [Next]_vars
  PROVE  UpdateIInv'
<1>1. UNCHANGED updateVars /\ UpdateTypeOK /\ \A b \in Actors : b = a
  BY DEF Call, UpdateIInv, OneUpdater
<1>2. image' = image /\ job' = job /\ trusted' = trusted
  BY <1>1 DEF updateVars
<1>3. PICK o \in Ops, x \in Args :
        /\ Begin(a, o, x)
        /\ job[a].phase \in {"none", "validated"}
        /\ o \in {"commit", "bootstrap"} => image[x.slot] = x.digest
  <2>1. NoArgs \in Args /\ [slot |-> job[a].slot, digest |-> job[a].digest] \in Args
        /\ \A s \in Slots : [slot |-> s, digest |-> image[s]] \in Args
    BY <1>1 DEF NoArgs, Args, Slots, UpdateTypeOK
  <2>2. CASE CommitCandidate(a)
    <3>1. job[a].phase = "validated" /\ image[job[a].slot] = job[a].digest
      BY <2>2 DEF CommitCandidate, UpdateIInv, NamedImagesComplete
    <3> QED
      BY <2>1, <2>2, <3>1 DEF CommitCandidate, Ops, Updates
  <2>3. CASE ProvisionFactory(a)
    <3>1. PICK s \in Slots : Begin(a, "bootstrap", [slot |-> s, digest |-> image[s]])
      BY <2>3 DEF ProvisionFactory
    <3> QED
      BY <2>1, <2>3, <3>1 DEF ProvisionFactory, Ops
  <2>4. CASE AcceptRelease(a) \/ RollbackRelease(a) \/ RecoverState(a)
    BY <2>1, <2>4 DEF AcceptRelease, RollbackRelease, RecoverState, Ops, Updates
  <2> QED
    BY <2>2, <2>3, <2>4 DEF Call
<1>4. /\ pc'[a] = "read0" /\ op'[a] = o /\ arg'[a] = x
  BY <1>3 DEF Begin, Goto, IInv, TypeOK, CallTypeOK
<1>5. TrustedIsLatest' /\ StagingIsAside' /\ CommitsAsAsked'
  BY <1>1, <1>2, <1>3, <1>4 DEF TrustedIsLatest, StagingIsAside, CommitsAsAsked
<1>6. NamedImagesComplete'
  BY <1>1, <1>2, <1>3, <1>4 DEF UpdateIInv, NamedImagesComplete
<1>7. ActiveImageComplete' /\ RetainedImageIntact'
  BY <1>2, ActivationsNameImages
<1> QED
  BY <1>5, <1>6, <1>7 DEF UpdateIInv

(* A callback of the running call.                                         *)
LEMMA ProceedingKeeps ==
  ASSUME IInv, UpdateIInv, Disciplined, OneUpdater, NEW a \in Actors, Proceeding(a),
         UpdateTypeOK', [Next]_vars
  PROVE  UpdateIInv'
<1>1. /\ Step(a) /\ image' = image /\ UpdateTypeOK /\ \A b \in Actors : b = a
      /\ pc[a] # "idle"
  BY DEF Proceeding, UpdateIInv, OneUpdater, Step, ReadFirst, ReadSecond, Write, Flush, Reread
<1>2. ActiveImageComplete' /\ RetainedImageIntact'
  BY <1>1, ActivationsNameImages
<1>3. CASE pc'[a] = "idle"
  <2>1. job'[a] = NoJob /\ trusted'[a] = (status'[a] = "ok")
    BY <1>1, <1>3 DEF Proceeding, UpdateTypeOK
  <2>2. trusted'[a] => ram'[a] = Latest'
    BY <1>1, <1>3, <2>1, OkIsLatest
  <2> QED
    BY <1>1, <1>2, <1>3, <2>1, <2>2
       DEF NoJob, UpdateIInv, TrustedIsLatest, StagingIsAside, NamedImagesComplete, CommitsAsAsked
<1>4. CASE pc'[a] # "idle"
  <2>1. job' = job /\ trusted' = trusted
    BY <1>4 DEF Proceeding
  <2>2. /\ op' = op /\ arg' = arg /\ ram' = ram
        /\ \/ pc'[a] = "read1"
           \/ pc[a] \in {"write", "flush"} /\ next' = next
           \/ op[a] = "commit" => next'[a] = Activated(ram[a].rec, arg[a].slot, arg[a].digest)
    BY <1>1, <1>4, CallGoesOn
  <2>3. CommitsAsAsked'
    BY <1>1, <2>2 DEF UpdateIInv, CommitsAsAsked
  <2> QED
    BY <1>1, <1>2, <1>4, <2>1, <2>2, <2>3
       DEF UpdateIInv, TrustedIsLatest, StagingIsAside, NamedImagesComplete
<1> QED
  BY <1>3, <1>4

(* What the device does by itself.                                         *)
LEMMA DeviceKeeps ==
  ASSUME IInv, UpdateIInv, Disciplined, OneUpdater, Device, UpdateTypeOK', [Next]_vars
  PROVE  UpdateIInv'
<1>1. /\ UNCHANGED updateVars
      /\ UNCHANGED <<pc, op, arg, next, ram>>
  BY DEF Device, Land, RotOlder, callVars
<1>2. image' = image /\ job' = job /\ trusted' = trusted
  BY <1>1 DEF updateVars
<1>3. ActiveImageComplete' /\ RetainedImageIntact'
  BY <1>2, ActivationsNameImages
<1>4. ASSUME NEW a \in Actors, pc[a] = "idle" PROVE Latest' = Latest
  BY <1>4, LatestStays DEF OneUpdater
<1>5. TrustedIsLatest'
  BY <1>1, <1>2, <1>4 DEF UpdateIInv, TrustedIsLatest
<1> QED
  BY <1>1, <1>2, <1>3, <1>5
     DEF UpdateIInv, StagingIsAside, NamedImagesComplete, CommitsAsAsked

(* Power loss ends every job and every call.                               *)
LEMMA PowerLossKeeps ==
  ASSUME IInv, UpdateIInv, Disciplined, PowerLoss, UpdateTypeOK', [Next]_vars
  PROVE  UpdateIInv'
<1>1. /\ image' = image
      /\ \A a \in Actors : pc'[a] = "idle" /\ job'[a] = NoJob /\ ~trusted'[a]
  BY DEF PowerLoss, Crash
<1>2. ActiveImageComplete' /\ RetainedImageIntact'
  BY <1>1, ActivationsNameImages
<1> QED
  BY <1>1, <1>2
     DEF NoJob, UpdateIInv, TrustedIsLatest, StagingIsAside, NamedImagesComplete, CommitsAsAsked

(* Both invariants are kept by every step of the sequence.                 *)
LEMMA UpdateStep ==
  Disciplined /\ OneUpdater /\ IInv /\ UpdateIInv /\ [UpdateNext]_allVars => (IInv /\ UpdateIInv)'
<1> SUFFICES ASSUME Disciplined, OneUpdater, IInv, UpdateIInv, [UpdateNext]_allVars
             PROVE  (IInv /\ UpdateIInv)'
  OBVIOUS
<1>1. UpdateTypeOK /\ [Next]_vars
  BY SequenceStepsAreJournalSteps DEF UpdateIInv
<1>2. IInv' /\ UpdateTypeOK'
  BY <1>1, EveryStep, UpdateTypesKept
<1>3. CASE UNCHANGED allVars
  BY <1>2, <1>3 DEF allVars, vars, UpdateIInv, TrustedIsLatest, StagingIsAside, NamedImagesComplete,
                    CommitsAsAsked, ActiveImageComplete, RetainedImageIntact, Latest
<1> QED
  BY <1>1, <1>2, <1>3, StagingKeeps, CallingKeeps, ProceedingKeeps, DeviceKeeps, PowerLossKeeps
     DEF UpdateNext

(* What the sequence keeps, for one updater and a disciplined device.      *)
THEOREM SequenceInvariant ==
  ASSUME Disciplined, OneUpdater PROVE UpdateSpec => [](IInv /\ UpdateIInv)
<1>1. UpdateInit => IInv /\ UpdateIInv
  BY InitIInv, UpdateInitIInv DEF UpdateInit
<1>2. (IInv /\ UpdateIInv) /\ [UpdateNext]_allVars => (IInv /\ UpdateIInv)'
  BY UpdateStep
<1> QED
  BY <1>1, <1>2, PTL DEF UpdateSpec

(* A partially written candidate never becomes active, whatever fails,     *)
(* tears, crashes or is retried.                                           *)
THEOREM ActiveImageStaysComplete ==
  ASSUME Disciplined, OneUpdater PROVE UpdateSpec => []ActiveImageComplete
<1>1. UpdateIInv => ActiveImageComplete
  BY DEF UpdateIInv
<1> QED
  BY <1>1, SequenceInvariant, PTL

(* The image a rollback returns to stays complete while the release is     *)
(* provisional.                                                            *)
THEOREM RetainedImageStaysIntact ==
  ASSUME Disciplined, OneUpdater PROVE UpdateSpec => []RetainedImageIntact
<1>1. UpdateIInv => RetainedImageIntact
  BY DEF UpdateIInv
<1> QED
  BY <1>1, SequenceInvariant, PTL
=============================================================================
