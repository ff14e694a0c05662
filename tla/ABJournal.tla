------------------------------ MODULE ABJournal ------------------------------
(***************************************************************************)
(* The crash-consistent activation journal                                 *)
(* (adapters/wearable/exactscope_wearable_ab.c).                           *)
(*                                                                         *)
(* Two record copies sit behind three product callbacks.  write_record may *)
(* stage bytes, flush makes staged bytes durable, read_record returns      *)
(* durable bytes only.  Each API call is a sequence of callbacks, one      *)
(* action per callback, so that a power loss, an error or another caller   *)
(* can come between any two of them; the local computation after a         *)
(* callback belongs to its action.                                         *)
(***************************************************************************)
EXTENDS ABRecord

CONSTANTS
  Actors,             \* updaters that call the API on one journal
  Serialized,         \* TRUE: the host never lets two calls overlap
  ErrorsSettle,       \* TRUE: after a failed callback nothing stays staged
  PartialReadFaults,  \* TRUE: one copy's read may fail while the other's succeeds
  MaxFaults           \* bound on power losses, callback errors and rot

ASSUME JournalAssumption ==
  /\ Actors # {}
  /\ {Serialized, ErrorsSettle, PartialReadFaults} \subseteq BOOLEAN
  /\ MaxFaults \in Nat

VARIABLES
  durable,  \* what read_record returns for each copy
  staged,   \* what write_record accepted and no flush made durable yet
  faults,   \* faults so far
  pc,       \* per actor: the callback its call makes next, or "idle"
  op,       \* per actor: the API function it is in, or NoOp
  arg,      \* per actor: the slot and digest it passed
  seen,     \* per actor: what the first read of the running call returned
  next,     \* per actor: the record the running call persists
  ram,      \* per actor: its xsw_ab_state_v1
  status    \* per actor: what its last call returned, "none" before and during a call

storageVars == <<durable, staged>>
callVars    == <<pc, op, arg, seen, next, ram, status>>
vars        == <<durable, staged, faults, pc, op, arg, seen, next, ram, status>>

Updates  == {"commit", "accept", "rollback"}
Ops      == Updates \union {"recover", "bootstrap"}
NoOp     == "none"
Stages   == {"idle", "read0", "read1", "write", "flush", "reread"}
Statuses == {"none", "ok", "invalid", "integrity", "io", "overflow"}
Args     == [slot: Slots, digest: Digests \union {NoDigest}]
NoArgs   == [slot |-> 0, digest |-> NoDigest]

(* Only bootstrap and commit take arguments.                               *)
Inputs(o) == IF o \in {"bootstrap", "commit"} THEN Args ELSE {NoArgs}

StorageTypeOK ==
  /\ durable \in [Copies -> Copy]
  /\ staged \in [Copies -> Copy]
  /\ faults \in 0 .. MaxFaults

CallTypeOK ==
  /\ pc \in [Actors -> Stages]
  /\ op \in [Actors -> Ops \union {NoOp}]
  /\ arg \in [Actors -> Args]
  /\ seen \in [Actors -> Copy]
  /\ next \in [Actors -> Copy]
  /\ ram \in [Actors -> State]
  /\ status \in [Actors -> Statuses]

TypeOK == StorageTypeOK /\ CallTypeOK

Init ==
  /\ durable = [c \in Copies |-> Blank]
  /\ staged = [c \in Copies |-> Nothing]
  /\ faults = 0
  /\ pc = [a \in Actors |-> "idle"]
  /\ op = [a \in Actors |-> NoOp]
  /\ arg = [a \in Actors |-> NoArgs]
  /\ seen = [a \in Actors |-> Nothing]
  /\ next = [a \in Actors |-> Nothing]
  /\ ram = [a \in Actors |-> NoState]
  /\ status = [a \in Actors |-> "none"]

-----------------------------------------------------------------------------
(* Helpers of the calls.                                                   *)

Pair(v0, v1) == [c \in Copies |-> IF c = 0 THEN v0 ELSE v1]

OneFault == faults < MaxFaults /\ faults' = faults + 1
NoFault  == faults' = faults

Goto(a, stage) == pc' = [pc EXCEPT ![a] = stage]

(* A call ends: its locals are gone, its RAM state becomes st.             *)
Return(a, result, st) ==
  /\ Goto(a, "idle")
  /\ status' = [status EXCEPT ![a] = result]
  /\ ram' = [ram EXCEPT ![a] = st]
  /\ seen' = [seen EXCEPT ![a] = Nothing]
  /\ next' = [next EXCEPT ![a] = Nothing]
  /\ op' = [op EXCEPT ![a] = NoOp]
  /\ arg' = [arg EXCEPT ![a] = NoArgs]

(* Mutant: a rollback leaves the release provisional.                     *)
NextStaysProvisional(a, r) ==
  IF op[a] = "rollback" THEN [RolledBack(r) EXCEPT !.rollback = TRUE]
  ELSE IF op[a] = "accept" THEN Accepted(r)
  ELSE Activated(r, arg[a].slot, arg[a].digest)

NeverOverflows(o, st) == FALSE

(* The copy a call writes: bootstrap copy 0, the others the copy that does *)
(* not hold the state they started from.                                   *)
TargetCopy(a) == IF op[a] = "bootstrap" THEN 0 ELSE Other(ram[a].selected_record_copy)

(* The record the call persists, from the state it refreshed.              *)
NextRecord(a, r) ==
  IF op[a] = "rollback" THEN RolledBack(r)
  ELSE IF op[a] = "accept" THEN Accepted(r)
  ELSE Activated(r, arg[a].slot, arg[a].digest)

(* Calls refused before any callback: bad arguments, no usable state, a    *)
(* commit inside the rollback window or into the active slot, an accept or *)
(* rollback outside it.  NoState is the zeroed struct that                 *)
(* xsw_ab_validate_state_input rejects.                                    *)
Invalid(o, st, x) ==
  \/ o \in {"bootstrap", "commit"} /\ x.digest = NoDigest
  \/ o \in Updates /\ ~Decodes(st.rec)
  \/ o = "commit" /\ (st.rec.rollback \/ x.slot # Other(st.rec.active))
  \/ o \in {"accept", "rollback"} /\ ~st.rec.rollback
  \/ o = "rollback" /\ st.rec.previous_digest = NoDigest

Overflows(o, st) == o \in Updates /\ st.rec.generation = MaxGeneration

Admission(o, st, x) ==
  IF Invalid(o, st, x) THEN "invalid" ELSE IF Overflows(o, st) THEN "overflow" ELSE "ok"

-----------------------------------------------------------------------------
(* The API calls.                                                          *)

MayCall(a) == /\ pc[a] = "idle"
              /\ Serialized => \A b \in Actors : pc[b] = "idle"

Begin(a, o, x) ==
  /\ MayCall(a)
  /\ Admission(o, ram[a], x) = "ok"
  /\ Goto(a, "read0")
  /\ op' = [op EXCEPT ![a] = o]
  /\ arg' = [arg EXCEPT ![a] = x]
  /\ status' = [status EXCEPT ![a] = "none"]
  /\ UNCHANGED <<durable, staged, faults, seen, next, ram>>

Refuse(a, o, x) ==
  /\ MayCall(a)
  /\ Admission(o, ram[a], x) # "ok"
  /\ status' = [status EXCEPT ![a] = Admission(o, ram[a], x)]
  /\ UNCHANGED <<durable, staged, faults, pc, op, arg, seen, next, ram>>

(* A read returns the durable bytes of copy c, or the callback fails.      *)
Reading(c, v) == \/ v = durable[c] /\ NoFault
                 \/ v = Fault /\ OneFault

(* Recovery goes on after a failed first read, bootstrap returns it.       *)
ReadFirst(a) ==
  /\ pc[a] = "read0"
  /\ \E v \in {durable[0], Fault} :
       /\ Reading(0, v)
       /\ IF op[a] = "bootstrap" /\ v.kind = "fault"
            THEN Return(a, "io", ram[a])
            ELSE /\ seen' = [seen EXCEPT ![a] = v]
                 /\ Goto(a, "read1")
                 /\ UNCHANGED <<op, arg, next, ram, status>>
  /\ UNCHANGED storageVars

(* Without partial read faults the device fails both reads or neither.     *)
SecondReading(a, v) ==
  IF PartialReadFaults \/ op[a] = "bootstrap"
    THEN Reading(1, v)
    ELSE v = (IF seen[a].kind = "fault" THEN Fault ELSE durable[1]) /\ NoFault

Proceed(a, r) ==
  /\ next' = [next EXCEPT ![a] = r]
  /\ Goto(a, "write")
  /\ UNCHANGED <<op, arg, seen, ram, status>>

(* Mutant: a single intact copy is not enough to recover from.             *)
RecoverNeedsBothCopies(a, saw) ==
  IF \A c \in Copies : Decodes(saw[c])
    THEN Return(a, RecoverStatus(saw), IF RecoverStatus(saw) = "ok" THEN Recovered(saw) ELSE ram[a])
    ELSE Return(a, "integrity", ram[a])

(* xsw_ab_recover after its reads: the output is written on success only.  *)
DecideRecover(a, saw) ==
  Return(a, RecoverStatus(saw), IF RecoverStatus(saw) = "ok" THEN Recovered(saw) ELSE ram[a])

(* xsw_ab_bootstrap after its reads: both copies must be blank.            *)
DecideBootstrap(a, saw) ==
  IF saw[1].kind = "fault" THEN Return(a, "io", ram[a])
  ELSE IF \A c \in Copies : saw[c].kind = "blank"
         THEN Proceed(a, Genesis(arg[a].slot, arg[a].digest))
  ELSE IF \E c \in Copies : Decodes(saw[c]) THEN Return(a, "invalid", ram[a])
  ELSE Return(a, "integrity", ram[a])

(* Mutant: the refreshed state is not compared with the caller's.          *)
RefreshComparesNothing(a, saw) ==
  IF RecoverStatus(saw) # "ok" THEN Return(a, RecoverStatus(saw), ram[a])
  ELSE Proceed(a, NextRecord(a, ram[a].rec))

(* xsw_ab_refresh_and_compare, and the record built from its result.       *)
DecideUpdate(a, saw) ==
  IF RecoverStatus(saw) # "ok" THEN Return(a, RecoverStatus(saw), ram[a])
  ELSE IF Recovered(saw) # ram[a] THEN Return(a, "invalid", ram[a])
  ELSE Proceed(a, NextRecord(a, Recovered(saw).rec))

ReadSecond(a) ==
  /\ pc[a] = "read1"
  /\ \E v \in {durable[1], Fault} :
       LET saw == Pair(seen[a], v) IN
       /\ SecondReading(a, v)
       /\ IF op[a] = "recover" THEN DecideRecover(a, saw)
          ELSE IF op[a] = "bootstrap" THEN DecideBootstrap(a, saw)
          ELSE DecideUpdate(a, saw)
  /\ UNCHANGED storageVars

(* What a staged copy may turn into when the device lets go of it.         *)
Outcomes(c, pending) ==
  IF pending = Nothing THEN {durable[c]} ELSE {durable[c], pending, Torn}

WriteSucceeds(a) ==
  /\ staged' = [staged EXCEPT ![TargetCopy(a)] = next[a]]
  /\ Goto(a, "flush")
  /\ UNCHANGED <<durable, faults, op, arg, seen, next, ram, status>>

WriteFails(a) ==
  /\ OneFault
  /\ IF ErrorsSettle
       THEN /\ \E v \in Outcomes(TargetCopy(a), next[a]) :
                 durable' = [durable EXCEPT ![TargetCopy(a)] = v]
            /\ staged' = [staged EXCEPT ![TargetCopy(a)] = Nothing]
       ELSE /\ staged' = [staged EXCEPT ![TargetCopy(a)] = next[a]]
            /\ UNCHANGED durable
  /\ Return(a, "io", ram[a])

Write(a) == pc[a] = "write" /\ (WriteSucceeds(a) \/ WriteFails(a))

(* flush makes every staged copy durable.                                  *)
FlushSucceeds(a) ==
  /\ durable' = [c \in Copies |-> IF staged[c] = Nothing THEN durable[c] ELSE staged[c]]
  /\ staged' = [c \in Copies |-> Nothing]
  /\ NoFault
  /\ Goto(a, "reread")
  /\ UNCHANGED <<op, arg, seen, next, ram, status>>

(* It reports success and the record reached storage torn.                 *)
FlushTears(a) ==
  /\ OneFault
  /\ durable' = [c \in Copies |-> IF staged[c] = Nothing THEN durable[c] ELSE Torn]
  /\ staged' = [c \in Copies |-> Nothing]
  /\ Goto(a, "reread")
  /\ UNCHANGED <<op, arg, seen, next, ram, status>>

FlushFails(a) ==
  /\ OneFault
  /\ IF ErrorsSettle
       THEN /\ \E v0 \in Outcomes(0, staged[0]), v1 \in Outcomes(1, staged[1]) :
                 durable' = Pair(v0, v1)
            /\ staged' = [c \in Copies |-> Nothing]
       ELSE UNCHANGED storageVars
  /\ Return(a, "io", ram[a])

Flush(a) == pc[a] = "flush" /\ (FlushSucceeds(a) \/ FlushTears(a) \/ FlushFails(a))

(* Mutant: no read-back verification.                                      *)
RereadTrustsAnything(a) ==
  /\ pc[a] = "reread"
  /\ NoFault
  /\ Return(a, "ok", [rec |-> next[a], selected_record_copy |-> TargetCopy(a)])
  /\ UNCHANGED storageVars

(* The written copy is read back and must equal the record meant.          *)
Reread(a) ==
  /\ pc[a] = "reread"
  /\ \E v \in {durable[TargetCopy(a)], Fault} :
       /\ Reading(TargetCopy(a), v)
       /\ IF v.kind = "fault" THEN Return(a, "io", ram[a])
          ELSE IF Decodes(v) /\ v = next[a]
            THEN Return(a, "ok", [rec |-> next[a], selected_record_copy |-> TargetCopy(a)])
            ELSE Return(a, "integrity", ram[a])
  /\ UNCHANGED storageVars

Step(a) == ReadFirst(a) \/ ReadSecond(a) \/ Write(a) \/ Flush(a) \/ Reread(a)

-----------------------------------------------------------------------------
(* The device.                                                             *)

(* A write-back device may make a staged copy durable before the flush.    *)
Land(c) ==
  /\ staged[c] # Nothing
  /\ durable' = [durable EXCEPT ![c] = staged[c]]
  /\ staged' = [staged EXCEPT ![c] = Nothing]
  /\ UNCHANGED <<faults, callVars>>

(* Power loss: RAM is gone, a staged copy is lost, durable or torn.        *)
Crash ==
  /\ OneFault
  /\ \E v0 \in Outcomes(0, staged[0]), v1 \in Outcomes(1, staged[1]) : durable' = Pair(v0, v1)
  /\ staged' = [c \in Copies |-> Nothing]
  /\ pc' = [a \in Actors |-> "idle"]
  /\ ram' = [a \in Actors |-> NoState]
  /\ seen' = [a \in Actors |-> Nothing]
  /\ next' = [a \in Actors |-> Nothing]
  /\ status' = [a \in Actors |-> "none"]
  /\ op' = [a \in Actors |-> NoOp]
  /\ arg' = [a \in Actors |-> NoArgs]

(* The older of two valid copies decays.                                   *)
RotOlder(c) ==
  /\ OneFault
  /\ \A x \in Copies : Decodes(durable[x])
  /\ c # SelectedCopy(durable)
  /\ durable' = [durable EXCEPT ![c] = Torn]
  /\ UNCHANGED <<staged, callVars>>

Next ==
  \/ \E a \in Actors :
       \/ \E o \in Ops : \E x \in Inputs(o) : Begin(a, o, x) \/ Refuse(a, o, x)
       \/ Step(a)
  \/ \E c \in Copies : Land(c) \/ RotOlder(c)
  \/ Crash

Spec == Init /\ [][Next]_vars

-----------------------------------------------------------------------------
(* Properties.                                                             *)

(* The activation a recovery at this instant would find.                   *)
Latest == Recovered(durable)

(* The latest activation stays, is the first one, or is followed by one    *)
(* that may follow it.                                                     *)
Advances ==
  \/ Latest' = Latest
  \/ Latest = NoState /\ \E s \in Slots, d \in Digests : Latest'.rec = Genesis(s, d)
  \/ Latest # NoState /\ Latest'.rec \in Successors(Latest.rec)

(* Durable activations only move forward, one whole generation at a time,  *)
(* and each is an accept or rollback of the one before it if that one was  *)
(* provisional, an activation of the other slot if not: no power loss,     *)
(* error, torn record or stale caller loses, reorders or forks one.        *)
DurableOnlyAdvances == [][Advances]_durable

(* A state a call hands to its caller is the latest durable one.           *)
ReturnsLatest == \A a \in Actors : ram'[a] # ram[a] /\ ram'[a] # NoState => ram'[a] = Latest'

(* A call that gives its caller a state gives it the latest durable one:   *)
(* recover never settles for an older record, and no update reports        *)
(* success for a record that is not the durable selection.                 *)
ReturnedStateIsLatest == [][ReturnsLatest]_vars

(* The two copies never contradict each other: when both decode, one is    *)
(* the direct successor of the other, so losing the older is harmless and  *)
(* losing the newer steps back by exactly one activation.                  *)
CopiesAreChained ==
  (\A c \in Copies : Decodes(durable[c])) =>
    \E c \in Copies : durable[c] \in Successors(durable[Other(c)])

(* A call about to write works from the latest durable activation and      *)
(* never overwrites the copy that holds it.                                *)
WritersAreCurrent ==
  \A a \in Actors : pc[a] = "write" =>
    IF op[a] = "bootstrap"
      THEN \A c \in Copies : durable[c] = Blank
      ELSE /\ ram[a] = Latest
           /\ next[a] \in Successors(Latest.rec)
           /\ TargetCopy(a) # SelectedCopy(durable)

(* The parts of the inductive invariant that the properties above leave    *)
(* out.  At most one call runs.                                            *)
OneCallRuns == \A a, b \in Actors : pc[a] # "idle" /\ pc[b] # "idle" => a = b

(* A running call satisfies the checks it was admitted by.                 *)
CallsAdmitted ==
  \A a \in Actors : pc[a] # "idle" =>
    op[a] \in Ops /\ arg[a] \in Inputs(op[a]) /\ Admission(op[a], ram[a], arg[a]) = "ok"

(* A durable copy is blank, torn or an intact record.                      *)
CopiesWellFormed == \A c \in Copies : durable[c] \in {Blank, Torn} \/ Decodes(durable[c])

(* Only the call that waits for its flush has a staged record.             *)
StagedByFlusher ==
  \A c \in Copies : staged[c] # Nothing =>
    \E a \in Actors : pc[a] = "flush" /\ c = TargetCopy(a) /\ staged[c] = next[a]

(* Copy c holds the record a recovery selects, and record r.               *)
Holds(c, r) ==
  /\ durable[c] = r
  /\ Decodes(r)
  /\ Decodes(durable[Other(c)]) => r \in Successors(durable[Other(c)])

(* Between the two reads the first one stays good: the copy read is        *)
(* unchanged, or it failed, or it was the older record and has decayed.    *)
ReadersAreCurrent ==
  \A a \in Actors : pc[a] = "read1" =>
    \/ seen[a] = durable[0]
    \/ seen[a] = Fault /\ op[a] # "bootstrap"
    \/ /\ Decodes(seen[a]) /\ Decodes(durable[1])
       /\ durable[0] = Torn /\ durable[1] \in Successors(seen[a])

(* What a call may write over: nothing, or the copy that does not hold the *)
(* activation it started from.                                             *)
Based(a) ==
  IF op[a] = "bootstrap"
    THEN /\ durable = [c \in Copies |-> Blank]
         /\ next[a] = Genesis(arg[a].slot, arg[a].digest)
    ELSE /\ Holds(ram[a].selected_record_copy, ram[a].rec)
         /\ next[a] \in Successors(ram[a].rec)

(* The written record is where it belongs and is the one selected.         *)
Written(a) == durable[TargetCopy(a)] = next[a] /\ Holds(TargetCopy(a), next[a])

ProgressKnown ==
  \A a \in Actors :
    /\ pc[a] = "write" => op[a] # "recover" /\ Based(a)
    /\ pc[a] = "flush" =>
         /\ op[a] # "recover"
         /\ \/ Based(a) /\ staged[TargetCopy(a)] = next[a]
            \/ Written(a) /\ staged[TargetCopy(a)] = Nothing
    /\ pc[a] = "reread" =>
         op[a] # "recover" /\ (Written(a) \/ durable[TargetCopy(a)] = Torn)

IInv == /\ TypeOK
        /\ OneCallRuns
        /\ CallsAdmitted
        /\ CopiesWellFormed
        /\ CopiesAreChained
        /\ StagedByFlusher
        /\ ReadersAreCurrent
        /\ ProgressKnown

(* The journal implements the atomic register.                             *)
Register == INSTANCE ABActivation
  WITH Images <- Digests, NoImage <- NoDigest,
       generation <- Latest.rec.generation, slot <- Latest.rec.active,
       serving <- Latest.rec.active_digest,
       retained <- IF Latest.rec.rollback THEN Latest.rec.previous_digest ELSE NoDigest

ImplementsRegister == Register!Spec
=============================================================================
