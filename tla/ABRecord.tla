------------------------------ MODULE ABRecord ------------------------------
(***************************************************************************)
(* The 96-byte activation record of the wearable A/B journal               *)
(* (adapters/wearable/exactscope_wearable_ab.c): what a record says, when  *)
(* a copy read back from storage decodes, which copy recovery selects, and *)
(* the four records the API ever writes.                                   *)
(*                                                                         *)
(* Bytes are abstracted to what the code distinguishes.  A copy is an      *)
(* encoded record, a blank area (all 00 or all ff), a torn one (CRC, magic *)
(* or field check fails), or the error of a read callback.  CRC-32 is taken *)
(* to detect every torn record.                                            *)
(***************************************************************************)
EXTENDS Naturals

CONSTANTS
  Digests,        \* SHA-256 identities of complete images
  NoDigest,       \* the all-zero digest
  MaxGeneration   \* stands for UINT64_MAX

ASSUME RecordAssumption ==
  /\ NoDigest \notin Digests
  /\ MaxGeneration \in Nat \ {0}

Slots  == {0, 1}        \* XSW_AB_SLOT_A_V1, XSW_AB_SLOT_B_V1
Copies == {0, 1}        \* XSW_AB_RECORD_COPY_COUNT_V1
Other(x) == 1 - x       \* the other slot, the other record copy

(* "record": an encoded xsw_ab_decoded_v1; "blank", "torn": bytes that do  *)
(* not decode; "fault": the read callback failed; "none": no record.       *)
Kinds == {"record", "blank", "torn", "fault", "none"}

Copy == [kind: Kinds, generation: 0 .. MaxGeneration, active: Slots, previous: Slots,
         rollback: BOOLEAN, active_digest: Digests \union {NoDigest},
         previous_digest: Digests \union {NoDigest}]

Void(k) == [kind |-> k, generation |-> 0, active |-> 0, previous |-> 0, rollback |-> FALSE,
            active_digest |-> NoDigest, previous_digest |-> NoDigest]
Blank   == Void("blank")
Torn    == Void("torn")
Fault   == Void("fault")
Nothing == Void("none")

(* xsw_ab_state_v1: the RAM reconstruction of one durable record and the   *)
(* copy it came from.                                                      *)
State   == [rec: Copy, selected_record_copy: Copies]
NoState == [rec |-> Nothing, selected_record_copy |-> 0]

-----------------------------------------------------------------------------
(* Mutant: a rollback that forgets to swap the two digests.                *)
RolledBackKeepsDigests(r) ==
  [r EXCEPT !.generation = @ + 1, !.active = r.previous, !.previous = r.active,
            !.rollback = FALSE]

-----------------------------------------------------------------------------
(* xsw_ab_decode_record: nonzero generation, two distinct slots, a nonzero *)
(* active digest, and a nonzero previous digest while rollback is kept.    *)
Decodes(v) ==
  /\ v.kind = "record"
  /\ v.generation # 0
  /\ v.active # v.previous
  /\ v.active_digest # NoDigest
  /\ v.rollback => v.previous_digest # NoDigest

(* The status xsw_ab_recover returns for what its two reads saw.           *)
RecoverStatus(v) ==
  IF \A c \in Copies : ~Decodes(v[c])
    THEN IF \E c \in Copies : v[c].kind = "fault" THEN "io" ELSE "integrity"
    ELSE IF /\ \A c \in Copies : Decodes(v[c])
            /\ v[0].generation = v[1].generation
            /\ v[0] # v[1]
           THEN "integrity" ELSE "ok"

(* The copy it selects when that status is "ok".                           *)
SelectedCopy(v) ==
  IF /\ Decodes(v[0])
     /\ Decodes(v[1]) => v[0].generation >= v[1].generation
    THEN 0 ELSE 1

(* The state it hands back: xsw_ab_state_from_decoded of the selection.    *)
Recovered(v) ==
  IF RecoverStatus(v) = "ok"
    THEN [rec |-> v[SelectedCopy(v)], selected_record_copy |-> SelectedCopy(v)]
    ELSE NoState

-----------------------------------------------------------------------------
(* The records written by bootstrap, commit, accept and rollback.          *)
Genesis(s, d) ==
  [kind |-> "record", generation |-> 1, active |-> s, previous |-> Other(s),
   rollback |-> FALSE, active_digest |-> d, previous_digest |-> NoDigest]

Activated(r, s, d) ==
  [kind |-> "record", generation |-> r.generation + 1, active |-> s, previous |-> r.active,
   rollback |-> TRUE, active_digest |-> d, previous_digest |-> r.active_digest]

Accepted(r) ==
  [kind |-> "record", generation |-> r.generation + 1, active |-> r.active,
   previous |-> r.previous, rollback |-> FALSE, active_digest |-> r.active_digest,
   previous_digest |-> r.previous_digest]

RolledBack(r) ==
  [kind |-> "record", generation |-> r.generation + 1, active |-> r.previous,
   previous |-> r.active, rollback |-> FALSE, active_digest |-> r.previous_digest,
   previous_digest |-> r.active_digest]

(* What may follow record r in the journal.                                *)
Successors(r) ==
  IF r.rollback THEN {Accepted(r), RolledBack(r)}
                ELSE {Activated(r, Other(r.active), d) : d \in Digests}
=============================================================================
