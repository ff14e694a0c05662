------------------------------ MODULE ABUpdate ------------------------------
(***************************************************************************)
(* The update sequence a product runs around the journal                   *)
(* (adapters/wearable/AB_UPDATE.md sections 3, 6, 7, 11 and 15): ask for   *)
(* the candidate slot, write a complete image into it, authenticate and    *)
(* validate it in a context of its own, and only then commit it; later     *)
(* accept it or roll back.  After any failed call the updater discards its *)
(* RAM decision state and recovers before the next decision.               *)
(*                                                                         *)
(* The journal's state and calls are those of ABJournal; this module adds  *)
(* the two image slots and each updater's place in the sequence.           *)
(***************************************************************************)
EXTENDS ABJournal

VARIABLES
  image,    \* per slot: the complete image it holds, or NoDigest: partial, erased
  job,      \* per actor: the candidate it stages
  trusted   \* per actor: its RAM state is the result of its last call

updateVars == <<image, job, trusted>>
allVars    == <<vars, image, job, trusted>>

NoJob  == [phase |-> "none", slot |-> 0, digest |-> NoDigest]

(* The factory wrote complete images before the journal is provisioned.    *)
UpdateInit ==
  /\ Init
  /\ \E d \in Digests : image = [s \in Slots |-> IF s = 0 THEN d ELSE NoDigest]
  /\ job = [a \in Actors |-> NoJob]
  /\ trusted = [a \in Actors |-> FALSE]

-----------------------------------------------------------------------------
(* Mutant: the rollback window is not checked.                             *)
CandidateInRollbackWindow(a) ==
  /\ Decodes(ram[a].rec)
  /\ job' = [job EXCEPT ![a] = [phase |-> "chosen", slot |-> Other(ram[a].rec.active),
                                digest |-> NoDigest]]

(* xsw_ab_candidate_slot: the inactive slot, refused while a rollback is   *)
(* retained.  It looks at the RAM state only.                              *)
CandidateSlot(a) ==
  /\ Decodes(ram[a].rec)
  /\ ~ram[a].rec.rollback
  /\ job' = [job EXCEPT ![a] = [phase |-> "chosen", slot |-> Other(ram[a].rec.active),
                                digest |-> NoDigest]]

BeginUpdate(a) ==
  /\ pc[a] = "idle"
  /\ trusted[a]
  /\ job[a].phase = "none"
  /\ CandidateSlot(a)
  /\ UNCHANGED <<vars, image, trusted>>

(* The product writes the candidate; until it is complete the slot holds   *)
(* no usable image.                                                        *)
StartImage(a) ==
  /\ job[a].phase = "chosen"
  /\ \E d \in Digests :
       job' = [job EXCEPT ![a] = [@ EXCEPT !.phase = "writing", !.digest = d]]
  /\ image' = [image EXCEPT ![job[a].slot] = NoDigest]
  /\ UNCHANGED <<vars, trusted>>

(* Durable, authenticated, digest verified, mounted and frozen in a        *)
(* separate candidate context.                                             *)
ValidateImage(a) ==
  /\ job[a].phase = "writing"
  /\ image' = [image EXCEPT ![job[a].slot] = job[a].digest]
  /\ job' = [job EXCEPT ![a].phase = "validated"]
  /\ UNCHANGED <<vars, trusted>>

(* The download or the validation fails; the slot keeps what it holds.     *)
AbandonImage(a) ==
  /\ job[a].phase # "none"
  /\ pc[a] = "idle"
  /\ job' = [job EXCEPT ![a] = NoJob]
  /\ UNCHANGED <<vars, image, trusted>>

-----------------------------------------------------------------------------
(* Mutant: the candidate is committed while it is being written.           *)
CommitBeforeValidation(a) ==
  /\ trusted[a]
  /\ job[a].phase \in {"writing", "validated"}
  /\ Begin(a, "commit", [slot |-> job[a].slot, digest |-> job[a].digest])

(* The calls the sequence makes.  Provisioning names the image the factory *)
(* wrote; only an updater with a fresh RAM state decides an update.        *)
CommitCandidate(a) ==
  /\ trusted[a]
  /\ job[a].phase = "validated"
  /\ Begin(a, "commit", [slot |-> job[a].slot, digest |-> job[a].digest])

ProvisionFactory(a) ==
  \E s \in Slots :
    /\ image[s] # NoDigest
    /\ job[a].phase = "none"
    /\ Latest = NoState
    /\ Begin(a, "bootstrap", [slot |-> s, digest |-> image[s]])

AcceptRelease(a)   == trusted[a] /\ job[a].phase = "none" /\ Begin(a, "accept", NoArgs)
RollbackRelease(a) == trusted[a] /\ job[a].phase = "none" /\ Begin(a, "rollback", NoArgs)
RecoverState(a)    == ~trusted[a] /\ job[a].phase = "none" /\ Begin(a, "recover", NoArgs)

Call(a) ==
  /\ \/ CommitCandidate(a)
     \/ ProvisionFactory(a)
     \/ AcceptRelease(a)
     \/ RollbackRelease(a)
     \/ RecoverState(a)
  /\ UNCHANGED updateVars

(* One callback of the running call.  When the call returns, its candidate *)
(* is settled, and a failure discards the RAM decision state.              *)
Proceeding(a) ==
  /\ Step(a)
  /\ trusted' = IF pc'[a] = "idle" THEN [trusted EXCEPT ![a] = (status'[a] = "ok")] ELSE trusted
  /\ job' = IF pc'[a] = "idle" THEN [job EXCEPT ![a] = NoJob] ELSE job
  /\ UNCHANGED image

PowerLoss ==
  /\ Crash
  /\ job' = [a \in Actors |-> NoJob]
  /\ trusted' = [a \in Actors |-> FALSE]
  /\ UNCHANGED image

Device == (\E c \in Copies : Land(c) \/ RotOlder(c)) /\ UNCHANGED updateVars

Stage(a) == BeginUpdate(a) \/ StartImage(a) \/ ValidateImage(a) \/ AbandonImage(a)

UpdateNext ==
  \/ \E a \in Actors : Stage(a) \/ Call(a) \/ Proceeding(a)
  \/ Device
  \/ PowerLoss

UpdateSpec == UpdateInit /\ [][UpdateNext]_allVars

(* The host recovers while it holds no fresh state, and callbacks return.  *)
UpdateFairness ==
  \A a \in Actors : /\ WF_allVars(RecoverState(a) /\ UNCHANGED updateVars)
                    /\ WF_allVars(Proceeding(a))

FairUpdateSpec == UpdateSpec /\ UpdateFairness

-----------------------------------------------------------------------------
(* Properties.                                                             *)

(* A partially written candidate never becomes active: the slot the latest *)
(* durable activation names always holds the complete image it names,      *)
(* whatever fails, crashes or is retried, staging included.                *)
ActiveImageComplete ==
  Latest # NoState => image[Latest.rec.active] = Latest.rec.active_digest

(* While a release is provisional the image a rollback returns to stays    *)
(* complete in the other slot.                                             *)
RetainedImageIntact ==
  Latest # NoState /\ Latest.rec.rollback =>
    image[Latest.rec.previous] = Latest.rec.previous_digest

(* Once provisioned, the device always gets back to a host that knows the  *)
(* latest activation: no finite sequence of power losses, errors and torn  *)
(* records bricks it.                                                      *)
ServiceRestored ==
  Latest # NoState ~> \E a \in Actors : trusted[a] /\ pc[a] = "idle" /\ ram[a] = Latest
(***************************************************************************)
(* The inductive invariant behind the first two: what one updater knows    *)
(* while it stages, validates and calls.                                   *)
(***************************************************************************)
UpdateTypeOK ==
  /\ image \in [Slots -> Digests \union {NoDigest}]
  /\ job \in [Actors -> [phase: {"none", "chosen", "writing", "validated"}, slot: Slots,
                        digest: Digests \union {NoDigest}]]
  /\ trusted \in [Actors -> BOOLEAN]

(* Between calls, a state that may still be used is the latest.            *)
TrustedIsLatest == \A a \in Actors : trusted[a] /\ pc[a] = "idle" => ram[a] = Latest

(* Staging happens between calls, into the slot that is not active, and    *)
(* never while a rollback is retained.                                     *)
StagingIsAside ==
  \A a \in Actors : job[a].phase \in {"chosen", "writing"} =>
    /\ pc[a] = "idle" /\ trusted[a]
    /\ Decodes(ram[a].rec) /\ ~ram[a].rec.rollback
    /\ job[a].slot = Other(ram[a].rec.active)

(* What was validated, or named by a running call, is in its slot.         *)
NamedImagesComplete ==
  \A a \in Actors :
    /\ job[a].phase = "validated" => image[job[a].slot] = job[a].digest
    /\ pc[a] # "idle" /\ op[a] \in {"commit", "bootstrap"} => image[arg[a].slot] = arg[a].digest

(* A commit persists the activation it was asked for.                      *)
CommitsAsAsked ==
  \A a \in Actors : pc[a] \in {"write", "flush", "reread"} /\ op[a] = "commit" =>
    next[a] = Activated(ram[a].rec, arg[a].slot, arg[a].digest)

UpdateIInv == /\ UpdateTypeOK
              /\ TrustedIsLatest
              /\ StagingIsAside
              /\ NamedImagesComplete
              /\ CommitsAsAsked
              /\ ActiveImageComplete
              /\ RetainedImageIntact
=============================================================================
