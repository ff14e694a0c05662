---------------------------- MODULE GroundingFrame ----------------------------
(* The evidence policy of grounding (tools/grounding_runtime.py): how the    *)
(* outcomes of the retrieval providers become one state and one set of items *)
(* per routed target, and what the host may conclude from such a frame       *)
(* without a model.                                                          *)
(*                                                                           *)
(* A profile is a record                                                     *)
(*   targets    [target -> [authority, bindings]], a binding being           *)
(*              [provider, refs, required]; refs lists the bound sources and *)
(*              stands for their snapshot digests                            *)
(*   items      the evidence items the profile's sources hold, each          *)
(*              [source, id, target, content, bytes]; the loader has checked *)
(*              that source and id determine the item                        *)
(*   ambiguity  whether the merge policy has the single-source ambiguity rule*)
(*   limits     groups, candidates, items, content, frame                    *)
(* An outcome names its target, provider and refs; "bound" says that query,  *)
(* profile, scope and attempt are those of the request.  Equal contents have *)
(* equal digests.  Text, ranking and canonical bytes are left out.           *)
EXTENDS Naturals, Sequences, FiniteSets, FiniteSetsExt

CONSTANTS NoUnit   \* a scalar without a unit

Failures   == {"timeout", "error", "denied", "budget_exceeded"}
Unresolved == {"conflict", "ambiguous", "unavailable", "none"}
States     == Unresolved \union {"grounded"}

SourcesOf(b) == {b.refs[i] : i \in DOMAIN b.refs}

-----------------------------------------------------------------------------
(* Provider outcomes.                                                        *)

Outcome(t, b, status, candidates) ==
  [target |-> t, provider |-> b.provider, refs |-> b.refs, bound |-> TRUE, status |-> status,
   complete |-> status \notin Failures, candidates |-> candidates, reason |-> status \in Failures]

(* LocalExactLexicalProvider.retrieve, for the items its index matched.      *)
LocalOutcome(p, t, b, matched) ==
  IF Cardinality(matched) > p.limits.candidates THEN Outcome(t, b, "budget_exceeded", {})
  ELSE Outcome(t, b, IF matched = {} THEN "none" ELSE "ok", matched)

(* _validate_outcome.                                                        *)
ValidOutcome(p, t, b, o) ==
  /\ o.bound
  /\ \/ o.status = "ok" /\ o.complete /\ o.candidates # {} /\ ~o.reason
     \/ o.status = "none" /\ o.complete /\ o.candidates = {} /\ ~o.reason
     \/ o.status \in Failures /\ ~o.complete /\ o.candidates = {} /\ o.reason
  /\ \A i \in o.candidates : i.target = t /\ i.source \in SourcesOf(b) /\ i \in p.items

-----------------------------------------------------------------------------
(* build_frame: the outcomes are a list, in the order the host got them.     *)

Matching(t, b, outcomes) ==
  {n \in DOMAIN outcomes : /\ outcomes[n].target = t
                           /\ outcomes[n].provider = b.provider
                           /\ outcomes[n].refs = b.refs}

(* Mutant: a repeated outcome is accepted.                                   *)
AnsweredAtLeastOnce(t, b, outcomes) == Matching(t, b, outcomes) # {}

Answered(t, b, outcomes) == Cardinality(Matching(t, b, outcomes)) = 1
Answer(t, b, outcomes)   == outcomes[CHOOSE n \in Matching(t, b, outcomes) : TRUE]

(* Mutant: a source that denies access has nothing to say.                   *)
DenialIsEmpty(o) == o.status \in {"ok", "none", "denied"}

Complete(o) == o.status \in {"ok", "none"} /\ o.complete

Satisfied(t, b, outcomes) ==
  Answered(t, b, outcomes) /\ Complete(Answer(t, b, outcomes))

Malformed(p, t, outcomes) ==
  \E b \in p.targets[t].bindings :
    Answered(t, b, outcomes) /\ ~ValidOutcome(p, t, b, Answer(t, b, outcomes))

Uncovered(p, t, outcomes) ==
  \E b \in p.targets[t].bindings : b.required /\ ~Satisfied(t, b, outcomes)

Approved(p, t, outcomes) ==
  UNION {Answer(t, b, outcomes).candidates :
           b \in {c \in p.targets[t].bindings : Satisfied(t, c, outcomes)}}

(* Mutant: contents of one source do not contradict each other.              *)
ContradictoryAcrossSources(items) ==
  Cardinality({i.content : i \in items}) > 1 /\ Cardinality({i.source : i \in items}) > 1

Contradictory(items) == Cardinality({i.content : i \in items}) > 1

OverBudget(p, items) ==
  Cardinality(items) > p.limits.items \/ \E i \in items : i.bytes > p.limits.content

StateOf(p, t, outcomes) ==
  LET items == Approved(p, t, outcomes) IN
  IF Uncovered(p, t, outcomes) THEN "unavailable"
  ELSE IF Contradictory(items)
    THEN IF p.ambiguity /\ Cardinality({i.source : i \in items}) = 1 THEN "ambiguous" ELSE "conflict"
  ELSE IF items = {} THEN "none"
  ELSE IF OverBudget(p, items) THEN "unavailable"
  ELSE "grounded"

Group(p, t, outcomes) ==
  LET state == StateOf(p, t, outcomes) IN
  [authority |-> p.targets[t].authority, state |-> state,
   items |-> IF state = "grounded" THEN Approved(p, t, outcomes) ELSE {}]

Frame(p, targets, outcomes) == [t \in targets |-> Group(p, t, outcomes)]

ItemsOf(frame) == UNION {frame[t].items : t \in DOMAIN frame}

FrameBytes(frame) == MapThenSumSet(LAMBDA i : i.bytes, ItemsOf(frame))

(* build_frame raises no error.                                              *)
Buildable(p, targets, outcomes) ==
  /\ \A t \in targets : ~Malformed(p, t, outcomes)
  /\ FrameBytes(Frame(p, targets, outcomes)) <= p.limits.frame

-----------------------------------------------------------------------------
(* What follows from a frame.                                                *)

UnresolvedStates(frame) ==
  {frame[t].state : t \in {u \in DOMAIN frame : frame[u].authority = "authoritative"}}
    \intersect Unresolved

(* host_short_circuit_reply: the worst unresolved state decides.             *)
Precedence  == <<"conflict", "ambiguous", "unavailable", "none">>
Disposition == [conflict |-> "conflict", ambiguous |-> "clarify",
                unavailable |-> "unavailable", none |-> "abstain"]

WorstState(frame) ==
  Precedence[Min({n \in DOMAIN Precedence : Precedence[n] \in UnresolvedStates(frame)})]

(* host_grounded_scalar_reply: the one scalar of the one item.               *)
GroundedScalars(frame) ==
  {c \in {i.content : i \in ItemsOf(frame)} :
     /\ Cardinality(DOMAIN frame) = 1
     /\ Cardinality(ItemsOf(frame)) = 1
     /\ c.kind = "scalar" /\ c.unit # "" /\ <<c.value, c.unit>> # <<"", NoUnit>>}

(* Mutant: a group without items has nothing to say, whatever its state.     *)
EmptyGroups(frame) ==
  \A t \in DOMAIN frame : frame[t].authority = "supplemental" /\ frame[t].items = {}

(* supplemental_empty_frame, or nothing was routed.                          *)
Ordinary(frame) ==
  \A t \in DOMAIN frame :
    /\ frame[t].authority = "supplemental"
    /\ frame[t].state \in {"none", "unavailable"}
    /\ frame[t].items = {}
=============================================================================
