-------------------------- MODULE Grounding_proofs --------------------------
(***************************************************************************)
(* Proofs about grounded answers.  First GroundingDelivery: the outcomes   *)
(* of the sources, the frame built of them and what is delivered on it,    *)
(* for every set of profiles, preparations and routes and any number of    *)
(* outcomes.  Then EvidenceDelivery, whose state is its own: the search,   *)
(* the projections and the context fit, for every corpus, pool, query,     *)
(* budget and ladder of tiers.                                             *)
(***************************************************************************)
EXTENDS GroundingDelivery, EvidenceDelivery, FiniteSetTheorems, SequenceTheorems, WellFoundedInduction, TLAPS

-----------------------------------------------------------------------------
(* The evidence policy.                                                      *)

(* A binding is answered when exactly one outcome matches it.                *)
LEMMA OneMatch ==
  ASSUME NEW S, NEW s \in Seq(S), NEW t, NEW b
  PROVE  /\ Answered(t, b, s) <=> \E n \in DOMAIN s : Matching(t, b, s) = {n}
         /\ \A n : Matching(t, b, s) = {n} => Answer(t, b, s) = s[n] /\ n \in DOMAIN s
<1>1. IsFiniteSet(DOMAIN s)
  <2>1. Len(s) \in Nat /\ DOMAIN s = 1 .. Len(s)
    OBVIOUS
  <2> QED BY <2>1, FS_Interval
<1>2. Matching(t, b, s) \subseteq DOMAIN s
  BY DEF Matching
<1>3. IsFiniteSet(Matching(t, b, s))
  BY <1>1, <1>2, FS_Subset
<1>4. Cardinality(Matching(t, b, s)) = 1 <=> \E n : Matching(t, b, s) = {n}
  BY <1>3, FS_Singleton
<1>5. ASSUME NEW n, Matching(t, b, s) = {n} PROVE Answer(t, b, s) = s[n] /\ n \in DOMAIN s
  BY <1>2, <1>5 DEF Answer
<1> QED BY <1>2, <1>4, <1>5 DEF Answered

(* Items without a contradiction have one content.                           *)
LEMMA Agreement ==
  ASSUME NEW items, IsFiniteSet(items), ~Contradictory(items)
  PROVE  \A i, j \in items : i.content = j.content
<1> DEFINE contents == {i.content : i \in items}
           f == [i \in items |-> i.content]
<1>1. f \in Surjection(items, contents)
  BY DEF Surjection
<1>2. IsFiniteSet(contents)
  BY <1>1, FS_Surjection
<1>3. Cardinality(contents) = 0 \/ Cardinality(contents) = 1
  <2>1. Cardinality(contents) \in Nat /\ ~(Cardinality(contents) > 1)
    BY <1>2, FS_CardinalityType DEF Contradictory
  <2> QED BY <2>1
<1>4. contents = {} \/ \E c : contents = {c}
  BY <1>2, <1>3, FS_EmptySet, FS_Singleton
<1>5. ASSUME NEW i \in items, NEW j \in items PROVE i.content = j.content
  <2>1. i.content \in contents /\ j.content \in contents
    OBVIOUS
  <2> QED BY <1>4, <2>1
<1> QED BY <1>5

(* What each state of a target says of its outcomes.                         *)
LEMMA StateMeaning ==
  ASSUME NEW p, NEW t, NEW s
  PROVE  /\ StateOf(p, t, s) \in States
         /\ StateOf(p, t, s) = "none" => ~Uncovered(p, t, s) /\ Approved(p, t, s) = {}
         /\ StateOf(p, t, s) = "grounded" =>
              /\ ~Uncovered(p, t, s)
              /\ ~Contradictory(Approved(p, t, s))
              /\ Approved(p, t, s) # {}
BY DEF StateOf, States, Unresolved

(* A group of outcomes is the part of the list that belongs to it.           *)
LEMMA GroupMeaning ==
  ASSUME NEW p, NEW T, NEW s, NEW t \in T
  PROVE  /\ DOMAIN Frame(p, T, s) = T
         /\ Frame(p, T, s)[t].authority = p.targets[t].authority
         /\ Frame(p, T, s)[t].state = StateOf(p, t, s)
         /\ Frame(p, T, s)[t].items = IF StateOf(p, t, s) = "grounded" THEN Approved(p, t, s) ELSE {}
BY DEF Frame, Group

-----------------------------------------------------------------------------
(* What a frame rests on, in a state that satisfies the invariant.           *)

(* The frame in the state is the one its outcomes make.                      *)
LEMMA FrameIsTheirs ==
  ASSUME DeliveryInv, frame # None
  PROVE  FrameFollows
BY DEF DeliveryInv, FrameSound

(* A binding that counts was answered once, validly and to the end.          *)
LEMMA Counted ==
  ASSUME RequestSound, FrameFollows, NEW t \in targets,
         NEW b \in profile.targets[t].bindings, Satisfied(t, b, outcomes)
  PROVE  \E n \in DOMAIN outcomes :
           /\ Matching(t, b, outcomes) = {n}
           /\ Answer(t, b, outcomes) = outcomes[n]
           /\ outcomes[n].status \in {"ok", "none"}
           /\ outcomes[n].status = "ok" <=> outcomes[n].candidates # {}
           /\ \A i \in outcomes[n].candidates :
                i.target = t /\ i.source \in SourcesOf(b) /\ i \in profile.items
<1>1. PICK n \in DOMAIN outcomes : Matching(t, b, outcomes) = {n}
  BY OneMatch DEF RequestSound, Satisfied
<1>2. Answer(t, b, outcomes) = outcomes[n]
  BY <1>1, OneMatch DEF RequestSound
<1>3. ValidOutcome(profile, t, b, outcomes[n])
  BY <1>2 DEF FrameFollows, Malformed, Satisfied
<1>4. outcomes[n].status \in {"ok", "none"}
  BY <1>2 DEF Satisfied, Complete
<1> QED BY <1>1, <1>2, <1>3, <1>4 DEF ValidOutcome, Failures

(* Approved evidence is of the profile and of finitely many items.           *)
LEMMA ApprovedIsBound ==
  ASSUME RequestSound, FrameFollows, NEW t \in targets
  PROVE  /\ Approved(profile, t, outcomes) \subseteq profile.items
         /\ IsFiniteSet(Approved(profile, t, outcomes))
         /\ \A i \in Approved(profile, t, outcomes) :
              /\ i.target = t
              /\ \E b \in profile.targets[t].bindings :
                   i.source \in SourcesOf(b) /\ CameOnce(t, b, {"ok"})
<1>1. ASSUME NEW i \in Approved(profile, t, outcomes)
      PROVE  /\ i \in profile.items
             /\ i.target = t
             /\ \E b \in profile.targets[t].bindings :
                  i.source \in SourcesOf(b) /\ CameOnce(t, b, {"ok"})
  <2>1. PICK b \in profile.targets[t].bindings :
          Satisfied(t, b, outcomes) /\ i \in Answer(t, b, outcomes).candidates
    BY DEF Approved
  <2>2. PICK n \in DOMAIN outcomes :
           /\ Matching(t, b, outcomes) = {n}
           /\ Answer(t, b, outcomes) = outcomes[n]
           /\ outcomes[n].status = "ok" <=> outcomes[n].candidates # {}
           /\ \A j \in outcomes[n].candidates :
                j.target = t /\ j.source \in SourcesOf(b) /\ j \in profile.items
    BY <2>1, Counted
  <2> QED BY <2>1, <2>2 DEF CameOnce
<1>2. Approved(profile, t, outcomes) \subseteq profile.items
  BY <1>1
<1>3. IsFiniteSet(profile.items)
  BY ProfilesAssumption DEF RequestSound
<1>4. IsFiniteSet(Approved(profile, t, outcomes))
  BY <1>2, <1>3, FS_Subset
<1> QED BY <1>1, <1>2, <1>4

(* A covered target has one answer from every required source.               *)
LEMMA CoverageOfTarget ==
  ASSUME RequestSound, FrameFollows, NEW t \in targets, ~Uncovered(profile, t, outcomes),
         NEW b \in profile.targets[t].bindings, b.required
  PROVE  /\ Satisfied(t, b, outcomes)
         /\ CameOnce(t, b, {"ok", "none"})
         /\ Approved(profile, t, outcomes) = {} => CameOnce(t, b, {"none"})
<1>1. Satisfied(t, b, outcomes)
  BY DEF Uncovered
<1>2. PICK n \in DOMAIN outcomes :
         /\ Matching(t, b, outcomes) = {n}
         /\ Answer(t, b, outcomes) = outcomes[n]
         /\ outcomes[n].status \in {"ok", "none"}
         /\ outcomes[n].status = "ok" <=> outcomes[n].candidates # {}
  BY <1>1, Counted
<1>3. outcomes[n].candidates \subseteq Approved(profile, t, outcomes)
  BY <1>1, <1>2 DEF Approved
<1> QED BY <1>1, <1>2, <1>3 DEF CameOnce

(* A source that came once brought nothing that does not count.              *)
LEMMA NothingLeftOut ==
  ASSUME RequestSound, FrameFollows, NEW t \in targets,
         NEW b \in profile.targets[t].bindings, NEW n \in DOMAIN outcomes,
         Matching(t, b, outcomes) = {n}
  PROVE  outcomes[n].candidates \subseteq Approved(profile, t, outcomes)
<1>1. Answered(t, b, outcomes) /\ Answer(t, b, outcomes) = outcomes[n]
  BY OneMatch DEF RequestSound
<1>2. ValidOutcome(profile, t, b, outcomes[n])
  BY <1>1 DEF FrameFollows, Malformed
<1>3. CASE Complete(outcomes[n])
  BY <1>1, <1>3 DEF Approved, Satisfied
<1>4. CASE ~Complete(outcomes[n])
  BY <1>2, <1>4 DEF ValidOutcome, Complete
<1> QED BY <1>3, <1>4

-----------------------------------------------------------------------------
(* The invariant is inductive.                                               *)

(* No request has been prepared yet.                                         *)
LEMMA InitEstablishes == Init => DeliveryInv
<1> SUFFICES ASSUME Init PROVE DeliveryInv
  OBVIOUS
<1>1. RequestSound
  BY DEF Init, RequestSound
<1>2. FrameSound /\ DeliverySound
  BY DEF Init, FrameSound, DeliverySound
<1> QED BY <1>1, <1>2 DEF Init, DeliveryInv

(* Routing starts a request afresh.                                          *)
LEMMA RouteKeeps ==
  ASSUME DeliveryInv, NEW matched \in SUBSET Routes, Route(matched)
  PROVE  DeliveryInv'
<1>1. targets' \subseteq Targets'
  <2>1. UNION matched \subseteq DOMAIN profile.targets
    BY ProfilesAssumption DEF DeliveryInv, RequestSound
  <2> QED BY <2>1 DEF Route, Targets, sessionVars
<1>2. RequestSound'
  BY <1>1 DEF DeliveryInv, RequestSound, Route, ProviderOutcomes, Targets, sessionVars
<1>3. stage' \in {"retrieving", "refused"} /\ frame' = None /\ delivery' = None
  BY DEF Route, DeliveryInv, FrameSound, DeliverySound
<1> QED BY <1>2, <1>3 DEF DeliveryInv, FrameSound, DeliverySound

(* An outcome of its type is added to the others.                            *)
LEMMA ReceiveKeeps ==
  ASSUME DeliveryInv, NEW o \in ProviderOutcomes, Receive(o)
  PROVE  DeliveryInv'
<1>1. outcomes' \in Seq(ProviderOutcomes)
  BY DEF DeliveryInv, RequestSound, Receive
<1>2. RequestSound'
  BY <1>1 DEF DeliveryInv, RequestSound, Receive, ProviderOutcomes, Targets, sessionVars
<1>3. stage' = "retrieving" /\ frame' = None /\ delivery' = None
  BY DEF Receive, DeliveryInv, FrameSound, DeliverySound
<1> QED BY <1>2, <1>3 DEF DeliveryInv, FrameSound, DeliverySound

(* What a provider may report is an outcome.                                 *)
LEMMA OutcomeType ==
  ASSUME NEW t \in Targets, NEW b \in profile.targets[t].bindings,
         NEW status \in Failures \union {"ok", "none"}, NEW C \in SUBSET profile.items
  PROVE  Outcome(t, b, status, C) \in ProviderOutcomes
<1>1. b \in UNION {profile.targets[u].bindings : u \in Targets}
  OBVIOUS
<1>2. /\ b.provider \in {c.provider : c \in UNION {profile.targets[u].bindings : u \in Targets}}
      /\ b.refs \in {c.refs : c \in UNION {profile.targets[u].bindings : u \in Targets}}
  BY <1>1
<1>3. (status \notin Failures) \in BOOLEAN /\ (status \in Failures) \in BOOLEAN
  OBVIOUS
<1> QED BY <1>2, <1>3 DEF Outcome, ProviderOutcomes

(* The providers answer before a frame is built.                             *)
LEMMA ProvidersKeep ==
  ASSUME DeliveryInv, NEW t \in targets, NEW b \in profile.targets[t].bindings,
         Retrieve(t, b) \/ Fails(t, b) \/ Misbehaves(t, b)
  PROVE  DeliveryInv'
<1>0. t \in Targets
  BY DEF DeliveryInv, RequestSound
<1>1. CASE Retrieve(t, b)
  <2>1. PICK matched \in SUBSET Indexed(t, b) : Receive(LocalOutcome(profile, t, b, matched))
    BY <1>1 DEF Retrieve
  <2>2. matched \in SUBSET profile.items
    BY DEF Indexed
  <2>3. LocalOutcome(profile, t, b, matched) \in ProviderOutcomes
    BY <1>0, <2>2, OutcomeType DEF LocalOutcome, Failures
  <2> QED BY <2>1, <2>3, ReceiveKeeps
<1>2. CASE Fails(t, b)
  <2>1. PICK status \in Failures : Receive(Outcome(t, b, status, {}))
    BY <1>2 DEF Fails
  <2>2. Outcome(t, b, status, {}) \in ProviderOutcomes
    BY <1>0, OutcomeType
  <2> QED BY <2>1, <2>2, ReceiveKeeps
<1>3. CASE Misbehaves(t, b)
  <2>1. Outcome(t, b, "none", {}) \in ProviderOutcomes
    BY <1>0, OutcomeType
  <2>2. /\ [Outcome(t, b, "none", {}) EXCEPT !.complete = FALSE] \in ProviderOutcomes
        /\ [Outcome(t, b, "none", {}) EXCEPT !.bound = FALSE] \in ProviderOutcomes
    BY <2>1 DEF ProviderOutcomes
  <2>3. ASSUME NEW i \in profile.items PROVE Outcome(t, b, "ok", {i}) \in ProviderOutcomes
    BY <1>0, OutcomeType
  <2> QED BY <1>3, <2>2, <2>3, ReceiveKeeps DEF Misbehaves
<1> QED BY <1>1, <1>2, <1>3

(* A repeated request finds what the first one found.                        *)
LEMMA RepeatKeeps ==
  ASSUME DeliveryInv, Repeat PROVE DeliveryInv'
<1>1. PICK n \in DOMAIN outcomes : Receive(outcomes[n])
  BY DEF Repeat
<1>2. outcomes[n] \in ProviderOutcomes
  BY DEF DeliveryInv, RequestSound
<1> QED BY <1>1, <1>2, ReceiveKeeps

(* The frame of the outcomes at hand, or none.                               *)
LEMMA BuildKeeps ==
  ASSUME DeliveryInv, Build PROVE DeliveryInv'
<1>1. RequestSound'
  BY DEF Build, Stop, DeliveryInv, RequestSound, ProviderOutcomes, Targets, sessionVars
<1>2. delivery' = None
  BY DEF Build, DeliveryInv, DeliverySound
<1>3. CASE Buildable(profile, targets, outcomes)
  <2>1. /\ stage' = "framed"
        /\ frame' = Frame(profile, targets, outcomes)
        /\ \A t \in targets : ~Malformed(profile, t, outcomes)
        /\ UNCHANGED <<profile, targets, outcomes>>
    BY <1>3 DEF Build, Stop, Buildable, sessionVars
  <2>2. FrameFollows'
    BY <2>1 DEF FrameFollows
  <2> QED BY <1>1, <1>2, <2>1, <2>2 DEF DeliveryInv, FrameSound, DeliverySound
<1>4. CASE ~Buildable(profile, targets, outcomes)
  <2>1. stage' = "refused" /\ frame' = None
    BY <1>4 DEF Build, Stop, DeliveryInv, FrameSound
  <2> QED BY <1>1, <1>2, <2>1 DEF DeliveryInv, FrameSound, DeliverySound
<1> QED BY <1>3, <1>4

(* A decision leaves the request and its frame alone.                        *)
LEMMA DecisionKeeps ==
  ASSUME DeliveryInv, stage = "framed", UNCHANGED <<profile, targets, outcomes, frame>>,
         \/ stage' = "refused" /\ delivery' = None
         \/ stage' = "delivered" /\ DeliverySound'
  PROVE  DeliveryInv'
<1>1. RequestSound'
  BY DEF DeliveryInv, RequestSound, ProviderOutcomes, Targets
<1>2. FrameFollows'
  BY DEF DeliveryInv, FrameSound, FrameFollows
<1> QED BY <1>1, <1>2 DEF DeliveryInv, FrameSound, DeliverySound

(* No disposition of an unresolved state is an answer.                       *)
LEMMA UnresolvedIsNoAnswer ==
  ASSUME ShortCircuits
  PROVE  Disposition[WorstState(frame)] # "answer"
<1> DEFINE ranks == {n \in DOMAIN Precedence : Precedence[n] \in UnresolvedStates(frame)}
<1>1. DOMAIN Precedence = 1 .. 4
  BY DEF Precedence
<1>2. ranks # {}
  <2>1. PICK u : u \in UnresolvedStates(frame)
    BY DEF ShortCircuits
  <2>2. u \in {"conflict", "ambiguous", "unavailable", "none"}
    BY <2>1 DEF UnresolvedStates, Unresolved
  <2>3. \E n \in 1 .. 4 : Precedence[n] = u
    <3>1. /\ Precedence[1] = "conflict" /\ Precedence[2] = "ambiguous"
          /\ Precedence[3] = "unavailable" /\ Precedence[4] = "none"
      BY DEF Precedence
    <3> QED BY <2>2, <3>1
  <2> QED BY <1>1, <2>1, <2>3
<1>3. \E n \in ranks : \A m \in ranks : n <= m
  <2>1. ranks \subseteq {1, 2, 3, 4}
    BY <1>1
  <2> QED BY <1>2, <2>1
<1>4. Min(ranks) \in 1 .. 4
  BY <1>1, <1>3 DEF Min
<1>5. WorstState(frame) \in {"conflict", "ambiguous", "unavailable", "none"}
  <2>1. WorstState(frame) = Precedence[Min(ranks)]
    BY DEF WorstState
  <2>2. Min(ranks) \in {1, 2, 3, 4}
    BY <1>4
  <2> QED BY <2>1, <2>2 DEF Precedence
<1> QED BY <1>5 DEF Disposition

(* The two deliveries that reach no model: no evidence, or the one item of   *)
(* the one target.                                                           *)
LEMMA HostDecides ==
  ASSUME DeliveryInv, ShortCircuit \/ AnswerFromEvidence PROVE DeliveryInv'
<1>1. CASE ShortCircuit
  <2>1. /\ stage = "framed" /\ ShortCircuits /\ stage' = "delivered"
        /\ UNCHANGED <<profile, targets, outcomes, frame>>
        /\ delivery' = HostReplies("host-unresolved-state", Disposition[WorstState(frame)], None)
    BY <1>1 DEF ShortCircuit, Stop, sessionVars
  <2>2. ~delivery'.called /\ delivery'.disposition # "answer"
    BY <2>1, UnresolvedIsNoAnswer DEF HostReplies
  <2> QED BY <2>1, <2>2, DecisionKeeps DEF DeliverySound
<1>2. CASE AnswerFromEvidence
  <2>1. PICK a \in HostAnswers :
          stage' = "delivered" /\ delivery' = HostReplies("host-grounded-scalar", "answer", a)
    BY <1>2 DEF AnswerFromEvidence, Stop
  <2>2. stage = "framed" /\ UNCHANGED <<profile, prepared, rewritten, targets, outcomes, frame>>
    BY <1>2 DEF AnswerFromEvidence, Stop, sessionVars
  <2>3. HostAnswers' = HostAnswers
    BY <2>2 DEF HostAnswers, Typed
  <2>4. ~delivery'.called /\ delivery'.answer = a
    BY <2>1 DEF HostReplies
  <2> QED BY <2>1, <2>2, <2>3, <2>4, DecisionKeeps DEF DeliverySound
<1> QED BY <1>1, <1>2

(* A model is asked on the frame at hand.                                    *)
LEMMA ModelIsAsked ==
  ASSUME DeliveryInv, NEW fits \in BOOLEAN, AskWithHits(fits) \/ AskOrdinary \/ AskGrounded(fits)
  PROVE  DeliveryInv'
<1>1. /\ stage = "framed" /\ ~ShortCircuits
      /\ UNCHANGED <<profile, targets, outcomes, frame>>
  BY DEF AskWithHits, AskOrdinary, AskGrounded, LeftToModel, Stop, sessionVars
<1>2. ShortCircuits' = ShortCircuits /\ Ordinary(frame)' = Ordinary(frame)
  BY <1>1 DEF ShortCircuits
<1>3. delivery = None
  BY <1>1 DEF DeliveryInv, DeliverySound
<1>4. \/ stage' = "refused" /\ delivery' = None
      \/ /\ stage' = "delivered"
         /\ delivery'.key = delivery'.system
         /\ delivery'.disposition = None
         /\ IF delivery'.route = "grounded-context" THEN delivery'.evidence = frame ELSE Ordinary(frame)
  <2>1. CASE AskWithHits(fits)
    BY <1>1, <1>3, <2>1 DEF AskWithHits, Stop, Asks, Prompt
  <2>2. CASE AskOrdinary
    BY <1>1, <2>2 DEF AskOrdinary, Stop, Asks, Prompt
  <2>3. CASE AskGrounded(fits)
    BY <1>1, <1>3, <2>3 DEF AskGrounded, Stop, Asks, Prompt
  <2> QED BY <2>1, <2>2, <2>3
<1> QED BY <1>1, <1>2, <1>4, DecisionKeeps, NoneAssumption DEF DeliverySound

(* The next request forgets the last one.                                    *)
LEMMA NextRequestKeeps ==
  ASSUME DeliveryInv, NextRequest PROVE DeliveryInv'
<1>1. RequestSound'
  BY DEF NextRequest, DeliveryInv, RequestSound, ProviderOutcomes, Targets, sessionVars
<1>2. stage' = "idle" /\ frame' = None /\ delivery' = None
  BY DEF NextRequest
<1> QED BY <1>1, <1>2 DEF DeliveryInv, FrameSound, DeliverySound

(* The invariant is about the state alone.                                   *)
LEMMA StutterKeeps ==
  ASSUME DeliveryInv, UNCHANGED vars PROVE DeliveryInv'
<1>1. RequestSound'
  BY DEF vars, sessionVars, DeliveryInv, RequestSound, ProviderOutcomes, Targets
<1>2. FrameSound'
  BY DEF vars, sessionVars, DeliveryInv, FrameSound, FrameFollows
<1>3. DeliverySound'
  <2>1. ShortCircuits' = ShortCircuits /\ HostAnswers' = HostAnswers
    BY DEF vars, sessionVars, ShortCircuits, HostAnswers, Typed
  <2> QED BY <2>1 DEF vars, DeliveryInv, DeliverySound
<1> QED BY <1>1, <1>2, <1>3 DEF vars, DeliveryInv

(* The frame is always that of the outcomes the host holds, and whatever was *)
(* delivered was decided on it.                                              *)
THEOREM DeliveryInvHolds == Spec => []DeliveryInv
<1>1. DeliveryInv /\ [Next]_vars => DeliveryInv'
  <2> SUFFICES ASSUME DeliveryInv, [Next]_vars PROVE DeliveryInv'
    OBVIOUS
  <2>1. CASE \E matched \in SUBSET Routes : Route(matched)
    BY <2>1, RouteKeeps
  <2>2. CASE \E t \in targets : \E b \in profile.targets[t].bindings :
               Retrieve(t, b) \/ Fails(t, b) \/ Misbehaves(t, b)
    BY <2>2, ProvidersKeep
  <2>3. CASE Repeat
    BY <2>3, RepeatKeeps
  <2>4. CASE Build
    BY <2>4, BuildKeeps
  <2>5. CASE ShortCircuit \/ AnswerFromEvidence
    BY <2>5, HostDecides
  <2>6. CASE AskOrdinary \/ \E fits \in BOOLEAN : AskWithHits(fits) \/ AskGrounded(fits)
    BY <2>6, ModelIsAsked
  <2>7. CASE NextRequest
    BY <2>7, NextRequestKeeps
  <2>8. CASE UNCHANGED vars
    BY <2>8, StutterKeeps
  <2> QED BY <2>1, <2>2, <2>3, <2>4, <2>5, <2>6, <2>7, <2>8 DEF Next
<1> QED BY <1>1, InitEstablishes, PTL DEF Spec

-----------------------------------------------------------------------------
(* What the invariant says of the deliveries.                                *)

(* "none" is always proven absence (grounding_runtime.py:717-731).           *)
THEOREM AbsenceIsProven == Spec => []NoHitIsProven
<1>1. DeliveryInv => NoHitIsProven
  <2> SUFFICES ASSUME DeliveryInv, frame # None,
                      NEW t \in DOMAIN frame, frame[t].state = "none",
                      NEW b \in profile.targets[t].bindings, b.required
               PROVE  CameOnce(t, b, {"none"})
    BY DEF NoHitIsProven
  <2>1. FrameFollows /\ RequestSound
    BY FrameIsTheirs DEF DeliveryInv
  <2>2. t \in targets /\ StateOf(profile, t, outcomes) = "none"
    BY <2>1, GroupMeaning DEF FrameFollows, Frame
  <2> QED BY <2>1, <2>2, StateMeaning, CoverageOfTarget
<1> QED BY <1>1, DeliveryInvHolds, PTL

(* A grounded target rests on everything that came for it                    *)
(* (grounding_runtime.py:733-781).                                           *)
THEOREM GroundingRestsOnAll == Spec => []GroundedOnEverything
<1>1. DeliveryInv => GroundedOnEverything
  <2> SUFFICES ASSUME DeliveryInv, frame # None,
                      NEW t \in DOMAIN frame, frame[t].state = "grounded"
               PROVE  /\ \A b \in profile.targets[t].bindings :
                           /\ b.required => CameOnce(t, b, {"ok", "none"})
                           /\ \A n \in DOMAIN outcomes :
                                Matching(t, b, outcomes) = {n} =>
                                  outcomes[n].candidates \subseteq frame[t].items
                      /\ \A i \in frame[t].items :
                           /\ i.target = t
                           /\ \E b \in profile.targets[t].bindings :
                                i.source \in SourcesOf(b) /\ CameOnce(t, b, {"ok"})
                           /\ \A j \in frame[t].items : i.content = j.content
    BY DEF GroundedOnEverything
  <2>1. FrameFollows /\ RequestSound
    BY FrameIsTheirs DEF DeliveryInv
  <2>2. /\ t \in targets
        /\ StateOf(profile, t, outcomes) = "grounded"
        /\ frame[t].items = Approved(profile, t, outcomes)
    BY <2>1, GroupMeaning DEF FrameFollows, Frame
  <2>3. ~Uncovered(profile, t, outcomes) /\ ~Contradictory(Approved(profile, t, outcomes))
    BY <2>2, StateMeaning
  <2>4. \A i, j \in frame[t].items : i.content = j.content
    BY <2>1, <2>2, <2>3, ApprovedIsBound, Agreement
  <2>5. \A b \in profile.targets[t].bindings :
          /\ b.required => CameOnce(t, b, {"ok", "none"})
          /\ \A n \in DOMAIN outcomes :
               Matching(t, b, outcomes) = {n} => outcomes[n].candidates \subseteq frame[t].items
    BY <2>1, <2>2, <2>3, CoverageOfTarget, NothingLeftOut
  <2>6. \A i \in frame[t].items :
          /\ i.target = t
          /\ \E b \in profile.targets[t].bindings :
               i.source \in SourcesOf(b) /\ CameOnce(t, b, {"ok"})
    BY <2>1, <2>2, ApprovedIsBound
  <2> QED BY <2>4, <2>5, <2>6
<1> QED BY <1>1, DeliveryInvHolds, PTL

(* A model that is asked without the frame is asked about supplemental       *)
(* targets alone, and evidence of a target is only kept from it when the     *)
(* target is unavailable; with the frame it sees of an authoritative target  *)
(* what all required sources agree on, or why there is nothing to see        *)
(* (grounding_engine.py:400-435, 523).                                       *)
THEOREM NoGuessing == Spec => []ModelNeverGuesses
<1>1. DeliveryInv => ModelNeverGuesses
  <2> SUFFICES ASSUME DeliveryInv, delivery # None, delivery.called
               PROVE  ModelNeverGuesses
    BY DEF ModelNeverGuesses
  <2>1. /\ FrameFollows /\ RequestSound
        /\ IF delivery.route = "grounded-context" THEN delivery.evidence = frame ELSE Ordinary(frame)
    BY DEF DeliveryInv, FrameSound, DeliverySound
  <2>2. DOMAIN frame = targets
    BY <2>1 DEF FrameFollows, Frame
  <2>3. \A t \in targets :
          /\ frame[t].authority = profile.targets[t].authority
          /\ frame[t].state = StateOf(profile, t, outcomes)
          /\ frame[t].items = IF frame[t].state = "grounded" THEN Approved(profile, t, outcomes) ELSE {}
    BY <2>1, GroupMeaning DEF FrameFollows
  <2>4. ASSUME NEW t \in targets, frame[t].state = "grounded"
        PROVE  /\ \A b \in profile.targets[t].bindings : b.required => CameOnce(t, b, {"ok", "none"})
               /\ frame[t].items = Approved(profile, t, outcomes)
               /\ Cardinality({i.content : i \in frame[t].items}) = 1
    <3> DEFINE items == Approved(profile, t, outcomes)
    <3>1. StateOf(profile, t, outcomes) = "grounded" /\ frame[t].items = items
      BY <2>3, <2>4
    <3>2. ~Uncovered(profile, t, outcomes) /\ ~Contradictory(items) /\ items # {}
      BY <3>1, StateMeaning
    <3>3. \A i, j \in items : i.content = j.content
      BY <2>1, <3>2, ApprovedIsBound, Agreement
    <3>4. PICK i : i \in items
      BY <3>2
    <3>5. {j.content : j \in items} = {i.content}
      BY <3>3, <3>4
    <3>6. Cardinality({i.content}) = 1
      BY FS_Singleton
    <3> QED BY <2>1, <3>1, <3>2, <3>5, <3>6, CoverageOfTarget
  <2>5. ASSUME NEW t \in targets, frame[t].state # "grounded"
        PROVE  frame[t].state \in Unresolved /\ frame[t].items = {}
    BY <2>3, <2>5, StateMeaning DEF States
  <2>6. CASE delivery.route = "grounded-context"
    BY <2>1, <2>4, <2>5, <2>6 DEF ModelNeverGuesses
  <2>7. CASE delivery.route # "grounded-context"
    <3>1. \A t \in targets : /\ frame[t].authority = "supplemental"
                             /\ frame[t].state \in {"none", "unavailable"}
      BY <2>1, <2>2, <2>7 DEF Ordinary
    <3>2. ASSUME NEW t \in targets, Approved(profile, t, outcomes) # {}
          PROVE  frame[t].state = "unavailable"
      BY <2>3, <3>1, <3>2, StateMeaning
    <3> QED BY <2>3, <2>7, <3>1, <3>2 DEF ModelNeverGuesses
  <2> QED BY <2>6, <2>7
<1> QED BY <1>1, DeliveryInvHolds, PTL

(* The host answers alone only what was looked up, of one target, with the   *)
(* one item it has (grounding_engine.py:413-417, 555-582).                   *)
THEOREM HostAnswersAreEvidence == Spec => []HostAnswersFromEvidence
<1>1. DeliveryInv => HostAnswersFromEvidence
  <2> SUFFICES ASSUME DeliveryInv, delivery # None, delivery.disposition = "answer"
               PROVE  \E t \in targets, i \in profile.items :
                        /\ targets = {t} /\ ~rewritten
                        /\ Approved(profile, t, outcomes) = {i}
                        /\ delivery.answer \in Typed(i.content) \intersect prepared.accepts
    BY DEF HostAnswersFromEvidence
  <2>1. FrameFollows /\ RequestSound /\ delivery.answer \in HostAnswers
    BY DEF DeliveryInv, FrameSound, DeliverySound
  <2>2. ~rewritten /\ \E c \in GroundedScalars(frame) :
                         delivery.answer \in Typed(c) \intersect prepared.accepts
    BY <2>1 DEF HostAnswers
  <2>3. PICK c \in GroundedScalars(frame) : delivery.answer \in Typed(c) \intersect prepared.accepts
    BY <2>2
  <2>4. /\ DOMAIN frame = targets
        /\ Cardinality(targets) = 1 /\ Cardinality(ItemsOf(frame)) = 1
        /\ c \in {i.content : i \in ItemsOf(frame)}
    BY <2>1, <2>3 DEF GroundedScalars, FrameFollows, Frame
  <2>5. PICK t : targets = {t}
    <3>1. IsFiniteSet(DOMAIN profile.targets) /\ targets \subseteq DOMAIN profile.targets
      BY <2>1, ProfilesAssumption DEF RequestSound, Targets
    <3>2. IsFiniteSet(targets)
      BY <3>1, FS_Subset
    <3> QED BY <2>4, <3>2, FS_Singleton
  <2>6. t \in targets
    BY <2>5
  <2>7. /\ ItemsOf(frame) = frame[t].items
        /\ frame[t].items = {} \/ frame[t].items = Approved(profile, t, outcomes)
    <3>1. ItemsOf(frame) = frame[t].items
      BY <2>4, <2>5 DEF ItemsOf
    <3>2. frame[t].items = IF StateOf(profile, t, outcomes) = "grounded"
                             THEN Approved(profile, t, outcomes) ELSE {}
      BY <2>1, <2>6, GroupMeaning DEF FrameFollows
    <3> QED BY <3>1, <3>2
  <2>8. frame[t].items = Approved(profile, t, outcomes)
    BY <2>4, <2>7
  <2>9. PICK i : ItemsOf(frame) = {i}
    <3>1. IsFiniteSet(ItemsOf(frame))
      BY <2>1, <2>6, <2>7, <2>8, ApprovedIsBound
    <3> QED BY <2>4, <3>1, FS_Singleton
  <2>10. i \in profile.items /\ c = i.content
    BY <2>1, <2>4, <2>6, <2>7, <2>8, <2>9, ApprovedIsBound
  <2> QED BY <2>2, <2>3, <2>5, <2>6, <2>7, <2>8, <2>9, <2>10
<1> QED BY <1>1, DeliveryInvHolds, PTL

(* A prefix key is only named for the prompt that is sent                    *)
(* (grounding_engine.py:433-532).                                            *)
THEOREM KeysNamePrompts == Spec => []PrefixKeyNamesPrompt
<1>1. DeliveryInv => PrefixKeyNamesPrompt
  BY DEF DeliveryInv, DeliverySound, PrefixKeyNamesPrompt
<1> QED BY <1>1, DeliveryInvHolds, PTL

-----------------------------------------------------------------------------
(* Order.                                                                    *)

(* Exchanging two neighbours in a list of outcomes.                          *)
Exchanged(s, n) == [s EXCEPT ![n] = s[n + 1], ![n + 1] = s[n]]
Moved(n, m)     == IF m = n THEN n + 1 ELSE IF m = n + 1 THEN n ELSE m

(* Exchanging two neighbours permutes the matching outcomes.                 *)
LEMMA ExchangeMatches ==
  ASSUME NEW S, NEW s \in Seq(S), NEW n \in 1 .. Len(s) - 1, NEW t, NEW b
  PROVE  /\ Exchanged(s, n) \in Seq(S)
         /\ \A m \in DOMAIN s : /\ Moved(n, m) \in DOMAIN s
                                /\ Exchanged(s, n)[Moved(n, m)] = s[m]
                                /\ Moved(n, Moved(n, m)) = m
         /\ DOMAIN Exchanged(s, n) = DOMAIN s
<1>1. /\ n \in Nat /\ n + 1 \in Nat
      /\ n \in 1 .. Len(s) /\ n + 1 \in 1 .. Len(s) /\ n # n + 1
      /\ DOMAIN s = 1 .. Len(s) /\ Len(s) \in Nat
  OBVIOUS
<1>2. s[n] \in S /\ s[n + 1] \in S
  BY <1>1
<1>3. Exchanged(s, n) \in Seq(S) /\ DOMAIN Exchanged(s, n) = DOMAIN s
  BY <1>1, <1>2 DEF Exchanged
<1>4. ASSUME NEW m \in DOMAIN s
      PROVE  /\ Moved(n, m) \in DOMAIN s
             /\ Exchanged(s, n)[Moved(n, m)] = s[m]
             /\ Moved(n, Moved(n, m)) = m
  BY <1>1 DEF Exchanged, Moved
<1> QED BY <1>3, <1>4

(* A binding gets the same single answer, or none, from both lists.          *)
LEMMA ExchangeAnswers ==
  ASSUME NEW S, NEW s \in Seq(S), NEW n \in 1 .. Len(s) - 1, NEW t, NEW b
  PROVE  /\ Answered(t, b, Exchanged(s, n)) <=> Answered(t, b, s)
         /\ Answered(t, b, s) => Answer(t, b, Exchanged(s, n)) = Answer(t, b, s)
<1> DEFINE r == Exchanged(s, n)
<1>1. /\ r \in Seq(S) /\ DOMAIN r = DOMAIN s
      /\ \A m \in DOMAIN s : /\ Moved(n, m) \in DOMAIN s
                             /\ r[Moved(n, m)] = s[m]
                             /\ Moved(n, Moved(n, m)) = m
  BY ExchangeMatches
<1>2. \A m \in DOMAIN s : m \in Matching(t, b, s) <=> Moved(n, m) \in Matching(t, b, r)
  BY <1>1 DEF Matching
<1>3. Matching(t, b, s) \subseteq DOMAIN s /\ Matching(t, b, r) \subseteq DOMAIN s
  BY <1>1 DEF Matching
<1>4. ASSUME NEW m \in DOMAIN s, Matching(t, b, s) = {m}
      PROVE  Matching(t, b, r) = {Moved(n, m)}
  <2>1. Moved(n, m) \in Matching(t, b, r)
    BY <1>2, <1>4
  <2>2. ASSUME NEW k \in Matching(t, b, r) PROVE k = Moved(n, m)
    <3>1. k \in DOMAIN s /\ Moved(n, k) \in DOMAIN s /\ Moved(n, Moved(n, k)) = k
      BY <1>1, <1>3
    <3>2. Moved(n, k) \in Matching(t, b, s)
      BY <1>2, <3>1
    <3> QED BY <1>4, <3>1, <3>2
  <2> QED BY <2>1, <2>2
<1>5. ASSUME NEW m \in DOMAIN s, Matching(t, b, r) = {m}
      PROVE  Matching(t, b, s) = {Moved(n, m)}
  <2>1. Moved(n, m) \in DOMAIN s /\ Moved(n, Moved(n, m)) = m
    BY <1>1
  <2>2. Moved(n, m) \in Matching(t, b, s)
    BY <1>2, <1>5, <2>1
  <2>3. ASSUME NEW k \in Matching(t, b, s) PROVE k = Moved(n, m)
    <3>1. k \in DOMAIN s /\ Moved(n, Moved(n, k)) = k
      BY <1>1, <1>3
    <3>2. Moved(n, k) \in Matching(t, b, r)
      BY <1>2, <3>1
    <3> QED BY <1>5, <3>1, <3>2
  <2> QED BY <2>2, <2>3
<1>6. Answered(t, b, r) <=> Answered(t, b, s)
  <2>1. /\ Answered(t, b, s) <=> \E m \in DOMAIN s : Matching(t, b, s) = {m}
        /\ Answered(t, b, r) <=> \E m \in DOMAIN s : Matching(t, b, r) = {m}
    BY <1>1, OneMatch
  <2> QED BY <1>1, <1>4, <1>5, <2>1
<1>7. ASSUME Answered(t, b, s) PROVE Answer(t, b, r) = Answer(t, b, s)
  <2>1. PICK m \in DOMAIN s : Matching(t, b, s) = {m}
    BY <1>7, OneMatch
  <2>2. Answer(t, b, s) = s[m] /\ Answer(t, b, r) = r[Moved(n, m)]
    BY <1>1, <1>4, <2>1, OneMatch
  <2> QED BY <1>1, <2>1, <2>2
<1> QED BY <1>6, <1>7

(* So the whole frame is the same.                                           *)
LEMMA ExchangeFrames ==
  ASSUME NEW S, NEW s \in Seq(S), NEW n \in 1 .. Len(s) - 1, NEW p, NEW T
  PROVE  /\ Frame(p, T, Exchanged(s, n)) = Frame(p, T, s)
         /\ Buildable(p, T, Exchanged(s, n)) <=> Buildable(p, T, s)
<1> DEFINE r == Exchanged(s, n)
<1>1. \A t, b : /\ Answered(t, b, r) <=> Answered(t, b, s)
                /\ Answered(t, b, s) => Answer(t, b, r) = Answer(t, b, s)
  BY ExchangeAnswers
<1> HIDE DEF r
<1>2. \A t, b : Satisfied(t, b, r) <=> Satisfied(t, b, s)
  BY <1>1 DEF Satisfied
<1>3. ASSUME NEW t
      PROVE  /\ Malformed(p, t, r) <=> Malformed(p, t, s)
             /\ Uncovered(p, t, r) <=> Uncovered(p, t, s)
             /\ Approved(p, t, r) = Approved(p, t, s)
  <2>1. Malformed(p, t, r) <=> Malformed(p, t, s)
    BY <1>1 DEF Malformed
  <2>2. Uncovered(p, t, r) <=> Uncovered(p, t, s)
    BY <1>2 DEF Uncovered
  <2>3. \A b : Satisfied(t, b, s) => Answer(t, b, r) = Answer(t, b, s)
    BY <1>1 DEF Satisfied
  <2>4. Approved(p, t, r) = Approved(p, t, s)
    BY <1>2, <2>3 DEF Approved
  <2> QED BY <2>1, <2>2, <2>4
<1>4. \A t : StateOf(p, t, r) = StateOf(p, t, s)
  BY <1>3 DEF StateOf
<1>5. \A t : Group(p, t, r) = Group(p, t, s)
  BY <1>3, <1>4 DEF Group
<1>6. Frame(p, T, r) = Frame(p, T, s)
  BY <1>5 DEF Frame
<1>7. Buildable(p, T, r) <=> Buildable(p, T, s)
  BY <1>3, <1>6 DEF Buildable
<1> QED BY <1>6, <1>7 DEF r

(* The order of arrival decides nothing, for any number of outcomes.         *)
THEOREM OrderDecidesNothing == Spec => []ArrivalOrderIrrelevant
<1>1. DeliveryInv => ArrivalOrderIrrelevant
  <2> SUFFICES ASSUME DeliveryInv, NEW n \in 1 .. Len(outcomes) - 1
               PROVE  /\ Buildable(profile, targets, outcomes) = Buildable(profile, targets, Swapped(n))
                      /\ Frame(profile, targets, outcomes) = Frame(profile, targets, Swapped(n))
    BY DEF ArrivalOrderIrrelevant
  <2>1. outcomes \in Seq(ProviderOutcomes)
    BY DEF DeliveryInv, RequestSound
  <2>2. Swapped(n) = Exchanged(outcomes, n)
    BY DEF Swapped, Exchanged
  <2>3. /\ Buildable(profile, targets, Swapped(n)) <=> Buildable(profile, targets, outcomes)
        /\ Frame(profile, targets, Swapped(n)) = Frame(profile, targets, outcomes)
    BY <2>1, <2>2, ExchangeFrames
  <2>4. Buildable(profile, targets, outcomes) = Buildable(profile, targets, Swapped(n))
    BY <2>3 DEF Buildable
  <2> QED BY <2>3, <2>4
<1> QED BY <1>1, DeliveryInvHolds, PTL

-----------------------------------------------------------------------------
(* Evidence: induction and bounded runs.                                     *)

(* Induction over the natural numbers and over finite sets, as facts about   *)
(* the set of what is good.                                                  *)
LEMMA AllNaturals ==
  ASSUME NEW Good, 0 \in Good, \A n \in Nat : n \in Good => n + 1 \in Good
  PROVE  Nat \subseteq Good
<1> DEFINE Bad == Nat \ Good
           R == OpToRel(<, Nat)
<1> SUFFICES ASSUME Bad # {} PROVE FALSE
  OBVIOUS
<1>1. PICK x \in Bad : \A y \in Bad : ~ (<<y, x>> \in R)
  <2>1. IsWellFoundedOn(R, Nat)
    BY NatLessThanWellFounded
  <2> HIDE DEF R
  <2> QED
    BY <2>1, WFMin
<1>2. \A m, n \in Nat : m < n => <<m, n>> \in R
  BY DEF OpToRel
<1> HIDE DEF R
<1>3. x \in Nat /\ x # 0 /\ x - 1 \in Nat
  OBVIOUS
<1>4. x - 1 \notin Bad
  <2>1. x - 1 < x
    BY <1>3
  <2>2. <<x - 1, x>> \in R
    BY <1>2, <1>3, <2>1
  <2> QED
    BY <1>1, <2>2
<1>5. x - 1 \in Good /\ (x - 1) + 1 = x
  BY <1>3, <1>4
<1>6. x \in Good
  BY <1>3, <1>5
<1> QED
  BY <1>6

(* Induction up to a bound.                                                  *)
LEMMA UpTo ==
  ASSUME NEW L \in Nat, NEW Good, 0 \in Good, \A n \in 1 .. L : n - 1 \in Good => n \in Good
  PROVE  0 .. L \subseteq Good
<1> DEFINE G == {n \in Nat : n \in Good \/ n > L}
<1>1. 0 \in G
  OBVIOUS
<1>2. \A n \in Nat : n \in G => n + 1 \in G
  <2> SUFFICES ASSUME NEW n \in Nat, n \in G PROVE n + 1 \in G
    OBVIOUS
  <2>1. CASE n + 1 > L
    BY <2>1
  <2>2. CASE n + 1 <= L
    <3>1. n + 1 \in 1 .. L /\ (n + 1) - 1 = n
      BY <2>2
    <3>2. n \in Good
      BY <2>2
    <3> QED
      BY <3>1, <3>2
  <2> QED
    BY <2>1, <2>2
<1> HIDE DEF G
<1>3. Nat \subseteq G
  BY <1>1, <1>2, AllNaturals
<1> QED
  BY <1>3 DEF G

(* Induction over the subsets of a finite set.                               *)
LEMMA EverySubset ==
  ASSUME NEW S, IsFiniteSet(S), NEW Good,
         \A T \in SUBSET S : (\A U \in SUBSET T : U # T => U \in Good) => T \in Good
  PROVE  SUBSET S \subseteq Good
<1> DEFINE Bad == (SUBSET S) \ Good
<1> SUFFICES ASSUME Bad # {} PROVE FALSE
  OBVIOUS
<1>1. IsWellFoundedOn(StrictSubsetOrdering(S), FiniteSubsetsOf(S)) /\ FiniteSubsetsOf(S) = SUBSET S
  BY FS_StrictSubsetOrderingWellFounded, FS_FiniteSubsetsOfFinite
<1>2. PICK T \in Bad : \A U \in Bad : <<U, T>> \notin StrictSubsetOrdering(S)
  <2>1. Bad \subseteq FiniteSubsetsOf(S)
    BY <1>1
  <2> HIDE DEF Bad
  <2> QED
    BY <1>1, <2>1, WFMin
<1>3. \A U \in SUBSET T : U # T => U \in Good
  BY <1>2 DEF StrictSubsetOrdering
<1> QED
  BY <1>3

(* A fold over a sequence is a function on the positions it has been through.*)
Runs(run, L, base, step) == run[0] = base /\ \A n \in 1 .. L : run[n] = step[n][run[n - 1]]
(* A run of L steps exists when each step stays within S.                    *)
LEMMA FoldExists ==
  ASSUME NEW L \in Nat, NEW S, NEW base \in S, NEW step \in [1 .. L -> [S -> S]]
  PROVE  \E run \in [0 .. L -> S] : Runs(run, L, base, step)
<1> DEFINE Good == {n \in Nat : n <= L => \E run \in [0 .. n -> S] :
                        run[0] = base /\ \A k \in 1 .. n : run[k] = step[k][run[k - 1]]}
<1>1. 0 \in Good
  <2> DEFINE run == [n \in 0 .. 0 |-> base]
  <2>1. run \in [0 .. 0 -> S] /\ run[0] = base /\ \A k \in 1 .. 0 : run[k] = step[k][run[k - 1]]
    OBVIOUS
  <2> HIDE DEF run
  <2> QED
    BY <2>1
<1>2. ASSUME NEW n \in Nat, n \in Good PROVE n + 1 \in Good
  <2> SUFFICES ASSUME n + 1 <= L
               PROVE  \E run \in [0 .. n + 1 -> S] :
                        run[0] = base /\ \A k \in 1 .. n + 1 : run[k] = step[k][run[k - 1]]
    OBVIOUS
  <2>1. PICK old \in [0 .. n -> S] : old[0] = base /\ \A k \in 1 .. n : old[k] = step[k][old[k - 1]]
    BY <1>2
  <2> DEFINE run == [k \in 0 .. n + 1 |-> IF k = n + 1 THEN step[n + 1][old[n]] ELSE old[k]]
  <2>2. step[n + 1] \in [S -> S] /\ old[n] \in S
    BY <2>1
  <2>3. run \in [0 .. n + 1 -> S]
    BY <2>1, <2>2
  <2>4. \A k \in 0 .. n : run[k] = old[k]
    OBVIOUS
  <2>5. run[n + 1] = step[n + 1][old[n]]
    OBVIOUS
  <2> HIDE DEF run
  <2>6. ASSUME NEW k \in 1 .. n + 1 PROVE run[k] = step[k][run[k - 1]]
    <3>1. CASE k = n + 1
      <4>1. k - 1 = n /\ n \in 0 .. n
        BY <3>1
      <4> QED
        BY <3>1, <2>4, <2>5, <4>1
    <3>2. CASE k # n + 1
      <4>1. k \in 1 .. n /\ k \in 0 .. n /\ k - 1 \in 0 .. n
        BY <3>2
      <4> QED
        BY <2>1, <2>4, <4>1
    <3> QED
      BY <3>1, <3>2
  <2>7. run[0] = base
    BY <2>1, <2>4
  <2> QED
    BY <2>3, <2>6, <2>7
<1> HIDE DEF Good
<1>3. L \in Good
  BY <1>1, <1>2, AllNaturals
<1> QED
  BY <1>3 DEF Good, Runs

(* A run that starts in S and whose steps stay in S ends in S.               *)
LEMMA FoldStays ==
  ASSUME NEW L \in Nat, NEW S, NEW run, run[0] \in S, \A n \in 1 .. L : run[n - 1] \in S => run[n] \in S
  PROVE  \A n \in 0 .. L : run[n] \in S
<1> DEFINE Good == {n \in 0 .. L : run[n] \in S}
<1>1. 0 \in Good /\ \A n \in 1 .. L : n - 1 \in Good => n \in Good
  OBVIOUS
<1> HIDE DEF Good
<1>2. 0 .. L \subseteq Good
  BY <1>1, UpTo
<1> QED
  BY <1>2 DEF Good

-----------------------------------------------------------------------------
(* Sums.                                                                     *)

Summing(f) == CHOOSE iter : iter = [s \in SUBSET DOMAIN f |->
                  IF s = {} THEN 0 ELSE f[CHOOSE x \in s : TRUE] + iter[s \ {CHOOSE x \in s : TRUE}]]
Summable(f) == f \in [DOMAIN f -> Int] /\ IsFiniteSet(DOMAIN f)

(* The library's sum takes the elements off one by one.                      *)
LEMMA SumIsSumming ==
  ASSUME NEW f
  PROVE  SumFunction(f) = Summing(f)[DOMAIN f]
BY DEF SumFunction, SumFunctionOnSet, FoldFunctionOnSet, MapThenFoldSet, Summing

(* A sum is a number, and what is chosen first can be split off.             *)
LEMMA SummingType ==
  ASSUME NEW f, Summable(f)
  PROVE  /\ Summing(f) \in [SUBSET DOMAIN f -> Int]
         /\ Summing(f)[{}] = 0
         /\ \A s \in SUBSET DOMAIN f : s # {} =>
              Summing(f)[s] = f[CHOOSE x \in s : TRUE] + Summing(f)[s \ {CHOOSE x \in s : TRUE}]
<1> DEFINE D == DOMAIN f
           First(s) == CHOOSE x \in s : TRUE
           Value(s, g) == IF s = {} THEN 0 ELSE f[First(s)] + g[s \ {First(s)}]
           Small(n) == {s \in SUBSET D : Cardinality(s) <= n}
           Good == {n \in Nat : \E g \in [Small(n) -> Int] : \A s \in Small(n) : g[s] = Value(s, g)}
<1>0. /\ \A s \in SUBSET D : IsFiniteSet(s) /\ Cardinality(s) \in Nat /\ (s # {} => First(s) \in s)
      /\ \A s \in SUBSET D : s # {} => s \ {First(s)} \in SUBSET D /\ Cardinality(s \ {First(s)}) = Cardinality(s) - 1
      /\ \A x \in D : f[x] \in Int
  <2>1. IsFiniteSet(D) /\ f \in [D -> Int]
    BY DEF Summable
  <2>2. ASSUME NEW s \in SUBSET D PROVE IsFiniteSet(s) /\ Cardinality(s) \in Nat /\ (s # {} => First(s) \in s)
    BY <2>1, FS_Subset, FS_CardinalityType
  <2>3. ASSUME NEW s \in SUBSET D, s # {}
        PROVE  s \ {First(s)} \in SUBSET D /\ Cardinality(s \ {First(s)}) = Cardinality(s) - 1
    <3> HIDE DEF First
    <3> QED
      BY <2>2, <2>3, FS_RemoveElement
  <2> HIDE DEF D, First
  <2> QED
    BY <2>1, <2>2, <2>3
<1> HIDE DEF First, D
<1>1. 0 \in Good
  <2> DEFINE g == [s \in Small(0) |-> 0]
  <2>1. \A s \in Small(0) : s = {}
    <3> SUFFICES ASSUME NEW s \in Small(0) PROVE s = {}
      OBVIOUS
    <3>1. IsFiniteSet(s) /\ Cardinality(s) = 0
      BY <1>0
    <3> QED
      BY <3>1, FS_EmptySet
  <2>2. g \in [Small(0) -> Int] /\ \A s \in Small(0) : g[s] = Value(s, g)
    BY <2>1
  <2> HIDE DEF g
  <2> QED
    BY <2>2
<1>2. ASSUME NEW n \in Nat, n \in Good PROVE n + 1 \in Good
  <2>1. PICK g \in [Small(n) -> Int] : \A s \in Small(n) : g[s] = Value(s, g)
    BY <1>2
  <2> DEFINE h == [s \in Small(n + 1) |-> Value(s, g)]
  <2>2. \A s \in Small(n + 1) : s # {} => s \ {First(s)} \in Small(n)
    BY <1>0
  <2>3. ASSUME NEW s \in Small(n + 1) PROVE Value(s, g) \in Int
    BY <1>0, <2>1, <2>2
  <2>4. Small(n) \subseteq Small(n + 1)
    BY <1>0
  <2>5. \A s \in Small(n) : h[s] = g[s]
    BY <2>1, <2>4
  <2>6. h \in [Small(n + 1) -> Int]
    BY <2>3
  <2>7. \A s \in Small(n + 1) : h[s] = Value(s, h)
    BY <2>2, <2>5
  <2> HIDE DEF h, Value, Small
  <2> QED
    BY <2>6, <2>7
<1> HIDE DEF Good
<1>3. PICK g \in [SUBSET D -> Int] : \A s \in SUBSET D : g[s] = Value(s, g)
  <2>1. Cardinality(D) \in Nat /\ Cardinality(D) \in Good
    BY <1>0, <1>1, <1>2, AllNaturals
  <2>2. Small(Cardinality(D)) = SUBSET D
    <3>1. IsFiniteSet(D)
      BY DEF Summable, D
    <3> QED
      BY <3>1, FS_Subset
  <2> QED
    BY <2>1, <2>2 DEF Good
<1>4. g = [s \in SUBSET D |-> Value(s, g)]
  BY <1>3
<1>5. Summing(f) = [s \in SUBSET D |-> Value(s, Summing(f))]
  BY <1>4 DEF Summing, D, First
<1> HIDE DEF Value
<1>6. ASSUME NEW s \in SUBSET D PROVE Summing(f)[s] = Value(s, Summing(f))
  BY <1>5
<1>7. SUBSET D \subseteq {s \in SUBSET D : Summing(f)[s] \in Int}
  <2> DEFINE G == {s \in SUBSET D : Summing(f)[s] \in Int}
  <2>1. ASSUME NEW T \in SUBSET D, \A U \in SUBSET T : U # T => U \in G PROVE T \in G
    <3>1. CASE T = {}
      BY <1>6, <3>1 DEF Value
    <3>2. CASE T # {}
      <4>1. T \ {First(T)} \in SUBSET T /\ T \ {First(T)} # T /\ f[First(T)] \in Int
        BY <1>0, <3>2
      <4>2. Summing(f)[T \ {First(T)}] \in Int
        BY <2>1, <4>1
      <4>3. Summing(f)[T] = f[First(T)] + Summing(f)[T \ {First(T)}]
        BY <1>6, <3>2 DEF Value
      <4> QED
        BY <4>1, <4>2, <4>3
    <3> QED
      BY <3>1, <3>2
  <2>2. IsFiniteSet(D)
    BY DEF Summable, D
  <2> HIDE DEF G
  <2>3. SUBSET D \subseteq G
    BY <2>1, <2>2, EverySubset
  <2> QED
    BY <2>3 DEF G
<1>8. Summing(f) \in [SUBSET D -> Int]
  BY <1>5, <1>7
<1>9. Summing(f)[{}] = 0
  BY <1>6 DEF Value
<1>10. ASSUME NEW s \in SUBSET D, s # {}
       PROVE  Summing(f)[s] = f[First(s)] + Summing(f)[s \ {First(s)}]
  BY <1>6, <1>10 DEF Value
<1> QED
  BY <1>8, <1>9, <1>10 DEF D, First

(* A sum is the same in whatever order its terms are taken.                  *)
LEMMA SummingAnyFirst ==
  ASSUME NEW f, Summable(f)
  PROVE  \A s \in SUBSET DOMAIN f : \A x \in s : Summing(f)[s] = f[x] + Summing(f)[s \ {x}]
<1> DEFINE D == DOMAIN f
           G == {s \in SUBSET D : \A x \in s : Summing(f)[s] = f[x] + Summing(f)[s \ {x}]}
<1>1. ASSUME NEW T \in SUBSET D, \A U \in SUBSET T : U # T => U \in G PROVE T \in G
  <2> SUFFICES ASSUME NEW x \in T PROVE Summing(f)[T] = f[x] + Summing(f)[T \ {x}]
    OBVIOUS
  <2> DEFINE c == CHOOSE y \in T : TRUE
  <2>1. c \in T
    OBVIOUS
  <2>2. Summing(f)[T] = f[c] + Summing(f)[T \ {c}]
    BY SummingType
  <2> HIDE DEF c
  <2>3. CASE c = x
    BY <2>2, <2>3
  <2>4. CASE c # x
    <3>1. T \ {c} \in G /\ T \ {x} \in G
      BY <1>1, <2>1
    <3>2. Summing(f)[T \ {c}] = f[x] + Summing(f)[(T \ {c}) \ {x}]
      BY <2>4, <3>1
    <3>3. Summing(f)[T \ {x}] = f[c] + Summing(f)[(T \ {x}) \ {c}]
      BY <2>1, <2>4, <3>1
    <3>4. (T \ {x}) \ {c} = (T \ {c}) \ {x}
      OBVIOUS
    <3>5. f[x] \in Int /\ f[c] \in Int /\ Summing(f)[(T \ {c}) \ {x}] \in Int
      <4>1. f[x] \in Int /\ f[c] \in Int
        BY <2>1 DEF Summable
      <4>2. (T \ {c}) \ {x} \in SUBSET DOMAIN f
        OBVIOUS
      <4>3. Summing(f)[(T \ {c}) \ {x}] \in Int
        BY <4>2, SummingType
      <4> QED
        BY <4>1, <4>3
    <3> DEFINE rest == Summing(f)[(T \ {c}) \ {x}]
               a == Summing(f)[T]
               b == Summing(f)[T \ {x}]
               d == Summing(f)[T \ {c}]
    <3>6. a = f[c] + d /\ d = f[x] + rest /\ b = f[c] + rest
      BY <2>2, <3>2, <3>3, <3>4
    <3> HIDE DEF G, D, rest, a, b, d
    <3>7. a = f[x] + b
      BY <3>5, <3>6 DEF rest
    <3> QED
      BY <3>7 DEF a, b
  <2> QED
    BY <2>3, <2>4
<1>2. IsFiniteSet(D)
  BY DEF Summable
<1> HIDE DEF G
<1>3. SUBSET D \subseteq G
  BY <1>1, <1>2, EverySubset
<1> QED
  BY <1>3 DEF G, D

(* The sum over a part of the domain.                                        *)
LEMMA SumOfPart ==
  ASSUME NEW f, Summable(f), NEW S \in SUBSET DOMAIN f
  PROVE  /\ Summable([x \in S |-> f[x]])
         /\ SumFunction([x \in S |-> f[x]]) = Summing(f)[S]
<1> DEFINE g == [x \in S |-> f[x]]
           G == {T \in SUBSET S : Summing(g)[T] = Summing(f)[T]}
<1>1. Summable(g)
  <2>1. f \in [DOMAIN f -> Int] /\ IsFiniteSet(S) /\ DOMAIN g = S
    BY FS_Subset DEF Summable
  <2>2. g \in [S -> Int]
    BY <2>1
  <2> QED
    BY <2>1, <2>2 DEF Summable
<1>2. DOMAIN g = S /\ \A x \in S : g[x] = f[x]
  OBVIOUS
<1> HIDE DEF g
<1>3. ASSUME NEW T \in SUBSET S, \A U \in SUBSET T : U # T => U \in G PROVE T \in G
  <2>1. CASE T = {}
    BY <1>1, <2>1, SummingType
  <2>2. CASE T # {}
    <3> DEFINE c == CHOOSE y \in T : TRUE
    <3>1. c \in T
      BY <2>2
    <3>2. Summing(g)[T] = g[c] + Summing(g)[T \ {c}]
      BY <1>1, <1>2, <2>2, SummingType
    <3>3. Summing(f)[T] = f[c] + Summing(f)[T \ {c}]
      BY <2>2, SummingType
    <3> HIDE DEF c
    <3>4. T \ {c} \in G
      BY <1>3, <3>1
    <3>5. Summing(g)[T \ {c}] = Summing(f)[T \ {c}] /\ g[c] = f[c]
      BY <1>2, <3>1, <3>4
    <3> QED
      BY <3>2, <3>3, <3>5
  <2> QED
    BY <2>1, <2>2
<1>4. IsFiniteSet(S)
  BY FS_Subset DEF Summable
<1> HIDE DEF G
<1>5. SUBSET S \subseteq G
  BY <1>3, <1>4, EverySubset
<1>6. Summing(g)[S] = Summing(f)[S]
  BY <1>5 DEF G
<1>7. SumFunction(g) = Summing(g)[S]
  BY <1>2, SumIsSumming
<1> QED
  BY <1>1, <1>6, <1>7 DEF g

(* Any element can be split off a sum.                                       *)
LEMMA SumSplit ==
  ASSUME NEW f, Summable(f)
  PROVE  /\ SumFunction(f) \in Int
         /\ DOMAIN f = {} => SumFunction(f) = 0
         /\ \A x \in DOMAIN f : LET g == [y \in (DOMAIN f) \ {x} |-> f[y]] IN
              Summable(g) /\ SumFunction(g) \in Int /\ SumFunction(f) = f[x] + SumFunction(g)
<1>1. SumFunction(f) = Summing(f)[DOMAIN f]
  BY SumIsSumming
<1>2. SumFunction(f) \in Int /\ (DOMAIN f = {} => SumFunction(f) = 0)
  <2>1. DOMAIN f \in SUBSET DOMAIN f
    OBVIOUS
  <2>2. Summing(f)[DOMAIN f] \in Int
    BY <2>1, SummingType
  <2>3. DOMAIN f = {} => Summing(f)[DOMAIN f] = 0
    BY SummingType
  <2> QED
    BY <1>1, <2>2, <2>3
<1>3. ASSUME NEW x \in DOMAIN f
      PROVE  LET g == [y \in (DOMAIN f) \ {x} |-> f[y]] IN
               Summable(g) /\ SumFunction(g) \in Int /\ SumFunction(f) = f[x] + SumFunction(g)
  <2> DEFINE S == (DOMAIN f) \ {x}
             g == [y \in S |-> f[y]]
  <2>1. Summable(g) /\ SumFunction(g) = Summing(f)[S]
    BY SumOfPart
  <2>2. Summing(f)[S] \in Int
    BY SummingType
  <2>3. Summing(f)[DOMAIN f] = f[x] + Summing(f)[S]
    BY SummingAnyFirst
  <2> HIDE DEF g
  <2>4. Summable(g) /\ SumFunction(g) \in Int /\ SumFunction(f) = f[x] + SumFunction(g)
    BY <1>1, <2>1, <2>2, <2>3
  <2> QED
    BY <2>4 DEF g
<1> QED
  BY <1>2, <1>3

(* Changing one value changes the sum by the difference.                     *)
LEMMA SumUpdate ==
  ASSUME NEW f, Summable(f), NEW x \in DOMAIN f, NEW v \in Int
  PROVE  /\ Summable([f EXCEPT ![x] = v])
         /\ SumFunction([f EXCEPT ![x] = v]) = SumFunction(f) - f[x] + v
<1> DEFINE D == (DOMAIN f) \ {x}
           g == [f EXCEPT ![x] = v]
           rest == [y \in D |-> f[y]]
<1>1. f \in [DOMAIN f -> Int] /\ IsFiniteSet(DOMAIN f) /\ f[x] \in Int
  BY DEF Summable
<1>2. g \in [DOMAIN f -> Int] /\ DOMAIN g = DOMAIN f /\ g[x] = v
  BY <1>1
<1>3. Summable(g)
  BY <1>1, <1>2 DEF Summable
<1>4. [y \in (DOMAIN g) \ {x} |-> g[y]] = rest
  BY <1>2
<1>5. SumFunction(g) = g[x] + SumFunction(rest)
  <2> HIDE DEF g, rest
  <2>1. SumFunction(g) = g[x] + SumFunction([y \in (DOMAIN g) \ {x} |-> g[y]])
    BY <1>2, <1>3, SumSplit
  <2> QED
    BY <1>4, <2>1
<1>6. SumFunction(f) = f[x] + SumFunction(rest) /\ SumFunction(rest) \in Int
  BY SumSplit
<1> HIDE DEF g, rest
<1>7. SumFunction(g) = SumFunction(f) - f[x] + v
  BY <1>1, <1>2, <1>5, <1>6
<1> QED
  BY <1>3, <1>7 DEF g

(* A sum does not depend on the names of what is summed.                     *)
LEMMA SumReindex ==
  ASSUME NEW f, Summable(f), NEW g, Summable(g), NEW b \in [DOMAIN g -> DOMAIN f],
         \A x, y \in DOMAIN g : b[x] = b[y] => x = y, \A z \in DOMAIN f : \E y \in DOMAIN g : b[y] = z,
         \A y \in DOMAIN g : g[y] = f[b[y]]
  PROVE  SumFunction(g) = SumFunction(f)
<1> DEFINE E == DOMAIN g
           Image(T) == {b[y] : y \in T}
           G == {T \in SUBSET E : Summing(g)[T] = Summing(f)[Image(T)]}
<1>1. ASSUME NEW T \in SUBSET E, \A U \in SUBSET T : U # T => U \in G PROVE T \in G
  <2>1. CASE T = {}
    <3>1. Image(T) = {}
      BY <2>1
    <3> HIDE DEF Image
    <3> QED
      BY <2>1, <3>1, SummingType
  <2>2. CASE T # {}
    <3> DEFINE c == CHOOSE y \in T : TRUE
    <3>1. c \in T
      BY <2>2
    <3>2. Summing(g)[T] = g[c] + Summing(g)[T \ {c}]
      BY <2>2, SummingType
    <3> HIDE DEF c
    <3>3. T \ {c} \in G
      BY <1>1, <3>1
    <3>4. b[c] \in Image(T) /\ Image(T) \in SUBSET DOMAIN f
      BY <3>1
    <3>5. Image(T \ {c}) = Image(T) \ {b[c]}
      <4>1. Image(T \ {c}) \subseteq Image(T) \ {b[c]}
        BY <3>1
      <4>2. Image(T) \ {b[c]} \subseteq Image(T \ {c})
        OBVIOUS
      <4> QED
        BY <4>1, <4>2
    <3>6. Summing(g)[T \ {c}] = Summing(f)[Image(T) \ {b[c]}]
      BY <3>3, <3>5
    <3> HIDE DEF Image
    <3>7. Summing(f)[Image(T)] = f[b[c]] + Summing(f)[Image(T) \ {b[c]}]
      BY <3>4, SummingAnyFirst
    <3>8. g[c] = f[b[c]]
      BY <3>1
    <3> QED
      BY <3>2, <3>6, <3>7, <3>8
  <2> QED
    BY <2>1, <2>2
<1>2. IsFiniteSet(E)
  BY DEF Summable
<1> HIDE DEF G
<1>3. SUBSET E \subseteq G
  BY <1>1, <1>2, EverySubset
<1>4. Summing(g)[E] = Summing(f)[Image(E)]
  BY <1>3 DEF G
<1>5. Image(E) = DOMAIN f
  OBVIOUS
<1> QED
  BY <1>4, <1>5, SumIsSumming

-----------------------------------------------------------------------------
(* Orders.                                                                   *)

Ordering(S, R) ==
  /\ IsFiniteSet(S)
  /\ \A x \in S : <<x, x>> \notin R
  /\ \A x, y, z \in S : <<x, y>> \in R /\ <<y, z>> \in R => <<x, z>> \in R
  /\ \A x, y \in S : x # y => <<x, y>> \in R \/ <<y, x>> \in R
Before(x, S, R) == {y \in S : <<y, x>> \in R}

(* Ranked lists a finite, totally ordered set in its order, every element    *)
(* once.                                                                     *)
LEMMA RankedMeaning ==
  ASSUME NEW S, NEW R, Ordering(S, R)
  PROVE  /\ Cardinality(S) \in Nat
         /\ DOMAIN Ranked(S, R) = 1 .. Cardinality(S)
         /\ Ranked(S, R) \in Seq(S)
         /\ Len(Ranked(S, R)) = Cardinality(S)
         /\ \A r \in 1 .. Cardinality(S) :
              Ranked(S, R)[r] \in S /\ Cardinality(Before(Ranked(S, R)[r], S, R)) = r - 1
         /\ \A x \in S : \E r \in 1 .. Cardinality(S) : Ranked(S, R)[r] = x
         /\ \A q, r \in 1 .. Cardinality(S) : q < r <=> <<Ranked(S, R)[q], Ranked(S, R)[r]>> \in R
         /\ \A q, r \in 1 .. Cardinality(S) : Ranked(S, R)[q] = Ranked(S, R)[r] => q = r
<1> DEFINE N == Cardinality(S)
           P(x) == Cardinality(Before(x, S, R))
           rank == [x \in S |-> P(x) + 1]
<1>0. IsFiniteSet(S) /\ N \in Nat
  BY FS_CardinalityType DEF Ordering
<1>1. ASSUME NEW x \in S PROVE P(x) \in Nat /\ P(x) + 1 \in 1 .. N
  <2>1. Before(x, S, R) \in SUBSET (S \ {x})
    BY DEF Before, Ordering
  <2>2. IsFiniteSet(S \ {x}) /\ Cardinality(S \ {x}) = N - 1
    BY <1>0, FS_RemoveElement
  <2>3. IsFiniteSet(Before(x, S, R)) /\ P(x) <= N - 1
    BY <2>1, <2>2, FS_Subset
  <2>4. P(x) \in Nat
    BY <2>3, FS_CardinalityType
  <2> HIDE DEF P
  <2> QED
    BY <1>0, <2>3, <2>4 DEF P
<1>2. ASSUME NEW x \in S, NEW y \in S, <<x, y>> \in R PROVE P(x) < P(y)
  <2>1. Before(x, S, R) \in SUBSET Before(y, S, R)
    BY <1>2 DEF Before, Ordering
  <2>2. x \in Before(y, S, R) /\ x \notin Before(x, S, R)
    BY <1>2 DEF Before, Ordering
  <2>3. IsFiniteSet(Before(y, S, R))
    BY <1>0, FS_Subset DEF Before
  <2>4. P(x) <= P(y) /\ P(x) # P(y)
    BY <2>1, <2>2, <2>3, FS_Subset
  <2>5. P(x) \in Nat /\ P(y) \in Nat
    BY <1>1
  <2> HIDE DEF P
  <2> QED
    BY <2>4, <2>5
<1> HIDE DEF P
<1>3. rank \in [S -> 1 .. N] /\ \A x, y \in S : rank[x] = rank[y] => x = y
  <2>1. rank \in [S -> 1 .. N]
    BY <1>1
  <2>2. ASSUME NEW x \in S, NEW y \in S, rank[x] = rank[y] PROVE x = y
    <3>1. P(x) + 1 = P(y) + 1 /\ P(x) \in Nat /\ P(y) \in Nat
      BY <1>1, <2>2
    <3>2. ~(P(x) < P(y)) /\ ~(P(y) < P(x))
      BY <3>1
    <3> QED
      BY <1>2, <3>2 DEF Ordering
  <2> QED
    BY <2>1, <2>2
<1> HIDE DEF rank
<1>4. rank \in Injection(S, 1 .. N)
  BY <1>3 DEF Injection, IsInjective
<1>5. IsFiniteSet(1 .. N) /\ Cardinality(1 .. N) = N
  <2>1. 1 \in Int /\ N \in Int
    BY <1>0
  <2>2. IsFiniteSet(1 .. N) /\ Cardinality(1 .. N) = IF 1 > N THEN 0 ELSE N - 1 + 1
    <3> DEFINE one == 1
    <3>1. one \in Int
      OBVIOUS
    <3> HIDE DEF one, N
    <3>2. IsFiniteSet(one .. N) /\ Cardinality(one .. N) = IF one > N THEN 0 ELSE N - one + 1
      BY <2>1, <3>1, FS_Interval
    <3> QED
      BY <3>2 DEF one
  <2> HIDE DEF N
  <2> QED
    BY <1>0, <2>2
<1>6. rank \in Surjection(S, 1 .. N)
  BY <1>4, <1>5, FS_Injection
<1>7. \A r \in 1 .. N : \E x \in S : rank[x] = r
  BY <1>6 DEF Surjection
<1>8. \A x \in S : rank[x] = P(x) + 1 /\ P(x) \in Nat
  BY <1>1 DEF rank
<1> DEFINE q == Ranked(S, R)
<1>9. DOMAIN q = 1 .. N
  BY DEF Ranked
<1>10. ASSUME NEW r \in 1 .. N PROVE q[r] \in S /\ P(q[r]) = r - 1
  <2>1. PICK x \in S : P(x) = r - 1
    BY <1>7, <1>8
  <2>2. q[r] = CHOOSE y \in S : P(y) = r - 1
    BY DEF Ranked, P, Before
  <2> HIDE DEF q
  <2> QED
    BY <2>1, <2>2
<1>11. q \in Seq(S) /\ Len(q) = N
  <2> DEFINE at(r) == CHOOSE x \in S : Cardinality({y \in S : <<y, x>> \in R}) = r - 1
  <2>1. q = [r \in 1 .. N |-> at(r)]
    BY DEF Ranked
  <2> HIDE DEF q, at
  <2>2. q \in [1 .. N -> S]
    <3>1. \A r \in 1 .. N : at(r) \in S
      BY <1>10, <2>1
    <3> QED
      BY <2>1, <3>1
  <2> QED
    BY <1>0, <2>2
<1> HIDE DEF q
<1>12. ASSUME NEW x \in S PROVE \E r \in 1 .. N : q[r] = x
  <2>1. P(x) + 1 \in 1 .. N
    BY <1>1
  <2>2. q[P(x) + 1] \in S /\ P(q[P(x) + 1]) = P(x)
    BY <1>10, <2>1, <1>8
  <2>3. q[P(x) + 1] = x
    BY <1>3, <1>8, <2>2
  <2> QED
    BY <2>1, <2>3
<1>13. ASSUME NEW i \in 1 .. N, NEW j \in 1 .. N PROVE i < j <=> <<q[i], q[j]>> \in R
  <2>1. q[i] \in S /\ q[j] \in S /\ P(q[i]) = i - 1 /\ P(q[j]) = j - 1
    BY <1>10
  <2>2. CASE <<q[i], q[j]>> \in R
    <3>1. i - 1 < j - 1
      BY <1>2, <2>1, <2>2
    <3> QED
      BY <2>2, <3>1
  <2>3. CASE <<q[j], q[i]>> \in R
    <3>1. j - 1 < i - 1 /\ <<q[i], q[j]>> \notin R
      BY <1>2, <2>1, <2>3 DEF Ordering
    <3> QED
      BY <3>1
  <2>4. CASE q[i] = q[j]
    <3>1. i = j /\ <<q[i], q[j]>> \notin R
      BY <2>1, <2>4 DEF Ordering
    <3> QED
      BY <3>1
  <2> QED
    BY <2>1, <2>2, <2>3, <2>4 DEF Ordering
<1>14. ASSUME NEW i \in 1 .. N, NEW j \in 1 .. N, q[i] = q[j] PROVE i = j
  <2>1. i - 1 = j - 1
    BY <1>10, <1>14
  <2> QED
    BY <2>1
<1> HIDE DEF N
<1> QED
  BY <1>0, <1>9, <1>10, <1>11, <1>12, <1>13, <1>14 DEF q, P, N

-----------------------------------------------------------------------------
(* Picking from a sequence.                                                  *)

(* The elements of a set of integers, ascending.                             *)
LEMMA AscendingMeaning ==
  ASSUME NEW S \in SUBSET Int, IsFiniteSet(S)
  PROVE  /\ Cardinality(S) \in Nat
         /\ Ascending(S) \in Seq(S)
         /\ DOMAIN Ascending(S) = 1 .. Cardinality(S)
         /\ Len(Ascending(S)) = Cardinality(S)
         /\ \A x \in S : \E r \in 1 .. Cardinality(S) : Ascending(S)[r] = x
         /\ \A q, r \in 1 .. Cardinality(S) : q < r <=> Ascending(S)[q] < Ascending(S)[r]
<1> DEFINE R == {p \in S \X S : p[1] < p[2]}
<1>1. \A x, y \in S : <<x, y>> \in R <=> x < y
  OBVIOUS
<1>2. Ascending(S) = Ranked(S, R)
  BY DEF Ascending
<1> HIDE DEF R
<1>3. Ordering(S, R)
  BY <1>1 DEF Ordering
<1>4. /\ Cardinality(S) \in Nat
      /\ DOMAIN Ranked(S, R) = 1 .. Cardinality(S)
      /\ Ranked(S, R) \in Seq(S)
      /\ Len(Ranked(S, R)) = Cardinality(S)
      /\ \A x \in S : \E r \in 1 .. Cardinality(S) : Ranked(S, R)[r] = x
  BY <1>3, RankedMeaning
<1>5. ASSUME NEW q \in 1 .. Cardinality(S), NEW r \in 1 .. Cardinality(S)
      PROVE  q < r <=> Ranked(S, R)[q] < Ranked(S, R)[r]
  <2>1. q < r <=> <<Ranked(S, R)[q], Ranked(S, R)[r]>> \in R
    BY <1>3, RankedMeaning
  <2>2. Ranked(S, R)[q] \in S /\ Ranked(S, R)[r] \in S
    BY <1>3, RankedMeaning
  <2> QED
    BY <1>1, <2>1, <2>2
<1> QED
  BY <1>2, <1>4, <1>5

(* The chosen elements of a sequence, in their order.                        *)
LEMMA PickMeaning ==
  ASSUME NEW T, NEW s \in Seq(T), NEW keep \in SUBSET DOMAIN s
  PROVE  /\ Pick(s, keep) \in Seq(T)
         /\ IsFiniteSet(keep) /\ Cardinality(keep) \in Nat
         /\ Len(Pick(s, keep)) = Cardinality(keep) /\ DOMAIN Pick(s, keep) = 1 .. Cardinality(keep)
         /\ Cardinality(keep) <= Len(s)
         /\ \A r \in 1 .. Cardinality(keep) : Pick(s, keep)[r] = s[Ascending(keep)[r]] /\ Ascending(keep)[r] \in keep
         /\ \A n \in keep : \E r \in 1 .. Cardinality(keep) : Ascending(keep)[r] = n /\ Pick(s, keep)[r] = s[n]
         /\ \A q, r \in 1 .. Cardinality(keep) : q < r <=> Ascending(keep)[q] < Ascending(keep)[r]
<1>1. Len(s) \in Nat /\ DOMAIN s = 1 .. Len(s) /\ \A n \in DOMAIN s : s[n] \in T
  OBVIOUS
<1>2. IsFiniteSet(DOMAIN s) /\ Cardinality(DOMAIN s) = Len(s)
  <2> DEFINE one == 1
  <2>1. one \in Int /\ Len(s) \in Int /\ DOMAIN s = one .. Len(s)
    BY <1>1
  <2> HIDE DEF one
  <2>2. IsFiniteSet(DOMAIN s) /\ Cardinality(DOMAIN s) = IF one > Len(s) THEN 0 ELSE Len(s) - one + 1
    BY <2>1, FS_Interval
  <2> QED
    BY <1>1, <2>2 DEF one
<1>3. IsFiniteSet(keep) /\ Cardinality(keep) <= Len(s) /\ keep \in SUBSET Int
  <2>1. IsFiniteSet(keep) /\ Cardinality(keep) <= Cardinality(DOMAIN s)
    BY <1>2, FS_Subset
  <2>2. DOMAIN s \subseteq Int
    BY <1>1
  <2> QED
    BY <1>2, <2>1, <2>2
<1> DEFINE q == Ascending(keep)
           N == Cardinality(keep)
<1>4. /\ N \in Nat /\ q \in Seq(keep) /\ DOMAIN q = 1 .. N
      /\ \A x \in keep : \E r \in 1 .. N : q[r] = x
      /\ \A i, j \in 1 .. N : i < j <=> q[i] < q[j]
  BY <1>3, AscendingMeaning
<1>5. \A r \in 1 .. N : q[r] \in keep
  BY <1>4
<1>6. Pick(s, keep) = [r \in DOMAIN q |-> s[q[r]]]
  BY DEF Pick
<1> HIDE DEF q, N
<1>7. Pick(s, keep) = [r \in 1 .. N |-> s[q[r]]]
  BY <1>4, <1>6
<1>8. Pick(s, keep) \in [1 .. N -> T]
  BY <1>1, <1>5, <1>7
<1>9. Pick(s, keep) \in Seq(T) /\ Len(Pick(s, keep)) = N
  <2>1. Pick(s, keep) \in Seq(T)
    BY <1>4, <1>8
  <2>2. DOMAIN Pick(s, keep) = 1 .. N
    BY <1>7
  <2> QED
    BY <1>4, <2>1, <2>2
<1>10. \A r \in 1 .. N : Pick(s, keep)[r] = s[q[r]] /\ q[r] \in keep
  BY <1>5, <1>7
<1>11. \A n \in keep : \E r \in 1 .. N : q[r] = n /\ Pick(s, keep)[r] = s[n]
  BY <1>4, <1>10
<1> QED
  BY <1>1, <1>3, <1>4, <1>7, <1>9, <1>10, <1>11 DEF q, N

(* Two sets in correspondence are equally large.                             *)
LEMMA SameSize ==
  ASSUME NEW S, IsFiniteSet(S), NEW T, NEW b \in [S -> T],
         \A x, y \in S : b[x] = b[y] => x = y, \A z \in T : \E x \in S : b[x] = z
  PROVE  IsFiniteSet(T) /\ Cardinality(T) = Cardinality(S)
<1>1. b \in Bijection(S, T)
  BY DEF Bijection, Injection, Surjection, IsInjective
<1>2. ExistsBijection(S, T)
  BY <1>1 DEF ExistsBijection
<1> QED
  BY <1>2, FS_Bijection

-----------------------------------------------------------------------------
(* The index.                                                                *)

(* A document's terms are those it counts.                                   *)
LEMMA TermsCounted ==
  ASSUME NEW doc, WellFormed(doc)
  PROVE  /\ Len(doc.sentences) \in Nat /\ DOMAIN doc.sentences = 1 .. Len(doc.sentences)
         /\ Len(doc.sentences) > 0
         /\ IsFiniteSet(DOMAIN doc.sentences)
         /\ IsFiniteSet(Terms(doc))
         /\ \A t : Frequency(doc, t) \in Nat /\ (Frequency(doc, t) > 0 <=> t \in Terms(doc))
<1>1. /\ Len(doc.sentences) \in Nat /\ DOMAIN doc.sentences = 1 .. Len(doc.sentences)
      /\ Len(doc.sentences) > 0
  <2> DEFINE V == {doc.sentences[n] : n \in DOMAIN doc.sentences}
             s == doc.sentences
  <2>1. s \in Seq(V) /\ s # <<>>
    BY DEF WellFormed
  <2> HIDE DEF V, s
  <2>2. Len(s) \in Nat /\ DOMAIN s = 1 .. Len(s) /\ Len(s) > 0
    BY <2>1
  <2> QED
    BY <2>2 DEF s
<1>2. IsFiniteSet(DOMAIN doc.sentences)
  <2> DEFINE one == 1
             l == Len(doc.sentences)
  <2>1. one \in Int /\ l \in Int /\ DOMAIN doc.sentences = one .. l
    BY <1>1
  <2> HIDE DEF one, l
  <2> QED
    BY <2>1, FS_Interval
<1> DEFINE D == DOMAIN doc.sentences
           parts == {doc.sentences[n].terms : n \in D}
<1>3. IsFiniteSet(Terms(doc))
  <2> DEFINE f == [n \in D |-> doc.sentences[n].terms]
  <2>1. f \in Surjection(D, parts)
    BY DEF Surjection
  <2>2. IsFiniteSet(parts)
    BY <1>2, <2>1, FS_Surjection
  <2>3. \A p \in parts : IsFiniteSet(p)
    BY DEF WellFormed
  <2> HIDE DEF parts
  <2>4. IsFiniteSet(UNION parts)
    BY <2>2, <2>3, FS_UNION
  <2>5. IsFiniteSet(doc.title)
    BY DEF WellFormed
  <2> QED
    BY <2>4, <2>5, FS_Union DEF Terms, parts
<1>4. ASSUME NEW t PROVE Frequency(doc, t) \in Nat /\ (Frequency(doc, t) > 0 <=> t \in Terms(doc))
  <2> DEFINE hold == {n \in D : t \in doc.sentences[n].terms}
             c == Cardinality(hold)
  <2>1. IsFiniteSet(hold)
    BY <1>2, FS_Subset
  <2>2. c \in Nat /\ (c = 0 <=> hold = {})
    BY <2>1, FS_CardinalityType, FS_EmptySet
  <2>3. t \in Terms(doc) <=> t \in doc.title \/ hold # {}
    BY DEF Terms
  <2>4. Frequency(doc, t) = (IF t \in doc.title THEN 1 ELSE 0) + c
    BY DEF Frequency
  <2> HIDE DEF c, hold
  <2> QED
    BY <2>2, <2>3, <2>4
<1> QED
  BY <1>1, <1>2, <1>3, <1>4

(* build_index: every document once, in the order of the ids, and for every  *)
(* term the ordinals of the documents that hold it.                          *)
Covers(x, docs) ==
  /\ x.documents \in Seq(docs)
  /\ \A d \in docs : \E n \in DOMAIN x.documents : x.documents[n] = d
  /\ \A m, n \in DOMAIN x.documents : IdRank(x.documents[m].id) < IdRank(x.documents[n].id) <=> m < n
  /\ \A m, n \in DOMAIN x.documents : x.documents[m].id = x.documents[n].id => m = n
  /\ Len(x.documents) = Cardinality(docs) /\ Len(x.documents) > 0
  /\ DOMAIN x.lengths = DOMAIN x.documents
  /\ \A n \in DOMAIN x.documents : x.lengths[n] = Length(x.documents[n])
Posted(x, rows, t) ==
  LET holding == Holding(x.documents, t) IN
  /\ IsFiniteSet(holding) /\ Cardinality(holding) \in Nat
  /\ DOMAIN rows = 1 .. Cardinality(holding) /\ Len(rows) = Cardinality(holding)
  /\ \A k \in DOMAIN rows : \E d \in holding : rows[k] = <<d, Frequency(x.documents[d], t)>>
  /\ \A d \in holding : \E k \in DOMAIN rows : rows[k] = <<d, Frequency(x.documents[d], t)>>
  /\ \A j, k \in DOMAIN rows : j < k => rows[j][1] < rows[k][1]

(* The rank of an id is its place.                                           *)
LEMMA IdRankMeaning ==
  /\ Len(IdOrder) \in Nat /\ DOMAIN IdOrder = 1 .. Len(IdOrder) /\ IdOrder \in Seq(Ids)
  /\ \A n \in DOMAIN IdOrder : IdRank(IdOrder[n]) = n
<1>1. Len(IdOrder) \in Nat /\ DOMAIN IdOrder = 1 .. Len(IdOrder) /\ IdOrder \in Seq(Ids)
  <2>1. IdOrder \in Seq(Ids)
    BY FrameAssumption
  <2> QED
    BY <2>1
<1>2. ASSUME NEW n \in DOMAIN IdOrder PROVE IdRank(IdOrder[n]) = n
  BY FrameAssumption DEF IdRank
<1> QED
  BY <1>1, <1>2

(* build_index holds every document of the corpus once, in the order of the  *)
(* ids, with its length.                                                     *)
LEMMA IndexCovers ==
  ASSUME NEW docs \in Corpora
  PROVE  Covers(BuildIndex(docs), docs)
<1> DEFINE ids == {d.id : d \in docs}
           keep == {n \in DOMAIN IdOrder : IdOrder[n] \in ids}
           inOrder == Pick(IdOrder, keep)
           of(n) == CHOOSE d \in docs : d.id = inOrder[n]
           ordered == [n \in DOMAIN inOrder |-> of(n)]
           N == Cardinality(keep)
           x == BuildIndex(docs)
<1>0. /\ IsFiniteSet(docs) /\ docs # {}
      /\ \A d \in docs : d.id \in Ids
      /\ \A d, e \in docs : d.id = e.id => d = e
  BY CorpusAssumption
<1>1. x.documents = ordered /\ x.lengths = [n \in DOMAIN ordered |-> Length(ordered[n])]
  BY DEF BuildIndex
<1>2. /\ inOrder \in Seq(Ids) /\ IsFiniteSet(keep) /\ N \in Nat /\ DOMAIN inOrder = 1 .. N
      /\ \A r \in 1 .. N : inOrder[r] = IdOrder[Ascending(keep)[r]] /\ Ascending(keep)[r] \in keep
      /\ \A n \in keep : \E r \in 1 .. N : Ascending(keep)[r] = n /\ inOrder[r] = IdOrder[n]
      /\ \A q, r \in 1 .. N : q < r <=> Ascending(keep)[q] < Ascending(keep)[r]
  <2>1. IdOrder \in Seq(Ids) /\ keep \in SUBSET DOMAIN IdOrder
    BY IdRankMeaning
  <2> HIDE DEF keep
  <2> QED
    BY <2>1, PickMeaning
<1> HIDE DEF x, inOrder, N
<1>3. ASSUME NEW r \in 1 .. N
      PROVE  of(r) \in docs /\ of(r).id = inOrder[r] /\ IdRank(of(r).id) = Ascending(keep)[r]
  <2>1. inOrder[r] \in ids /\ inOrder[r] = IdOrder[Ascending(keep)[r]] /\ Ascending(keep)[r] \in DOMAIN IdOrder
    BY <1>2
  <2>2. \E d \in docs : d.id = inOrder[r]
    BY <2>1
  <2>3. of(r) \in docs /\ of(r).id = inOrder[r]
    BY <2>2
  <2> QED
    BY <2>1, <2>3, IdRankMeaning
<1>4. ASSUME NEW d \in docs PROVE \E r \in 1 .. N : of(r) = d
  <2>1. PICK n \in DOMAIN IdOrder : IdOrder[n] = d.id
    BY <1>0 DEF Ids
  <2>2. n \in keep
    BY <2>1
  <2>3. PICK r \in 1 .. N : inOrder[r] = d.id
    BY <1>2, <2>1, <2>2
  <2>4. of(r) \in docs /\ of(r).id = d.id
    BY <1>3, <2>3
  <2> QED
    BY <1>0, <2>4
<1> HIDE DEF of
<1>5. DOMAIN ordered = 1 .. N /\ \A r \in 1 .. N : ordered[r] = of(r)
  BY <1>2
<1>6. ordered \in [1 .. N -> docs]
  BY <1>2, <1>3
<1> HIDE DEF ordered
<1>7. ordered \in Seq(docs) /\ Len(ordered) = N
  BY <1>2, <1>5, <1>6
<1>8. ASSUME NEW m \in 1 .. N, NEW n \in 1 .. N
      PROVE  /\ IdRank(ordered[m].id) < IdRank(ordered[n].id) <=> m < n
             /\ ordered[m].id = ordered[n].id => m = n
  <2>1. IdRank(ordered[m].id) = Ascending(keep)[m] /\ IdRank(ordered[n].id) = Ascending(keep)[n]
    BY <1>3, <1>5
  <2>2. Ascending(keep)[m] \in Int /\ Ascending(keep)[n] \in Int
    BY <1>2, IdRankMeaning
  <2>3. m < n <=> Ascending(keep)[m] < Ascending(keep)[n]
    BY <1>2
  <2>4. n < m <=> Ascending(keep)[n] < Ascending(keep)[m]
    BY <1>2
  <2> HIDE DEF keep
  <2>5. ordered[m].id = ordered[n].id => m = n
    <3> SUFFICES ASSUME ordered[m].id = ordered[n].id PROVE m = n
      OBVIOUS
    <3>1. Ascending(keep)[m] = Ascending(keep)[n]
      BY <2>1
    <3>2. ~(m < n) /\ ~(n < m)
      BY <2>2, <2>3, <2>4, <3>1
    <3> QED
      BY <1>2, <3>2
  <2> QED
    BY <2>1, <2>3, <2>5
<1>9. Cardinality(docs) = N
  <2>1. IsFiniteSet(1 .. N) /\ Cardinality(1 .. N) = N
    <3> DEFINE one == 1
    <3>1. one \in Int /\ N \in Int
      BY <1>2
    <3> HIDE DEF one
    <3>2. IsFiniteSet(one .. N) /\ Cardinality(one .. N) = IF one > N THEN 0 ELSE N - one + 1
      BY <3>1, FS_Interval
    <3> QED
      BY <1>2, <3>2 DEF one
  <2>2. \A m, n \in 1 .. N : ordered[m] = ordered[n] => m = n
    BY <1>8
  <2>3. \A d \in docs : \E r \in 1 .. N : ordered[r] = d
    BY <1>4, <1>5
  <2> QED
    BY <1>6, <2>1, <2>2, <2>3, SameSize
<1>10. N > 0
  <2>1. \E r \in 1 .. N : TRUE
    BY <1>0, <1>4
  <2> QED
    BY <1>2, <2>1
<1>11. x.documents = ordered /\ DOMAIN x.lengths = DOMAIN ordered /\ \A n \in DOMAIN ordered : x.lengths[n] = Length(ordered[n])
  BY <1>1
<1>12. Covers(x, docs)
  <2>1. \A d \in docs : \E n \in DOMAIN ordered : ordered[n] = d
    BY <1>4, <1>5
  <2> QED
    BY <1>5, <1>7, <1>8, <1>9, <1>10, <1>11, <2>1 DEF Covers
<1> QED
  BY <1>12 DEF x

(* An interval has as many elements as its end says.                         *)
LEMMA IntervalSize ==
  ASSUME NEW n \in Nat
  PROVE  IsFiniteSet(1 .. n) /\ Cardinality(1 .. n) = n
<1> DEFINE one == 1
<1>1. one \in Int /\ n \in Int
  OBVIOUS
<1> HIDE DEF one
<1>2. IsFiniteSet(one .. n) /\ Cardinality(one .. n) = IF one > n THEN 0 ELSE n - one + 1
  BY <1>1, FS_Interval
<1> QED
  BY <1>2 DEF one

(* The documents of an index are well formed.                                *)
LEMMA IndexedDocuments ==
  ASSUME NEW docs \in Corpora
  PROVE  /\ Covers(BuildIndex(docs), docs)
         /\ \A n \in DOMAIN BuildIndex(docs).documents :
              /\ BuildIndex(docs).documents[n] \in docs
              /\ BuildIndex(docs).documents[n] \in Documents
              /\ WellFormed(BuildIndex(docs).documents[n])
<1> DEFINE x == BuildIndex(docs)
<1>1. Covers(x, docs)
  BY IndexCovers
<1> HIDE DEF x
<1>2. ASSUME NEW n \in DOMAIN x.documents
      PROVE  x.documents[n] \in docs /\ x.documents[n] \in Documents /\ WellFormed(x.documents[n])
  <2>1. x.documents[n] \in docs
    BY <1>1 DEF Covers
  <2>2. x.documents[n] \in Documents
    BY <2>1 DEF Documents
  <2> QED
    BY <2>1, <2>2, CorpusAssumption
<1> QED
  BY <1>1, <1>2 DEF x

(* build_index posts every term under exactly the documents that hold it.    *)
LEMMA IndexPosts ==
  ASSUME NEW docs \in Corpora
  PROVE  /\ DOMAIN BuildIndex(docs).postings = UNION {Terms(d) : d \in docs}
         /\ \A t \in DOMAIN BuildIndex(docs).postings : Posted(BuildIndex(docs), BuildIndex(docs).postings[t], t)
<1> DEFINE x == BuildIndex(docs)
           all == x.documents
           Posting(t) == [n \in DOMAIN all |-> <<n, Frequency(all[n], t)>>]
           Keep(t) == {n \in DOMAIN all : Frequency(all[n], t) > 0}
<1>1. x.postings = [t \in UNION {Terms(d) : d \in docs} |-> Pick(Posting(t), Keep(t))]
  BY DEF BuildIndex
<1>2. Covers(x, docs) /\ \A n \in DOMAIN all : WellFormed(all[n])
  BY IndexedDocuments
<1> HIDE DEF x
<1>3. Len(all) \in Nat /\ DOMAIN all = 1 .. Len(all)
  <2>1. all \in Seq(docs)
    BY <1>2 DEF Covers
  <2> HIDE DEF all
  <2> QED
    BY <2>1
<1> HIDE DEF all
<1>4. ASSUME NEW t \in DOMAIN x.postings PROVE Posted(x, x.postings[t], t)
  <2> DEFINE keep == Keep(t)
             s == Posting(t)
             T == (DOMAIN all) \X Nat
             N == Cardinality(keep)
             rows == x.postings[t]
  <2>1. rows = Pick(s, keep)
    BY <1>1
  <2>2. keep = Holding(all, t)
    BY <1>2, TermsCounted DEF Holding
  <2>3. s \in Seq(T) /\ DOMAIN s = DOMAIN all /\ \A n \in DOMAIN all : s[n] = <<n, Frequency(all[n], t)>>
    <3>1. \A n \in DOMAIN all : Frequency(all[n], t) \in Nat
      BY <1>2, TermsCounted
    <3>2. s \in [1 .. Len(all) -> T]
      BY <1>3, <3>1
    <3> HIDE DEF T
    <3>3. s \in Seq(T)
      BY <1>3, <3>2
    <3> QED
      BY <3>3
  <2>4. keep \in SUBSET DOMAIN s
    BY <2>3
  <2> HIDE DEF s, T, keep, rows
  <2>5. /\ IsFiniteSet(keep) /\ N \in Nat
        /\ Len(rows) = N /\ DOMAIN rows = 1 .. N
        /\ \A r \in 1 .. N : rows[r] = s[Ascending(keep)[r]] /\ Ascending(keep)[r] \in keep
        /\ \A n \in keep : \E r \in 1 .. N : Ascending(keep)[r] = n /\ rows[r] = s[n]
        /\ \A q, r \in 1 .. N : q < r <=> Ascending(keep)[q] < Ascending(keep)[r]
    BY <2>1, <2>3, <2>4, PickMeaning
  <2>6. keep \subseteq DOMAIN all
    BY <2>3, <2>4
  <2> HIDE DEF N
  <2>7. \A r \in 1 .. N : rows[r] = <<Ascending(keep)[r], Frequency(all[Ascending(keep)[r]], t)>>
    BY <2>3, <2>5, <2>6
  <2>8. \A n \in keep : \E r \in 1 .. N : rows[r] = <<n, Frequency(all[n], t)>>
    BY <2>3, <2>5, <2>6
  <2>9. \A q, r \in 1 .. N : q < r => rows[q][1] < rows[r][1]
    BY <2>5, <2>7
  <2>10. \A k \in DOMAIN rows : \E d \in keep : rows[k] = <<d, Frequency(all[d], t)>>
    BY <2>5, <2>7
  <2>11. Posted(x, rows, t)
    BY <2>2, <2>5, <2>8, <2>9, <2>10 DEF Posted, N, all
  <2> QED
    BY <2>11 DEF rows
<1>5. DOMAIN x.postings = UNION {Terms(d) : d \in docs}
  BY <1>1
<1> QED
  BY <1>4, <1>5 DEF x

(* validate_index accepts what build_index built.                            *)
LEMMA BuiltIsValid ==
  ASSUME NEW docs \in Corpora
  PROVE  ValidIndex(BuildIndex(docs))
<1> DEFINE x == BuildIndex(docs)
<1>1. Covers(x, docs) /\ (\A t \in DOMAIN x.postings : Posted(x, x.postings[t], t))
      /\ \A n \in DOMAIN x.documents : WellFormed(x.documents[n])
  BY IndexedDocuments, IndexPosts
<1> HIDE DEF x
<1>2. x.documents # <<>>
  BY <1>1 DEF Covers
<1>3. ASSUME NEW t \in DOMAIN x.postings, NEW n \in DOMAIN x.postings[t]
      PROVE  /\ x.postings[t][n][1] \in DOMAIN x.documents /\ x.postings[t][n][2] > 0
             /\ n > 1 => x.postings[t][n - 1][1] < x.postings[t][n][1]
  <2> DEFINE rows == x.postings[t]
  <2>0. Posted(x, rows, t)
    BY <1>1
  <2> HIDE DEF rows
  <2>1. PICK d \in Holding(x.documents, t) : rows[n] = <<d, Frequency(x.documents[d], t)>>
    BY <1>3, <2>0 DEF Posted, rows
  <2>2. d \in DOMAIN x.documents /\ t \in Terms(x.documents[d])
    BY DEF Holding
  <2>3. Frequency(x.documents[d], t) > 0
    BY <1>1, <2>2, TermsCounted
  <2>4. n > 1 => rows[n - 1][1] < rows[n][1]
    <3> SUFFICES ASSUME n > 1 PROVE rows[n - 1][1] < rows[n][1]
      OBVIOUS
    <3>1. n \in DOMAIN rows /\ n \in Int /\ n - 1 \in DOMAIN rows /\ n - 1 < n
      BY <1>3, <2>0 DEF Posted, rows
    <3> QED
      BY <2>0, <3>1 DEF Posted
  <2> QED
    BY <2>1, <2>2, <2>3, <2>4 DEF rows
<1>4. ValidIndex(x)
  BY <1>1, <1>2, <1>3 DEF ValidIndex, Covers
<1> QED
  BY <1>4 DEF x

-----------------------------------------------------------------------------
(* The search.                                                               *)

(* The least of two numbers.                                                 *)
LEMMA MinOfTwo ==
  ASSUME NEW a \in Int, NEW b \in Int
  PROVE  Min({a, b}) = (IF b < a THEN b ELSE a)
<1> DEFINE m == IF b < a THEN b ELSE a
<1>1. m \in {a, b} /\ \A y \in {a, b} : m <= y
  OBVIOUS
<1>2. \A z \in {a, b} : (\A y \in {a, b} : z <= y) => z = m
  OBVIOUS
<1> HIDE DEF m
<1>3. Min({a, b}) \in {a, b} /\ \A y \in {a, b} : Min({a, b}) <= y
  BY <1>1, Zenon DEF Min
<1>4. Min({a, b}) = m
  BY <1>2, <1>3
<1> QED
  BY <1>4 DEF m

(* The postings of a document's terms are what a scan of the document finds. *)
LEMMA PostingsOfDocument ==
  ASSUME NEW docs \in Corpora, NEW q, NEW d \in DOMAIN BuildIndex(docs).documents
  PROVE  LET x == BuildIndex(docs)
             found == q \cap DOMAIN x.postings
             Rows(t) == {x.postings[t][k] : k \in DOMAIN x.postings[t]}
             Of == {c \in found \X (UNION {Rows(t) : t \in found}) : c[2] \in Rows(c[1]) /\ c[2][1] = d}
             held == Held(x.documents, q, d)
             f == [t \in held |-> Summand(x.documents, d, t)]
             g == [c \in Of |-> Contribution(Len(x.documents), Len(x.postings[c[1]]), c[2][2], x.lengths[d])]
         IN  /\ Summable(f) /\ Summable(g) /\ SumFunction(g) = SumFunction(f)
             /\ IsFiniteSet(held) /\ Cardinality(Of) = Cardinality(held)
             /\ (\E r \in UNION {Rows(t) : t \in found} : r[1] = d) <=> held # {}
<1> DEFINE x == BuildIndex(docs)
           all == x.documents
           found == q \cap DOMAIN x.postings
           Rows(t) == {x.postings[t][k] : k \in DOMAIN x.postings[t]}
           Of == {c \in found \X (UNION {Rows(t) : t \in found}) : c[2] \in Rows(c[1]) /\ c[2][1] = d}
           held == Held(x.documents, q, d)
           f == [t \in held |-> Summand(x.documents, d, t)]
           g == [c \in Of |-> Contribution(Len(x.documents), Len(x.postings[c[1]]), c[2][2], x.lengths[d])]
           F(t) == Frequency(all[d], t)
           pair(t) == <<t, <<d, F(t)>>>>
<1>1. /\ Covers(x, docs) /\ DOMAIN x.postings = UNION {Terms(e) : e \in docs}
      /\ \A t \in DOMAIN x.postings : Posted(x, x.postings[t], t)
      /\ all[d] \in docs /\ WellFormed(all[d]) /\ x.lengths[d] = Length(all[d])
  BY IndexedDocuments, IndexPosts DEF Covers
<1>2. \A t \in Terms(all[d]) : Summand(all, d, t) \in Int
  BY CorpusAssumption
<1> HIDE DEF x
<1>3. \A t : t \in held <=> t \in q /\ t \in Terms(all[d])
  BY DEF Held
<1>4. held \subseteq found
  BY <1>1, <1>3
<1>5. \A t \in held : d \in Holding(all, t)
  BY <1>3 DEF Holding, x
<1>6. ASSUME NEW t \in held PROVE <<d, F(t)>> \in Rows(t) /\ pair(t) \in Of
  <2>1. t \in found /\ Posted(x, x.postings[t], t) /\ d \in Holding(x.documents, t)
    BY <1>1, <1>4, <1>5
  <2>2. \E k \in DOMAIN x.postings[t] : x.postings[t][k] = <<d, F(t)>>
    BY <2>1 DEF Posted
  <2>3. <<d, F(t)>> \in Rows(t)
    BY <2>2
  <2>4. <<d, F(t)>> \in UNION {Rows(u) : u \in found}
    BY <2>1, <2>3
  <2> HIDE DEF Rows, F, found
  <2> QED
    BY <2>1, <2>3, <2>4
<1>7. ASSUME NEW t \in found, NEW r \in Rows(t), r[1] = d PROVE t \in held /\ r = <<d, F(t)>>
  <2>1. Posted(x, x.postings[t], t)
    BY <1>1
  <2>2. PICK k \in DOMAIN x.postings[t] : r = x.postings[t][k]
    OBVIOUS
  <2>3. PICK e \in Holding(x.documents, t) : x.postings[t][k] = <<e, Frequency(all[e], t)>>
    BY <2>1, <2>2 DEF Posted
  <2>4. e = d
    BY <1>7, <2>2, <2>3
  <2> QED
    BY <1>3, <2>2, <2>3, <2>4 DEF Holding
<1>8. ASSUME NEW c \in Of PROVE c[1] \in held /\ c = pair(c[1])
  <2>1. c[1] \in found /\ c[2] \in Rows(c[1]) /\ c[2][1] = d /\ c = <<c[1], c[2]>>
    OBVIOUS
  <2> HIDE DEF found, Rows, held, Of, F
  <2> QED
    BY <1>7, <2>1
<1> HIDE DEF Of, F, Rows, held, found
<1>9. IsFiniteSet(held)
  <2>1. IsFiniteSet(Terms(all[d]))
    BY <1>1, TermsCounted
  <2> QED
    BY <2>1, <1>3, FS_Subset
<1> DEFINE b == [c \in Of |-> c[1]]
           back == [t \in held |-> pair(t)]
<1>10. /\ back \in [held -> Of] /\ \A t, u \in held : back[t] = back[u] => t = u
       /\ \A c \in Of : \E t \in held : back[t] = c
  BY <1>6, <1>8
<1>11. IsFiniteSet(Of) /\ Cardinality(Of) = Cardinality(held)
  <2> HIDE DEF back
  <2> QED
    BY <1>9, <1>10, SameSize
<1>12. /\ b \in [Of -> held] /\ \A c, e \in Of : b[c] = b[e] => c = e
       /\ \A t \in held : \E c \in Of : b[c] = t
  <2>1. b \in [Of -> held]
    BY <1>8
  <2>2. \A c, e \in Of : b[c] = b[e] => c = e
    BY <1>8
  <2>3. ASSUME NEW t \in held PROVE \E c \in Of : b[c] = t
    <3>1. pair(t) \in Of /\ b[pair(t)] = t
      BY <1>6
    <3> QED
      BY <3>1
  <2> QED
    BY <2>1, <2>2, <2>3
<1>13. f \in [held -> Int] /\ DOMAIN f = held /\ DOMAIN g = Of
  BY <1>2, <1>3
<1>14. ASSUME NEW c \in Of PROVE g[c] = f[b[c]]
  <2>1. c[1] \in held /\ c[2][2] = F(c[1]) /\ c[1] \in DOMAIN x.postings
    BY <1>4, <1>8 DEF found
  <2>2. Len(x.postings[c[1]]) = Cardinality(Holding(x.documents, c[1]))
    BY <1>1, <2>1 DEF Posted
  <2>3. g[c] = Contribution(Len(x.documents), Cardinality(Holding(x.documents, c[1])), F(c[1]), Length(x.documents[d]))
    BY <1>1, <2>1, <2>2
  <2>4. f[b[c]] = Summand(x.documents, d, c[1])
    BY <2>1
  <2> QED
    BY <2>3, <2>4 DEF Summand, F
<1>15. Summable(f)
  BY <1>9, <1>13 DEF Summable
<1>16. Summable(g)
  <2>1. \A c \in Of : g[c] \in Int
    <3> HIDE DEF f, g, b
    <3> QED
      BY <1>12, <1>13, <1>14
  <2> DEFINE h(c) == Contribution(Len(x.documents), Len(x.postings[c[1]]), c[2][2], x.lengths[d])
  <2>2. g = [c \in Of |-> h(c)]
    OBVIOUS
  <2>3. \A c \in Of : h(c) \in Int
    BY <2>1
  <2> HIDE DEF h, g
  <2>4. g \in [Of -> Int]
    BY <2>2, <2>3
  <2> QED
    BY <1>11, <1>13, <2>4 DEF Summable
<1>17. SumFunction(g) = SumFunction(f)
  <2> HIDE DEF f, g, b
  <2> QED
    BY <1>12, <1>13, <1>14, <1>15, <1>16, SumReindex
<1>18. (\E r \in UNION {Rows(t) : t \in found} : r[1] = d) <=> held # {}
  <2>1. ASSUME NEW r \in UNION {Rows(t) : t \in found}, r[1] = d PROVE held # {}
    BY <1>7, <2>1
  <2>2. ASSUME NEW t \in held PROVE \E r \in UNION {Rows(u) : u \in found} : r[1] = d
    <3>1. <<d, F(t)>> \in Rows(t) /\ t \in found /\ <<d, F(t)>>[1] = d
      BY <1>4, <1>6
    <3> QED
      BY <3>1
  <2> QED
    BY <2>1, <2>2
<1> HIDE DEF f, g
<1> QED
  BY <1>9, <1>11, <1>15, <1>16, <1>17, <1>18 DEF f, g, Of, found, Rows, held, x

(* search of the postings is the scan of the documents, ranked.              *)
ScanMatches(x, q) == {a \in {Scanned(x.documents, q, d) : d \in DOMAIN x.documents} : a.score > 0}

(* A scanned document is one of the index, with a whole score.               *)
LEMMA ScanType ==
  ASSUME NEW docs \in Corpora, NEW q, NEW a \in ScanMatches(BuildIndex(docs), q)
  PROVE  /\ a.ordinal \in DOMAIN BuildIndex(docs).documents
         /\ a.score \in Int /\ a.matched \in Nat
         /\ a = Scanned(BuildIndex(docs).documents, q, a.ordinal)
<1> DEFINE x == BuildIndex(docs)
<1>1. PICK d \in DOMAIN x.documents : a = Scanned(x.documents, q, d)
  BY DEF ScanMatches
<1> DEFINE held == Held(x.documents, q, d)
           f == [t \in held |-> Summand(x.documents, d, t)]
<1>2. Summable(f) /\ IsFiniteSet(held)
  BY PostingsOfDocument
<1> HIDE DEF x
<1>3. a = [ordinal |-> d, score |-> SumFunction(f), matched |-> Cardinality(held)]
  BY <1>1 DEF Scanned
<1> HIDE DEF f, held
<1>4. SumFunction(f) \in Int /\ Cardinality(held) \in Nat
  BY <1>2, SumSplit, FS_CardinalityType
<1>5. a.ordinal = d
  BY <1>3
<1>6. a.score \in Int /\ a.matched \in Nat
  BY <1>3, <1>4
<1>7. a.ordinal \in DOMAIN x.documents /\ a = Scanned(x.documents, q, a.ordinal)
  BY <1>1, <1>5
<1> QED
  BY <1>6, <1>7 DEF x

(* The key of the search is a total order on the matching documents, and it  *)
(* is the order of the scan: ids are unique and the ordinals follow them.    *)
LEMMA ScanOrder ==
  ASSUME NEW docs \in Corpora, NEW q,
         NEW R, \A a, b \in ScanMatches(BuildIndex(docs), q) : <<a, b>> \in R <=> RankedBefore(BuildIndex(docs), a, b)
  PROVE  /\ Ordering(ScanMatches(BuildIndex(docs), q), R)
         /\ \A a, b \in ScanMatches(BuildIndex(docs), q) : <<a, b>> \in R <=> Better(a, b)
         /\ Cardinality(ScanMatches(BuildIndex(docs), q)) <= Cardinality(docs)
<1> DEFINE x == BuildIndex(docs)
           M == ScanMatches(x, q)
<1>1. Covers(x, docs)
  BY IndexCovers
<1>2. \A a \in M : /\ a.ordinal \in DOMAIN x.documents /\ a.score \in Int /\ a.matched \in Nat
                   /\ a = Scanned(x.documents, q, a.ordinal)
  BY ScanType
<1>3. \A a, b \in M : <<a, b>> \in R <=> RankedBefore(x, a, b)
  OBVIOUS
<1> HIDE DEF x
<1>4. \A a \in M : a.ordinal \in Nat
  <2>1. x.documents \in Seq(docs)
    BY <1>1 DEF Covers
  <2>2. DOMAIN x.documents \subseteq Nat
    <3> DEFINE s == x.documents
    <3> HIDE DEF s
    <3>1. DOMAIN s \subseteq Nat
      BY <2>1 DEF s
    <3> QED
      BY <3>1 DEF s
  <2> QED
    BY <1>2, <2>2
<1>5. \A a, b \in M : RankedBefore(x, a, b) <=> Better(a, b)
  BY <1>1, <1>2 DEF Covers, RankedBefore, Better
<1>6. \A a, b \in M : a.ordinal = b.ordinal => a = b
  BY <1>2
<1>7. IsFiniteSet(M) /\ Cardinality(M) <= Cardinality(docs)
  <2> DEFINE D == DOMAIN x.documents
             f == [a \in M |-> a.ordinal]
  <2>1. f \in Injection(M, D)
    BY <1>2, <1>6 DEF Injection, IsInjective
  <2>2. IsFiniteSet(D) /\ Cardinality(D) = Cardinality(docs)
    <3> DEFINE s == x.documents
    <3>1. s \in Seq(docs) /\ Len(s) = Cardinality(docs)
      BY <1>1 DEF Covers
    <3> HIDE DEF s
    <3>2. Len(s) \in Nat /\ DOMAIN s = 1 .. Len(s)
      BY <3>1
    <3>3. IsFiniteSet(DOMAIN s) /\ Cardinality(DOMAIN s) = Len(s)
      BY <3>2, IntervalSize
    <3> QED
      BY <3>1, <3>3 DEF s
  <2> HIDE DEF f
  <2> QED
    BY <2>1, <2>2, FS_Injection
<1>8. Ordering(M, R)
  <2> HIDE DEF M
  <2>1. \A a \in M : <<a, a>> \notin R
    BY <1>2, <1>3, <1>4, <1>5 DEF Better
  <2>2. \A a, b, c \in M : <<a, b>> \in R /\ <<b, c>> \in R => <<a, c>> \in R
    BY <1>2, <1>3, <1>4, <1>5 DEF Better
  <2>3. \A a, b \in M : a # b => <<a, b>> \in R \/ <<b, a>> \in R
    BY <1>2, <1>3, <1>4, <1>5, <1>6 DEF Better
  <2> QED
    BY <1>7, <2>1, <2>2, <2>3 DEF Ordering
<1> QED
  BY <1>3, <1>5, <1>7, <1>8 DEF x

(* The search accumulates through the postings what the scan computes        *)
(* document by document.                                                     *)
LEMMA SearchIsScan ==
  ASSUME NEW docs \in Corpora, NEW q, NEW k \in Nat
  PROVE  LET x == BuildIndex(docs)
             M == ScanMatches(x, q)
             found == Search(x, q, k)
         IN  /\ found \in Seq(RankedHits)
             /\ Cardinality(M) \in Nat /\ Cardinality(M) <= Cardinality(docs)
             /\ Len(found) = (IF Cardinality(M) < k THEN Cardinality(M) ELSE k)
             /\ \A r \in DOMAIN found : \E a \in M :
                  /\ found[r] = Hit(x.documents[a.ordinal], a.score, a.matched)
                  /\ Cardinality({b \in M : Better(b, a)}) = r - 1
<1> DEFINE x == BuildIndex(docs)
           n == Len(x.documents)
           found == q \cap DOMAIN x.postings
           Rows(t) == {x.postings[t][i] : i \in DOMAIN x.postings[t]}
           Of(d) == {c \in found \X (UNION {Rows(t) : t \in found}) : c[2] \in Rows(c[1]) /\ c[2][1] = d}
           reached == {r[1] : r \in UNION {Rows(t) : t \in found}}
           Score(d) == SumFunction([c \in Of(d) |->
                           Contribution(n, Len(x.postings[c[1]]), c[2][2], x.lengths[d])])
           scored == {[ordinal |-> d, score |-> Score(d), matched |-> Cardinality(Of(d))] : d \in reached}
           positive == {a \in scored : a.score > 0}
           R == {p \in positive \X positive : RankedBefore(x, p[1], p[2])}
           ranked == Ranked(positive, R)
           M == ScanMatches(x, q)
           result == Search(x, q, k)
<1>1. result = [i \in 1 .. Min({k, Len(ranked)}) |-> Hit(x.documents[ranked[i].ordinal], ranked[i].score, ranked[i].matched)]
  BY DEF Search
<1>2. ASSUME NEW d \in DOMAIN x.documents
      PROVE  /\ Scanned(x.documents, q, d) = [ordinal |-> d, score |-> Score(d), matched |-> Cardinality(Of(d))]
             /\ d \in reached <=> Held(x.documents, q, d) # {}
  <2> DEFINE held == Held(x.documents, q, d)
             f == [t \in held |-> Summand(x.documents, d, t)]
             g == [c \in Of(d) |-> Contribution(n, Len(x.postings[c[1]]), c[2][2], x.lengths[d])]
  <2>1. SumFunction(g) = SumFunction(f) /\ Cardinality(Of(d)) = Cardinality(held)
        /\ ((\E r \in UNION {Rows(t) : t \in found} : r[1] = d) <=> held # {})
    BY PostingsOfDocument
  <2>2. Score(d) = SumFunction(g)
    OBVIOUS
  <2>3. d \in reached <=> \E r \in UNION {Rows(t) : t \in found} : r[1] = d
    OBVIOUS
  <2> HIDE DEF x, n, found, Rows, Of, g, f, held, reached, Score
  <2> QED
    BY <2>1, <2>2, <2>3 DEF Scanned, held, f
<1>3. ASSUME NEW d \in reached PROVE d \in DOMAIN x.documents
  <2>1. PICK t \in found : \E i \in DOMAIN x.postings[t] : x.postings[t][i][1] = d
    OBVIOUS
  <2>2. PICK i \in DOMAIN x.postings[t] : x.postings[t][i][1] = d
    BY <2>1
  <2>3. Posted(x, x.postings[t], t)
    BY IndexPosts
  <2> HIDE DEF x, reached
  <2>4. PICK e \in Holding(x.documents, t) : x.postings[t][i] = <<e, Frequency(x.documents[e], t)>>
    BY <2>3 DEF Posted
  <2> QED
    BY <2>2, <2>4 DEF Holding
<1>4. ASSUME NEW d \in DOMAIN x.documents, d \notin reached PROVE ~(Scanned(x.documents, q, d).score > 0)
  <2> DEFINE held == Held(x.documents, q, d)
             f == [t \in held |-> Summand(x.documents, d, t)]
  <2>1. Summable(f)
    BY PostingsOfDocument
  <2>2. held = {}
    BY <1>2, <1>4
  <2> HIDE DEF x, reached
  <2>3. DOMAIN f = {}
    BY <2>2
  <2>4. Scanned(x.documents, q, d).score = SumFunction(f)
    BY DEF Scanned
  <2> HIDE DEF f, held
  <2> QED
    BY <2>1, <2>3, <2>4, SumSplit
<1> HIDE DEF x, n, found, Rows, Of, reached, Score
<1>5. positive = M
  BY <1>2, <1>3, <1>4 DEF ScanMatches
<1>6. /\ Ordering(M, R)
      /\ \A a, b \in M : <<a, b>> \in R <=> Better(a, b)
      /\ Cardinality(M) <= Cardinality(docs)
  <2>1. R = {p \in M \X M : RankedBefore(x, p[1], p[2])}
    BY <1>5
  <2> HIDE DEF R
  <2>2. \A a, b \in ScanMatches(BuildIndex(docs), q) : <<a, b>> \in R <=> RankedBefore(BuildIndex(docs), a, b)
    BY <2>1 DEF x
  <2>3. /\ Ordering(ScanMatches(BuildIndex(docs), q), R)
        /\ \A a, b \in ScanMatches(BuildIndex(docs), q) : <<a, b>> \in R <=> Better(a, b)
        /\ Cardinality(ScanMatches(BuildIndex(docs), q)) <= Cardinality(docs)
    BY <2>2, ScanOrder
  <2> QED
    BY <2>3 DEF x
<1> HIDE DEF R, positive
<1>7. /\ Cardinality(M) \in Nat /\ DOMAIN ranked = 1 .. Cardinality(M) /\ Len(ranked) = Cardinality(M)
      /\ \A r \in 1 .. Cardinality(M) : ranked[r] \in M /\ Cardinality(Before(ranked[r], M, R)) = r - 1
  BY <1>5, <1>6, RankedMeaning
<1>8. \A a \in M : Before(a, M, R) = {b \in M : Better(b, a)}
  BY <1>6 DEF Before
<1> HIDE DEF M, ranked
<1> DEFINE last == IF Cardinality(M) < k THEN Cardinality(M) ELSE k
<1>9. Min({k, Len(ranked)}) = last /\ last \in Nat /\ last <= Cardinality(M)
  BY <1>7, MinOfTwo
<1> HIDE DEF last
<1>10. ASSUME NEW r \in 1 .. last
       PROVE  \E a \in M : /\ result[r] = Hit(x.documents[a.ordinal], a.score, a.matched)
                           /\ Cardinality({b \in M : Better(b, a)}) = r - 1
  <2>1. r \in 1 .. Cardinality(M)
    BY <1>7, <1>9
  <2>2. ranked[r] \in M /\ Cardinality({b \in M : Better(b, ranked[r])}) = r - 1
    BY <1>7, <1>8, <2>1
  <2>3. result[r] = Hit(x.documents[ranked[r].ordinal], ranked[r].score, ranked[r].matched)
    BY <1>1, <1>9
  <2> QED
    BY <2>2, <2>3
<1>11. ASSUME NEW r \in 1 .. last PROVE result[r] \in RankedHits
  <2>1. PICK a \in M : result[r] = Hit(x.documents[a.ordinal], a.score, a.matched)
    BY <1>10
  <2>2. a.ordinal \in DOMAIN x.documents /\ a.score \in Int /\ a.matched \in Nat
    BY ScanType DEF M, x
  <2>3. x.documents[a.ordinal] \in Documents
    BY <2>2, IndexedDocuments DEF x
  <2> QED
    BY <2>1, <2>2, <2>3 DEF RankedHits, Hit
<1>12. DOMAIN result = 1 .. last /\ result \in Seq(RankedHits) /\ Len(result) = last
  <2> DEFINE at(i) == Hit(x.documents[ranked[i].ordinal], ranked[i].score, ranked[i].matched)
  <2>1. result = [i \in 1 .. last |-> at(i)]
    BY <1>1, <1>9
  <2> HIDE DEF at, result
  <2>2. result \in [1 .. last -> RankedHits]
    BY <1>11, <2>1
  <2> QED
    BY <1>9, <2>2
<1> HIDE DEF result
<1> QED
  BY <1>6, <1>7, <1>10, <1>12 DEF result, M, x, last

(* Whatever the index and the question are.                                  *)
LEMMA ScanHolds ==
  ASSUME index \in {BuildIndex(docs) : docs \in Corpora}
  PROVE  SearchRanksAsScan
<1>1. PICK docs \in Corpora : index = BuildIndex(docs)
  OBVIOUS
<1> DEFINE M == ScanMatches(index, query)
<1>2. M = {a \in {Scanned(index.documents, query, d) : d \in DOMAIN index.documents} : a.score > 0}
  BY DEF ScanMatches
<1>3. ASSUME NEW k \in TopK
      PROVE  /\ \A r \in DOMAIN Search(index, query, k) : \E a \in M :
                  /\ Search(index, query, k)[r] = Hit(index.documents[a.ordinal], a.score, a.matched)
                  /\ Cardinality({b \in M : Better(b, a)}) = r - 1
             /\ Len(Search(index, query, k)) = (IF Cardinality(M) < k THEN Cardinality(M) ELSE k)
  <2>1. k \in Nat
    BY HostAssumption
  <2> DEFINE found == Search(BuildIndex(docs), query, k)
             M0 == ScanMatches(BuildIndex(docs), query)
  <2>2. /\ Len(found) = (IF Cardinality(M0) < k THEN Cardinality(M0) ELSE k)
        /\ \A r \in DOMAIN found : \E a \in M0 :
             /\ found[r] = Hit(BuildIndex(docs).documents[a.ordinal], a.score, a.matched)
             /\ Cardinality({b \in M0 : Better(b, a)}) = r - 1
    BY <2>1, SearchIsScan, Zenon
  <2>3. found = Search(index, query, k) /\ M0 = M /\ BuildIndex(docs) = index
    BY <1>1
  <2> HIDE DEF found, M0, M
  <2> QED
    BY <2>2, <2>3
<1>4. ValidIndex(index)
  BY <1>1, BuiltIsValid
<1>5. ASSUME NEW t \in query \cap DOMAIN BinaryIndex(index).postings,
             NEW p \in DOMAIN BinaryIndex(index).postings[t]
      PROVE  BinaryIndex(index).postings[t][p][2] = Summand(index.documents, BinaryIndex(index).postings[t][p][1], t)
  <2> DEFINE rows == index.postings[t]
             docs0 == index.documents
  <2>1. t \in DOMAIN index.postings /\ p \in DOMAIN rows
    BY <1>5 DEF BinaryIndex
  <2>2. BinaryIndex(index).postings[t][p] =
          <<rows[p][1], Contribution(Len(docs0), Len(rows), rows[p][2], index.lengths[rows[p][1]])>>
    BY <2>1 DEF BinaryIndex
  <2>3. Posted(index, rows, t) /\ Covers(index, docs)
    BY <1>1, <2>1, IndexPosts, IndexCovers
  <2>4. PICK d \in Holding(docs0, t) : rows[p] = <<d, Frequency(docs0[d], t)>>
    BY <2>1, <2>3 DEF Posted
  <2>5. d \in DOMAIN docs0
    BY DEF Holding
  <2>6. index.lengths[d] = Length(docs0[d]) /\ Len(rows) = Cardinality(Holding(docs0, t))
    BY <2>3, <2>5 DEF Covers, Posted
  <2> HIDE DEF rows, docs0
  <2>7. BinaryIndex(index).postings[t][p] =
          <<d, Contribution(Len(docs0), Cardinality(Holding(docs0, t)), Frequency(docs0[d], t), Length(docs0[d]))>>
    BY <2>2, <2>4, <2>6
  <2>8. BinaryIndex(index).postings[t][p] = <<d, Summand(docs0, d, t)>>
    BY <2>7 DEF Summand
  <2> QED
    BY <2>8 DEF docs0
<1> HIDE DEF M
<1> QED
  BY <1>2, <1>3, <1>4, <1>5 DEF SearchRanksAsScan

-----------------------------------------------------------------------------
(* Rows and frames.                                                          *)

(* A row shows sentences of its hit.                                         *)
RowSet == {r \in [hit : RankedHits, positions : Seq(Nat)] :
              \A k \in DOMAIN r.positions : r.positions[k] \in DOMAIN r.hit.doc.sentences}

(* A row has a length.                                                       *)
LEMMA BytesType ==
  ASSUME NEW r \in RowSet
  PROVE  BytesOf(r) \in Int
<1> DEFINE size(n) == r.hit.doc.sentences[r.positions[n]].size
           D == DOMAIN r.positions
           f == [n \in D |-> size(n)]
<1>1. r.positions \in Seq(Nat) /\ r.hit.doc \in Documents /\ WellFormed(r.hit.doc)
  BY CorpusAssumption DEF RowSet, RankedHits
<1>2. Len(r.positions) \in Nat /\ D = 1 .. Len(r.positions)
  <2> DEFINE s == r.positions
  <2>1. s \in Seq(Nat)
    BY <1>1
  <2> HIDE DEF s
  <2>2. Len(s) \in Nat /\ DOMAIN s = 1 .. Len(s)
    BY <2>1
  <2> QED
    BY <2>2 DEF s
<1>3. IsFiniteSet(D)
  BY <1>2, IntervalSize
<1>4. \A n \in D : size(n) \in Int
  BY <1>1 DEF RowSet, WellFormed
<1> HIDE DEF size, D
<1>5. Summable(f)
  BY <1>3, <1>4 DEF Summable
<1>6. BytesOf(r) = RowBytes + SumFunction(f) + Len(r.positions) - 1
  BY DEF BytesOf, D, size
<1> HIDE DEF f
<1>7. SumFunction(f) \in Int
  BY <1>5, SumSplit
<1> QED
  BY <1>2, <1>6, <1>7, FrameAssumption

(* The length of a frame, and what a row more or another row makes of it.    *)
LEMMA PayloadType ==
  ASSUME NEW rows \in Seq(RowSet)
  PROVE  /\ Len(rows) \in Nat /\ DOMAIN rows = 1 .. Len(rows) /\ \A n \in DOMAIN rows : rows[n] \in RowSet
         /\ Summable([n \in DOMAIN rows |-> BytesOf(rows[n])])
         /\ PayloadBytes(rows) \in Int
         /\ PayloadBytes(<<>>) = EmptyBytes
<1> DEFINE f == [n \in DOMAIN rows |-> BytesOf(rows[n])]
<1>1. Len(rows) \in Nat /\ DOMAIN rows = 1 .. Len(rows) /\ \A n \in DOMAIN rows : rows[n] \in RowSet
  OBVIOUS
<1>2. Summable(f)
  <2>1. IsFiniteSet(DOMAIN rows)
    BY <1>1, IntervalSize
  <2>2. \A n \in DOMAIN rows : BytesOf(rows[n]) \in Int
    BY <1>1, BytesType
  <2> QED
    BY <2>1, <2>2 DEF Summable
<1>3. PayloadBytes(rows) = EmptyBytes + SumFunction(f) + (IF rows = <<>> THEN 0 ELSE Len(rows) - 1)
  BY DEF PayloadBytes
<1>4. SumFunction(f) \in Int
  <2> HIDE DEF f
  <2> QED
    BY <1>2, SumSplit
<1>5. PayloadBytes(<<>>) = EmptyBytes
  <2> DEFINE g == [n \in DOMAIN <<>> |-> BytesOf(<<>>[n])]
  <2>1. PayloadBytes(<<>>) = EmptyBytes + SumFunction(g) + 0
    BY DEF PayloadBytes
  <2>2. DOMAIN g = {} /\ Summable(g)
    <3>1. DOMAIN g = {} /\ g \in [DOMAIN g -> Int]
      OBVIOUS
    <3>2. IsFiniteSet({})
      BY FS_EmptySet
    <3> HIDE DEF g
    <3> QED
      BY <3>1, <3>2 DEF Summable
  <2> HIDE DEF g
  <2>3. SumFunction(g) = 0
    BY <2>2, SumSplit
  <2> QED
    BY <2>1, <2>3, FrameAssumption
<1> HIDE DEF f
<1>6. PayloadBytes(rows) \in Int
  BY <1>1, <1>3, <1>4, FrameAssumption
<1> QED
  BY <1>1, <1>2, <1>5, <1>6 DEF f

(* A further row costs its own bytes and a comma, if it is not the first.    *)
LEMMA PayloadAppend ==
  ASSUME NEW rows \in Seq(RowSet), NEW r \in RowSet
  PROVE  /\ Append(rows, r) \in Seq(RowSet) /\ Append(rows, r) # <<>>
         /\ PayloadBytes(Append(rows, r)) = PayloadBytes(rows) + BytesOf(r) + (IF rows = <<>> THEN 0 ELSE 1)
<1> DEFINE more == Append(rows, r)
           N == Len(rows)
           f == [n \in DOMAIN rows |-> BytesOf(rows[n])]
           g == [n \in DOMAIN more |-> BytesOf(more[n])]
<1>1. /\ more \in Seq(RowSet) /\ more # <<>> /\ N \in Nat /\ DOMAIN rows = 1 .. N /\ DOMAIN more = 1 .. (N + 1)
      /\ Len(more) = N + 1 /\ more[N + 1] = r /\ \A n \in 1 .. N : more[n] = rows[n]
  OBVIOUS
<1> HIDE DEF more
<1>2. Summable(f) /\ Summable(g)
  BY <1>1, PayloadType
<1>3. N + 1 \in DOMAIN more /\ (DOMAIN more) \ {N + 1} = DOMAIN rows
  BY <1>1
<1>4. [n \in (DOMAIN g) \ {N + 1} |-> g[n]] = f
  <2>1. (DOMAIN g) \ {N + 1} = DOMAIN rows
    BY <1>3
  <2>2. \A n \in DOMAIN rows : g[n] = BytesOf(rows[n])
    BY <1>1
  <2> HIDE DEF g
  <2> QED
    BY <2>1, <2>2
<1>5. g[N + 1] = BytesOf(r) /\ N + 1 \in DOMAIN g
  BY <1>1, <1>3
<1>6. PayloadBytes(rows) = EmptyBytes + SumFunction(f) + (IF rows = <<>> THEN 0 ELSE N - 1)
  BY DEF PayloadBytes
<1>7. PayloadBytes(more) = EmptyBytes + SumFunction(g) + (N + 1) - 1
  <2>1. PayloadBytes(more) = EmptyBytes + SumFunction(g) + (IF more = <<>> THEN 0 ELSE Len(more) - 1)
    BY DEF PayloadBytes
  <2> HIDE DEF g, N
  <2>2. PayloadBytes(more) = EmptyBytes + SumFunction(g) + (Len(more) - 1)
    BY <1>1, <2>1
  <2>3. SumFunction(g) \in Int
    BY <1>2, SumSplit
  <2> QED
    BY <1>1, <2>2, <2>3, FrameAssumption
<1> HIDE DEF f, g
<1>8. SumFunction(g) = BytesOf(r) + SumFunction(f) /\ SumFunction(f) \in Int
  BY <1>2, <1>4, <1>5, SumSplit
<1>9. BytesOf(r) \in Int
  BY BytesType
<1>10. rows = <<>> <=> N = 0
  OBVIOUS
<1> HIDE DEF N
<1>11. PayloadBytes(more) = PayloadBytes(rows) + BytesOf(r) + (IF rows = <<>> THEN 0 ELSE 1)
  BY <1>1, <1>6, <1>7, <1>8, <1>9, <1>10, FrameAssumption
<1> QED
  BY <1>1, <1>11 DEF more

(* Replacing a row costs the difference.                                     *)
LEMMA PayloadUpdate ==
  ASSUME NEW rows \in Seq(RowSet), NEW n \in DOMAIN rows, NEW r \in RowSet
  PROVE  /\ [rows EXCEPT ![n] = r] \in Seq(RowSet)
         /\ Len([rows EXCEPT ![n] = r]) = Len(rows)
         /\ PayloadBytes([rows EXCEPT ![n] = r]) = PayloadBytes(rows) + (BytesOf(r) - BytesOf(rows[n]))
<1> DEFINE other == [rows EXCEPT ![n] = r]
           f == [k \in DOMAIN rows |-> BytesOf(rows[k])]
           g == [k \in DOMAIN other |-> BytesOf(other[k])]
<1>1. other \in Seq(RowSet) /\ Len(other) = Len(rows) /\ DOMAIN other = DOMAIN rows
      /\ \A k \in DOMAIN rows : other[k] = IF k = n THEN r ELSE rows[k]
  <2>1. n \in 1 .. Len(rows)
    OBVIOUS
  <2>2. DOMAIN other = DOMAIN rows /\ \A k \in DOMAIN rows : other[k] = IF k = n THEN r ELSE rows[k]
    OBVIOUS
  <2> QED
    BY <2>1, <2>2, ExceptSeq
<1> HIDE DEF other
<1>2. Summable(f) /\ BytesOf(r) \in Int /\ BytesOf(rows[n]) \in Int
  BY PayloadType, BytesType
<1>3. g = [f EXCEPT ![n] = BytesOf(r)]
  BY <1>1
<1>4. f[n] = BytesOf(rows[n]) /\ n \in DOMAIN f
  OBVIOUS
<1>5. PayloadBytes(rows) = EmptyBytes + SumFunction(f) + (IF rows = <<>> THEN 0 ELSE Len(rows) - 1)
  BY DEF PayloadBytes
<1>6. PayloadBytes(other) = EmptyBytes + SumFunction(g) + (IF other = <<>> THEN 0 ELSE Len(other) - 1)
  BY DEF PayloadBytes
<1> HIDE DEF f, g
<1>7. SumFunction(g) = SumFunction(f) - BytesOf(rows[n]) + BytesOf(r) /\ SumFunction(f) \in Int
  <2>1. SumFunction([f EXCEPT ![n] = BytesOf(r)]) = SumFunction(f) - f[n] + BytesOf(r)
    BY <1>2, <1>4, SumUpdate
  <2>2. SumFunction(f) \in Int
    BY <1>2, SumSplit
  <2> QED
    BY <1>3, <1>4, <2>1, <2>2
<1>8. rows # <<>> /\ other # <<>> /\ Len(rows) \in Nat
  BY <1>1
<1>9. PayloadBytes(other) = PayloadBytes(rows) + (BytesOf(r) - BytesOf(rows[n]))
  BY <1>1, <1>2, <1>5, <1>6, <1>7, <1>8, FrameAssumption
<1> QED
  BY <1>1, <1>9 DEF other

-----------------------------------------------------------------------------
(* One projection at one budget.                                             *)

(* What a projection works on: a hit with the sentence that answers best and *)
(* the span it is shown in.                                                  *)
ItemSet(q) == {i \in [hit : RankedHits, anchor : Nat, identity : SUBSET q, preferred : Seq(Nat)] :
                 /\ i.anchor \in DOMAIN i.hit.doc.sentences
                 /\ i.preferred # <<>>
                 /\ \A k \in DOMAIN i.preferred : i.preferred[k] \in DOMAIN i.hit.doc.sentences
                 /\ i.anchor # 1 \/ Len(i.hit.doc.sentences) = 1 => Fallback(i) = i.anchor}

(* The rows an item can be shown in.                                         *)
LEMMA ItemRows ==
  ASSUME NEW q, NEW i \in ItemSet(q)
  PROVE  /\ Row(i, i.preferred) \in RowSet /\ Row(i, <<Fallback(i)>>) \in RowSet /\ Row(i, <<i.anchor>>) \in RowSet
         /\ Fallback(i) \in DOMAIN i.hit.doc.sentences
         /\ \E p \in DOMAIN i.preferred : i.preferred[p] = Fallback(i)
         /\ (i.anchor # 1 => Row(i, <<i.anchor - 1, i.anchor>>) \in RowSet)
         /\ IsFiniteSet(i.hit.doc.sentences[Fallback(i)].terms) /\ i.identity \subseteq q
<1> DEFINE s == i.preferred
           D == DOMAIN i.hit.doc.sentences
<1>1. /\ i.hit \in RankedHits /\ i.anchor \in Nat /\ s \in Seq(Nat) /\ i.anchor \in D /\ s # <<>>
      /\ i.identity \subseteq q /\ \A k \in DOMAIN s : s[k] \in D
  BY DEF ItemSet
<1>2. WellFormed(i.hit.doc)
  BY <1>1, CorpusAssumption DEF RankedHits
<1>3. D = 1 .. Len(i.hit.doc.sentences) /\ Len(i.hit.doc.sentences) \in Nat
  BY <1>2, TermsCounted
<1> HIDE DEF s
<1>4. Len(s) \in DOMAIN s /\ Fallback(i) = s[Len(s)]
  BY <1>1 DEF Fallback, s
<1>5. Fallback(i) \in D /\ Fallback(i) \in Nat
  BY <1>1, <1>4
<1>6. IsFiniteSet(i.hit.doc.sentences[Fallback(i)].terms)
  BY <1>2, <1>5 DEF WellFormed
<1> HIDE DEF D
<1>7. Row(i, s) \in RowSet
  BY <1>1 DEF Row, RowSet, D
<1>8. ASSUME NEW p \in Nat, p \in D PROVE Row(i, <<p>>) \in RowSet
  <2> DEFINE one == <<p>>
  <2>1. one \in Seq(Nat) /\ \A k \in DOMAIN one : one[k] \in D
    BY <1>8
  <2> HIDE DEF one
  <2>2. Row(i, one) \in RowSet
    BY <1>1, <2>1 DEF Row, RowSet, D
  <2> QED
    BY <2>2 DEF one
<1>9. ASSUME i.anchor # 1 PROVE Row(i, <<i.anchor - 1, i.anchor>>) \in RowSet
  <2> DEFINE two == <<i.anchor - 1, i.anchor>>
  <2>1. i.anchor - 1 \in Nat /\ i.anchor - 1 \in D
    BY <1>1, <1>3, <1>9 DEF D
  <2>2. two \in Seq(Nat) /\ \A k \in DOMAIN two : two[k] \in D
    BY <1>1, <2>1
  <2> HIDE DEF two
  <2>3. Row(i, two) \in RowSet
    BY <1>1, <2>2 DEF Row, RowSet, D
  <2> QED
    BY <2>3 DEF two
<1> QED
  BY <1>1, <1>4, <1>5, <1>6, <1>7, <1>8, <1>9 DEF s, D

(* One projection at one budget: the running count is the length of what has *)
(* been admitted, and nothing admitted went past the budget.                 *)
CountedRows(acc, max) ==
  /\ acc.rows \in Seq(RowSet)
  /\ acc.size = PayloadBytes(acc.rows)
  /\ acc.rows # <<>> => acc.size <= max
CountedSet(S, max) == {acc \in [rows : Seq(RowSet), size : Int, seen : SUBSET S] : CountedRows(acc, max)}

(* A row that fits is counted.                                               *)
LEMMA AdmitCounts ==
  ASSUME NEW S, NEW max \in Int, NEW acc \in CountedSet(S, max), NEW r \in RowSet, NEW C \in SUBSET S,
         Fits(acc, r, max)
  PROVE  Admit(acc, r, C) \in CountedSet(S, max) /\ Admit(acc, r, C).rows # <<>>
<1> DEFINE rows == acc.rows
           more == Append(rows, r)
           size == acc.size + BytesOf(r) + (IF rows = <<>> THEN 0 ELSE 1)
<1>1. rows \in Seq(RowSet) /\ acc.size = PayloadBytes(rows) /\ acc.seen \in SUBSET S /\ acc.size \in Int
  BY DEF CountedSet, CountedRows
<1>2. size <= max
  BY DEF Fits
<1>3. more \in Seq(RowSet) /\ more # <<>> /\ size = PayloadBytes(more)
  BY <1>1, PayloadAppend
<1>4. PayloadBytes(more) \in Int
  BY <1>3, PayloadType
<1>5. Admit(acc, r, C) = [rows |-> more, size |-> size, seen |-> acc.seen \cup C]
  BY DEF Admit
<1> HIDE DEF more, size, rows
<1> QED
  BY <1>1, <1>2, <1>3, <1>4, <1>5 DEF CountedSet, CountedRows

(* A hit shown as its span, as one sentence, or not at all.                  *)
LEMMA ProjectStepCounts ==
  ASSUME NEW q, NEW S, NEW max \in Int, NEW limit, NEW acc \in CountedSet(S, max), NEW i \in ItemSet(q),
         \A p \in Nat : Context(i, p) \in S
  PROVE  ProjectStep(acc, i, max, limit) \in CountedSet(S, max)
<1> DEFINE shown == {Context(i, i.preferred[n]) : n \in DOMAIN i.preferred}
           span == Row(i, i.preferred)
           single == Row(i, <<Fallback(i)>>)
           one == {Context(i, Fallback(i))}
<1>1. span \in RowSet /\ single \in RowSet
  BY ItemRows
<1>2. shown \in SUBSET S /\ one \in SUBSET S
  <2>1. \A n \in DOMAIN i.preferred : i.preferred[n] \in Nat
    <3> DEFINE s == i.preferred
    <3>1. s \in Seq(Nat)
      BY DEF ItemSet
    <3> HIDE DEF s
    <3>2. \A n \in DOMAIN s : s[n] \in Nat
      BY <3>1
    <3> QED
      BY <3>2 DEF s
  <2>2. \E n \in DOMAIN i.preferred : i.preferred[n] = Fallback(i)
    BY ItemRows
  <2> QED
    BY <2>1, <2>2
<1>3. ProjectStep(acc, i, max, limit) =
        IF Len(acc.rows) >= limit \/ shown \subseteq acc.seen THEN acc
        ELSE IF Fits(acc, span, max) THEN Admit(acc, span, shown)
        ELSE IF Fits(acc, single, max) THEN Admit(acc, single, one)
        ELSE acc
  BY DEF ProjectStep
<1> HIDE DEF shown, span, single, one
<1>4. Fits(acc, span, max) => Admit(acc, span, shown) \in CountedSet(S, max)
  BY <1>1, <1>2, AdmitCounts
<1>5. Fits(acc, single, max) => Admit(acc, single, one) \in CountedSet(S, max)
  BY <1>1, <1>2, AdmitCounts
<1> QED
  BY <1>3, <1>4, <1>5

(* The contexts of a sequence of items.                                      *)
ContextSet(items) == {Context(items[n], p) : n \in DOMAIN items, p \in Nat}

(* _project_prepared_at_budget over any number of hits, with the run it      *)
(* consists of.                                                              *)
LEMMA ProjectionCounts ==
  ASSUME NEW q, NEW items \in Seq(ItemSet(q)), NEW max \in Int, NEW limit
  PROVE  /\ CountedRows(ProjectAtBudget(items, max, limit), max)
         /\ \E run : /\ run[0] = NoRows /\ ProjectAtBudget(items, max, limit) = run[Len(items)]
                     /\ \A n \in 1 .. Len(items) : run[n] = ProjectStep(run[n - 1], items[n], max, limit)
                     /\ \A n \in 0 .. Len(items) : run[n] \in CountedSet(ContextSet(items), max)
<1> DEFINE L == Len(items)
           S == CountedSet(ContextSet(items), max)
           step == [n \in 1 .. L |-> [acc \in S |-> ProjectStep(acc, items[n], max, limit)]]
           Value(g, n) == IF n = 0 THEN NoRows ELSE ProjectStep(g[n - 1], items[n], max, limit)
           run == CHOOSE g : g = [n \in 0 .. L |-> Value(g, n)]
<1>1. L \in Nat /\ DOMAIN items = 1 .. L /\ \A n \in 1 .. L : items[n] \in ItemSet(q)
  OBVIOUS
<1>2. NoRows \in S
  <2>1. <<>> \in Seq(RowSet)
    OBVIOUS
  <2>2. PayloadBytes(<<>>) = EmptyBytes
    BY <2>1, PayloadType
  <2>3. NoRows \in [rows : Seq(RowSet), size : Int, seen : SUBSET ContextSet(items)]
    BY <2>1, FrameAssumption DEF NoRows
  <2>4. CountedRows(NoRows, max)
    BY <2>1, <2>2 DEF NoRows, CountedRows
  <2> QED
    BY <2>3, <2>4 DEF CountedSet
<1>3. \A n \in 1 .. L : \A acc \in S : ProjectStep(acc, items[n], max, limit) \in S
  <2> SUFFICES ASSUME NEW n \in 1 .. L, NEW acc \in S PROVE ProjectStep(acc, items[n], max, limit) \in S
    OBVIOUS
  <2>1. \A p \in Nat : Context(items[n], p) \in ContextSet(items)
    BY <1>1 DEF ContextSet
  <2> QED
    BY <1>1, <2>1, ProjectStepCounts
<1> HIDE DEF S
<1>4. step \in [1 .. L -> [S -> S]] /\ \A n \in 1 .. L : \A acc \in S : step[n][acc] = ProjectStep(acc, items[n], max, limit)
  BY <1>3
<1> HIDE DEF step, L
<1>5. PICK g \in [0 .. L -> S] : g[0] = NoRows /\ \A n \in 1 .. L : g[n] = step[n][g[n - 1]]
  <2>1. PICK g \in [0 .. L -> S] : Runs(g, L, NoRows, step)
    BY <1>1, <1>2, <1>4, FoldExists
  <2> QED
    BY <2>1 DEF Runs
<1>6. g = [n \in 0 .. L |-> Value(g, n)]
  <2>1. ASSUME NEW n \in 0 .. L PROVE g[n] = Value(g, n)
    <3>1. CASE n = 0
      BY <1>5, <3>1
    <3>2. CASE n # 0
      <4>1. n \in 1 .. L /\ n - 1 \in 0 .. L
        BY <1>1, <3>2
      <4> QED
        BY <1>4, <1>5, <3>2, <4>1
    <3> QED
      BY <3>1, <3>2
  <2> HIDE DEF Value
  <2> QED
    BY <2>1
<1>7. run = [n \in 0 .. L |-> Value(run, n)]
  <2> HIDE DEF Value
  <2> QED
    BY <1>6, Zenon
<1>8. ProjectAtBudget(items, max, limit) = run[L]
  BY DEF ProjectAtBudget, L
<1> HIDE DEF run
<1>9. run[0] = NoRows /\ \A n \in 1 .. L : run[n] = ProjectStep(run[n - 1], items[n], max, limit)
  <2>1. 0 \in 0 .. L /\ \A n \in 1 .. L : n \in 0 .. L /\ n # 0
    BY <1>1
  <2> QED
    BY <1>7, <2>1
<1>10. \A n \in 0 .. L : run[n] \in S
  <2>1. \A n \in 1 .. L : run[n - 1] \in S => run[n] \in S
    BY <1>3, <1>9
  <2> QED
    BY <1>1, <1>2, <1>9, <2>1, FoldStays
<1>11. CountedRows(run[L], max)
  <2>1. run[L] \in S
    BY <1>1, <1>10
  <2> QED
    BY <2>1 DEF S, CountedSet
<1> QED
  BY <1>8, <1>9, <1>10, <1>11 DEF L, S

-----------------------------------------------------------------------------
(* What the projections work on.                                             *)

(* A nonempty ordered set has a first element.                               *)
LEMMA FirstOf ==
  ASSUME NEW S, NEW R, Ordering(S, R), S # {}
  PROVE  \E x \in S : \A y \in S \ {x} : <<x, y>> \in R
<1> DEFINE q == Ranked(S, R)
           N == Cardinality(S)
<1>1. /\ N \in Nat /\ \A r \in 1 .. N : q[r] \in S
      /\ \A x \in S : \E r \in 1 .. N : q[r] = x
      /\ \A i, j \in 1 .. N : i < j <=> <<q[i], q[j]>> \in R
  BY RankedMeaning
<1> HIDE DEF q, N
<1>2. 1 \in 1 .. N
  BY <1>1
<1>3. ASSUME NEW y \in S, y # q[1] PROVE <<q[1], y>> \in R
  <2>1. PICK r \in 1 .. N : q[r] = y
    BY <1>1
  <2>2. 1 < r
    BY <1>3, <2>1
  <2> QED
    BY <1>1, <1>2, <2>1, <2>2
<1> QED
  BY <1>1, <1>2, <1>3

(* A nonempty set of natural numbers has a least element.                    *)
LEMMA LeastNat ==
  ASSUME NEW S \in SUBSET Nat, S # {}
  PROVE  \E x \in S : \A y \in S : x <= y
<1> DEFINE R == OpToRel(<, Nat)
<1>1. PICK x \in S : \A y \in S : ~ (<<y, x>> \in R)
  <2>1. IsWellFoundedOn(R, Nat)
    BY NatLessThanWellFounded
  <2> HIDE DEF R
  <2> QED
    BY <2>1, WFMin
<1>2. \A m, n \in Nat : m < n => <<m, n>> \in R
  BY DEF OpToRel
<1> HIDE DEF R
<1>3. \A y \in S : ~(y < x)
  BY <1>1, <1>2
<1> QED
  BY <1>3

(* Mirrors are dropped, nothing else happens to the hits.                    *)
LEMMA DedupType ==
  ASSUME NEW s \in Seq(RankedHits), NEW q
  PROVE  /\ Dedup(s, q) \in Seq(RankedHits) /\ Len(Dedup(s, q)) <= Len(s)
         /\ DedupByText(s) \in Seq(RankedHits) /\ Len(DedupByText(s)) <= Len(s)
<1> DEFINE Mirrors(n) == {m \in 1 .. n - 1 : s[m].doc.body = s[n].doc.body}
           kept == {n \in DOMAIN s : \/ Mirrors(n) = {}
                      \/ ~Relevant(s[n], q) \subseteq UNION {Relevant(s[m], q) : m \in Mirrors(n)}}
           alone == {n \in DOMAIN s : \A m \in 1 .. n - 1 : s[m].doc.body # s[n].doc.body}
<1>1. Dedup(s, q) = Pick(s, kept) /\ DedupByText(s) = Pick(s, alone)
  BY DEF Dedup, DedupByText
<1>2. kept \in SUBSET DOMAIN s /\ alone \in SUBSET DOMAIN s
  OBVIOUS
<1> HIDE DEF kept, alone
<1>3. Pick(s, kept) \in Seq(RankedHits) /\ Len(Pick(s, kept)) <= Len(s)
  BY <1>2, PickMeaning
<1>4. Pick(s, alone) \in Seq(RankedHits) /\ Len(Pick(s, alone)) <= Len(s)
  BY <1>2, PickMeaning
<1> QED
  BY <1>1, <1>3, <1>4

(* Rarity is a weight for each of the query's terms.                         *)
LEMMA LocalWeightsType ==
  ASSUME NEW s \in Seq(RankedHits), NEW q, NEW size \in Sizes, Len(s) <= size, size \in Nat
  PROVE  LocalWeights(s, q) \in [q -> Int]
<1> DEFINE hold(t) == {n \in DOMAIN s : t \in Terms(s[n].doc)}
           count == [t \in q |-> Cardinality(hold(t))]
<1>1. LocalWeights(s, q) = [t \in q |-> IF count[t] = 0 THEN 0 ELSE Rarity(Len(s), count[t])]
  BY DEF LocalWeights
<1>2. Len(s) \in Nat /\ IsFiniteSet(DOMAIN s) /\ Cardinality(DOMAIN s) = Len(s)
  <2>1. Len(s) \in Nat /\ DOMAIN s = 1 .. Len(s)
    OBVIOUS
  <2> QED
    BY <2>1, IntervalSize
<1>3. ASSUME NEW t \in q PROVE count[t] \in 0 .. Len(s)
  <2>1. hold(t) \in SUBSET DOMAIN s
    OBVIOUS
  <2>2. count[t] = Cardinality(hold(t))
    OBVIOUS
  <2> HIDE DEF hold, count
  <2>3. IsFiniteSet(hold(t)) /\ Cardinality(hold(t)) <= Cardinality(DOMAIN s)
    BY <1>2, <2>1, FS_Subset
  <2>4. Cardinality(hold(t)) \in Nat
    BY <2>3, FS_CardinalityType
  <2> QED
    BY <1>2, <2>2, <2>3, <2>4
<1> HIDE DEF count
<1>4. ASSUME NEW t \in q PROVE (IF count[t] = 0 THEN 0 ELSE Rarity(Len(s), count[t])) \in Int
  <2>1. CASE count[t] = 0
    BY <2>1
  <2>2. CASE count[t] # 0
    <3>1. count[t] \in 1 .. Len(s) /\ Len(s) \in 1 .. size
      BY <1>2, <1>3, <2>2
    <3> QED
      BY <2>2, <3>1, CorpusAssumption
  <2> QED
    BY <2>1, <2>2
<1> QED
  BY <1>1, <1>4

(* Rarity in the corpus is a weight for each of the query's terms.           *)
LEMMA IndexWeightsType ==
  ASSUME NEW docs \in Corpora, NEW q
  PROVE  IndexWeights(BuildIndex(docs), q) \in [q -> Int]
<1> DEFINE x == BuildIndex(docs)
           n == Len(x.documents)
<1>1. Covers(x, docs) /\ (\A t \in DOMAIN x.postings : Posted(x, x.postings[t], t))
      /\ DOMAIN x.postings = UNION {Terms(d) : d \in docs}
  BY IndexCovers, IndexPosts
<1>2. n = Cardinality(docs) /\ n \in Nat /\ n \in Sizes
  <2>1. n = Cardinality(docs) /\ Cardinality(docs) \in Nat
    BY <1>1, FS_CardinalityType, CorpusAssumption DEF Covers
  <2> HIDE DEF n
  <2> QED
    BY <2>1 DEF Sizes
<1>3. ASSUME NEW t \in DOMAIN x.postings PROVE Rarity(n, Len(x.postings[t])) \in Int
  <2> DEFINE holding == Holding(x.documents, t)
             D == DOMAIN x.documents
  <2>1. IsFiniteSet(holding) /\ Cardinality(holding) \in Nat /\ Len(x.postings[t]) = Cardinality(holding)
    BY <1>1 DEF Posted
  <2>2. holding # {}
    <3>1. PICK d \in docs : t \in Terms(d)
      BY <1>1
    <3>2. PICK m \in DOMAIN x.documents : x.documents[m] = d
      BY <1>1 DEF Covers
    <3> QED
      BY <3>1, <3>2 DEF Holding
  <2>3. Cardinality(holding) <= n
    <3>1. D = 1 .. n
      <4> DEFINE s == x.documents
      <4>1. s \in Seq(docs)
        BY <1>1 DEF Covers
      <4> HIDE DEF s, x
      <4>2. DOMAIN s = 1 .. Len(s)
        BY <4>1
      <4> QED
        BY <4>2 DEF s
    <3>2. IsFiniteSet(D) /\ Cardinality(D) = n
      BY <1>2, <3>1, IntervalSize
    <3>3. holding \in SUBSET D
      BY DEF Holding
    <3> HIDE DEF holding, D, n
    <3> QED
      BY <3>2, <3>3, FS_Subset
  <2>4. Cardinality(holding) # 0
    BY <2>1, <2>2, FS_EmptySet
  <2> HIDE DEF holding, x, n
  <2>5. Cardinality(holding) \in 1 .. n /\ n \in 1 .. n
    BY <1>2, <2>1, <2>3, <2>4
  <2>6. Rarity(n, Cardinality(holding)) \in Int
    BY <1>2, <2>5, CorpusAssumption
  <2> QED
    BY <2>1, <2>6
<1>4. IndexWeights(x, q) = [t \in q |-> IF t \in DOMAIN x.postings THEN Rarity(n, Len(x.postings[t])) ELSE 0]
  BY DEF IndexWeights
<1> HIDE DEF x, n
<1>5. IndexWeights(x, q) \in [q -> Int]
  BY <1>3, <1>4
<1> QED
  BY <1>5 DEF x

(* Sentences are ordered by their score, the earlier of two equals first.    *)
LEMMA ScoredOrder ==
  ASSUME NEW h \in RankedHits, NEW q, NEW w \in [q -> Int], NEW O \in SUBSET DOMAIN h.doc.sentences
  PROVE  Ordering(O, {p \in O \X O : ScoredBefore(h.doc.sentences, q, w, p[1], p[2])})
<1> DEFINE s == h.doc.sentences
           f(n) == [t \in s[n].terms \cap q |-> w[t]]
           Score(n) == SumFunction(f(n))
           R == {p \in O \X O : ScoredBefore(s, q, w, p[1], p[2])}
<1>1. h.doc \in Documents /\ WellFormed(h.doc)
  BY CorpusAssumption DEF RankedHits
<1>2. O \subseteq Nat /\ IsFiniteSet(O)
  <2>1. Len(s) \in Nat /\ DOMAIN s = 1 .. Len(s) /\ IsFiniteSet(DOMAIN s)
    BY <1>1, TermsCounted
  <2> HIDE DEF s
  <2>2. O \in SUBSET DOMAIN s
    BY DEF s
  <2> QED
    BY <2>1, <2>2, FS_Subset
<1>3. ASSUME NEW n \in O PROVE Score(n) \in Int
  <2> DEFINE g == f(n)
  <2>1. IsFiniteSet(s[n].terms \cap q)
    BY <1>1, FS_Intersection DEF WellFormed
  <2>2. Summable(g)
    BY <2>1 DEF Summable
  <2> HIDE DEF g
  <2>3. SumFunction(g) \in Int
    BY <2>2, SumSplit
  <2> QED
    BY <2>3 DEF g
<1>4. ASSUME NEW a \in O, NEW b \in O
      PROVE  ScoredBefore(s, q, w, a, b) <=> Score(a) > Score(b) \/ (Score(a) = Score(b) /\ a < b)
  BY DEF ScoredBefore
<1>5. \A a, b \in O : <<a, b>> \in R <=> ScoredBefore(s, q, w, a, b)
  OBVIOUS
<1> HIDE DEF Score, R
<1>6. Ordering(O, R)
  <2>1. \A a \in O : a \in Nat
    BY <1>2
  <2>2. \A a \in O : <<a, a>> \notin R
    BY <1>3, <1>4, <1>5, <2>1
  <2>3. \A a, b, c \in O : <<a, b>> \in R /\ <<b, c>> \in R => <<a, c>> \in R
    BY <1>3, <1>4, <1>5, <2>1
  <2>4. \A a, b \in O : a # b => <<a, b>> \in R \/ <<b, a>> \in R
    BY <1>3, <1>4, <1>5, <2>1
  <2> QED
    BY <1>2, <2>2, <2>3, <2>4 DEF Ordering
<1> QED
  BY <1>6 DEF R, s

(* The best scored sentence exists, and its neighbour with it.               *)
LEMMA PrepareType ==
  ASSUME NEW h \in RankedHits, NEW q, NEW w \in [q -> Int]
  PROVE  Prepare(h, q, w) \in ItemSet(q)
<1> DEFINE s == h.doc.sentences
           D == DOMAIN s
           R == {p \in D \X D : ScoredBefore(s, q, w, p[1], p[2])}
           anchor == CHOOSE p \in D : \A u \in D \ {p} : ScoredBefore(s, q, w, p, u)
           i == Prepare(h, q, w)
<1>1. h.doc \in Documents /\ WellFormed(h.doc)
  BY CorpusAssumption DEF RankedHits
<1>2. Len(s) \in Nat /\ D = 1 .. Len(s) /\ Len(s) > 0 /\ IsFiniteSet(D)
  BY <1>1, TermsCounted
<1> DEFINE l == Len(s)
<1>2a. 1 \in D /\ (l # 1 => 2 \in D)
  <2>1. l \in Nat /\ D = 1 .. l /\ l > 0
    BY <1>2
  <2> HIDE DEF l, D
  <2> QED
    BY <2>1
<1>5. \A a, b \in D : <<a, b>> \in R <=> ScoredBefore(s, q, w, a, b)
  OBVIOUS
<1>6. Ordering(D, R)
  <2>1. D \in SUBSET DOMAIN h.doc.sentences
    OBVIOUS
  <2> QED
    BY <2>1, ScoredOrder
<1> HIDE DEF R, D
<1>7. anchor \in D
  <2>1. D # {}
    BY <1>2a
  <2>2. \E p \in D : \A u \in D \ {p} : <<p, u>> \in R
    BY <1>6, <2>1, FirstOf
  <2>3. \E p \in D : \A u \in D \ {p} : ScoredBefore(s, q, w, p, u)
    BY <1>5, <2>2
  <2> HIDE DEF s
  <2> QED
    BY <2>3
<1> DEFINE span == IF Len(s) = 1 THEN <<anchor>> ELSE IF anchor = 1 THEN <<1, 2>> ELSE <<anchor - 1, anchor>>
<1>8. i = [hit |-> h, anchor |-> anchor, identity |-> Relevant(h, q), preferred |-> span]
  BY DEF Prepare, D
<1> HIDE DEF anchor, i
<1>9. span \in Seq(Nat) /\ span # <<>> /\ \A k \in DOMAIN span : span[k] \in D
  <2> HIDE DEF s
  <2>1. CASE Len(s) = 1
    BY <1>2, <1>7, <2>1
  <2>2. CASE Len(s) # 1 /\ anchor = 1
    <3>1. 1 \in D /\ 2 \in D
      BY <1>2a, <2>2
    <3> QED
      BY <2>2, <3>1
  <2>3. CASE Len(s) # 1 /\ anchor # 1
    <3>1. anchor \in Nat /\ anchor - 1 \in Nat /\ anchor - 1 \in D
      BY <1>2, <1>7, <2>3
    <3> QED
      BY <1>7, <2>3, <3>1
  <2> QED
    BY <2>1, <2>2, <2>3
<1>10. Relevant(h, q) \in SUBSET q /\ anchor \in Nat
  BY <1>2, <1>7 DEF Relevant
<1>10a. ASSUME anchor # 1 \/ Len(s) = 1 PROVE span[Len(span)] = anchor
  <2> HIDE DEF s
  <2> QED
    BY <1>10a
<1> HIDE DEF span
<1>10b. anchor # 1 \/ Len(i.hit.doc.sentences) = 1 => Fallback(i) = anchor
  BY <1>8, <1>10a DEF Fallback
<1>11. i \in ItemSet(q)
  BY <1>7, <1>8, <1>9, <1>10, <1>10b DEF ItemSet, D
<1> QED
  BY <1>11 DEF i

(* Every hit is prepared.                                                    *)
LEMMA PreparedType ==
  ASSUME NEW s \in Seq(RankedHits), NEW q, NEW w \in [q -> Int]
  PROVE  Prepared(s, q, w) \in Seq(ItemSet(q)) /\ Len(Prepared(s, q, w)) = Len(s)
         /\ DOMAIN Prepared(s, q, w) = DOMAIN s
<1>1. Len(s) \in Nat /\ DOMAIN s = 1 .. Len(s) /\ \A n \in DOMAIN s : s[n] \in RankedHits
  OBVIOUS
<1>2. \A n \in DOMAIN s : Prepare(s[n], q, w) \in ItemSet(q)
  BY <1>1, PrepareType
<1>3. Prepared(s, q, w) = [n \in 1 .. Len(s) |-> Prepare(s[n], q, w)]
  BY <1>1 DEF Prepared
<1>4. Prepared(s, q, w) \in [1 .. Len(s) -> ItemSet(q)]
  BY <1>1, <1>2, <1>3
<1>5. Prepared(s, q, w) \in Seq(ItemSet(q)) /\ DOMAIN Prepared(s, q, w) = 1 .. Len(s)
  BY <1>1, <1>4
<1> QED
  BY <1>1, <1>5

(* No budget of the sequence exceeds the limit, which it ends with.          *)
Promotes(b, max) == b \in Seq(Nat) /\ b # <<>> /\ (\A n \in DOMAIN b : b[n] <= max) /\ b[Len(b)] = max

(* The adaptive budget is within the budget allowed.                         *)
LEMMA AdaptiveType ==
  ASSUME NEW s \in Seq(RankedHits), NEW q, NEW max \in Nat
  PROVE  AdaptiveBudget(s, q, Tiers, max) \in Nat /\ AdaptiveBudget(s, q, Tiers, max) <= max
<1>1. Tiers[1] \in Nat /\ Tiers[2] \in Nat
  <2>1. Tiers \in Seq(Nat) /\ Len(Tiers) >= 2
    BY HostAssumption
  <2>2. Len(Tiers) \in Nat /\ 1 \in 1 .. Len(Tiers) /\ 2 \in 1 .. Len(Tiers)
    BY <2>1
  <2> QED
    BY <2>1, <2>2, ElementOfSeq
<1>2. ASSUME NEW a \in Nat PROVE Min({max, a}) \in Nat /\ Min({max, a}) <= max
  <2>1. Min({max, a}) = (IF a < max THEN a ELSE max)
    BY MinOfTwo
  <2> QED
    BY <2>1
<1>3. AdaptiveBudget(s, q, Tiers, max) \in {Min({max, Tiers[1]}), Min({max, Tiers[2]}), max}
  BY DEF AdaptiveBudget
<1> QED
  BY <1>1, <1>2, <1>3

(* A promotion sequence ends at the whole budget.                            *)
LEMMA SequencePromotes ==
  ASSUME NEW max \in Nat, NEW sel \in Nat, sel <= max
  PROVE  Promotes(BudgetSequence(sel, Tiers, max), max)
<1> DEFINE keep == {n \in DOMAIN Tiers : sel < Tiers[n] /\ Tiers[n] < max}
           middle == Pick(Tiers, keep)
           last == IF sel = max THEN <<>> ELSE <<max>>
           front == <<sel>> \o middle
           b == BudgetSequence(sel, Tiers, max)
<1>1. b = front \o last
  BY DEF BudgetSequence
<1>2. middle \in Seq(Nat) /\ \A r \in DOMAIN middle : sel < middle[r] /\ middle[r] < max
  <2>1. Tiers \in Seq(Nat) /\ keep \in SUBSET DOMAIN Tiers
    BY HostAssumption
  <2>2. \A n \in keep : sel < Tiers[n] /\ Tiers[n] < max
    OBVIOUS
  <2> HIDE DEF keep
  <2>3. middle \in Seq(Nat) /\ DOMAIN middle = 1 .. Cardinality(keep)
    BY <2>1, PickMeaning
  <2>4. \A r \in 1 .. Cardinality(keep) : middle[r] = Tiers[Ascending(keep)[r]] /\ Ascending(keep)[r] \in keep
    BY <2>1, PickMeaning
  <2> HIDE DEF middle
  <2> QED
    BY <2>2, <2>3, <2>4
<1> HIDE DEF middle, b
<1>3. front \in Seq(Nat) /\ front # <<>> /\ \A n \in DOMAIN front : front[n] <= max
  <2>1. <<sel>> \in Seq(Nat) /\ Len(<<sel>>) = 1
    OBVIOUS
  <2>2. front \in Seq(Nat) /\ Len(front) = 1 + Len(middle)
    BY <1>2, <2>1, ConcatProperties
  <2>3. \A n \in 1 .. 1 + Len(middle) : front[n] = IF n <= 1 THEN sel ELSE middle[n - 1]
    BY <1>2
  <2>4. Len(middle) \in Nat /\ DOMAIN middle = 1 .. Len(middle)
    BY <1>2
  <2> HIDE DEF front
  <2>5. DOMAIN front = 1 .. 1 + Len(middle)
    BY <2>2, <2>4
  <2>6. ASSUME NEW n \in DOMAIN front PROVE front[n] <= max
    <3>1. CASE n = 1
      BY <2>3, <2>5, <3>1
    <3>2. CASE n # 1
      <4>1. n - 1 \in DOMAIN middle /\ front[n] = middle[n - 1]
        BY <2>3, <2>4, <2>5, <3>2
      <4>2. middle[n - 1] \in Nat /\ middle[n - 1] < max
        BY <1>2, <4>1
      <4> QED
        BY <4>1, <4>2
    <3> QED
      BY <3>1, <3>2
  <2> QED
    BY <2>2, <2>4, <2>6
<1>4. CASE sel = max
  <2>1. middle = <<>>
    <3>1. \A r \in DOMAIN middle : middle[r] \in Nat
      BY <1>2
    <3>2. DOMAIN middle = {}
      BY <1>2, <1>4, <3>1
    <3>3. Len(middle) \in Nat /\ DOMAIN middle = 1 .. Len(middle)
      BY <1>2
    <3>4. Len(middle) = 0
      <4>1. 1 \notin 1 .. Len(middle)
        BY <3>2, <3>3
      <4> QED
        BY <3>3, <4>1
    <3> QED
      BY <1>2, <3>4
  <2>2. b = <<max>>
    BY <1>1, <1>4, <2>1
  <2>3. b \in Seq(Nat) /\ b # <<>> /\ Len(b) = 1 /\ DOMAIN b = 1 .. 1 /\ b[1] = max
    BY <2>2
  <2>4. \A n \in DOMAIN b : b[n] <= max
    BY <2>3
  <2> QED
    BY <2>3, <2>4, Zenon DEF Promotes, b
<1>5. CASE sel # max
  <2>1. b = front \o <<max>>
    BY <1>1, <1>5
  <2> HIDE DEF front
  <2>2. b = Append(front, max)
    BY <1>3, <2>1
  <2>3. b \in Seq(Nat) /\ Len(b) = Len(front) + 1 /\ b[Len(b)] = max /\ Len(front) \in Nat
        /\ \A n \in 1 .. Len(front) : b[n] = front[n]
    BY <1>3, <2>2
  <2>4. DOMAIN b = 1 .. Len(front) + 1 /\ DOMAIN front = 1 .. Len(front)
    BY <1>3, <2>3
  <2>5. ASSUME NEW n \in DOMAIN b PROVE b[n] <= max
    <3>1. CASE n = Len(front) + 1
      BY <2>3, <3>1
    <3>2. CASE n # Len(front) + 1
      <4>1. n \in 1 .. Len(front)
        BY <2>3, <2>4, <3>2
      <4> QED
        BY <1>3, <2>3, <2>4, <4>1
    <3> QED
      BY <3>1, <3>2
  <2>6. b # <<>>
    BY <2>3
  <2> QED
    BY <2>3, <2>5, <2>6, Zenon DEF Promotes, b
<1> QED
  BY <1>4, <1>5 DEF b

(* The promotion ends at the first budget that yields a row, or at the whole *)
(* one.                                                                      *)
LEMMA PrecisionEnds ==
  ASSUME NEW items, NEW b, NEW max \in Nat, Promotes(b, max), NEW limit
  PROVE  \E n \in DOMAIN b : /\ Precision(items, b, limit) = ProjectAtBudget(items, b[n], limit)
                             /\ b[n] \in Nat /\ b[n] <= max
                             /\ b[n] = max \/ Precision(items, b, limit).rows # <<>> \/ items = <<>>
<1> DEFINE At(n) == ProjectAtBudget(items, b[n], limit)
           W == {n \in DOMAIN b : n = Len(b) \/ At(n).rows # <<>> \/ items = <<>>}
           Ends(n) == /\ \A m \in 1 .. n - 1 : At(m).rows = <<>>
                      /\ n = Len(b) \/ At(n).rows # <<>> \/ items = <<>>
           c == CHOOSE n \in DOMAIN b : Ends(n)
<1>1. Len(b) \in Nat /\ DOMAIN b = 1 .. Len(b) /\ Len(b) \in DOMAIN b
      /\ \A n \in DOMAIN b : b[n] \in Nat /\ b[n] <= max
  BY DEF Promotes
<1> HIDE DEF At
<1>2. W \in SUBSET Nat /\ W # {}
  BY <1>1
<1>3. PICK n \in W : \A m \in W : n <= m
  <2> HIDE DEF W
  <2> QED
    BY <1>2, LeastNat
<1>4. n \in DOMAIN b /\ Ends(n)
  <2>1. ASSUME NEW m \in 1 .. n - 1 PROVE At(m).rows = <<>>
    <3>1. m \in DOMAIN b /\ m < n /\ m \in Nat
      BY <1>1
    <3>2. m \notin W
      BY <1>1, <1>3, <3>1
    <3> QED
      BY <3>1, <3>2
  <2> QED
    BY <2>1
<1> HIDE DEF Ends
<1>5. c \in DOMAIN b /\ Ends(c)
  BY <1>4
<1>6. Precision(items, b, limit) = At(c)
  BY DEF Precision, At, Ends
<1> HIDE DEF c
<1>7. b[c] = max \/ At(c).rows # <<>> \/ items = <<>>
  BY <1>5 DEF Ends, Promotes
<1> QED
  BY <1>1, <1>5, <1>6, <1>7 DEF At

-----------------------------------------------------------------------------
(* The global order.                                                         *)

LexBefore(s, t) == \E k \in DOMAIN s : s[k] < t[k] /\ \A j \in 1 .. k - 1 : s[j] = t[j]

(* Keys of six numbers, the last of them unique, are totally ordered.        *)
LEMMA LexOrder ==
  ASSUME NEW s \in [1 .. 6 -> Int], NEW t \in [1 .. 6 -> Int], NEW u \in [1 .. 6 -> Int]
  PROVE  /\ ~LexBefore(s, s)
         /\ LexBefore(s, t) /\ LexBefore(t, u) => LexBefore(s, u)
         /\ s[6] # t[6] => LexBefore(s, t) \/ LexBefore(t, s)
<1>1. ~LexBefore(s, s)
  BY DEF LexBefore
<1>2. ASSUME LexBefore(s, t), LexBefore(t, u) PROVE LexBefore(s, u)
  <2>1. PICK k \in 1 .. 6 : s[k] < t[k] /\ \A j \in 1 .. k - 1 : s[j] = t[j]
    BY <1>2 DEF LexBefore
  <2>2. PICK l \in 1 .. 6 : t[l] < u[l] /\ \A j \in 1 .. l - 1 : t[j] = u[j]
    BY <1>2 DEF LexBefore
  <2>3. CASE k <= l
    <3>1. s[k] < u[k]
      BY <2>1, <2>2, <2>3
    <3>2. \A j \in 1 .. k - 1 : s[j] = u[j]
      BY <2>1, <2>2, <2>3
    <3> QED
      BY <3>1, <3>2 DEF LexBefore
  <2>4. CASE l < k
    <3>1. s[l] < u[l]
      BY <2>1, <2>2, <2>4
    <3>2. \A j \in 1 .. l - 1 : s[j] = u[j]
      BY <2>1, <2>2, <2>4
    <3> QED
      BY <3>1, <3>2 DEF LexBefore
  <2> QED
    BY <2>3, <2>4
<1>3. ASSUME s[6] # t[6] PROVE LexBefore(s, t) \/ LexBefore(t, s)
  <2> DEFINE D == {k \in 1 .. 6 : s[k] # t[k]}
  <2>1. D \in SUBSET Nat /\ D # {}
    BY <1>3
  <2>2. PICK k \in D : \A j \in D : k <= j
    <3> HIDE DEF D
    <3> QED
      BY <2>1, LeastNat
  <2>3. \A j \in 1 .. k - 1 : s[j] = t[j]
    BY <2>2
  <2>4. s[k] < t[k] \/ t[k] < s[k]
    BY <2>2
  <2> QED
    BY <2>3, <2>4 DEF LexBefore
<1> QED
  BY <1>1, <1>2, <1>3

(* _global_prepared_rank lists the same items in another order.              *)
LEMMA GlobalRankType ==
  ASSUME NEW q, IsFiniteSet(q), NEW items \in Seq(ItemSet(q))
  PROVE  GlobalRank(items, q) \in Seq(ItemSet(q))
<1> DEFINE terms(n) == items[n].hit.doc.sentences[Fallback(items[n])].terms
           Key(n) == <<-Cardinality(terms(n) \cap q), -Cardinality(items[n].identity), -items[n].hit.matched,
                       -items[n].hit.score, BytesOf(Row(items[n], <<Fallback(items[n])>>)), n>>
           D == DOMAIN items
           R == {p \in (DOMAIN items) \X (DOMAIN items) : LexBefore(Key(p[1]), Key(p[2]))}
           r == Ranked(D, R)
<1>1. Len(items) \in Nat /\ D = 1 .. Len(items) /\ \A n \in D : items[n] \in ItemSet(q)
  OBVIOUS
<1>2. GlobalRank(items, q) = [n \in DOMAIN r |-> items[r[n]]]
  BY DEF GlobalRank, LexBefore
<1>3. ASSUME NEW n \in D PROVE Key(n) \in [1 .. 6 -> Int] /\ Key(n)[6] = n
  <2>1. /\ Row(items[n], <<Fallback(items[n])>>) \in RowSet
        /\ IsFiniteSet(terms(n)) /\ items[n].identity \subseteq q
    BY <1>1, ItemRows
  <2>2. Cardinality(terms(n) \cap q) \in Nat /\ Cardinality(items[n].identity) \in Nat
    <3> HIDE DEF terms
    <3> QED
      BY <2>1, FS_Intersection, FS_Subset, FS_CardinalityType
  <2>3. items[n].hit.matched \in Nat /\ items[n].hit.score \in Int
    BY <1>1 DEF ItemSet, RankedHits
  <2>4. BytesOf(Row(items[n], <<Fallback(items[n])>>)) \in Int
    BY <2>1, BytesType
  <2> DEFINE k1 == Cardinality(terms(n) \cap q)
             k2 == Cardinality(items[n].identity)
             k3 == items[n].hit.matched
             k4 == items[n].hit.score
             k5 == BytesOf(Row(items[n], <<Fallback(items[n])>>))
  <2>5. k1 \in Int /\ k2 \in Int /\ k3 \in Int /\ k4 \in Int /\ k5 \in Int /\ n \in Int
    BY <1>1, <2>2, <2>3, <2>4
  <2>6. Key(n) = <<-k1, -k2, -k3, -k4, k5, n>>
    OBVIOUS
  <2> HIDE DEF k1, k2, k3, k4, k5, Key
  <2> QED
    BY <2>5, <2>6
<1> HIDE DEF Key
<1>4. \A m, n \in D : <<m, n>> \in R <=> LexBefore(Key(m), Key(n))
  OBVIOUS
<1> HIDE DEF R
<1>5. Ordering(D, R)
  <2>1. IsFiniteSet(D)
    BY <1>1, IntervalSize
  <2>2. \A n \in D : <<n, n>> \notin R
    BY <1>3, <1>4, LexOrder
  <2>3. \A l, m, n \in D : <<l, m>> \in R /\ <<m, n>> \in R => <<l, n>> \in R
    BY <1>3, <1>4, LexOrder
  <2>4. \A m, n \in D : m # n => <<m, n>> \in R \/ <<n, m>> \in R
    BY <1>3, <1>4, LexOrder
  <2> QED
    BY <2>1, <2>2, <2>3, <2>4 DEF Ordering
<1>6. Cardinality(D) \in Nat /\ DOMAIN r = 1 .. Cardinality(D) /\ \A n \in DOMAIN r : r[n] \in D
  BY <1>5, RankedMeaning
<1> HIDE DEF r, D
<1>7. GlobalRank(items, q) \in [1 .. Cardinality(D) -> ItemSet(q)]
  BY <1>1, <1>2, <1>6
<1> QED
  BY <1>6, <1>7

(* A protected head and a ranked tail are the items again.                   *)
LEMMA GlobalOrderType ==
  ASSUME NEW q, IsFiniteSet(q), NEW items \in Seq(ItemSet(q)), NEW head \in Nat
  PROVE  GlobalOrder(items, q, head) \in Seq(ItemSet(q))
<1> DEFINE L == Len(items)
           h == Min({head, L})
<1>1. L \in Nat /\ \A n \in 1 .. L : items[n] \in ItemSet(q)
  OBVIOUS
<1>2. h \in Nat /\ h <= L
  <2>1. h = IF L < head THEN L ELSE head
    BY <1>1, MinOfTwo
  <2> HIDE DEF h, L
  <2> QED
    BY <1>1, <2>1
<1> HIDE DEF h
<1>3. SubSeq(items, 1, h) \in Seq(ItemSet(q)) /\ SubSeq(items, h + 1, L) \in Seq(ItemSet(q))
  <2>1. 1 \in Int /\ h \in Int /\ h + 1 \in Int /\ L \in Int
    BY <1>1, <1>2
  <2>2. (\A n \in 1 .. h : items[n] \in ItemSet(q)) /\ \A n \in h + 1 .. L : items[n] \in ItemSet(q)
    BY <1>1, <1>2
  <2>3. SubSeq(items, h + 1, L) \in Seq(ItemSet(q))
    BY <2>1, <2>2, SubSeqProperties
  <2>4. SubSeq(items, 1, h) \in Seq(ItemSet(q))
    <3> DEFINE one == 1
    <3>1. one \in Int /\ \A n \in one .. h : items[n] \in ItemSet(q)
      BY <2>2
    <3> HIDE DEF one
    <3>2. SubSeq(items, one, h) \in Seq(ItemSet(q))
      BY <2>1, <3>1, SubSeqProperties
    <3> QED
      BY <3>2 DEF one
  <2> QED
    BY <2>3, <2>4
<1>4. GlobalRank(SubSeq(items, h + 1, L), q) \in Seq(ItemSet(q))
  BY <1>3, GlobalRankType
<1>5. GlobalOrder(items, q, head) = SubSeq(items, 1, h) \o GlobalRank(SubSeq(items, h + 1, L), q)
  BY DEF GlobalOrder, h
<1> HIDE DEF L
<1> QED
  BY <1>3, <1>4, <1>5, ConcatProperties

-----------------------------------------------------------------------------
(* Coverage, then context.                                                   *)

(* The coverage pass: one row per admitted document, its fallback sentence.  *)
CoverageSet(q, C, max) ==
  {acc \in [rows : Seq(RowSet), size : Int, seen : SUBSET C, items : Seq(ItemSet(q))] :
     /\ CountedRows(acc, max)
     /\ Len(acc.items) = Len(acc.rows)
     /\ \A k \in DOMAIN acc.rows : acc.rows[k] = Row(acc.items[k], <<Fallback(acc.items[k])>>)}

(* A hit is covered by one sentence, or not at all.                          *)
LEMMA CoverageStepStays ==
  ASSUME NEW q, NEW C, NEW max \in Int, NEW limit, NEW acc \in CoverageSet(q, C, max), NEW i \in ItemSet(q),
         \A p \in Nat : Context(i, p) \in C
  PROVE  CoverageStep(acc, i, max, limit) \in CoverageSet(q, C, max)
<1> DEFINE row == Row(i, <<Fallback(i)>>)
           context == Context(i, Fallback(i))
           admitted == Admit(acc, row, {context})
           more == [rows |-> admitted.rows, size |-> admitted.size, seen |-> admitted.seen, items |-> Append(acc.items, i)]
<1>1. row \in RowSet /\ context \in C
  <2>1. Fallback(i) \in Nat
    <3>1. PICK p \in DOMAIN i.preferred : i.preferred[p] = Fallback(i)
      BY ItemRows
    <3> DEFINE s == i.preferred
    <3>2. s \in Seq(Nat) /\ p \in DOMAIN s
      BY DEF ItemSet
    <3> HIDE DEF s
    <3>3. s[p] \in Nat
      BY <3>2
    <3> QED
      BY <3>1, <3>3 DEF s
  <2> QED
    BY <2>1, ItemRows
<1>2. CoverageStep(acc, i, max, limit) =
        IF Len(acc.rows) >= limit \/ context \in acc.seen \/ ~Fits(acc, row, max) THEN acc ELSE more
  BY DEF CoverageStep
<1>3. ASSUME Fits(acc, row, max) PROVE more \in CoverageSet(q, C, max)
  <2> DEFINE rows == acc.rows
             its == acc.items
  <2>1. /\ rows \in Seq(RowSet) /\ acc.size = PayloadBytes(rows) /\ acc.seen \in SUBSET C /\ acc.size \in Int
        /\ its \in Seq(ItemSet(q)) /\ Len(its) = Len(rows)
        /\ \A k \in DOMAIN rows : rows[k] = Row(its[k], <<Fallback(its[k])>>)
    BY DEF CoverageSet, CountedRows
  <2> DEFINE core == [rows |-> rows, size |-> acc.size, seen |-> acc.seen]
  <2>2. core \in CountedSet(C, max) /\ Fits(core, row, max)
    <3>1. acc.rows # <<>> => acc.size <= max
      BY DEF CoverageSet, CountedRows
    <3> QED
      BY <1>3, <2>1, <3>1 DEF CountedSet, CountedRows, Fits
  <2>3. admitted = Admit(core, row, {context})
    BY DEF Admit
  <2>4. admitted \in CountedSet(C, max)
    <3>1. {context} \in SUBSET C
      BY <1>1
    <3> HIDE DEF core, row, context, admitted
    <3> QED
      BY <1>1, <2>2, <2>3, <3>1, AdmitCounts DEF row
  <2>5. admitted.rows = Append(rows, row)
    BY DEF Admit
  <2> HIDE DEF rows, its, core, admitted, row
  <2>6. /\ Append(its, i) \in Seq(ItemSet(q)) /\ Len(Append(its, i)) = Len(admitted.rows)
        /\ Len(rows) \in Nat /\ DOMAIN admitted.rows = 1 .. Len(rows) + 1 /\ DOMAIN rows = 1 .. Len(rows)
    BY <1>1, <2>1, <2>5
  <2>7. ASSUME NEW k \in DOMAIN admitted.rows
        PROVE  admitted.rows[k] = Row(Append(its, i)[k], <<Fallback(Append(its, i)[k])>>)
    <3>1. CASE k = Len(rows) + 1
      <4>1. admitted.rows[k] = row /\ Append(its, i)[k] = i
        BY <1>1, <2>1, <2>5, <3>1
      <4> QED
        BY <4>1 DEF row
    <3>2. CASE k # Len(rows) + 1
      <4>1. k \in DOMAIN rows /\ admitted.rows[k] = rows[k] /\ Append(its, i)[k] = its[k]
        BY <1>1, <2>1, <2>5, <2>6, <3>2
      <4> QED
        BY <2>1, <4>1
    <3> QED
      BY <3>1, <3>2
  <2>8. more = [rows |-> admitted.rows, size |-> admitted.size, seen |-> admitted.seen, items |-> Append(its, i)]
    BY DEF its
  <2> HIDE DEF more
  <2> QED
    BY <2>4, <2>6, <2>7, <2>8 DEF CoverageSet, CountedSet, CountedRows
<1> HIDE DEF row, context, more
<1> QED
  BY <1>2, <1>3

(* The coverage pass over any number of hits.                                *)
LEMMA CoverageMeaning ==
  ASSUME NEW q, NEW items \in Seq(ItemSet(q)), NEW max \in Int, NEW limit
  PROVE  Coverage(items, max, limit) \in CoverageSet(q, ContextSet(items), max)
<1> DEFINE L == Len(items)
           S == CoverageSet(q, ContextSet(items), max)
           base == [rows |-> <<>>, size |-> EmptyBytes, seen |-> {}, items |-> <<>>]
           step == [n \in 1 .. L |-> [acc \in S |-> CoverageStep(acc, items[n], max, limit)]]
           Value(g, n) == IF n = 0 THEN base ELSE CoverageStep(g[n - 1], items[n], max, limit)
           run == CHOOSE g : g = [n \in 0 .. L |-> Value(g, n)]
<1>1. L \in Nat /\ DOMAIN items = 1 .. L /\ \A n \in 1 .. L : items[n] \in ItemSet(q)
  OBVIOUS
<1>2. base \in S
  <2>1. <<>> \in Seq(RowSet) /\ <<>> \in Seq(ItemSet(q))
    OBVIOUS
  <2>2. PayloadBytes(<<>>) = EmptyBytes
    BY <2>1, PayloadType
  <2>3. base \in [rows : Seq(RowSet), size : Int, seen : SUBSET ContextSet(items), items : Seq(ItemSet(q))]
    BY <2>1, FrameAssumption
  <2>4. CountedRows(base, max)
    BY <2>1, <2>2 DEF CountedRows
  <2> QED
    BY <2>3, <2>4 DEF CoverageSet
<1>3. \A n \in 1 .. L : \A acc \in S : CoverageStep(acc, items[n], max, limit) \in S
  <2> SUFFICES ASSUME NEW n \in 1 .. L, NEW acc \in S PROVE CoverageStep(acc, items[n], max, limit) \in S
    OBVIOUS
  <2>1. \A p \in Nat : Context(items[n], p) \in ContextSet(items)
    BY <1>1 DEF ContextSet
  <2> QED
    BY <1>1, <2>1, CoverageStepStays
<1> HIDE DEF S, base
<1>4. step \in [1 .. L -> [S -> S]] /\ \A n \in 1 .. L : \A acc \in S : step[n][acc] = CoverageStep(acc, items[n], max, limit)
  BY <1>3
<1> HIDE DEF step, L
<1>5. PICK g \in [0 .. L -> S] : Runs(g, L, base, step)
  BY <1>1, <1>2, <1>4, FoldExists
<1>6. g = [n \in 0 .. L |-> Value(g, n)]
  <2>1. ASSUME NEW n \in 0 .. L PROVE g[n] = Value(g, n)
    <3>1. CASE n = 0
      BY <1>5, <3>1 DEF Runs
    <3>2. CASE n # 0
      <4>1. n \in 1 .. L /\ n - 1 \in 0 .. L
        BY <1>1, <3>2
      <4> QED
        BY <1>4, <1>5, <3>2, <4>1 DEF Runs
    <3> QED
      BY <3>1, <3>2
  <2> HIDE DEF Value
  <2> QED
    BY <2>1
<1>7. run = [n \in 0 .. L |-> Value(run, n)]
  <2> HIDE DEF Value
  <2> QED
    BY <1>6, Zenon
<1>8. Coverage(items, max, limit) = run[L]
  BY DEF Coverage, L, base
<1> HIDE DEF run
<1>9. run[0] = base /\ \A n \in 1 .. L : run[n] = CoverageStep(run[n - 1], items[n], max, limit)
  <2>1. 0 \in 0 .. L /\ \A n \in 1 .. L : n \in 0 .. L /\ n # 0
    BY <1>1
  <2> QED
    BY <1>7, <2>1
<1>10. \A n \in 0 .. L : run[n] \in S
  <2>1. \A n \in 1 .. L : run[n - 1] \in S => run[n] \in S
    BY <1>3, <1>9
  <2> QED
    BY <1>1, <1>2, <1>9, <2>1, FoldStays
<1> QED
  BY <1>1, <1>8, <1>10 DEF S

(* The context pass: the rows stay those of the same documents and keep the  *)
(* sentence they were covered by.                                            *)
KeptRows(rows, covered) ==
  /\ Len(rows) = Len(covered)
  /\ \A r \in DOMAIN covered : /\ rows[r].hit = covered[r].hit
                               /\ \E p \in DOMAIN rows[r].positions : rows[r].positions[p] = covered[r].positions[1]
ExpandSet(covered, max) ==
  {acc \in [rows : Seq(RowSet), size : Int, seen : {covered.seen}, items : {covered.items}] :
     CountedRows(acc, max) /\ KeptRows(acc.rows, covered.rows)}

(* A document is enlarged when the bytes allow it; none is taken out.        *)
LEMMA ExpandStays ==
  ASSUME NEW q, NEW C, NEW max \in Int, NEW covered \in CoverageSet(q, C, max),
         NEW n \in DOMAIN covered.items, NEW acc \in ExpandSet(covered, max)
  PROVE  Expand(acc, covered.items[n], n, max) \in ExpandSet(covered, max)
<1> DEFINE i == covered.items[n]
           row == Row(i, i.preferred)
           rows == acc.rows
           delta == BytesOf(row) - BytesOf(rows[n])
           more == [rows |-> [rows EXCEPT ![n] = row], size |-> acc.size + delta, seen |-> acc.seen, items |-> acc.items]
<1>1. /\ covered.rows \in Seq(RowSet) /\ covered.items \in Seq(ItemSet(q)) /\ Len(covered.items) = Len(covered.rows)
      /\ \A k \in DOMAIN covered.rows : covered.rows[k] = Row(covered.items[k], <<Fallback(covered.items[k])>>)
  BY DEF CoverageSet, CountedRows
<1>2. /\ rows \in Seq(RowSet) /\ acc.size = PayloadBytes(rows) /\ acc.size \in Int
      /\ acc.seen = covered.seen /\ acc.items = covered.items
      /\ KeptRows(rows, covered.rows)
      /\ acc = [rows |-> rows, size |-> acc.size, seen |-> acc.seen, items |-> acc.items]
  BY DEF ExpandSet, CountedRows
<1>3. i \in ItemSet(q) /\ n \in DOMAIN covered.rows /\ n \in DOMAIN rows /\ DOMAIN rows = DOMAIN covered.rows
  <2> DEFINE its == covered.items
             old == covered.rows
  <2>1. its \in Seq(ItemSet(q)) /\ n \in DOMAIN its /\ old \in Seq(RowSet) /\ Len(its) = Len(old)
        /\ Len(rows) = Len(old) /\ rows \in Seq(RowSet)
    BY <1>1, <1>2 DEF KeptRows
  <2> HIDE DEF its, old, rows
  <2>2. its[n] \in ItemSet(q) /\ n \in DOMAIN old /\ n \in DOMAIN rows /\ DOMAIN rows = DOMAIN old
    BY <2>1
  <2> QED
    BY <2>2 DEF its, old
<1>4. Expand(acc, i, n, max) =
        IF Len(i.preferred) = 1 \/ acc.size + delta > max THEN acc ELSE more
  BY DEF Expand
<1>5. row \in RowSet /\ row.hit = covered.rows[n].hit
      /\ \E p \in DOMAIN row.positions : row.positions[p] = covered.rows[n].positions[1]
  <2>1. covered.rows[n] = [hit |-> i.hit, positions |-> <<Fallback(i)>>]
    BY <1>1, <1>3 DEF Row
  <2>2. row = [hit |-> i.hit, positions |-> i.preferred]
    BY DEF Row
  <2>3. row \in RowSet /\ \E p \in DOMAIN i.preferred : i.preferred[p] = Fallback(i)
    BY <1>3, ItemRows
  <2> HIDE DEF row, i
  <2> QED
    BY <2>1, <2>2, <2>3
<1> DEFINE other == [rows EXCEPT ![n] = row]
<1>6. other \in Seq(RowSet) /\ Len(other) = Len(rows) /\ PayloadBytes(other) = PayloadBytes(rows) + delta
  <2> HIDE DEF row, rows
  <2> QED
    BY <1>2, <1>3, <1>5, PayloadUpdate
<1>7. more = [rows |-> other, size |-> acc.size + delta, seen |-> acc.seen, items |-> acc.items]
  OBVIOUS
<1>8. KeptRows(other, covered.rows)
  <2>1. \A k \in DOMAIN rows : other[k] = IF k = n THEN row ELSE rows[k]
    OBVIOUS
  <2> HIDE DEF other, row, rows
  <2> QED
    BY <1>2, <1>3, <1>5, <1>6, <2>1 DEF KeptRows
<1>9. BytesOf(row) \in Int /\ BytesOf(rows[n]) \in Int
  <2>1. rows[n] \in RowSet
    <3> HIDE DEF rows
    <3> QED
      BY <1>2, <1>3
  <2> HIDE DEF row, rows
  <2> QED
    BY <1>5, <2>1, BytesType
<1>10. ASSUME acc.size + delta <= max PROVE more \in ExpandSet(covered, max)
  <2>1. acc.size + delta \in Int
    BY <1>2, <1>9
  <2> DEFINE size == acc.size + delta
  <2>2. size <= max /\ size \in Int /\ size = PayloadBytes(other)
    BY <1>2, <1>6, <1>10, <2>1
  <2>3. more = [rows |-> other, size |-> size, seen |-> covered.seen, items |-> covered.items]
    BY <1>2, <1>7
  <2> HIDE DEF other, size, more
  <2> QED
    BY <1>6, <1>8, <2>2, <2>3 DEF ExpandSet, CountedRows
<1>11. acc.size + delta \in Int
  BY <1>2, <1>9
<1> HIDE DEF more, delta
<1>12. Expand(acc, i, n, max) \in ExpandSet(covered, max)
  BY <1>4, <1>10, <1>11
<1> QED
  BY <1>12

(* multihop_coverage_evidence_projection_v1: both passes are counted, and    *)
(* what was covered is still shown.                                          *)
LEMMA MultihopMeaning ==
  ASSUME NEW q, NEW items \in Seq(ItemSet(q)), NEW max \in Int, NEW limit
  PROVE  /\ Multihop(items, max, limit).rows \in Seq(RowSet)
         /\ CountedRows(Multihop(items, max, limit), max)
         /\ KeptRows(Multihop(items, max, limit).rows, Coverage(items, max, limit).rows)
<1> DEFINE covered == Coverage(items, max, limit)
           L == Len(covered.items)
           S == ExpandSet(covered, max)
           step == [n \in 1 .. L |-> [acc \in S |-> Expand(acc, covered.items[n], n, max)]]
           Value(g, n) == IF n = 0 THEN covered ELSE Expand(g[n - 1], covered.items[n], n, max)
           run == CHOOSE g : g = [n \in 0 .. L |-> Value(g, n)]
<1>0. covered \in CoverageSet(q, ContextSet(items), max)
  BY CoverageMeaning
<1>8. Multihop(items, max, limit) = run[L]
  BY DEF Multihop
<1> HIDE DEF covered
<1>1. L \in Nat /\ DOMAIN covered.items = 1 .. L
  <2> DEFINE s == covered.items
  <2>1. s \in Seq(ItemSet(q))
    BY <1>0 DEF CoverageSet
  <2> HIDE DEF s
  <2>2. Len(s) \in Nat /\ DOMAIN s = 1 .. Len(s)
    BY <2>1
  <2> QED
    BY <2>2 DEF s
<1>2. covered \in S
  <2>1. /\ covered \in [rows : Seq(RowSet), size : Int, seen : SUBSET ContextSet(items), items : Seq(ItemSet(q))]
        /\ CountedRows(covered, max)
        /\ \A k \in DOMAIN covered.rows : covered.rows[k] = Row(covered.items[k], <<Fallback(covered.items[k])>>)
    BY <1>0 DEF CoverageSet
  <2>2. KeptRows(covered.rows, covered.rows)
    <3>1. ASSUME NEW r \in DOMAIN covered.rows
          PROVE  \E p \in DOMAIN covered.rows[r].positions : covered.rows[r].positions[p] = covered.rows[r].positions[1]
      <4>1. covered.rows[r].positions = <<Fallback(covered.items[r])>>
        BY <2>1 DEF Row
      <4>2. 1 \in DOMAIN covered.rows[r].positions
        BY <4>1
      <4> QED
        BY <4>2
    <3> QED
      BY <3>1 DEF KeptRows
  <2> QED
    BY <2>1, <2>2 DEF ExpandSet
<1>3. \A n \in 1 .. L : \A acc \in S : Expand(acc, covered.items[n], n, max) \in S
  BY <1>0, <1>1, ExpandStays
<1> HIDE DEF S
<1>4. step \in [1 .. L -> [S -> S]] /\ \A n \in 1 .. L : \A acc \in S : step[n][acc] = Expand(acc, covered.items[n], n, max)
  BY <1>3
<1> HIDE DEF step, L
<1>5. PICK g \in [0 .. L -> S] : Runs(g, L, covered, step)
  BY <1>1, <1>2, <1>4, FoldExists
<1>6. g = [n \in 0 .. L |-> Value(g, n)]
  <2>1. ASSUME NEW n \in 0 .. L PROVE g[n] = Value(g, n)
    <3>1. CASE n = 0
      BY <1>5, <3>1 DEF Runs
    <3>2. CASE n # 0
      <4>1. n \in 1 .. L /\ n - 1 \in 0 .. L
        BY <1>1, <3>2
      <4> QED
        BY <1>4, <1>5, <3>2, <4>1 DEF Runs
    <3> QED
      BY <3>1, <3>2
  <2> HIDE DEF Value
  <2> QED
    BY <2>1
<1>7. run = [n \in 0 .. L |-> Value(run, n)]
  <2> HIDE DEF Value
  <2> QED
    BY <1>6, Zenon
<1> HIDE DEF run
<1>9. run[0] = covered /\ \A n \in 1 .. L : run[n] = Expand(run[n - 1], covered.items[n], n, max)
  <2>1. 0 \in 0 .. L /\ \A n \in 1 .. L : n \in 0 .. L /\ n # 0
    BY <1>1
  <2> QED
    BY <1>7, <2>1
<1>10. \A n \in 0 .. L : run[n] \in S
  <2>1. \A n \in 1 .. L : run[n - 1] \in S => run[n] \in S
    BY <1>3, <1>9
  <2> QED
    BY <1>1, <1>2, <1>9, <2>1, FoldStays
<1>11. run[L] \in ExpandSet(covered, max)
  BY <1>1, <1>10 DEF S
<1>12. run[L].rows \in Seq(RowSet) /\ CountedRows(run[L], max) /\ KeptRows(run[L].rows, covered.rows)
  BY <1>11 DEF ExpandSet
<1>13. Multihop(items, max, limit) = run[L]
  BY <1>8 DEF L
<1> QED
  BY <1>12, <1>13 DEF covered

-----------------------------------------------------------------------------
(* The projections of the legacy module.                                     *)

(* A nonempty set of numbers up to L has a greatest element.                 *)
LEMMA GreatestNat ==
  ASSUME NEW L \in Nat, NEW S \in SUBSET (1 .. L), S # {}
  PROVE  Max(S) \in S
<1> DEFINE T == {L - x : x \in S}
<1>1. T \in SUBSET Nat /\ T # {}
  <2>1. \A x \in S : x \in Nat /\ x <= L
    OBVIOUS
  <2>2. \A x \in S : L - x \in Nat
    BY <2>1
  <2> QED
    BY <2>2
<1>2. PICK y \in T : \A z \in T : y <= z
  <2> HIDE DEF T
  <2> QED
    BY <1>1, LeastNat
<1>3. PICK x \in S : y = L - x
  BY <1>2
<1>4. \A z \in S : z <= x
  BY <1>2, <1>3
<1>5. Max(S) = CHOOSE m \in S : \A n \in S : m >= n
  BY DEF Max
<1>6. \A z \in S : x >= z
  BY <1>4, <1>3
<1> QED
  BY <1>5, <1>6

(* Frames of rows, encoded within the budget.                                *)
FrameSet(max) == {rows \in Seq(RowSet) : rows = <<>> \/ PayloadBytes(rows) <= max}

(* Of the alternatives the first that fits is appended; if none fits nothing *)
(* changes.                                                                  *)
LEMMA FirstFit ==
  ASSUME NEW max \in Int, NEW rows \in FrameSet(max), NEW alternatives \in Seq(RowSet)
  PROVE  /\ AppendFirstFit(rows, alternatives, max) \in FrameSet(max)
         /\ \/ AppendFirstFit(rows, alternatives, max) = rows
            \/ \E r \in RowSet : AppendFirstFit(rows, alternatives, max) = Append(rows, r)
<1> DEFINE fits == {n \in DOMAIN alternatives : PayloadBytes(Append(rows, alternatives[n])) <= max}
           r == alternatives[Min(fits)]
<1>1. AppendFirstFit(rows, alternatives, max) = IF fits = {} THEN rows ELSE Append(rows, r)
  BY DEF AppendFirstFit
<1>2. fits \in SUBSET Nat
  OBVIOUS
<1>3. ASSUME fits # {} PROVE Min(fits) \in fits
  <2> HIDE DEF fits
  <2>1. PICK x \in fits : \A y \in fits : x <= y
    BY <1>2, <1>3, LeastNat
  <2>2. Min(fits) = CHOOSE m \in fits : \A n \in fits : m <= n
    BY DEF Min
  <2> QED
    BY <2>1, <2>2
<1>4. ASSUME fits # {} PROVE r \in RowSet /\ Append(rows, r) \in FrameSet(max)
  <2>1. r \in RowSet /\ PayloadBytes(Append(rows, r)) <= max
    BY <1>3, <1>4
  <2> HIDE DEF r
  <2>2. rows \in Seq(RowSet)
    BY DEF FrameSet
  <2>3. Append(rows, r) \in Seq(RowSet)
    BY <2>1, <2>2, PayloadAppend
  <2> QED
    BY <2>1, <2>3 DEF FrameSet
<1> HIDE DEF fits, r
<1> QED
  BY <1>1, <1>4

(* compact-row and grouped-evidence show sentences of the text.               *)
LEMMA CompactRow ==
  ASSUME NEW h \in RankedHits, NEW q, NEW w \in [q -> Int], NEW k \in Nat \ {0}
  PROVE  /\ Row([hit |-> h], CompactChosen(h.doc.sentences, q, w, k)) \in RowSet
         /\ Row([hit |-> h], <<1>>) \in RowSet
<1> DEFINE s == h.doc.sentences
           D == DOMAIN s
           others == D \ {1}
           R == {p \in others \X others : ScoredBefore(s, q, w, p[1], p[2])}
           ranked == Ranked(others, R)
           last == Min({k - 1, Len(ranked)})
           keep == {1} \cup {ranked[n] : n \in 1 .. last}
           at == Ascending(keep)
<1>1. D \subseteq Nat /\ IsFiniteSet(D) /\ 1 \in D
  <2>1. WellFormed(h.doc)
    BY CorpusAssumption DEF RankedHits
  <2>2. Len(s) \in Nat /\ D = 1 .. Len(s) /\ Len(s) > 0 /\ IsFiniteSet(D)
    BY <2>1, TermsCounted
  <2> HIDE DEF s, D
  <2> QED
    BY <2>2
<1>2. CompactChosen(s, q, w, k) = at
  BY DEF CompactChosen
<1>3. Ordering(others, R)
  <2>1. others \in SUBSET DOMAIN h.doc.sentences
    OBVIOUS
  <2> QED
    BY <2>1, ScoredOrder
<1> HIDE DEF R, D
<1>4. /\ Len(ranked) \in Nat /\ ranked \in Seq(others)
  <2> HIDE DEF others
  <2>1. ranked \in Seq(others)
    BY <1>3, RankedMeaning
  <2> HIDE DEF ranked
  <2> QED
    BY <2>1
<1>5. keep \subseteq D
  <2> DEFINE l == Len(ranked)
  <2>1. l \in Nat
    BY <1>4
  <2> HIDE DEF l
  <2>2. Min({k - 1, l}) = (IF l < k - 1 THEN l ELSE k - 1)
    BY <2>1, MinOfTwo
  <2>3. last <= Len(ranked) /\ last \in Nat
    BY <2>1, <2>2 DEF l
  <2> HIDE DEF last, ranked
  <2>4. \A n \in 1 .. last : ranked[n] \in others
    BY <1>4, <2>3
  <2> QED
    BY <1>1, <2>4
<1> HIDE DEF keep, others
<1>6. at \in Seq(Nat) /\ \A n \in DOMAIN at : at[n] \in D
  <2>1. IsFiniteSet(keep)
    BY <1>1, <1>5, FS_Subset
  <2>2. keep \in SUBSET Int
    BY <1>1, <1>5
  <2>3. at \in Seq(keep)
    BY <2>1, <2>2, AscendingMeaning
  <2> HIDE DEF at
  <2>4. \A n \in DOMAIN at : at[n] \in keep
    BY <2>3
  <2>5. \A n \in DOMAIN at : at[n] \in D /\ at[n] \in Nat
    BY <1>1, <1>5, <2>4
  <2> QED
    BY <2>3, <2>5
<1>7. ASSUME NEW positions \in Seq(Nat), \A n \in DOMAIN positions : positions[n] \in D
      PROVE  Row([hit |-> h], positions) \in RowSet
  BY <1>7 DEF Row, RowSet, D
<1> HIDE DEF at
<1>8. Row([hit |-> h], at) \in RowSet
  BY <1>6, <1>7
<1>9. Row([hit |-> h], <<1>>) \in RowSet
  <2> DEFINE one == <<1>>
  <2>1. one \in Seq(Nat) /\ \A n \in DOMAIN one : one[n] \in D
    BY <1>1
  <2> HIDE DEF one
  <2>2. Row([hit |-> h], one) \in RowSet
    BY <1>7, <2>1
  <2> QED
    BY <2>2 DEF one
<1> QED
  BY <1>2, <1>8, <1>9

(* A frame without rows is within any budget.                                *)
LEMMA EmptyFrame ==
  ASSUME NEW max
  PROVE  <<>> \in FrameSet(max)
BY DEF FrameSet

(* _compact_projection stays within the budget.                              *)
LEMMA CompactFits ==
  ASSUME NEW s \in Seq(RankedHits), NEW q, NEW w \in [q -> Int], NEW max \in Int, NEW k \in Nat \ {0}
  PROVE  Compact(s, q, w, max, k).rows \in FrameSet(max)
         /\ Compact(s, q, w, max, k).size = PayloadBytes(Compact(s, q, w, max, k).rows)
<1> DEFINE L == Len(s)
           S == FrameSet(max)
           base == <<>>
           step == [n \in 1 .. L |-> [acc \in S |-> CompactStep(acc, s[n], q, w, max, k)]]
           Value(g, n) == IF n = 0 THEN <<>> ELSE CompactStep(g[n - 1], s[n], q, w, max, k)
           run == CHOOSE g : g = [n \in 0 .. L |-> Value(g, n)]
<1>1. L \in Nat /\ DOMAIN s = 1 .. L /\ \A n \in 1 .. L : s[n] \in RankedHits
  OBVIOUS
<1>2. base \in S
  BY EmptyFrame
<1> HIDE DEF S
<1>3. \A n \in 1 .. L : \A acc \in S : CompactStep(acc, s[n], q, w, max, k) \in S
  <2> SUFFICES ASSUME NEW n \in 1 .. L, NEW acc \in S PROVE CompactStep(acc, s[n], q, w, max, k) \in S
    OBVIOUS
  <2> DEFINE r1 == Row([hit |-> s[n]], CompactChosen(s[n].doc.sentences, q, w, k))
             r2 == Row([hit |-> s[n]], <<1>>)
             alternatives == <<r1, r2>>
  <2>1. r1 \in RowSet /\ r2 \in RowSet
    BY <1>1, CompactRow
  <2>2. CompactStep(acc, s[n], q, w, max, k) = AppendFirstFit(acc, alternatives, max)
    BY DEF CompactStep
  <2> HIDE DEF r1, r2
  <2>3. alternatives \in Seq(RowSet)
    BY <2>1
  <2> HIDE DEF alternatives
  <2> QED
    BY <2>2, <2>3, FirstFit DEF S
<1>4. step \in [1 .. L -> [S -> S]] /\ \A n \in 1 .. L : \A acc \in S : step[n][acc] = CompactStep(acc, s[n], q, w, max, k)
  BY <1>3
<1> HIDE DEF step, L
<1>5. PICK g \in [0 .. L -> S] : Runs(g, L, base, step)
  BY <1>1, <1>2, <1>4, FoldExists
<1>6. g = [n \in 0 .. L |-> Value(g, n)]
  <2>1. ASSUME NEW n \in 0 .. L PROVE g[n] = Value(g, n)
    <3>1. CASE n = 0
      BY <1>5, <3>1 DEF Runs
    <3>2. CASE n # 0
      <4>1. n \in 1 .. L /\ n - 1 \in 0 .. L
        BY <1>1, <3>2
      <4> QED
        BY <1>4, <1>5, <3>2, <4>1 DEF Runs
    <3> QED
      BY <3>1, <3>2
  <2> HIDE DEF Value
  <2> QED
    BY <2>1
<1>7. run = [n \in 0 .. L |-> Value(run, n)]
  <2> HIDE DEF Value
  <2> QED
    BY <1>6, Zenon
<1>8. Compact(s, q, w, max, k) = Encoded(run[L])
  BY DEF Compact, L
<1> HIDE DEF run
<1>9. run[0] = base /\ \A n \in 1 .. L : run[n] = CompactStep(run[n - 1], s[n], q, w, max, k)
  <2>1. 0 \in 0 .. L /\ \A n \in 1 .. L : n \in 0 .. L /\ n # 0
    BY <1>1
  <2> QED
    BY <1>7, <2>1
<1>10. run[L] \in S
  <2>1. \A n \in 1 .. L : run[n - 1] \in S => run[n] \in S
    BY <1>3, <1>9
  <2>2. \A n \in 0 .. L : run[n] \in S
    BY <1>1, <1>2, <1>9, <2>1, FoldStays
  <2> QED
    BY <1>1, <2>2
<1> QED
  BY <1>8, <1>10 DEF S, Encoded

(* The grouped frames of the legacy module: rows within the budget, and the  *)
(* signatures of the sentences shown so far.                                 *)
SigSet(items) == {Sig(items[n], p) : n \in DOMAIN items, p \in Nat}
GroupSet(items, max) == [rows : FrameSet(max), seen : SUBSET SigSet(items)]

(* Sentences shown are sentences of the items.                               *)
LEMMA SigsShown ==
  ASSUME NEW items, NEW n \in DOMAIN items, NEW positions \in Seq(Nat)
  PROVE  {Sig(items[n], p) : p \in Range(positions)} \in SUBSET SigSet(items)
<1>1. \A p \in Range(positions) : p \in Nat
  BY DEF Range
<1> QED
  BY <1>1 DEF SigSet

(* A step of _context_grouped_projection.                                    *)
LEMMA ContextStepStays ==
  ASSUME NEW q, NEW items \in Seq(ItemSet(q)), NEW n \in DOMAIN items, NEW max \in Int, NEW limit, NEW suppress,
         NEW acc \in GroupSet(items, max)
  PROVE  ContextStep(acc, items[n], max, limit, suppress) \in GroupSet(items, max)
<1> DEFINE item == items[n]
           span == IF item.anchor = 1 THEN <<1>> ELSE <<item.anchor - 1, item.anchor>>
           shown == {Sig(item, p) : p \in Range(span)}
           row == Row(item, span)
           rows == AppendFirstFit(acc.rows, <<row>>, max)
<1>1. ContextStep(acc, item, max, limit, suppress) =
        IF Len(acc.rows) >= limit \/ (suppress /\ shown \subseteq acc.seen) THEN acc
        ELSE [rows |-> rows, seen |-> IF rows = acc.rows THEN acc.seen ELSE acc.seen \cup shown]
  BY DEF ContextStep
<1>2. item \in ItemSet(q)
  OBVIOUS
<1>3. row \in RowSet
  <2> HIDE DEF item
  <2>1. CASE item.anchor = 1
    BY <1>2, <2>1, ItemRows
  <2>2. CASE item.anchor # 1
    BY <1>2, <2>2, ItemRows
  <2> QED
    BY <2>1, <2>2
<1>4. span \in Seq(Nat)
  <2>1. row = [hit |-> item.hit, positions |-> span]
    BY DEF Row
  <2> HIDE DEF span, row, item
  <2>2. row.positions \in Seq(Nat)
    BY <1>3 DEF RowSet
  <2> QED
    BY <2>1, <2>2
<1>5. shown \in SUBSET SigSet(items)
  <2> HIDE DEF span
  <2> QED
    BY <1>4, SigsShown
<1>6. acc.rows \in FrameSet(max) /\ acc.seen \in SUBSET SigSet(items)
  BY DEF GroupSet
<1> HIDE DEF row, shown
<1>7. rows \in FrameSet(max)
  <2> DEFINE alternatives == <<row>>
  <2>1. alternatives \in Seq(RowSet)
    BY <1>3
  <2> HIDE DEF alternatives
  <2>2. AppendFirstFit(acc.rows, alternatives, max) \in FrameSet(max)
    BY <1>6, <2>1, FirstFit
  <2> QED
    BY <2>2 DEF alternatives
<1> HIDE DEF rows
<1> QED
  BY <1>1, <1>5, <1>6, <1>7 DEF GroupSet

(* A step of the legacy _precision_context_projection.                       *)
LEMMA LegacyStepStays ==
  ASSUME NEW q, NEW items \in Seq(ItemSet(q)), NEW n \in DOMAIN items, NEW max \in Int, NEW limit,
         NEW acc \in GroupSet(items, max)
  PROVE  LegacyStep(acc, items[n], max, limit) \in GroupSet(items, max)
<1> DEFINE item == items[n]
           Sigs(positions) == {Sig(item, p) : p \in Range(positions)}
           r1 == Row(item, item.preferred)
           r2 == Row(item, <<item.anchor>>)
           rows == AppendFirstFit(acc.rows, <<r1, r2>>, max)
           new == Sigs(rows[Len(rows)].positions)
<1>1. LegacyStep(acc, item, max, limit) =
        IF Len(acc.rows) >= limit \/ Sigs(item.preferred) \subseteq acc.seen \/ rows = acc.rows THEN acc
        ELSE [rows |-> rows, seen |-> acc.seen \cup new]
  BY DEF LegacyStep
<1>2. item \in ItemSet(q)
  OBVIOUS
<1>3. r1 \in RowSet /\ r2 \in RowSet
  <2> HIDE DEF item
  <2> QED
    BY <1>2, ItemRows
<1>4. acc.rows \in FrameSet(max) /\ acc.seen \in SUBSET SigSet(items)
  BY DEF GroupSet
<1> HIDE DEF r1, r2
<1>5. rows \in FrameSet(max) /\ (rows = acc.rows \/ \E r \in RowSet : rows = Append(acc.rows, r))
  <2> DEFINE alternatives == <<r1, r2>>
  <2>1. alternatives \in Seq(RowSet)
    BY <1>3
  <2> HIDE DEF alternatives
  <2> DEFINE out == AppendFirstFit(acc.rows, alternatives, max)
  <2>2. out \in FrameSet(max) /\ (out = acc.rows \/ \E r \in RowSet : out = Append(acc.rows, r))
    BY <1>4, <2>1, FirstFit
  <2> QED
    BY <2>2 DEF alternatives
<1> HIDE DEF rows
<1>6. ASSUME rows # acc.rows PROVE new \in SUBSET SigSet(items)
  <2>1. PICK r \in RowSet : rows = Append(acc.rows, r)
    BY <1>5, <1>6
  <2> DEFINE old == acc.rows
             positions == r.positions
  <2>2. old \in Seq(RowSet) /\ rows = Append(old, r)
    BY <1>4, <2>1 DEF FrameSet
  <2> HIDE DEF old
  <2>3. rows[Len(rows)] = r
    BY <2>2
  <2>4. positions \in Seq(Nat)
    BY DEF RowSet
  <2>5. new = {Sig(items[n], p) : p \in Range(positions)}
    BY <2>3
  <2> HIDE DEF positions, new
  <2> QED
    BY <2>4, <2>5, SigsShown
<1> HIDE DEF new
<1> QED
  BY <1>1, <1>4, <1>5, <1>6 DEF GroupSet

(* _context_grouped_projection stays within the budget.                      *)
LEMMA ContextGroupedFits ==
  ASSUME NEW q, NEW items \in Seq(ItemSet(q)), NEW max \in Int, NEW limit, NEW suppress
  PROVE  \E rows \in FrameSet(max) : ContextGrouped(items, max, limit, suppress) = Encoded(rows)
<1> DEFINE L == Len(items)
           S == GroupSet(items, max)
           base == [rows |-> <<>>, seen |-> {}]
           step == [n \in 1 .. L |-> [acc \in S |-> ContextStep(acc, items[n], max, limit, suppress)]]
           Value(g, n) == IF n = 0 THEN base ELSE ContextStep(g[n - 1], items[n], max, limit, suppress)
           run == CHOOSE g : g = [n \in 0 .. L |-> Value(g, n)]
<1>1. L \in Nat /\ DOMAIN items = 1 .. L /\ \A n \in 1 .. L : n \in DOMAIN items
  OBVIOUS
<1>2. base \in S
  BY EmptyFrame DEF GroupSet
<1> HIDE DEF S
<1>3. \A n \in 1 .. L : \A acc \in S : ContextStep(acc, items[n], max, limit, suppress) \in S
  BY <1>1, ContextStepStays DEF S
<1> HIDE DEF base
<1>4. step \in [1 .. L -> [S -> S]] /\ \A n \in 1 .. L : \A acc \in S : step[n][acc] = ContextStep(acc, items[n], max, limit, suppress)
  BY <1>3
<1> HIDE DEF step, L
<1>5. PICK g \in [0 .. L -> S] : Runs(g, L, base, step)
  BY <1>1, <1>2, <1>4, FoldExists
<1>6. g = [n \in 0 .. L |-> Value(g, n)]
  <2>1. ASSUME NEW n \in 0 .. L PROVE g[n] = Value(g, n)
    <3>1. CASE n = 0
      BY <1>5, <3>1 DEF Runs
    <3>2. CASE n # 0
      <4>1. n \in 1 .. L /\ n - 1 \in 0 .. L
        BY <1>1, <3>2
      <4> QED
        BY <1>4, <1>5, <3>2, <4>1 DEF Runs
    <3> QED
      BY <3>1, <3>2
  <2> HIDE DEF Value
  <2> QED
    BY <2>1
<1>7. run = [n \in 0 .. L |-> Value(run, n)]
  <2> HIDE DEF Value
  <2> QED
    BY <1>6, Zenon
<1>8. ContextGrouped(items, max, limit, suppress) = Encoded(run[L].rows)
  BY DEF ContextGrouped, L, base
<1> HIDE DEF run
<1>9. run[0] = base /\ \A n \in 1 .. L : run[n] = ContextStep(run[n - 1], items[n], max, limit, suppress)
  <2>1. 0 \in 0 .. L /\ \A n \in 1 .. L : n \in 0 .. L /\ n # 0
    BY <1>1
  <2> QED
    BY <1>7, <2>1
<1>10. run[L] \in S
  <2>1. \A n \in 1 .. L : run[n - 1] \in S => run[n] \in S
    BY <1>3, <1>9
  <2>2. \A n \in 0 .. L : run[n] \in S
    BY <1>1, <1>2, <1>9, <2>1, FoldStays
  <2> QED
    BY <1>1, <2>2
<1>11. run[L].rows \in FrameSet(max)
  BY <1>10 DEF S, GroupSet
<1> QED
  BY <1>8, <1>11

(* The legacy _precision_context_projection stays within the budget.         *)
LEMMA LegacyFits ==
  ASSUME NEW q, NEW items \in Seq(ItemSet(q)), NEW max \in Int, NEW limit
  PROVE  \E rows \in FrameSet(max) : LegacyAtBudget(items, max, limit) = Encoded(rows)
<1> DEFINE L == Len(items)
           S == GroupSet(items, max)
           base == [rows |-> <<>>, seen |-> {}]
           step == [n \in 1 .. L |-> [acc \in S |-> LegacyStep(acc, items[n], max, limit)]]
           Value(g, n) == IF n = 0 THEN base ELSE LegacyStep(g[n - 1], items[n], max, limit)
           run == CHOOSE g : g = [n \in 0 .. L |-> Value(g, n)]
<1>1. L \in Nat /\ DOMAIN items = 1 .. L /\ \A n \in 1 .. L : n \in DOMAIN items
  OBVIOUS
<1>2. base \in S
  BY EmptyFrame DEF GroupSet
<1> HIDE DEF S
<1>3. \A n \in 1 .. L : \A acc \in S : LegacyStep(acc, items[n], max, limit) \in S
  BY <1>1, LegacyStepStays DEF S
<1> HIDE DEF base
<1>4. step \in [1 .. L -> [S -> S]] /\ \A n \in 1 .. L : \A acc \in S : step[n][acc] = LegacyStep(acc, items[n], max, limit)
  BY <1>3
<1> HIDE DEF step, L
<1>5. PICK g \in [0 .. L -> S] : Runs(g, L, base, step)
  BY <1>1, <1>2, <1>4, FoldExists
<1>6. g = [n \in 0 .. L |-> Value(g, n)]
  <2>1. ASSUME NEW n \in 0 .. L PROVE g[n] = Value(g, n)
    <3>1. CASE n = 0
      BY <1>5, <3>1 DEF Runs
    <3>2. CASE n # 0
      <4>1. n \in 1 .. L /\ n - 1 \in 0 .. L
        BY <1>1, <3>2
      <4> QED
        BY <1>4, <1>5, <3>2, <4>1 DEF Runs
    <3> QED
      BY <3>1, <3>2
  <2> HIDE DEF Value
  <2> QED
    BY <2>1
<1>7. run = [n \in 0 .. L |-> Value(run, n)]
  <2> HIDE DEF Value
  <2> QED
    BY <1>6, Zenon
<1>8. LegacyAtBudget(items, max, limit) = Encoded(run[L].rows)
  BY DEF LegacyAtBudget, L, base
<1> HIDE DEF run
<1>9. run[0] = base /\ \A n \in 1 .. L : run[n] = LegacyStep(run[n - 1], items[n], max, limit)
  <2>1. 0 \in 0 .. L /\ \A n \in 1 .. L : n \in 0 .. L /\ n # 0
    BY <1>1
  <2> QED
    BY <1>7, <2>1
<1>10. run[L] \in S
  <2>1. \A n \in 1 .. L : run[n - 1] \in S => run[n] \in S
    BY <1>3, <1>9
  <2>2. \A n \in 0 .. L : run[n] \in S
    BY <1>1, <1>2, <1>9, <2>1, FoldStays
  <2> QED
    BY <1>1, <2>2
<1>11. run[L].rows \in FrameSet(max)
  BY <1>10 DEF S, GroupSet
<1> QED
  BY <1>8, <1>11

(* What is within a small budget is within a larger one.                     *)
LEMMA FrameGrows ==
  ASSUME NEW small \in Int, NEW max \in Int, small <= max, NEW rows \in FrameSet(small)
  PROVE  rows \in FrameSet(max)
<1>1. rows \in Seq(RowSet)
  BY DEF FrameSet
<1>2. PayloadBytes(rows) \in Int
  BY <1>1, PayloadType
<1> QED
  BY <1>1, <1>2 DEF FrameSet

(* The legacy promotion ends at a budget of the sequence.                    *)
LEMMA LegacyPrecisionFits ==
  ASSUME NEW q, NEW items \in Seq(ItemSet(q)), NEW b, NEW max \in Nat, Promotes(b, max), NEW limit
  PROVE  \E rows \in FrameSet(max) : LegacyPrecision(items, b, limit) = Encoded(rows)
<1> DEFINE At(n) == LegacyAtBudget(items, b[n], limit)
           W == {n \in DOMAIN b : n = Len(b) \/ At(n).rows # <<>>}
           Ends(n) == (\A m \in 1 .. n - 1 : At(m).rows = <<>>) /\ (n = Len(b) \/ At(n).rows # <<>>)
           c == CHOOSE n \in DOMAIN b : Ends(n)
<1>1. Len(b) \in Nat /\ DOMAIN b = 1 .. Len(b) /\ Len(b) \in DOMAIN b
      /\ \A n \in DOMAIN b : b[n] \in Nat /\ b[n] <= max
  BY DEF Promotes
<1> HIDE DEF At
<1>2. W \in SUBSET Nat /\ W # {}
  BY <1>1
<1>3. PICK n \in W : \A m \in W : n <= m
  <2> HIDE DEF W
  <2> QED
    BY <1>2, LeastNat
<1>4. n \in DOMAIN b /\ Ends(n)
  <2>1. ASSUME NEW m \in 1 .. n - 1 PROVE At(m).rows = <<>>
    <3>1. m \in DOMAIN b /\ m < n /\ m \in Nat
      BY <1>1
    <3>2. m \notin W
      BY <1>1, <1>3, <3>1
    <3> QED
      BY <3>1, <3>2
  <2> QED
    BY <2>1
<1> HIDE DEF Ends
<1>5. c \in DOMAIN b /\ Ends(c)
  BY <1>4
<1>6. LegacyPrecision(items, b, limit) = At(c)
  BY DEF LegacyPrecision, At, Ends
<1> HIDE DEF c
<1>7. b[c] \in Nat /\ b[c] <= max
  BY <1>1, <1>5
<1>8. PICK rows \in FrameSet(b[c]) : At(c) = Encoded(rows)
  BY <1>7, LegacyFits DEF At
<1>9. rows \in FrameSet(max)
  BY <1>7, FrameGrows
<1> QED
  BY <1>6, <1>8, <1>9

-----------------------------------------------------------------------------
(* The hybrid: whole documents, then snippets.                               *)
HybridSet(max) == {acc \in [rows : Seq(RowSet), size : Int] : acc.rows = <<>> \/ acc.size <= max}

(* A document in full.                                                       *)
LEMMA WholeRow ==
  ASSUME NEW h \in RankedHits
  PROVE  Row([hit |-> h], [p \in DOMAIN h.doc.sentences |-> p]) \in RowSet
<1> DEFINE s == h.doc.sentences
           positions == [p \in DOMAIN s |-> p]
<1>1. Len(s) \in Nat /\ DOMAIN s = 1 .. Len(s)
  <2>1. WellFormed(h.doc)
    BY CorpusAssumption DEF RankedHits
  <2> QED
    BY <2>1, TermsCounted
<1>2. positions \in Seq(Nat) /\ \A k \in DOMAIN positions : positions[k] \in DOMAIN s
  <2> DEFINE l == Len(s)
  <2>1. l \in Nat /\ positions = [p \in 1 .. l |-> p] /\ DOMAIN s = 1 .. l
    BY <1>1
  <2> HIDE DEF l, positions
  <2> QED
    BY <2>1
<1>3. Row([hit |-> h], positions) = [hit |-> h, positions |-> positions]
  BY DEF Row
<1> HIDE DEF positions
<1>4. Row([hit |-> h], positions) \in RowSet
  BY <1>2, <1>3 DEF RowSet
<1> QED
  BY <1>4 DEF positions

(* A later hit is shown by the row the multihop projection made of its       *)
(* document, if any.                                                         *)
LEMMA SnippetRow ==
  ASSUME NEW rows \in Seq(RowSet), NEW h \in RankedHits
  PROVE  SnippetOf(rows, h) \in RowSet
<1> DEFINE of == {n \in DOMAIN rows : rows[n].hit.doc.id = h.doc.id}
           enlarged == {n \in of : Len(rows[n].positions) > 1}
           chosen == IF enlarged # {} THEN enlarged ELSE of
           none == <<>>
<1>1. SnippetOf(rows, h) = IF of = {} THEN Row([hit |-> h], none) ELSE rows[Max(chosen)]
  BY DEF SnippetOf
<1>2. Row([hit |-> h], none) \in RowSet
  <2>1. none \in Seq(Nat) /\ \A k \in DOMAIN none : none[k] \in DOMAIN h.doc.sentences
    OBVIOUS
  <2> HIDE DEF none
  <2>2. Row([hit |-> h], none) = [hit |-> h, positions |-> none]
    BY DEF Row
  <2> QED
    BY <2>1, <2>2 DEF RowSet
<1>3. Len(rows) \in Nat /\ DOMAIN rows = 1 .. Len(rows) /\ \A n \in DOMAIN rows : rows[n] \in RowSet
  OBVIOUS
<1>4. of \subseteq DOMAIN rows /\ enlarged \subseteq DOMAIN rows
  OBVIOUS
<1> HIDE DEF of, enlarged, none
<1>5. ASSUME of # {} PROVE rows[Max(chosen)] \in RowSet
  <2>1. chosen \in SUBSET (1 .. Len(rows)) /\ chosen # {}
    BY <1>3, <1>4, <1>5
  <2> HIDE DEF chosen
  <2>2. Max(chosen) \in chosen
    BY <1>3, <2>1, GreatestNat
  <2>3. Max(chosen) \in DOMAIN rows
    BY <1>3, <2>1, <2>2
  <2> QED
    BY <1>3, <2>3
<1> HIDE DEF chosen
<1> QED
  BY <1>1, <1>2, <1>5

(* Text is cut at the limit, never past it.                                  *)
LEMMA HybridStepStays ==
  ASSUME NEW max \in Int, NEW torn \in Nat, NEW acc \in HybridSet(max), NEW r \in RowSet
  PROVE  HybridStep(acc, r, max, torn) \in HybridSet(max)
<1> DEFINE size == AppendBounded(acc.size, BytesOf(r), max, torn)
           old == acc.rows
           rows == Append(old, r)
<1>1. HybridStep(acc, r, max, torn) =
        IF acc.size >= max \/ r.positions = <<>> \/ size = acc.size THEN acc ELSE [rows |-> rows, size |-> size]
  BY DEF HybridStep
<1>2. old \in Seq(RowSet) /\ acc.size \in Int
  BY DEF HybridSet
<1>3. BytesOf(r) \in Int
  BY BytesType
<1>4. size \in Int /\ (size # acc.size => size <= max)
  BY <1>2, <1>3 DEF AppendBounded
<1>5. rows \in Seq(RowSet)
  BY <1>2, PayloadAppend
<1> HIDE DEF rows, size
<1>6. size # acc.size => [rows |-> rows, size |-> size] \in HybridSet(max)
  BY <1>4, <1>5 DEF HybridSet
<1> QED
  BY <1>1, <1>6

(* project_host_ranked_hybrid_h1 stays within the budget.                    *)
LEMMA HybridFits ==
  ASSUME NEW s \in Seq(RankedHits), NEW rows \in Seq(RowSet), NEW max \in Int, NEW full, NEW limit \in Nat, NEW torn \in Nat
  PROVE  Hybrid(s, rows, max, full, limit, torn) \in HybridSet(max)
<1> DEFINE L == Min({limit, Len(s)})
           S == HybridSet(max)
           ShownAt(n) == IF n <= full THEN Row([hit |-> s[n]], [p \in DOMAIN s[n].doc.sentences |-> p])
                      ELSE SnippetOf(rows, s[n])
           base == [rows |-> <<>>, size |-> EmptyBytes]
           step == [n \in 1 .. L |-> [acc \in S |-> HybridStep(acc, ShownAt(n), max, torn)]]
           Value(g, n) == IF n = 0 THEN base ELSE HybridStep(g[n - 1], ShownAt(n), max, torn)
           run == CHOOSE g : g = [n \in 0 .. L |-> Value(g, n)]
<1>1. L \in Nat /\ \A n \in 1 .. L : s[n] \in RankedHits
  <2>1. L = (IF Len(s) < limit THEN Len(s) ELSE limit)
    BY MinOfTwo
  <2>2. L \in Nat /\ L <= Len(s)
    BY <2>1
  <2> HIDE DEF L
  <2> QED
    BY <2>2
<1> HIDE DEF L
<1>2. base \in S
  BY FrameAssumption DEF HybridSet
<1>3. \A n \in 1 .. L : \A acc \in S : HybridStep(acc, ShownAt(n), max, torn) \in S
  <2> SUFFICES ASSUME NEW n \in 1 .. L, NEW acc \in S PROVE HybridStep(acc, ShownAt(n), max, torn) \in S
    OBVIOUS
  <2> DEFINE h == s[n]
  <2>1. h \in RankedHits
    BY <1>1
  <2> HIDE DEF h
  <2>2. Row([hit |-> h], [p \in DOMAIN h.doc.sentences |-> p]) \in RowSet /\ SnippetOf(rows, h) \in RowSet
    BY <2>1, WholeRow, SnippetRow
  <2>3. ShownAt(n) \in RowSet
    BY <2>2 DEF h
  <2> HIDE DEF ShownAt
  <2> QED
    BY <2>3, HybridStepStays
<1>8. Hybrid(s, rows, max, full, limit, torn) = run[L]
  BY DEF Hybrid, L
<1> HIDE DEF S, base, ShownAt
<1>4. step \in [1 .. L -> [S -> S]] /\ \A n \in 1 .. L : \A acc \in S : step[n][acc] = HybridStep(acc, ShownAt(n), max, torn)
  BY <1>3
<1> HIDE DEF step
<1>5. PICK g \in [0 .. L -> S] : Runs(g, L, base, step)
  BY <1>1, <1>2, <1>4, FoldExists
<1>6. g = [n \in 0 .. L |-> Value(g, n)]
  <2>1. ASSUME NEW n \in 0 .. L PROVE g[n] = Value(g, n)
    <3>1. CASE n = 0
      BY <1>5, <3>1 DEF Runs
    <3>2. CASE n # 0
      <4>1. n \in 1 .. L /\ n - 1 \in 0 .. L
        BY <1>1, <3>2
      <4> QED
        BY <1>4, <1>5, <3>2, <4>1 DEF Runs
    <3> QED
      BY <3>1, <3>2
  <2> HIDE DEF Value
  <2> QED
    BY <2>1
<1>7. run = [n \in 0 .. L |-> Value(run, n)]
  <2> HIDE DEF Value
  <2> QED
    BY <1>6, Zenon
<1> HIDE DEF run
<1>9. run[0] = base /\ \A n \in 1 .. L : run[n] = HybridStep(run[n - 1], ShownAt(n), max, torn)
  <2>1. 0 \in 0 .. L /\ \A n \in 1 .. L : n \in 0 .. L /\ n # 0
    BY <1>1
  <2> QED
    BY <1>7, <2>1
<1>10. run[L] \in S
  <2>1. \A n \in 1 .. L : run[n - 1] \in S => run[n] \in S
    BY <1>3, <1>9
  <2>2. \A n \in 0 .. L : run[n] \in S
    BY <1>1, <1>2, <1>9, <2>1, FoldStays
  <2> QED
    BY <1>1, <2>2
<1> QED
  BY <1>8, <1>10 DEF S

(* A tier of the ladder carries the length of its own frame.                 *)
LEMMA TiersCounted ==
  ASSUME NEW q, NEW items \in Seq(ItemSet(q)), NEW tiers \in Seq(Nat), NEW limit
  PROVE  \A n \in DOMAIN ProjectTiers(items, tiers, limit) :
            ProjectTiers(items, tiers, limit)[n].size = PayloadBytes(ProjectTiers(items, tiers, limit)[n].rows)
<1>1. ASSUME NEW n \in DOMAIN tiers
      PROVE  LET t == ProjectAtBudget(items, tiers[n], limit) IN t.size = PayloadBytes(t.rows)
  <2>1. tiers[n] \in Int
    OBVIOUS
  <2>2. CountedRows(ProjectAtBudget(items, tiers[n], limit), tiers[n])
    BY <2>1, ProjectionCounts
  <2> QED
    BY <2>2 DEF CountedRows
<1>2. DOMAIN ProjectTiers(items, tiers, limit) = DOMAIN tiers
      /\ \A n \in DOMAIN tiers : ProjectTiers(items, tiers, limit)[n] = ProjectAtBudget(items, tiers[n], limit)
  BY DEF ProjectTiers, ProjectPrepared
<1> QED
  BY <1>1, <1>2

-----------------------------------------------------------------------------
(* The evidence of a question, step by step.                                 *)

(* What a projection may have made of typed items within a budget.           *)
Projected(q, s) ==
  /\ s.max \in Nat
  /\ \/ /\ s.kind = "precision" /\ s.limit \in Nat \ {0} /\ s.items \in Seq(ItemSet(q))
        /\ \E b : /\ Promotes(b, s.max)
                  /\ s.rows = Precision(s.items, b, s.limit).rows /\ s.size = Precision(s.items, b, s.limit).size
     \/ /\ s.kind = "multihop" /\ s.items \in Seq(ItemSet(q))
        /\ s.rows = Multihop(s.items, s.max, s.limit).rows /\ s.size = Multihop(s.items, s.max, s.limit).size
     \/ s.kind = "hybrid" /\ (s.rows = <<>> \/ s.size <= s.max)
     \/ s.kind = "legacy" /\ (s.rows = <<>> \/ s.size <= s.max)

FitFields == {"api", "phase", "tiers", "next", "refused", "rows", "size", "report"}

(* The index is that of a corpus, the hits are typed and no more than the    *)
(* corpus or the host can yield, what is shaped is a projection of typed     *)
(* items, and each tier carries the length of its frame.                     *)
EvidenceInv ==
  /\ index \in {BuildIndex(docs) : docs \in Corpora}
  /\ query \in Queries
  /\ hits \in Seq(RankedHits)
  /\ \E m \in Sizes : m \in Nat /\ Len(hits) <= m
  /\ shaped = Unshaped \/ (hits # <<>> /\ Projected(query, shaped))
  /\ DOMAIN fit = FitFields
  /\ \A n \in DOMAIN fit.tiers : fit.tiers[n].size = PayloadBytes(fit.tiers[n].rows)

(* No hits, no projection and no negotiation yet.                            *)
LEMMA EvidenceInitial == EvidenceInit => EvidenceInv
<1> SUFFICES ASSUME EvidenceInit PROVE EvidenceInv
  OBVIOUS
<1>1. PICK docs \in Corpora : index = BuildIndex(docs)
  BY DEF EvidenceInit
<1>2. Cardinality(docs) \in Sizes /\ Cardinality(docs) \in Nat
  BY CorpusAssumption, FS_CardinalityType DEF Sizes
<1>3. Len(hits) = 0 /\ hits \in Seq(RankedHits)
  BY DEF EvidenceInit
<1>4. \E m \in Sizes : m \in Nat /\ Len(hits) <= m
  BY <1>2, <1>3
<1>5. /\ DOMAIN fit = FitFields
      /\ \A n \in DOMAIN fit.tiers : fit.tiers[n].size = PayloadBytes(fit.tiers[n].rows)
  BY DEF EvidenceInit, NoFit, FitFields
<1> QED
  BY <1>3, <1>4, <1>5 DEF EvidenceInit, EvidenceInv

(* What the projections work on is typed.                                    *)
LEMMA ItemsType ==
  ASSUME EvidenceInv
  PROVE  /\ PoolItems \in Seq(ItemSet(query)) /\ IndexItems \in Seq(ItemSet(query))
         /\ Dedup(hits, query) \in Seq(RankedHits) /\ DedupByText(hits) \in Seq(RankedHits)
         /\ IndexWeights(index, query) \in [query -> Int] /\ IsFiniteSet(query)
<1>1. PICK m \in Sizes : m \in Nat /\ Len(hits) <= m
  BY DEF EvidenceInv
<1>2. PICK docs \in Corpora : index = BuildIndex(docs)
  BY DEF EvidenceInv
<1>3. hits \in Seq(RankedHits) /\ IsFiniteSet(query)
  BY HostAssumption DEF EvidenceInv
<1> DEFINE kept == Dedup(hits, query)
<1>4. kept \in Seq(RankedHits) /\ Len(kept) <= m /\ DedupByText(hits) \in Seq(RankedHits)
  <2>1. kept \in Seq(RankedHits) /\ Len(kept) <= Len(hits) /\ DedupByText(hits) \in Seq(RankedHits)
    BY <1>3, DedupType
  <2> HIDE DEF kept
  <2> QED
    BY <1>1, <1>3, <2>1
<1> HIDE DEF kept
<1>5. LocalWeights(kept, query) \in [query -> Int] /\ IndexWeights(index, query) \in [query -> Int]
  BY <1>1, <1>2, <1>4, LocalWeightsType, IndexWeightsType
<1>6. /\ Prepared(kept, query, LocalWeights(kept, query)) \in Seq(ItemSet(query))
      /\ Prepared(kept, query, IndexWeights(index, query)) \in Seq(ItemSet(query))
  BY <1>4, <1>5, PreparedType
<1> QED
  BY <1>3, <1>4, <1>5, <1>6 DEF kept, PoolItems, IndexItems, Items

(* A projection of typed items keeps the invariant.                          *)
LEMMA ShapeStays ==
  ASSUME EvidenceInv, Idle, NEW kind, NEW items, NEW max, NEW limit, NEW result,
         Shape(kind, items, max, limit, result),
         Projected(query, [kind |-> kind, items |-> items, max |-> max, limit |-> limit,
                           rows |-> result.rows, size |-> result.size])
  PROVE  EvidenceInv'
BY DEF EvidenceInv, Shape, Idle

(* precision, global, multihop: typed items at a promoted budget.            *)
LEMMA PromotedBudgets ==
  ASSUME NEW s \in Seq(RankedHits), NEW q, NEW max \in Nat
  PROVE  /\ Promotes(BudgetSequence(AdaptiveBudget(s, q, Tiers, max), Tiers, max), max)
         /\ Promotes(<<max>>, max)
<1>1. Promotes(BudgetSequence(AdaptiveBudget(s, q, Tiers, max), Tiers, max), max)
  BY AdaptiveType, SequencePromotes
<1>2. Promotes(<<max>>, max)
  <2> DEFINE one == <<max>>
  <2>1. one \in Seq(Nat) /\ Len(one) = 1 /\ one[1] = max /\ DOMAIN one = {1} /\ one # <<>>
    OBVIOUS
  <2> HIDE DEF one
  <2>2. Promotes(one, max)
    BY <2>1 DEF Promotes
  <2> QED
    BY <2>2 DEF one
<1> QED
  BY <1>1, <1>2

(* Every projection the code offers, on what it works on and at the budgets  *)
(* it tries.                                                                 *)
LEMMA ShapeSteps ==
  ASSUME EvidenceInv, NEW max \in Budgets, NEW limit \in ItemLimits
  PROVE  /\ \A items \in {PoolItems, IndexItems} :
               /\ \A adaptive \in BOOLEAN : ShapePrecision(items, adaptive, max, limit) => EvidenceInv'
               /\ ShapeMultihop(items, max, limit) => EvidenceInv'
         /\ \A head \in {0, 1} : ShapeGlobal(head, max, limit) => EvidenceInv'
         /\ ShapeCompact(max, limit) => EvidenceInv'
         /\ ShapeContext(max) => EvidenceInv'
         /\ ShapeAmplified(max, limit) => EvidenceInv'
         /\ ShapeLegacy(max, limit) => EvidenceInv'
         /\ \A full, torn \in Nat : ShapeHybrid(max, full, limit, torn) => EvidenceInv'
<1> DEFINE kept == Dedup(hits, query)
           sequence == BudgetSequence(AdaptiveBudget(kept, query, Tiers, max), Tiers, max)
           w == IndexWeights(index, query)
<1>1. max \in Nat /\ limit \in Nat \ {0} /\ max \in Int /\ limit \in Nat
  BY HostAssumption
<1>2. /\ PoolItems \in Seq(ItemSet(query)) /\ IndexItems \in Seq(ItemSet(query))
      /\ kept \in Seq(RankedHits) /\ DedupByText(hits) \in Seq(RankedHits) /\ hits \in Seq(RankedHits)
      /\ w \in [query -> Int] /\ IsFiniteSet(query)
  BY ItemsType DEF EvidenceInv
<1>3. Promotes(sequence, max) /\ Promotes(<<max>>, max)
  BY <1>1, <1>2, PromotedBudgets
<1>4. ASSUME NEW items \in Seq(ItemSet(query)), NEW b, Promotes(b, max), Idle,
             Shape("precision", items, max, limit, Precision(items, b, limit))
      PROVE  EvidenceInv'
  <2> DEFINE p == Precision(items, b, limit)
             s == [kind |-> "precision", items |-> items, max |-> max, limit |-> limit, rows |-> p.rows, size |-> p.size]
  <2>1. Projected(query, s)
    BY <1>1, <1>4 DEF Projected
  <2> QED
    BY <1>4, <2>1, ShapeStays
<1>5. ASSUME NEW items, NEW n, Idle, NEW rows \in FrameSet(max), NEW result, result = Encoded(rows),
             Shape("legacy", items, max, n, result)
      PROVE  EvidenceInv'
  <2> DEFINE s == [kind |-> "legacy", items |-> items, max |-> max, limit |-> n, rows |-> result.rows, size |-> result.size]
  <2>1. result.rows = rows /\ result.size = PayloadBytes(rows) /\ (rows = <<>> \/ PayloadBytes(rows) <= max)
    BY <1>5 DEF Encoded, FrameSet
  <2>2. Projected(query, s)
    BY <1>1, <2>1 DEF Projected
  <2> QED
    BY <1>5, <2>2, ShapeStays
<1> HIDE DEF kept, sequence, w
<1>6. ASSUME NEW items \in {PoolItems, IndexItems}, NEW adaptive \in BOOLEAN, ShapePrecision(items, adaptive, max, limit)
      PROVE  EvidenceInv'
  <2> DEFINE b == IF adaptive THEN sequence ELSE <<max>>
  <2>1. Promotes(b, max)
    BY <1>3
  <2>2. Idle /\ Shape("precision", items, max, limit, Precision(items, b, limit))
    BY <1>6 DEF ShapePrecision, kept, sequence
  <2> HIDE DEF b
  <2> QED
    BY <1>2, <1>4, <2>1, <2>2
<1>7. ASSUME NEW items \in {PoolItems, IndexItems}, ShapeMultihop(items, max, limit)
      PROVE  EvidenceInv'
  <2> DEFINE m == Multihop(items, max, limit)
             s == [kind |-> "multihop", items |-> items, max |-> max, limit |-> limit, rows |-> m.rows, size |-> m.size]
  <2>1. Projected(query, s)
    BY <1>1, <1>2 DEF Projected
  <2> QED
    BY <1>7, <2>1, ShapeStays DEF ShapeMultihop
<1>8. ASSUME NEW head \in {0, 1}, ShapeGlobal(head, max, limit) PROVE EvidenceInv'
  <2> DEFINE items == GlobalOrder(IndexItems, query, head)
  <2>1. items \in Seq(ItemSet(query))
    BY <1>2, GlobalOrderType
  <2>2. Idle /\ Shape("precision", items, max, limit, Precision(items, sequence, limit))
    BY <1>8 DEF ShapeGlobal, kept, sequence
  <2> HIDE DEF items
  <2> QED
    BY <1>3, <1>4, <2>1, <2>2
<1>9. ASSUME ShapeCompact(max, limit) PROVE EvidenceInv'
  <2> DEFINE c == Compact(hits, query, w, max, limit)
             rows == c.rows
  <2>1. rows \in FrameSet(max) /\ c.size = PayloadBytes(rows)
    BY <1>1, <1>2, CompactFits
  <2>2. c = Encoded(rows)
    BY DEF Compact, Encoded
  <2>3. Idle /\ Shape("legacy", <<>>, max, 0, c)
    BY <1>9 DEF ShapeCompact, w
  <2> HIDE DEF c, rows
  <2> QED
    BY <1>5, <2>1, <2>2, <2>3
<1>10. ASSUME ShapeContext(max) PROVE EvidenceInv'
  <2> DEFINE items == Prepared(hits, query, w)
             n == Len(hits)
             suppress == FALSE
  <2>1. items \in Seq(ItemSet(query))
    BY <1>2, PreparedType
  <2> HIDE DEF suppress
  <2>2. PICK rows \in FrameSet(max) : ContextGrouped(items, max, n, suppress) = Encoded(rows)
    BY <1>1, <2>1, ContextGroupedFits
  <2>3. Idle /\ Shape("legacy", items, max, n, ContextGrouped(items, max, n, suppress))
    BY <1>10 DEF ShapeContext, w, suppress
  <2> HIDE DEF items, n
  <2> QED
    BY <1>5, <2>2, <2>3
<1>11. ASSUME ShapeAmplified(max, limit) PROVE EvidenceInv'
  <2> DEFINE alone == DedupByText(hits)
             items == Prepared(alone, query, w)
             budget == AdaptiveBudget(alone, query, Tiers, max)
             suppress == TRUE
  <2>1. items \in Seq(ItemSet(query))
    BY <1>2, PreparedType
  <2>2. budget \in Int /\ budget <= max
    BY <1>1, <1>2, AdaptiveType
  <2> HIDE DEF suppress
  <2>3. PICK rows \in FrameSet(budget) : ContextGrouped(items, budget, limit, suppress) = Encoded(rows)
    BY <2>1, <2>2, ContextGroupedFits
  <2>4. rows \in FrameSet(max)
    BY <1>1, <2>2, FrameGrows
  <2>5. Idle /\ Shape("legacy", items, max, limit, ContextGrouped(items, budget, limit, suppress))
    BY <1>11 DEF ShapeAmplified, w, suppress
  <2> HIDE DEF items, alone, budget
  <2> QED
    BY <1>5, <2>3, <2>4, <2>5
<1>12. ASSUME ShapeLegacy(max, limit) PROVE EvidenceInv'
  <2>1. PICK rows \in FrameSet(max) : LegacyPrecision(IndexItems, sequence, limit) = Encoded(rows)
    BY <1>1, <1>2, <1>3, LegacyPrecisionFits
  <2>2. Idle /\ Shape("legacy", IndexItems, max, limit, LegacyPrecision(IndexItems, sequence, limit))
    BY <1>12 DEF ShapeLegacy, kept, sequence
  <2> QED
    BY <1>5, <2>1, <2>2
<1>13. ASSUME NEW full \in Nat, NEW torn \in Nat, ShapeHybrid(max, full, limit, torn) PROVE EvidenceInv'
  <2> DEFINE rows == Multihop(PoolItems, max, limit).rows
             h == Hybrid(hits, rows, max, full, limit, torn)
             s == [kind |-> "hybrid", items |-> PoolItems, max |-> max, limit |-> limit, rows |-> h.rows, size |-> h.size]
  <2>1. rows \in Seq(RowSet)
    BY <1>1, <1>2, MultihopMeaning
  <2>2. Idle /\ Shape("hybrid", PoolItems, max, limit, h)
    BY <1>13 DEF ShapeHybrid
  <2> HIDE DEF rows
  <2>3. h \in HybridSet(max)
    BY <1>1, <1>2, <2>1, HybridFits
  <2> HIDE DEF h
  <2>4. Projected(query, s)
    BY <1>1, <2>3 DEF Projected, HybridSet
  <2> QED
    BY <2>2, <2>4, ShapeStays
<1> QED
  BY <1>6, <1>7, <1>8, <1>9, <1>10, <1>11, <1>12, <1>13

(* The search and the host yield typed hits, once.                           *)
LEMMA HitsSteps ==
  ASSUME EvidenceInv
  PROVE  /\ \A k \in TopK : SearchCorpus(k) => EvidenceInv'
         /\ \A pool \in Pools : HostRanks(pool) => EvidenceInv'
<1>1. ASSUME hits = <<>>, hits' \in Seq(RankedHits), NEW m \in Sizes, m \in Nat, Len(hits') <= m,
             UNCHANGED <<index, query, room, shaped, fit>>
      PROVE  EvidenceInv'
  <2>1. shaped' = Unshaped
    BY <1>1 DEF EvidenceInv
  <2> QED
    BY <1>1, <2>1 DEF EvidenceInv
<1>2. ASSUME NEW k \in TopK, SearchCorpus(k) PROVE EvidenceInv'
  <2>1. PICK docs \in Corpora : index = BuildIndex(docs)
    BY DEF EvidenceInv
  <2> DEFINE found == Search(index, query, k)
             M == ScanMatches(BuildIndex(docs), query)
  <2>2. k \in Nat
    BY HostAssumption
  <2>3. /\ found \in Seq(RankedHits) /\ Cardinality(M) \in Nat /\ Cardinality(M) <= Cardinality(docs)
        /\ Len(found) = (IF Cardinality(M) < k THEN Cardinality(M) ELSE k)
    BY <2>1, <2>2, SearchIsScan
  <2>4. Cardinality(docs) \in Nat /\ Cardinality(docs) \in Sizes
    BY CorpusAssumption, FS_CardinalityType DEF Sizes
  <2>5. hits = <<>> /\ hits' = found /\ UNCHANGED <<index, query, room, shaped, fit>>
    BY <1>2 DEF SearchCorpus
  <2> HIDE DEF found, M
  <2>6. Len(hits') <= Cardinality(docs)
    BY <2>2, <2>3, <2>4, <2>5
  <2> QED
    BY <1>1, <2>3, <2>4, <2>5, <2>6
<1>3. ASSUME NEW pool \in Pools, HostRanks(pool) PROVE EvidenceInv'
  <2>1. pool \in Seq(RankedHits) /\ Len(pool) \in Sizes
    BY HostAssumption DEF Sizes
  <2>2. Len(pool) \in Nat
    BY <2>1
  <2>3. hits = <<>> /\ hits' = pool /\ UNCHANGED <<index, query, room, shaped, fit>>
    BY <1>3 DEF HostRanks
  <2>4. Len(hits') <= Len(pool)
    BY <2>2, <2>3
  <2> QED
    BY <1>1, <2>1, <2>2, <2>3, <2>4
<1> QED
  BY <1>2, <1>3

(* A negotiation measures complete tiers and changes none.                   *)
LEMMA FitSteps ==
  ASSUME EvidenceInv
  PROVE  /\ \A api \in {"flag", "report"}, tiers \in TierSequences, limit \in ItemLimits :
               Negotiate(api, tiers, limit) => EvidenceInv'
         /\ SkipTier \/ Measure \/ MeasureFails \/ GiveUp \/ RoomChanges => EvidenceInv'
<1>1. ASSUME UNCHANGED <<index, query, hits, shaped>>,
             DOMAIN fit' = FitFields,
             \A n \in DOMAIN fit'.tiers : fit'.tiers[n].size = PayloadBytes(fit'.tiers[n].rows)
      PROVE  EvidenceInv'
  BY <1>1 DEF EvidenceInv
<1>2. /\ DOMAIN fit = FitFields
      /\ \A n \in DOMAIN fit.tiers : fit.tiers[n].size = PayloadBytes(fit.tiers[n].rows)
  BY DEF EvidenceInv
<1>3. ASSUME fit' = [NoFit EXCEPT !.phase = "failed"], UNCHANGED <<index, query, hits, shaped>> PROVE EvidenceInv'
  <2>1. DOMAIN fit' = FitFields /\ fit'.tiers = <<>>
    BY <1>3 DEF NoFit, FitFields
  <2> QED
    BY <1>1, <1>3, <2>1
<1>4. ASSUME NEW api \in {"flag", "report"}, NEW tiers \in TierSequences, NEW limit \in ItemLimits,
             Negotiate(api, tiers, limit)
      PROVE  EvidenceInv'
  <2> DEFINE ladder == ProjectTiers(PoolItems, tiers, limit)
             empty == \A n \in DOMAIN ladder : ladder[n].rows = <<>>
             begun == [NoFit EXCEPT !.api = api, !.phase = "measuring", !.tiers = ladder]
  <2>1. tiers \in Seq(Nat) /\ PoolItems \in Seq(ItemSet(query))
    BY HostAssumption, ItemsType
  <2>2. \A n \in DOMAIN ladder : ladder[n].size = PayloadBytes(ladder[n].rows)
    BY <2>1, TiersCounted
  <2>3. /\ UNCHANGED <<index, query, hits, room, shaped>>
        /\ fit' = IF api = "report" /\ empty THEN [NoFit EXCEPT !.phase = "failed"] ELSE begun
    BY <1>4 DEF Negotiate
  <2> HIDE DEF ladder, empty
  <2>4. DOMAIN begun = FitFields /\ begun.tiers = ladder
    BY DEF NoFit, FitFields
  <2> HIDE DEF begun
  <2>5. CASE api = "report" /\ empty
    BY <1>3, <2>3, <2>5
  <2>6. CASE ~(api = "report" /\ empty)
    BY <1>1, <2>2, <2>3, <2>4, <2>6
  <2> QED
    BY <2>5, <2>6
<1>5. ASSUME SkipTier PROVE EvidenceInv'
  <2>1. fit' = [fit EXCEPT !.next = @ + 1] /\ UNCHANGED <<index, query, hits, room, shaped>>
    BY <1>5 DEF SkipTier
  <2>2. DOMAIN fit' = DOMAIN fit /\ fit'.tiers = fit.tiers
    BY <1>2, <2>1
  <2> QED
    BY <1>1, <1>2, <2>1, <2>2
<1>6. ASSUME MeasureFails PROVE EvidenceInv'
  BY <1>3, <1>6 DEF MeasureFails
<1>7. ASSUME GiveUp PROVE EvidenceInv'
  <2>1. fit' = [fit EXCEPT !.phase = "nothing"] /\ UNCHANGED <<index, query, hits, room, shaped>>
    BY <1>7 DEF GiveUp
  <2>2. DOMAIN fit' = DOMAIN fit /\ fit'.tiers = fit.tiers
    BY <1>2, <2>1
  <2> QED
    BY <1>1, <1>2, <2>1, <2>2
<1>8. ASSUME RoomChanges PROVE EvidenceInv'
  BY <1>1, <1>2, <1>8 DEF RoomChanges
<1>9. ASSUME Measure PROVE EvidenceInv'
  <2> DEFINE tier == Candidate
             delivered(r) == [fit EXCEPT !.phase = "delivered", !.rows = tier.rows, !.size = tier.size, !.report = r]
             refused == [fit EXCEPT !.next = @ + 1, !.refused = @ \cup {fit.next}]
  <2>1. PICK r \in Reports : fit' = IF ~Believable(r) THEN [NoFit EXCEPT !.phase = "failed"]
                                    ELSE IF r.fits THEN delivered(r) ELSE refused
    BY <1>9 DEF Measure
  <2>2. UNCHANGED <<index, query, hits, room, shaped>>
    BY <1>9 DEF Measure
  <2>3. DOMAIN delivered(r) = DOMAIN fit /\ delivered(r).tiers = fit.tiers
    <3> HIDE DEF tier
    <3> QED
      BY <1>2
  <2>4. DOMAIN refused = DOMAIN fit /\ refused.tiers = fit.tiers
    BY <1>2
  <2> HIDE DEF delivered, refused
  <2> QED
    BY <1>1, <1>2, <1>3, <2>1, <2>2, <2>3, <2>4
<1> QED
  BY <1>4, <1>5, <1>6, <1>7, <1>8, <1>9

(* The invariant is inductive.                                               *)
LEMMA EvidenceStep == EvidenceInv /\ [EvidenceNext]_evidenceVars => EvidenceInv'
<1> SUFFICES ASSUME EvidenceInv, [EvidenceNext]_evidenceVars PROVE EvidenceInv'
  OBVIOUS
<1>1. CASE UNCHANGED evidenceVars
  BY <1>1 DEF EvidenceInv, evidenceVars
<1>2. CASE (\E k \in TopK : SearchCorpus(k)) \/ (\E pool \in Pools : HostRanks(pool))
  BY <1>2, HitsSteps
<1>3. CASE \E items \in {PoolItems, IndexItems}, max \in Budgets, n \in ItemLimits :
              \/ \E adaptive \in BOOLEAN : ShapePrecision(items, adaptive, max, n)
              \/ ShapeMultihop(items, max, n)
  <2>1. PICK items \in {PoolItems, IndexItems}, max \in Budgets, n \in ItemLimits :
              \/ \E adaptive \in BOOLEAN : ShapePrecision(items, adaptive, max, n)
              \/ ShapeMultihop(items, max, n)
    BY <1>3
  <2> QED
    BY <2>1, ShapeSteps
<1>4. CASE \E max \in Budgets, n \in ItemLimits :
              \/ \E head \in {0, 1} : ShapeGlobal(head, max, n)
              \/ ShapeCompact(max, n) \/ ShapeContext(max) \/ ShapeAmplified(max, n) \/ ShapeLegacy(max, n)
  BY <1>4, ShapeSteps
<1>5. CASE \E max \in Budgets, full, n \in ItemLimits, torn \in 0 .. 3 : ShapeHybrid(max, full, n, torn)
  <2>1. PICK max \in Budgets, full \in ItemLimits, n \in ItemLimits, torn \in 0 .. 3 : ShapeHybrid(max, full, n, torn)
    BY <1>5
  <2>2. full \in Nat /\ torn \in Nat
    BY HostAssumption
  <2> QED
    BY <2>1, <2>2, ShapeSteps
<1>6. CASE \E api \in {"flag", "report"}, tiers \in TierSequences, n \in ItemLimits : Negotiate(api, tiers, n)
  BY <1>6, FitSteps
<1>7. CASE SkipTier \/ Measure \/ MeasureFails \/ GiveUp \/ RoomChanges
  BY <1>7, FitSteps
<1> QED
  BY <1>1, <1>2, <1>3, <1>4, <1>5, <1>6, <1>7 DEF EvidenceNext

-----------------------------------------------------------------------------
(* What the invariant says of the evidence.                                  *)

(* The index is a corpus's, the hits are typed, what is shaped is a          *)
(* projection of typed items within a budget and every tier is counted, in   *)
(* every state.                                                              *)
THEOREM EvidenceAlways == EvidenceSpec => []EvidenceInv
BY EvidenceInitial, EvidenceStep, PTL DEF EvidenceSpec

(* Search through the postings, and through the compiled binary index, ranks *)
(* as a scan of every document would, for every corpus, query, scoring       *)
(* function and number of hits asked for.                                    *)
THEOREM SearchRanks == EvidenceSpec => []SearchRanksAsScan
<1>1. EvidenceInv => SearchRanksAsScan
  BY ScanHolds DEF EvidenceInv
<1> QED
  BY <1>1, EvidenceAlways, PTL

(* The running count of every grouped projection is the length of the frame  *)
(* it encodes, and no projection goes past the budget: the "byte accounting  *)
(* drift" errors cannot be raised.                                           *)
THEOREM AccountingIsExact == EvidenceSpec => []AccountingExact
<1>1. ASSUME EvidenceInv PROVE AccountingExact
  <2>1. CASE shaped = Unshaped
    BY <1>1, <2>1 DEF EvidenceInv, AccountingExact, Unshaped
  <2>2. CASE Projected(query, shaped)
    <3> DEFINE items == shaped.items
               max == shaped.max
    <3>1. max \in Nat /\ max \in Int
      BY <2>2 DEF Projected
    <3>2. ASSUME shaped.kind = "precision" PROVE CountedRows(shaped, max)
      <4>1. /\ items \in Seq(ItemSet(query))
            /\ \E b : /\ Promotes(b, max) /\ shaped.rows = Precision(items, b, shaped.limit).rows
                      /\ shaped.size = Precision(items, b, shaped.limit).size
        BY <2>2, <3>2 DEF Projected
      <4>2. PICK b : /\ Promotes(b, max) /\ shaped.rows = Precision(items, b, shaped.limit).rows
                     /\ shaped.size = Precision(items, b, shaped.limit).size
        BY <4>1
      <4>3. PICK n \in DOMAIN b : /\ Precision(items, b, shaped.limit) = ProjectAtBudget(items, b[n], shaped.limit)
                                  /\ b[n] \in Nat /\ b[n] <= max
        BY <3>1, <4>2, PrecisionEnds
      <4> DEFINE p == ProjectAtBudget(items, b[n], shaped.limit)
      <4>4. CountedRows(p, b[n])
        BY <4>1, <4>3, ProjectionCounts
      <4>5. PayloadBytes(p.rows) \in Int
        BY <4>4, PayloadType DEF CountedRows
      <4>6. shaped.rows = p.rows /\ shaped.size = p.size
        BY <4>2, <4>3
      <4> HIDE DEF p, items, max
      <4> QED
        BY <3>1, <4>3, <4>4, <4>5, <4>6 DEF CountedRows
    <3>3. ASSUME shaped.kind = "multihop" PROVE CountedRows(shaped, max)
      <4> DEFINE m == Multihop(items, max, shaped.limit)
      <4>1. items \in Seq(ItemSet(query)) /\ shaped.rows = m.rows /\ shaped.size = m.size
        BY <2>2, <3>3 DEF Projected
      <4>2. CountedRows(m, max)
        BY <3>1, <4>1, MultihopMeaning
      <4> QED
        BY <4>1, <4>2 DEF CountedRows
    <3>4. ASSUME shaped.kind \in {"hybrid", "legacy"} PROVE shaped.rows = <<>> \/ shaped.size <= max
      BY <2>2, <3>4 DEF Projected
    <3> QED
      BY <1>1, <3>2, <3>3, <3>4 DEF EvidenceInv, AccountingExact, CountedRows
  <2> QED
    BY <1>1, <2>1, <2>2 DEF EvidenceInv
<1> QED
  BY <1>1, EvidenceAlways, PTL

(* No document the coverage pass admits is evicted, moved or robbed of its   *)
(* sentence by the context pass.                                             *)
THEOREM CoverageKept == EvidenceSpec => []CoverageIsKept
<1>1. ASSUME EvidenceInv PROVE CoverageIsKept
  <2> SUFFICES ASSUME shaped.kind = "multihop" PROVE KeptRows(shaped.rows, Coverage(shaped.items, shaped.max, shaped.limit).rows)
    BY DEF CoverageIsKept, KeptRows
  <2>1. Projected(query, shaped)
    BY <1>1 DEF EvidenceInv, Unshaped
  <2>2. shaped.items \in Seq(ItemSet(query)) /\ shaped.max \in Int
        /\ shaped.rows = Multihop(shaped.items, shaped.max, shaped.limit).rows
    BY <2>1 DEF Projected
  <2> QED
    BY <2>2, MultihopMeaning
<1> QED
  BY <1>1, EvidenceAlways, PTL

(* While no row has been admitted, no span and no fallback row fitted.       *)
LEMMA NothingFits ==
  ASSUME NEW q, NEW items \in Seq(ItemSet(q)), NEW max \in Int, NEW limit \in Nat \ {0},
         ProjectAtBudget(items, max, limit).rows = <<>>
  PROVE  \A n \in DOMAIN items : /\ EmptyBytes + BytesOf(Row(items[n], items[n].preferred)) > max
                                 /\ EmptyBytes + BytesOf(Row(items[n], <<Fallback(items[n])>>)) > max
<1> DEFINE L == Len(items)
           Short(n) == /\ EmptyBytes + BytesOf(Row(items[n], items[n].preferred)) > max
                       /\ EmptyBytes + BytesOf(Row(items[n], <<Fallback(items[n])>>)) > max
<1>1. L \in Nat /\ DOMAIN items = 1 .. L /\ \A n \in 1 .. L : items[n] \in ItemSet(q)
  OBVIOUS
<1>2. PICK run : /\ run[0] = NoRows /\ ProjectAtBudget(items, max, limit) = run[L]
                 /\ \A n \in 1 .. L : run[n] = ProjectStep(run[n - 1], items[n], max, limit)
                 /\ \A n \in 0 .. L : run[n] \in CountedSet(ContextSet(items), max)
  BY ProjectionCounts
<1> DEFINE Good == {n \in 0 .. L : run[n].rows # <<>> \/ (run[n] = NoRows /\ \A k \in 1 .. n : Short(k))}
<1>3. 0 \in Good
  BY <1>1, <1>2
<1>4. ASSUME NEW n \in 1 .. L, n - 1 \in Good PROVE n \in Good
  <2> DEFINE acc == run[n - 1]
             item == items[n]
             shown == {Context(item, item.preferred[k]) : k \in DOMAIN item.preferred}
             span == Row(item, item.preferred)
             single == Row(item, <<Fallback(item)>>)
             one == {Context(item, Fallback(item))}
  <2>1. run[n] = IF Len(acc.rows) >= limit \/ shown \subseteq acc.seen THEN acc
                 ELSE IF Fits(acc, span, max) THEN Admit(acc, span, shown)
                 ELSE IF Fits(acc, single, max) THEN Admit(acc, single, one)
                 ELSE acc
    BY <1>2 DEF ProjectStep
  <2>2. item \in ItemSet(q) /\ n \in 0 .. L
    BY <1>1
  <2>3. shown # {}
    <3> DEFINE s == item.preferred
    <3>1. s \in Seq(Nat) /\ s # <<>>
      BY <2>2 DEF ItemSet
    <3> HIDE DEF s
    <3>2. 1 \in DOMAIN s
      BY <3>1
    <3> QED
      BY <3>2 DEF s
  <2>4. span \in RowSet /\ single \in RowSet
    BY <2>2, ItemRows
  <2> DEFINE old == acc.rows
  <2>5. old \in Seq(RowSet)
    BY <1>1, <1>2 DEF CountedSet, CountedRows
  <2>6. Append(old, span) # <<>> /\ Append(old, single) # <<>>
    BY <2>4, <2>5, PayloadAppend
  <2>7. Admit(acc, span, shown).rows # <<>> /\ Admit(acc, single, one).rows # <<>>
    BY <2>6 DEF Admit
  <2>8. BytesOf(span) \in Int /\ BytesOf(single) \in Int
    BY <2>4, BytesType
  <2>9. Short(n) <=> EmptyBytes + BytesOf(span) > max /\ EmptyBytes + BytesOf(single) > max
    OBVIOUS
  <2> HIDE DEF Short, shown, span, single, one, acc, old
  <2>10. CASE old # <<>>
    <3>1. run[n].rows # <<>>
      BY <2>1, <2>7, <2>10 DEF old
    <3> QED
      BY <2>2, <3>1
  <2>11. CASE old = <<>>
    <3>1. acc = NoRows /\ \A k \in 1 .. n - 1 : Short(k)
      BY <1>4, <2>11 DEF old, acc
    <3>2. ~(Len(acc.rows) >= limit \/ shown \subseteq acc.seen)
      BY <2>3, <3>1 DEF NoRows
    <3>3. CASE Fits(acc, span, max) \/ Fits(acc, single, max)
      <4>1. run[n].rows # <<>>
        BY <2>1, <2>7, <3>2, <3>3
      <4> QED
        BY <2>2, <4>1
    <3>4. CASE ~Fits(acc, span, max) /\ ~Fits(acc, single, max)
      <4>1. run[n] = NoRows
        BY <2>1, <3>1, <3>4
      <4>2. ~(EmptyBytes + BytesOf(span) <= max) /\ ~(EmptyBytes + BytesOf(single) <= max)
        BY <2>8, <3>1, <3>4, FrameAssumption DEF Fits, NoRows
      <4>3. Short(n)
        BY <2>8, <2>9, <4>2, FrameAssumption
      <4>4. \A k \in 1 .. n : Short(k)
        <5>1. \A k \in 1 .. n : k = n \/ k \in 1 .. n - 1
          OBVIOUS
        <5> QED
          BY <3>1, <4>3, <5>1
      <4> QED
        BY <2>2, <4>1, <4>4
    <3> QED
      BY <3>3, <3>4
  <2> QED
    BY <2>10, <2>11
<1> HIDE DEF Short
<1>5. L \in Good
  <2> HIDE DEF Good
  <2>1. 0 .. L \subseteq Good
    BY <1>1, <1>3, <1>4, UpTo
  <2> QED
    BY <1>1, <2>1
<1>6. \A k \in 1 .. L : Short(k)
  BY <1>2, <1>5
<1> QED
  BY <1>1, <1>6 DEF Short

(* Of the mirrors that name a queried term the first is kept.                *)
LEMMA MirrorKept ==
  ASSUME NEW s \in Seq(RankedHits), NEW q, NEW n \in DOMAIN s, NEW t \in Relevant(s[n], q)
  PROVE  \E m \in 1 .. n : /\ s[m].doc.body = s[n].doc.body /\ t \in Relevant(s[m], q)
                           /\ \E k \in DOMAIN Dedup(s, q) : Dedup(s, q)[k] = s[m]
<1> DEFINE Mirrors(i) == {m \in 1 .. i - 1 : s[m].doc.body = s[i].doc.body}
           kept == {i \in DOMAIN s : \/ Mirrors(i) = {}
                      \/ ~Relevant(s[i], q) \subseteq UNION {Relevant(s[m], q) : m \in Mirrors(i)}}
           naming == {m \in 1 .. n : s[m].doc.body = s[n].doc.body /\ t \in Relevant(s[m], q)}
<1>1. Dedup(s, q) = Pick(s, kept)
  BY DEF Dedup
<1>2. n \in Nat /\ n \in 1 .. n /\ DOMAIN s = 1 .. Len(s) /\ Len(s) \in Nat
  OBVIOUS
<1>3. naming \in SUBSET Nat /\ naming # {}
  BY <1>2
<1>4. PICK m \in naming : \A k \in naming : m <= k
  <2> HIDE DEF naming
  <2> QED
    BY <1>3, LeastNat
<1>5. m \in 1 .. n /\ m \in DOMAIN s /\ s[m].doc.body = s[n].doc.body /\ t \in Relevant(s[m], q)
  BY <1>2
<1>6. \A k \in Mirrors(m) : t \notin Relevant(s[k], q)
  <2> SUFFICES ASSUME NEW k \in 1 .. m - 1, s[k].doc.body = s[m].doc.body, t \in Relevant(s[k], q) PROVE FALSE
    OBVIOUS
  <2>1. k \in naming /\ k < m
    BY <1>2, <1>5
  <2> QED
    BY <1>2, <1>4, <1>5, <2>1
<1>7. m \in kept
  BY <1>5, <1>6
<1>8. kept \in SUBSET DOMAIN s
  OBVIOUS
<1> HIDE DEF kept, naming, Mirrors
<1>9. \E r \in 1 .. Cardinality(kept) : Pick(s, kept)[r] = s[m]
  BY <1>7, <1>8, PickMeaning
<1>10. DOMAIN Pick(s, kept) = 1 .. Cardinality(kept)
  BY <1>8, PickMeaning
<1> QED
  BY <1>1, <1>5, <1>9, <1>10

(* A projection is only empty when of every hit neither the span nor the     *)
(* fallback fits the whole budget, and so not its best scored sentence,      *)
(* unless that opens a text of several sentences; a mirror is only dropped   *)
(* when the titles kept before it name every queried term of its own         *)
(* (grounding_projection.py:124-156, 257-285, 319-340).                      *)
THEOREM EvidenceIsNotWithheld == EvidenceSpec => []EvidenceNotWithheld
<1>1. ASSUME EvidenceInv PROVE EvidenceNotWithheld
  <2> DEFINE items == shaped.items
             max == shaped.max
             limit == shaped.limit
             TooLong(item, positions) == EmptyBytes + BytesOf(Row(item, positions)) > max
  <2> SUFFICES ASSUME shaped.kind = "precision"
      PROVE  /\ shaped.rows = <<>> =>
                  \A n \in DOMAIN items :
                    /\ TooLong(items[n], items[n].preferred) /\ TooLong(items[n], <<Fallback(items[n])>>)
                    /\ items[n].anchor # 1 \/ Len(items[n].hit.doc.sentences) = 1 =>
                         TooLong(items[n], <<items[n].anchor>>)
             /\ \A n \in DOMAIN hits : \A t \in Relevant(hits[n], query) :
                  \E m \in 1 .. n : /\ hits[m].doc.body = hits[n].doc.body /\ t \in Relevant(hits[m], query)
                                    /\ \E k \in DOMAIN Dedup(hits, query) : Dedup(hits, query)[k] = hits[m]
    BY DEF EvidenceNotWithheld
  <2>1. Projected(query, shaped) /\ hits \in Seq(RankedHits)
    BY <1>1 DEF EvidenceInv, Unshaped
  <2>2. /\ max \in Nat /\ limit \in Nat \ {0} /\ items \in Seq(ItemSet(query))
        /\ \E b : Promotes(b, max) /\ shaped.rows = Precision(items, b, limit).rows
    BY <2>1 DEF Projected
  <2>3. PICK b : Promotes(b, max) /\ shaped.rows = Precision(items, b, limit).rows
    BY <2>2
  <2>4. PICK n \in DOMAIN b : /\ Precision(items, b, limit) = ProjectAtBudget(items, b[n], limit)
                              /\ b[n] = max \/ Precision(items, b, limit).rows # <<>> \/ items = <<>>
    BY <2>2, <2>3, PrecisionEnds
  <2> HIDE DEF items, max, limit
  <2>5. ASSUME shaped.rows = <<>>, NEW k \in DOMAIN items
        PROVE  /\ TooLong(items[k], items[k].preferred) /\ TooLong(items[k], <<Fallback(items[k])>>)
               /\ items[k].anchor # 1 \/ Len(items[k].hit.doc.sentences) = 1 =>
                    TooLong(items[k], <<items[k].anchor>>)
    <3>1. items # <<>>
      <4>1. DOMAIN items = 1 .. Len(items) /\ Len(items) \in Nat
        BY <2>2
      <4> QED
        BY <2>5, <4>1
    <3>2. ProjectAtBudget(items, max, limit).rows = <<>>
      BY <2>3, <2>4, <2>5, <3>1
    <3>3. max \in Int
      BY <2>2
    <3>4. TooLong(items[k], items[k].preferred) /\ TooLong(items[k], <<Fallback(items[k])>>)
      BY <2>2, <2>5, <3>2, <3>3, NothingFits
    <3>5. items[k] \in ItemSet(query)
      BY <2>2, <2>5
    <3>6. ASSUME items[k].anchor # 1 \/ Len(items[k].hit.doc.sentences) = 1
          PROVE  Fallback(items[k]) = items[k].anchor
      BY <3>5, <3>6 DEF ItemSet
    <3> HIDE DEF TooLong
    <3> QED
      BY <3>4, <3>6
  <2>6. ASSUME NEW k \in DOMAIN hits, NEW t \in Relevant(hits[k], query)
        PROVE  \E m \in 1 .. k : /\ hits[m].doc.body = hits[k].doc.body /\ t \in Relevant(hits[m], query)
                                 /\ \E r \in DOMAIN Dedup(hits, query) : Dedup(hits, query)[r] = hits[m]
    BY <2>1, MirrorKept
  <2> HIDE DEF TooLong
  <2> QED
    BY <2>5, <2>6
<1> QED
  BY <1>1, EvidenceAlways, PTL

-----------------------------------------------------------------------------
(* The negotiation of a context fit.                                         *)

(* A tier the negotiation is past held nothing or was refused, and what is   *)
(* delivered is the tier at hand, with a report that was believed.           *)
FitInv ==
  /\ DOMAIN fit = FitFields
  /\ fit.next \in Nat
  /\ fit.phase \in {"measuring", "delivered"} =>
       \A n \in 1 .. fit.next - 1 : fit.tiers[n].rows = <<>> \/ n \in fit.refused
  /\ fit.phase = "delivered" =>
       /\ fit.rows = Candidate.rows /\ fit.size = Candidate.size /\ fit.report.fits
       /\ Reported(fit.report.tokens) /\ Reported(fit.report.capacity) => fit.size <= Usable(fit.report)

(* No negotiation has begun.                                                 *)
LEMMA FitInit == EvidenceInit => FitInv
BY DEF EvidenceInit, NoFit, FitInv, FitFields

(* A believed report that says it fits, and says how much there is, counts   *)
(* the candidate itself.                                                     *)
LEMMA BelievedFits ==
  ASSUME NEW r \in Reports, Believable(r), r.fits
  PROVE  Reported(r.tokens) /\ Reported(r.capacity) => Candidate.size <= Usable(r)
<1> SUFFICES ASSUME Reported(r.tokens), Reported(r.capacity) PROVE Candidate.size <= Usable(r)
  OBVIOUS
<1>1. r.tokens = Candidate.size
  <2>1. CASE fit.api = "flag"
    BY <2>1 DEF Reports, Verdict, Reported
  <2>2. CASE fit.api # "flag"
    BY <2>2 DEF Reports, Reported
  <2> QED
    BY <2>1, <2>2
<1>2. r.fits <=> r.tokens <= Usable(r)
  BY DEF Believable
<1> QED
  BY <1>1, <1>2

(* Only a negotiation's own steps touch it; a tier is passed over when it is *)
(* empty or refused, and delivered when the host says that it fits and does  *)
(* not contradict itself.                                                    *)
LEMMA FitStep == FitInv /\ [EvidenceNext]_evidenceVars => FitInv'
<1> SUFFICES ASSUME FitInv, [EvidenceNext]_evidenceVars PROVE FitInv'
  OBVIOUS
<1>1. CASE fit' = fit
  BY <1>1 DEF FitInv, Candidate
<1>2. ASSUME NEW api \in {"flag", "report"}, NEW tiers \in TierSequences, NEW n \in ItemLimits,
             Negotiate(api, tiers, n)
      PROVE  FitInv'
  BY <1>2 DEF FitInv, NoFit, Negotiate, FitFields
<1>3. CASE SkipTier
  BY <1>3 DEF FitInv, SkipTier, Candidate, Measuring, FitFields
<1>4. CASE fit' = [NoFit EXCEPT !.phase = "failed"]
  BY <1>4 DEF FitInv, NoFit, FitFields
<1>5. CASE GiveUp
  BY <1>5 DEF FitInv, GiveUp, FitFields
<1>6. CASE Measure
  <2> DEFINE tier == Candidate
  <2>1. PICK r \in Reports :
            fit' = IF ~Believable(r) THEN [NoFit EXCEPT !.phase = "failed"]
                   ELSE IF r.fits
                     THEN [fit EXCEPT !.phase = "delivered", !.rows = tier.rows, !.size = tier.size, !.report = r]
                   ELSE [fit EXCEPT !.next = @ + 1, !.refused = @ \cup {fit.next}]
    BY <1>6 DEF Measure
  <2>2. fit.phase = "measuring"
    BY <1>6 DEF Measure, Measuring
  <2>3. CASE ~Believable(r)
    BY <1>4, <2>1, <2>3
  <2>4. CASE Believable(r) /\ r.fits
    <3>1. Reported(r.tokens) /\ Reported(r.capacity) => tier.size <= Usable(r)
      BY <2>4, BelievedFits
    <3>2. fit' = [fit EXCEPT !.phase = "delivered", !.rows = tier.rows, !.size = tier.size, !.report = r]
      BY <2>1, <2>4
    <3>3. tier = fit.tiers[fit.next]
      BY DEF Candidate
    <3> HIDE DEF tier
    <3>4. /\ fit'.phase = "delivered" /\ fit'.rows = tier.rows /\ fit'.size = tier.size /\ fit'.report = r
          /\ fit'.next = fit.next /\ fit'.tiers = fit.tiers /\ fit'.refused = fit.refused
          /\ DOMAIN fit' = FitFields
      BY <3>2 DEF FitInv, FitFields
    <3>5. Candidate' = tier
      BY <3>3, <3>4 DEF Candidate
    <3>6. \A n \in 1 .. fit'.next - 1 : fit'.tiers[n].rows = <<>> \/ n \in fit'.refused
      BY <2>2, <3>4 DEF FitInv
    <3>7. fit'.next \in Nat
      BY <3>4 DEF FitInv
    <3> QED
      BY <2>4, <3>1, <3>4, <3>5, <3>6, <3>7 DEF FitInv, Reported, Usable
  <2>5. CASE Believable(r) /\ ~r.fits
    <3>1. fit' = [fit EXCEPT !.next = @ + 1, !.refused = @ \cup {fit.next}]
      BY <2>1, <2>5
    <3> QED
      BY <2>2, <3>1 DEF FitInv, FitFields
  <2> QED
    BY <2>3, <2>4, <2>5
<1> QED
  BY <1>1, <1>2, <1>3, <1>4, <1>5, <1>6
  DEF EvidenceNext, evidenceVars, SearchCorpus, HostRanks, Shape,
      ShapePrecision, ShapeGlobal, ShapeCompact, ShapeContext,
      ShapeAmplified, ShapeLegacy, ShapeMultihop, ShapeHybrid,
      MeasureFails, RoomChanges

(* Both negotiations deliver one whole tier the host accepted, only after    *)
(* every larger tier with evidence had been refused, and one that fits what  *)
(* the reported capacity leaves beside the reserved output where the host    *)
(* reports its numbers, whatever the tiers hold, however the host's room     *)
(* changes and even if its reports contradict themselves                     *)
(* (grounding_projection.py:529-560, context_fit.py:64-83, 126-152).         *)
THEOREM DeliveredEvidenceFits == EvidenceSpec => []DeliveredFitted
<1>1. FitInv => DeliveredFitted
  BY DEF FitInv, DeliveredFitted
<1> QED
  BY <1>1, FitInit, FitStep, PTL DEF EvidenceSpec
=============================================================================
