--------------------------- MODULE GroundingDelivery ---------------------------
(* A session of grounded requests (tools/grounding_engine.py around          *)
(* tools/grounding_runtime.py): route the query, collect the providers'      *)
(* outcomes, build the frame, and decide who answers: the host itself, the   *)
(* model with evidence, or the model with its ordinary knowledge.            *)
(*                                                                           *)
(* run_grounding_frame asks its provider for every binding in turn and       *)
(* builds the frame.  A host with several providers collects the outcomes    *)
(* itself (RetrievalProvider and build_frame are public): they may come in   *)
(* any order, twice, late or not at all.  A call that raises is a refusal.   *)
EXTENDS GroundingFrame

CONSTANTS
  Profiles,     \* profiles that may be loaded
  Preparations, \* [kind, accepts, proof_first, prompt, corpus]
  Routes,       \* routes of the router, each a set of target keys
  MaxOutcomes,  \* bound: outcomes collected for a request
  AsFloat(_),   \* the binary number nearest to a decimal value
  None          \* nothing: no frame, no delivery, no evidence

ASSUME MaxOutcomesAssumption == MaxOutcomes \in Nat

(* The loader rejects a route to an unknown target                           *)
(* (grounding_runtime.py:418).                                               *)
ASSUME ProfilesAssumption ==
  \A p \in Profiles :
    /\ IsFiniteSet(p.items)
    /\ IsFiniteSet(DOMAIN p.targets)
    /\ UNION Routes \subseteq DOMAIN p.targets

ASSUME NoneAssumption == None # "answer"

VARIABLES
  profile,    \* the profile the session opened
  prepared,   \* the prepared amplifier of the session
  stage,      \* "idle", "retrieving", "framed", "delivered" or "refused"
  rewritten,  \* the query to look up is not the question to answer
  targets,    \* the routed targets of the request
  outcomes,   \* the provider outcomes collected for it, in order of arrival
  frame,      \* the grounding frame
  delivery    \* what the host does with the request

sessionVars == <<profile, prepared>>
vars == <<profile, prepared, stage, rewritten, targets, outcomes, frame, delivery>>

Init ==
  /\ profile \in Profiles
  /\ prepared \in Preparations
  /\ stage = "idle" /\ rewritten = FALSE
  /\ targets = {} /\ outcomes = <<>> /\ frame = None /\ delivery = None

Stop(reached) ==
  /\ stage' = reached
  /\ UNCHANGED <<sessionVars, rewritten, targets, outcomes>>

-----------------------------------------------------------------------------
(* Routing and retrieval.                                                    *)

(* route_query: the targets of every route that matches.                     *)
Route(matched) ==
  /\ stage = "idle"
  /\ rewritten' \in BOOLEAN
  /\ targets' = UNION matched
  /\ stage' = IF Cardinality(UNION matched) > profile.limits.groups THEN "refused" ELSE "retrieving"
  /\ UNCHANGED <<sessionVars, outcomes, frame, delivery>>

Receive(o) ==
  /\ stage = "retrieving"
  /\ Len(outcomes) < MaxOutcomes
  /\ outcomes' = Append(outcomes, o)
  /\ UNCHANGED <<sessionVars, stage, rewritten, targets, frame, delivery>>

(* What the index holds for a binding.                                       *)
Indexed(t, b) == {i \in profile.items : i.target = t /\ i.source \in SourcesOf(b)}

Retrieve(t, b) ==
  \E matched \in SUBSET Indexed(t, b) : Receive(LocalOutcome(profile, t, b, matched))

(* Another provider: it fails, or answers wrongly.                           *)
Fails(t, b) == \E status \in Failures \ {"budget_exceeded"} : Receive(Outcome(t, b, status, {}))

Misbehaves(t, b) ==
  \/ Receive([Outcome(t, b, "none", {}) EXCEPT !.complete = FALSE])
  \/ Receive([Outcome(t, b, "none", {}) EXCEPT !.bound = FALSE])
  \/ \E i \in profile.items \ Indexed(t, b) : Receive(Outcome(t, b, "ok", {i}))

Repeat == \E n \in DOMAIN outcomes : Receive(outcomes[n])

-----------------------------------------------------------------------------
(* The frame.                                                                *)

Build ==
  /\ stage = "retrieving"
  /\ IF Buildable(profile, targets, outcomes)
       THEN Stop("framed") /\ frame' = Frame(profile, targets, outcomes)
       ELSE Stop("refused") /\ UNCHANGED frame
  /\ UNCHANGED delivery

-----------------------------------------------------------------------------
(* The decision (_plan_prepared).                                            *)

(* The system prompt, and the key it is cached under.                        *)
Prompt(policy) == IF policy /\ prepared.prompt = "full" THEN "with-policy" ELSE "plain"

HostReplies(route, disposition, answer) ==
  [route |-> route, called |-> FALSE, disposition |-> disposition, answer |-> answer,
   evidence |-> None, system |-> None, key |-> None]

Asks(route, evidence, policy, keyed) ==
  [route |-> route, called |-> TRUE, disposition |-> None, answer |-> None,
   evidence |-> evidence, system |-> Prompt(policy), key |-> keyed]

ShortCircuits == UnresolvedStates(frame) # {}

ShortCircuit ==
  /\ stage = "framed" /\ ShortCircuits
  /\ Stop("delivered")
  /\ delivery' = HostReplies("host-unresolved-state", Disposition[WorstState(frame)], None)
  /\ UNCHANGED frame

(* _host_typed_scalar_reply: a typed answer takes no unit, and a decimal     *)
(* becomes a binary number.                                                  *)
Typed(c) ==
  CASE prepared.kind \in {"text", "choice"} -> {<<c.value, c.unit>>}
    [] prepared.kind \in {"integer", "boolean"} ->
         {v \in {c.value} : c.unit = NoUnit /\ c.type = prepared.kind}
    [] prepared.kind = "number" ->
         {IF c.type = "integer" THEN v ELSE AsFloat(v) :
            v \in {w \in {c.value} : c.unit = NoUnit /\ c.type \in {"integer", "decimal"}}}

(* Mutant: the host answers a question that was rewritten for retrieval.     *)
AnswersRewritten ==
  IF prepared.proof_first
    THEN (UNION {Typed(c) : c \in GroundedScalars(frame)}) \intersect prepared.accepts
    ELSE {}

HostAnswers ==
  IF prepared.proof_first /\ ~rewritten
    THEN (UNION {Typed(c) : c \in GroundedScalars(frame)}) \intersect prepared.accepts
    ELSE {}

AnswerFromEvidence ==
  /\ stage = "framed" /\ ~ShortCircuits
  /\ \E a \in HostAnswers :
       /\ Stop("delivered")
       /\ delivery' = HostReplies("host-grounded-scalar", "answer", a)
  /\ UNCHANGED frame

LeftToModel == stage = "framed" /\ ~ShortCircuits /\ HostAnswers = {}

(* Ranked hits of the host, or those of the local corpus.  Whatever does not *)
(* fit the model's limits is refused.                                        *)
AskWithHits(fits) ==
  /\ LeftToModel /\ Ordinary(frame)
  /\ IF fits
       THEN /\ Stop("delivered")
            /\ delivery' = Asks(IF prepared.corpus THEN "local-corpus" ELSE "host-ranked-context",
                                "hits", TRUE, Prompt(TRUE))
       ELSE Stop("refused") /\ UNCHANGED delivery
  /\ UNCHANGED frame

(* Nothing was found, in the corpus neither.                                 *)
AskOrdinary ==
  /\ LeftToModel /\ Ordinary(frame)
  /\ Stop("delivered")
  /\ delivery' = Asks("ordinary-knowledge", None, FALSE, Prompt(FALSE))
  /\ UNCHANGED frame

AskGrounded(fits) ==
  /\ LeftToModel /\ ~Ordinary(frame)
  /\ IF fits /\ Cardinality(ItemsOf(frame)) <= profile.limits.model_items
       THEN Stop("delivered") /\ delivery' = Asks("grounded-context", frame, TRUE, Prompt(TRUE))
       ELSE Stop("refused") /\ UNCHANGED delivery
  /\ UNCHANGED frame

NextRequest ==
  /\ stage \in {"delivered", "refused"}
  /\ stage' = "idle"
  /\ rewritten' = FALSE
  /\ targets' = {} /\ outcomes' = <<>> /\ frame' = None /\ delivery' = None
  /\ UNCHANGED sessionVars

Next ==
  \/ \E matched \in SUBSET Routes : Route(matched)
  \/ \E t \in targets : \E b \in profile.targets[t].bindings :
       Retrieve(t, b) \/ Fails(t, b) \/ Misbehaves(t, b)
  \/ Repeat
  \/ Build
  \/ ShortCircuit
  \/ AnswerFromEvidence
  \/ AskOrdinary
  \/ \E fits \in BOOLEAN : AskWithHits(fits) \/ AskGrounded(fits)
  \/ NextRequest

Spec == Init /\ [][Next]_vars

-----------------------------------------------------------------------------
(* Properties.                                                               *)

Targets == DOMAIN profile.targets

ProviderOutcomes ==
  [target : Targets, provider : {b.provider : b \in UNION {profile.targets[t].bindings : t \in Targets}},
   refs : {b.refs : b \in UNION {profile.targets[t].bindings : t \in Targets}},
   bound : BOOLEAN, status : Failures \union {"ok", "none"}, complete : BOOLEAN,
   candidates : SUBSET profile.items, reason : BOOLEAN]

(* Items are nonempty exactly when the group is grounded.                    *)
Groups ==
  [authority : {"authoritative", "supplemental"}, state : {"grounded"},
   items : (SUBSET profile.items) \ {{}}]
  \union [authority : {"authoritative", "supplemental"}, state : Unresolved, items : {{}}]

TypeOK ==
  /\ profile \in Profiles /\ prepared \in Preparations
  /\ stage \in {"idle", "retrieving", "framed", "delivered", "refused"}
  /\ rewritten \in BOOLEAN
  /\ targets \subseteq Targets
  /\ Len(outcomes) <= MaxOutcomes
  /\ \A n \in DOMAIN outcomes : outcomes[n] \in ProviderOutcomes
  /\ stage \in {"framed", "delivered"} => frame # None
  /\ frame # None => frame \in [targets -> Groups]
  /\ (delivery # None) <=> (stage = "delivered")
  /\ delivery # None => delivery.called \in BOOLEAN

(* Exactly one outcome came for the binding, and with this status.           *)
CameOnce(t, b, status) ==
  \E n \in DOMAIN outcomes : Matching(t, b, outcomes) = {n} /\ outcomes[n].status \in status

(* "none" is only said of a target when every source that is required for it *)
(* was searched to the end, once, and had nothing: a timeout, a denial, a    *)
(* lost or a repeated outcome never becomes a no-hit                         *)
(* (GROUNDING_CONTRACT_V0_1.md:294-295, grounding_runtime.py:717-731).           *)
NoHitIsProven ==
  frame # None => \A t \in DOMAIN frame :
    frame[t].state = "none" =>
      \A b \in profile.targets[t].bindings : b.required => CameOnce(t, b, {"none"})

(* A grounded target rests on everything that came for it: all required      *)
(* sources answered, the items are all items of the answers that count, none *)
(* cut off, of bound sources, and they agree                                 *)
(* (GROUNDING_CONTRACT_V0_1.md:430-455, grounding_runtime.py:733-781).       *)
GroundedOnEverything ==
  frame # None => \A t \in DOMAIN frame :
    frame[t].state = "grounded" =>
      /\ \A b \in profile.targets[t].bindings :
           /\ b.required => CameOnce(t, b, {"ok", "none"})
           /\ \A n \in DOMAIN outcomes :
                Matching(t, b, outcomes) = {n} => outcomes[n].candidates \subseteq frame[t].items
      /\ \A i \in frame[t].items :
           /\ i.target = t
           /\ \E b \in profile.targets[t].bindings : i.source \in SourcesOf(b) /\ CameOnce(t, b, {"ok"})
           /\ \A j \in frame[t].items : i.content = j.content

Swapped(n) == [outcomes EXCEPT ![n] = outcomes[n + 1], ![n + 1] = outcomes[n]]

(* The order in which providers answer decides nothing: neither the frame    *)
(* nor whether there is one (GROUNDING_CONTRACT_V0_1.md:298).                *)
ArrivalOrderIrrelevant ==
  stage = "retrieving" => \A n \in 1 .. Len(outcomes) - 1 :
    /\ Buildable(profile, targets, outcomes) = Buildable(profile, targets, Swapped(n))
    /\ Buildable(profile, targets, outcomes) =>
         Frame(profile, targets, outcomes) = Frame(profile, targets, Swapped(n))

(* A model that is asked without the frame is asked about supplemental       *)
(* targets alone, and approved evidence of a target is only kept from it     *)
(* when the target is unavailable: not all its required sources answered, or *)
(* its evidence is over the limits.  A model that is asked with the frame    *)
(* sees of an authoritative target the content that all its required sources *)
(* agree on, or no content and the state that says why                       *)
(* (GROUNDING_CONTRACT_V0_1.md:553-566, grounding_engine.py:400-435, 523).   *)
(* When the model is asked at all is not said here: the host stops the whole *)
(* question for one unresolved target, where line 450 of the contract would  *)
(* stop that target only.                                                    *)
ModelNeverGuesses ==
  delivery # None /\ delivery.called =>
    IF delivery.route = "grounded-context"
      THEN /\ delivery.evidence = frame
           /\ \A t \in targets : profile.targets[t].authority = "authoritative" =>
                \/ frame[t].state \in Unresolved /\ frame[t].items = {}
                \/ /\ \A b \in profile.targets[t].bindings :
                        b.required => CameOnce(t, b, {"ok", "none"})
                   /\ frame[t].items = Approved(profile, t, outcomes)
                   /\ Cardinality({i.content : i \in frame[t].items}) = 1
      ELSE \A t \in targets :
             /\ profile.targets[t].authority = "supplemental"
             /\ Approved(profile, t, outcomes) # {} => frame[t].state = "unavailable"

(* The host answers without the model only to the very question that was     *)
(* looked up, about one target, with a value all its evidence agrees on, of  *)
(* the kind the caller asked for (grounding_engine.py:413-417, 555-582).     *)
HostAnswersFromEvidence ==
  delivery # None /\ delivery.disposition = "answer" =>
    \E t \in targets, i \in profile.items :
      /\ targets = {t} /\ ~rewritten
      /\ Approved(profile, t, outcomes) = {i}
      /\ delivery.answer \in Typed(i.content) \intersect prepared.accepts

(* A cached prompt prefix is only named for the prompt that is sent          *)
(* (grounding_engine.py:433-532).                                            *)
PrefixKeyNamesPrompt ==
  delivery # None /\ delivery.called => delivery.key = delivery.system

(* A contradiction between authoritative sources is reported as such, ahead  *)
(* of coverage that is missing as well (GROUNDING_CONTRACT_V0_1.md:434-438). *)
ConflictOutranksUnavailable ==
  frame # None => \A t \in DOMAIN frame :
    /\ frame[t].authority = "authoritative"
    /\ Contradictory(Approved(profile, t, outcomes))
    => frame[t].state \in {"conflict", "ambiguous"}

-----------------------------------------------------------------------------
(* The inductive invariant: the frame is that of the outcomes at hand, and a *)
(* delivery was decided on it.                                               *)

RequestSound ==
  /\ profile \in Profiles
  /\ targets \subseteq Targets
  /\ outcomes \in Seq(ProviderOutcomes)

FrameFollows ==
  /\ frame = Frame(profile, targets, outcomes)
  /\ \A t \in targets : ~Malformed(profile, t, outcomes)

FrameSound ==
  /\ stage \in {"idle", "retrieving"} => frame = None
  /\ stage \in {"framed", "delivered"} => FrameFollows
  /\ stage = "refused" => frame = None \/ FrameFollows

DeliverySound ==
  delivery # None =>
    /\ stage = "delivered"
    /\ delivery.called =>
         /\ ~ShortCircuits
         /\ IF delivery.route = "grounded-context" THEN delivery.evidence = frame ELSE Ordinary(frame)
         /\ delivery.key = delivery.system
    /\ delivery.disposition = "answer" => delivery.answer \in HostAnswers

DeliveryInv ==
  /\ stage \in {"idle", "retrieving", "framed", "delivered", "refused"}
  /\ RequestSound /\ FrameSound /\ DeliverySound
=============================================================================
