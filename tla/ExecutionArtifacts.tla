-------------------------- MODULE ExecutionArtifacts --------------------------
(* The artifacts of qualified execution (tools/qualified_execution.py): the  *)
(* workload contract, the host manifest, the candidate policy compiled from  *)
(* them, the attestation that qualifies it, the profile that pairs the two,  *)
(* and what the validators, the compiler and the requalification planner say *)
(* of them.                                                                  *)
(*                                                                           *)
(* An artifact is a record and stands for its own SHA-256 identity: two      *)
(* artifacts have equal digests exactly when they are equal.  Lists of items *)
(* with unique ids are functions from the ids; the order a manifest lists    *)
(* them in is one field, "order", that nothing but the identity depends on.  *)
(* Schema validation, ids of profiles and receipts, and error reasons are    *)
(* left out.                                                                 *)
EXTENDS Naturals

CONSTANTS
  Never,      \* no expiry
  NoPolicy,   \* no observation policy
  NoBudget    \* no evidence budget

Restrictions == {"single-source-precision", "multi-source-coverage"}

(* EVIDENCE_COMPOSITION_POLICIES.                                            *)
RequiredEvidencePolicy(composition) ==
  IF composition = "single-source-precision" THEN "precision-context-v5"
                                             ELSE "multihop-coverage-v1"

-----------------------------------------------------------------------------
(* validate_host: a host that claims pinned scope knows every dependency, a  *)
(* provider's unknown one has an expiry or a policy that observes it.        *)
ValidHost(h) ==
  \A d \in DOMAIN h.dependencies :
    h.dependencies[d].assurance = "unknown" =>
      /\ h.scope # "inspectable-pinned"
      /\ h.dependencies[d].until # Never \/ h.dependencies[d].policy # NoPolicy

(* _validate_lowerings: every check is one the host declares for that kind   *)
(* of obligation and rule, and keeps its failure reason.                     *)
ValidLowerings(w, h, lowerings) ==
  \A o \in DOMAIN lowerings :
    LET obligation == w.obligations[o] IN
    /\ [kind |-> obligation.kind, rule |-> obligation.rule,
        lowering |-> lowerings[o].lowering, check |-> lowerings[o].check] \in h.checks
    /\ lowerings[o].failure = obligation.failure
    /\ obligation.kind = "context-admission" => h.exact_fit

SupportedCapabilities(h, required) ==
  \A c \in required : c \in DOMAIN h.capabilities /\ h.capabilities[c].assurance # "unknown"

(* compile_candidate: what a source policy must satisfy, and the candidate.  *)
Compiles(w, h, s) ==
  /\ ValidHost(h)
  /\ s.calls <= h.calls
  /\ DOMAIN s.lowerings # {}
  /\ DOMAIN s.lowerings = DOMAIN w.obligations
  /\ ValidLowerings(w, h, s.lowerings)
  /\ w.composition \in Restrictions =>
       w.evidence = RequiredEvidencePolicy(w.composition) /\ w.budget # NoBudget
  /\ SupportedCapabilities(h, s.required)

Compiled(w, h, s) ==
  [policy |-> s.policy, workload |-> w, host |-> h, source |-> s,
   obligations |-> s.lowerings, required |-> s.required, calls |-> s.calls,
   answer |-> w.answer, evidence |-> w.evidence, composition |-> w.composition,
   budget |-> w.budget]

(* validate_candidate: the candidate belongs to this contract and this host, *)
(* and everything that was compiled still holds of them.                     *)
ValidCandidate(c, w, h) ==
  /\ ValidHost(h)
  /\ c.workload = w
  /\ c.host = h
  /\ c.answer = w.answer
  /\ <<c.evidence, c.composition, c.budget>> = <<w.evidence, w.composition, w.budget>>
  /\ c.calls <= h.calls
  /\ DOMAIN c.obligations = DOMAIN w.obligations
  /\ ValidLowerings(w, h, c.obligations)
  /\ SupportedCapabilities(h, c.required)

-----------------------------------------------------------------------------
(* _gate_passes.                                                             *)
GatePasses(requirement, observed) ==
  CASE requirement.direction = "min"  -> observed >= requirement.threshold
    [] requirement.direction = "max"  -> observed <= requirement.threshold
    [] requirement.direction = "zero" -> observed = 0

(* Mutant: the attestation's own word for it.                                *)
ClaimsTrusted(w, results) ==
  DOMAIN results = DOMAIN w.requirements
  /\ \A r \in DOMAIN results : results[r].unit = w.requirements[r].unit

(* The claims of the gate results agree with what was observed.              *)
GatesAgree(w, results) ==
  /\ DOMAIN results = DOMAIN w.requirements
  /\ \A r \in DOMAIN results :
       /\ results[r].unit = w.requirements[r].unit
       /\ results[r].passed = GatePasses(w.requirements[r], results[r].observed)

(* validate_attestation.                                                     *)
ValidAttestation(a, c, w, h) ==
  /\ ValidCandidate(c, w, h)
  /\ a.candidate = c /\ a.workload = w /\ a.host = h
  /\ a.scope = h.scope
  /\ a.until # Never => a.until >= a.issued
  /\ h.scope = "provider-observable" => a.until # Never \/ a.policy # NoPolicy
  /\ GatesAgree(w, a.results)
  /\ a.status = "qualified" =>
       a.violations = 0 /\ \A r \in DOMAIN a.results : a.results[r].passed

(* make_profile.                                                             *)
Qualifies(c, a, w, h) == ValidAttestation(a, c, w, h) /\ a.status = "qualified"
Profile(c, a)         == [candidate |-> c, attestation |-> a]

(* One validity record: not expired, and its policy is observed to hold.     *)
Holding(v, now, observed) ==
  /\ v.until # Never => now <= v.until
  /\ v.policy # NoPolicy => v.policy \in observed

Fresh(p, h, now, observed) ==
  /\ now >= p.attestation.issued
  /\ Holding(p.attestation, now, observed)
  /\ \A d \in DOMAIN h.dependencies : Holding(h.dependencies[d], now, observed)

(* validate_profile.                                                         *)
ValidProfile(p, w, h, now, observed) ==
  /\ Qualifies(p.candidate, p.attestation, w, h)
  /\ Fresh(p, h, now, observed)

(* admit: the receipt binds profile, contract, host and request.             *)
Admission(p, w, h, b) == [profile |-> p, workload |-> w, host |-> h, binding |-> b]

-----------------------------------------------------------------------------
(* plan_requalification: what a drift from the qualified host to the current *)
(* one asks for under the contract's invalidation rule.                      *)

(* The surface a change of which always requalifies in full.                 *)
Surface(h) == <<h.id, h.scope, h.capabilities, h.checks, h.exact_fit, h.calls>>

Changed(old, new) ==
  {d \in DOMAIN old.dependencies : old.dependencies[d] # new.dependencies[d]}

SameButIdentity(x, y) ==
  <<x.kind, x.assurance, x.until, x.policy>> = <<y.kind, y.assurance, y.until, y.policy>>

IdentityOnly(old, new) ==
  {d \in Changed(old, new) : SameButIdentity(old.dependencies[d], new.dependencies[d])}

(* Mutant: what changed besides the identity is not looked at.               *)
PlanByIds(w, old, new) ==
  IF old = new THEN "current"
  ELSE IF \/ Surface(old) # Surface(new)
          \/ DOMAIN old.dependencies # DOMAIN new.dependencies
          \/ Changed(old, new) = {} THEN "full-requalification"
  ELSE IF Changed(old, new) \subseteq w.nonbehavioral THEN "identity-refresh"
  ELSE "full-requalification"

Plan(w, old, new) ==
  IF old = new THEN "current"
  ELSE IF \/ Surface(old) # Surface(new)
          \/ DOMAIN old.dependencies # DOMAIN new.dependencies
          \/ Changed(old, new) = {} THEN "full-requalification"
  ELSE IF Changed(old, new) = IdentityOnly(old, new)
          /\ IdentityOnly(old, new) \subseteq w.nonbehavioral THEN "identity-refresh"
  ELSE IF /\ w.targeting
          /\ Changed(old, new) \subseteq w.targeted
          /\ \A d \in Changed(old, new) : old.dependencies[d].kind = new.dependencies[d].kind
         THEN "targeted-requalification"
  ELSE "full-requalification"
=============================================================================
