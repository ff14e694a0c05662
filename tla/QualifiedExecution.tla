-------------------------- MODULE QualifiedExecution --------------------------
(* The life of a qualified profile around tools/qualified_execution.py:      *)
(* compile, attest, make a profile, admit requests, finalize their outputs,  *)
(* and requalify when the host drifts.  The functions keep no state: the     *)
(* trusted host and the qualification authority do (external), and every     *)
(* call is given the host's manifest, clock and observations of that moment. *)
(* Anything may drift between two calls.  A call that is refused changes     *)
(* nothing and is a stuttering step.                                         *)
(*                                                                           *)
(* The authority follows the planner: it measures again what the plan says   *)
(* is affected and carries the rest of the evidence over.                    *)
EXTENDS ExecutionArtifacts, FiniteSets

CONSTANTS
  Workload,      \* the workload contract in force
  Hosts,         \* manifests the host may have
  Sources,       \* source policies that may be compiled
  Measurements,  \* what the authority may attest: [status, results, violations]
  Policies,      \* observation policies
  Bindings,      \* [request, evidence, rendered, settings]
  Outputs,       \* digests of generated outputs
  MaxReceipts,   \* bound: admission receipts the host retains at a time
  MaxTime,       \* bound: the clock
  None           \* no candidate, attestation or profile; nothing released

ASSUME LimitsAssumption == MaxTime \in Nat /\ MaxReceipts \in Nat

(* Every dependency record of every manifest.                                *)
Dependencies == UNION {{h.dependencies[d] : d \in DOMAIN h.dependencies} : h \in Hosts}

ASSUME HostsAssumption == \A h \in Hosts : h.dependencies \in [DOMAIN h.dependencies -> Dependencies]

VARIABLES
  host,         \* the host's current manifest
  now,          \* the host's clock
  observed,     \* the observation policies that hold
  candidate,    \* the last candidate policy compiled
  attestation,  \* the attestation issued for it
  profile,      \* the profile in service
  receipts,     \* admission receipts not yet consumed
  released      \* what this step releases as qualified

worldVars == <<host, now, observed>>
draftVars == <<candidate, attestation>>
vars      == <<host, now, observed, candidate, attestation, profile, receipts, released>>

Init ==
  /\ host \in Hosts
  /\ now = 0
  /\ observed = Policies
  /\ candidate = None /\ attestation = None
  /\ profile = None
  /\ receipts = {}
  /\ released = None

-----------------------------------------------------------------------------
(* The world.                                                                *)

Drift ==
  /\ \E h \in Hosts : host' = h
  /\ released' = None
  /\ UNCHANGED <<now, observed, candidate, attestation, profile, receipts>>

Tick ==
  /\ now < MaxTime
  /\ now' = now + 1
  /\ released' = None
  /\ UNCHANGED <<host, observed, candidate, attestation, profile, receipts>>

Observe ==
  /\ observed' \in SUBSET Policies
  /\ released' = None
  /\ UNCHANGED <<host, now, candidate, attestation, profile, receipts>>

-----------------------------------------------------------------------------
(* Qualification.                                                            *)

Compile(s) ==
  /\ Compiles(Workload, host, s)
  /\ candidate' = Compiled(Workload, host, s)
  /\ attestation' = None
  /\ released' = None
  /\ UNCHANGED <<worldVars, profile, receipts>>

(* Evidence: what was last measured of each dependency and of the surface.   *)
Measured(h) == [surface |-> Surface(h), dependencies |-> h.dependencies]

Evidence(old, h) ==
  LET plan == Plan(Workload, old.candidate.host, h)
      kept == old.attestation.measured IN
  IF plan \in {"current", "identity-refresh"} THEN kept
  ELSE IF plan = "targeted-requalification"
    THEN [surface |-> kept.surface,
          dependencies |-> [d \in DOMAIN h.dependencies |->
                              IF d \in Changed(old.candidate.host, h)
                                THEN h.dependencies[d] ELSE kept.dependencies[d]]]
  ELSE Measured(h)

(* The authority measures the candidate on the host it was compiled for and  *)
(* states what it pleases.                                                   *)
Attest(m, until) ==
  /\ candidate # None
  /\ candidate.host = host
  /\ attestation' =
       [candidate |-> candidate, workload |-> Workload, host |-> host, scope |-> host.scope,
        issued |-> now, until |-> until, policy |-> NoPolicy, status |-> m.status,
        results |-> m.results, violations |-> m.violations,
        measured |-> IF profile = None THEN Measured(host) ELSE Evidence(profile, host)]
  /\ released' = None
  /\ UNCHANGED <<worldVars, candidate, profile, receipts>>

MakeProfile ==
  /\ candidate # None /\ attestation # None
  /\ Qualifies(candidate, attestation, Workload, host)
  /\ profile' = Profile(candidate, attestation)
  /\ candidate' = None /\ attestation' = None
  /\ released' = None
  /\ UNCHANGED <<worldVars, receipts>>

-----------------------------------------------------------------------------
(* Serving.                                                                  *)

Admit(b) ==
  /\ profile # None
  /\ ValidProfile(profile, Workload, host, now, observed)
  /\ receipts' = receipts \union {Admission(profile, Workload, host, b)}
  /\ Cardinality(receipts') <= MaxReceipts
  /\ released' = None
  /\ UNCHANGED <<worldVars, draftVars, profile>>

(* Mutant: the receipt is only matched by its request id.                    *)
SameRequest(r, b) == r.profile = profile /\ r.binding.request = b.request

(* finalize rebuilds the receipt that would be given now and compares.       *)
Current(r, b) ==
  /\ ValidProfile(profile, Workload, host, now, observed)
  /\ r = Admission(profile, Workload, host, b)

(* The host presents a retained receipt, the request it actually ran, the    *)
(* output and one result per check of the profile; the receipt is consumed.  *)
Finalize(r, b, o, failing) ==
  /\ profile # None
  /\ Current(r, b)
  /\ failing \subseteq DOMAIN profile.candidate.obligations
  /\ receipts' = receipts \ {r}
  /\ released' = (IF failing = {}
                    THEN [admission |-> r, ran |-> b, output |-> o,
                          passed |-> DOMAIN profile.candidate.obligations]
                    ELSE None)
  /\ UNCHANGED <<worldVars, draftVars, profile>>

Next ==
  \/ Drift \/ Tick \/ Observe
  \/ \E s \in Sources : Compile(s)
  \/ \E m \in Measurements, until \in {now, Never} : Attest(m, until)
  \/ MakeProfile
  \/ \E b \in Bindings : Admit(b)
  \/ \E r \in receipts, b \in Bindings, o \in Outputs, failing \in SUBSET DOMAIN Workload.obligations :
       Finalize(r, b, o, failing)

Spec == Init /\ [][Next]_vars

-----------------------------------------------------------------------------
(* Properties.                                                               *)

Candidates == {Compiled(Workload, h, s) : h \in Hosts, s \in Sources}

Evidences ==
  [surface : {Surface(h) : h \in Hosts},
   dependencies : UNION {[DOMAIN h.dependencies -> Dependencies] : h \in Hosts}]

Attestations ==
  [candidate : Candidates, workload : {Workload}, host : Hosts,
   scope : {h.scope : h \in Hosts}, issued : 0 .. MaxTime,
   until : (0 .. MaxTime) \union {Never}, policy : {NoPolicy},
   status : {m.status : m \in Measurements}, results : {m.results : m \in Measurements},
   violations : {m.violations : m \in Measurements},
   measured : Evidences]

Profiles == [candidate : Candidates, attestation : Attestations]
Receipts == [profile : Profiles, workload : {Workload}, host : Hosts, binding : Bindings]

TypeOK ==
  /\ host \in Hosts
  /\ now \in 0 .. MaxTime
  /\ observed \subseteq Policies
  /\ candidate \in Candidates \union {None}
  /\ attestation \in Attestations \union {None}
  /\ profile \in Profiles \union {None}
  /\ receipts \subseteq Receipts
  /\ released \in [admission : Receipts, ran : Bindings, output : Outputs,
                   passed : {DOMAIN Workload.obligations}] \union {None}

(* What was measured stands for host h: the same surface, and of every       *)
(* dependency the very record that was measured, or one that differs in its  *)
(* identity alone and was declared nonbehavioral beforehand.                 *)
Covers(measured, h) ==
  /\ measured.surface = Surface(h)
  /\ DOMAIN measured.dependencies = DOMAIN h.dependencies
  /\ \A d \in DOMAIN h.dependencies :
       \/ measured.dependencies[d] = h.dependencies[d]
       \/ /\ d \in Workload.nonbehavioral
          /\ SameButIdentity(measured.dependencies[d], h.dependencies[d])

(* Old scores are never carried to a host they were not measured on: after   *)
(* any chain of drifts, refreshes, targeted and full requalifications, the   *)
(* profile that would be admitted now rests on evidence about the host as it *)
(* is now (docs/DECISIONS.md D-110, qualified_execution.py:387).             *)
EvidenceCoversHost ==
  profile # None /\ ValidProfile(profile, Workload, host, now, observed) =>
    Covers(profile.attestation.measured, host)

(* A profile in service was measured to meet every requirement of the        *)
(* contract, whatever its attestation claims (D-109, D-123).                 *)
ServedProfileIsQualified ==
  profile # None =>
    /\ profile.attestation.status = "qualified"
    /\ profile.attestation.violations = 0
    /\ profile.attestation.candidate = profile.candidate
    /\ \A q \in DOMAIN Workload.requirements :
         LET m == profile.attestation.results[q] IN
         /\ m.unit = Workload.requirements[q].unit
         /\ GatePasses(Workload.requirements[q], m.observed)

(* An output is released as qualified only for the request that was admitted *)
(* and under what it was admitted under: the profile in service, the host as *)
(* it is now, windows and observations that hold at this moment, every check *)
(* of the contract passed, however long ago the admission was and whatever   *)
(* came between (V1_1_ULTIMATE_PRODUCT_ARCHITECTURE.md:100, items 2 to 7).   *)
ReleasedAsAdmitted ==
  released # None =>
    /\ released.ran = released.admission.binding
    /\ released.admission.profile = profile
    /\ released.admission.host = host
    /\ released.passed = DOMAIN Workload.obligations
    /\ Covers(profile.attestation.measured, host)
    /\ \A v \in {profile.attestation} \union
                {host.dependencies[d] : d \in DOMAIN host.dependencies} :
         Holding(v, now, observed)

-----------------------------------------------------------------------------
(* The inductive invariant: the attestation at hand and the one in service   *)
(* rest on evidence about the host they name.                                *)

AttestationSound ==
  attestation # None => Covers(attestation.measured, attestation.host)

ProfileSound ==
  profile # None =>
    /\ profile.candidate.host = profile.attestation.host
    /\ Covers(profile.attestation.measured, profile.attestation.host)

ExecutionInv ==
  TypeOK /\ AttestationSound /\ ProfileSound /\ ServedProfileIsQualified /\ ReleasedAsAdmitted
=============================================================================
