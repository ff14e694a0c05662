---------------------- MODULE QualifiedExecution_proofs ----------------------
(* Proofs about QualifiedExecution, for every contract, host manifest,       *)
(* source policy, measurement and bound.                                     *)
EXTENDS QualifiedExecution, TLAPS

-----------------------------------------------------------------------------
(* Evidence.                                                                 *)

(* Whatever the planner asks for when a qualified host has drifted to h, the *)
(* evidence carried over together with what is measured again covers h.      *)
LEMMA EvidenceFollowsThePlan ==
  ASSUME NEW p, NEW h,
         Covers(p.attestation.measured, p.candidate.host)
  PROVE  Covers(Evidence(p, h), h)
<1> DEFINE old  == p.candidate.host
           kept == p.attestation.measured
           plan == Plan(Workload, old, h)
<1>1. CASE plan = "current"
  <2>1. old = h
    BY <1>1 DEF Plan
  <2> QED BY <1>1, <2>1 DEF Evidence
<1>2. CASE plan = "identity-refresh"
  <2>1. /\ Surface(old) = Surface(h)
        /\ DOMAIN old.dependencies = DOMAIN h.dependencies
        /\ Changed(old, h) = IdentityOnly(old, h)
        /\ Changed(old, h) \subseteq Workload.nonbehavioral
    BY <1>2 DEF Plan
  <2>2. ASSUME NEW d \in DOMAIN h.dependencies
        PROVE  \/ kept.dependencies[d] = h.dependencies[d]
               \/ /\ d \in Workload.nonbehavioral
                  /\ SameButIdentity(kept.dependencies[d], h.dependencies[d])
    <3>1. CASE d \in Changed(old, h)
      <4>1. /\ d \in Workload.nonbehavioral
            /\ SameButIdentity(old.dependencies[d], h.dependencies[d])
        BY <2>1, <3>1 DEF IdentityOnly
      <4>2. \/ kept.dependencies[d] = old.dependencies[d]
            \/ SameButIdentity(kept.dependencies[d], old.dependencies[d])
        BY <2>1 DEF Covers
      <4> QED BY <4>1, <4>2 DEF SameButIdentity
    <3>2. CASE d \notin Changed(old, h)
      <4>1. old.dependencies[d] = h.dependencies[d]
        BY <2>1, <3>2 DEF Changed
      <4> QED BY <2>1, <4>1 DEF Covers
    <3> QED BY <3>1, <3>2
  <2>3. Evidence(p, h) = kept
    BY <1>2 DEF Evidence
  <2> QED BY <2>1, <2>2, <2>3 DEF Covers
<1>3. CASE plan = "targeted-requalification"
  <2>1. /\ Surface(old) = Surface(h)
        /\ DOMAIN old.dependencies = DOMAIN h.dependencies
    BY <1>3 DEF Plan
  <2> DEFINE again == [d \in DOMAIN h.dependencies |->
                         IF d \in Changed(old, h)
                           THEN h.dependencies[d] ELSE kept.dependencies[d]]
  <2>2. Evidence(p, h) = [surface |-> kept.surface, dependencies |-> again]
    BY <1>3 DEF Evidence
  <2>3. ASSUME NEW d \in DOMAIN h.dependencies
        PROVE  \/ again[d] = h.dependencies[d]
               \/ /\ d \in Workload.nonbehavioral
                  /\ SameButIdentity(again[d], h.dependencies[d])
    <3>1. CASE d \in Changed(old, h)
      BY <3>1
    <3>2. CASE d \notin Changed(old, h)
      <4>1. old.dependencies[d] = h.dependencies[d]
        BY <2>1, <3>2 DEF Changed
      <4>2. again[d] = kept.dependencies[d]
        BY <3>2
      <4> QED BY <2>1, <4>1, <4>2 DEF Covers
    <3> QED BY <3>1, <3>2
  <2>4. DOMAIN again = DOMAIN h.dependencies
    OBVIOUS
  <2>5. kept.surface = Surface(h)
    BY <2>1 DEF Covers
  <2> HIDE DEF again
  <2> QED BY <2>2, <2>3, <2>4, <2>5 DEF Covers
<1>4. CASE plan \notin {"current", "identity-refresh", "targeted-requalification"}
  <2>1. Evidence(p, h) = Measured(h)
    BY <1>4 DEF Evidence
  <2> QED BY <2>1 DEF Measured, Covers
<1> QED BY <1>1, <1>2, <1>3, <1>4

(* What is measured, and what is carried over, is evidence.                  *)
LEMMA MeasuredIsEvidence ==
  ASSUME NEW h \in Hosts
  PROVE  Measured(h) \in Evidences
BY HostsAssumption DEF Measured, Evidences

LEMMA EvidenceIsEvidence ==
  ASSUME NEW p \in Profiles, NEW h \in Hosts,
         Covers(p.attestation.measured, p.candidate.host)
  PROVE  Evidence(p, h) \in Evidences
<1> DEFINE old  == p.candidate.host
           kept == p.attestation.measured
           plan == Plan(Workload, old, h)
<1>1. kept \in Evidences
  BY DEF Profiles, Attestations
<1>2. CASE plan \in {"current", "identity-refresh"}
  BY <1>1, <1>2 DEF Evidence
<1>3. CASE plan = "targeted-requalification"
  <2>1. DOMAIN kept.dependencies = DOMAIN h.dependencies
    BY <1>3 DEF Plan, Covers
  <2>2. kept.dependencies \in [DOMAIN h.dependencies -> Dependencies]
    BY <1>1, <2>1 DEF Evidences
  <2> DEFINE again == [d \in DOMAIN h.dependencies |->
                         IF d \in Changed(old, h)
                           THEN h.dependencies[d] ELSE kept.dependencies[d]]
  <2>3. again \in [DOMAIN h.dependencies -> Dependencies]
    BY <2>2, HostsAssumption
  <2>4. Evidence(p, h) = [surface |-> kept.surface, dependencies |-> again]
    BY <1>3 DEF Evidence
  <2>5. kept.surface \in {Surface(g) : g \in Hosts}
    BY <1>1 DEF Evidences
  <2> HIDE DEF again
  <2> QED BY <2>3, <2>4, <2>5 DEF Evidences
<1>4. CASE plan \notin {"current", "identity-refresh", "targeted-requalification"}
  <2>1. Evidence(p, h) = Measured(h)
    BY <1>4 DEF Evidence
  <2> QED BY <2>1, MeasuredIsEvidence
<1> QED BY <1>2, <1>3, <1>4

-----------------------------------------------------------------------------
(* The steps.                                                                *)

(* Nothing is served or released at the start.                               *)
LEMMA InitEstablishes == Init => ExecutionInv
BY LimitsAssumption
   DEF Init, ExecutionInv, TypeOK, AttestationSound, ProfileSound,
       ServedProfileIsQualified, ReleasedAsAdmitted

(* A step that leaves draft and profile alone and releases nothing.          *)
LEMMA QuietStep ==
  ASSUME ExecutionInv, TypeOK', released' = None,
         UNCHANGED <<attestation, profile>>
  PROVE  ExecutionInv'
<1>1. AttestationSound' /\ ProfileSound'
  BY DEF ExecutionInv, AttestationSound, ProfileSound, Covers
<1>2. ServedProfileIsQualified'
  BY DEF ExecutionInv, ServedProfileIsQualified
<1>3. ReleasedAsAdmitted'
  BY DEF ReleasedAsAdmitted
<1> QED BY <1>1, <1>2, <1>3 DEF ExecutionInv

(* The world moves.                                                          *)
LEMMA WorldStep ==
  ASSUME ExecutionInv, Drift \/ Tick \/ Observe
  PROVE  ExecutionInv'
<1>1. TypeOK'
  BY LimitsAssumption DEF ExecutionInv, TypeOK, Drift, Tick, Observe
<1> QED BY <1>1, QuietStep DEF Drift, Tick, Observe

(* A compiled candidate replaces the draft.                                  *)
LEMMA CompileStep ==
  ASSUME ExecutionInv, NEW s \in Sources, Compile(s)
  PROVE  ExecutionInv'
<1>1. candidate' \in Candidates
  BY DEF ExecutionInv, TypeOK, Compile, Candidates
<1>2. TypeOK'
  BY <1>1 DEF ExecutionInv, TypeOK, Compile, worldVars
<1>3. AttestationSound' /\ ReleasedAsAdmitted'
  BY DEF Compile, AttestationSound, ReleasedAsAdmitted
<1>4. ProfileSound' /\ ServedProfileIsQualified'
  BY DEF ExecutionInv, Compile, ProfileSound, ServedProfileIsQualified, Covers
<1> QED BY <1>2, <1>3, <1>4 DEF ExecutionInv

(* An attestation rests on evidence that covers the host it was made on.     *)
LEMMA AttestStep ==
  ASSUME ExecutionInv, NEW m \in Measurements, NEW until \in {now, Never}, Attest(m, until)
  PROVE  ExecutionInv'
<1> DEFINE measured == IF profile = None THEN Measured(host) ELSE Evidence(profile, host)
<1>1. /\ host \in Hosts /\ now \in 0 .. MaxTime
      /\ candidate \in Candidates
      /\ profile # None => profile \in Profiles
  BY DEF ExecutionInv, TypeOK, Attest
<1>2. profile # None => Covers(profile.attestation.measured, profile.candidate.host)
  BY DEF ExecutionInv, ProfileSound
<1>3. measured \in Evidences /\ Covers(measured, host)
  <2>1. CASE profile = None
    <3>1. Covers(Measured(host), host)
      BY DEF Measured, Covers
    <3> QED BY <1>1, <2>1, <3>1, MeasuredIsEvidence
  <2>2. CASE profile # None
    BY <1>1, <1>2, <2>2, EvidenceIsEvidence, EvidenceFollowsThePlan
  <2> QED BY <2>1, <2>2
<1> HIDE DEF measured
<1>4. attestation' =
        [candidate |-> candidate, workload |-> Workload, host |-> host, scope |-> host.scope,
         issued |-> now, until |-> until, policy |-> NoPolicy, status |-> m.status,
         results |-> m.results, violations |-> m.violations, measured |-> measured]
  BY DEF Attest, measured
<1>5. attestation' \in Attestations
  BY <1>1, <1>3, <1>4 DEF Attestations
<1>6. TypeOK'
  BY <1>5 DEF ExecutionInv, TypeOK, Attest, worldVars
<1>7. AttestationSound'
  BY <1>3, <1>4 DEF AttestationSound, Covers
<1>8. ProfileSound' /\ ServedProfileIsQualified' /\ ReleasedAsAdmitted'
  BY DEF ExecutionInv, Attest, ProfileSound, ServedProfileIsQualified, ReleasedAsAdmitted, Covers
<1> QED BY <1>6, <1>7, <1>8 DEF ExecutionInv

(* Only an attestation that was measured to pass makes a profile.            *)
LEMMA QualifiedPasses ==
  ASSUME NEW c, NEW a, NEW h, Qualifies(c, a, Workload, h),
         NEW q \in DOMAIN Workload.requirements
  PROVE  /\ a.results[q].unit = Workload.requirements[q].unit
         /\ GatePasses(Workload.requirements[q], a.results[q].observed)
<1>1. q \in DOMAIN a.results /\ a.results[q].passed
  BY DEF Qualifies, ValidAttestation, GatesAgree
<1>2. /\ a.results[q].unit = Workload.requirements[q].unit
      /\ a.results[q].passed = GatePasses(Workload.requirements[q], a.results[q].observed)
  BY <1>1 DEF Qualifies, ValidAttestation, GatesAgree
<1> QED BY <1>1, <1>2

LEMMA MakeProfileStep ==
  ASSUME ExecutionInv, MakeProfile
  PROVE  ExecutionInv'
<1>1. /\ attestation # None
      /\ profile' = [candidate |-> candidate, attestation |-> attestation]
      /\ Qualifies(candidate, attestation, Workload, host)
  BY DEF MakeProfile, Profile
<1>2. TypeOK'
  <2>1. profile' \in Profiles
    BY <1>1 DEF ExecutionInv, TypeOK, MakeProfile, Profiles
  <2> QED BY <2>1 DEF ExecutionInv, TypeOK, MakeProfile, worldVars
<1>3. ProfileSound'
  <2>1. candidate.host = attestation.host
    BY <1>1 DEF Qualifies, ValidAttestation, ValidCandidate
  <2>2. Covers(attestation.measured, attestation.host)
    BY <1>1 DEF ExecutionInv, AttestationSound
  <2> QED BY <1>1, <2>1, <2>2 DEF ProfileSound, Covers
<1>4. ServedProfileIsQualified'
  <2>1. /\ attestation.status = "qualified"
        /\ attestation.violations = 0
        /\ attestation.candidate = candidate
    BY <1>1 DEF Qualifies, ValidAttestation
  <2>2. \A q \in DOMAIN Workload.requirements :
          /\ attestation.results[q].unit = Workload.requirements[q].unit
          /\ GatePasses(Workload.requirements[q], attestation.results[q].observed)
    BY <1>1, QualifiedPasses
  <2> QED BY <1>1, <2>1, <2>2 DEF ServedProfileIsQualified
<1>5. AttestationSound' /\ ReleasedAsAdmitted'
  BY DEF MakeProfile, AttestationSound, ReleasedAsAdmitted
<1> QED BY <1>2, <1>3, <1>4, <1>5 DEF ExecutionInv

(* A receipt binds the profile and the host of its moment.                   *)
LEMMA AdmitStep ==
  ASSUME ExecutionInv, NEW b \in Bindings, Admit(b)
  PROVE  ExecutionInv'
<1>1. Admission(profile, Workload, host, b) \in Receipts
  BY DEF ExecutionInv, TypeOK, Admit, Admission, Receipts
<1>2. TypeOK'
  BY <1>1 DEF ExecutionInv, TypeOK, Admit, worldVars, draftVars
<1> QED BY <1>2, QuietStep DEF Admit, draftVars

(* A valid profile was qualified on the host as it is.                       *)
LEMMA ValidProfileFacts ==
  ASSUME NEW p, NEW h, NEW t, NEW o, ValidProfile(p, Workload, h, t, o)
  PROVE  /\ p.candidate.host = h
         /\ DOMAIN p.candidate.obligations = DOMAIN Workload.obligations
         /\ Fresh(p, h, t, o)
BY DEF ValidProfile, Qualifies, ValidAttestation, ValidCandidate

LEMMA FinalizeStep ==
  ASSUME ExecutionInv,
         NEW r \in receipts, NEW b \in Bindings, NEW o \in Outputs, NEW failing,
         Finalize(r, b, o, failing)
  PROVE  ExecutionInv'
<1>1. /\ profile # None
      /\ ValidProfile(profile, Workload, host, now, observed)
      /\ r = [profile |-> profile, workload |-> Workload, host |-> host, binding |-> b]
  BY DEF Finalize, Current, Admission
<1>2. /\ DOMAIN profile.candidate.obligations = DOMAIN Workload.obligations
      /\ Fresh(profile, host, now, observed)
      /\ profile.candidate.host = host
  BY <1>1, ValidProfileFacts
<1>3. UNCHANGED <<host, now, observed, candidate, attestation, profile>>
  BY DEF Finalize, worldVars, draftVars
<1>4. \/ released' = None
      \/ released' = [admission |-> r, ran |-> b, output |-> o,
                      passed |-> DOMAIN Workload.obligations]
  BY <1>2 DEF Finalize
<1>5. TypeOK'
  BY <1>3, <1>4 DEF ExecutionInv, TypeOK, Finalize
<1>6. AttestationSound' /\ ProfileSound' /\ ServedProfileIsQualified'
  BY <1>3 DEF ExecutionInv, AttestationSound, ProfileSound, ServedProfileIsQualified, Covers
<1>7. ReleasedAsAdmitted'
  <2>1. Covers(profile.attestation.measured, host)
    BY <1>1, <1>2 DEF ExecutionInv, ProfileSound
  <2>2. \A v \in {profile.attestation} \union
                 {host.dependencies[d] : d \in DOMAIN host.dependencies} :
          Holding(v, now, observed)
    BY <1>2 DEF Fresh
  <2>3. CASE released' = None
    BY <2>3 DEF ReleasedAsAdmitted
  <2>4. CASE released' = [admission |-> r, ran |-> b, output |-> o,
                          passed |-> DOMAIN Workload.obligations]
    <3>1. /\ released'.ran = released'.admission.binding
          /\ released'.admission.profile = profile
          /\ released'.admission.host = host
          /\ released'.passed = DOMAIN Workload.obligations
      BY <1>1, <2>4
    <3> QED BY <1>3, <2>1, <2>2, <3>1 DEF ReleasedAsAdmitted, Covers, Holding
  <2> QED BY <1>4, <2>3, <2>4
<1> QED BY <1>5, <1>6, <1>7 DEF ExecutionInv

-----------------------------------------------------------------------------
(* The theorems.                                                             *)

(* The inductive invariant holds for every contract, set of manifests, of    *)
(* measurements and of requests, and for any drift between any two calls.    *)
THEOREM ExecutionInvHolds == Spec => []ExecutionInv
<1>1. Init => ExecutionInv
  BY InitEstablishes
<1>2. ExecutionInv /\ [Next]_vars => ExecutionInv'
  <2> SUFFICES ASSUME ExecutionInv, [Next]_vars PROVE ExecutionInv'
    OBVIOUS
  <2>1. CASE Drift \/ Tick \/ Observe
    BY <2>1, WorldStep
  <2>2. ASSUME NEW s \in Sources, Compile(s) PROVE ExecutionInv'
    BY <2>2, CompileStep
  <2>3. ASSUME NEW m \in Measurements, NEW until \in {now, Never}, Attest(m, until)
        PROVE ExecutionInv'
    BY <2>3, AttestStep
  <2>4. CASE MakeProfile
    BY <2>4, MakeProfileStep
  <2>5. ASSUME NEW b \in Bindings, Admit(b) PROVE ExecutionInv'
    BY <2>5, AdmitStep
  <2>6. ASSUME NEW r \in receipts, NEW b \in Bindings, NEW o \in Outputs,
               NEW failing \in SUBSET DOMAIN Workload.obligations,
               Finalize(r, b, o, failing)
        PROVE ExecutionInv'
    BY <2>6, FinalizeStep
  <2>7. CASE UNCHANGED vars
    BY <2>7 DEF vars, ExecutionInv, TypeOK, AttestationSound, ProfileSound,
                ServedProfileIsQualified, ReleasedAsAdmitted, Covers, Holding
  <2> QED BY <2>1, <2>2, <2>3, <2>4, <2>5, <2>6, <2>7 DEF Next
<1> QED BY <1>1, <1>2, PTL DEF Spec

(* A profile that would be admitted now rests on evidence about the host as  *)
(* it is now, after any chain of drifts, refreshes and requalifications.     *)
THEOREM EvidenceIsNeverCarriedTooFar == Spec => []EvidenceCoversHost
<1>1. ExecutionInv => EvidenceCoversHost
  <2> SUFFICES ASSUME ExecutionInv, profile # None,
                      ValidProfile(profile, Workload, host, now, observed)
               PROVE  Covers(profile.attestation.measured, host)
    BY DEF EvidenceCoversHost
  <2>1. profile.candidate.host = host
    BY ValidProfileFacts
  <2> QED BY <2>1 DEF ExecutionInv, ProfileSound
<1> QED BY <1>1, ExecutionInvHolds, PTL

(* A profile in service was measured to meet every requirement.              *)
THEOREM ServedProfilesPass == Spec => []ServedProfileIsQualified
<1>1. ExecutionInv => ServedProfileIsQualified
  BY DEF ExecutionInv
<1> QED BY <1>1, ExecutionInvHolds, PTL

(* Outputs are released only as they were admitted, under windows that hold. *)
THEOREM ReleasesFollowAdmissions == Spec => []ReleasedAsAdmitted
<1>1. ExecutionInv => ReleasedAsAdmitted
  BY DEF ExecutionInv
<1> QED BY <1>1, ExecutionInvHolds, PTL

(* The artifacts keep their types, the evidence carried from one profile to  *)
(* the next included.                                                        *)
THEOREM ExecutionTypes == Spec => []TypeOK
<1>1. ExecutionInv => TypeOK
  BY DEF ExecutionInv
<1> QED BY <1>1, ExecutionInvHolds, PTL
=============================================================================
