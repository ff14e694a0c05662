------------------------- MODULE CapabilityPreflight -------------------------
(***************************************************************************)
(* The one-time calibration of a model behind llama.cpp: the first output  *)
(* surface the server supports, and the answer contract with the best      *)
(* score, found with as few requests as prove the choice                   *)
(* (adapters/llama-cpp/grounding_v1.py, tools/grounding_v1_surface.py).    *)
(* A record keeps the evidence; loading it recomputes the choice from it.  *)
(***************************************************************************)
EXTENDS Integers, Sequences, FiniteSets

CONSTANTS Cases,    \* the frozen calibration cases
          NoRecord  \* no surface, no contract: the model is unsupported

Surfaces == <<"json-schema", "compact-gbnf">>
Contracts == <<"v1", "v3", "v4">>
TiePreference == <<"v3", "v4", "v1">>
Preferred == TiePreference[1]
ContractIds == {Contracts[n] : n \in DOMAIN Contracts}
MinCorrect == 1

\* select_contract, select_supported_contract
SelectContract(score) ==
    LET Beats(c, d) == \/ score[c] > score[d]
                       \/ score[c] = score[d] /\ \E m \in DOMAIN TiePreference, n \in DOMAIN TiePreference :
                             m < n /\ TiePreference[m] = c /\ TiePreference[n] = d
        best == CHOOSE c \in ContractIds : \A d \in ContractIds \ {c} : Beats(c, d)
    IN IF score[best] >= MinCorrect THEN best ELSE NoRecord

\* select_output_surface
SelectSurface(valid) ==
    LET ok == {n \in DOMAIN Surfaces : valid[Surfaces[n]]} IN
    IF ok = {} THEN NoRecord ELSE Surfaces[CHOOSE n \in ok : \A m \in ok : n <= m]

\* validate_preflight_surface_probes: a prefix of the candidates that ends with the first supported one.
ProbesProve(probes) ==
    /\ Len(probes) \in 1 .. Len(Surfaces)
    /\ \A n \in DOMAIN probes : /\ probes[n].surface = Surfaces[n]
                                /\ probes[n].valid => n = Len(probes)
    /\ probes[Len(probes)].valid \/ Len(probes) = Len(Surfaces)
ProbedSurface(probes) == IF probes[Len(probes)].valid THEN probes[Len(probes)].surface ELSE NoRecord

Perfect(profile) == profile.solved = Cases
\* A slip: the preferred contract wins as soon as it solves a case.
GoodEnough(profile) == Cardinality(profile.solved) >= MinCorrect
\* calibrate_contract: a preferred contract that solves every case cannot be beaten and wins every tie.
StopsAt(profile) == Perfect(profile)

\* validate_contract_profiles
FullSelection(profiles) ==
    IF {profiles[n].contract : n \in DOMAIN profiles} # ContractIds \/ Len(profiles) # Len(Contracts) THEN NoRecord
    ELSE SelectContract([c \in ContractIds |->
             Cardinality(profiles[CHOOSE n \in DOMAIN profiles : profiles[n].contract = c].solved)])
\* validate_preflight_contract_profiles: either the preferred contract, proven, or every contract measured.
ProfiledContract(profiles) ==
    IF Len(profiles) = 1
    THEN IF profiles[1].contract = Preferred /\ StopsAt(profiles[1]) THEN Preferred ELSE NoRecord
    ELSE IF \E n \in DOMAIN profiles : profiles[n].contract = Preferred /\ StopsAt(profiles[n]) THEN NoRecord
         ELSE FullSelection(profiles)

Requests(probes, profiles) == Len(probes) + Len(profiles) * Cardinality(Cases)

\* The record calibrate_contract builds.
Record(key, probes, profiles) ==
    [key |-> key, probes |-> probes, profiles |-> profiles, surface |-> ProbedSurface(probes),
     contract |-> ProfiledContract(profiles), requests |-> Requests(probes, profiles)]

\* validate_contract_record: shape and digests, evidence, request accounting, selection.
RecordOK(record, key) ==
    /\ record.key = key
    /\ ProbesProve(record.probes)
    /\ ProbedSurface(record.probes) # NoRecord
    /\ ProfiledContract(record.profiles) # NoRecord
    /\ record.requests = Requests(record.probes, record.profiles)
    /\ record.surface = ProbedSurface(record.probes)
    /\ record.contract = ProfiledContract(record.profiles)
=============================================================================
