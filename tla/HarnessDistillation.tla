------------------------- MODULE HarnessDistillation -------------------------
(***************************************************************************)
(* The harness-distillation compiler of tools/harness_distillation.py: a   *)
(* bounded catalog of execution policies, the cells a calibration must     *)
(* execute, the gates and the Pareto selection over its observations, the  *)
(* profile it emits and the held-out transfer report.  Pure operators.     *)
(*                                                                         *)
(* Abstracted: a SHA-256 digest is the value it names (no collisions); the *)
(* counters of new failures are one function over Harms; latencies, floats *)
(* in the code, are integers like the other meters; the six resource       *)
(* meters are the sequences SummedMeters and PeakMeters, in the order of   *)
(* the selection key; the report keeps what a later step reads.            *)
(***************************************************************************)
EXTENDS Integers, Sequences, FiniteSetsExt

CONSTANTS Harms, SummedMeters, PeakMeters, None

Meters == {SummedMeters[n] : n \in DOMAIN SummedMeters} \cup {PeakMeters[n] : n \in DOMAIN PeakMeters}

ASSUME MetersAssumption == SummedMeters \in Seq(Meters) /\ PeakMeters \in Seq(Meters)

-----------------------------------------------------------------------------
(* The catalog. *)

\* HostQualification.__post_init__: GxH needs both halves; parity evidence exactly when K is on.
HostOK(h) == /\ h.gxh => h.typed /\ h.surface
             /\ (h.cache = "off") <=> ~h.parity

HasGH(h) == h.typed /\ h.surface /\ h.gxh

Policy(evidence, reduced, model, cost, eligible) ==
    [evidence |-> evidence, reduced |-> reduced, model |-> model, cost |-> cost, eligible |-> eligible]

\* Policy ids in the order Python compares them, the last tie-break of the selection key.
PolicyOrder == <<"A", "A+B", "A+B+D", "A+B+D+I", "A+D", "B", "B+D", "Base", "D", "D+I", "G", "G+H", "H", "J",
    "K-off", "K-on", "integrated", "integrated-K-off", "prompt_full+I", "prompt_reduced", "prompt_reduced+I">>
PolicyIds == {PolicyOrder[n] : n \in DOMAIN PolicyOrder}
Rank(p) == CHOOSE n \in DOMAIN PolicyOrder : PolicyOrder[n] = p

\* The cells that retrieve evidence, and what each one does with it.
EvidenceCells == {"Base", "A", "B", "D", "A+B", "A+D", "B+D", "A+B+D", "D+I", "A+B+D+I", "prompt_full+I"}
EvidenceBundle(p) ==
    CASE p \in {"A", "B", "D"} -> {p}
      [] p = "A+B" -> {"A", "B"} [] p = "A+D" -> {"A", "D"} [] p = "B+D" -> {"B", "D"}
      [] p = "A+B+D" -> {"A", "B", "D"} [] p = "A+B+D+I" -> {"A", "B", "D", "I"}
      [] p \in {"D+I", "prompt_full+I"} -> {"D", "I"} [] p = "Base" -> {}

\* minimum_candidate_catalog: 21 cells, never every subset of the features.
Catalog(h) ==
    LET k == h.cache # "off" /\ h.parity
        i == IF h.fit THEN {"I"} ELSE {}
        gh == IF HasGH(h) THEN {"G", "H"} ELSE IF h.typed THEN {"G"} ELSE {}
        j == IF h.proof THEN {"J"} ELSE {}
        Integrated(cost, eligible) == Policy({"A", "B", "D"} \cup i, TRUE, gh, cost, eligible)
    IN [p \in PolicyIds |->
            CASE p \in EvidenceCells ->
                     Policy(EvidenceBundle(p), FALSE, {}, {}, "I" \in EvidenceBundle(p) => h.fit)
              [] p = "prompt_reduced" -> Policy({"D"}, TRUE, {}, {}, TRUE)
              [] p = "prompt_reduced+I" -> Policy({"D", "I"}, TRUE, {}, {}, h.fit)
              [] p = "G" -> Policy({}, FALSE, {"G"}, {}, h.typed)
              [] p = "H" -> Policy({}, FALSE, {"H"}, {}, FALSE)
              [] p = "G+H" -> Policy({}, FALSE, {"G", "H"}, {}, HasGH(h))
              [] p = "J" -> Policy({}, FALSE, {}, {"J"}, h.proof)
              [] p = "K-off" -> Policy({}, FALSE, {}, {}, FALSE)
              [] p = "K-on" -> Policy({}, FALSE, {}, {"K"}, k)
              [] p = "integrated-K-off" -> Integrated(j, k)
              [] p = "integrated" -> Integrated(j \cup (IF k THEN {"K"} ELSE {}), TRUE)]

\* INTERACTION_CELLS, by their combination, and K_PARITY_PEERS.
Combinations == {"A+B", "B+D", "prompt_reduced+I", "G+H"}
InteractionCell(p) ==
    CASE p = "A+B" -> {"Base", "A", "B", "A+B"} [] p = "B+D" -> {"Base", "B", "D", "B+D"}
      [] p = "prompt_reduced+I" -> {"D", "prompt_reduced", "prompt_full+I", "prompt_reduced+I"}
      [] p = "G+H" -> {"Base", "G", "H", "G+H"}
ParityPeer == [p \in {"K-on", "integrated"} |-> IF p = "K-on" THEN "K-off" ELSE "integrated-K-off"]

\* calibration_policy_ids: a control is executed only when a selectable cell depends on it.
Executed(catalog, baseline) ==
    LET eligible == {p \in PolicyIds : catalog[p].eligible}
    IN {baseline} \cup eligible
       \cup (UNION {InteractionCell(p) : p \in eligible \cap Combinations})
       \cup {ParityPeer[p] : p \in {q \in eligible \cap DOMAIN ParityPeer : "K" \in catalog[q].cost}}

-----------------------------------------------------------------------------
(* Observations: rows [policy, item, seen], by their place in the file; in *)
(* seen is what the policy did, [success, harms, calls, used, output].     *)

\* _index_observations: of these policies, each one measured exactly once on each item of the split.
Known(rows) == \A n \in DOMAIN rows : rows[n].policy \in PolicyIds
Of(rows, p, i) == {n \in DOMAIN rows : rows[n].policy = p /\ rows[n].item = i}
Indexable(rows, policies, items) ==
    /\ \A n \in DOMAIN rows : rows[n].policy \in policies => rows[n].item \in items
    /\ \A p \in policies, i \in items : Cardinality(Of(rows, p, i)) = 1
Index(rows, policies, items) ==
    [p \in policies |-> [i \in items |-> rows[CHOOSE n \in Of(rows, p, i) : TRUE].seen]]

\* The sum of natural numbers, as the number of their units.
Total(f) == Cardinality(UNION {{x} \X (1 .. f[x]) : x \in DOMAIN f})

\* _aggregate
Aggregate(seen, items, p, baseline) ==
    [success |-> Cardinality({i \in items : seen[p][i].success}),
     gain |-> Cardinality({i \in items : seen[p][i].success /\ ~seen[baseline][i].success}),
     regression |-> Cardinality({i \in items : seen[baseline][i].success /\ ~seen[p][i].success}),
     newHarm |-> [h \in Harms |-> Cardinality({i \in items : h \in seen[p][i].harms \ seen[baseline][i].harms})],
     calls |-> Total([i \in items |-> seen[p][i].calls]),
     used |-> [m \in Meters |->
         IF \E n \in DOMAIN SummedMeters : SummedMeters[n] = m
         THEN Total([i \in items |-> seen[p][i].used[m]])
         ELSE Max({seen[p][i].used[m] : i \in items})]]

NoWorse(l, r) ==
    /\ l.success >= r.success
    /\ l.regression <= r.regression
    /\ \A h \in Harms : l.newHarm[h] <= r.newHarm[h]
    /\ l.calls <= r.calls
    /\ \A m \in Meters : l.used[m] <= r.used[m]
\* _dominates: no worse on any of the twelve coordinates, better on one.
Dominates(l, r) == NoWorse(l, r) /\ ~NoWorse(r, l)

\* _hard_gate
HardGate(a, base, objective) ==
    /\ a.regression <= objective.regressions
    /\ \A h \in Harms : a.newHarm[h] <= objective.newHarm[h]
    /\ a.calls - base.calls <= objective.extraCalls

\* A slip: equal totals taken for equal answers, which _paired_reference_quality exists to prevent.
TotalsNotBelow(seen, items, p, reference) ==
    Cardinality({i \in items : seen[p][i].success}) >= Cardinality({i \in items : seen[reference][i].success})
\* _paired_reference_quality: every success of the reference, item by item.
Preserves(seen, items, p, reference) == \A i \in items : seen[reference][i].success => seen[p][i].success

\* _k_output_parity
Parity(seen, items, p) ==
    /\ p \in DOMAIN ParityPeer /\ {p, ParityPeer[p]} \subseteq DOMAIN seen
    /\ \A i \in items : /\ seen[p][i].output # None
                        /\ seen[p][i].output = seen[ParityPeer[p]][i].output

\* _selection_key, compared as Python compares tuples.
SelectionKey(a, p) ==
    <<a.calls>> \o [n \in DOMAIN SummedMeters |-> a.used[SummedMeters[n]]]
    \o [n \in DOMAIN PeakMeters |-> a.used[PeakMeters[n]]] \o <<-a.gain, Rank(p)>>
Before(s, t) == \E n \in DOMAIN s : s[n] < t[n] /\ \A m \in 1 .. n - 1 : s[m] = t[m]

\* The gates of compile_profile, in its order: the first one that fails names the rejection.
Survives(catalog, seen, items, p, request, aggregate) ==
    /\ catalog[p].eligible
    /\ "K" \in catalog[p].cost => Parity(seen, items, p)
    /\ HardGate(aggregate[p], aggregate[request.baseline], request.objective)
    /\ Preserves(seen, items, p, request.fixedMax)

-----------------------------------------------------------------------------
(* The profile and the two reports. *)

\* AmplifierProfile.__post_init__: what the profile carries is what its policy needs.
Consistent(profile) ==
    /\ ("I" \in profile.policy.evidence) <=> profile.fit
    /\ IF {"G", "H"} \subseteq profile.policy.model THEN profile.gxh /\ profile.surface
                                                  ELSE ~profile.gxh /\ ~profile.surface
    /\ IF "K" \in profile.policy.cost THEN profile.cache # "off" /\ profile.parity
                                      ELSE profile.cache = "off" /\ ~profile.parity

ProfileOf(host, split, selected, policy, evidence) ==
    LET gh == {"G", "H"} \subseteq policy.model
        k == "K" \in policy.cost
    IN [host |-> host.id, qualification |-> host, fit |-> "I" \in policy.evidence /\ host.fit,
        gxh |-> gh /\ host.gxh, surface |-> gh /\ host.surface,
        cache |-> IF k THEN host.cache ELSE "off", parity |-> k /\ host.parity,
        split |-> split, evidence |-> evidence, id |-> selected, policy |-> policy]

\* load_profile: the constructor's checks and, when the caller names one, the host's identity.
Loads(profile, host) == Consistent(profile) /\ (host # None => profile.host = host)

\* The policies that no other survivor dominates, those within the slack of the best, and the first by key.
Frontier(eligible, aggregate) ==
    {p \in eligible : ~\E q \in eligible \ {p} : Dominates(aggregate[q], aggregate[p])}
Finalists(frontier, aggregate, slack) ==
    {p \in frontier : aggregate[p].success >= Max({aggregate[q].success : q \in frontier}) - slack}
Selected(finalists, aggregate) ==
    CHOOSE p \in finalists : \A q \in finalists \ {p} :
        Before(SelectionKey(aggregate[p], p), SelectionKey(aggregate[q], q))

\* The selection of compile_profile among the executed policies: None when no policy survives, otherwise
\* the profile and what its report keeps.
Distill(request, seen) ==
    LET catalog == Catalog(request.host)
        aggregate == [p \in DOMAIN seen |-> Aggregate(seen, request.calibration, p, request.baseline)]
        eligible == {p \in DOMAIN seen : Survives(catalog, seen, request.calibration, p, request, aggregate)}
        frontier == Frontier(eligible, aggregate)
        selected == Selected(Finalists(frontier, aggregate, request.objective.slack), aggregate)
        evidence == [split |-> request.calibration, host |-> request.host, objective |-> request.objective,
                     fixedMax |-> request.fixedMax, executed |-> DOMAIN seen,
                     eligible |-> eligible, frontier |-> frontier, selected |-> selected]
    IN IF eligible = {} THEN None
       ELSE [profile |-> ProfileOf(request.host, request.calibration, selected, catalog[selected], evidence),
             report |-> [evidence |-> evidence, heldOut |-> request.heldOut]]

\* compile_profile: None when it raises.
CompileProfile(request, rows) ==
    LET catalog == Catalog(request.host)
        items == request.calibration
        run == Executed(catalog, request.baseline)
    IN IF \/ items \cap request.heldOut # {}
          \/ ~{request.baseline, request.fixedMax} \subseteq PolicyIds
          \/ ~catalog[request.fixedMax].eligible
          \/ ~Known(rows) \/ \E n \in DOMAIN rows : rows[n].item \notin items
          \/ ~Indexable(rows, run, items)
       THEN None
       ELSE Distill(request, Index(rows, run, items))

\* transfer_report: None when it raises, otherwise the verdict on the frozen profile and the rows it is about.
TransferReport(context, profile, rows) ==
    LET items == context.heldOut
        ids == {context.baseline, context.fixedMax, profile.id}
        seen == Index(rows, ids, items)
        aggregate == [p \in ids |-> Aggregate(seen, items, p, context.baseline)]
        compiled == aggregate[profile.id]
        fixedMax == aggregate[context.fixedMax]
    IN IF \/ ~ids \subseteq PolicyIds
          \/ Catalog(context.host)[profile.id] # profile.policy
          \/ ~Known(rows) \/ ~Indexable(rows, ids, items)
       THEN None
       ELSE [heldOut |-> items, profile |-> profile,
             passed |-> /\ HardGate(compiled, aggregate[context.baseline], context.objective)
                        /\ compiled.success >= Max({0, fixedMax.success - context.objective.slack})
                        /\ Preserves(seen, items, profile.id, context.fixedMax)
                        /\ ~Dominates(fixedMax, compiled)]

\* choose_hot_route: a proof spares the call only under J; K is reached only when generation remains.
HotRoute(profile, proof) ==
    IF proof /\ "J" \in profile.policy.cost
    THEN [calls |-> 0, cache |-> "off"]
    ELSE [calls |-> 1, cache |-> IF "K" \in profile.policy.cost THEN "qualified" ELSE "off"]
=============================================================================
