--------------------------- MODULE EvidenceDelivery ---------------------------
(***************************************************************************)
(* A question's evidence on its way to the model: hits come from the local *)
(* index or from the host, one projection shapes them, or the host         *)
(* measures one complete tier after the other until one fits its context   *)
(* (precision_ranked_evidence_fit_v1, adapters/bridge/context_fit.py).     *)
(* The host's free context may change between two measurements, and its    *)
(* callback may raise, answer nonsense or contradict its own numbers.      *)
(***************************************************************************)
EXTENDS LegacyProjections

CONSTANTS Corpora, Pools, Queries, TopK, Budgets, ItemLimits, Tiers, TierSequences, Rooms, Reserves,
          Unreported   \* a number the host does not report

Documents == UNION Corpora \cup UNION {{pool[n].doc : n \in DOMAIN pool} : pool \in Pools}
RankedHits == [doc : Documents, score : Int, matched : Nat]
\* How many hits a corpus or a host can yield.
Sizes == {Cardinality(docs) : docs \in Corpora} \cup {Len(pool) : pool \in Pools}
\* The documents, by ordinal, that hold a term, and what the term adds to the score of one of them.
Holding(docs, t) == {d \in DOMAIN docs : t \in Terms(docs[d])}
Summand(docs, d, t) ==
    Contribution(Len(docs), Cardinality(Holding(docs, t)), Frequency(docs[d], t), Length(docs[d]))

\* A corpus has documents, each under an id of its own.  Scores and weights are numbers.
ASSUME CorpusAssumption ==
    /\ \A docs \in Corpora : /\ IsFiniteSet(docs) /\ docs # {}
                             /\ \A d \in docs : d.id \in Ids
                             /\ \A d, e \in docs : d.id = e.id => d = e
    /\ \A doc \in Documents : WellFormed(doc)
    /\ \A docs \in Corpora : LET ordered == BuildIndex(docs).documents IN
          \A d \in DOMAIN ordered : \A t \in Terms(ordered[d]) : Summand(ordered, d, t) \in Int
    /\ \A size \in Sizes : \A n \in 1 .. size : \A k \in 1 .. n : Rarity(n, k) \in Int
ASSUME HostAssumption ==
    /\ \A pool \in Pools : pool # <<>> /\ pool \in Seq(RankedHits)
    /\ \A terms \in Queries : IsFiniteSet(terms)
    /\ Budgets \subseteq Nat /\ ItemLimits \subseteq Nat \ {0} /\ TopK \subseteq Nat \ {0}
    /\ Tiers \in Seq(Nat) /\ Len(Tiers) >= 2 /\ TierSequences \subseteq Seq(Nat)

VARIABLES index,   \* the compiled corpus
          query,   \* the terms of the retrieval query
          hits,    \* the ranked hits
          room,    \* the context the host has free
          shaped,  \* the last projection: [kind, items, max, limit, rows, size]
          fit      \* the negotiation: [api, phase, tiers, next, refused, rows, size, report]
evidenceVars == <<index, query, hits, room, shaped, fit>>

Unshaped == [kind |-> "none", items |-> <<>>, max |-> 0, limit |-> 0, rows |-> <<>>, size |-> EmptyBytes]
\* A host's answer that only says whether a delivery fits.
Verdict(fits) == [fits |-> fits, tokens |-> Unreported, capacity |-> Unreported, reserved |-> Unreported]
NoFit == [api |-> "none", phase |-> "idle", tiers |-> <<>>, next |-> 1, refused |-> {}, rows |-> <<>>,
          size |-> EmptyBytes, report |-> Verdict(FALSE)]

EvidenceInit ==
    /\ index \in {BuildIndex(docs) : docs \in Corpora}
    /\ query \in Queries
    /\ hits = <<>>
    /\ room \in Rooms
    /\ shaped = Unshaped
    /\ fit = NoFit

\* search of the local index
SearchCorpus(k) ==
    /\ hits = <<>>
    /\ hits' = Search(index, query, k)
    /\ UNCHANGED <<index, query, room, shaped, fit>>

\* A pool the host ranked itself, 1 to 16 hits.
HostRanks(pool) ==
    /\ hits = <<>>
    /\ hits' = pool
    /\ UNCHANGED <<index, query, room, shaped, fit>>

\* What every projection works on, with the rarity of the corpus or of the pool.
Items(weights) == Prepared(Dedup(hits, query), query, weights)
PoolItems == Items(LocalWeights(Dedup(hits, query), query))
IndexItems == Items(IndexWeights(index, query))
Idle == hits # <<>> /\ shaped = Unshaped /\ fit = NoFit
Shape(kind, items, max, limit, result) ==
    /\ shaped' = [kind |-> kind, items |-> items, max |-> max, limit |-> limit,
                  rows |-> result.rows, size |-> result.size]
    /\ UNCHANGED <<index, query, hits, room, fit>>

\* precision-context-v5 under the adaptive or the fixed evidence policy
ShapePrecision(items, adaptive, max, limit) ==
    /\ Idle
    /\ LET kept == Dedup(hits, query)
           budgets == IF adaptive THEN BudgetSequence(AdaptiveBudget(kept, query, Tiers, max), Tiers, max) ELSE <<max>>
       IN Shape("precision", items, max, limit, Precision(items, budgets, limit))

\* On a plain index: global-snippet-v1 and, with a protected head, head-preserving-global-snippet-v2
ShapeGlobal(head, max, limit) ==
    /\ Idle
    /\ LET kept == Dedup(hits, query)
           items == GlobalOrder(IndexItems, query, head)
       IN Shape("precision", items, max, limit,
                Precision(items, BudgetSequence(AdaptiveBudget(kept, query, Tiers, max), Tiers, max), limit))

\* compact-row-v1, grouped-evidence-v2
ShapeCompact(max, perDocument) ==
    Idle /\ Shape("legacy", <<>>, max, 0, Compact(hits, query, IndexWeights(index, query), max, perDocument))

\* context-grouped-v3, on every hit without a limit
ShapeContext(max) ==
    LET items == Prepared(hits, query, IndexWeights(index, query))
    IN Idle /\ Shape("legacy", items, max, Len(hits), ContextGrouped(items, max, Len(hits), FALSE))

\* amplified-context-v4: one adaptive budget, never promoted
ShapeAmplified(max, limit) ==
    LET kept == DedupByText(hits)
        items == Prepared(kept, query, IndexWeights(index, query))
    IN Idle /\ Shape("legacy", items, max, limit,
                      ContextGrouped(items, AdaptiveBudget(kept, query, Tiers, max), limit, TRUE))

\* precision-context-v5 as the legacy module keeps it
ShapeLegacy(max, limit) ==
    LET budgets == BudgetSequence(AdaptiveBudget(Dedup(hits, query), query, Tiers, max), Tiers, max)
    IN Idle /\ Shape("legacy", IndexItems, max, limit, LegacyPrecision(IndexItems, budgets, limit))

\* multihop-coverage-v1
ShapeMultihop(items, max, limit) == Idle /\ Shape("multihop", items, max, limit, Multihop(items, max, limit))

\* host-ranked-hybrid-h1-v0
ShapeHybrid(max, full, limit, torn) ==
    /\ Idle /\ full <= limit
    /\ Shape("hybrid", PoolItems, max, limit,
             Hybrid(hits, Multihop(PoolItems, max, limit).rows, max, full, limit, torn))

\* Every tier is complete before the host is asked.  precision_ranked_evidence_fit_v1 ("flag") asks it for a bool,
\* select_fitting_delivery ("report") for a FitReport; it is offered at least one delivery.
Negotiate(api, tiers, limit) ==
    /\ Idle
    /\ LET ladder == ProjectTiers(PoolItems, tiers, limit) IN
       fit' = IF api = "report" /\ \A n \in DOMAIN ladder : ladder[n].rows = <<>>
                THEN [NoFit EXCEPT !.phase = "failed"]
                ELSE [NoFit EXCEPT !.api = api, !.phase = "measuring", !.tiers = ladder]
    /\ UNCHANGED <<index, query, hits, room, shaped>>

Candidate == fit.tiers[fit.next]
Measuring == fit.phase = "measuring" /\ fit.next <= Len(fit.tiers)

\* A tier without a row is passed over, unmeasured: the loop skips it, no delivery is made of it.
SkipTier ==
    /\ Measuring /\ Candidate.rows = <<>>
    /\ fit' = [fit EXCEPT !.next = @ + 1]
    /\ UNCHANGED <<index, query, hits, room, shaped>>

\* What the host may answer: the numbers of a FitReport are optional, and count the delivery it was given and
\* the context it has at that moment.
Reports ==
    IF fit.api = "flag" THEN {Verdict(fits) : fits \in BOOLEAN}
    ELSE [fits : BOOLEAN, tokens : {Unreported, Candidate.size}, capacity : {Unreported, room},
          reserved : {Unreported} \cup Reserves]

Reported(number) == number # Unreported
Usable(report) == report.capacity - (IF Reported(report.reserved) THEN report.reserved ELSE 0)

\* A slip: the output reserved is taken to be free for input.
IgnoresReserve(report) ==
    Reported(report.tokens) /\ Reported(report.capacity) => (report.fits <=> report.tokens <= report.capacity)
\* _validate_report: a report must not contradict the numbers it gives.
Believable(report) ==
    /\ Reported(report.capacity) /\ Reported(report.reserved) => report.reserved <= report.capacity
    /\ Reported(report.tokens) /\ Reported(report.capacity) => (report.fits <=> report.tokens <= Usable(report))

\* The host measures the candidate; a report that contradicts its own numbers ends the negotiation.
Measure ==
    /\ Measuring /\ Candidate.rows # <<>>
    /\ \E report \in Reports :
         fit' = IF ~Believable(report) THEN [NoFit EXCEPT !.phase = "failed"]
                ELSE IF report.fits
                  THEN [fit EXCEPT !.phase = "delivered", !.rows = Candidate.rows, !.size = Candidate.size,
                                   !.report = report]
                ELSE [fit EXCEPT !.next = @ + 1, !.refused = @ \cup {fit.next}]
    /\ UNCHANGED <<index, query, hits, room, shaped>>

\* The callback raises, or answers something that is no bool or no report.
MeasureFails ==
    /\ Measuring /\ Candidate.rows # <<>>
    /\ fit' = [NoFit EXCEPT !.phase = "failed"]
    /\ UNCHANGED <<index, query, hits, room, shaped>>

\* No tier is left: nothing is delivered.
GiveUp ==
    /\ fit.phase = "measuring" /\ fit.next > Len(fit.tiers)
    /\ fit' = [fit EXCEPT !.phase = "nothing"]
    /\ UNCHANGED <<index, query, hits, room, shaped>>

\* Another user of the host's context.
RoomChanges ==
    /\ fit.phase = "measuring"
    /\ \E r \in Rooms : room' = r
    /\ UNCHANGED <<index, query, hits, shaped, fit>>

EvidenceNext ==
    \/ \E k \in TopK : SearchCorpus(k)
    \/ \E pool \in Pools : HostRanks(pool)
    \/ \E items \in {PoolItems, IndexItems}, max \in Budgets, n \in ItemLimits :
          \/ \E adaptive \in BOOLEAN : ShapePrecision(items, adaptive, max, n)
          \/ ShapeMultihop(items, max, n)
    \/ \E max \in Budgets, n \in ItemLimits :
          \/ \E head \in {0, 1} : ShapeGlobal(head, max, n)
          \/ ShapeCompact(max, n) \/ ShapeContext(max) \/ ShapeAmplified(max, n) \/ ShapeLegacy(max, n)
    \/ \E max \in Budgets, full, n \in ItemLimits, torn \in 0 .. 3 : ShapeHybrid(max, full, n, torn)
    \/ \E api \in {"flag", "report"}, tiers \in TierSequences, n \in ItemLimits : Negotiate(api, tiers, n)
    \/ SkipTier \/ Measure \/ MeasureFails \/ GiveUp \/ RoomChanges

EvidenceSpec == EvidenceInit /\ [][EvidenceNext]_evidenceVars

-----------------------------------------------------------------------------
(* Properties. *)

\* A scan: every document scored against the query, better ones counted.
Held(docs, terms, d) == terms \cap Terms(docs[d])
Scanned(docs, terms, d) ==
    [ordinal |-> d, score |-> SumFunction([t \in Held(docs, terms, d) |-> Summand(docs, d, t)]),
     matched |-> Cardinality(Held(docs, terms, d))]
Better(a, b) ==
    \/ a.score > b.score
    \/ a.score = b.score /\ a.matched > b.matched
    \/ a.score = b.score /\ a.matched = b.matched /\ a.ordinal < b.ordinal

\* The search through the postings ranks exactly as scoring every document against the query would: score,
\* then matched terms, then id (grounding_corpus.py, build_index and search), and the summands compiled
\* into the binary index are those the search computes.
SearchRanksAsScan ==
    LET docs == index.documents
        scan == {Scanned(docs, query, d) : d \in DOMAIN docs}
        matching == {a \in scan : a.score > 0}
    IN \A k \in TopK :
        LET found == Search(index, query, k) IN
        /\ ValidIndex(index)
        /\ \A r \in DOMAIN found : \E a \in matching :
              /\ found[r] = Hit(docs[a.ordinal], a.score, a.matched)
              /\ Cardinality({b \in matching : Better(b, a)}) = r - 1
        /\ Len(found) = (IF Cardinality(matching) < k THEN Cardinality(matching) ELSE k)
        /\ \A t \in query \cap DOMAIN BinaryIndex(index).postings :
              \A p \in DOMAIN BinaryIndex(index).postings[t] :
                  LET row == BinaryIndex(index).postings[t][p] IN row[2] = Summand(docs, row[1], t)

\* The running byte count of every grouped projection is the length of the frame it encodes, within the
\* budget: the "byte accounting drift" errors of both projectors are unreachable.
AccountingExact ==
    /\ shaped.kind \in {"precision", "multihop"} =>
          shaped.size = PayloadBytes(shaped.rows) /\ (shaped.rows # <<>> => shaped.size <= shaped.max)
    /\ shaped.kind \in {"hybrid", "legacy"} => shaped.rows = <<>> \/ shaped.size <= shaped.max
    /\ \A n \in DOMAIN fit.tiers : fit.tiers[n].size = PayloadBytes(fit.tiers[n].rows)

\* Promotion gives up only when no row the code tries fits the whole budget: of each hit neither the span nor
\* the sentence it falls back to, which is its best scored one (the anchor) unless that opens a text of several
\* sentences: then it is the successor, and an anchor that fits may be withheld, against
\* V1_1_RUNTIME_AMPLIFIER.md:159.  A mirror is dropped only when the titles kept before it already name every
\* queried term of its own (grounding_projection.py:124-156, 257-285, 319-340).
EvidenceNotWithheld ==
    shaped.kind = "precision" =>
        /\ shaped.rows = <<>> =>
              \A n \in DOMAIN shaped.items :
                  LET item == shaped.items[n]
                      TooLong(positions) == EmptyBytes + BytesOf(Row(item, positions)) > shaped.max
                  IN /\ TooLong(item.preferred) /\ TooLong(<<Fallback(item)>>)
                     /\ item.anchor # 1 \/ Len(item.hit.doc.sentences) = 1 => TooLong(<<item.anchor>>)
        /\ \A n \in DOMAIN hits : \A t \in Relevant(hits[n], query) :
              \E m \in 1 .. n : /\ hits[m].doc.body = hits[n].doc.body /\ t \in Relevant(hits[m], query)
                                /\ \E k \in DOMAIN Dedup(hits, query) : Dedup(hits, query)[k] = hits[m]

\* Every document the coverage pass admits is still shown, in rank order and with its own sentence, after the
\* context pass has spent the bytes left over ("an admitted document is never evicted").
CoverageIsKept ==
    shaped.kind = "multihop" =>
        LET covered == Coverage(shaped.items, shaped.max, shaped.limit).rows IN
            /\ Len(covered) = Len(shaped.rows)
            /\ \A r \in DOMAIN covered : /\ shaped.rows[r].hit = covered[r].hit
                                         /\ \E p \in DOMAIN shaped.rows[r].positions :
                                                shaped.rows[r].positions[p] = covered[r].positions[1]

\* What is delivered is one whole tier that the host accepted, every larger tier with evidence had been measured
\* and refused before, and where the host reported its count and its capacity the tier fits what that capacity
\* leaves beside the reserved output.  A host that reports no numbers is taken at its word
\* (precision_ranked_evidence_fit_v1, select_fitting_delivery).
DeliveredFitted ==
    fit.phase = "delivered" =>
        /\ fit.rows = Candidate.rows /\ fit.size = Candidate.size /\ fit.report.fits
        /\ \A n \in 1 .. fit.next - 1 : fit.tiers[n].rows = <<>> \/ n \in fit.refused
        /\ Reported(fit.report.tokens) /\ Reported(fit.report.capacity) => fit.size <= Usable(fit.report)

=============================================================================
