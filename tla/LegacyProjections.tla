--------------------------- MODULE LegacyProjections ---------------------------
(***************************************************************************)
(* The projections kept beside the selected one: for rollback              *)
(* (tools/grounding_projection_legacy.py) and as experiments               *)
(* (tools/grounding_projection_experiments.py).  Pure operators.           *)
(*                                                                         *)
(* compact-row-v1 and grouped-evidence-v2 differ in the envelope of a row, *)
(* which RowBytes stands for.  The legacy code encodes all rows each time  *)
(* where the selected projection counts.                                   *)
(***************************************************************************)
EXTENDS EvidenceProjection

Encoded(rows) == [rows |-> rows, size |-> PayloadBytes(rows)]

\* The first of the alternative rows that fits is appended.
AppendFirstFit(rows, alternatives, max) ==
    LET fits == {n \in DOMAIN alternatives : PayloadBytes(Append(rows, alternatives[n])) <= max}
    IN IF fits = {} THEN rows ELSE Append(rows, alternatives[Min(fits)])

\* dedupe_retrieval_hits_v1: mirrors are dropped whatever their titles.
DedupByText(hits) ==
    Pick(hits, {n \in DOMAIN hits : \A m \in 1 .. n - 1 : hits[m].doc.body # hits[n].doc.body})

\* _compact_projection: the first sentence and the best of the others, else the first alone.
CompactChosen(sentences, query, weights, perDocument) ==
    LET others == DOMAIN sentences \ {1}
        ranked == Ranked(others, {p \in others \X others : ScoredBefore(sentences, query, weights, p[1], p[2])})
    IN Ascending({1} \cup {ranked[n] : n \in 1 .. Min({perDocument - 1, Len(ranked)})})
CompactStep(rows, hit, query, weights, max, perDocument) ==
    AppendFirstFit(rows, <<Row([hit |-> hit], CompactChosen(hit.doc.sentences, query, weights, perDocument)),
                           Row([hit |-> hit], <<1>>)>>, max)
Compact(hits, query, weights, max, perDocument) ==
    LET run[n \in 0 .. Len(hits)] ==
            IF n = 0 THEN <<>> ELSE CompactStep(run[n - 1], hits[n], query, weights, max, perDocument)
    IN Encoded(run[Len(hits)])

\* _context_grouped_projection: the best sentence and its predecessor or nothing; v3 keeps repeats, v4 drops them.
ContextStep(acc, item, max, limit, suppress) ==
    LET span == IF item.anchor = 1 THEN <<1>> ELSE <<item.anchor - 1, item.anchor>>
        shown == {Sig(item, p) : p \in Range(span)}
        rows == AppendFirstFit(acc.rows, <<Row(item, span)>>, max)
    IN IF Len(acc.rows) >= limit \/ (suppress /\ shown \subseteq acc.seen) THEN acc
       ELSE [rows |-> rows, seen |-> IF rows = acc.rows THEN acc.seen ELSE acc.seen \cup shown]
ContextGrouped(items, max, limit, suppress) ==
    LET run[n \in 0 .. Len(items)] ==
            IF n = 0 THEN [rows |-> <<>>, seen |-> {}] ELSE ContextStep(run[n - 1], items[n], max, limit, suppress)
    IN Encoded(run[Len(items)].rows)

\* The legacy _precision_context_projection: it falls back to the anchor, and a repeat is one whatever its title.
LegacyStep(acc, item, max, limit) ==
    LET Sigs(positions) == {Sig(item, p) : p \in Range(positions)}
        rows == AppendFirstFit(acc.rows, <<Row(item, item.preferred), Row(item, <<item.anchor>>)>>, max)
    IN IF Len(acc.rows) >= limit \/ Sigs(item.preferred) \subseteq acc.seen \/ rows = acc.rows THEN acc
       ELSE [rows |-> rows, seen |-> acc.seen \cup Sigs(rows[Len(rows)].positions)]
LegacyAtBudget(items, max, limit) ==
    LET run[n \in 0 .. Len(items)] ==
            IF n = 0 THEN [rows |-> <<>>, seen |-> {}] ELSE LegacyStep(run[n - 1], items[n], max, limit)
    IN Encoded(run[Len(items)].rows)
\* The legacy precision_context_evidence_projection_v5
LegacyPrecision(items, budgets, limit) ==
    LET n == CHOOSE n \in DOMAIN budgets :
                 /\ \A m \in 1 .. n - 1 : LegacyAtBudget(items, budgets[m], limit).rows = <<>>
                 /\ n = Len(budgets) \/ LegacyAtBudget(items, budgets[n], limit).rows # <<>>
    IN LegacyAtBudget(items, budgets[n], limit)

\* _global_prepared_rank: what would be shown alone, then the title, then the retrieval rank.  It hands the index
\* to _sentence_score_terms in place of the weights: every sentence scores 0, and a compiled index raises.
GlobalRank(items, query) ==
    LET Key(n) ==
            LET item == items[n]
                shown == item.hit.doc.sentences[Fallback(item)].terms
            IN <<-Cardinality(shown \cap query), -Cardinality(item.identity), -item.hit.matched,
                 -item.hit.score, BytesOf(Row(item, <<Fallback(item)>>)), n>>
        Before(s, t) == \E k \in DOMAIN s : s[k] < t[k] /\ \A j \in 1 .. k - 1 : s[j] = t[j]
        ranked == Ranked(DOMAIN items, {p \in (DOMAIN items) \X (DOMAIN items) : Before(Key(p[1]), Key(p[2]))})
    IN [n \in DOMAIN ranked |-> items[ranked[n]]]

\* global_snippet v1 (head = 0), head_preserving_global_snippet v2: only the tail competes again.
GlobalOrder(items, query, head) ==
    LET h == Min({head, Len(items)})
    IN SubSeq(items, 1, h) \o GlobalRank(SubSeq(items, h + 1, Len(items)), query)
=============================================================================
