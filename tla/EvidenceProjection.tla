------------------------- MODULE EvidenceProjection -------------------------
(***************************************************************************)
(* Bounded evidence: the local corpus index and its search                 *)
(* (tools/grounding_corpus.py) and the projections that turn ranked hits   *)
(* into at most max_bytes of evidence (tools/grounding_projection.py and   *)
(* its index-free copy adapters/bridge/ranked_hits.py).  Pure operators.   *)
(*                                                                         *)
(* A document is [id, title, body, sentences]: title and each sentence's   *)
(* terms are sets of terms, body identifies the text (its hash), and a     *)
(* sentence is [sig, terms, size] with sig its token signature, not empty. *)
(* A query is its set of terms.  Scores are integers: Contribution stands  *)
(* for one BM25 summand and Rarity for one IDF weight.  Text is counted in *)
(* bytes.                                                                  *)
(***************************************************************************)
EXTENDS Integers, Sequences, FiniteSetsExt

CONSTANTS Contribution(_, _, _, _), \* of one term: documents, document frequency, frequency, length
          Rarity(_, _),             \* of one term: documents, document frequency
          IdOrder,                  \* document ids, as their UTF-8 bytes compare
          EmptyBytes, RowBytes      \* the envelope around no row, around one row

Ids == {IdOrder[n] : n \in DOMAIN IdOrder}
ASSUME FrameAssumption ==
    /\ EmptyBytes \in Nat /\ RowBytes \in Nat
    /\ IdOrder \in Seq(Ids) /\ \A m, n \in DOMAIN IdOrder : IdOrder[m] = IdOrder[n] => m = n
IdRank(id) == CHOOSE n \in DOMAIN IdOrder : IdOrder[n] = id
\* The elements of S in the order of R, a set of pairs.
Ranked(S, R) == [r \in 1 .. Cardinality(S) |-> CHOOSE x \in S : Cardinality({y \in S : <<y, x>> \in R}) = r - 1]
Ascending(S) == Ranked(S, {p \in S \X S : p[1] < p[2]})
\* The elements of s at the indices in keep, in order.
Pick(s, keep) == LET order == Ascending(keep) IN [r \in DOMAIN order |-> s[order[r]]]

-----------------------------------------------------------------------------
(* The corpus. *)

Terms(doc) == doc.title \cup UNION {doc.sentences[n].terms : n \in DOMAIN doc.sentences}
Frequency(doc, term) ==
    (IF term \in doc.title THEN 1 ELSE 0)
    + Cardinality({n \in DOMAIN doc.sentences : term \in doc.sentences[n].terms})
\* The shape the corpus loader insists on: a document has a sentence, and text has a length.
WellFormed(doc) ==
    /\ IsFiniteSet(doc.title)
    /\ doc.sentences # <<>> /\ doc.sentences \in Seq({doc.sentences[n] : n \in DOMAIN doc.sentences})
    /\ \A n \in DOMAIN doc.sentences : IsFiniteSet(doc.sentences[n].terms) /\ doc.sentences[n].size \in Nat
Length(doc) == SumFunction([t \in Terms(doc) |-> Frequency(doc, t)])

\* build_index: documents in the order of their ids, and per term the ordinals that hold it, ascending.
BuildIndex(docs) ==
    LET ids == {d.id : d \in docs}
        inOrder == Pick(IdOrder, {n \in DOMAIN IdOrder : IdOrder[n] \in ids})
        ordered == [n \in DOMAIN inOrder |-> CHOOSE d \in docs : d.id = inOrder[n]]
        Posting(t) == [n \in DOMAIN ordered |-> <<n, Frequency(ordered[n], t)>>]
    IN [documents |-> ordered,
        lengths |-> [n \in DOMAIN ordered |-> Length(ordered[n])],
        postings |-> [t \in UNION {Terms(d) : d \in docs} |->
                          Pick(Posting(t), {n \in DOMAIN ordered : Frequency(ordered[n], t) > 0})]]

\* validate_index: ids unique, counts recomputed from the text, postings ascending and in range.
ValidIndex(index) ==
    /\ index.documents # <<>>
    /\ \A m, n \in DOMAIN index.documents : m # n => index.documents[m].id # index.documents[n].id
    /\ \A n \in DOMAIN index.documents : index.lengths[n] = Length(index.documents[n])
    /\ \A t \in DOMAIN index.postings :
          LET rows == index.postings[t] IN
          \A n \in DOMAIN rows : /\ rows[n][1] \in DOMAIN index.documents /\ rows[n][2] > 0
                                 /\ n > 1 => rows[n - 1][1] < rows[n][1]

\* The key of heapq.nsmallest: score, matched terms, id.
RankedBefore(index, a, b) ==
    \/ a.score > b.score
    \/ a.score = b.score /\ a.matched > b.matched
    \/ a.score = b.score /\ a.matched = b.matched
       /\ IdRank(index.documents[a.ordinal].id) < IdRank(index.documents[b.ordinal].id)

Hit(doc, score, matched) == [doc |-> doc, score |-> score, matched |-> matched]

\* search: accumulate over the postings of the query's terms, keep the best topK with a positive score.
Search(index, query, topK) ==
    LET found == query \cap DOMAIN index.postings
        n == Len(index.documents)
        Rows(t) == {index.postings[t][k] : k \in DOMAIN index.postings[t]}
        Of(d) == {c \in found \X (UNION {Rows(t) : t \in found}) : c[2] \in Rows(c[1]) /\ c[2][1] = d}
        reached == {r[1] : r \in UNION {Rows(t) : t \in found}}
        Score(d) == SumFunction([c \in Of(d) |->
                        Contribution(n, Len(index.postings[c[1]]), c[2][2], index.lengths[d])])
        scored == {[ordinal |-> d, score |-> Score(d), matched |-> Cardinality(Of(d))] : d \in reached}
        positive == {a \in scored : a.score > 0}
        ranked == Ranked(positive, {p \in positive \X positive : RankedBefore(index, p[1], p[2])})
    IN [k \in 1 .. Min({topK, Len(ranked)}) |->
            Hit(index.documents[ranked[k].ordinal], ranked[k].score, ranked[k].matched)]

\* A slip: the length at the row's place in its list instead of its document's.
BinaryIndexByRow(index) ==
    [documents |-> index.documents,
     postings |-> [t \in DOMAIN index.postings |-> [k \in DOMAIN index.postings[t] |->
         <<index.postings[t][k][1],
           Contribution(Len(index.documents), Len(index.postings[t]), index.postings[t][k][2], index.lengths[k])>>]]]
\* binary_index_bytes and the native search over it: the summands computed once, when the index is compiled.
BinaryIndex(index) ==
    [documents |-> index.documents,
     postings |-> [t \in DOMAIN index.postings |-> [k \in DOMAIN index.postings[t] |->
         <<index.postings[t][k][1],
           Contribution(Len(index.documents), Len(index.postings[t]), index.postings[t][k][2],
                        index.lengths[index.postings[t][k][1]])>>]]]

-----------------------------------------------------------------------------
(* Preparing ranked hits. *)

Relevant(hit, query) == hit.doc.title \cap query

\* _query_aware_exact_dedup: a later mirror of a body is dropped unless its title adds a queried term.
Dedup(hits, query) ==
    LET Mirrors(n) == {m \in 1 .. n - 1 : hits[m].doc.body = hits[n].doc.body}
    IN Pick(hits, {n \in DOMAIN hits : \/ Mirrors(n) = {}
                      \/ ~Relevant(hits[n], query) \subseteq UNION {Relevant(hits[m], query) : m \in Mirrors(n)}})

\* _projection_term_weights with an index: rarity in the corpus.
IndexWeights(index, query) ==
    [t \in query |-> IF t \in DOMAIN index.postings THEN Rarity(Len(index.documents), Len(index.postings[t])) ELSE 0]
\* _candidate_local_weights: without one, rarity in the supplied pool.
LocalWeights(hits, query) ==
    LET holding == [t \in query |-> Cardinality({n \in DOMAIN hits : t \in Terms(hits[n].doc)})]
    IN [t \in query |-> IF holding[t] = 0 THEN 0 ELSE Rarity(Len(hits), holding[t])]

\* Sentences by their score, the earlier of two equals first.
ScoredBefore(sentences, query, weights, p, q) ==
    LET Score(n) == SumFunction([t \in sentences[n].terms \cap query |-> weights[t]])
    IN Score(p) > Score(q) \/ (Score(p) = Score(q) /\ p < q)

\* _prepare_projection_hits, prepare_ranked_hits: the best scored, earliest sentence and its neighbour.
Prepare(hit, query, weights) ==
    LET sentences == hit.doc.sentences
        anchor == CHOOSE p \in DOMAIN sentences :
                      \A q \in DOMAIN sentences \ {p} : ScoredBefore(sentences, query, weights, p, q)
    IN [hit |-> hit, anchor |-> anchor, identity |-> Relevant(hit, query),
        preferred |-> IF Len(sentences) = 1 THEN <<anchor>>
                      ELSE IF anchor = 1 THEN <<1, 2>> ELSE <<anchor - 1, anchor>>]
Prepared(hits, query, weights) == [n \in DOMAIN hits |-> Prepare(hits[n], query, weights)]

\* select_adaptive_evidence_budget_v1: a small tier only when the first hit covers the query and stands apart.
AdaptiveBudget(hits, query, tiers, max) ==
    LET alone == Len(hits) = 1 \/ hits[2].score = 0
        Apart(num, den) == alone \/ hits[1].score * den >= num * hits[2].score
    IN IF hits = <<>> THEN Min({max, tiers[1]})
       ELSE IF query = {} \/ hits[1].score = 0 THEN max
       ELSE IF hits[1].matched >= Cardinality(query) /\ Apart(3, 2) THEN Min({max, tiers[1]})
       ELSE IF 5 * hits[1].matched >= 3 * Cardinality(query) /\ Apart(23, 20) THEN Min({max, tiers[2]})
       ELSE max

\* A slip: the selected tier alone, so that evidence too long for it is never promoted.
NoPromotion(selected, tiers, max) == <<selected>>
\* _adaptive_budget_sequence
BudgetSequence(selected, tiers, max) ==
    LET middle == Pick(tiers, {n \in DOMAIN tiers : selected < tiers[n] /\ tiers[n] < max})
    IN <<selected>> \o middle \o (IF selected = max THEN <<>> ELSE <<max>>)

-----------------------------------------------------------------------------
(* Rows.  A row shows some sentences of one hit; its bytes include the title or the id. *)

Row(item, positions) == [hit |-> item.hit, positions |-> positions]
BytesOf(row) ==
    RowBytes + SumFunction([n \in DOMAIN row.positions |-> row.hit.doc.sentences[row.positions[n]].size])
    + Len(row.positions) - 1
\* json.dumps of the whole frame: the rows and the commas between them.
PayloadBytes(rows) ==
    EmptyBytes + SumFunction([n \in DOMAIN rows |-> BytesOf(rows[n])]) + (IF rows = <<>> THEN 0 ELSE Len(rows) - 1)
Sig(item, p) == item.hit.doc.sentences[p].sig
Context(item, p) == <<Sig(item, p), item.identity>>
Fits(acc, row, max) == acc.size + BytesOf(row) + (IF acc.rows = <<>> THEN 0 ELSE 1) <= max
\* The sentence a row falls back to: preferred[-1], which is the anchor unless the anchor opens its text.
Fallback(item) == item.preferred[Len(item.preferred)]
NoRows == [rows |-> <<>>, size |-> EmptyBytes, seen |-> {}]

\* A slip: the comma between rows not counted.
AdmitUncounted(acc, row, contexts) ==
    [rows |-> Append(acc.rows, row), size |-> acc.size + BytesOf(row), seen |-> acc.seen \cup contexts]
Admit(acc, row, contexts) ==
    [rows |-> Append(acc.rows, row), size |-> acc.size + BytesOf(row) + (IF acc.rows = <<>> THEN 0 ELSE 1),
     seen |-> acc.seen \cup contexts]

\* _project_prepared_at_budget, project_prepared: per hit the preferred span, else its anchor alone, else nothing.
ProjectStep(acc, item, max, maxItems) ==
    LET shown == {Context(item, item.preferred[n]) : n \in DOMAIN item.preferred}
        span == Row(item, item.preferred)
        single == Row(item, <<Fallback(item)>>)
    IN IF Len(acc.rows) >= maxItems \/ shown \subseteq acc.seen THEN acc
       ELSE IF Fits(acc, span, max) THEN Admit(acc, span, shown)
       ELSE IF Fits(acc, single, max) THEN Admit(acc, single, {Context(item, Fallback(item))})
       ELSE acc
ProjectAtBudget(prepared, max, maxItems) ==
    LET run[n \in 0 .. Len(prepared)] ==
            IF n = 0 THEN NoRows ELSE ProjectStep(run[n - 1], prepared[n], max, maxItems)
    IN run[Len(prepared)]

\* project_prepared and project_tiers, the bridge's copy: every tier complete, the largest first.
ProjectPrepared(prepared, max, maxItems) == ProjectAtBudget(prepared, max, maxItems)
ProjectTiers(prepared, tiers, maxItems) ==
    [n \in DOMAIN tiers |-> ProjectPrepared(prepared, tiers[n], maxItems)]

\* precision_context_evidence_projection_v5: the first budget of the sequence that yields a row.
Precision(prepared, budgets, maxItems) ==
    LET At(n) == ProjectAtBudget(prepared, budgets[n], maxItems)
        n == CHOOSE n \in DOMAIN budgets :
                 /\ \A m \in 1 .. n - 1 : At(m).rows = <<>>
                 /\ n = Len(budgets) \/ At(n).rows # <<>> \/ prepared = <<>>
    IN At(n)

\* A slip: the last row gives way when the context does not fit.
ExpandByEviction(acc, item, n, max) ==
    IF n \notin DOMAIN acc.rows \/ Len(item.preferred) = 1 THEN acc
    ELSE LET row == Row(item, item.preferred)
             delta == BytesOf(row) - BytesOf(acc.rows[n])
         IN IF acc.size + delta <= max THEN [acc EXCEPT !.rows[n] = row, !.size = @ + delta]
            ELSE [acc EXCEPT !.rows = SubSeq(@, 1, Len(@) - 1)]
\* The context pass: a covered document is enlarged if the leftover bytes allow it.
Expand(acc, item, n, max) ==
    LET row == Row(item, item.preferred)
        delta == BytesOf(row) - BytesOf(acc.rows[n])
    IN IF Len(item.preferred) = 1 \/ acc.size + delta > max THEN acc
       ELSE [rows |-> [acc.rows EXCEPT ![n] = row], size |-> acc.size + delta, seen |-> acc.seen, items |-> acc.items]

\* multihop_coverage_evidence_projection_v1: one anchor per hit first, then context for those admitted.
CoverageStep(acc, item, max, maxItems) ==
    LET row == Row(item, <<Fallback(item)>>)
        context == Context(item, Fallback(item))
        admitted == Admit(acc, row, {context})
    IN IF Len(acc.rows) >= maxItems \/ context \in acc.seen \/ ~Fits(acc, row, max) THEN acc
       ELSE [rows |-> admitted.rows, size |-> admitted.size, seen |-> admitted.seen, items |-> Append(acc.items, item)]
Coverage(prepared, max, maxItems) ==
    LET run[n \in 0 .. Len(prepared)] ==
            IF n = 0 THEN [rows |-> <<>>, size |-> EmptyBytes, seen |-> {}, items |-> <<>>]
            ELSE CoverageStep(run[n - 1], prepared[n], max, maxItems)
    IN run[Len(prepared)]
Multihop(prepared, max, maxItems) ==
    LET covered == Coverage(prepared, max, maxItems)
        run[n \in 0 .. Len(covered.items)] ==
            IF n = 0 THEN covered ELSE Expand(run[n - 1], covered.items[n], n, max)
    IN run[Len(covered.items)]

-----------------------------------------------------------------------------
(* project_host_ranked_hybrid_h1: the first documents in full, later hits by their snippet. *)

\* snippet_by_id: keyed by the hit's id; the coverage pass writes it first, the context pass again.
SnippetOf(rows, hit) ==
    LET of == {n \in DOMAIN rows : rows[n].hit.doc.id = hit.doc.id}
        enlarged == {n \in of : Len(rows[n].positions) > 1}
    IN IF of = {} THEN Row([hit |-> hit], <<>>) ELSE rows[Max(IF enlarged # {} THEN enlarged ELSE of)]

\* _append_utf8_bounded: text is cut at the limit, up to three bytes earlier if the limit splits a character.
AppendBounded(size, bytes, max, torn) ==
    IF size + bytes <= max THEN size + bytes ELSE IF max - torn > size THEN max - torn ELSE size

HybridStep(acc, row, max, torn) ==
    LET size == AppendBounded(acc.size, BytesOf(row), max, torn)
    IN IF acc.size >= max \/ row.positions = <<>> \/ size = acc.size THEN acc
       ELSE [rows |-> Append(acc.rows, row), size |-> size]
Hybrid(hits, rows, max, full, maxItems, torn) ==
    LET Shown(n) == IF n <= full THEN Row([hit |-> hits[n]], [p \in DOMAIN hits[n].doc.sentences |-> p])
                    ELSE SnippetOf(rows, hits[n])
        last == Min({maxItems, Len(hits)})
        run[n \in 0 .. last] ==
            IF n = 0 THEN [rows |-> <<>>, size |-> EmptyBytes] ELSE HybridStep(run[n - 1], Shown(n), max, torn)
    IN run[last]
=============================================================================
