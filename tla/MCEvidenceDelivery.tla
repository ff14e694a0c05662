-------------------------- MODULE MCEvidenceDelivery --------------------------
(* Seven small documents: a mirror, an edition in three sentences, two whose  *)
(* first sentence answers, one of them before a long one, a long one and one *)
(* that only its title matches.                                              *)
EXTENDS EvidenceDelivery, TLC

MCContribution(n, df, f, length) == 1 + (12 * (n - df + 1) * f) \div (f + length)
MCRarity(n, df) == n - df + 1
MCIdOrder == <<"doc-1", "doc-2", "doc-3", "doc-4", "doc-5", "doc-6", "doc-7">>

Sentence(sig, terms, size) == [sig |-> sig, terms |-> terms, size |-> size]
Doc(id, title, body, sentences) == [id |-> id, title |-> title, body |-> body, sentences |-> sentences]
Story == <<Sentence("s1", {"b"}, 1), Sentence("s2", {"a", "b"}, 2)>>
D1 == Doc("doc-1", {"a"}, "story", Story)
D2 == Doc("doc-2", {"c"}, "story", Story)
D3 == Doc("doc-3", {}, "edition", <<Sentence("s3", {"c"}, 2), Sentence("s4", {"b", "c"}, 3), Sentence("s2", {"a", "b"}, 2)>>)
D4 == Doc("doc-4", {"a", "b"}, "opening", <<Sentence("s6", {"a", "b", "c"}, 3), Sentence("s7", {"d"}, 1)>>)
D5 == Doc("doc-5", {}, "long", <<Sentence("s8", {"a", "c"}, 9)>>)
D6 == Doc("doc-6", {"b"}, "other", <<Sentence("s9", {"d"}, 2), Sentence("s2", {"a", "b"}, 2)>>)
D7 == Doc("doc-7", {}, "lead", <<Sentence("s10", {"a", "c"}, 2), Sentence("s11", {"d"}, 18)>>)

MCCorpora == {{D1, D2, D3}, {D1, D4, D5, D6}, {D2, D3, D4, D5, D6}}
Listed(docs) == [n \in DOMAIN docs |-> Hit(docs[n], 10 - 3 * n, IF n = 1 THEN 2 ELSE 1)]
MCPools == {Listed(<<D5>>), Listed(<<D1, D2>>), Listed(<<D3, D1, D6>>), Listed(<<D4, D2, D1>>),
            Listed(<<D6, D3, D4>>), Listed(<<D5, D5>>), Listed(<<D7>>)}
MCQueries == {{"a"}, {"a", "b"}, {"b", "c"}, {"a", "b", "c"}}
MCTiers == <<7, 11, 20>>
MCTierSequences == {<<20, 12, 7>>, <<12, 5>>}
=============================================================================
