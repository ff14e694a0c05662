----------------------------- MODULE MCABJournal -----------------------------
(* Finite instances of ABJournal for TLC. *)
EXTENDS ABJournal, TLC

CONSTANTS h1, h2, d1, d2, d3

OneActor  == {h1}
TwoActors == {h1, h2}
TwoImages == {d1, d2}
ThreeImages == {d1, d2, d3}

Interchangeable == Permutations(TwoActors) \union Permutations(TwoImages)
=============================================================================
