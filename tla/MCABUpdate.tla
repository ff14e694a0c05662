----------------------------- MODULE MCABUpdate -----------------------------
(* Finite instances of ABUpdate for TLC. *)
EXTENDS ABUpdate, TLC

CONSTANTS h1, d1, d2, d3

OneActor    == {h1}
TwoImages   == {d1, d2}
ThreeImages == {d1, d2, d3}
=============================================================================
