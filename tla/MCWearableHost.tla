--------------------------- MODULE MCWearableHost ---------------------------
(* Finite instances of WearableHost for TLC. *)
EXTENDS WearableHost, TLC

File(id, ops, len, vector, valid) ==
  [id |-> id, ops |-> ops, len |-> len, vector |-> vector, valid |-> valid]

FusedTable == ("ped" :> [slot |-> 1, id |-> 301]) @@ ("mean" :> [slot |-> 2, id |-> 301])
FusedIds   == {"econ-undergrad", "statistics-core"}
AskedKeys  == {"ped", "fee", "tax", "vat"}

(* A pack, an update of it under the same identity, a rival that brings    *)
(* one of its keys, two that fit beside them, and files that never mount:  *)
(* broken, reserved, shadowing a fused key, too long, too wide.            *)
Files == {
  File("shop", (1 :> "fee") @@ (2 :> "tax"), 1, 0, TRUE),
  File("shop", (1 :> "tax"), 2, 0, TRUE),
  File("rival", (1 :> "fee"), 1, 1, TRUE),
  File("tools", (2 :> "vat"), 2, 1, TRUE),
  File("extra", (1 :> "duty"), 2, 0, TRUE),
  File("broken", (1 :> "x"), 1, 0, FALSE),
  File("econ-undergrad", (1 :> "y"), 1, 0, TRUE),
  File("shadow", (1 :> "ped"), 1, 0, TRUE),
  File("long", (1 :> "z"), 3, 0, TRUE),
  File("wide", (1 :> "w"), 1, 2, TRUE)}

=============================================================================
