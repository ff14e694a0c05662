---------------------------- MODULE PackService ----------------------------
(***************************************************************************)
(* What the wearable reference host promises a product: packs are gathered *)
(* one at a time while installing, every set gathered could be served, and *)
(* from the moment it serves until it starts over the set does not change. *)
(***************************************************************************)
EXTENDS Naturals

CONSTANTS
  Packs,          \* the packs there are
  Servable(_)     \* the sets of packs that may be served together

VARIABLES
  phase,          \* "off", "installing" or "serving"
  installed       \* the packs gathered

vars == <<phase, installed>>

Init == phase = "off" /\ installed = {}

(* A fresh start, from any state: empty, installing or already serving the *)
(* built-in operations alone.                                              *)
Start == phase' \in {"installing", "serving"} /\ installed' = {}

Install(p) ==
  /\ phase = "installing"
  /\ p \notin installed
  /\ Servable(installed \union {p})
  /\ installed' = installed \union {p}
  /\ UNCHANGED phase

Remove(p) ==
  /\ phase = "installing"
  /\ p \in installed
  /\ installed' = installed \ {p}
  /\ UNCHANGED phase

Serve ==
  /\ phase = "installing"
  /\ installed # {}
  /\ phase' = "serving"
  /\ UNCHANGED installed

Next == Start \/ Serve \/ \E p \in Packs : Install(p) \/ Remove(p)

Spec == Init /\ [][Next]_vars
=============================================================================
