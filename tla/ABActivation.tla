---------------------------- MODULE ABActivation ----------------------------
(***************************************************************************)
(* What the activation journal promises the host of a wearable device: one *)
(* atomic register.  It names the image being served and, while a release  *)
(* is provisional, the image a rollback returns to.  Crashes, I/O errors   *)
(* and torn records are invisible here: a change either happens whole, one *)
(* generation later, or does not happen.                                   *)
(***************************************************************************)
EXTENDS Naturals

CONSTANTS
  Images,    \* the complete images that can be activated
  NoImage    \* no image: nothing provisioned, or nothing retained

VARIABLES
  generation,  \* 0 until provisioned, then the number of the last change
  slot,        \* where the served image lives
  serving,     \* the image that is active
  retained     \* the image kept for rollback, or NoImage

vars == <<generation, slot, serving, retained>>

Init ==
  /\ generation = 0
  /\ slot = 0
  /\ serving = NoImage
  /\ retained = NoImage

Provision ==
  /\ generation = 0
  /\ generation' = 1
  /\ slot' \in {0, 1}
  /\ serving' \in Images
  /\ retained' = NoImage

(* The other slot's image is served; the one served so far is retained.    *)
Activate ==
  /\ generation # 0
  /\ retained = NoImage
  /\ generation' = generation + 1
  /\ slot' = 1 - slot
  /\ serving' \in Images
  /\ retained' = serving

Accept ==
  /\ retained # NoImage
  /\ generation' = generation + 1
  /\ retained' = NoImage
  /\ UNCHANGED <<slot, serving>>

Rollback ==
  /\ retained # NoImage
  /\ generation' = generation + 1
  /\ slot' = 1 - slot
  /\ serving' = retained
  /\ retained' = NoImage

Next == Provision \/ Activate \/ Accept \/ Rollback

Spec == Init /\ [][Next]_vars
=============================================================================
