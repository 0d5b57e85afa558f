---------------------------- MODULE MCPromotion ----------------------------
(***************************************************************************)
(* Promotion with named workspaces and processes for TLC.                  *)
(***************************************************************************)
EXTENDS Promotion, TLC

CONSTANTS v, w, x, auto, cli, chat, undo, sweep

Alike == Permutations({v, w, x} \cap (Workspace \ Sota))
=============================================================================
