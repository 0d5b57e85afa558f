---------------------------- MODULE MCApprovals ----------------------------
(***************************************************************************)
(* Approvals with two requests, one click, one failed call and one         *)
(* restart; the web UI decides beside the click.                           *)
(***************************************************************************)
EXTENDS Approvals

CONSTANTS order, transfer, one
=============================================================================
