------------------------------- MODULE MCNews -------------------------------
(***************************************************************************)
(* News for TLC: a stored ticker a and a ticker b to be added; day 3 is no *)
(* trading day; any of the articles may exist.                             *)
(***************************************************************************)
EXTENDS News

CONSTANTS a, b

MCArticle == {[ticker |-> a, day |-> 2, late |-> "late"],
              [ticker |-> a, day |-> 3, late |-> "early"],
              [ticker |-> a, day |-> 4, late |-> "late"],
              [ticker |-> a, day |-> 5, late |-> "early"],
              [ticker |-> b, day |-> 1, late |-> "late"],
              [ticker |-> b, day |-> 4, late |-> "early"]}
=============================================================================
