------------------------------ MODULE Selection ------------------------------
(***************************************************************************)
(* topk_dropout_holdings of execution/signal.py.  A cross-section is a     *)
(* function from the symbols it scores to their scores; symbols are        *)
(* numbers, in alphabetical order.                                         *)
(***************************************************************************)
EXTENDS Integers, FiniteSets

CONSTANTS
  Topk,   \* names to hold, at least 1
  NDrop   \* names to replace at most, per rebalance

ASSUME SelectionAssumption == Topk \in Nat \ {0} /\ NDrop \in Nat

\* _rank_desc: by descending score, the unscored last, ties by symbol.
Above(cross, s, t) ==
  \/ s \in DOMAIN cross /\ t \in DOMAIN cross /\ cross[s] > cross[t]
  \/ s \in DOMAIN cross /\ t \in DOMAIN cross /\ cross[s] = cross[t] /\ s < t
  \/ s \in DOMAIN cross /\ t \notin DOMAIN cross
  \/ s \notin DOMAIN cross /\ t \notin DOMAIN cross /\ s < t

\* The first n of a set under that order, and its last n.
First(cross, S, n) == {s \in S : Cardinality({t \in S : Above(cross, t, s)}) < n}
Last(cross, S, n) == {s \in S : Cardinality({t \in S : Above(cross, s, t)}) < n}

\* today: the best names not held, as many as could at most be bought.
Admitted(cross, held) ==
  First(cross, DOMAIN cross \ held, NDrop + Topk - Cardinality(held))

\* sell: the holdings at the bottom of the combined list.
Sold(cross, held) ==
  held \cap Last(cross, held \cup Admitted(cross, held), NDrop)

\* buy: the best of the admitted, up to the room the sales leave.
Bought(cross, held) ==
  First(cross, Admitted(cross, held),
        Cardinality(Sold(cross, held)) + Topk - Cardinality(held))

Holdings(cross, held) ==
  (held \ Sold(cross, held)) \cup Bought(cross, held)
=============================================================================
