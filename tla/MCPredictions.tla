---------------------------- MODULE MCPredictions ----------------------------
(***************************************************************************)
(* Predictions with two workspaces and a handful of days.  Both strategies *)
(* lost money on the days they share, and are equally good there: the      *)
(* confirmation window has to decide.  The simulation of that window and   *)
(* the selection it uses are checked here too, for every cross-section of  *)
(* a few names.                                                            *)
(***************************************************************************)
EXTENDS Predictions, ConfirmWindow

CONSTANTS v, w

Days == {0, 1}

Conf(name) == [name |-> name, readable |-> TRUE, market |-> "us",
               strategy |-> <<2, 1>>, costs |-> "five_bps"]

\* The baseline's conf does not say what it trades; the snapshot's may.
MCArtifacts ==
  [x \in Workspace |->
     [confs |-> {Conf("conf_combined.yaml"), Conf(RefreshConf),
                 [Conf("conf_baseline.yaml") EXCEPT !.strategy = Absent]},
      ic |-> 3, days |-> Days,
      ir |-> [S \in SUBSET Days |-> -100], mdd |-> [S \in SUBSET Days |-> -10]]]

\* The candidate is better there.
MCConfirmIr == [x \in Workspace |-> IF x = v THEN 1 ELSE 2]

-----------------------------------------------------------------------------
CrossSections == UNION {[S -> 1 .. 2] : S \in SUBSET Symbol}

Greater(m, n) == IF m > n THEN m ELSE n

\* A rebalance sells at most NDrop names, never widens a book beyond Topk, and
\* with candidates enough to fill and turn over the book it fills it, and buys
\* nothing that ranks below what it sold (topk_dropout_holdings).
ASSUME SelectionTurnsOver ==
  \A cross \in CrossSections, held \in SUBSET Symbol :
    LET candidates == DOMAIN cross \ held
        sold == Sold(cross, held)
        bought == Bought(cross, held)
        after == Holdings(cross, held)
    IN /\ Cardinality(sold) <= NDrop
       /\ Cardinality(after) <= Greater(Topk, Cardinality(held))
       /\ Cardinality(candidates) >= NDrop + Topk - Cardinality(held) =>
            /\ Cardinality(after) >= Topk
            /\ \A s \in sold, t \in bought : Above(cross, t, s)

\* Which names are scored varies from day to day, their order does not.
Alphabetical == UNION {[S -> {1}] : S \in SUBSET Symbol}

\* Price series that begin before the window and end anywhere.
Series == {[s \in Symbol |-> 0 .. end[s]] : end \in [Symbol -> 0 .. LastDay]}

\* Every name in a book can be priced, so that a window is simulated to its end
\* unless a day has nothing to choose from or to hold; and a name that has ended
\* is in no book from that day on (confirmation_returns).
ASSUME WindowIsPriced ==
  \A closes \in Series :
    \A scores \in [FirstDay - 1 .. LastDay - 1 -> Alphabetical] :
      (ScoredHasBar(scores, closes) /\ Unbroken(closes)) =>
        LET books == Books(scores, closes)
        IN /\ \A d \in Window :
                /\ Priced(closes, books[d], d)
                /\ \A s \in TerminalExits(closes, books[d - 1], d) :
                     \A e \in d .. LastDay : s \notin books[e]
           /\ Completes(scores, closes)
                <=> \A d \in Window : DOMAIN Cross(scores, closes, d) # {} /\ books[d] # {}
=============================================================================
