----------------------------- MODULE MCBreaker -----------------------------
(***************************************************************************)
(* Breaker with two runs and equities of up to six: at a drawdown of 20    *)
(* per cent, four is exactly at the limit below five.  The verdict of the  *)
(* divergence check is checked here too, for every history of a few days.  *)
(***************************************************************************)
EXTENDS Breaker, Divergence

CONSTANTS r1, r2

LastDay == 4
Days == 0 .. LastDay
Backtest == [mean |-> 0, sigma |-> 1, mdd |-> 20]

\* Equities move freely, with a hole in them, and returns do not count.
Equities ==
  {[d \in Days |-> [equity |-> e[d], return |-> 0]] :
     e \in [Days -> {3, 4, 5, NoNumber}]}

\* The drawdown is that of the worst pair of a day and an earlier one.
ASSUME DrawdownIsWorstPair ==
  \A history \in Equities :
    LET days == EquityDays(history, 1, LastDay)
    IN OverLimit(history, days, Backtest)
         <=> \E c, d \in days :
               /\ c < d
               /\ 10000 * (history[c].equity - history[d].equity)
                    > Backtest.mdd * MddTolerance * history[c].equity

\* Only a new promotion ends a halt for drawdown: after it has been lifted, the
\* check of every later day halts again (run_divergence).
ASSUME DrawdownOutlastsResume ==
  \A history \in Equities, promoted \in Days, asOf, later \in Days :
    (/\ asOf <= later
     /\ OverLimit(history, EquityDays(history, promoted, asOf), Backtest)
     /\ Verdict(history, promoted, asOf, Backtest) = "halt")
      => Verdict(history, promoted, later, Backtest) = "halt"

\* What happened before the promotion is not the promoted strategy's: neither
\* the days before it nor the return of its day count (realized_daily_returns,
\* equity_since_promotion).
ASSUME EarlierDoesNotCount ==
  \A history, other \in
      {[d \in Days |-> [equity |-> IF d < 2 THEN e ELSE 5, return |-> f[d]]] :
         e \in {1, 9}, f \in [Days -> {-4, 1, NoNumber}]} :
    (\A d \in 3 .. LastDay : history[d].return = other[d].return) =>
      \A asOf \in Days :
        Verdict(history, 2, asOf, Backtest) = Verdict(other, 2, asOf, Backtest)
=============================================================================
