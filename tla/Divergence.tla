----------------------------- MODULE Divergence -----------------------------
(***************************************************************************)
(* The verdict of the daily divergence check, run_divergence of            *)
(* execution/divergence.py: the account's returns since the promotion      *)
(* against the distribution of the promoted strategy's backtest.           *)
(*                                                                         *)
(* A history is a function from days to [equity, return], each NoNumber     *)
(* when the broker has no number for it; stats is [mean, sigma, mdd] of    *)
(* the backtest, sigma positive, or NoNumber when the workspace's artifacts *)
(* cannot be used.  Returns and mdd are in the same small unit; ratios are *)
(* in hundredths.                                                          *)
(***************************************************************************)
EXTENDS Integers, FiniteSets, FiniteSetsExt

CONSTANTS
  Haircut,       \* haircut: 50
  WarnZ,         \* -warn_z: 2
  HaltZ,         \* -halt_z: 3
  MddTolerance,  \* mdd_tolerance: 125
  WindowDays,    \* window_days: 20
  NoNumber

ASSUME DivergenceAssumption ==
  /\ Haircut \in Nat \ {0} /\ MddTolerance \in Nat \ {0}
  /\ WindowDays \in Nat \ {0}
  /\ WarnZ \in Nat /\ HaltZ \in Nat /\ WarnZ <= HaltZ
  /\ NoNumber \notin Int

\* realized_daily_returns: a return is the move since the day before, so that
\* the day of the promotion does not count.
Realized(history, promoted, asOf) ==
  {d \in DOMAIN history : promoted < d /\ d <= asOf /\ history[d].return # NoNumber}

\* equity_since_promotion: the day of the promotion is the baseline.
EquityDays(history, promoted, asOf) ==
  {d \in DOMAIN history : promoted <= d /\ d <= asOf /\ history[d].equity # NoNumber}

Trailing(days) == {d \in days : Cardinality({e \in days : e > d}) < WindowDays}

\* The excess of the window's return over the expected one, in hundredths, is
\* below -z standard deviations of a window.
Below(history, days, stats, z) ==
  LET realized == MapThenSumSet(LAMBDA d : history[d].return, Trailing(days))
      excess == 100 * realized - WindowDays * Haircut * stats.mean
  IN excess < 0 /\ excess * excess > 10000 * z * z * stats.sigma * stats.sigma * WindowDays

\* max_drawdown: the running peak of the equity.
Peak(history, days, d) == Max({0} \cup {history[e].equity : e \in {c \in days : c <= d}})

\* The drawdown since the promotion, in per cent, is over the limit: exactly at
\* it passes.
OverLimit(history, days, stats) ==
  \E d \in days :
    LET peak == Peak(history, days, d)
    IN /\ peak > 0
       /\ 10000 * (peak - history[d].equity) > stats.mdd * MddTolerance * peak

\* run_divergence and evaluate_divergence; promoted is the day of the promotion,
\* or NoNumber.
Verdict(history, promoted, asOf, stats) ==
  LET returns == Realized(history, promoted, asOf)
      equities == EquityDays(history, promoted, asOf)
  IN IF promoted = NoNumber THEN "skipped"
     ELSE IF stats = NoNumber THEN "failed"
     ELSE IF Cardinality(returns) < WindowDays THEN "warmup"
     ELSE IF Below(history, returns, stats, HaltZ) \/ OverLimit(history, equities, stats)
          THEN "halt"
     ELSE IF Below(history, returns, stats, WarnZ) THEN "warn"
     ELSE "ok"
=============================================================================
