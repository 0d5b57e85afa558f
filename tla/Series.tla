------------------------------- MODULE Series -------------------------------
(***************************************************************************)
(* What a store holds besides raw bars: the adjustment factors of          *)
(* data/adjust.py, and the market series that build_store.py writes into   *)
(* every ticker's directory and refresh.py reads back, extends and writes  *)
(* again each night.                                                       *)
(*                                                                         *)
(* Days are integers, the store's calendar a set of them.  A series is a   *)
(* function from the days it was observed on to its values; days off the   *)
(* calendar may be among them.                                             *)
(***************************************************************************)
EXTENDS Integers, FiniteSets, FiniteSetsExt, Functions

CONSTANTS
  MarketField,     \* MARKET_FIELDS: the series the vendor has a symbol for
  StartOverride,   \* MARKET_SERIES_START_OVERRIDES, for some of them
  CoverageMin,     \* MARKET_COVERAGE_MIN, in percent
  NoStart,         \* a refresh without --market-start
  Outage           \* a fetch that raises FmpError

ASSUME SeriesAssumption ==
  /\ DOMAIN StartOverride \subseteq MarketField
  /\ \A name \in DOMAIN StartOverride : StartOverride[name] \in Int
  /\ CoverageMin \in 0 .. 100
  /\ NoStart \notin Int

-----------------------------------------------------------------------------
(* Adjustment factors.  close is a function from days to raw closes, events *)
(* one from names to [kind, date, amount].                                  *)

\* The events that count: not those up to the first bar, nor those announced
\* for a day after the last one.
Counted(close, events) ==
  {e \in DOMAIN events : /\ Min(DOMAIN close) < events[e].date
                         /\ events[e].date <= Max(DOMAIN close)}

PreviousClose(close, event) == close[Max({d \in DOMAIN close : d < event.date})]

\* AdjustmentError: the build fails for all tickers.
Unadjustable(close, events) ==
  \E e \in Counted(close, events) :
    \/ events[e].kind = "split" /\ events[e].amount <= 0
    \/ events[e].kind = "dividend" /\ events[e].amount < 0
    \/ events[e].kind = "dividend" /\ PreviousClose(close, events[e]) <= events[e].amount

\* What an event multiplies the factor of the days before it by, as a fraction.
FactorStep(close, event) ==
  IF event.kind = "split" THEN [num |-> 1, den |-> event.amount]
  ELSE [num |-> PreviousClose(close, event) - event.amount,
        den |-> PreviousClose(close, event)]

Times(x, y) == [num |-> x.num * y.num, den |-> x.den * y.den]

\* adjustment_factors, on day d.
Factor(close, events, d) ==
  FoldFunctionOnSet(LAMBDA event, factor : Times(FactorStep(close, event), factor),
                    [num |-> 1, den |-> 1], events,
                    {e \in Counted(close, events) : events[e].date > d})

-----------------------------------------------------------------------------
(* A market series in a store *)

Observed(series, from, to) == Restrict(series, {d \in DOMAIN series : from <= d /\ d <= to})

LastObserved(series, d) == Max({o \in DOMAIN series : o <= d})

\* The days of the calendar the series has a value for.
Span(calendar, series) == {d \in calendar : \E o \in DOMAIN series : o <= d}

\* _market_matrix: the build fails when the series starts after the calendar, or
\* when too few days since its start have an observation of their own.
Buildable(calendar, series) ==
  /\ Span(calendar, series) # {}
  /\ 100 * Cardinality(Span(calendar, series) \cap DOMAIN series)
       >= CoverageMin * Cardinality(Span(calendar, series))

Filled(calendar, series) ==
  [d \in Span(calendar, series) |-> series[LastObserved(series, d)]]

\* build_store writes the days between a ticker's first and last bar.
Bin(filled, bars) ==
  Restrict(filled, {d \in DOMAIN filled : Min(bars) <= d /\ d <= Max(bars)})

\* read_market_series: the bins of all tickers, one over another, a NaN being no
\* value.
Overlay(bins) ==
  [d \in UNION {DOMAIN bin : bin \in bins} |->
     (CHOOSE bin \in bins : d \in DOMAIN bin)[d]]

-----------------------------------------------------------------------------
(* A refresh of the market series.  stored is a function from names to the   *)
(* series read back, answer one from names to what the vendor sends.         *)

\* market_series_start
SeriesStart(name, start) ==
  IF name \in DOMAIN StartOverride THEN Max({start, StartOverride[name]}) ELSE start

Introduce(stored, start) ==
  IF start = NoStart THEN {} ELSE MarketField \ DOMAIN stored

Deepen(stored, start) ==
  IF start = NoStart THEN {}
  ELSE {name \in MarketField \cap DOMAIN stored :
          Min(DOMAIN stored[name]) > SeriesStart(name, start)}

\* A series whose window is empty is not asked for, nor is one without a symbol.
Asked(stored, newBars, last, end, start) ==
  LET advance == IF newBars /\ last + 1 <= end
                 THEN DOMAIN stored \ Deepen(stored, start) ELSE {}
  IN {name \in MarketField \cap (advance \cup Introduce(stored, start)
                                   \cup Deepen(stored, start)) :
        name \in advance \/ SeriesStart(name, start) <= end}

Arrived(stored, answer, newBars, last, end, start) ==
  {name \in Asked(stored, newBars, last, end, start) : answer[name] # Outage}

\* The rows that arrive within the window of a series.
FreshRows(stored, answer, name, last, end, start) ==
  IF name \in DOMAIN stored \ Deepen(stored, start)
  THEN Observed(answer[name], last + 1, end)
  ELSE Observed(answer[name], SeriesStart(name, start), end)

\* Deepened in full when the answer reaches further back than the store.
Replaces(fresh, series) == DOMAIN fresh # {} /\ Min(DOMAIN fresh) < Min(DOMAIN series)

\* A series and the rows of later days.
Advanced(series, fresh) ==
  [d \in DOMAIN series \cup DOMAIN fresh |->
     IF d \in DOMAIN series THEN series[d] ELSE fresh[d]]

\* _pull_market_series: a series that could not be had stays what it was.
PullMarketSeries(stored, answer, newBars, last, end, start) ==
  LET arrived == Arrived(stored, answer, newBars, last, end, start)
      fresh(name) == FreshRows(stored, answer, name, last, end, start)
      introduced == {name \in arrived \ DOMAIN stored : DOMAIN fresh(name) # {}}
  IN [name \in DOMAIN stored \cup introduced |->
        IF name \notin arrived THEN stored[name]
        ELSE IF name \in introduced THEN fresh(name)
        ELSE IF name \notin Deepen(stored, start) THEN Advanced(stored[name], fresh(name))
        ELSE IF Replaces(fresh(name), stored[name]) THEN fresh(name)
        ELSE stored[name]]
=============================================================================
