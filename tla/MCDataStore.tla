---------------------------- MODULE MCDataStore ----------------------------
(***************************************************************************)
(* DataStore for TLC: two stored tickers, a dual listing c whose vendor    *)
(* history has a day the store has never seen (2), and a ticker g with a   *)
(* hole in its history.  The store ends on day 4; two days follow.         *)
(* The membership rule of the store's universes is checked here too, for   *)
(* every short price history, and so are adjustment and market series.     *)
(***************************************************************************)
EXTENDS DataStore, Membership, Series, TLC

CONSTANTS a, b, c, g, one, two, pit, alpha, beta, gold, dollar

MCPrints == (a :> {1, 3, 4, 5, 7}) @@ (b :> {1, 3, 4, 5, 7})
            @@ (c :> {1, 2, 3, 4, 5, 7}) @@ (g :> {1, 4, 5, 7})

\* c also trades on day 6, when the store's other tickers do not.
ForeignPrints == (a :> {1, 3, 4, 5, 7}) @@ (b :> {1, 3, 4, 5, 7})
                 @@ (c :> {1, 3, 4, 5, 6, 7}) @@ (g :> {1, 4, 5, 7})

\* b is halted for one day and then trades again.
HaltPrints == (a :> {1, 3, 4, 5, 7}) @@ (b :> {1, 3, 4, 7})
              @@ (c :> {1, 2, 3, 4, 5, 7}) @@ (g :> {1, 4, 5, 7})

MCNames == (one :> alpha) @@ (two :> beta)
MCRequest == {{a, c}, {b, c, g}}

\* Both threads give their universe one name, and ask for different ones.
SharedNames == (one :> alpha) @@ (two :> alpha)
PairRequest == {{a, c}, {b, c}}

-----------------------------------------------------------------------------
(* Membership *)

\* A bar that is liquid, one nobody traded, and one below the price.
Bar == {[dollar |-> 4, price |-> 1], [dollar |-> 0, price |-> 1],
        [dollar |-> 4, price |-> 0]}
Histories == UNION {[from .. to -> Bar] : from \in {1, 3}, to \in {4, 6}}

\* An evaluation that decides: the ticker's first, or one that agrees with the
\* one before it.
Decisive(bars) ==
  {d \in Evaluated(bars, MaxDay) :
     \/ d = Min(Evaluated(bars, MaxDay))
     \/ Passes(bars, d) = Passes(bars, Previous(bars, d))}

\* The hysteresis of pit_membership_spans: on every day a ticker has a bar it is
\* a member exactly when the last evaluation that decides was passed.
ASSUME LastDecisionHolds ==
  \A bars \in Histories :
    LET spans == Spans(bars, MaxDay)
        decisive == Decisive(bars)
    IN \A d \in DOMAIN bars :
         LET decided == {k \in decisive : k <= d}
         IN MemberOn(spans, d) <=> decided # {} /\ Passes(bars, Max(decided))

\* No look-ahead: what the spans say of the days up to e is what a store that
\* ends with e says.
ASSUME NoLookahead ==
  \A bars \in Histories :
    LET spans == Spans(bars, MaxDay)
    IN \A e \in DOMAIN bars :
         LET seen == Spans(Until(bars, e), e)
         IN \A d \in FirstBar(bars) .. e : MemberOn(spans, d) <=> MemberOn(seen, d)

\* Between evaluations the nightly refresh moves the ends of the spans to where
\* a generation from scratch puts them (refresh_universe_spans).
ASSUME RolledIsRegenerated ==
  \A bars \in Histories : \A e \in FirstBar(bars) .. MaxDay :
    LET was == Spans(Until(bars, e), e)
    IN \A f \in {k \in e + 1 .. MaxDay : Evaluation \cap (e + 1 .. k) = {}} :
         FollowEnd(was, LastBar(Until(bars, e)), LastBar(Until(bars, f)))
           = Spans(Until(bars, f), f)

-----------------------------------------------------------------------------
(* Adjustment *)

Events == {"split", "dividend"}
EventLists ==
  UNION {[1 .. n -> [kind : Events, date : 1 .. 5, amount : {2}]] : n \in 0 .. 2}

\* Between two bars at most one day has events, and at most one dividend.
Separate(days, events) ==
  \A x, y \in DOMAIN events :
    x # y /\ {d \in days : d < events[x].date} = {d \in days : d < events[y].date}
      => events[x].date = events[y].date /\ {events[x].kind, events[y].kind} = Events

\* Closes that fall by what each event takes from them and move for nothing else.
FallingCloses(days, events) ==
  LET close[d \in days] ==
        IF d = Min(days) THEN 16
        ELSE LET before == Max({f \in days : f < d})
                 due == {e \in DOMAIN events : before < events[e].date /\ events[e].date <= d}
                 taken == IF \E e \in due : events[e].kind = "dividend" THEN 2 ELSE 0
                 ratio == IF \E e \in due : events[e].kind = "split" THEN 2 ELSE 1
             IN (close[before] - taken) \div ratio
  IN close

\* What adjustment is for (adjustment_factors): a price that moves for splits and
\* dividends only does not move once it is adjusted, whatever days have no bar.
ASSUME AdjustedStandsStill ==
  \A days \in SUBSET (1 .. 4) \ {{}} : \A events \in EventLists :
    Separate(days, events) =>
      LET close == FallingCloses(days, events)
      IN \A d \in days :
           LET factor == Factor(close, events, d)
           IN close[d] * factor.num = close[Max(days)] * factor.den

-----------------------------------------------------------------------------
(* Market series *)

MCStartOverride == dollar :> 3

\* A print of every day, whose value is the day.
VendorSeries == {[d \in days |-> d] : days \in SUBSET (0 .. 4)}
Calendars == {days \in SUBSET (1 .. 5) : Cardinality(days) > 2}

Upto(days, e) == {d \in days : d <= e}

\* A series as a refresh reads it from a store of two tickers, one listed up to
\* day m and one from then on.
StoredSeries(calendar, series, m) ==
  LET filled == Filled(calendar, series)
  IN Overlay({Bin(filled, Upto(calendar, m)), Bin(filled, calendar \ Upto(calendar, m - 1))})

\* Series extended night by night (read_market_series, _pull_market_series,
\* _market_matrix) have on every trading day the vendor's last print, on whatever
\* day it was: those off the calendar, which no store keeps, are not missed.
ASSUME RefreshedIsRebuilt ==
  \A calendar \in Calendars : \A series \in VendorSeries :
    \A e \in {d \in calendar : Span(Upto(calendar, d), series) # {}} : \A m \in Upto(calendar, e) :
      LET stored == gold :> StoredSeries(Upto(calendar, e), Observed(series, 0, e), m)
          pulled == PullMarketSeries(stored, gold :> series, TRUE, e, Max(calendar), NoStart)
          filled == Filled(calendar, pulled[gold])
      IN /\ DOMAIN filled = Span(calendar, series)
         /\ \A d \in DOMAIN filled : filled[d] = Max(Upto(DOMAIN series, d))

\* The series of a store after nights without an answer, one for each new day.
WithoutAnswer(calendar, series, e) ==
  LET store[d \in calendar \ Upto(calendar, e - 1)] ==
        IF d = e THEN gold :> Filled(Upto(calendar, e), Observed(series, 0, e))
        ELSE LET before == Max({f \in calendar : f < d})
                 kept == PullMarketSeries(store[before], gold :> Outage, TRUE, before, d, NoStart)
             IN gold :> Filled(Upto(calendar, d), kept[gold])
  IN store

\* What was carried forward last night counts as observed today: from a store of
\* two days on no number of nights without an answer takes a series below a
\* coverage of 60 percent, although the vendor's own days soon are.
ASSUME FilledCountsAsObserved ==
  \A calendar \in Calendars : \A series \in VendorSeries :
    \A e \in {d \in calendar : Cardinality(Span(Upto(calendar, d), Observed(series, 0, d))) > 1} :
      LET store == WithoutAnswer(calendar, series, e)
      IN \A d \in {f \in calendar : f > e} :
           Buildable(Upto(calendar, d), store[Max(Upto(calendar, d - 1))][gold])

\* What --market-start may do to a series (_pull_market_series): whatever is
\* answered, its stored days keep their values, unless it is replaced by one that
\* begins earlier; and no answer makes it begin before its own start.
ASSUME StartKeepsStored ==
  \A stored \in {name :> [d \in from .. 4 |-> d] : name \in MarketField, from \in {2, 4}} :
  \A rows \in VendorSeries : \A newBars \in BOOLEAN : \A start \in {NoStart, 1} :
  \A failing \in SUBSET MarketField :
    LET answer == [name \in MarketField |->
                     IF name \in failing THEN Outage ELSE rows]
        pulled == PullMarketSeries(stored, answer, newBars, 4, 5, start)
    IN \A name \in DOMAIN pulled :
         \/ /\ name \in DOMAIN stored
            /\ DOMAIN stored[name] \subseteq DOMAIN pulled[name]
            /\ Restrict(pulled[name], DOMAIN stored[name]) = stored[name]
         \/ /\ start # NoStart /\ name \notin failing
            /\ Min(DOMAIN pulled[name]) >= IF name = dollar THEN 3 ELSE 1
            /\ name \in DOMAIN stored =>
                 Min(DOMAIN pulled[name]) < Min(DOMAIN stored[name])
=============================================================================
