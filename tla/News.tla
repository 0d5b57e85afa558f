-------------------------------- MODULE News --------------------------------
(***************************************************************************)
(* News counts: the archive of data/build_news.py (one file per ticker and *)
(* publication date), the checkpoint that says up to which date a ticker's *)
(* archive is fully fetched, the backfill command, and the $news_ct_1d     *)
(* series of the store, which refresh_store introduces once from the       *)
(* archive and appends to every night.                                     *)
(*                                                                         *)
(* Abstraction: an article is its ticker, its publication date and whether *)
(* it ran after the 16:00 cutoff.  Every window starts at day 1.  The      *)
(* vendor has all articles of a date once that date is over.  A ticker's   *)
(* bars are the trading days up to its last one.                           *)
(***************************************************************************)
EXTENDS Naturals, FiniteSets, FiniteSetsExt

CONSTANTS
  Ticker,      \* symbols of the store, or to be added
  Listed,      \* those the store holds at the start
  MaxDay,      \* bound on the dates of one behaviour
  TradingDays, \* the days with bars
  FirstDay,    \* the store's last day at the start
  Article,     \* articles the vendor may serve: [ticker, day, late]
  Refetch      \* may the backfill run again over a window it has fetched?

Day == 1 .. MaxDay
NaN == Cardinality(Article) + 1

ASSUME NewsAssumption ==
  /\ MaxDay \in Nat \ {0}
  /\ Listed \subseteq Ticker /\ Listed # {}
  /\ TradingDays \subseteq Day /\ FirstDay \in TradingDays
  /\ Article \subseteq [ticker : Ticker, day : Day, late : {"late", "early"}]
  /\ IsFiniteSet(Article)
  /\ Refetch \in BOOLEAN

VARIABLES
  day,         \* yesterday: the last settled date
  feed,        \* the articles there are (fixed in a behaviour)
  archive,     \* archive/<SYM>/*.json: the articles on disk
  window,      \* checkpoints/<SYM>.json: the end of the window, 0 for none
  fill,        \* the backfill command's progress
  stored,      \* each ticker's last bar, 0 when it is not in the store
  counts,      \* the $news_ct_1d bins
  introduced,  \* does the store carry the series?
  zeroed       \* counts recorded as 0 because the news fetch failed

vars == <<day, feed, archive, window, fill, stored, counts, introduced, zeroed>>

NotFilling == [pc |-> "idle", ticker |-> {}, end |-> 0, left |-> {}]
Fill == [pc : {"idle", "unlink", "write"}, ticker : SUBSET Ticker,
         end : 0 .. MaxDay, left : SUBSET Article]

TypeOK ==
  /\ day \in Day
  /\ feed \subseteq Article
  /\ archive \in [Ticker -> SUBSET Article]
  /\ window \in [Ticker -> 0 .. MaxDay]
  /\ fill \in Fill
  /\ stored \in [Ticker -> 0 .. MaxDay]
  /\ counts \in [Ticker -> [Day -> 0 .. NaN]]
  /\ introduced \in {"no", "yes"}
  /\ zeroed \subseteq Ticker \X Day

Init ==
  /\ day = FirstDay
  /\ feed \in SUBSET Article
  /\ archive = [t \in Ticker |-> {}]
  /\ window = [t \in Ticker |-> 0]
  /\ fill = NotFilling
  /\ stored = [t \in Ticker |-> IF t \in Listed THEN FirstDay ELSE 0]
  /\ counts = [t \in Ticker |-> [d \in Day |-> NaN]]
  /\ introduced = "no"
  /\ zeroed = {}

-----------------------------------------------------------------------------
(* Counts *)

Published(t, from, to) ==
  {a \in feed : a.ticker = t /\ from <= a.day /\ a.day <= to}

\* The first trading day after d, or 0 past the end of the calendar.
NextTradingDay(calendar, d) ==
  LET after == {e \in calendar : e > d}
  IN IF after = {} THEN 0 ELSE Min(after)

\* The trading day whose close could have known the article.
Bucket(a, calendar) ==
  IF a.day \in calendar /\ a.late = "early"
  THEN a.day ELSE NextTradingDay(calendar, a.day)

\* Faulty variant: the files read start after the first day asked for.
DailyCountsAfter(articles, calendar, from, to) ==
  [d \in {e \in calendar : from <= e /\ e <= to} |->
     Cardinality({a \in articles : /\ from < a.day /\ a.day <= to
                                   /\ Bucket(a, calendar) = d})]

\* Articles of the files dated from .. to, counted on each trading day.
DailyCounts(articles, calendar, from, to) ==
  [d \in {e \in calendar : from <= e /\ e <= to} |->
     Cardinality({a \in articles : /\ from <= a.day /\ a.day <= to
                                   /\ Bucket(a, calendar) = d})]

-----------------------------------------------------------------------------
(* The advance and the backfill of one ticker's archive *)

\* The date files of from .. to are rewritten, the others kept.
Rewritten(t, from, to) ==
  {a \in archive[t] : a.day < from \/ a.day > to} \cup Published(t, from, to)

\* advance_ticker: only what lies after the checkpoint is fetched.
ArchiveAfter(t, end) ==
  IF window[t] >= end THEN archive[t] ELSE Rewritten(t, window[t] + 1, end)

WindowAfter(t, end) == Max({window[t], end})

\* Tickers of done reach end, the others stay as they are.
Advance(done, end) ==
  /\ archive' = [t \in Ticker |->
                   IF t \in done THEN ArchiveAfter(t, end) ELSE archive[t]]
  /\ window' = [t \in Ticker |->
                  IF t \in done THEN WindowAfter(t, end) ELSE window[t]]

World == UNCHANGED <<day, feed, stored, counts, introduced, zeroed>>

\* The backfill command: a checkpoint of the same window short-circuits it.
FillFetch(t) ==
  /\ fill.pc = "idle"
  /\ window[t] # day
  /\ window[t] = 0 \/ Refetch
  /\ fill' = [pc |-> "unlink", ticker |-> {t}, end |-> day,
              left |-> Published(t, 1, day)]
  /\ UNCHANGED <<archive, window>> /\ World

\* The date files of the window are removed first.
FillUnlink ==
  /\ fill.pc = "unlink"
  /\ archive' = [t \in Ticker |->
                   IF t \in fill.ticker
                   THEN {a \in archive[t] : a.day > fill.end} ELSE archive[t]]
  /\ fill' = [fill EXCEPT !.pc = "write"]
  /\ UNCHANGED window /\ World

\* One date file is written, whole.
FillWrite ==
  /\ fill.pc = "write"
  /\ \E d \in {a.day : a \in fill.left} :
       LET file == {a \in fill.left : a.day = d} IN
         /\ archive' = [t \in Ticker |->
                          IF t \in fill.ticker THEN archive[t] \cup file
                          ELSE archive[t]]
         /\ fill' = [fill EXCEPT !.left = @ \ file]
  /\ UNCHANGED window /\ World

\* Faulty variant: the checkpoint is written with date files outstanding.
FillMarkEarly ==
  /\ fill.pc = "write"
  /\ window' = [t \in Ticker |->
                  IF t \in fill.ticker THEN fill.end ELSE window[t]]
  /\ fill' = NotFilling
  /\ UNCHANGED archive /\ World

FillMark ==
  /\ fill.pc = "write"
  /\ fill.left = {}
  /\ window' = [t \in Ticker |->
                  IF t \in fill.ticker THEN fill.end ELSE window[t]]
  /\ fill' = NotFilling
  /\ UNCHANGED archive /\ World

\* The command is killed: what is on disk stays.
FillCrash ==
  /\ fill.pc # "idle"
  /\ fill' = NotFilling
  /\ UNCHANGED <<archive, window>> /\ World

-----------------------------------------------------------------------------
(* The store *)

NextDay ==
  /\ day < MaxDay
  /\ day' = day + 1
  /\ UNCHANGED <<feed, archive, window, fill, stored, counts, introduced, zeroed>>

\* extend_store: bars up to the store's last day, an empty news bin.
AddTicker(t) ==
  /\ stored[t] = 0
  /\ stored' = [stored EXCEPT ![t] = Max({stored[s] : s \in Listed})]
  /\ UNCHANGED <<day, feed, archive, window, fill, counts, introduced, zeroed>>

\* --news-start: every ticker is backfilled or advanced, then the whole
\* series is read from the archive, which must cover the store's last day.
\* A failure on the way leaves what has been fetched.
Introduce(done) ==
  LET present == {t \in Ticker : stored[t] # 0}
      final == Max({stored[t] : t \in present})
  IN /\ introduced = "no"
     /\ fill.pc = "idle"
     /\ done \subseteq present
     /\ Advance(done, day)
     /\ IF done = present
        THEN /\ introduced' = "yes"
             /\ counts' = [t \in Ticker |-> [d \in Day |->
                  IF t \in present /\ d \in TradingDays /\ d <= stored[t]
                  THEN DailyCounts(archive'[t], TradingDays \cap (1 .. final), 1, final)[d]
                  ELSE NaN]]
        ELSE UNCHANGED <<introduced, counts>>
  /\ UNCHANGED <<day, feed, fill, stored, zeroed>>

\* Faulty variant: a ticker whose news fetch failed gets no count.
NewCountsSkip(t, ends, failed, articles) ==
  LET calendar == TradingDays \cap (1 .. Max({ends[s] : s \in Ticker}))
  IN [d \in Day |->
        IF d \notin calendar \/ d <= stored[t] \/ d > ends[t] \/ t \in failed
        THEN counts[t][d]
        ELSE DailyCounts(articles, calendar, stored[t], ends[t])[d]]

\* The days a ticker gains: counted from its last stored day on, or 0.
NewCounts(t, ends, failed, articles) ==
  LET calendar == TradingDays \cap (1 .. Max({ends[s] : s \in Ticker}))
  IN [d \in Day |->
        IF d \notin calendar \/ d <= stored[t] \/ d > ends[t] THEN counts[t][d]
        ELSE IF t \in failed THEN 0
        ELSE DailyCounts(articles, calendar, stored[t], ends[t])[d]]

\* One refresh: tickers move to the bars the vendor has of them; each news
\* fetch of a moving ticker may fail, and one without a checkpoint does.  The
\* rebuild after that may fail and leave the store, not the archive, as it was.
Nightly(ends, unlucky) ==
  LET moving == {t \in Ticker : ends[t] # stored[t]}
      failed == moving \cap (unlucky \cup {t \in Ticker : window[t] = 0})
  IN /\ moving # {}
     /\ fill.pc = "idle"
     /\ \A t \in moving : stored[t] # 0 /\ stored[t] < ends[t] /\ ends[t] <= day
     /\ IF introduced = "yes" THEN Advance(moving \ failed, day)
                              ELSE UNCHANGED <<archive, window>>
     /\ \/ /\ stored' = ends
           /\ IF introduced = "yes"
              THEN /\ counts' = [t \in Ticker |->
                                   NewCounts(t, ends, failed, archive'[t])]
                   /\ zeroed' = zeroed \cup
                        {td \in failed \X Day :
                           stored[td[1]] < td[2] /\ td[2] <= ends[td[1]]}
              ELSE UNCHANGED <<counts, zeroed>>
        \/ UNCHANGED <<stored, counts, zeroed>>
  /\ UNCHANGED <<day, feed, fill, introduced>>

Next ==
  \/ NextDay
  \/ \E t \in Ticker : AddTicker(t) \/ FillFetch(t)
  \/ FillUnlink \/ FillWrite \/ FillMark \/ FillCrash
  \/ \E done \in SUBSET Ticker : Introduce(done)
  \/ \E ends \in [Ticker -> TradingDays \cup {0}], unlucky \in SUBSET Ticker :
       Nightly(ends, unlucky)

Spec == Init /\ [][Next]_vars

-----------------------------------------------------------------------------
(* Properties *)

\* "The checkpoint only says: this window is fully fetched."  A date inside a
\* ticker's checkpoint has every one of its articles in the archive, unless
\* the backfill is just rewriting that ticker's files (build_news.py).
CheckpointCovers ==
  \A t \in Ticker \ fill.ticker : Published(t, 1, window[t]) \subseteq archive[t]

\* The closes that could know an article, the first of them, and its articles.
Knows(d, a) == d \in TradingDays /\ (a.day < d \/ (a.day = d /\ a.late = "early"))
CountedOn(a, d) == Knows(d, a) /\ \A e \in TradingDays : e < d => ~Knows(e, a)
Due(t, d) == {a \in feed : a.ticker = t /\ CountedOn(a, d)}

\* Each article is counted once, on the first trading day whose close could
\* have known it, over any sequence of nights, late bars, aborted rebuilds and
\* weekends; only days of a failed news fetch say 0 instead (daily_counts,
\* _pull_news_series).
CountsExact ==
  \A t \in Ticker : \A d \in TradingDays :
    counts[t][d] # NaN =>
      \/ counts[t][d] = Cardinality(Due(t, d))
      \/ counts[t][d] = 0 /\ <<t, d>> \in zeroed

\* "The series is gapless": once a ticker has a count, every later day of its
\* bars has one, whatever failed in between.
Gapless ==
  \A t \in Ticker : \A d, e \in TradingDays :
    (counts[t][d] # NaN /\ d < e /\ e <= stored[t]) => counts[t][e] # NaN

\* "A new ticker's bin starts all-NaN until its archive backfill lands and a
\* later rebuild picks it up": a refresh of a ticker whose archive is complete
\* leaves it no day without a count (extend_store's docstring).
BackfillIsPickedUp ==
  [][\A t \in Ticker :
       (/\ introduced = "yes" /\ stored'[t] # stored[t] /\ stored[t] # 0
        /\ window[t] >= stored[t] /\ <<t, stored'[t]>> \notin zeroed')
         => \A d \in TradingDays : d <= stored'[t] => counts'[t][d] # NaN]_vars
=============================================================================
