----------------------------- MODULE DataStore -----------------------------
(***************************************************************************)
(* The Qlib data store and everything that rebuilds it:                    *)
(*                                                                         *)
(*   Nightly   refresh_store of data/refresh.py (04:30 timer)              *)
(*   Thread    confirm_universe of a Slack thread: extend_store, then      *)
(*             make_universe, make_factor_source and the templates         *)
(*   Operator  build_from_fmp of data/build_store.py, when there is no     *)
(*             store left to refresh                                       *)
(*                                                                         *)
(* Each is a process (the handlers are threads of one) that reads the      *)
(* store, fetches for minutes, writes <store>.tmp, validates it and moves  *)
(* it into place in four file system calls; all share the same three       *)
(* paths.  Nothing but the clock and the operator keeps them apart.        *)
(*                                                                         *)
(* Abstraction: a bar is its date.  Prices and factors are recomputed from *)
(* the bars and say nothing more; the market series of a store have a      *)
(* value on each of its days once they are rebuilt, so only the coverage   *)
(* check of the days a refresh adds is modelled.  Fetches see the vendor   *)
(* at one moment.                                                          *)
(***************************************************************************)
EXTENDS Naturals, FiniteSets, FiniteSetsExt

CONSTANTS
  Ticker,          \* symbols a store may come to hold
  MaxDay,          \* bound on the dates of one behaviour
  Base,            \* tickers of the store at the start
  Thread,          \* Slack threads that propose and confirm universes
  Nightly, Operator,
  Pit,             \* a point-in-time universe made before
  UniverseOf,      \* the universe name each thread uses
  Request,         \* ticker lists the threads may ask for
  Prints,          \* the dates the vendor ever has a bar of each ticker for
  Disordered,      \* tickers whose bars may land out of order
  Prompt,          \* tickers whose bars are there the morning after
  FirstDay,        \* the store's last date at the start
  ExitDay,         \* when the first base ticker left the Pit universe
  Exited,          \* that ticker
  MarketHistory,   \* days the market series cover before day 1
  Overlap,         \* may the builders and the chat interleave?
  MaxCrashes,      \* bound on crashes in one behaviour
  None,            \* nothing at a path
  Partial          \* a directory that is not a complete store

Builder == Thread \cup {Nightly, Operator}
Universe == {Pit} \cup {UniverseOf[c] : c \in Thread}
Day == 1 .. MaxDay

ASSUME StoreAssumption ==
  /\ MaxDay \in Nat
  /\ Nightly \notin Thread /\ Operator \notin Thread /\ Nightly # Operator
  /\ Base \subseteq Ticker /\ Exited \in Base /\ Disordered \subseteq Ticker
  /\ Prompt \subseteq Ticker
  /\ Request \subseteq SUBSET Ticker
  /\ Prints \in [Ticker -> SUBSET Day]
  /\ FirstDay \in Day /\ ExitDay \in 1 .. FirstDay - 1
  /\ MarketHistory \in Nat /\ MaxCrashes \in Nat
  /\ Overlap \in BOOLEAN

VARIABLES
  day,       \* yesterday: the last date whose bars are settled
  vendor,    \* the bars FMP serves by now
  at,        \* what the store path names
  tmp,       \* what <store>.tmp names, and who made it
  old,       \* what <store>.old names
  proc,      \* what each builder has read, planned and reached
  asked,     \* the universes table of the orchestrator
  source,    \* factor source and templates by universe name
  crashes,
  rebuilt    \* has the operator begun to build from nothing?

vars == <<day, vendor, at, tmp, old, proc, asked, source, crashes, rebuilt>>

-----------------------------------------------------------------------------
(* Stores *)

\* File ends: 0 is "not a member".
NoMembers == [t \in Ticker |-> 0]
Store == [bars : [Ticker -> SUBSET Day],
          files : [Universe -> [Ticker -> 0 .. MaxDay]]]

StoreOrNone == Store \cup {None, Partial}

Calendar(s) == UNION {s.bars[t] : t \in Ticker}
Tickers(s) == {t \in Ticker : s.bars[t] # {}}
First(days) == Min(days)
Last(days) == Max(days)
End(s, t) == Last(s.bars[t])
Members(s, u) == {t \in Ticker : s.files[u][t] # 0}

\* A ticker has no bar on a trading day between its first and its last.
Gapped(bars, calendar) ==
  \E d \in calendar : First(bars) < d /\ d < Last(bars) /\ d \notin bars

\* What validate_store lets pass.
Valid(s) ==
  /\ Tickers(s) # {}
  /\ \A t \in Tickers(s) : ~Gapped(s.bars[t], Calendar(s))
  /\ \A u \in Universe : Members(s, u) \subseteq Tickers(s)

\* read_calendar and what follows raise for anything but a complete store.
Readable(s) == s \notin {None, Partial}

-----------------------------------------------------------------------------
(* Types and the initial state *)

Pc == {"idle", "fetch", "bars", "begin", "write", "swap", "away", "in",
       "clean", "make", "source", "confirm"}

Idle == [pc |-> "idle", seen |-> None, plan |-> None, got |-> None,
         tickers |-> {}, short |-> "no"]

Job == [pc : Pc, seen : StoreOrNone, plan : StoreOrNone,
        got : [Ticker -> SUBSET Day] \cup {None},
        tickers : SUBSET Ticker, short : {"no", "yes"}]

TypeOK ==
  /\ day \in Day
  /\ vendor \in [Ticker -> SUBSET Day]
  /\ at \in StoreOrNone
  /\ tmp \in [by : Builder, dir : StoreOrNone]
  /\ old \in StoreOrNone
  /\ proc \in [Builder -> Job]
  /\ asked \in [Thread -> [tickers : SUBSET Ticker,
                           status : {"none", "proposed", "confirmed"}]]
  /\ source \in [Universe -> SUBSET Ticker]
  /\ crashes \in 0 .. MaxCrashes
  /\ rebuilt \in {"no", "yes"}

NoTmp == [by |-> Nightly, dir |-> None]

InitialBars == [t \in Ticker |-> IF t \in Base THEN Prints[t] \cap (1 .. FirstDay) ELSE {}]

InitialStore ==
  [bars |-> InitialBars,
   files |-> [u \in Universe |->
                IF u = Pit
                THEN [t \in Ticker |-> IF t = Exited THEN ExitDay
                                       ELSE IF t \in Base THEN Last(InitialBars[t])
                                       ELSE 0]
                ELSE NoMembers]]

\* The store at the start is one that a build has validated, with a ticker that
\* has left the universe and still trades; a path that names no store names
\* something else, and threads do not reuse a reserved name (propose).
ASSUME InitialAssumption ==
  /\ \A t \in Base : InitialBars[t] # {}
  /\ Valid(InitialStore)
  /\ \E d \in InitialBars[Exited] : d > ExitDay
  /\ None # Partial /\ None \notin Store /\ Partial \notin Store
  /\ \A c \in Thread : UniverseOf[c] # Pit

Init ==
  /\ day = FirstDay
  /\ vendor = [t \in Ticker |-> Prints[t] \cap (1 .. FirstDay)]
  /\ at = InitialStore
  /\ tmp = NoTmp
  /\ old = None
  /\ proc = [b \in Builder |-> Idle]
  /\ asked = [c \in Thread |-> [tickers |-> {}, status |-> "none"]]
  /\ source = [u \in Universe |-> {}]
  /\ crashes = 0
  /\ rebuilt = "no"

-----------------------------------------------------------------------------
(* The world: days close, the vendor publishes *)

Working == {b \in Builder : proc[b].pc # "idle"}

\* What keeps a builder from starting while others are at work.
MayStart == Overlap \/ Working = {}

NextDay ==
  /\ day < MaxDay
  /\ day' = day + 1
  /\ vendor' = [t \in Ticker |->
                  vendor[t] \cup (IF t \in Prompt THEN Prints[t] \cap {day'} ELSE {})]
  /\ UNCHANGED <<at, tmp, old, proc, asked, source, crashes, rebuilt>>

\* A settled bar appears, for most tickers after the earlier ones.
Publish(t, d) ==
  /\ d \in Prints[t] \ vendor[t]
  /\ d <= day
  /\ t \in Disordered \/ \A e \in Prints[t] \ vendor[t] : d <= e
  /\ vendor' = [vendor EXCEPT ![t] = @ \cup {d}]
  /\ UNCHANGED <<day, at, tmp, old, proc, asked, source, crashes, rebuilt>>

-----------------------------------------------------------------------------
(* refresh_store: read, fetch, plan *)

NightlyRead ==
  /\ proc[Nightly].pc = "idle"
  /\ MayStart
  /\ Readable(at)
  /\ proc' = [proc EXCEPT ![Nightly] = [Idle EXCEPT !.pc = "fetch", !.seen = at]]
  /\ UNCHANGED <<day, vendor, at, tmp, old, asked, source, crashes, rebuilt>>

\* Faulty variant: every ticker is asked from the store's last date on.
FreshFromStoreEnd(s, t) ==
  IF s.bars[t] = {} THEN {}
  ELSE {d \in vendor[t] : Last(Calendar(s)) < d /\ d <= day}

\* The bars a ticker is missing, since its own last date.
Fresh(s, t) ==
  IF s.bars[t] = {} THEN {}
  ELSE {d \in vendor[t] : End(s, t) < d /\ d <= day}

\* Faulty variant: every row is rewritten to its ticker's new end.
FollowAll(s, bars) ==
  [u \in Universe |-> [t \in Ticker |->
     IF s.files[u][t] # 0 THEN Last(bars[t]) ELSE 0]]

\* A row follows its ticker's end only when it was at that end before.
FollowEnds(s, bars) ==
  [u \in Universe |-> [t \in Ticker |->
     IF s.files[u][t] # 0 /\ s.files[u][t] >= End(s, t)
     THEN Last(bars[t]) ELSE s.files[u][t]]]

\* Share of trading days a market series observes itself: 99 of 100.
MarketCovers(calendar, unobserved) ==
  LET span == MarketHistory + Cardinality(calendar)
  IN 100 * (span - Cardinality(unobserved)) >= 99 * span

\* The equity bars and the market series of one refresh.  Nothing new leaves
\* the store alone; a market outage is carried forward, unless that takes a
\* series below its coverage.
NightlyFetch ==
  /\ proc[Nightly].pc = "fetch"
  /\ LET s == proc[Nightly].seen
         bars == [t \in Ticker |-> s.bars[t] \cup Fresh(s, t)]
         calendar == UNION {bars[t] : t \in Ticker}
     IN \E outage \in BOOLEAN :
          proc' = [proc EXCEPT ![Nightly] =
            IF /\ bars # s.bars
               /\ outage => MarketCovers(calendar, calendar \ Calendar(s))
            THEN [Idle EXCEPT !.pc = "begin",
                   !.plan = [bars |-> bars, files |-> FollowEnds(s, bars)]]
            ELSE Idle]
  /\ UNCHANGED <<day, vendor, at, tmp, old, asked, source, crashes, rebuilt>>

-----------------------------------------------------------------------------
(* confirm_universe: check the proposal, extend the store if it has gaps *)

AllUs(s, tickers) == Tickers(s) \subseteq tickers

\* set_universe: a new proposal replaces the thread's earlier one.
SetUniverse(c, tickers) ==
  /\ Overlap \/ proc[c].pc = "idle"
  /\ Readable(at)
  /\ ~AllUs(at, tickers)
  /\ asked' = [asked EXCEPT ![c] = [tickers |-> tickers, status |-> "proposed"]]
  /\ UNCHANGED <<day, vendor, at, tmp, old, proc, source, crashes, rebuilt>>

\* Faulty variant: the row is confirmed when the data work begins.
StartConfirmEarly(c) ==
  /\ proc[c].pc = "idle"
  /\ MayStart
  /\ asked[c].status = "proposed"
  /\ Readable(at)
  /\ proc' = [proc EXCEPT ![c] =
       [Idle EXCEPT !.pc = "fetch", !.tickers = asked[c].tickers, !.seen = at]]
  /\ asked' = [asked EXCEPT ![c].status = "confirmed"]
  /\ UNCHANGED <<day, vendor, at, tmp, old, source, crashes, rebuilt>>

\* confirm_universe: the stored proposal is checked again.
StartConfirm(c) ==
  /\ proc[c].pc = "idle"
  /\ MayStart
  /\ asked[c].status = "proposed"
  /\ Readable(at)
  /\ LET tickers == asked[c].tickers
         gaps == tickers \ Tickers(at)
     IN /\ ~AllUs(at, tickers)
        /\ proc' = [proc EXCEPT ![c] =
             IF gaps = {}
             THEN [Idle EXCEPT !.pc = "make", !.tickers = tickers]
             ELSE [Idle EXCEPT !.pc = "fetch", !.tickers = tickers, !.seen = at]]
  /\ UNCHANGED <<day, vendor, at, tmp, old, asked, source, crashes, rebuilt>>

\* Faulty variant: the vendor's days are taken as they come.
HistoryUnfiltered(s, t) == {d \in vendor[t] : First(Calendar(s)) <= d /\ d <= Last(Calendar(s))}

\* A new ticker's bars on the days the store's calendar already has.
History(s, t) == vendor[t] \cap Calendar(s)

\* Missing and gapped tickers are left out; none left ends the confirmation.
ThreadFetch(c) ==
  /\ proc[c].pc = "fetch"
  /\ LET s == proc[c].seen
         gaps == proc[c].tickers \ Tickers(s)
         usable == {t \in gaps : /\ History(s, t) # {}
                                 /\ ~Gapped(History(s, t), Calendar(s))}
     IN proc' = [proc EXCEPT ![c] =
          IF usable = {} THEN Idle
          ELSE [@ EXCEPT !.pc = "bars",
                         !.got = [t \in Ticker |-> IF t \in usable THEN History(s, t)
                                                   ELSE {}],
                         !.short = IF usable = gaps THEN "no" ELSE "yes"]]
  /\ UNCHANGED <<day, vendor, at, tmp, old, asked, source, crashes, rebuilt>>

\* Faulty variant: the universes are not carried across the rebuild.
ThreadBarsAlone(c) ==
  /\ proc[c].pc = "bars"
  /\ LET s == proc[c].seen
         plan == [bars |-> [t \in Ticker |-> IF t \in Tickers(s) THEN s.bars[t]
                                             ELSE proc[c].got[t]],
                  files |-> [u \in Universe |-> NoMembers]]
     IN proc' = [proc EXCEPT ![c] =
          [@ EXCEPT !.pc = "begin", !.plan = plan, !.seen = None, !.got = None]]
  /\ UNCHANGED <<day, vendor, at, tmp, old, asked, source, crashes, rebuilt>>

\* The stored bars are read after the fetch, with the calendar read before.
ThreadBars(c) ==
  /\ proc[c].pc = "bars"
  /\ LET s == proc[c].seen
         plan == [bars |-> [t \in Ticker |-> IF t \in Tickers(s) THEN at.bars[t]
                                             ELSE proc[c].got[t]],
                  files |-> s.files]
     IN proc' = [proc EXCEPT ![c] =
          IF /\ Readable(at) /\ Calendar(at) = Calendar(s)
             /\ Tickers(s) \subseteq Tickers(at)
          THEN [@ EXCEPT !.pc = "begin", !.plan = plan, !.seen = None, !.got = None]
          ELSE Idle]
  /\ UNCHANGED <<day, vendor, at, tmp, old, asked, source, crashes, rebuilt>>

\* build_from_fmp: every bar again, no universe and no news.
OperatorFetch ==
  /\ Working = {}
  /\ ~Readable(at)
  /\ \A t \in Base : vendor[t] \cap (1 .. day) # {}
  /\ rebuilt' = "yes"
  /\ proc' = [proc EXCEPT ![Operator] = [Idle EXCEPT !.pc = "begin",
       !.plan = [bars |-> [t \in Ticker |->
                             IF t \in Base THEN vendor[t] \cap (1 .. day) ELSE {}],
                 files |-> [u \in Universe |-> NoMembers]]]]
  /\ UNCHANGED <<day, vendor, at, tmp, old, asked, source, crashes>>

\* A vendor error, wherever it strikes, ends the builder with the store as is.
FetchFails(b) ==
  /\ proc[b].pc \in {"fetch", "bars"}
  /\ proc' = [proc EXCEPT ![b] = Idle]
  /\ UNCHANGED <<day, vendor, at, tmp, old, asked, source, crashes, rebuilt>>

-----------------------------------------------------------------------------
(* build_store: temporary directory, validation, swap *)

Untouched == UNCHANGED <<day, vendor, asked, source, crashes, rebuilt>>

Goto(b, pc) == proc' = [proc EXCEPT ![b].pc = pc]

\* Faulty variant: the store is moved off its path before the build.
BeginInPlace(b) ==
  /\ proc[b].pc = "begin"
  /\ at' = None
  /\ tmp' = [by |-> b, dir |-> Partial]
  /\ Goto(b, "write")
  /\ UNCHANGED old /\ Untouched

BeginTmp(b) ==
  /\ proc[b].pc = "begin"
  /\ tmp' = [by |-> b, dir |-> Partial]
  /\ Goto(b, "write")
  /\ UNCHANGED <<at, old>> /\ Untouched

Mine(b) == tmp.by = b /\ tmp.dir # None

\* Faulty variant: a store is moved in without validation.
WriteUnchecked(b) ==
  /\ proc[b].pc = "write"
  /\ Mine(b)
  /\ tmp' = [tmp EXCEPT !.dir = proc[b].plan]
  /\ proc' = [proc EXCEPT ![b].pc = "swap", ![b].plan = None]
  /\ UNCHANGED <<at, old>> /\ Untouched

\* Every file written and validated.
WriteTmp(b) ==
  /\ proc[b].pc = "write"
  /\ Mine(b) /\ Valid(proc[b].plan)
  /\ tmp' = [tmp EXCEPT !.dir = proc[b].plan]
  /\ proc' = [proc EXCEPT ![b].pc = "swap", ![b].plan = None]
  /\ UNCHANGED <<at, old>> /\ Untouched

\* A gapped plan, or files that another builder has taken away or written
\* first: the directory is removed, whosever it is by now.
Discard(b) ==
  /\ proc[b].pc = "write"
  /\ ~(Mine(b) /\ Valid(proc[b].plan))
  /\ tmp' = NoTmp
  /\ proc' = [proc EXCEPT ![b] = Idle]
  /\ UNCHANGED <<at, old>> /\ Untouched

DropOld(b) ==
  /\ proc[b].pc = "swap"
  /\ old' = None
  /\ Goto(b, "away")
  /\ UNCHANGED <<at, tmp>> /\ Untouched

\* target.rename(backup): fails on a backup that is there again.
MoveAway(b) ==
  /\ proc[b].pc = "away"
  /\ \/ /\ at = None
        /\ Goto(b, "in")
        /\ UNCHANGED <<at, old>>
     \/ /\ at # None /\ old = None
        /\ old' = at
        /\ at' = None
        /\ Goto(b, "in")
     \/ /\ at # None /\ old # None
        /\ proc' = [proc EXCEPT ![b] = Idle]
        /\ UNCHANGED <<at, old>>
  /\ UNCHANGED tmp /\ Untouched

\* tmp.rename(target): whatever the directory holds; fails without it, or on
\* a store that another builder has moved in.
MoveIn(b) ==
  /\ proc[b].pc = "in"
  /\ IF tmp.dir # None /\ at = None
     THEN /\ at' = tmp.dir
          /\ tmp' = NoTmp
          /\ Goto(b, "clean")
     ELSE /\ proc' = [proc EXCEPT ![b] = Idle]
          /\ UNCHANGED <<at, tmp>>
  /\ UNCHANGED old /\ Untouched

\* A confirmation with tickers left out of the store ends here.
DropBackup(b) ==
  /\ proc[b].pc = "clean"
  /\ old' = None
  /\ proc' = [proc EXCEPT ![b] =
       IF b \in Thread /\ @.short = "no"
       THEN [Idle EXCEPT !.pc = "make", !.tickers = proc[b].tickers]
       ELSE Idle]
  /\ UNCHANGED <<at, tmp>> /\ Untouched

Build(b) ==
  \/ BeginTmp(b) \/ WriteTmp(b) \/ Discard(b)
  \/ DropOld(b) \/ MoveAway(b) \/ MoveIn(b) \/ DropBackup(b)

-----------------------------------------------------------------------------
(* materialize, after the store holds every ticker *)

\* make_universe writes the file into the store that is in place.
MakeUniverse(c) ==
  /\ proc[c].pc = "make"
  /\ LET u == UniverseOf[c]
         tickers == proc[c].tickers
     IN IF Readable(at) /\ tickers \subseteq Tickers(at)
        THEN /\ at' = [at EXCEPT !.files[u] =
                         [t \in Ticker |-> IF t \in tickers THEN End(at, t) ELSE 0]]
             /\ Goto(c, "source")
        ELSE /\ proc' = [proc EXCEPT ![c] = Idle]
             /\ UNCHANGED at
  /\ UNCHANGED <<tmp, old>> /\ Untouched

\* make_factor_source reads the file back; the templates name the universe.
MakeSource(c) ==
  /\ proc[c].pc = "source"
  /\ LET u == UniverseOf[c]
     IN IF Readable(at) /\ Members(at, u) # {}
        THEN /\ source' = [source EXCEPT ![u] = Members(at, u)]
             /\ Goto(c, "confirm")
        ELSE /\ proc' = [proc EXCEPT ![c] = Idle]
             /\ UNCHANGED source
  /\ UNCHANGED <<day, vendor, at, tmp, old, asked, crashes, rebuilt>>

\* Faulty variant: a status that no reader of the table knows.
MarkReady(c) ==
  /\ proc[c].pc = "confirm"
  /\ asked' = [asked EXCEPT ![c].status = "ready"]
  /\ proc' = [proc EXCEPT ![c] = Idle]
  /\ UNCHANGED <<day, vendor, at, tmp, old, source, crashes, rebuilt>>

\* confirm_thread_universe: by thread, whatever the row proposes by now.
MarkConfirmed(c) ==
  /\ proc[c].pc = "confirm"
  /\ asked' = [asked EXCEPT ![c].status = "confirmed"]
  /\ proc' = [proc EXCEPT ![c] = Idle]
  /\ UNCHANGED <<day, vendor, at, tmp, old, source, crashes, rebuilt>>

\* SIGKILL or a reboot: what is on disk stays.  (While a builder fetches,
\* it is FetchFails.)
Crash(b) ==
  /\ proc[b].pc \notin {"idle", "fetch", "bars", "begin"}
  /\ crashes < MaxCrashes
  /\ crashes' = crashes + 1
  /\ proc' = [proc EXCEPT ![b] = Idle]
  /\ UNCHANGED <<day, vendor, at, tmp, old, asked, source, rebuilt>>

Confirmation(c) ==
  \/ StartConfirm(c) \/ ThreadFetch(c) \/ ThreadBars(c)
  \/ MakeUniverse(c) \/ MakeSource(c) \/ MarkConfirmed(c)

Next ==
  \/ NextDay
  \/ \E t \in Ticker, d \in Day : Publish(t, d)
  \/ NightlyRead \/ NightlyFetch \/ OperatorFetch
  \/ \E c \in Thread : Confirmation(c)
  \/ \E c \in Thread, tickers \in Request : SetUniverse(c, tickers)
  \/ \E b \in Builder : FetchFails(b) \/ Build(b) \/ Crash(b)

\* The timer comes back, builds and confirmations go on, the vendor publishes
\* what it will ever print and does not fail every fetch.
Fairness ==
  /\ WF_vars(NextDay)
  /\ \A t \in Ticker, d \in Day : WF_vars(Publish(t, d))
  /\ SF_vars(NightlyRead) /\ SF_vars(NightlyFetch)
  /\ \A c \in Thread : WF_vars(Confirmation(c))
  /\ \A b \in Builder : WF_vars(Build(b))

Spec == Init /\ [][Next]_vars
FairSpec == Spec /\ Fairness

-----------------------------------------------------------------------------
(* Properties *)

\* "A failed build never leaves a partial store behind": the store path names
\* a complete, validated store or nothing, at every step of every builder and
\* after a crash between any two of them (_swap_into_place, build_store).
NeverPartial == at = None \/ (at # Partial /\ Valid(at))

\* Some complete store is on disk under one of the three names, as long as
\* nobody has begun to build one from nothing.
CopyRemains ==
  rebuilt = "no" => \E dir \in {at, tmp.dir, old} : dir \notin {None, Partial}

\* A store that has replaced another has every bar the other had and every
\* member of its universes (refresh_store, extend_store); later only a thread's
\* next confirmation takes members out, and of its own universe.
NothingLost ==
  (Readable(at) /\ Readable(old) /\ rebuilt = "no") =>
    /\ \A t \in Ticker : old.bars[t] \subseteq at.bars[t]
    /\ \A u \in Universe :
         u = Pit \/ (\E b \in Builder : proc[b].pc = "clean")
           => Members(old, u) \subseteq Members(at, u)

\* What a reader makes of a directory, and the store that the next one is owed
\* to: the one at the path, or the one a swap has moved away.
View(dir) ==
  IF dir \in {None, Partial} THEN dir
  ELSE [bars |-> dir.bars, members |-> [u \in Universe |-> Members(dir, u)]]
Owed == IF at # None THEN at ELSE IF Readable(old) THEN old ELSE None

Readers == INSTANCE StoreRegister WITH Fixed <- Pit, shown <- View(at), kept <- View(Owed)

ASSUME ViewAssumption == None \notin Readers!Store /\ Partial \notin Readers!Store

\* Whoever reads the store, at whatever moment of a build, a confirmation or a
\* crash, finds a whole store or none, and in the next one everything the last
\* one had, until somebody gives it up by a build from nothing (build_store,
\* _swap_into_place, make_universe).
ImplementsStores == Readers!Spec

\* A point-in-time exit stays closed, and every other membership is open to
\* the ticker's last bar, whatever rebuilt the store (refresh_universe_spans,
\* the verbatim rows of extend_store, make_universe).
SpansFollow ==
  (Readable(at) /\ rebuilt = "no") =>
    \A u \in Universe : \A t \in Members(at, u) :
      at.files[u][t] = IF u = Pit /\ t = Exited THEN ExitDay ELSE End(at, t)

\* Adding tickers never adds a trading day and never poisons the rebuild:
\* what a confirmation is about to write has the calendar of the store it
\* replaces and passes validation, whatever history the vendor has of the new
\* tickers (extend_store).
ExtendFits ==
  \A c \in Thread :
    (proc[c].pc \in {"begin", "write"} /\ Readable(at)) =>
      /\ Calendar(proc[c].plan) = Calendar(at)
      /\ Valid(proc[c].plan)

\* A confirmed universe is what research will run on: its file in the store
\* and its factor source hold exactly the tickers the thread has confirmed.
ConfirmedIsBuilt ==
  \A c \in Thread :
    (asked[c].status = "confirmed" /\ Readable(at) /\ rebuilt = "no") =>
      /\ Members(at, UniverseOf[c]) = asked[c].tickers
      /\ source[UniverseOf[c]] = asked[c].tickers

\* The nightly refresh catches up with the vendor in the end, through outages
\* and bars that land out of order: a store that is there holds every bar of
\* every base ticker.
CatchesUp ==
  <>[](Readable(at) => \A t \in Base : at.bars[t] = Prints[t])
=============================================================================
