-------------------------- MODULE DataStore_proofs --------------------------
(***************************************************************************)
(* Proofs about DataStore, for every set of tickers, threads and vendor    *)
(* histories: the types, whatever overlaps; what the store promises when   *)
(* one builder is at work at a time, and that it then implements the       *)
(* register of stores its readers see (StoreRegister).  Last, the market   *)
(* series of a refresh, for every calendar and history (Series).           *)
(***************************************************************************)
EXTENDS DataStore, Series, FiniteSetTheorems, TLAPS

-----------------------------------------------------------------------------
(* The last of some days *)

\* A set of days that is not empty has a last one: of the sets of the days from
\* one of them on, a smallest one belongs to the last.
LEMMA LastExists ==
  ASSUME NEW S \in SUBSET Day, S # {}
  PROVE  \E x \in S : \A y \in S : x >= y
<1> DEFINE From(x) == {y \in S : x <= y}
           Tails == {From(x) : x \in S}
<1>1. IsFiniteSet(S)
  <2>1. IsFiniteSet(Day)
    BY StoreAssumption, FS_Interval DEF Day
  <2> QED
    BY <2>1, FS_Subset
<1>2. IsWellFoundedOn(StrictSubsetOrdering(S), SUBSET S)
  BY <1>1, FS_StrictSubsetOrderingWellFounded, FS_FiniteSubsetsOfFinite
<1>3. Tails \subseteq SUBSET S /\ Tails # {}
  OBVIOUS
<1>4. PICK T \in Tails : \A U \in Tails : <<U, T>> \notin StrictSubsetOrdering(S)
  <2> HIDE DEF Tails
  <2> QED
    BY <1>2, <1>3, WFMin
<1>5. PICK x \in S : T = From(x)
  OBVIOUS
<1>6. ASSUME NEW y \in S, ~(x >= y) PROVE FALSE
  <2>1. \A z \in S : z \in Int
    BY StoreAssumption DEF Day
  <2>4. x < y
    BY <1>6, <2>1
  <2>2. From(y) \subseteq From(x) /\ x \in From(x) /\ x \notin From(y)
    BY <2>1, <2>4
  <2>3. <<From(y), From(x)>> \in StrictSubsetOrdering(S)
    BY <2>2 DEF StrictSubsetOrdering
  <2> QED
    BY <1>4, <1>5, <2>3
<1> QED
  BY <1>6

LEMMA LastIs ==
  ASSUME NEW S \in SUBSET Day, S # {}
  PROVE  Last(S) \in S /\ \A y \in S : Last(S) >= y
BY LastExists DEF Last, Max

\* And it has a first one: the last, counted from the end.
LEMMA FirstIs ==
  ASSUME NEW S \in SUBSET Day, S # {}
  PROVE  First(S) \in S /\ \A y \in S : First(S) <= y
<1> DEFINE Mirror == {MaxDay + 1 - y : y \in S}
<1>1. S \subseteq 1 .. MaxDay /\ MaxDay \in Nat
  BY StoreAssumption DEF Day
<1>2. Mirror \in SUBSET Day /\ Mirror # {}
  <2>1. \A y \in S : MaxDay + 1 - y \in Day
    BY <1>1 DEF Day
  <2> QED
    BY <2>1
<1>3. PICK z \in Mirror : \A w \in Mirror : z >= w
  BY <1>2, LastExists
<1>4. PICK x \in S : z = MaxDay + 1 - x
  OBVIOUS
<1>5. ASSUME NEW y \in S PROVE x <= y
  <2>1. MaxDay + 1 - x >= MaxDay + 1 - y
    BY <1>3, <1>4
  <2>2. x \in Int /\ y \in Int
    BY <1>1
  <2> QED
    BY <1>1, <2>1, <2>2
<1> QED
  BY <1>5 DEF First, Min

\* The last day of a store's ticker, and the days before it are earlier.
LEMMA EndIs ==
  ASSUME NEW s \in Store, NEW t \in Ticker, s.bars[t] # {}
  PROVE  End(s, t) \in s.bars[t] /\ End(s, t) \in Day /\ \A d \in s.bars[t] : End(s, t) >= d
<1>1. s.bars[t] \in SUBSET Day
  BY DEF Store
<1> QED
  BY <1>1, LastIs DEF End

-----------------------------------------------------------------------------
(* Types *)

\* A complete store that validation passes.
Whole(s) == s \in Store /\ Valid(s)

\* A builder's locals have their type, and those its step needs are there.
Sound(j) ==
  /\ j \in Job
  /\ j.pc \in {"fetch", "bars"} => Whole(j.seen)
  /\ j.pc = "bars" => j.got \in [Ticker -> SUBSET Day]
  /\ j.pc \in {"begin", "write"} => j.plan \in Store

\* What a path names is nothing, the remains of a build, or a complete store.
Paths == \A dir \in {at, tmp.dir, old} : dir \in {None, Partial} \/ Whole(dir)

TypeInv == TypeOK /\ Paths /\ \A b \in Builder : Sound(proc[b])

\* A step of a builder keeps the type of the others' locals.
LEMMA JobChange ==
  ASSUME TypeInv, NEW b \in Builder, NEW j, Sound(j), proc' = [proc EXCEPT ![b] = j]
  PROVE  proc' \in [Builder -> Job] /\ \A x \in Builder : Sound(proc'[x])
BY DEF TypeInv, TypeOK, Sound

LEMMA IdleSound == Sound(Idle)
BY DEF Sound, Idle, Job, Pc, StoreOrNone

\* A builder that moves on to a step past the build knows enough.
LEMMA MovedSound ==
  ASSUME TypeInv, NEW b \in Builder,
         NEW pc \in {"swap", "away", "in", "clean", "make", "source", "confirm"}
  PROVE  /\ Sound([proc[b] EXCEPT !.pc = pc])
         /\ Sound([proc[b] EXCEPT !.pc = pc, !.plan = None])
BY DEF TypeInv, Sound, Job, Pc, StoreOrNone

LEMMA ReadableIsStore ==
  ASSUME NEW s \in StoreOrNone
  PROVE  Readable(s) <=> s \in Store
BY InitialAssumption DEF Readable, StoreOrNone

\* A member of a complete store has bars.
LEMMA MemberHasBars ==
  ASSUME NEW s, Whole(s), NEW u \in Universe, NEW t \in Ticker, s.files[u][t] # 0
  PROVE  s.bars[t] # {}
BY DEF Whole, Valid, Members, Tickers

\* The bars a refresh adds to a store, and the ends that follow them.
LEMMA RefreshTyped ==
  ASSUME NEW s, Whole(s), vendor \in [Ticker -> SUBSET Day],
         NEW bars, bars = [t \in Ticker |-> s.bars[t] \cup Fresh(s, t)]
  PROVE  /\ bars \in [Ticker -> SUBSET Day]
         /\ [bars |-> bars, files |-> FollowEnds(s, bars)] \in Store
<1>1. \A t \in Ticker : Fresh(s, t) \in SUBSET Day
  BY DEF Fresh
<1>2. bars \in [Ticker -> SUBSET Day]
  BY <1>1 DEF Store, Whole
<1>3. ASSUME NEW u \in Universe, NEW t \in Ticker
      PROVE  (IF s.files[u][t] # 0 /\ s.files[u][t] >= End(s, t)
              THEN Last(bars[t]) ELSE s.files[u][t]) \in 0 .. MaxDay
  <2>1. s.files[u][t] \in 0 .. MaxDay
    BY DEF Store, Whole
  <2>2. s.files[u][t] # 0 => Last(bars[t]) \in 0 .. MaxDay
    <3>1. s.files[u][t] # 0 => bars[t] # {}
      BY MemberHasBars
    <3>2. bars[t] \in SUBSET Day
      BY <1>2
    <3> QED
      BY <3>1, <3>2, LastIs DEF Day
  <2> QED
    BY <2>1, <2>2
<1> QED
  BY <1>2, <1>3 DEF FollowEnds, Store

\* A store with the universe file that make_universe writes.
Made(s, u, tickers) ==
  [s EXCEPT !.files[u] = [t \in Ticker |-> IF t \in tickers THEN End(s, t) ELSE 0]]

LEMMA MadeWhole ==
  ASSUME NEW s, Whole(s), NEW u \in Universe, NEW tickers \in SUBSET Ticker,
         tickers \subseteq Tickers(s)
  PROVE  LET new == Made(s, u, tickers)
         IN  /\ Whole(new) /\ new.bars = s.bars
             /\ Members(new, u) = tickers
             /\ \A t \in tickers : new.files[u][t] = End(s, t)
             /\ \A v \in Universe \ {u} : new.files[v] = s.files[v]
<1> DEFINE file == [t \in Ticker |-> IF t \in tickers THEN End(s, t) ELSE 0]
           new == Made(s, u, tickers)
<1>1. \A t \in tickers : End(s, t) \in Day
  BY EndIs DEF Whole, Tickers
<1>2. file \in [Ticker -> 0 .. MaxDay] /\ \A t \in Ticker : file[t] # 0 <=> t \in tickers
  BY <1>1, StoreAssumption DEF Day
<1>3. new.bars = s.bars /\ new.files = [s.files EXCEPT ![u] = file]
  BY DEF Whole, Store, Made
<1> HIDE DEF new
<1>4. new \in Store
  BY <1>2 DEF Whole, Store, Made, new
<1>5. Members(new, u) = tickers /\ \A v \in Universe \ {u} : new.files[v] = s.files[v]
  BY <1>2, <1>3 DEF Members, Whole, Store
<1>6. Tickers(new) = Tickers(s) /\ Calendar(new) = Calendar(s)
  BY <1>3 DEF Tickers, Calendar
<1>7. Valid(new)
  <2>1. \A v \in Universe : Members(new, v) \subseteq Tickers(new)
    BY <1>5, <1>6 DEF Whole, Valid, Members
  <2> QED
    BY <1>3, <1>6, <2>1 DEF Whole, Valid
<1>8. \A t \in tickers : new.files[u][t] = End(s, t)
  BY <1>3 DEF Whole, Store
<1> QED
  BY <1>3, <1>4, <1>5, <1>7, <1>8 DEF Whole, new

LEMMA InitialTyped ==
  /\ InitialBars \in [Ticker -> SUBSET Day]
  /\ InitialStore.bars = InitialBars
  /\ \A u \in Universe, t \in Ticker :
       InitialStore.files[u][t] =
         IF u = Pit THEN IF t = Exited THEN ExitDay
                         ELSE IF t \in Base THEN Last(InitialBars[t]) ELSE 0
         ELSE 0
  /\ Whole(InitialStore)
<1>1. InitialBars \in [Ticker -> SUBSET Day]
  BY StoreAssumption DEF InitialBars
<1>2. \A t \in Base : Last(InitialBars[t]) \in 0 .. MaxDay
  BY <1>1, LastIs, InitialAssumption, StoreAssumption DEF Day
<1>3. ExitDay \in 0 .. MaxDay
  BY StoreAssumption DEF Day
<1>4. InitialStore \in Store
  BY <1>1, <1>2, <1>3, StoreAssumption DEF InitialStore, Store, NoMembers
<1> QED
  BY <1>1, <1>4, InitialAssumption DEF InitialStore, Whole, NoMembers

LEMMA TypeInit == Init => TypeInv
<1> SUFFICES ASSUME Init PROVE TypeInv
  OBVIOUS
<1>1. TypeOK
  <2>1. Idle \in Job /\ InitialStore \in StoreOrNone
    BY IdleSound, InitialTyped DEF Sound, Whole, StoreOrNone
  <2>2. vendor \in [Ticker -> SUBSET Day]
    BY StoreAssumption DEF Init
  <2> QED
    BY <2>1, <2>2, StoreAssumption DEF Init, TypeOK, NoTmp, Builder, StoreOrNone
<1>2. Paths
  BY InitialTyped DEF Init, Paths, NoTmp
<1>3. \A b \in Builder : Sound(proc[b])
  BY IdleSound DEF Init
<1> QED
  BY <1>1, <1>2, <1>3 DEF TypeInv

-----------------------------------------------------------------------------
(* The types are kept *)

\* Only a builder's locals change, if anything.
LEMMA LocalStep ==
  ASSUME TypeInv, NEW b \in Builder, NEW j, Sound(j), proc' = [proc EXCEPT ![b] = j],
         UNCHANGED <<vendor, at, tmp, old, asked, source, crashes, rebuilt>>, day' \in Day
  PROVE  TypeInv'
BY JobChange DEF TypeInv, TypeOK, Paths

LEMMA ReadType ==
  ASSUME TypeInv, NightlyRead
  PROVE  TypeInv'
<1>1. Whole(at)
  BY DEF NightlyRead, Readable, TypeInv, Paths
<1>2. Sound([Idle EXCEPT !.pc = "fetch", !.seen = at])
  BY <1>1, IdleSound DEF Sound, Idle, Job, Pc, StoreOrNone, Whole
<1> QED
  BY <1>2, LocalStep DEF NightlyRead, Builder, TypeInv, TypeOK

LEMMA NightlyFetchType ==
  ASSUME TypeInv, NightlyFetch
  PROVE  TypeInv'
<1> DEFINE s == proc[Nightly].seen
           bars == [t \in Ticker |-> s.bars[t] \cup Fresh(s, t)]
           plan == [bars |-> bars, files |-> FollowEnds(s, bars)]
<1>1. Nightly \in Builder /\ Whole(s)
  BY DEF NightlyFetch, TypeInv, Sound, Builder
<1>2. plan \in Store
  BY <1>1, RefreshTyped DEF TypeInv, TypeOK
<1>3. Sound([Idle EXCEPT !.pc = "begin", !.plan = plan])
  <2> HIDE DEF plan
  <2> QED
    BY <1>2, IdleSound DEF Sound, Idle, Job, Pc, StoreOrNone
<1>4. \E j : Sound(j) /\ proc' = [proc EXCEPT ![Nightly] = j]
  <2>1. \/ proc' = [proc EXCEPT ![Nightly] = [Idle EXCEPT !.pc = "begin", !.plan = plan]]
        \/ proc' = [proc EXCEPT ![Nightly] = Idle]
    BY DEF NightlyFetch
  <2> QED
    BY <2>1, <1>3, IdleSound
<1> QED
  BY <1>1, <1>4, LocalStep DEF NightlyFetch, TypeInv, TypeOK

LEMMA StartType ==
  ASSUME TypeInv, NEW c \in Thread, StartConfirm(c)
  PROVE  TypeInv'
<1>1. Whole(at) /\ c \in Builder /\ asked[c].tickers \in SUBSET Ticker
  BY DEF StartConfirm, Readable, TypeInv, TypeOK, Paths, Builder
<1>2. /\ Sound([Idle EXCEPT !.pc = "make", !.tickers = asked[c].tickers])
      /\ Sound([Idle EXCEPT !.pc = "fetch", !.tickers = asked[c].tickers, !.seen = at])
  BY <1>1, IdleSound DEF Sound, Idle, Job, Pc, StoreOrNone, Whole
<1>3. \E j : Sound(j) /\ proc' = [proc EXCEPT ![c] = j]
  <2>1. \/ proc' = [proc EXCEPT ![c] = [Idle EXCEPT !.pc = "make", !.tickers = asked[c].tickers]]
        \/ proc' = [proc EXCEPT ![c] =
             [Idle EXCEPT !.pc = "fetch", !.tickers = asked[c].tickers, !.seen = at]]
    BY DEF StartConfirm
  <2> QED
    BY <1>2, <2>1
<1> QED
  BY <1>1, <1>3, LocalStep DEF StartConfirm, TypeInv, TypeOK

LEMMA ThreadFetchType ==
  ASSUME TypeInv, NEW c \in Thread, ThreadFetch(c)
  PROVE  TypeInv'
<1> DEFINE s == proc[c].seen
           gaps == proc[c].tickers \ Tickers(s)
           usable == {t \in gaps : /\ History(s, t) # {}
                                   /\ ~Gapped(History(s, t), Calendar(s))}
           got == [t \in Ticker |-> IF t \in usable THEN History(s, t) ELSE {}]
           short == IF usable = gaps THEN "no" ELSE "yes"
<1>1. c \in Builder /\ Sound(proc[c]) /\ Whole(s)
  BY DEF ThreadFetch, TypeInv, Sound, Builder
<1>2. got \in [Ticker -> SUBSET Day]
  <2>1. \A t \in Ticker : History(s, t) \in SUBSET Day
    BY DEF History, TypeInv, TypeOK
  <2> QED
    BY <2>1
<1>3. Sound([proc[c] EXCEPT !.pc = "bars", !.got = got, !.short = short])
  <2>1. short \in {"no", "yes"}
    OBVIOUS
  <2> HIDE DEF got, short
  <2> QED
    BY <1>1, <1>2, <2>1 DEF Sound, Job, Pc
<1>4. \E j : Sound(j) /\ proc' = [proc EXCEPT ![c] = j]
  <2>1. \/ proc' = [proc EXCEPT ![c] = Idle]
        \/ proc' = [proc EXCEPT ![c] =
             [proc[c] EXCEPT !.pc = "bars", !.got = got, !.short = short]]
    <3>1. proc' = [proc EXCEPT ![c] = IF usable = {} THEN Idle
                     ELSE [@ EXCEPT !.pc = "bars", !.got = got, !.short = short]]
      BY DEF ThreadFetch
    <3> HIDE DEF usable, got, short
    <3> QED
      BY <3>1
  <2> HIDE DEF got, short
  <2> QED
    BY <1>3, <2>1, IdleSound
<1> QED
  BY <1>1, <1>4, LocalStep DEF ThreadFetch, TypeInv, TypeOK

LEMMA ThreadBarsType ==
  ASSUME TypeInv, NEW c \in Thread, ThreadBars(c)
  PROVE  TypeInv'
<1> DEFINE s == proc[c].seen
           plan == [bars |-> [t \in Ticker |-> IF t \in Tickers(s) THEN at.bars[t]
                                               ELSE proc[c].got[t]],
                    files |-> s.files]
           next == [proc[c] EXCEPT !.pc = "begin", !.plan = plan, !.seen = None, !.got = None]
<1>1. c \in Builder /\ Sound(proc[c]) /\ Whole(s) /\ proc[c].got \in [Ticker -> SUBSET Day]
  BY DEF ThreadBars, TypeInv, Sound, Builder
<1>2. ASSUME Readable(at) PROVE Sound(next)
  <2>1. at \in Store
    BY <1>2 DEF TypeInv, Paths, Readable, Whole
  <2>2. plan \in Store
    BY <1>1, <2>1 DEF Whole, Store
  <2> HIDE DEF plan
  <2> QED
    BY <1>1, <2>2 DEF Sound, Job, Pc, StoreOrNone
<1>3. \E j : Sound(j) /\ proc' = [proc EXCEPT ![c] = j]
  <2>1. proc' = [proc EXCEPT ![c] =
          IF /\ Readable(at) /\ Calendar(at) = Calendar(s)
             /\ Tickers(s) \subseteq Tickers(at)
          THEN next ELSE Idle]
    BY DEF ThreadBars
  <2> HIDE DEF next
  <2> QED
    BY <1>2, <2>1, IdleSound
<1> QED
  BY <1>1, <1>3, LocalStep DEF ThreadBars, TypeInv, TypeOK

\* A step of the build: only paths and the builder's locals change.
LEMMA PathStep ==
  ASSUME TypeInv, NEW b \in Builder, NEW j, Sound(j), proc' = [proc EXCEPT ![b] = j],
         UNCHANGED <<day, vendor, asked, source, crashes, rebuilt>>,
         at' \in {None, Partial} \/ Whole(at'), old' \in {None, Partial} \/ Whole(old'),
         tmp' = tmp \/ \E x \in Builder, dir \in StoreOrNone :
                        /\ tmp' = [by |-> x, dir |-> dir]
                        /\ dir \in {None, Partial} \/ Whole(dir)
  PROVE  TypeInv'
<1>1. \A dir : dir \in {None, Partial} \/ Whole(dir) => dir \in StoreOrNone
  BY DEF StoreOrNone, Whole
<1>2. tmp' \in [by : Builder, dir : StoreOrNone]
  BY <1>1 DEF TypeInv, TypeOK
<1>3. TypeOK'
  BY <1>1, <1>2, JobChange DEF TypeInv, TypeOK
<1>4. Paths'
  BY DEF TypeInv, Paths
<1> QED
  BY <1>3, <1>4, JobChange DEF TypeInv

LEMMA BuildType ==
  ASSUME TypeInv, NEW b \in Builder, Build(b)
  PROVE  TypeInv'
<1>1. /\ Sound(proc[b]) /\ {None, Partial} \subseteq StoreOrNone
      /\ at \in {None, Partial} \/ Whole(at)
      /\ old \in {None, Partial} \/ Whole(old)
      /\ tmp.dir \in {None, Partial} \/ Whole(tmp.dir)
      /\ tmp \in [by : Builder, dir : StoreOrNone] /\ Nightly \in Builder
  BY DEF TypeInv, TypeOK, Paths, StoreOrNone, Builder
<1>2. CASE BeginTmp(b)
  <2>1. Sound([proc[b] EXCEPT !.pc = "write"])
    BY <1>1, <1>2 DEF BeginTmp, Sound, Job, Pc
  <2>2. proc' = [proc EXCEPT ![b] = [proc[b] EXCEPT !.pc = "write"]]
    BY <1>2 DEF BeginTmp, Goto
  <2> QED
    BY <1>1, <1>2, <2>1, <2>2, PathStep DEF BeginTmp, Untouched
<1>3. CASE WriteTmp(b)
  <2>1. Sound([proc[b] EXCEPT !.pc = "swap", !.plan = None])
    BY MovedSound
  <2>2. Whole(proc[b].plan)
    BY <1>1, <1>3 DEF WriteTmp, Sound, Whole
  <2>3. tmp' = [by |-> tmp.by, dir |-> proc[b].plan] /\ proc[b].plan \in StoreOrNone
    BY <1>1, <1>3, <2>2 DEF WriteTmp, StoreOrNone, Whole
  <2>4. proc' = [proc EXCEPT ![b] = [proc[b] EXCEPT !.pc = "swap", !.plan = None]]
    BY <1>3 DEF WriteTmp
  <2> QED
    BY <1>1, <1>3, <2>1, <2>2, <2>3, <2>4, PathStep DEF WriteTmp, Untouched
<1>4. CASE Discard(b)
  BY <1>1, <1>4, IdleSound, PathStep DEF Discard, NoTmp, Untouched
<1>5. CASE DropOld(b)
  <2>1. proc' = [proc EXCEPT ![b] = [proc[b] EXCEPT !.pc = "away"]]
    BY <1>5 DEF DropOld, Goto
  <2> QED
    BY <1>1, <1>5, <2>1, MovedSound, PathStep DEF DropOld, Untouched
<1>6. CASE MoveAway(b)
  <2>1. \E j : Sound(j) /\ proc' = [proc EXCEPT ![b] = j]
    <3>1. \/ proc' = [proc EXCEPT ![b] = [proc[b] EXCEPT !.pc = "in"]]
          \/ proc' = [proc EXCEPT ![b] = Idle]
      BY <1>6 DEF MoveAway, Goto
    <3> QED
      BY <3>1, MovedSound, IdleSound
  <2>2. at' \in {at, None} /\ old' \in {at, old} /\ tmp' = tmp
    BY <1>6 DEF MoveAway
  <2> QED
    BY <1>1, <1>6, <2>1, <2>2, PathStep DEF MoveAway, Untouched
<1>7. CASE MoveIn(b)
  <2>1. \E j : Sound(j) /\ proc' = [proc EXCEPT ![b] = j]
    <3>1. \/ proc' = [proc EXCEPT ![b] = [proc[b] EXCEPT !.pc = "clean"]]
          \/ proc' = [proc EXCEPT ![b] = Idle]
      BY <1>7 DEF MoveIn, Goto
    <3> QED
      BY <3>1, MovedSound, IdleSound
  <2>2. at' \in {at, tmp.dir} /\ old' = old /\ tmp' \in {tmp, NoTmp}
    BY <1>7 DEF MoveIn
  <2> QED
    BY <1>1, <1>7, <2>1, <2>2, PathStep DEF MoveIn, Untouched, NoTmp
<1>8. CASE DropBackup(b)
  <2> DEFINE next == [Idle EXCEPT !.pc = "make", !.tickers = proc[b].tickers]
  <2>1. Sound(next)
    BY <1>1, IdleSound DEF Sound, Idle, Job, Pc, StoreOrNone
  <2>2. \E j : Sound(j) /\ proc' = [proc EXCEPT ![b] = j]
    <3>1. proc' = [proc EXCEPT ![b] = IF b \in Thread /\ proc[b].short = "no"
                                      THEN next ELSE Idle]
      BY <1>8 DEF DropBackup
    <3> HIDE DEF next
    <3> QED
      BY <2>1, <3>1, IdleSound
  <2> QED
    BY <1>1, <1>8, <2>2, PathStep DEF DropBackup, Untouched
<1> QED
  BY <1>2, <1>3, <1>4, <1>5, <1>6, <1>7, <1>8 DEF Build

LEMMA MakingType ==
  ASSUME TypeInv, NEW c \in Thread,
         MakeUniverse(c) \/ MakeSource(c) \/ MarkConfirmed(c)
  PROVE  TypeInv'
<1> DEFINE u == UniverseOf[c]
<1>1. c \in Builder /\ u \in Universe /\ Sound(proc[c]) /\ proc[c].tickers \in SUBSET Ticker
  BY DEF TypeInv, Builder, Universe, Sound, Job
<1>2. Readable(at) => Whole(at)
  BY DEF Readable, TypeInv, Paths
<1>3. CASE MakeUniverse(c)
  <2>1. \E j : Sound(j) /\ proc' = [proc EXCEPT ![c] = j]
    <3>1. \/ proc' = [proc EXCEPT ![c] = [proc[c] EXCEPT !.pc = "source"]]
          \/ proc' = [proc EXCEPT ![c] = Idle]
      BY <1>3 DEF MakeUniverse, Goto
    <3> QED
      BY <3>1, <1>1, MovedSound, IdleSound
  <2>2. at' = at \/ Whole(at')
    <3>1. CASE Readable(at) /\ proc[c].tickers \subseteq Tickers(at)
      <4>1. at' = Made(at, u, proc[c].tickers)
        BY <1>3, <3>1 DEF MakeUniverse, Made
      <4>2. Whole(Made(at, u, proc[c].tickers))
        BY <1>1, <1>2, <3>1, MadeWhole
      <4> QED
        BY <4>1, <4>2
    <3> QED
      BY <1>3, <3>1 DEF MakeUniverse
  <2>3. (at' \in {None, Partial} \/ Whole(at')) /\ (old \in {None, Partial} \/ Whole(old))
    BY <2>2 DEF TypeInv, Paths
  <2> QED
    BY <1>1, <1>3, <2>1, <2>3, PathStep DEF MakeUniverse, Untouched
<1>4. CASE MakeSource(c)
  <2>1. \E j : Sound(j) /\ proc' = [proc EXCEPT ![c] = j]
    <3>1. \/ proc' = [proc EXCEPT ![c] = [proc[c] EXCEPT !.pc = "confirm"]]
          \/ proc' = [proc EXCEPT ![c] = Idle]
      BY <1>4 DEF MakeSource, Goto
    <3> QED
      BY <3>1, <1>1, MovedSound, IdleSound
  <2>2. source' \in [Universe -> SUBSET Ticker]
    BY <1>4 DEF MakeSource, TypeInv, TypeOK, Members
  <2> QED
    BY <1>1, <1>4, <2>1, <2>2, JobChange DEF MakeSource, TypeInv, TypeOK, Paths
<1>5. CASE MarkConfirmed(c)
  <2>1. asked' \in [Thread -> [tickers : SUBSET Ticker,
                               status : {"none", "proposed", "confirmed"}]]
    BY <1>5 DEF MarkConfirmed, TypeInv, TypeOK
  <2> QED
    BY <1>1, <1>5, <2>1, JobChange, IdleSound DEF MarkConfirmed, TypeInv, TypeOK, Paths
<1> QED
  BY <1>3, <1>4, <1>5

LEMMA TypeKept == TypeInv /\ [Next]_vars => TypeInv'
<1> SUFFICES ASSUME TypeInv, [Next]_vars PROVE TypeInv'
  OBVIOUS
<1>1. CASE NextDay
  <2>1. day' \in Day
    BY <1>1, StoreAssumption DEF NextDay, TypeInv, TypeOK, Day
  <2>2. vendor' \in [Ticker -> SUBSET Day]
    BY <1>1, StoreAssumption DEF NextDay, TypeInv, TypeOK
  <2> QED
    BY <1>1, <2>1, <2>2 DEF NextDay, TypeInv, TypeOK, Paths
<1>2. ASSUME NEW t \in Ticker, NEW d \in Day, Publish(t, d) PROVE TypeInv'
  <2>1. vendor' \in [Ticker -> SUBSET Day]
    BY <1>2 DEF Publish, TypeInv, TypeOK
  <2> QED
    BY <1>2, <2>1 DEF Publish, TypeInv, TypeOK, Paths
<1>3. CASE NightlyRead
  BY <1>3, ReadType
<1>4. CASE NightlyFetch
  BY <1>4, NightlyFetchType
<1>5. CASE OperatorFetch
  <2> DEFINE plan == [bars |-> [t \in Ticker |->
                             IF t \in Base THEN vendor[t] \cap (1 .. day) ELSE {}],
                      files |-> [u \in Universe |-> NoMembers]]
  <2>1. plan \in Store
    BY StoreAssumption DEF Store, NoMembers, TypeInv, TypeOK
  <2>2. Sound([Idle EXCEPT !.pc = "begin", !.plan = plan])
    <3> HIDE DEF plan
    <3> QED
      BY <2>1, IdleSound DEF Sound, Idle, Job, Pc, StoreOrNone
  <2> QED
    BY <1>5, <2>2, JobChange DEF OperatorFetch, TypeInv, TypeOK, Paths, Builder
<1>6. ASSUME NEW c \in Thread, Confirmation(c) PROVE TypeInv'
  BY <1>6, StartType, ThreadFetchType, ThreadBarsType, MakingType DEF Confirmation
<1>7. ASSUME NEW c \in Thread, NEW tickers \in Request, SetUniverse(c, tickers)
      PROVE  TypeInv'
  <2>1. asked' \in [Thread -> [tickers : SUBSET Ticker,
                               status : {"none", "proposed", "confirmed"}]]
    BY <1>7, StoreAssumption DEF SetUniverse, TypeInv, TypeOK
  <2> QED
    BY <1>7, <2>1 DEF SetUniverse, TypeInv, TypeOK, Paths
<1>8. ASSUME NEW b \in Builder, FetchFails(b) \/ Crash(b) PROVE TypeInv'
  <2>1. crashes' \in 0 .. MaxCrashes
    BY <1>8, StoreAssumption DEF FetchFails, Crash, TypeInv, TypeOK
  <2> QED
    BY <1>8, <2>1, IdleSound, JobChange DEF FetchFails, Crash, TypeInv, TypeOK, Paths
<1>9. ASSUME NEW b \in Builder, Build(b) PROVE TypeInv'
  BY <1>9, BuildType
<1>10. CASE UNCHANGED vars
  BY <1>10 DEF vars, TypeInv, TypeOK, Paths
<1> QED
  BY <1>1, <1>2, <1>3, <1>4, <1>5, <1>6, <1>7, <1>8, <1>9, <1>10 DEF Next

\* Whatever overlaps, everything keeps its type, and a complete store under any
\* of the three names is one that validation passes.
THEOREM TypeCorrect == Spec => [](TypeOK /\ Paths)
<1>1. TypeInv => TypeOK /\ Paths
  BY DEF TypeInv
<1> QED
  BY TypeInit, TypeKept, <1>1, PTL DEF Spec

-----------------------------------------------------------------------------
(* One builder at a time: the invariant *)

\* What a rebuild keeps of the store it was made from.
Carries(new, s) ==
  /\ \A t \in Ticker : s.bars[t] \subseteq new.bars[t]
  /\ \A u \in Universe : Members(new, u) = Members(s, u)

\* Every membership ends where it should, the early exit before the last bar.
SpansEnd(s) ==
  /\ \E d \in s.bars[Exited] : d > ExitDay
  /\ \A u \in Universe : \A t \in Members(s, u) :
       s.files[u][t] = IF u = Pit /\ t = Exited THEN ExitDay ELSE End(s, t)

\* No two threads give their universes one name.  The chat does not see to it.
NamesDistinct == \A c, d \in Thread : UniverseOf[c] = UniverseOf[d] => c = d

\* The store has what the threads have confirmed.
Built(s) ==
  NamesDistinct =>
    \A c \in Thread : asked[c].status = "confirmed" =>
      /\ Members(s, UniverseOf[c]) = asked[c].tickers
      /\ source[UniverseOf[c]] = asked[c].tickers

Sole == \A b, c \in Builder : proc[b].pc # "idle" /\ proc[c].pc # "idle" => b = c

NoRemains == at # Partial /\ old # Partial

Promised ==
  rebuilt = "no" =>
    /\ \E dir \in {at, tmp.dir, old} : dir \notin {None, Partial}
    /\ Readable(at) => SpansEnd(at) /\ Built(at)
    /\ Readable(at) /\ Readable(old) =>
         /\ \A t \in Ticker : old.bars[t] \subseteq at.bars[t]
         /\ Members(old, Pit) \subseteq Members(at, Pit)

\* A confirmation is about what its thread has proposed.
Asking(b) ==
  b \in Thread /\ proc[b].pc # "idle" =>
    asked[b].status = "proposed" /\ proc[b].tickers = asked[b].tickers

\* What was read is still there; what was fetched for a new ticker fits it.
Fetching(b) ==
  /\ proc[b].pc \in {"fetch", "bars"} => Readable(at) /\ proc[b].seen = at
  /\ proc[b].pc = "bars" =>
       \A t \in Ticker : proc[b].got[t] # {} =>
         /\ proc[b].got[t] \subseteq Calendar(at)
         /\ ~Gapped(proc[b].got[t], Calendar(at))

\* A plan carries the store, unless there is none; an extension adds no day and
\* passes validation.
Planned(b) ==
  proc[b].pc \in {"begin", "write"} =>
    /\ b # Operator => Readable(at) /\ Carries(proc[b].plan, at)
    /\ b = Operator => at = None /\ rebuilt = "yes"
    /\ rebuilt = "no" => SpansEnd(proc[b].plan)
    /\ b \in Thread => /\ Readable(at)
                       /\ Calendar(proc[b].plan) = Calendar(at) /\ Valid(proc[b].plan)

\* The store being moved in carries the one moved out; the operator's replaces
\* none.
Swapping(b) ==
  /\ proc[b].pc \in {"swap", "away", "in"} =>
       /\ Whole(tmp.dir)
       /\ b = Operator => at = None /\ rebuilt = "yes"
       /\ rebuilt = "no" => SpansEnd(tmp.dir)
  /\ proc[b].pc \in {"swap", "away"} /\ b # Operator =>
       Readable(at) /\ Carries(tmp.dir, at)
  /\ proc[b].pc = "away" => old = None
  /\ proc[b].pc = "in" => at = None
  /\ proc[b].pc = "in" /\ b # Operator => Readable(old) /\ Carries(tmp.dir, old)
  /\ proc[b].pc = "in" /\ b = Operator => old = None
  /\ proc[b].pc = "in" /\ rebuilt = "no" => Built(tmp.dir)
  /\ proc[b].pc = "clean" => Readable(at)
  /\ proc[b].pc = "clean" /\ rebuilt = "no" => Readable(old) /\ Carries(at, old)

\* What a confirmation has made so far.
Making(b) ==
  /\ proc[b].pc \in {"bars", "make", "source", "confirm"} => b \in Thread
  /\ proc[b].pc \in {"source", "confirm"} =>
       Readable(at) /\ Members(at, UniverseOf[b]) = proc[b].tickers
  /\ proc[b].pc = "confirm" => source[UniverseOf[b]] = proc[b].tickers

Locals(b) == Asking(b) /\ Fetching(b) /\ Planned(b) /\ Swapping(b) /\ Making(b)

Inv == TypeInv /\ Sole /\ NoRemains /\ Promised /\ \A b \in Builder : Locals(b)

-----------------------------------------------------------------------------
(* What the plans carry *)

LEMMA CarriesBuilt ==
  ASSUME NEW s, NEW new, Built(s), Carries(new, s)
  PROVE  Built(new)
BY DEF Built, Carries, Universe

\* A refresh carries the store it has read, and moves the open ends.
LEMMA RefreshCarries ==
  ASSUME NEW s, Whole(s), vendor \in [Ticker -> SUBSET Day],
         NEW bars, bars = [t \in Ticker |-> s.bars[t] \cup Fresh(s, t)],
         NEW plan, plan = [bars |-> bars, files |-> FollowEnds(s, bars)]
  PROVE  Carries(plan, s) /\ (SpansEnd(s) => SpansEnd(plan))
<1>1. bars \in [Ticker -> SUBSET Day] /\ plan.bars = bars
  BY RefreshTyped
<1>2. \A t \in Ticker : s.bars[t] \subseteq plan.bars[t]
  BY <1>1
<1>3. ASSUME NEW u \in Universe, NEW t \in Ticker, s.files[u][t] # 0
      PROVE  /\ plan.files[u][t] # 0
             /\ SpansEnd(s) =>
                  plan.files[u][t] = IF u = Pit /\ t = Exited THEN ExitDay ELSE End(plan, t)
  <2>1. s.bars[t] # {} /\ t \in Members(s, u)
    BY <1>3, MemberHasBars DEF Members
  <2>2. End(s, t) \in Nat /\ \A d \in s.bars[t] : End(s, t) >= d
    BY <2>1, EndIs DEF Whole, Day
  <2>3. plan.files[u][t] = IF s.files[u][t] >= End(s, t) THEN Last(bars[t]) ELSE s.files[u][t]
    BY <1>3 DEF FollowEnds
  <2>4. Last(bars[t]) \in Day /\ Last(bars[t]) = End(plan, t)
    BY <1>1, <1>2, <2>1, LastIs DEF End
  <2>5. CASE SpansEnd(s) /\ u = Pit /\ t = Exited
    <3>1. s.files[u][t] = ExitDay /\ ExitDay \in Nat \ {0}
      BY <2>1, <2>5, StoreAssumption DEF SpansEnd
    <3>2. ~(ExitDay >= End(s, t))
      <4>1. PICK d \in s.bars[t] : d > ExitDay
        BY <2>5 DEF SpansEnd
      <4>2. d \in Nat /\ End(s, t) >= d
        BY <2>2, <4>1 DEF Whole, Store, Day
      <4> QED
        BY <2>2, <3>1, <4>1, <4>2
    <3> QED
      BY <2>3, <2>5, <3>1, <3>2
  <2>6. CASE SpansEnd(s) /\ ~(u = Pit /\ t = Exited)
    <3>1. s.files[u][t] = End(s, t)
      BY <2>1, <2>6 DEF SpansEnd
    <3> QED
      BY <2>2, <2>3, <2>4, <2>6, <3>1 DEF Day
  <2> QED
    BY <1>3, <2>3, <2>4, <2>5, <2>6, StoreAssumption DEF Day
<1>4. ASSUME NEW u \in Universe, NEW t \in Ticker, s.files[u][t] = 0
      PROVE  plan.files[u][t] = 0
  BY <1>4 DEF FollowEnds
<1>5. \A u \in Universe : Members(plan, u) = Members(s, u)
  BY <1>3, <1>4 DEF Members
<1>6. ASSUME SpansEnd(s) PROVE SpansEnd(plan)
  <2>1. \E d \in plan.bars[Exited] : d > ExitDay
    BY <1>2, <1>6, StoreAssumption DEF SpansEnd
  <2> QED
    BY <1>3, <1>5, <1>6, <2>1 DEF SpansEnd, Members
<1> QED
  BY <1>2, <1>5, <1>6 DEF Carries

\* An extension of a store by bars on its own trading days carries it, adds no
\* day, and passes validation.
LEMMA ExtensionFits ==
  ASSUME NEW s, Whole(s), NEW got \in [Ticker -> SUBSET Day],
         \A t \in Ticker : got[t] # {} =>
           got[t] \subseteq Calendar(s) /\ ~Gapped(got[t], Calendar(s)),
         NEW plan,
         plan = [bars |-> [t \in Ticker |-> IF t \in Tickers(s) THEN s.bars[t] ELSE got[t]],
                 files |-> s.files]
  PROVE  /\ Carries(plan, s) /\ Calendar(plan) = Calendar(s) /\ Valid(plan)
         /\ SpansEnd(s) => SpansEnd(plan)
<1>1. \A t \in Ticker : plan.bars[t] = IF s.bars[t] # {} THEN s.bars[t] ELSE got[t]
  BY DEF Tickers
<1>2. plan.files = s.files
  OBVIOUS
<1>3. Carries(plan, s)
  BY <1>1, <1>2 DEF Carries, Members
<1>4. Calendar(plan) = Calendar(s)
  <2>1. Calendar(s) \subseteq Calendar(plan)
    BY <1>1 DEF Calendar
  <2>2. Calendar(plan) \subseteq Calendar(s)
    BY <1>1 DEF Calendar
  <2> QED
    BY <2>1, <2>2
<1>5. Valid(plan)
  <2>1. Tickers(s) \subseteq Tickers(plan)
    BY <1>1 DEF Tickers
  <2>2. \A t \in Tickers(plan) : ~Gapped(plan.bars[t], Calendar(plan))
    BY <1>1, <1>4 DEF Tickers, Whole, Valid
  <2>3. \A u \in Universe : Members(plan, u) = Members(s, u)
    BY <1>3 DEF Carries
  <2> QED
    BY <2>1, <2>2, <2>3 DEF Whole, Valid
<1>6. ASSUME SpansEnd(s) PROVE SpansEnd(plan)
  <2>1. ASSUME NEW u \in Universe, NEW t \in Members(s, u) PROVE End(plan, t) = End(s, t)
    BY <1>1, MemberHasBars DEF Members, End
  <2>2. \A u \in Universe : Members(plan, u) = Members(s, u)
    BY <1>3 DEF Carries
  <2>3. \E d \in plan.bars[Exited] : d > ExitDay
    BY <1>3, <1>6, StoreAssumption DEF Carries, SpansEnd
  <2> QED
    BY <1>2, <1>6, <2>1, <2>2, <2>3 DEF SpansEnd
<1> QED
  BY <1>3, <1>4, <1>5, <1>6

-----------------------------------------------------------------------------
(* One builder at a time: the steps *)

LEMMA InitHolds == Init => Inv
<1> SUFFICES ASSUME Init PROVE Inv
  OBVIOUS
<1>1. TypeInv
  BY TypeInit
<1>2. at = InitialStore /\ old = None /\ tmp = NoTmp /\ Readable(at) /\ ~Readable(old)
  BY InitialAssumption, InitialTyped DEF Init, Readable, Whole
<1>3. SpansEnd(InitialStore)
  <2>1. \A u \in Universe, t \in Ticker : InitialStore.files[u][t] # 0 => u = Pit /\ t \in Base
    BY InitialTyped, StoreAssumption
  <2>2. \A t \in Ticker : End(InitialStore, t) = Last(InitialBars[t])
    BY InitialTyped DEF End
  <2>3. \A t \in Base :
          InitialStore.files[Pit][t] = IF t = Exited THEN ExitDay ELSE End(InitialStore, t)
    BY <2>2, InitialTyped, StoreAssumption DEF Universe
  <2>4. \E d \in InitialStore.bars[Exited] : d > ExitDay
    BY InitialTyped, InitialAssumption
  <2> QED
    BY <2>1, <2>3, <2>4 DEF SpansEnd, Members
<1>4. Built(InitialStore)
  BY DEF Init, Built
<1>5. Promised /\ NoRemains
  BY <1>2, <1>3, <1>4, InitialAssumption DEF Promised, NoRemains, Readable
<1>6. Sole /\ \A b \in Builder : Locals(b)
  BY DEF Init, Idle, Sole, Locals, Asking, Fetching, Planned, Swapping, Making
<1> QED
  BY <1>1, <1>5, <1>6 DEF Inv

LEMMA RestingLocals ==
  ASSUME NEW b \in Builder, proc'[b].pc = "idle"
  PROVE  Locals(b)'
BY DEF Locals, Asking, Fetching, Planned, Swapping, Making

\* The builder at work takes a step; the others rest.
LEMMA SoleStep ==
  ASSUME Inv, TypeInv', NEW b \in Builder, NEW j, proc' = [proc EXCEPT ![b] = j],
         proc[b].pc # "idle" \/ Working = {}, NoRemains', Promised', Locals(b)'
  PROVE  Inv'
<1>1. \A x \in Builder \ {b} : proc[x].pc = "idle"
  BY DEF Inv, Sole, Working
<1>2. \A x \in Builder \ {b} : proc'[x].pc = "idle"
  BY <1>1 DEF Inv, TypeInv, TypeOK
<1>3. Sole'
  BY <1>2 DEF Sole
<1>4. \A x \in Builder : Locals(x)'
  BY <1>2, RestingLocals
<1> QED
  BY <1>3, <1>4 DEF Inv

\* A step that changes neither a path nor a table.
LEMMA QuietStep ==
  ASSUME Inv, TypeInv', NEW b \in Builder, NEW j, proc' = [proc EXCEPT ![b] = j],
         proc[b].pc # "idle" \/ Working = {},
         UNCHANGED <<at, tmp, old, asked, source, rebuilt>>,
         j.pc = "idle" \/ Locals(b)'
  PROVE  Inv'
<1>1. NoRemains' /\ Promised'
  BY DEF Inv, NoRemains, Promised, Readable, SpansEnd, Built, Members, End, Last, Max
<1>2. proc'[b] = j
  BY DEF Inv, TypeInv, TypeOK
<1>3. Locals(b)'
  BY <1>2, RestingLocals
<1> QED
  BY <1>1, <1>3, SoleStep

\* The store at the path, when it is there.
LEMMA PathHolds ==
  ASSUME Inv, Readable(at)
  PROVE  /\ Whole(at)
         /\ rebuilt = "no" => SpansEnd(at) /\ Built(at)
BY DEF Inv, TypeInv, Paths, Readable, Promised

LEMMA ReadStep ==
  ASSUME Overlap = FALSE, Inv, TypeInv', NightlyRead
  PROVE  Inv'
<1> DEFINE j == [Idle EXCEPT !.pc = "fetch", !.seen = at]
<1>1. Nightly \in Builder /\ Nightly \notin Thread /\ j.pc = "fetch" /\ j.seen = at
  BY StoreAssumption DEF Builder, Idle
<1>2. proc' = [proc EXCEPT ![Nightly] = j] /\ Working = {}
  BY DEF NightlyRead, MayStart
<1>3. proc'[Nightly] = j
  BY <1>1, <1>2 DEF Inv, TypeInv, TypeOK
<1>4. Locals(Nightly)'
  <2> HIDE DEF j
  <2> QED
    BY <1>1, <1>3 DEF NightlyRead, Readable, Locals, Asking, Fetching, Planned,
         Swapping, Making
<1> QED
  BY <1>1, <1>2, <1>4, QuietStep DEF NightlyRead

LEMMA NightlyFetchStep ==
  ASSUME Inv, TypeInv', NightlyFetch
  PROVE  Inv'
<1> DEFINE s == proc[Nightly].seen
           bars == [t \in Ticker |-> s.bars[t] \cup Fresh(s, t)]
           plan == [bars |-> bars, files |-> FollowEnds(s, bars)]
           j == [Idle EXCEPT !.pc = "begin", !.plan = plan]
<1>1. /\ Nightly \in Builder /\ Nightly \notin Thread /\ Nightly # Operator
      /\ j.pc = "begin" /\ j.plan = plan
  BY StoreAssumption DEF Builder, Idle
<1>2. /\ proc[Nightly].pc = "fetch" /\ Readable(at) /\ s = at
      /\ UNCHANGED <<at, tmp, old, asked, source, rebuilt>>
  BY <1>1 DEF NightlyFetch, Inv, Locals, Fetching
<1>3. Carries(plan, at) /\ (rebuilt = "no" => SpansEnd(plan))
  <2>1. Whole(s) /\ vendor \in [Ticker -> SUBSET Day]
    BY <1>2, PathHolds DEF Inv, TypeInv, TypeOK
  <2>2. Carries(plan, s) /\ (SpansEnd(s) => SpansEnd(plan))
    BY <2>1, RefreshCarries
  <2> QED
    BY <1>2, <2>2, PathHolds
<1>4. \/ proc' = [proc EXCEPT ![Nightly] = j]
      \/ proc' = [proc EXCEPT ![Nightly] = Idle]
  BY DEF NightlyFetch
<1>5. CASE proc' = [proc EXCEPT ![Nightly] = j]
  <2> HIDE DEF plan, j
  <2>1. proc'[Nightly] = j
    BY <1>1, <1>5 DEF Inv, TypeInv, TypeOK
  <2>3. Planned(Nightly)'
    BY <1>1, <1>2, <1>3, <2>1 DEF Planned, Carries, SpansEnd, Readable
  <2>4. Locals(Nightly)'
    BY <1>1, <2>1, <2>3 DEF Locals, Asking, Fetching, Swapping, Making
  <2> QED
    BY <1>1, <1>2, <1>5, <2>4, QuietStep
<1>6. CASE proc' = [proc EXCEPT ![Nightly] = Idle]
  BY <1>1, <1>2, <1>6, QuietStep DEF Idle
<1> QED
  BY <1>4, <1>5, <1>6

LEMMA StartStep ==
  ASSUME Overlap = FALSE, Inv, TypeInv', NEW c \in Thread, StartConfirm(c)
  PROVE  Inv'
<1> DEFINE make == [Idle EXCEPT !.pc = "make", !.tickers = asked[c].tickers]
           fetch == [Idle EXCEPT !.pc = "fetch", !.tickers = asked[c].tickers, !.seen = at]
<1>1. /\ c \in Builder /\ Working = {} /\ asked[c].status = "proposed" /\ Readable(at)
      /\ UNCHANGED <<at, tmp, old, asked, source, rebuilt>>
  BY DEF StartConfirm, MayStart, Builder
<1>2. /\ make.pc = "make" /\ make.tickers = asked[c].tickers
      /\ fetch.pc = "fetch" /\ fetch.tickers = asked[c].tickers /\ fetch.seen = at
  BY DEF Idle
<1>3. \/ proc' = [proc EXCEPT ![c] = make]
      \/ proc' = [proc EXCEPT ![c] = fetch]
  BY DEF StartConfirm
<1> HIDE DEF make, fetch
<1>4. PICK j \in {make, fetch} : proc' = [proc EXCEPT ![c] = j]
  BY <1>3
<1>5. proc'[c] = j
  BY <1>1, <1>4 DEF Inv, TypeInv, TypeOK
<1>6. Locals(c)'
  BY <1>1, <1>2, <1>5 DEF Readable, Locals, Asking, Fetching, Planned, Swapping, Making
<1> QED
  BY <1>1, <1>4, <1>6, QuietStep

LEMMA ThreadFetchStep ==
  ASSUME Inv, TypeInv', NEW c \in Thread, ThreadFetch(c)
  PROVE  Inv'
<1> DEFINE s == proc[c].seen
           gaps == proc[c].tickers \ Tickers(s)
           usable == {t \in gaps : /\ History(s, t) # {}
                                   /\ ~Gapped(History(s, t), Calendar(s))}
           got == [t \in Ticker |-> IF t \in usable THEN History(s, t) ELSE {}]
           j == [proc[c] EXCEPT !.pc = "bars", !.got = got,
                                !.short = IF usable = gaps THEN "no" ELSE "yes"]
<1>1. /\ c \in Builder /\ proc[c].pc = "fetch" /\ Readable(at) /\ s = at
      /\ UNCHANGED <<at, tmp, old, asked, source, rebuilt>>
      /\ asked[c].status = "proposed" /\ proc[c].tickers = asked[c].tickers
      /\ proc[c] \in Job
  BY DEF ThreadFetch, Builder, Inv, TypeInv, Sound, Locals, Fetching, Asking
<1>2. /\ j.pc = "bars" /\ j.seen = at /\ j.got = got /\ j.tickers = proc[c].tickers
  BY <1>1 DEF Job
<1>3. \A t \in Ticker : got[t] # {} =>
        got[t] \subseteq Calendar(at) /\ ~Gapped(got[t], Calendar(at))
  BY <1>1 DEF History
<1>4. \/ proc' = [proc EXCEPT ![c] = j]
      \/ proc' = [proc EXCEPT ![c] = Idle]
  <2>1. proc' = [proc EXCEPT ![c] = IF usable = {} THEN Idle
                   ELSE [@ EXCEPT !.pc = "bars", !.got = got,
                                  !.short = IF usable = gaps THEN "no" ELSE "yes"]]
    BY DEF ThreadFetch
  <2> HIDE DEF usable, got
  <2> QED
    BY <2>1
<1>5. CASE proc' = [proc EXCEPT ![c] = j]
  <2> HIDE DEF got, j, s
  <2>1. proc'[c] = j
    BY <1>1, <1>5 DEF Inv, TypeInv, TypeOK
  <2>2. Fetching(c)'
    BY <1>1, <1>2, <1>3, <2>1 DEF Fetching, Readable, Calendar, Gapped
  <2>3. Locals(c)'
    BY <1>1, <1>2, <2>1, <2>2 DEF Locals, Asking, Planned, Swapping, Making
  <2> QED
    BY <1>1, <1>5, <2>3, QuietStep
<1>6. CASE proc' = [proc EXCEPT ![c] = Idle]
  BY <1>1, <1>6, QuietStep DEF Idle
<1> QED
  BY <1>4, <1>5, <1>6

LEMMA ThreadBarsStep ==
  ASSUME Inv, TypeInv', NEW c \in Thread, ThreadBars(c)
  PROVE  Inv'
<1> DEFINE s == proc[c].seen
           plan == [bars |-> [t \in Ticker |-> IF t \in Tickers(s) THEN at.bars[t]
                                               ELSE proc[c].got[t]],
                    files |-> s.files]
           j == [proc[c] EXCEPT !.pc = "begin", !.plan = plan, !.seen = None, !.got = None]
<1>1. /\ c \in Builder /\ proc[c].pc = "bars" /\ Readable(at) /\ s = at
      /\ UNCHANGED <<at, tmp, old, asked, source, rebuilt>>
      /\ asked[c].status = "proposed" /\ proc[c].tickers = asked[c].tickers
      /\ proc[c] \in Job /\ proc[c].got \in [Ticker -> SUBSET Day]
  BY DEF ThreadBars, Builder, Inv, TypeInv, Sound, Locals, Fetching, Asking
<1>2. /\ j.pc = "begin" /\ j.plan = plan /\ j.tickers = proc[c].tickers
      /\ c # Operator
  BY <1>1, StoreAssumption DEF Job
<1>3. /\ Carries(plan, at) /\ Calendar(plan) = Calendar(at) /\ Valid(plan)
      /\ rebuilt = "no" => SpansEnd(plan)
  <2>1. \A t \in Ticker : proc[c].got[t] # {} =>
          proc[c].got[t] \subseteq Calendar(at) /\ ~Gapped(proc[c].got[t], Calendar(at))
    BY <1>1 DEF Inv, Locals, Fetching
  <2> QED
    BY <1>1, <2>1, PathHolds, ExtensionFits
<1>4. \/ proc' = [proc EXCEPT ![c] = j]
      \/ proc' = [proc EXCEPT ![c] = Idle]
  <2>1. proc' = [proc EXCEPT ![c] =
          IF /\ Readable(at) /\ Calendar(at) = Calendar(s)
             /\ Tickers(s) \subseteq Tickers(at)
          THEN j ELSE Idle]
    BY DEF ThreadBars
  <2> HIDE DEF j
  <2> QED
    BY <2>1
<1> HIDE DEF plan, j
<1>5. CASE proc' = [proc EXCEPT ![c] = j]
  <2>1. proc'[c] = j
    BY <1>1, <1>5 DEF Inv, TypeInv, TypeOK
  <2>2. proc'[c].plan = plan /\ at' = at /\ rebuilt' = rebuilt
    BY <1>1, <1>2, <2>1
  <2>3. Planned(c)'
    BY <1>1, <1>2, <1>3, <2>2 DEF Planned, Readable
  <2>4. Locals(c)'
    BY <1>1, <1>2, <2>1, <2>3 DEF Locals, Asking, Fetching, Swapping, Making
  <2> QED
    BY <1>1, <1>5, <2>4, QuietStep
<1>6. CASE proc' = [proc EXCEPT ![c] = Idle]
  BY <1>1, <1>6, QuietStep DEF Idle
<1> QED
  BY <1>4, <1>5, <1>6

\* While the store is at its path, the temporary directory may change.
LEMMA TmpStep ==
  ASSUME Inv, UNCHANGED <<at, old, asked, source, rebuilt>>,
         rebuilt = "no" => Readable(at)
  PROVE  NoRemains' /\ Promised'
BY DEF Inv, NoRemains, Promised, Readable, SpansEnd, Built

\* A builder that moves on keeps the rest of what it knows.
LEMMA Moved ==
  ASSUME Inv, NEW b \in Builder, NEW pc, Goto(b, pc)
  PROVE  /\ proc' = [proc EXCEPT ![b] = [proc[b] EXCEPT !.pc = pc]]
         /\ proc'[b].pc = pc /\ proc'[b].tickers = proc[b].tickers
         /\ proc'[b].plan = proc[b].plan
BY DEF Inv, TypeInv, TypeOK, Job, Goto

LEMMA BeginStep ==
  ASSUME Inv, TypeInv', NEW b \in Builder, BeginTmp(b)
  PROVE  Inv'
<1>1. /\ proc[b].pc = "begin" /\ Goto(b, "write")
      /\ UNCHANGED <<at, old, asked, source, rebuilt>> /\ Locals(b)
  BY DEF BeginTmp, Untouched, Inv
<1>2. NoRemains' /\ Promised'
  BY <1>1, TmpStep DEF Locals, Planned
<1>3. Planned(b)'
  BY <1>1, Moved DEF Locals, Planned, Readable
<1>4. Locals(b)'
  BY <1>1, <1>3, Moved DEF Locals, Asking, Fetching, Swapping, Making
<1> QED
  BY <1>1, <1>2, <1>4, Moved, SoleStep

LEMMA WriteStep ==
  ASSUME Inv, TypeInv', NEW b \in Builder, WriteTmp(b)
  PROVE  Inv'
<1> DEFINE j == [proc[b] EXCEPT !.pc = "swap", !.plan = None]
<1>1. /\ proc[b].pc = "write" /\ proc' = [proc EXCEPT ![b] = j]
      /\ UNCHANGED <<at, old, asked, source, rebuilt>> /\ Locals(b)
      /\ Valid(proc[b].plan) /\ tmp' = [tmp EXCEPT !.dir = proc[b].plan]
  BY DEF WriteTmp, Untouched, Inv
<1>2. proc[b] \in Job /\ proc[b].plan \in Store /\ tmp \in [by : Builder, dir : StoreOrNone]
  BY <1>1 DEF Inv, TypeInv, TypeOK, Sound
<1>3. /\ proc'[b].pc = "swap" /\ proc'[b].tickers = proc[b].tickers
      /\ tmp'.dir = proc[b].plan
  BY <1>1, <1>2 DEF Inv, TypeInv, TypeOK, Job
<1>4. NoRemains' /\ Promised'
  BY <1>1, TmpStep DEF Locals, Planned
<1>5. Swapping(b)'
  BY <1>1, <1>2, <1>3 DEF Locals, Planned, Swapping, Whole, Readable
<1>6. Locals(b)'
  BY <1>1, <1>3, <1>5 DEF Locals, Asking, Fetching, Planned, Making
<1> QED
  BY <1>1, <1>4, <1>6, SoleStep

\* A builder that gives up, with the store at its path.
LEMMA DiscardStep ==
  ASSUME Inv, TypeInv', NEW b \in Builder, Discard(b)
  PROVE  Inv'
<1>1. /\ proc[b].pc = "write" /\ proc' = [proc EXCEPT ![b] = Idle] /\ Locals(b)
      /\ UNCHANGED <<at, old, asked, source, rebuilt>> /\ Idle.pc = "idle"
  BY DEF Discard, Untouched, Inv, Idle
<1>2. NoRemains' /\ Promised'
  BY <1>1, TmpStep DEF Locals, Planned
<1>3. proc'[b].pc = "idle"
  BY <1>1 DEF Inv, TypeInv, TypeOK
<1> QED
  BY <1>1, <1>2, <1>3, RestingLocals, SoleStep

LEMMA DropOldStep ==
  ASSUME Inv, TypeInv', NEW b \in Builder, DropOld(b)
  PROVE  Inv'
<1>1. /\ proc[b].pc = "swap" /\ Goto(b, "away") /\ old' = None /\ Locals(b)
      /\ UNCHANGED <<at, tmp, asked, source, rebuilt>>
      /\ rebuilt = "no" => Readable(at)
  BY DEF DropOld, Untouched, Inv, Locals, Swapping
<1>2. NoRemains' /\ Promised'
  BY <1>1, InitialAssumption DEF Inv, NoRemains, Promised, Readable, SpansEnd, Built
<1>3. Swapping(b)'
  BY <1>1, Moved DEF Locals, Swapping, Readable
<1>4. Locals(b)'
  BY <1>1, <1>3, Moved DEF Locals, Asking, Fetching, Planned, Making
<1> QED
  BY <1>1, <1>2, <1>4, Moved, SoleStep

\* Without overlap the store that is there is moved away.
LEMMA MoveAwayStep ==
  ASSUME Inv, TypeInv', NEW b \in Builder, MoveAway(b)
  PROVE  Inv'
<1>1. /\ proc[b].pc = "away" /\ old = None /\ Locals(b) /\ Swapping(b) /\ Whole(tmp.dir)
      /\ UNCHANGED <<tmp, asked, source, rebuilt>>
      /\ rebuilt = "no" => Readable(at) /\ Carries(tmp.dir, at) /\ SpansEnd(tmp.dir)
  BY DEF MoveAway, Untouched, Inv, Locals, Swapping
<1>2. Goto(b, "in") /\ at' = None /\ old' = at
  BY <1>1 DEF MoveAway
<1>3. rebuilt = "no" => Built(at) /\ Built(tmp.dir)
  BY <1>1, CarriesBuilt DEF Inv, Promised
<1>4. NoRemains' /\ Promised'
  BY <1>1, <1>2, InitialAssumption DEF Inv, NoRemains, Promised, Readable
<1>5. Swapping(b)'
  <2>1. rebuilt' = "no" => /\ Readable(old)' /\ Carries(tmp.dir, old)'
                           /\ SpansEnd(tmp.dir)' /\ Built(tmp.dir)'
    BY <1>1, <1>2, <1>3 DEF Readable, Built
  <2> QED
    BY <1>1, <1>2, <2>1, Moved DEF Swapping
<1>6. Locals(b)'
  BY <1>1, <1>2, <1>5, Moved DEF Locals, Asking, Fetching, Planned, Making
<1> QED
  BY <1>1, <1>2, <1>4, <1>6, Moved, SoleStep

LEMMA MoveInStep ==
  ASSUME Inv, TypeInv', NEW b \in Builder, MoveIn(b)
  PROVE  Inv'
<1>1. /\ proc[b].pc = "in" /\ at = None /\ Locals(b) /\ Whole(tmp.dir)
      /\ UNCHANGED <<old, asked, source, rebuilt>>
      /\ rebuilt = "no" => /\ Readable(old) /\ Carries(tmp.dir, old)
                           /\ SpansEnd(tmp.dir) /\ Built(tmp.dir)
  BY DEF MoveIn, Untouched, Inv, Locals, Swapping
<1>2. tmp.dir \notin {None, Partial}
  BY <1>1, InitialAssumption DEF Whole
<1>3. Goto(b, "clean") /\ at' = tmp.dir
  BY <1>1, <1>2 DEF MoveIn
<1>4. NoRemains' /\ Readable(at')
  BY <1>1, <1>2, <1>3 DEF Inv, NoRemains, Readable
<1>5. Promised'
  <2>1. rebuilt = "no" =>
          /\ \A t \in Ticker : old.bars[t] \subseteq at'.bars[t]
          /\ Members(old, Pit) \subseteq Members(at', Pit)
    BY <1>1, <1>3 DEF Carries, Universe
  <2>2. rebuilt = "no" => SpansEnd(at)' /\ Built(at)'
    BY <1>1, <1>3 DEF Built
  <2> QED
    BY <1>1, <1>4, <2>1, <2>2 DEF Promised, Readable
<1>6. Swapping(b)'
  BY <1>1, <1>3, <1>4, Moved DEF Swapping, Readable
<1>7. Locals(b)'
  BY <1>1, <1>3, <1>6, Moved DEF Locals, Asking, Fetching, Planned, Making
<1> QED
  BY <1>1, <1>3, <1>4, <1>5, <1>7, Moved, SoleStep

LEMMA DropBackupStep ==
  ASSUME Inv, TypeInv', NEW b \in Builder, DropBackup(b)
  PROVE  Inv'
<1> DEFINE make == [Idle EXCEPT !.pc = "make", !.tickers = proc[b].tickers]
<1>1. /\ proc[b].pc = "clean" /\ old' = None /\ Locals(b) /\ Readable(at)
      /\ UNCHANGED <<at, tmp, asked, source, rebuilt>>
  BY DEF DropBackup, Untouched, Inv, Locals, Swapping
<1>2. NoRemains' /\ Promised'
  BY <1>1, InitialAssumption DEF Inv, NoRemains, Promised, Readable, Built
<1>3. /\ make.pc = "make" /\ make.tickers = proc[b].tickers /\ Idle.pc = "idle"
  BY DEF Idle
<1>4. proc' = [proc EXCEPT ![b] = IF b \in Thread /\ proc[b].short = "no"
                                  THEN make ELSE Idle]
  BY DEF DropBackup
<1> HIDE DEF make
<1>5. CASE proc' = [proc EXCEPT ![b] = Idle]
  BY <1>1, <1>2, <1>3, <1>5, RestingLocals, SoleStep DEF Inv, TypeInv, TypeOK
<1>6. CASE b \in Thread /\ proc' = [proc EXCEPT ![b] = make]
  <2>1. proc'[b] = make
    BY <1>6 DEF Inv, TypeInv, TypeOK
  <2>2. Locals(b)'
    BY <1>1, <1>3, <1>6, <2>1 DEF Locals, Asking, Fetching, Planned, Swapping, Making
  <2> QED
    BY <1>1, <1>2, <1>6, <2>2, SoleStep
<1> QED
  BY <1>4, <1>5, <1>6

LEMMA BuildStep ==
  ASSUME Inv, TypeInv', NEW b \in Builder, Build(b)
  PROVE  Inv'
BY BeginStep, WriteStep, DiscardStep, DropOldStep, MoveAwayStep, MoveInStep,
   DropBackupStep DEF Build

LEMMA MakeStep ==
  ASSUME Inv, TypeInv', NEW c \in Thread, MakeUniverse(c)
  PROVE  Inv'
<1> DEFINE u == UniverseOf[c]
           tickers == proc[c].tickers
<1>1. /\ c \in Builder /\ proc[c].pc = "make" /\ Locals(c) /\ u \in Universe /\ u # Pit
      /\ UNCHANGED <<tmp, old, asked, source, rebuilt>>
      /\ tickers \in SUBSET Ticker
      /\ asked[c].status = "proposed" /\ tickers = asked[c].tickers
  BY InitialAssumption
     DEF MakeUniverse, Untouched, Builder, Universe, Inv, TypeInv, Sound, Job, Locals, Asking
<1>2. CASE Readable(at) /\ tickers \subseteq Tickers(at)
  <2> DEFINE new == Made(at, u, tickers)
  <2>1. at' = new /\ Goto(c, "source")
    BY <1>2 DEF MakeUniverse, Made
  <2>2. Whole(at) /\ (rebuilt = "no" => SpansEnd(at) /\ Built(at))
    BY <1>2, PathHolds
  <2>3. /\ Whole(new) /\ new.bars = at.bars /\ Members(new, u) = tickers
        /\ \A t \in tickers : new.files[u][t] = End(at, t)
        /\ \A v \in Universe \ {u} : new.files[v] = at.files[v]
    BY <1>1, <1>2, <2>2, MadeWhole
  <2> HIDE DEF new, u
  <2>5. \A v \in Universe \ {u} : Members(new, v) = Members(at, v)
    BY <2>3 DEF Members
  <2>6. \A t \in Ticker : End(new, t) = End(at, t)
    BY <2>3 DEF End
  <2>7. rebuilt = "no" => SpansEnd(new)
    <3>1. \A t \in Members(new, u) : new.files[u][t] = End(new, t)
      BY <1>1, <2>3, <2>6
    <3>2. ASSUME rebuilt = "no", NEW v \in Universe \ {u}, NEW t \in Members(new, v)
          PROVE  new.files[v][t] = IF v = Pit /\ t = Exited THEN ExitDay ELSE End(new, t)
      BY <2>2, <2>3, <2>5, <2>6, <3>2 DEF SpansEnd, Members
    <3> QED
      BY <1>1, <2>2, <2>3, <3>1, <3>2 DEF SpansEnd
  <2>8. rebuilt = "no" => Built(at)'
    <3> SUFFICES ASSUME rebuilt = "no", NamesDistinct, NEW d \in Thread,
                        asked[d].status = "confirmed"
                 PROVE  /\ Members(new, UniverseOf[d]) = asked[d].tickers
                        /\ source[UniverseOf[d]] = asked[d].tickers
      BY <1>1, <2>1 DEF Built
    <3>1. UniverseOf[d] \in Universe \ {u}
      BY <1>1 DEF NamesDistinct, Universe, u
    <3> QED
      BY <2>2, <2>5, <3>1 DEF Built
  <2>9. Readable(new) /\ Promised' /\ NoRemains'
    <3>1. Readable(new)
      BY <2>3, InitialAssumption DEF Whole, Readable
    <3>2. (rebuilt = "no" /\ Readable(old)) =>
            /\ \A t \in Ticker : old.bars[t] \subseteq new.bars[t]
            /\ Members(old, Pit) \subseteq Members(new, Pit)
      BY <1>1, <1>2, <2>3, <2>5 DEF Inv, Promised, Universe
    <3>3. Promised'
      BY <1>1, <2>1, <2>7, <2>8, <3>1, <3>2 DEF Promised, Readable
    <3>4. NoRemains'
      BY <1>1, <2>1, <3>1 DEF Inv, NoRemains, Readable
    <3> QED
      BY <3>1, <3>3, <3>4
  <2>10. Making(c)'
    BY <1>1, <2>1, <2>3, <2>9, Moved DEF Making, Readable, u
  <2>11. Locals(c)'
    BY <1>1, <2>1, <2>10, Moved DEF Locals, Asking, Fetching, Planned, Swapping
  <2> QED
    BY <1>1, <2>1, <2>9, <2>11, Moved, SoleStep
<1>3. CASE ~(Readable(at) /\ tickers \subseteq Tickers(at))
  <2>1. proc' = [proc EXCEPT ![c] = Idle] /\ UNCHANGED at
    BY <1>3 DEF MakeUniverse
  <2> QED
    BY <1>1, <2>1, QuietStep DEF Idle
<1> QED
  BY <1>2, <1>3

LEMMA SourceStep ==
  ASSUME Inv, TypeInv', NEW c \in Thread, MakeSource(c)
  PROVE  Inv'
<1> DEFINE u == UniverseOf[c]
<1>1. /\ c \in Builder /\ proc[c].pc = "source" /\ Locals(c) /\ u \in Universe
      /\ UNCHANGED <<at, tmp, old, asked, rebuilt>>
      /\ Readable(at) /\ Members(at, u) = proc[c].tickers
      /\ asked[c].status = "proposed"
  BY DEF MakeSource, Builder, Universe, Inv, Locals, Asking, Making
<1>2. CASE Members(at, u) # {}
  <2>1. Goto(c, "confirm") /\ source' = [source EXCEPT ![u] = Members(at, u)]
    BY <1>1, <1>2 DEF MakeSource
  <2>2. source'[u] = Members(at, u)
    BY <1>1, <2>1 DEF Inv, TypeInv, TypeOK
  <2>3. rebuilt = "no" => Built(at)'
    <3> SUFFICES ASSUME rebuilt = "no", NamesDistinct, NEW d \in Thread,
                        asked[d].status = "confirmed"
                 PROVE  /\ Members(at, UniverseOf[d]) = asked[d].tickers
                        /\ source'[UniverseOf[d]] = asked[d].tickers
      BY <1>1 DEF Built
    <3>1. UniverseOf[d] \in Universe \ {u}
      BY <1>1 DEF NamesDistinct, Universe
    <3>2. source'[UniverseOf[d]] = source[UniverseOf[d]]
      BY <2>1, <3>1 DEF Inv, TypeInv, TypeOK
    <3> QED
      BY <1>1, <3>2, PathHolds DEF Built
  <2>4. NoRemains' /\ Promised'
    BY <1>1, <2>3 DEF Inv, NoRemains, Promised, Readable
  <2>5. Locals(c)'
    BY <1>1, <2>1, <2>2, Moved
       DEF Locals, Asking, Fetching, Planned, Swapping, Making, Readable
  <2> QED
    BY <1>1, <2>1, <2>4, <2>5, Moved, SoleStep
<1>3. CASE Members(at, u) = {}
  <2>1. proc' = [proc EXCEPT ![c] = Idle] /\ UNCHANGED source
    BY <1>3 DEF MakeSource
  <2> QED
    BY <1>1, <2>1, QuietStep DEF Idle
<1> QED
  BY <1>2, <1>3

LEMMA ConfirmedStep ==
  ASSUME Inv, TypeInv', NEW c \in Thread, MarkConfirmed(c)
  PROVE  Inv'
<1>1. /\ c \in Builder /\ proc[c].pc = "confirm" /\ Locals(c)
      /\ UNCHANGED <<at, tmp, old, source, rebuilt>>
      /\ proc' = [proc EXCEPT ![c] = Idle]
      /\ Readable(at) /\ Members(at, UniverseOf[c]) = asked[c].tickers
      /\ source[UniverseOf[c]] = asked[c].tickers
  BY DEF MarkConfirmed, Builder, Inv, Locals, Asking, Making
<1>2. /\ \A d \in Thread : asked'[d].tickers = asked[d].tickers
      /\ \A d \in Thread \ {c} : asked'[d].status = asked[d].status
  BY DEF MarkConfirmed, Inv, TypeInv, TypeOK
<1>3. rebuilt = "no" => Built(at)'
  BY <1>1, <1>2, PathHolds DEF Built
<1>4. NoRemains' /\ Promised'
  BY <1>1, <1>3 DEF Inv, NoRemains, Promised, Readable
<1>5. proc'[c].pc = "idle"
  BY <1>1 DEF Inv, TypeInv, TypeOK, Idle
<1> QED
  BY <1>1, <1>4, <1>5, RestingLocals, SoleStep

\* A proposal of a thread at rest takes back what it had confirmed.
LEMMA ProposalStep ==
  ASSUME Overlap = FALSE, Inv, TypeInv', NEW c \in Thread, NEW tickers \in Request,
         SetUniverse(c, tickers)
  PROVE  Inv'
<1>1. /\ proc[c].pc = "idle"
      /\ UNCHANGED <<proc, at, tmp, old, source, rebuilt>>
      /\ asked' = [asked EXCEPT ![c] = [tickers |-> tickers, status |-> "proposed"]]
  BY DEF SetUniverse
<1>2. asked'[c].status = "proposed" /\ \A d \in Thread \ {c} : asked'[d] = asked[d]
  BY <1>1 DEF Inv, TypeInv, TypeOK
<1>3. \A s : Built(s) => Built(s)'
  BY <1>1, <1>2 DEF Built
<1>4. NoRemains' /\ Promised'
  BY <1>1, <1>3 DEF Inv, NoRemains, Promised, Readable
<1>5. ASSUME NEW b \in Builder PROVE Locals(b)'
  <2>1. Asking(b)'
    BY <1>1, <1>2 DEF Inv, Locals, Asking
  <2>2. Built(tmp.dir) => Built(tmp.dir)'
    BY <1>1, <1>3
  <2>3. Swapping(b)'
    BY <1>1, <2>2 DEF Inv, Locals, Swapping, Readable
  <2> QED
    BY <1>1, <2>1, <2>3 DEF Inv, Locals, Fetching, Planned, Making, Readable
<1> QED
  BY <1>1, <1>4, <1>5 DEF Inv, Sole

LEMMA OperatorStep ==
  ASSUME Inv, TypeInv', OperatorFetch
  PROVE  Inv'
<1>1. /\ Operator \in Builder /\ Operator \notin Thread /\ Working = {}
      /\ UNCHANGED <<at, tmp, old, asked, source>> /\ rebuilt' = "yes"
  BY StoreAssumption DEF OperatorFetch, Builder
<1>2. PICK plan : proc' = [proc EXCEPT ![Operator] = [Idle EXCEPT !.pc = "begin", !.plan = plan]]
  BY DEF OperatorFetch
<1>3. proc'[Operator].pc = "begin"
  BY <1>1, <1>2 DEF Inv, TypeInv, TypeOK, Idle
<1>4. at' = None
  BY <1>1 DEF OperatorFetch, Readable, Inv, NoRemains
<1>5. NoRemains' /\ Promised'
  BY <1>1 DEF Inv, NoRemains, Promised
<1>6. Locals(Operator)'
  BY <1>1, <1>3, <1>4 DEF Locals, Asking, Fetching, Planned, Swapping, Making
<1> QED
  BY <1>1, <1>2, <1>5, <1>6, SoleStep

LEMMA InvKept == Overlap = FALSE /\ Inv /\ [Next]_vars => Inv'
<1> SUFFICES ASSUME Overlap = FALSE, Inv, [Next]_vars PROVE Inv'
  OBVIOUS
<1> TypeInv'
  BY TypeKept DEF Inv
<1>1. ASSUME UNCHANGED <<at, tmp, old, proc, asked, source, rebuilt>> PROVE Inv'
  <2>1. NoRemains' /\ Promised' /\ Sole'
    BY <1>1 DEF Inv, NoRemains, Promised, Readable, Built, Sole
  <2>2. ASSUME NEW b \in Builder PROVE Locals(b)'
    BY <1>1 DEF Inv, Locals, Asking, Fetching, Planned, Swapping, Making, Readable, Built
  <2> QED
    BY <2>1, <2>2 DEF Inv
<1>2. CASE NextDay
  BY <1>1, <1>2 DEF NextDay
<1>3. ASSUME NEW t \in Ticker, NEW d \in Day, Publish(t, d) PROVE Inv'
  BY <1>1, <1>3 DEF Publish
<1>4. CASE NightlyRead
  BY <1>4, ReadStep
<1>5. CASE NightlyFetch
  BY <1>5, NightlyFetchStep
<1>6. CASE OperatorFetch
  BY <1>6, OperatorStep
<1>7. ASSUME NEW c \in Thread, Confirmation(c) PROVE Inv'
  BY <1>7, StartStep, ThreadFetchStep, ThreadBarsStep, MakeStep, SourceStep, ConfirmedStep
     DEF Confirmation
<1>8. ASSUME NEW c \in Thread, NEW tickers \in Request, SetUniverse(c, tickers) PROVE Inv'
  BY <1>8, ProposalStep
<1>9. ASSUME NEW b \in Builder, FetchFails(b) \/ Crash(b) PROVE Inv'
  <2>1. proc[b].pc # "idle" /\ proc' = [proc EXCEPT ![b] = Idle]
    BY <1>9 DEF FetchFails, Crash
  <2>2. UNCHANGED <<at, tmp, old, asked, source, rebuilt>> /\ Idle.pc = "idle"
    BY <1>9 DEF FetchFails, Crash, Idle
  <2> QED
    BY <2>1, <2>2, QuietStep
<1>10. ASSUME NEW b \in Builder, Build(b) PROVE Inv'
  BY <1>10, BuildStep
<1>11. CASE UNCHANGED vars
  BY <1>1, <1>11 DEF vars
<1> QED
  BY <1>2, <1>3, <1>4, <1>5, <1>6, <1>7, <1>8, <1>9, <1>10, <1>11 DEF Next

-----------------------------------------------------------------------------
(* One builder at a time: what follows *)

LEMMA ApartInvariant == ASSUME Overlap = FALSE PROVE Spec => []Inv
<1>1. Inv /\ [Next]_vars => Inv'
  BY InvKept
<1> QED
  BY InitHolds, <1>1, PTL DEF Spec

\* Between any two steps of any builder, and after a crash there, the store's
\* path names nothing or a complete store that validation passes.
THEOREM ApartWhole == ASSUME Overlap = FALSE PROVE Spec => []NeverPartial
<1>1. Inv => NeverPartial
  BY DEF Inv, TypeInv, Paths, NoRemains, NeverPartial, Whole
<1> QED
  BY ApartInvariant, <1>1, PTL

\* However builders are killed, a complete store is left under one of the names.
THEOREM ApartCopy == ASSUME Overlap = FALSE PROVE Spec => []CopyRemains
<1>1. Inv => CopyRemains
  BY DEF Inv, Promised, CopyRemains
<1> QED
  BY ApartInvariant, <1>1, PTL

\* No rebuild loses a bar or a membership, whatever the vendor answers.
THEOREM ApartNothingLost == ASSUME Overlap = FALSE PROVE Spec => []NothingLost
<1>1. Inv => NothingLost
  <2> SUFFICES ASSUME Inv, Readable(at), Readable(old), rebuilt = "no"
               PROVE  /\ \A t \in Ticker : old.bars[t] \subseteq at.bars[t]
                      /\ \A u \in Universe :
                           u = Pit \/ (\E b \in Builder : proc[b].pc = "clean")
                             => Members(old, u) \subseteq Members(at, u)
    BY DEF NothingLost
  <2>1. ASSUME NEW b \in Builder, proc[b].pc = "clean" PROVE Carries(at, old)
    BY <2>1 DEF Inv, Locals, Swapping
  <2> QED
    BY <2>1 DEF Inv, Promised, Carries
<1> QED
  BY ApartInvariant, <1>1, PTL

\* Memberships end where they should, in every store there ever is.
THEOREM ApartSpans == ASSUME Overlap = FALSE PROVE Spec => []SpansFollow
<1>1. Inv => SpansFollow
  BY DEF Inv, Promised, SpansFollow, SpansEnd
<1> QED
  BY ApartInvariant, <1>1, PTL

\* What a confirmation is about to write has the trading days of the store and
\* passes validation, for every vendor history.
THEOREM ApartExtends == ASSUME Overlap = FALSE PROVE Spec => []ExtendFits
<1>1. Inv => ExtendFits
  BY DEF Inv, Locals, Planned, ExtendFits, Builder
<1> QED
  BY ApartInvariant, <1>1, PTL

\* A confirmed universe is built as confirmed, as long as no other thread uses
\* its name.
THEOREM ApartConfirmed ==
  ASSUME Overlap = FALSE, NamesDistinct
  PROVE  Spec => []ConfirmedIsBuilt
<1>1. Inv => ConfirmedIsBuilt
  BY DEF Inv, Promised, Built, ConfirmedIsBuilt
<1> QED
  BY ApartInvariant, <1>1, PTL

-----------------------------------------------------------------------------
(* One builder at a time: what readers see *)

LEMMA WholeIsShown ==
  ASSUME NEW s, Whole(s)
  PROVE  /\ s \notin {None, Partial} /\ View(s) \notin {None, Partial}
         /\ View(s).bars = s.bars
         /\ \A u \in Universe : View(s).members[u] = Members(s, u)
         /\ View(s).members = [u \in Universe |-> Members(s, u)]
         /\ Readers!Whole(View(s))
<1>1. s \in Store /\ s \notin {None, Partial}
  BY InitialAssumption DEF Whole
<1>2. View(s) = [bars |-> s.bars, members |-> [u \in Universe |-> Members(s, u)]]
  BY <1>1 DEF View
<1>3. View(s) \in Readers!Store
  BY <1>1, <1>2 DEF Readers!Store, Store, Members
<1>4. View(s) \notin {None, Partial}
  BY <1>3, ViewAssumption
<1>5. Readers!Traded(View(s)) = Tickers(s) /\ Tickers(s) # {}
  BY <1>1, <1>2 DEF Readers!Traded, Tickers, Whole, Valid
<1>6. \A u \in Universe : View(s).members[u] \subseteq Readers!Traded(View(s))
  BY <1>2, <1>5 DEF Whole, Valid
<1>7. ASSUME NEW t \in Ticker, NEW other \in Ticker,
             NEW d \in s.bars[other] \ s.bars[t],
             NEW e \in s.bars[t], NEW f \in s.bars[t], e < d, d < f
      PROVE  FALSE
  <2>1. s.bars[t] \in SUBSET Day /\ d \in Calendar(s) /\ t \in Tickers(s)
    BY <1>1, <1>7 DEF Store, Calendar, Tickers
  <2>2. First(s.bars[t]) \in s.bars[t] /\ \A x \in s.bars[t] : First(s.bars[t]) <= x
    BY <1>7, <2>1, FirstIs
  <2>3. Last(s.bars[t]) \in s.bars[t] /\ \A x \in s.bars[t] : Last(s.bars[t]) >= x
    BY <1>7, <2>1, LastIs
  <2>4. d \in Day /\ Day \subseteq Int
    BY <1>1, StoreAssumption DEF Store, Day
  <2>5. First(s.bars[t]) < d /\ d < Last(s.bars[t])
    <3>1. /\ First(s.bars[t]) <= e /\ Last(s.bars[t]) >= f
          /\ {First(s.bars[t]), Last(s.bars[t]), d, e, f} \subseteq Int
      BY <2>1, <2>2, <2>3, <2>4, <1>7
    <3> QED
      BY <3>1, <1>7
  <2>6. Gapped(s.bars[t], Calendar(s))
    BY <2>1, <2>5, <1>7 DEF Gapped
  <2> QED
    BY <2>1, <2>6 DEF Whole, Valid
<1> HIDE DEF View
<1>8. Readers!Whole(View(s))
  BY <1>2, <1>3, <1>5, <1>6, <1>7 DEF Readers!Whole
<1> QED
  BY <1>1, <1>2, <1>4, <1>8

\* Nothing at the path is shown as nothing.
LEMMA NoneIsShown == View(None) = None
BY DEF View

\* What a store carries, its view carries.
LEMMA CarriesShown ==
  ASSUME NEW s, NEW new, Whole(s), Whole(new), Carries(new, s)
  PROVE  Readers!Carries(View(new), View(s))
<1>1. [u \in Universe |-> Members(new, u)] = [u \in Universe |-> Members(s, u)]
  BY DEF Carries
<1> QED
  BY <1>1, WholeIsShown DEF Carries, Readers!Carries

ReaderVars == <<View(at), View(Owed)>>

\* A step that moves neither the store nor the one moved away.
LEMMA SamePaths ==
  ASSUME UNCHANGED <<at, old>>
  PROVE  UNCHANGED ReaderVars
<1>1. UNCHANGED Owed
  BY DEF Owed, Readable
<1> QED
  BY <1>1 DEF ReaderVars, View, Members

\* What the next store is owed to, as the paths tell it.
LEMMA OwedIs ==
  ASSUME Inv
  PROVE  /\ at # None => Whole(at) /\ Readable(at) /\ Owed = at
         /\ at = None => Owed = old /\ (old # None => Whole(old))
BY InitialAssumption DEF Inv, NoRemains, TypeInv, Paths, Readable, Owed

\* The old copy goes: unseen, or for good before a build from nothing.
LEMMA DropOldShown ==
  ASSUME Inv, NEW b \in Builder, DropOld(b)
  PROVE  Readers!GiveUp \/ UNCHANGED ReaderVars
<1>1. proc[b].pc = "swap" /\ Swapping(b) /\ old' = None /\ at' = at
  BY DEF DropOld, Inv, Locals
<1>2. CASE at # None
  <2>1. Owed' = Owed
    BY <1>1, <1>2 DEF Owed
  <2> QED
    BY <1>1, <2>1 DEF ReaderVars, View, Members
<1>3. CASE at = None
  <2>1. Owed' = None
    BY <1>1, <1>3 DEF Owed, Readable
  <2>2. View(Owed)' = None /\ View(at) = None /\ View(at)' = None
    BY <1>1, <1>3, <2>1 DEF View
  <2> QED
    BY <2>2 DEF Readers!GiveUp
<1> QED
  BY <1>2, <1>3

\* The store leaves its path and stays owed.
LEMMA MoveAwayShown ==
  ASSUME Inv, NEW b \in Builder, MoveAway(b)
  PROVE  Readers!Hide \/ UNCHANGED ReaderVars
<1>1. proc[b].pc = "away" /\ old = None
  BY DEF MoveAway, Inv, Locals, Swapping
<1>2. CASE at = None
  BY <1>1, <1>2, SamePaths DEF MoveAway
<1>3. CASE at # None
  <2>1. at' = None /\ old' = at
    BY <1>1, <1>3 DEF MoveAway
  <2>2. Whole(at) /\ Readable(at) /\ Owed = at
    BY <1>3, OwedIs
  <2>3. Owed' = at
    BY <2>1, <2>2 DEF Owed, Readable
  <2>4. View(at)' = None /\ View(at) # None /\ View(Owed)' = View(Owed)
    BY <2>1, <2>2, <2>3, WholeIsShown DEF View, Members
  <2> QED
    BY <2>4 DEF Readers!Hide
<1> QED
  BY <1>2, <1>3

\* The next store carries the one it is owed to.
LEMMA MoveInShown ==
  ASSUME Inv, NEW b \in Builder, MoveIn(b)
  PROVE  Readers!Show
<1>1. /\ proc[b].pc = "in" /\ at = None /\ Whole(tmp.dir) /\ Owed = old
      /\ b # Operator => Readable(old) /\ Carries(tmp.dir, old)
      /\ b = Operator => old = None
  BY OwedIs DEF MoveIn, Inv, Locals, Swapping
<1>2. tmp.dir \notin {None, Partial}
  BY <1>1, InitialAssumption DEF Whole
<1>3. at' = tmp.dir /\ old' = old
  BY <1>1, <1>2 DEF MoveIn
<1>4. Owed' = at'
  BY <1>2, <1>3 DEF Owed
<1>5. View(at) = None /\ View(at)' = View(tmp.dir) /\ View(Owed)' = View(at)'
  BY <1>1, <1>3, <1>4 DEF View, Members
<1>6. Readers!Whole(View(tmp.dir))
  BY <1>1, WholeIsShown
<1>7. View(Owed) # None => Readers!Carries(View(tmp.dir), View(Owed))
  <2>1. CASE b = Operator
    BY <1>1, <2>1, NoneIsShown
  <2>2. CASE b # Operator
    <3>1. Whole(old)
      BY <1>1, <2>2, OwedIs DEF Readable
    <3> QED
      BY <1>1, <2>2, <3>1, CarriesShown
  <2> QED
    BY <2>1, <2>2
<1> QED
  BY <1>5, <1>6, <1>7 DEF Readers!Show

LEMMA DropBackupShown ==
  ASSUME Inv, NEW b \in Builder, DropBackup(b)
  PROVE  UNCHANGED ReaderVars
<1>1. at # None /\ at' = at
  BY DEF DropBackup, Inv, Locals, Swapping, Readable
<1>2. Owed' = Owed
  BY <1>1 DEF Owed
<1> QED
  BY <1>1, <1>2 DEF ReaderVars, View, Members

\* A universe is written into the store that is shown, and nothing else of it.
LEMMA MakeShown ==
  ASSUME Inv, NEW c \in Thread, MakeUniverse(c)
  PROVE  Readers!Write(UniverseOf[c]) \/ UNCHANGED ReaderVars
<1> DEFINE u == UniverseOf[c]
           tickers == proc[c].tickers
<1>1. u \in Universe /\ u # Pit /\ tickers \in SUBSET Ticker /\ old' = old
  BY InitialAssumption DEF MakeUniverse, Universe, Builder, Inv, TypeInv, Sound, Job
<1>2. CASE Readable(at) /\ tickers \subseteq Tickers(at)
  <2> DEFINE new == Made(at, u, tickers)
  <2>1. at' = new
    BY <1>2 DEF MakeUniverse, Made
  <2>2. Whole(at) /\ Owed = at
    BY <1>2, OwedIs DEF Readable
  <2>3. /\ Whole(new) /\ new.bars = at.bars /\ Members(new, u) = tickers
        /\ \A v \in Universe \ {u} : Members(new, v) = Members(at, v)
    BY <1>1, <1>2, <2>2, MadeWhole DEF Members
  <2> HIDE DEF new, u, tickers
  <2>4. Owed' = new /\ View(at)' = View(new) /\ View(Owed)' = View(new)
    <3>1. Owed' = new
      BY <2>1, <2>3, WholeIsShown DEF Owed
    <3> QED
      BY <2>1, <3>1 DEF View, Members
  <2>5. View(at) = [bars |-> at.bars, members |-> [v \in Universe |-> Members(at, v)]]
    BY <2>2, WholeIsShown DEF View
  <2>6. View(new) = [bars |-> at.bars, members |-> [v \in Universe |-> Members(new, v)]]
    BY <2>3, WholeIsShown DEF View
  <2>7. [v \in Universe |-> Members(new, v)]
          = [[v \in Universe |-> Members(at, v)] EXCEPT ![u] = tickers]
    BY <1>1, <2>3
  <2>8. View(new) = [View(at) EXCEPT !.members[u] = tickers]
    BY <2>5, <2>6, <2>7
  <2>9. tickers \in SUBSET Readers!Traded(View(at))
    BY <1>1, <1>2, <2>5 DEF Readers!Traded, Tickers
  <2>10. View(at) # None
    BY <2>2, WholeIsShown
  <2> QED
    BY <1>1, <2>4, <2>8, <2>9, <2>10 DEF Readers!Write, u
<1>3. CASE ~(Readable(at) /\ tickers \subseteq Tickers(at))
  BY <1>1, <1>3, SamePaths DEF MakeUniverse
<1> QED
  BY <1>2, <1>3

LEMMA ShownStep ==
  ASSUME Inv, [Next]_vars
  PROVE  [Readers!Next]_ReaderVars
<1>1. ASSUME UNCHANGED <<at, old>> PROVE UNCHANGED ReaderVars
  BY <1>1, SamePaths
<1>2. CASE NextDay
  BY <1>1, <1>2 DEF NextDay
<1>3. ASSUME NEW t \in Ticker, NEW d \in Day, Publish(t, d) PROVE UNCHANGED ReaderVars
  BY <1>1, <1>3 DEF Publish
<1>4. CASE NightlyRead \/ NightlyFetch \/ OperatorFetch
  BY <1>1, <1>4 DEF NightlyRead, NightlyFetch, OperatorFetch
<1>5. ASSUME NEW c \in Thread, Confirmation(c) PROVE [Readers!Next]_ReaderVars
  <2>1. CASE MakeUniverse(c)
    BY <2>1, MakeShown DEF Readers!Next, Universe
  <2>2. CASE ~MakeUniverse(c)
    BY <1>1, <1>5, <2>2
       DEF Confirmation, StartConfirm, ThreadFetch, ThreadBars, MakeSource, MarkConfirmed
  <2> QED
    BY <2>1, <2>2
<1>6. ASSUME NEW c \in Thread, NEW tickers \in Request, SetUniverse(c, tickers)
      PROVE  UNCHANGED ReaderVars
  BY <1>1, <1>6 DEF SetUniverse
<1>7. ASSUME NEW b \in Builder, FetchFails(b) \/ Crash(b) PROVE UNCHANGED ReaderVars
  BY <1>1, <1>7 DEF FetchFails, Crash
<1>8. ASSUME NEW b \in Builder, Build(b) PROVE [Readers!Next]_ReaderVars
  <2>1. CASE BeginTmp(b) \/ WriteTmp(b) \/ Discard(b)
    BY <1>1, <2>1 DEF BeginTmp, WriteTmp, Discard
  <2>2. CASE DropOld(b) \/ MoveAway(b) \/ MoveIn(b) \/ DropBackup(b)
    BY <2>2, DropOldShown, MoveAwayShown, MoveInShown, DropBackupShown DEF Readers!Next
  <2> QED
    BY <1>8, <2>1, <2>2 DEF Build
<1>9. CASE UNCHANGED vars
  BY <1>1, <1>9 DEF vars
<1> QED
  BY <1>2, <1>3, <1>4, <1>5, <1>6, <1>7, <1>8, <1>9 DEF Next

\* One builder at a time implements what readers are promised: a whole store or
\* none, and each store carries the last, whatever fails or is killed between
\* them, until an operator builds from nothing.
THEOREM ApartImplements == ASSUME Overlap = FALSE PROVE Spec => ImplementsStores
<1>1. Init => Readers!Init
  <2> SUFFICES ASSUME Init PROVE Readers!Init
    OBVIOUS
  <2>1. Whole(at) /\ at # None
    BY InitialTyped, InitialAssumption DEF Init, Whole
  <2>2. Owed = at
    BY <2>1 DEF Owed
  <2> QED
    BY <2>1, <2>2, WholeIsShown DEF Readers!Init
<1>2. Inv /\ [Next]_vars => [Readers!Next]_<<View(at), View(Owed)>>
  BY ShownStep DEF ReaderVars
<1> QED
  BY ApartInvariant, <1>1, <1>2, PTL DEF Spec, ImplementsStores, Readers!Spec

-----------------------------------------------------------------------------
(* The market series of a refresh (Series) *)

\* A nonempty finite set of integers has a greatest element.
LEMMA GreatestIs ==
  ASSUME NEW S \in SUBSET Int, IsFiniteSet(S), S # {}
  PROVE  Max(S) \in S /\ \A m \in S : m <= Max(S)
<1> DEFINE From(n) == {m \in S : n <= m}
           Tails == {From(n) : n \in S}
<1>1. IsWellFoundedOn(StrictSubsetOrdering(S), SUBSET S)
  BY FS_StrictSubsetOrderingWellFounded, FS_FiniteSubsetsOfFinite
<1>2. Tails \subseteq SUBSET S /\ Tails # {}
  OBVIOUS
<1>3. PICK T \in Tails : \A U \in Tails : <<U, T>> \notin StrictSubsetOrdering(S)
  <2> HIDE DEF Tails
  <2> QED
    BY <1>1, <1>2, WFMin
<1>4. PICK n \in S : T = From(n)
  OBVIOUS
<1>5. ASSUME NEW m \in S, ~(m <= n) PROVE FALSE
  <2>1. n < m /\ \A k \in S : k \in Int
    BY <1>5
  <2>2. n \in From(n) /\ n \notin From(m)
    BY <2>1
  <2>3. ASSUME NEW k \in From(m) PROVE k \in From(n)
    <3>1. k \in S /\ m <= k /\ k \in Int /\ m \in Int /\ n \in Int
      BY <2>1
    <3> QED
      BY <2>1, <3>1
  <2>4. <<From(m), From(n)>> \in StrictSubsetOrdering(S)
    BY <2>2, <2>3 DEF StrictSubsetOrdering
  <2> QED
    BY <1>3, <1>4, <2>4
<1>6. \E x \in S : \A y \in S : x >= y
  BY <1>5
<1> QED
  BY <1>6 DEF Max

\* A greatest element is the greatest.
LEMMA GreatestIsOnly ==
  ASSUME NEW S \in SUBSET Int, NEW n \in S, \A m \in S : m <= n
  PROVE  Max(S) = n
<1>1. \A y \in S : n >= y
  OBVIOUS
<1>2. Max(S) \in S /\ \A y \in S : Max(S) >= y
  BY <1>1 DEF Max
<1>3. n <= Max(S) /\ Max(S) <= n /\ n \in Int /\ Max(S) \in Int
  BY <1>2
<1> QED
  BY <1>3

\* And a least one: the greatest of the mirrored set.
LEMMA LeastIs ==
  ASSUME NEW S \in SUBSET Int, IsFiniteSet(S), S # {}
  PROVE  Min(S) \in S /\ \A m \in S : Min(S) <= m
<1> DEFINE T == {-n : n \in S}
<1>1. T \in SUBSET Int /\ T # {}
  <2>1. \A n \in S : n \in Int /\ -n \in Int
    OBVIOUS
  <2> QED
    BY <2>1
<1>2. IsFiniteSet(T)
  <2> DEFINE turn == [n \in S |-> -n]
  <2>1. turn \in Surjection(S, T)
    BY DEF Surjection
  <2> QED
    BY <2>1, FS_Surjection
<1>3. Max(T) \in T /\ \A m \in T : m <= Max(T)
  <2> HIDE DEF T
  <2> QED
    BY <1>1, <1>2, GreatestIs
<1>4. PICK n \in S : Max(T) = -n
  BY <1>3
<1>5. ASSUME NEW m \in S PROVE n <= m
  <2>1. -m \in T
    OBVIOUS
  <2>2. -m <= -n /\ m \in Int /\ n \in Int
    BY <1>3, <1>4, <2>1
  <2> QED
    BY <2>2
<1> QED
  BY <1>5 DEF Min

\* A series has finitely many observations.
IsSeries(series) == DOMAIN series \in SUBSET Int /\ IsFiniteSet(DOMAIN series)

\* Whatever the vendor answers, a refresh with or without --market-start leaves a
\* stored series every day and value it has, unless it puts one in its place that
\* begins earlier; and no answer makes a series begin before its own start
\* (_pull_market_series).
THEOREM StartKeepsSeries ==
  ASSUME NEW stored, NEW answer, NEW newBars \in BOOLEAN, NEW last \in Int, NEW end \in Int,
         NEW start \in Int \cup {NoStart},
         \A name \in DOMAIN stored : IsSeries(stored[name]) /\ DOMAIN stored[name] # {},
         \A name \in DOMAIN answer : answer[name] = Outage \/ IsSeries(answer[name]),
         MarketField \subseteq DOMAIN answer,
         NEW name \in DOMAIN PullMarketSeries(stored, answer, newBars, last, end, start)
  PROVE  LET pulled == PullMarketSeries(stored, answer, newBars, last, end, start)
         IN  \/ /\ name \in DOMAIN stored
                /\ \A d \in DOMAIN stored[name] :
                     d \in DOMAIN pulled[name] /\ pulled[name][d] = stored[name][d]
             \/ /\ start # NoStart /\ answer[name] # Outage
                /\ \A d \in DOMAIN pulled[name] : SeriesStart(name, start) <= d /\ d <= end
                /\ name \in DOMAIN stored =>
                     \E d \in DOMAIN pulled[name] : \A o \in DOMAIN stored[name] : d < o
<1> DEFINE pulled == PullMarketSeries(stored, answer, newBars, last, end, start)
           arrived == Arrived(stored, answer, newBars, last, end, start)
           fresh == FreshRows(stored, answer, name, last, end, start)
<1>1. name \in DOMAIN stored \/ name \in arrived \ DOMAIN stored
  BY DEF PullMarketSeries
<1>2. name \in arrived => /\ name \in MarketField /\ answer[name] # Outage
                          /\ IsSeries(answer[name])
                          /\ name \in DOMAIN stored \/ start # NoStart
  BY DEF Arrived, Asked, Introduce, Deepen
<1>3. pulled[name] = IF name \notin arrived THEN stored[name]
                     ELSE IF name \notin DOMAIN stored THEN fresh
                     ELSE IF name \notin Deepen(stored, start) THEN Advanced(stored[name], fresh)
                     ELSE IF Replaces(fresh, stored[name]) THEN fresh
                     ELSE stored[name]
  BY <1>1 DEF PullMarketSeries
<1>4. CASE name \in DOMAIN stored /\ pulled[name] = stored[name]
  BY <1>4
<1>5. CASE name \in DOMAIN stored /\ pulled[name] = Advanced(stored[name], fresh)
  BY <1>5 DEF Advanced
<1>6. ASSUME name \in arrived, name \notin DOMAIN stored \ Deepen(stored, start)
      PROVE  /\ start # NoStart /\ IsSeries(fresh)
             /\ \A d \in DOMAIN fresh : SeriesStart(name, start) <= d /\ d <= end
  <2>1. fresh = Observed(answer[name], SeriesStart(name, start), end)
    BY <1>6 DEF FreshRows
  <2>2. DOMAIN fresh \subseteq DOMAIN answer[name]
        /\ \A d \in DOMAIN fresh : SeriesStart(name, start) <= d /\ d <= end
    BY <2>1 DEF Observed, Restrict
  <2>3. IsSeries(fresh)
    BY <1>2, <1>6, <2>2, FS_Subset DEF IsSeries
  <2>4. start # NoStart
    BY <1>2, <1>6 DEF Deepen
  <2> QED
    BY <2>2, <2>3, <2>4
<1>7. CASE name \in arrived /\ name \notin DOMAIN stored
  BY <1>2, <1>3, <1>6, <1>7
<1>8. CASE /\ name \in arrived /\ name \in DOMAIN stored /\ name \in Deepen(stored, start)
           /\ Replaces(fresh, stored[name])
  <2>1. Min(DOMAIN fresh) \in DOMAIN fresh /\ Min(DOMAIN fresh) < Min(DOMAIN stored[name])
    BY <1>6, <1>8, LeastIs DEF Replaces, IsSeries
  <2>2. /\ DOMAIN stored[name] \in SUBSET Int /\ DOMAIN fresh \in SUBSET Int
        /\ Min(DOMAIN stored[name]) \in DOMAIN stored[name]
        /\ \A o \in DOMAIN stored[name] : Min(DOMAIN stored[name]) <= o
    BY <1>6, <1>8, LeastIs DEF IsSeries
  <2>3. \A o \in DOMAIN stored[name] : Min(DOMAIN fresh) < o
    BY <2>1, <2>2
  <2>4. pulled[name] = fresh
    BY <1>3, <1>8
  <2> QED
    BY <1>2, <1>6, <1>8, <2>1, <2>3, <2>4
<1> QED
  BY <1>1, <1>3, <1>4, <1>5, <1>7, <1>8

\* The days of a calendar up to one of them.
DaysUpto(calendar, e) == {d \in calendar : d <= e}

\* The last observation up to a day, and how to recognise it.
LEMMA LastObservedIs ==
  ASSUME NEW series, IsSeries(series), NEW d \in Int, NEW o \in DOMAIN series, o <= d
  PROVE  /\ LastObserved(series, d) \in DOMAIN series /\ LastObserved(series, d) <= d
         /\ \A p \in DOMAIN series : p <= d => p <= LastObserved(series, d)
<1> DEFINE S == {p \in DOMAIN series : p <= d}
<1>1. S \in SUBSET Int /\ IsFiniteSet(S) /\ S # {}
  BY FS_Subset DEF IsSeries
<1>2. Max(S) \in S /\ \A m \in S : m <= Max(S)
  <2> HIDE DEF S
  <2> QED
    BY <1>1, GreatestIs
<1> QED
  BY <1>2 DEF LastObserved

LEMMA LastObservedOnly ==
  ASSUME NEW series, IsSeries(series), NEW d \in Int, NEW o \in DOMAIN series, o <= d,
         \A p \in DOMAIN series : p <= d => p <= o
  PROVE  LastObserved(series, d) = o
<1>1. /\ LastObserved(series, d) \in DOMAIN series
      /\ LastObserved(series, d) <= d /\ o <= LastObserved(series, d)
  BY LastObservedIs
<1>2. LastObserved(series, d) <= o
  BY <1>1
<1>3. o \in Int /\ LastObserved(series, d) \in Int
  BY <1>1 DEF IsSeries
<1> QED
  BY <1>1, <1>2, <1>3

\* What a refresh reads back of a series: on every day the carried-forward value,
\* from whichever tickers have a bin that covers the day.
LEMMA StoredIs ==
  ASSUME NEW calendar \in SUBSET Int, NEW e \in Int,
         NEW series, IsSeries(series), NEW from \in Int, \A o \in DOMAIN series : from <= o,
         NEW listed, \A d \in DaysUpto(calendar, e) :
                       \E bars \in listed : Min(bars) <= d /\ d <= Max(bars)
  PROVE  LET known == Filled(DaysUpto(calendar, e), Observed(series, from, e))
         IN  Overlay({Bin(known, bars) : bars \in listed})
               = [d \in Span(DaysUpto(calendar, e), series) |-> series[LastObserved(series, d)]]
<1> DEFINE upto == DaysUpto(calendar, e)
           seen == Observed(series, from, e)
           known == Filled(upto, seen)
           bins == {Bin(known, bars) : bars \in listed}
           all == [d \in Span(upto, series) |-> series[LastObserved(series, d)]]
<1>1. DOMAIN seen = {o \in DOMAIN series : o <= e}
      /\ \A o \in DOMAIN seen : seen[o] = series[o]
  BY DEF Observed, Restrict
<1>2. \A d \in upto : d \in Int /\ d <= e
  BY DEF DaysUpto
<1>3. \A o \in DOMAIN series : o \in Int
  BY DEF IsSeries
<1> HIDE DEF seen, upto
<1>4. ASSUME NEW d \in upto
      PROVE  {o \in DOMAIN seen : o <= d} = {o \in DOMAIN series : o <= d}
  BY <1>1, <1>2, <1>3
<1>5. Span(upto, seen) = Span(upto, series)
  BY <1>1, <1>4 DEF Span
<1>6. ASSUME NEW d \in Span(upto, series)
      PROVE  seen[LastObserved(seen, d)] = series[LastObserved(series, d)]
  <2>1. d \in upto /\ d \in Int /\ \E o \in DOMAIN series : o <= d
    BY <1>2 DEF Span
  <2>2. LastObserved(seen, d) = LastObserved(series, d)
    BY <1>4, <2>1 DEF LastObserved
  <2>3. LastObserved(series, d) \in DOMAIN series /\ LastObserved(series, d) <= d
    BY <2>1, LastObservedIs
  <2>4. LastObserved(series, d) \in DOMAIN seen
    BY <1>1, <1>2, <1>3, <2>1, <2>3
  <2> QED
    BY <1>1, <2>2, <2>4
<1>7. known = all
  BY <1>5, <1>6 DEF Filled
<1>8. \A bin \in bins : DOMAIN bin \subseteq DOMAIN all /\ \A d \in DOMAIN bin : bin[d] = all[d]
  <2> HIDE DEF known, all
  <2> QED
    BY <1>7 DEF Bin, Restrict
<1>9. ASSUME NEW d \in DOMAIN all PROVE \E bin \in bins : d \in DOMAIN bin
  <2>1. d \in upto /\ DOMAIN known = DOMAIN all
    BY <1>7 DEF Span
  <2>2. PICK bars \in listed : Min(bars) <= d /\ d <= Max(bars)
    BY <2>1 DEF upto
  <2> HIDE DEF known, all
  <2>3. d \in DOMAIN Bin(known, bars)
    BY <2>1, <2>2 DEF Bin, Restrict
  <2> QED
    BY <2>3
<1>10. DOMAIN Overlay(bins) = DOMAIN all
  <2>1. DOMAIN Overlay(bins) = UNION {DOMAIN bin : bin \in bins}
    BY DEF Overlay
  <2> HIDE DEF bins, all
  <2> QED
    BY <1>8, <1>9, <2>1
<1>11. ASSUME NEW d \in DOMAIN all PROVE Overlay(bins)[d] = all[d]
  <2> DEFINE bin == CHOOSE b \in bins : d \in DOMAIN b
  <2>1. bin \in bins /\ d \in DOMAIN bin
    <3> HIDE DEF bins
    <3> QED
      BY <1>9, <1>11
  <2>2. d \in UNION {DOMAIN b : b \in bins}
    <3> HIDE DEF bins, bin
    <3> QED
      BY <2>1
  <2>3. Overlay(bins)[d] = bin[d]
    BY <2>2 DEF Overlay
  <2> QED
    BY <1>8, <2>1, <2>3
<1>12. Overlay(bins) = [d \in DOMAIN all |-> Overlay(bins)[d]]
  BY <1>10 DEF Overlay
<1>13. all = [d \in DOMAIN all |-> all[d]]
  OBVIOUS
<1>14. Overlay(bins) = all
  <2> HIDE DEF bins, all
  <2> QED
    BY <1>11, <1>12, <1>13
<1> QED
  BY <1>14 DEF known, upto, seen

\* A series read back from the store, extended by a night and filled again is on
\* every day of the calendar what a build from the vendor's whole history makes of
\* it, although the store keeps only trading days (read_market_series,
\* _pull_market_series, _market_matrix).
THEOREM RefreshRebuildsSeries ==
  ASSUME NEW calendar \in SUBSET Int, IsFiniteSet(calendar), NEW e \in calendar,
         NEW name \in MarketField,
         NEW series, IsSeries(series), series # Outage,
         NEW from \in Int, \A o \in DOMAIN series : from <= o,
         \E d \in DaysUpto(calendar, e), o \in DOMAIN series : o <= d,
         NEW listed, \A d \in DaysUpto(calendar, e) :
                       \E bars \in listed : Min(bars) <= d /\ d <= Max(bars)
  PROVE  LET known == Filled(DaysUpto(calendar, e), Observed(series, from, e))
             stored == [n \in {name} |-> Overlay({Bin(known, bars) : bars \in listed})]
             pulled == PullMarketSeries(stored, [n \in {name} |-> series], TRUE, e,
                                        Max(calendar), NoStart)
         IN  Filled(calendar, pulled[name]) = Filled(calendar, series)
<1> DEFINE upto == DaysUpto(calendar, e)
           held == [d \in Span(upto, series) |-> series[LastObserved(series, d)]]
           end == Max(calendar)
           stored == [n \in {name} |-> held]
           answer == [n \in {name} |-> series]
           next == PullMarketSeries(stored, answer, TRUE, e, end, NoStart)[name]
<1>1. Overlay({Bin(Filled(upto, Observed(series, from, e)), bars) : bars \in listed}) = held
  BY StoredIs
<1>2. end \in Int /\ e \in Int /\ \A d \in calendar : d \in Int /\ d <= end
  BY GreatestIs
<1>3. /\ DOMAIN next = DOMAIN held \cup {o \in DOMAIN series : e < o /\ o <= end}
      /\ \A o \in DOMAIN next : next[o] = IF o \in DOMAIN held THEN held[o] ELSE series[o]
  <2> DEFINE fresh == FreshRows(stored, answer, name, e, end, NoStart)
  <2>1. /\ DOMAIN stored = {name} /\ stored[name] = held /\ answer[name] = series
        /\ held = [d \in DOMAIN held |-> held[d]]
    OBVIOUS
  <2>2. e <= end /\ e \in Int /\ end \in Int
    BY <1>2
  <2> HIDE DEF held, end, stored, answer
  <2>3. Deepen(stored, NoStart) = {} /\ Introduce(stored, NoStart) = {}
    BY DEF Deepen, Introduce
  <2>4. Asked(stored, TRUE, e, end, NoStart) = IF e + 1 <= end THEN {name} ELSE {}
    BY <2>1, <2>3 DEF Asked
  <2>5. Arrived(stored, answer, TRUE, e, end, NoStart) = IF e + 1 <= end THEN {name} ELSE {}
    BY <2>1, <2>4 DEF Arrived
  <2>6. next = IF e + 1 <= end THEN Advanced(held, fresh) ELSE held
    BY <2>1, <2>3, <2>5 DEF PullMarketSeries
  <2>7. fresh = Observed(series, e + 1, end)
    BY <2>1, <2>3 DEF FreshRows
  <2> HIDE DEF next, fresh
  <2>8. /\ DOMAIN fresh = {o \in DOMAIN series : e < o /\ o <= end}
        /\ \A o \in DOMAIN fresh : fresh[o] = series[o]
    <3>1. \A o \in DOMAIN series : e + 1 <= o <=> e < o
      BY <2>2 DEF IsSeries
    <3> QED
      BY <2>7, <3>1 DEF Observed, Restrict
  <2>9. CASE e + 1 <= end
    BY <2>6, <2>8, <2>9 DEF Advanced
  <2>10. CASE ~(e + 1 <= end)
    <3>1. \A o \in DOMAIN series : ~(e < o /\ o <= end)
      BY <2>2, <2>10 DEF IsSeries
    <3> QED
      BY <2>6, <2>10, <3>1
  <2> QED
    BY <2>9, <2>10
<1>4. DOMAIN held = {d \in calendar : d <= e /\ \E o \in DOMAIN series : o <= d}
  BY DEF Span, DaysUpto
<1>5. \A o \in DOMAIN series : o \in Int
  BY DEF IsSeries
<1>6. e \in DOMAIN held
  BY <1>2, <1>4, <1>5 DEF DaysUpto
<1>7. IsSeries(next)
  <2>1. DOMAIN next \subseteq calendar \cup DOMAIN series
    BY <1>3, <1>4
  <2>2. IsFiniteSet(calendar \cup DOMAIN series)
    BY FS_Union DEF IsSeries
  <2> QED
    BY <2>1, <2>2, FS_Subset DEF IsSeries
<1>8. \A d \in DOMAIN held : held[d] = series[LastObserved(series, d)]
  OBVIOUS
<1> HIDE DEF held, end, next, stored, answer
<1>9. Span(calendar, next) = Span(calendar, series)
  <2>1. ASSUME NEW d \in calendar, NEW o \in DOMAIN next, o <= d
        PROVE  \E p \in DOMAIN series : p <= d
    <3>1. CASE o \in DOMAIN held
      <4>1. PICK p \in DOMAIN series : p <= o
        BY <1>4, <3>1
      <4>2. p \in Int /\ o \in Int /\ d \in Int
        BY <1>2, <1>4, <1>5, <3>1
      <4>3. p <= d
        BY <2>1, <4>1, <4>2
      <4> QED
        BY <4>3
    <3> QED
      BY <1>3, <2>1, <3>1
  <2>2. ASSUME NEW d \in calendar, NEW o \in DOMAIN series, o <= d
        PROVE  \E p \in DOMAIN next : p <= d
    <3>1. CASE e < o
      BY <1>2, <1>3, <1>5, <2>2, <3>1
    <3>2. CASE e < d
      BY <1>2, <1>3, <1>6, <3>2
    <3>3. CASE d <= e
      BY <1>2, <1>3, <1>4, <2>2, <3>3
    <3> QED
      BY <1>2, <1>5, <3>2, <3>3
  <2> QED
    BY <2>1, <2>2 DEF Span
<1>10. ASSUME NEW d \in Span(calendar, series)
       PROVE  next[LastObserved(next, d)] = series[LastObserved(series, d)]
  <2>1. d \in calendar /\ d \in Int /\ \E o \in DOMAIN series : o <= d
    BY <1>2 DEF Span
  <2> DEFINE o == LastObserved(series, d)
  <2>2. o \in DOMAIN series /\ o <= d /\ \A p \in DOMAIN series : p <= d => p <= o
    BY <2>1, LastObservedIs
  <2> HIDE DEF o
  <2>3. CASE d <= e
    <3>1. d \in DOMAIN held
      BY <1>4, <2>1, <2>3
    <3>2. LastObserved(next, d) = d
      BY <1>3, <1>7, <2>1, <3>1, LastObservedOnly
    <3> QED
      BY <1>3, <1>8, <3>1, <3>2
  <2>4. CASE e < d /\ o <= e
    <3>1. \A p \in DOMAIN next : p <= d => p <= e
      <4> SUFFICES ASSUME NEW p \in DOMAIN next, p <= d PROVE p <= e
        OBVIOUS
      <4>1. CASE p \in DOMAIN held
        BY <1>4, <4>1
      <4>2. CASE p \in DOMAIN series
        BY <1>2, <1>5, <2>2, <2>4, <4>2
      <4> QED
        BY <1>3, <4>1, <4>2
    <3>2. LastObserved(next, d) = e
      BY <1>2, <1>3, <1>6, <1>7, <2>1, <2>4, <3>1, LastObservedOnly
    <3>3. LastObserved(series, e) = o
      <4>1. \A p \in DOMAIN series : p <= e => p <= o
        BY <1>2, <1>5, <2>1, <2>2, <2>4
      <4> QED
        BY <1>2, <2>2, <2>4, <4>1, LastObservedOnly
    <3> QED
      BY <1>3, <1>6, <1>8, <3>2, <3>3 DEF o
  <2>5. CASE e < o
    <3>1. o \in DOMAIN next /\ o \notin DOMAIN held
      BY <1>2, <1>3, <1>4, <1>5, <2>1, <2>2, <2>5
    <3>2. \A p \in DOMAIN next : p <= d => p <= o
      <4> SUFFICES ASSUME NEW p \in DOMAIN next, p <= d PROVE p <= o
        OBVIOUS
      <4>1. CASE p \in DOMAIN held
        <5>1. p <= e /\ p \in Int /\ o \in Int
          BY <1>2, <1>4, <1>5, <2>2, <4>1
        <5> QED
          BY <1>2, <2>5, <5>1
      <4>2. CASE p \in DOMAIN series
        BY <2>2, <4>2
      <4> QED
        BY <1>3, <4>1, <4>2
    <3>3. LastObserved(next, d) = o
      BY <1>7, <2>1, <2>2, <3>1, <3>2, LastObservedOnly
    <3> QED
      BY <1>3, <3>1, <3>3 DEF o
  <2> QED
    BY <1>2, <1>5, <2>1, <2>2, <2>3, <2>4, <2>5
<1>11. Filled(calendar, next) = Filled(calendar, series)
  BY <1>9, <1>10 DEF Filled
<1> QED
  BY <1>1, <1>11 DEF next, stored, answer, end
=============================================================================
