---------------------------- MODULE News_proofs ----------------------------
(***************************************************************************)
(* Proofs about News, for every set of tickers, articles and trading days: *)
(* the types, that a series once begun has no gap, and, when the backfill  *)
(* does not run again over a window it has fetched, that the checkpoint    *)
(* covers what it says and that each article counts once, on the first     *)
(* close that could know it.                                               *)
(***************************************************************************)
EXTENDS News, FiniteSetTheorems, WellFoundedInduction, TLAPS

-----------------------------------------------------------------------------
(* Least and greatest days *)

\* A set of numbers has a least one.
LEMMA LeastExists ==
  ASSUME NEW S, S \subseteq Nat, S # {}
  PROVE  \E x \in S : \A y \in S : x <= y
<1>1. IsWellFoundedOn(OpToRel(<, Nat), Nat)
  BY NatLessThanWellFounded
<1>2. PICK x \in S : \A y \in S : ~(<<y, x>> \in OpToRel(<, Nat))
  BY <1>1, WFMin
<1>3. \A y \in S : ~(y < x)
  BY <1>2 DEF OpToRel
<1> QED
  BY <1>3

LEMMA MinIsLeast ==
  ASSUME NEW S, S \subseteq Nat, S # {}
  PROVE  Min(S) \in S /\ \A y \in S : Min(S) <= y
  BY LeastExists DEF Min

LEMMA LeastIsMin ==
  ASSUME NEW S, S \subseteq Nat, NEW x \in S, \A y \in S : x <= y
  PROVE  Min(S) = x
<1>1. Min(S) \in S /\ \A y \in S : Min(S) <= y
  BY MinIsLeast
<1>2. Min(S) \in Nat /\ x \in Nat /\ Min(S) <= x /\ x <= Min(S)
  BY <1>1
<1> QED
  BY <1>2

LEMMA MaxIsGreatest ==
  ASSUME NEW n \in Nat, NEW S, S \subseteq 0 .. n, S # {}
  PROVE  Max(S) \in S /\ \A y \in S : y <= Max(S)
<1> DEFINE T == {n - y : y \in S}
<1>1. T \subseteq Nat /\ T # {}
  <2>1. \A y \in S : n - y \in Nat
    OBVIOUS
  <2> QED
    BY <2>1
<1>2. PICK z \in T : \A y \in T : z <= y
  BY <1>1, LeastExists
<1>3. PICK x \in S : z = n - x
  BY <1>2
<1>4. \A y \in S : x >= y
  <2> TAKE y \in S
  <2>1. n - x <= n - y
    BY <1>2, <1>3
  <2> QED
    BY <2>1
<1>5. Max(S) \in S /\ \A y \in S : Max(S) >= y
  BY <1>4 DEF Max
<1> QED
  BY <1>5

-----------------------------------------------------------------------------
(* Types *)

Calendar(m) == TradingDays \cap (1 .. m)

\* The articles that DailyCounts counts on d.
Counted(articles, calendar, from, to, d) ==
  {a \in articles : from <= a.day /\ a.day <= to /\ Bucket(a, calendar) = d}

LEMMA CountOf ==
  ASSUME NEW articles, NEW calendar, NEW from, NEW to,
         NEW d \in calendar, from <= d, d <= to
  PROVE  DailyCounts(articles, calendar, from, to)[d]
           = Cardinality(Counted(articles, calendar, from, to, d))
  BY DEF DailyCounts, Counted

\* A count of articles is a number that is not the one for none.
LEMMA CountIsCount ==
  ASSUME NEW S, S \subseteq Article
  PROVE  Cardinality(S) \in 0 .. NaN /\ Cardinality(S) # NaN
<1>1. IsFiniteSet(Article) /\ Cardinality(Article) \in Nat
  BY NewsAssumption, FS_CardinalityType
<1>2. Cardinality(S) \in Nat /\ Cardinality(S) <= Cardinality(Article)
  BY <1>1, FS_Subset, FS_CardinalityType
<1> QED
  BY <1>1, <1>2 DEF NaN

LEMMA NaNType == NaN \in Nat /\ NaN \in 0 .. NaN
  BY NewsAssumption, FS_CardinalityType DEF NaN

LEMMA DayType == Day \subseteq Nat /\ TradingDays \subseteq Day /\ 0 \notin Day
  BY NewsAssumption DEF Day

LEMMA DayBound == TradingDays \cup {0} \subseteq 0 .. MaxDay /\ MaxDay \in Nat
  BY NewsAssumption DEF Day

LEMMA TypeInit == Init => TypeOK
  BY NewsAssumption, NaNType DEF Init, TypeOK, NotFilling, Fill, Day

\* What one advance leaves of the archive and the checkpoints.
LEMMA AdvanceType ==
  ASSUME TypeOK, NEW done, Advance(done, day)
  PROVE  archive' \in [Ticker -> SUBSET Article] /\ window' \in [Ticker -> 0 .. MaxDay]
<1> USE DEF TypeOK
<1>1. ASSUME NEW t \in Ticker PROVE ArchiveAfter(t, day) \subseteq Article
  BY DEF ArchiveAfter, Rewritten, Published
<1>2. ASSUME NEW t \in Ticker PROVE WindowAfter(t, day) \in 0 .. MaxDay
  <2>1. {window[t], day} \subseteq 0 .. MaxDay
    BY DEF Day
  <2> QED
    BY <2>1, MaxIsGreatest, NewsAssumption DEF WindowAfter
<1> QED
  BY <1>1, <1>2 DEF Advance

\* The last bar of the stored tickers is one of theirs.
LEMMA LastStored ==
  ASSUME TypeOK
  PROVE  Max({stored[s] : s \in Listed}) \in {stored[s] : s \in Listed}
<1>1. {stored[s] : s \in Listed} \subseteq 0 .. MaxDay
  BY NewsAssumption DEF TypeOK
<1>2. {stored[s] : s \in Listed} # {}
  BY NewsAssumption
<1> QED
  BY <1>1, <1>2, MaxIsGreatest, NewsAssumption

\* The backfill's steps and the passing of a day.
LEMMA FillType ==
  ASSUME TypeOK, \/ NextDay \/ FillUnlink \/ FillWrite \/ FillMark \/ FillCrash
                 \/ \E t \in Ticker : FillFetch(t)
  PROVE  TypeOK'
<1> USE DEF TypeOK, World, Fill, NotFilling
<1>1. CASE NextDay
  <2>1. day' \in Day
    BY <1>1, NewsAssumption DEF NextDay, Day
  <2> QED
    BY <1>1, <2>1 DEF NextDay
<1>2. ASSUME NEW t \in Ticker, FillFetch(t) PROVE TypeOK'
  <2>1. day \in 0 .. MaxDay
    BY NewsAssumption DEF Day
  <2>2. Published(t, 1, day) \subseteq Article
    BY DEF Published
  <2>3. fill' \in Fill
    BY <1>2, <2>1, <2>2 DEF FillFetch
  <2> QED
    BY <1>2, <2>3 DEF FillFetch
<1>3. CASE FillUnlink
  BY <1>3 DEF FillUnlink
<1>4. CASE FillWrite
  <2>1. PICK d \in {a.day : a \in fill.left} :
          /\ archive' = [t \in Ticker |->
                IF t \in fill.ticker THEN archive[t] \cup {a \in fill.left : a.day = d}
                ELSE archive[t]]
          /\ fill' = [fill EXCEPT !.left = @ \ {a \in fill.left : a.day = d}]
    BY <1>4 DEF FillWrite
  <2>2. fill.left \subseteq Article
    OBVIOUS
  <2>3. archive' \in [Ticker -> SUBSET Article]
    BY <2>1, <2>2
  <2>4. fill' \in Fill
    BY <2>1
  <2> QED
    BY <1>4, <2>3, <2>4 DEF FillWrite
<1>5. CASE FillMark
  BY <1>5, NewsAssumption DEF FillMark
<1>6. CASE FillCrash
  BY <1>6, NewsAssumption DEF FillCrash
<1> QED
  BY <1>1, <1>2, <1>3, <1>4, <1>5, <1>6

LEMMA AddType == ASSUME TypeOK, NEW t \in Ticker, AddTicker(t) PROVE TypeOK'
<1>1. Max({stored[s] : s \in Listed}) \in 0 .. MaxDay
  BY LastStored, NewsAssumption DEF TypeOK
<1> QED
  BY <1>1 DEF TypeOK, AddTicker

\* The stored tickers, and the last bar among them.
Present == {t \in Ticker : stored[t] # 0}
Final == Max({stored[t] : t \in Present})

LEMMA FinalIsLast ==
  ASSUME TypeOK, NEW t \in Present
  PROVE  /\ Final \in Nat /\ stored[t] <= Final
         /\ \E s \in Present : Final = stored[s]
<1> DEFINE S == {stored[s] : s \in Present}
<1>1. S \subseteq 0 .. MaxDay
  BY DEF TypeOK, Present
<1>2. stored[t] \in S
  OBVIOUS
<1>3. MaxDay \in Nat /\ S # {}
  BY <1>2, NewsAssumption
<1>4. Final \in S /\ \A y \in S : y <= Final
  <2> HIDE DEF S
  <2>1. Max(S) \in S /\ \A y \in S : y <= Max(S)
    BY <1>1, <1>3, MaxIsGreatest
  <2> QED
    BY <2>1 DEF Final, S
<1> QED
  BY <1>1, <1>2, <1>4

\* What the introduction of the series counts.
LEMMA IntroduceCounts ==
  ASSUME TypeOK, NEW done \in SUBSET Ticker, Introduce(done), introduced' = "yes",
         NEW t \in Ticker, NEW d \in Day
  PROVE  counts'[t][d] =
           IF t \in Present /\ d \in TradingDays /\ d <= stored[t]
           THEN Cardinality(Counted(archive'[t], Calendar(Final), 1, Final, d))
           ELSE NaN
<1>1. counts' = [s \in Ticker |-> [e \in Day |->
                  IF s \in Present /\ e \in TradingDays /\ e <= stored[s]
                  THEN DailyCounts(archive'[s], Calendar(Final), 1, Final)[e]
                  ELSE NaN]]
  BY DEF Introduce, Present, Final, Calendar
<1>2. ASSUME t \in Present, d \in TradingDays, d <= stored[t]
      PROVE  DailyCounts(archive'[t], Calendar(Final), 1, Final)[d]
               = Cardinality(Counted(archive'[t], Calendar(Final), 1, Final, d))
  <2>1. Final \in Nat /\ stored[t] <= Final /\ stored[t] \in Nat /\ d \in Nat /\ 1 <= d
    <3>1. Final \in Nat /\ stored[t] <= Final
      BY <1>2, FinalIsLast
    <3>2. stored[t] \in Nat /\ d \in Nat /\ 1 <= d
      BY NewsAssumption DEF TypeOK, Day
    <3> QED
      BY <3>1, <3>2
  <2>2. d \in Calendar(Final) /\ 1 <= d /\ d <= Final
    BY <1>2, <2>1 DEF Calendar
  <2> QED
    BY <2>2, CountOf
<1> QED
  BY <1>1, <1>2

LEMMA IntroduceType ==
  ASSUME TypeOK, NEW done \in SUBSET Ticker, Introduce(done)
  PROVE  TypeOK'
<1>1. archive' \in [Ticker -> SUBSET Article] /\ window' \in [Ticker -> 0 .. MaxDay]
  BY AdvanceType DEF Introduce
<1>2. introduced' \in {"no", "yes"} /\ UNCHANGED <<day, feed, fill, stored, zeroed>>
  BY DEF Introduce, TypeOK
<1>3. counts' \in [Ticker -> [Day -> 0 .. NaN]]
  <2>1. CASE introduced' = "yes"
    <3>1. ASSUME NEW t \in Ticker, NEW d \in Day PROVE counts'[t][d] \in 0 .. NaN
      <4>1. Counted(archive'[t], Calendar(Final), 1, Final, d) \subseteq Article
        BY <1>1 DEF Counted
      <4> QED
        BY <2>1, <4>1, IntroduceCounts, CountIsCount, NaNType
    <3>2. counts' = [t \in Ticker |-> [d \in Day |-> counts'[t][d]]]
      BY <2>1 DEF Introduce
    <3> QED
      BY <3>1, <3>2
  <2>2. CASE introduced' # "yes"
    BY <2>2 DEF Introduce, TypeOK
  <2> QED
    BY <2>1, <2>2
<1> QED
  BY <1>1, <1>2, <1>3 DEF TypeOK

\* The tickers a refresh moves, those of them without news, and its last bar.
Moving(ends) == {t \in Ticker : ends[t] # stored[t]}
Failed(ends, unlucky) ==
  Moving(ends) \cap (unlucky \cup {t \in Ticker : window[t] = 0})
Last(ends) == Max({ends[s] : s \in Ticker})

\* The days that t gains.
Gained(ends, t, d) == d \in TradingDays /\ stored[t] < d /\ d <= ends[t]

\* A refresh that lands: where the tickers end and what the archive holds.
LEMMA NightlyLands ==
  ASSUME NEW ends, NEW unlucky, Nightly(ends, unlucky)
  PROVE  /\ \A t \in Moving(ends) : stored[t] # 0 /\ stored[t] < ends[t] /\ ends[t] <= day
         /\ Moving(ends) # {} /\ fill.pc = "idle"
         /\ IF introduced = "yes" THEN Advance(Moving(ends) \ Failed(ends, unlucky), day)
                                  ELSE UNCHANGED <<archive, window>>
         /\ UNCHANGED <<day, feed, fill, introduced>>
         /\ \/ /\ stored' = ends
               /\ introduced = "yes"
               /\ counts' = [t \in Ticker |->
                              NewCounts(t, ends, Failed(ends, unlucky), archive'[t])]
               /\ zeroed' = zeroed \cup
                    {td \in Failed(ends, unlucky) \X Day :
                       stored[td[1]] < td[2] /\ td[2] <= ends[td[1]]}
            \/ stored' = ends /\ introduced # "yes" /\ UNCHANGED <<counts, zeroed>>
            \/ UNCHANGED <<stored, counts, zeroed>>
  BY DEF Nightly, Moving, Failed

LEMMA LastIsLast ==
  ASSUME NEW ends \in [Ticker -> TradingDays \cup {0}], NEW t \in Ticker
  PROVE  ends[t] \in Nat /\ Last(ends) \in Nat /\ ends[t] <= Last(ends)
<1> DEFINE S == {ends[s] : s \in Ticker}
<1>1. S \subseteq 0 .. MaxDay /\ ends[t] \in S /\ MaxDay \in Nat
  BY DayBound
<1>2. Last(ends) = Max(S)
  BY DEF Last
<1> HIDE DEF S
<1>3. Last(ends) \in S /\ ends[t] <= Last(ends)
  BY <1>1, <1>2, MaxIsGreatest
<1>4. \A y \in S : y \in Nat
  BY <1>1
<1> QED
  BY <1>1, <1>3, <1>4

\* What a refresh that lands counts.
LEMMA NightlyCounts ==
  ASSUME TypeOK, NEW ends \in [Ticker -> TradingDays \cup {0}], NEW unlucky,
         counts' = [t \in Ticker |-> NewCounts(t, ends, Failed(ends, unlucky), archive'[t])],
         NEW t \in Ticker, NEW d \in Day
  PROVE  counts'[t][d] =
           IF ~Gained(ends, t, d) THEN counts[t][d]
           ELSE IF t \in Failed(ends, unlucky) THEN 0
           ELSE Cardinality(Counted(archive'[t], Calendar(Last(ends)), stored[t], ends[t], d))
<1> DEFINE F == Failed(ends, unlucky)
<1> HIDE DEF F
<1>1. /\ stored[t] \in Nat /\ ends[t] \in Nat /\ Last(ends) \in Nat
      /\ ends[t] <= Last(ends) /\ d \in Nat /\ 1 <= d
  <2>1. stored[t] \in Nat /\ d \in Nat /\ 1 <= d
    BY NewsAssumption DEF TypeOK, Day
  <2> QED
    BY <2>1, LastIsLast
<1>2. counts'[t][d] =
        IF d \notin Calendar(Last(ends)) \/ d <= stored[t] \/ d > ends[t] THEN counts[t][d]
        ELSE IF t \in F THEN 0
        ELSE DailyCounts(archive'[t], Calendar(Last(ends)), stored[t], ends[t])[d]
  BY DEF NewCounts, Calendar, Last, F
<1>3. CASE ~Gained(ends, t, d)
  <2>1. d \notin Calendar(Last(ends)) \/ d <= stored[t] \/ d > ends[t]
    BY <1>1, <1>3 DEF Gained, Calendar
  <2> QED
    BY <1>2, <1>3, <2>1
<1>4. CASE Gained(ends, t, d)
  <2>1. d \in Calendar(Last(ends)) /\ stored[t] <= d /\ d <= ends[t] /\ ~(d <= stored[t])
    BY <1>1, <1>4 DEF Gained, Calendar
  <2>2. DailyCounts(archive'[t], Calendar(Last(ends)), stored[t], ends[t])[d]
          = Cardinality(Counted(archive'[t], Calendar(Last(ends)), stored[t], ends[t], d))
    BY <2>1, CountOf
  <2>3. ~(d > ends[t])
    BY <1>1, <2>1
  <2> QED
    BY <1>2, <1>4, <2>1, <2>2, <2>3 DEF F
<1> QED
  BY <1>3, <1>4

LEMMA NightlyType ==
  ASSUME TypeOK, NEW ends \in [Ticker -> TradingDays \cup {0}], NEW unlucky,
         Nightly(ends, unlucky)
  PROVE  TypeOK'
<1>1. archive' \in [Ticker -> SUBSET Article] /\ window' \in [Ticker -> 0 .. MaxDay]
  BY NightlyLands, AdvanceType DEF TypeOK
<1>2. UNCHANGED <<day, feed, fill, introduced>>
  BY NightlyLands
<1>3. ends \in [Ticker -> 0 .. MaxDay]
  BY DayBound
<1>4. ASSUME counts' = [t \in Ticker |->
                        NewCounts(t, ends, Failed(ends, unlucky), archive'[t])]
      PROVE  counts' \in [Ticker -> [Day -> 0 .. NaN]]
  <2>1. ASSUME NEW t \in Ticker, NEW d \in Day PROVE counts'[t][d] \in 0 .. NaN
    <3>1. Counted(archive'[t], Calendar(Last(ends)), stored[t], ends[t], d) \subseteq Article
      BY <1>1 DEF Counted
    <3>2. counts[t][d] \in 0 .. NaN /\ 0 \in 0 .. NaN
      BY NaNType DEF TypeOK
    <3> QED
      BY <1>4, <3>1, <3>2, NightlyCounts, CountIsCount
  <2>2. \A t \in Ticker :
          NewCounts(t, ends, Failed(ends, unlucky), archive'[t])
            = [d \in Day |-> NewCounts(t, ends, Failed(ends, unlucky), archive'[t])[d]]
    BY DEF NewCounts
  <2>3. counts' = [t \in Ticker |-> [d \in Day |-> counts'[t][d]]]
    BY <1>4, <2>2
  <2> QED
    BY <2>1, <2>3
<1>5. {td \in Failed(ends, unlucky) \X Day :
         stored[td[1]] < td[2] /\ td[2] <= ends[td[1]]} \subseteq Ticker \X Day
  BY DEF Failed, Moving
<1>6. stored' \in [Ticker -> 0 .. MaxDay]
  BY <1>3, NightlyLands DEF TypeOK
<1>7. counts' \in [Ticker -> [Day -> 0 .. NaN]]
  <2>1. \/ counts' = [t \in Ticker |->
                       NewCounts(t, ends, Failed(ends, unlucky), archive'[t])]
        \/ counts' = counts
    BY NightlyLands
  <2> QED
    BY <1>4, <2>1 DEF TypeOK
<1>8. zeroed' \subseteq Ticker \X Day
  BY <1>5, NightlyLands DEF TypeOK
<1> QED
  BY <1>1, <1>2, <1>6, <1>7, <1>8 DEF TypeOK

LEMMA TypeStep == TypeOK /\ [Next]_vars => TypeOK'
<1> SUFFICES ASSUME TypeOK, [Next]_vars PROVE TypeOK'
  OBVIOUS
<1>1. CASE UNCHANGED vars
  BY <1>1 DEF vars, TypeOK
<1> QED
  BY <1>1, FillType, AddType, IntroduceType, NightlyType DEF Next

\* Archive, checkpoints and counts keep their types, whatever fails or is killed.
THEOREM TypeCorrect == Spec => []TypeOK
  BY TypeInit, TypeStep, PTL DEF Spec

-----------------------------------------------------------------------------
(* No gaps *)

\* Before the series is introduced, and for a ticker not in the store, there are
\* no counts.
Uncounted ==
  \A t \in Ticker : \A d \in Day :
    introduced = "no" \/ stored[t] = 0 => counts[t][d] = NaN

Filled == TypeOK /\ Uncounted /\ Gapless

LEMMA FilledInit == Init => Filled
  BY TypeInit, DayType DEF Init, Filled, Uncounted, Gapless

\* A step that moves neither bars nor counts.
LEMMA SameCounts ==
  ASSUME TypeOK, Uncounted, Gapless, UNCHANGED <<stored, counts, introduced>>
  PROVE  Uncounted' /\ Gapless'
  BY DEF Uncounted, Gapless

LEMMA AddFilled ==
  ASSUME Filled, NEW t \in Ticker, AddTicker(t)
  PROVE  Uncounted' /\ Gapless'
<1>1. UNCHANGED <<counts, introduced>> /\ \A s \in Ticker \ {t} : stored'[s] = stored[s]
  BY DEF AddTicker, Filled, TypeOK
<1>2. stored[t] = 0
  BY DEF AddTicker
<1>3. \A d \in Day : counts[t][d] = NaN
  BY <1>2 DEF Filled, Uncounted
<1>4. Uncounted'
  BY <1>1, <1>3 DEF Filled, Uncounted
<1>5. ASSUME NEW s \in Ticker, NEW d \in TradingDays, NEW e \in TradingDays,
             counts'[s][d] # NaN, d < e, e <= stored'[s]
      PROVE  counts'[s][e] # NaN
  BY <1>1, <1>3, <1>5, DayType DEF Filled, Gapless
<1> QED
  BY <1>4, <1>5 DEF Gapless

LEMMA IntroduceFilled ==
  ASSUME Filled, NEW done \in SUBSET Ticker, Introduce(done)
  PROVE  Uncounted' /\ Gapless'
<1>1. TypeOK /\ TypeOK' /\ stored' = stored
  BY IntroduceType DEF Filled, Introduce
<1>2. CASE introduced' = "yes"
  <2>1. ASSUME NEW t \in Ticker, NEW d \in Day
        PROVE  counts'[t][d] # NaN <=> (t \in Present /\ d \in TradingDays /\ d <= stored[t])
    <3>1. Counted(archive'[t], Calendar(Final), 1, Final, d) \subseteq Article
      BY <1>1 DEF Counted, TypeOK
    <3> QED
      BY <1>1, <1>2, <3>1, IntroduceCounts, CountIsCount
  <2>2. Uncounted'
    BY <1>1, <1>2, <2>1 DEF Uncounted, Present
  <2>3. Gapless'
    BY <1>1, <2>1, DayType DEF Gapless
  <2> QED
    BY <2>2, <2>3
<1>3. CASE introduced' # "yes"
  <2>1. UNCHANGED <<stored, counts, introduced>>
    BY <1>1, <1>3 DEF Introduce
  <2> QED
    BY <2>1, SameCounts DEF Filled
<1> QED
  BY <1>2, <1>3

LEMMA NightlyFilled ==
  ASSUME Filled, NEW ends \in [Ticker -> TradingDays \cup {0}], NEW unlucky,
         Nightly(ends, unlucky)
  PROVE  Uncounted' /\ Gapless'
<1> DEFINE F == Failed(ends, unlucky)
<1>1. TypeOK /\ TypeOK' /\ introduced' = introduced
  BY NightlyType, NightlyLands DEF Filled
<1>2. CASE UNCHANGED <<stored, counts>>
  BY <1>1, <1>2, SameCounts DEF Filled
<1>3. ASSUME NEW t \in Ticker, stored[t] = 0 PROVE ends[t] = 0
  BY <1>3, NightlyLands DEF Moving
<1>4. CASE stored' = ends /\ introduced # "yes" /\ UNCHANGED counts
  BY <1>1, <1>4, DayType DEF Filled, Uncounted, Gapless, TypeOK
<1>5. CASE stored' = ends /\ introduced = "yes"
           /\ counts' = [t \in Ticker |-> NewCounts(t, ends, F, archive'[t])]
  <2>1. ASSUME NEW t \in Ticker, NEW d \in Day
        PROVE  counts'[t][d] # NaN <=> (Gained(ends, t, d) \/ counts[t][d] # NaN)
    <3>1. Counted(archive'[t], Calendar(Last(ends)), stored[t], ends[t], d) \subseteq Article
      BY <1>1 DEF Counted, TypeOK
    <3>2. 0 # NaN
      BY NewsAssumption, FS_CardinalityType DEF NaN
    <3>3. ~Gained(ends, t, d) => counts'[t][d] = counts[t][d]
      BY <1>1, <1>5, NightlyCounts
    <3>4. Gained(ends, t, d) => counts'[t][d] # NaN
      BY <1>1, <1>5, <3>1, <3>2, NightlyCounts, CountIsCount
    <3> QED
      BY <3>3, <3>4
  <2>2. Uncounted'
    <3> SUFFICES ASSUME NEW t \in Ticker, NEW d \in Day, ends[t] = 0
                 PROVE  counts'[t][d] = NaN
      BY <1>1, <1>5 DEF Uncounted
    <3>0. stored[t] \in Nat
      BY DEF Filled, TypeOK
    <3>1. stored[t] = 0
      <4>1. \A s \in Moving(ends) : stored[s] < ends[s]
        BY NightlyLands
      <4>2. ~(stored[t] < ends[t])
        BY <3>0
      <4> QED
        BY <4>1, <4>2 DEF Moving
    <3>2. counts[t][d] = NaN /\ ~Gained(ends, t, d)
      BY <3>1, DayType DEF Filled, Uncounted, Gained
    <3> QED
      BY <2>1, <3>2
  <2>3. ASSUME NEW t \in Ticker, NEW d \in TradingDays, NEW e \in TradingDays,
               counts'[t][d] # NaN, d < e, e <= ends[t]
        PROVE  counts'[t][e] # NaN
    <3>1. d \in Day /\ e \in Day /\ d \in Nat /\ e \in Nat /\ stored[t] \in Nat
      BY DayType DEF Filled, TypeOK
    <3>2. CASE e > stored[t]
      BY <2>1, <2>3, <3>1, <3>2 DEF Gained
    <3>3. CASE e <= stored[t]
      <4>1. ~Gained(ends, t, d)
        BY <2>3, <3>1, <3>3 DEF Gained
      <4>2. counts[t][e] # NaN
        BY <2>1, <2>3, <3>1, <3>3, <4>1 DEF Filled, Gapless
      <4> QED
        BY <2>1, <3>1, <4>2
    <3> QED
      BY <3>1, <3>2, <3>3
  <2> QED
    BY <1>5, <2>2, <2>3 DEF Gapless
<1> QED
  BY <1>2, <1>4, <1>5, NightlyLands

LEMMA FilledStep == Filled /\ [Next]_vars => Filled'
<1> SUFFICES ASSUME Filled, [Next]_vars PROVE Filled'
  OBVIOUS
<1>1. TypeOK /\ TypeOK' /\ Uncounted /\ Gapless
  BY TypeStep DEF Filled
<1>2. ASSUME UNCHANGED <<stored, counts, introduced>> PROVE Filled'
  BY <1>1, <1>2, SameCounts DEF Filled
<1>3. CASE UNCHANGED vars
  BY <1>2, <1>3 DEF vars
<1>4. CASE \/ NextDay \/ FillUnlink \/ FillWrite \/ FillMark \/ FillCrash
           \/ \E t \in Ticker : FillFetch(t)
  BY <1>2, <1>4 DEF NextDay, FillUnlink, FillWrite, FillMark, FillCrash, FillFetch, World
<1>5. CASE \/ \E t \in Ticker : AddTicker(t)
           \/ \E done \in SUBSET Ticker : Introduce(done)
           \/ \E ends \in [Ticker -> TradingDays \cup {0}], unlucky \in SUBSET Ticker :
                Nightly(ends, unlucky)
  BY <1>1, <1>5, AddFilled, IntroduceFilled, NightlyFilled DEF Filled
<1> QED
  BY <1>3, <1>4, <1>5 DEF Next

\* Once a ticker has a count, every later day of its bars has one, whatever
\* fails, is killed or is fetched again.
THEOREM NoGaps == Spec => []Gapless
<1>1. Filled => Gapless
  BY DEF Filled
<1> QED
  BY FilledInit, FilledStep, <1>1, PTL DEF Spec

-----------------------------------------------------------------------------
(* The archive and its checkpoints, when the backfill is not run again *)

\* The archive holds articles there are, and the bars end on trading days that
\* are over.
Sound ==
  /\ \A t \in Ticker : archive[t] \subseteq {a \in feed : a.ticker = t}
  /\ \A t \in Ticker : stored[t] \in TradingDays \cup {0} /\ stored[t] <= day

\* What the backfill has not written yet is left to write, and the checkpoint of
\* its ticker says nothing.
Filling ==
  /\ fill.pc = "idle" => fill.ticker = {}
  /\ \A t \in fill.ticker :
       /\ window[t] = 0
       /\ fill.left \subseteq Published(t, 1, fill.end)
       /\ fill.pc = "unlink" => fill.left = Published(t, 1, fill.end)
       /\ fill.pc = "write" => Published(t, 1, fill.end) \subseteq archive[t] \cup fill.left

Covered == TypeOK /\ Sound /\ Filling /\ CheckpointCovers

LEMMA CoveredInit == Init => Covered
<1> SUFFICES ASSUME Init PROVE Covered
  OBVIOUS
<1>1. TypeOK /\ Sound /\ Filling
  BY TypeInit, NewsAssumption DEF Init, Sound, Filling, NotFilling, Day
<1>2. \A t \in Ticker : Published(t, 1, window[t]) = {}
  BY NewsAssumption DEF Init, Published, Day
<1> QED
  BY <1>1, <1>2 DEF Covered, CheckpointCovers

\* An advance leaves what it has reached covered, and nothing less than before.
LEMMA AdvanceCovers ==
  ASSUME Covered, fill.pc = "idle", NEW done, Advance(done, day), feed' = feed
  PROVE  /\ \A t \in Ticker : archive'[t] \subseteq {a \in feed : a.ticker = t}
         /\ \A t \in Ticker : Published(t, 1, window'[t]) \subseteq archive'[t]
         /\ \A t \in Ticker \cap done : Published(t, 1, day) \subseteq archive'[t]
<1> SUFFICES ASSUME NEW t \in Ticker
             PROVE  /\ archive'[t] \subseteq {a \in feed : a.ticker = t}
                    /\ Published(t, 1, window'[t]) \subseteq archive'[t]
                    /\ t \in done => Published(t, 1, day) \subseteq archive'[t]
  BY DEF Published
<1>1. /\ window[t] \in Nat /\ day \in Nat /\ \A a \in feed : a.day \in Nat
      /\ {window[t], day} \subseteq 0 .. MaxDay /\ MaxDay \in Nat
  BY NewsAssumption DEF Covered, TypeOK, Day
<1>2. /\ archive[t] \subseteq {a \in feed : a.ticker = t}
      /\ Published(t, 1, window[t]) \subseteq archive[t]
  BY DEF Covered, Sound, Filling, CheckpointCovers
<1>3. CASE t \notin done
  <2>1. archive'[t] = archive[t] /\ window'[t] = window[t]
    BY <1>3 DEF Advance
  <2> QED
    BY <1>2, <1>3, <2>1
<1>4. CASE t \in done
  <2>1. archive'[t] = ArchiveAfter(t, day) /\ window'[t] = Max({window[t], day})
    BY <1>4 DEF Advance, WindowAfter
  <2>2. window'[t] \in {window[t], day} /\ window[t] <= window'[t] /\ day <= window'[t]
    BY <1>1, <2>1, MaxIsGreatest
  <2>3. CASE window[t] >= day
    <3>1. archive'[t] = archive[t] /\ window'[t] = window[t]
      BY <1>1, <2>1, <2>2, <2>3 DEF ArchiveAfter
    <3>2. Published(t, 1, day) \subseteq Published(t, 1, window[t])
      BY <1>1, <2>3 DEF Published
    <3> QED
      BY <1>2, <3>1, <3>2
  <2>4. CASE window[t] < day
    <3>1. archive'[t] = {a \in archive[t] : a.day < window[t] + 1 \/ a.day > day}
                          \cup Published(t, window[t] + 1, day)
      BY <1>1, <2>1, <2>4 DEF ArchiveAfter, Rewritten
    <3>2. window'[t] = day
      BY <1>1, <2>2, <2>4
    <3>3. ASSUME NEW a \in Published(t, 1, day) PROVE a \in archive'[t]
      <4>1. a \in feed /\ a.ticker = t /\ 1 <= a.day /\ a.day <= day /\ a.day \in Nat
        BY <1>1 DEF Published
      <4>2. CASE a.day <= window[t]
        BY <1>1, <1>2, <3>1, <4>1, <4>2 DEF Published
      <4>3. CASE a.day > window[t]
        BY <1>1, <3>1, <4>1, <4>3 DEF Published
      <4> QED
        BY <1>1, <4>1, <4>2, <4>3
    <3>4. archive'[t] \subseteq {a \in feed : a.ticker = t}
      BY <1>2, <3>1 DEF Published
    <3> QED
      BY <3>2, <3>3, <3>4
  <2> QED
    BY <1>1, <2>3, <2>4
<1> QED
  BY <1>3, <1>4

\* The backfill's steps, and the passing of a day.
LEMMA FillCovered ==
  ASSUME ~Refetch, Covered,
         \/ NextDay \/ FillUnlink \/ FillWrite \/ FillMark \/ FillCrash
         \/ \E t \in Ticker : FillFetch(t)
  PROVE  Sound' /\ Filling' /\ CheckpointCovers'
<1>0. TypeOK /\ Sound /\ Filling /\ CheckpointCovers
  BY DEF Covered
<1>00. feed' = feed /\ stored' = stored
  BY DEF NextDay, FillFetch, FillUnlink, FillWrite, FillMark, FillCrash, World
<1>000. \A t, i, j : Published(t, i, j)' = Published(t, i, j)
  BY <1>00 DEF Published
<1>1. CASE NextDay
  <2>1. UNCHANGED <<archive, window, fill>> /\ day' = day + 1 /\ day \in Nat
    BY <1>0, <1>1, DayType DEF NextDay, TypeOK
  <2>2. \A t \in Ticker : stored[t] \in Nat
    BY <1>0 DEF TypeOK
  <2>3. Sound'
    BY <1>0, <1>00, <2>1, <2>2 DEF Sound
  <2>4. Filling' /\ CheckpointCovers'
    BY <1>0, <1>000, <2>1 DEF Filling, CheckpointCovers
  <2> QED
    BY <2>3, <2>4
<1>2. ASSUME NEW t \in Ticker, FillFetch(t)
      PROVE  Sound' /\ Filling' /\ CheckpointCovers'
  <2>1. /\ UNCHANGED <<archive, window, day>>
        /\ fill' = [pc |-> "unlink", ticker |-> {t}, end |-> day,
                    left |-> Published(t, 1, day)]
        /\ window[t] = 0
    BY <1>2 DEF FillFetch, World
  <2>2. Sound'
    BY <1>0, <1>00, <2>1 DEF Sound
  <2>3. Filling'
    BY <1>000, <2>1 DEF Filling
  <2>4. CheckpointCovers'
    <3>1. fill.ticker = {}
      BY <1>0, <1>2 DEF FillFetch, Filling
    <3> QED
      BY <1>0, <1>000, <2>1, <3>1 DEF CheckpointCovers
  <2> QED
    BY <2>2, <2>3, <2>4
<1>3. CASE FillUnlink
  <2>1. /\ fill.pc = "unlink" /\ fill'.pc = "write"
        /\ fill'.ticker = fill.ticker /\ fill'.end = fill.end /\ fill'.left = fill.left
        /\ UNCHANGED <<window, day>>
    BY <1>0, <1>3 DEF FillUnlink, World, TypeOK, Fill
  <2>2. \A s \in Ticker : archive'[s] = IF s \in fill.ticker
                                       THEN {a \in archive[s] : a.day > fill.end}
                                       ELSE archive[s]
    BY <1>3 DEF FillUnlink
  <2>3. Sound'
    BY <1>0, <1>00, <2>1, <2>2 DEF Sound
  <2>4. fill.ticker \subseteq Ticker
    BY <1>0 DEF TypeOK, Fill
  <2>5. Filling'
    BY <1>0, <1>000, <2>1, <2>2, <2>4 DEF Filling
  <2>6. CheckpointCovers'
    BY <1>0, <1>000, <2>1, <2>2 DEF CheckpointCovers
  <2> QED
    BY <2>3, <2>5, <2>6
<1>4. CASE FillWrite
  <2>1. PICK d \in {a.day : a \in fill.left} :
          /\ archive' = [t \in Ticker |->
                IF t \in fill.ticker THEN archive[t] \cup {a \in fill.left : a.day = d}
                ELSE archive[t]]
          /\ fill' = [fill EXCEPT !.left = @ \ {a \in fill.left : a.day = d}]
    BY <1>4 DEF FillWrite
  <2> DEFINE file == {a \in fill.left : a.day = d}
  <2>2. /\ fill.pc = "write" /\ fill'.pc = "write"
        /\ fill'.ticker = fill.ticker /\ fill'.end = fill.end
        /\ fill'.left = fill.left \ file /\ file \subseteq fill.left
        /\ UNCHANGED <<window, day>>
    BY <1>0, <1>4, <2>1 DEF FillWrite, World, TypeOK, Fill
  <2>3. \A s \in Ticker : archive'[s] = IF s \in fill.ticker THEN archive[s] \cup file
                                       ELSE archive[s]
    BY <2>1
  <2> HIDE DEF file
  <2>4. fill.ticker \subseteq Ticker
    BY <1>0 DEF TypeOK, Fill
  <2>5. \A s \in fill.ticker : file \subseteq {a \in feed : a.ticker = s}
    BY <1>0, <2>2 DEF Filling, Published
  <2>6. Sound'
    BY <1>0, <1>00, <2>2, <2>3, <2>5 DEF Sound
  <2>7. Filling'
    BY <1>0, <1>000, <2>2, <2>3, <2>4 DEF Filling
  <2>8. CheckpointCovers'
    BY <1>0, <1>000, <2>2, <2>3 DEF CheckpointCovers
  <2> QED
    BY <2>6, <2>7, <2>8
<1>5. CASE FillMark
  <2>1. /\ fill.pc = "write" /\ fill.left = {} /\ fill'.pc = "idle" /\ fill'.ticker = {}
        /\ UNCHANGED <<archive, day>>
    BY <1>5 DEF FillMark, World, NotFilling
  <2>2. \A s \in Ticker : window'[s] = IF s \in fill.ticker THEN fill.end ELSE window[s]
    BY <1>5 DEF FillMark
  <2>3. Sound' /\ Filling'
    BY <1>0, <1>00, <2>1 DEF Sound, Filling
  <2>4. CheckpointCovers'
    BY <1>0, <1>000, <2>1, <2>2 DEF CheckpointCovers, Filling
  <2> QED
    BY <2>3, <2>4
<1>6. CASE FillCrash
  <2>1. fill'.pc = "idle" /\ fill'.ticker = {} /\ UNCHANGED <<archive, window, day>>
    BY <1>6 DEF FillCrash, World, NotFilling
  <2>2. Sound' /\ Filling'
    BY <1>0, <1>00, <2>1 DEF Sound, Filling
  <2>3. ASSUME NEW s \in fill.ticker PROVE Published(s, 1, window[s]) = {}
    <3>1. window[s] = 0 /\ \A a \in feed : a.day \in Nat
      BY <1>0, NewsAssumption DEF Filling, TypeOK, Day
    <3> QED
      BY <3>1 DEF Published
  <2>4. CheckpointCovers'
    BY <1>0, <1>000, <2>1, <2>3 DEF CheckpointCovers
  <2> QED
    BY <2>2, <2>4
<1> QED
  BY <1>1, <1>2, <1>3, <1>4, <1>5, <1>6

\* The store's steps.
LEMMA AddCovered ==
  ASSUME Covered, NEW t \in Ticker, AddTicker(t)
  PROVE  Sound' /\ Filling' /\ CheckpointCovers'
<1>1. UNCHANGED <<day, feed, archive, window, fill>>
  BY DEF AddTicker
<1>2. \A s, i, j : Published(s, i, j)' = Published(s, i, j)
  BY <1>1 DEF Published
<1>3. Filling' /\ CheckpointCovers'
  BY <1>1, <1>2 DEF Covered, Filling, CheckpointCovers
<1>4. PICK l \in Listed : Max({stored[s] : s \in Listed}) = stored[l]
  BY LastStored DEF Covered
<1>5. stored[l] \in TradingDays \cup {0} /\ stored[l] <= day
  BY NewsAssumption DEF Covered, Sound
<1>6. \A s \in Ticker : stored'[s] \in {stored[s], stored[l]}
  BY <1>4 DEF AddTicker, Covered, TypeOK
<1>7. Sound'
  BY <1>1, <1>5, <1>6 DEF Covered, Sound
<1> QED
  BY <1>3, <1>7

LEMMA IntroduceCovered ==
  ASSUME Covered, NEW done \in SUBSET Ticker, Introduce(done)
  PROVE  Sound' /\ Filling' /\ CheckpointCovers'
<1>1. /\ UNCHANGED <<day, feed, fill, stored>> /\ fill.pc = "idle" /\ Advance(done, day)
      /\ fill.ticker = {}
  BY DEF Introduce, Covered, Filling
<1>2. \A s, i, j : Published(s, i, j)' = {a \in feed : a.ticker = s /\ i <= a.day /\ a.day <= j}
  BY <1>1 DEF Published
<1>3. Sound' /\ CheckpointCovers'
  BY <1>1, AdvanceCovers DEF Covered, Sound, CheckpointCovers, Published
<1>4. Filling'
  BY <1>1 DEF Filling
<1> QED
  BY <1>3, <1>4

LEMMA NightlyCovered ==
  ASSUME Covered, NEW ends \in [Ticker -> TradingDays \cup {0}], NEW unlucky,
         Nightly(ends, unlucky)
  PROVE  Sound' /\ Filling' /\ CheckpointCovers'
<1>1. /\ UNCHANGED <<day, feed, fill>> /\ fill.pc = "idle" /\ fill.ticker = {}
      /\ stored' = ends \/ stored' = stored
  BY NightlyLands DEF Covered, Filling
<1>2. \A t \in Ticker : stored'[t] \in TradingDays \cup {0} /\ stored'[t] <= day
  <2>1. \A t \in Ticker : ends[t] = stored[t] \/ ends[t] <= day
    BY NightlyLands DEF Moving
  <2> QED
    BY <1>1, <2>1 DEF Covered, Sound
<1>3. /\ \A t \in Ticker : archive'[t] \subseteq {a \in feed : a.ticker = t}
      /\ \A t \in Ticker : Published(t, 1, window'[t]) \subseteq archive'[t]
  <2>1. CASE introduced = "yes"
    <3>1. Advance(Moving(ends) \ Failed(ends, unlucky), day)
      BY <2>1, NightlyLands
    <3> QED
      BY <1>1, <3>1, AdvanceCovers
  <2>2. CASE introduced # "yes"
    <3>1. UNCHANGED <<archive, window>>
      BY <2>2, NightlyLands
    <3> QED
      BY <1>1, <3>1 DEF Covered, Sound, CheckpointCovers
  <2> QED
    BY <2>1, <2>2
<1>4. Sound'
  BY <1>1, <1>2, <1>3 DEF Sound
<1>5. CheckpointCovers'
  BY <1>1, <1>3 DEF CheckpointCovers, Published
<1>6. Filling'
  BY <1>1 DEF Filling
<1> QED
  BY <1>4, <1>5, <1>6

LEMMA CoveredStep ==
  ASSUME ~Refetch, Covered, [Next]_vars
  PROVE  Covered'
<1>1. TypeOK'
  BY TypeStep DEF Covered
<1>2. CASE UNCHANGED vars
  BY <1>1, <1>2 DEF vars, Covered, Sound, Filling, CheckpointCovers, Published
<1>3. CASE Next
  BY <1>1, <1>3, FillCovered, AddCovered, IntroduceCovered, NightlyCovered DEF Next, Covered
<1> QED
  BY <1>2, <1>3

\* A checkpoint covers the window it names, whatever fails or is killed, when no
\* backfill rewrites a window it has fetched.
THEOREM WindowCovered ==
  ASSUME ~Refetch
  PROVE  Spec => []CheckpointCovers
<1>1. Covered /\ [Next]_vars => Covered'
  BY CoveredStep
<1>2. Covered => CheckpointCovers
  BY DEF Covered
<1> QED
  BY CoveredInit, <1>1, <1>2, PTL DEF Spec

-----------------------------------------------------------------------------
(* The counts *)

\* A calendar cut off after d puts an article on d exactly if d is the first
\* trading day whose close could know it.
LEMMA BucketIsFirst ==
  ASSUME NEW m \in Nat, NEW d \in Calendar(m), NEW a \in Article
  PROVE  Bucket(a, Calendar(m)) = d <=> CountedOn(a, d)
<1> DEFINE after == {e \in Calendar(m) : e > a.day}
<1>1. /\ a.day \in Nat /\ d \in Nat /\ 1 <= d /\ d <= m /\ d \in TradingDays
      /\ \A e \in TradingDays : e \in Nat /\ 1 <= e /\ (e \in Calendar(m) <=> e <= m)
      /\ Calendar(m) \subseteq TradingDays
  BY NewsAssumption DEF Calendar, Day
<1>2. after \subseteq Nat
  BY <1>1
<1>3. CASE a.day \in Calendar(m) /\ a.late = "early"
  <2>1. Bucket(a, Calendar(m)) = a.day
    BY <1>3 DEF Bucket
  <2>2. CountedOn(a, a.day)
    BY <1>1, <1>3 DEF CountedOn, Knows
  <2>3. CountedOn(a, d) => a.day = d
    BY <1>1, <1>3 DEF CountedOn, Knows
  <2> QED
    BY <2>1, <2>2, <2>3
<1>4. CASE ~(a.day \in Calendar(m) /\ a.late = "early")
  <2>1. Bucket(a, Calendar(m)) = IF after = {} THEN 0 ELSE Min(after)
    BY <1>4 DEF Bucket, NextTradingDay
  <2>2. ASSUME CountedOn(a, d) PROVE Bucket(a, Calendar(m)) = d
    <3>1. d \in after
      BY <1>1, <1>4, <2>2 DEF CountedOn, Knows
    <3>2. \A e \in after : d <= e
      BY <1>1, <2>2 DEF CountedOn, Knows
    <3>3. Min(after) = d
      <4> HIDE DEF after
      <4> QED
        BY <1>2, <3>1, <3>2, LeastIsMin
    <3> QED
      BY <2>1, <3>1, <3>3
  <2>3. ASSUME Bucket(a, Calendar(m)) = d PROVE CountedOn(a, d)
    <3>1. after # {} /\ d = Min(after)
      BY <1>1, <2>1, <2>3
    <3>2. d \in after /\ \A e \in after : d <= e
      <4> HIDE DEF after
      <4> QED
        BY <1>2, <3>1, MinIsLeast
    <3>3. Knows(d, a)
      BY <1>1, <3>2 DEF Knows
    <3>4. ASSUME NEW e \in TradingDays, e < d, Knows(e, a) PROVE FALSE
      <4>1. e \in Calendar(m)
        BY <1>1, <3>4
      <4>2. CASE a.day < e
        BY <1>1, <3>2, <3>4, <4>1, <4>2
      <4>3. CASE a.day = e /\ a.late = "early"
        BY <1>4, <4>1, <4>3
      <4> QED
        BY <3>4, <4>2, <4>3 DEF Knows
    <3> QED
      BY <3>3, <3>4 DEF CountedOn
  <2> QED
    BY <2>2, <2>3
<1> QED
  BY <1>3, <1>4

\* Counting from day 1, or from an earlier trading day, in an archive that is whole
\* up to d finds them.
LEMMA CountedIsDue ==
  ASSUME TypeOK, NEW t \in Ticker, NEW articles,
         articles \subseteq {a \in feed : a.ticker = t},
         NEW n \in Nat, Published(t, 1, n) \subseteq articles,
         NEW m \in Nat, NEW d \in Calendar(m), d <= n,
         NEW from, from = 1 \/ (from \in TradingDays /\ from < d),
         NEW to \in Nat, d <= to
  PROVE  Counted(articles, Calendar(m), from, to, d) = Due(t, d)
<1>1. /\ d \in TradingDays /\ d \in Nat /\ from \in Nat
      /\ \A a \in feed : a \in Article /\ a.day \in Nat /\ 1 <= a.day
  <2>1. d \in TradingDays /\ TradingDays \subseteq Nat
    BY DayType DEF Calendar
  <2>2. from \in Nat
    <3>1. CASE from = 1
      BY <3>1
    <3>2. CASE from \in TradingDays
      BY <2>1, <3>2
    <3> QED
      BY <3>1, <3>2
  <2>3. \A a \in Article : a.day \in Nat /\ 1 <= a.day
    BY NewsAssumption DEF Day
  <2> QED
    BY <2>1, <2>2, <2>3 DEF TypeOK
<1>2. Counted(articles, Calendar(m), from, to, d) \subseteq Due(t, d)
  BY <1>1, BucketIsFirst DEF Counted, Due
<1>3. ASSUME NEW a \in Due(t, d) PROVE a \in Counted(articles, Calendar(m), from, to, d)
  <2>1. a \in feed /\ a.ticker = t /\ CountedOn(a, d) /\ a \in Article
    BY <1>1 DEF Due
  <2>2. a.day <= d
    BY <1>1, <2>1 DEF CountedOn, Knows
  <2>3. from <= a.day
    <3>1. CASE from = 1
      BY <1>1, <2>1, <3>1
    <3>2. CASE from \in TradingDays /\ from < d
      <4>1. ~Knows(from, a)
        BY <2>1, <3>2 DEF CountedOn
      <4> QED
        BY <1>1, <2>1, <3>2, <4>1 DEF Knows
    <3> QED
      BY <3>1, <3>2
  <2>4. a \in articles
    BY <1>1, <2>1, <2>2 DEF Published
  <2>5. a.day <= to
    BY <1>1, <2>1, <2>2
  <2> QED
    BY <2>1, <2>3, <2>4, <2>5, BucketIsFirst DEF Counted
<1> QED
  BY <1>2, <1>3

\* A count that is right, or a failed fetch's.
Right(t, d) ==
  counts[t][d] # NaN =>
    \/ counts[t][d] = Cardinality(Due(t, d))
    \/ counts[t][d] = 0 /\ <<t, d>> \in zeroed

LEMMA ExactIsRight == CountsExact <=> \A t \in Ticker : \A d \in TradingDays : Right(t, d)
  BY DEF CountsExact, Right

Accounted == Covered /\ Filled /\ CountsExact

LEMMA AccountedInit == Init => Accounted
  BY CoveredInit, FilledInit, DayType DEF Init, Accounted, CountsExact

\* A count that stays is right as it was.
LEMMA SameRight ==
  ASSUME Accounted, feed' = feed, zeroed \subseteq zeroed',
         NEW t \in Ticker, NEW d \in TradingDays, counts'[t][d] = counts[t][d]
  PROVE  Right(t, d)'
  BY ExactIsRight DEF Accounted, Right, Due

LEMMA IntroduceExact ==
  ASSUME Accounted, NEW done \in SUBSET Ticker, Introduce(done)
  PROVE  CountsExact'
<1>1. /\ TypeOK /\ Sound /\ Covered
      /\ UNCHANGED <<day, feed, stored, zeroed>> /\ Advance(done, day) /\ fill.pc = "idle"
  BY DEF Introduce, Accounted, Covered
<1>2. ASSUME NEW t \in Ticker, NEW d \in TradingDays PROVE Right(t, d)'
  <2>1. CASE introduced' # "yes"
    <3>1. counts' = counts
      BY <2>1 DEF Introduce, Accounted, Covered, TypeOK
    <3> QED
      BY <1>1, <3>1, SameRight
  <2>2. CASE introduced' = "yes"
    <3>1. d \in Day /\ d \in Nat /\ 1 <= d /\ day \in Nat
      BY <1>1, NewsAssumption DEF TypeOK, Day
    <3>2. CASE ~(t \in Present /\ d <= stored[t])
      BY <1>1, <2>2, <3>1, <3>2, IntroduceCounts DEF Right
    <3>3. CASE t \in Present /\ d <= stored[t]
      <4>1. done = Present
        BY <2>2 DEF Introduce, Present, Accounted, Covered, TypeOK
      <4>2. /\ Published(t, 1, day) \subseteq archive'[t]
            /\ archive'[t] \subseteq {a \in feed : a.ticker = t}
        BY <1>1, <3>3, <4>1, AdvanceCovers
      <4>3. stored[t] <= Final /\ Final \in Nat /\ stored[t] <= day /\ stored[t] \in Nat
        BY <1>1, <3>3, FinalIsLast DEF Sound, TypeOK
      <4>4. d \in Calendar(Final) /\ d <= Final /\ d <= day
        BY <3>1, <3>3, <4>3 DEF Calendar
      <4>5. Counted(archive'[t], Calendar(Final), 1, Final, d) = Due(t, d)
        BY <1>1, <3>1, <4>2, <4>3, <4>4, CountedIsDue
      <4>6. counts'[t][d] = Cardinality(Due(t, d))
        BY <1>1, <2>2, <3>1, <3>3, <4>5, IntroduceCounts
      <4>7. Due(t, d)' = Due(t, d)
        BY <1>1 DEF Due
      <4> QED
        BY <4>6, <4>7 DEF Right
    <3> QED
      BY <3>2, <3>3
  <2> QED
    BY <2>1, <2>2
<1> QED
  BY <1>2 DEF CountsExact, Right

LEMMA NightlyExact ==
  ASSUME Accounted, NEW ends \in [Ticker -> TradingDays \cup {0}], NEW unlucky,
         Nightly(ends, unlucky)
  PROVE  CountsExact'
<1> DEFINE F == Failed(ends, unlucky)
<1>1. /\ TypeOK /\ Sound /\ Covered /\ Uncounted /\ UNCHANGED <<day, feed>>
      /\ fill.pc = "idle"
  BY NightlyLands DEF Accounted, Covered, Filled
<1>2. ASSUME NEW t \in Ticker, NEW d \in TradingDays PROVE Right(t, d)'
  <2>1. CASE UNCHANGED <<counts, zeroed>>
    BY <1>1, <2>1, SameRight
  <2>2. CASE /\ introduced = "yes"
             /\ counts' = [s \in Ticker |-> NewCounts(s, ends, F, archive'[s])]
             /\ zeroed' = zeroed \cup
                  {td \in F \X Day : stored[td[1]] < td[2] /\ td[2] <= ends[td[1]]}
    <3>1. /\ d \in Day /\ d \in Nat /\ 1 <= d /\ day \in Nat /\ stored[t] \in Nat
          /\ ends[t] \in Nat /\ zeroed \subseteq zeroed'
      <4>1. d \in Day /\ d \in Nat /\ 1 <= d /\ day \in Nat /\ stored[t] \in Nat
        BY <1>1, NewsAssumption DEF TypeOK, Day
      <4>2. zeroed \subseteq zeroed'
        BY <2>2
      <4> QED
        BY <4>1, <4>2, LastIsLast
    <3>2. counts'[t][d] =
            IF ~Gained(ends, t, d) THEN counts[t][d]
            ELSE IF t \in F THEN 0
            ELSE Cardinality(Counted(archive'[t], Calendar(Last(ends)), stored[t], ends[t], d))
      BY <1>1, <2>2, <3>1, NightlyCounts
    <3>3. CASE ~Gained(ends, t, d)
      BY <1>1, <3>1, <3>2, <3>3, SameRight
    <3>4. CASE Gained(ends, t, d) /\ t \in F
      <4>1. <<t, d>> \in zeroed'
        BY <2>2, <3>1, <3>4 DEF Gained
      <4> QED
        BY <3>2, <3>4, <4>1 DEF Right
    <3>5. CASE Gained(ends, t, d) /\ t \notin F
      <4>1. stored[t] < d /\ d <= ends[t] /\ t \in Moving(ends)
        BY <3>1, <3>5 DEF Gained, Moving
      <4>2. stored[t] # 0 /\ ends[t] <= day
        BY <4>1, NightlyLands
      <4>3. stored[t] \in TradingDays
        BY <1>1, <4>2 DEF Sound
      <4>4. Advance(Moving(ends) \ F, day)
        BY <2>2, NightlyLands
      <4>5. /\ Published(t, 1, day) \subseteq archive'[t]
            /\ archive'[t] \subseteq {a \in feed : a.ticker = t}
        BY <1>1, <3>5, <4>1, <4>4, AdvanceCovers
      <4>6. ends[t] <= Last(ends) /\ Last(ends) \in Nat
        BY LastIsLast
      <4>7. d \in Calendar(Last(ends)) /\ d <= day
        BY <3>1, <4>1, <4>2, <4>6 DEF Calendar
      <4>8. Counted(archive'[t], Calendar(Last(ends)), stored[t], ends[t], d) = Due(t, d)
        BY <1>1, <3>1, <4>1, <4>3, <4>5, <4>6, <4>7, CountedIsDue
      <4>9. Due(t, d)' = Due(t, d)
        BY <1>1 DEF Due
      <4> QED
        BY <3>2, <3>5, <4>8, <4>9 DEF Right
    <3> QED
      BY <3>3, <3>4, <3>5
  <2> QED
    BY <2>1, <2>2, NightlyLands
<1> QED
  BY <1>2 DEF CountsExact, Right

LEMMA AccountedStep ==
  ASSUME ~Refetch, Accounted, [Next]_vars
  PROVE  Accounted'
<1>1. Covered' /\ Filled'
  BY CoveredStep, FilledStep DEF Accounted
<1>2. ASSUME UNCHANGED <<feed, counts, zeroed>> PROVE CountsExact'
  BY <1>2 DEF Accounted, CountsExact, Due
<1>3. CASE UNCHANGED vars
  BY <1>1, <1>2, <1>3 DEF vars, Accounted
<1>4. CASE \/ NextDay \/ FillUnlink \/ FillWrite \/ FillMark \/ FillCrash
           \/ \E t \in Ticker : AddTicker(t) \/ FillFetch(t)
  BY <1>1, <1>2, <1>4
     DEF NextDay, FillUnlink, FillWrite, FillMark, FillCrash, FillFetch, AddTicker, World,
         Accounted
<1>5. CASE \/ \E done \in SUBSET Ticker : Introduce(done)
           \/ \E ends \in [Ticker -> TradingDays \cup {0}], unlucky \in SUBSET Ticker :
                Nightly(ends, unlucky)
  BY <1>1, <1>5, IntroduceExact, NightlyExact DEF Accounted
<1> QED
  BY <1>3, <1>4, <1>5 DEF Next

\* Every count is that of the articles whose first close it is, or the 0 of a fetch
\* that failed, when no backfill rewrites a window it has fetched.
THEOREM EachCountsOnce ==
  ASSUME ~Refetch
  PROVE  Spec => []CountsExact
<1>1. Accounted /\ [Next]_vars => Accounted'
  BY AccountedStep
<1>2. Accounted => CountsExact
  BY DEF Accounted
<1> QED
  BY AccountedInit, <1>1, <1>2, PTL DEF Spec
=============================================================================
