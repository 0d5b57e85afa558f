------------------------- MODULE TradingDay_proofs -------------------------
(***************************************************************************)
(* Proofs about TradingDay, for every finite set of symbols and runs and   *)
(* every set of failures a theorem does not exclude by name: no order is   *)
(* doubled, the types, the ledger against the orders, the flatten, and the *)
(* limits of a day.  Then the arithmetic that TradingDay leaves open, for  *)
(* every input: the order list of OrderMath and the verdict of Divergence. *)
(***************************************************************************)
EXTENDS TradingDay, OrderMath, Divergence, FiniteSetTheorems, SequenceTheorems, TLAPS

OrderTyped == order \in [Order -> OrderStatus]

OrderInv == OrderTyped /\ NoOrderTwice

\* A step that makes no order live keeps the invariant.
LEMMA NothingNew ==
  ASSUME OrderInv, OrderTyped', \A o \in Order : order'[o] # "none" => Live(o)
  PROVE  OrderInv'
BY DEF OrderInv, NoOrderTwice, Live

\* An order the broker accepts is the first of its client_order_id.
LEMMA AcceptedFirst ==
  ASSUME NEW r \in Run, NEW l \in Leg, OrderInv, Acceptable(r, l),
         order' = [order EXCEPT ![<<r, l>>] = "open"]
  PROVE  OrderInv'
<1>1. <<r, l>> \in Order
  BY DEF Order
<1>2. OrderTyped'
  BY <1>1 DEF OrderInv, OrderTyped, OrderStatus
<1>3. \A o \in Order : Live(o) => o[2] # l
  BY DEF Acceptable, ClientId
<1>4. \A o \in Order : order'[o] # "none" => (o = <<r, l>> \/ Live(o))
  BY <1>1 DEF OrderInv, OrderTyped, Live
<1>5. NoOrderTwice'
  <2> SUFFICES ASSUME NEW o \in Order, NEW p \in Order, order'[o] # "none",
                      order'[p] # "none", o[2] = p[2]
               PROVE  o = p
    BY DEF NoOrderTwice, Live
  <2>1. CASE o = <<r, l>>
    BY <1>3, <1>4, <2>1
  <2>2. CASE p = <<r, l>>
    BY <1>3, <1>4, <2>2
  <2>3. CASE o # <<r, l>> /\ p # <<r, l>>
    BY <1>4, <2>3 DEF OrderInv, NoOrderTwice
  <2> QED
    BY <2>1, <2>2, <2>3
<1> QED
  BY <1>2, <1>5 DEF OrderInv

LEMMA OrderInit == Init => OrderInv
  BY DEF Init, OrderInv, OrderTyped, OrderStatus, NoOrderTwice, Live

LEMMA OrderKept == OrderInv /\ [Next]_vars => OrderInv'
<1> SUFFICES ASSUME OrderInv, [Next]_vars PROVE OrderInv'
  OBVIOUS
<1>1. ASSUME UNCHANGED order PROVE OrderInv'
  BY <1>1 DEF OrderInv, OrderTyped, NoOrderTwice, Live
<1>2. ASSUME NEW r \in Run, RunStep(r) PROVE OrderInv'
  <2>1. ASSUME NEW l \in Leg, Place(r, l) PROVE OrderInv'
    BY <2>1, AcceptedFirst DEF Place
  <2>2. ASSUME NEW l \in Leg, PlaceReplyLost(r, l) PROVE OrderInv'
    BY <2>2, AcceptedFirst DEF PlaceReplyLost
  <2>3. CASE ReadAccount(r) \/ ReadBook(r) \/ AbortEarly(r) \/ Plan(r)
    BY <1>1, <2>3 DEF ReadAccount, ReadBook, AbortEarly, Plan, Broker
  <2>4. CASE GateRejects(r) \/ Halted(r) \/ Tripped(r) \/ Passed(r)
    BY <1>1, <2>4 DEF GateRejects, Halted, Tripped, Passed, Broker
  <2>5. CASE PlaceFails(r) \/ RecordSubmitted(r) \/ PollFills(r) \/ PollFails(r)
    BY <1>1, <2>5 DEF PlaceFails, RecordSubmitted, PollFills, PollFails, Broker
  <2>6. CASE RecordFinal(r) \/ Summary(r) \/ Crash(r)
    BY <1>1, <2>6 DEF RecordFinal, Summary, Crash, Broker
  <2> QED
    BY <1>2, <2>1, <2>2, <2>3, <2>4, <2>5, <2>6 DEF RunStep
<1>3. CASE Tick
  <2>1. CASE order' = order
    BY <1>1, <2>1
  <2>2. CASE order' = [o \in Order |-> IF order[o] = "open" THEN "expired" ELSE order[o]]
    <3>1. OrderTyped'
      BY <2>2 DEF OrderInv, OrderTyped, OrderStatus
    <3>2. \A o \in Order : order'[o] # "none" => Live(o)
      BY <2>2 DEF Live
    <3> QED
      BY <3>1, <3>2, NothingNew
  <2> QED
    BY <1>3, <2>1, <2>2 DEF Tick
<1>4. ASSUME NEW o \in Order, Fill(o) PROVE OrderInv'
  <2>1. OrderTyped'
    BY <1>4 DEF Fill, OrderInv, OrderTyped, OrderStatus
  <2>2. \A p \in Order : order'[p] # "none" => Live(p)
    BY <1>4 DEF Fill, OrderInv, OrderTyped, Live
  <2> QED
    BY <2>1, <2>2, NothingNew
<1>5. ASSUME NEW o \in Order, CancelTakesEffect(o) PROVE OrderInv'
  <2>1. OrderTyped'
    BY <1>5 DEF CancelTakesEffect, OrderInv, OrderTyped, OrderStatus
  <2>2. \A p \in Order : order'[p] # "none" => Live(p)
    BY <1>5 DEF CancelTakesEffect, OrderInv, OrderTyped, Live
  <2> QED
    BY <2>1, <2>2, NothingNew
<1>6. ASSUME NEW s \in Symbol, FillLiquidation(s) PROVE OrderInv'
  BY <1>1, <1>6 DEF FillLiquidation
<1>7. CASE SetHalt \/ Resume
  BY <1>1, <1>7 DEF SetHalt, Resume, Broker
<1>8. CASE Flatten
  BY <1>1, <1>8 DEF Flatten, FlattenStart, FlattenSettled, LiquidationCanceled,
       FlattenClose, FlattenConfirm, FlattenFails, FlattenAgain, Broker
<1>9. CASE Reconcile
  BY <1>1, <1>9 DEF Reconcile, Broker
<1>10. CASE UNCHANGED vars
  BY <1>1, <1>10 DEF vars
<1> QED
  BY <1>2, <1>3, <1>4, <1>5, <1>6, <1>7, <1>8, <1>9, <1>10 DEF Next, Market

\* However many runs overlap, fail or are started again, a day has at most one
\* order for each side of each symbol.
THEOREM NeverTwice == Spec => []NoOrderTwice
<1>1. OrderInv => NoOrderTwice
  BY DEF OrderInv
<1> QED
  BY OrderInit, OrderKept, <1>1, PTL DEF Spec

-----------------------------------------------------------------------------
(* The books: orders, ledger and what a run knows of them *)

Unstarted == {"idle", "book", "plan", "check"}
Over == {"ok", "halted", "abort", "dead"}

\* What the broker reserves for open buys is there.
Funded == Cardinality(OpenBuys) <= cash

Buying(ord) == {o \in Order : ord[o] = "open" /\ o[2][1] = "buy"}

\* What a run has placed is live, and it knows how many rows that has.
Fits(r, at, j, ord, led) ==
  /\ at \in Unstarted => /\ \A l \in Leg : ord[<<r, l>>] = "none"
                         /\ j.placed = {} /\ j.paged = {}
  /\ at \in Over => j = NoJob
  /\ at # "record" => j.due = {}
  /\ \A l \in j.placed :
       /\ ord[<<r, l>>] # "none" /\ j.seen[l] # "none"
       /\ IF l \in j.paged THEN Len(led[<<r, l>>]) = 1
                           ELSE Len(led[<<r, l>>]) \in {0, 1}
  /\ \A l \in j.paged : ord[<<r, l>>] # "none"
  /\ \A l \in j.due : l \in j.placed \ j.paged /\ led[<<r, l>>] = << >>

Tracks(r) == Fits(r, pc[r], job[r], order, ledger)

Unlisted == \A o \in Order : ~Live(o) => ledger[o] = << >>

AfterClose == clock = "closed" => Open = {} /\ \A r \in Run : ~Busy(r)

Label == Unstarted \cup Over \cup Working

Books == TypeOK /\ Funded /\ Unlisted /\ AfterClose /\ \A r \in Run : Tracks(r)

\* Adding a row to none or one, and changing the status of one that is there.
LEMMA RowOps ==
  ASSUME NEW a, NEW b
  PROVE  /\ Len(<< >>) = 0 /\ Len(<<a>>) = 1 /\ Len(<<a, b>>) = 2
         /\ Append(<< >>, a) = <<a>> /\ Append(<<a>>, b) = <<a, b>>
         /\ [<<a>> EXCEPT ![1] = b] = <<b>>
<1>1. Len(<< >>) = 0 /\ Len(<<a>>) = 1 /\ Len(<<a, b>>) = 2
  OBVIOUS
<1>2. Append(<< >>, a) = <<a>>
  OBVIOUS
<1>3. Append(<<a>>, b) = <<a, b>>
  <2> DEFINE S == {a, b}
  <2>1. <<a>> \in Seq(S) /\ <<a, b>> \in Seq(S) /\ Len(<<a, b>>) = 2
    OBVIOUS
  <2>2. Append(<<a>>, b) \in Seq(S) /\ Len(Append(<<a>>, b)) = 2
    BY <2>1
  <2>3. Append(<<a>>, b)[1] = a /\ Append(<<a>>, b)[2] = b
    BY <2>1
  <2>4. <<a, b>>[1] = a /\ <<a, b>>[2] = b
    OBVIOUS
  <2>5. \A i \in 1 .. 2 : i = 1 \/ i = 2
    OBVIOUS
  <2> HIDE DEF S
  <2> QED
    BY <2>1, <2>2, <2>3, <2>4, <2>5, SeqEqual
<1>4. [<<a>> EXCEPT ![1] = b] = <<b>>
  OBVIOUS
<1> QED
  BY <1>1, <1>2, <1>3, <1>4

LEMMA RowPairs ==
  ASSUME NEW a, NEW b, NEW c
  PROVE  /\ [<<a, b>> EXCEPT ![1] = c] = <<c, b>>
         /\ [<<a, b>> EXCEPT ![2] = c] = <<a, c>>
<1>1. [<<a, b>> EXCEPT ![1] = c] = <<c, b>>
  OBVIOUS
<1>2. [<<a, b>> EXCEPT ![2] = c] = <<a, c>>
  OBVIOUS
<1> QED
  BY <1>1, <1>2

LEMMA RowCases ==
  ASSUME NEW rows \in Rows
  PROVE  \/ rows = << >> /\ Len(rows) = 0
         \/ \E a \in RowStatus : rows = <<a>> /\ Len(rows) = 1
         \/ \E a, b \in RowStatus : rows = <<a, b>> /\ Len(rows) = 2
<1>1. CASE rows = << >>
  BY <1>1, RowOps
<1>2. CASE rows \in {<<a>> : a \in RowStatus}
  <2>1. PICK a \in RowStatus : rows = <<a>>
    BY <1>2
  <2> QED
    BY <2>1, RowOps
<1>3. CASE rows \in RowStatus \X RowStatus
  <2>1. PICK a \in RowStatus, b \in RowStatus : rows = <<a, b>>
    BY <1>3
  <2> QED
    BY <2>1, RowOps
<1> QED
  BY <1>1, <1>2, <1>3 DEF Rows

LEMMA RowTyped ==
  /\ << >> \in Rows
  /\ \A a \in RowStatus : <<a>> \in Rows
  /\ \A a, b \in RowStatus : <<a, b>> \in Rows
BY DEF Rows

\* A row more on at most one row, and a new status for the first of one.
LEMMA RowSteps ==
  ASSUME NEW rows \in Rows, Len(rows) \in {0, 1}, NEW status \in RowStatus
  PROVE  /\ Append(rows, status) \in Rows
         /\ Len(rows) = 0 => rows = << >> /\ Append(rows, status) = <<status>>
         /\ Len(rows) = 1 => [rows EXCEPT ![1] = status] = <<status>>
         /\ <<status>> \in Rows /\ Len(<<status>>) = 1 /\ << >> \in Rows
<1>1. CASE rows = << >>
  BY <1>1, RowOps, RowTyped
<1>2. ASSUME NEW a \in RowStatus, rows = <<a>> 
             PROVE  /\ Append(rows, status) \in Rows
                    /\ Len(rows) = 1
                    /\ [rows EXCEPT ![1] = status] = <<status>>
                    /\ <<status>> \in Rows /\ Len(<<status>>) = 1
  BY <1>2, RowOps, RowTyped
<1> QED
  BY <1>1, <1>2, RowCases, RowTyped

LEMMA OrdersFinite == IsFiniteSet(Order) /\ IsFiniteSet(Leg)
<1>1. IsFiniteSet({"buy", "sell"})
  <2>1. IsFiniteSet({"buy"})
    BY FS_Singleton
  <2>2. {"buy", "sell"} = {"buy"} \cup {"sell"}
    OBVIOUS
  <2> QED
    BY <2>1, <2>2, FS_AddElement
<1>2. IsFiniteSet(Leg)
  BY <1>1, FiniteAssumption, FS_Product DEF Leg
<1> QED
  BY <1>2, FiniteAssumption, FS_Product DEF Order

\* The sets of orders that are counted.
LEMMA Counted ==
  ASSUME NEW S \in SUBSET Order
  PROVE  /\ IsFiniteSet(S) /\ Cardinality(S) \in Nat
         /\ \A T \in SUBSET S : IsFiniteSet(T) /\ Cardinality(T) <= Cardinality(S)
         /\ \A o : o \notin S => Cardinality(S \cup {o}) = Cardinality(S) + 1
         /\ \A o \in S : Cardinality(S \ {o}) = Cardinality(S) - 1
<1>1. IsFiniteSet(S)
  BY OrdersFinite, FS_Subset
<1> QED
  BY <1>1, FS_CardinalityType, FS_Subset, FS_AddElement, FS_RemoveElement

\* A step of one run, told by what it leaves in the run's job, in the orders
\* and in the ledger.
LEMMA StepBooks ==
  ASSUME Books, NEW r \in Run, NEW label \in Label, NEW j \in Job,
         order' \in [Order -> OrderStatus], ledger' \in [Order -> Rows],
         pc' = [pc EXCEPT ![r] = label], job' = [job EXCEPT ![r] = j],
         acct' \in SUBSET Run,
         UNCHANGED <<clock, held, cash, liq, Others>>, clock # "closed",
         Cardinality(Buying(order')) <= cash,
         \A o \in Order : o[1] # r => order'[o] = order[o] /\ ledger'[o] = ledger[o],
         \A o \in Order : order'[o] = "none" => ledger'[o] = << >>,
         Fits(r, label, j, order', ledger')
  PROVE  Books'
<1>1. TypeOK'
  <2>1. pc' \in [Run -> {"idle", "ok", "halted", "abort", "dead"} \cup Working]
    <3>1. label \in {"idle", "ok", "halted", "abort", "dead"} \cup Working
      BY DEF Label, Unstarted, Over, Working
    <3> QED
      BY <3>1 DEF Books, TypeOK
  <2>2. job' \in [Run -> Job]
    BY DEF Books, TypeOK
  <2> QED
    BY <2>1, <2>2 DEF Books, TypeOK, Others
<1>2. Funded'
  <2>1. OpenBuys' = Buying(order')
    BY DEF OpenBuys, Open, Buying
  <2> QED
    BY <2>1 DEF Funded
<1>3. Unlisted'
  BY DEF Unlisted, Live
<1>4. AfterClose'
  BY DEF AfterClose
<1>5. ASSUME NEW q \in Run PROVE Tracks(q)'
  <2>1. CASE q = r
    <3>1. pc'[q] = label /\ job'[q] = j
      BY <2>1 DEF Books, TypeOK
    <3> QED
      BY <3>1, <2>1 DEF Tracks
  <2>2. CASE q # r
    <3>1. pc'[q] = pc[q] /\ job'[q] = job[q]
      BY <2>2 DEF Books, TypeOK
    <3>2. \A l \in Leg : order'[<<q, l>>] = order[<<q, l>>] /\ ledger'[<<q, l>>] = ledger[<<q, l>>]
      BY <2>2 DEF Order
    <3>3. Fits(q, pc[q], job[q], order, ledger)
      BY DEF Books, Tracks
    <3>4. job[q].placed \subseteq Leg /\ job[q].paged \subseteq Leg /\ job[q].due \subseteq Leg
      BY DEF Books, TypeOK, Job
    <3>5. Fits(q, pc[q], job[q], order', ledger')
      BY <3>2, <3>3, <3>4 DEF Fits
    <3> QED
      BY <3>1, <3>5 DEF Tracks
  <2> QED
    BY <2>1, <2>2
<1> QED
  BY <1>1, <1>2, <1>3, <1>4, <1>5 DEF Books

\* The same for a step that touches neither orders nor ledger.
LEMMA QuietBooks ==
  ASSUME Books, NEW r \in Run, NEW label \in Label, NEW j \in Job,
         pc' = [pc EXCEPT ![r] = label], job' = [job EXCEPT ![r] = j],
         acct' \in SUBSET Run, UNCHANGED <<Broker, Others, ledger>>,
         clock # "closed", Fits(r, label, j, order, ledger)
  PROVE  Books'
<1>1. order \in [Order -> OrderStatus] /\ ledger \in [Order -> Rows]
  BY DEF Books, TypeOK
<1>2. Cardinality(Buying(order)) <= cash
  <2>1. OpenBuys = Buying(order)
    BY DEF OpenBuys, Open, Buying
  <2> QED
    BY <2>1 DEF Books, Funded
<1>3. \A o \in Order : order[o] = "none" => ledger[o] = << >>
  BY DEF Books, Unlisted, Live
<1> QED
  BY <1>1, <1>2, <1>3, StepBooks DEF Broker

LEMMA NoJobFits ==
  ASSUME NEW r \in Run, NEW label \in Over, NEW ord, NEW led
  PROVE  NoJob \in Job /\ Fits(r, label, NoJob, ord, led)
<1>1. NoJob \in Job
  BY DEF NoJob, Job, OrderStatus
<1>2. label \notin Unstarted /\ label # "record"
  BY DEF Over, Unstarted
<1>3. NoJob.placed = {} /\ NoJob.paged = {} /\ NoJob.due = {}
  BY DEF NoJob
<1> QED
  BY <1>1, <1>2, <1>3 DEF Fits

\* A run that is under way is under way before the close.
LEMMA BusyBefore ==
  ASSUME Books, NEW r \in Run, pc[r] \in Working
  PROVE  clock # "closed"
BY DEF Books, AfterClose, Busy

LEMMA EndBooks ==
  ASSUME Books, NEW r \in Run, pc[r] \in Working, NEW label \in Over, End(r, label),
         acct' \in SUBSET Run, UNCHANGED <<Broker, Others, ledger>>
  PROVE  Books'
<1>1. label \in Label
  BY DEF Label
<1> QED
  BY <1>1, NoJobFits, BusyBefore, QuietBooks DEF End, Goto

LEMMA FundsTyped ==
  ASSUME Books
  PROVE  BuyingPower \in Nat /\ DayCount \in Nat
<1>1. OpenBuys \in SUBSET Order /\ {o \in Order : Live(o)} \in SUBSET Order
  BY DEF OpenBuys, Open
<1>2. Cardinality(OpenBuys) \in Nat /\ Cardinality({o \in Order : Live(o)}) \in Nat
  BY <1>1, Counted
<1>3. Cardinality(liq.asked) \in Nat
  <2>1. liq.asked \in SUBSET Symbol
    BY DEF Books, TypeOK
  <2> QED
    BY <2>1, FiniteAssumption, FS_Subset, FS_CardinalityType
<1>4. cash \in Nat /\ Cardinality(OpenBuys) <= cash
  BY DEF Books, TypeOK, Funded
<1> QED
  BY <1>2, <1>3, <1>4 DEF BuyingPower, DayCount

LEMMA SnapshotTyped ==
  ASSUME Books, NEW r \in Run, RecordSnapshot(r)
  PROVE  acct' \in SUBSET Run
BY DEF Books, TypeOK, RecordSnapshot

\* A job that still has what Tracks looks at fits where the job fitted.
LEMMA SameFits ==
  ASSUME Books, NEW r \in Run, NEW label \in Label, NEW j \in Job,
         j.placed = job[r].placed, j.paged = job[r].paged, j.due = job[r].due,
         j.seen = job[r].seen, label \notin Over, pc[r] # "record",
         label \in Unstarted => pc[r] \in Unstarted
  PROVE  Fits(r, label, j, order, ledger)
<1>1. Fits(r, pc[r], job[r], order, ledger)
  BY DEF Books, Tracks
<1> QED
  BY <1>1 DEF Fits

LEMMA StartBooks ==
  ASSUME Books, NEW r \in Run,
         ReadAccount(r) \/ ReadBook(r) \/ AbortEarly(r) \/ Plan(r)
  PROVE  Books'
<1> USE DEF Goto
<1>0. job[r] \in Job /\ job \in [Run -> Job] /\ held \in SUBSET Symbol /\ acct \in SUBSET Run
  BY DEF Books, TypeOK
<1>1. CASE ReadAccount(r)
  <2> DEFINE j == [job[r] EXCEPT !.funds = BuyingPower]
  <2>1. j \in Job /\ j.placed = job[r].placed /\ j.paged = job[r].paged
                  /\ j.due = job[r].due /\ j.seen = job[r].seen
    BY <1>0, FundsTyped DEF Job
  <2>2. /\ job' = [job EXCEPT ![r] = j] /\ pc' = [pc EXCEPT ![r] = "book"]
        /\ pc[r] = "idle" /\ clock # "closed" /\ acct' \in SUBSET Run
        /\ UNCHANGED <<Broker, Others, ledger>>
    BY <1>0, <1>1 DEF ReadAccount
  <2>3. "book" \in Label /\ "book" \notin Over /\ "idle" \in Unstarted
    BY DEF Label, Unstarted, Over
  <2> HIDE DEF j
  <2>4. Fits(r, "book", j, order, ledger)
    BY <2>1, <2>2, <2>3, SameFits
  <2> QED
    BY <2>1, <2>2, <2>3, <2>4, QuietBooks
<1>2. CASE ReadBook(r)
  <2> DEFINE j == [job[r] EXCEPT !.held = held, !.count = DayCount]
  <2>1. j \in Job /\ j.placed = job[r].placed /\ j.paged = job[r].paged
                  /\ j.due = job[r].due /\ j.seen = job[r].seen
    BY <1>0, FundsTyped DEF Job
  <2>2. /\ job' = [job EXCEPT ![r] = j] /\ pc' = [pc EXCEPT ![r] = "plan"]
        /\ pc[r] = "book" /\ acct' \in SUBSET Run
        /\ UNCHANGED <<Broker, Others, ledger>>
    BY <1>0, <1>2 DEF ReadBook
  <2>3. "plan" \in Label /\ "plan" \notin Over /\ "book" \in Unstarted /\ "book" \in Working
    BY DEF Label, Unstarted, Over, Working
  <2> HIDE DEF j
  <2>4. Fits(r, "plan", j, order, ledger)
    BY <2>1, <2>2, <2>3, SameFits
  <2> QED
    BY <2>1, <2>2, <2>3, <2>4, QuietBooks, BusyBefore
<1>3. CASE AbortEarly(r)
  BY <1>0, <1>3, EndBooks DEF AbortEarly, Over, Working
<1>4. CASE Plan(r)
  <2>1. PICK batch \in Batches(r) : job' = [job EXCEPT ![r].batch = batch]
    BY <1>4 DEF Plan
  <2>2. batch \subseteq Leg
    <3>1. PICK want \in SUBSET Symbol :
            \E kept \in Affordable({"buy"} \X (want \ job[r].held), job[r].funds) :
              batch = ({"sell"} \X (job[r].held \ want)) \cup kept
      BY <2>1 DEF Batches
    <3>2. job[r].held \subseteq Symbol
      BY <1>0 DEF Job
    <3> QED
      BY <3>1, <3>2 DEF Affordable, Leg
  <2> DEFINE j == [job[r] EXCEPT !.batch = batch]
  <2>3. j \in Job /\ j.placed = job[r].placed /\ j.paged = job[r].paged
                  /\ j.due = job[r].due /\ j.seen = job[r].seen
    BY <1>0, <2>2 DEF Job
  <2>4. /\ job' = [job EXCEPT ![r] = j] /\ pc' = [pc EXCEPT ![r] = "check"]
        /\ pc[r] = "plan" /\ acct' \in SUBSET Run
        /\ UNCHANGED <<Broker, Others, ledger>>
    BY <1>0, <1>4, <2>1 DEF Plan
  <2>5. "check" \in Label /\ "check" \notin Over /\ "plan" \in Unstarted /\ "plan" \in Working
    BY DEF Label, Unstarted, Over, Working
  <2> HIDE DEF j
  <2>6. Fits(r, "check", j, order, ledger)
    BY <2>3, <2>4, <2>5, SameFits
  <2> QED
    BY <2>3, <2>4, <2>5, <2>6, QuietBooks, BusyBefore
<1> QED
  BY <1>1, <1>2, <1>3, <1>4

LEMMA CheckBooks ==
  ASSUME Books, NEW r \in Run,
         GateRejects(r) \/ Halted(r) \/ Tripped(r) \/ Passed(r)
  PROVE  Books'
<1>0. job[r] \in Job /\ job \in [Run -> Job] /\ acct \in SUBSET Run
  BY DEF Books, TypeOK
<1>1. CASE GateRejects(r)
  BY <1>1, SnapshotTyped, EndBooks DEF GateRejects, Over, Working
<1>2. CASE Halted(r)
  BY <1>2, SnapshotTyped, EndBooks DEF Halted, Over, Working
<1>3. CASE Tripped(r)
  BY <1>3, SnapshotTyped, EndBooks DEF Tripped, Over, Working
<1>4. CASE Passed(r) /\ End(r, "ok")
  <2>1. acct' \in SUBSET Run
    BY <1>0, <1>4, SnapshotTyped DEF Passed
  <2> QED
    BY <1>4, <2>1, EndBooks DEF Passed, Over, Working
<1>5. CASE Passed(r) /\ Goto(r, "submit") /\ UNCHANGED <<acct, job>>
  <2>1. /\ job' = [job EXCEPT ![r] = job[r]] /\ pc' = [pc EXCEPT ![r] = "submit"]
        /\ pc[r] = "check" /\ acct' \in SUBSET Run
        /\ UNCHANGED <<Broker, Others, ledger>>
    BY <1>0, <1>5 DEF Passed, Goto
  <2>2. "submit" \in Label /\ "submit" \notin Over /\ "submit" \notin Unstarted /\ "check" \in Working
    BY DEF Label, Unstarted, Over, Working
  <2>3. Fits(r, "submit", job[r], order, ledger)
    BY <1>0, <2>1, <2>2, SameFits
  <2> QED
    BY <1>0, <2>1, <2>2, <2>3, QuietBooks, BusyBefore
<1> QED
  BY <1>1, <1>2, <1>3, <1>4, <1>5 DEF Passed

\* An accepted order is new, and the broker has what it reserves for it.
LEMMA AcceptedFunded ==
  ASSUME Books, NEW r \in Run, NEW l \in Leg, Acceptable(r, l),
         NEW ord, ord = [order EXCEPT ![<<r, l>>] = "open"]
  PROVE  /\ <<r, l>> \in Order /\ ~Live(<<r, l>>) /\ ledger[<<r, l>>] = << >>
         /\ ord \in [Order -> OrderStatus] /\ ord[<<r, l>>] = "open"
         /\ \A o \in Order : o # <<r, l>> => ord[o] = order[o]
         /\ Cardinality(Buying(ord)) <= cash
<1>1. <<r, l>> \in Order
  BY DEF Order
<1>2. ~Live(<<r, l>>)
  BY <1>1 DEF Acceptable, ClientId
<1>3. ledger[<<r, l>>] = << >>
  BY <1>1, <1>2 DEF Books, Unlisted
<1>4. /\ ord \in [Order -> OrderStatus] /\ ord[<<r, l>>] = "open"
      /\ \A o \in Order : o # <<r, l>> => ord[o] = order[o]
  BY <1>1 DEF Books, TypeOK, OrderStatus
<1>5. OpenBuys \in SUBSET Order /\ cash \in Nat /\ Cardinality(OpenBuys) <= cash
  BY DEF OpenBuys, Open, Books, TypeOK, Funded
<1>6. CASE l[1] = "buy"
  <2>1. Buying(ord) = OpenBuys \cup {<<r, l>>}
    BY <1>1, <1>4, <1>6 DEF OpenBuys, Open, Buying
  <2>2. <<r, l>> \notin OpenBuys
    BY <1>2 DEF OpenBuys, Open, Live
  <2>3. Cardinality(Buying(ord)) = Cardinality(OpenBuys) + 1
    BY <1>5, <2>1, <2>2, Counted
  <2>4. cash - Cardinality(OpenBuys) >= 1
    BY <1>6 DEF Acceptable, BuyingPower
  <2>5. Cardinality(OpenBuys) \in Nat
    BY <1>5, Counted
  <2> QED
    BY <1>1, <1>2, <1>3, <1>4, <1>5, <2>3, <2>4, <2>5
<1>7. CASE l[1] # "buy"
  <2>1. Buying(ord) = OpenBuys
    BY <1>1, <1>2, <1>4, <1>7 DEF OpenBuys, Open, Live, Buying
  <2> QED
    BY <1>1, <1>2, <1>3, <1>4, <1>5, <2>1
<1> QED
  BY <1>6, <1>7

LEMMA PlaceBooks ==
  ASSUME Books, NEW r \in Run, NEW l \in Leg, Place(r, l)
  PROVE  Books'
<1> DEFINE ord == [order EXCEPT ![<<r, l>>] = "open"]
           j == [job[r] EXCEPT !.batch = @ \ {l}, !.placed = @ \cup {l},
                               !.due = {l}, !.seen[l] = "open"]
<1>0. job[r] \in Job /\ job \in [Run -> Job] /\ ledger \in [Order -> Rows] /\ acct \in SUBSET Run
  BY DEF Books, TypeOK
<1>1. /\ job' = [job EXCEPT ![r] = j] /\ pc' = [pc EXCEPT ![r] = "record"]
      /\ pc[r] = "submit" /\ order' = ord /\ Acceptable(r, l)
      /\ UNCHANGED <<clock, held, cash, liq, Others>> /\ ledger' = ledger
      /\ acct' \in SUBSET Run
  <2>1. /\ pc[r] = "submit" /\ Acceptable(r, l) /\ order' = ord
        /\ pc' = [pc EXCEPT ![r] = "record"]
        /\ UNCHANGED <<clock, held, cash, liq, Others, ledger, acct>>
    BY DEF Place, Goto
  <2>2. job' = [job EXCEPT ![r].batch = @ \ {l}, ![r].placed = @ \cup {l},
                           ![r].due = {l}, ![r].seen[l] = "open"]
    BY DEF Place
  <2>3. job' = [job EXCEPT ![r] = j]
    BY <1>0, <2>2
  <2> QED
    BY <1>0, <2>1, <2>3
<1>2. /\ j \in Job /\ j.placed = job[r].placed \cup {l} /\ j.paged = job[r].paged
      /\ j.due = {l} /\ j.seen[l] = "open"
      /\ \A k \in Leg : k # l => j.seen[k] = job[r].seen[k]
  <2>1. job[r].seen \in [Leg -> OrderStatus] /\ "open" \in OrderStatus
    BY <1>0 DEF Job, OrderStatus
  <2>2. [job[r].seen EXCEPT ![l] = "open"] \in [Leg -> OrderStatus]
    BY <2>1
  <2> QED
    BY <1>0, <2>1, <2>2 DEF Job
<1>3. "record" \in Label /\ "record" \notin Over /\ "record" \notin Unstarted /\ "submit" \in Working
  BY DEF Label, Unstarted, Over, Working
<1>a. ord = [order EXCEPT ![<<r, l>>] = "open"]
  OBVIOUS
<1> HIDE DEF ord, j
<1>4. /\ <<r, l>> \in Order /\ ~Live(<<r, l>>) /\ ledger[<<r, l>>] = << >>
      /\ ord \in [Order -> OrderStatus] /\ ord[<<r, l>>] = "open"
      /\ \A o \in Order : o # <<r, l>> => ord[o] = order[o]
      /\ Cardinality(Buying(ord)) <= cash
  BY <1>1, <1>a, AcceptedFunded
<1>5. clock # "closed"
  BY <1>1, <1>3, BusyBefore
<1>6. Fits(r, "record", j, ord, ledger)
  <2>1. Fits(r, pc[r], job[r], order, ledger)
    BY DEF Books, Tracks
  <2>2. l \notin job[r].placed /\ l \notin job[r].paged
    BY <1>4, <2>1 DEF Fits, Live
  <2>3. \A k \in Leg : <<r, k>> \in Order /\ (k # l => ord[<<r, k>>] = order[<<r, k>>])
    BY <1>4 DEF Order
  <2>4. job[r].placed \subseteq Leg /\ job[r].paged \subseteq Leg
    BY <1>0 DEF Job
  <2>5. Len(ledger[<<r, l>>]) = 0
    BY <1>4
  <2>6. ASSUME NEW k \in j.placed
        PROVE  /\ ord[<<r, k>>] # "none" /\ j.seen[k] # "none"
               /\ IF k \in j.paged THEN Len(ledger[<<r, k>>]) = 1
                                   ELSE Len(ledger[<<r, k>>]) \in {0, 1}
    <3>1. CASE k = l
      BY <3>1, <1>2, <1>4, <2>2, <2>5
    <3>2. CASE k # l
      BY <3>2, <1>2, <2>1, <2>3, <2>4 DEF Fits
    <3> QED
      BY <3>1, <3>2
  <2>7. \A k \in j.paged : ord[<<r, k>>] # "none"
    BY <1>2, <2>1, <2>2, <2>3, <2>4 DEF Fits
  <2>8. \A k \in j.due : k \in j.placed \ j.paged /\ ledger[<<r, k>>] = << >>
    BY <1>2, <1>4, <2>2
  <2> QED
    BY <1>3, <2>6, <2>7, <2>8 DEF Fits
<1>7. \A o \in Order : o[1] # r => ord[o] = order[o] /\ ledger[o] = ledger[o]
  BY <1>4
<1>8. \A o \in Order : ord[o] = "none" => ledger[o] = << >>
  BY <1>4 DEF Books, Unlisted, Live
<1> QED
  BY <1>0, <1>1, <1>2, <1>3, <1>4, <1>5, <1>6, <1>7, <1>8, StepBooks

LEMMA LostReplyBooks ==
  ASSUME Books, NEW r \in Run, NEW l \in Leg, PlaceReplyLost(r, l)
  PROVE  Books'
<1> DEFINE ord == [order EXCEPT ![<<r, l>>] = "open"]
<1>0. ledger \in [Order -> Rows] /\ acct \in SUBSET Run
  BY DEF Books, TypeOK
<1>1. /\ job' = [job EXCEPT ![r] = NoJob] /\ pc' = [pc EXCEPT ![r] = "abort"]
      /\ pc[r] = "submit" /\ order' = ord /\ Acceptable(r, l)
      /\ UNCHANGED <<clock, held, cash, liq, Others>> /\ ledger' = ledger
      /\ acct' \in SUBSET Run
  BY <1>0 DEF PlaceReplyLost, End, Goto
<1>3. "abort" \in Label /\ "abort" \in Over /\ "submit" \in Working
  BY DEF Label, Over, Working
<1>a. ord = [order EXCEPT ![<<r, l>>] = "open"]
  OBVIOUS
<1> HIDE DEF ord
<1>4. /\ <<r, l>> \in Order /\ ~Live(<<r, l>>) /\ ledger[<<r, l>>] = << >>
      /\ ord \in [Order -> OrderStatus] /\ ord[<<r, l>>] = "open"
      /\ \A o \in Order : o # <<r, l>> => ord[o] = order[o]
      /\ Cardinality(Buying(ord)) <= cash
  BY <1>1, <1>a, AcceptedFunded
<1>5. clock # "closed"
  BY <1>1, <1>3, BusyBefore
<1>6. \A o \in Order : o[1] # r => ord[o] = order[o] /\ ledger[o] = ledger[o]
  BY <1>4
<1>7. \A o \in Order : ord[o] = "none" => ledger[o] = << >>
  BY <1>4 DEF Books, Unlisted, Live
<1> QED
  BY <1>0, <1>1, <1>3, <1>4, <1>5, <1>6, <1>7, NoJobFits, StepBooks

\* The status of a live order has a row to say it.
LEMMA StatusOfRow ==
  ASSUME NEW s \in OrderStatus, s # "none"
  PROVE  LedgerStatus(s) \in RowStatus
BY DEF LedgerStatus, OrderStatus, RowStatus

LEMMA RecordBooks ==
  ASSUME Books, NEW r \in Run, RecordSubmitted(r)
  PROVE  Books'
<1>0. /\ job[r] \in Job /\ job \in [Run -> Job] /\ ledger \in [Order -> Rows]
      /\ order \in [Order -> OrderStatus] /\ acct' \in SUBSET Run
  BY DEF Books, TypeOK, RecordSubmitted
<1> DEFINE label == IF job[r].batch = {} THEN "poll" ELSE "submit"
<1>1. /\ pc[r] = "record" /\ pc' = [pc EXCEPT ![r] = label]
      /\ UNCHANGED <<clock, held, cash, liq, Others>> /\ order' = order
  BY DEF RecordSubmitted, Goto, Broker
<1>2. label \in Label /\ label \notin Over /\ label \notin Unstarted /\ "record" \in Working
  BY DEF Label, Unstarted, Over, Working
<1>3. clock # "closed"
  BY <1>1, <1>2, BusyBefore
<1>4. Fits(r, pc[r], job[r], order, ledger)
  BY DEF Books, Tracks
<1>5. PICK l \in job[r].due :
        LET row == [ledger EXCEPT ![<<r, l>>] = Append(@, LedgerStatus("open"))]
            done == [job EXCEPT ![r].due = {}]
        IN \/ ledger' = row /\ job' = [done EXCEPT ![r].paged = @ \cup {l}]
           \/ ledger' = ledger /\ job' = done
           \/ ledger' = row /\ job' = done
  BY DEF RecordSubmitted
<1>6. /\ l \in Leg /\ l \in job[r].placed /\ l \notin job[r].paged
      /\ ledger[<<r, l>>] = << >> /\ <<r, l>> \in Order /\ order[<<r, l>>] # "none"
  BY <1>0, <1>4, <1>5 DEF Fits, Job, Order
<1> DEFINE row == [ledger EXCEPT ![<<r, l>>] = <<"submitted">>]
           unpaged == [job[r] EXCEPT !.due = {}]
           withpage == [job[r] EXCEPT !.due = {}, !.paged = @ \cup {l}]
<1>7. \/ ledger' = row /\ job' = [job EXCEPT ![r] = withpage]
      \/ ledger' = ledger /\ job' = [job EXCEPT ![r] = unpaged]
      \/ ledger' = row /\ job' = [job EXCEPT ![r] = unpaged]
  <2>1. Append(ledger[<<r, l>>], LedgerStatus("open")) = <<"submitted">>
    BY <1>6, RowOps DEF LedgerStatus
  <2>2. [ledger EXCEPT ![<<r, l>>] = Append(@, LedgerStatus("open"))] = row
    BY <2>1
  <2>3. [job EXCEPT ![r].due = {}] = [job EXCEPT ![r] = unpaged]
    OBVIOUS
  <2>4. [[job EXCEPT ![r].due = {}] EXCEPT ![r].paged = @ \cup {l}] = [job EXCEPT ![r] = withpage]
    BY <1>0 DEF Job
  <2> HIDE DEF row, unpaged, withpage
  <2> QED
    BY <1>5, <2>2, <2>3, <2>4
<1>8. /\ unpaged \in Job /\ withpage \in Job /\ unpaged.due = {} /\ withpage.due = {}
      /\ unpaged.placed = job[r].placed /\ withpage.placed = job[r].placed
      /\ unpaged.seen = job[r].seen /\ withpage.seen = job[r].seen
      /\ unpaged.paged = job[r].paged /\ withpage.paged = job[r].paged \cup {l}
  BY <1>0, <1>6 DEF Job
<1>9. /\ row \in [Order -> Rows] /\ row[<<r, l>>] = <<"submitted">> /\ Len(row[<<r, l>>]) = 1
      /\ \A o \in Order : o # <<r, l>> => row[o] = ledger[o]
  BY <1>0, <1>6, RowTyped, RowOps DEF RowStatus
<1>10. /\ \A k \in Leg : <<r, k>> \in Order
       /\ \A k \in Leg : k # l => row[<<r, k>>] = ledger[<<r, k>>]
       /\ job[r].placed \subseteq Leg /\ job[r].paged \subseteq Leg
  BY <1>0, <1>9 DEF Order, Job
<1>11. Cardinality(Buying(order)) <= cash
  <2>1. OpenBuys = Buying(order)
    BY DEF OpenBuys, Open, Buying
  <2> QED
    BY <2>1 DEF Books, Funded
<1>12. \A o \in Order : order[o] = "none" => ledger[o] = << >> /\ row[o] = << >>
  BY <1>6, <1>9 DEF Books, Unlisted, Live
<1>13. \A o \in Order : o[1] # r => row[o] = ledger[o]
  BY <1>9
<1> HIDE DEF row, unpaged, withpage, label
<1>14. Fits(r, label, withpage, order, row)
  <2>1. ASSUME NEW k \in withpage.placed
        PROVE  /\ order[<<r, k>>] # "none" /\ withpage.seen[k] # "none"
               /\ IF k \in withpage.paged THEN Len(row[<<r, k>>]) = 1
                                          ELSE Len(row[<<r, k>>]) \in {0, 1}
    BY <1>4, <1>6, <1>8, <1>9, <1>10 DEF Fits
  <2> QED
    BY <1>2, <1>4, <1>6, <1>8, <2>1 DEF Fits
<1>15. Fits(r, label, unpaged, order, ledger)
  BY <1>2, <1>4, <1>8 DEF Fits
<1>16. Fits(r, label, unpaged, order, row)
  <2>1. ASSUME NEW k \in unpaged.placed
        PROVE  /\ order[<<r, k>>] # "none" /\ unpaged.seen[k] # "none"
               /\ IF k \in unpaged.paged THEN Len(row[<<r, k>>]) = 1
                                         ELSE Len(row[<<r, k>>]) \in {0, 1}
    BY <1>4, <1>6, <1>8, <1>9, <1>10 DEF Fits
  <2> QED
    BY <1>2, <1>4, <1>8, <2>1 DEF Fits
<1>17. CASE ledger' = row /\ job' = [job EXCEPT ![r] = withpage]
  BY <1>17, <1>0, <1>1, <1>2, <1>3, <1>8, <1>9, <1>11, <1>12, <1>13, <1>14, StepBooks
<1>18. CASE ledger' = ledger /\ job' = [job EXCEPT ![r] = unpaged]
  BY <1>18, <1>0, <1>1, <1>2, <1>3, <1>8, <1>11, <1>12, <1>15, StepBooks
<1>19. CASE ledger' = row /\ job' = [job EXCEPT ![r] = unpaged]
  BY <1>19, <1>0, <1>1, <1>2, <1>3, <1>8, <1>9, <1>11, <1>12, <1>13, <1>16, StepBooks
<1> QED
  BY <1>7, <1>17, <1>18, <1>19

\* What the poll has seen of an order that was placed is the status of an order.
LEMMA PollBooks ==
  ASSUME Books, NEW r \in Run, PollFills(r)
  PROVE  Books'
<1> DEFINE status == [l \in Leg |-> IF l \in job[r].placed THEN order[<<r, l>>] ELSE "none"]
           j == [job[r] EXCEPT !.seen = status]
<1>1. /\ job[r] \in Job /\ job \in [Run -> Job] /\ order \in [Order -> OrderStatus]
      /\ acct \in SUBSET Run
  BY DEF Books, TypeOK
<1>2. /\ job' = [job EXCEPT ![r] = j] /\ pc' = [pc EXCEPT ![r] = "final"] /\ pc[r] = "poll"
      /\ acct' \in SUBSET Run /\ UNCHANGED <<Broker, Others, ledger>>
  BY <1>1 DEF PollFills, Goto
<1>3. status \in [Leg -> OrderStatus]
  <2>1. \A l \in Leg : order[<<r, l>>] \in OrderStatus
    BY <1>1 DEF Order
  <2> QED
    BY <2>1 DEF OrderStatus
<1>4. \A l \in job[r].placed : l \in Leg /\ status[l] = order[<<r, l>>]
  BY <1>1 DEF Job
<1> HIDE DEF status
<1>5. /\ j \in Job /\ j.placed = job[r].placed /\ j.paged = job[r].paged
      /\ j.due = job[r].due /\ j.seen = status
  BY <1>1, <1>3 DEF Job
<1>6. "final" \in Label /\ "final" \notin Over /\ "final" \notin Unstarted /\ "poll" \in Working
  BY DEF Label, Over, Unstarted, Working
<1> HIDE DEF j
<1>7. Fits(r, "final", j, order, ledger)
  <2>1. Fits(r, "poll", job[r], order, ledger)
    BY <1>2 DEF Books, Tracks
  <2> QED
    BY <1>4, <1>5, <1>6, <2>1 DEF Fits
<1>8. clock # "closed"
  BY <1>2, <1>6, BusyBefore
<1> QED
  BY <1>2, <1>5, <1>6, <1>7, <1>8, QuietBooks

\* record_final leaves one row or two, and one if the page was known.
LEMMA FinalRowsTyped ==
  ASSUME Books, NEW r \in Run, NEW l \in job[r].placed
  PROVE  /\ l \in Leg /\ <<r, l>> \in Order /\ Live(<<r, l>>)
         /\ FinalRows(r, l) \in Rows
         /\ l \in job[r].paged \/ ledger[<<r, l>>] = << >> =>
              FinalRows(r, l) = <<LedgerStatus(job[r].seen[l])>>
<1>1. /\ job[r] \in Job /\ ledger \in [Order -> Rows]
  BY DEF Books, TypeOK
<1>2. l \in Leg /\ <<r, l>> \in Order
  BY <1>1 DEF Job, Order
<1>3. Fits(r, pc[r], job[r], order, ledger)
  BY DEF Books, Tracks
<1>4. Live(<<r, l>>) /\ Len(ledger[<<r, l>>]) \in {0, 1} /\ job[r].seen[l] # "none"
  BY <1>3 DEF Fits, Live
<1>5. LedgerStatus(job[r].seen[l]) \in RowStatus
  BY <1>1, <1>2, <1>4, StatusOfRow DEF Job
<1>6. ledger[<<r, l>>] \in Rows
  BY <1>1, <1>2
<1>7. CASE l \in job[r].paged
  <2>1. Len(ledger[<<r, l>>]) = 1
    BY <1>3, <1>7 DEF Fits
  <2> QED
    BY <1>2, <1>4, <1>5, <1>6, <1>7, <2>1, RowSteps DEF FinalRows
<1>8. CASE l \notin job[r].paged
  <2>1. FinalRows(r, l) = Append(ledger[<<r, l>>], LedgerStatus(job[r].seen[l]))
    BY <1>8 DEF FinalRows
  <2> QED
    BY <1>2, <1>4, <1>5, <1>6, <1>8, <2>1, RowSteps, RowOps
<1> QED
  BY <1>7, <1>8

LEMMA FinalBooks ==
  ASSUME Books, NEW r \in Run, RecordFinal(r)
  PROVE  Books'
<1>1. /\ job[r] \in Job /\ job \in [Run -> Job] /\ ledger \in [Order -> Rows]
      /\ order \in [Order -> OrderStatus] /\ pc \in [Run -> Label]
      /\ acct' \in SUBSET Run
  BY DEF Books, TypeOK, RecordFinal, Label, Unstarted, Over, Working
<1>2. PICK l \in job[r].placed :
        /\ ledger' = [ledger EXCEPT ![<<r, l>>] = FinalRows(r, l)] \/ ledger' = ledger
        /\ job' = [job EXCEPT ![r].placed = @ \ {l}]
  BY DEF RecordFinal
<1> DEFINE j == [job[r] EXCEPT !.placed = @ \ {l}]
<1>3. /\ job' = [job EXCEPT ![r] = j] /\ pc[r] = "final"
      /\ pc' = [pc EXCEPT ![r] = "final"] /\ order' = order
      /\ UNCHANGED <<clock, held, cash, liq, Others>>
  BY <1>1, <1>2 DEF RecordFinal, Broker
<1>4. /\ j \in Job /\ j.placed = job[r].placed \ {l} /\ j.paged = job[r].paged
      /\ j.due = job[r].due /\ j.seen = job[r].seen
  BY <1>1 DEF Job
<1> HIDE DEF j
<1>5. "final" \in Label /\ "final" \notin Over /\ "final" \notin Unstarted /\ "final" \in Working
  BY DEF Label, Over, Unstarted, Working
<1>6. l \in Leg /\ <<r, l>> \in Order /\ Live(<<r, l>>) /\ FinalRows(r, l) \in Rows
  BY FinalRowsTyped
<1>7. ledger' \in [Order -> Rows] /\ \A o \in Order : o # <<r, l>> => ledger'[o] = ledger[o]
  BY <1>1, <1>2, <1>6
<1>8. Fits(r, "final", job[r], order, ledger)
  BY <1>3 DEF Books, Tracks
<1>9. Fits(r, "final", j, order', ledger')
  <2>1. \A k \in Leg : k # l => ledger'[<<r, k>>] = ledger[<<r, k>>]
    BY <1>7 DEF Order
  <2>2. j.placed \subseteq Leg /\ l \notin j.placed /\ j.due = {}
    BY <1>4, <1>1, <1>8 DEF Job, Fits
  <2> QED
    BY <1>3, <1>4, <1>5, <1>8, <2>1, <2>2 DEF Fits
<1>10. Cardinality(Buying(order')) <= cash
  <2>1. OpenBuys = Buying(order)
    BY DEF OpenBuys, Open, Buying
  <2> QED
    BY <1>3, <2>1 DEF Books, Funded
<1>11. \A o \in Order : o[1] # r => order'[o] = order[o] /\ ledger'[o] = ledger[o]
  BY <1>3, <1>7
<1>12. \A o \in Order : order'[o] = "none" => ledger'[o] = << >>
  BY <1>3, <1>6, <1>7 DEF Books, Unlisted, Live
<1>13. clock # "closed"
  BY <1>3, <1>5, BusyBefore
<1>14. order' \in [Order -> OrderStatus]
  BY <1>1, <1>3
<1> QED
  BY <1>1, <1>3, <1>4, <1>5, <1>7, <1>9, <1>10, <1>11, <1>12, <1>13, <1>14, StepBooks

LEMMA EndingBooks ==
  ASSUME Books, NEW r \in Run,
         PlaceFails(r) \/ PollFails(r) \/ Summary(r) \/ Crash(r)
  PROVE  Books'
<1>0. acct \in SUBSET Run
  BY DEF Books, TypeOK
<1>1. CASE PlaceFails(r)
  BY <1>0, <1>1, EndBooks DEF PlaceFails, Over, Working
<1>2. CASE PollFails(r)
  BY <1>0, <1>2, EndBooks DEF PollFails, Over, Working
<1>3. CASE Summary(r)
  BY <1>3, SnapshotTyped, EndBooks DEF Summary, Over, Working
<1>4. CASE Crash(r)
  BY <1>0, <1>4, EndBooks DEF Crash, Over
<1> QED
  BY <1>1, <1>2, <1>3, <1>4

LEMMA RunBooks ==
  ASSUME Books, NEW r \in Run, RunStep(r)
  PROVE  Books'
BY StartBooks, CheckBooks, PlaceBooks, LostReplyBooks, RecordBooks, PollBooks, FinalBooks,
   EndingBooks DEF RunStep

-----------------------------------------------------------------------------
(* The books: the market, the operator and the reconciliation *)

\* A step that leaves the runs alone, makes no order and drops none, and keeps
\* the number of rows of each.
LEMMA OutsideTracks ==
  ASSUME Books, UNCHANGED <<pc, job>>, NEW r \in Run,
         \A o \in Order : order'[o] = "none" <=> order[o] = "none",
         \A o \in Order : ledger'[o] = ledger[o] \/ (ledger[o] # << >> /\ Len(ledger'[o]) = Len(ledger[o]))
  PROVE  Tracks(r)'
<1>1. Fits(r, pc[r], job[r], order, ledger)
  BY DEF Books, Tracks
<1>2. job[r].placed \subseteq Leg /\ job[r].paged \subseteq Leg /\ job[r].due \subseteq Leg
  BY DEF Books, TypeOK, Job
<1>3. \A l \in Leg : <<r, l>> \in Order
  BY DEF Order
<1>4. Fits(r, pc[r], job[r], order', ledger')
  BY <1>1, <1>2, <1>3 DEF Fits
<1> QED
  BY <1>4 DEF Tracks

LEMMA OutsideBooks ==
  ASSUME Books, UNCHANGED <<pc, job, ledger>>, TypeOK', Funded', AfterClose',
         \A o \in Order : order'[o] = "none" <=> order[o] = "none"
  PROVE  Books'
<1>1. Unlisted'
  BY DEF Books, Unlisted, Live
<1> QED
  BY <1>1, OutsideTracks DEF Books

\* A step that touches no order but lets one stop being open.
LEMMA FewerOpen ==
  ASSUME Books, NEW ord, ord \in [Order -> OrderStatus],
         \A o \in Order : ord[o] = "open" => order[o] = "open"
  PROVE  /\ Cardinality(Buying(ord)) \in Nat
         /\ Cardinality(Buying(ord)) <= Cardinality(OpenBuys)
         /\ OpenBuys \in SUBSET Order /\ IsFiniteSet(OpenBuys)
         /\ Cardinality(OpenBuys) \in Nat /\ Cardinality(OpenBuys) <= cash
<1>1. OpenBuys \in SUBSET Order /\ Buying(ord) \in SUBSET OpenBuys
  BY DEF Buying, OpenBuys, Open
<1>2. Buying(ord) \in SUBSET Order
  BY <1>1
<1> QED
  BY <1>1, <1>2, Counted DEF Books, Funded

LEMMA TickBooks ==
  ASSUME Books, Tick
  PROVE  Books'
<1>1. UNCHANGED <<pc, job, ledger>> /\ cash' = cash
  BY DEF Tick
<1>2. order \in [Order -> OrderStatus] /\ clock \in {"pre", "open", "closed"}
  BY DEF Books, TypeOK
<1>3. /\ order' \in [Order -> OrderStatus]
      /\ \A o \in Order : order'[o] = "none" <=> order[o] = "none"
      /\ \A o \in Order : order'[o] = "open" => order[o] = "open"
  <2>1. CASE order' = order
    BY <1>2, <2>1
  <2>2. CASE order' = [o \in Order |-> IF order[o] = "open" THEN "expired" ELSE order[o]]
    BY <1>2, <2>2 DEF OrderStatus
  <2> QED
    BY <2>1, <2>2 DEF Tick
<1>4. TypeOK'
  BY <1>3 DEF Books, TypeOK, Tick, Others
<1>5. Funded'
  <2>1. OpenBuys' = Buying(order')
    BY DEF OpenBuys, Open, Buying
  <2>2. /\ Cardinality(Buying(order')) \in Nat /\ Cardinality(OpenBuys) \in Nat
        /\ Cardinality(Buying(order')) <= Cardinality(OpenBuys)
        /\ Cardinality(OpenBuys) <= cash
    BY <1>3, FewerOpen
  <2>3. cash \in Nat
    BY DEF Books, TypeOK
  <2> QED
    BY <1>1, <2>1, <2>2, <2>3 DEF Funded
<1>6. AfterClose'
  <2>1. CASE clock = "pre"
    BY <2>1 DEF Tick, AfterClose
  <2>2. CASE clock = "open"
    <3>1. \A o \in Order : order'[o] # "open"
      BY <2>2, <1>2 DEF Tick
    <3>2. \A r \in Run : ~Busy(r)'
      BY <1>1, <2>2 DEF Tick, Busy
    <3> QED
      BY <3>1, <3>2 DEF AfterClose, Open
  <2> QED
    BY <1>2, <2>1, <2>2 DEF Tick
<1> QED
  BY <1>1, <1>3, <1>4, <1>5, <1>6, OutsideBooks

LEMMA FillBooks ==
  ASSUME Books, NEW o \in Order, Fill(o)
  PROVE  Books'
<1>1. /\ UNCHANGED <<pc, job, ledger>> /\ clock = "open" /\ clock' = clock
      /\ order[o] = "open" /\ order' = [order EXCEPT ![o] = "filled"]
  BY DEF Fill
<1>2. order \in [Order -> OrderStatus] /\ cash \in Nat /\ held \subseteq Symbol
  BY DEF Books, TypeOK
<1>3. /\ order' \in [Order -> OrderStatus]
      /\ \A p \in Order : order'[p] = "none" <=> order[p] = "none"
      /\ \A p \in Order : order'[p] = "open" <=> order[p] = "open" /\ p # o
  BY <1>1, <1>2 DEF OrderStatus
<1>4. o[2][2] \in Symbol
  BY DEF Order, Leg
<1>5. AfterClose'
  BY <1>1 DEF AfterClose
<1>6. OpenBuys' = Buying(order')
  BY DEF OpenBuys, Open, Buying
<1>7. /\ OpenBuys \in SUBSET Order /\ Cardinality(OpenBuys) \in Nat
      /\ Cardinality(OpenBuys) <= cash
  BY <1>2, FewerOpen
<1>8. CASE o[2][1] = "buy"
  <2>1. o \in OpenBuys /\ OpenBuys' = OpenBuys \ {o}
    BY <1>1, <1>3, <1>6, <1>8 DEF OpenBuys, Open, Buying
  <2>2. Cardinality(OpenBuys') = Cardinality(OpenBuys) - 1
    BY <1>7, <2>1, Counted
  <2>3. Cardinality(OpenBuys') \in Nat
    BY <1>7, <2>1, Counted
  <2>4. cash' = cash - 1 /\ held' = held \cup {o[2][2]}
    BY <1>8 DEF Fill
  <2>5. cash' \in Nat /\ Funded'
    BY <1>2, <1>7, <2>2, <2>3, <2>4 DEF Funded
  <2>6. TypeOK'
    BY <1>1, <1>3, <1>4, <2>4, <2>5 DEF Books, TypeOK, Fill, Others
  <2> QED
    BY <1>1, <1>3, <1>5, <2>5, <2>6, OutsideBooks
<1>9. CASE o[2][1] # "buy"
  <2>1. OpenBuys' = OpenBuys
    BY <1>1, <1>3, <1>6, <1>9 DEF OpenBuys, Open, Buying
  <2>2. cash' = cash + 1 /\ held' = held \ {o[2][2]}
    BY <1>9 DEF Fill
  <2>3. cash' \in Nat /\ Funded'
    BY <1>2, <1>7, <2>1, <2>2 DEF Funded
  <2>4. TypeOK'
    BY <1>1, <1>3, <2>2, <2>3 DEF Books, TypeOK, Fill, Others
  <2> QED
    BY <1>1, <1>3, <1>5, <2>3, <2>4, OutsideBooks
<1> QED
  BY <1>8, <1>9

LEMMA CancelBooks ==
  ASSUME Books, NEW o \in Order, CancelTakesEffect(o)
  PROVE  Books'
<1>1. /\ UNCHANGED <<pc, job, ledger>> /\ clock' = clock /\ cash' = cash
      /\ order' = [order EXCEPT ![o] = IF @ = "open" THEN "canceled" ELSE @]
      /\ flat' = [flat EXCEPT !.cancels = @ \ {o}]
  BY DEF CancelTakesEffect
<1>2. order \in [Order -> OrderStatus] /\ cash \in Nat
  BY DEF Books, TypeOK
<1>3. /\ order' \in [Order -> OrderStatus]
      /\ \A p \in Order : order'[p] = "none" <=> order[p] = "none"
      /\ \A p \in Order : order'[p] = "open" => order[p] = "open"
  BY <1>1, <1>2 DEF OrderStatus
<1>4. AfterClose'
  BY <1>1, <1>3 DEF Books, AfterClose, Open, Busy
<1>5. Funded'
  <2>1. OpenBuys' = Buying(order')
    BY DEF OpenBuys, Open, Buying
  <2>2. /\ Cardinality(Buying(order')) \in Nat /\ Cardinality(OpenBuys) \in Nat
        /\ Cardinality(Buying(order')) <= Cardinality(OpenBuys)
        /\ Cardinality(OpenBuys) <= cash
    BY <1>3, FewerOpen
  <2> QED
    BY <1>1, <1>2, <2>1, <2>2 DEF Funded
<1>6. TypeOK'
  BY <1>1, <1>3 DEF Books, TypeOK, CancelTakesEffect
<1> QED
  BY <1>1, <1>3, <1>4, <1>5, <1>6, OutsideBooks

\* A step that touches no order and leaves the account no poorer.
LEMMA AsideBooks ==
  ASSUME Books, TypeOK', UNCHANGED <<clock, order, ledger, pc, job>>, cash' >= cash
  PROVE  Books'
<1>1. order \in [Order -> OrderStatus] /\ cash \in Nat /\ cash' \in Nat
  BY DEF Books, TypeOK
<1>2. AfterClose'
  BY DEF Books, AfterClose, Open, Busy
<1>3. Funded'
  <2>1. OpenBuys' = OpenBuys
    BY DEF OpenBuys, Open
  <2>2. Cardinality(OpenBuys) \in Nat /\ Cardinality(OpenBuys) <= cash
    BY <1>1, FewerOpen
  <2> QED
    BY <1>1, <2>1, <2>2 DEF Funded
<1> QED
  BY <1>2, <1>3, OutsideBooks

LEMMA OperatorBooks ==
  ASSUME Books, SetHalt \/ Resume \/ Flatten \/ \E s \in Symbol : FillLiquidation(s)
  PROVE  Books'
<1> DEFINE at == {"idle", "cancel", "close", "confirm", "flat", "failed"}
<1>0. /\ cash \in Nat /\ liq \in [asked : SUBSET Symbol, working : SUBSET Symbol]
      /\ flat.runs \in 0 .. MaxFlattens /\ MaxFlattens \in Nat /\ held \subseteq Symbol
      /\ flat \in [at : at, cancels : SUBSET Order, todo : SUBSET Symbol,
                   underHalt : BOOLEAN, runs : 0 .. MaxFlattens]
      /\ halt \in BOOLEAN /\ Open \subseteq Order
  BY LimitAssumption DEF Books, TypeOK, Open
<1>1. CASE SetHalt \/ Resume
  <2>1. TypeOK'
    BY <1>1 DEF SetHalt, Resume, Books, TypeOK, Broker
  <2> QED
    BY <1>0, <1>1, <2>1, AsideBooks DEF SetHalt, Resume, Broker
<1>2. ASSUME NEW s \in Symbol, FillLiquidation(s) PROVE Books'
  <2>1. TypeOK'
    BY <1>0, <1>2 DEF FillLiquidation, Books, TypeOK, Others
  <2> QED
    BY <1>0, <1>2, <2>1, AsideBooks DEF FillLiquidation
<1>3. CASE FlattenStart
  <2>1. flat' \in [at : at, cancels : SUBSET Order, todo : SUBSET Symbol,
                   underHalt : BOOLEAN, runs : 0 .. MaxFlattens]
    <3>1. flat.runs + 1 \in 0 .. MaxFlattens
      BY <1>0, <1>3 DEF FlattenStart
    <3>2. flat' = [flat EXCEPT !.at = "cancel", !.cancels = Open, !.underHalt = halt,
                              !.runs = flat.runs + 1]
      BY <1>3 DEF FlattenStart
    <3> QED
      BY <1>0, <3>1, <3>2
  <2>2. TypeOK'
    BY <1>3, <2>1 DEF FlattenStart, Books, TypeOK, Broker
  <2> QED
    BY <1>0, <1>3, <2>2, AsideBooks DEF FlattenStart, Broker
<1>4. CASE FlattenSettled \/ FlattenConfirm \/ FlattenFails \/ FlattenAgain
  <2>1. flat' \in [at : at, cancels : SUBSET Order, todo : SUBSET Symbol,
                   underHalt : BOOLEAN, runs : 0 .. MaxFlattens]
    BY <1>0, <1>4 DEF FlattenSettled, FlattenConfirm, FlattenFails, FlattenAgain
  <2>2. TypeOK'
    BY <1>4, <2>1 DEF FlattenSettled, FlattenConfirm, FlattenFails, FlattenAgain, Books, TypeOK, Broker
  <2> QED
    BY <1>0, <1>4, <2>2, AsideBooks DEF FlattenSettled, FlattenConfirm, FlattenFails, FlattenAgain, Broker
<1>5. ASSUME NEW s \in Symbol, LiquidationCanceled(s) PROVE Books'
  <2>1. TypeOK'
    BY <1>0, <1>5 DEF LiquidationCanceled, Books, TypeOK
  <2> QED
    BY <1>0, <1>5, <2>1, AsideBooks DEF LiquidationCanceled
<1>6. ASSUME NEW s \in Symbol, FlattenClose(s) PROVE Books'
  <2>1. liq' \in [asked : SUBSET Symbol, working : SUBSET Symbol]
    BY <1>0, <1>6 DEF FlattenClose
  <2>2. flat' \in [at : at, cancels : SUBSET Order, todo : SUBSET Symbol,
                   underHalt : BOOLEAN, runs : 0 .. MaxFlattens]
    <3>1. \/ flat' = [flat EXCEPT !.todo = flat.todo \ {s}]
          \/ flat' = [flat EXCEPT !.at = "failed", !.todo = {}]
      BY <1>6 DEF FlattenClose
    <3> QED
      BY <1>0, <3>1
  <2>3. TypeOK'
    BY <1>6, <2>1, <2>2 DEF FlattenClose, Books, TypeOK
  <2> QED
    BY <1>0, <1>6, <2>3, AsideBooks DEF FlattenClose
<1> QED
  BY <1>1, <1>2, <1>3, <1>4, <1>5, <1>6 DEF Flatten

Rewritten(o, first) == [ledger[o] EXCEPT ![first[o]] = LedgerStatus(order[o])]

\* One pass: of the orders whose row disagrees, some get theirs rewritten.
Rewrites(first, fixed) ==
  /\ first \in [Order -> {1, 2}]
  /\ fixed \subseteq Mismatched(first)
  /\ \A o \in Order : /\ first[o] = 2 => o \in Duplicated
                      /\ o \in fixed => ledger'[o] = Rewritten(o, first)
                      /\ o \notin fixed => ledger'[o] = ledger[o]

\* What the pass may do to the rows of an order.
LEMMA Reconciled ==
  ASSUME Books, NEW first, NEW fixed, Rewrites(first, fixed), NEW o \in Order
  PROVE  /\ ledger'[o] \in Rows
         /\ ledger'[o] = ledger[o] \/ (ledger[o] # << >> /\ Len(ledger'[o]) = Len(ledger[o]))
         /\ Len(ledger[o]) = 1 /\ o \in fixed => ledger'[o] = <<LedgerStatus(order[o])>>
<1>0. /\ first \in [Order -> {1, 2}] /\ fixed \subseteq Mismatched(first)
      /\ first[o] = 2 => o \in Duplicated
      /\ o \in fixed => ledger'[o] = Rewritten(o, first)
      /\ o \notin fixed => ledger'[o] = ledger[o]
  BY DEF Rewrites
<1>1. ledger[o] \in Rows /\ order[o] \in OrderStatus /\ first[o] \in {1, 2}
  BY <1>0 DEF Books, TypeOK
<1>2. CASE o \notin fixed
  BY <1>0, <1>1, <1>2
<1>3. CASE o \in fixed
  <2> DEFINE status == LedgerStatus(order[o])
  <2>1. order[o] # "none" /\ ledger[o] # << >>
    BY <1>0, <1>3 DEF Mismatched, Live
  <2>2. status \in RowStatus
    BY <1>1, <2>1, StatusOfRow
  <2>3. ledger'[o] = [ledger[o] EXCEPT ![first[o]] = status]
    BY <1>0, <1>3 DEF Rewritten
  <2> HIDE DEF status
  <2>4. ASSUME NEW a \in RowStatus, ledger[o] = <<a>>, Len(ledger[o]) = 1
        PROVE  /\ ledger'[o] \in Rows /\ Len(ledger'[o]) = Len(ledger[o])
               /\ ledger'[o] = <<status>>
    <3>1. first[o] = 1
      BY <1>0, <1>1, <2>4 DEF Duplicated
    <3> QED
      BY <2>2, <2>3, <2>4, <3>1, RowOps, RowTyped
  <2>5. ASSUME NEW a \in RowStatus, NEW b \in RowStatus, ledger[o] = <<a, b>>, Len(ledger[o]) = 2
        PROVE  ledger'[o] \in Rows /\ Len(ledger'[o]) = Len(ledger[o])
    <3>1. CASE first[o] = 1
      <4>1. ledger'[o] = <<status, b>>
        BY <2>3, <2>5, <3>1, RowPairs
      <4> QED
        BY <4>1, <2>2, <2>5, RowOps, RowTyped
    <3>2. CASE first[o] = 2
      <4>1. ledger'[o] = <<a, status>>
        BY <2>3, <2>5, <3>2, RowPairs
      <4> QED
        BY <4>1, <2>2, <2>5, RowOps, RowTyped
    <3> QED
      BY <1>1, <3>1, <3>2
  <2> QED
    BY <1>1, <2>1, <2>4, <2>5, RowCases DEF status
<1> QED
  BY <1>2, <1>3

\* A pass writes statuses, and adds or drops no row.
LEMMA ReconcileRows ==
  ASSUME Books, Reconcile
  PROVE  /\ ledger' \in [Order -> Rows] /\ audit' \in {"clean", "mismatch"}
         /\ \A o \in Order : \/ ledger'[o] = ledger[o]
                             \/ ledger[o] # << >> /\ Len(ledger'[o]) = Len(ledger[o])
<1>1. PICK first \in [Order -> {1, 2}] :
        /\ \A o \in Order : first[o] = 2 => o \in Duplicated
        /\ \E failed \in IF "patch" \in Losses THEN SUBSET Mismatched(first) ELSE {{}} :
             /\ ledger' = [o \in Order |->
                  IF o \in Mismatched(first) \ failed
                  THEN [ledger[o] EXCEPT ![first[o]] = LedgerStatus(order[o])]
                  ELSE ledger[o]]
             /\ audit' = IF Unresolved(failed) = {} /\ liq.asked = {}
                         THEN "clean" ELSE "mismatch"
  BY DEF Reconcile
<1>2. PICK failed : /\ ledger' = [o \in Order |->
                         IF o \in Mismatched(first) \ failed
                         THEN [ledger[o] EXCEPT ![first[o]] = LedgerStatus(order[o])]
                         ELSE ledger[o]]
                    /\ audit' \in {"clean", "mismatch"}
  BY <1>1
<1> DEFINE fixed == Mismatched(first) \ failed
<1>3. fixed \subseteq Mismatched(first) /\ DOMAIN ledger' = Order
  BY <1>2
<1>4. \A o \in Order : /\ o \in fixed => ledger'[o] = Rewritten(o, first)
                       /\ o \notin fixed => ledger'[o] = ledger[o]
  BY <1>2 DEF Rewritten
<1> HIDE DEF fixed
<1>5. \A o \in Order :
        /\ ledger'[o] \in Rows
        /\ ledger'[o] = ledger[o] \/ (ledger[o] # << >> /\ Len(ledger'[o]) = Len(ledger[o]))
  <2>1. Rewrites(first, fixed)
    BY <1>1, <1>3, <1>4 DEF Rewrites
  <2> QED
    BY <2>1, Reconciled
<1>6. ledger' = [o \in Order |-> ledger'[o]]
  BY <1>2
<1>7. ledger' \in [Order -> Rows]
  BY <1>5, <1>6
<1> QED
  BY <1>2, <1>5, <1>7

LEMMA ReconcileBooks ==
  ASSUME Books, Reconcile
  PROVE  Books'
<1>5. /\ ledger' \in [Order -> Rows] /\ audit' \in {"clean", "mismatch"}
      /\ \A o \in Order : \/ ledger'[o] = ledger[o]
                          \/ ledger[o] # << >> /\ Len(ledger'[o]) = Len(ledger[o])
  BY ReconcileRows
<1>6. /\ UNCHANGED <<clock, held, cash, order, liq, halt, flat, acct, pc, job>>
  BY DEF Reconcile, Broker
<1>7. TypeOK'
  BY <1>5, <1>6 DEF Books, TypeOK
<1>8. Funded' /\ AfterClose'
  BY <1>6 DEF Books, Funded, OpenBuys, Open, AfterClose, Busy
<1>9. Unlisted'
  BY <1>5, <1>6 DEF Books, Unlisted, Live
<1>10. ASSUME NEW r \in Run PROVE Tracks(r)'
  BY <1>5, <1>6, OutsideTracks
<1> QED
  BY <1>7, <1>8, <1>9, <1>10 DEF Books

LEMMA BooksInit == Init => Books
<1> SUFFICES ASSUME Init PROVE Books
  OBVIOUS
<1>1. NoJob \in Job /\ NoJob.placed = {} /\ NoJob.paged = {} /\ NoJob.due = {}
  BY DEF NoJob, Job, OrderStatus
<1>2. TypeOK
  <2>1. cash \in Nat
    BY LimitAssumption DEF Init
  <2>2. flat \in [at : {"idle", "cancel", "close", "confirm", "flat", "failed"},
                  cancels : SUBSET Order, todo : SUBSET Symbol, underHalt : BOOLEAN,
                  runs : 0 .. MaxFlattens]
    BY LimitAssumption DEF Init
  <2> QED
    BY <1>1, <2>1, <2>2, RowTyped DEF Init, TypeOK, OrderStatus
<1>3. Funded
  <2>1. OpenBuys = {}
    BY DEF Init, OpenBuys, Open
  <2>2. Cardinality(OpenBuys) = 0
    BY <2>1, FS_EmptySet
  <2> QED
    BY <1>2, <2>2 DEF Funded, TypeOK
<1>4. Unlisted /\ AfterClose
  BY DEF Init, Unlisted, AfterClose
<1>5. ASSUME NEW r \in Run PROVE Tracks(r)
  <2>1. \A l \in Leg : <<r, l>> \in Order
    BY DEF Order
  <2>2. pc[r] = "idle" /\ job[r] = NoJob /\ \A l \in Leg : order[<<r, l>>] = "none"
    BY <2>1 DEF Init
  <2>3. "idle" \notin Over
    BY DEF Over
  <2> QED
    BY <1>1, <2>2, <2>3 DEF Tracks, Fits
<1> QED
  BY <1>2, <1>3, <1>4, <1>5 DEF Books

LEMMA BooksKept == Books /\ [Next]_vars => Books'
<1> SUFFICES ASSUME Books, [Next]_vars PROVE Books'
  OBVIOUS
<1>1. CASE UNCHANGED vars
  <2>1. TypeOK'
    BY <1>1 DEF Books, TypeOK, vars
  <2> QED
    BY <1>1, <2>1, AsideBooks DEF vars, Books, TypeOK
<1> QED
  BY <1>1, RunBooks, TickBooks, FillBooks, CancelBooks, OperatorBooks, ReconcileBooks
     DEF Next, Market

LEMMA BooksAlways == Spec => []Books
BY BooksInit, BooksKept, PTL DEF Spec

\* Every variable keeps its type: a row too many for an order is the second,
\* never a third, and the account is never in debt, whatever overlaps or fails.
THEOREM TypeCorrect == Spec => []TypeOK
<1>1. Books => TypeOK
  BY DEF Books
<1> QED
  BY BooksAlways, <1>1, PTL

-----------------------------------------------------------------------------
(* After the close *)

Told(o) == ledger[o] = IF Live(o) THEN <<LedgerStatus(order[o])>> ELSE << >>

Audited == audit = "clean" => clock = "closed" /\ \A o \in Order : Told(o)

\* A clean verdict is given on one row for each order, read or just rewritten.
LEMMA VerdictTold ==
  ASSUME Books, Reconcile, audit' = "clean"
  PROVE  \A o \in Order : Told(o)'
<1>1. PICK first \in [Order -> {1, 2}] :
        /\ \A o \in Order : first[o] = 2 => o \in Duplicated
        /\ \E failed \in IF "patch" \in Losses THEN SUBSET Mismatched(first) ELSE {{}} :
             /\ ledger' = [o \in Order |->
                  IF o \in Mismatched(first) \ failed
                  THEN [ledger[o] EXCEPT ![first[o]] = LedgerStatus(order[o])]
                  ELSE ledger[o]]
             /\ audit' = IF Unresolved(failed) = {} /\ liq.asked = {}
                         THEN "clean" ELSE "mismatch"
  BY DEF Reconcile
<1>2. PICK failed : /\ ledger' = [o \in Order |->
                         IF o \in Mismatched(first) \ failed
                         THEN [ledger[o] EXCEPT ![first[o]] = LedgerStatus(order[o])]
                         ELSE ledger[o]]
                    /\ audit' = IF Unresolved(failed) = {} /\ liq.asked = {}
                                THEN "clean" ELSE "mismatch"
  BY <1>1
<1>3. Missing = {} /\ Duplicated = {} /\ failed = {}
  <2>1. Unresolved(failed) = {}
    BY <1>2
  <2> QED
    BY <2>1 DEF Unresolved
<1> DEFINE fixed == Mismatched(first)
<1>a. fixed \subseteq Mismatched(first)
  OBVIOUS
<1>4. \A o \in Order : /\ o \in fixed => ledger'[o] = Rewritten(o, first)
                       /\ o \notin fixed => ledger'[o] = ledger[o]
  BY <1>2, <1>3 DEF Rewritten
<1> HIDE DEF fixed
<1> SUFFICES ASSUME NEW o \in Order PROVE Told(o)'
  OBVIOUS
<1>5. /\ ledger'[o] = ledger[o] \/ ledger[o] # << >>
      /\ Len(ledger[o]) = 1 /\ o \in fixed => ledger'[o] = <<LedgerStatus(order[o])>>
  <2>1. Rewrites(first, fixed)
    BY <1>1, <1>a, <1>4 DEF Rewrites
  <2> QED
    BY <2>1, Reconciled
<1>6. order' = order
  BY DEF Reconcile, Broker
<1>7. ledger[o] \in Rows /\ (~Live(o) => ledger[o] = << >>)
  BY DEF Books, TypeOK, Unlisted
<1>8. CASE ~Live(o)
  BY <1>5, <1>6, <1>7, <1>8 DEF Told, Live
<1>9. CASE Live(o)
  <2>1. Len(ledger[o]) # 0 /\ Len(ledger[o]) # 2 /\ ledger[o] # << >>
    BY <1>3, <1>7, <1>9, RowCases DEF Missing, Duplicated
  <2>2. PICK a \in RowStatus : ledger[o] = <<a>> /\ Len(ledger[o]) = 1
    BY <1>7, <2>1, RowCases
  <2>3. CASE o \in fixed
    BY <1>5, <1>6, <1>9, <2>2, <2>3 DEF Told, Live
  <2>4. CASE o \notin fixed
    <3>1. first[o] = 1
      BY <1>1, <1>3
    <3>2. ledger[o][1] = LedgerStatus(order[o])
      BY <1>9, <2>1, <2>4, <3>1 DEF Mismatched, fixed
    <3>3. ledger[o] = <<LedgerStatus(order[o])>>
      BY <2>2, <3>2
    <3> QED
      BY <1>4, <1>6, <1>9, <2>4, <3>3 DEF Told, Live
  <2> QED
    BY <2>3, <2>4
<1> QED
  BY <1>8, <1>9

LEMMA AuditedKept == Books /\ Audited /\ [Next]_vars => Audited'
<1> SUFFICES ASSUME Books, Audited, [Next]_vars, audit' = "clean"
             PROVE  clock' = "closed" /\ \A o \in Order : Told(o)'
  BY DEF Audited
<1>1. ASSUME UNCHANGED <<clock, order, ledger, audit>>
      PROVE  clock' = "closed" /\ \A o \in Order : Told(o)'
  BY <1>1 DEF Audited, Told, Live
<1>2. ASSUME audit' = audit PROVE clock = "closed" /\ \A o \in Order : Told(o)
  BY <1>2 DEF Audited
<1>3. ASSUME NEW r \in Run, RunStep(r) PROVE FALSE
  <2>1. audit' = audit
    BY <1>3 DEF RunStep, ReadAccount, ReadBook, AbortEarly, Plan, GateRejects, Halted, Tripped,
         Passed, Place, PlaceReplyLost, PlaceFails, RecordSubmitted, PollFills, PollFails,
         RecordFinal, Summary, Crash, Others
  <2>2. clock = "closed" /\ pc[r] \notin Working
    BY <1>2, <2>1 DEF Books, AfterClose, Busy
  <2> QED
    BY <1>3, <2>2 DEF RunStep, ReadAccount, ReadBook, AbortEarly, Plan, GateRejects, Halted,
         Tripped, Passed, Place, PlaceReplyLost, PlaceFails, RecordSubmitted, PollFills,
         PollFails, RecordFinal, Summary, Crash, Working
<1>4. CASE Tick
  BY <1>2, <1>4 DEF Tick, Others
<1>5. ASSUME NEW o \in Order, Fill(o)
      PROVE  clock' = "closed" /\ \A p \in Order : Told(p)'
  BY <1>2, <1>5 DEF Fill, Others
<1>6. ASSUME NEW o \in Order, CancelTakesEffect(o)
      PROVE  clock' = "closed" /\ \A p \in Order : Told(p)'
  <2>1. clock = "closed" /\ order[o] # "open"
    BY <1>2, <1>6 DEF CancelTakesEffect, Books, AfterClose, Open
  <2>2. order' = order
    BY <1>6, <2>1 DEF CancelTakesEffect, Books, TypeOK
  <2> QED
    BY <1>1, <1>6, <2>2 DEF CancelTakesEffect
<1>7. CASE \E s \in Symbol : FillLiquidation(s)
  BY <1>1, <1>7 DEF FillLiquidation, Others
<1>8. CASE SetHalt \/ Resume
  BY <1>1, <1>8 DEF SetHalt, Resume, Broker
<1>9. CASE Flatten
  BY <1>1, <1>9 DEF Flatten, FlattenStart, FlattenSettled, LiquidationCanceled, FlattenClose,
       FlattenConfirm, FlattenFails, FlattenAgain, Broker
<1>10. CASE Reconcile
  BY <1>10, VerdictTold DEF Reconcile, Broker
<1>11. CASE UNCHANGED vars
  BY <1>1, <1>11 DEF vars
<1> QED
  BY <1>3, <1>4, <1>5, <1>6, <1>7, <1>8, <1>9, <1>10, <1>11 DEF Next, Market

\* Whatever failed before it, a clean reconciliation is the truth and stays it:
\* every order of the day has one row, with the status it ended in.
THEOREM CleanLedger == Spec => []CleanMeansMatch
<1>1. Init => Audited
  BY DEF Init, Audited
<1>2. Audited => CleanMeansMatch
  BY DEF Audited, CleanMeansMatch, Told
<1> QED
  BY BooksAlways, AuditedKept, <1>1, <1>2, PTL DEF Spec

-----------------------------------------------------------------------------
(* The flatten under a halt *)

\* The halt stopped every run before it submits: only what was open when the
\* flatten started can still fill, and nothing is open once that is settled.
HaltHolds ==
  flat.underHalt =>
    /\ halt
    /\ \A r \in Run : pc[r] \notin {"submit", "record"}
    /\ flat.at \in {"close", "confirm", "flat"} => Open = {}
    /\ flat.at = "flat" => held = {}

\* A step of a run under the halt submits nothing.
LEMMA HaltedRun ==
  ASSUME TypeOK, HaltHolds, flat.underHalt, NEW r \in Run, RunStep(r)
  PROVE  /\ UNCHANGED <<order, held, flat, halt>>
         /\ \A q \in Run : pc'[q] \notin {"submit", "record"}
<1>0. /\ pc \in [Run -> {"idle", "ok", "halted", "abort", "dead"} \cup Working] /\ halt
      /\ \A q \in Run : pc[q] \notin {"submit", "record"}
  BY DEF TypeOK, HaltHolds
<1>1. ASSUME NEW label, label \notin {"submit", "record"}, pc' = [pc EXCEPT ![r] = label]
      PROVE  \A q \in Run : pc'[q] \notin {"submit", "record"}
  BY <1>0, <1>1
<1>2. CASE ReadAccount(r)
  BY <1>1, <1>2 DEF ReadAccount, Goto, Broker, Others
<1>3. CASE ReadBook(r) \/ Plan(r)
  BY <1>1, <1>3 DEF ReadBook, Plan, Goto, Broker, Others
<1>4. CASE AbortEarly(r) \/ GateRejects(r) \/ Halted(r)
  BY <1>1, <1>4 DEF AbortEarly, GateRejects, Halted, End, Goto, Broker, Others
<1>5. CASE Tripped(r) \/ Passed(r)
  BY <1>0, <1>5 DEF Tripped, Passed
<1>6. CASE (\E l \in Leg : Place(r, l) \/ PlaceReplyLost(r, l)) \/ PlaceFails(r) \/ RecordSubmitted(r)
  BY <1>0, <1>6 DEF Place, PlaceReplyLost, PlaceFails, RecordSubmitted
<1>7. CASE PollFills(r) \/ PollFails(r)
  BY <1>1, <1>7 DEF PollFills, PollFails, End, Goto, Broker, Others
<1>8. CASE RecordFinal(r)
  BY <1>0, <1>8 DEF RecordFinal, Broker, Others
<1>9. CASE Summary(r) \/ Crash(r)
  BY <1>1, <1>9 DEF Summary, Crash, End, Goto, Broker, Others
<1> QED
  BY <1>2, <1>3, <1>4, <1>5, <1>6, <1>7, <1>8, <1>9 DEF RunStep

LEMMA HaltHoldsKept ==
  ASSUME Drained = TRUE, Books, HaltHolds, [Next]_vars
  PROVE  HaltHolds'
<1> SUFFICES ASSUME flat.underHalt'
             PROVE  /\ halt'
                    /\ \A r \in Run : pc'[r] \notin {"submit", "record"}
                    /\ flat.at' \in {"close", "confirm", "flat"} => Open' = {}
                    /\ flat.at' = "flat" => held' = {}
  BY DEF HaltHolds
<1> USE DEF HaltHolds
<1>0. TypeOK
  BY DEF Books
<1>1. /\ flat \in [at : {"idle", "cancel", "close", "confirm", "flat", "failed"},
                   cancels : SUBSET Order, todo : SUBSET Symbol, underHalt : BOOLEAN,
                   runs : 0 .. MaxFlattens]
      /\ order \in [Order -> OrderStatus]
  BY <1>0 DEF TypeOK
<1>2. ASSUME NEW r \in Run, RunStep(r) PROVE HaltHolds'
  <2>1. flat' = flat
    BY <1>2 DEF RunStep, ReadAccount, ReadBook, AbortEarly, Plan, GateRejects, Halted, Tripped,
         Passed, Place, PlaceReplyLost, PlaceFails, RecordSubmitted, PollFills, PollFails,
         RecordFinal, Summary, Crash, Others
  <2>2. /\ UNCHANGED <<order, held, flat, halt>>
        /\ \A q \in Run : pc'[q] \notin {"submit", "record"}
    BY <1>0, <1>2, <2>1, HaltedRun
  <2> QED
    BY <2>2 DEF Open
<1>3. CASE Tick
  <2>1. \A o \in Order : order'[o] = "open" => order[o] = "open"
    <3>1. CASE order' = order
      BY <3>1
    <3>2. CASE order' = [o \in Order |-> IF order[o] = "open" THEN "expired" ELSE order[o]]
      BY <3>2
    <3> QED
      BY <1>3, <3>1, <3>2 DEF Tick
  <2> QED
    BY <1>3, <2>1 DEF Tick, Others, Open
<1>4. ASSUME NEW o \in Order, Fill(o) PROVE HaltHolds'
  <2>1. flat.at \notin {"close", "confirm", "flat"}
    BY <1>4 DEF Fill, Others, Open
  <2> QED
    BY <1>4, <2>1 DEF Fill, Others
<1>5. ASSUME NEW o \in Order, CancelTakesEffect(o) PROVE HaltHolds'
  <2>1. flat' = [flat EXCEPT !.cancels = @ \ {o}]
    BY <1>5 DEF CancelTakesEffect
  <2>2. flat'.underHalt = flat.underHalt /\ flat'.at = flat.at
    BY <1>1, <2>1
  <2>3. \A p \in Order : order'[p] = "open" => order[p] = "open"
    BY <1>1, <1>5 DEF CancelTakesEffect
  <2> QED
    BY <1>5, <2>2, <2>3 DEF CancelTakesEffect, Open
<1>6. ASSUME NEW s \in Symbol, FillLiquidation(s) PROVE HaltHolds'
  BY <1>6 DEF FillLiquidation, Others, Open
<1>7. CASE SetHalt \/ Resume
  BY <1>1, <1>7 DEF SetHalt, Resume, Broker, Open
<1>8. CASE FlattenStart
  <2>1. \A r \in Run : pc'[r] \notin {"submit", "record"}
    BY <1>8 DEF FlattenStart, Busy, Working
  <2>2. flat'.at = "cancel" /\ flat'.underHalt = halt /\ halt' = halt
    BY <1>1, <1>8 DEF FlattenStart
  <2> QED
    BY <2>1, <2>2
<1>9. CASE FlattenSettled
  <2>1. flat'.at = "close" /\ flat'.underHalt = flat.underHalt
    BY <1>1, <1>9 DEF FlattenSettled
  <2> QED
    BY <1>9, <2>1 DEF FlattenSettled, Settled, Broker, Open
<1>10. ASSUME NEW s \in Symbol, LiquidationCanceled(s) PROVE HaltHolds'
  BY <1>10 DEF LiquidationCanceled, Open
<1>11. ASSUME NEW s \in Symbol, FlattenClose(s) PROVE HaltHolds'
  <2>1. flat'.underHalt = flat.underHalt /\ flat'.at \in {"close", "failed"} /\ flat.at = "close"
    BY <1>1, <1>11 DEF FlattenClose
  <2> QED
    BY <1>11, <2>1 DEF FlattenClose, Open
<1>12. CASE FlattenConfirm
  <2>1. /\ flat'.underHalt = flat.underHalt /\ flat.at \in {"close", "confirm"}
        /\ flat'.at = "flat" => held = {}
    BY <1>1, <1>12 DEF FlattenConfirm
  <2> QED
    BY <1>12, <2>1 DEF FlattenConfirm, Broker, Open
<1>13. CASE FlattenFails \/ FlattenAgain
  <2>1. flat'.underHalt = flat.underHalt /\ flat'.at \in {"failed", "idle"}
    BY <1>1, <1>13 DEF FlattenFails, FlattenAgain
  <2> QED
    BY <1>13, <2>1 DEF FlattenFails, FlattenAgain, Broker, Open
<1>14. CASE Reconcile
  BY <1>14 DEF Reconcile, Broker, Open
<1>15. CASE UNCHANGED vars
  BY <1>15 DEF vars, Open
<1> QED
  BY <1>2, <1>3, <1>4, <1>5, <1>6, <1>7, <1>8, <1>9, <1>10, <1>11, <1>12, <1>13, <1>14, <1>15
     DEF Next, Market, Flatten

\* With a flatten started when no run is under way, an account reported flat
\* under a halt holds nothing until the halt is lifted.
THEOREM DrainedFlat ==
  ASSUME Drained = TRUE
  PROVE  Spec => []FlatStaysFlat
<1>1. Init => HaltHolds
  BY DEF Init, HaltHolds
<1>2. Books /\ HaltHolds /\ [Next]_vars => HaltHolds'
  BY HaltHoldsKept
<1>3. HaltHolds => FlatStaysFlat
  BY DEF HaltHolds, FlatStaysFlat
<1> QED
  BY BooksAlways, <1>1, <1>2, <1>3, PTL DEF Spec

-----------------------------------------------------------------------------
(* The rows of a run that came to its end *)

\* Every order of a run is in its list until its final row is written; without
\* a known page an order of the list has no row.
Completes(r, at, j, ord, led) ==
  /\ at \in {"submit", "record", "poll"} =>
       \A l \in Leg : ord[<<r, l>>] # "none" => l \in j.placed
  /\ \A l \in j.placed \ j.paged : led[<<r, l>>] = << >>
  /\ at \in {"final", "ok"} =>
       \A l \in Leg \ j.placed : ord[<<r, l>>] # "none" => Len(led[<<r, l>>]) = 1

Complete(r) == Completes(r, pc[r], job[r], order, ledger)

\* A step of one run is none of another's.
LEMMA RunAlone ==
  ASSUME TypeOK, NEW r \in Run, RunStep(r), NEW q \in Run, q # r
  PROVE  /\ pc'[q] = pc[q] /\ job'[q] = job[q]
         /\ \A l \in Leg : order'[<<q, l>>] = order[<<q, l>>] /\ ledger'[<<q, l>>] = ledger[<<q, l>>]
<1>0. /\ pc \in [Run -> {"idle", "ok", "halted", "abort", "dead"} \cup Working]
      /\ job \in [Run -> Job] /\ order \in [Order -> OrderStatus] /\ ledger \in [Order -> Rows]
      /\ \A l \in Leg : <<q, l>> \in Order /\ \A k \in Leg : <<q, l>> # <<r, k>>
  BY DEF TypeOK, Order
<1>1. ASSUME NEW label, pc' = [pc EXCEPT ![r] = label] PROVE pc'[q] = pc[q]
  BY <1>0, <1>1
<1>2. CASE ReadAccount(r) \/ ReadBook(r) \/ AbortEarly(r) \/ Plan(r)
  BY <1>0, <1>2 DEF ReadAccount, ReadBook, AbortEarly, Plan, End, Goto, Broker
<1>3. CASE GateRejects(r) \/ Halted(r) \/ Tripped(r) \/ Passed(r)
  BY <1>0, <1>3 DEF GateRejects, Halted, Tripped, Passed, End, Goto, Broker
<1>4. ASSUME NEW l \in Leg, Place(r, l) \/ PlaceReplyLost(r, l)
      PROVE  /\ pc'[q] = pc[q] /\ job'[q] = job[q] /\ ledger' = ledger
             /\ \A k \in Leg : order'[<<q, k>>] = order[<<q, k>>]
  BY <1>0, <1>4 DEF Place, PlaceReplyLost, End, Goto
<1>5. CASE PlaceFails(r) \/ PollFills(r) \/ PollFails(r)
  BY <1>0, <1>5 DEF PlaceFails, PollFills, PollFails, End, Goto, Broker
<1>6. CASE RecordSubmitted(r)
  <2>1. PICK l \in job[r].due :
          LET row == [ledger EXCEPT ![<<r, l>>] = Append(@, LedgerStatus("open"))]
              done == [job EXCEPT ![r].due = {}]
          IN \/ ledger' = row /\ job' = [done EXCEPT ![r].paged = @ \cup {l}]
             \/ ledger' = ledger /\ job' = done
             \/ ledger' = row /\ job' = done
    BY <1>6 DEF RecordSubmitted
  <2>2. l \in Leg
    BY <1>0 DEF Job
  <2>3. job'[q] = job[q]
    BY <1>0, <2>1
  <2>4. \A k \in Leg : ledger'[<<q, k>>] = ledger[<<q, k>>]
    BY <1>0, <2>1, <2>2
  <2> QED
    BY <1>0, <1>6, <2>3, <2>4 DEF RecordSubmitted, Goto, Broker
<1>7. CASE RecordFinal(r)
  <2>1. PICK l \in job[r].placed :
          /\ ledger' = [ledger EXCEPT ![<<r, l>>] = FinalRows(r, l)] \/ ledger' = ledger
          /\ job' = [job EXCEPT ![r].placed = @ \ {l}]
    BY <1>7 DEF RecordFinal
  <2>2. l \in Leg
    BY <1>0 DEF Job
  <2>3. \A k \in Leg : ledger'[<<q, k>>] = ledger[<<q, k>>]
    BY <1>0, <2>1, <2>2
  <2> QED
    BY <1>0, <1>7, <2>1, <2>3 DEF RecordFinal, Broker
<1>8. CASE Summary(r) \/ Crash(r)
  BY <1>0, <1>8 DEF Summary, Crash, End, Goto, Broker
<1> QED
  BY <1>2, <1>3, <1>4, <1>5, <1>6, <1>7, <1>8 DEF RunStep

\* A run that ends short of its summary promises nothing.
LEMMA NoJobCompletes ==
  ASSUME NEW r \in Run, NEW label \in {"halted", "abort", "dead"}, NEW ord, NEW led
  PROVE  Completes(r, label, NoJob, ord, led)
BY DEF Completes, NoJob

LEMMA OwnComplete ==
  ASSUME Losses \cap {"rowreply", "final"} = {}, Books, NEW r \in Run, Complete(r), RunStep(r)
  PROVE  Complete(r)'
<1>0. /\ pc \in [Run -> {"idle", "ok", "halted", "abort", "dead"} \cup Working]
      /\ job \in [Run -> Job] /\ job[r] \in Job
      /\ order \in [Order -> OrderStatus] /\ ledger \in [Order -> Rows]
      /\ \A l \in Leg : <<r, l>> \in Order
  BY DEF Books, TypeOK, Order
<1>a. Fits(r, pc[r], job[r], order, ledger) /\ Completes(r, pc[r], job[r], order, ledger)
  BY DEF Books, Tracks, Complete
<1>b. SUFFICES Completes(r, pc'[r], job'[r], order', ledger')
  BY DEF Complete
<1>c. ASSUME NEW label \in {"halted", "abort", "dead"}, End(r, label)
      PROVE  Completes(r, pc'[r], job'[r], order', ledger')
  BY <1>0, <1>c, NoJobCompletes DEF End, Goto
<1>d. ASSUME pc'[r] \in {"book", "plan", "check", "submit", "ok"}, pc[r] \in Unstarted,
             order' = order, ledger' = ledger, job'[r].placed = {}
      PROVE  Completes(r, pc'[r], job'[r], order', ledger')
  BY <1>a, <1>d DEF Fits, Completes
<1>1. CASE ReadAccount(r)
  <2>1. job'[r] = [job[r] EXCEPT !.funds = BuyingPower] /\ pc'[r] = "book" /\ pc[r] \in Unstarted
    BY <1>0, <1>1 DEF ReadAccount, Goto, Unstarted
  <2>2. job'[r].placed = {}
    BY <1>0, <1>a, <2>1 DEF Fits, Job
  <2> QED
    BY <1>1, <1>d, <2>1, <2>2 DEF ReadAccount, Broker
<1>2. CASE ReadBook(r)
  <2>1. job'[r] = [job[r] EXCEPT !.held = held, !.count = DayCount] /\ pc'[r] = "plan" /\ pc[r] \in Unstarted
    BY <1>0, <1>2 DEF ReadBook, Goto, Unstarted
  <2>2. job'[r].placed = {}
    BY <1>0, <1>a, <2>1 DEF Fits, Job
  <2> QED
    BY <1>2, <1>d, <2>1, <2>2 DEF ReadBook, Broker
<1>3. CASE Plan(r)
  <2>1. PICK batch : job'[r] = [job[r] EXCEPT !.batch = batch]
    BY <1>0, <1>3 DEF Plan
  <2>2. job'[r].placed = {} /\ pc'[r] = "check" /\ pc[r] \in Unstarted
    BY <1>0, <1>3, <1>a, <2>1 DEF Fits, Job, Plan, Goto, Unstarted
  <2> QED
    BY <1>3, <1>d, <2>2 DEF Plan, Broker
<1>4. CASE AbortEarly(r) \/ GateRejects(r) \/ Halted(r) \/ Tripped(r) \/ PlaceFails(r)
             \/ PollFails(r) \/ Crash(r) \/ \E l \in Leg : PlaceReplyLost(r, l)
  BY <1>4, <1>c DEF AbortEarly, GateRejects, Halted, Tripped, PlaceFails, PollFails, Crash,
       PlaceReplyLost
<1>5. CASE Passed(r)
  <2>1. /\ pc'[r] \in {"ok", "submit"} /\ pc[r] \in Unstarted
        /\ job'[r] = NoJob \/ job'[r] = job[r]
    BY <1>0, <1>5 DEF Passed, End, Goto, Unstarted
  <2>2. job'[r].placed = {}
    BY <1>a, <2>1 DEF Fits, NoJob
  <2> QED
    BY <1>5, <1>d, <2>1, <2>2 DEF Passed, Broker
<1>6. ASSUME NEW l \in Leg, Place(r, l)
      PROVE  Completes(r, pc'[r], job'[r], order', ledger')
  <2>1. /\ pc'[r] = "record" /\ pc[r] = "submit" /\ ledger' = ledger /\ Acceptable(r, l)
        /\ order' = [order EXCEPT ![<<r, l>>] = "open"]
        /\ job'[r].placed = job[r].placed \cup {l} /\ job'[r].paged = job[r].paged
    BY <1>0, <1>6 DEF Place, Goto, Job
  <2>2. ledger[<<r, l>>] = << >>
    BY <2>1, AcceptedFunded
  <2>3. \A k \in Leg : k # l => order'[<<r, k>>] = order[<<r, k>>]
    BY <1>0, <2>1
  <2> QED
    BY <1>a, <2>1, <2>2, <2>3 DEF Completes
<1>7. CASE RecordSubmitted(r)
  <2>1. PICK l \in job[r].due :
          LET row == [ledger EXCEPT ![<<r, l>>] = Append(@, LedgerStatus("open"))]
              done == [job EXCEPT ![r].due = {}]
          IN \/ ledger' = row /\ job' = [done EXCEPT ![r].paged = @ \cup {l}]
             \/ ledger' = ledger /\ job' = done
    BY <1>7 DEF RecordSubmitted
  <2>2. /\ pc'[r] \in {"submit", "poll"} /\ pc[r] = "record" /\ order' = order
    BY <1>0, <1>7 DEF RecordSubmitted, Goto, Broker
  <2>3. CASE ledger' = ledger /\ job' = [job EXCEPT ![r].due = {}]
    <3>1. job'[r].placed = job[r].placed /\ job'[r].paged = job[r].paged
      BY <1>0, <2>3 DEF Job
    <3> QED
      BY <1>a, <2>2, <2>3, <3>1 DEF Completes
  <2>4. CASE /\ ledger' = [ledger EXCEPT ![<<r, l>>] = Append(@, LedgerStatus("open"))]
             /\ job' = [[job EXCEPT ![r].due = {}] EXCEPT ![r].paged = @ \cup {l}]
    <3>1. job'[r].placed = job[r].placed /\ job'[r].paged = job[r].paged \cup {l}
      BY <1>0, <2>4 DEF Job
    <3>2. l \in Leg /\ job[r].placed \subseteq Leg
      BY <1>0 DEF Job
    <3>3. \A k \in Leg : k # l => ledger'[<<r, k>>] = ledger[<<r, k>>]
      BY <1>0, <2>4, <3>2
    <3> QED
      BY <1>a, <2>2, <3>1, <3>2, <3>3 DEF Completes
  <2> QED
    BY <2>1, <2>3, <2>4
<1>8. CASE PollFills(r)
  <2>1. /\ job'[r].placed = job[r].placed /\ job'[r].paged = job[r].paged
        /\ pc[r] = "poll" /\ pc'[r] = "final" /\ order' = order /\ ledger' = ledger
    BY <1>0, <1>8 DEF PollFills, Goto, Broker, Job
  <2> QED
    BY <1>a, <2>1 DEF Completes
<1>9. CASE RecordFinal(r)
  <2>1. PICK l \in job[r].placed :
          /\ ledger' = [ledger EXCEPT ![<<r, l>>] = FinalRows(r, l)]
          /\ job' = [job EXCEPT ![r].placed = @ \ {l}]
    BY <1>9 DEF RecordFinal
  <2>2. /\ job'[r].placed = job[r].placed \ {l} /\ job'[r].paged = job[r].paged
        /\ pc[r] = "final" /\ pc' = pc /\ order' = order
    BY <1>0, <1>9, <2>1 DEF RecordFinal, Broker, Job
  <2>3. l \in Leg /\ <<r, l>> \in Order
    BY FinalRowsTyped
  <2>4. \A k \in Leg : k # l => ledger'[<<r, k>>] = ledger[<<r, k>>]
    BY <1>0, <2>1, <2>3
  <2>5. Len(ledger'[<<r, l>>]) = 1
    <3>1. l \in job[r].paged \/ ledger[<<r, l>>] = << >>
      BY <1>a DEF Completes
    <3>2. FinalRows(r, l) = <<LedgerStatus(job[r].seen[l])>>
      BY <3>1, FinalRowsTyped
    <3> QED
      BY <1>0, <2>1, <2>3, <3>2, RowOps
  <2>6. job[r].placed \subseteq Leg
    BY <1>0 DEF Job
  <2> QED
    BY <1>a, <2>2, <2>3, <2>4, <2>5, <2>6 DEF Completes
<1>10. CASE Summary(r)
  <2>1. /\ pc[r] = "final" /\ pc'[r] = "ok" /\ order' = order /\ ledger' = ledger
        /\ job[r].placed = {} /\ job'[r].placed = {}
    BY <1>0, <1>10 DEF Summary, End, Goto, Broker, NoJob
  <2> QED
    BY <1>a, <2>1 DEF Completes
<1> QED
  BY <1>1, <1>2, <1>3, <1>4, <1>5, <1>6, <1>7, <1>8, <1>9, <1>10 DEF RunStep

Outside == Market \/ SetHalt \/ Resume \/ Flatten \/ Reconcile \/ UNCHANGED vars

\* What is not a step of a run leaves the runs alone, makes no order and drops
\* none, and keeps the number of rows of each.
OutsideKeeps ==
  /\ UNCHANGED <<pc, job>>
  /\ order' \in [Order -> OrderStatus]
  /\ \A o \in Order : order'[o] = "none" <=> order[o] = "none"
  /\ \A o \in Order : order'[o] = "open" => order[o] = "open"
  /\ \A o \in Order : \/ ledger'[o] = ledger[o]
                      \/ ledger[o] # << >> /\ Len(ledger'[o]) = Len(ledger[o])

LEMMA OutsideStep ==
  ASSUME Books, Outside
  PROVE  OutsideKeeps
<1>0. order \in [Order -> OrderStatus]
  BY DEF Books, TypeOK
<1>1. ASSUME UNCHANGED <<pc, job, order, ledger>>
      PROVE  OutsideKeeps
  BY <1>0, <1>1 DEF OutsideKeeps
<1>2. CASE Tick
  <2>1. CASE order' = order
    BY <1>1, <1>2, <2>1 DEF Tick
  <2>2. CASE order' = [o \in Order |-> IF order[o] = "open" THEN "expired" ELSE order[o]]
    <3>1. order' \in [Order -> OrderStatus]
      BY <1>0, <2>2 DEF OrderStatus
    <3> QED
      BY <1>2, <2>2, <3>1 DEF Tick, OutsideKeeps
  <2> QED
    BY <1>2, <2>1, <2>2 DEF Tick
<1>3. ASSUME NEW o \in Order, Fill(o) PROVE OutsideKeeps
  BY <1>0, <1>3 DEF Fill, OutsideKeeps, OrderStatus
<1>4. ASSUME NEW o \in Order, CancelTakesEffect(o) PROVE OutsideKeeps
  BY <1>0, <1>4 DEF CancelTakesEffect, OutsideKeeps, OrderStatus
<1>5. CASE \E s \in Symbol : FillLiquidation(s)
  BY <1>1, <1>5 DEF FillLiquidation
<1>6. CASE SetHalt \/ Resume
  BY <1>1, <1>6 DEF SetHalt, Resume, Broker
<1>7. CASE Flatten
  BY <1>1, <1>7 DEF Flatten, FlattenStart, FlattenSettled, LiquidationCanceled, FlattenClose,
       FlattenConfirm, FlattenFails, FlattenAgain, Broker
<1>8. CASE Reconcile
  <2>1. UNCHANGED <<pc, job, order>>
    BY <1>8 DEF Reconcile, Broker
  <2> QED
    BY <1>0, <1>8, <2>1, ReconcileRows DEF OutsideKeeps
<1>9. CASE UNCHANGED vars
  BY <1>1, <1>9 DEF vars
<1> QED
  BY <1>2, <1>3, <1>4, <1>5, <1>6, <1>7, <1>8, <1>9 DEF Outside, Market

LEMMA CompleteKept ==
  ASSUME Losses \cap {"rowreply", "final"} = {}, Books, \A r \in Run : Complete(r), [Next]_vars
  PROVE  \A r \in Run : Complete(r)'
<1>1. SUFFICES ASSUME NEW q \in Run PROVE Complete(q)'
  OBVIOUS
<1>2. /\ Completes(q, pc[q], job[q], order, ledger) /\ job[q].placed \subseteq Leg
      /\ \A l \in Leg : <<q, l>> \in Order
  BY DEF Complete, Books, TypeOK, Job, Order
<1>3. ASSUME NEW r \in Run, RunStep(r) PROVE Complete(q)'
  <2>1. CASE q = r
    BY <1>3, <2>1, OwnComplete
  <2>2. CASE q # r
    <3>1. /\ pc'[q] = pc[q] /\ job'[q] = job[q]
          /\ \A l \in Leg : order'[<<q, l>>] = order[<<q, l>>] /\ ledger'[<<q, l>>] = ledger[<<q, l>>]
      BY <1>3, <2>2, RunAlone DEF Books
    <3>2. Completes(q, pc[q], job[q], order', ledger')
      BY <1>2, <3>1 DEF Completes
    <3> QED
      BY <3>1, <3>2 DEF Complete
  <2> QED
    BY <2>1, <2>2
<1>4. CASE Outside
  <2>1. OutsideKeeps
    BY <1>4, OutsideStep
  <2>2. Completes(q, pc[q], job[q], order', ledger')
    BY <1>2, <2>1 DEF Completes, OutsideKeeps
  <2> QED
    BY <2>1, <2>2 DEF Complete, OutsideKeeps
<1> QED
  BY <1>3, <1>4 DEF Next, Outside

\* Where neither the reply to a row's creation nor the last write is lost, a run
\* that came to its end has left one row for every order it made live.
THEOREM RowsComplete ==
  ASSUME Losses \cap {"rowreply", "final"} = {}
  PROVE  Spec => []OneCompleteRow
<1>1. Init => \A r \in Run : Complete(r)
  <2> SUFFICES ASSUME Init, NEW r \in Run PROVE Complete(r)
    OBVIOUS
  <2>1. pc[r] = "idle" /\ job[r].placed = {}
    BY DEF Init, NoJob
  <2> QED
    BY <2>1 DEF Complete, Completes
<1>2. Books /\ (\A r \in Run : Complete(r)) /\ [Next]_vars => (\A r \in Run : Complete(r))'
  BY CompleteKept
<1>3. Books /\ (\A r \in Run : Complete(r)) => OneCompleteRow
  <2> SUFFICES ASSUME Books, \A r \in Run : Complete(r), NEW o \in Order,
                      Live(o), pc[o[1]] = "ok"
               PROVE  Len(ledger[o]) = 1
    BY DEF OneCompleteRow
  <2>1. PICK r \in Run, l \in Leg : o = <<r, l>>
    BY DEF Order
  <2>2. job[r] = NoJob
    BY <2>1 DEF Books, Tracks, Fits, Over
  <2> QED
    BY <2>1, <2>2 DEF Complete, Completes, Live, NoJob
<1> QED
  BY BooksAlways, <1>1, <1>2, <1>3, PTL DEF Spec

-----------------------------------------------------------------------------
(* The limits of a day, when a rerun waits for the run before it *)

LiveOrders == {o \in Order : Live(o)}
BuysOf(batch) == {l \in batch : l[1] = "buy"}

SoleRun == \A p \in Run : \A q \in Run : Busy(p) /\ Busy(q) => p = q

\* What a run has read still allows what it has planned, and what it has planned
\* is still allowed.
Allows(at, j, live, power) ==
  /\ at \in {"book", "plan"} => j.funds <= power
  /\ at = "plan" => live <= j.count
  /\ at \in {"check", "submit", "record"} => /\ live + Cardinality(j.batch) <= MaxDayOrders
                                             /\ Cardinality(BuysOf(j.batch)) <= power

Within(r) == Allows(pc[r], job[r], Cardinality(LiveOrders), BuyingPower)

Limits == SoleRun /\ DayOrdersBounded /\ \A r \in Run : Within(r)

LEMMA LiveCounted == LiveOrders \in SUBSET Order /\ Cardinality(LiveOrders) \in Nat
<1>1. LiveOrders \in SUBSET Order
  BY DEF LiveOrders
<1> QED
  BY <1>1, Counted

LEMMA BatchCounted ==
  ASSUME NEW batch \in SUBSET Leg
  PROVE  /\ IsFiniteSet(batch) /\ Cardinality(batch) \in Nat
         /\ IsFiniteSet(BuysOf(batch)) /\ Cardinality(BuysOf(batch)) \in Nat
         /\ \A l \in batch : /\ Cardinality(batch \ {l}) = Cardinality(batch) - 1
                             /\ l[1] = "buy" =>
                                  Cardinality(BuysOf(batch \ {l})) = Cardinality(BuysOf(batch)) - 1
                             /\ l[1] # "buy" => BuysOf(batch \ {l}) = BuysOf(batch)
<1>1. IsFiniteSet(batch)
  BY OrdersFinite, FS_Subset
<1>2. BuysOf(batch) \in SUBSET batch
  BY DEF BuysOf
<1>3. IsFiniteSet(BuysOf(batch))
  BY <1>1, <1>2, FS_Subset
<1>4. ASSUME NEW l \in batch
      PROVE  /\ Cardinality(batch \ {l}) = Cardinality(batch) - 1
             /\ l[1] = "buy" => Cardinality(BuysOf(batch \ {l})) = Cardinality(BuysOf(batch)) - 1
             /\ l[1] # "buy" => BuysOf(batch \ {l}) = BuysOf(batch)
  <2>1. Cardinality(batch \ {l}) = Cardinality(batch) - 1
    BY <1>1, FS_RemoveElement
  <2>2. CASE l[1] = "buy"
    <3>1. BuysOf(batch \ {l}) = BuysOf(batch) \ {l} /\ l \in BuysOf(batch)
      BY <2>2 DEF BuysOf
    <3> QED
      BY <1>3, <2>1, <2>2, <3>1, FS_RemoveElement
  <2>3. CASE l[1] # "buy"
    <3>1. BuysOf(batch \ {l}) = BuysOf(batch)
      BY <2>3 DEF BuysOf
    <3> QED
      BY <2>1, <2>3, <3>1
  <2> QED
    BY <2>2, <2>3
<1> QED
  BY <1>1, <1>3, <1>4, FS_CardinalityType

\* No other run is under way when one takes a step.
LEMMA OthersRest ==
  ASSUME Overlap = FALSE, TypeOK, SoleRun, NEW r \in Run, RunStep(r)
  PROVE  \A q \in Run : q # r => pc'[q] = pc[q] /\ pc[q] \notin Working
<1> SUFFICES ASSUME NEW q \in Run, q # r PROVE pc'[q] = pc[q] /\ pc[q] \notin Working
  OBVIOUS
<1>1. pc'[q] = pc[q]
  BY RunAlone
<1>2. CASE Busy(r)
  BY <1>1, <1>2 DEF SoleRun, Busy
<1>3. CASE ~Busy(r)
  <2>1. ReadAccount(r)
    BY <1>3 DEF RunStep, ReadAccount, ReadBook, AbortEarly, Plan, GateRejects, Halted, Tripped,
         Passed, Place, PlaceReplyLost, PlaceFails, RecordSubmitted, PollFills, PollFails,
         RecordFinal, Summary, Crash, Busy, Working
  <2> QED
    BY <1>1, <2>1 DEF ReadAccount, Busy
<1> QED
  BY <1>2, <1>3

\* A run that ends, or is past its batch, is bound by nothing.
LEMMA EndAllows ==
  ASSUME NEW label \in Over \cup {"poll", "final"}, NEW j, NEW live, NEW power
  PROVE  Allows(label, j, live, power)
BY DEF Allows, Over

\* A new order takes the place of one of the batch, and its buying power.
LEMMA PlacedAllows ==
  ASSUME Books, NEW r \in Run, NEW l \in job[r].batch, Acceptable(r, l),
         order' = [order EXCEPT ![<<r, l>>] = "open"], cash' = cash,
         Allows("submit", job[r], Cardinality(LiveOrders), BuyingPower)
  PROVE  /\ Cardinality(LiveOrders') + Cardinality(job[r].batch \ {l}) <= MaxDayOrders
         /\ Cardinality(BuysOf(job[r].batch \ {l})) <= BuyingPower'
         /\ Cardinality(LiveOrders') <= MaxDayOrders
<1> DEFINE batch == job[r].batch
<1>1. batch \in SUBSET Leg /\ l \in Leg /\ order \in [Order -> OrderStatus] /\ cash \in Nat
  BY DEF Books, TypeOK, Job
<1>2. <<r, l>> \in Order /\ ~Live(<<r, l>>)
  BY <1>1, AcceptedFunded
<1>3. LiveOrders' = LiveOrders \cup {<<r, l>>} /\ <<r, l>> \notin LiveOrders
  BY <1>1, <1>2 DEF LiveOrders, Live
<1>4. Cardinality(LiveOrders') = Cardinality(LiveOrders) + 1 /\ Cardinality(LiveOrders) \in Nat
  BY <1>3, LiveCounted, Counted
<1>5. /\ Cardinality(LiveOrders) + Cardinality(batch) <= MaxDayOrders
      /\ Cardinality(BuysOf(batch)) <= BuyingPower
  BY DEF Allows
<1> HIDE DEF batch
<1>6. /\ Cardinality(batch) \in Nat /\ Cardinality(BuysOf(batch)) \in Nat
      /\ Cardinality(batch \ {l}) = Cardinality(batch) - 1
      /\ Cardinality(batch \ {l}) \in Nat
      /\ l[1] = "buy" => Cardinality(BuysOf(batch \ {l})) = Cardinality(BuysOf(batch)) - 1
      /\ l[1] # "buy" => BuysOf(batch \ {l}) = BuysOf(batch)
  <2>1. l \in batch /\ batch \ {l} \in SUBSET Leg
    BY <1>1 DEF batch
  <2> QED
    BY <1>1, <2>1, BatchCounted
<1>7. MaxDayOrders \in Nat
  BY LimitAssumption
<1>8. OpenBuys \in SUBSET Order /\ Cardinality(OpenBuys) \in Nat
  BY <1>1, FewerOpen
<1>9. Cardinality(BuysOf(batch \ {l})) <= BuyingPower'
  <2>1. CASE l[1] = "buy"
    <3>1. OpenBuys' = OpenBuys \cup {<<r, l>>} /\ <<r, l>> \notin OpenBuys
      BY <1>1, <1>2, <2>1 DEF OpenBuys, Open, Live
    <3>2. Cardinality(OpenBuys') = Cardinality(OpenBuys) + 1
      BY <1>8, <3>1, Counted
    <3> QED
      BY <1>1, <1>5, <1>6, <1>8, <2>1, <3>2 DEF BuyingPower
  <2>2. CASE l[1] # "buy"
    <3>1. OpenBuys' = OpenBuys
      BY <1>1, <1>2, <2>2 DEF OpenBuys, Open, Live
    <3> QED
      BY <1>5, <1>6, <2>2, <3>1 DEF BuyingPower
  <2> QED
    BY <2>1, <2>2
<1>10. /\ Cardinality(LiveOrders') + Cardinality(batch \ {l}) <= MaxDayOrders
       /\ Cardinality(LiveOrders') <= MaxDayOrders
  BY <1>4, <1>5, <1>6, <1>7
<1> QED
  BY <1>9, <1>10 DEF batch

\* A batch that passed the gate fits what the run has read.
LEMMA PlanAllows ==
  ASSUME Books, NEW r \in Run, Allows("plan", job[r], Cardinality(LiveOrders), BuyingPower),
         NEW batch \in Batches(r), WithinLimits(r, batch)
  PROVE  /\ Cardinality(LiveOrders) + Cardinality(batch) <= MaxDayOrders
         /\ Cardinality(BuysOf(batch)) <= BuyingPower
<1>1. job[r] \in Job /\ BuyingPower \in Nat
  BY FundsTyped DEF Books, TypeOK
<1>a. PICK want \in SUBSET Symbol :
        \E kept \in Affordable({"buy"} \X (want \ job[r].held), job[r].funds) :
          batch = ({"sell"} \X (job[r].held \ want)) \cup kept
  <2>1. batch \in UNION {{ ({"sell"} \X (job[r].held \ want)) \cup kept :
                            kept \in Affordable({"buy"} \X (want \ job[r].held), job[r].funds) } :
                          want \in SUBSET Symbol}
    BY Zenon DEF Batches
  <2> QED
    BY <2>1
<1>2. PICK kept \in SUBSET ({"buy"} \X (want \ job[r].held)) :
        /\ batch = ({"sell"} \X (job[r].held \ want)) \cup kept
        /\ Cardinality(kept) <= job[r].funds
  BY <1>a DEF Affordable
<1>3. batch \in SUBSET Leg
  BY <1>1, <1>2 DEF Leg, Job
<1>4. BuysOf(batch) = kept
  BY <1>2 DEF BuysOf
<1>5. Cardinality(batch) \in Nat /\ Cardinality(kept) \in Nat
  BY <1>3, <1>4, BatchCounted
<1>6. Cardinality(BuysOf(batch)) <= BuyingPower
  BY <1>1, <1>2, <1>4, <1>5 DEF Allows, Job
<1>7. Cardinality(LiveOrders) + Cardinality(batch) <= MaxDayOrders
  <2>1. job[r].count + Cardinality(batch) <= MaxDayOrders /\ Cardinality(LiveOrders) <= job[r].count
    BY DEF WithinLimits, Allows
  <2> QED
    BY <1>1, <1>5, <2>1, LiveCounted, LimitAssumption DEF Job
<1> QED
  BY <1>6, <1>7

\* The step of a run keeps its own promise, and the day's.
LEMMA OwnWithin ==
  ASSUME Books, DayOrdersBounded, NEW r \in Run, Within(r), RunStep(r)
  PROVE  /\ Allows(pc'[r], job'[r], Cardinality(LiveOrders'), BuyingPower')
         /\ Cardinality(LiveOrders') <= MaxDayOrders
<1> DEFINE Kept == /\ Allows(pc'[r], job'[r], Cardinality(LiveOrders'), BuyingPower')
                   /\ Cardinality(LiveOrders') <= MaxDayOrders
<1>0. /\ pc \in [Run -> {"idle", "ok", "halted", "abort", "dead"} \cup Working]
      /\ job \in [Run -> Job] /\ job[r] \in Job /\ BuyingPower \in Nat /\ DayCount \in Nat
      /\ Cardinality(LiveOrders) \in Nat /\ Cardinality(LiveOrders) <= MaxDayOrders
  BY FundsTyped, LiveCounted DEF Books, TypeOK, DayOrdersBounded, LiveOrders
<1>a. Allows(pc[r], job[r], Cardinality(LiveOrders), BuyingPower)
  BY DEF Within
<1>b. ASSUME order' = order, cash' = cash
      PROVE  LiveOrders' = LiveOrders /\ BuyingPower' = BuyingPower
  BY <1>b DEF LiveOrders, Live, BuyingPower, OpenBuys, Open
<1>c. ASSUME NEW label \in Over, End(r, label), order' = order, cash' = cash PROVE Kept
  <2>1. pc'[r] = label
    BY <1>0, <1>c DEF End, Goto
  <2> QED
    BY <1>0, <1>b, <1>c, <2>1, EndAllows
<1>1. CASE ReadAccount(r)
  <2>1. /\ pc'[r] = "book" /\ job'[r].funds = BuyingPower /\ order' = order /\ cash' = cash
    BY <1>0, <1>1 DEF ReadAccount, Goto, Broker, Job
  <2> QED
    BY <1>0, <1>b, <2>1 DEF Allows
<1>2. CASE ReadBook(r)
  <2>1. /\ pc[r] = "book" /\ pc'[r] = "plan" /\ job'[r].funds = job[r].funds
        /\ job'[r].count = DayCount /\ order' = order /\ cash' = cash
    BY <1>0, <1>2 DEF ReadBook, Goto, Broker, Job
  <2>2. Cardinality(LiveOrders) <= DayCount
    <3>1. Cardinality(liq.asked) \in Nat
      <4>1. liq.asked \in SUBSET Symbol
        BY DEF Books, TypeOK
      <4> QED
        BY <4>1, FiniteAssumption, FS_Subset, FS_CardinalityType
    <3> QED
      BY <1>0, <3>1 DEF DayCount, LiveOrders
  <2> QED
    BY <1>0, <1>a, <1>b, <2>1, <2>2 DEF Allows
<1>3. CASE AbortEarly(r) \/ GateRejects(r) \/ Halted(r) \/ Tripped(r)
  BY <1>3, <1>c DEF AbortEarly, GateRejects, Halted, Tripped, Over, Broker
<1>4. CASE Plan(r)
  <2>1. PICK batch \in Batches(r) : WithinLimits(r, batch) /\ job' = [job EXCEPT ![r].batch = batch]
    BY <1>4 DEF Plan
  <2>2. pc[r] = "plan" /\ pc'[r] = "check" /\ order' = order /\ cash' = cash
    BY <1>0, <1>4 DEF Plan, Goto, Broker
  <2>3. job'[r].batch = batch
    BY <1>0, <2>1 DEF Job
  <2>4. /\ Cardinality(LiveOrders) + Cardinality(batch) <= MaxDayOrders
        /\ Cardinality(BuysOf(batch)) <= BuyingPower
    BY <1>a, <2>1, <2>2, PlanAllows
  <2> QED
    BY <1>0, <1>b, <2>2, <2>3, <2>4 DEF Allows
<1>5. CASE Passed(r)
  <2>1. order' = order /\ cash' = cash /\ pc[r] = "check"
    BY <1>5 DEF Passed, Broker
  <2>2. CASE End(r, "ok")
    BY <1>c, <2>1, <2>2 DEF Over
  <2>3. CASE Goto(r, "submit") /\ job' = job
    <3>1. pc'[r] = "submit" /\ job'[r] = job[r]
      BY <1>0, <2>3 DEF Goto
    <3> QED
      BY <1>0, <1>a, <1>b, <2>1, <3>1 DEF Allows
  <2> QED
    BY <1>5, <2>2, <2>3 DEF Passed
<1>6. ASSUME NEW l \in Leg, Place(r, l) PROVE Kept
  <2>1. /\ pc[r] = "submit" /\ pc'[r] = "record" /\ Acceptable(r, l) /\ cash' = cash
        /\ order' = [order EXCEPT ![<<r, l>>] = "open"] /\ job'[r].batch = job[r].batch \ {l}
    BY <1>0, <1>6 DEF Place, Goto, Job
  <2>2. l \in job[r].batch
    BY <1>6 DEF Place, NextLegs
  <2>3. /\ Cardinality(LiveOrders') + Cardinality(job[r].batch \ {l}) <= MaxDayOrders
        /\ Cardinality(BuysOf(job[r].batch \ {l})) <= BuyingPower'
        /\ Cardinality(LiveOrders') <= MaxDayOrders
    BY <1>a, <2>1, <2>2, PlacedAllows
  <2> QED
    BY <2>1, <2>3 DEF Allows
<1>7. ASSUME NEW l \in Leg, PlaceReplyLost(r, l) PROVE Kept
  <2>1. /\ pc[r] = "submit" /\ pc'[r] = "abort" /\ Acceptable(r, l) /\ cash' = cash
        /\ order' = [order EXCEPT ![<<r, l>>] = "open"]
    BY <1>0, <1>7 DEF PlaceReplyLost, End, Goto
  <2>2. l \in job[r].batch
    BY <1>7 DEF PlaceReplyLost, NextLegs
  <2>3. Cardinality(LiveOrders') <= MaxDayOrders
    BY <1>a, <2>1, <2>2, PlacedAllows
  <2> QED
    BY <2>1, <2>3 DEF Allows
<1>8. CASE PlaceFails(r) \/ PollFails(r) \/ Summary(r)
  BY <1>8, <1>c DEF PlaceFails, PollFails, Summary, Over, Broker
<1>9. CASE Crash(r)
  BY <1>9, <1>c DEF Crash, Over, Broker
<1>10. CASE RecordSubmitted(r)
  <2>1. /\ pc[r] = "record" /\ pc'[r] \in {"submit", "poll"} /\ order' = order /\ cash' = cash
    BY <1>0, <1>10 DEF RecordSubmitted, Goto, Broker
  <2>2. job'[r].batch = job[r].batch
    <3>1. PICK l \in job[r].due :
            LET row == [ledger EXCEPT ![<<r, l>>] = Append(@, LedgerStatus("open"))]
                done == [job EXCEPT ![r].due = {}]
            IN \/ ledger' = row /\ job' = [done EXCEPT ![r].paged = @ \cup {l}]
               \/ ledger' = ledger /\ job' = done
               \/ ledger' = row /\ job' = done
      BY <1>10 DEF RecordSubmitted
    <3> QED
      BY <1>0, <3>1 DEF Job
  <2> QED
    BY <1>0, <1>a, <1>b, <2>1, <2>2 DEF Allows
<1>11. CASE PollFills(r)
  <2>1. pc'[r] = "final" /\ order' = order /\ cash' = cash
    BY <1>0, <1>11 DEF PollFills, Goto, Broker
  <2> QED
    BY <1>0, <1>b, <2>1, EndAllows
<1>12. CASE RecordFinal(r)
  <2>1. pc'[r] = "final" /\ order' = order /\ cash' = cash
    BY <1>12 DEF RecordFinal, Broker
  <2> QED
    BY <1>0, <1>b, <2>1, EndAllows
<1> QED
  BY <1>1, <1>2, <1>3, <1>4, <1>5, <1>6, <1>7, <1>8, <1>9, <1>10, <1>11, <1>12 DEF RunStep

\* What the market, the operator and the reconciliation do takes no buying power:
\* a buy that fills was paid for when it was placed.
LEMMA OutsideFunds ==
  ASSUME Books, Outside
  PROVE  /\ BuyingPower' >= BuyingPower /\ BuyingPower \in Nat /\ BuyingPower' \in Int
         /\ LiveOrders' = LiveOrders
<1>0. /\ order \in [Order -> OrderStatus] /\ cash \in Nat /\ Cardinality(OpenBuys) \in Nat
      /\ OpenBuys \in SUBSET Order
  BY FewerOpen DEF Books, TypeOK
<1>1. OutsideKeeps
  BY OutsideStep
<1>2. LiveOrders' = LiveOrders
  BY <1>1 DEF OutsideKeeps, LiveOrders, Live
<1>3. Cardinality(OpenBuys') \in Nat /\ Cardinality(OpenBuys') <= Cardinality(OpenBuys)
  <2>1. OpenBuys' = Buying(order')
    BY DEF OpenBuys, Open, Buying
  <2> QED
    BY <1>1, <2>1, FewerOpen DEF OutsideKeeps
<1>4. CASE cash' = cash \/ cash' = cash + 1
  BY <1>0, <1>2, <1>3, <1>4, FundsTyped DEF BuyingPower
<1>5. ASSUME NEW o \in Order, Fill(o), o[2][1] = "buy"
      PROVE  cash' = cash - 1 /\ Cardinality(OpenBuys') = Cardinality(OpenBuys) - 1
  <2>1. OpenBuys' = OpenBuys \ {o} /\ o \in OpenBuys
    BY <1>0, <1>5 DEF Fill, OpenBuys, Open
  <2> QED
    BY <1>0, <1>5, <2>1, Counted DEF Fill
<1>6. \/ cash' = cash \/ cash' = cash + 1
      \/ \E o \in Order : Fill(o) /\ o[2][1] = "buy"
  BY DEF Outside, Market, Tick, Fill, CancelTakesEffect, FillLiquidation, SetHalt, Resume,
       Flatten, FlattenStart, FlattenSettled, LiquidationCanceled, FlattenClose, FlattenConfirm,
       FlattenFails, FlattenAgain, Reconcile, Broker, vars
<1>7. CASE \E o \in Order : Fill(o) /\ o[2][1] = "buy"
  <2>1. cash' = cash - 1 /\ Cardinality(OpenBuys') = Cardinality(OpenBuys) - 1
    BY <1>5, <1>7
  <2> QED
    BY <1>0, <1>2, <1>3, <2>1, FundsTyped DEF BuyingPower
<1> QED
  BY <1>4, <1>6, <1>7

LEMMA LimitsKept ==
  ASSUME Overlap = FALSE, Books, Limits, [Next]_vars
  PROVE  Limits'
<1>1. ASSUME NEW r \in Run, RunStep(r) PROVE Limits'
  <2>1. \A q \in Run : q # r => pc'[q] = pc[q] /\ pc[q] \notin Working
    BY <1>1, OthersRest DEF Books, Limits
  <2>2. /\ Allows(pc'[r], job'[r], Cardinality(LiveOrders'), BuyingPower')
        /\ Cardinality(LiveOrders') <= MaxDayOrders
    BY <1>1, OwnWithin DEF Limits
  <2>3. SoleRun'
    BY <2>1 DEF SoleRun, Busy
  <2>4. DayOrdersBounded'
    BY <2>2 DEF DayOrdersBounded, LiveOrders
  <2>5. ASSUME NEW q \in Run PROVE Within(q)'
    <3>1. CASE q = r
      BY <2>2, <3>1 DEF Within
    <3>2. CASE q # r
      <4>1. pc'[q] \notin Working
        BY <2>1, <3>2
      <4> QED
        BY <4>1 DEF Within, Allows, Working
    <3> QED
      BY <3>1, <3>2
  <2> QED
    BY <2>3, <2>4, <2>5 DEF Limits
<1>2. CASE Outside
  <2>1. UNCHANGED <<pc, job>>
    BY <1>2, OutsideStep DEF OutsideKeeps
  <2>2. /\ BuyingPower' >= BuyingPower /\ BuyingPower \in Nat /\ BuyingPower' \in Int
        /\ LiveOrders' = LiveOrders
    BY <1>2, OutsideFunds
  <2>3. SoleRun'
    BY <2>1 DEF Limits, SoleRun, Busy
  <2>4. DayOrdersBounded'
    BY <2>2 DEF Limits, DayOrdersBounded, LiveOrders
  <2>5. ASSUME NEW q \in Run PROVE Within(q)'
    <3>1. Allows(pc[q], job[q], Cardinality(LiveOrders), BuyingPower)
      BY DEF Limits, Within
    <3>2. job[q].funds \in Nat /\ Cardinality(BuysOf(job[q].batch)) \in Nat
      <4>1. job[q].funds \in Nat /\ job[q].batch \in SUBSET Leg
        BY DEF Books, TypeOK, Job
      <4> QED
        BY <4>1, BatchCounted
    <3>3. Allows(pc[q], job[q], Cardinality(LiveOrders), BuyingPower')
      BY <2>2, <3>1, <3>2 DEF Allows
    <3> QED
      BY <2>1, <2>2, <3>3 DEF Within
  <2> QED
    BY <2>3, <2>4, <2>5 DEF Limits
<1> QED
  BY <1>1, <1>2 DEF Next, Outside

LEMMA LimitsInit == Init => Limits
<1> SUFFICES ASSUME Init PROVE Limits
  OBVIOUS
<1>1. \A r \in Run : pc[r] = "idle"
  BY DEF Init
<1>2. SoleRun /\ \A r \in Run : Within(r)
  BY <1>1 DEF SoleRun, Busy, Working, Within, Allows
<1>3. DayOrdersBounded
  <2>1. {o \in Order : Live(o)} = {}
    BY DEF Init, Live
  <2> QED
    BY <2>1, FS_EmptySet, LimitAssumption DEF DayOrdersBounded
<1> QED
  BY <1>2, <1>3 DEF Limits

\* When every run of the day waits for the one before it, their orders together
\* stay within max_day_orders, whatever is lost between them.
THEOREM DayBounded ==
  ASSUME Overlap = FALSE
  PROVE  Spec => []DayOrdersBounded
<1>1. Books /\ Limits /\ [Next]_vars => Limits'
  BY LimitsKept
<1>2. Limits => DayOrdersBounded
  BY DEF Limits
<1> QED
  BY BooksAlways, LimitsInit, <1>1, <1>2, PTL DEF Spec

\* And the account can pay for what is left of a batch at every order of it,
\* whatever fills or is cancelled meanwhile.
THEOREM FundsSuffice ==
  ASSUME Overlap = FALSE
  PROVE  Spec => []BatchFunded
<1>1. Books /\ Limits /\ [Next]_vars => Limits'
  BY LimitsKept
<1>2. Limits => BatchFunded
  BY DEF Limits, Within, Allows, BatchFunded, BuysOf
<1> QED
  BY BooksAlways, LimitsInit, <1>1, <1>2, PTL DEF Spec

-----------------------------------------------------------------------------
(* The amounts of a rerun (OrderMath) *)

\* n lies between nothing and m, on either side of zero.
Between(n, m) == (0 <= n /\ n <= m) \/ (m <= n /\ n <= 0)

\* The quantity of a symbol that a run wants.
Goal(targets, equity, prices, s) ==
  IF s \in targets THEN Share * TargetShares(targets, equity, prices[s]) ELSE 0

\* A quantity in whole shares, rounded towards zero.
LEMMA WholeShares ==
  ASSUME NEW m \in Nat
  PROVE  /\ Share * (m \div Share) \in Nat
         /\ Share * (m \div Share) <= m /\ m < Share * (m \div Share) + Share
         /\ m < Share => Share * (m \div Share) = 0
<1>1. Share \in Nat \ {0}
  BY OrderMathAssumption
<1>2. m \div Share \in Nat
  BY <1>1, SMT
<1>3. Share * (m \div Share) <= m /\ m < Share * (m \div Share) + Share
  BY <1>1, SMT
<1>4. m < Share => m \div Share = 0
  BY <1>1, SMT
<1> QED
  BY <1>1, <1>2, <1>3, <1>4

LEMMA GoalType ==
  ASSUME NEW targets, IsFiniteSet(targets), NEW equity \in Int,
         NEW prices, NEW s, prices[s] \in Nat \ {0}
  PROVE  Goal(targets, equity, prices, s) \in Int
<1>1. CASE s \in targets
  <2>1. Cardinality(targets) \in Nat /\ Cardinality(targets) # 0
    BY <1>1, FS_CardinalityType, FS_EmptySet
  <2>2. Cardinality(targets) * prices[s] \in Nat \ {0}
    BY <2>1
  <2>3. equity \div (Cardinality(targets) * prices[s]) \in Int
    BY <2>2
  <2>4. Share \in Int
    BY OrderMathAssumption
  <2> QED
    BY <1>1, <2>3, <2>4 DEF Goal, TargetShares
<1> QED
  BY <1>1 DEF Goal

\* A run after orders that filled, did not fill, or filled in part orders what is
\* left of the way to the target and nothing past it (compute_orders): after a
\* fill in full nothing, after any part of it, fractions included, no more than
\* the rest.  This holds for every book, short ones included, every list of
\* targets and every price.
THEOREM RerunTradesTheRest ==
  ASSUME NEW Sym, NEW targets, IsFiniteSet(targets), NEW equity \in Int,
         NEW prices \in [Sym -> Nat \ {0}],
         NEW book \in [Sym -> Int], NEW after \in [Sym -> Int],
         NEW s \in Sym,
         Between(after[s] - book[s], Trade(book, targets, equity, prices, s))
  PROVE  LET filled == after[s] - book[s]
             rest == Trade(after, targets, equity, prices, s)
         IN  /\ Between(filled + rest, Goal(targets, equity, prices, s) - book[s])
             /\ filled = Trade(book, targets, equity, prices, s) => rest = 0
<1> DEFINE goal == Goal(targets, equity, prices, s)
           delta == goal - book[s]
           left == goal - after[s]
           whole == Share * (Magnitude(delta) \div Share)
           rest == Share * (Magnitude(left) \div Share)
<1>1. goal \in Int /\ book[s] \in Int /\ after[s] \in Int
  BY GoalType
<1>2. CASE s \notin targets
  <2>1. goal = 0 /\ Trade(book, targets, equity, prices, s) = -book[s]
        /\ Trade(after, targets, equity, prices, s) = -after[s]
    BY <1>2 DEF Goal, Trade
  <2> QED
    BY <1>1, <2>1 DEF Between
<1>3. CASE s \in targets
  <2>1. goal = Share * TargetShares(targets, equity, prices[s])
    BY <1>3 DEF Goal
  <2>2. Trade(book, targets, equity, prices, s) \in {0, IF delta > 0 THEN whole ELSE -whole}
    BY <1>3, <2>1 DEF Trade
  <2>3. Trade(after, targets, equity, prices, s) \in {0, IF left > 0 THEN rest ELSE -rest}
    BY <1>3, <2>1 DEF Trade
  <2>4. delta \in Int /\ left \in Int /\ after[s] - book[s] = delta - left
    BY <1>1
  <2>5. Magnitude(delta) \in Nat /\ Magnitude(left) \in Nat
    BY <2>4 DEF Magnitude
  <2>6. whole \in Nat /\ whole <= Magnitude(delta) /\ Magnitude(delta) < whole + Share
        /\ (Magnitude(delta) < Share => whole = 0)
    BY <2>5, WholeShares
  <2>7. rest \in Nat /\ rest <= Magnitude(left) /\ Magnitude(left) < rest + Share
        /\ (Magnitude(left) < Share => rest = 0)
    BY <2>5, WholeShares
  <2>8. Share \in Nat \ {0}
    BY OrderMathAssumption
  <2>9. CASE Trade(book, targets, equity, prices, s) = 0
    <3>1. after[s] = book[s]
      BY <1>1, <2>9 DEF Between
    <3>2. Trade(after, targets, equity, prices, s) = Trade(book, targets, equity, prices, s)
      BY <3>1 DEF Trade
    <3> QED
      BY <1>1, <2>9, <3>1, <3>2 DEF Between
  <2>10. CASE Trade(book, targets, equity, prices, s) = (IF delta > 0 THEN whole ELSE -whole)
    <3> HIDE DEF whole, rest, delta, left
    <3>1. Between(delta - left, IF delta > 0 THEN whole ELSE -whole)
      BY <2>4, <2>10
    <3>2. Between(delta - left + (IF left > 0 THEN rest ELSE -rest), delta)
          /\ Between(delta - left + 0, delta)
          /\ (delta - left = (IF delta > 0 THEN whole ELSE -whole) => rest = 0)
      BY <2>4, <2>6, <2>7, <2>8, <3>1 DEF Between, Magnitude
    <3>3. CASE Trade(after, targets, equity, prices, s) = 0
      BY <2>4, <2>10, <3>2, <3>3 DEF delta
    <3>4. CASE Trade(after, targets, equity, prices, s) = (IF left > 0 THEN rest ELSE -rest)
      BY <2>4, <2>7, <2>10, <3>2, <3>4 DEF delta
    <3> QED
      BY <2>3, <3>3, <3>4
  <2> QED
    BY <2>2, <2>9, <2>10
<1> QED
  BY <1>2, <1>3

-----------------------------------------------------------------------------
(* The verdict of the divergence check (Divergence) *)

\* A nonempty finite set of integers has a greatest.
LEMMA GreatestExists ==
  ASSUME NEW S \in SUBSET Int, IsFiniteSet(S), S # {}
  PROVE  /\ Max(S) \in S
         /\ \A m \in S : m <= Max(S)
<1> DEFINE From(n) == {m \in S : n <= m}
           Tails == {From(n) : n \in S}
<1>1. IsWellFoundedOn(StrictSubsetOrdering(S), SUBSET S)
  BY FS_StrictSubsetOrderingWellFounded, FS_FiniteSubsetsOfFinite
<1>2. Tails \subseteq SUBSET S /\ Tails # {}
  OBVIOUS
<1>3. PICK T \in Tails : \A U \in Tails : <<U, T>> \notin StrictSubsetOrdering(S)
  <2> HIDE DEF Tails
  <2> QED
    BY <1>1, <1>2, WFMin
<1>4. PICK n \in S : T = From(n)
  OBVIOUS
<1>5. ASSUME NEW m \in S, ~(m <= n) PROVE FALSE
  <2>1. n < m /\ \A k \in S : k \in Int
    BY <1>5
  <2>3. n \in From(n) /\ n \notin From(m)
    BY <2>1
  <2>4. ASSUME NEW k \in From(m) PROVE k \in From(n)
    <3>1. k \in S /\ m <= k /\ k \in Int /\ m \in Int /\ n \in Int
      BY <2>1
    <3> QED
      BY <2>1, <3>1
  <2>2. <<From(m), From(n)>> \in StrictSubsetOrdering(S)
    BY <2>3, <2>4 DEF StrictSubsetOrdering
  <2> QED
    BY <1>3, <1>4, <2>2
<1>6. \E x \in S : \A y \in S : x >= y
  BY <1>5
<1> QED
  BY <1>6 DEF Max

\* The peak of a day is reached on it or before it, and no day so far is above it.
LEMMA PeakIs ==
  ASSUME NEW history, NEW days \in SUBSET Int, IsFiniteSet(days), NEW d \in days,
         \A e \in days : history[e].equity \in Nat
  PROVE  /\ \E c \in days : c <= d /\ Peak(history, days, d) = history[c].equity
         /\ \A c \in days : c <= d => history[c].equity <= Peak(history, days, d)
<1> DEFINE soFar == {c \in days : c <= d}
           heights == {history[e].equity : e \in soFar}
           S == {0} \cup heights
<1>1. IsFiniteSet(soFar)
  BY FS_Subset
<1>2. IsFiniteSet(heights)
  <2> DEFINE height == [e \in soFar |-> history[e].equity]
  <2>1. height \in Surjection(soFar, heights)
    BY DEF Surjection
  <2> QED
    BY <1>1, <2>1, FS_Surjection
<1>3. IsFiniteSet(S)
  <2>1. S = heights \cup {0}
    OBVIOUS
  <2> HIDE DEF heights, S
  <2> QED
    BY <1>2, <2>1, FS_AddElement
<1>4. S \in SUBSET Int /\ S # {} /\ d \in soFar
  OBVIOUS
<1>5. Max(S) \in S /\ \A m \in S : m <= Max(S)
  <2> HIDE DEF S
  <2> QED
    BY <1>3, <1>4, GreatestExists
<1>6. Peak(history, days, d) = Max(S)
  BY DEF Peak
<1>7. history[d].equity \in S /\ history[d].equity \in Nat
  BY <1>4
<1>8. \E c \in soFar : Max(S) = history[c].equity
  <2>1. PICK top : top = Max(S)
    OBVIOUS
  <2>2. top \in S /\ history[d].equity <= top
    BY <1>5, <1>7, <2>1
  <2>3. CASE top = 0
    <3> HIDE DEF S, soFar
    <3>1. history[d].equity = 0
      BY <1>7, <2>2, <2>3
    <3> QED
      BY <1>4, <2>1, <2>3, <3>1
  <2>4. CASE top \in heights
    BY <2>1, <2>4
  <2> QED
    BY <2>2, <2>3, <2>4
<1> QED
  BY <1>5, <1>6, <1>8

\* For every history: the drawdown is over the limit exactly when some day is that
\* far below an earlier one (max_drawdown, evaluate_divergence).
THEOREM DrawdownOfWorstPair ==
  ASSUME NEW history, NEW days \in SUBSET Int, IsFiniteSet(days),
         \A e \in days : history[e].equity \in Nat,
         NEW stats, stats.mdd \in Nat
  PROVE  OverLimit(history, days, stats)
           <=> \E c, d \in days :
                 /\ c < d
                 /\ 10000 * (history[c].equity - history[d].equity)
                      > stats.mdd * MddTolerance * history[c].equity
<1> DEFINE scale == stats.mdd * MddTolerance
<1>1. scale \in Nat
  BY DivergenceAssumption
<1>2. ASSUME NEW x \in Nat, NEW y \in Nat, NEW top \in Nat,
             10000 * (x - y) > scale * x
      PROVE  x > 0 /\ x > y /\ (x <= top => 10000 * (top - y) > scale * top)
  <2> HIDE DEF scale
  <2>1. scale * x >= 0 /\ scale * x \in Int
    BY <1>1
  <2>2. x > y /\ x > 0
    BY <1>2, <2>1
  <2>3. (10000 - scale) * x > 10000 * y
    BY <1>1, <1>2
  <2>4. 10000 - scale > 0
    <3>1. CASE 10000 - scale <= 0
      <4>1. (10000 - scale) * x <= 0
        BY <1>1, <3>1
      <4> QED
        BY <1>1, <2>3, <4>1
    <3> QED
      BY <1>1, <3>1
  <2>5. ASSUME x <= top PROVE 10000 * (top - y) > scale * top
    <3>1. (10000 - scale) * (top - x) >= 0
      BY <1>1, <2>4, <2>5
    <3> QED
      BY <1>1, <2>3, <3>1
  <2> QED
    BY <2>2, <2>5
<1> HIDE DEF scale
<1>3. ASSUME NEW d \in days, Peak(history, days, d) > 0,
             10000 * (Peak(history, days, d) - history[d].equity)
               > scale * Peak(history, days, d)
      PROVE  \E c \in days : c < d /\ 10000 * (history[c].equity - history[d].equity)
                                      > scale * history[c].equity
  <2>1. PICK c \in days : c <= d /\ Peak(history, days, d) = history[c].equity
    BY PeakIs
  <2>2. 10000 * (history[c].equity - history[d].equity) > scale * history[c].equity
    BY <1>3, <2>1
  <2>3. history[c].equity \in Nat /\ history[d].equity \in Nat
    OBVIOUS
  <2>4. history[c].equity > history[d].equity
    <3>1. PICK x \in Nat, y \in Nat : x = history[c].equity /\ y = history[d].equity
      BY <2>3
    <3>2. 10000 * (x - y) > scale * x
      BY <2>2, <3>1
    <3>3. x > y
      BY <1>2, <3>2
    <3> QED
      BY <3>1, <3>3
  <2>5. c # d /\ c \in Int /\ d \in Int
    BY <2>3, <2>4
  <2> QED
    BY <2>1, <2>2, <2>5
<1>4. ASSUME NEW c \in days, NEW d \in days, c < d,
             10000 * (history[c].equity - history[d].equity) > scale * history[c].equity
      PROVE  /\ Peak(history, days, d) > 0
             /\ 10000 * (Peak(history, days, d) - history[d].equity)
                  > scale * Peak(history, days, d)
  <2>1. history[c].equity <= Peak(history, days, d) /\ Peak(history, days, d) \in Nat
    BY <1>4, PeakIs
  <2>2. history[c].equity \in Nat /\ history[d].equity \in Nat
    OBVIOUS
  <2>3. PICK top \in Nat : top = Peak(history, days, d)
    BY <2>1
  <2>4. history[c].equity > 0 /\ 10000 * (top - history[d].equity) > scale * top
    <3>1. PICK x \in Nat, y \in Nat : x = history[c].equity /\ y = history[d].equity
      BY <2>2
    <3>2. 10000 * (x - y) > scale * x /\ x <= top
      BY <1>4, <2>1, <2>3, <3>1
    <3>3. x > 0 /\ 10000 * (top - y) > scale * top
      BY <1>2, <3>2
    <3> QED
      BY <3>1, <3>3
  <2>5. top > 0
    BY <2>1, <2>2, <2>3, <2>4
  <2> QED
    BY <2>3, <2>4, <2>5
<1>5. OverLimit(history, days, stats)
        <=> \E d \in days : /\ Peak(history, days, d) > 0
                            /\ 10000 * (Peak(history, days, d) - history[d].equity)
                                 > scale * Peak(history, days, d)
  BY DEF OverLimit, scale
<1> QED
  BY <1>3, <1>4, <1>5 DEF scale

\* What the broker may return: finitely many days, some without an equity.
IsHistory(history) ==
  /\ DOMAIN history \in SUBSET Int /\ IsFiniteSet(DOMAIN history)
  /\ \A d \in DOMAIN history : history[d].equity \in Nat \cup {NoNumber}

\* For every history: a halt for drawdown comes back on every later day, after a
\* resume too, as long as the promotion is the same (run_divergence).
THEOREM DrawdownHaltsLater ==
  ASSUME NEW history, IsHistory(history), NEW promoted \in Int,
         NEW asOf \in Int, NEW later \in Int, asOf <= later,
         NEW stats, stats.mdd \in Nat,
         OverLimit(history, EquityDays(history, promoted, asOf), stats),
         Verdict(history, promoted, asOf, stats) = "halt"
  PROVE  Verdict(history, promoted, later, stats) = "halt"
<1> DEFINE then == EquityDays(history, promoted, asOf)
           now == EquityDays(history, promoted, later)
<1>1. /\ then \in SUBSET now /\ now \in SUBSET Int /\ IsFiniteSet(now)
      /\ IsFiniteSet(then) /\ \A e \in now : history[e].equity \in Nat
  <2>1. then \subseteq now /\ now \subseteq DOMAIN history
    BY DEF EquityDays, IsHistory
  <2> QED
    BY <2>1, FS_Subset DEF EquityDays, IsHistory
<1>2. OverLimit(history, now, stats)
  <2> HIDE DEF then, now
  <2> QED
    BY <1>1, DrawdownOfWorstPair DEF then
<1>3. Cardinality(Realized(history, promoted, asOf))
        <= Cardinality(Realized(history, promoted, later))
      /\ Cardinality(Realized(history, promoted, later)) \in Nat
      /\ Cardinality(Realized(history, promoted, asOf)) \in Nat
  <2>1. Realized(history, promoted, asOf) \subseteq Realized(history, promoted, later)
        /\ Realized(history, promoted, later) \subseteq DOMAIN history
    BY DEF Realized, IsHistory
  <2> QED
    BY <2>1, FS_Subset, FS_CardinalityType DEF IsHistory
<1>4. promoted # NoNumber /\ stats # NoNumber
      /\ ~(Cardinality(Realized(history, promoted, asOf)) < WindowDays)
  BY DEF Verdict
<1>5. ~(Cardinality(Realized(history, promoted, later)) < WindowDays)
  BY <1>3, <1>4, DivergenceAssumption
<1> QED
  BY <1>2, <1>4, <1>5 DEF Verdict

\* What Below sums up.
Returns(history, days) == MapThenSumSet(LAMBDA d : history[d].return, days)

\* The sum of the returns of some days depends on the returns of these days.
LEMMA SumsAgree ==
  ASSUME NEW days, NEW history, NEW other,
         \A d \in days : history[d].return = other[d].return
  PROVE  Returns(history, days) = Returns(other, days)
<1> DEFINE any(s) == CHOOSE d \in s : TRUE
           Step(h, g) == [s \in SUBSET days |->
                            IF s = {} THEN 0 ELSE h[any(s)].return + g[s \ {any(s)}]]
           Sums(h) == CHOOSE g : g = Step(h, g)
<1>1. Sums(history) = Sums(other)
  <2>1. \A g : g = Step(history, g) <=> g = Step(other, g)
    OBVIOUS
  <2> HIDE DEF Step
  <2> QED
    BY <2>1, Zenon
<1>2. Returns(history, days) = Sums(history)[days]
  BY DEF Returns, MapThenSumSet, MapThenFoldSet
<1>3. Returns(other, days) = Sums(other)[days]
  BY DEF Returns, MapThenSumSet, MapThenFoldSet
<1> QED
  BY <1>1, <1>2, <1>3

\* And so does the comparison with the backtest.
LEMMA BelowAgrees ==
  ASSUME NEW days, NEW history, NEW other, NEW stats, NEW z,
         \A d \in days : history[d].return = other[d].return
  PROVE  Below(history, days, stats, z) <=> Below(other, days, stats, z)
<1>1. Trailing(days) \subseteq days
  BY DEF Trailing
<1>2. Returns(history, Trailing(days)) = Returns(other, Trailing(days))
  BY <1>1, SumsAgree
<1> QED
  BY <1>2 DEF Below, Returns

\* The drawdown depends on the equities of the days it counts.
LEMMA OverLimitAgrees ==
  ASSUME NEW days, NEW history, NEW other, NEW stats,
         \A d \in days : history[d].equity = other[d].equity
  PROVE  OverLimit(history, days, stats) <=> OverLimit(other, days, stats)
<1>1. ASSUME NEW d \in days PROVE Peak(history, days, d) = Peak(other, days, d)
  <2>1. {history[e].equity : e \in {c \in days : c <= d}}
          = {other[e].equity : e \in {c \in days : c <= d}}
    OBVIOUS
  <2> QED
    BY <2>1 DEF Peak
<1> QED
  BY <1>1 DEF OverLimit

\* For every history: what happened before the promotion, and the return of its
\* own day, do not change the verdict (realized_daily_returns,
\* equity_since_promotion).
THEOREM EarlierIgnored ==
  ASSUME NEW history, NEW other, NEW promoted \in Int, NEW asOf, NEW stats,
         DOMAIN history \in SUBSET Int, DOMAIN other = DOMAIN history,
         \A d \in DOMAIN history :
           /\ promoted <= d => other[d].equity = history[d].equity
           /\ promoted < d => other[d].return = history[d].return
  PROVE  Verdict(other, promoted, asOf, stats) = Verdict(history, promoted, asOf, stats)
<1> DEFINE returns == Realized(history, promoted, asOf)
           equities == EquityDays(history, promoted, asOf)
<1>1. Realized(other, promoted, asOf) = returns
      /\ \A d \in returns : other[d].return = history[d].return
  BY DEF Realized
<1>2. EquityDays(other, promoted, asOf) = equities
      /\ \A d \in equities : other[d].equity = history[d].equity
  BY DEF EquityDays
<1> HIDE DEF returns, equities
<1>3. \A z : Below(other, returns, stats, z) <=> Below(history, returns, stats, z)
  BY <1>1, BelowAgrees
<1>4. OverLimit(other, equities, stats) <=> OverLimit(history, equities, stats)
  BY <1>2, OverLimitAgrees
<1> QED
  BY <1>1, <1>2, <1>3, <1>4 DEF Verdict, returns, equities

=============================================================================
