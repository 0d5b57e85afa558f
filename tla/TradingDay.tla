----------------------------- MODULE TradingDay -----------------------------
(***************************************************************************)
(* One trading day of the paper account: the runs of                       *)
(* execution/rebalance.py (the 08:00 timer's, a rerun by hand, a dry run), *)
(* the Trade Ledger of execution/ledger.py, the account snapshot rows, the *)
(* emergency ops/flatten.py, the halt file, and ops/reconcile.py after the *)
(* close.  The broker and the market are the environment.                  *)
(*                                                                         *)
(* Every position is one lot and every order trades one: what an order     *)
(* weighs in dollars is left to the choice of the batch.  An order fills   *)
(* whole or not at all.                                                    *)
(***************************************************************************)
EXTENDS Naturals, FiniteSets, Sequences

CONSTANTS
  Symbol,        \* what the strategy may hold
  Run,           \* executions of the rebalancer
  DryRun,        \* those started with --dry-run
  Lots,          \* lots of cash the account may start with
  MaxPositions,  \* max_total_positions
  MaxDayOrders,  \* max_day_orders
  MaxFlattens,   \* bound on the executions of ops.flatten
  Losses,        \* which failures may happen
  Drained,       \* TRUE if the operator flattens only when no run is under way
  Overlap        \* FALSE if a rerun comes only after the earlier run has ended

ASSUME RunAssumption == DryRun \subseteq Run

ASSUME FiniteAssumption == IsFiniteSet(Symbol) /\ IsFiniteSet(Run)

ASSUME LossAssumption ==
  /\ Losses \subseteq {"crash", "post", "row", "rowreply", "final", "acct", "patch"}
  /\ {Drained, Overlap} \subseteq BOOLEAN

ASSUME LimitAssumption ==
  {Lots, MaxPositions, MaxDayOrders, MaxFlattens} \subseteq Nat

VARIABLES
  clock,    \* before the open, trading, or after the close
  held,     \* the positions of the account
  cash,     \* lots of cash, before what the open buys reserve
  order,    \* the status of every order of the runs
  liq,      \* liquidation orders of the flatten: asked for so far, and working
  halt,     \* whether the halt file exists
  ledger,   \* the Trade Ledger rows of each order, by their Status
  acct,     \* the runs that wrote an Account Snapshots row
  pc,       \* where each run is
  job,      \* what each run has read and done
  flat,     \* the flatten: where it is, and what it still closes or cancels
  audit     \* what the reconciliation said

vars == <<clock, held, cash, order, liq, halt, ledger, acct, pc, job, flat, audit>>

-----------------------------------------------------------------------------
(* Types *)

Leg == {"buy", "sell"} \X Symbol
Order == Run \X Leg

Working == {"book", "plan", "check", "submit", "record", "poll", "final"}
OrderStatus == {"none", "open", "filled", "canceled", "expired"}
RowStatus == {"submitted", "filled", "canceled", "expired"}

\* batch: still to submit; placed: submitted, and not yet recorded as final;
\* due: waiting for record_submitted; paged: page id known; seen: status last
\* read.
Job == [funds : Nat, held : SUBSET Symbol, count : Nat, batch : SUBSET Leg,
        placed : SUBSET Leg, due : SUBSET Leg, paged : SUBSET Leg,
        seen : [Leg -> OrderStatus]]

NoJob == [funds |-> 0, held |-> {}, count |-> 0, batch |-> {}, placed |-> {},
          due |-> {}, paged |-> {}, seen |-> [l \in Leg |-> "none"]]

\* A row too many for one order is a second row, never a third.
Rows == {<< >>} \cup {<<a>> : a \in RowStatus} \cup (RowStatus \X RowStatus)

TypeOK ==
  /\ clock \in {"pre", "open", "closed"}
  /\ held \subseteq Symbol
  /\ cash \in Nat
  /\ order \in [Order -> OrderStatus]
  /\ liq \in [asked : SUBSET Symbol, working : SUBSET Symbol]
  /\ halt \in BOOLEAN
  /\ ledger \in [Order -> Rows]
  /\ acct \subseteq Run
  /\ pc \in [Run -> {"idle", "ok", "halted", "abort", "dead"} \cup Working]
  /\ job \in [Run -> Job]
  /\ flat \in [at : {"idle", "cancel", "close", "confirm", "flat", "failed"},
              cancels : SUBSET Order, todo : SUBSET Symbol, underHalt : BOOLEAN,
              runs : 0 .. MaxFlattens]
  /\ audit \in {"none", "clean", "mismatch"}

-----------------------------------------------------------------------------
(* What the code and the broker read *)

Goto(r, label) == pc' = [pc EXCEPT ![r] = label]

Busy(r) == pc[r] \in Working

\* The run is over, and forgets what it knew.
End(r, label) == Goto(r, label) /\ job' = [job EXCEPT ![r] = NoJob]

Live(o) == order[o] # "none"
Open == {o \in Order : order[o] = "open"}
OpenBuys == {o \in Open : o[2][1] = "buy"}

\* The account's buying_power: the broker reserves open buys, and credits
\* sells when they fill.
BuyingPower == cash - Cardinality(OpenBuys)

\* Faulty variant: every run numbers its orders.
ClientIdPerRun(o) == o

\* client_order_id: the day, the side and the symbol.
ClientId(o) == o[2]

\* Faulty variant: only the orders still working are counted.
DayCountOpen == Cardinality(Open) + Cardinality(liq.working)

\* orders_submitted_on: every order of the day, the flatten's too.
DayCount == Cardinality({o \in Order : Live(o)}) + Cardinality(liq.asked)

\* ledger_status: an order that may still fill is "submitted".
LedgerStatus(s) == IF s = "open" THEN "submitted" ELSE s

Init ==
  /\ clock = "pre"
  /\ held \in SUBSET Symbol
  /\ cash \in 0 .. Lots
  /\ order = [o \in Order |-> "none"]
  /\ liq = [asked |-> {}, working |-> {}]
  /\ halt = FALSE
  /\ ledger = [o \in Order |-> << >>]
  /\ acct = {}
  /\ pc = [r \in Run |-> "idle"]
  /\ job = [r \in Run |-> NoJob]
  /\ flat = [at |-> "idle", cancels |-> {}, todo |-> {}, underHalt |-> FALSE,
             runs |-> 0]
  /\ audit = "none"

-----------------------------------------------------------------------------
(* run_rebalance: the snapshot, the plan and the checks *)

Broker == <<clock, held, cash, order, liq>>
Others == <<halt, flat, audit>>

\* get_account. A run started after the close is not modelled.
ReadAccount(r) ==
  /\ pc[r] = "idle"
  /\ clock # "closed"
  /\ Overlap \/ \A q \in Run : ~Busy(q)
  /\ job' = [job EXCEPT ![r].funds = BuyingPower]
  /\ Goto(r, "book")
  /\ UNCHANGED <<Broker, Others, ledger, acct>>

\* get_positions and list_orders.
ReadBook(r) ==
  /\ pc[r] = "book"
  /\ job' = [job EXCEPT ![r].held = held, ![r].count = DayCount]
  /\ Goto(r, "plan")
  /\ UNCHANGED <<Broker, Others, ledger, acct>>

\* Anything up to the gate that raises one of _ABORT_ERRORS.
AbortEarly(r) ==
  /\ pc[r] \in {"book", "plan"}
  /\ End(r, "abort")
  /\ UNCHANGED <<Broker, Others, ledger, acct>>

\* Faulty variant: buys are not held against the buying power.
AffordableAll(buys, funds) == {buys}

\* cap_buys_to_buying_power, and the buys compute_orders skips.
Affordable(buys, funds) == {kept \in SUBSET buys : Cardinality(kept) <= funds}

\* compute_orders: exits of what is held and not wanted, entries of the rest.
Batches(r) ==
  LET have == job[r].held
  IN UNION {{ ({"sell"} \X (have \ want)) \cup kept :
                kept \in Affordable({"buy"} \X (want \ have), job[r].funds) } :
              want \in SUBSET Symbol}

\* evaluate_orders, for the limits that count.
WithinLimits(r, batch) ==
  /\ job[r].count + Cardinality(batch) <= MaxDayOrders
  /\ Cardinality({s \in job[r].held : <<"sell", s>> \notin batch}
                   \cup {s \in Symbol : <<"buy", s>> \in batch}) <= MaxPositions
     \/ \A s \in Symbol : <<"buy", s>> \notin batch

\* _record_snapshot, best effort.
RecordSnapshot(r) ==
  acct' \in {acct \cup {r}} \cup (IF "acct" \in Losses THEN {acct} ELSE {})

Plan(r) ==
  /\ pc[r] = "plan"
  /\ \E batch \in Batches(r) :
       /\ WithinLimits(r, batch)
       /\ job' = [job EXCEPT ![r].batch = batch]
  /\ Goto(r, "check")
  /\ UNCHANGED <<Broker, Others, ledger, acct>>

\* One order over a limit, of number or of size, rejects the whole batch.
GateRejects(r) ==
  /\ pc[r] = "plan"
  /\ RecordSnapshot(r)
  /\ End(r, "abort")
  /\ UNCHANGED <<Broker, Others, ledger>>

\* Breaker.check finds the halt file.
Halted(r) ==
  /\ pc[r] = "check"
  /\ halt
  /\ RecordSnapshot(r)
  /\ End(r, "halted")
  /\ UNCHANGED <<Broker, Others, ledger>>

\* Breaker.check: the daily notional or the drawdown.
Tripped(r) ==
  /\ pc[r] = "check"
  /\ ~halt
  /\ RecordSnapshot(r)
  /\ End(r, "abort")
  /\ UNCHANGED <<Broker, Others, ledger>>

\* A clean pass: a dry run ends here, and so does a day with no orders.
Passed(r) ==
  /\ pc[r] = "check"
  /\ ~halt
  /\ IF r \in DryRun THEN End(r, "ok") /\ acct' = acct
     ELSE IF job[r].batch = {} THEN End(r, "ok") /\ RecordSnapshot(r)
     ELSE Goto(r, "submit") /\ UNCHANGED <<acct, job>>
  /\ UNCHANGED <<Broker, Others, ledger>>

-----------------------------------------------------------------------------
(* submit_orders *)

\* Sells go first.
NextLegs(r) ==
  LET sells == {l \in job[r].batch : l[1] = "sell"}
  IN IF sells # {} THEN sells ELSE job[r].batch

\* What the broker refuses: a client_order_id used before today, a buy beyond
\* the buying power, the sale of a position that is not there or spoken for.
Acceptable(r, l) ==
  /\ \A o \in Order : Live(o) => ClientId(o) # ClientId(<<r, l>>)
  /\ IF l[1] = "buy" THEN BuyingPower >= 1
     ELSE /\ l[2] \in held \ liq.working
          /\ \A o \in Open : o[2] # l

Place(r, l) ==
  /\ pc[r] = "submit"
  /\ l \in NextLegs(r)
  /\ Acceptable(r, l)
  /\ order' = [order EXCEPT ![<<r, l>>] = "open"]
  /\ job' = [job EXCEPT ![r].batch = @ \ {l}, ![r].placed = @ \cup {l},
                        ![r].due = {l}, ![r].seen[l] = "open"]
  /\ Goto(r, "record")
  /\ UNCHANGED <<clock, held, cash, liq, Others, ledger, acct>>

\* A refusal, a 429 too many or any other error: the batch stops here.
PlaceFails(r) ==
  /\ pc[r] = "submit"
  /\ End(r, "abort")
  /\ UNCHANGED <<Broker, Others, ledger, acct>>

\* The order is accepted, and the answer is a 5xx or never comes.
PlaceReplyLost(r, l) ==
  /\ "post" \in Losses
  /\ pc[r] = "submit"
  /\ l \in NextLegs(r)
  /\ Acceptable(r, l)
  /\ order' = [order EXCEPT ![<<r, l>>] = "open"]
  /\ End(r, "abort")
  /\ UNCHANGED <<clock, held, cash, liq, Others, ledger, acct>>

\* record_submitted: the row is created and its page known, or the write fails,
\* or only its reply is lost.
RecordSubmitted(r) ==
  /\ pc[r] = "record"
  /\ \E l \in job[r].due :
       LET row == [ledger EXCEPT ![<<r, l>>] = Append(@, LedgerStatus("open"))]
           done == [job EXCEPT ![r].due = {}]
       IN \/ ledger' = row /\ job' = [done EXCEPT ![r].paged = @ \cup {l}]
          \/ "row" \in Losses /\ ledger' = ledger /\ job' = done
          \/ "rowreply" \in Losses /\ ledger' = row /\ job' = done
  /\ Goto(r, IF job[r].batch = {} THEN "poll" ELSE "submit")
  /\ UNCHANGED <<Broker, Others, acct>>

-----------------------------------------------------------------------------
(* poll_fills and record_final *)

\* The last snapshot before everything is terminal or the time is up.
PollFills(r) ==
  /\ pc[r] = "poll"
  /\ job' = [job EXCEPT ![r].seen =
               [l \in Leg |-> IF l \in job[r].placed THEN order[<<r, l>>] ELSE "none"]]
  /\ Goto(r, "final")
  /\ UNCHANGED <<Broker, Others, ledger, acct>>

PollFails(r) ==
  /\ pc[r] = "poll"
  /\ End(r, "abort")
  /\ UNCHANGED <<Broker, Others, ledger, acct>>

\* Faulty variant: an order without a known page is passed over.
FinalRowsNoCreate(r, l) ==
  IF l \in job[r].paged
  THEN [ledger[<<r, l>>] EXCEPT ![1] = LedgerStatus(job[r].seen[l])]
  ELSE ledger[<<r, l>>]

\* record_final: the known page is updated, or a whole row is created.
FinalRows(r, l) ==
  IF l \in job[r].paged
  THEN [ledger[<<r, l>>] EXCEPT ![1] = LedgerStatus(job[r].seen[l])]
  ELSE Append(ledger[<<r, l>>], LedgerStatus(job[r].seen[l]))

\* A failing write is one more entry of the summary's list, and the run goes on.
RecordFinal(r) ==
  /\ pc[r] = "final"
  /\ job[r].placed # {}
  /\ \E l \in job[r].placed :
       /\ \/ ledger' = [ledger EXCEPT ![<<r, l>>] = FinalRows(r, l)]
          \/ "final" \in Losses /\ ledger' = ledger
       /\ job' = [job EXCEPT ![r].placed = @ \ {l}]
  /\ UNCHANGED <<Broker, Others, acct, pc>>

Summary(r) ==
  /\ pc[r] = "final"
  /\ job[r].placed = {}
  /\ RecordSnapshot(r)
  /\ End(r, "ok")
  /\ UNCHANGED <<Broker, Others, ledger>>

Crash(r) ==
  /\ "crash" \in Losses
  /\ pc[r] \in Working
  /\ End(r, "dead")
  /\ UNCHANGED <<Broker, Others, ledger, acct>>

-----------------------------------------------------------------------------
(* The broker and the market *)

\* The close finds no run under way: one takes minutes, and the timer's starts
\* hours before.
Tick ==
  /\ clock # "closed"
  /\ clock = "open" => \A r \in Run : ~Busy(r)
  /\ IF clock = "pre" THEN clock' = "open" /\ order' = order
     ELSE /\ clock' = "closed"
          /\ order' = [o \in Order |-> IF order[o] = "open" THEN "expired" ELSE order[o]]
  /\ UNCHANGED <<held, cash, liq, Others, ledger, acct, pc, job>>

Fill(o) ==
  LET s == o[2][2]
  IN /\ clock = "open"
     /\ order[o] = "open"
     /\ order' = [order EXCEPT ![o] = "filled"]
     /\ IF o[2][1] = "buy" THEN held' = held \cup {s} /\ cash' = cash - 1
        ELSE held' = held \ {s} /\ cash' = cash + 1
     /\ UNCHANGED <<clock, liq, Others, ledger, acct, pc, job>>

FillLiquidation(s) ==
  /\ clock = "open"
  /\ s \in liq.working
  /\ liq' = [liq EXCEPT !.working = @ \ {s}]
  /\ held' = held \ {s}
  /\ cash' = cash + 1
  /\ UNCHANGED <<clock, order, Others, ledger, acct, pc, job>>

\* Cancellation is asynchronous: the order may fill first.
CancelTakesEffect(o) ==
  /\ o \in flat.cancels
  /\ flat' = [flat EXCEPT !.cancels = @ \ {o}]
  /\ order' = [order EXCEPT ![o] = IF @ = "open" THEN "canceled" ELSE @]
  /\ UNCHANGED <<clock, held, cash, liq, halt, audit, ledger, acct, pc, job>>

-----------------------------------------------------------------------------
(* The operator: halt_trading, resume_trading, ops.flatten *)

SetHalt ==
  /\ ~halt
  /\ halt' = TRUE
  /\ UNCHANGED <<Broker, flat, audit, ledger, acct, pc, job>>

Resume ==
  /\ halt
  /\ halt' = FALSE
  /\ flat' = [flat EXCEPT !.underHalt = FALSE]
  /\ UNCHANGED <<Broker, audit, ledger, acct, pc, job>>

\* list_orders, then cancel_all_orders.
FlattenStart ==
  /\ flat.at = "idle"
  /\ flat.runs < MaxFlattens
  /\ Drained => \A r \in Run : ~Busy(r)
  /\ flat' = [flat EXCEPT !.at = "cancel", !.cancels = Open, !.underHalt = halt,
                        !.runs = @ + 1]
  /\ UNCHANGED <<Broker, halt, audit, ledger, acct, pc, job>>

\* Faulty variant: the cancels are asked for and not waited for.
SettledUnpolled == TRUE

\* _poll_until_empty over the open orders.
Settled == Open = {} /\ liq.working = {}

\* cancel_all_orders takes an earlier flatten's liquidations too.
LiquidationCanceled(s) ==
  /\ flat.at = "cancel"
  /\ s \in liq.working
  /\ liq' = [liq EXCEPT !.working = @ \ {s}]
  /\ UNCHANGED <<clock, held, cash, order, halt, audit, flat, ledger, acct, pc, job>>

FlattenSettled ==
  /\ flat.at = "cancel"
  /\ Settled
  /\ flat' = [flat EXCEPT !.at = "close", !.todo = held]
  /\ UNCHANGED <<Broker, halt, audit, ledger, acct, pc, job>>

\* close_position, refused while the symbol has an open order.
FlattenClose(s) ==
  /\ flat.at = "close"
  /\ s \in flat.todo
  /\ IF s \in held \ liq.working /\ \A o \in Open : o[2][2] # s
     THEN /\ liq' = [asked |-> liq.asked \cup {s}, working |-> liq.working \cup {s}]
          /\ flat' = [flat EXCEPT !.todo = @ \ {s}]
     ELSE /\ liq' = liq
          /\ flat' = [flat EXCEPT !.at = "failed", !.todo = {}]
  /\ UNCHANGED <<clock, held, cash, order, halt, audit, ledger, acct, pc, job>>

FlattenConfirm ==
  /\ flat.at \in {"close", "confirm"}
  /\ flat.todo = {}
  /\ flat' = [flat EXCEPT !.at = IF held = {} THEN "flat" ELSE "confirm"]
  /\ UNCHANGED <<Broker, halt, audit, ledger, acct, pc, job>>

\* The time is up, or the broker answers an error.
FlattenFails ==
  /\ flat.at \in {"cancel", "close", "confirm"}
  /\ flat' = [flat EXCEPT !.at = "failed", !.todo = {}]
  /\ UNCHANGED <<Broker, halt, audit, ledger, acct, pc, job>>

\* The runbook: rerun it after the open.
FlattenAgain ==
  /\ flat.at = "failed"
  /\ flat' = [flat EXCEPT !.at = "idle"]
  /\ UNCHANGED <<Broker, halt, audit, ledger, acct, pc, job>>

-----------------------------------------------------------------------------
(* ops.reconcile --update, a quarter of an hour after the close *)

Missing == {o \in Order : Live(o) /\ ledger[o] = << >>}
Duplicated == {o \in Order : Len(ledger[o]) = 2}

\* Of two rows of one order the query may return either first.
Mismatched(first) ==
  {o \in Order : Live(o) /\ ledger[o] # << >>
                  /\ ledger[o][first[o]] # LedgerStatus(order[o])}

\* Faulty variant: duplicates are listed and not counted.
UnresolvedButDuplicates(failed) == Missing \cup failed

\* apply_fill_updates: what stays for a human.
Unresolved(failed) == Missing \cup Duplicated \cup failed

Reconcile ==
  /\ clock = "closed"
  /\ audit # "clean"
  /\ \E first \in [Order -> {1, 2}] :
       /\ \A o \in Order : first[o] = 2 => o \in Duplicated
       /\ \E failed \in IF "patch" \in Losses THEN SUBSET Mismatched(first) ELSE {{}} :
            /\ ledger' = [o \in Order |->
                 IF o \in Mismatched(first) \ failed
                 THEN [ledger[o] EXCEPT ![first[o]] = LedgerStatus(order[o])]
                 ELSE ledger[o]]
            /\ audit' = IF Unresolved(failed) = {} /\ liq.asked = {}
                        THEN "clean" ELSE "mismatch"
  /\ UNCHANGED <<Broker, halt, flat, acct, pc, job>>

-----------------------------------------------------------------------------
RunStep(r) ==
  \/ ReadAccount(r)
  \/ ReadBook(r)
  \/ AbortEarly(r)
  \/ Plan(r)
  \/ GateRejects(r)
  \/ Halted(r)
  \/ Tripped(r)
  \/ Passed(r)
  \/ \E l \in Leg : Place(r, l) \/ PlaceReplyLost(r, l)
  \/ PlaceFails(r)
  \/ RecordSubmitted(r)
  \/ PollFills(r)
  \/ PollFails(r)
  \/ RecordFinal(r)
  \/ Summary(r)
  \/ Crash(r)

Market ==
  \/ Tick
  \/ \E o \in Order : Fill(o) \/ CancelTakesEffect(o)
  \/ \E s \in Symbol : FillLiquidation(s)

Flatten ==
  \/ FlattenStart
  \/ FlattenSettled
  \/ \E s \in Symbol : LiquidationCanceled(s)
  \/ \E s \in Symbol : FlattenClose(s)
  \/ FlattenConfirm
  \/ FlattenFails
  \/ FlattenAgain

Next ==
  \/ \E r \in Run : RunStep(r)
  \/ Market
  \/ SetHalt \/ Resume
  \/ Flatten
  \/ Reconcile

Spec == Init /\ [][Next]_vars

-----------------------------------------------------------------------------
(* Properties *)

\* However many runs of the day overlap, fail or are started again, at most one
\* of their orders buys a symbol and one sells it: a rerun never doubles the book.
NoOrderTwice ==
  \A o, p \in Order :
    (Live(o) /\ Live(p) /\ o[2] = p[2]) => o = p

\* When the reconciliation says the ledger is clean, every order of the day has
\* exactly one row, and the row tells its final state.
CleanMeansMatch ==
  audit = "clean" =>
    \A o \in Order :
      ledger[o] = IF Live(o) THEN <<LedgerStatus(order[o])>> ELSE << >>

\* The orders of all the runs of a day, one after the other, stay within
\* max_day_orders.
DayOrdersBounded == Cardinality({o \in Order : Live(o)}) <= MaxDayOrders

\* What is left of a batch is funded: no run is refused for buying power with
\* half of its orders live, whatever fills meanwhile.
BatchFunded ==
  \A r \in Run :
    pc[r] \in {"submit", "record"} =>
      Cardinality({l \in job[r].batch : l[1] = "buy"}) <= BuyingPower

\* A run that came to its end leaves one complete row per order, also where
\* the write at submit time had failed: the one after the poll makes up for it.
OneCompleteRow ==
  \A o \in Order : (Live(o) /\ pc[o[1]] = "ok") => Len(ledger[o]) = 1

\* Once the flatten has reported the account flat under a halt, nothing is
\* bought until the halt is lifted.
FlatStaysFlat == (flat.at = "flat" /\ flat.underHalt) => held = {}

-----------------------------------------------------------------------------
(* Statements of the source's comments that the code does not keep; the      *)
(* README names the comment and the configuration that shows it.             *)

\* Also when its batch stops half-way, a run leaves a row for every order of
\* its that is live.
LiveOrdersRecorded ==
  \A o \in Order :
    (Live(o) /\ pc[o[1]] \notin {"record", "dead"}) => ledger[o] # << >>

\* A run that exits 1 has not traded.
AbortedTradedNothing ==
  \A o \in Order : pc[o[1]] = "abort" => ~Live(o)

\* A dry run writes no Account Snapshots row.
DryRunWritesNothing == acct \cap DryRun = {}

\* The reconciliation never touches the rows of an order that has two.
DuplicatesUntouched ==
  [][(audit' # audit) => \A o \in Duplicated : ledger'[o] = ledger[o]]_vars

\* Every failure the ledger met is in the summary of a run that ended: an order
\* without a row belongs to a run that posted one.
GapSurfaced ==
  \A o \in Order :
    (Live(o) /\ ledger[o] = << >>) => pc[o[1]] # "abort"
=============================================================================
