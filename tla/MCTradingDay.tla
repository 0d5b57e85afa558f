---------------------------- MODULE MCTradingDay ----------------------------
(***************************************************************************)
(* TradingDay with up to two symbols and up to two runs, and the amounts   *)
(* it leaves open, for every small book of three symbols.                  *)
(***************************************************************************)
EXTENDS TradingDay, OrderMath

CONSTANTS a, b, r1, r2

\* Symbols are not ordered by anything modelled, nor are the runs.
Symmetric == Permutations(Symbol) \cup Permutations(Run)

-----------------------------------------------------------------------------
(* Amounts *)

Books == [1 .. 3 -> {0, 1, 2, 6}]
PriceLists == {<<100, 200, 500>>, <<600, 100, 200>>}
TargetSets == {{1}, {1, 3}, {1, 2, 3}}

ValueOf(book, prices) ==
  FoldSet(LAMBDA s, sum : book[s] * prices[s] + sum, 0, DOMAIN book)

\* A book that may be on loan, and what it is worth with some cash.
Accounts ==
  {[book |-> book, prices |-> prices, cash |-> funds,
    equity |-> (Share * funds + ValueOf(book, prices)) \div Share] :
     book \in Books, prices \in PriceLists, funds \in {0, 700}}
WorthSomething == {acc \in Accounts : acc.equity > 0}

ListOf(acc, targets) == ComputeOrders(acc.book, targets, acc.equity, acc.prices)

FilledBook(book, orders) ==
  [s \in DOMAIN book |->
     FoldSet(LAMBDA o, was : Applied(was, o), book, {o \in orders : o.symbol = s})[s]]

\* A run after orders that filled, and others that did not, orders what did not
\* fill and nothing else (compute_orders): no share is bought twice, and a book on
\* target is left alone.
ASSUME RerunOrdersTheRest ==
  \A acc \in WorthSomething, targets \in TargetSets :
    LET orders == ToSet(ListOf(acc, targets))
    IN \A filled \in SUBSET orders :
         ToSet(ComputeOrders(FilledBook(acc.book, filled), targets, acc.equity, acc.prices))
           = orders \ filled

Limits ==
  {[max_order_notional_usd |-> 700, max_day_orders |-> 3, max_total_positions |-> n,
    max_position_pct_equity |-> pct] : n \in {1, 2}, pct \in {50, 90}}

\* What the gate lets through (evaluate_orders) keeps to the limits on positions
\* whichever of the buys fill, once the sells have: no more symbols than allowed
\* or than there were, and none that grew above its share of the equity.
ASSUME GateHolds ==
  \A acc \in WorthSomething, targets \in TargetSets, limits \in Limits :
    LET orders == ListOf(acc, targets)
        sells == {o \in ToSet(orders) : o.side = "sell"}
    IN EvaluateOrders(orders, acc.book, 0, acc.equity, limits).rejected = 0 =>
         \A bought \in SUBSET (ToSet(orders) \ sells) :
           LET after == FilledBook(acc.book, sells \cup bought)
               count == Cardinality(HeldIn(after))
           IN /\ count <= limits.max_total_positions \/ count <= Cardinality(HeldIn(acc.book))
              /\ \A s \in DOMAIN after :
                   after[s] > acc.book[s] =>
                     100 * after[s] * acc.prices[s]
                       <= Share * acc.equity * limits.max_position_pct_equity

\* The buying power of a margin account: twice the equity less what is held.
Margin(acc) == 2 * Share * acc.equity - ValueOf(acc.book, acc.prices)

\* A buy that is deferred one day is within the buying power of the next, when
\* the day's sells have filled and the account has margin
\* (cap_buys_to_buying_power).
ASSUME DeferredIsBought ==
  \A acc \in WorthSomething, targets \in TargetSets :
    LET kept == ToSet(CapBuys(ListOf(acc, targets), Margin(acc)).kept)
        next == [acc EXCEPT !.book = FilledBook(@, kept)]
    IN CapBuys(ListOf(next, targets), Margin(next)).deferred = <<>>

\* Whole numbers go to the broker as they are, of any size, and so do others of
\* few digits; the rest are off by half a unit of the last digit sent at most
\* (_decimal_str).
ASSUME WireIsClose ==
  \A v \in 1 .. 4000 :
    LET sent == Wire(v, 10)
    IN /\ v % 10 = 0 \/ v < 10 ^ WireDigits => sent = v
       /\ 2 * Magnitude(sent - v) * 10 ^ WireDigits <= 10 * v
=============================================================================
