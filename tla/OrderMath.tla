------------------------------ MODULE OrderMath ------------------------------
(***************************************************************************)
(* The amounts of a rebalance, which TradingDay leaves open: the order     *)
(* list of execution/diff.py, the cap by buying power of                   *)
(* execution/rebalance.py, the limits of execution/order_gate.py and the   *)
(* decimal form of execution/alpaca_client.py.                             *)
(*                                                                         *)
(* Money is in cents, a quantity in units of which Share make a share, so  *)
(* that a value or notional is in cents times Share.  Symbols are numbers  *)
(* in the order of the alphabet; book has the quantity of every symbol, 0  *)
(* when it is not held and negative when it is short.  Weights are equal.  *)
(***************************************************************************)
EXTENDS Integers, SequencesExt

CONSTANTS
  Share,           \* units of a share
  OffsetBp,        \* limit_offset_pct, in hundredths of a percent
  MinRebalance,    \* min_rebalance_notional_usd
  WireDigits,      \* significant digits of the format :g
  MaxDigits        \* bound on the digits of a quantity

ASSUME OrderMathAssumption ==
  /\ Share \in Nat \ {0} /\ OffsetBp \in 0 .. 9999 /\ MinRebalance \in Nat
  /\ WireDigits \in Nat \ {0} /\ MaxDigits \in Nat

Magnitude(n) == IF n < 0 THEN -n ELSE n

-----------------------------------------------------------------------------
(* compute_orders *)

\* floor(weight * equity / price)
TargetShares(targets, equity, price) == equity \div (Cardinality(targets) * price)

\* Exits are exact.  Anything else is whole shares, and nothing at all when the
\* symbol is held and the trade is too small.
Trade(book, targets, equity, prices, s) ==
  LET delta == Share * TargetShares(targets, equity, prices[s]) - book[s]
      whole == Share * (Magnitude(delta) \div Share)
  IN IF s \notin targets THEN -book[s]
     ELSE IF book[s] # 0 /\ whole * prices[s] < Share * MinRebalance THEN 0
     ELSE IF delta > 0 THEN whole ELSE -whole

\* marketable_limit_price: through the market, rounded away from it.
LimitPrice(price, side) ==
  IF side = "buy" THEN -((-price * (10000 + OffsetBp)) \div 10000)
  ELSE (price * (10000 - OffsetBp)) \div 10000

\* All sells, then all buys.
ComputeOrders(book, targets, equity, prices) ==
  LET trade == [s \in DOMAIN book |-> Trade(book, targets, equity, prices, s)]
      side(s) == IF trade[s] < 0 THEN "sell" ELSE "buy"
      order(s) == [symbol |-> s, side |-> side(s), qty |-> Magnitude(trade[s]),
                   limit |-> LimitPrice(prices[s], side(s))]
      orders == {order(s) : s \in {t \in DOMAIN book : trade[t] # 0}}
  IN SetToSortSeq(orders, LAMBDA x, y : IF x.side = y.side THEN x.symbol < y.symbol
                                        ELSE x.side = "sell")

\* DiffError
DiffRefuses(book, targets, equity, prices) ==
  \/ equity <= 0
  \/ \E order \in ToSet(ComputeOrders(book, targets, equity, prices)) : order.limit <= 0

Notional(order) == order.qty * order.limit

-----------------------------------------------------------------------------
(* cap_buys_to_buying_power *)

CapBuys(orders, power) ==
  FoldLeft(LAMBDA taken, order :
             IF order.side = "sell" THEN [taken EXCEPT !.kept = Append(@, order)]
             ELSE IF Notional(order) <= taken.remaining
             THEN [taken EXCEPT !.kept = Append(@, order), !.remaining = @ - Notional(order)]
             ELSE [taken EXCEPT !.deferred = Append(@, order)],
           [kept |-> <<>>, deferred |-> <<>>, remaining |-> power], orders)

-----------------------------------------------------------------------------
(* evaluate_orders.  limits has one field for each key of the limits file.   *)

Applied(book, order) ==
  [book EXCEPT ![order.symbol] = IF order.side = "buy" THEN @ + order.qty ELSE @ - order.qty]

HeldIn(book) == {s \in DOMAIN book : book[s] # 0}

\* One order against the book and the count that those before it leave.
WithinGate(order, book, count, equity, limits) ==
  LET old == book[order.symbol]
      new == Applied(book, order)[order.symbol]
  IN /\ Notional(order) <= Share * limits.max_order_notional_usd
     /\ count + 1 <= limits.max_day_orders
     /\ old = 0 => Cardinality(HeldIn(book)) + 1 <= limits.max_total_positions
     /\ Magnitude(new) > Magnitude(old) =>
          100 * Magnitude(new) * order.limit <= Share * equity * limits.max_position_pct_equity

EvaluateOrders(orders, book, placed, equity, limits) ==
  FoldLeft(LAMBDA gate, order :
             IF WithinGate(order, gate.book, placed + gate.approved, equity, limits)
             THEN [gate EXCEPT !.book = Applied(@, order), !.approved = @ + 1]
             ELSE [gate EXCEPT !.rejected = @ + 1],
           [book |-> book, approved |-> 0, rejected |-> 0], orders)

-----------------------------------------------------------------------------
(* _decimal_str, in units of which one make 1: whole numbers are exact, any  *)
(* other has WireDigits significant digits.                                  *)

DigitsOf(v) == CHOOSE n \in 1 .. MaxDigits : 10 ^ (n - 1) <= v /\ v < 10 ^ n

Wire(v, one) ==
  IF v % one = 0 \/ DigitsOf(v) <= WireDigits THEN v
  ELSE LET step == 10 ^ (DigitsOf(v) - WireDigits)
       IN step * ((v + step \div 2) \div step)
=============================================================================
