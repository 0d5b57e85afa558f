--------------------------- MODULE StoreRegister ---------------------------
(***************************************************************************)
(* What the builders of the data store promise its readers together: the   *)
(* store path shows one whole store or nothing, a store that follows       *)
(* another carries it, and in between only a universe is written into the  *)
(* store that is shown.  The carry is owed to the last store shown, however *)
(* long nothing is, unless that one is given up while nothing is.          *)
(***************************************************************************)
EXTENDS Naturals

CONSTANTS Ticker, Universe, Day,
          Fixed,   \* the universe that nobody writes
          None

VARIABLES shown,   \* what a reader of the path finds
          kept     \* what the next store has to carry

Store == [bars : [Ticker -> SUBSET Day], members : [Universe -> SUBSET Ticker]]

Traded(s) == {t \in Ticker : s.bars[t] # {}}

\* No ticker misses a trading day between two of its bars, and members trade.
Whole(s) ==
  /\ s \in Store
  /\ Traded(s) # {}
  /\ \A t, other \in Ticker : \A d \in s.bars[other] \ s.bars[t] :
       ~ \E e, f \in s.bars[t] : e < d /\ d < f
  /\ \A u \in Universe : s.members[u] \subseteq Traded(s)

Carries(new, s) ==
  /\ \A t \in Ticker : s.bars[t] \subseteq new.bars[t]
  /\ new.members = s.members

Init == Whole(shown) /\ kept = shown

Hide ==
  /\ shown # None
  /\ shown' = None
  /\ UNCHANGED kept

Show ==
  /\ shown = None
  /\ Whole(shown')
  /\ kept # None => Carries(shown', kept)
  /\ kept' = shown'

Write(u) ==
  /\ shown # None /\ u # Fixed
  /\ \E tickers \in SUBSET Traded(shown) :
       shown' = [shown EXCEPT !.members[u] = tickers]
  /\ kept' = shown'

GiveUp ==
  /\ shown = None
  /\ kept' = None
  /\ UNCHANGED shown

Next == Hide \/ Show \/ GiveUp \/ \E u \in Universe : Write(u)

Spec == Init /\ [][Next]_<<shown, kept>>
=============================================================================
