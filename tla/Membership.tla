----------------------------- MODULE Membership -----------------------------
(***************************************************************************)
(* Point-in-time membership of one ticker in a universe such as us_liquid: *)
(* pit_membership_spans of data/make_universe.py, evaluated on the first   *)
(* trading day of each month, and refresh_universe_spans of                *)
(* data/refresh.py, which carries the spans across a nightly rebuild.      *)
(*                                                                         *)
(* Days are positions in the store's calendar, from 1 to its last day.     *)
(* bars is a function from the days the ticker has bars for, which have no *)
(* holes, to [dollar, price].                                              *)
(***************************************************************************)
EXTENDS Integers, FiniteSets, FiniteSetsExt, Functions

CONSTANTS
  Evaluation,  \* the first trading day of each month, 1 among them
  AdvWindow,   \* adv_window: trailing bars averaged
  MinAdv,      \* min_adv_usd
  MinPrice     \* min_price

ASSUME MembershipAssumption ==
  /\ 1 \in Evaluation /\ Evaluation \subseteq Nat \ {0}
  /\ AdvWindow \in Nat \ {0}
  /\ MinAdv \in Nat /\ MinPrice \in Nat

FirstBar(bars) == Min(DOMAIN bars)
LastBar(bars) == Max(DOMAIN bars)

\* The store as it was at the end of day e.
Until(bars, e) == [d \in {c \in DOMAIN bars : c <= e} |-> bars[d]]

-----------------------------------------------------------------------------
(* Evaluations *)

Trailing(bars, d) == {c \in DOMAIN bars : d - AdvWindow < c /\ c <= d}

Liquid(bars, d) ==
  /\ FoldFunctionOnSet(LAMBDA bar, sum : bar.dollar + sum, 0, bars, Trailing(bars, d))
       >= MinAdv * Cardinality(Trailing(bars, d))
  /\ bars[d].price >= MinPrice

\* _passes: before the first bar there is nothing to evaluate, after the last
\* one the ticker fails.
Passes(bars, d) == d \in DOMAIN bars /\ Liquid(bars, d)

Evaluated(bars, last) == {d \in Evaluation : FirstBar(bars) <= d /\ d <= last}

\* The evaluation before one that is not the first.
Previous(bars, d) == Max({c \in Evaluated(bars, d) : c < d})

\* The state after each evaluation: a member or not, and whether the last
\* evaluation disagreed.
States(bars, last) ==
  LET state[d \in Evaluated(bars, last)] ==
        IF d = Min(Evaluated(bars, last))
        THEN [member |-> Passes(bars, d), streak |-> 0]
        ELSE LET before == state[Previous(bars, d)]
             IN IF Passes(bars, d) = before.member THEN [before EXCEPT !.streak = 0]
                ELSE IF before.streak = 0 THEN [before EXCEPT !.streak = 1]
                ELSE [member |-> Passes(bars, d), streak |-> 0]
  IN state

\* The spans of a calendar that ends with last: from an entry to the day before
\* the exit that follows it, no span beyond the ticker's last bar.
Spans(bars, last) ==
  LET state == States(bars, last)
      first == Min(Evaluated(bars, last))
      entries == {d \in DOMAIN state : /\ state[d].member
                                       /\ d = first \/ ~state[Previous(bars, d)].member}
      exits(d) == {c \in DOMAIN state : c > d /\ ~state[c].member}
      end(d) == IF exits(d) = {} THEN last ELSE Min(exits(d)) - 1
  IN IF Evaluated(bars, last) = {} THEN {}
     ELSE {<<d, Min({end(d), LastBar(bars)})>> : d \in entries}

\* refresh_universe_spans: an end at the ticker's old end follows it.
FollowEnd(spans, oldEnd, newEnd) ==
  {<<s[1], IF s[2] >= oldEnd THEN newEnd ELSE s[2]>> : s \in spans}

MemberOn(spans, d) == \E s \in spans : s[1] <= d /\ d <= s[2]
=============================================================================
