---------------------------- MODULE ConfirmWindow ----------------------------
(***************************************************************************)
(* The portfolio that confirmation_returns of ops/confirm_window.py        *)
(* simulates day by day on the confirmation window, with names whose price *)
(* series ends on the way.  Days are positions in the store's calendar;    *)
(* the book of day d is chosen on the scores of day d - 1.  closes[s] is   *)
(* the set of days on which the store has a close of s, scores[d] the      *)
(* cross-section of day d.                                                 *)
(***************************************************************************)
EXTENDS Selection

CONSTANTS
  Symbol,   \* the names of the store
  FirstDay, \* the first day of the window, at least 1
  LastDay   \* its last day

ASSUME WindowAssumption ==
  /\ Symbol \subseteq Int
  /\ FirstDay \in Nat \ {0}
  /\ LastDay \in Nat

Window == FirstDay .. LastDay

\* series_ended: s has closes, and none on or after d.
Ended(closes, s, d) == closes[s] # {} /\ \A e \in closes[s] : e < d

\* The scores of the day before, without the names that have ended.
Cross(scores, closes, d) ==
  [s \in {t \in DOMAIN scores[d - 1] : ~Ended(closes, t, d)} |-> scores[d - 1][s]]

\* The book without the names that have ended: those are sold at the close of
\* the day before, their last one.
Held(closes, book, d) == {s \in book : ~Ended(closes, s, d)}
TerminalExits(closes, book, d) == {s \in book : Ended(closes, s, d)}

NextBook(scores, closes, book, d) ==
  Holdings(Cross(scores, closes, d), Held(closes, book, d))

\* A day's return needs the close of the day and of the day before.
Priced(closes, book, d) == \A s \in book : {d - 1, d} \subseteq closes[s]

\* What raises ConfirmWindowError on day d.
Fails(scores, closes, book, d) ==
  \/ DOMAIN Cross(scores, closes, d) = {}
  \/ NextBook(scores, closes, book, d) = {}
  \/ ~Priced(closes, NextBook(scores, closes, book, d), d)

\* The books of a window, nothing being held before it.
Books(scores, closes) ==
  LET book[d \in FirstDay - 1 .. LastDay] ==
        IF d = FirstDay - 1 THEN {} ELSE NextBook(scores, closes, book[d - 1], d)
  IN book

\* The simulation reaches the end of the window.
Completes(scores, closes) ==
  \A d \in Window : ~Fails(scores, closes, Books(scores, closes)[d - 1], d)

-----------------------------------------------------------------------------
(* What a store and a prediction look like *)

\* No holes between a name's first close and its last (validate_store).
Unbroken(closes) ==
  \A s \in Symbol : closes[s] \subseteq Nat /\ \A d, e \in closes[s] : d .. e \subseteq closes[s]

\* A cross-section scores names that had a bar on its day.
ScoredHasBar(scores, closes) ==
  \A d \in DOMAIN scores :
    \A s \in DOMAIN scores[d] : s \in Symbol /\ scores[d][s] \in Int /\ d \in closes[s]
=============================================================================
