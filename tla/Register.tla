------------------------------ MODULE Register ------------------------------
(***************************************************************************)
(* What the promotion routes, the rollback and the sweep promise together: *)
(* a register of the strategy that trades, changed in one step and only to *)
(* a strategy that is there, with a trail in which every entry names its   *)
(* predecessor; and what the newest entries name is never discarded.       *)
(***************************************************************************)
EXTENDS Naturals, Sequences

CONSTANTS Strategy, None, Kept

VARIABLES current, trail, available

Newest == {trail[i].strategy : i \in {j \in DOMAIN trail : j + Kept > Len(trail)}}

Init ==
  /\ current = None
  /\ trail = << >>
  /\ available = {}

Arrive(s) ==
  /\ available' = available \cup {s}
  /\ UNCHANGED <<current, trail>>

Promote(s) ==
  /\ s \in available
  /\ current' = s
  /\ trail' = Append(trail, [strategy |-> s, replaced |-> current])
  /\ UNCHANGED available

Discard(s) ==
  /\ s \notin Newest
  /\ available' = available \ {s}
  /\ UNCHANGED <<current, trail>>

Next == \E s \in Strategy : Arrive(s) \/ Promote(s) \/ Discard(s)

Spec == Init /\ [][Next]_<<current, trail, available>>
=============================================================================
