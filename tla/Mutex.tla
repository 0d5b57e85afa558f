------------------------------- MODULE Mutex -------------------------------
(***************************************************************************)
(* What ops/run_lock.py promises its callers, and no more: at most one     *)
(* owner at a time, taken only when free, given up only by its owner (who  *)
(* may also lose it by dying).                                             *)
(***************************************************************************)
CONSTANTS Client, Nobody

VARIABLE owner

Init == owner = Nobody

Take(c) ==
  /\ owner = Nobody
  /\ owner' = c

Drop ==
  /\ owner # Nobody
  /\ owner' = Nobody

Next == Drop \/ \E c \in Client : Take(c)

Spec == Init /\ [][Next]_owner
=============================================================================
