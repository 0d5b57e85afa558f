----------------------------- MODULE MCRunLock -----------------------------
(***************************************************************************)
(* RunLock with up to three pipelines and one handler.                     *)
(***************************************************************************)
EXTENDS RunLock, TLC

CONSTANTS a, b, c, m, o  \* pipelines; m is started by hand; o is a handler

MCUnit == {"unit", "manual", "other"}

\* a and b are two launches of one thread's unit; c belongs to another thread.
MCUnitOf == [p \in Pipeline |-> IF p = m THEN "manual"
                                ELSE IF p = c THEN "other" ELSE "unit"]
=============================================================================
