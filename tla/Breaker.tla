------------------------------ MODULE Breaker ------------------------------
(***************************************************************************)
(* The two files of the circuit breaker, execution/breaker.py: the halt    *)
(* file and the high-water mark.  Their users are separate processes: the  *)
(* rebalance runs, dry ones included, which call Breaker.check; the        *)
(* handlers of halt_trading and resume_trading                             *)
(* (orchestrator/conversation.py); and the divergence check                *)
(* (execution/divergence.py), which halts on its own.  Nothing locks the   *)
(* files.                                                                  *)
(***************************************************************************)
EXTENDS Naturals

CONSTANTS
  Run,          \* rebalance runs, at the breaker again and again
  MaxEquity,    \* bound on the account's equity
  MaxDrawdown,  \* max_drawdown_pct
  Overlap       \* TRUE if two runs may be at the breaker at once

ASSUME EquityAssumption == MaxEquity \in Nat \ {0}
ASSUME DrawdownAssumption == MaxDrawdown \in 1 .. 99
ASSUME OverlapAssumption == Overlap \in BOOLEAN

VARIABLES
  equity,      \* the account's equity
  halt,        \* the halt file: whose note it holds, if it is there
  mark,        \* the high-water mark on file; 0 when there is none yet
  tmp,         \* its temporary file; 0 when there is none
  pc,          \* where each run is in check
  read,        \* the equity of each run's snapshot
  diverging,   \* where the divergence check is
  peak,        \* the greatest equity a check has passed
  halted       \* the runs that began under a halt not lifted since

breakerVars == <<equity, halt, mark, tmp, pc, read, diverging, peak, halted>>

-----------------------------------------------------------------------------
(* Types *)

Equity == 1 .. MaxEquity
EquityOrNone == 0 .. MaxEquity

BreakerTypeOK ==
  /\ equity \in EquityOrNone
  /\ halt \in {"none", "operator", "divergence"}
  /\ mark \in EquityOrNone
  /\ tmp \in EquityOrNone
  /\ pc \in [Run -> {"idle", "halt", "mark", "write", "replace", "pass"}]
  /\ read \in [Run -> Equity]
  /\ diverging \in {"idle", "write"}
  /\ peak \in EquityOrNone
  /\ halted \subseteq Run

-----------------------------------------------------------------------------
BreakerInit ==
  /\ equity \in EquityOrNone
  /\ halt = "none"
  /\ mark = 0
  /\ tmp = 0
  /\ pc = [r \in Run |-> "idle"]
  /\ read = [r \in Run |-> 1]
  /\ diverging = "idle"
  /\ peak = 0
  /\ halted = {}

Goto(r, label) == pc' = [pc EXCEPT ![r] = label]

Market ==
  /\ equity' \in EquityOrNone
  /\ UNCHANGED <<halt, mark, tmp, pc, read, diverging, peak, halted>>

-----------------------------------------------------------------------------
(* A run *)

\* The account snapshot, seconds before the breaker; check raises unless the
\* equity is positive.
Snapshot(r) ==
  /\ pc[r] = "idle"
  /\ equity # 0
  /\ Overlap \/ \A q \in Run : pc[q] = "idle"
  /\ read' = [read EXCEPT ![r] = equity]
  /\ halted' = IF halt = "none" THEN halted \ {r} ELSE halted \cup {r}
  /\ Goto(r, "halt")
  /\ UNCHANGED <<equity, halt, mark, tmp, diverging, peak>>

HaltSeen == halt # "none"

\* The halt file, or the daily notional: the run ends here.
CheckHalt(r) ==
  /\ pc[r] = "halt"
  /\ Goto(r, IF HaltSeen THEN "idle" ELSE "mark")
  /\ UNCHANGED <<equity, halt, mark, tmp, read, diverging, peak, halted>>

TripNotional(r) ==
  /\ pc[r] = "mark"
  /\ Goto(r, "idle")
  /\ UNCHANGED <<equity, halt, mark, tmp, read, diverging, peak, halted>>

\* Strictly more than the percentage below the mark.
TooFarBelow(e, m) == (m - e) * 100 > MaxDrawdown * m

\* Faulty variant: the mark follows the equity.
RaiseAlways(r) == TRUE

Raise(r) == mark = 0 \/ read[r] > mark

\* _read_high_water_mark and the comparison.
CheckDrawdown(r) ==
  /\ pc[r] = "mark"
  /\ Goto(r, IF mark > read[r] /\ TooFarBelow(read[r], mark) THEN "idle"
             ELSE IF Raise(r) THEN "write" ELSE "pass")
  /\ UNCHANGED <<equity, halt, mark, tmp, read, diverging, peak, halted>>

\* Faulty variant: the new mark is never moved into place.
WriteTmpOnly(r) ==
  /\ pc[r] = "write"
  /\ tmp' = read[r]
  /\ Goto(r, "pass")
  /\ UNCHANGED <<equity, halt, mark, read, diverging, peak, halted>>

WriteTmp(r) ==
  /\ pc[r] = "write"
  /\ tmp' = read[r]
  /\ Goto(r, "replace")
  /\ UNCHANGED <<equity, halt, mark, read, diverging, peak, halted>>

\* os.replace; without a temporary file, which another run has moved, the run
\* crashes before it trades.
ReplaceMark(r) ==
  /\ pc[r] = "replace"
  /\ IF tmp = 0 THEN Goto(r, "idle") /\ UNCHANGED <<mark, tmp>>
     ELSE Goto(r, "pass") /\ mark' = tmp /\ tmp' = 0
  /\ UNCHANGED <<equity, halt, read, diverging, peak, halted>>

\* check returns None: the run may trade.
Pass(r) ==
  /\ pc[r] = "pass"
  /\ peak' = IF read[r] > peak THEN read[r] ELSE peak
  /\ Goto(r, "idle")
  /\ UNCHANGED <<equity, halt, mark, tmp, read, diverging, halted>>

Crash(r) ==
  /\ pc[r] # "idle"
  /\ Goto(r, "idle")
  /\ UNCHANGED <<equity, halt, mark, tmp, read, diverging, peak, halted>>

-----------------------------------------------------------------------------
(* Who halts and resumes *)

\* halt_trading, or the runbook's echo.
HaltTrading ==
  /\ halt = "none"
  /\ halt' = "operator"
  /\ UNCHANGED <<equity, mark, tmp, pc, read, diverging, peak, halted>>

\* resume_trading: the file is unlinked, whosever it is.
ResumeTrading ==
  /\ halt # "none"
  /\ halt' = "none"
  /\ halted' = {}
  /\ UNCHANGED <<equity, mark, tmp, pc, read, diverging, peak>>

\* write_halt_file looks first ...
DivergenceLooks ==
  /\ diverging = "idle"
  /\ halt = "none"
  /\ diverging' = "write"
  /\ UNCHANGED <<equity, halt, mark, tmp, pc, read, peak, halted>>

\* ... and writes then.
DivergenceHalts ==
  /\ diverging = "write"
  /\ halt' = "divergence"
  /\ diverging' = "idle"
  /\ UNCHANGED <<equity, mark, tmp, pc, read, peak, halted>>

-----------------------------------------------------------------------------
RunStep(r) ==
  \/ Snapshot(r)
  \/ CheckHalt(r)
  \/ TripNotional(r)
  \/ CheckDrawdown(r)
  \/ WriteTmp(r)
  \/ ReplaceMark(r)
  \/ Pass(r)
  \/ Crash(r)

BreakerNext ==
  \/ Market
  \/ \E r \in Run : RunStep(r)
  \/ HaltTrading
  \/ ResumeTrading
  \/ DivergenceLooks
  \/ DivergenceHalts

BreakerSpec == BreakerInit /\ [][BreakerNext]_breakerVars

-----------------------------------------------------------------------------
(* Properties *)

\* The mark on file is at least every equity a check has passed, whichever run
\* was killed between its writes: the kill switch is never disarmed.
PeakOnFile == peak <= mark

\* The high-water mark is raised, never lowered.
MarkNeverLowered == [][mark' >= mark]_breakerVars

\* No run trades on an equity more than the drawdown below any equity an
\* earlier run has traded on, over whatever sequence of peaks, crashes and dry
\* runs.
DrawdownStops ==
  \A r \in Run : pc[r] = "pass" => ~(peak > read[r] /\ TooFarBelow(read[r], peak))

\* A run that began under a halt does not pass the breaker before somebody
\* lifted it, be it the operator's or the divergence check's.
HaltStops == \A r \in Run : pc[r] = "pass" => r \notin halted

-----------------------------------------------------------------------------
(* Statements of the source's comments that the code does not keep; the      *)
(* README names the comment and the configuration that shows it.             *)

\* The divergence check never overwrites a halt that is there already.
NoteKept == [][halt = "operator" => halt' # "divergence"]_breakerVars
=============================================================================
