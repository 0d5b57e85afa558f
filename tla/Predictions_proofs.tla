------------------------- MODULE Predictions_proofs -------------------------
(***************************************************************************)
(* Proofs about Predictions: a strategy that the gate promoted is traded   *)
(* on scores that reproduce its backtest, and the gate does not promote    *)
(* two strategies in turns, for any workspaces, numbers of days, runs and  *)
(* containers.  Then the books of the confirmation window (ConfirmWindow)  *)
(* and the selection they come from, for any scores and closes.            *)
(***************************************************************************)
EXTENDS Predictions, ConfirmWindow, FiniteSetTheorems, TLAPS

(***************************************************************************)
(* Types, without the bounds of a run                                      *)
(***************************************************************************)
RunRecord ==
  [kind : {"backtest", "refresh", "confirm"}, until : Nat, end : Nat,
   faithful : {"yes", "no"}, whole : {"yes", "no"}]

ContainerRecord ==
  [ws : Workspace, kind : {"refresh", "confirm"}, until : Nat, since : Nat,
   faithful : {"yes", "no"}, pc : {"predict", "write"}]

RefreshRecord == [pc : {"wait", "ran", "prune"}, ws : Workspace, until : Nat]

GateRecord ==
  [pc : {"look", "wait", "reload", "verdict"}, side : {"incumbent", "candidate"},
   candidate : Workspace, incumbent : Workspace, until : Nat]

Typed ==
  /\ today \in Nat /\ store \in Nat
  /\ runs \in [Workspace -> Seq(RunRecord)]
  /\ snap \in [Workspace -> Snap]
  /\ pointer \in [ws : Workspace, by : {"gate", "hand"}]
  /\ container \subseteq ContainerRecord
  /\ refresh = IdleRefresh \/ refresh = [pc |-> "due"] \/ refresh \in RefreshRecord
  /\ gate = IdleGate \/ gate \in GateRecord
  /\ rebal = IdleRebal
       \/ rebal \in [pc : {"loaded"}, ws : Workspace, by : {"gate", "hand"}]

(***************************************************************************)
(* What the gate's decision rests on                                       *)
(***************************************************************************)
\* A snapshot that is complete holds the conf SnapOf says.
Snapped ==
  \A w \in Workspace :
    /\ snap[w] = "right" => w \in match
    /\ snap[w] = "wrong" => w \notin match

\* A run's scores are the backtest's own, or the workspace's conf decides.
Scored(w, run) ==
  IF run.kind = "backtest" THEN run.end = TestEnd /\ run.faithful = "yes"
  ELSE run.faithful = "yes" <=> w \in match

\* The oldest run is the backtest's.
KeptIn(w) ==
  /\ Len(runs[w]) >= 1
  /\ runs[w][1].kind = "backtest"
  /\ \A n \in 1 .. Len(runs[w]) : Scored(w, runs[w][n])

Kept == \A w \in Workspace : KeptIn(w)

\* A container computes from the snapshot it was started with.
Computing == \A c \in container : c.faithful = "yes" <=> c.ws \in match

\* A window ends long after the backtest.
Later ==
  /\ store >= TestEnd + ConfirmDays
  /\ gate \in GateRecord => gate.until >= TestEnd + ConfirmDays

\* Whoever passed the reproduction check, was promoted for it, or is traded.
Reproduced ==
  /\ gate \in GateRecord /\ gate.pc = "verdict" => gate.candidate \in match
  /\ pointer.by = "gate" => pointer.ws \in match
  /\ rebal # IdleRebal /\ rebal.by = "gate" => rebal.ws \in match

IInv ==
  /\ Typed
  /\ Snapped
  /\ Kept
  /\ Computing
  /\ Later
  /\ Reproduced
  /\ GatedIsFaithful

USE DEF IdleRefresh, IdleGate, IdleRebal, NoTrade, NoCheck, Snap

(***************************************************************************)
(* The initial states                                                      *)
(***************************************************************************)
LEMMA InitHolds == ASSUME Init PROVE IInv
<1> USE PredictionsAssumption DEF Init
<1>1. runs \in [Workspace -> Seq(RunRecord)]
  BY DEF RunRecord
<1>2. Typed
  BY <1>1 DEF Typed, SnapOf
<1>3. Snapped
  BY DEF Snapped, SnapOf
<1>4. Kept
  BY DEF Kept, KeptIn, Scored
<1>5. Later
  BY DEF Later, GateRecord
<1>6. Computing /\ Reproduced /\ GatedIsFaithful
  BY DEF Computing, Reproduced, GateRecord, GatedIsFaithful
<1> QED
  BY <1>2, <1>3, <1>4, <1>5, <1>6 DEF IInv

(***************************************************************************)
(* The clock and the store                                                 *)
(***************************************************************************)
LEMMA ClockHolds ==
  ASSUME IInv, NextDay \/ StoreAdvances PROVE IInv'
<1> USE PredictionsAssumption DEF NextDay, StoreAdvances, IInv
<1>1. Typed'
  BY DEF Typed
<1>2. Snapped' /\ Kept' /\ Computing'
  BY DEF Snapped, Kept, KeptIn, Scored, Computing
<1>3. Later'
  BY DEF Later, Typed
<1>4. Reproduced' /\ GatedIsFaithful'
  BY DEF Reproduced, GatedIsFaithful
<1> QED
  BY <1>1, <1>2, <1>3, <1>4

(***************************************************************************)
(* The containers                                                          *)
(***************************************************************************)
\* Appending a run, or changing one without its kind, end and faithfulness,
\* leaves a workspace's runs as Kept wants them.
LEMMA AppendHolds ==
  ASSUME NEW w \in Workspace, NEW run \in RunRecord, IInv, UNCHANGED match,
         runs' = [runs EXCEPT ![w] = Append(@, run)], Scored(w, run)
  PROVE  runs' \in [Workspace -> Seq(RunRecord)] /\ Kept'
<1>1. runs \in [Workspace -> Seq(RunRecord)]
  BY DEF IInv, Typed
<1>2. runs' \in [Workspace -> Seq(RunRecord)]
  BY <1>1
<1>3. ASSUME NEW x \in Workspace PROVE KeptIn(x)'
  <2>1. KeptIn(x)
    BY DEF IInv, Kept
  <2>2. CASE x = w
    BY <1>1, <2>1, <2>2 DEF KeptIn, Scored
  <2>3. CASE x # w
    BY <1>1, <2>1, <2>3 DEF KeptIn, Scored
  <2> QED
    BY <2>2, <2>3
<1> QED
  BY <1>2, <1>3 DEF Kept

LEMMA WriteBeginHolds ==
  ASSUME IInv, NEW c \in container, WriteBegin(c) PROVE IInv'
<1> USE PredictionsAssumption
<1>1. c \in ContainerRecord /\ store \in Nat
  BY DEF IInv, Typed
<1>2. PICK end \in {c.since, MinOf(store, c.until)} :
        runs' = [runs EXCEPT ![c.ws] = Append(@,
                   [kind |-> c.kind, until |-> c.until, end |-> end,
                    faithful |-> c.faithful, whole |-> "no"])]
  BY DEF WriteBegin
<1> DEFINE run == [kind |-> c.kind, until |-> c.until, end |-> end,
                   faithful |-> c.faithful, whole |-> "no"]
<1>3. run \in RunRecord /\ c.ws \in Workspace
  BY <1>1 DEF RunRecord, ContainerRecord, MinOf
<1>4. Scored(c.ws, run)
  BY <1>1 DEF Scored, IInv, Computing, ContainerRecord
<1>5. runs' \in [Workspace -> Seq(RunRecord)] /\ Kept'
  BY <1>2, <1>3, <1>4, AppendHolds DEF WriteBegin
<1>6. container' \subseteq ContainerRecord /\ Computing'
  <2>1. [c EXCEPT !.pc = "write"] \in ContainerRecord
    BY <1>1 DEF ContainerRecord
  <2>2. container' = (container \ {c}) \cup {[c EXCEPT !.pc = "write"]}
    BY DEF WriteBegin
  <2>3. /\ [c EXCEPT !.pc = "write"].faithful = c.faithful
        /\ [c EXCEPT !.pc = "write"].ws = c.ws
    BY <1>1 DEF ContainerRecord
  <2> QED
    BY <2>1, <2>2, <2>3 DEF WriteBegin, IInv, Typed, Computing
<1>7. Typed'
  BY <1>5, <1>6 DEF WriteBegin, IInv, Typed
<1>8. Snapped' /\ Later' /\ Reproduced' /\ GatedIsFaithful'
  BY DEF WriteBegin, IInv, Snapped, Later, Reproduced, GatedIsFaithful
<1> QED
  BY <1>5, <1>6, <1>7, <1>8 DEF IInv

\* What an exit code does to those who wait for it.
LEMMA ExitKeeps ==
  ASSUME IInv, NEW c, Exit0(c), UNCHANGED <<store, match>>
  PROVE  /\ refresh' = IdleRefresh \/ refresh' = [pc |-> "due"] \/ refresh' \in RefreshRecord
         /\ gate' = IdleGate \/ gate' \in GateRecord
         /\ Later'
         /\ gate' \in GateRecord /\ gate'.pc = "verdict" => gate'.candidate \in match
<1>1. refresh' = IdleRefresh \/ refresh' = [pc |-> "due"] \/ refresh' \in RefreshRecord
  BY DEF Exit0, RefreshWaits, IInv, Typed, RefreshRecord
<1>2. CASE GateWaits(c)
  <2>1. gate \in GateRecord /\ gate' = [gate EXCEPT !.pc = "reload"]
    BY <1>2 DEF Exit0, GateWaits, IInv, Typed
  <2>2. gate' \in GateRecord /\ gate'.pc = "reload" /\ gate'.until = gate.until
    BY <2>1 DEF GateRecord
  <2> QED
    BY <1>1, <2>1, <2>2 DEF IInv, Later
<1>3. CASE ~GateWaits(c)
  BY <1>1, <1>3 DEF Exit0, IInv, Typed, Later, Reproduced
<1> QED
  BY <1>2, <1>3

LEMMA WriteEndHolds ==
  ASSUME IInv, NEW c \in container, WriteEnd(c) PROVE IInv'
<1>1. runs \in [Workspace -> Seq(RunRecord)] /\ c.ws \in Workspace
  BY DEF IInv, Typed, ContainerRecord
<1>2. PICK n \in Unfinished(c) :
        runs' = [runs EXCEPT ![c.ws][n] = [@ EXCEPT !.whole = "yes", !.until = 0]]
  BY DEF WriteEnd
<1>3. n \in 1 .. Len(runs[c.ws]) /\ runs[c.ws][n] \in RunRecord
  BY <1>1 DEF Unfinished
<1> DEFINE run == [runs[c.ws][n] EXCEPT !.whole = "yes", !.until = 0]
<1>4. runs' = [runs EXCEPT ![c.ws][n] = run]
  BY <1>2
<1>5. /\ run \in RunRecord
      /\ run.kind = runs[c.ws][n].kind
      /\ run.end = runs[c.ws][n].end
      /\ run.faithful = runs[c.ws][n].faithful
  BY <1>3 DEF RunRecord
<1> HIDE DEF run
<1>6. runs' \in [Workspace -> Seq(RunRecord)]
  BY <1>1, <1>3, <1>4, <1>5
<1>7. Kept'
  <2> SUFFICES ASSUME NEW x \in Workspace PROVE KeptIn(x)'
    BY DEF Kept
  <2>1. UNCHANGED match
    BY DEF WriteEnd
  <2>2. KeptIn(x)
    BY DEF IInv, Kept
  <2>3. CASE x # c.ws
    BY <1>1, <1>4, <2>1, <2>2, <2>3 DEF KeptIn, Scored
  <2>4. CASE x = c.ws
    <3>1. runs'[x] = [runs[x] EXCEPT ![n] = run]
      BY <1>1, <1>4, <2>4
    <3>2. Len(runs'[x]) = Len(runs[x])
      BY <1>1, <1>3, <1>5, <2>4, <3>1
    <3>3. \A k \in 1 .. Len(runs[x]) :
            runs'[x][k] = IF k = n THEN run ELSE runs[x][k]
      BY <1>1, <1>3, <2>4, <3>1
    <3> QED
      BY <1>3, <1>5, <2>1, <2>2, <2>4, <3>2, <3>3 DEF KeptIn, Scored
  <2> QED
    BY <2>3, <2>4
<1>8. container' \subseteq ContainerRecord /\ Computing'
  BY DEF WriteEnd, IInv, Typed, Computing
<1>9. Typed' /\ Later' /\ Reproduced'
  BY <1>6, <1>8, ExitKeeps DEF WriteEnd, IInv, Typed, Reproduced
<1>10. Snapped' /\ GatedIsFaithful'
  BY DEF WriteEnd, IInv, Snapped, GatedIsFaithful
<1> QED
  BY <1>7, <1>8, <1>9, <1>10 DEF IInv

LEMMA ContainerFailsHolds ==
  ASSUME IInv, NEW c \in container, ContainerFails(c) PROVE IInv'
<1> USE DEF ContainerFails, IInv
<1>1. Typed'
  BY DEF Typed
<1>2. Snapped' /\ Kept' /\ Computing'
  BY DEF Snapped, Kept, KeptIn, Scored, Computing
<1>3. Later' /\ Reproduced'
  BY DEF Later, Reproduced, GateRecord
<1>4. GatedIsFaithful'
  BY DEF GatedIsFaithful
<1> QED
  BY <1>1, <1>2, <1>3, <1>4

(***************************************************************************)
(* The morning's refresh                                                   *)
(***************************************************************************)
\* A container that is started from a complete snapshot.
LEMMA LaunchHolds ==
  ASSUME IInv, NEW w \in Workspace, NEW kind \in {"refresh", "confirm"},
         NEW until \in Nat, Complete(w), Launch(w, kind, until), UNCHANGED match
  PROVE  container' \subseteq ContainerRecord /\ Computing'
<1> DEFINE c == [ws |-> w, kind |-> kind, until |-> until,
                 since |-> MinOf(store, until),
                 faithful |-> IF snap[w] = "right" THEN "yes" ELSE "no",
                 pc |-> "predict"]
<1>1. c \in ContainerRecord
  BY DEF ContainerRecord, MinOf, IInv, Typed
<1>2. c.faithful = "yes" <=> c.ws \in match
  BY DEF Complete, IInv, Snapped
<1>3. container' = container \cup {c}
  BY DEF Launch
<1> QED
  BY <1>1, <1>2, <1>3 DEF IInv, Typed, Computing

LEMMA RefreshRunHolds == ASSUME IInv, RefreshRun PROVE IInv'
<1>1. pointer.ws \in Workspace /\ today \in Nat
  BY DEF IInv, Typed
<1>2. container' \subseteq ContainerRecord /\ Computing'
  BY <1>1, LaunchHolds DEF RefreshRun
<1>3. refresh' \in RefreshRecord
  BY <1>1 DEF RefreshRun, RefreshRecord
<1>4. Typed'
  BY <1>2, <1>3 DEF RefreshRun, IInv, Typed
<1>5. Snapped' /\ Kept' /\ Later' /\ Reproduced' /\ GatedIsFaithful'
  BY DEF RefreshRun, IInv, Snapped, Kept, KeptIn, Scored, Later, Reproduced,
         GatedIsFaithful
<1> QED
  BY <1>2, <1>4, <1>5 DEF IInv

LEMMA RefreshQuietHolds ==
  ASSUME IInv,
         RefreshRefused \/ RefreshAlreadyFresh \/ RefreshTimesOut \/ RefreshSelfCheck
  PROVE  IInv'
<1> USE DEF RefreshRefused, RefreshAlreadyFresh, RefreshTimesOut, RefreshSelfCheck, IInv
<1>1. Typed'
  <2>1. refresh' = IdleRefresh \/ refresh' \in RefreshRecord
    BY DEF Typed, RefreshRecord
  <2> QED
    BY <2>1 DEF Typed
<1>2. Snapped' /\ Kept' /\ Computing'
  BY DEF Snapped, Kept, KeptIn, Scored, Computing
<1>3. Later' /\ Reproduced' /\ GatedIsFaithful'
  BY DEF Later, Reproduced, GatedIsFaithful
<1> QED
  BY <1>1, <1>2, <1>3

\* Pruning removes runs and keeps the others' order; the first one stays the
\* first, being the backtest's.
LEMMA PruneHolds == ASSUME IInv, RefreshPrune PROVE IInv'
<1>0. PICK w \in Workspace : w = refresh.ws
  BY DEF RefreshPrune, RefreshRecord, IInv, Typed
<1> DEFINE left == DOMAIN runs[w] \ Prunable(w)
           size == Cardinality(left)
<1>1. w \in Workspace /\ UNCHANGED match /\ PruneRuns(w)
  BY <1>0 DEF RefreshPrune
<1>2. runs \in [Workspace -> Seq(RunRecord)]
  BY DEF IInv, Typed
<1>3. KeptIn(w)
  BY <1>1 DEF IInv, Kept
<1>4. left \subseteq 1 .. Len(runs[w]) /\ 1 \in left
  BY <1>1, <1>2, <1>3 DEF KeptIn, Prunable
<1>5. size \in Nat /\ IsFiniteSet(left)
  <2>1. IsFiniteSet(1 .. Len(runs[w]))
    BY <1>1, <1>2, FS_Interval
  <2>2. IsFiniteSet(left)
    BY <2>1, <1>4, FS_Subset
  <2> QED
    BY <2>2, FS_CardinalityType
<1>6. PICK f \in [1 .. size -> left] :
        /\ Increasing(f)
        /\ {f[k] : k \in 1 .. size} = left
        /\ runs' = [runs EXCEPT ![w] = [k \in 1 .. size |-> runs[w][f[k]]]]
  BY <1>1 DEF PruneRuns
<1> HIDE DEF left, size
<1>7. size >= 1 /\ f[1] = 1
  <2>1. PICK k \in 1 .. size : f[k] = 1
    BY <1>4, <1>6
  <2>2. f[1] \in 1 .. Len(runs[w])
    BY <1>4, <1>5, <1>6, <2>1
  <2>3. k = 1
    BY <1>5, <1>6, <2>1, <2>2 DEF Increasing
  <2> QED
    BY <1>5, <2>1, <2>3
<1>8. runs'[w] = [k \in 1 .. size |-> runs[w][f[k]]]
  BY <1>1, <1>2, <1>6
<1>9. \A k \in 1 .. size : f[k] \in 1 .. Len(runs[w]) /\ runs[w][f[k]] \in RunRecord
  BY <1>1, <1>2, <1>4, <1>6
<1>10. runs'[w] \in Seq(RunRecord) /\ Len(runs'[w]) = size
  BY <1>5, <1>8, <1>9
<1>11. runs' \in [Workspace -> Seq(RunRecord)]
  BY <1>1, <1>2, <1>6, <1>8, <1>10
<1>12. KeptIn(w)'
  BY <1>1, <1>3, <1>5, <1>7, <1>8, <1>9, <1>10 DEF KeptIn, Scored
<1>13. Kept'
  <2> SUFFICES ASSUME NEW x \in Workspace PROVE KeptIn(x)'
    BY DEF Kept
  <2>1. CASE x = w
    BY <1>12, <2>1
  <2>2. CASE x # w
    <3>1. runs'[x] = runs[x]
      BY <1>2, <1>6, <2>2
    <3> QED
      BY <1>1, <3>1 DEF IInv, Kept, KeptIn, Scored
  <2> QED
    BY <2>1, <2>2
<1>14. Typed'
  BY <1>11 DEF RefreshPrune, IInv, Typed
<1>15. Snapped' /\ Computing' /\ Later' /\ Reproduced' /\ GatedIsFaithful'
  BY DEF RefreshPrune, IInv, Snapped, Computing, Later, Reproduced, GatedIsFaithful
<1> QED
  BY <1>13, <1>14, <1>15 DEF IInv

(***************************************************************************)
(* The gate                                                                *)
(***************************************************************************)
LEMMA SnapOfFits ==
  ASSUME NEW w \in Workspace
  PROVE  /\ SnapOf(w) \in Snap
         /\ SnapOf(w) = "right" => w \in match
         /\ SnapOf(w) = "wrong" => w \notin match
BY DEF SnapOf

\* A snapshot is taken, or cut, or stays what it is.
LEMMA SnapHolds ==
  ASSUME IInv, NEW w \in Workspace, NEW s \in {snap[w], SnapOf(w), "cut"},
         snap' = [snap EXCEPT ![w] = s], UNCHANGED match
  PROVE  snap' \in [Workspace -> Snap] /\ Snapped'
BY SnapOfFits DEF IInv, Typed, Snapped

LEMMA GateStartHolds ==
  ASSUME IInv, NEW c \in Workspace, NEW until \in Day, GateStart(c, until) PROVE IInv'
<1> USE PredictionsAssumption
<1>1. snap' \in [Workspace -> Snap] /\ Snapped'
  BY SnapHolds DEF GateStart, IInv, Typed
<1>2. /\ gate' \in GateRecord /\ gate'.pc = "look"
      /\ gate'.until = until /\ until >= TestEnd + ConfirmDays
  BY DEF GateStart, GateRecord, Day, WindowEnds, IInv, Typed, Later
<1>3. Typed' /\ Later'
  BY <1>1, <1>2 DEF GateStart, IInv, Typed, Later
<1>4. Kept' /\ Computing' /\ Reproduced' /\ GatedIsFaithful'
  BY <1>2 DEF GateStart, IInv, Kept, KeptIn, Scored, Computing, Reproduced,
              GatedIsFaithful
<1> QED
  BY <1>1, <1>3, <1>4 DEF IInv

LEMMA SnapshotCutHolds ==
  ASSUME IInv, NEW w \in Workspace, SnapshotCut(w) PROVE IInv'
<1>1. snap' \in [Workspace -> Snap] /\ Snapped'
  BY SnapHolds DEF SnapshotCut
<1>2. UNCHANGED <<match, today, store, runs, pointer, hands, container, refresh,
                  checked, gate, beaten, rebal, trade>>
  BY DEF SnapshotCut
<1>3. Typed'
  BY <1>1, <1>2 DEF IInv, Typed
<1>4. Kept' /\ Computing'
  BY <1>2 DEF IInv, Kept, KeptIn, Scored, Computing
<1>5. Later' /\ Reproduced' /\ GatedIsFaithful'
  BY <1>2 DEF IInv, Later, Reproduced, GatedIsFaithful
<1> QED
  BY <1>1, <1>3, <1>4, <1>5 DEF IInv

LEMMA GateErrsHolds == ASSUME IInv, GateErrs PROVE IInv'
<1>1. Later' /\ Reproduced'
  BY DEF GateErrs, IInv, Later, Reproduced, GateRecord
<1> QED
  BY <1>1 DEF GateErrs, IInv, Typed, Snapped, Kept, KeptIn, Scored, Computing,
              GatedIsFaithful

\* The reproduction check, on a prediction that reaches past the backtest.
LEMMA Reproduction ==
  ASSUME IInv, NEW w \in Workspace, NEW until \in Nat,
         until >= TestEnd + ConfirmDays, Covers(Newest(w), until),
         NEW repredicted, Reproduces(w, repredicted)
  PROVE  w \in match
<1> USE PredictionsAssumption
<1>1. runs[w] \in Seq(RunRecord) /\ KeptIn(w)
  BY DEF IInv, Typed, Kept
<1>2. /\ Len(runs[w]) \in Nat /\ Len(runs[w]) >= 1
      /\ Newest(w) \in RunRecord
      /\ Scored(w, Original(w)) /\ Scored(w, Newest(w))
  BY <1>1 DEF KeptIn, Newest, Original
<1>3. Newest(w).end > TestEnd
  BY <1>2 DEF Covers, RunRecord
<1>4. Newest(w).kind # "backtest"
  BY <1>2, <1>3 DEF Scored
<1>5. Original(w).kind = "backtest"
  BY <1>1 DEF KeptIn, Original
<1>6. Newest(w).faithful = Original(w).faithful
  BY <1>4, <1>5 DEF Reproduces, Newest, Original
<1> QED
  BY <1>2, <1>4, <1>5, <1>6 DEF Scored

LEMMA GatePassesOn ==
  ASSUME IInv, gate.pc \in {"look", "reload"}, Covers(Newest(GateSide), gate.until),
         NEW repredicted, Reproduces(GateSide, repredicted), GateNext,
         UNCHANGED <<store, match>>
  PROVE  /\ gate' \in GateRecord
         /\ Later'
         /\ gate'.pc = "verdict" => gate'.candidate \in match
<1>1. gate \in GateRecord
  BY DEF IInv, Typed
<1>2. /\ gate' \in GateRecord
      /\ gate'.until = gate.until
      /\ gate'.candidate = gate.candidate
      /\ gate'.pc = "verdict" => gate.side = "candidate"
  BY <1>1 DEF GateNext, GateRecord
<1>3. gate.side = "candidate" => gate.candidate \in match
  BY <1>1, Reproduction DEF GateSide, GateRecord, IInv, Later
<1> QED
  BY <1>1, <1>2, <1>3 DEF IInv, Later

LEMMA GateGoesOnHolds == ASSUME IInv, GateCovered \/ GateReload PROVE IInv'
<1>1. /\ gate' \in GateRecord
      /\ Later'
      /\ gate'.pc = "verdict" => gate'.candidate \in match
  BY GatePassesOn DEF GateCovered, GateReload
<1>2. UNCHANGED <<match, today, store, runs, snap, pointer, hands, container,
                  refresh, checked, beaten, rebal, trade>>
  BY DEF GateCovered, GateReload
<1> QED
  BY <1>1, <1>2 DEF IInv, Typed, Snapped, Kept, KeptIn, Scored, Computing,
                    Reproduced, GatedIsFaithful

LEMMA GateRepredictHolds == ASSUME IInv, GateRepredict PROVE IInv'
<1>1. gate \in GateRecord
  BY DEF GateRepredict, IInv, Typed
<1>2. GateSide \in Workspace /\ gate.until \in Nat
  BY <1>1 DEF GateSide, GateRecord
<1>3. container' \subseteq ContainerRecord /\ Computing'
  BY <1>2, LaunchHolds DEF GateRepredict
<1>4. gate' \in GateRecord /\ gate'.pc = "wait" /\ gate'.until = gate.until
  BY <1>1 DEF GateRepredict, GateRecord
<1>5. Typed' /\ Later' /\ Reproduced'
  BY <1>1, <1>3, <1>4 DEF GateRepredict, IInv, Typed, Later, Reproduced
<1>6. Snapped' /\ Kept' /\ GatedIsFaithful'
  BY DEF GateRepredict, IInv, Snapped, Kept, KeptIn, Scored, GatedIsFaithful
<1> QED
  BY <1>3, <1>5, <1>6 DEF IInv

LEMMA GateVerdictHolds == ASSUME IInv, GateVerdict PROVE IInv'
<1> USE DEF GateVerdict
<1>1. gate \in GateRecord /\ gate.candidate \in Workspace /\ gate.candidate \in match
  BY DEF GateRecord, IInv, Typed, Reproduced
<1>2. snap' = snap \/ snap' = [snap EXCEPT ![gate.candidate] = SnapOf(gate.candidate)]
  OBVIOUS
<1>3. snap' \in [Workspace -> Snap] /\ Snapped'
  <2>1. CASE snap' = snap
    BY <2>1 DEF IInv, Typed, Snapped
  <2>2. CASE snap' = [snap EXCEPT ![gate.candidate] = SnapOf(gate.candidate)]
    BY <1>1, <2>2, SnapHolds
  <2> QED
    BY <1>2, <2>1, <2>2
<1>4. pointer' = pointer \/ pointer' = [ws |-> gate.candidate, by |-> "gate"]
  OBVIOUS
<1>5. gate' = IdleGate /\ UNCHANGED <<match, today, store, runs, container, refresh,
                                      rebal, trade>>
  OBVIOUS
<1> HIDE DEF GateVerdict
<1>6. Typed'
  BY <1>1, <1>3, <1>4, <1>5 DEF IInv, Typed
<1>7. Later' /\ Reproduced'
  BY <1>1, <1>4, <1>5 DEF IInv, Later, Reproduced, GateRecord
<1>8. Kept' /\ Computing' /\ GatedIsFaithful'
  BY <1>5 DEF IInv, Kept, KeptIn, Scored, Computing, GatedIsFaithful
<1> QED
  BY <1>3, <1>6, <1>7, <1>8 DEF IInv

LEMMA PromoteByHandHolds ==
  ASSUME IInv, NEW w \in Workspace, PromoteByHand(w) PROVE IInv'
<1>1. snap' \in [Workspace -> Snap] /\ Snapped'
  BY SnapHolds DEF PromoteByHand
<1>2. pointer' = [ws |-> w, by |-> "hand"]
  BY DEF PromoteByHand
<1>3. Typed' /\ Reproduced'
  BY <1>1, <1>2 DEF PromoteByHand, IInv, Typed, Reproduced
<1>4. Kept' /\ Computing' /\ Later' /\ GatedIsFaithful'
  BY DEF PromoteByHand, IInv, Kept, KeptIn, Scored, Computing, Later, GatedIsFaithful
<1> QED
  BY <1>1, <1>3, <1>4 DEF IInv

(***************************************************************************)
(* The rebalance                                                           *)
(***************************************************************************)
\* Every prediction of a workspace whose conf matches reproduces its backtest.
LEMMA NewestFaithful ==
  ASSUME IInv, NEW w \in Workspace, w \in match PROVE Newest(w).faithful = "yes"
<1>1. runs[w] \in Seq(RunRecord) /\ KeptIn(w)
  BY DEF IInv, Typed, Kept
<1> QED
  BY <1>1 DEF KeptIn, Scored, Newest

LEMMA RebalanceHolds == ASSUME IInv, RebalanceStep PROVE IInv'
<1>1. CASE RebalanceLoad
  BY <1>1 DEF RebalanceLoad, IInv, Typed, Snapped, Kept, KeptIn, Scored, Computing,
              Later, Reproduced, GatedIsFaithful
<1>2. CASE RebalanceTrade
  <2>1. rebal # IdleRebal /\ rebal.ws \in Workspace
    BY <1>2 DEF RebalanceTrade, IInv, Typed
  <2>2. GatedIsFaithful'
    BY <1>2, <2>1, NewestFaithful DEF RebalanceTrade, GatedIsFaithful, IInv, Reproduced
  <2> QED
    BY <1>2, <2>2 DEF RebalanceTrade, IInv, Typed, Snapped, Kept, KeptIn, Scored,
                      Computing, Later, Reproduced
<1>3. CASE RebalanceAborts
  <2>1. GatedIsFaithful'
    BY <1>3 DEF RebalanceAborts, GatedIsFaithful
  <2> QED
    BY <1>3, <2>1 DEF RebalanceAborts, IInv, Typed, Snapped, Kept, KeptIn, Scored,
                      Computing, Later, Reproduced
<1> QED
  BY <1>1, <1>2, <1>3 DEF RebalanceStep

(***************************************************************************)
(* Every step, and the theorems                                            *)
(***************************************************************************)
LEMMA StepHolds == ASSUME IInv, [Next]_vars PROVE IInv'
<1>1. CASE NextDay \/ StoreAdvances
  BY <1>1, ClockHolds
<1>2. CASE ContainerStep
  BY <1>2, WriteBeginHolds, WriteEndHolds, ContainerFailsHolds DEF ContainerStep
<1>3. CASE RefreshStep
  BY <1>3, RefreshRunHolds, RefreshQuietHolds, PruneHolds DEF RefreshStep
<1>4. CASE GateStep
  <2>1. GateRefused \/ GateGivesUp => GateErrs
    BY DEF GateRefused, GateGivesUp
  <2> QED
    BY <1>4, <2>1, GateStartHolds, GateErrsHolds, GateGoesOnHolds, GateRepredictHolds,
       GateVerdictHolds DEF GateStep
<1>5. CASE \E w \in Workspace : SnapshotCut(w) \/ PromoteByHand(w)
  BY <1>5, SnapshotCutHolds, PromoteByHandHolds
<1>6. CASE RebalanceStep
  BY <1>6, RebalanceHolds
<1>7. CASE UNCHANGED vars
  BY <1>7 DEF vars, IInv, Typed, Snapped, Kept, KeptIn, Scored, Computing, Later,
              Reproduced, GatedIsFaithful
<1> QED
  BY <1>1, <1>2, <1>3, <1>4, <1>5, <1>6, <1>7 DEF Next

LEMMA Invariance == Spec => []IInv
<1>1. Init => IInv
  BY InitHolds
<1>2. IInv /\ [Next]_vars => IInv'
  BY StepHolds
<1> QED
  BY <1>1, <1>2, PTL DEF Spec

\* A strategy the gate promoted is traded on faithful scores only, for any number
\* of days, evaluations, prunings and containers that outlive their process: a
\* confirmation window reaches past the backtest, so passing the reproduction
\* check on it shows that the workspace's conf is the right one, and from then on
\* whoever predicts for it predicts faithfully.
THEOREM Faithful == Spec => []GatedIsFaithful
<1>1. IInv => GatedIsFaithful
  BY DEF IInv
<1> QED
  BY <1>1, Invariance, PTL

\* The reproduction check's reference is never pruned away.
THEOREM Reference == Spec => []ReferenceKept
<1>1. IInv => ReferenceKept
  BY DEF IInv, Kept, KeptIn, ReferenceKept, Original
<1> QED
  BY <1>1, Invariance, PTL

(***************************************************************************)
(* Promotions in turns                                                     *)
(***************************************************************************)
\* Whoever was promoted over another beats it in the confirmation window.
Beats ==
  \A p \in beaten :
    \E c, i \in Workspace :
      p = <<c, i>> /\ Exceeds(ConfirmIr[c], ConfirmIr[i], ConfirmMargin)

LEMMA BeatsHolds == ASSUME IInv, Beats, [Next]_vars PROVE Beats'
<1>1. CASE GateVerdict
  <2>1. CASE UNCHANGED beaten
    BY <2>1 DEF Beats
  <2>2. CASE ~UNCHANGED beaten
    <3>1. /\ beaten' = beaten \cup {<<gate.candidate, gate.incumbent>>}
          /\ Exceeds(ConfirmIr[gate.candidate], ConfirmIr[gate.incumbent], ConfirmMargin)
      BY <1>1, <2>2 DEF GateVerdict, Passes, ConfirmLeg, Evidence
    <3>2. gate.candidate \in Workspace /\ gate.incumbent \in Workspace
      BY <1>1 DEF GateVerdict, IInv, Typed, GateRecord
    <3> QED
      BY <3>1, <3>2 DEF Beats
  <2> QED
    BY <2>1, <2>2
<1>2. CASE UNCHANGED beaten
  BY <1>2 DEF Beats
<1>3. GateVerdict \/ UNCHANGED beaten
  <2>1. CASE ContainerStep
    BY <2>1 DEF ContainerStep, WriteBegin, WriteEnd, ContainerFails
  <2>2. CASE RefreshStep
    BY <2>2, Zenon DEF RefreshStep, RefreshRefused, RefreshAlreadyFresh, RefreshRun,
                RefreshTimesOut, RefreshSelfCheck, RefreshPrune
  <2>3. CASE GateStep
    BY <2>3 DEF GateStep, GateStart, GateCovered, GateRepredict, GateReload,
                GateRefused, GateGivesUp, GateErrs
  <2>4. CASE NextDay \/ StoreAdvances \/ RebalanceStep \/ UNCHANGED vars
    BY <2>4 DEF NextDay, StoreAdvances, RebalanceStep, RebalanceLoad, RebalanceTrade,
                RebalanceAborts, vars
  <2>5. CASE \E w \in Workspace : SnapshotCut(w) \/ PromoteByHand(w)
    BY <2>5 DEF SnapshotCut, PromoteByHand
  <2> QED
    BY <2>1, <2>2, <2>3, <2>4, <2>5 DEF Next
<1> QED
  BY <1>1, <1>2, <1>3

\* With the default margin of one no two strategies are promoted over one another,
\* also when their ratios are negative, where a margin above one would let both pass.
THEOREM NoTurns == (ConfirmMargin = 100) => (Spec => []NeverInTurns)
<1> SUFFICES ASSUME ConfirmMargin = 100 PROVE Spec => []NeverInTurns
  OBVIOUS
<1>1. Init => Beats
  BY DEF Init, Beats
<1>2. IInv /\ Beats /\ [Next]_vars => Beats'
  BY BeatsHolds
<1>3. Beats => NeverInTurns
  <2> SUFFICES ASSUME Beats, NEW w \in Workspace, NEW x \in Workspace,
                      <<w, x>> \in beaten, <<x, w>> \in beaten
               PROVE  FALSE
    BY DEF NeverInTurns
  <2>1. /\ Exceeds(ConfirmIr[w], ConfirmIr[x], ConfirmMargin)
        /\ Exceeds(ConfirmIr[x], ConfirmIr[w], ConfirmMargin)
    BY DEF Beats
  <2>2. ConfirmIr[w] \in Int /\ ConfirmIr[x] \in Int
    BY <2>1, PredictionsAssumption DEF Exceeds
  <2> QED
    BY <2>1, <2>2 DEF Exceeds
<1> QED
  BY <1>1, <1>2, <1>3, Invariance, PTL DEF Spec

(***************************************************************************)
(* What the self-check saw stays so                                        *)
(***************************************************************************)
\* A check that still counts is of a workspace whose newest prediction is fresh.
StillFresh ==
  checked = NoCheck
    \/ /\ checked \in [result : {"ok"}, ws : Workspace]
       /\ AssertFresh(Newest(checked.ws))

\* Completing a prediction does not undo another's, nor its own, freshness.
LEMMA WriteEndFresh ==
  ASSUME IInv, StillFresh, NEW c \in container, WriteEnd(c) PROVE StillFresh'
<1> SUFFICES ASSUME checked # NoCheck PROVE AssertFresh(Newest(checked.ws))'
  BY DEF StillFresh, WriteEnd
<1> DEFINE x == checked.ws
<1>1. runs \in [Workspace -> Seq(RunRecord)] /\ c.ws \in Workspace
  BY DEF IInv, Typed, ContainerRecord
<1>2. x \in Workspace /\ AssertFresh(runs[x][Len(runs[x])]) /\ KeptIn(x)
  BY DEF StillFresh, Newest, IInv, Kept
<1>3. PICK n \in Unfinished(c) :
        runs' = [runs EXCEPT ![c.ws][n] = [@ EXCEPT !.whole = "yes", !.until = 0]]
  BY DEF WriteEnd
<1>4. n \in 1 .. Len(runs[c.ws]) /\ runs[c.ws][n] \in RunRecord
  BY <1>1 DEF Unfinished
<1> DEFINE run == [runs[c.ws][n] EXCEPT !.whole = "yes", !.until = 0]
<1>5. runs' = [runs EXCEPT ![c.ws][n] = run] /\ UNCHANGED <<today, store, checked>>
  BY <1>3 DEF WriteEnd
<1>6. run \in RunRecord /\ run.whole = "yes" /\ run.end = runs[c.ws][n].end
  BY <1>4 DEF RunRecord
<1> HIDE DEF run
<1>7. Len(runs'[x]) = Len(runs[x])
  BY <1>1, <1>2, <1>4, <1>5, <1>6
<1>8. \/ runs'[x][Len(runs[x])] = runs[x][Len(runs[x])]
      \/ x = c.ws /\ n = Len(runs[x]) /\ runs'[x][Len(runs[x])] = run
  BY <1>1, <1>2, <1>4, <1>5
<1> QED
  BY <1>2, <1>5, <1>6, <1>7, <1>8 DEF AssertFresh, Newest

\* The newest run is never beyond the newest Keep.
LEMMA PruneFresh == ASSUME IInv, StillFresh, RefreshPrune PROVE StillFresh'
<1> USE PredictionsAssumption
<1>0. PICK w \in Workspace : w = refresh.ws
  BY DEF RefreshPrune, RefreshRecord, IInv, Typed
<1> DEFINE left == DOMAIN runs[w] \ Prunable(w)
           size == Cardinality(left)
           last == Len(runs[w])
           light == {n \in DOMAIN runs[w] : runs[w][n].kind # "backtest"}
<1>1. PruneRuns(w) /\ UNCHANGED <<checked, today, store>>
  BY <1>0 DEF RefreshPrune
<1>2. runs \in [Workspace -> Seq(RunRecord)] /\ last \in Nat /\ last >= 1
  BY DEF IInv, Typed, Kept, KeptIn
<1>3. last \in left /\ left \subseteq 1 .. last
  <2>1. DOMAIN runs[w] = 1 .. last
    BY <1>2
  <2> DEFINE newer == {k \in light : k > last}
  <2>2. newer = {}
    BY <1>2, <2>1
  <2> HIDE DEF newer
  <2>3. Cardinality(newer) = 0
    BY <2>2, FS_EmptySet
  <2>4. ~(Cardinality(newer) >= Keep)
    BY <2>3
  <2>5. last \notin Prunable(w)
    BY <2>4 DEF Prunable, newer
  <2> QED
    BY <1>2, <2>1, <2>5
<1>4. size \in Nat
  <2>1. IsFiniteSet(1 .. last)
    <3>1. 1 \in Int /\ last \in Int
      BY <1>2
    <3> HIDE DEF last
    <3> QED
      BY <3>1, FS_Interval
  <2> QED
    BY <1>3, <2>1, FS_Subset, FS_CardinalityType
<1>5. PICK f \in [1 .. size -> left] :
        /\ Increasing(f)
        /\ {f[k] : k \in 1 .. size} = left
        /\ runs' = [runs EXCEPT ![w] = [k \in 1 .. size |-> runs[w][f[k]]]]
  BY <1>1 DEF PruneRuns
<1> HIDE DEF left, size, last
<1>6. size >= 1 /\ f[size] = last
  <2>1. PICK k \in 1 .. size : f[k] = last
    BY <1>3, <1>5
  <2>2. f[size] \in 1 .. last
    BY <1>3, <1>4, <1>5, <2>1
  <2>3. k = size
    BY <1>2, <1>4, <1>5, <2>1, <2>2 DEF Increasing
  <2> QED
    BY <1>4, <2>1, <2>3
<1>7. runs'[w] = [k \in 1 .. size |-> runs[w][f[k]]]
  BY <1>2, <1>5
<1>8. Len(runs'[w]) = size /\ runs'[w][size] = runs[w][last]
  <2>1. \A k \in 1 .. size : runs[w][f[k]] \in RunRecord
    BY <1>2, <1>3, <1>5 DEF last
  <2> QED
    BY <1>4, <1>6, <1>7, <2>1
<1>9. \A x \in Workspace : x # w => runs'[x] = runs[x]
  BY <1>2, <1>5
<1> QED
  BY <1>1, <1>8, <1>9 DEF last, StillFresh, Newest, AssertFresh

LEMMA FreshHolds == ASSUME IInv, StillFresh, [Next]_vars PROVE StillFresh'
<1>1. CASE NextDay \/ StoreAdvances
  BY <1>1 DEF NextDay, StoreAdvances, StillFresh
<1>2. CASE ContainerStep
  <2>1. CASE \E c \in container : WriteBegin(c)
    <3>1. PICK c \in container : WriteBegin(c)
      BY <2>1
    <3>2. runs \in [Workspace -> Seq(RunRecord)] /\ c.ws \in Workspace
      BY DEF IInv, Typed, ContainerRecord
    <3>3. CASE checked.ws = c.ws
      BY <3>1, <3>3 DEF WriteBegin, StillFresh
    <3>4. CASE checked.ws # c.ws
      <4>1. \A x \in Workspace : x # c.ws => runs'[x] = runs[x]
        BY <3>1, <3>2 DEF WriteBegin
      <4> QED
        BY <3>1, <3>4, <4>1 DEF WriteBegin, StillFresh, AssertFresh, Newest
    <3> QED
      BY <3>3, <3>4
  <2>2. CASE \E c \in container : WriteEnd(c)
    BY <2>2, WriteEndFresh
  <2>3. CASE \E c \in container : ContainerFails(c)
    BY <2>3 DEF ContainerFails, StillFresh, AssertFresh, Newest
  <2> QED
    BY <1>2, <2>1, <2>2, <2>3 DEF ContainerStep
<1>3. CASE RefreshStep
  <2>1. pointer.ws \in Workspace
    BY DEF IInv, Typed
  <2>2. CASE RefreshPrune
    BY <2>2, PruneFresh
  <2>3. CASE RefreshAlreadyFresh
    BY <2>1, <2>3 DEF RefreshAlreadyFresh, Pass, StillFresh, AssertFresh, Newest
  <2>4. CASE RefreshSelfCheck
    <3>1. refresh.ws \in Workspace
      BY <2>4 DEF RefreshSelfCheck, RefreshRecord, IInv, Typed
    <3> QED
      BY <2>4, <3>1 DEF RefreshSelfCheck, Pass, StillFresh, AssertFresh, Newest
  <2>5. CASE RefreshRefused \/ RefreshRun \/ RefreshTimesOut
    BY <2>5 DEF RefreshRefused, RefreshRun, RefreshTimesOut, StillFresh, AssertFresh,
                Newest
  <2> QED
    BY <1>3, <2>2, <2>3, <2>4, <2>5 DEF RefreshStep
<1>4. CASE GateStep
  BY <1>4 DEF GateStep, GateStart, GateCovered, GateRepredict, GateReload, GateRefused,
              GateGivesUp, GateErrs, GateVerdict, StillFresh, AssertFresh, Newest
<1>5. CASE RebalanceStep \/ UNCHANGED vars
  BY <1>5 DEF RebalanceStep, RebalanceLoad, RebalanceTrade, RebalanceAborts, vars,
              StillFresh, AssertFresh, Newest
<1>6. CASE \E w \in Workspace : SnapshotCut(w) \/ PromoteByHand(w)
  BY <1>6 DEF SnapshotCut, PromoteByHand, StillFresh, AssertFresh, Newest
<1> QED
  BY <1>1, <1>2, <1>3, <1>4, <1>5, <1>6 DEF Next

\* What the refresh's self-check saw is what the rebalance sees: with nothing new
\* in between, neither its own pruning nor a container's late end makes the day
\* abort.
THEOREM Traded == Spec => CheckedIsTraded
<1>1. Init => StillFresh
  BY DEF Init, StillFresh
<1>2. IInv /\ StillFresh /\ [Next]_vars => StillFresh'
  BY FreshHolds
<1>3. ASSUME StillFresh, [Next]_vars, trade = NoTrade, trade'.result = "aborted"
      PROVE  ~(checked.result = "ok" /\ checked.ws = rebal.ws)
  <2>1. CASE RebalanceAborts
    BY <1>3, <2>1 DEF RebalanceAborts, StillFresh
  <2>2. CASE UNCHANGED trade
    BY <1>3, <2>2
  <2>3. RebalanceAborts \/ UNCHANGED trade
    <3>1. CASE ContainerStep
      BY <3>1 DEF ContainerStep, WriteBegin, WriteEnd, ContainerFails
    <3>2. CASE RefreshStep
      BY <3>2, Zenon DEF RefreshStep, RefreshRefused, RefreshAlreadyFresh, RefreshRun,
                  RefreshTimesOut, RefreshSelfCheck, RefreshPrune
    <3>3. CASE GateStep
      BY <3>3 DEF GateStep, GateStart, GateCovered, GateRepredict, GateReload,
                  GateRefused, GateGivesUp, GateErrs, GateVerdict
    <3>4. CASE RebalanceLoad \/ UNCHANGED vars \/ StoreAdvances
      BY <3>4 DEF RebalanceLoad, vars, StoreAdvances
    <3>5. CASE NextDay \/ RebalanceTrade
      BY <1>3, <3>5 DEF NextDay, RebalanceTrade
    <3>6. CASE \E w \in Workspace : SnapshotCut(w) \/ PromoteByHand(w)
      BY <3>6 DEF SnapshotCut, PromoteByHand
    <3> QED
      BY <1>3, <3>1, <3>2, <3>3, <3>4, <3>5, <3>6 DEF Next, RebalanceStep
  <2> QED
    BY <2>1, <2>2, <2>3
<1>4. StillFresh /\ [Next]_vars
        => [trade = NoTrade /\ trade'.result = "aborted"
              => ~(checked.result = "ok" /\ checked.ws = rebal.ws)]_vars
  BY <1>3
<1> QED
  BY <1>1, <1>2, <1>4, Invariance, PTL DEF Spec, CheckedIsTraded

(***************************************************************************)
(* The simulated portfolio of the confirmation window, one day at a time,  *)
(* for any prices and scores.                                              *)
(***************************************************************************)

\* A name that is bought has a score today.
LEMMA BookFrom ==
  ASSUME NEW scores, NEW closes, NEW book, NEW d
  PROVE  \A s \in NextBook(scores, closes, book, d) :
           /\ ~Ended(closes, s, d)
           /\ s \in DOMAIN scores[d - 1] \/ s \in book
BY DEF NextBook, Holdings, Bought, Admitted, Sold, First, Held, Cross

\* From a day to the next: when every name held had a close yesterday, the next
\* book can be priced yesterday and today, so that a simulation that starts from
\* nothing never fails for a price; and a name whose series has ended is in no
\* book again (confirmation_returns).
THEOREM BookStaysPriced ==
  ASSUME NEW scores, NEW closes \in [Symbol -> SUBSET Nat], NEW d \in Window,
         Unbroken(closes), ScoredHasBar(scores, closes), d - 1 \in DOMAIN scores,
         NEW book \in SUBSET Symbol, \A s \in book : d - 1 \in closes[s]
  PROVE  LET next == NextBook(scores, closes, book, d)
         IN  /\ Priced(closes, next, d)
             /\ \A s \in next : d \in closes[s] /\ s \in Symbol
             /\ Fails(scores, closes, book, d)
                  <=> DOMAIN Cross(scores, closes, d) = {} \/ next = {}
             /\ \A s \in Symbol : \A e \in Window :
                  Ended(closes, s, d) /\ d <= e =>
                    \A later : s \notin NextBook(scores, closes, later, e)
<1> DEFINE next == NextBook(scores, closes, book, d)
<1>1. d \in Nat /\ d - 1 \in Nat
  BY WindowAssumption DEF Window
<1>2. ASSUME NEW s \in next PROVE s \in Symbol /\ {d - 1, d} \subseteq closes[s]
  <2>1. ~Ended(closes, s, d) /\ s \in Symbol /\ d - 1 \in closes[s]
    <3>1. ~Ended(closes, s, d) /\ (s \in DOMAIN scores[d - 1] \/ s \in book)
      BY <1>2, BookFrom
    <3>2. s \in DOMAIN scores[d - 1] => s \in Symbol /\ d - 1 \in closes[s]
      BY DEF ScoredHasBar
    <3> QED
      BY <3>1, <3>2
  <2>2. PICK e \in closes[s] : ~(e < d)
    BY <2>1 DEF Ended
  <2>3. e \in Nat /\ d \in (d - 1) .. e
    BY <1>1, <2>1, <2>2
  <2>4. (d - 1) .. e \subseteq closes[s]
    BY <2>1, <2>2 DEF Unbroken
  <2> QED
    BY <2>1, <2>3, <2>4
<1>3. Priced(closes, next, d)
  BY <1>2 DEF Priced
<1>4. ASSUME NEW s \in Symbol, NEW e \in Window, Ended(closes, s, d), d <= e, NEW later
      PROVE  s \notin NextBook(scores, closes, later, e)
  <2>1. closes[s] # {} /\ \A f \in closes[s] : f < d /\ f \in Nat
    BY <1>4 DEF Ended
  <2>2. e \in Nat /\ \A f \in closes[s] : f < e
    BY <1>1, <1>4, <2>1, WindowAssumption DEF Window
  <2>3. Ended(closes, s, e)
    BY <2>1, <2>2 DEF Ended
  <2> QED
    BY <2>3, BookFrom
<1>5. Fails(scores, closes, book, d)
        <=> DOMAIN Cross(scores, closes, d) = {} \/ next = {}
  BY <1>3 DEF Fails
<1> HIDE DEF next
<1> QED
  BY <1>2, <1>3, <1>4, <1>5 DEF next

(***************************************************************************)
(* The selection of a book, for any scores, holdings, Topk and NDrop.  The *)
(* first and the last of a cross-section are both sets of names that come  *)
(* before few others, in one order or the reverse of it.                   *)
(***************************************************************************)
Orders(R, S) ==
  /\ \A s, t \in S : s # t => <<s, t>> \in R \/ <<t, s>> \in R
  /\ \A s, t \in S : <<s, t>> \in R => <<t, s>> \notin R
  /\ \A s, t, u \in S : <<s, t>> \in R /\ <<t, u>> \in R => <<s, u>> \in R

Reversed(R, S) == {p \in S \X S : <<p[2], p[1]>> \in R}

After(R, S, s) == {t \in S : <<s, t>> \in R}
Few(R, S, n) == {s \in S : Cardinality(After(R, S, s)) < n}

\* The names of a finite set that is ordered have one that comes before the rest.
LEMMA TopExists ==
  ASSUME NEW S, IsFiniteSet(S), S # {}, NEW R, Orders(R, S)
  PROVE  \E s \in S : \A t \in S \ {s} : <<s, t>> \in R
<1> DEFINE From(s) == {t \in S : t = s \/ <<t, s>> \in R}
           Tails == {From(s) : s \in S}
<1>1. IsWellFoundedOn(StrictSubsetOrdering(S), SUBSET S)
  BY FS_StrictSubsetOrderingWellFounded, FS_FiniteSubsetsOfFinite
<1>2. Tails \subseteq SUBSET S /\ Tails # {}
  OBVIOUS
<1>3. PICK T \in Tails : \A U \in Tails : <<U, T>> \notin StrictSubsetOrdering(S)
  <2> HIDE DEF Tails
  <2> QED
    BY <1>1, <1>2, WFMin
<1>4. PICK s \in S : T = From(s)
  OBVIOUS
<1>5. ASSUME NEW t \in S \ {s}, <<s, t>> \notin R PROVE FALSE
  <2>1. <<t, s>> \in R
    BY <1>5 DEF Orders
  <2>2. From(t) \subseteq From(s) /\ s \in From(s) /\ s \notin From(t)
    BY <1>5, <2>1 DEF Orders
  <2>3. <<From(t), From(s)>> \in StrictSubsetOrdering(S)
    BY <2>2 DEF StrictSubsetOrdering
  <2> QED
    BY <1>3, <1>4, <2>3
<1> QED
  BY <1>5

\* Fewer than n names come after n names at most, and after n unless there are
\* no more.
LEMMA FewAre ==
  ASSUME NEW S, IsFiniteSet(S), NEW R, Orders(R, S), NEW n \in Int
  PROVE  LET few == Few(R, S, n)
         IN  /\ few \subseteq S /\ IsFiniteSet(few) /\ Cardinality(few) \in Nat
             /\ Cardinality(few) <= n \/ few = {}
             /\ Cardinality(few) >= n \/ few = S
<1> DEFINE few == Few(R, S, n)
<1>1. \A x \in S : IsFiniteSet(After(R, S, x)) /\ Cardinality(After(R, S, x)) \in Nat
  BY FS_Subset, FS_CardinalityType DEF After
<1>2. few \subseteq S /\ IsFiniteSet(few) /\ Cardinality(few) \in Nat
  BY FS_Subset, FS_CardinalityType DEF Few
<1>3. ASSUME few # {} PROVE Cardinality(few) <= n
  <2>1. Orders(R, few)
    BY <1>2 DEF Orders
  <2>2. PICK x \in few : \A t \in few \ {x} : <<x, t>> \in R
    BY <1>2, <1>3, <2>1, TopExists
  <2>3. few \ {x} \subseteq After(R, S, x)
    BY <1>2, <2>2 DEF After
  <2>4. Cardinality(few \ {x}) <= Cardinality(After(R, S, x))
    BY <1>1, <1>2, <2>3, FS_Subset
  <2>5. Cardinality(few \ {x}) = Cardinality(few) - 1
    BY <1>2, FS_RemoveElement
  <2>6. Cardinality(After(R, S, x)) < n /\ Cardinality(After(R, S, x)) \in Nat
    BY <1>1, <1>2 DEF Few
  <2> QED
    BY <1>2, <2>4, <2>5, <2>6
<1>4. ASSUME few # S PROVE Cardinality(few) >= n
  <2> DEFINE rest == S \ few
  <2>1. IsFiniteSet(rest) /\ rest # {} /\ Orders(Reversed(R, S), rest)
    BY <1>2, <1>4, FS_Subset DEF Orders, Reversed
  <2>2. PICK x \in rest : \A t \in rest \ {x} : <<t, x>> \in R
    <3> HIDE DEF rest
    <3>1. PICK x \in rest : \A t \in rest \ {x} : <<x, t>> \in Reversed(R, S)
      BY <2>1, TopExists
    <3> QED
      BY <3>1 DEF Reversed
  <2>3. After(R, S, x) \subseteq few
    BY <2>2 DEF After, Orders
  <2>4. Cardinality(After(R, S, x)) <= Cardinality(few)
    BY <1>2, <2>3, FS_Subset
  <2>5. ~(Cardinality(After(R, S, x)) < n) /\ Cardinality(After(R, S, x)) \in Nat
    BY <1>1 DEF Few
  <2> QED
    BY <1>2, <2>4, <2>5
<1> HIDE DEF few
<1> QED
  BY <1>2, <1>3, <1>4 DEF few

Ranking(cross, S) == {p \in S \X S : Above(cross, p[1], p[2])}

Scores(cross) ==
  /\ DOMAIN cross \subseteq Int /\ IsFiniteSet(DOMAIN cross)
  /\ \A s \in DOMAIN cross : cross[s] \in Int

LEMMA AboveOrders ==
  ASSUME NEW cross, Scores(cross)
  PROVE  /\ \A s, t \in Int : s # t => Above(cross, s, t) \/ Above(cross, t, s)
         /\ \A s, t \in Int : ~(Above(cross, s, t) /\ Above(cross, t, s))
         /\ \A s, t, u \in Int :
              Above(cross, s, t) /\ Above(cross, t, u) => Above(cross, s, u)
BY DEF Scores, Above

\* The order of a cross-section is one, and so is its reverse.
LEMMA RankingOrders ==
  ASSUME NEW cross, Scores(cross), NEW S, S \subseteq Int
  PROVE  /\ Orders(Ranking(cross, S), S) /\ Orders(Reversed(Ranking(cross, S), S), S)
         /\ \A n : Last(cross, S, n) = Few(Ranking(cross, S), S, n)
         /\ \A n : First(cross, S, n) = Few(Reversed(Ranking(cross, S), S), S, n)
<1> DEFINE R == Ranking(cross, S)
           Q == Reversed(R, S)
<1>1. \A s, t \in S : (<<s, t>> \in R <=> Above(cross, s, t)) /\ (<<s, t>> \in Q <=> <<t, s>> \in R)
  BY DEF Ranking, Reversed
<1> HIDE DEF R, Q
<1>5. Orders(R, S) /\ Orders(Q, S)
  BY <1>1, AboveOrders DEF Orders
<1>6. ASSUME NEW s \in S
      PROVE  /\ After(R, S, s) = {t \in S : Above(cross, s, t)}
             /\ After(Q, S, s) = {t \in S : Above(cross, t, s)}
  BY <1>1 DEF After
<1>7. ASSUME NEW n PROVE Last(cross, S, n) = Few(R, S, n) /\ First(cross, S, n) = Few(Q, S, n)
  BY <1>6 DEF Last, First, Few
<1> QED
  BY <1>5, <1>7 DEF R, Q

LEMMA FirstIs ==
  ASSUME NEW cross, Scores(cross), NEW S, S \subseteq Int, IsFiniteSet(S), NEW n \in Int
  PROVE  LET first == First(cross, S, n)
         IN  /\ first \subseteq S /\ IsFiniteSet(first) /\ Cardinality(first) \in Nat
             /\ Cardinality(first) <= n \/ first = {}
             /\ Cardinality(first) >= n \/ first = S
<1> DEFINE Q == Reversed(Ranking(cross, S), S)
<1>1. Orders(Q, S) /\ First(cross, S, n) = Few(Q, S, n)
  BY RankingOrders
<1> HIDE DEF Q
<1> QED
  BY <1>1, FewAre

LEMMA LastIs ==
  ASSUME NEW cross, Scores(cross), NEW S, S \subseteq Int, IsFiniteSet(S), NEW n \in Nat
  PROVE  LET last == Last(cross, S, n)
         IN  /\ last \subseteq S /\ IsFiniteSet(last)
             /\ Cardinality(last) \in Nat /\ Cardinality(last) <= n
<1> DEFINE R == Ranking(cross, S)
           last == Last(cross, S, n)
<1>1. Orders(R, S) /\ last = Few(R, S, n)
  BY RankingOrders
<1> HIDE DEF R, last
<1>2. /\ last \subseteq S /\ IsFiniteSet(last) /\ Cardinality(last) \in Nat
      /\ Cardinality(last) <= n \/ last = {}
  BY <1>1, FewAre
<1>3. Cardinality({}) = 0
  BY FS_EmptySet
<1> QED
  BY <1>2, <1>3 DEF last

\* What a selection is made of.
LEMMA SelectionIs ==
  ASSUME NEW cross, Scores(cross), NEW held, held \subseteq Int, IsFiniteSet(held)
  PROVE  LET admitted == Admitted(cross, held)
             sold == Sold(cross, held)
             bought == Bought(cross, held)
             after == Holdings(cross, held)
             candidates == DOMAIN cross \ held
             most == NDrop + Topk - Cardinality(held)
             room == Cardinality(sold) + Topk - Cardinality(held)
         IN  /\ IsFiniteSet(candidates) /\ Cardinality(candidates) \in Nat
             /\ Cardinality(held) \in Nat
             /\ admitted \subseteq candidates
             /\ IsFiniteSet(admitted) /\ Cardinality(admitted) \in Nat
             /\ Cardinality(admitted) >= most \/ admitted = candidates
             /\ sold \subseteq held /\ IsFiniteSet(sold)
             /\ Cardinality(sold) \in Nat /\ Cardinality(sold) <= NDrop
             /\ bought \subseteq admitted /\ IsFiniteSet(bought)
             /\ Cardinality(bought) \in Nat
             /\ Cardinality(bought) <= room \/ bought = {}
             /\ Cardinality(bought) >= room \/ bought = admitted
             /\ Cardinality(after) \in Nat
             /\ Cardinality(after)
                  = Cardinality(held) - Cardinality(sold) + Cardinality(bought)
<1> DEFINE admitted == Admitted(cross, held)
           sold == Sold(cross, held)
           bought == Bought(cross, held)
           candidates == DOMAIN cross \ held
           most == NDrop + Topk - Cardinality(held)
           room == Cardinality(sold) + Topk - Cardinality(held)
<1>1. /\ candidates \subseteq Int /\ IsFiniteSet(candidates) /\ Cardinality(candidates) \in Nat
      /\ Cardinality(held) \in Nat /\ most \in Int /\ NDrop \in Nat /\ Topk \in Nat
  <2>1. candidates \subseteq Int /\ IsFiniteSet(candidates)
    BY FS_Difference DEF Scores
  <2> HIDE DEF candidates
  <2>2. Cardinality(candidates) \in Nat /\ Cardinality(held) \in Nat
    BY <2>1, FS_CardinalityType
  <2> QED
    BY <2>1, <2>2, SelectionAssumption
<1>2. /\ admitted \subseteq candidates /\ IsFiniteSet(admitted) /\ Cardinality(admitted) \in Nat
      /\ Cardinality(admitted) >= most \/ admitted = candidates
  <2> HIDE DEF most, candidates
  <2>1. admitted = First(cross, candidates, most)
    BY DEF Admitted, most, candidates
  <2> QED
    BY <1>1, <2>1, FirstIs
<1>3. sold \subseteq held /\ IsFiniteSet(sold) /\ Cardinality(sold) \in Nat /\ Cardinality(sold) <= NDrop
  <2> DEFINE listed == held \cup admitted
             low == Last(cross, listed, NDrop)
  <2>1. sold = held \cap low
    BY DEF Sold
  <2>2. listed \subseteq Int /\ IsFiniteSet(listed)
    BY <1>1, <1>2, FS_Union
  <2> HIDE DEF listed
  <2>3. IsFiniteSet(low) /\ Cardinality(low) \in Nat /\ Cardinality(low) <= NDrop
    BY <1>1, <2>2, LastIs
  <2> HIDE DEF low, sold
  <2>4. IsFiniteSet(sold) /\ Cardinality(sold) <= Cardinality(low) /\ Cardinality(sold) \in Nat
    BY <2>1, <2>3, FS_Subset, FS_CardinalityType
  <2> QED
    BY <1>1, <2>1, <2>3, <2>4
<1>4. /\ bought \subseteq admitted /\ IsFiniteSet(bought) /\ Cardinality(bought) \in Nat
      /\ Cardinality(bought) <= room \/ bought = {}
      /\ Cardinality(bought) >= room \/ bought = admitted
  <2>1. bought = First(cross, admitted, room)
    BY DEF Bought
  <2>2. room \in Int /\ admitted \subseteq Int
    BY <1>1, <1>2, <1>3
  <2> HIDE DEF room, admitted, bought
  <2> QED
    BY <1>2, <2>1, <2>2, FirstIs
<1>5. /\ Cardinality(Holdings(cross, held))
           = Cardinality(held) - Cardinality(sold) + Cardinality(bought)
      /\ Cardinality(Holdings(cross, held)) \in Nat
  <2> DEFINE stays == held \ sold
  <2>1. Holdings(cross, held) = stays \cup bought
    BY DEF Holdings
  <2> HIDE DEF sold, bought, admitted
  <2>2. IsFiniteSet(stays) /\ Cardinality(stays) = Cardinality(held) - Cardinality(sold)
    <3>1. held \cap sold = sold
      BY <1>3
    <3> QED
      BY <1>3, <3>1, FS_Difference
  <2>3. stays \cap bought = {} /\ Cardinality({}) = 0
    BY <1>2, <1>4, FS_EmptySet
  <2> HIDE DEF stays
  <2>4. /\ IsFiniteSet(stays \cup bought)
        /\ Cardinality(stays \cup bought) = Cardinality(stays) + Cardinality(bought)
                                             - Cardinality(stays \cap bought)
    BY <1>4, <2>2, FS_Union
  <2>5. Cardinality(stays \cup bought) \in Nat
    BY <2>4, FS_CardinalityType
  <2>6. Cardinality(stays \cup bought)
          = Cardinality(held) - Cardinality(sold) + Cardinality(bought)
    <3>1. Cardinality(stays \cup bought) = Cardinality(stays) + Cardinality(bought) - 0
      BY <2>3, <2>4
    <3>2. Cardinality(stays) \in Int /\ Cardinality(bought) \in Int
      BY <1>1, <1>3, <1>4, <2>2
    <3> QED
      BY <2>2, <3>1, <3>2
  <2> QED
    BY <2>1, <2>5, <2>6
<1> QED
  BY <1>1, <1>2, <1>3, <1>4, <1>5

\* The counting behind the order of a trade: whoever is above a name that is
\* bought and below nobody that is sold would be above too many to be sold.
LEMMA BoughtAboveSold ==
  ASSUME NEW cross, Scores(cross), NEW held, held \subseteq Int, IsFiniteSet(held),
         Cardinality(Admitted(cross, held)) >= NDrop + Topk - Cardinality(held),
         NEW s \in Sold(cross, held), NEW t \in Bought(cross, held)
  PROVE  Above(cross, t, s)
<1> DEFINE admitted == Admitted(cross, held)
           sold == Sold(cross, held)
           listed == held \cup admitted
           room == Cardinality(sold) + Topk - Cardinality(held)
           over == {u \in admitted : Above(cross, u, t)}
           under == {u \in admitted : Above(cross, t, u)}
<1>1. /\ admitted \subseteq Int \ held /\ IsFiniteSet(admitted) /\ Cardinality(admitted) \in Nat
      /\ sold \subseteq held /\ IsFiniteSet(sold) /\ Cardinality(sold) \in Nat
      /\ Cardinality(held) \in Nat /\ NDrop \in Nat /\ Topk \in Nat
      /\ t \in admitted /\ s \in sold
  BY SelectionIs, SelectionAssumption DEF Scores
<1>2. Cardinality(over) < room /\ IsFiniteSet(over) /\ Cardinality(over) \in Nat
  <2>1. Cardinality(over) < room
    BY DEF Bought, First
  <2>2. IsFiniteSet(over)
    BY <1>1, FS_Subset
  <2> QED
    BY <2>1, <2>2, FS_CardinalityType
<1>3. /\ IsFiniteSet(under) /\ Cardinality(under) \in Nat
      /\ Cardinality(admitted) = Cardinality(over) + 1 + Cardinality(under)
  <2>1. IsFiniteSet(under) /\ Cardinality(under) \in Nat
    BY <1>1, FS_Subset, FS_CardinalityType
  <2>2. t \notin over /\ t \notin under /\ over \cap under = {}
    BY <1>1, AboveOrders
  <2>3. admitted = (over \cup {t}) \cup under
    BY <1>1, AboveOrders
  <2> HIDE DEF over, under, admitted
  <2>4. /\ IsFiniteSet(over \cup {t})
        /\ Cardinality(over \cup {t}) = Cardinality(over) + 1
    BY <1>2, <2>2, FS_AddElement
  <2>5. (over \cup {t}) \cap under = {} /\ Cardinality({}) = 0
    BY <2>2, FS_EmptySet
  <2>6. Cardinality((over \cup {t}) \cup under)
          = Cardinality(over \cup {t}) + Cardinality(under)
              - Cardinality((over \cup {t}) \cap under)
    BY <2>1, <2>4, FS_Union
  <2> QED
    BY <1>2, <2>1, <2>3, <2>4, <2>5, <2>6
<1>4. PICK top \in sold : \A u \in sold \ {top} : Above(cross, top, u)
  <2> DEFINE R == Ranking(cross, sold)
  <2>1. Orders(R, sold) /\ sold # {}
    BY <1>1, RankingOrders
  <2> HIDE DEF R, sold
  <2>2. PICK top \in sold : \A u \in sold \ {top} : <<top, u>> \in R
    BY <1>1, <2>1, TopExists
  <2> QED
    BY <2>2 DEF R, Ranking
<1> DEFINE below == {u \in listed : Above(cross, top, u)}
           others == sold \ {top}
           rest == under \cup {t}
<1>5. /\ Cardinality(below) < NDrop /\ IsFiniteSet(below) /\ Cardinality(below) \in Nat
  <2>1. top \in Last(cross, listed, NDrop)
    BY <1>4 DEF Sold
  <2>2. Cardinality(below) < NDrop
    BY <2>1 DEF Last
  <2>3. IsFiniteSet(listed)
    BY <1>1, FS_Union
  <2> HIDE DEF listed
  <2>4. IsFiniteSet(below)
    BY <2>3, FS_Subset
  <2> QED
    BY <2>2, <2>4, FS_CardinalityType
<1>6. ASSUME ~Above(cross, t, s) PROVE FALSE
  <2>1. Above(cross, s, t)
    BY <1>1, <1>6, AboveOrders
  <2>2. Above(cross, top, t)
    BY <1>1, <1>4, <2>1, AboveOrders
  <2>3. others \cup rest \subseteq below
    BY <1>1, <1>4, <2>2, AboveOrders
  <2>4. others \cap rest = {}
    BY <1>1
  <2>5. IsFiniteSet(others) /\ Cardinality(others) = Cardinality(sold) - 1
    BY <1>1, <1>4, FS_RemoveElement
  <2>6. IsFiniteSet(rest) /\ Cardinality(rest) = Cardinality(under) + 1
    <3>1. t \notin under
      BY <1>1, AboveOrders
    <3> HIDE DEF under
    <3> QED
      BY <1>3, <3>1, FS_AddElement
  <2> HIDE DEF others, rest, below
  <2>7. Cardinality(others \cup rest) = Cardinality(others) + Cardinality(rest)
    <3>1. Cardinality(others \cup rest)
            = Cardinality(others) + Cardinality(rest) - Cardinality(others \cap rest)
      BY <2>5, <2>6, FS_Union
    <3>2. Cardinality(others \cap rest) = 0
      BY <2>4, FS_EmptySet
    <3>3. Cardinality(others) \in Int /\ Cardinality(rest) \in Int
      BY <2>5, <2>6, FS_CardinalityType
    <3> QED
      BY <3>1, <3>2, <3>3
  <2>8. Cardinality(others \cup rest) <= Cardinality(below)
    BY <1>5, <2>3, FS_Subset
  <2> QED
    BY <1>1, <1>2, <1>3, <1>5, <2>5, <2>6, <2>7, <2>8
<1> QED
  BY <1>6

\* For any scores and holdings a rebalance sells at most NDrop names and never
\* widens a book beyond Topk; and with candidates enough to fill and turn over
\* the book it fills it, and buys nothing that ranks below what it sold
\* (topk_dropout_holdings).
THEOREM SelectionTurns ==
  ASSUME NEW cross, Scores(cross), NEW held, held \subseteq Int, IsFiniteSet(held)
  PROVE  LET candidates == DOMAIN cross \ held
             after == Holdings(cross, held)
         IN  /\ Cardinality(Sold(cross, held)) <= NDrop
             /\ Cardinality(after) <= Topk \/ Cardinality(after) <= Cardinality(held)
             /\ Cardinality(candidates) >= NDrop + Topk - Cardinality(held) =>
                  /\ Cardinality(after) >= Topk
                  /\ \A s \in Sold(cross, held), t \in Bought(cross, held) : Above(cross, t, s)
<1> DEFINE h == Cardinality(held)
           s == Cardinality(Sold(cross, held))
           b == Cardinality(Bought(cross, held))
           a == Cardinality(Admitted(cross, held))
           c == Cardinality(DOMAIN cross \ held)
           n == Cardinality(Holdings(cross, held))
<1>1. /\ {h, s, b, a, c, n, NDrop, Topk} \subseteq Nat
      /\ s <= NDrop /\ n = h - s + b
      /\ b <= s + Topk - h \/ b = 0
      /\ b >= s + Topk - h \/ b = a
      /\ a >= NDrop + Topk - h \/ a = c
  <2>1. {h, s, b, a, c, n} \subseteq Nat
    <3>1. h \in Nat /\ s \in Nat /\ b \in Nat
      BY SelectionIs
    <3>2. a \in Nat /\ c \in Nat /\ n \in Nat
      BY SelectionIs
    <3> QED
      BY <3>1, <3>2
  <2>4. s <= NDrop /\ n = h - s + b
    BY SelectionIs
  <2>2. b <= s + Topk - h \/ b = 0
    BY SelectionIs, FS_EmptySet
  <2>3. (b >= s + Topk - h \/ b = a) /\ (a >= NDrop + Topk - h \/ a = c)
    BY SelectionIs
  <2> HIDE DEF h, s, b, a, c, n
  <2> QED
    BY <2>1, <2>2, <2>3, <2>4, SelectionAssumption
<1> HIDE DEF h, s, b, a, c, n
<1>2. s <= NDrop /\ (n <= Topk \/ n <= h)
  BY <1>1
<1>3. ASSUME c >= NDrop + Topk - h PROVE n >= Topk /\ a >= NDrop + Topk - h
  BY <1>1, <1>3
<1> QED
  BY <1>2, <1>3, BoughtAboveSold DEF h, s, b, a, c, n
=============================================================================
