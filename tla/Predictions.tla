----------------------------- MODULE Predictions -----------------------------
(***************************************************************************)
(* The predictions a promoted strategy is traded from: the morning's       *)
(* re-prediction (execution/pred_refresh.py), the promotion gate's         *)
(* evaluation of two strategies on the confirmation window                 *)
(* (ops/confirm_window.py), and the rebalance's extraction of a target     *)
(* book (execution/signal.py).  All three look for predictions in the same *)
(* mlflow tree and take the newest pred.pkl they find there, whoever wrote *)
(* it; refresh and gate write theirs from containers, which outlive the    *)
(* process that started them when that one times out or dies.              *)
(*                                                                         *)
(* Days are trading days, numbered; a day stands for its date.             *)
(***************************************************************************)
EXTENDS Gate, Sequences

CONSTANTS
  Workspace,    \* research workspaces, each with one backtested run
  TestEnd,      \* the last day of every backtest
  ConfirmDays,  \* trading days reserved after it at launch: 63
  MaxLag,       \* days the store may trail the calendar: 5
  Keep,         \* refresh runs a successful refresh leaves: 5
  Artifacts,    \* each workspace's backtest artifacts, as Gate has them
  ConfirmIr,    \* each strategy's IR on the confirmation window
  First0,       \* the strategy promoted at the start
  MaxDay,       \* bound: days
  MaxHands,     \* bound: promotions and rollbacks by hand
  MaxAlive,     \* bound: containers at a time
  MaxRuns       \* bound: mlflow runs in a workspace, running ones included

ASSUME PredictionsAssumption ==
  /\ First0 \in Workspace
  /\ {TestEnd, MaxLag, MaxDay, MaxHands, MaxAlive, MaxRuns} \subseteq Nat
  /\ ConfirmDays \in Nat \ {0, 1}
  /\ Keep \in Nat \ {0}
  /\ ConfirmIr \in [Workspace -> Int \cup {Missing}]

VARIABLES
  match,      \* the workspaces whose chosen conf matches their backtest
  today,      \* the date in New York
  store,      \* the last day of the data store's calendar
  runs,       \* each workspace's runs with a pred.pkl, oldest first
  snap,       \* each workspace's pred-refresh snapshot
  pointer,    \* the promoted workspace, and whether the gate promoted it
  hands,      \* promotions by hand so far
  container,  \* the containers at work
  refresh,    \* the process of run_pred_refresh
  checked,    \* what today's self-check saw, while nothing has changed since
  gate,       \* the pipeline evaluating a candidate
  beaten,     \* which candidates the gate promoted over which incumbents
  rebal,      \* the process of run_rebalance
  trade       \* what today's rebalance did

vars == <<match, today, store, runs, snap, pointer, hands, container, refresh,
          checked, gate, beaten, rebal, trade>>

-----------------------------------------------------------------------------
(* Types *)

Day == 0 .. MaxDay

\* whole: pred.pkl is written to its end; until: which container is writing it.
\* end: its last cross-section.  faithful: its scores are those of the
\* backtested weights, put through the features they were trained on.
Run == [kind : {"backtest", "refresh", "confirm"}, until : Day, end : Day,
        faithful : {"yes", "no"}, whole : {"yes", "no"}]

\* cut: the three files of a snapshot are not all there.
Snap == {"none", "cut", "right", "wrong"}

Container == [ws : Workspace, kind : {"refresh", "confirm"}, until : Day,
              since : Day, faithful : {"yes", "no"},
              pc : {"predict", "write"}]

NoTrade == [result |-> "none"]
NoCheck == [result |-> "none"]
IdleRefresh == [pc |-> "idle"]
IdleGate == [pc |-> "idle"]
IdleRebal == [pc |-> "idle"]

RunsBounded == \A w \in Workspace : Len(runs[w]) <= MaxRuns

TypeOK ==
  /\ today \in Day /\ store \in Day
  /\ \A w \in Workspace : \A n \in DOMAIN runs[w] : runs[w][n] \in Run
  /\ RunsBounded
  /\ snap \in [Workspace -> Snap]
  /\ pointer \in [ws : Workspace, by : {"gate", "hand"}]
  /\ container \subseteq Container
  /\ refresh \in {IdleRefresh}
       \cup [pc : {"wait", "ran", "prune"}, ws : Workspace, until : Day]
       \cup [pc : {"due"}]
  /\ gate \in {IdleGate}
       \cup [pc : {"look", "wait", "reload", "verdict"},
             side : {"incumbent", "candidate"}, candidate : Workspace,
             incumbent : Workspace, until : Day]
  /\ rebal \in {IdleRebal}
       \cup [pc : {"loaded"}, ws : Workspace, by : {"gate", "hand"}]

-----------------------------------------------------------------------------
(* What the code reads *)

MinOf(a, b) == IF a < b THEN a ELSE b

\* locate_pred: newest modification time wins; _pred_paths lists the oldest first.
Newest(w) == runs[w][Len(runs[w])]
Original(w) == runs[w][1]

\* load_latest_cross_section and assert_fresh: a half-written file does not
\* unpickle, the store is recent, and so is the prediction against the store.
AssertFresh(run) ==
  /\ run.whole = "yes"
  /\ today - store <= MaxLag
  /\ run.end >= MinOf(store, today)

\* The day before each day of the window has a cross-section.
Covers(run, until) == run.whole = "yes" /\ run.end >= until - 1

\* Faulty variant: only a prediction made just now is compared.
ReproducesIfNew(w, repredicted) ==
  repredicted => Newest(w).faithful = "yes"

\* _check_reproduction: the used prediction is the oldest one, or ranks the
\* names as the oldest one does.
Reproduces(w, repredicted) ==
  \/ Len(runs[w]) = 1
  \/ Original(w).whole = "yes" /\ Newest(w).faithful = Original(w).faithful

Complete(w) == snap[w] \in {"right", "wrong"}

\* choose_source_conf: the conf that matches the run's recorded task; without a
\* recorded task the most specific name, which may be the wrong one.
SnapOf(w) == IF w \in match THEN "right" ELSE "wrong"

\* docker_command's --name: the refresh's does not name the workspace.
SameName(c, kind, w, until) ==
  c.kind = kind /\ c.until = until /\ (kind = "confirm" => c.ws = w)

NameTaken(kind, w, until) == \E c \in container : SameName(c, kind, w, until)

Working(w) == {c \in container : c.ws = w /\ c.pc = "predict"}

Room(w) ==
  /\ Len(runs[w]) + Cardinality(Working(w)) < MaxRuns
  /\ Cardinality(container) < MaxAlive

Launch(w, kind, until) ==
  container' = container \cup
    {[ws |-> w, kind |-> kind, until |-> until, since |-> MinOf(store, until),
      faithful |-> IF snap[w] = "right" THEN "yes" ELSE "no", pc |-> "predict"]}

\* The process that still waits for a container's exit code.
RefreshWaits(c) ==
  refresh.pc = "wait" /\ SameName(c, "refresh", refresh.ws, refresh.until)

GateSide == IF gate.side = "incumbent" THEN gate.incumbent ELSE gate.candidate

GateWaits(c) ==
  gate.pc = "wait" /\ SameName(c, "confirm", GateSide, gate.until)

-----------------------------------------------------------------------------
Init ==
  /\ match \in {S \in SUBSET Workspace : First0 \in S}
  /\ store = TestEnd + ConfirmDays
  /\ today = store + 1
  /\ runs = [w \in Workspace |->
       <<[kind |-> "backtest", until |-> 0, end |-> TestEnd,
          faithful |-> "yes", whole |-> "yes"]>>]
  /\ snap = [w \in Workspace |-> IF w = First0 THEN SnapOf(w) ELSE "none"]
  /\ pointer = [ws |-> First0, by |-> "hand"]
  /\ hands = 0
  /\ container = {}
  /\ refresh = [pc |-> "due"]
  /\ checked = NoCheck
  /\ gate = IdleGate
  /\ beaten = {}
  /\ rebal = IdleRebal
  /\ trade = NoTrade

\* The day's trading is over; 04:45 of the next trading day comes.
NextDay ==
  /\ today < MaxDay
  /\ refresh = IdleRefresh
  /\ rebal = IdleRebal
  /\ today' = today + 1
  /\ refresh' = [pc |-> "due"]
  /\ checked' = NoCheck
  /\ trade' = NoTrade
  /\ UNCHANGED <<match, store, runs, snap, pointer, hands, container, gate, beaten,
                 rebal>>

\* A store refresh has brought the calendar up to yesterday's bar.
StoreAdvances ==
  /\ store < today - 1
  /\ store' = today - 1
  /\ checked' = NoCheck
  /\ UNCHANGED <<match, today, runs, snap, pointer, hands, container, refresh, gate,
                 beaten, rebal, trade>>

-----------------------------------------------------------------------------
(* The containers: execution/pred_refresh_predict.py *)

\* The scores are computed, to the end the store had at some time meanwhile,
\* and pred.pkl begins to appear.
WriteBegin(c) ==
  /\ c \in container
  /\ c.pc = "predict"
  /\ \E end \in {c.since, MinOf(store, c.until)} :
       runs' = [runs EXCEPT ![c.ws] = Append(@,
         [kind |-> c.kind, until |-> c.until, end |-> end,
          faithful |-> c.faithful, whole |-> "no"])]
  /\ container' = (container \ {c}) \cup {[c EXCEPT !.pc = "write"]}
  /\ checked' = IF checked.result = "ok" /\ checked.ws = c.ws THEN NoCheck ELSE checked
  /\ UNCHANGED <<match, today, store, snap, pointer, hands, refresh, gate, beaten,
                 rebal, trade>>

Unfinished(c) ==
  {n \in DOMAIN runs[c.ws] :
     /\ runs[c.ws][n].whole = "no"
     /\ runs[c.ws][n].kind = c.kind
     /\ runs[c.ws][n].until = c.until}

\* Whoever still waits for the container learns that it succeeded.
Exit0(c) ==
  /\ refresh' = IF RefreshWaits(c) THEN [refresh EXCEPT !.pc = "ran"] ELSE refresh
  /\ gate' = IF GateWaits(c) THEN [gate EXCEPT !.pc = "reload"] ELSE gate

\* The file is complete, and the container exits with 0.
WriteEnd(c) ==
  /\ c \in container
  /\ c.pc = "write"
  /\ \E n \in Unfinished(c) :
       runs' = [runs EXCEPT ![c.ws][n] = [@ EXCEPT !.whole = "yes", !.until = 0]]
  /\ container' = container \ {c}
  /\ Exit0(c)
  /\ UNCHANGED <<match, today, store, snap, pointer, hands, checked, beaten, rebal,
                 trade>>

\* It fails, or its run directory was pruned under it: a nonzero exit code
\* ends the refresh with exit code 1 and the evaluation with an error.
ContainerFails(c) ==
  /\ c \in container
  /\ c.pc = "predict" \/ Unfinished(c) = {}
  /\ container' = container \ {c}
  /\ refresh' = IF RefreshWaits(c) THEN IdleRefresh ELSE refresh
  /\ gate' = IF GateWaits(c) THEN IdleGate ELSE gate
  /\ UNCHANGED <<match, today, store, runs, snap, pointer, hands, checked, beaten,
                 rebal, trade>>

-----------------------------------------------------------------------------
(* The morning's refresh *)

Pass(w) == checked' = [result |-> "ok", ws |-> w]

\* The timer, or an operator who starts a failed refresh again.
RefreshMayStart ==
  \/ refresh.pc = "due"
  \/ refresh = IdleRefresh /\ checked = NoCheck /\ trade = NoTrade

\* The snapshot is not complete, or a container of today's name still runs.
RefreshRefused ==
  /\ refresh.pc = "due"
  /\ \/ ~Complete(pointer.ws)
     \/ ~AssertFresh(Newest(pointer.ws)) /\ NameTaken("refresh", pointer.ws, today)
  /\ refresh' = IdleRefresh
  /\ UNCHANGED <<match, today, store, runs, snap, pointer, hands, container, checked,
                 gate, beaten, rebal, trade>>

\* The rebalancer's gate passes already: nothing to do.
RefreshAlreadyFresh ==
  /\ RefreshMayStart
  /\ Complete(pointer.ws)
  /\ AssertFresh(Newest(pointer.ws))
  /\ Pass(pointer.ws)
  /\ refresh' = IdleRefresh
  /\ UNCHANGED <<match, today, store, runs, snap, pointer, hands, container, gate,
                 beaten, rebal, trade>>

RefreshRun ==
  /\ RefreshMayStart
  /\ Complete(pointer.ws)
  /\ ~AssertFresh(Newest(pointer.ws))
  /\ ~NameTaken("refresh", pointer.ws, today)
  /\ Room(pointer.ws)
  /\ Launch(pointer.ws, "refresh", today)
  /\ refresh' = [pc |-> "wait", ws |-> pointer.ws, until |-> today]
  /\ UNCHANGED <<match, today, store, runs, snap, pointer, hands, checked, gate,
                 beaten, rebal, trade>>

\* After 40 minutes the docker client is killed, not the container.
RefreshTimesOut ==
  /\ refresh.pc = "wait"
  /\ refresh' = IdleRefresh
  /\ UNCHANGED <<match, today, store, runs, snap, pointer, hands, container, checked,
                 gate, beaten, rebal, trade>>

\* The self-check: the exact gate the rebalancer will apply.
RefreshSelfCheck ==
  /\ refresh.pc = "ran"
  /\ IF AssertFresh(Newest(refresh.ws))
     THEN Pass(refresh.ws) /\ refresh' = [refresh EXCEPT !.pc = "prune"]
     ELSE checked' = checked /\ refresh' = IdleRefresh
  /\ UNCHANGED <<match, today, store, runs, snap, pointer, hands, container, gate,
                 beaten, rebal, trade>>

\* Faulty variant: the candidates are sorted the wrong way round.
PrunableNewest(w) ==
  LET light == {n \in DOMAIN runs[w] : runs[w][n].kind # "backtest"}
  IN {n \in light : Cardinality({k \in light : k < n}) >= Keep}

\* The runs with nothing but a refresh's artifacts, beyond the newest Keep.
Prunable(w) ==
  LET light == {n \in DOMAIN runs[w] : runs[w][n].kind # "backtest"}
  IN {n \in light : Cardinality({k \in light : k > n}) >= Keep}

Increasing(f) == \A j, k \in DOMAIN f : j < k => f[j] < f[k]

\* prune_refresh_runs: what is left keeps its order.
PruneRuns(w) ==
  LET left == DOMAIN runs[w] \ Prunable(w)
      size == Cardinality(left)
  IN \E f \in [1 .. size -> left] :
       /\ Increasing(f)
       /\ {f[k] : k \in 1 .. size} = left
       /\ runs' = [runs EXCEPT ![w] = [k \in 1 .. size |-> runs[w][f[k]]]]

\* After a successful self-check only.
RefreshPrune ==
  /\ refresh.pc = "prune"
  /\ PruneRuns(refresh.ws)
  /\ refresh' = IdleRefresh
  /\ UNCHANGED <<match, today, store, snap, pointer, hands, container, checked,
                 gate, beaten, rebal, trade>>

-----------------------------------------------------------------------------
(* The gate: gate_and_promote, load_confirmation_evidence *)

\* The window ends with the store, now (the command line) or at launch.
WindowEnds == {TestEnd + ConfirmDays, store}

\* An existing conf file stands for the whole snapshot; without one it is taken.
GateStart(c, until) ==
  /\ gate = IdleGate
  /\ c # pointer.ws
  /\ until \in WindowEnds
  /\ snap' = [snap EXCEPT ![c] = IF @ = "none" THEN SnapOf(c) ELSE @]
  /\ gate' = [pc |-> "look", side |-> "incumbent", candidate |-> c,
              incumbent |-> pointer.ws, until |-> until]
  /\ UNCHANGED <<match, today, store, runs, pointer, hands, container, refresh,
                 checked, beaten, rebal, trade>>

\* The pipeline stops, or fails, between two of the snapshot's three files.
SnapshotCut(w) ==
  /\ snap[w] = "none"
  /\ snap' = [snap EXCEPT ![w] = "cut"]
  /\ UNCHANGED <<match, today, store, runs, pointer, hands, container, refresh,
                 checked, gate, beaten, rebal, trade>>

GateErrs ==
  /\ gate' = IdleGate
  /\ UNCHANGED <<match, today, store, runs, snap, pointer, hands, container, refresh,
                 checked, beaten, rebal, trade>>

GateNext ==
  gate' = IF gate.side = "incumbent"
          THEN [gate EXCEPT !.side = "candidate", !.pc = "look"]
          ELSE [gate EXCEPT !.pc = "verdict"]

\* confirmation_returns on a prediction that covers the window already.
GateCovered ==
  /\ gate.pc = "look"
  /\ Complete(GateSide)
  /\ Covers(Newest(GateSide), gate.until)
  /\ Reproduces(GateSide, FALSE)
  /\ GateNext
  /\ UNCHANGED <<match, today, store, runs, snap, pointer, hands, container, refresh,
                 checked, beaten, rebal, trade>>

\* _run_repredict: from the snapshot, to the end of the window.
GateRepredict ==
  /\ gate.pc = "look"
  /\ Complete(GateSide)
  /\ ~Covers(Newest(GateSide), gate.until)
  /\ ~NameTaken("confirm", GateSide, gate.until)
  /\ Room(GateSide)
  /\ Launch(GateSide, "confirm", gate.until)
  /\ gate' = [gate EXCEPT !.pc = "wait"]
  /\ UNCHANGED <<match, today, store, runs, snap, pointer, hands, refresh, checked,
                 beaten, rebal, trade>>

\* The re-prediction is over: the newest prediction is taken, whoever made it.
GateReload ==
  /\ gate.pc = "reload"
  /\ Covers(Newest(GateSide), gate.until)
  /\ Reproduces(GateSide, TRUE)
  /\ GateNext
  /\ UNCHANGED <<match, today, store, runs, snap, pointer, hands, container, refresh,
                 checked, beaten, rebal, trade>>

\* A missing snapshot file; docker refuses a name in use; the prediction does
\* not reach the window's end, or does not reproduce the original.
GateRefused ==
  /\ \/ gate.pc = "look" /\ ~Complete(GateSide)
     \/ /\ gate.pc = "look"
        /\ ~Covers(Newest(GateSide), gate.until)
        /\ NameTaken("confirm", GateSide, gate.until)
     \/ gate.pc = "reload" /\ ~Covers(Newest(GateSide), gate.until)
     \/ /\ gate.pc \in {"look", "reload"}
        /\ Covers(Newest(GateSide), gate.until)
        /\ ~Reproduces(GateSide, gate.pc = "reload")
  /\ GateErrs

\* The evaluation times out, or the pipeline is stopped: the container stays.
GateGivesUp == gate # IdleGate /\ GateErrs

Evidence ==
  [error |-> FALSE, candidate |-> ConfirmIr[gate.candidate],
   incumbent |-> ConfirmIr[gate.incumbent]]

\* evaluate_gate and, on a pass, promote_workspace: the snapshot again, and the
\* pointer.
GateVerdict ==
  /\ gate.pc = "verdict"
  /\ IF Passes(BundleOf(Artifacts[gate.candidate]),
               BundleOf(Artifacts[gate.incumbent]), Evidence)
     THEN /\ snap' = [snap EXCEPT ![gate.candidate] = SnapOf(gate.candidate)]
          /\ pointer' = [ws |-> gate.candidate, by |-> "gate"]
          /\ beaten' = beaten \cup {<<gate.candidate, gate.incumbent>>}
     ELSE UNCHANGED <<snap, pointer, beaten>>
  /\ gate' = IdleGate
  /\ UNCHANGED <<match, today, store, runs, hands, container, refresh, checked,
                 rebal, trade>>

\* The operator promotes without the gate, or rolls back; the snapshot that
\* belongs to it may fail, which is only warned about.
PromoteByHand(w) ==
  /\ pointer # [ws |-> w, by |-> "hand"]
  /\ hands < MaxHands
  /\ hands' = hands + 1
  /\ pointer' = [ws |-> w, by |-> "hand"]
  /\ \E s \in {snap[w], SnapOf(w)} : snap' = [snap EXCEPT ![w] = s]
  /\ UNCHANGED <<match, today, store, runs, container, refresh, checked, gate,
                 beaten, rebal, trade>>

-----------------------------------------------------------------------------
(* The rebalance *)

\* 08:00: the timer's refresh is over, at 05:25 at the latest.
RebalanceLoad ==
  /\ refresh.pc # "due"
  /\ rebal = IdleRebal
  /\ trade = NoTrade
  /\ rebal' = [pc |-> "loaded", ws |-> pointer.ws, by |-> pointer.by]
  /\ UNCHANGED <<match, today, store, runs, snap, pointer, hands, container, refresh,
                 checked, gate, beaten, trade>>

\* extract_targets: the book moves to what the newest prediction says.
RebalanceTrade ==
  /\ rebal.pc = "loaded"
  /\ AssertFresh(Newest(rebal.ws))
  /\ trade' = [result |-> "traded", by |-> rebal.by, end |-> Newest(rebal.ws).end,
               faithful |-> Newest(rebal.ws).faithful]
  /\ rebal' = IdleRebal
  /\ UNCHANGED <<match, today, store, runs, snap, pointer, hands, container,
                 refresh, checked, gate, beaten>>

\* A SignalError aborts the day without trading.
RebalanceAborts ==
  /\ rebal.pc = "loaded"
  /\ ~AssertFresh(Newest(rebal.ws))
  /\ trade' = [result |-> "aborted", ws |-> rebal.ws]
  /\ rebal' = IdleRebal
  /\ UNCHANGED <<match, today, store, runs, snap, pointer, hands, container, refresh,
                 checked, gate, beaten>>

-----------------------------------------------------------------------------
ContainerStep ==
  \E c \in container : WriteBegin(c) \/ WriteEnd(c) \/ ContainerFails(c)

RefreshStep ==
  \/ RefreshRefused
  \/ RefreshAlreadyFresh
  \/ RefreshRun
  \/ RefreshTimesOut
  \/ RefreshSelfCheck
  \/ RefreshPrune

GateStep ==
  \/ \E c \in Workspace, until \in Day : GateStart(c, until)
  \/ GateCovered
  \/ GateRepredict
  \/ GateReload
  \/ GateRefused
  \/ GateGivesUp
  \/ GateVerdict

RebalanceStep ==
  \/ RebalanceLoad
  \/ RebalanceTrade
  \/ RebalanceAborts

Next ==
  \/ NextDay
  \/ StoreAdvances
  \/ ContainerStep
  \/ RefreshStep
  \/ GateStep
  \/ \E w \in Workspace : SnapshotCut(w) \/ PromoteByHand(w)
  \/ RebalanceStep

Spec == Init /\ [][Next]_vars

-----------------------------------------------------------------------------
(* Properties *)

\* A strategy the gate promoted is never traded on scores that do not reproduce
\* its backtest, whatever the refreshes, evaluations, prunings and timed-out
\* containers of all the days before have left in its mlflow tree.
GatedIsFaithful ==
  trade.result = "traded" /\ trade.by = "gate" => trade.faithful = "yes"

\* A refresh that reported success has done its work: unless the store, the
\* pointer or the predictions have changed since, the rebalance of that day
\* does not abort.
CheckedIsTraded ==
  [][trade = NoTrade /\ trade'.result = "aborted"
       => ~(checked.result = "ok" /\ checked.ws = rebal.ws)]_vars

\* The oldest prediction of a workspace, the reproduction check's reference, is
\* its backtest's: no pruning removes it.
ReferenceKept == \A w \in Workspace : Original(w).kind = "backtest"

\* On the same evidence the gate does not promote two strategies over one another
\* in turns, also when both lose money and the margin on the shared days favours
\* the worse: the confirmation leg decides (_confirmation_criterion).
NeverInTurns == \A w, x \in Workspace : ~({<<w, x>>, <<x, w>>} \subseteq beaten)
=============================================================================
