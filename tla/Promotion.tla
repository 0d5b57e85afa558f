----------------------------- MODULE Promotion -----------------------------
(***************************************************************************)
(* Which strategy trades: the promoted_strategy pointer and the            *)
(* promotion_history rows of orchestrator/state.sqlite, the four routes    *)
(* that move the pointer, and the weekly sweep that deletes workspaces.    *)
(*                                                                         *)
(*   Gate  gate_and_promote of ops/gpu_pipeline.py                         *)
(*   Cli   ops/promote_fetched.py                                          *)
(*   Chat  PromotionFlow.confirm_promotion of orchestrator/promotion.py    *)
(*   Undo  ops/rollback_promotion.py                                       *)
(*                                                                         *)
(* They are separate processes (the chat handlers, threads) that share     *)
(* only the database and the disk; a gate evaluation takes minutes.        *)
(***************************************************************************)
EXTENDS Naturals, FiniteSets, Sequences

CONSTANTS
  Workspace,   \* backtested workspaces under ~/rdq-runs
  Gate, Cli, Chat, Undo,   \* the processes on each route
  Sweeper,     \* the ops.sweep process
  Sota,        \* workspaces whose logged feedback was accepted
  Kept,        \* RECENT_PROMOTIONS_KEPT
  MaxHistory,  \* bound on the promotions of one behaviour
  None         \* "no workspace"

Promoter == Gate \cup Cli \cup Chat \cup Undo
Proc == Promoter \cup {Sweeper}

ASSUME PromoterAssumption ==
  /\ Gate \cap (Cli \cup Chat \cup Undo) = {}
  /\ Cli \cap (Chat \cup Undo) = {}
  /\ Chat \cap Undo = {}
  /\ Sweeper \notin Promoter

ASSUME WorkspaceAssumption ==
  /\ Sota \subseteq Workspace
  /\ None \notin Workspace

ASSUME BoundAssumption ==
  /\ Kept \in Nat \ {0}
  /\ MaxHistory \in Nat

VARIABLES
  pointer,   \* promoted_strategy.workspace_path
  history,   \* promotion_history, oldest first
  tree,      \* what is on disk of each workspace
  age,       \* how the sweep sees its mtimes
  snap,      \* workspaces holding the pred-refresh snapshot files
  pc,        \* where each process is
  job,       \* what each promoter has decided and read so far
  plan       \* what the sweep has read and decided

vars == <<pointer, history, tree, age, snap, pc, job, plan>>

-----------------------------------------------------------------------------
(* Types *)

WorkspaceOrNone == Workspace \cup {None}
Source == {"auto_gate", "cli", "conversation"}
Verdict == {"passed", "forced", "none"}

\* Whether the promotion took the pred-refresh snapshot before its flip.
Snapped == {"taken", "none"}

Entry == [workspace : Workspace, source : Source, verdict : Verdict,
          against : WorkspaceOrNone, replaced : WorkspaceOrNone,
          snapshot : Snapped]

\* against: the incumbent the gate read; replaced: the SELECT before the flip.
Job == [target : WorkspaceOrNone, verdict : Verdict,
        against : WorkspaceOrNone, replaced : WorkspaceOrNone,
        snapshot : Snapped]

NoJob == [target |-> None, verdict |-> "none", against |-> None,
          replaced |-> None, snapshot |-> "none"]
NoPlan == [pinned |-> None, trees |-> {}, runs |-> {}]

TypeOK ==
  /\ pointer \in WorkspaceOrNone
  /\ history \in Seq(Entry)
  /\ tree \in [Workspace -> {"unborn", "full", "bare", "swept"}]
  /\ age \in [Workspace -> {"new", "runsold", "old"}]
  /\ snap \subseteq Workspace
  /\ pc \in [Proc -> {"idle", "gate", "snapshot", "select", "flip", "late",
                      "protect", "delete"}]
  /\ job \in [Promoter -> Job]
  /\ plan \in [pinned : WorkspaceOrNone, trees : SUBSET Workspace,
               runs : SUBSET Workspace]

-----------------------------------------------------------------------------
(* What the code reads *)

Goto(p, label) == pc' = [pc EXCEPT ![p] = label]

Present(w) == tree[w] \in {"full", "bare"}

Promoted == {history[i].workspace : i \in DOMAIN history}

\* The promotions still to come of the processes under way.
InFlight == {p \in Promoter : pc[p] \notin {"idle", "late"}}

Room == Len(history) + Cardinality(InFlight) < MaxHistory

\* Faulty variant: one promotion too few is protected.
RecentOneLess ==
  {history[i].workspace :
     i \in {j \in DOMAIN history : j + Kept > Len(history) + 1}}

\* recent_promotion_workspaces: the Kept newest rows.
Recent ==
  {history[i].workspace :
     i \in {j \in DOMAIN history : j + Kept > Len(history)}}

\* The source each route passes: one of PROMOTION_SOURCES.
RouteSource(p) ==
  IF p \in Gate THEN "auto_gate"
  ELSE IF p \in Chat THEN "conversation" ELSE "cli"

-----------------------------------------------------------------------------
Init ==
  /\ pointer = None
  /\ history = << >>
  /\ tree = [w \in Workspace |-> "unborn"]
  /\ age = [w \in Workspace |-> "new"]
  /\ snap = {}
  /\ pc = [p \in Proc |-> "idle"]
  /\ job = [p \in Promoter |-> NoJob]
  /\ plan = NoPlan

\* A research run is fetched: a workspace with a fresh uuid appears.
Fetch(w) ==
  /\ tree[w] = "unborn"
  /\ tree' = [tree EXCEPT ![w] = "full"]
  /\ UNCHANGED <<pointer, history, age, snap, pc, job, plan>>

\* Fourteen days without a write: long against one promotion.
Age(w) ==
  /\ Present(w)
  /\ age[w] # "old"
  /\ \A p \in Promoter : job[p].target # w
  /\ age' = [age EXCEPT ![w] = "old"]
  /\ UNCHANGED <<pointer, history, tree, snap, pc, job, plan>>

-----------------------------------------------------------------------------
(* The gated routes *)

\* get_promoted_strategy, before minutes of evaluation.
Incumbent == pointer

ReadIncumbent(p, w) ==
  /\ p \in Gate \cup Cli
  /\ pc[p] = "idle"
  /\ Room
  /\ tree[w] = "full"
  /\ job' = [job EXCEPT ![p] = [NoJob EXCEPT !.target = w, !.against = Incumbent]]
  /\ Goto(p, "gate")
  /\ UNCHANGED <<pointer, history, tree, age, snap, plan>>

Target(p) == job[p].target

\* snapshot_pred_refresh writes three files into the workspace, which makes
\* the tree young again but not the mlflow runs inside it.
TakeSnapshot(w) ==
  /\ snap' = snap \cup {w}
  /\ age' = [age EXCEPT ![w] = IF @ = "old" THEN "runsold" ELSE @]

\* The end of a promotion that writes nothing more.
Drop(p) ==
  /\ job' = [job EXCEPT ![p] = NoJob]
  /\ Goto(p, "idle")

\* With an incumbent the candidate is re-predicted from its snapshot, which is
\* taken when it is not there yet.
GateSnapshot(p) ==
  IF job[p].against = None \/ Target(p) \in snap THEN UNCHANGED <<snap, age>>
  ELSE TakeSnapshot(Target(p))

GatePass(p) ==
  /\ pc[p] = "gate"
  /\ tree[Target(p)] = "full"
  /\ GateSnapshot(p)
  /\ job' = [job EXCEPT ![p].verdict = "passed"]
  /\ Goto(p, "snapshot")
  /\ UNCHANGED <<pointer, history, tree, plan>>

\* A failing or unavailable verdict, with or without the snapshot it takes.
GateFail(p) ==
  /\ pc[p] = "gate"
  /\ \/ UNCHANGED <<snap, age>>
     \/ tree[Target(p)] = "full" /\ GateSnapshot(p)
  /\ Drop(p)
  /\ UNCHANGED <<pointer, history, tree, plan>>

\* promote_fetched --yes --force.
GateForced(p) ==
  /\ p \in Cli
  /\ pc[p] = "gate"
  /\ \/ UNCHANGED <<snap, age>>
     \/ tree[Target(p)] = "full" /\ GateSnapshot(p)
  /\ job' = [job EXCEPT ![p].verdict = "forced"]
  /\ Goto(p, "snapshot")
  /\ UNCHANGED <<pointer, history, tree, plan>>

-----------------------------------------------------------------------------
(* The ungated routes *)

\* confirm_promotion: the trace still leads to a workspace with qlib_res.csv.
StartChat(p, w) ==
  /\ p \in Chat
  /\ pc[p] = "idle"
  /\ Room
  /\ Present(w)
  /\ job' = [job EXCEPT ![p] = [NoJob EXCEPT !.target = w]]
  /\ Goto(p, "select")
  /\ UNCHANGED <<pointer, history, tree, age, snap, plan>>

\* select_target (the default choice is one that --to may name), is_dir.
Restorable(w) == w \in Promoted \ {pointer} /\ Present(w)

\* rollback_promotion --yes, with or without --keep-snapshot.
StartUndo(p, w) ==
  /\ p \in Undo
  /\ pc[p] = "idle"
  /\ Room
  /\ Restorable(w)
  /\ job' = [job EXCEPT ![p] = [NoJob EXCEPT !.target = w]]
  /\ \E label \in {"snapshot", "select"} : Goto(p, label)
  /\ UNCHANGED <<pointer, history, tree, age, snap, plan>>

-----------------------------------------------------------------------------
(* The writes *)

\* Faulty variant: a failing snapshot is only warned about.
SnapshotWarn(p) ==
  /\ pc[p] = "snapshot"
  /\ job' = [job EXCEPT ![p].snapshot = "taken"]
  /\ IF tree[Target(p)] = "full" THEN TakeSnapshot(Target(p))
     ELSE UNCHANGED <<snap, age>>
  /\ Goto(p, "select")
  /\ UNCHANGED <<pointer, history, tree, plan>>

\* validate_workspace and the snapshot come before the pointer flip.
Snapshot(p) ==
  /\ pc[p] = "snapshot"
  /\ tree[Target(p)] = "full"
  /\ TakeSnapshot(Target(p))
  /\ job' = [job EXCEPT ![p].snapshot = "taken"]
  /\ Goto(p, "select")
  /\ UNCHANGED <<pointer, history, tree, plan>>

\* The workspace does not validate, or its snapshot fails: nothing is written.
SnapshotFails(p) ==
  /\ pc[p] = "snapshot"
  /\ Drop(p)
  /\ UNCHANGED <<pointer, history, tree, age, snap, plan>>

\* The SELECT of set_promoted_strategy: sqlite3 opens the transaction at the
\* first INSERT only, so this read is not part of it.
SelectPrevious(p) ==
  /\ pc[p] = "select"
  /\ job' = [job EXCEPT ![p].replaced = pointer]
  /\ Goto(p, "flip")
  /\ UNCHANGED <<pointer, history, tree, age, snap, plan>>

NewEntry(p) ==
  [workspace |-> Target(p), source |-> RouteSource(p),
   verdict |-> job[p].verdict, against |-> job[p].against,
   replaced |-> job[p].replaced, snapshot |-> job[p].snapshot]

\* The pointer and its audit row commit together.
Flip(p) ==
  /\ pc[p] = "flip"
  /\ pointer' = Target(p)
  /\ history' = Append(history, NewEntry(p))
  /\ IF p \in Chat THEN Goto(p, "late") /\ job' = job ELSE Drop(p)
  /\ UNCHANGED <<tree, age, snap, plan>>

\* confirm_promotion snapshots last, and only warns when that fails.
LateSnapshot(p) ==
  /\ pc[p] = "late"
  /\ \/ tree[Target(p)] = "full" /\ TakeSnapshot(Target(p))
     \/ UNCHANGED <<snap, age>>
  /\ Drop(p)
  /\ UNCHANGED <<pointer, history, tree, plan>>

-----------------------------------------------------------------------------
(* The sweep: ops/sweep.py *)

SweepPointer ==
  /\ pc[Sweeper] = "idle"
  /\ plan' = [NoPlan EXCEPT !.pinned = pointer]
  /\ Goto(Sweeper, "protect")
  /\ UNCHANGED <<pointer, history, tree, age, snap, job>>

Unprotected ==
  {w \in Workspace : Present(w)} \ (Recent \cup Sota \cup {plan.pinned})

\* build_plan, after promoted_workspace: whole trees, or the runs inside.
SweepPlan ==
  /\ pc[Sweeper] = "protect"
  /\ plan' = [plan EXCEPT !.trees = {w \in Unprotected : age[w] = "old"},
                          !.runs = {w \in Unprotected : age[w] = "runsold"}]
  /\ Goto(Sweeper, "delete")
  /\ UNCHANGED <<pointer, history, tree, age, snap, job>>

\* execute: shutil.rmtree, which may fail part-way.
DeleteTree(w) ==
  /\ pc[Sweeper] = "delete"
  /\ w \in plan.trees
  /\ plan' = [plan EXCEPT !.trees = @ \ {w}]
  /\ \E rest \in {"swept", "bare"} : tree' = [tree EXCEPT ![w] = rest]
  /\ snap' = snap \ {w}
  /\ UNCHANGED <<pointer, history, age, pc, job>>

DeleteRuns(w) ==
  /\ pc[Sweeper] = "delete"
  /\ w \in plan.runs
  /\ plan' = [plan EXCEPT !.runs = @ \ {w}]
  /\ tree' = [tree EXCEPT ![w] = "bare"]
  /\ UNCHANGED <<pointer, history, age, snap, pc, job>>

SweepEnd ==
  /\ pc[Sweeper] = "delete"
  /\ plan.trees = {} /\ plan.runs = {}
  /\ plan' = NoPlan
  /\ Goto(Sweeper, "idle")
  /\ UNCHANGED <<pointer, history, tree, age, snap, job>>

-----------------------------------------------------------------------------
Start(p) ==
  \E w \in Workspace : ReadIncumbent(p, w) \/ StartChat(p, w) \/ StartUndo(p, w)

Continue(p) ==
  \/ GatePass(p)
  \/ GateFail(p)
  \/ GateForced(p)
  \/ Snapshot(p)
  \/ SnapshotFails(p)
  \/ SelectPrevious(p)
  \/ Flip(p)
  \/ LateSnapshot(p)

Sweep ==
  \/ SweepPointer
  \/ SweepPlan
  \/ SweepEnd
  \/ \E w \in Workspace : DeleteTree(w) \/ DeleteRuns(w)

Next ==
  \/ \E w \in Workspace : Fetch(w) \/ Age(w)
  \/ \E p \in Promoter : Start(p) \/ Continue(p)
  \/ Sweep

Spec == Init /\ [][Next]_vars

\* The same system when the short parts do not overlap. A promotion from its
\* snapshot to its last write and a sweep take seconds to a few minutes each; an
\* evaluation takes minutes to hours, and every other step may fall inside one.
Busy(p) == pc[p] \notin {"idle", "gate"}

Apart == \A p, q \in Proc : Busy(p) /\ Busy(q) => p = q

ApartNext == Next /\ Apart'

ApartSpec == Init /\ [][ApartNext]_vars

-----------------------------------------------------------------------------
(* Properties *)

\* Whatever the routes interleave, the strategy that trades is the one the
\* newest audit row names: rollback and the audit both read the history.
PointerIsAudited ==
  pointer = IF history = << >> THEN None ELSE history[Len(history)].workspace

\* The promoted strategy's workspace exists: the nightly rebalancer reads its
\* predictions from there.
PromotedOnDisk == pointer # None => Present(pointer)

\* The last Kept promotions stay on disk, so that a rollback can restore them.
RecentOnDisk ==
  \A i \in DOMAIN history :
    i + Kept > Len(history) => Present(history[i].workspace)

\* The audit trail is a chain: each row names as replaced the workspace of the
\* row before it.
ReplacedIsPredecessor ==
  \A i \in DOMAIN history :
    history[i].replaced = IF i = 1 THEN None ELSE history[i - 1].workspace

\* A strategy promoted after its snapshot still has it while it is the pointer,
\* and so can be re-predicted every morning.
PromotedCanRefresh ==
  (history # << >> /\ history[Len(history)].snapshot = "taken") => pointer \in snap

\* The audit rows as entries of the abstract register.
Trail ==
  [i \in DOMAIN history |->
     [strategy |-> history[i].workspace, replaced |-> history[i].replaced]]

PromotionRegister ==
  INSTANCE Register WITH Strategy <- Workspace, current <- pointer, trail <- Trail,
                         available <- {w \in Workspace : Present(w)}

\* The four routes and the sweep implement a register that changes in one step,
\* to a workspace that is there, that records whom it replaced, and whose newest
\* entries are never deleted.
ImplementsRegister == PromotionRegister!Spec

\* Once a second strategy has been promoted, some other promoted workspace is
\* on disk to roll back to.
SomewhereToRollBack ==
  (Promoted \ {pointer}) # {} => \E w \in Promoted \ {pointer} : Present(w)

-----------------------------------------------------------------------------
(* Statements the code does not keep (README, section 5) *)

\* A workspace whose promotion passed the gate passed it against the strategy
\* it took the place of: nothing looks again after the minutes of evaluation.
GatedAgainstReplaced ==
  \A i \in DOMAIN history :
    history[i].verdict = "passed" =>
      history[i].against = IF i = 1 THEN None ELSE history[i - 1].workspace
=============================================================================
