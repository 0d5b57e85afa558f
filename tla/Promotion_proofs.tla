-------------------------- MODULE Promotion_proofs --------------------------
(***************************************************************************)
(* Promotion for any number of workspaces, processes and promotions: its   *)
(* types and the audited pointer for every interleaving, and, when only    *)
(* gate evaluations overlap other work, the workspaces and the snapshots   *)
(* the sweep leaves on disk, and the abstract register.                    *)
(***************************************************************************)
EXTENDS Promotion, TLAPS

USE DEF Promoter, Proc, WorkspaceOrNone, Source, Verdict, Snapped, Entry, Job

LEMMA TypeInit == Init => TypeOK
BY WorkspaceAssumption, PromoterAssumption
   DEF Init, TypeOK, NoJob, NoPlan

LEMMA EntryTyped ==
  ASSUME TypeOK, NEW p \in Promoter, Target(p) \in Workspace
  PROVE  NewEntry(p) \in Entry
BY DEF TypeOK, NewEntry, Target, RouteSource

\* A promoter under way has chosen a workspace.
Aimed == \A p \in Promoter : pc[p] # "idle" => Target(p) \in Workspace

LEMMA AimedInit == Init => Aimed
BY DEF Init, Aimed

LEMMA JobTyped ==
  ASSUME NEW j \in Job
  PROVE  /\ NoJob \in Job
         /\ \A w \in Workspace : [NoJob EXCEPT !.target = w] \in Job
         /\ \A v \in Verdict : [j EXCEPT !.verdict = v] \in Job
                               /\ [j EXCEPT !.verdict = v].target = j.target
         /\ \A r \in WorkspaceOrNone : [j EXCEPT !.replaced = r] \in Job
                               /\ [j EXCEPT !.replaced = r].target = j.target
         /\ \A s \in Snapped : [j EXCEPT !.snapshot = s] \in Job
                               /\ [j EXCEPT !.snapshot = s].target = j.target
BY DEF NoJob

\* One promoter's job and place change; what is left to show is their types.
LEMMA MoveTyped ==
  ASSUME TypeOK, Aimed, NEW p \in Promoter, NEW j \in Job,
         NEW l \in {"idle", "gate", "snapshot", "select", "flip", "late"},
         l = "idle" \/ j.target \in Workspace,
         pc' = [pc EXCEPT ![p] = l], job' = [job EXCEPT ![p] = j]
  PROVE  /\ pc' \in [Proc -> {"idle", "gate", "snapshot", "select", "flip",
                              "late", "protect", "delete"}]
         /\ job' \in [Promoter -> Job]
         /\ Aimed'
<1>1. pc' \in [Proc -> {"idle", "gate", "snapshot", "select", "flip", "late",
                       "protect", "delete"}]
      /\ job' \in [Promoter -> Job]
  BY DEF TypeOK
<1>2. ASSUME NEW q \in Promoter, pc'[q] # "idle" PROVE job'[q].target \in Workspace
  <2>1. CASE q = p
    BY <1>2, <2>1 DEF TypeOK
  <2>2. CASE q # p
    BY <1>2, <2>2 DEF TypeOK, Aimed, Target
  <2> QED BY <2>1, <2>2
<1> QED BY <1>1, <1>2 DEF Aimed, Target

LEMMA TypeStep == TypeOK /\ Aimed /\ [Next]_vars => TypeOK' /\ Aimed'
<1> SUFFICES ASSUME TypeOK, Aimed, [Next]_vars PROVE TypeOK' /\ Aimed'
  OBVIOUS
<1> USE PromoterAssumption, WorkspaceAssumption
<1>1. CASE UNCHANGED vars
  BY <1>1 DEF vars, TypeOK, Aimed, Target
<1>2. ASSUME NEW w \in Workspace, Fetch(w) \/ Age(w) PROVE TypeOK' /\ Aimed'
  BY <1>2 DEF Fetch, Age, TypeOK, Aimed, Target
<1>3. ASSUME NEW p \in Promoter, Start(p) PROVE TypeOK' /\ Aimed'
  <2>1. PICK w \in Workspace :
          ReadIncumbent(p, w) \/ StartChat(p, w) \/ StartUndo(p, w)
    BY <1>3 DEF Start
  <2>2. CASE ReadIncumbent(p, w)
    BY <2>2 DEF ReadIncumbent, Incumbent, NoJob, Goto, TypeOK, Aimed, Target
  <2>3. CASE StartChat(p, w)
    BY <2>3 DEF StartChat, NoJob, Goto, TypeOK, Aimed, Target
  <2>4. CASE StartUndo(p, w)
    <3>1. PICK label \in {"snapshot", "select"} : pc' = [pc EXCEPT ![p] = label]
      BY <2>4 DEF StartUndo, Goto
    <3>2. [NoJob EXCEPT !.target = w] \in Job
      BY DEF NoJob
    <3>3. job' = [job EXCEPT ![p] = [NoJob EXCEPT !.target = w]]
      BY <2>4 DEF StartUndo
    <3>4. Aimed'
      BY <3>1, <3>3 DEF NoJob, TypeOK, Aimed, Target
    <3> QED BY <2>4, <3>1, <3>2, <3>3, <3>4 DEF StartUndo, TypeOK
  <2> QED BY <2>1, <2>2, <2>3, <2>4
<1>4. ASSUME NEW p \in Promoter, Continue(p) PROVE TypeOK' /\ Aimed'
  <2>1. pc[p] # "idle" /\ Target(p) \in Workspace
    BY <1>4 DEF Continue, GatePass, GateFail, GateForced, Snapshot,
         SnapshotFails, SelectPrevious, Flip, LateSnapshot, Aimed
  <2>2. CASE GatePass(p)
    <3>1. job[p] \in Job /\ Target(p) = job[p].target
      BY DEF TypeOK, Target
    <3>2. /\ [job[p] EXCEPT !.verdict = "passed"] \in Job
          /\ [job[p] EXCEPT !.verdict = "passed"].target = job[p].target
      BY <3>1, JobTyped DEF TypeOK
    <3>3. /\ pc' = [pc EXCEPT ![p] = "snapshot"]
          /\ job' = [job EXCEPT ![p] = [job[p] EXCEPT !.verdict = "passed"]]
      BY <2>2 DEF GatePass, Goto
    <3>4. /\ pc' \in [Proc -> {"idle", "gate", "snapshot", "select", "flip",
                               "late", "protect", "delete"}]
          /\ job' \in [Promoter -> Job]
          /\ Aimed'
      BY <2>1, <3>1, <3>2, <3>3, MoveTyped
    <3> QED
      BY <2>1, <2>2, <3>4 DEF GatePass, GateSnapshot, TakeSnapshot, TypeOK
  <2>3. CASE GateFail(p)
    BY <2>1, <2>3 DEF GateFail, GateSnapshot, Drop, NoJob, TakeSnapshot, Goto, TypeOK, Aimed,
         Target
  <2>4. CASE GateForced(p)
    <3>1. job[p] \in Job /\ Target(p) = job[p].target
      BY DEF TypeOK, Target
    <3>2. /\ [job[p] EXCEPT !.verdict = "forced"] \in Job
          /\ [job[p] EXCEPT !.verdict = "forced"].target = job[p].target
      BY <3>1, JobTyped DEF TypeOK
    <3>3. /\ pc' = [pc EXCEPT ![p] = "snapshot"]
          /\ job' = [job EXCEPT ![p] = [job[p] EXCEPT !.verdict = "forced"]]
      BY <2>4 DEF GateForced, Goto
    <3>4. /\ pc' \in [Proc -> {"idle", "gate", "snapshot", "select", "flip",
                               "late", "protect", "delete"}]
          /\ job' \in [Promoter -> Job]
          /\ Aimed'
      BY <2>1, <3>1, <3>2, <3>3, MoveTyped
    <3> QED
      BY <2>1, <2>4, <3>4 DEF GateForced, GateSnapshot, TakeSnapshot, TypeOK
  <2>5. CASE Snapshot(p)
    <3>1. job[p] \in Job /\ Target(p) = job[p].target
      BY DEF TypeOK, Target
    <3>2. /\ [job[p] EXCEPT !.snapshot = "taken"] \in Job
          /\ [job[p] EXCEPT !.snapshot = "taken"].target = job[p].target
      BY <3>1, JobTyped
    <3>3. /\ pc' = [pc EXCEPT ![p] = "select"]
          /\ job' = [job EXCEPT ![p] = [job[p] EXCEPT !.snapshot = "taken"]]
      BY <2>5 DEF Snapshot, Goto
    <3>4. /\ pc' \in [Proc -> {"idle", "gate", "snapshot", "select", "flip",
                               "late", "protect", "delete"}]
          /\ job' \in [Promoter -> Job]
          /\ Aimed'
      BY <2>1, <3>1, <3>2, <3>3, MoveTyped
    <3> QED
      BY <2>1, <2>5, <3>4 DEF Snapshot, TakeSnapshot, TypeOK
  <2>6. CASE SnapshotFails(p)
    BY <2>1, <2>6 DEF SnapshotFails, Drop, NoJob, Goto, TypeOK, Aimed, Target
  <2>7. CASE SelectPrevious(p)
    <3>1. job[p] \in Job /\ Target(p) = job[p].target
      BY DEF TypeOK, Target
    <3>2. /\ [job[p] EXCEPT !.replaced = pointer] \in Job
          /\ [job[p] EXCEPT !.replaced = pointer].target = job[p].target
      BY <3>1, JobTyped DEF TypeOK
    <3>3. /\ pc' = [pc EXCEPT ![p] = "flip"]
          /\ job' = [job EXCEPT ![p] = [job[p] EXCEPT !.replaced = pointer]]
      BY <2>7 DEF SelectPrevious, Goto
    <3>4. /\ pc' \in [Proc -> {"idle", "gate", "snapshot", "select", "flip",
                               "late", "protect", "delete"}]
          /\ job' \in [Promoter -> Job]
          /\ Aimed'
      BY <2>1, <3>1, <3>2, <3>3, MoveTyped
    <3> QED
      BY <2>1, <2>7, <3>4 DEF SelectPrevious, TypeOK
  <2>8. CASE Flip(p)
    <3>1. NewEntry(p) \in Entry
      BY <2>1, EntryTyped
    <3>2. history' \in Seq(Entry)
      BY <2>8, <3>1 DEF Flip, TypeOK
    <3>3. pc' \in [Proc -> {"idle", "gate", "snapshot", "select", "flip", "late",
                           "protect", "delete"}]
          /\ job' \in [Promoter -> Job]
          /\ \A q \in Promoter : pc'[q] # "idle" => pc[q] # "idle" /\ job'[q] = job[q]
      <4>1. CASE p \in Chat
        BY <2>8, <4>1 DEF Flip, Goto, TypeOK
      <4>2. CASE p \notin Chat
        <5>1. NoJob \in Job
          BY DEF NoJob
        <5>2. job' = [job EXCEPT ![p] = NoJob] /\ pc' = [pc EXCEPT ![p] = "idle"]
          BY <2>8, <4>2 DEF Flip, Drop, Goto
        <5> QED BY <5>1, <5>2 DEF TypeOK
      <4> QED BY <4>1, <4>2
    <3>4. Aimed'
      BY <3>3 DEF Aimed, Target
    <3> QED BY <2>8, <2>1, <3>2, <3>3, <3>4 DEF Flip, TypeOK
  <2>9. CASE LateSnapshot(p)
    BY <2>1, <2>9 DEF LateSnapshot, Drop, NoJob, TakeSnapshot, Goto, TypeOK,
         Aimed, Target
  <2> QED
    BY <1>4, <2>2, <2>3, <2>4, <2>5, <2>6, <2>7, <2>8, <2>9 DEF Continue
<1>5. CASE Sweep
  <2>1. CASE SweepPointer
    BY <2>1 DEF SweepPointer, NoPlan, Goto, TypeOK, Aimed, Target
  <2>2. CASE SweepPlan
    BY <2>2 DEF SweepPlan, Unprotected, Goto, TypeOK, Aimed, Target
  <2>3. CASE SweepEnd
    BY <2>3 DEF SweepEnd, NoPlan, Goto, TypeOK, Aimed, Target
  <2>4. ASSUME NEW w \in Workspace, DeleteTree(w) \/ DeleteRuns(w)
        PROVE  TypeOK' /\ Aimed'
    BY <2>4 DEF DeleteTree, DeleteRuns, TypeOK, Aimed, Target
  <2> QED BY <1>5, <2>1, <2>2, <2>3, <2>4 DEF Sweep
<1> QED BY <1>1, <1>2, <1>3, <1>4, <1>5 DEF Next

\* Every variable keeps its type: whatever the routes and the sweep interleave,
\* each audit row names a workspace and a source that PROMOTION_SOURCES lists.
THEOREM TypeCorrect == Spec => []TypeOK
<1>1. Init => TypeOK /\ Aimed
  BY TypeInit, AimedInit
<1>2. TypeOK /\ Aimed /\ [Next]_vars => (TypeOK /\ Aimed)'
  BY TypeStep
<1> QED BY <1>1, <1>2, PTL DEF Spec

LEMMA AuditStep == TypeOK /\ Aimed /\ PointerIsAudited /\ [Next]_vars
                     => PointerIsAudited'
<1> SUFFICES ASSUME TypeOK, Aimed, PointerIsAudited, [Next]_vars
             PROVE  PointerIsAudited'
  OBVIOUS
<1>1. CASE UNCHANGED <<pointer, history>>
  BY <1>1 DEF PointerIsAudited
<1>2. ASSUME NEW p \in Promoter, Flip(p) PROVE PointerIsAudited'
  <2>1. Target(p) \in Workspace
    BY <1>2 DEF Flip, Aimed
  <2>2. NewEntry(p) \in Entry
    BY <2>1, EntryTyped
  <2>3. history' # << >> /\ history'[Len(history')] = NewEntry(p)
    BY <1>2, <2>2 DEF Flip, TypeOK
  <2> QED BY <1>2, <2>3 DEF Flip, PointerIsAudited, NewEntry
<1>3. ASSUME NEW p \in Promoter, Start(p) \/ (Continue(p) /\ ~Flip(p))
      PROVE  UNCHANGED <<pointer, history>>
  BY <1>3 DEF Start, Continue, ReadIncumbent, StartChat, StartUndo, GatePass,
       GateFail, GateForced, Snapshot, SnapshotFails, SelectPrevious,
       LateSnapshot
<1>4. ASSUME Sweep \/ UNCHANGED vars \/ \E w \in Workspace : Fetch(w) \/ Age(w)
      PROVE  UNCHANGED <<pointer, history>>
  BY <1>4 DEF Sweep, SweepPointer, SweepPlan, SweepEnd, DeleteTree, DeleteRuns,
       Fetch, Age, vars
<1> QED BY <1>1, <1>2, <1>3, <1>4 DEF Next

\* The strategy that trades is the one the newest audit row names, however the
\* four promotion routes and the sweep interleave.
THEOREM PointerAudited == Spec => []PointerIsAudited
<1>1. Init => TypeOK /\ Aimed /\ PointerIsAudited
  BY TypeInit, AimedInit DEF Init, PointerIsAudited
<1>2. TypeOK /\ Aimed /\ PointerIsAudited /\ [Next]_vars
        => (TypeOK /\ Aimed /\ PointerIsAudited)'
  BY TypeStep, AuditStep
<1> QED BY <1>1, <1>2, PTL DEF Spec

-----------------------------------------------------------------------------
(* When only gate evaluations overlap other work *)

\* What a promoter past its gate has read is still so.
JobsFresh ==
  \A p \in Promoter :
    /\ pc[p] \notin {"protect", "delete"}
    /\ pc[p] \in {"select", "flip"} => Present(Target(p))
    /\ pc[p] = "flip" => job[p].replaced = pointer

\* The sweep has planned nothing that a rollback may need.
PlanSpares ==
  /\ pc[Sweeper] \in {"idle", "protect", "delete"}
  /\ pc[Sweeper] = "delete" => (plan.trees \cup plan.runs) \cap Recent = {}

ApartInv ==
  /\ TypeOK
  /\ Aimed
  /\ Apart
  /\ PointerIsAudited
  /\ JobsFresh
  /\ PlanSpares
  /\ RecentOnDisk

LEMMA ApartInit == Init => ApartInv
<1> SUFFICES ASSUME Init PROVE ApartInv
  OBVIOUS
<1>1. TypeOK /\ Aimed
  BY TypeInit, AimedInit
<1>2. Apart /\ JobsFresh /\ PlanSpares
  BY DEF Init, Apart, Busy, JobsFresh, PlanSpares
<1>3. PointerIsAudited /\ RecentOnDisk
  BY DEF Init, PointerIsAudited, RecentOnDisk
<1> QED BY <1>1, <1>2, <1>3 DEF ApartInv

\* Only one process is busy: the others are idle, or evaluate a gate.
LEMMA Alone ==
  ASSUME Apart, NEW p \in Proc, pc[p] \notin {"idle", "gate"}
  PROVE  \A q \in Proc : q # p => pc[q] \in {"idle", "gate"}
BY DEF Apart, Busy

LEMMA FlipRows ==
  ASSUME ApartInv, NEW p \in Promoter, Flip(p)
  PROVE  RecentOnDisk'
<1> DEFINE n == Len(history)
<1>1. NewEntry(p) \in Entry
  BY EntryTyped DEF ApartInv, Aimed, Flip
<1>2. /\ n \in Nat
      /\ DOMAIN history = 1 .. n
      /\ Len(history') = n + 1
      /\ DOMAIN history' = 1 .. n + 1
      /\ \A i \in 1 .. n : history'[i] = history[i]
      /\ history'[n + 1] = NewEntry(p)
  BY <1>1 DEF Flip, ApartInv, TypeOK
<1>3. Present(Target(p)) /\ tree' = tree
  BY DEF ApartInv, JobsFresh, Flip
<1>4. ASSUME NEW i \in 1 .. n + 1, i + Kept > n + 1
      PROVE  tree'[history'[i].workspace] \in {"full", "bare"}
  <2>1. CASE i = n + 1
    BY <2>1, <1>2, <1>3 DEF NewEntry, Present
  <2>2. CASE i \in 1 .. n
    <3>1. i + Kept > Len(history)
      BY <1>4, <1>2, BoundAssumption
    <3> QED BY <2>2, <3>1, <1>2, <1>3 DEF ApartInv, RecentOnDisk, Present
  <2> QED BY <2>1, <2>2, <1>2
<1> QED BY <1>4, <1>2 DEF RecentOnDisk, Present

LEMMA RowTyped ==
  ASSUME NEW S, NEW s \in Seq(S), NEW i \in DOMAIN s
  PROVE  s[i] \in S
OBVIOUS

LEMMA QuietDisk ==
  ASSUME ApartInv, history' = history,
         \A w \in Workspace : (Present(w) /\ w \in Recent) => Present(w)'
  PROVE  RecentOnDisk'
<1>1. ASSUME NEW i \in DOMAIN history PROVE history[i].workspace \in Workspace
  <2>1. history \in Seq(Entry)
    BY DEF ApartInv, TypeOK
  <2>2. history[i] \in Entry
    BY <2>1, RowTyped
  <2> QED BY <2>2
<1>2. \A i \in DOMAIN history : i + Kept > Len(history)
                                => history[i].workspace \in Recent
  BY DEF Recent
<1> QED BY <1>1, <1>2 DEF ApartInv, RecentOnDisk, Present

\* A promoter's own step keeps what the others have read: one that is busy before
\* or after it leaves them idle or evaluating, and one that is neither moves
\* nothing that they have read.
LEMMA OneJob ==
  ASSUME ApartInv, ApartNext, NEW p \in Promoter, NEW j \in Job,
         NEW l \in {"idle", "gate", "snapshot", "select", "flip", "late"},
         pc' = [pc EXCEPT ![p] = l], job' = [job EXCEPT ![p] = j],
         l \in {"select", "flip"} => tree'[j.target] \in {"full", "bare"},
         l = "flip" => j.replaced = pointer',
         UNCHANGED <<plan, tree>>,
         UNCHANGED <<pointer, history>> \/ pc[p] \notin {"idle", "gate"}
  PROVE  JobsFresh' /\ PlanSpares'
<1>1. /\ pc'[p] = l /\ job'[p] = j
      /\ \A q \in Proc : q # p => pc'[q] = pc[q]
      /\ \A q \in Promoter : q # p => job'[q] = job[q]
      /\ Sweeper \in Proc /\ Sweeper # p /\ Promoter \subseteq Proc
  BY PromoterAssumption DEF ApartInv, TypeOK
<1>2. CASE pc[p] \in {"idle", "gate"} /\ l \in {"idle", "gate"}
  <2>1. UNCHANGED <<pointer, history, tree, plan>>
    BY <1>2
  <2>2. PlanSpares'
    BY <1>1, <2>1 DEF ApartInv, PlanSpares, Recent
  <2>3. ASSUME NEW q \in Promoter, q # p
        PROVE  /\ pc'[q] \notin {"protect", "delete"}
               /\ pc'[q] \in {"select", "flip"} => tree'[job'[q].target] \in {"full", "bare"}
               /\ pc'[q] = "flip" => job'[q].replaced = pointer'
    BY <1>1, <2>1, <2>3 DEF ApartInv, JobsFresh, Present, Target
  <2>4. JobsFresh'
    BY <1>1, <1>2, <2>3 DEF JobsFresh, Present, Target
  <2> QED BY <2>2, <2>4
<1>3. CASE pc[p] \notin {"idle", "gate"} \/ l \notin {"idle", "gate"}
  <2>1. \A q \in Proc : q # p => pc'[q] \in {"idle", "gate"}
    <3>1. CASE pc[p] \notin {"idle", "gate"}
      BY <1>1, <3>1, Alone DEF ApartInv
    <3>2. CASE l \notin {"idle", "gate"}
      BY <1>1, <3>2 DEF ApartNext, Apart, Busy
    <3> QED BY <1>3, <3>1, <3>2
  <2>2. pc'[Sweeper] = "idle"
    <3>1. pc'[Sweeper] = pc[Sweeper] /\ pc'[Sweeper] # "delete" /\ pc'[Sweeper] # "protect"
      BY <1>1, <2>1
    <3> QED BY <3>1 DEF ApartInv, PlanSpares
  <2>3. PlanSpares'
    BY <2>2 DEF PlanSpares
  <2>4. JobsFresh'
    BY <1>1, <2>1 DEF JobsFresh, Present, Target
  <2> QED BY <2>3, <2>4
<1> QED BY <1>2, <1>3

\* What a step has to be shown to keep, besides the types.
Keeps == JobsFresh' /\ PlanSpares' /\ UNCHANGED <<pointer, history>>
         /\ \A w \in Workspace : (Present(w) /\ w \in Recent) => Present(w)'

LEMMA StartKeeps ==
  ASSUME ApartInv, ApartNext, NEW p \in Promoter, Start(p)
  PROVE  Keeps
<1>1. PICK w \in Workspace :
        ReadIncumbent(p, w) \/ StartChat(p, w) \/ StartUndo(p, w)
  BY DEF Start
<1> DEFINE j == [NoJob EXCEPT !.target = w]
<1>2. j \in Job /\ j.target = w
  BY JobTyped DEF NoJob
<1>3. CASE ReadIncumbent(p, w)
  <2> DEFINE k == [NoJob EXCEPT !.target = w, !.against = pointer]
  <2>1. k \in Job
    BY DEF NoJob, ApartInv, TypeOK
  <2>2. /\ pc' = [pc EXCEPT ![p] = "gate"] /\ job' = [job EXCEPT ![p] = k]
        /\ UNCHANGED <<pointer, history, tree, plan>>
    BY <1>3 DEF ReadIncumbent, Goto, Incumbent
  <2>3. JobsFresh' /\ PlanSpares'
    BY <2>1, <2>2, OneJob
  <2> QED BY <2>2, <2>3 DEF Keeps, Present
<1>4. CASE StartChat(p, w)
  <2>1. /\ pc' = [pc EXCEPT ![p] = "select"] /\ job' = [job EXCEPT ![p] = j]
        /\ UNCHANGED <<pointer, history, tree, plan>>
        /\ tree[w] \in {"full", "bare"}
    BY <1>4 DEF StartChat, Goto, Present
  <2>2. JobsFresh' /\ PlanSpares'
    BY <1>2, <2>1, OneJob
  <2> QED BY <2>1, <2>2 DEF Keeps, Present
<1>5. CASE StartUndo(p, w)
  <2>1. PICK l \in {"snapshot", "select"} : pc' = [pc EXCEPT ![p] = l]
    BY <1>5 DEF StartUndo, Goto
  <2>2. /\ job' = [job EXCEPT ![p] = j]
        /\ UNCHANGED <<pointer, history, tree, plan>>
        /\ tree[w] \in {"full", "bare"}
    BY <1>5 DEF StartUndo, Restorable, Present
  <2>3. JobsFresh' /\ PlanSpares'
    BY <1>2, <2>1, <2>2, OneJob
  <2> QED BY <2>2, <2>3 DEF Keeps, Present
<1> QED BY <1>1, <1>3, <1>4, <1>5

LEMMA ContinueKeeps ==
  ASSUME ApartInv, ApartNext, NEW p \in Promoter, Continue(p)
  PROVE  JobsFresh' /\ PlanSpares' /\ tree' = tree
         /\ (Flip(p) \/ UNCHANGED <<pointer, history>>)
<1>1. job[p] \in Job /\ Target(p) = job[p].target /\ NoJob \in Job
  BY DEF NoJob, ApartInv, TypeOK, Target
<1>3. CASE GatePass(p)
  <2> DEFINE j == [job[p] EXCEPT !.verdict = "passed"]
  <2>1. j \in Job
    BY <1>1
  <2>2. /\ pc' = [pc EXCEPT ![p] = "snapshot"] /\ job' = [job EXCEPT ![p] = j]
        /\ UNCHANGED <<pointer, history, tree, plan>>
    BY <1>3 DEF GatePass, Goto
  <2>3. JobsFresh' /\ PlanSpares'
    BY <2>1, <2>2, OneJob
  <2> QED BY <2>2, <2>3
<1>4. CASE GateForced(p)
  <2> DEFINE j == [job[p] EXCEPT !.verdict = "forced"]
  <2>1. j \in Job
    BY <1>1
  <2>2. /\ pc' = [pc EXCEPT ![p] = "snapshot"] /\ job' = [job EXCEPT ![p] = j]
        /\ UNCHANGED <<pointer, history, tree, plan>>
    BY <1>4 DEF GateForced, Goto
  <2>3. JobsFresh' /\ PlanSpares'
    BY <2>1, <2>2, OneJob
  <2> QED BY <2>2, <2>3
<1>5. CASE Snapshot(p)
  <2> DEFINE j == [job[p] EXCEPT !.snapshot = "taken"]
  <2>1. j \in Job /\ j.target = job[p].target
    BY <1>1
  <2>2. /\ pc' = [pc EXCEPT ![p] = "select"] /\ job' = [job EXCEPT ![p] = j]
        /\ UNCHANGED <<pointer, history, tree, plan>>
        /\ tree[job[p].target] = "full"
    BY <1>1, <1>5 DEF Snapshot, Goto
  <2>3. JobsFresh' /\ PlanSpares'
    BY <2>1, <2>2, OneJob
  <2> QED BY <2>2, <2>3
<1>6. CASE SelectPrevious(p)
  <2> DEFINE j == [job[p] EXCEPT !.replaced = pointer]
  <2>1. j \in Job /\ j.target = job[p].target /\ j.replaced = pointer
    BY <1>1 DEF ApartInv, TypeOK
  <2>2. /\ pc' = [pc EXCEPT ![p] = "flip"] /\ job' = [job EXCEPT ![p] = j]
        /\ UNCHANGED <<pointer, history, tree, plan>>
    BY <1>6 DEF SelectPrevious, Goto
  <2>3. tree[job[p].target] \in {"full", "bare"}
    BY <1>1, <1>6 DEF SelectPrevious, ApartInv, JobsFresh, Present
  <2>4. JobsFresh' /\ PlanSpares'
    BY <2>1, <2>2, <2>3, OneJob
  <2> QED BY <2>2, <2>4
<1>7. CASE Flip(p)
  <2>1. plan' = plan /\ tree' = tree /\ pc[p] = "flip"
    BY <1>7 DEF Flip
  <2>2. CASE p \in Chat
    <3>1. pc' = [pc EXCEPT ![p] = "late"] /\ job' = [job EXCEPT ![p] = job[p]]
      BY <1>7, <2>2 DEF Flip, Goto, ApartInv, TypeOK
    <3> QED BY <1>1, <2>1, <3>1, OneJob, <1>7
  <2>3. CASE p \notin Chat
    <3>1. pc' = [pc EXCEPT ![p] = "idle"] /\ job' = [job EXCEPT ![p] = NoJob]
      BY <1>7, <2>3 DEF Flip, Drop, Goto
    <3> QED BY <1>1, <2>1, <3>1, OneJob, <1>7
  <2> QED BY <2>2, <2>3
<1>8. CASE GateFail(p) \/ SnapshotFails(p) \/ LateSnapshot(p)
  <2>1. /\ pc' = [pc EXCEPT ![p] = "idle"] /\ job' = [job EXCEPT ![p] = NoJob]
        /\ UNCHANGED <<pointer, history, tree, plan>>
    BY <1>8 DEF GateFail, SnapshotFails, LateSnapshot, Drop, Goto
  <2>2. JobsFresh' /\ PlanSpares'
    BY <1>1, <2>1, OneJob
  <2> QED BY <2>1, <2>2
<1> QED BY <1>3, <1>4, <1>5, <1>6, <1>7, <1>8 DEF Continue

LEMMA OtherKeeps ==
  ASSUME ApartInv, ApartNext,
         Sweep \/ \E w \in Workspace : Fetch(w) \/ Age(w)
  PROVE  Keeps
<1>1. ASSUME NEW w \in Workspace, Fetch(w) \/ Age(w) PROVE Keeps
  <2>1. UNCHANGED <<pointer, history, pc, job, plan>>
    BY <1>1 DEF Fetch, Age
  <2>2. \A u \in Workspace : tree'[u] = tree[u] \/ (u = w /\ tree[u] = "unborn")
    BY <1>1 DEF Fetch, Age, ApartInv, TypeOK
  <2>3. \A u \in Workspace : Present(u) => tree'[u] \in {"full", "bare"}
    BY <2>2 DEF Present
  <2>4. JobsFresh'
    <3>1. \A p \in Promoter : pc[p] \in {"select", "flip"} =>
            Target(p) \in Workspace /\ Present(Target(p))
      BY DEF ApartInv, Aimed, JobsFresh
    <3> QED BY <2>1, <2>3, <3>1 DEF ApartInv, JobsFresh, Target, Present
  <2>5. PlanSpares'
    BY <2>1 DEF ApartInv, PlanSpares, Recent
  <2> QED BY <2>1, <2>3, <2>4, <2>5 DEF Keeps, Present
<1>2. ASSUME Sweep
      PROVE  \A q \in Promoter : pc'[q] = pc[q] /\ pc[q] \in {"idle", "gate"}
  <2>1. \A q \in Promoter : pc'[q] = pc[q]
    BY <1>2, PromoterAssumption DEF Sweep, SweepPointer, SweepPlan, SweepEnd,
         DeleteTree, DeleteRuns, Goto, ApartInv, TypeOK
  <2>2. CASE pc[Sweeper] # "idle"
    BY <2>1, <2>2, Alone, PromoterAssumption DEF ApartInv, PlanSpares
  <2>3. CASE pc[Sweeper] = "idle"
    <3>1. SweepPointer
      BY <1>2, <2>3 DEF Sweep, SweepPlan, SweepEnd, DeleteTree, DeleteRuns
    <3>2. pc'[Sweeper] = "protect"
      BY <3>1 DEF SweepPointer, Goto, ApartInv, TypeOK
    <3> QED BY <3>2, <2>1, PromoterAssumption DEF ApartNext, Apart, Busy
  <2> QED BY <2>2, <2>3
<1>3. ASSUME Sweep PROVE Keeps
  <2>1. \A q \in Promoter : pc'[q] \in {"idle", "gate"}
    BY <1>2, <1>3
  <2>2. JobsFresh'
    BY <2>1 DEF JobsFresh
  <2>3. UNCHANGED <<pointer, history>>
    BY <1>3 DEF Sweep, SweepPointer, SweepPlan, SweepEnd, DeleteTree, DeleteRuns
  <2>4. CASE SweepPointer \/ SweepEnd
    <3>1. pc'[Sweeper] \in {"protect", "idle"} /\ tree' = tree
      BY <2>4 DEF SweepPointer, SweepEnd, Goto, ApartInv, TypeOK
    <3> QED BY <2>2, <2>3, <3>1 DEF Keeps, PlanSpares, Present
  <2>5. CASE SweepPlan
    <3>1. pc'[Sweeper] = "delete" /\ tree' = tree /\ Recent' = Recent
      BY <2>5 DEF SweepPlan, Goto, ApartInv, TypeOK, Recent
    <3>2. (plan'.trees \cup plan'.runs) \cap Recent = {}
      BY <2>5 DEF SweepPlan, Unprotected, ApartInv, TypeOK
    <3> QED BY <2>2, <2>3, <3>1, <3>2 DEF Keeps, PlanSpares, Present
  <2>6. ASSUME NEW w \in Workspace, DeleteTree(w) \/ DeleteRuns(w) PROVE Keeps
    <3>1. /\ pc' = pc /\ Recent' = Recent
          /\ plan'.trees \subseteq plan.trees /\ plan'.runs \subseteq plan.runs
      BY <2>6 DEF DeleteTree, DeleteRuns, ApartInv, TypeOK, Recent
    <3>2. w \notin Recent
      BY <2>6 DEF DeleteTree, DeleteRuns, ApartInv, PlanSpares
    <3>3. \A u \in Workspace : u # w => tree'[u] = tree[u]
      BY <2>6 DEF DeleteTree, DeleteRuns, ApartInv, TypeOK
    <3>4. PlanSpares'
      BY <3>1 DEF ApartInv, PlanSpares
    <3>5. \A u \in Workspace : (Present(u) /\ u \in Recent) => Present(u)'
      BY <3>2, <3>3 DEF Present
    <3> QED BY <2>2, <2>3, <3>4, <3>5 DEF Keeps
  <2> QED BY <1>3, <2>4, <2>5, <2>6 DEF Sweep
<1> QED BY <1>1, <1>3

LEMMA ApartStep == ApartInv /\ [ApartNext]_vars => ApartInv'
<1> SUFFICES ASSUME ApartInv, [ApartNext]_vars PROVE ApartInv'
  OBVIOUS
<1>1. [Next]_vars
  BY DEF ApartNext
<1>2. TypeOK' /\ Aimed' /\ PointerIsAudited'
  BY <1>1, TypeStep, AuditStep DEF ApartInv
<1>3. CASE UNCHANGED vars
  <2>1. /\ Apart' /\ JobsFresh' /\ PlanSpares'
        /\ RecentOnDisk'
    BY <1>3 DEF vars, ApartInv, Apart, Busy, JobsFresh, PlanSpares, Recent,
         RecentOnDisk, Present, Target
  <2> QED BY <1>2, <2>1 DEF ApartInv
<1>4. CASE ApartNext
  <2>1. Apart'
    BY <1>4 DEF ApartNext
  <2>2. ASSUME Keeps PROVE ApartInv'
    <3>1. RecentOnDisk'
      BY <2>2, QuietDisk DEF Keeps
    <3> QED BY <1>2, <2>1, <2>2, <3>1 DEF ApartInv, Keeps
  <2>3. ASSUME NEW p \in Promoter, Start(p) PROVE ApartInv'
    BY <1>4, <2>2, <2>3, StartKeeps
  <2>4. ASSUME NEW p \in Promoter, Continue(p) PROVE ApartInv'
    <3>1. JobsFresh' /\ PlanSpares' /\ tree' = tree
          /\ (Flip(p) \/ UNCHANGED <<pointer, history>>)
      BY <1>4, <2>4, ContinueKeeps
    <3>2. CASE Flip(p)
      BY <1>2, <2>1, <3>1, <3>2, FlipRows DEF ApartInv
    <3>3. CASE UNCHANGED <<pointer, history>>
      BY <2>2, <3>1, <3>3 DEF Keeps, Present
    <3> QED BY <3>1, <3>2, <3>3
  <2>5. CASE Sweep \/ \E w \in Workspace : Fetch(w) \/ Age(w)
    BY <1>4, <2>2, <2>5, OtherKeeps
  <2> QED BY <1>4, <2>3, <2>4, <2>5 DEF ApartNext, Next
<1> QED BY <1>3, <1>4

LEMMA ApartInvariant == ApartSpec => []ApartInv
BY ApartInit, ApartStep, PTL DEF ApartSpec

\* The sweep spares every workspace of the last Kept rows, whatever gates are
\* evaluated meanwhile.
THEOREM ApartRecent == ApartSpec => []RecentOnDisk
<1>1. ApartInv => RecentOnDisk
  BY DEF ApartInv
<1> QED BY <1>1, ApartInvariant, PTL

\* The workspace that trades is on disk, although its gate may have begun before
\* a sweep and ended after it.
THEOREM ApartPromoted == ApartSpec => []PromotedOnDisk
<1>1. ASSUME ApartInv, pointer # None PROVE Present(pointer)
  <2>1. history # << >> /\ pointer = history[Len(history)].workspace
    BY <1>1 DEF ApartInv, PointerIsAudited
  <2>2. Len(history) \in DOMAIN history /\ Len(history) + Kept > Len(history)
    BY <1>1, <2>1, BoundAssumption DEF ApartInv, TypeOK
  <2> QED BY <1>1, <2>1, <2>2 DEF ApartInv, RecentOnDisk
<1>2. ApartInv => PromotedOnDisk
  BY <1>1 DEF PromotedOnDisk
<1> QED BY <1>2, ApartInvariant, PTL

-----------------------------------------------------------------------------
(* The snapshot the morning refresh needs *)

\* A promoter that says it took the snapshot still finds it.
SnapsHeld ==
  \A p \in Promoter :
    /\ pc[p] \in {"gate", "snapshot"} => job[p].snapshot = "none"
    /\ (pc[p] \in {"select", "flip"} /\ job[p].snapshot = "taken") => Target(p) \in snap

Refreshable == PromotedCanRefresh /\ SnapsHeld

\* What is promoted is one of the newest rows, which the sweep spares.
LEMMA PointerRecent ==
  ASSUME ApartInv, history # << >>
  PROVE  pointer \in Recent
<1>1. pointer = history[Len(history)].workspace
  BY DEF ApartInv, PointerIsAudited
<1>2. Len(history) \in DOMAIN history /\ Len(history) + Kept > Len(history)
  BY BoundAssumption DEF ApartInv, TypeOK
<1> QED
  BY <1>1, <1>2 DEF Recent

\* A step that flips nothing, by a promoter or by nobody, and deletes no snapshot.
LEMMA SnapsGrow ==
  ASSUME ApartInv, Refreshable, UNCHANGED <<pointer, history>>, snap \subseteq snap',
         \A p \in Promoter :
           \/ pc'[p] = pc[p] /\ job'[p] = job[p]
           \/ pc'[p] \in {"idle", "late"}
           \/ pc'[p] \in {"gate", "snapshot"} /\ job'[p].snapshot = "none"
           \/ pc'[p] \in {"select", "flip"} /\ job'[p].snapshot = "none"
           \/ /\ pc'[p] \in {"select", "flip"}
              /\ job'[p].target \in snap'
  PROVE  Refreshable'
<1>1. PromotedCanRefresh'
  BY DEF Refreshable, PromotedCanRefresh
<1>2. SnapsHeld'
  BY DEF Refreshable, SnapsHeld, Target
<1> QED
  BY <1>1, <1>2 DEF Refreshable

LEMMA StartRefresh ==
  ASSUME ApartInv, Refreshable, NEW p \in Promoter, Start(p)
  PROVE  Refreshable'
<1>1. PICK w \in Workspace :
        ReadIncumbent(p, w) \/ StartChat(p, w) \/ StartUndo(p, w)
  BY DEF Start
<1>2. /\ pc'[p] \in {"gate", "snapshot", "select"} /\ job'[p].snapshot = "none"
      /\ \A q \in Promoter : q # p => pc'[q] = pc[q] /\ job'[q] = job[q]
      /\ UNCHANGED <<pointer, history, snap>>
  <2>0. /\ pc \in [Proc -> {"idle", "gate", "snapshot", "select", "flip", "late",
                             "protect", "delete"}]
        /\ job \in [Promoter -> Job] /\ p \in Proc /\ Promoter \subseteq Proc
    BY DEF ApartInv, TypeOK, Proc
  <2>1. PICK label \in {"gate", "snapshot", "select"} : pc' = [pc EXCEPT ![p] = label]
    BY <1>1 DEF ReadIncumbent, StartChat, StartUndo, Goto
  <2>2. PICK j : job' = [job EXCEPT ![p] = j] /\ j.snapshot = "none"
    <3>1. [NoJob EXCEPT !.target = w].snapshot = "none"
      BY DEF NoJob
    <3>2. [NoJob EXCEPT !.target = w, !.against = Incumbent].snapshot = "none"
      BY DEF NoJob
    <3> QED
      BY <1>1, <3>1, <3>2 DEF ReadIncumbent, StartChat, StartUndo
  <2>3. UNCHANGED <<pointer, history, snap>>
    BY <1>1 DEF ReadIncumbent, StartChat, StartUndo
  <2> QED
    BY <2>0, <2>1, <2>2, <2>3
<1> QED
  BY <1>2, SnapsGrow

LEMMA ContinueRefresh ==
  ASSUME ApartInv, Refreshable, NEW p \in Promoter, Continue(p), ~Flip(p)
  PROVE  Refreshable'
<1>0. /\ pc \in [Proc -> {"idle", "gate", "snapshot", "select", "flip", "late",
                          "protect", "delete"}]
      /\ job \in [Promoter -> Job] /\ job[p] \in Job /\ p \in Proc
      /\ Promoter \subseteq Proc
  BY DEF ApartInv, TypeOK, Proc
<1>1. /\ UNCHANGED <<pointer, history>> /\ snap \subseteq snap'
      /\ \A q \in Promoter : q # p => pc'[q] = pc[q] /\ job'[q] = job[q]
  <2>1. snap \subseteq snap' /\ UNCHANGED <<pointer, history>>
    BY DEF Continue, GatePass, GateFail, GateForced, Snapshot, SnapshotFails,
         SelectPrevious, LateSnapshot, GateSnapshot, TakeSnapshot
  <2>2. \A q \in Promoter : q # p => pc'[q] = pc[q] /\ job'[q] = job[q]
    BY <1>0 DEF Continue, GatePass, GateFail, GateForced, Snapshot, SnapshotFails,
         SelectPrevious, LateSnapshot, Drop, Goto
  <2> QED
    BY <2>1, <2>2
<1>2. CASE GatePass(p) \/ GateForced(p)
  <2>1. pc[p] = "gate" /\ pc'[p] = "snapshot" /\ job'[p].snapshot = job[p].snapshot
    BY <1>0, <1>2 DEF GatePass, GateForced, Goto
  <2>2. job[p].snapshot = "none"
    BY <2>1 DEF Refreshable, SnapsHeld
  <2> QED
    BY <1>1, <2>1, <2>2, SnapsGrow
<1>3. CASE GateFail(p) \/ SnapshotFails(p) \/ LateSnapshot(p)
  <2>1. pc'[p] = "idle"
    BY <1>0, <1>3 DEF GateFail, SnapshotFails, LateSnapshot, Drop, Goto
  <2> QED
    BY <1>1, <2>1, SnapsGrow
<1>4. CASE Snapshot(p)
  <2>1. /\ pc'[p] = "select" /\ job'[p].target = job[p].target
        /\ job[p].target \in snap'
    BY <1>0, <1>4 DEF Snapshot, Goto, TakeSnapshot, Target
  <2> QED
    BY <1>1, <2>1, SnapsGrow
<1>5. CASE SelectPrevious(p)
  <2>1. /\ pc[p] = "select" /\ pc'[p] = "flip" /\ job'[p].target = job[p].target
        /\ job'[p].snapshot = job[p].snapshot
    BY <1>0, <1>5 DEF SelectPrevious, Goto
  <2>2. job[p].snapshot = "taken" => job[p].target \in snap
    BY <2>1 DEF Refreshable, SnapsHeld, Target
  <2>3. job[p].snapshot \in {"taken", "none"}
    BY <1>0 DEF Job, Snapped
  <2>4. job'[p].snapshot = "none" \/ job'[p].target \in snap'
    BY <1>1, <2>1, <2>2, <2>3
  <2> QED
    BY <1>1, <2>1, <2>4, SnapsGrow
<1> QED
  BY <1>2, <1>3, <1>4, <1>5 DEF Continue

LEMMA FlipRefresh ==
  ASSUME ApartInv, Refreshable, NEW p \in Promoter, Flip(p)
  PROVE  Refreshable'
<1>1. NewEntry(p) \in Entry
  BY EntryTyped DEF ApartInv, Aimed, Flip
<1>2. /\ history' # << >> /\ history'[Len(history')] = NewEntry(p)
      /\ pointer' = Target(p) /\ snap' = snap
  <2> DEFINE n == Len(history)
  <2>1. n \in Nat /\ Len(history') = n + 1 /\ history'[n + 1] = NewEntry(p)
    BY <1>1 DEF Flip, ApartInv, TypeOK
  <2>2. history' # << >>
    BY <2>1
  <2> QED
    BY <2>1, <2>2 DEF Flip
<1>3. job[p].snapshot = "taken" => Target(p) \in snap
  BY DEF Flip, Refreshable, SnapsHeld
<1>4. PromotedCanRefresh'
  BY <1>2, <1>3 DEF PromotedCanRefresh, NewEntry
<1>5. pc'[p] \in {"idle", "late"} /\ \A q \in Promoter : q # p => pc'[q] = pc[q] /\ job'[q] = job[q]
  BY DEF Flip, Drop, Goto, ApartInv, TypeOK, Proc
<1>6. SnapsHeld'
  BY <1>2, <1>5 DEF Refreshable, SnapsHeld, Target
<1> QED
  BY <1>4, <1>6 DEF Refreshable

\* The sweep deletes a snapshot only with a workspace that is not promoted, and
\* when no promotion has come further than its gate.
LEMMA SweepRefresh ==
  ASSUME ApartInv, Refreshable, NEW w \in Workspace, DeleteTree(w)
  PROVE  Refreshable'
<1>1. /\ UNCHANGED <<pointer, history, pc, job>> /\ snap' = snap \ {w}
      /\ w \in plan.trees /\ pc[Sweeper] = "delete"
  BY DEF DeleteTree
<1>2. w \notin Recent
  BY <1>1 DEF ApartInv, PlanSpares
<1>3. PromotedCanRefresh'
  BY <1>1, <1>2, PointerRecent DEF Refreshable, PromotedCanRefresh
<1>4. \A p \in Promoter : pc[p] \in {"idle", "gate"}
  <2>1. Sweeper \in Proc /\ \A p \in Promoter : p \in Proc /\ p # Sweeper
    BY PromoterAssumption DEF Proc
  <2> QED
    BY <1>1, <2>1, Alone DEF ApartInv
<1>5. SnapsHeld'
  BY <1>1, <1>4 DEF Refreshable, SnapsHeld
<1> QED
  BY <1>3, <1>5 DEF Refreshable

LEMMA RefreshStep ==
  ASSUME ApartInv, Refreshable, [ApartNext]_vars
  PROVE  Refreshable'
<1>1. ASSUME UNCHANGED <<pointer, history, snap, job>>,
             \A p \in Promoter : pc'[p] = pc[p]
      PROVE  Refreshable'
  BY <1>1, SnapsGrow
<1>2. CASE UNCHANGED vars
  BY <1>1, <1>2 DEF vars
<1>3. CASE \E p \in Promoter : Start(p) \/ Continue(p)
  BY <1>3, StartRefresh, ContinueRefresh, FlipRefresh
<1>4. CASE \E w \in Workspace : Fetch(w) \/ Age(w) \/ DeleteRuns(w)
  BY <1>1, <1>4 DEF Fetch, Age, DeleteRuns
<1>5. CASE SweepPointer \/ SweepPlan \/ SweepEnd
  BY <1>1, <1>5, PromoterAssumption DEF SweepPointer, SweepPlan, SweepEnd, Goto, ApartInv,
     TypeOK, Proc
<1>6. CASE \E w \in Workspace : DeleteTree(w)
  BY <1>6, SweepRefresh
<1> QED
  BY <1>2, <1>3, <1>4, <1>5, <1>6 DEF ApartNext, Next, Sweep

\* A strategy promoted after its snapshot keeps it while it is the one that
\* trades: what a gate under way may still find is not what its row will say.
THEOREM ApartRefresh == ApartSpec => []PromotedCanRefresh
<1>1. Init => Refreshable
  BY DEF Init, Refreshable, PromotedCanRefresh, SnapsHeld
<1>2. ApartInv /\ Refreshable /\ [ApartNext]_vars => Refreshable'
  BY RefreshStep
<1>3. Refreshable => PromotedCanRefresh
  BY DEF Refreshable
<1> QED
  BY ApartInvariant, <1>1, <1>2, <1>3, PTL DEF ApartSpec

(***************************************************************************)
(* The abstract register                                                   *)
(***************************************************************************)
\* What the register is made of, when it does not change.
RegisterVars == <<pointer, Trail, {w \in Workspace : Present(w)}>>

LEMMA TrailEntries ==
  ASSUME history \in Seq(Entry)
  PROVE  /\ DOMAIN Trail = 1 .. Len(history)
         /\ Len(Trail) = Len(history)
         /\ Trail \in Seq([strategy : Workspace, replaced : WorkspaceOrNone])
         /\ PromotionRegister!Newest = Recent
<1> DEFINE n == Len(history)
           row == [strategy : Workspace, replaced : WorkspaceOrNone]
<1>0. n \in Nat /\ DOMAIN history = 1 .. n
  BY DEF Trail
<1>1. Trail \in Seq(row)
  <2>1. \A i \in 1 .. n : history[i] \in Entry
    <3> HIDE DEF Entry
    <3> QED
      BY <1>0
  <2>2. \A i \in 1 .. n :
          [strategy |-> history[i].workspace, replaced |-> history[i].replaced] \in row
    BY <2>1
  <2> HIDE DEF row
  <2>3. Trail \in [1 .. n -> row]
    BY <1>0, <2>2 DEF Trail
  <2> QED
    BY <1>0, <2>3
<1>2. DOMAIN Trail = 1 .. Len(history) /\ Len(Trail) = Len(history)
  BY <1>0 DEF Trail
<1>3. \A i \in 1 .. Len(history) : Trail[i].strategy = history[i].workspace
  BY DEF Trail
<1>4. PromotionRegister!Newest = Recent
  BY <1>2, <1>3 DEF PromotionRegister!Newest, Recent
<1> QED
  BY <1>1, <1>2, <1>4

LEMMA FlipPromotes ==
  ASSUME ApartInv, NEW p \in Promoter, Flip(p)
  PROVE  PromotionRegister!Promote(Target(p))
<1> DEFINE n == Len(history)
           new == [strategy |-> Target(p), replaced |-> pointer]
<1>1. history \in Seq(Entry) /\ n \in Nat
  BY DEF ApartInv, TypeOK
<1>2. Target(p) \in {w \in Workspace : Present(w)} /\ job[p].replaced = pointer
  BY DEF Flip, ApartInv, JobsFresh, Aimed, Present
<1>3. /\ pointer' = Target(p) /\ tree' = tree
      /\ history' = Append(history, NewEntry(p))
  BY DEF Flip
<1>4. Trail' = Append(Trail, new)
  <2>1. DOMAIN history' = 1 .. n + 1
    BY <1>1, <1>3
  <2>2. \A i \in 1 .. n + 1 :
          history'[i] = IF i = n + 1 THEN NewEntry(p) ELSE history[i]
    BY <1>1, <1>3
  <2>3. /\ NewEntry(p).workspace = Target(p)
        /\ NewEntry(p).replaced = pointer
    BY <1>2 DEF NewEntry
  <2>4. Trail' = [i \in 1 .. n + 1 |-> IF i = n + 1 THEN new ELSE Trail[i]]
    BY <1>1, <2>1, <2>2, <2>3 DEF Trail
  <2>5. Append(Trail, new) = [i \in 1 .. n + 1 |-> IF i = n + 1 THEN new ELSE Trail[i]]
    BY <1>1, TrailEntries
  <2> QED
    BY <2>4, <2>5
<1>5. {w \in Workspace : Present(w)}' = {w \in Workspace : Present(w)}
  BY <1>3 DEF Present
<1> QED
  BY <1>2, <1>3, <1>4, <1>5 DEF PromotionRegister!Promote

\* A change of the disk alone.
LEMMA DiskChanges ==
  ASSUME ApartInv, NEW w \in Workspace, NEW kind \in {"full", "bare", "swept"},
         tree' = [tree EXCEPT ![w] = kind], UNCHANGED <<pointer, history>>,
         kind = "swept" => w \notin Recent
  PROVE  \/ PromotionRegister!Arrive(w)
         \/ PromotionRegister!Discard(w)
<1>1. \A x \in Workspace : tree'[x] = IF x = w THEN kind ELSE tree[x]
  BY DEF ApartInv, TypeOK
<1>2. Trail' = Trail
  BY DEF Trail
<1>3. CASE kind = "swept"
  <2>1. {x \in Workspace : Present(x)}' = {x \in Workspace : Present(x)} \ {w}
    BY <1>1, <1>3 DEF Present
  <2>2. w \notin PromotionRegister!Newest
    BY <1>3, TrailEntries DEF ApartInv, TypeOK
  <2> QED
    BY <1>2, <2>1, <2>2 DEF PromotionRegister!Discard
<1>4. CASE kind # "swept"
  <2>1. {x \in Workspace : Present(x)}' = {x \in Workspace : Present(x)} \cup {w}
    BY <1>1, <1>4 DEF Present
  <2> QED
    BY <1>2, <2>1 DEF PromotionRegister!Arrive
<1> QED
  BY <1>3, <1>4

LEMMA RegisterStep ==
  ASSUME ApartInv, [ApartNext]_vars
  PROVE  [PromotionRegister!Next]_RegisterVars
<1> USE DEF RegisterVars
<1>1. ASSUME UNCHANGED <<pointer, history, tree>>
      PROVE  UNCHANGED RegisterVars
  BY <1>1 DEF Trail, Present
<1>2. CASE UNCHANGED vars
  BY <1>1, <1>2 DEF vars
<1>3. CASE \E w \in Workspace : Fetch(w)
  <2>1. PICK w \in Workspace : Fetch(w)
    BY <1>3
  <2>2. PromotionRegister!Arrive(w) \/ PromotionRegister!Discard(w)
    BY <2>1, DiskChanges DEF Fetch
  <2> QED
    BY <2>2 DEF PromotionRegister!Next
<1>4. CASE \E w \in Workspace : Age(w)
  BY <1>1, <1>4 DEF Age
<1>5. CASE \E p \in Promoter : Start(p)
  BY <1>1, <1>5 DEF Start, ReadIncumbent, StartChat, StartUndo
<1>6. CASE \E p \in Promoter : Continue(p)
  <2>1. PICK p \in Promoter : Continue(p)
    BY <1>6
  <2>2. CASE Flip(p)
    <3>1. Target(p) \in Workspace
      BY <2>2 DEF Flip, ApartInv, Aimed
    <3> QED
      BY <2>2, <3>1, FlipPromotes DEF PromotionRegister!Next
  <2>3. CASE ~Flip(p)
    <3>1. UNCHANGED <<pointer, history, tree>>
      BY <2>1, <2>3 DEF Continue, GatePass, GateFail, GateForced, Snapshot,
         SnapshotFails, SelectPrevious, LateSnapshot
    <3> QED
      BY <1>1, <3>1
  <2> QED
    BY <2>2, <2>3
<1>7. CASE Sweep
  <2>1. CASE SweepPointer \/ SweepPlan \/ SweepEnd
    BY <1>1, <2>1 DEF SweepPointer, SweepPlan, SweepEnd
  <2>2. CASE \E w \in Workspace : DeleteTree(w)
    <3>1. PICK w \in Workspace : DeleteTree(w)
      BY <2>2
    <3>2. w \notin Recent
      BY <3>1 DEF DeleteTree, ApartInv, PlanSpares
    <3>3. PromotionRegister!Arrive(w) \/ PromotionRegister!Discard(w)
      BY <3>1, <3>2, DiskChanges DEF DeleteTree
    <3> QED
      BY <3>3 DEF PromotionRegister!Next
  <2>3. CASE \E w \in Workspace : DeleteRuns(w)
    <3>1. PICK w \in Workspace : DeleteRuns(w)
      BY <2>3
    <3>2. PromotionRegister!Arrive(w) \/ PromotionRegister!Discard(w)
      BY <3>1, DiskChanges DEF DeleteRuns
    <3> QED
      BY <3>2 DEF PromotionRegister!Next
  <2> QED
    BY <1>7, <2>1, <2>2, <2>3 DEF Sweep
<1> QED
  BY <1>2, <1>3, <1>4, <1>5, <1>6, <1>7 DEF ApartNext, Next

\* When only gate evaluations overlap, the routes and the sweep implement the
\* abstract register: the strategy changes in one step, to a workspace on disk, its entry names the one it
\* replaced, and the newest Kept entries are never discarded.
THEOREM ApartRegister == ApartSpec => ImplementsRegister
<1>1. Init => PromotionRegister!Init
  BY DEF Init, PromotionRegister!Init, Trail, Present
<1>2. ApartInv /\ [ApartNext]_vars
        => [PromotionRegister!Next]_<<pointer, Trail, {w \in Workspace : Present(w)}>>
  BY RegisterStep DEF RegisterVars
<1> QED
  BY <1>1, <1>2, ApartInvariant, PTL
  DEF ApartSpec, ImplementsRegister, PromotionRegister!Spec
=============================================================================
