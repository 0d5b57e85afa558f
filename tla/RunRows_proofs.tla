--------------------------- MODULE RunRows_proofs ---------------------------
(***************************************************************************)
(* Proofs about RunRows, for every set of threads and handlers and every   *)
(* bound: the types, that stop_run never kills another thread's working    *)
(* run, and, when a reaper's tick does not stall between its list and its  *)
(* probe, that finished rows stay, that the reaper spares the living, and  *)
(* that a working run has a row that says so.  The second part is about    *)
(* what a run is told of earlier ones, for texts of every length; the last *)
(* about the lock the runs take, for every set of processes in its code.   *)
(***************************************************************************)
EXTENDS RunRows, RunMemory, SequenceTheorems, WellFoundedInduction, TLAPS

-----------------------------------------------------------------------------
(* Types *)

USE DEF Final, Live

LEMMA TypeInit == Init => TypeOK
  BY ThreadAssumption, BoundAssumption DEF Init, TypeOK, NoReap

\* Breaking a stale lock leaves a thread or nobody.
LEMMA LockSeenType == TypeOK => LockSeen \in Thread \cup {None}
  BY DEF TypeOK, LockSeen, Stale

\* What one step of a handler leaves of the types.
LEMMA HandlerType ==
  ASSUME TypeOK, NEW h \in Handler, CheckRow(h) \/ CheckStop(h) \/ HandlerStep(h)
  PROVE  TypeOK'
<1> USE ThreadAssumption, BoundAssumption DEF TypeOK, Goto
<1> DEFINE t == ThreadOf[h]
<1>0. t \in Thread /\ h \in Thread \cup Handler
  OBVIOUS
<1>1. CASE CheckRow(h)
  BY <1>1 DEF CheckRow
<1>2. CASE CheckStop(h)
  BY <1>2, LockSeenType DEF CheckStop
<1>3. CASE CheckLock(h)
  BY <1>3, LockSeenType DEF CheckLock
<1>4. CASE Launch(h)
  <2>1. CASE Live(t)
    BY <1>0, <1>4, <2>1 DEF Launch
  <2>2. CASE ~Live(t)
    BY <1>0, <1>4, <2>2 DEF Launch
  <2> QED
    BY <2>1, <2>2
<1>5. CASE LaunchBound(h)
  BY <1>5 DEF LaunchBound
<1>6. CASE CreateRun(h)
  BY <1>0, <1>6 DEF CreateRun
<1>7. CASE StopUnit(h)
  BY <1>0, <1>7 DEF StopUnit
<1>8. CASE Cancel(h)
  BY <1>8 DEF Cancel
<1> QED
  BY <1>1, <1>2, <1>3, <1>4, <1>5, <1>6, <1>7, <1>8 DEF HandlerStep

\* What one step of a pipeline leaves of the types.
LEMMA PipeType ==
  ASSUME TypeOK, NEW t \in Thread, PipeStep(t) \/ Crash(t)
  PROVE  TypeOK'
<1> USE DEF TypeOK, Pipe, Finalize
<1>1. CASE TakeLock(t)
  BY <1>1 DEF TakeLock
<1>2. CASE Refused(t)
  BY <1>2 DEF Refused
<1>3. CASE StartSession(t)
  BY <1>3 DEF StartSession
<1>4. CASE StartFails(t)
  BY <1>4 DEF StartFails
<1>5. CASE Finish(t)
  BY <1>5 DEF Finish
<1>6. CASE Close(t)
  BY <1>6 DEF Close
<1>7. CASE Crash(t)
  BY <1>7 DEF Crash
<1> QED
  BY <1>1, <1>2, <1>3, <1>4, <1>5, <1>6, <1>7 DEF PipeStep

\* What one step of the reaper leaves of the types.
LEMMA ReaperType ==
  ASSUME TypeOK, ReaperStep \/ ReaperFlip \/ SlackFails \/ ReaperMiss
  PROVE  TypeOK'
<1> USE BoundAssumption DEF TypeOK, NoReap
<1>1. CASE ReaperList
  BY <1>1 DEF ReaperList
<1>2. CASE ReaperEnd
  BY <1>2 DEF ReaperEnd
<1>3. ASSUME NEW t \in Thread, ReaperProbe(t) PROVE TypeOK'
  <2>1. dead' \in [Thread -> 0 .. Grace]
    BY <1>3 DEF ReaperProbe
  <2>2. reaping' \in [tick : BOOLEAN, left : SUBSET Thread, post : Thread \cup {None}]
    BY <1>3 DEF ReaperProbe
  <2> QED
    BY <1>3, <2>1, <2>2 DEF ReaperProbe
<1>4. CASE ReaperFlip
  BY <1>4 DEF ReaperFlip
<1>5. CASE SlackFails
  BY <1>5 DEF SlackFails
<1>6. CASE ReaperMiss
  BY <1>6 DEF ReaperMiss
<1> QED
  BY <1>1, <1>2, <1>3, <1>4, <1>5, <1>6 DEF ReaperStep

LEMMA RestartType == TypeOK /\ Restart => TypeOK'
  BY BoundAssumption DEF TypeOK, Restart, NoReap

\* Every step keeps the types.
LEMMA TypeStep == TypeOK /\ [Next]_vars => TypeOK'
<1> SUFFICES ASSUME TypeOK, [Next]_vars PROVE TypeOK'
  OBVIOUS
<1>1. CASE UNCHANGED vars
  BY <1>1 DEF vars, TypeOK
<1> QED
  BY <1>1, HandlerType, PipeType, ReaperType, RestartType DEF Next

\* The rows, the units, the lock and the reaper's marks keep their types,
\* whatever crashes, restarts or is missed.
THEOREM TypeCorrect == Spec => []TypeOK
  BY TypeInit, TypeStep, PTL DEF Spec

-----------------------------------------------------------------------------
(* What a finished row and a cancel rely on, under every interleaving *)

\* A pipeline still to finalize, and a handler under way, are of a row that is
\* not final.
Unfinished ==
  /\ \A t \in Thread : pipe[t] \in {"start", "up", "run"} => row[t] \notin Final
  /\ \A h \in Handler : pc[h] # "idle" => row[ThreadOf[h]] \notin Final

\* Who has taken the lock and lives is the one it names.
Owner == \A t \in Thread : pipe[t] \in {"up", "run", "close"} => lock = t

\* While a handler is about to cancel, no other thread's session is at work.
CancelAlone ==
  \A h \in Handler : pc[h] = "cancel" =>
    \A t \in Thread : pipe[t] = "run" => t = ThreadOf[h]

Calm == TypeOK /\ Unfinished /\ Owner /\ CancelAlone

LEMMA CalmInit == Init => Calm
  BY TypeInit, ThreadAssumption DEF Init, Calm, Unfinished, Owner, CancelAlone

\* A handler's step keeps rows unfinished, the owner, and cancels alone.
LEMMA HandlerCalm ==
  ASSUME Calm, NEW h \in Handler, CheckRow(h) \/ CheckStop(h) \/ HandlerStep(h)
  PROVE  Unfinished' /\ Owner' /\ CancelAlone'
<1> USE ThreadAssumption DEF Calm, TypeOK, Goto
<1> DEFINE t == ThreadOf[h]
<1>0. t \in Thread
  OBVIOUS
<1>1. CASE CheckRow(h)
  BY <1>1 DEF CheckRow, Unfinished, Owner, CancelAlone
<1>2. CASE CheckStop(h)
  <2>1. UNCHANGED <<row, pipe>>
    BY <1>2 DEF CheckStop
  <2>2. Owner'
    BY <1>2 DEF CheckStop, Owner, LockSeen, Stale
  <2>3. Unfinished'
    BY <1>2 DEF CheckStop, Unfinished
  <2>4. ASSUME LockSeen \in {None, t}, NEW s \in Thread, pipe[s] = "run" PROVE s = t
    BY <2>4 DEF Owner, LockSeen, Stale
  <2>5. CancelAlone'
    BY <1>2, <2>1, <2>4 DEF CheckStop, CancelAlone
  <2> QED
    BY <2>2, <2>3, <2>5
<1>3. CASE CheckLock(h)
  BY <1>3 DEF CheckLock, LockSeen, Stale, Unfinished, Owner, CancelAlone
<1>4. CASE Launch(h)
  <2>1. CASE Live(t)
    BY <1>4, <2>1 DEF Launch, Unfinished, Owner, CancelAlone
  <2>2. CASE ~Live(t)
    <3>1. /\ pipe' = [pipe EXCEPT ![t] = "start"]
          /\ pc' = [pc EXCEPT ![h] = "create"]
          /\ pc[h] = "launch"
          /\ UNCHANGED <<row, lock>>
      BY <1>4, <2>2 DEF Launch
    <3> QED
      BY <1>0, <3>1 DEF Unfinished, Owner, CancelAlone
  <2> QED
    BY <2>1, <2>2
<1>5. CASE LaunchBound(h)
  BY <1>5 DEF LaunchBound, Unfinished, Owner, CancelAlone
<1>6. CASE CreateRun(h)
  BY <1>0, <1>6 DEF CreateRun, Unfinished, Owner, CancelAlone
<1>7. CASE StopUnit(h)
  BY <1>0, <1>7 DEF StopUnit, Unfinished, Owner, CancelAlone
<1>8. CASE Cancel(h)
  BY <1>8 DEF Cancel, Unfinished, Owner, CancelAlone
<1> QED
  BY <1>1, <1>2, <1>3, <1>4, <1>5, <1>6, <1>7, <1>8 DEF HandlerStep

\* A pipeline's step does.
LEMMA PipeCalm ==
  ASSUME Calm, NEW t \in Thread, PipeStep(t) \/ Crash(t)
  PROVE  Unfinished' /\ Owner' /\ CancelAlone'
<1> USE ThreadAssumption DEF Calm, TypeOK, Pipe, Finalize
<1>1. CASE TakeLock(t)
  <2>1. \A s \in Thread : pipe[s] \notin {"up", "run", "close"}
    BY <1>1 DEF TakeLock, LockSeen, Stale, Owner
  <2> QED
    BY <1>1, <2>1 DEF TakeLock, Unfinished, Owner, CancelAlone
<1>2. CASE Refused(t)
  BY <1>2 DEF Refused, Unfinished, Owner, CancelAlone
<1>3. CASE StartSession(t)
  BY <1>3 DEF StartSession, Unfinished, Owner, CancelAlone
<1>4. CASE StartFails(t)
  BY <1>4 DEF StartFails, Unfinished, Owner, CancelAlone
<1>5. CASE Finish(t)
  <2>1. PICK outcome \in {"completed", "stopped", "failed"} : Finalize(t, outcome)
    BY <1>5 DEF Finish
  <2>2. /\ pipe' = [pipe EXCEPT ![t] = "close"]
        /\ \A h \in Handler : ThreadOf[h] = t => pc[h] = "idle"
        /\ UNCHANGED <<lock, pc>>
        /\ pipe[t] = "run"
    BY <1>5 DEF Finish, Quiet
  <2>3. \A s \in Thread \ {t} : row'[s] = row[s]
    BY <2>1
  <2> QED
    BY <2>2, <2>3 DEF Unfinished, Owner, CancelAlone
<1>6. CASE Close(t)
  BY <1>6 DEF Close, Unfinished, Owner, CancelAlone
<1>7. CASE Crash(t)
  BY <1>7 DEF Crash, Unfinished, Owner, CancelAlone
<1> QED
  BY <1>1, <1>2, <1>3, <1>4, <1>5, <1>6, <1>7 DEF PipeStep

\* The reaper and a restart do, whatever the reaper flips.
LEMMA OtherCalm ==
  ASSUME Calm, ReaperStep \/ ReaperFlip \/ SlackFails \/ ReaperMiss \/ Restart
  PROVE  Unfinished' /\ Owner' /\ CancelAlone'
<1> USE ThreadAssumption DEF Calm, TypeOK
<1>1. CASE ReaperFlip
  BY <1>1 DEF ReaperFlip, Unfinished, Owner, CancelAlone
<1>2. CASE Restart
  BY <1>2 DEF Restart, Unfinished, Owner, CancelAlone
<1>3. CASE UNCHANGED <<row, pipe, lock, pc>>
  BY <1>3 DEF Unfinished, Owner, CancelAlone
<1> QED
  BY <1>1, <1>2, <1>3 DEF ReaperStep, ReaperList, ReaperEnd, ReaperProbe, SlackFails,
       ReaperMiss

LEMMA CalmStep == Calm /\ [Next]_vars => Calm'
<1> SUFFICES ASSUME Calm, [Next]_vars PROVE Calm'
  OBVIOUS
<1>1. TypeOK'
  BY TypeStep DEF Calm
<1>2. CASE UNCHANGED vars
  BY <1>1, <1>2 DEF vars, Calm, Unfinished, Owner, CancelAlone
<1>3. CASE Next
  BY <1>1, <1>3, HandlerCalm, PipeCalm, OtherCalm DEF Next, Calm
<1> QED
  BY <1>2, <1>3

\* stop_run never kills the session of another thread's working run, under every
\* interleaving: nobody else's session is at work when the lock has been looked
\* at, and none comes up before the cancel.
THEOREM OthersSpared == Spec => CancelSparesOthers
<1> DEFINE Spares(h) ==
      (pc[h] = "cancel" /\ pc'[h] = "idle" /\ session # session')
        => (session = ThreadOf[h] \/ pipe[session] # "run")
<1>1. Calm /\ [Next]_vars => [\A h \in Handler : Spares(h)]_vars
  <2> SUFFICES ASSUME Calm, Next, NEW h \in Handler PROVE Spares(h)
    OBVIOUS
  <2> SUFFICES ASSUME pc[h] = "cancel", pc'[h] = "idle", session # session',
                      pipe[session] = "run"
               PROVE  session = ThreadOf[h]
    OBVIOUS
  <2>1. session \in Thread \cup {None}
    BY DEF Calm, TypeOK
  <2>2. PICK g \in Handler : Cancel(g)
    <3>1. ASSUME NEW t \in Thread, PipeStep(t) \/ Crash(t) PROVE FALSE
      BY <3>1 DEF PipeStep, TakeLock, Refused, StartSession, StartFails, Finish, Close,
           Crash
    <3>2. UNCHANGED session \/ \E g \in Handler : Cancel(g)
      BY <3>1 DEF Next, HandlerStep, CheckRow, CheckStop, CheckLock, Launch, LaunchBound,
           CreateRun, StopUnit, ReaperStep, ReaperList, ReaperEnd, ReaperProbe,
           ReaperFlip, SlackFails, ReaperMiss, Restart
    <3> QED
      BY <3>2
  <2>3. session # None
    BY <2>2 DEF Cancel
  <2> QED
    BY <2>1, <2>3 DEF Calm, CancelAlone
<1> QED
  BY CalmInit, CalmStep, <1>1, PTL DEF Spec, CancelSparesOthers

-----------------------------------------------------------------------------
(* The reaper, whose ticks do not stall *)

\* Where the handlers of a thread may be while its row says running.
Waiting(t) == \A h \in Handler : ThreadOf[h] = t => pc[h] \in {"idle", "cancel"}

\* A thread on a tick's list still runs, by its row or by its unit; a handler that
\* begins anew on a failed row gets no further than the launch.
Listed ==
  \A t \in reaping.left :
    \/ row[t] = "running" /\ Waiting(t)
    \/ /\ row[t] # "running" /\ Live(t)
       /\ \A h \in Handler : ThreadOf[h] = t => pc[h] \notin {"create", "undo"}

\* The thread whose note is out is dead and nobody revives it.
Posted ==
  reaping.post # None =>
    /\ reaping.post \notin reaping.left
    /\ row[reaping.post] = "running"
    /\ ~Live(reaping.post)
    /\ Waiting(reaping.post)

Between == ~reaping.tick => reaping.left = {} /\ reaping.post = None

\* Unless the orchestrator was restarted, a pipeline at work has its row, or the
\* handler that launched it is about to write it.
Recorded ==
  budget.restarts = 0 =>
    \A t \in Thread : pipe[t] \in {"start", "up", "run"} =>
      \/ row[t] = "running"
      \/ \E h \in Handler : ThreadOf[h] = t /\ pc[h] = "create"

Ticking == Calm /\ Listed /\ Posted /\ Between /\ Recorded

LEMMA TickingInit == Init => Ticking
  BY CalmInit DEF Init, Ticking, Listed, Posted, Between, Recorded, NoReap

\* A handler's step keeps what the reaper relies on.
LEMMA HandlerTicking ==
  ASSUME Ticking, NEW h \in Handler, CheckRow(h) \/ CheckStop(h) \/ HandlerStep(h)
  PROVE  Listed' /\ Posted' /\ Between' /\ Recorded'
<1> USE ThreadAssumption DEF Ticking, Calm, TypeOK, Goto
<1> DEFINE t == ThreadOf[h]
<1>0. t \in Thread
  OBVIOUS
<1>1. CASE CheckRow(h)
  BY <1>1 DEF CheckRow, Listed, Posted, Between, Recorded, Waiting
<1>2. CASE CheckStop(h)
  BY <1>2 DEF CheckStop, Listed, Posted, Between, Recorded, Waiting
<1>3. CASE CheckLock(h)
  BY <1>3 DEF CheckLock, Listed, Posted, Between, Recorded, Waiting
<1>4. CASE Launch(h)
  <2>1. CASE Live(t)
    BY <1>4, <2>1 DEF Launch, Listed, Posted, Between, Recorded, Waiting
  <2>2. CASE ~Live(t)
    <3>1. /\ pipe' = [pipe EXCEPT ![t] = "start"]
          /\ pc' = [pc EXCEPT ![h] = "create"]
          /\ pc[h] = "launch"
          /\ budget'.restarts = budget.restarts
          /\ UNCHANGED <<row, reaping>>
      BY <1>4, <2>2 DEF Launch
    <3>2. t \notin reaping.left /\ t # reaping.post
      BY <1>4, <2>2 DEF Launch, Listed, Posted, Waiting
    <3>3. Listed' /\ Posted' /\ Between'
      BY <1>0, <3>1, <3>2 DEF Listed, Posted, Between, Waiting
    <3>4. Recorded'
      BY <1>0, <3>1 DEF Recorded
    <3> QED
      BY <3>3, <3>4
  <2> QED
    BY <2>1, <2>2
<1>5. CASE LaunchBound(h)
  BY <1>5 DEF LaunchBound, Listed, Posted, Between, Recorded, Waiting
<1>6. CASE CreateRun(h)
  <2>1. t \notin reaping.left /\ t # reaping.post
    BY <1>6 DEF CreateRun, Listed, Posted, Waiting
  <2>2. Listed' /\ Posted' /\ Between'
    BY <1>0, <1>6, <2>1 DEF CreateRun, Listed, Posted, Between, Waiting
  <2>3. Recorded'
    <3>1. row[t] \notin Final
      BY <1>6 DEF CreateRun, Unfinished
    <3>2. row'[t] = "running" /\ \A s \in Thread \ {t} : row'[s] = row[s]
      BY <1>0, <1>6, <3>1 DEF CreateRun
    <3>3. UNCHANGED <<pipe, budget>> /\ \A g \in Handler \ {h} : pc'[g] = pc[g]
      BY <1>6 DEF CreateRun
    <3> QED
      BY <1>0, <3>2, <3>3 DEF Recorded
  <2> QED
    BY <2>2, <2>3
<1>7. CASE StopUnit(h)
  <2>1. t \notin reaping.left
    BY <1>7 DEF StopUnit, Listed, Waiting
  <2> QED
    BY <1>0, <1>7, <2>1 DEF StopUnit, Listed, Posted, Between, Recorded, Waiting
<1>8. CASE Cancel(h)
  BY <1>8 DEF Cancel, Listed, Posted, Between, Recorded, Waiting
<1> QED
  BY <1>1, <1>2, <1>3, <1>4, <1>5, <1>6, <1>7, <1>8 DEF HandlerStep

\* A pipeline's step does: none ends between a tick's list and its probe.
LEMMA PipeTicking ==
  ASSUME ~TickMayStall, Ticking, NEW t \in Thread, PipeStep(t) \/ Crash(t)
  PROVE  Listed' /\ Posted' /\ Between' /\ Recorded'
<1> USE ThreadAssumption DEF Ticking, Calm, TypeOK, Pipe, Finalize, Unlisted
<1>1. Live(t)
  BY DEF PipeStep, TakeLock, Refused, StartSession, StartFails, Finish, Close, Crash
<1>2. UNCHANGED <<pc, reaping, budget>>
  BY DEF PipeStep, TakeLock, Refused, StartSession, StartFails, Finish, Close, Crash
<1>3. t # reaping.post
  BY <1>1 DEF Posted
<1>4. \A s \in Thread \ {t} : row'[s] = row[s] /\ pipe'[s] = pipe[s]
  BY DEF PipeStep, TakeLock, Refused, StartSession, StartFails, Finish, Close, Crash
<1>5. Posted' /\ Between'
  BY <1>2, <1>3, <1>4 DEF Posted, Between, Waiting
<1>6. CASE TakeLock(t) \/ StartSession(t)
  <2>1. pipe[t] \in {"start", "up"} /\ pipe'[t] \in {"up", "run"} /\ row' = row
    BY <1>6 DEF TakeLock, StartSession
  <2>2. Listed'
    BY <1>2, <1>4, <2>1 DEF Listed, Waiting
  <2>3. Recorded'
    BY <1>2, <1>4, <2>1 DEF Recorded
  <2> QED
    BY <1>5, <2>2, <2>3
<1>7. CASE Refused(t) \/ Close(t)
  <2>1. t \notin reaping.left /\ pipe'[t] = "none"
    BY <1>7 DEF Refused, Close
  <2>2. Listed'
    BY <1>2, <1>4, <2>1 DEF Listed, Waiting
  <2>3. Recorded'
    BY <1>2, <1>4, <2>1 DEF Recorded
  <2> QED
    BY <1>5, <2>2, <2>3
<1>8. CASE StartFails(t) \/ Finish(t)
  <2>1. pipe'[t] = "close" /\ (row'[t] = row[t] \/ row'[t] # "running")
    BY <1>8 DEF StartFails, Finish
  <2>2. Listed'
    BY <1>2, <1>4, <2>1 DEF Listed, Waiting
  <2>3. Recorded'
    BY <1>2, <1>4, <2>1 DEF Recorded
  <2> QED
    BY <1>5, <2>2, <2>3
<1>9. CASE Crash(t)
  <2>1. row' = row /\ pipe'[t] = "none" /\ (t \in reaping.left => row[t] = "running")
    BY <1>9 DEF Crash
  <2>2. Listed'
    BY <1>2, <1>4, <2>1 DEF Listed, Waiting
  <2>3. Recorded'
    BY <1>2, <1>4, <2>1 DEF Recorded
  <2> QED
    BY <1>5, <2>2, <2>3
<1> QED
  BY <1>6, <1>7, <1>8, <1>9 DEF PipeStep

\* The reaper's own steps and a restart do.
LEMMA ReaperTicking ==
  ASSUME Ticking, ReaperStep \/ ReaperFlip \/ SlackFails \/ ReaperMiss \/ Restart
  PROVE  Listed' /\ Posted' /\ Between' /\ Recorded'
<1> USE ThreadAssumption DEF Ticking, Calm, TypeOK, NoReap
<1>1. CASE ReaperList
  BY <1>1 DEF ReaperList, NoLateStart, Listed, Posted, Between, Recorded, Waiting
<1>2. CASE ReaperEnd
  BY <1>2 DEF ReaperEnd, Listed, Posted, Between, Recorded, Waiting
<1>3. ASSUME NEW t \in Thread, ReaperProbe(t)
      PROVE  Listed' /\ Posted' /\ Between' /\ Recorded'
  <2>1. /\ t \in reaping.left
        /\ reaping'.left = reaping.left \ {t}
        /\ reaping'.tick = reaping.tick
        /\ reaping'.post = IF ~Live(t) /\ dead[t] = Grace THEN t ELSE None
        /\ UNCHANGED <<row, pipe, pc, budget>>
    BY <1>3 DEF ReaperProbe
  <2> QED
    BY <2>1 DEF Listed, Posted, Between, Recorded, Waiting
<1>4. CASE ReaperFlip
  BY <1>4 DEF ReaperFlip, Listed, Posted, Between, Recorded, Waiting
<1>5. CASE SlackFails
  BY <1>5 DEF SlackFails, Listed, Posted, Between, Recorded, Waiting
<1>6. CASE ReaperMiss
  BY <1>6 DEF ReaperMiss, Listed, Posted, Between, Recorded, Waiting
<1>7. CASE Restart
  <2>1. budget'.restarts = budget.restarts + 1 /\ budget.restarts \in Nat
    BY <1>7, BoundAssumption DEF Restart
  <2> QED
    BY <1>7, <2>1 DEF Restart, Listed, Posted, Between, Recorded, Waiting
<1> QED
  BY <1>1, <1>2, <1>3, <1>4, <1>5, <1>6, <1>7 DEF ReaperStep

LEMMA TickingStep ==
  ASSUME ~TickMayStall, Ticking, [Next]_vars
  PROVE  Ticking'
<1>1. Calm'
  BY CalmStep DEF Ticking
<1>2. CASE UNCHANGED vars
  BY <1>1, <1>2 DEF vars, Ticking, Listed, Posted, Between, Recorded, Waiting
<1>3. CASE Next
  BY <1>1, <1>3, HandlerTicking, PipeTicking, ReaperTicking DEF Next, Ticking
<1> QED
  BY <1>2, <1>3

\* The reaper never fails the row of a run whose pipeline is alive, whatever was
\* restarted, missed or retried, when no tick stalls between list and probe.
THEOREM LiveSpared ==
  ASSUME ~TickMayStall
  PROVE  Spec => ReaperSparesLive
<1>1. Ticking /\ [Next]_vars => Ticking'
  BY TickingStep
<1>2. Ticking /\ [Next]_vars
        => [\A t \in Thread : (ReaperFlip /\ reaping.post = t) => ~Live(t)]_vars
  BY DEF Ticking, Posted, ReaperFlip
<1> QED
  BY TickingInit, <1>1, <1>2, PTL DEF Spec, ReaperSparesLive

\* A completed or stopped row keeps its status, when no tick stalls: no reap, no
\* refused pipeline and no second start touches it.
THEOREM FinalStays ==
  ASSUME ~TickMayStall
  PROVE  Spec => FinalRowStable
<1> DEFINE Stays == \A t \in Thread : row[t] \in Final => row'[t] = row[t]
<1>1. Ticking /\ [Next]_vars => Ticking'
  BY TickingStep
<1>2. Ticking /\ [Next]_vars => [Stays]_vars
  <2> SUFFICES ASSUME Ticking, Next PROVE Stays
    OBVIOUS
  <2> USE ThreadAssumption DEF Ticking, Calm, TypeOK
  <2>1. ASSUME NEW h \in Handler, CheckRow(h) \/ CheckStop(h) \/ HandlerStep(h)
        PROVE  Stays
    BY <2>1 DEF HandlerStep, CheckRow, CheckStop, CheckLock, Launch, LaunchBound,
         CreateRun, StopUnit, Cancel
  <2>2. ASSUME NEW t \in Thread, PipeStep(t) \/ Crash(t) PROVE Stays
    BY <2>2 DEF PipeStep, TakeLock, Refused, StartSession, StartFails, Finish, Close,
         Crash, Finalize, Unfinished
  <2>3. CASE ReaperFlip
    BY <2>3 DEF ReaperFlip, Posted
  <2>4. CASE ReaperStep \/ SlackFails \/ ReaperMiss \/ Restart
    BY <2>4 DEF ReaperStep, ReaperList, ReaperEnd, ReaperProbe, SlackFails, ReaperMiss,
         Restart
  <2> QED
    BY <2>1, <2>2, <2>3, <2>4 DEF Next
<1> QED
  BY TickingInit, <1>1, <1>2, PTL DEF Spec, FinalRowStable

\* A working run has a row that says so, while no handler of its thread is under
\* way and the orchestrator was not restarted, when no tick stalls.
THEOREM WorkRecorded ==
  ASSUME ~TickMayStall
  PROVE  Spec => []WorkingRunIsRecorded
<1>1. Ticking /\ [Next]_vars => Ticking'
  BY TickingStep
<1>2. Ticking => WorkingRunIsRecorded
  BY DEF Ticking, Recorded, WorkingRunIsRecorded, Quiet
<1> QED
  BY TickingInit, <1>1, <1>2, PTL DEF Spec

-----------------------------------------------------------------------------
(* What a run is told of the runs before it (RunMemory), for texts of every *)
(* length *)

\* A nonempty set of positions has a first and a last one.
LEMMA FirstIs ==
  ASSUME NEW S \in SUBSET Nat, S # {}
  PROVE  Min(S) \in S /\ \A i \in S : Min(S) <= i
<1>1. IsWellFoundedOn(OpToRel(<, Nat), Nat)
  BY NatLessThanWellFounded
<1>2. PICK i \in S : \A j \in S : ~(<<j, i>> \in OpToRel(<, Nat))
  BY <1>1, WFMin
<1>3. ASSUME NEW j \in S PROVE i <= j
  <2>1. ~(j < i)
    BY <1>2 DEF OpToRel
  <2> QED
    BY <2>1
<1> QED
  BY <1>3 DEF Min

LEMMA LastIs ==
  ASSUME NEW n \in Nat, NEW S \in SUBSET (0 .. n), S # {}
  PROVE  Max(S) \in S /\ \A i \in S : i <= Max(S)
<1> DEFINE after == {n - i : i \in S}
<1>1. after \in SUBSET Nat /\ after # {}
  <2>1. ASSUME NEW i \in S PROVE n - i \in Nat
    <3>1. i \in 0 .. n
      OBVIOUS
    <3> QED
      BY <3>1
  <2> QED
    BY <2>1
<1>2. PICK i \in S : Min(after) = n - i
  BY <1>1, FirstIs
<1>3. ASSUME NEW j \in S PROVE j <= i
  <2>1. Min(after) <= n - j
    <3> HIDE DEF after
    <3>1. n - j \in after
      BY DEF after
    <3> QED
      BY <1>1, <3>1, FirstIs
  <2>2. i \in 0 .. n /\ j \in 0 .. n
    OBVIOUS
  <2> HIDE DEF after
  <2>3. n - i <= n - j
    BY <1>2, <2>1
  <2> QED
    BY <2>2, <2>3
<1>4. \E m \in S : \A j \in S : m >= j
  BY <1>3
<1> QED
  BY <1>4 DEF Max

LEMMA FirstIsOnly ==
  ASSUME NEW S \in SUBSET Nat, NEW n \in S, \A i \in S : n <= i
  PROVE  Min(S) = n
<1>1. Min(S) \in Nat /\ n \in Nat /\ Min(S) <= n /\ n <= Min(S)
  BY FirstIs
<1> QED
  BY <1>1

\* Stripping leaves a text, and no longer one.
LEMMA StrippedType ==
  ASSUME NEW text \in Seq(Symbol)
  PROVE  /\ Stripped(text) \in Seq(Symbol)
         /\ RightStripped(text) \in Seq(Symbol)
         /\ Len(RightStripped(text)) <= Len(text)
<1>1. CASE Solid(text) = {}
  BY <1>1 DEF Stripped, RightStripped
<1>2. CASE Solid(text) # {}
  <2>1. Solid(text) \in SUBSET (0 .. Len(text)) /\ Solid(text) \in SUBSET (1 .. Len(text))
    BY DEF Solid
  <2>2. Max(Solid(text)) \in 1 .. Len(text)
    BY <1>2, <2>1, LastIs
  <2>3. Min(Solid(text)) \in 1 .. Len(text)
    BY <1>2, <2>1, FirstIs
  <2>4. /\ SubSeq(text, 1, Max(Solid(text))) \in Seq(Symbol)
        /\ Len(SubSeq(text, 1, Max(Solid(text)))) = Max(Solid(text))
        /\ SubSeq(text, Min(Solid(text)), Max(Solid(text))) \in Seq(Symbol)
    BY <2>2, <2>3, SubSeqProperties, ElementOfSeq
  <2> QED
    BY <1>2, <2>2, <2>4 DEF Stripped, RightStripped
<1> QED
  BY <1>1, <1>2

\* What composing makes: the directive, or it and a memory that fits.
LEMMA ComposedIs ==
  ASSUME NEW directive \in Seq(Symbol), NEW digest \in Seq(Symbol)
  PROVE  \/ Compose(directive, digest) = Stripped(directive)
         \/ \E memory \in Seq(Symbol) :
              /\ Compose(directive, digest) = Stripped(directive) \o <<Delimiter>> \o memory
              /\ Len(Stripped(directive)) + 1 + Len(memory) <= InstructionMax
<1> DEFINE first == Stripped(directive)
           memory == Stripped(digest)
           space == InstructionMax - Len(first) - 1
           room == IF space < 0 THEN 0 ELSE space
           trimmed == RightStripped(SubSeq(memory, 1, room))
           fitting == IF Len(memory) > space THEN trimmed ELSE memory
<1>1. first \in Seq(Symbol) /\ memory \in Seq(Symbol)
  BY StrippedType
<1>2. InstructionMax \in Nat
  BY RunMemoryAssumption
<1>3. space \in Int /\ room \in Nat /\ (room <= space \/ room = 0)
  <2>1. Len(first) \in Nat
    BY <1>1
  <2> HIDE DEF first
  <2> QED
    BY <1>2, <2>1
<1>4. ASSUME Len(memory) > space
      PROVE  trimmed \in Seq(Symbol) /\ Len(trimmed) <= room
  <2> HIDE DEF memory, space
  <2>1. room <= Len(memory)
    BY <1>1, <1>3, <1>4
  <2>2. SubSeq(memory, 1, room) \in Seq(Symbol) /\ Len(SubSeq(memory, 1, room)) = room
    <3> HIDE DEF room
    <3> QED
      BY <1>1, <1>3, <2>1, SubSeqProperties, ElementOfSeq
  <2> HIDE DEF room
  <2>3. /\ RightStripped(SubSeq(memory, 1, room)) \in Seq(Symbol)
        /\ Len(RightStripped(SubSeq(memory, 1, room))) <= Len(SubSeq(memory, 1, room))
    BY <2>2, StrippedType
  <2> QED
    BY <2>2, <2>3
<1>5. ASSUME fitting # <<>>
      PROVE  fitting \in Seq(Symbol) /\ Len(fitting) <= space
  <2>1. CASE Len(memory) > space
    <3>1. fitting \in Seq(Symbol) /\ Len(fitting) <= room
      BY <1>4, <2>1
    <3>2. Len(fitting) \in Nat /\ Len(fitting) # 0
      <4> HIDE DEF fitting
      <4> QED
        BY <1>5, <3>1, EmptySeq
    <3> HIDE DEF fitting, room, space
    <3> QED
      BY <1>3, <3>1, <3>2
  <2>2. CASE ~(Len(memory) > space)
    <3>1. fitting = memory
      BY <2>2
    <3> HIDE DEF fitting, memory, space
    <3> QED
      BY <1>1, <1>3, <2>2, <3>1
  <2> QED
    BY <2>1, <2>2
<1>6. Compose(directive, digest)
        = IF memory \in {<<>>, <<NoPriorRuns>>} \/ fitting = <<>> THEN first
          ELSE first \o <<Delimiter>> \o fitting
  BY DEF Compose
<1>7. Len(fitting) <= space /\ fitting \in Seq(Symbol)
        => Len(first) + 1 + Len(fitting) <= InstructionMax
  <2>1. Len(first) \in Nat
    BY <1>1
  <2> HIDE DEF first, fitting
  <2> QED
    BY <1>2, <2>1
<1> HIDE DEF first, memory, space, fitting
<1>8. CASE memory \in {<<>>, <<NoPriorRuns>>} \/ fitting = <<>>
  BY <1>6, <1>8 DEF first
<1>9. CASE ~(memory \in {<<>>, <<NoPriorRuns>>} \/ fitting = <<>>)
  BY <1>5, <1>6, <1>7, <1>9 DEF first
<1> QED
  BY <1>8, <1>9

\* The first delimiter ends the directive, whatever follows.
LEMMA SplitIgnoresMemory ==
  ASSUME NEW first \in Seq(Symbol), NEW memory \in Seq(Symbol)
  PROVE  SplitDirective(first \o <<Delimiter>> \o memory) = SplitDirective(first)
<1> DEFINE whole == first \o <<Delimiter>> \o memory
           n == Len(first)
           own == {i \in DOMAIN first : first[i] = Delimiter}
           ends == {i \in DOMAIN whole : whole[i] = Delimiter}
<1>1. n \in Nat /\ DOMAIN first = 1 .. n /\ Len(memory) \in Nat
  OBVIOUS
<1>2. /\ whole \in Seq(Symbol) /\ DOMAIN whole = 1 .. n + 1 + Len(memory)
      /\ Len(whole) = n + 1 + Len(memory)
      /\ \A i \in 1 .. n : whole[i] = first[i]
      /\ whole[n + 1] = Delimiter
  <2>1. <<Delimiter>> \in Seq(Symbol) /\ Len(<<Delimiter>>) = 1
    BY RunMemoryAssumption
  <2> QED
    BY <2>1
<1> HIDE DEF whole
<1>3. /\ own = {i \in 1 .. n : first[i] = Delimiter}
      /\ ends = {i \in 1 .. n + 1 + Len(memory) : whole[i] = Delimiter}
  BY <1>1, <1>2
<1>4. own \in SUBSET Nat /\ ends \in SUBSET Nat /\ n + 1 \in ends
  BY <1>1, <1>2, <1>3
<1> HIDE DEF own, ends, n
<1>5. CASE own = {}
  <2>1. \A i \in ends : n + 1 <= i
    BY <1>1, <1>2, <1>3, <1>5
  <2>2. Min(ends) = n + 1
    BY <1>4, <2>1, FirstIsOnly
  <2>3. SubSeq(whole, 1, n) = first
    <3>1. SubSeq(whole, 1, n) \in Seq(Symbol) /\ Len(SubSeq(whole, 1, n)) = n
          /\ \A i \in 1 .. n : SubSeq(whole, 1, n)[i] = whole[i]
      BY <1>1, <1>2, SubSeqProperties, ElementOfSeq
    <3> QED
      BY <1>2, <3>1, SeqEqual DEF n
  <2>4. SplitDirective(whole) = SubSeq(whole, 1, Min(ends) - 1)
    BY <1>4 DEF SplitDirective, ends
  <2>5. SplitDirective(first) = first
    BY <1>5 DEF SplitDirective, own
  <2> QED
    BY <1>1, <2>2, <2>3, <2>4, <2>5 DEF whole
<1>6. CASE own # {}
  <2>1. Min(own) \in own /\ \A i \in own : Min(own) <= i
    BY <1>4, <1>6, FirstIs
  <2>2. Min(own) \in 1 .. n /\ Min(own) \in ends
    BY <1>1, <1>2, <1>3, <2>1
  <2>3. ASSUME NEW i \in ends PROVE Min(own) <= i
    <3>1. CASE i <= n
      BY <1>1, <1>2, <1>3, <2>1, <3>1
    <3>2. CASE ~(i <= n)
      BY <1>1, <1>4, <2>2, <3>2
    <3> QED
      BY <3>1, <3>2
  <2>4. Min(ends) = Min(own)
    BY <1>4, <2>2, <2>3, FirstIsOnly
  <2>5. ASSUME NEW k \in 1 .. n PROVE SubSeq(whole, 1, k - 1) = SubSeq(first, 1, k - 1)
    <3>1. /\ SubSeq(whole, 1, k - 1) \in Seq(Symbol) /\ Len(SubSeq(whole, 1, k - 1)) = k - 1
          /\ \A i \in 1 .. k - 1 : SubSeq(whole, 1, k - 1)[i] = whole[i]
      BY <1>1, <1>2, SubSeqProperties, ElementOfSeq
    <3>2. /\ SubSeq(first, 1, k - 1) \in Seq(Symbol) /\ Len(SubSeq(first, 1, k - 1)) = k - 1
          /\ \A i \in 1 .. k - 1 : SubSeq(first, 1, k - 1)[i] = first[i]
      BY <1>1, SubSeqProperties, ElementOfSeq DEF n
    <3>3. \A i \in 1 .. k - 1 : SubSeq(whole, 1, k - 1)[i] = SubSeq(first, 1, k - 1)[i]
      BY <1>1, <1>2, <3>1, <3>2
    <3> QED
      BY <3>1, <3>2, <3>3, SeqEqual
  <2>6. SplitDirective(whole) = SubSeq(whole, 1, Min(ends) - 1)
    BY <1>4 DEF SplitDirective, ends
  <2>7. SplitDirective(first) = SubSeq(first, 1, Min(own) - 1)
    BY <1>6 DEF SplitDirective, own
  <2> QED
    BY <2>2, <2>4, <2>5, <2>6, <2>7 DEF whole
<1> QED
  BY <1>5, <1>6

\* Digest text never compounds: whatever a run is told of earlier ones, its
\* durable records are those of its bare directive (compose_instruction,
\* split_instruction, build_notion_context).
THEOREM RecordsForget ==
  ASSUME NEW directive \in Seq(Symbol), NEW digest \in Seq(Symbol),
         NEW date, NEW exit, NEW loops
  PROVE  LET instruction == Compose(directive, digest)
             bare == Stripped(directive)
         IN  /\ RunSummary(date, exit, instruction, loops) = RunSummary(date, exit, bare, loops)
             /\ NoteDirective(instruction) = NoteDirective(bare)
<1>1. SplitDirective(Compose(directive, digest)) = SplitDirective(Stripped(directive))
  <2>1. Stripped(directive) \in Seq(Symbol)
    BY StrippedType
  <2>2. CASE Compose(directive, digest) = Stripped(directive)
    BY <2>2
  <2>3. ASSUME NEW memory \in Seq(Symbol),
               Compose(directive, digest) = Stripped(directive) \o <<Delimiter>> \o memory
        PROVE  SplitDirective(Compose(directive, digest)) = SplitDirective(Stripped(directive))
    <3>1. SplitDirective(Stripped(directive) \o <<Delimiter>> \o memory)
            = SplitDirective(Stripped(directive))
      BY <2>1, SplitIgnoresMemory
    <3> QED
      BY <2>3, <3>1, Zenon
  <2> QED
    BY <2>2, <2>3, ComposedIs
<1>2. NoteDirective(Compose(directive, digest)) = NoteDirective(Stripped(directive))
  BY <1>1 DEF NoteDirective
<1>3. RunSummary(date, exit, Compose(directive, digest), loops)
        = RunSummary(date, exit, Stripped(directive), loops)
  BY <1>1, Zenon DEF RunSummary
<1> QED
  BY <1>2, <1>3

\* The directive comes first and in full, and memory never takes an instruction
\* past its bound (compose_instruction).
THEOREM DirectiveFirst ==
  ASSUME NEW directive \in Seq(Symbol), NEW digest \in Seq(Symbol)
  PROVE  LET instruction == Compose(directive, digest)
             bare == Stripped(directive)
         IN  /\ IsPrefix(bare, instruction)
             /\ Len(instruction) <= InstructionMax \/ instruction = bare
<1> DEFINE instruction == Compose(directive, digest)
           bare == Stripped(directive)
<1>1. bare \in Seq(Symbol)
  BY StrippedType
<1>2. CASE instruction = bare
  <2> HIDE DEF instruction, bare
  <2>1. IsPrefix(bare, bare)
    BY <1>1 DEF IsPrefix
  <2> QED
    BY <1>2, <2>1 DEF instruction, bare
<1>3. CASE instruction # bare
  <2>1. PICK memory \in Seq(Symbol) :
          /\ instruction = bare \o <<Delimiter>> \o memory
          /\ Len(bare) + 1 + Len(memory) <= InstructionMax
    BY <1>3, ComposedIs
  <2> HIDE DEF instruction, bare
  <2>2. <<Delimiter>> \in Seq(Symbol) /\ Len(<<Delimiter>>) = 1
    BY RunMemoryAssumption
  <2>3. /\ instruction \in Seq(Symbol)
        /\ Len(instruction) = Len(bare) + 1 + Len(memory)
        /\ \A i \in 1 .. Len(bare) : instruction[i] = bare[i]
    BY <1>1, <2>1, <2>2
  <2>4. SubSeq(instruction, 1, Len(bare)) = SubSeq(bare, 1, Len(bare))
    <3>1. /\ SubSeq(instruction, 1, Len(bare)) \in Seq(Symbol)
          /\ Len(SubSeq(instruction, 1, Len(bare))) = Len(bare)
          /\ \A i \in 1 .. Len(bare) : SubSeq(instruction, 1, Len(bare))[i] = instruction[i]
      BY <1>1, <2>3, SubSeqProperties, ElementOfSeq
    <3>2. SubSeq(bare, 1, Len(bare)) = bare
      BY <1>1, SubSeqFull
    <3> QED
      BY <1>1, <2>3, <3>1, <3>2, SeqEqual
  <2>5. IsPrefix(bare, instruction)
    BY <1>1, <2>3, <2>4 DEF IsPrefix
  <2> QED
    BY <2>1, <2>3, <2>5 DEF instruction, bare
<1> QED
  BY <1>2, <1>3

-----------------------------------------------------------------------------
(* The lock the runs take.  RunRows takes it in one step, as Mutex gives it; *)
(* RunLock has its system calls, for processes that are not those above.     *)
(* First its types, and mutual exclusion as long as no two processes are     *)
(* inside the lock code at once (SerialSpec); then, for every interleaving,  *)
(* the record of a living pipeline.                                          *)

CONSTANTS Pipeline, Manual, Checker, Unit, UnitOf, MaxAttempts, Nobody

VARIABLES file, step, seen, tries, reused

Lock == INSTANCE RunLock WITH pc <- step

\* What RunLock assumes of its constants.
Provided ==
  /\ Manual \subseteq Pipeline
  /\ UnitOf \in [Pipeline -> Unit]
  /\ Pipeline \cap Checker = {}
  /\ Nobody \notin Pipeline
  /\ {"NoLock", "corrupt"} \cap Pipeline = {}
  /\ MaxAttempts \in Nat \ {0}

\* A process that has found a lock is looking at the file that is there, and
\* one that is about to unlink it has seen its owner dead.
CheckCurrent ==
  \A p \in Lock!Proc :
    /\ step[p] = "probe" => seen[p] = Lock!OnDisk /\ file # Lock!NoFile
    /\ step[p] = "unlink" =>
         /\ seen[p] = Lock!OnDisk /\ file # Lock!NoFile
         /\ seen[p] = Lock!Corrupt \/ ~Lock!Running(seen[p])

\* The file a pipeline is writing its record into is its own.
WriterOnDisk ==
  \A p \in Pipeline :
    step[p] = "write" => file = [creator |-> p, written |-> FALSE]

\* The file names a pipeline that has been launched.
CreatorLaunched == file # Lock!NoFile => step[file.creator] # "idle"

\* Serial inductive invariant: it ties every label of the lock code to what
\* the file must then hold.
IInv ==
  /\ Lock!TypeOK
  /\ Lock!Undisturbed
  /\ Lock!HolderOnDisk
  /\ WriterOnDisk
  /\ CheckCurrent
  /\ CreatorLaunched

USE DEF Lock!Proc, Lock!NoLock, Lock!Corrupt, Lock!NoFile, Lock!InWindow, Lock!Holding,
        Lock!Ended, Lock!Running, Lock!Goto

-----------------------------------------------------------------------------

LEMMA LockTypeInit == ASSUME Provided, Lock!Init PROVE Lock!TypeOK
<1>1. file \in Lock!FileState
  BY DEF Lock!Init, Lock!FileState
<1>2. tries \in [Pipeline -> 0 .. MaxAttempts]
  BY DEF Lock!Init, Provided
<1>3. /\ step \in [Lock!Proc -> {"idle"} \cup Lock!InWindow \cup Lock!Holding \cup Lock!Ended]
      /\ seen \in [Lock!Proc -> Pipeline \cup {Lock!NoLock, Lock!Corrupt}]
  BY DEF Lock!Init
<1> QED
  BY <1>1, <1>2, <1>3 DEF Lock!Init, Lock!TypeOK

LEMMA LockTypeStep ==
  ASSUME Provided, Lock!TypeOK, [Lock!Next]_(Lock!vars)
  PROVE  Lock!TypeOK'
<1> USE DEF Provided, Lock!TypeOK, Lock!FileState
<1>1. ASSUME NEW p \in Pipeline, Lock!Launch(p) PROVE Lock!TypeOK'
  BY <1>1 DEF Lock!Launch
<1>2. ASSUME NEW p \in Pipeline, Lock!CreateExclusive(p) PROVE Lock!TypeOK'
  <2>1. tries'[p] \in 0 .. MaxAttempts
    BY <1>2 DEF Lock!CreateExclusive
  <2>2. tries' \in [Pipeline -> 0 .. MaxAttempts]
    BY <1>2, <2>1 DEF Lock!CreateExclusive
  <2>3. file' \in Lock!FileState
    <3>1. [creator |-> p, written |-> FALSE] \in Lock!FileState
      OBVIOUS
    <3>2. file' \in {file, [creator |-> p, written |-> FALSE]}
      BY <1>2 DEF Lock!CreateExclusive
    <3> QED
      BY <3>1, <3>2
  <2>4. step' \in [Lock!Proc -> {"idle"} \cup Lock!InWindow \cup Lock!Holding \cup Lock!Ended]
    BY <1>2 DEF Lock!CreateExclusive
  <2> QED
    BY <1>2, <2>2, <2>3, <2>4 DEF Lock!CreateExclusive
<1>3. ASSUME NEW p \in Pipeline, Lock!GiveUp(p) PROVE Lock!TypeOK'
  BY <1>3 DEF Lock!GiveUp
<1>4. ASSUME NEW p \in Pipeline, Lock!WriteRecord(p) PROVE Lock!TypeOK'
  BY <1>4 DEF Lock!WriteRecord
<1>5. ASSUME NEW p \in Lock!Proc, Lock!ReadLock(p) PROVE Lock!TypeOK'
  BY <1>5 DEF Lock!ReadLock, Lock!OnDisk, Lock!AfterCheck
<1>6. ASSUME NEW p \in Lock!Proc, Lock!ProbeOwner(p) PROVE Lock!TypeOK'
  BY <1>6 DEF Lock!ProbeOwner
<1>7. ASSUME NEW p \in Lock!Proc, Lock!BreakStale(p) PROVE Lock!TypeOK'
  BY <1>7 DEF Lock!BreakStale, Lock!AfterCheck
<1>8. ASSUME NEW p \in Pipeline, Lock!StartRelease(p) PROVE Lock!TypeOK'
  BY <1>8 DEF Lock!StartRelease
<1>9. ASSUME NEW p \in Pipeline, Lock!ReleaseRead(p) PROVE Lock!TypeOK'
  BY <1>9 DEF Lock!ReleaseRead
<1>10. ASSUME NEW p \in Pipeline, Lock!ReleaseUnlink(p) PROVE Lock!TypeOK'
  BY <1>10 DEF Lock!ReleaseUnlink
<1>11. ASSUME NEW p \in Pipeline, Lock!Crash(p) PROVE Lock!TypeOK'
  BY <1>11 DEF Lock!Crash
<1>12. ASSUME NEW p \in Pipeline, Lock!ReusePid(p) PROVE Lock!TypeOK'
  BY <1>12 DEF Lock!ReusePid
<1>13. ASSUME NEW c \in Checker, Lock!StartCheck(c) PROVE Lock!TypeOK'
  BY <1>13 DEF Lock!StartCheck
<1>14. CASE UNCHANGED Lock!vars
  BY <1>14 DEF Lock!vars
<1> QED
  BY <1>1, <1>2, <1>3, <1>4, <1>5, <1>6, <1>7, <1>8, <1>9, <1>10, <1>11, <1>12,
     <1>13, <1>14
     DEF Lock!Next, Lock!PipelineStep, Lock!LockCode, Lock!CheckerStep, Lock!CheckStep

\* The lock's variables keep their types under any interleaving whatever.
THEOREM LockTyped ==
  ASSUME Provided
  PROVE  Lock!Spec => []Lock!TypeOK
<1>1. Lock!Init => Lock!TypeOK
  BY LockTypeInit
<1>2. Lock!TypeOK /\ [Lock!Next]_(Lock!vars) => Lock!TypeOK'
  BY LockTypeStep
<1> QED
  BY <1>1, <1>2, PTL DEF Lock!Spec

-----------------------------------------------------------------------------

LEMMA SerialInit == ASSUME Provided, Lock!Init PROVE IInv
  BY LockTypeInit
     DEF Provided, Lock!Init, IInv, Lock!Undisturbed, Lock!Busy, Lock!HolderOnDisk,
         WriterOnDisk, CheckCurrent, CreatorLaunched

LEMMA SerialStep == ASSUME Provided, IInv, [Lock!SerialNext]_(Lock!vars) PROVE IInv'
<1> DEFINE Rest == Lock!HolderOnDisk /\ WriterOnDisk /\ CheckCurrent /\ CreatorLaunched
<1>1. Lock!TypeOK'
  BY LockTypeStep DEF IInv, Lock!SerialNext
<1>2. CASE UNCHANGED Lock!vars
  BY <1>1, <1>2 DEF Lock!vars, IInv, Lock!Undisturbed, Lock!Busy, Lock!HolderOnDisk,
     WriterOnDisk,
     CheckCurrent, CreatorLaunched, Lock!OnDisk
<1>3. CASE Lock!Next /\ Lock!Undisturbed'
  <2> USE <1>1, <1>3 DEF Provided, IInv, Lock!TypeOK, Lock!FileState, Lock!Undisturbed,
     Lock!Busy,
          Lock!HolderOnDisk, WriterOnDisk, CheckCurrent, CreatorLaunched, Lock!OnDisk
  <2>1. ASSUME NEW p \in Pipeline, Lock!Launch(p) PROVE Rest'
    BY <2>1 DEF Lock!Launch
  <2>2. ASSUME NEW p \in Pipeline, Lock!CreateExclusive(p) PROVE Rest'
    <3>1. CASE file = Lock!NoFile
      <4>1. /\ file' = [creator |-> p, written |-> FALSE]
            /\ step' = [step EXCEPT ![p] = "write"]
            /\ seen' = seen
        BY <2>2, <3>1 DEF Lock!CreateExclusive
      <4>2. Lock!HolderOnDisk'
        BY <3>1, <4>1
      <4>3. WriterOnDisk' /\ CreatorLaunched'
        BY <2>2, <4>1
      <4>4. CheckCurrent'
        BY <4>1
      <4> QED
        BY <4>2, <4>3, <4>4
    <3>2. CASE file # Lock!NoFile
      BY <2>2, <3>2 DEF Lock!CreateExclusive
    <3> QED
      BY <3>1, <3>2
  <2>3. ASSUME NEW p \in Pipeline, Lock!GiveUp(p) PROVE Rest'
    BY <2>3 DEF Lock!GiveUp
  <2>4. ASSUME NEW p \in Pipeline, Lock!WriteRecord(p) PROVE Rest'
    <3>1. file = [creator |-> p, written |-> FALSE]
      BY <2>4 DEF Lock!WriteRecord
    <3>2. file' = [creator |-> p, written |-> TRUE]
      BY <2>4, <3>1 DEF Lock!WriteRecord
    <3>3. step' = [step EXCEPT ![p] = "hold"] /\ seen' = seen
      BY <2>4 DEF Lock!WriteRecord
    <3>4. \A q \in Lock!Proc : Lock!Busy(q) => q = p
      BY <2>4 DEF Lock!WriteRecord
    <3>5. Lock!HolderOnDisk'
      BY <3>1, <3>2, <3>3
    <3>6. WriterOnDisk' /\ CreatorLaunched'
      BY <3>2, <3>3, <3>4
    <3>7. CheckCurrent'
      BY <3>3, <3>4
    <3> QED
      BY <3>5, <3>6, <3>7
  <2>5. ASSUME NEW p \in Lock!Proc, Lock!ReadLock(p) PROVE Rest'
    BY <2>5 DEF Lock!ReadLock, Lock!AfterCheck
  <2>6. ASSUME NEW p \in Lock!Proc, Lock!ProbeOwner(p) PROVE Rest'
    BY <2>6 DEF Lock!ProbeOwner, Lock!IsStale, Lock!PidAlive
  <2>7. ASSUME NEW p \in Lock!Proc, Lock!BreakStale(p) PROVE Rest'
    BY <2>7 DEF Lock!BreakStale, Lock!AfterCheck
  <2>8. ASSUME NEW p \in Pipeline, Lock!StartRelease(p) PROVE Rest'
    BY <2>8 DEF Lock!StartRelease
  <2>9. ASSUME NEW p \in Pipeline, Lock!ReleaseRead(p) PROVE Rest'
    BY <2>9 DEF Lock!ReleaseRead
  <2>10. ASSUME NEW p \in Pipeline, Lock!ReleaseUnlink(p) PROVE Rest'
    BY <2>10 DEF Lock!ReleaseUnlink
  <2>11. ASSUME NEW p \in Pipeline, Lock!Crash(p) PROVE Rest'
    BY <2>11 DEF Lock!Crash
  <2>12. ASSUME NEW p \in Pipeline, Lock!ReusePid(p) PROVE Rest'
    BY <2>12 DEF Lock!ReusePid
  <2>13. ASSUME NEW c \in Checker, Lock!StartCheck(c) PROVE Rest'
    BY <2>13 DEF Lock!StartCheck
  <2>14. Rest'
    BY <2>1, <2>2, <2>3, <2>4, <2>5, <2>6, <2>7, <2>8, <2>9, <2>10, <2>11, <2>12,
       <2>13 DEF Lock!Next, Lock!PipelineStep, Lock!LockCode, Lock!CheckerStep,
       Lock!CheckStep
  <2> QED
    BY <2>14
<1> QED
  BY <1>2, <1>3 DEF Lock!SerialNext

LEMMA SerialInvariant == ASSUME Provided PROVE Lock!SerialSpec => []IInv
<1>1. Lock!Init => IInv
  BY SerialInit
<1>2. IInv /\ [Lock!SerialNext]_(Lock!vars) => IInv'
  BY SerialStep
<1> QED
  BY <1>1, <1>2, PTL DEF Lock!SerialSpec

\* Two pipelines never hold the run lock together, for any number of pipelines
\* and handlers, while acquisitions, checks and releases do not overlap.
THEOREM SerialMutualExclusion ==
  ASSUME Provided
  PROVE  Lock!SerialSpec => []Lock!MutualExclusion
<1>1. IInv => Lock!MutualExclusion
  BY DEF IInv, Lock!HolderOnDisk, Lock!MutualExclusion
<1>2. Lock!SerialSpec => []IInv
  BY SerialInvariant
<1> QED
  BY <1>1, <1>2, PTL

\* Whoever holds the lock, its complete record is what every check reads.
THEOREM SerialHolderOnDisk ==
  ASSUME Provided
  PROVE  Lock!SerialSpec => []Lock!HolderOnDisk
<1>1. IInv => Lock!HolderOnDisk
  BY DEF IInv
<1>2. Lock!SerialSpec => []IInv
  BY SerialInvariant
<1> QED
  BY <1>1, <1>2, PTL

-----------------------------------------------------------------------------

LEMMA OwnerHolds ==
  ASSUME Lock!MutualExclusion, NEW p \in Pipeline, step[p] \in Lock!Holding
  PROVE  Lock!Owner = p
  BY DEF Lock!MutualExclusion, Lock!Owner

LEMMA FreeIsNobody ==
  ASSUME \A p \in Pipeline : step[p] \notin Lock!Holding
  PROVE  Lock!Owner = Nobody
  BY DEF Lock!Owner

\* A step of the system is a step of one process.
LEMMA OneMoves ==
  ASSUME Provided, Lock!TypeOK, [Lock!Next]_(Lock!vars)
  PROVE  \E r \in Lock!Proc \cup {Nobody} : \A q \in Lock!Proc : q # r => step'[q] = step[q]
<1> USE DEF Lock!TypeOK
<1>1. ASSUME NEW p \in Pipeline, Lock!PipelineStep(p)
      PROVE  \A q \in Lock!Proc : q # p => step'[q] = step[q]
  BY <1>1 DEF Lock!PipelineStep, Lock!Launch, Lock!StartRelease, Lock!LockCode,
     Lock!CreateExclusive, Lock!GiveUp,
     Lock!WriteRecord, Lock!CheckStep, Lock!ReadLock, Lock!ProbeOwner, Lock!BreakStale,
     Lock!ReleaseRead, Lock!ReleaseUnlink
<1>2. ASSUME NEW p \in Pipeline, Lock!Crash(p) \/ Lock!ReusePid(p)
      PROVE  \A q \in Lock!Proc : q # p => step'[q] = step[q]
  BY <1>2 DEF Lock!Crash, Lock!ReusePid
<1>3. ASSUME NEW c \in Checker, Lock!CheckerStep(c)
      PROVE  \A q \in Lock!Proc : q # c => step'[q] = step[q]
  BY <1>3 DEF Lock!CheckerStep, Lock!StartCheck, Lock!CheckStep, Lock!ReadLock,
     Lock!ProbeOwner, Lock!BreakStale
<1>4. CASE UNCHANGED Lock!vars
  BY <1>4 DEF Lock!vars
<1> QED
  BY <1>1, <1>2, <1>3, <1>4 DEF Lock!Next

\* Free of overlaps, the lock file implements the abstract mutex: every step
\* takes a free lock, gives up an owned one, or changes no owner.
THEOREM SerialImplementsMutex ==
  ASSUME Provided
  PROVE  Lock!SerialSpec => Lock!ImplementsMutex
<1>1. Lock!Init => Lock!LockMutex!Init
  BY FreeIsNobody DEF Lock!Init, Lock!LockMutex!Init
<1>2. IInv /\ IInv' /\ [Lock!SerialNext]_(Lock!vars) => [Lock!LockMutex!Next]_(Lock!Owner)
  <2> SUFFICES ASSUME IInv, IInv', [Lock!SerialNext]_(Lock!vars)
               PROVE  Lock!LockMutex!Next \/ Lock!Owner' = Lock!Owner
    OBVIOUS
  <2>1. Lock!MutualExclusion /\ Lock!MutualExclusion'
    BY DEF IInv, Lock!HolderOnDisk, Lock!MutualExclusion
  <2>2. Lock!Owner = Nobody \/ \E p \in Pipeline : step[p] \in Lock!Holding /\ Lock!Owner = p
    BY <2>1, OwnerHolds, FreeIsNobody
  <2>3. ASSUME NEW p \in Pipeline, step'[p] \in Lock!Holding
        PROVE  Lock!Owner' = p
    BY <2>1, <2>3 DEF Lock!MutualExclusion, Lock!Owner
  <2>4. (\A p \in Pipeline : step'[p] \notin Lock!Holding) => Lock!Owner' = Nobody
    BY DEF Lock!Owner
  <2>5. CASE \A p \in Pipeline : step'[p] \notin Lock!Holding
    BY <2>2, <2>4, <2>5 DEF Lock!LockMutex!Next, Lock!LockMutex!Drop
  <2>6. ASSUME NEW q \in Pipeline, step'[q] \in Lock!Holding
        PROVE  Lock!LockMutex!Next \/ Lock!Owner' = Lock!Owner
    <3>1. Lock!Owner' = q
      BY <2>3, <2>6
    <3>2. CASE Lock!Owner = Nobody
      BY <3>1, <3>2 DEF Lock!LockMutex!Next, Lock!LockMutex!Take
    <3>3. ASSUME NEW p \in Pipeline, step[p] \in Lock!Holding, Lock!Owner = p, p # q
          PROVE  FALSE
      <4>1. step[q] \notin Lock!Holding /\ step'[p] \notin Lock!Holding
        BY <2>1, <2>6, <3>3 DEF Lock!MutualExclusion
      <4>2. PICK r \in Lock!Proc \cup {Nobody} : \A x \in Lock!Proc : x # r => step'[x] = step[x]
        BY OneMoves DEF IInv, Lock!SerialNext
      <4> QED
        BY <2>6, <3>3, <4>1, <4>2
    <3> QED
      BY <2>2, <3>1, <3>2, <3>3
  <2> QED
    BY <2>5, <2>6
<1>3. Lock!SerialSpec => []IInv
  BY SerialInvariant
<1> QED
  BY <1>1, <1>2, <1>3, PTL DEF Lock!SerialSpec, Lock!ImplementsMutex, Lock!LockMutex!Spec

-----------------------------------------------------------------------------
(* Any interleaving: the record of a living pipeline *)

\* An owner that was read has been launched, one about to be unlinked has ended,
\* and only a check remembers an owner.
SeenKnown ==
  /\ CreatorLaunched
  /\ \A p \in Lock!Proc :
       /\ step[p] \notin {"probe", "unlink"} => seen[p] = Lock!NoLock
       /\ seen[p] \in Pipeline => step[seen[p]] # "idle"
       /\ (step[p] = "unlink" /\ seen[p] \in Pipeline) => step[seen[p]] \in Lock!Ended

\* A pipeline is launched once and ends once.
LEMMA EndsOnce ==
  ASSUME Provided, Lock!TypeOK, Lock!Next, NEW q \in Pipeline
  PROVE  /\ step[q] # "idle" => step'[q] # "idle"
         /\ step[q] \in Lock!Ended => step'[q] \in Lock!Ended
<1> USE DEF Provided, Lock!TypeOK
<1>1. ASSUME NEW p \in Pipeline,
             Lock!Launch(p) \/ Lock!CreateExclusive(p) \/ Lock!GiveUp(p) \/ Lock!WriteRecord(p)
      PROVE  /\ step[q] # "idle" => step'[q] # "idle"
             /\ step[q] \in Lock!Ended => step'[q] \in Lock!Ended
  BY <1>1 DEF Lock!Launch, Lock!CreateExclusive, Lock!GiveUp, Lock!WriteRecord
<1>2. ASSUME NEW p \in Pipeline,
             Lock!StartRelease(p) \/ Lock!ReleaseRead(p) \/ Lock!ReleaseUnlink(p)
      PROVE  /\ step[q] # "idle" => step'[q] # "idle"
             /\ step[q] \in Lock!Ended => step'[q] \in Lock!Ended
  BY <1>2 DEF Lock!StartRelease, Lock!ReleaseRead, Lock!ReleaseUnlink
<1>3. ASSUME NEW p \in Pipeline, Lock!Crash(p) \/ Lock!ReusePid(p)
      PROVE  /\ step[q] # "idle" => step'[q] # "idle"
             /\ step[q] \in Lock!Ended => step'[q] \in Lock!Ended
  BY <1>3 DEF Lock!Crash, Lock!ReusePid
<1>4. ASSUME NEW p \in Lock!Proc,
             Lock!ReadLock(p) \/ Lock!ProbeOwner(p) \/ Lock!BreakStale(p)
      PROVE  /\ step[q] # "idle" => step'[q] # "idle"
             /\ step[q] \in Lock!Ended => step'[q] \in Lock!Ended
  BY <1>4 DEF Lock!ReadLock, Lock!ProbeOwner, Lock!BreakStale, Lock!AfterCheck
<1>5. ASSUME NEW c \in Checker, Lock!StartCheck(c)
      PROVE  /\ step[q] # "idle" => step'[q] # "idle"
             /\ step[q] \in Lock!Ended => step'[q] \in Lock!Ended
  BY <1>5 DEF Lock!StartCheck
<1> QED
  BY <1>1, <1>2, <1>3, <1>4, <1>5 DEF Lock!Next, Lock!PipelineStep, Lock!LockCode,
     Lock!CheckerStep, Lock!CheckStep

\* A process that forgot, or moved on with, what it had seen.
LEMMA SeenStep ==
  ASSUME Provided, Lock!TypeOK, SeenKnown, Lock!Next, CreatorLaunched', NEW p \in Lock!Proc,
         \A o \in Lock!Proc : o # p => step'[o] = step[o] /\ seen'[o] = seen[o],
         \/ seen'[p] = Lock!NoLock
         \/ /\ step'[p] = "probe" /\ seen'[p] = Lock!OnDisk
         \/ /\ step[p] \in {"probe", "unlink"} /\ step'[p] = "unlink" /\ seen'[p] = seen[p]
            /\ seen[p] \in Pipeline => step[seen[p]] \in Lock!Ended
  PROVE  SeenKnown'
<1> USE DEF Provided, Lock!TypeOK
<1>1. \A q \in Pipeline : /\ step[q] # "idle" => step'[q] # "idle"
                          /\ step[q] \in Lock!Ended => step'[q] \in Lock!Ended
  BY EndsOnce
<1>2. ASSUME NEW o \in Lock!Proc
      PROVE  /\ step'[o] \notin {"probe", "unlink"} => seen'[o] = Lock!NoLock
             /\ seen'[o] \in Pipeline => step'[seen'[o]] # "idle"
             /\ (step'[o] = "unlink" /\ seen'[o] \in Pipeline) => step'[seen'[o]] \in Lock!Ended
  <2>1. CASE o # p
    BY <1>1, <2>1 DEF SeenKnown
  <2>2. CASE o = p /\ seen'[p] = Lock!NoLock
    BY <2>2
  <2>3. CASE o = p /\ step'[p] = "probe" /\ seen'[p] = Lock!OnDisk
    <3>1. Lock!OnDisk \in Pipeline => step[Lock!OnDisk] # "idle"
      BY DEF SeenKnown, CreatorLaunched, Lock!OnDisk, Lock!FileState
    <3> QED
      BY <1>1, <2>3, <3>1
  <2>4. CASE /\ o = p /\ step[p] \in {"probe", "unlink"} /\ step'[p] = "unlink" /\ seen'[p] = seen[p]
             /\ seen[p] \in Pipeline => step[seen[p]] \in Lock!Ended
    BY <1>1, <2>4 DEF SeenKnown
  <2> QED
    BY <2>1, <2>2, <2>3, <2>4
<1> QED
  BY <1>2 DEF SeenKnown

LEMMA SeenKept ==
  ASSUME Provided, Lock!TypeOK, SeenKnown, [Lock!Next]_(Lock!vars)
  PROVE  SeenKnown'
<1> USE DEF Provided, Lock!TypeOK
<1>1. CASE UNCHANGED Lock!vars
  BY <1>1 DEF Lock!vars, SeenKnown, CreatorLaunched
<1>2. CASE Lock!Next
  <2> USE <1>2
  <2>1. ASSUME file' = file \/ file' = Lock!NoFile
        PROVE  CreatorLaunched'
    <3>1. CASE file' = Lock!NoFile
      BY <3>1 DEF CreatorLaunched
    <3>2. CASE file' = file /\ file # Lock!NoFile
      BY <3>2, EndsOnce DEF SeenKnown, CreatorLaunched, Lock!FileState
    <3> QED
      BY <2>1, <3>1, <3>2 DEF CreatorLaunched
  <2>2. ASSUME NEW p \in Pipeline,
               Lock!Launch(p) \/ Lock!GiveUp(p) \/ Lock!StartRelease(p) \/ Lock!ReleaseRead(p)
                                     \/ Lock!ReleaseUnlink(p)
        PROVE  SeenKnown'
    <3>1. /\ \A o \in Lock!Proc : o # p => step'[o] = step[o] /\ seen'[o] = seen[o]
          /\ seen'[p] = Lock!NoLock
      BY <2>2 DEF Lock!Launch, Lock!GiveUp, Lock!StartRelease, Lock!ReleaseRead,
         Lock!ReleaseUnlink, SeenKnown
    <3>2. CreatorLaunched'
      BY <2>1, <2>2 DEF Lock!Launch, Lock!GiveUp, Lock!StartRelease, Lock!ReleaseRead,
         Lock!ReleaseUnlink
    <3> QED
      BY <3>1, <3>2, SeenStep
  <2>3. ASSUME NEW p \in Pipeline, Lock!CreateExclusive(p) PROVE SeenKnown'
    <3>1. /\ \A o \in Lock!Proc : o # p => step'[o] = step[o] /\ seen'[o] = seen[o]
          /\ seen'[p] = Lock!NoLock
      BY <2>3 DEF Lock!CreateExclusive, SeenKnown
    <3>2. CreatorLaunched'
      <4>1. CASE file = Lock!NoFile
        BY <2>3, <4>1 DEF Lock!CreateExclusive, CreatorLaunched
      <4>2. CASE file # Lock!NoFile
        BY <2>1, <2>3, <4>2 DEF Lock!CreateExclusive
      <4> QED
        BY <4>1, <4>2
    <3> QED
      BY <3>1, <3>2, SeenStep
  <2>4. ASSUME NEW p \in Pipeline, Lock!WriteRecord(p) PROVE SeenKnown'
    <3>1. /\ \A o \in Lock!Proc : o # p => step'[o] = step[o] /\ seen'[o] = seen[o]
          /\ seen'[p] = Lock!NoLock
      BY <2>4 DEF Lock!WriteRecord, SeenKnown
    <3>2. CreatorLaunched'
      <4>1. CASE file.creator # p
        BY <2>1, <2>4, <4>1 DEF Lock!WriteRecord
      <4>2. CASE file.creator = p
        BY <2>4, <4>2 DEF Lock!WriteRecord, CreatorLaunched, Lock!FileState
      <4> QED
        BY <4>1, <4>2
    <3> QED
      BY <3>1, <3>2, SeenStep
  <2>5. ASSUME NEW p \in Pipeline, Lock!Crash(p) PROVE SeenKnown'
    <3>1. /\ \A o \in Lock!Proc : o # p => step'[o] = step[o] /\ seen'[o] = seen[o]
          /\ seen'[p] = Lock!NoLock
      BY <2>5 DEF Lock!Crash
    <3> QED
      BY <2>1, <2>5, <3>1, SeenStep DEF Lock!Crash
  <2>6. ASSUME NEW p \in Pipeline, Lock!ReusePid(p) PROVE SeenKnown'
    BY <2>6 DEF Lock!ReusePid, SeenKnown, CreatorLaunched
  <2>7. ASSUME NEW c \in Checker, Lock!StartCheck(c) PROVE SeenKnown'
    <3>1. /\ \A o \in Lock!Proc : o # c => step'[o] = step[o] /\ seen'[o] = seen[o]
          /\ seen'[c] = Lock!NoLock
      BY <2>7 DEF Lock!StartCheck, SeenKnown
    <3> QED
      BY <2>1, <2>7, <3>1, SeenStep DEF Lock!StartCheck
  <2>8. ASSUME NEW p \in Lock!Proc, Lock!ReadLock(p) PROVE SeenKnown'
    <3>1. /\ \A o \in Lock!Proc : o # p => step'[o] = step[o] /\ seen'[o] = seen[o]
          /\ seen'[p] = Lock!NoLock \/ (step'[p] = "probe" /\ seen'[p] = Lock!OnDisk)
      BY <2>8 DEF Lock!ReadLock
    <3> QED
      BY <2>1, <2>8, <3>1, SeenStep DEF Lock!ReadLock
  <2>9. ASSUME NEW p \in Lock!Proc, Lock!ProbeOwner(p) PROVE SeenKnown'
    <3>1. \A o \in Lock!Proc : o # p => step'[o] = step[o] /\ seen'[o] = seen[o]
      BY <2>9 DEF Lock!ProbeOwner
    <3>2. CreatorLaunched'
      BY <2>1, <2>9 DEF Lock!ProbeOwner
    <3>3. CASE Lock!IsStale(seen[p])
      <4>1. step[p] = "probe" /\ step'[p] = "unlink" /\ seen'[p] = seen[p]
        BY <2>9, <3>3 DEF Lock!ProbeOwner
      <4>2. seen[p] \in Pipeline => step[seen[p]] \in Lock!Ended
        BY <3>3 DEF Lock!IsStale, Lock!PidAlive, SeenKnown
      <4> QED
        BY <3>1, <3>2, <4>1, <4>2, SeenStep
    <3>4. CASE ~Lock!IsStale(seen[p])
      BY <2>9, <3>1, <3>2, <3>4, SeenStep DEF Lock!ProbeOwner
    <3> QED
      BY <3>3, <3>4
  <2>10. ASSUME NEW p \in Lock!Proc, Lock!BreakStale(p) PROVE SeenKnown'
    <3>1. /\ \A o \in Lock!Proc : o # p => step'[o] = step[o] /\ seen'[o] = seen[o]
          /\ seen'[p] = Lock!NoLock
      BY <2>10 DEF Lock!BreakStale
    <3> QED
      BY <2>1, <2>10, <3>1, SeenStep DEF Lock!BreakStale
  <2> QED
    BY <2>2, <2>3, <2>4, <2>5, <2>6, <2>7, <2>8, <2>9, <2>10
       DEF Lock!Next, Lock!PipelineStep, Lock!LockCode, Lock!CheckerStep, Lock!CheckStep
<1> QED
  BY <1>1, <1>2

\* Under every interleaving, who has read a record and goes on to remove it has read
\* that of a dead pipeline.  Of the record that stands at the path by the time of the
\* unlink, when that is another one, it says nothing: that one may be a holder's.
THEOREM LiveRecord ==
  ASSUME Provided
  PROVE  Lock!Spec => Lock!LiveRecordKept
<1>1. Lock!Init => SeenKnown
  BY DEF Provided, Lock!Init, SeenKnown, CreatorLaunched
<1>2. Lock!TypeOK /\ SeenKnown =>
        \A p \in Lock!Proc : (Lock!Removes(p) /\ file.written /\ seen[p] = file.creator)
                          => (p = file.creator \/ ~Lock!Running(file.creator))
  <2> SUFFICES ASSUME Lock!TypeOK, SeenKnown, NEW p \in Lock!Proc, Lock!Removes(p),
                      file.written,
                      seen[p] = file.creator
               PROVE  ~Lock!Running(file.creator)
    OBVIOUS
  <2>1. file.creator \in Pipeline
    BY DEF Lock!TypeOK, Lock!FileState
  <2>2. step[p] = "unlink"
    BY <2>1 DEF Provided, SeenKnown, Lock!Removes
  <2> QED
    BY <2>1, <2>2 DEF SeenKnown
<1>3. Lock!Init => Lock!TypeOK
  BY LockTypeInit
<1>4. Lock!TypeOK /\ SeenKnown /\ [Lock!Next]_(Lock!vars) => Lock!TypeOK' /\ SeenKnown'
  BY LockTypeStep, SeenKept
<1> QED
  BY <1>1, <1>2, <1>3, <1>4, PTL DEF Lock!Spec, Lock!LiveRecordKept
=============================================================================
