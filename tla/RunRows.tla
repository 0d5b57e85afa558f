------------------------------ MODULE RunRows ------------------------------
(***************************************************************************)
(* The life of a research run across the processes that share its row in   *)
(* the runs table: the chat handlers start_research and stop_run           *)
(* (orchestrator/conversation.py), the transient pipeline unit they launch *)
(* (ops/gpu_pipeline.py) and the reaper (orchestrator/run_reaper.py).      *)
(*                                                                         *)
(* Handlers are Bolt listener threads: two of one Slack thread may run at  *)
(* once.  The run lock is taken in one step here; RunLock has its system   *)
(* calls.  At most one pipeline of a Slack thread lives, for systemd       *)
(* refuses a second live unit of one name.                                 *)
(***************************************************************************)
EXTENDS Naturals, FiniteSets

CONSTANTS
  Thread,       \* Slack threads, each with one directive
  Handler,      \* tool calls being handled
  ThreadOf,     \* the thread each handler works for
  MaxLaunches,  \* bound on the units launched
  MaxRestarts,  \* bound on the restarts of the orchestrator
  MaxMisses,    \* bound on the reaper's ticks that fail
  TickMayStall, \* TRUE if a run may end between a tick's list and its probe
  Grace,        \* ticks in a grace period: 900 s over 300 s in the code
  None

ASSUME ThreadAssumption ==
  /\ ThreadOf \in [Handler -> Thread]
  /\ None \notin Thread \cup Handler

ASSUME BoundAssumption ==
  /\ {MaxLaunches, MaxRestarts, MaxMisses} \subseteq Nat
  /\ Grace \in Nat \ {0}

VARIABLES
  row,       \* the status of each thread's row in runs
  pipe,      \* where each thread's pipeline process is
  launcher,  \* the handler that launched it
  lock,      \* the thread the run lock names
  session,   \* whose research runs in the worker's tmux session
  status,    \* whose run the shared pipeline_status.json describes
  pc,        \* where each handler is
  reaping,   \* the candidates left in the reaper's tick, and the one being reaped
  dead,      \* the reaper's first_dead, as the ticks since: 0 when not seen dead
  budget     \* launches, restarts and missed ticks so far

vars ==
  <<row, pipe, launcher, lock, session, status, pc, reaping, dead, budget>>

-----------------------------------------------------------------------------
(* Types *)

Final == {"completed", "stopped"}
Live(t) == pipe[t] # "none"

NoReap == [tick |-> FALSE, left |-> {}, post |-> None]

TypeOK ==
  /\ row \in [Thread -> {"none", "running", "failed"} \cup Final]
  /\ pipe \in [Thread -> {"none", "start", "up", "run", "close"}]
  /\ launcher \in [Thread -> Handler \cup {None}]
  /\ {lock, session, status} \subseteq Thread \cup {None}
  /\ pc \in [Handler -> {"idle", "checked", "launch", "create", "undo", "cancel"}]
  /\ reaping \in [tick : BOOLEAN, left : SUBSET Thread, post : Thread \cup {None}]
  /\ dead \in [Thread -> 0 .. Grace]
  /\ budget \in [launches : 0 .. MaxLaunches, restarts : 0 .. MaxRestarts,
                misses : 0 .. MaxMisses]

-----------------------------------------------------------------------------
(* What the code reads *)

Goto(h, label) == pc' = [pc EXCEPT ![h] = label]

\* check_lock: a lock whose owner is gone is broken by whoever looks.
Stale == lock # None /\ ~Live(lock)
LockSeen == IF Stale THEN None ELSE lock

\* Handlers take seconds, a research session hours.
Quiet(t) == \A h \in Handler : ThreadOf[h] = t => pc[h] = "idle"

NoLateStart ==
  \A h \in Handler : row[ThreadOf[h]] = "running" => pc[h] \in {"idle", "cancel"}

\* A tick takes milliseconds from its list to its probe, unless it stalls.
Unlisted(t) == TickMayStall \/ t \notin reaping.left

Init ==
  /\ row = [t \in Thread |-> "none"]
  /\ pipe = [t \in Thread |-> "none"]
  /\ launcher = [t \in Thread |-> None]
  /\ lock = None
  /\ session = None
  /\ status = None
  /\ pc = [h \in Handler |-> "idle"]
  /\ reaping = NoReap
  /\ dead = [t \in Thread |-> 0]
  /\ budget = [launches |-> 0, restarts |-> 0, misses |-> 0]

-----------------------------------------------------------------------------
(* start_research *)

\* Faulty variant: a thread may start again once its run is no longer running.
CheckRowAnyEnded(h) ==
  /\ pc[h] = "idle"
  /\ budget.launches < MaxLaunches
  /\ row[ThreadOf[h]] # "running"
  /\ Goto(h, "checked")
  /\ UNCHANGED <<row, pipe, launcher, lock, session, status, reaping, dead, budget>>

\* Only a failed run may be started over.
CheckRow(h) ==
  /\ pc[h] = "idle"
  /\ budget.launches < MaxLaunches
  /\ row[ThreadOf[h]] \in {"none", "failed"}
  /\ Goto(h, "checked")
  /\ UNCHANGED <<row, pipe, launcher, lock, session, status, reaping, dead, budget>>

\* active_run_lock breaks a stale lock; a live one refuses the start.
CheckLock(h) ==
  /\ pc[h] = "checked"
  /\ lock' = LockSeen
  /\ Goto(h, IF LockSeen = None THEN "launch" ELSE "idle")
  /\ UNCHANGED <<row, pipe, launcher, session, status, reaping, dead, budget>>

\* systemd-run, which fails while the thread's unit is up.
Launch(h) ==
  LET t == ThreadOf[h]
  IN /\ pc[h] = "launch"
     /\ budget.launches < MaxLaunches
     /\ IF Live(t)
        THEN Goto(h, "idle") /\ UNCHANGED <<pipe, launcher, budget, status>>
        ELSE /\ pipe' = [pipe EXCEPT ![t] = "start"]
             /\ launcher' = [launcher EXCEPT ![t] = h]
             /\ status' = t
             /\ budget' = [budget EXCEPT !.launches = @ + 1]
             /\ Goto(h, "create")
     /\ UNCHANGED <<row, lock, session, reaping, dead>>

\* The bound on launches ends a handler that got this far.
LaunchBound(h) ==
  /\ pc[h] = "launch"
  /\ budget.launches = MaxLaunches
  /\ Goto(h, "idle")
  /\ UNCHANGED <<row, pipe, launcher, lock, session, status, reaping, dead, budget>>

\* Faulty variant: INSERT OR IGNORE, which keeps a failed row.
CreateRunIgnore(h) ==
  LET t == ThreadOf[h]
  IN /\ pc[h] = "create"
     /\ row' = [row EXCEPT ![t] = IF @ = "none" THEN "running" ELSE @]
     /\ Goto(h, "idle")
     /\ UNCHANGED <<pipe, launcher, lock, session, status, reaping, dead, budget>>

\* create_run(replace_failed=True): DELETE a failed row and INSERT, or the
\* primary key raises DuplicateRunError.
CreateRun(h) ==
  LET t == ThreadOf[h]
  IN /\ pc[h] = "create"
     /\ IF row[t] \in {"none", "failed"}
        THEN row' = [row EXCEPT ![t] = "running"] /\ Goto(h, "idle")
        ELSE row' = row /\ Goto(h, "undo")
     /\ UNCHANGED <<pipe, launcher, lock, session, status, reaping, dead, budget>>

\* stop_unit: SIGTERM to whatever runs under the unit's name, no finally block.
StopUnit(h) ==
  LET t == ThreadOf[h]
  IN /\ pc[h] = "undo"
     /\ pipe' = [pipe EXCEPT ![t] = "none"]
     /\ launcher' = [launcher EXCEPT ![t] = None]
     /\ Goto(h, "idle")
     /\ UNCHANGED <<row, lock, session, status, reaping, dead, budget>>

-----------------------------------------------------------------------------
(* stop_run *)

\* Faulty variant: whose run holds the worker is not asked.
CheckStopAny(h) ==
  /\ pc[h] = "idle"
  /\ row[ThreadOf[h]] = "running"
  /\ lock' = LockSeen
  /\ Goto(h, "cancel")
  /\ UNCHANGED <<row, pipe, launcher, session, status, reaping, dead, budget>>

\* Only the thread that owns the lock may cancel, or any if nobody owns it.
CheckStop(h) ==
  LET t == ThreadOf[h]
  IN /\ pc[h] = "idle"
     /\ row[t] = "running"
     /\ lock' = LockSeen
     /\ Goto(h, IF LockSeen \in {None, t} THEN "cancel" ELSE "idle")
     /\ UNCHANGED <<row, pipe, launcher, session, status, reaping, dead, budget>>

\* tmux kill-session on the one worker.
Cancel(h) ==
  /\ pc[h] = "cancel"
  /\ session' = None
  /\ Goto(h, "idle")
  /\ UNCHANGED <<row, pipe, launcher, lock, status, reaping, dead, budget>>

-----------------------------------------------------------------------------
(* The pipeline *)

Pipe(t, label) ==
  /\ pipe' = [pipe EXCEPT ![t] = label]
  /\ launcher' = [launcher EXCEPT ![t] = IF label = "none" THEN None ELSE @]

\* finalize_run_row: no row, nothing to finalize.
Finalize(t, outcome) ==
  row' = [row EXCEPT ![t] = IF @ = "none" THEN @ ELSE outcome]

TakeLock(t) ==
  /\ pipe[t] = "start"
  /\ LockSeen = None
  /\ lock' = t
  /\ Pipe(t, "up")
  /\ UNCHANGED <<row, session, status, pc, reaping, dead, budget>>

\* LockHeldError: the status file was written before the lock was tried.
Refused(t) ==
  /\ pipe[t] = "start"
  /\ LockSeen # None
  /\ Unlisted(t)
  /\ status' = t
  /\ Finalize(t, "failed")
  /\ Pipe(t, "none")
  /\ UNCHANGED <<lock, session, pc, reaping, dead, budget>>

\* Provision, bootstrap, run: a droplet left over makes the provision fail.
\* They take minutes, a cancel under way seconds.
StartSession(t) ==
  /\ pipe[t] = "up"
  /\ \A h \in Handler : pc[h] # "cancel"
  /\ session = None
  /\ session' = t
  /\ status' = t
  /\ Pipe(t, "run")
  /\ UNCHANGED <<row, lock, pc, reaping, dead, budget>>

\* The except branch before the session is up.
StartFails(t) ==
  /\ pipe[t] = "up"
  /\ status' = t
  /\ Finalize(t, "failed")
  /\ Pipe(t, "close")
  /\ UNCHANGED <<lock, session, pc, reaping, dead, budget>>

\* The session wrote its exit marker or was cancelled, results were fetched, and
\* the finally block finalizes the row; a cancelled one counts as stopped.
Finish(t) ==
  /\ pipe[t] = "run"
  /\ Quiet(t)
  /\ status' = t
  /\ \E outcome \in IF session = t THEN {"completed", "stopped", "failed"}
                    ELSE {"stopped", "failed"} : Finalize(t, outcome)
  /\ Pipe(t, "close")
  /\ UNCHANGED <<lock, session, pc, reaping, dead, budget>>

\* destroy and release_lock, the rest of the finally block.
Close(t) ==
  /\ pipe[t] = "close"
  /\ Unlisted(t)
  /\ session' = None
  /\ lock' = IF lock = t THEN None ELSE lock
  /\ Pipe(t, "none")
  /\ UNCHANGED <<row, status, pc, reaping, dead, budget>>

\* SIGKILL, out of memory, reboot: the row and the lock stay as they are.
Crash(t) ==
  /\ Live(t)
  /\ row[t] = "running" \/ Unlisted(t)
  /\ Pipe(t, "none")
  /\ UNCHANGED <<row, lock, session, status, pc, reaping, dead, budget>>

-----------------------------------------------------------------------------
(* The reaper *)

\* tick: the running rows; threads that are none forget their grace.  Ticks are
\* five minutes apart, so no start handler lasts from before the row was
\* created to the next tick.
ReaperList ==
  /\ ~reaping.tick
  /\ NoLateStart
  /\ reaping' = [tick |-> TRUE, left |-> {t \in Thread : row[t] = "running"},
                 post |-> None]
  /\ dead' = [t \in Thread |-> IF row[t] = "running" THEN dead[t] ELSE 0]
  /\ UNCHANGED <<row, pipe, launcher, lock, session, status, pc, budget>>

\* Faulty variant: the mark is set anew on every tick.
ReaperProbeAnew(t) ==
  /\ reaping.post = None
  /\ t \in reaping.left
  /\ reaping' = [reaping EXCEPT !.left = @ \ {t},
                   !.post = IF ~Live(t) /\ dead[t] = Grace THEN t ELSE None]
  /\ dead' = [dead EXCEPT ![t] = IF Live(t) THEN 0 ELSE 1]
  /\ UNCHANGED <<row, pipe, launcher, lock, session, status, pc, budget>>

\* Faulty variant: the grace is counted from the start of the run, unit probed or not.
ReaperProbeNever(t) ==
  /\ reaping.post = None
  /\ t \in reaping.left
  /\ reaping' = [reaping EXCEPT !.left = @ \ {t},
                   !.post = IF dead[t] = Grace THEN t ELSE None]
  /\ dead' = [dead EXCEPT ![t] = IF @ = Grace THEN @ ELSE @ + 1]
  /\ UNCHANGED <<row, pipe, launcher, lock, session, status, pc, budget>>

\* unit_active, then the grace.
ReaperProbe(t) ==
  /\ reaping.post = None
  /\ t \in reaping.left
  /\ reaping' = [reaping EXCEPT !.left = @ \ {t},
                   !.post = IF ~Live(t) /\ dead[t] = Grace THEN t ELSE None]
  /\ dead' = [dead EXCEPT ![t] =
                IF Live(t) THEN 0 ELSE IF @ = Grace THEN @ ELSE @ + 1]
  /\ UNCHANGED <<row, pipe, launcher, lock, session, status, pc, budget>>

\* The note is posted; then the row is updated, whatever it says by now.
ReaperFlip ==
  /\ reaping.post # None
  /\ row' = [row EXCEPT ![reaping.post] = "failed"]
  /\ dead' = [dead EXCEPT ![reaping.post] = 0]
  /\ reaping' = [reaping EXCEPT !.post = None]
  /\ UNCHANGED <<pipe, launcher, lock, session, status, pc, budget>>

\* The note cannot be posted: the whole reap is retried on the next tick.
SlackFails ==
  /\ reaping.post # None
  /\ reaping' = [reaping EXCEPT !.post = None]
  /\ UNCHANGED <<row, pipe, launcher, lock, session, status, pc, dead, budget>>

ReaperEnd ==
  /\ reaping.tick /\ reaping.left = {} /\ reaping.post = None
  /\ reaping' = NoReap
  /\ UNCHANGED <<row, pipe, launcher, lock, session, status, pc, dead, budget>>

\* A tick that could not read the database or probe a unit: five minutes more
\* for the threads already marked.
ReaperMiss ==
  /\ ~reaping.tick
  /\ NoLateStart
  /\ budget.misses < MaxMisses
  /\ budget' = [budget EXCEPT !.misses = @ + 1]
  /\ dead' = [t \in Thread |->
               IF dead[t] \in 1 .. Grace - 1 THEN dead[t] + 1 ELSE dead[t]]
  /\ UNCHANGED <<row, pipe, launcher, lock, session, status, pc, reaping>>

\* The orchestrator service is restarted: handlers and grace marks are lost.
Restart ==
  /\ budget.restarts < MaxRestarts
  /\ budget' = [budget EXCEPT !.restarts = @ + 1]
  /\ pc' = [h \in Handler |-> "idle"]
  /\ reaping' = NoReap
  /\ dead' = [t \in Thread |-> 0]
  /\ UNCHANGED <<row, pipe, launcher, lock, session, status>>

-----------------------------------------------------------------------------
HandlerStep(h) ==
  \/ CheckLock(h)
  \/ Launch(h)
  \/ LaunchBound(h)
  \/ CreateRun(h)
  \/ StopUnit(h)
  \/ Cancel(h)

PipeStep(t) ==
  \/ TakeLock(t)
  \/ Refused(t)
  \/ StartSession(t)
  \/ StartFails(t)
  \/ Finish(t)
  \/ Close(t)

ReaperStep == ReaperList \/ ReaperEnd \/ \E t \in Thread : ReaperProbe(t)

Next ==
  \/ \E h \in Handler : CheckRow(h) \/ CheckStop(h) \/ HandlerStep(h)
  \/ \E t \in Thread : PipeStep(t) \/ Crash(t)
  \/ ReaperStep \/ ReaperFlip \/ SlackFails \/ ReaperMiss
  \/ Restart

Spec == Init /\ [][Next]_vars

\* The reaper thread never dies and Slack does not refuse every note; a handler
\* that has begun ends.
FairSpec ==
  /\ Spec
  /\ \A h \in Handler : WF_vars(HandlerStep(h))
  /\ WF_vars(ReaperStep)
  /\ \A t \in Thread : SF_vars(ReaperFlip /\ reaping.post = t)

-----------------------------------------------------------------------------
(* Properties *)

\* A run that completed or was stopped stays so: no reap, refused pipeline or
\* second start turns its row, from which it is promoted, into a failed or
\* running one.
FinalRowStable == [][\A t \in Thread : row[t] \in Final => row'[t] = row[t]]_vars

\* The reaper never fails the row of a run whose pipeline is alive.
ReaperSparesLive ==
  [][\A t \in Thread : (ReaperFlip /\ reaping.post = t) => ~Live(t)]_vars

\* While a pipeline works and no handler of its thread is under way, its row
\* says running: only then can stop_run reach it. (Restarts aside.)
WorkingRunIsRecorded ==
  \A t \in Thread :
    (pipe[t] \in {"up", "run"} /\ Quiet(t) /\ budget.restarts = 0)
      => row[t] = "running"

\* A row left running by a dead pipeline does not brick its thread forever.
DeadRunResolved ==
  \A t \in Thread :
    (row[t] = "running" /\ ~Live(t)) ~> (row[t] # "running" \/ Live(t))

\* stop_run never kills the session of another thread's working run, also when
\* its own run ends and the other's begins after it looked at the lock.
CancelSparesOthers ==
  [][\A h \in Handler :
       (pc[h] = "cancel" /\ pc'[h] = "idle" /\ session # session')
         => (session = ThreadOf[h] \/ pipe[session] # "run")]_vars

-----------------------------------------------------------------------------
(* Statements of the source's comments that the code does not keep; the      *)
(* README names the comment and the configuration that shows it.             *)

\* A handler that lost a start race stops the pipeline it launched, no other.
StopOnlyOwnUnit ==
  [][\A h \in Handler :
       (pc[h] = "undo" /\ pc'[h] = "idle" /\ budget' = budget)
         => launcher[ThreadOf[h]] \in {h, None}]_vars

\* A refused pipeline touches nothing shared: while a session runs, the shared
\* status file describes it.
StatusOfTheRunning ==
  \A t \in Thread : (pipe[t] = "run" /\ session = t) => status = t
=============================================================================
