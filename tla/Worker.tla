------------------------------- MODULE Worker -------------------------------
(***************************************************************************)
(* The one GPU droplet: who creates it, who runs on it and who makes sure  *)
(* that it stops billing.  The pipelines (ops/gpu_pipeline.py, through     *)
(* ops/gpu_worker/gpu_worker.sh) and the hourly watchdog                   *)
(* (ops/gpu_watchdog.py) know of the droplet through one file, worker.env, *)
(* and every subcommand reads that file anew.                              *)
(*                                                                         *)
(* The pipelines exclude each other by the run lock, which is the mutex of *)
(* module Mutex here; a dead one loses it.  The watchdog takes no lock.    *)
(***************************************************************************)
EXTENDS Naturals, FiniteSets

CONSTANTS
  Pipe,          \* executions of the pipeline
  Droplet,       \* droplets the account may ever have
  Losses,        \* which failures may happen
  TickMayStall,  \* TRUE if worker.env may be written between doctl's answer to the
                 \* watchdog and the removal of the file that follows it
  None

ASSUME NoneAssumption == None \notin Pipe \cup Droplet

ASSUME LossAssumption ==
  /\ Losses \subseteq
       {"crash", "create", "fetch", "delete", "flake", "recheck", "ssh"}
  /\ TickMayStall \in BOOLEAN

VARIABLES
  drop,     \* what each droplet is
  old,      \* the droplets older than the watchdog's --max-hours
  file,     \* the droplet worker.env names
  session,  \* whose research runs in each droplet's tmux session
  log,      \* the exit trailer in each droplet's run log
  marker,   \* the exit trailer each pipeline's own session wrote
  row,      \* what each pipeline wrote into its run row
  pc,       \* where each pipeline is
  job,      \* what it remembers
  watch     \* the watchdog's tick

vars == <<drop, old, file, session, log, marker, row, pc, job, watch>>

-----------------------------------------------------------------------------
(* Types *)

\* "absent": there is no run log; "none": it has no exit trailer yet.
Trailer == {"none", "ok", "bad"}
Billing == {"up", "off"}
Resting == {"idle", "done", "dead"}

\* id: the DROPLET_ID of the subcommand under way; exit: the exit code read.
Job == [id : Droplet \cup {None}, exit : Trailer, booted : {"no", "yes"},
        fetched : {"no", "yes"}]
NoJob == [id |-> None, exit |-> "none", booted |-> "no", fetched |-> "no"]

TypeOK ==
  /\ drop \in [Droplet -> {"unborn", "gone"} \cup Billing]
  /\ old \subseteq Droplet
  /\ file \in Droplet \cup {None}
  /\ session \in [Droplet -> Pipe \cup {None}]
  /\ log \in [Droplet -> Trailer \cup {"absent"}]
  /\ marker \in [Pipe -> Trailer]
  /\ row \in [Pipe -> {"running", "completed", "stopped", "failed"}]
  /\ pc \in [Pipe -> Resting \cup {"provision", "created", "boot", "run", "poll",
                       "probe", "fetch", "final", "bake", "off", "on", "destroy",
                       "forget"}]
  /\ job \in [Pipe -> Job]
  /\ watch \in {"idle", "unlink", "reap", "forget"}

-----------------------------------------------------------------------------
(* What the scripts read *)

Goto(p, label) == pc' = [pc EXCEPT ![p] = label]

Bills(d) == drop[d] \in Billing

\* The droplet on file exists.
Alive == file # None /\ Bills(file)

\* load_state, and ssh to the droplet it names.
Reachable == file # None /\ drop[file] = "up"

\* Faulty variant: an existing state file is overwritten unread.
SlotFreeUnread == TRUE

\* cmd_provision: no state file, or doctl get of its droplet fails.
SlotFree == Alive => "recheck" \in Losses

\* finalize_run_row.
RowOf(exit) ==
  IF exit = "ok" THEN "completed"
  ELSE IF exit = "none" THEN "stopped" ELSE "failed"

Init ==
  /\ drop = [d \in Droplet |-> "unborn"]
  /\ old = {}
  /\ file = None
  /\ session = [d \in Droplet |-> None]
  /\ log = [d \in Droplet |-> "absent"]
  /\ marker = [p \in Pipe |-> "none"]
  /\ row = [p \in Pipe |-> "running"]
  /\ pc = [p \in Pipe |-> "idle"]
  /\ job = [p \in Pipe |-> NoJob]
  /\ watch = "idle"

World == <<drop, old, session, log, marker>>

-----------------------------------------------------------------------------
(* A pipeline up to its research session *)

\* The run lock; then provisioning, or the worker an earlier run kept.
TakeLock(p) ==
  /\ pc[p] = "idle"
  /\ \A q \in Pipe : pc[q] \in Resting
  /\ \/ Goto(p, "provision") /\ UNCHANGED job
     \/ Goto(p, "run") /\ job' = [job EXCEPT ![p].booted = "yes"]
  /\ UNCHANGED <<World, file, row, watch>>

\* doctl compute droplet create: billing starts.
Create(p, d) ==
  /\ pc[p] = "provision"
  /\ SlotFree
  /\ drop[d] = "unborn"
  /\ drop' = [drop EXCEPT ![d] = "up"]
  /\ job' = [job EXCEPT ![p].id = d]
  /\ Goto(p, "created")
  /\ UNCHANGED <<old, file, session, log, marker, row, watch>>

\* Always possible while the watchdog fetches, which takes minutes.
WriteState(p) ==
  /\ pc[p] = "created"
  /\ TickMayStall \/ watch \in {"idle", "reap"}
  /\ file' = job[p].id
  /\ job' = [job EXCEPT ![p].id = None]
  /\ Goto(p, "boot")
  /\ UNCHANGED <<World, row, watch>>

Bootstrap(p) ==
  /\ pc[p] = "boot"
  /\ Reachable
  /\ job' = [job EXCEPT ![p].booted = "yes"]
  /\ Goto(p, "run")
  /\ UNCHANGED <<World, file, row, watch>>

\* Faulty variant: the log keeps the trailer of the run before (tee -a, and a
\* reader that does not start anew at the start line).
StartSessionAppend(p) ==
  /\ pc[p] = "run"
  /\ Reachable
  /\ session[file] = None
  /\ session' = [session EXCEPT ![file] = p]
  /\ log' = [log EXCEPT ![file] = IF @ = "absent" THEN "none" ELSE @]
  /\ Goto(p, "poll")
  /\ UNCHANGED <<drop, old, marker, file, row, job, watch>>

\* cmd_run: no session may be active; tee truncates the log.  The tunnel and the
\* check before it, and the start line, are abstracted.
StartSession(p) ==
  /\ pc[p] = "run"
  /\ Reachable
  /\ session[file] = None
  /\ session' = [session EXCEPT ![file] = p]
  /\ log' = [log EXCEPT ![file] = "none"]
  /\ Goto(p, "poll")
  /\ UNCHANGED <<drop, old, marker, file, row, job, watch>>

\* Stale data, no stock, a worker that is still there; or a created droplet that
\* never reports an address, which fails the script before it writes worker.env.
ProvisionFails(p) ==
  /\ \/ pc[p] = "provision"
     \/ pc[p] = "created" /\ "create" \in Losses
  /\ job' = [job EXCEPT ![p].id = None, ![p].exit = "bad"]
  /\ Goto(p, "final")
  /\ UNCHANGED <<World, file, row, watch>>

\* No SSH, no tunnel, a check that fails, an active session.
StartFails(p) ==
  /\ pc[p] \in {"boot", "run"}
  /\ job' = [job EXCEPT ![p].exit = "bad"]
  /\ Goto(p, "final")
  /\ UNCHANGED <<World, file, row, watch>>

-----------------------------------------------------------------------------
(* The poll *)

\* worker_trace_status finds an exit trailer.
Finished == Reachable /\ log[file] \in {"ok", "bad"}

ReadStatus(p) ==
  /\ pc[p] = "poll"
  /\ \/ /\ Finished
        /\ job' = [job EXCEPT ![p].exit = log[file]]
        /\ Goto(p, "fetch")
     \/ /\ Finished => "ssh" \in Losses
        /\ Goto(p, "probe")
        /\ UNCHANGED job
  /\ UNCHANGED <<World, file, row, watch>>

\* tmux has-session, after the status was read.
ProbeSession(p) ==
  /\ pc[p] = "probe"
  /\ \/ Reachable /\ session[file] # None /\ Goto(p, "poll")
     \/ (Reachable /\ session[file] # None => "ssh" \in Losses) /\ Goto(p, "fetch")
  /\ UNCHANGED <<World, file, row, job, watch>>

\* max_hours: the session is killed, whatever it has written.
MaxHours(p) ==
  /\ pc[p] = "poll"
  /\ \/ Reachable /\ session' = [session EXCEPT ![file] = None]
     \/ (Reachable => "ssh" \in Losses) /\ UNCHANGED session
  /\ Goto(p, "fetch")
  /\ UNCHANGED <<drop, old, log, marker, file, row, job, watch>>

Fetch(p) ==
  /\ pc[p] = "fetch"
  /\ Reachable
  /\ job' = [job EXCEPT ![p].fetched = "yes"]
  /\ Goto(p, "final")
  /\ UNCHANGED <<World, file, row, watch>>

\* The fetch, or the reports made of it, raise.
FetchFails(p) ==
  /\ pc[p] = "fetch"
  /\ "fetch" \in Losses \/ ~Reachable
  /\ job' = [job EXCEPT ![p].exit = "bad"]
  /\ Goto(p, "final")
  /\ UNCHANGED <<World, file, row, watch>>

-----------------------------------------------------------------------------
(* The finally block *)

\* --keep-worker ends here; a bake comes before the destroy.
Finalize(p) ==
  /\ pc[p] = "final"
  /\ row' = [row EXCEPT ![p] = RowOf(job[p].exit)]
  /\ \E label \in {"done", "destroy"} \cup
       (IF job[p].booted = "yes" THEN {"bake"} ELSE {}) : Goto(p, label)
  /\ UNCHANGED <<World, file, job, watch>>

\* cmd_snapshot clears the run's outputs, powers off, images, powers on.
BakeClear(p) ==
  /\ pc[p] = "bake"
  /\ Reachable
  /\ log' = [log EXCEPT ![file] = "absent"]
  /\ job' = [job EXCEPT ![p].id = file]
  /\ Goto(p, "off")
  /\ UNCHANGED <<drop, old, session, marker, file, row, watch>>

BakeOff(p) ==
  /\ pc[p] = "off"
  /\ drop[job[p].id] = "up"
  /\ drop' = [drop EXCEPT ![job[p].id] = "off"]
  /\ session' = [session EXCEPT ![job[p].id] = None]
  /\ Goto(p, "on")
  /\ UNCHANGED <<old, log, marker, file, row, job, watch>>

BakeOn(p) ==
  /\ pc[p] = "on"
  /\ drop[job[p].id] = "off"
  /\ drop' = [drop EXCEPT ![job[p].id] = "up"]
  /\ Goto(p, "destroy")
  /\ UNCHANGED <<old, session, log, marker, file, row, job, watch>>

BakeFails(p) ==
  /\ pc[p] \in {"bake", "off", "on"}
  /\ Goto(p, "destroy")
  /\ UNCHANGED <<World, file, row, job, watch>>

\* doctl compute droplet delete of the droplet on file.
Deleted(d) ==
  /\ drop' = [drop EXCEPT ![d] = "gone"]
  /\ session' = [session EXCEPT ![d] = None]
  /\ UNCHANGED <<old, log, marker>>

\* Faulty variant: a failing delete does not end the script.
DestroyOn(p) ==
  /\ pc[p] = "destroy"
  /\ file # None
  /\ IF Bills(file) /\ "delete" \notin Losses THEN Deleted(file) ELSE UNCHANGED World
  /\ Goto(p, "forget")
  /\ UNCHANGED <<file, row, job, watch>>

\* cmd_destroy --force.
Destroy(p) ==
  /\ pc[p] = "destroy"
  /\ Alive
  /\ Deleted(file)
  /\ Goto(p, "forget")
  /\ UNCHANGED <<file, row, job, watch>>

\* No worker state, a droplet already gone, or doctl fails: the file stays.
DestroyFails(p) ==
  /\ pc[p] = "destroy"
  /\ Alive => "delete" \in Losses
  /\ Goto(p, "done")
  /\ UNCHANGED <<World, file, row, job, watch>>

\* rm -f of the state file.
Forget(p) ==
  /\ pc[p] = "forget"
  /\ file' = None
  /\ Goto(p, "done")
  /\ UNCHANGED <<World, row, job, watch>>

\* SIGTERM or SIGKILL: no finally block.
Crash(p) ==
  /\ "crash" \in Losses
  /\ pc[p] \notin Resting
  /\ pc[p] = "created" => "create" \in Losses
  /\ Goto(p, "dead")
  /\ job' = [job EXCEPT ![p] = NoJob]
  /\ UNCHANGED <<World, file, row, watch>>

-----------------------------------------------------------------------------
(* The droplet *)

\* The research run writes its trailer and its session ends; tee goes on writing
\* to a log that a bake has unlinked.
SessionEnds(d) ==
  /\ session[d] # None
  /\ \E exit \in {"ok", "bad"} :
       /\ log' = [log EXCEPT ![d] = IF @ = "absent" THEN @ ELSE exit]
       /\ marker' = [marker EXCEPT ![session[d]] = exit]
  /\ session' = [session EXCEPT ![d] = None]
  /\ UNCHANGED <<drop, old, file, row, pc, job, watch>>

\* stop_run, or the machine kills it.
SessionDies(d) ==
  /\ session[d] # None
  /\ session' = [session EXCEPT ![d] = None]
  /\ UNCHANGED <<drop, old, log, marker, file, row, pc, job, watch>>

\* CREATED_AT is the time the state file is written.
Age(d) ==
  /\ Bills(d)
  /\ d \notin old
  /\ \A p \in Pipe : pc[p] = "created" => job[p].id # d
  /\ old' = old \cup {d}
  /\ UNCHANGED <<drop, session, log, marker, file, row, pc, job, watch>>

-----------------------------------------------------------------------------
(* The watchdog *)

Pipes == <<row, pc, job>>

\* doctl get fails: the droplet is gone, or the token expired.
WatchMisses ==
  /\ watch = "idle"
  /\ file # None
  /\ Alive => "flake" \in Losses
  /\ watch' = "unlink"
  /\ UNCHANGED <<World, file, Pipes>>

WatchUnlinks ==
  /\ watch = "unlink"
  /\ file' = None
  /\ watch' = "idle"
  /\ UNCHANGED <<World, Pipes>>

WatchFinds ==
  /\ watch = "idle"
  /\ Alive
  /\ file \in old
  /\ watch' = "reap"
  /\ UNCHANGED <<World, file, Pipes>>

\* Faulty variant: the fetch before the destroy must succeed.
WatchDestroysFetched ==
  /\ watch = "reap"
  /\ file # None
  /\ drop[file] = "up"
  /\ Deleted(file)
  /\ watch' = "forget"
  /\ UNCHANGED <<file, Pipes>>

\* After a fetch of whatever is there: gpu_worker.sh destroy --force.
WatchDestroys ==
  /\ watch = "reap"
  /\ Alive
  /\ Deleted(file)
  /\ watch' = "forget"
  /\ UNCHANGED <<file, Pipes>>

WatchFails ==
  /\ watch = "reap"
  /\ Alive => "delete" \in Losses
  /\ watch' = "idle"
  /\ UNCHANGED <<World, file, Pipes>>

WatchForgets ==
  /\ watch = "forget"
  /\ file' = None
  /\ watch' = "idle"
  /\ UNCHANGED <<World, Pipes>>

-----------------------------------------------------------------------------
PipeStep(p) ==
  \/ TakeLock(p)
  \/ \E d \in Droplet : Create(p, d)
  \/ WriteState(p)
  \/ Bootstrap(p)
  \/ StartSession(p)
  \/ ProvisionFails(p)
  \/ StartFails(p)
  \/ ReadStatus(p)
  \/ ProbeSession(p)
  \/ MaxHours(p)
  \/ Fetch(p)
  \/ FetchFails(p)
  \/ Finalize(p)
  \/ BakeClear(p)
  \/ BakeOff(p)
  \/ BakeOn(p)
  \/ BakeFails(p)
  \/ Destroy(p)
  \/ DestroyFails(p)
  \/ Forget(p)
  \/ Crash(p)

Watchdog ==
  \/ WatchMisses
  \/ WatchUnlinks
  \/ WatchFinds
  \/ WatchDestroys
  \/ WatchFails
  \/ WatchForgets

Next ==
  \/ \E p \in Pipe : PipeStep(p)
  \/ \E d \in Droplet : SessionEnds(d) \/ SessionDies(d) \/ Age(d)
  \/ Watchdog

Spec == Init /\ [][Next]_vars

\* Time passes, the timer fires every hour, doctl does not refuse every delete,
\* and a script that has created a droplet goes on to write its state.
FairSpec ==
  /\ Spec
  /\ \A d \in Droplet : WF_vars(Age(d))
  /\ WF_vars(Watchdog)
  /\ SF_vars(WatchDestroys)
  /\ \A p \in Pipe : SF_vars(WriteState(p))

-----------------------------------------------------------------------------
(* Properties *)

\* A droplet that bills is the one worker.env names, or about to be: else no
\* tool, and not the watchdog, would ever find it.
KnownDroplet ==
  \A d \in Droplet :
    Bills(d) => file = d \/ \E p \in Pipe : pc[p] = "created" /\ job[p].id = d

\* One GPU worker at a time, over runs that fail, crash, keep their worker or
\* cannot destroy it.
OneWorker == \A c, d \in Droplet : Bills(c) /\ Bills(d) => c = d

\* A row that says completed is that of a run whose own session wrote exit 0,
\* and no trailer of an earlier run on the same worker was taken for it.
CompletedIsOwn == \A p \in Pipe : row[p] = "completed" => marker[p] = "ok"

\* Whatever becomes of the pipeline that created it, a droplet does not bill
\* forever.
BillingStops == \A d \in Droplet : Bills(d) ~> ~Bills(d)

-----------------------------------------------------------------------------
(* Statements of the source's comments that the code does not keep; the      *)
(* README names the comment and the configuration that shows it.             *)

\* A pipeline takes its session for killed only when the session ended without
\* writing its exit trailer.
StoppedIsKilled ==
  [][\A p \in Pipe :
       (pc[p] = "probe" /\ pc'[p] = "fetch") => marker[p] = "none"]_vars

\* A bake clears the outputs of a run only after they were fetched.
BakeAfterFetch ==
  \A p \in Pipe :
    (pc[p] = "off" /\ marker[p] # "none") => job[p].fetched = "yes"

\* The watchdog destroys no droplet younger than its limit, though it reads the
\* state file again after its fetch.
YoungSpared ==
  [][\A d \in Droplet :
       (watch = "reap" /\ watch' = "forget" /\ drop'[d] # drop[d]) => d \in old]_vars
=============================================================================
