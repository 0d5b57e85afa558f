------------------------------ MODULE RunLock ------------------------------
(***************************************************************************)
(* The global GPU run lock of ops/run_lock.py, at the granularity of its   *)
(* system calls.  The lock is one file.  A pipeline creates it with        *)
(* O_CREAT|O_EXCL and writes its record into it afterwards; check_lock     *)
(* reads the file, probes the recorded owner and unlinks the path, in      *)
(* three separate steps; release_lock reads and unlinks in two.  Every     *)
(* other process may run, or be killed, between any two of them.           *)
(*                                                                         *)
(* A pipeline stands for one execution of ops/gpu_pipeline.py.  A checker  *)
(* stands for an orchestrator tool handler (start_research, stop_run) that *)
(* calls check_lock through GpuBackend.active_run_lock.                    *)
(***************************************************************************)
EXTENDS Naturals

CONSTANTS
  Pipeline,     \* executions of the pipeline
  Manual,       \* the pipelines started from a shell: they have no real unit
  Checker,      \* orchestrator handlers that call check_lock
  Unit,         \* transient unit names
  UnitOf,       \* the unit name each pipeline records
  MaxAttempts,  \* exclusive creates tried before giving up: 3 in the code
  Nobody        \* "no pipeline"

ASSUME PipelineAssumption ==
  /\ Manual \subseteq Pipeline
  /\ UnitOf \in [Pipeline -> Unit]
  /\ Pipeline \cap Checker = {}
  /\ Nobody \notin Pipeline
  /\ {"NoLock", "corrupt"} \cap Pipeline = {}

ASSUME AttemptsAssumption == MaxAttempts \in Nat \ {0}

VARIABLES
  file,    \* the lock file: which pipeline created it, and whether it is written
  pc,      \* where each process is in the lock code
  seen,    \* what the process last read from the file: an owner, Corrupt or NoLock
  tries,   \* exclusive creates each pipeline has tried
  reused   \* dead pipelines whose pid now names some other, living process

vars == <<file, pc, seen, tries, reused>>

Proc == Pipeline \cup Checker

-----------------------------------------------------------------------------
(* Types *)

NoLock == "NoLock"
Corrupt == "corrupt"

NoFile == [creator |-> Nobody, written |-> FALSE]
FileState == [creator : Pipeline, written : BOOLEAN] \cup {NoFile}

InWindow == {"create", "read", "probe", "unlink", "write"}
Holding == {"hold", "relread", "relunlink"}
Ended == {"refused", "done", "dead"}

TypeOK ==
  /\ file \in FileState
  /\ pc \in [Proc -> {"idle"} \cup InWindow \cup Holding \cup Ended]
  /\ seen \in [Proc -> Pipeline \cup {NoLock, Corrupt}]
  /\ tries \in [Pipeline -> 0 .. MaxAttempts]
  /\ reused \subseteq Pipeline

-----------------------------------------------------------------------------
(* What the code reads *)

Running(p) == pc[p] \notin {"idle"} \cup Ended

\* Faulty variant: read_lock lets a corrupt file pass for no lock at all.
OnDiskCorruptIsNone ==
  IF file # NoFile /\ file.written THEN file.creator ELSE NoLock

\* read_lock: an empty file parses as no record at all, the "unknown (corrupt
\* lock file)" owner.
OnDisk ==
  IF file = NoFile THEN NoLock
  ELSE IF file.written THEN file.creator ELSE Corrupt

\* systemctl is-active: a manual run records a unit name that names no unit.
UnitActive(u) == \E q \in Pipeline \ Manual : UnitOf[q] = u /\ Running(q)

PidAlive(q) == Running(q) \/ q \in reused

\* Faulty variant: is_stale asks for either sign of death instead of both.
IsStaleEither(lock) ==
  lock = Corrupt \/ ~UnitActive(UnitOf[lock]) \/ ~PidAlive(lock)

\* is_stale: both the unit and the pid are gone; the corrupt owner has neither.
IsStale(lock) ==
  lock = Corrupt \/ (~UnitActive(UnitOf[lock]) /\ ~PidAlive(lock))

-----------------------------------------------------------------------------
(* Steps *)

Init ==
  /\ file = NoFile
  /\ pc = [p \in Proc |-> "idle"]
  /\ seen = [p \in Proc |-> NoLock]
  /\ tries = [p \in Pipeline |-> 0]
  /\ reused = {}

Goto(p, label) == pc' = [pc EXCEPT ![p] = label]

\* The pipeline process starts; systemd refuses a second live unit of one name.
Launch(p) ==
  /\ pc[p] = "idle"
  /\ p \in Manual \/ ~UnitActive(UnitOf[p])
  /\ Goto(p, "create")
  /\ UNCHANGED <<file, seen, tries, reused>>

\* os.open(O_CREAT|O_EXCL): the file exists from here on, and is still empty.
CreateExclusive(p) ==
  /\ pc[p] = "create"
  /\ tries[p] < MaxAttempts
  /\ tries' = [tries EXCEPT ![p] = @ + 1]
  /\ IF file = NoFile
     THEN file' = [creator |-> p, written |-> FALSE] /\ Goto(p, "write")
     ELSE file' = file /\ Goto(p, "read")
  /\ UNCHANGED <<seen, reused>>

\* LockHeldError after the last attempt: the file kept reappearing.
GiveUp(p) ==
  /\ pc[p] = "create"
  /\ tries[p] = MaxAttempts
  /\ Goto(p, "refused")
  /\ UNCHANGED <<file, seen, tries, reused>>

\* json.dump through the descriptor of the file this pipeline created: lost
\* when the path has been unlinked, or names another pipeline's file, since.
WriteRecord(p) ==
  /\ pc[p] = "write"
  /\ file' = IF file.creator = p THEN [file EXCEPT !.written = TRUE] ELSE file
  /\ Goto(p, "hold")
  /\ UNCHANGED <<seen, tries, reused>>

\* A handler calls active_run_lock.
StartCheck(c) ==
  /\ pc[c] = "idle"
  /\ Goto(c, "read")
  /\ UNCHANGED <<file, seen, tries, reused>>

\* Where check_lock returns to when it found no live owner.
AfterCheck(p) == IF p \in Pipeline THEN "create" ELSE "idle"

ReadLock(p) ==
  /\ pc[p] = "read"
  /\ seen' = [seen EXCEPT ![p] = OnDisk]
  /\ Goto(p, IF OnDisk = NoLock THEN AfterCheck(p) ELSE "probe")
  /\ UNCHANGED <<file, tries, reused>>

ProbeOwner(p) ==
  /\ pc[p] = "probe"
  /\ Goto(p, IF IsStale(seen[p]) THEN "unlink"
             ELSE IF p \in Pipeline THEN "refused" ELSE "idle")
  /\ seen' = [seen EXCEPT ![p] = IF IsStale(@) THEN @ ELSE NoLock]
  /\ UNCHANGED <<file, tries, reused>>

\* path.unlink(missing_ok=True): whatever the path names now.
BreakStale(p) ==
  /\ pc[p] = "unlink"
  /\ file' = NoFile
  /\ seen' = [seen EXCEPT ![p] = NoLock]
  /\ Goto(p, AfterCheck(p))
  /\ UNCHANGED <<tries, reused>>

\* run_pipeline's finally reaches release_lock.
StartRelease(p) ==
  /\ pc[p] = "hold"
  /\ Goto(p, "relread")
  /\ UNCHANGED <<file, seen, tries, reused>>

OwnUnitOnDisk(p) == OnDisk \in Pipeline /\ UnitOf[OnDisk] = UnitOf[p]

ReleaseRead(p) ==
  /\ pc[p] = "relread"
  /\ Goto(p, IF OwnUnitOnDisk(p) THEN "relunlink" ELSE "done")
  /\ UNCHANGED <<file, seen, tries, reused>>

ReleaseUnlink(p) ==
  /\ pc[p] = "relunlink"
  /\ file' = NoFile
  /\ Goto(p, "done")
  /\ UNCHANGED <<seen, tries, reused>>

\* SIGKILL, SIGTERM or a host reboot: no finally block runs.
Crash(p) ==
  /\ Running(p)
  /\ Goto(p, "dead")
  /\ seen' = [seen EXCEPT ![p] = NoLock]
  /\ UNCHANGED <<file, tries, reused>>

\* The kernel hands the dead owner's pid to a long-lived, unrelated process.
ReusePid(p) ==
  /\ pc[p] = "dead"
  /\ p \notin reused
  /\ reused' = reused \cup {p}
  /\ UNCHANGED <<file, pc, seen, tries>>

CheckStep(p) == ReadLock(p) \/ ProbeOwner(p) \/ BreakStale(p)

LockCode(p) ==
  \/ CreateExclusive(p)
  \/ GiveUp(p)
  \/ WriteRecord(p)
  \/ CheckStep(p)
  \/ ReleaseRead(p)
  \/ ReleaseUnlink(p)

PipelineStep(p) == Launch(p) \/ StartRelease(p) \/ LockCode(p)

CheckerStep(c) == StartCheck(c) \/ CheckStep(c)

Next ==
  \/ \E p \in Pipeline : PipelineStep(p) \/ Crash(p) \/ ReusePid(p)
  \/ \E c \in Checker : CheckerStep(c)

Spec == Init /\ [][Next]_vars

\* A handler keeps asking, as long as an operator wants a run, and a living
\* pipeline gets through the lock code; how long it holds the lock, and whether
\* it is killed, is not assumed.
FairSpec ==
  /\ Spec
  /\ \A c \in Checker : WF_vars(CheckerStep(c))
  /\ \A p \in Pipeline : WF_vars(LockCode(p))

\* The same system when no two processes are inside the lock code at once.
Busy(p) == pc[p] \in InWindow \cup {"relread", "relunlink"}

Undisturbed == \A p, q \in Proc : Busy(p) /\ Busy(q) => p = q

SerialNext == Next /\ Undisturbed'

SerialSpec == Init /\ [][SerialNext]_vars

-----------------------------------------------------------------------------
(* Properties *)

\* Two pipelines never both believe they hold the lock: each of them drives,
\* and finally destroys, the one GPU droplet worker.env names.
MutualExclusion ==
  \A p, q \in Pipeline : pc[p] \in Holding /\ pc[q] \in Holding => p = q

\* A holder's own, complete record is what every check reads: otherwise the
\* orchestrator would let a second run start beside it.
HolderOnDisk ==
  \A p \in Pipeline :
    pc[p] \in Holding => file = [creator |-> p, written |-> TRUE]

Removes(p) ==
  /\ pc[p] \in {"unlink", "relunlink"}
  /\ pc'[p] # pc[p]
  /\ pc'[p] # "dead"

\* However the processes interleave, nobody who has read the complete record
\* of a living pipeline goes on to remove it, whether that pipeline has a
\* systemd unit or was started by hand; only its owner's release does.  Who has
\* read another one may remove it: see MutualExclusion.
LiveRecordKept ==
  [][\A p \in Proc :
       (Removes(p) /\ file.written /\ seen[p] = file.creator)
          => (p = file.creator \/ ~Running(file.creator))]_vars

\* A crashed pipeline does not wedge research: the file it left behind, whether
\* empty or complete, is gone after some later check, unless the pid in it has
\* come to name another living process.
NeverWedged ==
  \A p \in Pipeline :
    (file.creator = p /\ pc[p] = "dead") ~> (file.creator # p \/ p \in reused)

\* Who holds the lock, in the terms of the mutex it is meant to be.
Owner ==
  IF \E p \in Pipeline : pc[p] \in Holding
  THEN CHOOSE p \in Pipeline : pc[p] \in Holding
  ELSE Nobody

LockMutex == INSTANCE Mutex WITH Client <- Pipeline, owner <- Owner

\* The lock implements a mutex: it is taken only when free and given up only
\* by its owner, who released it or died.
ImplementsMutex == LockMutex!Spec

-----------------------------------------------------------------------------
(* Statements of the source's comments that the code does not keep; the      *)
(* README names the comment and the configuration that shows it.             *)

\* release_lock never deletes the lock of another pipeline: an old owner whose
\* lock was broken and taken again leaves the new owner's file alone.
ReleaseOnlyOwn ==
  [][\A p \in Pipeline :
       (pc[p] = "relunlink" /\ pc'[p] = "done")
          => file.creator \in {p, Nobody}]_vars

\* A crashed pipeline never wedges research, whatever becomes of its pid.
NeverWedgedForever ==
  \A p \in Pipeline :
    (file.creator = p /\ pc[p] = "dead") ~> (file.creator # p)
=============================================================================
