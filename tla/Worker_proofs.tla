---------------------------- MODULE Worker_proofs ---------------------------
(***************************************************************************)
(* Proofs about Worker, for every set of pipelines and droplets and every  *)
(* set of failures: the types, and that a completed row is that of the     *)
(* run's own session; that one droplet bills and is known, as long as      *)
(* doctl and the state file can be trusted; and what a worker boots from,  *)
(* for every set of images (BaseImages).                                   *)
(***************************************************************************)
EXTENDS Worker, BaseImages, FiniteSetTheorems, TLAPS

-----------------------------------------------------------------------------
(* Types *)

\* What a pipeline remembers keeps its type.
LEMMA JobStep ==
  \A j \in Job :
    /\ \A e \in Trailer : /\ [j EXCEPT !.exit = e] \in Job
                          /\ [j EXCEPT !.id = None, !.exit = e] \in Job
    /\ \A i \in Droplet \cup {None} : [j EXCEPT !.id = i] \in Job
    /\ [j EXCEPT !.booted = "yes"] \in Job
    /\ [j EXCEPT !.fetched = "yes"] \in Job
  BY DEF Job

\* Every step of a pipeline keeps the types.
LEMMA PipeType ==
  ASSUME TypeOK, NEW p \in Pipe, PipeStep(p)
  PROVE  TypeOK'
<1> USE DEF TypeOK, Resting, Goto
<1>1. NoJob \in Job /\ job[p] \in Job
  BY DEF NoJob, Job, Trailer
<1>2. job[p].id \in Droplet \cup {None} /\ job[p].exit \in Trailer
  BY <1>1 DEF Job
<1>3. CASE TakeLock(p)
  <2>2. job' \in [Pipe -> Job]
    <3>1. CASE job' = [job EXCEPT ![p].booted = "yes"]
      BY <1>1, <3>1, JobStep
    <3>2. CASE UNCHANGED job
      BY <3>2
    <3> QED
      BY <1>3, <3>1, <3>2 DEF TakeLock
  <2>3. \E label \in {"provision", "run"} : pc' = [pc EXCEPT ![p] = label]
    BY <1>3 DEF TakeLock
  <2> QED
    BY <1>3, <2>2, <2>3 DEF TakeLock, World
<1>4. ASSUME NEW d \in Droplet, Create(p, d) PROVE TypeOK'
  BY <1>4, JobStep DEF Create, Billing
<1>5. CASE WriteState(p)
  BY <1>2, <1>5, JobStep DEF WriteState, World
<1>6. CASE Bootstrap(p)
  BY <1>6, JobStep DEF Bootstrap, World
<1>7. CASE StartSession(p)
  BY <1>7 DEF StartSession, Trailer, Reachable
<1>8. CASE ProvisionFails(p)
  BY <1>1, <1>8, JobStep DEF ProvisionFails, World, Trailer
<1>23. CASE StartFails(p)
  BY <1>1, <1>23, JobStep DEF StartFails, World, Trailer
<1>9. CASE ReadStatus(p)
  <2>1. job' \in [Pipe -> Job]
    <3>1. CASE Finished /\ job' = [job EXCEPT ![p].exit = log[file]]
      <4>1. log[file] \in Trailer
        BY <3>1 DEF Finished, Trailer
      <4>2. [job[p] EXCEPT !.exit = log[file]] \in Job
        BY <1>1, <4>1, JobStep
      <4> QED
        BY <3>1, <4>2
    <3>2. CASE UNCHANGED job
      BY <3>2
    <3> QED
      BY <1>9, <3>1, <3>2 DEF ReadStatus
  <2> QED
    BY <1>9, <2>1 DEF ReadStatus, World
<1>10. CASE ProbeSession(p)
  BY <1>10 DEF ProbeSession, World
<1>11. CASE MaxHours(p)
  BY <1>11 DEF MaxHours
<1>12. CASE Fetch(p)
  BY <1>12, JobStep DEF Fetch, World
<1>13. CASE FetchFails(p)
  BY <1>13, JobStep DEF FetchFails, World, Trailer
<1>14. CASE Finalize(p)
  BY <1>2, <1>14 DEF Finalize, World, RowOf
<1>15. CASE BakeClear(p)
  BY <1>15, JobStep DEF BakeClear, Reachable
<1>16. CASE BakeOff(p)
  BY <1>16 DEF BakeOff, Billing
<1>17. CASE BakeOn(p)
  BY <1>17 DEF BakeOn, Billing
<1>18. CASE BakeFails(p)
  BY <1>18 DEF BakeFails, World
<1>19. CASE Destroy(p)
  BY <1>19 DEF Destroy, Deleted
<1>20. CASE DestroyFails(p)
  BY <1>20 DEF DestroyFails, World
<1>21. CASE Forget(p)
  BY <1>21 DEF Forget, World
<1>22. CASE Crash(p)
  BY <1>1, <1>22 DEF Crash, World
<1> QED
  BY <1>3, <1>4, <1>5, <1>6, <1>7, <1>8, <1>9, <1>10, <1>11, <1>12, <1>13, <1>14,
     <1>15, <1>16, <1>17, <1>18, <1>19, <1>20, <1>21, <1>22, <1>23 DEF PipeStep

\* So does every step of a droplet.
LEMMA DropletType ==
  ASSUME TypeOK, NEW d \in Droplet, SessionEnds(d) \/ SessionDies(d) \/ Age(d)
  PROVE  TypeOK'
<1> USE DEF TypeOK
<1>1. CASE SessionEnds(d)
  BY <1>1 DEF SessionEnds, Trailer
<1>2. CASE SessionDies(d)
  BY <1>2 DEF SessionDies
<1>3. CASE Age(d)
  BY <1>3 DEF Age
<1> QED
  BY <1>1, <1>2, <1>3

\* And every step of the watchdog.
LEMMA WatchdogType == TypeOK /\ Watchdog => TypeOK'
<1> SUFFICES ASSUME TypeOK, Watchdog PROVE TypeOK'
  OBVIOUS
<1> USE DEF TypeOK, Pipes
<1>1. CASE WatchMisses
  BY <1>1 DEF WatchMisses, World
<1>2. CASE WatchUnlinks
  BY <1>2 DEF WatchUnlinks, World
<1>3. CASE WatchFinds
  BY <1>3 DEF WatchFinds, World
<1>4. CASE WatchDestroys
  BY <1>4 DEF WatchDestroys, Deleted
<1>5. CASE WatchFails
  BY <1>5 DEF WatchFails, World
<1>6. CASE WatchForgets
  BY <1>6 DEF WatchForgets, World
<1> QED
  BY <1>1, <1>2, <1>3, <1>4, <1>5, <1>6 DEF Watchdog

LEMMA TypeStep == TypeOK /\ [Next]_vars => TypeOK'
<1> SUFFICES ASSUME TypeOK, [Next]_vars PROVE TypeOK'
  OBVIOUS
<1>1. CASE UNCHANGED vars
  BY <1>1 DEF vars, TypeOK
<1> QED
  BY <1>1, PipeType, DropletType, WatchdogType DEF Next

LEMMA TypeInit == Init => TypeOK
  BY DEF Init, TypeOK, Billing, Resting, NoJob, Job, Trailer

\* The droplets, the state file, the rows and the scripts have their types,
\* whatever fails.
THEOREM TypeCorrect == Spec => []TypeOK
  BY TypeInit, TypeStep, PTL DEF Spec

-----------------------------------------------------------------------------
(* One worker at a time, when what doctl says can be trusted: a droplet that *)
(* is created gets its state file (no "create"), and doctl get fails of a    *)
(* droplet only when it is gone (no "flake", no "recheck").                  *)

\* The run lock: one pipeline is under way.
Serial == \A p, q \in Pipe : pc[p] \notin Resting /\ pc[q] \notin Resting => p = q

\* Between doctl create and worker.env the new droplet is the only one.
Fresh ==
  \A p \in Pipe : pc[p] = "created" =>
    /\ job[p].id \in Droplet /\ drop[job[p].id] # "unborn"
    /\ \A d \in Droplet : Bills(d) => job[p].id = d

\* Between doctl delete and rm there is none.
Cleared == \A p \in Pipe : pc[p] = "forget" => \A d \in Droplet : ~Bills(d)

\* worker.env never names a droplet before it exists, nor one that bills when the
\* watchdog is about to remove it.
Ticked ==
  /\ file # None => drop[file] # "unborn"
  /\ watch \in {"unlink", "forget"} => ~Alive

OneInv == TypeOK /\ Serial /\ KnownDroplet /\ Fresh /\ Cleared /\ Ticked

Trusted == Losses \cap {"create", "flake", "recheck"} = {} /\ TickMayStall = FALSE

\* While one pipeline is under way the others rest.
LEMMA OthersRest ==
  ASSUME OneInv, NEW p \in Pipe, pc[p] \notin Resting, NEW label,
         pc' = [pc EXCEPT ![p] = label]
  PROVE  /\ pc'[p] = label
         /\ \A q \in Pipe : q # p => pc[q] \in Resting /\ pc'[q] \in Resting
  BY DEF OneInv, Serial, TypeOK

\* A script's step that leaves alone what bills, worker.env and the watchdog.
LEMMA QuietStep ==
  ASSUME OneInv, TypeOK', NEW p \in Pipe, pc[p] \notin Resting \cup {"created"},
         NEW label, label \notin {"created", "forget"}, pc' = [pc EXCEPT ![p] = label],
         \A d \in Droplet : /\ drop'[d] \in Billing <=> drop[d] \in Billing
                            /\ drop'[d] = "unborn" <=> drop[d] = "unborn",
         UNCHANGED <<old, file, watch>>
  PROVE  OneInv'
<1>1. /\ pc'[p] = label
      /\ \A q \in Pipe : q # p => pc[q] \in Resting /\ pc'[q] \in Resting
  BY OthersRest
<1>2. \A d \in Droplet : Bills(d) => file = d
  BY <1>1 DEF OneInv, KnownDroplet, Resting
<1>3. Serial' /\ Fresh' /\ Cleared' /\ KnownDroplet'
  BY <1>1, <1>2 DEF Serial, Fresh, Cleared, KnownDroplet, Resting, Bills
<1>4. Ticked'
  BY NoneAssumption DEF OneInv, Ticked, Alive, TypeOK, Bills
<1> QED
  BY <1>3, <1>4 DEF OneInv

\* The lock is taken.
LEMMA TakeLockOne ==
  ASSUME OneInv, TypeOK', NEW p \in Pipe, TakeLock(p)
  PROVE  OneInv'
<1>1. \A q \in Pipe : pc[q] \in Resting
  BY DEF TakeLock
<1>2. PICK label \in {"provision", "run"} : pc' = [pc EXCEPT ![p] = label]
  BY DEF TakeLock, Goto
<1>3. pc'[p] = label /\ \A q \in Pipe : q # p => pc'[q] \in Resting
  BY <1>1, <1>2 DEF OneInv, TypeOK
<1>4. UNCHANGED <<drop, old, file, watch>>
  BY DEF TakeLock, World
<1>5. \A d \in Droplet : Bills(d) => file = d
  BY <1>1 DEF OneInv, KnownDroplet, Resting
<1>6. Serial' /\ Fresh' /\ Cleared' /\ KnownDroplet'
  BY <1>2, <1>3, <1>4, <1>5 DEF Serial, Fresh, Cleared, KnownDroplet, Resting, Bills
<1>7. Ticked'
  BY <1>4 DEF OneInv, Ticked, Alive, Bills
<1> QED
  BY <1>6, <1>7 DEF OneInv

\* A droplet is created only when none bills.
LEMMA CreateOne ==
  ASSUME Trusted, OneInv, TypeOK', NEW p \in Pipe, NEW d \in Droplet, Create(p, d)
  PROVE  OneInv'
<1>1. /\ pc'[p] = "created"
      /\ \A q \in Pipe : q # p => pc[q] \in Resting /\ pc'[q] \in Resting
  BY OthersRest DEF Create, Goto, Resting
<1>2. \A c \in Droplet : ~Bills(c)
  <2>1. ~Alive
    BY DEF Create, SlotFree, Trusted
  <2>2. \A q \in Pipe : pc[q] # "created"
    BY <1>1 DEF Create, Resting
  <2> QED
    BY <2>1, <2>2, NoneAssumption DEF OneInv, KnownDroplet, Alive
<1>3. drop'[d] = "up" /\ \A c \in Droplet : c # d => drop'[c] = drop[c]
  BY DEF Create, OneInv, TypeOK
<1>4. job'[p].id = d
  BY DEF Create, OneInv, TypeOK, Job
<1>5. UNCHANGED <<old, file, watch>>
  BY DEF Create
<1>6. Serial' /\ Fresh' /\ Cleared' /\ KnownDroplet'
  BY <1>1, <1>2, <1>3, <1>4
     DEF Serial, Fresh, Cleared, KnownDroplet, Resting, Bills, Billing
<1>7. file # d
  BY NoneAssumption DEF Create, OneInv, Ticked
<1>8. Ticked'
  BY <1>2, <1>3, <1>5, <1>7 DEF OneInv, Ticked, Alive, TypeOK, Bills
<1> QED
  BY <1>6, <1>8 DEF OneInv

\* Its state file is written.
LEMMA WriteStateOne ==
  ASSUME Trusted, OneInv, TypeOK', NEW p \in Pipe, WriteState(p)
  PROVE  OneInv'
<1>1. /\ pc'[p] = "boot"
      /\ \A q \in Pipe : q # p => pc[q] \in Resting /\ pc'[q] \in Resting
  BY OthersRest DEF WriteState, Goto, Resting
<1>2. /\ file' \in Droplet
      /\ drop'[file'] # "unborn"
      /\ \A d \in Droplet : Bills(d)' => file' = d
  BY DEF WriteState, World, OneInv, Fresh, Bills
<1>3. watch' \notin {"unlink", "forget"}
  BY DEF WriteState, Trusted
<1>4. Serial' /\ Fresh' /\ Cleared' /\ KnownDroplet'
  BY <1>1, <1>2 DEF Serial, Fresh, Cleared, KnownDroplet, Resting
<1>5. Ticked'
  BY <1>2, <1>3 DEF Ticked
<1> QED
  BY <1>4, <1>5 DEF OneInv

\* Its droplet is deleted, and then its state file.
LEMMA DestroyOne ==
  ASSUME OneInv, TypeOK', NEW p \in Pipe, Destroy(p)
  PROVE  OneInv'
<1>1. /\ pc'[p] = "forget"
      /\ \A q \in Pipe : q # p => pc[q] \in Resting /\ pc'[q] \in Resting
  BY OthersRest DEF Destroy, Goto, Resting
<1>2. file \in Droplet /\ drop' = [drop EXCEPT ![file] = "gone"]
  BY DEF Destroy, Deleted, Alive, OneInv, TypeOK
<1>3. \A d \in Droplet : ~Bills(d)'
  <2>1. \A d \in Droplet : Bills(d) => file = d
    BY <1>1 DEF OneInv, KnownDroplet, Resting, Destroy
  <2> QED
    BY <1>2, <2>1 DEF OneInv, TypeOK, Bills, Billing
<1>4. UNCHANGED <<old, file, watch>>
  BY DEF Destroy, Deleted
<1>5. Serial' /\ Fresh' /\ Cleared' /\ KnownDroplet'
  BY <1>1, <1>3 DEF Serial, Fresh, Cleared, KnownDroplet, Resting
<1>6. drop'[file'] # "unborn" /\ ~Alive'
  BY <1>2, <1>3, <1>4 DEF OneInv, TypeOK, Alive
<1>7. Ticked'
  BY <1>6 DEF Ticked
<1> QED
  BY <1>5, <1>7 DEF OneInv

LEMMA ForgetOne ==
  ASSUME OneInv, TypeOK', NEW p \in Pipe, Forget(p)
  PROVE  OneInv'
<1>1. /\ pc'[p] = "done"
      /\ \A q \in Pipe : q # p => pc[q] \in Resting /\ pc'[q] \in Resting
  BY OthersRest DEF Forget, Goto, Resting
<1>2. UNCHANGED drop /\ file' = None
  BY DEF Forget, World
<1>3. \A d \in Droplet : ~Bills(d)'
  BY <1>2 DEF Forget, OneInv, Cleared, Bills
<1>4. Serial' /\ Fresh' /\ Cleared' /\ KnownDroplet'
  BY <1>1, <1>3 DEF Serial, Fresh, Cleared, KnownDroplet, Resting
<1>5. Ticked'
  BY <1>2 DEF Ticked, Alive
<1> QED
  BY <1>4, <1>5 DEF OneInv

\* Every step of a pipeline keeps the invariant.
LEMMA PipeOne ==
  ASSUME Trusted, OneInv, TypeOK', NEW p \in Pipe, PipeStep(p)
  PROVE  OneInv'
<1> USE DEF Goto, Resting
<1>1. CASE /\ UNCHANGED <<drop, old, file, watch>>
           /\ pc[p] \notin Resting \cup {"created"}
           /\ \E label \in {"run", "poll", "probe", "fetch", "final", "done", "destroy",
                            "bake", "off", "dead"} : pc' = [pc EXCEPT ![p] = label]
  BY <1>1, QuietStep
<1>2. CASE BakeOff(p)
  <2>1. \A d \in Droplet : /\ drop'[d] \in Billing <=> drop[d] \in Billing
                           /\ drop'[d] = "unborn" <=> drop[d] = "unborn"
    BY <1>2 DEF BakeOff, OneInv, TypeOK, Billing
  <2> QED
    BY <1>2, <2>1, QuietStep DEF BakeOff
<1>3. CASE BakeOn(p)
  <2>1. \A d \in Droplet : /\ drop'[d] \in Billing <=> drop[d] \in Billing
                           /\ drop'[d] = "unborn" <=> drop[d] = "unborn"
    BY <1>3 DEF BakeOn, OneInv, TypeOK, Billing
  <2> QED
    BY <1>3, <2>1, QuietStep DEF BakeOn
<1>4. CASE Bootstrap(p) \/ Fetch(p) \/ FetchFails(p) \/ ProbeSession(p) \/ ReadStatus(p)
  BY <1>1, <1>4 DEF Bootstrap, Fetch, FetchFails, ProbeSession, ReadStatus, World
<1>5. CASE StartSession(p) \/ MaxHours(p) \/ BakeClear(p)
  BY <1>1, <1>5 DEF StartSession, MaxHours, BakeClear
<1>6. CASE ProvisionFails(p) \/ StartFails(p) \/ BakeFails(p) \/ DestroyFails(p) \/ Crash(p)
  BY <1>1, <1>6 DEF ProvisionFails, StartFails, BakeFails, DestroyFails, Crash, World, Trusted
<1>7. CASE Finalize(p)
  BY <1>1, <1>7 DEF Finalize, World
<1> QED
  BY <1>2, <1>3, <1>4, <1>5, <1>6, <1>7, TakeLockOne, CreateOne, WriteStateOne,
     DestroyOne, ForgetOne DEF PipeStep

\* A step that is not a pipeline's: droplets may go, worker.env may be unlinked.
LEMMA OutsideStep ==
  ASSUME OneInv, TypeOK', UNCHANGED <<pc, job>>, Ticked',
         \A d \in Droplet : /\ drop'[d] = drop[d] \/ drop'[d] = "gone"
                            /\ Bills(d)' /\ file = d => file' = d
  PROVE  OneInv'
<1>1. Serial' /\ Fresh' /\ Cleared'
  BY DEF OneInv, Serial, Fresh, Cleared, Bills, Billing
<1>2. KnownDroplet'
  BY DEF OneInv, KnownDroplet, Bills, Billing
<1> QED
  BY <1>1, <1>2 DEF OneInv

LEMMA DropletOne ==
  ASSUME OneInv, TypeOK', NEW d \in Droplet, SessionEnds(d) \/ SessionDies(d) \/ Age(d)
  PROVE  OneInv'
<1>1. UNCHANGED <<drop, file, watch, pc, job>> /\ old \subseteq old'
  BY DEF SessionEnds, SessionDies, Age
<1>2. Ticked'
  BY <1>1 DEF OneInv, Ticked, Alive, Bills
<1> QED
  BY <1>1, <1>2, OutsideStep

LEMMA WatchdogOne ==
  ASSUME Trusted, OneInv, TypeOK', Watchdog
  PROVE  OneInv'
<1> USE DEF Pipes
<1>1. CASE WatchMisses \/ WatchFinds \/ WatchFails
  <2>1. UNCHANGED <<drop, old, file, pc, job>>
    BY <1>1 DEF WatchMisses, WatchFinds, WatchFails, World
  <2>2. watch' \in {"unlink", "forget"} => ~Alive
    BY <1>1 DEF WatchMisses, WatchFinds, WatchFails, Trusted
  <2>3. Ticked'
    BY <2>1, <2>2 DEF OneInv, Ticked, Alive, Bills
  <2> QED
    BY <2>1, <2>3, OutsideStep
<1>2. CASE WatchUnlinks \/ WatchForgets
  <2>1. UNCHANGED <<drop, pc, job>> /\ file' = None
    BY <1>2 DEF WatchUnlinks, WatchForgets, World
  <2>2. ~Alive
    BY <1>2 DEF WatchUnlinks, WatchForgets, OneInv, Ticked
  <2>3. Ticked'
    BY <2>1 DEF Ticked, Alive
  <2>4. \A d \in Droplet : Bills(d) => file # d
    BY <2>2, NoneAssumption DEF Alive
  <2> QED
    BY <2>1, <2>3, <2>4, OutsideStep DEF Bills
<1>3. CASE WatchDestroys
  <2>1. file \in Droplet /\ drop' = [drop EXCEPT ![file] = "gone"]
    BY <1>3 DEF WatchDestroys, Deleted, Alive, OneInv, TypeOK
  <2>2. UNCHANGED <<file, pc, job>>
    BY <1>3 DEF WatchDestroys
  <2>3. drop'[file'] = "gone"
    BY <2>1, <2>2 DEF OneInv, TypeOK
  <2>4. Ticked'
    BY <2>3 DEF Ticked, Alive, Bills, Billing
  <2>5. \A d \in Droplet : drop'[d] = drop[d] \/ drop'[d] = "gone"
    BY <2>1 DEF OneInv, TypeOK
  <2> QED
    BY <2>2, <2>4, <2>5, OutsideStep
<1> QED
  BY <1>1, <1>2, <1>3 DEF Watchdog

LEMMA OneStep ==
  ASSUME Trusted PROVE OneInv /\ [Next]_vars => OneInv'
<1> SUFFICES ASSUME OneInv, [Next]_vars PROVE OneInv'
  OBVIOUS
<1>1. TypeOK'
  BY TypeStep DEF OneInv
<1>2. CASE UNCHANGED vars
  BY <1>1, <1>2
     DEF vars, OneInv, Serial, KnownDroplet, Fresh, Cleared, Ticked, Alive, Bills
<1> QED
  BY <1>1, <1>2, PipeOne, DropletOne, WatchdogOne DEF Next

LEMMA OneInit == Init => OneInv
  BY TypeInit
     DEF Init, OneInv, Serial, KnownDroplet, Fresh, Cleared, Ticked, Alive, Bills,
         Billing, Resting

LEMMA OneInvHolds == ASSUME Trusted PROVE Spec => []OneInv
  BY OneInit, OneStep, PTL DEF Spec

\* A droplet that bills is always the one worker.env names or is about to name,
\* so that destroy and the watchdog can find it.
THEOREM DropletKnown == ASSUME Trusted PROVE Spec => []KnownDroplet
<1>1. OneInv => KnownDroplet
  BY DEF OneInv
<1> QED
  BY <1>1, OneInvHolds, PTL

\* No two droplets bill at once, over any number of runs that fail, crash, keep
\* their worker or cannot destroy it.
THEOREM OneWorkerAlways == ASSUME Trusted PROVE Spec => []OneWorker
<1>1. OneInv => OneWorker
  BY DEF OneInv, OneWorker, KnownDroplet, Fresh
<1> QED
  BY <1>1, OneInvHolds, PTL

-----------------------------------------------------------------------------
(* A completed row is the run's own, whatever fails.                         *)

Early == {"idle", "provision", "created", "boot", "run"}

\* A pipeline starts one session, which has not written a trailer while it runs.
Once ==
  /\ \A p \in Pipe : pc[p] \in Early => marker[p] = "none"
  /\ \A p \in Pipe, d \in Droplet : session[d] = p =>
       /\ marker[p] = "none" /\ pc[p] \notin Early
       /\ \A c \in Droplet : session[c] = p => c = d

\* The log that a pipeline polls is its own session's.
Polls ==
  \A p \in Pipe : pc[p] \in {"poll", "probe"} /\ file # None =>
    /\ session[file] \in {p, None}
    /\ log[file] = "ok" => marker[p] = "ok"

\* Nobody has read an exit 0 that its own session did not write.
Exits ==
  \A p \in Pipe : job[p].exit = "ok" \/ row[p] = "completed" => marker[p] = "ok"

OwnInv == TypeOK /\ Serial /\ Once /\ Polls /\ Exits

\* A script's step after which no other pipeline can be polling.
LEMMA OwnFrame ==
  ASSUME OwnInv, TypeOK', NEW p \in Pipe, NEW label, pc' = [pc EXCEPT ![p] = label],
         \A q \in Pipe : q # p => pc[q] \in Resting,
         label \in Early => pc[p] \in Early,
         label \in {"poll", "probe"} =>
           pc[p] \in {"poll", "probe"} /\ UNCHANGED <<file, session, log>>,
         \A d \in Droplet : session'[d] \in {session[d], None},
         UNCHANGED marker, Exits'
  PROVE  OwnInv'
<1>1. pc'[p] = label /\ \A q \in Pipe : q # p => pc'[q] = pc[q] /\ pc[q] \in Resting
  BY DEF OwnInv, TypeOK
<1>2. Serial'
  BY <1>1 DEF Serial
<1>3. Once'
  BY <1>1, NoneAssumption DEF OwnInv, Once
<1>4. Polls'
  BY <1>1 DEF OwnInv, Polls, Resting
<1> QED
  BY <1>2, <1>3, <1>4 DEF OwnInv

\* The session starts on a truncated log.
LEMMA StartSessionOwn ==
  ASSUME OwnInv, TypeOK', NEW p \in Pipe, StartSession(p)
  PROVE  OwnInv'
<1>1. /\ pc'[p] = "poll"
      /\ \A q \in Pipe : q # p => pc'[q] = pc[q] /\ pc[q] \in Resting
  BY DEF StartSession, Goto, OwnInv, TypeOK, Serial, Resting
<1>2. file \in Droplet /\ UNCHANGED <<file, marker, row, job>>
  BY DEF StartSession, Reachable, OwnInv, TypeOK
<1>3. \A d \in Droplet : session[d] # p
  BY DEF StartSession, OwnInv, Once, Early
<1>4. session'[file] = p /\ \A d \in Droplet : d # file => session'[d] = session[d]
  BY <1>2 DEF StartSession, OwnInv, TypeOK
<1>5. log'[file] = "none"
  BY <1>2 DEF StartSession, OwnInv, TypeOK
<1>6. Serial'
  BY <1>1 DEF Serial
<1>7. marker[p] = "none"
  BY DEF StartSession, OwnInv, Once, Early
<1>8. Once'
  BY <1>1, <1>2, <1>3, <1>4, <1>7 DEF OwnInv, Once, Early, Resting
<1>9. Polls'
  BY <1>1, <1>2, <1>4, <1>5 DEF Polls, Resting
<1>10. Exits'
  BY <1>2 DEF OwnInv, Exits
<1> QED
  BY <1>6, <1>8, <1>9, <1>10 DEF OwnInv

\* What a script reads, and the row it writes of it, are its own session's.
LEMMA ExitsStep ==
  ASSUME OwnInv, NEW p \in Pipe, PipeStep(p)
  PROVE  Exits'
<1> USE DEF OwnInv, TypeOK, Exits
<1>1. CASE /\ UNCHANGED <<marker, row>>
           /\ \A q \in Pipe : job'[q].exit \in {job[q].exit, "bad", "none"}
  BY <1>1
<1>2. job[p] \in Job
  OBVIOUS
<1>3. CASE ReadStatus(p)
  <2>1. CASE UNCHANGED job
    BY <1>1, <1>3, <2>1 DEF ReadStatus, World
  <2>2. CASE Finished /\ job' = [job EXCEPT ![p].exit = log[file]]
    <3>1. log[file] = "ok" => marker[p] = "ok"
      BY <1>3, <2>2 DEF ReadStatus, Finished, Reachable, Polls
    <3>2. job'[p].exit = log[file] /\ \A q \in Pipe : q # p => job'[q] = job[q]
      BY <1>2, <2>2 DEF Job
    <3> QED
      BY <1>3, <3>1, <3>2 DEF ReadStatus, World
  <2> QED
    BY <1>3, <2>1, <2>2 DEF ReadStatus
<1>4. CASE Finalize(p)
  <2>1. UNCHANGED <<job, marker>> /\ row' = [row EXCEPT ![p] = RowOf(job[p].exit)]
    BY <1>4 DEF Finalize, World
  <2>2. RowOf(job[p].exit) = "completed" => job[p].exit = "ok"
    BY DEF RowOf
  <2> QED
    BY <2>1, <2>2
<1>5. CASE UNCHANGED <<job, marker, row>>
  BY <1>5
<1>6. CASE TakeLock(p) \/ Bootstrap(p) \/ WriteState(p) \/ Fetch(p)
  <2>1. \A q \in Pipe : job'[q].exit = job[q].exit
    BY <1>2, <1>6 DEF TakeLock, Bootstrap, WriteState, Fetch, Job
  <2> QED
    BY <1>1, <1>6, <2>1 DEF TakeLock, Bootstrap, WriteState, Fetch, World
<1>7. ASSUME NEW d \in Droplet, Create(p, d) PROVE Exits'
  <2>1. \A q \in Pipe : job'[q].exit = job[q].exit
    BY <1>2, <1>7 DEF Create, Job
  <2> QED
    BY <1>1, <1>7, <2>1 DEF Create
<1>8. CASE BakeClear(p)
  <2>1. \A q \in Pipe : job'[q].exit = job[q].exit
    BY <1>2, <1>8 DEF BakeClear, Job
  <2> QED
    BY <1>1, <1>8, <2>1 DEF BakeClear
<1>9. CASE ProvisionFails(p) \/ StartFails(p) \/ FetchFails(p)
  <2>1. job'[p].exit = "bad" /\ \A q \in Pipe : q # p => job'[q] = job[q]
    BY <1>2, <1>9 DEF ProvisionFails, StartFails, FetchFails, Job
  <2> QED
    BY <1>1, <1>9, <2>1 DEF ProvisionFails, StartFails, FetchFails, World
<1>10. CASE Crash(p)
  <2>1. job'[p].exit = "none" /\ \A q \in Pipe : q # p => job'[q] = job[q]
    BY <1>10 DEF Crash, NoJob
  <2> QED
    BY <1>1, <1>10, <2>1 DEF Crash, World
<1> QED
  BY <1>3, <1>4, <1>5, <1>6, <1>7, <1>8, <1>9, <1>10
     DEF PipeStep, StartSession, ProbeSession, MaxHours, BakeOff, BakeOn, BakeFails,
         Destroy, DestroyFails, Forget, World, Deleted

\* Every step of a pipeline keeps the invariant.
LEMMA PipeOwn ==
  ASSUME OwnInv, TypeOK', NEW p \in Pipe, PipeStep(p)
  PROVE  OwnInv'
<1>1. Exits'
  BY ExitsStep
<1>2. \A q \in Pipe : q # p => pc[q] \in Resting
  <2>1. CASE pc[p] \notin Resting
    BY <2>1 DEF OwnInv, Serial
  <2>2. CASE pc[p] \in Resting
    <3>1. TakeLock(p)
      BY <2>2
         DEF Resting, PipeStep, Create, WriteState, Bootstrap, StartSession,
             ProvisionFails, StartFails, ReadStatus, ProbeSession, MaxHours, Fetch, FetchFails, Finalize,
             BakeClear, BakeOff, BakeOn, BakeFails, Destroy, DestroyFails, Forget, Crash
    <3> QED
      BY <3>1 DEF TakeLock
  <2> QED
    BY <2>1, <2>2
<1> USE DEF Goto, Early
<1>3. CASE /\ UNCHANGED <<session, marker>>
           /\ \E label \in {"boot", "run", "created", "provision", "fetch", "final", "done",
                            "destroy", "bake", "off", "on", "dead"} :
                pc' = [pc EXCEPT ![p] = label] /\ (label \in Early => pc[p] \in Early)
  BY <1>1, <1>2, <1>3, OwnFrame
<1>4. CASE TakeLock(p) \/ Bootstrap(p) \/ WriteState(p) \/ \E d \in Droplet : Create(p, d)
  BY <1>3, <1>4 DEF TakeLock, Bootstrap, WriteState, Create, World
<1>5. CASE ProvisionFails(p) \/ StartFails(p) \/ Fetch(p) \/ FetchFails(p) \/ Finalize(p) \/ Crash(p)
  BY <1>3, <1>5 DEF ProvisionFails, StartFails, Fetch, FetchFails, Finalize, Crash, World
<1>6. CASE BakeClear(p) \/ BakeOn(p) \/ BakeFails(p) \/ DestroyFails(p) \/ Forget(p)
  BY <1>3, <1>6 DEF BakeClear, BakeOn, BakeFails, DestroyFails, Forget, World
<1>7. CASE ReadStatus(p) \/ ProbeSession(p)
  <2>1. PICK label \in {"poll", "probe", "fetch"} : pc' = [pc EXCEPT ![p] = label]
    BY <1>7 DEF ReadStatus, ProbeSession
  <2>2. pc[p] \in {"poll", "probe"} /\ UNCHANGED <<file, session, log, marker>>
    BY <1>7 DEF ReadStatus, ProbeSession, World
  <2> QED
    BY <1>1, <1>2, <2>1, <2>2, OwnFrame
<1>8. CASE MaxHours(p) \/ BakeOff(p) \/ Destroy(p)
  <2>1. PICK label \in {"fetch", "on", "forget"} : pc' = [pc EXCEPT ![p] = label]
    BY <1>8 DEF MaxHours, BakeOff, Destroy
  <2>2. \A d \in Droplet : session'[d] \in {session[d], None}
    BY <1>8 DEF MaxHours, BakeOff, Destroy, Deleted, OwnInv, TypeOK
  <2>3. UNCHANGED marker
    BY <1>8 DEF MaxHours, BakeOff, Destroy, Deleted
  <2> QED
    BY <1>1, <1>2, <2>1, <2>2, <2>3, OwnFrame
<1> QED
  BY <1>4, <1>5, <1>6, <1>7, <1>8, StartSessionOwn DEF PipeStep

\* The research session writes its trailer to its own log.
LEMMA SessionEndsOwn ==
  ASSUME OwnInv, TypeOK', NEW d \in Droplet, SessionEnds(d)
  PROVE  OwnInv'
<1> DEFINE q == session[d]
<1>1. q \in Pipe /\ marker[q] = "none" /\ \A c \in Droplet : session[c] = q => c = d
  BY DEF SessionEnds, OwnInv, TypeOK, Once
<1>2. PICK exit \in {"ok", "bad"} :
        /\ log' = [log EXCEPT ![d] = IF @ = "absent" THEN @ ELSE exit]
        /\ marker' = [marker EXCEPT ![q] = exit]
  BY DEF SessionEnds
<1>3. /\ session' = [session EXCEPT ![d] = None]
      /\ UNCHANGED <<drop, old, file, row, pc, job, watch>>
  BY DEF SessionEnds
<1>4. marker'[q] = exit /\ \A p \in Pipe : p # q => marker'[p] = marker[p]
  BY <1>1, <1>2 DEF OwnInv, TypeOK
<1>5. session'[d] = None /\ \A c \in Droplet : c # d => session'[c] = session[c]
  BY <1>3 DEF OwnInv, TypeOK
<1>6. log'[d] \in {exit, "absent"} /\ \A c \in Droplet : c # d => log'[c] = log[c]
  BY <1>2 DEF OwnInv, TypeOK
<1>7. Serial'
  BY <1>3 DEF OwnInv, Serial
<1>8. Once'
  <2>1. pc[q] \notin Early
    BY <1>1 DEF OwnInv, Once
  <2> QED
    BY <1>1, <1>3, <1>4, <1>5, <2>1, NoneAssumption DEF OwnInv, Once
<1>9. Polls'
  <2> SUFFICES ASSUME NEW p \in Pipe, pc[p] \in {"poll", "probe"}, file # None
               PROVE  /\ session'[file] \in {p, None}
                      /\ log'[file] = "ok" => marker'[p] = "ok"
    BY <1>3 DEF Polls
  <2>1. /\ session[file] \in {p, None} /\ file \in Droplet
        /\ log[file] = "ok" => marker[p] = "ok"
    BY DEF OwnInv, Polls, TypeOK
  <2>2. CASE file = d
    BY <1>1, <1>4, <1>5, <1>6, <2>1, <2>2, NoneAssumption
  <2>3. CASE file # d
    BY <1>1, <1>4, <1>5, <1>6, <2>1, <2>3
  <2> QED
    BY <2>2, <2>3
<1>10. Exits'
  BY <1>1, <1>3, <1>4 DEF OwnInv, Exits
<1> QED
  BY <1>7, <1>8, <1>9, <1>10 DEF OwnInv

\* A session may die and worker.env may be unlinked under a pipeline that polls.
LEMMA OutsideOwn ==
  ASSUME OwnInv, TypeOK', UNCHANGED <<log, marker, row, pc, job>>,
         \A d \in Droplet : session'[d] \in {session[d], None},
         file' \in {file, None}
  PROVE  OwnInv'
<1>1. Serial' /\ Exits'
  BY DEF OwnInv, Serial, Exits
<1>2. Once'
  BY NoneAssumption DEF OwnInv, Once
<1>3. Polls'
  BY DEF OwnInv, Polls, TypeOK
<1> QED
  BY <1>1, <1>2, <1>3 DEF OwnInv

LEMMA OwnStep == OwnInv /\ [Next]_vars => OwnInv'
<1> SUFFICES ASSUME OwnInv, [Next]_vars PROVE OwnInv'
  OBVIOUS
<1>1. TypeOK'
  BY TypeStep DEF OwnInv
<1>2. CASE UNCHANGED vars
  BY <1>1, <1>2, OutsideOwn DEF vars
<1>3. ASSUME NEW d \in Droplet, SessionDies(d) \/ Age(d) PROVE OwnInv'
  <2>1. /\ UNCHANGED <<file, log, marker, row, pc, job>>
        /\ \A c \in Droplet : session'[c] \in {session[c], None}
    BY <1>3 DEF SessionDies, Age, OwnInv, TypeOK
  <2> QED
    BY <1>1, <2>1, OutsideOwn
<1>4. CASE Watchdog
  <2>1. UNCHANGED <<log, marker, row, pc, job>> /\ file' \in {file, None}
    BY <1>4 DEF Watchdog, WatchMisses, WatchUnlinks, WatchFinds, WatchDestroys,
                WatchFails, WatchForgets, World, Pipes, Deleted
  <2>2. \A c \in Droplet : session'[c] \in {session[c], None}
    BY <1>4 DEF Watchdog, WatchMisses, WatchUnlinks, WatchFinds, WatchDestroys,
                WatchFails, WatchForgets, World, Deleted, OwnInv, TypeOK
  <2> QED
    BY <1>1, <2>1, <2>2, OutsideOwn
<1> QED
  BY <1>1, <1>2, <1>3, <1>4, PipeOwn, SessionEndsOwn DEF Next

LEMMA OwnInit == Init => OwnInv
  BY TypeInit, NoneAssumption
     DEF Init, OwnInv, Serial, Once, Polls, Exits, NoJob, Resting

\* A completed row is never due to the trailer of an earlier run on the same
\* worker: the run's own session wrote exit 0.
THEOREM CompletedOwn == Spec => []CompletedIsOwn
<1>1. OwnInv => CompletedIsOwn
  BY DEF OwnInv, Exits, CompletedIsOwn
<1> QED
  BY <1>1, OwnInit, OwnStep, PTL DEF Spec

-----------------------------------------------------------------------------
(* The image a worker boots from, whatever images, stock and plan there are *)

\* Of finitely many images one is as new as any: of the sets of those at least
\* as new as one of them, a smallest belongs to the newest.
LEMMA NewestExists ==
  ASSUME NEW S, IsFiniteSet(S), S # {}, \A i \in S : i.at \in Nat
  PROVE  \E i \in S : \A j \in S : j.at <= i.at
<1> DEFINE From(i) == {j \in S : i.at <= j.at}
           Tails == {From(i) : i \in S}
<1>1. IsWellFoundedOn(StrictSubsetOrdering(S), SUBSET S)
  BY FS_StrictSubsetOrderingWellFounded, FS_FiniteSubsetsOfFinite
<1>2. Tails \subseteq SUBSET S /\ Tails # {}
  OBVIOUS
<1>3. PICK T \in Tails : \A U \in Tails : <<U, T>> \notin StrictSubsetOrdering(S)
  <2> HIDE DEF Tails
  <2> QED
    BY <1>1, <1>2, WFMin
<1>4. PICK i \in S : T = From(i)
  OBVIOUS
<1>5. ASSUME NEW j \in S, ~(j.at <= i.at) PROVE FALSE
  <2>1. i.at < j.at /\ i.at \in Nat /\ j.at \in Nat
    BY <1>5
  <2>2. From(j) \subseteq From(i) /\ i \in From(i) /\ i \notin From(j)
    BY <2>1
  <2>3. <<From(j), From(i)>> \in StrictSubsetOrdering(S)
    BY <2>2 DEF StrictSubsetOrdering
  <2> QED
    BY <1>3, <1>4, <2>3
<1> QED
  BY <1>5

LEMMA SelectIs ==
  ASSUME NEW images, IsFiniteSet(images), \A i \in images : i.at \in Nat,
         NEW hash, NEW region
  PROVE  LET image == Select(images, hash, region)
         IN  \/ image = Stock
             \/ image \in images /\ image.hash = hash /\ region \in image.regions
<1> DEFINE matching == Matching(images, hash, region)
<1>1. matching \subseteq images /\ IsFiniteSet(matching)
  BY FS_Subset DEF Matching
<1>2. CASE matching = {}
  BY <1>2 DEF Select
<1>3. CASE matching # {}
  <2>1. Select(images, hash, region) \in matching
    BY <1>1, <1>3, NewestExists DEF Select
  <2> QED
    BY <2>1 DEF Matching
<1> QED
  BY <1>2, <1>3

\* Whatever the plan, what is in stock and what images there are, a worker boots
\* from an image of the region it is in and of the inputs of its launch, or from
\* the stock image; and without a hash from the stock image
\* (provision_with_fallback, select_snapshot).
THEOREM BootsAsNeeded ==
  ASSUME NEW images, IsFiniteSet(images), \A i \in images : i.at \in Nat,
         NEW plan, NEW n \in Nat, DOMAIN plan = 1 .. n, NEW stocked, NEW hash
  PROVE  LET boot == Provisioned(plan, stocked, images, hash)
         IN  boot # <<>> =>
               /\ boot[1] \in stocked
               /\ \/ boot[2] = Stock
                  \/ /\ boot[2] \in images
                     /\ boot[2].hash = hash /\ hash # NoHash
                     /\ boot[1] \in boot[2].regions
<1> DEFINE inStock == {k \in DOMAIN plan : plan[k] \in stocked}
           first == CHOOSE k \in inStock : \A l \in inStock : k <= l
<1>1. CASE inStock = {}
  BY <1>1 DEF Provisioned
<1>2. CASE inStock # {}
  <2>1. first \in inStock
    <3>1. \E k \in inStock : \A l \in inStock : k <= l
      <4>1. inStock \subseteq Nat
        OBVIOUS
      <4> HIDE DEF inStock
      <4>2. PICK k \in inStock : \A l \in inStock : ~(<<l, k>> \in OpToRel(<, Nat))
        <5>1. IsWellFoundedOn(OpToRel(<, Nat), Nat)
          BY NatLessThanWellFounded
        <5> QED
          BY <1>2, <4>1, <5>1, WFMin
      <4>3. \A l \in inStock : ~(l < k)
        BY <4>1, <4>2 DEF OpToRel
      <4> QED
        BY <4>1, <4>3
    <3> QED
      BY <3>1
  <2>2. Provisioned(plan, stocked, images, hash)
          = <<plan[first], BootImage(images, hash, plan[first])>>
    BY <1>2 DEF Provisioned
  <2> HIDE DEF first
  <2>3. plan[first] \in stocked
    BY <2>1
  <2> QED
    BY <2>2, <2>3, SelectIs DEF BootImage
<1> QED
  BY <1>1, <1>2

\* A full bootstrap is paid once: whatever images there were before a bake,
\* after it and the pruning that follows, whichever of its deletions fail, the
\* next launch of the same inputs in the region boots from what was baked and
\* bakes nothing (cmd_snapshot, prune_snapshots, rebake_needed).
THEOREM BakeIsReused ==
  ASSUME NEW images, NEW baked, NEW failed, baked # Stock,
         \A i \in images \cup {baked} : i.at \in Nat,
         \A i \in images : i.at < baked.at,
         NEW hash, hash # NoHash, NEW region,
         baked.hash = hash, region \in baked.regions
  PROVE  LET superseded == Superseded(images \cup {baked})
             left == (images \cup {baked}) \ (superseded \ failed)
         IN  /\ BootImage(left, hash, region) = baked
             /\ \A bootstrapped, reused :
                  ~RebakeNeeded("auto", BootImage(left, hash, region), bootstrapped, reused)
<1> DEFINE all == images \cup {baked}
           left == all \ (Superseded(all) \ failed)
           matching == Matching(left, hash, region)
<1>1. \A i \in all : i.at <= baked.at /\ (baked.at <= i.at => i = baked)
  OBVIOUS
<1>2. baked \notin Superseded(all)
  <2>1. {j \in all : j.at > baked.at} = {}
    BY <1>1
  <2>2. Cardinality({j \in all : j.at > baked.at}) = 0
    BY <2>1, FS_EmptySet
  <2> HIDE DEF all
  <2> QED
    BY <2>2, BaseImagesAssumption DEF Superseded
<1>3. baked \in matching /\ matching \subseteq all
  BY <1>2 DEF Matching
<1>4. Select(left, hash, region) = baked
  <2>1. \A i \in matching : i.at <= baked.at /\ (baked.at <= i.at => i = baked)
    BY <1>1, <1>3
  <2> HIDE DEF matching
  <2>2. \A i \in matching : (\A j \in matching : j.at <= i.at) => i = baked
    BY <1>3, <2>1
  <2>3. (CHOOSE i \in matching : \A j \in matching : j.at <= i.at) = baked
    BY <1>3, <2>1, <2>2
  <2> QED
    BY <1>3, <2>3 DEF Select, matching
<1>5. BootImage(left, hash, region) = baked
  BY <1>4 DEF BootImage
<1> QED
  BY <1>5 DEF RebakeNeeded
=============================================================================
