# A verification development of the quant agent

TLA+ modules for the control of this repository: a Slack-driven research loop
that backtests strategies on a rented GPU droplet, promotes one of them, and
trades it on a paper account every weekday morning. The numerical work (qlib,
LightGBM, price adjustment) is left to its tests. What is modelled is what
several processes do to a few shared files, tables and broker-side objects, with
nothing but `O_EXCL`, SQLite and `systemd-run` between them.

Paths are relative to the repository (`ops/run_lock.py` is
`src/ops/run_lock.py`). `PROJECT.json` lists the components, the runs, the
mutants, the line-by-line map from definitions to source, the hazards and the
theorems.

## 1. The system

| Component | State it keeps | Operations |
| --- | --- | --- |
| GPU run lock, `ops/run_lock.py` | one lock file: run id, unit, pid, host | `acquire_lock`, `check_lock`, `release_lock` |
| GPU pipeline, `ops/gpu_pipeline.py` | its process; `worker.env`; `pipeline_status.json`; its `runs` row | provision, bootstrap, start, poll, fetch, `gate_and_promote`, `finalize_run_row`, destroy |
| Chat tools, `orchestrator/conversation.py`, `promotion.py`, `universe.py`, `approvals.py` | rows of `state.sqlite`; approvals in memory | `start_research`, `stop_run`, `set_universe`, `confirm_*`, `halt_trading`, `resume_trading` |
| State store, `orchestrator/state.py` | `directives`, `runs`, `promoted_strategy`, `promotion_history`, `universes` | one transaction per method |
| Run reaper, `orchestrator/run_reaper.py` | `first_dead` marks in memory | `tick`: fail the rows of dead units after a grace |
| Promotion routes, `ops/promote_fetched.py`, `ops/rollback_promotion.py`, `orchestrator/promotion.py`, `gate_and_promote` | the pointer, the history; snapshot files in a workspace | gate, snapshot, flip |
| Sweep, `ops/sweep.py` | the workspaces on disk | plan, delete |
| Rebalancer, `execution/rebalance.py`, `diff.py`, `order_gate.py` | its process; orders at the broker | snapshot, plan, gate, breaker, submit, poll, record, summary |
| Trade ledger and account log, `execution/ledger.py`, `account_log.py` | Notion rows | `record_submitted`, `record_final`, `record_account_snapshot` |
| Circuit breaker, `execution/breaker.py`; divergence check, `execution/divergence.py` | the halt file; the high-water mark | `check`, `write_halt_file` |
| Flatten, `ops/flatten.py`; reconcile, `ops/reconcile.py` | their processes | cancel all, close all, confirm; compare, patch |
| Worker and watchdog, `ops/gpu_worker/gpu_worker.sh`, `ops/gpu_watchdog.py` | `worker.env`, the droplet | provision, destroy, reap |
| Data store, `data/refresh.py`, `build_store.py`; universes, `orchestrator/universe.py`, `data/make_universe.py`, `make_factor_source.py` | the qlib store under three names (`<store>`, `.tmp`, `.old`); universe files inside it; factor sources; the `universes` table | nightly `refresh_store`, `extend_store` and `materialize` for a confirmed universe, `build_from_fmp`, `_swap_into_place` |
| News, `data/build_news.py` | archive and checkpoint per ticker; the `$news_ct_1d` bins | `backfill_ticker`, `advance_ticker`, `daily_counts` |
| Signal and refresh, `execution/signal.py`, `promoted.py`, `pred_refresh.py` | the runs in a workspace's mlflow tree, the pred-refresh snapshot, containers | select, re-predict, self-check, prune |
| Promotion gate, `ops/promotion_gate.py`, `confirm_window.py` | none of its own; writes runs into the same tree | load artifacts, compare, simulate the confirmation window |
| Base images, `ops/gpu_snapshot.py` | images at the provider | hash, select, bake, prune |
| Run memory, `orchestrator/run_memory.py`, `ops/notion_summary.py` | none of its own; reads notes, runs and directives | digest, compose, split; write and read a note |
| Approvals bridge, `orchestrator/approvals.py` | `_posted` in memory; messages in the channel; requests at OneCLI's gateway | poll, post, decide, prune |

**How they interact.** The bot process (`orchestrator`) runs its tool handlers in
threads and launches each pipeline as a transient systemd unit named after the
Slack thread; handler and pipeline then share the `runs` row, the run lock, the
worker's tmux session and a status file. The pipeline, two command line tools and
the chat move the promoted pointer in one SQLite file; the weekly sweep deletes
directories the pointer and the history name. The rebalancer reads the pointer
and the workspace's predictions at 08:00, talks to the broker over HTTP and
writes the ledger best-effort; an operator may halt, flatten or rerun by hand
from another process at any time, and the reconciliation compares broker and
ledger after the close.

**What is hard about it.** Every lock, look-before-write and read-then-update
spans several system calls of processes that can be killed between any two:
SIGTERM from `stop_unit` and SIGKILL run no `finally` block. Replies of the broker
and of Notion are lost after the write took effect. Evaluations take minutes
between a read and the write that depends on it. Marks kept in memory vanish at a
restart, bounded histories run out, and time-outs race late answers.

**What makes each component correct.**

- *Run lock*: two pipelines never drive the one droplet together; a dead owner
  never blocks the next run for good; a live owner's record is not taken for a dead
  one's. The first the code does not keep (section 5).
- *Run rows*: a working run has a row that says so; a finished row never changes;
  a dead run's row is failed in the end, a live one's never.
- *Promotion*: the strategy that trades is the one the newest audit row names; it
  and its predecessors are on disk; its row names whom it replaced; it can be
  re-predicted. That its gate verdict compares it with that one the code does not
  keep (section 5).
- *Trading day*: no rerun doubles an order; the order count and the funds are
  respected across runs; the ledger is complete, or the reconciliation says it is
  not; a flat account stays flat while the halt lasts.
- *Breaker*: the mark never forgets a peak a run has traded on; a drawdown or a
  halt stops runs.
- *Worker*: no droplet stays up and unknown, there is one at a time, and a run is
  judged by its own session. The watchdog may still destroy one under a live run
  (section 5).
- *Data store*: what a reader opens is complete and valid at every moment; no
  rebuild loses a bar, a ticker or a universe member; a closed membership stays
  closed; a confirmed universe is what research runs on; the store catches up with
  the vendor; each article counts once, on the first close that could know it.
- *Predictions*: what the refresh has checked is what the rebalance trades; the gate
  judges a strategy on predictions that are that strategy's.
- *Gate*: the same evidence never lets two strategies replace each other in turns.
- *Run memory*: a run is told the newest runs after its whole directive, and leaves a
  record of the directive only.
- *Approvals*: every held request is shown while it can be decided, once; the
  decisions the operator is told of are the gateway's; settled requests are forgotten.

## 2. The modules

| Module | Models | State in the code |
| --- | --- | --- |
| `RunLock` | the lock at the granularity of system calls: exclusive create, write, read, probe, unlink | `file` is the lock file (who created it, whether the record is in it yet), `pc` where each process is in `acquire_lock`/`check_lock`/`release_lock`, `seen` its local `LockInfo`, `reused` the pids the host gave away again |
| `Mutex` | what the lock promises: the abstract specification | the owner |
| `RunRows` | handlers, pipeline units, reaper | `row` is `runs.status`, `pipe` the unit, `lock` the run lock's owner, `session` the tmux session, `status` the owner of the status file, `dead` the reaper's `first_dead` in ticks, `reaping` the local list of a tick |
| `Promotion` | four routes and the sweep | `pointer` is `promoted_strategy`, `history` is `promotion_history`, `tree`/`age`/`snap` the workspaces as the code's `is_dir`, mtime and snapshot checks see them, `job` the locals of each route, `plan` the sweep's |
| `TradingDay` | runs, ledger, flatten, reconciliation of one day; broker and market as environment | `order` is the broker's status of each order, `ledger` the rows per order by their Status, `acct` the snapshot rows, `job` a run's locals, `flat` the flatten's, `halt` the halt file |
| `Breaker` | the halt file and the high-water mark | `halt`, `mark`, `tmp` are the files; `read` a run's equity; `peak` and `halted` are history variables |
| `Worker` | the one GPU droplet: pipelines through `gpu_worker.sh`, and the watchdog | `drop` is what each droplet is, `file` is `worker.env`, `session`/`log` the tmux session and the exit trailer in the run log of each droplet, `row` the run rows, `job` a pipeline's locals and the `DROPLET_ID` of the subcommand under way, `watch` the watchdog's tick; `marker` is a history variable: the trailer each run's own session wrote |
| `Register` | what routes, rollback and sweep promise together: the abstract specification of `Promotion` | the current strategy, the trail, what is available |
| `DataStore` | the nightly refresh, a thread's confirmation and the operator's build, on one store, at the granularity of the file system calls of the swap | `at`, `tmp`, `old` are what the three paths name, a store being its bars by date and its universe files by last date; `proc` a builder's locals, `asked` the `universes` table, `source` factor source and templates; `vendor` what FMP serves by now; `rebuilt` is a history variable |
| `StoreRegister` | what the builders promise the readers of the store: the abstract specification of `DataStore` | the store shown, what the next one has to carry |
| `News` | archive, checkpoint and counts of the news | `archive`, `window`, `counts` are the files, `fill` the backfill between its writes, `stored` each ticker's last bar; `zeroed` is a history variable |
| `Predictions` | refresh, gate and rebalance over one mlflow tree, and the containers that write it | `runs` are the prediction runs of each workspace by mtime, `snap` its snapshot, `container` what docker runs, `refresh`, `gate`, `rebal` the processes' locals; `match`, `checked`, `beaten`, `trade` are history variables |
| `Approvals` | the polling thread, the listener threads, the gateway and the channel | `posted` is `_posted`, `poll` and `click` the threads' locals, `gate` and `late` the gateway, `shown` and `told` the channel |
| `Gate` | the verdict of the promotion gate and what the loaders make of a workspace's files, as operators | |
| `Selection` | `topk_dropout_holdings` as operators | |
| `ConfirmWindow` | the books of the confirmation window, name by name, as a recursive function of the day | |
| `Membership` | point-in-time membership spans and their nightly continuation, as operators | |
| `Series` | adjustment factors, and the market series a rebuild fills, reads back, extends, introduces and deepens, as operators | |
| `OrderMath` | sizes, limit prices, the cap by buying power, the gate's limits and the decimal form, as operators | |
| `Divergence` | the verdict of the divergence check, as operators | |
| `BaseImages` | hash, choice, re-bake and pruning of base images, as operators | |
| `RunMemory` | instruction, note and digest of a run, as operators on texts | |
| `MCRunLock`, ..., `MCApprovals` | constants for TLC; `MCRunRows`, `MCDataStore`, `MCTradingDay`, `MCPredictions`, `MCBreaker` and `MCWorker` also check the modules of operators, by named assumptions over every input of a small size | |
| `RunRows_proofs`, `Promotion_proofs`, `TradingDay_proofs`, `Worker_proofs`, `Predictions_proofs`, `Controls_proofs`, `DataStore_proofs`, `News_proofs` | theorems. `RunRows_proofs` has a part about `RunLock`, which its runs take, and one about `RunMemory`; `Controls_proofs` is about `Approvals` and `Breaker`, `TradingDay_proofs` has a part each about `OrderMath` and `Divergence`; `Worker_proofs` one about `BaseImages`, `Predictions_proofs` one about `ConfirmWindow` and `Selection`, `DataStore_proofs` one about `Series` | |

Operators are named after the functions they stand for (`StartSession`,
`FlattenConfirm`, `RecordFinal`, ...) and every one has its lines in
`PROJECT.json`. A definition under a comment that begins with "Faulty variant" is
used by no specification: it is the definition after it with a plausible bug (a
dropped guard, a swapped order, a missing reset), and every property of a passing
run is checked to fail when one of them is put in its place.

**Composition.** `RunLock` implements `Mutex`; `RunRows` uses the lock in the form
`Mutex` gives it (one step, broken when its owner is dead), and so does `Worker`; this is justified
as far as that refinement holds (section 4). `Worker` details the session that
`RunRows` has as one variable. `TradingDay` contains the breaker as the
halt file and a free choice of a trip, which `Breaker` details. `Promotion` and
`RunRows` meet in the row a promotion is made from: `FinalRowStable` is what
`Promotion` relies on when it lets a fetched workspace be promoted. `Promotion`
implements `Register` as long as nothing but its gate evaluations overlaps other work, and `DataStore`
`StoreRegister` as long as its builders do not. `Predictions` extends
`Gate` and takes its verdict from it; the pointer, one variable there, is what
`Promotion` details. `ConfirmWindow` extends `Selection`, as the simulation calls
`topk_dropout_holdings`, and says on which windows the evidence of `Predictions`
exists. `DataStore` and `News` are the two halves of `refresh_store`: bars and
universes, and the counts that are carried through the same rebuild; the `store` of
`Predictions` is the last day of the former. `Membership` says how the spans come about whose ends `DataStore`
moves, and `Series` why it may take a market series to have a value on every day of a
store. `OrderMath` computes the batches `TradingDay` chooses from.
`Divergence` decides the halt `Breaker` writes, `BaseImages` what a droplet of
`Worker` boots from, and `RunMemory` what a launch of `RunRows` passes on.

## 3. What is checked

| Run | Properties | What it shows |
| --- | --- | --- |
| `lock_any` | `LiveRecordKept`, `NeverWedged` | two launches of one unit, a manual pipeline and a handler interleave at every system call and die anywhere |
| `promo_apart` | `PromotedCanRefresh`, `ImplementsRegister` | all four routes and the sweep over any sequence; any number of gate evaluations, which take minutes to hours, with everything else falling inside them, and the short parts one at a time. The refinement says that the promoted workspace and the protected ones stay on disk and that the rows form a chain (`PromotedOnDisk`, `RecentOnDisk`, `ReplacedIsPredecessor`) |
| `rows_any` | `WorkingRunIsRecorded`, `FinalRowStable`, `ReaperSparesLive`, `CancelSparesOthers`, `DeadRunResolved` | two threads, three handlers, crashes, an orchestrator restart, failing ticks and notes |
| `day_any` | `NoOrderTwice`, `CleanMeansMatch`, `FlatStaysFlat` | two overlapping runs, two flattens, lost replies, failing and doubled ledger writes, failing repairs |
| `day_alone` | `DayOrdersBounded`, `BatchFunded`, `OneCompleteRow` | a run and a rerun, one after the other, with crashes and failing writes |
| `breaker_serial` | `PeakOnFile`, `DrawdownStops` | runs one after the other, killed anywhere, while operator and divergence check halt and resume |
| `worker_any` | `KnownDroplet`, `OneWorker`, `CompletedIsOwn`, `BillingStops` | pipelines one after the other on two droplets, killed anywhere, keeping, reusing or failing to destroy their worker, with failing fetches, deletes and ssh calls, while the watchdog ticks: it may find one droplet and, after its fetch, destroy and forget the next |
| `store_apart` | `NeverPartial`, `CopyRemains`, `ImplementsStores`, `SpansFollow`, `ExtendFits`, `ConfirmedIsBuilt`, `CatchesUp` | nightly refresh, two confirmations and the operator's build, one at a time, with failing fetches, bars that land out of order, market outages and a builder killed between any two steps of the swap. The refinement says that a reader finds a whole store or none, that a store carries the bars and members of the one shown before it, however often builders die in between, and that in between only a universe is written |
| `news_any` | `CheckpointCovers`, `CountsExact`, `Gapless` | any set of articles, on trading days and others, before and after the cutoff; nights, failing requests, an added ticker, and a backfill killed between its writes |
| `predictions_any` | `GatedIsFaithful`, `NeverInTurns`, `CheckedIsTraded` | refresh, gate and rebalance over five days, with containers that fail, time out, outlive their process or collide by name, snapshots cut short or made from another conf, and promotions by hand |
| `approvals_any` | `OnePending`, `ToldIsTrue`, `EventuallyShown`, `Forgotten` | two requests, a click, the web UI, expiry, a failed or ambiguous call and a restart anywhere |
| `lock_race` | `MutualExclusion`, violated | section 5 |

The modules of operators are checked by assumptions that TLC evaluates with these
runs: `LastDecisionHolds`, `NoLookahead` and `RolledIsRegenerated` (`store_apart`,
every price history of up to six days over three kinds of bars), `AdjustedStandsStill`,
`RefreshedIsRebuilt`, `FilledCountsAsObserved` and `StartKeepsStored` (`store_apart`,
every two events over four days, every series over every calendar of five),
`RerunOrdersTheRest`, `GateHolds`, `DeferredIsBought` and `WireIsClose` (`day_any` and
`day_alone`, every book of three symbols up to three shares, half shares among them),
`SelectionTurnsOver` and `WindowIsPriced` (`predictions_any`, every cross-section of
three names, every set of price series over three days), `DrawdownIsWorstPair`,
`DrawdownOutlastsResume` and `EarlierDoesNotCount` (`breaker_serial`, every equity
history of five days), `BootsWhatItNeeds` and `BakedIsBooted` (`worker_any`, every
set of up to three images), `MemoryLeavesNoTrace`, `SummaryReadsBack`, `NewestAreTold`
and `OwnStatusIsTold` (`rows_any`, every text of up to three symbols, every summary
cut into up to five pieces, up to three entries around the bound). Each states what the operators compute in other words
than the code does: the membership by the last evaluation that decides instead of a
state machine, the drawdown by the worst pair instead of a running peak, the adjustment
by a price that moves for splits and dividends only, the order list by what a rerun
after partial fills still orders.

Type invariants are stated in every module and proved for all of them; those of
`Predictions` and `Approvals` are the first part of a longer invariant.

### Bounds, and why they are enough

- `RunLock`: three pipelines and one handler. Two launches of one unit name are
  what `release_lock` tells apart only by name; the third, manual, has no unit to
  probe. `MaxAttempts` is 2 where the code has 3: one retry and one refusal
  after it already happen. Each process makes one acquisition; a second launch is
  another element of `Pipeline`.
- `Promotion`: two workspaces, because every property relates at most the pointer,
  a row and its predecessor; three or four history rows, so that at least one
  falls out of the protected `Kept = 2` (the code keeps 3; the violated run uses
  3). Two workspaces are interchangeable, so the runs use symmetry.
- `RunRows`: two threads, two handlers of one and one of the other: a start race
  needs two handlers, a wrong cancel needs two threads. Two launches, one restart,
  one missed tick. `Grace = 2` ticks where the code waits 900 s over ticks of 300 s:
  a first sighting, one tick of waiting, one that acts.
- `TradingDay`: `day_any` has one symbol, two runs and two flattens: everything it
  checks is per order and orders of different symbols meet only in the limits.
  `day_alone` has two symbols, for the limits. Every order trades one lot and fills
  whole.
- `Breaker`: two runs and equities 0 to 6 at a drawdown of 20 per cent: four is
  exactly at the limit below five and four is below it from six.
- `DataStore`: the store ends on day 4 and two more trading days and a day without bars follow, so
  that a refresh is due twice and a catch-up over two days occurs. Two threads, one crash. Ticker
  `c` has a day the store lacks, `g` a hole, `b` lands out of order, and one member
  of the point-in-time universe has left: each case of the code exists once.
- `News`: five dates, one of them no trading day; a stored and an added ticker; every
  subset of six articles.
- `Predictions`: two workspaces, a confirmation window of two days, five days, three
  runs kept on disk and one refresh run kept by the pruning: a second refresh
  already prunes. Two containers at a time are a timed-out one and its successor.
  The strategies' returns on shared days are equal and negative, where the margin
  favours each over the other; which workspaces the conf matches is left open.
- `Approvals`: two requests, so that a round can stop at the first of them; one click,
  one failure and one restart each fall anywhere. The gateway is taken not to honour
  the `exclude` parameter, which lists more.
- `Worker`: two pipelines and two droplets: one that leaves a droplet, a log or a
  state file behind and one that finds it. Each pipeline runs once.

Bounds in guards (`MaxAttempts` excepted, which is the code's) exist for TLC only:
`MaxHistory`, `MaxLaunches`, `MaxRestarts`, `MaxMisses`, `MaxFlattens`, `Lots`,
`MaxEquity`, `MaxDay`, `MaxCrashes`, `MaxHands`, `MaxAlive`, `MaxRuns`, `MaxFaults`,
`MaxClicks`. `LaunchBound` ends a handler that the bound on launches has caught up
with. The runs of `TradingDay`, `Worker`, `DataStore`, `News`, `Predictions` and `Approvals` switch the deadlock check off: the
day ends, the runs on the worker do, and the days, requests and faults of the others run out.

### Assumptions on time

The code orders some things by duration only; the models say so in the guards
they need, and nowhere else.

- A handler takes seconds, a research session hours: `Finish` waits for the
  thread's handlers (`Quiet`), a tick of the reaper does not begin while a handler
  is past the launch of a row already running (`NoLateStart`), a session does not
  come up during a cancel (`StartSession`).
- A tick takes milliseconds between its list and its probe: `TickMayStall = FALSE`
  in `rows_any`; section 5 says what happens otherwise.
- A workspace does not age fourteen days during one promotion (`Age`).
- In `promo_apart` a promotion past its gate (snapshot, select, flip, late snapshot) and
  a sweep do not overlap: seconds to a few minutes each, at most a few times a week. An evaluation may overlap anything
  (`Busy`).
- The close finds no rebalance run under way (`Tick`), and the reconciliation
  comes after it. `Drained` says that the operator flattens only once no run is
  under way: `FlatStaysFlat` needs it.
- `worker.env` is not written in the seconds between doctl's answer to the watchdog,
  or to its `destroy`, and the removal of the file (`TickMayStall = FALSE` in `Worker`).
  In the minutes of the fetch before `destroy` it may be. Without the assumption the
  file of a droplet that bills can be removed, and `KnownDroplet` is violated.
- Builders of the store do not overlap (`Overlap = FALSE` in `store_apart`): the refresh
  runs at 04:30, confirmations when the operator asks for them. Nothing in the code
  keeps them apart; section 5 says what happens when they meet.
- The backfill of the news is not run again over a window it has fetched while the
  nightly pull runs (`Refetch = FALSE` in `news_any`).
- A second ledger row of one order may appear, never a third: only the write after
  the poll creates a row again.

### Fairness

- `RunLock!FairSpec`: a handler keeps asking, for somebody wants a run, and a living
  pipeline gets through the lock code. Nothing is assumed of how long a pipeline
  holds the lock or whether it is killed.
- `RunRows!FairSpec`: the reaper's loop never ends (`run_forever` catches every
  exception and sleeps), a handler that has begun ends, and Slack does not refuse
  every note: strong fairness of `ReaperFlip`, because `SlackFails` may disable it
  in between. Pipelines are not assumed to make progress.
- `Worker!FairSpec`: time passes (`Age`), the hourly timer fires and a tick ends
  (`Watchdog`), doctl does not refuse every delete (strong fairness of
  `WatchDestroys`), and a script that has created a droplet writes `worker.env`.
  Pipelines need not do anything else, and may be killed.
- `DataStore!FairSpec`: days pass and FMP publishes what it will ever have; the nightly
  timer fires and not every one of its fetches fails (strong fairness, because other
  builders come in between and a fetch may fail); a confirmation and a build that
  have begun end, unless killed.
- `Approvals!FairSpec`: the polling thread and a listener that has begun go on, and
  systemd starts the service again (`Restart=always`). Time is assumed to pass only
  for settled requests: otherwise expiry alone would settle each. Faults and restarts
  are bounded in number, which is what `EventuallyShown` means.
- `DeadRunResolved` is then that the row a dead pipeline left at running is failed,
  or the thread's pipeline lives again.

## 4. What is proved

The theorems hold for every set of processes, workspaces, symbols, tickers and
articles, and every bound. They assume the named assumptions of the modules'
constants, which TLC evaluates, and nothing else unless it is named here: a
restriction of the interleaving (`SerialSpec`, `ApartSpec`, `Overlap = FALSE`,
`~TickMayStall`) or of the failures (`Losses`, `Trusted`, `Drained`, `~Refetch`).
Section 5 shows for most of these properties what happens without the restriction.

- **`RunRows_proofs`, the lock.** Theorems about `RunLock` as an instance, its
  assumptions about its constants the hypothesis `Provided`. `LockTyped` under every
  interleaving. For `SerialSpec` (no two processes inside the lock code at once)
  `SerialMutualExclusion` and `SerialHolderOnDisk` follow from an inductive invariant that adds: whoever is
  about to write has the empty file on disk; whoever is about to unlink has read
  the record that is still there, and its owner is dead; nobody in the window is
  while somebody holds, unless the holder's record is complete. The properties alone
  are not inductive: a process about to unlink says nothing about what it read.
  `SerialImplementsMutex` maps every step to a `Take`, a `Drop` or a stutter of
  `Mutex`. `LiveRecord` holds for every interleaving, but says less: who is about to
  unlink has seen the owner of what it read dead, and nobody comes back from that. What
  stands at the path by then may be another's, as `lock_race` shows.
- **`RunRows_proofs`.** `TypeCorrect` and `OthersSpared` hold under every
  interleaving. The invariant is `Calm`: a pipeline still to finalize, or a handler
  under way, is of a row that is not final (`Unfinished`); whoever works is who the
  lock names (`Owner`); when a handler is about to cancel, no other thread's session
  works (`CancelAlone`), because the handler saw the lock free or its own, and to
  bring up a session takes minutes where the cancel takes seconds: a timing that
  `StartSession` has as a guard and the theorem rests on. For ticks within
  which no run ends (`~TickMayStall`), `Ticking` adds what the reaper holds: a thread
  on its list still runs, by its row or by its unit (`Listed`), the thread its note
  names is dead and nobody revives it (`Posted`), nothing is held between ticks
  (`Between`), and a unit that works has its row or the handler that is about to write
  it (`Recorded`). `LiveSpared`, `FinalStays` and `WorkRecorded` follow for every grace
  and every number of restarts and missed ticks.
- **`Promotion_proofs`.** `TypeCorrect` and `PointerAudited` under every
  interleaving: `Flip` is the only action that moves either, and moves both. The
  strengthening `Aimed` says that a process past its start has a target. For
  `ApartSpec`, where only gate evaluations overlap other work, `ApartInv` adds that what
  a process past its gate has read is still so
  (`JobsFresh`) and that the sweep's plan spares the pointer and the protected rows
  (`PlanSpares`); `ApartRecent` and `ApartPromoted` follow; what the gate read before is in none
  of them, for it may be stale.
  `ApartRefresh` needs that a snapshot once taken is removed with its workspace only,
  and that the promoted workspace is not removed.
- **`TradingDay_proofs`.** `NeverTwice`: under every interleaving of runs, reruns,
  crashes, lost replies and flattens no two orders of a day have one side and
  symbol. Lemma `OrderKept`: every step other than the two placements keeps the
  set of orders that exist; a placement has the broker's refusal of a used
  `client_order_id` as its guard. The proof needs no type invariant.

  The others share `Books`, for every interleaving and every loss: the types; what the
  open buys need is in the account (`Funded`), by counting; an order that never was
  has no row (`Unlisted`); after the close nothing is open and nobody works
  (`AfterClose`); and what each run remembers fits what it has done (`Tracks`: what it
  has placed is live and has as many rows as the run knows of, or one more than it knows).
  `TypeCorrect` follows. `CleanLedger` adds `Audited`: a clean verdict comes after the
  close, about a ledger that is right then and that nobody writes afterwards
  (`Reconciled` is about the repair). `DrainedFlat` adds `HaltHolds`: under the
  halt no run is past its check, so nothing is bought or opened. `RowsComplete` adds, for
  each run, that what it placed has one row, or none and is noted as such (`Completes`);
  it excludes the two losses that break it, a reply lost after the row was
  created and a failing last write, and no other. `DayBounded` and `FundsSuffice`, for
  runs that do not overlap, add that one run is at work (`SoleRun`) and that the live
  orders and what is left of its batch stay within what it has counted
  (`Within`): day orders, position and funds are read once and only the run's own
  placements change them until it ends, while fills free what they reserve.
- **`DataStore_proofs`.** `TypeCorrect` for every interleaving: each of the three paths
  names nothing, remains, or a store that is whole (`Paths`). The others are for one
  builder at a time and any number of threads, universes, tickers, days and crashes.
  The invariant says of every point of the swap which names hold what, and what the
  store in the making carries of the one it replaces: what a builder has read is still there
  (`Fetching`), its plan keeps every bar and member (`Planned`), whichever of
  the three names is whole at a given step has them (`Swapping`, `Promised`), and a confirmation is
  about what its thread has asked (`Asking`, `Making`). `ApartWhole` is not inductive
  without `Swapping`: `.tmp` has to be whole before it is moved. `RefreshCarries` and
  `ExtensionFits` are the facts about the operators: a refresh keeps every bar, member and exit and moves
  the open ends; an extension does too, adds no day and passes validation. Two findings came of these proofs. A
  confirmation repeated for the same name legitimately takes members out of
  that universe, so `NothingLost` speaks of the swap and of the universes no thread confirms,
  and `StoreRegister` has an action for it.
  `ApartConfirmed` needs that no two threads use one universe name (`NamesDistinct`),
  which the chat does not see to (section 5).
- **`News_proofs`.** `TypeCorrect` and `NoGaps` for all: a night that computes counts
  writes them for every day up to the ticker's last bar, and a failed one writes 0.
  `WindowCovered` and `EachCountsOnce` unless a fetched window is fetched again
  (`~Refetch`): what the backfill has not written is left to write and its ticker has
  no checkpoint (`Filling`), so a kill between two writes leaves nothing claimed. A
  count is then right once for all, because a day is counted only when it is
  over and every article for it is in the archive; lemmas about the least trading day
  that knows an article (by well-founded order on the days) say that one close takes it.
- **`Worker_proofs`.** `TypeCorrect` and `CompletedOwn` whatever fails: the log a
  pipeline polls is its own session's (`Polls`), because a session starts on a
  truncated log and each pipeline starts one (`Once`). When a created droplet gets
  its state file and doctl get fails only of droplets that are gone (`Trusted`),
  `DropletKnown` and `OneWorkerAlways`. `KnownDroplet` is not
  inductive: `OneInv` adds that one pipeline is under way (`Serial`), that between
  create and `worker.env` the new droplet is the only one that bills (`Fresh`), that
  none does between delete and rm (`Cleared`), and that the file the watchdog is about
  to remove names none (`Ticked`). What it found before its fetch is not in it: by the
  time of `destroy` the file may name another droplet, and that one is then destroyed
  and forgotten.

- **`Promotion_proofs`, refinement.** `ApartRegister`: under `ApartInv` the initial
  states map to those of `Register`, a `Flip` is its `Promote` (`FlipPromotes`: the
  target is on disk and the row names the pointer it replaces), a change of the
  directories is an `Arrive` or a `Discard` outside the protected ones
  (`DiskChanges`), every other step stutters (`RegisterStep`).
- **`DataStore_proofs`, refinement.** `ApartImplements`: under the invariant above, what
  a reader sees (`View`) of the path and of the copy that is moved away (`Owed`) behaves as
  `StoreRegister`. Moving the store away hides it and it stays owed (`MoveAwayShown`);
  moving the next one in shows a store that carries it (`MoveInShown`), after any number
  of builders killed in between; the last step of a confirmation writes one universe (`MakeShown`);
  only a build from nothing gives up what is owed (`DropOldShown`). It is more than
  `NothingLost`, which needs the old copy still on disk to compare with: the register
  remembers what was shown.
- **`Predictions_proofs`.** The invariant is `Typed`; `Snapped` (a complete snapshot
  holds the conf that matches the backtest exactly if the workspace's chosen conf
  does); `Kept` (the first run is the backtest's and every later one is faithful
  exactly if that conf is); `Computing` (the same of containers at work, whichever
  process they have outlived); `Later` (the store, and the window being evaluated, end
  `ConfirmDays` after the backtest, so that a refresh or a confirmation run is
  always compared); `Reproduced` (what passed the gate, is promoted by it, or is
  traded for it has a conf that matches). `Faithful` and `Reference` follow.
  `GatedIsFaithful` alone says nothing of the runs the next rebalance may find.
  `Traded` adds `StillFresh`: a check that still counts is of a workspace whose newest
  run is whole and fresh, which the pruning keeps because it ranks by the same
  order. `NoTurns` adds `Beats`: who was promoted over another has the greater IR
  on the confirmation window. It assumes `ConfirmMargin = 100`, the code's 1.0; above
  that it fails for negative IRs, as the first margin would (1.05).
- **`Controls_proofs`**, about the two components the operator holds the system by. Of
  `Approvals` the invariant is `Typed`; `Settled` (what is late is not
  open; a listener about to drop a record carries what the gateway did); `Recorded`
  (an open request has been shown at most `restarts + lost` times, once more if it is
  on record or about to be). `ShownOnce` and `Truth` follow for any number of
  requests, listeners, clicks and failures, and for a gateway that honours `exclude`
  or does not. `Truth` is about the three answers that name an outcome, and `AnswerStands`
  adds that the gateway keeps to it ever after; of "could not be delivered" neither says
  anything (section 5). Of `Breaker`, whose definitions carry its name so that both modules can be
  extended, `BreakerTyped` and `HaltHonoured` hold for overlapping runs too: a run that
  began under a halt is still at the halt file, or gone (`Held`). For runs that do not
  overlap, `PeakKept`, `DrawdownHonoured` and `MarkRises` follow from `BreakerInv`, which
  ties the temporary file and the mark to the equity of the one run under way
  (`Underway`); `DrawdownStops` alone is not inductive, nor is `PeakOnFile`.
  `DrawdownMonotone` is the arithmetic: what is too far below a peak is too far below
  any mark above it. `HaltStops` and `MarkNeverLowered` are checked by no run of their own.

- **The operators**, for every input where TLC takes each small one (section 3):
  - `RerunTradesTheRest` (`OrderMath`): for every book, targets and prices, and after fills
    in full, in part, or none, a rerun orders at most what is left of the way, and nothing
    after a fill in full. Rounding to whole shares is what the lemma `WholeShares` is about.
  - `DrawdownOfWorstPair`, `DrawdownHaltsLater`, `EarlierIgnored` (`Divergence`): the
    running peak is the worst pair of days (`PeakIs`); a halt for drawdown comes
    back on every later day; nothing before the promotion counts. The mean is a fold, of
    which only that equal inputs give equal sums is used (`SumsAgree`).
  - `BootsAsNeeded`, `BakeIsReused` (`BaseImages`): for every set of images, plan and stock.
  - `BookStaysPriced` (`ConfirmWindow`): one day of the simulation, from any book that could be
    priced; `SelectionTurns` (`Selection`): for every cross-section, holdings, `Topk` and `NDrop`.
    It counts ranks: who comes before few others in one order and in its reverse (`FewAre`).
  - `StartKeepsSeries`, `RefreshRebuildsSeries` (`Series`): a stored series survives every answer of the
    vendor, and one read back, extended and filled is what a build from the whole history
    makes of it, although the store keeps trading days only.
  - `RecordsForget`, `DirectiveFirst` (`RunMemory`): whatever digest a directive is composed
    with, the records of the run are those of the bare directive (`SplitIgnoresMemory`), and
    the instruction begins with all of it and keeps its bound (`ComposedIs`).

Every safety and action property of the passing runs is stated by a theorem. Only
model-checked are

- liveness (`NeverWedged`, `DeadRunResolved`, `BillingStops`, `CatchesUp`, `EventuallyShown`,
  `Forgotten`), which the prover does not do under fairness;
- what recursive functions, folds and sorted sequences compute over whole histories, which needs an
  induction over the data: the membership (`LastDecisionHolds`, `NoLookahead`,
  `RolledIsRegenerated`), the books of a whole window (`WindowIsPriced`), adjusted prices
  (`AdjustedStandsStill`), the coverage of filled series (`FilledCountsAsObserved`), the cap
  and the limits over a batch (`GateHolds`, `DeferredIsBought`), digits (`WireIsClose`), and
  notes and digests (`SummaryReadsBack`, `NewestAreTold`, `OwnStatusIsTold`).

## 5. What the code's comments say and the code does not do

The first of these is a run that must fail, listed with the quoted lines under
`findings`. For most of the others the settings are given as they differ from a
configuration that is here; TLC reports each violated. `promo`, `rows`, `day`,
`worker` and `store` below are `MCPromotion_apart`, `MCRunRows_stop`, `MCTradingDay_flat`,
`MCWorker_any` and `MCDataStore_lost` with the settings named and the property of
the row as the only one.

| Configuration | Property | What is written | What happens |
| --- | --- | --- | --- |
| `MCRunLock_race` (run) | `MutualExclusion` | `ops/run_lock.py:129-130`: two racing pipelines cannot both win | creation is atomic, writing comes later: the empty file reads as corrupt, hence stale, and is broken |
| `MCRunLock_any`, `Spec` | `ReleaseOnlyOwn` | `ops/run_lock.py:161-162`: a re-acquired lock is never deleted by the old owner | the unlink comes after the read and names the path only |
| `MCRunLock_any`, `Pipeline = {a, m}` | `NeverWedgedForever` | `ops/run_lock.py:18-19`: a crashed pipeline can never wedge research forever | a dead owner whose pid now belongs to a long-lived process counts as alive |
| `MCPromotion_swept` | `PromotedOnDisk` | `ops/sweep.py:1`: never touch tradable state | a workspace promoted between plan and deletion is deleted |
| `promo` | `GatedAgainstReplaced` | `ops/gpu_pipeline.py:826`: gate the candidate against the incumbent | the incumbent read before the evaluation may have been replaced since |
| `promo`, `Spec`, `MaxHistory = 3` | `ReplacedIsPredecessor` | `orchestrator/state.py:566-568`: which workspace was replaced, committed atomically | the SELECT runs before the transaction begins |
| `MCPromotion_rollback` | `SomewhereToRollBack` | `ops/sweep.py:134-135`: always has somewhere to roll back to | repeated promotions of one workspace fill the protected rows |
| `MCRunRows_stop` | `StopOnlyOwnUnit` | `orchestrator/conversation.py:847`: the just-launched pipeline | `stop_unit` takes the thread's unit name, which may be another handler's launch by then |
| `rows`, `MaxMisses = 2` | `FinalRowStable` | `orchestrator/run_reaper.py:12-13`: a pipeline mid-finalize is never raced | a stalled tick and a mark left standing by failing ones overwrite a completed row |
| `rows` | `StatusOfTheRunning` | `ops/gpu_pipeline.py:968`: touch nothing shared | the status file is written before the lock is tried |
| `day`, `Drained = TRUE`, two symbols | `AbortedTradedNothing` | `execution/rebalance.py:545`: 1 = aborted without trading | a batch or a poll that fails half-way returns 1 with orders live |
| `day`, `Drained = TRUE`, `Losses = {"post"}` | `LiveOrdersRecorded` | `execution/rebalance.py:310-312`: a row for every order that is live | an accepted order whose reply was lost has none |
| `MCTradingDay_flat` | `FlatStaysFlat` | `ops/runbook.md:102-103`: the halt file keeps the rebalancer from re-entering | a run past the breaker goes on submitting |
| `day`, `Drained = TRUE`, `DryRun = {r1}` | `DryRunWritesNothing` | `execution/rebalance.py:33-34`: dry runs write nothing | gate and breaker exits come before the dry run's return and write a snapshot row |
| `day`, `Drained = TRUE`, `Losses = {"rowreply"}` | `OneCompleteRow` | `execution/ledger.py:71-74`: one complete row per order | a row created without a reply is created again |
| `day`, `Drained = TRUE`, `Losses = {"rowreply"}` | `DuplicatesUntouched` | `ops/reconcile.py:25-27`: duplicates are never touched | the first of two rows is compared and patched |
| `day`, `Drained = TRUE`, two symbols, `Losses = {"row"}` | `GapSurfaced` | `execution/ledger.py:15-17`: the summary surfaces them | an aborting run posts no summary |
| `MCBreaker_serial`, `Overlap = TRUE` | `MarkNeverLowered` | `execution/breaker.py:25`: never lowered | two runs that read one mark write theirs in the other order |
| `MCBreaker_serial` | `NoteKept` | `execution/divergence.py:356-357`: never overwrites | the file is looked for and written in two steps |
| `MCWorker_flake` | `OneWorker` | `ops/gpu_watchdog.py:94-95`: deleting state is safe, provision re-checks live droplets | provision checks only the droplet `worker.env` names; without the file it creates a second |
| `worker`, `Losses = {}` | `StoppedIsKilled` | `ops/gpu_pipeline.py:1066-1067`: the session dies without the exit trailer | status and session are read in two calls; a run that completes in between becomes stopped |
| `worker`, `Losses = {"fetch"}` | `BakeAfterFetch` | `ops/gpu_pipeline.py:699-700`: the results are already fetched by now | the finally block bakes after a failed fetch too, and the bake removes the results |
| `worker`, `Losses = {"create"}` | `BillingStops` | `ops/gpu_watchdog.py:1`: a crashed pipeline must not leak a droplet | a droplet created and not yet in `worker.env` is unknown to the watchdog |
| `worker`, `Losses = {}` | `YoungSpared` | the age check of `ops/gpu_watchdog.py:102` | `destroy` reads `worker.env` anew after the fetch of minutes, and by then it may name the next run's droplet |
| `MCDataStore_lost` | `NothingLost` | `data/refresh.py:6-10`: universes are carried across the rebuild | two builders read one store; the one that swaps last takes what the other added away |
| `store` | `ConfirmedIsBuilt` | `orchestrator/conversation.py:1062`: the row is confirmed | a proposal that replaces the one being materialized is confirmed in its place |
| `MCDataStore_apart`, `UniverseOf <- SharedNames`, `Request <- PairRequest` | `ConfirmedIsBuilt` | `orchestrator/universe.py:1`: per-run custom universes | nothing refuses a name another thread has confirmed: the second confirmation replaces universe file, factor source and templates the first thread will run on |
| `store`, two threads | `NeverPartial` | `data/build_store.py:12`: a failed build never leaves a partial store behind | two builders share `<store>.tmp`: one begins it anew while the other is about to move it in |
| `store`, `FairSpec`, `Overlap = FALSE`, `Prints <- ForeignPrints` | `CatchesUp` | `data/refresh.py:741-744`: foreign-venue days are dropped | by `extend_store` only: the nightly refresh takes a day only one ticker traded on, and every later build fails validation |
| `store`, as before, `Prints <- HaltPrints` | `CatchesUp` | the same docstring, long halts | a ticker halted for a day and resumed fails the validation of every later rebuild |
| `store`, as before, `MarketHistory = 90` | `CatchesUp` | `data/refresh.py:26-27`: an outage must never block the chain | carried forward, an outage takes a short series below its coverage, and the build is refused |
| `MCNews_any`, `Refetch = TRUE` | `CheckpointCovers` | `data/build_news.py:20`: the checkpoint only says this window is fully fetched | a backfill over a fetched window unlinks files while the old checkpoint stands |
| `MCNews_any` | `BackfillIsPickedUp` | `data/refresh.py:738-740`: all-NaN until its archive backfill lands and a later rebuild picks it up | the nightly rebuild carries the stored counts; nothing reads the archive again |

Without a configuration, seen while the operators were translated:

- `data/build_store.py:450-455`: between the two renames no store is there at all; a
  reader of that moment fails, and `rmtree` of the backup is not one step.
- An exit that a confirmation wrote for a ticker whose bars lag is extended by the
  next refresh, because it stood at the ticker's last bar (`FollowEnds`).
- `execution/signal.py:377-388`: with fewer candidates than `n_drop` a day can sell a
  name and buy none; the comment that a worse new name drops itself, not the book,
  needs as many candidates as `SelectionTurnsOver` asks for.
- `execution/pred_refresh.py:476-481` names the container that survives a timeout; one
  whose command line client is killed survives it as well and is mentioned nowhere.
- `data/build_store.py:85-87` wants a broken feed to fail the build. What one night
  fills forward the next reads back as observed (`FilledCountsAsObserved`), so a feed
  that stops is carried forward for good, once its series is long enough to bear one
  missing day.
- `execution/diff.py:13-15` exits a position by its exact quantity, so that nothing is
  left; `execution/alpaca_client.py:494` sends a fraction with six significant digits.
  12.34567 shares go out as 12.3457, which is more than there is, and 12.34564 as
  12.3456, which leaves some (`WireIsClose` bounds the difference).
- `DeferredIsBought` needs the buying power of a margin account. With cash only, the
  buys of a fully invested book cost more at their limit prices than there is: the last
  one is deferred every day (`execution/rebalance.py:273-274` expects it the day after).
- `GateHolds` counts on the day's sells. When one does not fill and a buy does, the
  account holds more positions than `max_total_positions`.
- A snapshot cut short after its first file is never taken again by the gate.
- `orchestrator/approvals.py:24-28` and `:388`: when the reply of a decision is lost,
  the operator is told that it could not be delivered although it stands; and the gateway's answer to a request
  that has been decided already is taken for a failed delivery.
- `orchestrator/run_memory.py:196-197` counts on Notion to clip a directive and matches
  prefixes. `notion_recorder._clip` ends the clipped text in an ellipsis, so a run whose
  objective outgrows the column is not found and told as "status unknown"
  (`OwnStatusIsTold` asks for one that fits). A prefix may also be that of another, newer run.
- `orchestrator/conversation.py:824` announces the runs the digest counts, also when
  `compose_instruction` trims or drops them for a long directive.
- The local fall-back tells a run with its thread's latest directive, which may have been
  saved after the launch (`LocalEntries`).
- A halt for drawdown returns with every later check after `resume_trading`, until
  another promotion (`DrawdownOutlastsResume`).
- `ops/gpu_pipeline.py:691`: a forced bake of a reused worker labels it with today's
  inputs hash, whatever it was bootstrapped from.

None is a defect that bites in the normal schedule (one timer run a day, one
operator); they mark where the schedule, and not the code, carries the property,
and they are why `promo_apart`, `day_alone` and `store_apart` (`Overlap = FALSE`),
`breaker_serial` and the theorems about `RunLock!SerialSpec` state their restriction.

## 6. What is not modelled

- Charts and write-ups of the pipeline; what bootstrap ships.
- The text of the fixed delimiter of `RunMemory` (a directive that spells a part of it), the section of
  the incumbent in a digest, the winner and universe of an entry.
- The per-ticker checkpoints of a build from nothing, and the reads of a store while it
  is swapped: a builder reads at one moment.
- The statistics the gate and the divergence check read from qlib's artifacts: IR,
  drawdown, IC, mean and deviation are inputs of their operators. A strategy's IR on the
  confirmation window is fixed.
- Approval requests whose expiry cannot be parsed: they are never pruned.
- Amounts are a free choice of the batch in `TradingDay`, which partial fills do not
  occur in; `OrderMath` has them for equal weights and long books, without days. Field contents of the
  ledger (identity fields, fill prices) are not modelled.
- Hazards that no property covers: those the code does not keep and section 5
  shows (the stale incumbent of a gate, the halt during a batch, the doctl
  failure that drops `worker.env`); the position limit counts the list it is given, not
  partial fills (`execution/order_gate.py:212`); two overlapping runs may exceed
  `max_day_orders` together (`execution/rebalance.py:610`); an orchestrator that stops
  between launch and `create_run` leaves a run without a row.
- Formatting, wording, prompts, LLM calls, reports and probes
  (`ops/gpu_trace.py`, `ops/parity_check.py`, ...): nothing acts on them.
- Factor computation and statistics: series of floats.
- The migration of an old database (`orchestrator/state.py:333`): the models begin
  with an empty history.

## 7. Plan

The order is by what is at stake: money and the GPU bill first.

1. Done: `RunLock`, `Promotion`, `RunRows`, `TradingDay`, `Breaker`, `Worker`;
   `OrderMath`; `Approvals`; `DataStore`, `Membership`, `Series` and `News`; `Predictions` over `Gate`,
   `Selection` and `ConfirmWindow`; `Divergence`, `BaseImages`; `RunMemory`; `Register` and `StoreRegister`; and the
   proofs of section 4.
2. Done: the proofs of every safety property the runs check, of two abstract specifications
   and of what can be proved about the operators. Left: that `RunRows` over
   `Mutex` is what `RunRows` over `RunLock` does while the lock code is undisturbed; and an
   abstract specification of the day's orders, with the proof that it is implemented.
3. Left: the amounts of `OrderMath` in the days of `TradingDay`, with partial fills.

The project keeps to a dozen runs: a new module takes the place of a violated run
of section 5, whose configuration or settings stay.
