# Formal verification of writ-agent

writ-agent is a self-hosted browser-automation worker. One process runs recorded
workflows in a warm Chromium. It is a local daemon (HTTP API, scheduler, encrypted
store, vault) and, when enrolled, a fleet worker to which a coordinator dispatches
runs over a WebSocket. This directory models the parts of it that carry concurrency,
failure and time: who may run, what a run leaves behind, how a broken recipe is
repaired, how dispatched tasks are answered once, when scheduled work fires, what
a monitor tells about a page, how automations chain, how a crawl accounts for its
pages, and how the vault's root is rotated without losing anything to a crash.

Paths below are relative to `src/src/`.

## Inventory

### The parts that are modelled

| Part | State | Operations | Interacts with |
|---|---|---|---|
| Resource governor, `local/governor.rs` | global semaphore with its queue, background gauge, cached RSS sample | `admit` (interactive waits, background is refused at once), permit drop, `should_shed_background` | called by the engine and the fleet bridge, asked by the scheduler |
| Run engine, `local/engine/real.rs`, `registry.rs`, `local/store/runs.rs` | `runs` rows, live-run registry, cancel tokens, spawned step tasks, the metered charge, the reliability streak | `run`, `run_async`, `cancel`, whole-run timeout, `finalize`, settlement, boot reconciliation | governor, store, browser, repair gate |
| AI recipe repair, `local/engine/repair_gate.rs`, `real.rs` | one async mutex per workflow, the recipe in the workflow row, each run's copy of it | entry barrier, `try_begin`, selector fix, self-heal restart, write-back | runs of the same workflow |
| Fleet bridge, `bridge/fleet_bridge.rs` | task ledger, dispatched-run map, outgoing channel | dispatch by id and whole, refuse, settle, cancel, reconnect | coordinator, engine, governor |
| Scheduler, `local/scheduler/*` | `next_scheduled_at`, `last_triggered_at`, `next_run_at`, the loop task | tick, shed, advance, dispatch, automation due check, shutdown | engine, store, governor, monitors |
| Monitor checks, `local/monitor/runner.rs` | `monitor_state`, baselines, `changes` rows, `next_run_at` | due checks one after another, run-now and set-baseline requests, health edges, stale sweep | scheduler tick, API, automations, database |
| Automation flows, `local/flow.rs`, `local/engine/flow_events.rs`, `registry.rs` | `trigger_count`, wake cooldowns, execution rows, run snapshots and their event channels | webhook, run-now, run and session events; start and stop of a streaming session by handlers and by actions; watcher of an asynchronous run; gate, guardrails, stamp, walk of the actions with retries | engine, run registry, HTTP handlers, streaming manager |
| Crawler, `crawl_shard/mod.rs`, `local/store/crawl_jobs.rs` | frontier, workers, render slots, tallies, progress channel, `crawl_jobs` row | shard and local crawl, HTTP and browser lanes, early abort, cancel, flush, finalize, boot sweep | fleet bridge, API, store |
| Vault root, `local/vault.rs`, `vault_rotate.rs`, `db.rs` | `vault.key`, keyring entries, rotation journal, database key, sealed fields, recovery wraps | load, journal, reseal, rewrap, rekey, persist, resumption at boot, adoption of a set-aside database | bootstrap, keyring, SQLCipher |

### Not modelled

The catalog frames, the managed-cloud bridge, cloud sync, the daemon's singleton and
supervisor and the ask gate are state machines worth modelling and are in the plan
below. The HTTP
handlers, the MCP catalogue, data queries, code generation, providers, the recorder and
the browser drivers are I/O or pure translation around them, and the Playwright client
is vendored. `PROJECT.json` lists each with its reason.

### What is hard here

* **Interleaving.** Background admission takes a slot first and compares the gauge after;
  a permit's two fields drop one after the other. Runs of one workflow share a recipe and
  a lock. The bridge's read loop claims, replays and evicts while handlers settle.
* **Dropped futures.** A Rust future can be dropped at any await; guards run, spawned
  tasks do not stop.
* **Crashes.** `runs` rows, schedules, monitor states and keys survive the process;
  permits, registry, ledger, locks, cooldowns and crawl frontiers do not. A rotation of
  the root is a dozen writes to four places, any of which may be the last.
* **Unreliable delivery.** Dispatch is at least once; a result frame can die with its
  connection.
* **Waits without a limit.** The whole-run budget starts after the entry barrier of a
  repair; a definition sent whole by the coordinator has none; a render of the crawler awaits the browser
  without a timeout. What waits on these may wait for ever, and the liveness properties say
  so.
* **Time.** Whole-run budgets race the writes of the task they abort; schedules cross
  clock changes, slow runs and nights asleep.

## Modules

| Module | What it models | Composition |
|---|---|---|
| `SlotPool` | abstract: a set of running callers within two ceilings | implemented by `Governor`, used by `RunEngine` |
| `Governor` | `governor.rs`, one step per atomic operation | refines `SlotPool` |
| `Governor_proofs` | theorems about `Governor` | extends `Governor` |
| `RunRecord` | abstract: the life of a `runs` row | implemented by `RunEngine` |
| `RunEngine` | a run from `run_inner` to settlement, with its spawned step task | instantiates `SlotPool` (admission, proved of `Governor`) and `RunRecord` |
| `RunEngine_proofs` | theorems about `RunEngine` | extends `RunEngine` |
| `RecipeRepair` | the repair lock and the shared recipe | abstracts the run around it to its step loop |
| `RecipeRepair_proofs` | theorems about `RecipeRepair` | extends `RecipeRepair` |
| `FleetDispatch` | task ledger, handlers, cancel map, outgoing channel | the engine's admission is a limit, its run one step |
| `FleetDispatch_proofs` | theorems about `FleetDispatch` | extends `FleetDispatch` |
| `Recurrence` | `recurrence.rs`: next fire, previous occurrence, due check | used by `Scheduler` |
| `Scheduler` | the tick loop and its lanes | extends `Recurrence` |
| `Monitor` | `runner.rs`: the tick's lane and the request's lane over the same rows | the scheduler's tick is one lane, automations the notices they get |
| `Monitor_proofs` | theorems about `Monitor` | extends `Monitor` |
| `Automations` | triggers, run events and their watcher, `run_automation` | the run registry at the end of a run; an engine run is one step |
| `Automations_proofs` | theorems about `Automations` | extends `Automations` |
| `Crawl` | page workers under the shard manager or the local one | the bridge's settlement of a shard is its last step |
| `Crawl_proofs` | theorems about `Crawl` | extends `Crawl` |
| `VaultRotation` | custody of the root, `rotate_root`, its resumption | bootstrap is the sequence of its boot steps |
| `VaultRotation_proofs` | theorems about `VaultRotation` | extends `VaultRotation` |
| `MC*` | constants for TLC | extend their module |

Correspondence with the code, per module:

* **Governor.** `pc` is a caller's position in `admit`/`admit_background`/`Drop`; `free`
  and `waiters` are the tokio semaphore (a released permit goes straight to the oldest
  waiter, as tokio's does); `gauge` is `background_inflight`; `cur` the value loaded by the
  CAS loop; `sample` is `rss_cache`. Every atomic load, compare-exchange and `fetch_sub` is an
  action of its own.
* **RunEngine.** `pc` follows `run_inner`, `run_body` and `settle_marketplace_run`; `exec`
  follows the spawned `execute` task; `write` is a `set_status` handed to the database and
  not yet applied; `Drop` is the drop of the caller's future, `Spawned` the calls whose body
  runs in a task of its own (`run_async`), `Ephemeral` those without a workflow row,
  `Metered` the paid ones. `fixing` holds the calls whose step task has the workflow's repair
  guard; a call that finds it taken waits at `pc = "barrier"` with its permit, before its
  budget starts, and `WaitOut` is the same wait inside the step task. Steps, sessions and
  files are abstracted to their outcomes.
* **RecipeRepair.** A recipe is the set of steps whose fix it contains. `is_repairing`
  takes the mutex for an instant (`probing`), as the code's `try_lock` does, and can make a
  concurrent `try_begin` fail.
* **FleetDispatch.** `slot`/`done` are the ledger map and its eviction order, `pc[t][h]` the
  handler tasks with their claims, `runs` the `dispatched_runs` map, `out` the stable
  channel that outlives connections. `ran` counts the executions the ledger still vouches
  for: it returns to 0 when the result expires, is evicted, or the process restarts. `told`
  are the tasks whose result reached the coordinator. `RunningExpires` is the age limit of a
  claim, which a run that is still going may outlive. `early` collects the tasks whose entry
  went while a handler had yet to drop its claim, by the cap or by that age limit.
* **Scheduler / Recurrence.** An instant is an hour; days and weeks are shortened so that a
  run covers clock changes at every hour. A zone changes its offset once. One workflow, one
  automation and one interval monitor; `launch` remembers the tick of the last launch; `busy`
  is the overlap guard, which a wake finds clear because a tick clears it even when it panics.
  Minutes are not modelled: a 02:30 schedule on a day that skips 02:00-03:00 fires at 03:30
  in the code; in the model, as for a 02:00 schedule, at the hour after the gap.

* **Monitor.** `lane` is where the tick and a request are, with the `prior` state and the
  clock each has read; time is relative (`age` since `checked_at`, `due` to
  `next_run_at`). Contents are numbered in the order they are published, so a recorded
  change that has no edit behind it is visible. `news` is the last
  health the row has shown and the event it owes; `told` the last health event that was
  sent, or why nothing can be said of it (a check or sweep cut short, overlapped or refused
  its write). The sweep writes `stale` (`SweepMark`, which may be refused) and then dispatches
  the event (`Alarm`, which is sent either way).
* **Automations.** `run` follows `EmitGuard::finish` (snapshot, event, removal) beside
  `await_terminal_status`; `flow` is a task that fires automations one after another, with the
  `trigger_count` it loaded; `outer` says whether its runs go through the decorator, `hop` how
  many events lie behind it (counted to 2). `session` says whether the one streaming workflow
  is live; the actions `start_streaming_session` and `stop_streaming_session` ask for it
  (`Probe`), act (`Launch`, `Stop`) and fire its events, as the handlers do (`OpenSession`,
  `CloseSession`). `extra` counts, per automation, the rows read while another flow had the
  same row in hand and the stamps that were refused or cut off.
* **Crawl.** `work` is the worker of each page along `fetch_resolve`, `mgr` the manager,
  `front` the frontier of a local crawl, `tally` and `progress` the counters of a shard and
  its forwarder, `poll` the cancel counter, `store` the write buffer, `row` the
  `crawl_jobs` row. What a page answers to HTTP and to the browser is chosen from `Site`; a
  document goes its own lane and brings no links.
  `front.todo` holds the links a page brought that are still to be admitted: `admit` awaits
  name resolution and robots.txt, so the workers go on between two links and each link is a
  step.
* **VaultRotation.** Roots are numbers; a field, a database and a journal are the root that
  opens them; a recovery wrap is the set of roots XORed into it. Every write to disk,
  keyring or database is a step, and a crash may follow each of them. `booting` tells the
  resumption at boot from the rotation in a running daemon.

Every module states its types as `TypeOK`. The runs list it where it is proved of the same
instance (`governor`); elsewhere it documents the state, and can be added to any cfg.

Definitions whose name has a suffix (`Advance_Later`, `Rekey_DropsJournal`, ...) are faulty
forms of the definition they are named after. No specification uses them: each shows that
a property fails when the code is changed that way.

## Runs

Passing runs:

| Run | Instance | What it shows |
|---|---|---|
| `governor` | 2 interactive and 3 background callers, 3 slots, 2 for background, watermark on | the gauge and the slots are exact in every interleaving, the running set is a `SlotPool`, interactive callers are served even if background runs never end |
| `runengine_records` | an ephemeral interactive and a spawned, metered background run on 1 slot, no repair, no dropped callers, 1 crash | the row reads in-flight exactly while the run is, opens and closes once, always closes; step tasks stay within the ceiling; only a success is charged |
| `runengine_drops` | an interactive and a spawned background run of one workflow, AI repair, both callers may drop, 1 crash | permits and registry entries never leak; every permit returns whatever pages do, unless its call stays at the entry barrier behind a repair that lost its caller |
| `repair` | 2 runs of a 2-step workflow, either step breaks at any time | one repairer at a time, the guard is held to the run's end, nobody waits for ever |
| `fleet` | one task by id and one whole, at work together over a ledger of 1, 1 fault, expiries, 1 restart | claims match handlers and nothing remembered runs twice while results are evicted beside live handlers (excepted: a task whose own entry went before its handler's drop), cancels reach only their own run, every claimed task is answered unless its run stays where no time limit ends it |
| `scheduler` | interval, daily and weekly plans, every clock change in the span, 1 mishap | no double fire, the stored next fire is the next occurrence, no due automation is passed over, a workflow that is due after the faults is launched by the next tick (`DueIsLaunched`: a guard left set would stop it), shutdown completes unless a run the tick awaits never ends |
| `vault_rotation` | 2 fields, both custodies, with and without recovery codes, 2 rotations, 4 crashes | at every moment what is on disk opens the database and every field, a daemon that is up reads all of them, a journalled rotation is completed |
| `monitor` | a content and an uptime monitor on one page, 1 edit, 1 outage, 1 fault of five kinds | the last health event sent is the last change of health (no check or sweep cut short, overlapped or refused a write), a change is recorded once and told at most once unless two lanes overlap, a page that settles becomes the baseline unless a dispatched run never ends |
| `automations` | a webhook that wakes an agent, a limited follow-up of failed runs, one automation that stops what it hears started and one that starts what it hears ended; 1 fault | a run that an event caused fires no event of its own, a completion reports how the run ended, `max_fires` is exceeded by at most one per row read while another flow had it and per lost stamp, every watcher ends |
| `crawl` | a shard of 4 pages or a local crawl of 5, three render modes, window of 2, 1 render slot, a cancel at any time, 1 fault | every page of a batch but a panicked worker's is reported, never both as a page and as failed or blocked; refused pages go back to the coordinator; a crawl accounts for every page it discovers and stores what it fetched unless a write is refused; unless a render never ends, every shard is answered and every crawl that was set up is settled |

Runs that exhibit a disagreement between the code and what it says of itself:

| Run | What happens |
|---|---|
| `runengine_barrier` | the budget is said to guarantee "the permit is eventually freed" (`engine/real.rs:457-462`): a call that waits at the entry barrier holds its permit before any budget runs, and a repair whose caller dropped its future need not end |
| `crawl_cancel` | a cancel accepted while the crawl is being set up (status `mapping`, before the first fetch): the next status overwrites `stopping` and the flag is read on every fourth loop, so a small crawl fetches all its pages, ends `completed` and fires `crawl_completed` |

`runengine_records` leaves out AI repair and dropped callers because with them
`RowMatchesRun` and `TasksWithinCeiling` do not hold, for the reasons given under
Observations.

### Bounds

Crashes, faults, queue lengths and covered hours are bounded in the guards by constants
named `Max*`, `Start` and `End`. The constants are small because each interesting case needs few actors: two
CAS loops race on one gauge unit and a third caller keeps a slot; two runs share a recipe;
a ledger of one entry already evicts,
and with two tasks it does so while both handlers are at work; a two-day span with the clock moving at any hour
contains the short day, the long day and the days beside them. The scheduler's zones leave
out a gap in the last hour of a day (see the observations) and have one base offset, its weekly
plan one hour and one day: the others move the same cases along the calendar. Three tasks
fire automations at once, of which one is kept for each watcher that has still to report; two
of them read the same row at once, or start the session at once. A rotation that is interrupted
in its resumption, resumed and followed by another needs two crashes, and the crash run has
four. Two lanes over one monitor are all the lanes there are; a second selector or monitor
only repeats the same rows. `MaxLag`, the time a tick or a request may take by its own clock,
is 0 in the `monitor` run: with 1 the instance exceeds two million states. A check therefore
takes no time there, and the floor is compared with an exact clock. Four pages with a window of two
reach the abort with one fetch in flight and one still queued; `VisitedCap` below the
number of pages makes the cap bite.

### Fairness

* `Governor`: admission and drops have no await, so they finish; interactive runs that were
  admitted end. The budget gives this for a run past the entry barrier; the run
  `runengine_barrier` is about the others. Nothing is assumed of background runs.
* `RunEngine`: the futures of `run_inner`/`run_body` are polled while the process lives, the
  database answers, the budget's timer fires, a dead daemon is started again. Nothing is
  assumed of the step task, so nothing makes a detached repair release its guard:
  `PermitsReturnOrBarred` excepts a call that stays at the barrier.
* `RecipeRepair`: steps and gateway calls time out; tokio's mutex is FIFO, hence strong
  fairness for those queued on it. Its runs keep their callers.
* `FleetDispatch`: handlers are polled, the writer drains the channel, the coordinator
  redispatches until told (strong, because the channel may fill in between). A run by id ends
  within the engine's budget once it has started. Nothing is assumed of a definition sent
  whole (`wire_exec.rs` limits its steps and navigations, not the run) or of a run by id
  before its budget starts: `TasksAnswered` excepts a task whose handler stays there.
* `Scheduler`: the loop is one task that is polled again, and the database answers. Nothing
  is assumed of the runs a tick awaits: `ShutdownCompletes` excepts a tick that awaits
  for ever.
* `Monitor`: the tick task and a request's handler are polled and fetches are bounded, and
  time passes whenever nothing is under way again and again (strong, because checks disable
  it). Nothing is assumed of the runs that a dispatched event starts: `CaughtUp` excepts a
  lane that awaits one for ever. Sites may stay down and requests may never come.
* `Automations`: only the watchers, whose half hour passes. Nothing is assumed of runs,
  flows or triggers.
* `Crawl`: the HTTP client (30 s, `crawl_shard/mod.rs:2852`), the document service and the
  upload have timeouts, so a fetch ends; tokio's semaphore is FIFO, hence strong fairness for
  a worker that waits for a render slot; the managers and the forwarder are polled; a dead
  daemon is started again. Nothing is assumed of a render, which awaits the browser's answers
  without a timeout, or of the sign-in before a crawl, which is an engine run:
  `ShardAnswers` and `RowSettles` are about behaviours in which every render ends
  (`RendersEnd`), and `RowSettles` about crawls that were set up.
* `VaultRotation`: the daemon is started again and goes on with its steps.

## What is proved

`Governor_proofs` proves for any finite sets of callers and any configured ceilings
(`GovernorAssumption`: the two sets are disjoint, the ceilings are naturals, 0 included):

* `TypeCorrect`: `TypeOK` always holds;
* `GaugeCorrect`: the gauge equals the number of background permits alive or being dropped;
* `SlotsCorrect`: slots are conserved and nobody queues beside a free slot;
* `Refinement`: `Governor` implements `SlotPool`, so neither ceiling is ever exceeded.

None of the three invariants is inductive alone. The inductive invariant `IInv` adds that
the gauge is within the sub-ceiling and that a caller about to compare-exchange loaded a
value below it (`CasBelowCeiling`): a successful exchange then proves the *current* gauge
is below the ceiling, which is the argument for the CAS loop. `ReleaseSlotEffect` is the
lemma behind every drop (a slot goes to the oldest waiter or back to the pool), with
`RemoveAtProperties` for a waiter that leaves the queue. `IInvStep` has one step per action;
`Refinement` maps each action to a pool step (grant, give back, hand over) or a stutter.

`VaultRotation_proofs` proves for any set of fields and any number of rotations and
crashes (`VaultRotationAssumption`), with crashes as the only fault
(`Faults \subseteq {"crash"}`: no step fails without killing the process, the keyring
refuses no write):

* `TypeCorrect`: `TypeOK` always holds;
* `CrashSafety`: `SurvivesCrash`, so the root a boot loads or the journalled one opens the
  database, every field opens under one of the two, and no database was set aside;
* `ReadsAll`: `UpReadsAll`, a daemon that is up holds the root of its database and of every
  field.

`SurvivesCrash` is not inductive: it does not say which root is which. The inductive
invariant adds, per step, what the code relies on without checking (`AtStep`: the root in
hand is the one a boot would load until the database is rekeyed; from then until the root
is persisted the journal holds the new one; after it a boot loads the new one), and that
the fields the pass has visited open under the new root (`Resealed`), which is what makes
the rekey safe. `StepInv` has one step per action. The assumption on faults is needed: with
a keyring that refuses, the property is false (below).

`RunEngine_proofs` proves for any finite sets of calls, any ceilings and any number of
crashes (`RunEngineAssumption`), with AI repair, drops, panics and refusals:

* `TypeCorrect`, and `NoLeaks`: permits and registry entries are held by exactly the calls
  that are still at work;
* `ChargesEarned`: only a run that succeeded, and whose row says so, is charged.

and, under the conditions that two observations below make necessary,

* `CeilingBoundsWork`, while only the callers of spawned runs drop their futures
  (`Droppable \subseteq Spawned`, against `real.rs:446`): the step tasks at work stay
  within the slots;
* `RecordRefinement`, without AI repair (`~AiRepair`, against `runs.rs:438`): every step is
  a step of `RunRecord` or leaves it alone;
* `RowIsLiveness`, without repair and without dropped callers: a row is in flight exactly
  while its run is.

The invariant behind a charge (`Life`) is that a status write is outstanding only while the
step task waits for it or after the task was aborted, so none can land on the row of a run
that succeeded. The ceiling rests on `PermitsWithin` (the pool's own bound) and `Attached` (a
step task belongs to a body that awaits it); the refinement on `RowFollows`, which ties each
stage of the call to a kind of status.

`RecipeRepair_proofs` proves for any runs and any number of steps:

* `RepairerHoldsLock`: a run that repairs holds the workflow's mutex, so at most one does;
* `GuardKept`: it keeps it through its restarts to its end (an action property);
* `NoDeadlockOnSelf`: no run queues for the mutex it holds or ends with it.

`OneRepairer` alone does not say who may let the mutex go. `InstantsHold` adds that a run
that only looks at it holds it while it looks, `OutsideExecute` that no other run outside
`execute` does.

`FleetDispatch_proofs` proves for any tasks and any ledger size, with lost frames,
duplicate dispatches, handlers that die and restarts:

* `CancelsTheirOwn`: a cancel reaches the run of its own task and no other;
* `ClaimsExclusive` and `NoReexecution`: a running entry has exactly one handler and nothing
  the ledger remembers is executed again, for every task outside `early`.

`Agree` is the inductive invariant: the entry, its handlers and its executions, task by
task, for the tasks outside `early`. The exception is needed, for the reason the
observations on `abandon_running` and on the age limit give; the code's cap is 512 entries,
and the drop follows `settle` at once.

`Automations_proofs` proves for any automations and any number of runs and flows:

* `CascadeIsOneHop`: a run that an event caused, through however many flows and sessions,
  fires no event of its own. It bounds the events of runs; those of sessions are not bounded
  (see the observations);
* `ReportsTrue`: what a completion reports as success or failure is how the run ended;
* `LimitHeld`: an automation is executed at most `max_fires + extra` times, however many
  flows fire it.

`ReportsTrue` needs `Truth` (snapshot and channel say nothing before the end, and the end
after it). `CascadeIsOneHop` needs `Hops`: a flow that no event started is at hop
0, and the events of runs come from such flows and from triggers only. `LimitHeld` needs `Fire`, which has two parts: the executions are at most
the stamps, the lost ones and those about to be stamped, and the executions together with
the flows that may still execute on the row they hold are within `max_fires + extra`.

`Monitor_proofs` proves for any monitors, selectors, cadence and lag:

* `HealthIsTold`: of a monitor at rest, the last health event sent is the last change of
  health its row went through, unless a check or a sweep of it was cut short, overlapped
  another or was refused a write;
* `ChangesRecordedOnce`: no more changes are recorded than were published, and notices
  follow recorded changes, unless two lanes worked on the monitor at once.

Neither says anything about a check under way. `HealthAt` carries the first through it:
from the marker to the edge, and from the sweep's write to its alarm, the event that `news`
owes is the one the lane is about to send from the *prior* state it has read.
`Recorded` and `CompareAt` carry the second: the baseline a lane compares with is still the
stored one, and what it saw is no older. `Sole` (one lane per monitor) is what lets a lane
rely on what it has read.

`Crawl_proofs` proves for any finite site, any links, answers, window, slots, budget and
caps, with panics, failed writes, crashes and cancels (`CrawlConstants`; the batch of a
shard holds each page once, as the coordinator's frontier does):

* `BatchIsAccounted`: every page of a shard that returns is in its lists, never both a page
  and failed or blocked (a refused page is in both of these), or was lost with its panicked
  worker; a page the host refuses to both lanes is handed back;
* `FrontierIsSound`: window and budget hold, and the discovered pages are, one by one, those
  queued, in flight, done and failed;
* `CompletedIsComplete`: a crawl settled as completed has counted every page it admitted and
  stored every page it fetched, unless the write of its batch failed.

The counts of `FrontierSound` are proved from sets: `Admissions` says that the admitted pages
are exactly those queued, in flight or gone, `Orderly` that no page is queued twice or queued
with a worker, so that the sizes add up. `Phases` says when nothing is in flight, `Storage`
where a page that is done is kept, `Shards` how a refusal stays with its page from the HTTP
lane through the wait for a render slot to the lists.

Each proof module has one lemma per action or per group of actions that change the same
state, and each invariant was checked by TLC before it was proved.

### Only model-checked

* All liveness (`InteractiveServed`, `RowsSettle`, `PermitsReturnOrBarred`, `RunsEnd`,
  `TasksAnswered`, `DueIsLaunched`, `ShutdownCompletes`, `RotationCompletes`, `CaughtUp`,
  `WatcherEnds`, `ShardAnswers`, `TallyFramed`, `RowSettles`): it needs fairness and
  `ENABLED`, which the prover does not handle.
* The scheduler's action properties (`OncePerOccurrence`, `NextIsNextOccurrence`,
  `AutomationNotForgotten`): they rest on the calendar arithmetic of `Recurrence`, division and
  remainder by parameters and least elements of sets of hours, which the backends do not
  decide.

## Observations

What the code does that its comments do not say, or say otherwise, met while modelling.
Each names its place; those that are hazards are in `PROJECT.json` too.

Run engine and repair:

* `engine/real.rs:446`: when the future of a blocking run is dropped its permit returns, but
  the step task it spawned is detached and goes on outside the ceiling.
* `engine/real.rs:191`: the entry barrier is awaited with the permit in hand and before the
  budget starts. That detached task keeps its repair guard if it was repairing, and a call
  that waits for it keeps its permit, for as long as the page does not answer.
* `store/runs.rs:438`: `set_status` is unconditional. The budget can abort a task whose
  `repairing` write is in flight; the write lands after `finalize` and reopens the row.
* `engine/real.rs:1738`: a run writes back the recipe it loaded before another run's repair,
  and erases that repair.

Dispatch, schedule and monitors:

* `bridge/fleet_bridge.rs:1909`: a by-id task refused at capacity is settled as a result, so
  the refusal is cached and replayed to later dispatches of it; the whole-definition path
  (`:1946`) abandons its claim instead.
* `bridge/fleet_bridge.rs:442-445`: a definition sent whole has no overall budget. One whose
  driver stops answering is answered only with acknowledgements; after six hours its claim
  expires although the run may still be going, and a redispatch starts it a second time.
* `scheduler/loop_task.rs` awaits the whole tick, so monitors wait for the slowest scheduled
  run.
* `monitor/runner.rs:1029`: the stale sweep measures every monitor by `check_period_ms`,
  although the comment at `:980` speaks of its expected cadence: a daily or weekly monitor is
  swept as stale long before it is due.
* `monitor/runner.rs:888`: the prior state of a health edge can be `checking`, left by a
  check that was cut short, and the edge is then lost: that change of health goes untold.
* `monitor/runner.rs:1031`: the result of the write of `stale` is ignored. When it is refused
  `monitor_stale` is sent although the row still reads healthy, and again on every tick
  until a write goes through, against the comment at `:982`.
* `monitor/runner.rs:165`: a request and the tick may check one monitor at once; both may
  record and tell the same change.

Automations:

* `engine/flow_events.rs:169`: the watcher of a run that takes over half an hour logs that it
  is "not firing completion" and its caller fires `workflow_completed` with the status
  `running`; so does the watcher of a run that ended before it looked (`:129`).
  `WatcherEnds` says that every watcher ends and nothing of what it fires then.
* `flow.rs:143`: `max_fires` is compared with the row the flow loaded: two triggers that load
  it at once both fire. `MaxFiresHeld` allows one more execution for each row read so, and
  for each stamp that failed (`flow.rs:160`).
* `engine/streaming.rs:415-425`, `:474-483`: the events of a session are fired whatever started
  the flow that starts or stops it. Two automations that stop and start one another's
  session go on without end; only `max_fires` and the cooldowns bound them.
* `engine/streaming.rs:413`: `start_session` asks whether a session is live before it finds or
  starts one: two callers may both fire `streaming_session_started` for one session.

Vault:

* `vault.rs:731`: if the keyring refuses the new root after the database was rekeyed, the
  root goes to the file while the old keyring entry stays, and is loaded first. The journal
  is then dropped, and the next boot holds the wrong root. (`rotate_root` has no caller
  outside the tests.)
* `vault_rotate.rs:66`: the recovery wrap and the mark that it was made are two writes. A
  crash between them wraps again, and XOR undoes the wrap, although the comment at `:53`
  calls the pass idempotent.
* `vault_rotate.rs:18`: the wrap of the app lock is not re-wrapped by a rotation.

Crawler:

* `crawl_shard/mod.rs:609`: a shard sends its `task_result` while its forwarder may still hold
  a tally, so a progress frame can follow the result.
* `crawl_shard/mod.rs:2383-2434`: a render awaits evaluate, content, screenshot and close
  without a timeout, and so does the vendored client (`vendor/playwright-rs`,
  `connection.rs:324`). A wedged one keeps its worker and its render slot: the shard is never
  answered, and a local crawl stays `crawling`, deaf to its cancel, until the daemon is
  started again.
* `crawl_shard/mod.rs:1516`: the result of `finalize` is ignored: a crawl whose last write
  failed fires `crawl_completed` and stays live until the next start.
* `crawl_shard/mod.rs:2885`: `flush` empties the buffer before it writes; a failed insert loses
  pages that were counted.
* `crawl_shard/mod.rs:779`: a panicked worker of a shard is attributed to no page: its URL is in
  none of the lists sent back.
* A refusal page with enough text is banked as a page when the crawl may use the browser on
  its own judgement, and a thin one is kept as content when rendering yields nothing
  (`crawl_shard/mod.rs:2149`, `:1976`).
* The depth of a page is that of its first discovery, so what a crawl finds at `max_depth`
  depends on timing (`crawl_shard/mod.rs:2480`).

Others:

* `GovernorConfig::sanitized` lets the background ceiling equal the global one, although the
  field is described as kept below it; `InteractiveServed` then fails.
* `finalize` counts an out-of-credit repair in `consecutive_failures`, although the comment
  where the failure is made tags it `infra` so that it is not.
* `try_begin` does not ask whether the recipe changed since the run loaded it, so a run that
  reaches a step repaired meanwhile pays for the same repair again.
* The task ledger is in memory: a redispatch after a worker restart executes again.
* `cancel_task` of a task that is claimed but whose run is not yet published (loading,
  admission, repair barrier) is answered `found: false`, and the run goes ahead.
* `abandon_running` identifies a claim by task id only. If in-flight claims alone fill the
  ledger, a fresh result is evicted before its handler drops its claim, the id is claimed
  again, and the late drop erases the new claim.
* `run_automation` ignores a failed `mark_triggered`: the automation runs and fires again on
  the next tick. `OncePerOccurrence` counts stamped firings.
* A daemon that dies between `mark_scheduled` and the launch loses that occurrence: firing is
  at most once, by design.
* A gap that skips the last hour of a local day leaves `local_at_utc` no hour to move to
  and it falls back to the same wall clock in UTC.

## Abstractions to keep in mind

* Database errors inside `run_body` are not modelled; those of the scheduler's queries are.
* `RecipeRepair` has one workflow; the gate is per workflow.
* `FleetDispatch` leaves out dispatches without a task id.
* `Scheduler` leaves out the batch limit, the dispatch semaphore, the retention purge,
  schedule edits and the automation guardrails.
* `Monitor` leaves out the cloud mirror, screenshots and diffs, and abstracts a fetch to
  what it finds. A content monitor has at least one selector (`Selectors # {}`): one without
  enabled rows has nothing to compare and is left out.
* `Automations` has the per-action wake cooldown and `max_fires`, not the automation-level
  cooldown, which reads the same row; conditions and branches only shorten a chain. There
  is one streaming workflow, and a session ends when somebody stops it. `Flows`
  bounds how many tasks fire automations at once, `Runs` how many runs there are.
* `Crawl` leaves out host pacing, robots and sitemap fetches, the capture of documents, the counter snapshot
  and the deletion of a settled crawl.
* `VaultRotation` abstracts cryptography to which root opens what. The errors and refusals it
  models are outside the run and the proofs, whose only fault is the crash.

## Plan

1. Proofs: the scheduler's loop, with the facts about `Recurrence` it needs as lemmas over
   one hour at a time where the arithmetic allows; `VaultRotation` with a keyring that may
   err before the database is rekeyed.
2. `CatalogCache`: catalog fingerprints, `save_*` handlers and the coordinator's copy.
3. Cloud sync cursor, relayed sessions, the ask gate, the daemon's singleton and supervisor.
