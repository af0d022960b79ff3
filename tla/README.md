# Astraea / OpenClaw: a TLA+ verification project

The repository holds OpenClaw (`openclaw-main/`), a gateway that turns messages of
many channels into agent runs, and Astraea (`system2-core/`), a fork's replacement of
its command queue by a multi-level feedback queue with serial session lanes. This
directory models the part of the program that decides *when work runs and what survives*:
the command queue, the queue that replaces it, the scheduler inside it, the process that
restarts around them and what asks it to, and the queues and timers that feed agent runs
and carry their answers away. Paths below are relative to `src/`; `process/...`,
`cli/...`, `infra/...`, `cron/...` and the like are in `openclaw-main/src/`.

## 1. Inventory

Everything runs in one Node.js process, single-threaded: what interleaves is the
bodies of async functions at their awaits, promise continuations, timers and signals.
Files outlive the process.

| component | state | operations | hard parts | what makes it correct |
|---|---|---|---|---|
| command queue, `process/command-queue.ts` | per lane: `queue`, `activeTaskIds`, `maxConcurrent`, `draining`, `generation`; `gatewayDraining` | enqueue, `drainLane`/`pump`, completion, set concurrency, clear, mark draining, reset, wait | pumps re-entered from the tasks they start; completions of a generation that a reset ended | FIFO in a lane, never above the limit, no entry waits beside a free slot, a slot is a running task |
| nested runs, `agents/pi-embedded-runner/{run,compact}.ts` | an entry of a session lane whose task awaits an entry of a global lane | `enqueueSession(() => enqueueGlobal(...))` | clear, drain and reset treat the two entries apart | one run of a session at a time |
| Astraea queue, `system2-core/installer.js` (the `PROXY_PATCH`), `serial_lane_dispatcher.ts` | the above, and `activeLanes`, `pendingLaneJobs`, the shared MLFQ | dispatch, release, pump from the MLFQ | any lane's pump may take any lane's job; lock and slots are two records of one fact | strict serial lanes in order; nothing stranded |
| stateful MLFQ, `astraea_mlfq_scheduler.ts`, `adaptive_kv_manager.ts` | `activeQueues`, `isEngineIdle`, each job's predicted tokens, wait and level | enqueue, demote, get next, discard a cache | bands at their boundaries, ties, jobs moved between levels | loses and doubles nothing, hands out the best |
| run loop, `cli/gateway-cli/run-loop.ts`, `process/restart-recovery.ts`, `infra/process-respawn.ts` | `server`, `shuttingDown`, `restartResolver`, `lock` | SIGUSR1, SIGTERM, SIGINT, drain, close, release, respawn, restart | signals at every await of start, drain and close | turns finish first, the lock is given back, requests end |
| restart scheduling, `infra/restart.ts`, `gateway/server-reload-handlers.ts` | tokens of a signal in flight, pending timer, deferral polls, the reload handlers' flag | schedule, coalesce, defer until idle, emit | timers of two modules racing each other, the drain and the next server | a restart that was asked for happens |
| follow-up queue, `auto-reply/reply/queue/*` | per session: `items`, `droppedCount`, mode, cap, drop policy, a drain | enqueue, deduplicate, drop, drain, collect, clear | messages that arrive during a drain's awaits; queue objects replaced under a drain | nothing stranded, accepted once, within the cap |
| delivery queue, `infra/outbound/delivery-queue.ts`, `deliver.ts` | a file per message: entry, `.delivered` marker, `failed/` | enqueue, send, ack, fail, recover | crashes between any two file operations; a recovery beside live sends | nothing lost, settled stays settled, retries bounded |
| heartbeat, `infra/heartbeat-wake.ts`, `heartbeat-runner.ts` | pending wakes, timer, `running`, `scheduled`; a runner per server | request, coalesce, run a batch, retry, tick, reload | wakes that arrive while the handler runs; a batch that outlives its runner | no wake is lost or downgraded; ticks go on |
| cron, `cron/service/*` | the store file and its copies, running markers, timer | start, tick, run, add, update, remove, list | jobs executed outside the lock; a stopped service that finishes | ticks go on, no job twice at once, no slot skipped |
| session lock, `agents/session-write-lock.ts` | a lock file per session, `HELD_LOCKS` per process with counts | acquire (reentrant), find stale, remove, release; watchdog, signals, clean-up | files read, judged and removed by name in separate steps, by several processes | who holds the lock has the file, no file is left for good |
| gateway lock, `infra/gateway-lock.ts` | lock file, pid | acquire, find stale, remove, release | two processes that both find a lock stale | one holder |
| subagents, exec approvals, ACP | registries, pending decisions, actor queues | register, resume, decide, expire | restarts, expiry racing a decision | each announce or decision once |
| installer, `system2-core/installer.js` | backup, runner files, patched file | install, uninstall | crashes between file operations, updates between installs | uninstall restores what was there |

Channels, the CLI, providers, plugins, the UI and the native apps are adapters,
rendering or clients; `PROJECT.json` lists each of them with the reason it is left out,
and lists the hazards of the code above at their lines.

How the parts interact: a channel's message becomes `runEmbeddedPiAgent`, which
enqueues in a session lane; that entry's task enqueues in a global lane and awaits it.
A message that finds its session busy waits in the follow-up queue, whose drain starts a
run when the turn has ended. Heartbeats and cron jobs start runs too and wake each other.
A run's answer is written to the delivery queue before it is sent. The gateway sets the
limits of the global lanes at start and on a configuration reload. `/stop` and session
resets clear session lanes and follow-up queues. A restart - asked for by a tool, a
reload or a signal - is deferred until the queues are idle, then marks the command queue
draining, waits for active tasks, closes the server, and the next iteration of the loop
resets all lanes; runner, cron service and recovery of deliveries start again in the
same process, where what the old ones began may still be under way. With
`SYSTEM2_ENABLED=true` the file `command-queue.ts` is the installer's text: same
interface, but entries go through dispatcher and MLFQ.

## 2. Modules

| module | role |
|---|---|
| `LaneContract` | abstract: what lanes promise, whoever implements them |
| `LaneQueue`, `LaneQueueProofs` | `command-queue.ts` with nested runs; implements `LaneContract` |
| `MLFQPolicy` | the scheduler's rules as operators, shared by the next two |
| `StatefulMLFQ`, `StatefulMLFQProofs` | the scheduler on its own, with cache discards |
| `AstraeaQueue`, `AstraeaQueueProofs` | the installed queue: lanes, dispatcher and MLFQ together; implements `LaneContract` with one slot a lane |
| `GatewayRunLoop` | the process around the queue, asked for restarts at any time |
| `GatewayRestart`, `GatewayRestartProofs` | the same process composed with what asks it; implements `GatewayRunLoop`; the proofs are of both |
| `FollowupQueue` | the queue of messages that found their session busy |
| `DeliveryQueue` | the write-ahead queue of outbound messages |
| `MessageQueueProofs` | the theorems about these two queues |
| `HeartbeatWake`, `HeartbeatWakeProofs` | wakes, batches and runners |
| `CronService`, `CronServiceProofs` | the cron scheduler over its store |
| `SessionWriteLock`, `SessionWriteLockProofs` | the lock of a session file, between runs and between processes |
| `MC*` | instances: jobs, lanes, messages and settings |

### LaneQueue and AstraeaQueue

*State.* The variables carry the names of the code's fields. A task is enqueued at most
once, so that a job is its own entry and its own task id. `generation` is one number:
`resetAllLanes` is the only code that changes it and bumps every lane alike. A lane that
does not exist yet is one with nothing in it.

*The call stack.* `drainLane` and `pump` are synchronous and re-entrant: `pump` starts a
task, whose synchronous prefix may enqueue and drain another lane, or throw and run its
catch block, with `pump` still on the stack. So `stack` is a variable. An event-loop
action (`Enqueue`, `FinishCurrent`, `TimerFires`, `ResetAllLanes`, ...) needs an empty
stack and pushes the calls it makes; a stack action (`DrainBegin`, `StartNested`,
`PumpExit`, `Settle`, ...) runs the innermost one. Between two stack actions nothing
else runs, as in JavaScript. Promise continuations are event-loop actions that may be
delayed past others, which allows more orders than the microtask queue does.

*Tasks.* A task yields and later ends either way, throws before it yields, or (a nested
one) enqueues its inner job and ends the way that job's promise does. `Inner` says which
jobs are nested. While the gateway drains the inner enqueue is refused.

*What differs in AstraeaQueue.* `Dispatch` and `Release` are `dispatchToLane` and
`releaseLane`; `Take` is `getNextJob`, by the pump of whichever lane asks. The job's
state is the literal that `enqueueCommandInLane` gives every job (128 predicted tokens,
no wait), so all jobs share one level and leave it in order. `LaneState.queue` is never
filled, hence `ClearLane` and `ResetAllLanes` find nothing in it. `finally`'s timer is
not modelled: `PumpsToTheEnd` states that its condition never holds. With
`SYSTEM2_ENABLED` unset the patched file behaves as `LaneQueue`.

*Left out:* wait-time warnings, logging, `getQueueSize`, the spelling of lane names.

### StatefulMLFQ

Each method is one step. Levels hold jobs in order of arrival; the HRRN quotients are
compared multiplied out, which is exact for the numbers used. A discard adds 7.5 times
the cache's size. A job name is reused once it was handed out (an agent's next request).
`promised` is a history variable: what was enqueued and not handed out.

### GatewayRunLoop and GatewayRestart

Two coroutines: `loop` is where `while (true)` is (it awaits `start()` or the restart
promise), `request` is where the body of `request` is. The queue is reduced to the state
of its tasks and the draining flag. Timers of the drain and of the forced exit are
choices; the forced exit is enabled only while the server closes, since the drain's
30 s end before the forced exit's 35 s. A respawn either takes the process away or fails
and lets it restart in place, with or without getting the lock back.

`GatewayRestart` adds the two modules that ask for a restart. `Schedule` is
`scheduleGatewaySigusr1Restart` (the gateway's tool, updates), `ReloadAsks` is
`requestGatewayRestart` of a configuration reload, `ExternalSignal` a SIGUSR1 that the
policy lets through. `timer` is `pendingRestartTimer`; `polls` counts deferrals that poll
until the gateway is idle; `restartPending` is the flag of the current server's reload
handlers, whose poll goes on uncounted when a new server starts. `Emit` runs the signal
handler inside `process.emit`, so that the token is consumed before it returns; a signal
that arrives during a request is turned away. Times are abstracted: a timer may fire as
soon as it is set, a poll may give up waiting at once. Requests are counted by `asks`
(bound `MaxAsks`); `owed` is a history variable, true from the moment a running gateway
is asked until a restart begins.

### FollowupQueue

One session. `current` is the entry of `FOLLOWUP_QUEUES`; a drain keeps the queue object
it began with, so that objects outlive the map's entry (`Queues` bounds how many).
`Arrive` decides whether the session is busy; `Enqueue` is `enqueueFollowupRun` some awaits
later, with settings of its own (mode, cap, drop policy). A drain's steps are cut at its
awaits: `Round` after the debounce, `Collect` after `drainCollectQueueStep` has answered
"skipped", `RunEnds`/`RunThrows` after the run. `Finally` is its `finally`, which schedules
again or deletes the map's entry whatever that holds. `recent` is the cache of message ids
that deduplicates; `Forget` takes an id out of it, as its five minutes and its size limit
do (`enqueue.ts:7-10`, `infra/dedupe.ts`), at any time at which a delivery that would ask
for the id is still to come. History variables are `fate`, `forgotten` (accepted deliveries
whose id has left the cache since) and `unmapped` (queue objects that the end of another
object's drain has taken off the map). A message is its id and its route; prompts, the summary's text, interrupt and steer modes
and the debounce buffer before the queue are left out. `FInit`, `FNext` and `FSpec` have
names of their own so that one module can prove things about both message queues.

### DeliveryQueue

A worker is the live send of a message or a recovery. Every awaited file operation is a
step: `Deliver` writes the entry, `AckRename` and `AckUnlink` are the two phases of
`ackDelivery`, `FailRead` and `FailWrite` those of `failDelivery`, `Move` is
`moveToFailed`, `Start` and `ReadEntry` are `loadPendingDeliveries`. `Crash` ends all
workers and leaves the files; `Start` also happens without a crash, beside live sends, as
it does after a restart in the process. Files are `retryCount` (of the entry, or
`NoFile`), `marker` and `failed`. What a recovery does with the oldest entry it has read is
`Exhaust`, `Defer` (back-off) or `Replay`; its time budget may end it any time. A send
succeeds or fails as a whole; `AfterError` lists what follows, given `bestEffort` and
`onError`. `shared` is the history variable behind the exception of three properties:
messages that two workers once had in hand at the same time. I/O errors other than a
missing file, the shared name of temporary files and the migration of old entries are
left out.

### HeartbeatWake

The wake state belongs to the process, a runner to a server. `BatchBegins` is the timer's
callback up to its first await; a batch calls the handler it found for one wake after the
other (`Disabled`, `TurnBegins`, `TurnEnds`, `RequestsInFlight`, `Throws`) and `BatchEnds` is
its `finally`. `Start`, `Stop`, `UpdateConfig` and `Tick` are the runner's. Priorities are
kept, reasons are not. `owed` is the highest priority asked for a target and not answered
since; `muted` says that heartbeats were disabled since the runner's timer was last set.
Delays are abstracted, as the module's comment explains.

### CronService

Blocks under `locked()` are atomic; a coroutine of a service (`boot`, `tick`, `run`) executes
jobs between two of them, and a service that a reload stopped finishes what it has begun.
`disk` is the store file, `mem` each service's copy, `own` tells whether a tick still holds
the job objects of its service's copy or that has been reloaded under it. The clock
counts slots; a recurring job is due at each, a one-shot job at `OneShotAt`, a retry one
slot after its error. `List` stands for `list` and `status`. `unmarked` is the history
variable behind the exception of `NoOverlap`: jobs whose marker left the store, or that were
disabled there, while they were executed. The early return of `onTimer` while a tick is under
way only sets the timer again, which leaves the state as it is, so it is no action. Left out: interval schedules,
`deleteAfterRun: false`, failure alerts, delivery, the session reaper, `maxConcurrentRuns`
above 1, runs longer than `STUCK_RUN_MS`, skipped runs.

### SessionWriteLock

One session file. A task acquires once; the lock object it creates has its name. `Open`
creates the file exclusively, `Write` fills in the payload and enters the object in the
process's `HELD_LOCKS` (`held`), `Read`, `Stat` and `Remove` are a contender that finds the
file there, `Acquire` is the reentrant case. `Release` is `releaseHeldLock` up to its await
and `Closed` the removal at the end of its `releasePromise`; `Watchdog`, `Terminate` and the
three `Clean...` actions release or remove without the holder. The file is its creator,
whether it has a payload, and whether `staleMs` has passed (`Ages`); removals are by name,
whoever created the file that is there. `robbed` records that a file in use was removed
as stale, `forced` the lock objects that the watchdog or a signal released. Reused process
ids and I/O errors other than a failed write are left out, and so is `isPidAlive` answering
false for a live process of another user (`shared/pid-alive.ts` takes EPERM for "dead"):
processes that share a session directory are taken to run as one user.

## 3. Runs

| run | question | bounds | result |
|---|---|---|---|
| `lane_queue` | Is the queue correct? | two runs of one session (each nested), one plain job; main lane reconfigured between 0 and 2; one reset | all hold, 154 thousand states |
| `lane_reentrant` | Is a push onto a lane safe while a pump of that lane is further down the call stack (the comment at `command-queue.ts:157-165`)? | a main-lane task that runs a session task that enqueues on the main lane again, a plain job, one reset; no caller does this today | yes, 10 thousand states |
| `mlfq` | Does the scheduler keep and order its jobs? | three jobs (symmetric), token counts 64, 128, 700, caches of 10 and 20, wait at most 150 | all hold, 13 thousand states |
| `astraea` | Is the installed queue a correct set of serial lanes? | a nested and a plain job in a session lane, its inner job and two rivals in the main lane, limits 0 to 2, one reset | all hold, 307 thousand states |
| `run_loop` | Do shutdown, drain and lock agree, and does a restart that is owed happen? | three tasks, three requests for a restart, any signals, outside signals allowed | all hold, 427 thousand states |
| `followup` | Is a message that found its session busy looked at, once, within the cap? | four deliveries (one redelivery, one of another thread), four settings, caps 1 and 2, two queue objects, one failing run, one clear, ids that expire at any time | all hold, 561 thousand states |
| `session_lock` | Does whoever holds a session's lock have its file, and is a dead holder's file reclaimed? | two runs in the gateway, one in another process, reentrant, Linux (start times), one clean-up | all hold, 255 thousand states |
| `followup_lost` | Is an accepted message answered, told about, or still waiting? | the same, no failure, no clear | no |
| `delivery` | Does the queue keep its messages, and its acks? | a strict and a best-effort message, two recoveries, three starts, two retries | all hold, 3.6 million states |
| `heartbeat` | Is every wake answered, with its urgency? | all agents and one session, two runners, two batches, one request from outside, two refusals or errors | all hold, 814 thousand states |
| `cron` | Does the scheduler go on, without overlap or skipped slots? | a recurring or a one-shot job, two services, two slots, one call, one retry | all hold, 2.5 million states |
| `cron_oneshot` | Is a one-shot job that a crash interrupted not replayed? | the same, no call | no |

The properties and the code they are about are stated where they are defined. The main
ones: `NoIdleCapacity` (nothing waits beside a free slot when the event loop regains
control), `OneRunPerSession` (of the runs of a session that started in one generation
at most one works at a time; across a reset two may, see the observations) and
`SlotsAreBusyTasks` (stale completions neither free nor take slots), `ImplementsContract`, `AcceptedWorkSettles`, `LockIsOneJob` (the
dispatcher's lock is one job under way, orphans included), `PumpsToTheEnd`,
`HandsOutTheBest`, `EachJobWaitsOnce`, `TurnsFinishFirst`, `NoLockLeftBehind`,
`OwedIsArmed` and `RestartHappens`, `NoStrandedFollowup` (a queue object that holds a
message has a drain, with two exceptions that the property spells out: no callback is
known, or the object is `unmapped`), `AcceptedOnce` (until the id expires; after that the
deliveries of one message never wait in one queue together), `WithinCap` (of every step
that accepts a message, whatever the queue held before), `NothingLost`,
`SettledForGood`, `NoWakeForgotten`, `HeartbeatsKeepFiring`, `NoOverlap`, `NoSlotSkipped`,
`SingleWriter`, `NoForgottenFile`.

*Why the bounds are enough to be interesting.* Two nested runs of one session and a rival
make both lanes contended, let a task of the old generation complete among new ones, and
let a concurrency change, a clear, a drain and a reset fall at any point; a second reset
brings no new relation between a task's generation and the current one (the proofs cover
any number). In `astraea` three jobs contend for one lane, so the order of held jobs is
visible. Three scheduler jobs are the least for which a tie, a better one and a demoted
one coexist, and the counts lie in the first, second and last band. Three requests for a
restart let one be in flight, one pending and one deferred at once. In `followup` caps
1 and 2 let a queue overflow, and shrink below what it holds, while a run is under way;
the redelivery may come before and after the id expires, while the first delivery waits,
is answered, was dropped or cleared.
Two recoveries and three starts let a scan overlap a live send, another scan and a crash;
with two retries an entry may be exhausted (the proofs cover any number of each). Two
runners are what a reload brings, and two batches the old one's and the new one's. In
`cron` two services let an execution outlive a reload or be cut by a crash, and with two
slots a job becomes due again while it executes. Two tasks of a process and one of another
are what reentrance, the gap between leaving the map and removing the file, and two
contenders that find the same file stale need (the proofs cover any number).

*Deadlock* is checked where the system never stops: `lane_queue`, `lane_reentrant`,
`mlfq`, `astraea`. The gateway process may exit, and the inputs of `followup`, `delivery`,
`heartbeat`, `cron` and `session_lock` (deliveries, starts, requests, calls, slots, tasks)
are bounded.

*Fairness.* `LaneQueue` assumes that calls on the stack run on (JavaScript runs to
completion) and that a task of the current generation ends, strongly fair because other
events may come between any two states in which its continuation can run; the run
timeout of the embedded runner justifies the latter. Nothing is assumed of orphaned
tasks, callers or timers. The run loop assumes that each of its awaits ends (drain and
close are bounded by timers, the lock by its timeout) and, with the scheduler, that
timers and polling intervals fire. The follow-up queue assumes that debounce timers fire
and runs end; the heartbeat that its timer fires and turns end; the session lock that file
operations end and a contender tries again after its delay. Nothing is assumed of
messages, requests, restarts, reloads or crashes. `mlfq`, `astraea`, `delivery` and `cron`
check safety only.

*Definitions named Fault...* are plausible bugs of the definitions below them (a missing
clamp, a push at the wrong end, a forgotten reset). No action uses them. Each property
is violated when one of them takes the place of the definition it spoils: the list is
`mutants` in `PROJECT.json`.

### What the failing runs show

- **`followup_lost`: a waiting message disappears.** A drain runs the first message and then
  removes the front of the queue. If the queue overflows meanwhile, the front is already
  gone and the next message is removed in its place, unanswered and untold
  (`drain.ts:157`, `queue-helpers.ts:155`).
- **`cron_oneshot`: an interrupted one-shot job is replayed.** `start` skips it in its
  catch-up only; the first tick finds it due and runs it (`ops.ts:121`).

### Observations

Met while modelling; the models have these behaviours, no run is made of them.

- *Command queue.* A reset keeps the orphaned run's entry in the main lane, so that this
  entry and the session's next run work together (`docs/concepts/queue.md:20` and `:83`
  promise otherwise); `OneRunPerSession` therefore speaks of runs whose session entries
  started in one generation. A session entry accepted before a drain may start during it, and its
  inner enqueue is refused (`command-queue.ts:198`).
- *Astraea.* Resetting or clearing a lane and `getQueueSize` act on `LaneState.queue`, which
  stays empty (`installer.js:256`, `274`, `288`). A lane's configured limit has no effect,
  since the lock admits one job at a time; no task is ever shunted as read-only, since an
  entry has no `tool_name`; `forceUnlockLane` has no caller. HRRN compares within a level
  only, so small requests that keep arriving starve a large one (`README.md:13` at the root
  says HRRN prevents that).
- *Run loop.* A SIGUSR1 while the server starts leaves the queue draining for good, since
  there is no promise to resolve and no next iteration (`run-loop.ts:119`). A SIGTERM during
  a restart is dropped (`run-loop.ts:97`). Deferral polls outlive an in-process restart and
  may bring about a second one.
- *Follow-up queue.* A summary run takes the place of the first message's own prompt;
  messages dropped during a summary run are cleared untold; the old drain's `finally`
  deletes the new queue object after a clear (`drain.ts:166`), which loses what that holds
  unless its own drain runs to the end; before the session's first drain and after a clear
  no callback is known, so that a message waits for the end of the session's next turn
  (`NoStrandedFollowup` names both cases); a redelivery is accepted again once its id has
  left the cache, five minutes after the first (`enqueue.ts:7-10`); a batch may mix routes, since they are
  compared before an await; an empty queue with dropped messages in collect mode runs
  summaries for as long as `lastRun` is set.
- *Delivery.* A recovery passes no `onError`, so that a best-effort message whose send fails
  is acked; `failDelivery` may write back an entry that was acked after it read it; the
  retry count is not raised before a send, so that a crash during it costs none.
- *Heartbeat.* The `finally` of an old batch clears `running` while a new runner's batch is
  under way; wakes left in a stopped runner's batch are answered "disabled". A tick that finds
  heartbeats disabled is answered without scheduling the next one, and
  `setHeartbeatsEnabled(true)` sets no timer, so that heartbeats stay off until a targeted
  wake, a reload or a restart (`heartbeat-runner.ts:1117`; `docs/cli/system.md:41` says
  "turn heartbeats back on"); `HeartbeatsKeepFiring` names this case (`muted`).
- *Cron.* `add` and `start` move due recurring jobs on without running them; `start` clears the
  markers of jobs that the stopped service still executes; disabling a job clears its
  marker; a stopped service may write an older copy of the store; a queued job that was
  disabled or removed is still executed. A tick that begins a job disabled meanwhile marks it
  again in memory (`timer.ts:613`), and a stopped service may write that copy; the next
  service's upkeep then takes the marker from the job it executes (`jobs.ts:358`), and a forced
  run starts it once more. The catch-up of `start` takes care not to move slots that have
  become due during it (`timer.ts:903-905`), but `start` then recomputes every next run and
  does move them (`ops.ts:117`). `NoOverlap` and `NoSlotSkipped` name these cases.
- *Session lock.* Two contenders may find the same file stale, the second then removing the
  fresh one of the first (`session-write-lock.ts:540-541`); the clean-up of a starting gateway
  removes a fresh file that has no payload yet (`429`); a lock older than `staleMs` is
  reclaimed though its holder lives, and `maxHoldMs` may be longer; a signal that other
  listeners handle releases the locks of runs that go on. Without start times (not Linux) a
  process takes its own file for an orphan while it is being closed or before it is in the
  map. After any of these `robbed` holds and two runs may write.

## 4. Theorems

The proofs are for any lanes, jobs, nesting and limits that satisfy
`LaneQueueAssumption` or `AstraeaQueueAssumption` (in particular: an inner job has one outer
job; finitely many jobs of `LaneQueue`), for any set of tasks of the run loop and any number of requests, and for any
messages, recoveries, retries and starts of the delivery queue, any jobs and caches of the
scheduler, any targets, batches and runners of the heartbeats, any processes and tasks
of the session lock, any messages, routes, caps and queue objects of the follow-up queue, and
any jobs, services, slots and calls of cron (`NotLoadedAssumption`: a store is not null). The type invariant is
a theorem of every proof module; `followup` and `cron` check it as well.

*LaneQueue.* `IInv` joins the type invariant with: `QueuedOnce` (a queue holds unsettled
entries of its lane, each once), `OuterAwaitsInner` (a nested job runs while its inner
one is anywhere), `OneSettleFrame`, `SlotsAreBusyTasks`, `StartedInThePast`,
`SerialLanes`, `WorkIsPumped` and `DrainingIsPumping`. The last two are why it is needed:
`NoIdleCapacity` and `NoStuckDrain` speak of an empty stack only, and are not inductive;
what every step preserves is that a lane with work and room, or with its flag set, has a
frame on the stack that will pump it. `StartedInThePast` makes a reset orphan every
running task, which is what keeps slots and tasks equal. `SessionExclusion` needs one
more invariant, `SerialGenerations`: of the tasks of a serial lane that started in one
generation one runs at most. For the current generation that is what slots say; a task of
an older one was running before the step (`OldRunsRan`), so a reset keeps it. From `IInv`
alone follow `NothingStranded`, `DrainingFlagReleased`, `SlotAccounting`, the
action property `StartsFromTheQueue`, and `ImplementsLaneContract`: the initial state maps
to the contract's, each start, completion, clear, reset and submission to the contract's
step of that name, and every other step to a stutter. The proof takes the conjuncts in
three groups (jobs, slots, pumps), one lemma for event-loop actions and one for stack
actions each; facts about pushing on and popping from a sequence are lemmas of their own.

*AstraeaQueue.* What makes the installed queue provable is an observation about it
(`OneAtATime`): the MLFQ never holds more than one job. A job becomes ready on an empty call
stack, inside the pump that has just taken the only ready one, or at the completion of such
a job; each time a frame that drains the job's own lane is on top of the stack, and since
the job's lock was free or passed on, nothing of that lane runs, so that its pump has room
and takes it at once. `Served` says that of the stack's top; `BuriedIsBusy` that a lane
whose `draining` flag is set under other lanes' frames has a running task, hence its lock,
and so cannot be the lane of a job that becomes ready; `HeldBack` and `LockOf` tie the held
jobs and the locks to the entries; `OuterFirst` keeps inner jobs new until their outer job
runs. The HRRN order of the shared MLFQ therefore never chooses between two jobs:
the order in which jobs start is decided by the lanes' locks alone. From `IInv` follow
`LocksAreHeldByOneJob`, `SlotsAreExact`, `NothingLeftInTheMLFQ`, and `ImplementsLaneContract`
with one slot for each lane, where a lane's waiting jobs are the one in the MLFQ followed by
those held back.

*GatewayRunLoop.* `IInv` adds that the tasks waited for have begun (so that none of them
can start after the drain found it ended) and that a respawn finds the lock released.

*GatewayRestart.* `ImplementsRunLoop`: every step is one of the run loop's or leaves it
alone, so that the theorems of the run loop hold of the composition
(`RunLoopInvariants`). `RestartInvariance` adds that no token stays unconsumed - otherwise
`Schedule` would join a signal that never comes - and that an owed restart finds the loop at
its unresolved promise. `OwedRestartsAreArmed` and the count of timers and deferrals
(`SchedulerTypeCorrect`) follow.

*DeliveryQueue.* `NothingLost`, `SettledForGood`, `RetriesBounded` and `NoReplayAfterAck`
speak of files, but whether they survive a step depends on what workers have in hand.
`IInv` says that: who is about to ack has sent, aborted or may swallow (`Justified`); a
message not handed over has no file and no worker (`Fresh`); one not in `shared` has one
worker at most, not both in its list and in its hand (`Alone`, `TakenOut`), whose list
agrees with the file (`AsRead`) and who has a retry left (`Budget`); a settled one has no
file and nobody but an `unlink` left (`Settled`). One lemma per conjunct, one step per
action.

*StatefulMLFQ.* `IInv` says that every promised job waits in the level it records, once, and
in no other. What `HandsOutTheBest` needs beyond it is that `getNextJob`'s scan finds the
first maximum of the response ratios (`ScanFindsBest`): "later in the scan and no better, or
strictly better" is a total order on the indices, since quotients that are multiplied out
compare transitively (`CrossMultiplied`), and a finite set that is totally ordered has a
first member (`FirstExists`, by well-founded descent on its subsets). The level is the
least nonempty one of `0..5`; a removal at an index keeps the other jobs in order.

*SessionWriteLock.* `SingleWriter` is not inductive: a file is removed by whoever was about
to remove it, so `IInv` says where everyone is while `robbed` is false. `CountsHolders`: the
count of a lock object in the map is the number of its holders; `KnownHasFile`: the object
a process knows of (in the map, being closed, being written, being abandoned) has the file,
which makes it the only one; `HeldInMap`: who holds an object that was not forced finds it
in the map; `Lifecycle`: which objects may be in which place; `Calm`: without a death,
an aged lock or a clean-up nobody is about to remove a file, which gives
`LiveLocksAreSafe`.

*HeartbeatWake.* `PendingIsWatched` is inductive with the type invariant. The other two
are not: an error puts back what the batch took, not what it has left to offer, and a
refusal puts back the wake of the turn. `OfTheBatch` makes these at least as much as what
goes: `todo` of a batch is part of `taken`, and its turn is for a wake not answered yet.
`NoWakeForgotten` follows by comparing priorities before and after each step, in three
lemmas (a request, a wake handed out, a batch over). `HeartbeatsKeepFiring` is proved in a
stronger form, `Chain`, that does not count a turn under way: a turn for all agents still
has its wake in `todo`, so that its refusal leaves it pending, and one for a session cannot
have broken the chain. `DisabledIsMuted` excuses the one answer that schedules nothing, and
`Numbered` (runners are numbered by their start) makes a new runner one without agents.

*FollowupQueue.* `FInv` joins the type invariant and `AcceptedOnce` with `HeldIsAccepted`
(what a queue object, the live one or one that was replaced, or its drain holds is of an
accepted message) and `AcceptedIsRemembered` (its id is in the cache until it is
forgotten). `AcceptedOnce` needs both: a delivery is accepted only if its id is neither in
the cache nor among what waits, so that within the cache's memory it is the only one, and
beyond it at least the only one of its queue; what a drain leaves of a queue is a suffix of
it, and holds nothing twice either. `NoStrandedFollowup` is not inductive: a drain may end
with work left while its object is no longer in the map. It follows from
`CurrentIsWatched` (every enqueue and every end of a drain schedules one for the object in
the map, once a callback is known) and `OffTheMap` (an object outside the map that holds
something was taken off it by the end of another object's drain, since a clear empties the
object it removes). `CapHolds` follows from the step lemma: only `Enqueue` makes a message
`queued`, and `applyQueueDropPolicy` leaves room for one under the cap of its own settings;
a message that any other object held would have been accepted before.

*CronService.* None of its properties is inductive alone. `IInv` adds: `SoundEntries` (an
enabled job has a next run, so that maintenance never has to give it one); `Working` and
`ManualHasJob` (who executes has loaded a store, and a manual run has its job or its
outcome); `Unstarted` and `Quiet` (a service that has not started or is of a dead process
does nothing, and one about to load has no tick or run yet); `Markers` (a job in hand is
marked in the store *and* in the copy of the service that has it in hand, and enabled there
unless it is run by hand); `Agree` (the only service of a process and the store agree on
when enabled jobs are due). `Markers` is what keeps two coroutines of a service apart,
although each looks at a different copy: a tick tests the marker in the file as reloaded, a
manual run the one in memory after upkeep, which clears it from disabled jobs. `Agree` is
what lets a call write the copy in memory without moving a due slot. The proof has one lemma
for each action, over lemmas for what the two kinds of step (a coroutine moves on, a call
writes) leave of each conjunct. It showed that `NoOverlap` had to name one more case, a job
that is disabled while it is executed (see the observations).

*Only model-checked:* liveness (`AcceptedWorkSettles`, `RequestsEnd`, `RestartHappens`,
`QueueDrains`, `WakesAreAnswered`, `DeadLocksAreReclaimed`), since fairness and ENABLED are
outside the proof system's reach. Every other property of a passing run is a theorem.

## 5. Plan and what is not modelled

In order, each with its theorems where they fit:

1. gateway lock: stale locks, two processes, composed with the run loop's forced exit;
2. `Installer`: backup, update, uninstall, crash between file operations;
3. subagent registry, exec approvals, ACP actor queue;
4. the run loop over `LaneQueue` itself in place of the reduced queue.

*Not modelled.* Channels, CLI, providers, UI, native apps, memory search, media, browser
control and setup wizards, some six hundred thousand lines, are adapters, rendering,
parsing and configuration whose state is external or whose control is straight-line; see
the components of `PROJECT.json`. The modules here cover the shared queues, timers and
files through which those parts meet, which is a small share of the repository's lines
and most of what interleaves in it.
