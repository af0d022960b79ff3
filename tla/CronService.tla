---------------------------- MODULE CronService ----------------------------
(***************************************************************************)
(* The cron scheduler (openclaw-main/src/cron/service): ops.ts, timer.ts   *)
(* and the schedule upkeep of jobs.ts over the store of store.ts.          *)
(*                                                                         *)
(* Blocks under locked() are atomic: the lock is one per store file, for   *)
(* all services of the process.  Jobs are executed outside it, and a       *)
(* service that a reload or an in-process restart stopped finishes what it *)
(* has begun.                                                              *)
(*                                                                         *)
(* The clock counts slots: a recurring job (schedule.kind "cron") is due   *)
(* at each, a one-shot job ("at", deleteAfterRun) at OneShotAt, and a      *)
(* retry one slot after the error.  No run is skipped, runs end before     *)
(* STUCK_RUN_MS, and maxConcurrentRuns is its default, 1.                  *)
(***************************************************************************)
EXTENDS Integers, FiniteSets

CONSTANTS
  Recurring, OneShots,
  NoJob, NotLoaded,
  OneShotAt,
  InitialJobs,   \* bound: the sets of jobs the store file may hold at first
  MaxAttempts,   \* retry.maxAttempts
  MaxStarts,     \* bound: services started
  MaxTime,       \* bound: slots
  MaxOps         \* bound: calls of add, update, remove and run

Jobs == Recurring \cup OneShots

ASSUME CronAssumption ==
  /\ Recurring \cap OneShots = {} /\ NoJob \notin Jobs
  /\ OneShotAt \in Nat /\ InitialJobs \subseteq SUBSET Jobs /\ MaxAttempts \in Nat
  /\ MaxStarts \in Nat \ {0} /\ MaxTime \in Nat /\ MaxOps \in Nat

VARIABLES
  disk,          \* the store file: job -> its entry, or Absent
  mem,           \* service -> state.store, or NotLoaded
  timer,         \* services whose state.timer is set
  at,            \* coroutine -> where it is
  todo,          \* coroutine -> jobs it has reserved and not begun
  doing,         \* coroutine -> the job it executes
  since,         \* coroutine -> when it began that
  results,       \* coroutine -> job -> its outcome, or NoResult
  own,           \* services whose store holds the job objects its tick reserved
  interrupted,   \* service -> startupInterruptedJobIds
  cur,           \* the gateway's service
  now,
  ops,
  first,         \* history: the first service of the process
  unmarked       \* history: jobs that lost their running marker, or were disabled, while
                 \* they were executed

store == <<disk, mem>>
work == <<at, todo, doing, since, results, own>>
vars == <<store, timer, work, interrupted, cur, now, ops, first, unmarked>>

Services == 1..MaxStarts
Coroutines == Services \X {"boot", "tick", "run"}
Boot(s) == <<s, "boot">>
Tick(s) == <<s, "tick">>
Manual(s) == <<s, "run">>

Never == -1
Absent == [present |-> FALSE]
NoResult == [status |-> "none"]
Statuses == {"ok", "transient", "permanent"}

\* createJob
NewJob(j) ==
  [present |-> TRUE, enabled |-> TRUE, next |-> IF j \in OneShots THEN OneShotAt ELSE now + 1,
   running |-> FALSE, last |-> Never, failed |-> FALSE, errors |-> 0]

Init ==
  /\ now = 0
  /\ \E js \in InitialJobs : disk = [j \in Jobs |-> IF j \in js THEN NewJob(j) ELSE Absent]
  /\ mem = [s \in Services |-> NotLoaded]
  /\ timer = {}
  /\ at = [c \in Coroutines |-> IF c = Boot(1) THEN "load" ELSE "idle"]
  /\ todo = [c \in Coroutines |-> {}]
  /\ doing = [c \in Coroutines |-> NoJob]
  /\ since = [c \in Coroutines |-> 0]
  /\ results = [c \in Coroutines |-> [j \in Jobs |-> NoResult]]
  /\ own = {}
  /\ interrupted = [s \in Services |-> {}]
  /\ cur = 1
  /\ ops = 0
  /\ first = 1
  /\ unmarked = {}

-----------------------------------------------------------------------------
(* Schedules (jobs.ts).  A store is a function from jobs to entries.  A         *)
(* definition whose name starts with Fault is a plausible bug in the one below  *)
(* it; no action uses it.                                                      *)

Enabled(st, j) == st[j].present /\ st[j].enabled
Due(st, j) == Enabled(st, j) /\ st[j].next # Never /\ st[j].next <= now

\* computeJobNextRunAtMs at time t
NextRun(j, t) ==
  IF j \in Recurring THEN t + 1 ELSE OneShotAt

\* normalizeJobTickState
Normalized(e) ==
  IF e.present /\ ~e.enabled THEN [e EXCEPT !.next = Never, !.running = FALSE] ELSE e

\* recomputeNextRuns: entries that are due or have no next run
Recomputed(st) ==
  [j \in Jobs |-> IF Enabled(st, j) /\ st[j].next <= now
                  THEN [st[j] EXCEPT !.next = NextRun(j, now)] ELSE Normalized(st[j])]

\* recomputeNextRunsForMaintenance.  recomputeExpired changes nothing more: a next
\* run is always after the last one, but for a one-shot job that is enabled again,
\* which keeps its time.
FaultAdvances(st) == Recomputed(st)
Maintained(st) ==
  [j \in Jobs |-> IF Enabled(st, j) /\ st[j].next = Never
                  THEN [st[j] EXCEPT !.next = NextRun(j, now)] ELSE Normalized(st[j])]

\* applyJobResult, and the deletion of a one-shot job that is done.  Errors beyond
\* MaxAttempts make no difference.
FaultBackoff(e, r) == [e EXCEPT !.errors = 1, !.next = r.ended + e.errors + 2]
AfterOneShot(e, r) ==
  LET errors == IF e.errors > MaxAttempts THEN e.errors ELSE e.errors + 1 IN
  IF r.status = "transient" /\ errors <= MaxAttempts
  THEN [e EXCEPT !.errors = errors, !.next = r.ended + 1]
  ELSE [e EXCEPT !.enabled = FALSE, !.next = Never, !.errors = errors]

Ran(e, r) == [e EXCEPT !.running = FALSE, !.last = r.started, !.failed = r.status # "ok"]

Applied(j, e, r) ==
  IF ~e.present \/ r = NoResult THEN e
  ELSE IF j \in Recurring
       THEN [Ran(e, r) EXCEPT !.next = IF e.enabled THEN r.ended + 1 ELSE Never]
       ELSE IF r.status = "ok" THEN Absent ELSE AfterOneShot(Ran(e, r), r)

\* ensureLoaded without forceReload trusts the copy in memory.
Loaded(s) == IF mem[s] = NotLoaded THEN disk ELSE mem[s]

\* The end of a locked block: the copy of s becomes st, and is persisted.
Persist(s, st) == mem' = [mem EXCEPT ![s] = st] /\ disk' = st

\* armTimer after the copy of s has become st
FaultNotArmed(s, st) == timer \ {s}
Armed(s, st) == IF \E j \in Jobs : Enabled(st, j) /\ st[j].next # Never THEN timer \cup {s} ELSE timer \ {s}

Marked(st, js) == [j \in Jobs |-> IF j \in js THEN [st[j] EXCEPT !.running = TRUE] ELSE st[j]]
GoTo(c, place) == at' = [at EXCEPT ![c] = place]
Idle(c) == todo[c] = {} /\ doing[c] = NoJob

-----------------------------------------------------------------------------
(* start *)

\* Running markers of the store are stale: nobody else could have set them.
BootLoad(s) ==
  LET st == Loaded(s)
      marked == {j \in Jobs : st[j].present /\ st[j].running}
  IN
  /\ at[Boot(s)] = "load"
  /\ interrupted' = [interrupted EXCEPT ![s] = marked]
  /\ Persist(s, [j \in Jobs |-> IF j \in marked THEN [st[j] EXCEPT !.running = FALSE] ELSE st[j]])
  /\ GoTo(Boot(s), "missed")
  /\ UNCHANGED <<timer, todo, doing, since, results, own>>

\* A one-shot job with a result only for its retry; a recurring one also for a slot
\* between its last run and a next run that was moved on.
Missed(s, st) ==
  {j \in Jobs \ interrupted[s] :
     /\ Enabled(st, j) /\ ~st[j].running
     /\ IF j \in OneShots /\ st[j].failed
        THEN Due(st, j) /\ st[j].next > st[j].last
        ELSE Due(st, j) \/ (j \in Recurring /\ st[j].last # Never /\ now > st[j].last)}

\* runMissedJobs reserves
BootMissed(s) ==
  LET st == Loaded(s)
      js == Missed(s, st)
  IN
  /\ at[Boot(s)] = "missed"
  /\ IF js = {} THEN mem' = [mem EXCEPT ![s] = st] /\ UNCHANGED disk
     ELSE Persist(s, Marked(st, js))
  /\ todo' = [todo EXCEPT ![Boot(s)] = js]
  /\ GoTo(Boot(s), IF js = {} THEN "arm" ELSE "execute")
  /\ UNCHANGED <<timer, doing, since, results, own, interrupted>>

BootArm(s) ==
  /\ at[Boot(s)] = "arm"
  /\ Persist(s, Recomputed(disk))
  /\ timer' = Armed(s, Recomputed(disk))
  /\ own' = own \ {s}
  /\ GoTo(Boot(s), "up")
  /\ UNCHANGED <<todo, doing, since, results, interrupted>>

-----------------------------------------------------------------------------
(* onTimer.  While a tick is under way a second one only sets the timer again.  *)

TimerFires(s) ==
  /\ s \in timer
  /\ at[Tick(s)] = "idle"
  /\ GoTo(Tick(s), "collect")
  /\ UNCHANGED <<store, timer, todo, doing, since, results, own, interrupted>>

FaultUnreserved(st, js) == st
Reserved(st, js) == Marked(st, js)

Collect(s) ==
  LET js == {j \in Jobs : Due(disk, j) /\ ~disk[j].running} IN
  /\ at[Tick(s)] = "collect"
  /\ Persist(s, IF js = {} THEN Maintained(disk) ELSE Reserved(disk, js))
  /\ todo' = [todo EXCEPT ![Tick(s)] = js]
  /\ own' = own \cup {s}
  /\ GoTo(Tick(s), IF js = {} THEN "finally" ELSE "execute")
  /\ UNCHANGED <<timer, doing, since, results, interrupted>>

\* Also for a service that has been stopped meanwhile.
TickFinally(s) ==
  /\ at[Tick(s)] = "finally"
  /\ timer' = Armed(s, mem[s])
  /\ GoTo(Tick(s), "idle")
  /\ UNCHANGED <<store, todo, doing, since, results, own, interrupted>>

-----------------------------------------------------------------------------
(* Execution: executeJobCoreWithTimeout *)

\* runDueJob sets the marker again, on the object it has reserved.
Begin(c, j) ==
  LET s == c[1] IN
  /\ at[c] = "execute"
  /\ doing[c] = NoJob
  /\ j \in todo[c]
  /\ todo' = [todo EXCEPT ![c] = @ \ {j}]
  /\ doing' = [doing EXCEPT ![c] = j]
  /\ since' = [since EXCEPT ![c] = now]
  /\ mem' = IF c = Tick(s) /\ s \in own /\ mem[s][j].present
            THEN [mem EXCEPT ![s] = Marked(mem[s], {j})] ELSE mem
  /\ UNCHANGED <<disk, timer, at, results, own, interrupted>>

\* The outcome of a recurring job is told apart by its backoff only.
End(c, status) ==
  /\ doing[c] # NoJob
  /\ doing[c] \in Recurring => status = "ok"
  /\ results' = [results EXCEPT ![c][doing[c]] =
                   [status |-> status, started |-> since[c], ended |-> now]]
  /\ doing' = [doing EXCEPT ![c] = NoJob]
  /\ since' = [since EXCEPT ![c] = 0]
  /\ UNCHANGED <<store, timer, at, todo, own, interrupted>>

\* The outcomes are applied to the store as it is now.
Apply(c) ==
  LET s == c[1]
      st == Maintained([j \in Jobs |-> Applied(j, disk[j], results[c][j])])
  IN
  /\ c # Manual(s)
  /\ at[c] = "execute"
  /\ Idle(c)
  /\ Persist(s, st)
  /\ results' = [results EXCEPT ![c] = [j \in Jobs |-> NoResult]]
  /\ own' = own \ {s}
  /\ GoTo(c, IF c = Boot(s) THEN "arm" ELSE "finally")
  /\ UNCHANGED <<timer, todo, doing, since, interrupted>>

-----------------------------------------------------------------------------
(* Calls, all to the gateway's service *)

Call == ops < MaxOps /\ mem[cur] # NotLoaded /\ ops' = ops + 1

\* run: the job is reserved under the lock and executed outside it.  A run that is
\* refused leaves the upkeep in memory.
Run(j, forced) ==
  LET st == Maintained(mem[cur])
      runs == ~st[j].running /\ (forced \/ Due(st, j))
  IN
  /\ at[Manual(cur)] = "idle"
  /\ st[j].present
  /\ IF runs
     THEN /\ Persist(cur, Marked(st, {j}))
          /\ todo' = [todo EXCEPT ![Manual(cur)] = {j}]
          /\ GoTo(Manual(cur), "execute")
     ELSE mem' = [mem EXCEPT ![cur] = st] /\ UNCHANGED <<disk, todo, at>>
  /\ UNCHANGED <<timer, doing, since, results, own, interrupted>>

\* Its result is applied to the copy in memory, and that entry is merged into the
\* store as reloaded.  A job that has been removed is left alone.
RunApply(s) ==
  LET c == Manual(s)
      j == CHOOSE k \in Jobs : results[c][k] # NoResult
      e == Applied(j, mem[s][j], results[c][j])
      merged == [disk EXCEPT ![j] = IF e.present /\ ~@.present THEN @ ELSE e]
  IN
  /\ at[c] = "execute"
  /\ Idle(c)
  /\ IF mem[s][j].present
     THEN /\ Persist(s, Maintained(merged))
          /\ timer' = Armed(s, Maintained(merged))
          /\ own' = own \ {s}
     ELSE UNCHANGED <<store, timer, own>>
  /\ results' = [results EXCEPT ![c] = [k \in Jobs |-> NoResult]]
  /\ GoTo(c, "idle")
  /\ UNCHANGED <<todo, doing, since, interrupted>>

Change(st) ==
  /\ Persist(cur, st)
  /\ timer' = Armed(cur, st)
  /\ UNCHANGED <<work, interrupted>>

Add(j) ==
  /\ ~mem[cur][j].present
  /\ Change(Recomputed([mem[cur] EXCEPT ![j] = NewJob(j)]))

\* update with enabled in the patch
Update(j, on) ==
  LET e == mem[cur][j] IN
  /\ e.present
  /\ Change([mem[cur] EXCEPT ![j] =
       IF on THEN [e EXCEPT !.enabled = TRUE, !.next = NextRun(j, now)]
       ELSE [e EXCEPT !.enabled = FALSE, !.next = Never, !.running = FALSE]])

Remove(j) ==
  /\ mem[cur][j].present
  /\ Change([mem[cur] EXCEPT ![j] = Absent])

\* list and status: the file is written only if something was repaired.
List ==
  LET st == Maintained(mem[cur]) IN
  /\ mem[cur] # NotLoaded
  /\ mem' = [mem EXCEPT ![cur] = st]
  /\ disk' = IF st = mem[cur] THEN disk ELSE st
  /\ UNCHANGED <<timer, work, interrupted>>

-----------------------------------------------------------------------------
(* The gateway *)

\* A configuration reload, or a restart in the process: stop only clears the timer.
Restart ==
  /\ cur < MaxStarts
  /\ cur' = cur + 1
  /\ timer' = timer \ {cur}
  /\ GoTo(Boot(cur + 1), "load")
  /\ UNCHANGED <<first, store, todo, doing, since, results, own, interrupted>>

Crash ==
  /\ cur < MaxStarts
  /\ cur' = cur + 1
  /\ first' = cur + 1
  /\ timer' = {}
  /\ mem' = [s \in Services |-> NotLoaded]
  /\ at' = [c \in Coroutines |-> IF c = Boot(cur + 1) THEN "load" ELSE "idle"]
  /\ todo' = [c \in Coroutines |-> {}]
  /\ doing' = [c \in Coroutines |-> NoJob]
  /\ since' = [c \in Coroutines |-> 0]
  /\ results' = [c \in Coroutines |-> [j \in Jobs |-> NoResult]]
  /\ own' = {}
  /\ UNCHANGED <<disk, interrupted>>

SlotPasses ==
  /\ now < MaxTime
  /\ now' = now + 1
  /\ UNCHANGED <<store, timer, work, interrupted>>

-----------------------------------------------------------------------------
CoroutineStep ==
  \/ \E s \in Services :
       \/ BootLoad(s) \/ BootMissed(s) \/ BootArm(s)
       \/ TimerFires(s) \/ Collect(s) \/ TickFinally(s)
       \/ RunApply(s)
  \/ \E c \in Coroutines :
       \/ \E j \in Jobs : Begin(c, j)
       \/ \E status \in Statuses : End(c, status)
       \/ Apply(c)

Calls ==
  \E j \in Jobs :
       \/ \E forced \in BOOLEAN : Run(j, forced)
       \/ Add(j) \/ Remove(j)
       \/ \E on \in BOOLEAN : Update(j, on)

Takers(j) == {c \in Coroutines : j \in todo[c] \cup {doing[c]}}

HasMarker(st, j) == st[j].present /\ st[j].running

\* What the history variable unmarked records of a step.
Recorded ==
  unmarked' =
    {j \in Jobs : /\ Takers(j)' # {}
                  /\ \/ j \in unmarked
                     \/ HasMarker(disk, j) /\ ~HasMarker(disk', j)
                     \/ Enabled(disk, j) /\ ~Enabled(disk', j)}

Next ==
  /\ \/ CoroutineStep /\ UNCHANGED <<cur, first, now, ops>>
     \/ Call /\ Calls /\ UNCHANGED <<cur, first, now>>
     \/ List /\ UNCHANGED <<cur, first, now, ops>>
     \/ Restart /\ UNCHANGED <<now, ops>>
     \/ Crash /\ UNCHANGED <<now, ops>>
     \/ SlotPasses /\ UNCHANGED <<cur, first, ops>>
  /\ Recorded

Spec == Init /\ [][Next]_vars

-----------------------------------------------------------------------------
(* Properties *)

Times == {Never} \cup 0..(MaxTime + 1)

Entries ==
  {Absent} \cup
  [present : {TRUE}, enabled : BOOLEAN, next : Times \cup {OneShotAt}, running : BOOLEAN,
   last : Times, failed : BOOLEAN, errors : 0..(MaxAttempts + 1)]

\* A store is not null.
ASSUME NotLoadedAssumption == NotLoaded \notin [Jobs -> Entries]

\* Type correctness: every next run lies at most one slot ahead, or is a one-shot's time.
TypeOK ==
  /\ disk \in [Jobs -> Entries]
  /\ \A s \in Services : mem[s] = NotLoaded \/ mem[s] \in [Jobs -> Entries]
  /\ timer \subseteq Services /\ own \subseteq Services
  /\ at \in [Coroutines -> {"idle", "load", "missed", "collect", "execute", "finally", "arm", "up"}]
  /\ todo \in [Coroutines -> SUBSET Jobs]
  /\ doing \in [Coroutines -> Jobs \cup {NoJob}]
  /\ since \in [Coroutines -> 0..MaxTime]
  /\ interrupted \in [Services -> SUBSET Jobs]
  /\ cur \in Services /\ now \in 0..MaxTime /\ ops \in 0..MaxOps

\* The scheduler is never silently dead (timer.ts:557-562): while the running service
\* has a job with a next run, its timer is set or a tick is about to set it, whatever
\* calls, executions and reloads have interleaved.
SchedulerKeepsTicking ==
  at[Boot(cur)] = "up" /\ (\E j \in Jobs : Enabled(mem[cur], j) /\ mem[cur][j].next # Never)
    => cur \in timer \/ at[Tick(cur)] # "idle"

\* A service never executes a job twice at once - start-up catch-up, tick and manual
\* run - unless something took its running marker out of the store, or disabled it
\* there, meanwhile (service.issue-regressions.test.ts:369 tests one such schedule).
NoOverlap ==
  \A j \in Jobs \ unmarked : \A c, d \in Takers(j) : c[1] = d[1] => c = d

\* A slot that is due is not skipped (timer.ts:666-669, #13992, #17852): in the store,
\* the next run of a job moves past a due one only with the result of an execution, by
\* the recomputation of start or add, or because the job itself is updated.  (Of start
\* that includes slots that became due during its catch-up, which timer.ts:903-905
\* means to keep and ops.ts:117 moves.  A service that outlives a reload may write an
\* older copy of the store; it is left out.)
Kept(j) ==
  Due(disk, j) /\ Enabled(disk', j) => disk'[j].next # Never /\ disk'[j].next <= disk[j].next

MayAdvance(j) ==
  \/ \E c \in Coroutines : results[c][j] # NoResult /\ results'[c][j] = NoResult
  \/ \E s \in Services : BootArm(s)
  \/ \E k \in Jobs : Add(k)
  \/ Update(j, TRUE)

NoSlotSkipped == [][cur' = first => \A j \in Jobs : Kept(j) \/ MayAdvance(j)]_vars

\* A one-shot job that a crash interrupted is not replayed (CHANGELOG.md:105).  The
\* code skips it in the catch-up of start only.
InterruptedNotReplayed ==
  \A j \in OneShots : doing[Tick(first)] = j => j \notin interrupted[first]
=============================================================================
