---------------------------- MODULE HeartbeatWake ----------------------------
(***************************************************************************)
(* Heartbeat wakes: the pending wakes, the timer and the batches of        *)
(* openclaw-main/src/infra/heartbeat-wake.ts, with the runners that        *)
(* register as its handler (startHeartbeatRunner, heartbeat-runner.ts).    *)
(*                                                                         *)
(* The wake state belongs to the process; each server started in it brings *)
(* a runner.  A batch is a coroutine that calls the handler it found, wake *)
(* by wake, and outlives that handler's registration.                      *)
(*                                                                         *)
(* Delays are abstracted: a timer may fire as soon as it is set.  What     *)
(* they decide is kept: no request asks for more than the 250 ms of        *)
(* DEFAULT_COALESCE_MS, less than DEFAULT_RETRY_MS, so that a timer that   *)
(* is set is due first or is replaced by one of its own kind.  The order   *)
(* of the wakes in a batch is left open, and what follows the end of a     *)
(* call at once may be overtaken.                                          *)
(***************************************************************************)
EXTENDS Integers

CONSTANTS
  Sessions,      \* wake targets other than all agents
  Urgencies,     \* priorities of the wakes requested by others than the runners
  Batches,       \* bound: batches that run at once
  MaxStarts,     \* bound: runners started
  MaxRequests,   \* bound: wakes requested by others than the runners
  MaxRefusals    \* bound: calls that end with requests-in-flight or an error

ASSUME HeartbeatAssumption ==
  /\ "all" \notin Sessions
  /\ Urgencies \subseteq 1..3
  /\ MaxStarts \in Nat /\ MaxRequests \in Nat /\ MaxRefusals \in Nat

VARIABLES
  handler,       \* the runner registered, or NoRunner
  pendingWakes,  \* target -> priority of the pending wake, or NoWake
  scheduled,
  running,
  timer,         \* "none" or its timerKind
  at,            \* batch -> "idle", "next" wake, or in a "turn"
  active,        \* batch -> the runner it calls
  todo,          \* batch -> target -> priority of the wake still to be offered
  taken,         \* batch -> pendingBatch
  current,       \* batch -> the target whose wake is being handled
  stopped,       \* runners whose stop was called
  agents,        \* runners not stopped, with an agent to run heartbeats for
  ticking,       \* runners whose interval timer is set
  enabled,       \* heartbeatsEnabled
  starts, requests, refusals,
  owed,          \* history: target -> highest priority asked for and not answered since
  muted          \* history: heartbeats were disabled since the current runner's timer was last set

wake == <<handler, pendingWakes, scheduled, running, timer>>
batches == <<at, active, todo, taken, current>>
runners == <<stopped, agents, ticking, enabled>>
bounds == <<starts, requests, refusals>>
vars == <<wake, batches, runners, bounds, owed, muted>>

NoRunner == 0
Runners == 1..MaxStarts
Targets == Sessions \cup {"all"}

\* resolveReasonPriority.  Every reason is normalized to one that is not "retry".
NoWake == 0
Interval == 1
Action == 3
Nothing == [t \in Targets |-> NoWake]

Init ==
  /\ handler = NoRunner
  /\ pendingWakes = Nothing
  /\ scheduled = FALSE /\ running = FALSE
  /\ timer = "none"
  /\ at = [b \in Batches |-> "idle"]
  /\ active = [b \in Batches |-> NoRunner]
  /\ todo = [b \in Batches |-> Nothing]
  /\ taken = [b \in Batches |-> Nothing]
  /\ current = [b \in Batches |-> "all"]
  /\ stopped = {} /\ agents = {} /\ ticking = {}
  /\ enabled = TRUE
  /\ starts = 0 /\ requests = 0 /\ refusals = 0
  /\ owed = Nothing
  /\ muted = FALSE

-----------------------------------------------------------------------------
(* Wakes and the timer.  A definition whose name starts with Fault is a        *)
(* plausible bug in the one below it; no action uses it.                       *)

\* queuePendingWakeReason: the merge, and what pendingWakes becomes.
FaultLatest(old, new) == new
Urgent(old, new) == IF new >= old THEN new ELSE old
Queue(t, p) == [pendingWakes EXCEPT ![t] = Urgent(@, p)]
QueueAll(w) == [t \in Targets |-> IF w[t] = NoWake THEN pendingWakes[t] ELSE Urgent(pendingWakes[t], w[t])]

\* schedule: a retry timer is never preempted, a normal one only by a normal one.
Schedule(kind) == IF timer = "none" THEN kind ELSE timer

Request(t, p) ==
  /\ pendingWakes' = Queue(t, p)
  /\ timer' = Schedule("normal")
  /\ owed' = [owed EXCEPT ![t] = IF p > @ THEN p ELSE @]

\* requestHeartbeatNow, by hooks, cron jobs, exec events and nodes
RequestHeartbeatNow(t, p) ==
  /\ requests < MaxRequests
  /\ requests' = requests + 1
  /\ Request(t, p)
  /\ UNCHANGED <<handler, scheduled, running, batches, runners, starts, refusals, muted>>

\* The timer's callback without a handler: the wakes wait for one.
FiresUnheard ==
  /\ timer # "none"
  /\ handler = NoRunner
  /\ timer' = "none"
  /\ scheduled' = FALSE
  /\ UNCHANGED <<handler, pendingWakes, running, batches, runners, bounds, owed, muted>>

\* During a batch it is set again, with the same delay and kind.
FiresRunning ==
  /\ timer # "none"
  /\ handler # NoRunner
  /\ running
  /\ scheduled' = TRUE
  /\ UNCHANGED <<handler, pendingWakes, running, timer, batches, runners, bounds, owed, muted>>

BatchBegins(b) ==
  /\ timer # "none"
  /\ handler # NoRunner
  /\ ~running
  /\ at[b] = "idle"
  /\ timer' = "none"
  /\ scheduled' = FALSE
  /\ running' = TRUE
  /\ pendingWakes' = Nothing
  /\ at' = [at EXCEPT ![b] = "next"]
  /\ active' = [active EXCEPT ![b] = handler]
  /\ todo' = [todo EXCEPT ![b] = pendingWakes]
  /\ taken' = [taken EXCEPT ![b] = pendingWakes]
  /\ UNCHANGED <<handler, current, runners, bounds, owed, muted>>

-----------------------------------------------------------------------------
(* The runner's answers *)

\* scheduleNext
ScheduleNext(r) ==
  IF r \in agents THEN ticking \cup {r} ELSE ticking \ {r}

Off(r) == ~enabled \/ r \notin agents

Unanswered(b) == {t \in Targets : todo[b][t] # NoWake}
Offered(b, t) == todo' = [todo EXCEPT ![b][t] = NoWake]

\* The wake of t has its answer; one requested since is still owed.
Answered(t) == owed' = [owed EXCEPT ![t] = pendingWakes[t]]

\* The runner is stopped or switched off: skipped, and nothing is scheduled.
Disabled(b, t) ==
  /\ at[b] = "next"
  /\ t \in Unanswered(b)
  /\ Off(active[b])
  /\ Offered(b, t)
  /\ Answered(t)
  /\ UNCHANGED <<wake, at, active, taken, current, runners, bounds, muted>>

\* A turn of the agent, or of all agents, begins.
TurnBegins(b, t) ==
  /\ at[b] = "next"
  /\ t \in Unanswered(b)
  /\ ~Off(active[b])
  /\ at' = [at EXCEPT ![b] = "turn"]
  /\ current' = [current EXCEPT ![b] = t]
  /\ UNCHANGED <<wake, active, todo, taken, runners, bounds, owed, muted>>

\* It ran, failed, was not due or was skipped for another reason.
TurnEnds(b) ==
  /\ at[b] = "turn"
  /\ at' = [at EXCEPT ![b] = "next"]
  /\ Offered(b, current[b])
  /\ Answered(current[b])
  /\ ticking' = ScheduleNext(active[b])
  /\ muted' = IF active[b] = handler THEN ~enabled ELSE muted
  /\ UNCHANGED <<wake, active, taken, current, stopped, agents, enabled, bounds>>

\* requests-in-flight: the main lane has work, at the first agent or at a later
\* one.  Only a targeted run schedules the next tick.
FaultDropped(t, p) == pendingWakes
Requeued(t, p) == Queue(t, p)

Refuse(b, t) ==
  /\ refusals < MaxRefusals
  /\ refusals' = refusals + 1
  /\ pendingWakes' = Requeued(t, todo[b][t])
  /\ timer' = Schedule("retry")
  /\ Offered(b, t)
  /\ at' = [at EXCEPT ![b] = "next"]
  /\ IF t = "all"
     THEN UNCHANGED <<ticking, muted>>
     ELSE /\ ticking' = ScheduleNext(active[b])
          /\ muted' = IF active[b] = handler THEN ~enabled ELSE muted
  /\ UNCHANGED <<handler, scheduled, running, active, taken, current, stopped, agents,
                 enabled, starts, requests, owed>>

RequestsInFlight(b) == at[b] = "turn" /\ Refuse(b, current[b])

FaultStillRunning == running
NotRunning == FALSE

Over(b) ==
  /\ running' = NotRunning
  /\ at' = [at EXCEPT ![b] = "idle"]
  /\ active' = [active EXCEPT ![b] = NoRunner]
  /\ todo' = [todo EXCEPT ![b] = Nothing]
  /\ taken' = [taken EXCEPT ![b] = Nothing]
  /\ current' = [current EXCEPT ![b] = "all"]

\* The handler throws: the whole batch is queued again, then the finally block.
Throws(b) ==
  /\ at[b] = "turn"
  /\ refusals < MaxRefusals
  /\ refusals' = refusals + 1
  /\ pendingWakes' = QueueAll(taken[b])
  /\ timer' = Schedule("retry")
  /\ Over(b)
  /\ UNCHANGED <<handler, scheduled, runners, starts, requests, owed, muted>>

\* finally
Resched == IF pendingWakes # Nothing \/ scheduled THEN Schedule("normal") ELSE timer

BatchEnds(b) ==
  /\ at[b] = "next"
  /\ Unanswered(b) = {}
  /\ timer' = Resched
  /\ Over(b)
  /\ UNCHANGED <<handler, pendingWakes, scheduled, runners, bounds, owed, muted>>

-----------------------------------------------------------------------------
(* Runners *)

\* A new handler clears the timer, and sets one for the wakes that waited for it.
FaultCleared == "none"
NewTimer == IF pendingWakes = Nothing THEN "none" ELSE "normal"

\* startHeartbeatRunner: setHeartbeatWakeHandler, then updateConfig.
Start(some) ==
  LET r == starts + 1 IN
  /\ starts < MaxStarts
  /\ starts' = r
  /\ handler' = r
  /\ running' = FALSE
  /\ scheduled' = FALSE
  /\ timer' = NewTimer
  /\ agents' = IF some THEN agents \cup {r} ELSE agents
  /\ ticking' = IF some THEN ticking \cup {r} ELSE ticking
  /\ muted' = ~enabled
  /\ UNCHANGED <<pendingWakes, batches, stopped, enabled, requests, refusals, owed>>

\* Its stop: the registration is cleared unless a newer one has replaced it.
Stop(r) ==
  /\ r <= starts
  /\ r \notin stopped
  /\ stopped' = stopped \cup {r}
  /\ agents' = agents \ {r}
  /\ ticking' = ticking \ {r}
  /\ handler' = IF handler = r THEN NoRunner ELSE handler
  /\ UNCHANGED <<pendingWakes, scheduled, running, timer, batches, enabled, bounds, owed,
                 muted>>

\* updateConfig of a configuration reload
UpdateConfig(r, some) ==
  /\ r = handler
  /\ agents' = IF some THEN agents \cup {r} ELSE agents \ {r}
  /\ ticking' = IF some THEN ticking \cup {r} ELSE ticking \ {r}
  /\ muted' = ~enabled
  /\ UNCHANGED <<wake, batches, stopped, enabled, bounds, owed>>

\* The interval timer
Tick(r) ==
  /\ r \in ticking
  /\ ticking' = ticking \ {r}
  /\ Request("all", Interval)
  /\ UNCHANGED <<handler, scheduled, running, batches, stopped, agents, enabled, bounds, muted>>

\* set-heartbeats
SetHeartbeatsEnabled(on) ==
  /\ handler # NoRunner
  /\ enabled' = on
  /\ muted' = (muted \/ ~on)
  /\ UNCHANGED <<wake, batches, stopped, agents, ticking, bounds, owed>>

-----------------------------------------------------------------------------
BatchGoesOn(b) ==
  \/ \E t \in Targets : Disabled(b, t) \/ TurnBegins(b, t)
  \/ TurnEnds(b) \/ RequestsInFlight(b) \/ Throws(b)
  \/ BatchEnds(b)

Around ==
  \/ \E t \in Targets, p \in Urgencies : RequestHeartbeatNow(t, p)
  \/ \E some \in BOOLEAN : Start(some)
  \/ \E r \in Runners : Stop(r) \/ \E some \in BOOLEAN : UpdateConfig(r, some)
  \/ \E on \in BOOLEAN : SetHeartbeatsEnabled(on)

Next ==
  \/ FiresUnheard \/ FiresRunning
  \/ \E b \in Batches : BatchBegins(b) \/ BatchGoesOn(b)
  \/ \E r \in Runners : Tick(r)
  \/ Around

Spec == Init /\ [][Next]_vars

\* The timer fires, and turns end.
FairSpec ==
  /\ Spec
  /\ WF_vars(\E b \in Batches : BatchBegins(b))
  /\ \A b \in Batches : WF_vars(BatchGoesOn(b))

-----------------------------------------------------------------------------
(* Properties *)

Wakes == [Targets -> NoWake..Action]

\* Every variable keeps its shape; a batch that runs has a runner to call, and the
\* registered runner has not been stopped.
TypeOK ==
  /\ handler \in 0..MaxStarts /\ handler \notin stopped
  /\ pendingWakes \in Wakes
  /\ scheduled \in BOOLEAN /\ running \in BOOLEAN
  /\ timer \in {"none", "normal", "retry"}
  /\ at \in [Batches -> {"idle", "next", "turn"}]
  /\ active \in [Batches -> 0..MaxStarts]
  /\ todo \in [Batches -> Wakes] /\ taken \in [Batches -> Wakes]
  /\ \A b \in Batches : at[b] # "idle" => active[b] # NoRunner
  /\ \A b \in Batches : at[b] = "idle" => todo[b] = Nothing
  /\ current \in [Batches -> Targets]
  /\ stopped \subseteq Runners /\ agents \subseteq Runners
  /\ agents \cap stopped = {} /\ ticking \subseteq agents
  /\ enabled \in BOOLEAN
  /\ starts \in 0..MaxStarts /\ requests \in 0..MaxRequests /\ refusals \in 0..MaxRefusals
  /\ owed \in Wakes
  /\ muted \in BOOLEAN

\* A wake that waits while a runner is registered is looked at again: the timer is
\* set, or a batch is under way whose end sets it.  Batches of earlier runners,
\* thrown errors and new registrations that clear the timer included.
PendingIsWatched ==
  handler # NoRunner /\ pendingWakes # Nothing => timer # "none" \/ \E b \in Batches : at[b] # "idle"

\* No wake is forgotten or loses its urgency before it is answered: it is pending or
\* in a batch with at least the priority it was asked for, whatever it was merged
\* with, refused for or thrown back by ("does not downgrade a higher-priority
\* pending reason", heartbeat-wake.test.ts:168).
NoWakeForgotten ==
  \A t \in Targets :
    \/ owed[t] <= pendingWakes[t]
    \/ \E b \in Batches : owed[t] <= todo[b][t]

\* An interval wake for the runner r is on its way.
WillTick(r) ==
  \/ r \in ticking
  \/ pendingWakes["all"] # NoWake
  \/ \E b \in Batches : active[b] = r /\ (todo[b]["all"] # NoWake \/ at[b] = "turn")

\* "we must still advance the timer and call scheduleNext so heartbeats keep firing"
\* (heartbeat-runner.ts:1175): the chain from tick to wake to turn to tick never
\* breaks for the registered runner, through busy lanes, errors, reloads and
\* restarts, unless heartbeats were disabled.
HeartbeatsKeepFiring == handler \in agents /\ ~muted => WillTick(handler)

\* A wake for a session is answered in the end, once the main lane stops being
\* busy, or there is no runner to ask.  (All agents are asked for again at every tick.)
WakesAreAnswered ==
  \A t \in Sessions : owed[t] # NoWake ~> owed[t] = NoWake \/ handler = NoRunner
=============================================================================
