--------------------------- MODULE GatewayRestart ---------------------------
(***************************************************************************)
(* The run loop composed with what asks it for restarts:                   *)
(* scheduleGatewaySigusr1Restart and deferGatewayRestartUntilIdle          *)
(* (openclaw-main/src/infra/restart.ts), and requestGatewayRestart of a    *)
(* configuration reload (gateway/server-reload-handlers.ts).               *)
(*                                                                         *)
(* Timers and polls belong to the process, not to the server: they outlive *)
(* the server that began them.  Times are abstracted: a timer may fire as  *)
(* soon as it is set, cooldown or not, and a poll may give up waiting.     *)
(***************************************************************************)
EXTENDS GatewayRunLoop, Integers

CONSTANTS
  ExternalAllowed,  \* sigusr1ExternalAllowed
  MaxAsks           \* bound: restarts asked for

ASSUME RestartAssumption == ExternalAllowed \in BOOLEAN /\ MaxAsks \in Nat

VARIABLES
  timer,            \* pendingRestartTimer
  polls,            \* deferrals that wait for an idle gateway, but the next one
  restartPending,   \* the current server's reload handlers have such a deferral
  unconsumed,       \* emittedRestartToken > consumedRestartToken
  asks,
  owed              \* history: a running server was asked for a restart that has not begun

sched == <<timer, polls, restartPending, unconsumed>>
rvars == <<vars, sched, asks, owed>>

RInit ==
  /\ Init
  /\ timer = FALSE
  /\ polls = 0
  /\ restartPending = FALSE
  /\ unconsumed = FALSE
  /\ asks = 0
  /\ owed = FALSE

\* getTotalQueueSize() + getTotalPendingReplies() + getActiveEmbeddedRunCount() > 0
Busy == \E t \in Tasks : status[t] \in {"queued", "running"}

-----------------------------------------------------------------------------
(* A definition whose name starts with Fault is a plausible bug in the one      *)
(* below it; no action uses it.                                                *)

\* onSigusr1 calls markGatewaySigusr1RestartHandled before it calls request.
FaultNotMarked == TRUE
AfterHandling == FALSE

\* emitGatewayRestart: process.emit runs onSigusr1 before it returns, and the
\* request is turned away while another one is in progress.
Emit ==
  IF unconsumed
  THEN UNCHANGED <<vars, unconsumed>>
  ELSE /\ unconsumed' = AfterHandling
       /\ IF shuttingDown THEN UNCHANGED vars ELSE RestartSignal

\* A restart is owed to who asks while the gateway is up.
Ask ==
  /\ Alive
  /\ asks < MaxAsks
  /\ asks' = asks + 1
  /\ owed' = (owed \/ (loop = "waiting" /\ ~shuttingDown))

\* scheduleGatewaySigusr1Restart: a request joins a signal in flight or the pending
\* timer, which at most moves closer.
Schedule ==
  /\ Ask
  /\ timer' = (timer \/ ~unconsumed)
  /\ UNCHANGED <<vars, polls, restartPending, unconsumed>>

\* The timer fires; deferGatewayRestartUntilIdle when there is work.
FaultForgotten == polls
Deferred == polls + 1
TimerDone == FALSE

TimerFires ==
  /\ Alive
  /\ timer
  /\ timer' = TimerDone
  /\ \/ /\ Busy
        /\ polls' = Deferred
        /\ UNCHANGED <<vars, unconsumed>>
     \/ /\ ~Busy
        /\ Emit
        /\ UNCHANGED polls
  /\ UNCHANGED <<restartPending, asks, owed>>

\* A poll of a deferral finds nothing pending, or has waited long enough.  emit
\* clears the pending timer.
PollEmits ==
  /\ Alive
  /\ polls > 0
  /\ polls' = polls - 1
  /\ timer' = FALSE
  /\ Emit
  /\ UNCHANGED <<restartPending, asks, owed>>

ReloadPollEmits ==
  /\ Alive
  /\ restartPending
  /\ restartPending' = FALSE
  /\ timer' = FALSE
  /\ Emit
  /\ UNCHANGED <<polls, asks, owed>>

\* requestGatewayRestart: emit now, or defer once for many configuration changes.
ReloadAsks ==
  /\ Ask
  /\ loop = "waiting"
  /\ \/ /\ Busy
        /\ restartPending' = TRUE
        /\ UNCHANGED <<vars, timer, unconsumed>>
     \/ /\ ~Busy
        /\ timer' = FALSE
        /\ Emit
        /\ UNCHANGED restartPending
  /\ UNCHANGED polls

\* A SIGUSR1 from outside: without an authorization it counts only if the policy
\* allows it.
ExternalSignal ==
  /\ ExternalAllowed
  /\ asks < MaxAsks
  /\ asks' = asks + 1
  /\ RestartSignal
  /\ unconsumed' = AfterHandling
  /\ UNCHANGED <<timer, polls, restartPending, owed>>

-----------------------------------------------------------------------------
(* The run loop's own steps *)

\* The new server's reload handlers know of no deferral, whose poll goes on.
ServerStarts ==
  /\ Started
  /\ restartPending' = FALSE
  /\ polls' = IF restartPending THEN polls + 1 ELSE polls
  /\ UNCHANGED <<timer, unconsumed, asks, owed>>

RestartBegins ==
  /\ Resume
  /\ owed' = FALSE
  /\ UNCHANGED <<sched, asks>>

Elsewhere ==
  /\ \/ DrainDone \/ DrainTimeout \/ CloseBegin \/ CloseEnd
     \/ ReleaseAndExit \/ ReleaseForRestart
     \/ Respawned \/ Reacquired \/ ReacquireFailed \/ ResumeUnheard
     \/ StartThrows
  /\ UNCHANGED <<sched, asks, owed>>

Around ==
  /\ \/ StopSignal \/ StopSignalIgnored \/ ForceExit
     \/ \E t \in Tasks : Enqueue(t) \/ Begin(t) \/ End(t)
  /\ UNCHANGED <<sched, asks, owed>>

Progress == ServerStarts \/ RestartBegins \/ Elsewhere

RNext ==
  \/ Progress \/ Around
  \/ Schedule \/ ReloadAsks \/ ExternalSignal
  \/ TimerFires \/ PollEmits \/ ReloadPollEmits

RSpec == RInit /\ [][RNext]_rvars

\* As in FairSpec, and timers and intervals fire.
FairRSpec ==
  /\ RSpec
  /\ WF_rvars(Progress)
  /\ WF_rvars(TimerFires)
  /\ WF_rvars(PollEmits)
  /\ WF_rvars(ReloadPollEmits)

-----------------------------------------------------------------------------
(* Properties *)

Count(b) == IF b THEN 1 ELSE 0
Armed == polls + Count(timer) + Count(restartPending)

\* Every variable of the scheduler keeps its shape, and a request for a restart
\* arms at most one timer or deferral: however they are coalesced, deferred and
\* carried over to the next server, there are never more of them than requests.
RTypeOK ==
  /\ timer \in BOOLEAN
  /\ polls \in Nat
  /\ restartPending \in BOOLEAN
  /\ Armed <= asks
  /\ unconsumed \in BOOLEAN
  /\ asks \in 0..MaxAsks
  /\ owed \in BOOLEAN

\* A restart that a running gateway was asked for happens, whatever other requests
\* it was coalesced with, deferred behind or overtaken by, unless the process ends.
RestartHappens == owed ~> ~owed \/ loop = "exited"

\* While a restart is owed something will bring it about: a timer, a deferral, or
\* the request in progress.
OwedIsArmed ==
  owed /\ Alive => timer \/ polls > 0 \/ restartPending \/ request # "none"
=============================================================================
