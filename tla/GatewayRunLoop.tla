--------------------------- MODULE GatewayRunLoop ---------------------------
(***************************************************************************)
(* The gateway process: runGatewayLoop                                     *)
(* (openclaw-main/src/cli/gateway-cli/run-loop.ts) starts the server, and  *)
(* on SIGUSR1 drains the command queue, closes the server and starts it    *)
(* again in the same process; SIGTERM and SIGINT close it and exit.        *)
(*                                                                         *)
(* Two coroutines interleave at their awaits: the loop ("loop") and the    *)
(* body of request ("request").  The command queue is reduced to what the  *)
(* loop sees of it: which tasks wait, which run, and the draining flag.    *)
(***************************************************************************)
EXTENDS FiniteSets

CONSTANT Tasks

VARIABLES
  loop,             \* "starting": awaits params.start(); "waiting": awaits the restart promise
  server,           \* the variable server is not null
  listening,        \* a server of this process holds the port
  resolver,         \* restartResolver: unset, the pending promise's, or one already used
  request,          \* where the coroutine of the request in progress is
  action,           \* what that request asks for
  shuttingDown,
  lock,             \* this process holds the gateway lock file
  gatewayDraining,  \* command-queue.ts
  status,           \* task -> its state in the command queue
  activeAtStart,    \* waitForActiveTasks: the tasks waited for
  drained,          \* what waitForActiveTasks answered
  forced            \* history: the process was ended by forceExitTimer

loopVars == <<loop, server, listening, resolver>>
queueVars == <<gatewayDraining, status>>
vars == <<loopVars, request, action, shuttingDown, lock, queueVars, activeAtStart,
          drained, forced>>

Running == {t \in Tasks : status[t] = "running"}

Init ==
  /\ loop = "starting"
  /\ server = FALSE
  /\ listening = FALSE
  /\ resolver = "unset"
  /\ request = "none"
  /\ action = "none"
  /\ shuttingDown = FALSE
  /\ lock = TRUE
  /\ gatewayDraining = FALSE
  /\ status = [t \in Tasks |-> "new"]
  /\ activeAtStart = {}
  /\ drained = TRUE
  /\ forced = FALSE

Alive == loop # "exited"

-----------------------------------------------------------------------------
(* The command queue (LaneQueue) as the loop sees it.  A definition whose name  *)
(* starts with Fault is a plausible bug in the one below it; no action uses it. *)

Enqueue(t) ==
  /\ Alive
  /\ status[t] = "new"
  /\ status' = [status EXCEPT ![t] = IF gatewayDraining THEN "refused" ELSE "queued"]
  /\ UNCHANGED <<loopVars, request, action, shuttingDown, lock, gatewayDraining,
                 activeAtStart, drained, forced>>

\* A lane has a slot for t; a drain does not stop this.
Begin(t) ==
  /\ Alive
  /\ status[t] = "queued"
  /\ status' = [status EXCEPT ![t] = "running"]
  /\ UNCHANGED <<loopVars, request, action, shuttingDown, lock, gatewayDraining,
                 activeAtStart, drained, forced>>

\* A task ends, on its slot or after a reset took the slot away.
End(t) ==
  /\ Alive
  /\ status[t] \in {"running", "orphaned"}
  /\ status' = [status EXCEPT ![t] = "done"]
  /\ UNCHANGED <<loopVars, request, action, shuttingDown, lock, gatewayDraining,
                 activeAtStart, drained, forced>>

\* resetAllLanes, called by onIteration
ResetAllLanes ==
  /\ gatewayDraining' = FALSE
  /\ status' = [t \in Tasks |-> IF status[t] = "running" THEN "orphaned" ELSE status[t]]

-----------------------------------------------------------------------------
(* Signals *)

\* onSigusr1, authorized, then request("restart") up to its first await.
RestartSignal ==
  /\ Alive
  /\ ~shuttingDown
  /\ shuttingDown' = TRUE
  /\ action' = "restart"
  /\ gatewayDraining' = TRUE
  /\ activeAtStart' = Running
  /\ drained' = TRUE
  /\ request' = IF Running = {} THEN "close" ELSE "drain"
  /\ UNCHANGED <<loopVars, lock, status, forced>>

\* onSigterm and onSigint
StopSignal ==
  /\ Alive
  /\ ~shuttingDown
  /\ shuttingDown' = TRUE
  /\ action' = "stop"
  /\ activeAtStart' = {}
  /\ drained' = TRUE
  /\ request' = "close"
  /\ UNCHANGED <<loopVars, lock, queueVars, forced>>

\* request returns at once: "received SIGTERM during shutdown; ignoring".  A
\* SIGUSR1 then changes nothing.
StopSignalIgnored ==
  /\ Alive
  /\ shuttingDown
  /\ UNCHANGED vars

-----------------------------------------------------------------------------
(* The coroutine of request *)

\* waitForActiveTasks: none of the tasks waited for is active any more.
FaultSomeDone == activeAtStart \ Running # {}
AllDone == activeAtStart \cap Running = {}

DrainDone ==
  /\ Alive
  /\ request = "drain"
  /\ AllDone
  /\ request' = "close"
  /\ UNCHANGED <<loopVars, action, shuttingDown, lock, queueVars, activeAtStart,
                 drained, forced>>

\* DRAIN_TIMEOUT_MS passes while one of them still runs.
DrainTimeout ==
  /\ Alive
  /\ request = "drain"
  /\ ~AllDone
  /\ drained' = FALSE
  /\ request' = "close"
  /\ UNCHANGED <<loopVars, action, shuttingDown, lock, queueVars, activeAtStart, forced>>

\* await server?.close(...): there is nothing to close while the server starts.
CloseBegin ==
  /\ Alive
  /\ request = "close"
  /\ request' = IF server THEN "closing" ELSE "closingNothing"
  /\ UNCHANGED <<loopVars, action, shuttingDown, lock, queueVars, activeAtStart,
                 drained, forced>>

CloseEnd ==
  /\ Alive
  /\ request \in {"closing", "closingNothing"}
  /\ server' = FALSE
  /\ listening' = IF request = "closing" THEN FALSE ELSE listening
  /\ request' = "release"
  /\ UNCHANGED <<loop, resolver, action, shuttingDown, lock, queueVars, activeAtStart,
                 drained, forced>>

Exit == loop' = "exited" /\ listening' = FALSE /\ server' = FALSE

\* forceExitTimer: the server takes too long to close.
ForceExit ==
  /\ Alive
  /\ request = "closing"
  /\ Exit
  /\ forced' = TRUE
  /\ UNCHANGED <<resolver, request, action, shuttingDown, lock, queueVars,
                 activeAtStart, drained>>

\* releaseLockIfHeld
FaultStillLocked == lock
AfterRelease == FALSE

ReleaseAndExit ==
  /\ Alive
  /\ request = "release"
  /\ action = "stop"
  /\ lock' = AfterRelease
  /\ Exit
  /\ UNCHANGED <<resolver, request, action, shuttingDown, queueVars, activeAtStart,
                 drained, forced>>

ReleaseForRestart ==
  /\ Alive
  /\ request = "release"
  /\ action = "restart"
  /\ lock' = AfterRelease
  /\ request' = "respawn"
  /\ UNCHANGED <<loopVars, action, shuttingDown, queueVars, activeAtStart, drained, forced>>

\* restartGatewayProcessWithFreshPid spawned a process, or a supervisor will.
Respawned ==
  /\ Alive
  /\ request = "respawn"
  /\ Exit
  /\ UNCHANGED <<resolver, request, action, shuttingDown, lock, queueVars,
                 activeAtStart, drained, forced>>

\* It is disabled or failed: take the lock back, then restart in this process.
Reacquired ==
  /\ Alive
  /\ request = "respawn"
  /\ lock' = TRUE
  /\ request' = "resume"
  /\ UNCHANGED <<loopVars, action, shuttingDown, queueVars, activeAtStart, drained, forced>>

ReacquireFailed ==
  /\ Alive
  /\ request = "respawn"
  /\ Exit
  /\ UNCHANGED <<resolver, request, action, shuttingDown, lock, queueVars,
                 activeAtStart, drained, forced>>

\* restartResolver?.() wakes the loop, whose next iteration resets the lanes and
\* starts the server.
FaultStayDown == TRUE
ShutdownOver == FALSE

Resume ==
  /\ Alive
  /\ request = "resume"
  /\ resolver = "pending"
  /\ shuttingDown' = ShutdownOver
  /\ request' = "none"
  /\ resolver' = "used"
  /\ loop' = "starting"
  /\ ResetAllLanes
  /\ UNCHANGED <<server, listening, action, lock, activeAtStart, drained, forced>>

\* The loop still awaits start(): there is no promise to resolve, or it was
\* resolved before.
ResumeUnheard ==
  /\ Alive
  /\ request = "resume"
  /\ resolver # "pending"
  /\ shuttingDown' = ShutdownOver
  /\ request' = "none"
  /\ UNCHANGED <<loopVars, action, lock, queueVars, activeAtStart, drained, forced>>

-----------------------------------------------------------------------------
(* The coroutine of the loop *)

Started ==
  /\ loop = "starting"
  /\ ~listening
  /\ server' = TRUE
  /\ listening' = TRUE
  /\ resolver' = "pending"
  /\ loop' = "waiting"
  /\ UNCHANGED <<request, action, shuttingDown, lock, queueVars, activeAtStart,
                 drained, forced>>

\* start() throws because the port is taken: the finally block releases the lock
\* and the command ends.
StartThrows ==
  /\ loop = "starting"
  /\ listening
  /\ lock' = AfterRelease
  /\ Exit
  /\ UNCHANGED <<resolver, request, action, shuttingDown, queueVars, activeAtStart,
                 drained, forced>>

-----------------------------------------------------------------------------
RequestStep ==
  \/ DrainDone
  \/ DrainTimeout
  \/ CloseBegin
  \/ CloseEnd
  \/ ReleaseAndExit
  \/ ReleaseForRestart
  \/ Respawned
  \/ Reacquired
  \/ ReacquireFailed
  \/ Resume
  \/ ResumeUnheard

LoopStep == Started \/ StartThrows

Next ==
  \/ RequestStep
  \/ LoopStep
  \/ ForceExit
  \/ RestartSignal
  \/ StopSignal
  \/ StopSignalIgnored
  \/ \E t \in Tasks : Enqueue(t) \/ Begin(t) \/ End(t)

Spec == Init /\ [][Next]_vars

\* Each await of the two coroutines ends: waitForActiveTasks and the server's
\* close are bounded by timers, the lock's by its timeout, and start() returns.
FairSpec == Spec /\ WF_vars(RequestStep) /\ WF_vars(LoopStep)

-----------------------------------------------------------------------------
(* Properties *)

\* Every variable keeps its shape, and shuttingDown, which turns signals away, is
\* set exactly while the coroutine of a request runs.
TypeOK ==
  /\ loop \in {"starting", "waiting", "exited"}
  /\ server \in BOOLEAN
  /\ listening \in BOOLEAN
  /\ resolver \in {"unset", "pending", "used"}
  /\ request \in {"none", "drain", "close", "closing", "closingNothing", "release",
                  "respawn", "resume"}
  /\ action \in {"none", "restart", "stop"}
  /\ shuttingDown = (request # "none")
  /\ lock \in BOOLEAN
  /\ gatewayDraining \in BOOLEAN
  /\ status \in [Tasks -> {"new", "refused", "queued", "running", "orphaned", "done"}]
  /\ activeAtStart \subseteq Tasks
  /\ drained \in BOOLEAN
  /\ forced \in BOOLEAN

\* A process that ends on its own terms leaves no lock behind for the next one to
\* find stale, whatever restarts and failed restarts came before.
NoLockLeftBehind == loop = "exited" /\ ~forced => ~lock

\* "wait for in-flight agent turns to finish before tearing down the server"
\* (run-loop.ts:114): a task that ran when the restart was asked for has ended
\* when the server closes, unless the drain timed out.
TurnsFinishFirst ==
  /\ request \in {"close", "closing", "closingNothing", "release", "respawn", "resume"}
  /\ drained
  => activeAtStart \cap Running = {}

\* A request never stays in progress: it ends in a gateway that takes signals
\* again or in an exit, so that no later stop or restart is turned away for ever.
RequestsEnd == shuttingDown ~> ~shuttingDown \/ loop = "exited"
=============================================================================
