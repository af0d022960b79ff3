------------------------ MODULE GatewayRestartProofs ------------------------
(* The run loop keeps its types, waits for the turns it found running, and    *)
(* leaves no lock behind.  The scheduling of restarts only takes steps the    *)
(* run loop allows, so that this holds of the composition as well, and its    *)
(* own requests are all kept.                                                 *)
EXTENDS GatewayRestart, TLAPS

(* The run loop, asked for restarts at any time. *)

\* What is waited for was running, so that it cannot be started again.
WaitedForHaveBegun ==
  \A t \in activeAtStart : status[t] \notin {"new", "refused", "queued"}

\* Whoever leaves by the restart path has given the lock back before.
RespawnsUnlocked == request = "respawn" => ~lock

IInv ==
  /\ TypeOK
  /\ WaitedForHaveBegun /\ RespawnsUnlocked
  /\ NoLockLeftBehind /\ TurnsFinishFirst

LEMMA InitIInv == Init => IInv
  BY DEF Init, IInv, TypeOK, WaitedForHaveBegun, RespawnsUnlocked, NoLockLeftBehind,
         TurnsFinishFirst

LEMMA TypeStep == TypeOK /\ [Next]_vars => TypeOK'
<1> SUFFICES ASSUME TypeOK, [Next]_vars PROVE TypeOK'
  OBVIOUS
<1> USE DEF loopVars, queueVars, TypeOK
<1>1. ASSUME NEW t \in Tasks, Enqueue(t) \/ Begin(t) \/ End(t) PROVE TypeOK'
  BY <1>1 DEF Enqueue, Begin, End
<1>2. CASE RestartSignal
  <2>1. request' \in {"close", "drain"} /\ Running \subseteq Tasks
    BY <1>2 DEF RestartSignal, Running
  <2> QED
    BY <1>2, <2>1 DEF RestartSignal
<1>3. CASE StopSignal \/ StopSignalIgnored
  <2>1. CASE StopSignal
    BY <2>1 DEF StopSignal
  <2>2. CASE StopSignalIgnored
    <3>1. UNCHANGED vars
      BY <2>2 DEF StopSignalIgnored
    <3> QED
      BY <3>1 DEF vars
  <2> QED
    BY <1>3, <2>1, <2>2
<1>4. CASE DrainDone \/ DrainTimeout
  BY <1>4 DEF DrainDone, DrainTimeout
<1>5. CASE CloseBegin
  <2>1. request' \in {"closing", "closingNothing"}
    BY <1>5 DEF CloseBegin
  <2> QED
    BY <1>5, <2>1 DEF CloseBegin
<1>6. CASE CloseEnd
  <2>1. listening' \in BOOLEAN
    BY <1>6 DEF CloseEnd
  <2> QED
    BY <1>6, <2>1 DEF CloseEnd
<1>7. CASE ForceExit \/ ReleaseAndExit \/ ReleaseForRestart
  BY <1>7 DEF ForceExit, ReleaseAndExit, ReleaseForRestart, Exit, AfterRelease
<1>8. CASE Respawned \/ Reacquired \/ ReacquireFailed
  BY <1>8 DEF Respawned, Reacquired, ReacquireFailed, Exit
<1>9. CASE Resume \/ ResumeUnheard
  BY <1>9 DEF Resume, ResumeUnheard, ResetAllLanes, ShutdownOver
<1>10. CASE LoopStep
  BY <1>10 DEF LoopStep, Started, StartThrows, Exit, AfterRelease
<1>11. CASE UNCHANGED vars
  BY <1>11 DEF vars
<1> QED
  BY <1>1, <1>2, <1>3, <1>4, <1>5, <1>6, <1>7, <1>8, <1>9, <1>10, <1>11 DEF Next, RequestStep

LEMMA TurnsStep ==
  ASSUME TypeOK, WaitedForHaveBegun, TurnsFinishFirst, [Next]_vars
  PROVE  WaitedForHaveBegun' /\ TurnsFinishFirst'
<1> USE DEF loopVars, queueVars, TypeOK, WaitedForHaveBegun, TurnsFinishFirst, Running
<1>1. ASSUME NEW t \in Tasks, Enqueue(t) \/ Begin(t) \/ End(t)
      PROVE  WaitedForHaveBegun' /\ TurnsFinishFirst'
  BY <1>1 DEF Enqueue, Begin, End
<1>2. CASE RestartSignal
  <2>1. CASE Running = {}
    BY <1>2, <2>1 DEF RestartSignal
  <2>2. CASE Running # {}
    BY <1>2, <2>2 DEF RestartSignal
  <2> QED
    BY <2>1, <2>2
<1>3. CASE StopSignal \/ StopSignalIgnored
  BY <1>3 DEF StopSignal, StopSignalIgnored, vars
<1>4. CASE DrainDone \/ DrainTimeout
  BY <1>4 DEF DrainDone, DrainTimeout, AllDone
<1>5. CASE CloseBegin
  <2>1. request' \in {"closing", "closingNothing"}
    BY <1>5 DEF CloseBegin
  <2> QED
    BY <1>5, <2>1 DEF CloseBegin
<1>6. CASE CloseEnd
  <2>1. listening' \in BOOLEAN
    BY <1>6 DEF CloseEnd
  <2> QED
    BY <1>6, <2>1 DEF CloseEnd
<1>7. CASE ForceExit \/ ReleaseAndExit \/ ReleaseForRestart
  BY <1>7 DEF ForceExit, ReleaseAndExit, ReleaseForRestart
<1>8. CASE Respawned \/ Reacquired \/ ReacquireFailed
  BY <1>8 DEF Respawned, Reacquired, ReacquireFailed
<1>9. CASE Resume \/ ResumeUnheard
  BY <1>9 DEF Resume, ResumeUnheard, ResetAllLanes
<1>10. CASE LoopStep
  BY <1>10 DEF LoopStep, Started, StartThrows
<1>11. CASE UNCHANGED vars
  BY <1>11 DEF vars
<1> QED
  BY <1>1, <1>2, <1>3, <1>4, <1>5, <1>6, <1>7, <1>8, <1>9, <1>10, <1>11 DEF Next, RequestStep

LEMMA LockStep ==
  ASSUME TypeOK, RespawnsUnlocked, NoLockLeftBehind, [Next]_vars
  PROVE  RespawnsUnlocked' /\ NoLockLeftBehind'
<1> USE DEF loopVars, queueVars, TypeOK, RespawnsUnlocked, NoLockLeftBehind, Alive
<1>1. ASSUME NEW t \in Tasks, Enqueue(t) \/ Begin(t) \/ End(t)
      PROVE  RespawnsUnlocked' /\ NoLockLeftBehind'
  BY <1>1 DEF Enqueue, Begin, End
<1>2. CASE RestartSignal \/ StopSignal \/ StopSignalIgnored
  BY <1>2 DEF RestartSignal, StopSignal, StopSignalIgnored, vars
<1>3. CASE DrainDone \/ DrainTimeout
  BY <1>3 DEF DrainDone, DrainTimeout
<1>4. CASE CloseBegin
  <2>1. request' \in {"closing", "closingNothing"}
    BY <1>4 DEF CloseBegin
  <2> QED
    BY <1>4, <2>1 DEF CloseBegin
<1>5. CASE CloseEnd
  <2>1. listening' \in BOOLEAN
    BY <1>5 DEF CloseEnd
  <2> QED
    BY <1>5, <2>1 DEF CloseEnd
<1>6. CASE ForceExit \/ ReleaseAndExit \/ ReleaseForRestart
  BY <1>6 DEF ForceExit, ReleaseAndExit, ReleaseForRestart, Exit, AfterRelease
<1>7. CASE Respawned \/ Reacquired \/ ReacquireFailed
  BY <1>7 DEF Respawned, Reacquired, ReacquireFailed, Exit
<1>8. CASE Resume \/ ResumeUnheard
  BY <1>8 DEF Resume, ResumeUnheard
<1>9. CASE LoopStep
  BY <1>9 DEF LoopStep, Started, StartThrows, Exit, AfterRelease
<1>10. CASE UNCHANGED vars
  BY <1>10 DEF vars
<1> QED
  BY <1>1, <1>2, <1>3, <1>4, <1>5, <1>6, <1>7, <1>8, <1>9, <1>10 DEF Next, RequestStep

\* The inductive invariant of the run loop.
THEOREM Invariance == Spec => []IInv
<1>1. IInv /\ [Next]_vars => IInv'
  BY TypeStep, TurnsStep, LockStep DEF IInv
<1> QED
  BY InitIInv, <1>1, PTL DEF Spec

\* The states of the two coroutines stay the ones the code distinguishes, and
\* signals are turned away exactly while a request is in progress.
THEOREM TypeCorrect == Spec => []TypeOK
  BY Invariance, PTL DEF IInv

\* The server is closed only when every task that ran when the restart was asked
\* for has ended, unless the drain timed out, however many tasks start meanwhile.
THEOREM TurnsAreWaitedFor == Spec => []TurnsFinishFirst
  BY Invariance, PTL DEF IInv

\* Every way out of the process but the forced one gives the lock file back.
THEOREM LockIsGivenBack == Spec => []NoLockLeftBehind
  BY Invariance, PTL DEF IInv

-----------------------------------------------------------------------------
(* The run loop and the scheduling of restarts. *)

LEMMA EmitSteps == Emit => [Next]_vars
  BY DEF Emit, Next

LEMMA RunLoopSteps == [RNext]_rvars => [Next]_vars
<1> SUFFICES ASSUME [RNext]_rvars PROVE [Next]_vars
  OBVIOUS
<1>1. CASE Progress
  BY <1>1 DEF Progress, ServerStarts, RestartBegins, Elsewhere, Next, RequestStep, LoopStep
<1>2. CASE Around
  BY <1>2 DEF Around, Next
<1>3. CASE Schedule \/ ReloadAsks
  BY <1>3, EmitSteps DEF Schedule, ReloadAsks
<1>4. CASE ExternalSignal
  BY <1>4 DEF ExternalSignal, Next
<1>5. CASE TimerFires
  BY <1>5, EmitSteps DEF TimerFires
<1>6. CASE PollEmits \/ ReloadPollEmits
  BY <1>6, EmitSteps DEF PollEmits, ReloadPollEmits
<1>7. CASE UNCHANGED rvars
  BY <1>7 DEF rvars
<1> QED
  BY <1>1, <1>2, <1>3, <1>4, <1>5, <1>6, <1>7 DEF RNext

\* The run loop, asked for restarts by the scheduler, implements the run loop that
\* may be asked at any time.
THEOREM ImplementsRunLoop == RSpec => Spec
<1>1. RInit => Init
  BY DEF RInit
<1> QED
  BY <1>1, RunLoopSteps, PTL DEF RSpec, Spec

\* The lock, the drain and the shutdown flag agree under every schedule of restarts.
THEOREM RunLoopInvariants == RSpec => [](TypeOK /\ NoLockLeftBehind /\ TurnsFinishFirst)
  BY ImplementsRunLoop, Invariance, PTL DEF IInv

-----------------------------------------------------------------------------
(* The scheduler's own invariants *)

\* A restart is owed to who asks a server that is up: until it begins the loop awaits
\* its promise, which nobody has resolved.
OwedAwaits == owed /\ Alive => loop = "waiting"
WaitsUnresolved == loop = "waiting" => resolver = "pending"

RInv == RTypeOK /\ unconsumed = FALSE /\ OwedAwaits /\ WaitsUnresolved /\ OwedIsArmed

LEMMA Counts ==
  /\ Count(TRUE) = 1 /\ Count(FALSE) = 0
  /\ \A b \in BOOLEAN : Count(b) \in {0, 1}
  BY DEF Count

LEMMA InitRInv == RInit => RInv
<1> SUFFICES ASSUME RInit PROVE RInv
  OBVIOUS
<1>1. Count(timer) = 0 /\ Count(restartPending) = 0
  BY DEF RInit, Count
<1>2. Armed <= asks /\ polls \in Nat /\ asks \in 0..MaxAsks
  BY <1>1, RestartAssumption DEF RInit, Armed
<1>3. RTypeOK
  BY <1>2, Zenon DEF RInit, RTypeOK
<1> QED
  BY <1>3 DEF RInit, Init, RInv, OwedAwaits, WaitsUnresolved, OwedIsArmed

\* Emitting starts a request, or finds one in progress.
LEMMA EmitRequests ==
  ASSUME TypeOK, unconsumed = FALSE, Alive, Emit
  PROVE  /\ request' # "none" /\ unconsumed' = FALSE
         /\ UNCHANGED loopVars
<1>1. CASE shuttingDown
  BY <1>1 DEF Emit, AfterHandling, TypeOK, vars
<1>2. CASE ~shuttingDown
  BY <1>2 DEF Emit, AfterHandling, RestartSignal
<1> QED
  BY <1>1, <1>2

LEMMA UnconsumedStep ==
  ASSUME TypeOK, unconsumed = FALSE, [RNext]_rvars
  PROVE  unconsumed' = FALSE
<1>1. CASE Progress \/ Around \/ Schedule \/ UNCHANGED rvars
  BY <1>1 DEF Progress, ServerStarts, RestartBegins, Elsewhere, Around, Schedule, rvars, sched
<1>2. CASE ReloadAsks \/ ExternalSignal
  BY <1>2, EmitRequests DEF ReloadAsks, Ask, ExternalSignal, AfterHandling
<1>3. CASE TimerFires \/ PollEmits \/ ReloadPollEmits
  BY <1>3, EmitRequests DEF TimerFires, PollEmits, ReloadPollEmits
<1> QED
  BY <1>1, <1>2, <1>3 DEF RNext

\* What the counting below needs of a step: the flags as numbers.
LEMMA FlagStep ==
  ASSUME RTypeOK, [RNext]_rvars
  PROVE  /\ timer' \in BOOLEAN /\ restartPending' \in BOOLEAN /\ owed' \in BOOLEAN
         /\ Count(timer) \in {0, 1} /\ Count(restartPending) \in {0, 1}
         /\ Count(timer') \in {0, 1} /\ Count(restartPending') \in {0, 1}
<1>1. timer' \in BOOLEAN /\ restartPending' \in BOOLEAN /\ owed' \in BOOLEAN
  BY DEF RTypeOK, RNext, Progress, ServerStarts, RestartBegins, Elsewhere, Around, Schedule,
    ReloadAsks, Ask, ExternalSignal, TimerFires, TimerDone, PollEmits, ReloadPollEmits, rvars, sched
<1> QED
  BY <1>1, Counts DEF RTypeOK

LEMMA CountStep ==
  ASSUME TypeOK, RTypeOK, unconsumed = FALSE, [RNext]_rvars
  PROVE  RTypeOK'
<1>0. /\ timer' \in BOOLEAN /\ restartPending' \in BOOLEAN /\ owed' \in BOOLEAN
      /\ unconsumed' \in BOOLEAN
  BY FlagStep, UnconsumedStep
<1> SUFFICES polls' \in Nat /\ asks' \in 0..MaxAsks /\ Armed' <= asks'
  BY <1>0, Zenon DEF RTypeOK
<1> USE FlagStep, Counts, RestartAssumption DEF RTypeOK, Armed
<1>1. CASE ServerStarts
  <2>1. Count(timer') = Count(timer) /\ Count(restartPending') = 0 /\ asks' = asks
    BY <1>1 DEF ServerStarts
  <2>2. CASE restartPending
    <3>1. Count(restartPending) = 1 /\ polls' = polls + 1
      BY <1>1, <2>2 DEF ServerStarts, Count
    <3> QED
      BY <2>1, <3>1
  <2>3. CASE ~restartPending
    BY <1>1, <2>1, <2>3 DEF ServerStarts
  <2> QED
    BY <2>2, <2>3
<1>2. CASE UNCHANGED <<timer, polls, restartPending, asks>>
  BY <1>2
<1>3. CASE Schedule
  BY <1>3 DEF Schedule, Ask
<1>4. CASE ReloadAsks
  <2>1. Count(restartPending') <= Count(restartPending) + 1
    OBVIOUS
  <2>3. CASE Busy
    <3>1. Count(timer') = Count(timer) /\ polls' = polls /\ asks' = asks + 1 /\ asks < MaxAsks
      BY <1>4, <2>3 DEF ReloadAsks, Ask
    <3> QED
      BY <2>1, <3>1
  <2>4. CASE ~Busy
    <3>1. Count(restartPending') = Count(restartPending) /\ polls' = polls
          /\ asks' = asks + 1 /\ asks < MaxAsks
      BY <1>4, <2>4 DEF ReloadAsks, Ask
    <3>2. Count(timer') = 0
      BY <1>4, <2>4 DEF ReloadAsks
    <3> QED
      BY <3>1, <3>2
  <2> QED
    BY <2>3, <2>4
<1>5. CASE ExternalSignal
  BY <1>5 DEF ExternalSignal
<1>6. CASE TimerFires
  <2>1. Count(timer) = 1 /\ Count(timer') = 0 /\ Count(restartPending') = Count(restartPending)
    BY <1>6 DEF TimerFires, TimerDone
  <2>2. polls' \in {polls, polls + 1} /\ asks' = asks
    BY <1>6 DEF TimerFires, Deferred
  <2> QED
    BY <2>1, <2>2
<1>7. CASE PollEmits
  <2>1. Count(timer') = 0 /\ Count(restartPending') = Count(restartPending)
    BY <1>7 DEF PollEmits
  <2>2. polls > 0 /\ polls' = polls - 1 /\ asks' = asks
    BY <1>7 DEF PollEmits
  <2> QED
    BY <2>1, <2>2
<1>8. CASE ReloadPollEmits
  <2>1. Count(timer') = 0 /\ Count(restartPending') = 0 /\ polls' = polls /\ asks' = asks
    BY <1>8 DEF ReloadPollEmits
  <2> QED
    BY <2>1
<1>9. CASE RestartBegins \/ Elsewhere \/ Around \/ UNCHANGED rvars
  BY <1>9, <1>2 DEF RestartBegins, Elsewhere, Around, rvars, sched
<1> QED
  BY <1>1, <1>3, <1>4, <1>5, <1>6, <1>7, <1>8, <1>9 DEF RNext, Progress

LEMMA OwedStep ==
  ASSUME TypeOK, RInv, [RNext]_rvars
  PROVE  OwedAwaits' /\ WaitsUnresolved' /\ OwedIsArmed'
<1> USE DEF RInv, RTypeOK, OwedAwaits, WaitsUnresolved, OwedIsArmed, Alive, sched, loopVars
<1>1. CASE ServerStarts \/ RestartBegins
  BY <1>1 DEF ServerStarts, Started, RestartBegins, Resume
<1>2. CASE Elsewhere
  BY <1>2 DEF Elsewhere, DrainDone, DrainTimeout, CloseBegin, CloseEnd, ReleaseAndExit,
     ReleaseForRestart, Respawned, Reacquired, ReacquireFailed, ResumeUnheard, StartThrows, Exit
<1>3. CASE Around
  BY <1>3 DEF Around, StopSignal, StopSignalIgnored, vars, ForceExit, Exit, Enqueue, Begin, End
<1>4. CASE Schedule
  BY <1>4 DEF Schedule, Ask, vars
<1>5. CASE ReloadAsks
  <2>1. CASE Busy
    BY <1>5, <2>1 DEF ReloadAsks, Ask, vars
  <2>2. CASE ~Busy
    BY <1>5, <2>2, EmitRequests DEF ReloadAsks, Ask
  <2> QED
    BY <2>1, <2>2
<1>6. CASE ExternalSignal
  BY <1>6 DEF ExternalSignal, RestartSignal
<1>7. CASE TimerFires
  <2>1. CASE Busy
    BY <1>7, <2>1 DEF TimerFires, Deferred, vars
  <2>2. CASE ~Busy
    BY <1>7, <2>2, EmitRequests DEF TimerFires
  <2> QED
    BY <2>1, <2>2
<1>8. CASE PollEmits \/ ReloadPollEmits
  <2>1. Alive /\ Emit /\ owed' = owed
    BY <1>8 DEF PollEmits, ReloadPollEmits
  <2>2. request' # "none" /\ UNCHANGED loopVars
    BY <2>1, EmitRequests
  <2> QED
    BY <2>1, <2>2
<1>9. CASE UNCHANGED rvars
  BY <1>9 DEF rvars, vars
<1> QED
  BY <1>1, <1>2, <1>3, <1>4, <1>5, <1>6, <1>7, <1>8, <1>9 DEF RNext, Progress

\* The inductive invariant of the scheduler.
THEOREM RestartInvariance == RSpec => []RInv
<1>1. TypeOK /\ RInv /\ [RNext]_rvars => RInv'
  BY CountStep, UnconsumedStep, OwedStep DEF RInv
<1>2. RSpec => []TypeOK
  BY RunLoopInvariants, PTL
<1> QED
  BY InitRInv, <1>1, <1>2, PTL DEF RSpec

\* Coalescing, deferring and carrying deferrals over to the next server never makes
\* more timers and polls than there were requests.
THEOREM SchedulerTypeCorrect == RSpec => []RTypeOK
  BY RestartInvariance, PTL DEF RInv

\* A restart asked of a running gateway is never forgotten.
THEOREM OwedRestartsAreArmed == RSpec => []OwedIsArmed
  BY RestartInvariance, PTL DEF RInv
=============================================================================
