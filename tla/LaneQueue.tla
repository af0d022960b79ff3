----------------------------- MODULE LaneQueue -----------------------------
(***************************************************************************)
(* The gateway's command queue, openclaw-main/src/process/command-queue.ts.*)
(*                                                                         *)
(* The code is synchronous JavaScript driven by an event loop.  An         *)
(* event-loop action (a caller's enqueue, a task's promise settling, a     *)
(* timer, a reset) starts only when the call stack is empty; what it calls *)
(* is left on "stack" as frames, and the stack actions run them one at a   *)
(* time.  A frame of "pump" stays on the stack while the tasks it starts   *)
(* run their synchronous prefix, which is where re-entrancy comes from: a  *)
(* session task enqueues its global-lane task, and drains that lane,       *)
(* before it first yields (pi-embedded-runner/run.ts:271-272).             *)
(***************************************************************************)
EXTENDS Integers, Sequences, FiniteSets

CONSTANTS
  Lanes,         \* lane names
  Jobs,          \* tasks; each is enqueued at most once, so it is its own task id
  NoJob,
  Lane,          \* job -> the lane it is enqueued in
  Inner,         \* job -> the job its task enqueues and awaits, or NoJob
  Configurable,  \* lanes that setCommandLaneConcurrency is called for
  Clearable,     \* lanes that clearCommandLane is called for: the session lanes
  MaxCap,        \* bound: largest concurrency asked for
  MaxResets      \* bound: in-process restarts

ASSUME LaneQueueAssumption ==
  /\ Lane \in [Jobs -> Lanes]
  /\ NoJob \notin Jobs
  /\ Inner \in [Jobs -> Jobs \cup {NoJob}]
  /\ \A i, j \in Jobs : Inner[i] = Inner[j] /\ Inner[i] # NoJob => i = j
  /\ \A j \in Jobs : Inner[j] # j
  /\ Configurable \subseteq Lanes
  /\ Clearable \subseteq Lanes
  /\ MaxCap \in Nat \ {0}
  /\ MaxResets \in Nat
  /\ IsFiniteSet(Jobs)

Nested(j) == Inner[j] # NoJob
TopLevel == {j \in Jobs : \A i \in Jobs : Inner[i] # j}

VARIABLES
  queue,            \* LaneState.queue, the entries by job
  active,           \* LaneState.activeTaskIds, the tasks by job
  cap,              \* LaneState.maxConcurrent
  draining,         \* LaneState.draining
  generation,       \* LaneState.generation: every reset bumps all lanes at once
  gatewayDraining,
  timers,           \* lanes with a setTimeout(() => drainLane(lane), 0) pending
  stack,            \* the JavaScript call stack, innermost frame first
  status,           \* job -> where its entry and its promise are
  startGen          \* job -> taskGeneration captured when it started

vars == <<queue, active, cap, draining, generation, gatewayDraining, timers,
          stack, status, startGen>>

Settled == {"resolved", "failed", "cleared", "refused"}
Status == {"new", "queued", "running", "settling"} \cup Settled

\* Continuations on the stack.
DrainLane(l) == [call |-> "drainLane", lane |-> l]
Pump(l) == [call |-> "pump", lane |-> l]
SettleEntry(j, r) == [call |-> "settle", job |-> j, as |-> r]
DrainEach(S) == [call |-> "drainEach", lanes |-> S]

Frames ==
  [call : {"drainLane", "pump"}, lane : Lanes]
    \cup [call : {"settle"}, job : Jobs, as : {"resolved", "failed"}]
    \cup [call : {"drainEach"}, lanes : SUBSET Lanes]

Idle == stack = <<>>
Calling(f) == ~Idle /\ Head(stack) = f
Return(frames) == stack' = frames \o Tail(stack)

Init ==
  /\ queue = [l \in Lanes |-> <<>>]
  /\ active = [l \in Lanes |-> {}]
  /\ cap = [l \in Lanes |-> 1]
  /\ draining = [l \in Lanes |-> FALSE]
  /\ generation = 0
  /\ gatewayDraining = FALSE
  /\ timers = {}
  /\ stack = <<>>
  /\ status = [j \in Jobs |-> "new"]
  /\ startGen = [j \in Jobs |-> 0]

-----------------------------------------------------------------------------
(* What the handlers compute.  A definition whose name starts with Fault is a  *)
(* plausible bug in the one below it, which the checks put in its place to see *)
(* that a property is violated; no action refers to it.                        *)

AtLeastOne(n) == IF n < 1 THEN 1 ELSE n

InQueue(l) == {queue[l][i] : i \in DOMAIN queue[l]}

FaultUnshift(entries, j) == <<j>> \o entries
Push(entries, j) == Append(entries, j)

\* entries.splice(0)
FaultSlice(entries) == entries
Splice(entries) == <<>>

\* queue.shift()
Shift(l) == [queue EXCEPT ![l] = Tail(@)]

MayStart(l) == queue[l] # <<>> /\ Cardinality(active[l]) < cap[l]

OccupySlot(l, j) ==
  /\ active' = [active EXCEPT ![l] = @ \cup {j}]
  /\ startGen' = [startGen EXCEPT ![j] = generation]

\* state.draining = false in pump's finally
FaultStillDraining(l) == draining
StopDraining(l) == [draining EXCEPT ![l] = FALSE]

\* How the task of a running job may end: a nested job's task is the promise of
\* its inner job, and ends the way that promise does.
FaultNeverRejected(j) ==
  IF Nested(j) /\ status[Inner[j]] # "resolved" THEN {} ELSE {"resolved", "failed"}
FaultNotAwaited(j) == IF Nested(j) THEN {"resolved"} ELSE {"resolved", "failed"}
Outcomes(j) ==
  IF Nested(j)
    THEN CASE status[Inner[j]] = "resolved" -> {"resolved"}
           [] status[Inner[j]] \in Settled \ {"resolved"} -> {"failed"}
           [] OTHER -> {}
    ELSE {"resolved", "failed"}

\* completeTask's test: the lane was not reset while the task ran.
Current(j) == startGen[j] = generation

FaultSameGeneration == generation
NextGeneration == generation + 1

FaultNoLanesToDrain == {}
LanesToDrain == {l \in Lanes : queue[l] # <<>>}

-----------------------------------------------------------------------------
(* Event-loop actions *)

\* enqueueCommandInLane called from outside any task.
Enqueue(j) ==
  /\ Idle
  /\ status[j] = "new"
  /\ ~gatewayDraining
  /\ queue' = [queue EXCEPT ![Lane[j]] = Push(@, j)]
  /\ status' = [status EXCEPT ![j] = "queued"]
  /\ stack' = <<DrainLane(Lane[j])>>
  /\ UNCHANGED <<active, cap, draining, generation, gatewayDraining, timers, startGen>>

RefuseWhileDraining(j) ==
  /\ Idle
  /\ status[j] = "new"
  /\ gatewayDraining
  /\ status' = [status EXCEPT ![j] = "refused"]
  /\ UNCHANGED <<queue, active, cap, draining, generation, gatewayDraining, timers,
                 stack, startGen>>

\* The async body of pump resumes after `await entry.task()`.
FinishCurrent(j, r) ==
  /\ Idle
  /\ status[j] = "running"
  /\ r \in Outcomes(j)
  /\ Current(j)
  /\ active' = [active EXCEPT ![Lane[j]] = @ \ {j}]
  /\ status' = [status EXCEPT ![j] = "settling"]
  /\ stack' = <<Pump(Lane[j]), SettleEntry(j, r)>>
  /\ UNCHANGED <<queue, cap, draining, generation, gatewayDraining, timers, startGen>>

\* The same for a task that a reset orphaned: no slot to give back, no pump.
FinishStale(j, r) ==
  /\ Idle
  /\ status[j] = "running"
  /\ r \in Outcomes(j)
  /\ ~Current(j)
  /\ status' = [status EXCEPT ![j] = "settling"]
  /\ stack' = <<SettleEntry(j, r)>>
  /\ UNCHANGED <<queue, active, cap, draining, generation, gatewayDraining, timers, startGen>>

TimerFires(l) ==
  /\ Idle
  /\ l \in timers
  /\ timers' = timers \ {l}
  /\ stack' = <<DrainLane(l)>>
  /\ UNCHANGED <<queue, active, cap, draining, generation, gatewayDraining, status, startGen>>

SetConcurrency(l, n) ==
  /\ Idle
  /\ cap' = [cap EXCEPT ![l] = AtLeastOne(n)]
  /\ stack' = <<DrainLane(l)>>
  /\ UNCHANGED <<queue, active, draining, generation, gatewayDraining, timers, status, startGen>>

ClearLane(l) ==
  /\ Idle
  /\ queue' = [queue EXCEPT ![l] = Splice(@)]
  /\ status' = [j \in Jobs |-> IF j \in InQueue(l) THEN "cleared" ELSE status[j]]
  /\ UNCHANGED <<active, cap, draining, generation, gatewayDraining, timers, stack, startGen>>

MarkDraining ==
  /\ Idle
  /\ gatewayDraining' = TRUE
  /\ UNCHANGED <<queue, active, cap, draining, generation, timers, stack, status, startGen>>

ResetAllLanes ==
  /\ Idle
  /\ generation < MaxResets
  /\ gatewayDraining' = FALSE
  /\ generation' = NextGeneration
  /\ active' = [l \in Lanes |-> {}]
  /\ draining' = [l \in Lanes |-> FALSE]
  /\ stack' = <<DrainEach(LanesToDrain)>>
  /\ UNCHANGED <<queue, cap, timers, status, startGen>>

-----------------------------------------------------------------------------
(* Stack actions: the frame on top of the call stack runs *)

\* The loop over lanesToDrain, in the order the lanes were created.
DrainNextLane(S) ==
  /\ Calling(DrainEach(S))
  /\ \/ S = {} /\ Return(<<>>)
     \/ \E l \in S : Return(<<DrainLane(l), DrainEach(S \ {l})>>)
  /\ UNCHANGED <<queue, active, cap, draining, generation, gatewayDraining, timers,
                 status, startGen>>

DrainBlocked(l) ==
  /\ Calling(DrainLane(l))
  /\ draining[l]
  /\ Return(<<>>)
  /\ UNCHANGED <<queue, active, cap, draining, generation, gatewayDraining, timers,
                 status, startGen>>

DrainBegin(l) ==
  /\ Calling(DrainLane(l))
  /\ ~draining[l]
  /\ draining' = [draining EXCEPT ![l] = TRUE]
  /\ Return(<<Pump(l)>>)
  /\ UNCHANGED <<queue, active, cap, generation, gatewayDraining, timers, status, startGen>>

\* The task yields before doing anything to the queue.
StartLeaf(l, j) ==
  /\ Calling(Pump(l))
  /\ MayStart(l)
  /\ j = Head(queue[l])
  /\ ~Nested(j)
  /\ OccupySlot(l, j)
  /\ queue' = Shift(l)
  /\ status' = [status EXCEPT ![j] = "running"]
  /\ UNCHANGED <<cap, draining, generation, gatewayDraining, timers, stack>>

\* The task throws before it yields: its catch block runs inside the pump loop.
StartThrows(l, j) ==
  /\ Calling(Pump(l))
  /\ MayStart(l)
  /\ j = Head(queue[l])
  /\ ~Nested(j)
  /\ queue' = Shift(l)
  /\ startGen' = [startGen EXCEPT ![j] = generation]
  /\ status' = [status EXCEPT ![j] = "settling"]
  /\ stack' = <<Pump(l), SettleEntry(j, "failed")>> \o stack
  /\ UNCHANGED <<active, cap, draining, generation, gatewayDraining, timers>>

\* The task of a session job is enqueueGlobal(...): it enqueues and drains the
\* inner job's lane before it yields.
StartNested(l, j) ==
  /\ Calling(Pump(l))
  /\ MayStart(l)
  /\ j = Head(queue[l])
  /\ Nested(j)
  /\ ~gatewayDraining
  /\ OccupySlot(l, j)
  /\ queue' = [Shift(l) EXCEPT ![Lane[Inner[j]]] = Push(@, Inner[j])]
  /\ status' = [status EXCEPT ![j] = "running", ![Inner[j]] = "queued"]
  /\ stack' = <<DrainLane(Lane[Inner[j]])>> \o stack
  /\ UNCHANGED <<cap, draining, generation, gatewayDraining, timers>>

\* The same while the gateway drains: the inner enqueue is refused.
StartNestedRefused(l, j) ==
  /\ Calling(Pump(l))
  /\ MayStart(l)
  /\ j = Head(queue[l])
  /\ Nested(j)
  /\ gatewayDraining
  /\ OccupySlot(l, j)
  /\ queue' = Shift(l)
  /\ status' = [status EXCEPT ![j] = "running", ![Inner[j]] = "refused"]
  /\ UNCHANGED <<cap, draining, generation, gatewayDraining, timers, stack>>

\* The loop ends, and `finally` re-arms a timer if entries are left.
PumpExit(l) ==
  /\ Calling(Pump(l))
  /\ ~MayStart(l)
  /\ draining' = StopDraining(l)
  /\ timers' = IF queue[l] # <<>> THEN timers \cup {l} ELSE timers
  /\ Return(<<>>)
  /\ UNCHANGED <<queue, active, cap, generation, gatewayDraining, status, startGen>>

Settle(j, r) ==
  /\ Calling(SettleEntry(j, r))
  /\ status' = [status EXCEPT ![j] = r]
  /\ Return(<<>>)
  /\ UNCHANGED <<queue, active, cap, draining, generation, gatewayDraining, timers, startGen>>

-----------------------------------------------------------------------------
Start(l, j) ==
  \/ StartLeaf(l, j)
  \/ StartThrows(l, j)
  \/ StartNested(l, j)
  \/ StartNestedRefused(l, j)

Finish(j) == \E r \in {"resolved", "failed"} : FinishCurrent(j, r) \/ FinishStale(j, r)

StackStep ==
  \/ \E S \in SUBSET Lanes : DrainNextLane(S)
  \/ \E l \in Lanes : DrainBlocked(l) \/ DrainBegin(l) \/ PumpExit(l)
  \/ \E l \in Lanes, j \in Jobs : Start(l, j)
  \/ \E j \in Jobs, r \in {"resolved", "failed"} : Settle(j, r)

LoopStep ==
  \/ \E j \in TopLevel : Enqueue(j) \/ RefuseWhileDraining(j)
  \/ \E j \in Jobs : Finish(j)
  \/ \E l \in Lanes : TimerFires(l)
  \/ \E l \in Clearable : ClearLane(l)
  \/ \E l \in Configurable, n \in 0 .. MaxCap : SetConcurrency(l, n)
  \/ MarkDraining
  \/ ResetAllLanes

Next == StackStep \/ LoopStep

Spec == Init /\ [][Next]_vars

(* JavaScript runs a call to completion before the loop takes another event,   *)
(* and runs promise continuations before timers: a task that has ended is not  *)
(* overtaken for ever (hence SF on tasks of the current generation, which the  *)
(* run timeout of the embedded runner ends).  Nothing is assumed of a task a   *)
(* reset orphaned, of callers or of timers.                                    *)
Fairness ==
  /\ WF_vars(StackStep)
  /\ \A j \in Jobs : SF_vars(\E r \in {"resolved", "failed"} : FinishCurrent(j, r))

FairSpec == Spec /\ Fairness

-----------------------------------------------------------------------------
(* Properties *)

\* Every variable keeps its shape.
TypeOK ==
  /\ queue \in [Lanes -> Seq(Jobs)]
  /\ active \in [Lanes -> SUBSET Jobs]
  /\ cap \in [Lanes -> Nat \ {0}]
  /\ draining \in [Lanes -> BOOLEAN]
  /\ generation \in Nat
  /\ gatewayDraining \in BOOLEAN
  /\ timers \subseteq Lanes
  /\ stack \in Seq(Frames)
  /\ status \in [Jobs -> Status]
  /\ startGen \in [Jobs -> Nat]

\* No entry is left waiting beside a free slot once the call stack is empty: a
\* drainLane that returned because the lane was draining, a pump that ran into
\* its limit or a reset never leaves work for "a future enqueueCommandInLane()
\* call (which may never come)" (command-queue.ts:269-271).
NoIdleCapacity == Idle => \A l \in Lanes : ~MayStart(l)

\* The draining flag never outlives the pump that set it.
NoStuckDrain == Idle => \A l \in Lanes : ~draining[l]

Busy(j) == status[j] = "running" /\ Current(j)

\* Of the runs of a session whose session entries started in one generation at most
\* one works at a time, counting a run by the inner job that does the work in the
\* global lane, whatever that lane's limit: the session lane is held until the inner
\* job's promise settles.  The generation is what limits the claim: resetAllLanes frees
\* the slot of a run it orphans (command-queue.ts:276-279), so that an orphan may work
\* beside the session's next run, where docs/concepts/queue.md:20 and :83 promise one.
OneRunPerSession ==
  \A i, j \in Jobs :
    /\ Nested(i) /\ Nested(j)
    /\ Lane[i] = Lane[j] /\ Lane[i] \notin Configurable
    /\ startGen[i] = startGen[j]
    /\ status[Inner[i]] = "running" /\ status[Inner[j]] = "running"
    => i = j

\* A slot is held by exactly the tasks of this generation that run.
SlotsAreBusyTasks ==
  \A l \in Lanes : active[l] = {j \in Jobs : Lane[j] = l /\ Busy(j)}

\* A task starts at most once, and never after its entry was cleared or refused.
StartsOnlyFromQueue ==
  [][\A j \in Jobs :
       status'[j] \in {"running", "settling"} /\ status[j] \notin {"running", "settling"}
         => status[j] = "queued"]_vars

Orphaned(j) == status[j] = "running" /\ ~Current(j)

\* Accepted work is served to the end, through any number of resets: the
\* caller's promise settles, unless a reset orphans the task while it runs.
AcceptedWorkSettles ==
  \A j \in Jobs : status[j] = "queued" ~> status[j] \in Settled \/ Orphaned(j)

-----------------------------------------------------------------------------
(* The inductive invariant, in parts *)

\* A lane's queue holds entries of that lane that nobody has settled, each once.
QueuedOnce ==
  /\ \A l \in Lanes : \A i \in DOMAIN queue[l] :
       Lane[queue[l][i]] = l /\ status[queue[l][i]] = "queued"
  /\ \A l \in Lanes : \A i, k \in DOMAIN queue[l] : queue[l][i] = queue[l][k] => i = k

\* An inner job is enqueued by its outer task, which is there until it settles.
OuterAwaitsInner ==
  \A j \in Jobs : Nested(j) =>
    /\ status[j] \in {"new", "queued", "cleared", "refused"} => status[Inner[j]] = "new"
    /\ status[Inner[j]] \in {"queued", "running", "settling"} => status[j] = "running"

\* Each promise about to be settled is settled by one frame of the stack.
OneSettleFrame ==
  /\ \A i \in DOMAIN stack : stack[i].call = "settle" => status[stack[i].job] = "settling"
  /\ \A i, k \in DOMAIN stack :
       stack[i].call = "settle" /\ stack[k].call = "settle" /\ stack[i].job = stack[k].job
         => i = k

\* No task started in a generation to come.
StartedInThePast == \A j \in Jobs : startGen[j] =< generation

\* A lane nobody configures has one slot.
SerialLanes ==
  \A l \in Lanes \ Configurable : cap[l] = 1 /\ \A i, j \in active[l] : i = j

\* A call in progress that will pump the lane.
Wakes(f, l) ==
  \/ f.call \in {"drainLane", "pump"} /\ f.lane = l
  \/ f.call = "drainEach" /\ l \in f.lanes

WorkIsPumped ==
  \A l \in Lanes : MayStart(l) => \E i \in DOMAIN stack : Wakes(stack[i], l)

DrainingIsPumping ==
  \A l \in Lanes : draining[l] => \E i \in DOMAIN stack : stack[i] = Pump(l)

IInv ==
  /\ TypeOK
  /\ QueuedOnce /\ OuterAwaitsInner /\ OneSettleFrame
  /\ SlotsAreBusyTasks /\ StartedInThePast /\ SerialLanes
  /\ WorkIsPumped /\ DrainingIsPumping

-----------------------------------------------------------------------------
(* The lane contract *)

Contract == INSTANCE LaneContract WITH
  waiting <- queue,
  running <- active,
  limit <- cap,
  accepted <- {j \in Jobs : status[j] \notin {"new", "refused"}}

ImplementsContract == Contract!Spec
=============================================================================
