---------------------------- MODULE AstraeaQueue ----------------------------
(***************************************************************************)
(* The command queue with System 2 enabled: the file that                  *)
(* system2-core/installer.js writes over command-queue.ts, together with   *)
(* the SerialLaneDispatcher and the StatefulMLFQ it calls.                 *)
(*                                                                         *)
(* An entry goes to the dispatcher.  If its lane is locked it is held in   *)
(* pendingLaneJobs, else it locks the lane and waits in the MLFQ, which is *)
(* shared by all lanes: the pump of any lane may take it and then runs it  *)
(* on its own slots.  LaneState.queue stays empty.                         *)
(*                                                                         *)
(* The call stack is modelled as in LaneQueue.                             *)
(***************************************************************************)
EXTENDS MLFQPolicy, FiniteSets

CONSTANTS
  Lanes,         \* lane names
  Jobs,          \* tasks; each is enqueued at most once
  NoJob, NoLane,
  Lane,          \* job -> the lane it is enqueued in
  Inner,         \* job -> the job its task enqueues and awaits, or NoJob
  Configurable,  \* lanes that setCommandLaneConcurrency is called for
  Clearable,     \* lanes that clearCommandLane is called for: the session lanes
  MaxCap,        \* bound: largest concurrency asked for
  MaxResets      \* bound: in-process restarts

ASSUME AstraeaQueueAssumption ==
  /\ Lane \in [Jobs -> Lanes]
  /\ NoJob \notin Jobs
  /\ NoLane \notin Lanes
  /\ Inner \in [Jobs -> Jobs \cup {NoJob}]
  /\ \A i, j \in Jobs : Inner[i] = Inner[j] /\ Inner[i] # NoJob => i = j
  /\ \A j \in Jobs : Inner[j] # j
  /\ Configurable \subseteq Lanes
  /\ Clearable \subseteq Lanes
  /\ MaxCap \in Nat \ {0}
  /\ MaxResets \in Nat

Nested(j) == Inner[j] # NoJob
TopLevel == {j \in Jobs : \A i \in Jobs : Inner[i] # j}

VARIABLES
  levels,           \* the MLFQ's activeQueues
  locked,           \* activeLanes: lanes locked by the dispatcher
  pending,          \* pendingLaneJobs
  active,           \* LaneState.activeTaskIds, the tasks by job
  cap,              \* LaneState.maxConcurrent
  draining,         \* LaneState.draining
  generation,       \* LaneState.generation: every reset bumps all lanes at once
  gatewayDraining,
  stack,            \* the JavaScript call stack, innermost frame first
  status,           \* job -> where its entry and its promise are
  runner,           \* job -> the lane whose pump runs it
  startGen          \* job -> taskGeneration captured when it started

vars == <<levels, locked, pending, active, cap, draining, generation, gatewayDraining,
          stack, status, runner, startGen>>

laneVars == <<active, cap, draining, generation, gatewayDraining>>

Settled == {"resolved", "failed", "refused"}
Status == {"new", "pending", "ready", "running", "settling"} \cup Settled

DrainLane(l) == [call |-> "drainLane", lane |-> l]
Pump(l) == [call |-> "pump", lane |-> l]
SettleEntry(j, r) == [call |-> "settle", job |-> j, as |-> r]

Frames ==
  [call : {"drainLane", "pump"}, lane : Lanes]
    \cup [call : {"settle"}, job : Jobs, as : {"resolved", "failed"}]

Idle == stack = <<>>
Calling(f) == ~Idle /\ Head(stack) = f
Return == stack' = Tail(stack)

Init ==
  /\ levels = [i \in Levels |-> <<>>]
  /\ locked = {}
  /\ pending = [l \in Lanes |-> <<>>]
  /\ active = [l \in Lanes |-> {}]
  /\ cap = [l \in Lanes |-> 1]
  /\ draining = [l \in Lanes |-> FALSE]
  /\ generation = 0
  /\ gatewayDraining = FALSE
  /\ stack = <<>>
  /\ status = [j \in Jobs |-> "new"]
  /\ runner = [j \in Jobs |-> NoLane]
  /\ startGen = [j \in Jobs |-> 0]

-----------------------------------------------------------------------------
(* What the handlers compute; Fault* as in LaneQueue. *)

AtLeastOne(n) == IF n < 1 THEN 1 ELSE n

\* The state enqueueCommandInLane gives every job, whatever its task.
Est == [j \in Jobs |-> [predicted |-> 128, wait |-> 0]]
Tokens(j) == Est[j].predicted

\* isIdempotentTask: the payload is a QueueEntry, which has no tool_name.
ToolName(j) == "undefined"
IdempotentTools ==
  {"supermemory_search", "web_scrape", "read_file", "check_weather", "get_system_status"}
IsIdempotent(j) == ToolName(j) \in IdempotentTools

\* isLaneLocked
IsLocked(l) == l \in locked

\* The MLFQ's handleEnqueue.
Ready(lv, j) == Put(lv, Classify(Tokens(j)), j)

FaultJumpQueue(jobs, j) == <<j>> \o jobs
Hold(jobs, j) == Append(jobs, j)

\* dispatchToLane, when the MLFQ holds lv and the other entries are as in now.
Dispatch(j, lv, now) ==
  IF IsLocked(Lane[j]) /\ ~IsIdempotent(j)
    THEN /\ pending' = [pending EXCEPT ![Lane[j]] = Hold(@, j)]
         /\ status' = [now EXCEPT ![j] = "pending"]
         /\ levels' = lv
         /\ UNCHANGED locked
    ELSE /\ locked' = IF IsIdempotent(j) THEN locked ELSE locked \cup {Lane[j]}
         /\ status' = [now EXCEPT ![j] = "ready"]
         /\ levels' = Ready(lv, j)
         /\ UNCHANGED pending

\* releaseLane: the lane stays locked when its oldest pending job is dispatched.
FaultNotRelocked(l) == locked \ {l}
Relocked(l) == locked

Unlocked(l) == locked \ {l}

Release(l, lv, now) ==
  \/ /\ pending[l] = <<>>
     /\ locked' = Unlocked(l)
     /\ status' = now
     /\ levels' = lv
     /\ UNCHANGED pending
  \/ /\ pending[l] # <<>>
     /\ pending' = [pending EXCEPT ![l] = Tail(@)]
     /\ locked' = Relocked(l)
     /\ status' = [now EXCEPT ![Head(pending[l])] = "ready"]
     /\ levels' = Ready(lv, Head(pending[l]))

\* What the completion of j calls after releaseLane.
FaultNoWake(j) == <<>>
WakeLane(j) == <<DrainLane(Lane[j])>>

HasRoom(l) == Cardinality(active[l]) < cap[l]
MayStart(l) == HasRoom(l) /\ ~GloballyEmpty(levels)

StopDraining(l) == [draining EXCEPT ![l] = FALSE]

Outcomes(j) ==
  IF Nested(j)
    THEN CASE status[Inner[j]] = "resolved" -> {"resolved"}
           [] status[Inner[j]] \in Settled \ {"resolved"} -> {"failed"}
           [] OTHER -> {}
    ELSE {"resolved", "failed"}

Current(j) == startGen[j] = generation

FaultSameGeneration == generation
NextGeneration == generation + 1

-----------------------------------------------------------------------------
(* Event-loop actions *)

\* enqueueCommandInLane called from outside any task.
Enqueue(j) ==
  /\ Idle
  /\ status[j] = "new"
  /\ ~gatewayDraining
  /\ Dispatch(j, levels, status)
  /\ stack' = <<DrainLane(Lane[j])>>
  /\ UNCHANGED <<laneVars, runner, startGen>>

RefuseWhileDraining(j) ==
  /\ Idle
  /\ status[j] = "new"
  /\ gatewayDraining
  /\ status' = [status EXCEPT ![j] = "refused"]
  /\ UNCHANGED <<levels, locked, pending, laneVars, stack, runner, startGen>>

\* The async body of pump resumes after `await entry.task()`.
FinishCurrent(j, r) ==
  /\ Idle
  /\ status[j] = "running"
  /\ r \in Outcomes(j)
  /\ Current(j)
  /\ active' = [active EXCEPT ![runner[j]] = @ \ {j}]
  /\ Release(Lane[j], levels, [status EXCEPT ![j] = "settling"])
  /\ stack' = WakeLane(j) \o <<Pump(runner[j]), SettleEntry(j, r)>>
  /\ UNCHANGED <<cap, draining, generation, gatewayDraining, runner, startGen>>

\* The same for a task that a reset orphaned: it still releases its lane.
FinishStale(j, r) ==
  /\ Idle
  /\ status[j] = "running"
  /\ r \in Outcomes(j)
  /\ ~Current(j)
  /\ Release(Lane[j], levels, [status EXCEPT ![j] = "settling"])
  /\ stack' = WakeLane(j) \o <<SettleEntry(j, r)>>
  /\ UNCHANGED <<laneVars, runner, startGen>>

SetConcurrency(l, n) ==
  /\ Idle
  /\ cap' = [cap EXCEPT ![l] = AtLeastOne(n)]
  /\ stack' = <<DrainLane(l)>>
  /\ UNCHANGED <<levels, locked, pending, active, draining, generation, gatewayDraining,
                 status, runner, startGen>>

\* clearCommandLane empties LaneState.queue, where no entry ever is: it rejects
\* nothing and what waits in the lane waits on.
ClearLane(l) ==
  /\ Idle
  /\ UNCHANGED vars

MarkDraining ==
  /\ Idle
  /\ gatewayDraining' = TRUE
  /\ UNCHANGED <<levels, locked, pending, active, cap, draining, generation, stack,
                 status, runner, startGen>>

\* resetAllLanes: no LaneState.queue is nonempty, so there is no lane to drain.
ResetAllLanes ==
  /\ Idle
  /\ generation < MaxResets
  /\ gatewayDraining' = FALSE
  /\ generation' = NextGeneration
  /\ active' = [l \in Lanes |-> {}]
  /\ draining' = [l \in Lanes |-> FALSE]
  /\ UNCHANGED <<levels, locked, pending, cap, stack, status, runner, startGen>>

-----------------------------------------------------------------------------
(* Stack actions *)

DrainBlocked(l) ==
  /\ Calling(DrainLane(l))
  /\ draining[l]
  /\ Return
  /\ UNCHANGED <<levels, locked, pending, laneVars, status, runner, startGen>>

DrainBegin(l) ==
  /\ Calling(DrainLane(l))
  /\ ~draining[l]
  /\ draining' = [draining EXCEPT ![l] = TRUE]
  /\ stack' = <<Pump(l)>> \o Tail(stack)
  /\ UNCHANGED <<levels, locked, pending, active, cap, generation, gatewayDraining,
                 status, runner, startGen>>

\* The pump of lane l takes j, whatever lane j was enqueued in.
Take(l, j) ==
  /\ Calling(Pump(l))
  /\ MayStart(l)
  /\ j = NextJob(levels, Est)
  /\ runner' = [runner EXCEPT ![j] = l]
  /\ startGen' = [startGen EXCEPT ![j] = generation]

OccupySlot(l, j) == active' = [active EXCEPT ![l] = @ \cup {j}]

\* The task yields before doing anything to the queue.
StartLeaf(l, j) ==
  /\ ~Nested(j)
  /\ Take(l, j)
  /\ OccupySlot(l, j)
  /\ levels' = TakeNext(levels, Est)
  /\ status' = [status EXCEPT ![j] = "running"]
  /\ UNCHANGED <<locked, pending, cap, draining, generation, gatewayDraining, stack>>

\* The task throws before it yields: its catch block runs inside the pump loop.
StartThrows(l, j) ==
  /\ ~Nested(j)
  /\ Take(l, j)
  /\ Release(Lane[j], TakeNext(levels, Est), [status EXCEPT ![j] = "settling"])
  /\ stack' = WakeLane(j) \o <<Pump(l), SettleEntry(j, "failed")>> \o stack
  /\ UNCHANGED laneVars

\* The task of a session job enqueues its inner job, and drains that job's lane,
\* before it yields.
StartNested(l, j) ==
  /\ Nested(j)
  /\ ~gatewayDraining
  /\ Take(l, j)
  /\ OccupySlot(l, j)
  /\ Dispatch(Inner[j], TakeNext(levels, Est), [status EXCEPT ![j] = "running"])
  /\ stack' = <<DrainLane(Lane[Inner[j]])>> \o stack
  /\ UNCHANGED <<cap, draining, generation, gatewayDraining>>

\* The same while the gateway drains: the inner enqueue is refused.
StartNestedRefused(l, j) ==
  /\ Nested(j)
  /\ gatewayDraining
  /\ Take(l, j)
  /\ OccupySlot(l, j)
  /\ levels' = TakeNext(levels, Est)
  /\ status' = [status EXCEPT ![j] = "running", ![Inner[j]] = "refused"]
  /\ UNCHANGED <<locked, pending, cap, draining, generation, gatewayDraining, stack>>

\* The loop ends.  `finally` would re-arm a timer if the MLFQ held a job, which
\* PumpsToTheEnd shows it never does.
PumpExit(l) ==
  /\ Calling(Pump(l))
  /\ ~MayStart(l)
  /\ draining' = StopDraining(l)
  /\ Return
  /\ UNCHANGED <<levels, locked, pending, active, cap, generation, gatewayDraining,
                 status, runner, startGen>>

Settle(j, r) ==
  /\ Calling(SettleEntry(j, r))
  /\ status' = [status EXCEPT ![j] = r]
  /\ Return
  /\ UNCHANGED <<levels, locked, pending, laneVars, runner, startGen>>

-----------------------------------------------------------------------------
Start(l, j) ==
  \/ StartLeaf(l, j)
  \/ StartThrows(l, j)
  \/ StartNested(l, j)
  \/ StartNestedRefused(l, j)

Finish(j) == \E r \in {"resolved", "failed"} : FinishCurrent(j, r) \/ FinishStale(j, r)

StackStep ==
  \/ \E l \in Lanes : DrainBlocked(l) \/ DrainBegin(l) \/ PumpExit(l)
  \/ \E l \in Lanes, j \in Jobs : Start(l, j)
  \/ \E j \in Jobs, r \in {"resolved", "failed"} : Settle(j, r)

LoopStep ==
  \/ \E j \in TopLevel : Enqueue(j) \/ RefuseWhileDraining(j)
  \/ \E j \in Jobs : Finish(j)
  \/ \E l \in Clearable : ClearLane(l)
  \/ \E l \in Configurable, n \in 0 .. MaxCap : SetConcurrency(l, n)
  \/ MarkDraining
  \/ ResetAllLanes

Next == StackStep \/ LoopStep

Spec == Init /\ [][Next]_vars

-----------------------------------------------------------------------------
(* Properties *)

TypeOK ==
  /\ levels \in [Levels -> Seq(Jobs)]
  /\ locked \subseteq Lanes
  /\ pending \in [Lanes -> Seq(Jobs)]
  /\ active \in [Lanes -> SUBSET Jobs]
  /\ cap \in [Lanes -> Nat \ {0}]
  /\ draining \in [Lanes -> BOOLEAN]
  /\ generation \in Nat
  /\ gatewayDraining \in BOOLEAN
  /\ stack \in Seq(Frames)
  /\ status \in [Jobs -> Status]
  /\ runner \in [Jobs -> Lanes \cup {NoLane}]
  /\ startGen \in [Jobs -> Nat]

Holds(j, l) == Lane[j] = l /\ status[j] \in {"ready", "running"}

\* "strict Serial execution lanes" (serial_lane_dispatcher.ts:5): a lane is locked
\* exactly while one of its jobs is in the MLFQ or runs, and then it is only one.
\* Tasks that a reset orphaned count: the lock outlives the reset that empties
\* activeTaskIds, so no task of the lane runs beside one.
LockIsOneJob ==
  \A l \in Lanes :
    /\ l \in locked <=> \E j \in Jobs : Holds(j, l)
    /\ \A i, j \in Jobs : Holds(i, l) /\ Holds(j, l) => i = j

\* A pump never gives up while the MLFQ holds a job, so that none is left there
\* when the call stack is empty and finally's setTimeout is never needed.
PumpsToTheEnd ==
  /\ Idle => GloballyEmpty(levels)
  /\ \A l \in Lanes : Calling(Pump(l)) /\ ~HasRoom(l) => GloballyEmpty(levels)

\* The MLFQ hands a job to whichever pump asks, but a job only ever occupies the
\* slots of the lane it was enqueued in: they are held by exactly the tasks of
\* that lane and this generation.
SlotsAreBusyTasks ==
  \A l \in Lanes :
    active[l] = {j \in Jobs : Lane[j] = l /\ status[j] = "running" /\ Current(j)}

-----------------------------------------------------------------------------
(* The lane contract, with one slot for each lane *)

InMLFQ(l) ==
  LET ready == {j \in Jobs : Lane[j] = l /\ status[j] = "ready"}
  IN  IF ready = {} THEN <<>> ELSE <<CHOOSE j \in ready : TRUE>>

Contract == INSTANCE LaneContract WITH
  waiting <- [l \in Lanes |-> InMLFQ(l) \o pending[l]],
  running <- [l \in Lanes |-> {j \in Jobs : Lane[j] = l /\ status[j] = "running"}],
  limit <- [l \in Lanes |-> 1],
  accepted <- {j \in Jobs : status[j] \notin {"new", "refused"}}

ImplementsContract == Contract!Spec
=============================================================================
