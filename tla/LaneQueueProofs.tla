-------------------------- MODULE LaneQueueProofs --------------------------
(* Proofs about LaneQueue, for every set of lanes and jobs.                 *)
EXTENDS LaneQueue, FiniteSetTheorems, TLAPS

-----------------------------------------------------------------------------
(* The call stack as a sequence: what replacing its top frame, or pushing on   *)
(* it, leaves at each place.                                                   *)

LEMMA PopTop ==
  ASSUME NEW F, NEW s \in Seq(F), s # <<>>
  PROVE  /\ <<>> \o Tail(s) \in Seq(F)
         /\ Len(<<>> \o Tail(s)) = Len(s) - 1
         /\ \A i \in 1 .. Len(s) - 1 : (<<>> \o Tail(s))[i] = s[i + 1]
  OBVIOUS

LEMMA ReplaceTop ==
  ASSUME NEW F, NEW s \in Seq(F), s # <<>>, NEW f \in F
  PROVE  /\ <<f>> \o Tail(s) \in Seq(F)
         /\ Len(<<f>> \o Tail(s)) = Len(s)
         /\ (<<f>> \o Tail(s))[1] = f
         /\ \A i \in 2 .. Len(s) : (<<f>> \o Tail(s))[i] = s[i]
  OBVIOUS

LEMMA ReplaceTopByTwo ==
  ASSUME NEW F, NEW s \in Seq(F), s # <<>>, NEW f \in F, NEW g \in F
  PROVE  /\ <<f, g>> \o Tail(s) \in Seq(F)
         /\ Len(<<f, g>> \o Tail(s)) = Len(s) + 1
         /\ (<<f, g>> \o Tail(s))[1] = f
         /\ (<<f, g>> \o Tail(s))[2] = g
         /\ \A i \in 2 .. Len(s) : (<<f, g>> \o Tail(s))[i + 1] = s[i]
  OBVIOUS

LEMMA PushOne ==
  ASSUME NEW F, NEW s \in Seq(F), NEW f \in F
  PROVE  /\ <<f>> \o s \in Seq(F)
         /\ Len(<<f>> \o s) = Len(s) + 1
         /\ (<<f>> \o s)[1] = f
         /\ \A i \in 1 .. Len(s) : (<<f>> \o s)[i + 1] = s[i]
  OBVIOUS

LEMMA PushTwo ==
  ASSUME NEW F, NEW s \in Seq(F), NEW f \in F, NEW g \in F
  PROVE  /\ <<f, g>> \o s \in Seq(F)
         /\ Len(<<f, g>> \o s) = Len(s) + 2
         /\ (<<f, g>> \o s)[1] = f
         /\ (<<f, g>> \o s)[2] = g
         /\ \A i \in 1 .. Len(s) : (<<f, g>> \o s)[i + 2] = s[i]
  OBVIOUS

LEMMA FrameType ==
  /\ \A l \in Lanes : DrainLane(l) \in Frames /\ Pump(l) \in Frames
  /\ \A j \in Jobs, r \in {"resolved", "failed"} : SettleEntry(j, r) \in Frames
  /\ \A S \in SUBSET Lanes : DrainEach(S) \in Frames
  BY DEF Frames, DrainLane, Pump, SettleEntry, DrainEach

LEMMA FrameFields ==
  /\ \A l : /\ DrainLane(l).call = "drainLane" /\ DrainLane(l).lane = l
            /\ Pump(l).call = "pump" /\ Pump(l).lane = l
  /\ \A j, r : SettleEntry(j, r).call = "settle" /\ SettleEntry(j, r).job = j
  /\ \A S : DrainEach(S).call = "drainEach" /\ DrainEach(S).lanes = S
  BY DEF DrainLane, Pump, SettleEntry, DrainEach

-----------------------------------------------------------------------------
(* Type correctness *)

LEMMA TypeInit == Init => TypeOK
<1> SUFFICES ASSUME Init PROVE TypeOK
  OBVIOUS
<1>1. queue \in [Lanes -> Seq(Jobs)] /\ stack \in Seq(Frames)
  BY DEF Init
<1>2. active \in [Lanes -> SUBSET Jobs] /\ cap \in [Lanes -> Nat \ {0}]
  BY DEF Init
<1>3. status \in [Jobs -> Status] /\ startGen \in [Jobs -> Nat]
  BY DEF Init, Status
<1>4. draining \in [Lanes -> BOOLEAN] /\ timers \subseteq Lanes
  BY DEF Init
<1> QED
  BY <1>1, <1>2, <1>3, <1>4 DEF Init, TypeOK

LEMMA TypeLoopStep ==
  ASSUME TypeOK, LoopStep
  PROVE  TypeOK'
<1> USE LaneQueueAssumption DEF TypeOK
<1>1. ASSUME NEW j \in TopLevel, Enqueue(j) PROVE TypeOK'
  BY <1>1, FrameType DEF TopLevel, Enqueue, Push, Status
<1>2. ASSUME NEW j \in TopLevel, RefuseWhileDraining(j) PROVE TypeOK'
  BY <1>2 DEF TopLevel, RefuseWhileDraining, Status, Settled
<1>3. ASSUME NEW j \in Jobs, NEW r \in {"resolved", "failed"}, FinishCurrent(j, r) PROVE TypeOK'
  BY <1>3, FrameType DEF FinishCurrent, Status
<1>4. ASSUME NEW j \in Jobs, NEW r \in {"resolved", "failed"}, FinishStale(j, r) PROVE TypeOK'
  BY <1>4, FrameType DEF FinishStale, Status
<1>5. ASSUME NEW l \in Lanes, TimerFires(l) PROVE TypeOK'
  BY <1>5, FrameType DEF TimerFires
<1>6. ASSUME NEW l \in Lanes, ClearLane(l) PROVE TypeOK'
  BY <1>6 DEF ClearLane, Splice, Status, Settled
<1>7. ASSUME NEW l \in Configurable, NEW n \in 0 .. MaxCap, SetConcurrency(l, n) PROVE TypeOK'
  BY <1>7, FrameType DEF SetConcurrency, AtLeastOne
<1>8. ASSUME MarkDraining PROVE TypeOK'
  BY <1>8 DEF MarkDraining
<1>9. ASSUME ResetAllLanes PROVE TypeOK'
  <2>1. LanesToDrain \in SUBSET Lanes
    BY DEF LanesToDrain
  <2>2. stack' \in Seq(Frames)
    BY <1>9, <2>1, FrameType DEF ResetAllLanes
  <2>3. active' \in [Lanes -> SUBSET Jobs] /\ draining' \in [Lanes -> BOOLEAN]
    BY <1>9 DEF ResetAllLanes
  <2>4. generation' \in Nat
    BY <1>9 DEF ResetAllLanes, NextGeneration
  <2> QED
    BY <1>9, <2>2, <2>3, <2>4 DEF ResetAllLanes
<1> QED
  BY <1>1, <1>2, <1>3, <1>4, <1>5, <1>6, <1>7, <1>8, <1>9, LaneQueueAssumption DEF LoopStep, Finish

LEMMA TypeStackStep ==
  ASSUME TypeOK, StackStep
  PROVE  TypeOK'
<1> USE LaneQueueAssumption DEF TypeOK
<1>1. ASSUME NEW S \in SUBSET Lanes, DrainNextLane(S) PROVE TypeOK'
  <2>1. stack \in Seq(Frames) /\ stack # <<>>
    BY <1>1 DEF DrainNextLane, Calling, Idle
  <2>2. CASE S = {} /\ Return(<<>>)
    <3>1. stack' \in Seq(Frames)
      BY <2>1, <2>2, PopTop DEF Return
    <3> QED
      BY <1>1, <3>1 DEF DrainNextLane
  <2>3. ASSUME NEW l \in S, Return(<<DrainLane(l), DrainEach(S \ {l})>>) PROVE TypeOK'
    <3>1. DrainLane(l) \in Frames /\ DrainEach(S \ {l}) \in Frames
      BY FrameType
    <3>2. stack' \in Seq(Frames)
      BY <2>1, <2>3, <3>1, ReplaceTopByTwo DEF Return
    <3> QED
      BY <1>1, <3>2 DEF DrainNextLane
  <2> QED
    BY <1>1, <2>2, <2>3 DEF DrainNextLane
<1>2. ASSUME NEW l \in Lanes, DrainBlocked(l) PROVE TypeOK'
  BY <1>2, PopTop DEF DrainBlocked, Calling, Idle, Return
<1>3. ASSUME NEW l \in Lanes, DrainBegin(l) PROVE TypeOK'
  BY <1>3, FrameType, ReplaceTop DEF DrainBegin, Calling, Idle, Return
<1>4. ASSUME NEW l \in Lanes, PumpExit(l) PROVE TypeOK'
  BY <1>4, PopTop DEF PumpExit, Calling, Idle, Return, StopDraining
<1>5. ASSUME NEW l \in Lanes, NEW j \in Jobs, StartLeaf(l, j) PROVE TypeOK'
  BY <1>5 DEF StartLeaf, MayStart, OccupySlot, Shift, Status
<1>6. ASSUME NEW l \in Lanes, NEW j \in Jobs, StartThrows(l, j) PROVE TypeOK'
  BY <1>6, FrameType, PushTwo DEF StartThrows, MayStart, Shift, Status
<1>7. ASSUME NEW l \in Lanes, NEW j \in Jobs, StartNested(l, j) PROVE TypeOK'
  <2>1. Inner[j] \in Jobs /\ Lane[Inner[j]] \in Lanes
    BY <1>7 DEF StartNested, Nested
  <2>2. queue' \in [Lanes -> Seq(Jobs)]
    <3>1. Shift(l) \in [Lanes -> Seq(Jobs)]
      BY <1>7 DEF StartNested, MayStart, Shift
    <3> QED
      BY <1>7, <2>1, <3>1 DEF StartNested, Push
  <2>3. active' \in [Lanes -> SUBSET Jobs] /\ startGen' \in [Jobs -> Nat]
    BY <1>7 DEF StartNested, OccupySlot
  <2>4. status' \in [Jobs -> Status]
    BY <1>7, <2>1 DEF StartNested, Status
  <2>5. stack' \in Seq(Frames)
    BY <1>7, <2>1, FrameType, PushOne DEF StartNested
  <2> QED
    BY <1>7, <2>2, <2>3, <2>4, <2>5 DEF StartNested
<1>8. ASSUME NEW l \in Lanes, NEW j \in Jobs, StartNestedRefused(l, j) PROVE TypeOK'
  <2>1. queue' \in [Lanes -> Seq(Jobs)]
    BY <1>8 DEF StartNestedRefused, MayStart, Shift
  <2>2. active' \in [Lanes -> SUBSET Jobs] /\ startGen' \in [Jobs -> Nat]
    BY <1>8 DEF StartNestedRefused, OccupySlot
  <2>3. status' \in [Jobs -> Status]
    BY <1>8 DEF StartNestedRefused, Status, Settled, Nested
  <2> QED
    BY <1>8, <2>1, <2>2, <2>3 DEF StartNestedRefused
<1>9. ASSUME NEW j \in Jobs, NEW r \in {"resolved", "failed"}, Settle(j, r) PROVE TypeOK'
  BY <1>9, PopTop DEF Settle, Calling, Idle, Return, Status, Settled
<1> QED
  BY <1>1, <1>2, <1>3, <1>4, <1>5, <1>6, <1>7, <1>8, <1>9 DEF StackStep, Start

LEMMA TypeStep == TypeOK /\ [Next]_vars => TypeOK'
<1>1. TypeOK /\ UNCHANGED vars => TypeOK'
  BY DEF TypeOK, vars
<1> QED
  BY <1>1, TypeLoopStep, TypeStackStep DEF Next

\* Every variable of the queue keeps its shape, whatever the lanes and jobs.
THEOREM TypeCorrect == Spec => []TypeOK
  BY TypeInit, TypeStep, PTL DEF Spec

-----------------------------------------------------------------------------
(* The jobs: what is queued, what awaits what, what is about to be settled *)

\* QueuedOnce of given queues and statuses.
Tidy(q, st) ==
  /\ \A l \in Lanes : \A i \in DOMAIN q[l] : Lane[q[l][i]] = l /\ st[q[l][i]] = "queued"
  /\ \A l \in Lanes : \A i, k \in DOMAIN q[l] : q[l][i] = q[l][k] => i = k

LEMMA TidyShift ==
  ASSUME NEW q \in [Lanes -> Seq(Jobs)], NEW st \in [Jobs -> Status], Tidy(q, st),
         NEW l \in Lanes, q[l] # <<>>, NEW v
  PROVE  /\ Head(q[l]) \in Jobs /\ Lane[Head(q[l])] = l /\ st[Head(q[l])] = "queued"
         /\ Tidy([q EXCEPT ![l] = Tail(@)], [st EXCEPT ![Head(q[l])] = v])
<1> DEFINE j == Head(q[l])
           p == [q EXCEPT ![l] = Tail(@)]
<1>1. q[l] \in Seq(Jobs) /\ Len(q[l]) \in Nat \ {0} /\ j = q[l][1] /\ 1 \in DOMAIN q[l]
  OBVIOUS
<1>2. j \in Jobs /\ Lane[j] = l /\ st[j] = "queued"
  BY <1>1 DEF Tidy
<1>3. \A i \in DOMAIN p[l] : i + 1 \in DOMAIN q[l] /\ p[l][i] = q[l][i + 1] /\ i \in Nat /\ i # 0
  BY <1>1
<1>4. \A m \in Lanes : m # l => p[m] = q[m]
  OBVIOUS
<1>5. ASSUME NEW m \in Lanes, NEW i \in DOMAIN p[m]
      PROVE  Lane[p[m][i]] = m /\ st[p[m][i]] = "queued" /\ p[m][i] # j /\ p[m][i] \in Jobs
  <2>1. CASE m = l
    BY <1>1, <1>3, <2>1 DEF Tidy
  <2>2. CASE m # l
    BY <1>2, <1>4, <2>2 DEF Tidy
  <2> QED
    BY <2>1, <2>2
<1>6. ASSUME NEW m \in Lanes, NEW i \in DOMAIN p[m], NEW k \in DOMAIN p[m], p[m][i] = p[m][k]
      PROVE  i = k
  <2>1. CASE m = l
    <3>1. i + 1 = k + 1
      BY <1>3, <1>6, <2>1 DEF Tidy
    <3> QED
      BY <1>3, <2>1, <3>1
  <2>2. CASE m # l
    BY <1>4, <1>6, <2>2 DEF Tidy
  <2> QED
    BY <2>1, <2>2
<1>7. Tidy(p, [st EXCEPT ![j] = v])
  BY <1>5, <1>6 DEF Tidy
<1> QED
  BY <1>2, <1>7

LEMMA TidyPush ==
  ASSUME NEW q \in [Lanes -> Seq(Jobs)], NEW st \in [Jobs -> Status], Tidy(q, st),
         NEW x \in Jobs, st[x] # "queued"
  PROVE  Tidy([q EXCEPT ![Lane[x]] = Push(@, x)], [st EXCEPT ![x] = "queued"])
<1> USE LaneQueueAssumption
<1> DEFINE l == Lane[x]
           p == [q EXCEPT ![l] = Push(@, x)]
           n == Len(q[l])
<1>1. l \in Lanes /\ Lane[x] = l /\ q[l] \in Seq(Jobs) /\ n \in Nat
  OBVIOUS
<1>2. /\ DOMAIN p[l] = 1 .. n + 1 /\ DOMAIN q[l] = 1 .. n
      /\ p[l][n + 1] = x /\ \A i \in 1 .. n : p[l][i] = q[l][i]
  BY <1>1 DEF Push
<1>3. \A m \in Lanes : m # l => p[m] = q[m]
  OBVIOUS
<1>4. \A m \in Lanes : \A i \in DOMAIN q[m] :
        q[m][i] \in Jobs /\ q[m][i] # x /\ Lane[q[m][i]] = m /\ st[q[m][i]] = "queued"
  BY DEF Tidy
<1>5. \A i \in DOMAIN p[l] :
        (i = n + 1 /\ p[l][i] = x) \/ (i \in DOMAIN q[l] /\ p[l][i] = q[l][i])
  BY <1>1, <1>2
<1> DEFINE after == [st EXCEPT ![x] = "queued"]
<1>6. after[x] = "queued" /\ \A y \in Jobs : st[y] = "queued" => after[y] = "queued"
  OBVIOUS
<1> HIDE DEF l, p, n, after
<1>7. ASSUME NEW m \in Lanes, NEW i \in DOMAIN p[m]
      PROVE  Lane[p[m][i]] = m /\ after[p[m][i]] = "queued"
  <2>1. CASE m = l
    <3>1. CASE i = n + 1 /\ p[l][i] = x
      BY <1>1, <1>6, <2>1, <3>1
    <3>2. CASE i \in DOMAIN q[l] /\ p[l][i] = q[l][i]
      BY <1>1, <1>4, <1>6, <2>1, <3>2
    <3> QED
      BY <1>5, <2>1, <3>1, <3>2
  <2>2. CASE m # l
    BY <1>3, <1>4, <1>6, <2>2
  <2> QED
    BY <2>1, <2>2
<1>8. ASSUME NEW m \in Lanes, NEW i \in DOMAIN p[m], NEW k \in DOMAIN p[m], p[m][i] = p[m][k]
      PROVE  i = k
  <2>1. CASE m = l
    <3>1. CASE p[l][i] = x
      <4>1. i = n + 1 /\ k = n + 1
        BY <1>1, <1>4, <1>5, <1>8, <2>1, <3>1
      <4> QED
        BY <4>1
    <3>2. CASE p[l][i] # x
      <4>1. i \in DOMAIN q[l] /\ p[l][i] = q[l][i] /\ k \in DOMAIN q[l] /\ p[l][k] = q[l][k]
        BY <1>5, <1>8, <2>1, <3>2
      <4> QED
        BY <1>1, <1>8, <2>1, <4>1 DEF Tidy
    <3> QED
      BY <3>1, <3>2
  <2>2. CASE m # l
    BY <1>3, <1>8, <2>2 DEF Tidy
  <2> QED
    BY <2>1, <2>2
<1>9. Tidy(p, after)
  BY <1>7, <1>8 DEF Tidy
<1> QED
  BY <1>9 DEF l, p, after

LEMMA SettleFrameJob == \A f \in Frames : f.call = "settle" => f.job \in Jobs
  BY DEF Frames

\* Frames that do not settle come and go above and below those that do.
LEMMA SettleFramesKept ==
  ASSUME OneSettleFrame, stack \in Seq(Frames), stack' \in Seq(Frames),
         \A j \in Jobs : status[j] = "settling" => status'[j] = "settling",
         NEW d \in Int,
         \A i \in DOMAIN stack' : stack'[i].call = "settle" =>
           i - d \in DOMAIN stack /\ stack'[i] = stack[i - d]
  PROVE  OneSettleFrame'
<1>1. \A i \in DOMAIN stack' : stack'[i].call = "settle" => status'[stack'[i].job] = "settling"
  BY SettleFrameJob DEF OneSettleFrame
<1>2. ASSUME NEW i \in DOMAIN stack', NEW k \in DOMAIN stack',
             stack'[i].call = "settle", stack'[k].call = "settle", stack'[i].job = stack'[k].job
      PROVE  i = k
  <2>1. i - d = k - d
    BY <1>2 DEF OneSettleFrame
  <2> QED
    BY <2>1
<1> QED
  BY <1>1, <1>2 DEF OneSettleFrame

LEMMA NoSettleFrame ==
  ASSUME NEW f, f.call # "settle", stack' = <<f>>
  PROVE  OneSettleFrame'
  BY DEF OneSettleFrame

LEMMA QueuedStay ==
  ASSUME QueuedOnce, queue' = queue, TypeOK,
         \A j \in Jobs : status[j] = "queued" => status'[j] = "queued"
  PROVE  QueuedOnce'
  BY DEF QueuedOnce, TypeOK

JobsInv == QueuedOnce /\ OuterAwaitsInner /\ OneSettleFrame

LEMMA JobsLoopStep ==
  ASSUME TypeOK, TypeOK', JobsInv, LoopStep
  PROVE  JobsInv'
<1> USE LaneQueueAssumption, FrameFields DEF JobsInv
<1>1. ASSUME NEW j \in TopLevel, Enqueue(j) PROVE JobsInv'
  <2>0. j \in Jobs /\ \A i \in Jobs : Inner[i] # j
    BY DEF TopLevel
  <2>1. Tidy(queue', status')
    <3>1. Tidy(queue, status) /\ status[j] # "queued"
      BY <1>1 DEF QueuedOnce, Tidy, Enqueue
    <3> QED
      BY <1>1, <2>0, <3>1, TidyPush DEF Enqueue, TypeOK
  <2>2. OuterAwaitsInner'
    BY <1>1, <2>0 DEF OuterAwaitsInner, Enqueue, TypeOK, Nested
  <2>3. OneSettleFrame'
    BY <1>1, NoSettleFrame DEF Enqueue
  <2> QED
    BY <2>1, <2>2, <2>3 DEF Tidy, QueuedOnce
<1>2. ASSUME NEW j \in TopLevel, RefuseWhileDraining(j) PROVE JobsInv'
  <2>0. j \in Jobs /\ \A i \in Jobs : Inner[i] # j
    BY DEF TopLevel
  <2>1. QueuedOnce'
    BY <1>2, <2>0, QueuedStay DEF RefuseWhileDraining, TypeOK
  <2>2. OuterAwaitsInner'
    BY <1>2, <2>0 DEF OuterAwaitsInner, RefuseWhileDraining, TypeOK, Nested
  <2>3. OneSettleFrame'
    BY <1>2 DEF RefuseWhileDraining, OneSettleFrame, Idle
  <2> QED
    BY <2>1, <2>2, <2>3
<1>3. ASSUME NEW j \in Jobs, NEW r \in {"resolved", "failed"},
             FinishCurrent(j, r) \/ FinishStale(j, r)
      PROVE  JobsInv'
  <2>1. /\ status[j] = "running" /\ status' = [status EXCEPT ![j] = "settling"]
        /\ queue' = queue /\ (Nested(j) => status[Inner[j]] \in Settled)
    BY <1>3 DEF FinishCurrent, FinishStale, Outcomes, Settled
  <2>2. QueuedOnce'
    BY <2>1, QueuedStay DEF TypeOK
  <2>3. OuterAwaitsInner'
    <3> SUFFICES ASSUME NEW i \in Jobs, Nested(i)
                 PROVE  /\ status'[i] \in {"new", "queued", "cleared", "refused"}
                             => status'[Inner[i]] = "new"
                        /\ status'[Inner[i]] \in {"queued", "running", "settling"}
                             => status'[i] = "running"
      BY DEF OuterAwaitsInner
    <3>1. Inner[i] \in Jobs /\ Inner[i] # i
      BY DEF Nested
    <3>2. CASE i = j
      BY <2>1, <3>1, <3>2 DEF TypeOK, Settled
    <3>3. CASE i # j
      BY <2>1, <3>1, <3>3 DEF OuterAwaitsInner, TypeOK
    <3> QED
      BY <3>2, <3>3
  <2>4. OneSettleFrame'
    <3>1. status'[j] = "settling"
      BY <2>1 DEF TypeOK
    <3>2. CASE stack' = <<Pump(Lane[j]), SettleEntry(j, r)>>
      BY <3>1, <3>2 DEF OneSettleFrame
    <3>3. CASE stack' = <<SettleEntry(j, r)>>
      BY <3>1, <3>3 DEF OneSettleFrame
    <3> QED
      BY <1>3, <3>2, <3>3 DEF FinishCurrent, FinishStale
  <2> QED
    BY <2>2, <2>3, <2>4
<1>4. ASSUME NEW l \in Lanes, TimerFires(l) \/ (\E n \in 0 .. MaxCap : SetConcurrency(l, n))
      PROVE  JobsInv'
  <2>1. queue' = queue /\ status' = status /\ stack' = <<DrainLane(l)>>
    BY <1>4 DEF TimerFires, SetConcurrency
  <2> QED
    BY <2>1, NoSettleFrame, QueuedStay DEF OuterAwaitsInner
<1>5. ASSUME NEW l \in Lanes, ClearLane(l) PROVE JobsInv'
  <2>1. \A j \in InQueue(l) : j \in Jobs /\ status[j] = "queued" /\ Lane[j] = l
    BY DEF InQueue, QueuedOnce, TypeOK
  <2>2. QueuedOnce'
    <3>1. /\ queue'[l] = <<>> /\ \A m \in Lanes : m # l => queue'[m] = queue[m]
      BY <1>5 DEF ClearLane, Splice, TypeOK
    <3>2. \A j \in Jobs : status[j] = "queued" /\ Lane[j] # l => status'[j] = "queued"
      BY <1>5, <2>1 DEF ClearLane
    <3>3. \A m \in Lanes : \A i \in DOMAIN queue[m] : queue[m][i] \in Jobs
      BY DEF TypeOK
    <3> QED
      BY <3>1, <3>2, <3>3 DEF QueuedOnce
  <2>3. OuterAwaitsInner'
    <3> SUFFICES ASSUME NEW i \in Jobs, Nested(i)
                 PROVE  /\ status'[i] \in {"new", "queued", "cleared", "refused"}
                             => status'[Inner[i]] = "new"
                        /\ status'[Inner[i]] \in {"queued", "running", "settling"}
                             => status'[i] = "running"
      BY DEF OuterAwaitsInner
    <3>1. Inner[i] \in Jobs
      BY DEF Nested
    <3>2. \A j \in Jobs : status'[j] = IF j \in InQueue(l) THEN "cleared" ELSE status[j]
      BY <1>5 DEF ClearLane
    <3> QED
      BY <2>1, <3>1, <3>2 DEF OuterAwaitsInner
  <2>4. OneSettleFrame'
    BY <1>5 DEF ClearLane, OneSettleFrame, Idle
  <2> QED
    BY <2>2, <2>3, <2>4
<1>6. ASSUME MarkDraining PROVE JobsInv'
  <2>1. queue' = queue /\ status' = status /\ stack' = stack
    BY <1>6 DEF MarkDraining
  <2> QED
    BY <2>1 DEF QueuedOnce, OuterAwaitsInner, OneSettleFrame
<1>7. ASSUME ResetAllLanes PROVE JobsInv'
  <2>1. queue' = queue /\ status' = status /\ stack' = <<DrainEach(LanesToDrain)>>
    BY <1>7 DEF ResetAllLanes
  <2> QED
    BY <2>1, NoSettleFrame, QueuedStay DEF OuterAwaitsInner
<1> QED
  BY <1>1, <1>2, <1>3, <1>4, <1>5, <1>6, <1>7, LaneQueueAssumption DEF LoopStep, Finish

\* A stack action that settles nothing: its new frames are no settle frames.
LEMMA StackActionKeepsSettles ==
  ASSUME TypeOK, TypeOK', OneSettleFrame, status' = status, stack # <<>>,
         Head(stack).call # "settle",
         \/ stack' = <<>> \o Tail(stack)
         \/ \E f \in Frames : f.call # "settle" /\ stack' = <<f>> \o Tail(stack)
         \/ \E f, g \in Frames : /\ f.call # "settle" /\ g.call # "settle"
                                 /\ stack' = <<f, g>> \o Tail(stack)
  PROVE  OneSettleFrame'
<1> stack \in Seq(Frames) /\ stack' \in Seq(Frames) /\ Len(stack) \in Nat \ {0}
  BY DEF TypeOK
<1>1. CASE stack' = <<>> \o Tail(stack)
  <2>1. \A i \in DOMAIN stack' : i - (-1) \in DOMAIN stack /\ stack'[i] = stack[i - (-1)]
    BY <1>1, PopTop
  <2>2. -1 \in Int
    OBVIOUS
  <2> QED
    BY <2>1, <2>2, SettleFramesKept
<1>2. ASSUME NEW f \in Frames, f.call # "settle", stack' = <<f>> \o Tail(stack)
      PROVE  OneSettleFrame'
  <2>1. \A i \in DOMAIN stack' : stack'[i].call = "settle" =>
          i - 0 \in DOMAIN stack /\ stack'[i] = stack[i - 0]
    BY <1>2, ReplaceTop
  <2> QED
    BY <2>1, SettleFramesKept
<1>3. ASSUME NEW f \in Frames, NEW g \in Frames, f.call # "settle", g.call # "settle",
             stack' = <<f, g>> \o Tail(stack)
      PROVE  OneSettleFrame'
  <2>1. /\ Len(stack') = Len(stack) + 1 /\ stack'[1] = f /\ stack'[2] = g
        /\ \A i \in 2 .. Len(stack) : stack'[i + 1] = stack[i]
    BY <1>3, ReplaceTopByTwo
  <2>2. ASSUME NEW i \in DOMAIN stack', stack'[i].call = "settle"
        PROVE  i - 1 \in DOMAIN stack /\ stack'[i] = stack[i - 1]
    <3>1. i # 1 /\ i # 2 /\ i \in 1 .. Len(stack) + 1
      BY <1>3, <2>1, <2>2
    <3>2. i - 1 \in 2 .. Len(stack) /\ (i - 1) + 1 = i
      BY <3>1
    <3> QED
      BY <2>1, <3>2
  <2> QED
    BY <2>2, SettleFramesKept
<1> QED
  BY <1>1, <1>2, <1>3

\* Taking the next entry of a lane.
LEMMA ShiftTidy ==
  ASSUME TypeOK, QueuedOnce, NEW l \in Lanes, queue[l] # <<>>,
         NEW j, j = Head(queue[l]), NEW v
  PROVE  /\ Tidy(Shift(l), [status EXCEPT ![j] = v])
         /\ j \in Jobs /\ Lane[j] = l /\ status[j] = "queued"
<1>1. Tidy(queue, status)
  BY DEF Tidy, QueuedOnce
<1>2. queue \in [Lanes -> Seq(Jobs)] /\ status \in [Jobs -> Status]
  BY DEF TypeOK
<1> QED
  BY <1>1, <1>2, TidyShift DEF Shift

\* The same when its task does not enqueue another job.
LEMMA ShiftKeepsQueues ==
  ASSUME TypeOK, QueuedOnce, NEW l \in Lanes, NEW j, NEW v,
         queue[l] # <<>>, j = Head(queue[l]), queue' = Shift(l),
         status' = [status EXCEPT ![j] = v]
  PROVE  QueuedOnce' /\ j \in Jobs /\ Lane[j] = l /\ status[j] = "queued"
<1>1. Tidy(queue', status') /\ j \in Jobs /\ Lane[j] = l /\ status[j] = "queued"
  BY ShiftTidy
<1> QED
  BY <1>1 DEF Tidy, QueuedOnce

LEMMA JobsStackStep ==
  ASSUME TypeOK, TypeOK', JobsInv, StackStep
  PROVE  JobsInv'
<1> USE LaneQueueAssumption, FrameFields DEF JobsInv
<1>1. ASSUME NEW S \in SUBSET Lanes, DrainNextLane(S) PROVE JobsInv'
  <2>1. /\ queue' = queue /\ status' = status /\ stack # <<>> /\ Head(stack).call # "settle"
        /\ \/ stack' = <<>> \o Tail(stack)
           \/ \E l \in S : stack' = <<DrainLane(l), DrainEach(S \ {l})>> \o Tail(stack)
    BY <1>1 DEF DrainNextLane, Calling, Idle, Return
  <2>2. \A l \in S : DrainLane(l) \in Frames /\ DrainEach(S \ {l}) \in Frames
    BY FrameType
  <2>3. OneSettleFrame'
    BY <2>1, <2>2, StackActionKeepsSettles
  <2> QED
    BY <2>1, <2>3, QueuedStay DEF OuterAwaitsInner
<1>2. ASSUME NEW l \in Lanes, DrainBlocked(l) \/ DrainBegin(l) \/ PumpExit(l) PROVE JobsInv'
  <2>1. /\ queue' = queue /\ status' = status /\ stack # <<>> /\ Head(stack).call # "settle"
        /\ \/ stack' = <<>> \o Tail(stack)
           \/ stack' = <<Pump(l)>> \o Tail(stack)
    BY <1>2 DEF DrainBlocked, DrainBegin, PumpExit, Calling, Idle, Return
  <2>2. OneSettleFrame'
    BY <2>1, FrameType, StackActionKeepsSettles
  <2> QED
    BY <2>1, <2>2, QueuedStay DEF OuterAwaitsInner
<1>3. ASSUME NEW l \in Lanes, NEW j \in Jobs, StartLeaf(l, j) PROVE JobsInv'
  <2>1. QueuedOnce' /\ Lane[j] = l /\ status[j] = "queued"
    BY <1>3, ShiftKeepsQueues DEF StartLeaf, MayStart
  <2>2. OuterAwaitsInner'
    BY <1>3, <2>1 DEF StartLeaf, OuterAwaitsInner, TypeOK, Nested
  <2>3. OneSettleFrame'
    <3>1. stack' = stack /\ \A i \in Jobs : status[i] = "settling" => status'[i] = "settling"
      BY <1>3, <2>1 DEF StartLeaf, TypeOK
    <3> QED
      BY <3>1, SettleFrameJob DEF OneSettleFrame, TypeOK
  <2> QED
    BY <2>1, <2>2, <2>3
<1>4. ASSUME NEW l \in Lanes, NEW j \in Jobs, StartThrows(l, j) PROVE JobsInv'
  <2>1. QueuedOnce' /\ Lane[j] = l /\ status[j] = "queued"
    BY <1>4, ShiftKeepsQueues DEF StartThrows, MayStart
  <2>2. OuterAwaitsInner'
    <3> SUFFICES ASSUME NEW i \in Jobs, Nested(i)
                 PROVE  /\ status'[i] \in {"new", "queued", "cleared", "refused"}
                             => status'[Inner[i]] = "new"
                        /\ status'[Inner[i]] \in {"queued", "running", "settling"}
                             => status'[i] = "running"
      BY DEF OuterAwaitsInner
    <3>1. /\ i # j /\ Inner[i] \in Jobs /\ status'[j] = "settling"
          /\ \A k \in Jobs : k # j => status'[k] = status[k]
      BY <1>4 DEF StartThrows, Nested, TypeOK
    <3>2. CASE Inner[i] = j
      BY <2>1, <3>1, <3>2 DEF OuterAwaitsInner
    <3>3. CASE Inner[i] # j
      BY <3>1, <3>3 DEF OuterAwaitsInner
    <3> QED
      BY <3>2, <3>3
  <2>3. OneSettleFrame'
    <3>1. /\ stack' = <<Pump(l), SettleEntry(j, "failed")>> \o stack
          /\ stack \in Seq(Frames) /\ Len(stack) \in Nat
          /\ Pump(l) \in Frames /\ SettleEntry(j, "failed") \in Frames
      BY <1>4, FrameType DEF StartThrows, TypeOK
    <3>2. /\ Len(stack') = Len(stack) + 2
          /\ stack'[1] = Pump(l) /\ stack'[2] = SettleEntry(j, "failed")
          /\ \A i \in 1 .. Len(stack) : stack'[i + 2] = stack[i]
      BY <3>1, PushTwo
    <3>3. status'[j] = "settling" /\ \A i \in Jobs : status[i] = "settling" => status'[i] = "settling"
      BY <1>4, <2>1 DEF StartThrows, TypeOK
    <3>4. ASSUME NEW i \in DOMAIN stack', stack'[i].call = "settle"
          PROVE  \/ i = 2 /\ stack'[i].job = j
                 \/ /\ i - 2 \in DOMAIN stack /\ stack'[i] = stack[i - 2]
                    /\ stack'[i].job # j /\ status[stack'[i].job] = "settling"
      <4>1. CASE i = 2
        BY <3>2, <4>1
      <4>2. CASE i # 2
        <5>1. i # 1 /\ i \in 1 .. Len(stack) + 2
          BY <3>1, <3>2, <3>4
        <5>2. i - 2 \in 1 .. Len(stack) /\ (i - 2) + 2 = i
          BY <3>1, <4>2, <5>1
        <5>3. i - 2 \in DOMAIN stack /\ stack'[i] = stack[i - 2]
          BY <3>1, <3>2, <5>2
        <5> QED
          BY <2>1, <3>4, <5>3 DEF OneSettleFrame
      <4> QED
        BY <4>1, <4>2
    <3>5. ASSUME NEW i \in DOMAIN stack', NEW k \in DOMAIN stack',
                 stack'[i].call = "settle", stack'[k].call = "settle",
                 stack'[i].job = stack'[k].job
          PROVE  i = k
      <4>1. CASE stack'[i].job = j
        BY <3>4, <3>5, <4>1
      <4>2. CASE stack'[i].job # j
        <5>1. /\ i - 2 \in DOMAIN stack /\ stack'[i] = stack[i - 2]
              /\ k - 2 \in DOMAIN stack /\ stack'[k] = stack[k - 2]
          BY <3>4, <3>5, <4>2
        <5>2. i - 2 = k - 2
          BY <3>5, <5>1 DEF OneSettleFrame
        <5>3. i \in Int /\ k \in Int
          BY <3>1, <3>2, <3>5, <1>4
        <5> QED
          BY <5>2, <5>3
      <4> QED
        BY <4>1, <4>2
    <3>6. stack' \in Seq(Frames)
      BY DEF TypeOK
    <3>7. \A i \in DOMAIN stack' : stack'[i] \in Frames
      BY <3>6
    <3>8. \A i \in DOMAIN stack' : stack'[i].call = "settle" => status'[stack'[i].job] = "settling"
      BY <3>3, <3>4, <3>7, SettleFrameJob
    <3> QED
      BY <3>5, <3>8 DEF OneSettleFrame
  <2> QED
    BY <2>1, <2>2, <2>3
<1>5. ASSUME NEW l \in Lanes, NEW j \in Jobs, StartNested(l, j) PROVE JobsInv'
  <2> DEFINE x == Inner[j]
             st == [status EXCEPT ![j] = "running"]
  <2>1. Tidy(Shift(l), st) /\ Lane[j] = l /\ status[j] = "queued"
    <3>1. queue[l] # <<>> /\ j = Head(queue[l])
      BY <1>5 DEF StartNested, MayStart
    <3> QED
      BY <3>1, ShiftTidy
  <2>2. x \in Jobs /\ x # j /\ status[x] = "new"
    BY <1>5, <2>1 DEF StartNested, Nested, OuterAwaitsInner
  <2>3. QueuedOnce'
    <3>1. Shift(l) \in [Lanes -> Seq(Jobs)]
      BY <1>5 DEF Shift, StartNested, MayStart, TypeOK
    <3>2. st \in [Jobs -> Status] /\ st[x] # "queued"
      BY <2>2 DEF TypeOK, Status
    <3>3. Tidy([Shift(l) EXCEPT ![Lane[x]] = Push(@, x)], [st EXCEPT ![x] = "queued"])
      BY <2>1, <2>2, <3>1, <3>2, TidyPush
    <3>4. Tidy(queue', status')
      BY <1>5, <3>3 DEF StartNested
    <3> QED
      BY <3>4 DEF Tidy, QueuedOnce
  <2>4. OuterAwaitsInner'
    <3>1. /\ status'[j] = "running" /\ status'[x] = "queued"
          /\ \A i \in Jobs : i # j /\ i # x => status'[i] = status[i]
      BY <1>5, <2>2 DEF StartNested, TypeOK
    <3> SUFFICES ASSUME NEW i \in Jobs, Nested(i)
                 PROVE  /\ status'[i] \in {"new", "queued", "cleared", "refused"}
                             => status'[Inner[i]] = "new"
                        /\ status'[Inner[i]] \in {"queued", "running", "settling"}
                             => status'[i] = "running"
      BY DEF OuterAwaitsInner
    <3>2. Inner[i] \in Jobs /\ Inner[i] # i
      BY DEF Nested
    <3>3. CASE i = j
      BY <3>1, <3>3
    <3>4. CASE i # j
      <4>1. Inner[i] # x
        BY <2>2, <3>4 DEF Nested
      <4>2. CASE Inner[i] = j
        <5>1. status[i] = "running"
          BY <2>1, <4>2 DEF OuterAwaitsInner
        <5> QED
          BY <2>2, <3>1, <3>4, <5>1, <4>2
      <4>3. CASE Inner[i] # j
        <5>1. status'[Inner[i]] = status[Inner[i]]
          BY <3>1, <3>2, <4>1, <4>3
        <5>2. CASE i = x
          BY <2>2, <3>1, <5>1, <5>2 DEF OuterAwaitsInner
        <5>3. CASE i # x
          BY <3>1, <3>4, <5>1, <5>3 DEF OuterAwaitsInner
        <5> QED
          BY <5>2, <5>3
      <4> QED
        BY <4>2, <4>3
    <3> QED
      BY <3>3, <3>4
  <2>5. OneSettleFrame'
    <3>1. /\ stack' = <<DrainLane(Lane[x])>> \o stack /\ stack \in Seq(Frames)
          /\ Len(stack) \in Nat /\ DrainLane(Lane[x]) \in Frames /\ stack' \in Seq(Frames)
      BY <1>5, <2>2, FrameType DEF StartNested, TypeOK
    <3>2. /\ Len(stack') = Len(stack) + 1 /\ stack'[1] = DrainLane(Lane[x])
          /\ \A i \in 1 .. Len(stack) : stack'[i + 1] = stack[i]
      BY <3>1, PushOne
    <3>3. ASSUME NEW i \in DOMAIN stack', stack'[i].call = "settle"
          PROVE  i - 1 \in DOMAIN stack /\ stack'[i] = stack[i - 1]
      <4>1. i # 1 /\ i \in 1 .. Len(stack) + 1
        BY <3>1, <3>2, <3>3
      <4>2. i - 1 \in 1 .. Len(stack) /\ (i - 1) + 1 = i
        BY <3>1, <4>1
      <4> QED
        BY <3>1, <3>2, <4>2
    <3>4. \A i \in Jobs : status[i] = "settling" => status'[i] = "settling"
      BY <1>5, <2>1, <2>2 DEF StartNested, TypeOK
    <3>5. 1 \in Int /\ OneSettleFrame
      OBVIOUS
    <3> HIDE DEF JobsInv
    <3> QED
      BY <3>1, <3>3, <3>4, <3>5, SettleFramesKept
  <2> QED
    BY <2>3, <2>4, <2>5
<1>6. ASSUME NEW l \in Lanes, NEW j \in Jobs, StartNestedRefused(l, j) PROVE JobsInv'
  <2> DEFINE x == Inner[j]
             st == [status EXCEPT ![j] = "running"]
  <2>1. Tidy(queue', st) /\ Lane[j] = l /\ status[j] = "queued"
    <3>1. queue[l] # <<>> /\ j = Head(queue[l]) /\ queue' = Shift(l)
      BY <1>6 DEF StartNestedRefused, MayStart
    <3> QED
      BY <3>1, ShiftTidy
  <2>2. x \in Jobs /\ x # j /\ status[x] = "new"
    BY <1>6, <2>1 DEF StartNestedRefused, Nested, OuterAwaitsInner
  <2>3. /\ status'[j] = "running" /\ status'[x] = "refused"
        /\ \A i \in Jobs : i # j /\ i # x => status'[i] = status[i]
    BY <1>6, <2>2 DEF StartNestedRefused, TypeOK
  <2>4. QueuedOnce'
    <3>1. \A i \in Jobs : st[i] = "queued" => status'[i] = "queued"
      BY <2>2, <2>3 DEF TypeOK
    <3>2. \A m \in Lanes : \A i \in DOMAIN queue'[m] : queue'[m][i] \in Jobs
      BY DEF TypeOK
    <3> HIDE DEF st
    <3> QED
      BY <2>1, <3>1, <3>2 DEF Tidy, QueuedOnce
  <2>5. OuterAwaitsInner'
    <3> SUFFICES ASSUME NEW i \in Jobs, Nested(i)
                 PROVE  /\ status'[i] \in {"new", "queued", "cleared", "refused"}
                             => status'[Inner[i]] = "new"
                        /\ status'[Inner[i]] \in {"queued", "running", "settling"}
                             => status'[i] = "running"
      BY DEF OuterAwaitsInner
    <3>2. Inner[i] \in Jobs /\ Inner[i] # i
      BY DEF Nested
    <3>3. CASE i = j
      BY <2>3, <3>3
    <3>4. CASE i # j
      <4>1. Inner[i] # x
        BY <2>2, <3>4 DEF Nested
      <4>2. CASE Inner[i] = j
        <5>1. status[i] = "running"
          BY <2>1, <4>2 DEF OuterAwaitsInner
        <5> QED
          BY <2>2, <2>3, <3>4, <5>1, <4>2
      <4>3. CASE Inner[i] # j
        <5>1. status'[Inner[i]] = status[Inner[i]]
          BY <2>3, <3>2, <4>1, <4>3
        <5>2. CASE i = x
          BY <2>2, <2>3, <5>1, <5>2 DEF OuterAwaitsInner
        <5>3. CASE i # x
          BY <2>3, <3>4, <5>1, <5>3 DEF OuterAwaitsInner
        <5> QED
          BY <5>2, <5>3
      <4> QED
        BY <4>2, <4>3
    <3> QED
      BY <3>3, <3>4
  <2>6. OneSettleFrame'
    <3>1. stack' = stack /\ \A i \in Jobs : status[i] = "settling" => status'[i] = "settling"
      BY <1>6, <2>1, <2>2 DEF StartNestedRefused, TypeOK
    <3> QED
      BY <3>1, SettleFrameJob DEF OneSettleFrame, TypeOK
  <2> QED
    BY <2>4, <2>5, <2>6
<1>7. ASSUME NEW j \in Jobs, NEW r \in {"resolved", "failed"}, Settle(j, r) PROVE JobsInv'
  <2>1. /\ stack # <<>> /\ stack \in Seq(Frames) /\ Len(stack) \in Nat \ {0}
        /\ stack[1] = SettleEntry(j, r) /\ stack' = <<>> \o Tail(stack)
        /\ status' = [status EXCEPT ![j] = r] /\ queue' = queue
    BY <1>7 DEF Settle, Calling, Idle, Return, TypeOK
  <2>2. status[j] = "settling"
    BY <2>1 DEF OneSettleFrame
  <2>3. QueuedOnce'
    BY <2>1, <2>2, QueuedStay DEF TypeOK
  <2>4. OuterAwaitsInner'
    BY <2>1, <2>2 DEF OuterAwaitsInner, TypeOK, Nested
  <2>5. OneSettleFrame'
    <3>1. /\ Len(stack') = Len(stack) - 1
          /\ \A i \in 1 .. Len(stack) - 1 : stack'[i] = stack[i + 1]
      BY <2>1, PopTop
    <3>2. \A i \in DOMAIN stack' : i + 1 \in DOMAIN stack /\ stack'[i] = stack[i + 1] /\ i \in 1 .. Len(stack)
      BY <2>1, <3>1 DEF TypeOK
    <3>3. \A i \in DOMAIN stack' : stack'[i].call = "settle" => stack'[i].job # j
      BY <2>1, <3>2 DEF OneSettleFrame
    <3>4. \A i \in Jobs : i # j /\ status[i] = "settling" => status'[i] = "settling"
      BY <2>1 DEF TypeOK
    <3> QED
      BY <2>1, <3>2, <3>3, <3>4, SettleFrameJob DEF OneSettleFrame
  <2> QED
    BY <2>3, <2>4, <2>5
<1> QED
  BY <1>1, <1>2, <1>3, <1>4, <1>5, <1>6, <1>7 DEF StackStep, Start

-----------------------------------------------------------------------------
(* The slots: which tasks hold one, and how many of a session lane's do *)

SlotsInv == SlotsAreBusyTasks /\ StartedInThePast /\ SerialLanes

LEMMA SlotsKept ==
  ASSUME SlotsInv, TypeOK, active' = active, generation' = generation, startGen' = startGen, cap' = cap,
         \A j \in Jobs : status'[j] = "running" <=> status[j] = "running"
  PROVE  SlotsInv'
<1>1. \A l \in Lanes : active'[l] = {j \in Jobs : Lane[j] = l /\ Busy(j)'}
  BY DEF SlotsInv, SlotsAreBusyTasks, Busy, Current
<1>2. SlotsAreBusyTasks'
  BY <1>1 DEF SlotsAreBusyTasks, Busy, Current
<1> QED
  BY <1>2 DEF SlotsInv, StartedInThePast, SerialLanes

\* A lane with one slot that may start a task runs none.
LEMMA OneSlotFree ==
  ASSUME TypeOK, SerialLanes, NEW l \in Lanes \ Configurable, MayStart(l)
  PROVE  active[l] = {}
<1>1. IsFiniteSet(active[l])
  BY LaneQueueAssumption, FS_Subset DEF TypeOK
<1>2. Cardinality(active[l]) \in Nat /\ Cardinality(active[l]) < 1
  BY <1>1, FS_CardinalityType DEF SerialLanes, MayStart
<1>3. Cardinality(active[l]) = 0
  BY <1>2
<1> QED
  BY <1>1, <1>3, FS_EmptySet

\* A task that holds a slot once it is started.
LEMMA SlotTaken ==
  ASSUME TypeOK, TypeOK', SlotsInv, NEW l \in Lanes, NEW j \in Jobs,
         Lane[j] = l, MayStart(l), OccupySlot(l, j), status[j] # "running",
         cap' = cap, generation' = generation, status'[j] = "running",
         \A i \in Jobs : i # j => (status'[i] = "running" <=> status[i] = "running")
  PROVE  SlotsInv'
<1>1. /\ active' = [active EXCEPT ![l] = @ \cup {j}] /\ startGen' = [startGen EXCEPT ![j] = generation]
      /\ startGen'[j] = generation /\ \A i \in Jobs : i # j => startGen'[i] = startGen[i]
      /\ generation \in Nat /\ generation =< generation
  BY DEF OccupySlot, TypeOK
<1>2. ASSUME NEW m \in Lanes
      PROVE  active'[m] = {i \in Jobs : Lane[i] = m /\ status'[i] = "running" /\ startGen'[i] = generation}
  <2>1. active[m] = {i \in Jobs : Lane[i] = m /\ status[i] = "running" /\ startGen[i] = generation}
    BY DEF SlotsInv, SlotsAreBusyTasks, Busy, Current
  <2>2. CASE m = l
    <3>1. active'[m] = active[m] \cup {j}
      BY <1>1, <2>2 DEF TypeOK
    <3> QED
      BY <1>1, <2>1, <2>2, <3>1
  <2>3. CASE m # l
    <3>1. active'[m] = active[m]
      BY <1>1, <2>3 DEF TypeOK
    <3> QED
      BY <1>1, <2>1, <2>3, <3>1
  <2> QED
    BY <2>2, <2>3
<1>3. SlotsAreBusyTasks'
  BY <1>2 DEF SlotsAreBusyTasks, Busy, Current
<1>4. StartedInThePast'
  BY <1>1 DEF SlotsInv, StartedInThePast
<1>5. SerialLanes'
  <2>1. \A m \in Lanes \ Configurable : m # l => active'[m] = active[m]
    BY <1>1 DEF TypeOK
  <2>2. l \notin Configurable => active'[l] = {j}
    BY <1>1, OneSlotFree DEF SlotsInv, TypeOK
  <2> QED
    BY <2>1, <2>2 DEF SlotsInv, SerialLanes
<1> QED
  BY <1>3, <1>4, <1>5 DEF SlotsInv

LEMMA SlotsLoopStep ==
  ASSUME TypeOK, TypeOK', JobsInv, SlotsInv, LoopStep
  PROVE  SlotsInv'
<1> USE LaneQueueAssumption
<1>1. ASSUME NEW j \in TopLevel, Enqueue(j) \/ RefuseWhileDraining(j) PROVE SlotsInv'
  BY <1>1, SlotsKept DEF Enqueue, RefuseWhileDraining, TypeOK
<1>2. ASSUME NEW j \in Jobs, NEW r \in {"resolved", "failed"}, FinishCurrent(j, r) PROVE SlotsInv'
  <2>1. /\ active' = [active EXCEPT ![Lane[j]] = @ \ {j}]
        /\ status'[j] # "running" /\ \A i \in Jobs : i # j => status'[i] = status[i]
        /\ startGen' = startGen /\ generation' = generation /\ cap' = cap
    BY <1>2 DEF FinishCurrent, TypeOK
  <2>2. \A m \in Lanes : active'[m] = active[m] \ {j}
    BY <2>1 DEF SlotsInv, SlotsAreBusyTasks, TypeOK
  <2>3. SlotsAreBusyTasks'
    BY <2>1, <2>2 DEF SlotsInv, SlotsAreBusyTasks, Busy, Current
  <2> QED
    BY <2>1, <2>2, <2>3 DEF SlotsInv, StartedInThePast, SerialLanes
<1>3. ASSUME NEW j \in Jobs, NEW r \in {"resolved", "failed"}, FinishStale(j, r) PROVE SlotsInv'
  <2>1. /\ active' = active /\ ~Current(j)
        /\ status'[j] # "running" /\ \A i \in Jobs : i # j => status'[i] = status[i]
        /\ startGen' = startGen /\ generation' = generation /\ cap' = cap
    BY <1>3 DEF FinishStale, TypeOK
  <2>2. SlotsAreBusyTasks'
    BY <2>1 DEF SlotsInv, SlotsAreBusyTasks, Busy, Current
  <2> QED
    BY <2>1, <2>2 DEF SlotsInv, StartedInThePast, SerialLanes
<1>4. ASSUME NEW l \in Lanes, TimerFires(l) PROVE SlotsInv'
  BY <1>4, SlotsKept DEF TimerFires
<1>5. ASSUME NEW l \in Lanes, ClearLane(l) PROVE SlotsInv'
  <2>1. \A j \in InQueue(l) : j \in Jobs /\ status[j] = "queued"
    BY DEF InQueue, JobsInv, QueuedOnce, TypeOK
  <2> QED
    BY <1>5, <2>1, SlotsKept DEF ClearLane
<1>6. ASSUME NEW l \in Configurable, NEW n \in 0 .. MaxCap, SetConcurrency(l, n) PROVE SlotsInv'
  <2>1. /\ active' = active /\ status' = status /\ startGen' = startGen /\ generation' = generation
        /\ \A m \in Lanes \ Configurable : cap'[m] = cap[m]
    BY <1>6 DEF SetConcurrency, TypeOK
  <2>2. SlotsAreBusyTasks'
    BY <2>1 DEF SlotsInv, SlotsAreBusyTasks, Busy, Current
  <2> QED
    BY <2>1, <2>2 DEF SlotsInv, StartedInThePast, SerialLanes
<1>7. ASSUME MarkDraining PROVE SlotsInv'
  BY <1>7, SlotsKept DEF MarkDraining
<1>8. ASSUME ResetAllLanes PROVE SlotsInv'
  <2>1. /\ \A m \in Lanes : active'[m] = {}
        /\ generation' = generation + 1 /\ startGen' = startGen /\ cap' = cap
    BY <1>8 DEF ResetAllLanes, NextGeneration
  <2>2. \A j \in Jobs : startGen[j] \in Nat /\ startGen[j] =< generation /\ generation \in Nat
    BY DEF SlotsInv, StartedInThePast, TypeOK
  <2>3. \A j \in Jobs : startGen'[j] # generation' /\ startGen'[j] =< generation'
    BY <2>1, <2>2
  <2>4. SlotsAreBusyTasks'
    BY <2>1, <2>3 DEF SlotsAreBusyTasks, Busy, Current
  <2> QED
    BY <2>1, <2>3, <2>4 DEF SlotsInv, StartedInThePast, SerialLanes
<1> QED
  BY <1>1, <1>2, <1>3, <1>4, <1>5, <1>6, <1>7, <1>8, LaneQueueAssumption DEF LoopStep, Finish

LEMMA SlotsStackStep ==
  ASSUME TypeOK, TypeOK', JobsInv, SlotsInv, StackStep
  PROVE  SlotsInv'
<1> USE LaneQueueAssumption
<1>1. ASSUME NEW S \in SUBSET Lanes, DrainNextLane(S) PROVE SlotsInv'
  BY <1>1, SlotsKept DEF DrainNextLane
<1>2. ASSUME NEW l \in Lanes, DrainBlocked(l) \/ DrainBegin(l) \/ PumpExit(l) PROVE SlotsInv'
  BY <1>2, SlotsKept DEF DrainBlocked, DrainBegin, PumpExit
<1>3. ASSUME NEW l \in Lanes, MayStart(l), NEW j \in Jobs, j = Head(queue[l])
      PROVE  Lane[j] = l /\ status[j] = "queued"
  BY <1>3, ShiftTidy DEF MayStart, JobsInv
<1>4. ASSUME NEW l \in Lanes, NEW j \in Jobs, StartLeaf(l, j) PROVE SlotsInv'
  <2>1. /\ MayStart(l) /\ Lane[j] = l /\ status[j] = "queued" /\ OccupySlot(l, j)
        /\ cap' = cap /\ generation' = generation /\ status' = [status EXCEPT ![j] = "running"]
    BY <1>3, <1>4 DEF StartLeaf
  <2>2. status'[j] = "running" /\ \A i \in Jobs : i # j => status'[i] = status[i]
    BY <2>1 DEF TypeOK
  <2> QED
    BY <2>1, <2>2, SlotTaken
<1>5. ASSUME NEW l \in Lanes, NEW j \in Jobs, StartThrows(l, j) PROVE SlotsInv'
  <2>1. /\ Lane[j] = l /\ status[j] = "queued" /\ active' = active /\ cap' = cap
        /\ generation' = generation /\ status' = [status EXCEPT ![j] = "settling"]
        /\ startGen' = [startGen EXCEPT ![j] = generation]
    BY <1>3, <1>5 DEF StartThrows
  <2>2. /\ status'[j] # "running" /\ startGen'[j] = generation
        /\ \A i \in Jobs : i # j => status'[i] = status[i] /\ startGen'[i] = startGen[i]
        /\ generation \in Nat /\ generation =< generation
    BY <2>1 DEF TypeOK
  <2>3. SlotsAreBusyTasks'
    BY <2>1, <2>2 DEF SlotsInv, SlotsAreBusyTasks, Busy, Current
  <2>4. StartedInThePast'
    BY <2>1, <2>2 DEF SlotsInv, StartedInThePast
  <2> QED
    BY <2>1, <2>3, <2>4 DEF SlotsInv, SerialLanes
<1>6. ASSUME NEW l \in Lanes, NEW j \in Jobs, StartNested(l, j) \/ StartNestedRefused(l, j)
      PROVE  SlotsInv'
  <2>1. /\ MayStart(l) /\ Lane[j] = l /\ status[j] = "queued" /\ OccupySlot(l, j) /\ Nested(j)
        /\ cap' = cap /\ generation' = generation
        /\ \/ status' = [status EXCEPT ![j] = "running", ![Inner[j]] = "queued"]
           \/ status' = [status EXCEPT ![j] = "running", ![Inner[j]] = "refused"]
    BY <1>3, <1>6 DEF StartNested, StartNestedRefused
  <2>2. Inner[j] \in Jobs /\ Inner[j] # j /\ status[Inner[j]] = "new"
    BY <2>1 DEF JobsInv, OuterAwaitsInner, Nested
  <2>3. /\ status'[j] = "running" /\ status'[Inner[j]] # "running"
        /\ \A i \in Jobs : i # j /\ i # Inner[j] => status'[i] = status[i]
    BY <2>1, <2>2 DEF TypeOK
  <2>4. \A i \in Jobs : i # j => (status'[i] = "running" <=> status[i] = "running")
    BY <2>2, <2>3
  <2> QED
    BY <2>1, <2>3, <2>4, SlotTaken
<1>7. ASSUME NEW j \in Jobs, NEW r \in {"resolved", "failed"}, Settle(j, r) PROVE SlotsInv'
  <2>1. stack \in Seq(Frames) /\ stack # <<>> /\ stack[1] = SettleEntry(j, r)
    BY <1>7 DEF Settle, Calling, Idle, TypeOK
  <2>2. status[j] = "settling"
    BY <2>1, FrameFields DEF JobsInv, OneSettleFrame
  <2> QED
    BY <1>7, <2>2, SlotsKept DEF Settle, TypeOK
<1> QED
  BY <1>1, <1>2, <1>4, <1>5, <1>6, <1>7 DEF StackStep, Start

-----------------------------------------------------------------------------
(* The pumps: work that may start has a call on the stack that will start it *)

PumpInv == WorkIsPumped /\ DrainingIsPumping

LEMMA LowerAfterPop ==
  ASSUME NEW F, NEW s \in Seq(F), s # <<>>
  PROVE  \A i \in DOMAIN s : i # 1 =>
           \E k \in DOMAIN (<<>> \o Tail(s)) : (<<>> \o Tail(s))[k] = s[i]
<1> DEFINE t == <<>> \o Tail(s)
<1>1. t \in Seq(F) /\ Len(t) = Len(s) - 1 /\ \A i \in 1 .. Len(s) - 1 : t[i] = s[i + 1]
  BY PopTop
<1> HIDE DEF t
<1>2. DOMAIN s = 1 .. Len(s) /\ DOMAIN t = 1 .. Len(s) - 1 /\ Len(s) \in Nat
  BY <1>1
<1>3. ASSUME NEW i \in DOMAIN s, i # 1 PROVE \E k \in DOMAIN t : t[k] = s[i]
  <2>1. i \in 2 .. Len(s) /\ i - 1 \in DOMAIN t /\ i - 1 \in 1 .. Len(s) - 1 /\ (i - 1) + 1 = i
    BY <1>2, <1>3
  <2>2. t[i - 1] = s[i]
    BY <1>1, <2>1
  <2> QED
    BY <2>1, <2>2
<1> QED
  BY <1>3 DEF t

LEMMA LowerAfterReplace ==
  ASSUME NEW F, NEW s \in Seq(F), s # <<>>, NEW f \in F
  PROVE  \A i \in DOMAIN s : i # 1 =>
           \E k \in DOMAIN (<<f>> \o Tail(s)) : (<<f>> \o Tail(s))[k] = s[i]
<1> DEFINE t == <<f>> \o Tail(s)
<1>1. t \in Seq(F) /\ Len(t) = Len(s) /\ \A i \in 2 .. Len(s) : t[i] = s[i]
  BY ReplaceTop
<1> HIDE DEF t
<1>2. DOMAIN s = 1 .. Len(s) /\ DOMAIN t = 1 .. Len(s) /\ Len(s) \in Nat
  BY <1>1
<1>3. ASSUME NEW i \in DOMAIN s, i # 1 PROVE \E k \in DOMAIN t : t[k] = s[i]
  <2>1. i \in 2 .. Len(s) /\ i \in DOMAIN t
    BY <1>2, <1>3
  <2>2. t[i] = s[i]
    BY <1>1, <2>1
  <2> QED
    BY <2>1, <2>2
<1> QED
  BY <1>3 DEF t

LEMMA LowerAfterReplaceByTwo ==
  ASSUME NEW F, NEW s \in Seq(F), s # <<>>, NEW f \in F, NEW g \in F
  PROVE  \A i \in DOMAIN s : i # 1 =>
           \E k \in DOMAIN (<<f, g>> \o Tail(s)) : (<<f, g>> \o Tail(s))[k] = s[i]
<1> DEFINE t == <<f, g>> \o Tail(s)
<1>1. t \in Seq(F) /\ Len(t) = Len(s) + 1 /\ \A i \in 2 .. Len(s) : t[i + 1] = s[i]
  BY ReplaceTopByTwo
<1> HIDE DEF t
<1>2. DOMAIN s = 1 .. Len(s) /\ DOMAIN t = 1 .. Len(s) + 1 /\ Len(s) \in Nat
  BY <1>1
<1>3. ASSUME NEW i \in DOMAIN s, i # 1 PROVE \E k \in DOMAIN t : t[k] = s[i]
  <2>1. i \in 2 .. Len(s) /\ i + 1 \in DOMAIN t
    BY <1>2, <1>3
  <2>2. t[i + 1] = s[i]
    BY <1>1, <2>1
  <2> QED
    BY <2>1, <2>2
<1> QED
  BY <1>3 DEF t

LEMMA LowerFramesSurvive ==
  ASSUME TypeOK, stack # <<>>,
         \/ stack' = <<>> \o Tail(stack)
         \/ \E f \in Frames : stack' = <<f>> \o Tail(stack)
         \/ \E f, g \in Frames : stack' = <<f, g>> \o Tail(stack)
  PROVE  \A i \in DOMAIN stack : i # 1 => \E k \in DOMAIN stack' : stack'[k] = stack[i]
<1>0. stack \in Seq(Frames)
  BY DEF TypeOK
<1>1. CASE stack' = <<>> \o Tail(stack)
  BY <1>0, <1>1, LowerAfterPop
<1>2. ASSUME NEW f \in Frames, stack' = <<f>> \o Tail(stack)
      PROVE  \A i \in DOMAIN stack : i # 1 => \E k \in DOMAIN stack' : stack'[k] = stack[i]
  <2>1. \A i \in DOMAIN stack : i # 1 =>
          \E k \in DOMAIN (<<f>> \o Tail(stack)) : (<<f>> \o Tail(stack))[k] = stack[i]
    BY <1>0, LowerAfterReplace
  <2> QED
    BY <1>2, <2>1
<1>3. ASSUME NEW f \in Frames, NEW g \in Frames, stack' = <<f, g>> \o Tail(stack)
      PROVE  \A i \in DOMAIN stack : i # 1 => \E k \in DOMAIN stack' : stack'[k] = stack[i]
  <2>1. \A i \in DOMAIN stack : i # 1 =>
          \E k \in DOMAIN (<<f, g>> \o Tail(stack)) : (<<f, g>> \o Tail(stack))[k] = stack[i]
    BY <1>0, LowerAfterReplaceByTwo
  <2> QED
    BY <1>3, <2>1
<1> QED
  BY <1>1, <1>2, <1>3

LEMMA PumpLoopStep ==
  ASSUME TypeOK, TypeOK', PumpInv, LoopStep
  PROVE  PumpInv'
<1> USE LaneQueueAssumption, FrameFields
<1>0. Idle => \A m \in Lanes : ~MayStart(m) /\ ~draining[m]
  BY DEF Idle, PumpInv, WorkIsPumped, DrainingIsPumping
<1>1. ASSUME NEW l \in Lanes, NEW f, f \in {DrainLane(l), Pump(l)}, Idle, draining' = draining,
             1 \in DOMAIN stack', stack'[1] = f,
             \A m \in Lanes : m # l => (MayStart(m)' <=> MayStart(m))
      PROVE  PumpInv'
  BY <1>0, <1>1 DEF PumpInv, WorkIsPumped, DrainingIsPumping, Wakes
<1>2. ASSUME Idle, draining' = draining, \A m \in Lanes : MayStart(m)' => MayStart(m)
      PROVE  PumpInv'
  BY <1>0, <1>2 DEF PumpInv, WorkIsPumped, DrainingIsPumping
<1>3. ASSUME NEW j \in TopLevel, Enqueue(j) PROVE PumpInv'
  <2>1. /\ Lane[j] \in Lanes /\ Idle /\ draining' = draining /\ stack' = <<DrainLane(Lane[j])>>
        /\ \A m \in Lanes : m # Lane[j] => (MayStart(m)' <=> MayStart(m))
    BY <1>3 DEF TopLevel, Enqueue, MayStart, TypeOK
  <2> QED
    BY <1>1, <2>1
<1>4. ASSUME NEW j \in TopLevel, RefuseWhileDraining(j) PROVE PumpInv'
  BY <1>2, <1>4 DEF RefuseWhileDraining, MayStart
<1>5. ASSUME NEW j \in Jobs, NEW r \in {"resolved", "failed"}, FinishCurrent(j, r) PROVE PumpInv'
  <2>1. /\ Lane[j] \in Lanes /\ Idle /\ draining' = draining
        /\ stack' = <<Pump(Lane[j]), SettleEntry(j, r)>>
        /\ \A m \in Lanes : m # Lane[j] => (MayStart(m)' <=> MayStart(m))
    BY <1>5 DEF FinishCurrent, MayStart, TypeOK
  <2> QED
    BY <1>1, <2>1
<1>6. ASSUME NEW j \in Jobs, NEW r \in {"resolved", "failed"}, FinishStale(j, r) PROVE PumpInv'
  BY <1>2, <1>6 DEF FinishStale, MayStart
<1>7. ASSUME NEW l \in Lanes, TimerFires(l) PROVE PumpInv'
  <2>1. /\ Idle /\ draining' = draining /\ stack' = <<DrainLane(l)>>
        /\ \A m \in Lanes : MayStart(m)' <=> MayStart(m)
    BY <1>7 DEF TimerFires, MayStart
  <2> QED
    BY <1>1, <2>1
<1>8. ASSUME NEW l \in Lanes, ClearLane(l) PROVE PumpInv'
  BY <1>2, <1>8 DEF ClearLane, Splice, MayStart, TypeOK
<1>9. ASSUME NEW l \in Configurable, NEW n \in 0 .. MaxCap, SetConcurrency(l, n) PROVE PumpInv'
  <2>1. /\ l \in Lanes /\ Idle /\ draining' = draining /\ stack' = <<DrainLane(l)>>
        /\ \A m \in Lanes : m # l => (MayStart(m)' <=> MayStart(m))
    BY <1>9 DEF SetConcurrency, MayStart, TypeOK
  <2> QED
    BY <1>1, <2>1
<1>10. ASSUME MarkDraining PROVE PumpInv'
  BY <1>2, <1>10 DEF MarkDraining, MayStart
<1>11. ASSUME ResetAllLanes PROVE PumpInv'
  <2>1. stack' = <<DrainEach(LanesToDrain)>> /\ queue' = queue /\ \A m \in Lanes : ~draining'[m]
    BY <1>11 DEF ResetAllLanes
  <2>2. 1 \in DOMAIN stack' /\ stack'[1] = DrainEach(LanesToDrain)
    BY <2>1
  <2>3. \A m \in Lanes : MayStart(m)' => Wakes(stack'[1], m)
    BY <2>1, <2>2 DEF MayStart, Wakes, LanesToDrain
  <2> QED
    BY <2>1, <2>2, <2>3 DEF PumpInv, WorkIsPumped, DrainingIsPumping
<1> QED
  BY <1>3, <1>4, <1>5, <1>6, <1>7, <1>8, <1>9, <1>10, <1>11, LaneQueueAssumption DEF LoopStep, Finish

LEMMA PumpStackStep ==
  ASSUME TypeOK, TypeOK', JobsInv, PumpInv, StackStep
  PROVE  PumpInv'
<1> USE LaneQueueAssumption, FrameFields
<1>0. stack \in Seq(Frames) /\ stack' \in Seq(Frames)
  BY DEF TypeOK
<1>1. ASSUME NEW S \in SUBSET Lanes, DrainNextLane(S) PROVE PumpInv'
  <2>1. /\ stack # <<>> /\ stack[1] = DrainEach(S) /\ draining' = draining
        /\ \A m \in Lanes : MayStart(m)' <=> MayStart(m)
    BY <1>0, <1>1 DEF DrainNextLane, Calling, Idle, MayStart
  <2>2. \A i \in DOMAIN stack : i # 1 => \E k \in DOMAIN stack' : stack'[k] = stack[i]
    <3>1. \A l \in S : DrainLane(l) \in Frames /\ DrainEach(S \ {l}) \in Frames
      BY FrameType
    <3> QED
      BY <1>1, <2>1, <3>1, LowerFramesSurvive DEF DrainNextLane, Return
  <2>3. \A m \in Lanes : draining[m] => \E i \in DOMAIN stack : i # 1 /\ stack[i] = Pump(m)
    BY <2>1 DEF PumpInv, DrainingIsPumping
  <2>4. ASSUME NEW m \in S PROVE \E k \in DOMAIN stack' : Wakes(stack'[k], m)
    <3>1. PICK l \in S : stack' = <<DrainLane(l), DrainEach(S \ {l})>> \o Tail(stack)
      BY <1>1, <2>4 DEF DrainNextLane, Return
    <3>2. DrainLane(l) \in Frames /\ DrainEach(S \ {l}) \in Frames
      BY FrameType
    <3>3. /\ 1 \in DOMAIN stack' /\ 2 \in DOMAIN stack'
          /\ stack'[1] = DrainLane(l) /\ stack'[2] = DrainEach(S \ {l})
      BY <1>0, <2>1, <3>1, <3>2, ReplaceTopByTwo
    <3> QED
      BY <3>3 DEF Wakes
  <2>5. WorkIsPumped'
    BY <2>1, <2>2, <2>4 DEF PumpInv, WorkIsPumped, Wakes
  <2> QED
    BY <2>1, <2>2, <2>3, <2>5 DEF PumpInv, DrainingIsPumping
<1>2. ASSUME NEW l \in Lanes, DrainBlocked(l) PROVE PumpInv'
  <2>1. /\ stack # <<>> /\ stack[1] = DrainLane(l) /\ draining[l] /\ draining' = draining
        /\ stack' = <<>> \o Tail(stack) /\ \A m \in Lanes : MayStart(m)' <=> MayStart(m)
    BY <1>0, <1>2 DEF DrainBlocked, Calling, Idle, MayStart, Return
  <2>2. \A i \in DOMAIN stack : i # 1 => \E k \in DOMAIN stack' : stack'[k] = stack[i]
    BY <2>1, LowerFramesSurvive
  <2>3. \A m \in Lanes : draining[m] => \E i \in DOMAIN stack : i # 1 /\ stack[i] = Pump(m)
    BY <2>1 DEF PumpInv, DrainingIsPumping
  <2>4. \E k \in DOMAIN stack' : Wakes(stack'[k], l)
    BY <2>1, <2>2, <2>3 DEF Wakes
  <2>5. WorkIsPumped'
    BY <2>1, <2>2, <2>4 DEF PumpInv, WorkIsPumped, Wakes
  <2> QED
    BY <2>1, <2>2, <2>3, <2>5 DEF PumpInv, DrainingIsPumping
<1>3. ASSUME NEW l \in Lanes, DrainBegin(l) PROVE PumpInv'
  <2>1. /\ stack # <<>> /\ stack[1] = DrainLane(l) /\ \A m \in Lanes : m # l => draining'[m] = draining[m]
        /\ stack' = <<Pump(l)>> \o Tail(stack) /\ \A m \in Lanes : MayStart(m)' <=> MayStart(m)
    BY <1>0, <1>3 DEF DrainBegin, Calling, Idle, MayStart, Return, TypeOK
  <2>2. \A i \in DOMAIN stack : i # 1 => \E k \in DOMAIN stack' : stack'[k] = stack[i]
    BY <2>1, FrameType, LowerFramesSurvive
  <2>3. 1 \in DOMAIN stack' /\ stack'[1] = Pump(l)
    BY <1>0, <2>1, FrameType, ReplaceTop
  <2>4. \A m \in Lanes : draining[m] => \E i \in DOMAIN stack : i # 1 /\ stack[i] = Pump(m)
    BY <2>1 DEF PumpInv, DrainingIsPumping
  <2>5. WorkIsPumped'
    <3> SUFFICES ASSUME NEW m \in Lanes, MayStart(m)'
                 PROVE  \E k \in DOMAIN stack' : Wakes(stack'[k], m)
      BY DEF WorkIsPumped
    <3>1. PICK i \in DOMAIN stack : Wakes(stack[i], m)
      BY <2>1 DEF PumpInv, WorkIsPumped
    <3>2. CASE i = 1
      BY <2>1, <2>3, <3>1, <3>2 DEF Wakes
    <3>3. CASE i # 1
      BY <2>2, <3>1, <3>3
    <3> QED
      BY <3>2, <3>3
  <2>6. DrainingIsPumping'
    <3> SUFFICES ASSUME NEW m \in Lanes, draining'[m]
                 PROVE  \E k \in DOMAIN stack' : stack'[k] = Pump(m)
      BY DEF DrainingIsPumping
    <3>1. CASE m = l
      BY <2>3, <3>1
    <3>2. CASE m # l
      <4>1. PICK i \in DOMAIN stack : i # 1 /\ stack[i] = Pump(m)
        BY <2>1, <2>4, <3>2
      <4> QED
        BY <2>2, <4>1
    <3> QED
      BY <3>1, <3>2
  <2> QED
    BY <2>5, <2>6 DEF PumpInv
<1>4. ASSUME NEW l \in Lanes, PumpExit(l) PROVE PumpInv'
  <2>1. /\ stack # <<>> /\ stack[1] = Pump(l) /\ ~MayStart(l) /\ ~draining'[l]
        /\ \A m \in Lanes : m # l => draining'[m] = draining[m]
        /\ stack' = <<>> \o Tail(stack) /\ \A m \in Lanes : MayStart(m)' <=> MayStart(m)
    BY <1>0, <1>4 DEF PumpExit, StopDraining, Calling, Idle, MayStart, Return, TypeOK
  <2>2. \A i \in DOMAIN stack : i # 1 => \E k \in DOMAIN stack' : stack'[k] = stack[i]
    BY <2>1, LowerFramesSurvive
  <2>3. \A m \in Lanes : m # l /\ draining[m] => \E i \in DOMAIN stack : i # 1 /\ stack[i] = Pump(m)
    BY <2>1 DEF PumpInv, DrainingIsPumping
  <2>4. WorkIsPumped'
    <3> SUFFICES ASSUME NEW m \in Lanes, MayStart(m)'
                 PROVE  \E k \in DOMAIN stack' : Wakes(stack'[k], m)
      BY DEF WorkIsPumped
    <3>1. m # l /\ \E i \in DOMAIN stack : Wakes(stack[i], m)
      BY <2>1 DEF PumpInv, WorkIsPumped
    <3>2. PICK i \in DOMAIN stack : Wakes(stack[i], m)
      BY <3>1
    <3>3. i # 1
      BY <2>1, <3>1, <3>2 DEF Wakes
    <3> QED
      BY <2>2, <3>2, <3>3
  <2>5. DrainingIsPumping'
    <3> SUFFICES ASSUME NEW m \in Lanes, draining'[m]
                 PROVE  \E k \in DOMAIN stack' : stack'[k] = Pump(m)
      BY DEF DrainingIsPumping
    <3>1. m # l /\ draining[m]
      BY <2>1
    <3>2. PICK i \in DOMAIN stack : i # 1 /\ stack[i] = Pump(m)
      BY <2>3, <3>1
    <3> QED
      BY <2>2, <3>2
  <2> QED
    BY <2>4, <2>5 DEF PumpInv
<1>5. ASSUME NEW l \in Lanes, NEW j \in Jobs, Start(l, j) PROVE PumpInv'
  <2>1. /\ stack # <<>> /\ stack[1] = Pump(l) /\ draining' = draining
        /\ (Nested(j) => Inner[j] \in Jobs)
    BY <1>0, <1>5 DEF Start, StartLeaf, StartThrows, StartNested, StartNestedRefused, Calling, Idle, Nested
  <2>2. \A i \in DOMAIN stack : \E k \in DOMAIN stack' : stack'[k] = stack[i]
    <3>1. CASE stack' = stack
      BY <3>1
    <3>2. CASE StartThrows(l, j)
      <4>1. \A i \in 1 .. Len(stack) : i + 2 \in DOMAIN stack' /\ stack'[i + 2] = stack[i]
        BY <1>0, <3>2, FrameType, PushTwo DEF StartThrows
      <4> QED
        BY <1>0, <4>1
    <3>3. CASE StartNested(l, j)
      <4>1. \A i \in 1 .. Len(stack) : i + 1 \in DOMAIN stack' /\ stack'[i + 1] = stack[i]
        BY <1>0, <2>1, <3>3, FrameType, PushOne DEF StartNested
      <4> QED
        BY <1>0, <4>1
    <3>4. StartLeaf(l, j) \/ StartNestedRefused(l, j) => stack' = stack
      BY DEF StartLeaf, StartNestedRefused
    <3> QED
      BY <1>5, <3>1, <3>2, <3>3, <3>4 DEF Start
  <2>3. \E k \in DOMAIN stack' : Wakes(stack'[k], l)
    <3>1. 1 \in DOMAIN stack
      BY <1>0, <2>1
    <3>2. PICK k \in DOMAIN stack' : stack'[k] = Pump(l)
      BY <2>1, <2>2, <3>1
    <3>3. Wakes(Pump(l), l)
      BY DEF Wakes, Pump
    <3> QED
      BY <3>2, <3>3
  <2>4. ASSUME NEW m \in Lanes, m # l, MayStart(m)', ~MayStart(m)
        PROVE  \E k \in DOMAIN stack' : Wakes(stack'[k], m)
    <3>1. active'[m] = active[m] /\ cap'[m] = cap[m]
      BY <1>5, <2>4 DEF Start, StartLeaf, StartThrows, StartNested, StartNestedRefused, OccupySlot, TypeOK
    <3>2. queue'[m] # queue[m]
      BY <2>4, <3>1 DEF MayStart
    <3>3. StartNested(l, j) /\ m = Lane[Inner[j]]
      BY <1>5, <2>4, <3>2 DEF Start, StartLeaf, StartThrows, StartNested, StartNestedRefused, Shift, TypeOK
    <3>4. 1 \in DOMAIN stack' /\ stack'[1] = DrainLane(m)
      BY <1>0, <3>3, FrameType, PushOne DEF StartNested
    <3> QED
      BY <3>4 DEF Wakes
  <2>5. WorkIsPumped'
    BY <2>2, <2>3, <2>4 DEF PumpInv, WorkIsPumped, Wakes
  <2>6. DrainingIsPumping'
    BY <2>1, <2>2 DEF PumpInv, DrainingIsPumping
  <2> QED
    BY <2>5, <2>6 DEF PumpInv
<1>6. ASSUME NEW j \in Jobs, NEW r \in {"resolved", "failed"}, Settle(j, r) PROVE PumpInv'
  <2>1. /\ stack # <<>> /\ stack[1] = SettleEntry(j, r) /\ draining' = draining
        /\ stack' = <<>> \o Tail(stack) /\ \A m \in Lanes : MayStart(m)' <=> MayStart(m)
    BY <1>0, <1>6 DEF Settle, Calling, Idle, MayStart, Return
  <2>2. \A i \in DOMAIN stack : i # 1 => \E k \in DOMAIN stack' : stack'[k] = stack[i]
    BY <2>1, LowerFramesSurvive
  <2>3. WorkIsPumped'
    BY <2>1, <2>2 DEF PumpInv, WorkIsPumped, Wakes
  <2>4. DrainingIsPumping'
    BY <2>1, <2>2 DEF PumpInv, DrainingIsPumping
  <2> QED
    BY <2>3, <2>4 DEF PumpInv
<1> QED
  BY <1>1, <1>2, <1>3, <1>4, <1>5, <1>6 DEF StackStep

-----------------------------------------------------------------------------
(* The theorems *)

LEMMA InitInv == Init => IInv
<1> SUFFICES ASSUME Init PROVE IInv
  OBVIOUS
<1>1. TypeOK
  BY TypeInit
<1>2. QueuedOnce /\ OuterAwaitsInner /\ OneSettleFrame
  BY LaneQueueAssumption DEF Init, QueuedOnce, OuterAwaitsInner, OneSettleFrame, Nested
<1>3. SlotsAreBusyTasks /\ StartedInThePast /\ SerialLanes
  BY DEF Init, SlotsAreBusyTasks, Busy, StartedInThePast, SerialLanes
<1>4. WorkIsPumped /\ DrainingIsPumping
  BY DEF Init, WorkIsPumped, DrainingIsPumping, MayStart
<1> QED
  BY <1>1, <1>2, <1>3, <1>4 DEF IInv

LEMMA StepInv == IInv /\ [Next]_vars => IInv'
<1> SUFFICES ASSUME IInv, [Next]_vars PROVE IInv'
  OBVIOUS
<1>1. TypeOK /\ TypeOK' /\ JobsInv /\ SlotsInv /\ PumpInv
  BY TypeStep DEF IInv, JobsInv, SlotsInv, PumpInv
<1>2. CASE LoopStep
  BY <1>1, <1>2, JobsLoopStep, SlotsLoopStep, PumpLoopStep DEF IInv, JobsInv, SlotsInv, PumpInv
<1>3. CASE StackStep
  BY <1>1, <1>3, JobsStackStep, SlotsStackStep, PumpStackStep DEF IInv, JobsInv, SlotsInv, PumpInv
<1>4. CASE UNCHANGED vars
  <2> USE <1>4 DEF vars
  <2>1. (QueuedOnce /\ OuterAwaitsInner /\ OneSettleFrame)'
    BY <1>1 DEF JobsInv, QueuedOnce, OuterAwaitsInner, OneSettleFrame
  <2>2. (SlotsAreBusyTasks /\ StartedInThePast /\ SerialLanes)'
    BY <1>1, SlotsKept DEF SlotsInv
  <2>3. (WorkIsPumped /\ DrainingIsPumping)'
    BY <1>1 DEF PumpInv, WorkIsPumped, DrainingIsPumping, MayStart
  <2> QED
    BY <1>1, <2>1, <2>2, <2>3 DEF IInv
<1> QED
  BY <1>2, <1>3, <1>4 DEF Next

\* The invariant that carries the others (see its parts in LaneQueue).
THEOREM Invariance == Spec => []IInv
  BY InitInv, StepInv, PTL DEF Spec

\* Whenever the event loop regains control no entry waits beside a free slot:
\* re-entrant drains, limits that change and resets never strand queued work.
THEOREM NothingStranded == Spec => []NoIdleCapacity
<1>1. IInv => NoIdleCapacity
  BY DEF IInv, NoIdleCapacity, WorkIsPumped, Idle
<1> QED
  BY <1>1, Invariance, PTL

\* The draining flag of pump never outlives the call that set it.
THEOREM DrainingFlagReleased == Spec => []NoStuckDrain
<1>1. IInv => NoStuckDrain
  BY DEF IInv, NoStuckDrain, DrainingIsPumping, Idle
<1> QED
  BY <1>1, Invariance, PTL

\* Of the tasks of a serial lane that started in one generation one runs at most; a
\* reset keeps this of the generations before it, whose tasks it orphans.
SerialGenerations ==
  \A i, j \in Jobs :
    /\ Lane[i] = Lane[j] /\ Lane[i] \notin Configurable
    /\ startGen[i] = startGen[j]
    /\ status[i] = "running" /\ status[j] = "running"
    => i = j

\* A task that runs without being of the current generation was running before the step.
LEMMA OldRunsRan ==
  ASSUME TypeOK, [Next]_vars, NEW j \in Jobs, status'[j] = "running", startGen'[j] # generation'
  PROVE  status[j] = "running" /\ startGen'[j] = startGen[j]
<1> USE LaneQueueAssumption, FrameFields
<1>1. status \in [Jobs -> Status] /\ startGen \in [Jobs -> Nat]
  BY DEF TypeOK
<1>2. ASSUME NEW l \in Lanes, NEW i \in Jobs, Start(l, i)
      PROVE  status[j] = "running" /\ startGen'[j] = startGen[j]
  <2>1. generation' = generation /\ startGen' = [startGen EXCEPT ![i] = generation]
    BY <1>2 DEF Start, StartLeaf, StartThrows, StartNested, StartNestedRefused, OccupySlot
  <2>2. j # i /\ startGen'[j] = startGen[j]
    BY <1>1, <2>1
  <2>3. CASE StartLeaf(l, i) \/ StartThrows(l, i)
    BY <1>1, <2>2, <2>3 DEF StartLeaf, StartThrows
  <2>4. CASE StartNested(l, i) \/ StartNestedRefused(l, i)
    <3>1. Inner[i] \in Jobs
      BY <2>4 DEF StartNested, StartNestedRefused, Nested
    <3>2. status'[Inner[i]] # "running"
      BY <1>1, <2>4, <3>1 DEF StartNested, StartNestedRefused
    <3> QED
      BY <1>1, <2>2, <2>4, <3>1, <3>2 DEF StartNested, StartNestedRefused
  <2> QED
    BY <1>2, <2>2, <2>3, <2>4 DEF Start
<1>3. ASSUME NEW i \in Jobs, NEW r \in {"resolved", "failed"}, Settle(i, r)
      PROVE  status[j] = "running" /\ startGen'[j] = startGen[j]
  BY <1>1, <1>3 DEF Settle
<1>4. CASE UNCHANGED <<status, startGen>>
  BY <1>4
<1>5. ASSUME LoopStep PROVE status[j] = "running" /\ startGen'[j] = startGen[j]
  <2>1. startGen' = startGen
    BY <1>5 DEF LoopStep, Enqueue, RefuseWhileDraining, Finish, FinishCurrent, FinishStale,
                TimerFires, ClearLane, SetConcurrency, MarkDraining, ResetAllLanes
  <2>2. CASE status' = status
    BY <2>1, <2>2
  <2>3. CASE status' # status
    <3>1. \/ \E i \in TopLevel : Enqueue(i) \/ RefuseWhileDraining(i)
          \/ \E i \in Jobs : Finish(i)
          \/ \E l \in Clearable : ClearLane(l)
      BY <1>5, <2>3 DEF LoopStep, TimerFires, SetConcurrency, MarkDraining, ResetAllLanes
    <3> QED
      BY <1>1, <2>1, <3>1 DEF Enqueue, RefuseWhileDraining, Finish, FinishCurrent, FinishStale,
                              ClearLane, TopLevel
  <2> QED
    BY <2>2, <2>3
<1>6. ASSUME StackStep PROVE status[j] = "running" /\ startGen'[j] = startGen[j]
  <2>1. ASSUME NEW S \in SUBSET Lanes, DrainNextLane(S) PROVE UNCHANGED <<status, startGen>>
    BY <2>1 DEF DrainNextLane
  <2>2. ASSUME NEW l \in Lanes, DrainBlocked(l) \/ DrainBegin(l) \/ PumpExit(l)
        PROVE  UNCHANGED <<status, startGen>>
    BY <2>2 DEF DrainBlocked, DrainBegin, PumpExit
  <2> QED
    BY <1>2, <1>3, <1>4, <1>6, <2>1, <2>2 DEF StackStep
<1>7. CASE UNCHANGED vars
  BY <1>4, <1>7 DEF vars
<1> QED
  BY <1>5, <1>6, <1>7 DEF Next

LEMMA SerialGenerationsStep ==
  ASSUME IInv, IInv', SerialGenerations, [Next]_vars PROVE SerialGenerations'
<1> SUFFICES ASSUME NEW i \in Jobs, NEW j \in Jobs,
                    Lane[i] = Lane[j], Lane[i] \notin Configurable,
                    startGen'[i] = startGen'[j],
                    status'[i] = "running", status'[j] = "running"
             PROVE  i = j
  BY DEF SerialGenerations
<1>1. CASE startGen'[i] = generation'
  <2>1. Lane[i] \in Lanes /\ i \in active'[Lane[i]] /\ j \in active'[Lane[i]]
    BY <1>1, LaneQueueAssumption DEF IInv, SlotsAreBusyTasks, Busy, Current
  <2> QED
    BY <2>1 DEF IInv, SerialLanes
<1>2. CASE startGen'[i] # generation'
  <2>1. /\ status[i] = "running" /\ startGen'[i] = startGen[i]
        /\ status[j] = "running" /\ startGen'[j] = startGen[j]
    BY <1>2, OldRunsRan DEF IInv
  <2> QED
    BY <2>1 DEF SerialGenerations
<1> QED
  BY <1>1, <1>2

\* Of the runs of a session started in one generation one works at a time, for any
\* number of sessions and resets and any concurrency of the lanes the runs share.
THEOREM SessionExclusion == Spec => []OneRunPerSession
<1>1. Init => SerialGenerations
  BY DEF Init, SerialGenerations
<1>2. IInv /\ SerialGenerations => OneRunPerSession
  <2> SUFFICES ASSUME IInv, SerialGenerations, NEW i \in Jobs, NEW j \in Jobs,
                      Nested(i), Nested(j), Lane[i] = Lane[j], Lane[i] \notin Configurable,
                      startGen[i] = startGen[j],
                      status[Inner[i]] = "running", status[Inner[j]] = "running"
               PROVE  i = j
    BY DEF OneRunPerSession
  <2>1. status[i] = "running" /\ status[j] = "running"
    BY DEF IInv, OuterAwaitsInner
  <2> QED
    BY <2>1 DEF SerialGenerations
<1>3. IInv /\ IInv' /\ SerialGenerations /\ [Next]_vars => SerialGenerations'
  BY SerialGenerationsStep
<1> QED
  BY <1>1, <1>2, <1>3, Invariance, PTL DEF Spec

\* activeTaskIds holds the tasks of this generation that run, and nothing else.
THEOREM SlotAccounting == Spec => []SlotsAreBusyTasks
  BY Invariance, PTL DEF IInv

Started == {"running", "settling"}

LEMMA StartStep ==
  ASSUME TypeOK, JobsInv, [Next]_vars, NEW j \in Jobs,
         status'[j] \in Started, status[j] \notin Started
  PROVE  status[j] = "queued"
<1> USE LaneQueueAssumption, FrameFields
<1>1. ASSUME NEW i \in Jobs, NEW r \in {"resolved", "failed"}, Settle(i, r)
      PROVE  status'[j] = status[j] \/ status'[j] \notin Started
  BY <1>1 DEF Settle, TypeOK, Started
<1>2. ASSUME NEW l \in Lanes, NEW i \in Jobs, Start(l, i) PROVE status[j] = "queued"
  <2>1. MayStart(l) /\ i = Head(queue[l])
    BY <1>2 DEF Start, StartLeaf, StartThrows, StartNested, StartNestedRefused
  <2>2. status[i] = "queued"
    BY <2>1, ShiftTidy DEF MayStart, JobsInv
  <2>3. status \in [Jobs -> Status]
    BY DEF TypeOK
  <2>4. CASE StartLeaf(l, i) \/ StartThrows(l, i)
    BY <2>2, <2>3, <2>4 DEF StartLeaf, StartThrows, Started
  <2>5. CASE StartNested(l, i) \/ StartNestedRefused(l, i)
    <3>1. Inner[i] \in Jobs
      BY <2>5 DEF StartNested, StartNestedRefused, Nested
    <3>2. \A k \in Jobs : k # i /\ k # Inner[i] => status'[k] = status[k]
      BY <2>3, <2>5 DEF StartNested, StartNestedRefused
    <3>3. status'[Inner[i]] \notin Started
      BY <2>3, <2>5, <3>1 DEF StartNested, StartNestedRefused, Started
    <3> QED
      BY <2>2, <3>2, <3>3
  <2> QED
    BY <1>2, <2>4, <2>5 DEF Start
<1>3. ASSUME LoopStep PROVE FALSE
  <2>1. ASSUME NEW i \in TopLevel, Enqueue(i) \/ RefuseWhileDraining(i) PROVE FALSE
    BY <2>1 DEF Enqueue, RefuseWhileDraining, TopLevel, TypeOK, Started
  <2>2. ASSUME NEW i \in Jobs, Finish(i) PROVE FALSE
    BY <2>2 DEF Finish, FinishCurrent, FinishStale, TypeOK, Started
  <2>3. ASSUME NEW l \in Lanes, TimerFires(l) \/ ClearLane(l) PROVE FALSE
    BY <2>3 DEF TimerFires, ClearLane, Started
  <2>4. ASSUME NEW l \in Lanes, NEW n \in 0 .. MaxCap, SetConcurrency(l, n) PROVE FALSE
    BY <2>4 DEF SetConcurrency, Started
  <2>5. ~MarkDraining /\ ~ResetAllLanes
    BY DEF MarkDraining, ResetAllLanes, Started
  <2> QED
    BY <1>3, <2>1, <2>2, <2>3, <2>4, <2>5, LaneQueueAssumption DEF LoopStep
<1>4. ASSUME StackStep PROVE status[j] = "queued"
  <2>1. ASSUME NEW l \in Lanes, DrainBlocked(l) \/ DrainBegin(l) \/ PumpExit(l) PROVE FALSE
    BY <2>1 DEF DrainBlocked, DrainBegin, PumpExit, Started
  <2>2. ASSUME NEW S \in SUBSET Lanes, DrainNextLane(S) PROVE FALSE
    BY <2>2 DEF DrainNextLane, Started
  <2> QED
    BY <1>1, <1>2, <1>4, <2>1, <2>2 DEF StackStep, Started
<1>5. ~UNCHANGED vars
  BY DEF vars, Started
<1> QED
  BY <1>3, <1>4, <1>5 DEF Next

\* A task runs only off its lane's queue: none starts twice, and none starts
\* whose caller was told it was cleared or refused.
THEOREM StartsFromTheQueue == Spec => StartsOnlyFromQueue
<1>1. IInv /\ [Next]_vars =>
        [\A j \in Jobs :
           status'[j] \in {"running", "settling"} /\ status[j] \notin {"running", "settling"}
             => status[j] = "queued"]_vars
  BY StartStep DEF IInv, JobsInv, Started
<1> QED
  BY <1>1, Invariance, PTL DEF Spec, StartsOnlyFromQueue

-----------------------------------------------------------------------------
(* The queue implements the lane contract *)

Accepted == {j \in Jobs : status[j] \notin {"new", "refused"}}

LEMMA AcceptedKept ==
  ASSUME \A k \in Jobs : status'[k] \in {"new", "refused"} <=> status[k] \in {"new", "refused"}
  PROVE  Accepted' = Accepted
  BY DEF Accepted

LEMMA AcceptedGrows ==
  ASSUME NEW j \in Jobs, status'[j] \notin {"new", "refused"},
         \A k \in Jobs : k # j =>
           (status'[k] \in {"new", "refused"} <=> status[k] \in {"new", "refused"})
  PROVE  Accepted' = Accepted \cup {j}
  BY DEF Accepted

LEMMA SameSlotTest ==
  ASSUME NEW l \in Lanes
  PROVE  MayStart(l) <=> Contract!MayStart(l)
  BY DEF MayStart, Contract!MayStart, Cardinality, Contract!Cardinality

LEMMA ContractLoopStep ==
  ASSUME TypeOK, TypeOK', JobsInv, SlotsInv, LoopStep
  PROVE  Contract!Next \/ UNCHANGED Contract!vars
<1> USE LaneQueueAssumption
<1> USE DEF Contract!vars
<1>1. ASSUME NEW j \in TopLevel, Enqueue(j) PROVE Contract!Next
  <2>1. j \in Jobs /\ Lane[j] \in Lanes
    BY DEF TopLevel
  <2>2. Accepted' = Accepted \cup {j} /\ j \notin Accepted
    BY <1>1, <2>1 DEF Enqueue, Accepted, TypeOK
  <2>3. Contract!Submit(Lane[j], j)
    BY <1>1, <2>2 DEF Enqueue, Accepted, Push, Contract!Submit
  <2> QED
    BY <2>1, <2>3 DEF Contract!Next
<1>2. ASSUME NEW j \in TopLevel, RefuseWhileDraining(j) PROVE UNCHANGED Contract!vars
  <2>1. Accepted' = Accepted
    BY <1>2 DEF RefuseWhileDraining, Accepted, TypeOK, TopLevel
  <2> QED
    BY <1>2, <2>1 DEF RefuseWhileDraining, Accepted
<1>3. ASSUME NEW j \in Jobs, NEW r \in {"resolved", "failed"}, FinishCurrent(j, r) PROVE Contract!Next
  <2>1. Accepted' = Accepted
    BY <1>3 DEF FinishCurrent, Accepted, TypeOK
  <2>2. j \in active[Lane[j]] /\ Lane[j] \in Lanes
    BY <1>3 DEF FinishCurrent, SlotsInv, SlotsAreBusyTasks, Busy
  <2>3. Contract!Finish(Lane[j], j)
    BY <1>3, <2>1, <2>2 DEF FinishCurrent, Accepted, Contract!Finish
  <2> QED
    BY <2>2, <2>3 DEF Contract!Next
<1>4. ASSUME NEW j \in Jobs, NEW r \in {"resolved", "failed"}, FinishStale(j, r)
      PROVE  UNCHANGED Contract!vars
  <2>1. Accepted' = Accepted
    BY <1>4 DEF FinishStale, Accepted, TypeOK
  <2> QED
    BY <1>4, <2>1 DEF FinishStale, Accepted
<1>5. ASSUME NEW l \in Lanes, TimerFires(l) PROVE UNCHANGED Contract!vars
  BY <1>5 DEF TimerFires
<1>6. ASSUME NEW l \in Lanes, ClearLane(l) PROVE Contract!Next
  <2>1. \A j \in InQueue(l) : j \in Jobs /\ status[j] = "queued"
    BY DEF InQueue, JobsInv, QueuedOnce, TypeOK
  <2>2. Accepted' = Accepted
    BY <1>6, <2>1 DEF ClearLane, Accepted
  <2>3. Contract!Drop(l)
    BY <1>6, <2>2 DEF ClearLane, Splice, Accepted, Contract!Drop
  <2> QED
    BY <2>3 DEF Contract!Next
<1>7. ASSUME NEW l \in Configurable, NEW n \in 0 .. MaxCap, SetConcurrency(l, n) PROVE Contract!Next
  <2>1. l \in Lanes /\ cap'[l] \in Nat \ {0} /\ cap' = [cap EXCEPT ![l] = cap'[l]]
    BY <1>7 DEF SetConcurrency, TypeOK
  <2>2. Contract!SetLimit(l)
    BY <1>7, <2>1 DEF SetConcurrency, Contract!SetLimit
  <2> QED
    BY <2>1, <2>2 DEF Contract!Next
<1>8. ASSUME MarkDraining PROVE UNCHANGED Contract!vars
  BY <1>8 DEF MarkDraining
<1>9. ASSUME ResetAllLanes PROVE Contract!Next
  BY <1>9 DEF ResetAllLanes, Contract!Forget, Contract!Next
<1> QED
  BY <1>1, <1>2, <1>3, <1>4, <1>5, <1>6, <1>7, <1>8, <1>9, LaneQueueAssumption DEF LoopStep, Finish

LEMMA ContractStackStep ==
  ASSUME TypeOK, TypeOK', JobsInv, StackStep
  PROVE  Contract!Next \/ UNCHANGED Contract!vars
<1> USE LaneQueueAssumption
<1> USE DEF Contract!vars
<1>t. status \in [Jobs -> Status] /\ status' \in [Jobs -> Status] /\ active \in [Lanes -> SUBSET Jobs]
  BY DEF TypeOK
<1>0. ASSUME NEW l \in Lanes, MayStart(l), NEW j \in Jobs, j = Head(queue[l])
      PROVE  status[j] = "queued"
  BY <1>0, ShiftTidy DEF MayStart, JobsInv
<1>1. ASSUME NEW l \in Lanes, NEW j \in Jobs, StartLeaf(l, j) PROVE Contract!Next
  <2>1. MayStart(l) /\ j = Head(queue[l])
    BY <1>1 DEF StartLeaf
  <2>2. status[j] = "queued"
    BY <1>0, <2>1
  <2>3. status'[j] = "running" /\ \A k \in Jobs : k # j => status'[k] = status[k]
    BY <1>1, <1>t DEF StartLeaf
  <2>4. Accepted' = Accepted
    <3>1. \A k \in Jobs : status'[k] \in {"new", "refused"} <=> status[k] \in {"new", "refused"}
      BY <2>2, <2>3
    <3> QED
      BY <3>1, AcceptedKept
  <2>5. Contract!Start(l)
    BY <1>1, <2>1, <2>4, SameSlotTest DEF StartLeaf, Accepted, OccupySlot, Shift,
                            Contract!Start, Contract!TakeSlot
  <2> QED
    BY <2>5 DEF Contract!Next
<1>2. ASSUME NEW l \in Lanes, NEW j \in Jobs, StartThrows(l, j) PROVE Contract!Next
  <2>1. MayStart(l) /\ j = Head(queue[l])
    BY <1>2 DEF StartThrows
  <2>2. status[j] = "queued"
    BY <1>0, <2>1
  <2>3. status'[j] = "settling" /\ \A k \in Jobs : k # j => status'[k] = status[k]
    BY <1>2, <1>t DEF StartThrows
  <2>4. Accepted' = Accepted
    <3>1. \A k \in Jobs : status'[k] \in {"new", "refused"} <=> status[k] \in {"new", "refused"}
      BY <2>2, <2>3
    <3> QED
      BY <3>1, AcceptedKept
  <2>5. Contract!StartAndFail(l)
    BY <1>2, <2>1, <2>4, SameSlotTest DEF StartThrows, Accepted, Shift, Contract!StartAndFail
  <2> QED
    BY <2>5 DEF Contract!Next
<1>3. ASSUME NEW l \in Lanes, NEW j \in Jobs, StartNested(l, j) PROVE Contract!Next
  <2>1. MayStart(l) /\ j = Head(queue[l]) /\ Nested(j)
    BY <1>3 DEF StartNested
  <2>2. status[j] = "queued"
    BY <1>0, <2>1
  <2>3. Inner[j] \in Jobs /\ Inner[j] # j /\ status[Inner[j]] = "new" /\ Lane[Inner[j]] \in Lanes
    BY <2>1, <2>2 DEF Nested, JobsInv, OuterAwaitsInner
  <2>4. status'[j] = "running" /\ status'[Inner[j]] = "queued"
    BY <1>3, <1>t, <2>3 DEF StartNested
  <2>5. \A k \in Jobs : k # j /\ k # Inner[j] => status'[k] = status[k]
    BY <1>3, <1>t, <2>3 DEF StartNested
  <2>6. Inner[j] \notin Accepted
    BY <2>3 DEF Accepted
  <2>7. Accepted' = Accepted \cup {Inner[j]}
    <3>1. \A k \in Jobs : k # Inner[j] =>
            (status'[k] \in {"new", "refused"} <=> status[k] \in {"new", "refused"})
      BY <2>2, <2>4, <2>5
    <3> QED
      BY <2>3, <2>4, <3>1, AcceptedGrows
  <2>8. Contract!MayStart(l)
    BY <2>1, SameSlotTest
  <2>9. Contract!TakeSlot(l)
    BY <1>3, <2>1 DEF StartNested, OccupySlot, Contract!TakeSlot
  <2>10. /\ queue' = [[queue EXCEPT ![l] = Tail(@)] EXCEPT ![Lane[Inner[j]]] = Append(@, Inner[j])]
         /\ cap' = cap
    BY <1>3 DEF StartNested, Shift, Push
  <2>11. Contract!StartAndSubmit(l, Lane[Inner[j]], Inner[j])
    BY <2>6, <2>7, <2>8, <2>9, <2>10 DEF Accepted, Contract!StartAndSubmit
  <2> QED
    BY <2>3, <2>11 DEF Contract!Next
<1>4. ASSUME NEW l \in Lanes, NEW j \in Jobs, StartNestedRefused(l, j) PROVE Contract!Next
  <2>1. MayStart(l) /\ j = Head(queue[l]) /\ Nested(j)
    BY <1>4 DEF StartNestedRefused
  <2>2. status[j] = "queued"
    BY <1>0, <2>1
  <2>3. Inner[j] \in Jobs /\ Inner[j] # j /\ status[Inner[j]] = "new"
    BY <2>1, <2>2 DEF Nested, JobsInv, OuterAwaitsInner
  <2>4. status'[j] = "running" /\ status'[Inner[j]] = "refused"
    BY <1>4, <1>t, <2>3 DEF StartNestedRefused
  <2>5. \A k \in Jobs : k # j /\ k # Inner[j] => status'[k] = status[k]
    BY <1>4, <1>t, <2>3 DEF StartNestedRefused
  <2>6. Accepted' = Accepted
    <3>1. \A k \in Jobs : status'[k] \in {"new", "refused"} <=> status[k] \in {"new", "refused"}
      BY <2>2, <2>3, <2>4, <2>5
    <3> QED
      BY <3>1, AcceptedKept
  <2>7. Contract!Start(l)
    BY <1>4, <2>1, <2>6, SameSlotTest DEF StartNestedRefused, Accepted, OccupySlot, Shift,
                            Contract!Start, Contract!TakeSlot
  <2> QED
    BY <2>7 DEF Contract!Next
<1>5. ASSUME NEW j \in Jobs, NEW r \in {"resolved", "failed"}, Settle(j, r)
      PROVE  UNCHANGED Contract!vars
  <2>1. stack \in Seq(Frames) /\ stack # <<>> /\ stack[1] = SettleEntry(j, r)
    BY <1>5 DEF Settle, Calling, Idle, TypeOK
  <2>2. status[j] = "settling"
    BY <2>1, FrameFields DEF JobsInv, OneSettleFrame
  <2>3. Accepted' = Accepted
    BY <1>5, <2>2 DEF Settle, Accepted, TypeOK
  <2> QED
    BY <1>5, <2>3 DEF Settle, Accepted, Contract!vars
<1>6. ASSUME NEW l \in Lanes, DrainBlocked(l) \/ DrainBegin(l) \/ PumpExit(l)
      PROVE  UNCHANGED Contract!vars
  BY <1>6 DEF DrainBlocked, DrainBegin, PumpExit, Contract!vars
<1>7. ASSUME NEW S \in SUBSET Lanes, DrainNextLane(S) PROVE UNCHANGED Contract!vars
  BY <1>7 DEF DrainNextLane, Contract!vars
<1> QED
  BY <1>1, <1>2, <1>3, <1>4, <1>5, <1>6, <1>7 DEF StackStep, Start

\* Seen through its queues, slots and limits the command queue is a set of lanes
\* that serve what they accept in order, each job once, within the limit.
THEOREM ImplementsLaneContract == Spec => ImplementsContract
<1>1. Init => Contract!Init
  BY DEF Init, Contract!Init
<1>2. IInv /\ IInv' /\ [Next]_vars => [Contract!Next]_(Contract!vars)
  <2> SUFFICES ASSUME IInv, IInv', [Next]_vars PROVE Contract!Next \/ UNCHANGED Contract!vars
    OBVIOUS
  <2>1. TypeOK /\ TypeOK' /\ JobsInv /\ SlotsInv
    BY DEF IInv, JobsInv, SlotsInv
  <2>2. CASE UNCHANGED vars
    BY <2>2 DEF vars, Contract!vars
  <2> QED
    BY <2>1, <2>2, ContractLoopStep, ContractStackStep DEF Next
<1> QED
  BY <1>1, <1>2, Invariance, PTL DEF Spec, ImplementsContract, Contract!Spec
=============================================================================
