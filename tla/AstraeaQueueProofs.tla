------------------------- MODULE AstraeaQueueProofs -------------------------
(* The promises of the installed queue, for any lanes, jobs and limits. *)
EXTENDS AstraeaQueue, FiniteSetTheorems, TLAPS

-----------------------------------------------------------------------------
(* The MLFQ holds one job at most: a job that becomes ready is taken by the    *)
(* pump that follows before another one can become ready.                      *)

Nobody == [i \in Levels |-> <<>>]
Only(j) == [i \in Levels |-> IF i = Classify(128) THEN <<j>> ELSE <<>>]

NoneReady(lv, st) == lv = Nobody /\ \A j \in Jobs : st[j] # "ready"
OneReady(lv, st) == \E j \in Jobs : lv = Only(j) /\ \A i \in Jobs : st[i] = "ready" <=> i = j

AtMostOneReady == NoneReady(levels, status) \/ OneReady(levels, status)

\* What waits behind a lane's lock.
HeldBack(pd, lk, st) ==
  \A l \in Lanes :
    /\ \A i \in DOMAIN pd[l] : Lane[pd[l][i]] = l /\ st[pd[l][i]] = "pending"
    /\ \A i, k \in DOMAIN pd[l] : pd[l][i] = pd[l][k] => i = k
    /\ pd[l] # <<>> => l \in lk

LockOf(l, lk, st) ==
  /\ l \in lk <=> \E j \in Jobs : Lane[j] = l /\ st[j] \in {"ready", "running"}
  /\ \A i, j \in Jobs : Lane[i] = l /\ st[i] \in {"ready", "running"}
                          /\ Lane[j] = l /\ st[j] \in {"ready", "running"} => i = j

\* An inner job is new until its outer job runs.
OuterFirst ==
  \A j \in Jobs : Nested(j) /\ status[j] \in {"new", "pending", "ready", "refused"} =>
    status[Inner[j]] = "new"

JobsInv ==
  /\ AtMostOneReady
  /\ HeldBack(pending, locked, status)
  /\ \A l \in Lanes : LockOf(l, locked, status)
  /\ OuterFirst

-----------------------------------------------------------------------------
(* The slots *)

StartedInThePast ==
  \A j \in Jobs : status[j] = "running" => startGen[j] =< generation /\ runner[j] = Lane[j]

-----------------------------------------------------------------------------
(* The call stack *)

SettlesOnce ==
  /\ \A i \in DOMAIN stack : stack[i].call = "settle" => status[stack[i].job] = "settling"
  /\ \A i, k \in DOMAIN stack :
       stack[i].call = "settle" /\ stack[k].call = "settle" /\ stack[i].job = stack[k].job => i = k

\* The job in the MLFQ is about to be taken by the pump of its own lane.
Served ==
  \A j \in Jobs : status[j] = "ready" =>
    /\ stack # <<>>
    /\ stack[1] \in {DrainLane(Lane[j]), Pump(Lane[j])}
    /\ stack[1] = DrainLane(Lane[j]) /\ draining[Lane[j]] =>
         2 \in DOMAIN stack /\ stack[2] = Pump(Lane[j])

DrainingIsPumping ==
  \A l \in Lanes : draining[l] => \E i \in DOMAIN stack : stack[i] = Pump(l)

\* A lane whose pump other lanes' frames bury has started a job that is not done.
BuriedIsBusy ==
  \A l \in Lanes : draining[l] =>
    \/ \E j \in Jobs : Lane[j] = l /\ status[j] = "running"
    \/ \E i \in DOMAIN stack :
         /\ stack[i] = Pump(l)
         /\ \A k \in 1 .. i - 1 : stack[k].call = "settle" \/ stack[k].lane = l

StackInv == SettlesOnce /\ Served /\ DrainingIsPumping /\ BuriedIsBusy

IInv == TypeOK /\ JobsInv /\ SlotsAreBusyTasks /\ StartedInThePast /\ StackInv

-----------------------------------------------------------------------------
(* The MLFQ's operators on no job and on one *)

LEMMA LevelOfJobs == Classify(128) \in Levels
<1> DEFINE under == {i \in 0 .. Len(Thresholds) - 1 : Below(128, i)}
<1>1. 1 \in under /\ \A i \in under : 1 =< i
  BY DEF Thresholds, Below
<1>2. \A i \in under : (\A k \in under : i =< k) => i = 1
  BY <1>1
<1>3. Classify(128) = 1
  <2> HIDE DEF under
  <2>1. (CHOOSE i \in under : \A k \in under : i =< k) = 1
    BY <1>1, <1>2
  <2> QED
    BY <1>1, <2>1 DEF Classify, under
<1> QED
  BY <1>3 DEF Levels, Thresholds

LEMMA EmptyIsNobody ==
  /\ GloballyEmpty(Nobody)
  /\ \A j \in Jobs : ~GloballyEmpty(Only(j))
BY LevelOfJobs DEF GloballyEmpty, Nobody, Only

LEMMA ReadyAmongNobody ==
  ASSUME NEW j \in Jobs
  PROVE  Ready(Nobody, j) = Only(j)
<1>1. Tokens(j) = 128
  BY DEF Tokens, Est
<1> QED
  BY <1>1, LevelOfJobs DEF Ready, Put, Nobody, Only

LEMMA TakesTheOnlyOne ==
  ASSUME NEW j \in Jobs
  PROVE  NextJob(Only(j), Est) = j /\ TakeNext(Only(j), Est) = Nobody
<1> DEFINE c == Classify(128)
<1>1. Serving(Only(j)) = c
  <2>1. c \in Levels /\ Only(j)[c] # <<>> /\ \A k \in Levels : k < c => Only(j)[k] = <<>>
    BY LevelOfJobs DEF Only, Levels, Thresholds
  <2>2. \A i \in Levels : Only(j)[i] # <<>> => i = c
    BY DEF Only
  <2> HIDE DEF c
  <2> QED
    BY <2>1, <2>2 DEF Serving
<1>2. Only(j)[c] = <<j>>
  BY LevelOfJobs DEF Only
<1>3. HighestScoreIdx(<<j>>, Est) = 1
  <2>1. DOMAIN <<j>> = {1} /\ <<j>>[1] = j
    OBVIOUS
  <2>2. ~Outscores(Est[j], Est[j])
    BY DEF Outscores, Est, ComputeTime
  <2> QED
    BY <2>1, <2>2 DEF HighestScoreIdx
<1>4. RemoveAt(<<j>>, 1) = <<>>
  BY DEF RemoveAt
<1>5. NextJob(Only(j), Est) = j
  BY <1>1, <1>2, <1>3 DEF NextJob
<1>6. TakeNext(Only(j), Est) = [Only(j) EXCEPT ![c] = <<>>]
  BY <1>1, <1>2, <1>3, <1>4, LevelOfJobs DEF TakeNext
<1>7. [Only(j) EXCEPT ![c] = <<>>] = Nobody
  BY DEF Only, Nobody
<1> QED
  BY <1>5, <1>6, <1>7

LEMMA LevelsType ==
  /\ Nobody \in [Levels -> Seq(Jobs)]
  /\ \A j \in Jobs : Only(j) \in [Levels -> Seq(Jobs)]
BY DEF Nobody, Only

LEMMA BecomesReady ==
  ASSUME NEW j \in Jobs, NEW now \in [Jobs -> Status], NoneReady(Nobody, now)
  PROVE  OneReady(Ready(Nobody, j), [now EXCEPT ![j] = "ready"])
BY ReadyAmongNobody DEF OneReady, NoneReady

-----------------------------------------------------------------------------
(* dispatchToLane and releaseLane *)

LEMMA IsNotIdempotent == \A j \in Jobs : ~IsIdempotent(j)
BY DEF IsIdempotent, ToolName, IdempotentTools

LEMMA AppendFacts ==
  ASSUME NEW S, NEW s \in Seq(S), NEW x \in S
  PROVE  /\ Append(s, x) \in Seq(S)
         /\ Len(s) \in Nat
         /\ DOMAIN Append(s, x) = 1 .. Len(s) + 1 /\ DOMAIN s = 1 .. Len(s)
         /\ Append(s, x)[Len(s) + 1] = x /\ \A i \in 1 .. Len(s) : Append(s, x)[i] = s[i]
OBVIOUS

\* Holding a new job back behind the lock of its lane.
LEMMA HoldBack ==
  ASSUME TypeOK, NEW x \in Jobs, NEW now \in [Jobs -> Status], now[x] = "new",
         Lane[x] \in locked, HeldBack(pending, locked, now),
         NEW pd, pd = [pending EXCEPT ![Lane[x]] = Hold(@, x)]
  PROVE  /\ pd \in [Lanes -> Seq(Jobs)]
         /\ HeldBack(pd, locked, [now EXCEPT ![x] = "pending"])
<1> USE AstraeaQueueAssumption
<1> DEFINE l == Lane[x]
           n == Len(pending[l])
           after == [now EXCEPT ![x] = "pending"]
<1>1. /\ l \in Lanes /\ pending[l] \in Seq(Jobs) /\ n \in Nat
      /\ pd \in [Lanes -> Seq(Jobs)]
      /\ pd[l] = Append(pending[l], x)
      /\ \A m \in Lanes : m # l => pd[m] = pending[m]
  BY DEF TypeOK, Hold
<1>2. /\ DOMAIN pd[l] = 1 .. n + 1 /\ DOMAIN pending[l] = 1 .. n
      /\ pd[l][n + 1] = x /\ \A i \in 1 .. n : pd[l][i] = pending[l][i]
  BY <1>1, AppendFacts
<1>3. /\ after[x] = "pending" /\ \A j \in Jobs : now[j] = "pending" => after[j] = "pending"
      /\ \A m \in Lanes : \A i \in DOMAIN pending[m] :
           pending[m][i] \in Jobs /\ pending[m][i] # x /\ now[pending[m][i]] = "pending"
  BY DEF HeldBack, TypeOK
<1>4. \A i \in DOMAIN pd[l] :
        (i = n + 1 /\ pd[l][i] = x) \/ (i \in DOMAIN pending[l] /\ pd[l][i] = pending[l][i])
  BY <1>1, <1>2
<1> HIDE DEF n, after
<1>5. ASSUME NEW i \in DOMAIN pd[l] PROVE Lane[pd[l][i]] = l /\ after[pd[l][i]] = "pending"
  BY <1>1, <1>3, <1>4 DEF HeldBack
<1>6. ASSUME NEW i \in DOMAIN pd[l], NEW k \in DOMAIN pd[l], pd[l][i] = pd[l][k] PROVE i = k
  <2>1. CASE pd[l][i] = x
    <3>1. \A a \in DOMAIN pd[l] : pd[l][a] = x => a = n + 1
      BY <1>1, <1>3, <1>4
    <3> QED
      BY <1>6, <2>1, <3>1
  <2>2. CASE pd[l][i] # x
    BY <1>1, <1>4, <1>6, <2>2 DEF HeldBack
  <2> QED
    BY <2>1, <2>2
<1>7. ASSUME NEW m \in Lanes, m # l
      PROVE  /\ \A i \in DOMAIN pd[m] : Lane[pd[m][i]] = m /\ after[pd[m][i]] = "pending"
             /\ \A i, k \in DOMAIN pd[m] : pd[m][i] = pd[m][k] => i = k
             /\ pd[m] # <<>> => m \in locked
  BY <1>1, <1>3, <1>7 DEF HeldBack
<1> QED
  BY <1>1, <1>5, <1>6, <1>7 DEF HeldBack, after

\* Taking the oldest job held back behind a lock.
LEMMA TakeHeldBack ==
  ASSUME TypeOK, NEW l \in Lanes, NEW now \in [Jobs -> Status], pending[l] # <<>>,
         HeldBack(pending, locked, now),
         NEW pd, pd = [pending EXCEPT ![l] = Tail(@)]
  PROVE  /\ pd \in [Lanes -> Seq(Jobs)]
         /\ Head(pending[l]) \in Jobs
         /\ Lane[Head(pending[l])] = l /\ now[Head(pending[l])] = "pending"
         /\ l \in locked
         /\ HeldBack(pd, locked, [now EXCEPT ![Head(pending[l])] = "ready"])
<1> DEFINE j == Head(pending[l])
           after == [now EXCEPT ![j] = "ready"]
<1>1. /\ pending[l] \in Seq(Jobs) /\ Len(pending[l]) \in Nat \ {0} /\ j = pending[l][1]
      /\ 1 \in DOMAIN pending[l] /\ pd \in [Lanes -> Seq(Jobs)] /\ pd[l] = Tail(pending[l])
      /\ \A m \in Lanes : m # l => pd[m] = pending[m]
  BY DEF TypeOK
<1>2. j \in Jobs /\ Lane[j] = l /\ now[j] = "pending" /\ l \in locked
  BY <1>1 DEF HeldBack
<1>3. \A i \in DOMAIN pd[l] :
        i + 1 \in DOMAIN pending[l] /\ pd[l][i] = pending[l][i + 1] /\ i \in Nat /\ i # 0
  BY <1>1
<1>4. \A m \in Lanes : \A i \in DOMAIN pending[m] : pending[m][i] \in Jobs
  BY DEF TypeOK
<1>5. \A i \in Jobs : i # j => after[i] = now[i]
  BY <1>2
<1> HIDE DEF j, after
<1>6. ASSUME NEW m \in Lanes, NEW i \in DOMAIN pd[m]
      PROVE  Lane[pd[m][i]] = m /\ after[pd[m][i]] = "pending"
  <2>1. CASE m = l
    <3>1. pd[m][i] # j
      BY <1>1, <1>3, <2>1 DEF HeldBack
    <3> QED
      BY <1>3, <1>4, <1>5, <2>1, <3>1 DEF HeldBack
  <2>2. CASE m # l
    BY <1>1, <1>2, <1>4, <1>5, <2>2 DEF HeldBack
  <2> QED
    BY <2>1, <2>2
<1>7. ASSUME NEW m \in Lanes, NEW i \in DOMAIN pd[m], NEW k \in DOMAIN pd[m], pd[m][i] = pd[m][k]
      PROVE  i = k
  <2>1. CASE m = l
    <3>1. i + 1 = k + 1
      BY <1>3, <1>7, <2>1 DEF HeldBack
    <3> QED
      BY <1>3, <2>1, <3>1
  <2>2. CASE m # l
    BY <1>1, <1>7, <2>2 DEF HeldBack
  <2> QED
    BY <2>1, <2>2
<1>8. \A m \in Lanes : pd[m] # <<>> => m \in locked
  BY <1>1, <1>2 DEF HeldBack
<1>9. HeldBack(pd, locked, after)
  BY <1>6, <1>7, <1>8 DEF HeldBack
<1> QED
  BY <1>1, <1>2, <1>9 DEF j, after

\* What both calls leave: jobs in order, and a lock for whoever is ready or runs.
Tidy(lv, lk, pd, st) ==
  /\ lv \in [Levels -> Seq(Jobs)] /\ lk \subseteq Lanes
  /\ pd \in [Lanes -> Seq(Jobs)] /\ st \in [Jobs -> Status]
  /\ NoneReady(lv, st) \/ OneReady(lv, st)
  /\ HeldBack(pd, lk, st)
  /\ \A l \in Lanes : LockOf(l, lk, st)

LEMMA DispatchFacts ==
  ASSUME TypeOK, NEW x \in Jobs, NEW now \in [Jobs -> Status], now[x] = "new",
         NoneReady(Nobody, now), HeldBack(pending, locked, now),
         \A l \in Lanes : LockOf(l, locked, now),
         Dispatch(x, Nobody, now)
  PROVE  /\ Tidy(levels', locked', pending', status')
         /\ \A j \in Jobs : j # x => status'[j] = now[j]
         /\ status'[x] \in {"pending", "ready"}
         /\ status'[x] = "ready" => Lane[x] \notin locked /\ pending' = pending
         /\ status'[x] = "pending" =>
              /\ NoneReady(levels', status')
              /\ pending' = [pending EXCEPT ![Lane[x]] = Hold(@, x)]
<1> USE AstraeaQueueAssumption
<1>0. locked \subseteq Lanes /\ pending \in [Lanes -> Seq(Jobs)]
  BY DEF TypeOK
<1>1. CASE Lane[x] \in locked
  <2>1. /\ pending' = [pending EXCEPT ![Lane[x]] = Hold(@, x)] /\ levels' = Nobody
        /\ status' = [now EXCEPT ![x] = "pending"] /\ locked' = locked
    BY <1>1, IsNotIdempotent DEF Dispatch, IsLocked
  <2>2. pending' \in [Lanes -> Seq(Jobs)] /\ HeldBack(pending', locked', status')
    BY <1>1, <2>1, HoldBack
  <2>3. /\ status' \in [Jobs -> Status] /\ status'[x] = "pending"
        /\ \A j \in Jobs : j # x => status'[j] = now[j]
    BY <2>1 DEF Status
  <2>4. NoneReady(levels', status')
    BY <2>1, <2>3 DEF NoneReady
  <2>5. \A l \in Lanes : LockOf(l, locked', status')
    BY <2>1, <2>3 DEF LockOf
  <2> QED
    BY <1>0, <2>1, <2>2, <2>3, <2>4, <2>5, LevelsType DEF Tidy
<1>2. CASE Lane[x] \notin locked
  <2>1. /\ pending' = pending /\ levels' = Ready(Nobody, x)
        /\ status' = [now EXCEPT ![x] = "ready"] /\ locked' = locked \cup {Lane[x]}
    BY <1>2, IsNotIdempotent DEF Dispatch, IsLocked
  <2>2. OneReady(levels', status') /\ levels' \in [Levels -> Seq(Jobs)]
    <3>1. OneReady(Ready(Nobody, x), [now EXCEPT ![x] = "ready"])
      BY BecomesReady
    <3>2. levels' = Only(x)
      BY <2>1, ReadyAmongNobody
    <3> QED
      BY <2>1, <3>1, <3>2, LevelsType
  <2>3. /\ status' \in [Jobs -> Status] /\ status'[x] = "ready"
        /\ \A j \in Jobs : j # x => status'[j] = now[j]
    BY <2>1 DEF Status
  <2>4. HeldBack(pending', locked', status')
    BY <2>1, <2>3 DEF HeldBack, TypeOK
  <2>5. ASSUME NEW l \in Lanes PROVE LockOf(l, locked', status')
    <3>1. CASE l = Lane[x]
      BY <1>2, <2>1, <2>3, <3>1 DEF LockOf
    <3>2. CASE l # Lane[x]
      BY <2>1, <2>3, <3>2 DEF LockOf
    <3> QED
      BY <3>1, <3>2
  <2>6. Tidy(levels', locked', pending', status')
    <3>1. locked' \subseteq Lanes /\ pending' \in [Lanes -> Seq(Jobs)]
      BY <1>0, <2>1
    <3> QED
      BY <2>2, <2>3, <2>4, <2>5, <3>1 DEF Tidy
  <2> QED
    BY <1>2, <2>1, <2>3, <2>6
<1> QED
  BY <1>1, <1>2

LEMMA ReleaseFacts ==
  ASSUME TypeOK, NEW l \in Lanes, NEW now \in [Jobs -> Status], l \in locked,
         NoneReady(Nobody, now), HeldBack(pending, locked, now),
         \A m \in Lanes : m # l => LockOf(m, locked, now),
         \A j \in Jobs : Lane[j] = l => now[j] # "running",
         Release(l, Nobody, now)
  PROVE  /\ Tidy(levels', locked', pending', status')
         /\ \A j \in Jobs :
              \/ status'[j] = now[j]
              \/ now[j] = "pending" /\ status'[j] = "ready" /\ Lane[j] = l
         /\ \/ pending' = pending /\ pending[l] = <<>> /\ NoneReady(levels', status')
            \/ /\ pending[l] # <<>> /\ pending' = [pending EXCEPT ![l] = Tail(@)]
               /\ status'[Head(pending[l])] = "ready"
<1> USE AstraeaQueueAssumption
<1>0. locked \subseteq Lanes /\ pending \in [Lanes -> Seq(Jobs)]
  BY DEF TypeOK
<1>1. CASE pending[l] = <<>>
  <2>1. locked' = locked \ {l} /\ status' = now /\ levels' = Nobody /\ pending' = pending
    BY <1>1 DEF Release, Unlocked
  <2>2. HeldBack(pending', locked', status')
    BY <1>1, <2>1 DEF HeldBack
  <2>3. ASSUME NEW m \in Lanes PROVE LockOf(m, locked', status')
    <3>1. CASE m = l
      BY <2>1, <3>1 DEF LockOf, NoneReady
    <3>2. CASE m # l
      BY <2>1, <3>2 DEF LockOf
    <3> QED
      BY <3>1, <3>2
  <2>4. NoneReady(levels', status') /\ Tidy(levels', locked', pending', status')
    <3>1. NoneReady(levels', status') /\ levels' \in [Levels -> Seq(Jobs)]
      BY <2>1, LevelsType
    <3>2. locked' \subseteq Lanes /\ pending' \in [Lanes -> Seq(Jobs)] /\ status' \in [Jobs -> Status]
      BY <1>0, <2>1
    <3> QED
      BY <2>2, <2>3, <3>1, <3>2 DEF Tidy
  <2> QED
    BY <1>1, <2>1, <2>4
<1>2. CASE pending[l] # <<>>
  <2> DEFINE x == Head(pending[l])
  <2>1. /\ pending' = [pending EXCEPT ![l] = Tail(@)] /\ locked' = locked
        /\ status' = [now EXCEPT ![x] = "ready"] /\ levels' = Ready(Nobody, x)
    BY <1>2 DEF Release, Relocked
  <2>2. /\ pending' \in [Lanes -> Seq(Jobs)] /\ x \in Jobs /\ Lane[x] = l /\ now[x] = "pending"
        /\ HeldBack(pending', locked', status')
    BY <1>2, <2>1, TakeHeldBack
  <2> HIDE DEF x
  <2>3. OneReady(levels', status') /\ levels' \in [Levels -> Seq(Jobs)]
    <3>1. OneReady(Ready(Nobody, x), [now EXCEPT ![x] = "ready"])
      BY <2>2, BecomesReady
    <3>2. levels' = Only(x)
      BY <2>1, <2>2, ReadyAmongNobody
    <3> QED
      BY <2>1, <2>2, <3>1, <3>2, LevelsType
  <2>4. /\ status' \in [Jobs -> Status] /\ status'[x] = "ready"
        /\ \A j \in Jobs : j # x => status'[j] = now[j]
    BY <2>1, <2>2 DEF Status
  <2>5. ASSUME NEW m \in Lanes PROVE LockOf(m, locked', status')
    <3>1. CASE m = l
      BY <2>1, <2>2, <2>4, <3>1 DEF LockOf, NoneReady
    <3>2. CASE m # l
      BY <2>1, <2>2, <2>4, <3>2 DEF LockOf
    <3> QED
      BY <3>1, <3>2
  <2>6. Tidy(levels', locked', pending', status')
    <3>1. locked' \subseteq Lanes
      BY <1>0, <2>1
    <3> QED
      BY <2>2, <2>3, <2>4, <2>5, <3>1 DEF Tidy
  <2> QED
    BY <1>2, <2>1, <2>2, <2>4, <2>6 DEF x
<1> QED
  BY <1>1, <1>2

-----------------------------------------------------------------------------
(* Frames and stacks *)

LEMMA FrameType ==
  /\ \A l \in Lanes : DrainLane(l) \in Frames /\ Pump(l) \in Frames
  /\ \A j \in Jobs, r \in {"resolved", "failed"} : SettleEntry(j, r) \in Frames
  /\ \A f \in Frames : /\ f.call \in {"drainLane", "pump", "settle"}
                       /\ f.call = "settle" => f.job \in Jobs
BY DEF Frames, DrainLane, Pump, SettleEntry

LEMMA FrameFields ==
  /\ \A l : /\ DrainLane(l).call = "drainLane" /\ DrainLane(l).lane = l
            /\ Pump(l).call = "pump" /\ Pump(l).lane = l
  /\ \A j, r : SettleEntry(j, r).call = "settle" /\ SettleEntry(j, r).job = j
BY DEF DrainLane, Pump, SettleEntry

LEMMA Popped ==
  ASSUME NEW F, NEW s \in Seq(F), s # <<>>
  PROVE  /\ Tail(s) \in Seq(F)
         /\ Len(Tail(s)) = Len(s) - 1
         /\ \A i \in 1 .. Len(s) - 1 : Tail(s)[i] = s[i + 1]
OBVIOUS

LEMMA Replaced ==
  ASSUME NEW F, NEW s \in Seq(F), s # <<>>, NEW f \in F
  PROVE  /\ <<f>> \o Tail(s) \in Seq(F)
         /\ Len(<<f>> \o Tail(s)) = Len(s)
         /\ (<<f>> \o Tail(s))[1] = f
         /\ \A i \in 2 .. Len(s) : (<<f>> \o Tail(s))[i] = s[i]
OBVIOUS

LEMMA PushedOne ==
  ASSUME NEW F, NEW s \in Seq(F), NEW f \in F
  PROVE  /\ <<f>> \o s \in Seq(F)
         /\ Len(<<f>> \o s) = Len(s) + 1
         /\ (<<f>> \o s)[1] = f
         /\ \A i \in 1 .. Len(s) : (<<f>> \o s)[i + 1] = s[i]
OBVIOUS

LEMMA PushedThree ==
  ASSUME NEW F, NEW s \in Seq(F), NEW f \in F, NEW g \in F, NEW h \in F,
         NEW t, t = <<f>> \o <<g, h>> \o s
  PROVE  /\ t \in Seq(F)
         /\ Len(t) = Len(s) + 3
         /\ t[1] = f /\ t[2] = g /\ t[3] = h
         /\ \A i \in 1 .. Len(s) : t[i + 3] = s[i]
<1>1. t = <<f, g, h>> \o s
  OBVIOUS
<1>2. <<f, g, h>> \in Seq(F) /\ Len(<<f, g, h>>) = 3
  OBVIOUS
<1> QED
  BY <1>1, <1>2

\* The frames that settle come and go with the others above and below them.
LEMMA SettlesKept ==
  ASSUME SettlesOnce, stack \in Seq(Frames), stack' \in Seq(Frames),
         \A j \in Jobs : status[j] = "settling" => status'[j] = "settling",
         NEW d \in Int,
         \A i \in DOMAIN stack' : stack'[i].call = "settle" =>
           i - d \in DOMAIN stack /\ stack'[i] = stack[i - d]
  PROVE  SettlesOnce'
<1>1. \A i \in DOMAIN stack' : stack'[i].call = "settle" => status'[stack'[i].job] = "settling"
  BY FrameType DEF SettlesOnce
<1>2. ASSUME NEW i \in DOMAIN stack', NEW k \in DOMAIN stack',
             stack'[i].call = "settle", stack'[k].call = "settle", stack'[i].job = stack'[k].job
      PROVE  i = k
  <2>1. i - d = k - d
    BY <1>2 DEF SettlesOnce
  <2> QED
    BY <2>1
<1> QED
  BY <1>1, <1>2 DEF SettlesOnce

\* With an empty stack nothing is ready and no lane drains.
LEMMA WhenIdle ==
  ASSUME TypeOK, JobsInv, StackInv, Idle
  PROVE  /\ NoneReady(Nobody, status) /\ levels = Nobody
         /\ \A l \in Lanes : ~draining[l]
<1>1. \A j \in Jobs : status[j] # "ready"
  BY DEF StackInv, Served, Idle
<1>2. NoneReady(levels, status)
  BY <1>1 DEF JobsInv, AtMostOneReady, OneReady
<1>3. \A l \in Lanes : ~draining[l]
  BY DEF StackInv, DrainingIsPumping, Idle
<1> QED
  BY <1>2, <1>3 DEF NoneReady

\* What follows for the jobs, and the types, when dispatcher and MLFQ are tidy.
LEMMA TidyJobs ==
  ASSUME Tidy(levels', locked', pending', status'), OuterFirst'
  PROVE  /\ JobsInv'
         /\ levels' \in [Levels -> Seq(Jobs)] /\ locked' \subseteq Lanes
         /\ pending' \in [Lanes -> Seq(Jobs)] /\ status' \in [Jobs -> Status]
BY DEF Tidy, JobsInv, AtMostOneReady

LEMMA JobsAreTidy ==
  ASSUME TypeOK, JobsInv
  PROVE  Tidy(levels, locked, pending, status)
BY DEF Tidy, JobsInv, AtMostOneReady, TypeOK

\* An outer job's inner job stays new: no outer job goes back to where it has not
\* run, and only new inner jobs of jobs that run change.
LEMMA OuterKept ==
  ASSUME OuterFirst,
         \A j \in Jobs : Nested(j) /\ status'[j] \in {"new", "pending", "ready", "refused"} =>
           /\ status[j] \in {"new", "pending", "ready", "refused"}
           /\ status[Inner[j]] = "new" => status'[Inner[j]] = "new"
  PROVE  OuterFirst'
BY DEF OuterFirst, Nested

LEMMA SlotsKept ==
  ASSUME SlotsAreBusyTasks, StartedInThePast, active' = active, generation' = generation,
         \A j \in Jobs : status'[j] = "running" <=> status[j] = "running",
         \A j \in Jobs : status[j] = "running" => startGen'[j] = startGen[j] /\ runner'[j] = runner[j]
  PROVE  SlotsAreBusyTasks' /\ StartedInThePast'
<1>1. SlotsAreBusyTasks'
  BY DEF SlotsAreBusyTasks, Current
<1>2. StartedInThePast'
  BY DEF StartedInThePast
<1> QED
  BY <1>1, <1>2

-----------------------------------------------------------------------------
(* The initial state, and event-loop actions *)

LEMMA InitIInv == Init => IInv
<1> SUFFICES ASSUME Init PROVE IInv
  OBVIOUS
<1> USE AstraeaQueueAssumption DEF Init
<1>1. TypeOK
  <2>1. levels \in [Levels -> Seq(Jobs)] /\ locked \subseteq Lanes /\ pending \in [Lanes -> Seq(Jobs)]
    OBVIOUS
  <2>2. active \in [Lanes -> SUBSET Jobs] /\ cap \in [Lanes -> Nat \ {0}]
    OBVIOUS
  <2>3. draining \in [Lanes -> BOOLEAN] /\ gatewayDraining \in BOOLEAN /\ generation \in Nat
    OBVIOUS
  <2>4. stack \in Seq(Frames) /\ status \in [Jobs -> Status]
    BY DEF Status
  <2>5. runner \in [Jobs -> Lanes \cup {NoLane}] /\ startGen \in [Jobs -> Nat]
    OBVIOUS
  <2> QED
    BY <2>1, <2>2, <2>3, <2>4, <2>5 DEF TypeOK
<1>2. JobsInv
  <2>1. NoneReady(levels, status)
    BY DEF NoneReady, Nobody
  <2>2. HeldBack(pending, locked, status)
    BY DEF HeldBack
  <2>3. \A l \in Lanes : LockOf(l, locked, status)
    BY DEF LockOf
  <2>4. OuterFirst
    BY DEF OuterFirst, Nested
  <2> QED
    BY <2>1, <2>2, <2>3, <2>4 DEF JobsInv, AtMostOneReady
<1>3. SlotsAreBusyTasks /\ StartedInThePast
  BY DEF SlotsAreBusyTasks, StartedInThePast
<1>4. StackInv
  BY DEF StackInv, SettlesOnce, Served, DrainingIsPumping, BuriedIsBusy
<1> QED
  BY <1>1, <1>2, <1>3, <1>4 DEF IInv

\* One frame that drains the lane of whatever is ready.
LEMMA OneDrainFrame ==
  ASSUME NEW l \in Lanes, stack' = <<DrainLane(l)>>, \A m \in Lanes : ~draining'[m],
         \A j \in Jobs : status'[j] = "ready" => Lane[j] = l
  PROVE  stack' \in Seq(Frames) /\ StackInv'
<1>1. stack' \in Seq(Frames) /\ DOMAIN stack' = {1} /\ stack'[1] = DrainLane(l)
  BY FrameType
<1>2. SettlesOnce'
  BY <1>1, FrameFields DEF SettlesOnce
<1>3. Served'
  BY <1>1, AstraeaQueueAssumption DEF Served
<1>4. DrainingIsPumping' /\ BuriedIsBusy'
  BY DEF DrainingIsPumping, BuriedIsBusy
<1> QED
  BY <1>1, <1>2, <1>3, <1>4 DEF StackInv

LEMMA EnqueueStep ==
  ASSUME IInv, NEW j \in TopLevel, Enqueue(j)
  PROVE  IInv'
<1> USE AstraeaQueueAssumption
<1>1. /\ j \in Jobs /\ (\A i \in Jobs : Inner[i] # j) /\ Lane[j] \in Lanes /\ status[j] = "new"
      /\ TypeOK /\ JobsInv /\ SlotsAreBusyTasks /\ StartedInThePast /\ StackInv
  BY DEF TopLevel, IInv, Enqueue
<1>2. NoneReady(Nobody, status) /\ levels = Nobody /\ \A l \in Lanes : ~draining[l]
  BY <1>1, WhenIdle DEF Enqueue
<1>3. /\ Tidy(levels', locked', pending', status')
      /\ \A i \in Jobs : i # j => status'[i] = status[i]
      /\ status'[j] \in {"pending", "ready"}
  BY <1>1, <1>2, DispatchFacts DEF Enqueue, JobsInv, TypeOK
<1>4. OuterFirst'
  BY <1>1, <1>3, OuterKept DEF JobsInv, Nested
<1>5. SlotsAreBusyTasks' /\ StartedInThePast'
  BY <1>1, <1>3, SlotsKept DEF Enqueue, laneVars
<1>6. stack' \in Seq(Frames) /\ StackInv'
  BY <1>1, <1>2, <1>3, OneDrainFrame DEF Enqueue, laneVars, NoneReady
<1>7. TypeOK'
  BY <1>1, <1>3, <1>4, <1>6, TidyJobs DEF Enqueue, laneVars, TypeOK
<1> QED
  BY <1>3, <1>4, <1>5, <1>6, <1>7, TidyJobs DEF IInv

LEMMA RefuseStep ==
  ASSUME IInv, NEW j \in TopLevel, RefuseWhileDraining(j)
  PROVE  IInv'
<1> USE AstraeaQueueAssumption
<1>1. /\ j \in Jobs /\ (\A i \in Jobs : Inner[i] # j) /\ status[j] = "new"
      /\ status' = [status EXCEPT ![j] = "refused"]
      /\ TypeOK /\ JobsInv /\ SlotsAreBusyTasks /\ StartedInThePast /\ StackInv
  BY DEF TopLevel, IInv, RefuseWhileDraining
<1>2. /\ status' \in [Jobs -> Status] /\ status'[j] = "refused"
      /\ \A i \in Jobs : i # j => status'[i] = status[i]
  BY <1>1 DEF TypeOK, Status, Settled
<1>3. TypeOK'
  BY <1>1, <1>2 DEF RefuseWhileDraining, laneVars, TypeOK
<1>4. JobsInv'
  <2>1. AtMostOneReady'
    BY <1>1, <1>2 DEF RefuseWhileDraining, JobsInv, AtMostOneReady, NoneReady, OneReady
  <2>2. HeldBack(pending', locked', status')
    BY <1>1, <1>2 DEF RefuseWhileDraining, JobsInv, HeldBack, TypeOK
  <2>3. \A l \in Lanes : LockOf(l, locked', status')
    BY <1>1, <1>2 DEF RefuseWhileDraining, JobsInv, LockOf
  <2>4. OuterFirst'
    BY <1>1, <1>2, OuterKept DEF JobsInv, Nested
  <2> QED
    BY <2>1, <2>2, <2>3, <2>4 DEF JobsInv
<1>5. SlotsAreBusyTasks' /\ StartedInThePast'
  BY <1>1, <1>2, SlotsKept DEF RefuseWhileDraining, laneVars
<1>6. StackInv'
  BY <1>1, <1>2, WhenIdle DEF RefuseWhileDraining, laneVars, StackInv, SettlesOnce, Served,
     DrainingIsPumping, BuriedIsBusy, Idle, NoneReady
<1> QED
  BY <1>3, <1>4, <1>5, <1>6 DEF IInv

\* Actions between two tasks that leave the jobs alone.
LEMMA JobsAlone ==
  ASSUME JobsInv, UNCHANGED <<levels, locked, pending, status>>
  PROVE  JobsInv'
BY DEF JobsInv, AtMostOneReady, OuterFirst

LEMMA SetConcurrencyStep ==
  ASSUME IInv, NEW l \in Lanes, NEW n \in 0 .. MaxCap, SetConcurrency(l, n)
  PROVE  IInv'
<1>1. TypeOK /\ JobsInv /\ SlotsAreBusyTasks /\ StartedInThePast /\ StackInv
  BY DEF IInv
<1>2. NoneReady(Nobody, status) /\ \A m \in Lanes : ~draining[m]
  BY <1>1, WhenIdle DEF SetConcurrency
<1>3. stack' \in Seq(Frames) /\ StackInv'
  BY <1>2, OneDrainFrame DEF SetConcurrency, NoneReady
<1>4. TypeOK'
  <2>1. AtLeastOne(n) \in Nat \ {0}
    BY AstraeaQueueAssumption DEF AtLeastOne
  <2>2. cap' \in [Lanes -> Nat \ {0}]
    BY <1>1, <2>1 DEF SetConcurrency, TypeOK
  <2> QED
    BY <1>1, <1>3, <2>2 DEF SetConcurrency, TypeOK
<1>5. JobsInv'
  BY <1>1, JobsAlone DEF SetConcurrency
<1>6. SlotsAreBusyTasks' /\ StartedInThePast'
  BY <1>1, SlotsKept DEF SetConcurrency
<1> QED
  BY <1>3, <1>4, <1>5, <1>6 DEF IInv

LEMMA MarkDrainingStep ==
  ASSUME IInv, MarkDraining
  PROVE  IInv'
<1>1. TypeOK /\ JobsInv /\ SlotsAreBusyTasks /\ StartedInThePast /\ StackInv
  BY DEF IInv
<1>2. TypeOK'
  BY <1>1 DEF MarkDraining, TypeOK
<1>3. JobsInv'
  BY <1>1, JobsAlone DEF MarkDraining
<1>4. SlotsAreBusyTasks' /\ StartedInThePast'
  BY <1>1, SlotsKept DEF MarkDraining
<1>5. StackInv'
  BY <1>1 DEF MarkDraining, StackInv, SettlesOnce, Served, DrainingIsPumping, BuriedIsBusy
<1> QED
  BY <1>2, <1>3, <1>4, <1>5 DEF IInv

\* A reset empties the slots and makes every running task one of the past.
LEMMA ResetStep ==
  ASSUME IInv, ResetAllLanes
  PROVE  IInv'
<1>1. TypeOK /\ JobsInv /\ SlotsAreBusyTasks /\ StartedInThePast /\ StackInv
  BY DEF IInv
<1>2. generation' = generation + 1 /\ generation \in Nat /\ startGen \in [Jobs -> Nat]
  BY <1>1 DEF ResetAllLanes, NextGeneration, TypeOK
<1>3. TypeOK'
  <2>1. active' \in [Lanes -> SUBSET Jobs] /\ draining' \in [Lanes -> BOOLEAN]
    BY DEF ResetAllLanes
  <2>2. gatewayDraining' \in BOOLEAN
    BY DEF ResetAllLanes
  <2> QED
    BY <1>1, <1>2, <2>1, <2>2 DEF ResetAllLanes, TypeOK
<1>4. JobsInv'
  BY <1>1, JobsAlone DEF ResetAllLanes
<1>5. SlotsAreBusyTasks'
  <2>1. \A j \in Jobs : status[j] = "running" => startGen[j] # generation + 1
    BY <1>1, <1>2 DEF StartedInThePast
  <2> QED
    BY <1>2, <2>1 DEF ResetAllLanes, SlotsAreBusyTasks, Current
<1>6. StartedInThePast'
  BY <1>1, <1>2 DEF ResetAllLanes, StartedInThePast
<1>7. StackInv'
  <2>1. stack' = stack /\ status' = status /\ \A l \in Lanes : ~draining'[l]
    BY DEF ResetAllLanes
  <2>2. SettlesOnce' /\ DrainingIsPumping' /\ BuriedIsBusy'
    BY <1>1, <2>1 DEF StackInv, SettlesOnce, DrainingIsPumping, BuriedIsBusy
  <2>3. Served'
    BY <1>1, <2>1, AstraeaQueueAssumption DEF StackInv, Served
  <2> QED
    BY <2>2, <2>3 DEF StackInv
<1> QED
  BY <1>3, <1>4, <1>5, <1>6, <1>7 DEF IInv

\* A completion releases the lane of its job and wakes it.
LEMMA FinishFrames ==
  ASSUME NEW j \in Jobs, NEW r \in {"resolved", "failed"}, status' \in [Jobs -> Status],
         status'[j] = "settling", \A l \in Lanes : ~draining'[l],
         \A i \in Jobs : status'[i] = "ready" => Lane[i] = Lane[j],
         NEW l \in Lanes,
         \/ stack' = WakeLane(j) \o <<Pump(l), SettleEntry(j, r)>>
         \/ stack' = WakeLane(j) \o <<SettleEntry(j, r)>>
  PROVE  stack' \in Seq(Frames) /\ StackInv'
<1>1. /\ stack' \in Seq(Frames) /\ stack' # <<>> /\ stack'[1] = DrainLane(Lane[j])
      /\ \/ /\ DOMAIN stack' = {1, 2, 3} /\ stack'[2] = Pump(l) /\ stack'[3] = SettleEntry(j, r)
         \/ DOMAIN stack' = {1, 2} /\ stack'[2] = SettleEntry(j, r)
  <2>1. /\ DrainLane(Lane[j]) \in Frames /\ Pump(l) \in Frames /\ SettleEntry(j, r) \in Frames
    BY FrameType, AstraeaQueueAssumption
  <2>2. CASE stack' = <<DrainLane(Lane[j])>> \o <<Pump(l), SettleEntry(j, r)>>
    BY <2>1, <2>2
  <2>3. CASE stack' = <<DrainLane(Lane[j])>> \o <<SettleEntry(j, r)>>
    BY <2>1, <2>3
  <2> QED
    BY <2>2, <2>3 DEF WakeLane
<1>2. SettlesOnce'
  BY <1>1, FrameFields DEF SettlesOnce
<1>3. Served'
  BY <1>1, AstraeaQueueAssumption DEF Served
<1>4. DrainingIsPumping' /\ BuriedIsBusy'
  BY DEF DrainingIsPumping, BuriedIsBusy
<1> QED
  BY <1>1, <1>2, <1>3, <1>4 DEF StackInv

LEMMA FinishStep ==
  ASSUME IInv, NEW j \in Jobs, NEW r \in {"resolved", "failed"},
         FinishCurrent(j, r) \/ FinishStale(j, r)
  PROVE  IInv'
<1> USE AstraeaQueueAssumption
<1> DEFINE now == [status EXCEPT ![j] = "settling"]
<1>1. /\ Lane[j] \in Lanes /\ status[j] = "running" /\ Release(Lane[j], levels, now) /\ Idle
      /\ TypeOK /\ JobsInv /\ SlotsAreBusyTasks /\ StartedInThePast /\ StackInv
      /\ (Nested(j) => status[Inner[j]] # "new")
  BY DEF IInv, FinishCurrent, FinishStale, Outcomes, Settled
<1>2. NoneReady(Nobody, status) /\ levels = Nobody /\ \A l \in Lanes : ~draining[l]
  BY <1>1, WhenIdle
<1>3. /\ now \in [Jobs -> Status] /\ now[j] = "settling"
      /\ \A i \in Jobs : i # j => now[i] = status[i]
  BY <1>1 DEF TypeOK, Status
<1> HIDE DEF now
<1>4. /\ Lane[j] \in locked
      /\ \A m \in Lanes : m # Lane[j] => LockOf(m, locked, now)
      /\ \A i \in Jobs : Lane[i] = Lane[j] => now[i] # "running"
  BY <1>1, <1>3 DEF JobsInv, LockOf
<1>5. NoneReady(Nobody, now) /\ HeldBack(pending, locked, now)
  <2>1. NoneReady(Nobody, now)
    BY <1>2, <1>3 DEF NoneReady
  <2>2. HeldBack(pending, locked, now)
    BY <1>1, <1>3 DEF JobsInv, HeldBack, TypeOK
  <2> QED
    BY <2>1, <2>2
<1>6. /\ Tidy(levels', locked', pending', status')
      /\ \A i \in Jobs :
           \/ status'[i] = now[i]
           \/ now[i] = "pending" /\ status'[i] = "ready" /\ Lane[i] = Lane[j]
  BY <1>1, <1>2, <1>3, <1>4, <1>5, ReleaseFacts
<1>7. /\ status' \in [Jobs -> Status] /\ status'[j] = "settling"
      /\ \A i \in Jobs : i # j =>
           \/ status'[i] = status[i]
           \/ status[i] = "pending" /\ status'[i] = "ready" /\ Lane[i] = Lane[j]
  BY <1>3, <1>6 DEF Tidy
<1>8. OuterFirst'
  BY <1>1, <1>7, OuterKept DEF JobsInv, Nested
<1>9. /\ \A l \in Lanes : ~draining'[l]
      /\ \A i \in Jobs : status'[i] = "ready" => Lane[i] = Lane[j]
      /\ runner[j] \in Lanes
      /\ \/ stack' = WakeLane(j) \o <<Pump(runner[j]), SettleEntry(j, r)>>
         \/ stack' = WakeLane(j) \o <<SettleEntry(j, r)>>
  BY <1>1, <1>2, <1>7 DEF FinishCurrent, FinishStale, laneVars, StartedInThePast, NoneReady
<1>10. stack' \in Seq(Frames) /\ StackInv'
  BY <1>7, <1>9, FinishFrames
<1>11. /\ \/ active' = [active EXCEPT ![Lane[j]] = @ \ {j}]
          \/ active' = active /\ ~Current(j)
       /\ generation' = generation /\ startGen' = startGen /\ runner' = runner
       /\ gatewayDraining' = gatewayDraining /\ cap' = cap /\ draining' = draining
  BY <1>1 DEF FinishCurrent, FinishStale, laneVars, StartedInThePast
<1>12. SlotsAreBusyTasks'
  <2> SUFFICES ASSUME NEW l \in Lanes
               PROVE  active'[l] = {i \in Jobs : /\ Lane[i] = l /\ status'[i] = "running"
                                                 /\ startGen[i] = generation}
    BY <1>11 DEF SlotsAreBusyTasks, Current
  <2>1. active[l] = {i \in Jobs : Lane[i] = l /\ status[i] = "running" /\ startGen[i] = generation}
    BY <1>1 DEF SlotsAreBusyTasks, Current
  <2>2. \A i \in Jobs : status'[i] = "running" <=> status[i] = "running" /\ i # j
    BY <1>7
  <2>3. active'[l] = active[l] \ {j}
    <3>1. active \in [Lanes -> SUBSET Jobs]
      BY <1>1 DEF TypeOK
    <3>2. CASE active' = [active EXCEPT ![Lane[j]] = @ \ {j}]
      <4>1. active'[l] = IF l = Lane[j] THEN active[l] \ {j} ELSE active[l]
        BY <3>1, <3>2
      <4>2. l # Lane[j] => j \notin active[l]
        BY <2>1
      <4> QED
        BY <4>1, <4>2
    <3>3. CASE active' = active /\ ~Current(j)
      <4>1. j \notin active[l]
        BY <2>1, <3>3 DEF Current
      <4> QED
        BY <3>3, <4>1
    <3> QED
      BY <1>11, <3>2, <3>3
  <2> QED
    BY <2>1, <2>2, <2>3
<1>13. StartedInThePast'
  BY <1>1, <1>7, <1>11 DEF StartedInThePast
<1>14. TypeOK'
  <2>1. active' \in [Lanes -> SUBSET Jobs]
    <3>1. active \in [Lanes -> SUBSET Jobs]
      BY <1>1 DEF TypeOK
    <3>2. CASE active' = [active EXCEPT ![Lane[j]] = @ \ {j}]
      BY <3>1, <3>2
    <3> QED
      BY <1>11, <3>1, <3>2
  <2> QED
    BY <1>1, <1>6, <1>8, <1>10, <1>11, <2>1, TidyJobs DEF TypeOK
<1> QED
  BY <1>6, <1>8, <1>10, <1>12, <1>13, <1>14, TidyJobs DEF IInv

-----------------------------------------------------------------------------
(* Stack actions *)

\* Actions on the stack that leave jobs and slots alone.
LEMMA OnlyTheStack ==
  ASSUME IInv, UNCHANGED <<levels, locked, pending, active, cap, generation, gatewayDraining,
                           status, runner, startGen>>,
         stack' \in Seq(Frames), draining' \in [Lanes -> BOOLEAN], StackInv'
  PROVE  IInv'
<1>1. TypeOK'
  BY DEF IInv, TypeOK
<1>2. JobsInv'
  BY JobsAlone DEF IInv
<1>3. SlotsAreBusyTasks' /\ StartedInThePast'
  BY SlotsKept DEF IInv
<1> QED
  BY <1>1, <1>2, <1>3 DEF IInv

\* What is ready is of the lane that the top frame serves.
LEMMA ReadyLane ==
  ASSUME IInv, NEW l \in Lanes, stack[1] \in {DrainLane(l), Pump(l)},
         NEW j \in Jobs, status[j] = "ready"
  PROVE  Lane[j] = l
<1>1. stack[1] \in {DrainLane(Lane[j]), Pump(Lane[j])}
  BY DEF IInv, StackInv, Served
<1>2. stack[1].lane = Lane[j]
  BY <1>1, FrameFields
<1>3. stack[1].lane = l
  BY FrameFields
<1> QED
  BY <1>2, <1>3

\* The lanes whose pump other frames bury, when the top frame is one of lane l.
LEMMA OthersAreBusy ==
  ASSUME IInv, stack # <<>>, NEW l \in Lanes, stack[1] \in {DrainLane(l), Pump(l)},
         NEW m \in Lanes, m # l, draining[m]
  PROVE  \E j \in Jobs : Lane[j] = m /\ status[j] = "running"
<1>1. BuriedIsBusy /\ stack \in Seq(Frames)
  BY DEF IInv, StackInv, TypeOK
<1>2. stack[1].lane = l /\ stack[1].call # "settle"
  BY FrameFields
<1>3. SUFFICES ASSUME NEW i \in DOMAIN stack, stack[i] = Pump(m),
                      \A k \in 1 .. i - 1 : stack[k].call = "settle" \/ stack[k].lane = m
               PROVE  FALSE
  BY <1>1 DEF BuriedIsBusy
<1>4. CASE i = 1
  BY <1>2, <1>3, <1>4, FrameFields
<1>5. CASE i # 1
  <2>1. 1 \in 1 .. i - 1
    BY <1>1, <1>5
  <2> QED
    BY <1>2, <1>3, <2>1
<1> QED
  BY <1>4, <1>5

LEMMA DrainBlockedStep ==
  ASSUME IInv, NEW l \in Lanes, DrainBlocked(l)
  PROVE  IInv'
<1>1. /\ stack \in Seq(Frames) /\ stack # <<>> /\ stack[1] = DrainLane(l) /\ draining[l]
      /\ stack' = Tail(stack) /\ draining' = draining /\ status' = status
      /\ stack[1].call # "settle" /\ Len(stack) \in Nat \ {0}
  BY FrameFields DEF IInv, TypeOK, DrainBlocked, Calling, Idle, Return, laneVars
<1>2. /\ stack' \in Seq(Frames) /\ Len(stack') = Len(stack) - 1
      /\ \A i \in 1 .. Len(stack) - 1 : stack'[i] = stack[i + 1]
  BY <1>1, Popped
<1>3. SettlesOnce'
  <2>1. \A i \in DOMAIN stack' : i - (-1) \in DOMAIN stack /\ stack'[i] = stack[i - (-1)]
    BY <1>1, <1>2
  <2>2. -1 \in Int
    OBVIOUS
  <2> QED
    BY <1>1, <1>2, <2>1, <2>2, SettlesKept DEF IInv, StackInv
<1>4. Served'
  <2> SUFFICES ASSUME NEW j \in Jobs, status[j] = "ready"
               PROVE  stack' # <<>> /\ stack'[1] = Pump(Lane[j])
    BY <1>1, FrameFields DEF Served
  <2>1. Lane[j] = l
    BY <1>1, ReadyLane
  <2>2. 2 \in DOMAIN stack /\ stack[2] = Pump(l)
    BY <1>1, <2>1 DEF IInv, StackInv, Served
  <2>3. 1 \in 1 .. Len(stack) - 1
    BY <1>1, <2>2
  <2> QED
    BY <1>2, <2>1, <2>2, <2>3
<1>5. DrainingIsPumping'
  <2> SUFFICES ASSUME NEW m \in Lanes, draining[m] PROVE \E i \in DOMAIN stack' : stack'[i] = Pump(m)
    BY <1>1 DEF DrainingIsPumping
  <2>1. PICK i \in DOMAIN stack : stack[i] = Pump(m)
    BY DEF IInv, StackInv, DrainingIsPumping
  <2>2. i # 1
    BY <1>1, <2>1, FrameFields
  <2>3. i - 1 \in 1 .. Len(stack) - 1 /\ (i - 1) + 1 = i
    BY <1>1, <2>2
  <2> QED
    BY <1>2, <2>1, <2>3
<1>6. BuriedIsBusy'
  <2> SUFFICES ASSUME NEW m \in Lanes, draining[m],
                      ~\E j \in Jobs : Lane[j] = m /\ status[j] = "running"
               PROVE  \E i \in DOMAIN stack' :
                        /\ stack'[i] = Pump(m)
                        /\ \A k \in 1 .. i - 1 : stack'[k].call = "settle" \/ stack'[k].lane = m
    BY <1>1 DEF BuriedIsBusy
  <2>1. PICK i \in DOMAIN stack :
          /\ stack[i] = Pump(m)
          /\ \A k \in 1 .. i - 1 : stack[k].call = "settle" \/ stack[k].lane = m
    BY DEF IInv, StackInv, BuriedIsBusy
  <2>2. i # 1
    BY <1>1, <2>1, FrameFields
  <2>3. i - 1 \in 1 .. Len(stack) - 1 /\ (i - 1) + 1 = i
    BY <1>1, <2>2
  <2>4. \A k \in 1 .. (i - 1) - 1 : stack'[k] = stack[k + 1] /\ k + 1 \in 1 .. i - 1
    BY <1>2, <2>3
  <2>5. i - 1 \in DOMAIN stack' /\ stack'[i - 1] = Pump(m)
    BY <1>2, <2>1, <2>3
  <2>6. \A k \in 1 .. (i - 1) - 1 : stack'[k].call = "settle" \/ stack'[k].lane = m
    BY <2>1, <2>4
  <2> QED
    BY <2>5, <2>6
<1>7. draining' \in [Lanes -> BOOLEAN]
  BY <1>1 DEF IInv, TypeOK
<1> QED
  BY <1>2, <1>3, <1>4, <1>5, <1>6, <1>7, OnlyTheStack DEF DrainBlocked, laneVars, StackInv

LEMMA DrainBeginStep ==
  ASSUME IInv, NEW l \in Lanes, DrainBegin(l)
  PROVE  IInv'
<1>1. /\ stack \in Seq(Frames) /\ stack # <<>> /\ stack[1] = DrainLane(l)
      /\ stack' = <<Pump(l)>> \o Tail(stack) /\ draining' = [draining EXCEPT ![l] = TRUE]
      /\ status' = status /\ draining \in [Lanes -> BOOLEAN]
      /\ stack[1].call # "settle" /\ Len(stack) \in Nat \ {0}
  BY FrameFields DEF IInv, TypeOK, DrainBegin, Calling, Idle
<1>2. /\ stack' \in Seq(Frames) /\ Len(stack') = Len(stack) /\ stack'[1] = Pump(l)
      /\ \A i \in 2 .. Len(stack) : stack'[i] = stack[i]
  BY <1>1, Replaced, FrameType
<1>3. SettlesOnce'
  <2>1. \A i \in DOMAIN stack' : stack'[i].call = "settle" =>
          i - 0 \in DOMAIN stack /\ stack'[i] = stack[i - 0]
    BY <1>1, <1>2, FrameFields
  <2>2. 0 \in Int
    OBVIOUS
  <2> QED
    BY <1>1, <1>2, <2>1, <2>2, SettlesKept DEF IInv, StackInv
<1>4. Served'
  <2> SUFFICES ASSUME NEW j \in Jobs, status[j] = "ready"
               PROVE  stack' # <<>> /\ stack'[1] = Pump(Lane[j])
    BY <1>1, FrameFields DEF Served
  <2>1. Lane[j] = l
    BY <1>1, ReadyLane
  <2> QED
    BY <1>1, <1>2, <2>1
<1>5. DrainingIsPumping'
  <2> SUFFICES ASSUME NEW m \in Lanes, draining'[m] PROVE \E i \in DOMAIN stack' : stack'[i] = Pump(m)
    BY DEF DrainingIsPumping
  <2>1. CASE m = l
    BY <1>1, <1>2, <2>1
  <2>2. CASE m # l
    <3>1. PICK i \in DOMAIN stack : stack[i] = Pump(m)
      BY <1>1, <2>2 DEF IInv, StackInv, DrainingIsPumping
    <3>2. i # 1
      BY <1>1, <3>1, FrameFields
    <3>3. i \in 2 .. Len(stack) /\ i \in DOMAIN stack'
      BY <1>1, <1>2, <3>2
    <3> QED
      BY <1>2, <3>1, <3>3
  <2> QED
    BY <2>1, <2>2
<1>6. BuriedIsBusy'
  <2> SUFFICES ASSUME NEW m \in Lanes, draining'[m]
               PROVE  \/ \E j \in Jobs : Lane[j] = m /\ status[j] = "running"
                      \/ \E i \in DOMAIN stack' :
                           /\ stack'[i] = Pump(m)
                           /\ \A k \in 1 .. i - 1 : stack'[k].call = "settle" \/ stack'[k].lane = m
    BY <1>1 DEF BuriedIsBusy
  <2>1. CASE m = l
    <3>1. 1 \in DOMAIN stack' /\ stack'[1] = Pump(m) /\ 1 .. 1 - 1 = {}
      BY <1>1, <1>2, <2>1
    <3> QED
      BY <3>1
  <2>2. CASE m # l
    BY <1>1, <2>2, OthersAreBusy
  <2> QED
    BY <2>1, <2>2
<1>7. draining' \in [Lanes -> BOOLEAN]
  BY <1>1
<1> QED
  BY <1>2, <1>3, <1>4, <1>5, <1>6, <1>7, OnlyTheStack DEF DrainBegin, StackInv

\* When a pump is on top, what is ready is its own lane's, and has room.
LEMMA ReadyHasRoom ==
  ASSUME IInv, NEW l \in Lanes, Calling(Pump(l)), NEW j \in Jobs, status[j] = "ready"
  PROVE  Lane[j] = l /\ HasRoom(l) /\ \A i \in Jobs : Lane[i] = l => status[i] # "running"
<1>1. Lane[j] = l
  <2>1. stack[1] = Pump(l)
    BY DEF IInv, TypeOK, Calling, Idle
  <2> QED
    BY <2>1, ReadyLane
<1>2. \A i \in Jobs : Lane[i] = l => status[i] # "running"
  BY <1>1 DEF IInv, JobsInv, LockOf
<1>3. active[l] = {}
  BY <1>2 DEF IInv, SlotsAreBusyTasks
<1>4. Cardinality(active[l]) = 0 /\ cap[l] \in Nat \ {0}
  BY <1>3, FS_EmptySet DEF IInv, TypeOK
<1> QED
  BY <1>1, <1>2, <1>4 DEF HasRoom

LEMMA PumpExitStep ==
  ASSUME IInv, NEW l \in Lanes, PumpExit(l)
  PROVE  IInv'
<1>1. /\ stack \in Seq(Frames) /\ stack # <<>> /\ stack[1] = Pump(l) /\ Calling(Pump(l))
      /\ stack' = Tail(stack) /\ draining' = [draining EXCEPT ![l] = FALSE]
      /\ status' = status /\ draining \in [Lanes -> BOOLEAN] /\ ~MayStart(l)
      /\ stack[1].call # "settle" /\ Len(stack) \in Nat \ {0}
  BY FrameFields DEF IInv, TypeOK, PumpExit, Calling, Idle, Return, StopDraining
<1>2. /\ stack' \in Seq(Frames) /\ Len(stack') = Len(stack) - 1
      /\ \A i \in 1 .. Len(stack) - 1 : stack'[i] = stack[i + 1]
  BY <1>1, Popped
<1>3. SettlesOnce'
  <2>1. \A i \in DOMAIN stack' : i - (-1) \in DOMAIN stack /\ stack'[i] = stack[i - (-1)]
    BY <1>1, <1>2
  <2>2. -1 \in Int
    OBVIOUS
  <2> QED
    BY <1>1, <1>2, <2>1, <2>2, SettlesKept DEF IInv, StackInv
<1>4. Served'
  <2> SUFFICES ASSUME NEW j \in Jobs, status[j] = "ready" PROVE FALSE
    BY <1>1 DEF Served
  <2>1. HasRoom(l)
    BY <1>1, ReadyHasRoom
  <2>2. ~GloballyEmpty(levels)
    BY EmptyIsNobody DEF IInv, JobsInv, AtMostOneReady, NoneReady, OneReady
  <2> QED
    BY <1>1, <2>1, <2>2 DEF MayStart
<1>5. DrainingIsPumping'
  <2> SUFFICES ASSUME NEW m \in Lanes, draining'[m] PROVE \E i \in DOMAIN stack' : stack'[i] = Pump(m)
    BY DEF DrainingIsPumping
  <2>1. m # l /\ draining[m]
    BY <1>1
  <2>2. PICK i \in DOMAIN stack : stack[i] = Pump(m)
    BY <2>1 DEF IInv, StackInv, DrainingIsPumping
  <2>3. i # 1
    BY <1>1, <2>1, <2>2, FrameFields
  <2>4. i - 1 \in 1 .. Len(stack) - 1 /\ (i - 1) + 1 = i
    BY <1>1, <2>3
  <2> QED
    BY <1>2, <2>2, <2>4
<1>6. BuriedIsBusy'
  <2> SUFFICES ASSUME NEW m \in Lanes, draining'[m]
               PROVE  \E j \in Jobs : Lane[j] = m /\ status[j] = "running"
    BY <1>1 DEF BuriedIsBusy
  <2>1. m # l /\ draining[m]
    BY <1>1
  <2> QED
    BY <1>1, <2>1, OthersAreBusy
<1>7. draining' \in [Lanes -> BOOLEAN]
  BY <1>1
<1> QED
  BY <1>2, <1>3, <1>4, <1>5, <1>6, <1>7, OnlyTheStack DEF PumpExit, StackInv

\* What is held back stays so while it is left pending.
LEMMA StillHeldBack ==
  ASSUME TypeOK, HeldBack(pending, locked, status), NEW st,
         \A i \in Jobs : status[i] = "pending" => st[i] = "pending"
  PROVE  HeldBack(pending, locked, st)
BY DEF HeldBack, TypeOK

\* Taking a job: it is the only one ready, of the pump's own lane, and leaves the
\* MLFQ empty.
LEMMA TakeFacts ==
  ASSUME IInv, NEW l \in Lanes, NEW j, Take(l, j)
  PROVE  /\ j \in Jobs /\ status[j] = "ready" /\ Lane[j] = l
         /\ \A i \in Jobs : status[i] = "ready" => i = j
         /\ \A i \in Jobs : Lane[i] = l => status[i] # "running"
         /\ l \in locked
         /\ TakeNext(levels, Est) = Nobody
         /\ stack \in Seq(Frames) /\ stack # <<>> /\ stack[1] = Pump(l)
         /\ runner' = [runner EXCEPT ![j] = l] /\ startGen' = [startGen EXCEPT ![j] = generation]
<1>1. stack \in Seq(Frames) /\ stack # <<>> /\ stack[1] = Pump(l) /\ Calling(Pump(l))
  BY DEF IInv, TypeOK, Take, Calling, Idle
<1>2. PICK x \in Jobs : levels = Only(x) /\ \A i \in Jobs : status[i] = "ready" <=> i = x
  BY EmptyIsNobody DEF IInv, JobsInv, AtMostOneReady, NoneReady, OneReady, Take, MayStart
<1>3. j = x /\ TakeNext(levels, Est) = Nobody
  BY <1>2, TakesTheOnlyOne DEF Take
<1>4. Lane[j] = l /\ \A i \in Jobs : Lane[i] = l => status[i] # "running"
  BY <1>1, <1>2, <1>3, ReadyHasRoom
<1>5. l \in locked
  BY <1>2, <1>3, <1>4 DEF IInv, JobsInv, LockOf
<1> QED
  BY <1>1, <1>2, <1>3, <1>4, <1>5 DEF Take

\* The slots and what is recorded of a task that starts.
LEMMA SlotTaken ==
  ASSUME IInv, NEW l \in Lanes, NEW j \in Jobs, Lane[j] = l, OccupySlot(l, j),
         runner' = [runner EXCEPT ![j] = l], startGen' = [startGen EXCEPT ![j] = generation],
         generation' = generation, status[j] # "running",
         \A i \in Jobs : status'[i] = "running" <=> status[i] = "running" \/ i = j
  PROVE  /\ SlotsAreBusyTasks' /\ StartedInThePast'
         /\ active' \in [Lanes -> SUBSET Jobs]
         /\ runner' \in [Jobs -> Lanes \cup {NoLane}] /\ startGen' \in [Jobs -> Nat]
<1>1. /\ active \in [Lanes -> SUBSET Jobs] /\ generation \in Nat
      /\ runner \in [Jobs -> Lanes \cup {NoLane}] /\ startGen \in [Jobs -> Nat]
      /\ SlotsAreBusyTasks /\ StartedInThePast
  BY DEF IInv, TypeOK
<1>2. active' = [active EXCEPT ![l] = @ \cup {j}]
  BY DEF OccupySlot
<1>3. /\ active' \in [Lanes -> SUBSET Jobs]
      /\ active'[l] = active[l] \cup {j} /\ \A m \in Lanes : m # l => active'[m] = active[m]
  BY <1>1, <1>2
<1>4. /\ runner' \in [Jobs -> Lanes \cup {NoLane}] /\ startGen' \in [Jobs -> Nat]
      /\ runner'[j] = l /\ startGen'[j] = generation
      /\ \A i \in Jobs : i # j => runner'[i] = runner[i] /\ startGen'[i] = startGen[i]
  BY <1>1
<1>5. SlotsAreBusyTasks'
  <2> SUFFICES ASSUME NEW m \in Lanes
               PROVE  active'[m] = {i \in Jobs : /\ Lane[i] = m /\ status'[i] = "running"
                                                 /\ startGen'[i] = generation}
    BY DEF SlotsAreBusyTasks, Current
  <2>1. active[m] = {i \in Jobs : Lane[i] = m /\ status[i] = "running" /\ startGen[i] = generation}
    BY <1>1 DEF SlotsAreBusyTasks, Current
  <2>2. \A i \in Jobs : i # j =>
          ((status'[i] = "running" /\ startGen'[i] = generation)
             <=> (status[i] = "running" /\ startGen[i] = generation))
    BY <1>4
  <2>3. status'[j] = "running" /\ startGen'[j] = generation
    BY <1>4
  <2>4. CASE m = l
    BY <1>3, <2>1, <2>2, <2>3, <2>4
  <2>5. CASE m # l
    BY <1>3, <2>1, <2>2, <2>5
  <2> QED
    BY <2>4, <2>5
<1>6. StartedInThePast'
  BY <1>1, <1>4 DEF StartedInThePast
<1> QED
  BY <1>3, <1>4, <1>5, <1>6

\* A task that runs off the stack: the stack stays, its pump goes on.
LEMMA StartsAlone ==
  ASSUME IInv, NEW l \in Lanes, NEW j \in Jobs, Take(l, j), OccupySlot(l, j),
         levels' = Nobody,
         UNCHANGED <<locked, pending, cap, draining, generation, gatewayDraining, stack>>,
         status' \in [Jobs -> Status], status'[j] = "running",
         \A i \in Jobs : i # j =>
           \/ status'[i] = status[i]
           \/ status[i] = "new" /\ status'[i] = "refused" /\ i = Inner[j]
  PROVE  IInv'
<1> USE AstraeaQueueAssumption
<1>1. /\ status[j] = "ready" /\ Lane[j] = l
      /\ \A i \in Jobs : status[i] = "ready" => i = j
      /\ \A i \in Jobs : Lane[i] = l => status[i] # "running"
      /\ stack \in Seq(Frames) /\ stack # <<>> /\ stack[1] = Pump(l)
      /\ runner' = [runner EXCEPT ![j] = l] /\ startGen' = [startGen EXCEPT ![j] = generation]
  BY TakeFacts
<1>2. TypeOK /\ JobsInv /\ SlotsAreBusyTasks /\ StartedInThePast /\ StackInv
  BY DEF IInv
<1>3. NoneReady(levels', status')
  BY <1>1 DEF NoneReady
<1>4. HeldBack(pending', locked', status')
  <2>1. \A i \in Jobs : status[i] = "pending" => status'[i] = "pending"
    BY <1>1
  <2> QED
    BY <1>2, <2>1, StillHeldBack DEF JobsInv
<1>5. \A m \in Lanes : LockOf(m, locked', status')
  <2> SUFFICES ASSUME NEW m \in Lanes PROVE LockOf(m, locked', status')
    OBVIOUS
  <2>1. \A i \in Jobs : status'[i] \in {"ready", "running"} <=> status[i] \in {"ready", "running"}
    BY <1>1
  <2> QED
    BY <1>2, <2>1 DEF JobsInv, LockOf
<1>6. OuterFirst'
  <2>1. status[Inner[j]] = "new" \/ ~Nested(j)
    BY <1>1, <1>2 DEF JobsInv, OuterFirst
  <2> SUFFICES ASSUME NEW i \in Jobs, Nested(i), status'[i] \in {"new", "pending", "ready", "refused"}
               PROVE  status'[Inner[i]] = "new"
    BY DEF OuterFirst, Nested
  <2>2. i # j /\ status[i] \in {"new", "pending", "ready", "refused"}
    <3>1. i # j
      OBVIOUS
    <3> QED
      BY <3>1
  <2>3. Inner[i] \in Jobs /\ status[Inner[i]] = "new" /\ Inner[i] # Inner[j]
    BY <1>2, <2>2 DEF JobsInv, OuterFirst, Nested
  <2>4. Inner[i] # j
    BY <1>1, <2>3
  <2> QED
    BY <2>3, <2>4
<1>7. SlotsAreBusyTasks' /\ StartedInThePast'
      /\ active' \in [Lanes -> SUBSET Jobs]
      /\ runner' \in [Jobs -> Lanes \cup {NoLane}] /\ startGen' \in [Jobs -> Nat]
  <2>1. \A i \in Jobs : status'[i] = "running" <=> status[i] = "running" \/ i = j
    BY <1>1
  <2> QED
    BY <1>1, <2>1, SlotTaken
<1>8. StackInv'
  <2>1. SettlesOnce'
    <3>1. \A i \in Jobs : status[i] = "settling" => status'[i] = "settling"
      BY <1>1
    <3> QED
      BY <1>1, <1>2, <3>1, FrameType DEF StackInv, SettlesOnce
  <2>2. Served'
    BY <1>3 DEF Served, NoneReady
  <2>3. DrainingIsPumping'
    BY <1>2 DEF StackInv, DrainingIsPumping
  <2>4. BuriedIsBusy'
    <3> SUFFICES ASSUME NEW m \in Lanes, draining[m]
                 PROVE  \E i \in Jobs : Lane[i] = m /\ status'[i] = "running"
      BY DEF BuriedIsBusy
    <3>1. CASE m = l
      BY <1>1, <3>1
    <3>2. CASE m # l
      <4>1. PICK i \in Jobs : Lane[i] = m /\ status[i] = "running"
        BY <1>1, <3>2, OthersAreBusy
      <4> QED
        BY <4>1
    <3> QED
      BY <3>1, <3>2
  <2> QED
    BY <2>1, <2>2, <2>3, <2>4 DEF StackInv
<1>9. JobsInv'
  BY <1>3, <1>4, <1>5, <1>6 DEF JobsInv, AtMostOneReady
<1>10. TypeOK'
  BY <1>2, <1>7, LevelsType DEF TypeOK
<1> QED
  BY <1>7, <1>8, <1>9, <1>10 DEF IInv

LEMMA StartLeafStep ==
  ASSUME IInv, NEW l \in Lanes, NEW j \in Jobs, StartLeaf(l, j)
  PROVE  IInv'
<1>1. Take(l, j) /\ OccupySlot(l, j) /\ levels' = Nobody
  BY TakeFacts DEF StartLeaf
<1>2. /\ status' \in [Jobs -> Status] /\ status'[j] = "running"
      /\ \A i \in Jobs : i # j => status'[i] = status[i]
  BY DEF StartLeaf, IInv, TypeOK, Status
<1> QED
  BY <1>1, <1>2, StartsAlone DEF StartLeaf

LEMMA StartNestedRefusedStep ==
  ASSUME IInv, NEW l \in Lanes, NEW j \in Jobs, StartNestedRefused(l, j)
  PROVE  IInv'
<1> USE AstraeaQueueAssumption
<1>1. Take(l, j) /\ OccupySlot(l, j) /\ levels' = Nobody /\ status[j] = "ready"
  BY TakeFacts DEF StartNestedRefused
<1>2. Inner[j] \in Jobs /\ Inner[j] # j /\ status[Inner[j]] = "new"
  BY <1>1 DEF StartNestedRefused, Nested, IInv, JobsInv, OuterFirst
<1>3. status' = [status EXCEPT ![j] = "running", ![Inner[j]] = "refused"] /\ status \in [Jobs -> Status]
  BY DEF StartNestedRefused, IInv, TypeOK
<1>4. /\ status' \in [Jobs -> Status] /\ status'[j] = "running" /\ status'[Inner[j]] = "refused"
      /\ \A i \in Jobs : i # j /\ i # Inner[j] => status'[i] = status[i]
  BY <1>2, <1>3 DEF Status, Settled
<1> QED
  BY <1>1, <1>2, <1>4, StartsAlone DEF StartNestedRefused

\* The task fails on the stack: its lane is released inside the pump that runs it.
LEMMA StartThrowsStep ==
  ASSUME IInv, NEW l \in Lanes, NEW j \in Jobs, StartThrows(l, j)
  PROVE  IInv'
<1> USE AstraeaQueueAssumption
<1> DEFINE now == [status EXCEPT ![j] = "settling"]
<1>1. /\ status[j] = "ready" /\ Lane[j] = l /\ l \in locked
      /\ \A i \in Jobs : status[i] = "ready" => i = j
      /\ \A i \in Jobs : Lane[i] = l => status[i] # "running"
      /\ TakeNext(levels, Est) = Nobody
      /\ stack \in Seq(Frames) /\ stack # <<>> /\ stack[1] = Pump(l)
      /\ runner' = [runner EXCEPT ![j] = l] /\ startGen' = [startGen EXCEPT ![j] = generation]
  BY TakeFacts DEF StartThrows
<1>2. TypeOK /\ JobsInv /\ SlotsAreBusyTasks /\ StartedInThePast /\ StackInv
  BY DEF IInv
<1>3. /\ now \in [Jobs -> Status] /\ now[j] = "settling"
      /\ \A i \in Jobs : i # j => now[i] = status[i]
  BY <1>2 DEF TypeOK, Status
<1>4. Release(l, Nobody, now) /\ UNCHANGED laneVars /\ ~Nested(j)
  BY <1>1 DEF StartThrows
<1> HIDE DEF now
<1>5. NoneReady(Nobody, now)
  BY <1>1, <1>3 DEF NoneReady
<1>6. HeldBack(pending, locked, now)
  <2>1. \A i \in Jobs : status[i] = "pending" => now[i] = "pending"
    BY <1>1, <1>3
  <2> QED
    BY <1>2, <2>1, StillHeldBack DEF JobsInv
<1>7. \A m \in Lanes : m # l => LockOf(m, locked, now)
  <2>1. \A i \in Jobs : Lane[i] # l => now[i] = status[i]
    BY <1>1, <1>3
  <2> QED
    BY <1>2, <2>1 DEF JobsInv, LockOf
<1>8. \A i \in Jobs : Lane[i] = l => now[i] # "running"
  BY <1>1, <1>3
<1>9. /\ Tidy(levels', locked', pending', status')
      /\ \A i \in Jobs :
           \/ status'[i] = now[i]
           \/ now[i] = "pending" /\ status'[i] = "ready" /\ Lane[i] = l
  BY <1>1, <1>2, <1>3, <1>4, <1>5, <1>6, <1>7, <1>8, ReleaseFacts
<1>10. /\ status' \in [Jobs -> Status] /\ status'[j] = "settling"
       /\ \A i \in Jobs : i # j =>
            \/ status'[i] = status[i]
            \/ status[i] = "pending" /\ status'[i] = "ready" /\ Lane[i] = l
  BY <1>3, <1>9 DEF Tidy
<1>11. OuterFirst'
  <2> SUFFICES ASSUME NEW i \in Jobs, Nested(i), status'[i] \in {"new", "pending", "ready", "refused"}
               PROVE  status'[Inner[i]] = "new"
    BY DEF OuterFirst, Nested
  <2>1. i # j
    BY <1>4
  <2>2. status[i] \in {"new", "pending", "ready", "refused"}
    BY <1>10, <2>1
  <2>3. Inner[i] \in Jobs /\ status[Inner[i]] = "new"
    BY <1>2, <2>2 DEF JobsInv, OuterFirst, Nested
  <2>4. Inner[i] # j
    BY <1>1, <2>3
  <2> QED
    BY <1>10, <2>3, <2>4
<1>12. SlotsAreBusyTasks' /\ StartedInThePast'
  <2>1. \A i \in Jobs : status'[i] = "running" <=> status[i] = "running"
    BY <1>1, <1>10
  <2>2. \A i \in Jobs : status[i] = "running" => startGen'[i] = startGen[i] /\ runner'[i] = runner[i]
    BY <1>1, <1>2 DEF TypeOK
  <2> QED
    BY <1>2, <1>4, <2>1, <2>2, SlotsKept DEF laneVars
<1>13. /\ stack' \in Seq(Frames) /\ Len(stack') = Len(stack) + 3 /\ Len(stack) \in Nat
       /\ stack'[1] = DrainLane(l) /\ stack'[2] = Pump(l) /\ stack'[3] = SettleEntry(j, "failed")
       /\ \A i \in 1 .. Len(stack) : stack'[i + 3] = stack[i]
  <2>1. DrainLane(l) \in Frames /\ Pump(l) \in Frames /\ SettleEntry(j, "failed") \in Frames
    BY FrameType
  <2>2. stack' = <<DrainLane(l)>> \o <<Pump(l), SettleEntry(j, "failed")>> \o stack
    BY <1>1 DEF StartThrows, WakeLane
  <2>3. Len(stack) \in Nat
    BY <1>1
  <2> QED
    BY <1>1, <2>1, <2>2, <2>3, PushedThree
<1>14. SettlesOnce'
  <2>1. ASSUME NEW i \in DOMAIN stack'
        PROVE  i \notin {1, 2, 3} => i - 3 \in DOMAIN stack /\ stack'[i] = stack[i - 3] /\ i > 3
    <3> SUFFICES ASSUME i \notin {1, 2, 3}
                 PROVE  i - 3 \in DOMAIN stack /\ stack'[i] = stack[i - 3] /\ i > 3
      OBVIOUS
    <3>1. i \in 4 .. Len(stack) + 3
      BY <1>13
    <3>2. i - 3 \in 1 .. Len(stack) /\ (i - 3) + 3 = i
      BY <1>13, <3>1
    <3> QED
      BY <1>1, <1>13, <3>1, <3>2
  <2>2. \A i \in DOMAIN stack : stack[i].call = "settle" =>
          stack[i].job \in Jobs /\ stack[i].job # j /\ status'[stack[i].job] = "settling"
    BY <1>1, <1>2, <1>10, FrameType DEF StackInv, SettlesOnce
  <2>3. \A i \in DOMAIN stack' : stack'[i].call = "settle" =>
          \/ i = 3 /\ stack'[i].job = j
          \/ i - 3 \in DOMAIN stack /\ stack'[i] = stack[i - 3] /\ stack'[i].job # j
                /\ status'[stack'[i].job] = "settling"
    BY <1>13, <2>1, <2>2, FrameFields
  <2>4. \A i \in DOMAIN stack' : stack'[i].call = "settle" => status'[stack'[i].job] = "settling"
    BY <1>10, <2>3
  <2>5. ASSUME NEW i \in DOMAIN stack', NEW k \in DOMAIN stack', stack'[i].call = "settle",
               stack'[k].call = "settle", stack'[i].job = stack'[k].job
        PROVE  i = k
    <3>1. CASE stack'[i].job = j
      BY <2>3, <2>5, <3>1
    <3>2. CASE stack'[i].job # j
      <4>1. i - 3 = k - 3
        BY <1>2, <2>3, <2>5, <3>2 DEF StackInv, SettlesOnce
      <4> QED
        BY <1>13, <4>1
    <3> QED
      BY <3>1, <3>2
  <2> QED
    BY <2>4, <2>5 DEF SettlesOnce
<1>15. Served'
  <2> SUFFICES ASSUME NEW i \in Jobs, status'[i] = "ready"
               PROVE  /\ stack' # <<>>
                      /\ stack'[1] \in {DrainLane(Lane[i]), Pump(Lane[i])}
                      /\ 2 \in DOMAIN stack' /\ stack'[2] = Pump(Lane[i])
    BY DEF Served
  <2>1. Lane[i] = l
    BY <1>1, <1>10
  <2> QED
    BY <1>13, <2>1
<1>16. DrainingIsPumping' /\ BuriedIsBusy'
  <2>1. draining' = draining
    BY <1>4 DEF laneVars
  <2>2. /\ 2 \in DOMAIN stack' /\ stack'[2] = Pump(l)
        /\ \A k \in 1 .. 2 - 1 : stack'[k].lane = l
    BY <1>13, FrameFields
  <2>3. ASSUME NEW m \in Lanes, m # l, draining[m]
        PROVE  /\ \E i \in Jobs : Lane[i] = m /\ status'[i] = "running"
               /\ \E i \in DOMAIN stack' : stack'[i] = Pump(m)
    <3>1. PICK i \in Jobs : Lane[i] = m /\ status[i] = "running"
      BY <1>1, <2>3, OthersAreBusy
    <3>2. status'[i] = "running"
      BY <1>1, <1>10, <3>1
    <3>3. PICK k \in 1 .. Len(stack) : stack[k] = Pump(m)
      BY <1>1, <1>2, <2>3 DEF StackInv, DrainingIsPumping
    <3>4. k + 3 \in DOMAIN stack' /\ stack'[k + 3] = Pump(m)
      BY <1>13, <3>3
    <3> QED
      BY <3>1, <3>2, <3>4
  <2>4. DrainingIsPumping'
    BY <2>1, <2>2, <2>3 DEF DrainingIsPumping
  <2>5. BuriedIsBusy'
    BY <2>1, <2>2, <2>3 DEF BuriedIsBusy
  <2> QED
    BY <2>4, <2>5
<1>17. TypeOK'
  <2>1. runner' \in [Jobs -> Lanes \cup {NoLane}] /\ startGen' \in [Jobs -> Nat]
    BY <1>1, <1>2 DEF TypeOK
  <2> QED
    BY <1>2, <1>4, <1>9, <1>11, <1>13, <2>1, TidyJobs DEF TypeOK, laneVars
<1> QED
  BY <1>9, <1>11, <1>12, <1>14, <1>15, <1>16, <1>17, TidyJobs DEF IInv, StackInv

\* The task enqueues its inner job: that job is behind a lock, or of another lane.
LEMMA StartNestedStep ==
  ASSUME IInv, NEW l \in Lanes, NEW j \in Jobs, StartNested(l, j)
  PROVE  IInv'
<1> USE AstraeaQueueAssumption
<1> DEFINE now == [status EXCEPT ![j] = "running"]
           x == Inner[j]
<1>1. /\ status[j] = "ready" /\ Lane[j] = l /\ l \in locked
      /\ \A i \in Jobs : status[i] = "ready" => i = j
      /\ \A i \in Jobs : Lane[i] = l => status[i] # "running"
      /\ TakeNext(levels, Est) = Nobody
      /\ stack \in Seq(Frames) /\ stack # <<>> /\ stack[1] = Pump(l)
      /\ runner' = [runner EXCEPT ![j] = l] /\ startGen' = [startGen EXCEPT ![j] = generation]
  BY TakeFacts DEF StartNested
<1>2. TypeOK /\ JobsInv /\ SlotsAreBusyTasks /\ StartedInThePast /\ StackInv
  BY DEF IInv
<1>3. x \in Jobs /\ x # j /\ status[x] = "new" /\ Lane[x] \in Lanes
  BY <1>1, <1>2 DEF StartNested, Nested, JobsInv, OuterFirst
<1>4. /\ now \in [Jobs -> Status] /\ now[j] = "running"
      /\ \A i \in Jobs : i # j => now[i] = status[i]
  BY <1>2 DEF TypeOK, Status
<1>5. /\ Dispatch(x, Nobody, now) /\ OccupySlot(l, j)
      /\ stack' = <<DrainLane(Lane[x])>> \o stack
      /\ UNCHANGED <<cap, draining, generation, gatewayDraining>>
  BY <1>1 DEF StartNested
<1> HIDE DEF now, x
<1>6. NoneReady(Nobody, now)
  BY <1>1, <1>4 DEF NoneReady
<1>7. HeldBack(pending, locked, now)
  <2>1. \A i \in Jobs : status[i] = "pending" => now[i] = "pending"
    BY <1>1, <1>4
  <2> QED
    BY <1>2, <2>1, StillHeldBack DEF JobsInv
<1>8. \A m \in Lanes : LockOf(m, locked, now)
  <2>1. \A i \in Jobs : now[i] \in {"ready", "running"} <=> status[i] \in {"ready", "running"}
    BY <1>1, <1>4
  <2> QED
    BY <1>2, <2>1 DEF JobsInv, LockOf
<1>9. /\ Tidy(levels', locked', pending', status')
      /\ \A i \in Jobs : i # x => status'[i] = now[i]
      /\ status'[x] \in {"pending", "ready"}
      /\ status'[x] = "ready" => Lane[x] \notin locked
  BY <1>2, <1>3, <1>4, <1>5, <1>6, <1>7, <1>8, DispatchFacts
<1>10. /\ status' \in [Jobs -> Status] /\ status'[j] = "running"
       /\ \A i \in Jobs : i # x /\ i # j => status'[i] = status[i]
  BY <1>3, <1>4, <1>9 DEF Tidy
<1>11. OuterFirst'
  <2> SUFFICES ASSUME NEW i \in Jobs, Nested(i), status'[i] \in {"new", "pending", "ready", "refused"}
               PROVE  status'[Inner[i]] = "new"
    BY DEF OuterFirst, Nested
  <2>1. i # j
    BY <1>10
  <2>2. status[i] \in {"new", "pending", "ready", "refused"}
    BY <1>3, <1>10, <2>1
  <2>3. Inner[i] \in Jobs /\ status[Inner[i]] = "new" /\ Inner[i] # x
    BY <1>2, <2>1, <2>2 DEF JobsInv, OuterFirst, Nested, x
  <2>4. Inner[i] # j
    BY <1>1, <2>3
  <2> QED
    BY <1>10, <2>3, <2>4
<1>12. /\ SlotsAreBusyTasks' /\ StartedInThePast'
       /\ active' \in [Lanes -> SUBSET Jobs]
       /\ runner' \in [Jobs -> Lanes \cup {NoLane}] /\ startGen' \in [Jobs -> Nat]
  <2>1. \A i \in Jobs : status'[i] = "running" <=> status[i] = "running" \/ i = j
    BY <1>3, <1>9, <1>10
  <2> QED
    BY <1>1, <1>5, <2>1, SlotTaken
<1>13. /\ stack' \in Seq(Frames) /\ Len(stack') = Len(stack) + 1 /\ Len(stack) \in Nat \ {0}
       /\ stack'[1] = DrainLane(Lane[x])
       /\ \A i \in 1 .. Len(stack) : stack'[i + 1] = stack[i]
  <2>1. DrainLane(Lane[x]) \in Frames
    BY <1>3, FrameType
  <2>2. Len(stack) \in Nat \ {0}
    BY <1>1
  <2> QED
    BY <1>1, <1>5, <2>1, <2>2, PushedOne
<1>14. SettlesOnce'
  <2>1. ASSUME NEW i \in DOMAIN stack', stack'[i].call = "settle"
        PROVE  i - 1 \in DOMAIN stack /\ stack'[i] = stack[i - 1]
    <3>1. i # 1
      BY <1>13, <2>1, FrameFields
    <3>2. i - 1 \in 1 .. Len(stack) /\ (i - 1) + 1 = i
      BY <1>13, <3>1
    <3> QED
      BY <1>1, <1>13, <3>2
  <2>2. \A i \in Jobs : status[i] = "settling" => status'[i] = "settling"
    BY <1>1, <1>3, <1>10
  <2>3. 1 \in Int
    OBVIOUS
  <2> QED
    BY <1>1, <1>2, <1>13, <2>1, <2>2, <2>3, SettlesKept DEF StackInv
<1>15. Served'
  <2> SUFFICES ASSUME NEW i \in Jobs, status'[i] = "ready"
               PROVE  i = x /\ ~draining'[Lane[x]]
    BY <1>13 DEF Served
  <2>1. i = x
    BY <1>1, <1>10
  <2>2. Lane[x] \notin locked
    BY <1>9, <2>1
  <2>3. \A k \in Jobs : Lane[k] = Lane[x] => status[k] # "running"
    BY <1>2, <1>3, <2>2 DEF JobsInv, LockOf
  <2>4. Lane[x] # l
    BY <1>1, <2>2
  <2>5. ~draining[Lane[x]]
    BY <1>1, <1>3, <2>3, <2>4, OthersAreBusy
  <2> QED
    BY <1>5, <2>1, <2>5
<1>16. DrainingIsPumping'
  <2> SUFFICES ASSUME NEW m \in Lanes, draining[m]
               PROVE  \E i \in DOMAIN stack' : stack'[i] = Pump(m)
    BY <1>5 DEF DrainingIsPumping
  <2>1. PICK i \in 1 .. Len(stack) : stack[i] = Pump(m)
    BY <1>1, <1>2 DEF StackInv, DrainingIsPumping
  <2>2. i + 1 \in DOMAIN stack'
    BY <1>13
  <2> QED
    BY <1>13, <2>1, <2>2
<1>17. BuriedIsBusy'
  <2> SUFFICES ASSUME NEW m \in Lanes, draining[m]
               PROVE  \E i \in Jobs : Lane[i] = m /\ status'[i] = "running"
    BY <1>5 DEF BuriedIsBusy
  <2>1. CASE m = l
    BY <1>1, <1>10, <2>1
  <2>2. CASE m # l
    <3>1. PICK i \in Jobs : Lane[i] = m /\ status[i] = "running"
      BY <1>1, <2>2, OthersAreBusy
    <3> QED
      BY <1>3, <1>10, <3>1
  <2> QED
    BY <2>1, <2>2
<1>18. TypeOK'
  BY <1>2, <1>5, <1>9, <1>11, <1>12, <1>13, TidyJobs DEF TypeOK
<1> QED
  BY <1>9, <1>11, <1>12, <1>14, <1>15, <1>16, <1>17, <1>18, TidyJobs DEF IInv, StackInv

LEMMA SettleStep ==
  ASSUME IInv, NEW j \in Jobs, NEW r \in {"resolved", "failed"}, Settle(j, r)
  PROVE  IInv'
<1>1. TypeOK /\ JobsInv /\ SlotsAreBusyTasks /\ StartedInThePast /\ StackInv
  BY DEF IInv
<1>2. /\ stack \in Seq(Frames) /\ stack # <<>> /\ stack[1] = SettleEntry(j, r)
      /\ stack[1].call = "settle" /\ stack[1].job = j
      /\ stack' = Tail(stack) /\ Len(stack) \in Nat \ {0}
      /\ status' = [status EXCEPT ![j] = r]
      /\ UNCHANGED <<levels, locked, pending, laneVars, runner, startGen>>
  BY <1>1, FrameFields DEF TypeOK, Settle, Calling, Idle, Return
<1>3. /\ stack' \in Seq(Frames) /\ Len(stack') = Len(stack) - 1
      /\ \A i \in 1 .. Len(stack) - 1 : stack'[i] = stack[i + 1]
  BY <1>2, Popped
<1>4. status[j] = "settling"
  <2>1. 1 \in DOMAIN stack
    BY <1>2
  <2> QED
    BY <1>1, <1>2, <2>1 DEF StackInv, SettlesOnce
<1>5. /\ status' \in [Jobs -> Status] /\ status'[j] = r
      /\ \A i \in Jobs : i # j => status'[i] = status[i]
  BY <1>1, <1>2 DEF TypeOK, Status, Settled
<1>6. \A i \in Jobs : status[i] # "ready"
  BY <1>1, <1>2, FrameFields DEF StackInv, Served
<1>7. NoneReady(levels, status)
  BY <1>1, <1>6 DEF JobsInv, AtMostOneReady, OneReady
<1>8. JobsInv'
  <2>1. NoneReady(levels', status')
    BY <1>2, <1>5, <1>7 DEF NoneReady
  <2>2. HeldBack(pending', locked', status')
    <3>1. \A i \in Jobs : status[i] = "pending" => status'[i] = "pending"
      BY <1>4, <1>5
    <3> QED
      BY <1>1, <1>2, <3>1, StillHeldBack DEF JobsInv
  <2>3. \A m \in Lanes : LockOf(m, locked', status')
    <3>1. \A i \in Jobs : status'[i] \in {"ready", "running"} <=> status[i] \in {"ready", "running"}
      BY <1>4, <1>5
    <3> QED
      BY <1>1, <1>2, <3>1 DEF JobsInv, LockOf
  <2>4. OuterFirst'
    <3> SUFFICES ASSUME NEW i \in Jobs, Nested(i), status'[i] \in {"new", "pending", "ready", "refused"}
                 PROVE  status'[Inner[i]] = "new"
      BY DEF OuterFirst, Nested
    <3>1. i # j
      BY <1>5
    <3>2. Inner[i] \in Jobs /\ status[Inner[i]] = "new"
      BY <1>1, <1>5, <3>1, AstraeaQueueAssumption DEF JobsInv, OuterFirst, Nested
    <3> QED
      BY <1>4, <1>5, <3>2
  <2> QED
    BY <2>1, <2>2, <2>3, <2>4 DEF JobsInv, AtMostOneReady
<1>9. SlotsAreBusyTasks' /\ StartedInThePast'
  <2>1. \A i \in Jobs : status'[i] = "running" <=> status[i] = "running"
    BY <1>4, <1>5
  <2> QED
    BY <1>1, <1>2, <2>1, SlotsKept DEF laneVars
<1>10. SettlesOnce'
  <2>1. \A i \in DOMAIN stack' : i + 1 \in DOMAIN stack /\ stack'[i] = stack[i + 1] /\ i + 1 # 1
    BY <1>2, <1>3
  <2>2. ASSUME NEW i \in DOMAIN stack', stack'[i].call = "settle"
        PROVE  status'[stack'[i].job] = "settling"
    <3>1. stack[i + 1].job \in Jobs /\ status[stack[i + 1].job] = "settling"
      BY <1>1, <1>2, <2>1, <2>2, FrameType DEF StackInv, SettlesOnce
    <3>2. 1 \in DOMAIN stack
      BY <1>2
    <3>3. stack[i + 1].job # j
      BY <1>1, <1>2, <2>1, <2>2, <3>2 DEF StackInv, SettlesOnce
    <3> QED
      BY <1>5, <2>1, <3>1, <3>3
  <2>3. ASSUME NEW i \in DOMAIN stack', NEW k \in DOMAIN stack', stack'[i].call = "settle",
               stack'[k].call = "settle", stack'[i].job = stack'[k].job
        PROVE  i = k
    <3>1. i + 1 = k + 1
      BY <1>1, <2>1, <2>3 DEF StackInv, SettlesOnce
    <3> QED
      BY <1>3, <3>1
  <2> QED
    BY <2>2, <2>3 DEF SettlesOnce
<1>11. Served'
  BY <1>4, <1>5, <1>6 DEF Served
<1>12. draining' = draining
  BY <1>2 DEF laneVars
<1>13. DrainingIsPumping'
  <2> SUFFICES ASSUME NEW m \in Lanes, draining[m] PROVE \E i \in DOMAIN stack' : stack'[i] = Pump(m)
    BY <1>12 DEF DrainingIsPumping
  <2>1. PICK i \in DOMAIN stack : stack[i] = Pump(m)
    BY <1>1 DEF StackInv, DrainingIsPumping
  <2>2. i # 1
    BY <1>2, <2>1, FrameFields
  <2>3. i - 1 \in 1 .. Len(stack) - 1 /\ (i - 1) + 1 = i
    BY <1>2, <2>2
  <2> QED
    BY <1>3, <2>1, <2>3
<1>14. BuriedIsBusy'
  <2> SUFFICES ASSUME NEW m \in Lanes, draining[m],
                      ~\E i \in Jobs : Lane[i] = m /\ status'[i] = "running"
               PROVE  \E i \in DOMAIN stack' :
                        /\ stack'[i] = Pump(m)
                        /\ \A k \in 1 .. i - 1 : stack'[k].call = "settle" \/ stack'[k].lane = m
    BY <1>12 DEF BuriedIsBusy
  <2>1. ~\E i \in Jobs : Lane[i] = m /\ status[i] = "running"
    BY <1>4, <1>5
  <2>2. PICK i \in DOMAIN stack :
          /\ stack[i] = Pump(m)
          /\ \A k \in 1 .. i - 1 : stack[k].call = "settle" \/ stack[k].lane = m
    BY <1>1, <2>1 DEF StackInv, BuriedIsBusy
  <2>3. i # 1
    BY <1>2, <2>2, FrameFields
  <2>4. i - 1 \in 1 .. Len(stack) - 1 /\ (i - 1) + 1 = i
    BY <1>2, <2>3
  <2>5. \A k \in 1 .. (i - 1) - 1 : stack'[k] = stack[k + 1] /\ k + 1 \in 1 .. i - 1
    BY <1>3, <2>4
  <2>6. i - 1 \in DOMAIN stack' /\ stack'[i - 1] = Pump(m)
    BY <1>3, <2>2, <2>4
  <2>7. \A k \in 1 .. (i - 1) - 1 : stack'[k].call = "settle" \/ stack'[k].lane = m
    BY <2>2, <2>5
  <2> QED
    BY <2>6, <2>7
<1>15. TypeOK'
  BY <1>1, <1>2, <1>3, <1>5 DEF TypeOK, laneVars
<1> QED
  BY <1>8, <1>9, <1>10, <1>11, <1>13, <1>14, <1>15 DEF IInv, StackInv

LEMMA Inductive ==
  ASSUME IInv, [Next]_vars
  PROVE  IInv'
<1> USE AstraeaQueueAssumption
<1>1. ASSUME NEW l \in Lanes, DrainBlocked(l) \/ DrainBegin(l) \/ PumpExit(l) PROVE IInv'
  BY <1>1, DrainBlockedStep, DrainBeginStep, PumpExitStep
<1>2. ASSUME NEW l \in Lanes, NEW j \in Jobs, Start(l, j) PROVE IInv'
  BY <1>2, StartLeafStep, StartThrowsStep, StartNestedStep, StartNestedRefusedStep DEF Start
<1>3. ASSUME NEW j \in Jobs, NEW r \in {"resolved", "failed"}, Settle(j, r) PROVE IInv'
  BY <1>3, SettleStep
<1>4. ASSUME NEW j \in TopLevel, Enqueue(j) \/ RefuseWhileDraining(j) PROVE IInv'
  BY <1>4, EnqueueStep, RefuseStep
<1>5. ASSUME NEW j \in Jobs, Finish(j) PROVE IInv'
  BY <1>5, FinishStep DEF Finish
<1>6. ASSUME UNCHANGED vars PROVE IInv'
  <2>1. TypeOK'
    BY <1>6 DEF vars, IInv, TypeOK
  <2>2. JobsInv'
    BY <1>6 DEF vars, IInv, JobsInv, AtMostOneReady, OuterFirst
  <2>3. SlotsAreBusyTasks' /\ StartedInThePast'
    BY <1>6 DEF vars, IInv, SlotsAreBusyTasks, StartedInThePast, Current
  <2>4. StackInv'
    BY <1>6 DEF vars, IInv, StackInv, SettlesOnce, Served, DrainingIsPumping, BuriedIsBusy
  <2> QED
    BY <2>1, <2>2, <2>3, <2>4 DEF IInv
<1>7. ASSUME NEW l \in Clearable, ClearLane(l) PROVE IInv'
  BY <1>6, <1>7 DEF ClearLane
<1>8. ASSUME NEW l \in Configurable, NEW n \in 0 .. MaxCap, SetConcurrency(l, n) PROVE IInv'
  BY <1>8, SetConcurrencyStep
<1>9. CASE MarkDraining \/ ResetAllLanes
  BY <1>9, MarkDrainingStep, ResetStep
<1> QED
  BY <1>1, <1>2, <1>3, <1>4, <1>5, <1>6, <1>7, <1>8, <1>9 DEF Next, StackStep, LoopStep

-----------------------------------------------------------------------------
(* Theorems *)

\* The inductive invariant, of every behaviour of the installed queue.
THEOREM Invariance == Spec => []IInv
<1>1. Init => IInv
  BY InitIInv
<1>2. IInv /\ [Next]_vars => IInv'
  BY Inductive
<1> QED
  BY <1>1, <1>2, PTL DEF Spec

\* Type correctness of the installed queue.
THEOREM TypeCorrect == Spec => []TypeOK
<1>1. IInv => TypeOK
  BY DEF IInv
<1> QED
  BY <1>1, Invariance, PTL

\* The MLFQ that all lanes share never holds more than one job.
THEOREM OneAtATime == Spec => []AtMostOneReady
<1>1. IInv => AtMostOneReady
  BY DEF IInv, JobsInv
<1> QED
  BY <1>1, Invariance, PTL

\* A lane is locked exactly while one of its jobs is in the MLFQ or runs, also when
\* the job is a task that an in-process restart orphaned.
THEOREM LocksAreHeldByOneJob == Spec => []LockIsOneJob
<1>1. IInv => LockIsOneJob
  BY DEF IInv, JobsInv, LockOf, LockIsOneJob, Holds
<1> QED
  BY <1>1, Invariance, PTL

\* The slots of a lane are held by exactly its running tasks of this generation,
\* whichever pump takes them from the shared MLFQ.
THEOREM SlotsAreExact == Spec => []SlotsAreBusyTasks
<1>1. IInv => SlotsAreBusyTasks
  BY DEF IInv
<1> QED
  BY <1>1, Invariance, PTL

\* No pump gives up while the MLFQ holds a job: none is left there between tasks.
THEOREM NothingLeftInTheMLFQ == Spec => []PumpsToTheEnd
<1>1. ASSUME IInv PROVE PumpsToTheEnd
  <2>1. AtMostOneReady
    BY <1>1 DEF IInv, JobsInv
  <2>2. (\A j \in Jobs : status[j] # "ready") => GloballyEmpty(levels)
    BY <2>1, EmptyIsNobody DEF AtMostOneReady, NoneReady, OneReady
  <2>3. Idle => \A j \in Jobs : status[j] # "ready"
    BY <1>1 DEF IInv, StackInv, Served, Idle
  <2>4. ASSUME NEW l \in Lanes, Calling(Pump(l)), ~HasRoom(l)
        PROVE  \A j \in Jobs : status[j] # "ready"
    BY <1>1, <2>4, ReadyHasRoom
  <2> QED
    BY <2>2, <2>3, <2>4 DEF PumpsToTheEnd
<1> QED
  BY <1>1, Invariance, PTL

-----------------------------------------------------------------------------
(* The installed queue implements the lane contract: a lane's waiting jobs are *)
(* the one in the MLFQ, if any, and those held back behind it.                 *)

Waiting == [l \in Lanes |-> InMLFQ(l) \o pending[l]]
Running == [l \in Lanes |-> {j \in Jobs : Lane[j] = l /\ status[j] = "running"}]
Accepted == {j \in Jobs : status[j] \notin {"new", "refused"}}

\* The same for given entries and held-back jobs.
WaitingAt(st, pd) ==
  [l \in Lanes |->
     (LET ready == {j \in Jobs : Lane[j] = l /\ st[j] = "ready"}
      IN  IF ready = {} THEN <<>> ELSE <<CHOOSE j \in ready : TRUE>>) \o pd[l]]

LEMMA WaitingIs ==
  /\ Waiting = WaitingAt(status, pending)
  /\ Waiting' = WaitingAt(status', pending')
BY DEF Waiting, WaitingAt, InMLFQ

LEMMA ConcatFacts ==
  ASSUME NEW S, NEW s \in Seq(S), NEW x \in S
  PROVE  /\ <<>> \o s = s
         /\ <<x>> \o s \in Seq(S) /\ <<x>> \o s # <<>>
         /\ Head(<<x>> \o s) = x /\ Tail(<<x>> \o s) = s
         /\ s = <<>> => <<x>> \o s = Append(s, x)
         /\ s # <<>> => <<Head(s)>> \o Tail(s) = s
OBVIOUS

LEMMA NoneWaitsInTheMLFQ ==
  ASSUME NEW st, NEW pd \in [Lanes -> Seq(Jobs)], \A j \in Jobs : st[j] # "ready"
  PROVE  WaitingAt(st, pd) = pd
<1>1. \A l \in Lanes : {j \in Jobs : Lane[j] = l /\ st[j] = "ready"} = {}
  OBVIOUS
<1>2. \A l \in Lanes : <<>> \o pd[l] = pd[l]
  <2> TAKE l \in Lanes
  <2>1. pd[l] \in Seq(Jobs)
    OBVIOUS
  <2> QED
    BY <2>1
<1> QED
  BY <1>1, <1>2 DEF WaitingAt

LEMMA OneWaitsInTheMLFQ ==
  ASSUME NEW st \in [Jobs -> Status], NEW pd \in [Lanes -> Seq(Jobs)], NEW j \in Jobs,
         \A i \in Jobs : st[i] = "ready" <=> i = j,
         NEW w \in [Lanes -> Seq(Jobs)],
         \A l \in Lanes : w[l] = IF l = Lane[j] THEN <<j>> \o pd[l] ELSE pd[l]
  PROVE  WaitingAt(st, pd) = w
<1> DEFINE ready(l) == {i \in Jobs : Lane[i] = l /\ st[i] = "ready"}
<1>1. ready(Lane[j]) = {j} /\ \A l \in Lanes : l # Lane[j] => ready(l) = {}
  OBVIOUS
<1>2. (CHOOSE i \in {j} : TRUE) = j
  OBVIOUS
<1>3. \A l \in Lanes : <<>> \o pd[l] = pd[l]
  <2> TAKE l \in Lanes
  <2>1. pd[l] \in Seq(Jobs)
    OBVIOUS
  <2> QED
    BY <2>1
<1>4. ASSUME NEW l \in Lanes
      PROVE  WaitingAt(st, pd)[l] = IF l = Lane[j] THEN <<j>> \o pd[l] ELSE pd[l]
  <2>1. WaitingAt(st, pd)[l] = (IF ready(l) = {} THEN <<>> ELSE <<CHOOSE i \in ready(l) : TRUE>>) \o pd[l]
    BY DEF WaitingAt
  <2> HIDE DEF ready
  <2>2. CASE l = Lane[j]
    <3>1. ready(l) = {j} /\ ready(l) # {}
      BY <1>1, <2>2
    <3> QED
      BY <1>2, <2>1, <2>2, <3>1
  <2>3. CASE l # Lane[j]
    BY <1>1, <1>3, <2>1, <2>3
  <2> QED
    BY <2>2, <2>3
<1> QED
  BY <1>4 DEF WaitingAt

LEMMA DispatchQueues ==
  ASSUME TypeOK, HeldBack(pending, locked, status), NEW x \in Jobs, NEW lv,
         NEW now \in [Jobs -> Status], \A i \in Jobs : now[i] # "ready",
         Dispatch(x, lv, now)
  PROVE  /\ WaitingAt(status', pending') = [pending EXCEPT ![Lane[x]] = Append(@, x)]
         /\ status'[x] \in {"pending", "ready"}
         /\ \A i \in Jobs : i # x => status'[i] = now[i]
<1>1. pending \in [Lanes -> Seq(Jobs)] /\ Lane[x] \in Lanes
  BY AstraeaQueueAssumption DEF TypeOK
<1>2. CASE Lane[x] \in locked
  <2>1. pending' = [pending EXCEPT ![Lane[x]] = Append(@, x)] /\ status' = [now EXCEPT ![x] = "pending"]
    BY <1>2, IsNotIdempotent DEF Dispatch, IsLocked, Hold
  <2>2. /\ status'[x] = "pending" /\ \A i \in Jobs : i # x => status'[i] = now[i]
        /\ \A i \in Jobs : status'[i] # "ready"
    BY <2>1
  <2>3. pending' \in [Lanes -> Seq(Jobs)]
    BY <1>1, <2>1
  <2> QED
    BY <2>1, <2>2, <2>3, NoneWaitsInTheMLFQ
<1>3. CASE Lane[x] \notin locked
  <2>1. pending' = pending /\ status' = [now EXCEPT ![x] = "ready"]
    BY <1>3, IsNotIdempotent DEF Dispatch, IsLocked
  <2>2. /\ status'[x] = "ready" /\ \A i \in Jobs : i # x => status'[i] = now[i]
        /\ \A i \in Jobs : status'[i] = "ready" <=> i = x
        /\ status' \in [Jobs -> Status]
    BY <2>1 DEF Status
  <2>3. pending[Lane[x]] = <<>> /\ pending[Lane[x]] \in Seq(Jobs)
    BY <1>1, <1>3 DEF HeldBack
  <2>4. <<x>> \o pending[Lane[x]] = Append(pending[Lane[x]], x) /\ Append(pending[Lane[x]], x) \in Seq(Jobs)
    BY <2>3, ConcatFacts
  <2> DEFINE w == [pending EXCEPT ![Lane[x]] = Append(@, x)]
  <2>5. w \in [Lanes -> Seq(Jobs)]
    BY <1>1, <2>4
  <2>6. \A l \in Lanes : w[l] = IF l = Lane[x] THEN <<x>> \o pending'[l] ELSE pending'[l]
    BY <1>1, <2>1, <2>4
  <2>7. pending' \in [Lanes -> Seq(Jobs)] /\ status' \in [Jobs -> Status]
    BY <1>1, <2>1, <2>2
  <2>8. \A i \in Jobs : status'[i] = "ready" <=> i = x
    BY <2>2
  <2> HIDE DEF w
  <2>9. WaitingAt(status', pending') = w
    BY <2>5, <2>6, <2>7, <2>8, OneWaitsInTheMLFQ
  <2> QED
    BY <2>2, <2>9 DEF w
<1> QED
  BY <1>2, <1>3

LEMMA ReleaseQueues ==
  ASSUME TypeOK, NEW l \in Lanes, NEW lv, NEW now \in [Jobs -> Status],
         HeldBack(pending, locked, now), \A i \in Jobs : now[i] # "ready",
         Release(l, lv, now)
  PROVE  /\ WaitingAt(status', pending') = pending
         /\ \A i \in Jobs : status'[i] = now[i] \/ (now[i] = "pending" /\ status'[i] = "ready")
<1>1. pending \in [Lanes -> Seq(Jobs)] /\ pending[l] \in Seq(Jobs)
  BY DEF TypeOK
<1>2. CASE pending[l] = <<>>
  <2>1. pending' = pending /\ status' = now
    BY <1>2 DEF Release
  <2> QED
    BY <1>1, <2>1, NoneWaitsInTheMLFQ
<1>3. CASE pending[l] # <<>>
  <2> DEFINE x == Head(pending[l])
  <2>1. /\ pending' = [pending EXCEPT ![l] = Tail(@)]
        /\ status' = [now EXCEPT ![x] = "ready"]
    BY <1>3 DEF Release
  <2>2. x \in Jobs /\ pending[l][1] = x /\ 1 \in DOMAIN pending[l] /\ Tail(pending[l]) \in Seq(Jobs)
    BY <1>1, <1>3
  <2>3. Lane[x] = l /\ now[x] = "pending"
    BY <2>2 DEF HeldBack
  <2>4. <<x>> \o Tail(pending[l]) = pending[l]
    BY <1>1, <1>3, <2>2, ConcatFacts
  <2> HIDE DEF x
  <2>5. /\ \A i \in Jobs : status'[i] = IF i = x THEN "ready" ELSE now[i]
        /\ status' \in [Jobs -> Status]
    BY <2>1, <2>2 DEF Status
  <2>6. pending' \in [Lanes -> Seq(Jobs)] /\ status' \in [Jobs -> Status] /\ x \in Jobs
    BY <1>1, <2>1, <2>2, <2>5
  <2>7. \A m \in Lanes : pending[m] = IF m = Lane[x] THEN <<x>> \o pending'[m] ELSE pending'[m]
    BY <1>1, <2>1, <2>3, <2>4
  <2>8. \A i \in Jobs : status'[i] = "ready" <=> i = x
    BY <2>1, <2>2, <2>5
  <2>9. WaitingAt(status', pending') = pending
    BY <1>1, <2>6, <2>7, <2>8, OneWaitsInTheMLFQ
  <2> QED
    BY <2>3, <2>5, <2>9
<1> QED
  BY <1>2, <1>3

\* Without a job in the MLFQ a lane's waiting jobs are those held back.
LEMMA WaitingIsHeldBack ==
  ASSUME TypeOK, \A j \in Jobs : status[j] # "ready"
  PROVE  Waiting = pending
<1>1. pending \in [Lanes -> Seq(Jobs)]
  BY DEF TypeOK
<1> QED
  BY <1>1, WaitingIs, NoneWaitsInTheMLFQ

LEMMA RunningKept ==
  ASSUME \A i \in Jobs : status'[i] = "running" <=> status[i] = "running"
  PROVE  Running' = Running
BY DEF Running

LEMMA RunningGrows ==
  ASSUME NEW j \in Jobs, NEW l \in Lanes, Lane[j] = l,
         \A i \in Jobs : status'[i] = "running" <=> status[i] = "running" \/ i = j
  PROVE  Running' = [Running EXCEPT ![l] = @ \cup {j}]
<1>1. \A m \in Lanes : Running'[m] = IF m = l THEN Running[m] \cup {j} ELSE Running[m]
  BY DEF Running
<1>2. /\ Running = [m \in Lanes |-> Running[m]]
      /\ Running' = [m \in Lanes |-> Running'[m]]
  BY DEF Running
<1> QED
  BY <1>1, <1>2

LEMMA RunningShrinks ==
  ASSUME NEW j \in Jobs, NEW l \in Lanes, Lane[j] = l,
         \A i \in Jobs : status'[i] = "running" <=> status[i] = "running" /\ i # j
  PROVE  Running' = [Running EXCEPT ![l] = @ \ {j}]
<1>1. \A m \in Lanes : Running'[m] = IF m = l THEN Running[m] \ {j} ELSE Running[m]
  BY DEF Running
<1>2. /\ Running = [m \in Lanes |-> Running[m]]
      /\ Running' = [m \in Lanes |-> Running'[m]]
  BY DEF Running
<1> QED
  BY <1>1, <1>2

LEMMA AcceptedKept ==
  ASSUME \A i \in Jobs : status'[i] \in {"new", "refused"} <=> status[i] \in {"new", "refused"}
  PROVE  Accepted' = Accepted
BY DEF Accepted

LEMMA AcceptedGrows ==
  ASSUME NEW j \in Jobs, status[j] = "new", status'[j] \notin {"new", "refused"},
         \A i \in Jobs : i # j =>
           (status'[i] \in {"new", "refused"} <=> status[i] \in {"new", "refused"})
  PROVE  Accepted' = Accepted \cup {j} /\ j \notin Accepted
BY DEF Accepted

\* Steps that the contract does not see.
LEMMA Unseen ==
  ASSUME Waiting' = Waiting, Running' = Running, Accepted' = Accepted
  PROVE  UNCHANGED Contract!vars
BY DEF Contract!vars, Waiting, Running, Accepted

LEMMA EnqueueSubmits ==
  ASSUME IInv, NEW j \in TopLevel, Enqueue(j)
  PROVE  Contract!Submit(Lane[j], j)
<1>1. /\ TypeOK /\ JobsInv /\ StackInv /\ j \in Jobs /\ status[j] = "new" /\ Idle
      /\ Dispatch(j, levels, status)
  BY DEF IInv, TopLevel, Enqueue
<1>2. \A i \in Jobs : status[i] # "ready"
  BY <1>1, WhenIdle DEF NoneReady
<1>3. /\ Waiting' = [pending EXCEPT ![Lane[j]] = Append(@, j)]
      /\ status'[j] \in {"pending", "ready"}
      /\ \A i \in Jobs : i # j => status'[i] = status[i]
  <2>1. status \in [Jobs -> Status] /\ HeldBack(pending, locked, status)
    BY <1>1 DEF TypeOK, JobsInv
  <2> QED
    BY <1>1, <1>2, <2>1, DispatchQueues, WaitingIs
<1>4. Waiting = pending
  BY <1>1, <1>2, WaitingIsHeldBack
<1>5. Running' = Running
  BY <1>1, <1>3, RunningKept
<1>6. Accepted' = Accepted \cup {j} /\ j \notin Accepted
  BY <1>1, <1>3, AcceptedGrows
<1>7. Waiting' = [Waiting EXCEPT ![Lane[j]] = Append(@, j)]
  BY <1>3, <1>4
<1> QED
  BY <1>5, <1>6, <1>7 DEF Contract!Submit, Waiting, Running, Accepted

LEMMA FinishFinishes ==
  ASSUME IInv, NEW j \in Jobs, Finish(j)
  PROVE  Contract!Finish(Lane[j], j)
<1> DEFINE now == [status EXCEPT ![j] = "settling"]
<1>1. /\ TypeOK /\ JobsInv /\ StackInv /\ status[j] = "running" /\ Idle
      /\ Release(Lane[j], levels, now) /\ Lane[j] \in Lanes
  BY AstraeaQueueAssumption DEF IInv, Finish, FinishCurrent, FinishStale
<1>2. \A i \in Jobs : status[i] # "ready"
  BY <1>1, WhenIdle DEF NoneReady
<1>3. /\ now \in [Jobs -> Status] /\ now[j] = "settling"
      /\ \A i \in Jobs : i # j => now[i] = status[i]
  BY <1>1 DEF TypeOK, Status
<1> HIDE DEF now
<1>4. HeldBack(pending, locked, now)
  <2>1. \A i \in Jobs : status[i] = "pending" => now[i] = "pending"
    BY <1>1, <1>3
  <2> QED
    BY <1>1, <2>1, StillHeldBack DEF JobsInv
<1>5. /\ Waiting' = pending
      /\ \A i \in Jobs : status'[i] = now[i] \/ (now[i] = "pending" /\ status'[i] = "ready")
  <2>1. \A i \in Jobs : now[i] # "ready"
    BY <1>2, <1>3
  <2> QED
    BY <1>1, <1>3, <1>4, <2>1, ReleaseQueues, WaitingIs
<1>6. Waiting' = Waiting
  BY <1>1, <1>2, <1>5, WaitingIsHeldBack
<1>7. Running' = [Running EXCEPT ![Lane[j]] = @ \ {j}]
  <2>1. \A i \in Jobs : status'[i] = "running" <=> status[i] = "running" /\ i # j
    BY <1>3, <1>5
  <2> QED
    BY <1>1, <2>1, RunningShrinks
<1>8. Accepted' = Accepted
  <2>1. \A i \in Jobs : status'[i] \in {"new", "refused"} <=> status[i] \in {"new", "refused"}
    BY <1>1, <1>3, <1>5
  <2> QED
    BY <2>1, AcceptedKept
<1>9. j \in Running[Lane[j]]
  BY <1>1 DEF Running
<1> QED
  BY <1>6, <1>7, <1>8, <1>9 DEF Contract!Finish, Waiting, Running, Accepted

\* What the contract sees of a pump that takes a job.
LEMMA TakeStarts ==
  ASSUME IInv, NEW l \in Lanes, NEW j \in Jobs, Take(l, j)
  PROVE  /\ Contract!MayStart(l) /\ Head(Waiting[l]) = j
         /\ [Waiting EXCEPT ![l] = Tail(@)] = pending
<1>1. /\ TypeOK /\ status[j] = "ready" /\ Lane[j] = l
      /\ \A i \in Jobs : status[i] = "ready" => i = j
      /\ \A i \in Jobs : Lane[i] = l => status[i] # "running"
  BY TakeFacts DEF IInv
<1>2. pending \in [Lanes -> Seq(Jobs)] /\ status \in [Jobs -> Status]
  BY <1>1 DEF TypeOK
<1>3. \A i \in Jobs : status[i] = "ready" <=> i = j
  BY <1>1
<1>4. /\ <<j>> \o pending[l] \in Seq(Jobs) /\ <<j>> \o pending[l] # <<>>
      /\ Head(<<j>> \o pending[l]) = j /\ Tail(<<j>> \o pending[l]) = pending[l]
  <2>1. pending[l] \in Seq(Jobs)
    BY <1>2
  <2> QED
    BY <2>1, ConcatFacts
<1> DEFINE w == [pending EXCEPT ![l] = <<j>> \o @]
<1>5. w \in [Lanes -> Seq(Jobs)]
  BY <1>2, <1>4
<1>6. \A m \in Lanes : w[m] = IF m = Lane[j] THEN <<j>> \o pending[m] ELSE pending[m]
  BY <1>1, <1>2
<1>7. Head(w[l]) = j /\ w[l] # <<>> /\ [w EXCEPT ![l] = Tail(@)] = pending
  BY <1>2, <1>4
<1> HIDE DEF w
<1>8. WaitingAt(status, pending) = w
  BY <1>2, <1>3, <1>5, <1>6, OneWaitsInTheMLFQ
<1>9. Waiting = w
  BY <1>8, WaitingIs
<1>10. Cardinality(Running[l]) < [m \in Lanes |-> 1][l]
  <2>1. Running[l] = {}
    BY <1>1 DEF Running
  <2> QED
    BY <2>1, FS_EmptySet
<1>11. Contract!MayStart(l)
  <2>1. Waiting[l] # <<>>
    BY <1>7, <1>9
  <2>2. /\ [m \in Lanes |-> InMLFQ(m) \o pending[m]][l] # <<>>
        /\ Cardinality([m \in Lanes |-> {i \in Jobs : Lane[i] = m /\ status[i] = "running"}][l])
             < [m \in Lanes |-> 1][l]
    BY <1>10, <2>1 DEF Waiting, Running
  <2> QED
    BY <2>2 DEF Contract!MayStart, Cardinality, Contract!Cardinality
<1> QED
  BY <1>7, <1>9, <1>11

LEMMA StartLeafStarts ==
  ASSUME IInv, NEW l \in Lanes, NEW j \in Jobs, StartLeaf(l, j) \/ StartNestedRefused(l, j)
  PROVE  Contract!Start(l)
<1>1. /\ Take(l, j) /\ Contract!MayStart(l) /\ Head(Waiting[l]) = j
      /\ [Waiting EXCEPT ![l] = Tail(@)] = pending
      /\ TypeOK /\ Lane[j] = l /\ status[j] = "ready" /\ pending' = pending
      /\ \A i \in Jobs : status[i] = "ready" => i = j
  BY TakeStarts, TakeFacts DEF StartLeaf, StartNestedRefused, IInv
<1>2. /\ status' \in [Jobs -> Status] /\ status'[j] = "running"
      /\ \A i \in Jobs : i # j =>
           \/ status'[i] = status[i]
           \/ status[i] = "new" /\ status'[i] = "refused"
  <2>1. status \in [Jobs -> Status]
    BY <1>1 DEF TypeOK
  <2>2. CASE StartLeaf(l, j)
    BY <2>1, <2>2 DEF StartLeaf, Status
  <2>3. CASE StartNestedRefused(l, j)
    <3>1. Inner[j] \in Jobs /\ Inner[j] # j /\ status[Inner[j]] = "new"
      BY <1>1, <2>3, AstraeaQueueAssumption DEF StartNestedRefused, Nested, IInv, JobsInv, OuterFirst
    <3>2. status' = [status EXCEPT ![j] = "running", ![Inner[j]] = "refused"]
      BY <2>3 DEF StartNestedRefused
    <3>3. "running" \in Status /\ "refused" \in Status
      BY DEF Status, Settled
    <3> QED
      BY <2>1, <3>1, <3>2, <3>3
  <2> QED
    BY <2>2, <2>3
<1>3. Waiting' = pending
  <2>1. \A i \in Jobs : status'[i] # "ready"
    BY <1>1, <1>2
  <2>2. pending' \in [Lanes -> Seq(Jobs)]
    BY <1>1 DEF TypeOK
  <2> QED
    BY <1>1, <2>1, <2>2, NoneWaitsInTheMLFQ, WaitingIs
<1>4. Running' = [Running EXCEPT ![l] = @ \cup {j}]
  <2>1. \A i \in Jobs : status'[i] = "running" <=> status[i] = "running" \/ i = j
    BY <1>2
  <2> QED
    BY <1>1, <2>1, RunningGrows
<1>5. Accepted' = Accepted
  <2>1. \A i \in Jobs : status'[i] \in {"new", "refused"} <=> status[i] \in {"new", "refused"}
    BY <1>1, <1>2
  <2> QED
    BY <2>1, AcceptedKept
<1>6. /\ Waiting' = [Waiting EXCEPT ![l] = Tail(@)]
      /\ Running' = [Running EXCEPT ![l] = @ \cup {Head(Waiting[l])}]
  BY <1>1, <1>3, <1>4
<1> QED
  BY <1>1, <1>5, <1>6 DEF Contract!Start, Contract!TakeSlot, Waiting, Running, Accepted

LEMMA StartThrowsStarts ==
  ASSUME IInv, NEW l \in Lanes, NEW j \in Jobs, StartThrows(l, j)
  PROVE  Contract!StartAndFail(l)
<1> DEFINE now == [status EXCEPT ![j] = "settling"]
<1>1. /\ Take(l, j) /\ Contract!MayStart(l)
      /\ [Waiting EXCEPT ![l] = Tail(@)] = pending
      /\ TypeOK /\ JobsInv /\ Lane[j] = l /\ status[j] = "ready"
      /\ \A i \in Jobs : status[i] = "ready" => i = j
  BY TakeStarts, TakeFacts DEF StartThrows, IInv
<1>2. /\ now \in [Jobs -> Status] /\ now[j] = "settling"
      /\ \A i \in Jobs : i # j => now[i] = status[i]
  BY <1>1 DEF TypeOK, Status
<1>3. Release(l, TakeNext(levels, Est), now)
  BY <1>1 DEF StartThrows
<1> HIDE DEF now
<1>4. HeldBack(pending, locked, now)
  <2>1. \A i \in Jobs : status[i] = "pending" => now[i] = "pending"
    BY <1>1, <1>2
  <2> QED
    BY <1>1, <2>1, StillHeldBack DEF JobsInv
<1>5. /\ Waiting' = pending
      /\ \A i \in Jobs : status'[i] = now[i] \/ (now[i] = "pending" /\ status'[i] = "ready")
  <2>1. \A i \in Jobs : now[i] # "ready"
    BY <1>1, <1>2
  <2> QED
    BY <1>1, <1>2, <1>3, <1>4, <2>1, ReleaseQueues, WaitingIs
<1>6. Running' = Running
  <2>1. \A i \in Jobs : status'[i] = "running" <=> status[i] = "running"
    BY <1>1, <1>2, <1>5
  <2> QED
    BY <2>1, RunningKept
<1>7. Accepted' = Accepted
  <2>1. \A i \in Jobs : status'[i] \in {"new", "refused"} <=> status[i] \in {"new", "refused"}
    BY <1>1, <1>2, <1>5
  <2> QED
    BY <2>1, AcceptedKept
<1>8. Waiting' = [Waiting EXCEPT ![l] = Tail(@)]
  BY <1>1, <1>5
<1> QED
  BY <1>1, <1>6, <1>7, <1>8 DEF Contract!StartAndFail, Waiting, Running, Accepted

LEMMA StartNestedStarts ==
  ASSUME IInv, NEW l \in Lanes, NEW j \in Jobs, StartNested(l, j)
  PROVE  Contract!StartAndSubmit(l, Lane[Inner[j]], Inner[j])
<1> DEFINE now == [status EXCEPT ![j] = "running"]
           x == Inner[j]
<1>1. /\ Take(l, j) /\ Contract!MayStart(l) /\ Head(Waiting[l]) = j
      /\ [Waiting EXCEPT ![l] = Tail(@)] = pending
      /\ TypeOK /\ JobsInv /\ Lane[j] = l /\ status[j] = "ready"
      /\ \A i \in Jobs : status[i] = "ready" => i = j
  BY TakeStarts, TakeFacts DEF StartNested, IInv
<1>2. /\ now \in [Jobs -> Status] /\ now[j] = "running"
      /\ \A i \in Jobs : i # j => now[i] = status[i]
  BY <1>1 DEF TypeOK, Status
<1>3. x \in Jobs /\ x # j /\ status[x] = "new"
  BY <1>1, AstraeaQueueAssumption DEF StartNested, Nested, JobsInv, OuterFirst
<1>4. Dispatch(x, TakeNext(levels, Est), now)
  BY <1>1 DEF StartNested
<1> HIDE DEF now, x
<1>5. /\ Waiting' = [pending EXCEPT ![Lane[x]] = Append(@, x)]
      /\ status'[x] \in {"pending", "ready"}
      /\ \A i \in Jobs : i # x => status'[i] = now[i]
  <2>1. \A i \in Jobs : now[i] # "ready"
    BY <1>1, <1>2
  <2>2. HeldBack(pending, locked, status)
    BY <1>1 DEF JobsInv
  <2> QED
    BY <1>1, <1>2, <1>3, <1>4, <2>1, <2>2, DispatchQueues, WaitingIs
<1>6. Running' = [Running EXCEPT ![l] = @ \cup {j}]
  <2>1. \A i \in Jobs : status'[i] = "running" <=> status[i] = "running" \/ i = j
    BY <1>2, <1>3, <1>5
  <2> QED
    BY <1>1, <2>1, RunningGrows
<1>7. Accepted' = Accepted \cup {x} /\ x \notin Accepted
  <2>1. \A i \in Jobs : i # x =>
          (status'[i] \in {"new", "refused"} <=> status[i] \in {"new", "refused"})
    BY <1>1, <1>2, <1>5
  <2> QED
    BY <1>3, <1>5, <2>1, AcceptedGrows
<1>8. /\ Waiting' = [[Waiting EXCEPT ![l] = Tail(@)] EXCEPT ![Lane[x]] = Append(@, x)]
      /\ Running' = [Running EXCEPT ![l] = @ \cup {Head(Waiting[l])}]
  BY <1>1, <1>5, <1>6
<1>9. Contract!StartAndSubmit(l, Lane[x], x)
  BY <1>1, <1>7, <1>8 DEF Contract!StartAndSubmit, Contract!TakeSlot, Waiting, Running, Accepted
<1> QED
  BY <1>9 DEF x

\* Steps that leave all but the new and the settled entries where they are.
LEMMA QuietStep ==
  ASSUME TypeOK, TypeOK', pending' = pending,
         \A i \in Jobs :
           \/ status'[i] = status[i]
           \/ status[i] = "new" /\ status'[i] = "refused"
           \/ status[i] = "settling" /\ status'[i] \in {"resolved", "failed"},
         (\A i \in Jobs : status[i] # "ready") \/ status' = status
  PROVE  UNCHANGED Contract!vars
<1>1. Waiting' = Waiting
  <2>1. CASE status' = status
    BY <2>1, WaitingIs
  <2>2. CASE \A i \in Jobs : status[i] # "ready"
    <3>1. pending' \in [Lanes -> Seq(Jobs)] /\ \A i \in Jobs : status'[i] # "ready"
      BY <2>2 DEF TypeOK
    <3> QED
      BY <2>2, <3>1, WaitingIs, WaitingIsHeldBack, NoneWaitsInTheMLFQ
  <2> QED
    BY <2>1, <2>2
<1>2. Running' = Running
  BY RunningKept
<1>3. Accepted' = Accepted
  BY AcceptedKept
<1> QED
  BY <1>1, <1>2, <1>3, Unseen

LEMMA ContractStackStep ==
  ASSUME IInv, IInv', StackStep
  PROVE  Contract!Next \/ UNCHANGED Contract!vars
<1>0. TypeOK /\ TypeOK'
  BY DEF IInv
<1>1. ASSUME NEW l \in Lanes, DrainBlocked(l) \/ DrainBegin(l) \/ PumpExit(l)
      PROVE  UNCHANGED Contract!vars
  <2>1. pending' = pending /\ status' = status
    BY <1>1 DEF DrainBlocked, DrainBegin, PumpExit
  <2> QED
    BY <1>0, <2>1, QuietStep
<1>2. ASSUME NEW l \in Lanes, NEW j \in Jobs, Start(l, j) PROVE Contract!Next
  <2>1. CASE StartLeaf(l, j) \/ StartNestedRefused(l, j)
    BY <2>1, StartLeafStarts DEF Contract!Next
  <2>2. CASE StartThrows(l, j)
    BY <2>2, StartThrowsStarts DEF Contract!Next
  <2>3. CASE StartNested(l, j)
    <3>1. Inner[j] \in Jobs /\ Lane[Inner[j]] \in Lanes
      BY <2>3, AstraeaQueueAssumption DEF StartNested, Nested
    <3> QED
      BY <2>3, <3>1, StartNestedStarts DEF Contract!Next
  <2> QED
    BY <1>2, <2>1, <2>2, <2>3 DEF Start
<1>3. ASSUME NEW j \in Jobs, NEW r \in {"resolved", "failed"}, Settle(j, r)
      PROVE  UNCHANGED Contract!vars
  <2>1. stack[1] = SettleEntry(j, r) /\ 1 \in DOMAIN stack /\ stack # <<>>
    BY <1>0, <1>3 DEF Settle, Calling, Idle, TypeOK
  <2>2. status[j] = "settling"
    BY <2>1, FrameFields DEF IInv, StackInv, SettlesOnce
  <2>3. \A i \in Jobs : status[i] # "ready"
    BY <2>1, FrameFields DEF IInv, StackInv, Served
  <2>4. /\ pending' = pending /\ status'[j] = r
        /\ \A i \in Jobs : i # j => status'[i] = status[i]
    BY <1>0, <1>3 DEF Settle, TypeOK
  <2> QED
    BY <1>0, <2>2, <2>3, <2>4, QuietStep
<1> QED
  BY <1>1, <1>2, <1>3 DEF StackStep

LEMMA ContractLoopStep ==
  ASSUME IInv, IInv', LoopStep
  PROVE  Contract!Next \/ UNCHANGED Contract!vars
<1>0. TypeOK /\ TypeOK'
  BY DEF IInv
<1>1. ASSUME NEW j \in TopLevel, Enqueue(j) PROVE Contract!Next
  <2>1. j \in Jobs /\ Lane[j] \in Lanes
    BY AstraeaQueueAssumption DEF TopLevel
  <2> QED
    BY <1>1, <2>1, EnqueueSubmits DEF Contract!Next
<1>2. ASSUME NEW j \in TopLevel, RefuseWhileDraining(j) PROVE UNCHANGED Contract!vars
  <2>1. /\ Idle /\ pending' = pending /\ status' = [status EXCEPT ![j] = "refused"]
        /\ status[j] = "new" /\ j \in Jobs
    BY <1>2 DEF RefuseWhileDraining, TopLevel
  <2>2. \A i \in Jobs : status[i] # "ready"
    BY <2>1, WhenIdle DEF IInv, NoneReady
  <2>3. status'[j] = "refused" /\ \A i \in Jobs : i # j => status'[i] = status[i]
    BY <1>0, <2>1 DEF TypeOK
  <2> QED
    BY <1>0, <2>1, <2>2, <2>3, QuietStep
<1>3. ASSUME NEW j \in Jobs, Finish(j) PROVE Contract!Next
  <2>1. Lane[j] \in Lanes
    BY AstraeaQueueAssumption
  <2> QED
    BY <1>3, <2>1, FinishFinishes DEF Contract!Next
<1>4. ASSUME pending' = pending, status' = status PROVE UNCHANGED Contract!vars
  BY <1>0, <1>4, QuietStep
<1>5. ASSUME NEW l, ClearLane(l) PROVE UNCHANGED Contract!vars
  BY <1>4, <1>5 DEF ClearLane, vars
<1>6. ASSUME NEW l, NEW n, SetConcurrency(l, n) PROVE UNCHANGED Contract!vars
  BY <1>4, <1>6 DEF SetConcurrency
<1>7. CASE MarkDraining \/ ResetAllLanes
  BY <1>4, <1>7 DEF MarkDraining, ResetAllLanes
<1> QED
  BY <1>1, <1>2, <1>3, <1>5, <1>6, <1>7 DEF LoopStep

\* The installed queue implements the lane contract with one slot for each lane:
\* jobs of a lane start one at a time, in the order of their submission.
THEOREM ImplementsLaneContract == Spec => ImplementsContract
<1>1. Init => Contract!Init
  <2> SUFFICES ASSUME Init PROVE Contract!Init
    OBVIOUS
  <2>1. \A j \in Jobs : status[j] = "new"
    BY DEF Init
  <2>2. Waiting = [l \in Lanes |-> <<>>]
    <3>1. TypeOK
      BY InitIInv DEF IInv
    <3> QED
      BY <2>1, <3>1, WaitingIsHeldBack DEF Init
  <2>3. Running = [l \in Lanes |-> {}] /\ Accepted = {}
    BY <2>1 DEF Running, Accepted
  <2> QED
    BY <2>2, <2>3 DEF Contract!Init, Waiting, Running, Accepted
<1>2. IInv /\ IInv' /\ [Next]_vars => [Contract!Next]_(Contract!vars)
  <2> SUFFICES ASSUME IInv, IInv', [Next]_vars PROVE Contract!Next \/ UNCHANGED Contract!vars
    OBVIOUS
  <2>1. CASE UNCHANGED vars
    <3>1. TypeOK /\ TypeOK' /\ pending' = pending /\ status' = status
      BY <2>1 DEF vars, IInv
    <3> QED
      BY <3>1, QuietStep
  <2> QED
    BY <2>1, ContractStackStep, ContractLoopStep DEF Next
<1> QED
  BY <1>1, <1>2, Invariance, PTL DEF Spec, ImplementsContract, Contract!Spec
=============================================================================
