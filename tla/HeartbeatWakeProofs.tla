------------------------ MODULE HeartbeatWakeProofs ------------------------
(* Wakes are kept and heartbeats go on, for any targets, batches and runners. *)
EXTENDS HeartbeatWake, TLAPS

-----------------------------------------------------------------------------
(* The inductive invariant *)

\* Runners are numbered in the order of their start.
Numbered == stopped \subseteq 1..starts /\ agents \subseteq 1..starts /\ handler \in 0..starts

\* A batch offers the wakes it took, and its turn is for one not answered yet.
OfTheBatch ==
  \A b \in Batches :
    /\ \A t \in Targets : todo[b][t] \in {NoWake, taken[b][t]}
    /\ at[b] = "turn" => todo[b][current[b]] # NoWake

DisabledIsMuted == ~enabled => muted

\* HeartbeatsKeepFiring without the turns: one for all agents has its wake in todo,
\* and one for a session does not break the chain.
Chained(r) ==
  \/ r \in ticking
  \/ pendingWakes["all"] # NoWake
  \/ \E b \in Batches : active[b] = r /\ todo[b]["all"] # NoWake

Chain == handler \in agents /\ ~muted => Chained(handler)

IInv ==
  /\ TypeOK /\ Numbered /\ OfTheBatch /\ DisabledIsMuted
  /\ PendingIsWatched /\ NoWakeForgotten /\ Chain

-----------------------------------------------------------------------------
(* Wakes *)

LEMMA WakeFacts ==
  ASSUME NEW w \in Wakes
  PROVE  /\ \A t \in Targets : w[t] \in 0..3
         /\ Nothing \in Wakes
         /\ w # Nothing => \E t \in Targets : w[t] # NoWake
BY DEF Wakes, Nothing, NoWake, Action

LEMMA UrgentFacts ==
  ASSUME NEW a \in 0..3, NEW b \in 0..3
  PROVE  Urgent(a, b) \in 0..3 /\ Urgent(a, b) >= a /\ Urgent(a, b) >= b
BY DEF Urgent

LEMMA QueueFacts ==
  ASSUME TypeOK, NEW t \in Targets, NEW p \in 0..3
  PROVE  /\ Queue(t, p) \in Wakes
         /\ Queue(t, p)[t] >= p
         /\ \A u \in Targets : Queue(t, p)[u] >= pendingWakes[u]
<1>1. pendingWakes \in [Targets -> 0..3]
  BY DEF TypeOK, Wakes, NoWake, Action
<1>2. /\ Queue(t, p)[t] = Urgent(pendingWakes[t], p)
      /\ \A u \in Targets : u # t => Queue(t, p)[u] = pendingWakes[u]
  BY <1>1 DEF Queue
<1>3. Urgent(pendingWakes[t], p) \in 0..3
  BY <1>1, UrgentFacts
<1>4. Queue(t, p) \in [Targets -> 0..3]
  BY <1>1, <1>3 DEF Queue
<1>5. \A u \in Targets : Queue(t, p)[u] >= pendingWakes[u]
  BY <1>1, <1>2, UrgentFacts
<1> QED
  BY <1>1, <1>2, <1>4, <1>5, UrgentFacts DEF Wakes, NoWake, Action

LEMMA QueueAllFacts ==
  ASSUME TypeOK, NEW w \in Wakes
  PROVE  /\ QueueAll(w) \in Wakes
         /\ \A t \in Targets : QueueAll(w)[t] >= w[t] /\ QueueAll(w)[t] >= pendingWakes[t]
<1>1. pendingWakes \in [Targets -> 0..3] /\ w \in [Targets -> 0..3]
  BY DEF TypeOK, Wakes, NoWake, Action
<1>2. ASSUME NEW t \in Targets
      PROVE  /\ QueueAll(w)[t] \in 0..3
             /\ QueueAll(w)[t] >= w[t] /\ QueueAll(w)[t] >= pendingWakes[t]
  BY <1>1, UrgentFacts DEF QueueAll, NoWake
<1>3. QueueAll(w) \in [Targets -> 0..3]
  BY <1>2 DEF QueueAll
<1> QED
  BY <1>2, <1>3 DEF Wakes, NoWake, Action

\* owed after a request and after an answer
LEMMA OwedFacts ==
  ASSUME TypeOK, NEW t \in Targets, NEW p \in 0..3
  PROVE  /\ [owed EXCEPT ![t] = IF p > @ THEN p ELSE @] \in Wakes
         /\ [owed EXCEPT ![t] = pendingWakes[t]] \in Wakes
<1>1. pendingWakes \in [Targets -> 0..3] /\ owed \in [Targets -> 0..3]
  BY DEF TypeOK, Wakes, NoWake, Action
<1> QED
  BY <1>1 DEF Wakes, NoWake, Action

\* Handing out a wake of a batch.
LEMMA OfferedFacts ==
  ASSUME TypeOK, NEW b \in Batches, NEW t \in Targets, Offered(b, t)
  PROVE  /\ todo' \in [Batches -> Wakes]
         /\ todo'[b][t] = NoWake
         /\ \A u \in Targets : u # t => todo'[b][u] = todo[b][u]
         /\ \A c \in Batches : c # b => todo'[c] = todo[c]
<1>1. todo \in [Batches -> [Targets -> 0..3]]
  BY DEF TypeOK, Wakes, NoWake, Action
<1>2. todo' = [todo EXCEPT ![b] = [todo[b] EXCEPT ![t] = NoWake]]
  BY DEF Offered
<1>3. todo[b] \in [Targets -> 0..3]
  BY <1>1
<1>4. [todo[b] EXCEPT ![t] = NoWake] \in [Targets -> 0..3]
  BY <1>3 DEF NoWake
<1>5. todo' \in [Batches -> [Targets -> 0..3]]
  BY <1>1, <1>2, <1>4
<1>6. todo'[b] = [todo[b] EXCEPT ![t] = NoWake] /\ \A c \in Batches : c # b => todo'[c] = todo[c]
  BY <1>1, <1>2
<1>7. todo'[b][t] = NoWake /\ \A u \in Targets : u # t => todo'[b][u] = todo[b][u]
  BY <1>3, <1>6
<1> QED
  BY <1>5, <1>6, <1>7 DEF Wakes, NoWake, Action

\* The end of a batch.
LEMMA OverFacts ==
  ASSUME TypeOK, NEW b \in Batches, Over(b)
  PROVE  /\ at' \in [Batches -> {"idle", "next", "turn"}]
         /\ active' \in [Batches -> 0..MaxStarts]
         /\ todo' \in [Batches -> Wakes] /\ taken' \in [Batches -> Wakes]
         /\ current' \in [Batches -> Targets]
         /\ at'[b] = "idle" /\ active'[b] = NoRunner /\ todo'[b] = Nothing /\ taken'[b] = Nothing
         /\ \A c \in Batches : c # b =>
              /\ at'[c] = at[c] /\ active'[c] = active[c] /\ todo'[c] = todo[c]
              /\ taken'[c] = taken[c] /\ current'[c] = current[c]
         /\ running' = FALSE
<1>1. Nothing \in Wakes /\ "all" \in Targets /\ NoRunner \in 0..MaxStarts
  BY HeartbeatAssumption DEF Wakes, Nothing, NoWake, Action, Targets, NoRunner
<1>2. at' = [at EXCEPT ![b] = "idle"] /\ active' = [active EXCEPT ![b] = NoRunner]
      /\ todo' = [todo EXCEPT ![b] = Nothing] /\ taken' = [taken EXCEPT ![b] = Nothing]
      /\ current' = [current EXCEPT ![b] = "all"] /\ running' = FALSE
  BY DEF Over, NotRunning
<1> QED
  BY <1>1, <1>2 DEF TypeOK

-----------------------------------------------------------------------------
(* Types, with what they rest on *)

TypeInv == TypeOK /\ Numbered

LEMMA TypeInit == Init => TypeInv
<1> SUFFICES ASSUME Init PROVE TypeInv
  OBVIOUS
<1> USE HeartbeatAssumption DEF Init
<1>1. Nothing \in Wakes /\ "all" \in Targets
  BY DEF Nothing, Wakes, NoWake, Action, Targets
<1>2. /\ handler \in 0..MaxStarts /\ handler \notin stopped /\ handler \in 0..starts
      /\ starts \in 0..MaxStarts /\ requests \in 0..MaxRequests /\ refusals \in 0..MaxRefusals
  BY DEF NoRunner
<1>3. pendingWakes \in Wakes /\ owed \in Wakes
  BY <1>1
<1>4. /\ at \in [Batches -> {"idle", "next", "turn"}] /\ active \in [Batches -> 0..MaxStarts]
      /\ todo \in [Batches -> Wakes] /\ taken \in [Batches -> Wakes]
      /\ current \in [Batches -> Targets]
  BY <1>1 DEF NoRunner
<1>5. \A b \in Batches : at[b] = "idle" /\ todo[b] = Nothing
  OBVIOUS
<1> QED
  BY <1>2, <1>3, <1>4, <1>5 DEF TypeInv, TypeOK, Numbered

LEMMA TicksAreAgents ==
  ASSUME TypeInv, NEW r
  PROVE  ScheduleNext(r) \subseteq agents
BY DEF TypeInv, TypeOK, ScheduleNext

LEMMA RequestType ==
  ASSUME TypeInv, NEW t \in Targets, NEW p \in 0..3, Request(t, p)
  PROVE  pendingWakes' \in Wakes /\ timer' \in {"none", "normal", "retry"} /\ owed' \in Wakes
BY QueueFacts, OwedFacts DEF TypeInv, TypeOK, Request, Schedule

LEMMA RefuseType ==
  ASSUME TypeInv, NEW b \in Batches, NEW t \in Targets, at[b] = "turn", Refuse(b, t)
  PROVE  TypeInv'
<1>1. /\ TypeOK /\ Numbered /\ todo[b][t] \in 0..3
  BY DEF TypeInv, TypeOK, Wakes, NoWake, Action
<1>2. pendingWakes' \in Wakes /\ timer' \in {"none", "normal", "retry"}
  BY <1>1, QueueFacts DEF Refuse, Requeued, Schedule, TypeOK
<1>3. /\ todo' \in [Batches -> Wakes] /\ \A c \in Batches : c # b => todo'[c] = todo[c]
  BY <1>1, OfferedFacts DEF Refuse
<1>4. /\ at' \in [Batches -> {"idle", "next", "turn"}] /\ at'[b] = "next"
      /\ \A c \in Batches : c # b => at'[c] = at[c]
  BY <1>1 DEF Refuse, TypeOK
<1>5. ticking' \subseteq agents /\ muted' \in BOOLEAN /\ agents' = agents
  BY <1>1, TicksAreAgents DEF Refuse, TypeOK
<1>6. refusals' \in 0..MaxRefusals
  BY <1>1, HeartbeatAssumption DEF Refuse, TypeOK
<1>7. /\ \A c \in Batches : at'[c] # "idle" => active'[c] # NoRunner
      /\ \A c \in Batches : at'[c] = "idle" => todo'[c] = Nothing
  BY <1>1, <1>3, <1>4 DEF Refuse, TypeOK
<1>8. /\ handler' = handler /\ stopped' = stopped /\ scheduled' = scheduled /\ running' = running
      /\ active' = active /\ taken' = taken /\ current' = current /\ enabled' = enabled
      /\ starts' = starts /\ requests' = requests /\ owed' = owed
  BY DEF Refuse
<1> QED
  BY <1>1, <1>2, <1>3, <1>4, <1>5, <1>6, <1>7, <1>8 DEF TypeInv, TypeOK, Numbered

LEMMA TypeWakes ==
  ASSUME TypeInv,
         \/ \E t \in Targets, p \in Urgencies : RequestHeartbeatNow(t, p)
         \/ FiresUnheard \/ FiresRunning
         \/ \E b \in Batches : BatchBegins(b)
         \/ \E r \in Runners : Tick(r)
  PROVE  TypeInv'
<1>0. TypeOK /\ Numbered
  BY DEF TypeInv
<1>1. ASSUME NEW t \in Targets, NEW p \in Urgencies, RequestHeartbeatNow(t, p) PROVE TypeInv'
  <2>1. p \in 0..3 /\ Request(t, p)
    BY <1>1, HeartbeatAssumption DEF RequestHeartbeatNow
  <2>2. pendingWakes' \in Wakes /\ timer' \in {"none", "normal", "retry"} /\ owed' \in Wakes
    BY <2>1, RequestType
  <2>3. requests' \in 0..MaxRequests
    BY <1>0, <1>1, HeartbeatAssumption DEF RequestHeartbeatNow, TypeOK
  <2> QED
    BY <1>0, <1>1, <2>2, <2>3 DEF RequestHeartbeatNow, batches, runners, TypeInv, TypeOK, Numbered
<1>2. ASSUME FiresUnheard \/ FiresRunning PROVE TypeInv'
  BY <1>0, <1>2 DEF FiresUnheard, FiresRunning, batches, runners, bounds, TypeInv, TypeOK, Numbered
<1>3. ASSUME NEW b \in Batches, BatchBegins(b) PROVE TypeInv'
  <2>1. /\ Nothing \in Wakes /\ handler \in 0..MaxStarts /\ handler # NoRunner
    BY <1>0, <1>3, WakeFacts DEF BatchBegins, TypeOK
  <2>2. /\ at' = [at EXCEPT ![b] = "next"] /\ active' = [active EXCEPT ![b] = handler]
        /\ todo' = [todo EXCEPT ![b] = pendingWakes] /\ taken' = [taken EXCEPT ![b] = pendingWakes]
        /\ pendingWakes' = Nothing /\ timer' = "none" /\ scheduled' = FALSE /\ running' = TRUE
        /\ UNCHANGED <<handler, current, runners, bounds, owed, muted>>
    BY <1>3 DEF BatchBegins
  <2>3. /\ at' \in [Batches -> {"idle", "next", "turn"}] /\ active' \in [Batches -> 0..MaxStarts]
        /\ todo' \in [Batches -> Wakes] /\ taken' \in [Batches -> Wakes]
    BY <1>0, <2>1, <2>2 DEF TypeOK
  <2>4. /\ \A c \in Batches : at'[c] # "idle" => active'[c] # NoRunner
        /\ \A c \in Batches : at'[c] = "idle" => todo'[c] = Nothing
    BY <1>0, <2>1, <2>2 DEF TypeOK
  <2> QED
    BY <1>0, <2>1, <2>2, <2>3, <2>4 DEF runners, bounds, TypeInv, TypeOK, Numbered
<1>4. ASSUME NEW r \in Runners, Tick(r) PROVE TypeInv'
  <2>1. "all" \in Targets /\ Interval \in 0..3 /\ Request("all", Interval)
    BY <1>4 DEF Targets, Interval, Tick
  <2>2. pendingWakes' \in Wakes /\ timer' \in {"none", "normal", "retry"} /\ owed' \in Wakes
    BY <2>1, RequestType
  <2> QED
    BY <1>0, <1>4, <2>2 DEF Tick, batches, bounds, TypeInv, TypeOK, Numbered
<1> QED
  BY <1>1, <1>2, <1>3, <1>4

LEMMA TypeBatches ==
  ASSUME TypeInv, NEW b \in Batches, BatchGoesOn(b)
  PROVE  TypeInv'
<1>0. TypeOK /\ Numbered /\ pendingWakes \in [Targets -> 0..3]
  BY DEF TypeInv, TypeOK, Wakes, NoWake, Action
<1>1. ASSUME NEW t \in Targets, Disabled(b, t) PROVE TypeInv'
  <2>1. todo' \in [Batches -> Wakes] /\ \A c \in Batches : c # b => todo'[c] = todo[c]
    BY <1>0, <1>1, OfferedFacts DEF Disabled
  <2>2. owed' \in Wakes /\ at[b] = "next"
    BY <1>0, <1>1, OwedFacts DEF Disabled, Answered
  <2> QED
    BY <1>0, <1>1, <2>1, <2>2 DEF Disabled, wake, runners, bounds, TypeInv, TypeOK, Numbered
<1>2. ASSUME NEW t \in Targets, TurnBegins(b, t) PROVE TypeInv'
  <2>1. /\ at' = [at EXCEPT ![b] = "turn"] /\ current' = [current EXCEPT ![b] = t] /\ at[b] = "next"
        /\ UNCHANGED <<wake, active, todo, taken, runners, bounds, owed, muted>>
    BY <1>2 DEF TurnBegins
  <2> QED
    BY <1>0, <2>1 DEF wake, runners, bounds, TypeInv, TypeOK, Numbered
<1>3. ASSUME TurnEnds(b) PROVE TypeInv'
  <2>1. current[b] \in Targets
    BY <1>0 DEF TypeOK
  <2>2. todo' \in [Batches -> Wakes] /\ \A c \in Batches : c # b => todo'[c] = todo[c]
    BY <1>0, <1>3, <2>1, OfferedFacts DEF TurnEnds
  <2>3. owed' \in Wakes
    BY <1>0, <1>3, <2>1, OwedFacts DEF TurnEnds, Answered
  <2>4. ticking' \subseteq agents /\ muted' \in BOOLEAN
    BY <1>0, <1>3, TicksAreAgents DEF TurnEnds, TypeOK
  <2>5. at' = [at EXCEPT ![b] = "next"] /\ at[b] = "turn"
        /\ UNCHANGED <<wake, active, taken, current, stopped, agents, enabled, bounds>>
    BY <1>3 DEF TurnEnds
  <2> QED
    BY <1>0, <2>2, <2>3, <2>4, <2>5 DEF wake, bounds, TypeInv, TypeOK, Numbered
<1>4. ASSUME RequestsInFlight(b) PROVE TypeInv'
  <2>1. current[b] \in Targets /\ at[b] = "turn" /\ Refuse(b, current[b])
    BY <1>0, <1>4 DEF TypeOK, RequestsInFlight
  <2> QED
    BY <2>1, RefuseType
<1>5. ASSUME Throws(b) PROVE TypeInv'
  <2>1. taken[b] \in Wakes
    BY <1>0 DEF TypeOK
  <2>2. pendingWakes' \in Wakes /\ timer' \in {"none", "normal", "retry"}
    BY <1>0, <1>5, <2>1, QueueAllFacts DEF Throws, Schedule, TypeOK
  <2>3. refusals' \in 0..MaxRefusals
    BY <1>0, <1>5, HeartbeatAssumption DEF Throws, TypeOK
  <2>4. Over(b)
    BY <1>5 DEF Throws
  <2> QED
    BY <1>0, <1>5, <2>2, <2>3, <2>4, OverFacts DEF Throws, runners, TypeInv, TypeOK, Numbered
<1>6. ASSUME BatchEnds(b) PROVE TypeInv'
  <2>1. timer' \in {"none", "normal", "retry"} /\ Over(b)
    BY <1>0, <1>6 DEF BatchEnds, Resched, Schedule, TypeOK
  <2> QED
    BY <1>0, <1>6, <2>1, OverFacts DEF BatchEnds, runners, bounds, TypeInv, TypeOK, Numbered
<1> QED
  BY <1>1, <1>2, <1>3, <1>4, <1>5, <1>6 DEF BatchGoesOn

LEMMA TypeRunners ==
  ASSUME TypeInv,
         \/ \E some \in BOOLEAN : Start(some)
         \/ \E r \in Runners : Stop(r) \/ \E some \in BOOLEAN : UpdateConfig(r, some)
         \/ \E on \in BOOLEAN : SetHeartbeatsEnabled(on)
  PROVE  TypeInv'
<1>0. TypeOK /\ Numbered /\ starts \in Nat /\ MaxStarts \in Nat
  BY HeartbeatAssumption DEF TypeInv, TypeOK
<1>1. ASSUME NEW some \in BOOLEAN, Start(some) PROVE TypeInv'
  <2>1. /\ starts' = starts + 1 /\ starts < MaxStarts /\ handler' = starts + 1
        /\ agents' \subseteq agents \cup {starts + 1} /\ stopped' = stopped
        /\ muted' \in BOOLEAN
    BY <1>0, <1>1 DEF Start, TypeOK
  <2>2. ticking' \subseteq agents'
    BY <1>0, <1>1 DEF Start, TypeOK
  <2>3. timer' \in {"none", "normal", "retry"}
    BY <1>1 DEF Start, NewTimer
  <2>4. starts + 1 \notin stopped /\ starts + 1 \in Runners
    BY <1>0, <2>1 DEF Numbered, Runners
  <2>5. Numbered'
    BY <1>0, <2>1 DEF Numbered
  <2>6. /\ starts' \in 0..MaxStarts /\ handler' \in 0..MaxStarts /\ handler' \notin stopped'
        /\ agents' \subseteq Runners /\ agents' \cap stopped' = {} /\ stopped' \subseteq Runners
    BY <1>0, <2>1, <2>4 DEF TypeOK
  <2> QED
    BY <1>0, <1>1, <2>1, <2>2, <2>3, <2>5, <2>6 DEF Start, batches, TypeInv, TypeOK
<1>2. ASSUME NEW r \in Runners, Stop(r) PROVE TypeInv'
  <2>1. /\ r <= starts /\ stopped' = stopped \cup {r} /\ agents' = agents \ {r}
        /\ ticking' = ticking \ {r} /\ handler' = (IF handler = r THEN NoRunner ELSE handler)
        /\ UNCHANGED <<pendingWakes, scheduled, running, timer, batches, enabled, bounds, owed, muted>>
    BY <1>2 DEF Stop
  <2>2. r \in 1..starts /\ NoRunner \notin Runners /\ NoRunner \in 0..starts /\ NoRunner \in 0..MaxStarts
    BY <1>0, <2>1 DEF Runners, NoRunner
  <2>3. handler' \in 0..MaxStarts /\ handler' \notin stopped' /\ handler' \in 0..starts
    BY <1>0, <2>1, <2>2 DEF TypeOK, Numbered
  <2>4. /\ stopped' \subseteq 1..starts /\ agents' \subseteq 1..starts
        /\ stopped' \subseteq Runners /\ agents' \subseteq Runners
        /\ agents' \cap stopped' = {} /\ ticking' \subseteq agents'
    BY <1>0, <2>1, <2>2 DEF TypeOK, Numbered
  <2> QED
    BY <1>0, <2>1, <2>3, <2>4 DEF batches, bounds, TypeInv, TypeOK, Numbered
<1>3. ASSUME NEW r \in Runners, NEW some \in BOOLEAN, UpdateConfig(r, some) PROVE TypeInv'
  <2>1. /\ r = handler /\ agents' \subseteq agents \cup {r} /\ ticking' \subseteq agents'
        /\ muted' \in BOOLEAN
        /\ UNCHANGED <<wake, batches, stopped, enabled, bounds, owed>>
    BY <1>0, <1>3 DEF UpdateConfig, TypeOK
  <2>2. r \notin stopped /\ r \in 1..starts
    BY <1>0, <2>1 DEF TypeOK, Numbered, Runners
  <2>3. agents' \subseteq Runners /\ agents' \cap stopped = {} /\ agents' \subseteq 1..starts
    BY <1>0, <2>1, <2>2 DEF TypeOK, Numbered
  <2> QED
    BY <1>0, <2>1, <2>3 DEF wake, batches, bounds, TypeInv, TypeOK, Numbered
<1>4. ASSUME NEW on \in BOOLEAN, SetHeartbeatsEnabled(on) PROVE TypeInv'
  <2>1. muted' \in BOOLEAN /\ enabled' \in BOOLEAN
    BY <1>0, <1>4 DEF SetHeartbeatsEnabled, TypeOK
  <2> QED
    BY <1>0, <1>4, <2>1 DEF SetHeartbeatsEnabled, wake, batches, bounds, TypeInv, TypeOK, Numbered
<1> QED
  BY <1>1, <1>2, <1>3, <1>4

LEMMA TypeStep ==
  ASSUME TypeInv, [Next]_vars
  PROVE  TypeInv'
<1>1. CASE UNCHANGED vars
  BY <1>1 DEF vars, wake, batches, runners, bounds, TypeInv, TypeOK, Numbered
<1> QED
  BY <1>1, TypeWakes, TypeBatches, TypeRunners DEF Next, Around

-----------------------------------------------------------------------------
(* What a batch holds *)

LEMMA OverSteps ==
  ASSUME NEW b \in Batches, Throws(b) \/ BatchEnds(b)
  PROVE  Over(b)
BY DEF Throws, BatchEnds

\* The steps that hand out a wake.
LEMMA OfferSteps ==
  ASSUME TypeInv, NEW b \in Batches, TurnEnds(b) \/ RequestsInFlight(b)
  PROVE  /\ current[b] \in Targets /\ Offered(b, current[b])
         /\ at[b] = "turn" /\ at' = [at EXCEPT ![b] = "next"]
         /\ UNCHANGED <<active, taken, current, handler, agents>>
BY DEF TypeInv, TypeOK, TurnEnds, RequestsInFlight, Refuse, wake

LEMMA BatchInit == Init => OfTheBatch
BY DEF Init, OfTheBatch, Nothing

LEMMA BatchStep ==
  ASSUME TypeInv, OfTheBatch, [Next]_vars
  PROVE  OfTheBatch'
<1>0. TypeOK /\ TypeInv
  BY DEF TypeInv
<1>1. CASE UNCHANGED batches
  BY <1>1 DEF batches, OfTheBatch
<1>2. ASSUME NEW b \in Batches, BatchBegins(b) PROVE OfTheBatch'
  <2>1. /\ todo' = [todo EXCEPT ![b] = pendingWakes] /\ taken' = [taken EXCEPT ![b] = pendingWakes]
        /\ at' = [at EXCEPT ![b] = "next"] /\ current' = current
    BY <1>2 DEF BatchBegins
  <2>2. todo'[b] = taken'[b] /\ at'[b] = "next"
    BY <1>0, <2>1 DEF TypeOK
  <2>3. \A c \in Batches : c # b => todo'[c] = todo[c] /\ taken'[c] = taken[c] /\ at'[c] = at[c]
    BY <1>0, <2>1 DEF TypeOK
  <2> QED
    BY <2>1, <2>2, <2>3 DEF OfTheBatch
<1>3. ASSUME NEW b \in Batches, NEW t \in Targets, Disabled(b, t) PROVE OfTheBatch'
  <2>1. /\ Offered(b, t) /\ at[b] = "next"
        /\ at' = at /\ taken' = taken /\ current' = current
    BY <1>3 DEF Disabled
  <2>2. /\ todo'[b][t] = NoWake /\ \A u \in Targets : u # t => todo'[b][u] = todo[b][u]
        /\ \A c \in Batches : c # b => todo'[c] = todo[c]
    BY <1>0, <2>1, OfferedFacts
  <2> QED
    BY <2>1, <2>2 DEF OfTheBatch
<1>4. ASSUME NEW b \in Batches, NEW t \in Targets, TurnBegins(b, t) PROVE OfTheBatch'
  <2>1. /\ todo' = todo /\ taken' = taken /\ todo[b][t] # NoWake
        /\ at' = [at EXCEPT ![b] = "turn"] /\ current' = [current EXCEPT ![b] = t]
    BY <1>4 DEF TurnBegins, Unanswered
  <2>2. current'[b] = t /\ \A c \in Batches : c # b => at'[c] = at[c] /\ current'[c] = current[c]
    BY <1>0, <2>1 DEF TypeOK
  <2> QED
    BY <2>1, <2>2 DEF OfTheBatch
<1>5. ASSUME NEW b \in Batches, TurnEnds(b) \/ RequestsInFlight(b) PROVE OfTheBatch'
  <2>1. /\ current[b] \in Targets /\ Offered(b, current[b]) /\ at' = [at EXCEPT ![b] = "next"]
        /\ taken' = taken /\ current' = current
    BY <1>0, <1>5, OfferSteps
  <2>2. at'[b] = "next" /\ \A c \in Batches : c # b => at'[c] = at[c]
    BY <1>0, <2>1 DEF TypeOK
  <2>3. /\ todo'[b][current[b]] = NoWake
        /\ \A u \in Targets : u # current[b] => todo'[b][u] = todo[b][u]
        /\ \A c \in Batches : c # b => todo'[c] = todo[c]
    BY <1>0, <2>1, OfferedFacts
  <2> QED
    BY <2>1, <2>2, <2>3 DEF OfTheBatch
<1>6. ASSUME NEW b \in Batches, Throws(b) \/ BatchEnds(b) PROVE OfTheBatch'
  <2>1. /\ at'[b] = "idle" /\ todo'[b] = Nothing
        /\ \A c \in Batches : c # b =>
             at'[c] = at[c] /\ todo'[c] = todo[c] /\ taken'[c] = taken[c] /\ current'[c] = current[c]
    BY <1>0, <1>6, OverSteps, OverFacts
  <2>2. \A t \in Targets : todo'[b][t] = NoWake
    BY <2>1 DEF Nothing
  <2> QED
    BY <2>1, <2>2 DEF OfTheBatch
<1>7. ASSUME NEW t \in Targets, NEW p \in Urgencies, RequestHeartbeatNow(t, p)
      PROVE  UNCHANGED batches
  BY <1>7 DEF RequestHeartbeatNow
<1>8. ASSUME FiresUnheard \/ FiresRunning PROVE UNCHANGED batches
  BY <1>8 DEF FiresUnheard, FiresRunning
<1>9. ASSUME NEW r \in Runners,
             Tick(r) \/ Stop(r) \/ \E some \in BOOLEAN : UpdateConfig(r, some)
      PROVE  UNCHANGED batches
  BY <1>9 DEF Tick, Stop, UpdateConfig
<1>10. ASSUME NEW x \in BOOLEAN, Start(x) \/ SetHeartbeatsEnabled(x) PROVE UNCHANGED batches
  BY <1>10 DEF Start, SetHeartbeatsEnabled
<1>11. ASSUME UNCHANGED vars PROVE UNCHANGED batches
  BY <1>11 DEF vars, batches
<1> QED
  BY <1>1, <1>2, <1>3, <1>4, <1>5, <1>6, <1>7, <1>8, <1>9, <1>10, <1>11 DEF Next, BatchGoesOn, Around

-----------------------------------------------------------------------------
(* Disabled heartbeats *)

LEMMA MutedInit == Init => DisabledIsMuted
BY DEF Init, DisabledIsMuted

LEMMA MutedStep ==
  ASSUME TypeInv, DisabledIsMuted, [Next]_vars
  PROVE  DisabledIsMuted'
<1>1. CASE UNCHANGED <<enabled, muted>>
  BY <1>1 DEF DisabledIsMuted
<1>2. CASE enabled' = enabled /\ muted' = ~enabled
  BY <1>2 DEF DisabledIsMuted
<1>3. ASSUME NEW t \in Targets, NEW p \in Urgencies, RequestHeartbeatNow(t, p)
      PROVE  UNCHANGED <<enabled, muted>>
  BY <1>3 DEF RequestHeartbeatNow, runners
<1>4. ASSUME FiresUnheard \/ FiresRunning PROVE UNCHANGED <<enabled, muted>>
  BY <1>4 DEF FiresUnheard, FiresRunning, runners
<1>5. ASSUME NEW b \in Batches, BatchBegins(b) \/ Throws(b) \/ BatchEnds(b)
      PROVE  UNCHANGED <<enabled, muted>>
  BY <1>5 DEF BatchBegins, Throws, BatchEnds, runners
<1>6. ASSUME NEW b \in Batches, NEW t \in Targets, Disabled(b, t) \/ TurnBegins(b, t)
      PROVE  UNCHANGED <<enabled, muted>>
  BY <1>6 DEF Disabled, TurnBegins, runners
<1>7. ASSUME NEW b \in Batches, TurnEnds(b) \/ RequestsInFlight(b)
      PROVE  enabled' = enabled /\ (muted' = ~enabled \/ muted' = muted)
  BY <1>7 DEF TurnEnds, RequestsInFlight, Refuse
<1>8. ASSUME NEW r \in Runners, Tick(r) \/ Stop(r) PROVE UNCHANGED <<enabled, muted>>
  BY <1>8 DEF Tick, Stop
<1>9. ASSUME NEW r \in Runners, NEW some \in BOOLEAN, UpdateConfig(r, some)
      PROVE  enabled' = enabled /\ muted' = ~enabled
  BY <1>9 DEF UpdateConfig
<1>10. ASSUME NEW some \in BOOLEAN, Start(some) PROVE enabled' = enabled /\ muted' = ~enabled
  BY <1>10 DEF Start
<1>11. ASSUME NEW on \in BOOLEAN, SetHeartbeatsEnabled(on) PROVE DisabledIsMuted'
  BY <1>11 DEF SetHeartbeatsEnabled, DisabledIsMuted
<1>12. ASSUME UNCHANGED vars PROVE UNCHANGED <<enabled, muted>>
  BY <1>12 DEF vars, runners
<1> QED
  BY <1>1, <1>2, <1>3, <1>4, <1>5, <1>6, <1>7, <1>8, <1>9, <1>10, <1>11, <1>12
  DEF Next, BatchGoesOn, Around

-----------------------------------------------------------------------------
(* Pending wakes are watched *)

LEMMA ScheduleFacts ==
  ASSUME NEW kind \in {"normal", "retry"}
  PROVE  Schedule(kind) # "none"
BY DEF Schedule

LEMMA WatchedInit == Init => PendingIsWatched
BY DEF Init, PendingIsWatched

LEMMA WatchedStep ==
  ASSUME TypeInv, PendingIsWatched, [Next]_vars
  PROVE  PendingIsWatched'
<1>0. TypeOK /\ TypeInv
  BY DEF TypeInv
<1>1. CASE timer' # "none"
  BY <1>1 DEF PendingIsWatched
<1>2. CASE UNCHANGED <<handler, pendingWakes, timer, at>>
  BY <1>2 DEF PendingIsWatched
<1>3. ASSUME NEW t \in Targets, NEW p \in Urgencies, RequestHeartbeatNow(t, p)
      PROVE  timer' # "none"
  BY <1>3, ScheduleFacts DEF RequestHeartbeatNow, Request
<1>4. ASSUME FiresUnheard PROVE PendingIsWatched'
  BY <1>4 DEF FiresUnheard, PendingIsWatched
<1>5. ASSUME FiresRunning PROVE timer' # "none"
  BY <1>5 DEF FiresRunning
<1>6. ASSUME NEW b \in Batches, BatchBegins(b) PROVE PendingIsWatched'
  <2>1. pendingWakes' = Nothing
    BY <1>6 DEF BatchBegins
  <2> QED
    BY <2>1 DEF PendingIsWatched, Nothing, Targets
<1>7. ASSUME NEW b \in Batches, NEW t \in Targets, Disabled(b, t)
      PROVE  UNCHANGED <<handler, pendingWakes, timer, at>>
  BY <1>7 DEF Disabled, wake
<1>8. ASSUME NEW b \in Batches, NEW t \in Targets, TurnBegins(b, t) PROVE PendingIsWatched'
  <2>1. at'[b] # "idle"
    BY <1>0, <1>8 DEF TurnBegins, TypeOK
  <2> QED
    BY <2>1 DEF PendingIsWatched
<1>9. ASSUME NEW b \in Batches, TurnEnds(b) \/ RequestsInFlight(b) PROVE PendingIsWatched'
  <2>1. at'[b] # "idle"
    BY <1>0, <1>9, OfferSteps DEF TypeOK
  <2> QED
    BY <2>1 DEF PendingIsWatched
<1>10. ASSUME NEW b \in Batches, Throws(b) PROVE timer' # "none"
  BY <1>10, ScheduleFacts DEF Throws
<1>11. ASSUME NEW b \in Batches, BatchEnds(b) PROVE PendingIsWatched'
  <2>1. pendingWakes' = pendingWakes /\ timer' = Resched
    BY <1>11 DEF BatchEnds
  <2>2. pendingWakes # Nothing => timer' # "none"
    BY <2>1, ScheduleFacts DEF Resched
  <2>3. Nothing' = Nothing
    BY DEF Nothing, Targets
  <2> QED
    BY <2>1, <2>2, <2>3 DEF PendingIsWatched
<1>12. ASSUME NEW some \in BOOLEAN, Start(some) PROVE PendingIsWatched'
  <2>1. pendingWakes' = pendingWakes /\ (pendingWakes # Nothing => timer' # "none")
    BY <1>12 DEF Start, NewTimer
  <2>2. Nothing' = Nothing
    BY DEF Nothing, Targets
  <2> QED
    BY <2>1, <2>2 DEF PendingIsWatched
<1>13. ASSUME NEW r \in Runners, Stop(r) PROVE PendingIsWatched'
  <2>1. /\ handler' = NoRunner \/ handler' = handler
        /\ UNCHANGED <<pendingWakes, timer, at>>
    BY <1>13 DEF Stop, batches
  <2>2. Nothing' = Nothing
    BY DEF Nothing, Targets
  <2> QED
    BY <2>1, <2>2 DEF PendingIsWatched
<1>14. ASSUME NEW r \in Runners, NEW some \in BOOLEAN, UpdateConfig(r, some)
       PROVE  UNCHANGED <<handler, pendingWakes, timer, at>>
  BY <1>14 DEF UpdateConfig, wake, batches
<1>15. ASSUME NEW r \in Runners, Tick(r) PROVE timer' # "none"
  BY <1>15, ScheduleFacts DEF Tick, Request
<1>16. ASSUME NEW on \in BOOLEAN, SetHeartbeatsEnabled(on)
       PROVE  UNCHANGED <<handler, pendingWakes, timer, at>>
  BY <1>16 DEF SetHeartbeatsEnabled, wake, batches
<1>17. ASSUME UNCHANGED vars PROVE UNCHANGED <<handler, pendingWakes, timer, at>>
  BY <1>17 DEF vars, wake, batches
<1> QED
  BY <1>1, <1>2, <1>3, <1>4, <1>5, <1>6, <1>7, <1>8, <1>9, <1>10, <1>11, <1>12, <1>13, <1>14,
     <1>15, <1>16, <1>17 DEF Next, BatchGoesOn, Around

-----------------------------------------------------------------------------
(* No wake is forgotten *)

LEMMA Levels ==
  ASSUME TypeOK
  PROVE  /\ \A t \in Targets : owed[t] \in 0..3 /\ pendingWakes[t] \in 0..3
         /\ \A b \in Batches, t \in Targets : todo[b][t] \in 0..3 /\ taken[b][t] \in 0..3
BY DEF TypeOK, Wakes, NoWake, Action

\* The wakes kept at least as they were, the others asked for in full.
LEMMA KeptRaised ==
  ASSUME TypeInv, TypeOK', NoWakeForgotten, todo' = todo, NEW t \in Targets,
         \A u \in Targets : pendingWakes'[u] >= pendingWakes[u] /\ (u # t => owed'[u] = owed[u]),
         owed'[t] = owed[t] \/ pendingWakes'[t] >= owed'[t]
  PROVE  NoWakeForgotten'
<1>1. ASSUME NEW u \in Targets
      PROVE  \/ owed'[u] <= pendingWakes'[u]
             \/ \E b \in Batches : owed'[u] <= todo'[b][u]
  <2>1. /\ owed[u] \in 0..3 /\ pendingWakes[u] \in 0..3
        /\ owed'[u] \in 0..3 /\ pendingWakes'[u] \in 0..3
    BY Levels DEF TypeInv, TypeOK, Wakes, NoWake, Action, Targets
  <2>2. CASE owed'[u] # owed[u]
    BY <2>1, <2>2
  <2>3. CASE owed'[u] = owed[u]
    <3>1. pendingWakes'[u] >= pendingWakes[u]
      OBVIOUS
    <3>2. CASE owed[u] <= pendingWakes[u]
      BY <2>1, <2>3, <3>1, <3>2
    <3>3. CASE \E b \in Batches : owed[u] <= todo[b][u]
      BY <2>3, <3>3
    <3> QED
      BY <3>2, <3>3 DEF NoWakeForgotten
  <2> QED
    BY <2>2, <2>3
<1> QED
  BY <1>1 DEF NoWakeForgotten, Targets

\* One wake of a batch gone and its answer counted, or the wake back among the pending.
LEMMA KeptOffered ==
  ASSUME TypeInv, TypeOK', NoWakeForgotten, NEW b \in Batches, NEW t \in Targets, Offered(b, t),
         \A u \in Targets : pendingWakes'[u] >= pendingWakes[u] /\ (u # t => owed'[u] = owed[u]),
         \/ owed'[t] = pendingWakes[t]
         \/ owed'[t] = owed[t] /\ pendingWakes'[t] >= todo[b][t]
  PROVE  NoWakeForgotten'
<1>0. /\ \A u \in Targets : u # t => todo'[b][u] = todo[b][u]
      /\ \A c \in Batches : c # b => todo'[c] = todo[c]
  BY OfferedFacts DEF TypeInv
<1>1. ASSUME NEW u \in Targets
      PROVE  \/ owed'[u] <= pendingWakes'[u]
             \/ \E c \in Batches : owed'[u] <= todo'[c][u]
  <2>1. /\ owed[u] \in 0..3 /\ pendingWakes[u] \in 0..3 /\ todo[b][u] \in 0..3
        /\ owed'[u] \in 0..3 /\ pendingWakes'[u] \in 0..3
    BY Levels DEF TypeInv, TypeOK, Wakes, NoWake, Action, Targets
  <2>2. pendingWakes'[u] >= pendingWakes[u]
    OBVIOUS
  <2>3. CASE owed'[u] = pendingWakes[u]
    BY <2>1, <2>2, <2>3
  <2>4. CASE owed'[u] = owed[u]
    <3>1. CASE owed[u] <= pendingWakes[u]
      BY <2>1, <2>2, <2>4, <3>1
    <3>2. ASSUME NEW c \in Batches, c # b, owed[u] <= todo[c][u] PROVE owed'[u] <= todo'[c][u]
      BY <1>0, <2>4, <3>2
    <3>3. CASE owed[u] <= todo[b][u] /\ u # t
      BY <1>0, <2>4, <3>3
    <3>4. CASE owed[u] <= todo[b][u] /\ u = t
      BY <2>1, <2>3, <2>4, <3>4
    <3> QED
      BY <3>1, <3>2, <3>3, <3>4 DEF NoWakeForgotten
  <2> QED
    BY <2>3, <2>4
<1> QED
  BY <1>1 DEF NoWakeForgotten, Targets

\* A batch gone, whose wakes are among the pending.
LEMMA KeptOver ==
  ASSUME TypeInv, TypeOK', NoWakeForgotten, NEW b \in Batches, Over(b), owed' = owed,
         \A u \in Targets : pendingWakes'[u] >= pendingWakes[u] /\ pendingWakes'[u] >= todo[b][u]
  PROVE  NoWakeForgotten'
<1>0. \A c \in Batches : c # b => todo'[c] = todo[c]
  BY OverFacts DEF TypeInv
<1>1. ASSUME NEW u \in Targets
      PROVE  \/ owed'[u] <= pendingWakes'[u]
             \/ \E c \in Batches : owed'[u] <= todo'[c][u]
  <2>1. /\ owed[u] \in 0..3 /\ pendingWakes[u] \in 0..3 /\ todo[b][u] \in 0..3
        /\ pendingWakes'[u] \in 0..3
    BY Levels DEF TypeInv, TypeOK, Wakes, NoWake, Action, Targets
  <2>2. pendingWakes'[u] >= pendingWakes[u] /\ pendingWakes'[u] >= todo[b][u]
    OBVIOUS
  <2>3. CASE owed[u] <= pendingWakes[u] \/ owed[u] <= todo[b][u]
    BY <2>1, <2>2, <2>3
  <2>4. ASSUME NEW c \in Batches, c # b, owed[u] <= todo[c][u] PROVE owed'[u] <= todo'[c][u]
    BY <1>0, <2>4
  <2> QED
    BY <2>3, <2>4 DEF NoWakeForgotten
<1> QED
  BY <1>1 DEF NoWakeForgotten, Targets

LEMMA KeptInit == Init => NoWakeForgotten
BY DEF Init, NoWakeForgotten, Nothing, NoWake

LEMMA RequestKeeps ==
  ASSUME TypeInv, TypeInv', NoWakeForgotten, NEW t \in Targets, NEW p \in 0..3,
         Request(t, p), todo' = todo
  PROVE  NoWakeForgotten'
<1>0. TypeOK /\ TypeOK' /\ owed \in [Targets -> 0..3]
  BY DEF TypeInv, TypeOK, Wakes, NoWake, Action
<1>1. pendingWakes' = Queue(t, p) /\ owed' = [owed EXCEPT ![t] = IF p > @ THEN p ELSE @]
  BY DEF Request
<1>2. pendingWakes'[t] >= p /\ \A u \in Targets : pendingWakes'[u] >= pendingWakes[u]
  BY <1>0, <1>1, QueueFacts
<1>3. /\ \A u \in Targets : u # t => owed'[u] = owed[u]
      /\ owed'[t] = owed[t] \/ owed'[t] = p
  BY <1>0, <1>1
<1>4. owed'[t] = owed[t] \/ pendingWakes'[t] >= owed'[t]
  BY <1>2, <1>3
<1> QED
  BY <1>0, <1>2, <1>3, <1>4, KeptRaised

LEMMA KeptStep ==
  ASSUME TypeInv, TypeInv', OfTheBatch, NoWakeForgotten, [Next]_vars
  PROVE  NoWakeForgotten'
<1>0. TypeOK /\ TypeInv /\ TypeOK'
  BY DEF TypeInv
<1>1. CASE UNCHANGED <<pendingWakes, todo, owed>>
  BY <1>1 DEF NoWakeForgotten, Targets
<1>2. ASSUME NEW t \in Targets, NEW p \in Urgencies, RequestHeartbeatNow(t, p)
      PROVE  NoWakeForgotten'
  <2>1. p \in 0..3 /\ Request(t, p) /\ todo' = todo
    BY <1>2, HeartbeatAssumption DEF RequestHeartbeatNow, batches
  <2> QED
    BY <2>1, RequestKeeps
<1>3. ASSUME FiresUnheard \/ FiresRunning PROVE UNCHANGED <<pendingWakes, todo, owed>>
  BY <1>3 DEF FiresUnheard, FiresRunning, batches
<1>4. ASSUME NEW b \in Batches, BatchBegins(b) PROVE NoWakeForgotten'
  <2>1. /\ at[b] = "idle" /\ owed' = owed
        /\ todo' = [todo EXCEPT ![b] = pendingWakes]
    BY <1>4 DEF BatchBegins
  <2>2. todo[b] = Nothing /\ todo'[b] = pendingWakes /\ \A c \in Batches : c # b => todo'[c] = todo[c]
    BY <1>0, <2>1 DEF TypeOK
  <2>3. ASSUME NEW u \in Targets PROVE \E c \in Batches : owed'[u] <= todo'[c][u]
    <3>1. todo[b][u] = 0 /\ pendingWakes[u] \in 0..3 /\ owed[u] \in 0..3
      BY <1>0, <2>2, Levels DEF Nothing, NoWake
    <3>2. CASE owed[u] <= pendingWakes[u] \/ owed[u] <= todo[b][u]
      BY <2>1, <2>2, <3>1, <3>2
    <3>3. ASSUME NEW c \in Batches, c # b, owed[u] <= todo[c][u] PROVE owed'[u] <= todo'[c][u]
      BY <2>1, <2>2, <3>3
    <3> QED
      BY <3>2, <3>3 DEF NoWakeForgotten
  <2> QED
    BY <2>3 DEF NoWakeForgotten, Targets
<1>5. ASSUME NEW b \in Batches, NEW t \in Targets, Disabled(b, t) PROVE NoWakeForgotten'
  <2>1. Offered(b, t) /\ owed' = [owed EXCEPT ![t] = pendingWakes[t]] /\ pendingWakes' = pendingWakes
    BY <1>5 DEF Disabled, Answered, wake
  <2>2. owed'[t] = pendingWakes[t] /\ \A u \in Targets : u # t => owed'[u] = owed[u]
    BY <1>0, <2>1 DEF TypeOK, Wakes
  <2>3. \A u \in Targets : pendingWakes'[u] >= pendingWakes[u]
    BY <1>0, <2>1, Levels
  <2> QED
    BY <1>0, <2>1, <2>2, <2>3, KeptOffered
<1>6. ASSUME NEW b \in Batches, NEW t \in Targets, TurnBegins(b, t)
      PROVE  UNCHANGED <<pendingWakes, todo, owed>>
  BY <1>6 DEF TurnBegins, wake
<1>7. ASSUME NEW b \in Batches, TurnEnds(b) PROVE NoWakeForgotten'
  <2> DEFINE t == current[b]
  <2>1. /\ Offered(b, t) /\ owed' = [owed EXCEPT ![t] = pendingWakes[t]]
        /\ pendingWakes' = pendingWakes /\ t \in Targets
    BY <1>0, <1>7 DEF TurnEnds, Answered, wake, TypeOK
  <2>2. owed'[t] = pendingWakes[t] /\ \A u \in Targets : u # t => owed'[u] = owed[u]
    BY <1>0, <2>1 DEF TypeOK, Wakes
  <2>3. \A u \in Targets : pendingWakes'[u] >= pendingWakes[u]
    BY <1>0, <2>1, Levels
  <2> HIDE DEF t
  <2> QED
    BY <1>0, <2>1, <2>2, <2>3, KeptOffered
<1>8. ASSUME NEW b \in Batches, RequestsInFlight(b) PROVE NoWakeForgotten'
  <2> DEFINE t == current[b]
  <2>1. t \in Targets /\ Refuse(b, t)
    BY <1>0, <1>8 DEF RequestsInFlight, TypeOK
  <2> HIDE DEF t
  <2>2. Offered(b, t) /\ owed' = owed /\ pendingWakes' = Queue(t, todo[b][t]) /\ todo[b][t] \in 0..3
    BY <1>0, <2>1, Levels DEF Refuse, Requeued
  <2>3. pendingWakes'[t] >= todo[b][t] /\ \A u \in Targets : pendingWakes'[u] >= pendingWakes[u]
    BY <1>0, <2>1, <2>2, QueueFacts
  <2> QED
    BY <1>0, <2>1, <2>2, <2>3, KeptOffered
<1>9. ASSUME NEW b \in Batches, Throws(b) PROVE NoWakeForgotten'
  <2>1. Over(b) /\ owed' = owed /\ pendingWakes' = QueueAll(taken[b]) /\ taken[b] \in Wakes
    BY <1>0, <1>9 DEF Throws, TypeOK
  <2>2. \A u \in Targets : pendingWakes'[u] >= taken[b][u] /\ pendingWakes'[u] >= pendingWakes[u]
    BY <1>0, <2>1, QueueAllFacts
  <2>3. ASSUME NEW u \in Targets PROVE pendingWakes'[u] >= todo[b][u]
    <3>1. todo[b][u] = 0 \/ todo[b][u] = taken[b][u]
      BY DEF OfTheBatch, NoWake
    <3>2. pendingWakes'[u] \in 0..3
      BY <1>0 DEF TypeOK, Wakes, NoWake, Action, Targets
    <3> QED
      BY <2>2, <3>1, <3>2
  <2> QED
    BY <1>0, <2>1, <2>2, <2>3, KeptOver
<1>10. ASSUME NEW b \in Batches, BatchEnds(b) PROVE NoWakeForgotten'
  <2>1. Over(b) /\ owed' = owed /\ pendingWakes' = pendingWakes /\ Unanswered(b) = {}
    BY <1>10 DEF BatchEnds
  <2>2. \A u \in Targets : todo[b][u] = 0
    BY <2>1 DEF Unanswered, NoWake
  <2>3. \A u \in Targets : pendingWakes'[u] >= pendingWakes[u] /\ pendingWakes'[u] >= todo[b][u]
    BY <1>0, <2>1, <2>2, Levels
  <2> QED
    BY <1>0, <2>1, <2>3, KeptOver
<1>11. ASSUME NEW r \in Runners, Tick(r) PROVE NoWakeForgotten'
  <2>1. "all" \in Targets /\ Interval \in 0..3 /\ Request("all", Interval) /\ todo' = todo
    BY <1>11 DEF Tick, Targets, Interval, batches
  <2> QED
    BY <2>1, RequestKeeps
<1>12. ASSUME NEW r \in Runners, Stop(r) \/ \E some \in BOOLEAN : UpdateConfig(r, some)
       PROVE  UNCHANGED <<pendingWakes, todo, owed>>
  BY <1>12 DEF Stop, UpdateConfig, wake, batches
<1>13. ASSUME NEW x \in BOOLEAN, Start(x) \/ SetHeartbeatsEnabled(x)
       PROVE  UNCHANGED <<pendingWakes, todo, owed>>
  BY <1>13 DEF Start, SetHeartbeatsEnabled, wake, batches
<1>14. ASSUME UNCHANGED vars PROVE UNCHANGED <<pendingWakes, todo, owed>>
  BY <1>14 DEF vars, wake, batches
<1> QED
  BY <1>1, <1>2, <1>3, <1>4, <1>5, <1>6, <1>7, <1>8, <1>9, <1>10, <1>11, <1>12, <1>13, <1>14
  DEF Next, BatchGoesOn, Around

-----------------------------------------------------------------------------
(* The chain of heartbeats *)

LEMMA ChainInit == Init => Chain
BY DEF Init, Chain

LEMMA AllIsATarget == "all" \in Targets
BY DEF Targets

\* The pending wake of all agents only becomes more urgent, and the rest stays.
LEMMA ChainRaised ==
  ASSUME TypeInv, TypeOK', Chain,
         handler \in agents => pendingWakes'["all"] >= pendingWakes["all"],
         UNCHANGED <<handler, ticking, agents, muted, active, todo>>
  PROVE  Chain'
<1>1. pendingWakes["all"] \in 0..3 /\ pendingWakes'["all"] \in 0..3
  BY AllIsATarget DEF TypeInv, TypeOK, Wakes, NoWake, Action, Targets
<1> QED
  BY <1>1 DEF Chain, Chained, NoWake

\* The end of a turn: its runner has the timer set again.
LEMMA ChainTurned ==
  ASSUME TypeInv, Chain, NEW b \in Batches, ticking' = ScheduleNext(active[b]),
         muted' = (IF active[b] = handler THEN ~enabled ELSE muted),
         \A c \in Batches : c # b => todo'[c] = todo[c],
         pendingWakes["all"] # NoWake => pendingWakes'["all"] # NoWake,
         UNCHANGED <<handler, agents, active>>
  PROVE  Chain'
<1>1. CASE handler \notin agents
  BY <1>1 DEF Chain
<1>2. CASE handler \in agents /\ active[b] = handler
  BY <1>2 DEF Chain, Chained, ScheduleNext
<1>3. CASE handler \in agents /\ active[b] # handler
  <2>1. muted' = muted /\ (handler \in ticking => handler \in ticking')
    BY <1>3 DEF ScheduleNext
  <2>2. \A c \in Batches : active[c] = handler => todo'[c] = todo[c]
    BY <1>3
  <2> QED
    BY <1>3, <2>1, <2>2 DEF Chain, Chained
<1> QED
  BY <1>1, <1>2, <1>3

\* The end of a batch whose wake of all agents, if it has one, is pending again.
LEMMA ChainOver ==
  ASSUME TypeInv, Chain, NEW b \in Batches, Over(b),
         todo[b]["all"] # NoWake \/ pendingWakes["all"] # NoWake => pendingWakes'["all"] # NoWake,
         UNCHANGED <<handler, ticking, agents, muted>>
  PROVE  Chain'
<1>1. \A c \in Batches : c # b => active'[c] = active[c] /\ todo'[c] = todo[c]
  BY OverFacts DEF TypeInv
<1> QED
  BY <1>1 DEF Chain, Chained

LEMMA ChainBatches ==
  ASSUME TypeInv, TypeInv', OfTheBatch, DisabledIsMuted, Chain, NEW b \in Batches, BatchGoesOn(b)
  PROVE  Chain'
<1>0. TypeOK /\ TypeInv /\ TypeOK'
  BY DEF TypeInv
<1>1. ASSUME NEW t \in Targets, Disabled(b, t) PROVE Chain'
  <2>1. Offered(b, t) /\ Off(active[b]) /\ UNCHANGED <<wake, active, runners, muted>>
    BY <1>1 DEF Disabled
  <2>2. \A c \in Batches : c # b => todo'[c] = todo[c]
    BY <1>0, <2>1, OfferedFacts
  <2>3. handler \in agents /\ ~muted => active[b] # handler
    BY <2>1 DEF Off, DisabledIsMuted
  <2> QED
    BY <2>1, <2>2, <2>3 DEF wake, runners, Chain, Chained
<1>2. ASSUME NEW t \in Targets, TurnBegins(b, t) PROVE Chain'
  BY <1>2 DEF TurnBegins, wake, runners, Chain, Chained
<1>3. ASSUME TurnEnds(b) PROVE Chain'
  <2>1. /\ Offered(b, current[b]) /\ current[b] \in Targets
        /\ ticking' = ScheduleNext(active[b])
        /\ muted' = (IF active[b] = handler THEN ~enabled ELSE muted)
        /\ UNCHANGED <<handler, pendingWakes, agents, active>>
    BY <1>0, <1>3 DEF TurnEnds, wake, TypeOK
  <2>2. \A c \in Batches : c # b => todo'[c] = todo[c]
    BY <1>0, <2>1, OfferedFacts
  <2> QED
    BY <1>0, <2>1, <2>2, ChainTurned
<1>4. ASSUME RequestsInFlight(b) PROVE Chain'
  <2> DEFINE t == current[b]
  <2>1. t \in Targets /\ at[b] = "turn" /\ Refuse(b, t) /\ todo[b][t] # NoWake
    BY <1>0, <1>4 DEF RequestsInFlight, TypeOK, OfTheBatch
  <2> HIDE DEF t
  <2>2. Offered(b, t) /\ pendingWakes' = Queue(t, todo[b][t]) /\ todo[b][t] \in 0..3
    BY <1>0, <2>1, Levels DEF Refuse, Requeued
  <2>3. \A c \in Batches : c # b => todo'[c] = todo[c]
    BY <1>0, <2>1, <2>2, OfferedFacts
  <2>4. pendingWakes'[t] >= todo[b][t] /\ \A u \in Targets : pendingWakes'[u] >= pendingWakes[u]
    BY <1>0, <2>1, <2>2, QueueFacts
  <2>5. /\ pendingWakes["all"] \in 0..3 /\ pendingWakes'["all"] \in 0..3
        /\ pendingWakes'["all"] >= pendingWakes["all"]
    BY <1>0, <2>4, AllIsATarget DEF TypeOK, Wakes, NoWake, Action, Targets
  <2>6. pendingWakes["all"] # NoWake => pendingWakes'["all"] # NoWake
    BY <2>5 DEF NoWake
  <2>7. CASE t = "all"
    <3>1. UNCHANGED <<handler, ticking, agents, muted, active>>
      BY <2>1, <2>7 DEF Refuse
    <3>2. pendingWakes'["all"] # NoWake
      BY <2>1, <2>2, <2>4, <2>5, <2>7 DEF NoWake
    <3> QED
      BY <3>2 DEF Chain, Chained
  <2>8. CASE t # "all"
    <3>1. /\ ticking' = ScheduleNext(active[b])
          /\ muted' = (IF active[b] = handler THEN ~enabled ELSE muted)
          /\ UNCHANGED <<handler, agents, active>>
      BY <2>1, <2>8 DEF Refuse
    <3> QED
      BY <1>0, <2>3, <2>6, <3>1, ChainTurned
  <2> QED
    BY <2>7, <2>8
<1>5. ASSUME Throws(b) PROVE Chain'
  <2>1. /\ Over(b) /\ pendingWakes' = QueueAll(taken[b]) /\ taken[b] \in Wakes
        /\ UNCHANGED <<handler, ticking, agents, muted>>
    BY <1>0, <1>5 DEF Throws, runners, TypeOK
  <2>2. pendingWakes'["all"] >= taken[b]["all"] /\ pendingWakes'["all"] >= pendingWakes["all"]
    BY <1>0, <2>1, QueueAllFacts, AllIsATarget
  <2>3. /\ pendingWakes["all"] \in 0..3 /\ taken[b]["all"] \in 0..3 /\ pendingWakes'["all"] \in 0..3
    BY <1>0, Levels, AllIsATarget DEF TypeOK, Wakes, NoWake, Action, Targets
  <2>4. todo[b]["all"] \in {NoWake, taken[b]["all"]}
    BY AllIsATarget DEF OfTheBatch
  <2>5. todo[b]["all"] # NoWake \/ pendingWakes["all"] # NoWake => pendingWakes'["all"] # NoWake
    BY <2>2, <2>3, <2>4 DEF NoWake
  <2> QED
    BY <1>0, <2>1, <2>5, ChainOver
<1>6. ASSUME BatchEnds(b) PROVE Chain'
  <2>1. /\ Over(b) /\ pendingWakes' = pendingWakes /\ Unanswered(b) = {}
        /\ UNCHANGED <<handler, ticking, agents, muted>>
    BY <1>6 DEF BatchEnds, runners
  <2>2. todo[b]["all"] = NoWake
    BY <2>1, AllIsATarget DEF Unanswered
  <2> QED
    BY <1>0, <2>1, <2>2, ChainOver
<1> QED
  BY <1>1, <1>2, <1>3, <1>4, <1>5, <1>6 DEF BatchGoesOn

LEMMA ChainStep ==
  ASSUME TypeInv, TypeInv', OfTheBatch, DisabledIsMuted, Chain, [Next]_vars
  PROVE  Chain'
<1>0. TypeOK /\ TypeInv /\ TypeOK' /\ Numbered
  BY DEF TypeInv
<1>1. ASSUME NEW t \in Targets, NEW p \in Urgencies, RequestHeartbeatNow(t, p) PROVE Chain'
  <2>1. /\ p \in 0..3 /\ pendingWakes' = Queue(t, p)
        /\ UNCHANGED <<handler, ticking, agents, muted, active, todo>>
    BY <1>1, HeartbeatAssumption DEF RequestHeartbeatNow, Request, batches, runners
  <2>2. pendingWakes'["all"] >= pendingWakes["all"]
    BY <1>0, <2>1, QueueFacts, AllIsATarget
  <2> QED
    BY <1>0, <2>1, <2>2, ChainRaised
<1>2. ASSUME FiresUnheard \/ FiresRunning PROVE Chain'
  BY <1>2 DEF FiresUnheard, FiresRunning, batches, runners, Chain, Chained
<1>3. ASSUME NEW b \in Batches, BatchBegins(b) PROVE Chain'
  <2>1. /\ at[b] = "idle" /\ todo' = [todo EXCEPT ![b] = pendingWakes]
        /\ active' = [active EXCEPT ![b] = handler]
        /\ UNCHANGED <<handler, ticking, agents, muted>>
    BY <1>3 DEF BatchBegins, runners
  <2>2. /\ todo[b] = Nothing /\ todo'[b] = pendingWakes /\ active'[b] = handler
        /\ \A c \in Batches : c # b => todo'[c] = todo[c] /\ active'[c] = active[c]
    BY <1>0, <2>1 DEF TypeOK
  <2>3. todo[b]["all"] = NoWake
    BY <2>2, AllIsATarget DEF Nothing
  <2> QED
    BY <2>1, <2>2, <2>3 DEF Chain, Chained
<1>4. ASSUME NEW r \in Runners, Tick(r) PROVE Chain'
  <2>1. Interval \in 0..3 /\ pendingWakes' = Queue("all", Interval)
    BY <1>4 DEF Tick, Request, Interval
  <2>2. pendingWakes'["all"] >= 1 /\ pendingWakes'["all"] \in 0..3
    BY <1>0, <2>1, QueueFacts, AllIsATarget DEF Interval, Wakes, NoWake, Action
  <2> QED
    BY <2>2 DEF Chain, Chained, NoWake
<1>5. ASSUME NEW some \in BOOLEAN, Start(some) PROVE Chain'
  <2>1. starts + 1 \notin agents
    BY <1>0 DEF Numbered, TypeOK
  <2> QED
    BY <1>5, <2>1 DEF Start, Chain, Chained
<1>6. ASSUME NEW r \in Runners, Stop(r) PROVE Chain'
  <2>1. /\ handler' = (IF handler = r THEN NoRunner ELSE handler)
        /\ agents' = agents \ {r} /\ ticking' = ticking \ {r}
        /\ UNCHANGED <<pendingWakes, active, todo, muted>>
    BY <1>6 DEF Stop, batches
  <2>2. NoRunner \notin agents
    BY <1>0 DEF Numbered, NoRunner, TypeOK
  <2>3. CASE handler = r
    BY <2>1, <2>2, <2>3 DEF Chain
  <2>4. CASE handler # r
    BY <2>1, <2>4 DEF Chain, Chained
  <2> QED
    BY <2>3, <2>4
<1>7. ASSUME NEW r \in Runners, NEW some \in BOOLEAN, UpdateConfig(r, some) PROVE Chain'
  BY <1>7 DEF UpdateConfig, wake, Chain, Chained
<1>8. ASSUME NEW on \in BOOLEAN, SetHeartbeatsEnabled(on) PROVE Chain'
  BY <1>0, <1>8 DEF SetHeartbeatsEnabled, wake, batches, TypeOK, Chain, Chained
<1>9. ASSUME UNCHANGED vars PROVE Chain'
  BY <1>9 DEF vars, wake, batches, runners, Chain, Chained
<1> QED
  BY <1>1, <1>2, <1>3, <1>4, <1>5, <1>6, <1>7, <1>8, <1>9, ChainBatches DEF Next, Around

-----------------------------------------------------------------------------
(* Theorems *)

\* The inductive invariant holds in every reachable state.
THEOREM Invariance == Spec => []IInv
<1>1. Init => IInv
  BY TypeInit, BatchInit, MutedInit, WatchedInit, KeptInit, ChainInit DEF TypeInv, IInv
<1>2. ASSUME IInv, [Next]_vars PROVE IInv'
  <2>1. TypeInv /\ TypeInv'
    BY <1>2, TypeStep DEF IInv, TypeInv
  <2>2. OfTheBatch' /\ DisabledIsMuted' /\ PendingIsWatched'
    BY <1>2, <2>1, BatchStep, MutedStep, WatchedStep DEF IInv
  <2>3. NoWakeForgotten' /\ Chain'
    BY <1>2, <2>1, KeptStep, ChainStep DEF IInv
  <2> QED
    BY <2>1, <2>2, <2>3 DEF TypeInv, IInv
<1> QED
  BY <1>1, <1>2, PTL DEF Spec

\* Every variable keeps its shape, and no stopped runner is registered or ticks.
THEOREM TypeCorrect == Spec => []TypeOK
<1>1. IInv => TypeOK
  BY DEF IInv
<1> QED
  BY <1>1, Invariance, PTL

\* A wake asked for is pending or in a batch with its urgency until it is answered,
\* through merges, refusals, thrown batches, stops and new runners.
THEOREM WakesAreKept == Spec => []NoWakeForgotten
<1>1. IInv => NoWakeForgotten
  BY DEF IInv
<1> QED
  BY <1>1, Invariance, PTL

\* A pending wake with a runner registered has the timer or a batch to look at it.
THEOREM PendingWakesAreWatched == Spec => []PendingIsWatched
<1>1. IInv => PendingIsWatched
  BY DEF IInv
<1> QED
  BY <1>1, Invariance, PTL

\* The registered runner with an agent always has its next interval wake on the way,
\* unless heartbeats were disabled.
THEOREM HeartbeatsGoOn == Spec => []HeartbeatsKeepFiring
<1>1. IInv => HeartbeatsKeepFiring
  BY DEF IInv, Chain, Chained, HeartbeatsKeepFiring, WillTick
<1> QED
  BY <1>1, Invariance, PTL
=============================================================================
