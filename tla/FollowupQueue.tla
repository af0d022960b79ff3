--------------------------- MODULE FollowupQueue ---------------------------
(***************************************************************************)
(* The follow-up queue of one session                                      *)
(* (openclaw-main/src/auto-reply/reply/queue/): messages that arrive while *)
(* an agent run of the session is active wait in a queue object, and one   *)
(* drain, an async function, answers them when the turn has ended.         *)
(*                                                                         *)
(* FOLLOWUP_QUEUES maps the session's key to a queue object ("current").   *)
(* A drain holds on to the object it began with, so that after a clear an  *)
(* old object and its drain can outlive the entry of the map.              *)
(***************************************************************************)
EXTENDS Integers, Sequences, FiniteSets

CONSTANTS
  Deliveries,     \* inbound messages, redeliveries counted apart
  MessageId,      \* delivery -> its message id; a redelivery has the same
  Route,          \* delivery -> channel, recipient, account and thread
  Unroutable,     \* routes of channels that replies cannot be routed to
  Queues,         \* bound: queue objects alive at once
  NoQueue,
  Settings,       \* queue settings a message may come with; cap = 0: not given
  DefaultCap,     \* DEFAULT_QUEUE_CAP
  MaxFailures,    \* bound: runs that throw
  MaxClears       \* bound: calls of clearSessionQueues

ASSUME FollowupAssumption ==
  /\ NoQueue \notin Queues
  /\ DefaultCap \in Nat \ {0}
  /\ Settings \subseteq [mode : {"collect", "followup"}, cap : Nat,
                         drop : {"old", "new", "summarize"}]
  /\ MaxFailures \in Nat
  /\ MaxClears \in Nat

VARIABLES
  current,        \* FOLLOWUP_QUEUES.get(key)
  queue,          \* the queue objects
  drain,          \* queue object -> its drain, idle when draining is false
  callback,       \* FOLLOWUP_RUN_CALLBACKS has the key
  recent,         \* RECENT_QUEUE_MESSAGE_IDS
  fate,           \* delivery -> what became of it
  failures, clears,
  forgotten,      \* history: accepted deliveries whose id has left recent since
  unmapped        \* history: objects that another object's drain took off the map

fvars == <<current, queue, drain, callback, recent, fate, failures, clears,
           forgotten, unmapped>>

Fates == {"new", "late", "turn", "done", "queued", "summarized",
          "duplicate", "refused", "dropped", "cleared", "answered", "told"}
Accepted == {"queued", "summarized", "dropped", "cleared", "answered", "told"}

Elements(s) == {s[i] : i \in DOMAIN s}
Key(d) == <<MessageId[d], Route[d]>>
FreshQueue == [items |-> <<>>, dropped |-> <<>>, mode |-> "collect", cap |-> DefaultCap,
               drop |-> "summarize", lastRun |-> FALSE]
Idle == [at |-> "idle", batch |-> <<>>, take |-> 0, told |-> FALSE, forced |-> FALSE]
Debounce(forced) == [Idle EXCEPT !.at = "debounce", !.forced = forced]
Run(batch, take, told, forced) ==
  [at |-> "run", batch |-> batch, take |-> take, told |-> told, forced |-> forced]

Draining(q) == drain[q].at # "idle"
HasWork(s) == s.items # <<>> \/ s.dropped # <<>>
Live == {q \in Queues : q = current \/ Draining(q)}

\* isEmbeddedPiRunActive: a turn or a follow-up run of the session is under way.
Active == (\E d \in Deliveries : fate[d] = "turn") \/ (\E q \in Queues : drain[q].at = "run")

FInit ==
  /\ current = NoQueue
  /\ queue = [q \in Queues |-> FreshQueue]
  /\ drain = [q \in Queues |-> Idle]
  /\ callback = FALSE
  /\ recent = {}
  /\ fate = [d \in Deliveries |-> "new"]
  /\ failures = 0
  /\ clears = 0
  /\ forgotten = {}
  /\ unmapped = {}

-----------------------------------------------------------------------------
(* Enqueueing.  A definition whose name starts with Fault is a plausible bug   *)
(* in the one below it; no action uses it.                                     *)

FaultZeroCap(s, settings) == settings.cap
CapOf(s, settings) == IF settings.cap > 0 THEN settings.cap ELSE s.cap

\* applyQueueRuntimeSettings
WithSettings(s, settings) ==
  [s EXCEPT !.mode = settings.mode, !.drop = settings.drop, !.cap = CapOf(s, settings)]

FaultOneShort(s) == Len(s.items) - s.cap
DropCount(s) == Len(s.items) - s.cap + 1
Full(s) == s.cap > 0 /\ Len(s.items) >= s.cap
DropPrefix(s, n) == SubSeq(s, n + 1, Len(s))

\* applyQueueDropPolicy and items.push, for a message that is not refused
Accept(s, d) ==
  LET n == IF Full(s) THEN DropCount(s) ELSE 0
      told == IF s.drop = "summarize" THEN SubSeq(s.items, 1, n) ELSE <<>>
  IN [s EXCEPT !.items = Append(DropPrefix(s.items, n), d),
               !.dropped = s.dropped \o told, !.lastRun = TRUE]

FaultNotRemembered(d) == recent
Remember(d) == recent \cup {Key(d)}
Expired(k) == recent \ {k}
Seen(s, d) == Key(d) \in recent \cup {Key(e) : e \in Elements(s.items)}

FaultNoKick(q) == FALSE
Kicks(q) == callback /\ ~Draining(q)

\* The message finds the session active, or starts a turn of its own.
Arrive(d) ==
  /\ fate[d] = "new"
  /\ fate' = [fate EXCEPT ![d] = IF Active THEN "late" ELSE "turn"]
  /\ UNCHANGED <<current, queue, drain, callback, recent, failures, clears, forgotten,
                 unmapped>>

\* An id leaves the cache: its five minutes are over, or ten thousand later ones
\* have pushed it out.  (Only an id that a delivery to come will ask for: the others
\* are never read again.)
Forget(k) ==
  /\ k \in recent
  /\ \E d \in Deliveries : Key(d) = k /\ fate[d] \in {"new", "late"}
  /\ recent' = Expired(k)
  /\ forgotten' = forgotten \cup {d \in Deliveries : Key(d) = k /\ fate[d] \in Accepted}
  /\ UNCHANGED <<current, queue, drain, callback, fate, failures, clears, unmapped>>

\* enqueueFollowupRun, some awaits after the session was found active.
Enqueue(d, settings) ==
  /\ fate[d] = "late"
  /\ \E q \in Queues :
       /\ IF current = NoQueue THEN q \notin Live ELSE q = current
       /\ LET s == WithSettings(IF current = NoQueue THEN FreshQueue ELSE queue[q], settings)
              gone == Elements(SubSeq(s.items, 1, Len(s.items) - Len(Accept(s, d).items) + 1))
          IN /\ current' = q
             /\ unmapped' = unmapped \ {q}
             /\ \/ /\ Seen(s, d)
                   /\ queue' = [queue EXCEPT ![q] = s]
                   /\ fate' = [fate EXCEPT ![d] = "duplicate"]
                   /\ UNCHANGED <<drain, recent>>
                \/ /\ ~Seen(s, d)
                   /\ Full(s) /\ s.drop = "new"
                   /\ queue' = [queue EXCEPT ![q] = [s EXCEPT !.lastRun = TRUE]]
                   /\ fate' = [fate EXCEPT ![d] = "refused"]
                   /\ UNCHANGED <<drain, recent>>
                \/ /\ ~Seen(s, d)
                   /\ ~(Full(s) /\ s.drop = "new")
                   /\ queue' = [queue EXCEPT ![q] = Accept(s, d)]
                   /\ recent' = Remember(d)
                   /\ fate' = [e \in Deliveries |->
                                 IF e = d THEN "queued"
                                 ELSE IF e \in gone
                                      THEN IF s.drop = "summarize" THEN "summarized" ELSE "dropped"
                                      ELSE fate[e]]
                   /\ drain' = [drain EXCEPT ![q] = IF Kicks(q) THEN Debounce(FALSE) ELSE @]
  /\ UNCHANGED <<callback, failures, clears, forgotten>>

-----------------------------------------------------------------------------
(* Draining *)

\* scheduleFollowupDrain(key, ...) when the map holds cur: begin a drain of it,
\* which ends at once when there is nothing to do.  qs and dr are the queues and
\* the drains at the call.
Begins(cur, dr) == cur # NoQueue /\ dr[cur].at = "idle"
Schedule(cur, qs, dr) ==
  /\ callback' = (callback \/ Begins(cur, dr))
  /\ drain' = IF Begins(cur, dr) /\ HasWork(qs[cur])
              THEN [dr EXCEPT ![cur] = Debounce(FALSE)] ELSE dr
  /\ current' = IF Begins(cur, dr) /\ ~HasWork(qs[cur]) THEN NoQueue ELSE cur

\* finalizeWithFollowup: the turn ends, well or not.
TurnEnds(d) ==
  /\ fate[d] = "turn"
  /\ fate' = [fate EXCEPT ![d] = "done"]
  /\ Schedule(current, queue, drain)
  /\ UNCHANGED <<queue, recent, failures, clears, forgotten, unmapped>>

\* finally: the drain of q ends with q's queue as in qs; the entry of the map is
\* deleted whatever object it holds.
TakenOffMap(q) == {current} \ {q, NoQueue}
Finally(q, qs) ==
  IF HasWork(qs[q])
  THEN /\ Schedule(current, qs, [drain EXCEPT ![q] = Idle])
       /\ UNCHANGED unmapped
  ELSE /\ drain' = [drain EXCEPT ![q] = Idle]
       /\ current' = NoQueue
       /\ unmapped' = unmapped \cup TakenOffMap(q)
       /\ UNCHANGED callback

\* hasCrossChannelItems
CrossChannel(items) ==
  LET routes == {Route[d] : d \in Elements(items)}
  IN routes \cap Unroutable # {} \/ Cardinality(routes) > 1

\* drainNextQueueItem
RunNext(q, forced) == Run(<<Head(queue[q].items)>>, 1, FALSE, forced)
Summarizes(s) == s.drop = "summarize" /\ s.dropped # <<>>

\* One round of the loop after waitForQueueDebounce, up to its next await or to a break.
Round(q) ==
  LET s == queue[q]
      forced == drain[q].forced \/ CrossChannel(s.items)
      Go(dr) == drain' = [drain EXCEPT ![q] = dr] /\ UNCHANGED <<current, callback, unmapped>>
  IN /\ drain[q].at = "debounce"
     /\ \/ /\ s.mode = "collect" /\ forced /\ s.items # <<>>
           /\ Go(RunNext(q, TRUE))
        \/ /\ s.mode = "collect" /\ ~forced
           /\ Go([drain[q] EXCEPT !.at = "collect"])
        \/ /\ s.mode # "collect" /\ Summarizes(s) /\ s.lastRun /\ s.items # <<>>
           /\ Go(Run(<<>>, 1, TRUE, drain[q].forced))
        \/ /\ s.mode # "collect" /\ ~Summarizes(s) /\ s.items # <<>>
           /\ Go(RunNext(q, drain[q].forced))
        \/ /\ s.items = <<>>
           /\ s.mode = "collect" => forced
           /\ Finally(q, queue)
     /\ UNCHANGED <<queue, recent, fate, failures, clears, forgotten>>

\* drainCollectQueueStep has answered "skipped" and its await is over: the batch
\* is what waits now.
Collect(q) ==
  LET s == queue[q]
  IN /\ drain[q].at = "collect"
     /\ IF s.items = <<>> /\ ~s.lastRun
        THEN Finally(q, queue)
        ELSE /\ drain' = [drain EXCEPT ![q] =
                            Run(s.items, Len(s.items), Summarizes(s), drain[q].forced)]
             /\ UNCHANGED <<current, callback, unmapped>>
     /\ UNCHANGED <<queue, recent, fate, failures, clears, forgotten>>

\* The run ends; what was taken leaves the front of the queue as it is now.
FaultKeep(s, dr) == s
AfterRun(s, dr) ==
  [s EXCEPT !.items = DropPrefix(s.items, dr.take),
            !.dropped = IF dr.told THEN <<>> ELSE s.dropped]

RunEnds(q) ==
  LET qs == [queue EXCEPT ![q] = AfterRun(queue[q], drain[q])]
  IN /\ drain[q].at = "run"
     /\ queue' = qs
     /\ fate' = [d \in Deliveries |->
                   IF d \in Elements(drain[q].batch) THEN "answered"
                   ELSE IF drain[q].told /\ d \in Elements(queue[q].dropped) THEN "told"
                   ELSE fate[d]]
     /\ IF HasWork(qs[q])
        THEN /\ drain' = [drain EXCEPT ![q] = Debounce(drain[q].forced)]
             /\ UNCHANGED <<current, callback, unmapped>>
        ELSE Finally(q, qs)
     /\ UNCHANGED <<recent, failures, clears, forgotten>>

\* The run throws: catch, finally.
RunThrows(q) ==
  /\ drain[q].at = "run"
  /\ failures < MaxFailures
  /\ failures' = failures + 1
  /\ Finally(q, queue)
  /\ UNCHANGED <<queue, recent, fate, clears, forgotten>>

\* clearSessionQueues: /stop, a session reset, a killed subagent.
Clear ==
  /\ clears < MaxClears
  /\ clears' = clears + 1
  /\ callback' = FALSE
  /\ current' = NoQueue
  /\ IF current = NoQueue
     THEN UNCHANGED <<queue, fate>>
     ELSE LET waiting == Elements(queue[current].items) \cup Elements(queue[current].dropped)
          IN /\ fate' = [d \in Deliveries |-> IF d \in waiting THEN "cleared" ELSE fate[d]]
             /\ queue' = [queue EXCEPT ![current].items = <<>>, ![current].dropped = <<>>,
                                       ![current].lastRun = FALSE]
  /\ UNCHANGED <<drain, recent, failures, forgotten, unmapped>>

-----------------------------------------------------------------------------
DrainStep(q) == Round(q) \/ Collect(q) \/ RunEnds(q)

FNext ==
  \/ \E d \in Deliveries : Arrive(d) \/ TurnEnds(d) \/ \E s \in Settings : Enqueue(d, s)
  \/ \E q \in Queues : DrainStep(q) \/ RunThrows(q)
  \/ \E k \in recent : Forget(k)
  \/ Clear

FSpec == FInit /\ [][FNext]_fvars

\* Debounce timers fire, awaits continue and agent runs end (they have a timeout).
FFairSpec == FSpec /\ \A q \in Queues : WF_fvars(DrainStep(q))

-----------------------------------------------------------------------------
(* Properties *)

\* Every variable keeps its shape: caps stay positive, and a drain takes from its
\* queue only while it runs something.
FTypeOK ==
  /\ current \in Queues \cup {NoQueue}
  /\ queue \in [Queues -> [items : Seq(Deliveries), dropped : Seq(Deliveries),
                           mode : {"collect", "followup"}, cap : Nat \ {0},
                           drop : {"old", "new", "summarize"}, lastRun : BOOLEAN]]
  /\ drain \in [Queues -> [at : {"idle", "debounce", "collect", "run"},
                           batch : Seq(Deliveries), take : Nat, told : BOOLEAN,
                           forced : BOOLEAN]]
  /\ \A q \in Queues : drain[q].at # "run" => drain[q].batch = <<>> /\ drain[q].take = 0
  /\ callback \in BOOLEAN
  /\ recent \subseteq {Key(d) : d \in Deliveries}
  /\ fate \in [Deliveries -> Fates]
  /\ failures \in 0..MaxFailures
  /\ clears \in 0..MaxClears
  /\ forgotten \subseteq Deliveries
  /\ unmapped \subseteq Queues

\* enqueue.ts:85-90: a queue object that holds a message has a drain, however drains,
\* clears and late messages interleave, with two exceptions.  Before the session's
\* first drain and after a clear no callback is known, and the session's queue waits
\* for the end of the next turn.  And an object that the end of another object's
\* drain took off the map (drain.ts:166 deletes by key) may keep what it holds.
NoStrandedFollowup ==
  \A q \in Queues :
    HasWork(queue[q]) /\ ~Draining(q) => (q = current /\ ~callback) \/ q \in unmapped

EachOnce(items) == \A i, j \in DOMAIN items : i # j => Key(items[i]) # Key(items[j])

\* Of the deliveries of one message id of a route only one is accepted, also when it
\* is redelivered while the first is being answered or after that (enqueue.ts:54-68),
\* until the id leaves the cache (five minutes, enqueue.ts:7-10); and even then not
\* beside a delivery that still waits in the same queue.
AcceptedOnce ==
  /\ \A d, e \in Deliveries \ forgotten :
       d # e /\ fate[d] \in Accepted /\ fate[e] \in Accepted => Key(d) # Key(e)
  /\ \A q \in Queues : EachOnce(queue[q].items)

\* "cap: max queued messages per session" (docs/concepts/queue.md:67): a queue that
\* accepts a message is within the cap in force after it, whatever it held before,
\* so also when a setting has just shrunk the cap below what waits.
WithinCap ==
  [][\A q \in Queues, d \in Deliveries :
       /\ fate[d] = "late" /\ fate'[d] = "queued"
       /\ d \in Elements(queue'[q].items)
       => Len(queue'[q].items) <= queue'[q].cap]_fvars

\* A message that waits in the session's queue while that has a drain leaves it,
\* through failed runs, overflow and drains that replace each other, unless the
\* queue is taken out of the map.
QueueDrains ==
  \A q \in Queues, d \in Deliveries :
    q = current /\ Draining(q) /\ d \in Elements(queue[q].items)
      ~> q # current \/ d \notin Elements(queue[q].items)

\* "followup: enqueue for the next agent turn after the current run ends"
\* (docs/concepts/queue.md:30): an accepted message that nothing dropped or cleared
\* is in a queue that is in use or in the run under way.
NoSilentLoss ==
  \A d \in Deliveries :
    /\ fate[d] = "queued" =>
         \E q \in Live : d \in Elements(queue[q].items) \cup Elements(drain[q].batch)
    /\ fate[d] = "summarized" => \E q \in Live : d \in Elements(queue[q].dropped)
=============================================================================
