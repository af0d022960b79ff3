--------------------------- MODULE DeliveryQueue ---------------------------
(***************************************************************************)
(* The write-ahead queue of outbound messages                              *)
(* (openclaw-main/src/infra/outbound/delivery-queue.ts), written by        *)
(* deliverOutboundPayloads (deliver.ts:464-522) and scanned by a recovery  *)
(* that every start of the gateway runs beside the traffic                 *)
(* (gateway/server.impl.ts:758-770).                                       *)
(*                                                                         *)
(* A worker is the live send of a message, named by the message, or a      *)
(* recovery.  Every file operation is a step, since each is awaited; a     *)
(* crash ends all workers and leaves the files.                            *)
(***************************************************************************)
EXTENDS Integers, FiniteSets

CONSTANTS
  Messages,     \* numbered by enqueuedAt
  BestEffort,   \* messages sent with bestEffort
  Reported,     \* of these, the ones whose live send has an onError
  Recoveries,   \* bound: recoveries alive at once
  NoMessage,
  MaxRetries,   \* MAX_RETRIES
  MaxStarts     \* bound: starts of the gateway, in the same process or a new one

ASSUME DeliveryAssumption ==
  /\ Messages \subseteq Nat
  /\ NoMessage \notin Messages
  /\ Recoveries \cap Messages = {}
  /\ Reported \subseteq BestEffort /\ BestEffort \subseteq Messages
  /\ MaxRetries \in Nat \ {0}
  /\ MaxStarts \in Nat

VARIABLES
  retryCount,   \* message -> the retryCount in {id}.json, or NoFile
  marker,       \* messages with a {id}.delivered
  failed,       \* messages with a failed/{id}.json
  at,           \* worker -> the step it is at
  on,           \* worker -> the message it works on
  held,         \* worker -> the retryCount that failDelivery read
  names,        \* recovery -> files of its readdir that it has not read yet
  pending,      \* recovery -> message -> the retryCount it read, or NoFile
  up,           \* the process runs
  starts,
  accepted,     \* history: messages whose entry was written
  sent,         \* history: messages of which a send succeeded
  aborted,      \* history: messages whose live send was aborted
  acked,        \* history: messages whose ack has passed phase 1
  shared        \* history: messages that two workers had in hand at once

files == <<retryCount, marker, failed>>
recovery == <<names, pending>>
history == <<accepted, sent, aborted, acked, shared>>
vars == <<files, at, on, held, recovery, up, starts, history>>

NoFile == -1
Workers == Messages \cup Recoveries
Exists(m) == retryCount[m] # NoFile
Empty == [m \in Messages |-> NoFile]

Init ==
  /\ retryCount = Empty
  /\ marker = {} /\ failed = {}
  /\ at = [w \in Workers |-> "idle"]
  /\ on = [w \in Workers |-> NoMessage]
  /\ held = [w \in Workers |-> 0]
  /\ names = [r \in Recoveries |-> {}]
  /\ pending = [r \in Recoveries |-> Empty]
  /\ up = TRUE
  /\ starts = 0
  /\ accepted = {} /\ sent = {} /\ aborted = {} /\ acked = {} /\ shared = {}

-----------------------------------------------------------------------------
(* Workers.  A definition whose name starts with Fault is a plausible bug in    *)
(* the one below it; no action uses it.                                        *)

\* Where w goes when it is through with its message.
Through(w) == IF w \in Recoveries THEN "loop" ELSE "done"
GoTo(w, step) == at' = [at EXCEPT ![w] = step]

Working == {w \in Workers : at[w] \notin {"idle", "done", "load", "loop"}}

\* w turns to m.
Take(w, m, step) ==
  /\ on' = [on EXCEPT ![w] = m]
  /\ GoTo(w, step)

\* v has m in hand: it works on it, or has it in its list.
Holds(v, m) == (v \in Working /\ on[v] = m) \/ (v \in Recoveries /\ pending[v][m] # NoFile)

\* deliverOutboundPayloads up to its send: enqueueDelivery writes the entry, or
\* fails and the message is sent without one.
Deliver(m) ==
  /\ up
  /\ at[m] = "idle"
  /\ Take(m, m, "send")
  /\ \/ /\ retryCount' = [retryCount EXCEPT ![m] = 0]
        /\ accepted' = accepted \cup {m}
     \/ UNCHANGED <<retryCount, accepted>>
  /\ UNCHANGED <<marker, failed, held, recovery, up, starts, sent, aborted, acked, shared>>

Queued(w) == w \in Recoveries \/ w \in accepted

\* deliverOutboundPayloadsCore sends everything.
SendOk(w) ==
  /\ at[w] = "send"
  /\ sent' = sent \cup {on[w]}
  /\ GoTo(w, IF Queued(w) THEN "ack" ELSE "done")
  /\ UNCHANGED <<files, on, held, recovery, up, starts, accepted, aborted, acked, shared>>

\* A send fails.  With bestEffort the error of a payload is swallowed, and seen only
\* through onError, which a recovery does not pass; what fails around the payloads
\* throws.
Swallowed(w) == on[w] \in BestEffort /\ (w \in Recoveries \/ w \notin Reported)
FaultAcksFailure(w) == {"ack"}
AfterError(w) ==
  (IF Swallowed(w) THEN {"ack"} ELSE {})
    \cup (IF w \in Recoveries THEN {"fail", "move"} ELSE {"fail"})

SendFails(w) ==
  /\ at[w] = "send"
  /\ \E step \in AfterError(w) : GoTo(w, IF Queued(w) THEN step ELSE "done")
  /\ UNCHANGED <<files, on, held, recovery, up, starts, history>>

\* The abort signal of a live send is seen (without bestEffort it throws).
Abort(m) ==
  /\ at[m] = "send"
  /\ m \notin BestEffort
  /\ aborted' = aborted \cup {m}
  /\ GoTo(m, IF Queued(m) THEN "ack" ELSE "done")
  /\ UNCHANGED <<files, on, held, recovery, up, starts, accepted, sent, acked, shared>>

\* ackDelivery, phase 1
FaultCopied(m) == retryCount
Renamed(m) == [retryCount EXCEPT ![m] = NoFile]

AckRename(w) ==
  /\ at[w] = "ack"
  /\ IF Exists(on[w])
     THEN /\ retryCount' = Renamed(on[w])
          /\ marker' = marker \cup {on[w]}
          /\ acked' = acked \cup {on[w]}
     ELSE UNCHANGED <<retryCount, marker, acked>>
  /\ GoTo(w, "unlink")
  /\ UNCHANGED <<failed, on, held, recovery, up, starts, accepted, sent, aborted, shared>>

\* Phase 2, and the clean-up when the entry was gone.
AckUnlink(w) ==
  /\ at[w] = "unlink"
  /\ marker' = marker \ {on[w]}
  /\ GoTo(w, Through(w))
  /\ UNCHANGED <<retryCount, failed, on, held, recovery, up, starts, history>>

\* failDelivery reads the entry; it throws when there is none.
FailRead(w) ==
  /\ at[w] = "fail"
  /\ held' = [held EXCEPT ![w] = IF Exists(on[w]) THEN retryCount[on[w]] ELSE @]
  /\ GoTo(w, IF Exists(on[w]) THEN "write" ELSE Through(w))
  /\ UNCHANGED <<files, on, recovery, up, starts, history>>

\* It writes it back, whether or not it still exists.
FailWrite(w) ==
  /\ at[w] = "write"
  /\ retryCount' = [retryCount EXCEPT ![on[w]] = held[w] + 1]
  /\ held' = [held EXCEPT ![w] = 0]
  /\ GoTo(w, Through(w))
  /\ UNCHANGED <<marker, failed, on, recovery, up, starts, history>>

\* moveToFailed
Moved(m) == failed \cup {m}

Move(w) ==
  /\ at[w] = "move"
  /\ IF Exists(on[w])
     THEN /\ retryCount' = Renamed(on[w])
          /\ failed' = Moved(on[w])
     ELSE UNCHANGED <<retryCount, failed>>
  /\ GoTo(w, Through(w))
  /\ UNCHANGED <<marker, on, held, recovery, up, starts, history>>

-----------------------------------------------------------------------------
(* Recovery *)

\* The gateway starts, after a crash or again in its process: loadPendingDeliveries
\* lists the directory and removes the markers.
FaultAlsoMarked == {m \in Messages : Exists(m) \/ m \in marker}
Listed == {m \in Messages : Exists(m)}

Start(r) ==
  /\ starts < MaxStarts
  /\ at[r] = "idle"
  /\ up' = TRUE
  /\ starts' = starts + 1
  /\ names' = [names EXCEPT ![r] = Listed]
  /\ pending' = [pending EXCEPT ![r] = Empty]
  /\ marker' = {}
  /\ GoTo(r, "load")
  /\ UNCHANGED <<retryCount, failed, on, held, history>>

\* It reads one file; one that has gone is skipped.
ReadEntry(r, m) ==
  /\ at[r] = "load"
  /\ m \in names[r]
  /\ pending' = [pending EXCEPT ![r][m] = retryCount[m]]
  /\ names' = [names EXCEPT ![r] = @ \ {m}]
  /\ shared' = IF Exists(m) /\ \E v \in Workers : Holds(v, m) THEN shared \cup {m} ELSE shared
  /\ UNCHANGED <<files, at, on, held, up, starts, accepted, sent, aborted, acked>>

Loaded(r) ==
  /\ at[r] = "load"
  /\ names[r] = {}
  /\ GoTo(r, "loop")
  /\ UNCHANGED <<files, on, held, recovery, up, starts, history>>

Left(r) == {m \in Messages : pending[r][m] # NoFile}
IsOldest(r, m) == m \in Left(r) /\ \A n \in Left(r) : m <= n
Drop(r, m) == pending' = [pending EXCEPT ![r][m] = NoFile]

FaultOneMore(r, m) == pending[r][m] > MaxRetries
Exhausted(r, m) == pending[r][m] >= MaxRetries

\* One round of the recovery's loop: the oldest entry it has read has no retries
\* left, is not due yet, or is sent.
Exhaust(r, m) ==
  /\ at[r] = "loop" /\ IsOldest(r, m)
  /\ Exhausted(r, m)
  /\ Take(r, m, "move")
  /\ Drop(r, m)
  /\ UNCHANGED <<files, held, names, up, starts, history>>

Defer(r, m) ==
  /\ at[r] = "loop" /\ IsOldest(r, m)
  /\ ~Exhausted(r, m)
  /\ pending[r][m] > 0
  /\ Drop(r, m)
  /\ UNCHANGED <<files, at, on, held, names, up, starts, history>>

Replay(r, m) ==
  /\ at[r] = "loop" /\ IsOldest(r, m)
  /\ ~Exhausted(r, m)
  /\ Take(r, m, "send")
  /\ Drop(r, m)
  /\ UNCHANGED <<files, held, names, up, starts, history>>

\* The list is done or the time budget is used up.
Recovered(r) ==
  /\ at[r] = "loop"
  /\ GoTo(r, "idle")
  /\ on' = [on EXCEPT ![r] = NoMessage]
  /\ pending' = [pending EXCEPT ![r] = Empty]
  /\ UNCHANGED <<files, held, names, up, starts, history>>

Crash ==
  /\ up
  /\ starts < MaxStarts
  /\ up' = FALSE
  /\ at' = [w \in Workers |-> IF w \in Recoveries \/ at[w] = "idle" THEN "idle" ELSE "done"]
  /\ names' = [r \in Recoveries |-> {}]
  /\ on' = [w \in Workers |-> NoMessage]
  /\ held' = [w \in Workers |-> 0]
  /\ pending' = [r \in Recoveries |-> Empty]
  /\ UNCHANGED <<files, starts, history>>

-----------------------------------------------------------------------------
WorkerStep(w) ==
  \/ SendOk(w) \/ SendFails(w)
  \/ AckRename(w) \/ AckUnlink(w)
  \/ FailRead(w) \/ FailWrite(w)
  \/ Move(w)

RecoveryStep(r) ==
  \/ Start(r) \/ Loaded(r) \/ Recovered(r)
  \/ \E m \in Messages : ReadEntry(r, m) \/ Exhaust(r, m) \/ Defer(r, m) \/ Replay(r, m)

Next ==
  \/ \E m \in Messages : Deliver(m) \/ Abort(m)
  \/ \E w \in Workers : WorkerStep(w)
  \/ \E r \in Recoveries : RecoveryStep(r)
  \/ Crash

Spec == Init /\ [][Next]_vars

-----------------------------------------------------------------------------
(* Properties *)

\* Every variable keeps its shape, and each kind of worker keeps to its own steps.
TypeOK ==
  /\ retryCount \in [Messages -> Nat \cup {NoFile}]
  /\ marker \subseteq Messages /\ failed \subseteq Messages
  /\ at \in [Workers -> {"idle", "done", "load", "loop", "send", "ack", "unlink",
                         "fail", "write", "move"}]
  /\ \A m \in Messages : at[m] \notin {"load", "loop", "move"}
  /\ \A r \in Recoveries : at[r] # "done"
  /\ on \in [Workers -> Messages \cup {NoMessage}]
  /\ held \in [Workers -> Nat]
  /\ names \in [Recoveries -> SUBSET Messages]
  /\ pending \in [Recoveries -> [Messages -> Nat \cup {NoFile}]]
  /\ up \in BOOLEAN
  /\ starts \in 0..MaxStarts
  /\ accepted \subseteq Messages /\ sent \subseteq Messages /\ aborted \subseteq Messages
  /\ acked \subseteq Messages /\ shared \subseteq Messages

\* "prevent lost outbound messages after gateway restarts" (CHANGELOG.md:2092): a
\* message whose entry was written was sent or aborted, or is still in the queue
\* or in failed/, whatever crashes, failures and overlapping recoveries came
\* between.  Best-effort messages are not covered: their errors are swallowed.
NothingLost ==
  \A m \in accepted \ BestEffort : m \in sent \cup aborted \cup failed \/ Exists(m)

\* ackDelivery's two phases (delivery-queue.ts:138-146): once an entry is marked
\* delivered or moved to failed/ it never comes back to the queue, crash or not,
\* unless two workers had it in hand at the same time.
SettledForGood == \A m \in (acked \cup failed) \ shared : ~Exists(m)

\* "moves entries that exceed MAX_RETRIES to failed/" (delivery-queue.ts:321): no
\* entry collects more failures than that, with the same exception.
RetriesBounded == \A m \in Messages \ shared : retryCount[m] <= MaxRetries

\* A message is not sent again by a recovery that scans after its ack.
NoReplayAfterAck ==
  [][\A r \in Recoveries, m \in Messages :
       m \in acked \ shared /\ at[r] = "idle" => m \notin names'[r]]_vars
=============================================================================
