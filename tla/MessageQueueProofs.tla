------------------------- MODULE MessageQueueProofs -------------------------
(* The promises of the outbound queue, for any messages, any number of      *)
(* overlapping recoveries and any number of starts; and those of the        *)
(* follow-up queue, for any messages, routes, settings and queue objects.   *)
EXTENDS DeliveryQueue, FollowupQueue, SequenceTheorems, TLAPS

(* The delivery queue. *)

\* A live send works on its own message, and every worker on some message.
OwnMessage ==
  /\ \A m \in Messages : at[m] \notin {"idle", "done"} => on[m] = m
  /\ \A w \in Working : on[w] \in Messages

\* Who is about to ack has a reason to.
Justified == \A w \in Workers : at[w] = "ack" => on[w] \in sent \cup aborted \cup BestEffort

\* Nobody knows of a message that was not handed over yet.
Fresh ==
  \A m \in Messages : at[m] = "idle" =>
    /\ ~Exists(m) /\ m \notin acked \cup failed \cup accepted
    /\ \A w \in Workers : ~Holds(w, m)
    /\ \A r \in Recoveries : m \notin names[r]

OnlyLoadingLists == \A r \in Recoveries : at[r] # "load" => names[r] = {}

\* A message two workers never had in hand at once has one of them at most, whose
\* list does not hold what it works on.
Alone == \A m \in Messages \ shared : \A v, w \in Workers : Holds(v, m) /\ Holds(w, m) => v = w
TakenOut == \A r \in Recoveries \cap Working : pending[r][on[r]] = NoFile

\* What a recovery has in its list is what the file says.
AsRead ==
  \A m \in Messages \ shared : \A r \in Recoveries :
    pending[r][m] # NoFile => retryCount[m] = pending[r][m]

\* A settled message has no file and no worker that would write one.
Settled ==
  \A m \in (acked \cup failed) \ shared :
    /\ ~Exists(m)
    /\ \A r \in Recoveries : pending[r][m] = NoFile
    /\ \A w \in Working : on[w] = m => at[w] = "unlink"

\* Who sends a message, or records its failure, has a retry left for it.
Budget ==
  \A w \in Working : on[w] \notin shared =>
    /\ at[w] \in {"send", "fail"} => retryCount[on[w]] < MaxRetries
    /\ at[w] = "write" => held[w] < MaxRetries

IInv ==
  /\ TypeOK /\ NothingLost /\ RetriesBounded
  /\ OwnMessage /\ Justified /\ Fresh /\ OnlyLoadingLists
  /\ Alone /\ TakenOut /\ AsRead /\ Settled /\ Budget

LEMMA NoFileIsBelow == NoFile < MaxRetries
  BY DeliveryAssumption DEF NoFile

\* Nobody else has in hand what a worker works on alone.
LEMMA OnlyWorker ==
  ASSUME TypeOK, OwnMessage, Alone, TakenOut, NEW w \in Working, on[w] \notin shared
  PROVE  /\ \A v \in Working : on[v] = on[w] => v = w
         /\ \A r \in Recoveries : pending[r][on[w]] = NoFile
<1> USE DEF Workers, Working
<1>1. on[w] \in Messages \ shared /\ Holds(w, on[w])
  BY DEF OwnMessage, Holds
<1>2. \A v \in Working : on[v] = on[w] => v = w
  BY <1>1 DEF Alone, Holds
<1>3. ASSUME NEW r \in Recoveries, pending[r][on[w]] # NoFile PROVE FALSE
  <2>1. r = w
    BY <1>1, <1>3 DEF Alone, Holds
  <2> QED
    BY <1>3, <2>1 DEF TakenOut
<1> QED
  BY <1>2, <1>3

-----------------------------------------------------------------------------
(* Each conjunct is kept by every step *)

\* The part of the type invariant that is about the steps of the workers.
AtOK ==
  /\ at \in [Workers -> {"idle", "done", "load", "loop", "send", "ack", "unlink",
                         "fail", "write", "move"}]
  /\ \A m \in Messages : at[m] \notin {"load", "loop", "move"}
  /\ \A r \in Recoveries : at[r] # "done"

LEMMA GoToAtOK ==
  ASSUME AtOK, NEW w \in Workers, NEW step, GoTo(w, step),
         step \in {"idle", "done", "load", "loop", "send", "ack", "unlink", "fail", "write", "move"},
         w \in Messages => step \notin {"load", "loop", "move"},
         w \in Recoveries => step # "done"
  PROVE  AtOK'
  BY DeliveryAssumption DEF AtOK, GoTo, Workers

LEMMA ThroughAtOK == ASSUME AtOK, NEW w \in Workers, GoTo(w, Through(w)) PROVE AtOK'
  BY GoToAtOK, DeliveryAssumption DEF Through, Workers

LEMMA WithOneMore == ASSUME NEW S, NEW T, S \subseteq T, NEW x \in T PROVE S \cup {x} \subseteq T
  OBVIOUS

LEMMA TypeOKStep ==
  ASSUME TypeOK, OwnMessage, [Next]_vars
  PROVE  TypeOK'
<1> USE DeliveryAssumption DEF TypeOK, Workers, files, recovery, history
<1>1. ASSUME NEW m \in Messages, Deliver(m) PROVE TypeOK'
  <2>1. AtOK'
    BY <1>1, GoToAtOK, DeliveryAssumption DEF Deliver, Take, AtOK
  <2>2. CASE retryCount' = [retryCount EXCEPT ![m] = 0] /\ accepted' = accepted \cup {m}
    BY <1>1, <2>1, <2>2 DEF Deliver, Take, AtOK
  <2>3. CASE UNCHANGED <<retryCount, accepted>>
    BY <1>1, <2>1, <2>3 DEF Deliver, Take, AtOK
  <2> QED
    BY <1>1, <2>2, <2>3 DEF Deliver
<1>2. ASSUME NEW m \in Messages, Abort(m) PROVE TypeOK'
  BY <1>2 DEF Abort, GoTo, Queued, AtOK, OwnMessage, Working
<1>3. ASSUME NEW w \in Workers, SendOk(w) PROVE TypeOK'
  <2>1. AtOK'
    BY <1>3, GoToAtOK, DeliveryAssumption DEF SendOk, AtOK, Queued
  <2>2. on[w] \in Messages /\ sent' = sent \cup {on[w]}
    BY <1>3 DEF SendOk, OwnMessage, Working
  <2>3. sent' \subseteq Messages
    BY <2>2, WithOneMore
  <2> QED
    BY <1>3, <2>1, <2>3 DEF SendOk, AtOK
<1>4. ASSUME NEW w \in Workers, SendFails(w) PROVE TypeOK'
  BY <1>4 DEF SendFails, GoTo, Queued, AfterError, AtOK, OwnMessage, Working, Swallowed
<1>5. ASSUME NEW w \in Workers, AckRename(w) PROVE TypeOK'
  <2>1. AtOK'
    BY <1>5, GoToAtOK, DeliveryAssumption DEF AckRename, AtOK
  <2>2. on[w] \in Messages
    BY <1>5 DEF AckRename, OwnMessage, Working
  <2>3. retryCount' \in [Messages -> Nat \cup {NoFile}]
    <3>1. CASE Exists(on[w])
      BY <1>5, <2>2, <3>1 DEF AckRename, Renamed
    <3>2. CASE ~Exists(on[w])
      BY <1>5, <3>2 DEF AckRename
    <3> QED
      BY <3>1, <3>2
  <2>4. marker' \subseteq Messages /\ acked' \subseteq Messages
    <3>1. /\ marker \cup {on[w]} \subseteq Messages
          /\ acked \cup {on[w]} \subseteq Messages
      BY <2>2, WithOneMore
    <3> QED
      BY <1>5, <3>1 DEF AckRename
  <2> QED
    BY <1>5, <2>1, <2>3, <2>4 DEF AckRename, AtOK
<1>6. ASSUME NEW w \in Workers, AckUnlink(w) PROVE TypeOK'
  <2>1. AtOK'
    BY <1>6, ThroughAtOK DEF AckUnlink, AtOK
  <2>2. marker' \subseteq Messages
    BY <1>6 DEF AckUnlink
  <2> QED
    BY <1>6, <2>1, <2>2 DEF AckUnlink, AtOK
<1>7. ASSUME NEW w \in Workers, FailRead(w) PROVE TypeOK'
  <2>1. AtOK'
    BY <1>7, GoToAtOK, ThroughAtOK, DeliveryAssumption DEF FailRead, AtOK
  <2> QED
    BY <1>7, <2>1 DEF FailRead, AtOK, Exists, OwnMessage, Working
<1>8. ASSUME NEW w \in Workers, FailWrite(w) PROVE TypeOK'
  BY <1>8 DEF FailWrite, GoTo, Through, AtOK, OwnMessage, Working
<1>9. ASSUME NEW w \in Workers, Move(w) PROVE TypeOK'
  <2>1. AtOK'
    BY <1>9, ThroughAtOK DEF Move, AtOK
  <2>2. on[w] \in Messages
    BY <1>9 DEF Move, OwnMessage, Working
  <2>3. retryCount' \in [Messages -> Nat \cup {NoFile}]
    <3>1. CASE Exists(on[w])
      BY <1>9, <2>2, <3>1 DEF Move, Renamed
    <3>2. CASE ~Exists(on[w])
      BY <1>9, <3>2 DEF Move
    <3> QED
      BY <3>1, <3>2
  <2>4. failed' \subseteq Messages
    <3>1. failed \cup {on[w]} \subseteq Messages
      BY <2>2, WithOneMore
    <3> QED
      BY <1>9, <3>1 DEF Move, Moved
  <2> QED
    BY <1>9, <2>1, <2>3, <2>4 DEF Move, AtOK
<1>10. ASSUME NEW r \in Recoveries, Start(r) PROVE TypeOK'
  BY <1>10 DEF Start, GoTo, Listed, AtOK, OwnMessage, Working, Empty, Exists
<1>11. ASSUME NEW r \in Recoveries, NEW m \in Messages, ReadEntry(r, m) PROVE TypeOK'
  BY <1>11 DEF ReadEntry, AtOK, OwnMessage, Working
<1>12. ASSUME NEW r \in Recoveries, Loaded(r) PROVE TypeOK'
  BY <1>12 DEF Loaded, GoTo, AtOK, OwnMessage, Working
<1>13. ASSUME NEW r \in Recoveries, NEW m \in Messages, Exhaust(r, m) PROVE TypeOK'
  BY <1>13 DEF Exhaust, Take, GoTo, Drop, IsOldest, Left, AtOK, OwnMessage, Working
<1>14. ASSUME NEW r \in Recoveries, NEW m \in Messages, Defer(r, m) PROVE TypeOK'
  BY <1>14 DEF Defer, Drop, IsOldest, Left, AtOK, OwnMessage, Working
<1>15. ASSUME NEW r \in Recoveries, NEW m \in Messages, Replay(r, m) PROVE TypeOK'
  BY <1>15 DEF Replay, Take, GoTo, Drop, IsOldest, Left, Exhausted, AtOK, OwnMessage, Working
<1>16. ASSUME NEW r \in Recoveries, Recovered(r) PROVE TypeOK'
  BY <1>16 DEF Recovered, GoTo, AtOK, OwnMessage, Working, Empty
<1>17. ASSUME Crash PROVE TypeOK'
  BY <1>17 DEF Crash, AtOK, OwnMessage, Working, Empty
<1>18. CASE UNCHANGED vars
  BY <1>18 DEF vars
<1> QED
  BY <1>1, <1>2, <1>3, <1>4, <1>5, <1>6, <1>7, <1>8, <1>9,
    <1>10, <1>11, <1>12, <1>13, <1>14, <1>15, <1>16, <1>17, <1>18
  DEF Next, WorkerStep, RecoveryStep

LEMMA NothingLostStep ==
  ASSUME TypeOK, Fresh, OwnMessage, Justified, NothingLost, [Next]_vars
  PROVE  NothingLost'
<1> USE DeliveryAssumption DEF TypeOK, Workers, NothingLost, Exists, files, recovery, history
<1>1. ASSUME NEW m \in Messages, Deliver(m) PROVE NothingLost'
  <2>0. ~Exists(m)
    BY <1>1 DEF Deliver, Fresh, Exists, Holds, Working
  <2>1. CASE retryCount' = [retryCount EXCEPT ![m] = 0] /\ accepted' = accepted \cup {m}
    BY <1>1, <2>0, <2>1 DEF Deliver, Take, GoTo, NoFile
  <2>2. CASE UNCHANGED <<retryCount, accepted>>
    BY <1>1, <2>0, <2>2 DEF Deliver, Take, GoTo, NoFile
  <2> QED
    BY <1>1, <2>1, <2>2 DEF Deliver
<1>2. ASSUME NEW m \in Messages, Abort(m) PROVE NothingLost'
  BY <1>2 DEF Abort, GoTo, Queued, OwnMessage, Working
<1>3. ASSUME NEW w \in Workers, SendOk(w) PROVE NothingLost'
  BY <1>3 DEF SendOk, GoTo, Queued, OwnMessage, Working
<1>4. ASSUME NEW w \in Workers, SendFails(w) PROVE NothingLost'
  BY <1>4 DEF SendFails, GoTo, Queued, AfterError, OwnMessage, Working
<1>5. ASSUME NEW w \in Workers, AckRename(w) PROVE NothingLost'
  BY <1>5 DEF AckRename, GoTo, Renamed, Exists, OwnMessage, Working, Justified
<1>6. ASSUME NEW w \in Workers, AckUnlink(w) PROVE NothingLost'
  BY <1>6 DEF AckUnlink, GoTo, Through, OwnMessage, Working
<1>7. ASSUME NEW w \in Workers, FailRead(w) PROVE NothingLost'
  BY <1>7 DEF FailRead, GoTo, Through, Exists, OwnMessage, Working
<1>8. ASSUME NEW w \in Workers, FailWrite(w) PROVE NothingLost'
  BY <1>8 DEF FailWrite, GoTo, Through, OwnMessage, Working, NoFile
<1>9. ASSUME NEW w \in Workers, Move(w) PROVE NothingLost'
  BY <1>9 DEF Move, GoTo, Through, Renamed, Moved, Exists, OwnMessage, Working
<1>10. ASSUME NEW r \in Recoveries, Start(r) PROVE NothingLost'
  BY <1>10 DEF Start, GoTo, Listed, OwnMessage, Working
<1>11. ASSUME NEW r \in Recoveries, NEW m \in Messages, ReadEntry(r, m) PROVE NothingLost'
  BY <1>11 DEF ReadEntry, OwnMessage, Working
<1>12. ASSUME NEW r \in Recoveries, Loaded(r) PROVE NothingLost'
  BY <1>12 DEF Loaded, GoTo, OwnMessage, Working
<1>13. ASSUME NEW r \in Recoveries, NEW m \in Messages, Exhaust(r, m) PROVE NothingLost'
  BY <1>13 DEF Exhaust, Take, GoTo, Drop, IsOldest, Left, OwnMessage, Working
<1>14. ASSUME NEW r \in Recoveries, NEW m \in Messages, Defer(r, m) PROVE NothingLost'
  BY <1>14 DEF Defer, Drop, IsOldest, Left, OwnMessage, Working
<1>15. ASSUME NEW r \in Recoveries, NEW m \in Messages, Replay(r, m) PROVE NothingLost'
  BY <1>15 DEF Replay, Take, GoTo, Drop, IsOldest, Left, Exhausted, OwnMessage, Working
<1>16. ASSUME NEW r \in Recoveries, Recovered(r) PROVE NothingLost'
  BY <1>16 DEF Recovered, GoTo, OwnMessage, Working
<1>17. ASSUME Crash PROVE NothingLost'
  BY <1>17 DEF Crash, OwnMessage, Working
<1>18. CASE UNCHANGED vars
  BY <1>18 DEF vars
<1> QED
  BY <1>1, <1>2, <1>3, <1>4, <1>5, <1>6, <1>7, <1>8, <1>9,
    <1>10, <1>11, <1>12, <1>13, <1>14, <1>15, <1>16, <1>17, <1>18
  DEF Next, WorkerStep, RecoveryStep

LEMMA RetriesBoundedStep ==
  ASSUME TypeOK, OwnMessage, Budget, RetriesBounded, [Next]_vars
  PROVE  RetriesBounded'
<1> USE DeliveryAssumption DEF TypeOK, Workers, RetriesBounded, files, recovery, history
<1>1. ASSUME NEW m \in Messages, Deliver(m) PROVE RetriesBounded'
  BY <1>1 DEF Deliver, Take, GoTo
<1>2. ASSUME NEW m \in Messages, Abort(m) PROVE RetriesBounded'
  BY <1>2 DEF Abort, GoTo, Queued
<1>3. ASSUME NEW w \in Workers, SendOk(w) PROVE RetriesBounded'
  BY <1>3 DEF SendOk, GoTo, Queued
<1>4. ASSUME NEW w \in Workers, SendFails(w) PROVE RetriesBounded'
  BY <1>4 DEF SendFails, GoTo, Queued, AfterError
<1>5. ASSUME NEW w \in Workers, AckRename(w) PROVE RetriesBounded'
  BY <1>5 DEF AckRename, GoTo, Renamed, Exists, NoFile
<1>6. ASSUME NEW w \in Workers, AckUnlink(w) PROVE RetriesBounded'
  BY <1>6 DEF AckUnlink, GoTo, Through
<1>7. ASSUME NEW w \in Workers, FailRead(w) PROVE RetriesBounded'
  BY <1>7 DEF FailRead, GoTo, Through, Exists
<1>8. ASSUME NEW w \in Workers, FailWrite(w) PROVE RetriesBounded'
  BY <1>8 DEF FailWrite, GoTo, Through, Budget, Working, OwnMessage
<1>9. ASSUME NEW w \in Workers, Move(w) PROVE RetriesBounded'
  BY <1>9 DEF Move, GoTo, Through, Renamed, Moved, Exists, NoFile
<1>10. ASSUME NEW r \in Recoveries, Start(r) PROVE RetriesBounded'
  BY <1>10 DEF Start, GoTo, Listed
<1>11. ASSUME NEW r \in Recoveries, NEW m \in Messages, ReadEntry(r, m) PROVE RetriesBounded'
  BY <1>11 DEF ReadEntry
<1>12. ASSUME NEW r \in Recoveries, Loaded(r) PROVE RetriesBounded'
  BY <1>12 DEF Loaded, GoTo
<1>13. ASSUME NEW r \in Recoveries, NEW m \in Messages, Exhaust(r, m) PROVE RetriesBounded'
  BY <1>13 DEF Exhaust, Take, GoTo, Drop, IsOldest, Left
<1>14. ASSUME NEW r \in Recoveries, NEW m \in Messages, Defer(r, m) PROVE RetriesBounded'
  BY <1>14 DEF Defer, Drop, IsOldest, Left
<1>15. ASSUME NEW r \in Recoveries, NEW m \in Messages, Replay(r, m) PROVE RetriesBounded'
  BY <1>15 DEF Replay, Take, GoTo, Drop, IsOldest, Left, Exhausted
<1>16. ASSUME NEW r \in Recoveries, Recovered(r) PROVE RetriesBounded'
  BY <1>16 DEF Recovered, GoTo
<1>17. ASSUME Crash PROVE RetriesBounded'
  BY <1>17 DEF Crash
<1>18. CASE UNCHANGED vars
  BY <1>18 DEF vars
<1> QED
  BY <1>1, <1>2, <1>3, <1>4, <1>5, <1>6, <1>7, <1>8, <1>9,
    <1>10, <1>11, <1>12, <1>13, <1>14, <1>15, <1>16, <1>17, <1>18
  DEF Next, WorkerStep, RecoveryStep

LEMMA OwnMessageStep ==
  ASSUME TypeOK, OwnMessage, [Next]_vars
  PROVE  OwnMessage'
<1> USE DeliveryAssumption DEF TypeOK, Workers, OwnMessage, Working, files, recovery, history
<1>1. ASSUME NEW m \in Messages, Deliver(m) PROVE OwnMessage'
  BY <1>1 DEF Deliver, Take, GoTo
<1>2. ASSUME NEW m \in Messages, Abort(m) PROVE OwnMessage'
  BY <1>2 DEF Abort, GoTo, Queued
<1>3. ASSUME NEW w \in Workers, SendOk(w) PROVE OwnMessage'
  BY <1>3 DEF SendOk, GoTo, Queued
<1>4. ASSUME NEW w \in Workers, SendFails(w) PROVE OwnMessage'
  BY <1>4 DEF SendFails, GoTo, Queued, AfterError
<1>5. ASSUME NEW w \in Workers, AckRename(w) PROVE OwnMessage'
  BY <1>5 DEF AckRename, GoTo, Renamed, Exists
<1>6. ASSUME NEW w \in Workers, AckUnlink(w) PROVE OwnMessage'
  BY <1>6 DEF AckUnlink, GoTo, Through
<1>7. ASSUME NEW w \in Workers, FailRead(w) PROVE OwnMessage'
  BY <1>7 DEF FailRead, GoTo, Through, Exists
<1>8. ASSUME NEW w \in Workers, FailWrite(w) PROVE OwnMessage'
  BY <1>8 DEF FailWrite, GoTo, Through
<1>9. ASSUME NEW w \in Workers, Move(w) PROVE OwnMessage'
  BY <1>9 DEF Move, GoTo, Through, Renamed, Moved, Exists
<1>10. ASSUME NEW r \in Recoveries, Start(r) PROVE OwnMessage'
  BY <1>10 DEF Start, GoTo, Listed
<1>11. ASSUME NEW r \in Recoveries, NEW m \in Messages, ReadEntry(r, m) PROVE OwnMessage'
  BY <1>11 DEF ReadEntry
<1>12. ASSUME NEW r \in Recoveries, Loaded(r) PROVE OwnMessage'
  BY <1>12 DEF Loaded, GoTo
<1>13. ASSUME NEW r \in Recoveries, NEW m \in Messages, Exhaust(r, m) PROVE OwnMessage'
  BY <1>13 DEF Exhaust, Take, GoTo, Drop, IsOldest, Left
<1>14. ASSUME NEW r \in Recoveries, NEW m \in Messages, Defer(r, m) PROVE OwnMessage'
  BY <1>14 DEF Defer, Drop, IsOldest, Left
<1>15. ASSUME NEW r \in Recoveries, NEW m \in Messages, Replay(r, m) PROVE OwnMessage'
  BY <1>15 DEF Replay, Take, GoTo, Drop, IsOldest, Left, Exhausted
<1>16. ASSUME NEW r \in Recoveries, Recovered(r) PROVE OwnMessage'
  BY <1>16 DEF Recovered, GoTo
<1>17. ASSUME Crash PROVE OwnMessage'
  BY <1>17 DEF Crash
<1>18. CASE UNCHANGED vars
  BY <1>18 DEF vars
<1> QED
  BY <1>1, <1>2, <1>3, <1>4, <1>5, <1>6, <1>7, <1>8, <1>9,
    <1>10, <1>11, <1>12, <1>13, <1>14, <1>15, <1>16, <1>17, <1>18
  DEF Next, WorkerStep, RecoveryStep

LEMMA JustifiedStep ==
  ASSUME TypeOK, OwnMessage, Justified, [Next]_vars
  PROVE  Justified'
<1> USE DeliveryAssumption DEF TypeOK, Workers, Justified, files, recovery, history
<1>1. ASSUME NEW m \in Messages, Deliver(m) PROVE Justified'
  BY <1>1 DEF Deliver, Take, GoTo
<1>2. ASSUME NEW m \in Messages, Abort(m) PROVE Justified'
  BY <1>2 DEF Abort, GoTo, Queued, OwnMessage
<1>3. ASSUME NEW w \in Workers, SendOk(w) PROVE Justified'
  BY <1>3 DEF SendOk, GoTo, Queued
<1>4. ASSUME NEW w \in Workers, SendFails(w) PROVE Justified'
  BY <1>4 DEF SendFails, GoTo, Queued, AfterError, Swallowed
<1>5. ASSUME NEW w \in Workers, AckRename(w) PROVE Justified'
  BY <1>5 DEF AckRename, GoTo, Renamed, Exists
<1>6. ASSUME NEW w \in Workers, AckUnlink(w) PROVE Justified'
  BY <1>6 DEF AckUnlink, GoTo, Through
<1>7. ASSUME NEW w \in Workers, FailRead(w) PROVE Justified'
  BY <1>7 DEF FailRead, GoTo, Through, Exists
<1>8. ASSUME NEW w \in Workers, FailWrite(w) PROVE Justified'
  BY <1>8 DEF FailWrite, GoTo, Through
<1>9. ASSUME NEW w \in Workers, Move(w) PROVE Justified'
  BY <1>9 DEF Move, GoTo, Through, Renamed, Moved, Exists
<1>10. ASSUME NEW r \in Recoveries, Start(r) PROVE Justified'
  BY <1>10 DEF Start, GoTo, Listed
<1>11. ASSUME NEW r \in Recoveries, NEW m \in Messages, ReadEntry(r, m) PROVE Justified'
  BY <1>11 DEF ReadEntry
<1>12. ASSUME NEW r \in Recoveries, Loaded(r) PROVE Justified'
  BY <1>12 DEF Loaded, GoTo
<1>13. ASSUME NEW r \in Recoveries, NEW m \in Messages, Exhaust(r, m) PROVE Justified'
  BY <1>13 DEF Exhaust, Take, GoTo, Drop, IsOldest, Left
<1>14. ASSUME NEW r \in Recoveries, NEW m \in Messages, Defer(r, m) PROVE Justified'
  BY <1>14 DEF Defer, Drop, IsOldest, Left
<1>15. ASSUME NEW r \in Recoveries, NEW m \in Messages, Replay(r, m) PROVE Justified'
  BY <1>15 DEF Replay, Take, GoTo, Drop, IsOldest, Left, Exhausted
<1>16. ASSUME NEW r \in Recoveries, Recovered(r) PROVE Justified'
  BY <1>16 DEF Recovered, GoTo
<1>17. ASSUME Crash PROVE Justified'
  BY <1>17 DEF Crash
<1>18. CASE UNCHANGED vars
  BY <1>18 DEF vars
<1> QED
  BY <1>1, <1>2, <1>3, <1>4, <1>5, <1>6, <1>7, <1>8, <1>9,
    <1>10, <1>11, <1>12, <1>13, <1>14, <1>15, <1>16, <1>17, <1>18
  DEF Next, WorkerStep, RecoveryStep

LEMMA FreshStep ==
  ASSUME TypeOK, OwnMessage, OnlyLoadingLists, Fresh, [Next]_vars
  PROVE  Fresh'
<1> USE DeliveryAssumption DEF TypeOK, Workers, Fresh, Exists, Holds, Working, files, recovery, history
<1>1. ASSUME NEW m \in Messages, Deliver(m) PROVE Fresh'
  BY <1>1 DEF Deliver, Take, GoTo, OwnMessage
<1>2. ASSUME NEW m \in Messages, Abort(m) PROVE Fresh'
  BY <1>2 DEF Abort, GoTo, Queued, OwnMessage
<1>3. ASSUME NEW w \in Workers, SendOk(w) PROVE Fresh'
  BY <1>3 DEF SendOk, GoTo, Queued, OwnMessage
<1>4. ASSUME NEW w \in Workers, SendFails(w) PROVE Fresh'
  BY <1>4 DEF SendFails, GoTo, Queued, AfterError, OwnMessage
<1>5. ASSUME NEW w \in Workers, AckRename(w) PROVE Fresh'
  BY <1>5 DEF AckRename, GoTo, Renamed, Exists, OwnMessage
<1>6. ASSUME NEW w \in Workers, AckUnlink(w) PROVE Fresh'
  BY <1>6 DEF AckUnlink, GoTo, Through, OwnMessage
<1>7. ASSUME NEW w \in Workers, FailRead(w) PROVE Fresh'
  BY <1>7 DEF FailRead, GoTo, Through, Exists, OwnMessage
<1>8. ASSUME NEW w \in Workers, FailWrite(w) PROVE Fresh'
  BY <1>8 DEF FailWrite, GoTo, Through, OwnMessage
<1>9. ASSUME NEW w \in Workers, Move(w) PROVE Fresh'
  BY <1>9 DEF Move, GoTo, Through, Renamed, Moved, Exists, OwnMessage
<1>10. ASSUME NEW r \in Recoveries, Start(r) PROVE Fresh'
  BY <1>10 DEF Start, GoTo, Listed, OwnMessage, Empty
<1>11. ASSUME NEW r \in Recoveries, NEW m \in Messages, ReadEntry(r, m) PROVE Fresh'
  BY <1>11 DEF ReadEntry, OwnMessage
<1>12. ASSUME NEW r \in Recoveries, Loaded(r) PROVE Fresh'
  BY <1>12 DEF Loaded, GoTo, OwnMessage
<1>13. ASSUME NEW r \in Recoveries, NEW m \in Messages, Exhaust(r, m) PROVE Fresh'
  BY <1>13 DEF Exhaust, Take, GoTo, Drop, IsOldest, Left, OwnMessage
<1>14. ASSUME NEW r \in Recoveries, NEW m \in Messages, Defer(r, m) PROVE Fresh'
  BY <1>14 DEF Defer, Drop, IsOldest, Left, OwnMessage
<1>15. ASSUME NEW r \in Recoveries, NEW m \in Messages, Replay(r, m) PROVE Fresh'
  BY <1>15 DEF Replay, Take, GoTo, Drop, IsOldest, Left, Exhausted, OwnMessage
<1>16. ASSUME NEW r \in Recoveries, Recovered(r) PROVE Fresh'
  BY <1>16 DEF Recovered, GoTo, OwnMessage, Empty
<1>17. ASSUME Crash PROVE Fresh'
  BY <1>17 DEF Crash, OwnMessage, Empty
<1>18. CASE UNCHANGED vars
  BY <1>18 DEF vars
<1> QED
  BY <1>1, <1>2, <1>3, <1>4, <1>5, <1>6, <1>7, <1>8, <1>9,
    <1>10, <1>11, <1>12, <1>13, <1>14, <1>15, <1>16, <1>17, <1>18
  DEF Next, WorkerStep, RecoveryStep

LEMMA OnlyLoadingListsStep ==
  ASSUME TypeOK, OnlyLoadingLists, [Next]_vars
  PROVE  OnlyLoadingLists'
<1> USE DeliveryAssumption DEF TypeOK, Workers, OnlyLoadingLists, files, recovery, history
<1>1. ASSUME NEW m \in Messages, Deliver(m) PROVE OnlyLoadingLists'
  BY <1>1 DEF Deliver, Take, GoTo
<1>2. ASSUME NEW m \in Messages, Abort(m) PROVE OnlyLoadingLists'
  BY <1>2 DEF Abort, GoTo, Queued
<1>3. ASSUME NEW w \in Workers, SendOk(w) PROVE OnlyLoadingLists'
  BY <1>3 DEF SendOk, GoTo, Queued
<1>4. ASSUME NEW w \in Workers, SendFails(w) PROVE OnlyLoadingLists'
  BY <1>4 DEF SendFails, GoTo, Queued, AfterError
<1>5. ASSUME NEW w \in Workers, AckRename(w) PROVE OnlyLoadingLists'
  BY <1>5 DEF AckRename, GoTo, Renamed, Exists
<1>6. ASSUME NEW w \in Workers, AckUnlink(w) PROVE OnlyLoadingLists'
  BY <1>6 DEF AckUnlink, GoTo, Through
<1>7. ASSUME NEW w \in Workers, FailRead(w) PROVE OnlyLoadingLists'
  BY <1>7 DEF FailRead, GoTo, Through, Exists
<1>8. ASSUME NEW w \in Workers, FailWrite(w) PROVE OnlyLoadingLists'
  BY <1>8 DEF FailWrite, GoTo, Through
<1>9. ASSUME NEW w \in Workers, Move(w) PROVE OnlyLoadingLists'
  BY <1>9 DEF Move, GoTo, Through, Renamed, Moved, Exists
<1>10. ASSUME NEW r \in Recoveries, Start(r) PROVE OnlyLoadingLists'
  BY <1>10 DEF Start, GoTo, Listed
<1>11. ASSUME NEW r \in Recoveries, NEW m \in Messages, ReadEntry(r, m) PROVE OnlyLoadingLists'
  BY <1>11 DEF ReadEntry
<1>12. ASSUME NEW r \in Recoveries, Loaded(r) PROVE OnlyLoadingLists'
  BY <1>12 DEF Loaded, GoTo
<1>13. ASSUME NEW r \in Recoveries, NEW m \in Messages, Exhaust(r, m) PROVE OnlyLoadingLists'
  BY <1>13 DEF Exhaust, Take, GoTo, Drop, IsOldest, Left
<1>14. ASSUME NEW r \in Recoveries, NEW m \in Messages, Defer(r, m) PROVE OnlyLoadingLists'
  BY <1>14 DEF Defer, Drop, IsOldest, Left
<1>15. ASSUME NEW r \in Recoveries, NEW m \in Messages, Replay(r, m) PROVE OnlyLoadingLists'
  BY <1>15 DEF Replay, Take, GoTo, Drop, IsOldest, Left, Exhausted
<1>16. ASSUME NEW r \in Recoveries, Recovered(r) PROVE OnlyLoadingLists'
  BY <1>16 DEF Recovered, GoTo
<1>17. ASSUME Crash PROVE OnlyLoadingLists'
  BY <1>17 DEF Crash
<1>18. CASE UNCHANGED vars
  BY <1>18 DEF vars
<1> QED
  BY <1>1, <1>2, <1>3, <1>4, <1>5, <1>6, <1>7, <1>8, <1>9,
    <1>10, <1>11, <1>12, <1>13, <1>14, <1>15, <1>16, <1>17, <1>18
  DEF Next, WorkerStep, RecoveryStep

LEMMA AloneStep ==
  ASSUME TypeOK, OwnMessage, Fresh, Alone, [Next]_vars
  PROVE  Alone'
<1> USE DeliveryAssumption DEF TypeOK, Workers, Alone, Holds, Working, files, recovery, history
<1>1. ASSUME NEW m \in Messages, Deliver(m) PROVE Alone'
  BY <1>1 DEF Deliver, Take, GoTo, Fresh
<1>2. ASSUME NEW m \in Messages, Abort(m) PROVE Alone'
  BY <1>2 DEF Abort, GoTo, Queued
<1>3. ASSUME NEW w \in Workers, SendOk(w) PROVE Alone'
  BY <1>3 DEF SendOk, GoTo, Queued
<1>4. ASSUME NEW w \in Workers, SendFails(w) PROVE Alone'
  BY <1>4 DEF SendFails, GoTo, Queued, AfterError
<1>5. ASSUME NEW w \in Workers, AckRename(w) PROVE Alone'
  BY <1>5 DEF AckRename, GoTo, Renamed, Exists
<1>6. ASSUME NEW w \in Workers, AckUnlink(w) PROVE Alone'
  BY <1>6 DEF AckUnlink, GoTo, Through
<1>7. ASSUME NEW w \in Workers, FailRead(w) PROVE Alone'
  BY <1>7 DEF FailRead, GoTo, Through, Exists
<1>8. ASSUME NEW w \in Workers, FailWrite(w) PROVE Alone'
  BY <1>8 DEF FailWrite, GoTo, Through
<1>9. ASSUME NEW w \in Workers, Move(w) PROVE Alone'
  BY <1>9 DEF Move, GoTo, Through, Renamed, Moved, Exists
<1>10. ASSUME NEW r \in Recoveries, Start(r) PROVE Alone'
  BY <1>10 DEF Start, GoTo, Listed, Empty
<1>11. ASSUME NEW r \in Recoveries, NEW m \in Messages, ReadEntry(r, m) PROVE Alone'
  BY <1>11 DEF ReadEntry, Exists
<1>12. ASSUME NEW r \in Recoveries, Loaded(r) PROVE Alone'
  BY <1>12 DEF Loaded, GoTo
<1>13. ASSUME NEW r \in Recoveries, NEW m \in Messages, Exhaust(r, m) PROVE Alone'
  BY <1>13 DEF Exhaust, Take, GoTo, Drop, IsOldest, Left
<1>14. ASSUME NEW r \in Recoveries, NEW m \in Messages, Defer(r, m) PROVE Alone'
  BY <1>14 DEF Defer, Drop, IsOldest, Left
<1>15. ASSUME NEW r \in Recoveries, NEW m \in Messages, Replay(r, m) PROVE Alone'
  BY <1>15 DEF Replay, Take, GoTo, Drop, IsOldest, Left, Exhausted
<1>16. ASSUME NEW r \in Recoveries, Recovered(r) PROVE Alone'
  BY <1>16 DEF Recovered, GoTo, Empty
<1>17. ASSUME Crash PROVE Alone'
  BY <1>17 DEF Crash, Empty
<1>18. CASE UNCHANGED vars
  BY <1>18 DEF vars
<1> QED
  BY <1>1, <1>2, <1>3, <1>4, <1>5, <1>6, <1>7, <1>8, <1>9,
    <1>10, <1>11, <1>12, <1>13, <1>14, <1>15, <1>16, <1>17, <1>18
  DEF Next, WorkerStep, RecoveryStep

LEMMA TakenOutStep ==
  ASSUME TypeOK, OwnMessage, TakenOut, [Next]_vars
  PROVE  TakenOut'
<1> USE DeliveryAssumption DEF TypeOK, Workers, TakenOut, Working, files, recovery, history
<1>1. ASSUME NEW m \in Messages, Deliver(m) PROVE TakenOut'
  BY <1>1 DEF Deliver, Take, GoTo
<1>2. ASSUME NEW m \in Messages, Abort(m) PROVE TakenOut'
  BY <1>2 DEF Abort, GoTo, Queued
<1>3. ASSUME NEW w \in Workers, SendOk(w) PROVE TakenOut'
  BY <1>3 DEF SendOk, GoTo, Queued
<1>4. ASSUME NEW w \in Workers, SendFails(w) PROVE TakenOut'
  BY <1>4 DEF SendFails, GoTo, Queued, AfterError
<1>5. ASSUME NEW w \in Workers, AckRename(w) PROVE TakenOut'
  BY <1>5 DEF AckRename, GoTo, Renamed, Exists
<1>6. ASSUME NEW w \in Workers, AckUnlink(w) PROVE TakenOut'
  BY <1>6 DEF AckUnlink, GoTo, Through
<1>7. ASSUME NEW w \in Workers, FailRead(w) PROVE TakenOut'
  BY <1>7 DEF FailRead, GoTo, Through, Exists
<1>8. ASSUME NEW w \in Workers, FailWrite(w) PROVE TakenOut'
  BY <1>8 DEF FailWrite, GoTo, Through
<1>9. ASSUME NEW w \in Workers, Move(w) PROVE TakenOut'
  BY <1>9 DEF Move, GoTo, Through, Renamed, Moved, Exists
<1>10. ASSUME NEW r \in Recoveries, Start(r) PROVE TakenOut'
  BY <1>10 DEF Start, GoTo, Listed
<1>11. ASSUME NEW r \in Recoveries, NEW m \in Messages, ReadEntry(r, m) PROVE TakenOut'
  BY <1>11 DEF ReadEntry
<1>12. ASSUME NEW r \in Recoveries, Loaded(r) PROVE TakenOut'
  BY <1>12 DEF Loaded, GoTo
<1>13. ASSUME NEW r \in Recoveries, NEW m \in Messages, Exhaust(r, m) PROVE TakenOut'
  BY <1>13 DEF Exhaust, Take, GoTo, Drop, IsOldest, Left
<1>14. ASSUME NEW r \in Recoveries, NEW m \in Messages, Defer(r, m) PROVE TakenOut'
  BY <1>14 DEF Defer, Drop, IsOldest, Left
<1>15. ASSUME NEW r \in Recoveries, NEW m \in Messages, Replay(r, m) PROVE TakenOut'
  BY <1>15 DEF Replay, Take, GoTo, Drop, IsOldest, Left, Exhausted
<1>16. ASSUME NEW r \in Recoveries, Recovered(r) PROVE TakenOut'
  BY <1>16 DEF Recovered, GoTo
<1>17. ASSUME Crash PROVE TakenOut'
  BY <1>17 DEF Crash
<1>18. CASE UNCHANGED vars
  BY <1>18 DEF vars
<1> QED
  BY <1>1, <1>2, <1>3, <1>4, <1>5, <1>6, <1>7, <1>8, <1>9,
    <1>10, <1>11, <1>12, <1>13, <1>14, <1>15, <1>16, <1>17, <1>18
  DEF Next, WorkerStep, RecoveryStep

LEMMA AsReadStep ==
  ASSUME TypeOK, OwnMessage, Fresh, Alone, TakenOut, AsRead, [Next]_vars
  PROVE  AsRead'
<1> USE DeliveryAssumption DEF TypeOK, Workers, AsRead, Holds, Working, files, recovery, history
<1>1. ASSUME NEW m \in Messages, Deliver(m) PROVE AsRead'
  <2>0. \A r \in Recoveries : pending[r][m] = NoFile
    BY <1>1 DEF Deliver, Fresh, Exists, Holds, Working
  <2>1. CASE retryCount' = [retryCount EXCEPT ![m] = 0] /\ accepted' = accepted \cup {m}
    BY <1>1, <2>0, <2>1 DEF Deliver, Take, GoTo
  <2>2. CASE UNCHANGED <<retryCount, accepted>>
    BY <1>1, <2>0, <2>2 DEF Deliver, Take, GoTo
  <2> QED
    BY <1>1, <2>1, <2>2 DEF Deliver
<1>2. ASSUME NEW m \in Messages, Abort(m) PROVE AsRead'
  BY <1>2 DEF Abort, GoTo, Queued, OwnMessage, TakenOut
<1>3. ASSUME NEW w \in Workers, SendOk(w) PROVE AsRead'
  BY <1>3 DEF SendOk, GoTo, Queued, OwnMessage, TakenOut
<1>4. ASSUME NEW w \in Workers, SendFails(w) PROVE AsRead'
  BY <1>4 DEF SendFails, GoTo, Queued, AfterError, OwnMessage, TakenOut
<1>5. ASSUME NEW w \in Workers, AckRename(w) PROVE AsRead'
  <2>1. w \in Working /\ on[w] \in Messages
    BY <1>5 DEF AckRename, OwnMessage
  <2>2. on[w] \notin shared =>
          /\ \A v \in Working : on[v] = on[w] => v = w
          /\ \A r \in Recoveries : pending[r][on[w]] = NoFile
    BY <2>1, OnlyWorker
  <2> QED
    BY <1>5, <2>1, <2>2 DEF AckRename, GoTo, Renamed, Exists
<1>6. ASSUME NEW w \in Workers, AckUnlink(w) PROVE AsRead'
  BY <1>6 DEF AckUnlink, GoTo, Through, OwnMessage, TakenOut
<1>7. ASSUME NEW w \in Workers, FailRead(w) PROVE AsRead'
  BY <1>7 DEF FailRead, GoTo, Through, Exists, OwnMessage, TakenOut
<1>8. ASSUME NEW w \in Workers, FailWrite(w) PROVE AsRead'
  <2>1. w \in Working /\ on[w] \in Messages
    BY <1>8 DEF FailWrite, OwnMessage
  <2>2. on[w] \notin shared =>
          /\ \A v \in Working : on[v] = on[w] => v = w
          /\ \A r \in Recoveries : pending[r][on[w]] = NoFile
    BY <2>1, OnlyWorker
  <2> QED
    BY <1>8, <2>1, <2>2 DEF FailWrite, GoTo, Through
<1>9. ASSUME NEW w \in Workers, Move(w) PROVE AsRead'
  <2>1. w \in Working /\ on[w] \in Messages
    BY <1>9 DEF Move, OwnMessage
  <2>2. on[w] \notin shared =>
          /\ \A v \in Working : on[v] = on[w] => v = w
          /\ \A r \in Recoveries : pending[r][on[w]] = NoFile
    BY <2>1, OnlyWorker
  <2> QED
    BY <1>9, <2>1, <2>2 DEF Move, GoTo, Through, Renamed, Moved, Exists
<1>10. ASSUME NEW r \in Recoveries, Start(r) PROVE AsRead'
  BY <1>10 DEF Start, GoTo, Listed, OwnMessage, TakenOut, Empty
<1>11. ASSUME NEW r \in Recoveries, NEW m \in Messages, ReadEntry(r, m) PROVE AsRead'
  BY <1>11 DEF ReadEntry, OwnMessage, TakenOut
<1>12. ASSUME NEW r \in Recoveries, Loaded(r) PROVE AsRead'
  BY <1>12 DEF Loaded, GoTo, OwnMessage, TakenOut
<1>13. ASSUME NEW r \in Recoveries, NEW m \in Messages, Exhaust(r, m) PROVE AsRead'
  BY <1>13 DEF Exhaust, Take, GoTo, Drop, IsOldest, Left, OwnMessage, TakenOut
<1>14. ASSUME NEW r \in Recoveries, NEW m \in Messages, Defer(r, m) PROVE AsRead'
  BY <1>14 DEF Defer, Drop, IsOldest, Left, OwnMessage, TakenOut
<1>15. ASSUME NEW r \in Recoveries, NEW m \in Messages, Replay(r, m) PROVE AsRead'
  BY <1>15 DEF Replay, Take, GoTo, Drop, IsOldest, Left, Exhausted, OwnMessage, TakenOut
<1>16. ASSUME NEW r \in Recoveries, Recovered(r) PROVE AsRead'
  BY <1>16 DEF Recovered, GoTo, OwnMessage, TakenOut, Empty
<1>17. ASSUME Crash PROVE AsRead'
  BY <1>17 DEF Crash, OwnMessage, TakenOut, Empty
<1>18. CASE UNCHANGED vars
  BY <1>18 DEF vars
<1> QED
  BY <1>1, <1>2, <1>3, <1>4, <1>5, <1>6, <1>7, <1>8, <1>9,
    <1>10, <1>11, <1>12, <1>13, <1>14, <1>15, <1>16, <1>17, <1>18
  DEF Next, WorkerStep, RecoveryStep

LEMMA SettledStep ==
  ASSUME TypeOK, OwnMessage, Fresh, Alone, TakenOut, Settled, [Next]_vars
  PROVE  Settled'
<1> USE DeliveryAssumption DEF TypeOK, Workers, Settled, Exists, Holds, Working, files, recovery, history
<1>1. ASSUME NEW m \in Messages, Deliver(m) PROVE Settled'
  BY <1>1 DEF Deliver, Take, GoTo, OwnMessage, TakenOut, Fresh
<1>2. ASSUME NEW m \in Messages, Abort(m) PROVE Settled'
  BY <1>2 DEF Abort, GoTo, Queued, OwnMessage, TakenOut
<1>3. ASSUME NEW w \in Workers, SendOk(w) PROVE Settled'
  BY <1>3 DEF SendOk, GoTo, Queued, OwnMessage, TakenOut
<1>4. ASSUME NEW w \in Workers, SendFails(w) PROVE Settled'
  BY <1>4 DEF SendFails, GoTo, Queued, AfterError, OwnMessage, TakenOut
<1>5. ASSUME NEW w \in Workers, AckRename(w) PROVE Settled'
  <2>1. w \in Working /\ on[w] \in Messages
    BY <1>5 DEF AckRename, OwnMessage
  <2>2. on[w] \notin shared =>
          /\ \A v \in Working : on[v] = on[w] => v = w
          /\ \A r \in Recoveries : pending[r][on[w]] = NoFile
    BY <2>1, OnlyWorker
  <2>3. CASE Exists(on[w])
    <3>1. retryCount' = [retryCount EXCEPT ![on[w]] = NoFile] /\ acked' = acked \cup {on[w]}
      BY <1>5, <2>3 DEF AckRename, Renamed
    <3>2. \A v \in Working' : v # w => v \in Working /\ at'[v] = at[v]
      BY <1>5 DEF AckRename, GoTo
    <3>3. at'[w] = "unlink" /\ UNCHANGED <<failed, on, pending, shared>>
      BY <1>5 DEF AckRename, GoTo
    <3>4. ASSUME NEW m \in (acked' \cup failed') \ shared', m # on[w]
          PROVE  m \in (acked \cup failed) \ shared /\ retryCount'[m] = retryCount[m]
      BY <3>1, <3>3, <3>4
    <3>5. ASSUME on[w] \notin shared
          PROVE  retryCount'[on[w]] = NoFile /\ \A v \in Working' : on[v] = on[w] => v = w
      BY <2>1, <2>2, <3>1, <3>2, <3>5
    <3> QED
      BY <2>2, <3>1, <3>2, <3>3, <3>4, <3>5
  <2>4. CASE ~Exists(on[w])
    BY <1>5, <2>1, <2>4 DEF AckRename, GoTo
  <2> QED
    BY <2>3, <2>4
<1>6. ASSUME NEW w \in Workers, AckUnlink(w) PROVE Settled'
  BY <1>6 DEF AckUnlink, GoTo, Through, OwnMessage, TakenOut
<1>7. ASSUME NEW w \in Workers, FailRead(w) PROVE Settled'
  BY <1>7 DEF FailRead, GoTo, Through, Exists, OwnMessage, TakenOut
<1>8. ASSUME NEW w \in Workers, FailWrite(w) PROVE Settled'
  <2>1. w \in Working /\ on[w] \in Messages
    BY <1>8 DEF FailWrite, OwnMessage
  <2>2. on[w] \notin shared =>
          /\ \A v \in Working : on[v] = on[w] => v = w
          /\ \A r \in Recoveries : pending[r][on[w]] = NoFile
    BY <2>1, OnlyWorker
  <2> QED
    BY <1>8, <2>1, <2>2 DEF FailWrite, GoTo, Through
<1>9. ASSUME NEW w \in Workers, Move(w) PROVE Settled'
  <2>1. w \in Working /\ on[w] \in Messages
    BY <1>9 DEF Move, OwnMessage
  <2>2. on[w] \notin shared =>
          /\ \A v \in Working : on[v] = on[w] => v = w
          /\ \A r \in Recoveries : pending[r][on[w]] = NoFile
    BY <2>1, OnlyWorker
  <2> QED
    BY <1>9, <2>1, <2>2 DEF Move, GoTo, Through, Renamed, Moved, Exists
<1>10. ASSUME NEW r \in Recoveries, Start(r) PROVE Settled'
  BY <1>10 DEF Start, GoTo, Listed, OwnMessage, TakenOut, Empty
<1>11. ASSUME NEW r \in Recoveries, NEW m \in Messages, ReadEntry(r, m) PROVE Settled'
  BY <1>11 DEF ReadEntry, OwnMessage, TakenOut
<1>12. ASSUME NEW r \in Recoveries, Loaded(r) PROVE Settled'
  BY <1>12 DEF Loaded, GoTo, OwnMessage, TakenOut
<1>13. ASSUME NEW r \in Recoveries, NEW m \in Messages, Exhaust(r, m) PROVE Settled'
  BY <1>13 DEF Exhaust, Take, GoTo, Drop, IsOldest, Left, OwnMessage, TakenOut
<1>14. ASSUME NEW r \in Recoveries, NEW m \in Messages, Defer(r, m) PROVE Settled'
  BY <1>14 DEF Defer, Drop, IsOldest, Left, OwnMessage, TakenOut
<1>15. ASSUME NEW r \in Recoveries, NEW m \in Messages, Replay(r, m) PROVE Settled'
  BY <1>15 DEF Replay, Take, GoTo, Drop, IsOldest, Left, Exhausted, OwnMessage, TakenOut
<1>16. ASSUME NEW r \in Recoveries, Recovered(r) PROVE Settled'
  BY <1>16 DEF Recovered, GoTo, OwnMessage, TakenOut, Empty
<1>17. ASSUME Crash PROVE Settled'
  BY <1>17 DEF Crash, OwnMessage, TakenOut, Empty
<1>18. CASE UNCHANGED vars
  BY <1>18 DEF vars
<1> QED
  BY <1>1, <1>2, <1>3, <1>4, <1>5, <1>6, <1>7, <1>8, <1>9,
    <1>10, <1>11, <1>12, <1>13, <1>14, <1>15, <1>16, <1>17, <1>18
  DEF Next, WorkerStep, RecoveryStep

LEMMA BudgetStep ==
  ASSUME TypeOK, OwnMessage, Fresh, Alone, TakenOut, AsRead, Budget, [Next]_vars
  PROVE  Budget'
<1> USE DeliveryAssumption DEF TypeOK, Workers, Budget, Holds, Working, files, recovery, history
<1>1. ASSUME NEW m \in Messages, Deliver(m) PROVE Budget'
  <2>0. ~Exists(m) /\ \A w \in Working : on[w] # m
    BY <1>1 DEF Deliver, Fresh, Exists, Holds, Working
  <2>1. CASE retryCount' = [retryCount EXCEPT ![m] = 0] /\ accepted' = accepted \cup {m}
    BY <1>1, <2>0, <2>1 DEF Deliver, Take, GoTo, Exists, NoFile, OwnMessage
  <2>2. CASE UNCHANGED <<retryCount, accepted>>
    BY <1>1, <2>0, <2>2 DEF Deliver, Take, GoTo, Exists, NoFile, OwnMessage
  <2> QED
    BY <1>1, <2>1, <2>2 DEF Deliver
<1>2. ASSUME NEW m \in Messages, Abort(m) PROVE Budget'
  BY <1>2 DEF Abort, GoTo, Queued, OwnMessage
<1>3. ASSUME NEW w \in Workers, SendOk(w) PROVE Budget'
  BY <1>3 DEF SendOk, GoTo, Queued, OwnMessage
<1>4. ASSUME NEW w \in Workers, SendFails(w) PROVE Budget'
  BY <1>4 DEF SendFails, GoTo, Queued, AfterError, OwnMessage
<1>5. ASSUME NEW w \in Workers, AckRename(w) PROVE Budget'
  <2>1. \A x \in Messages : retryCount'[x] = retryCount[x] \/ retryCount'[x] = NoFile
    BY <1>5 DEF AckRename, Renamed
  <2>2. at'[w] \notin {"send", "fail", "write"} /\ UNCHANGED <<on, held, shared>>
    BY <1>5 DEF AckRename, GoTo, Through
  <2>3. ASSUME NEW v \in Working', v # w, on[v] \notin shared
        PROVE  /\ at'[v] \in {"send", "fail"} => retryCount'[on[v]] < MaxRetries
               /\ at'[v] = "write" => held[v] < MaxRetries
    <3>1. v \in Working /\ at'[v] = at[v] /\ on[v] \in Messages
      BY <1>5, <2>3 DEF AckRename, GoTo, OwnMessage
    <3>2. /\ at[v] \in {"send", "fail"} => retryCount[on[v]] < MaxRetries
          /\ at[v] = "write" => held[v] < MaxRetries
      BY <2>3, <3>1
    <3>3. retryCount'[on[v]] = retryCount[on[v]] \/ retryCount'[on[v]] < MaxRetries
      BY <2>1, <3>1, NoFileIsBelow
    <3> QED
      BY <3>1, <3>2, <3>3
  <2> QED
    BY <2>2, <2>3
<1>6. ASSUME NEW w \in Workers, AckUnlink(w) PROVE Budget'
  BY <1>6 DEF AckUnlink, GoTo, Through, OwnMessage
<1>7. ASSUME NEW w \in Workers, FailRead(w) PROVE Budget'
  BY <1>7 DEF FailRead, GoTo, Through, Exists, OwnMessage
<1>8. ASSUME NEW w \in Workers, FailWrite(w) PROVE Budget'
  <2>1. w \in Working /\ on[w] \in Messages
    BY <1>8 DEF FailWrite, OwnMessage
  <2>2. on[w] \notin shared =>
          /\ \A v \in Working : on[v] = on[w] => v = w
          /\ \A r \in Recoveries : pending[r][on[w]] = NoFile
    BY <2>1, OnlyWorker
  <2> QED
    BY <1>8, <2>1, <2>2 DEF FailWrite, GoTo, Through
<1>9. ASSUME NEW w \in Workers, Move(w) PROVE Budget'
  <2>1. \A x \in Messages : retryCount'[x] = retryCount[x] \/ retryCount'[x] = NoFile
    BY <1>9 DEF Move, Renamed
  <2>2. at'[w] \notin {"send", "fail", "write"} /\ UNCHANGED <<on, held, shared>>
    BY <1>9 DEF Move, GoTo, Through
  <2>3. ASSUME NEW v \in Working', v # w, on[v] \notin shared
        PROVE  /\ at'[v] \in {"send", "fail"} => retryCount'[on[v]] < MaxRetries
               /\ at'[v] = "write" => held[v] < MaxRetries
    <3>1. v \in Working /\ at'[v] = at[v] /\ on[v] \in Messages
      BY <1>9, <2>3 DEF Move, GoTo, OwnMessage
    <3>2. /\ at[v] \in {"send", "fail"} => retryCount[on[v]] < MaxRetries
          /\ at[v] = "write" => held[v] < MaxRetries
      BY <2>3, <3>1
    <3>3. retryCount'[on[v]] = retryCount[on[v]] \/ retryCount'[on[v]] < MaxRetries
      BY <2>1, <3>1, NoFileIsBelow
    <3> QED
      BY <3>1, <3>2, <3>3
  <2> QED
    BY <2>2, <2>3
<1>10. ASSUME NEW r \in Recoveries, Start(r) PROVE Budget'
  BY <1>10 DEF Start, GoTo, Listed, OwnMessage
<1>11. ASSUME NEW r \in Recoveries, NEW m \in Messages, ReadEntry(r, m) PROVE Budget'
  BY <1>11 DEF ReadEntry, OwnMessage
<1>12. ASSUME NEW r \in Recoveries, Loaded(r) PROVE Budget'
  BY <1>12 DEF Loaded, GoTo, OwnMessage
<1>13. ASSUME NEW r \in Recoveries, NEW m \in Messages, Exhaust(r, m) PROVE Budget'
  BY <1>13 DEF Exhaust, Take, GoTo, Drop, IsOldest, Left, OwnMessage
<1>14. ASSUME NEW r \in Recoveries, NEW m \in Messages, Defer(r, m) PROVE Budget'
  BY <1>14 DEF Defer, Drop, IsOldest, Left, OwnMessage
<1>15. ASSUME NEW r \in Recoveries, NEW m \in Messages, Replay(r, m) PROVE Budget'
  BY <1>15 DEF Replay, Take, GoTo, Drop, IsOldest, Left, Exhausted, OwnMessage, AsRead
<1>16. ASSUME NEW r \in Recoveries, Recovered(r) PROVE Budget'
  BY <1>16 DEF Recovered, GoTo, OwnMessage
<1>17. ASSUME Crash PROVE Budget'
  BY <1>17 DEF Crash, OwnMessage
<1>18. CASE UNCHANGED vars
  BY <1>18 DEF vars
<1> QED
  BY <1>1, <1>2, <1>3, <1>4, <1>5, <1>6, <1>7, <1>8, <1>9,
    <1>10, <1>11, <1>12, <1>13, <1>14, <1>15, <1>16, <1>17, <1>18
  DEF Next, WorkerStep, RecoveryStep

-----------------------------------------------------------------------------
(* The theorems *)

LEMMA InitIInv == Init => IInv
<1> SUFFICES ASSUME Init PROVE IInv
  OBVIOUS
<1> USE DeliveryAssumption DEF Init, Workers, Empty, Working, Holds, Exists, NoFile
<1>1. TypeOK
  BY DEF TypeOK
<1>2. NothingLost /\ RetriesBounded /\ OwnMessage /\ Justified /\ OnlyLoadingLists
  BY DEF NothingLost, RetriesBounded, OwnMessage, Justified, OnlyLoadingLists
<1>3. Fresh
  BY DEF Fresh
<1>4. Alone /\ TakenOut /\ AsRead /\ Settled /\ Budget
  BY DEF Alone, TakenOut, AsRead, Settled, Budget
<1> QED
  BY <1>1, <1>2, <1>3, <1>4 DEF IInv

LEMMA StepIInv == IInv /\ [Next]_vars => IInv'
  BY TypeOKStep, NothingLostStep, RetriesBoundedStep, OwnMessageStep, JustifiedStep, FreshStep,
    OnlyLoadingListsStep, AloneStep, TakenOutStep, AsReadStep, SettledStep, BudgetStep
  DEF IInv

\* The inductive invariant: who has a message in hand, what it knows of its file, and
\* what it may still write there.
THEOREM Invariance == Spec => []IInv
  BY InitIInv, StepIInv, PTL DEF Spec

\* Every variable keeps its shape.
THEOREM TypeCorrect == Spec => []TypeOK
  BY Invariance, PTL DEF IInv

\* A message whose entry was written is sent, aborted, or still in one of the two
\* directories, at every interleaving of sends, failures, recoveries and crashes
\* (delivery-queue.ts and deliver.ts:464-522).
THEOREM AcceptedMessagesAreKept == Spec => []NothingLost
  BY Invariance, PTL DEF IInv

\* What was acked or given up does not come back, unless two workers shared it.
THEOREM SettledMessagesStayOut == Spec => []SettledForGood
<1>1. IInv => SettledForGood
  BY DEF IInv, Settled, SettledForGood
<1> QED
  BY Invariance, <1>1, PTL

\* Nobody retries beyond MAX_RETRIES, with the same exception.
THEOREM RetriesAreBounded == Spec => []RetriesBounded
  BY Invariance, PTL DEF IInv

\* A scan that begins after the ack does not list the message.
THEOREM AckedMessagesAreNotReplayed == Spec => NoReplayAfterAck
<1>1. ASSUME IInv, [Next]_vars, NEW r \in Recoveries, NEW m \in Messages,
             m \in acked \ shared, at[r] = "idle"
      PROVE  m \notin names'[r]
  <2>1. ~Exists(m) /\ m \notin names[r]
    BY <1>1 DEF IInv, Settled, OnlyLoadingLists
  <2>2. CASE \E q \in Recoveries : Start(q)
    BY <1>1, <2>1, <2>2 DEF Start, Listed, IInv, TypeOK
  <2>3. CASE \E q \in Recoveries, n \in Messages : ReadEntry(q, n)
    BY <1>1, <2>1, <2>3 DEF ReadEntry, IInv, TypeOK
  <2>4. CASE Crash
    BY <2>4 DEF Crash
  <2>5. CASE UNCHANGED names
    BY <2>1, <2>5
  <2> QED
    BY <1>1, <2>2, <2>3, <2>4, <2>5
    DEF Next, WorkerStep, RecoveryStep, vars, recovery, Deliver, Abort, SendOk, SendFails,
      AckRename, AckUnlink, FailRead, FailWrite, Move, Loaded, Exhaust, Defer, Replay, Recovered
<1>2. IInv /\ [Next]_vars =>
        [\A r \in Recoveries, m \in Messages :
           m \in acked \ shared /\ at[r] = "idle" => m \notin names'[r]]_vars
  BY <1>1
<1> QED
  BY Invariance, <1>2, PTL DEF Spec, NoReplayAfterAck

-----------------------------------------------------------------------------
(* The follow-up queue. *)

QueueObjects ==
  [items : Seq(Deliveries), dropped : Seq(Deliveries), mode : {"collect", "followup"},
   cap : Nat \ {0}, drop : {"old", "new", "summarize"}, lastRun : BOOLEAN]

Drains ==
  {dr \in [at : {"idle", "debounce", "collect", "run"}, batch : Seq(Deliveries), take : Nat,
           told : BOOLEAN, forced : BOOLEAN] :
     dr.at # "run" => dr.batch = <<>> /\ dr.take = 0}

\* What a queue object and its drain have in hand.
Holding(q) ==
  Elements(queue[q].items) \cup Elements(queue[q].dropped) \cup Elements(drain[q].batch)

\* Only an accepted message is in hand, also of a queue that was cleared or replaced.
HeldIsAccepted == \A q \in Queues : \A d \in Holding(q) : fate[d] \in Accepted

\* An accepted message is remembered, whatever becomes of it, until its id is forgotten.
AcceptedIsRemembered ==
  \A d \in Deliveries \ forgotten : fate[d] \in Accepted => Key(d) \in recent

\* Once a callback is known, the session's queue has a drain when it has something to drain.
CurrentIsWatched == current # NoQueue /\ HasWork(queue[current]) /\ callback => Draining(current)

\* An object that is not in the map and holds something was taken off it by the end of
\* another object's drain: a clear empties the object, and a drain takes its own off empty.
OffTheMap == \A q \in Queues : q # current /\ HasWork(queue[q]) => q \in unmapped

FInv ==
  /\ FTypeOK /\ CurrentIsWatched /\ OffTheMap /\ AcceptedOnce
  /\ HeldIsAccepted /\ AcceptedIsRemembered

LEMMA TypesOfQueues ==
  FTypeOK <=>
    /\ current \in Queues \cup {NoQueue}
    /\ queue \in [Queues -> QueueObjects]
    /\ drain \in [Queues -> Drains]
    /\ callback \in BOOLEAN
    /\ recent \subseteq {Key(d) : d \in Deliveries}
    /\ fate \in [Deliveries -> Fates]
    /\ failures \in 0..MaxFailures
    /\ clears \in 0..MaxClears
    /\ forgotten \subseteq Deliveries
    /\ unmapped \subseteq Queues
  BY DEF FTypeOK, QueueObjects, Drains

LEMMA TypesAfter ==
  ASSUME current' \in Queues \cup {NoQueue},
         queue' \in [Queues -> QueueObjects],
         drain' \in [Queues -> Drains],
         callback' \in BOOLEAN,
         recent' \subseteq {Key(d) : d \in Deliveries},
         fate' \in [Deliveries -> Fates],
         failures' \in 0..MaxFailures,
         clears' \in 0..MaxClears,
         forgotten' \subseteq Deliveries,
         unmapped' \subseteq Queues
  PROVE  FTypeOK'
  BY DEF FTypeOK, QueueObjects, Drains, Key

LEMMA Part ==
  ASSUME NEW s \in Seq(Deliveries), NEW m \in Nat \ {0}, NEW n \in 0..Len(s)
  PROVE  /\ SubSeq(s, m, n) \in Seq(Deliveries)
         /\ Len(SubSeq(s, m, n)) = IF m <= n THEN n - m + 1 ELSE 0
         /\ Elements(SubSeq(s, m, n)) \subseteq Elements(s)
<1>1. CASE m <= n
  <2> DEFINE t == SubSeq(s, m, n)
  <2>1. t \in Seq(Deliveries) /\ Len(t) = n - m + 1 /\ \A i \in 1..(n - m + 1) : t[i] = s[m + i - 1]
    BY <1>1, SubSeqProperties
  <2>2. ASSUME NEW i \in DOMAIN t PROVE t[i] \in Elements(s)
    <3>1. i \in 1..(n - m + 1)
      BY <2>1
    <3>2. m + i - 1 \in DOMAIN s
      BY <3>1
    <3> QED
      BY <2>1, <3>1, <3>2 DEF Elements
  <2> QED
    BY <1>1, <2>1, <2>2 DEF Elements
<1>2. CASE ~(m <= n)
  <2>1. SubSeq(s, m, n) = <<>>
    BY <1>2, SubSeqEmpty
  <2> QED
    BY <1>2, <2>1 DEF Elements
<1> QED
  BY <1>1, <1>2


LEMMA FrontPart ==
  ASSUME NEW s \in Seq(Deliveries), NEW k \in Nat \ {0}, k <= Len(s) + 1
  PROVE  Elements(SubSeq(s, 1, Len(s) - k + 1)) \subseteq Elements(s)
<1>1. Len(s) - k + 1 \in 0..Len(s) /\ 1 \in Nat \ {0}
  OBVIOUS
<1> QED
  BY <1>1, Part

LEMMA Joined ==
  ASSUME NEW s \in Seq(Deliveries), NEW t \in Seq(Deliveries)
  PROVE  /\ s \o t \in Seq(Deliveries)
         /\ Elements(s \o t) \subseteq Elements(s) \cup Elements(t)
<1>1. /\ s \o t \in Seq(Deliveries) /\ Len(s \o t) = Len(s) + Len(t)
      /\ \A i \in 1..(Len(s) + Len(t)) : (s \o t)[i] = IF i <= Len(s) THEN s[i] ELSE t[i - Len(s)]
  BY ConcatProperties
<1>2. ASSUME NEW i \in DOMAIN (s \o t) PROVE (s \o t)[i] \in Elements(s) \cup Elements(t)
  <2>1. i \in 1..(Len(s) + Len(t))
    BY <1>1
  <2>2. CASE i <= Len(s)
    BY <1>1, <2>1, <2>2 DEF Elements
  <2>3. CASE i > Len(s)
    <3>1. i - Len(s) \in DOMAIN t
      BY <2>1, <2>3
    <3> QED
      BY <1>1, <2>1, <2>3, <3>1 DEF Elements
  <2> QED
    BY <2>1, <2>2, <2>3
<1> QED
  BY <1>1, <1>2 DEF Elements

LEMMA OneMore ==
  ASSUME NEW s \in Seq(Deliveries), NEW d \in Deliveries
  PROVE  /\ Append(s, d) \in Seq(Deliveries)
         /\ Len(Append(s, d)) = Len(s) + 1
         /\ Elements(Append(s, d)) \subseteq Elements(s) \cup {d}
<1>1. /\ Append(s, d) \in Seq(Deliveries) /\ Len(Append(s, d)) = Len(s) + 1
      /\ \A i \in 1..Len(s) : Append(s, d)[i] = s[i]
      /\ Append(s, d)[Len(s) + 1] = d
  BY AppendProperties
<1>2. ASSUME NEW i \in DOMAIN Append(s, d) PROVE Append(s, d)[i] \in Elements(s) \cup {d}
  <2>1. i \in 1..Len(s) \/ i = Len(s) + 1
    BY <1>1
  <2> QED
    BY <1>1, <2>1 DEF Elements
<1> QED
  BY <1>1, <1>2 DEF Elements

LEMMA OnlyElement ==
  ASSUME NEW d \in Deliveries
  PROVE  <<d>> \in Seq(Deliveries) /\ Elements(<<d>>) = {d}
  BY DEF Elements

LEMMA NoElements == <<>> \in Seq(Deliveries) /\ Elements(<<>>) = {}
  BY DEF Elements

LEMMA AfterPrefix ==
  ASSUME NEW s \in Seq(Deliveries), NEW n \in Nat
  PROVE  /\ DropPrefix(s, n) \in Seq(Deliveries)
         /\ Len(DropPrefix(s, n)) = IF n < Len(s) THEN Len(s) - n ELSE 0
         /\ Elements(DropPrefix(s, n)) \subseteq Elements(s)
         /\ n = 0 => DropPrefix(s, n) = s
<1>1. n + 1 \in Nat \ {0} /\ Len(s) \in 0..Len(s)
  OBVIOUS
<1>2. n = 0 => DropPrefix(s, n) = s
  BY SubSeqFull DEF DropPrefix
<1>3. /\ SubSeq(s, n + 1, Len(s)) \in Seq(Deliveries)
      /\ Len(SubSeq(s, n + 1, Len(s))) = IF n + 1 <= Len(s) THEN Len(s) - (n + 1) + 1 ELSE 0
      /\ Elements(SubSeq(s, n + 1, Len(s))) \subseteq Elements(s)
  BY <1>1, Part
<1> QED
  BY <1>2, <1>3 DEF DropPrefix

\* What is left of a sequence that holds each message once holds each once.
LEMMA PrefixOnce ==
  ASSUME NEW s \in Seq(Deliveries), NEW n \in Nat, EachOnce(s)
  PROVE  EachOnce(DropPrefix(s, n))
<1> DEFINE t == SubSeq(s, n + 1, Len(s))
<1>1. CASE n + 1 <= Len(s)
  <2>1. /\ t \in Seq(Deliveries) /\ Len(t) = Len(s) - n
        /\ \A i \in 1..(Len(s) - n) : t[i] = s[n + i]
    <3>1. /\ t \in Seq(Deliveries) /\ Len(t) = Len(s) - (n + 1) + 1
          /\ \A i \in 1..(Len(s) - (n + 1) + 1) : t[i] = s[n + 1 + i - 1]
      BY <1>1, SubSeqProperties
    <3>2. \A i \in Int : n + 1 + i - 1 = n + i
      OBVIOUS
    <3> QED
      BY <3>1, <3>2
  <2> HIDE DEF t
  <2>2. ASSUME NEW i \in DOMAIN t, NEW j \in DOMAIN t, i # j PROVE Key(t[i]) # Key(t[j])
    <3>1. i \in 1..(Len(s) - n) /\ j \in 1..(Len(s) - n)
      BY <2>1
    <3>2. n + i \in DOMAIN s /\ n + j \in DOMAIN s /\ n + i # n + j
      BY <2>2, <3>1
    <3>3. Key(s[n + i]) # Key(s[n + j])
      BY <3>2 DEF EachOnce
    <3> QED
      BY <2>1, <3>1, <3>3
  <2> QED
    BY <2>2 DEF EachOnce, DropPrefix, t
<1>2. CASE ~(n + 1 <= Len(s))
  <2>1. t = <<>>
    BY <1>2, SubSeqEmpty
  <2> QED
    BY <2>1 DEF EachOnce, DropPrefix
<1> QED
  BY <1>1, <1>2

\* A message that is not in a sequence may be appended to it.
LEMMA OneMoreOnce ==
  ASSUME NEW s \in Seq(Deliveries), NEW d \in Deliveries, EachOnce(s),
         \A e \in Elements(s) : Key(e) # Key(d)
  PROVE  EachOnce(Append(s, d))
<1> DEFINE t == Append(s, d)
<1>1. /\ t \in Seq(Deliveries) /\ Len(t) = Len(s) + 1
      /\ \A i \in 1..Len(s) : t[i] = s[i]
      /\ t[Len(s) + 1] = d
  BY AppendProperties
<1> HIDE DEF t
<1>2. \A i \in DOMAIN t : i \in DOMAIN s \/ i = Len(s) + 1
  BY <1>1
<1>3. \A i \in DOMAIN s : t[i] = s[i] /\ s[i] \in Elements(s)
  BY <1>1 DEF Elements
<1>4. ASSUME NEW i \in DOMAIN t, NEW j \in DOMAIN t, i # j PROVE Key(t[i]) # Key(t[j])
  <2>1. CASE i \in DOMAIN s /\ j \in DOMAIN s
    BY <1>3, <1>4, <2>1 DEF EachOnce
  <2>2. CASE i = Len(s) + 1 /\ j \in DOMAIN s
    BY <1>1, <1>3, <2>2
  <2>3. CASE i \in DOMAIN s /\ j = Len(s) + 1
    BY <1>1, <1>3, <2>3
  <2> QED
    BY <1>2, <1>4, <2>1, <2>2, <2>3
<1> QED
  BY <1>4 DEF EachOnce, t

LEMMA NoneOnce == EachOnce(<<>>)
  BY DEF EachOnce

LEMMA FreshIsObject ==
  /\ FreshQueue \in QueueObjects /\ EachOnce(FreshQueue.items)
  /\ Elements(FreshQueue.items) = {} /\ Elements(FreshQueue.dropped) = {}
  BY FollowupAssumption, NoElements, NoneOnce DEF FreshQueue, QueueObjects

LEMMA SettingsApplied ==
  ASSUME NEW s \in QueueObjects, NEW settings \in Settings
  PROVE  /\ WithSettings(s, settings) \in QueueObjects
         /\ WithSettings(s, settings).items = s.items
         /\ WithSettings(s, settings).dropped = s.dropped
<1>1. /\ settings.mode \in {"collect", "followup"} /\ settings.cap \in Nat
      /\ settings.drop \in {"old", "new", "summarize"}
  BY FollowupAssumption
<1>2. CapOf(s, settings) \in Nat \ {0}
  BY <1>1 DEF CapOf, QueueObjects
<1> QED
  BY <1>1, <1>2 DEF WithSettings, QueueObjects

\* applyQueueDropPolicy makes room for one message, however far the cap has shrunk
\* under what waits, and what it takes off is at most told about.
LEMMA RoomIsMade ==
  ASSUME NEW s \in QueueObjects, NEW d \in Deliveries
  PROVE  /\ Accept(s, d) \in QueueObjects
         /\ Len(Accept(s, d).items) \in 1..s.cap
         /\ Len(Accept(s, d).items) <= Len(s.items) + 1
         /\ Accept(s, d).cap = s.cap
         /\ Elements(Accept(s, d).items) \subseteq Elements(s.items) \cup {d}
         /\ Elements(Accept(s, d).dropped) \subseteq Elements(s.items) \cup Elements(s.dropped)
         /\ EachOnce(s.items) /\ (\A e \in Elements(s.items) : Key(e) # Key(d))
              => EachOnce(Accept(s, d).items)
<1> DEFINE n == IF Full(s) THEN DropCount(s) ELSE 0
           left == DropPrefix(s.items, n)
           told == IF s.drop = "summarize" THEN SubSeq(s.items, 1, n) ELSE <<>>
<1>1. s.items \in Seq(Deliveries) /\ s.dropped \in Seq(Deliveries) /\ s.cap \in Nat \ {0}
  BY DEF QueueObjects
<1>2. n \in 0..Len(s.items) /\ Len(s.items) - n + 1 <= s.cap
  BY <1>1 DEF Full, DropCount
<1>3. /\ left \in Seq(Deliveries) /\ Len(left) = Len(s.items) - n
      /\ Elements(left) \subseteq Elements(s.items)
      /\ EachOnce(s.items) => EachOnce(left)
  <2> HIDE DEF n
  <2>1. n \in Nat /\ Len(s.items) \in Nat /\ n <= Len(s.items)
    BY <1>1, <1>2
  <2>2. /\ left \in Seq(Deliveries) /\ Elements(left) \subseteq Elements(s.items)
        /\ Len(left) = IF n < Len(s.items) THEN Len(s.items) - n ELSE 0
    BY <1>1, <2>1, AfterPrefix
  <2>3. EachOnce(s.items) => EachOnce(left)
    BY <1>1, <2>1, PrefixOnce
  <2> QED
    BY <2>1, <2>2, <2>3
<1>4. told \in Seq(Deliveries) /\ Elements(told) \subseteq Elements(s.items)
  <2>1. SubSeq(s.items, 1, n) \in Seq(Deliveries) /\ Elements(SubSeq(s.items, 1, n)) \subseteq Elements(s.items)
    BY <1>1, <1>2, Part
  <2> QED
    BY <2>1, NoElements
<1>5. /\ Append(left, d) \in Seq(Deliveries)
      /\ Len(Append(left, d)) = Len(left) + 1
      /\ Elements(Append(left, d)) \subseteq Elements(left) \cup {d}
      /\ EachOnce(left) /\ (\A e \in Elements(left) : Key(e) # Key(d)) => EachOnce(Append(left, d))
  BY <1>3, OneMore, OneMoreOnce
<1>6. s.dropped \o told \in Seq(Deliveries)
      /\ Elements(s.dropped \o told) \subseteq Elements(s.dropped) \cup Elements(told)
  BY <1>1, <1>4, Joined
<1>7. Accept(s, d) = [s EXCEPT !.items = Append(left, d), !.dropped = s.dropped \o told,
                               !.lastRun = TRUE]
  BY DEF Accept
<1> HIDE DEF n, left, told
<1>8. /\ Accept(s, d) \in QueueObjects
      /\ Accept(s, d).items = Append(left, d) /\ Accept(s, d).dropped = s.dropped \o told
      /\ Accept(s, d).cap = s.cap
  BY <1>5, <1>6, <1>7 DEF QueueObjects
<1> QED
  BY <1>1, <1>2, <1>3, <1>4, <1>5, <1>6, <1>8

\* A run takes from the front of the queue.
LEMMA FrontIsTaken ==
  ASSUME NEW s \in QueueObjects, NEW dr \in Drains
  PROVE  /\ AfterRun(s, dr) \in QueueObjects
         /\ EachOnce(s.items) => EachOnce(AfterRun(s, dr).items)
         /\ HasWork(AfterRun(s, dr)) => HasWork(s)
         /\ Elements(AfterRun(s, dr).items) \subseteq Elements(s.items)
         /\ Elements(AfterRun(s, dr).dropped) \subseteq Elements(s.dropped)
<1>1. s.items \in Seq(Deliveries) /\ s.dropped \in Seq(Deliveries) /\ dr.take \in Nat
  BY DEF QueueObjects, Drains
<1> DEFINE left == DropPrefix(s.items, dr.take)
<1>2. /\ left \in Seq(Deliveries) /\ Elements(left) \subseteq Elements(s.items)
      /\ Len(left) = IF dr.take < Len(s.items) THEN Len(s.items) - dr.take ELSE 0
      /\ dr.take = 0 => left = s.items
  BY <1>1, AfterPrefix
<1>3. AfterRun(s, dr) = [s EXCEPT !.items = left, !.dropped = IF dr.told THEN <<>> ELSE s.dropped]
  BY DEF AfterRun
<1> HIDE DEF left
<1>4. AfterRun(s, dr) \in QueueObjects /\ AfterRun(s, dr).items = left
      /\ AfterRun(s, dr).dropped \in {s.dropped, <<>>}
  BY <1>1, <1>2, <1>3, NoElements DEF QueueObjects
<1>5. EachOnce(s.items) => EachOnce(left)
  BY <1>1, PrefixOnce DEF left
<1>6. HasWork(AfterRun(s, dr)) => HasWork(s)
  <2>1. s.items = <<>> => left = <<>>
    BY <1>1, <1>2, EmptySeq
  <2> QED
    BY <1>4, <2>1 DEF HasWork
<1> QED
  BY <1>2, <1>4, <1>5, <1>6, NoElements

\* A drain begins when nobody drains a queue in the map that has something to drain.
\* qs and dr are the queues and the drains at the call.
LEMMA ScheduleWatches ==
  ASSUME NEW qs \in [Queues -> QueueObjects], NEW dr \in [Queues -> Drains],
         current \in Queues \cup {NoQueue}, callback \in BOOLEAN,
         Schedule(current, qs, dr)
  PROVE  /\ drain' \in [Queues -> Drains] /\ callback' \in BOOLEAN
         /\ current' \in {current, NoQueue}
         /\ \A q \in Queues : drain'[q].batch \in {dr[q].batch, <<>>}
         /\ current' # NoQueue /\ HasWork(qs[current']) => drain'[current'].at # "idle"
         /\ current' # current => ~HasWork(qs[current])
<1>1. Debounce(FALSE) \in Drains /\ Debounce(FALSE).at = "debounce" /\ Debounce(FALSE).batch = <<>>
  BY NoElements DEF Debounce, Idle, Drains
<1>2. CASE Begins(current, dr) /\ HasWork(qs[current])
  <2>1. current \in Queues /\ current' = current /\ callback'
        /\ drain' = [dr EXCEPT ![current] = Debounce(FALSE)]
    BY <1>2 DEF Schedule, Begins
  <2> QED
    BY <1>1, <2>1
<1>3. CASE Begins(current, dr) /\ ~HasWork(qs[current])
  BY <1>3 DEF Schedule
<1>4. CASE ~Begins(current, dr)
  BY <1>4 DEF Schedule, Begins
<1> QED
  BY <1>2, <1>3, <1>4

LEMMA FinallyWatches ==
  ASSUME NEW q \in Queues, NEW qs \in [Queues -> QueueObjects],
         drain \in [Queues -> Drains],
         current \in Queues \cup {NoQueue}, callback \in BOOLEAN,
         Finally(q, qs)
  PROVE  /\ drain' \in [Queues -> Drains] /\ callback' \in BOOLEAN
         /\ current' \in {current, NoQueue}
         /\ \A p \in Queues : drain'[p].batch \in {drain[p].batch, <<>>}
         /\ current' # NoQueue /\ HasWork(qs[current']) => drain'[current'].at # "idle"
         /\ current' # current /\ HasWork(qs[current]) => current = NoQueue \/ current \in unmapped'
         /\ unmapped \subseteq unmapped' /\ unmapped' \subseteq unmapped \cup (Queues \cap {current})
<1> DEFINE dr == [drain EXCEPT ![q] = Idle]
<1>1. dr \in [Queues -> Drains] /\ \A p \in Queues : dr[p].batch \in {drain[p].batch, <<>>}
  BY NoElements DEF Idle, Drains
<1>2. CASE HasWork(qs[q])
  <2>1. Schedule(current, qs, dr)
    BY <1>2 DEF Finally
  <2> HIDE DEF dr
  <2>2. /\ drain' \in [Queues -> Drains] /\ callback' \in BOOLEAN
        /\ current' \in {current, NoQueue}
        /\ \A p \in Queues : drain'[p].batch \in {dr[p].batch, <<>>}
        /\ current' # NoQueue /\ HasWork(qs[current']) => drain'[current'].at # "idle"
        /\ current' # current => ~HasWork(qs[current])
    BY <1>1, <2>1, ScheduleWatches
  <2>3. unmapped' = unmapped
    BY <1>2 DEF Finally
  <2> QED
    BY <1>1, <2>2, <2>3
<1>3. CASE ~HasWork(qs[q])
  BY <1>1, <1>3 DEF Finally, TakenOffMap
<1> QED
  BY <1>2, <1>3

-----------------------------------------------------------------------------

\* What all steps but the acceptance of a message have in common: nobody gets hold of
\* a message he did not have, and no fate becomes or ceases to be that of an accepted one.
Quiet ==
  /\ forgotten \subseteq forgotten'
  /\ \A d \in Deliveries \ forgotten' :
       fate[d] \in Accepted /\ Key(d) \in recent => Key(d) \in recent'
  /\ \A q \in Queues : EachOnce(queue[q].items) => EachOnce(queue'[q].items)
  /\ \A q \in Queues : Holding(q)' \subseteq Holding(q)
  /\ \A d \in Deliveries : fate'[d] \in Accepted <=> fate[d] \in Accepted

LEMMA QuietStep ==
  ASSUME FInv, Quiet PROVE (AcceptedOnce /\ HeldIsAccepted /\ AcceptedIsRemembered)'
<1>1. AcceptedOnce'
  <2>1. \A d, e \in Deliveries \ forgotten' :
          d # e /\ fate'[d] \in Accepted /\ fate'[e] \in Accepted => Key(d) # Key(e)
    BY DEF FInv, Quiet, AcceptedOnce
  <2>2. \A q \in Queues : EachOnce(queue'[q].items)
    BY DEF FInv, Quiet, AcceptedOnce
  <2> QED
    BY <2>1, <2>2 DEF AcceptedOnce, EachOnce, Key
<1>2. HeldIsAccepted'
  <2> SUFFICES ASSUME NEW q \in Queues, NEW d \in Holding(q)' PROVE fate'[d] \in Accepted
    BY DEF HeldIsAccepted
  <2>1. d \in Holding(q)
    BY DEF Quiet
  <2>2. d \in Deliveries
    <3>1. queue[q] \in QueueObjects /\ drain[q] \in Drains
      BY TypesOfQueues DEF FInv
    <3> QED
      BY <2>1, <3>1 DEF Holding, Elements, QueueObjects, Drains
  <2> QED
    BY <2>1, <2>2 DEF FInv, HeldIsAccepted, Quiet
<1>3. AcceptedIsRemembered'
  BY DEF FInv, Quiet, AcceptedIsRemembered, Key
<1> QED
  BY <1>1, <1>2, <1>3

LEMMA InHand ==
  ASSUME FTypeOK, NEW q \in Queues
  PROVE  /\ queue[q] \in QueueObjects /\ drain[q] \in Drains
         /\ Elements(queue[q].items) \subseteq Deliveries
         /\ Elements(queue[q].dropped) \subseteq Deliveries
         /\ Elements(drain[q].batch) \subseteq Deliveries
<1>1. queue[q] \in QueueObjects /\ drain[q] \in Drains
  BY TypesOfQueues
<1> QED
  BY <1>1 DEF Elements, QueueObjects, Drains

LEMMA FInitFInv == FInit => FInv
<1> SUFFICES ASSUME FInit PROVE FInv
  OBVIOUS
<1>1. FTypeOK
  <2>1. queue \in [Queues -> QueueObjects]
    BY FreshIsObject DEF FInit
  <2>2. drain \in [Queues -> Drains]
    BY NoElements DEF FInit, Idle, Drains
  <2> QED
    <3>1. failures \in 0..MaxFailures /\ clears \in 0..MaxClears
      BY FollowupAssumption DEF FInit
    <3>2. fate \in [Deliveries -> Fates] /\ recent \subseteq {Key(d) : d \in Deliveries}
      BY DEF FInit, Fates
    <3>3. current \in Queues \cup {NoQueue} /\ callback \in BOOLEAN
      BY DEF FInit
    <3>4. forgotten \subseteq Deliveries /\ unmapped \subseteq Queues
      BY DEF FInit
    <3> QED
      BY <2>1, <2>2, <3>1, <3>2, <3>3, <3>4, TypesOfQueues
<1>2. CurrentIsWatched /\ AcceptedIsRemembered
  BY DEF FInit, CurrentIsWatched, AcceptedIsRemembered, Accepted
<1>3. AcceptedOnce
  BY FreshIsObject DEF FInit, AcceptedOnce, Accepted
<1>4. HeldIsAccepted /\ OffTheMap
  <2>1. \A q \in Queues : Holding(q) = {} /\ ~HasWork(queue[q])
    BY FreshIsObject, NoElements DEF FInit, Holding, Idle, HasWork, FreshQueue
  <2> QED
    BY <2>1 DEF HeldIsAccepted, OffTheMap
<1> QED
  BY <1>1, <1>2, <1>3, <1>4 DEF FInv


-----------------------------------------------------------------------------
(* One lemma for each action. *)

\* The queue that accepts a message is within its cap.
CapKept ==
  \A q \in Queues, d \in Deliveries :
    /\ fate[d] = "late" /\ fate'[d] = "queued"
    /\ d \in Elements(queue'[q].items)
    => Len(queue'[q].items) <= queue'[q].cap

LEMMA NothingAccepted ==
  ASSUME \A d \in Deliveries : fate'[d] = "queued" => fate[d] # "late" PROVE CapKept
  BY DEF CapKept

\* Objects that hold something leave the map only on the way the history records.
LEMMA MapKept ==
  ASSUME OffTheMap, unmapped \subseteq unmapped',
         \A q \in Queues : HasWork(queue'[q]) => HasWork(queue[q]),
         current' # current /\ current # NoQueue =>
           ~HasWork(queue'[current]) \/ current \in unmapped',
         NoQueue \notin Queues
  PROVE  OffTheMap'
  BY DEF OffTheMap, HasWork

LEMMA FInvStep ==
  ASSUME FInv, FTypeOK', CurrentIsWatched', OffTheMap', Quiet PROVE FInv'
  BY QuietStep DEF FInv

LEMMA UnchangedStep == ASSUME FInv, UNCHANGED fvars PROVE FInv' /\ CapKept
<1> USE DEF fvars
<1>1. FTypeOK'
  BY TypesOfQueues DEF FInv, FTypeOK, Key
<1>2. CurrentIsWatched' /\ OffTheMap'
  BY DEF FInv, CurrentIsWatched, OffTheMap, Draining, HasWork
<1>3. Quiet
  BY DEF Quiet, Holding, Elements
<1>4. CapKept
  BY NothingAccepted
<1> QED
  BY <1>1, <1>2, <1>3, <1>4, FInvStep

\* A forgotten id makes room for another delivery; what waits stays as it is.
LEMMA ForgetStep == ASSUME FInv, NEW k, Forget(k) PROVE FInv' /\ CapKept
<1> USE DEF Forget
<1>1. /\ recent' = recent \ {k}
      /\ forgotten' = forgotten \cup {d \in Deliveries : Key(d) = k /\ fate[d] \in Accepted}
  BY DEF Expired
<1>2. FTypeOK'
  <2>1. recent' \subseteq {Key(d) : d \in Deliveries} /\ forgotten' \subseteq Deliveries
    BY <1>1, TypesOfQueues DEF FInv
  <2> QED
    BY <2>1, TypesOfQueues, TypesAfter DEF FInv
<1>3. CurrentIsWatched' /\ OffTheMap'
  BY DEF FInv, CurrentIsWatched, OffTheMap, Draining, HasWork
<1>4. Quiet
  BY <1>1 DEF Quiet, Holding, Elements
<1>5. CapKept
  BY NothingAccepted
<1> QED
  BY <1>2, <1>3, <1>4, <1>5, FInvStep

LEMMA ArriveStep == ASSUME FInv, NEW d \in Deliveries, Arrive(d) PROVE FInv' /\ CapKept
<1> USE DEF Arrive
<1>1. fate' \in [Deliveries -> Fates] /\ \A e \in Deliveries : fate'[e] \in Accepted <=> fate[e] \in Accepted
  BY DEF FInv, FTypeOK, Fates, Accepted
<1>2. FTypeOK'
  BY <1>1 DEF FInv, FTypeOK, Key
<1>3. CurrentIsWatched' /\ OffTheMap'
  BY DEF FInv, CurrentIsWatched, OffTheMap, Draining, HasWork
<1>4. Quiet
  BY <1>1 DEF Quiet, Holding, Elements
<1>5. CapKept
  <2>1. fate' = [fate EXCEPT ![d] = IF Active THEN "late" ELSE "turn"]
        /\ fate \in [Deliveries -> Fates]
    BY DEF FInv, FTypeOK
  <2> QED
    BY <2>1, NothingAccepted
<1> QED
  BY <1>2, <1>3, <1>4, <1>5, FInvStep

LEMMA TurnEndsStep == ASSUME FInv, NEW d \in Deliveries, TurnEnds(d) PROVE FInv' /\ CapKept
<1>1. UNCHANGED <<queue, recent, failures, clears, forgotten, unmapped>>
  BY DEF TurnEnds
<1>2. fate' \in [Deliveries -> Fates] /\ \A e \in Deliveries : fate'[e] \in Accepted <=> fate[e] \in Accepted
  BY DEF TurnEnds, FInv, FTypeOK, Fates, Accepted
<1>3. /\ drain' \in [Queues -> Drains] /\ callback' \in BOOLEAN
      /\ current' \in {current, NoQueue}
      /\ \A q \in Queues : drain'[q].batch \in {drain[q].batch, <<>>}
      /\ current' # NoQueue /\ HasWork(queue[current']) => drain'[current'].at # "idle"
      /\ current' # current => ~HasWork(queue[current])
  BY TypesOfQueues, ScheduleWatches DEF FInv, TurnEnds
<1>4. FTypeOK'
  <2>1. current' \in Queues \cup {NoQueue}
    BY <1>3, TypesOfQueues DEF FInv
  <2> QED
    BY <1>1, <1>2, <1>3, <2>1, TypesOfQueues, TypesAfter DEF FInv
<1>5. CurrentIsWatched'
  BY <1>1, <1>3 DEF CurrentIsWatched, Draining, HasWork
<1>6. OffTheMap'
  BY <1>1, <1>3, MapKept, FollowupAssumption DEF FInv
<1>7. Quiet
  BY <1>1, <1>2, <1>3, NoElements DEF Quiet, Holding
<1>8. CapKept
  <2>1. fate' = [fate EXCEPT ![d] = "done"] /\ fate \in [Deliveries -> Fates]
    BY TypesOfQueues DEF FInv, TurnEnds
  <2> QED
    BY <2>1, NothingAccepted
<1> QED
  BY <1>4, <1>5, <1>6, <1>7, <1>8, FInvStep

\* A drain ends, and what its queue still has is watched again.
LEMMA FinallyStep ==
  ASSUME FInv, NEW q \in Queues, Finally(q, queue'), queue' \in [Queues -> QueueObjects],
         \A p \in Queues : HasWork(queue'[p]) => HasWork(queue[p])
  PROVE  /\ current' \in Queues \cup {NoQueue} /\ drain' \in [Queues -> Drains] /\ callback' \in BOOLEAN
         /\ unmapped' \subseteq Queues
         /\ \A p \in Queues : Elements(drain'[p].batch) \subseteq Elements(drain[p].batch)
         /\ CurrentIsWatched' /\ OffTheMap'
<1>1. current \in Queues \cup {NoQueue} /\ drain \in [Queues -> Drains] /\ callback \in BOOLEAN
  BY TypesOfQueues DEF FInv
<1> DEFINE qs == queue'
<1>2. /\ drain' \in [Queues -> Drains] /\ callback' \in BOOLEAN
      /\ current' \in {current, NoQueue}
      /\ \A p \in Queues : drain'[p].batch \in {drain[p].batch, <<>>}
      /\ current' # NoQueue /\ HasWork(queue'[current']) => drain'[current'].at # "idle"
      /\ current' # current /\ HasWork(queue'[current]) => current = NoQueue \/ current \in unmapped'
      /\ unmapped \subseteq unmapped' /\ unmapped' \subseteq unmapped \cup (Queues \cap {current})
  <2> HIDE DEF qs
  <2>1. qs \in [Queues -> QueueObjects] /\ Finally(q, qs)
    BY DEF qs
  <2>2. /\ drain' \in [Queues -> Drains] /\ callback' \in BOOLEAN
        /\ current' \in {current, NoQueue}
        /\ \A p \in Queues : drain'[p].batch \in {drain[p].batch, <<>>}
        /\ current' # NoQueue /\ HasWork(qs[current']) => drain'[current'].at # "idle"
        /\ current' # current /\ HasWork(qs[current]) => current = NoQueue \/ current \in unmapped'
        /\ unmapped \subseteq unmapped' /\ unmapped' \subseteq unmapped \cup (Queues \cap {current})
    BY <1>1, <2>1, FinallyWatches
  <2> QED
    BY <2>2 DEF qs
<1>3. CurrentIsWatched'
  BY <1>2 DEF CurrentIsWatched, Draining, HasWork
<1>4. OffTheMap'
  BY <1>2, MapKept, FollowupAssumption DEF FInv
<1>5. unmapped' \subseteq Queues
  BY <1>2, TypesOfQueues DEF FInv
<1> QED
  BY <1>1, <1>2, <1>3, <1>4, <1>5, NoElements


\* A drain goes on, with work of its own queue.
LEMMA GoesOn ==
  ASSUME FInv, NEW q \in Queues, NEW dr \in Drains, Draining(q), dr.at # "idle",
         Elements(dr.batch) \subseteq Elements(queue[q].items),
         drain' = [drain EXCEPT ![q] = dr],
         UNCHANGED <<current, queue, callback, recent, fate, failures, clears, forgotten, unmapped>>
  PROVE  FInv' /\ CapKept
<1>1. drain \in [Queues -> Drains]
  BY TypesOfQueues DEF FInv
<1>2. FTypeOK'
  <2>1. drain' \in [Queues -> Drains]
    BY <1>1
  <2> QED
    BY <2>1, TypesOfQueues, TypesAfter DEF FInv
<1>3. CurrentIsWatched' /\ OffTheMap'
  BY <1>1 DEF FInv, CurrentIsWatched, OffTheMap, Draining, HasWork
<1>4. Quiet
  BY <1>1 DEF Quiet, Holding
<1>5. CapKept
  BY NothingAccepted
<1> QED
  BY <1>2, <1>3, <1>4, <1>5, FInvStep

LEMMA EndsIdle ==
  ASSUME FInv, NEW q \in Queues, Finally(q, queue),
         UNCHANGED <<queue, recent, fate, clears, forgotten>>, failures' \in 0..MaxFailures
  PROVE  FInv' /\ CapKept
<1>1. queue' \in [Queues -> QueueObjects] /\ Finally(q, queue')
  BY TypesOfQueues DEF FInv, Finally, Schedule
<1>2. /\ current' \in Queues \cup {NoQueue} /\ drain' \in [Queues -> Drains] /\ callback' \in BOOLEAN
      /\ unmapped' \subseteq Queues
      /\ \A p \in Queues : Elements(drain'[p].batch) \subseteq Elements(drain[p].batch)
      /\ CurrentIsWatched' /\ OffTheMap'
  BY <1>1, FinallyStep
<1>3. FTypeOK'
  BY <1>1, <1>2, TypesOfQueues, TypesAfter DEF FInv
<1>4. Quiet
  BY <1>2 DEF Quiet, Holding
<1>5. CapKept
  BY NothingAccepted
<1> QED
  BY <1>2, <1>3, <1>4, <1>5, FInvStep

LEMMA NextItem ==
  ASSUME FTypeOK, NEW q \in Queues, NEW forced \in BOOLEAN, queue[q].items # <<>>
  PROVE  /\ RunNext(q, forced) \in Drains /\ RunNext(q, forced).at = "run"
         /\ Elements(RunNext(q, forced).batch) \subseteq Elements(queue[q].items)
<1> DEFINE s == queue[q].items
<1>1. s \in Seq(Deliveries)
  BY InHand DEF QueueObjects
<1>2. Head(s) = s[1] /\ 1 \in DOMAIN s /\ s[1] \in Deliveries
  BY <1>1, EmptySeq
<1>3. <<Head(s)>> \in Seq(Deliveries) /\ Elements(<<Head(s)>>) = {Head(s)}
  BY <1>2, OnlyElement
<1>4. Head(s) \in Elements(s)
  BY <1>2 DEF Elements
<1> HIDE DEF s
<1>5. RunNext(q, forced) = Run(<<Head(s)>>, 1, FALSE, forced)
  BY DEF RunNext, s
<1>6. Run(<<Head(s)>>, 1, FALSE, forced) \in Drains
  BY <1>3 DEF Run, Drains
<1> QED
  BY <1>3, <1>4, <1>5, <1>6 DEF Run, s

LEMMA RoundStep == ASSUME FInv, NEW q \in Queues, Round(q) PROVE FInv' /\ CapKept
<1> DEFINE s == queue[q]
           forced == drain[q].forced \/ CrossChannel(s.items)
<1>1. /\ UNCHANGED <<queue, recent, fate, failures, clears, forgotten>>
      /\ Draining(q) /\ drain[q].at = "debounce"
  BY DEF Round, Draining
<1>2. s \in QueueObjects /\ drain[q] \in Drains /\ forced \in BOOLEAN /\ drain[q].forced \in BOOLEAN
  <2>1. s \in QueueObjects /\ drain[q] \in Drains
    BY InHand DEF FInv
  <2> QED
    BY <2>1 DEF Drains, CrossChannel
<1>3. CASE /\ s.items # <<>>
           /\ UNCHANGED <<current, callback, unmapped>>
           /\ \E b \in {TRUE, drain[q].forced} : drain' = [drain EXCEPT ![q] = RunNext(q, b)]
  <2>1. PICK b \in {TRUE, drain[q].forced} : drain' = [drain EXCEPT ![q] = RunNext(q, b)]
    BY <1>3
  <2>2. b \in BOOLEAN
    BY <1>2
  <2>3. /\ RunNext(q, b) \in Drains /\ RunNext(q, b).at = "run"
        /\ Elements(RunNext(q, b).batch) \subseteq Elements(queue[q].items)
    BY <1>3, <2>2, NextItem DEF FInv
  <2> QED
    BY <1>1, <1>3, <2>1, <2>3, GoesOn
<1>4. CASE /\ UNCHANGED <<current, callback, unmapped>>
           /\ drain' = [drain EXCEPT ![q] = [drain[q] EXCEPT !.at = "collect"]]
  <2>1. /\ [drain[q] EXCEPT !.at = "collect"] \in Drains
        /\ [drain[q] EXCEPT !.at = "collect"].batch = <<>>
        /\ [drain[q] EXCEPT !.at = "collect"].at = "collect"
    BY <1>1, <1>2 DEF Drains
  <2> QED
    BY <1>1, <1>4, <2>1, GoesOn, NoElements
<1>5. CASE /\ UNCHANGED <<current, callback, unmapped>>
           /\ drain' = [drain EXCEPT ![q] = Run(<<>>, 1, TRUE, drain[q].forced)]
  <2>1. /\ Run(<<>>, 1, TRUE, drain[q].forced) \in Drains
        /\ Run(<<>>, 1, TRUE, drain[q].forced).batch = <<>>
        /\ Run(<<>>, 1, TRUE, drain[q].forced).at = "run"
    BY <1>2, NoElements DEF Run, Drains
  <2> QED
    BY <1>1, <1>5, <2>1, GoesOn, NoElements
<1>6. CASE Finally(q, queue)
  <2>1. failures' \in 0..MaxFailures
    BY <1>1 DEF FInv, FTypeOK
  <2> QED
    BY <1>1, <1>6, <2>1, EndsIdle
<1> QED
  BY <1>3, <1>4, <1>5, <1>6 DEF Round

LEMMA CollectStep == ASSUME FInv, NEW q \in Queues, Collect(q) PROVE FInv' /\ CapKept
<1> DEFINE s == queue[q]
           dr == Run(s.items, Len(s.items), Summarizes(s), drain[q].forced)
<1>1. /\ UNCHANGED <<queue, recent, fate, failures, clears, forgotten>>
      /\ Draining(q)
  BY DEF Collect, Draining
<1>2. CASE Finally(q, queue)
  <2>1. failures' \in 0..MaxFailures
    BY <1>1 DEF FInv, FTypeOK
  <2> QED
    BY <1>1, <1>2, <2>1, EndsIdle
<1>3. CASE UNCHANGED <<current, callback, unmapped>> /\ drain' = [drain EXCEPT ![q] = dr]
  <2>1. s \in QueueObjects /\ drain[q] \in Drains
    BY InHand DEF FInv
  <2>2. s.items \in Seq(Deliveries) /\ Len(s.items) \in Nat /\ Summarizes(s) \in BOOLEAN
        /\ drain[q].forced \in BOOLEAN
    BY <2>1 DEF QueueObjects, Drains, Summarizes
  <2>3. dr \in Drains /\ dr.at = "run" /\ dr.batch = s.items
    BY <2>2 DEF Run, Drains
  <2> QED
    BY <1>1, <1>3, <2>3, GoesOn
<1> QED
  BY <1>2, <1>3 DEF Collect

LEMMA RunThrowsStep == ASSUME FInv, NEW q \in Queues, RunThrows(q) PROVE FInv' /\ CapKept
<1>1. failures' \in 0..MaxFailures
  BY FollowupAssumption DEF FInv, FTypeOK, RunThrows
<1> QED
  BY <1>1, EndsIdle DEF RunThrows


LEMMA RunEndsStep == ASSUME FInv, NEW q \in Queues, RunEnds(q) PROVE FInv' /\ CapKept
<1> DEFINE after == AfterRun(queue[q], drain[q])
           qs == [queue EXCEPT ![q] = after]
<1>1. /\ queue' = qs /\ drain[q].at = "run"
      /\ UNCHANGED <<recent, failures, clears, forgotten>>
  BY DEF RunEnds
<1>2. /\ queue \in [Queues -> QueueObjects] /\ drain \in [Queues -> Drains]
      /\ current \in Queues \cup {NoQueue} /\ callback \in BOOLEAN
      /\ fate \in [Deliveries -> Fates]
  BY TypesOfQueues DEF FInv
<1>3. /\ after \in QueueObjects
      /\ EachOnce(queue[q].items) => EachOnce(after.items)
      /\ HasWork(after) => HasWork(queue[q])
      /\ Elements(after.items) \subseteq Elements(queue[q].items)
      /\ Elements(after.dropped) \subseteq Elements(queue[q].dropped)
  BY <1>2, FrontIsTaken
<1> HIDE DEF after
<1>4. /\ qs \in [Queues -> QueueObjects] /\ qs[q] = after
      /\ \A p \in Queues : p # q => qs[p] = queue[p]
      /\ \A p \in Queues : HasWork(qs[p]) => HasWork(queue[p])
  BY <1>2, <1>3
<1>5. /\ fate' \in [Deliveries -> Fates]
      /\ \A d \in Deliveries : fate'[d] \in Accepted <=> fate[d] \in Accepted
  <2>1. fate' = [d \in Deliveries |->
                   IF d \in Elements(drain[q].batch) THEN "answered"
                   ELSE IF drain[q].told /\ d \in Elements(queue[q].dropped) THEN "told"
                   ELSE fate[d]]
    BY DEF RunEnds
  <2>2. \A d \in Elements(drain[q].batch) \cup Elements(queue[q].dropped) : fate[d] \in Accepted
    BY DEF FInv, HeldIsAccepted, Holding
  <2> QED
    BY <1>2, <2>1, <2>2 DEF Fates, Accepted
<1>6. /\ current' \in Queues \cup {NoQueue} /\ drain' \in [Queues -> Drains] /\ callback' \in BOOLEAN
      /\ unmapped' \subseteq Queues
      /\ \A p \in Queues : Elements(drain'[p].batch) \subseteq Elements(drain[p].batch)
      /\ CurrentIsWatched' /\ OffTheMap'
  <2>1. CASE HasWork(qs[q])
    <3>1. drain' = [drain EXCEPT ![q] = Debounce(drain[q].forced)] /\ current' = current
          /\ callback' = callback /\ unmapped' = unmapped
      BY <2>1 DEF RunEnds, after
    <3>2. /\ Debounce(drain[q].forced) \in Drains /\ Debounce(drain[q].forced).at = "debounce"
          /\ Debounce(drain[q].forced).batch = <<>>
      <4>1. drain[q].forced \in BOOLEAN
        BY <1>2 DEF Drains
      <4> QED
        BY <4>1, NoElements DEF Debounce, Idle, Drains
    <3>3. CurrentIsWatched'
      <4>1. CASE current = q
        BY <1>2, <3>1, <3>2, <4>1 DEF CurrentIsWatched, Draining
      <4>2. CASE current # q
        BY <1>1, <1>2, <1>4, <3>1, <4>2 DEF FInv, CurrentIsWatched, Draining, HasWork
      <4> QED
        BY <4>1, <4>2
    <3>4. OffTheMap' /\ unmapped' \subseteq Queues
      BY <1>1, <1>4, <3>1, MapKept, TypesOfQueues, FollowupAssumption DEF FInv
    <3> QED
      BY <1>2, <3>1, <3>2, <3>3, <3>4, NoElements
  <2>2. CASE ~HasWork(qs[q])
    <3>1. Finally(q, queue') /\ queue' \in [Queues -> QueueObjects]
      BY <1>1, <1>4, <2>2 DEF RunEnds, after
    <3> QED
      BY <1>1, <1>4, <3>1, FinallyStep
  <2> QED
    BY <2>1, <2>2
<1>7. FTypeOK'
  BY <1>1, <1>4, <1>5, <1>6, TypesOfQueues, TypesAfter DEF FInv
<1>8. Quiet
  <2>1. \A p \in Queues : /\ Elements(queue'[p].items) \subseteq Elements(queue[p].items)
                          /\ Elements(queue'[p].dropped) \subseteq Elements(queue[p].dropped)
                          /\ EachOnce(queue[p].items) => EachOnce(queue'[p].items)
    BY <1>1, <1>3, <1>4
  <2> QED
    BY <1>1, <1>5, <1>6, <2>1 DEF Quiet, Holding
<1>9. CapKept
  <2>1. \A d \in Deliveries : fate'[d] \in {"answered", "told", fate[d]}
    BY DEF RunEnds
  <2> QED
    BY <2>1, NothingAccepted
<1> QED
  BY <1>6, <1>7, <1>8, <1>9, FInvStep

LEMMA ClearStep == ASSUME FInv, Clear PROVE FInv' /\ CapKept
<1>1. /\ UNCHANGED <<drain, recent, failures, forgotten, unmapped>> /\ current' = NoQueue /\ callback' = FALSE
      /\ clears' \in 0..MaxClears
  BY FollowupAssumption DEF Clear, FInv, FTypeOK
<1>2. CurrentIsWatched'
  BY <1>1 DEF CurrentIsWatched
<1>3. CASE current = NoQueue
  <2>1. queue' = queue /\ fate' = fate
    BY <1>3 DEF Clear
  <2>2. FTypeOK'
    BY <1>1, <2>1 DEF FInv, FTypeOK, Key
  <2>3. Quiet /\ CapKept
    BY <1>1, <2>1, NothingAccepted DEF Quiet, Holding, Elements
  <2>4. OffTheMap'
    BY <1>1, <1>3, <2>1, MapKept, FollowupAssumption DEF FInv
  <2> QED
    BY <1>2, <2>2, <2>3, <2>4, FInvStep
<1>4. CASE current # NoQueue
  <2> DEFINE q == current
             empty == [queue[q] EXCEPT !.items = <<>>, !.dropped = <<>>, !.lastRun = FALSE]
             waiting == Elements(queue[q].items) \cup Elements(queue[q].dropped)
  <2>1. /\ q \in Queues /\ queue \in [Queues -> QueueObjects] /\ fate \in [Deliveries -> Fates]
    BY <1>4, TypesOfQueues DEF FInv
  <2>2. empty \in QueueObjects /\ empty.items = <<>> /\ empty.dropped = <<>>
    BY <2>1, NoElements DEF QueueObjects
  <2>3. queue' = [queue EXCEPT ![q] = empty]
    BY <1>4, <2>1 DEF Clear, QueueObjects
  <2>4. fate' = [d \in Deliveries |-> IF d \in waiting THEN "cleared" ELSE fate[d]]
    BY <1>4 DEF Clear
  <2> HIDE DEF empty
  <2>5. /\ fate' \in [Deliveries -> Fates]
        /\ \A d \in Deliveries : fate'[d] \in Accepted <=> fate[d] \in Accepted
    <3>1. \A d \in waiting : fate[d] \in Accepted
      BY <2>1 DEF FInv, HeldIsAccepted, Holding
    <3> QED
      BY <2>1, <2>4, <3>1 DEF Fates, Accepted
  <2>6. queue' \in [Queues -> QueueObjects]
    BY <2>1, <2>2, <2>3
  <2>7. FTypeOK'
    BY <1>1, <2>5, <2>6, TypesOfQueues, TypesAfter DEF FInv
  <2>8. Quiet
    <3>1. /\ \A p \in Queues : p # q => queue'[p] = queue[p]
          /\ queue'[q] = empty
      BY <2>1, <2>2, <2>3
    <3> QED
      BY <1>1, <2>2, <2>5, <3>1, NoElements, NoneOnce DEF Quiet, Holding
  <2>9. CapKept
    BY <2>4, NothingAccepted
  <2>10. OffTheMap'
    <3>1. \A p \in Queues : HasWork(queue'[p]) => p # q /\ HasWork(queue[p])
      BY <2>1, <2>2, <2>3 DEF HasWork
    <3> QED
      BY <1>1, <2>1, <3>1, MapKept, FollowupAssumption DEF FInv
  <2> QED
    BY <1>2, <2>7, <2>8, <2>9, <2>10, FInvStep
<1> QED
  BY <1>3, <1>4

\* A redelivery is turned away, and so is a message for a full queue that keeps the old ones.
LEMMA EnqueueStep ==
  ASSUME FInv, NEW d \in Deliveries, NEW settings \in Settings, Enqueue(d, settings)
  PROVE  FInv' /\ CapKept
<1> DEFINE old(q) == IF current = NoQueue THEN FreshQueue ELSE queue[q]
           s(q) == WithSettings(old(q), settings)
           gone(q) == Elements(SubSeq(s(q).items, 1, Len(s(q).items) - Len(Accept(s(q), d).items) + 1))
<1>1. /\ queue \in [Queues -> QueueObjects] /\ drain \in [Queues -> Drains]
      /\ fate \in [Deliveries -> Fates] /\ current \in Queues \cup {NoQueue}
      /\ callback \in BOOLEAN
  BY TypesOfQueues DEF FInv
<1>2. PICK q \in Queues :
        /\ IF current = NoQueue THEN q \notin Live ELSE q = current
        /\ current' = q
        /\ \/ /\ Seen(s(q), d)
              /\ queue' = [queue EXCEPT ![q] = s(q)]
              /\ fate' = [fate EXCEPT ![d] = "duplicate"]
              /\ UNCHANGED <<drain, recent>>
           \/ /\ ~Seen(s(q), d)
              /\ Full(s(q)) /\ s(q).drop = "new"
              /\ queue' = [queue EXCEPT ![q] = [s(q) EXCEPT !.lastRun = TRUE]]
              /\ fate' = [fate EXCEPT ![d] = "refused"]
              /\ UNCHANGED <<drain, recent>>
           \/ /\ ~Seen(s(q), d)
              /\ ~(Full(s(q)) /\ s(q).drop = "new")
              /\ queue' = [queue EXCEPT ![q] = Accept(s(q), d)]
              /\ recent' = Remember(d)
              /\ fate' = [e \in Deliveries |->
                            IF e = d THEN "queued"
                            ELSE IF e \in gone(q)
                                 THEN IF s(q).drop = "summarize" THEN "summarized" ELSE "dropped"
                                 ELSE fate[e]]
              /\ drain' = [drain EXCEPT ![q] = IF Kicks(q) THEN Debounce(FALSE) ELSE @]
  BY DEF Enqueue
<1>3. /\ fate[d] = "late" /\ UNCHANGED <<callback, failures, clears, forgotten>>
      /\ \E p \in Queues : current' = p /\ unmapped' = unmapped \ {p}
  BY DEF Enqueue
<1>4. /\ old(q) \in QueueObjects
      /\ Elements(old(q).items) \subseteq Elements(queue[q].items)
      /\ Elements(old(q).dropped) \subseteq Elements(queue[q].dropped)
      /\ EachOnce(queue[q].items) => EachOnce(old(q).items)
  BY <1>1, <1>2, FreshIsObject
<1> HIDE DEF old
<1>5. s(q) \in QueueObjects /\ s(q).items = old(q).items /\ s(q).dropped = old(q).dropped
  BY <1>4, SettingsApplied
<1>6. Elements(old(q).items) \subseteq Deliveries
  BY <1>4, <1>1 DEF QueueObjects, Elements
<1>7. s(q).items \in {queue[q].items, <<>>} /\ (current = NoQueue => ~HasWork(s(q)))
      /\ (current # NoQueue => s(q).dropped = queue[q].dropped /\ s(q).items = queue[q].items)
  BY <1>2, <1>5 DEF old, FreshQueue, HasWork
<1> HIDE DEF s
<1>8. fate[d] \notin Accepted
  BY <1>3 DEF Accepted
<1>map. ASSUME \A p \in Queues : p # q => queue'[p] = queue[p] PROVE OffTheMap'
  BY <1>2, <1>3, <1>map, FollowupAssumption DEF FInv, OffTheMap, HasWork
<1>9. ASSUME NEW new \in QueueObjects, NEW verdict \in {"duplicate", "refused"},
             new.items = s(q).items, new.dropped = s(q).dropped,
             queue' = [queue EXCEPT ![q] = new],
             fate' = [fate EXCEPT ![d] = verdict],
             UNCHANGED <<drain, recent>>
      PROVE  FInv' /\ CapKept
  <2>1. queue' \in [Queues -> QueueObjects]
    BY <1>1, <1>9
  <2>2. /\ fate' \in [Deliveries -> Fates]
        /\ \A e \in Deliveries : fate'[e] \in Accepted <=> fate[e] \in Accepted
    BY <1>1, <1>8, <1>9 DEF Fates, Accepted
  <2>3. FTypeOK'
    BY <1>1, <1>2, <1>3, <1>9, <2>1, <2>2, TypesOfQueues, TypesAfter DEF FInv
  <2>4. CurrentIsWatched'
    <3>1. queue'[q] = new /\ current' = q
      BY <1>1, <1>2, <1>9
    <3> QED
      BY <1>2, <1>3, <1>7, <1>9, <3>1 DEF FInv, CurrentIsWatched, HasWork, Draining
  <2>5. Quiet
    <3>1. \A p \in Queues : /\ Elements(queue'[p].items) \subseteq Elements(queue[p].items)
                            /\ Elements(queue'[p].dropped) \subseteq Elements(queue[p].dropped)
                            /\ EachOnce(queue[p].items) => EachOnce(queue'[p].items)
      BY <1>1, <1>4, <1>5, <1>9
    <3> QED
      BY <1>3, <1>9, <2>2, <3>1 DEF Quiet, Holding
  <2>6. CapKept
    BY <1>1, <1>9, NothingAccepted
  <2>7. OffTheMap'
    BY <1>1, <1>9, <1>map
  <2> QED
    BY <2>3, <2>4, <2>5, <2>6, <2>7, FInvStep
<1>10. CASE Seen(s(q), d) /\ queue' = [queue EXCEPT ![q] = s(q)]
            /\ fate' = [fate EXCEPT ![d] = "duplicate"] /\ UNCHANGED <<drain, recent>>
  BY <1>5, <1>9, <1>10
<1>11. CASE queue' = [queue EXCEPT ![q] = [s(q) EXCEPT !.lastRun = TRUE]]
            /\ fate' = [fate EXCEPT ![d] = "refused"] /\ UNCHANGED <<drain, recent>>
  <2>1. /\ [s(q) EXCEPT !.lastRun = TRUE] \in QueueObjects
        /\ [s(q) EXCEPT !.lastRun = TRUE].items = s(q).items
        /\ [s(q) EXCEPT !.lastRun = TRUE].dropped = s(q).dropped
    BY <1>5 DEF QueueObjects
  <2> QED
    BY <1>9, <1>11, <2>1
<1>12. CASE /\ ~Seen(s(q), d)
            /\ queue' = [queue EXCEPT ![q] = Accept(s(q), d)]
            /\ recent' = Remember(d)
            /\ fate' = [e \in Deliveries |->
                          IF e = d THEN "queued"
                          ELSE IF e \in gone(q)
                               THEN IF s(q).drop = "summarize" THEN "summarized" ELSE "dropped"
                               ELSE fate[e]]
            /\ drain' = [drain EXCEPT ![q] = IF Kicks(q) THEN Debounce(FALSE) ELSE @]
  <2> DEFINE after == Accept(s(q), d)
  <2>1. /\ after \in QueueObjects /\ Len(after.items) \in 1..s(q).cap
        /\ Len(after.items) <= Len(s(q).items) + 1 /\ after.cap = s(q).cap
        /\ Elements(after.items) \subseteq Elements(s(q).items) \cup {d}
        /\ Elements(after.dropped) \subseteq Elements(s(q).items) \cup Elements(s(q).dropped)
        /\ EachOnce(s(q).items) /\ (\A e \in Elements(s(q).items) : Key(e) # Key(d))
             => EachOnce(after.items)
    BY <1>5, RoomIsMade
  <2>2. gone(q) \subseteq Elements(s(q).items)
    <3>1. /\ s(q).items \in Seq(Deliveries) /\ Len(s(q).items) \in Nat /\ Len(after.items) \in Nat
          /\ Len(after.items) > 0
      BY <1>5, <2>1 DEF QueueObjects
    <3>2. Len(after.items) \in Nat \ {0} /\ Len(after.items) <= Len(s(q).items) + 1
      BY <2>1, <3>1
    <3> QED
      BY <3>1, <3>2, FrontPart
  <2> HIDE DEF after, gone
  <2>3. queue' \in [Queues -> QueueObjects] /\ queue'[q] = after
        /\ \A p \in Queues : p # q => queue'[p] = queue[p]
    BY <1>1, <1>12, <2>1 DEF after
  <2>4. Debounce(FALSE) \in Drains /\ Debounce(FALSE).at = "debounce" /\ Debounce(FALSE).batch = <<>>
    BY NoElements DEF Debounce, Idle, Drains
  <2>5. /\ drain' \in [Queues -> Drains]
        /\ \A p \in Queues : Elements(drain'[p].batch) \subseteq Elements(drain[p].batch)
    BY <1>1, <1>12, <2>4, NoElements
  <2>6. \A e \in gone(q) : e \in Deliveries /\ fate[e] \in Accepted
    BY <1>4, <1>5, <1>6, <2>2 DEF FInv, HeldIsAccepted, Holding
  <2>7. /\ fate' \in [Deliveries -> Fates]
        /\ fate'[d] \in Accepted
        /\ \A e \in Deliveries : e # d => (fate'[e] \in Accepted <=> fate[e] \in Accepted)
    BY <1>1, <1>12, <2>6 DEF Fates, Accepted
  <2>8. recent' = recent \cup {Key(d)} /\ Key(d) \notin recent
    BY <1>12 DEF Remember, Seen
  <2>9. FTypeOK'
    <3>1. recent' \subseteq {Key(e) : e \in Deliveries}
      BY <2>8 DEF FInv, FTypeOK
    <3> QED
      BY <1>1, <1>2, <1>3, <2>3, <2>5, <2>7, <3>1, TypesOfQueues, TypesAfter DEF FInv
  <2>10. CurrentIsWatched'
    <3>1. callback => drain'[q].at # "idle"
      BY <1>1, <1>12, <2>4 DEF Kicks, Draining
    <3> QED
      BY <1>2, <1>3, <3>1 DEF CurrentIsWatched, Draining
  <2>11. AcceptedOnce'
    <3>1. \A e, f \in Deliveries \ forgotten :
            e # f /\ fate'[e] \in Accepted /\ fate'[f] \in Accepted => Key(e) # Key(f)
      BY <2>7, <2>8 DEF FInv, AcceptedOnce, AcceptedIsRemembered
    <3>2. EachOnce(after.items)
      <4>1. \A e \in Elements(s(q).items) : Key(e) # Key(d)
        BY <1>12 DEF Seen
      <4>2. EachOnce(s(q).items)
        BY <1>4, <1>5 DEF FInv, AcceptedOnce
      <4> QED
        BY <2>1, <4>1, <4>2
    <3>3. \A p \in Queues : EachOnce(queue'[p].items)
      BY <2>3, <3>2 DEF FInv, AcceptedOnce
    <3> QED
      BY <1>3, <3>1, <3>3 DEF AcceptedOnce, EachOnce, Key
  <2>12. AcceptedIsRemembered'
    BY <1>3, <2>7, <2>8 DEF FInv, AcceptedIsRemembered, Key
  <2>13. HeldIsAccepted'
    <3> SUFFICES ASSUME NEW p \in Queues, NEW e \in Holding(p)' PROVE fate'[e] \in Accepted
      BY DEF HeldIsAccepted
    <3>1. e \in Holding(p) \cup {d}
      <4>1. CASE p = q
        BY <1>4, <1>5, <2>1, <2>3, <2>5, <4>1 DEF Holding
      <4>2. CASE p # q
        BY <2>3, <2>5, <4>2 DEF Holding
      <4> QED
        BY <4>1, <4>2
    <3>2. Holding(p) \subseteq Deliveries
      BY InHand DEF FInv, Holding
    <3> QED
      BY <2>7, <3>1, <3>2 DEF FInv, HeldIsAccepted
  <2>14. CapKept
    <3> SUFFICES ASSUME NEW p \in Queues, NEW e \in Deliveries,
                        fate[e] = "late", fate'[e] = "queued", e \in Elements(queue'[p].items)
                 PROVE  Len(queue'[p].items) <= queue'[p].cap
      BY DEF CapKept
    <3>1. Len(after.items) <= after.cap
      BY <1>5, <2>1 DEF QueueObjects
    <3>2. p = q
      <4> SUFFICES ASSUME p # q PROVE FALSE
        OBVIOUS
      <4>1. e \in Holding(p)
        BY <2>3 DEF Holding
      <4> QED
        BY <4>1 DEF FInv, HeldIsAccepted, Accepted
    <3> QED
      BY <2>3, <3>1, <3>2
  <2>15. OffTheMap'
    BY <1>map, <2>3
  <2> QED
    BY <2>9, <2>10, <2>11, <2>12, <2>13, <2>14, <2>15 DEF FInv
<1> QED
  BY <1>2, <1>10, <1>11, <1>12

LEMMA FStep == ASSUME FInv, [FNext]_fvars PROVE FInv' /\ CapKept
<1>1. ASSUME NEW d \in Deliveries, Arrive(d) PROVE FInv' /\ CapKept
  BY <1>1, ArriveStep
<1>2. ASSUME NEW d \in Deliveries, TurnEnds(d) PROVE FInv' /\ CapKept
  BY <1>2, TurnEndsStep
<1>3. ASSUME NEW d \in Deliveries, NEW settings \in Settings, Enqueue(d, settings)
      PROVE  FInv' /\ CapKept
  BY <1>3, EnqueueStep
<1>4. ASSUME NEW q \in Queues, Round(q) PROVE FInv' /\ CapKept
  BY <1>4, RoundStep
<1>5. ASSUME NEW q \in Queues, Collect(q) PROVE FInv' /\ CapKept
  BY <1>5, CollectStep
<1>6. ASSUME NEW q \in Queues, RunEnds(q) PROVE FInv' /\ CapKept
  BY <1>6, RunEndsStep
<1>7. ASSUME NEW q \in Queues, RunThrows(q) PROVE FInv' /\ CapKept
  BY <1>7, RunThrowsStep
<1>8. ASSUME NEW k \in recent, Forget(k) PROVE FInv' /\ CapKept
  BY <1>8, ForgetStep
<1>9. CASE Clear
  BY <1>9, ClearStep
<1>10. CASE UNCHANGED fvars
  BY <1>10, UnchangedStep
<1> QED
  BY <1>1, <1>2, <1>3, <1>4, <1>5, <1>6, <1>7, <1>8, <1>9, <1>10 DEF FNext, DrainStep

\* What every reachable state of the follow-up queue has: the promises; what a queue
\* object holds was accepted; its key is remembered until it expires; and an object
\* outside the map that still holds something was taken off it by another drain's end.
THEOREM FollowupInvariance == FSpec => []FInv
<1>1. FInv /\ [FNext]_fvars => FInv'
  BY FStep
<1> QED
  BY <1>1, FInitFInv, PTL DEF FSpec

\* The queue objects and their drains keep their shape: caps stay positive, and a drain
\* takes from its queue only while it runs something.
THEOREM FollowupTypeCorrect == FSpec => []FTypeOK
  BY FollowupInvariance, PTL DEF FInv

\* An object that holds a message has a drain, except the session's queue while no
\* callback is known, and an object that the end of another object's drain took off
\* the map.
THEOREM NothingStranded == FSpec => []NoStrandedFollowup
<1>1. FInv => NoStrandedFollowup
  BY FollowupAssumption DEF FInv, NoStrandedFollowup, CurrentIsWatched, OffTheMap
<1> QED
  BY <1>1, FollowupInvariance, PTL

\* Until its id expires in the cache no message is accepted twice, and even after that
\* not beside a delivery of it that waits in the same queue.
THEOREM NeverTwice == FSpec => []AcceptedOnce
  BY FollowupInvariance, PTL DEF FInv

\* A queue that accepts a message is within the cap in force after it, whatever it
\* held before.
THEOREM CapHolds == FSpec => WithinCap
<1>1. FInv /\ [FNext]_fvars =>
        [\A q \in Queues, d \in Deliveries :
           /\ fate[d] = "late" /\ fate'[d] = "queued"
           /\ d \in Elements(queue'[q].items)
           => Len(queue'[q].items) <= queue'[q].cap]_fvars
  BY FStep DEF CapKept
<1> QED
  BY <1>1, FollowupInvariance, PTL DEF FSpec, WithinCap
=============================================================================
