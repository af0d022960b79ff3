---------------------------- MODULE StatefulMLFQ ----------------------------
(***************************************************************************)
(* The scheduler of system2-core on its own: StatefulMLFQ                  *)
(* (astraea_mlfq_scheduler.ts) and the one call of the KV cache controller *)
(* that changes a job's score (adaptive_kv_manager.ts, handleDiscard).     *)
(* Every method is synchronous, so a call is a step.                       *)
(*                                                                         *)
(* A name in Jobs stands for the job an agent has outstanding: once it is  *)
(* taken, the agent's next request is a new OrchestrationJob of that name. *)
(***************************************************************************)
EXTENDS MLFQPolicy

CONSTANTS
  Jobs,
  Tokens,   \* the token counts that are predicted and observed
  Caches,   \* sizes M of the caches that are discarded
  MaxWait   \* bound: no discard makes a wait longer

ASSUME StatefulMLFQAssumption ==
  /\ Tokens \subseteq Nat
  /\ Caches \subseteq {m \in Nat : m % 2 = 0}  \* so that 7.5 * M is whole
  /\ MaxWait \in Nat

VARIABLES
  activeQueues,   \* level -> jobs
  isEngineIdle,
  est,            \* job -> predictedProcessingTime and accumulatedWaitTime
  priorityLevel,  \* job -> state.priorityLevel
  promised        \* history: the jobs enqueued and not handed out yet

vars == <<activeQueues, isEngineIdle, est, priorityLevel, promised>>

Init ==
  /\ activeQueues = [i \in Levels |-> <<>>]
  /\ isEngineIdle = TRUE
  /\ est = [j \in Jobs |-> [predicted |-> 0, wait |-> 0]]
  /\ priorityLevel = [j \in Jobs |-> 0]
  /\ promised = {}

\* Math.max(priorityLevel, classifyRequest(actualTokensEvolved))
DemotionTarget(level, tokens) == IF Classify(tokens) > level THEN Classify(tokens) ELSE level

\* currentQueue.splice(findIndex(job), 1)
FaultStay(levels, i, j) == levels
TakeOut(levels, i, j) == [levels EXCEPT ![i] = RemoveFirst(@, j)]

\* calculateDiscardPenalty: T_recompute (5) * C_batch (1.5) * M
Penalty(m) == (15 * m) \div 2

\* isEngineIdle after getNextJob has found a job
IdleAfterTake == isEngineIdle

\* handleEnqueue; no caller passes an initialLevel.
Enqueue(j, tokens) ==
  /\ j \notin promised
  /\ est' = [est EXCEPT ![j] = [predicted |-> tokens, wait |-> 0]]
  /\ priorityLevel' = [priorityLevel EXCEPT ![j] = Classify(tokens)]
  /\ activeQueues' = Put(activeQueues, Classify(tokens), j)
  /\ isEngineIdle' = FALSE
  /\ promised' = promised \cup {j}

GetNextJob ==
  /\ ~GloballyEmpty(activeQueues)
  /\ activeQueues' = TakeNext(activeQueues, est)
  /\ promised' = promised \ {NextJob(activeQueues, est)}
  /\ isEngineIdle' = IdleAfterTake
  /\ UNCHANGED <<est, priorityLevel>>

GetNextJobNone ==
  /\ GloballyEmpty(activeQueues)
  /\ isEngineIdle' = TRUE
  /\ UNCHANGED <<activeQueues, est, priorityLevel, promised>>

\* handleDemotion; of a job that no longer waits findIndex is -1 and nothing changes.
Demote(j, tokens) ==
  LET target == DemotionTarget(priorityLevel[j], tokens) IN
  /\ j \in promised
  /\ target # priorityLevel[j]
  /\ priorityLevel' = [priorityLevel EXCEPT ![j] = target]
  /\ activeQueues' = Put(TakeOut(activeQueues, priorityLevel[j], j), target, j)
  /\ UNCHANGED <<isEngineIdle, est, promised>>

\* KVCacheStrategyController.handleDiscard
Discard(j, m) ==
  /\ j \in promised
  /\ est[j].wait + Penalty(m) =< MaxWait
  /\ est' = [est EXCEPT ![j].wait = @ + Penalty(m)]
  /\ UNCHANGED <<activeQueues, isEngineIdle, priorityLevel, promised>>

Next ==
  \/ \E j \in Jobs, tokens \in Tokens : Enqueue(j, tokens) \/ Demote(j, tokens)
  \/ \E j \in Jobs, m \in Caches : Discard(j, m)
  \/ GetNextJob
  \/ GetNextJobNone

Spec == Init /\ [][Next]_vars

-----------------------------------------------------------------------------
(* Properties *)

TypeOK ==
  /\ activeQueues \in [Levels -> Seq(Jobs)]
  /\ isEngineIdle \in BOOLEAN
  /\ est \in [Jobs -> [predicted : Nat, wait : Nat]]
  /\ priorityLevel \in [Jobs -> Levels]
  /\ promised \subseteq Jobs

\* Every job that was enqueued and not handed out waits exactly once, in the
\* level its state names, and nothing else waits: demotions neither lose nor
\* double a job (README.md:24 "The queue is 100% loss-less").
EachJobWaitsOnce ==
  /\ \A j \in promised : \E k \in DOMAIN activeQueues[priorityLevel[j]] :
       activeQueues[priorityLevel[j]][k] = j
  /\ \A i \in Levels : \A k \in DOMAIN activeQueues[i] :
       /\ activeQueues[i][k] \in promised
       /\ priorityLevel[activeQueues[i][k]] = i
       /\ \A n \in DOMAIN activeQueues[i] : activeQueues[i][n] = activeQueues[i][k] => n = k

\* The bands of Phase1-Implementation-Master.md:36, 128 tokens wide.
Band(tokens) == IF tokens \div 128 > 5 THEN 5 ELSE tokens \div 128

\* No job waits in front of the band its predicted tokens put it in.
NeverAboveItsBand == \A j \in promised : priorityLevel[j] >= Band(est[j].predicted)

\* A scheduler that believes the engine idle has nothing waiting, so that the
\* wake-up "dequeue" is emitted when work arrives for an idle engine.
IdleMeansEmpty == isEngineIdle => GloballyEmpty(activeQueues)

\* Whatever discards and demotions happened before, the job handed out is never
\* passed over for one of a lower level; in its level no job has waited longer
\* for its size; and of jobs that are equal there, it arrived first.
HandsOutTheBest ==
  [][\A j \in promised \ promised' : \A i \in promised \ {j} :
       /\ priorityLevel[j] =< priorityLevel[i]
       /\ priorityLevel[i] = priorityLevel[j] =>
            /\ est[i].wait * ComputeTime(est[j]) =< est[j].wait * ComputeTime(est[i])
            /\ est[i].wait * ComputeTime(est[j]) = est[j].wait * ComputeTime(est[i]) =>
                 \E a, b \in DOMAIN activeQueues[priorityLevel[j]] :
                   /\ activeQueues[priorityLevel[j]][a] = j
                   /\ activeQueues[priorityLevel[j]][b] = i
                   /\ a < b]_vars
=============================================================================
