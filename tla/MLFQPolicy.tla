----------------------------- MODULE MLFQPolicy -----------------------------
(***************************************************************************)
(* The rules of the multi-level feedback queue,                            *)
(* system2-core/astraea_mlfq_scheduler.ts, as operators on its levels: a   *)
(* function from level (0 is served first) to the jobs that wait there in  *)
(* order of arrival.  "est" maps a job to what its JobStateTracker says of *)
(* it: [predicted |-> tokens, wait |-> accumulated wait].                  *)
(***************************************************************************)
EXTENDS Integers, Sequences, SequencesExt

\* QUEUE_THRESHOLDS
Thresholds == <<128, 256, 384, 512, 640>>

Levels == 0 .. Len(Thresholds)

FaultUpTo(tokens, i) == tokens =< Thresholds[i + 1]
Below(tokens, i) == tokens < Thresholds[i + 1]

LastLevel == Len(Thresholds)

\* classifyRequest: the first threshold the tokens stay below, or the last level.
Classify(tokens) ==
  LET under == {i \in 0 .. Len(Thresholds) - 1 : Below(tokens, i)}
  IN  IF under = {} THEN LastLevel ELSE CHOOSE i \in under : \A k \in under : i =< k

\* Math.max(predictedProcessingTime, 1)
ComputeTime(e) == IF e.predicted < 1 THEN 1 ELSE e.predicted

\* calculateHRRNScore(e) > calculateHRRNScore(f), the quotients multiplied out.
Outscores(e, f) ==
  (e.wait + ComputeTime(e)) * ComputeTime(f) > (f.wait + ComputeTime(f)) * ComputeTime(e)

\* getNextJob's scan of a level keeps the first index of the highest score.
FaultLatestIdx(jobs, est) ==
  CHOOSE k \in DOMAIN jobs :
    \A i \in DOMAIN jobs : /\ ~Outscores(est[jobs[i]], est[jobs[k]])
                           /\ i > k => Outscores(est[jobs[k]], est[jobs[i]])
HighestScoreIdx(jobs, est) ==
  CHOOSE k \in DOMAIN jobs :
    \A i \in DOMAIN jobs : /\ ~Outscores(est[jobs[i]], est[jobs[k]])
                           /\ i < k => Outscores(est[jobs[k]], est[jobs[i]])

GloballyEmpty(levels) == \A i \in Levels : levels[i] = <<>>

\* The level getNextJob serves.
Serving(levels) ==
  CHOOSE i \in Levels : levels[i] # <<>> /\ \A k \in Levels : k < i => levels[k] = <<>>

NextJob(levels, est) ==
  LET i == Serving(levels) IN levels[i][HighestScoreIdx(levels[i], est)]

\* The levels without the job getNextJob returns.
TakeNext(levels, est) ==
  LET i == Serving(levels)
  IN  [levels EXCEPT ![i] = RemoveAt(@, HighestScoreIdx(@, est))]

Put(levels, i, j) == [levels EXCEPT ![i] = Append(@, j)]
=============================================================================
