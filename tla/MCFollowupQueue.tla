-------------------------- MODULE MCFollowupQueue --------------------------
(* Four deliveries, d2 redelivered as d3, d4 of another thread; four settings. *)
EXTENDS FollowupQueue

CONSTANTS d1, d2, d3, d4, q1, q2

MCMessageId == [d \in Deliveries |-> IF d = d3 THEN d2 ELSE d]
MCRoute == [d \in Deliveries |-> IF d = d4 THEN "thread" ELSE "chat"]
MCSettings ==
  {[mode |-> "collect", cap |-> 0, drop |-> "summarize"],
   [mode |-> "collect", cap |-> 1, drop |-> "old"],
   [mode |-> "followup", cap |-> 1, drop |-> "summarize"],
   [mode |-> "followup", cap |-> 1, drop |-> "new"]}
=============================================================================
