---------------------------- MODULE LaneContract ----------------------------
(***************************************************************************)
(* What a command lane promises to its callers, whatever implements it:    *)
(* a job is accepted once, waits in the lane it was submitted to, is       *)
(* started in order of submission while the lane runs fewer jobs than its  *)
(* limit, and leaves the lane when it is done.  A lane may be emptied      *)
(* before its jobs start, and a restart may forget the jobs that run.      *)
(*                                                                         *)
(* LaneQueue (command-queue.ts) and AstraeaQueue (the queue installed over *)
(* it by system2-core/installer.js) are both shown to implement this.      *)
(***************************************************************************)
EXTENDS Naturals, Sequences, FiniteSets

CONSTANTS Lanes,  \* the lanes
          Jobs    \* the jobs that may be submitted

VARIABLES waiting,   \* lane -> jobs submitted and not yet started, in order
          running,   \* lane -> jobs that hold a slot of the lane
          limit,     \* lane -> how many jobs may hold a slot
          accepted   \* jobs submitted so far

vars == <<waiting, running, limit, accepted>>

Init ==
  /\ waiting = [l \in Lanes |-> <<>>]
  /\ running = [l \in Lanes |-> {}]
  /\ limit = [l \in Lanes |-> 1]
  /\ accepted = {}

Submit(l, j) ==
  /\ j \notin accepted
  /\ accepted' = accepted \cup {j}
  /\ waiting' = [waiting EXCEPT ![l] = Append(@, j)]
  /\ UNCHANGED <<running, limit>>

MayStart(l) == waiting[l] # <<>> /\ Cardinality(running[l]) < limit[l]

TakeSlot(l) == running' = [running EXCEPT ![l] = @ \cup {Head(waiting[l])}]

Start(l) ==
  /\ MayStart(l)
  /\ TakeSlot(l)
  /\ waiting' = [waiting EXCEPT ![l] = Tail(@)]
  /\ UNCHANGED <<limit, accepted>>

\* A job whose first act, before it yields, is to submit another job.
StartAndSubmit(l, m, j) ==
  /\ MayStart(l)
  /\ TakeSlot(l)
  /\ j \notin accepted
  /\ accepted' = accepted \cup {j}
  /\ waiting' = [[waiting EXCEPT ![l] = Tail(@)] EXCEPT ![m] = Append(@, j)]
  /\ UNCHANGED limit

\* A job that throws before it yields holds its slot for no observable time.
StartAndFail(l) ==
  /\ MayStart(l)
  /\ waiting' = [waiting EXCEPT ![l] = Tail(@)]
  /\ UNCHANGED <<running, limit, accepted>>

Finish(l, j) ==
  /\ j \in running[l]
  /\ running' = [running EXCEPT ![l] = @ \ {j}]
  /\ UNCHANGED <<waiting, limit, accepted>>

Drop(l) ==
  /\ waiting' = [waiting EXCEPT ![l] = <<>>]
  /\ UNCHANGED <<running, limit, accepted>>

SetLimit(l) ==
  /\ limit'[l] \in Nat \ {0}
  /\ limit' = [limit EXCEPT ![l] = limit'[l]]
  /\ UNCHANGED <<waiting, running, accepted>>

Forget ==
  /\ running' = [l \in Lanes |-> {}]
  /\ UNCHANGED <<waiting, limit, accepted>>

Next ==
  \/ \E l \in Lanes : Start(l) \/ StartAndFail(l) \/ Drop(l) \/ SetLimit(l)
  \/ \E l \in Lanes, j \in Jobs : Submit(l, j) \/ Finish(l, j)
  \/ \E l, m \in Lanes, j \in Jobs : StartAndSubmit(l, m, j)
  \/ Forget

Spec == Init /\ [][Next]_vars
=============================================================================
