-------------------------- MODULE MCLaneReentrant --------------------------
(* A main-lane task that runs a session task which comes back to the main   *)
(* lane, all before the first of them yields: the re-entrant push that the  *)
(* comment at command-queue.ts:157-165 describes.  No caller in the         *)
(* repository does this today; the queue promises that it is safe.          *)
EXTENDS LaneQueue

CONSTANTS main, s1, r1, r2, r3, p1

MCLane == [j \in Jobs |-> IF j = r2 THEN s1 ELSE main]
MCInner == [j \in Jobs |-> CASE j = r1 -> r2 [] j = r2 -> r3 [] OTHER -> NoJob]
=============================================================================
