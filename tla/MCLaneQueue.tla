---------------------------- MODULE MCLaneQueue ----------------------------
(* Two runs of one session that go through the main lane, and plain jobs of *)
(* the main lane that compete with them.                                    *)
EXTENDS LaneQueue

CONSTANTS main, s1, a1, a2, m1, m2, p1

MCLane == [j \in Jobs |-> IF j \in {a1, a2} THEN s1 ELSE main]
MCInner == [j \in Jobs |-> CASE j = a1 -> m1 [] j = a2 -> m2 [] OTHER -> NoJob]
=============================================================================
