-------------------------- MODULE MCHeartbeatWake --------------------------
(* All agents and one session, two runners in one process. *)
EXTENDS HeartbeatWake

CONSTANTS s1, b1, b2

=============================================================================
