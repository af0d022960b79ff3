------------------------- MODULE MCSessionWriteLock -------------------------
(* Two runs of a session in the gateway, and one of another process. *)
EXTENDS SessionWriteLock

CONSTANTS g, c, t1, t2, u1

MCProcess == [t \in Tasks |-> IF t = u1 THEN c ELSE g]
=============================================================================
