--------------------------- MODULE MCPendingCalls ---------------------------
(* Instances of PendingCalls for TLC. *)
EXTENDS PendingCalls, TLC

CONSTANTS u1, u2, u3
=============================================================================
