--------------------------- MODULE MCPthreadBridge ---------------------------
(* Small instances of PthreadBridge for TLC. *)
EXTENDS PthreadBridge

CONSTANTS t1, t2, m1, c1, a1, a2, a3

MCMutexOf == [c \in Conds |-> m1]
=============================================================================
