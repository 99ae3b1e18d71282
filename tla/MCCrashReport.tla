---------------------------- MODULE MCCrashReport ----------------------------
(* A small instance of CrashReport for TLC. *)
EXTENDS CrashReport

CONSTANTS t1, t2, t3
=============================================================================
