----------------------------- MODULE MCFrameLoop -----------------------------
(* A small instance of FrameLoop for TLC. *)
EXTENDS FrameLoop

CONSTANTS s1
=============================================================================
