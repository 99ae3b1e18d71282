---------------------------- MODULE MCAudioSlots ----------------------------
(* A small instance of AudioSlots for TLC. *)
EXTENDS AudioSlots
=============================================================================
