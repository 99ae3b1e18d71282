--------------------------- MODULE MCKatamariInput ---------------------------
(* A small instance of KatamariInput for TLC. *)
EXTENDS KatamariInput
=============================================================================
