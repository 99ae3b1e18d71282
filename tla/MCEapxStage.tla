---------------------------- MODULE MCEapxStage ----------------------------
(* A small instance of EapxStage for TLC. *)
EXTENDS EapxStage, TLC

CONSTANTS p1, p2, p3

\* An archive with a loose file, and two folders with the same file names, of which
\* one is the loose file's.
MCPlanOf == p1 :> {1, 2} @@ p2 :> {2, 3} @@ p3 :> {2, 3}
MCSummed == p1 :> {1} @@ p2 :> {} @@ p3 :> {}
=============================================================================
