----------------------------- MODULE MCEapxCommit -----------------------------
(* Small instances of EapxCommit for TLC. *)
EXTENDS EapxCommit

CONSTANTS p1, p2, mine, mod

MCSizeOf == [c \in Contents |-> CASE c = p1 -> 1
                                  [] c = p2 -> 2
                                  [] c = mine -> 1
                                  [] c = mod -> 3
                                  [] OTHER -> 0]
\* The importer alone: nobody edits the game directory.
SpecAlone == Init /\ [][Step \/ Fault]_vars
=============================================================================
