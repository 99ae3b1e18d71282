---------------------------- MODULE MCPortLauncher ----------------------------
(* A small instance of PortLauncher for TLC: lib, assets and res, the first    *)
(* two tested by the launcher, and the first launch: nothing is in place yet.  *)
EXTENDS PortLauncher

CONSTANT p1

MCSizeOf == [c \in Contents |-> CASE c = p1 -> 1 [] OTHER -> 0]
=============================================================================
