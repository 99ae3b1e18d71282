---------------------------- MODULE AtomicInstall ----------------------------
(***************************************************************************)
(* What the importer promises the player (ports/katamari/README.md: "the   *)
(* first launch ... imports the APK data atomically"), and where it cannot  *)
(* keep it.  The installed game is one value per commit root.  While the    *)
(* importer runs a publication replaces every root in a single step by the  *)
(* payload of one package; while it does not run, the player may edit or    *)
(* delete a root by hand.  A crash, a failed import and a rollback change   *)
(* nothing, but for the roots at risk: those equal to the package's, and,   *)
(* when the importer fails between the publication and its end, all.        *)
(***************************************************************************)
EXTENDS Naturals

CONSTANTS
  NRoots,     \* number of commit roots of the recipe (lib, assets, res)
  Payloads,   \* what a package may hold
  OtherData,  \* what a player may put in place by hand
  None,       \* the root does not exist
  Torn        \* a part of a root

VARIABLES
  data,     \* what is installed
  running,  \* does an importer run?
  fresh,    \* has it just published?
  risk      \* the roots it may lose

Roots == 1..NRoots
Contents == Payloads \cup OtherData \cup {None, Torn}

Init ==
  /\ data \in [Roots -> OtherData \cup {None}]
  /\ running = FALSE
  /\ fresh = FALSE
  /\ risk = {}

\* A process starts, or ends or is killed.
StartOrStop ==
  /\ running' = ~running
  /\ fresh' = FALSE
  /\ risk' \subseteq risk
  /\ UNCHANGED data

Publish ==
  /\ running
  /\ \E p \in Payloads : data' = [r \in Roots |-> p]
  /\ fresh' = TRUE
  /\ risk' = {}
  /\ UNCHANGED running

\* An import begins: a root equal to the package's is at risk until it is over.
Begin ==
  /\ running
  /\ \E p \in Payloads : risk' = {r \in Roots : data[r] = p}
  /\ UNCHANGED <<data, running, fresh>>

\* A failure between the publication and its end puts everything at risk.
FailLate ==
  /\ running
  /\ fresh
  /\ fresh' = FALSE
  /\ risk' = Roots
  /\ UNCHANGED <<data, running>>

\* The importer is done with the publication, or with undoing an import.
Settle ==
  /\ running
  /\ fresh' = FALSE
  /\ risk' \subseteq risk
  /\ data' \in [Roots -> Contents]
  /\ \A r \in Roots \ risk : data'[r] = data[r]
  /\ UNCHANGED running

UserEdit ==
  /\ ~running
  /\ \E r \in Roots, d \in OtherData \cup {None} : data' = [data EXCEPT ![r] = d]
  /\ UNCHANGED <<running, fresh, risk>>

Next == StartOrStop \/ Publish \/ Begin \/ FailLate \/ Settle \/ UserEdit

Spec == Init /\ [][Next]_<<data, running, fresh, risk>>
=============================================================================
