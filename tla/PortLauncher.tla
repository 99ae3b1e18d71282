----------------------------- MODULE PortLauncher -----------------------------
(***************************************************************************)
(* ports/Katamari.sh on top of the importer: the launcher runs the importer *)
(* only when one of two files is missing, and then starts the game on what  *)
(* is in the game directory.                                                *)
(***************************************************************************)
EXTENDS EapxCommit

CONSTANT TestedRoots  \* the roots that hold a file the launcher tests for

VARIABLE played       \* what the last started game found; Nothing before

lvars == <<vars, played>>

\* [ ! -f lib/armeabi/libkatamari.so ] || [ ! -f assets/fat.bin ]
DataMissing == \E r \in TestedRoots : live[r] = None

LauncherInit == Init /\ played = Nothing

Import == DataMissing /\ Start /\ UNCHANGED played

\* "$GAME" "$GAMEDIR", at once or after the importer succeeded.
Play ==
  /\ ~Running
  /\ ~DataMissing
  /\ played' = live
  /\ UNCHANGED vars

LauncherNext ==
  \/ Import
  \/ (RecoverStep \/ CheckStep \/ CommitStep \/ RollbackStep \/ Fault) /\ UNCHANGED played
  \/ Play

LauncherSpec == LauncherInit /\ [][LauncherNext]_lvars

\* "The first launch ... imports the APK data atomically": no game starts while
\* an import is half done.
GameSeesWholeImport == [][Play => ~Interrupted]_lvars
=============================================================================
