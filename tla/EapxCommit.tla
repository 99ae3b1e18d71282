------------------------------ MODULE EapxCommit ------------------------------
(***************************************************************************)
(* The transactional importer of tools/eapx.py: install_command with        *)
(* recover, the two fast exits, staging, commit and rollback, over any      *)
(* number of commit roots.                                                  *)
(*                                                                         *)
(* The file system is one content per root in each of three places: the     *)
(* game directory (live), <workspace>/stage and <workspace>/backup, beside  *)
(* the journal and the marker, which atomic_write_json replaces atomically. *)
(* A content stands for the digest digest_of computes of a whole tree.      *)
(*                                                                         *)
(* Every action is one file-system mutation of the program, so a crash (or  *)
(* an exception) may fall between any two of them.  remove_path is          *)
(* shutil.rmtree(ignore_errors=True): it may stop anywhere and the caller   *)
(* does not notice, so a removal leaves any part of what was there.         *)
(***************************************************************************)
EXTENDS Naturals

CONSTANTS
  NRoots,         \* number of commit roots, published in the order 1..NRoots
  Payloads,       \* contents a package may hold
  OtherData,      \* contents a player may put in place by hand
  Foreign,        \* those of them with a file that no package holds
  None,           \* no such path
  Torn,           \* a tree that was only partly removed or extracted
  TxIds,          \* transaction identifiers; uuid4 never repeats a live one
  SizeOf,         \* what the marker's fast path compares: sizes, no hashes
  Adoptable,      \* contents that pass the recipe's validate block
  IdenticalRoots  \* may a package root equal the one already installed?

Contents == Payloads \cup OtherData \cup {None, Torn}
Roots == 1..NRoots

ASSUME ConstantsAssumption ==
  /\ NRoots \in Nat \ {0}
  /\ Payloads \cap OtherData = {}
  /\ Foreign \subseteq OtherData
  /\ None \notin Payloads \cup OtherData \cup {Torn} \cup TxIds
  /\ Torn \notin Payloads \cup OtherData
  /\ SizeOf \in [Contents -> Nat]
  /\ Adoptable \subseteq Payloads \cup OtherData
  /\ IdenticalRoots \in BOOLEAN

VARIABLES
  live,     \* <game_dir>/<root>
  stage,    \* <workspace>/stage/<root>
  backup,   \* <workspace>/backup/<root>
  journal,  \* the intent journal; tx = None when the file does not exist
  marker,   \* the published marker; tx = None when the file does not exist
  pc,       \* where the importer is; "idle" when no process runs
  cursor,   \* the root commit or rollback is working on
  resume,   \* where the process goes when rollback returns
  late      \* history: did discard fail after the marker on disk was written?
            \* "unlinked" if it had removed the journal first, which the
            \* process, rolling back, still has in memory

files == <<live, stage, backup>>
vars == <<live, stage, backup, journal, marker, pc, cursor, resume, late>>

JStates == {"pending", "backing-up", "backed-up", "installing", "installed"}

NoJournal == [tx |-> None, state |-> [r \in Roots |-> "pending"],
              old |-> [r \in Roots |-> None], new |-> [r \in Roots |-> None]]
NoMarker == [tx |-> None, content |-> [r \in Roots |-> None]]
Nothing == [r \in Roots |-> None]

Running == pc \notin {"idle", "ready"}

\* The marker that is on disk certifies the transaction in the journal.
Published == journal.tx # None /\ marker.tx = journal.tx
Interrupted == journal.tx # None /\ marker.tx # journal.tx

-----------------------------------------------------------------------------
(* File-system helpers *)

\* What remove_path may leave of the trees t: each is gone, torn or untouched.
Leftovers(t) ==
  {s \in [Roots -> Contents] :
     \A r \in Roots : s[r] = None \/ (t[r] # None /\ s[r] \in {t[r], Torn})}

SetState(s) == journal' = [journal EXCEPT !.state[cursor] = s]

Goto(label) == pc' = label /\ UNCHANGED <<cursor, resume, late>>

\* The process ends, and with it what it alone remembers.
EndProcess ==
  /\ pc' = "idle"
  /\ journal' = IF late = "unlinked" THEN NoJournal ELSE journal
  /\ late' = IF late = "no" THEN "no" ELSE "yes"
  /\ UNCHANGED <<cursor, resume>>

\* Entering rollback: the last root first.
StartRollback(return) ==
  /\ pc' = "undo"
  /\ cursor' = NRoots
  /\ resume' = return

-----------------------------------------------------------------------------
Init ==
  /\ live \in [Roots -> OtherData \cup {None}]
  /\ stage = Nothing
  /\ backup = Nothing
  /\ journal = NoJournal
  /\ marker = NoMarker
  /\ pc = "idle"
  /\ cursor = 1
  /\ resume = "idle"
  /\ late = "no"

\* A process starts; the game-dir lock admits one at a time.
Start ==
  /\ ~Running
  /\ Goto("recover")
  /\ UNCHANGED <<files, journal, marker>>

-----------------------------------------------------------------------------
(* recover *)

RecoverNothing ==
  /\ pc = "recover"
  /\ journal.tx = None
  /\ Goto("check")
  /\ UNCHANGED <<files, journal, marker>>

\* A variant that takes any marker for the open transaction's own.
RecoverAnyMarker ==
  /\ pc = "recover"
  /\ journal.tx # None /\ marker.tx # None
  /\ Goto("wipe_backup")
  /\ UNCHANGED <<files, journal, marker>>

RecoverPublished ==
  /\ pc = "recover"
  /\ Published
  /\ Goto("wipe_backup")
  /\ UNCHANGED <<files, journal, marker>>

RecoverInterrupted ==
  /\ pc = "recover"
  /\ Interrupted
  /\ StartRollback("check")
  /\ UNCHANGED <<files, journal, marker, late>>

WipeBackup ==
  /\ pc = "wipe_backup"
  /\ backup' \in Leftovers(backup)
  /\ Goto("wipe_stage")
  /\ UNCHANGED <<live, stage, journal, marker>>

WipeStage ==
  /\ pc = "wipe_stage"
  /\ stage' \in Leftovers(stage)
  /\ Goto("wipe_journal")
  /\ UNCHANGED <<live, backup, journal, marker>>

WipeJournal ==
  /\ pc = "wipe_journal"
  /\ journal' = NoJournal
  /\ Goto("check")
  /\ UNCHANGED <<files, marker>>

-----------------------------------------------------------------------------
(* marker_fast_path and adopt_existing, the two ways out without a package *)

MarkerMatches ==
  /\ marker.tx # None
  /\ \A r \in Roots : /\ live[r] # None
                      /\ SizeOf[live[r]] = SizeOf[marker.content[r]]

FastPath ==
  /\ pc = "check"
  /\ MarkerMatches
  /\ Goto("ready")
  /\ UNCHANGED <<files, journal, marker>>

Adopt ==
  /\ pc = "check"
  /\ ~MarkerMatches
  /\ \A r \in Roots : live[r] \in Adoptable
  /\ \E t \in TxIds \ {marker.tx} : marker' = [tx |-> t, content |-> live]
  /\ pc' = "ready"
  /\ late' = "no"
  /\ UNCHANGED <<files, journal, cursor, resume>>

\* check_foreign_files: files nobody planned for would be destroyed.
ForeignInPlace == \E r \in Roots : live[r] \in Foreign

\* Nothing to adopt, or --no-adopt.
NeedPackage ==
  /\ pc = "check"
  /\ ~MarkerMatches
  /\ ~ForeignInPlace
  /\ Goto("staging")
  /\ UNCHANGED <<files, journal, marker>>

RefuseForeign ==
  /\ pc = "check"
  /\ ~MarkerMatches
  /\ ForeignInPlace
  /\ Goto("idle")
  /\ UNCHANGED <<files, journal, marker>>

\* prepare_stage, extract and the full validate_tree: whatever the stage held,
\* it now holds one validated package.
StagePayload ==
  /\ pc = "staging"
  /\ \E p \in Payloads : stage' = [r \in Roots |-> p]
  /\ Goto("prepare")
  /\ UNCHANGED <<live, backup, journal, marker>>

\* The process dies or fails half way through the extraction.
StageInterrupted ==
  /\ pc = "staging"
  /\ \E p \in Payloads :
       stage' \in [Roots -> {None, Torn, p}]
  /\ Goto("idle")
  /\ UNCHANGED <<live, backup, journal, marker>>

-----------------------------------------------------------------------------
(* commit *)

PrepareBackup ==
  /\ pc = "prepare"
  /\ backup' \in Leftovers(backup)
  /\ Goto("begin")
  /\ UNCHANGED <<live, stage, journal, marker>>

\* Transaction.begin records what is there and what is coming.
Begin ==
  /\ pc = "begin"
  /\ IdenticalRoots \/ \A r \in Roots : live[r] # stage[r]
  /\ \E t \in TxIds \ {marker.tx} :
       journal' = [tx |-> t, state |-> [r \in Roots |-> "pending"],
                   old |-> live, new |-> stage]
  /\ pc' = "root"
  /\ cursor' = 1
  /\ UNCHANGED <<files, marker, resume, late>>

\* A variant that records the move only once it is done.
SaveUnannounced ==
  /\ pc = "root"
  /\ journal.old[cursor] # None
  /\ Goto("save")
  /\ UNCHANGED <<files, journal, marker>>

SaveIntent ==
  /\ pc = "root"
  /\ journal.old[cursor] # None
  /\ SetState("backing-up")
  /\ Goto("save")
  /\ UNCHANGED <<files, marker>>

Save ==
  /\ pc = "save"
  /\ backup[cursor] = None
  /\ backup' = [backup EXCEPT ![cursor] = live[cursor]]
  /\ live' = [live EXCEPT ![cursor] = None]
  /\ Goto("saved")
  /\ UNCHANGED <<stage, journal, marker>>

\* os.rename of a directory raises on a tree the cleanup of backup left behind.
SaveBlocked ==
  /\ pc = "save"
  /\ backup[cursor] # None
  /\ StartRollback("idle")
  /\ UNCHANGED <<files, journal, marker, late>>

SaveDone ==
  /\ pc = "saved"
  /\ SetState("backed-up")
  /\ Goto("intent")
  /\ UNCHANGED <<files, marker>>

InstallIntent ==
  /\ \/ pc = "root" /\ journal.old[cursor] = None
     \/ pc = "intent"
  /\ SetState("installing")
  /\ Goto("install")
  /\ UNCHANGED <<files, marker>>

Install ==
  /\ pc = "install"
  /\ live[cursor] = None
  /\ live' = [live EXCEPT ![cursor] = stage[cursor]]
  /\ stage' = [stage EXCEPT ![cursor] = None]
  /\ Goto("installed")
  /\ UNCHANGED <<backup, journal, marker>>

\* A variant that runs past the last root.
InstallDoneTooFar ==
  /\ pc = "installed"
  /\ SetState("installed")
  /\ cursor' = cursor + 1
  /\ pc' = IF cursor < NRoots THEN "root" ELSE "verify"
  /\ UNCHANGED <<files, marker, resume, late>>

InstallDone ==
  /\ pc = "installed"
  /\ SetState("installed")
  /\ IF cursor < NRoots
     THEN pc' = "root" /\ cursor' = cursor + 1
     ELSE pc' = "verify" /\ UNCHANGED cursor
  /\ UNCHANGED <<files, marker, resume, late>>

\* The cheap validate_tree (presence and size) and sync_parents.
Verify ==
  /\ pc = "verify"
  /\ \A r \in Roots : /\ live[r] # None
                      /\ SizeOf[live[r]] = SizeOf[journal.new[r]]
  /\ Goto("publish")
  /\ UNCHANGED <<files, journal, marker>>

WriteMarker ==
  /\ pc = "publish"
  /\ marker' = [tx |-> journal.tx, content |-> journal.new]
  /\ pc' = "discard"
  /\ late' = "no"
  /\ UNCHANGED <<files, journal, cursor, resume>>

Discard ==
  /\ pc = "discard"
  /\ journal' = NoJournal
  /\ Goto("drop_backup")
  /\ UNCHANGED <<files, marker>>

DropBackup ==
  /\ pc = "drop_backup"
  /\ backup' \in Leftovers(backup)
  /\ Goto("drop_stage")
  /\ UNCHANGED <<live, stage, journal, marker>>

DropStage ==
  /\ pc = "drop_stage"
  /\ stage' \in Leftovers(stage)
  /\ Goto("ready")
  /\ UNCHANGED <<live, backup, journal, marker>>

-----------------------------------------------------------------------------
(* rollback: decided by content, from the last root to the first *)

\* A variant that deletes the payload instead of keeping it for the next run.
UndoPayloadDeleted ==
  /\ pc = "undo"
  /\ live[cursor] = journal.new[cursor]
  /\ stage[cursor] # journal.new[cursor]
  /\ live' = [live EXCEPT ![cursor] = None]
  /\ Goto("restore_gone")
  /\ UNCHANGED <<stage, backup, journal, marker>>

\* The new payload is in place: put it back in the stage, which Install vacated,
\* so the remove_path(staged) before the rename has nothing to remove.
UndoPayload ==
  /\ pc = "undo"
  /\ live[cursor] = journal.new[cursor]
  /\ stage[cursor] # journal.new[cursor]
  /\ stage' = [stage EXCEPT ![cursor] = live[cursor]]
  /\ live' = [live EXCEPT ![cursor] = None]
  /\ Goto("restore_gone")
  /\ UNCHANGED <<backup, journal, marker>>

\* The stage still holds the payload: the live copy counts as a duplicate.
\* The program goes on as if it were gone, even when remove_path left a part.
UndoDuplicate ==
  /\ pc = "undo"
  /\ live[cursor] = journal.new[cursor]
  /\ stage[cursor] = journal.new[cursor]
  /\ \E c \in {None, Torn} : live' = [live EXCEPT ![cursor] = c]
  /\ Goto("restore_gone")
  /\ UNCHANGED <<stage, backup, journal, marker>>

UndoNothing ==
  /\ pc = "undo"
  /\ live[cursor] # journal.new[cursor]
  /\ Goto("restore")
  /\ UNCHANGED <<files, journal, marker>>

\* `current` is None: rollback has just removed the root, or found no root.
CurrentIsNone ==
  \/ pc = "restore_gone"
  \/ pc = "restore" /\ live[cursor] = None

Saved == journal.old[cursor] # None /\ backup[cursor] = journal.old[cursor]

Restore ==
  /\ CurrentIsNone
  /\ Saved
  /\ live[cursor] = None          \* os.rename onto a tree would raise
  /\ live' = [live EXCEPT ![cursor] = backup[cursor]]
  /\ backup' = [backup EXCEPT ![cursor] = None]
  /\ Goto("restored")
  /\ UNCHANGED <<stage, journal, marker>>

NothingToRestore ==
  /\ CurrentIsNone
  /\ ~Saved
  /\ Goto("restored")
  /\ UNCHANGED <<files, journal, marker>>

RestoreUntouched ==
  /\ pc = "restore"
  /\ live[cursor] # None
  /\ live[cursor] = journal.old[cursor]
  /\ Goto("restored")
  /\ UNCHANGED <<files, journal, marker>>

\* A variant that refuses the original itself.
RefuseUntouched ==
  /\ pc = "restore"
  /\ live[cursor] # None
  /\ EndProcess
  /\ UNCHANGED <<files, marker>>

\* "modified by something else during the transaction; refusing to touch it"
Refuse ==
  /\ pc = "restore"
  /\ live[cursor] \notin {None, journal.old[cursor]}
  /\ EndProcess
  /\ UNCHANGED <<files, marker>>

\* set_state writes the whole journal, one that was unlinked as well.
JournalBack == late' = IF late = "no" THEN "no" ELSE "yes"

\* A variant that stops after the first root it has restored.
RestoreDoneEarly ==
  /\ pc = "restored"
  /\ SetState("pending")
  /\ JournalBack
  /\ pc' = "undone"
  /\ UNCHANGED <<files, marker, cursor, resume>>

RestoreDone ==
  /\ pc = "restored"
  /\ SetState("pending")
  /\ JournalBack
  /\ IF cursor > 1
     THEN pc' = "undo" /\ cursor' = cursor - 1
     ELSE pc' = "undone" /\ UNCHANGED cursor
  /\ UNCHANGED <<files, marker, resume>>

RollbackDiscard ==
  /\ pc = "undone"
  /\ journal' = NoJournal
  /\ Goto("undone_backup")
  /\ UNCHANGED <<files, marker>>

RollbackCleanup ==
  /\ pc = "undone_backup"
  /\ backup' \in Leftovers(backup)
  /\ pc' = resume
  /\ UNCHANGED <<live, stage, journal, marker, cursor, resume, late>>

-----------------------------------------------------------------------------
(* Failures and the player *)

TryBlock == {"root", "save", "saved", "intent", "install", "installed",
             "verify", "publish", "discard"}

\* `except BaseException: rollback; raise`.  In discard the journal file may be
\* gone by then, while transaction.data stays in memory.
Fail ==
  /\ pc \in TryBlock
  /\ StartRollback("idle")
  /\ late' \in IF pc = "discard" THEN {"yes", "unlinked"} ELSE {late}
  /\ UNCHANGED <<files, journal, marker>>

\* The process is killed, or an exception nobody handles ends it.
Crash ==
  /\ Running
  /\ EndProcess
  /\ UNCHANGED <<files, marker>>

\* The player edits or deletes a root while no importer runs, except the copy
\* that an interrupted transaction has not moved yet.
UserEdit ==
  /\ ~Running
  /\ \E r \in Roots, d \in OtherData \cup {None} :
       /\ journal.tx # None => live[r] # journal.old[r]
       /\ live' = [live EXCEPT ![r] = d]
  /\ UNCHANGED <<stage, backup, journal, marker, pc, cursor, resume, late>>

-----------------------------------------------------------------------------
RecoverStep == RecoverNothing \/ RecoverPublished \/ RecoverInterrupted
                 \/ WipeBackup \/ WipeStage \/ WipeJournal
CheckStep == FastPath \/ Adopt \/ NeedPackage \/ RefuseForeign \/ StagePayload
CommitStep == PrepareBackup \/ Begin \/ SaveIntent \/ Save \/ SaveBlocked
                \/ SaveDone
                \/ InstallIntent \/ Install \/ InstallDone \/ Verify
                \/ WriteMarker \/ Discard \/ DropBackup \/ DropStage
RollbackStep == UndoPayload \/ UndoDuplicate \/ UndoNothing \/ Restore
                  \/ NothingToRestore \/ RestoreUntouched \/ Refuse \/ RestoreDone
                  \/ RollbackDiscard \/ RollbackCleanup

Work == RecoverStep \/ CheckStep \/ CommitStep \/ RollbackStep
Step == Start \/ Work
Fault == StageInterrupted \/ Fail \/ Crash

\* A removal that leaves something behind.
PartialRemoval ==
  \/ (WipeBackup \/ PrepareBackup \/ DropBackup \/ RollbackCleanup) /\ backup' # Nothing
  \/ (WipeStage \/ DropStage) /\ stage' # Nothing
  \/ UndoDuplicate /\ live'[cursor] = Torn

Next == Step \/ Fault \/ UserEdit

Spec == Init /\ [][Next]_vars

\* A process that is not killed goes on.  Nobody is bound to start another one.
FairSpec == Spec /\ WF_vars(Work)

-----------------------------------------------------------------------------
(* Properties *)

TypeOK ==
  /\ live \in [Roots -> Contents]
  /\ stage \in [Roots -> Contents]
  /\ backup \in [Roots -> Contents]
  /\ journal \in [tx : TxIds \cup {None}, state : [Roots -> JStates],
                  old : [Roots -> Contents], new : [Roots -> Contents]]
  /\ marker \in [tx : TxIds \cup {None}, content : [Roots -> Contents]]
  /\ pc \in {"idle", "recover", "wipe_backup", "wipe_stage", "wipe_journal",
              "check", "staging", "prepare", "begin", "root", "save", "saved",
              "intent", "install", "installed", "verify", "publish", "discard",
              "drop_backup", "drop_stage", "ready", "undo", "restore",
              "restore_gone", "restored", "undone", "undone_backup"}
  /\ cursor \in Roots
  /\ resume \in {"idle", "check"}
  /\ late \in {"no", "yes", "unlinked"}

\* A root the transaction really changes.
Changes(r) == journal.old[r] # journal.new[r]

\* As long as the journal names an unpublished transaction, the original of
\* every root it changes is in the game directory or in the backup.
OriginalKept ==
  Interrupted =>
    \A r \in Roots : Changes(r) =>
      journal.old[r] \in {None, live[r], backup[r]}

\* "every state is written BEFORE the operation it describes": a root still
\* pending is as it was found, and new data is in place only if the journal
\* says it may be.
JournalRunsAhead ==
  Interrupted =>
    \A r \in Roots : Changes(r) =>
      /\ journal.state[r] = "pending" => live[r] = journal.old[r]
      /\ live[r] = journal.new[r] => journal.state[r] \in {"installing", "installed"}

\* When no transaction is open, every payload root in the game directory is the
\* one the marker certifies, unless the discard after that marker failed: then a
\* published transaction was rolled back, wholly or in part, under its marker.
MarkerHonest ==
  journal.tx = None /\ marker.tx # None /\ late = "no" =>
    \A r \in Roots : live[r] \in Payloads => live[r] = marker.content[r]

\* "interrupting a rollback and re-running it cannot destroy what the previous
\* attempt already restored": when rollback is over, every root is as it was
\* found.  Fails for a root identical to the package's.
RollbackRestores == pc = "undone" => live = journal.old

\* rollback "puts it back in the stage so the work is not lost": no step of the
\* importer loses a staged package before it is published.
StagedWorkPreserved ==
  [][Interrupted /\ Interrupted' /\ ~UserEdit =>
       \A r \in Roots : journal.new[r] \in {live[r], stage[r]} =>
                         journal.new[r] \in {live'[r], stage'[r]}]_vars

-----------------------------------------------------------------------------
(* The inductive strengthening of the properties above.                      *)

CommitLoop == {"root", "save", "saved", "intent", "install", "installed"}
Undoing == {"undo", "restore", "restore_gone", "restored", "undone"}
Outside == {"check", "staging", "prepare", "begin", "drop_backup",
            "drop_stage", "undone_backup"}

\* Which of the three journal situations each part of the program runs in.  Only
\* after a failed discard is what rollback undoes a published transaction.
PhaseOK ==
  /\ pc \in CommitLoop \cup {"verify", "publish"} => Interrupted
  /\ pc \in Undoing => Interrupted \/ (Published /\ late # "no")
  /\ late = "unlinked" => Published /\ pc \in Undoing \ {"undone"}
  /\ pc \in {"discard", "wipe_backup", "wipe_stage", "wipe_journal"} => Published
  /\ pc \in Outside => journal.tx = None

Package(tree) == \E p \in Payloads : tree = [r \in Roots |-> p]

\* Only whole packages are ever committed.
OnePackage ==
  /\ pc \in {"prepare", "begin"} => Package(stage)
  /\ journal.tx # None => Package(journal.new)

\* The payload of a root that changes is in one place, never in two.
PayloadOnce ==
  Interrupted =>
    \A r \in Roots : Changes(r) => ~(live[r] = journal.new[r] /\ stage[r] = journal.new[r])

\* How far commit has come: roots before the cursor are installed, roots after
\* it are as they were found.
CommitProgress ==
  \A r \in Roots :
    /\ pc \in CommitLoop /\ r > cursor => live[r] = journal.old[r] /\ stage[r] = journal.new[r]
    /\ pc \in CommitLoop /\ r < cursor => live[r] = journal.new[r]
    /\ pc \in {"root", "save"} /\ r = cursor => live[r] = journal.old[r]
    /\ pc \in CommitLoop \ {"installed"} /\ r = cursor => stage[r] = journal.new[r]
    /\ pc \in {"saved", "intent", "install"} /\ r = cursor => live[r] = None
    /\ pc = "installed" /\ r = cursor => live[r] = journal.new[r]
    /\ pc \in {"verify", "publish", "discard"} => live[r] = journal.new[r]
    /\ pc \in {"save", "saved", "intent"} /\ r = cursor
         => journal.state[r] \in {"backing-up", "backed-up"}
    /\ pc \in {"install", "installed"} /\ r = cursor => journal.state[r] = "installing"

\* How far the rollback of an unpublished transaction has come: roots after the
\* cursor are as they were found.
RollbackProgress ==
  Interrupted =>
    \A r \in Roots : Changes(r) =>
      /\ pc \in Undoing /\ r > cursor => live[r] = journal.old[r]
      /\ pc \in {"restored", "undone"} /\ r = cursor => live[r] = journal.old[r]
      /\ pc = "undone" => live[r] = journal.old[r]
      /\ pc = "restore_gone" /\ r = cursor => live[r] = None
      /\ pc = "restore" /\ r = cursor => live[r] # journal.new[r]

Inv ==
  /\ TypeOK
  /\ PhaseOK
  /\ OriginalKept
  /\ OnePackage
  /\ PayloadOnce
  /\ CommitProgress
  /\ RollbackProgress
  /\ JournalRunsAhead

-----------------------------------------------------------------------------
\* What the player has: the data an unpublished transaction will put back.
Installed == [r \in Roots |-> IF Interrupted THEN journal.old[r] ELSE live[r]]

\* The roots that the importer may lose: those of a published transaction it is
\* rolling back, and those whose original the journal cannot tell from the payload.
AtRisk ==
  {r \in Roots : \/ pc \in Undoing /\ ~Interrupted
                 \/ Interrupted /\ ~Changes(r)}

\* The importer implements AtomicInstall: whatever fails and wherever it is killed,
\* the installed data changes in one step for all roots or not at all, but for the
\* roots at risk.
Promise == INSTANCE AtomicInstall
             WITH data <- Installed, running <- Running, fresh <- pc = "discard", risk <- AtRisk
ImportIsAtomic == Promise!Spec

\* "imports the APK data atomically" (ports/katamari/README.md:24-25): where nobody
\* edits the directory, an importer at rest with nothing left to recover never
\* leaves part of a package in place.  The discard that fails after the marker is
\* on disk breaks it.
AtRestWhole ==
  pc = "idle" /\ journal.tx = None =>
    \A r, s \in Roots : live[r] \in Payloads => live[s] = live[r]

\* The player replaced a root of an open transaction by something else.
Tampered ==
  Interrupted /\ \E r \in Roots : live[r] \in OtherData \ {journal.old[r]}

\* Rollback's own removal of a root identical to the package's gave up half way.
OwnLeftover == Interrupted /\ \E r \in Roots : ~Changes(r) /\ live[r] = Torn

\* Once nothing fails from outside any more, an importer that is started again
\* and again gets the data ready, unless it refuses to touch what the player or
\* its own removal left in the way.  The program's own refusals and blocked
\* renames are among its steps: they may not go on for ever.
ImportCompletes ==
  (<>[][Step /\ ~PartialRemoval]_vars /\ []<>(pc # "idle")) =>
    []<>(pc = "ready") \/ <>[]Tampered \/ <>[]ForeignInPlace \/ <>[]OwnLeftover
=============================================================================
