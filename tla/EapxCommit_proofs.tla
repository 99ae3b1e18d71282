-------------------------- MODULE EapxCommit_proofs --------------------------
(***************************************************************************)
(* Proofs about EapxCommit for every number of roots and every package.     *)
(*                                                                         *)
(* Inv (in EapxCommit) is inductive: the journal covers every change, also *)
(* across kills.  It gives the refinement of AtomicInstall and, with no     *)
(* root identical to the package's, an exact rollback.  LiveKnown,          *)
(* StillStaged and Certified carry MarkerHonest and StagedWorkPreserved.     *)
(***************************************************************************)
EXTENDS EapxCommit, TLAPS

\* The facts about the constants the proofs use.
LEMMA ConstantFacts ==
  /\ NRoots \in Nat /\ NRoots >= 1
  /\ None \notin Payloads /\ None \notin OtherData /\ None \notin TxIds
  /\ Torn \notin Payloads /\ Torn # None
  /\ \A d \in OtherData : d \notin Payloads
BY ConstantsAssumption DEF ConstantsAssumption

\* What the commands leave alone, to be cited without opening every action.
LEMMA LeftoversType ==
  ASSUME NEW t, NEW s \in Leftovers(t)
  PROVE  s \in [Roots -> Contents]
BY DEF Leftovers

\* The journal and the marker when there is none are well typed.
LEMMA NothingType ==
  /\ NoJournal \in [tx : TxIds \cup {None}, state : [Roots -> JStates],
                    old : [Roots -> Contents], new : [Roots -> Contents]]
  /\ NoMarker \in [tx : TxIds \cup {None}, content : [Roots -> Contents]]
  /\ Nothing \in [Roots -> Contents]
BY DEF NoJournal, NoMarker, Nothing, JStates, Contents

LEMMA NoJournalFacts == NoJournal.tx = None
BY DEF NoJournal

LEMMA InitType == Init => TypeOK
<1> SUFFICES ASSUME Init PROVE TypeOK
  OBVIOUS
<1>1. live \in [Roots -> Contents]
  BY DEF Init, Contents
<1>2. 1 \in Roots
  BY ConstantFacts DEF Roots
<1> QED
  BY <1>1, <1>2, NothingType DEF Init, TypeOK

\* Every step of the importer, every fault and every edit keeps the state well
\* typed.
LEMMA NextType == TypeOK /\ [Next]_vars => TypeOK'
<1> SUFFICES ASSUME TypeOK, [Next]_vars PROVE TypeOK'
  OBVIOUS
<1> USE NoJournalFacts DEF TypeOK, files, Goto, EndProcess
<1>1. CASE Start
  BY <1>1 DEF Start
<1>2. CASE RecoverStep
  <2>1. CASE RecoverNothing \/ RecoverPublished
    BY <2>1 DEF RecoverNothing, RecoverPublished
  <2>2. CASE RecoverInterrupted
    BY <2>2, ConstantFacts DEF RecoverInterrupted, StartRollback, Roots
  <2>3. CASE WipeBackup \/ WipeStage
    BY <2>3, LeftoversType DEF WipeBackup, WipeStage
  <2>4. CASE WipeJournal
    BY <2>4, NothingType DEF WipeJournal
  <2> QED
    BY <1>2, <2>1, <2>2, <2>3, <2>4 DEF RecoverStep
<1>3. CASE CheckStep
  <2>1. CASE FastPath
    BY <1>3, <2>1 DEF FastPath
  <2>2. CASE Adopt
    BY <2>2 DEF Adopt
  <2>3. CASE NeedPackage \/ RefuseForeign
    BY <2>3 DEF NeedPackage, RefuseForeign
  <2>4. CASE StagePayload
    BY <2>4 DEF StagePayload, Contents
  <2> QED
    BY <1>3, <2>1, <2>2, <2>3, <2>4 DEF CheckStep
<1>4. CASE CommitStep
  <2>1. CASE PrepareBackup \/ DropBackup \/ DropStage
    BY <2>1, LeftoversType DEF PrepareBackup, DropBackup, DropStage
  <2>2. CASE Begin
    BY <2>2, ConstantFacts DEF Begin, JStates, Roots
  <2>3. CASE SaveIntent \/ SaveDone \/ InstallIntent
    BY <2>3 DEF SaveIntent, SaveDone, InstallIntent, SetState, JStates
  <2>4. CASE Save \/ Install
    BY <2>4 DEF Save, Install, Contents
  <2>5. CASE SaveBlocked
    BY <2>5, ConstantFacts DEF SaveBlocked, StartRollback, Roots
  <2>6. CASE InstallDone
    <3>1. cursor' \in Roots
      BY <2>6, ConstantFacts DEF InstallDone, Roots
    <3>2. journal' \in [tx : TxIds \cup {None}, state : [Roots -> JStates],
                       old : [Roots -> Contents], new : [Roots -> Contents]]
      BY <2>6 DEF InstallDone, SetState, JStates
    <3> QED
      BY <2>6, <3>1, <3>2 DEF InstallDone
  <2>7. CASE Verify \/ WriteMarker
    BY <2>7 DEF Verify, WriteMarker
  <2>8. CASE Discard
    BY <2>8, NothingType DEF Discard
  <2> QED
    BY <1>4, <2>1, <2>2, <2>3, <2>4, <2>5, <2>6, <2>7, <2>8 DEF CommitStep
<1>5. CASE RollbackStep
  <2>1. CASE UndoPayload \/ UndoDuplicate \/ UndoNothing
    BY <2>1 DEF UndoPayload, UndoDuplicate, UndoNothing, Contents
  <2>2. CASE Restore \/ NothingToRestore \/ RestoreUntouched \/ Refuse
    BY <2>2, NothingType DEF Restore, NothingToRestore, RestoreUntouched, Refuse, Contents
  <2>3. CASE RestoreDone
    <3>1. cursor' \in Roots
      BY <2>3, ConstantFacts DEF RestoreDone, Roots
    <3>2. journal' \in [tx : TxIds \cup {None}, state : [Roots -> JStates],
                       old : [Roots -> Contents], new : [Roots -> Contents]]
      BY <2>3 DEF RestoreDone, SetState, JStates
    <3> QED
      BY <2>3, <3>1, <3>2 DEF RestoreDone, JournalBack
  <2>4. CASE RollbackDiscard
    BY <2>4, NothingType DEF RollbackDiscard
  <2>5. CASE RollbackCleanup
    BY <2>5, LeftoversType DEF RollbackCleanup
  <2> QED
    BY <1>5, <2>1, <2>2, <2>3, <2>4, <2>5 DEF RollbackStep
<1>6. CASE Fault
  <2>1. CASE StageInterrupted
    BY <2>1 DEF StageInterrupted, Contents
  <2>2. CASE Fail
    BY <2>2, ConstantFacts DEF Fail, StartRollback, Roots
  <2>3. CASE Crash
    BY <2>3, NothingType DEF Crash
  <2> QED
    BY <1>6, <2>1, <2>2, <2>3 DEF Fault
<1>7. CASE UserEdit
  BY <1>7 DEF UserEdit, Contents
<1>8. CASE UNCHANGED vars
  BY <1>8 DEF vars
<1> QED
  BY <1>1, <1>2, <1>3, <1>4, <1>5, <1>6, <1>7, <1>8 DEF Next, Step, Work

\* Type correctness: whatever the package, the roots and the faults.
THEOREM TypeCorrect == Spec => []TypeOK
BY InitType, NextType, PTL DEF Spec
-----------------------------------------------------------------------------
(* The inductive invariant, part by part *)

\* set_state changes one root's state and nothing else of the journal.
LEMMA SetStateFacts ==
  ASSUME TypeOK, NEW s \in JStates, SetState(s)
  PROVE  /\ journal'.tx = journal.tx
         /\ journal'.old = journal.old
         /\ journal'.new = journal.new
         /\ journal'.state[cursor] = s
         /\ \A r \in Roots \ {cursor} : journal'.state[r] = journal.state[r]
BY DEF TypeOK, SetState

\* Each part of the program runs in the journal situation PhaseOK gives it.
LEMMA NextPhase ==
  ASSUME TypeOK, PhaseOK, [Next]_vars
  PROVE  PhaseOK'
<1> USE NoJournalFacts DEF PhaseOK, Interrupted, Published, CommitLoop, Undoing, Outside, Goto, EndProcess
<1>1. CASE Start \/ RecoverStep
  BY <1>1
  DEF Start, Running, RecoverStep, RecoverNothing, RecoverPublished, RecoverInterrupted,
      WipeBackup, WipeStage, WipeJournal, StartRollback
<1>7. CASE CheckStep
  BY <1>7, ConstantFacts
  DEF CheckStep, FastPath, Adopt, NeedPackage, RefuseForeign, StagePayload
<1>2. CASE CommitStep
  <2>1. CASE PrepareBackup \/ Save \/ SaveBlocked \/ Install \/ Verify \/ DropBackup \/ DropStage
    BY <2>1 DEF PrepareBackup, Save, SaveBlocked, Install, Verify, DropBackup, DropStage,
                StartRollback
  <2>2. CASE Begin
    BY <2>2, ConstantFacts DEF Begin
  <2>3. CASE SaveIntent \/ SaveDone \/ InstallIntent \/ InstallDone
    BY <2>3, SetStateFacts DEF SaveIntent, SaveDone, InstallIntent, InstallDone, JStates
  <2>4. CASE WriteMarker
    BY <2>4 DEF WriteMarker
  <2>5. CASE Discard
    BY <2>5, NoJournalFacts DEF Discard
  <2> QED
    BY <1>2, <2>1, <2>2, <2>3, <2>4, <2>5 DEF CommitStep
<1>3. CASE RollbackStep
  <2>1. CASE UndoPayload \/ UndoDuplicate \/ UndoNothing \/ Restore \/ NothingToRestore
               \/ RestoreUntouched \/ Refuse
    BY <2>1 DEF UndoPayload, UndoDuplicate, UndoNothing, Restore, NothingToRestore,
                CurrentIsNone, RestoreUntouched, Refuse
  <2>2. CASE RestoreDone
    BY <2>2, SetStateFacts DEF RestoreDone, JournalBack, JStates
  <2>3. CASE RollbackDiscard \/ RollbackCleanup
    BY <2>3 DEF RollbackDiscard, RollbackCleanup, TypeOK
  <2> QED
    BY <1>3, <2>1, <2>2, <2>3 DEF RollbackStep
<1>4. CASE Fault
  BY <1>4 DEF Fault, StageInterrupted, Fail, Crash, TryBlock, StartRollback
<1>5. CASE UserEdit \/ UNCHANGED vars
  BY <1>5 DEF UserEdit, Running, vars
<1> QED
  BY <1>1, <1>2, <1>3, <1>4, <1>5, <1>7 DEF Next, Step, Work

\* No step loses the original of a root an open transaction changes.
LEMMA NextOriginal ==
  ASSUME TypeOK, PhaseOK, OriginalKept, [Next]_vars
  PROVE  OriginalKept'
<1> SUFFICES ASSUME Interrupted', NEW r \in Roots, Changes(r)'
             PROVE  (journal.old[r])' \in {None, live[r]', backup[r]'}
  BY DEF OriginalKept
<1> USE NoJournalFacts DEF Interrupted, Changes, Goto, EndProcess, files
<1>1. CASE Start \/ RecoverStep
  BY <1>1, NoJournalFacts
  DEF OriginalKept, PhaseOK, Published, Start, RecoverStep, RecoverNothing,
      RecoverPublished, RecoverInterrupted, WipeBackup, WipeStage, WipeJournal,
      StartRollback
<1>2. CASE CheckStep
  BY <1>2 DEF PhaseOK, Outside, CheckStep, FastPath, Adopt, NeedPackage, RefuseForeign, StagePayload
<1>3. CASE CommitStep
  <2>1. CASE PrepareBackup \/ DropBackup \/ DropStage
    BY <2>1 DEF PhaseOK, Outside, PrepareBackup, DropBackup, DropStage
  <2>2. CASE Begin
    BY <2>2 DEF Begin
  <2>3. CASE SaveIntent \/ SaveDone \/ InstallIntent \/ InstallDone
    BY <2>3, SetStateFacts
    DEF OriginalKept, SaveIntent, SaveDone, InstallIntent, InstallDone, JStates
  <2>4. CASE Save
    BY <2>4 DEF OriginalKept, Save, TypeOK
  <2>5. CASE Install
    BY <2>5 DEF OriginalKept, Install, TypeOK
  <2>6. CASE SaveBlocked \/ Verify
    BY <2>6 DEF OriginalKept, SaveBlocked, Verify, StartRollback
  <2>7. CASE WriteMarker \/ Discard
    BY <2>7, NoJournalFacts DEF OriginalKept, WriteMarker, Discard
  <2> QED
    BY <1>3, <2>1, <2>2, <2>3, <2>4, <2>5, <2>6, <2>7 DEF CommitStep
<1>4. CASE RollbackStep
  <2>1. CASE UndoPayload \/ UndoDuplicate
    BY <2>1 DEF OriginalKept, UndoPayload, UndoDuplicate, TypeOK
  <2>2. CASE Restore
    BY <2>2 DEF OriginalKept, Restore, Saved, TypeOK
  <2>3. CASE UndoNothing \/ NothingToRestore \/ RestoreUntouched \/ Refuse
    BY <2>3 DEF OriginalKept, UndoNothing, NothingToRestore, RestoreUntouched, Refuse
  <2>4. CASE RestoreDone
    BY <2>4, SetStateFacts DEF OriginalKept, RestoreDone, JStates
  <2>5. CASE RollbackDiscard \/ RollbackCleanup
    BY <2>5, NoJournalFacts DEF PhaseOK, Outside, RollbackDiscard, RollbackCleanup
  <2> QED
    BY <1>4, <2>1, <2>2, <2>3, <2>4, <2>5 DEF RollbackStep
<1>5. CASE Fault
  BY <1>5 DEF OriginalKept, PhaseOK, Outside, Fault, StageInterrupted, Fail, Crash,
              StartRollback
<1>6. CASE UserEdit
  BY <1>6 DEF OriginalKept, UserEdit, TypeOK
<1>7. CASE UNCHANGED vars
  BY <1>7 DEF OriginalKept, vars
<1> QED
  BY <1>1, <1>2, <1>3, <1>4, <1>5, <1>6, <1>7 DEF Next, Step, Work

LEMMA InitOriginal == Init => PhaseOK /\ OriginalKept
BY DEF Init, PhaseOK, OriginalKept, Interrupted, Published, NoJournal, CommitLoop,
       Undoing, Outside

\* As long as a transaction is open, the original of every root it changes is
\* in the game directory or in the backup: recover can always find it.
THEOREM OriginalsSurvive == Spec => []OriginalKept
<1>1. TypeOK /\ PhaseOK /\ OriginalKept /\ [Next]_vars
        => (TypeOK /\ PhaseOK /\ OriginalKept)'
  BY NextType, NextPhase, NextOriginal
<1> QED
  BY <1>1, InitType, InitOriginal, PTL DEF Spec
-----------------------------------------------------------------------------
(* What is committed is one package, and each of its roots is in one place *)

LEMMA NextPackage ==
  ASSUME TypeOK, OnePackage, [Next]_vars
  PROVE  OnePackage'
<1> USE NoJournalFacts DEF OnePackage, Package, Goto, EndProcess, files
<1>1. CASE Start \/ RecoverStep \/ CheckStep
  BY <1>1, NoJournalFacts
  DEF Start, RecoverStep, RecoverNothing, RecoverPublished, RecoverInterrupted,
      WipeBackup, WipeStage, WipeJournal, StartRollback, CheckStep, FastPath, Adopt,
      NeedPackage, RefuseForeign, StagePayload
<1>2. CASE CommitStep
  <2>1. CASE SaveIntent \/ SaveDone \/ InstallIntent \/ InstallDone
    BY <2>1, SetStateFacts DEF SaveIntent, SaveDone, InstallIntent, InstallDone, JStates
  <2>2. CASE PrepareBackup
    BY <2>2 DEF PrepareBackup
  <2>4. CASE Begin
    <3>1. PICK p \in Payloads : stage = [r \in Roots |-> p]
      BY <2>4 DEF Begin
    <3>2. journal'.new = [r \in Roots |-> p] /\ pc' = "root"
      BY <2>4, <3>1 DEF Begin
    <3> QED
      BY <3>2
  <2>3. CASE Save \/ SaveBlocked \/ Install \/ Verify \/ WriteMarker \/ Discard
               \/ DropBackup \/ DropStage
    BY <2>3, NoJournalFacts DEF Save, SaveBlocked, Install, Verify, WriteMarker, Discard,
                DropBackup, DropStage, StartRollback
  <2> QED
    BY <1>2, <2>1, <2>2, <2>3, <2>4 DEF CommitStep
<1>3. CASE RollbackStep
  <2>1. CASE RestoreDone
    BY <2>1, SetStateFacts DEF RestoreDone, JStates
  <2>2. CASE UndoPayload \/ UndoDuplicate \/ UndoNothing \/ Restore \/ NothingToRestore
               \/ RestoreUntouched \/ Refuse \/ RollbackDiscard \/ RollbackCleanup
    BY <2>2, NoJournalFacts
    DEF UndoPayload, UndoDuplicate, UndoNothing, Restore, NothingToRestore,
        RestoreUntouched, Refuse, RollbackDiscard, RollbackCleanup, TypeOK
  <2> QED
    BY <1>3, <2>1, <2>2 DEF RollbackStep
<1>4. CASE Fault \/ UserEdit \/ UNCHANGED vars
  BY <1>4 DEF Fault, StageInterrupted, Fail, Crash, StartRollback, UserEdit, vars
<1> QED
  BY <1>1, <1>2, <1>3, <1>4 DEF Next, Step, Work

\* The payload of an open transaction is nothing a removal or a player leaves.
LEMMA NewIsPayload ==
  ASSUME OnePackage, journal.tx # None, NEW r \in Roots
  PROVE  /\ journal.new[r] \in Payloads
         /\ journal.new[r] \notin OtherData \cup {None, Torn}
BY ConstantFacts DEF OnePackage, Package

LEMMA NextOnce ==
  ASSUME TypeOK, PhaseOK, OnePackage, PayloadOnce, [Next]_vars
  PROVE  PayloadOnce'
<1> SUFFICES ASSUME Interrupted', NEW r \in Roots, Changes(r)',
                    live'[r] = journal'.new[r], stage'[r] = journal'.new[r]
             PROVE  FALSE
  BY DEF PayloadOnce
<1>a. Interrupted => journal.new[r] \in Payloads /\ journal.new[r] \notin OtherData \cup {None, Torn}
  BY NewIsPayload DEF Interrupted
<1> USE NoJournalFacts DEF Interrupted, Changes, Goto, EndProcess, files
<1>1. CASE Start \/ RecoverStep
  BY <1>1, NoJournalFacts
  DEF PayloadOnce, PhaseOK, Published, Start, RecoverStep, RecoverNothing,
      RecoverPublished, RecoverInterrupted, WipeBackup, WipeStage, WipeJournal,
      StartRollback
<1>2. CASE CheckStep
  BY <1>2 DEF PhaseOK, Outside, CheckStep, FastPath, Adopt, NeedPackage, RefuseForeign, StagePayload
<1>3. CASE CommitStep
  <2>1. CASE PrepareBackup \/ DropBackup \/ DropStage
    BY <2>1 DEF PhaseOK, Outside, PrepareBackup, DropBackup, DropStage
  <2>2. CASE Begin
    BY <2>2 DEF Begin
  <2>3. CASE SaveIntent \/ SaveDone \/ InstallIntent \/ InstallDone
    BY <2>3, SetStateFacts
    DEF PayloadOnce, SaveIntent, SaveDone, InstallIntent, InstallDone, JStates
  <2>4. CASE Save \/ Install
    BY <2>4, <1>a DEF PayloadOnce, PhaseOK, CommitLoop, Save, Install, TypeOK
  <2>6. CASE SaveBlocked \/ Verify
    BY <2>6 DEF PayloadOnce, SaveBlocked, Verify, StartRollback
  <2>7. CASE WriteMarker \/ Discard
    BY <2>7, NoJournalFacts DEF WriteMarker, Discard
  <2> QED
    BY <1>3, <2>1, <2>2, <2>3, <2>4, <2>6, <2>7 DEF CommitStep
<1>4. CASE RollbackStep
  <2>1. CASE UndoPayload \/ UndoDuplicate \/ Restore
    BY <2>1, <1>a DEF PayloadOnce, PhaseOK, Undoing, UndoPayload, UndoDuplicate, Restore,
                      Saved, CurrentIsNone, TypeOK
  <2>2. CASE UndoNothing \/ NothingToRestore \/ RestoreUntouched \/ Refuse
    BY <2>2 DEF PayloadOnce, UndoNothing, NothingToRestore, RestoreUntouched, Refuse
  <2>3. CASE RestoreDone
    BY <2>3, SetStateFacts DEF PayloadOnce, RestoreDone, JStates
  <2>4. CASE RollbackDiscard \/ RollbackCleanup
    BY <2>4, NoJournalFacts DEF PhaseOK, Outside, RollbackDiscard, RollbackCleanup
  <2> QED
    BY <1>4, <2>1, <2>2, <2>3, <2>4 DEF RollbackStep
<1>5. CASE Fault
  BY <1>5 DEF PayloadOnce, PhaseOK, Outside, Fault, StageInterrupted, Fail, Crash,
              StartRollback
<1>6. CASE UserEdit
  BY <1>6, <1>a DEF PayloadOnce, UserEdit, TypeOK
<1>7. CASE UNCHANGED vars
  BY <1>7 DEF PayloadOnce, vars
<1> QED
  BY <1>1, <1>2, <1>3, <1>4, <1>5, <1>6, <1>7 DEF Next, Step, Work
-----------------------------------------------------------------------------
(* Where commit and rollback have come, root by root *)

LEMMA NextCommitProgress ==
  ASSUME TypeOK, CommitProgress, [Next]_vars
  PROVE  CommitProgress'
<1> SUFFICES ASSUME NEW r \in Roots
             PROVE  /\ (pc \in CommitLoop /\ r > cursor => live[r] = journal.old[r] /\ stage[r] = journal.new[r])'
                    /\ (pc \in CommitLoop /\ r < cursor => live[r] = journal.new[r])'
                    /\ (pc \in {"root", "save"} /\ r = cursor => live[r] = journal.old[r])'
                    /\ (pc \in CommitLoop \ {"installed"} /\ r = cursor => stage[r] = journal.new[r])'
                    /\ (pc \in {"saved", "intent", "install"} /\ r = cursor => live[r] = None)'
                    /\ (pc = "installed" /\ r = cursor => live[r] = journal.new[r])'
                    /\ (pc \in {"verify", "publish", "discard"} => live[r] = journal.new[r])'
                    /\ (pc \in {"save", "saved", "intent"} /\ r = cursor
                          => journal.state[r] \in {"backing-up", "backed-up"})'
                    /\ (pc \in {"install", "installed"} /\ r = cursor
                          => journal.state[r] = "installing")'
  BY DEF CommitProgress
<1> USE NoJournalFacts DEF CommitLoop, Changes, Goto, EndProcess, files
<1>0. NRoots \in Nat /\ r \in Nat /\ cursor \in Nat /\ r >= 1 /\ r <= NRoots /\ cursor >= 1
        /\ cursor <= NRoots
  BY ConstantFacts DEF TypeOK, Roots
<1>1. CASE Start \/ RecoverStep \/ CheckStep
  BY <1>1
  DEF Start, RecoverStep, RecoverNothing, RecoverPublished, RecoverInterrupted,
      WipeBackup, WipeStage, WipeJournal, StartRollback, CheckStep, FastPath, Adopt,
      NeedPackage, RefuseForeign, StagePayload
<1>2. CASE CommitStep
  <2>1. CASE PrepareBackup \/ SaveBlocked \/ Discard \/ DropBackup \/ DropStage
    BY <2>1 DEF PrepareBackup, SaveBlocked, Discard, DropBackup, DropStage, StartRollback
  <2>2. CASE Begin
    BY <2>2, <1>0 DEF Begin
  <2>3. CASE SaveIntent \/ SaveDone
    BY <2>3, <1>0, SetStateFacts DEF CommitProgress, SaveIntent, SaveDone, JStates
  <2>4. CASE Save
    BY <2>4, <1>0 DEF CommitProgress, Save, TypeOK
  <2>5. CASE InstallIntent
    BY <2>5, <1>0, SetStateFacts DEF CommitProgress, InstallIntent, JStates
  <2>6. CASE Install
    BY <2>6, <1>0 DEF CommitProgress, Install, TypeOK
  <2>7. CASE InstallDone
    BY <2>7, <1>0, SetStateFacts DEF CommitProgress, InstallDone, JStates
  <2>8. CASE Verify \/ WriteMarker
    BY <2>8 DEF CommitProgress, Verify, WriteMarker
  <2> QED
    BY <1>2, <2>1, <2>2, <2>3, <2>4, <2>5, <2>6, <2>7, <2>8 DEF CommitStep
<1>3. CASE RollbackStep
  <2>1. CASE RollbackCleanup
    BY <2>1 DEF RollbackCleanup, TypeOK
  <2>2. CASE UndoPayload \/ UndoDuplicate \/ UndoNothing \/ Restore \/ NothingToRestore
               \/ RestoreUntouched \/ Refuse \/ RestoreDone \/ RollbackDiscard
    BY <2>2
    DEF UndoPayload, UndoDuplicate, UndoNothing, Restore, NothingToRestore,
        RestoreUntouched, Refuse, RestoreDone, RollbackDiscard
  <2> QED
    BY <1>3, <2>1, <2>2 DEF RollbackStep
<1>4. CASE Fault \/ UserEdit
  BY <1>4 DEF Fault, StageInterrupted, Fail, Crash, StartRollback, UserEdit, Running
<1>5. CASE UNCHANGED vars
  BY <1>5 DEF vars, CommitProgress
<1> QED
  BY <1>1, <1>2, <1>3, <1>4, <1>5 DEF Next, Step, Work

LEMMA NextRollbackProgress ==
  ASSUME TypeOK, PhaseOK, OriginalKept, PayloadOnce, RollbackProgress, [Next]_vars
  PROVE  RollbackProgress'
<1> SUFFICES ASSUME Interrupted', NEW r \in Roots, Changes(r)'
             PROVE  /\ (pc \in Undoing /\ r > cursor => live[r] = journal.old[r])'
                    /\ (pc \in {"restored", "undone"} /\ r = cursor => live[r] = journal.old[r])'
                    /\ (pc = "undone" => live[r] = journal.old[r])'
                    /\ (pc = "restore_gone" /\ r = cursor => live[r] = None)'
                    /\ (pc = "restore" /\ r = cursor => live[r] # journal.new[r])'
  BY DEF RollbackProgress
<1> USE NoJournalFacts DEF Interrupted, Undoing, Changes, Goto, EndProcess, files
<1>0. NRoots \in Nat /\ r \in Nat /\ cursor \in Nat /\ r >= 1 /\ r <= NRoots /\ cursor >= 1
        /\ cursor <= NRoots
  BY ConstantFacts DEF TypeOK, Roots
<1>1. CASE Start \/ RecoverStep \/ CheckStep
  BY <1>1, <1>0
  DEF Start, RecoverStep, RecoverNothing, RecoverPublished, RecoverInterrupted,
      WipeBackup, WipeStage, WipeJournal, StartRollback, CheckStep, FastPath, Adopt,
      NeedPackage, RefuseForeign, StagePayload
<1>2. CASE CommitStep
  BY <1>2, <1>0
  DEF CommitStep, PrepareBackup, Begin, SaveIntent, Save, SaveBlocked, SaveDone,
      InstallIntent, Install, InstallDone, Verify, WriteMarker, Discard, DropBackup,
      DropStage, StartRollback
<1>3. CASE RollbackStep
  <2>1. CASE UndoPayload
    BY <2>1, <1>0 DEF RollbackProgress, UndoPayload, TypeOK
  <2>2. CASE UndoDuplicate
    BY <2>2, <1>0 DEF RollbackProgress, PayloadOnce, PhaseOK, UndoDuplicate, TypeOK
  <2>3. CASE UndoNothing
    BY <2>3, <1>0 DEF RollbackProgress, UndoNothing
  <2>4. CASE Restore
    BY <2>4, <1>0 DEF RollbackProgress, Restore, Saved, CurrentIsNone, TypeOK
  <2>5. CASE NothingToRestore
    BY <2>5, <1>0 DEF RollbackProgress, OriginalKept, PhaseOK, NothingToRestore, Saved,
                      CurrentIsNone
  <2>6. CASE RestoreUntouched \/ Refuse
    BY <2>6, <1>0 DEF RollbackProgress, RestoreUntouched, Refuse
  <2>7. CASE RestoreDone
    BY <2>7, <1>0, SetStateFacts DEF RollbackProgress, RestoreDone, JStates
  <2>8. CASE RollbackDiscard \/ RollbackCleanup
    BY <2>8 DEF RollbackDiscard, RollbackCleanup, TypeOK
  <2> QED
    BY <1>3, <2>1, <2>2, <2>3, <2>4, <2>5, <2>6, <2>7, <2>8 DEF RollbackStep
<1>4. CASE Fault \/ UserEdit
  BY <1>4, <1>0 DEF Fault, StageInterrupted, Fail, Crash, StartRollback, UserEdit, Running
<1>5. CASE UNCHANGED vars
  BY <1>5 DEF vars, RollbackProgress
<1> QED
  BY <1>1, <1>2, <1>3, <1>4, <1>5 DEF Next, Step, Work

\* The journal is written ahead of every move commit makes, and rollback takes
\* a root back to pending only once the root is as it was found.
LEMMA NextJournal ==
  ASSUME TypeOK, PhaseOK, OriginalKept, OnePackage, CommitProgress, RollbackProgress,
         JournalRunsAhead, [Next]_vars
  PROVE  JournalRunsAhead'
<1> SUFFICES ASSUME Interrupted', NEW r \in Roots, Changes(r)'
             PROVE  /\ ((journal.state[r])' = "pending" => live[r]' = (journal.old[r])')
                    /\ (live[r]' = (journal.new[r])'
                          => (journal.state[r])' \in {"installing", "installed"})
  BY DEF JournalRunsAhead
<1>a. Interrupted => journal.new[r] \in Payloads /\ journal.new[r] \notin OtherData \cup {None, Torn}
  BY NewIsPayload DEF Interrupted
<1> USE NoJournalFacts DEF Interrupted, Changes, Goto, EndProcess, files
<1>1. CASE Start \/ RecoverStep
  BY <1>1, NoJournalFacts
  DEF JournalRunsAhead, PhaseOK, Published, Start, RecoverStep, RecoverNothing,
      RecoverPublished, RecoverInterrupted, WipeBackup, WipeStage, WipeJournal,
      StartRollback
<1>2. CASE CheckStep
  BY <1>2 DEF PhaseOK, Outside, CheckStep, FastPath, Adopt, NeedPackage, RefuseForeign, StagePayload
<1>3. CASE CommitStep
  <2>1. CASE PrepareBackup \/ DropBackup \/ DropStage
    BY <2>1 DEF PhaseOK, Outside, PrepareBackup, DropBackup, DropStage
  <2>2. CASE Begin
    BY <2>2 DEF Begin
  <2>3. CASE SaveIntent \/ SaveDone
    BY <2>3, SetStateFacts
    DEF JournalRunsAhead, CommitProgress, CommitLoop, SaveIntent, SaveDone, JStates
  <2>4. CASE Save
    BY <2>4, <1>a DEF JournalRunsAhead, CommitProgress, Save, TypeOK
  <2>5. CASE InstallIntent \/ InstallDone
    BY <2>5, SetStateFacts DEF JournalRunsAhead, InstallIntent, InstallDone, JStates
  <2>6. CASE Install
    BY <2>6 DEF JournalRunsAhead, CommitProgress, Install, TypeOK
  <2>7. CASE SaveBlocked \/ Verify
    BY <2>7 DEF JournalRunsAhead, SaveBlocked, Verify, StartRollback
  <2>8. CASE WriteMarker \/ Discard
    BY <2>8, NoJournalFacts DEF WriteMarker, Discard
  <2> QED
    BY <1>3, <2>1, <2>2, <2>3, <2>4, <2>5, <2>6, <2>7, <2>8 DEF CommitStep
<1>4. CASE RollbackStep
  <2>1. CASE UndoPayload \/ UndoDuplicate
    BY <2>1, <1>a DEF JournalRunsAhead, UndoPayload, UndoDuplicate, TypeOK
  <2>2. CASE Restore
    BY <2>2, <1>a DEF JournalRunsAhead, Restore, Saved, CurrentIsNone, TypeOK
  <2>3. CASE UndoNothing \/ NothingToRestore \/ RestoreUntouched \/ Refuse
    BY <2>3 DEF JournalRunsAhead, UndoNothing, NothingToRestore, RestoreUntouched, Refuse
  <2>4. CASE RestoreDone
    BY <2>4, SetStateFacts DEF JournalRunsAhead, RollbackProgress, RestoreDone, JStates
  <2>5. CASE RollbackDiscard \/ RollbackCleanup
    BY <2>5, NoJournalFacts DEF PhaseOK, Outside, RollbackDiscard, RollbackCleanup
  <2> QED
    BY <1>4, <2>1, <2>2, <2>3, <2>4, <2>5 DEF RollbackStep
<1>5. CASE Fault
  BY <1>5 DEF JournalRunsAhead, PhaseOK, Outside, Fault, StageInterrupted, Fail, Crash,
              StartRollback
<1>6. CASE UserEdit
  BY <1>6, <1>a DEF JournalRunsAhead, UserEdit, TypeOK
<1>7. CASE UNCHANGED vars
  BY <1>7 DEF JournalRunsAhead, vars
<1> QED
  BY <1>1, <1>2, <1>3, <1>4, <1>5, <1>6, <1>7 DEF Next, Step, Work

LEMMA InitInv == Init => Inv
<1> SUFFICES ASSUME Init PROVE Inv
  OBVIOUS
<1>1. TypeOK /\ PhaseOK /\ OriginalKept
  BY InitType, InitOriginal
<1>2. journal.tx = None /\ pc = "idle"
  BY DEF Init, NoJournal
<1> QED
  BY <1>1, <1>2 DEF Inv, OnePackage, PayloadOnce, CommitProgress, RollbackProgress,
                    JournalRunsAhead, Interrupted, CommitLoop, Undoing

LEMMA NextInv ==
  ASSUME Inv, [Next]_vars
  PROVE  Inv'
BY NextType, NextPhase, NextOriginal, NextPackage, NextOnce, NextCommitProgress,
   NextRollbackProgress, NextJournal DEF Inv

\* The inductive invariant.
THEOREM InvHolds == Spec => []Inv
<1>1. Inv /\ [Next]_vars => Inv'
  BY NextInv
<1> QED
  BY <1>1, InitInv, PTL DEF Spec

\* The journal runs ahead of the data in both directions: what it calls pending
\* is untouched, and a new payload is in place only if it says so.
THEOREM JournalIsAhead == Spec => []JournalRunsAhead
<1>1. Inv => JournalRunsAhead
  BY DEF Inv
<1> QED
  BY <1>1, InvHolds, PTL
-----------------------------------------------------------------------------
(* Refinement of AtomicInstall *)

LEMMA InitPromise == Init => Promise!Init
<1> SUFFICES ASSUME Init PROVE Promise!Init
  OBVIOUS
<1>1. journal.tx = None /\ live \in [Roots -> OtherData \cup {None}] /\ pc = "idle"
  BY DEF Init, NoJournal
<1>2. Installed = live
  BY <1>1 DEF Installed, Interrupted
<1>3. AtRisk = {}
  BY <1>1 DEF AtRisk, Interrupted, Undoing
<1> QED
  BY <1>1, <1>2, <1>3 DEF Promise!Init, Promise!Roots, Roots, Running

\* The data is well typed, and what the roots at risk are.
LEMMA InstalledType ==
  ASSUME TypeOK
  PROVE  /\ Installed \in [Roots -> Contents]
         /\ AtRisk \subseteq Roots
         /\ Interrupted => AtRisk = {r \in Roots : journal.old[r] = journal.new[r]}
         /\ ~Interrupted /\ pc \in Undoing => AtRisk = Roots
         /\ ~Interrupted /\ pc \notin Undoing => AtRisk = {}
BY DEF TypeOK, Installed, AtRisk, Changes

\* A step that adds no root to those at risk, and touches no data but theirs.
LEMMA SettleStep ==
  ASSUME TypeOK', AtRisk' \subseteq AtRisk, pc' # "discard", Running \/ Running',
         ~Running \/ ~Running' => UNCHANGED Installed,
         \A r \in Roots \ AtRisk : Installed'[r] = Installed[r]
  PROVE  [Promise!Next]_<<Installed, Running, pc = "discard", AtRisk>>
<1>1. CASE Running /\ Running'
  <2>1. Installed' \in [Promise!Roots -> Promise!Contents]
    <3>1. Installed' \in [Roots -> Contents]
      BY DEF TypeOK, Installed
    <3> QED BY <3>1 DEF Promise!Roots, Promise!Contents, Roots, Contents
  <2>2. \A r \in Promise!Roots \ AtRisk : Installed'[r] = Installed[r]
    BY DEF Promise!Roots, Roots
  <2> QED BY <1>1, <2>1, <2>2 DEF Promise!Next, Promise!Settle
<1>2. CASE ~(Running /\ Running')
  <2>1. Running' = ~Running
    BY <1>2 DEF Running
  <2> QED BY <1>2, <2>1 DEF Promise!Next, Promise!StartOrStop
<1> QED BY <1>1, <1>2

\* A step of the process that leaves the data alone and enters no rollback of a
\* published transaction.
LEMMA CalmStep ==
  ASSUME TypeOK, TypeOK', UNCHANGED Installed, pc' # "discard", Running \/ Running',
         Interrupted' => Interrupted /\ UNCHANGED <<journal.old, journal.new>>,
         pc' \in Undoing => pc \in Undoing \/ Interrupted',
         Interrupted /\ ~Interrupted' => pc' \notin Undoing
  PROVE  [Promise!Next]_<<Installed, Running, pc = "discard", AtRisk>>
<1>1. AtRisk' \subseteq AtRisk
  BY DEF AtRisk, Changes
<1> QED BY <1>1, SettleStep

\* A process that ends: only the memory of a published transaction is lost.
LEMMA EndStep ==
  ASSUME TypeOK, TypeOK', PhaseOK, EndProcess, UNCHANGED <<live, marker>>, Running
  PROVE  [Promise!Next]_<<Installed, Running, pc = "discard", AtRisk>>
<1>1. UNCHANGED journal \/ (~Interrupted /\ ~Interrupted')
  BY NoJournalFacts DEF EndProcess, PhaseOK, Published, Interrupted
<1>2. UNCHANGED Installed /\ UNCHANGED Interrupted
  BY <1>1 DEF Installed, Interrupted
<1>3. pc' = "idle"
  BY DEF EndProcess
<1> QED BY <1>1, <1>2, <1>3, CalmStep DEF Undoing

LEMMA StepSimulation ==
  ASSUME Inv, [Next]_vars
  PROVE  [Promise!Next]_<<Installed, Running, pc = "discard", AtRisk>>
<1> USE NoJournalFacts DEF Goto, files, EndProcess
<1>0. TypeOK /\ PhaseOK /\ TypeOK'
  BY NextType DEF Inv
<1>1. CASE Start \/ RecoverStep \/ CheckStep
  <2>0. pc' \notin {"discard"} \cup Undoing \/ RecoverInterrupted
    BY <1>1 DEF Undoing, Start, RecoverStep, RecoverNothing, RecoverPublished, WipeBackup,
         WipeStage, WipeJournal, CheckStep, FastPath, Adopt, NeedPackage, RefuseForeign, StagePayload
  <2>1. Running \/ Running'
    BY <1>1 DEF Running, Start, RecoverStep, RecoverNothing, RecoverPublished, RecoverInterrupted,
         WipeBackup, WipeStage, WipeJournal, CheckStep, FastPath, Adopt, NeedPackage,
         RefuseForeign, StagePayload
  <2>2. CASE WipeJournal
    <3>1. ~Interrupted /\ ~Interrupted' /\ UNCHANGED live
      BY <1>0, <2>2 DEF WipeJournal, PhaseOK, Published, Interrupted
    <3> QED
      BY <1>0, <2>0, <2>1, <2>2, <3>1, CalmStep DEF Installed, WipeJournal, RecoverInterrupted, Undoing
  <2>3. CASE Adopt
    <3>1. ~Interrupted /\ ~Interrupted' /\ UNCHANGED live
      BY <1>0, <2>3 DEF Adopt, PhaseOK, Outside, Interrupted
    <3> QED
      BY <1>0, <2>0, <2>1, <2>3, <3>1, CalmStep DEF Installed, Adopt, RecoverInterrupted, Undoing
  <2>4. CASE Start \/ RecoverNothing \/ RecoverPublished \/ RecoverInterrupted \/ WipeBackup
               \/ WipeStage \/ FastPath \/ NeedPackage \/ RefuseForeign \/ StagePayload
    <3>1. UNCHANGED <<live, journal, marker>>
      BY <2>4 DEF Start, RecoverNothing, RecoverPublished, RecoverInterrupted, WipeBackup,
                  WipeStage, FastPath, NeedPackage, RefuseForeign, StagePayload
    <3>2. UNCHANGED <<Interrupted, Installed>>
      BY <3>1 DEF Installed, Interrupted
    <3>3. RecoverInterrupted => Interrupted /\ pc' # "discard"
      BY DEF RecoverInterrupted, StartRollback
    <3> QED
      BY <1>0, <2>0, <2>1, <3>1, <3>2, <3>3, CalmStep
  <2> QED
    BY <1>1, <2>2, <2>3, <2>4 DEF RecoverStep, CheckStep
<1>2. CASE CommitStep
  <2>1. CASE Begin
    <3>1. ~Interrupted /\ pc = "begin" /\ pc' = "root"
      BY <1>0, <2>1 DEF Begin, PhaseOK, Outside, Interrupted
    <3>2. Interrupted' /\ journal'.old = live /\ journal'.new = stage
      BY <2>1, ConstantFacts DEF Begin, Interrupted
    <3>3. UNCHANGED Installed /\ Installed = live
      BY <1>0, <3>1, <3>2 DEF Installed, TypeOK
    <3>4. PICK p \in Payloads : stage = [r \in Roots |-> p]
      BY <3>1 DEF Inv, OnePackage, Package
    <3>5. AtRisk' = {r \in Promise!Roots : Installed[r] = p}
      BY <3>2, <3>3, <3>4 DEF AtRisk, Changes, Promise!Roots, Roots
    <3> QED
      BY <3>1, <3>3, <3>5 DEF Promise!Next, Promise!Begin, Running
  <2>2. CASE SaveIntent \/ SaveDone \/ InstallIntent \/ InstallDone
    <3>1. UNCHANGED <<live, marker>> /\ (journal.tx)' = journal.tx /\ (journal.old)' = journal.old
          /\ (journal.new)' = journal.new
      BY <1>0, <2>2, SetStateFacts
      DEF SaveIntent, SaveDone, InstallIntent, InstallDone, JStates
    <3>2. Running /\ pc' \notin {"discard"} \cup Undoing
      BY <2>2 DEF Running, Undoing, SaveIntent, SaveDone, InstallIntent, InstallDone
    <3> QED
      BY <1>0, <3>1, <3>2, CalmStep DEF Installed, Interrupted
  <2>3. CASE Save \/ Install
    <3>1. Interrupted /\ Interrupted' /\ UNCHANGED journal
      BY <1>0, <2>3 DEF Save, Install, PhaseOK, CommitLoop, Interrupted
    <3>2. Running /\ pc' \notin {"discard"} \cup Undoing
      BY <2>3 DEF Running, Undoing, Save, Install
    <3> QED
      BY <1>0, <3>1, <3>2, CalmStep DEF Installed
  <2>4. CASE WriteMarker
    <3>1. Running /\ Running' /\ Interrupted /\ ~Interrupted' /\ pc' = "discard"
      BY <1>0, <2>4 DEF WriteMarker, PhaseOK, Running, Interrupted
    <3>2. \A r \in Roots : live'[r] = journal.new[r]
      BY <2>4, <3>1 DEF WriteMarker, Inv, CommitProgress
    <3>3. PICK p \in Payloads : journal.new = [r \in Roots |-> p]
      BY <3>1 DEF Inv, OnePackage, Package, Interrupted
    <3>4. Installed' = [r \in Roots |-> p]
      BY <3>1, <3>2, <3>3 DEF Installed
    <3>5. AtRisk' = {}
      BY <1>0, <3>1 DEF AtRisk, Undoing
    <3> QED
      BY <3>1, <3>4, <3>5 DEF Promise!Next, Promise!Publish, Promise!Roots, Roots
  <2>5. CASE Discard
    <3>1. ~Interrupted /\ ~Interrupted' /\ UNCHANGED live
      BY <1>0, <2>5 DEF Discard, PhaseOK, Published, Interrupted
    <3>2. Running /\ pc' \notin {"discard"} \cup Undoing
      BY <2>5 DEF Running, Undoing, Discard
    <3> QED
      BY <1>0, <3>1, <3>2, CalmStep DEF Installed
  <2>6. CASE PrepareBackup \/ Verify \/ DropBackup \/ DropStage \/ SaveBlocked
    <3>1. UNCHANGED <<live, journal, marker>>
      BY <2>6 DEF PrepareBackup, SaveBlocked, Verify, DropBackup, DropStage
    <3>2. Running /\ pc' # "discard" /\ (pc' \in Undoing => Interrupted)
      BY <1>0, <2>6 DEF Running, Undoing, PrepareBackup, Verify, DropBackup, DropStage,
                        SaveBlocked, StartRollback, PhaseOK, CommitLoop
    <3> QED
      BY <1>0, <3>1, <3>2, CalmStep DEF Installed, Interrupted
  <2> QED
    BY <1>2, <2>1, <2>2, <2>3, <2>4, <2>5, <2>6 DEF CommitStep
<1>3. CASE RollbackStep
  <2>0. Running /\ pc' # "discard"
    BY <1>0, <1>3
    DEF Running, TypeOK, RollbackStep, UndoPayload, UndoDuplicate, UndoNothing, Restore, NothingToRestore,
        CurrentIsNone, RestoreUntouched, Refuse, RestoreDone, RollbackDiscard, RollbackCleanup
  <2>1. CASE UndoPayload \/ UndoDuplicate \/ Restore
    <3>1. UNCHANGED <<journal, Interrupted>> /\ pc \in Undoing /\ pc' \in Undoing /\ Running'
      BY <2>1
      DEF UndoPayload, UndoDuplicate, Restore, CurrentIsNone, Undoing, Interrupted, Running
    <3>2. CASE Interrupted
      BY <1>0, <2>0, <3>1, <3>2, CalmStep DEF Installed
    <3>3. CASE ~Interrupted
      <4>1. AtRisk = Roots /\ AtRisk' = Roots
        BY <3>1, <3>3 DEF AtRisk
      <4> QED BY <1>0, <2>0, <3>1, <4>1, SettleStep
    <3> QED BY <3>2, <3>3
  <2>2. CASE RestoreDone
    <3>1. UNCHANGED <<live, marker>> /\ (journal.tx)' = journal.tx /\ (journal.old)' = journal.old
          /\ (journal.new)' = journal.new
      BY <1>0, <2>2, SetStateFacts DEF RestoreDone, JStates
    <3>2. pc \in Undoing /\ UNCHANGED <<Interrupted, Installed>>
      BY <2>2, <3>1 DEF RestoreDone, Undoing, Interrupted, Installed
    <3> QED
      BY <1>0, <2>0, <3>1, <3>2, CalmStep
  <2>3. CASE RollbackDiscard
    <3>1. ~Interrupted' /\ UNCHANGED live /\ pc = "undone" /\ pc' = "undone_backup"
      BY <2>3 DEF RollbackDiscard, Interrupted
    <3>2. AtRisk' = {} /\ Running'
      BY <3>1 DEF AtRisk, Undoing, Running
    <3>3. \A r \in Roots \ AtRisk : Installed'[r] = Installed[r]
      BY <3>1 DEF Inv, RollbackProgress, Installed, AtRisk, Undoing, Changes
    <3> QED
      BY <1>0, <2>0, <3>1, <3>2, <3>3, SettleStep
  <2>4. CASE UndoNothing \/ NothingToRestore \/ RestoreUntouched \/ RollbackCleanup
    <3>1. UNCHANGED <<live, journal, marker>>
      BY <2>4 DEF UndoNothing, NothingToRestore, RestoreUntouched, RollbackCleanup
    <3>2. pc' \in Undoing => pc \in Undoing
      BY <1>0, <2>4 DEF TypeOK, Undoing, UndoNothing, NothingToRestore, RestoreUntouched,
                        RollbackCleanup, CurrentIsNone
    <3> QED
      BY <1>0, <2>0, <3>1, <3>2, CalmStep DEF Installed, Interrupted
  <2>5. CASE Refuse
    BY <1>0, <2>0, <2>5, EndStep DEF Refuse
  <2> QED
    BY <1>3, <2>1, <2>2, <2>3, <2>4, <2>5 DEF RollbackStep
<1>4. CASE Fault
  <2>1. CASE StageInterrupted
    <3>1. UNCHANGED <<live, journal, marker>> /\ Running /\ pc' = "idle"
      BY <2>1 DEF StageInterrupted, Running
    <3> QED
      BY <1>0, <3>1, CalmStep DEF Installed, Interrupted, Undoing
  <2>2. CASE Crash
    BY <1>0, <2>2, EndStep DEF Crash
  <2>3. CASE Fail
    <3>1. UNCHANGED <<live, journal, marker, Interrupted, Installed>> /\ pc' = "undo" /\ Running
          /\ Running'
      BY <2>3 DEF Fail, StartRollback, Running, TryBlock, Installed, Interrupted
    <3>2. CASE Interrupted
      BY <1>0, <3>1, <3>2, CalmStep DEF Undoing
    <3>3. CASE ~Interrupted
      <4>1. pc = "discard"
        BY <1>0, <2>3, <3>3 DEF Fail, TryBlock, PhaseOK, CommitLoop
      <4>2. AtRisk' = Promise!Roots
        BY <3>1, <3>3 DEF AtRisk, Undoing, Promise!Roots, Roots
      <4> QED
        BY <3>1, <4>1, <4>2 DEF Promise!Next, Promise!FailLate
    <3> QED BY <3>2, <3>3
  <2> QED BY <1>4, <2>1, <2>2, <2>3 DEF Fault
<1>5. CASE UserEdit
  <2>0. UNCHANGED <<Interrupted, journal, pc>> /\ ~Running /\ UNCHANGED Running
    BY <1>5 DEF UserEdit, Interrupted, Running
  <2>3. UNCHANGED AtRisk
    BY <2>0 DEF AtRisk, Changes
  <2>1. CASE Interrupted
    <3>1. UNCHANGED Installed
      BY <1>5, <2>1 DEF UserEdit, Installed, Interrupted
    <3> QED
      BY <2>0, <2>3, <3>1
  <2>2. CASE ~Interrupted
    <3>1. Installed = live /\ Installed' = live'
      BY <1>0, <2>0, <2>2 DEF Installed, TypeOK
    <3>3. \E r \in Roots, d \in OtherData \cup {None} : Installed' = [Installed EXCEPT ![r] = d]
      BY <1>5, <3>1 DEF UserEdit
    <3> QED
      BY <2>0, <2>3, <3>3 DEF Promise!Next, Promise!UserEdit, Promise!Roots, Roots
  <2> QED
    BY <2>1, <2>2
<1>6. CASE UNCHANGED vars
  <2>1. UNCHANGED <<Installed, Running, pc, AtRisk>>
    BY <1>6 DEF vars, Installed, Interrupted, AtRisk, Changes, Running
  <2> QED BY <2>1
<1> QED
  BY <1>1, <1>2, <1>3, <1>4, <1>5, <1>6 DEF Next, Step, Work

\* The importer keeps its promise, identical roots and the failures after a
\* publication included: whatever fails and wherever it is killed, the installed
\* data changes for all roots in one step or not at all, but for the roots at risk.
THEOREM ImportImplementsPromise == Spec => ImportIsAtomic
<1>1. Inv /\ [Next]_vars => [Promise!Next]_<<Installed, Running, pc = "discard", AtRisk>>
  BY StepSimulation
<1> QED
  BY <1>1, InvHolds, InitPromise, PTL DEF Spec, ImportIsAtomic, Promise!Spec
-----------------------------------------------------------------------------
(* What the marker certifies, and the staged work                            *)

\* Every payload in the game directory is known to the journal or to the marker,
\* and what the stage holds of an open transaction is its payload.
LiveKnown ==
  Interrupted =>
    \A r \in Roots : /\ live[r] \in Payloads => live[r] \in {journal.old[r], journal.new[r]}
                     /\ stage[r] \in {None, journal.new[r]}

\* What commit has not installed yet is still staged, identical roots included.
StillStaged ==
  pc \in CommitLoop =>
    \A r \in Roots : r > cursor \/ (r = cursor /\ pc # "installed") => stage[r] = journal.new[r]

\* The marker certifies what is in place or, while a transaction is open, what its
\* journal will put back, unless the discard after it failed.
Certified ==
  marker.tx # None /\ late = "no" =>
    \A r \in Roots :
      /\ ~Interrupted /\ live[r] \in Payloads => live[r] = marker.content[r]
      /\ Interrupted /\ journal.old[r] \in Payloads => journal.old[r] = marker.content[r]

LEMMA NextLiveKnown ==
  ASSUME Inv, LiveKnown, StillStaged, [Next]_vars
  PROVE  LiveKnown'
<1> SUFFICES ASSUME Interrupted', NEW r \in Roots
             PROVE  /\ live[r]' \in Payloads => live[r]' \in {(journal.old[r])', (journal.new[r])'}
                    /\ stage[r]' \in {None, (journal.new[r])'}
  BY DEF LiveKnown
<1>0. TypeOK /\ PhaseOK BY DEF Inv
<1> USE <1>0, NoJournalFacts DEF Interrupted, Goto, EndProcess, files
<1>1. CASE Start \/ RecoverStep
  BY <1>1, NoJournalFacts
  DEF LiveKnown, PhaseOK, Published, Start, RecoverStep, RecoverNothing, RecoverPublished,
      RecoverInterrupted, WipeBackup, WipeStage, WipeJournal, StartRollback
<1>2. CASE CheckStep
  BY <1>2 DEF PhaseOK, Outside, CheckStep, FastPath, Adopt, NeedPackage, RefuseForeign, StagePayload
<1>3. CASE CommitStep
  <2>1. CASE PrepareBackup \/ DropBackup \/ DropStage
    BY <2>1 DEF PhaseOK, Outside, PrepareBackup, DropBackup, DropStage
  <2>2. CASE Begin
    BY <2>2 DEF Begin
  <2>3. CASE SaveIntent \/ SaveDone \/ InstallIntent \/ InstallDone
    BY <2>3, SetStateFacts DEF LiveKnown, SaveIntent, SaveDone, InstallIntent, InstallDone, JStates
  <2>4. CASE Save
    BY <2>4, ConstantFacts DEF LiveKnown, Save, TypeOK
  <2>5. CASE Install
    BY <2>5, ConstantFacts DEF LiveKnown, Install, TypeOK
  <2>6. CASE SaveBlocked \/ Verify
    BY <2>6 DEF LiveKnown, SaveBlocked, Verify, StartRollback
  <2>7. CASE WriteMarker \/ Discard
    BY <2>7, NoJournalFacts DEF LiveKnown, WriteMarker, Discard
  <2> QED
    BY <1>3, <2>1, <2>2, <2>3, <2>4, <2>5, <2>6, <2>7 DEF CommitStep
<1>4. CASE RollbackStep
  <2>1. CASE UndoPayload \/ UndoDuplicate
    BY <2>1, ConstantFacts DEF LiveKnown, UndoPayload, UndoDuplicate, TypeOK
  <2>2. CASE Restore
    BY <2>2 DEF LiveKnown, Restore, Saved, TypeOK
  <2>3. CASE UndoNothing \/ NothingToRestore \/ RestoreUntouched \/ Refuse
    BY <2>3 DEF LiveKnown, UndoNothing, NothingToRestore, RestoreUntouched, Refuse
  <2>4. CASE RestoreDone
    BY <2>4, SetStateFacts DEF LiveKnown, RestoreDone, JStates
  <2>5. CASE RollbackDiscard \/ RollbackCleanup
    BY <2>5, NoJournalFacts DEF PhaseOK, Outside, RollbackDiscard, RollbackCleanup
  <2> QED
    BY <1>4, <2>1, <2>2, <2>3, <2>4, <2>5 DEF RollbackStep
<1>5. CASE Fault
  BY <1>5 DEF LiveKnown, PhaseOK, Outside, Fault, StageInterrupted, Fail, Crash, StartRollback
<1>6. CASE UserEdit
  BY <1>6, ConstantFacts DEF LiveKnown, UserEdit, TypeOK
<1>7. CASE UNCHANGED vars
  BY <1>7 DEF LiveKnown, vars
<1> QED
  BY <1>1, <1>2, <1>3, <1>4, <1>5, <1>6, <1>7 DEF Next, Step, Work

\* Only commit itself stays inside its loop.
LEMMA NextStillStaged ==
  ASSUME Inv, StillStaged, [Next]_vars
  PROVE  StillStaged'
<1>0. TypeOK BY DEF Inv
<1> USE <1>0, NoJournalFacts DEF Goto, EndProcess, files, CommitLoop
<1>1. CASE Start \/ RecoverStep \/ CheckStep
  BY <1>1
  DEF StillStaged, Start, RecoverStep, RecoverNothing, RecoverPublished, RecoverInterrupted,
      WipeBackup, WipeStage, WipeJournal, StartRollback, CheckStep, FastPath, Adopt, NeedPackage,
      RefuseForeign, StagePayload
<1>2. CASE CommitStep
  <2>1. CASE PrepareBackup \/ DropBackup \/ DropStage \/ SaveBlocked \/ Verify \/ WriteMarker \/ Discard
    BY <2>1 DEF StillStaged, PrepareBackup, DropBackup, DropStage, SaveBlocked, Verify, WriteMarker,
                Discard, StartRollback
  <2>2. CASE Begin
    BY <2>2 DEF StillStaged, Begin
  <2>3. CASE SaveIntent \/ SaveDone \/ InstallIntent
    BY <2>3, SetStateFacts DEF StillStaged, SaveIntent, SaveDone, InstallIntent, JStates
  <2>4. CASE Save
    BY <2>4 DEF StillStaged, Save
  <2>5. CASE Install
    BY <2>5, ConstantFacts DEF StillStaged, Install, TypeOK, Roots
  <2>6. CASE InstallDone
    BY <2>6, SetStateFacts, ConstantFacts DEF StillStaged, InstallDone, JStates, TypeOK, Roots
  <2> QED
    BY <1>2, <2>1, <2>2, <2>3, <2>4, <2>5, <2>6 DEF CommitStep
<1>3. CASE RollbackStep
  BY <1>3
  DEF StillStaged, RollbackStep, UndoPayload, UndoDuplicate, UndoNothing, Restore, NothingToRestore,
      RestoreUntouched, Refuse, RestoreDone, RollbackDiscard, RollbackCleanup, TypeOK
<1>4. CASE Fault \/ UserEdit
  BY <1>4 DEF StillStaged, Fault, StageInterrupted, Fail, Crash, StartRollback, UserEdit, Running
<1>5. CASE UNCHANGED vars
  BY <1>5 DEF StillStaged, vars
<1> QED
  BY <1>1, <1>2, <1>3, <1>4, <1>5 DEF Next, Step, Work

\* What commit has finished is known to the marker it writes, and what rollback has
\* finished is what the marker of before certified.
LEMMA NextCertified ==
  ASSUME Inv, LiveKnown, Certified, [Next]_vars
  PROVE  Certified'
<1> SUFFICES ASSUME marker'.tx # None, late' = "no", NEW r \in Roots
             PROVE  /\ ~Interrupted' /\ live[r]' \in Payloads => live[r]' = (marker.content[r])'
                    /\ Interrupted' /\ (journal.old[r])' \in Payloads
                         => (journal.old[r])' = (marker.content[r])'
  BY DEF Certified
<1>0. TypeOK /\ PhaseOK BY DEF Inv
<1> USE <1>0, NoJournalFacts DEF Interrupted, Goto, EndProcess, files
<1>1. CASE Start \/ RecoverStep
  BY <1>1, NoJournalFacts
  DEF Certified, PhaseOK, Published, Start, RecoverStep, RecoverNothing, RecoverPublished,
      RecoverInterrupted, WipeBackup, WipeStage, WipeJournal, StartRollback
<1>2. CASE CheckStep
  BY <1>2 DEF Certified, PhaseOK, Outside, CheckStep, FastPath, Adopt, NeedPackage, RefuseForeign,
              StagePayload
<1>3. CASE CommitStep
  <2>1. CASE PrepareBackup \/ DropBackup \/ DropStage
    BY <2>1 DEF Certified, PrepareBackup, DropBackup, DropStage
  <2>2. CASE Begin
    BY <2>2, ConstantFacts DEF Certified, Begin, PhaseOK, Outside
  <2>3. CASE SaveIntent \/ SaveDone \/ InstallIntent \/ InstallDone
    BY <2>3, SetStateFacts DEF Certified, PhaseOK, CommitLoop, SaveIntent, SaveDone, InstallIntent,
                               InstallDone, JStates
  <2>4. CASE Save \/ Install
    BY <2>4 DEF Certified, PhaseOK, CommitLoop, Save, Install
  <2>5. CASE SaveBlocked \/ Verify
    BY <2>5 DEF Certified, SaveBlocked, Verify, StartRollback
  <2>6. CASE WriteMarker
    <3>1. live[r] \in Payloads => live[r] = journal.new[r]
      BY <2>6 DEF WriteMarker, Inv, CommitProgress, Changes, LiveKnown, PhaseOK
    <3> QED BY <2>6, <3>1 DEF WriteMarker
  <2>7. CASE Discard
    BY <2>7, NoJournalFacts DEF Certified, PhaseOK, Published, Discard
  <2> QED
    BY <1>3, <2>1, <2>2, <2>3, <2>4, <2>5, <2>6, <2>7 DEF CommitStep
<1>4. CASE RollbackStep
  <2>1. CASE UndoPayload \/ UndoDuplicate \/ Restore
    BY <2>1 DEF Certified, PhaseOK, Undoing, UndoPayload, UndoDuplicate, Restore, CurrentIsNone
  <2>2. CASE UndoNothing \/ NothingToRestore \/ RestoreUntouched \/ Refuse
    BY <2>2 DEF Certified, UndoNothing, NothingToRestore, RestoreUntouched, Refuse
  <2>3. CASE RestoreDone
    BY <2>3, SetStateFacts DEF Certified, PhaseOK, Undoing, RestoreDone, JournalBack, JStates
  <2>4. CASE RollbackDiscard
    <3>1. live[r] \in Payloads => live[r] = journal.old[r]
      BY <2>4 DEF RollbackDiscard, Inv, RollbackProgress, Changes, LiveKnown, PhaseOK, Undoing
    <3> QED BY <2>4, <3>1, NoJournalFacts DEF Certified, RollbackDiscard, PhaseOK, Undoing
  <2>5. CASE RollbackCleanup
    BY <2>5 DEF Certified, RollbackCleanup
  <2> QED
    BY <1>4, <2>1, <2>2, <2>3, <2>4, <2>5 DEF RollbackStep
<1>5. CASE Fault
  BY <1>5 DEF Certified, Fault, StageInterrupted, Fail, Crash, StartRollback
<1>6. CASE UserEdit
  BY <1>6, ConstantFacts DEF Certified, UserEdit, TypeOK
<1>7. CASE UNCHANGED vars
  BY <1>7 DEF Certified, vars
<1> QED
  BY <1>1, <1>2, <1>3, <1>4, <1>5, <1>6, <1>7 DEF Next, Step, Work

LEMMA CertifiedHolds == Spec => [](LiveKnown /\ StillStaged /\ Certified)
<1>1. Init => LiveKnown /\ StillStaged /\ Certified
  BY DEF Init, NoJournal, NoMarker, LiveKnown, StillStaged, Certified, Interrupted, CommitLoop
<1>2. Inv /\ LiveKnown /\ StillStaged /\ Certified /\ [Next]_vars
        => (LiveKnown /\ StillStaged /\ Certified)'
  BY NextLiveKnown, NextStillStaged, NextCertified
<1> QED
  BY <1>1, <1>2, InvHolds, PTL DEF Spec

\* No payload sits in the game directory uncertified once the journal is gone: the
\* marker and the data are published and taken back together.
THEOREM MarkerIsHonest == Spec => []MarkerHonest
<1>1. Certified => MarkerHonest
  BY DEF Certified, MarkerHonest, Interrupted
<1> QED
  BY <1>1, CertifiedHolds, PTL

\* No step of the importer loses a staged payload of an open transaction, whether it
\* commits, fails, rolls back or is killed and starts again.
THEOREM NoWorkLost == Spec => StagedWorkPreserved
<1>1. ASSUME Inv, LiveKnown, StillStaged, [Next]_vars, Interrupted, Interrupted', ~UserEdit,
             NEW r \in Roots, journal.new[r] \in {live[r], stage[r]}
      PROVE  journal.new[r] \in {live'[r], stage'[r]}
  <2>0. TypeOK /\ PhaseOK BY <1>1 DEF Inv
  <2>1. journal.new[r] \in Payloads /\ journal.new[r] # None
    BY <1>1, NewIsPayload, ConstantFacts DEF Inv, Interrupted
  <2> USE <1>1, <2>0 DEF Goto, files
  <2>2. CASE UNCHANGED <<live, stage>>
    BY <2>2
  <2>3. CASE WipeStage \/ StagePayload \/ DropStage \/ StageInterrupted
    BY <2>3 DEF WipeStage, StagePayload, DropStage, StageInterrupted, PhaseOK, Outside, Published,
                Interrupted
  <2>4. CASE Save
    <3>1. pc = "save" /\ live' = [live EXCEPT ![cursor] = None] /\ stage' = stage
      BY <2>4 DEF Save
    <3>2. stage[cursor] = journal.new[cursor]
      BY <3>1 DEF StillStaged, CommitLoop, TypeOK, Roots
    <3> QED BY <3>1, <3>2 DEF TypeOK
  <2>5. CASE Install
    <3>1. pc = "install" /\ live[cursor] = None
          /\ live' = [live EXCEPT ![cursor] = stage[cursor]] /\ stage' = [stage EXCEPT ![cursor] = None]
      BY <2>5 DEF Install
    <3>2. stage[cursor] = journal.new[cursor]
      BY <3>1 DEF StillStaged, CommitLoop, TypeOK, Roots
    <3> QED BY <3>1, <3>2 DEF TypeOK
  <2>6. CASE UndoPayload \/ UndoDuplicate
    BY <2>6 DEF UndoPayload, UndoDuplicate, TypeOK
  <2>7. CASE Restore
    BY <2>1, <2>7 DEF Restore, TypeOK
  <2> QED
    BY <2>2, <2>3, <2>4, <2>5, <2>6, <2>7
    DEF Next, Step, Work, Fault, Start, RecoverStep, RecoverNothing, RecoverPublished, RecoverInterrupted,
        WipeBackup, WipeJournal, CheckStep, FastPath, Adopt, NeedPackage, RefuseForeign, CommitStep,
        PrepareBackup, Begin, SaveIntent, SaveBlocked, SaveDone, InstallIntent, InstallDone, Verify,
        WriteMarker, Discard, DropBackup, RollbackStep, UndoNothing, NothingToRestore,
        RestoreUntouched, Refuse, RestoreDone, RollbackDiscard, RollbackCleanup, Fail, Crash, vars
<1>2. Inv /\ LiveKnown /\ StillStaged /\ [Next]_vars =>
        [Interrupted /\ Interrupted' /\ ~UserEdit =>
           \A r \in Roots : journal.new[r] \in {live[r], stage[r]} =>
                              journal.new[r] \in {live'[r], stage'[r]}]_vars
  BY <1>1
<1> QED
  BY <1>2, InvHolds, CertifiedHolds, PTL DEF Spec, StagedWorkPreserved

\* No root of the journal equals the one it replaces.
AllChange == journal.tx # None => \A r \in Roots : Changes(r)

LEMMA NextAllChange ==
  ASSUME TypeOK, AllChange, [Next]_vars, ~IdenticalRoots
  PROVE  AllChange'
<1> USE NoJournalFacts DEF AllChange, Changes, Goto, EndProcess, files
<1>1. CASE Start \/ RecoverStep \/ CheckStep
  BY <1>1, NoJournalFacts
  DEF Start, RecoverStep, RecoverNothing, RecoverPublished, RecoverInterrupted,
      WipeBackup, WipeStage, WipeJournal, StartRollback, CheckStep, FastPath, Adopt,
      NeedPackage, RefuseForeign, StagePayload
<1>2. CASE CommitStep
  <2>1. CASE SaveIntent \/ SaveDone \/ InstallIntent \/ InstallDone
    BY <2>1, SetStateFacts DEF SaveIntent, SaveDone, InstallIntent, InstallDone, JStates
  <2>2. CASE Begin
    BY <2>2 DEF Begin
  <2>3. CASE PrepareBackup \/ Save \/ SaveBlocked \/ Install \/ Verify \/ WriteMarker
               \/ Discard \/ DropBackup \/ DropStage
    BY <2>3, NoJournalFacts
    DEF PrepareBackup, Save, SaveBlocked, Install, Verify, WriteMarker, Discard,
        DropBackup, DropStage, StartRollback
  <2> QED
    BY <1>2, <2>1, <2>2, <2>3 DEF CommitStep
<1>3. CASE RollbackStep
  <2>1. CASE RestoreDone
    BY <2>1, SetStateFacts DEF RestoreDone, JStates
  <2>2. CASE UndoPayload \/ UndoDuplicate \/ UndoNothing \/ Restore \/ NothingToRestore
               \/ RestoreUntouched \/ Refuse \/ RollbackDiscard \/ RollbackCleanup
    BY <2>2, NoJournalFacts
    DEF UndoPayload, UndoDuplicate, UndoNothing, Restore, NothingToRestore,
        RestoreUntouched, Refuse, RollbackDiscard, RollbackCleanup
  <2> QED
    BY <1>3, <2>1, <2>2 DEF RollbackStep
<1>4. CASE Fault \/ UserEdit \/ UNCHANGED vars
  BY <1>4 DEF Fault, StageInterrupted, Fail, Crash, StartRollback, UserEdit, vars
<1> QED
  BY <1>1, <1>2, <1>3, <1>4 DEF Next, Step, Work

\* A finished rollback of an unpublished transaction leaves every root as it was
\* found, unless a package root equals the one it replaces: identical roots are the
\* only way it can fail.
THEOREM RollbackIsExact ==
  ASSUME ~IdenticalRoots
  PROVE  Spec => [](Interrupted => RollbackRestores)
<1>1. Init => AllChange
  BY DEF Init, NoJournal, AllChange
<1>2. Inv /\ AllChange /\ [Next]_vars => AllChange'
  BY NextAllChange DEF Inv
<1>3. Inv /\ AllChange => (Interrupted => RollbackRestores)
  <2> SUFFICES ASSUME Inv, AllChange, pc = "undone", Interrupted PROVE live = journal.old
    BY DEF RollbackRestores
  <2>1. TypeOK
    BY DEF Inv
  <2>2. \A r \in Roots : live[r] = journal.old[r]
    BY DEF Inv, AllChange, RollbackProgress, Interrupted
  <2> QED BY <2>1, <2>2 DEF TypeOK
<1> QED
  BY <1>1, <1>2, <1>3, InvHolds, PTL DEF Spec
=============================================================================
