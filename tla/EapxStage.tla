----------------------------- MODULE EapxStage -----------------------------
(***************************************************************************)
(* The stage of tools/eapx.py, file by file: prepare_stage, the resumable   *)
(* extraction, os.sync and the full validate_tree.  EapxCommit takes all of *)
(* this as one step, StagePayload.                                          *)
(*                                                                         *)
(* What a process reads back is the page cache.  A power cut leaves a file  *)
(* that was written and not synced intact, as garbage of the right size, or *)
(* missing; what atomic_write wrote is synced.  A file's content stands for *)
(* the package whose data it is.  All packages have the same size for a     *)
(* file of one name, so that a size tells nothing about the content.        *)
(***************************************************************************)
EXTENDS Naturals

CONSTANTS
  NFiles,
  Packages,
  PlanOf,     \* the files a package's plan extracts
  Summed,     \* those among them with a checksum: members of an archive, and loose
              \* files that discovery had to hash; files of a folder have none
  None,
  Garbage

ASSUME StageAssumption ==
  /\ NFiles \in Nat \ {0}
  /\ PlanOf \in [Packages -> SUBSET (1..NFiles)]
  /\ Summed \in [Packages -> SUBSET (1..NFiles)]
  /\ None \notin Packages /\ Garbage \notin Packages /\ None # Garbage

VARIABLES
  stage,      \* the content of each file under <workspace>/stage
  part,       \* the files that have a .part beside them
  card,       \* the staged files whose data is on the card
  identity,   \* the fingerprint in stage-state
  plan,       \* the plan of the running process
  pc,
  todo,       \* the items that extract has still to visit
  touched,
  spoiled     \* history: the last removal of the stage left something behind

vars == <<stage, part, card, identity, plan, pc, todo, touched, spoiled>>

Files == 1..NFiles
Running == pc # "idle"

\* What tells a stage from another, Plan.fingerprint: names, sizes and checksums.
\* Packages without checksums, whose files have the same names and sizes, are the
\* same to it.
StageIdentity(p) == [f \in PlanOf[p] |-> IF f \in Summed[p] THEN p ELSE None]
Identities == {StageIdentity(p) : p \in Packages}

Init ==
  /\ stage = [f \in Files |-> None]
  /\ part = {}
  /\ card = Files
  /\ identity = None
  /\ plan \in Packages
  /\ pc = "idle"
  /\ todo = {}
  /\ touched = FALSE
  /\ spoiled = FALSE

\* An import starts, with whatever package the player has put there.
Start ==
  /\ pc = "idle"
  /\ plan' \in Packages
  /\ pc' = "prepare"
  /\ UNCHANGED <<stage, part, card, identity, todo, touched, spoiled>>

-----------------------------------------------------------------------------
(* prepare_stage *)

Keep ==
  /\ pc = "prepare"
  /\ identity = StageIdentity(plan)
  /\ pc' = "identity"
  /\ UNCHANGED <<stage, part, card, identity, plan, todo, touched, spoiled>>

\* What is left of the stage is any part of it.
RemoveStage ==
  /\ \E left \in SUBSET Files : stage' = [f \in Files |-> IF f \in left THEN stage[f] ELSE None]
  /\ part' \in SUBSET part

\* A variant that discards the stage of the very package it extracts.
DiscardAlways ==
  /\ pc = "prepare"
  /\ RemoveStage
  /\ spoiled' = (part' # {} \/ \E f \in Files : stage'[f] # None)
  /\ pc' = "identity"
  /\ UNCHANGED <<card, identity, plan, todo, touched>>

\* shutil.rmtree(ignore_errors=True): the program goes on with what is left.
Discard ==
  /\ pc = "prepare"
  /\ identity # StageIdentity(plan)
  /\ RemoveStage
  /\ spoiled' = (part' # {} \/ \E f \in Files : stage'[f] # None)
  /\ pc' = "identity"
  /\ UNCHANGED <<card, identity, plan, todo, touched>>

\* A variant that names the new plan before the old stage is gone.
DiscardNamedFirst ==
  /\ pc = "prepare"
  /\ identity # StageIdentity(plan)
  /\ RemoveStage
  /\ identity' = StageIdentity(plan)
  /\ pc' = "idle"
  /\ UNCHANGED <<card, plan, todo, touched, spoiled>>

\* The process is killed while it removes.
DiscardInterrupted ==
  /\ pc = "prepare"
  /\ identity # StageIdentity(plan)
  /\ RemoveStage
  /\ pc' = "idle"
  /\ UNCHANGED <<card, identity, plan, todo, touched, spoiled>>

\* A variant that goes through every file it has ever heard of.
WriteIdentityAll ==
  /\ pc = "identity"
  /\ identity' = StageIdentity(plan)
  /\ pc' = "extract"
  /\ todo' = Files
  /\ touched' = FALSE
  /\ UNCHANGED <<stage, part, card, plan, spoiled>>

WriteIdentity ==
  /\ pc = "identity"
  /\ identity' = StageIdentity(plan)
  /\ pc' = "extract"
  /\ todo' = PlanOf[plan]
  /\ touched' = FALSE
  /\ UNCHANGED <<stage, part, card, plan, spoiled>>

-----------------------------------------------------------------------------
(* extract: one item after the other, in the order of the plan *)

Item == CHOOSE f \in todo : \A g \in todo : f <= g

\* A variant that never compares more than sizes.
AlreadyStagedBySize(f) == stage[f] # None

\* item_already_staged: the size, which tells nothing here, and the checksum if the
\* item has one.  What is on the disk becomes the item's checksum.
AlreadyStaged(f) == stage[f] # None /\ (f \in Summed[plan] => stage[f] = plan)

Skip ==
  /\ pc = "extract"
  /\ todo # {}
  /\ AlreadyStaged(Item)
  /\ todo' = todo \ {Item}
  /\ UNCHANGED <<stage, part, card, identity, plan, pc, touched, spoiled>>

\* A variant that does not remove the .part of a killed run first: it is created
\* exclusively.
OpenPartExclusive ==
  /\ pc = "extract"
  /\ todo # {}
  /\ ~AlreadyStaged(Item)
  /\ IF Item \in part THEN pc' = "idle" ELSE pc' = "copy"
  /\ part' = part \cup {Item}
  /\ UNCHANGED <<stage, card, identity, plan, todo, touched, spoiled>>

OpenPart ==
  /\ pc = "extract"
  /\ todo # {}
  /\ ~AlreadyStaged(Item)
  /\ part' = part \cup {Item}
  /\ pc' = "copy"
  /\ UNCHANGED <<stage, card, identity, plan, todo, touched, spoiled>>

\* The data is whole and its checksum right: the .part gets its name.
Copied ==
  /\ pc = "copy"
  /\ stage' = [stage EXCEPT ![Item] = plan]
  /\ card' = card \ {Item}
  /\ part' = part \ {Item}
  /\ todo' = todo \ {Item}
  /\ touched' = TRUE
  /\ pc' = "extract"
  /\ UNCHANGED <<identity, plan, spoiled>>

\* One os.sync at the end, when this process has extracted anything.
SyncStage ==
  /\ pc = "extract"
  /\ todo = {}
  /\ card' = (IF touched THEN Files ELSE card)
  /\ pc' = "validate"
  /\ UNCHANGED <<stage, part, identity, plan, todo, touched, spoiled>>

-----------------------------------------------------------------------------
(* validate_tree and the outcome of commit, which moves whole roots *)

\* By now every item has the checksum it came with, or the one of what this process
\* has extracted or found, which nothing has changed since.
Valid ==
  /\ part = {}
  /\ \A f \in PlanOf[plan] : stage[f] # None /\ (f \in Summed[plan] => stage[f] = plan)

Validate ==
  /\ pc = "validate"
  /\ Valid
  /\ pc' = "commit"
  /\ UNCHANGED <<stage, part, card, identity, plan, todo, touched, spoiled>>

ValidateFails ==
  /\ pc = "validate"
  /\ ~Valid
  /\ pc' = "idle"
  /\ UNCHANGED <<stage, part, card, identity, plan, todo, touched, spoiled>>

Publish ==
  /\ pc = "commit"
  /\ stage' = [f \in Files |-> None]
  /\ card' = Files
  /\ spoiled' = FALSE
  /\ pc' = "idle"
  /\ UNCHANGED <<part, identity, plan, todo, touched>>

-----------------------------------------------------------------------------
(* Failures *)

\* An exception: too little space, an unreadable package, a wrong checksum, a
\* commit that is rolled back.  extract removes the .part it was writing.
Fail ==
  /\ Running
  /\ part' = IF pc = "copy" THEN part \ {Item} ELSE part
  /\ pc' = "idle"
  /\ UNCHANGED <<stage, card, identity, plan, todo, touched, spoiled>>

\* The process is killed.
Crash ==
  /\ Running
  /\ pc' = "idle"
  /\ UNCHANGED <<stage, part, card, identity, plan, todo, touched, spoiled>>

\* The power goes: what is still there afterwards is on the card.
PowerCut ==
  /\ \E lost \in SUBSET (Files \ card), torn \in SUBSET (Files \ card) :
       stage' = [f \in Files |-> IF stage[f] = None \/ f \in lost THEN None
                                 ELSE IF f \in torn THEN Garbage ELSE stage[f]]
  /\ part' \in SUBSET part
  /\ card' = Files
  /\ pc' = "idle"
  /\ UNCHANGED <<identity, plan, todo, touched, spoiled>>

-----------------------------------------------------------------------------
Step == \/ Start \/ Keep \/ Discard \/ WriteIdentity \/ Skip \/ OpenPart \/ Copied
        \/ SyncStage \/ Validate \/ ValidateFails \/ Publish

Fault == DiscardInterrupted \/ Fail \/ Crash \/ PowerCut

Next == Step \/ Fault

Spec == Init /\ [][Next]_vars

\* A process that is not killed goes on.  Nobody is bound to start another one.
FairSpec == Spec /\ WF_vars(Running /\ Step)

-----------------------------------------------------------------------------
(* Properties *)

TypeOK ==
  /\ stage \in [Files -> Packages \cup {None, Garbage}]
  /\ part \subseteq Files
  /\ card \subseteq Files
  /\ identity \in Identities \cup {None}
  /\ plan \in Packages
  /\ pc \in {"idle", "prepare", "identity", "extract", "copy", "validate", "commit"}
  /\ todo \subseteq Files
  /\ touched \in BOOLEAN
  /\ spoiled \in BOOLEAN
  /\ pc \in {"extract", "copy", "validate", "commit"} => identity = StageIdentity(plan)
  /\ pc \in {"extract", "copy"} => todo \subseteq PlanOf[plan]
  /\ pc = "copy" => todo # {} /\ Item \in part

\* "resume revalidates every staged file by hash": whatever was killed or cut before,
\* when extract is through, every item of the plan that has a checksum is in the stage
\* as the package has it.  An item without one is only there: unless a removal gave up
\* half way, it is a file that a power cut has garbled, or that of a package which the
\* fingerprint cannot tell from this one.
ResumeIsSound ==
  pc \in {"validate", "commit"} => \A f \in PlanOf[plan] :
    /\ stage[f] # None
    /\ f \in Summed[plan] => stage[f] = plan
    /\ ~spoiled /\ stage[f] # Garbage => StageIdentity(stage[f]) = StageIdentity(plan)

\* "Reuse the stage only when it belongs to this exact recipe and plan": unless a
\* removal gave up half way, what is committed is the plan's files and no others,
\* for whole roots are published, with all that is in them.
StageIsExact ==
  pc \in {"validate", "commit"} /\ ~spoiled =>
    part = {} /\ \A f \in Files \ PlanOf[plan] : stage[f] = None

\* A process that extracts what the stage was built for never throws a good file
\* away: only publishing or a power cut takes it.
WorkKept ==
  [][identity = StageIdentity(plan') /\ ~Publish /\ ~PowerCut =>
       \A f \in PlanOf[plan'] : stage[f] = plan' => stage'[f] = plan']_vars

\* Once nothing fails any more an import that is started again and again gets its
\* stage ready, whatever killed runs and power cuts have left there, unless a removal
\* gave up half way.
StagingCompletes ==
  (<>[][Step]_vars /\ []<>Running) => []<>(pc = "commit") \/ <>[]spoiled

-----------------------------------------------------------------------------
(* The inductive strengthening of ResumeIsSound and StageIsExact.            *)

\* What extract has behind it is what it takes for right.
ItemsDone ==
  /\ pc \in {"extract", "copy"} => \A f \in PlanOf[plan] \ todo : AlreadyStaged(f)
  /\ pc \in {"validate", "commit"} => \A f \in PlanOf[plan] : AlreadyStaged(f)

\* What a plan with this fingerprint would take for right.
Accepted(print, f) == stage[f] # None /\ (print[f] # None => stage[f] = print[f])

\* The stage holds nothing but files of plans with the fingerprint it is named for,
\* and a .part only beside a file that is not finished.
StageBelongs ==
  ~spoiled =>
    /\ \A f \in Files : stage[f] # None \/ f \in part =>
         identity \in Identities /\ f \in DOMAIN identity
    /\ \A f \in Files : stage[f] \in Packages => StageIdentity(stage[f]) = identity
    /\ \A f \in part : ~Accepted(identity, f)
    /\ pc = "identity" =>
         identity = StageIdentity(plan) \/ (part = {} /\ \A f \in Files : stage[f] = None)

StageInv ==
  /\ TypeOK
  /\ ItemsDone
  /\ StageBelongs
  /\ pc = "commit" => part = {}
=============================================================================
