-------------------------- MODULE EapxImport_proofs --------------------------
(* Proofs about what an import does before it commits: EapxPlan, for any       *)
(* recipe and any files in the game directory, and EapxStage, for any number   *)
(* of files and any packages.                                                 *)
EXTENDS EapxPlan, EapxStage, FiniteSetTheorems, SequenceTheorems, WellFoundedInduction, TLAPS

\* A set of numbers has a least one.
LEMMA Least ==
  ASSUME NEW S \in SUBSET Nat, S # {}
  PROVE  \E k \in S : \A j \in S : k <= j
<1> DEFINE R == OpToRel(<, Nat)
<1>1. IsWellFoundedOn(R, Nat)
  BY NatLessThanWellFounded
<1>2. \A i, j \in Nat : <<i, j>> \in R <=> i < j
  BY DEF OpToRel
<1> HIDE DEF R
<1>3. PICK k \in S : \A j \in S : ~(<<j, k>> \in R)
  BY <1>1, WFMin
<1>4. \A j \in S : ~(j < k)
  BY <1>2, <1>3
<1> QED
  BY <1>4

\* The item extract visits is one of those it has still to visit.
LEMMA ItemInTodo ==
  ASSUME todo \subseteq Files, todo # {}
  PROVE  Item \in todo
<1>1. todo \in SUBSET Nat
  BY StageAssumption DEF Files
<1> QED
  BY <1>1, Least DEF Item

-----------------------------------------------------------------------------
(* Types *)

LEMMA StageInitType == Init => TypeOK
BY StageAssumption DEF Init, TypeOK

LEMMA StageNextType == TypeOK /\ [Next]_vars => TypeOK'
<1> SUFFICES ASSUME TypeOK, [Next]_vars PROVE TypeOK'
  OBVIOUS
<1> USE StageAssumption
<1>0. \A p \in Packages : PlanOf[p] \subseteq Files
  BY DEF Files
<1>1. CASE Start \/ Keep
  BY <1>1 DEF Start, Keep, TypeOK
<1>2. CASE Discard \/ DiscardInterrupted
  BY <1>2 DEF Discard, DiscardInterrupted, RemoveStage, TypeOK
<1>3. CASE WriteIdentity
  BY <1>0, <1>3 DEF WriteIdentity, TypeOK, Identities
<1>4. CASE Skip
  BY <1>4 DEF Skip, TypeOK
<1>5. CASE OpenPart
  <2>1. Item \in todo /\ Item' = Item
    BY <1>5, ItemInTodo DEF OpenPart, TypeOK, Item
  <2> QED
    BY <1>5, <2>1 DEF OpenPart, TypeOK
<1>6. CASE Copied
  BY <1>6 DEF Copied, TypeOK
<1>7. CASE SyncStage \/ Validate \/ ValidateFails \/ Publish
  BY <1>7 DEF SyncStage, Validate, ValidateFails, Publish, TypeOK
<1>8. CASE Fail \/ Crash
  BY <1>8 DEF Fail, Crash, TypeOK
<1>9. CASE PowerCut
  BY <1>9 DEF PowerCut, TypeOK
<1>10. CASE UNCHANGED vars
  BY <1>10 DEF vars, TypeOK, Item
<1> QED
  BY <1>1, <1>2, <1>3, <1>4, <1>5, <1>6, <1>7, <1>8, <1>9, <1>10 DEF Next, Step, Fault

\* The type invariant, for any number of files and any packages.
THEOREM StageTypeCorrect == Spec => []TypeOK
BY StageInitType, StageNextType, PTL DEF Spec

-----------------------------------------------------------------------------
(* What the stage holds *)

\* item_already_staged asks what the plan's fingerprint asks.
LEMMA AcceptedStaged ==
  ASSUME TypeOK, NEW f \in PlanOf[plan]
  PROVE  Accepted(StageIdentity(plan), f) <=> AlreadyStaged(f)
BY StageAssumption DEF Accepted, AlreadyStaged, StageIdentity, TypeOK

LEMMA NextItemsDone ==
  ASSUME TypeOK, TypeOK', ItemsDone, [Next]_vars
  PROVE  ItemsDone'
<1> USE DEF ItemsDone, AlreadyStaged
<1>0. PlanOf[plan] \subseteq Files
  BY StageAssumption DEF TypeOK, Files
<1>1. CASE Start \/ Keep \/ Discard \/ DiscardInterrupted \/ WriteIdentity
  BY <1>1 DEF Start, Keep, Discard, DiscardInterrupted, WriteIdentity
<1>2. CASE Skip
  BY <1>2 DEF Skip
<1>3. CASE OpenPart
  BY <1>3 DEF OpenPart
<1>4. CASE Copied
  <2>1. \A f \in PlanOf[plan] \ todo' : stage'[f] # None /\ (f \in Summed[plan] => stage'[f] = plan)
    BY <1>0, <1>4, StageAssumption DEF Copied, TypeOK
  <2> QED
    BY <1>4, <2>1 DEF Copied
<1>5. CASE SyncStage \/ Validate \/ ValidateFails \/ Publish
  BY <1>5 DEF SyncStage, Validate, ValidateFails, Publish
<1>6. CASE Fail \/ Crash \/ PowerCut
  BY <1>6 DEF Fail, Crash, PowerCut
<1>7. CASE UNCHANGED vars
  BY <1>7 DEF vars
<1> QED
  BY <1>1, <1>2, <1>3, <1>4, <1>5, <1>6, <1>7 DEF Next, Step, Fault

LEMMA NextStageBelongs ==
  ASSUME TypeOK, TypeOK', StageBelongs, pc = "commit" => part = {}, [Next]_vars
  PROVE  StageBelongs'
<1> USE StageAssumption DEF StageBelongs
<1>1. CASE Start \/ Keep
  BY <1>1 DEF Start, Keep, Accepted
<1>2. CASE Discard
  BY <1>2 DEF Discard, RemoveStage, TypeOK
<1>3. CASE DiscardInterrupted
  <2>1. identity' = identity /\ spoiled' = spoiled /\ pc' = "idle" /\ part' \subseteq part
    BY <1>3 DEF DiscardInterrupted, RemoveStage
  <2>2. \A f \in Files : stage'[f] = stage[f] \/ stage'[f] = None
    BY <1>3 DEF DiscardInterrupted, RemoveStage
  <2> QED
    BY <2>1, <2>2 DEF TypeOK, Accepted
<1>4. CASE WriteIdentity
  BY <1>4 DEF WriteIdentity, TypeOK, Accepted
<1>5. CASE OpenPart \/ Copied
  <2>1. Item \in todo /\ Item \in PlanOf[plan] /\ Item \in Files
    BY <1>5, ItemInTodo DEF OpenPart, Copied, TypeOK
  <2>2. identity = StageIdentity(plan) /\ DOMAIN identity = PlanOf[plan]
    BY <1>5 DEF OpenPart, Copied, TypeOK, StageIdentity
  <2>i. identity \in Identities
    BY <2>2 DEF Identities, TypeOK
  <2>3. CASE OpenPart
    <3>1. ~Accepted(identity, Item)
      BY <2>1, <2>2, <2>3, AcceptedStaged DEF OpenPart
    <3> QED
      BY <2>1, <2>2, <2>i, <2>3, <3>1 DEF OpenPart, Accepted
  <2>4. CASE Copied
    <3>1. /\ stage' = [stage EXCEPT ![Item] = plan] /\ part' = part \ {Item}
          /\ UNCHANGED <<identity, plan, spoiled>> /\ pc' = "extract"
      BY <2>4 DEF Copied
    <3>2. stage'[Item] = plan /\ \A f \in Files \ {Item} : stage'[f] = stage[f]
      BY <2>1, <3>1 DEF TypeOK
    <3>3. \A f \in part' : f \in Files /\ f # Item
      BY <3>1 DEF TypeOK
    <3> QED
      BY <2>1, <2>2, <2>i, <3>1, <3>2, <3>3 DEF Accepted
  <2> QED
    BY <1>5, <2>3, <2>4
<1>7. CASE Skip \/ SyncStage \/ Validate \/ ValidateFails \/ Fail \/ Crash
  BY <1>7 DEF Skip, SyncStage, Validate, ValidateFails, Fail, Crash, Accepted
<1>8. CASE Publish
  BY <1>8 DEF Publish
<1>9. CASE PowerCut
  <2>1. identity' = identity /\ spoiled' = spoiled /\ pc' = "idle" /\ part' \subseteq part
    BY <1>9 DEF PowerCut
  <2>2. \A f \in Files : stage'[f] \in {stage[f], None, Garbage} /\ (stage[f] = None => stage'[f] = None)
    BY <1>9 DEF PowerCut
  <2>3. \A f \in part : f \in Files /\ (spoiled \/ identity[f] # None => spoiled \/ identity[f] \in Packages)
    BY DEF TypeOK, Identities, StageIdentity
  <2>4. \A f \in part : spoiled \/ ~Accepted(identity, f)'
    BY <2>1, <2>2, <2>3 DEF Accepted
  <2> QED
    BY <2>1, <2>2, <2>4 DEF TypeOK
<1>10. CASE UNCHANGED vars
  BY <1>10 DEF vars, Accepted
<1> QED
  BY <1>1, <1>2, <1>3, <1>4, <1>5, <1>7, <1>8, <1>9, <1>10 DEF Next, Step, Fault

LEMMA StageInitInv == Init => StageInv
<1> SUFFICES ASSUME Init PROVE StageInv
  OBVIOUS
<1>1. TypeOK
  BY StageInitType
<1>2. ItemsDone /\ StageBelongs
  BY StageAssumption DEF Init, ItemsDone, StageBelongs
<1> QED
  BY <1>1, <1>2 DEF StageInv, Init

LEMMA StageNextInv == StageInv /\ [Next]_vars => StageInv'
<1> SUFFICES ASSUME StageInv, [Next]_vars PROVE StageInv'
  OBVIOUS
<1>1. TypeOK'
  BY StageNextType DEF StageInv
<1>2. ItemsDone'
  BY <1>1, NextItemsDone DEF StageInv
<1>3. StageBelongs'
  BY <1>1, NextStageBelongs DEF StageInv
<1>4. (pc = "commit" => part = {})'
  BY DEF StageInv, Next, Step, Fault, Start, Keep, Discard, DiscardInterrupted, WriteIdentity,
         Skip, OpenPart, Copied, SyncStage, Validate, Valid, ValidateFails, Publish, Fail, Crash,
         PowerCut, vars
<1> QED
  BY <1>1, <1>2, <1>3, <1>4 DEF StageInv

LEMMA StageInvHolds == Spec => []StageInv
BY StageInitInv, StageNextInv, PTL DEF Spec

\* Whatever was killed or cut off before, an extraction that is through has every file
\* of its plan: right if it has a checksum, else a file of the same plan or a garbled one.
THEOREM ResumeSound == Spec => []ResumeIsSound
<1>1. StageInv => ResumeIsSound
  <2> SUFFICES ASSUME StageInv, pc \in {"validate", "commit"}, NEW f \in PlanOf[plan]
               PROVE  /\ stage[f] # None
                      /\ f \in Summed[plan] => stage[f] = plan
                      /\ ~spoiled /\ stage[f] # Garbage => StageIdentity(stage[f]) = StageIdentity(plan)
    BY DEF ResumeIsSound
  <2>1. AlreadyStaged(f) /\ identity = StageIdentity(plan) /\ f \in Files
    BY StageAssumption DEF StageInv, ItemsDone, TypeOK, Files
  <2>2. ~spoiled /\ stage[f] # Garbage => StageIdentity(stage[f]) = StageIdentity(plan)
    BY <2>1 DEF StageInv, StageBelongs, AlreadyStaged, TypeOK
  <2> QED
    BY <2>1, <2>2 DEF AlreadyStaged
<1> QED
  BY <1>1, StageInvHolds, PTL

\* Nothing but the plan's files is published, unless a removal gave up half way.
THEOREM StageExact == Spec => []StageIsExact
<1>1. StageInv => StageIsExact
  <2> SUFFICES ASSUME StageInv, pc \in {"validate", "commit"}, ~spoiled
               PROVE  part = {} /\ \A f \in Files \ PlanOf[plan] : stage[f] = None
    BY DEF StageIsExact
  <2>1. identity = StageIdentity(plan) /\ part \subseteq Files
    BY DEF StageInv, TypeOK
  <2>0. DOMAIN identity = PlanOf[plan]
    BY <2>1 DEF StageIdentity
  <2>2. \A f \in part : f \in PlanOf[plan] /\ ~AlreadyStaged(f)
    BY <2>0, <2>1, AcceptedStaged DEF StageInv, StageBelongs
  <2>3. part = {}
    BY <2>2 DEF StageInv, ItemsDone
  <2>4. \A f \in Files \ PlanOf[plan] : stage[f] = None
    BY <2>0, <2>1 DEF StageInv, StageBelongs
  <2> QED
    BY <2>3, <2>4
<1> QED
  BY <1>1, StageInvHolds, PTL

\* A step of an import that extracts what the stage was built for keeps every
\* finished file.
THEOREM FinishedWorkKept == Spec => WorkKept
<1> DEFINE Stays == identity = StageIdentity(plan') /\ ~Publish /\ ~PowerCut =>
                     \A f \in PlanOf[plan'] : stage[f] = plan' => stage'[f] = plan'
<1>1. TypeOK /\ TypeOK' /\ [Next]_vars => [Stays]_vars
  <2> SUFFICES ASSUME TypeOK, TypeOK', [Next]_vars, identity = StageIdentity(plan'), ~Publish, ~PowerCut,
                      NEW f \in PlanOf[plan'], stage[f] = plan'
               PROVE  stage'[f] = plan'
    OBVIOUS
  <2>1. f \in Files
    BY StageAssumption DEF TypeOK, Files
  <2>2. CASE Discard \/ DiscardInterrupted
    BY <2>2 DEF Discard, DiscardInterrupted
  <2>3. CASE Copied
    BY <2>1, <2>3 DEF Copied, TypeOK
  <2>4. CASE UNCHANGED stage
    BY <2>4
  <2> QED
    BY <2>2, <2>3, <2>4 DEF Next, Step, Fault, Start, Keep, WriteIdentity, Skip, OpenPart,
       SyncStage, Validate, ValidateFails, Fail, Crash, vars
<1> QED
  BY <1>1, StageTypeCorrect, PTL DEF Spec, WorkKept

-----------------------------------------------------------------------------
(* EapxPlan: nothing but the candidates decides what a group and its plans are *)

\* The first of a set of numbers is one of them, and the only one at or before all.
LEMMA ForemostIs ==
  ASSUME NEW S \in SUBSET Nat, S # {}
  PROVE  /\ Foremost(S) \in S
         /\ \A j \in S : Foremost(S) <= j
         /\ \A k \in S : (\A j \in S : k <= j) => k = Foremost(S)
<1>1. Foremost(S) \in S /\ \A j \in S : Foremost(S) <= j
  BY Least DEF Foremost
<1>2. ASSUME NEW k \in S, \A j \in S : k <= j
      PROVE  k = Foremost(S)
  <2>1. Foremost(S) \in Nat /\ k \in Nat
    BY <1>1
  <2>2. Foremost(S) <= k /\ k <= Foremost(S)
    BY <1>1, <1>2
  <2> QED
    BY <2>1, <2>2
<1> QED
  BY <1>1, <1>2

\* resolve_plan discovers once: the candidates stay, and so does all that is
\* computed of them.
LEMMA PlansStay ==
  ASSUME cands' = cands
  PROVE  /\ Groups' = Groups
         /\ \A k : GroupAt(k)' = GroupAt(k)
         /\ \A a, g : Fails(a, g)' = Fails(a, g)
         /\ \A a, g : BuildPlan(a, g)' = BuildPlan(a, g)
<1>1. (\A i : IsContainer(i)' = IsContainer(i)) /\ (\A i : IsApk(i)' = IsApk(i))
      /\ Candidates' = Candidates
  BY DEF IsContainer, IsApk, Candidates
<1>2. Apks' = Apks /\ Containers' = Containers
  BY <1>1 DEF Apks, Containers
<1>3. \A i : Turn(i)' = Turn(i)
  BY <1>1, <1>2 DEF Turn
<1>4. \A r, a, g, names : MemberItems(r, a, g, names)' = MemberItems(r, a, g, names)
  BY <1>1, <1>3 DEF MemberItems
<1>5. \A r, a, g : LooseItems(r, a, g)' = LooseItems(r, a, g)
  BY <1>3 DEF LooseItems
<1>6. \A r, a, g : FirstProductive(r, a, g)' = FirstProductive(r, a, g)
  <2>1. \A r, a, g : Productive(r, a, g)' = Productive(r, a, g)
    BY <1>4 DEF Productive
  <2> QED
    BY <2>1, <1>4 DEF FirstProductive
<1>7. \A r, a, g : Found(r, a, g)' = Found(r, a, g)
  BY <1>4, <1>5, <1>6 DEF Found
<1>8. \A a, g : AllFound(a, g)' = AllFound(a, g)
  BY <1>7 DEF AllFound
<1>9. \A a, g : Fails(a, g)' = Fails(a, g)
  BY <1>7, <1>8 DEF Fails
<1>10. \A a, g : BuildPlan(a, g)' = BuildPlan(a, g)
  BY <1>8 DEF BuildPlan
<1>11. Groups' = Groups
  BY <1>1, <1>2 DEF Groups
<1>12. \A g : Primary(g)' = Primary(g)
  BY <1>2 DEF Primary
<1>13. \A k : GroupAt(k)' = GroupAt(k)
  BY <1>11, <1>12 DEF GroupAt
<1> QED
  BY <1>9, <1>10, <1>11, <1>13

-----------------------------------------------------------------------------
(* Groups are met one after the other, each once *)

\* The packages and containers are some of the finitely many candidates.
LEMMA CandidateFacts ==
  ASSUME cands \in Inputs
  PROVE  /\ Len(cands) \in Nat /\ Candidates = 1..Len(cands)
         /\ IsFiniteSet(Candidates) /\ Candidates \subseteq Nat
         /\ Apks \subseteq Candidates /\ Containers \subseteq Candidates
<1>1. cands \in Seq({cands[k] : k \in DOMAIN cands})
  BY PlanAssumption
<1>2. Len(cands) \in Nat /\ Candidates = 1..Len(cands)
  BY <1>1, LenProperties DEF Candidates
<1>3. IsFiniteSet(Candidates)
  BY <1>2, FS_Interval
<1> QED
  BY <1>2, <1>3 DEF Apks, Containers

\* Those of a group that decide its turn.
Heads(g) == IF Apks # {} THEN g \cap Apks ELSE IF Containers # {} THEN g \cap Containers ELSE g

\* There are finitely many groups, and each has a primary, which is among its heads.
LEMMA GroupFacts ==
  ASSUME cands \in Inputs
  PROVE  /\ IsFiniteSet(Groups)
         /\ \A g \in Groups : /\ g \subseteq Candidates
                              /\ Heads(g) # {} /\ Heads(g) \subseteq Nat
                              /\ Primary(g) \in Heads(g)
<1>1. \A g \in Groups : g \subseteq Candidates
  BY CandidateFacts DEF Groups
<1>2. Groups \in SUBSET (SUBSET Candidates)
  BY <1>1
<1>3. IsFiniteSet(Groups)
  BY <1>2, CandidateFacts, FS_SUBSET, FS_Subset
<1>4. ASSUME NEW g \in Groups
      PROVE  Heads(g) # {} /\ Heads(g) \subseteq Nat
  <2>1. Heads(g) \subseteq Nat
    BY <1>1, CandidateFacts DEF Heads
  <2>2. CASE Apks # {}
    <3>1. PICK i \in Apks : i \in g
      BY <2>2 DEF Groups
    <3> QED
      BY <3>1, <2>1, <2>2 DEF Heads
  <2>3. CASE Apks = {} /\ Containers # {}
    <3>1. PICK i \in Containers : i \in g
      BY <2>3 DEF Groups
    <3> QED
      BY <3>1, <2>1, <2>3 DEF Heads
  <2>4. CASE Apks = {} /\ Containers = {}
    <3>1. g = Candidates /\ g # {}
      BY <2>4 DEF Groups
    <3> QED
      BY <3>1, <2>1, <2>4 DEF Heads
  <2> QED
    BY <2>1, <2>2, <2>3, <2>4
<1>5. \A g \in Groups : Primary(g) \in Heads(g)
  BY <1>4, ForemostIs DEF Primary, Heads
<1> QED
  BY <1>1, <1>3, <1>4, <1>5

\* Two groups do not share a head: a group is what its head belongs to.
LEMMA HeadsApart ==
  ASSUME cands \in Inputs, NEW g \in Groups, NEW h \in Groups, NEW p,
         p \in Heads(g), p \in Heads(h)
  PROVE  g = h
<1>1. CASE Apks # {}
  <2> DEFINE Class(i) == {j \in Apks : j = i \/ (cands[i].package # "unreadable" /\ cands[j].package = cands[i].package)}
  <2>1. \A k \in Groups : \E i \in Apks : k = Class(i) \cup (Candidates \ Apks)
    BY <1>1 DEF Groups
  <2>2. \A i \in Apks : p \in Class(i) => Class(i) = Class(p)
    OBVIOUS
  <2>3. ASSUME NEW k \in Groups, p \in Heads(k)
        PROVE  k = Class(p) \cup (Candidates \ Apks)
    <3>1. PICK i \in Apks : k = Class(i) \cup (Candidates \ Apks)
      BY <2>1
    <3>2. p \in Class(i)
      BY <3>1, <2>3, <1>1 DEF Heads
    <3> QED
      BY <3>1, <3>2, <2>2
  <2> QED
    BY <2>3
<1>2. CASE Apks = {} /\ Containers # {}
  BY <1>2 DEF Heads, Groups
<1>3. CASE Apks = {} /\ Containers = {}
  BY <1>3 DEF Heads, Groups
<1> QED
  BY <1>1, <1>2, <1>3

\* Those that come before a group.
Before(g) == {h \in Groups : Primary(h) < Primary(g)}

\* A group comes after more groups than those that come before it do.
LEMMA RanksApart ==
  ASSUME cands \in Inputs, NEW g \in Groups, NEW h \in Groups, Primary(g) < Primary(h)
  PROVE  Cardinality(Before(g)) # Cardinality(Before(h))
<1>1. \A k \in Groups : Primary(k) \in Nat
  BY GroupFacts
<1>2. Before(g) \in SUBSET Before(h)
  <2> SUFFICES ASSUME NEW k \in Groups, Primary(k) < Primary(g)
               PROVE  Primary(k) < Primary(h)
    BY DEF Before
  <2> QED
    BY <1>1
<1>3. g \in Before(h) /\ g \notin Before(g)
  BY <1>1 DEF Before
<1>4. IsFiniteSet(Before(h))
  BY GroupFacts, FS_Subset DEF Before
<1> QED
  BY <1>2, <1>3, <1>4, FS_Subset

\* The k-th group is a group, and each group is the k-th for some k: resolve_plan
\* visits every group.  Ranks are an injection into as many numbers, so each is met.
LEMMA GroupsInTurn ==
  ASSUME cands \in Inputs
  PROVE  /\ Cardinality(Groups) \in Nat
         /\ \A k \in 1..Cardinality(Groups) : GroupAt(k) \in Groups
         /\ \A g \in Groups : \E k \in 1..Cardinality(Groups) : g = GroupAt(k)
<1> DEFINE n == Cardinality(Groups)
           rank == [g \in Groups |-> Cardinality(Before(g))]
<1>1. n \in Nat /\ IsFiniteSet(Groups)
  BY GroupFacts, FS_CardinalityType
<1>2. \A g \in Groups : rank[g] \in 0..(n - 1)
  <2> SUFFICES ASSUME NEW g \in Groups
               PROVE  Cardinality(Before(g)) \in 0..(n - 1)
    OBVIOUS
  <2>1. Before(g) \in SUBSET Groups /\ g \notin Before(g)
    BY GroupFacts DEF Before
  <2>2. IsFiniteSet(Before(g)) /\ Cardinality(Before(g)) <= n /\ Cardinality(Before(g)) # n
    BY <2>1, <1>1, FS_Subset
  <2>3. Cardinality(Before(g)) \in Nat
    BY <2>2, FS_CardinalityType
  <2> QED
    BY <2>2, <2>3, <1>1
<1>3. \A g, h \in Groups : rank[g] = rank[h] => g = h
  <2> SUFFICES ASSUME NEW g \in Groups, NEW h \in Groups, rank[g] = rank[h], g # h
               PROVE  FALSE
    OBVIOUS
  <2>1. Primary(g) # Primary(h)
    BY GroupFacts, HeadsApart
  <2>2. Primary(g) \in Nat /\ Primary(h) \in Nat
    BY GroupFacts
  <2>3. Cardinality(Before(g)) = Cardinality(Before(h))
    OBVIOUS
  <2>4. CASE Primary(g) < Primary(h)
    BY <2>3, <2>4, RanksApart
  <2>5. CASE Primary(h) < Primary(g)
    BY <2>3, <2>5, RanksApart
  <2> QED
    BY <2>1, <2>2, <2>4, <2>5
<1>4. \A g \in Groups, k \in Nat : Cardinality(Before(g)) = k - 1 => g = GroupAt(k)
  <2> SUFFICES ASSUME NEW g \in Groups, NEW k \in Nat, Cardinality(Before(g)) = k - 1
               PROVE  g = GroupAt(k)
    OBVIOUS
  <2>1. GroupAt(k) = CHOOSE x \in Groups : Cardinality(Before(x)) = k - 1
    BY DEF GroupAt, Before
  <2>2. GroupAt(k) \in Groups /\ Cardinality(Before(GroupAt(k))) = k - 1
    BY <2>1
  <2> QED
    BY <2>2, <1>3
<1>5. \A k \in 1..n : \E g \in Groups : rank[g] = k - 1
  <2>1. rank \in Injection(Groups, 0..(n - 1))
    BY <1>2, <1>3 DEF Injection, IsInjective
  <2>2. IsFiniteSet(0..(n - 1)) /\ Cardinality(0..(n - 1)) = n
    BY <1>1, FS_Interval
  <2>3. rank \in Surjection(Groups, 0..(n - 1))
    BY <2>1, <2>2, FS_Injection
  <2> QED
    <3>1. \A x \in 0..(n - 1) : \E g \in Groups : rank[g] = x
      BY <2>3 DEF Surjection
    <3>2. \A k \in 1..n : k - 1 \in 0..(n - 1)
      BY <1>1
    <3> HIDE DEF rank
    <3> QED
      BY <3>1, <3>2
<1>6. \A g \in Groups : \E k \in 1..n : g = GroupAt(k)
  <2> SUFFICES ASSUME NEW g \in Groups
               PROVE  \E k \in 1..n : g = GroupAt(k)
    OBVIOUS
  <2>1. rank[g] + 1 \in 1..n /\ rank[g] = (rank[g] + 1) - 1
    BY <1>1, <1>2
  <2>2. g = GroupAt(rank[g] + 1)
    BY <2>1, <1>4
  <2> QED
    BY <2>1, <2>2
<1>7. \A k \in 1..n : GroupAt(k) \in Groups
  <2> SUFFICES ASSUME NEW k \in 1..n
               PROVE  GroupAt(k) \in Groups
    OBVIOUS
  <2>1. PICK g \in Groups : rank[g] = k - 1
    BY <1>5
  <2>2. g = GroupAt(k)
    BY <2>1, <1>4
  <2> QED
    BY <2>2
<1> QED
  BY <1>1, <1>6, <1>7

-----------------------------------------------------------------------------
(* The inductive invariant: which groups have been planned for, and how *)

\* What a group is good for, and how many groups there are.
BestPlan(g) == BuildPlan(BestAbi(g), g)
Count == Cardinality(Groups)

PlanTypeOK ==
  /\ cands \in Inputs
  /\ group \in 1..(Count + 1)
  /\ abi \in DOMAIN Abis
  /\ winners \in Seq({BestPlan(g) : g \in Playable})

\* No earlier ABI had a plan for this group.
AbisTried ==
  group <= Count => \A j \in 1..(abi - 1) : Fails(Abis[j], GroupAt(group))

\* Each winner is the best plan of a group gone by, and each of those that has a
\* plan has a winner.
WinnersAreBest ==
  /\ \A k \in DOMAIN winners : \E i \in 1..(group - 1) :
       AbisFor(GroupAt(i)) # {} /\ winners[k] = BestPlan(GroupAt(i))
  /\ \A i \in 1..(group - 1) : AbisFor(GroupAt(i)) # {} =>
       \E k \in DOMAIN winners : winners[k] = BestPlan(GroupAt(i))

DecidedLast ==
  verdict \in {"plan", "refused"} =>
    /\ group = Count + 1
    /\ verdict = "plan" <=> Cardinality(Versions) = 1

PlanInv == PlanTypeOK /\ AbisTried /\ WinnersAreBest /\ DecidedLast

LEMMA AbiFacts ==
  /\ DOMAIN Abis = 1..Len(Abis) /\ Len(Abis) \in Nat \ {0}
  /\ \A g : AbisFor(g) \subseteq DOMAIN Abis
<1>1. Abis \in Seq({Abis[k] : k \in DOMAIN Abis}) /\ Abis # <<>>
  BY PlanAssumption
<1>2. DOMAIN Abis = 1..Len(Abis) /\ Len(Abis) \in Nat
  BY <1>1, LenProperties
<1>3. Len(Abis) # 0
  BY <1>1, EmptySeq
<1> QED
  BY <1>2, <1>3 DEF AbisFor

LEMMA PlanInitInv == PlanInit => PlanInv
<1> SUFFICES ASSUME PlanInit
             PROVE  PlanInv
  OBVIOUS
<1> USE DEF PlanInit
<1>1. Count \in Nat
  BY GroupsInTurn DEF Count
<1>2. PlanTypeOK
  BY <1>1, AbiFacts, EmptySeq DEF PlanTypeOK
<1>3. AbisTried /\ WinnersAreBest /\ DecidedLast
  BY DEF AbisTried, WinnersAreBest, DecidedLast
<1> QED
  BY <1>2, <1>3 DEF PlanInv

\* What every step leaves alone.
LEMMA PlanSteps ==
  ASSUME cands' = cands
  PROVE  /\ Groups' = Groups /\ Count' = Count /\ Playable' = Playable
         /\ \A k : GroupAt(k)' = GroupAt(k)
         /\ \A a, g : Fails(a, g)' = Fails(a, g)
         /\ \A a, g : BuildPlan(a, g)' = BuildPlan(a, g)
         /\ \A g : AbisFor(g)' = AbisFor(g)
         /\ \A g : BestAbi(g)' = BestAbi(g)
         /\ \A g : BestPlan(g)' = BestPlan(g)
<1>1. /\ Groups' = Groups /\ \A k : GroupAt(k)' = GroupAt(k)
      /\ \A a, g : Fails(a, g)' = Fails(a, g)
      /\ \A a, g : BuildPlan(a, g)' = BuildPlan(a, g)
  BY PlansStay
<1>2. \A g : AbisFor(g)' = AbisFor(g)
  BY <1>1 DEF AbisFor
<1>3. \A g : BestAbi(g)' = BestAbi(g)
  BY <1>2 DEF BestAbi
<1> QED
  BY <1>1, <1>2, <1>3 DEF BestPlan, Count, Playable

LEMMA TakeAbiInv == PlanInv /\ TakeAbi => PlanInv'
<1> SUFFICES ASSUME PlanInv, TakeAbi
             PROVE  PlanInv'
  OBVIOUS
<1> DEFINE g == GroupAt(group)
<1>a. /\ verdict = "pending" /\ verdict' = "pending" /\ group <= Count /\ ~Fails(Abis[abi], g)
      /\ winners' = Append(winners, BuildPlan(Abis[abi], g))
      /\ group' = group + 1 /\ abi' = 1 /\ cands' = cands
  BY DEF TakeAbi, Planning, Count
<1>b. /\ Groups' = Groups /\ Count' = Count /\ Playable' = Playable
      /\ \A k : GroupAt(k)' = GroupAt(k)
      /\ \A a, h : Fails(a, h)' = Fails(a, h)
      /\ \A h : AbisFor(h)' = AbisFor(h)
      /\ \A h : BestPlan(h)' = BestPlan(h)
  BY <1>a, PlanSteps
<1>0. PlanTypeOK /\ AbisTried /\ WinnersAreBest
  BY DEF PlanInv
<1>c. Count \in Nat /\ group \in 1..Count /\ g \in Groups
  BY <1>0, <1>a, GroupsInTurn DEF PlanTypeOK, Count
\* The ABI is the best one for the group.
<1>d. abi \in AbisFor(g) /\ \A j \in AbisFor(g) : abi <= j
  <2>1. abi \in AbisFor(g)
    BY <1>0, <1>a DEF PlanTypeOK, AbisFor
  <2>2. ASSUME NEW j \in AbisFor(g)
        PROVE  abi <= j
    <3>1. j \in Nat \ {0} /\ abi \in Nat /\ ~Fails(Abis[j], g)
      BY <1>0, AbiFacts DEF AbisFor, PlanTypeOK
    <3>2. j \notin 1..(abi - 1)
      BY <3>1, <1>0, <1>a DEF AbisTried
    <3> QED
      BY <3>1, <3>2
  <2> QED
    BY <2>1, <2>2
<1>e. BuildPlan(Abis[abi], g) = BestPlan(g)
  <2>1. AbisFor(g) \in SUBSET Nat /\ AbisFor(g) # {}
    BY <1>d, AbiFacts
  <2>2. abi = Foremost(AbisFor(g))
    BY <2>1, <1>d, ForemostIs
  <2> QED
    BY <2>2 DEF BestPlan, BestAbi
<1> DEFINE S == {BestPlan(h) : h \in Playable}
           n == Len(winners)
<1>f. /\ winners' \in Seq(S) /\ DOMAIN winners = 1..n /\ n \in Nat /\ DOMAIN winners' = 1..(n + 1)
      /\ \A k \in DOMAIN winners : winners'[k] = winners[k]
      /\ winners'[n + 1] = BestPlan(g)
  <2>1. winners \in Seq(S) /\ BestPlan(g) \in S
    BY <1>0, <1>c, <1>d DEF PlanTypeOK, Playable
  <2> HIDE DEF S
  <2>2. DOMAIN winners = 1..n /\ n \in Nat
    BY <2>1, LenProperties
  <2> QED
    BY <2>1, <2>2, <1>a, <1>e, AppendProperties
<1>1. PlanTypeOK'
  <2>1. {BestPlan(h)' : h \in Playable'} = S
    BY <1>b
  <2> QED
    BY <2>1, <1>0, <1>a, <1>b, <1>c, <1>f, AbiFacts DEF PlanTypeOK
<1>2. AbisTried'
  BY <1>a DEF AbisTried
<1>3. WinnersAreBest'
  <2>0. \A i : i \in 1..group <=> i \in 1..(group - 1) \/ i = group
    BY <1>c
  <2>1. \A k \in DOMAIN winners' : \E i \in 1..group :
          AbisFor(GroupAt(i)) # {} /\ winners'[k] = BestPlan(GroupAt(i))
    <3> SUFFICES ASSUME NEW k \in DOMAIN winners'
                 PROVE  \E i \in 1..group : AbisFor(GroupAt(i)) # {} /\ winners'[k] = BestPlan(GroupAt(i))
      OBVIOUS
    <3>1. CASE k = n + 1
      BY <3>1, <1>d, <1>f, <2>0
    <3>2. CASE k # n + 1
      <4>1. k \in DOMAIN winners
        BY <3>2, <1>f
      <4> QED
        BY <4>1, <1>0, <1>f, <2>0 DEF WinnersAreBest
    <3> QED
      BY <3>1, <3>2
  <2>2. \A i \in 1..group : AbisFor(GroupAt(i)) # {} =>
          \E k \in DOMAIN winners' : winners'[k] = BestPlan(GroupAt(i))
    <3> SUFFICES ASSUME NEW i \in 1..group, AbisFor(GroupAt(i)) # {}
                 PROVE  \E k \in DOMAIN winners' : winners'[k] = BestPlan(GroupAt(i))
      OBVIOUS
    <3>1. CASE i = group
      BY <3>1, <1>f
    <3>2. CASE i # group
      <4>1. PICK k \in DOMAIN winners : winners[k] = BestPlan(GroupAt(i))
        BY <3>2, <1>0, <2>0 DEF WinnersAreBest
      <4>2. k \in DOMAIN winners' /\ winners'[k] = winners[k]
        BY <1>f
      <4> QED
        BY <4>1, <4>2
    <3> QED
      BY <3>1, <3>2
  <2>3. group' - 1 = group
    BY <1>a, <1>c
  <2> QED
    BY <2>1, <2>2, <2>3, <1>b DEF WinnersAreBest
<1>4. DecidedLast'
  BY <1>a DEF DecidedLast
<1> QED
  BY <1>1, <1>2, <1>3, <1>4 DEF PlanInv

LEMMA NextAbiInv == PlanInv /\ NextAbi => PlanInv'
<1> SUFFICES ASSUME PlanInv, NextAbi
             PROVE  PlanInv'
  OBVIOUS
<1> DEFINE g == GroupAt(group)
<1>a. /\ verdict = "pending" /\ verdict' = "pending" /\ group <= Count /\ Fails(Abis[abi], g)
      /\ winners' = winners /\ cands' = cands
      /\ \/ abi < Len(Abis) /\ abi' = abi + 1 /\ group' = group
         \/ ~(abi < Len(Abis)) /\ abi' = 1 /\ group' = group + 1
  BY DEF NextAbi, Planning, Count
<1>b. /\ Groups' = Groups /\ Count' = Count /\ Playable' = Playable
      /\ \A k : GroupAt(k)' = GroupAt(k)
      /\ \A a, h : Fails(a, h)' = Fails(a, h)
      /\ \A h : AbisFor(h)' = AbisFor(h)
      /\ \A h : BestPlan(h)' = BestPlan(h)
  BY <1>a, PlanSteps
<1>0. PlanTypeOK /\ AbisTried /\ WinnersAreBest
  BY DEF PlanInv
<1>c. Count \in Nat /\ group \in 1..Count /\ abi \in 1..Len(Abis) /\ Len(Abis) \in Nat \ {0}
  BY <1>0, <1>a, GroupsInTurn, AbiFacts DEF PlanTypeOK, Count
<1>1. PlanTypeOK'
  <2>1. {BestPlan(h)' : h \in Playable'} = {BestPlan(h) : h \in Playable}
    BY <1>b
  <2>2. group' \in 1..(Count + 1) /\ abi' \in 1..Len(Abis)
    BY <1>a, <1>c
  <2> QED
    BY <2>1, <2>2, <1>0, <1>a, <1>b, AbiFacts DEF PlanTypeOK
<1>4. DecidedLast'
  BY <1>a DEF DecidedLast
<1>5. CASE abi < Len(Abis)
  <2>1. abi' = abi + 1 /\ group' = group
    BY <1>5, <1>a
  <2>2. \A j \in 1..(abi' - 1) : j \in 1..(abi - 1) \/ j = abi
    BY <2>1, <1>c
  <2>3. AbisTried'
    BY <2>1, <2>2, <1>0, <1>a, <1>b DEF AbisTried
  <2>4. WinnersAreBest'
    BY <2>1, <1>0, <1>a, <1>b DEF WinnersAreBest
  <2> QED
    BY <2>3, <2>4, <1>1, <1>4 DEF PlanInv
<1>6. CASE ~(abi < Len(Abis))
  <2>1. abi' = 1 /\ group' = group + 1 /\ group' - 1 = group
    BY <1>6, <1>a, <1>c
  <2>2. AbisTried'
    BY <2>1 DEF AbisTried
  <2>3. AbisFor(g) = {}
    <3>1. \A j \in DOMAIN Abis : j \in 1..(abi - 1) \/ j = abi
      BY <1>6, <1>c, AbiFacts
    <3> QED
      BY <3>1, <1>0, <1>a DEF AbisTried, AbisFor
  <2>4. WinnersAreBest'
    <3>1. \A i : i \in 1..group <=> i \in 1..(group - 1) \/ i = group
      BY <1>c
    <3>2. \A k \in DOMAIN winners : \E i \in 1..group :
            AbisFor(GroupAt(i)) # {} /\ winners[k] = BestPlan(GroupAt(i))
      BY <3>1, <1>0 DEF WinnersAreBest
    <3>3. \A i \in 1..group : AbisFor(GroupAt(i)) # {} =>
            \E k \in DOMAIN winners : winners[k] = BestPlan(GroupAt(i))
      BY <3>1, <2>3, <1>0 DEF WinnersAreBest
    <3> QED
      BY <3>2, <3>3, <2>1, <1>a, <1>b DEF WinnersAreBest
  <2> QED
    BY <2>2, <2>4, <1>1, <1>4 DEF PlanInv
<1> QED
  BY <1>5, <1>6

LEMMA QuietStep ==
  ASSUME PlanInv, UNCHANGED <<cands, group, abi, winners>>
  PROVE  PlanTypeOK' /\ AbisTried' /\ WinnersAreBest' /\ Versions' = Versions /\ Count' = Count
<1>b. /\ Groups' = Groups /\ Count' = Count /\ Playable' = Playable
      /\ \A k : GroupAt(k)' = GroupAt(k)
      /\ \A a, h : Fails(a, h)' = Fails(a, h)
      /\ \A h : AbisFor(h)' = AbisFor(h)
      /\ \A h : BestPlan(h)' = BestPlan(h)
  BY PlanSteps
<1>1. {BestPlan(h)' : h \in Playable'} = {BestPlan(h) : h \in Playable}
  BY <1>b
<1>2. PlanTypeOK'
  BY <1>1, <1>b DEF PlanInv, PlanTypeOK
<1>3. AbisTried' /\ WinnersAreBest'
  BY <1>b DEF PlanInv, AbisTried, WinnersAreBest
<1>4. Versions' = Versions
  BY DEF Versions, Fingerprint
<1> QED
  BY <1>b, <1>2, <1>3, <1>4

LEMMA DecideInv == PlanInv /\ Decide => PlanInv'
<1> SUFFICES ASSUME PlanInv, Decide
             PROVE  PlanInv'
  OBVIOUS
<1>1. PlanTypeOK' /\ AbisTried' /\ WinnersAreBest' /\ Versions' = Versions /\ Count' = Count
  BY QuietStep DEF Decide
<1>2. Count \in Nat /\ group \in 1..(Count + 1) /\ group' = group
  BY GroupsInTurn DEF PlanInv, PlanTypeOK, Count, Decide
<1>3. group = Count + 1
  BY <1>2 DEF Decide, Planning, Count
<1>4. verdict' = IF Cardinality(Versions) = 1 THEN "plan" ELSE "refused"
  BY DEF Decide
<1>5. DecidedLast'
  BY <1>1, <1>2, <1>3, <1>4 DEF DecidedLast
<1> QED
  BY <1>1, <1>5 DEF PlanInv

\* However many packages and ABIs there are, resolve_plan visits each group once, finds
\* no plan for an ABI it passed over, and keeps for each group gone by the plan of its
\* best ABI, if it has one; it decides only after the last.
THEOREM PlanInvariant == PlanSpec => []PlanInv
<1>1. PlanInv /\ UNCHANGED planvars => PlanInv'
  <2> SUFFICES ASSUME PlanInv, UNCHANGED planvars
               PROVE  PlanInv'
    OBVIOUS
  <2>1. PlanTypeOK' /\ AbisTried' /\ WinnersAreBest' /\ Versions' = Versions /\ Count' = Count
    BY QuietStep DEF planvars
  <2>2. DecidedLast'
    BY <2>1 DEF planvars, PlanInv, DecidedLast
  <2> QED
    BY <2>1, <2>2 DEF PlanInv
<1>2. PlanInv /\ [PlanNext]_planvars => PlanInv'
  BY <1>1, TakeAbiInv, NextAbiInv, DecideInv DEF PlanNext
<1> QED
  BY <1>2, PlanInitInv, PTL DEF PlanSpec

-----------------------------------------------------------------------------
(* What a plan keeps of what was found *)

\* Where a rule puts what it finds.
Places(r, a) == IF Rules[r].kind = "entries" THEN Named(r, a) ELSE {Rules[r].dest}

\* collect_rule: an item carries its rule and its candidate's turn, has passed the
\* rule's checks, is hashed if the rule says so and goes to one of its places.
LEMMA FoundShape ==
  ASSUME NEW g, NEW a, NEW r \in RuleIds, NEW x \in Found(r, a, g)
  PROVE  /\ x.rule = r
         /\ \E i \in g : x.turn \in {Turn(i), 2 * Len(cands) + Turn(i)}
         /\ Passes(r, a, x.content)
         /\ Hashed(r) => x.summed
         /\ x.dest \in Places(r, a)
<1>1. ASSUME NEW names, x \in MemberItems(r, a, g, names)
      PROVE  /\ x.rule = r /\ Passes(r, a, x.content) /\ (Hashed(r) => x.summed)
             /\ \E i \in g : x.turn = 2 * Len(cands) + Turn(i)
             /\ x.dest \in IF Rules[r].kind = "entries" THEN names ELSE {Rules[r].dest}
  <2>1. PICK p \in {i \in g : IsContainer(i)} \X names :
          /\ Passes(r, a, cands[p[1]].files[p[2]])
          /\ x = [rule |-> r, turn |-> 2 * Len(cands) + Turn(p[1]), content |-> cands[p[1]].files[p[2]],
                  dest |-> IF Rules[r].kind = "entries" THEN p[2] ELSE Rules[r].dest,
                  summed |-> cands[p[1]].how = "archive" \/ Hashed(r)]
    BY <1>1 DEF MemberItems
  <2> QED
    BY <2>1
<1>2. ASSUME x \in LooseItems(r, a, g)
      PROVE  /\ x.rule = r /\ Passes(r, a, x.content) /\ (Hashed(r) => x.summed)
             /\ \E i \in g : x.turn = Turn(i)
             /\ x.dest = Rules[r].dest
  <2> DEFINE matched == {i \in g : cands[i].name \in Named(r, a)}
             many == Cardinality(matched) > 1
  <2>1. x \in {[rule |-> r, turn |-> Turn(i), content |-> cands[i].bytes, dest |-> Rules[r].dest,
                summed |-> Hashed(r) \/ many] : i \in {j \in matched : Passes(r, a, cands[j].bytes)}}
    BY <1>2 DEF LooseItems
  <2> HIDE DEF many
  <2>2. PICK i \in matched :
          /\ Passes(r, a, cands[i].bytes)
          /\ x = [rule |-> r, turn |-> Turn(i), content |-> cands[i].bytes, dest |-> Rules[r].dest,
                  summed |-> Hashed(r) \/ many]
    BY <2>1
  <2> QED
    BY <2>2
<1>3. CASE Rules[r].kind = "blob"
  <2>1. x \in LooseItems(r, a, g) \/ x \in MemberItems(r, a, g, Named(r, a))
    BY <1>3 DEF Found
  <2>2. x.dest = Rules[r].dest
    BY <2>1, <1>1, <1>2, <1>3
  <2> QED
    BY <2>1, <2>2, <1>1, <1>2, <1>3 DEF Places
<1>4. CASE Rules[r].kind = "entry"
  <2>1. PICK names : x \in MemberItems(r, a, g, names)
    BY <1>4 DEF Found, FirstProductive
  <2>2. x.dest = Rules[r].dest
    BY <2>1, <1>1, <1>4
  <2> QED
    BY <2>1, <2>2, <1>1, <1>4 DEF Places
<1>5. CASE Rules[r].kind = "entries"
  <2>1. x \in MemberItems(r, a, g, Named(r, a))
    BY <1>5 DEF Found
  <2>2. x.dest \in Named(r, a)
    BY <2>1, <1>1, <1>5
  <2> QED
    BY <2>1, <2>2, <1>1, <1>5 DEF Places
<1> QED
  BY <1>3, <1>4, <1>5, PlanAssumption DEF RuleIds

\* The same of what all rules find.
LEMMA FoundFacts ==
  ASSUME cands \in Inputs, NEW g \in Groups, NEW a, NEW x \in AllFound(a, g)
  PROVE  /\ x.rule \in RuleIds /\ x.turn \in Nat
         /\ Passes(x.rule, a, x.content) /\ (Hashed(x.rule) => x.summed)
         /\ x.dest \in Places(x.rule, a)
<1>1. /\ g \subseteq Candidates /\ Len(cands) \in Nat /\ Candidates = 1..Len(cands)
  BY GroupFacts, CandidateFacts
<1>2. \A i \in g : Turn(i) \in Nat
  BY <1>1 DEF Turn
<1>3. PICK r \in RuleIds : x \in Found(r, a, g)
  BY DEF AllFound
<1>4. x.rule = r /\ \E i \in g : x.turn \in {Turn(i), 2 * Len(cands) + Turn(i)}
  BY <1>3, FoundShape
<1>5. x.turn \in Nat
  BY <1>1, <1>2, <1>4
<1> QED
  BY <1>3, <1>4, <1>5, FoundShape

\* Of the files found for one destination a plan keeps one.
LEMMA KeptOne ==
  ASSUME cands \in Inputs, NEW g \in Groups, NEW a, NEW y \in AllFound(a, g)
  PROVE  \E x \in Kept(AllFound(a, g)) : x.dest = y.dest
<1> DEFINE F == AllFound(a, g)
           D == {u \in F : u.dest = y.dest}
           m == Len(Rules)
<1>1. m \in Nat /\ RuleIds = 1..m
  BY PlanAssumption, LenProperties DEF RuleIds
<1>2. \A u \in D : u.rule \in 1..m /\ u.turn \in Nat /\ u.dest = y.dest
  BY <1>1, FoundFacts
<1>3. y \in D
  OBVIOUS
<1> HIDE DEF D, F, m
\* The last of the rules, and the first file it found.
<1>4. PICK u \in D : \A v \in D : v.rule <= u.rule
  <2> DEFINE S == {m - v.rule : v \in D}
  <2>1. S \subseteq Nat /\ S # {}
    BY <1>1, <1>2, <1>3
  <2>2. PICK k \in S : \A j \in S : k <= j
    BY <2>1, Least
  <2>3. PICK v \in D : k = m - v.rule
    BY <2>2
  <2>4. \A w \in D : m - v.rule <= m - w.rule
    BY <2>2, <2>3
  <2>5. \A w \in D : w.rule <= v.rule
    BY <2>4, <1>1, <1>2
  <2> QED
    BY <2>5
<1>5. PICK x \in D : x.rule = u.rule /\ \A v \in D : v.rule = u.rule => x.turn <= v.turn
  <2> DEFINE S == {v.turn : v \in {w \in D : w.rule = u.rule}}
  <2>1. S \subseteq Nat /\ S # {}
    BY <1>2
  <2>2. PICK k \in S : \A j \in S : k <= j
    BY <2>1, Least
  <2> QED
    BY <2>2
<1>6. \A v \in D : v.rule < x.rule \/ (v.rule = x.rule /\ x.turn <= v.turn)
  BY <1>2, <1>4, <1>5
<1>7. x \in F /\ x.dest = y.dest
  BY DEF D
<1>8. x \in Kept(F)
  BY <1>6, <1>7 DEF Kept, D
<1> QED
  BY <1>7, <1>8 DEF F

\* Where collect_rule found no conflict, one destination means one identity.
LEMMA OneIdentity ==
  ASSUME NEW a, NEW g, ~Fails(a, g), NEW x \in AllFound(a, g), NEW y \in AllFound(a, g),
         x.dest = y.dest
  PROVE  Identity(x) = Identity(y)
BY DEF Fails, Conflict

\* The ABI a group is planned for is one that does not fail.
LEMMA BestAbiWorks ==
  ASSUME NEW g, AbisFor(g) # {}
  PROVE  ~Fails(BestAbi(g), g) /\ \E k \in DOMAIN Abis : BestAbi(g) = Abis[k]
<1>1. AbisFor(g) \in SUBSET Nat
  BY AbiFacts
<1>2. Foremost(AbisFor(g)) \in AbisFor(g)
  BY <1>1, ForemostIs
<1> QED
  BY <1>2 DEF AbisFor, BestAbi

\* One version: every winner is of it.
LEMMA OneVersion ==
  ASSUME PlanTypeOK
  PROVE  /\ DOMAIN winners = 1..Len(winners) /\ Len(winners) \in Nat
         /\ Cardinality(Versions) = 1 <=>
              /\ winners # <<>>
              /\ \A j, k \in DOMAIN winners : Fingerprint(winners[j]) = Fingerprint(winners[k])
<1> DEFINE S == {BestPlan(g) : g \in Playable}
<1>1. winners \in Seq(S)
  BY DEF PlanTypeOK
<1> HIDE DEF S
<1>2. DOMAIN winners = 1..Len(winners) /\ Len(winners) \in Nat
  BY <1>1, LenProperties
<1>3. winners # <<>> <=> DOMAIN winners # {}
  <2>1. Len(winners) = 0 <=> winners = <<>>
    BY <1>1, EmptySeq
  <2>2. 1..Len(winners) = {} <=> Len(winners) = 0
    BY <1>2
  <2> QED
    BY <2>1, <2>2, <1>2
<1> DEFINE f == [k \in DOMAIN winners |-> Fingerprint(winners[k])]
<1>4. IsFiniteSet(Versions)
  <2>1. f \in Surjection(DOMAIN winners, Versions)
    BY DEF Surjection, Versions
  <2>2. IsFiniteSet(DOMAIN winners)
    BY <1>2, FS_Interval
  <2> QED
    BY <2>1, <2>2, FS_Surjection
<1>5. Cardinality(Versions) = 1 <=> \E v : Versions = {v}
  BY <1>4, FS_Singleton
<1>6. (\E v : Versions = {v}) <=>
        /\ DOMAIN winners # {}
        /\ \A j, k \in DOMAIN winners : Fingerprint(winners[j]) = Fingerprint(winners[k])
  <2>1. ASSUME NEW v, Versions = {v}
        PROVE  /\ DOMAIN winners # {}
               /\ \A k \in DOMAIN winners : Fingerprint(winners[k]) = v
    BY <2>1 DEF Versions
  <2>2. ASSUME NEW k \in DOMAIN winners,
               \A j \in DOMAIN winners : Fingerprint(winners[j]) = Fingerprint(winners[k])
        PROVE  Versions = {Fingerprint(winners[k])}
    BY <2>2 DEF Versions
  <2> QED
    BY <2>1, <2>2
<1> QED
  BY <1>2, <1>3, <1>5, <1>6

-----------------------------------------------------------------------------
(* The properties *)

\* The plan is the best plan of one group; the file of any other is the kept one of
\* its own group up to identity, and one version makes the two kept ones agree.
LEMMA InvSettles == PlanInv => NoSilentChoice
<1> SUFFICES ASSUME PlanInv, verdict = "plan",
                    NEW x \in Chosen.items, NEW y \in Wanted, x.dest = y.dest
             PROVE  \/ x.content = y.content
                    \/ SizeOf[x.content] = SizeOf[y.content] /\ ~(x.summed /\ y.summed)
  BY DEF NoSilentChoice
<1>0. PlanTypeOK /\ WinnersAreBest /\ cands \in Inputs
  BY DEF PlanInv, PlanTypeOK
<1>1. /\ Count \in Nat /\ group - 1 = Count
      /\ \A i \in 1..Count : GroupAt(i) \in Groups
      /\ \A g \in Groups : \E i \in 1..Count : g = GroupAt(i)
  BY <1>0, GroupsInTurn DEF PlanInv, DecidedLast, Count
<1>2. /\ DOMAIN winners = 1..Len(winners) /\ Len(winners) \in Nat /\ winners # <<>>
      /\ \A j, k \in DOMAIN winners : Fingerprint(winners[j]) = Fingerprint(winners[k])
  BY <1>0, OneVersion DEF PlanInv, DecidedLast
<1>3. 1 \in DOMAIN winners
  BY <1>2, <1>0, EmptySeq DEF PlanTypeOK
\* The group the plan is of, and the one that wants the other file.
<1>4. PICK h \in Groups : AbisFor(h) # {} /\ Chosen = BestPlan(h)
  BY <1>0, <1>1, <1>3 DEF WinnersAreBest, Chosen
<1>5. PICK g \in Playable : y \in AllFound(BestAbi(g), g)
  BY DEF Wanted
<1>6. g \in Groups /\ AbisFor(g) # {}
  BY DEF Playable
<1>7. PICK k \in DOMAIN winners : winners[k] = BestPlan(g)
  BY <1>0, <1>1, <1>6 DEF WinnersAreBest
<1>8. PICK z \in Kept(AllFound(BestAbi(g), g)) : z.dest = y.dest
  BY <1>0, <1>5, <1>6, KeptOne
<1>9. z \in AllFound(BestAbi(g), g) /\ z \in winners[k].items
  BY <1>7, <1>8 DEF Kept, BestPlan, BuildPlan
<1>10. PICK w \in Chosen.items : w.dest = z.dest /\ Identity(w) = Identity(z)
  <2>1. <<z.rule, z.dest, Identity(z)>> \in Fingerprint(winners[k])
    BY <1>9 DEF Fingerprint
  <2>2. Fingerprint(winners[k]) = Fingerprint(Chosen)
    BY <1>2, <1>3 DEF Chosen
  <2> QED
    BY <2>1, <2>2 DEF Fingerprint
<1>11. x \in AllFound(BestAbi(h), h) /\ w \in AllFound(BestAbi(h), h)
  BY <1>4 DEF BestPlan, BuildPlan, Kept
<1>12. Identity(x) = Identity(w)
  BY <1>4, <1>8, <1>10, <1>11, BestAbiWorks, OneIdentity
<1>13. Identity(z) = Identity(y)
  BY <1>5, <1>6, <1>8, <1>9, BestAbiWorks, OneIdentity
<1>14. Identity(x) = Identity(y)
  BY <1>10, <1>12, <1>13
<1> QED
  BY <1>14 DEF Identity

\* resolve_plan never settles between different files for one destination, in one
\* package or in two, for any recipe and any files: a plan stands only if each group
\* that can be planned agrees with it on size and checksum.
THEOREM NothingChosenSilently == PlanSpec => []NoSilentChoice
BY PlanInvariant, InvSettles, PTL

\* No two rules of the recipe share a place.
OwnPlaces ==
  \A r, s \in RuleIds, i, j \in DOMAIN Abis :
    Places(r, Abis[i]) \cap Places(s, Abis[j]) # {} => r = s

\* The files as the player sees them, and as the engine tells them apart.
ContentsOf(X) == {<<x.dest, x.content>> : x \in X}
FilesOf(X) == {<<x.dest, Identity(x)>> : x \in X}
BestFiles(g) == AllFound(BestAbi(g), g)

\* Every file that was found has a checksum.
AllSummed == \A k \in DOMAIN Abis, g \in Groups : \A x \in AllFound(Abis[k], g) : x.summed

\* Packages that want the same files are one version.
LEMMA SameFilesSameVersion ==
  ASSUME cands \in Inputs, OwnPlaces,
         NEW g \in Groups, AbisFor(g) # {}, NEW h \in Groups, AbisFor(h) # {},
         FilesOf(BestFiles(g)) = FilesOf(BestFiles(h))
  PROVE  Fingerprint(BestPlan(g)) = Fingerprint(BestPlan(h))
<1>1. ASSUME NEW u \in Groups, AbisFor(u) # {}, NEW v \in Groups, AbisFor(v) # {},
             FilesOf(BestFiles(u)) = FilesOf(BestFiles(v)), NEW x \in Kept(BestFiles(u))
      PROVE  <<x.rule, x.dest, Identity(x)>> \in Fingerprint(BestPlan(v))
  <2>1. x \in BestFiles(u)
    BY DEF Kept
  <2>2. PICK y \in BestFiles(v) : y.dest = x.dest /\ Identity(y) = Identity(x)
    <3>1. <<x.dest, Identity(x)>> \in FilesOf(BestFiles(v))
      BY <1>1, <2>1 DEF FilesOf
    <3> QED
      BY <3>1 DEF FilesOf
  <2>3. PICK z \in Kept(BestFiles(v)) : z.dest = y.dest
    BY KeptOne DEF BestFiles
  <2>4. z \in BestFiles(v)
    BY DEF Kept
  <2>5. Identity(z) = Identity(y)
    BY <1>1, <2>3, <2>4, BestAbiWorks, OneIdentity DEF BestFiles
  <2>6. x.rule = z.rule
    <3>1. /\ x.rule \in RuleIds /\ x.dest \in Places(x.rule, BestAbi(u))
          /\ z.rule \in RuleIds /\ z.dest \in Places(z.rule, BestAbi(v))
      BY <1>1, <2>1, <2>4, FoundFacts DEF BestFiles
    <3>2. /\ \E k \in DOMAIN Abis : BestAbi(u) = Abis[k]
          /\ \E k \in DOMAIN Abis : BestAbi(v) = Abis[k]
      BY <1>1, BestAbiWorks
    <3> QED
      BY <3>1, <3>2, <2>2, <2>3 DEF OwnPlaces
  <2>7. <<z.rule, z.dest, Identity(z)>> \in Fingerprint(BestPlan(v))
    BY <2>3 DEF Fingerprint, BestPlan, BuildPlan, BestFiles
  <2> QED
    BY <2>2, <2>3, <2>5, <2>6, <2>7
<1>2. \A u : Fingerprint(BestPlan(u)) = {<<x.rule, x.dest, Identity(x)>> : x \in Kept(BestFiles(u))}
  BY DEF Fingerprint, BestPlan, BuildPlan, BestFiles
<1>3. Fingerprint(BestPlan(g)) \subseteq Fingerprint(BestPlan(h))
  BY <1>1, <1>2
<1>4. Fingerprint(BestPlan(h)) \subseteq Fingerprint(BestPlan(g))
  BY <1>1, <1>2
<1> QED
  BY <1>3, <1>4

\* Once it is decided, the winners are the best plans of the groups that have one.
LEMMA WinnersCover ==
  ASSUME PlanInv, verdict \in {"plan", "refused"}
  PROVE  /\ cands \in Inputs /\ winners \in Seq({BestPlan(g) : g \in Playable})
         /\ \A k \in DOMAIN winners : \E g \in Playable : winners[k] = BestPlan(g)
         /\ \A g \in Playable : \E k \in DOMAIN winners : winners[k] = BestPlan(g)
         /\ verdict = "plan" <=>
              /\ winners # <<>>
              /\ \A j, k \in DOMAIN winners : Fingerprint(winners[j]) = Fingerprint(winners[k])
<1>1. PlanTypeOK /\ WinnersAreBest /\ cands \in Inputs
  BY DEF PlanInv, PlanTypeOK
<1>2. /\ Count \in Nat /\ group - 1 = Count
      /\ \A i \in 1..Count : GroupAt(i) \in Groups
      /\ \A g \in Groups : \E i \in 1..Count : g = GroupAt(i)
  BY <1>1, GroupsInTurn DEF PlanInv, DecidedLast, Count
<1>3. verdict = "plan" <=> Cardinality(Versions) = 1
  BY DEF PlanInv, DecidedLast
<1>4. \A k \in DOMAIN winners : \E g \in Playable : winners[k] = BestPlan(g)
  BY <1>1, <1>2 DEF WinnersAreBest, Playable
<1>5. \A g \in Playable : \E k \in DOMAIN winners : winners[k] = BestPlan(g)
  BY <1>1, <1>2 DEF WinnersAreBest, Playable
<1> QED
  BY <1>1, <1>3, <1>4, <1>5, OneVersion DEF PlanTypeOK

\* Without a winner every ABI of every group failed; two winners of two versions want
\* different files.
LEMMA InvRefuses ==
  ASSUME OwnPlaces, PlanInv
  PROVE  RefusalHasCause
<1> DEFINE Cause(a, g) ==
        \/ \E r \in RuleIds : Rules[r].required /\ Found(r, a, g) = {}
        \/ \E r \in RuleIds : TooFew(r, Found(r, a, g))
        \/ \E x, y \in AllFound(a, g) : x.dest = y.dest /\ x.content # y.content
<1> SUFFICES ASSUME verdict = "refused", AllSummed
             PROVE  \/ \A k \in DOMAIN Abis, g \in Groups : Cause(Abis[k], g)
                    \/ \E g, h \in Playable : ContentsOf(BestFiles(g)) # ContentsOf(BestFiles(h))
  BY DEF RefusalHasCause, AllSummed, ContentsOf, BestFiles
<1>1. /\ cands \in Inputs
      /\ \A k \in DOMAIN winners : \E g \in Playable : winners[k] = BestPlan(g)
      /\ \A g \in Playable : \E k \in DOMAIN winners : winners[k] = BestPlan(g)
      /\ \/ winners = <<>>
         \/ \E j, k \in DOMAIN winners : Fingerprint(winners[j]) # Fingerprint(winners[k])
  BY WinnersCover
<1>2. CASE winners = <<>>
  <2>1. ASSUME NEW k \in DOMAIN Abis, NEW g \in Groups
        PROVE  Cause(Abis[k], g)
    <3>1. AbisFor(g) = {}
      <4>1. DOMAIN winners = {}
        BY <1>2
      <4> QED
        BY <4>1, <1>1 DEF Playable
    <3>2. Fails(Abis[k], g)
      BY <3>1 DEF AbisFor
    <3>3. ASSUME NEW x \in AllFound(Abis[k], g), NEW y \in AllFound(Abis[k], g),
                 Identity(x) # Identity(y)
          PROVE  x.content # y.content
      <4>1. x.summed /\ y.summed
        BY DEF AllSummed
      <4> QED
        BY <4>1, <3>3 DEF Identity
    <3> QED
      BY <3>2, <3>3 DEF Fails, Conflict
  <2> QED
    BY <2>1
<1>3. CASE \E j, k \in DOMAIN winners : Fingerprint(winners[j]) # Fingerprint(winners[k])
  <2>1. PICK g \in Playable, h \in Playable : Fingerprint(BestPlan(g)) # Fingerprint(BestPlan(h))
    BY <1>1, <1>3
  <2>2. g \in Groups /\ AbisFor(g) # {} /\ h \in Groups /\ AbisFor(h) # {}
    BY DEF Playable
  <2>3. FilesOf(BestFiles(g)) # FilesOf(BestFiles(h))
    BY <1>1, <2>1, <2>2, SameFilesSameVersion
  \* With a checksum for each, what tells the files apart is what they hold.
  <2>4. \A k \in {g, h} : \A x \in BestFiles(k) : Identity(x) = <<SizeOf[x.content], x.content>>
    BY <2>2, BestAbiWorks DEF AllSummed, BestFiles, Identity
  <2>5. ASSUME NEW u \in {g, h}, NEW v \in {g, h},
               ContentsOf(BestFiles(u)) = ContentsOf(BestFiles(v)), NEW x \in BestFiles(u)
        PROVE  <<x.dest, Identity(x)>> \in FilesOf(BestFiles(v))
    <3>1. <<x.dest, x.content>> \in ContentsOf(BestFiles(v))
      BY <2>5 DEF ContentsOf
    <3>2. PICK y \in BestFiles(v) : y.dest = x.dest /\ y.content = x.content
      BY <3>1 DEF ContentsOf
    <3>3. Identity(x) = Identity(y)
      BY <3>2, <2>4
    <3> QED
      BY <3>2, <3>3 DEF FilesOf
  <2>6. ContentsOf(BestFiles(g)) # ContentsOf(BestFiles(h))
    <3> SUFFICES ASSUME ContentsOf(BestFiles(g)) = ContentsOf(BestFiles(h))
                 PROVE  FALSE
      OBVIOUS
    <3>1. /\ FilesOf(BestFiles(g)) \subseteq FilesOf(BestFiles(h))
          /\ FilesOf(BestFiles(h)) \subseteq FilesOf(BestFiles(g))
      BY <2>5 DEF FilesOf
    <3>2. FilesOf(BestFiles(g)) = FilesOf(BestFiles(h))
      BY <3>1
    <3> QED
      BY <3>2, <2>3
  <2> QED
    BY <2>6
<1> QED
  BY <1>1, <1>2, <1>3

\* If no two rules of the recipe share a place and every file has a checksum, a
\* PlanError has its cause in the files: missing, too few or conflicting for every
\* ABI of every group, or different in two packages.  With a shared place two equal
\* packages may be told apart by the rule alone (Plan.fingerprint holds the rule id).
THEOREM RefusedForCause ==
  ASSUME OwnPlaces
  PROVE  PlanSpec => []RefusalHasCause
<1>1. PlanInv => RefusalHasCause
  BY InvRefuses
<1> QED
  BY <1>1, PlanInvariant, PTL

\* The file of some rule that every plan needs and the engine reads tells the ABI.
AbiShows ==
  \A i, j \in DOMAIN Abis : i # j =>
    \E r \in RuleIds :
      /\ Rules[r].required /\ Rules[r].hashed /\ Rules[r].kind # "entries"
      /\ Rules[r].valid[Abis[i]] \cap Rules[r].valid[Abis[j]] = {}

\* Plans of one version are for one ABI.
LEMMA SameVersionSameAbi ==
  ASSUME cands \in Inputs, OwnPlaces, AbiShows,
         NEW g \in Groups, AbisFor(g) # {}, NEW h \in Groups, AbisFor(h) # {},
         Fingerprint(BestPlan(g)) = Fingerprint(BestPlan(h))
  PROVE  BestAbi(g) = BestAbi(h)
<1>1. PICK i \in DOMAIN Abis : BestAbi(g) = Abis[i]
  BY BestAbiWorks
<1>2. PICK j \in DOMAIN Abis : BestAbi(h) = Abis[j]
  BY BestAbiWorks
<1> SUFFICES ASSUME i # j
             PROVE  FALSE
  BY <1>1, <1>2
<1>3. PICK r \in RuleIds :
        /\ Rules[r].required /\ Rules[r].hashed /\ Rules[r].kind # "entries"
        /\ Rules[r].valid[Abis[i]] \cap Rules[r].valid[Abis[j]] = {}
  BY DEF AbiShows
<1>4. PICK y \in Found(r, BestAbi(g), g) : TRUE
  BY <1>3, BestAbiWorks DEF Fails
<1>5. y \in BestFiles(g)
  BY DEF AllFound, BestFiles
<1>6. y.dest = Rules[r].dest
  <2>1. y.dest \in Places(r, BestAbi(g))
    BY <1>4, FoundShape
  <2> QED
    BY <2>1, <1>3 DEF Places
<1>7. PICK z \in Kept(BestFiles(g)) : z.dest = y.dest
  BY <1>5, KeptOne DEF BestFiles
<1>8. z \in BestFiles(g)
  BY DEF Kept
<1>9. z.rule = r
  <2>1. z.rule \in RuleIds /\ z.dest \in Places(z.rule, BestAbi(g))
    BY <1>8, FoundFacts DEF BestFiles
  <2>2. z.dest \in Places(r, BestAbi(g))
    BY <1>3, <1>6, <1>7 DEF Places
  <2> QED
    BY <2>1, <2>2, <1>1, <1>3 DEF OwnPlaces
<1>10. PICK w \in Kept(BestFiles(h)) : w.rule = r /\ Identity(w) = Identity(z)
  <2>1. <<z.rule, z.dest, Identity(z)>> \in Fingerprint(BestPlan(g))
    BY <1>7 DEF Fingerprint, BestPlan, BuildPlan, BestFiles
  <2>2. <<z.rule, z.dest, Identity(z)>> \in Fingerprint(BestPlan(h))
    BY <2>1
  <2> QED
    BY <2>2, <1>9 DEF Fingerprint, BestPlan, BuildPlan, BestFiles
<1>11. z.content \in Rules[r].valid[Abis[i]] /\ z.summed
  BY <1>1, <1>3, <1>8, <1>9, FoundFacts DEF BestFiles, Passes, Hashed
<1>12. w.content \in Rules[r].valid[Abis[j]] /\ w.summed
  <2>1. w \in BestFiles(h)
    BY DEF Kept
  <2> QED
    BY <2>1, <1>2, <1>3, <1>10, FoundFacts DEF BestFiles, Passes, Hashed
<1>13. z.content = w.content
  BY <1>10, <1>11, <1>12 DEF Identity
<1> QED
  BY <1>3, <1>11, <1>12, <1>13

\* A plan keeps a file for each destination it found one for.
LEMMA PlanFiles ==
  ASSUME cands \in Inputs, NEW g \in Groups, AbisFor(g) # {}
  PROVE  FilesOf(BestPlan(g).items) = FilesOf(BestFiles(g)) /\ BestPlan(g).abi = BestAbi(g)
<1>1. BestPlan(g).items = Kept(BestFiles(g)) /\ BestPlan(g).abi = BestAbi(g)
  BY DEF BestPlan, BuildPlan, BestFiles
<1>2. ASSUME NEW y \in BestFiles(g)
      PROVE  <<y.dest, Identity(y)>> \in FilesOf(Kept(BestFiles(g)))
  <2>1. PICK z \in Kept(BestFiles(g)) : z.dest = y.dest
    BY KeptOne DEF BestFiles
  <2>2. z \in BestFiles(g)
    BY DEF Kept
  <2>3. Identity(z) = Identity(y)
    BY <2>1, <2>2, BestAbiWorks, OneIdentity DEF BestFiles
  <2> QED
    BY <2>1, <2>3 DEF FilesOf
<1>3. FilesOf(BestFiles(g)) \subseteq FilesOf(Kept(BestFiles(g)))
  BY <1>2 DEF FilesOf
<1>4. FilesOf(Kept(BestFiles(g))) \subseteq FilesOf(BestFiles(g))
  BY DEF FilesOf, Kept
<1>5. FilesOf(Kept(BestFiles(g))) = FilesOf(BestFiles(g))
  BY <1>3, <1>4
<1> QED
  BY <1>1, <1>5

LEMMA SameVersionSameFiles ==
  ASSUME cands \in Inputs,
         NEW g \in Groups, AbisFor(g) # {}, NEW h \in Groups, AbisFor(h) # {},
         Fingerprint(BestPlan(g)) = Fingerprint(BestPlan(h))
  PROVE  FilesOf(BestFiles(g)) = FilesOf(BestFiles(h))
<1> DEFINE Q(P) == {<<t[2], t[3]>> : t \in P}
<1>1. ASSUME NEW u \in Groups, AbisFor(u) # {}
      PROVE  Q(Fingerprint(BestPlan(u))) = FilesOf(BestFiles(u))
  <2> DEFINE I == BestPlan(u).items
             P == {<<x.rule, x.dest, Identity(x)>> : x \in I}
  <2>1. Q(P) = FilesOf(I)
    <3>1. \A x \in I : <<x.rule, x.dest, Identity(x)>>[2] = x.dest
                     /\ <<x.rule, x.dest, Identity(x)>>[3] = Identity(x)
      OBVIOUS
    <3>2. Q(P) \subseteq FilesOf(I)
      BY <3>1 DEF FilesOf
    <3>3. FilesOf(I) \subseteq Q(P)
      <4>1. ASSUME NEW x \in I
            PROVE  <<x.dest, Identity(x)>> \in Q(P)
        BY <3>1
      <4> QED
        BY <4>1 DEF FilesOf
    <3> QED
      BY <3>2, <3>3
  <2> QED
    BY <1>1, <2>1, PlanFiles DEF Fingerprint
<1> HIDE DEF Q
<1> QED
  BY <1>1

\* Each group's plan is the same version exactly if it wants the same files for the
\* same ABI, so one version is one wish.
LEMMA InvOrders ==
  ASSUME OwnPlaces, AbiShows, PlanInv
  PROVE  OrderIsIrrelevant
<1> DEFINE Want(g) == <<BestAbi(g), FilesOf(BestFiles(g))>>
           wants == {Want(g) : g \in Playable}
<1> SUFFICES ASSUME verdict \in {"plan", "refused"}
             PROVE  /\ verdict = "plan" <=> Cardinality(wants) = 1
                    /\ verdict = "plan" => wants = {<<Chosen.abi, FilesOf(Chosen.items)>>}
  BY DEF OrderIsIrrelevant, FilesOf, BestFiles
<1>1. /\ cands \in Inputs /\ winners \in Seq({BestPlan(g) : g \in Playable})
      /\ \A k \in DOMAIN winners : \E g \in Playable : winners[k] = BestPlan(g)
      /\ \A g \in Playable : \E k \in DOMAIN winners : winners[k] = BestPlan(g)
      /\ verdict = "plan" <=>
           /\ winners # <<>>
           /\ \A j, k \in DOMAIN winners : Fingerprint(winners[j]) = Fingerprint(winners[k])
  BY WinnersCover
<1>2. winners # <<>> => 1 \in DOMAIN winners
  BY <1>1, EmptySeq, LenProperties
<1>3. \A g, h \in Playable : Fingerprint(BestPlan(g)) = Fingerprint(BestPlan(h)) <=> Want(g) = Want(h)
  <2> SUFFICES ASSUME NEW g \in Playable, NEW h \in Playable
               PROVE  Fingerprint(BestPlan(g)) = Fingerprint(BestPlan(h)) <=> Want(g) = Want(h)
    OBVIOUS
  <2>1. g \in Groups /\ AbisFor(g) # {} /\ h \in Groups /\ AbisFor(h) # {}
    BY DEF Playable
  <2>2. Fingerprint(BestPlan(g)) = Fingerprint(BestPlan(h)) => Want(g) = Want(h)
    BY <1>1, <2>1, SameVersionSameAbi, SameVersionSameFiles
  <2>3. Want(g) = Want(h) => Fingerprint(BestPlan(g)) = Fingerprint(BestPlan(h))
    BY <1>1, <2>1, SameFilesSameVersion
  <2> QED
    BY <2>2, <2>3
<1> HIDE DEF Want
<1>4. verdict = "plan" <=> Playable # {} /\ \A g, h \in Playable : Want(g) = Want(h)
  <2>1. winners # <<>> <=> Playable # {}
    <3>1. winners = <<>> => DOMAIN winners = {}
      OBVIOUS
    <3> QED
      BY <3>1, <1>1, <1>2
  <2>2. (\A j, k \in DOMAIN winners : Fingerprint(winners[j]) = Fingerprint(winners[k]))
          <=> \A g, h \in Playable : Fingerprint(BestPlan(g)) = Fingerprint(BestPlan(h))
    BY <1>1
  <2> QED
    BY <1>1, <1>3, <2>1, <2>2
<1>5. IsFiniteSet(wants)
  <2> DEFINE f == [g \in Playable |-> Want(g)]
  <2>1. f \in Surjection(Playable, wants)
    BY DEF Surjection
  <2>2. IsFiniteSet(Playable)
    BY <1>1, GroupFacts, FS_Subset DEF Playable
  <2> QED
    BY <2>1, <2>2, FS_Surjection
<1>6. Cardinality(wants) = 1 <=> \E v : wants = {v}
  BY <1>5, FS_Singleton
<1>7. (\E v : wants = {v}) <=> Playable # {} /\ \A g, h \in Playable : Want(g) = Want(h)
  <2>1. ASSUME NEW v, wants = {v}
        PROVE  Playable # {} /\ \A g \in Playable : Want(g) = v
    BY <2>1
  <2>2. ASSUME NEW g \in Playable, \A h \in Playable : Want(h) = Want(g)
        PROVE  wants = {Want(g)}
    BY <2>2
  <2> QED
    BY <2>1, <2>2
<1>8. ASSUME verdict = "plan"
      PROVE  wants = {<<Chosen.abi, FilesOf(Chosen.items)>>}
  <2>1. PICK g \in Playable : Chosen = BestPlan(g)
    BY <1>1, <1>2, <1>8 DEF Chosen
  <2>2. <<Chosen.abi, FilesOf(Chosen.items)>> = Want(g)
    BY <1>1, <2>1, PlanFiles DEF Want, Playable
  <2>3. \A h \in Playable : Want(h) = Want(g)
    BY <1>4, <1>8
  <2> QED
    BY <2>2, <2>3
<1> QED
  BY <1>4, <1>6, <1>7, <1>8

\* If, besides, some required and hashed file tells the ABI, the outcome is a
\* function of what the groups want and not of the order in which os.listdir gives
\* the files: resolve_plan returns a plan exactly if all that can be planned for want
\* the same files for one ABI, and it is that plan.  (Plan.fingerprint holds no ABI:
\* without such a file two ABIs may pass for one version.)
THEOREM OutcomeOfFiles ==
  ASSUME OwnPlaces, AbiShows
  PROVE  PlanSpec => []OrderIsIrrelevant
<1>1. PlanInv => OrderIsIrrelevant
  BY InvOrders
<1> QED
  BY <1>1, PlanInvariant, PTL
=============================================================================
