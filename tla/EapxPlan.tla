------------------------------- MODULE EapxPlan -------------------------------
(***************************************************************************)
(* The planning of tools/eapx.py: which of the files that lie in the game   *)
(* directory an import takes, for which ABI, or why it takes none.          *)
(*                                                                         *)
(* A candidate is an archive, an unpacked folder or a loose file.  A file's *)
(* bytes are a member of Contents; a checksum is as good as the bytes, but  *)
(* not every file has one.  Patterns are the sets of names they match, and  *)
(* a rule's checks the set of contents that pass them.                      *)
(***************************************************************************)
EXTENDS Naturals, Sequences, FiniteSets

CONSTANTS
  Contents,  \* what a file may hold
  SizeOf,    \* its size
  Abis,      \* abi_order
  Rules,     \* the recipe's extract rules, as described below
  Inputs     \* the sequences of candidates that may be discovered

ASSUME PlanAssumption ==
  /\ Abis \in Seq({Abis[k] : k \in DOMAIN Abis}) /\ Abis # <<>>
  /\ Rules \in Seq({Rules[k] : k \in DOMAIN Rules})
  /\ \A k \in DOMAIN Rules : Rules[k].kind \in {"blob", "entry", "entries"}
  /\ \A s \in Inputs : s \in Seq({s[k] : k \in DOMAIN s})

VARIABLES
  cands,     \* the candidates in the order they are discovered
  group,     \* the group being planned
  abi,       \* the ABI being tried for it
  winners,   \* plans found, one for a group at most
  verdict    \* "pending", "plan", "refused" (PlanError) or "nothing" (SourceError)

planvars == <<cands, group, abi, winners, verdict>>

\* The first of a set of places.
Foremost(S) == CHOOSE k \in S : \A j \in S : k <= j

Candidates == DOMAIN cands
IsContainer(i) == cands[i].how \in {"archive", "folder"}
IsApk(i) == cands[i].package # "none"

Apks == {i \in Candidates : IsApk(i)}
Containers == {i \in Candidates : IsContainer(i)}

\* What a rule may be: kind is "blob", "entry" or "entries"; patterns lists, per
\* ABI, the sets of names; valid is what passes the checks for that ABI.
RuleIds == DOMAIN Rules
Named(r, a) == UNION {Rules[r].patterns[a][k] : k \in DOMAIN Rules[r].patterns[a]}

-----------------------------------------------------------------------------
(* collect_rule *)

\* A variant that tells files apart by their size.
SizeOnly(x) == <<SizeOf[x.content]>>

\* Item.identity: size and checksum; a member of a folder and a loose file have
\* no checksum unless the engine reads them.
Identity(x) == <<SizeOf[x.content], IF x.summed THEN x.content ELSE "unknown">>

\* check_file_spec; the members of a tree are neither checked nor hashed.
Passes(r, a, c) == Rules[r].kind = "entries" \/ c \in Rules[r].valid[a]
Hashed(r) == Rules[r].kind # "entries" /\ Rules[r].hashed

\* When the candidate's turn comes in its group: what is no package comes last, a loose
\* file before what a container holds.
Turn(i) ==
  IF IsApk(i) \/ (Apks = {} /\ IsContainer(i)) THEN i ELSE Len(cands) + i

\* Members of the group's containers under one of the names, that pass.
MemberItems(r, a, g, names) ==
  LET named == {p \in {i \in g : IsContainer(i)} \X names :
                  /\ p[2] \in DOMAIN cands[p[1]].files
                  /\ Passes(r, a, cands[p[1]].files[p[2]])}
  IN  {[rule |-> r, turn |-> 2 * Len(cands) + Turn(p[1]), content |-> cands[p[1]].files[p[2]],
        dest |-> IF Rules[r].kind = "entries" THEN p[2] ELSE Rules[r].dest,
        summed |-> cands[p[1]].how = "archive" \/ Hashed(r)] : p \in named}

\* Candidates that are the file themselves; several of one name are read whole.
LooseItems(r, a, g) ==
  LET matched == {i \in g : cands[i].name \in Named(r, a)}
  IN  {[rule |-> r, turn |-> Turn(i), content |-> cands[i].bytes, dest |-> Rules[r].dest,
        summed |-> Hashed(r) \/ Cardinality(matched) > 1] :
         i \in {j \in matched : Passes(r, a, cands[j].bytes)}}

\* The patterns of an entry rule are in order of preference.
Productive(r, a, g) ==
  {k \in DOMAIN Rules[r].patterns[a] : MemberItems(r, a, g, Rules[r].patterns[a][k]) # {}}
FirstProductive(r, a, g) ==
  IF Productive(r, a, g) = {} THEN {}
  ELSE MemberItems(r, a, g, Rules[r].patterns[a][Foremost(Productive(r, a, g))])

Found(r, a, g) ==
  CASE Rules[r].kind = "blob" -> LooseItems(r, a, g) \cup MemberItems(r, a, g, Named(r, a))
    [] Rules[r].kind = "entry" -> FirstProductive(r, a, g)
    [] Rules[r].kind = "entries" -> MemberItems(r, a, g, Named(r, a))

\* unique_one, and its like for trees and for whole plans
Conflict(items) ==
  \E x, y \in items : x.dest = y.dest /\ Identity(x) # Identity(y)

\* Too few files for check_tree_spec; no file is no reason yet.
TooFew(r, items) ==
  Rules[r].kind = "entries" /\ items # {} /\ Cardinality({x.dest : x \in items}) < Rules[r].minFiles

-----------------------------------------------------------------------------
(* build_plan *)

AllFound(a, g) == UNION {Found(r, a, g) : r \in RuleIds}

Fails(a, g) ==
  \/ \E r \in RuleIds : Rules[r].required /\ Found(r, a, g) = {}
  \/ \E r \in RuleIds : TooFew(r, Found(r, a, g))
  \/ Conflict(AllFound(a, g))

\* Of equal files the first found is kept; of equal rules the last.
Kept(items) ==
  {x \in items : \A y \in items \ {x} : y.dest = x.dest =>
     y.rule < x.rule \/ (y.rule = x.rule /\ x.turn <= y.turn)}

BuildPlan(a, g) == [abi |-> a, items |-> Kept(AllFound(a, g))]

\* Plan.fingerprint
Fingerprint(plan) == {<<x.rule, x.dest, Identity(x)>> : x \in plan.items}

-----------------------------------------------------------------------------
(* group_candidates *)

\* One group for a package, with what is no package in each; without a package,
\* one for a container; a package that cannot be read stays alone.
Groups ==
  IF Apks # {} THEN
    {{j \in Apks : j = i \/ (cands[i].package # "unreadable" /\ cands[j].package = cands[i].package)}
       \cup (Candidates \ Apks) : i \in Apks}
  ELSE IF Containers # {} THEN {{i} \cup (Candidates \ Containers) : i \in Containers}
  ELSE {Candidates} \ {{}}

\* Groups come in the order of the first primary of each.
Primary(g) ==
  Foremost(IF Apks # {} THEN g \cap Apks ELSE IF Containers # {} THEN g \cap Containers ELSE g)

GroupAt(k) == CHOOSE g \in Groups : Cardinality({h \in Groups : Primary(h) < Primary(g)}) = k - 1

-----------------------------------------------------------------------------
(* resolve_plan *)

PlanInit ==
  /\ cands \in Inputs
  /\ group = 1 /\ abi = 1 /\ winners = <<>>
  /\ verdict = IF Groups = {} THEN "nothing" ELSE "pending"

Planning == verdict = "pending" /\ group <= Cardinality(Groups)

\* A variant that plans for every ABI of a package.
TakeEveryAbi ==
  /\ Planning /\ ~Fails(Abis[abi], GroupAt(group))
  /\ winners' = Append(winners, BuildPlan(Abis[abi], GroupAt(group)))
  /\ IF abi < Len(Abis) THEN abi' = abi + 1 /\ UNCHANGED group
     ELSE abi' = 1 /\ group' = group + 1
  /\ UNCHANGED <<cands, verdict>>

\* The first ABI that gives a plan settles the group.
TakeAbi ==
  /\ Planning /\ ~Fails(Abis[abi], GroupAt(group))
  /\ winners' = Append(winners, BuildPlan(Abis[abi], GroupAt(group)))
  /\ group' = group + 1 /\ abi' = 1
  /\ UNCHANGED <<cands, verdict>>

NextAbi ==
  /\ Planning /\ Fails(Abis[abi], GroupAt(group))
  /\ IF abi < Len(Abis) THEN abi' = abi + 1 /\ UNCHANGED group
     ELSE abi' = 1 /\ group' = group + 1
  /\ UNCHANGED <<cands, winners, verdict>>

Versions == {Fingerprint(winners[k]) : k \in DOMAIN winners}

\* A variant that takes the first package that has a plan.
DecideFirst ==
  /\ verdict = "pending" /\ ~Planning
  /\ verdict' = IF winners # <<>> THEN "plan" ELSE "refused"
  /\ UNCHANGED <<cands, group, abi, winners>>

Decide ==
  /\ verdict = "pending" /\ ~Planning
  /\ verdict' = IF Cardinality(Versions) = 1 THEN "plan" ELSE "refused"
  /\ UNCHANGED <<cands, group, abi, winners>>

PlanNext == TakeAbi \/ NextAbi \/ Decide

PlanSpec == PlanInit /\ [][PlanNext]_planvars /\ WF_planvars(PlanNext)

-----------------------------------------------------------------------------
(* Properties *)

AbisFor(g) == {k \in DOMAIN Abis : ~Fails(Abis[k], g)}
BestAbi(g) == Abis[Foremost(AbisFor(g))]
Playable == {g \in Groups : AbisFor(g) # {}}
Wanted == UNION {AllFound(BestAbi(g), g) : g \in Playable}

\* The first winner is the plan.
Chosen == winners[1]

\* A plan never settles between different files for one destination, in one
\* package or in two: only files that are not read, and of one size, may differ.
NoSilentChoice ==
  verdict = "plan" => \A x \in Chosen.items, y \in Wanted :
    x.dest = y.dest =>
      \/ x.content = y.content
      \/ SizeOf[x.content] = SizeOf[y.content] /\ ~(x.summed /\ y.summed)

\* The outcome does not depend on the order in which the directory lists the
\* files: it is a plan exactly if the packages that have one all want the same
\* files for the same ABI.
OrderIsIrrelevant ==
  verdict \in {"plan", "refused"} =>
    LET files(X) == {<<x.dest, Identity(x)>> : x \in X}
        wants == {<<BestAbi(g), files(AllFound(BestAbi(g), g))>> : g \in Playable}
    IN  /\ verdict = "plan" <=> Cardinality(wants) = 1
        /\ verdict = "plan" => wants = {<<Chosen.abi, files(Chosen.items)>>}

\* A refusal has a cause in what the player put there: files that are missing
\* or differ in each package, or two packages that differ.  A file that has no
\* checksum is refused beside its own copy in an archive and makes no promise.
RefusalHasCause ==
  LET contents(X) == {<<x.dest, x.content>> : x \in X}
      Cause(a, g) ==
        \/ \E r \in RuleIds : Rules[r].required /\ Found(r, a, g) = {}
        \/ \E r \in RuleIds : TooFew(r, Found(r, a, g))
        \/ \E x, y \in AllFound(a, g) : x.dest = y.dest /\ x.content # y.content
  IN  verdict = "refused" =>
        \/ \E k \in DOMAIN Abis, g \in Groups : \E x \in AllFound(Abis[k], g) : ~x.summed
        \/ \A k \in DOMAIN Abis, g \in Groups : Cause(Abis[k], g)
        \/ \E g, h \in Playable :
             contents(AllFound(BestAbi(g), g)) # contents(AllFound(BestAbi(h), h))
=============================================================================
