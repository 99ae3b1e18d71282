------------------------------- MODULE SoLoader -------------------------------
(***************************************************************************)
(* loader/so_util.cpp: so_load_module maps the game's library and the       *)
(* libraries it needs, relocates them and runs their initialisers, with the *)
(* port's audit (src/main.cpp, so_after_relocate) and jni_resolve_native.   *)
(*                                                                         *)
(* A library is what its headers say: the libraries it needs, the symbols   *)
(* it defines and imports, and its relocations as they are encoded.  Bytes, *)
(* segments and the arenas for patches are left out; the port patches       *)
(* nothing.                                                                 *)
(***************************************************************************)
EXTENDS Naturals, SequencesExt

CONSTANTS
  Root,     \* the library so_load_module is asked for
  Builtin,  \* so_builtin_libs
  Host,     \* the symbols of so_dynamic_libraries
  Bits,     \* words that a bitmap of DT_RELR covers
  Images    \* what may lie in the game's directory; see the variable image

ASSUME BuiltinAssumption == Root \notin Builtin /\ Bits \in Nat \ {0}

\* The names of files are none of the words that say where an import leads.
ASSUME ImagesAssumption ==
  \A im \in Images :
    /\ {"raw", "stub", "host"} \cap DOMAIN im = {}
    /\ \A m \in DOMAIN im : im[m].needs \in Seq(ToSet(im[m].needs))

VARIABLES
  image,   \* per file: needs, exports, imports, those that are weak, relr, packed,
           \* plain, and words, the words these three were made of
  listed,  \* modules: the names to load, in the order they are met
  at,      \* the place in listed, then in loaded
  need,    \* the place in what the library just loaded needs
  loaded,  \* loaded_modules
  phase,   \* "load", "needs", "link", "audit", "run", "done" or "failed"
  moved,   \* per library, the words that got its base
  bound,   \* per library and import, what the word points to
  natives, \* libraries whose native methods were looked up
  ran      \* libraries whose initialisers ran, in order

loadervars == <<image, listed, at, need, loaded, phase, moved, bound, natives, ran>>

Files == DOMAIN image

LoaderInit ==
  /\ image \in Images
  /\ listed = <<Root>> /\ at = 1 /\ need = 1 /\ loaded = <<>> /\ phase = "load"
  /\ moved = [m \in Files |-> <<>>]
  /\ bound = [m \in Files |-> [s \in image[m].imports |-> "raw"]]
  /\ natives = {} /\ ran = <<>>

-----------------------------------------------------------------------------
(* Loading *)

\* A variant that stays at the name it skips.
SkipNothing ==
  /\ phase = "load" /\ at <= Len(listed) /\ listed[at] \in Builtin
  /\ UNCHANGED loadervars

SkipBuiltin ==
  /\ phase = "load" /\ at <= Len(listed) /\ listed[at] \in Builtin
  /\ at' = at + 1
  /\ UNCHANGED <<image, listed, need, loaded, phase, moved, bound, natives, ran>>

LoadModule ==
  /\ phase = "load" /\ at <= Len(listed) /\ listed[at] \in Files \ Builtin
  /\ loaded' = Append(loaded, listed[at])
  /\ phase' = "needs" /\ need' = 1
  /\ UNCHANGED <<image, listed, at, moved, bound, natives, ran>>

\* A DT_NEEDED adds its name unless it is listed; the same library may name
\* it twice.
ReadNeeded ==
  /\ phase = "needs" /\ need <= Len(image[listed[at]].needs)
  /\ LET d == image[listed[at]].needs[need]
     IN  listed' = IF d \in ToSet(listed) THEN listed ELSE Append(listed, d)
  /\ need' = need + 1
  /\ UNCHANGED <<image, at, loaded, phase, moved, bound, natives, ran>>

NextModule ==
  /\ phase = "needs" /\ need > Len(image[listed[at]].needs)
  /\ phase' = "load" /\ at' = at + 1
  /\ UNCHANGED <<image, listed, need, loaded, moved, bound, natives, ran>>

\* No file of that name, or one that so_load refuses.
LoadFails ==
  /\ phase = "load" /\ at <= Len(listed) /\ listed[at] \notin Files \cup Builtin
  /\ phase' = "failed"
  /\ UNCHANGED <<image, listed, at, need, loaded, moved, bound, natives, ran>>

\* A variant that goes through them from the first to the last.
BeginForward ==
  /\ phase = "load" /\ at > Len(listed)
  /\ phase' = "link" /\ at' = Len(loaded) /\ loaded' = Reverse(loaded)
  /\ UNCHANGED <<image, listed, need, moved, bound, natives, ran>>

\* The loaded libraries are gone through from the last to the first.
BeginLink ==
  /\ phase = "load" /\ at > Len(listed)
  /\ phase' = "link" /\ at' = Len(loaded)
  /\ UNCHANGED <<image, listed, need, loaded, moved, bound, natives, ran>>

-----------------------------------------------------------------------------
(* Relocating *)

\* A variant that forgets to step over the word of an address.
RelrBehind(relr) ==
  FoldLeft(LAMBDA acc, e :
             IF e.kind = "address"
               THEN [where |-> e.word, words |-> Append(acc.words, e.word)]
               ELSE [where |-> acc.where + Bits,
                     words |-> acc.words \o SetToSeq({acc.where + b : b \in e.bits})],
           [where |-> 0, words |-> <<>>], relr).words

\* so_relr_relocate: an even entry is an address, an odd one a bitmap of the
\* words that follow.
RelrWords(relr) ==
  FoldLeft(LAMBDA acc, e :
             IF e.kind = "address"
               THEN [where |-> e.word + 1, words |-> Append(acc.words, e.word)]
               ELSE [where |-> acc.where + Bits,
                     words |-> acc.words \o SetToSeq({acc.where + b : b \in e.bits})],
           [where |-> 0, words |-> <<>>], relr).words

\* helper_foreach_droid_rel for APS2, the format of Android since 6; the two
\* before it are left out: the first offset, then groups of deltas; a group
\* has one delta for all its members or one for each.
Deltas(g) == IF g.shared THEN [k \in 1..g.size |-> g.delta] ELSE g.each
PackedWords(packed) ==
  FoldLeft(LAMBDA acc, d : [offset |-> acc.offset + d, words |-> Append(acc.words, acc.offset + d)],
           [offset |-> packed.first, words |-> <<>>],
           FlattenSeq([k \in 1..Len(packed.groups) |-> Deltas(packed.groups[k])])).words

\* foreach_rela goes on with the tables of DT_REL and DT_RELA, one word an entry.
Relocated(m) ==
  RelrWords(image[m].relr) \o PackedWords(image[m].packed) \o image[m].plain

\* so_resolve_link: the host's tables, then the libraries in load order.
Exporters(m, s) == {k \in DOMAIN loaded : loaded[k] # m /\ s \in image[loaded[k]].exports}
FirstOf(ks) == loaded[CHOOSE k \in ks : \A j \in ks : k <= j]

\* A variant that searches on from the library itself.
ResolveBehind(m, s) ==
  LET behind == {k \in Exporters(m, s) : k > at}
  IN  IF s \in Host THEN "host"
      ELSE IF behind # {} THEN FirstOf(behind)
      ELSE IF Exporters(m, s) # {} THEN FirstOf(Exporters(m, s))
      ELSE "stub"

Resolve(m, s) ==
  IF s \in Host THEN "host"
  ELSE IF Exporters(m, s) # {} THEN FirstOf(Exporters(m, s))
  ELSE "stub"

\* so_relocate_all; a symbol the library defines is its own.
Relocate ==
  /\ phase = "link" /\ at > 0
  /\ LET m == loaded[at]
     IN  /\ moved' = [moved EXCEPT ![m] = @ \o Relocated(m)]
         /\ bound' = [bound EXCEPT ![m] = [s \in image[m].imports |->
                        IF s \in image[m].exports THEN m ELSE Resolve(m, s)]]
  /\ phase' = "audit"
  /\ UNCHANGED <<image, listed, at, need, loaded, natives, ran>>

\* report_unresolved_symbols
Missing(m) ==
  {s \in image[m].imports \ image[m].weak : s \notin image[m].exports /\ Resolve(m, s) = "stub"}

\* so_after_relocate
Audit ==
  /\ phase = "audit"
  /\ phase' = IF Missing(loaded[at]) = {} THEN "run" ELSE "failed"
  /\ UNCHANGED <<image, listed, at, need, loaded, moved, bound, natives, ran>>

\* so_initialize and jni_resolve_native; the caller runs JNI_OnLoad.
Run ==
  /\ phase = "run"
  /\ ran' = Append(ran, loaded[at])
  /\ natives' = natives \cup {loaded[at]}
  /\ phase' = "link" /\ at' = at - 1
  /\ UNCHANGED <<image, listed, need, loaded, moved, bound>>

Finish ==
  /\ phase = "link" /\ at = 0
  /\ phase' = "done"
  /\ UNCHANGED <<image, listed, at, need, loaded, moved, bound, natives, ran>>

LoaderNext ==
  \/ SkipBuiltin \/ LoadModule \/ ReadNeeded \/ NextModule \/ LoadFails \/ BeginLink
  \/ Relocate \/ Audit \/ Run \/ Finish

LoaderSpec == LoaderInit /\ [][LoaderNext]_loadervars /\ WF_loadervars(LoaderNext)

-----------------------------------------------------------------------------
(* Properties *)

Position(m) == CHOOSE k \in DOMAIN listed : listed[k] = m
RanBefore(d, m) == \E j, k \in DOMAIN ran : ran[j] = d /\ ran[k] = m /\ j < k

\* When the initialisers of a library run, each word of it that has to move has
\* moved once, and each import that it may call leads somewhere.  An import that
\* leads to a library behind it on the list leads to one that has been through this.
\* One that leads to a library before it leads to code that is not relocated yet.
RunsBound ==
  \A m \in ToSet(ran) :
    /\ IsInjective(moved[m]) /\ ToSet(moved[m]) = image[m].words
    /\ \A s \in image[m].imports \ image[m].weak : bound[m][s] \notin {"raw", "stub"}
    /\ \A s \in image[m].imports :
         bound[m][s] \in Files /\ Position(m) < Position(bound[m][s]) => RanBefore(bound[m][s], m)

\* The initialisers of a library run after those of the libraries it needs,
\* except for one that an earlier library had already put on the list.
NeedsFirst ==
  \A m \in ToSet(ran), d \in Files :
    d \in ToSet(image[m].needs) \ Builtin /\ Position(m) < Position(d) => RanBefore(d, m)

\* Libraries that import a name they do not define all get the same function.
SameProvider ==
  \A l, m \in ToSet(ran) : \A s \in image[l].imports \cap image[m].imports :
    s \notin image[l].exports \cup image[m].exports => bound[l][s] = bound[m][s]

\* Loading ends, though libraries may need each other in a circle.
LoadEnds == <>(phase \in {"done", "failed"})
=============================================================================
