------------------------------ MODULE MCEapxPlan ------------------------------
(* A small instance of EapxPlan for TLC: a native library per ABI, a tree of   *)
(* assets and an optional data file, and up to three of the things that may    *)
(* lie in the game directory.                                                 *)
EXTENDS EapxPlan, SequencesExt

CONSTANTS
  so7, so5,        \* the library for either ABI
  a1, a2, b1, b2,  \* assets: a1 and a2 of one size, b1 and b2 of two
  d1, d2           \* data files of one size

MCContents == {so7, so5, a1, a2, b1, b2, d1, d2}
MCSizeOf == [c \in MCContents |->
  CASE c \in {so7, so5} -> 1 [] c \in {a1, a2} -> 2 [] c = b1 -> 3 [] c = b2 -> 4 [] OTHER -> 5]
MCAbis == <<"v7a", "v5">>

ForAbis(x) == [a \in {"v7a", "v5"} |-> x]
MCRules == <<
  [kind |-> "entry", required |-> TRUE, hashed |-> TRUE, minFiles |-> 0, dest |-> "lib.so",
   patterns |-> [v7a |-> <<{"lib7.so"}, {"data/lib7.so"}>>, v5 |-> <<{"lib5.so"}>>],
   valid |-> [v7a |-> {so7}, v5 |-> {so5}]],
  [kind |-> "entries", required |-> TRUE, hashed |-> FALSE, minFiles |-> 2, dest |-> "",
   patterns |-> ForAbis(<<{"assets/a", "assets/b"}>>), valid |-> ForAbis(MCContents)],
  [kind |-> "blob", required |-> FALSE, hashed |-> FALSE, minFiles |-> 0, dest |-> "main.obb",
   patterns |-> ForAbis(<<{"main.obb", "obb/main.obb"}>>), valid |-> ForAbis({d1, d2})] >>

Archive(package, files) ==
  [how |-> "archive", package |-> package, name |-> "", bytes |-> d1, files |-> files]
Folder(package, files) ==
  [how |-> "folder", package |-> package, name |-> "", bytes |-> d1, files |-> files]
Loose(name, bytes) ==
  [how |-> "loose", package |-> "none", name |-> name, bytes |-> bytes, files |-> <<>>]

File(name, c) == [n \in {name} |-> c]
Libs == [n \in {"lib7.so", "lib5.so"} |-> IF n = "lib7.so" THEN so7 ELSE so5]
Assets(a, b) == [n \in {"assets/a", "assets/b"} |-> IF n = "assets/a" THEN a ELSE b]
With(f, g) == [n \in DOMAIN f \cup DOMAIN g |-> IF n \in DOMAIN f THEN f[n] ELSE g[n]]

Pool == {
  Archive("p", With(Libs, Assets(a1, b1))),                   \* a package for both ABIs
  Archive("p", With(File("lib5.so", so5), Assets(a1, b1))),   \* for one
  Archive("p", Assets(a1, b1)),                               \* splits of a package
  Archive("p", File("lib7.so", so7)),
  Archive("p", With(Libs, Assets(a2, b1))),                   \* other versions
  Archive("q", With(Libs, Assets(a1, b2))),
  Archive("q", With(Libs, Assets(a1, b1))),
  Archive("unreadable", With(Libs, Assets(a1, b1))),
  Folder("p", With(Libs, Assets(a1, b1))),                    \* unpacked
  Folder("q", With(Libs, Assets(a2, b1))),
  Archive("none", With(File("data/lib7.so", so7), Assets(a1, b1))),
  Archive("none", File("obb/main.obb", d1)),
  [Archive("none", File("x", b2)) EXCEPT !.name = "main.obb"], \* an OBB that is a zip
  Archive("none", File("assets/a", a1)),                      \* too few assets
  Loose("main.obb", d1), Loose("main.obb", d2) }

MCInputs == {s \in SeqOf(Pool, 3) : IsInjective(s)}
=============================================================================
