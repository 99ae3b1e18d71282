------------------------------ MODULE MCSoLoader ------------------------------
(* A small instance of SoLoader for TLC: every way three libraries and libc    *)
(* may need each other, who defines what two of them import, and the ways in   *)
(* which up to five words are encoded.                                        *)
EXTENDS SoLoader

Min2(S) == CHOOSE x \in S : \A y \in S : x <= y
Max2(S) == CHOOSE x \in S : \A y \in S : x >= y
MCBits == 2

\* What a static linker writes for the words W: an address, then bitmaps.
RelrOf(W) ==
  IF W = {} THEN <<>> ELSE
    LET first == Min2(W)
        n == (Max2(W) - first + MCBits - 1) \div MCBits
    IN  <<[kind |-> "address", word |-> first]>> \o
        [k \in 1..n |-> [kind |-> "bitmap",
           bits |-> {b \in 0..(MCBits - 1) : first + 1 + (k - 1) * MCBits + b \in W}]]

\* One group for each word, or one group with a delta for each.
PackedOf(W, oneGroup) ==
  LET o == SetToSortSeq(W, <)
      d == [k \in 1..Len(o) |-> IF k = 1 THEN o[1] ELSE o[k] - o[k - 1]]
  IN  [first |-> 0,
       groups |-> IF oneGroup THEN <<[shared |-> FALSE, size |-> Len(d), each |-> d]>>
                  ELSE [k \in 1..Len(d) |-> [shared |-> TRUE, size |-> 1, delta |-> d[k]]]]

\* how says for each word which of the tables has it.
Library(needs, exports, imports, weak, how, oneGroup) ==
  LET in(table) == {w \in DOMAIN how : how[w] = table}
  IN  [needs |-> needs, exports |-> exports, imports |-> imports, weak |-> weak,
       relr |-> RelrOf(in("relr")), packed |-> PackedOf(in("packed"), oneGroup),
       plain |-> SetToSeq(in("plain")), words |-> in("relr") \cup in("packed") \cup in("plain")]

NeedLists(S) == {q \in SeqOf(S, 2) : IsInjective(q)}

\* All graphs, and a name that root lists twice; f and g come from either library, from the host or from nobody.
Graphs ==
  {[m \in {"root", "b", "c"} \ gone |->
     CASE m = "root" -> Library(na, {"h"}, {"f", "g", "malloc"}, {}, 0 :> "relr", FALSE)
       [] m = "b" -> Library(nb, eb, {"f", "g", "h"}, {"g"}, 1 :> "packed" @@ 2 :> "plain", TRUE)
       [] m = "c" -> Library(nc, ec, {"f"}, {}, <<>>, FALSE)] :
   na \in {q \in SeqOf({"b", "c", "libc"}, 2) : q # <<>>}, nb \in NeedLists({"root", "c"}),
   nc \in NeedLists({"b", "root"}), eb \in SUBSET {"f", "g"}, ec \in SUBSET {"f", "g"},
   gone \in {{}, {"c"}}}

Encodings ==
  {[m \in {"root"} |-> Library(<<"libc">>, {}, {"malloc", "x"}, {"x"}, how, one)] :
   how \in [0..4 -> {"relr", "packed", "plain", "none"}], one \in BOOLEAN}

\* Two libraries that define what two others import, in every order.
Rivals ==
  {[m \in {"root", "b", "c", "d"} |->
     CASE m = "root" -> Library(na, {}, {"f"}, {}, <<>>, FALSE)
       [] m = "b" -> Library(nb, {}, {"f"}, {}, <<>>, FALSE)
       [] m \in {"c", "d"} -> Library(<<>>, IF m \in by THEN {"f"} ELSE {}, {}, {}, <<>>, FALSE)] :
   na \in SetToSeqs({"b", "c", "d"}), nb \in NeedLists({"c", "d"}),
   by \in SUBSET {"c", "d"}}

MCImages == Graphs \cup Rivals \cup Encodings
=============================================================================
