---------------------------- MODULE SoLoader_proofs ----------------------------
(***************************************************************************)
(* Proofs about SoLoader, for any libraries, however they need each other:   *)
(* NeedsFirst and SameProvider, and RunsBound for encodings that are decoded *)
(* to the words they stand for.                                              *)
(***************************************************************************)
EXTENDS SoLoader, SequenceTheorems, WellFoundedInduction, TLAPS

-----------------------------------------------------------------------------
(* The inductive invariant *)

Names == {Root} \cup UNION {ToSet(image[m].needs) : m \in Files}

\* How much of the list the loaded libraries stand for.
Behind == IF phase = "load" THEN at - 1 ELSE IF phase = "needs" THEN at ELSE Len(listed)

Linking == phase \in {"link", "audit", "run", "done"}

\* The library relocation has got to.
Current == phase \in {"audit", "run"}
Done(k) == Linking /\ (k > at \/ (k = at /\ Current))

LoaderTypeOK ==
  /\ image \in Images
  /\ listed \in Seq(Names)
  /\ at \in Nat /\ need \in Nat \ {0}
  /\ loaded \in Seq(Files)
  /\ ran \in Seq(Files)
  /\ phase \in {"load", "needs", "link", "audit", "run", "done", "failed"}
  /\ DOMAIN moved = Files /\ DOMAIN bound = Files

PlacesOK ==
  /\ phase \in {"load", "needs"} => at >= 1 /\ at <= Len(listed) + 1
  /\ phase = "needs" => /\ at <= Len(listed)
                        /\ need <= Len(image[listed[at]].needs) + 1
                        /\ Len(loaded) >= 1 /\ loaded[Len(loaded)] = listed[at]
  /\ Linking => at <= Len(loaded)
  /\ Current => at >= 1

ListedOnce == \A i, j \in DOMAIN listed : listed[i] = listed[j] => i = j

\* loaded is the list without the built-in libraries, in its order.
LoadedInOrder ==
  /\ \A k \in DOMAIN loaded : \E i \in DOMAIN listed : i <= Behind /\ listed[i] = loaded[k]
  /\ \A i \in DOMAIN listed : i <= Behind /\ listed[i] \notin Builtin =>
       \E k \in DOMAIN loaded : loaded[k] = listed[i]
  /\ \A j, k \in DOMAIN loaded : \A i, l \in DOMAIN listed :
       j < k /\ listed[i] = loaded[j] /\ listed[l] = loaded[k] => i < l

\* What a loaded library needs is on the list.
NeedsListed ==
  \A k \in DOMAIN loaded : \A i \in DOMAIN image[loaded[k]].needs :
    (phase = "needs" /\ k = Len(loaded) => i < need) =>
      \E j \in DOMAIN listed : listed[j] = image[loaded[k]].needs[i]

\* Initialisers have run for the libraries behind the current one, from the last.
RanBackwards ==
  IF Linking THEN /\ Len(ran) = Len(loaded) - at
                  /\ \A k \in DOMAIN ran : ran[k] = loaded[Len(loaded) + 1 - k]
  ELSE ran = <<>>

Links(m) ==
  [s \in image[m].imports |-> IF s \in image[m].exports THEN m ELSE Resolve(m, s)]

\* A library is relocated when relocation gets to it, and never again.
RelocatedOnce ==
  /\ \A m \in Files : moved[m] # <<>> => \E k \in DOMAIN loaded : loaded[k] = m /\ Done(k)
  /\ \A k \in DOMAIN loaded : Done(k) => /\ moved[loaded[k]] = <<>> \o Relocated(loaded[k])
                                         /\ bound[loaded[k]] = Links(loaded[k])

\* No library runs whose audit found something missing.
Audited ==
  \A k \in DOMAIN loaded :
    Linking /\ (k > at \/ (k = at /\ phase = "run")) => Missing(loaded[k]) = {}

LoaderInv ==
  /\ LoaderTypeOK
  /\ phase # "failed" =>
       PlacesOK /\ ListedOnce /\ LoadedInOrder /\ NeedsListed /\ RanBackwards
                /\ RelocatedOnce /\ Audited

-----------------------------------------------------------------------------
(* Lemmas *)

LEMMA AppendFacts ==
  ASSUME NEW S, NEW q \in Seq(S), NEW x \in S
  PROVE  /\ Append(q, x) \in Seq(S)
         /\ Len(Append(q, x)) = Len(q) + 1
         /\ DOMAIN Append(q, x) = 1..(Len(q) + 1)
         /\ \A i \in DOMAIN q : Append(q, x)[i] = q[i]
         /\ Append(q, x)[Len(q) + 1] = x
BY AppendProperties

LEMMA InToSet ==
  ASSUME NEW S, NEW q \in Seq(S)
  PROVE  \A x : x \in ToSet(q) <=> \E i \in DOMAIN q : q[i] = x
BY DEF ToSet

\* Each library is loaded once.
LEMMA LoadedOnce ==
  ASSUME LoaderTypeOK, ListedOnce, LoadedInOrder
  PROVE  \A j, k \in DOMAIN loaded : loaded[j] = loaded[k] => j = k
<1> SUFFICES ASSUME NEW j \in DOMAIN loaded, NEW k \in DOMAIN loaded,
                    loaded[j] = loaded[k], j < k
             PROVE  FALSE
  BY ElementOfSeq, LenProperties DEF LoaderTypeOK
<1>1. PICK i \in DOMAIN listed : listed[i] = loaded[j]
  BY DEF LoadedInOrder
<1>2. i < i
  BY <1>1 DEF LoadedInOrder
<1>3. i \in Nat
  BY LenProperties DEF LoaderTypeOK
<1> QED
  BY <1>2, <1>3

LEMMA LoaderInitInv == LoaderInit => LoaderInv
<1> SUFFICES ASSUME LoaderInit
             PROVE  LoaderInv
  OBVIOUS
<1> USE DEF LoaderInit
<1>1. LoaderTypeOK
  BY EmptySeq DEF LoaderTypeOK, Names, Files
<1>2. PlacesOK
  BY DEF PlacesOK, Linking, Current
<1>3. ListedOnce
  BY DEF ListedOnce
<1>4. LoadedInOrder
  BY DEF LoadedInOrder, Behind
<1>5. NeedsListed /\ RanBackwards /\ RelocatedOnce /\ Audited
  BY DEF NeedsListed, RanBackwards, RelocatedOnce, Audited, Linking, Files
<1> QED
  BY <1>1, <1>2, <1>3, <1>4, <1>5 DEF LoaderInv

\* What the invariant says of the state a step starts from.
LEMMA InvParts ==
  ASSUME LoaderInv, phase # "failed"
  PROVE  /\ LoaderTypeOK /\ PlacesOK /\ ListedOnce /\ LoadedInOrder
         /\ NeedsListed /\ RanBackwards /\ RelocatedOnce /\ Audited
BY DEF LoaderInv

-----------------------------------------------------------------------------
(* Steps that load *)

LEMMA SkipBuiltinInv == LoaderInv /\ SkipBuiltin => LoaderInv'
<1> SUFFICES ASSUME LoaderInv, SkipBuiltin
             PROVE  LoaderInv'
  OBVIOUS
<1>0. LoaderTypeOK /\ PlacesOK /\ ListedOnce /\ LoadedInOrder
      /\ NeedsListed /\ RanBackwards /\ RelocatedOnce /\ Audited
  BY InvParts DEF SkipBuiltin
<1> USE DEF SkipBuiltin
<1>1. LoaderTypeOK'
  BY <1>0 DEF LoaderTypeOK, Names, Files
<1>2. PlacesOK'
  BY <1>0, LenProperties DEF PlacesOK, LoaderTypeOK, Linking, Current
<1>3. ListedOnce'
  BY <1>0 DEF ListedOnce
<1>4. LoadedInOrder'
  <2>1. at \in Nat /\ DOMAIN listed \subseteq Nat /\ listed[at] \in Builtin
    BY <1>0, LenProperties DEF LoaderTypeOK
  <2>2. Behind = at - 1 /\ Behind' = at /\ listed' = listed /\ loaded' = loaded
    BY <2>1 DEF Behind
  <2>3. \A k \in DOMAIN loaded : \E i \in DOMAIN listed : i <= at /\ listed[i] = loaded[k]
    <3>1. \A i \in DOMAIN listed : i <= at - 1 => i <= at
      BY <2>1
    <3> QED
      BY <3>1, <2>2, <1>0 DEF LoadedInOrder
  <2>4. \A i \in DOMAIN listed : i <= at /\ listed[i] \notin Builtin =>
          \E k \in DOMAIN loaded : loaded[k] = listed[i]
    <3>1. \A i \in DOMAIN listed : i <= at /\ listed[i] \notin Builtin => i <= at - 1
      BY <2>1
    <3> QED
      BY <3>1, <2>2, <1>0 DEF LoadedInOrder
  <2> QED
    BY <2>2, <2>3, <2>4, <1>0 DEF LoadedInOrder
<1>5. NeedsListed'
  BY <1>0 DEF NeedsListed
<1>6. RanBackwards' /\ Audited'
  BY <1>0 DEF RanBackwards, Audited, Linking
<1>7. RelocatedOnce'
  BY <1>0 DEF RelocatedOnce, Linking, Done, Files
<1> QED
  BY <1>1, <1>2, <1>3, <1>4, <1>5, <1>6, <1>7 DEF LoaderInv

LEMMA LoadModuleInv == LoaderInv /\ LoadModule => LoaderInv'
<1> SUFFICES ASSUME LoaderInv, LoadModule
             PROVE  LoaderInv'
  OBVIOUS
<1>0. LoaderTypeOK /\ PlacesOK /\ ListedOnce /\ LoadedInOrder
      /\ NeedsListed /\ RanBackwards /\ RelocatedOnce /\ Audited
  BY InvParts DEF LoadModule
<1> DEFINE m == listed[at]
           n == Len(loaded) + 1
<1>a. /\ phase = "load" /\ phase' = "needs" /\ need' = 1 /\ at \in 1..Len(listed) /\ at' = at
      /\ m \in Files \ Builtin /\ loaded' = Append(loaded, m)
      /\ listed' = listed /\ image' = image /\ moved' = moved /\ bound' = bound /\ ran' = ran
  BY <1>0, LenProperties DEF LoadModule, LoaderTypeOK, PlacesOK
<1>b. /\ loaded' \in Seq(Files) /\ Len(loaded') = n /\ DOMAIN loaded' = 1..n
      /\ \A k \in DOMAIN loaded : loaded'[k] = loaded[k]
      /\ loaded'[n] = m
      /\ n \in Nat \ {0} /\ DOMAIN loaded = 1..(n - 1)
  BY <1>a, <1>0, AppendFacts, LenProperties DEF LoaderTypeOK
<1>c. DOMAIN listed = 1..Len(listed) /\ Len(listed) \in Nat
  BY <1>0, LenProperties DEF LoaderTypeOK
<1>d. ~Linking /\ ~Linking' /\ Behind = at - 1 /\ Behind' = at
  BY <1>a DEF Linking, Behind
<1> HIDE DEF m, n
<1>1. LoaderTypeOK'
  BY <1>0, <1>a, <1>b DEF LoaderTypeOK, Names, Files
<1>2. PlacesOK'
  <2>1. Len(image[listed[at]].needs) \in Nat
    BY <1>0, <1>a, ImagesAssumption, LenProperties DEF LoaderTypeOK, Files, m
  <2> QED
    BY <2>1, <1>a, <1>b, <1>c, <1>d DEF PlacesOK, Current, m
<1>3. ListedOnce'
  BY <1>0, <1>a DEF ListedOnce
<1>4. LoadedInOrder'
  <2>1. \A k \in DOMAIN loaded' : \E i \in DOMAIN listed : i <= at /\ listed[i] = loaded'[k]
    <3>1. \A k \in DOMAIN loaded : \E i \in DOMAIN listed : i <= at - 1 /\ listed[i] = loaded[k]
      BY <1>0, <1>d DEF LoadedInOrder
    <3> QED
      BY <3>1, <1>a, <1>b, <1>c DEF m
  <2>2. \A i \in DOMAIN listed : i <= at /\ listed[i] \notin Builtin =>
          \E k \in DOMAIN loaded' : loaded'[k] = listed[i]
    <3>1. \A i \in DOMAIN listed : i <= at - 1 /\ listed[i] \notin Builtin =>
            \E k \in DOMAIN loaded : loaded[k] = listed[i]
      BY <1>0, <1>d DEF LoadedInOrder
    <3> QED
      BY <3>1, <1>a, <1>b, <1>c DEF m
  <2>3. \A j, k \in DOMAIN loaded' : \A i, l \in DOMAIN listed :
          j < k /\ listed[i] = loaded'[j] /\ listed[l] = loaded'[k] => i < l
    <3> SUFFICES ASSUME NEW j \in 1..n, NEW k \in 1..n, NEW i \in DOMAIN listed,
                        NEW l \in DOMAIN listed,
                        j < k, listed[i] = loaded'[j], listed[l] = loaded'[k]
                 PROVE  i < l
      BY <1>b
    <3>1. CASE k # n
      BY <3>1, <1>0, <1>b DEF LoadedInOrder
    <3>2. CASE k = n
      <4>1. l = at
        BY <3>2, <1>a, <1>b, <1>c, <1>0 DEF ListedOnce, m
      <4>2. j \in DOMAIN loaded
        BY <3>2, <1>b
      <4>3. PICK h \in DOMAIN listed : h <= at - 1 /\ listed[h] = loaded[j]
        BY <4>2, <1>0, <1>d DEF LoadedInOrder
      <4>4. h = i
        BY <4>2, <4>3, <1>b, <1>0 DEF ListedOnce
      <4> QED
        BY <4>1, <4>3, <4>4, <1>a, <1>c
    <3> QED
      BY <3>1, <3>2
  <2> QED
    BY <2>1, <2>2, <2>3, <1>a, <1>d DEF LoadedInOrder
<1>5. NeedsListed'
  <2>0. SUFFICES \A k \in DOMAIN loaded' : \A i \in DOMAIN image[loaded'[k]].needs :
                   (k = n => i < 1) =>
                     \E j \in DOMAIN listed : listed[j] = image[loaded'[k]].needs[i]
    <3>1. image' = image /\ listed' = listed /\ Len(loaded') = n /\ need' = 1 /\ phase' = "needs"
      BY <1>a, <1>b
    <3> QED
      BY ONLY <2>0, <3>1 DEF NeedsListed
  <2> SUFFICES ASSUME NEW k \in DOMAIN loaded', NEW i \in DOMAIN image[loaded'[k]].needs,
                      k = n => i < 1
               PROVE  \E j \in DOMAIN listed : listed[j] = image[loaded'[k]].needs[i]
    OBVIOUS
  <2>1. i \in Nat \ {0}
    <3>1. loaded'[k] \in Files
      BY <1>b, ElementOfSeq
    <3>2. image[loaded'[k]].needs \in Seq(ToSet(image[loaded'[k]].needs))
      BY <3>1, <1>0, ImagesAssumption DEF LoaderTypeOK, Files
    <3> QED
      BY <3>2, LenProperties
  <2>2. k \in DOMAIN loaded
    BY <2>1, <1>b
  <2> QED
    BY <2>2, <1>0, <1>a, <1>b DEF NeedsListed
<1>6. RanBackwards' /\ Audited'
  BY <1>0, <1>a, <1>d DEF RanBackwards, Audited
<1>7. RelocatedOnce'
  BY <1>0, <1>a, <1>d DEF RelocatedOnce, Done, Files
<1> QED
  BY <1>1, <1>2, <1>3, <1>4, <1>5, <1>6, <1>7 DEF LoaderInv

LEMMA ReadNeededInv == LoaderInv /\ ReadNeeded => LoaderInv'
<1> SUFFICES ASSUME LoaderInv, ReadNeeded
             PROVE  LoaderInv'
  OBVIOUS
<1>0. LoaderTypeOK /\ PlacesOK /\ ListedOnce /\ LoadedInOrder
      /\ NeedsListed /\ RanBackwards /\ RelocatedOnce /\ Audited
  BY InvParts DEF ReadNeeded
<1> DEFINE m == listed[at]
           d == image[m].needs[need]
<1>a. /\ phase = "needs" /\ phase' = "needs" /\ need' = need + 1 /\ at' = at
      /\ need \in 1..Len(image[m].needs) /\ at \in 1..Len(listed)
      /\ listed' = IF d \in ToSet(listed) THEN listed ELSE Append(listed, d)
      /\ image' = image /\ loaded' = loaded /\ moved' = moved /\ bound' = bound /\ ran' = ran
  <2>1. Len(listed) \in Nat /\ at \in Nat \ {0} /\ at <= Len(listed)
    BY <1>0, LenProperties DEF ReadNeeded, LoaderTypeOK, PlacesOK
  <2>2. need \in Nat \ {0}
    BY <1>0 DEF LoaderTypeOK
  <2>3. m \in Files
    BY <1>0, ElementOfSeq, LenProperties DEF PlacesOK, LoaderTypeOK, ReadNeeded
  <2>4. Len(image[m].needs) \in Nat
    BY <2>3, <1>0, ImagesAssumption, LenProperties DEF LoaderTypeOK, Files
  <2> QED
    BY <2>1, <2>2, <2>4 DEF ReadNeeded
<1>b. Len(loaded) \in DOMAIN loaded /\ loaded[Len(loaded)] = m /\ m \in Files
      /\ DOMAIN loaded = 1..Len(loaded) /\ Len(loaded) \in Nat
  BY <1>0, <1>a, ElementOfSeq, LenProperties DEF PlacesOK, LoaderTypeOK
<1>c. image[m].needs \in Seq(ToSet(image[m].needs))
  BY <1>0, <1>b, ImagesAssumption DEF LoaderTypeOK, Files
<1>d. d \in ToSet(image[m].needs) /\ d \in Names
  <2>1. d \in ToSet(image[m].needs)
    BY <1>a, <1>c, ElementOfSeq
  <2> QED
    BY <2>1, <1>b DEF Names
<1>e. DOMAIN listed = 1..Len(listed) /\ Len(listed) \in Nat
  BY <1>0, LenProperties DEF LoaderTypeOK
<1>f. \E x \in {0, 1} :
        /\ listed' \in Seq(Names) /\ Len(listed') = Len(listed) + x
        /\ DOMAIN listed' = 1..(Len(listed) + x)
        /\ \A i \in DOMAIN listed : listed'[i] = listed[i]
        /\ x = 1 => listed'[Len(listed) + 1] = d /\ \A i \in DOMAIN listed : listed[i] # d
        /\ x = 0 => \E i \in DOMAIN listed : listed[i] = d
  <2>1. CASE d \in ToSet(listed)
    <3>1. listed' = listed
      BY <2>1, <1>a
    <3>2. \E i \in DOMAIN listed : listed[i] = d
      BY <2>1, <1>0, InToSet DEF LoaderTypeOK
    <3> WITNESS 0 \in {0, 1}
    <3> QED
      BY <3>1, <3>2, <1>0, <1>e DEF LoaderTypeOK
  <2>2. CASE d \notin ToSet(listed)
    <3>1. \A i \in DOMAIN listed : listed[i] # d
      BY <2>2, <1>0, InToSet DEF LoaderTypeOK
    <3>2. listed' = Append(listed, d)
      BY <2>2, <1>a
    <3>3. /\ Append(listed, d) \in Seq(Names) /\ Len(Append(listed, d)) = Len(listed) + 1
          /\ DOMAIN Append(listed, d) = 1..(Len(listed) + 1)
          /\ \A i \in DOMAIN listed : Append(listed, d)[i] = listed[i]
          /\ Append(listed, d)[Len(listed) + 1] = d
      BY <1>d, <1>0, AppendFacts DEF LoaderTypeOK
    <3> WITNESS 1 \in {0, 1}
    <3> QED
      BY <3>1, <3>2, <3>3
  <2> QED
    BY <2>1, <2>2
<1>g. ~Linking /\ ~Linking' /\ Behind = at /\ Behind' = at
  BY <1>a DEF Linking, Behind
<1>h. \E j \in DOMAIN listed' : listed'[j] = d
  BY <1>f, <1>e
<1>i. DOMAIN listed \subseteq DOMAIN listed' /\ \A i \in DOMAIN listed : listed'[i] = listed[i]
  BY <1>f, <1>e
<1> HIDE DEF m, d
<1>1. LoaderTypeOK'
  <2>1. Names' = Names /\ Files' = Files
    BY <1>a DEF Names, Files
  <2>2. need' \in Nat \ {0}
    BY <1>a
  <2>3. listed' \in Seq(Names)
    BY <1>f
  <2> QED
    BY <2>1, <2>2, <2>3, <1>0, <1>a DEF LoaderTypeOK
<1>2. PlacesOK'
  <2>1. listed'[at] = m /\ Len(listed') >= Len(listed) /\ Len(listed') \in Nat
    BY <1>f, <1>a, <1>e DEF m
  <2>2. need' <= Len(image[m].needs) + 1
    BY <1>a, <1>c, LenProperties
  <2>3. at <= Len(listed') /\ at <= Len(listed') + 1 /\ at >= 1
    BY <2>1, <1>a, <1>e
  <2>4. Len(loaded) >= 1
    BY <1>b
  <2> QED
    BY <2>1, <2>2, <2>3, <2>4, <1>a, <1>b, <1>g DEF PlacesOK, Current
<1>3. ListedOnce'
  <2> SUFFICES ASSUME NEW i \in DOMAIN listed', NEW j \in DOMAIN listed', listed'[i] = listed'[j]
               PROVE  i = j
    BY DEF ListedOnce
  <2> QED
    BY <1>f, <1>e, <1>0 DEF ListedOnce
<1>4. LoadedInOrder'
  <2>1. \A k \in DOMAIN loaded : \E i \in DOMAIN listed' : i <= at /\ listed'[i] = loaded[k]
    BY <1>0, <1>i, <1>g DEF LoadedInOrder
  <2>0. \A i \in DOMAIN listed' : i <= at => i \in DOMAIN listed
    BY <1>a, <1>e, <1>f
  <2>2. \A i \in DOMAIN listed' : i <= at /\ listed'[i] \notin Builtin =>
          \E k \in DOMAIN loaded : loaded[k] = listed'[i]
    BY <2>0, <1>0, <1>i, <1>g DEF LoadedInOrder
  <2>3. \A j, k \in DOMAIN loaded : \A i, l \in DOMAIN listed' :
          j < k /\ listed'[i] = loaded[j] /\ listed'[l] = loaded[k] => i < l
    <3> SUFFICES ASSUME NEW j \in DOMAIN loaded, NEW k \in DOMAIN loaded,
                        NEW i \in DOMAIN listed', NEW l \in DOMAIN listed',
                        j < k, listed'[i] = loaded[j], listed'[l] = loaded[k]
                 PROVE  i < l
      OBVIOUS
    <3>1. i \in DOMAIN listed /\ l \in DOMAIN listed
      BY <2>1, <2>0, <1>3 DEF ListedOnce
    <3> QED
      BY <3>1, <1>0, <1>i DEF LoadedInOrder
  <2> QED
    BY <2>1, <2>2, <2>3, <1>a, <1>g DEF LoadedInOrder
<1>5. NeedsListed'
  <2>0. SUFFICES \A k \in DOMAIN loaded : \A i \in DOMAIN image[loaded[k]].needs :
                   (k = Len(loaded) => i < need + 1) =>
                     \E j \in DOMAIN listed' : listed'[j] = image[loaded[k]].needs[i]
    <3>1. image' = image /\ loaded' = loaded /\ need' = need + 1 /\ phase' = "needs"
      BY <1>a
    <3> QED
      BY ONLY <2>0, <3>1 DEF NeedsListed
  <2> SUFFICES ASSUME NEW k \in DOMAIN loaded, NEW i \in DOMAIN image[loaded[k]].needs,
                      k = Len(loaded) => i < need + 1
               PROVE  \E j \in DOMAIN listed' : listed'[j] = image[loaded[k]].needs[i]
    OBVIOUS
  <2>1. CASE k = Len(loaded) /\ i = need
    BY <2>1, <1>b, <1>h DEF d
  <2>2. CASE ~(k = Len(loaded) /\ i = need)
    <3>1. k = Len(loaded) => i < need
      <4> SUFFICES ASSUME k = Len(loaded)
                   PROVE  i < need
        OBVIOUS
      <4>1. i \in Nat /\ need \in Nat
        BY <1>a, <1>b, <1>c, LenProperties
      <4> QED
        BY <4>1, <2>2
    <3> QED
      BY <3>1, <1>0, <1>a, <1>i DEF NeedsListed
  <2> QED
    BY <2>1, <2>2
<1>6. RanBackwards' /\ Audited'
  BY <1>0, <1>a, <1>g DEF RanBackwards, Audited
<1>7. RelocatedOnce'
  BY <1>0, <1>a, <1>g DEF RelocatedOnce, Done, Files
<1> QED
  BY <1>1, <1>2, <1>3, <1>4, <1>5, <1>6, <1>7 DEF LoaderInv

LEMMA NextModuleInv == LoaderInv /\ NextModule => LoaderInv'
<1> SUFFICES ASSUME LoaderInv, NextModule
             PROVE  LoaderInv'
  OBVIOUS
<1>0. LoaderTypeOK /\ PlacesOK /\ ListedOnce /\ LoadedInOrder
      /\ NeedsListed /\ RanBackwards /\ RelocatedOnce /\ Audited
  BY InvParts DEF NextModule
<1>a. /\ phase = "needs" /\ phase' = "load" /\ need' = need /\ at' = at + 1
      /\ need > Len(image[listed[at]].needs) /\ listed' = listed
      /\ image' = image /\ loaded' = loaded /\ moved' = moved /\ bound' = bound /\ ran' = ran
  BY DEF NextModule
<1>b. Len(loaded) \in DOMAIN loaded /\ loaded[Len(loaded)] = listed[at] /\ listed[at] \in Files
      /\ Len(listed) \in Nat /\ at \in 1..Len(listed)
  BY <1>0, <1>a, ElementOfSeq, LenProperties DEF PlacesOK, LoaderTypeOK
<1>c. image[listed[at]].needs \in Seq(ToSet(image[listed[at]].needs))
  BY <1>0, <1>b, ImagesAssumption DEF LoaderTypeOK, Files
<1>d. ~Linking /\ ~Linking' /\ Behind = at /\ Behind' = at
  BY <1>a, <1>b DEF Linking, Behind
<1>1. LoaderTypeOK'
  BY <1>0, <1>a DEF LoaderTypeOK, Names, Files
<1>2. PlacesOK'
  BY <1>a, <1>b, <1>d DEF PlacesOK, Current
<1>3. ListedOnce'
  BY <1>0, <1>a DEF ListedOnce
<1>4. LoadedInOrder'
  BY <1>0, <1>a, <1>d DEF LoadedInOrder
<1>5. NeedsListed'
  <2> SUFFICES ASSUME NEW k \in DOMAIN loaded, NEW i \in DOMAIN image[loaded[k]].needs
               PROVE  \E j \in DOMAIN listed : listed[j] = image[loaded[k]].needs[i]
    BY <1>a DEF NeedsListed
  <2>1. k = Len(loaded) => i < need
    <3> SUFFICES ASSUME k = Len(loaded)
                 PROVE  i < need
      OBVIOUS
    <3>1. i \in 1..Len(image[listed[at]].needs) /\ Len(image[listed[at]].needs) \in Nat
      BY <1>b, <1>c, LenProperties
    <3>2. need \in Nat
      BY <1>0 DEF LoaderTypeOK
    <3> QED
      BY <3>1, <3>2, <1>a
  <2> QED
    BY <2>1, <1>0 DEF NeedsListed
<1>6. RanBackwards' /\ Audited'
  BY <1>0, <1>a, <1>d DEF RanBackwards, Audited
<1>7. RelocatedOnce'
  BY <1>0, <1>a, <1>d DEF RelocatedOnce, Done, Files
<1> QED
  BY <1>1, <1>2, <1>3, <1>4, <1>5, <1>6, <1>7 DEF LoaderInv

LEMMA LoadFailsInv == LoaderInv /\ LoadFails => LoaderInv'
BY DEF LoaderInv, LoadFails, LoaderTypeOK, Names, Files

LEMMA BeginLinkInv == LoaderInv /\ BeginLink => LoaderInv'
<1> SUFFICES ASSUME LoaderInv, BeginLink
             PROVE  LoaderInv'
  OBVIOUS
<1>0. LoaderTypeOK /\ PlacesOK /\ ListedOnce /\ LoadedInOrder
      /\ NeedsListed /\ RanBackwards /\ RelocatedOnce /\ Audited
  BY InvParts DEF BeginLink
<1>a. /\ phase = "load" /\ phase' = "link" /\ need' = need /\ at' = Len(loaded)
      /\ at = Len(listed) + 1 /\ listed' = listed /\ Len(listed) \in Nat /\ Len(loaded) \in Nat
      /\ image' = image /\ loaded' = loaded /\ moved' = moved /\ bound' = bound /\ ran' = ran
      /\ DOMAIN loaded = 1..Len(loaded)
  BY <1>0, LenProperties DEF BeginLink, LoaderTypeOK, PlacesOK
<1>d. ~Linking /\ Linking' /\ Behind = Len(listed) /\ Behind' = Len(listed) /\ ~Current'
  BY <1>a DEF Linking, Behind, Current
<1>1. LoaderTypeOK'
  BY <1>0, <1>a DEF LoaderTypeOK, Names, Files
<1>2. PlacesOK'
  BY <1>a, <1>d DEF PlacesOK
<1>3. ListedOnce'
  BY <1>0, <1>a DEF ListedOnce
<1>4. LoadedInOrder'
  BY <1>0, <1>a, <1>d DEF LoadedInOrder
<1>5. NeedsListed'
  BY <1>0, <1>a DEF NeedsListed
<1>6. RanBackwards'
  BY <1>0, <1>a, <1>d DEF RanBackwards
<1>7. Audited'
  BY <1>a, <1>d DEF Audited
<1>8. RelocatedOnce'
  BY <1>0, <1>a, <1>d DEF RelocatedOnce, Done, Files
<1> QED
  BY <1>1, <1>2, <1>3, <1>4, <1>5, <1>6, <1>7, <1>8 DEF LoaderInv

-----------------------------------------------------------------------------
(* Steps that link *)

\* What a link step leaves alone, and what that settles.
LEMMA LinkStep ==
  ASSUME LoaderInv, phase # "failed", Linking, Linking',
         image' = image, listed' = listed, need' = need, loaded' = loaded
  PROVE  /\ ListedOnce' /\ LoadedInOrder' /\ NeedsListed'
         /\ \A m : Links(m)' = Links(m)
         /\ \A m : Missing(m)' = Missing(m)
         /\ \A m : Relocated(m)' = Relocated(m)
         /\ Names' = Names /\ Files' = Files
<1>0. ListedOnce /\ LoadedInOrder /\ NeedsListed
  BY InvParts
<1>1. ListedOnce'
  BY <1>0 DEF ListedOnce
<1>2. Behind' = Behind
  BY DEF Linking, Behind
<1>3. LoadedInOrder'
  BY <1>0, <1>2 DEF LoadedInOrder
<1>4. NeedsListed'
  BY <1>0 DEF NeedsListed, Linking
<1>5. \A m, s : Exporters(m, s)' = Exporters(m, s)
  BY DEF Exporters
<1>6. \A ks : FirstOf(ks)' = FirstOf(ks)
  BY DEF FirstOf
<1>7. \A m, s : Resolve(m, s)' = Resolve(m, s)
  BY <1>5, <1>6 DEF Resolve
<1>8. \A m : Links(m)' = Links(m)
  BY <1>7 DEF Links
<1>9. \A m : Missing(m)' = Missing(m)
  BY <1>7 DEF Missing
<1>10. \A m : Relocated(m)' = Relocated(m)
  BY DEF Relocated
<1> QED
  BY <1>1, <1>3, <1>4, <1>8, <1>9, <1>10 DEF Names, Files

LEMMA LinkNumbers ==
  ASSUME LoaderInv, Linking
  PROVE  /\ at \in 0..Len(loaded) /\ Len(loaded) \in Nat /\ DOMAIN loaded = 1..Len(loaded)
         /\ DOMAIN ran = 1..(Len(loaded) - at) /\ Len(ran) = Len(loaded) - at
         /\ \A k \in DOMAIN loaded : loaded[k] \in Files
         /\ \A j, k \in DOMAIN loaded : loaded[j] = loaded[k] => j = k
<1>1. phase # "failed"
  BY DEF Linking
<1>2. LoaderTypeOK /\ PlacesOK /\ ListedOnce /\ LoadedInOrder /\ RanBackwards
  BY <1>1, InvParts
<1>3. \A j, k \in DOMAIN loaded : loaded[j] = loaded[k] => j = k
  BY <1>2, LoadedOnce
<1>4. \A k \in DOMAIN loaded : loaded[k] \in Files
  BY <1>2, ElementOfSeq, LenProperties DEF LoaderTypeOK
<1> QED
  BY <1>2, <1>3, <1>4, LenProperties DEF LoaderTypeOK, PlacesOK, RanBackwards

LEMMA RelocateInv == LoaderInv /\ Relocate => LoaderInv'
<1> SUFFICES ASSUME LoaderInv, Relocate
             PROVE  LoaderInv'
  OBVIOUS
<1> DEFINE m == loaded[at]
<1>0. LoaderTypeOK /\ PlacesOK /\ ListedOnce /\ LoadedInOrder
      /\ NeedsListed /\ RanBackwards /\ RelocatedOnce /\ Audited
  BY InvParts DEF Relocate
<1>a. /\ phase = "link" /\ phase' = "audit" /\ at > 0 /\ at' = at /\ need' = need
      /\ listed' = listed /\ image' = image /\ loaded' = loaded /\ ran' = ran
      /\ moved' = [moved EXCEPT ![m] = @ \o Relocated(m)]
      /\ bound' = [bound EXCEPT ![m] = Links(m)]
  BY DEF Relocate, Links
<1>b. Linking /\ Linking' /\ ~Current /\ Current'
  BY <1>a DEF Linking, Current
<1>c. /\ at \in 1..Len(loaded) /\ Len(loaded) \in Nat /\ DOMAIN loaded = 1..Len(loaded)
      /\ \A k \in DOMAIN loaded : loaded[k] \in Files
      /\ \A j, k \in DOMAIN loaded : loaded[j] = loaded[k] => j = k
  BY <1>a, <1>b, LinkNumbers
<1>d. /\ ListedOnce' /\ LoadedInOrder' /\ NeedsListed'
      /\ \A l : Links(l)' = Links(l)
      /\ \A l : Missing(l)' = Missing(l)
      /\ \A l : Relocated(l)' = Relocated(l)
      /\ Names' = Names /\ Files' = Files
  BY <1>a, <1>b, LinkStep
<1>e. \A k \in DOMAIN loaded : Done(k)' <=> Done(k) \/ k = at
  BY <1>a, <1>b, <1>c DEF Done
<1>f. ~Done(at)
  BY <1>b, <1>c DEF Done
<1>g. m \in Files
  BY <1>c
<1>h. moved[m] = <<>>
  BY <1>0, <1>c, <1>f, <1>g DEF RelocatedOnce
<1> HIDE DEF m
<1>1. LoaderTypeOK'
  BY <1>0, <1>a, <1>d DEF LoaderTypeOK
<1>2. PlacesOK'
  BY <1>a, <1>b, <1>c DEF PlacesOK
<1>3. RanBackwards'
  BY <1>0, <1>a, <1>b DEF RanBackwards
<1>4. Audited'
  BY <1>0, <1>a, <1>b, <1>c, <1>d DEF Audited
<1>5. RelocatedOnce'
  <2>1. \A l \in Files : moved'[l] # <<>> => \E k \in DOMAIN loaded : loaded[k] = l /\ Done(k)'
    <3> SUFFICES ASSUME NEW l \in Files, moved'[l] # <<>>
                 PROVE  \E k \in DOMAIN loaded : loaded[k] = l /\ Done(k)'
      OBVIOUS
    <3>1. CASE l = m
      BY <3>1, <1>c, <1>e DEF m
    <3>2. CASE l # m
      <4>1. moved[l] # <<>>
        BY <3>2, <1>a, <1>0 DEF LoaderTypeOK
      <4> QED
        BY <4>1, <1>0, <1>e DEF RelocatedOnce
    <3> QED
      BY <3>1, <3>2
  <2>2. ASSUME NEW k \in DOMAIN loaded, Done(k)'
        PROVE  moved'[loaded[k]] = <<>> \o Relocated(loaded[k]) /\ bound'[loaded[k]] = Links(loaded[k])
    <3>1. CASE k = at
      <4>1. moved'[m] = <<>> \o Relocated(m) /\ bound'[m] = Links(m)
        BY <1>a, <1>g, <1>h, <1>0 DEF LoaderTypeOK
      <4> QED
        BY <4>1, <3>1 DEF m
    <3>2. CASE k # at
      <4>1. loaded[k] # m /\ loaded[k] \in Files
        BY <3>2, <1>c DEF m
      <4>2. moved'[loaded[k]] = moved[loaded[k]] /\ bound'[loaded[k]] = bound[loaded[k]]
        BY <4>1, <1>a, <1>0 DEF LoaderTypeOK
      <4> QED
        BY <4>2, <3>2, <2>2, <1>e, <1>0 DEF RelocatedOnce
    <3> QED
      BY <3>1, <3>2
  <2> QED
    BY <2>1, <2>2, <1>a, <1>d DEF RelocatedOnce
<1> QED
  BY <1>1, <1>2, <1>3, <1>4, <1>5, <1>d DEF LoaderInv

LEMMA AuditInv == LoaderInv /\ Audit => LoaderInv'
<1> SUFFICES ASSUME LoaderInv, Audit
             PROVE  LoaderInv'
  OBVIOUS
<1>0. LoaderTypeOK /\ PlacesOK /\ ListedOnce /\ LoadedInOrder
      /\ NeedsListed /\ RanBackwards /\ RelocatedOnce /\ Audited
  BY InvParts DEF Audit
<1>1. LoaderTypeOK'
  BY <1>0 DEF Audit, LoaderTypeOK, Names, Files
<1>2. CASE Missing(loaded[at]) # {}
  BY <1>1, <1>2 DEF Audit, LoaderInv
<1>3. CASE Missing(loaded[at]) = {}
  <2>a. /\ phase = "audit" /\ phase' = "run" /\ at' = at /\ need' = need
        /\ listed' = listed /\ image' = image /\ loaded' = loaded /\ ran' = ran
        /\ moved' = moved /\ bound' = bound
    BY <1>3 DEF Audit
  <2>b. Linking /\ Linking' /\ Current /\ Current'
    BY <2>a DEF Linking, Current
  <2>d. /\ ListedOnce' /\ LoadedInOrder' /\ NeedsListed'
        /\ \A l : Links(l)' = Links(l)
        /\ \A l : Missing(l)' = Missing(l)
        /\ \A l : Relocated(l)' = Relocated(l)
        /\ Names' = Names /\ Files' = Files
    BY <2>a, <2>b, LinkStep
  <2>1. PlacesOK'
    BY <1>0, <2>a, <2>b DEF PlacesOK
  <2>2. RanBackwards'
    BY <1>0, <2>a, <2>b DEF RanBackwards
  <2>3. Audited'
    BY <1>0, <1>3, <2>a, <2>b, <2>d DEF Audited
  <2>4. RelocatedOnce'
    BY <1>0, <2>a, <2>b, <2>d DEF RelocatedOnce, Done
  <2> QED
    BY <1>1, <2>1, <2>2, <2>3, <2>4, <2>d DEF LoaderInv
<1> QED
  BY <1>2, <1>3

LEMMA RunInv == LoaderInv /\ Run => LoaderInv'
<1> SUFFICES ASSUME LoaderInv, Run
             PROVE  LoaderInv'
  OBVIOUS
<1> DEFINE m == loaded[at]
<1>0. LoaderTypeOK /\ PlacesOK /\ ListedOnce /\ LoadedInOrder
      /\ NeedsListed /\ RanBackwards /\ RelocatedOnce /\ Audited
  BY InvParts DEF Run
<1>a. /\ phase = "run" /\ phase' = "link" /\ at' = at - 1 /\ need' = need
      /\ listed' = listed /\ image' = image /\ loaded' = loaded /\ ran' = Append(ran, m)
      /\ moved' = moved /\ bound' = bound
  BY DEF Run
<1>b. Linking /\ Linking' /\ Current /\ ~Current'
  BY <1>a DEF Linking, Current
<1>c. /\ at \in 1..Len(loaded) /\ Len(loaded) \in Nat /\ DOMAIN loaded = 1..Len(loaded)
      /\ DOMAIN ran = 1..(Len(loaded) - at) /\ Len(ran) = Len(loaded) - at
      /\ \A k \in DOMAIN loaded : loaded[k] \in Files
  <2>1. at >= 1
    BY <1>0, <1>b DEF PlacesOK
  <2> QED
    BY <2>1, <1>b, LinkNumbers
<1>d. /\ ListedOnce' /\ LoadedInOrder' /\ NeedsListed'
      /\ \A l : Links(l)' = Links(l)
      /\ \A l : Missing(l)' = Missing(l)
      /\ \A l : Relocated(l)' = Relocated(l)
      /\ Names' = Names /\ Files' = Files
  BY <1>a, <1>b, LinkStep
<1>e. m \in Files
  BY <1>c
<1>f. /\ ran' \in Seq(Files) /\ Len(ran') = Len(loaded) - at + 1
      /\ DOMAIN ran' = 1..(Len(loaded) - at + 1)
      /\ \A k \in DOMAIN ran : ran'[k] = ran[k]
      /\ ran'[Len(loaded) - at + 1] = m
  BY <1>a, <1>c, <1>e, <1>0, AppendFacts DEF LoaderTypeOK
<1>1. LoaderTypeOK'
  BY <1>0, <1>a, <1>c, <1>d, <1>f DEF LoaderTypeOK
<1>2. PlacesOK'
  BY <1>a, <1>b, <1>c DEF PlacesOK
<1>3. RanBackwards'
  <2>1. ASSUME NEW k \in DOMAIN ran'
        PROVE  ran'[k] = loaded[Len(loaded) + 1 - k]
    <3>1. CASE k \in DOMAIN ran
      BY <3>1, <1>f, <1>0, <1>b DEF RanBackwards
    <3>2. CASE k \notin DOMAIN ran
      <4>1. k = Len(loaded) - at + 1 /\ Len(loaded) + 1 - k = at
        BY <3>2, <1>f, <1>c
      <4> QED
        BY <4>1, <1>f
    <3> QED
      BY <3>1, <3>2
  <2>2. Len(ran') = Len(loaded) - at'
    BY <1>a, <1>c, <1>f
  <2> QED
    BY <2>1, <2>2, <1>a, <1>b DEF RanBackwards
<1>4. Audited'
  BY <1>0, <1>a, <1>b, <1>c, <1>d DEF Audited
<1>5. RelocatedOnce'
  <2>1. \A k \in DOMAIN loaded : Done(k)' <=> Done(k)
    BY <1>a, <1>b, <1>c DEF Done
  <2> QED
    BY <2>1, <1>0, <1>a, <1>d DEF RelocatedOnce
<1> QED
  BY <1>1, <1>2, <1>3, <1>4, <1>5, <1>d DEF LoaderInv

LEMMA FinishInv == LoaderInv /\ Finish => LoaderInv'
<1> SUFFICES ASSUME LoaderInv, Finish
             PROVE  LoaderInv'
  OBVIOUS
<1>0. LoaderTypeOK /\ PlacesOK /\ ListedOnce /\ LoadedInOrder
      /\ NeedsListed /\ RanBackwards /\ RelocatedOnce /\ Audited
  BY InvParts DEF Finish
<1>a. /\ phase = "link" /\ phase' = "done" /\ at' = at /\ need' = need
      /\ listed' = listed /\ image' = image /\ loaded' = loaded /\ ran' = ran
      /\ moved' = moved /\ bound' = bound
  BY DEF Finish
<1>b. Linking /\ Linking' /\ ~Current /\ ~Current'
  BY <1>a DEF Linking, Current
<1>d. /\ ListedOnce' /\ LoadedInOrder' /\ NeedsListed'
      /\ \A l : Links(l)' = Links(l)
      /\ \A l : Missing(l)' = Missing(l)
      /\ \A l : Relocated(l)' = Relocated(l)
      /\ Names' = Names /\ Files' = Files
  BY <1>a, <1>b, LinkStep
<1>1. LoaderTypeOK'
  BY <1>0, <1>a, <1>d DEF LoaderTypeOK
<1>2. PlacesOK'
  BY <1>0, <1>a, <1>b DEF PlacesOK
<1>3. RanBackwards'
  BY <1>0, <1>a, <1>b DEF RanBackwards
<1>4. Audited'
  BY <1>0, <1>a, <1>b, <1>d DEF Audited
<1>5. RelocatedOnce'
  BY <1>0, <1>a, <1>b, <1>d DEF RelocatedOnce, Done
<1> QED
  BY <1>1, <1>2, <1>3, <1>4, <1>5, <1>d DEF LoaderInv

LEMMA LoaderStutter == LoaderInv /\ UNCHANGED loadervars => LoaderInv'
<1> SUFFICES ASSUME LoaderInv, UNCHANGED loadervars
             PROVE  LoaderInv'
  OBVIOUS
<1> USE DEF loadervars
<1>1. LoaderTypeOK' <=> LoaderTypeOK
  BY DEF LoaderTypeOK, Names, Files
<1>2. Behind' = Behind /\ Linking' = Linking /\ Current' = Current
  BY DEF Behind, Linking, Current
<1>3. \A k : Done(k)' <=> Done(k)
  BY <1>2 DEF Done
<1>4. phase # "failed" => PlacesOK' /\ ListedOnce' /\ LoadedInOrder' /\ NeedsListed' /\ RanBackwards'
  BY <1>2 DEF LoaderInv, PlacesOK, ListedOnce, LoadedInOrder, NeedsListed, RanBackwards
<1>5. phase # "failed" => RelocatedOnce' /\ Audited'
  <2>1. CASE ~Linking
    BY <2>1, <1>2 DEF LoaderInv, RelocatedOnce, Audited, Done, Files
  <2>2. CASE Linking /\ phase # "failed"
    <3>1. (\A m : Links(m)' = Links(m)) /\ (\A m : Missing(m)' = Missing(m))
          /\ (\A m : Relocated(m)' = Relocated(m)) /\ Files' = Files
      BY <2>2, <1>2, LinkStep
    <3> QED
      BY <3>1, <1>2, <1>3, <2>2 DEF LoaderInv, RelocatedOnce, Audited
  <2> QED
    BY <2>1, <2>2
<1> QED
  BY <1>1, <1>4, <1>5 DEF LoaderInv

LEMMA LoaderStepInv == LoaderInv /\ [LoaderNext]_loadervars => LoaderInv'
BY SkipBuiltinInv, LoadModuleInv, ReadNeededInv, NextModuleInv, LoadFailsInv, BeginLinkInv,
   RelocateInv, AuditInv, RunInv, FinishInv, LoaderStutter DEF LoaderNext

-----------------------------------------------------------------------------
(* What the invariant gives *)

\* A library that has run is behind the current one.
LEMMA RanIsBehind ==
  ASSUME LoaderInv, Linking, NEW m \in ToSet(ran)
  PROVE  \E j \in DOMAIN ran : /\ ran[j] = m
                               /\ Len(loaded) + 1 - j \in DOMAIN loaded
                               /\ loaded[Len(loaded) + 1 - j] = m
                               /\ Len(loaded) + 1 - j > at
<1>1. RanBackwards /\ LoaderTypeOK
  BY InvParts DEF Linking
<1>2. PICK j \in DOMAIN ran : ran[j] = m
  BY <1>1, InToSet DEF LoaderTypeOK
<1> QED
  BY <1>1, <1>2, LinkNumbers DEF RanBackwards

\* A library that stands behind another on the list has run before it.
LEMMA BehindRanBefore ==
  ASSUME LoaderInv, Linking, NEW m \in ToSet(ran), NEW e \in DOMAIN loaded,
         Position(m) < Position(loaded[e])
  PROVE  RanBefore(loaded[e], m)
<1>0. LoaderTypeOK /\ PlacesOK /\ ListedOnce /\ LoadedInOrder /\ RanBackwards
  BY InvParts DEF Linking
<1> DEFINE n == Len(loaded)
           d == loaded[e]
<1>a. /\ at \in 0..n /\ n \in Nat /\ DOMAIN loaded = 1..n /\ DOMAIN ran = 1..(n - at)
      /\ \A k \in DOMAIN loaded : loaded[k] \in Files
  BY LinkNumbers
<1>b. DOMAIN listed = 1..Len(listed) /\ Len(listed) \in Nat
  BY <1>0, LenProperties DEF LoaderTypeOK
<1>1. PICK k \in DOMAIN ran : ran[k] = m /\ n + 1 - k \in DOMAIN loaded
                              /\ loaded[n + 1 - k] = m /\ n + 1 - k > at
  BY RanIsBehind
<1>2. PICK p \in DOMAIN listed : listed[p] = d
  BY <1>0 DEF LoadedInOrder
<1>3. PICK q \in DOMAIN listed : listed[q] = m
  BY <1>1, <1>0 DEF LoadedInOrder
<1>4. Position(d) = p /\ Position(m) = q
  BY <1>2, <1>3, <1>0 DEF Position, ListedOnce
<1>5. q < p
  BY <1>4
<1>6. e > n + 1 - k
  <2>1. CASE e = n + 1 - k
    <3>1. p = q
      BY <2>1, <1>1, <1>2, <1>3, <1>0 DEF ListedOnce
    <3> QED
      BY <3>1, <1>5, <1>b
  <2>2. CASE e < n + 1 - k
    <3>1. p < q
      BY <2>2, <1>1, <1>2, <1>3, <1>0 DEF LoadedInOrder
    <3> QED
      BY <3>1, <1>5, <1>b
  <2> QED
    BY <2>1, <2>2, <1>a
<1>7. n + 1 - e \in DOMAIN ran /\ n + 1 - e < k /\ n + 1 - (n + 1 - e) = e
  BY <1>6, <1>1, <1>a
<1>8. ran[n + 1 - e] = d
  BY <1>7, <1>0 DEF RanBackwards
<1> QED
  BY <1>1, <1>7, <1>8 DEF RanBefore

LEMMA OrderOfRunning ==
  ASSUME LoaderInv, phase # "failed"
  PROVE  NeedsFirst
<1>0. LoaderTypeOK /\ PlacesOK /\ ListedOnce /\ LoadedInOrder
      /\ NeedsListed /\ RanBackwards
  BY InvParts
<1>1. CASE ~Linking
  BY <1>1, <1>0 DEF NeedsFirst, RanBackwards, ToSet
<1>2. CASE Linking
  <2> SUFFICES ASSUME NEW m \in ToSet(ran), NEW d \in Files,
                      d \in ToSet(image[m].needs), d \notin Builtin, Position(m) < Position(d)
               PROVE  RanBefore(d, m)
    BY DEF NeedsFirst
  <2>1. PICK k \in DOMAIN loaded : loaded[k] = m /\ m \in Files
    BY <1>2, RanIsBehind, LinkNumbers
  <2>2. image[m].needs \in Seq(ToSet(image[m].needs))
    BY <2>1, <1>0, ImagesAssumption DEF LoaderTypeOK, Files
  <2>3. PICK i \in DOMAIN image[m].needs : image[m].needs[i] = d
    BY <2>2, InToSet
  <2>4. PICK p \in DOMAIN listed : listed[p] = d
    BY <2>1, <2>3, <1>0, <1>2 DEF NeedsListed, Linking
  <2>5. DOMAIN listed = 1..Len(listed) /\ Len(listed) \in Nat /\ Behind = Len(listed)
    BY <1>0, <1>2, LenProperties DEF LoaderTypeOK, Behind, Linking
  <2>6. PICK e \in DOMAIN loaded : loaded[e] = d
    BY <2>4, <2>5, <1>0 DEF LoadedInOrder
  <2> QED
    BY <2>6, <1>2, BehindRanBefore
<1> QED
  BY <1>1, <1>2

\* What an import of a library that has run is bound to.
LEMMA RanIsLinked ==
  ASSUME LoaderInv, Linking, NEW m \in ToSet(ran)
  PROVE  /\ m \in Files /\ moved[m] = <<>> \o Relocated(m)
         /\ bound[m] = Links(m) /\ Missing(m) = {}
<1>1. PICK j \in DOMAIN ran : Len(loaded) + 1 - j \in DOMAIN loaded
                              /\ loaded[Len(loaded) + 1 - j] = m /\ Len(loaded) + 1 - j > at
  BY RanIsBehind
<1>2. RelocatedOnce /\ Audited
  BY InvParts DEF Linking
<1> QED
  BY <1>1, <1>2, LinkNumbers DEF RelocatedOnce, Audited, Done

\* Whom a name is looked up at does not depend on who asks, unless he defines it.
LEMMA SameExporters ==
  ASSUME NEW l, NEW m, NEW s, s \notin image[l].exports, s \notin image[m].exports
  PROVE  Resolve(l, s) = Resolve(m, s)
<1>1. Exporters(l, s) = Exporters(m, s)
  BY DEF Exporters
<1> QED
  BY <1>1 DEF Resolve

LEMMA ProvidersAgree ==
  ASSUME LoaderInv, phase # "failed"
  PROVE  SameProvider
<1>1. CASE ~Linking
  BY <1>1, InvParts DEF SameProvider, RanBackwards, ToSet
<1>2. CASE Linking
  <2> SUFFICES ASSUME NEW l \in ToSet(ran), NEW m \in ToSet(ran),
                      NEW s \in image[l].imports \cap image[m].imports,
                      s \notin image[l].exports, s \notin image[m].exports
               PROVE  bound[l][s] = bound[m][s]
    BY DEF SameProvider
  <2>1. bound[l] = Links(l) /\ bound[m] = Links(m)
    BY <1>2, RanIsLinked
  <2>2. Links(l)[s] = Resolve(l, s) /\ Links(m)[s] = Resolve(m, s)
    BY DEF Links
  <2> QED
    BY <2>1, <2>2, SameExporters
<1> QED
  BY <1>1, <1>2

\* Every library's relocations, decoded, are its words, each once.
Decodes ==
  \A im \in Images : \A m \in DOMAIN im :
    LET words == RelrWords(im[m].relr) \o PackedWords(im[m].packed) \o im[m].plain
    IN  words \in Seq(im[m].words) /\ IsInjective(words) /\ ToSet(words) = im[m].words

LEMMA LeastElement ==
  ASSUME NEW S \in SUBSET Nat, S # {}
  PROVE  \E k \in S : \A j \in S : k <= j
<1> DEFINE R == OpToRel(<, Nat)
<1>1. IsWellFoundedOn(R, Nat)
  BY NatLessThanWellFounded
<1>2. \A i, j \in Nat : <<i, j>> \in R <=> i < j
  BY DEF OpToRel
<1> HIDE DEF R
<1>3. PICK k \in S : \A j \in S : ~(<<j, k>> \in R)
  BY <1>1, WFMin
<1>4. \A j \in S : ~(j < k)
  BY <1>2, <1>3
<1> QED
  BY <1>4

\* The library found first is one of those that define the name.
LEMMA FirstDefines ==
  ASSUME NEW ks \in SUBSET DOMAIN loaded, ks # {}, DOMAIN loaded \subseteq Nat
  PROVE  \E k \in ks : FirstOf(ks) = loaded[k]
<1>1. \E k \in ks : \A j \in ks : k <= j
  BY LeastElement
<1> QED
  BY <1>1 DEF FirstOf

\* A library that ran has one place on the list.
LEMMA PositionIsPlace ==
  ASSUME LoaderInv, Linking, NEW m \in ToSet(ran)
  PROVE  Position(m) \in Nat /\ ~(Position(m) < Position(m))
<1>0. LoaderTypeOK /\ ListedOnce /\ LoadedInOrder
  BY InvParts DEF Linking
<1>1. PICK k \in DOMAIN loaded : loaded[k] = m
  BY RanIsBehind, LinkNumbers
<1>2. PICK q \in DOMAIN listed : listed[q] = m
  BY <1>1, <1>0 DEF LoadedInOrder
<1>3. Position(m) = q /\ q \in Nat
  BY <1>2, <1>0, LenProperties DEF Position, ListedOnce, LoaderTypeOK
<1> QED
  BY <1>3

LEMMA RanIsBound ==
  ASSUME LoaderInv, phase # "failed", Decodes
  PROVE  RunsBound
<1>0. LoaderTypeOK
  BY InvParts
<1>1. CASE ~Linking
  BY <1>1, InvParts DEF RunsBound, RanBackwards, ToSet
<1>2. CASE Linking
  <2> SUFFICES ASSUME NEW m \in ToSet(ran)
               PROVE  /\ IsInjective(moved[m]) /\ ToSet(moved[m]) = image[m].words
                      /\ \A s \in image[m].imports \ image[m].weak : bound[m][s] \notin {"raw", "stub"}
                      /\ \A s \in image[m].imports :
                           bound[m][s] \in Files /\ Position(m) < Position(bound[m][s]) =>
                             RanBefore(bound[m][s], m)
    BY DEF RunsBound
  <2>1. m \in Files /\ moved[m] = <<>> \o Relocated(m) /\ bound[m] = Links(m) /\ Missing(m) = {}
    BY <1>2, RanIsLinked
  <2>2. /\ Relocated(m) \in Seq(image[m].words) /\ IsInjective(Relocated(m))
        /\ ToSet(Relocated(m)) = image[m].words
    BY <2>1, <1>0 DEF Decodes, Relocated, LoaderTypeOK, Files
  <2>3. moved[m] = Relocated(m)
    BY <2>1, <2>2, ConcatEmptySeq
  <2>4. ASSUME NEW s \in image[m].imports, s \notin image[m].weak
        PROVE  bound[m][s] \notin {"raw", "stub"}
    <3>1. Files \cap {"raw", "stub"} = {}
      BY <1>0, ImagesAssumption DEF LoaderTypeOK, Files
    <3>2. CASE s \in image[m].exports
      BY <3>1, <3>2, <2>1 DEF Links
    <3>3. CASE s \notin image[m].exports
      <4>1. bound[m][s] = Resolve(m, s) /\ Resolve(m, s) # "stub"
        BY <3>3, <2>1, <2>4 DEF Links, Missing
      <4>2. CASE Exporters(m, s) = {}
        BY <4>1, <4>2 DEF Resolve
      <4>3. CASE Exporters(m, s) # {}
        <5>1. Exporters(m, s) \subseteq DOMAIN loaded /\ DOMAIN loaded \subseteq Nat
          BY <1>2, LinkNumbers DEF Exporters
        <5>2. FirstOf(Exporters(m, s)) \in Files
          BY <5>1, <4>3, FirstDefines, <1>2, LinkNumbers
        <5> QED
          BY <4>1, <4>3, <5>2, <3>1 DEF Resolve
      <4> QED
        BY <4>2, <4>3
    <3> QED
      BY <3>2, <3>3
  <2>5. ASSUME NEW s \in image[m].imports, bound[m][s] \in Files,
               Position(m) < Position(bound[m][s])
        PROVE  RanBefore(bound[m][s], m)
    <3>1. m \in Files /\ Position(m) # Position(bound[m][s]) /\ bound[m][s] # m
      BY <2>1, <2>5, PositionIsPlace, <1>2
    <3>2. bound[m][s] = Resolve(m, s)
      BY <3>1, <2>1 DEF Links
    <3>3. Exporters(m, s) # {} /\ bound[m][s] = FirstOf(Exporters(m, s))
      BY <3>2, <2>5, <1>0, ImagesAssumption DEF Resolve, LoaderTypeOK, Files
    <3>4. Exporters(m, s) \subseteq DOMAIN loaded /\ DOMAIN loaded \subseteq Nat
      BY <1>2, LinkNumbers DEF Exporters
    <3>5. PICK e \in DOMAIN loaded : bound[m][s] = loaded[e]
      BY <3>3, <3>4, LeastElement DEF FirstOf
    <3> QED
      BY <3>5, <2>5, <1>2, BehindRanBefore
  <2> QED
    BY <2>2, <2>3, <2>4, <2>5
<1> QED
  BY <1>1, <1>2

Failed == phase = "failed"

\* A step that fails is one that changes no more than the phase.
LEMMA FailingChangesNothing ==
  ASSUME [LoaderNext]_loadervars, phase' = "failed"
  PROVE  /\ image' = image /\ listed' = listed /\ loaded' = loaded
         /\ moved' = moved /\ bound' = bound /\ ran' = ran
BY DEF LoaderNext, loadervars, SkipBuiltin, LoadModule, ReadNeeded, NextModule, LoadFails,
       BeginLink, Relocate, Audit, Run, Finish

-----------------------------------------------------------------------------
(* Theorems *)

LEMMA LoaderInvariant == LoaderSpec => []LoaderInv
<1>1. LoaderInit => LoaderInv
  BY LoaderInitInv
<1>2. LoaderInv /\ [LoaderNext]_loadervars => LoaderInv'
  BY LoaderStepInv
<1> QED
  BY <1>1, <1>2, PTL DEF LoaderSpec

\* The initialisers of a library run after those of every library it needs that
\* stands behind it on the list, whatever the libraries need, circles included
\* (so_load_module links from the last loaded to the first).
THEOREM NeededRunFirst == LoaderSpec => []NeedsFirst
<1>1. LoaderInit => NeedsFirst
  BY DEF LoaderInit, NeedsFirst, ToSet
<1>2. LoaderInv => Failed \/ NeedsFirst
  BY OrderOfRunning DEF Failed
<1>3. Failed' /\ NeedsFirst /\ [LoaderNext]_loadervars => NeedsFirst'
  <2> SUFFICES ASSUME Failed', NeedsFirst, [LoaderNext]_loadervars
               PROVE  NeedsFirst'
    OBVIOUS
  <2>1. image' = image /\ listed' = listed /\ ran' = ran
    BY FailingChangesNothing DEF Failed
  <2> QED
    BY <2>1 DEF NeedsFirst, Position, RanBefore, Files
<1> QED
  BY <1>1, <1>2, <1>3, LoaderInvariant, PTL DEF LoaderSpec

\* Libraries that import a name none of them defines are bound to one provider
\* (so_resolve_link searches in load order, and loading is over by then).
THEOREM OneProvider == LoaderSpec => []SameProvider
<1>1. LoaderInit => SameProvider
  BY DEF LoaderInit, SameProvider, ToSet
<1>2. LoaderInv => Failed \/ SameProvider
  BY ProvidersAgree DEF Failed
<1>3. Failed' /\ SameProvider /\ [LoaderNext]_loadervars => SameProvider'
  <2> SUFFICES ASSUME Failed', SameProvider, [LoaderNext]_loadervars
               PROVE  SameProvider'
    OBVIOUS
  <2>1. image' = image /\ bound' = bound /\ ran' = ran
    BY FailingChangesNothing DEF Failed
  <2> QED
    BY <2>1 DEF SameProvider
<1> QED
  BY <1>1, <1>2, <1>3, LoaderInvariant, PTL DEF LoaderSpec

\* If the relocation tables of every library decode to its words, then a library's
\* initialisers start when each word of it has moved once, each import it may call
\* leads somewhere, and the libraries behind it on the list that its imports lead to
\* have been initialised (so_relocate_all and the audit of so_after_relocate come
\* before so_initialize, once for each library, from the last loaded to the first).
THEOREM CodeRunsBound ==
  ASSUME Decodes
  PROVE  LoaderSpec => []RunsBound
<1>1. LoaderInit => RunsBound
  BY DEF LoaderInit, RunsBound, ToSet
<1>2. LoaderInv => Failed \/ RunsBound
  BY RanIsBound DEF Failed
<1>3. Failed' /\ RunsBound /\ [LoaderNext]_loadervars => RunsBound'
  <2> SUFFICES ASSUME Failed', RunsBound, [LoaderNext]_loadervars
               PROVE  RunsBound'
    OBVIOUS
  <2>1. image' = image /\ listed' = listed /\ moved' = moved /\ bound' = bound /\ ran' = ran
    BY FailingChangesNothing DEF Failed
  <2> QED
    <3>1. \A m : Position(m)' = Position(m)
      BY <2>1 DEF Position
    <3>2. \A d, m : RanBefore(d, m)' = RanBefore(d, m)
      BY <2>1 DEF RanBefore
    <3>3. Files' = Files
      BY <2>1 DEF Files
    <3> QED
      BY <2>1, <3>1, <3>2, <3>3 DEF RunsBound
<1> QED
  BY <1>1, <1>2, <1>3, LoaderInvariant, PTL DEF LoaderSpec
=============================================================================
