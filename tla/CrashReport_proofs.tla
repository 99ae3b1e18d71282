-------------------------- MODULE CrashReport_proofs --------------------------
(***************************************************************************)
(* Proofs about CrashReport, for any number of threads, signals and pieces: *)
(* NoBraiding and ReportWhole.                                              *)
(***************************************************************************)
EXTENDS CrashReport, SequenceTheorems, TLAPS

Labels == {"entry", "report", "second", "parked", "raise"}
Frames == [sig : Sigs, at : Labels, n : 0..Pieces, bad : SUBSET Reading]

CrashType ==
  /\ frames \in [Threads -> Seq(Frames)]
  /\ reporting \in BOOLEAN
  /\ reset \subseteq Sigs
  /\ out \in Seq(Threads \X (0..Pieces))
  /\ ended \in Sigs \cup {None}
  /\ why \subseteq {"late", "read"}

\* The frame that reports, and what every other frame is.
Reports(f) == f.at = "report" \/ (f.at = "raise" /\ f.n = Pieces)
Bystander(f) == f.at # "report" /\ f.n = 0

\* The i-th handler of t is the reporter: what is written is its work, and it is
\* the only one.
Reporter(t, i) ==
  /\ Reports(frames[t][i])
  /\ Written(Len(out)) = 1..frames[t][i].n
  /\ \A k \in DOMAIN out : out[k][2] > 0 => out[k][1] = t
  /\ \A u \in Threads : \A j \in DOMAIN frames[u] :
       u # t \/ j # i => Bystander(frames[u][j])

OneReporter ==
  /\ reporting => \E t \in Threads : \E i \in DOMAIN frames[t] : Reporter(t, i)
  /\ ~reporting =>
       /\ Written(Len(out)) = {}
       /\ \A u \in Threads : \A j \in DOMAIN frames[u] :
            frames[u][j].at = "entry" /\ frames[u][j].n = 0

InOrder ==
  \A k \in DOMAIN out : out[k][2] > 0 => Written(k - 1) = 1..(out[k][2] - 1)

\* Unless a loser gave up or the reporter faulted, no handler is inside another, and
\* only the reporter has given its signal back to the kernel.
Undisturbed ==
  why = {} =>
    /\ \A t \in Threads : Len(frames[t]) <= 1
    /\ \A t \in Threads : \A i \in DOMAIN frames[t] :
         frames[t][i].at = "raise" => frames[t][i].n = Pieces /\ frames[t][i].sig \in reset
    /\ \A s \in reset : \E t \in Threads :
         frames[t] # <<>> /\ frames[t][1].at = "raise" /\ frames[t][1].sig = s
    /\ ended # None => ended \in reset

\* A frame that has met what it cannot read.
Stuck(f) == f.at = "report" /\ f.n + 1 \in f.bad

\* A fault of the reporter leaves it at the piece it could not read.
StuckStays == "read" \in why => \E t \in Threads : \E i \in DOMAIN frames[t] : Stuck(frames[t][i])

CrashInv == CrashType /\ OneReporter /\ InOrder /\ Undisturbed /\ StuckStays

-----------------------------------------------------------------------------
(* What a step does to the frames.                                           *)

\* Only the innermost frame of t changes, into f.
Changed(t, f) ==
  /\ frames' \in [Threads -> Seq(Frames)]
  /\ f \in Frames /\ frames'[t][1] = f
  /\ \A u \in Threads : DOMAIN frames'[u] = DOMAIN frames[u] /\ Len(frames'[u]) = Len(frames[u])
  /\ \A u \in Threads : \A j \in DOMAIN frames[u] :
       u # t \/ j # 1 => frames'[u][j] = frames[u][j]

LEMMA ToChanges ==
  ASSUME CrashType, NEW t \in Threads, frames[t] # <<>>, NEW l \in Labels, To(t, l)
  PROVE  Changed(t, [frames[t][1] EXCEPT !.at = l])
<1>1. frames[t] \in Seq(Frames) /\ 1 \in DOMAIN frames[t] /\ frames[t][1] \in Frames
  BY DEF CrashType
<1>2. [frames[t][1] EXCEPT !.at = l] \in Frames
  BY <1>1 DEF Frames
<1>3. frames' = [frames EXCEPT ![t] = [frames[t] EXCEPT ![1] = [frames[t][1] EXCEPT !.at = l]]]
  BY DEF To
<1> DEFINE new == [frames[t] EXCEPT ![1] = [frames[t][1] EXCEPT !.at = l]]
<1>4. new \in Seq(Frames) /\ Len(new) = Len(frames[t])
  BY <1>1, <1>2, ExceptSeq
<1> QED BY <1>1, <1>2, <1>3, <1>4 DEF CrashType, Changed

LEMMA PieceChanges ==
  ASSUME CrashType, NEW t \in Threads, frames[t] # <<>>, frames[t][1].n < Pieces,
         frames' = [frames EXCEPT ![t][1].n = @ + 1]
  PROVE  Changed(t, [frames[t][1] EXCEPT !.n = @ + 1])
<1>1. frames[t] \in Seq(Frames) /\ 1 \in DOMAIN frames[t] /\ frames[t][1] \in Frames
  BY DEF CrashType
<1>2. [frames[t][1] EXCEPT !.n = @ + 1] \in Frames
  <2>1. frames[t][1].n \in Nat /\ frames[t][1].n + 1 \in 0..Pieces
    BY <1>1, CrashAssumption DEF Frames
  <2> QED BY <1>1, <2>1 DEF Frames
<1> DEFINE new == [frames[t] EXCEPT ![1] = [frames[t][1] EXCEPT !.n = @ + 1]]
<1>3. frames' = [frames EXCEPT ![t] = new]
  OBVIOUS
<1>4. new \in Seq(Frames) /\ Len(new) = Len(frames[t])
  BY <1>1, <1>2, ExceptSeq
<1> QED BY <1>1, <1>2, <1>3, <1>4 DEF CrashType, Changed

LEMMA PushChanges ==
  ASSUME CrashType, NEW t \in Threads, NEW s \in Sigs, NEW bad \in SUBSET Reading,
         frames' = [frames EXCEPT ![t] = <<Frame(s, bad)>> \o @]
  PROVE  /\ frames' \in [Threads -> Seq(Frames)]
         /\ frames'[t][1].at = "entry" /\ frames'[t][1].n = 0
         /\ Len(frames'[t]) = Len(frames[t]) + 1
         /\ \A j \in DOMAIN frames[t] : j + 1 \in DOMAIN frames'[t] /\ frames'[t][j + 1] = frames[t][j]
         /\ \A j \in DOMAIN frames'[t] : j # 1 => j - 1 \in DOMAIN frames[t] /\ frames'[t][j] = frames[t][j - 1]
         /\ \A u \in Threads \ {t} : frames'[u] = frames[u]
<1>1. frames[t] \in Seq(Frames)
  BY DEF CrashType
<1>2. Frame(s, bad) \in Frames
  BY CrashAssumption DEF Frame, Frames, Labels
<1>3. frames'[t] = <<Frame(s, bad)>> \o frames[t]
  BY DEF CrashType
<1>4. frames'[t] \in Seq(Frames)
  BY <1>1, <1>2, <1>3
<1>5. frames'[t][1] = Frame(s, bad)
  BY <1>1, <1>2, <1>3
<1>6. Frame(s, bad).at = "entry" /\ Frame(s, bad).n = 0
  BY DEF Frame
<1>7. frames'[t][1].at = "entry" /\ frames'[t][1].n = 0
  BY <1>5, <1>6
<1> QED BY <1>1, <1>2, <1>3, <1>4, <1>7 DEF CrashType

\* What is written with one more thing on standard error.
LEMMA AppendWritten ==
  ASSUME CrashType, NEW t \in Threads, NEW n \in 0..Pieces, out' = Append(out, <<t, n>>)
  PROVE  /\ out' \in Seq(Threads \X (0..Pieces))
         /\ DOMAIN out' = DOMAIN out \cup {Len(out) + 1} /\ Len(out') = Len(out) + 1
         /\ \A k \in DOMAIN out : out'[k] = out[k]
         /\ out'[Len(out) + 1] = <<t, n>>
         /\ \A k \in 0..Len(out) : Written(k)' = Written(k)
         /\ Written(Len(out))' = Written(Len(out)) \cup ({n} \ {0})
<1>1. out \in Seq(Threads \X (0..Pieces)) /\ Len(out) \in Nat
  BY DEF CrashType
<1>2. /\ out' \in Seq(Threads \X (0..Pieces))
      /\ DOMAIN out' = DOMAIN out \cup {Len(out) + 1} /\ Len(out') = Len(out) + 1
      /\ \A k \in DOMAIN out : out'[k] = out[k]
      /\ out'[Len(out) + 1] = <<t, n>>
  BY <1>1
<1>3. \A k \in 0..Len(out) : {out'[i][2] : i \in 1..k} = {out[i][2] : i \in 1..k}
  BY <1>1, <1>2
<1>4. {out'[i][2] : i \in 1..(Len(out) + 1)} = {out[i][2] : i \in 1..Len(out)} \cup {n}
  BY <1>1, <1>2
<1> QED BY <1>1, <1>2, <1>3, <1>4 DEF Written

\* A step that touches neither the frames nor what is written.
LEMMA SameReport ==
  ASSUME OneReporter, InOrder, UNCHANGED <<frames, reporting, out>>
  PROVE  OneReporter' /\ InOrder'
<1>1. \A k : Written(k)' = Written(k)
  BY DEF Written
<1>2. \A t, i : Reporter(t, i) => Reporter(t, i)'
  BY <1>1 DEF Reporter
<1> QED BY <1>1, <1>2 DEF OneReporter, InOrder

-----------------------------------------------------------------------------
(* The actions.  A loser's steps change a bystander's frame into another.      *)

\* A bystander's label changes; nothing is written but perhaps its line.
LEMMA BystanderKeeps ==
  ASSUME CrashType, OneReporter, InOrder, reporting, reporting' = TRUE,
         NEW t \in Threads, frames[t] # <<>>, NEW l \in Labels \ {"report"}, To(t, l),
         Bystander(frames[t][1]),
         out' = out \/ out' = Append(out, <<t, 0>>)
  PROVE  OneReporter' /\ InOrder' /\ out' \in Seq(Threads \X (0..Pieces))
<1>c. Changed(t, [frames[t][1] EXCEPT !.at = l]) /\ frames[t][1] \in Frames
  BY ToChanges DEF CrashType
<1>0. PICK r \in Threads : \E i \in DOMAIN frames[r] : Reporter(r, i)
  BY DEF OneReporter
<1>1. PICK i \in DOMAIN frames[r] : Reporter(r, i)
  BY <1>0
<1>2. r # t \/ i # 1
  BY <1>1, CrashAssumption DEF Reporter, Reports, Bystander
<1>3. frames'[r][i] = frames[r][i] /\ i \in DOMAIN frames'[r]
  BY <1>2, <1>c DEF Changed
<1>4. /\ Written(Len(out))' = Written(Len(out))
      /\ \A k \in DOMAIN out' : out'[k][2] > 0 => k \in DOMAIN out /\ out'[k] = out[k]
      /\ \A k \in 0..Len(out) : Written(k)' = Written(k)
      /\ out' \in Seq(Threads \X (0..Pieces))
  <2>1. CASE out' = out
    BY <2>1 DEF Written, CrashType
  <2>2. CASE out' = Append(out, <<t, 0>>)
    <3>1. 0 \in 0..Pieces
      BY CrashAssumption
    <3> QED BY <2>2, <3>1, AppendWritten DEF Written
  <2> QED BY <2>1, <2>2
<1>5. \A u \in Threads : \A j \in DOMAIN frames'[u] : u # r \/ j # i => Bystander(frames'[u][j])
  <2>1. frames'[t][1] = [frames[t][1] EXCEPT !.at = l]
    BY <1>c DEF Changed
  <2>2. Bystander(frames'[t][1])
    BY <1>c, <2>1 DEF Bystander, Frames
  <2> SUFFICES ASSUME NEW u \in Threads, NEW j \in DOMAIN frames'[u], u # r \/ j # i
               PROVE  Bystander(frames'[u][j])
    OBVIOUS
  <2>3. j \in DOMAIN frames[u] /\ (u # t \/ j # 1 => frames'[u][j] = frames[u][j])
    BY <1>c DEF Changed
  <2>4. Bystander(frames[u][j])
    BY <1>1, <2>3 DEF Reporter
  <2> QED BY <2>2, <2>3, <2>4
<1>6. Reporter(r, i)'
  BY <1>1, <1>3, <1>4, <1>5 DEF Reporter
<1>7. InOrder'
  <2>1. \A k \in DOMAIN out : k - 1 \in 0..Len(out)
    BY DEF CrashType
  <2> QED BY <1>4, <2>1 DEF InOrder
<1> QED BY <1>3, <1>4, <1>6, <1>7 DEF OneReporter

\* A frame that takes another label than "raise" disturbs nothing.
LEMMA QuietStep ==
  ASSUME CrashType, Undisturbed, NEW t \in Threads, frames[t] # <<>>, NEW f, Changed(t, f),
         frames[t][1].at # "raise", f.at # "raise", UNCHANGED <<reset, ended, why>>
  PROVE  Undisturbed'
<1>1. 1 \in DOMAIN frames[t] /\ \A u \in Threads : frames[u] # <<>> => 1 \in DOMAIN frames[u]
  BY DEF CrashType
<1>2. \A u \in Threads : frames[u] # <<>> => frames'[u] # <<>>
  BY <1>1 DEF Changed
<1>3. \A u \in Threads : frames[u] # <<>> /\ frames[u][1].at = "raise" => frames'[u][1] = frames[u][1]
  BY <1>1 DEF Changed
<1>4. \A u \in Threads : \A j \in DOMAIN frames'[u] :
        j \in DOMAIN frames[u] /\ (frames'[u][j].at = "raise" => frames'[u][j] = frames[u][j])
  BY DEF Changed
<1> QED BY <1>2, <1>3, <1>4 DEF Undisturbed, Changed

\* The innermost frame of t changes and is as stuck as before.
LEMMA StuckKept ==
  ASSUME StuckStays, NEW t \in Threads, NEW f, Changed(t, f), 1 \in DOMAIN frames[t],
         Stuck(frames[t][1]) => Stuck(f), why' \cap {"read"} = why \cap {"read"}
  PROVE  StuckStays'
<1> SUFFICES ASSUME "read" \in why'
             PROVE  \E u \in Threads : \E i \in DOMAIN frames'[u] : Stuck(frames'[u][i])
  BY DEF StuckStays, Stuck
<1>1. PICK u \in Threads : \E i \in DOMAIN frames[u] : Stuck(frames[u][i])
  BY DEF StuckStays
<1>2. PICK i \in DOMAIN frames[u] : Stuck(frames[u][i])
  BY <1>1
<1>3. i \in DOMAIN frames'[u] /\ (u # t \/ i # 1 => frames'[u][i] = frames[u][i]) /\ frames'[t][1] = f
  BY DEF Changed
<1>4. Stuck(frames'[u][i])
  BY <1>2, <1>3
<1> QED BY <1>3, <1>4

LEMMA EnterKeeps ==
  ASSUME CrashInv, NEW t \in Threads, Enter(t)
  PROVE  CrashInv'
<1> USE DEF CrashInv
<1>1. frames[t] # <<>> /\ frames[t][1].at = "entry" /\ frames[t][1] \in Frames /\ 1 \in DOMAIN frames[t]
  BY DEF Enter, In, Top, CrashType
<1>s. StuckStays'
  <2>1. PICK l \in Labels : To(t, l)
    BY DEF Enter, Labels
  <2>2. Changed(t, [frames[t][1] EXCEPT !.at = l])
    BY <1>1, <2>1, ToChanges
  <2>3. ~Stuck(frames[t][1]) /\ UNCHANGED why
    BY <1>1 DEF Stuck, Enter
  <2> QED BY <1>1, <2>2, <2>3, StuckKept
<1>2. CASE reporting
  <2>1. Bystander(frames[t][1])
    <3>0. PICK r \in Threads : \E i \in DOMAIN frames[r] : Reporter(r, i)
      BY <1>2 DEF OneReporter
    <3>1. PICK i \in DOMAIN frames[r] : Reporter(r, i)
      BY <3>0
    <3> QED BY <1>1, <3>1 DEF Reporter, Reports
  <2>2. To(t, "second") /\ UNCHANGED <<reset, out, ended, why>> /\ reporting' = TRUE
    BY <1>2 DEF Enter
  <2>3. OneReporter' /\ InOrder'
    BY <1>1, <1>2, <2>1, <2>2, BystanderKeeps DEF Labels
  <2>4. CrashType' /\ Undisturbed'
    <3>1. Changed(t, [frames[t][1] EXCEPT !.at = "second"])
      BY <1>1, <2>2, ToChanges DEF Labels
    <3>2. frames'[t][1].at = "second"
      BY <1>1, <3>1 DEF Changed, Frames
    <3> QED BY <2>2, <3>1, <3>2, <1>1, QuietStep DEF CrashType, Changed
  <2> QED BY <1>s, <2>3, <2>4
<1>3. CASE ~reporting
  <2>1. To(t, "report") /\ UNCHANGED <<reset, out, ended, why>> /\ reporting' = TRUE
    BY <1>3 DEF Enter
  <2>c. Changed(t, [frames[t][1] EXCEPT !.at = "report"])
    BY <1>1, <2>1, ToChanges DEF Labels
  <2>2. frames'[t][1].at = "report" /\ frames'[t][1].n = 0 /\ 1 \in DOMAIN frames'[t]
    BY <1>1, <1>3, <2>c DEF OneReporter, Frames, Changed
  <2>3. \A k \in DOMAIN out : ~(out[k][2] > 0)
    <3> SUFFICES ASSUME NEW k \in DOMAIN out, out[k][2] > 0 PROVE FALSE
      OBVIOUS
    <3>1. out[k][2] \in Written(Len(out))
      BY DEF Written, CrashType
    <3> QED BY <1>3, <3>1 DEF OneReporter
  <2>4. \A u \in Threads : \A j \in DOMAIN frames'[u] : u # t \/ j # 1 => Bystander(frames'[u][j])
    BY <1>3, <2>c DEF OneReporter, Bystander, Changed
  <2>5. Written(Len(out))' = 1..0
    BY <1>3, <2>1 DEF OneReporter, Written
  <2>6. Reporter(t, 1)'
    BY <2>1, <2>2, <2>3, <2>4, <2>5 DEF Reporter, Reports
  <2>7. OneReporter' /\ InOrder'
    BY <2>1, <2>2, <2>3, <2>6 DEF OneReporter, InOrder
  <2>8. CrashType' /\ Undisturbed'
    BY <1>1, <2>1, <2>2, <2>c, QuietStep DEF CrashType, Changed
  <2> QED BY <1>s, <2>7, <2>8
<1> QED BY <1>2, <1>3

\* Only the reporter writes pieces.
LEMMA AtTheTop ==
  ASSUME CrashInv, NEW t \in Threads, frames[t] # <<>>, frames[t][1].at = "report"
  PROVE  reporting /\ Reporter(t, 1) /\ 1 \in DOMAIN frames[t] /\ frames[t][1] \in Frames
<1>1. 1 \in DOMAIN frames[t] /\ frames[t][1] \in Frames
  BY DEF CrashInv, CrashType
<1>2. reporting
  BY <1>1 DEF CrashInv, CrashType, OneReporter
<1>3. PICK r \in Threads : \E i \in DOMAIN frames[r] : Reporter(r, i)
  BY <1>2 DEF CrashInv, OneReporter
<1>4. PICK i \in DOMAIN frames[r] : Reporter(r, i)
  BY <1>3
<1>5. r = t /\ i = 1
  BY <1>1, <1>4 DEF Reporter, Bystander
<1> QED BY <1>1, <1>2, <1>4, <1>5

LEMMA WritePieceKeeps ==
  ASSUME CrashInv, NEW t \in Threads, WritePiece(t)
  PROVE  CrashInv'
<1> DEFINE n == frames[t][1].n
<1>1. frames[t] # <<>> /\ frames[t][1].at = "report" /\ n < Pieces
  BY DEF WritePiece, In, Top, CrashInv, CrashType
<1>2. reporting /\ Reporter(t, 1) /\ 1 \in DOMAIN frames[t] /\ frames[t][1] \in Frames
  BY <1>1, AtTheTop
<1>3. n \in Nat /\ n + 1 \in 0..Pieces /\ n + 1 > 0
  BY <1>1, <1>2, CrashAssumption DEF Frames
<1>4. /\ out' = Append(out, <<t, n + 1>>)
      /\ frames' = [frames EXCEPT ![t][1].n = @ + 1]
      /\ UNCHANGED <<reporting, reset, ended, why>>
  <2>1. Top(t) = frames[t][1]
    BY DEF Top, CrashInv, CrashType
  <2> QED
    BY <2>1 DEF WritePiece
<1>c. Changed(t, [frames[t][1] EXCEPT !.n = @ + 1])
  BY <1>1, <1>4, PieceChanges DEF CrashInv
<1>5. CrashType'
  BY <1>3, <1>4, <1>c, AppendWritten DEF CrashInv, CrashType, Changed
<1>6. frames'[t][1].at = "report" /\ frames'[t][1].n = n + 1 /\ 1 \in DOMAIN frames'[t]
  BY <1>1, <1>2, <1>c DEF Frames, Changed
<1>7. Written(Len(out)) = 1..n
  BY <1>2 DEF Reporter
<1>8. Written(Len(out))' = 1..(n + 1)
  <2>1. Written(Len(out))' = 1..n \cup ({n + 1} \ {0})
    BY <1>3, <1>4, <1>7, AppendWritten DEF CrashInv
  <2> QED BY <1>3, <2>1
<1>9. Reporter(t, 1)'
  <2>1. \A u \in Threads : \A j \in DOMAIN frames'[u] : u # t \/ j # 1 => Bystander(frames'[u][j])
    BY <1>2, <1>c DEF Changed, Reporter
  <2>2. \A k \in DOMAIN out' : out'[k][2] > 0 => out'[k][1] = t
    BY <1>2, <1>3, <1>4, AppendWritten DEF CrashInv, Reporter
  <2> QED BY <1>6, <1>8, <2>1, <2>2 DEF Reporter, Reports
<1>10. InOrder'
  <2> SUFFICES ASSUME NEW k \in DOMAIN out', out'[k][2] > 0
               PROVE  Written(k - 1)' = 1..(out'[k][2] - 1)
    BY DEF InOrder
  <2>1. CASE k \in DOMAIN out
    <3>1. k - 1 \in 0..Len(out) /\ out'[k] = out[k]
      <4>1. k - 1 \in 0..Len(out)
        BY <2>1 DEF CrashInv, CrashType
      <4> QED BY <1>3, <1>4, <2>1, <4>1, AppendWritten DEF CrashInv
    <3> QED BY <1>3, <1>4, <2>1, <3>1, AppendWritten DEF CrashInv, InOrder
  <2>2. CASE k = Len(out) + 1
    <3>1. Written(k - 1)' = Written(Len(out))
      <4>1. k - 1 = Len(out) /\ Len(out) \in 0..Len(out)
        BY <2>2 DEF CrashInv, CrashType
      <4> QED BY <1>3, <1>4, <4>1, AppendWritten DEF CrashInv
    <3> QED BY <1>3, <1>4, <1>7, <2>2, <3>1, AppendWritten DEF CrashInv
  <2> QED BY <1>3, <1>4, <2>1, <2>2, AppendWritten DEF CrashInv
<1>11. Undisturbed'
  BY <1>1, <1>4, <1>6, <1>c, QuietStep DEF CrashInv, Changed
<1>12. StuckStays'
  <2>1. ~Stuck(frames[t][1])
    BY <1>1 DEF Stuck, WritePiece, Top, CrashInv, CrashType
  <2> QED BY <1>2, <1>4, <1>c, <2>1, StuckKept DEF CrashInv
<1> QED BY <1>4, <1>2, <1>5, <1>6, <1>9, <1>10, <1>11, <1>12 DEF CrashInv, OneReporter

LEMMA FinishKeeps ==
  ASSUME CrashInv, NEW t \in Threads, Finish(t)
  PROVE  CrashInv'
<1>1. frames[t] # <<>> /\ frames[t][1].at = "report" /\ frames[t][1].n = Pieces
  BY DEF Finish, In, Top, CrashInv, CrashType
<1>2. reporting /\ Reporter(t, 1) /\ 1 \in DOMAIN frames[t] /\ frames[t][1] \in Frames
  BY <1>1, AtTheTop
<1>3. To(t, "raise") /\ reset' = reset \cup {frames[t][1].sig} /\ UNCHANGED <<reporting, out, ended, why>>
  BY DEF Finish, Top, CrashInv, CrashType
<1>c. Changed(t, [frames[t][1] EXCEPT !.at = "raise"])
  BY <1>1, <1>3, ToChanges DEF CrashInv, Labels
<1>4. CrashType'
  BY <1>2, <1>3, <1>c DEF CrashInv, CrashType, Frames, Changed
<1>5. /\ frames'[t][1].at = "raise" /\ frames'[t][1].n = Pieces /\ 1 \in DOMAIN frames'[t]
      /\ frames'[t][1].sig = frames[t][1].sig
  BY <1>1, <1>2, <1>c DEF Changed, Frames
<1>6. \A u \in Threads : \A j \in DOMAIN frames'[u] : u # t \/ j # 1 => Bystander(frames'[u][j])
  BY <1>2, <1>c DEF Changed, Reporter
<1>7. Reporter(t, 1)'
  BY <1>1, <1>2, <1>3, <1>5, <1>6 DEF Reporter, Reports, Written
<1>8. InOrder'
  BY <1>3 DEF CrashInv, InOrder, Written
<1>9. Undisturbed'
  <2> SUFFICES ASSUME why' = {}
               PROVE  /\ \A u \in Threads : Len(frames'[u]) <= 1
                      /\ \A u \in Threads : \A i \in DOMAIN frames'[u] :
                           frames'[u][i].at = "raise" => frames'[u][i].n = Pieces /\ frames'[u][i].sig \in reset'
                      /\ \A s \in reset' : \E u \in Threads :
                           frames'[u] # <<>> /\ frames'[u][1].at = "raise" /\ frames'[u][1].sig = s
                      /\ ended' # None => ended' \in reset'
    BY DEF Undisturbed
  <2>1. \A u \in Threads : Len(frames'[u]) <= 1
    BY <1>3, <1>c DEF CrashInv, Undisturbed, Changed
  <2>2. \A u \in Threads : \A i \in DOMAIN frames'[u] :
          frames'[u][i].at = "raise" => frames'[u][i].n = Pieces /\ frames'[u][i].sig \in reset'
    <3> SUFFICES ASSUME NEW u \in Threads, NEW i \in DOMAIN frames'[u], frames'[u][i].at = "raise"
                 PROVE  frames'[u][i].n = Pieces /\ frames'[u][i].sig \in reset'
      OBVIOUS
    <3>1. CASE u = t /\ i = 1
      BY <1>3, <1>5, <3>1
    <3>2. CASE u # t \/ i # 1
      <4>1. i \in DOMAIN frames[u] /\ frames'[u][i] = frames[u][i]
        BY <1>c, <3>2 DEF Changed
      <4> QED BY <1>3, <4>1 DEF CrashInv, Undisturbed
    <3> QED BY <3>1, <3>2
  <2>3. \A s \in reset' : \E u \in Threads :
          frames'[u] # <<>> /\ frames'[u][1].at = "raise" /\ frames'[u][1].sig = s
    <3> SUFFICES ASSUME NEW s \in reset'
                 PROVE  \E u \in Threads : frames'[u] # <<>> /\ frames'[u][1].at = "raise" /\ frames'[u][1].sig = s
      OBVIOUS
    <3>1. CASE s = frames[t][1].sig
      BY <1>4, <1>5, <3>1 DEF CrashType
    <3>2. CASE s \in reset
      <4>1. PICK u \in Threads : frames[u] # <<>> /\ frames[u][1].at = "raise" /\ frames[u][1].sig = s
        BY <1>3, <3>2 DEF CrashInv, Undisturbed
      <4>2. u # t /\ 1 \in DOMAIN frames[u]
        BY <1>1, <4>1 DEF CrashInv, CrashType
      <4>3. frames'[u][1] = frames[u][1] /\ 1 \in DOMAIN frames'[u]
        BY <1>c, <4>2 DEF Changed
      <4> QED BY <1>4, <4>1, <4>3 DEF CrashType
    <3> QED BY <1>3, <3>1, <3>2
  <2>4. ended' # None => ended' \in reset'
    BY <1>3 DEF CrashInv, Undisturbed
  <2> QED BY <2>1, <2>2, <2>3, <2>4
<1>10. StuckStays'
  <2>1. ~Stuck(frames[t][1])
    BY <1>1, <1>2, CrashAssumption DEF Stuck, Frames
  <2> QED BY <1>2, <1>3, <1>c, <2>1, StuckKept DEF CrashInv
<1> QED BY <1>2, <1>3, <1>4, <1>5, <1>7, <1>8, <1>9, <1>10 DEF CrashInv, OneReporter

\* A loser is a bystander.
LEMMA LoserAtTheTop ==
  ASSUME CrashInv, NEW t \in Threads, frames[t] # <<>>, frames[t][1].at \in {"second", "parked"}
  PROVE  reporting /\ Bystander(frames[t][1]) /\ frames[t][1] \in Frames
<1>1. 1 \in DOMAIN frames[t] /\ frames[t][1] \in Frames
  BY DEF CrashInv, CrashType
<1>2. reporting
  BY <1>1 DEF CrashInv, CrashType, OneReporter
<1>3. PICK r \in Threads : \E i \in DOMAIN frames[r] : Reporter(r, i)
  BY <1>2 DEF CrashInv, OneReporter
<1>4. PICK i \in DOMAIN frames[r] : Reporter(r, i)
  BY <1>3
<1> QED BY <1>1, <1>2, <1>4 DEF Reporter, Reports

LEMMA SecondKeeps ==
  ASSUME CrashInv, NEW t \in Threads, Second(t)
  PROVE  CrashInv'
<1>1. frames[t] # <<>> /\ frames[t][1].at = "second"
  BY DEF Second, In, Top, CrashInv, CrashType
<1>2. reporting /\ Bystander(frames[t][1]) /\ frames[t][1] \in Frames
  BY <1>1, LoserAtTheTop
<1>3. To(t, "parked") /\ out' = Append(out, <<t, 0>>) /\ UNCHANGED <<reporting, reset, ended, why>>
  BY DEF Second
<1>4. Changed(t, [frames[t][1] EXCEPT !.at = "parked"])
  BY <1>1, <1>3, ToChanges DEF CrashInv, Labels
<1>5. OneReporter' /\ InOrder' /\ out' \in Seq(Threads \X (0..Pieces))
  BY <1>1, <1>2, <1>3, BystanderKeeps DEF CrashInv, Labels
<1>6. Undisturbed'
  <2>1. [frames[t][1] EXCEPT !.at = "parked"].at # "raise"
    BY <1>2 DEF Frames
  <2> QED BY <1>1, <1>3, <1>4, <2>1, QuietStep DEF CrashInv
<1>7. StuckStays'
  BY <1>1, <1>3, <1>4, StuckKept DEF CrashInv, CrashType, Stuck
<1> QED BY <1>3, <1>4, <1>5, <1>6, <1>7 DEF CrashInv, CrashType, Changed

LEMMA GiveUpKeeps ==
  ASSUME CrashInv, NEW t \in Threads, GiveUp(t)
  PROVE  CrashInv'
<1>1. frames[t] # <<>> /\ frames[t][1].at = "parked"
  BY DEF GiveUp, In, Top, CrashInv, CrashType
<1>2. reporting /\ Bystander(frames[t][1]) /\ frames[t][1] \in Frames
  BY <1>1, LoserAtTheTop
<1>3. /\ To(t, "raise") /\ reset' = reset \cup {frames[t][1].sig} /\ why' = why \cup {"late"}
      /\ UNCHANGED <<reporting, out, ended>>
  BY DEF GiveUp, Top, CrashInv, CrashType
<1>4. Changed(t, [frames[t][1] EXCEPT !.at = "raise"])
  BY <1>1, <1>3, ToChanges DEF CrashInv, Labels
<1>5. OneReporter' /\ InOrder'
  BY <1>1, <1>2, <1>3, BystanderKeeps DEF CrashInv, Labels
<1>6. StuckStays'
  <2>1. why' \cap {"read"} = why \cap {"read"}
    BY <1>3
  <2> QED BY <1>1, <1>4, <2>1, StuckKept DEF CrashInv, CrashType, Stuck
<1> QED BY <1>2, <1>3, <1>4, <1>5, <1>6 DEF CrashInv, CrashType, Changed, Frames, Undisturbed

LEMMA DieKeeps ==
  ASSUME CrashInv, NEW t \in Threads, Die(t)
  PROVE  CrashInv'
<1>1. frames[t] # <<>> /\ frames[t][1].at = "raise" /\ frames[t][1] \in Frames /\ 1 \in DOMAIN frames[t]
  BY DEF Die, In, Top, CrashInv, CrashType
<1>2. ended' = frames[t][1].sig /\ UNCHANGED <<frames, reporting, reset, out, why>>
  BY DEF Die, Top, CrashInv, CrashType
<1>3. CrashType' /\ OneReporter' /\ InOrder'
  BY <1>1, <1>2, SameReport DEF CrashInv, CrashType, Frames
<1>4. Undisturbed'
  BY <1>1, <1>2 DEF CrashInv, Undisturbed
<1> QED BY <1>2, <1>3, <1>4 DEF CrashInv, StuckStays

-----------------------------------------------------------------------------
(* Faults.  A handler's frame is put on top of the others, or the process     *)
(* ends because the signal is blocked.                                       *)

LEMMA PushKeeps ==
  ASSUME CrashType, OneReporter, InOrder, NEW t \in Threads, NEW s \in Sigs, NEW bad \in SUBSET Reading,
         frames' = [frames EXCEPT ![t] = <<Frame(s, bad)>> \o @],
         UNCHANGED <<reporting, reset, out, ended>>, why' \subseteq {"late", "read"}
  PROVE  CrashType' /\ OneReporter' /\ InOrder'
<1>1. CrashType'
  BY PushChanges DEF CrashType
<1>2. InOrder'
  BY DEF InOrder, Written
<1>3. Bystander(frames'[t][1]) /\ frames'[t][1].at = "entry" /\ frames'[t][1].n = 0
  BY PushChanges DEF Bystander
<1>4. CASE reporting
  <2>1. PICK r \in Threads : \E i \in DOMAIN frames[r] : Reporter(r, i)
    BY <1>4 DEF OneReporter
  <2>2. PICK i \in DOMAIN frames[r] : Reporter(r, i)
    BY <2>1
  <2>3. i \in Nat
    BY DEF CrashType
  <2> DEFINE k == IF r = t THEN i + 1 ELSE i
  <2>4. k \in DOMAIN frames'[r] /\ frames'[r][k] = frames[r][i]
    <3>1. CASE r = t
      <4>1. i + 1 \in DOMAIN frames'[t] /\ frames'[t][i + 1] = frames[t][i]
        BY <3>1, PushChanges
      <4> QED BY <3>1, <4>1
    <3>2. CASE r # t
      BY <3>2, PushChanges
    <3> QED BY <3>1, <3>2
  <2>5. \A u \in Threads : \A j \in DOMAIN frames'[u] : u # r \/ j # k => Bystander(frames'[u][j])
    <3> SUFFICES ASSUME NEW u \in Threads, NEW j \in DOMAIN frames'[u], u # r \/ j # k
                 PROVE  Bystander(frames'[u][j])
      OBVIOUS
    <3>1. j \in Nat
      BY <1>1 DEF CrashType
    <3>2. CASE u = t /\ j = 1
      BY <1>3, <3>2
    <3>3. CASE u = t /\ j # 1
      <4>1. j - 1 \in DOMAIN frames[u] /\ frames'[u][j] = frames[u][j - 1]
        BY <3>3, PushChanges
      <4>2. u # r \/ j - 1 # i
        BY <2>3, <3>1, <3>3
      <4> QED BY <2>2, <4>1, <4>2 DEF Reporter
    <3>4. CASE u # t
      BY <2>2, <3>4, PushChanges DEF Reporter
    <3> QED BY <3>2, <3>3, <3>4
  <2>6. Reporter(r, k)'
    BY <2>2, <2>4, <2>5 DEF Reporter, Written
  <2> QED BY <1>1, <1>2, <1>4, <2>4, <2>6 DEF OneReporter
<1>5. CASE ~reporting
  <2>1. \A u \in Threads : \A j \in DOMAIN frames'[u] : frames'[u][j].at = "entry" /\ frames'[u][j].n = 0
    <3> SUFFICES ASSUME NEW u \in Threads, NEW j \in DOMAIN frames'[u]
                 PROVE  frames'[u][j].at = "entry" /\ frames'[u][j].n = 0
      OBVIOUS
    <3>1. CASE u = t /\ j = 1
      BY <1>3, <3>1
    <3>2. CASE u = t /\ j # 1
      <4>1. j - 1 \in DOMAIN frames[u] /\ frames'[u][j] = frames[u][j - 1]
        BY <3>2, PushChanges
      <4> QED BY <1>5, <4>1 DEF OneReporter
    <3>3. CASE u # t
      BY <1>5, <3>3, PushChanges DEF OneReporter
    <3> QED BY <3>1, <3>2, <3>3
  <2>2. ~reporting' /\ Written(Len(out))' = {}
    BY <1>5 DEF OneReporter, Written
  <2> QED BY <1>1, <1>2, <2>1, <2>2 DEF OneReporter
<1> QED BY <1>4, <1>5

\* A frame on top of it leaves a frame as stuck as it is.
LEMMA PushedStuck ==
  ASSUME CrashType, NEW t \in Threads, NEW s \in Sigs, NEW bad \in SUBSET Reading,
         frames' = [frames EXCEPT ![t] = <<Frame(s, bad)>> \o @],
         \E u \in Threads : \E i \in DOMAIN frames[u] : Stuck(frames[u][i])
  PROVE  StuckStays'
<1>1. PICK u \in Threads : \E i \in DOMAIN frames[u] : Stuck(frames[u][i])
  OBVIOUS
<1>2. PICK i \in DOMAIN frames[u] : Stuck(frames[u][i])
  BY <1>1
<1>3. \E j \in DOMAIN frames'[u] : frames'[u][j] = frames[u][i]
  <2>1. CASE u = t
    <3>1. i + 1 \in DOMAIN frames'[u] /\ frames'[u][i + 1] = frames[u][i]
      BY <2>1, PushChanges
    <3> QED BY <3>1
  <2>2. CASE u # t
    BY <2>2, PushChanges
  <2> QED BY <2>1, <2>2
<1> QED BY <1>2, <1>3 DEF StuckStays, Stuck

LEMMA ReadFaultsKeeps ==
  ASSUME CrashInv, NEW t \in Threads, NEW s \in ReadSigs, ReadFaults(t, s)
  PROVE  CrashInv'
<1>1. s \in Sigs /\ {} \in SUBSET Reading
  BY CrashAssumption
<1>2. UNCHANGED <<reporting, reset, out>> /\ why' = why \cup {"read"} /\ Raised(t, s, {})
  BY DEF ReadFaults
<1>s. \E u \in Threads : \E i \in DOMAIN frames[u] : Stuck(frames[u][i])
  <2>1. 1 \in DOMAIN frames[t] /\ Stuck(frames[t][1])
    BY DEF ReadFaults, In, Top, Stuck, CrashInv, CrashType
  <2> QED BY <2>1
<1>3. Undisturbed'
  BY <1>2 DEF Undisturbed
<1>4. CASE ended' = s /\ UNCHANGED frames
  BY <1>1, <1>2, <1>3, <1>s, <1>4, SameReport DEF CrashInv, CrashType, StuckStays
<1>5. CASE frames' = [frames EXCEPT ![t] = <<Frame(s, {})>> \o @] /\ UNCHANGED ended
  <2>1. CrashType
    BY DEF CrashInv
  <2>2. frames' = [frames EXCEPT ![t] = <<Frame(s, {})>> \o @]
    BY <1>5
  <2>3. StuckStays'
    BY <1>1, <1>s, <2>1, <2>2, PushedStuck
  <2>4. why' \subseteq {"late", "read"}
    BY <1>2, <2>1 DEF CrashType
  <2>5. CrashType' /\ OneReporter' /\ InOrder'
    BY <1>1, <1>2, <1>5, <2>2, <2>4, PushKeeps DEF CrashInv
  <2> QED BY <1>3, <2>3, <2>5 DEF CrashInv
<1> QED BY <1>2, <1>4, <1>5 DEF Raised

LEMMA FaultKeeps ==
  ASSUME CrashInv, NEW t \in Threads, NEW s \in Sigs, Fault(t, s)
  PROVE  CrashInv'
<1>1. PICK bad \in SUBSET Reading : Raised(t, s, bad)
  BY DEF Fault
<1>2. frames[t] = <<>> /\ ended = None /\ UNCHANGED <<reporting, reset, out, why>>
  BY DEF Fault
<1>3. CASE s \in reset \cup Blocked(t)
  <2>1. ended' = s /\ UNCHANGED frames
    BY <1>1, <1>3 DEF Raised
  <2>2. s \in reset
    BY <1>2, <1>3 DEF Blocked
  <2> QED BY <1>2, <2>1, <2>2, SameReport DEF CrashInv, CrashType, Undisturbed, StuckStays
<1>4. CASE s \notin reset \cup Blocked(t)
  <2>1. frames' = [frames EXCEPT ![t] = <<Frame(s, bad)>> \o @] /\ UNCHANGED ended
    BY <1>1, <1>4 DEF Raised
  <2>2. CrashType' /\ OneReporter' /\ InOrder'
    <3>1. why' \subseteq {"late", "read"}
      BY <1>2 DEF CrashInv, CrashType
    <3> QED BY <1>2, <2>1, <3>1, PushKeeps DEF CrashInv
  <2>3. Len(frames'[t]) = 1 /\ frames'[t][1].at = "entry" /\ \A u \in Threads \ {t} : frames'[u] = frames[u]
    <3>1. CrashType
      BY DEF CrashInv
    <3>2. frames' = [frames EXCEPT ![t] = <<Frame(s, bad)>> \o @]
      BY <2>1
    <3>3. /\ Len(frames'[t]) = Len(frames[t]) + 1 /\ frames'[t][1].at = "entry"
          /\ \A u \in Threads \ {t} : frames'[u] = frames[u]
      BY <3>1, <3>2, PushChanges
    <3>4. Len(frames[t]) = 0
      BY <1>2, EmptySeq
    <3> QED BY <3>3, <3>4
  <2>4. DOMAIN frames'[t] = {1}
    BY <2>2, <2>3 DEF CrashType
  <2>5. Undisturbed'
    BY <1>2, <2>1, <2>3, <2>4 DEF CrashInv, Undisturbed
  <2>6. StuckStays'
    BY <1>2, <2>1, PushedStuck DEF CrashInv, StuckStays
  <2> QED BY <2>2, <2>5, <2>6 DEF CrashInv
<1> QED BY <1>3, <1>4

-----------------------------------------------------------------------------
LEMMA CrashInvHolds == Spec => []CrashInv
<1>1. Init => CrashInv
  <2> SUFFICES ASSUME Init PROVE CrashInv
    OBVIOUS
  <2>1. out = <<>> /\ Len(out) = 0 /\ InOrder
    BY DEF Init, InOrder
  <2>4. CrashType
    <3>1. out \in Seq(Threads \X (0..Pieces))
      BY <2>1, EmptySeq
    <3>2. frames \in [Threads -> Seq(Frames)]
      BY EmptySeq DEF Init
    <3> QED BY <3>1, <3>2 DEF Init, CrashType
  <2>3. Undisturbed /\ StuckStays
    BY DEF Init, Undisturbed, StuckStays
  <2>2. Written(Len(out)) = {}
    BY <2>1 DEF Written
  <2> QED BY <2>1, <2>2, <2>3, <2>4 DEF Init, CrashInv, OneReporter
<1>2. CrashInv /\ [Next]_vars => CrashInv'
  <2> SUFFICES ASSUME CrashInv, [Next]_vars PROVE CrashInv'
    OBVIOUS
  <2>1. CASE UNCHANGED vars
    BY <2>1, SameReport DEF vars, CrashInv, CrashType, Undisturbed, StuckStays
  <2>2. CASE Next
    BY <2>2, EnterKeeps, WritePieceKeeps, FinishKeeps, SecondKeeps, GiveUpKeeps, DieKeeps,
       ReadFaultsKeeps, FaultKeeps DEF Next, Step
  <2> QED BY <2>1, <2>2
<1> QED BY <1>1, <1>2, PTL DEF Spec

\* Whoever faults, and whatever the reporter reads, one thread's pieces are on
\* standard error, each once and in order.
THEOREM OneReport == Spec => []NoBraiding
<1>1. CrashInv => NoBraiding
  <2> SUFFICES ASSUME CrashInv PROVE NoBraiding
    OBVIOUS
  <2>1. CASE reporting
    <3>1. PICK r \in Threads : \E i \in DOMAIN frames[r] : Reporter(r, i)
      BY <2>1 DEF CrashInv, OneReporter
    <3> QED BY <3>1 DEF CrashInv, Reporter, InOrder, NoBraiding
  <2>2. CASE ~reporting
    <3>1. \A k \in DOMAIN out : ~(out[k][2] > 0)
      <4> SUFFICES ASSUME NEW k \in DOMAIN out, out[k][2] > 0 PROVE FALSE
        OBVIOUS
      <4>1. out[k][2] \in Written(Len(out))
        BY DEF Written, CrashInv, CrashType
      <4> QED BY <2>2, <4>1 DEF CrashInv, OneReporter
    <3> QED BY <3>1, CrashAssumption DEF NoBraiding
  <2> QED BY <2>1, <2>2
<1> QED BY <1>1, CrashInvHolds, PTL

\* A process that dies of faults leaves all pieces and dies of the signal that they are
\* about, or the report goes up to the word that the reporter could not read, unless a
\* loser's two seconds were over.
THEOREM WholeReport == Spec => []ReportWhole
<1>1. CrashInv => ReportWhole
  <2> SUFFICES ASSUME CrashInv, ended # None, "late" \notin why
               PROVE  \/ CutAtRead
                      \/ /\ Written(Len(out)) = 1..Pieces
                         /\ \E t \in Threads : frames[t] # <<>> /\ Top(t).sig = ended /\ Top(t).n = Pieces
    BY DEF ReportWhole
  <2>1. CASE why = {}
    <3>1. PICK t \in Threads : frames[t] # <<>> /\ frames[t][1].at = "raise" /\ frames[t][1].sig = ended
      BY <2>1 DEF CrashInv, Undisturbed
    <3>2. 1 \in DOMAIN frames[t] /\ frames[t][1].n = Pieces /\ Top(t) = frames[t][1]
      BY <2>1, <3>1 DEF CrashInv, CrashType, Undisturbed, Top
    <3>3. reporting
      BY <3>1, <3>2 DEF CrashInv, OneReporter
    <3>4. PICK r \in Threads : \E i \in DOMAIN frames[r] : Reporter(r, i)
      BY <3>3 DEF CrashInv, OneReporter
    <3>5. PICK i \in DOMAIN frames[r] : Reporter(r, i)
      BY <3>4
    <3>6. r = t /\ i = 1
      BY <3>2, <3>5, CrashAssumption DEF Reporter, Bystander
    <3> QED BY <3>1, <3>2, <3>5, <3>6 DEF Reporter
  <2>2. CASE "read" \in why
    <3>1. PICK t \in Threads : \E i \in DOMAIN frames[t] : Stuck(frames[t][i])
      BY <2>2 DEF CrashInv, StuckStays
    <3>2. PICK i \in DOMAIN frames[t] : Stuck(frames[t][i])
      BY <3>1
    <3>3. reporting
      BY <3>2 DEF CrashInv, OneReporter, Stuck
    <3>4. PICK r \in Threads : \E j \in DOMAIN frames[r] : Reporter(r, j)
      BY <3>3 DEF CrashInv, OneReporter
    <3>5. PICK j \in DOMAIN frames[r] : Reporter(r, j)
      BY <3>4
    <3>6. r = t /\ j = i
      BY <3>2, <3>5 DEF Reporter, Bystander, Stuck
    <3> QED BY <3>2, <3>5, <3>6 DEF Reporter, Stuck, CutAtRead
  <2> QED BY <2>1, <2>2 DEF CrashInv, CrashType
<1> QED BY <1>1, CrashInvHolds, PTL
=============================================================================
