----------------------------- MODULE CrashReport -----------------------------
(***************************************************************************)
(* src/crash.cpp: what the process writes to its standard error, and how it *)
(* ends, when its threads fault.                                            *)
(*                                                                         *)
(* A report is a number of pieces, one write(2) each.  Some of them are read *)
(* through a register: the four words a register points at, and the stack   *)
(* above sp.  A handler runs with its own signal blocked and with no other: *)
(* a frame is pushed for each handler that a thread is in.  What a frame is *)
(* given is which of those pieces stand in memory that cannot be read.      *)
(***************************************************************************)
EXTENDS Naturals, Sequences

CONSTANTS
  Threads,
  Sigs,       \* the signals on_fault is installed for
  ReadSigs,   \* those among them that a read through a bad pointer raises
  Pieces,     \* how many pieces a report has
  Reading,    \* those among them that are read through a register
  None

ASSUME CrashAssumption ==
  /\ Threads # {} /\ Pieces \in Nat \ {0}
  /\ ReadSigs \subseteq Sigs /\ None \notin Sigs
  /\ Reading \subseteq 1..Pieces

VARIABLES
  frames,     \* for each thread, the handlers it is in, the innermost first
  reporting,  \* g_reporting
  reset,      \* the signals whose action is SIG_DFL again
  out,        \* what was written: pieces <<thread, number>> and the line of a loser
  ended,      \* the signal that ended the process, None while it runs
  why         \* history: what may have cut the report short

vars == <<frames, reporting, reset, out, ended, why>>

Init ==
  /\ frames = [t \in Threads |-> <<>>]
  /\ reporting = FALSE
  /\ reset = {}
  /\ out = <<>>
  /\ ended = None
  /\ why = {}

Frame(s, bad) == [sig |-> s, at |-> "entry", n |-> 0, bad |-> bad]
Top(t) == Head(frames[t])
In(t, label) == ended = None /\ frames[t] # <<>> /\ Top(t).at = label
To(t, label) == frames' = [frames EXCEPT ![t][1].at = label]
Blocked(t) == {frames[t][i].sig : i \in DOMAIN frames[t]}

\* The thread meets a fault.  The kernel ends a process that faults with the
\* signal blocked.
Raised(t, s, bad) ==
  IF s \in reset \cup Blocked(t)
  THEN ended' = s /\ UNCHANGED frames
  ELSE frames' = [frames EXCEPT ![t] = <<Frame(s, bad)>> \o @] /\ UNCHANGED ended

Fault(t, s) ==
  /\ ended = None /\ frames[t] = <<>>
  /\ \E bad \in SUBSET Reading : Raised(t, s, bad)
  /\ UNCHANGED <<reporting, reset, out, why>>

-----------------------------------------------------------------------------
(* on_fault *)

\* A variant that tests the flag and sets it with the first piece.
EnterLoose(t) ==
  /\ In(t, "entry")
  /\ To(t, IF out # <<>> THEN "second" ELSE "report")
  /\ reporting' = TRUE
  /\ UNCHANGED <<reset, out, ended, why>>

\* __sync_lock_test_and_set
Enter(t) ==
  /\ In(t, "entry")
  /\ To(t, IF reporting THEN "second" ELSE "report")
  /\ reporting' = TRUE
  /\ UNCHANGED <<reset, out, ended, why>>

\* put_words asks readable first, and that is a write to /dev/null: the kernel takes
\* any buffer in user space for it and looks at none.
WritePiece(t) ==
  /\ In(t, "report")
  /\ Top(t).n < Pieces
  /\ Top(t).n + 1 \notin Top(t).bad
  /\ out' = Append(out, <<t, Top(t).n + 1>>)
  /\ frames' = [frames EXCEPT ![t][1].n = @ + 1]
  /\ UNCHANGED <<reporting, reset, ended, why>>

\* put_words reads four words through a register that points nowhere, or put_stack,
\* which asks nobody, reads on past the end of the stack: it stops after 4 KiB or 24
\* return addresses.
ReadFaults(t, s) ==
  /\ In(t, "report")
  /\ Top(t).n + 1 \in Top(t).bad
  /\ Raised(t, s, {})
  /\ why' = why \cup {"read"}
  /\ UNCHANGED <<reporting, reset, out>>

Finish(t) ==
  /\ In(t, "report")
  /\ Top(t).n = Pieces
  /\ reset' = reset \cup {Top(t).sig}
  /\ To(t, "raise")
  /\ UNCHANGED <<reporting, out, ended, why>>

\* A variant, once in the code, whose loser does not wait.
SecondDies(t) ==
  /\ In(t, "second")
  /\ out' = Append(out, <<t, 0>>)
  /\ reset' = reset \cup {Top(t).sig}
  /\ To(t, "raise")
  /\ UNCHANGED <<reporting, ended, why>>

\* One line, then two seconds for the winner.
Second(t) ==
  /\ In(t, "second")
  /\ out' = Append(out, <<t, 0>>)
  /\ To(t, "parked")
  /\ UNCHANGED <<reporting, reset, ended, why>>

\* A variant that waits for ever.
ParkedForGood(t) == FALSE /\ In(t, "parked") /\ UNCHANGED vars

\* The two seconds are over.
GiveUp(t) ==
  /\ In(t, "parked")
  /\ reset' = reset \cup {Top(t).sig}
  /\ why' = why \cup {"late"}
  /\ To(t, "raise")
  /\ UNCHANGED <<reporting, out, ended>>

\* raise: the signal is blocked until the handler returns, and then it ends the
\* process.
Die(t) ==
  /\ In(t, "raise")
  /\ ended' = Top(t).sig
  /\ UNCHANGED <<frames, reporting, reset, out, why>>

Step(t) ==
  Enter(t) \/ WritePiece(t) \/ Finish(t) \/ Second(t) \/ GiveUp(t) \/ Die(t)
    \/ \E s \in ReadSigs : ReadFaults(t, s)

Next == \E t \in Threads : Step(t) \/ \E s \in Sigs : Fault(t, s)

Spec == Init /\ [][Next]_vars

\* A thread in a handler goes on; nothing blocks its writes for ever.
FairSpec == Spec /\ \A t \in Threads : WF_vars(Step(t))

-----------------------------------------------------------------------------
(* Properties *)

\* The pieces among the first n things on standard error
Written(n) == {out[i][2] : i \in 1..n} \ {0}

\* "Only the first thread to fault gets to report": the pieces on standard error are
\* one thread's, in order, none missing and none twice, whoever else faults and
\* whatever the reporter reads.
NoBraiding ==
  \E t \in Threads : \A i \in DOMAIN out : out[i][2] > 0 =>
    out[i][1] = t /\ Written(i - 1) = 1..(out[i][2] - 1)

\* The reporter stopped where it had to read memory that cannot be read, and what
\* comes before that is on standard error.
CutAtRead ==
  \E t \in Threads : \E i \in DOMAIN frames[t] :
    /\ frames[t][i].at = "report"
    /\ frames[t][i].n + 1 \in frames[t][i].bad
    /\ Written(Len(out)) = 1..frames[t][i].n

\* A process that dies of faults leaves a whole report and dies of the reporter's
\* signal, however many threads fault while it is written.  There are two ways out of
\* that: a loser's two seconds are over, or the reporter itself faults on a word that
\* it reads through a register, and then the report goes up to that word.
ReportWhole ==
  ended # None =>
    \/ "late" \in why
    \/ CutAtRead
    \/ /\ Written(Len(out)) = 1..Pieces
       /\ \E t \in Threads : frames[t] # <<>> /\ Top(t).sig = ended /\ Top(t).n = Pieces

\* "must not turn a crash into a hang": once a thread has faulted the process ends,
\* also when the reporter faults in its own handler and waits there for itself.
CrashEnds == (\E t \in Threads : frames[t] # <<>>) ~> ended # None
=============================================================================
