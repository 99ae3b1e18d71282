----------------------------- MODULE BionicMutex -----------------------------
(***************************************************************************)
(* What the game expects of its mutexes, as bionic implements them inline:   *)
(* a kind fixed by the initialiser, one owner at a time, and a depth that     *)
(* only a recursive mutex takes beyond one.                                   *)
(***************************************************************************)
EXTENDS Naturals

CONSTANTS Threads, Mutexes, None

Kinds == {"normal", "recursive", "errorcheck"}

VARIABLES kind, owner, depth

mvars == <<kind, owner, depth>>

Init ==
  /\ kind \in [Mutexes -> Kinds \cup {None}]     \* None: not initialised
  /\ owner = [m \in Mutexes |-> None]
  /\ depth = [m \in Mutexes |-> 0]

Set(m, t, d) ==
  /\ owner' = [owner EXCEPT ![m] = t]
  /\ depth' = [depth EXCEPT ![m] = d]
  /\ UNCHANGED kind

Lock(t, m) ==
  /\ kind[m] # None
  /\ \/ owner[m] = None
     \/ owner[m] = t /\ kind[m] = "recursive"
  /\ Set(m, t, depth[m] + 1)

Unlock(t, m) ==
  /\ owner[m] = t
  /\ IF depth[m] = 1 THEN Set(m, None, 0) ELSE Set(m, t, depth[m] - 1)

\* pthread_mutex_init and pthread_mutex_destroy
Reset(m) ==
  /\ owner[m] = None
  /\ \E k \in Kinds \cup {None} : kind' = [kind EXCEPT ![m] = k]
  /\ (kind[m] = None) # (kind'[m] = None)
  /\ UNCHANGED <<owner, depth>>

Next == \E m \in Mutexes : Reset(m) \/ \E t \in Threads : Lock(t, m) \/ Unlock(t, m)

Spec == Init /\ [][Next]_mvars
=============================================================================
