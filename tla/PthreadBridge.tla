---------------------------- MODULE PthreadBridge ----------------------------
(***************************************************************************)
(* Mutexes and condition variables of the Android game on the host's        *)
(* pthreads: src/symtab_pthread.cpp and thunks/libc/pthread.cpp.            *)
(*                                                                         *)
(* bionic's objects are one word; the host's live on the heap and the word  *)
(* holds their address.  Static initialisers run no code, so the host       *)
(* object is created by whichever thread uses the word first.  Mutexes and  *)
(* pthread_cond_timedwait create it under g_mutex_bootstrap; wait, signal   *)
(* and broadcast come from the generated bridge, which takes no lock.       *)
(*                                                                         *)
(* Each access to a word is an action of its own.  The words are published  *)
(* with release and read with acquire (or hold an address whose object is   *)
(* all zeroes once initialised), so memory is taken as sequentially         *)
(* consistent.  The game is any program that uses pthreads legally.         *)
(***************************************************************************)
EXTENDS Naturals, FiniteSets

CONSTANTS
  Threads,
  Mutexes,
  Conds,
  Addrs,       \* heap addresses calloc may return, all above kBionicInitWordMax
  None,
  MutexOf,     \* the mutex the game uses with each condition variable
  MaxDepth     \* bound: how deep the game locks a recursive mutex

Kinds == {"normal", "recursive", "errorcheck"}  \* bits 14-15 of the word

ASSUME BridgeAssumption ==
  /\ None \notin Threads \cup Addrs \cup Conds \cup Mutexes \cup Kinds
  /\ Addrs \cap Kinds = {}
  /\ MutexOf \in [Conds -> Mutexes]
  /\ MaxDepth \in Nat \ {0}

VARIABLES
  word,       \* BIONIC_pthread_mutex_t: a static initialiser or an address
  cond,       \* the game's pthread_cond_t word: an address, None when zero
  heap,       \* what each address holds
  bootstrap,  \* the thread inside g_mutex_bootstrap
  pc, call,   \* where each thread is, and the call it makes; call.due is who
              \* was asleep on the condition variable when the call was made
  ptr,        \* the host object its call has in hand
  held,       \* how many times each thread has locked each mutex
  usable,     \* initialised and not destroyed, as the game sees it
  raced       \* history: condition variables that, since their word was last
              \* zero, two threads were creating at once

thread == <<pc, call, ptr>>
words == <<word, cond, heap>>
core == <<words, bootstrap, thread, held, usable>>
vars == <<core, raced>>

Cell(ty, k, t, d) == [type |-> ty, kind |-> k, owner |-> t, depth |-> d]
HostMutex(k, t, d) == Cell("mutex", k, t, d)
Free == Cell("free", "normal", None, 0)
Raw == Cell("raw", "normal", None, 0)        \* calloc'ed, not yet initialised
HostCond == Cell("cond", "normal", None, 0)

\* What calloc may return.  The object of a condition variable that nobody knows
\* any more is lost; its address counts as unused, or every loss would take one
\* of the few addresses away.
Known(a) == (\E c \in Conds : cond[c] = a) \/ (\E t \in Threads : ptr[t] = a)
Unused == {a \in Addrs : heap[a] = Free \/ (heap[a] = HostCond /\ ~Known(a))}
Lockable(a, t) == \/ heap[a].owner = None
                  \/ heap[a].owner = t /\ heap[a].kind = "recursive"

Idle == [op |-> "none", m |-> None, c |-> None, due |-> {}]

Goto(t, label) == pc' = [pc EXCEPT ![t] = label]
Point(t, a) == ptr' = [ptr EXCEPT ![t] = a]
Return(t) ==
  /\ pc' = [pc EXCEPT ![t] = "game"]
  /\ call' = [call EXCEPT ![t] = Idle]
  /\ ptr' = [ptr EXCEPT ![t] = None]

Init ==
  /\ usable \in [Mutexes -> BOOLEAN]
  /\ word \in [Mutexes -> Kinds \cup Addrs]      \* an uninitialised word is garbage
  /\ \A m \in Mutexes : usable[m] => word[m] \in Kinds
  /\ cond = [c \in Conds |-> None]
  /\ heap = [a \in Addrs |-> Free]
  /\ bootstrap = None
  /\ pc = [t \in Threads |-> "game"]
  /\ call = [t \in Threads |-> Idle]
  /\ ptr = [t \in Threads |-> None]
  /\ held = [t \in Threads |-> [m \in Mutexes |-> 0]]
  /\ raced = {}

-----------------------------------------------------------------------------
(* The game's calls *)

Blocked(c) == {t \in Threads : pc[t] = "blocked" /\ call[t].c = c}

Enter(t, op, m, c, label) ==
  /\ pc[t] = "game"
  /\ call' = [call EXCEPT ![t] = [op |-> op, m |-> m, c |-> c, due |-> Blocked(c)]]
  /\ Goto(t, label)
  /\ UNCHANGED <<words, bootstrap, ptr, held, usable>>

\* A normal mutex is not locked twice by one thread.
CallMutex(t, m) ==
  /\ usable[m]
  /\ \/ /\ held[t][m] < MaxDepth
        /\ held[t][m] > 0 => heap[word[m]].kind # "normal"
        /\ \E op \in {"lock", "trylock"} : Enter(t, op, m, None, "load")
     \/ held[t][m] > 0 /\ Enter(t, "unlock", m, None, "load")

CallWait(t, c) ==
  /\ held[t][MutexOf[c]] = 1
  /\ \/ Enter(t, "timedwait", MutexOf[c], c, "load")
     \/ Enter(t, "wait", MutexOf[c], c, "cload")

CallSignal(t, c) ==
  /\ \E op \in {"signal", "broadcast"} : Enter(t, op, MutexOf[c], c, "cload")

\* Initialising and destroying are the business of one thread alone.
InUse(m) == \E t \in Threads : held[t][m] > 0 \/ call[t].m = m

InitMutex(m) ==
  /\ ~usable[m]
  /\ \E a \in Unused, k \in Kinds :
       /\ heap' = [heap EXCEPT ![a] = HostMutex(k, None, 0)]
       /\ word' = [word EXCEPT ![m] = a]
  /\ usable' = [usable EXCEPT ![m] = TRUE]
  /\ UNCHANGED <<cond, bootstrap, thread, held>>

\* A variant that leaves no value behind.
DestroyToNothing(m) ==
  /\ usable[m] /\ ~InUse(m)
  /\ heap' = [a \in Addrs |-> IF a = word[m] THEN Free ELSE heap[a]]
  /\ word' = [word EXCEPT ![m] = None]
  /\ usable' = [usable EXCEPT ![m] = FALSE]
  /\ UNCHANGED <<cond, bootstrap, thread, held>>

DestroyMutex(m) ==
  /\ usable[m] /\ ~InUse(m)
  /\ heap' = [a \in Addrs |-> IF a = word[m] THEN Free ELSE heap[a]]
  /\ word' = [word EXCEPT ![m] = "normal"]    \* m->value = 0
  /\ usable' = [usable EXCEPT ![m] = FALSE]
  /\ UNCHANGED <<cond, bootstrap, thread, held>>

DestroyCond(c) ==
  /\ cond[c] # None
  /\ \A t \in Threads : call[t].c # c
  /\ heap' = [heap EXCEPT ![cond[c]] = Free]
  /\ cond' = [cond EXCEPT ![c] = None]
  /\ UNCHANGED <<word, bootstrap, thread, held, usable>>

-----------------------------------------------------------------------------
(* host_mutex: the host mutex behind a word, created on first use *)

\* The caller goes on with the host mutex in hand.
Resolved(t) ==
  /\ Point(t, word[call[t].m])
  /\ Goto(t, IF call[t].op = "timedwait" THEN "cload" ELSE "use")

Load(t) ==
  /\ pc[t] = "load"
  /\ IF word[call[t].m] \in Addrs
     THEN Resolved(t)
     ELSE Goto(t, "boot") /\ UNCHANGED ptr
  /\ UNCHANGED <<words, bootstrap, call, held, usable>>

Boot(t) ==
  /\ pc[t] = "boot"
  /\ bootstrap = None
  /\ bootstrap' = t
  /\ Goto(t, "recheck")
  /\ UNCHANGED <<words, call, ptr, held, usable>>

Allocate(t) ==
  \E a \in Unused :
    /\ heap' = [heap EXCEPT ![a] = Raw]
    /\ Point(t, a)

\* A variant that does not look at the word again under the lock.
RecheckNot(t) ==
  /\ pc[t] = "recheck"
  /\ Allocate(t)
  /\ Goto(t, "create")
  /\ UNCHANGED <<word, cond, bootstrap, call, held, usable>>

Recheck(t) ==
  /\ pc[t] = "recheck"
  /\ IF word[call[t].m] \in Addrs
     THEN Goto(t, "unboot") /\ UNCHANGED <<heap, ptr>>
     ELSE Goto(t, "create") /\ Allocate(t)
  /\ UNCHANGED <<word, cond, bootstrap, call, held, usable>>

\* A variant that ignores the kind, as the generated bridge does.
CreateNormal(t) ==
  /\ pc[t] = "create"
  /\ heap' = [heap EXCEPT ![ptr[t]] = HostMutex("normal", None, 0)]
  /\ Goto(t, "store")
  /\ UNCHANGED <<word, cond, bootstrap, call, ptr, held, usable>>

Create(t) ==
  /\ pc[t] = "create"
  /\ heap' = [heap EXCEPT ![ptr[t]] = HostMutex(word[call[t].m], None, 0)]
  /\ Goto(t, "store")
  /\ UNCHANGED <<word, cond, bootstrap, call, ptr, held, usable>>

Store(t) ==
  /\ pc[t] = "store"
  /\ word' = [word EXCEPT ![call[t].m] = ptr[t]]
  /\ Goto(t, "unboot")
  /\ UNCHANGED <<cond, heap, bootstrap, call, ptr, held, usable>>

\* A variant that returns without unlocking.
UnbootNot(t) ==
  /\ pc[t] = "unboot"
  /\ Goto(t, "reload")
  /\ UNCHANGED <<words, bootstrap, call, ptr, held, usable>>

Unboot(t) ==
  /\ pc[t] = "unboot"
  /\ bootstrap' = None
  /\ Goto(t, "reload")
  /\ UNCHANGED <<words, call, ptr, held, usable>>

Reload(t) ==
  /\ pc[t] = "reload"
  /\ Resolved(t)
  /\ UNCHANGED <<words, bootstrap, call, held, usable>>

-----------------------------------------------------------------------------
(* The host's mutex calls *)

Hold(t, m, n) == held' = [held EXCEPT ![t][m] = n]

Lock(t) ==
  /\ pc[t] = "use" /\ call[t].op \in {"lock", "trylock"}
  /\ Lockable(ptr[t], t)
  /\ heap' = [heap EXCEPT ![ptr[t]].owner = t, ![ptr[t]].depth = @ + 1]
  /\ Hold(t, call[t].m, held[t][call[t].m] + 1)
  /\ Return(t)
  /\ UNCHANGED <<word, cond, bootstrap, usable>>

\* EBUSY from trylock, EDEADLK from an error-checking mutex.
LockFails(t) ==
  /\ pc[t] = "use" /\ ~Lockable(ptr[t], t)
  /\ \/ call[t].op = "trylock"
     \/ call[t].op = "lock" /\ heap[ptr[t]].owner = t /\ heap[ptr[t]].kind = "errorcheck"
  /\ Return(t)
  /\ UNCHANGED <<words, bootstrap, held, usable>>

Unlock(t) ==
  /\ pc[t] = "use" /\ call[t].op = "unlock"
  /\ heap' = [heap EXCEPT ![ptr[t]].depth = @ - 1,
                          ![ptr[t]].owner = IF heap[ptr[t]].depth = 1 THEN None ELSE @]
  /\ Hold(t, call[t].m, held[t][call[t].m] - 1)
  /\ Return(t)
  /\ UNCHANGED <<word, cond, bootstrap, usable>>

-----------------------------------------------------------------------------
(* Condition variables *)

\* A variant that creates the object without looking.
CondLoadNot(t) ==
  /\ pc[t] = "cload"
  /\ Goto(t, IF call[t].op = "timedwait" THEN "cboot" ELSE "cnew")
  /\ UNCHANGED <<words, bootstrap, call, ptr, held, usable>>

CondLoad(t) ==
  /\ pc[t] = "cload"
  /\ Goto(t, IF cond[call[t].c] # None THEN "cuse"
             ELSE IF call[t].op = "timedwait" THEN "cboot" ELSE "cnew")
  /\ UNCHANGED <<words, bootstrap, call, ptr, held, usable>>

\* pthread_cond_init_impl, on the way into wait, signal and broadcast: the new
\* object goes into the word whatever the word holds by now.
CondNew(t) ==
  /\ pc[t] = "cnew"
  /\ \E a \in Unused : heap' = [heap EXCEPT ![a] = HostCond] /\ Point(t, a)
  /\ Goto(t, "cstore")
  /\ UNCHANGED <<word, cond, bootstrap, call, held, usable>>

CondStore(t) ==
  /\ pc[t] = "cstore"
  /\ cond' = [cond EXCEPT ![call[t].c] = ptr[t]]
  /\ Goto(t, "cuse")
  /\ UNCHANGED <<word, heap, bootstrap, call, ptr, held, usable>>

\* timedwait's own creation, under the bootstrap lock.
CondBoot(t) ==
  /\ pc[t] = "cboot"
  /\ bootstrap = None
  /\ bootstrap' = t
  /\ Goto(t, "crecheck")
  /\ UNCHANGED <<words, call, ptr, held, usable>>

CondRecheck(t) ==
  /\ pc[t] = "crecheck"
  /\ IF cond[call[t].c] # None
     THEN Goto(t, "cunboot") /\ UNCHANGED <<heap, ptr>>
     ELSE /\ Goto(t, "cpublish")
          /\ \E a \in Unused : heap' = [heap EXCEPT ![a] = HostCond] /\ Point(t, a)
  /\ UNCHANGED <<word, cond, bootstrap, call, held, usable>>

CondPublish(t) ==
  /\ pc[t] = "cpublish"
  /\ cond' = [cond EXCEPT ![call[t].c] = ptr[t]]
  /\ Goto(t, "cunboot")
  /\ UNCHANGED <<word, heap, bootstrap, call, ptr, held, usable>>

CondUnboot(t) ==
  /\ pc[t] = "cunboot"
  /\ bootstrap' = None
  /\ Goto(t, "cuse")
  /\ UNCHANGED <<words, call, ptr, held, usable>>

\* The host's wait: gives the mutex up and sleeps, in one step.
Wait(t) ==
  /\ pc[t] = "cuse" /\ call[t].op \in {"wait", "timedwait"}
  /\ LET a == word[call[t].m] IN
       heap' = [heap EXCEPT ![a].owner = None, ![a].depth = 0]
  /\ Hold(t, call[t].m, 0)
  /\ Point(t, cond[call[t].c])
  /\ Goto(t, "blocked")
  /\ UNCHANGED <<word, cond, bootstrap, call, usable>>

\* The host's signal reaches those asleep on the object the word names now.
Sleepers(a) == {u \in Threads : pc[u] = "blocked" /\ ptr[u] = a}

Signal(t) ==
  /\ pc[t] = "cuse" /\ call[t].op \in {"signal", "broadcast"}
  /\ LET asleep == Sleepers(cond[call[t].c]) IN
     \E woken \in SUBSET asleep :
       /\ call[t].op = "broadcast" => woken = asleep
       /\ call[t].op = "signal" => Cardinality(woken) = IF asleep = {} THEN 0 ELSE 1
       /\ pc' = [u \in Threads |-> IF u = t THEN "game"
                                   ELSE IF u \in woken THEN "wake" ELSE pc[u]]
  /\ call' = [call EXCEPT ![t] = Idle]
  /\ ptr' = [ptr EXCEPT ![t] = None]
  /\ UNCHANGED <<words, bootstrap, held, usable>>

Timeout(t) ==
  /\ pc[t] = "blocked" /\ call[t].op = "timedwait"
  /\ Goto(t, "wake")
  /\ UNCHANGED <<words, bootstrap, call, ptr, held, usable>>

\* Woken or timed out: back with the mutex locked.
Relock(t) ==
  /\ pc[t] = "wake"
  /\ LET a == word[call[t].m] IN
       /\ heap[a].owner = None
       /\ heap' = [heap EXCEPT ![a].owner = t, ![a].depth = 1]
  /\ Hold(t, call[t].m, 1)
  /\ Return(t)
  /\ UNCHANGED <<word, cond, bootstrap, usable>>

-----------------------------------------------------------------------------
Call(t) == \/ \E m \in Mutexes : CallMutex(t, m)
           \/ \E c \in Conds : CallWait(t, c) \/ CallSignal(t, c)
Manage == (\E m \in Mutexes : InitMutex(m) \/ DestroyMutex(m)) \/ (\E c \in Conds : DestroyCond(c))
Resolve(t) == Load(t) \/ Boot(t) \/ Recheck(t) \/ Create(t) \/ Store(t) \/ Unboot(t) \/ Reload(t)
CondResolve(t) == CondLoad(t) \/ CondNew(t) \/ CondStore(t) \/ CondBoot(t) \/ CondRecheck(t)
                    \/ CondPublish(t) \/ CondUnboot(t)
Host(t) == Lock(t) \/ LockFails(t) \/ Unlock(t) \/ Wait(t) \/ Signal(t) \/ Timeout(t) \/ Relock(t)

\* A thread that has read zero in the word of c and not yet stored its object.
Creating(t, c) ==
  /\ pc[t] \in {"cnew", "cstore", "cboot", "crecheck", "cpublish"}
  /\ call[t].c = c
Racing(c) == \E t, u \in Threads : t # u /\ Creating(t, c) /\ Creating(u, c)

\* Keeps the history; it constrains nothing.
Watch == raced' = {c \in Conds : \/ Racing(c)'
                                 \/ (c \in raced /\ (cond[c] = None \/ cond'[c] # None))}

Next ==
  /\ Manage \/ \E t \in Threads : Call(t) \/ Resolve(t) \/ CondResolve(t) \/ Host(t)
  /\ Watch

Spec == Init /\ [][Next]_vars

\* A thread inside the bridge keeps running, and one that waits for the bootstrap
\* lock gets it if it is released again and again.
Progress(t) == Resolve(t) \/ CondResolve(t) \/ Lock(t) \/ LockFails(t) \/ Unlock(t) \/ Signal(t)

FairSpec == Spec /\ \A t \in Threads : WF_core(Progress(t)) /\ SF_core(Boot(t) \/ CondBoot(t))

-----------------------------------------------------------------------------
(* Properties *)

Heap == [type : {"free", "raw", "cond", "mutex"}, kind : Kinds,
         owner : Threads \cup {None}, depth : 0..MaxDepth]
Labels == {"game", "load", "boot", "recheck", "create", "store", "unboot", "reload", "use",
           "cload", "cnew", "cstore", "cboot", "crecheck", "cpublish", "cunboot", "cuse",
           "blocked", "wake"}
Ops == {"none", "lock", "trylock", "unlock", "wait", "timedwait", "signal", "broadcast"}

BridgeTypes ==
  /\ word \in [Mutexes -> Kinds \cup Addrs]
  /\ cond \in [Conds -> Addrs \cup {None}]
  /\ heap \in [Addrs -> Heap]
  /\ bootstrap \in Threads \cup {None}
  /\ pc \in [Threads -> Labels]
  /\ call \in [Threads -> [op : Ops, m : Mutexes \cup {None}, c : Conds \cup {None},
                           due : SUBSET Threads]]
  /\ ptr \in [Threads -> Addrs \cup {None}]
  /\ held \in [Threads -> [Mutexes -> 0..MaxDepth]]
  /\ usable \in [Mutexes -> BOOLEAN]

TypeOK == BridgeTypes /\ raced \subseteq Conds

\* A mutex the game has locked is a live host mutex owned by that thread, at that
\* depth: no second host mutex for the word and no host mutex freed under it.
HeldIsOwned ==
  \A t \in Threads, m \in Mutexes : held[t][m] > 0 =>
    /\ word[m] \in Addrs
    /\ heap[word[m]].type = "mutex"
    /\ heap[word[m]].owner = t
    /\ heap[word[m]].depth = held[t][m]

\* Every host mutex is behind a word or in the hands of the thread creating it:
\* two threads that arrive at a fresh mutex together create one between them.
OneHostMutex ==
  \A a \in Addrs : heap[a].type \in {"raw", "mutex"} =>
    \/ \E m \in Mutexes : usable[m] /\ word[m] = a
    \/ bootstrap # None /\ ptr[bootstrap] = a

\* Asleep on an object that another thread, creating one at the same time, has
\* replaced in the word: the lost wakeup symtab_pthread.cpp speaks of.
Lost(c) == {u \in Blocked(c) : c \in raced /\ ptr[u] # cond[c]}

\* A signal given while somebody is asleep wakes one of the sleepers and a broadcast
\* all, with the mutex held or not, whichever call created the object.  Only those
\* are missed who lost their object to a first use by two threads at once.
SignalWakes ==
  [][\A t \in Threads : Signal(t) =>
       LET due == (call[t].due \cap Blocked(call[t].c)) \ Lost(call[t].c) IN
         /\ due # {} => \E u \in Blocked(call[t].c) : pc'[u] = "wake"
         /\ call[t].op = "broadcast" => \A u \in due : pc'[u] = "wake"]_vars

\* The calls that never sleep return: lazy creation makes none of them wait for
\* another thread's lock, only for the bootstrap lock, which nobody keeps.
ShortCallsReturn ==
  \A t \in Threads :
    call[t].op \in {"trylock", "unlock", "signal", "broadcast"} ~> pc[t] = "game"

-----------------------------------------------------------------------------
\* The game's mutexes, seen through their words.
Hosted(m) == usable[m] /\ word[m] \in Addrs
KindOf == [m \in Mutexes |-> IF ~usable[m] THEN None
                             ELSE IF word[m] \in Addrs THEN heap[word[m]].kind ELSE word[m]]
OwnerOf == [m \in Mutexes |-> IF Hosted(m) THEN heap[word[m]].owner ELSE None]
DepthOf == [m \in Mutexes |-> IF Hosted(m) THEN heap[word[m]].depth ELSE 0]

\* The lazily created host mutexes behave as the inline mutexes of bionic, their
\* kinds included.
Bionic == INSTANCE BionicMutex WITH kind <- KindOf, owner <- OwnerOf, depth <- DepthOf
ImplementsBionic == Bionic!Spec
=============================================================================
