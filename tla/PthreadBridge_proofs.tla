------------------------- MODULE PthreadBridge_proofs -------------------------
(***************************************************************************)
(* Proofs about PthreadBridge, for any number of threads, mutexes, condition *)
(* variables and addresses: its types, HeldIsOwned, OneHostMutex, SignalWakes  *)
(* and the refinement of BionicMutex.                                        *)
(***************************************************************************)
EXTENDS PthreadBridge, FiniteSetTheorems, TLAPS

OnMutex == {"load", "boot", "recheck", "create", "store", "unboot", "reload", "use"}
OnCond == {"cload", "cnew", "cstore", "cboot", "crecheck", "cpublish", "cunboot", "cuse"}
Asleep == {"blocked", "wake"}
InBootstrap == {"recheck", "create", "store", "unboot", "crecheck", "cpublish", "cunboot"}
Signalling == {"signal", "broadcast"}

\* The call a thread makes fits the place it has reached.
CallFits(t) ==
  /\ pc[t] = "game" => call[t] = Idle
  /\ pc[t] # "game" => call[t].m \in Mutexes
  /\ pc[t] \in OnMutex => call[t].op \in {"lock", "trylock", "unlock", "timedwait"}
  /\ pc[t] = "use" => call[t].op # "timedwait"
  /\ pc[t] \in OnCond => call[t].op \in {"wait", "timedwait"} \cup Signalling
  /\ pc[t] \in Asleep => call[t].op \in {"wait", "timedwait"}
  /\ pc[t] # "game" /\ call[t].op \notin {"lock", "trylock", "unlock"} =>
       call[t].c \in Conds /\ call[t].m = MutexOf[call[t].c]

\* What the call relies on is still so: the mutex is usable and held as often as
\* it was when the call was made.
Entitled(t) ==
  /\ pc[t] # "game" /\ call[t].op \notin Signalling => usable[call[t].m]
  /\ pc[t] # "game" /\ call[t].op \in {"lock", "trylock"} => held[t][call[t].m] < MaxDepth
  /\ pc[t] # "game" /\ call[t].op = "unlock" => held[t][call[t].m] > 0
  /\ pc[t] \in OnMutex \cup OnCond /\ call[t].op \in {"wait", "timedwait"} =>
       held[t][call[t].m] = 1

\* What the thread has learnt about the word of its mutex.
Knows(t) ==
  /\ pc[t] \in {"create", "store"} => word[call[t].m] \notin Addrs
  /\ pc[t] \in {"unboot", "reload", "use"} \cup Asleep => word[call[t].m] \in Addrs
  /\ pc[t] = "use" => ptr[t] = word[call[t].m]

\* A host mutex in the making is nobody else's.
Makes(t) ==
  /\ pc[t] \in {"create", "store"} => ptr[t] \in Addrs
  /\ pc[t] = "create" => heap[ptr[t]] = Raw
  /\ pc[t] = "store" => heap[ptr[t]] = HostMutex(word[call[t].m], None, 0)
  /\ pc[t] = "store" => \A m \in Mutexes : usable[m] => word[m] # ptr[t]

ThreadOK(t) == CallFits(t) /\ Entitled(t) /\ Knows(t) /\ Makes(t)

\* The bootstrap lock is held by the one thread inside its section.
BootstrapOK == \A t \in Threads : pc[t] \in InBootstrap <=> bootstrap = t

\* A usable word that names a host mutex names one of its own, whose owner and
\* depth are those the game counts.
HostOK(m) ==
  Hosted(m) =>
    /\ heap[word[m]].type = "mutex"
    /\ \A n \in Mutexes : usable[n] /\ word[n] = word[m] => n = m
    /\ heap[word[m]].owner = None => heap[word[m]].depth = 0
    /\ heap[word[m]].owner # None =>
         /\ heap[word[m]].depth > 0
         /\ held[heap[word[m]].owner][m] = heap[word[m]].depth

HeldUsable == \A t \in Threads, m \in Mutexes : held[t][m] > 0 => usable[m]

\* Every host mutex is behind a word or under construction.
Accounted ==
  \A a \in Addrs : heap[a].type \in {"raw", "mutex"} =>
    \/ \E m \in Mutexes : usable[m] /\ word[m] = a
    \/ \E t \in Threads : pc[t] \in {"create", "store"} /\ ptr[t] = a

\* Condition variables do not share objects, with each other or with mutexes, nor
\* do those being created.
Fresh(t) == pc[t] \in {"cstore", "cpublish"}
CondsOK ==
  /\ \A c \in Conds : cond[c] # None =>
       heap[cond[c]].type = "cond" /\ \A d \in Conds : cond[d] = cond[c] => d = c
  /\ \A t \in Threads : Fresh(t) =>
       /\ ptr[t] \in Addrs /\ heap[ptr[t]].type = "cond"
       /\ \A c \in Conds : cond[c] # ptr[t]
       /\ \A u \in Threads : Fresh(u) /\ ptr[u] = ptr[t] => u = t

BridgeInv ==
  /\ BridgeTypes
  /\ BootstrapOK
  /\ \A t \in Threads : ThreadOK(t)
  /\ \A m \in Mutexes : HostOK(m)
  /\ HeldUsable /\ HeldIsOwned
  /\ Accounted
  /\ CondsOK

\* A sleeper sleeps on an object of its own condition variable, which the word names
\* unless two threads raced to create it; one that creates alone finds the word zero
\* to the end.
Found(t) ==
  /\ pc[t] = "blocked" =>
       /\ ptr[t] \in Addrs /\ heap[ptr[t]].type = "cond"
       /\ call[t].c \notin raced => ptr[t] = cond[call[t].c]
       /\ \A d \in Conds : cond[d] = ptr[t] => d = call[t].c
       /\ \A u \in Threads : Fresh(u) => ptr[u] # ptr[t]
  /\ Creating(t, call[t].c) /\ call[t].c \notin raced => cond[call[t].c] = None
  /\ pc[t] \in {"cunboot", "cuse"} => cond[call[t].c] # None
SleepersFound == /\ \A t \in Threads : Found(t)
                 /\ \A c \in Conds : Racing(c) => c \in raced

-----------------------------------------------------------------------------
(* Steps inside one thread.                                                  *)

Same(u) == pc'[u] = pc[u] /\ call'[u] = call[u] /\ ptr'[u] = ptr[u]

\* A thread that does not step keeps what it relies on when no other thread touches
\* the word of its mutex or the object it makes.
LEMMA OthersKeep ==
  ASSUME NEW u \in Threads, ThreadOK(u), Same(u), held'[u] = held[u],
         pc[u] # "game" /\ call[u].op \notin Signalling =>
           word'[call[u].m] = word[call[u].m] /\ usable'[call[u].m] = usable[call[u].m],
         pc[u] \in {"create", "store"} => heap'[ptr[u]] = heap[ptr[u]],
         pc[u] = "store" => \A m \in Mutexes : usable'[m] => word'[m] # ptr[u]
  PROVE  ThreadOK(u)'
<1>1. CallFits(u)'
  BY DEF ThreadOK, CallFits, Same
<1>2. Entitled(u)'
  BY DEF ThreadOK, CallFits, Entitled, Same
<1>3. Knows(u)'
  BY DEF ThreadOK, CallFits, Knows, Same, OnMutex, Asleep, Signalling
<1>4. Makes(u)'
  BY DEF ThreadOK, CallFits, Makes, Same, OnMutex, Signalling
<1> QED BY <1>1, <1>2, <1>3, <1>4 DEF ThreadOK

\* What the game's words and host mutexes look like does not depend on where the
\* threads are.
LEMMA SameHosts ==
  ASSUME UNCHANGED <<words, held, usable>>,
         \A m \in Mutexes : HostOK(m), HeldUsable, HeldIsOwned
  PROVE  (\A m \in Mutexes : HostOK(m)') /\ HeldUsable' /\ HeldIsOwned'
<1>1. ASSUME NEW m \in Mutexes PROVE HostOK(m)'
  BY <1>1 DEF HostOK, Hosted, words
<1> QED BY <1>1 DEF HeldUsable, HeldIsOwned, words

\* A thread that moves without touching shared state, into a place it is entitled
\* to be in.
LEMMA LocalStep ==
  ASSUME BridgeInv, NEW t \in Threads, UNCHANGED <<words, held, usable>>,
         \A u \in Threads : u # t => Same(u),
         pc[t] \notin {"create", "store"}, ~Fresh(t)',
         BridgeTypes', BootstrapOK', ThreadOK(t)'
  PROVE  BridgeInv'
<1>1. ASSUME NEW u \in Threads PROVE ThreadOK(u)'
  <2>1. CASE u = t BY <2>1
  <2>2. CASE u # t BY <2>2, OthersKeep DEF BridgeInv, ThreadOK, Makes, words
  <2> QED BY <2>1, <2>2
<1>2. (\A m \in Mutexes : HostOK(m)') /\ HeldUsable' /\ HeldIsOwned'
  BY SameHosts DEF BridgeInv
<1>3. Accounted'
  BY DEF BridgeInv, Accounted, Same, words
<1>4. CondsOK'
  BY DEF BridgeInv, CondsOK, Fresh, Same, words
<1> QED BY <1>1, <1>2, <1>3, <1>4 DEF BridgeInv

LEMMA EnterType ==
  ASSUME BridgeTypes, NEW t \in Threads, NEW op \in Ops, NEW m \in Mutexes,
         NEW c \in Conds \cup {None}, NEW label \in Labels, Enter(t, op, m, c, label)
  PROVE  BridgeTypes'
<1>1. [op |-> op, m |-> m, c |-> c, due |-> Blocked(c)]
        \in [op : Ops, m : Mutexes \cup {None}, c : Conds \cup {None}, due : SUBSET Threads]
  BY DEF Blocked
<1> QED BY <1>1 DEF Enter, Goto, BridgeTypes, words

LEMMA CallMutexInv ==
  ASSUME BridgeInv, NEW t \in Threads, NEW m \in Mutexes, CallMutex(t, m)
  PROVE  BridgeInv'
<1>0. BridgeTypes /\ BootstrapOK /\ ThreadOK(t) /\ HeldUsable /\ HeldIsOwned
  BY DEF BridgeInv
<1>1. /\ UNCHANGED <<words, held, usable>>
      /\ \A u \in Threads : u # t => Same(u)
      /\ pc[t] \notin {"create", "store"} /\ ~Fresh(t)'
  BY <1>0 DEF CallMutex, Enter, Goto, BridgeTypes, Same, Fresh
<1>2. BridgeTypes'
  BY <1>0, EnterType, BridgeAssumption DEF CallMutex, Labels, Ops
<1>3. BootstrapOK'
  BY <1>0, BridgeAssumption DEF CallMutex, Enter, Goto, BridgeTypes, BootstrapOK, InBootstrap
<1>4. ThreadOK(t)'
  <2>1. CallFits(t)'
    BY <1>0, BridgeAssumption DEF CallMutex, Enter, Goto, BridgeTypes, ThreadOK, CallFits, OnMutex, OnCond, Asleep, Signalling, Idle
  <2>2. Entitled(t)'
    BY <1>0, BridgeAssumption DEF CallMutex, Enter, Goto, BridgeTypes, ThreadOK, CallFits, Entitled, HeldUsable, OnMutex, OnCond, Asleep, Signalling
  <2>3. Knows(t)'
    BY <1>0, BridgeAssumption DEF CallMutex, Enter, Goto, BridgeTypes, ThreadOK, CallFits, Knows, HeldIsOwned, Entitled, OnMutex, OnCond, Asleep, words
  <2>4. Makes(t)'
    BY <1>0 DEF CallMutex, Enter, Goto, BridgeTypes, Makes
  <2> QED BY <2>1, <2>2, <2>3, <2>4 DEF ThreadOK
<1> QED BY <1>1, <1>2, <1>3, <1>4, LocalStep

LEMMA CallWaitInv ==
  ASSUME BridgeInv, NEW t \in Threads, NEW c \in Conds, CallWait(t, c)
  PROVE  BridgeInv'
<1>0. BridgeTypes /\ BootstrapOK /\ ThreadOK(t) /\ HeldUsable /\ HeldIsOwned
  BY DEF BridgeInv
<1>1. /\ UNCHANGED <<words, held, usable>>
      /\ \A u \in Threads : u # t => Same(u)
      /\ pc[t] \notin {"create", "store"} /\ ~Fresh(t)'
  BY <1>0 DEF CallWait, Enter, Goto, BridgeTypes, Same, Fresh
<1>2. BridgeTypes'
  BY <1>0, EnterType, BridgeAssumption DEF CallWait, Labels, Ops
<1>3. BootstrapOK'
  BY <1>0, BridgeAssumption DEF CallWait, Enter, Goto, BridgeTypes, BootstrapOK, InBootstrap
<1>4. ThreadOK(t)'
  <2>1. CallFits(t)'
    BY <1>0, BridgeAssumption DEF CallWait, Enter, Goto, BridgeTypes, ThreadOK, CallFits, OnMutex, OnCond, Asleep, Signalling, Idle
  <2>2. Entitled(t)'
    BY <1>0, BridgeAssumption DEF CallWait, Enter, Goto, BridgeTypes, ThreadOK, CallFits, Entitled, HeldUsable, OnMutex, OnCond, Asleep, Signalling
  <2>3. Knows(t)'
    BY <1>0, BridgeAssumption DEF CallWait, Enter, Goto, BridgeTypes, ThreadOK, CallFits, Knows, HeldIsOwned, Entitled, OnMutex, OnCond, Asleep, words
  <2>4. Makes(t)'
    BY <1>0 DEF CallWait, Enter, Goto, BridgeTypes, Makes
  <2> QED BY <2>1, <2>2, <2>3, <2>4 DEF ThreadOK
<1> QED BY <1>1, <1>2, <1>3, <1>4, LocalStep

LEMMA CallSignalInv ==
  ASSUME BridgeInv, NEW t \in Threads, NEW c \in Conds, CallSignal(t, c)
  PROVE  BridgeInv'
<1>0. BridgeTypes /\ BootstrapOK /\ ThreadOK(t) /\ HeldUsable /\ HeldIsOwned
  BY DEF BridgeInv
<1>1. /\ UNCHANGED <<words, held, usable>>
      /\ \A u \in Threads : u # t => Same(u)
      /\ pc[t] \notin {"create", "store"} /\ ~Fresh(t)'
  BY <1>0 DEF CallSignal, Enter, Goto, BridgeTypes, Same, Fresh
<1>2. BridgeTypes'
  BY <1>0, EnterType, BridgeAssumption DEF CallSignal, Labels, Ops
<1>3. BootstrapOK'
  BY <1>0, BridgeAssumption DEF CallSignal, Enter, Goto, BridgeTypes, BootstrapOK, InBootstrap
<1>4. ThreadOK(t)'
  <2>1. CallFits(t)'
    BY <1>0, BridgeAssumption DEF CallSignal, Enter, Goto, BridgeTypes, ThreadOK, CallFits, OnMutex, OnCond, Asleep, Signalling, Idle
  <2>2. Entitled(t)'
    BY <1>0, BridgeAssumption DEF CallSignal, Enter, Goto, BridgeTypes, ThreadOK, CallFits, Entitled, HeldUsable, OnMutex, OnCond, Asleep, Signalling
  <2>3. Knows(t)'
    BY <1>0, BridgeAssumption DEF CallSignal, Enter, Goto, BridgeTypes, ThreadOK, CallFits, Knows, HeldIsOwned, Entitled, OnMutex, OnCond, Asleep, words
  <2>4. Makes(t)'
    BY <1>0 DEF CallSignal, Enter, Goto, BridgeTypes, Makes
  <2> QED BY <2>1, <2>2, <2>3, <2>4 DEF ThreadOK
<1> QED BY <1>1, <1>2, <1>3, <1>4, LocalStep

LEMMA LoadInv ==
  ASSUME BridgeInv, NEW t \in Threads, Load(t)
  PROVE  BridgeInv'
<1>0. BridgeTypes /\ BootstrapOK /\ ThreadOK(t) /\ HeldUsable /\ HeldIsOwned
  BY DEF BridgeInv
<1>1. /\ UNCHANGED <<words, held, usable>>
      /\ \A u \in Threads : u # t => Same(u)
      /\ pc[t] \notin {"create", "store"} /\ ~Fresh(t)'
  BY <1>0 DEF Load, Resolved, Goto, Point, BridgeTypes, Same, Fresh
<1>2. BridgeTypes'
  BY <1>0 DEF Load, Resolved, Goto, Point, BridgeTypes, ThreadOK, CallFits, Knows, OnMutex, words, Labels
<1>3. BootstrapOK'
  BY <1>0, BridgeAssumption DEF Load, Resolved, Goto, Point, BridgeTypes, BootstrapOK, InBootstrap
<1>4. ThreadOK(t)'
  <2>1. CallFits(t)'
    BY <1>0, BridgeAssumption DEF Load, Resolved, Goto, Point, BridgeTypes, ThreadOK, CallFits, OnMutex, OnCond, Asleep, Signalling, Idle
  <2>2. Entitled(t)'
    BY <1>0, BridgeAssumption DEF Load, Resolved, Goto, Point, BridgeTypes, ThreadOK, CallFits, Entitled, HeldUsable, OnMutex, OnCond, Asleep, Signalling
  <2>3. Knows(t)'
    BY <1>0, BridgeAssumption DEF Load, Resolved, Goto, Point, BridgeTypes, ThreadOK, CallFits, Knows, HeldIsOwned, Entitled, OnMutex, OnCond, Asleep, words
  <2>4. Makes(t)'
    BY <1>0 DEF Load, Resolved, Goto, Point, BridgeTypes, Makes
  <2> QED BY <2>1, <2>2, <2>3, <2>4 DEF ThreadOK
<1> QED BY <1>1, <1>2, <1>3, <1>4, LocalStep

LEMMA BootInv ==
  ASSUME BridgeInv, NEW t \in Threads, Boot(t)
  PROVE  BridgeInv'
<1>0. BridgeTypes /\ BootstrapOK /\ ThreadOK(t) /\ HeldUsable /\ HeldIsOwned
  BY DEF BridgeInv
<1>1. /\ UNCHANGED <<words, held, usable>>
      /\ \A u \in Threads : u # t => Same(u)
      /\ pc[t] \notin {"create", "store"} /\ ~Fresh(t)'
  BY <1>0 DEF Boot, Goto, BridgeTypes, Same, Fresh
<1>2. BridgeTypes'
  BY <1>0, BridgeAssumption DEF Boot, Goto, BridgeTypes, words, Labels, Ops, Idle
<1>3. BootstrapOK'
  BY <1>0, BridgeAssumption DEF Boot, Goto, BridgeTypes, BootstrapOK, InBootstrap
<1>4. ThreadOK(t)'
  <2>1. CallFits(t)'
    BY <1>0, BridgeAssumption DEF Boot, Goto, BridgeTypes, ThreadOK, CallFits, OnMutex, OnCond, Asleep, Signalling, Idle
  <2>2. Entitled(t)'
    BY <1>0, BridgeAssumption DEF Boot, Goto, BridgeTypes, ThreadOK, CallFits, Entitled, HeldUsable, OnMutex, OnCond, Asleep, Signalling
  <2>3. Knows(t)'
    BY <1>0, BridgeAssumption DEF Boot, Goto, BridgeTypes, ThreadOK, CallFits, Knows, HeldIsOwned, Entitled, OnMutex, OnCond, Asleep, words
  <2>4. Makes(t)'
    BY <1>0 DEF Boot, Goto, BridgeTypes, Makes
  <2> QED BY <2>1, <2>2, <2>3, <2>4 DEF ThreadOK
<1> QED BY <1>1, <1>2, <1>3, <1>4, LocalStep

LEMMA UnbootInv ==
  ASSUME BridgeInv, NEW t \in Threads, Unboot(t)
  PROVE  BridgeInv'
<1>0. BridgeTypes /\ BootstrapOK /\ ThreadOK(t) /\ HeldUsable /\ HeldIsOwned
  BY DEF BridgeInv
<1>1. /\ UNCHANGED <<words, held, usable>>
      /\ \A u \in Threads : u # t => Same(u)
      /\ pc[t] \notin {"create", "store"} /\ ~Fresh(t)'
  BY <1>0 DEF Unboot, Goto, BridgeTypes, Same, Fresh
<1>2. BridgeTypes'
  BY <1>0, BridgeAssumption DEF Unboot, Goto, BridgeTypes, words, Labels, Ops, Idle
<1>3. BootstrapOK'
  BY <1>0, BridgeAssumption DEF Unboot, Goto, BridgeTypes, BootstrapOK, InBootstrap
<1>4. ThreadOK(t)'
  <2>1. CallFits(t)'
    BY <1>0, BridgeAssumption DEF Unboot, Goto, BridgeTypes, ThreadOK, CallFits, OnMutex, OnCond, Asleep, Signalling, Idle
  <2>2. Entitled(t)'
    BY <1>0, BridgeAssumption DEF Unboot, Goto, BridgeTypes, ThreadOK, CallFits, Entitled, HeldUsable, OnMutex, OnCond, Asleep, Signalling
  <2>3. Knows(t)'
    BY <1>0, BridgeAssumption DEF Unboot, Goto, BridgeTypes, ThreadOK, CallFits, Knows, HeldIsOwned, Entitled, OnMutex, OnCond, Asleep, words
  <2>4. Makes(t)'
    BY <1>0 DEF Unboot, Goto, BridgeTypes, Makes
  <2> QED BY <2>1, <2>2, <2>3, <2>4 DEF ThreadOK
<1> QED BY <1>1, <1>2, <1>3, <1>4, LocalStep

LEMMA ReloadInv ==
  ASSUME BridgeInv, NEW t \in Threads, Reload(t)
  PROVE  BridgeInv'
<1>0. BridgeTypes /\ BootstrapOK /\ ThreadOK(t) /\ HeldUsable /\ HeldIsOwned
  BY DEF BridgeInv
<1>1. /\ UNCHANGED <<words, held, usable>>
      /\ \A u \in Threads : u # t => Same(u)
      /\ pc[t] \notin {"create", "store"} /\ ~Fresh(t)'
  BY <1>0 DEF Reload, Resolved, Goto, Point, BridgeTypes, Same, Fresh
<1>2. BridgeTypes'
  BY <1>0 DEF Reload, Resolved, Goto, Point, BridgeTypes, ThreadOK, CallFits, Knows, OnMutex, words, Labels
<1>3. BootstrapOK'
  BY <1>0, BridgeAssumption DEF Reload, Resolved, Goto, Point, BridgeTypes, BootstrapOK, InBootstrap
<1>4. ThreadOK(t)'
  <2>1. CallFits(t)'
    BY <1>0, BridgeAssumption DEF Reload, Resolved, Goto, Point, BridgeTypes, ThreadOK, CallFits, OnMutex, OnCond, Asleep, Signalling, Idle
  <2>2. Entitled(t)'
    BY <1>0, BridgeAssumption DEF Reload, Resolved, Goto, Point, BridgeTypes, ThreadOK, CallFits, Entitled, HeldUsable, OnMutex, OnCond, Asleep, Signalling
  <2>3. Knows(t)'
    BY <1>0, BridgeAssumption DEF Reload, Resolved, Goto, Point, BridgeTypes, ThreadOK, CallFits, Knows, HeldIsOwned, Entitled, OnMutex, OnCond, Asleep, words
  <2>4. Makes(t)'
    BY <1>0 DEF Reload, Resolved, Goto, Point, BridgeTypes, Makes
  <2> QED BY <2>1, <2>2, <2>3, <2>4 DEF ThreadOK
<1> QED BY <1>1, <1>2, <1>3, <1>4, LocalStep

LEMMA CondLoadInv ==
  ASSUME BridgeInv, NEW t \in Threads, CondLoad(t)
  PROVE  BridgeInv'
<1>0. BridgeTypes /\ BootstrapOK /\ ThreadOK(t) /\ HeldUsable /\ HeldIsOwned
  BY DEF BridgeInv
<1>1. /\ UNCHANGED <<words, held, usable>>
      /\ \A u \in Threads : u # t => Same(u)
      /\ pc[t] \notin {"create", "store"} /\ ~Fresh(t)'
  BY <1>0 DEF CondLoad, Goto, BridgeTypes, Same, Fresh
<1>2. BridgeTypes'
  BY <1>0, BridgeAssumption DEF CondLoad, Goto, BridgeTypes, words, Labels, Ops, Idle
<1>3. BootstrapOK'
  BY <1>0, BridgeAssumption DEF CondLoad, Goto, BridgeTypes, BootstrapOK, InBootstrap
<1>4. ThreadOK(t)'
  <2>1. CallFits(t)'
    BY <1>0, BridgeAssumption DEF CondLoad, Goto, BridgeTypes, ThreadOK, CallFits, OnMutex, OnCond, Asleep, Signalling, Idle
  <2>2. Entitled(t)'
    BY <1>0, BridgeAssumption DEF CondLoad, Goto, BridgeTypes, ThreadOK, CallFits, Entitled, HeldUsable, OnMutex, OnCond, Asleep, Signalling
  <2>3. Knows(t)'
    BY <1>0, BridgeAssumption DEF CondLoad, Goto, BridgeTypes, ThreadOK, CallFits, Knows, HeldIsOwned, Entitled, OnMutex, OnCond, Asleep, words
  <2>4. Makes(t)'
    BY <1>0 DEF CondLoad, Goto, BridgeTypes, Makes
  <2> QED BY <2>1, <2>2, <2>3, <2>4 DEF ThreadOK
<1> QED BY <1>1, <1>2, <1>3, <1>4, LocalStep

LEMMA CondBootInv ==
  ASSUME BridgeInv, NEW t \in Threads, CondBoot(t)
  PROVE  BridgeInv'
<1>0. BridgeTypes /\ BootstrapOK /\ ThreadOK(t) /\ HeldUsable /\ HeldIsOwned
  BY DEF BridgeInv
<1>1. /\ UNCHANGED <<words, held, usable>>
      /\ \A u \in Threads : u # t => Same(u)
      /\ pc[t] \notin {"create", "store"} /\ ~Fresh(t)'
  BY <1>0 DEF CondBoot, Goto, BridgeTypes, Same, Fresh
<1>2. BridgeTypes'
  BY <1>0, BridgeAssumption DEF CondBoot, Goto, BridgeTypes, words, Labels, Ops, Idle
<1>3. BootstrapOK'
  BY <1>0, BridgeAssumption DEF CondBoot, Goto, BridgeTypes, BootstrapOK, InBootstrap
<1>4. ThreadOK(t)'
  <2>1. CallFits(t)'
    BY <1>0, BridgeAssumption DEF CondBoot, Goto, BridgeTypes, ThreadOK, CallFits, OnMutex, OnCond, Asleep, Signalling, Idle
  <2>2. Entitled(t)'
    BY <1>0, BridgeAssumption DEF CondBoot, Goto, BridgeTypes, ThreadOK, CallFits, Entitled, HeldUsable, OnMutex, OnCond, Asleep, Signalling
  <2>3. Knows(t)'
    BY <1>0, BridgeAssumption DEF CondBoot, Goto, BridgeTypes, ThreadOK, CallFits, Knows, HeldIsOwned, Entitled, OnMutex, OnCond, Asleep, words
  <2>4. Makes(t)'
    BY <1>0 DEF CondBoot, Goto, BridgeTypes, Makes
  <2> QED BY <2>1, <2>2, <2>3, <2>4 DEF ThreadOK
<1> QED BY <1>1, <1>2, <1>3, <1>4, LocalStep

LEMMA CondUnbootInv ==
  ASSUME BridgeInv, NEW t \in Threads, CondUnboot(t)
  PROVE  BridgeInv'
<1>0. BridgeTypes /\ BootstrapOK /\ ThreadOK(t) /\ HeldUsable /\ HeldIsOwned
  BY DEF BridgeInv
<1>1. /\ UNCHANGED <<words, held, usable>>
      /\ \A u \in Threads : u # t => Same(u)
      /\ pc[t] \notin {"create", "store"} /\ ~Fresh(t)'
  BY <1>0 DEF CondUnboot, Goto, BridgeTypes, Same, Fresh
<1>2. BridgeTypes'
  BY <1>0, BridgeAssumption DEF CondUnboot, Goto, BridgeTypes, words, Labels, Ops, Idle
<1>3. BootstrapOK'
  BY <1>0, BridgeAssumption DEF CondUnboot, Goto, BridgeTypes, BootstrapOK, InBootstrap
<1>4. ThreadOK(t)'
  <2>1. CallFits(t)'
    BY <1>0, BridgeAssumption DEF CondUnboot, Goto, BridgeTypes, ThreadOK, CallFits, OnMutex, OnCond, Asleep, Signalling, Idle
  <2>2. Entitled(t)'
    BY <1>0, BridgeAssumption DEF CondUnboot, Goto, BridgeTypes, ThreadOK, CallFits, Entitled, HeldUsable, OnMutex, OnCond, Asleep, Signalling
  <2>3. Knows(t)'
    BY <1>0, BridgeAssumption DEF CondUnboot, Goto, BridgeTypes, ThreadOK, CallFits, Knows, HeldIsOwned, Entitled, OnMutex, OnCond, Asleep, words
  <2>4. Makes(t)'
    BY <1>0 DEF CondUnboot, Goto, BridgeTypes, Makes
  <2> QED BY <2>1, <2>2, <2>3, <2>4 DEF ThreadOK
<1> QED BY <1>1, <1>2, <1>3, <1>4, LocalStep

LEMMA LockFailsInv ==
  ASSUME BridgeInv, NEW t \in Threads, LockFails(t)
  PROVE  BridgeInv'
<1>0. BridgeTypes /\ BootstrapOK /\ ThreadOK(t) /\ HeldUsable /\ HeldIsOwned
  BY DEF BridgeInv
<1>1. /\ UNCHANGED <<words, held, usable>>
      /\ \A u \in Threads : u # t => Same(u)
      /\ pc[t] \notin {"create", "store"} /\ ~Fresh(t)'
  BY <1>0 DEF LockFails, Return, BridgeTypes, Same, Fresh
<1>2. BridgeTypes'
  BY <1>0, BridgeAssumption DEF LockFails, Return, BridgeTypes, words, Labels, Ops, Idle
<1>3. BootstrapOK'
  BY <1>0, BridgeAssumption DEF LockFails, Return, BridgeTypes, BootstrapOK, InBootstrap
<1>4. ThreadOK(t)'
  <2>1. CallFits(t)'
    BY <1>0, BridgeAssumption DEF LockFails, Return, BridgeTypes, ThreadOK, CallFits, OnMutex, OnCond, Asleep, Signalling, Idle
  <2>2. Entitled(t)'
    BY <1>0, BridgeAssumption DEF LockFails, Return, BridgeTypes, ThreadOK, CallFits, Entitled, HeldUsable, OnMutex, OnCond, Asleep, Signalling
  <2>3. Knows(t)'
    BY <1>0, BridgeAssumption DEF LockFails, Return, BridgeTypes, ThreadOK, CallFits, Knows, HeldIsOwned, Entitled, OnMutex, OnCond, Asleep, words
  <2>4. Makes(t)'
    BY <1>0 DEF LockFails, Return, BridgeTypes, Makes
  <2> QED BY <2>1, <2>2, <2>3, <2>4 DEF ThreadOK
<1> QED BY <1>1, <1>2, <1>3, <1>4, LocalStep

LEMMA TimeoutInv ==
  ASSUME BridgeInv, NEW t \in Threads, Timeout(t)
  PROVE  BridgeInv'
<1>0. BridgeTypes /\ BootstrapOK /\ ThreadOK(t) /\ HeldUsable /\ HeldIsOwned
  BY DEF BridgeInv
<1>1. /\ UNCHANGED <<words, held, usable>>
      /\ \A u \in Threads : u # t => Same(u)
      /\ pc[t] \notin {"create", "store"} /\ ~Fresh(t)'
  BY <1>0 DEF Timeout, Goto, BridgeTypes, Same, Fresh
<1>2. BridgeTypes'
  BY <1>0, BridgeAssumption DEF Timeout, Goto, BridgeTypes, words, Labels, Ops, Idle
<1>3. BootstrapOK'
  BY <1>0, BridgeAssumption DEF Timeout, Goto, BridgeTypes, BootstrapOK, InBootstrap
<1>4. ThreadOK(t)'
  <2>1. CallFits(t)'
    BY <1>0, BridgeAssumption DEF Timeout, Goto, BridgeTypes, ThreadOK, CallFits, OnMutex, OnCond, Asleep, Signalling, Idle
  <2>2. Entitled(t)'
    BY <1>0, BridgeAssumption DEF Timeout, Goto, BridgeTypes, ThreadOK, CallFits, Entitled, HeldUsable, OnMutex, OnCond, Asleep, Signalling
  <2>3. Knows(t)'
    BY <1>0, BridgeAssumption DEF Timeout, Goto, BridgeTypes, ThreadOK, CallFits, Knows, HeldIsOwned, Entitled, OnMutex, OnCond, Asleep, words
  <2>4. Makes(t)'
    BY <1>0 DEF Timeout, Goto, BridgeTypes, Makes
  <2> QED BY <2>1, <2>2, <2>3, <2>4 DEF ThreadOK
<1> QED BY <1>1, <1>2, <1>3, <1>4, LocalStep

-----------------------------------------------------------------------------
(* Steps that touch the heap.                                                *)

\* What calloc returns is in no word of a condition variable, in no thread's hands
\* and no host mutex.
LEMMA UnusedIs ==
  ASSUME NEW a \in Unused, CondsOK
  PROVE  /\ a \in Addrs /\ heap[a].type \in {"free", "cond"}
         /\ heap[a].type # "raw" /\ heap[a].type # "mutex"
         /\ \A c \in Conds : cond[c] # None => cond[c] # a
         /\ \A u \in Threads : Fresh(u) => ptr[u] # a
BY DEF Unused, Known, Free, HostCond, Cell, CondsOK

\* An object taken from the heap is nobody's yet.
LEMMA NewObject ==
  ASSUME BridgeInv, NEW t \in Threads, NEW a \in Unused, NEW cell \in {Raw, HostCond},
         heap' = [heap EXCEPT ![a] = cell], UNCHANGED <<word, cond, held, usable>>,
         \A u \in Threads : u # t => Same(u),
         pc[t] \notin {"create", "store"}, ptr'[t] = a,
         cell = Raw => pc'[t] = "create",
         cell = HostCond => Fresh(t)',
         BridgeTypes', BootstrapOK', CallFits(t)', Entitled(t)', Knows(t)'
  PROVE  BridgeInv'
<1>0. /\ BridgeTypes /\ CondsOK /\ a \in Addrs /\ Fresh(t)' = (cell = HostCond)
      /\ heap[a].type # "raw" /\ heap[a].type # "mutex"
      /\ \A c \in Conds : cond[c] # None => cond[c] # a
      /\ \A u \in Threads : Fresh(u) => ptr[u] # a
  BY UnusedIs DEF BridgeInv, Raw, HostCond, Cell, Fresh
<1>1. /\ \A b \in Addrs : b # a => heap'[b] = heap[b]
      /\ heap'[a] = cell /\ cell.type \in {"raw", "cond"}
      /\ cell = Raw <=> cell.type = "raw"
  BY <1>0 DEF BridgeTypes, Raw, HostCond, Cell
<1>2. ASSUME NEW m \in Mutexes, Hosted(m)
      PROVE  word[m] \in Addrs /\ word[m] # a
  BY <1>0, <1>2 DEF BridgeInv, HostOK, Hosted
<1>3. ASSUME NEW u \in Threads PROVE ThreadOK(u)'
  <2>1. CASE u = t
    <3>1. Makes(u)'
      BY <1>0, <1>1, <2>1 DEF Makes, Fresh, Raw, HostCond, Cell
    <3> QED BY <2>1, <3>1 DEF ThreadOK
  <2>2. CASE u # t
    <3>0. Makes(u) BY DEF BridgeInv, ThreadOK
    <3>1. pc[u] \in {"create", "store"} => ptr[u] \in Addrs /\ ptr[u] # a
      <4>1. CASE pc[u] = "create" BY <1>0, <3>0, <4>1 DEF Makes, Raw, Cell
      <4>2. CASE pc[u] = "store" BY <1>0, <3>0, <4>2 DEF Makes, HostMutex, Cell
      <4> QED BY <4>1, <4>2
    <3>2. heap'[ptr[u]] = heap[ptr[u]] \/ pc[u] \notin {"create", "store"}
      BY <3>1, <1>1
    <3> QED BY <2>2, <3>2, OthersKeep DEF BridgeInv, ThreadOK, Makes
  <2> QED BY <2>1, <2>2
<1>4. ASSUME NEW m \in Mutexes PROVE HostOK(m)'
  BY <1>1, <1>2, <1>4 DEF BridgeInv, HostOK, Hosted
<1>5. HeldUsable' /\ HeldIsOwned'
  BY <1>1, <1>2 DEF BridgeInv, HeldUsable, HeldIsOwned, Hosted
<1>6. Accounted'
  BY <1>0, <1>1 DEF BridgeInv, Accounted, Same
<1>7. CondsOK'
  <2>1. CondsOK BY DEF BridgeInv
  <2>2. \A c \in Conds : cond[c] # None => cond[c] \in Addrs /\ cond[c] # a
    BY <1>0, <2>1 DEF CondsOK, BridgeTypes
  <2>3. \A c \in Conds : cond'[c] # None =>
          heap'[cond'[c]].type = "cond" /\ \A d \in Conds : cond'[d] = cond'[c] => d = c
    BY <1>1, <2>1, <2>2 DEF CondsOK
  <2>4. \A u \in Threads : u # t /\ Fresh(u)' =>
          Fresh(u) /\ ptr'[u] = ptr[u] /\ ptr[u] \in Addrs /\ ptr[u] # a
    BY <1>0, <2>1 DEF CondsOK, Fresh, Same
  <2>5. ASSUME NEW u \in Threads, Fresh(u)'
        PROVE  /\ ptr'[u] \in Addrs /\ heap'[ptr'[u]].type = "cond"
               /\ \A c \in Conds : cond'[c] # ptr'[u]
               /\ \A v \in Threads : Fresh(v)' /\ ptr'[v] = ptr'[u] => v = u
    <3>1. CASE u = t
      <4>1. cell.type = "cond" BY <1>0, <2>5, <3>1 DEF HostCond, Cell, Fresh
      <4> QED BY <1>0, <1>1, <2>2, <2>4, <3>1, <4>1, BridgeAssumption
    <3>2. CASE u # t
      BY <1>1, <2>1, <2>4, <2>5, <3>2 DEF CondsOK
    <3> QED BY <3>1, <3>2
  <2> QED BY <2>3, <2>5 DEF CondsOK
<1> QED BY <1>3, <1>4, <1>5, <1>6, <1>7 DEF BridgeInv

LEMMA RecheckInv ==
  ASSUME BridgeInv, NEW t \in Threads, Recheck(t)
  PROVE  BridgeInv'
<1>0. BridgeTypes /\ BootstrapOK /\ ThreadOK(t)
  BY DEF BridgeInv
<1>1. /\ pc[t] = "recheck" /\ UNCHANGED <<word, cond, held, usable, bootstrap, call>>
      /\ \A u \in Threads : u # t => Same(u)
      /\ pc'[t] \in {"unboot", "create"} /\ pc' \in [Threads -> Labels]
  BY <1>0 DEF Recheck, Goto, Allocate, Point, BridgeTypes, Same, Labels
<1>2. BootstrapOK'
  BY <1>0, <1>1 DEF BootstrapOK, InBootstrap, Same
<1>3. CallFits(t)' /\ Entitled(t)'
  BY <1>0, <1>1 DEF ThreadOK, CallFits, Entitled, OnMutex, OnCond, Asleep
<1>4. Knows(t)'
  BY <1>0, <1>1 DEF Recheck, Goto, Allocate, Knows, BridgeTypes, Asleep
<1>5. CASE word[call[t].m] \in Addrs
  <2>1. UNCHANGED <<words, held, usable>> /\ pc'[t] = "unboot" /\ UNCHANGED ptr
    BY <1>0, <1>1, <1>5 DEF Recheck, Goto, BridgeTypes, words
  <2>2. BridgeTypes'
    BY <1>0, <1>1, <2>1 DEF BridgeTypes, words
  <2>3. Makes(t)'
    BY <2>1 DEF Makes
  <2> QED BY <1>1, <1>2, <1>3, <1>4, <2>1, <2>2, <2>3, LocalStep DEF ThreadOK, Fresh
<1>6. CASE word[call[t].m] \notin Addrs
  <2>1. PICK a \in Unused : heap' = [heap EXCEPT ![a] = Raw] /\ ptr' = [ptr EXCEPT ![t] = a]
    BY <1>6 DEF Recheck, Allocate, Point
  <2>2. pc'[t] = "create" /\ ptr'[t] = a
    BY <1>0, <1>6, <2>1 DEF Recheck, Goto, BridgeTypes
  <2>3. BridgeTypes'
    BY <1>0, <1>1, <2>1, BridgeAssumption DEF BridgeTypes, Unused, Heap, Raw, Cell, Kinds
  <2> QED BY <1>1, <1>2, <1>3, <1>4, <2>1, <2>2, <2>3, NewObject DEF Raw, HostCond, Cell
<1> QED BY <1>5, <1>6

LEMMA CondNewInv ==
  ASSUME BridgeInv, NEW t \in Threads, CondNew(t)
  PROVE  BridgeInv'
<1>0. BridgeTypes /\ BootstrapOK /\ ThreadOK(t)
  BY DEF BridgeInv
<1>1. /\ pc[t] = "cnew" /\ UNCHANGED <<word, cond, held, usable, bootstrap, call>>
      /\ \A u \in Threads : u # t => Same(u)
      /\ pc'[t] = "cstore" /\ pc' \in [Threads -> Labels]
  BY <1>0 DEF CondNew, Goto, Point, BridgeTypes, Same, Labels
<1>2. PICK a \in Unused : heap' = [heap EXCEPT ![a] = HostCond] /\ ptr' = [ptr EXCEPT ![t] = a]
  BY DEF CondNew, Point
<1>3. ptr'[t] = a
  BY <1>0, <1>2 DEF BridgeTypes
<1>4. BridgeTypes'
  BY <1>0, <1>1, <1>2, BridgeAssumption DEF BridgeTypes, Unused, Heap, HostCond, Cell, Kinds
<1>5. BootstrapOK'
  BY <1>0, <1>1 DEF BootstrapOK, InBootstrap, Same
<1>6. CallFits(t)' /\ Entitled(t)' /\ Knows(t)'
  BY <1>0, <1>1 DEF ThreadOK, CallFits, Entitled, Knows, OnMutex, OnCond, Asleep
<1> QED BY <1>1, <1>2, <1>3, <1>4, <1>5, <1>6, NewObject DEF Raw, HostCond, Cell, Fresh

LEMMA CondRecheckInv ==
  ASSUME BridgeInv, NEW t \in Threads, CondRecheck(t)
  PROVE  BridgeInv'
<1>0. BridgeTypes /\ BootstrapOK /\ ThreadOK(t)
  BY DEF BridgeInv
<1>1. /\ pc[t] = "crecheck" /\ UNCHANGED <<word, cond, held, usable, bootstrap, call>>
      /\ \A u \in Threads : u # t => Same(u)
      /\ pc'[t] \in {"cunboot", "cpublish"} /\ pc' \in [Threads -> Labels]
  BY <1>0 DEF CondRecheck, Goto, Point, BridgeTypes, Same, Labels
<1>2. BootstrapOK'
  BY <1>0, <1>1 DEF BootstrapOK, InBootstrap, Same
<1>3. CallFits(t)' /\ Entitled(t)' /\ Knows(t)'
  BY <1>0, <1>1 DEF ThreadOK, CallFits, Entitled, Knows, OnMutex, OnCond, Asleep
<1>4. CASE cond[call[t].c] # None
  <2>1. UNCHANGED <<words, held, usable>> /\ pc'[t] = "cunboot" /\ UNCHANGED ptr
    BY <1>0, <1>1, <1>4 DEF CondRecheck, Goto, BridgeTypes, words
  <2>2. BridgeTypes'
    BY <1>0, <1>1, <2>1 DEF BridgeTypes, words
  <2>3. Makes(t)'
    BY <2>1 DEF Makes
  <2> QED BY <1>1, <1>2, <1>3, <2>1, <2>2, <2>3, LocalStep DEF ThreadOK, Fresh
<1>5. CASE cond[call[t].c] = None
  <2>1. PICK a \in Unused : heap' = [heap EXCEPT ![a] = HostCond] /\ ptr' = [ptr EXCEPT ![t] = a]
    BY <1>5 DEF CondRecheck, Point
  <2>2. pc'[t] = "cpublish" /\ ptr'[t] = a
    BY <1>0, <1>5, <2>1 DEF CondRecheck, Goto, BridgeTypes
  <2>3. BridgeTypes'
    BY <1>0, <1>1, <2>1, BridgeAssumption DEF BridgeTypes, Unused, Heap, HostCond, Cell, Kinds
  <2> QED BY <1>1, <1>2, <1>3, <2>1, <2>2, <2>3, NewObject DEF Raw, HostCond, Cell, Fresh
<1> QED BY <1>4, <1>5

LEMMA CreateInv ==
  ASSUME BridgeInv, NEW t \in Threads, Create(t)
  PROVE  BridgeInv'
<1>0. BridgeTypes /\ BootstrapOK /\ ThreadOK(t) /\ CondsOK
  BY DEF BridgeInv
<1> DEFINE a == ptr[t]
           k == word[call[t].m]
<1>1. /\ pc[t] = "create" /\ pc'[t] = "store" /\ pc' = [pc EXCEPT ![t] = "store"]
      /\ UNCHANGED <<word, cond, held, usable, bootstrap, call, ptr>>
      /\ \A u \in Threads : u # t => Same(u)
  BY <1>0 DEF Create, Goto, BridgeTypes, Same
<1>2. a \in Addrs /\ heap[a] = Raw /\ heap[a].type = "raw" /\ k \in Kinds
  BY <1>0, <1>1 DEF ThreadOK, Makes, Knows, CallFits, BridgeTypes, Raw, Cell
<1>3. /\ heap' = [heap EXCEPT ![a] = HostMutex(k, None, 0)]
      /\ heap'[a] = HostMutex(k, None, 0) /\ heap'[a].type = "mutex"
      /\ \A b \in Addrs : b # a => heap'[b] = heap[b]
  BY <1>0, <1>2 DEF Create, BridgeTypes, HostMutex, Cell
<1>4. ASSUME NEW m \in Mutexes, Hosted(m)
      PROVE  word[m] \in Addrs /\ word[m] # a
  BY <1>2, <1>4 DEF BridgeInv, HostOK, Hosted
<1>5. BridgeTypes'
  BY <1>0, <1>1, <1>2, <1>3, BridgeAssumption DEF BridgeTypes, Heap, HostMutex, Cell, Labels
<1>6. BootstrapOK'
  BY <1>0, <1>1 DEF BootstrapOK, InBootstrap, Same
<1>7. ASSUME NEW u \in Threads PROVE ThreadOK(u)'
  <2>1. CASE u = t
    <3>1. CallFits(t)' /\ Entitled(t)' /\ Knows(t)'
      BY <1>0, <1>1 DEF ThreadOK, CallFits, Entitled, Knows, OnMutex, OnCond, Asleep
    <3>2. Makes(t)'
      BY <1>1, <1>2, <1>3, <1>4 DEF Makes, Hosted
    <3> QED BY <2>1, <3>1, <3>2 DEF ThreadOK
  <2>2. CASE u # t
    <3>1. pc[u] \notin {"create", "store"}
      BY <1>0, <1>1, <2>2 DEF BootstrapOK, InBootstrap
    <3> QED BY <1>1, <2>2, <3>1, OthersKeep DEF BridgeInv
  <2> QED BY <2>1, <2>2
<1>8. ASSUME NEW m \in Mutexes PROVE HostOK(m)'
  BY <1>1, <1>3, <1>4, <1>8 DEF BridgeInv, HostOK, Hosted
<1>9. HeldUsable' /\ HeldIsOwned'
  BY <1>1, <1>3, <1>4 DEF BridgeInv, HeldUsable, HeldIsOwned, Hosted
<1>10. Accounted'
  BY <1>0, <1>1, <1>2, <1>3 DEF BridgeInv, Accounted, Same
<1>11. CondsOK'
  <2>1. \A c \in Conds : cond[c] # None => cond[c] \in Addrs /\ cond[c] # a
    BY <1>0, <1>2 DEF CondsOK, BridgeTypes
  <2>2. \A u \in Threads : Fresh(u) => u # t /\ ptr[u] # a
    BY <1>0, <1>1, <1>2 DEF CondsOK, Fresh
  <2>3. \A u \in Threads : Fresh(u)' => Fresh(u) /\ ptr'[u] = ptr[u] /\ heap'[ptr[u]] = heap[ptr[u]]
    BY <1>0, <1>1, <1>3, <2>2 DEF Fresh, Same, CondsOK
  <2> QED BY <1>0, <1>1, <1>3, <2>1, <2>3 DEF CondsOK
<1> QED BY <1>5, <1>6, <1>7, <1>8, <1>9, <1>10, <1>11 DEF BridgeInv

LEMMA StoreInv ==
  ASSUME BridgeInv, NEW t \in Threads, Store(t)
  PROVE  BridgeInv'
<1>0. BridgeTypes /\ BootstrapOK /\ ThreadOK(t) /\ CondsOK
  BY DEF BridgeInv
<1> DEFINE a == ptr[t]
           m == call[t].m
<1>1. /\ pc[t] = "store" /\ pc'[t] = "unboot" /\ pc' = [pc EXCEPT ![t] = "unboot"]
      /\ UNCHANGED <<heap, cond, held, usable, bootstrap, call, ptr>>
      /\ \A u \in Threads : u # t => Same(u)
  BY <1>0 DEF Store, Goto, BridgeTypes, Same
<1>2. /\ a \in Addrs /\ m \in Mutexes /\ usable[m] /\ word[m] \notin Addrs
      /\ heap[a] = HostMutex(word[m], None, 0) /\ \A n \in Mutexes : usable[n] => word[n] # a
  BY <1>0, <1>1 DEF ThreadOK, Makes, Knows, CallFits, Entitled, OnMutex, Signalling
<1>3. /\ word' = [word EXCEPT ![m] = a] /\ word'[m] = a
      /\ \A n \in Mutexes : n # m => word'[n] = word[n]
  BY <1>0, <1>2 DEF Store, BridgeTypes
<1>4. heap[a].type = "mutex" /\ heap[a].owner = None /\ heap[a].depth = 0
  BY <1>2 DEF HostMutex, Cell
<1>5. BridgeTypes'
  BY <1>0, <1>1, <1>2, <1>3 DEF BridgeTypes, Labels
<1>6. BootstrapOK'
  BY <1>0, <1>1 DEF BootstrapOK, InBootstrap, Same
<1>7. \A u \in Threads : u # t => pc[u] \notin {"create", "store", "unboot"}
  BY <1>0, <1>1 DEF BootstrapOK, InBootstrap
<1>8. ASSUME NEW u \in Threads PROVE ThreadOK(u)'
  <2>0. ThreadOK(u) BY DEF BridgeInv
  <2>1. CASE u = t
    <3>1. CallFits(t)' /\ Entitled(t)'
      BY <1>0, <1>1 DEF ThreadOK, CallFits, Entitled, OnMutex, OnCond, Asleep
    <3>2. Knows(t)' /\ Makes(t)'
      BY <1>1, <1>2, <1>3 DEF Knows, Makes, Asleep
    <3> QED BY <2>1, <3>1, <3>2 DEF ThreadOK
  <2>2. CASE u # t
    <3>1. CallFits(u)'
      BY <1>1, <2>0, <2>2 DEF ThreadOK, CallFits, Same
    <3>2. Entitled(u)'
      BY <1>1, <2>0, <2>2 DEF ThreadOK, Entitled, Same
    <3>3. Knows(u)'
      BY <1>1, <1>2, <1>3, <1>7, <2>0, <2>2 DEF ThreadOK, CallFits, Knows, Same, OnMutex, Asleep
    <3>4. Makes(u)'
      BY <1>1, <1>7, <2>2 DEF Makes, Same
    <3> QED BY <3>1, <3>2, <3>3, <3>4 DEF ThreadOK
  <2> QED BY <2>1, <2>2
<1>9. ASSUME NEW n \in Mutexes PROVE HostOK(n)'
  BY <1>1, <1>2, <1>3, <1>4, <1>9 DEF BridgeInv, HostOK, Hosted
<1>10. HeldUsable' /\ HeldIsOwned'
  BY <1>1, <1>2, <1>3 DEF BridgeInv, HeldUsable, HeldIsOwned
<1>11. Accounted'
  BY <1>0, <1>1, <1>2, <1>3 DEF BridgeInv, Accounted, Same
<1>12. CondsOK'
  BY <1>0, <1>1 DEF CondsOK, Fresh, Same
<1> QED BY <1>5, <1>6, <1>8, <1>9, <1>10, <1>11, <1>12 DEF BridgeInv

\* The new condition variable goes into the word.
LEMMA PublishInv ==
  ASSUME BridgeInv, NEW t \in Threads, CondStore(t) \/ CondPublish(t)
  PROVE  BridgeInv'
<1>0. BridgeTypes /\ BootstrapOK /\ ThreadOK(t) /\ CondsOK
  BY DEF BridgeInv
<1> DEFINE a == ptr[t]
           c == call[t].c
<1>1. /\ \/ pc[t] = "cstore" /\ pc'[t] = "cuse"
         \/ pc[t] = "cpublish" /\ pc'[t] = "cunboot"
      /\ pc' \in [Threads -> Labels]
      /\ UNCHANGED <<word, heap, held, usable, bootstrap, call, ptr>>
      /\ \A u \in Threads : u # t => Same(u)
  <2>1. CASE CondStore(t) BY <1>0, <2>1 DEF CondStore, Goto, BridgeTypes, Same, Labels
  <2>2. CASE CondPublish(t) BY <1>0, <2>2 DEF CondPublish, Goto, BridgeTypes, Same, Labels
  <2> QED BY <2>1, <2>2
<1>2. /\ Fresh(t) /\ a \in Addrs /\ c \in Conds /\ heap[a].type = "cond"
      /\ \A d \in Conds : cond[d] # a
  BY <1>0, <1>1 DEF ThreadOK, CallFits, CondsOK, Fresh, OnCond, Signalling
<1>3. /\ cond' = [cond EXCEPT ![c] = a] /\ cond'[c] = a
      /\ \A d \in Conds : d # c => cond'[d] = cond[d]
  BY <1>0, <1>2 DEF CondStore, CondPublish, BridgeTypes
<1>4. BridgeTypes'
  BY <1>0, <1>1, <1>2, <1>3 DEF BridgeTypes
<1>5. BootstrapOK'
  BY <1>0, <1>1 DEF BootstrapOK, InBootstrap, Same
<1>6. ASSUME NEW u \in Threads PROVE ThreadOK(u)'
  <2>1. CASE u = t
    BY <1>0, <1>1, <2>1 DEF ThreadOK, CallFits, Entitled, Knows, Makes, OnMutex, OnCond, Asleep
  <2>2. CASE u # t
    BY <1>1, <2>2, OthersKeep DEF BridgeInv, ThreadOK, Makes
  <2> QED BY <2>1, <2>2
<1>7. ASSUME NEW m \in Mutexes PROVE HostOK(m)'
  BY <1>1, <1>7 DEF BridgeInv, HostOK, Hosted
<1>8. HeldUsable' /\ HeldIsOwned'
  BY <1>1 DEF BridgeInv, HeldUsable, HeldIsOwned
<1>9. Accounted'
  BY <1>0, <1>1 DEF BridgeInv, Accounted, Same
<1>10. CondsOK'
  <2>1. \A u \in Threads : Fresh(u)' =>
          u # t /\ Fresh(u) /\ ptr'[u] = ptr[u] /\ ptr[u] # a
    BY <1>0, <1>1, <1>2 DEF CondsOK, Fresh, Same
  <2>2. \A d \in Conds : cond'[d] # None =>
          heap'[cond'[d]].type = "cond" /\ \A e \in Conds : cond'[e] = cond'[d] => e = d
    BY <1>0, <1>1, <1>2, <1>3 DEF CondsOK
  <2>3. ASSUME NEW u \in Threads, Fresh(u)'
        PROVE  /\ ptr'[u] \in Addrs /\ heap'[ptr'[u]].type = "cond"
               /\ \A d \in Conds : cond'[d] # ptr'[u]
               /\ \A v \in Threads : Fresh(v)' /\ ptr'[v] = ptr'[u] => v = u
    BY <1>0, <1>1, <1>3, <2>1, <2>3 DEF CondsOK
  <2> QED BY <2>2, <2>3 DEF CondsOK
<1> QED BY <1>4, <1>5, <1>6, <1>7, <1>8, <1>9, <1>10 DEF BridgeInv

-----------------------------------------------------------------------------
(* Initialising and destroying.                                              *)

LEMMA InitMutexInv ==
  ASSUME BridgeInv, NEW m \in Mutexes, InitMutex(m)
  PROVE  BridgeInv'
<1>0. BridgeTypes /\ CondsOK
  BY DEF BridgeInv
<1>1. PICK a \in Unused, k \in Kinds :
        /\ heap' = [heap EXCEPT ![a] = HostMutex(k, None, 0)]
        /\ word' = [word EXCEPT ![m] = a]
  BY DEF InitMutex
<1>2. /\ ~usable[m] /\ a \in Addrs
      /\ heap[a].type # "raw" /\ heap[a].type # "mutex"
      /\ \A c \in Conds : cond[c] # None => cond[c] # a
      /\ \A u \in Threads : Fresh(u) => ptr[u] # a
  BY <1>0, UnusedIs DEF InitMutex
<1>3. /\ usable' = [usable EXCEPT ![m] = TRUE]
      /\ UNCHANGED <<cond, bootstrap, pc, call, ptr, held>>
      /\ \A u \in Threads : Same(u)
  BY DEF InitMutex, thread, Same
<1>4. /\ usable'[m] /\ word'[m] = a /\ heap'[a] = HostMutex(k, None, 0)
      /\ \A n \in Mutexes : n # m => word'[n] = word[n] /\ usable'[n] = usable[n]
      /\ \A b \in Addrs : b # a => heap'[b] = heap[b]
  BY <1>0, <1>1, <1>2, <1>3 DEF BridgeTypes
<1>5. heap'[a].type = "mutex" /\ heap'[a].owner = None /\ heap'[a].depth = 0
  BY <1>4 DEF HostMutex, Cell
<1>6. ASSUME NEW n \in Mutexes, Hosted(n)
      PROVE  n # m /\ word[n] \in Addrs /\ word[n] # a
  BY <1>2, <1>6 DEF BridgeInv, HostOK, Hosted
<1>7. BridgeTypes'
  BY <1>0, <1>1, <1>2, <1>3, BridgeAssumption DEF BridgeTypes, Heap, HostMutex, Cell
<1>8. BootstrapOK'
  BY <1>3 DEF BridgeInv, BootstrapOK
<1>9. ASSUME NEW u \in Threads PROVE ThreadOK(u)'
  <2>1. ThreadOK(u) BY DEF BridgeInv
  <2>2. pc[u] # "game" /\ call[u].op \notin Signalling => call[u].m # m /\ call[u].m \in Mutexes
    BY <1>2, <2>1 DEF ThreadOK, Entitled, CallFits
  <2>3. pc[u] \in {"create", "store"} => ptr[u] \in Addrs /\ ptr[u] # a
    <3>1. CASE pc[u] = "create" BY <1>2, <2>1, <3>1 DEF ThreadOK, Makes, Raw, Cell
    <3>2. CASE pc[u] = "store" BY <1>2, <2>1, <3>2 DEF ThreadOK, Makes, HostMutex, Cell
    <3> QED BY <3>1, <3>2
  <2>4. pc[u] = "store" => \A n \in Mutexes : usable'[n] => word'[n] # ptr[u]
    BY <1>4, <2>1, <2>3 DEF ThreadOK, Makes
  <2> QED BY <1>3, <1>4, <2>1, <2>2, <2>3, <2>4, OthersKeep
<1>10. ASSUME NEW n \in Mutexes PROVE HostOK(n)'
  <2>1. CASE n = m BY <1>4, <1>5, <1>6, <2>1 DEF HostOK, Hosted
  <2>2. CASE n # m BY <1>3, <1>4, <1>6, <2>2 DEF BridgeInv, HostOK, Hosted
  <2> QED BY <2>1, <2>2
<1>11. HeldUsable' /\ HeldIsOwned'
  BY <1>2, <1>3, <1>4, <1>6 DEF BridgeInv, HeldUsable, HeldIsOwned, Hosted
<1>12. Accounted'
  BY <1>2, <1>3, <1>4 DEF BridgeInv, Accounted
<1>13. CondsOK'
  <2>1. \A c \in Conds : cond[c] # None => heap'[cond[c]] = heap[cond[c]]
    BY <1>0, <1>2, <1>4 DEF CondsOK, BridgeTypes
  <2>2. \A u \in Threads : Fresh(u) => heap'[ptr[u]] = heap[ptr[u]]
    BY <1>0, <1>2, <1>4 DEF CondsOK
  <2> QED BY <1>0, <1>3, <2>1, <2>2 DEF CondsOK, Fresh
<1> QED BY <1>7, <1>8, <1>9, <1>10, <1>11, <1>12, <1>13 DEF BridgeInv

LEMMA DestroyMutexInv ==
  ASSUME BridgeInv, NEW m \in Mutexes, DestroyMutex(m)
  PROVE  BridgeInv'
<1>0. BridgeTypes /\ CondsOK
  BY DEF BridgeInv
<1>1. /\ usable[m] /\ \A t \in Threads : ~(held[t][m] > 0) /\ call[t].m # m
      /\ heap' = [a \in Addrs |-> IF a = word[m] THEN Free ELSE heap[a]]
      /\ word' = [word EXCEPT ![m] = "normal"]
      /\ usable' = [usable EXCEPT ![m] = FALSE]
      /\ UNCHANGED <<cond, bootstrap, pc, call, ptr, held>>
      /\ \A u \in Threads : Same(u)
  BY DEF DestroyMutex, InUse, thread, Same
<1>2. /\ ~usable'[m]
      /\ \A n \in Mutexes : n # m => word'[n] = word[n] /\ usable'[n] = usable[n]
      /\ \A b \in Addrs : b # word[m] => heap'[b] = heap[b]
      /\ word[m] \in Addrs => heap'[word[m]].type = "free" /\ heap[word[m]].type = "mutex"
  BY <1>0, <1>1 DEF BridgeTypes, BridgeInv, HostOK, Hosted, Free, Cell
<1>3. ASSUME NEW n \in Mutexes, n # m, Hosted(n)
      PROVE  word[n] \in Addrs /\ word[n] # word[m]
  BY <1>1, <1>3 DEF BridgeInv, HostOK, Hosted
<1>4. BridgeTypes'
  BY <1>0, <1>1, BridgeAssumption DEF BridgeTypes, Heap, Free, Cell, Kinds
<1>5. BootstrapOK'
  BY <1>1 DEF BridgeInv, BootstrapOK
<1>6. ASSUME NEW u \in Threads PROVE ThreadOK(u)'
  <2>1. ThreadOK(u) BY DEF BridgeInv
  <2>2. pc[u] # "game" => call[u].m # m /\ call[u].m \in Mutexes
    BY <1>1, <2>1 DEF ThreadOK, CallFits
  <2>3. pc[u] \in {"create", "store"} => ptr[u] \in Addrs /\ ptr[u] # word[m]
    <3>1. CASE pc[u] = "create" BY <1>2, <2>1, <3>1 DEF ThreadOK, Makes, Raw, Cell
    <3>2. CASE pc[u] = "store" BY <1>1, <2>1, <3>2 DEF ThreadOK, Makes
    <3> QED BY <3>1, <3>2
  <2>4. pc[u] = "store" => \A n \in Mutexes : usable'[n] => word'[n] # ptr[u]
    BY <1>2, <2>1 DEF ThreadOK, Makes
  <2> QED BY <1>1, <1>2, <2>1, <2>2, <2>3, <2>4, OthersKeep
<1>7. ASSUME NEW n \in Mutexes PROVE HostOK(n)'
  <2>1. CASE n = m BY <1>2, <2>1 DEF HostOK, Hosted
  <2>2. CASE n # m BY <1>1, <1>2, <1>3, <2>2 DEF BridgeInv, HostOK, Hosted
  <2> QED BY <2>1, <2>2
<1>8. HeldUsable' /\ HeldIsOwned'
  BY <1>1, <1>2, <1>3 DEF BridgeInv, HeldUsable, HeldIsOwned, Hosted
<1>9. Accounted'
  BY <1>1, <1>2 DEF BridgeInv, Accounted
<1>10. CondsOK'
  <2>1. \A c \in Conds : cond[c] # None => heap'[cond[c]] = heap[cond[c]]
    BY <1>0, <1>2 DEF CondsOK, BridgeTypes
  <2>2. \A u \in Threads : Fresh(u) => heap'[ptr[u]] = heap[ptr[u]]
    BY <1>0, <1>2 DEF CondsOK
  <2> QED BY <1>0, <1>1, <2>1, <2>2 DEF CondsOK, Fresh
<1> QED BY <1>4, <1>5, <1>6, <1>7, <1>8, <1>9, <1>10 DEF BridgeInv

LEMMA DestroyCondInv ==
  ASSUME BridgeInv, NEW c \in Conds, DestroyCond(c)
  PROVE  BridgeInv'
<1>0. BridgeTypes /\ CondsOK
  BY DEF BridgeInv
<1> DEFINE a == cond[c]
<1>1. /\ a # None /\ \A t \in Threads : call[t].c # c
      /\ heap' = [heap EXCEPT ![a] = Free]
      /\ cond' = [cond EXCEPT ![c] = None]
      /\ UNCHANGED <<word, usable, bootstrap, pc, call, ptr, held>>
      /\ \A u \in Threads : Same(u)
  BY DEF DestroyCond, thread, Same
<1>2. /\ a \in Addrs /\ heap[a].type = "cond" /\ heap'[a] = Free /\ heap'[a].type = "free"
      /\ \A b \in Addrs : b # a => heap'[b] = heap[b]
      /\ cond'[c] = None /\ \A d \in Conds : d # c => cond'[d] = cond[d]
  BY <1>0, <1>1 DEF BridgeTypes, CondsOK, Free, Cell
<1>3. ASSUME NEW n \in Mutexes, Hosted(n)
      PROVE  word[n] \in Addrs /\ word[n] # a
  BY <1>2, <1>3 DEF BridgeInv, HostOK, Hosted
<1>4. BridgeTypes'
  BY <1>0, <1>1, BridgeAssumption DEF BridgeTypes, Heap, Free, Cell, Kinds
<1>5. BootstrapOK'
  BY <1>1 DEF BridgeInv, BootstrapOK
<1>6. ASSUME NEW u \in Threads PROVE ThreadOK(u)'
  <2>1. ThreadOK(u) BY DEF BridgeInv
  <2>2. pc[u] \in {"create", "store"} => ptr[u] \in Addrs /\ ptr[u] # a
    <3>1. CASE pc[u] = "create" BY <1>2, <2>1, <3>1 DEF ThreadOK, Makes, Raw, Cell
    <3>2. CASE pc[u] = "store" BY <1>2, <2>1, <3>2 DEF ThreadOK, Makes, HostMutex, Cell
    <3> QED BY <3>1, <3>2
  <2> QED BY <1>1, <1>2, <2>1, <2>2, OthersKeep DEF ThreadOK, Makes
<1>7. ASSUME NEW n \in Mutexes PROVE HostOK(n)'
  BY <1>1, <1>2, <1>3, <1>7 DEF BridgeInv, HostOK, Hosted
<1>8. HeldUsable' /\ HeldIsOwned'
  BY <1>1, <1>2, <1>3 DEF BridgeInv, HeldUsable, HeldIsOwned, Hosted
<1>9. Accounted'
  BY <1>1, <1>2 DEF BridgeInv, Accounted
<1>10. CondsOK'
  <2>1. \A u \in Threads : Fresh(u) => heap'[ptr[u]] = heap[ptr[u]]
    BY <1>0, <1>2 DEF CondsOK
  <2>2. \A d \in Conds : cond'[d] # None => d # c /\ cond[d] \in Addrs /\ cond[d] # a
    BY <1>0, <1>1, <1>2 DEF CondsOK, BridgeTypes
  <2>3. \A d \in Conds : cond'[d] # None =>
          heap'[cond'[d]].type = "cond" /\ \A e \in Conds : cond'[e] = cond'[d] => e = d
    BY <1>0, <1>2, <2>2 DEF CondsOK
  <2>4. \A u \in Threads : Fresh(u) => \A d \in Conds : cond'[d] # ptr[u]
    BY <1>0, <1>2, BridgeAssumption DEF CondsOK
  <2> QED BY <1>0, <1>1, <2>1, <2>3, <2>4 DEF CondsOK, Fresh
<1> QED BY <1>4, <1>5, <1>6, <1>7, <1>8, <1>9, <1>10 DEF BridgeInv

-----------------------------------------------------------------------------
(* Locking and unlocking.                                                    *)

\* Thread t goes to depth n of mutex m, which is free or its own.
Holds(t, m, n) ==
  /\ m \in Mutexes /\ n \in 0..MaxDepth /\ Hosted(m)
  /\ heap[word[m]].owner \in {None, t}
  /\ heap' = [heap EXCEPT ![word[m]] =
                HostMutex(heap[word[m]].kind, IF n = 0 THEN None ELSE t, n)]
  /\ Hold(t, m, n)
  /\ UNCHANGED <<word, cond, usable>>

LEMMA HoldStep ==
  ASSUME BridgeInv, NEW t \in Threads, NEW m, NEW n, Holds(t, m, n),
         \A u \in Threads : u # t => Same(u),
         pc[t] \notin {"create", "store"}, pc'[t] \notin {"create", "store"}, ~Fresh(t)',
         pc' \in [Threads -> Labels], ptr' \in [Threads -> Addrs \cup {None}],
         call' = call \/ call' = [call EXCEPT ![t] = Idle],
         bootstrap' = bootstrap, BootstrapOK',
         CallFits(t)', Entitled(t)', Knows(t)'
  PROVE  BridgeInv'
<1>0. BridgeTypes /\ CondsOK
  BY DEF BridgeInv
<1> DEFINE a == word[m]
           o == IF n = 0 THEN None ELSE t
<1>1. /\ m \in Mutexes /\ n \in 0..MaxDepth /\ n \in Nat /\ a \in Addrs /\ usable[m]
      /\ heap[a].type = "mutex" /\ heap[a].kind \in Kinds
      /\ \A k \in Mutexes : k # m /\ Hosted(k) => word[k] \in Addrs /\ word[k] # a
  BY <1>0, BridgeAssumption DEF Holds, BridgeInv, HostOK, Hosted, BridgeTypes, Heap
<1>2. /\ heap' = [heap EXCEPT ![a] = HostMutex(heap[a].kind, o, n)]
      /\ heap'[a] = HostMutex(heap[a].kind, o, n)
      /\ \A b \in Addrs : b # a => heap'[b] = heap[b]
  BY <1>0, <1>1 DEF Holds, BridgeTypes
<1>3. /\ heap'[a].type = "mutex" /\ heap'[a].owner = o /\ heap'[a].depth = n
  BY <1>2 DEF HostMutex, Cell
<1>4. /\ held' \in [Threads -> [Mutexes -> 0..MaxDepth]]
      /\ held'[t][m] = n
      /\ \A k \in Mutexes : k # m => held'[t][k] = held[t][k]
      /\ \A u \in Threads : u # t => held'[u] = held[u]
  BY <1>0, <1>1 DEF Holds, Hold, BridgeTypes
\* Nobody else has it.
<1>5. ASSUME NEW u \in Threads, u # t PROVE held[u][m] = 0
  <2>1. held[u][m] \in Nat
    BY <1>0, <1>1, BridgeAssumption DEF BridgeTypes
  <2>2. held[u][m] > 0 => heap[a].owner = u
    BY <1>1 DEF BridgeInv, HeldIsOwned
  <2>3. heap[a].owner \in {None, t} /\ None \notin Threads
    BY BridgeAssumption DEF Holds
  <2> QED BY <1>5, <2>1, <2>2, <2>3
<1>6. UNCHANGED <<word, cond, usable>>
  BY DEF Holds
<1>7. BridgeTypes'
  <2>1. heap' \in [Addrs -> Heap]
    BY <1>0, <1>1, <1>2 DEF BridgeTypes, Heap, HostMutex, Cell
  <2>2. call' \in [Threads -> [op : Ops, m : Mutexes \cup {None}, c : Conds \cup {None},
                               due : SUBSET Threads]]
    BY SMTT(40), <1>0 DEF BridgeTypes, Idle, Ops
  <2> QED BY <1>0, <1>4, <1>6, <2>1, <2>2 DEF BridgeTypes
<1>8. ASSUME NEW u \in Threads PROVE ThreadOK(u)'
  <2>1. CASE u = t
    BY <2>1 DEF ThreadOK, Makes
  <2>2. CASE u # t
    <3>1. ThreadOK(u) BY DEF BridgeInv
    <3>2. pc[u] \in {"create", "store"} => ptr[u] \in Addrs /\ ptr[u] # a
      <4>1. CASE pc[u] = "create" BY <1>1, <3>1, <4>1 DEF ThreadOK, Makes, Raw, Cell
      <4>2. CASE pc[u] = "store" BY <1>1, <3>1, <4>2 DEF ThreadOK, Makes
      <4> QED BY <4>1, <4>2
    <3> QED BY <1>2, <1>4, <1>6, <2>2, <3>1, <3>2, OthersKeep DEF ThreadOK, Makes
  <2> QED BY <2>1, <2>2
<1>9. ASSUME NEW k \in Mutexes PROVE HostOK(k)'
  <2>1. HostOK(k) BY DEF BridgeInv
  <2>2. CASE k = m
    BY <1>1, <1>3, <1>4, <1>6, <2>1, <2>2, BridgeAssumption DEF HostOK, Hosted
  <2>3. CASE k # m
    <3>1. ASSUME Hosted(k), heap[word[k]].owner # None
          PROVE  heap[word[k]].owner \in Threads
      BY <1>0, <3>1 DEF Hosted, BridgeTypes, Heap
    <3>2. Hosted(k) =>
            /\ heap'[word[k]] = heap[word[k]]
            /\ heap[word[k]].owner # None =>
                 held'[heap[word[k]].owner][k] = held[heap[word[k]].owner][k]
      BY <1>1, <1>2, <1>4, <2>3, <3>1
    <3> QED BY <1>6, <2>1, <3>2 DEF HostOK, Hosted
  <2> QED BY <2>2, <2>3
<1>10. HeldUsable'
  BY <1>0, <1>1, <1>4, <1>6 DEF BridgeInv, HeldUsable, BridgeTypes
<1>11. HeldIsOwned'
  <2>1. ASSUME NEW u \in Threads, NEW k \in Mutexes, held'[u][k] > 0
        PROVE  /\ word'[k] \in Addrs /\ heap'[word'[k]].type = "mutex"
               /\ heap'[word'[k]].owner = u /\ heap'[word'[k]].depth = held'[u][k]
    <3>1. CASE k = m
      <4>1. u = t BY <1>4, <1>5, <2>1, <3>1
      <4> QED BY <1>1, <1>3, <1>4, <1>6, <2>1, <3>1, <4>1
    <3>2. CASE k # m
      <4>1. held[u][k] > 0 /\ held'[u][k] = held[u][k] BY <1>4, <2>1, <3>2
      <4>2. Hosted(k) /\ word[k] # a
        BY <1>1, <3>2, <4>1 DEF BridgeInv, HeldIsOwned, HeldUsable, Hosted
      <4> QED BY <1>2, <1>6, <4>1, <4>2 DEF BridgeInv, HeldIsOwned, Hosted
    <3> QED BY <3>1, <3>2
  <2> QED BY <2>1 DEF HeldIsOwned
<1>12. Accounted'
  <2>1. \A b \in Addrs : heap'[b].type = heap[b].type
    BY <1>1, <1>2, <1>3
  <2> QED BY <1>6, <2>1 DEF BridgeInv, Accounted, Same
<1>13. CondsOK'
  <2>1. \A c \in Conds : cond[c] # None => heap'[cond[c]] = heap[cond[c]]
    BY <1>0, <1>1, <1>2 DEF CondsOK, BridgeTypes
  <2>2. \A u \in Threads : Fresh(u) => heap'[ptr[u]] = heap[ptr[u]]
    BY <1>0, <1>1, <1>2 DEF CondsOK
  <2> QED BY <1>0, <1>6, <2>1, <2>2 DEF CondsOK, Fresh, Same
<1> QED BY <1>7, <1>8, <1>9, <1>10, <1>11, <1>12, <1>13 DEF BridgeInv

\* A host mutex is its four fields.
LEMMA CellIs ==
  ASSUME NEW x \in Heap, x.type = "mutex",
         NEW o \in Threads \cup {None}, NEW n \in 0..MaxDepth
  PROVE  /\ [x EXCEPT !.owner = o, !.depth = n] = HostMutex(x.kind, o, n)
         /\ [x EXCEPT !.depth = n, !.owner = o] = HostMutex(x.kind, o, n)
<1>1. ASSUME NEW y, y = [x EXCEPT !.owner = o, !.depth = n]
                     \/ y = [x EXCEPT !.depth = n, !.owner = o]
      PROVE  y = HostMutex(x.kind, o, n)
  <2>1. /\ y \in Heap
        /\ y.type = "mutex" /\ y.kind = x.kind /\ y.owner = o /\ y.depth = n
    <3>1. CASE y = [x EXCEPT !.owner = o, !.depth = n] BY <3>1 DEF Heap
    <3>2. CASE y = [x EXCEPT !.depth = n, !.owner = o] BY <3>2 DEF Heap
    <3> QED BY <1>1, <3>1, <3>2
  <2> QED BY <2>1 DEF Heap, HostMutex, Cell
<1> QED BY <1>1

\* The mutex a thread holds is hosted, and its owner and depth are as counted.
LEMMA HeldFacts ==
  ASSUME BridgeInv, NEW t \in Threads, NEW m \in Mutexes, held[t][m] > 0
  PROVE  /\ Hosted(m) /\ heap[word[m]].type = "mutex" /\ heap[word[m]] \in Heap
         /\ heap[word[m]].owner = t /\ heap[word[m]].depth = held[t][m]
         /\ held[t][m] \in 1..MaxDepth
BY BridgeAssumption DEF BridgeInv, HeldUsable, HeldIsOwned, Hosted, BridgeTypes

LEMMA LockHolds ==
  ASSUME BridgeInv, NEW t \in Threads, Lock(t)
  PROVE  /\ Holds(t, call[t].m, held[t][call[t].m] + 1)
         /\ Lockable(word[call[t].m], t) /\ heap[word[call[t].m]].depth = held[t][call[t].m]
         /\ held[t][call[t].m] \in Nat
<1> DEFINE m == call[t].m
           a == word[m]
<1>0. BridgeTypes /\ ThreadOK(t) BY DEF BridgeInv
<1>1. /\ m \in Mutexes /\ usable[m] /\ a \in Addrs /\ ptr[t] = a /\ Hosted(m)
      /\ held[t][m] < MaxDepth
  BY <1>0 DEF Lock, ThreadOK, CallFits, Entitled, Knows, Signalling, Hosted
<1>2. held[t][m] \in 0..MaxDepth /\ held[t][m] + 1 \in 0..MaxDepth
  BY <1>0, <1>1, BridgeAssumption DEF BridgeTypes
<1>3. heap[a] \in Heap /\ heap[a].type = "mutex" /\ HostOK(m)
  BY <1>0, <1>1 DEF BridgeInv, HostOK, BridgeTypes
<1>4. heap[a].owner \in {None, t}
  BY <1>1 DEF Lock, Lockable
<1>5. heap[a].depth = held[t][m]
  <2>1. CASE heap[a].owner = t
    BY <1>1, <1>3, <2>1, BridgeAssumption DEF HostOK
  <2>2. CASE heap[a].owner = None
    <3>1. ~(held[t][m] > 0)
      BY <1>1, <2>2, HeldFacts, BridgeAssumption
    <3> QED BY <1>1, <1>2, <1>3, <2>2, <3>1 DEF HostOK
  <2> QED BY <1>4, <2>1, <2>2
<1>6. heap' = [heap EXCEPT ![a] = HostMutex(heap[a].kind, t, held[t][m] + 1)]
  <2>1. heap' = [heap EXCEPT ![a] = [heap[a] EXCEPT !.owner = t, !.depth = heap[a].depth + 1]]
    BY <1>0, <1>1, <1>3 DEF Lock, BridgeTypes, Heap
  <2>2. [heap[a] EXCEPT !.owner = t, !.depth = held[t][m] + 1] = HostMutex(heap[a].kind, t, held[t][m] + 1)
    BY <1>2, <1>3, CellIs
  <2> QED BY <1>5, <2>1, <2>2
<1>7. /\ Hold(t, m, held[t][m] + 1) /\ UNCHANGED <<word, cond, usable>>
      /\ held[t][m] + 1 # 0
  BY <1>2 DEF Lock
<1>8. Lockable(a, t) /\ held[t][m] \in Nat
  BY <1>1, <1>2, BridgeAssumption DEF Lock
<1> QED BY <1>1, <1>2, <1>4, <1>5, <1>6, <1>7, <1>8 DEF Holds

LEMMA UnlockHolds ==
  ASSUME BridgeInv, NEW t \in Threads, Unlock(t)
  PROVE  held[t][call[t].m] > 0 /\ Holds(t, call[t].m, held[t][call[t].m] - 1)
<1> DEFINE m == call[t].m
           a == word[m]
           n == held[t][m] - 1
           o == IF n = 0 THEN None ELSE t
<1>0. BridgeTypes /\ ThreadOK(t) BY DEF BridgeInv
<1>1. m \in Mutexes /\ held[t][m] > 0 /\ ptr[t] = a
  BY <1>0 DEF Unlock, ThreadOK, CallFits, Entitled, Knows
<1>2. /\ Hosted(m) /\ heap[a].type = "mutex" /\ heap[a] \in Heap /\ heap[a].owner = t
      /\ heap[a].depth = held[t][m] /\ held[t][m] \in 1..MaxDepth /\ n \in 0..MaxDepth
      /\ o \in Threads \cup {None}
  BY <1>1, HeldFacts, BridgeAssumption
<1>3. heap' = [heap EXCEPT ![a] = HostMutex(heap[a].kind, o, n)]
  <2>1. heap' = [heap EXCEPT ![a] =
                   [heap[a] EXCEPT !.depth = heap[a].depth - 1,
                                   !.owner = IF heap[a].depth = 1 THEN None ELSE heap[a].owner]]
    BY <1>0, <1>1, <1>2 DEF Unlock, BridgeTypes, Heap
  <2>2. heap[a].depth - 1 = n /\ (IF heap[a].depth = 1 THEN None ELSE heap[a].owner) = o
    BY <1>2
  <2>3. [heap[a] EXCEPT !.depth = n, !.owner = o] = HostMutex(heap[a].kind, o, n)
    <3>1. heap[a] \in Heap /\ heap[a].type = "mutex" /\ n \in 0..MaxDepth /\ o \in Threads \cup {None}
      BY <1>2
    <3> HIDE DEF n, o, a
    <3> QED BY <3>1, CellIs
  <2> QED BY <2>1, <2>2, <2>3
<1>4. Hold(t, m, n) /\ UNCHANGED <<word, cond, usable>>
  BY DEF Unlock
<1> QED BY <1>1, <1>2, <1>3, <1>4 DEF Holds

LEMMA WaitHolds ==
  ASSUME BridgeInv, NEW t \in Threads, Wait(t)
  PROVE  held[t][call[t].m] = 1 /\ call[t].m \in Mutexes /\ Holds(t, call[t].m, 0)
<1> DEFINE m == call[t].m
           a == word[m]
<1>0. BridgeTypes /\ ThreadOK(t) BY DEF BridgeInv
<1>1. m \in Mutexes /\ held[t][m] = 1
  BY <1>0 DEF Wait, ThreadOK, CallFits, Entitled, OnCond
<1>2. /\ Hosted(m) /\ heap[a].type = "mutex" /\ heap[a] \in Heap /\ heap[a].owner = t
  BY <1>1, HeldFacts
<1>3. heap' = [heap EXCEPT ![a] = HostMutex(heap[a].kind, None, 0)]
  <2>1. heap' = [heap EXCEPT ![a] = [heap[a] EXCEPT !.owner = None, !.depth = 0]]
    BY <1>0, <1>1, <1>2 DEF Wait, BridgeTypes, Heap
  <2>2. [heap[a] EXCEPT !.owner = None, !.depth = 0] = HostMutex(heap[a].kind, None, 0)
    <3>1. 0 \in 0..MaxDepth /\ None \in Threads \cup {None} BY BridgeAssumption
    <3> QED BY <1>2, <3>1, CellIs
  <2> QED BY <2>1, <2>2
<1>4. Hold(t, m, 0) /\ UNCHANGED <<word, cond, usable>>
  BY DEF Wait
<1> QED BY <1>1, <1>2, <1>3, <1>4, BridgeAssumption DEF Holds

LEMMA RelockHolds ==
  ASSUME BridgeInv, NEW t \in Threads, Relock(t)
  PROVE  /\ Holds(t, call[t].m, 1) /\ heap[word[call[t].m]].owner = None
<1> DEFINE m == call[t].m
           a == word[m]
<1>0. BridgeTypes /\ ThreadOK(t) BY DEF BridgeInv
<1>1. m \in Mutexes /\ a \in Addrs /\ Hosted(m)
  BY <1>0 DEF Relock, ThreadOK, CallFits, Entitled, Knows, Asleep, Signalling, Hosted
<1>2. /\ heap[a].type = "mutex" /\ heap[a] \in Heap /\ heap[a].owner = None
  BY <1>0, <1>1 DEF BridgeInv, HostOK, BridgeTypes, Relock
<1>3. heap' = [heap EXCEPT ![a] = HostMutex(heap[a].kind, t, 1)]
  <2>1. heap' = [heap EXCEPT ![a] = [heap[a] EXCEPT !.owner = t, !.depth = 1]]
    BY <1>0, <1>1, <1>2 DEF Relock, BridgeTypes, Heap
  <2>2. [heap[a] EXCEPT !.owner = t, !.depth = 1] = HostMutex(heap[a].kind, t, 1)
    <3>1. 1 \in 0..MaxDepth /\ t \in Threads \cup {None} BY BridgeAssumption
    <3>2. heap[a].type = "mutex" /\ heap[a] \in Heap BY <1>2
    <3>3. \A n \in 0..MaxDepth :
            [heap[a] EXCEPT !.owner = t, !.depth = n] = HostMutex(heap[a].kind, t, n)
      BY <3>1, <3>2, CellIs
    <3> QED BY <3>1, <3>3
  <2> QED BY <2>1, <2>2
<1>4. Hold(t, m, 1) /\ UNCHANGED <<word, cond, usable>>
  BY DEF Relock
<1> QED BY <1>1, <1>2, <1>3, <1>4, BridgeAssumption DEF Holds

LEMMA HoldInv ==
  ASSUME BridgeInv, NEW t \in Threads, Lock(t) \/ Unlock(t) \/ Wait(t) \/ Relock(t)
  PROVE  BridgeInv'
<1>0. BridgeTypes /\ BootstrapOK /\ ThreadOK(t) BY DEF BridgeInv
<1>1. \E n : Holds(t, call[t].m, n)
  BY LockHolds, UnlockHolds, WaitHolds, RelockHolds
<1>2. CASE Lock(t) \/ Unlock(t) \/ Relock(t)
  <2>1. /\ pc[t] \in {"use", "wake"} /\ Return(t) /\ UNCHANGED bootstrap
    BY <1>2 DEF Lock, Unlock, Relock
  <2>2. /\ pc'[t] = "game" /\ call'[t] = Idle
        /\ pc' \in [Threads -> Labels] /\ ptr' \in [Threads -> Addrs \cup {None}]
        /\ call' = [call EXCEPT ![t] = Idle]
        /\ \A u \in Threads : u # t => Same(u)
    BY <1>0, <2>1 DEF Return, BridgeTypes, Labels, Same
  <2>3. BootstrapOK'
    BY <1>0, <2>1, <2>2 DEF BootstrapOK, InBootstrap, Same
  <2>4. CallFits(t)' /\ Entitled(t)' /\ Knows(t)'
    BY <2>2 DEF CallFits, Entitled, Knows, OnMutex, OnCond, Asleep
  <2>5. ~Fresh(t)' BY <2>2 DEF Fresh
  <2> QED BY <1>1, <2>1, <2>2, <2>3, <2>4, <2>5, HoldStep
<1>3. CASE Wait(t)
  <2>1. /\ pc[t] = "cuse" /\ pc' = [pc EXCEPT ![t] = "blocked"] /\ call[t].op \in {"wait", "timedwait"}
        /\ ptr' = [ptr EXCEPT ![t] = cond[call[t].c]] /\ UNCHANGED <<bootstrap, call>>
    BY <1>3 DEF Wait, Goto, Point
  <2>2. call[t].c \in Conds /\ call[t].m \in Mutexes /\ held[t][call[t].m] = 1
    BY <1>0, <2>1 DEF ThreadOK, CallFits, Entitled, OnCond
  <2>3. /\ pc'[t] = "blocked" /\ pc' \in [Threads -> Labels]
        /\ ptr' \in [Threads -> Addrs \cup {None}]
        /\ \A u \in Threads : u # t => Same(u)
    BY <1>0, <2>1, <2>2 DEF BridgeTypes, Labels, Same
  <2>4. BootstrapOK'
    BY <1>0, <2>1, <2>3 DEF BootstrapOK, InBootstrap, Same
  <2>5. word[call[t].m] \in Addrs /\ UNCHANGED <<word, usable>>
    BY <1>3, <2>2, HeldFacts DEF Hosted, Wait
  <2>6. CallFits(t)' /\ Entitled(t)' /\ Knows(t)'
    BY <1>0, <2>1, <2>2, <2>3, <2>5 DEF ThreadOK, CallFits, Entitled, Knows, OnMutex, OnCond, Asleep, Signalling
  <2>7. ~Fresh(t)' BY <2>3 DEF Fresh
  <2> QED BY <1>1, <2>1, <2>3, <2>4, <2>6, <2>7, HoldStep
<1> QED BY <1>2, <1>3

LEMMA SignalInv ==
  ASSUME BridgeInv, NEW t \in Threads, Signal(t)
  PROVE  BridgeInv'
<1>0. BridgeTypes /\ BootstrapOK /\ CondsOK BY DEF BridgeInv
<1>1. /\ pc[t] = "cuse" /\ call' = [call EXCEPT ![t] = Idle] /\ ptr' = [ptr EXCEPT ![t] = None]
      /\ UNCHANGED <<words, bootstrap, held, usable>>
  BY DEF Signal
<1>2. PICK woken \in SUBSET Sleepers(cond[call[t].c]) :
        pc' = [u \in Threads |-> IF u = t THEN "game" ELSE IF u \in woken THEN "wake" ELSE pc[u]]
  BY DEF Signal
<1>3. /\ pc'[t] = "game" /\ call'[t] = Idle /\ pc' \in [Threads -> Labels]
      /\ \A u \in Threads : u # t =>
           /\ call'[u] = call[u] /\ ptr'[u] = ptr[u]
           /\ pc'[u] = pc[u] \/ (pc[u] = "blocked" /\ pc'[u] = "wake")
  BY <1>0, <1>1, <1>2 DEF BridgeTypes, Labels, Sleepers
<1>4. BridgeTypes'
  BY <1>0, <1>1, <1>3 DEF BridgeTypes, Idle, Ops, words
<1>5. BootstrapOK'
  BY <1>0, <1>1, <1>3 DEF BootstrapOK, InBootstrap
<1>6. ASSUME NEW u \in Threads PROVE ThreadOK(u)'
  <2>0. ThreadOK(u) BY DEF BridgeInv
  <2>1. CASE u = t
    BY <1>3, <2>1 DEF ThreadOK, CallFits, Entitled, Knows, Makes, OnMutex, OnCond, Asleep
  <2>2. CASE u # t /\ pc'[u] = pc[u]
    BY <1>1, <1>3, <2>0, <2>2, OthersKeep DEF Same, words, ThreadOK, Makes
  <2>3. CASE u # t /\ pc[u] = "blocked" /\ pc'[u] = "wake"
    BY <1>1, <1>3, <2>0, <2>3 DEF ThreadOK, CallFits, Entitled, Knows, Makes, OnMutex, OnCond, Asleep, words
  <2> QED BY <1>3, <2>1, <2>2, <2>3
<1>7. (\A m \in Mutexes : HostOK(m)') /\ HeldUsable' /\ HeldIsOwned'
  BY <1>1, SameHosts DEF BridgeInv
<1>8. Accounted'
  BY <1>1, <1>3 DEF BridgeInv, Accounted, words
<1>9. CondsOK'
  <2>1. \A u \in Threads : Fresh(u)' => Fresh(u) /\ ptr'[u] = ptr[u]
    BY <1>1, <1>3 DEF Fresh
  <2> QED BY <1>0, <1>1, <2>1 DEF CondsOK, words
<1> QED BY <1>4, <1>5, <1>6, <1>7, <1>8, <1>9 DEF BridgeInv

-----------------------------------------------------------------------------
LEMMA InitInv == Init => BridgeInv
<1> SUFFICES ASSUME Init PROVE BridgeInv
  OBVIOUS
<1>1. BridgeTypes
  BY BridgeAssumption DEF Init, BridgeTypes, Heap, Free, Cell, Kinds, Labels, Idle, Ops
<1>2. BootstrapOK
  BY BridgeAssumption DEF Init, BootstrapOK, InBootstrap
<1>3. \A t \in Threads : ThreadOK(t)
  BY DEF Init, ThreadOK, CallFits, Entitled, Knows, Makes, OnMutex, OnCond, Asleep
<1>4. \A m \in Mutexes : HostOK(m)
  BY BridgeAssumption DEF Init, HostOK, Hosted
<1>5. HeldUsable /\ HeldIsOwned
  BY DEF Init, HeldUsable, HeldIsOwned
<1>6. Accounted
  BY DEF Init, Accounted, Free, Cell
<1>7. CondsOK
  BY DEF Init, CondsOK, Fresh
<1> QED BY <1>1, <1>2, <1>3, <1>4, <1>5, <1>6, <1>7 DEF BridgeInv

LEMMA NextInv == BridgeInv /\ [Next]_vars => BridgeInv'
<1> SUFFICES ASSUME BridgeInv, [Next]_vars PROVE BridgeInv'
  OBVIOUS
<1>1. CASE Manage
  BY <1>1, InitMutexInv, DestroyMutexInv, DestroyCondInv DEF Manage
<1>2. ASSUME NEW t \in Threads, Call(t) PROVE BridgeInv'
  BY <1>2, CallMutexInv, CallWaitInv, CallSignalInv DEF Call
<1>3. ASSUME NEW t \in Threads, Resolve(t) PROVE BridgeInv'
  BY <1>3, LoadInv, BootInv, RecheckInv, CreateInv, StoreInv, UnbootInv, ReloadInv DEF Resolve
<1>4. ASSUME NEW t \in Threads, CondResolve(t) PROVE BridgeInv'
  BY <1>4, CondLoadInv, CondNewInv, CondBootInv, CondRecheckInv, CondUnbootInv, PublishInv
     DEF CondResolve
<1>5. ASSUME NEW t \in Threads, Host(t) PROVE BridgeInv'
  BY <1>5, HoldInv, LockFailsInv, SignalInv, TimeoutInv DEF Host
<1>6. CASE UNCHANGED vars
  BY <1>6 DEF vars, core, words, thread, BridgeInv, BridgeTypes, BootstrapOK, ThreadOK, CallFits, Entitled,
     Knows, Makes, HostOK, Hosted, HeldUsable, HeldIsOwned, Accounted, CondsOK, Fresh
<1> QED BY <1>1, <1>2, <1>3, <1>4, <1>5, <1>6 DEF Next

LEMMA InvHolds == Spec => []BridgeInv
BY InitInv, NextInv, PTL DEF Spec

\* The types: no depth passes MaxDepth, no word of the game holds anything but a
\* static initialiser or an address (symtab_pthread.cpp, host_mutex).
THEOREM BridgeTypeCorrect == Spec => []TypeOK
<1>1. BridgeInv /\ raced \subseteq Conds => TypeOK BY DEF BridgeInv, TypeOK
<1>2. Init => raced \subseteq Conds BY DEF Init
<1>3. raced \subseteq Conds /\ [Next]_vars => (raced \subseteq Conds)' BY DEF Next, Watch, vars
<1> QED BY <1>1, <1>2, <1>3, InvHolds, PTL DEF Spec

\* A mutex the game has locked is one live host mutex that the host says is owned by
\* the same thread at the same depth, whoever creates, initialises or destroys others.
THEOREM LockedMutexLives == Spec => []HeldIsOwned
<1>1. BridgeInv => HeldIsOwned BY DEF BridgeInv
<1> QED BY <1>1, InvHolds, PTL

\* However many threads arrive at a fresh word together, the host mutexes are those
\* behind the words and at most one that the thread in g_mutex_bootstrap is making.
THEOREM CreatedOnce == Spec => []OneHostMutex
<1>1. BridgeInv => OneHostMutex
  <2> SUFFICES ASSUME BridgeInv, NEW a \in Addrs, heap[a].type \in {"raw", "mutex"},
                      ~ \E m \in Mutexes : usable[m] /\ word[m] = a
               PROVE  bootstrap # None /\ ptr[bootstrap] = a
    BY DEF OneHostMutex
  <2>1. PICK t \in Threads : pc[t] \in {"create", "store"} /\ ptr[t] = a
    BY DEF BridgeInv, Accounted
  <2>2. bootstrap = t
    BY <2>1 DEF BridgeInv, BootstrapOK, InBootstrap
  <2> QED BY <2>1, <2>2, BridgeAssumption
<1> QED BY <1>1, InvHolds, PTL

-----------------------------------------------------------------------------
(* Signals, and what a race to create a condition variable does to them.      *)

\* Only t moves, except that a signal makes sleepers awake.
MovesAlone(t) ==
  \A u \in Threads : u # t =>
    Same(u) \/ (pc[u] = "blocked" /\ pc'[u] = "wake" /\ call'[u] = call[u] /\ ptr'[u] = ptr[u])

\* The object a thread has in hand stays a condition variable if it was one.
KeepsObjects ==
  \A u \in Threads : ptr[u] \in Addrs /\ heap[ptr[u]].type = "cond" => heap'[ptr[u]].type = "cond"

Remembers == raced \subseteq raced' /\ \A c \in Conds : Racing(c)' => c \in raced'

LEMMA WatchRemembers ==
  ASSUME raced \subseteq Conds, Watch,
         \A c \in Conds : cond'[c] = None => cond[c] = None
  PROVE  Remembers
BY DEF Watch, Remembers

LEMMA UnusedKeeps ==
  ASSUME BridgeTypes, NEW a \in Unused, NEW cell, heap' = [heap EXCEPT ![a] = cell]
  PROVE  KeepsObjects
<1>1. ASSUME NEW u \in Threads, ptr[u] \in Addrs, heap[ptr[u]].type = "cond" PROVE ptr[u] # a
  BY <1>1 DEF Unused, Known, Free, Cell
<1> QED BY <1>1 DEF KeepsObjects, BridgeTypes, Unused

LEMMA OthersFound ==
  ASSUME SleepersFound, NEW t \in Threads, UNCHANGED cond, MovesAlone(t), Found(t)',
         KeepsObjects, Remembers,
         Fresh(t)' => \/ Fresh(t) /\ ptr'[t] = ptr[t]
                      \/ \A u \in Threads : pc[u] = "blocked" => ptr[u] # ptr'[t]
  PROVE  SleepersFound'
<1>1. ASSUME NEW u \in Threads, u # t PROVE Found(u)'
  <2>1. Found(u) /\ call'[u] = call[u] /\ ptr'[u] = ptr[u] /\ (pc'[u] = pc[u] \/ pc'[u] = "wake")
    BY <1>1 DEF MovesAlone, Same, SleepersFound
  <2>2. ASSUME NEW v \in Threads, Fresh(v)', pc[u] = "blocked" PROVE ptr'[v] # ptr[u]
    <3>1. CASE v = t BY <2>1, <2>2, <3>1 DEF Found
    <3>2. CASE v # t
      <4>1. Fresh(v) /\ ptr'[v] = ptr[v] BY <2>2, <3>2 DEF MovesAlone, Same, Fresh
      <4> QED BY <2>1, <2>2, <4>1 DEF Found
    <3> QED BY <3>1, <3>2
  <2>3. pc'[u] = "blocked" => pc[u] = "blocked" BY <2>1
  <2>4. Creating(u, call[u].c)' => Creating(u, call[u].c) BY <2>1 DEF Creating
  <2>5. pc[u] = "blocked" => heap'[ptr[u]].type = "cond" BY <2>1 DEF Found, KeepsObjects
  <2>6. call[u].c \notin raced' => call[u].c \notin raced BY DEF Remembers
  <2>7. pc'[u] \in {"cunboot", "cuse"} => pc[u] \in {"cunboot", "cuse"} BY <2>1
  <2>8. pc'[u] = "blocked" =>
          /\ ptr'[u] \in Addrs /\ heap'[ptr'[u]].type = "cond"
          /\ call'[u].c \notin raced' => ptr'[u] = cond'[call'[u].c]
          /\ \A d \in Conds : cond'[d] = ptr'[u] => d = call'[u].c
          /\ \A v \in Threads : Fresh(v)' => ptr'[v] # ptr'[u]
    BY <2>1, <2>2, <2>3, <2>5, <2>6 DEF Found
  <2>9. /\ Creating(u, call[u].c)' /\ call'[u].c \notin raced' => cond'[call'[u].c] = None
        /\ pc'[u] \in {"cunboot", "cuse"} => cond'[call'[u].c] # None
    BY <2>1, <2>4, <2>6, <2>7 DEF Found
  <2> QED BY <2>8, <2>9 DEF Found
<1> QED BY <1>1 DEF SleepersFound, Remembers

LEMMA CondFound ==
  ASSUME BridgeInv, SleepersFound, NEW t \in Threads, CondResolve(t), Remembers
  PROVE  SleepersFound'
<1>0. BridgeTypes /\ CondsOK /\ ThreadOK(t) /\ Found(t) BY DEF BridgeInv, SleepersFound
<1>1. pc[t] \in OnCond /\ call[t].c \in Conds
  BY <1>0 DEF CondResolve, CondLoad, CondNew, CondStore, CondBoot, CondRecheck, CondPublish,
         CondUnboot, OnCond, ThreadOK, CallFits, Signalling
<1>2. MovesAlone(t) /\ UNCHANGED call
  BY <1>0 DEF CondResolve, CondLoad, CondNew, CondStore, CondBoot, CondRecheck, CondPublish,
              CondUnboot, Goto, Point, BridgeTypes, MovesAlone, Same
<1>3. CASE CondLoad(t) \/ CondNew(t) \/ CondBoot(t) \/ CondRecheck(t) \/ CondUnboot(t)
  <2>1. UNCHANGED cond
    BY <1>3 DEF CondLoad, CondNew, CondBoot, CondRecheck, CondUnboot, words
  <2>2. call[t].c \notin raced' => call[t].c \notin raced BY DEF Remembers
  <2>3. Found(t)'
    <3>1. CASE CondLoad(t)
      <4>1. CASE cond[call[t].c] # None
        <5>1. pc'[t] = "cuse" BY <1>0, <3>1, <4>1 DEF CondLoad, Goto, BridgeTypes
        <5> QED BY <1>2, <2>1, <4>1, <5>1 DEF Found, Creating
      <4>2. CASE cond[call[t].c] = None
        <5>1. pc'[t] \in {"cboot", "cnew"} BY <1>0, <3>1, <4>2 DEF CondLoad, Goto, BridgeTypes
        <5> QED BY <1>2, <2>1, <4>2, <5>1 DEF Found, Creating
      <4> QED BY <4>1, <4>2
    <3>2. CASE CondNew(t) \/ CondBoot(t)
      <4>1. pc[t] \in {"cnew", "cboot"} /\ pc'[t] \in {"cstore", "crecheck"}
        BY <1>0, <3>2 DEF CondNew, CondBoot, Goto, BridgeTypes
      <4> QED BY <1>0, <1>2, <2>1, <2>2, <4>1 DEF Found, Creating
    <3>3. CASE CondRecheck(t)
      <4>1. /\ pc[t] = "crecheck"
            /\ pc'[t] = IF cond[call[t].c] # None THEN "cunboot" ELSE "cpublish"
        BY <1>0, <3>3 DEF CondRecheck, Goto, BridgeTypes
      <4> QED BY <1>2, <2>1, <4>1 DEF Found, Creating
    <3>4. CASE CondUnboot(t)
      <4>1. pc[t] = "cunboot" /\ pc'[t] = "cuse"
        BY <1>0, <3>4 DEF CondUnboot, Goto, BridgeTypes
      <4> QED BY <1>0, <1>2, <2>1, <4>1 DEF Found, Creating
    <3> QED BY <1>3, <3>1, <3>2, <3>3, <3>4
  <2>4. \/ heap' = heap /\ ~Fresh(t)'
        \/ \E a \in Unused : heap' = [heap EXCEPT ![a] = HostCond] /\ ptr'[t] = a
    BY <1>0, <1>3 DEF CondLoad, CondNew, CondBoot, CondRecheck, CondUnboot, Goto, Point, words,
                      BridgeTypes, Fresh
  <2>5. KeepsObjects
    BY <1>0, <2>4, UnusedKeeps DEF KeepsObjects
  <2>6. ASSUME NEW a \in Unused, NEW u \in Threads, pc[u] = "blocked" PROVE ptr[u] # a
    BY <2>6 DEF SleepersFound, Found, Unused, Known, Free, Cell
  <2> QED BY <1>2, <2>1, <2>3, <2>4, <2>5, <2>6, OthersFound
<1>4. CASE CondStore(t) \/ CondPublish(t)
  <2> DEFINE c == call[t].c
  <2>1. Fresh(t) /\ Creating(t, c) /\ ptr[t] \in Addrs
    BY <1>0, <1>4 DEF CondStore, CondPublish, Fresh, Creating, CondsOK
  <2>2. /\ cond' = [cond EXCEPT ![c] = ptr[t]] /\ UNCHANGED <<heap, ptr>>
        /\ pc'[t] \in {"cuse", "cunboot"}
    BY <1>0, <1>4 DEF CondStore, CondPublish, Goto, BridgeTypes
  <2>3. cond'[c] = ptr[t] /\ cond'[c] # None /\ \A d \in Conds : d # c => cond'[d] = cond[d]
    BY <1>0, <1>1, <2>1, <2>2, BridgeAssumption DEF BridgeTypes
  <2>4. Found(t)'
    BY <1>2, <2>2, <2>3 DEF Found, Creating
  <2>5. ASSUME NEW u \in Threads, u # t PROVE Found(u)'
    <3>1. /\ Found(u) /\ call'[u] = call[u] /\ ptr'[u] = ptr[u]
          /\ pc'[u] = pc[u] \/ pc'[u] = "wake"
      BY <1>2, <2>5 DEF MovesAlone, Same, SleepersFound
    <3>2. call[u].c \notin raced' => call[u].c \notin raced BY DEF Remembers
    <3>3. Creating(u, call[u].c) /\ call[u].c \notin raced => call[u].c # c
      BY <1>1, <2>1, <2>5 DEF SleepersFound, Racing, Creating
    <3>4. pc[u] = "blocked" /\ call[u].c \notin raced => call[u].c # c
      <4> SUFFICES ASSUME pc[u] = "blocked", c \notin raced, call[u].c = c PROVE FALSE
        OBVIOUS
      <4>1. cond[c] = None BY <1>0, <2>1 DEF Found
      <4>2. ptr[u] = cond[c] /\ ptr[u] \in Addrs BY <3>1 DEF Found
      <4> QED BY <4>1, <4>2, BridgeAssumption
    <3>5. pc[u] # "game" /\ call[u].c \in Conds => call[u].c = c \/ cond'[call[u].c] = cond[call[u].c]
      BY <2>3
    <3>6. pc[u] \in Asleep \cup OnCond => call[u].c \in Conds
      BY DEF BridgeInv, ThreadOK, CallFits, Asleep, OnCond, Signalling
    <3>7. pc'[u] = "blocked" =>
            /\ ptr'[u] \in Addrs /\ heap'[ptr'[u]].type = "cond"
            /\ call'[u].c \notin raced' => ptr'[u] = cond'[call'[u].c]
            /\ \A d \in Conds : cond'[d] = ptr'[u] => d = call'[u].c
            /\ \A v \in Threads : Fresh(v)' => ptr'[v] # ptr'[u]
      <4> SUFFICES ASSUME pc'[u] = "blocked"
                   PROVE  /\ ptr[u] \in Addrs /\ heap[ptr[u]].type = "cond"
                          /\ call[u].c \notin raced' => ptr[u] = cond'[call[u].c]
                          /\ \A d \in Conds : cond'[d] = ptr[u] => d = call[u].c
                          /\ \A v \in Threads : Fresh(v)' => ptr[v] # ptr[u]
        BY <2>2, <3>1
      <4>1. pc[u] = "blocked" /\ call[u].c \in Conds BY <3>1, <3>6 DEF Asleep
      <4>2. ptr[u] # ptr[t] BY <2>1, <3>1, <4>1 DEF Found
      <4>3. \A v \in Threads : Fresh(v)' => Fresh(v) BY <1>2, <2>2 DEF MovesAlone, Same, Fresh
      <4>4. call[u].c \notin raced' => ptr[u] = cond'[call[u].c]
        BY <3>1, <3>2, <3>4, <3>5, <4>1 DEF Found
      <4>5. \A d \in Conds : cond'[d] = ptr[u] => d = call[u].c
        BY <2>3, <3>1, <4>1, <4>2 DEF Found
      <4> QED BY <3>1, <4>1, <4>3, <4>4, <4>5 DEF Found
    <3>8. Creating(u, call[u].c)' /\ call'[u].c \notin raced' => cond'[call'[u].c] = None
      <4> SUFFICES ASSUME Creating(u, call[u].c)', call[u].c \notin raced'
                   PROVE  cond'[call[u].c] = None
        BY <3>1
      <4>1. Creating(u, call[u].c) /\ pc[u] \in OnCond BY <3>1 DEF Creating, OnCond
      <4> QED BY <2>3, <3>1, <3>2, <3>3, <3>6, <4>1 DEF Found
    <3>9. pc'[u] \in {"cunboot", "cuse"} => cond'[call'[u].c] # None
      BY <2>3, <3>1, <3>6 DEF Found, OnCond
    <3> QED BY <3>7, <3>8, <3>9 DEF Found
  <2> QED BY <2>4, <2>5 DEF SleepersFound, Remembers
<1> QED BY <1>3, <1>4 DEF CondResolve

LEMMA FoundInit == Init => SleepersFound
BY DEF Init, SleepersFound, Found, Creating, Racing

LEMMA FoundNext == BridgeInv /\ SleepersFound /\ raced \subseteq Conds /\ [Next]_vars => SleepersFound'
<1> SUFFICES ASSUME BridgeInv, SleepersFound, raced \subseteq Conds, [Next]_vars
             PROVE  SleepersFound'
  OBVIOUS
<1>0. BridgeTypes /\ CondsOK /\ \A t \in Threads : Found(t) /\ ThreadOK(t)
  BY DEF BridgeInv, SleepersFound
<1>1. ASSUME NEW m \in Mutexes, InitMutex(m) \/ DestroyMutex(m), Watch PROVE SleepersFound'
  <2>1. UNCHANGED <<cond, pc, call, ptr>>
    BY <1>1 DEF InitMutex, DestroyMutex, thread
  <2>2. Remembers BY <1>1, <2>1, WatchRemembers
  <2>3. KeepsObjects
    <3>1. CASE InitMutex(m) BY <1>0, <3>1, UnusedKeeps DEF InitMutex
    <3>2. CASE DestroyMutex(m)
      <4>1. /\ usable[m] /\ heap' = [a \in Addrs |-> IF a = word[m] THEN Free ELSE heap[a]]
            /\ word[m] \in Addrs => heap[word[m]].type = "mutex"
        BY <3>2 DEF DestroyMutex, BridgeInv, HostOK, Hosted
      <4> QED BY <4>1 DEF KeepsObjects
    <3> QED BY <1>1, <3>1, <3>2
  <2>4. ASSUME NEW u \in Threads PROVE Found(u)'
    <3>1. Found(u) BY <1>0
    <3>2. pc[u] = "blocked" => heap'[ptr[u]].type = "cond" BY <2>3, <3>1 DEF Found, KeepsObjects
    <3>3. call[u].c \notin raced' => call[u].c \notin raced BY <2>2 DEF Remembers
    <3> QED BY <2>1, <3>1, <3>2, <3>3 DEF Found, Creating, Fresh
  <2> QED BY <2>2, <2>4 DEF SleepersFound, Remembers
<1>2. ASSUME NEW c \in Conds, DestroyCond(c), Watch PROVE SleepersFound'
  <2>1. /\ cond' = [cond EXCEPT ![c] = None] /\ UNCHANGED <<pc, call, ptr>>
        /\ \A t \in Threads : call[t].c # c
        /\ heap' = [heap EXCEPT ![cond[c]] = Free] /\ cond[c] # None
    BY <1>2 DEF DestroyCond, thread
  <2>2. /\ cond'[c] = None /\ cond[c] \in Addrs
        /\ \A d \in Conds : d # c => cond'[d] = cond[d] /\ (d \in raced => d \in raced')
    BY <1>0, <1>2, <2>1 DEF BridgeTypes, Watch
  <2>3. ASSUME NEW u \in Threads PROVE Found(u)'
    <3>1. Found(u) /\ call[u].c # c BY <1>0, <2>1
    <3>2. pc[u] \in Asleep \cup OnCond => call[u].c \in Conds
      BY <1>0 DEF ThreadOK, CallFits, Asleep, OnCond, Signalling
    <3>3. pc[u] = "blocked" => ptr[u] # cond[c] /\ call[u].c \in Conds
      BY <3>1, <3>2 DEF Found, Asleep
    <3>4. pc[u] = "blocked" =>
            /\ ptr'[u] \in Addrs /\ heap'[ptr'[u]].type = "cond"
            /\ call'[u].c \notin raced' => ptr'[u] = cond'[call'[u].c]
            /\ \A d \in Conds : cond'[d] = ptr'[u] => d = call'[u].c
            /\ \A v \in Threads : Fresh(v)' => ptr'[v] # ptr'[u]
      <4> SUFFICES ASSUME pc[u] = "blocked"
                   PROVE  /\ ptr[u] \in Addrs /\ heap'[ptr[u]].type = "cond"
                          /\ call[u].c \notin raced' => ptr[u] = cond'[call[u].c]
                          /\ \A d \in Conds : cond'[d] = ptr[u] => d = call[u].c
                          /\ \A v \in Threads : Fresh(v) => ptr[v] # ptr[u]
        BY <2>1 DEF Fresh
      <4>1. ptr[u] \in Addrs /\ heap'[ptr[u]].type = "cond"
        BY <1>0, <2>1, <2>2, <3>1, <3>3 DEF Found, BridgeTypes
      <4>2. call[u].c \notin raced' => ptr[u] = cond'[call[u].c]
        BY <2>2, <3>1, <3>3 DEF Found
      <4>3. \A d \in Conds : cond'[d] = ptr[u] => d = call[u].c
        BY <2>2, <3>1, <4>1, BridgeAssumption DEF Found
      <4> QED BY <3>1, <4>1, <4>2, <4>3 DEF Found
    <3>5. Creating(u, call[u].c)' /\ call'[u].c \notin raced' => cond'[call'[u].c] = None
      BY <2>1, <2>2, <3>1, <3>2 DEF Found, Creating, OnCond
    <3>6. pc'[u] \in {"cunboot", "cuse"} => cond'[call'[u].c] # None
      BY <2>1, <2>2, <3>1, <3>2 DEF Found, OnCond
    <3> QED BY <2>1, <3>4, <3>5, <3>6 DEF Found
  <2> QED BY <1>2, <2>3 DEF SleepersFound, Watch
<1>3. ASSUME NEW t \in Threads, Call(t), Watch PROVE SleepersFound'
  <2>1. /\ UNCHANGED <<cond, heap>> /\ pc'[t] \in {"load", "cload"} /\ MovesAlone(t)
    BY <1>0, <1>3 DEF Call, CallMutex, CallWait, CallSignal, Enter, Goto, words, BridgeTypes,
                      MovesAlone, Same
  <2>2. Found(t)' /\ ~Fresh(t)' BY <2>1 DEF Found, Creating, Fresh
  <2> QED BY <1>3, <2>1, <2>2, OthersFound, WatchRemembers DEF KeepsObjects
<1>4. ASSUME NEW t \in Threads, Resolve(t), Watch PROVE SleepersFound'
  <2>1. /\ UNCHANGED cond /\ MovesAlone(t)
        /\ pc'[t] \in {"boot", "recheck", "create", "store", "unboot", "reload", "use", "cload"}
    BY <1>0, <1>4 DEF Resolve, Load, Boot, Recheck, Create, Store, Unboot, Reload, Resolved, Allocate,
                      Goto, Point, words, BridgeTypes, MovesAlone, Same
  <2>2. Found(t)' /\ ~Fresh(t)' BY <2>1 DEF Found, Creating, Fresh
  <2>3. KeepsObjects
    <3>1. CASE Recheck(t)
      <4>1. heap' = heap \/ \E a \in Unused : heap' = [heap EXCEPT ![a] = Raw]
        BY <3>1 DEF Recheck, Allocate
      <4> QED BY <1>0, <4>1, UnusedKeeps DEF KeepsObjects
    <3>2. CASE Create(t)
      <4>1. /\ heap' = [heap EXCEPT ![ptr[t]] = HostMutex(word[call[t].m], None, 0)]
            /\ heap[ptr[t]].type = "raw"
        BY <1>0, <3>2 DEF Create, ThreadOK, Makes, Raw, Cell
      <4> QED BY <1>0, <4>1 DEF KeepsObjects, BridgeTypes
    <3>3. CASE Load(t) \/ Boot(t) \/ Store(t) \/ Unboot(t) \/ Reload(t)
      BY <3>3 DEF Load, Boot, Store, Unboot, Reload, words, KeepsObjects
    <3> QED BY <1>4, <3>1, <3>2, <3>3 DEF Resolve
  <2> QED BY <1>4, <2>1, <2>2, <2>3, OthersFound, WatchRemembers
<1>5. ASSUME NEW t \in Threads, CondResolve(t), Watch PROVE SleepersFound'
  <2>1. UNCHANGED cond \/ (\E c \in Conds : cond' = [cond EXCEPT ![c] = ptr[t]] /\ ptr[t] \in Addrs)
    <3>1. call[t].c \in Conds \/ pc[t] \notin OnCond
      BY <1>0 DEF ThreadOK, CallFits, OnCond, Signalling
    <3>2. Fresh(t) => ptr[t] \in Addrs BY <1>0 DEF CondsOK
    <3> QED BY <1>5, <3>1, <3>2 DEF CondResolve, CondLoad, CondNew, CondStore, CondBoot,
               CondRecheck, CondPublish, CondUnboot, words, Fresh, OnCond
  <2>2. \A d \in Conds : cond'[d] = None => cond[d] = None
    BY <1>0, <2>1, BridgeAssumption DEF BridgeTypes
  <2> QED BY <1>5, <2>2, CondFound, WatchRemembers
<1>6. ASSUME NEW t \in Threads, Host(t), Watch PROVE SleepersFound'
  <2>0. KeepsObjects
    <3>1. \/ UNCHANGED heap
          \/ \E b \in {ptr[t], word[call[t].m]}, h \in Heap :
                heap' = [heap EXCEPT ![b] = h] /\ (b \in Addrs => h.type = heap[b].type)
      <4>1. CASE LockFails(t) \/ Signal(t) \/ Timeout(t)
        BY <4>1 DEF LockFails, Signal, Timeout, words
      <4>2. CASE Lock(t) \/ Relock(t) \/ Unlock(t) \/ Wait(t)
        <5>1. \E n \in {held[t][call[t].m] + 1, held[t][call[t].m] - 1, 0, 1} :
                Holds(t, call[t].m, n)
          BY <4>2, LockHolds, UnlockHolds, WaitHolds, RelockHolds
        <5>2. PICK n : Holds(t, call[t].m, n) BY <5>1
        <5> DEFINE h == HostMutex(heap[word[call[t].m]].kind, IF n = 0 THEN None ELSE t, n)
        <5>3. /\ heap' = [heap EXCEPT ![word[call[t].m]] = h] /\ n \in 0..MaxDepth
              /\ word[call[t].m] \in Addrs /\ heap[word[call[t].m]].type = "mutex"
          BY <5>2 DEF Holds, Hosted, BridgeInv, HostOK
        <5>4. h \in Heap /\ h.type = "mutex"
          BY <1>0, <5>3 DEF HostMutex, Cell, Heap, BridgeTypes
        <5> QED BY <5>3, <5>4
      <4> QED BY <1>6, <4>1, <4>2 DEF Host
    <3> QED BY <1>0, <3>1 DEF KeepsObjects, BridgeTypes
  <2>1. CASE Wait(t)
    <3>1. /\ UNCHANGED <<cond, call>> /\ MovesAlone(t) /\ pc'[t] = "blocked"
          /\ pc[t] = "cuse" /\ ptr'[t] = cond[call[t].c] /\ call[t].op \in {"wait", "timedwait"}
      BY <1>0, <2>1 DEF Wait, Goto, Point, BridgeTypes, MovesAlone, Same
    <3>2. call[t].c \in Conds BY <1>0, <3>1 DEF ThreadOK, CallFits
    <3>3. /\ cond[call[t].c] \in Addrs /\ heap[cond[call[t].c]].type = "cond"
          /\ \A d \in Conds : cond[d] = cond[call[t].c] => d = call[t].c
          /\ \A u \in Threads : Fresh(u) => ptr[u] # cond[call[t].c]
      BY <1>0, <3>1, <3>2 DEF Found, CondsOK, BridgeTypes
    <3>4. heap'[ptr'[t]].type = "cond"
      <4>1. Holds(t, call[t].m, 0) BY <2>1, WaitHolds
      <4>2. /\ heap[word[call[t].m]].type = "mutex" /\ word[call[t].m] \in Addrs
            /\ heap' = [heap EXCEPT ![word[call[t].m]] = HostMutex(heap[word[call[t].m]].kind, None, 0)]
        BY <4>1 DEF Holds, Hosted, BridgeInv, HostOK
      <4> QED BY <1>0, <3>1, <3>3, <4>2 DEF BridgeTypes
    <3>5. \A u \in Threads : Fresh(u)' => Fresh(u) /\ ptr'[u] = ptr[u]
      BY <3>1 DEF MovesAlone, Same, Fresh
    <3>6. Found(t)' /\ ~Fresh(t)' BY <3>1, <3>3, <3>4, <3>5 DEF Found, Creating, Fresh
    <3> QED BY <1>6, <2>0, <3>1, <3>6, OthersFound, WatchRemembers
  <2>2. CASE Signal(t)
    <3>1. /\ UNCHANGED cond /\ MovesAlone(t) /\ pc'[t] = "game"
      BY <1>0, <2>2 DEF Signal, Sleepers, words, BridgeTypes, MovesAlone, Same
    <3>2. Found(t)' /\ ~Fresh(t)' BY <3>1 DEF Found, Creating, Fresh
    <3> QED BY <1>6, <2>0, <3>1, <3>2, OthersFound, WatchRemembers
  <2>3. CASE Lock(t) \/ LockFails(t) \/ Unlock(t) \/ Timeout(t) \/ Relock(t)
    <3>1. /\ UNCHANGED cond /\ MovesAlone(t) /\ pc'[t] \in {"game", "wake"}
      BY <1>0, <2>3 DEF Lock, LockFails, Unlock, Timeout, Relock, Return, Goto, words, BridgeTypes,
                        MovesAlone, Same
    <3>2. Found(t)' /\ ~Fresh(t)' BY <3>1 DEF Found, Creating, Fresh
    <3> QED BY <1>6, <2>0, <3>1, <3>2, OthersFound, WatchRemembers
  <2> QED BY <1>6, <2>1, <2>2, <2>3 DEF Host
<1>7. CASE UNCHANGED vars
  BY <1>7 DEF vars, core, words, thread, SleepersFound, Found, Creating, Racing, Fresh
<1> QED BY <1>1, <1>2, <1>3, <1>4, <1>5, <1>6, <1>7 DEF Next, Manage

\* A signal reaches somebody who slept on the condition variable when it was given, a
\* broadcast all of them, with the mutex held or not and although wait and signal create
\* the object without a lock: only who lost its object to a second creation is missed.
THEOREM SignalsReach == Spec => SignalWakes
<1> DEFINE Due(t) == (call[t].due \cap Blocked(call[t].c)) \ Lost(call[t].c)
<1>1. ASSUME BridgeInv, SleepersFound, NEW t \in Threads, Signal(t)
      PROVE  /\ Due(t) # {} => \E u \in Blocked(call[t].c) : pc'[u] = "wake"
             /\ call[t].op = "broadcast" => \A u \in Due(t) : pc'[u] = "wake"
  <2> DEFINE c == call[t].c
             asleep == Sleepers(cond[c])
  <2>0. pc[t] = "cuse" /\ call[t].op \in Signalling /\ BridgeTypes /\ CondsOK /\ ThreadOK(t)
    BY <1>1 DEF Signal, Signalling, BridgeInv
  <2>1. PICK woken \in SUBSET asleep :
          /\ call[t].op = "broadcast" => woken = asleep
          /\ call[t].op = "signal" => Cardinality(woken) = IF asleep = {} THEN 0 ELSE 1
          /\ pc' = [u \in Threads |-> IF u = t THEN "game"
                                      ELSE IF u \in woken THEN "wake" ELSE pc[u]]
    BY <1>1 DEF Signal
  <2>2. c \in Conds
    BY <2>0 DEF ThreadOK, CallFits, OnCond, Signalling
  <2>3. ASSUME NEW u \in Due(t) PROVE u \in asleep /\ u # t
    <3>1. u \in Threads /\ pc[u] = "blocked" /\ call[u].c = c /\ (c \in raced => ptr[u] = cond[c])
      BY <2>3 DEF Blocked, Lost
    <3>2. ptr[u] = cond[c] BY <1>1, <3>1 DEF SleepersFound, Found
    <3> QED BY <2>0, <3>1, <3>2 DEF Sleepers
  <2>4. ASSUME NEW u \in asleep PROVE u \in Blocked(c) /\ u # t
    <3>1. u \in Threads /\ pc[u] = "blocked" /\ ptr[u] = cond[c] BY DEF Sleepers
    <3>2. call[u].c = c BY <1>1, <2>2, <3>1 DEF SleepersFound, Found
    <3> QED BY <2>0, <3>1, <3>2 DEF Blocked
  <2>5. \A u \in woken : u \in Blocked(c) /\ pc'[u] = "wake"
    BY <2>1, <2>4 DEF Blocked
  <2>6. Due(t) # {} => woken # {}
    <3> SUFFICES ASSUME Due(t) # {}, woken = {} PROVE FALSE
      OBVIOUS
    <3>1. asleep # {} BY <2>3
    <3>2. Cardinality(woken) = 0 BY FS_EmptySet
    <3> QED BY <2>0, <2>1, <3>1, <3>2 DEF Signalling
  <2>7. call[t].op = "broadcast" => \A u \in Due(t) : pc'[u] = "wake"
    BY <2>1, <2>3, <2>5
  <2> QED BY <2>5, <2>6, <2>7
<1>2. BridgeInv /\ SleepersFound /\ [Next]_vars =>
        [\A t \in Threads : Signal(t) =>
           LET due == (call[t].due \cap Blocked(call[t].c)) \ Lost(call[t].c) IN
             /\ due # {} => \E u \in Blocked(call[t].c) : pc'[u] = "wake"
             /\ call[t].op = "broadcast" => \A u \in due : pc'[u] = "wake"]_vars
  BY <1>1
<1>3. BridgeInv /\ SleepersFound /\ raced \subseteq Conds /\ [Next]_vars => SleepersFound'
  BY FoundNext
<1>4. BridgeTypes /\ raced \subseteq Conds <=> TypeOK BY DEF TypeOK
<1>5. Spec => []SleepersFound
  BY <1>3, <1>4, FoundInit, InvHolds, BridgeTypeCorrect, PTL DEF Spec
<1> QED BY <1>2, <1>5, InvHolds, PTL DEF Spec, SignalWakes

-----------------------------------------------------------------------------
(* The refinement of BionicMutex.                                            *)

View == <<KindOf, OwnerOf, DepthOf>>

\* The game's view depends on the words, on what is usable and on the mutexes behind
\* them.
LEMMA SameView ==
  ASSUME BridgeInv, usable' = usable, word' = word,
         \A a \in Addrs : heap[a].type = "mutex" => heap'[a] = heap[a]
  PROVE  UNCHANGED View
<1>1. ASSUME NEW m \in Mutexes PROVE Hosted(m) => heap'[word[m]] = heap[word[m]]
  BY <1>1 DEF BridgeInv, HostOK, Hosted
<1>2. KindOf' = KindOf BY <1>1 DEF KindOf, Hosted
<1>3. OwnerOf' = OwnerOf BY <1>1 DEF OwnerOf, Hosted
<1>4. DepthOf' = DepthOf BY <1>1 DEF DepthOf, Hosted
<1> QED BY <1>2, <1>3, <1>4 DEF View

\* Creation is invisible: the host mutex that goes into a word is what its static
\* initialiser says.
LEMMA StoreView ==
  ASSUME BridgeInv, NEW t \in Threads, Store(t)
  PROVE  UNCHANGED View
<1> DEFINE m == call[t].m
           a == ptr[t]
<1>0. BridgeTypes /\ ThreadOK(t) BY DEF BridgeInv
<1>1. /\ pc[t] = "store" /\ UNCHANGED <<heap, usable>> /\ word' = [word EXCEPT ![m] = a]
  BY DEF Store
<1>2. /\ a \in Addrs /\ m \in Mutexes /\ usable[m] /\ word[m] \notin Addrs
      /\ heap[a] = HostMutex(word[m], None, 0)
  BY <1>0, <1>1 DEF ThreadOK, Makes, Knows, CallFits, Entitled, OnMutex, Signalling
<1>3. heap[a].kind = word[m] /\ heap[a].owner = None /\ heap[a].depth = 0
  BY <1>2 DEF HostMutex, Cell
<1>4. word'[m] = a /\ \A n \in Mutexes : n # m => word'[n] = word[n]
  BY <1>0, <1>1, <1>2 DEF BridgeTypes
<1>5. KindOf' = KindOf BY <1>1, <1>2, <1>3, <1>4 DEF KindOf
<1>6. OwnerOf' = OwnerOf BY <1>1, <1>2, <1>3, <1>4 DEF OwnerOf, Hosted
<1>7. DepthOf' = DepthOf BY <1>1, <1>2, <1>3, <1>4 DEF DepthOf, Hosted
<1> QED BY <1>5, <1>6, <1>7 DEF View

LEMMA ThreadViews ==
  ASSUME BridgeInv, NEW t \in Threads,
         \/ Call(t) \/ Resolve(t) \/ CondResolve(t)
         \/ LockFails(t) \/ Signal(t) \/ Timeout(t)
  PROVE  UNCHANGED View
<1>0. BridgeTypes /\ ThreadOK(t) BY DEF BridgeInv
<1>1. CASE \/ Call(t) \/ Load(t) \/ Boot(t) \/ Unboot(t) \/ Reload(t)
           \/ CondLoad(t) \/ CondBoot(t) \/ CondUnboot(t) \/ CondStore(t) \/ CondPublish(t)
           \/ LockFails(t) \/ Signal(t) \/ Timeout(t)
  <2>1. UNCHANGED <<word, heap, usable>>
    BY <1>1 DEF Call, CallMutex, CallWait, CallSignal, Enter, Load, Boot, Unboot, Reload, CondLoad,
                CondBoot, CondUnboot, CondStore, CondPublish, LockFails, Signal, Timeout, words
  <2> QED BY <2>1, SameView
<1>2. CASE Recheck(t) \/ CondNew(t) \/ CondRecheck(t)
  <2>1. /\ UNCHANGED <<word, usable>>
        /\ heap' = heap \/ \E a \in Unused, cell \in {Raw, HostCond} : heap' = [heap EXCEPT ![a] = cell]
    BY <1>2 DEF Recheck, Allocate, CondNew, CondRecheck
  <2>2. \A a \in Unused : a \in Addrs /\ heap[a].type # "mutex"
    BY DEF Unused, Free, HostCond, Cell
  <2>3. \A a \in Addrs : heap[a].type = "mutex" => heap'[a] = heap[a]
    BY <1>0, <2>1, <2>2 DEF BridgeTypes
  <2> QED BY <2>1, <2>3, SameView
<1>3. CASE Create(t)
  <2>1. /\ UNCHANGED <<word, usable>>
        /\ heap' = [heap EXCEPT ![ptr[t]] = HostMutex(word[call[t].m], None, 0)]
    BY <1>3 DEF Create
  <2>2. heap[ptr[t]].type = "raw"
    BY <1>0, <1>3 DEF Create, ThreadOK, Makes, Raw, Cell
  <2>3. \A a \in Addrs : heap[a].type = "mutex" => heap'[a] = heap[a]
    BY <1>0, <2>1, <2>2 DEF BridgeTypes
  <2> QED BY <2>1, <2>3, SameView
<1>4. CASE Store(t) BY <1>4, StoreView
<1> QED BY <1>1, <1>2, <1>3, <1>4 DEF Resolve, CondResolve

\* What a step at the host's mutex looks like to the game.
LEMMA HoldView ==
  ASSUME BridgeInv, NEW t \in Threads, NEW m, NEW n, Holds(t, m, n)
  PROVE  /\ m \in Mutexes /\ KindOf[m] \in Kinds /\ KindOf[m] = heap[word[m]].kind
         /\ OwnerOf[m] = heap[word[m]].owner /\ DepthOf[m] = heap[word[m]].depth
         /\ Bionic!Set(m, IF n = 0 THEN None ELSE t, n)
<1> DEFINE a == word[m]
           o == IF n = 0 THEN None ELSE t
<1>0. BridgeTypes BY DEF BridgeInv
<1>1. /\ m \in Mutexes /\ usable[m] /\ a \in Addrs /\ Hosted(m) /\ UNCHANGED <<word, usable>>
      /\ heap[a] \in Heap /\ heap[a].kind \in Kinds
      /\ \A k \in Mutexes : k # m /\ Hosted(k) => word[k] \in Addrs /\ word[k] # a
  BY <1>0 DEF Holds, BridgeInv, HostOK, Hosted, BridgeTypes, Heap
<1>2. /\ heap'[a].kind = heap[a].kind /\ heap'[a].owner = o /\ heap'[a].depth = n
      /\ \A b \in Addrs : b # a => heap'[b] = heap[b]
  BY <1>0, <1>1 DEF Holds, HostMutex, Cell, BridgeTypes
<1>3. KindOf' = KindOf BY <1>1, <1>2 DEF KindOf, Hosted
<1>4. OwnerOf' = [OwnerOf EXCEPT ![m] = o] BY <1>1, <1>2 DEF OwnerOf, Hosted
<1>5. DepthOf' = [DepthOf EXCEPT ![m] = n] BY <1>1, <1>2 DEF DepthOf, Hosted
<1> QED BY <1>1, <1>3, <1>4, <1>5 DEF KindOf, OwnerOf, DepthOf, Bionic!Set

LEMMA LockView ==
  ASSUME BridgeInv, NEW t \in Threads, Lock(t) \/ Relock(t)
  PROVE  Bionic!Lock(t, call[t].m) /\ call[t].m \in Mutexes
<1> DEFINE m == call[t].m
<1>1. CASE Lock(t)
  <2> DEFINE n == held[t][m] + 1
  <2>1. /\ Holds(t, m, n) /\ Lockable(word[m], t) /\ heap[word[m]].depth = held[t][m] /\ n # 0
    BY <1>1, LockHolds
  <2>2. /\ m \in Mutexes /\ KindOf[m] # None /\ KindOf[m] = heap[word[m]].kind
        /\ OwnerOf[m] = heap[word[m]].owner /\ DepthOf[m] = held[t][m]
        /\ Bionic!Set(m, t, n)
    BY <2>1, HoldView, BridgeAssumption
  <2> QED BY <2>1, <2>2 DEF Bionic!Lock, Lockable
<1>2. CASE Relock(t)
  <2>1. Holds(t, m, 1) /\ heap[word[m]].owner = None
    BY <1>2, RelockHolds
  <2>2. /\ m \in Mutexes /\ KindOf[m] # None /\ OwnerOf[m] = None
        /\ DepthOf[m] = heap[word[m]].depth /\ Bionic!Set(m, t, 1)
    BY <2>1, HoldView, BridgeAssumption
  <2>3. heap[word[m]].depth = 0
    BY <2>1 DEF BridgeInv, HostOK, Holds
  <2> QED BY <2>2, <2>3 DEF Bionic!Lock
<1> QED BY <1>1, <1>2

LEMMA UnlockView ==
  ASSUME BridgeInv, NEW t \in Threads, Unlock(t) \/ Wait(t)
  PROVE  Bionic!Unlock(t, call[t].m) /\ call[t].m \in Mutexes
<1> DEFINE m == call[t].m
           n == held[t][m] - 1
<1>1. held[t][m] > 0 /\ Holds(t, m, n)
  BY UnlockHolds, WaitHolds
<1>2. m \in Mutexes BY <1>1 DEF Holds
<1>3. /\ heap[word[m]].owner = t /\ heap[word[m]].depth = held[t][m] /\ held[t][m] \in 1..MaxDepth
  BY <1>1, <1>2, HeldFacts
<1>4. /\ OwnerOf[m] = t /\ DepthOf[m] = held[t][m]
      /\ Bionic!Set(m, IF n = 0 THEN None ELSE t, n)
  BY <1>1, <1>3, HoldView
<1>5. n = 0 <=> DepthOf[m] = 1
  BY <1>3, <1>4, BridgeAssumption
<1> QED BY <1>2, <1>4, <1>5 DEF Bionic!Unlock

LEMMA InitView ==
  ASSUME BridgeInv, NEW m \in Mutexes, InitMutex(m)
  PROVE  Bionic!Reset(m)
<1>0. BridgeTypes BY DEF BridgeInv
<1>1. PICK a \in Unused, k \in Kinds :
        /\ heap' = [heap EXCEPT ![a] = HostMutex(k, None, 0)]
        /\ word' = [word EXCEPT ![m] = a]
  BY DEF InitMutex
<1>2. /\ ~usable[m] /\ a \in Addrs /\ heap[a].type # "mutex"
      /\ usable' = [usable EXCEPT ![m] = TRUE]
  BY DEF InitMutex, Unused, Free, HostCond, Cell
<1>3. /\ usable'[m] /\ word'[m] = a
      /\ heap'[a].kind = k /\ heap'[a].owner = None /\ heap'[a].depth = 0
      /\ \A n \in Mutexes : n # m => word'[n] = word[n] /\ usable'[n] = usable[n]
      /\ \A b \in Addrs : b # a => heap'[b] = heap[b]
  BY <1>0, <1>1, <1>2 DEF BridgeTypes, HostMutex, Cell
<1>4. \A n \in Mutexes : Hosted(n) => word[n] \in Addrs /\ word[n] # a
  BY <1>2 DEF BridgeInv, HostOK, Hosted
<1>5. KindOf' = [KindOf EXCEPT ![m] = k]
  <2>1. KindOf'[m] = k BY <1>2, <1>3 DEF KindOf
  <2>2. \A n \in Mutexes : n # m => KindOf'[n] = KindOf[n]
    BY <1>3, <1>4 DEF KindOf, Hosted
  <2>3. KindOf = [n \in Mutexes |-> KindOf[n]] /\ KindOf' = [n \in Mutexes |-> KindOf'[n]]
    BY DEF KindOf
  <2> HIDE DEF KindOf
  <2> QED BY <2>1, <2>2, <2>3
<1>6. OwnerOf' = OwnerOf BY <1>2, <1>3, <1>4 DEF OwnerOf, Hosted
<1>7. DepthOf' = DepthOf BY <1>2, <1>3, <1>4 DEF DepthOf, Hosted
<1>8. KindOf[m] = None /\ KindOf'[m] # None /\ OwnerOf[m] = None
  BY <1>2, <1>3, BridgeAssumption DEF KindOf, OwnerOf, Hosted
<1> QED BY <1>5, <1>6, <1>7, <1>8 DEF Bionic!Reset, Bionic!Kinds, Kinds

LEMMA DestroyView ==
  ASSUME BridgeInv, NEW m \in Mutexes, DestroyMutex(m)
  PROVE  Bionic!Reset(m)
<1>0. BridgeTypes /\ HostOK(m) BY DEF BridgeInv
<1>1. /\ usable[m] /\ \A t \in Threads : ~(held[t][m] > 0)
      /\ heap' = [a \in Addrs |-> IF a = word[m] THEN Free ELSE heap[a]]
      /\ word' = [word EXCEPT ![m] = "normal"]
      /\ usable' = [usable EXCEPT ![m] = FALSE]
  BY DEF DestroyMutex, InUse
<1>2. /\ ~usable'[m]
      /\ \A n \in Mutexes : n # m => word'[n] = word[n] /\ usable'[n] = usable[n]
      /\ \A b \in Addrs : b # word[m] => heap'[b] = heap[b]
  BY <1>0, <1>1 DEF BridgeTypes
<1>3. \A n \in Mutexes : n # m /\ Hosted(n) => word[n] \in Addrs /\ word[n] # word[m]
  BY <1>1 DEF BridgeInv, HostOK, Hosted
\* Nobody holds what nobody has locked.
<1>4. Hosted(m) => heap[word[m]].owner = None /\ heap[word[m]].depth = 0
  <2> SUFFICES ASSUME Hosted(m), heap[word[m]].owner # None PROVE FALSE
    BY <1>0 DEF HostOK
  <2>1. heap[word[m]].owner \in Threads BY <1>0 DEF BridgeTypes, Heap, Hosted
  <2> QED BY <1>0, <1>1, <2>1 DEF HostOK
<1>5. KindOf' = [KindOf EXCEPT ![m] = None]
  <2>1. KindOf'[m] = None
    BY <1>2 DEF KindOf
  <2>2. ASSUME NEW n \in Mutexes, n # m
        PROVE  KindOf'[n] = KindOf[n]
    <3>1. word'[n] = word[n] /\ usable'[n] = usable[n]
      BY <1>2, <2>2
    <3>2. usable[n] /\ word[n] \in Addrs => heap'[word[n]] = heap[word[n]]
      BY <1>2, <1>3, <2>2 DEF Hosted
    <3> QED BY <3>1, <3>2 DEF KindOf
  <2>3. KindOf' \in [Mutexes -> {KindOf'[n] : n \in Mutexes}] /\ DOMAIN KindOf = Mutexes
        /\ DOMAIN KindOf' = Mutexes
    BY DEF KindOf
  <2> QED BY <2>1, <2>2, <2>3 DEF KindOf
<1>6. OwnerOf' = OwnerOf BY <1>2, <1>3, <1>4 DEF OwnerOf, Hosted
<1>7. DepthOf' = DepthOf BY <1>2, <1>3, <1>4 DEF DepthOf, Hosted
<1>8. KindOf[m] # None /\ KindOf'[m] = None /\ OwnerOf[m] = None
  BY <1>0, <1>1, <1>2, <1>4, BridgeAssumption DEF KindOf, OwnerOf, Hosted, BridgeTypes, Heap
<1> QED BY <1>5, <1>6, <1>7, <1>8 DEF Bionic!Reset

LEMMA CondDestroyView ==
  ASSUME BridgeInv, NEW c \in Conds, DestroyCond(c)
  PROVE  UNCHANGED View
<1>1. /\ UNCHANGED <<word, usable>> /\ heap' = [heap EXCEPT ![cond[c]] = Free]
      /\ cond[c] # None
  BY DEF DestroyCond
<1>2. heap[cond[c]].type = "cond" /\ BridgeTypes
  BY <1>1 DEF BridgeInv, CondsOK
<1>3. \A a \in Addrs : heap[a].type = "mutex" => heap'[a] = heap[a]
  BY <1>1, <1>2 DEF BridgeTypes
<1> QED BY <1>1, <1>3, SameView

LEMMA StepView ==
  ASSUME BridgeInv, [Next]_vars
  PROVE  [Bionic!Next]_View
<1>1. CASE UNCHANGED vars
  BY <1>1, SameView DEF vars, core, words
<1>2. ASSUME NEW m \in Mutexes, InitMutex(m) \/ DestroyMutex(m) PROVE Bionic!Next
  BY <1>2, InitView, DestroyView DEF Bionic!Next
<1>3. ASSUME NEW c \in Conds, DestroyCond(c) PROVE UNCHANGED View
  BY <1>3, CondDestroyView
<1>4. ASSUME NEW t \in Threads, Lock(t) \/ Relock(t) \/ Unlock(t) \/ Wait(t)
      PROVE  Bionic!Next
  BY <1>4, LockView, UnlockView DEF Bionic!Next
<1>5. ASSUME NEW t \in Threads,
             \/ Call(t) \/ Resolve(t) \/ CondResolve(t)
             \/ LockFails(t) \/ Signal(t) \/ Timeout(t)
      PROVE  UNCHANGED View
  BY <1>5, ThreadViews
<1> QED BY <1>1, <1>2, <1>3, <1>4, <1>5 DEF Next, Manage, Host

\* To the game, the mutexes created lazily on the host are bionic's: whatever the
\* threads do, each has the kind of its initialiser, one owner at a time and a depth
\* that only a recursive one takes beyond one.
THEOREM BridgeImplementsBionic == Spec => ImplementsBionic
<1>1. Init => Bionic!Init
  <2> SUFFICES ASSUME Init PROVE Bionic!Init
    OBVIOUS
  <2>1. \A m \in Mutexes : ~Hosted(m)
    BY BridgeAssumption DEF Init, Hosted
  <2>2. KindOf \in [Mutexes -> Kinds \cup {None}]
    BY BridgeAssumption DEF Init, KindOf
  <2> QED BY <2>1, <2>2 DEF OwnerOf, DepthOf, Bionic!Init, Bionic!Kinds, Kinds
<1>2. BridgeInv /\ [Next]_vars => [Bionic!Next]_<<KindOf, OwnerOf, DepthOf>>
  BY StepView DEF View
<1> QED BY <1>1, <1>2, InvHolds, PTL DEF Spec, ImplementsBionic, Bionic!Spec, Bionic!mvars
=============================================================================
