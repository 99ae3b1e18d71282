-------------------------- MODULE AudioSlots_proofs --------------------------
(* Proofs about AudioSlots, for any table, any threads and any files. *)
EXTENDS AudioSlots, TLAPS

-----------------------------------------------------------------------------
(* The inductive invariant *)

\* A slot as FreeIsSilent wants it.
Quiet(e) == ~e.allocated => ~e.playing /\ e.pcm = 0

AllQuiet == \A s \in Slots : Quiet(slot[s])

\* A section that has been asked has its arguments, and the newID among them an id
\* of its own.
Fits(a) ==
  /\ a \in Asks
  /\ a.op \notin {"none", "setup"}
  /\ a.op = "newID" => a.id \in Dynamic
  /\ a.op = "setNextPlayer" => a.arg \in Slots \cup {-1}
  /\ a.op \in {"added", "loaded"} => a.arg \in Samples

Fitting == \A t \in Threads : At(t, "section") => Fits(doing[t].ask)

\* The device is opened under a mutex, and its callback alone mixes.
DeviceInv ==
  /\ mutex = 0 => device = "closed"
  /\ \A t \in Threads : At(t, "open") => mutex # 0
  /\ device # "open" => mixed = SlotCount
  /\ aimed => mixed \in Slots

\* Until two threads meet: audio is set up once, ...
SetUpOnce ==
  /\ ~begun => mutex = 0 /\ \A t \in Threads : ~At(t, "create") /\ ~At(t, "open")
  /\ ~raced => \A t \in Threads :
       /\ At(t, "claim") => ~begun
       /\ At(t, "create") => mutex = 0
       /\ \A u \in Threads : SettingUp(t) /\ SettingUp(u) => t = u

\* ... a section that found no mutex still finds what it asked for, ...
Alone ==
  ~raced => \A t \in Threads : At(t, "section") =>
    /\ mutex = 0 /\ Grants(doing[t].ask)
    /\ \A u \in Threads : At(u, "section") => u = t

\* ... and the callback has the lock that every section takes, and samples to read.
Holds ==
  ~raced => /\ mixed # SlotCount => key = mutex /\ mutex # 0
            /\ mixed # SlotCount /\ frame # 0 => slot[mixed].pcm # 0
            /\ aimed => slot[mixed].position + 1 < slot[mixed].pcm

AudioInv ==
  AudioTypeOK /\ Fitting /\ DeviceInv /\ SetUpOnce /\ Alone /\ Holds /\ (~raced => AllQuiet)

-----------------------------------------------------------------------------
(* The arithmetic of the table *)

LEMMA SampleSizes == Samples \subseteq Nat /\ 0 \in Samples /\ 1 \notin Samples
BY LengthsAssumption DEF Samples

LEMMA DynamicAreSlots ==
  /\ Dynamic \subseteq Slots
  /\ DynamicBase \in Dynamic
  /\ \A s \in Dynamic : AfterId(s) \in Dynamic
BY SizesAssumption DEF Dynamic, Slots, AfterId

\* newID's search stays among the dynamic ids.
LEMMA ProbeIsDynamic ==
  ASSUME nextId \in Dynamic, NEW i \in Nat
  PROVE  Probe(i) \in Dynamic
<1> DEFINE n == SlotCount - DynamicBase
           d == nextId - DynamicBase + i
<1>1. n \in Nat \ {0} /\ d \in Nat
  BY SizesAssumption DEF Dynamic
<1>2. d % n \in 0..(n - 1)
  BY <1>1
<1> QED
  BY <1>2, SizesAssumption DEF Probe, Dynamic

LEMMA FreeIsDynamic ==
  ASSUME nextId \in Dynamic, NEW s, FirstFree(s)
  PROVE  s \in Dynamic
<1>1. PICK i \in 0..(SlotCount - DynamicBase - 1) : s = Probe(i)
  BY DEF FirstFree
<1>2. i \in Nat
  BY SizesAssumption
<1> QED
  BY <1>1, <1>2, ProbeIsDynamic

LEMMA FreshType == Fresh \in SlotType /\ Quiet(Fresh)
BY SampleSizes DEF Fresh, SlotType, Quiet

-----------------------------------------------------------------------------
(* What a section writes *)

\* A slot after a section is well formed, and quiet if it was and was granted.
LEMMA EntryFits ==
  ASSUME NEW old \in SlotType, NEW a, Fits(a), a.op \notin {"stopAll", "deallocAll"}
  PROVE  /\ Entry(old, a) \in SlotType
         /\ Quiet(old) /\ (a.op \in {"play", "playSound"} => old.allocated) => Quiet(Entry(old, a))
<1>1. /\ a.op \in OnSlot \cup {"playSound", "setLoop", "setNextPlayer", "added", "loaded"}
      /\ a.loop \in BOOLEAN
  BY DEF Fits, Asks, Ops
<1>2. /\ old.allocated \in BOOLEAN /\ old.playing \in BOOLEAN /\ old.loop \in BOOLEAN
      /\ old.next \in Slots \cup {-1} /\ old.position \in Nat /\ old.pcm \in Samples
  BY DEF SlotType
<1>3. CASE a.op \in {"addSound", "takeSound", "newID"}
  BY <1>2, <1>3 DEF Entry, SlotType, Quiet
<1>4. CASE a.op = "play"
  BY <1>2, <1>4 DEF Entry, SlotType, Quiet
<1>5. CASE a.op = "playSound"
  BY <1>1, <1>2, <1>5 DEF Entry, SlotType, Quiet
<1>6. CASE a.op \in {"pause", "rewind", "setLoop"}
  BY <1>1, <1>2, <1>6 DEF Entry, SlotType, Quiet
<1>7. CASE a.op = "setNextPlayer"
  BY <1>2, <1>7 DEF Entry, SlotType, Quiet, Fits
<1>8. CASE a.op = "dispose"
  BY <1>8, FreshType DEF Entry, Disposed
<1>9. CASE a.op \in {"added", "loaded"}
  BY <1>1, <1>2, <1>9 DEF Entry, SlotType, Quiet, Fits
<1> QED
  BY <1>1, <1>3, <1>4, <1>5, <1>6, <1>7, <1>8, <1>9 DEF OnSlot

LEMMA WriteFits ==
  ASSUME AudioTypeOK, NEW a, Fits(a), Write(a)
  PROVE  /\ slot' \in [Slots -> SlotType] /\ nextId' \in Dynamic
         /\ AllQuiet /\ Grants(a) => AllQuiet'
<1>a. slot \in [Slots -> SlotType] /\ nextId \in Dynamic /\ a.id \in Slots
  BY DEF AudioTypeOK, Fits, Asks
<1>1. CASE a.op = "stopAll"
  <2>1. slot' = [s \in Slots |-> [slot[s] EXCEPT !.playing = FALSE]] /\ nextId' = nextId
    BY <1>1 DEF Write
  <2>2. \A s \in Slots : slot'[s] \in SlotType /\ (Quiet(slot[s]) => Quiet(slot'[s]))
    BY <1>a, <2>1 DEF SlotType, Quiet
  <2> QED
    BY <1>a, <2>1, <2>2 DEF AllQuiet
<1>2. CASE a.op = "deallocAll"
  <2>1. slot' = [s \in Slots |-> Fresh] /\ nextId' = DynamicBase
    BY <1>2 DEF Write
  <2> QED
    BY <2>1, FreshType, DynamicAreSlots DEF AllQuiet
<1>3. CASE a.op \notin {"stopAll", "deallocAll"}
  <2>1. /\ slot' = [slot EXCEPT ![a.id] = Entry(slot[a.id], a)]
        /\ nextId' = IF a.op = "newID" THEN AfterId(a.id) ELSE nextId
    BY <1>3 DEF Write
  <2>2. slot[a.id] \in SlotType
    BY <1>a
  <2>3. Entry(slot[a.id], a) \in SlotType
    BY <1>3, <2>2, EntryFits
  <2>4. ASSUME AllQuiet, Grants(a) PROVE Quiet(Entry(slot[a.id], a))
    <3>1. Quiet(slot[a.id]) /\ (a.op \in {"play", "playSound"} => slot[a.id].allocated)
      BY <1>a, <2>4 DEF AllQuiet, Grants, Taken
    <3> QED
      BY <1>3, <2>2, <3>1, EntryFits
  <2>5. nextId' \in Dynamic
    BY <1>a, <2>1, DynamicAreSlots DEF Fits
  <2> QED
    BY <1>a, <2>1, <2>3, <2>4, <2>5 DEF AllQuiet
<1> QED
  BY <1>1, <1>2, <1>3

-----------------------------------------------------------------------------
(* The threads *)

\* Thread t goes to one of places, and every other stays where it is.
Moved(t, places) ==
  /\ doing' \in [Threads -> [at : Places, ask : Asks]]
  /\ doing'[t].at \in places
  /\ \A u \in Threads : u # t => doing'[u] = doing[u]

LEMMA GoesMoves ==
  ASSUME AudioTypeOK, NEW t \in Threads, NEW at \in Places, NEW a \in Asks, Goes(t, at, a)
  PROVE  Moved(t, {at}) /\ doing'[t].ask = a
BY DEF AudioTypeOK, Goes, Moved

LEMMA ReturnMoves ==
  ASSUME AudioTypeOK, NEW t \in Threads, NEW a \in Asks, Returns(t, a)
  PROVE  Moved(t, {"game", "load"})
<1>1. InGame \in [at : Places, ask : Asks]
  BY SizesAssumption, SampleSizes DEF InGame, Ask, Places, Asks, Ops, Slots
<1>2. CASE a.op = "addSound"
  BY <1>2, GoesMoves DEF Returns, Places, Moved
<1>3. CASE a.op # "addSound"
  <2>1. doing' = [doing EXCEPT ![t] = InGame] /\ InGame.at = "game"
    BY <1>3 DEF Returns, InGame
  <2>2. doing \in [Threads -> [at : Places, ask : Asks]]
    BY DEF AudioTypeOK
  <2> QED
    BY <1>1, <2>1, <2>2 DEF Moved
<1> QED
  BY <1>2, <1>3

\* What is granted depends on the table alone.
LEMMA GrantStays ==
  ASSUME UNCHANGED table, NEW a
  PROVE  Grants(a)' = Grants(a)
<1>1. \A s : Taken(s)' = Taken(s)
  BY DEF Taken, table
<1>2. \A i : Probe(i)' = Probe(i)
  BY DEF Probe, table
<1>3. \A s : FirstFree(s)' = FirstFree(s)
  BY <1>1, <1>2 DEF FirstFree
<1>4. \A s : HasToLoad(s)' = HasToLoad(s)
  BY DEF HasToLoad, table
<1> QED
  BY <1>1, <1>3, <1>4 DEF Grants

LEMMA NotYet ==
  ASSUME AudioTypeOK, Watch
  PROVE  raced' \in BOOLEAN /\ (~raced' => ~raced /\ ~Meeting')
BY DEF AudioTypeOK, Watch, Meeting, SettingUp, At

\* What the invariant keeps when t goes somewhere else than into a section, and
\* writes nothing into the table.
LEMMA WalkKeeps ==
  ASSUME AudioInv, Watch, NEW t \in Threads, NEW places \in SUBSET (Places \ {"section"}),
         Moved(t, places), UNCHANGED table
  PROVE  /\ Fitting' /\ (~raced' => AllQuiet')
         /\ mutex' = mutex => Alone'
<1>1. ~raced' => ~raced
  BY NotYet DEF AudioInv
<1>2. \A u \in Threads : At(u, "section")' => At(u, "section") /\ doing'[u] = doing[u]
  BY DEF Moved, At
<1>3. Fitting'
  BY <1>2 DEF AudioInv, Fitting
<1>4. ~raced' => AllQuiet'
  BY <1>1 DEF AudioInv, AllQuiet, table
<1>5. ASSUME mutex' = mutex PROVE Alone'
  <2> SUFFICES ASSUME ~raced', NEW u \in Threads, At(u, "section")'
               PROVE  /\ mutex' = 0 /\ Grants(doing[u].ask)'
                      /\ \A v \in Threads : At(v, "section")' => v = u
    BY DEF Alone
  <2>1. At(u, "section") /\ mutex = 0 /\ Grants(doing[u].ask) /\ doing'[u].ask = doing[u].ask
    BY <1>1, <1>2 DEF AudioInv, Alone
  <2>2. Grants(doing[u].ask)'
    BY <2>1, GrantStays DEF Grants, Taken, FirstFree, HasToLoad, Probe, table
  <2>3. \A v \in Threads : At(v, "section")' => v = u
    BY <1>1, <1>2, <2>1 DEF AudioInv, Alone
  <2> QED
    BY <1>5, <2>1, <2>2, <2>3
<1> QED
  BY <1>3, <1>4, <1>5

\* ... and when it goes to where nothing is set up.
LEMMA SetUpStays ==
  ASSUME AudioInv, Watch, NEW t \in Threads,
         Moved(t, Places \ {"claim", "create", "open"}), UNCHANGED setup
  PROVE  SetUpOnce'
<1>1. ~raced' => ~raced
  BY NotYet DEF AudioInv
<1>2. \A u \in Threads, p \in {"claim", "create", "open"} : At(u, p)' => At(u, p)
  BY DEF Moved, At
<1>3. \A u \in Threads : SettingUp(u)' => SettingUp(u)
  BY <1>2 DEF SettingUp
<1>4. (~begun => mutex = 0 /\ \A u \in Threads : ~At(u, "create") /\ ~At(u, "open"))'
  BY <1>2 DEF AudioInv, SetUpOnce, setup
<1>5. ASSUME ~raced', NEW u \in Threads
      PROVE  /\ (At(u, "claim") => ~begun)'
             /\ (At(u, "create") => mutex = 0)'
             /\ (\A v \in Threads : SettingUp(u) /\ SettingUp(v) => u = v)'
  <2>1. At(u, "claim")' => ~begun'
    BY <1>1, <1>2, <1>5 DEF AudioInv, SetUpOnce, setup
  <2>2. At(u, "create")' => mutex' = 0
    BY <1>1, <1>2, <1>5 DEF AudioInv, SetUpOnce, setup
  <2>3. \A v \in Threads : SettingUp(u)' /\ SettingUp(v)' => u = v
    BY <1>1, <1>3, <1>5 DEF AudioInv, SetUpOnce
  <2> QED
    BY <2>1, <2>2, <2>3
<1> QED
  BY <1>4, <1>5 DEF SetUpOnce

LEMMA DeviceStays ==
  ASSUME AudioInv, NEW t \in Threads,
         Moved(t, Places \ {"open"}), UNCHANGED <<setup, mixer>>
  PROVE  DeviceInv'
<1>1. \A u \in Threads : At(u, "open")' => At(u, "open")
  BY DEF Moved, At
<1> QED
  BY <1>1 DEF AudioInv, DeviceInv, setup, mixer

\* While nothing is raced, a section that has the lock keeps the callback out.
LEMMA LockedOut == AudioInv /\ ~raced /\ (mutex = 0 \/ Unlocked) => mixed = SlotCount /\ ~aimed
<1>1. SlotCount \notin Slots
  BY SizesAssumption DEF Slots
<1> QED
  BY <1>1 DEF AudioInv, DeviceInv, Holds, Unlocked

-----------------------------------------------------------------------------
(* The calls *)

LEMMA WriteKeeps ==
  ASSUME AudioInv, Watch, NEW t \in Threads, NEW a, Fits(a),
         ~raced => Grants(a) /\ (mutex = 0 \/ Unlocked)
                   /\ \A u \in Threads : At(u, "section") => u = t,
         Write(a), Returns(t, a), UNCHANGED <<setup, mixer>>, calls' \in 0..MaxCalls
  PROVE  AudioInv'
<1> USE DEF AudioInv
<1>a. Moved(t, {"game", "load"})
  BY ReturnMoves DEF Fits
<1>b. ~raced' => ~raced
  BY NotYet
<1>c. \A u \in Threads : At(u, "section")' => u # t /\ At(u, "section") /\ doing'[u] = doing[u]
  BY <1>a DEF Moved, At
<1>1. AudioTypeOK'
  BY <1>a, WriteFits, NotYet DEF AudioTypeOK, Moved, setup, mixer
<1>2. Fitting'
  BY <1>c DEF Fitting
<1>3. DeviceInv'
  BY <1>a, DeviceStays DEF Moved, Places
<1>4. SetUpOnce'
  BY <1>a, SetUpStays DEF Moved, Places
<1>5. Alone'
  BY <1>b, <1>c DEF Alone
<1>6. Holds'
  BY <1>b, LockedOut DEF Holds, mixer
<1>7. ~raced' => AllQuiet'
  BY <1>b, WriteFits
<1> QED
  BY <1>1, <1>2, <1>3, <1>4, <1>5, <1>6, <1>7

LEMMA SectionKeeps ==
  ASSUME AudioInv, Watch, NEW t \in Threads, NEW a, Fits(a), ~At(t, "section"),
         Section(t, a), calls' \in 0..MaxCalls
  PROVE  AudioInv'
<1> USE DEF AudioInv
<1>b. ~raced' => ~raced /\ ~Meeting'
  BY NotYet
<1>1. CASE mutex = 0
  <2>1. Moved(t, {"section"}) /\ doing'[t].ask = a
    BY <1>1, GoesMoves DEF Section, Fits, Places
  <2>2. UNCHANGED <<table, setup, mixer>>
    BY <1>1 DEF Section
  <2>3. AudioTypeOK'
    BY <2>1, <2>2, NotYet DEF AudioTypeOK, Moved, table, setup, mixer
  <2>4. Fitting'
    BY <2>1 DEF Fitting, Moved, At
  <2>5. DeviceInv'
    BY <2>1, <2>2, DeviceStays DEF Moved, Places
  <2>6. SetUpOnce'
    BY <2>1, <2>2, SetUpStays DEF Moved, Places
  <2>7. Alone'
    <3> SUFFICES ASSUME ~raced', NEW u \in Threads, At(u, "section")'
                 PROVE  /\ mutex' = 0 /\ Grants(doing[u].ask)'
                        /\ \A v \in Threads : At(v, "section")' => v = u
      BY DEF Alone
    <3>1. At(t, "section")'
      BY <2>1 DEF Moved, At
    <3>2. \A v, w \in Threads : At(v, "section")' /\ At(w, "section")' => v = w
      BY <1>b DEF Meeting
    <3>3. u = t /\ doing'[u].ask = a
      BY <2>1, <3>1, <3>2
    <3>4. Grants(a)' /\ mutex' = 0
      BY <1>1, <2>2, GrantStays DEF Section, setup
    <3>5. Grants(doing[u].ask)'
      BY <3>3, <3>4 DEF Grants, Taken, FirstFree, HasToLoad, Probe
    <3> QED
      BY <3>2, <3>4, <3>5
  <2>8. Holds' /\ (~raced' => AllQuiet')
    BY <1>b, <2>2 DEF Holds, AllQuiet, table, setup, mixer
  <2> QED
    BY <2>3, <2>4, <2>5, <2>6, <2>7, <2>8
<1>2. CASE mutex # 0
  <2>1. ~raced => \A u \in Threads : ~At(u, "section")
    BY <1>2 DEF Alone
  <2> QED
    BY <1>2, <2>1, WriteKeeps DEF Section
<1> QED
  BY <1>1, <1>2

LEMMA WriteUnlockedKeeps ==
  ASSUME AudioInv, Watch, NEW t \in Threads, WriteUnlocked(t)
  PROVE  AudioInv'
<1>1. At(t, "section") /\ Fits(doing[t].ask) /\ calls' \in 0..MaxCalls
  BY DEF AudioInv, Fitting, WriteUnlocked, AudioTypeOK
<1>2. ~raced => /\ Grants(doing[t].ask) /\ mutex = 0
                /\ \A u \in Threads : At(u, "section") => u = t
  BY <1>1 DEF AudioInv, Alone
<1> QED
  BY <1>1, <1>2, WriteKeeps DEF WriteUnlocked

\* A section with these arguments is asked properly.
LEMMA AskFits ==
  ASSUME AudioTypeOK, NEW s \in Slots, NEW loop \in BOOLEAN
  PROVE  /\ \A op \in OnSlot : Grants(Ask(op, s, loop, 0)) => Fits(Ask(op, s, loop, 0))
         /\ \A op \in {"playSound", "setLoop", "stopAll", "deallocAll"} : Fits(Ask(op, s, loop, 0))
         /\ \A next \in Slots \cup {-1} : Fits(Ask("setNextPlayer", s, loop, next))
<1>1. 0 \in Samples /\ nextId \in Dynamic
  BY SampleSizes DEF AudioTypeOK
<1>2. ASSUME NEW op \in OnSlot, Grants(Ask(op, s, loop, 0))
      PROVE  Fits(Ask(op, s, loop, 0))
  <2>1. op = "newID" => s \in Dynamic
    BY <1>1, <1>2, FreeIsDynamic DEF Grants, Ask
  <2> QED
    BY <1>1, <2>1 DEF Fits, Asks, Ask, Ops, OnSlot
<1>3. \A op \in {"playSound", "setLoop", "stopAll", "deallocAll"} : Fits(Ask(op, s, loop, 0))
  BY <1>1 DEF Fits, Asks, Ask, Ops
<1>4. \A next \in Slots \cup {-1} : Fits(Ask("setNextPlayer", s, loop, next))
  BY DEF Fits, Asks, Ask, Ops
<1> QED
  BY <1>2, <1>3, <1>4

LEMMA CallKeeps ==
  ASSUME AudioInv, Watch, NEW t \in Threads, NEW s \in Slots, NEW loop \in BOOLEAN,
         CallOn(t, s) \/ CallAll(t) \/ Setup(t, s, loop)
  PROVE  AudioInv'
<1>a. calls' \in 0..MaxCalls /\ ~At(t, "section")
  <2>1. Call(t)
    BY DEF CallOn, CallAll, Setup
  <2>2. calls \in Nat /\ calls < MaxCalls /\ calls' = calls + 1
    BY <2>1, SizesAssumption DEF Call, AudioInv, AudioTypeOK
  <2>3. doing[t].at = "game"
    BY <2>1 DEF Call, At
  <2> QED
    BY <2>2, <2>3, SizesAssumption DEF At
<1>b. AudioTypeOK
  BY DEF AudioInv
<1>1. ASSUME NEW op \in OnSlot, Section(t, Ask(op, s, FALSE, 0)) PROVE AudioInv'
  <2>1. Fits(Ask(op, s, FALSE, 0))
    BY <1>b, <1>1, AskFits DEF Section
  <2> QED
    BY <1>a, <1>1, <2>1, SectionKeeps
<1>2. ASSUME NEW op \in {"playSound", "setLoop"}, NEW l \in BOOLEAN, Section(t, Ask(op, s, l, 0))
      PROVE  AudioInv'
  BY <1>a, <1>b, <1>2, AskFits, SectionKeeps
<1>3. ASSUME NEW next \in Slots \cup {-1}, Section(t, Ask("setNextPlayer", s, FALSE, next))
      PROVE  AudioInv'
  BY <1>a, <1>b, <1>3, AskFits, SectionKeeps
<1>4. ASSUME NEW op \in {"stopAll", "deallocAll"}, Section(t, Ask(op, 0, FALSE, 0))
      PROVE  AudioInv'
  <2>1. 0 \in Slots
    BY SizesAssumption DEF Slots
  <2> QED
    BY <1>a, <1>b, <1>4, <2>1, AskFits, SectionKeeps
<1>5. CASE Setup(t, s, loop)
  <2>1. Ask("setup", s, loop, 0) \in Asks
    BY SampleSizes DEF Ask, Asks, Ops
  <2>2. Moved(t, {"load"})
    BY <1>5, <1>b, <2>1, GoesMoves DEF Setup, Places
  <2>3. UNCHANGED <<table, setup, mixer>>
    BY <1>5 DEF Setup
  <2>4. AudioTypeOK'
    BY <1>a, <1>b, <2>2, <2>3, NotYet DEF AudioTypeOK, Moved, table, setup, mixer
  <2>5. Fitting' /\ (~raced' => AllQuiet') /\ Alone'
    BY <2>2, <2>3, WalkKeeps DEF Places, setup
  <2>6. SetUpOnce' /\ DeviceInv'
    BY <2>2, <2>3, SetUpStays, DeviceStays DEF Places, Moved
  <2>7. Holds'
    BY <1>b, <2>3, NotYet DEF AudioInv, Holds, table, setup, mixer
  <2> QED
    BY <2>4, <2>5, <2>6, <2>7 DEF AudioInv
<1> QED
  BY <1>1, <1>2, <1>3, <1>4, <1>5 DEF CallOn, CallAll

-----------------------------------------------------------------------------
(* Loading *)

LEMMA FinishLoadKeeps ==
  ASSUME AudioInv, Watch, NEW t \in Threads, FinishLoad(t)
  PROVE  AudioInv'
<1> DEFINE a(n) == [doing[t].ask EXCEPT !.op = IF @ = "addSound" THEN "added" ELSE "loaded",
                                        !.arg = n]
<1>1. PICK n \in Samples : Section(t, a(n))
  BY SampleSizes DEF FinishLoad
<1>2. doing[t].ask \in Asks
  BY DEF AudioInv, AudioTypeOK
<1>3. Fits(a(n))
  BY <1>2 DEF Fits, Asks, Ops
<1>4. ~At(t, "section") /\ calls' \in 0..MaxCalls
  BY DEF FinishLoad, At, AudioInv, AudioTypeOK
<1> HIDE DEF a
<1> QED
  BY <1>1, <1>3, <1>4, SectionKeeps

\* The steps of ensure_audio leave the table and the mixer alone.
LEMMA EnsureKeeps ==
  ASSUME AudioInv, Watch, NEW t \in Threads, Ensure(t) \/ OpenDevice(t)
  PROVE  AudioInv'
<1> USE DEF AudioInv
<1>a. doing[t].ask \in Asks
  BY DEF AudioTypeOK
<1>b. /\ UNCHANGED <<table, mixer, begun, mutex, calls>>
      /\ device' = device \/ (mutex # 0 /\ device' \in {"open", "unavailable"})
      /\ device = "open" => device' = "open"
  BY DEF Ensure, OpenDevice, setup, DeviceInv
<1>c. Moved(t, {"decode", "claim"}) /\ (At(t, "claim")' => ~begun)
  <2>1. CASE Ensure(t) /\ begun
    BY <1>a, <2>1, GoesMoves DEF Ensure, Places, Moved, At
  <2>2. CASE Ensure(t) /\ ~begun
    BY <1>a, <2>2, GoesMoves DEF Ensure, Places, Moved, At
  <2>3. CASE OpenDevice(t)
    BY <1>a, <2>3, GoesMoves DEF OpenDevice, Places, Moved, At
  <2> QED
    BY <2>1, <2>2, <2>3
<1>d. ~raced' => ~raced /\ ~Meeting'
  BY NotYet
<1>1. AudioTypeOK'
  BY <1>b, <1>c, NotYet DEF AudioTypeOK, Moved, table, mixer
<1>2. Fitting' /\ (~raced' => AllQuiet') /\ Alone'
  BY <1>b, <1>c, WalkKeeps DEF Places
<1>3. DeviceInv'
  <2>1. \A u \in Threads : At(u, "open")' => At(u, "open")
    BY <1>c DEF Moved, At
  <2> QED
    BY <1>b, <2>1 DEF DeviceInv, mixer
<1>4. SetUpOnce'
  <2>1. \A u \in Threads : At(u, "create")' \/ At(u, "open")' => u # t /\ doing'[u] = doing[u]
    BY <1>c DEF Moved, At
  <2>2. (~begun => mutex = 0 /\ \A u \in Threads : ~At(u, "create") /\ ~At(u, "open"))'
    BY <1>b, <2>1 DEF SetUpOnce, At
  <2>3. ASSUME ~raced', NEW u \in Threads
        PROVE  /\ (At(u, "claim") => ~begun)'
               /\ (At(u, "create") => mutex = 0)'
               /\ (\A v \in Threads : SettingUp(u) /\ SettingUp(v) => u = v)'
    <3>1. At(u, "claim")' => ~begun'
      BY <1>b, <1>c, <1>d, <2>3 DEF SetUpOnce, Moved, At
    <3>2. At(u, "create")' => mutex' = 0
      BY <1>b, <1>d, <2>1, <2>3 DEF SetUpOnce, At
    <3>3. \A v \in Threads : SettingUp(u)' /\ SettingUp(v)' => u = v
      BY <1>d, <2>3 DEF Meeting
    <3> QED
      BY <3>1, <3>2, <3>3
  <2> QED
    BY <2>2, <2>3 DEF SetUpOnce
<1>5. Holds'
  BY <1>b, <1>d DEF Holds, table, mixer
<1> QED
  BY <1>1, <1>2, <1>3, <1>4, <1>5

LEMMA ClaimKeeps ==
  ASSUME AudioInv, Watch, NEW t \in Threads, Claim(t)
  PROVE  AudioInv'
<1> USE DEF AudioInv
<1>a. doing[t].ask \in Asks
  BY DEF AudioTypeOK
<1>b. UNCHANGED <<table, mixer, device, mutex, calls>> /\ begun' = TRUE /\ At(t, "claim")
  BY DEF Claim
<1>c. Moved(t, {"create"})
  BY <1>a, GoesMoves DEF Claim, Places
<1>d. ~raced' => ~raced /\ ~Meeting'
  BY NotYet
<1>1. AudioTypeOK'
  BY <1>b, <1>c, NotYet DEF AudioTypeOK, Moved, table, mixer
<1>2. Fitting' /\ (~raced' => AllQuiet') /\ Alone'
  BY <1>b, <1>c, WalkKeeps DEF Places
<1>3. DeviceInv'
  BY <1>b, <1>c DEF DeviceInv, mixer, Moved, At
<1>4. SetUpOnce'
  <2>1. ASSUME ~raced', NEW u \in Threads
        PROVE  /\ (At(u, "claim") => ~begun)'
               /\ (At(u, "create") => mutex = 0)'
               /\ (\A v \in Threads : SettingUp(u) /\ SettingUp(v) => u = v)'
    <3>1. SettingUp(t)'
      BY <1>c DEF Moved, SettingUp, At
    <3>2. \A v, w \in Threads : SettingUp(v)' /\ SettingUp(w)' => v = w
      BY <1>d, <2>1 DEF Meeting
    <3>3. SettingUp(u)' => u = t
      BY <3>1, <3>2
    <3>4. mutex' = 0
      BY <1>b, <1>d, <2>1 DEF SetUpOnce
    <3>5. ~At(u, "claim")'
      BY <1>c, <3>3 DEF SettingUp, Moved, At
    <3> QED
      BY <3>2, <3>4, <3>5
  <2> QED
    BY <1>b, <2>1 DEF SetUpOnce
<1>5. Holds'
  BY <1>b, <1>d DEF Holds, table, mixer
<1> QED
  BY <1>1, <1>2, <1>3, <1>4, <1>5

LEMMA CreateMutexKeeps ==
  ASSUME AudioInv, Watch, NEW t \in Threads, CreateMutex(t)
  PROVE  AudioInv'
<1> USE DEF AudioInv
<1>a. doing[t].ask \in Asks /\ mutex \in Nat
  BY DEF AudioTypeOK
<1>b. /\ UNCHANGED <<table, mixer, device, begun, calls>> /\ At(t, "create")
      /\ mutex' = mutex + 1 /\ mutex' # 0 /\ mutex' \in Nat
  BY <1>a DEF CreateMutex
<1>c. Moved(t, {"open"})
  BY <1>a, GoesMoves DEF CreateMutex, Places
<1>d. ~raced' => ~raced /\ ~Meeting'
  BY NotYet
<1>1. AudioTypeOK'
  BY <1>b, <1>c, NotYet DEF AudioTypeOK, Moved, table, mixer
<1>2. Fitting' /\ (~raced' => AllQuiet')
  BY <1>b, <1>c, WalkKeeps DEF Places
<1>3. Alone'
  <2>1. ~raced' => \A u \in Threads : ~At(u, "section")'
    BY <1>b, <1>d DEF Meeting
  <2> QED
    BY <2>1 DEF Alone
<1>4. DeviceInv'
  BY <1>b DEF DeviceInv, mixer
<1>5. SetUpOnce'
  <2>1. begun
    BY <1>b DEF SetUpOnce
  <2>2. ASSUME ~raced', NEW u \in Threads
        PROVE  /\ (At(u, "claim") => ~begun)'
               /\ (At(u, "create") => mutex = 0)'
               /\ (\A v \in Threads : SettingUp(u) /\ SettingUp(v) => u = v)'
    <3>1. SettingUp(t)'
      BY <1>c DEF Moved, SettingUp, At
    <3>2. \A v, w \in Threads : SettingUp(v)' /\ SettingUp(w)' => v = w
      BY <1>d, <2>2 DEF Meeting
    <3>3. SettingUp(u)' => u = t
      BY <3>1, <3>2
    <3>4. ~At(u, "claim")' /\ ~At(u, "create")'
      BY <1>c, <3>3 DEF SettingUp, Moved, At
    <3> QED
      BY <3>2, <3>4
  <2> QED
    BY <1>b, <2>1, <2>2 DEF SetUpOnce
<1>6. Holds'
  <2>1. ~raced' => mixed = SlotCount /\ ~aimed
    <3>1. ~raced' => mutex = 0
      BY <1>b, <1>d DEF SetUpOnce
    <3> QED
      BY <1>d, <3>1, LockedOut
  <2> QED
    BY <1>b, <2>1 DEF Holds, mixer
<1> QED
  BY <1>1, <1>2, <1>3, <1>4, <1>5, <1>6

LEMMA InsideKeeps ==
  ASSUME AudioInv, Watch, NEW t \in Threads, Inside(t)
  PROVE  AudioInv'
BY WriteUnlockedKeeps, EnsureKeeps, ClaimKeeps, CreateMutexKeeps, FinishLoadKeeps DEF Inside

-----------------------------------------------------------------------------
(* The mixer *)

LEMMA MixKeeps ==
  ASSUME AudioInv, Watch, Mix
  PROVE  AudioInv'
<1> USE DEF AudioInv
<1>a. /\ mixed \in 0..SlotCount /\ frame \in 0..(Frames - 1) /\ SlotCount \notin Slots
      /\ slot \in [Slots -> SlotType] /\ 0 \in 0..SlotCount /\ 0 \in 0..(Frames - 1)
      /\ key \in Nat /\ mutex \in Nat /\ aimed \in BOOLEAN
  BY SizesAssumption DEF AudioTypeOK, Slots
<1>b. ~raced' => ~raced
  BY NotYet
<1>c. UNCHANGED <<nextId, setup, doing, calls>>
  BY DEF Mix, StartMix, SkipSlot, Aim, MixFrame, EndSound, table
<1>d. device = "open"
  BY <1>a DEF Mix, StartMix, SkipSlot, Aim, MixFrame, EndSound, Looks, DeviceInv
<1>e. mutex # 0
  BY <1>d DEF DeviceInv
<1>f. LeaveSlot /\ mixed \in Slots => mixed' \in 0..SlotCount /\ frame' \in 0..(Frames - 1)
  BY <1>a, SizesAssumption DEF LeaveSlot, Slots
\* What the mixer does to the slots and to its own state.
<1>1. /\ slot' \in [Slots -> SlotType] /\ (AllQuiet => AllQuiet')
      /\ mixed' \in 0..SlotCount /\ frame' \in 0..(Frames - 1) /\ aimed' \in BOOLEAN
      /\ key' = key \/ (mixed = SlotCount /\ key' = mutex)
      /\ aimed' => mixed' \in Slots
      /\ ~raced /\ aimed' => slot'[mixed'].position + 1 < slot'[mixed'].pcm
      /\ ~raced /\ mixed' # SlotCount /\ frame' # 0 => slot'[mixed'].pcm # 0
  <2>1. CASE StartMix
    BY <1>a, <2>1 DEF StartMix, table, AllQuiet, DeviceInv
  <2>2. CASE SkipSlot
    BY <1>a, <1>f, <2>2 DEF SkipSlot, LeaveSlot, table, AllQuiet
  <2>3. CASE Aim
    <3> DEFINE new == [slot[mixed] EXCEPT !.position = IF AtEnd(mixed) THEN 0 ELSE @]
    <3>1. mixed \in Slots /\ slot[mixed] \in SlotType
      BY <1>a, <2>3 DEF Aim, Looks
    <3>2. new \in SlotType /\ (Quiet(slot[mixed]) => Quiet(new))
      BY <3>1 DEF SlotType, Quiet
    <3>3. slot' = [slot EXCEPT ![mixed] = new]
      BY <2>3 DEF Aim
    <3>4. slot' \in [Slots -> SlotType] /\ (AllQuiet => AllQuiet') /\ slot'[mixed] = new
      BY <1>a, <3>1, <3>2, <3>3 DEF AllQuiet
    <3>5. slot[mixed].pcm \in Nat /\ slot[mixed].pcm # 1 /\ slot[mixed].position \in Nat
      BY <3>1, SampleSizes DEF SlotType
    <3>6. ~raced => slot[mixed].pcm # 0
      BY <1>a, <2>3, <3>1 DEF Aim, Looks, Silent, Holds
    <3>7. new.pcm = slot[mixed].pcm /\ new.position = IF AtEnd(mixed) THEN 0 ELSE slot[mixed].position
      BY <3>1 DEF SlotType
    <3>8. ~raced => new.position + 1 < new.pcm
      BY <3>5, <3>6, <3>7 DEF AtEnd
    <3>9. mixed' = mixed /\ frame' = frame /\ key' = key /\ aimed' = TRUE
      BY <2>3 DEF Aim
    <3> HIDE DEF new
    <3> QED
      BY <1>a, <3>1, <3>4, <3>6, <3>7, <3>8, <3>9
  <2>4. CASE MixFrame
    <3> DEFINE new == [slot[mixed] EXCEPT !.position = @ + 2]
    <3>1. mixed \in Slots /\ slot[mixed] \in SlotType
      BY <1>a, <2>4 DEF MixFrame, DeviceInv
    <3>2. new \in SlotType /\ (Quiet(slot[mixed]) => Quiet(new))
      BY <3>1 DEF SlotType, Quiet
    <3>3. slot' = [slot EXCEPT ![mixed] = new]
      BY <2>4 DEF MixFrame
    <3>4. mixed' \in 0..SlotCount /\ frame' \in 0..(Frames - 1)
      BY <1>a, <1>f, <2>4, <3>1, SizesAssumption DEF MixFrame
    <3>5. slot' \in [Slots -> SlotType] /\ (AllQuiet => AllQuiet') /\ slot'[mixed] = new
      BY <1>a, <3>1, <3>2, <3>3 DEF AllQuiet
    <3>6. aimed' = FALSE /\ key' = key /\ aimed /\ (frame' # 0 => mixed' = mixed)
      BY <2>4 DEF MixFrame, LeaveSlot
    <3>7. ~raced => new.pcm # 0
      <4>1. slot[mixed].position \in Nat /\ new.pcm = slot[mixed].pcm /\ new.pcm \in Nat
        BY <3>1, SampleSizes DEF SlotType
      <4> QED
        BY <3>6, <4>1 DEF Holds
    <3> HIDE DEF new
    <3> QED
      BY <3>4, <3>5, <3>6, <3>7
  <2>5. CASE EndSound
    <3>1. \A s \in Slots : /\ slot'[s] \in SlotType
                           /\ Quiet(slot[s]) => Quiet(slot'[s])
      BY <1>a, <2>5 DEF EndSound, SlotType, Quiet, Succ
    <3>2. slot' \in [Slots -> SlotType] /\ (AllQuiet => AllQuiet')
      BY <2>5, <3>1 DEF EndSound, AllQuiet
    <3> QED
      BY <1>a, <1>f, <2>5, <3>2 DEF EndSound, Looks, LeaveSlot
  <2> QED
    BY <2>1, <2>2, <2>3, <2>4, <2>5 DEF Mix
<1>2. AudioTypeOK'
  BY <1>1, <1>a, <1>c, NotYet DEF AudioTypeOK, setup
<1>3. Fitting' /\ SetUpOnce'
  BY <1>b, <1>c DEF Fitting, SetUpOnce, SettingUp, At, setup
<1>4. DeviceInv'
  BY <1>1, <1>c, <1>d DEF DeviceInv, At, setup
<1>5. Alone'
  BY <1>b, <1>c, <1>e DEF Alone, At, setup
<1>6. Holds'
  <2>1. mixed # SlotCount \/ key' = mutex
    BY <1>a DEF Mix, StartMix, SkipSlot, Aim, MixFrame, EndSound, Looks, DeviceInv
  <2>2. mutex' = mutex
    BY <1>c DEF setup
  <2> QED
    BY <1>1, <1>b, <1>e, <2>1, <2>2 DEF Holds
<1>7. ~raced' => AllQuiet'
  BY <1>1, <1>b
<1> QED
  BY <1>2, <1>3, <1>4, <1>5, <1>6, <1>7

-----------------------------------------------------------------------------
(* Theorems *)

LEMMA AudioInvHolds == AudioSpec => []AudioInv
<1>1. AudioInit => AudioInv
  <2> SUFFICES ASSUME AudioInit PROVE AudioInv
    OBVIOUS
  <2>1. InGame \in [at : Places, ask : Asks] /\ InGame.at = "game"
    BY SizesAssumption, SampleSizes DEF InGame, Ask, Places, Asks, Ops, Slots
  <2>2. AudioTypeOK
    <3>1. doing \in [Threads -> [at : Places, ask : Asks]]
      BY <2>1 DEF AudioInit
    <3>2. slot \in [Slots -> SlotType] /\ nextId \in Dynamic
      BY FreshType, DynamicAreSlots DEF AudioInit
    <3>3. mixed \in 0..SlotCount /\ frame \in 0..(Frames - 1) /\ calls \in 0..MaxCalls
      BY SizesAssumption DEF AudioInit
    <3> QED
      BY <3>1, <3>2, <3>3 DEF AudioInit, AudioTypeOK
  <2>3. \A t \in Threads : doing[t].at = "game"
    BY <2>1 DEF AudioInit
  <2>4. SlotCount \notin Slots
    BY SizesAssumption DEF Slots
  <2> QED
    BY <2>2, <2>3, <2>4, FreshType
    DEF AudioInit, AudioInv, Fitting, DeviceInv, SetUpOnce, Alone, Holds, AllQuiet, At, SettingUp
<1>2. AudioInv /\ [AudioNext]_audiovars => AudioInv'
  <2> SUFFICES ASSUME AudioInv, [AudioNext]_audiovars PROVE AudioInv'
    OBVIOUS
  <2>1. CASE UNCHANGED audiovars
    <3>1. UNCHANGED <<table, setup, mixer, doing, calls, raced>>
      BY <2>1 DEF audiovars
    <3>2. \A a : Grants(a)' = Grants(a)
      BY <3>1, GrantStays
    <3> QED
      BY <3>1, <3>2
      DEF AudioInv, AudioTypeOK, Fitting, DeviceInv, SetUpOnce, Alone, Holds, AllQuiet, At,
          SettingUp, table, setup, mixer
  <2>2. CASE Act /\ Watch
    <3>1. CASE Mix
      BY <2>2, <3>1, MixKeeps
    <3>2. ASSUME NEW t \in Threads, Inside(t) PROVE AudioInv'
      BY <2>2, <3>2, InsideKeeps
    <3>3. ASSUME NEW t \in Threads, CallAll(t) PROVE AudioInv'
      <4>1. 0 \in Slots
        BY SizesAssumption DEF Slots
      <4> QED
        BY <2>2, <3>3, <4>1, CallKeeps
    <3>4. ASSUME NEW t \in Threads, NEW s \in Slots, CallOn(t, s) PROVE AudioInv'
      BY <2>2, <3>4, CallKeeps
    <3>5. ASSUME NEW t \in Threads, NEW s \in Slots, NEW loop \in BOOLEAN, Setup(t, s, loop)
          PROVE  AudioInv'
      BY <2>2, <3>5, CallKeeps
    <3> QED
      BY <2>2, <3>1, <3>2, <3>3, <3>4, <3>5 DEF Act
  <2> QED
    BY <2>1, <2>2 DEF AudioNext
<1> QED
  BY <1>1, <1>2, PTL DEF AudioSpec

\* Every slot keeps its shape and newID's search starts among its own ids,
\* whatever AudioTool is asked, however its calls meet before there is a lock,
\* and whenever the callback runs.
THEOREM AudioTypeCorrect == AudioSpec => []AudioTypeOK
BY AudioInvHolds, PTL DEF AudioInv

\* An id that newID hands out is silent and holds no samples of its last owner,
\* unless two threads have met while audio was being set up.
THEOREM FreeSlotsAreSilent == AudioSpec => []FreeIsSilent
<1>1. AudioInv => FreeIsSilent
  BY DEF AudioInv, FreeIsSilent, AllQuiet, Quiet
<1> QED
  BY <1>1, AudioInvHolds, PTL

\* The callback never adds samples past the end of a sound, though calls replace
\* sounds that play, unless two threads have met while audio was being set up.
THEOREM MixerReadsInside == AudioSpec => ReadsInside
<1>1. AudioInv /\ [AudioNext]_audiovars
        => [MixFrame => raced \/ slot[mixed].position + 1 < slot[mixed].pcm]_audiovars
  BY DEF AudioInv, Holds, MixFrame
<1> QED
  BY <1>1, AudioInvHolds, PTL DEF AudioSpec, ReadsInside
=============================================================================
