------------------------------ MODULE AudioSlots ------------------------------
(***************************************************************************)
(* The audio half of jni/classes/katamari.cpp: a table of slots that the    *)
(* game's calls (AudioTool) fill and the SDL audio callback mixes.          *)
(*                                                                         *)
(* audio_lock locks nothing until ensure_audio has created the mutex, and   *)
(* ensure_audio, which the first loaded sound runs, is locked by nothing.   *)
(* A section of a call that has the lock is one step.  One that found no    *)
(* mutex takes two, its check and its writes, with anything in between.     *)
(* Decoding is never under the lock.  The callback holds the lock from its  *)
(* first slot to its last and goes on frame by frame.                      *)
(*                                                                         *)
(* Volumes, names and the samples' values are left out, as are a mutex that *)
(* cannot be created and the callback of a second device, when two threads  *)
(* have both set audio up.  Two sections that meet without a lock write one *)
(* after the other here: what is left of a write that is cut through, and   *)
(* what unlocking a mutex does that one has not locked, are left out too.   *)
(***************************************************************************)
EXTENDS Integers, FiniteSets

CONSTANTS
  SlotCount,   \* kAudioSlotCount
  RawCount,    \* kRawSoundCount: the ids that have a sound of their own
  DynamicBase, \* kDynamicAudioBase: the first id newID hands out
  Frames,      \* frames the device asks for in one callback
  Lengths,     \* lengths in samples that decoded files have
  Threads,     \* threads that call AudioTool
  MaxCalls     \* bound: calls made in a behaviour

ASSUME SizesAssumption ==
  /\ SlotCount \in Nat /\ RawCount \in Nat /\ DynamicBase \in Nat
  /\ RawCount <= DynamicBase /\ DynamicBase < SlotCount
  /\ Frames \in Nat \ {0} /\ MaxCalls \in Nat
\* SDL's audio stream gives whole frames of two samples.
ASSUME LengthsAssumption == Lengths \subseteq {n \in Nat \ {0} : n % 2 = 0}

Slots == 0..(SlotCount - 1)
Dynamic == DynamicBase..(SlotCount - 1)
Samples == Lengths \cup {0}   \* 0: missing or unreadable

VARIABLES
  slot,     \* g_audio; pcm is its length, and decoded says pcm is not empty
  nextId,   \* g_next_audio_id
  begun,    \* g_audio_initialized
  mutex,    \* g_audio_mutex: how many were created, of which the last one counts
  device,   \* g_audio_device: "closed", "open" or "unavailable"
  doing,    \* per thread: where in a call it is, and of what it is asked
  mixed,    \* the slot the callback is at; SlotCount outside the callback
  frame,    \* the frame of that slot
  aimed,    \* the callback has found that this frame's samples are there
  key,      \* the mutex the callback has locked
  calls,    \* counts the calls, up to MaxCalls
  raced     \* history: two threads have met in what nothing locks

table == <<slot, nextId>>
setup == <<begun, mutex, device>>
mixer == <<mixed, frame, aimed, key>>
audiovars == <<table, setup, mixer, doing, calls, raced>>

Fresh == [allocated |-> FALSE, playing |-> FALSE, loop |-> FALSE,
          next |-> -1, position |-> 0, pcm |-> 0]

\* What a section of a call is asked: arg is a next player or a decoded length.
Ask(op, s, loop, arg) == [op |-> op, id |-> s, loop |-> loop, arg |-> arg]
InGame == [at |-> "game", ask |-> Ask("none", 0, FALSE, 0)]

AudioInit ==
  /\ slot = [s \in Slots |-> Fresh]
  /\ nextId = DynamicBase
  /\ begun = FALSE /\ mutex = 0 /\ device = "closed"
  /\ doing = [t \in Threads |-> InGame]
  /\ mixed = SlotCount /\ frame = 0 /\ aimed = FALSE /\ key = 0
  /\ calls = 0
  /\ raced = FALSE

-----------------------------------------------------------------------------
(* What the sections of the calls do *)

\* The id at distance i from nextId, round the dynamic ones.
Probe(i) == DynamicBase + ((nextId - DynamicBase + i) % (SlotCount - DynamicBase))

Taken(s) == slot[s].allocated

\* newID's search ends at s.
FirstFree(s) ==
  \E i \in 0..(SlotCount - DynamicBase - 1) :
    s = Probe(i) /\ ~Taken(s) /\ \A j \in 0..(i - 1) : Taken(Probe(j))

\* A variant whose next search may start past the last id.
AfterIdNoWrap(s) == s + 1

AfterId(s) == IF s + 1 < SlotCount THEN s + 1 ELSE DynamicBase

\* What a section asks of the table before it writes.  addSound decodes a sound of
\* its own that is not there; with any other id it takes the slot and no more.
HasToLoad(s) == s < RawCount /\ slot[s].pcm = 0

Grants(a) ==
  /\ a.op \in {"play", "playSound"} => Taken(a.id)
  /\ a.op = "newID" => FirstFree(a.id)
  /\ a.op = "addSound" => HasToLoad(a.id)
  /\ a.op = "takeSound" => ~HasToLoad(a.id)

\* A variant that gives the id back and leaves the sound in the slot.
DisposedIdOnly(old) == [old EXCEPT !.allocated = FALSE]

Disposed(old) == Fresh

\* A slot after a section: pause and stop are the same, and rewind, setLoop and
\* setNextPlayer do not ask whether the slot is anyone's.  "added" and "loaded" are
\* the ends of addSound, which keeps what plays, and of setup, which starts afresh.
Entry(old, a) ==
  CASE a.op \in {"addSound", "takeSound", "newID"} -> [old EXCEPT !.allocated = TRUE]
    [] a.op = "play" -> [old EXCEPT !.playing = TRUE, !.position = IF @ >= old.pcm THEN 0 ELSE @]
    [] a.op = "playSound" -> [old EXCEPT !.playing = TRUE, !.loop = a.loop, !.position = 0]
    [] a.op = "pause" -> [old EXCEPT !.playing = FALSE]
    [] a.op = "rewind" -> [old EXCEPT !.position = 0]
    [] a.op = "setLoop" -> [old EXCEPT !.loop = a.loop]
    [] a.op = "setNextPlayer" -> [old EXCEPT !.next = a.arg]
    [] a.op = "dispose" -> Disposed(old)
    [] a.op = "added" -> [old EXCEPT !.allocated = TRUE, !.pcm = a.arg]
    [] a.op = "loaded" -> [old EXCEPT !.allocated = TRUE, !.pcm = a.arg, !.playing = FALSE,
                             !.loop = a.loop, !.position = 0]

Write(a) ==
  CASE a.op = "stopAll" ->
         slot' = [s \in Slots |-> [slot[s] EXCEPT !.playing = FALSE]] /\ UNCHANGED nextId
    [] a.op = "deallocAll" ->
         slot' = [s \in Slots |-> Fresh] /\ nextId' = DynamicBase
    [] OTHER ->
         /\ slot' = [slot EXCEPT ![a.id] = Entry(@, a)]
         /\ nextId' = IF a.op = "newID" THEN AfterId(a.id) ELSE nextId

-----------------------------------------------------------------------------
(* The threads of the game *)

Goes(t, at, a) == doing' = [doing EXCEPT ![t] = [at |-> at, ask |-> a]]
At(t, at) == doing[t].at = at

\* addSound goes on to decode; every other section is the last of its call.
Returns(t, a) ==
  IF a.op = "addSound" THEN Goes(t, "load", a) ELSE doing' = [doing EXCEPT ![t] = InGame]

\* Nobody has the lock that a section would take now.
Unlocked == mixed = SlotCount \/ key # mutex

\* audio_lock, the section and audio_unlock; without a mutex only the check, for now.
Section(t, a) ==
  /\ Grants(a)
  /\ IF mutex = 0
     THEN Goes(t, "section", a) /\ UNCHANGED table
     ELSE Unlocked /\ Write(a) /\ Returns(t, a)
  /\ UNCHANGED <<setup, mixer>>

\* The writes of a section that found no mutex.
WriteUnlocked(t) ==
  /\ At(t, "section")
  /\ Write(doing[t].ask)
  /\ Returns(t, doing[t].ask)
  /\ UNCHANGED <<setup, mixer, calls>>

Call(t) ==
  /\ At(t, "game")
  /\ calls < MaxCalls /\ calls' = calls + 1

\* The calls that are one section.
OnSlot == {"addSound", "takeSound", "newID", "play", "pause", "rewind", "dispose"}

CallOn(t, s) ==
  /\ Call(t)
  /\ \/ \E op \in OnSlot : Section(t, Ask(op, s, FALSE, 0))
     \/ \E op \in {"playSound", "setLoop"}, loop \in BOOLEAN : Section(t, Ask(op, s, loop, 0))
     \/ \E next \in Slots \cup {-1} : Section(t, Ask("setNextPlayer", s, FALSE, next))

CallAll(t) ==
  /\ Call(t)
  /\ \E op \in {"stopAll", "deallocAll"} : Section(t, Ask(op, 0, FALSE, 0))

\* setup reads nothing of the slot before it decodes, and takes no lock.
Setup(t, s, loop) ==
  /\ Call(t)
  /\ Goes(t, "load", Ask("setup", s, loop, 0))
  /\ UNCHANGED <<table, setup, mixer>>

-----------------------------------------------------------------------------
(* load_sound and ensure_audio *)

\* The file is there: ensure_audio looks at its flag, ...
Ensure(t) ==
  /\ At(t, "load")
  /\ Goes(t, IF begun THEN "decode" ELSE "claim", doing[t].ask)
  /\ UNCHANGED <<table, setup, mixer, calls>>

\* ... sets it, ...
Claim(t) ==
  /\ At(t, "claim")
  /\ begun' = TRUE
  /\ Goes(t, "create", doing[t].ask)
  /\ UNCHANGED <<table, mutex, device, mixer, calls>>

\* ... creates the mutex, also over one that is there, ...
CreateMutex(t) ==
  /\ At(t, "create")
  /\ mutex' = mutex + 1
  /\ Goes(t, "open", doing[t].ask)
  /\ UNCHANGED <<table, begun, device, mixer, calls>>

\* ... and opens the device, whose callback runs from here on.
OpenDevice(t) ==
  /\ At(t, "open")
  /\ device' \in IF device = "open" THEN {"open"} ELSE {"open", "unavailable"}
  /\ Goes(t, "decode", doing[t].ask)
  /\ UNCHANGED <<table, begun, mutex, mixer, calls>>

\* No such file, or what came of decoding it.
FinishLoad(t) ==
  /\ At(t, "load") \/ At(t, "decode")
  /\ \E n \in IF At(t, "load") THEN {0} ELSE Samples :
       Section(t, [doing[t].ask EXCEPT !.op = IF @ = "addSound" THEN "added" ELSE "loaded",
                                       !.arg = n])
  /\ UNCHANGED calls

Inside(t) ==
  WriteUnlocked(t) \/ Ensure(t) \/ Claim(t) \/ CreateMutex(t) \/ OpenDevice(t) \/ FinishLoad(t)

-----------------------------------------------------------------------------
(* audio_callback *)

Silent(s) == ~slot[s].playing \/ slot[s].pcm = 0

\* A variant that looks for the exact end.
AtEndExactly(s) == slot[s].position = slot[s].pcm

AtEnd(s) == slot[s].position + 1 >= slot[s].pcm

LeaveSlot == mixed' = mixed + 1 /\ frame' = 0

StartMix ==
  /\ device = "open" /\ mixed = SlotCount
  /\ mixed' = 0 /\ frame' = 0 /\ key' = mutex
  /\ UNCHANGED <<table, setup, aimed, doing, calls>>

SkipSlot ==
  /\ mixed \in Slots /\ frame = 0 /\ ~aimed /\ Silent(mixed)
  /\ LeaveSlot
  /\ UNCHANGED <<table, setup, aimed, key, doing, calls>>

\* A playing slot is looked at once, each of its frames before it is mixed.
Looks == mixed \in Slots /\ ~aimed /\ (frame = 0 => ~Silent(mixed))

Aim ==
  /\ Looks
  /\ AtEnd(mixed) => slot[mixed].loop
  /\ slot' = [slot EXCEPT ![mixed].position = IF AtEnd(mixed) THEN 0 ELSE @]
  /\ aimed' = TRUE
  /\ UNCHANGED <<nextId, setup, mixed, frame, key, doing, calls>>

\* A variant that mixes the same frame again and again.
MixInPlace ==
  /\ aimed
  /\ aimed' = FALSE
  /\ IF frame + 1 < Frames THEN frame' = frame + 1 /\ UNCHANGED mixed ELSE LeaveSlot
  /\ UNCHANGED <<table, setup, key, doing, calls>>

\* Adds the samples at position and position + 1 to the output.
MixFrame ==
  /\ aimed
  /\ slot' = [slot EXCEPT ![mixed].position = @ + 2]
  /\ aimed' = FALSE
  /\ IF frame + 1 < Frames THEN frame' = frame + 1 /\ UNCHANGED mixed ELSE LeaveSlot
  /\ UNCHANGED <<nextId, setup, key, doing, calls>>

\* A sound that is through hands over to its next player, if that is loaded.
Succ(s) == {n \in Slots : n = slot[s].next /\ slot[n].allocated /\ slot[n].pcm > 0}

EndSound ==
  /\ Looks /\ AtEnd(mixed) /\ ~slot[mixed].loop
  /\ slot' = [s \in Slots |->
       IF s \in Succ(mixed) THEN [slot[s] EXCEPT !.position = 0, !.playing = TRUE]
       ELSE IF s = mixed THEN [slot[s] EXCEPT !.playing = FALSE] ELSE slot[s]]
  /\ LeaveSlot
  /\ UNCHANGED <<nextId, setup, aimed, key, doing, calls>>

Mix == StartMix \/ SkipSlot \/ Aim \/ MixFrame \/ EndSound

-----------------------------------------------------------------------------
\* Two threads are in sections or in ensure_audio with nothing that keeps them apart,
\* or one is still in a section without the lock when the mutex is there.
SettingUp(t) == At(t, "claim") \/ At(t, "create") \/ At(t, "open")

Meeting ==
  \/ \E t, u \in Threads : t # u /\ At(t, "section") /\ At(u, "section")
  \/ \E t, u \in Threads : t # u /\ SettingUp(t) /\ SettingUp(u)
  \/ mutex # 0 /\ \E t \in Threads : At(t, "section")

Watch == raced' = (raced \/ Meeting')

Act ==
  \/ \E t \in Threads :
       \/ \E s \in Slots : CallOn(t, s) \/ \E loop \in BOOLEAN : Setup(t, s, loop)
       \/ CallAll(t)
       \/ Inside(t)
  \/ Mix

AudioNext == Act /\ Watch

\* SDL goes on calling the callback, and pauses between two calls of it: a
\* thread inside a call gets the lock in the end and goes on.
AudioSpec ==
  /\ AudioInit /\ [][AudioNext]_audiovars
  /\ WF_audiovars(Mix /\ Watch) /\ SF_audiovars(\E t \in Threads : Inside(t) /\ Watch)

-----------------------------------------------------------------------------
(* Properties *)

SlotType == [allocated : BOOLEAN, playing : BOOLEAN, loop : BOOLEAN,
             next : Slots \cup {-1}, position : Nat, pcm : Samples]
Ops == OnSlot \cup {"none", "playSound", "setLoop", "setNextPlayer", "stopAll", "deallocAll",
                    "setup", "added", "loaded"}
Asks == [op : Ops, id : Slots, loop : BOOLEAN, arg : Slots \cup Samples \cup {-1}]
Places == {"game", "section", "load", "claim", "create", "open", "decode"}

\* Every slot is well formed, and newID starts from one of its own ids.
AudioTypeOK ==
  /\ slot \in [Slots -> SlotType]
  /\ nextId \in Dynamic
  /\ begun \in BOOLEAN /\ mutex \in Nat
  /\ device \in {"closed", "open", "unavailable"}
  /\ doing \in [Threads -> [at : Places, ask : Asks]]
  /\ mixed \in 0..SlotCount /\ frame \in 0..(Frames - 1)
  /\ aimed \in BOOLEAN /\ key \in Nat
  /\ calls \in 0..MaxCalls
  /\ raced \in BOOLEAN

\* A slot nobody has neither plays nor keeps samples, so the id that newID
\* hands out starts silent, whatever was called on it after it was disposed:
\* unless two threads have met before there was a lock, as in playSound's check,
\* another thread's dispose, and playSound's writes.
FreeIsSilent ==
  ~raced => \A s \in Slots : ~slot[s].allocated => ~slot[s].playing /\ slot[s].pcm = 0

\* The mixer adds two samples that the slot has, though calls in between
\* replace the samples of a slot that plays: unless two threads have met, as when
\* one replaces samples that it began to replace before there was a lock.
ReadsInside ==
  [][MixFrame => raced \/ slot[mixed].position + 1 < slot[mixed].pcm]_audiovars

\* The sounds that play on by themselves: looped, never decoded, or in a
\* circle of next players.
Following(s) ==
  LET after[n \in Slots] ==
        IF n = 0 THEN Succ(s) ELSE after[n - 1] \cup UNION {Succ(x) : x \in after[n - 1]}
  IN  after[SlotCount - 1]

Endless(s) == slot[s].loop \/ slot[s].pcm = 0 \/ s \in Following(s)

\* Once the game leaves the sounds alone, each that can end has ended.
FallsSilent ==
  <>[](device = "open" => \A s \in Slots : slot[s].playing => Endless(s))
=============================================================================
