--------------------------- MODULE FrameLoop_proofs ---------------------------
(***************************************************************************)
(* Proofs about KatamariInput and the FrameLoop around it, for any          *)
(* directions, shoulders and injected controls and any number of them held  *)
(* at once.  ReleasedMeansStill and NoTouchStuck are split by what they are *)
(* about - the tilt, the drift of the pointer, the strafe touches and the   *)
(* pointer's touch - each with the flag that answers for it.                *)
(***************************************************************************)
EXTENDS FrameLoop, TLAPS

Holds(src, c) == <<src, c>> \in held
PadHolds(c) == Holds("pad", c) \/ Holds("remote", c)

\* The tilt is the pad's or a remote control's, in the accelerometer mode only.
TiltHeld ==
  /\ tilt \subseteq Dirs
  /\ ~mode => tilt = {}
  /\ \A d \in tilt : PadHolds(d)

\* In the accelerometer mode only keys move the pointer, so a pad that leaves
\* the drift alone when it lets go does no harm.
DriftHeld ==
  /\ drift \in Dirs \cup {"none"}
  /\ drift # "none" => \E d \in Axis(drift) : PadHolds(d) \/ Holds("keys", d)
  /\ drift # "none" /\ mode => \E d \in Axis(drift) : Holds("keys", d)

StrafeHeld ==
  /\ strafe \subseteq Sides
  /\ touching \cap Sides \subseteq strafe
  /\ \A s \in strafe : PadHolds(s)

PointerHeld ==
  /\ mouse \in BOOLEAN /\ press \in BOOLEAN
  /\ press => Holds("remote", "a")
  /\ mouse => Holds("mouse", "left")
  /\ "pointer" \in touching => press \/ mouse

InputInv == TiltHeld /\ DriftHeld /\ StrafeHeld /\ PointerHeld

-----------------------------------------------------------------------------
(* What the parts of the handlers do.  Which of held may have changed is the  *)
(* caller's: Pressed adds a control, Released takes one away.                 *)

Pressed(src, c) == held' = held \cup {<<src, c>>}
Released(src, c) == held' = held \ {<<src, c>>}

LEMMA SteerKeeps ==
  ASSUME InputInv, NEW src \in Sources, NEW d \in Dirs, Steer(src, d), Pressed(src, d)
  PROVE  InputInv'
<1> USE DEF InputInv, Steer, Pressed, Sources
<1>1. d \in Axis(d)
  BY ControlsAssumption DEF Axis
<1>2. TiltHeld'
  BY DEF TiltHeld, PadHolds, Holds
<1>3. DriftHeld'
  <2>1. CASE mode /\ src # "keys"
    BY <2>1 DEF DriftHeld, PadHolds, Holds
  <2>2. CASE ~(mode /\ src # "keys")
    BY <2>2, <1>1 DEF DriftHeld, PadHolds, Holds
  <2> QED BY <2>1, <2>2
<1>4. StrafeHeld'
  BY DEF StrafeHeld, PadHolds, Holds
<1>5. PointerHeld'
  BY DEF PointerHeld, Holds
<1> QED BY <1>2, <1>3, <1>4, <1>5

LEMMA UnsteerKeeps ==
  ASSUME InputInv, NEW src \in Sources, NEW d \in Dirs, Unsteer(src, d), Released(src, d)
  PROVE  InputInv'
<1> USE DEF InputInv, Unsteer, Released, Sources
<1>1. TiltHeld'
  BY DEF TiltHeld, PadHolds, Holds
<1>2. DriftHeld'
  <2>1. CASE mode /\ src # "keys"
    BY <2>1 DEF DriftHeld, PadHolds, Holds
  <2>2. CASE ~(mode /\ src # "keys") /\ drift \in Axis(d)
    BY <2>2 DEF DriftHeld
  <2>3. CASE ~(mode /\ src # "keys") /\ drift \notin Axis(d)
    <3>1. drift # "none" => d \notin Axis(drift)
      BY <2>3, ControlsAssumption DEF DriftHeld, Axis
    <3> QED BY <2>3, <3>1 DEF DriftHeld, PadHolds, Holds
  <2> QED BY <2>1, <2>2, <2>3
<1>3. StrafeHeld'
  BY ControlsAssumption DEF StrafeHeld, PadHolds, Holds
<1>4. PointerHeld'
  BY ControlsAssumption DEF PointerHeld, Holds
<1> QED BY <1>1, <1>2, <1>3, <1>4

AllDirs == {"up", "down", "left", "right"}

\* An event of another control, or of none, on which tilt and drift do not depend.
SameDirections == \A src \in Sources, d \in AllDirs : Holds(src, d)' <=> Holds(src, d)
SameShoulders == \A src \in Sources, s \in Sides : Holds(src, s)' <=> Holds(src, s)
SamePointer == (Holds("remote", "a")' <=> Holds("remote", "a")) /\ (Holds("mouse", "left")' <=> Holds("mouse", "left"))

LEMMA SameHeld == ASSUME UNCHANGED held PROVE SameDirections /\ SameShoulders /\ SamePointer
BY DEF SameDirections, SameShoulders, SamePointer, Holds

\* When nobody lets go of a direction, dropping tilt or drift is always right.
LEMMA TiltDriftKept ==
  ASSUME TiltHeld, DriftHeld, SameDirections,
         tilt' \in {tilt, {}}, drift' \in {drift, "none"},
         mode' = mode \/ (mode' /\ drift' = "none") \/ (~mode' /\ tilt' = {})
  PROVE  TiltHeld' /\ DriftHeld'
<1>1. \A d \in Dirs : PadHolds(d) => PadHolds(d)'
  BY ControlsAssumption DEF SameDirections, PadHolds, Holds, Sources, AllDirs
<1>2. TiltHeld'
  BY <1>1 DEF TiltHeld
<1>3. Axis(drift) \subseteq AllDirs
  BY DEF Axis, AllDirs
<1>4. \A d \in Axis(drift) : (PadHolds(d) => PadHolds(d)') /\ (Holds("keys", d) => Holds("keys", d)')
  BY <1>3 DEF SameDirections, PadHolds, Holds, Sources
<1>5. DriftHeld'
  <2>1. CASE drift' = "none"
    BY <2>1 DEF DriftHeld
  <2>2. CASE drift' # "none" /\ drift' = drift
    BY <2>2, <1>4 DEF DriftHeld, Axis
  <2> QED BY <2>1, <2>2
<1> QED BY <1>2, <1>5

LEMMA StrafeKept ==
  ASSUME StrafeHeld, SameShoulders,
         \/ strafe' = strafe /\ touching' \cap Sides \subseteq touching
         \/ strafe' = {} /\ touching' \cap Sides \subseteq touching \ strafe
  PROVE  StrafeHeld'
BY DEF StrafeHeld, SameShoulders, PadHolds, Holds, Sources

LEMMA PointerKept ==
  ASSUME PointerHeld, SamePointer, UNCHANGED mouse,
         \/ UNCHANGED press /\ ("pointer" \in touching' => "pointer" \in touching)
         \/ press' = FALSE /\ ("pointer" \in touching' => "pointer" \in touching /\ ~press)
  PROVE  PointerHeld'
<1>1. CASE UNCHANGED press /\ ("pointer" \in touching' => "pointer" \in touching)
  <2>1. UNCHANGED <<press, mouse>>
    BY <1>1
  <2> QED BY <1>1, <2>1 DEF PointerHeld, SamePointer, Holds
<1>2. CASE press' = FALSE /\ ("pointer" \in touching' => "pointer" \in touching /\ ~press)
  BY <1>2 DEF PointerHeld, SamePointer, Holds
<1> QED BY <1>1, <1>2

-----------------------------------------------------------------------------
LEMMA ToggleKeeps ==
  ASSUME InputInv, ToggleAccel, SameDirections, SameShoulders, SamePointer
  PROVE  InputInv'
<1> USE DEF InputInv, ToggleAccel, SwitchPointer, ShowCursor, HideCursor, Lift, PressedPointer
<1>1. TiltHeld' /\ DriftHeld'
  BY TiltDriftKept
<1>2. StrafeHeld'
  BY StrafeKept
<1>3. PointerHeld'
  BY PointerKept
<1> QED BY <1>1, <1>2, <1>3

LEMMA StartKeeps ==
  ASSUME InputInv, StartButton, SameDirections, SameShoulders, SamePointer
  PROVE  InputInv'
<1> USE DEF InputInv, StartButton, ShowCursor, Lift
<1>1. TiltHeld' /\ DriftHeld'
  BY TiltDriftKept DEF TiltHeld
<1>2. StrafeHeld'
  BY StrafeKept
<1>3. PointerHeld'
  BY PointerKept
<1> QED BY <1>1, <1>2, <1>3

LEMMA StrafeKeeps ==
  ASSUME InputInv, NEW src \in {"pad", "remote"}, NEW s \in Sides, NEW down \in BOOLEAN,
         StrafeTouch(s, down), IF down THEN Pressed(src, s) ELSE Released(src, s)
  PROVE  InputInv'
<1> USE DEF InputInv, StrafeTouch, pointing, tilting, Pressed, Released
<1>1. SameDirections /\ SamePointer
  BY ControlsAssumption DEF SameDirections, SamePointer, Holds, AllDirs
<1>2. TiltHeld' /\ DriftHeld'
  BY <1>1, TiltDriftKept
<1>3. StrafeHeld'
  BY DEF StrafeHeld, PadHolds, Holds
<1>4. PointerHeld'
  BY <1>1, PointerKept, ControlsAssumption
<1> QED BY <1>2, <1>3, <1>4

LEMMA PressKeeps ==
  ASSUME InputInv, NEW down \in BOOLEAN,
         CursorPress(down), IF down THEN Pressed("remote", "a") ELSE Released("remote", "a")
  PROVE  InputInv'
<1> USE DEF InputInv, CursorPress, tilting, Pressed, Released
<1>1. SameDirections /\ SameShoulders
  BY ControlsAssumption DEF SameDirections, SameShoulders, Holds, AllDirs
<1>2. TiltHeld' /\ DriftHeld'
  BY <1>1, TiltDriftKept
<1>3. StrafeHeld'
  BY <1>1, StrafeKept, ControlsAssumption
<1>4. PointerHeld'
  BY DEF PointerHeld, Holds
<1> QED BY <1>2, <1>3, <1>4

LEMMA InjectKeeps ==
  ASSUME InputInv, NEW c \in Remote, NEW down \in BOOLEAN, Inject(c, down)
  PROVE  InputInv'
<1> USE DEF Inject, Pressed, Released
<1>1. CASE c \in Dirs
  <2>1. CASE down
    <3>1. Steer("remote", c) /\ Pressed("remote", c)
      BY <1>1, <2>1, ControlsAssumption
    <3> QED BY <1>1, <3>1, SteerKeeps DEF Sources
  <2>2. CASE ~down
    <3>1. Unsteer("remote", c) /\ Released("remote", c)
      BY <1>1, <2>2, ControlsAssumption
    <3> QED BY <1>1, <3>1, UnsteerKeeps DEF Sources
  <2> QED BY <2>1, <2>2
<1>2. CASE c \in Sides
  <2>1. c \notin Dirs
    BY <1>2, ControlsAssumption
  <2>2. StrafeTouch(c, down) /\ IF down THEN Pressed("remote", c) ELSE Released("remote", c)
    BY <1>2, <2>1, ControlsAssumption
  <2> QED BY <1>2, <2>2, StrafeKeeps
<1>3. CASE c = "a"
  <2>1. c \notin Dirs \cup Sides
    BY <1>3, ControlsAssumption
  <2> QED BY <1>3, <2>1, PressKeeps
<1>4. CASE c \in {"y", "start"}
  <2>1. c \notin Dirs \cup Sides \cup {"a"}
    BY <1>4, ControlsAssumption
  <2>2. SameDirections /\ SameShoulders /\ SamePointer
    BY <2>1, <1>4, ControlsAssumption DEF SameDirections, SameShoulders, SamePointer, Holds, AllDirs
  <2>3. CASE down /\ c = "y"
    BY <2>1, <2>2, <2>3, ToggleKeeps
  <2>4. CASE down /\ c = "start"
    BY <2>1, <2>2, <2>4, StartKeeps
  <2>5. CASE ~down
    <3>1. UNCHANGED <<pointing, tilting, strafe, touching>>
      BY <2>1, <2>5, <1>4
    <3>2. TiltHeld' /\ DriftHeld'
      BY <3>1, <2>2, TiltDriftKept DEF InputInv, pointing, tilting
    <3>3. StrafeHeld' /\ PointerHeld'
      BY <3>1, <2>2, StrafeKept, PointerKept DEF InputInv, pointing, tilting
    <3> QED BY <3>2, <3>3 DEF InputInv
  <2> QED BY <1>4, <2>3, <2>4, <2>5
<1> QED BY <1>1, <1>2, <1>3, <1>4, ControlsAssumption

LEMMA MouseKeeps ==
  ASSUME InputInv, MouseDown \/ MouseUp
  PROVE  InputInv'
<1> USE DEF InputInv, MouseDown, MouseUp, Down, Up, HideCursor, Lift, tilting
<1>1. SameDirections /\ SameShoulders
  BY DEF SameDirections, SameShoulders, Holds, Sources
<1>2. TiltHeld' /\ DriftHeld'
  BY <1>1, TiltDriftKept
<1>3. StrafeHeld'
  BY <1>1, StrafeKept, ControlsAssumption
<1>4. PointerHeld'
  <2>1. CASE MouseDown
    BY <2>1 DEF PointerHeld, Holds
  <2>2. CASE MouseUp
    BY <2>2 DEF PointerHeld, Holds
  <2> QED BY <2>1, <2>2
<1> QED BY <1>2, <1>3, <1>4

-----------------------------------------------------------------------------
InputNext == Event \/ Injected \/ CursorSet \/ DebounceOver

LEMMA InitHolds == Init => InputInv
BY DEF Init, InputInv, TiltHeld, DriftHeld, StrafeHeld, PointerHeld

LEMMA EventKeeps ==
  ASSUME InputInv, [InputNext]_ivars
  PROVE  InputInv'
<1>1. CASE DirectionDown
  BY <1>1, SteerKeeps DEF DirectionDown, Down, Pressed, Sources
<1>2. CASE DirectionUp
  BY <1>2, UnsteerKeeps DEF DirectionUp, Up, Released, Sources
<1>3. CASE ShoulderDown
  BY <1>3, StrafeKeeps DEF ShoulderDown, Down, Pressed
<1>4. CASE ShoulderUp
  BY <1>4, StrafeKeeps DEF ShoulderUp, Up, Released
<1>5. CASE ToggleAccel /\ UNCHANGED held
  BY <1>5, ToggleKeeps, SameHeld
<1>6. CASE StartButton /\ UNCHANGED held
  BY <1>6, StartKeeps, SameHeld
<1>7. CASE MouseDown \/ MouseUp
  BY <1>7, MouseKeeps
<1>8. CASE Injected
  BY <1>8, InjectKeeps DEF Injected
<1>9. CASE /\ UNCHANGED <<tilt, drift, mode, mouse, press, strafe, held>>
           /\ touching' \in {touching, touching \ {"pointer"}}
  <2>1. TiltHeld' /\ DriftHeld'
    BY <1>9, SameHeld, TiltDriftKept DEF InputInv
  <2>2. StrafeHeld' /\ PointerHeld'
    BY <1>9, SameHeld, StrafeKept, PointerKept DEF InputInv
  <2> QED BY <2>1, <2>2 DEF InputInv
<1>10. CASE ButtonA \/ CursorSet \/ DebounceOver \/ UNCHANGED ivars
  BY <1>10, <1>9
     DEF ButtonA, TapCursor, CursorSet, DebounceOver, Lift, ivars, pointing, tilting
<1>11. CASE Trigger
  BY <1>11, <1>5, <1>9 DEF Trigger, pointing
<1> QED
  BY <1>1, <1>2, <1>3, <1>4, <1>5, <1>6, <1>7, <1>8, <1>10, <1>11
     DEF InputNext, Event, ButtonY, ButtonStart

LEMMA InputInvHolds == InputSpec => []InputInv
<1>1. InputInv /\ [InputNext]_ivars => InputInv'
  BY EventKeeps
<1> QED BY <1>1, InitHolds, PTL DEF InputSpec, InputNext

LEMMA InvStills == InputInv => ReleasedMeansStill /\ NoTouchStuck
<1>1. InputInv => ReleasedMeansStill
  BY DEF InputInv, TiltHeld, DriftHeld, ReleasedMeansStill, HeldOn, PadHolds, Holds, Sources
<1>2. InputInv => NoTouchStuck
  BY DEF InputInv, StrafeHeld, PointerHeld, NoTouchStuck, HeldOn, PadHolds, Holds, Sources
<1> QED BY <1>1, <1>2

\* Whatever modes, devices, injected controls and Start are mixed, a direction
\* that nobody holds neither tilts the game nor moves the pointer.
THEOREM ReleaseStops == InputSpec => []ReleasedMeansStill
BY InvStills, InputInvHolds, PTL

\* Every touch the game believes is down has a finger behind it.
THEOREM TouchesHaveFingers == InputSpec => []NoTouchStuck
BY InvStills, InputInvHolds, PTL

-----------------------------------------------------------------------------
(* The frame loop around it: what is in the file, in the pictures and in      *)
(* status.json, and the input bridge through the loader's whole life.         *)

\* No picture is ever partly written under its name: none is "part".
LoopTypeOK ==
  /\ file \in Seq(Commands)
  /\ token \in Shots \cup {None}
  /\ server.op = "press" => server.arg \in Remote
  /\ server.op = "capture" => server.arg \in Shots
  /\ png \in [Shots -> {"absent", "temp", "whole"}]

\* run.sh has emptied the file before a loader starts to read it.
Emptied == phase \notin {"off", "spawned"} => old = 0

\* The answer of an earlier loader is gone until the new one gives its own.
NoOldAnswer == phase \in {"spawned", "clean"} => status = None

\* Between nativeRender and the next command no touch is unseen.
AllSeen == phase \notin {"events", "tick"} => began = {}

LoopInv == LoopTypeOK /\ Emptied /\ NoOldAnswer /\ AllSeen /\ InputInv

LEMMA LoopInitInv == LoopInit => LoopInv
<1> SUFFICES ASSUME LoopInit PROVE LoopInv
  OBVIOUS
<1>1. file \in Seq(Commands)
  <2>1. <<"quit", TRUE>> \in Commands
    BY DEF Commands
  <2> HIDE DEF Commands
  <2>2. \A c \in Commands : <<c>> \in Seq(Commands)
    OBVIOUS
  <2>3. <<>> \in Seq(Commands)
    OBVIOUS
  <2>4. <<<<"quit", TRUE>>>> \in Seq(Commands)
    BY <2>1, <2>2
  <2> QED BY <2>3, <2>4, Zenon DEF LoopInit
<1>2. InputInv
  BY InitHolds DEF LoopInit
<1> QED
  BY <1>1, <1>2 DEF LoopInit, LoopInv, LoopTypeOK, Emptied, NoOldAnswer, AllSeen, Idle

\* Whatever the loop does is an input step of the bridge, or its end.
LEMMA LoopInput ==
  ASSUME LoopInv, [LoopNext]_vars
  PROVE  InputInv'
<1>0. InputInv /\ LoopTypeOK
  BY DEF LoopInv
<1>1. CASE UNCHANGED ivars
  BY <1>0, <1>1, EventKeeps
<1>2. CASE Forget
  <2>1. Init'
    BY <1>2 DEF Forget, Init
  <2> QED BY <2>1 DEF Init, InputInv, TiltHeld, DriftHeld, StrafeHeld, PointerHeld
<1>3. CASE TakeCommand
  <2> DEFINE cmd == Head(file)
  <2>1. cmd \in Commands
    BY <1>0, <1>3 DEF TakeCommand, LoopTypeOK
  <2>2. cmd[2] \in BOOLEAN
    BY <2>1 DEF Commands
  <2>3. Command(cmd)
    BY <1>3 DEF TakeCommand
  <2> HIDE DEF cmd
  <2>4. CASE cmd[1] \in Remote /\ Inject(cmd[1], cmd[2])
    BY <1>0, <2>2, <2>4, InjectKeeps
  <2>5. CASE CursorSet
    BY <1>0, <2>5, EventKeeps DEF InputNext
  <2> QED BY <1>1, <2>3, <2>4, <2>5 DEF Command
<1>4. CASE PollEvent
  BY <1>0, <1>4, EventKeeps DEF PollEvent, InputNext
<1>5. CASE Debounced
  BY <1>0, <1>5, EventKeeps DEF Debounced, InputNext
<1>6. UNCHANGED ivars \/ Forget \/ TakeCommand \/ PollEvent \/ Debounced
  BY DEF LoopNext, Server, Frame, StartEmulator, StartDone, StartFails, PressControl, ReleaseControl,
         CaptureScreen, ReadScreen, CaptureFails, StopEmulator, StopDone, SendByHand, Runner, LoaderStarts,
         NoCommand, TakeQuit, NoMoreEvents, Render, NoShot, WriteShot, RenameShot, QuitEvent, GameEnds,
         LoaderDies, Exit, vars
<1> QED BY <1>1, <1>2, <1>3, <1>4, <1>5, <1>6

\* The server's steps leave the loader alone, but for what they start.
LEMMA ServerKeeps ==
  ASSUME LoopInv, Server
  PROVE  LoopTypeOK' /\ Emptied' /\ NoOldAnswer' /\ AllSeen'
<1>0. LoopTypeOK /\ Emptied /\ NoOldAnswer /\ AllSeen
  BY DEF LoopInv
<1> USE DEF Idle
<1>1. \A c \in Commands : Append(file, c) \in Seq(Commands)
  BY <1>0 DEF LoopTypeOK
<1>2. /\ \A c \in Remote, b \in BOOLEAN : <<c, b>> \in Commands
      /\ \A t \in Shots \cup {"cursor", "quit"} : <<t, TRUE>> \in Commands
  BY DEF Commands
<1> HIDE DEF Commands
<1>3. CASE StartEmulator
  BY <1>0, <1>3 DEF StartEmulator, LoopTypeOK, Emptied, NoOldAnswer, AllSeen
<1>4. CASE StartDone \/ StartFails \/ ReadScreen \/ CaptureFails \/ StopDone
  BY <1>0, <1>4 DEF StartDone, StartFails, ReadScreen, CaptureFails, StopDone, LoopTypeOK, Emptied, NoOldAnswer, AllSeen
<1>5. CASE PressControl \/ CaptureScreen \/ StopEmulator \/ SendByHand
  <2>1. /\ UNCHANGED <<phase, status, token, png, began, old>>
        /\ \E c \in Commands : file' = Append(file, c)
    BY <1>2, <1>5 DEF PressControl, CaptureScreen, StopEmulator, SendByHand, Put
  <2>2. file' \in Seq(Commands)
    BY <1>1, <2>1
  <2>3. /\ server'.op = "press" => server'.arg \in Remote
        /\ server'.op = "capture" => server'.arg \in Shots
    <3>1. CASE PressControl
      <4>1. PICK c \in Remote : server' = [op |-> "press", arg |-> c]
        BY <3>1 DEF PressControl
      <4> QED BY <4>1
    <3>2. CASE CaptureScreen
      <4>1. PICK t \in Shots : server' = [op |-> "capture", arg |-> t]
        BY <3>2 DEF CaptureScreen
      <4> QED BY <4>1
    <3>3. CASE StopEmulator
      BY <3>3 DEF StopEmulator
    <3>4. CASE SendByHand
      BY <1>0, <3>4 DEF SendByHand, LoopTypeOK
    <3> QED BY <1>5, <3>1, <3>2, <3>3, <3>4
  <2> QED BY <1>0, <2>1, <2>2, <2>3 DEF LoopTypeOK, Emptied, NoOldAnswer, AllSeen
<1>6. CASE ReleaseControl
  BY <1>0, <1>1, <1>2, <1>6 DEF ReleaseControl, LoopTypeOK, Emptied, NoOldAnswer, AllSeen
<1> QED BY <1>3, <1>4, <1>5, <1>6 DEF Server

LEMMA LoaderKeeps ==
  ASSUME LoopInv, Frame \/ PollEvent \/ QuitEvent \/ GameEnds \/ LoaderDies \/ Debounced \/ UNCHANGED vars
  PROVE  LoopTypeOK' /\ Emptied' /\ NoOldAnswer' /\ AllSeen'
<1>0. LoopTypeOK /\ Emptied /\ NoOldAnswer /\ AllSeen
  BY DEF LoopInv
<1>1. file # <<>> => Tail(file) \in Seq(Commands) /\ Head(file) \in Commands
  BY <1>0 DEF LoopTypeOK
<1> HIDE DEF Commands
<1>2. CASE Runner
  BY <1>0, <1>2 DEF Runner, LoopTypeOK, Emptied, NoOldAnswer, AllSeen
<1>3. CASE LoaderStarts \/ NoCommand \/ NoMoreEvents \/ Render \/ NoShot
  BY <1>0, <1>3 DEF LoaderStarts, NoCommand, NoMoreEvents, Render, NoShot, LoopTypeOK, Emptied, NoOldAnswer, AllSeen
<1>4. CASE TakeCommand
  <2>1. token' \in Shots \cup {None}
    BY <1>0, <1>4 DEF TakeCommand, Command, LoopTypeOK
  <2>2. old' = 0
    BY <1>0, <1>4 DEF TakeCommand, Taken, Emptied
  <2> QED BY <1>0, <1>1, <1>4, <2>1, <2>2 DEF TakeCommand, Taken, LoopTypeOK, Emptied, NoOldAnswer, AllSeen
<1>5. CASE TakeQuit
  BY <1>0, <1>1, <1>5 DEF TakeQuit, Taken, Forget, LoopTypeOK, Emptied, NoOldAnswer, AllSeen
<1>6. CASE WriteShot
  BY <1>0, <1>6 DEF WriteShot, LoopTypeOK, Emptied, NoOldAnswer, AllSeen
<1>7. CASE RenameShot
  BY <1>0, <1>7 DEF RenameShot, LoopTypeOK, Emptied, NoOldAnswer, AllSeen
<1>8. CASE PollEvent
  BY <1>0, <1>8 DEF PollEvent, LoopTypeOK, Emptied, NoOldAnswer, AllSeen
<1>9. CASE QuitEvent \/ GameEnds \/ LoaderDies
  BY <1>0, <1>9 DEF QuitEvent, GameEnds, LoaderDies, Exit, Forget, LoopTypeOK, Emptied, NoOldAnswer, AllSeen
<1>10. CASE Debounced \/ UNCHANGED vars
  BY <1>0, <1>10 DEF Debounced, loop, vars, LoopTypeOK, Emptied, NoOldAnswer, AllSeen
<1> QED BY <1>2, <1>3, <1>4, <1>5, <1>6, <1>7, <1>8, <1>9, <1>10 DEF Frame

LEMMA LoopInvHolds == Spec => []LoopInv
<1>1. LoopInv /\ [LoopNext]_vars => LoopInv'
  BY LoopInput, ServerKeeps, LoaderKeeps DEF LoopInv, LoopNext
<1> QED BY <1>1, LoopInitInv, PTL DEF Spec

\* The two promises of the input bridge hold of the whole loop: with commands from
\* the file between the events, and through the ends and starts of loaders.
THEOREM LoopReleases == Spec => [](ReleasedMeansStill /\ NoTouchStuck)
<1>1. LoopInv => ReleasedMeansStill /\ NoTouchStuck
  BY InvStills DEF LoopInv
<1> QED BY <1>1, LoopInvHolds, PTL

\* A command, one line a frame, never lifts a touch that the game has not yet seen in
\* a rendered frame.
THEOREM PressesAreSeen == Spec => PressSpansFrames
<1>1. LoopInv /\ [LoopNext]_vars => [TakeCommand => (touching \ touching') \cap began = {}]_vars
  BY DEF LoopInv, AllSeen, TakeCommand
<1> QED BY <1>1, LoopInvHolds, PTL DEF Spec, PressSpansFrames

\* A loader reads no command that was there before it was started.
THEOREM OldCommandsDropped == Spec => NothingReplayed
<1>1. LoopInv /\ [LoopNext]_vars => [On /\ Len(file') < Len(file) => old = 0]_vars
  BY DEF LoopInv, Emptied, On
<1> QED BY <1>1, LoopInvHolds, PTL DEF Spec, NothingReplayed

\* A picture that capture_screen finds under its name is written to the end.
THEOREM WholePictures == Spec => PictureIsWhole
<1>1. LoopInv /\ [LoopNext]_vars => [ReadScreen => png[server.arg] = "whole"]_vars
  BY DEF LoopInv, LoopTypeOK, ReadScreen
<1> QED BY <1>1, LoopInvHolds, PTL DEF Spec, PictureIsWhole

\* start_emulator takes only the answer of the loader it has started.
THEOREM AnswersAreFresh == Spec => ReadyIsFresh
<1>1. LoopInv /\ [LoopNext]_vars => [StartDone => phase \notin {"spawned", "clean"}]_vars
  BY LoopAssumption DEF LoopInv, NoOldAnswer, StartDone
<1> QED BY <1>1, LoopInvHolds, PTL DEF Spec, ReadyIsFresh
=============================================================================
