---------------------------- MODULE KatamariInput ----------------------------
(***************************************************************************)
(* android/katamari_input.cpp: pads, keys, mouse and injected controls      *)
(* become touches, a moving pointer and a tilted accelerometer.             *)
(*                                                                         *)
(* Positions and the left stick are left out; what is kept is which touches *)
(* the game believes are down, where the pointer is heading and which way   *)
(* the D-pad tilts.  The autopilot, a smoke test that plays by itself, is   *)
(* off.                                                                     *)
(***************************************************************************)
EXTENDS Naturals, FiniteSets

CONSTANTS
  Dirs,     \* directions in play, among up, down, left and right
  Sides,    \* strafe buttons in play, among l1 and r1
  Remote,   \* controls in play that are injected: Dirs, Sides, "a", "y", "start"
  MaxHeld   \* bound: how many controls are held down at the same time

ASSUME ControlsAssumption ==
  /\ Dirs \subseteq {"up", "down", "left", "right"} /\ Sides \subseteq {"l1", "r1"}
  /\ Remote \subseteq Dirs \cup Sides \cup {"a", "y", "start"}

Sources == {"pad", "keys", "remote"}   \* remote: katamari_input_inject_control

VARIABLES
  mode,       \* g_accel_mode: the D-pad tilts instead of moving the pointer
  tilt,       \* the g_accel_dpad_* flags that are set
  drift,      \* g_cursor_dx, dy: where the pointer is heading
  visible,    \* g_cursor_visible
  press,      \* g_cursor_down: a remote press of the pointer
  mouse,      \* g_mouse_down
  strafe,     \* g_strafe_left_down, g_strafe_right_down
  triggers,   \* g_l2_trigger_down, g_r2_trigger_down
  recent,     \* the mode was toggled less than 200 ms ago
  touching,   \* the touches the game has seen go down and not up
  held        \* <<source, control>>: what the player really holds down

pointing == <<drift, visible, press, mouse>>
tilting == <<mode, tilt, triggers, recent>>
ivars == <<pointing, tilting, strafe, touching, held>>

\* Both directions of an axis: releasing either stops the pointer on it.
Axis(d) == IF d \in {"up", "down"} THEN {"up", "down"} ELSE {"left", "right"}

Init ==
  /\ mode = FALSE /\ tilt = {} /\ triggers = {} /\ recent = FALSE
  /\ drift = "none" /\ visible = TRUE /\ press = FALSE /\ mouse = FALSE
  /\ strafe = {} /\ touching = {} /\ held = {}

-----------------------------------------------------------------------------
(* The handlers' parts *)

Lift(ids) == touching' = touching \ ids

ShowCursor == visible' = TRUE /\ UNCHANGED <<drift, press>>

HideCursor == visible' = FALSE /\ drift' = "none" /\ press' = FALSE

\* hide_cursor lifts the touch of a remote press.
PressedPointer == IF press THEN {"pointer"} ELSE {}

\* What toggle_accel_mode does to the pointer and to the touches.
SwitchPointer ==
  IF mode THEN ShowCursor /\ Lift(strafe) ELSE HideCursor /\ Lift(strafe \cup PressedPointer)

\* A variant that leaves the D-pad directions as they were.
ToggleKeepsTilt ==
  /\ IF recent THEN UNCHANGED <<mode, recent, visible, drift, press, strafe, touching>>
     ELSE mode' = ~mode /\ recent' = TRUE /\ strafe' = {} /\ SwitchPointer
  /\ UNCHANGED <<tilt, mouse>>

\* toggle_accel_mode, at most once in 200 ms
ToggleAccel ==
  /\ IF recent THEN UNCHANGED <<mode, recent, tilt, visible, drift, press, strafe, touching>>
     ELSE mode' = ~mode /\ recent' = TRUE /\ tilt' = {} /\ strafe' = {} /\ SwitchPointer
  /\ UNCHANGED mouse

\* Start: out of the accelerometer mode, the pause button tapped.
StartButton ==
  /\ strafe' = {}
  /\ Lift(strafe)
  /\ tilt' = IF mode THEN {} ELSE tilt
  /\ mode' = FALSE
  /\ ShowCursor
  /\ UNCHANGED <<mouse, triggers, recent>>

\* tap_cursor: the pointer goes down and up at once.
TapCursor ==
  /\ visible' = TRUE
  /\ Lift({"pointer"})
  /\ UNCHANGED <<drift, press, mouse, tilting, strafe>>

\* A direction goes down.  The keyboard always moves the pointer.
Steer(src, d) ==
  /\ IF mode /\ src # "keys"
     THEN tilt' = tilt \cup {d} /\ UNCHANGED <<drift, visible>>
     ELSE drift' = d /\ visible' = TRUE /\ UNCHANGED tilt
  /\ UNCHANGED <<press, mouse, mode, triggers, recent, strafe, touching>>

Unsteer(src, d) ==
  /\ IF mode /\ src # "keys"
     THEN tilt' = tilt \ {d} /\ UNCHANGED drift
     ELSE drift' = (IF drift \in Axis(d) THEN "none" ELSE drift) /\ UNCHANGED tilt
  /\ UNCHANGED <<visible, press, mouse, mode, triggers, recent, strafe, touching>>

\* set_strafe_touch
StrafeTouch(s, down) ==
  /\ strafe' = IF down THEN strafe \cup {s} ELSE strafe \ {s}
  /\ touching' = IF down THEN touching \cup {s} ELSE touching \ (strafe \cap {s})
  /\ UNCHANGED <<pointing, tilting>>

\* A variant that forgets that the pointer is down.
PressUnrecorded(down) ==
  /\ touching' = CASE down /\ ~press -> touching \cup {"pointer"}
                   [] ~down /\ press -> touching \ {"pointer"}
                   [] OTHER -> touching
  /\ UNCHANGED <<press, drift, visible, mouse, tilting, strafe>>

\* katamari_input_cursor_press
CursorPress(down) ==
  /\ press' = down
  /\ touching' = CASE down /\ ~press -> touching \cup {"pointer"}
                   [] ~down /\ press -> touching \ {"pointer"}
                   [] OTHER -> touching
  /\ UNCHANGED <<drift, visible, mouse, tilting, strafe>>

\* katamari_input_inject_control, one control down or up
Inject(c, down) ==
  /\ CASE c \in Dirs -> IF down THEN Steer("remote", c) ELSE Unsteer("remote", c)
       [] c \in Sides -> StrafeTouch(c, down)
       [] c = "a" -> CursorPress(down)
       [] c = "y" /\ down -> ToggleAccel /\ UNCHANGED triggers
       [] c = "start" /\ down -> StartButton
       [] OTHER -> UNCHANGED <<pointing, tilting, strafe, touching>>
  /\ held' = IF down THEN held \cup {<<"remote", c>>} ELSE held \ {<<"remote", c>>}

\* katamari_input_cursor_set
CursorSet ==
  /\ visible' = TRUE
  /\ UNCHANGED <<drift, press, mouse, tilting, strafe, touching, held>>

-----------------------------------------------------------------------------
(* SDL events *)

Down(src, c) ==
  /\ <<src, c>> \notin held
  /\ Cardinality(held) < MaxHeld
  /\ held' = held \cup {<<src, c>>}

Up(src, c) ==
  /\ <<src, c>> \in held
  /\ held' = held \ {<<src, c>>}

DirectionDown == \E src \in {"pad", "keys"}, d \in Dirs : Down(src, d) /\ Steer(src, d)
DirectionUp == \E src \in {"pad", "keys"}, d \in Dirs : Up(src, d) /\ Unsteer(src, d)
ShoulderDown == \E s \in Sides : Down("pad", s) /\ StrafeTouch(s, TRUE)
ShoulderUp == \E s \in Sides : Up("pad", s) /\ StrafeTouch(s, FALSE)

ButtonA == TapCursor /\ UNCHANGED held
ButtonY == ToggleAccel /\ UNCHANGED <<triggers, held>>
ButtonStart == StartButton /\ UNCHANGED held

\* The triggers are axes: the edge counts, not the value.  L2 only taps the
\* game's reverse button.
Trigger ==
  \E t \in {"l2", "r2"} :
    /\ triggers' = IF t \in triggers THEN triggers \ {t} ELSE triggers \cup {t}
    /\ IF t = "r2" /\ t \notin triggers
       THEN ToggleAccel
       ELSE UNCHANGED <<pointing, mode, tilt, recent, strafe, touching>>
    /\ UNCHANGED held

MouseDown ==
  /\ Down("mouse", "left")
  /\ mouse' = TRUE
  /\ HideCursor
  /\ touching' = touching \cup {"pointer"}
  /\ UNCHANGED <<tilting, strafe>>

MouseUp ==
  /\ Up("mouse", "left")
  /\ mouse' = FALSE
  /\ Lift(IF mouse THEN {"pointer"} ELSE {})
  /\ UNCHANGED <<drift, visible, press, tilting, strafe>>

DebounceOver ==
  /\ recent
  /\ recent' = FALSE
  /\ UNCHANGED <<pointing, mode, tilt, triggers, strafe, touching, held>>

\* One event of the SDL queue
Event == DirectionDown \/ DirectionUp \/ ShoulderDown \/ ShoulderUp \/ ButtonA \/ ButtonY
           \/ ButtonStart \/ Trigger \/ MouseDown \/ MouseUp

Injected == \E c \in Remote, down \in BOOLEAN : Inject(c, down)

InputSpec == Init /\ [][Event \/ Injected \/ CursorSet \/ DebounceOver]_ivars

-----------------------------------------------------------------------------
(* Properties *)

HeldOn(c) == \E src \in Sources : <<src, c>> \in held

\* A direction that nobody holds any more neither moves the pointer nor tilts the
\* game, however modes, devices and Start were mixed while it was held.
ReleasedMeansStill ==
  /\ \A d \in tilt : HeldOn(d)
  /\ drift # "none" => \E d \in Axis(drift) : HeldOn(d)

\* Every touch the game believes is down has a finger behind it: a shoulder for a
\* strafe touch, the mouse or a remote press for the pointer.
NoTouchStuck ==
  /\ \A s \in Sides : s \in touching => HeldOn(s)
  /\ "pointer" \in touching => <<"mouse", "left">> \in held \/ <<"remote", "a">> \in held
=============================================================================
