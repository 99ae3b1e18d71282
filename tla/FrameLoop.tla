------------------------------ MODULE FrameLoop ------------------------------
(***************************************************************************)
(* The frame loop of src/main.cpp over the input bridge, driven from outside*)
(* through files: android/emulator_control.cpp reads <control>/commands and *)
(* writes status.json and screenshots; emulator/run.sh starts the loader;   *)
(* emulator/mcp_server.py and emulator/send.sh append the commands.         *)
(*                                                                         *)
(* One loader at a time: a stop that gives up on its loader is left out.    *)
(***************************************************************************)
EXTENDS KatamariInput, Sequences

CONSTANTS
  Shots,      \* screenshot tokens; uuid4 makes each one new
  MaxUnread,  \* bound: how many commands are in the file unread
  None

ASSUME LoopAssumption == None \notin Shots \cup {"ready", "running", "stopped"}

VARIABLES
  phase,    \* where the loader is in its frame; "off" when it does not run
  file,     \* the commands nobody has read yet
  status,   \* the state in status.json, None when there is no such file
  token,    \* g_screenshot_token
  png,      \* for each token: absent, temp (under its .tmp name), part or whole
  began,    \* touches that went down since the game last rendered
  server,   \* what the MCP server is doing, and for what
  old       \* history: how many unread commands are from before this start

loop == <<phase, file, status, token, png, began, server, old>>
vars == <<ivars, loop>>

Idle == [op |-> "idle", arg |-> None]
On == phase \notin {"off", "spawned", "clean"}

LoopInit ==
  /\ Init
  /\ phase = "off"
  /\ file \in {<<>>, <<<<"quit", TRUE>>>>}   \* left behind by an earlier session
  /\ status \in {None, "running", "stopped"}
  /\ token = None
  /\ png = [t \in Shots |-> "absent"]
  /\ began = {}
  /\ server = Idle
  /\ old = Len(file)

\* What a line may say: <<control, down>> for button and for click, which is the
\* pointer's button "a"; the rest has nothing to let go of.
Commands == (Remote \X BOOLEAN) \cup ((Shots \cup {"cursor", "quit"}) \X {TRUE})

\* The bound keeps a line's room for the release of a press.
Put(cmd) == Len(file) + 1 < MaxUnread /\ file' = Append(file, cmd)
Began == began' = began \cup (touching' \ touching)

-----------------------------------------------------------------------------
(* mcp_server.py *)

\* A variant that leaves the status of the last loader.
StartKeepsStatus ==
  /\ server = Idle
  /\ phase = "off"
  /\ phase' = "spawned"
  /\ server' = [op |-> "start", arg |-> None]
  /\ old' = Len(file)
  /\ UNCHANGED <<ivars, file, status, token, png, began>>

StartEmulator ==
  /\ server = Idle
  /\ phase = "off"
  /\ status' = None
  /\ phase' = "spawned"
  /\ server' = [op |-> "start", arg |-> None]
  /\ old' = Len(file)
  /\ UNCHANGED <<ivars, file, token, png, began>>

\* The wait for a ready emulator ends, successfully or after sixty seconds.
StartDone ==
  /\ server.op = "start"
  /\ status \in {"ready", "running"}
  /\ server' = Idle
  /\ UNCHANGED <<ivars, phase, file, status, token, png, began, old>>

StartFails ==
  /\ server.op = "start"
  /\ status \notin {"ready", "running"}
  /\ server' = Idle
  /\ UNCHANGED <<ivars, phase, file, status, token, png, began, old>>

\* press_control and click: two lines, written one after the other.
PressControl ==
  /\ server = Idle
  /\ \E c \in Remote :
       Put(<<c, TRUE>>) /\ server' = [op |-> "press", arg |-> c]
  /\ UNCHANGED <<ivars, phase, status, token, png, began, old>>

\* A variant that sends the press twice.
PressAgain ==
  /\ server.op = "press"
  /\ file' = Append(file, <<server.arg, TRUE>>)
  /\ server' = Idle
  /\ UNCHANGED <<ivars, phase, status, token, png, began, old>>

ReleaseControl ==
  /\ server.op = "press"
  /\ file' = Append(file, <<server.arg, FALSE>>)
  /\ server' = Idle
  /\ UNCHANGED <<ivars, phase, status, token, png, began, old>>

CaptureScreen ==
  /\ server = Idle
  /\ \E t \in Shots :
       /\ png[t] = "absent" /\ token # t
       /\ \A i \in 1..Len(file) : file[i] # <<t, TRUE>>
       /\ Put(<<t, TRUE>>)
       /\ server' = [op |-> "capture", arg |-> t]
  /\ UNCHANGED <<ivars, phase, status, token, png, began, old>>

\* The picture is there under its name, and not empty.
ReadScreen ==
  /\ server.op = "capture"
  /\ png[server.arg] \in {"part", "whole"}
  /\ server' = Idle
  /\ UNCHANGED <<ivars, phase, file, status, token, png, began, old>>

CaptureFails ==
  /\ server.op = "capture"
  /\ png[server.arg] \notin {"part", "whole"}
  /\ server' = Idle
  /\ UNCHANGED <<ivars, phase, file, status, token, png, began, old>>

\* quit, then SIGINT and SIGTERM, which SDL turns into the same SDL_QUIT.
StopEmulator ==
  /\ server = Idle
  /\ phase # "off"
  /\ Put(<<"quit", TRUE>>)
  /\ server' = [op |-> "stop", arg |-> None]
  /\ UNCHANGED <<ivars, phase, status, token, png, began, old>>

StopDone ==
  /\ server.op = "stop"
  /\ phase = "off"
  /\ server' = Idle
  /\ UNCHANGED <<ivars, phase, file, status, token, png, began, old>>

\* send.sh, from another shell, one line a call or a sequence of them: nothing makes
\* it send the release of what it presses.
SendByHand ==
  /\ \E cmd \in Commands : Put(cmd)
  /\ UNCHANGED <<ivars, phase, status, token, png, began, server, old>>

-----------------------------------------------------------------------------
(* run.sh and the loader's start *)

\* A variant that keeps the commands of the session before.
RunnerKeeps ==
  /\ phase = "spawned"
  /\ status' = None
  /\ phase' = "clean"
  /\ UNCHANGED <<ivars, file, token, png, began, server, old>>

Runner ==
  /\ phase = "spawned"
  /\ file' = <<>>
  /\ status' = None
  /\ phase' = "clean"
  /\ old' = 0
  /\ UNCHANGED <<ivars, token, png, began, server>>

\* emulator_control_init; the input bridge is as katamari_input_init leaves it.
LoaderStarts ==
  /\ phase = "clean"
  /\ phase' = "control"
  /\ status' = "ready"
  /\ token' = None
  /\ UNCHANGED <<ivars, file, png, began, server, old>>

-----------------------------------------------------------------------------
(* One frame *)

\* A new loader will start from here.
Forget ==
  /\ mode' = FALSE /\ tilt' = {} /\ triggers' = {} /\ recent' = FALSE
  /\ drift' = "none" /\ visible' = TRUE /\ press' = FALSE /\ mouse' = FALSE
  /\ strafe' = {} /\ touching' = {} /\ held' = {} /\ began' = {}

\* The loader is gone: nothing is held down in it any more.
Exit(state) ==
  /\ Forget
  /\ phase' = "off"
  /\ status' = state
  /\ UNCHANGED <<file, token, png, server, old>>

NoCommand ==
  /\ phase = "control"
  /\ file = <<>>
  /\ phase' = "events"
  /\ status' \in {status, "running"}      \* every thirtieth frame
  /\ UNCHANGED <<ivars, file, token, png, began, server, old>>

\* A command other than quit.
Command(cmd) ==
  \/ /\ cmd[1] \in Remote
     /\ Inject(cmd[1], cmd[2])
     /\ UNCHANGED token
  \/ cmd[1] = "cursor" /\ CursorSet /\ UNCHANGED token
  \/ cmd[1] \in Shots /\ token' = cmd[1] /\ UNCHANGED ivars

Taken == file' = Tail(file) /\ old' = IF old > 0 THEN old - 1 ELSE 0

\* A variant that reads on until the file is empty.
TakeAllCommands ==
  /\ phase = "control"
  /\ file # <<>>
  /\ Command(Head(file))
  /\ Taken
  /\ Began
  /\ status' = "running"
  /\ UNCHANGED <<phase, png, server>>

\* emulator_control_tick: at most one line a frame.
TakeCommand ==
  /\ phase = "control"
  /\ file # <<>>
  /\ Command(Head(file))
  /\ Taken
  /\ Began
  /\ phase' = "events"
  /\ status' = "running"
  /\ UNCHANGED <<png, server>>

\* A variant that does not know the command.
QuitUnknown ==
  /\ phase = "control"
  /\ file # <<>>
  /\ Head(file)[1] = "quit"
  /\ Taken
  /\ phase' = "events"
  /\ UNCHANGED <<ivars, status, token, png, began, server>>

TakeQuit ==
  /\ phase = "control"
  /\ file # <<>>
  /\ Head(file)[1] = "quit"
  /\ Taken
  /\ Forget
  /\ phase' = "off"
  /\ status' = "stopped"
  /\ UNCHANGED <<token, png, server>>

PollEvent ==
  /\ phase = "events"
  /\ Event
  /\ Began
  /\ UNCHANGED <<phase, file, status, token, png, server, old>>

NoMoreEvents ==
  /\ phase = "events"
  /\ phase' = "tick"
  /\ UNCHANGED <<ivars, file, status, token, png, began, server, old>>

\* SDL_QUIT, also by a signal, and the Escape key.
QuitEvent == phase = "events" /\ Exit("stopped")

\* katamari_input_tick and nativeRender: the game sees the frame's touches.
Render ==
  /\ phase = "tick"
  /\ began' = {}
  /\ phase' = "draw"
  /\ UNCHANGED <<ivars, file, status, token, png, server, old>>

\* At the loop's head: the last nativeRender said that the game is over, or the
\* frame limit is reached.
GameEnds == phase = "control" /\ Exit("stopped")

NoShot ==
  /\ phase = "draw"
  /\ token = None
  /\ phase' = "control"
  /\ UNCHANGED <<ivars, file, status, token, png, began, server, old>>

\* A variant that writes the picture under its final name.
WriteInPlace ==
  /\ phase = "draw"
  /\ token # None
  /\ png' = [png EXCEPT ![token] = "part"]
  /\ phase' = "shot"
  /\ UNCHANGED <<ivars, file, status, token, began, server, old>>

\* emulator_control_after_draw: first the temporary file, beside a picture that an
\* earlier command with the same token left ...
WriteShot ==
  /\ phase = "draw"
  /\ token # None
  /\ png' = [png EXCEPT ![token] = IF @ = "whole" THEN @ ELSE "temp"]
  /\ phase' = "shot"
  /\ UNCHANGED <<ivars, file, status, token, began, server, old>>

\* ... then its name, or nothing when the disk is full.
RenameShot ==
  /\ phase = "shot"
  /\ \/ png' = [png EXCEPT ![token] = "whole"] /\ status' = "running"
     \/ png' = [png EXCEPT ![token] = IF @ = "whole" THEN @ ELSE "absent"] /\ UNCHANGED status
  /\ token' = None
  /\ phase' = "control"
  /\ UNCHANGED <<ivars, file, began, server, old>>

\* The loader is killed or crashes: status.json keeps its last state.
LoaderDies == phase # "off" /\ Exit(status)

Debounced == On /\ DebounceOver /\ UNCHANGED loop

-----------------------------------------------------------------------------
Server == StartEmulator \/ StartDone \/ StartFails \/ PressControl \/ ReleaseControl
            \/ CaptureScreen \/ ReadScreen \/ CaptureFails \/ StopEmulator \/ StopDone \/ SendByHand
Frame == Runner \/ LoaderStarts \/ NoCommand \/ TakeCommand \/ TakeQuit \/ NoMoreEvents
           \/ Render \/ NoShot \/ WriteShot \/ RenameShot

LoopNext == Server \/ Frame \/ PollEvent \/ QuitEvent \/ GameEnds \/ LoaderDies \/ Debounced

Spec == LoopInit /\ [][LoopNext]_vars

\* The loader goes on from frame to frame, however many events a frame brings, and
\* the server finishes the press it has begun.
FairSpec ==
  /\ Spec
  /\ WF_vars(Frame)
  /\ WF_vars(ReleaseControl)

-----------------------------------------------------------------------------
(* Properties *)

\* "a down/up pair cannot collapse into a zero-duration event": a command never
\* lifts a touch that the game has not seen down in a rendered frame.
PressSpansFrames ==
  [][TakeCommand => (touching \ touching') \cap began = {}]_vars

\* No command of an earlier session, and no stale quit, is played to a new loader.
NothingReplayed == [][On /\ Len(file') < Len(file) => old = 0]_vars

\* capture_screen never reads a picture that is only partly written.
PictureIsWhole == [][ReadScreen => png[server.arg] = "whole"]_vars

\* start_emulator never takes what an earlier loader, perhaps one that was killed,
\* left in status.json for the answer of the one that it has just started.
ReadyIsFresh == [][StartDone => phase \notin {"spawned", "clean"}]_vars

\* Somebody has promised to let go of the pointer: the server, which is between the
\* two lines of a press, or a line in the file.
Promised == server = [op |-> "press", arg |-> "a"] \/ \E i \in DOMAIN file : file[i] = <<"a", FALSE>>

\* A press of the pointer ends, or the loader does, once its release is promised, and
\* the server promises it with every press: whatever the player and send.sh add to the
\* file meanwhile, another press or a quit included, the release is sent and read.
RemotePressEnds == press /\ Promised ~> ~press

\* A quit command that a running loader has still to read ends that loader, without
\* the signals that follow it, whatever is written before and after it.
QuitHeard == On /\ (\E i \in DOMAIN file : file[i][1] = "quit") ~> phase = "off"
=============================================================================
