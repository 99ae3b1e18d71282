# A verification project for i-port-katamari

TLA+ models, TLC runs and TLAPS proofs for the native PortMaster port of *I Love Katamari*: the
loader that runs the game's 32-bit Android library on a Linux handheld, and the importer that
installs the game data out of the player's own APK. Everything here is written from the code under
`src/`; line numbers are those of the mapped files (`PROJECT.json`, "map").

    tlc -workers 2 -config MCEapxCommit_recovery.cfg MCEapxCommit      # a run
    tlapm EapxCommit_proofs.tla                                        # the proofs

## 1. The system

| part | state it keeps | operations | modelled by |
|---|---|---|---|
| **EAPX importer** `tools/eapx.py` | game directory, `<workspace>/stage`, `<workspace>/backup`, journal, marker, game-dir lock | install: recover, two fast exits, plan, stage, commit, rollback; validate, inspect | `EapxPlan`, `EapxStage`, `EapxCommit`, `AtomicInstall` (partly) |
| **Port launcher** `ports/Katamari.sh` | none of its own: it looks at two files | import when a file is missing, then start the game | `PortLauncher` (partly) |
| **pthread bridge** `src/symtab_pthread.cpp`, `thunks/libc/pthread.cpp` | the word of each bionic mutex and condition variable, the host objects behind them, the bootstrap lock | init, destroy, lock, trylock, unlock, wait, timedwait, signal, broadcast; once, attributes, keys | `PthreadBridge`, `BionicMutex` (partly) |
| **Input bridge** `android/katamari_input.cpp` | mode, pointer and its direction, touches, tilt, strafe flags, trigger and debounce state | SDL events of pad, keys, mouse; injected controls; tick | `KatamariInput` (partly) |
| **Frame loop** `src/main.cpp` | running flag, frame counter | control tick, events, input tick, render, screenshot; the ways out | `FrameLoop` (partly) |
| **Emulator control** `android/emulator_control.cpp`, `emulator/mcp_server.py`, `run.sh`, `send.sh` | command file and read offset, `status.json`, screenshots, the server's child | start, stop, press, click, capture; one command a frame | `FrameLoop` (partly) |
| **Crash reporter** `src/crash.cpp` | the once-only flag, standard error | report a fault from a signal handler on any thread | `CrashReport` |
| **Audio** `jni/classes/katamari.cpp` | 128 sound slots, next id, device, mutex | AudioTool's methods; the mixer callback; asset and save files | `AudioSlots` (partly) |
| **ELF loader** `loader/so_util*.cpp` | the list of libraries, the loaded modules, arenas, hooks | load, relocate, resolve, audit, run initialisers; hook | `SoLoader` (partly) |
| **JNI environment** `jni/` | class and method tables, strings, arrays | the JNI functions the game calls; native methods of a linked library | `SoLoader` (native methods only) |
| **Time bridge** `src/symtab_time.cpp` | the clock's scale and origin | readings, sleeps, deadlines handed back | `GuestClock` (partly) |
| **Rest of the libc bridge** `thunks/libc`, `src/symtab_*.cpp` | semaphores, file handles | stdio, fortify, aeabi, paths, setjmp | not modelled |
| **Graphics shims** | caches of GL state for diagnostics | forwarding to the host's OpenGL, texture decoding | not modelled |
| vendored, generated, build files | | | not modelled |

How they interact. The launcher runs the importer in its own process and the loader after it; the
game directory is all they share. Inside the loader the main thread runs the frame loop: each frame
the control tick may inject one command into the input bridge, SDL events go to the same bridge,
and `nativeRender` then lets the game see the touches. The game's own threads call libc through the
bridge at any moment, and each of them may fault into the crash reporter. The MCP server is a
process of its own that talks to the loader through three kinds of files only.

What is hard here:

- a process killed, or failing, between any two file-system mutations of the importer, several times
  in a row, with removals that give up half way and a player who edits the directory in between;
- host mutexes and condition variables created on first use by whichever thread comes first;
- a press made of two lines in a file that other writers append to, read one line a frame, while
  devices of several kinds hold the same direction;
- several threads that fault at once, or again inside the handler;
- sounds decoded outside the mixer's lock, into slots that may be someone else's by then;
- packages, folders and loose files that offer the same destination, met in any order;
- libraries that need each other, linked and initialised from the last found to the first;
- files of a loader that was killed, read by the server that waits for the next one.

Every such point is listed with its line under "hazards" in `PROJECT.json`, with the properties that
would catch it or the reason none does yet.

## 2. The modules

`EapxCommit` - one process at a time (the game-dir lock) between `idle` and `ready`; `pc` names the
next file-system mutation of `install_command`, `cursor` the root that `commit` or `rollback` is at.
A root holds a *content*, which stands for what `digest_of` computes of a whole tree: a package's
payload, something else the player has, nothing (`None`) or a part of a tree (`Torn`).
`atomic_write_json` is one step; `os.rename` is one step; `remove_path` ignores errors, so it leaves
any part of what it removes. `Fail` is `except BaseException`, `Crash` is a kill or an exception
nobody handles. `UserEdit` lets the player change a root between runs, but not the copy an
interrupted transaction has yet to move: nobody can promise to keep a file that its owner deletes.
`Fail` may come out of `transaction.discard()` as well, which
is inside the same `try` after the marker (`eapx.py:2635`): with `os.unlink` failed, or interrupted when
the journal is gone and only `transaction.data` is left in memory. The history `late` tells these two
from a life without them. The constant `IdenticalRoots` says whether a root in place may equal the
package's. Left out: a corrupt journal, power cuts between the renames, the digest cache, recipe parsing.

`EapxStage` opens up the one step `StagePayload` of `EapxCommit`: the plan named in `stage-state`, the
files of the stage with their `.part`s, and which of them are on the card. A process may be killed or
fail at any step, a removal may leave any part, and a power cut loses or garbles whatever was written
since the last sync; what `atomic_write` writes is synced, and a removal is on the card before the
`stage-state` written after it. `spoiled` is history: the last removal left something. The package is
the player's choice at every start. Members of an archive and hashed loose files have a checksum
(`Summed`); the files of a folder have none, and the code takes what has the right size for them, in
`item_already_staged` as in `validate_tree`. `commit` is one step here, which moves all roots or none.

`AtomicInstall` is the promise, with its limits: while the importer runs the installed data changes only by
a publication, of all roots in one step, but for the roots at risk. These are the roots equal to the
package's while a transaction is open, and all roots when the importer fails between its publication and
its end. `EapxCommit!Installed` maps the program's state to it: with an unpublished transaction in the
journal, what is installed is what the journal found.

`EapxPlan` comes before both: the candidates in the order `os.listdir` gives them, grouped into packages;
for each package the ABIs in their order until every required rule finds its files; the decision
between the plans that result. A file is a content with its size, and a checksum only where the code
has one; a rule is the names it matches per ABI and the contents that pass its checks.

`PortLauncher` extends `EapxCommit` by the launcher's test of two files and the start of the game.

`PthreadBridge` - a word per object and a heap of host objects; one action per access to a word, per
bootstrap lock operation and per host call, so two threads may meet between any two of them. Words
are published with release and read with acquire, so memory is sequentially consistent. The game is
any legal pthread program: it initialises and destroys what nobody uses and waits with the mutex
held, and signals with the mutex or without. `raced` is history: the condition variables whose object
two threads have made at once, so that a sleeper may be on one that the word no longer names. `BionicMutex` is what it expects:
a kind, an owner and a depth per mutex.

`KatamariInput` - one action per SDL event and per injected command. Kept: which touches the game
believes are down, where the pointer is heading, how the D-pad tilts the accelerometer, and as
history what is physically held on which device. Left out: positions, the left stick, the autopilot.

`FrameLoop` extends it by the loop's phases, the command file (`old` counts the lines an earlier
session left), `status.json`, one screenshot per name with its temporary file, the server's tools, a
second writer (`send.sh`, with any line it can write, a press without its release among them), and loaders that exit, are killed or are started again. Left out: a stop
that gives up on its loader, hence two loaders on one control directory.

`CrashReport` - a stack of handler frames per thread, since a fault inside a handler pushes another;
standard error as a sequence of pieces, one `write(2)` each; a fault with its signal blocked ends the
process, as the kernel does. Some pieces are read through a register: the four words of `put_words` and
the 4 KiB of `put_stack`. Each handler frame is given which of them stand in memory that cannot be read,
and the reporter faults when it gets to one. `readable` does not prevent it: the kernel looks at no
buffer that is written to `/dev/null`.

`AudioSlots` - a section of a call that has the lock is one step; one that finds no mutex (`audio_lock`
locks nothing before `ensure_audio` has made it) takes two, its check and its writes. `ensure_audio` is
four steps, and no lock keeps two threads from taking them together; a second mutex then replaces the
first. Decoding is outside the lock; the callback holds the mutex it found from its first slot to its
last and goes on frame by frame. `raced` is history: two threads have met where nothing locks. Left out:
volumes, sample values, a mutex that cannot be created, a second device, what a write that another one
cuts through leaves behind, and the undefined unlocking of a mutex that was made in between.

`SoLoader` - the phases of `so_load_module`, a step for each library and each of its `DT_NEEDED` entries, over libraries that are what their headers say: needs,
exports, imports, weak ones, and the words to relocate as `DT_RELR` bitmaps, packed `APS2` deltas
and plain tables encode them. `Relocated` decodes all three; `Resolve` is the order of lookup; `Audit` is the port's refusal to
go on with an unresolved import. Left out: segments and arenas, hooks (the port installs none), the
`APA1` and `APR1` groups.

`GuestClock` - no state: the conversions between the host's clocks and the ones the game reads, and
back. The monotonic growth of the offset (`Gains`) stands for the product in doubles.

Modules named `MC...` give the constants for TLC; each `.cfg` is a run. Definitions whose comment
starts with "A variant" are wrong versions of the definition after them, used to confirm that a
property notices: nothing in `Next` reaches them.

## 3. The runs

| run | instance | what it shows |
|---|---|---|
| `commit_recovery` | 2 roots, 2 packages, 2 transaction ids, foreign files, identical roots allowed | however often the importer is killed, fails or is edited around: the original of each root a transaction changes stays in the game directory or the backup (`OriginalKept`); the journal is ahead of the tree; the marker certifies what is in place once no transaction is open; rollback never loses a staged package; the importer implements `AtomicInstall` (`ImportIsAtomic`); and `ImportCompletes` |
| `stage_resume` | an archive with a loose file and 2 folders of equal names and sizes, 3 file names | an extraction that is through has every file with a checksum right, whatever was killed or cut off before, and of the others one of the same fingerprint or garbage of the right size; nothing of another plan is published unless a removal gave up; finished files are kept; and `StagingCompletes` |
| `pthread` | 2 threads, 1 mutex of any kind, 1 condition variable, 3 addresses, depth 2 | one host mutex per word, held by whom the game thinks; a signal wakes a sleeper, held or not, unless two creators have raced for the object it sleeps on; the mutexes implement `BionicMutex`; trylock, unlock, signal and broadcast return |
| `input` | 3 directions, 2 shoulders, 6 injected controls, 3 held at once | what nobody holds neither moves nor tilts nor touches, over modes, devices and Start |
| `frame_loop` | 1 injected control, 3 unread lines, 1 screenshot | a press lasts a rendered frame; nothing of an earlier session is replayed or believed; no half-written picture is read; a press the server began ends (one that `send.sh` leaves down does not); `quit` ends the loader |
| `crash_report` | 3 threads, 2 signals, 3 pieces | one report, unbraided; whole unless the two seconds ran out or the reporter faulted on what it read through a register, and then up to there; the process always ends |
| `audio` | 2 slots, 1 of them dynamic, 2 threads, 4 calls, 2 frames a callback, 2 lengths | ids come from the dynamic slots; unless two threads have met where there is no lock, a freed slot is silent, whatever decoding ends late, and the mixer reads inside the samples also when a shorter sound replaces one that plays; sounds that can end do |
| `import_plan` | up to 3 candidates, 2 ABIs, 3 rules | no choice between different files is made silently; the outcome does not depend on the listing's order; a refusal has a cause in the files |
| `loader` | up to 4 libraries, 5 words, bitmaps of 2 words | a library's initialisers run with its words moved once and its imports bound, after those of what it needs unless that stood earlier on the list; an import leads to code that is initialised unless the list has it earlier; one name means one function; loading ends |

Three runs each end in a counterexample, where the code does otherwise than the repository says:

| run | property | what happens |
|---|---|---|
| `commit_identical` | `RollbackRestores` | a root equal to the package's is untouched, yet rollback takes it for the new payload, removes it as a duplicate of the staged one and has no backup to restore (`eapx.py:2547`, against 2529-2532) |
| `commit_late` | `AtRestWhole` | an exception comes out of `discard` when the marker is on disk and the journal unlinked; rollback takes the roots out of the published transaction one by one and is killed after the first: two of three roots under a marker that certifies all, and no journal to recover from (`eapx.py:2635`, against `ports/katamari/README.md:24-25`) |
| `port_launcher` | `GameSeesWholeImport` | on a first launch an import killed after two of three roots leaves both files the launcher tests; the game starts without the third (`Katamari.sh:79`, against `ports/katamari/README.md:24-25`) |

Other divergences have no run of their own. The properties and theorems name them as exceptions:

- A root equal to the package's that rollback removes only in part, before it is killed, is `Torn`, which
  is neither the original nor the payload: every later import refuses it as "modified by something else"
  (`OwnLeftover` in `ImportCompletes`; `eapx.py:2555`).
- Two threads that make one condition variable at once leave one of the objects to nobody, and a sleeper
  on it is lost (`Lost` in `SignalWakes`; `pthread.cpp:138`). `symtab_pthread.cpp:563-571` says so of the
  generated bridge, but replaces only timedwait. That a caller signals with the mutex held would prevent
  it; nothing in the code says the game does.
- "resume revalidates every staged file by hash" (`eapx.py:2205`) is not so for a file without a checksum:
  `eapx.py:2113-2118` and `2401-2404` compare its size, so a file that a power cut has garbled is taken
  for staged, and the stage of one folder for that of another with the same names and sizes
  (`ResumeIsSound`).
- A folder's entries carry no checksum, so a folder beside its own APK is refused and two folders of
  equal sizes are merged; `NoSilentChoice` and `RefusalHasCause` make that exception (`eapx.py:1425`).
- "Bounded so a corrupted sp cannot walk off the mapping and fault us a second time" (`crash.cpp:158-159`)
  is not so, since 4 KiB above `sp` may be unmapped; and "the one way to probe memory" (`crash.cpp:186-192`)
  tells nothing on `/dev/null` (`CutAtRead` in `ReportWhole`).
- `send.sh:63-64` says a sleep is the only way a press lands on a different frame than its release;
  `emulator_control.cpp:8-10` reads one command a frame, and `PressSpansFrames` holds without a sleep.
- Two threads whose first sounds come together set audio up together, in sections that lock nothing
  (`katamari.cpp:318-328`, `382-428`). Without their exception TLC finds `FreeIsSilent` violated by a
  `dispose` between the check and the writes of `playSound`, and `ReadsInside` by samples that are
  replaced under the callback.
- "Last point at which the port still sees the module with none of its own code having run"
  (`so_util.cpp:455-459`) is not so when an initialiser that ran earlier calls an import that this
  library, earlier on the list, exports: libraries are linked and initialised one by one, so it runs code
  that is not relocated yet (the exception in `RunsBound`).
- A weak import nobody defines gets the crash stub in a `JUMP_SLOT`, where the system's linker would
  leave zero; `RunsBound` excepts weak imports (`so_util.cpp:608`).

Why the bounds are enough. Roots are handled one after the other and differ only in being before,
at or after the cursor, which two roots show for the neighbours and three for all at once; the launcher
needs the third root that it does not test. A second package lets a marker, a stage and a journal
disagree; two transaction ids tell "this one" from "another": begin takes any id the marker on
disk does not name, as a fresh random one would be. A host object is created by the thread that comes first, so two threads meet in
every order. Two packages show a file of one plan only, of both and of the other
only, and one of them with a checksum and one without. Three addresses are one for the mutex and two for
a condition variable that is created twice. Three directions
give an axis with both ends and one beside it. Three unread lines are a press, its release and
another writer's line. Three crashing threads are a reporter, a loser and one more in the loser's place. With one slot for
a sound of its own and one dynamic slot, the search for an id wraps, and four calls load two sounds, each
through the set-up, chain them and play one, or let two threads meet in the set-up and in a slot; a circle
of two sounds takes more calls than a run has time for. Two candidates conflict and a
third is their copy, of either kind; the graphs are all those of three
libraries, circles among them, and of four where two rivals export one name.

Deadlock is checked everywhere but in `PthreadBridge`, where a legal game may leave all its threads
waiting, in `CrashReport`, `EapxPlan` and `SoLoader`, which come to an end, and in `AudioSlots`, whose
calls are bounded.

### Fairness

- Importer: `WF(Work)`. A process that is not killed goes on; nobody is bound to start another one (the
  launcher does not, once its two files are there), and nothing forces faults or edits to stop.
  `ImportCompletes` says that *if* they do and the importer is started again and again, the data gets
  ready, unless the importer refuses to touch what the player, or its own removal, left in the way.
- Stage: weak fairness of a running process; `StagingCompletes` is conditional in the same way.
- pthread bridge: weak fairness of each thread inside the bridge and strong fairness of getting the
  bootstrap lock, which every holder gives back after a few steps; none for locks the game holds.
- Frame loop: `WF(Frame)`, the main thread runs, and `WF(ReleaseControl)`, the server appends the second
  line of a press it began. SDL events, which are not fair, cannot starve the frame.
- Audio: `WF(Mix)`, SDL goes on calling the callback, and `SF(Inside)`: a thread inside a call gets the
  lock between two callbacks.
- Planning and loading: weak fairness of the one thread that does it.
- Crash reporter: weak fairness of each thread in a handler; writes to standard error return.

## 4. The proofs

`EapxCommit_proofs` proves for any number of roots, packages, transaction ids and contents:

| theorem | of | assumption |
|---|---|---|
| `TypeCorrect` | `Spec => []TypeOK` | |
| `OriginalsSurvive` | `Spec => []OriginalKept` | |
| `JournalIsAhead` | `Spec => []JournalRunsAhead` | |
| `MarkerIsHonest` | `Spec => []MarkerHonest` | |
| `NoWorkLost` | `Spec => StagedWorkPreserved` | |
| `ImportImplementsPromise` | `Spec => ImportIsAtomic` | |
| `RollbackIsExact` | `Spec => [](Interrupted => RollbackRestores)` | `~IdenticalRoots` |

The run `commit_identical`, in which `RollbackRestores` fails, shows that the assumption is needed, and
`commit_late` that `MarkerHonest` and `AtomicInstall` need their exception for a discard that failed.

The argument. `OriginalKept` is not inductive without knowing in which of three situations of journal
and marker (none, unpublished, published) each part of the program runs: `PhaseOK`. With it, each
mutation keeps the original: what moves to the backup was the original, what rollback moves back was
compared with it first, and what is overwritten was not it. `JournalRunsAhead` and the refinement need more: `OnePackage` (only a
whole validated package is committed), `PayloadOnce` (the payload of a changed root is in the stage or
in place, never in both, so rollback's comparison by content decides right), `CommitProgress` (roots
before the cursor are installed, those after it untouched, and how far the one at the cursor is) and
`RollbackProgress` (the mirror image). `Inv` is their conjunction, `InvHolds` its proof, one step per action
and one lemma per conjunct. The refinement maps `WriteMarker` to `Publish`, `Begin` to `Begin`, starts and ends of the
process to `StartOrStop`, a failed discard to `FailLate`, the player's edits to `UserEdit`, the end of a
transaction or of a rollback to `Settle` and every other step to `Settle` or a stutter; the step
that needs the whole invariant is the end of rollback, when `Installed` changes from what the journal
remembers to what is in place. `MarkerHonest` speaks of times without a transaction, so it needs what makes
it true again when one ends: `Certified` says of an open one that what its journal would put back is
what the marker names. `StagedWorkPreserved` needs `LiveKnown` (a payload in place is the old or the new one) and
`StillStaged` (what the cursor has not reached is staged, identical roots included).

`EapxImport_proofs` proves of `EapxStage`, for any number of files and any packages, with no further assumption:
`StageTypeCorrect` (`TypeOK`), `ResumeSound` (`ResumeIsSound`), `StageExact` (`StageIsExact`) and
`FinishedWorkKept` (`WorkKept`). `StageInv` adds to `ResumeIsSound` what extract has behind it at every
moment (`ItemsDone`), and to `StageIsExact` that the stage holds only files of plans with the fingerprint `stage-state` names,
with a `.part` only beside an unfinished file (`StageBelongs`): between the removal and the new
`stage-state` the stage must be empty, which is why the order of the two matters. That the item extract visits is one it
still has to visit rests on the least element of a set of naturals (`Least`, from the library's `WFMin`).

Of `EapxPlan` the same module proves, for any recipe, any ABIs and any sequence of candidates, `PlanInvariant`,
`NothingChosenSilently` (`NoSilentChoice`), `RefusedForCause` (`RefusalHasCause`) and `OutcomeOfFiles`
(`OrderIsIrrelevant`). `PlanInv` says that no ABI passed over had a plan (`AbisTried`) and that the winners are
the best plans of the groups gone by, no more and no fewer (`WinnersAreBest`). That the planner meets every
group needs that `GroupAt` is onto: no two groups have the same primary (`HeadsApart`), so ranks are an
injection of the groups into as many numbers (`FS_Injection`). Of the files for one destination a plan
keeps one (`KeptOne`), and where no conflict was found they have one identity, so two plans of one
fingerprint want the same files. The converse needs that a destination tells the rule (`OwnPlaces`: no two
rules share a place), and that the fingerprint tells the ABI needs a required, hashed file that no two
ABIs accept (`AbiShows`), since `Plan.fingerprint` (`eapx.py:1607`) holds the rule but not the ABI. Both
are hypotheses of the theorems that need them. The recipe of the run has both; so has
`ports/katamari/katamari.eapx.json`, the second trivially, with its one ABI. TLC checked `PlanInv` and the
two hypotheses on the run's instance.

`AudioSlots_proofs`, for any number of slots, threads, calls and lengths, assuming that decoded sounds
are whole frames (`LengthsAssumption`): `AudioTypeCorrect` (`AudioTypeOK`), `FreeSlotsAreSilent`
(`FreeIsSilent`) and `MixerReadsInside` (`ReadsInside`). `AudioInv` says what holds until two threads have
met: only one sets audio up (`SetUpOnce`); a section that found no mutex still finds what it checked
(`Alone`), since there is no mutex yet, hence no device and no callback (`DeviceInv`), and no other
section; the callback has the mutex that every section takes, and what it has aimed at is there (`Holds`);
and a free slot is silent (`AllQuiet`).

`FrameLoop_proofs` proves of `KatamariInput`, for any of the game's controls: `ReleaseStops` (`ReleasedMeansStill`) and
`TouchesHaveFingers` (`NoTouchStuck`). `InputInv` says for tilt, drift, strafe and pointer one by one that
an effect has a control that is still held, in the mode that gives it this effect; toggling the mode
is where each of the four is needed. For `FrameLoop` around it, for any
screenshots and any length of the command file, `LoopInv` adds that `run.sh` has emptied the file once a
loader runs (`Emptied`), that `status.json` is gone until the new loader writes its own (`NoOldAnswer`),
that no touch is unseen outside the part of the frame between the command and `nativeRender`
(`AllSeen`) and that no picture has its name before it is whole. Each gives one action property:
`OldCommandsDropped` (`NothingReplayed`), `AnswersAreFresh` (`ReadyIsFresh`), `PressesAreSeen`
(`PressSpansFrames`) and `WholePictures` (`PictureIsWhole`). Every step of the loop is a step of the input
bridge or its end, so `LoopReleases` carries `ReleasedMeansStill` and `NoTouchStuck` over to the loop.
`LoopAssumption`: that there is no token or no file is not itself a token or a state.

`CrashReport_proofs`, for any number of threads, signals and pieces: `OneReport` (`NoBraiding`) and
`WholeReport` (`ReportWhole`). `OneReporter` names the one handler frame that reports, says that all
that is written is its work and that every other frame, below or above it or on another thread, is a
bystander. `Undisturbed` adds for `WholeReport` that, until a loser gives up or the reporter faults,
handlers do not nest and no signal but the reporter's has its default action back; `StuckStays` that a
reporter that has faulted stays at the piece it could not read, with those before it written.

`PthreadBridge_proofs`, for any number of threads, mutexes, condition variables, addresses and depths:
`BridgeTypeCorrect` (`TypeOK`), `LockedMutexLives` (`HeldIsOwned`), `CreatedOnce` (`OneHostMutex`),
`BridgeImplementsBionic` (`ImplementsBionic`) and `SignalsReach` (`SignalWakes`). `BridgeInv`
has a part per thread and a part per mutex. Of a thread (`ThreadOK`) it says what its call still
relies on (`Entitled`), what it has learnt of its word that nobody can make untrue (`Knows`) and that the
host mutex it makes is nobody else's (`Makes`); of a mutex (`HostOK`) that its word names an object of its own
whose owner and depth are the game's. The critical facts are that a word once published stays until a
legal destroy, and that only the thread in the bootstrap lock publishes. A step of one thread keeps
what the others know because they look at other words or hold what the step would need: `OthersKeep`. The
refinement maps a lock's and a relock's host call to `Lock`, an unlock's and a wait's to `Unlock`, init and
destroy to `Reset`; the publication of a new object changes nothing that is visible, since the word's
initialiser and the fresh object mean the same kind, unowned. `SleepersFound` adds for `SignalWakes` that who
sleeps does so on the object the word names now, unless the condition variable is in `raced`: only two
creators at once can put a second object over the first.

`SoLoader_proofs`, for any libraries and any graph of needs: `NeededRunFirst` (`NeedsFirst`), `OneProvider`
(`SameProvider`) and `CodeRunsBound` (`RunsBound`). `LoaderInv` says that `loaded` is the list without the built-in
libraries in its order, that what a loaded library needs is on the list, that initialisers have run
for exactly the libraries behind the cursor, from the last, and that each of these was relocated
once, all of them with the same `loaded`. So whatever stands behind a library on the list has run before
it (`BehindRanBefore`), which is all that can be said: for what stands before it `NeedsFirst` and
`RunsBound` make an exception, and the code keeps no such order. What the folds that decode `DT_RELR` and `APS2` return for every
input is out of reach (induction over data), so `CodeRunsBound` assumes it (`Decodes`: the decoded words are
the library's, each once); the run `loader` shows it on every encoding of five words.

`GuestClock`, for all instants, deadlines and scales: `ShiftAdds`, `ReadsNeverGoBack`, `WaitNeverLong` (a
timed wait may end early and is never longer than asked, `symtab_pthread.cpp:595-599`),
`RealtimeWaitIsShort` (but a deadline from the unscaled `CLOCK_REALTIME` ends early by the whole offset,
while a scale is set) and `IntervalsSurviveTheWrap`. TLC does not evaluate this module: its numbers are
wider than TLC's.

Only model-checked: every liveness property (fairness and `ENABLED` are out of the prover's reach), the
launcher and `AtRestWhole`, whose properties fail.

## 5. Not modelled

- Importer: the quarantine of a corrupt journal (`eapx.py:2505`: the import goes on, and commit wipes the
  backup), power cuts during commit, the sync that a resumed stage skips (`eapx.py:2211`), the digest
  cache, hooks, optional roots, recipe parsing, bundles of APKs, ZIP reading.
- pthread bridge: `pthread_once` (the bridge runs the routine once, but lets a second caller go on while
  it runs, `pthread.cpp:185`), keys, attributes, running out of memory. The semaphores' bridge has no
  lazy creation and no state but a pointer.
- Input: positions, the left stick, hot-plugged pads, the autopilot.
- Control: two loaders on one directory, a stop that gives up. Crash reporter: a pipe nobody reads.
- Audio: volumes; the asset and save files. Loader: arenas and segment layout, hooks. JNI: the
  dispatch of calls through tables that do not change after start-up.
- Time: `nanosleep`, calls that only narrow, the vendored calendar of `time64.cpp`.
- stdio and path rewriting, OpenGL forwarding, texture decoding, diagnostics, vendored and generated
  code, build scripts: stateless, or outside a model checker's reach. Most of the repository's lines are
  these tables (`glad.h`, `impl_tab.h`, `jni.h`).

## 6. Plan

1. The importer: a corrupt journal; the digest cache with its stale keys; renames and writes of commit
   that a power cut may undo in any order the syncs allow. `StagePayload` of `EapxCommit` as the
   abstraction of `EapxStage`.
2. `PthreadBridge`: `pthread_once` and allocation failure. `FrameLoop`: two loaders.
3. Arena allocation and relocation modulo 2^32, with the invariant that no two allocations overlap.
