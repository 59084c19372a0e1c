# SnapPad in TLA+

SnapPad is a native iOS, iPadOS and macOS port of one Nintendo 64 game: a
statically recompiled game core, the N64ModernRuntime and RT64 libraries, and
the code in `src/port` that joins them to the device - a runner
(`port/runtime/snappad_runner.cpp`) and an Apple shell
(`port/apple/ios_main.mm`). The recompiled core comes out of a chain of scripts
(`src/scripts`) that rebuild a decompilation of the game, recover what its ELF has
lost, recompile it, and let it into a build only with evidence. This project
models the parts of both that hold state across calls, threads, callbacks,
launches or runs, and the algorithms whose result the rest trusts; it
model-checks them with TLC and proves the central ones with TLAPS.

Paths below are relative to `src/`. Every module begins with a comment that says
which code it models; every property has a comment that says what it is about.
`PROJECT.json` maps each definition to the lines it translates.

## Inventory

The processes of a running SnapPad:

- the **host window thread** runs `update_gfx` in a loop: it polls SDL events
  (keyboard, controllers, application life cycle), reconciles the controllers
  once a second and writes telemetry. On iOS it pumps the main run loop as well;
- the **main queue** of UIKit runs the touch overlay, menus, Settings and the ROM
  manager;
- the **game threads** of the recompiled core call `get_input`,
  `set_frequency`, `queue_samples` and the hooks in `snappad_game_hooks.cpp`;
- the **motion queue** delivers gyro samples; the **log writer** thread copies
  stderr to a file; SDL's audio hardware drains a queue.

A build is one developer running one script at a time; a script may be killed
between any two of its writes, and nothing removes what it left.

| Component | State | Operations | What is hard | What makes it correct | Module |
|---|---|---|---|---|---|
| Player slots (`runtime/controller_slots.cpp`, `SDLControllerBackend` in the runner) | handle and instance per player; SDL's device list and reference counts | `reconcile`, `release_instance`, `close_all`, enumerate and open of the backend | the device list changes between two backend calls of one pass; removed events are late or missing | one controller drives one player; no handle leaks or dangles; an attached player is not displaced; attached controllers get seated | `ControllerSlots` |
| Controller hand-off (runner, `ios_main.mm`) | last reported state, an atomic copy, blocks on the main queue, the overlay's flag | report, store, dispatch, attach the overlay | a report before, during or after the overlay is created | the overlay ends up with the last report | `ControllerHandoff` |
| Tap latches (`apple/touch_tap_latch.h`, keyboard latches in the runner) | sixteen atomic counters | `extend`, `clear`, `clearAll`, `consume` | two threads on relaxed atomics without a lock | a tap is seen, no oftener than asked, and clearing works | `TapLatch`, `AtomicLatch` |
| Touch overlay, menus and sheets (`ios_main.mm`) | a control per finger, published input, five flags, presented sheets, delayed presentations | touch handlers, menus, layout editor, life-cycle notifications, the game's snapshot | hundreds of legal orders of fingers, sheets, timers, controllers and the background | nothing stays held, hidden or running that should not | `TouchOverlay` |
| Gyro motion queue (`ios_main.mm`, `gyro_input_policy.cpp`) | generation, active flag, axes, filter | start, stop, motion handler | the handler checks the generation before it stores | no axes of a stopped session | `GyroMotion`; when it runs: `TouchOverlay` |
| Audio life cycle (runner) | background flag, device, pause state, queue | life-cycle events, `set_frequency`, `queue_samples` | a check of the flag, then an SDL call, on either thread | silent and short queue in the background, no stale audio after it | `AudioLifecycle` |
| Photo score fallback (`snappad_game_hooks.cpp`) | captured subjects, their correlation with photos, focus history | observe focus, capture, score, reset | photos are scored in an order the hooks do not control, at addresses that are used again | a photo gets its own subject | `PhotoScore` |
| Deterministic test input (`runtime/test_input_replay.cpp`, runner) | the optional route, its position, the trigger flags | parse, F7, play, complete | F7 assigns what the game thread plays | a route is played exactly, then input is live | `TestInputReplay` |
| Diagnostics session log (`apple/diagnostics.mm`) | two logs and two marker files | start, finish, log writer, report | the process dies between two file operations | a crash is labelled, a clean end is not | `SessionLog`, `AppLaunch` |
| ROM setup (`apple/rom_setup.mm`, runner) | installed ROM, the runner's copy, `rom.cfg`, the running game | import, validate, replace, remove, launch | failures and kills between the file operations, removal while the game runs | what the player was told holds at the next launch | `RomSetup`, `AppLaunch` |
| Evidence chain (`scripts/generate-game.sh` and the six scripts it calls) | G1, configuration, metadata, inventories, generated sources, logs, audit | rebuild, record, generate, audit, verify | kills in the middle of writes, stale outputs, edited allowlists | an open gate describes one certified, fully interpreted rebuild | `EvidenceChain` |
| Decomp link recovery (`scripts/build-decomp.sh`, `recover-…`, `filter-…`) | linker scripts, the link command in `build.ninja` | two links with recovery between | scripts that edit what an earlier, killed run edited | each symbol is linked to what its name and objects say | `LinkRecovery` |
| N64Recomp configuration (`scripts/generate-n64recomp-config.py`) | none | derive sizes, recover functions, infer hidden ones | gaps, hints, paddings and duplicate names | what is inferred fits into what is known | `FunctionRecovery` |
| Trace summaries (`scripts/summarize_*.py`) | none | select a window, summarise | both bounds of a window, weighted means | windows add up | `TraceSummary` |
| ROM layout and RSP configuration (`scripts/inventory-source-layout.py`, `generate-rsp-config.py`, `finalize-rsp-inventory.py`) | none | ends of segments, RSP blobs and data | `splat.yaml` lists only starts, in any order | a range ends where the next thing begins | `RomLayout` |
| Tunnel route hooks, address translation, settings, editor geometry, renderer, policies and stubs, patches, remaining scripts, tests | see *Not modelled* | | | | - |

How they interact: SDL events reach the slots and the audio device on the host
thread; the slots report to the overlay through an atomic and the main queue; the
overlay gives its input to the game through atomics and the tap latch, the gyro's
through atomics that the motion queue stores; `get_input` merges player one's
controller, the keyboard latches and the overlay, and a test route replaces the
result. The session log and the ROM set-up run before the game of a launch. The
scripts hand each other files only: the rebuild certified by `G1.json` is the
input of the configuration, the configuration and the log that of the audit, and
the audit that of the compile gate.

## Modules

### ControllerSlots, MCControllerSlots

`devices` is SDL's joystick list; `Attach` and `Detach` change it at any moment,
and an instance id is never reused, as in SDL. `slots` is `slots_`; a handle is
identified with the instance it was opened on, and `opens` is SDL's reference
count, because `SDL_GameControllerOpen` on an open controller returns the same
handle once more. One pass of `reconcile` is a sequence of steps, one per call of
the backend: `Enumerate` (with the stable sort that puts the preferred device
first; SDL changes the list when its events are pumped, between passes, so that the
enumeration is one snapshot, while the model lets the list change between any two
calls of the backend), `ReleaseStep` for each slot, then for each listed controller
`SkipAssigned`, or `OpenNext` - which opens whatever device has that index *now* -
followed by `SeatCandidate` or `RejectCandidate`. `OnRemoved` is
`release_instance` and the pass that follows it; `Shutdown` is `close_all`, which
only builds without the clean-exit patch reach.

`controller_slots` checks that no controller drives two players
(`NoSharedInstance`), that references match holders (`HandlesBalanced`), that a
player loses its slot only to a detached controller (`SlotsAreStable`), that in the
end every attached controller that can be opened has a slot unless none is free
(`EventuallySeated`), and that a detached one is released even if its event is lost
(`EventuallyReleased`). Four controllers, one of which can never be opened, two
players and a preferred second device: enough for a list that shifts under the pass,
a controller opened in place of another, and more controllers than slots.

### ControllerHandoff, MCControllerHandoff, ControllerProofs

Extends `ControllerSlots` with the report of `reconcile_controllers`, the store
into the atomic and the dispatch to the main queue (two steps), and the block that
creates the overlay and reads the atomic.

- `controller_handoff`: once the queue is empty the overlay has the last report
  (`OverlayCaughtUp`), for every order of report and creation; attached devices,
  slots and overlay agree in the end (`OverlayFollowsSlots`).
- `controller_handoff_player_one` (a disagreement): the PRD promises to hide the
  touch targets when a controller takes player one; the code hides them when any
  slot is taken. After player one's controller is unplugged the one of player two
  keeps the targets hidden, and only player one's is read.

### TapLatch, AtomicLatch, TapLatchProofs

One step per access of an atomic. The producer is in `extend` or `clear`, the
consumer in `consume`; a failed compare-exchange reloads; a spurious failure of the
weak exchange is a stuttering step. Histories record what each button was granted
and how many polls reported it.

`tap_latch`: two buttons, taps of one or two polls, two calls of `extend`, clears at
any time. `NoTapMultiplied`, `NoTapLost`; `ImplementsAtomicLatch`: the loops implement
`AtomicLatch`, in which `extend`, `clear` and `consume` of a button are indivisible;
`TapsAreSeen`: every tap is reported or cleared if the game keeps polling.

### TouchOverlay, MCTouchOverlay, TouchOverlayProofs

The main thread's view of the overlay: `roles` (the control each finger drives),
the published `buttons`, `stick` and `flick`, the flags `enabled`, `physical`,
`modal`, `editing`, the gyro, the stack of presented `sheets` and the `timers` of
delayed presentations. UIKit runs handlers to completion, so each handler is one
action, with the calls it makes to `clearInput`, `setModalControlsHidden:` and
`updateGyroMotionState`; the game's snapshot is a separate action that may come
between any two. A menu or a delayed sheet that finds no view controller to present it
hands the controls back (`NoMenu`, `NoPresenter`). One ordinary button stands for the held buttons, one for the
pulse buttons, beside the stick and the gyro toggle; positions, drawing and the
editor's geometry are left out.

- `touch_overlay`: two fingers. Nothing sticks (`NothingSticks`): a pressed control
  has a finger on it (`HeldMeansTouched`) and hidden controls are released
  (`HiddenMeansReleased`); the gyro runs exactly when its conditions hold
  (`GyroFollowsControls`); sheets hide the controls and the controls come back
  (`SheetsHideControls`, `ControlsComeBack`); a released flick is read in at most
  two of the stick's polls (`FlickFollowsStick`).
- `touch_overlay_handoff` (a disagreement): a finger left on a control when the
  editor closes presses it, also while a controller owns the input.
  `HiddenMeansReleased` excepts that case.

Three smaller departures from README.md:222 and from the comment on the flick are
stated in the properties as exceptions: the menu button's place reacts while Settings
are due, so that a second menu is stacked and closing one sheet shows the controls
under the other; the ROM manager opens over playable controls; and a flick that is
pending when the gyro takes over is replayed when it stops.

### AudioLifecycle, GyroMotion, PhotoScore, RuntimeCallbacks, RuntimeCallbacksProofs

`AudioLifecycle` has the life-cycle handlers of the host thread and
`reset_audio`/`queue_samples` of a game thread, one SDL call or flag access per
step. The queue records for each chunk whether it was queued in the background.

`GyroMotion` has the start and stop of the motion manager on the main thread and its
handler on a serial queue, one atomic access per step; the value of an axis is the
session whose sample it is. `owner` is the generation a handler captured; the history
`overtaken` marks a handler that had passed its check when the generation changed.

`PhotoScore` has the hooks at focus detector, shutter, scorer and course start, each
one step as it runs under `captured_subject_mutex`. The histories are the `album`
(what was in focus at each shutter) and `inOrder` (whether the game so far asked for
the course's photos in the order taken before it asked for any again).

The three share no state. `RuntimeCallbacks` puts them side by side, each behaviour
one of one part, so that one run and one proof module hold all three.

- `audio_lifecycle`: audio over two trips to the background and two queued chunks:
  the device sounds exactly in the foreground (`PauseFollowsLifecycle`), the queue
  holds at most the chunk that was under way (`BackgroundQueueBounded`), and nothing
  queued in the background is heard (`NoBackgroundAudioHeard`). The gyro over five
  generations and two waiting samples: outside a stop and a start the axes are zero
  or the running session's, unless a handler was overtaken
  (`AxesAreOfThisSession`). Photos, three of a course, two subjects of which one can
  be recovered: a rewritten score names the photo's own subject
  (`PhotosKeepTheirSubject`) as long as the game keeps the order.
- `audio_lifecycle_suspend` (a disagreement): a background event between the load
  of the flag in `reset_audio` and its pause call leaves the device on; the other
  run excepts that window.

Observations: a start that overtakes a handler of the stopped session leaves its
axes until the next sample. The comments above the scorer's hook
(`snappad_game_hooks.cpp:594`) say that only a photo of the current course has an
entry; a saved or null photo that is scored before all current ones consumes the
next entry, which is why `inOrder` is needed.

### TestInputReplay, MCTestInputReplay, TestInputReplayProofs

The optional route as its members, the F7 handler as the member-wise assignment it
is, and `get_input` as load and store of the counter, completion and reset. The
threads share these without a lock; the model takes the mildest outcome of that
data race, in which members are read and written whole and in program order.

`test_input_replay`: a route given at launch - immediate, or armed and started by
F7 - and a reload that no poll overlaps, whatever racing reloads before it did to the
position, is played step by step for exactly its polls, then input is live
(`RouteIsExact`); it ends (`RouteEnds`). A launch has a route file, or F7 starts the
armed route; three reloads at most. Three routes of one, two and four steps; the
counter is taken modulo 16 instead of 2^32, which exceeds the polls of any step.

Observation: a reload that overlaps the last poll of the running route erases its
completion, and player one is overridden with neutral input until the next F7
(`snappad_runner.cpp:345` against 1413-1418). Both properties speak of reloads no poll overlaps.

### SessionLog, RomSetup, AppLaunch, AppLaunchProofs

In `SessionLog` the two logs and two markers survive the process; each file operation
of `snappad_start_diagnostics_log` is a step and `Crash` may follow any of them. In
`RomSetup` the three files - `baserom.z64`, the runtime's copy, `rom.cfg` - survive;
import, replacement and removal make one file operation per step, each of which may
fail as the code provides for, and files may decay between launches. The history
`promised` is what the ROM manager told the player about the next launch. `AppLaunch`
composes them as `SDL_main` does: log, set-up, game.

- `session_log`: four launches, each killed anywhere, finished or quit. A session
  that did not finish is labelled (`NoMissedCrash`), a label is never without such a
  session (`NoFalseAlarm`), and what was promised about the ROM holds at the next
  launch (`RomPromisesKept`): a removed ROM is not played, a verified one not asked
  for again. Four launches are enough for a crash during the rotation after a crash,
  and one to look at it.
- `session_log_quit` (a disagreement): a normal quit ends in `std::_Exit` inside
  the patched `recomp::start`, so `snappad_finish_diagnostics_log` is not reached
  and the next report speaks of a possible crash.

Observations: `rom_setup.mm:351-367` says "ROM Removed" even when the support
directory could not be had; an import whose `rom.cfg` cannot be written is reported
as failed although the ROM is installed and will be played; a marker that cannot be
written (`diagnostics.mm:219`) is not noticed, so that session's crash is missed -
the run assumes it can be.

### EvidenceChain, MCEvidenceChain

Each file of the chain is `None`, `Torn` (its writing was cut short) or the thing it
was derived from; stamped files carry a stamp of their own, so that comparing
contents is comparing digests. `Rebuild` and `RecordG1` are `build-decomp.sh`; `job`
is the write `generate-game.sh` makes next, from the configuration over metadata,
dynamic-code audit, RSP files, CPU sources and both logs to the audit, with what each
script asks of the others before it writes. Both run as a whole: a single script of
theirs run by hand - `audit-generation-logs.py` over the truncated log of a killed
recompilation, say - is out of scope, and what `AcceptedIsInterpreted` says of truncated
logs is said of whole runs. `Kill` may follow any write or cut it
short; `VerifyPasses` is `verify-generated-evidence.py`, the gate of every compiling
script.

### LinkRecovery

`build-decomp.sh` between `configure.py` and the second `ninja`: the first link fails,
`recover-decomp-address-symbols.py` provides what carries its address in its name,
`filter-decomp-defined-symbols.py` drops and corrects assignments, both edit the link
command, the second link uses it. A name is the sequence of the words between its
underscores. `Restart` is a kill or a refusal in any step, with the files of that
step whole or empty. Left out are objects that fail to compile and assignments in the
decompilation's own `undefined_syms.txt`: of its linker scripts the model has the
generated ones, which are all that the two scripts edit.

### FunctionRecovery, TraceSummary, RomLayout, ScriptTasks, MCScriptTasks

Pure algorithms as operators, each translated step by step: how an object's unclaimed
text is divided among functions of which only name and size are left, what becomes of
them and of address-backed symbols over all objects, and how missing sizes are
derived; the three trace summaries; and the ends of segments, blobs and data.
`ScriptTasks` computes one task from a bounded set and states what the answer has to
be, never by the way it was computed:

- inferred functions are disjoint, complete and leave no hole (`HiddenFits`);
- what is inferred in an object is disjoint from what is known there, and two recovered
  functions have one name only where two overlays share an address, or where one has for
  its own name what the script makes of the other's (`RecoveredFits`);
- each function without a size that no warning names gets one, and whatever is handed on
  under its name ends at the next symbol or at the end of its object (`SizesAreExact`);
- a window is the sum of its two halves and its slope shows a leak (`WindowsAdd`);
- RSP blobs keep apart in any list, and aspMain's data ends before the next subsegment
  in an ascending one (`RangesKeepApart`).

A name is a sequence of words; the name that `derive_manual_functions` makes of a name
and an address is one word longer, and a symbol may bear that very name.

Names do clash across overlays. `docs/OVERLAYS.md:25-28` says that overlays share
addresses, so that an address does not identify a function, and
`generate-n64recomp-config.py:632-638` keeps its candidates apart by section and address;
but the name it gives them (646) is made of name and address alone. Two overlays that
each lose a static function `h` at the same address hand both to the recompiler as the
same `h_ADDRESS`, and an address-backed symbol that lies in the ranges of two overlays
(593) is handed on twice under its own name. Tasks of two overlays contain both cases;
`RecoveredFits` excepts them, and says that nothing else gives two functions one name.

A window of a trace is the family of its rows under their numbers in the trace, and a
sum over it is one over a finite set, so that a window and its halves are the same
kind of thing and can be proved about. What the files a script reads look like, whatever
they contain, is `WellFormed`; `TasksAssumption` asks it of every task, and TLC
evaluates it in the run. It says no more than the code that writes them: addresses and
sizes are numbers, a known function is not empty, `splat.yaml` has segments that start
apart with subsegments inside them in any order, a trace is in the order of time, and a cadence row is written for an interval that is not empty (`if (interval_ms == 0)
return;` in the runner).

### BuildScripts, MCBuildScripts, BuildScriptsProofs, FunctionRecoveryProofs

Puts the three groups side by side: a behaviour is one of the link, of the chain or of
one task while the others rest, as they read each other's files only once complete.

`build_scripts`:

- link: every program of up to three symbols of ten kinds, two kills. A link that
  succeeded linked every symbol as its name and objects say (`RecoveredLinkIsExact`);
  a program whose gaps can be filled ends up linked (`EventuallyLinked`). Three
  symbols are enough for a name that is filtered, one that is corrected and one that
  is provided to meet in one link.
- chain: three rebuilds of which two are exact, with different sources and
  diagnostics, three allowlist entries, and three rebuilds, kills or edits anywhere:
  an open gate means that everything stems from the certified rebuild
  (`AcceptedIsCurrent`) and that each of its diagnostics was interpreted
  (`AcceptedIsInterpreted`); an overtaken audit is never revived
  (`OvertakenAuditIsDead`); nothing left behind wedges the chain (`GateOpens`).
  Three changes are enough to kill a generation, rebuild and kill again.
- tasks: every task of the sets in `MCScriptTasks`; each contains the accepting and
  the refusing cases, ties, duplicates, empty windows and out-of-order lists.

Where the code and what is said of it differ without a property being violated, the
model follows the code:

- `generate-n64recomp-config.py:667-670` says at most 0x50 bytes stay unclaimed in
  any gap; with call hints the head of a gap may stay unclaimed beyond that, which is
  why `PaddingIsBounded` speaks of what lies behind a function.
- There "absent from the linked symbol table" is tested by the names represented in
  this object (613-618); a hint that was not settled may come to lie inside an
  inferred function; an overlap of address-backed symbols is only looked at when the
  object has pseudo-functions (577).
- `inventory-source-layout.py:106` passes over subsegments written as mappings when
  it ends an RSP blob, so that a blob may reach over one;
  `generate-rsp-config.py:56` does not, but takes the least start of all that follow in
  the file, which in a list out of order may lie before the data.
- `generate-n64recomp-config.py:497-515` skips a function that it cannot bind or size
  with a warning; sizes are handed on by name (517-522), so that it may still get the size
  of a namesake in another section. `SizesAreExact` says nothing of the skipped function.
- The output directories are never emptied (`generate-game.sh:28`): sources that only
  an older configuration called for stay, and pass the gate
  (`verify-generated-evidence.py:2` says stale output is rejected).
- The digest of the allowlist is not part of the evidence
  (`audit-generation-logs.py:147`): a later edit does not close the gate.
- A cadence row reads the renderer's counters one after the other while it counts on
  (`snappad_rt64_context.cpp:486`), so that a row may have more late presents than
  presents (`Mismatched`). A summary adds up all the same; that its mean stays below its
  longest interval and its late share below 100 percent needs rows that fit together.
- Nothing keeps `build-decomp.sh` and `generate-game.sh` from running at once; the
  model runs one at a time.

## Bounds

Every bound is a CONSTANT named in its module or a set of an MC module: controllers
and players, taps of a run (`TapBound`), trips and chunks, generations and waiting
samples, photos, sessions, reloads, changes of the chain (`MaxChanges`), restarts of
the build. They bound how often the environment acts; no step of the program is cut
off by one except that `queue_samples` waits when `MaxQueue` chunks are queued, as
the game's own pacing makes it do, and that the motion queue holds at most
`MaxBlocks` samples. Fingers and controllers are interchangeable and checked with
symmetry where no liveness is checked.

## Fairness

- `ControllerSlots`: the host loop never stops and reconciles once a second, and a
  pass has no loop that waits. No fairness for the device list or for the delivery
  of removed events.
- `ControllerHandoff`: the same, and the main run loop keeps running blocks.
- `TapLatch`: a call in progress proceeds and the game keeps polling; nobody has to
  tap. The producer's exchange retries only when the consumer made progress.
- `TestInputReplay`: the F7 handler ends and the game keeps polling; nobody has to
  press F7.
- `BuildScripts`: a script that was started goes on until it ends or is killed, and
  the developer records the rebuild and generates for as long as there is something to
  generate. Nothing makes rebuilds, edits or kills stop but their bound.

The other modules have no liveness and assume no fairness. Where a run checks safety
and liveness together its specification is fair; fairness excludes no finite
behaviour, so the safety properties hold without it as well.

## Proofs

Each proof module proves an inductive invariant that TLC checked first on the
instance of the run, and from it the properties. The only assumptions are the named
ASSUMEs of the modules, which TLC evaluates in the runs. No bound of a run is used:
the theorems hold for every value of the constants.

- `TapLatchProofs` (`LatchTypeCorrect`, `TapsNeverMultiply`, `TapsNeverLost`,
  `LatchRefines`), for any number of buttons and polls. `NoTapMultiplied` is not
  inductive: the compare-exchange of `extend` raises a counter, and only `Reserve` -
  the call in progress still has its polls in reserve for every button it has not come
  to - and `LoopInv` - an exchange is only tried with a copy below the polls asked
  for, or above zero - say that this was granted. `LatchRefines` maps every exchange
  that succeeds to `Grant` or `Take`, the store of a clear to `Drop`, and every other
  step to a stutter.
- `ControllerProofs`, for any controllers, players and preferred index. Of the slots
  (`SlotTypeCorrect`, `NoControllerShared`, `HandlesStayBalanced`, `PlayersStay`): the
  first three are one induction. A release may subtract a reference because exactly one
  slot holds the instance (`HoldersCount`) and the balance says there is one; seating
  keeps `NoSharedInstance` because the candidate is the listed controller, which
  `CandidateInv` says nobody has - also when `open` returned something else, which the
  identity check refuses. `FirstFree` is a CHOOSE whose least element exists by the
  well-foundedness of `<` (`Smallest`). `PlayersStay` adds `StabilityInv`: the list has
  no duplicates and ids are not reused, so that an enumeration - a permutation of the
  list - holds every attached player's controller while the slots are released. Of the
  hand-off (`OverlayIsUpToDate`, `HandoffKeepsSlots`, `HandoffIsSafe`): between two
  reports the last block of the main queue, or the creation of the overlay, brings the
  overlay up to date (`QueueInv`, `ReportInv`); a pass does not begin while a report is
  under way. Every behaviour of the composition is one of `ControllerSlots`, so that
  what is proved of the slots holds of runner and overlay together.
- `TouchOverlayProofs` (`NothingEverSticks`, `GyroIsRight`, `ControlsAlwaysComeBack`,
  `ControlsHideUnderSheets`, `FlicksAreShort`), for any number of fingers and any hold
  of a flick. Every handler clears the input, keeps it while hiding nothing, publishes
  it, or moves fingers in the editor; the last disturbs nothing because the editor
  starts from nothing held (`EditingInv`). While the modal flag is up something is
  shown or due that will take it down (`ModalInv`); until a menu is stacked there is
  one sheet (`OneSheet`); polls and what is left of the flick add up (`FlickInv`).
- `RuntimeCallbacksProofs` (`PauseIsRight`, `QueueStaysShort`, `NoStaleAudio`,
  `AxesAreCurrent`, `SubjectsAreTheirOwn`), for any number of trips, chunks,
  generations, samples, photos and subjects. `AudioInv` says at each stage of the two
  threads what has been checked and done (`PauseInv`, `QueueInv`, `StaleInv`);
  `GyroInv` that a handler not overtaken stores for the current session; `PhotoInv`
  that the entries are as the photos and an address belongs to the entry of its number.
- `TestInputReplayProofs` (`RoutesAreExact`), for any routes, any number of reloads and
  any modulus a step's polls fit in. `InstallInv` and `PollInv` follow the two threads
  through assignment and poll, `OutInv` says which poll reports which step. That the
  prefix sums of the polls locate one step is shown by least counterexample, as the
  induction theorems cannot be instantiated.
- `AppLaunchProofs` (`CrashesAreLabelled`, `LabelsAreEarned`, `PromisesAreKept`), for
  any number of launches. A marker covers the log until the label takes over, and a
  label has its reason (`LogInv`); a promise is about `baserom.z64` alone and the file
  that follows it finds it as it was left (`RomInv`).
- `BuildScriptsProofs`, for the scripts of the build:
  - the chain (`ChainTypeCorrect`, `GateIsCurrent`, `GateIsInterpreted`,
    `OvertakenStaysDead`), for any builds, sources, diagnostics and entries and any
    number of changes. What the running script has written describes the rebuild it
    checked first (`JobInv`); an audit is about one rebuild, whatever became of its files
    since (`AuditInv`). Neither property is inductive without them;
  - the link (`LinkIsExact`, `LinkRefusesLittle`), for any program that
    `InputsAssumption` admits and any number of kills. The second says of
    `RefusalsAreDeserved`, which no run lists, that the recovery gives up only where some
    symbol cannot be resolved. `LinkInv` says of each stage what
    stands in the link command, whatever earlier runs left there (`CommandInv`), what the
    generated scripts hold (`FilesInv`), and that a refusal had its reason
    (`RefusedIsHopeless`); `SecondResolves` follows one symbol through the second link;
  - the answers of the scripts that only compute (`HiddenIsRight`, `RecoveryIsSound`,
    `SizesAreRight`, `RangesAreApart`, `WindowsAlwaysAdd`), for any task that is `WellFormed`.
    The step to the answer is one step; the work is in the operators, see below;
  - all of them as the one system `BuildScripts` is (`BuildIsSafe`): each part goes
    through its own behaviours whichever of them runs.
- `FunctionRecoveryProofs` has the lemmas about the loops of `generate-n64recomp-config.py`
  that `HiddenIsRight` and `RecoveryIsSound` rest on. `InferenceFits` says that what
  `infer_hidden_object_functions` returns lies well; it follows the code: gaps are free and
  apart (`GapIsFree`, `GapsApart`), the settling loop keeps what it has placed inside its
  segment and gives each function one place (`SettleStep`, `SettleLoopSettles`), packing
  fills a segment from its start or gives up (`PackStep`, `PackLoopPacks`), and both only
  move a function from the open to the placed ones (`OneMoves`, `PackedMove`), which is
  why in the end all are placed or none (`MatchedCounts`).

Loops and sums. What a fold computes for every input would need induction over data,
which no prover here can do. Where the loop of the code runs over a finite set, its fold is
instead shown to be the value of a *function* on the subsets of that set: `RecursionExists`
gives, by least counterexample, a function that satisfies the recursion, `SubsetInduction` is
the principle to reason about it, and the two together replace induction
(`SettleLoopRuns`, `PackLoopRuns`, `TotalIsSum`, `SumAddsUp`). The traces rest on it most: a
sum is the same in every order (`OrderDoesNotMatter`), so that it splits over the halves of a
window (`SumOfTwoParts`); and the covariance of two families that rise together is positive
as soon as both differ in one place (`CovarianceIsPositive`): it grows, with each row that is
added, by the sum of the products of its deviations, none of which is negative.

What stays with TLC is liveness: `EventuallySeated`, `EventuallyReleased`,
`OverlayFollowsSlots`, `TapsAreSeen`, `RouteEnds`, `GateOpens` and `EventuallyLinked`, because
fairness and ENABLED are beyond the prover. Every other property of the passing runs is a
theorem. The four disagreements are counterexamples, which need no proof. No module uses
RECURSIVE.

## Not modelled

The recompiled game, RT64, SDL and UIKit appear as the environment the code in
`port` uses. Drawing, layout geometry, sample conversion, log wording and the text
of reports and configurations are left out. Beyond that:

- **Tunnel route and acceptance hooks**: they drive recorded acceptance runs by
  thresholds on positions in the game's memory, which a finite model would invent.
- **Address translation**: two pure functions whose unsigned 32-bit arithmetic is
  their whole content; TLC cannot enumerate the widths at which it matters.
- **Settings persistence, layout editor geometry**: one dictionary read with defaults
  and written by one handler each; clamping of points.
- **The log writer's truncation**: it loses log text, which nothing reads back.
- **Renderer**: its state is RT64's and the GPU's. **Vendored-source patches**: diffs
  against code that is not in the repository; the clean-exit patch is in `SessionLog`.
- **Policies, stubs and registrations**: no state.
- **Source preparation** (`apply-patches.sh`, `clone-sources.sh`, ...): asks git
  whether a patch applies and stops at the first failure; the state is git's.
- **Build, packaging and deployment scripts**: straight sequences of tools.
- **Derivation and parity audits**: lists of literal strings that must or must not
  occur in source files; a model would be a copy of the lists.
- **Save inspector**: prints fields at fixed offsets. **Instruction patterns** of
  `generate-n64recomp-config.py` and `generate-rsp-config.py`: comparisons of bit
  fields of single words with literals.

## Plan

What could still be added, in this order:

1. The invariants behind the liveness arguments: that what an attached controller or a
   waiting script needs for its next step holds until the step is taken, with the guard
   written out in place of ENABLED.
2. The tunnel hooks' single-use flags composed with `TestInputReplay`, once the
   recordings that drive them say which orders occur.
3. Two scripts at once on one work directory, if the scripts come to allow it.
