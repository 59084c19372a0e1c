--------------------------- MODULE AudioLifecycle ---------------------------
(***************************************************************************)
(* Native audio of the runner across background and foreground             *)
(* (snappad_runner.cpp).  The host window thread handles the lifecycle     *)
(* events in update_gfx; a game thread opens the device in set_frequency   *)
(* and feeds it in queue_samples; the sound hardware drains the queue.     *)
(* They share app_backgrounded, audio_device and SDL's device, and no      *)
(* lock: each SDL call and each access of the flag is a step.              *)
(*                                                                         *)
(* Sample values, rates and conversion are left out; the queue holds one   *)
(* entry per SDL_QueueAudio call, which records whether the application    *)
(* was in the background at that moment.  audio_device is a plain integer  *)
(* that both threads touch; a host thread that still sees 0 after the      *)
(* device was opened skips the pause that set_frequency repeats after it,  *)
(* so sequentially consistent steps reach the same device states.          *)
(***************************************************************************)
EXTENDS Naturals, Sequences

CONSTANTS
  MaxTrips, \* bound on the trips to the background in a run
  MaxQueue  \* bound on the chunks SDL holds; the game's own pacing keeps it short

ASSUME AudioAssumption == MaxTrips \in Nat /\ MaxQueue \in Nat \ {0}

VARIABLES
  app,          \* the operating system's view: active, inactive, background
  trips,        \* trips to the background so far
  events,       \* lifecycle events SDL has queued and update_gfx has not polled
  backgrounded, \* app_backgrounded
  device,       \* audio_device: "none" (0), "open", "closed" at exit
  paused,       \* SDL's pause state of the device
  queue,        \* SDL's audio queue: "front" or "back", where it was queued
  host,         \* where the host thread is in a lifecycle handler
  game,         \* where the game thread is in set_frequency or queue_samples
  loaded,       \* app_backgrounded as reset_audio read it
  straddled     \* history: the last lifecycle change was handled while the
                \* game thread stood between that read and its pause call

system == <<app, trips, events>>
sound  == <<device, paused, queue>>
vars   == <<system, backgrounded, sound, host, game, loaded, straddled>>

Init ==
  /\ app = "active" /\ trips = 0 /\ events = <<>>
  /\ backgrounded = FALSE
  /\ device = "none" /\ paused = TRUE /\ queue = <<>>
  /\ host = "idle" /\ game = "idle" /\ loaded = FALSE
  /\ straddled = FALSE

-----------------------------------------------------------------------------
(* The operating system, through SDL's event queue. *)

WillEnterBackground ==
  /\ app = "active" /\ trips < MaxTrips
  /\ app' = "inactive" /\ trips' = trips + 1
  /\ events' = Append(events, "will_background")
  /\ UNCHANGED <<backgrounded, sound, host, game, loaded, straddled>>

DidEnterBackground ==
  /\ app = "inactive"
  /\ app' = "background"
  /\ events' = Append(events, "did_background")
  /\ UNCHANGED <<trips, backgrounded, sound, host, game, loaded, straddled>>

\* An interruption that stops short of the background ends the same way.
DidEnterForeground ==
  /\ app # "active"
  /\ app' = "active"
  /\ events' = Append(events, "did_foreground")
  /\ UNCHANGED <<trips, backgrounded, sound, host, game, loaded, straddled>>

-----------------------------------------------------------------------------
(* The host window thread. *)

Polled(kinds) ==
  /\ host = "idle" /\ device # "closed"
  /\ events # <<>> /\ Head(events) \in kinds
  /\ events' = Tail(events)
  /\ UNCHANGED <<app, trips, sound, game, loaded>>

\* app_backgrounded.exchange(true): only the first event of a trip acts.
OnBackground ==
  /\ Polled({"will_background", "did_background"})
  /\ backgrounded' = TRUE
  /\ IF ~backgrounded
     THEN /\ straddled' = (game = "pausing")
          /\ host' = IF device # "none" THEN "bg_pause" ELSE host
     ELSE UNCHANGED <<straddled, host>>

BackgroundPause ==
  /\ host = "bg_pause"
  /\ paused' = TRUE /\ host' = "bg_clear"
  /\ UNCHANGED <<system, backgrounded, device, queue, game, loaded, straddled>>

\* Slip: pausing is thought to be enough.
MutBackgroundClear ==
  /\ host = "bg_clear"
  /\ host' = "idle"
  /\ UNCHANGED <<system, backgrounded, sound, game, loaded, straddled>>

BackgroundClear ==
  /\ host = "bg_clear"
  /\ queue' = <<>> /\ host' = "idle"
  /\ UNCHANGED <<system, backgrounded, device, paused, game, loaded, straddled>>

\* app_backgrounded.exchange(false); what it returns is only logged.
OnForeground ==
  /\ Polled({"did_foreground"})
  /\ backgrounded' = FALSE
  /\ straddled' = (game = "pausing")
  /\ host' = IF device # "none" THEN "fg_clear" ELSE host

\* Slip: the queue was cleared on the way out, so it is left alone here.
MutForegroundClear ==
  /\ host = "fg_clear"
  /\ host' = "fg_pause"
  /\ UNCHANGED <<system, backgrounded, sound, game, loaded, straddled>>

ForegroundClear ==
  /\ host = "fg_clear"
  /\ queue' = <<>> /\ host' = "fg_pause"
  /\ UNCHANGED <<system, backgrounded, device, paused, game, loaded, straddled>>

ForegroundUnpause ==
  /\ host = "fg_pause"
  /\ paused' = FALSE /\ host' = "idle"
  /\ UNCHANGED <<system, backgrounded, device, queue, game, loaded, straddled>>

-----------------------------------------------------------------------------
(* The game thread. *)

\* set_frequency finds no device: reset_audio opens one, which SDL creates
\* paused and empty.  With a device only the audio stream is replaced.
OpenDevice ==
  /\ game = "idle" /\ device = "none"
  /\ device' = "open" /\ paused' = TRUE /\ queue' = <<>>
  /\ game' = "opened"
  /\ UNCHANGED <<system, backgrounded, host, loaded, straddled>>

LoadFlag ==
  /\ game = "opened"
  /\ loaded' = backgrounded /\ game' = "pausing"
  /\ UNCHANGED <<system, backgrounded, sound, host, straddled>>

\* Slip: a fresh device is simply started.
MutApplyPause ==
  /\ game = "pausing"
  /\ paused' = FALSE /\ game' = "idle"
  /\ UNCHANGED <<system, backgrounded, device, queue, host, loaded, straddled>>

\* SDL_PauseAudioDevice with what was loaded.
ApplyPause ==
  /\ game = "pausing"
  /\ paused' = loaded /\ game' = "idle"
  /\ UNCHANGED <<system, backgrounded, device, queue, host, loaded, straddled>>

\* queue_samples gets past its early returns and converts the samples.
CheckQueue ==
  /\ game = "idle" /\ device = "open" /\ Len(queue) < MaxQueue
  /\ ~backgrounded
  /\ game' = "queueing"
  /\ UNCHANGED <<system, backgrounded, sound, host, loaded, straddled>>

\* SDL_QueueAudio, which looks at nothing.
QueueAudio ==
  /\ game = "queueing"
  /\ queue' = Append(queue, IF backgrounded THEN "back" ELSE "front")
  /\ game' = "idle"
  /\ UNCHANGED <<system, backgrounded, device, paused, host, loaded, straddled>>

-----------------------------------------------------------------------------

\* The hardware takes the oldest chunk.
Play ==
  /\ device = "open" /\ ~paused /\ queue # <<>>
  /\ queue' = Tail(queue)
  /\ UNCHANGED <<system, backgrounded, device, paused, host, game, loaded, straddled>>

\* main after recomp::start returned: the game threads have ended by then.
CloseDevice ==
  /\ host = "idle" /\ game = "idle" /\ device = "open"
  /\ device' = "closed" /\ queue' = <<>> /\ paused' = TRUE
  /\ UNCHANGED <<system, backgrounded, host, game, loaded, straddled>>

Exited == device = "closed" /\ UNCHANGED vars

System == WillEnterBackground \/ DidEnterBackground \/ DidEnterForeground
HostStep ==
  \/ OnBackground \/ BackgroundPause \/ BackgroundClear
  \/ OnForeground \/ ForegroundClear \/ ForegroundUnpause
GameStep == OpenDevice \/ LoadFlag \/ ApplyPause \/ CheckQueue \/ QueueAudio

Next == System \/ HostStep \/ GameStep \/ Play \/ CloseDevice \/ Exited

Spec == Init /\ [][Next]_vars

-----------------------------------------------------------------------------
(* Properties. *)

\* Every variable keeps its type.
TypeOK ==
  /\ app \in {"active", "inactive", "background"}
  /\ trips \in Nat
  /\ events \in Seq({"will_background", "did_background", "did_foreground"})
  /\ backgrounded \in BOOLEAN
  /\ device \in {"none", "open", "closed"}
  /\ paused \in BOOLEAN
  /\ queue \in Seq({"front", "back"})
  /\ host \in {"idle", "bg_pause", "bg_clear", "fg_clear", "fg_pause"}
  /\ game \in {"idle", "opened", "pausing", "queueing"}
  /\ loaded \in BOOLEAN
  /\ straddled \in BOOLEAN
  /\ device = "closed" => host = "idle" /\ game = "idle"

\* No thread is inside a handler that sets the pause state.
Settled == device = "open" /\ host = "idle" /\ game \notin {"opened", "pausing"}

\* The device sounds exactly in the foreground, whatever was opened, queued or
\* suspended in between - except after a lifecycle change that fell between
\* reset_audio's look at the flag and its pause call, and then only until the
\* next change.
PauseFollowsLifecycle == Settled /\ ~straddled => paused = backgrounded

\* In the background the queue does not fill up: at most the chunk of the one
\* queue_samples call that was under way when the flag went up.
BackgroundQueueBounded == host = "idle" /\ backgrounded => Len(queue) <= 1

\* What was queued in the background is not heard after the resume.
NoBackgroundAudioHeard ==
  [][Play /\ ~backgrounded /\ ~straddled => Head(queue) = "front"]_vars

\* README: "backgrounding suspends and clears queued audio".
BackgroundSuspends == Settled /\ backgrounded => paused

-----------------------------------------------------------------------------
(* The inductive invariant behind the first three. *)

NoneOfBackground == \A k \in DOMAIN queue : queue[k] = "front"
Opening == game \in {"opened", "pausing"}

\* Handlers and the game thread are where the flag and the device put them.
StagesMatch ==
  /\ host \in {"bg_pause", "bg_clear"} => backgrounded
  /\ host \in {"fg_clear", "fg_pause"} => ~backgrounded
  /\ device = "none" => host = "idle" /\ game = "idle"
  /\ device # "open" => queue = <<>>

\* The pause state is right once the host has passed its pause call and the game
\* thread its own.
PauseInv ==
  /\ game = "pausing" /\ ~straddled => loaded = backgrounded
  /\ device = "open" /\ ~Opening /\ ~straddled /\ host \in {"idle", "bg_clear"} =>
       paused = backgrounded

\* In the background there is one chunk at most, in the queue or on its way.
QueueInv ==
  /\ host = "idle" /\ backgrounded => Len(queue) <= 1
  /\ host = "idle" /\ backgrounded /\ game = "queueing" => queue = <<>>

\* A chunk of the background waits for the clearing, behind a paused device.
StaleInv ==
  /\ Opening => NoneOfBackground
  /\ backgrounded /\ straddled => NoneOfBackground /\ game # "queueing"
  /\ ~backgrounded /\ host # "fg_clear" => NoneOfBackground
  /\ ~backgrounded /\ host = "fg_clear" /\ ~straddled => NoneOfBackground \/ paused

AudioInv == TypeOK /\ StagesMatch /\ PauseInv /\ QueueInv /\ StaleInv

=============================================================================
