-------------------------- MODULE TestInputReplay --------------------------
(***************************************************************************)
(* The deterministic input route of acceptance runs: class TestInputReplay *)
(* (port/runtime/test_input_replay.cpp), the F7 key and get_input in       *)
(* snappad_runner.cpp.  A route is a sequence of steps; each step gives    *)
(* the game one frame of input for a number of polls.                      *)
(*                                                                         *)
(* Two threads share the optional test_input_replay without a lock: the    *)
(* host window thread starts or reloads the route on F7, the game thread   *)
(* plays one frame per poll and destroys the route when it is over.  The   *)
(* races between them are undefined behaviour; the model takes its mildest *)
(* outcome, in which each member is read and written as a whole and in     *)
(* program order, and leaves the corruption of the heap out.               *)
(*                                                                         *)
(* SNAPPAD_TEST_INPUT_ROUTE_TUNNEL_PROGRESS is not set here.               *)
(***************************************************************************)
EXTENDS Integers, Sequences

CONSTANTS
  Routes,     \* what parse() may return: sequences of [frame, polls]
  Begin,      \* Begin[r][k]: the polls of route r before its step k
  Modulus,    \* 2^32: polls_remaining_ is a uint32_t
  MaxReloads, \* bound: F7 presses that reload
  Neutral,    \* the frame {} that next() returns when the route is over
  Live        \* the frame of the keyboard, controller and touch overlay

ASSUME RouteAssumption ==
  /\ MaxReloads \in Nat /\ Modulus \in Nat
  /\ \A r \in Routes :
       /\ Len(r) \in Nat \ {0}
       /\ \A k \in 1..Len(r) : r[k].polls \in 1..(Modulus - 1)
       /\ Begin[r][1] = 0
       /\ \A k \in 1..Len(r) : Begin[r][k + 1] = Begin[r][k] + r[k].polls

VARIABLES
  engaged,        \* test_input_replay.has_value()
  steps,          \* steps_
  stepIndex,      \* step_index_, counted from 1
  pollsRemaining, \* polls_remaining_
  pending,        \* completed_pending_
  fileMode,       \* SNAPPAD_TEST_INPUT_ROUTE_FILE is set: F7 reloads the file
  waiting,        \* test_input_replay_waiting_for_trigger
  host,           \* where the host thread is in the F7 handler
  parsed,         \* the route parse() returned to the handler
  reloads,        \* reloads so far
  game,           \* where the game thread is in get_input
  frame,          \* the frame next() returns
  count,          \* the value --polls_remaining_ computes
  route,          \* the route that was installed last
  out,            \* history: the frames of the polls since the route began
  clean           \* history: no poll overlapped the last reload

replay == <<engaged, steps, stepIndex, pollsRemaining, pending>>
thread == <<host, parsed, reloads>>
poll   == <<game, frame, count>>
vars   == <<replay, fileMode, waiting, thread, poll, route, out, clean>>

Total(r) == Begin[r][Len(r) + 1]

\* initialize_test_input_replay: the route of the launch, armed or immediate.
Init ==
  /\ route \in Routes
  /\ engaged = TRUE /\ steps = route /\ stepIndex = 1
  /\ pollsRemaining = route[1].polls /\ pending = FALSE
  /\ fileMode \in BOOLEAN /\ waiting \in BOOLEAN
  /\ host = "idle" /\ parsed = route /\ reloads = 0
  /\ game = "idle" /\ frame = Neutral /\ count = 0
  /\ out = <<>> /\ clean = TRUE

-----------------------------------------------------------------------------
(* The host thread: the F7 branch of update_gfx. *)

\* Without a route file F7 starts the armed route.
StartArmed ==
  /\ ~fileMode /\ host = "idle"
  /\ engaged /\ waiting
  /\ waiting' = FALSE
  /\ UNCHANGED <<replay, fileMode, thread, poll, route, out, clean>>

\* install_test_input_replay_file(false): the file parsed to r.  A file that
\* cannot be opened or parsed changes nothing.
Reload(r) ==
  /\ fileMode /\ host = "idle" /\ reloads < MaxReloads
  /\ parsed' = r /\ waiting' = FALSE /\ host' = "install"
  /\ reloads' = reloads + 1
  /\ route' = r /\ out' = <<>> /\ clean' = (game = "idle")
  /\ UNCHANGED <<replay, fileMode, poll>>

\* test_input_replay = std::move(*replay) on an empty optional constructs the
\* route before has_value() turns true; on a full one it assigns the members.
Install ==
  /\ host = "install"
  /\ IF engaged
     THEN host' = "steps" /\ UNCHANGED replay
     ELSE /\ host' = "idle" /\ engaged' = TRUE
          /\ steps' = parsed /\ stepIndex' = 1
          /\ pollsRemaining' = parsed[1].polls /\ pending' = FALSE
  /\ UNCHANGED <<fileMode, waiting, parsed, reloads, poll, route, out, clean>>

AssignSteps ==
  /\ host = "steps"
  /\ host' = "index" /\ steps' = parsed
  /\ UNCHANGED <<engaged, stepIndex, pollsRemaining, pending, fileMode, waiting, parsed, reloads,
                 poll, route, out, clean>>

AssignIndex ==
  /\ host = "index"
  /\ host' = "count" /\ stepIndex' = 1
  /\ UNCHANGED <<engaged, steps, pollsRemaining, pending, fileMode, waiting, parsed, reloads,
                 poll, route, out, clean>>

AssignCount ==
  /\ host = "count"
  /\ host' = "pending" /\ pollsRemaining' = parsed[1].polls
  /\ UNCHANGED <<engaged, steps, stepIndex, pending, fileMode, waiting, parsed, reloads,
                 poll, route, out, clean>>

AssignPending ==
  /\ host = "pending"
  /\ host' = "idle" /\ pending' = FALSE
  /\ UNCHANGED <<engaged, steps, stepIndex, pollsRemaining, fileMode, waiting, parsed, reloads,
                 poll, route, out, clean>>

-----------------------------------------------------------------------------
(* The game thread: get_input. *)

\* The history of a route that began keeps one frame more than the route has.
Record(f) ==
  out' = IF clean /\ Len(out) <= Total(route) THEN Append(out, f) ELSE out

\* The poll gives the game what the keyboard and controllers say.
PollLive ==
  /\ game = "idle"
  /\ ~engaged \/ waiting
  /\ IF out = <<>> THEN UNCHANGED out ELSE Record(Live)
  /\ clean' = (clean /\ host = "idle")
  /\ UNCHANGED <<replay, fileMode, waiting, thread, poll, route>>

PollRoute ==
  /\ game = "idle"
  /\ engaged /\ ~waiting
  /\ game' = "next"
  /\ clean' = (clean /\ host = "idle")
  /\ UNCHANGED <<replay, fileMode, waiting, thread, frame, count, route, out>>

\* next() up to the load of --polls_remaining_.
NextLoad ==
  /\ game = "next"
  /\ IF stepIndex > Len(steps)
     THEN game' = "completed" /\ frame' = Neutral /\ UNCHANGED count
     ELSE /\ game' = "store"
          /\ frame' = steps[stepIndex].frame
          /\ count' = (pollsRemaining - 1) % Modulus
  /\ UNCHANGED <<replay, fileMode, waiting, thread, route, out, clean>>

\* Slip: a step ends one poll early.
MutNextShort ==
  /\ game = "store" /\ game' = "completed"
  /\ IF count <= 1 /\ stepIndex < Len(steps)
     THEN /\ stepIndex' = stepIndex + 1
          /\ pollsRemaining' = steps[stepIndex + 1].polls
          /\ UNCHANGED pending
     ELSE /\ pollsRemaining' = count
          /\ stepIndex' = IF count = 0 THEN stepIndex + 1 ELSE stepIndex
          /\ pending' = (pending \/ count = 0)
  /\ UNCHANGED <<engaged, steps, fileMode, waiting, thread, frame, count, route, out, clean>>

\* The rest of next().
NextStore ==
  /\ game = "store" /\ game' = "completed"
  /\ IF count # 0
     THEN pollsRemaining' = count /\ UNCHANGED <<stepIndex, pending>>
     ELSE /\ stepIndex' = stepIndex + 1
          /\ IF stepIndex + 1 <= Len(steps)
             THEN pollsRemaining' = steps[stepIndex + 1].polls /\ UNCHANGED pending
             ELSE pollsRemaining' = 0 /\ pending' = TRUE
  /\ UNCHANGED <<engaged, steps, fileMode, waiting, thread, frame, count, route, out, clean>>

\* Slip: the completed route is reported, not reset.
MutConsumeCompleted ==
  /\ game = "completed"
  /\ pending' = FALSE
  /\ game' = "idle" /\ Record(frame)
  /\ UNCHANGED <<engaged, steps, stepIndex, pollsRemaining, fileMode, waiting, thread,
                 frame, count, route, clean>>

\* consume_completed(); a poll that is not the last one is over.
ConsumeCompleted ==
  /\ game = "completed"
  /\ pending' = FALSE
  /\ IF pending THEN game' = "reset" /\ UNCHANGED out
                ELSE game' = "idle" /\ Record(frame)
  /\ UNCHANGED <<engaged, steps, stepIndex, pollsRemaining, fileMode, waiting, thread,
                 frame, count, route, clean>>

\* test_input_replay.reset()
Reset ==
  /\ game = "reset"
  /\ game' = "idle" /\ engaged' = FALSE
  /\ Record(frame)
  /\ UNCHANGED <<steps, stepIndex, pollsRemaining, pending, fileMode, waiting, thread,
                 frame, count, route, clean>>

HostStep == Install \/ AssignSteps \/ AssignIndex \/ AssignCount \/ AssignPending
GameStep == PollLive \/ PollRoute \/ NextLoad \/ NextStore \/ ConsumeCompleted \/ Reset

Next ==
  \/ StartArmed
  \/ \E r \in Routes : Reload(r)
  \/ HostStep
  \/ GameStep

Spec == Init /\ [][Next]_vars

\* The handler of a key that was pressed ends, and the game polls its
\* controllers for as long as it runs; nobody has to press F7.
FairSpec == Spec /\ WF_vars(HostStep) /\ WF_vars(GameStep)

-----------------------------------------------------------------------------
(* Properties. *)

\* Without a race the position is one of the route: a step of it with polls
\* left, or its end.
PositionInRoute ==
  clean /\ host = "idle" =>
    /\ stepIndex \in 1..(Len(steps) + 1)
    /\ stepIndex <= Len(steps) => pollsRemaining \in 1..steps[stepIndex].polls

\* A route is deterministic: from its first poll the game sees every step in
\* order for exactly its number of polls, and live input right after the last
\* (test_input_replay_test.cpp; get_input).  It holds for the route of the
\* launch and for a reload that no poll overlapped, whatever an earlier one
\* left behind, and the 32-bit counter never wraps.
RouteIsExact ==
  /\ PositionInRoute
  /\ clean =>
       /\ \A k \in 1..Len(route), j \in 1..Len(out) :
            Begin[route][k] < j /\ j <= Begin[route][k + 1] => out[j] = route[k].frame
       /\ Len(out) > Total(route) => out[Len(out)] = Live

\* A route that plays and that no racing reload disturbs comes to its end and is
\* destroyed: the player gets control back.
RouteEnds == (engaged /\ ~waiting /\ clean) ~> (~engaged \/ ~clean)

-----------------------------------------------------------------------------
(* The inductive invariant behind the first. *)

Frames == {Neutral, Live} \cup UNION {{r[k].frame : k \in 1..Len(r)} : r \in Routes}

TypeOK ==
  /\ route \in Routes /\ steps \in Routes /\ parsed \in Routes
  /\ engaged \in BOOLEAN /\ pending \in BOOLEAN /\ waiting \in BOOLEAN /\ clean \in BOOLEAN
  /\ stepIndex \in Nat \ {0} /\ frame \in Frames /\ out \in Seq(Frames)
  /\ host \in {"idle", "install", "steps", "index", "count", "pending"}
  /\ game \in {"idle", "next", "store", "completed", "reset"}

\* After `more` polls that are not recorded yet the route is at a step, at its end.
AtStep(more) ==
  /\ stepIndex \in 1..Len(route) /\ pollsRemaining \in 1..route[stepIndex].polls /\ ~pending
  /\ Len(out) + more + pollsRemaining = Begin[route][stepIndex + 1]
AtEnd(more) == stepIndex = Len(route) + 1 /\ Len(out) + more = Total(route)

\* The poll under way returns the frame of its step.
FrameDue ==
  \A k \in 1..Len(route) :
    Begin[route][k] <= Len(out) /\ Len(out) < Begin[route][k + 1] => frame = route[k].frame

\* How far an installation has got that no poll overlaps.
InstallInv ==
  /\ game = "idle" /\ out = <<>> /\ ~waiting /\ parsed = route
  /\ host # "install" => engaged
  /\ host \in {"index", "count", "pending"} => steps = route
  /\ host \in {"count", "pending"} => stepIndex = 1
  /\ host = "pending" => pollsRemaining = route[1].polls

\* Where the game is in the route, at each point of a poll.
PollInv ==
  /\ steps = route
  /\ waiting => engaged /\ game = "idle" /\ out = <<>>
  /\ game \in {"next", "store", "completed"} => engaged
  /\ game \in {"next", "store"} \/ (game = "idle" /\ engaged) => AtStep(0)
  /\ game = "store" => frame = route[stepIndex].frame /\ count = pollsRemaining - 1
  /\ game = "completed" => FrameDue /\ (AtStep(1) \/ (AtEnd(1) /\ pending))
  /\ game = "reset" => FrameDue /\ AtEnd(1)
  /\ game = "idle" /\ ~engaged => stepIndex = Len(route) + 1 /\ Len(out) >= Total(route)

\* What the game saw so far.
OutInv ==
  /\ Len(out) <= Total(route) + 1
  /\ \A k \in 1..Len(route), j \in 1..Len(out) :
       Begin[route][k] < j /\ j <= Begin[route][k + 1] => out[j] = route[k].frame
  /\ Len(out) > Total(route) => out[Len(out)] = Live

ReplayInv ==
  /\ TypeOK
  /\ clean /\ host # "idle" => InstallInv
  /\ clean /\ host = "idle" => PollInv
  /\ clean => OutInv

=============================================================================
