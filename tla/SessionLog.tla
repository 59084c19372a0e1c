----------------------------- MODULE SessionLog -----------------------------
(***************************************************************************)
(* The diagnostics log of an iOS session (diagnostics.mm): at launch the   *)
(* last session's log becomes the previous one, a marker file records that *)
(* a session is active, and a marker that outlives its session labels the  *)
(* previous log as a possible crash in the report.                         *)
(*                                                                         *)
(* The files survive the process, so every file operation is a step and    *)
(* the process may be killed between any two.  A file's content is the     *)
(* number of the session that wrote it.  Rotation and opening can fail as  *)
(* the code provides for; creating a marker, whose failure the code        *)
(* ignores, is assumed to succeed.                                         *)
(***************************************************************************)
EXTENDS Naturals

CONSTANT MaxSessions \* bound on the launches of a run
ASSUME SessionAssumption == MaxSessions \in Nat

Sessions == 1..MaxSessions

VARIABLES
  directory, \* the Logs directory exists
  latest,    \* snappad-latest.log: the session that wrote it, 0 for no file
  previous,  \* snappad-previous.log, likewise
  active,    \* the snappad-session-active marker exists
  unclean,   \* the snappad-previous-unclean marker exists
  session,   \* the session that runs, or ran last
  pc,        \* where it is
  mayBeUnclean,   \* previousSessionMayBeUnclean
  ended,          \* history: how each session ended
  rotationFailed  \* history: a rotation has failed

files == <<directory, latest, previous, active, unclean>>
vars  == <<files, session, pc, mayBeUnclean, ended, rotationFailed>>

Init ==
  /\ directory = FALSE /\ latest = 0 /\ previous = 0 /\ active = FALSE /\ unclean = FALSE
  /\ session = 0 /\ pc = "down" /\ mayBeUnclean = FALSE
  /\ ended = [s \in Sessions |-> "running"]
  /\ rotationFailed = FALSE

\* snappad_start_diagnostics_log creates its directory and looks at the files.
Launch ==
  /\ pc = "down" /\ session < MaxSessions
  /\ session' = session + 1
  /\ directory' = TRUE
  /\ mayBeUnclean' = (latest # 0 /\ active)
  /\ pc' = "remove_previous"
  /\ UNCHANGED <<latest, previous, active, unclean, ended, rotationFailed>>

\* The directory cannot be created: the session runs without a log.
LaunchWithoutLog ==
  /\ pc = "down" /\ session < MaxSessions /\ ~directory
  /\ session' = session + 1 /\ pc' = "running"
  /\ UNCHANGED <<files, mayBeUnclean, ended, rotationFailed>>

RemovePrevious ==
  /\ pc = "remove_previous"
  /\ previous' = 0 /\ pc' = "rotate"
  /\ UNCHANGED <<directory, latest, active, unclean, session, mayBeUnclean, ended,
                 rotationFailed>>

Rotate ==
  /\ pc = "rotate"
  /\ previous' = latest /\ latest' = 0 /\ pc' = "remove_unclean"
  /\ UNCHANGED <<directory, active, unclean, session, mayBeUnclean, ended, rotationFailed>>

\* The move fails; the log is lost when the new one is opened.
RotateFails ==
  /\ pc = "rotate" /\ latest # 0
  /\ rotationFailed' = TRUE /\ pc' = "remove_unclean"
  /\ UNCHANGED <<files, session, mayBeUnclean, ended>>

RemoveUnclean ==
  /\ pc = "remove_unclean"
  /\ unclean' = FALSE /\ pc' = "mark_unclean"
  /\ UNCHANGED <<directory, latest, previous, active, session, mayBeUnclean, ended,
                 rotationFailed>>

MarkUnclean ==
  /\ pc = "mark_unclean"
  /\ unclean' = mayBeUnclean /\ pc' = "remove_active"
  /\ UNCHANGED <<directory, latest, previous, active, session, mayBeUnclean, ended,
                 rotationFailed>>

RemoveActive ==
  /\ pc = "remove_active"
  /\ active' = FALSE /\ pc' = "mark_active"
  /\ UNCHANGED <<directory, latest, previous, unclean, session, mayBeUnclean, ended,
                 rotationFailed>>

\* Slip: after a crash the marker is taken to be there still.
MutMarkActive ==
  /\ pc = "mark_active"
  /\ active' = ~mayBeUnclean /\ pc' = "open_log"
  /\ UNCHANGED <<directory, latest, previous, unclean, session, mayBeUnclean, ended,
                 rotationFailed>>

MarkActive ==
  /\ pc = "mark_active"
  /\ active' = TRUE /\ pc' = "open_log"
  /\ UNCHANGED <<directory, latest, previous, unclean, session, mayBeUnclean, ended,
                 rotationFailed>>

\* O_CREAT | O_TRUNC; the session goes on without a log if it cannot be opened.
OpenLog ==
  /\ pc = "open_log"
  /\ latest' \in {session, latest} /\ pc' = "running"
  /\ UNCHANGED <<directory, previous, active, unclean, session, mayBeUnclean, ended,
                 rotationFailed>>

\* Slip: the marker is left in place.
MutFinish ==
  /\ pc = "running"
  /\ ended' = [ended EXCEPT ![session] = "finished"]
  /\ pc' = "down"
  /\ UNCHANGED <<files, session, mayBeUnclean, rotationFailed>>

\* snappad_finish_diagnostics_log, and SDL_main returns: a failed set-up.
Finish ==
  /\ pc = "running"
  /\ active' = FALSE
  /\ ended' = [ended EXCEPT ![session] = "finished"]
  /\ pc' = "down"
  /\ UNCHANGED <<directory, latest, previous, unclean, session, mayBeUnclean, rotationFailed>>

\* The game quits: the patched recomp::start ends the process with _Exit once
\* its threads are joined, and SDL_main does not go on.
Quit ==
  /\ pc = "running"
  /\ ended' = [ended EXCEPT ![session] = "quit"]
  /\ pc' = "down"
  /\ UNCHANGED <<files, session, mayBeUnclean, rotationFailed>>

\* The process crashes or the system kills it.
Crash ==
  /\ pc # "down"
  /\ ended' = [ended EXCEPT ![session] = "crashed"]
  /\ pc' = "down"
  /\ UNCHANGED <<files, session, mayBeUnclean, rotationFailed>>

\* The run is over; nobody launches the application again.
Rest == pc = "down" /\ session = MaxSessions /\ UNCHANGED vars

Start ==
  \/ Launch \/ LaunchWithoutLog \/ RemovePrevious \/ Rotate \/ RotateFails
  \/ RemoveUnclean \/ MarkUnclean \/ RemoveActive \/ MarkActive \/ OpenLog

Next == Start \/ Finish \/ Quit \/ Crash \/ Rest

Spec == Init /\ [][Next]_vars

-----------------------------------------------------------------------------
(* Properties, for what a report of a running session says. *)

\* Every variable keeps its type, and the previous log is the older one.
TypeOK ==
  /\ directory \in BOOLEAN /\ active \in BOOLEAN /\ unclean \in BOOLEAN
  /\ latest \in 0..MaxSessions /\ previous \in 0..MaxSessions
  /\ session \in 0..MaxSessions
  /\ pc \in {"down", "remove_previous", "rotate", "remove_unclean", "mark_unclean",
             "remove_active", "mark_active", "open_log", "running"}
  /\ mayBeUnclean \in BOOLEAN /\ rotationFailed \in BOOLEAN
  /\ ended \in [Sessions -> {"running", "finished", "quit", "crashed"}]
  /\ latest # 0 => previous < latest

\* A crash is never passed off as a clean exit: wherever in the launches since
\* then the process was killed, the log of a session that did not finish carries
\* the label - as long as no rotation failed.
NoMissedCrash ==
  pc = "running" /\ previous # 0 /\ ended[previous] # "finished" /\ ~rotationFailed => unclean

\* The label is no false alarm: the session of the previous log, or one after it
\* that left no log of its own, did not finish.
NoFalseAlarm ==
  pc = "running" /\ previous # 0 /\ unclean =>
    \E s \in Sessions : previous <= s /\ s < session /\ ended[s] # "finished"

\* diagnostics.h: finish "Marks the active session as having reached a normal
\* process exit."  A session that was quit normally is not labelled.
QuitIsNoCrash ==
  pc = "running" /\ previous # 0 /\ unclean =>
    \E s \in Sessions : previous <= s /\ s < session /\ ended[s] = "crashed"
-----------------------------------------------------------------------------
(* The inductive invariant behind the two. *)

Unfinished(s) == s # 0 /\ ended[s] # "finished"

\* A session between that one and the running one did not finish.
UnfinishedSince(first) ==
  \E s \in Sessions : first <= s /\ s < session /\ ended[s] # "finished"

\* The launch has not moved the logs yet, has moved them, has labelled them.
Unmoved  == pc \in {"remove_previous", "rotate"}
Moved    == pc \in {"remove_unclean", "mark_unclean"}
Labelled == pc \in {"remove_active", "mark_active", "open_log", "running"}

\* Logs are older than the session that is to write the next one.
LogsAreOlder ==
  /\ latest <= session /\ previous <= session
  /\ ~directory => latest = 0 /\ previous = 0
  /\ pc # "down" => session # 0 /\ ended[session] = "running" /\ previous < session
  /\ pc \notin {"down", "running"} => directory /\ latest < session
  /\ pc = "rotate" => previous = 0
  /\ \A s \in Sessions : s > session => ended[s] = "running"

\* Unless a rotation failed, the marker stays with the log of an unfinished
\* session until the label takes over.
MarkerCoversLog ==
  /\ Unfinished(latest) => active
  /\ Unmoved => mayBeUnclean = (latest # 0 /\ active)
  /\ Moved => latest = 0 /\ (Unfinished(previous) => mayBeUnclean)
  /\ Labelled /\ Unfinished(previous) => unclean
  /\ pc \in {"remove_active", "mark_active", "open_log"} => latest = 0
  /\ pc = "open_log" => active
  /\ pc = "running" => latest \in {0, session}

\* Marker and label have a session to speak of.
LabelHasReason ==
  /\ pc = "down" /\ latest # 0 /\ active =>
       \E s \in Sessions : latest <= s /\ s <= session /\ ended[s] # "finished"
  /\ Unmoved /\ mayBeUnclean => latest # 0 /\ UnfinishedSince(latest)
  /\ Moved /\ previous # 0 /\ mayBeUnclean => UnfinishedSince(previous)
  /\ Labelled /\ previous # 0 /\ unclean => UnfinishedSince(previous)

LogInv == TypeOK /\ LogsAreOlder /\ (~rotationFailed => MarkerCoversLog) /\ LabelHasReason

=============================================================================
