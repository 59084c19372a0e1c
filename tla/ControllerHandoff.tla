------------------------- MODULE ControllerHandoff -------------------------
(***************************************************************************)
(* How the iOS touch overlay learns that a controller is there: the runner *)
(* reports the slots' connected_count (reconcile_controllers in            *)
(* snappad_runner.cpp) through SnapPad_SetPhysicalControllerConnected,     *)
(* which stores an atomic and posts a block to the main queue, and the     *)
(* overlay is itself created by a block posted later (snappad_touch_attach *)
(* in ios_main.mm).  Composes ControllerSlots with the main queue.         *)
(***************************************************************************)
EXTENDS ControllerSlots

CONSTANTS
  Unset,      \* std::optional<bool> without a value; no overlay yet
  AttachBlock \* the block of snappad_touch_attach

ASSUME HandoffAssumption == Unset \notin BOOLEAN /\ AttachBlock \notin BOOLEAN

VARIABLES
  connected, \* connected_count != 0, read under controller_mutex
  reported,  \* reported_physical_controller_state
  reporting, \* the call to SnapPad_SetPhysicalControllerConnected in flight
  stored,    \* g_physical_controller_connected
  mainQueue, \* blocks dispatched to the main queue, oldest first
  overlay    \* _physicalControllerConnected of the overlay view, Unset before it exists

handoff == <<connected, reported, reporting, stored, mainQueue, overlay>>
allVars == <<vars, handoff>>

HandoffInit ==
  /\ Init
  /\ connected = FALSE /\ reported = Unset /\ reporting = "no"
  /\ stored = FALSE /\ mainQueue = <<>> /\ overlay = Unset

\* The window, and with it the overlay, is created once create_gfx has made its
\* start-up pass; the event loop starts after that.
OverlayRequested == overlay # Unset \/ \E k \in 1..Len(mainQueue) : mainQueue[k] = AttachBlock
HostFree == reporting = "no" /\ (reported # Unset => OverlayRequested)

\* The actions of ControllerSlots that report nothing.  The end of main is left
\* out: on Apple systems recomp::start ends the process before main returns.
SlotStep ==
  /\ \/ Environment
     \/ HostFree /\ StartReconcile
     \/ HostFree /\ OverlayRequested /\ \E i \in Instances : OnRemoved(i)
     \/ ReconcileStep
  /\ UNCHANGED handoff

\* Slip: only a change of the first slot is a reason to report.
MutPassEnds ==
  /\ FinishReconcile
  /\ connected' = (slots[1] # None)
  /\ reporting' = IF reported = Unset \/ connected' # connected THEN "store" ELSE "no"
  /\ reported' = IF reported = Unset THEN connected' ELSE reported
  /\ UNCHANGED <<stored, mainQueue, overlay>>

\* The pass ends; a change of "some slot is taken" is reported.
PassEnds ==
  /\ FinishReconcile
  /\ connected' = (FreeSlots # Players)
  /\ reported' = connected'
  /\ reporting' = IF reported # connected' THEN "store" ELSE "no"
  /\ UNCHANGED <<stored, mainQueue, overlay>>

StoreConnected ==
  /\ reporting = "store"
  /\ stored' = connected
  /\ reporting' = "dispatch"
  /\ UNCHANGED <<vars, connected, reported, mainQueue, overlay>>

DispatchConnected ==
  /\ reporting = "dispatch"
  /\ mainQueue' = Append(mainQueue, connected)
  /\ reporting' = "no"
  /\ UNCHANGED <<vars, connected, reported, stored, overlay>>

\* create_window: snappad_touch_attach posts the block that makes the overlay.
RequestOverlay ==
  /\ phase = "idle" /\ reporting = "no" /\ reported # Unset /\ ~OverlayRequested
  /\ mainQueue' = Append(mainQueue, AttachBlock)
  /\ UNCHANGED <<vars, connected, reported, reporting, stored, overlay>>

\* Slip: the new overlay assumes that no controller is connected.
MutRunMainBlock ==
  /\ mainQueue # <<>>
  /\ mainQueue' = Tail(mainQueue)
  /\ overlay' = IF Head(mainQueue) = AttachBlock THEN FALSE
                ELSE IF overlay = Unset THEN Unset ELSE Head(mainQueue)
  /\ UNCHANGED <<vars, connected, reported, reporting, stored>>

\* The main run loop runs the oldest block.  A report that precedes the
\* overlay is a message to nil; the new overlay reads the atomic instead.
RunMainBlock ==
  /\ mainQueue # <<>>
  /\ mainQueue' = Tail(mainQueue)
  /\ overlay' = IF Head(mainQueue) = AttachBlock THEN stored
                ELSE IF overlay = Unset THEN Unset ELSE Head(mainQueue)
  /\ UNCHANGED <<vars, connected, reported, reporting, stored>>

HandoffNext ==
  \/ SlotStep \/ PassEnds \/ StoreConnected \/ DispatchConnected
  \/ RequestOverlay \/ RunMainBlock

HandoffSpec == HandoffInit /\ [][HandoffNext]_allVars

\* The host loop and the main run loop keep running.
HandoffFairSpec ==
  /\ HandoffSpec
  /\ WF_allVars(HostFree /\ StartReconcile /\ UNCHANGED handoff)
  /\ WF_allVars(ReconcileStep /\ UNCHANGED handoff)
  /\ WF_allVars(PassEnds)
  /\ WF_allVars(StoreConnected)
  /\ WF_allVars(DispatchConnected)
  /\ WF_allVars(RequestOverlay)
  /\ WF_allVars(RunMainBlock)

-----------------------------------------------------------------------------
(* Properties. *)

\* Once the main queue has run dry the overlay shows the last report, also
\* when the overlay was created between the store and the dispatch of one.
OverlayCaughtUp ==
  mainQueue = <<>> /\ reporting = "no" /\ overlay # Unset => overlay = reported

\* The attached devices, the slots and the overlay agree in the end: the touch
\* targets are hidden exactly while a controller holds a slot.
OverlayFollowsSlots ==
  <>[](overlay = (FreeSlots # Players))

\* docs/PRD.md:445: "automatic hide when a physical controller takes P1", which
\* is the only port get_input reads.  Nothing else hides the targets for good.
HiddenOnlyForPlayerOne ==
  phase = "idle" /\ mainQueue = <<>> /\ reporting = "no" /\ overlay = TRUE =>
    slots[1] # None

-----------------------------------------------------------------------------
(* The inductive invariant behind the first. *)

HandoffTypeOK ==
  /\ connected \in BOOLEAN /\ stored \in BOOLEAN
  /\ reported \in {TRUE, FALSE, Unset} /\ overlay \in {TRUE, FALSE, Unset}
  /\ reporting \in {"no", "store", "dispatch"}
  /\ mainQueue \in Seq({TRUE, FALSE, AttachBlock})

\* The report that was stored and dispatched is the last one.
ReportInv ==
  /\ reported # Unset => connected = reported
  /\ reporting # "no" => reported # Unset /\ phase = "idle"
  /\ reported # Unset /\ reporting # "store" => stored = reported

\* Between two reports the last block of the main queue brings the overlay up to
\* date: it carries the report or creates an overlay that reads it.
QueueInv ==
  /\ reported = Unset => mainQueue = <<>> /\ overlay = Unset
  /\ reporting = "no" /\ mainQueue = <<>> => overlay \in {Unset, reported}
  /\ reporting = "no" /\ mainQueue # <<>> =>
       mainQueue[Len(mainQueue)] \in {AttachBlock, reported}

HandoffInv == HandoffTypeOK /\ ReportInv /\ QueueInv

=============================================================================
