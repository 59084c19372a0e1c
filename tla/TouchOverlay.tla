---------------------------- MODULE TouchOverlay ----------------------------
(***************************************************************************)
(* The iOS touch overlay (SnapPadTouchOverlayView in ios_main.mm), its     *)
(* three-dot menu with the sheets that open from it, and what the game's   *)
(* input callback reads (snappad_touch_snapshot).                          *)
(*                                                                         *)
(* Everything but the snapshot runs on the main thread, one handler after  *)
(* the other, so a handler is one action.  An event with several touches   *)
(* is the sequence of its touches.  The lock-free tap latch is the module  *)
(* TapLatch; geometry, drawing and the stored layout are left out: a touch *)
(* lands on a control, on nothing, on the menu button or on the toolbar.   *)
(*                                                                         *)
(* There are four controls: the stick, a button that is held, a button     *)
(* that is only pulsed (kPulseButtonMask) and the gyro toggle.             *)
(***************************************************************************)
EXTENDS Integers, Sequences, FiniteSets

CONSTANTS
  Touches,    \* fingers
  None,       \* no control
  FlickPolls, \* kAnalogFlickHoldPolls
  MaxTimers   \* bound on delayed presentations under way when the menu opens

Controls == {"stick", "hold", "pulse", "gyro"}

ASSUME OverlayAssumption ==
  FlickPolls \in Nat \ {0} /\ MaxTimers \in Nat /\ None \notin Controls

VARIABLES
  roles,     \* _touchRoles: the control each finger drives
  down,      \* fingers on the overlay
  buttons,   \* g_touch_buttons
  stick,     \* g_touch_x, g_touch_y: "neutral" or "deflected"
  flick,     \* g_touch_flick_polls
  polled,    \* the analog source of the last snapshot
  sincePoll, \* history: snapshots since the stick was last deflected, capped
  enabled,   \* _gameplayControlsEnabled
  physical,  \* _physicalControllerConnected
  modal,     \* _modalControlsHidden
  editing,   \* _editing
  feature,   \* _gyroFeatureEnabled
  gyro,      \* _gyroActive
  motion,    \* g_gyro_input_active, _motionManager.deviceMotionActive
  active,    \* applicationState is active
  sheets,    \* presented view controllers, the top one last
  timers,    \* presentations and callbacks that are due on the main queue
  leftover,  \* history: since the last clear the layout editor was left while a
             \* finger was on a control
  reopened   \* history: a menu was asked for over a presentation that was due

input == <<roles, buttons, stick, flick, sincePoll>>
flags == <<enabled, physical, editing, feature, gyro, active>>
flow  == <<sheets, timers, reopened>>
vars  == <<input, down, polled, flags, modal, motion, flow, leftover>>

Hidden == ~enabled \/ physical \/ modal

\* shouldRun of updateGyroMotionState, on a device with motion sensors.
ShouldRun == feature /\ gyro /\ ~Hidden /\ ~editing /\ active

UpdateGyroMotionState == motion' = ShouldRun'

Init ==
  /\ roles = [t \in Touches |-> None] /\ down = {} /\ leftover = FALSE
  /\ buttons = {} /\ stick = "neutral" /\ flick = 0
  /\ polled = "neutral" /\ sincePoll = 0
  /\ enabled \in BOOLEAN /\ feature \in BOOLEAN /\ physical \in BOOLEAN
  /\ modal = FALSE /\ editing = FALSE /\ gyro = FALSE /\ motion = FALSE
  /\ active = TRUE
  /\ sheets = <<>> /\ timers = {} /\ reopened = FALSE

-----------------------------------------------------------------------------
(* publishInput and clearInput. *)

\* A stick touch is neutral inside the deadzone; deflected, it also arms the
\* flick.  While the gyro is on, stick touches are passed over.
PublishRoles(r) ==
  /\ buttons' = {r[t] : t \in Touches} \cap {"hold"}
  /\ \E s \in {"neutral", "deflected"} :
       /\ s = "deflected" => ~gyro' /\ \E t \in Touches : r[t] = "stick"
       /\ stick' = s
       /\ flick' = IF s = "deflected" THEN FlickPolls ELSE flick
       /\ sincePoll' = IF s = "deflected" THEN 0 ELSE sincePoll

PublishInput == roles' = roles /\ PublishRoles(roles)

\* Slip: the finger map is kept, only what the game reads is reset.
MutClearInput ==
  /\ buttons' = {} /\ stick' = "neutral" /\ flick' = 0
  /\ UNCHANGED <<roles, sincePoll, leftover>>

ClearInput ==
  /\ roles' = [t \in Touches |-> None] /\ leftover' = FALSE
  /\ buttons' = {} /\ stick' = "neutral" /\ flick' = 0
  /\ UNCHANGED sincePoll

KeepInput == UNCHANGED <<input, leftover>>

-----------------------------------------------------------------------------
(* Touches. *)

\* controlAtPoint, with the pickup region of the stick: what a finger that
\* lands on control c gets.
ControlAt(c) ==
  IF \/ ~editing /\ Hidden
     \/ c = "gyro" /\ ~feature
     \/ c = "stick" /\ ~editing /\ gyro
  THEN None ELSE c

TouchBegan(t, c) ==
  /\ t \notin down /\ active /\ sheets = <<>>
  /\ down' = down \cup {t}
  /\ LET r == [roles EXCEPT ![t] = ControlAt(c)] IN
     IF editing
     THEN /\ roles' = r
          /\ UNCHANGED <<buttons, stick, flick, sincePoll, gyro, motion>>
     ELSE /\ gyro' = IF r[t] = "gyro" THEN ~gyro ELSE gyro
          /\ roles' = r /\ PublishRoles(r)
          /\ UNCHANGED <<enabled, physical, editing, feature, active, modal>>
          /\ motion' = IF r[t] = "gyro" THEN ShouldRun' ELSE motion
  /\ UNCHANGED <<polled, enabled, physical, editing, feature, active, modal, flow,
                 leftover>>

\* A finger that drives anything but the stick loses its role when it slides
\* off the control.  In the editor the finger moves the control.
TouchMoved(t) ==
  /\ t \in down /\ active /\ ~editing
  /\ \E r \in {roles, [roles EXCEPT ![t] = None]} :
       /\ r # roles => roles[t] # "stick"
       /\ UNCHANGED gyro
       /\ roles' = r /\ PublishRoles(r)
  /\ UNCHANGED <<down, polled, enabled, physical, editing, feature, active, modal,
                 motion, flow, leftover>>

\* Slip: the finger is forgotten, the new state is not published.
MutTouchFinished(t) ==
  /\ t \in down
  /\ down' = down \ {t}
  /\ roles' = [roles EXCEPT ![t] = None]
  /\ UNCHANGED <<buttons, stick, flick, sincePoll, polled, flags, modal, motion, flow,
                 leftover>>

\* touchesEnded, touchesCancelled: finishTouches.
TouchFinished(t) ==
  /\ t \in down
  /\ down' = down \ {t}
  /\ LET r == [roles EXCEPT ![t] = None] IN
     /\ roles' = r
     /\ UNCHANGED gyro
     /\ IF editing THEN UNCHANGED <<buttons, stick, flick, sincePoll>>
        ELSE PublishRoles(r)
  /\ UNCHANGED <<polled, enabled, physical, editing, feature, active, modal, motion, flow,
                 leftover>>

\* The DONE button of the editor's toolbar; touchesBegan publishes after it.
ToolbarDone ==
  /\ editing /\ active /\ sheets = <<>>
  /\ editing' = FALSE
  /\ leftover' = (leftover \/ \E t \in Touches : roles[t] # None)
  /\ UNCHANGED <<down, polled, enabled, physical, feature, gyro, active, modal, flow>>
  /\ PublishInput
  /\ UpdateGyroMotionState

-----------------------------------------------------------------------------
(* Handlers that set one flag. *)

SetModalControlsHidden(hidden) ==
  /\ modal' = hidden
  /\ IF hidden THEN ClearInput ELSE KeepInput
  /\ UpdateGyroMotionState

\* Slip: the motion is looked at before the flag is stored.
MutSetPhysicalControllerConnected(c) ==
  /\ c # physical
  /\ physical' = c
  /\ IF c THEN ClearInput ELSE KeepInput
  /\ UNCHANGED <<down, polled, enabled, editing, feature, gyro, active, modal, flow>>
  /\ motion' = ShouldRun

SetPhysicalControllerConnected(c) ==
  /\ c # physical
  /\ physical' = c
  /\ IF c THEN ClearInput ELSE KeepInput
  /\ UNCHANGED <<down, polled, enabled, editing, feature, gyro, active, modal, flow>>
  /\ UpdateGyroMotionState

AppWillResignActive ==
  /\ active
  /\ active' = FALSE
  /\ ClearInput
  /\ motion' = FALSE
  /\ UNCHANGED <<down, polled, enabled, physical, editing, feature, gyro, modal, flow>>

AppDidBecomeActive ==
  /\ ~active
  /\ active' = TRUE
  /\ UNCHANGED <<down, polled, enabled, physical, editing, feature, gyro, modal, flow>>
  /\ KeepInput
  /\ UpdateGyroMotionState

-----------------------------------------------------------------------------
(* The three-dot menu and the sheets. *)

Top(sheet) == sheets # <<>> /\ sheets[Len(sheets)] = sheet
Pop == SubSeq(sheets, 1, Len(sheets) - 1)

\* Slip: the menu clears the input before the modal flag would.
MutPresentUtilityMenu ==
  /\ ~editing /\ active /\ sheets = <<>> /\ Cardinality(timers) <= MaxTimers
  /\ sheets' = <<"menu">>
  /\ reopened' = (reopened \/ timers # {})
  /\ UNCHANGED <<down, polled, flags, timers, modal>>
  /\ ClearInput
  /\ UpdateGyroMotionState

\* The menu button, or its place on the overlay while the button is hidden.
PresentUtilityMenu ==
  /\ ~editing /\ active /\ sheets = <<>> /\ Cardinality(timers) <= MaxTimers
  /\ sheets' = <<"menu">>
  /\ reopened' = (reopened \/ timers # {})
  /\ UNCHANGED <<down, polled, flags, timers>>
  /\ SetModalControlsHidden(TRUE)

\* The menu is asked for while the window has no view controller to present it:
\* the controls come back at once.
NoMenu ==
  /\ ~editing /\ active /\ sheets = <<>>
  /\ modal' = FALSE
  /\ reopened' = (reopened \/ timers # {})
  /\ UNCHANGED <<down, polled, flags, sheets, timers>>
  /\ ClearInput
  /\ UpdateGyroMotionState

\* An entry that closes its sheet and presents the next one after a delay.
ChooseNext(from, next) ==
  /\ Top(from) /\ next \notin timers
  /\ sheets' = Pop /\ timers' = timers \cup {next}
  /\ UNCHANGED <<input, down, polled, flags, modal, motion, reopened, leftover>>

ChooseDelayed ==
  \/ ChooseNext("menu", "settings")
  \/ ChooseNext("menu", "support")
  \/ ChooseNext("support", "share")
  \/ ChooseNext("support", "issues") \* openURL

PresentDelayed(sheet) ==
  /\ sheet \in timers \ {"issues"}
  /\ sheets' = Append(sheets, sheet) /\ timers' = timers \ {sheet}
  /\ UNCHANGED <<input, down, polled, flags, modal, motion, reopened, leftover>>

\* What was due shows no sheet and hands the controls back.
DropDue(x) ==
  /\ x \in timers
  /\ timers' = timers \ {x}
  /\ UNCHANGED <<down, polled, flags, sheets, reopened>>
  /\ SetModalControlsHidden(FALSE)

\* The completion handler of openURL.
IssuesOpened == DropDue("issues")

\* A delayed block finds no view controller to present from.  (The share sheet
\* of Settings keeps its presenter; the one of the support menu looks for it.)
NoPresenter == sheets = <<>> /\ \E s \in {"settings", "support", "share"} : DropDue(s)

\* Enable or Disable Gyro Controls: setGyroFeatureEnabled, then the modal flag.
ToggleGyroFeature ==
  /\ Top("menu")
  /\ sheets' = Pop
  /\ feature' = ~feature
  /\ gyro' = (gyro /\ feature')
  /\ modal' = FALSE
  /\ ClearInput
  /\ UNCHANGED <<down, polled, enabled, physical, editing, active, timers, reopened>>
  /\ UpdateGyroMotionState

\* Slip: the share sheet's completion is not passed on.
MutCloseSheet ==
  /\ Top("menu") \/ Top("support") \/ Top("settings") \/ Top("share")
  /\ sheets' = Pop
  /\ UNCHANGED <<down, polled, flags, timers, reopened>>
  /\ IF Top("share") THEN UNCHANGED <<modal, motion>> /\ KeepInput
     ELSE SetModalControlsHidden(FALSE)

\* Cancel in a menu, the end of the share sheet, viewDidDisappear of Settings.
CloseSheet ==
  /\ Top("menu") \/ Top("support") \/ Top("settings") \/ Top("share")
  /\ sheets' = Pop
  /\ UNCHANGED <<down, polled, flags, timers, reopened>>
  /\ SetModalControlsHidden(FALSE)

\* The ROM manager's own sheets, none of which tells the overlay anything.
CloseRomManager ==
  /\ Top("rom")
  /\ sheets' = Pop
  /\ UNCHANGED <<input, down, polled, flags, modal, motion, timers, reopened, leftover>>

\* setGameplayControlsEnabled, from the switch or the opacity slider.
SetGameplayControlsEnabled(e) ==
  /\ Top("settings")
  /\ enabled' = e
  /\ IF e THEN KeepInput ELSE ClearInput
  /\ UNCHANGED <<down, polled, physical, editing, feature, gyro, active, modal, flow>>
  /\ UpdateGyroMotionState

\* Settings closes (viewDidDisappear shows the controls), then the completion of
\* the dismissal runs: beginEditingLayout, resetLayout, the share sheet, the ROM
\* manager.  The last two are presented by a block on the main queue.
EditLayout ==
  /\ Top("settings")
  /\ sheets' = Pop /\ modal' = FALSE /\ editing' = TRUE
  /\ ClearInput
  /\ UNCHANGED <<down, polled, enabled, physical, feature, gyro, active, timers, reopened>>
  /\ UpdateGyroMotionState

ResetLayout ==
  /\ Top("settings")
  /\ sheets' = Pop /\ modal' = FALSE /\ editing' = FALSE
  /\ leftover' = (leftover \/ \E t \in Touches : roles[t] # None)
  /\ UNCHANGED input
  /\ UNCHANGED <<down, polled, enabled, physical, feature, gyro, active, timers, reopened>>
  /\ UpdateGyroMotionState

ExportDiagnostics ==
  /\ Top("settings") /\ "share" \notin timers
  /\ sheets' = Pop /\ timers' = timers \cup {"share"}
  /\ UNCHANGED <<down, polled, flags, reopened>>
  /\ SetModalControlsHidden(TRUE)

ManageRom ==
  /\ Top("settings") /\ "rom" \notin timers
  /\ sheets' = Pop /\ timers' = timers \cup {"rom"}
  /\ UNCHANGED <<down, polled, flags, reopened>>
  /\ SetModalControlsHidden(FALSE)

-----------------------------------------------------------------------------
(* The game thread: snappad_touch_snapshot. *)

\* Slip: a flick is read and not counted down.
MutSnapshotKeeps ==
  /\ polled' = IF motion THEN "gyro" ELSE IF stick = "deflected" THEN "stick"
               ELSE IF flick > 0 THEN "flick" ELSE "neutral"
  /\ sincePoll' = IF motion \/ stick = "deflected" \/ sincePoll > FlickPolls THEN sincePoll
                  ELSE sincePoll + 1
  /\ UNCHANGED <<roles, buttons, stick, flick, down, flags, modal, motion, flow, leftover>>

Snapshot ==
  /\ polled' = IF motion THEN "gyro" ELSE IF stick = "deflected" THEN "stick"
               ELSE IF flick > 0 THEN "flick" ELSE "neutral"
  /\ flick' = IF polled' = "flick" THEN flick - 1 ELSE flick
  /\ sincePoll' = IF motion \/ stick = "deflected" \/ sincePoll > FlickPolls THEN sincePoll
                  ELSE sincePoll + 1
  /\ UNCHANGED <<roles, buttons, stick, down, flags, modal, motion, flow, leftover>>

TouchStep ==
  \E t \in Touches :
    (\E c \in Controls \cup {None} : TouchBegan(t, c)) \/ TouchMoved(t) \/ TouchFinished(t)

AppStep ==
  \/ \E c \in BOOLEAN : SetPhysicalControllerConnected(c)
  \/ AppWillResignActive \/ AppDidBecomeActive

MenuStep ==
  \/ PresentUtilityMenu \/ NoMenu \/ ChooseDelayed \/ ToggleGyroFeature \/ CloseSheet
  \/ \E s \in {"settings", "support", "share", "rom"} : PresentDelayed(s)
  \/ NoPresenter \/ IssuesOpened \/ CloseRomManager
  \/ \E e \in BOOLEAN : SetGameplayControlsEnabled(e)
  \/ EditLayout \/ ResetLayout \/ ExportDiagnostics \/ ManageRom

Next == TouchStep \/ ToolbarDone \/ AppStep \/ MenuStep \/ Snapshot

Spec == Init /\ [][Next]_vars

-----------------------------------------------------------------------------
(* Properties. *)

\* Each button the game is told is held, and the stick's deflection, belong to a
\* finger that is still down, through layout editing, sheets, controllers and
\* background.
HeldMeansTouched ==
  /\ \A b \in buttons : \E t \in down : roles[t] = b
  /\ stick = "deflected" => \E t \in down : roles[t] = "stick"

\* While the controls are hidden no finger drives any and nothing of an earlier
\* one is left to be read - unless the layout editor was left with a finger on a
\* control and nothing has cleared the input since.
HiddenMeansReleased ==
  Hidden /\ ~editing /\ ~leftover =>
    /\ \A t \in Touches : roles[t] = None
    /\ buttons = {} /\ stick = "neutral" /\ flick = 0

\* Nothing stays pressed, by a finger that left or on a control that is gone.
NothingSticks == HeldMeansTouched /\ HiddenMeansReleased

\* The motion sensors run exactly while the gyro is switched on and the controls
\* are shown: every handler that changes one of the conditions looks again, so
\* the gyro resumes after a controller, a sheet or the background.
GyroFollowsControls == motion = ShouldRun

\* The controls are hidden under the menu and the sheets it opens - except under
\* the ROM manager, and after a menu was opened over a presentation still due.
SheetsHideControls ==
  sheets # <<>> /\ "rom" \notin {sheets[k] : k \in 1..Len(sheets)} /\ ~reopened => modal

\* No path through the menus leaves the controls hidden for good: once no sheet
\* is shown and none is due, the modal flag is down.
ControlsComeBack == sheets = <<>> /\ timers = {} => ~modal

\* PRD: "No touch region may remain logically held after a menu, alert, share
\* sheet, interruption, controller handoff, or app backgrounding."
NothingHeldWhileHidden == Hidden /\ ~editing => buttons = {} /\ stick = "neutral"

\* "Preserve a very short released flick across one complete 30 Hz game update"
\* (ios_main.mm), two polls: a flick is read in at most two of the stick's polls
\* after the deflection.  Polls that the gyro answers do not count: a flick that
\* is pending when the gyro takes over is read when it stops.
FlickFollowsStick == polled = "flick" => sincePoll <= FlickPolls

-----------------------------------------------------------------------------
(* The inductive invariant behind them. *)

OverlayTypeOK ==
  /\ roles \in [Touches -> Controls \cup {None}] /\ down \subseteq Touches
  /\ buttons \subseteq {"hold"} /\ stick \in {"neutral", "deflected"}
  /\ flick \in 0..FlickPolls /\ sincePoll \in Nat
  /\ enabled \in BOOLEAN /\ physical \in BOOLEAN /\ modal \in BOOLEAN
  /\ editing \in BOOLEAN /\ leftover \in BOOLEAN /\ reopened \in BOOLEAN
  /\ sheets \in Seq({"menu", "settings", "support", "share", "rom"})

\* Only fingers that are down drive a control.
RolesInv == \A t \in Touches : roles[t] # None => t \in down

\* The editor moves fingers without publishing, so it starts from nothing held.
EditingInv == editing => buttons = {} /\ stick = "neutral" /\ flick = 0

\* Until a menu is opened over one that is due there is one sheet, shown or due,
\* and the modal flag is up for all but the ROM manager.
OneSheet ==
  ~reopened =>
    \/ sheets = <<>> /\ timers = {}
    \/ \E x \in timers : sheets = <<>> /\ timers = {x} /\ (x # "rom" => modal)
    \/ timers = {} /\ Len(sheets) = 1 /\ (sheets[1] # "rom" => modal)

\* While the modal flag is up something is shown or due that will take it down.
ModalInv ==
  modal => \/ \E x \in timers : x # "rom"
           \/ \E k \in 1..Len(sheets) : sheets[k] # "rom"

\* A flick that is left is short enough for the polls it may still be read in.
FlickInv == (flick > 0 => sincePoll + flick <= FlickPolls) /\ FlickFollowsStick

OverlayInv ==
  /\ OverlayTypeOK /\ RolesInv /\ EditingInv /\ NothingSticks /\ GyroFollowsControls
  /\ OneSheet /\ ModalInv /\ FlickInv

=============================================================================
