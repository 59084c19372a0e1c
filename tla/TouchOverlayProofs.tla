-------------------------- MODULE TouchOverlayProofs --------------------------
(***************************************************************************)
(* Proofs about TouchOverlay, for any number of fingers and any length of  *)
(* a flick.  Every handler either clears the input, keeps it, publishes    *)
(* it, or moves fingers in the editor, and every handler of the menus      *)
(* takes the modal flag down or leaves something that will.                *)
(***************************************************************************)
EXTENDS TouchOverlay, SequenceTheorems, TLAPS

Released == \A t \in Touches : roles[t] = None

\* What a handler may not disturb in the input.
InputInv == RolesInv /\ EditingInv /\ NothingSticks

-----------------------------------------------------------------------------
(* The input. *)

LEMMA ClearedIsSafe ==
  ASSUME ClearInput
  PROVE  InputInv'
BY OverlayAssumption
   DEF ClearInput, InputInv, RolesInv, EditingInv, NothingSticks, HeldMeansTouched,
       HiddenMeansReleased

LEMMA KeptIsSafe ==
  ASSUME InputInv, UNCHANGED <<roles, buttons, stick, flick, leftover>>,
         down' = down, editing' = editing, Hidden' => Hidden
  PROVE  InputInv'
BY DEF InputInv, RolesInv, EditingInv, NothingSticks, HeldMeansTouched, HiddenMeansReleased

\* A published input is held by the fingers it was published for; with none on a
\* control it changes nothing but releases.
LEMMA PublishedIsHeld ==
  ASSUME OverlayTypeOK, NEW r \in [Touches -> Controls \cup {None}], PublishRoles(r),
         roles' = r, RolesInv'
  PROVE  /\ HeldMeansTouched'
         /\ Released' => buttons' = {} /\ stick' = "neutral" /\ flick' = flick
<1>1. buttons' = {r[t] : t \in Touches} \cap {"hold"}
  BY DEF PublishRoles
<1>2. /\ stick' = "neutral" \/ stick' = "deflected"
      /\ stick' = "deflected" => \E t \in Touches : r[t] = "stick"
      /\ stick' = "neutral" => flick' = flick
  BY DEF PublishRoles
<1>3. \A b \in buttons' : \E t \in down' : roles'[t] = b
  BY <1>1, OverlayAssumption DEF RolesInv, Controls
<1>4. stick' = "deflected" => \E t \in down' : roles'[t] = "stick"
  BY <1>2, OverlayAssumption DEF RolesInv, Controls
<1>5. Released' => buttons' = {}
  BY <1>1, OverlayAssumption DEF Released, Controls
<1>6. Released' => stick' = "neutral" /\ flick' = flick
  BY <1>2, OverlayAssumption DEF Released, Controls
<1>7. QED
  BY <1>3, <1>4, <1>5, <1>6 DEF HeldMeansTouched

\* Publishing outside the editor is safe when hidden controls stay released.
LEMMA PublishedIsSafe ==
  ASSUME OverlayTypeOK, InputInv,
         NEW r \in [Touches -> Controls \cup {None}], PublishRoles(r),
         roles' = r, RolesInv', ~editing',
         Hidden' /\ ~leftover' => Released' /\ flick = 0
  PROVE  InputInv'
BY PublishedIsHeld
   DEF InputInv, EditingInv, NothingSticks, HiddenMeansReleased, Released

\* Hidden controls have let go outside the editor, as in the editor they have
\* nothing published.
LEMMA HiddenIsReleased ==
  ASSUME InputInv, Hidden, ~editing, ~leftover
  PROVE  Released /\ flick = 0
BY DEF InputInv, NothingSticks, HiddenMeansReleased, Released

LEMMA BeganIsSafe ==
  ASSUME OverlayTypeOK, InputInv, NEW t \in Touches, NEW c \in Controls \cup {None},
         TouchBegan(t, c)
  PROVE  InputInv'
<1> DEFINE r == [roles EXCEPT ![t] = ControlAt(c)]
<1>1. /\ t \notin down /\ down' = down \cup {t} /\ roles' = r
      /\ r \in [Touches -> Controls \cup {None}]
      /\ UNCHANGED <<enabled, physical, editing, modal, leftover>>
  BY DEF TouchBegan, OverlayTypeOK, ControlAt
<1>2. RolesInv'
  BY <1>1 DEF InputInv, RolesInv, OverlayTypeOK
<1>3. CASE editing
  <2>1. UNCHANGED <<buttons, stick, flick, editing>>
    BY <1>3, <1>1 DEF TouchBegan
  <2>2. EditingInv' /\ HiddenMeansReleased'
    BY <2>1, <1>1, <1>3 DEF InputInv, EditingInv, HiddenMeansReleased
  <2>3. HeldMeansTouched'
    BY <2>1, <1>3 DEF InputInv, EditingInv, HeldMeansTouched
  <2>4. QED
    BY <1>2, <2>2, <2>3 DEF InputInv, NothingSticks
<1>4. CASE ~editing
  <2>1. PublishRoles(r)
    BY <1>4 DEF TouchBegan
  <2>2. Hidden' /\ ~leftover' => Released' /\ flick = 0
    <3> SUFFICES ASSUME Hidden', ~leftover'
                 PROVE  Released' /\ flick = 0
      OBVIOUS
    <3>1. Hidden /\ ~leftover
      BY <1>1 DEF Hidden
    <3>2. Released /\ flick = 0
      BY <3>1, <1>4, HiddenIsReleased
    <3>3. ControlAt(c) = None
      BY <3>1, <1>4 DEF ControlAt
    <3>4. QED
      BY <1>1, <3>2, <3>3 DEF Released, OverlayTypeOK
  <2>3. QED
    BY <1>1, <1>2, <1>4, <2>1, <2>2, PublishedIsSafe
<1>5. QED
  BY <1>3, <1>4

LEMMA MovedIsSafe ==
  ASSUME OverlayTypeOK, InputInv, NEW t \in Touches, TouchMoved(t)
  PROVE  InputInv'
<1>1. PICK r \in {roles, [roles EXCEPT ![t] = None]} : roles' = r /\ PublishRoles(r)
  BY DEF TouchMoved
<1>2. /\ r \in [Touches -> Controls \cup {None}] /\ ~editing'
      /\ UNCHANGED <<down, enabled, physical, editing, modal, leftover>>
  BY DEF TouchMoved, OverlayTypeOK
<1>3. \A u \in Touches : r[u] = roles[u] \/ r[u] = None
  BY DEF OverlayTypeOK
<1>4. RolesInv'
  BY <1>1, <1>2, <1>3 DEF InputInv, RolesInv
<1>5. Hidden' /\ ~leftover' => Released /\ flick = 0
  BY <1>2, HiddenIsReleased DEF Hidden
<1>6. Hidden' /\ ~leftover' => Released' /\ flick = 0
  BY <1>1, <1>3, <1>5 DEF Released
<1>7. QED
  BY <1>1, <1>2, <1>4, <1>6, PublishedIsSafe

LEMMA FinishedIsSafe ==
  ASSUME OverlayTypeOK, InputInv, NEW t \in Touches, TouchFinished(t)
  PROVE  InputInv'
<1> DEFINE r == [roles EXCEPT ![t] = None]
<1>1. /\ down' = down \ {t} /\ roles' = r /\ r \in [Touches -> Controls \cup {None}]
      /\ UNCHANGED <<enabled, physical, editing, modal, leftover>>
  BY DEF TouchFinished, OverlayTypeOK
<1>2. r[t] = None /\ \A u \in Touches \ {t} : r[u] = roles[u]
  BY DEF OverlayTypeOK
<1>3. RolesInv'
  BY <1>1, <1>2 DEF InputInv, RolesInv
<1>4. CASE editing
  <2>1. UNCHANGED <<buttons, stick, flick>>
    BY <1>4 DEF TouchFinished
  <2>2. EditingInv' /\ HiddenMeansReleased'
    BY <2>1, <1>1, <1>4 DEF InputInv, EditingInv, HiddenMeansReleased
  <2>3. HeldMeansTouched'
    BY <2>1, <1>4 DEF InputInv, EditingInv, HeldMeansTouched
  <2>4. QED
    BY <1>3, <2>2, <2>3 DEF InputInv, NothingSticks
<1>5. CASE ~editing
  <2>1. PublishRoles(r)
    BY <1>5 DEF TouchFinished
  <2>2. Hidden' /\ ~leftover' => Released /\ flick = 0
    BY <1>1, <1>5, HiddenIsReleased DEF Hidden
  <2>3. Hidden' /\ ~leftover' => Released' /\ flick = 0
    BY <1>1, <1>2, <2>2 DEF Released
  <2>4. QED
    BY <1>1, <1>3, <1>5, <2>1, <2>3, PublishedIsSafe
<1>6. QED
  BY <1>4, <1>5

LEMMA ToolbarDoneIsSafe ==
  ASSUME OverlayTypeOK, InputInv, ToolbarDone
  PROVE  InputInv'
<1>1. /\ roles' = roles /\ PublishRoles(roles) /\ down' = down /\ editing /\ ~editing'
      /\ leftover' = (leftover \/ \E t \in Touches : roles[t] # None)
  BY DEF ToolbarDone, PublishInput
<1>2. RolesInv' /\ roles \in [Touches -> Controls \cup {None}]
  BY <1>1 DEF InputInv, RolesInv, OverlayTypeOK
<1>3. flick = 0
  BY <1>1 DEF InputInv, EditingInv
<1>4. ~leftover' => Released'
  BY <1>1 DEF Released
<1>5. QED
  BY <1>1, <1>2, <1>3, <1>4, PublishedIsSafe

LEMMA ResetLayoutIsSafe ==
  ASSUME OverlayTypeOK, InputInv, ResetLayout
  PROVE  InputInv'
<1>1. /\ UNCHANGED <<roles, buttons, stick, flick, down, enabled, physical>>
      /\ modal' = FALSE /\ ~editing'
      /\ leftover' = (leftover \/ \E t \in Touches : roles[t] # None)
  BY DEF ResetLayout, input
<1>2. RolesInv' /\ EditingInv' /\ HeldMeansTouched'
  BY <1>1 DEF InputInv, RolesInv, EditingInv, NothingSticks, HeldMeansTouched
<1>3. CASE editing
  BY <1>1, <1>2, <1>3 DEF InputInv, EditingInv, NothingSticks, HiddenMeansReleased
<1>4. CASE ~editing
  <2>1. Hidden' => Hidden
    BY <1>1 DEF Hidden
  <2>2. HiddenMeansReleased'
    BY <1>1, <1>4, <2>1 DEF InputInv, NothingSticks, HiddenMeansReleased
  <2>3. QED
    BY <1>2, <2>2 DEF InputInv, NothingSticks
<1>5. QED
  BY <1>3, <1>4

LEMMA SnapshotIsSafe ==
  ASSUME OverlayTypeOK, InputInv, Snapshot
  PROVE  InputInv'
<1>1. /\ UNCHANGED <<roles, buttons, stick, leftover, down, enabled, physical, editing, modal>>
      /\ flick' = flick \/ flick > 0
  BY DEF Snapshot, flags, OverlayTypeOK
<1>2. RolesInv' /\ HeldMeansTouched'
  BY <1>1 DEF InputInv, RolesInv, NothingSticks, HeldMeansTouched
<1>3. EditingInv'
  BY <1>1 DEF InputInv, EditingInv
<1>4. Hidden' => Hidden
  BY <1>1 DEF Hidden
<1>5. HiddenMeansReleased'
  BY <1>1, <1>4 DEF InputInv, NothingSticks, HiddenMeansReleased
<1>6. QED
  BY <1>2, <1>3, <1>5 DEF InputInv, NothingSticks

\* No step leaves anything stuck.
LEMMA InputStep ==
  ASSUME OverlayTypeOK, InputInv, [Next]_vars
  PROVE  InputInv'
<1>1. CASE TouchStep
  BY <1>1, BeganIsSafe, MovedIsSafe, FinishedIsSafe DEF TouchStep
<1>2. CASE ToolbarDone
  BY <1>2, ToolbarDoneIsSafe
<1>3. CASE AppStep
  <2>1. ASSUME NEW c \in BOOLEAN, SetPhysicalControllerConnected(c)
        PROVE  InputInv'
    <3>1. CASE c
      BY <2>1, <3>1, ClearedIsSafe DEF SetPhysicalControllerConnected
    <3>2. CASE ~c
      <4>1. UNCHANGED <<roles, buttons, stick, flick, leftover, down, editing>>
        BY <2>1, <3>2 DEF SetPhysicalControllerConnected, KeepInput, input
      <4>2. Hidden' => Hidden
        BY <2>1, <3>2 DEF SetPhysicalControllerConnected, Hidden
      <4>3. QED
        BY <4>1, <4>2, KeptIsSafe
    <3>3. QED
      BY <3>1, <3>2
  <2>2. CASE AppWillResignActive
    BY <2>2, ClearedIsSafe DEF AppWillResignActive
  <2>3. CASE AppDidBecomeActive
    <3>1. UNCHANGED <<roles, buttons, stick, flick, leftover, down, editing>>
      BY <2>3 DEF AppDidBecomeActive, KeepInput, input
    <3>2. Hidden' => Hidden
      BY <2>3 DEF AppDidBecomeActive, Hidden
    <3>3. QED
      BY <3>1, <3>2, KeptIsSafe
  <2>4. QED
    BY <1>3, <2>1, <2>2, <2>3 DEF AppStep
<1>4. CASE MenuStep
  <2>1. CASE \/ PresentUtilityMenu \/ NoMenu \/ ToggleGyroFeature \/ EditLayout
             \/ ExportDiagnostics
    BY <2>1, ClearedIsSafe
       DEF PresentUtilityMenu, NoMenu, ToggleGyroFeature, EditLayout, ExportDiagnostics,
           SetModalControlsHidden
  <2>2. CASE CloseSheet \/ NoPresenter \/ IssuesOpened \/ ManageRom
    <3>1. SetModalControlsHidden(FALSE) /\ UNCHANGED <<down, enabled, physical, editing>>
      BY <2>2 DEF CloseSheet, NoPresenter, IssuesOpened, DropDue, ManageRom, flags
    <3>2. UNCHANGED <<roles, buttons, stick, flick, leftover>> /\ modal' = FALSE
      BY <3>1 DEF SetModalControlsHidden, KeepInput, input
    <3>3. Hidden' => Hidden
      BY <3>1, <3>2 DEF Hidden
    <3>4. QED
      BY <3>1, <3>2, <3>3, KeptIsSafe
  <2>3. CASE ChooseDelayed \/ CloseRomManager
             \/ \E s \in {"settings", "support", "share", "rom"} : PresentDelayed(s)
    <3>1. UNCHANGED <<input, down, flags, modal, leftover>>
      BY <2>3 DEF ChooseDelayed, ChooseNext, CloseRomManager, PresentDelayed
    <3>2. UNCHANGED <<roles, buttons, stick, flick, leftover, down, editing>> /\ Hidden' = Hidden
      BY <3>1 DEF input, flags, Hidden
    <3>3. QED
      BY <3>2, KeptIsSafe
  <2>4. ASSUME NEW e \in BOOLEAN, SetGameplayControlsEnabled(e)
        PROVE  InputInv'
    <3>1. CASE e
      <4>1. UNCHANGED <<roles, buttons, stick, flick, leftover, down, editing>>
        BY <2>4, <3>1 DEF SetGameplayControlsEnabled, KeepInput, input
      <4>2. Hidden' => Hidden
        BY <2>4, <3>1 DEF SetGameplayControlsEnabled, Hidden
      <4>3. QED
        BY <4>1, <4>2, KeptIsSafe
    <3>2. CASE ~e
      BY <2>4, <3>2, ClearedIsSafe DEF SetGameplayControlsEnabled
    <3>3. QED
      BY <3>1, <3>2
  <2>5. CASE ResetLayout
    BY <2>5, ResetLayoutIsSafe
  <2>6. QED
    BY <1>4, <2>1, <2>2, <2>3, <2>4, <2>5 DEF MenuStep
<1>5. CASE Snapshot
  BY <1>5, SnapshotIsSafe
<1>6. CASE UNCHANGED vars
  <2>1. UNCHANGED <<roles, buttons, stick, flick, leftover, down, editing>> /\ Hidden' = Hidden
    BY <1>6 DEF vars, input, flags, Hidden
  <2>2. QED
    BY <2>1, KeptIsSafe
<1>7. QED
  BY <1>1, <1>2, <1>3, <1>4, <1>5, <1>6 DEF Next

-----------------------------------------------------------------------------
(* The types. *)

Kinds == {"menu", "settings", "support", "share", "rom"}

LEMMA Popped ==
  ASSUME OverlayTypeOK, sheets # <<>>
  PROVE  /\ Pop \in Seq(Kinds) /\ Len(Pop) = Len(sheets) - 1
         /\ \A k \in 1..Len(Pop) : Pop[k] = sheets[k]
<1> DEFINE n == Len(sheets) - 1
<1>1. sheets \in Seq(Kinds) /\ Len(sheets) \in Nat \ {0} /\ 1 \in Int /\ n \in Nat /\ n \in Int
  BY DEF OverlayTypeOK, Kinds
<1>2. \A k \in 1..n : sheets[k] \in Kinds
  BY <1>1
<1> HIDE DEF n
<1>3. SubSeq(sheets, 1, n) \in Seq(Kinds)
  <2>1. 1 \in Int /\ n \in Int /\ \A k \in 1..n : sheets[k] \in Kinds
    BY <1>1, <1>2
  <2>2. QED
    BY <2>1, SubSeqProperties, Zenon
<1>4. Len(SubSeq(sheets, 1, n)) = n
  BY <1>1
<1>5. \A k \in 1..n : SubSeq(sheets, 1, n)[k] = sheets[k]
  BY <1>1
<1>6. QED
  BY <1>3, <1>4, <1>5 DEF Pop, n

LEMMA Pushed ==
  ASSUME OverlayTypeOK, NEW s \in Kinds
  PROVE  /\ Append(sheets, s) \in Seq(Kinds) /\ Len(Append(sheets, s)) = Len(sheets) + 1
         /\ \A k \in 1..Len(sheets) : Append(sheets, s)[k] = sheets[k]
         /\ Append(sheets, s)[Len(sheets) + 1] = s
BY DEF OverlayTypeOK, Kinds

\* The stack of sheets changes by its top alone.
SheetStep ==
  \/ UNCHANGED sheets
  \/ sheets # <<>> /\ sheets' = Pop
  \/ \E s \in Kinds : sheets' = Append(sheets, s)
  \/ sheets' = <<"menu">>

LEMMA SheetTypes ==
  ASSUME OverlayTypeOK, SheetStep
  PROVE  sheets' \in Seq(Kinds)
<1>1. sheets \in Seq(Kinds) /\ <<"menu">> \in Seq(Kinds)
  BY DEF OverlayTypeOK, Kinds
<1>2. QED
  BY <1>1, Popped, Pushed DEF SheetStep

\* The input changes by publishing, clearing or the fingers of the editor.
InputTypes ==
  /\ roles \in [Touches -> Controls \cup {None}] /\ down \subseteq Touches
  /\ buttons \subseteq {"hold"} /\ stick \in {"neutral", "deflected"}
  /\ flick \in 0..FlickPolls /\ sincePoll \in Nat /\ leftover \in BOOLEAN

LEMMA PublishedTypes ==
  ASSUME OverlayTypeOK, NEW r, PublishRoles(r)
  PROVE  /\ buttons' \subseteq {"hold"} /\ stick' \in {"neutral", "deflected"}
         /\ flick' \in 0..FlickPolls /\ sincePoll' \in Nat
<1>1. buttons' \subseteq {"hold"}
  BY DEF PublishRoles
<1>2. PICK s \in {"neutral", "deflected"} :
        /\ stick' = s
        /\ flick' = IF s = "deflected" THEN FlickPolls ELSE flick
        /\ sincePoll' = IF s = "deflected" THEN 0 ELSE sincePoll
  BY DEF PublishRoles
<1>3. QED
  BY <1>1, <1>2, OverlayAssumption DEF OverlayTypeOK

LEMMA ClearedTypes ==
  ASSUME OverlayTypeOK, ClearInput, down' = down
  PROVE  InputTypes'
<1>1. roles' \in [Touches -> Controls \cup {None}]
  BY DEF ClearInput
<1>2. flick' \in 0..FlickPolls /\ sincePoll' \in Nat
  BY OverlayAssumption DEF ClearInput, OverlayTypeOK
<1>3. QED
  BY <1>1, <1>2 DEF ClearInput, InputTypes, OverlayTypeOK

LEMMA KeptTypes ==
  ASSUME OverlayTypeOK, UNCHANGED input, down' = down, leftover' \in BOOLEAN
  PROVE  InputTypes'
BY DEF input, InputTypes, OverlayTypeOK

FlagTypes ==
  /\ enabled \in BOOLEAN /\ physical \in BOOLEAN /\ modal \in BOOLEAN
  /\ editing \in BOOLEAN /\ reopened \in BOOLEAN

LEMMA TypeStep ==
  ASSUME OverlayTypeOK, [Next]_vars
  PROVE  OverlayTypeOK'
<1>1. ASSUME InputTypes', FlagTypes', SheetStep
      PROVE  OverlayTypeOK'
  BY <1>1, SheetTypes DEF InputTypes, FlagTypes, OverlayTypeOK, Kinds
<1>2. InputTypes /\ FlagTypes
  BY DEF InputTypes, FlagTypes, OverlayTypeOK
<1>3. CASE TouchStep
  <2>1. UNCHANGED <<enabled, physical, modal, editing, reopened, sheets, leftover>>
    BY <1>3 DEF TouchStep, TouchBegan, TouchMoved, TouchFinished, flow
  <2>2. PICK t \in Touches :
          (\E c \in Controls \cup {None} : TouchBegan(t, c)) \/ TouchMoved(t) \/ TouchFinished(t)
    BY <1>3 DEF TouchStep
  <2>3. down' \subseteq Touches
    BY <2>2 DEF TouchBegan, TouchMoved, TouchFinished, OverlayTypeOK
  <2>4. roles' \in [Touches -> Controls \cup {None}]
    BY <2>2 DEF TouchBegan, TouchMoved, TouchFinished, ControlAt, OverlayTypeOK
  <2>5. (\E r : PublishRoles(r)) \/ UNCHANGED <<buttons, stick, flick, sincePoll>>
    BY <2>2 DEF TouchBegan, TouchMoved, TouchFinished
  <2>6. /\ buttons' \subseteq {"hold"} /\ stick' \in {"neutral", "deflected"}
        /\ flick' \in 0..FlickPolls /\ sincePoll' \in Nat
    BY <2>5, PublishedTypes DEF OverlayTypeOK
  <2>7. InputTypes'
    BY <2>1, <2>3, <2>4, <2>6, <1>2 DEF InputTypes
  <2>8. FlagTypes' /\ SheetStep
    BY <2>1, <1>2 DEF FlagTypes, SheetStep
  <2>9. QED
    BY <2>7, <2>8, <1>1
<1>4. CASE ToolbarDone
  <2>1. /\ UNCHANGED <<enabled, physical, modal, reopened, sheets, down, roles>>
        /\ editing' = FALSE /\ leftover' \in BOOLEAN
    BY <1>4 DEF ToolbarDone, PublishInput, flow
  <2>2. PublishRoles(roles)
    BY <1>4 DEF ToolbarDone, PublishInput
  <2>3. InputTypes'
    BY <2>1, <2>2, <1>2, PublishedTypes DEF InputTypes
  <2>4. FlagTypes' /\ SheetStep
    BY <2>1, <1>2 DEF FlagTypes, SheetStep
  <2>5. QED
    BY <2>3, <2>4, <1>1
<1>5. CASE AppStep
  <2>1. /\ ClearInput \/ KeepInput
        /\ UNCHANGED <<down, enabled, modal, editing, reopened, sheets>> /\ physical' \in BOOLEAN
    BY <1>5 DEF AppStep, SetPhysicalControllerConnected, AppWillResignActive,
                AppDidBecomeActive, flow, OverlayTypeOK
  <2>2. InputTypes'
    BY <2>1, <1>2, ClearedTypes, KeptTypes DEF KeepInput, InputTypes
  <2>3. FlagTypes' /\ SheetStep
    BY <2>1, <1>2 DEF FlagTypes, SheetStep
  <2>4. QED
    BY <2>2, <2>3, <1>1
<1>6. CASE MenuStep
  <2>1. /\ ClearInput \/ (UNCHANGED input /\ leftover' \in BOOLEAN)
        /\ down' = down
    BY <1>6, <1>2
       DEF MenuStep, PresentUtilityMenu, ChooseDelayed, ChooseNext, ToggleGyroFeature, CloseSheet,
           PresentDelayed, DropDue, NoPresenter, IssuesOpened, CloseRomManager, NoMenu,
           SetGameplayControlsEnabled, EditLayout,
           ResetLayout, ExportDiagnostics, ManageRom, SetModalControlsHidden, KeepInput,
           InputTypes
  <2>2. InputTypes'
    BY <2>1, ClearedTypes, KeptTypes
  <2>3. FlagTypes'
    BY <1>6, <1>2
       DEF MenuStep, PresentUtilityMenu, ChooseDelayed, ChooseNext, ToggleGyroFeature, CloseSheet,
           PresentDelayed, DropDue, NoPresenter, IssuesOpened, CloseRomManager, NoMenu,
           SetGameplayControlsEnabled, EditLayout,
           ResetLayout, ExportDiagnostics, ManageRom, SetModalControlsHidden, FlagTypes, flags,
           flow
  <2>4. SheetStep
    BY <1>6
       DEF MenuStep, PresentUtilityMenu, ChooseDelayed, ChooseNext, ToggleGyroFeature, CloseSheet,
           PresentDelayed, DropDue, NoPresenter, IssuesOpened, CloseRomManager, NoMenu,
           SetGameplayControlsEnabled, EditLayout,
           ResetLayout, ExportDiagnostics, ManageRom, Top, SheetStep, Kinds, flow
  <2>5. QED
    BY <2>2, <2>3, <2>4, <1>1
<1>7. CASE Snapshot
  <2>1. UNCHANGED <<roles, down, buttons, stick, leftover, enabled, physical, modal, editing,
                    reopened, sheets>>
    BY <1>7 DEF Snapshot, flags, flow
  <2>2. flick' \in 0..FlickPolls /\ sincePoll' \in Nat
    BY <1>7, OverlayAssumption DEF Snapshot, OverlayTypeOK
  <2>3. InputTypes'
    BY <2>1, <2>2, <1>2 DEF InputTypes
  <2>4. FlagTypes' /\ SheetStep
    BY <2>1, <1>2 DEF FlagTypes, SheetStep
  <2>5. QED
    BY <2>3, <2>4, <1>1
<1>8. CASE UNCHANGED vars
  <2>1. UNCHANGED input /\ UNCHANGED <<down, leftover, enabled, physical, modal, editing,
                                       reopened, sheets>>
    BY <1>8 DEF vars, flags, flow
  <2>2. InputTypes'
    BY <2>1, <1>2, KeptTypes DEF InputTypes
  <2>3. FlagTypes' /\ SheetStep
    BY <2>1, <1>2 DEF FlagTypes, SheetStep
  <2>4. QED
    BY <2>2, <2>3, <1>1
<1>9. QED
  BY <1>3, <1>4, <1>5, <1>6, <1>7, <1>8 DEF Next

-----------------------------------------------------------------------------
(* The gyro. *)

\* Whoever changes a condition of the gyro looks again; who does not leaves the
\* motion alone.
LEMMA GyroStep ==
  ASSUME GyroFollowsControls, [Next]_vars
  PROVE  GyroFollowsControls'
<1>1. ASSUME UNCHANGED <<enabled, physical, editing, feature, gyro, active, modal, motion>>
      PROVE  GyroFollowsControls'
  BY <1>1 DEF GyroFollowsControls, ShouldRun, Hidden
<1>2. ASSUME UpdateGyroMotionState
      PROVE  GyroFollowsControls'
  BY <1>2 DEF UpdateGyroMotionState, GyroFollowsControls
<1>3. CASE TouchStep
  <2>1. ASSUME NEW t \in Touches, NEW c \in Controls \cup {None}, TouchBegan(t, c)
        PROVE  GyroFollowsControls'
    <3>1. \/ UNCHANGED <<enabled, physical, editing, feature, gyro, active, modal, motion>>
          \/ motion' = ShouldRun'
      BY <2>1 DEF TouchBegan
    <3>2. QED
      BY <3>1, <1>1, <1>2 DEF UpdateGyroMotionState
  <2>2. ASSUME NEW t \in Touches, TouchMoved(t) \/ TouchFinished(t)
        PROVE  GyroFollowsControls'
    BY <2>2, <1>1 DEF TouchMoved, TouchFinished
  <2>3. QED
    BY <1>3, <2>1, <2>2 DEF TouchStep
<1>4. CASE ToolbarDone
  BY <1>4, <1>2 DEF ToolbarDone
<1>5. CASE AppStep
  <2>1. CASE AppWillResignActive
    BY <2>1 DEF AppWillResignActive, GyroFollowsControls, ShouldRun
  <2>2. QED
    BY <1>5, <2>1, <1>2 DEF AppStep, SetPhysicalControllerConnected, AppDidBecomeActive
<1>6. CASE MenuStep
  <2>1. \/ UNCHANGED <<flags, modal, motion>>
        \/ UpdateGyroMotionState
    BY <1>6
       DEF MenuStep, PresentUtilityMenu, ChooseDelayed, ChooseNext, ToggleGyroFeature, CloseSheet,
           PresentDelayed, DropDue, NoPresenter, IssuesOpened, CloseRomManager, NoMenu,
           SetGameplayControlsEnabled, EditLayout,
           ResetLayout, ExportDiagnostics, ManageRom, SetModalControlsHidden
  <2>2. QED
    BY <2>1, <1>1, <1>2 DEF flags
<1>7. CASE Snapshot \/ UNCHANGED vars
  BY <1>7, <1>1 DEF Snapshot, vars, flags
<1>8. QED
  BY <1>3, <1>4, <1>5, <1>6, <1>7 DEF Next

-----------------------------------------------------------------------------
(* The flick. *)

LEMMA FlickStep ==
  ASSUME OverlayTypeOK, FlickInv, [Next]_vars
  PROVE  FlickInv'
<1>1. ASSUME UNCHANGED <<flick, sincePoll, polled>>
      PROVE  FlickInv'
  BY <1>1 DEF FlickInv, FlickFollowsStick
<1>2. ASSUME ClearInput, polled' = polled
      PROVE  FlickInv'
  BY <1>2 DEF ClearInput, FlickInv, FlickFollowsStick
<1>3. ASSUME NEW r, PublishRoles(r), polled' = polled
      PROVE  FlickInv'
  <2>1. \/ UNCHANGED <<flick, sincePoll>>
        \/ flick' = FlickPolls /\ sincePoll' = 0
    BY <1>3 DEF PublishRoles
  <2>2. QED
    BY <2>1, <1>1, <1>3, OverlayAssumption DEF FlickInv, FlickFollowsStick
<1>4. CASE TouchStep
  <2>1. /\ polled' = polled
        /\ (\E r : PublishRoles(r)) \/ UNCHANGED <<flick, sincePoll>>
    BY <1>4 DEF TouchStep, TouchBegan, TouchMoved, TouchFinished
  <2>2. QED
    BY <2>1, <1>1, <1>3
<1>5. CASE ToolbarDone
  BY <1>5, <1>3 DEF ToolbarDone, PublishInput
<1>6. CASE AppStep
  BY <1>6, <1>1, <1>2
     DEF AppStep, SetPhysicalControllerConnected, AppWillResignActive, AppDidBecomeActive,
         KeepInput, input
<1>7. CASE MenuStep
  <2>1. polled' = polled /\ (ClearInput \/ UNCHANGED input)
    BY <1>7
       DEF MenuStep, PresentUtilityMenu, ChooseDelayed, ChooseNext, ToggleGyroFeature, CloseSheet,
           PresentDelayed, DropDue, NoPresenter, IssuesOpened, CloseRomManager, NoMenu,
           SetGameplayControlsEnabled, EditLayout,
           ResetLayout, ExportDiagnostics, ManageRom, SetModalControlsHidden, KeepInput
  <2>2. QED
    BY <2>1, <1>1, <1>2 DEF input
<1>8. CASE Snapshot
  <2>1. flick \in Nat /\ sincePoll \in Nat
    BY OverlayAssumption DEF OverlayTypeOK
  <2>2. CASE polled' = "flick"
    <3>1. flick > 0 /\ ~motion /\ stick # "deflected" /\ flick' = flick - 1
      BY <1>8, <2>2, <2>1 DEF Snapshot
    <3>2. sincePoll + flick <= FlickPolls
      BY <3>1 DEF FlickInv
    <3>3. sincePoll' = sincePoll + 1
      BY <1>8, <3>1, <3>2, <2>1, OverlayAssumption DEF Snapshot
    <3>4. QED
      BY <2>1, <3>1, <3>2, <3>3, OverlayAssumption DEF FlickInv, FlickFollowsStick
  <2>3. CASE polled' # "flick"
    <3>1. flick' = flick
      BY <1>8, <2>3 DEF Snapshot
    <3>2. CASE flick > 0
      <4>1. motion \/ stick = "deflected"
        BY <1>8, <2>3, <3>2 DEF Snapshot
      <4>2. sincePoll' = sincePoll
        BY <1>8, <4>1 DEF Snapshot
      <4>3. QED
        BY <2>3, <3>1, <4>2 DEF FlickInv, FlickFollowsStick
    <3>3. QED
      BY <2>3, <3>1, <3>2 DEF FlickInv, FlickFollowsStick
  <2>4. QED
    BY <2>2, <2>3
<1>9. CASE UNCHANGED vars
  BY <1>9, <1>1 DEF vars, input
<1>10. QED
  BY <1>4, <1>5, <1>6, <1>7, <1>8, <1>9 DEF Next

-----------------------------------------------------------------------------
(* Menus and sheets. *)

\* A handler that leaves sheets, due presentations and the modal flag alone.
LEMMA FlowKept ==
  ASSUME OneSheet, ModalInv, UNCHANGED <<sheets, timers, modal, reopened>>
  PROVE  OneSheet' /\ ModalInv'
BY DEF OneSheet, ModalInv

\* Before a menu is opened over one that is due, closing the sheet that is shown
\* leaves nothing shown and nothing due.
LEMMA LastSheet ==
  ASSUME OverlayTypeOK, OneSheet, sheets # <<>>, ~reopened
  PROVE  /\ timers = {} /\ Pop = <<>> /\ Len(sheets) = 1
         /\ sheets[1] # "rom" => modal
<1>1. timers = {} /\ Len(sheets) = 1 /\ (sheets[1] # "rom" => modal)
  BY DEF OneSheet
<1>2. Len(Pop) = 0 /\ Pop \in Seq(Kinds)
  BY <1>1, Popped
<1>3. QED
  BY <1>1, <1>2, EmptySeq

\* A sheet closes, the controls come back, and perhaps the ROM manager is due.
LEMMA ClosedFlow ==
  ASSUME OverlayTypeOK, OneSheet, sheets # <<>>, sheets' = Pop,
         timers' = timers \/ timers' = timers \cup {"rom"},
         modal' = FALSE, reopened' = reopened
  PROVE  OneSheet' /\ ModalInv'
<1>1. ModalInv'
  BY DEF ModalInv
<1>2. OneSheet'
  BY LastSheet DEF OneSheet
<1>3. QED
  BY <1>1, <1>2

\* A sheet closes and the next one is due.
LEMMA NextDue ==
  ASSUME OverlayTypeOK, OneSheet, sheets # <<>>, sheets' = Pop,
         NEW x, x # "rom", timers' = timers \cup {x},
         sheets[Len(sheets)] # "rom",
         modal' = modal \/ modal' = TRUE, reopened' = reopened
  PROVE  OneSheet' /\ ModalInv'
<1>1. ModalInv'
  BY DEF ModalInv
<1>2. OneSheet'
  <2> SUFFICES ASSUME ~reopened'
               PROVE  sheets' = <<>> /\ timers' = {x} /\ modal'
    BY DEF OneSheet
  <2>1. timers = {} /\ Pop = <<>> /\ Len(sheets) = 1 /\ (sheets[1] # "rom" => modal)
    BY LastSheet
  <2>2. sheets' = <<>> /\ timers' = {x}
    BY <2>1
  <2>3. modal
    BY <2>1
  <2>4. QED
    BY <2>2, <2>3
<1>3. QED
  BY <1>1, <1>2

LEMMA PresentFlow ==
  ASSUME OverlayTypeOK, OneSheet, ModalInv,
         NEW s \in {"settings", "support", "share", "rom"}, PresentDelayed(s)
  PROVE  OneSheet' /\ ModalInv'
<1>1. /\ s \in timers /\ timers' = timers \ {s} /\ sheets' = Append(sheets, s)
      /\ modal' = modal /\ reopened' = reopened
  BY DEF PresentDelayed
<1>2. /\ Len(sheets') = Len(sheets) + 1 /\ sheets'[Len(sheets) + 1] = s
      /\ \A k \in 1..Len(sheets) : sheets'[k] = sheets[k]
  BY <1>1, Pushed DEF Kinds
<1>3. Len(sheets) \in Nat
  BY DEF OverlayTypeOK
<1>4. ModalInv'
  <2> SUFFICES ASSUME modal'
               PROVE  \/ \E x \in timers' : x # "rom"
                      \/ \E k \in 1..Len(sheets') : sheets'[k] # "rom"
    BY DEF ModalInv
  <2>1. CASE s # "rom"
    BY <2>1, <1>2, <1>3
  <2>2. CASE s = "rom"
    <3>1. CASE \E x \in timers : x # "rom"
      BY <3>1, <2>2, <1>1
    <3>2. CASE \E k \in 1..Len(sheets) : sheets[k] # "rom"
      BY <3>2, <1>2, <1>3
    <3>3. QED
      BY <3>1, <3>2, <1>1 DEF ModalInv
  <2>3. QED
    BY <2>1, <2>2
<1>5. OneSheet'
  <2> SUFFICES ASSUME ~reopened'
               PROVE  timers' = {} /\ Len(sheets') = 1 /\ (sheets'[1] # "rom" => modal')
    BY DEF OneSheet
  <2>1. PICK x \in timers : sheets = <<>> /\ timers = {x} /\ (x # "rom" => modal)
    BY <1>1 DEF OneSheet
  <2>2. x = s /\ timers' = {} /\ Len(sheets) = 0
    BY <2>1, <1>1
  <2>3. QED
    BY <2>1, <2>2, <1>1, <1>2
<1>6. QED
  BY <1>4, <1>5

LEMMA CloseRomFlow ==
  ASSUME OverlayTypeOK, OneSheet, ModalInv, CloseRomManager
  PROVE  OneSheet' /\ ModalInv'
<1>1. /\ sheets # <<>> /\ sheets[Len(sheets)] = "rom" /\ sheets' = Pop
      /\ UNCHANGED <<timers, modal, reopened>>
  BY DEF CloseRomManager, Top
<1>2. /\ Len(sheets') = Len(sheets) - 1 /\ Len(sheets) \in Nat
      /\ \A k \in 1..Len(sheets') : sheets'[k] = sheets[k]
  BY <1>1, Popped DEF OverlayTypeOK
<1>3. ModalInv'
  <2> SUFFICES ASSUME modal', ~\E x \in timers' : x # "rom"
               PROVE  \E k \in 1..Len(sheets') : sheets'[k] # "rom"
    BY DEF ModalInv
  <2>1. PICK k \in 1..Len(sheets) : sheets[k] # "rom"
    BY <1>1 DEF ModalInv
  <2>2. k \in 1..Len(sheets')
    BY <2>1, <1>1, <1>2
  <2>3. QED
    BY <2>1, <2>2, <1>2
<1>4. OneSheet'
  BY <1>1, LastSheet DEF OneSheet
<1>5. QED
  BY <1>3, <1>4

LEMMA DropFlow ==
  ASSUME OverlayTypeOK, OneSheet, NEW s, DropDue(s)
  PROVE  OneSheet' /\ ModalInv'
<1>1. /\ s \in timers /\ timers' = timers \ {s} /\ modal' = FALSE
      /\ sheets' = sheets /\ reopened' = reopened
  BY DEF DropDue, SetModalControlsHidden
<1>2. ~reopened => sheets = <<>> /\ timers = {s}
  BY <1>1 DEF OneSheet
<1>3. QED
  BY <1>1, <1>2 DEF OneSheet, ModalInv

LEMMA NoMenuFlow ==
  ASSUME OneSheet, NoMenu
  PROVE  OneSheet' /\ ModalInv'
<1>1. /\ sheets' = <<>> /\ timers' = timers /\ modal' = FALSE
      /\ reopened' = (reopened \/ timers # {})
  BY DEF NoMenu
<1>2. QED
  BY <1>1 DEF OneSheet, ModalInv

LEMMA MenuFlow ==
  ASSUME OverlayTypeOK, PresentUtilityMenu
  PROVE  OneSheet' /\ ModalInv'
<1>1. /\ sheets' = <<"menu">> /\ reopened' = (reopened \/ timers # {})
      /\ timers' = timers /\ modal' = TRUE
  BY DEF PresentUtilityMenu, SetModalControlsHidden
<1>2. Len(sheets') = 1 /\ sheets'[1] = "menu"
  BY <1>1
<1>3. ModalInv'
  BY <1>2 DEF ModalInv
<1>4. OneSheet'
  BY <1>1, <1>2 DEF OneSheet
<1>5. QED
  BY <1>3, <1>4

LEMMA FlowStep ==
  ASSUME OverlayTypeOK, OneSheet, ModalInv, [Next]_vars
  PROVE  OneSheet' /\ ModalInv'
<1>1. CASE TouchStep \/ ToolbarDone \/ AppStep \/ Snapshot \/ UNCHANGED vars
  <2>1. UNCHANGED <<sheets, timers, modal, reopened>>
    BY <1>1
       DEF TouchStep, TouchBegan, TouchMoved, TouchFinished, ToolbarDone, AppStep,
           SetPhysicalControllerConnected, AppWillResignActive, AppDidBecomeActive, Snapshot,
           vars, flow
  <2>2. QED
    BY <2>1, FlowKept
<1>2. CASE MenuStep
  <2>1. CASE PresentUtilityMenu
    BY <2>1, MenuFlow
  <2>2. CASE ChooseDelayed
    <3>1. PICK from \in {"menu", "support"},
               next \in {"settings", "support", "share", "issues"} : ChooseNext(from, next)
      BY <2>2 DEF ChooseDelayed
    <3>2. QED
      BY <3>1, NextDue DEF ChooseNext, Top
  <2>3. CASE ExportDiagnostics
    BY <2>3, NextDue DEF ExportDiagnostics, Top, SetModalControlsHidden
  <2>4. CASE ToggleGyroFeature \/ CloseSheet \/ EditLayout \/ ResetLayout \/ ManageRom
    <3>1. /\ sheets # <<>> /\ sheets' = Pop /\ modal' = FALSE /\ reopened' = reopened
          /\ timers' = timers \/ timers' = timers \cup {"rom"}
      BY <2>4
         DEF ToggleGyroFeature, CloseSheet, EditLayout, ResetLayout, ManageRom, Top,
             SetModalControlsHidden
    <3>2. QED
      BY <3>1, ClosedFlow
  <2>5. CASE \E s \in {"settings", "support", "share", "rom"} : PresentDelayed(s)
    BY <2>5, PresentFlow
  <2>6. CASE NoPresenter \/ IssuesOpened
    BY <2>6, DropFlow DEF NoPresenter, IssuesOpened
  <2>7. CASE CloseRomManager
    BY <2>7, CloseRomFlow
  <2>8. CASE \E e \in BOOLEAN : SetGameplayControlsEnabled(e)
    BY <2>8, FlowKept DEF SetGameplayControlsEnabled, flow
  <2>9. CASE NoMenu
    BY <2>9, NoMenuFlow
  <2>10. QED
    BY <1>2, <2>1, <2>2, <2>3, <2>4, <2>5, <2>6, <2>7, <2>8, <2>9 DEF MenuStep
<1>3. QED
  BY <1>1, <1>2 DEF Next

-----------------------------------------------------------------------------
(* The theorems. *)

LEMMA OverlayInit == Init => OverlayInv
<1> SUFFICES ASSUME Init
             PROVE  OverlayInv
  OBVIOUS
<1>1. OverlayTypeOK
  <2>1. roles \in [Touches -> Controls \cup {None}]
    BY DEF Init
  <2>2. flick \in 0..FlickPolls /\ sincePoll \in Nat
    BY OverlayAssumption DEF Init
  <2>3. sheets \in Seq({"menu", "settings", "support", "share", "rom"})
    BY DEF Init
  <2>4. QED
    BY <2>1, <2>2, <2>3 DEF Init, OverlayTypeOK
<1>2. RolesInv /\ EditingInv /\ NothingSticks
  BY DEF Init, RolesInv, EditingInv, NothingSticks, HeldMeansTouched, HiddenMeansReleased
<1>3. GyroFollowsControls
  BY DEF Init, GyroFollowsControls, ShouldRun
<1>4. OneSheet /\ ModalInv
  BY DEF Init, OneSheet, ModalInv
<1>5. FlickInv
  BY DEF Init, FlickInv, FlickFollowsStick
<1>6. QED
  BY <1>1, <1>2, <1>3, <1>4, <1>5 DEF OverlayInv

LEMMA OverlayStep == OverlayInv /\ [Next]_vars => OverlayInv'
BY InputStep, TypeStep, GyroStep, FlickStep, FlowStep DEF OverlayInv, InputInv

LEMMA OverlayInvariant == Spec => []OverlayInv
BY OverlayInit, OverlayStep, PTL DEF Spec

\* Nothing stays pressed, by a finger that left or on a control that is gone, for
\* any number of fingers: touchesBegan to touchesCancelled, clearInput and every
\* handler that hides the controls.
THEOREM NothingEverSticks == Spec => []NothingSticks
<1>1. OverlayInv => NothingSticks
  BY DEF OverlayInv
<1>2. QED
  BY <1>1, OverlayInvariant, PTL

\* The motion sensors run exactly while updateGyroMotionState would want them to,
\* after every handler.
THEOREM GyroIsRight == Spec => []GyroFollowsControls
<1>1. OverlayInv => GyroFollowsControls
  BY DEF OverlayInv
<1>2. QED
  BY <1>1, OverlayInvariant, PTL

\* However many menus are opened over presentations that are due, the modal flag
\* is down once nothing is shown and nothing is due.
THEOREM ControlsAlwaysComeBack == Spec => []ControlsComeBack
<1>1. OverlayInv => ControlsComeBack
  BY DEF OverlayInv, OverlayTypeOK, ModalInv, ControlsComeBack
<1>2. QED
  BY <1>1, OverlayInvariant, PTL

\* The sheets of the menu hide the controls, up to the exceptions that
\* SheetsHideControls names.
THEOREM ControlsHideUnderSheets == Spec => []SheetsHideControls
<1>1. OverlayInv => SheetsHideControls
  <2> SUFFICES ASSUME OverlayInv, sheets # <<>>, ~reopened,
                      "rom" \notin {sheets[k] : k \in 1..Len(sheets)}
               PROVE  modal
    BY DEF SheetsHideControls
  <2>1. Len(sheets) = 1 /\ (sheets[1] # "rom" => modal)
    BY LastSheet DEF OverlayInv
  <2>2. QED
    BY <2>1
<1>2. QED
  BY <1>1, OverlayInvariant, PTL

\* A flick is read in at most kAnalogFlickHoldPolls of the stick's polls, whatever
\* that is, and however clears, sheets and the gyro fall between them.
THEOREM FlicksAreShort == Spec => []FlickFollowsStick
<1>1. OverlayInv => FlickFollowsStick
  BY DEF OverlayInv, FlickInv
<1>2. QED
  BY <1>1, OverlayInvariant, PTL
=============================================================================
