-------------------------- MODULE AppLaunchProofs ---------------------------
(***************************************************************************)
(* Theorems about AppLaunch, for any number of launches: the label on a    *)
(* log and the promises about the ROM.  Log and ROM have no file in        *)
(* common, so the invariant is that of SessionLog and that of RomSetup,    *)
(* each kept by its own steps.                                             *)
(***************************************************************************)
EXTENDS AppLaunch, TLAPS

-----------------------------------------------------------------------------
(* The session log. *)

LEMMA LogInit == Init => LogInv
<1> SUFFICES ASSUME Init PROVE LogInv
  OBVIOUS
<1> USE SessionAssumption DEF Init, Sessions
<1>1. TypeOK
  <2>1. /\ directory \in BOOLEAN /\ active \in BOOLEAN /\ unclean \in BOOLEAN
        /\ mayBeUnclean \in BOOLEAN /\ rotationFailed \in BOOLEAN
    OBVIOUS
  <2>2. latest \in 0..MaxSessions /\ previous \in 0..MaxSessions /\ session \in 0..MaxSessions
    OBVIOUS
  <2>3. ended \in [Sessions -> {"running", "finished", "quit", "crashed"}]
    OBVIOUS
  <2> QED
    BY <2>1, <2>2, <2>3 DEF TypeOK
<1>2. LogsAreOlder
  BY DEF LogsAreOlder
<1>3. MarkerCoversLog
  BY DEF MarkerCoversLog, Unfinished, Unmoved, Moved, Labelled
<1>4. LabelHasReason
  BY DEF LabelHasReason, Unmoved, Moved, Labelled
<1> QED
  BY <1>1, <1>2, <1>3, <1>4 DEF LogInv

LEMMA StartKeepsTypes ==
  ASSUME TypeOK, LogsAreOlder, Start PROVE TypeOK'
<1> USE SessionAssumption DEF TypeOK, Sessions, files
<1>1. CASE Launch
  BY <1>1 DEF Launch
<1>2. CASE LaunchWithoutLog
  BY <1>2 DEF LaunchWithoutLog
<1>3. CASE RemovePrevious
  BY <1>3 DEF RemovePrevious
<1>4. CASE Rotate
  BY <1>4 DEF Rotate
<1>5. CASE RotateFails
  BY <1>5 DEF RotateFails
<1>6. CASE RemoveUnclean
  BY <1>6 DEF RemoveUnclean
<1>7. CASE MarkUnclean
  BY <1>7 DEF MarkUnclean
<1>8. CASE RemoveActive
  BY <1>8 DEF RemoveActive
<1>9. CASE MarkActive
  BY <1>9 DEF MarkActive
<1>10. CASE OpenLog
  BY <1>10 DEF OpenLog, LogsAreOlder
<1> QED
  BY <1>1, <1>2, <1>3, <1>4, <1>5, <1>6, <1>7, <1>8, <1>9, <1>10 DEF Start

LEMMA StartKeepsAge ==
  ASSUME TypeOK, LogsAreOlder, Start PROVE LogsAreOlder'
<1> USE SessionAssumption DEF TypeOK, Sessions, LogsAreOlder, files
<1>1. CASE Launch
  BY <1>1 DEF Launch
<1>2. CASE LaunchWithoutLog
  BY <1>2 DEF LaunchWithoutLog
<1>3. CASE RemovePrevious
  BY <1>3 DEF RemovePrevious
<1>4. CASE Rotate
  BY <1>4 DEF Rotate
<1>5. CASE RotateFails
  BY <1>5 DEF RotateFails
<1>6. CASE RemoveUnclean
  BY <1>6 DEF RemoveUnclean
<1>7. CASE MarkUnclean
  BY <1>7 DEF MarkUnclean
<1>8. CASE RemoveActive
  BY <1>8 DEF RemoveActive
<1>9. CASE MarkActive
  BY <1>9 DEF MarkActive
<1>10. CASE OpenLog
  <2>1. pc = "open_log" /\ pc' = "running" /\ latest' \in {session, latest}
        /\ UNCHANGED <<directory, previous, session, ended>>
    BY <1>10 DEF OpenLog
  <2>2. /\ latest <= session /\ previous <= session /\ session # 0 /\ previous < session
        /\ latest < session /\ ended[session] = "running" /\ (~directory => previous = 0)
        /\ \A s \in Sessions : s > session => ended[s] = "running"
    BY <2>1
  <2>3. directory
    BY <2>1
  <2> QED
    BY <2>1, <2>2, <2>3
<1> QED
  BY <1>1, <1>2, <1>3, <1>4, <1>5, <1>6, <1>7, <1>8, <1>9, <1>10 DEF Start

\* Unless the rotation fails now, the marker and then the label cover the log.
LEMMA StartKeepsCover ==
  ASSUME TypeOK, LogsAreOlder, MarkerCoversLog, Start, ~rotationFailed'
  PROVE  MarkerCoversLog'
<1> USE SessionAssumption DEF TypeOK, MarkerCoversLog, Unfinished, Unmoved, Moved, Labelled, files
<1>1. CASE Launch
  BY <1>1 DEF Launch
<1>2. CASE LaunchWithoutLog
  BY <1>2 DEF LaunchWithoutLog, LogsAreOlder
<1>3. CASE RemovePrevious
  BY <1>3 DEF RemovePrevious
<1>4. CASE Rotate
  BY <1>4 DEF Rotate
<1>5. CASE RotateFails
  BY <1>5 DEF RotateFails
<1>6. CASE RemoveUnclean
  BY <1>6 DEF RemoveUnclean
<1>7. CASE MarkUnclean
  BY <1>7 DEF MarkUnclean
<1>8. CASE RemoveActive
  BY <1>8 DEF RemoveActive
<1>9. CASE MarkActive
  BY <1>9 DEF MarkActive
<1>10. CASE OpenLog
  BY <1>10 DEF OpenLog
<1> QED
  BY <1>1, <1>2, <1>3, <1>4, <1>5, <1>6, <1>7, <1>8, <1>9, <1>10 DEF Start

\* A launch makes every earlier session one before the running one.
LEMMA StartKeepsReason ==
  ASSUME TypeOK, LogsAreOlder, LabelHasReason, Start PROVE LabelHasReason'
<1>1. CASE Launch
  <2>1. /\ pc = "down" /\ pc' = "remove_previous" /\ session' = session + 1
        /\ latest' = latest /\ ended' = ended
        /\ mayBeUnclean' = (latest # 0 /\ active)
    BY <1>1 DEF Launch
  <2>2. mayBeUnclean' => latest # 0 /\ \E s \in Sessions :
          latest <= s /\ s < session + 1 /\ ended[s] # "finished"
    <3> SUFFICES ASSUME mayBeUnclean'
                 PROVE  latest # 0 /\ \E s \in Sessions :
                          latest <= s /\ s < session + 1 /\ ended[s] # "finished"
      OBVIOUS
    <3>1. latest # 0 /\ active
      BY <2>1, Zenon
    <3>2. PICK s \in Sessions : latest <= s /\ s <= session /\ ended[s] # "finished"
      BY <2>1, <3>1 DEF LabelHasReason
    <3>3. s < session + 1
      BY <3>2, SessionAssumption DEF TypeOK, Sessions
    <3> QED
      BY <3>1, <3>2, <3>3
  <2>3. (mayBeUnclean => latest # 0 /\ UnfinishedSince(latest))'
    BY <2>1, <2>2 DEF UnfinishedSince
  <2> QED
    BY <2>1, <2>3 DEF LabelHasReason, Unmoved, Moved, Labelled
<1> USE SessionAssumption DEF TypeOK, LabelHasReason, UnfinishedSince, Unmoved, Moved, Labelled, files
<1>2. CASE LaunchWithoutLog
  BY <1>2 DEF LaunchWithoutLog, LogsAreOlder
<1>3. CASE RemovePrevious
  BY <1>3 DEF RemovePrevious
<1>4. CASE Rotate
  BY <1>4 DEF Rotate
<1>5. CASE RotateFails
  BY <1>5 DEF RotateFails, LogsAreOlder
<1>6. CASE RemoveUnclean
  BY <1>6 DEF RemoveUnclean
<1>7. CASE MarkUnclean
  BY <1>7 DEF MarkUnclean
<1>8. CASE RemoveActive
  BY <1>8 DEF RemoveActive
<1>9. CASE MarkActive
  BY <1>9 DEF MarkActive
<1>10. CASE OpenLog
  BY <1>10 DEF OpenLog
<1> QED
  BY <1>1, <1>2, <1>3, <1>4, <1>5, <1>6, <1>7, <1>8, <1>9, <1>10 DEF Start

\* How a session ends: the marker is removed only by a session that finishes.
Ends(how) ==
  /\ pc # "down" /\ pc' = "down"
  /\ ended' = [ended EXCEPT ![session] = how]
  /\ IF how = "finished" THEN active' = FALSE ELSE active' = active
  /\ UNCHANGED <<directory, latest, previous, unclean, session, mayBeUnclean, rotationFailed>>

LEMMA SessionEnds ==
  ASSUME Finish \/ Quit \/ Crash
  PROVE  \E how \in {"finished", "quit", "crashed"} : Ends(how)
<1>1. CASE Finish
  BY <1>1 DEF Finish, Ends
<1>2. CASE Quit
  BY <1>2 DEF Quit, Ends, files
<1>3. CASE Crash
  BY <1>3 DEF Crash, Ends, files
<1> QED
  BY <1>1, <1>2, <1>3

LEMMA EndKeepsInv ==
  ASSUME LogInv, NEW how \in {"finished", "quit", "crashed"}, Ends(how),
         how = "finished" => pc = "running"
  PROVE  LogInv'
<1> USE SessionAssumption DEF TypeOK, Sessions, Ends
<1>1. TypeOK /\ LogsAreOlder /\ LabelHasReason
  BY DEF LogInv
<1>2. session \in Sessions /\ ended'[session] = how
  BY <1>1 DEF LogsAreOlder
<1>3. \A s \in Sessions \ {session} : ended'[s] = ended[s]
  BY <1>1
<1>4. TypeOK'
  BY <1>1
<1>5. LogsAreOlder'
  BY <1>1, <1>2, <1>3 DEF LogsAreOlder
<1>6. ASSUME ~rotationFailed' PROVE MarkerCoversLog'
  <2>1. MarkerCoversLog
    BY <1>6 DEF LogInv
  <2>2. (Unfinished(latest) => active)'
    <3>1. /\ latest' = latest /\ latest \in 0..MaxSessions
          /\ latest # 0 => latest \in Sessions
      BY <1>1
    <3>2. CASE latest = session
      <4>1. Unfinished(latest)' => how # "finished"
        BY <1>2, <3>1, <3>2 DEF Unfinished
      <4>2. Unfinished(latest)
        BY <1>1, <1>2, <3>2 DEF Unfinished, LogsAreOlder
      <4> QED
        BY <2>1, <4>1, <4>2 DEF MarkerCoversLog
    <3>3. CASE latest # session
      <4>1. Unfinished(latest)' => Unfinished(latest)
        BY <1>3, <3>1, <3>3 DEF Unfinished
      <4>2. CASE how = "finished"
        BY <2>1, <3>1, <3>3, <4>2 DEF MarkerCoversLog, Unfinished
      <4>3. CASE how # "finished"
        BY <2>1, <4>1, <4>3 DEF MarkerCoversLog
      <4> QED
        BY <4>2, <4>3
    <3> QED
      BY <3>2, <3>3
  <2> QED
    BY <2>2 DEF MarkerCoversLog, Unmoved, Moved, Labelled
<1>7. LabelHasReason'
  <2>1. ASSUME (latest # 0 /\ active)' PROVE how # "finished" /\ latest' <= session'
    BY <2>1, <1>1 DEF LogsAreOlder
  <2>2. (latest # 0 /\ active =>
           \E s \in Sessions : latest <= s /\ s <= session /\ ended[s] # "finished")'
    <3> SUFFICES ASSUME (latest # 0 /\ active)'
                 PROVE  \E s \in Sessions : latest' <= s /\ s <= session' /\ ended'[s] # "finished"
      OBVIOUS
    <3>1. session \in Sessions /\ session' = session
      BY <1>2
    <3> QED
      BY <1>2, <2>1, <3>1
  <2>3. pc' = "down"
    OBVIOUS
  <2> QED
    BY <2>2, <2>3 DEF LabelHasReason, Unmoved, Moved, Labelled
<1> QED
  BY <1>4, <1>5, <1>6, <1>7 DEF LogInv

LEMMA LogStepKeepsInv == LogInv /\ [Next]_vars => LogInv'
<1> SUFFICES ASSUME LogInv, [Next]_vars PROVE LogInv'
  OBVIOUS
<1>1. CASE Start
  <2>1. rotationFailed => rotationFailed'
    BY <1>1 DEF Start, Launch, LaunchWithoutLog, RemovePrevious, Rotate, RotateFails,
       RemoveUnclean, MarkUnclean, RemoveActive, MarkActive, OpenLog
  <2> QED
    BY <1>1, <2>1, StartKeepsTypes, StartKeepsAge, StartKeepsCover, StartKeepsReason DEF LogInv
<1>2. CASE Finish \/ Quit \/ Crash
  <2>1. PICK how \in {"finished", "quit", "crashed"} : Ends(how)
    BY <1>2, SessionEnds
  <2>2. how = "finished" => pc = "running"
    <3>1. CASE Finish
      BY <3>1 DEF Finish
    <3>2. CASE Quit \/ Crash
      <4>1. pc # "down" /\ session \in Sessions /\ DOMAIN ended = Sessions
        BY <2>1, SessionAssumption DEF LogInv, LogsAreOlder, TypeOK, Ends, Sessions
      <4>2. ended'[session] # "finished"
        BY <3>2, <4>1 DEF Quit, Crash
      <4> QED
        BY <2>1, <4>1, <4>2 DEF Ends
    <3> QED
      BY <1>2, <3>1, <3>2
  <2> QED
    BY <2>1, <2>2, EndKeepsInv
<1>3. CASE UNCHANGED vars
  BY <1>3 DEF LogInv, TypeOK, LogsAreOlder, MarkerCoversLog, LabelHasReason, Unfinished,
     UnfinishedSince, Unmoved, Moved, Labelled, vars, files
<1> QED
  BY <1>1, <1>2, <1>3 DEF Next, Rest

-----------------------------------------------------------------------------
(* The ROM. *)

LEMMA RomInitInv == RomInit => RomInv
BY DEF RomInit, RomInv, RomTypeOK, PromiseIsOnDisk, RomPromisesKept

LEMMA RomStepKeepsInv == RomInv /\ RomStep => RomInv'
<1> SUFFICES ASSUME RomInv, RomStep PROVE RomInv'
  OBVIOUS
<1> USE DEF RomInv, RomTypeOK, PromiseIsOnDisk, RomPromisesKept, romFiles
<1>1. CASE PrepareRomSetup
  BY <1>1 DEF PrepareRomSetup, Installed
<1>2. CASE PrepareFails
  BY <1>2 DEF PrepareFails, Installed
<1>3. CASE PickRom
  BY <1>3 DEF PickRom
<1>4. CASE WriteRom
  BY <1>4 DEF WriteRom
<1>5. CASE WriteConfig
  BY <1>5 DEF WriteConfig
<1>6. CASE WriteFails
  BY <1>6 DEF WriteFails
<1>7. CASE LoadRom
  BY <1>7 DEF LoadRom
<1>8. CASE LoadFails
  BY <1>8 DEF LoadFails
<1>9. CASE RemoveRom
  BY <1>9 DEF RemoveRom
<1>10. CASE RemoveCopy
  BY <1>10 DEF RemoveCopy
<1>11. CASE RemoveConfig
  BY <1>11 DEF RemoveConfig
<1> QED
  BY <1>1, <1>2, <1>3, <1>4, <1>5, <1>6, <1>7, <1>8, <1>9, <1>10, <1>11 DEF RomStep

LEMMA RomEndsKeepsInv == RomInv /\ RomProcessEnds => RomInv'
BY DEF RomInv, RomTypeOK, PromiseIsOnDisk, RomPromisesKept, RomProcessEnds

LEMMA DecayKeepsInv == RomInv /\ Decay => RomInv'
BY DEF RomInv, RomTypeOK, PromiseIsOnDisk, RomPromisesKept, Decay

LEMMA RomRestsKeepsInv == RomInv /\ UNCHANGED romVars => RomInv'
BY DEF RomInv, RomTypeOK, PromiseIsOnDisk, RomPromisesKept, romVars, romFiles

-----------------------------------------------------------------------------
(* A launch. *)

LEMMA LaunchInvariant == LaunchSpec => [](LogInv /\ RomInv)
<1>1. LaunchInit => LogInv /\ RomInv
  BY LogInit, RomInitInv DEF LaunchInit
<1>2. LogInv /\ RomInv /\ [LaunchNext]_launch => (LogInv /\ RomInv)'
  <2> SUFFICES ASSUME LogInv, RomInv, [LaunchNext]_launch PROVE LogInv' /\ RomInv'
    OBVIOUS
  <2>1. CASE UNCHANGED launch
    BY <2>1, LogStepKeepsInv, RomRestsKeepsInv DEF launch
  <2>2. CASE LogStep
    BY <2>2, LogStepKeepsInv, RomRestsKeepsInv DEF LogStep, Next
  <2>3. CASE SetupStep
    BY <2>3, LogStepKeepsInv, RomStepKeepsInv DEF SetupStep
  <2>4. CASE LaunchFails \/ QuitGame \/ Killed
    BY <2>4, LogStepKeepsInv, RomEndsKeepsInv DEF LaunchFails, QuitGame, Killed, Next
  <2>5. CASE Shelved
    BY <2>5, LogStepKeepsInv, DecayKeepsInv DEF Shelved
  <2>6. CASE NoMore
    BY <2>6, LogStepKeepsInv, RomRestsKeepsInv DEF NoMore, Next
  <2> QED
    BY <2>1, <2>2, <2>3, <2>4, <2>5, <2>6 DEF LaunchNext
<1> QED
  BY <1>1, <1>2, PTL DEF LaunchSpec

\* However many launches and wherever they were killed, the log of a session
\* that did not finish carries the label, unless a rotation failed
\* (diagnostics.mm).
THEOREM CrashesAreLabelled == LaunchSpec => []NoMissedCrash
<1>1. LogInv => NoMissedCrash
  BY DEF LogInv, MarkerCoversLog, NoMissedCrash, Unfinished, Labelled
<1> QED
  BY <1>1, LaunchInvariant, PTL

\* A label always has a session that did not finish behind it, failed rotations
\* and launches without a log included (diagnostics.mm).
THEOREM LabelsAreEarned == LaunchSpec => []NoFalseAlarm
<1>1. LogInv => NoFalseAlarm
  BY DEF LogInv, LabelHasReason, NoFalseAlarm, UnfinishedSince, Labelled
<1> QED
  BY <1>1, LaunchInvariant, PTL

\* A removed ROM is not played at the next launch and a verified one is not
\* asked for, whatever the launches in between were killed at (rom_setup.mm).
THEOREM PromisesAreKept == LaunchSpec => []RomPromisesKept
<1>1. RomInv => RomPromisesKept
  BY DEF RomInv
<1> QED
  BY <1>1, LaunchInvariant, PTL

=============================================================================
