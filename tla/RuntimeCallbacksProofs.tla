----------------------- MODULE RuntimeCallbacksProofs -----------------------
(***************************************************************************)
(* Theorems about RuntimeCallbacks, for any number of trips, chunks,       *)
(* starts and stops, samples, subjects and photos: each of the three parts *)
(* keeps its invariant, and rests while another one moves.                 *)
(***************************************************************************)
EXTENDS RuntimeCallbacks, TLAPS

-----------------------------------------------------------------------------
(* The gyro. *)

LEMMA GyroInitInv == GyroInit => GyroInv
<1> SUFFICES ASSUME GyroInit PROVE GyroTypeOK /\ AxesInv
  BY DEF GyroInv
<1>1. GyroTypeOK
  <2>1. gyroActive \in BOOLEAN /\ overtaken \in BOOLEAN
    BY DEF GyroInit
  <2>2. /\ generation \in Nat /\ gyroX \in Nat /\ gyroY \in Nat /\ delivering \in Nat
        /\ blocks \in Seq(Nat) /\ owner \in Nat
    BY DEF GyroInit
  <2>3. motionMain = "idle" /\ handler = "idle"
    BY DEF GyroInit
  <2> QED
    BY <2>1, <2>2, <2>3 DEF GyroTypeOK
<1>2. AxesInv
  BY DEF GyroInit, AxesInv
<1> QED
  BY <1>1, <1>2

LEMMA GyroStepKeepsInv == GyroInv /\ [GyroNext]_gyroVars => GyroInv'
<1> SUFFICES ASSUME GyroInv, [GyroNext]_gyroVars PROVE GyroInv'
  OBVIOUS
<1> USE DEF GyroInv, GyroTypeOK, AxesInv, ToZeroX, ToZeroY, Passed, axes, queueing
<1>1. CASE StopGyro \/ StartGyro
  <2>1. PICK first \in {"stop_updates", "start_x"} : NewGeneration(first)
    BY <1>1 DEF StopGyro, StartGyro
  <2>2. GyroTypeOK'
    BY <2>1 DEF NewGeneration
  <2>3. ~overtaken' => ~overtaken /\ ~Passed
    BY <2>1 DEF NewGeneration
  <2>4. ToZeroX' /\ ToZeroY' /\ handler' = handler /\ gyroX' = gyroX /\ owner' = owner
    BY <2>1 DEF NewGeneration
  <2>5. AxesInv'
    BY <2>3, <2>4
  <2> QED
    BY <2>2, <2>5
<1>2. CASE StopUpdates
  BY <1>2 DEF StopUpdates
<1>3. CASE Deactivate
  BY <1>3 DEF Deactivate
<1>4. CASE ZeroX
  BY <1>4 DEF ZeroX
<1>5. CASE ZeroY
  BY <1>5 DEF ZeroY
<1>6. CASE Activate
  BY <1>6 DEF Activate
<1>7. CASE StartUpdates
  BY <1>7 DEF StartUpdates
<1>8. CASE Sample
  BY <1>8 DEF Sample
<1>9. CASE Run
  BY <1>9 DEF Run
<1>10. CASE CheckActive
  BY <1>10 DEF CheckActive
<1>11. CASE CheckGeneration
  BY <1>11 DEF CheckGeneration
<1>12. CASE StoreX
  BY <1>12 DEF StoreX
<1>13. CASE StoreY
  BY <1>13 DEF StoreY
<1>14. CASE UNCHANGED gyroVars
  BY <1>14 DEF gyroVars
<1> QED
  BY <1>1, <1>2, <1>3, <1>4, <1>5, <1>6, <1>7, <1>8, <1>9, <1>10, <1>11, <1>12, <1>13, <1>14
  DEF GyroNext, AllStill

-----------------------------------------------------------------------------
(* The photos. *)

LEMMA PhotoInitInv == PhotoInit => PhotoInv
<1> SUFFICES ASSUME PhotoInit PROVE PhotoInv
  OBVIOUS
<1>1. captured \in Seq(Ids) /\ album \in Seq(Ids) /\ Len(album) = Len(captured)
      /\ DOMAIN captured = {} /\ DOMAIN subjectOf = {}
  BY DEF PhotoInit, Nothing
<1>2. PhotoTypeOK
  <2>1. tracing \in BOOLEAN /\ scoringStarted \in BOOLEAN /\ inOrder \in BOOLEAN
    BY DEF PhotoInit
  <2>2. /\ focus \in Ids /\ lastFocus \in Ids /\ age \in Nat /\ next \in Nat \ {0}
        /\ seen \subseteq Subjects /\ lastFocus = NoSubject
    BY DEF PhotoInit, Ids
  <2> QED
    BY <1>1, <2>1, <2>2 DEF PhotoTypeOK
<1>3. CorrelationInv /\ PhotosKeepTheirSubject
  BY <1>1 DEF PhotoInit, CorrelationInv, PhotosKeepTheirSubject
<1> QED
  BY <1>2, <1>3 DEF PhotoInv

\* A shutter appends what is in focus, or was shortly before.
LEMMA FocusedIsFaithful ==
  ASSUME PhotoInv
  PROVE  /\ FocusedSubject \in Ids
         /\ \/ FocusedSubject = focus
            \/ tracing /\ focus = NoSubject /\ FocusedSubject \in seen \cup {NoSubject}
BY DEF PhotoInv, PhotoTypeOK, FocusedSubject

LEMMA CaptureKeepsInv == PhotoInv /\ CaptureFocusedSubject => PhotoInv'
<1> SUFFICES ASSUME PhotoInv, CaptureFocusedSubject PROVE PhotoInv'
  OBVIOUS
<1> DEFINE old == IF scoringStarted THEN <<>> ELSE captured
           taken == IF scoringStarted THEN <<>> ELSE album
<1>1. /\ captured' = Append(old, FocusedSubject) /\ album' = Append(taken, focus)
      /\ next' = (IF scoringStarted THEN 1 ELSE next)
      /\ subjectOf' = (IF scoringStarted THEN Nothing ELSE subjectOf)
      /\ scoringStarted' = FALSE /\ inOrder' = (scoringStarted \/ inOrder)
      /\ rewritten' = <<>> /\ UNCHANGED <<tracing, focus, lastFocus, age, seen>>
  BY DEF CaptureFocusedSubject, Stale, PhotoInv, PhotoTypeOK
<1>2. /\ old \in Seq(Ids) /\ taken \in Seq(Ids) /\ Len(old) = Len(taken)
      /\ \A k \in DOMAIN old : \/ old[k] = taken[k]
                               \/ tracing /\ taken[k] = NoSubject /\ old[k] \in seen \cup {NoSubject}
  BY DEF PhotoInv, PhotoTypeOK, CorrelationInv, Faithful
<1>3. FocusedSubject \in Ids /\ focus \in Ids
  BY FocusedIsFaithful DEF PhotoInv, PhotoTypeOK
<1> HIDE DEF old, taken
<1>4. /\ captured' \in Seq(Ids) /\ album' \in Seq(Ids) /\ Len(album') = Len(captured')
      /\ Len(captured') = Len(old) + 1
      /\ \A k \in 1..Len(old) : captured'[k] = old[k] /\ album'[k] = taken[k]
      /\ captured'[Len(old) + 1] = FocusedSubject /\ album'[Len(old) + 1] = focus
  BY <1>1, <1>2, <1>3
<1>5. PhotoTypeOK'
  <2>1. /\ scoringStarted' \in BOOLEAN /\ inOrder' \in BOOLEAN /\ tracing' \in BOOLEAN
    BY <1>1 DEF PhotoInv, PhotoTypeOK
  <2>2. /\ focus' \in Ids /\ lastFocus' \in Ids /\ age' \in Nat /\ next' \in Nat \ {0}
        /\ seen' \subseteq Subjects /\ (lastFocus' # NoSubject => lastFocus' \in seen')
    BY <1>1 DEF PhotoInv, PhotoTypeOK
  <2> QED
    BY <1>4, <2>1, <2>2 DEF PhotoTypeOK, Ids
<1>6. \A k \in DOMAIN captured' : Faithful(k, captured[k])'
  <2>1. DOMAIN captured' = 1..(Len(old) + 1) /\ DOMAIN old = 1..Len(old) /\ Len(old) \in Nat
    BY <1>2, <1>4
  <2>2. tracing' = tracing /\ seen' = seen
    BY <1>1
  <2> SUFFICES ASSUME NEW k \in DOMAIN captured' PROVE Faithful(k, captured[k])'
    OBVIOUS
  <2>3. CASE k \in 1..Len(old)
    BY <1>2, <1>4, <2>1, <2>2, <2>3 DEF Faithful
  <2>4. CASE k = Len(old) + 1
    BY <1>4, <2>2, <2>4, FocusedIsFaithful DEF Faithful
  <2> QED
    BY <2>1, <2>3, <2>4
<1>7. ASSUME inOrder', NEW photo \in DOMAIN subjectOf'
      PROVE  photo \in DOMAIN captured' /\ subjectOf'[photo] = captured'[photo]
  <2>1. CASE scoringStarted
    BY <1>1, <1>7, <2>1 DEF Nothing
  <2>2. CASE ~scoringStarted
    <3>1. inOrder /\ subjectOf' = subjectOf /\ old = captured
      BY <1>1, <1>7, <2>2 DEF old
    <3>2. photo \in DOMAIN old /\ subjectOf[photo] = old[photo]
      BY <1>7, <3>1 DEF PhotoInv, CorrelationInv
    <3>3. photo \in 1..Len(old) /\ photo \in 1..(Len(old) + 1)
      BY <1>2, <3>2
    <3> QED
      BY <1>4, <3>1, <3>2, <3>3
  <2> QED
    BY <2>1, <2>2
<1>8. PhotosKeepTheirSubject'
  BY <1>1 DEF PhotosKeepTheirSubject
<1> QED
  BY <1>5, <1>6, <1>7, <1>8 DEF PhotoInv, CorrelationInv

LEMMA ScoreKeepsInv ==
  ASSUME PhotoAssumption, PhotoInv, NEW photo, NEW readBack \in BOOLEAN,
         ApplyPhotoScoreFallback(photo, readBack)
  PROVE  PhotoInv'
<1>1. /\ UNCHANGED <<tracing, focus, lastFocus, age, captured, album, seen>>
      /\ scoringStarted' = TRUE
  BY DEF ApplyPhotoScoreFallback
<1>2. inOrder' => inOrder /\ (photo \in DOMAIN subjectOf \/ photo = next \/ ~Pending)
  BY DEF ApplyPhotoScoreFallback
<1>3. inOrder' \in BOOLEAN
  BY DEF ApplyPhotoScoreFallback
<1>4. Pending => next \in DOMAIN captured
  BY DEF Pending, PhotoInv, PhotoTypeOK
<1>5. next' \in Nat \ {0}
  BY DEF ApplyPhotoScoreFallback, PhotoInv, PhotoTypeOK
<1>6. PhotoTypeOK'
  BY <1>1, <1>3, <1>5 DEF PhotoInv, PhotoTypeOK, Ids
<1>7. \A k \in DOMAIN captured' : Faithful(k, captured[k])'
  BY <1>1 DEF PhotoInv, CorrelationInv, Faithful
<1>8. ASSUME inOrder', NEW p \in DOMAIN subjectOf'
      PROVE  p \in DOMAIN captured' /\ subjectOf'[p] = captured'[p]
  <2>1. \A q \in DOMAIN subjectOf : q \in DOMAIN captured /\ subjectOf[q] = captured[q]
    BY <1>2, <1>8 DEF PhotoInv, CorrelationInv
  <2>2. CASE ~Known(photo) /\ Pending
    <3>1. subjectOf' = [q \in DOMAIN subjectOf \cup {photo} |->
                          IF q = photo THEN captured[next] ELSE subjectOf[q]]
      BY <2>2 DEF ApplyPhotoScoreFallback
    <3>2. photo = next
      BY <1>2, <1>8, <2>2 DEF Known
    <3> QED
      BY <1>1, <1>4, <1>8, <2>1, <2>2, <3>1, <3>2
  <2>3. CASE ~(~Known(photo) /\ Pending)
    BY <1>1, <1>8, <2>1, <2>3 DEF ApplyPhotoScoreFallback
  <2> QED
    BY <2>2, <2>3
<1>9. PhotosKeepTheirSubject'
  <2>1. CASE rewritten' = rewritten
    BY <1>1, <1>2, <2>1 DEF PhotoInv, PhotosKeepTheirSubject
  <2>2. CASE rewritten' = <<photo, SubjectFor(photo)>> /\ SubjectFor(photo) \in Recoverable
    <3> SUFFICES ASSUME inOrder'
                 PROVE  /\ photo \in DOMAIN album
                        /\ \/ SubjectFor(photo) = album[photo]
                           \/ tracing /\ album[photo] = NoSubject /\ SubjectFor(photo) \in seen
      BY <1>1, <2>2 DEF PhotosKeepTheirSubject
    <3>1. SubjectFor(photo) # NoSubject
      BY <2>2, PhotoAssumption DEF PhotoAssumption
    <3>2. photo \in DOMAIN captured /\ SubjectFor(photo) = captured[photo]
      <4>1. CASE Known(photo)
        BY <1>2, <4>1 DEF Known, SubjectFor, PhotoInv, CorrelationInv
      <4>2. CASE ~Known(photo)
        BY <1>2, <1>4, <3>1, <4>2 DEF Known, SubjectFor
      <4> QED
        BY <4>1, <4>2
    <3>3. photo \in DOMAIN album
      BY <3>2 DEF PhotoInv, PhotoTypeOK
    <3> QED
      BY <3>1, <3>2, <3>3 DEF PhotoInv, CorrelationInv, Faithful
  <2> QED
    BY <2>1, <2>2 DEF ApplyPhotoScoreFallback
<1> QED
  BY <1>6, <1>7, <1>8, <1>9 DEF PhotoInv, CorrelationInv

LEMMA PhotoStepKeepsInv ==
  ASSUME PhotoAssumption, PhotoInv, [PhotoNext]_photoVars PROVE PhotoInv'
<1>1. ASSUME NEW s \in Ids, Look(s) PROVE PhotoInv'
  BY <1>1 DEF Look, PhotoInv, PhotoTypeOK, CorrelationInv, Faithful, PhotosKeepTheirSubject,
     correlation, course
<1>2. CASE ObservePlayerFocus
  <2>1. /\ UNCHANGED <<tracing, focus, captured, next, subjectOf, scoringStarted, album,
                       inOrder, rewritten>>
        /\ seen \subseteq seen'
    BY <1>2 DEF ObservePlayerFocus, correlation
  <2>2. /\ lastFocus' \in Ids /\ age' \in Nat /\ seen' \subseteq Subjects
        /\ lastFocus' # NoSubject => lastFocus' \in seen'
    <3>1. CASE focus # NoSubject
      BY <1>2, <3>1 DEF ObservePlayerFocus, PhotoInv, PhotoTypeOK, Ids
    <3>2. CASE focus = NoSubject
      BY <1>2, <3>2 DEF ObservePlayerFocus, PhotoInv, PhotoTypeOK, Ids
    <3> QED
      BY <3>1, <3>2
  <2>3. PhotoTypeOK'
    BY <2>1, <2>2 DEF PhotoInv, PhotoTypeOK, Ids
  <2>4. CorrelationInv'
    BY <2>1 DEF PhotoInv, CorrelationInv, Faithful
  <2>5. PhotosKeepTheirSubject'
    BY <2>1 DEF PhotoInv, PhotosKeepTheirSubject
  <2> QED
    BY <2>3, <2>4, <2>5 DEF PhotoInv
<1>3. CASE CaptureFocusedSubject
  BY <1>3, CaptureKeepsInv
<1>4. ASSUME NEW photo, NEW readBack \in BOOLEAN, ApplyPhotoScoreFallback(photo, readBack)
      PROVE  PhotoInv'
  BY <1>4, ScoreKeepsInv
<1>5. CASE ResetPhotoCaptureSession
  <2>1. captured' \in Seq(Ids) /\ album' \in Seq(Ids) /\ Len(album') = Len(captured')
        /\ DOMAIN captured' = {} /\ DOMAIN subjectOf' = {}
    BY <1>5 DEF ResetPhotoCaptureSession, Nothing
  <2>2. PhotoTypeOK'
    <3>1. tracing' \in BOOLEAN /\ scoringStarted' \in BOOLEAN /\ inOrder' \in BOOLEAN
      BY <1>5 DEF ResetPhotoCaptureSession, PhotoInv, PhotoTypeOK
    <3>2. /\ focus' \in Ids /\ lastFocus' = NoSubject /\ age' \in Nat /\ next' \in Nat \ {0}
          /\ seen' \subseteq Subjects
      BY <1>5 DEF ResetPhotoCaptureSession, PhotoInv, PhotoTypeOK
    <3> QED
      BY <2>1, <3>1, <3>2 DEF PhotoTypeOK, Ids
  <2>3. (CorrelationInv /\ PhotosKeepTheirSubject)'
    BY <1>5, <2>1 DEF ResetPhotoCaptureSession, CorrelationInv, PhotosKeepTheirSubject
  <2> QED
    BY <2>2, <2>3 DEF PhotoInv
<1>6. CASE UNCHANGED photoVars
  BY <1>6 DEF photoVars, PhotoInv, PhotoTypeOK, Ids, CorrelationInv, Faithful,
     PhotosKeepTheirSubject, correlation, course
<1> QED
  BY <1>1, <1>2, <1>3, <1>4, <1>5, <1>6 DEF PhotoNext, Ids

-----------------------------------------------------------------------------
(* The audio. *)

Events == {"will_background", "did_background", "did_foreground"}

LEMMA AudioInit == Init => AudioInv
<1> SUFFICES ASSUME Init PROVE AudioInv
  OBVIOUS
<1>1. queue = <<>> /\ events = <<>> /\ DOMAIN queue = {}
  BY DEF Init
<1>2. TypeOK
  <2>1. backgrounded \in BOOLEAN /\ paused \in BOOLEAN /\ loaded \in BOOLEAN /\ straddled \in BOOLEAN
    BY DEF Init
  <2>2. events \in Seq(Events) /\ queue \in Seq({"front", "back"}) /\ trips \in Nat
    BY <1>1 DEF Init
  <2>3. app = "active" /\ device = "none" /\ host = "idle" /\ game = "idle"
    BY DEF Init
  <2> QED
    BY <2>1, <2>2, <2>3 DEF TypeOK, Events
<1>3. StagesMatch /\ PauseInv /\ QueueInv /\ StaleInv
  BY <1>1 DEF Init, StagesMatch, PauseInv, QueueInv, StaleInv, NoneOfBackground, Opening
<1> QED
  BY <1>2, <1>3 DEF AudioInv

LEMMA EventsStaySequences ==
  ASSUME TypeOK
  PROVE  /\ \A e \in Events : Append(events, e) \in Seq(Events)
         /\ events # <<>> => Tail(events) \in Seq(Events)
BY DEF TypeOK, Events

\* What the other invariants look at, beside the queue.
flags == <<backgrounded, device, paused, queue, host, game, loaded, straddled>>

LEMMA OnlyEventsChange ==
  ASSUME AudioInv, UNCHANGED flags, events' \in Seq(Events),
         app' \in {"active", "inactive", "background"}, trips' \in Nat
  PROVE  AudioInv'
<1>1. TypeOK'
  BY DEF AudioInv, TypeOK, flags, Events
<1>2. (StagesMatch /\ PauseInv /\ QueueInv /\ StaleInv)'
  BY DEF AudioInv, flags, StagesMatch, PauseInv, QueueInv, StaleInv, NoneOfBackground, Opening
<1> QED
  BY <1>1, <1>2 DEF AudioInv

LEMMA SystemKeepsInv ==
  ASSUME AudioInv, System PROVE AudioInv'
<1> USE EventsStaySequences DEF AudioInv, system, sound
<1>1. UNCHANGED flags
  BY DEF System, WillEnterBackground, DidEnterBackground, DidEnterForeground, flags
<1>2. events' \in Seq(Events)
  BY DEF System, WillEnterBackground, DidEnterBackground, DidEnterForeground, Events
<1>3. app' \in {"active", "inactive", "background"} /\ trips' \in Nat
  BY DEF System, WillEnterBackground, DidEnterBackground, DidEnterForeground, TypeOK
<1> QED
  BY <1>1, <1>2, <1>3, OnlyEventsChange

LEMMA HostKeepsTypes ==
  ASSUME AudioInv, HostStep PROVE TypeOK'
<1>1. TypeOK
  BY DEF AudioInv
<1>2. ASSUME NEW kinds, Polled(kinds) PROVE events' \in Seq(Events)
  BY <1>1, <1>2, EventsStaySequences DEF Polled
<1> USE DEF TypeOK, system, sound
<1>3. CASE OnBackground
  <2>1. events' \in Seq(Events)
    BY <1>2, <1>3 DEF OnBackground
  <2>2. /\ UNCHANGED <<app, trips, device, paused, queue, game, loaded>>
        /\ backgrounded' = TRUE /\ straddled' \in BOOLEAN
        /\ host' \in {"idle", "bg_pause", "bg_clear", "fg_clear", "fg_pause"}
        /\ device # "closed"
    BY <1>1, <1>3 DEF OnBackground, Polled
  <2> QED
    BY <1>1, <2>1, <2>2 DEF Events
<1>4. CASE OnForeground
  <2>1. events' \in Seq(Events)
    BY <1>2, <1>4 DEF OnForeground
  <2>2. /\ UNCHANGED <<app, trips, device, paused, queue, game, loaded>>
        /\ backgrounded' = FALSE /\ straddled' \in BOOLEAN
        /\ host' \in {"idle", "bg_pause", "bg_clear", "fg_clear", "fg_pause"}
        /\ device # "closed"
    BY <1>1, <1>4 DEF OnForeground, Polled
  <2> QED
    BY <1>1, <2>1, <2>2 DEF Events
<1>5. CASE BackgroundPause
  BY <1>1, <1>5 DEF BackgroundPause
<1>6. CASE BackgroundClear
  BY <1>1, <1>6 DEF BackgroundClear
<1>7. CASE ForegroundClear
  BY <1>1, <1>7 DEF ForegroundClear
<1>8. CASE ForegroundUnpause
  BY <1>1, <1>8 DEF ForegroundUnpause
<1> QED
  BY <1>3, <1>4, <1>5, <1>6, <1>7, <1>8 DEF HostStep

LEMMA HostKeepsInv ==
  ASSUME AudioInv, HostStep PROVE AudioInv'
<1>1. TypeOK'
  BY HostKeepsTypes
<1> USE DEF TypeOK, system, sound, StagesMatch, PauseInv, QueueInv, StaleInv, NoneOfBackground, Opening
<1>2. (StagesMatch /\ PauseInv /\ QueueInv /\ StaleInv)'
  <2>1. CASE OnBackground
    <3>1. /\ host = "idle" /\ device # "closed" /\ backgrounded' = TRUE
          /\ UNCHANGED <<device, paused, queue, game, loaded>>
      BY <2>1 DEF OnBackground, Polled
    <3>2. CASE backgrounded
      <4>1. UNCHANGED flags
        BY <2>1, <3>1, <3>2 DEF AudioInv, OnBackground, flags
      <4> QED
        BY <4>1 DEF AudioInv, flags
    <3>3. CASE ~backgrounded
      <4>1. NoneOfBackground
        BY <3>1, <3>3 DEF AudioInv
      <4>2. /\ straddled' = (game = "pausing")
            /\ host' = IF device # "none" THEN "bg_pause" ELSE host
        BY <2>1, <3>3 DEF OnBackground
      <4>3. CASE device = "none"
        <5>1. host' = "idle" /\ game = "idle" /\ queue = <<>>
          BY <3>1, <4>2, <4>3 DEF AudioInv
        <5> QED
          BY <3>1, <4>1, <4>3, <5>1
      <4>4. CASE device # "none"
        <5>1. host' = "bg_pause" /\ device = "open" /\ (game = "pausing" => straddled')
          BY <3>1, <4>2, <4>4 DEF AudioInv
        <5>2. straddled' => game # "queueing"
          BY <4>2
        <5> QED
          BY <3>1, <4>1, <5>1, <5>2
      <4> QED
        BY <4>3, <4>4
    <3> QED
      BY <3>2, <3>3
  <2>2. CASE OnForeground
    <3>1. /\ host = "idle" /\ device # "closed" /\ backgrounded' = FALSE
          /\ UNCHANGED <<device, paused, queue, game, loaded>>
          /\ straddled' = (game = "pausing")
          /\ host' = IF device # "none" THEN "fg_clear" ELSE host
      BY <2>2 DEF OnForeground, Polled
    <3>2. CASE device = "none"
      <4>1. host' = "idle" /\ game = "idle" /\ queue = <<>> /\ NoneOfBackground
        BY <3>1, <3>2 DEF AudioInv
      <4> QED
        BY <3>1, <3>2, <4>1
    <3>3. CASE device # "none"
      <4>1. host' = "fg_clear" /\ device = "open" /\ (game = "pausing" => straddled')
        BY <3>1, <3>3 DEF AudioInv
      <4>2. NoneOfBackground \/ paused
        BY <3>1, <4>1 DEF AudioInv
      <4>3. NoneOfBackground' = NoneOfBackground
        BY <3>1
      <4> QED
        BY <3>1, <4>1, <4>2, <4>3 DEF AudioInv
    <3> QED
      BY <3>2, <3>3
  <2>3. CASE BackgroundPause
    BY <2>3 DEF AudioInv, BackgroundPause
  <2>4. CASE BackgroundClear
    <3>1. /\ host = "bg_clear" /\ host' = "idle" /\ queue' = <<>> /\ DOMAIN queue' = {}
          /\ UNCHANGED <<backgrounded, device, paused, game, loaded, straddled>>
      BY <2>4 DEF BackgroundClear
    <3>2. StagesMatch' /\ PauseInv'
      BY <3>1 DEF AudioInv
    <3>3. QueueInv'
      BY <3>1 DEF AudioInv
    <3>4. StaleInv'
      BY <3>1 DEF AudioInv
    <3> QED
      BY <3>2, <3>3, <3>4
  <2>5. CASE ForegroundClear
    BY <2>5 DEF AudioInv, ForegroundClear
  <2>6. CASE ForegroundUnpause
    BY <2>6 DEF AudioInv, ForegroundUnpause
  <2> QED
    BY <2>1, <2>2, <2>3, <2>4, <2>5, <2>6 DEF HostStep
<1> QED
  BY <1>1, <1>2 DEF AudioInv

LEMMA GameKeepsInv ==
  ASSUME AudioInv, GameStep PROVE AudioInv'
<1> USE DEF TypeOK, system, sound, StagesMatch, PauseInv, QueueInv, StaleInv, NoneOfBackground, Opening
<1>1. CASE OpenDevice
  BY <1>1 DEF AudioInv, OpenDevice
<1>2. CASE LoadFlag
  BY <1>2 DEF AudioInv, LoadFlag
<1>3. CASE ApplyPause
  BY <1>3 DEF AudioInv, ApplyPause
<1>4. CASE CheckQueue
  BY <1>4 DEF AudioInv, CheckQueue
<1>5. CASE QueueAudio
  BY <1>5 DEF AudioInv, QueueAudio
<1> QED
  BY <1>1, <1>2, <1>3, <1>4, <1>5 DEF GameStep

LEMMA SoundKeepsInv ==
  ASSUME AudioInv, Play \/ CloseDevice \/ UNCHANGED vars PROVE AudioInv'
<1> USE DEF TypeOK, system, sound, StagesMatch, PauseInv, QueueInv, StaleInv, NoneOfBackground, Opening
<1>1. CASE Play
  BY <1>1 DEF AudioInv, Play
<1>2. CASE CloseDevice
  BY <1>2 DEF AudioInv, CloseDevice
<1>3. CASE UNCHANGED vars
  BY <1>3 DEF AudioInv, vars
<1> QED
  BY <1>1, <1>2, <1>3

LEMMA AudioStepKeepsInv == AudioInv /\ [Next]_vars => AudioInv'
BY SystemKeepsInv, HostKeepsInv, GameKeepsInv, SoundKeepsInv DEF Next, Exited

-----------------------------------------------------------------------------
(* All three. *)

LEMMA RuntimeInvariant == RuntimeSpec => [](AudioInv /\ GyroInv /\ PhotoInv)
<1>1. RuntimeInit => AudioInv /\ GyroInv /\ PhotoInv
  BY AudioInit, GyroInitInv, PhotoInitInv DEF RuntimeInit, PhotoRests
<1>2. AudioInv /\ GyroInv /\ PhotoInv /\ [RuntimeNext]_callbacks => (AudioInv /\ GyroInv /\ PhotoInv)'
  <2> SUFFICES ASSUME AudioInv, GyroInv, PhotoInv, [RuntimeNext]_callbacks
               PROVE  AudioInv' /\ GyroInv' /\ PhotoInv'
    OBVIOUS
  <2>1. [Next]_vars /\ [GyroNext]_gyroVars /\ [PhotoNext]_photoVars
    BY DEF RuntimeNext, OfAudio, OfGyro, OfPhoto, callbacks
  <2> QED
    BY <2>1, PhotoAssumption, AudioStepKeepsInv, GyroStepKeepsInv, PhotoStepKeepsInv
<1> QED
  BY <1>1, <1>2, PTL DEF RuntimeSpec

\* For any number of trips the device sounds exactly in the foreground, unless
\* the last change fell into the opening of the device (snappad_runner.cpp).
THEOREM PauseIsRight == RuntimeSpec => []PauseFollowsLifecycle
<1>1. AudioInv => PauseFollowsLifecycle
  BY DEF AudioInv, PauseInv, PauseFollowsLifecycle, Settled, Opening
<1> QED
  BY <1>1, RuntimeInvariant, PTL

\* In the background the queue holds one chunk at most, whatever SDL could hold
\* (snappad_runner.cpp).
THEOREM QueueStaysShort == RuntimeSpec => []BackgroundQueueBounded
<1>1. AudioInv => BackgroundQueueBounded
  BY DEF AudioInv, QueueInv, BackgroundQueueBounded
<1> QED
  BY <1>1, RuntimeInvariant, PTL

\* No chunk of the background is heard after the resume (snappad_runner.cpp).
THEOREM NoStaleAudio == RuntimeSpec => NoBackgroundAudioHeard
<1>1. AudioInv /\ [RuntimeNext]_callbacks =>
        [Play /\ ~backgrounded /\ ~straddled => Head(queue) = "front"]_vars
  <2> SUFFICES ASSUME AudioInv, Play, ~backgrounded, ~straddled PROVE Head(queue) = "front"
    OBVIOUS
  <2>1. NoneOfBackground
    BY DEF AudioInv, StaleInv, Play
  <2> QED
    BY <2>1 DEF AudioInv, TypeOK, Play, NoneOfBackground
<1> QED
  BY <1>1, RuntimeInvariant, PTL DEF RuntimeSpec, NoBackgroundAudioHeard

\* However often the gyro starts and stops and however late its handlers run,
\* the axes are of the running session, unless a handler was overtaken between
\* its checks and its stores (ios_main.mm).
THEOREM AxesAreCurrent == RuntimeSpec => []AxesAreOfThisSession
<1>1. GyroInv => AxesAreOfThisSession
  BY DEF GyroInv, AxesInv, ToZeroX, ToZeroY, AxesAreOfThisSession
<1> QED
  BY <1>1, RuntimeInvariant, PTL

\* For any number of photos, courses and subjects: as long as the game takes the
\* photos of a course in order, a rewritten score names the photo's own subject
\* (snappad_game_hooks.cpp).
THEOREM SubjectsAreTheirOwn == RuntimeSpec => []PhotosKeepTheirSubject
<1>1. PhotoInv => PhotosKeepTheirSubject
  BY DEF PhotoInv
<1> QED
  BY <1>1, RuntimeInvariant, PTL

=============================================================================
