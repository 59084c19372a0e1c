----------------------------- MODULE PhotoScore -----------------------------
(***************************************************************************)
(* The photo score fallback (snappad_game_hooks.cpp).  The hook at the     *)
(* shutter appends the subject in focus to a list; when the game later     *)
(* scores a photo and the read-back of its picture is empty, the hook      *)
(* behind the scorer gives the photo the next subject of that list, and    *)
(* remembers it under the address of the PhotoData, because Camera Check   *)
(* scores photos again.  The game reuses the addresses in the next course. *)
(*                                                                         *)
(* Each hook runs under captured_subject_mutex and is one step.  A photo   *)
(* is its place in the game's album; the score's other fields are always   *)
(* the same baseline and are left out.                                     *)
(***************************************************************************)
EXTENDS Integers, Sequences

CONSTANTS
  Subjects,    \* subject ids the focus detector may see
  Recoverable, \* 1..0x40B without 500: the ids a score may be given
  NoSubject,   \* -1
  Saved,       \* address of the report photo kept from earlier courses
  NullPhoto,   \* address 0
  MaxPhotos,   \* bound on the photos of a course
  Grace        \* 30 observations

ASSUME PhotoAssumption ==
  /\ Recoverable \subseteq Subjects /\ NoSubject \notin Subjects
  /\ MaxPhotos \in Nat /\ Grace \in Nat

VARIABLES
  tracing,   \* SNAPPAD_PHOTO_SCORE_TRACE_PATH is set: an acceptance run
  focus,     \* the player's focus in the game's memory
  lastFocus, \* last_valid_focus
  age,       \* focus_observation_sequence - last_valid_focus_sequence, up to Grace + 1
  captured,  \* captured_subjects
  next,      \* next_captured_subject, counted from 1
  subjectOf, \* subject_by_photo
  scoringStarted,
  album,     \* history: what was in focus at the shutter of each photo of the course
  seen,      \* history: the subjects observed since the last reset
  inOrder,   \* history: so far the game asked for the course's photos in their order first
  rewritten  \* history: the photo and subject of the last score that was rewritten

correlation == <<captured, next, subjectOf, scoringStarted>>
course      == <<album, seen, inOrder, rewritten>>
photoVars   == <<tracing, focus, lastFocus, age, correlation, course>>

Nothing == [p \in {} |-> NoSubject]

PhotoInit ==
  /\ tracing \in BOOLEAN
  /\ focus = NoSubject /\ lastFocus = NoSubject /\ age = 0
  /\ captured = <<>> /\ next = 1 /\ subjectOf = Nothing /\ scoringStarted = FALSE
  /\ album = <<>> /\ seen = {} /\ inOrder = TRUE /\ rewritten = <<>>

-----------------------------------------------------------------------------

\* The game's detector changes its mind.
Look(s) ==
  /\ focus' = s
  /\ UNCHANGED <<tracing, lastFocus, age, correlation, course>>

ObservePlayerFocus ==
  /\ IF focus # NoSubject
     THEN lastFocus' = focus /\ age' = 0 /\ seen' = seen \cup {focus}
     ELSE /\ age' = IF age > Grace THEN age ELSE age + 1
          /\ UNCHANGED <<lastFocus, seen>>
  /\ UNCHANGED <<tracing, focus, correlation, album, inOrder, rewritten>>

\* Slip: a new course is not told from the one that was scored.
MutStale == FALSE

\* A shutter after scoring began belongs to another course.
Stale == scoringStarted

\* The grace window serves acceptance runs only.
FocusedSubject ==
  IF focus = NoSubject /\ tracing /\ age <= Grace THEN lastFocus ELSE focus

CaptureFocusedSubject ==
  /\ Stale \/ scoringStarted \/ Len(album) < MaxPhotos
  /\ captured' = Append(IF Stale THEN <<>> ELSE captured, FocusedSubject)
  /\ next' = IF Stale THEN 1 ELSE next
  /\ subjectOf' = IF Stale THEN Nothing ELSE subjectOf
  /\ scoringStarted' = (scoringStarted /\ ~Stale)
  /\ album' = Append(IF scoringStarted THEN <<>> ELSE album, focus)
  /\ inOrder' = (scoringStarted \/ inOrder)
  /\ rewritten' = <<>>
  /\ UNCHANGED <<tracing, focus, lastFocus, age, seen>>

Pending == next <= Len(captured)

\* Slip: a photo that is scored again takes another entry.
MutKnown(photo) == FALSE

Known(photo) == photo \in DOMAIN subjectOf

\* subject_by_photo, or the next entry of the list.
SubjectFor(photo) ==
  IF Known(photo) THEN subjectOf[photo] ELSE IF Pending THEN captured[next] ELSE NoSubject

\* ApplyPhotoScoreFallback.  A picture that was read back keeps its score but
\* uses up its entry like any other.
ApplyPhotoScoreFallback(photo, readBack) ==
  /\ scoringStarted' = TRUE
  /\ IF ~Known(photo) /\ Pending
     THEN /\ subjectOf' = [p \in DOMAIN subjectOf \cup {photo} |->
                             IF p = photo THEN captured[next] ELSE subjectOf[p]]
          /\ next' = next + 1
     ELSE UNCHANGED <<subjectOf, next>>
  /\ rewritten' = IF ~readBack /\ photo # NullPhoto /\ SubjectFor(photo) \in Recoverable
                  THEN <<photo, SubjectFor(photo)>> ELSE rewritten
  /\ inOrder' = (inOrder /\ (photo \in DOMAIN subjectOf \/ photo = next \/ ~Pending))
  /\ UNCHANGED <<tracing, focus, lastFocus, age, captured, album, seen>>

\* ResetPhotoCaptureSession: a course begins.
ResetPhotoCaptureSession ==
  /\ captured' = <<>> /\ next' = 1 /\ subjectOf' = Nothing /\ scoringStarted' = FALSE
  /\ lastFocus' = NoSubject /\ age' = 0
  /\ album' = <<>> /\ seen' = {} /\ inOrder' = TRUE /\ rewritten' = <<>>
  /\ UNCHANGED <<tracing, focus>>

PhotoNext ==
  \/ \E s \in Subjects \cup {NoSubject} : Look(s)
  \/ ObservePlayerFocus
  \/ CaptureFocusedSubject
  \/ \E photo \in DOMAIN album \cup {Saved, NullPhoto}, readBack \in BOOLEAN :
       ApplyPhotoScoreFallback(photo, readBack)
  \/ ResetPhotoCaptureSession

PhotoSpec == PhotoInit /\ [][PhotoNext]_photoVars

-----------------------------------------------------------------------------
(* Properties. *)

\* As long as the game asks for the photos of a course in the order they were
\* taken before it asks for one again or for the saved report photo, whatever
\* course the addresses served before, a rewritten score names the subject that
\* was in focus at the shutter of that very photo; in an acceptance run it may
\* be one observed since the course was reset.  The saved photo is left alone.
PhotosKeepTheirSubject ==
  rewritten # <<>> /\ inOrder =>
    /\ rewritten[1] \in DOMAIN album
    /\ \/ rewritten[2] = album[rewritten[1]]
       \/ tracing /\ album[rewritten[1]] = NoSubject /\ rewritten[2] \in seen

-----------------------------------------------------------------------------
(* The inductive invariant behind it. *)

Ids == Subjects \cup {NoSubject}

PhotoTypeOK ==
  /\ tracing \in BOOLEAN /\ scoringStarted \in BOOLEAN /\ inOrder \in BOOLEAN
  /\ focus \in Ids /\ lastFocus \in Ids /\ age \in Nat
  /\ captured \in Seq(Ids) /\ next \in Nat \ {0} /\ seen \subseteq Subjects
  /\ album \in Seq(Ids) /\ Len(album) = Len(captured)
  /\ lastFocus # NoSubject => lastFocus \in seen

\* The entry of a photo may stand for it.
Faithful(photo, subject) ==
  \/ subject = album[photo]
  \/ tracing /\ album[photo] = NoSubject /\ subject \in seen \cup {NoSubject}

\* Entries are as the photos; as long as the order is kept an address belongs to
\* the entry of its number.
CorrelationInv ==
  /\ \A k \in DOMAIN captured : Faithful(k, captured[k])
  /\ inOrder => \A photo \in DOMAIN subjectOf :
       photo \in DOMAIN captured /\ subjectOf[photo] = captured[photo]

PhotoInv == PhotoTypeOK /\ CorrelationInv /\ PhotosKeepTheirSubject

=============================================================================
