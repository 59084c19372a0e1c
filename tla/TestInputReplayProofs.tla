------------------------- MODULE TestInputReplayProofs -------------------------
(***************************************************************************)
(* Proofs about TestInputReplay, for every set of routes, any width of the *)
(* counter that holds a step's polls and any number of reloads.            *)
(***************************************************************************)
EXTENDS TestInputReplay, SequenceTheorems, WellFoundedInduction, TLAPS

-----------------------------------------------------------------------------
(* Numbers. *)

\* A set of numbers that is not empty has a least one.
LEMMA LeastNumber ==
  ASSUME NEW S \in SUBSET Nat, S # {}
  PROVE  \E n \in S : \A m \in S : n <= m
  <1> DEFINE R == OpToRel(<, Nat)
  <1>1. IsWellFoundedOn(R, Nat) /\ \A x, y \in Nat : <<y, x>> \in R <=> y < x
    BY NatLessThanWellFounded DEF OpToRel
  <1> HIDE DEF R
  <1>2. PICK n \in S : \A m \in S : ~(<<m, n>> \in R)
    BY <1>1, WFMin
  <1>3. \A m \in S : ~(m < n)
    BY <1>1, <1>2
  <1> QED BY <1>3

\* Sums of positive numbers are numbers and grow.
LEMMA PrefixSums ==
  ASSUME NEW n \in Nat, NEW f, NEW d, f[1] = 0,
         \A k \in 1..n : d[k] \in Nat \ {0} /\ f[k + 1] = f[k] + d[k]
  PROVE  /\ \A k \in 1..(n + 1) : f[k] \in Nat
         /\ \A j, k \in 1..(n + 1) : j < k => f[j] < f[k]
  <1>1. \A k \in 1..(n + 1) : f[k] \in Nat
    <2> DEFINE Bad == {k \in 1..(n + 1) : f[k] \notin Nat}
    <2> SUFFICES ASSUME Bad # {} PROVE FALSE
      OBVIOUS
    <2>0. Bad \in SUBSET Nat
      OBVIOUS
    <2> HIDE DEF Bad
    <2>1. PICK k \in Bad : \A m \in Bad : k <= m
      BY <2>0, LeastNumber
    <2> USE DEF Bad
    <2>2. k # 1 /\ k - 1 \in 1..n
      BY <2>1
    <2>3. k - 1 \notin Bad
      BY <2>1
    <2>4. f[k - 1] \in Nat
      BY <2>2, <2>3
    <2>5. f[(k - 1) + 1] = f[k - 1] + d[k - 1] /\ d[k - 1] \in Nat
      BY <2>2
    <2>6. (k - 1) + 1 = k
      BY <2>1
    <2> QED BY <2>1, <2>4, <2>5, <2>6
  <1>2. ASSUME NEW j \in 1..(n + 1), NEW i \in 1..(n + 1), j < i PROVE f[j] < f[i]
    <2> DEFINE Bad == {k \in 1..(n + 1) : j < k /\ ~(f[j] < f[k])}
    <2> SUFFICES ASSUME Bad # {} PROVE FALSE
      BY <1>2
    <2>0. Bad \in SUBSET Nat
      OBVIOUS
    <2> HIDE DEF Bad
    <2>1. PICK k \in Bad : \A m \in Bad : k <= m
      BY <2>0, LeastNumber
    <2> USE DEF Bad
    <2>2. k - 1 \in 1..n /\ j <= k - 1 /\ (k - 1) + 1 = k
      BY <2>1
    <2>3. k - 1 \notin Bad
      BY <2>1
    <2>4. f[j] <= f[k - 1]
      BY <1>1, <2>2, <2>3
    <2>5. f[k] = f[k - 1] + d[k - 1] /\ d[k - 1] \in Nat \ {0}
      BY <2>2
    <2> QED BY <1>1, <2>1, <2>2, <2>4, <2>5
  <1> QED BY <1>1, <1>2

\* A counter that is not zero is decremented without wrapping.
LEMMA NoWrap ==
  ASSUME NEW m \in Nat, NEW p \in 1..(m - 1)
  PROVE  (p - 1) % m = p - 1
  OBVIOUS

\* The steps of a route follow each other.
LEMMA RouteBounds ==
  ASSUME NEW r \in Routes
  PROVE  /\ Len(r) \in Nat \ {0}
         /\ \A k \in 1..Len(r) : /\ r[k].polls \in 1..(Modulus - 1)
                                 /\ r[k].polls \in Nat \ {0}
                                 /\ Begin[r][k + 1] = Begin[r][k] + r[k].polls
         /\ \A k \in 1..(Len(r) + 1) : Begin[r][k] \in Nat
         /\ \A j, k \in 1..(Len(r) + 1) : j < k => Begin[r][j] < Begin[r][k]
         /\ Begin[r][1] = 0 /\ Total(r) \in Nat \ {0}
  <1>1. /\ Len(r) \in Nat \ {0} /\ Begin[r][1] = 0
        /\ \A k \in 1..Len(r) : /\ r[k].polls \in 1..(Modulus - 1)
                                /\ Begin[r][k + 1] = Begin[r][k] + r[k].polls
    BY RouteAssumption
  <1>2. \A k \in 1..Len(r) : r[k].polls \in Nat \ {0}
    BY <1>1, RouteAssumption
  <1> DEFINE f == Begin[r]
             d == [k \in 1..Len(r) |-> r[k].polls]
  <1>3. \A k \in 1..Len(r) : d[k] \in Nat \ {0} /\ f[k + 1] = f[k] + d[k]
    BY <1>1, <1>2
  <1>4. f[1] = 0 /\ Len(r) \in Nat
    BY <1>1
  <1> HIDE DEF f, d
  <1>5. /\ \A k \in 1..(Len(r) + 1) : f[k] \in Nat
        /\ \A j, k \in 1..(Len(r) + 1) : j < k => f[j] < f[k]
    BY <1>3, <1>4, PrefixSums
  <1>6. f[Len(r) + 1] \in Nat \ {0}
    <2>1. 1 \in 1..(Len(r) + 1) /\ Len(r) + 1 \in 1..(Len(r) + 1) /\ 1 < Len(r) + 1
      BY <1>1
    <2> QED BY <1>4, <1>5, <2>1
  <1> QED BY <1>1, <1>2, <1>5, <1>6 DEF f, Total

-----------------------------------------------------------------------------
(* Types. *)

LEMMA InitReplay == Init => ReplayInv
  <1> SUFFICES ASSUME Init PROVE ReplayInv
    OBVIOUS
  <1>1. TypeOK
    <2>1. Neutral \in Frames /\ out \in Seq(Frames)
      BY EmptySeq DEF Init, Frames
    <2>2. /\ route \in Routes /\ steps \in Routes /\ parsed \in Routes /\ frame \in Frames
          /\ engaged \in BOOLEAN /\ pending \in BOOLEAN /\ waiting \in BOOLEAN /\ clean \in BOOLEAN
      BY <2>1 DEF Init
    <2>3. stepIndex \in Nat \ {0} /\ host = "idle" /\ game = "idle"
      BY DEF Init
    <2> QED BY <2>1, <2>2, <2>3 DEF TypeOK
  <1>2. /\ Len(route) \in Nat \ {0} /\ route[1].polls \in Nat \ {0}
        /\ Begin[route][1 + 1] = Begin[route][1] + route[1].polls /\ Begin[route][1] = 0
        /\ Total(route) \in Nat
    <2>1. Len(route) \in Nat \ {0} /\ 1 \in 1..Len(route)
      BY RouteBounds DEF Init
    <2> QED BY <2>1, RouteBounds DEF Init
  <1>3. Len(out) = 0
    BY EmptySeq DEF Init
  <1>4. AtStep(0)
    BY <1>2, <1>3 DEF Init, AtStep
  <1>5. PollInv
    BY <1>4 DEF Init, PollInv
  <1>6. OutInv
    BY <1>2, <1>3 DEF OutInv
  <1> QED BY <1>1, <1>5, <1>6 DEF ReplayInv, Init

\* Recording keeps a sequence of frames.
LEMMA RecordTypes ==
  ASSUME TypeOK, NEW f \in Frames, Record(f)
  PROVE  out' \in Seq(Frames)
  BY AppendProperties DEF TypeOK, Record

\* The step that is played is one of the installed route, raced or not.
LEMMA StepFrames ==
  ASSUME TypeOK, stepIndex <= Len(steps)
  PROVE  steps[stepIndex].frame \in Frames
  <1>1. Len(steps) \in Nat /\ stepIndex \in 1..Len(steps)
    BY RouteBounds DEF TypeOK
  <1> QED BY <1>1 DEF TypeOK, Frames

LEMMA TypeStep ==
  ASSUME TypeOK, [Next]_vars
  PROVE  TypeOK'
  <1>0. Neutral \in Frames /\ Live \in Frames
    BY DEF Frames
  <1>1. CASE StartArmed
    BY <1>1 DEF StartArmed, replay, thread, poll, TypeOK
  <1>2. CASE \E r \in Routes : Reload(r)
    <2>1. <<>> \in Seq(Frames)
      BY EmptySeq
    <2>2. (game = "idle") \in BOOLEAN
      OBVIOUS
    <2> QED BY <1>2, <2>1, <2>2 DEF Reload, replay, poll, TypeOK
  <1>3. CASE Install
    <2>1. engaged' \in BOOLEAN /\ pending' \in BOOLEAN /\ steps' \in Routes
      BY <1>3 DEF Install, replay, TypeOK
    <2>2. stepIndex' \in Nat \ {0}
      BY <1>3 DEF Install, replay, TypeOK
    <2>3. host' \in {"idle", "steps"}
      BY <1>3 DEF Install
    <2> QED BY <1>3, <2>1, <2>2, <2>3 DEF Install, poll, TypeOK
  <1>4. CASE AssignSteps
    BY <1>4 DEF AssignSteps, poll, TypeOK
  <1>5. CASE AssignIndex
    BY <1>5 DEF AssignIndex, poll, TypeOK
  <1>6. CASE AssignCount
    BY <1>6 DEF AssignCount, poll, TypeOK
  <1>7. CASE AssignPending
    BY <1>7 DEF AssignPending, poll, TypeOK
  <1>8. CASE PollLive
    <2>1. out' \in Seq(Frames)
      <3>1. CASE UNCHANGED out
        BY <3>1 DEF TypeOK
      <3>2. CASE Record(Live)
        BY <1>0, <3>2, RecordTypes
      <3> QED BY <1>8, <3>1, <3>2 DEF PollLive
    <2>2. clean' \in BOOLEAN
      BY <1>8 DEF PollLive
    <2> QED BY <1>8, <2>1, <2>2 DEF PollLive, replay, thread, poll, TypeOK
  <1>9. CASE PollRoute
    <2>1. clean' \in BOOLEAN
      BY <1>9 DEF PollRoute
    <2> QED BY <1>9, <2>1 DEF PollRoute, replay, thread, TypeOK
  <1>10. CASE NextLoad
    <2>1. Len(steps) \in Nat /\ stepIndex \in Nat
      BY RouteBounds DEF TypeOK
    <2>2. CASE stepIndex > Len(steps)
      BY <1>0, <1>10, <2>2 DEF NextLoad, replay, thread, TypeOK
    <2>3. CASE stepIndex <= Len(steps)
      <3>1. steps[stepIndex].frame \in Frames
        BY <2>3, StepFrames
      <3>2. frame' = steps[stepIndex].frame /\ game' = "store"
        BY <1>10, <2>1, <2>3 DEF NextLoad
      <3> QED BY <1>10, <3>1, <3>2 DEF NextLoad, replay, thread, TypeOK
    <2> QED BY <2>1, <2>2, <2>3
  <1>11. CASE NextStore
    <2>1. stepIndex' \in Nat \ {0}
      BY <1>11 DEF NextStore, TypeOK
    <2>2. pending' \in BOOLEAN
      BY <1>11 DEF NextStore, TypeOK
    <2> QED BY <1>11, <2>1, <2>2 DEF NextStore, thread, TypeOK
  <1>12. CASE ConsumeCompleted
    <2>1. out' \in Seq(Frames)
      BY <1>12, RecordTypes DEF ConsumeCompleted, TypeOK
    <2> QED BY <1>12, <2>1 DEF ConsumeCompleted, thread, TypeOK
  <1>13. CASE Reset
    <2>1. out' \in Seq(Frames)
      BY <1>13, RecordTypes DEF Reset, TypeOK
    <2> QED BY <1>13, <2>1 DEF Reset, thread, TypeOK
  <1>14. CASE UNCHANGED vars
    BY <1>14 DEF vars, replay, thread, poll, TypeOK
  <1> QED BY <1>1, <1>2, <1>3, <1>4, <1>5, <1>6, <1>7, <1>8, <1>9, <1>10, <1>11, <1>12,
             <1>13, <1>14
          DEF Next, HostStep, GameStep

-----------------------------------------------------------------------------
(* What the game sees. *)

\* A recorded frame follows the others.
LEMMA RecordAppends ==
  ASSUME TypeOK, clean, Len(out) <= Total(route), NEW f \in Frames, Record(f)
  PROVE  /\ Len(out) \in Nat /\ Len(out') = Len(out) + 1
         /\ out'[Len(out) + 1] = f /\ \A j \in 1..Len(out) : out'[j] = out[j]
  BY AppendProperties, LenProperties DEF TypeOK, Record

\* The frame that is due goes to its place.
LEMMA RecordDue ==
  ASSUME TypeOK, clean, OutInv, FrameDue, Len(out) < Total(route), Record(frame), route' = route
  PROVE  OutInv' /\ Len(out') = Len(out) + 1
  <1>0. Len(out) \in Nat /\ Total(route) \in Nat
    BY LenProperties, RouteBounds DEF TypeOK
  <1>1. /\ Len(out') = Len(out) + 1 /\ out'[Len(out) + 1] = frame
        /\ \A j \in 1..Len(out) : out'[j] = out[j]
    BY <1>0, RecordAppends DEF TypeOK
  <1>2. Len(out') <= Total(route') + 1 /\ ~(Len(out') > Total(route'))
    BY <1>0, <1>1
  <1>3. ASSUME NEW k \in 1..Len(route), NEW j \in 1..Len(out'),
               Begin[route][k] < j /\ j <= Begin[route][k + 1]
        PROVE  out'[j] = route[k].frame
    <2>0. Begin[route][k] \in Nat /\ Begin[route][k + 1] \in Nat
      BY RouteBounds DEF TypeOK
    <2>1. CASE j \in 1..Len(out)
      BY <1>1, <1>3, <2>1 DEF OutInv
    <2>2. CASE j = Len(out) + 1
      BY <1>0, <1>1, <1>3, <2>0, <2>2 DEF FrameDue
    <2> QED BY <1>0, <1>1, <2>1, <2>2
  <1> QED BY <1>1, <1>2, <1>3 DEF OutInv

\* After the last step the game sees live input.
LEMMA RecordLive ==
  ASSUME TypeOK, clean, OutInv, Len(out) >= Total(route), Record(Live), route' = route
  PROVE  OutInv' /\ Len(out') >= Total(route)
  <1>0. Len(out) \in Nat /\ Total(route) \in Nat /\ Live \in Frames
    BY LenProperties, RouteBounds DEF TypeOK, Frames
  <1>1. CASE Len(out) > Total(route)
    <2>1. out' = out
      BY <1>0, <1>1 DEF Record
    <2> QED BY <1>0, <1>1, <2>1 DEF OutInv
  <1>2. CASE Len(out) = Total(route)
    <2>1. /\ Len(out') = Len(out) + 1 /\ out'[Len(out) + 1] = Live
          /\ \A j \in 1..Len(out) : out'[j] = out[j]
      BY <1>0, <1>2, RecordAppends
    <2>2. ASSUME NEW k \in 1..Len(route), NEW j \in 1..Len(out'),
                 Begin[route][k] < j /\ j <= Begin[route][k + 1]
          PROVE  out'[j] = route[k].frame
      <3>1. Begin[route][k + 1] <= Total(route)
        <4>1. CASE k = Len(route)
          BY <4>1, RouteBounds DEF Total, TypeOK
        <4>2. CASE k < Len(route)
          <5>1. Len(route) \in Nat /\ k + 1 < Len(route) + 1
            BY <4>2, RouteBounds DEF TypeOK
          <5>2. k + 1 \in 1..(Len(route) + 1) /\ Len(route) + 1 \in 1..(Len(route) + 1)
            BY <5>1
          <5>3. Begin[route][k + 1] < Begin[route][Len(route) + 1]
            BY <5>1, <5>2, RouteBounds DEF TypeOK
          <5>4. Begin[route][k + 1] \in Nat
            BY <5>2, RouteBounds DEF TypeOK
          <5> QED BY <1>0, <5>3, <5>4 DEF Total
        <4>3. Len(route) \in Nat
          BY RouteBounds DEF TypeOK
        <4> QED BY <4>1, <4>2, <4>3
      <3>2. Begin[route][k + 1] \in Nat
        BY RouteBounds DEF TypeOK
      <3>3. j \in 1..Len(out)
        BY <1>0, <1>2, <2>1, <2>2, <3>1, <3>2
      <3> QED BY <2>1, <2>2, <3>3 DEF OutInv
    <2>3. Len(out') <= Total(route') + 1 /\ out'[Len(out')] = Live
      BY <1>0, <1>2, <2>1
    <2> QED BY <1>0, <1>2, <2>1, <2>2, <2>3 DEF OutInv
  <1> QED BY <1>0, <1>1, <1>2

\* At a step the frames seen so far end inside it.
LEMMA StepPosition ==
  ASSUME TypeOK, NEW n \in {0, 1}, AtStep(n)
  PROVE  /\ Len(out) \in Nat /\ stepIndex \in 1..Len(route) /\ Len(route) \in Nat
         /\ route[stepIndex].polls \in Nat /\ pollsRemaining \in 1..route[stepIndex].polls
         /\ Begin[route][stepIndex] \in Nat
         /\ Begin[route][stepIndex + 1] = Begin[route][stepIndex] + route[stepIndex].polls
         /\ Begin[route][stepIndex + 1] <= Total(route)
         /\ Len(out) + n < Total(route)
  <1>1. Len(out) \in Nat /\ Len(route) \in Nat /\ Total(route) \in Nat
    BY LenProperties, RouteBounds DEF TypeOK
  <1>2. stepIndex \in 1..Len(route) /\ pollsRemaining \in 1..route[stepIndex].polls
    BY DEF AtStep
  <1>3. /\ route[stepIndex].polls \in Nat
        /\ Begin[route][stepIndex + 1] = Begin[route][stepIndex] + route[stepIndex].polls
    BY <1>2, RouteBounds DEF TypeOK
  <1>4. stepIndex \in 1..(Len(route) + 1) /\ stepIndex + 1 \in 1..(Len(route) + 1)
    BY <1>1, <1>2
  <1>5. Begin[route][stepIndex] \in Nat /\ Begin[route][stepIndex + 1] \in Nat
    BY <1>4, RouteBounds DEF TypeOK
  <1>6. Begin[route][stepIndex + 1] <= Total(route)
    <2>1. CASE stepIndex = Len(route)
      BY <1>1, <2>1 DEF Total
    <2>2. CASE stepIndex + 1 < Len(route) + 1
      <3>1. Len(route) + 1 \in 1..(Len(route) + 1)
        BY <1>1
      <3>2. Begin[route][stepIndex + 1] < Begin[route][Len(route) + 1]
        BY <1>4, <2>2, <3>1, RouteBounds DEF TypeOK
      <3> QED BY <1>1, <1>5, <3>2 DEF Total
    <2> QED BY <1>1, <1>2, <2>1, <2>2
  <1>7. Len(out) + n + pollsRemaining = Begin[route][stepIndex + 1]
    BY DEF AtStep
  <1>8. Len(out) + n < Total(route)
    BY <1>1, <1>2, <1>3, <1>5, <1>6, <1>7
  <1> QED BY <1>1, <1>2, <1>3, <1>5, <1>6, <1>8

\* The frame of the step is the one that is due: no other step has that place.
LEMMA StepFrameIsDue ==
  ASSUME TypeOK, AtStep(0), frame = route[stepIndex].frame
  PROVE  FrameDue
  <1> SUFFICES ASSUME NEW k \in 1..Len(route),
                      Begin[route][k] <= Len(out), Len(out) < Begin[route][k + 1]
               PROVE  frame = route[k].frame
    BY DEF FrameDue
  <1>1. /\ Len(out) \in Nat /\ stepIndex \in 1..Len(route) /\ Len(route) \in Nat
        /\ Begin[route][stepIndex] \in Nat /\ route[stepIndex].polls \in Nat
        /\ Begin[route][stepIndex + 1] = Begin[route][stepIndex] + route[stepIndex].polls
        /\ pollsRemaining \in 1..route[stepIndex].polls
    BY StepPosition
  <1>2. Len(out) + pollsRemaining = Begin[route][stepIndex + 1]
    BY <1>1 DEF AtStep
  <1>3. Begin[route][stepIndex] <= Len(out) /\ Len(out) < Begin[route][stepIndex + 1]
    BY <1>1, <1>2
  <1>4. \A i \in 1..(Len(route) + 1) : Begin[route][i] \in Nat
    BY RouteBounds DEF TypeOK
  <1>5. \A i, j \in 1..(Len(route) + 1) : i < j => Begin[route][i] < Begin[route][j]
    BY RouteBounds DEF TypeOK
  <1>6. ASSUME NEW a \in 1..Len(route), NEW b \in 1..Len(route), a < b,
               Begin[route][b] <= Len(out), Len(out) < Begin[route][a + 1]
        PROVE  FALSE
    <2>1. a + 1 \in 1..(Len(route) + 1) /\ b \in 1..(Len(route) + 1)
      BY <1>1
    <2>2. Begin[route][a + 1] <= Begin[route][b]
      <3>1. CASE a + 1 = b
        BY <1>4, <2>1, <3>1
      <3>2. CASE a + 1 < b
        BY <1>4, <1>5, <2>1, <3>2
      <3> QED BY <1>6, <3>1, <3>2
    <2>3. Begin[route][a + 1] \in Nat /\ Begin[route][b] \in Nat
      BY <1>4, <2>1
    <2> QED BY <1>1, <1>6, <2>2, <2>3
  <1>7. k = stepIndex
    BY <1>1, <1>3, <1>6
  <1> QED BY <1>7

-----------------------------------------------------------------------------
(* A reload that no poll overlaps. *)

\* A route is clean unless something overlaps; then nothing is promised.
LEMMA Unclean ==
  ASSUME TypeOK', ~clean'
  PROVE  ReplayInv'
  BY DEF ReplayInv

\* Everything about polls but the frames that were recorded.
LEMMA StartArmedKeeps == ASSUME ReplayInv, StartArmed PROVE ReplayInv'
  <1>1. TypeOK'
    BY TypeStep DEF Next, ReplayInv
  <1>2. CASE clean
    <2>1. PollInv /\ OutInv /\ host = "idle" /\ host' = "idle"
      BY <1>2 DEF ReplayInv, StartArmed, thread
    <2>2. UNCHANGED <<replay, poll, route, out, clean>> /\ waiting' = FALSE
      BY DEF StartArmed
    <2>3. PollInv'
      BY <2>1, <2>2 DEF PollInv, AtStep, AtEnd, FrameDue, Total, replay, poll
    <2>4. OutInv'
      BY <2>1, <2>2 DEF OutInv, Total
    <2> QED BY <1>1, <2>1, <2>3, <2>4 DEF ReplayInv
  <1>3. clean \in BOOLEAN /\ clean' = clean
    BY DEF ReplayInv, TypeOK, StartArmed
  <1> QED BY <1>1, <1>2, <1>3, Unclean

LEMMA ReloadKeeps == ASSUME ReplayInv, NEW r \in Routes, Reload(r) PROVE ReplayInv'
  <1>1. TypeOK'
    BY TypeStep DEF Next, ReplayInv
  <1>2. CASE game = "idle"
    <2>1. host' = "install" /\ InstallInv'
      BY <1>2 DEF Reload, InstallInv, poll
    <2>2. OutInv'
      <3>1. Len(out') = 0 /\ Total(route') \in Nat
        BY EmptySeq, RouteBounds DEF Reload
      <3> QED BY <3>1 DEF OutInv
    <2> QED BY <1>1, <2>1, <2>2 DEF ReplayInv
  <1>3. CASE game # "idle"
    <2>1. ~clean'
      BY <1>3 DEF Reload
    <2> QED BY <1>1, <2>1, Unclean
  <1> QED BY <1>2, <1>3

\* A route that was just installed is at its first step.
LEMMA FreshRoute ==
  ASSUME NEW r \in Routes, r = route', out' = <<>>, stepIndex' = 1,
         pollsRemaining' = r[1].polls, ~pending'
  PROVE  AtStep(0)'
  <1>1. /\ Len(r) \in Nat \ {0} /\ 1 \in 1..Len(r) /\ r[1].polls \in Nat \ {0}
        /\ Begin[r][1 + 1] = Begin[r][1] + r[1].polls /\ Begin[r][1] = 0
    <2>1. Len(r) \in Nat \ {0} /\ 1 \in 1..Len(r)
      BY RouteBounds
    <2> QED BY <2>1, RouteBounds
  <1>2. Len(out') = 0
    BY EmptySeq
  <1> QED BY <1>1, <1>2 DEF AtStep

LEMMA HostStepKeeps == ASSUME ReplayInv, HostStep PROVE ReplayInv'
  <1>1. TypeOK'
    BY TypeStep DEF Next, ReplayInv
  <1>2. UNCHANGED <<game, route, out, clean, waiting, parsed>>
    BY DEF HostStep, Install, AssignSteps, AssignIndex, AssignCount, AssignPending, poll
  <1>3. clean \in BOOLEAN
    BY DEF ReplayInv, TypeOK
  <1>4. ASSUME clean PROVE ReplayInv'
    <2>1. host # "idle" /\ InstallInv /\ OutInv
      BY <1>4 DEF ReplayInv, HostStep, Install, AssignSteps, AssignIndex, AssignCount, AssignPending
    <2>2. OutInv'
      BY <1>2, <2>1 DEF OutInv, Total
    <2>3. host' # "idle" => InstallInv'
      BY <1>2, <2>1 DEF InstallInv, HostStep, Install, AssignSteps, AssignIndex, AssignCount,
                        AssignPending, replay
    <2>4. ASSUME host' = "idle" PROVE PollInv'
      <3>1. engaged' /\ steps' = route' /\ stepIndex' = 1 /\ ~pending'
        BY <1>2, <2>1, <2>4 DEF InstallInv, HostStep, Install, AssignSteps, AssignIndex,
                                AssignCount, AssignPending
      <3>2. pollsRemaining' = route'[1].polls
        BY <1>2, <2>1, <2>4 DEF InstallInv, HostStep, Install, AssignSteps, AssignIndex,
                                AssignCount, AssignPending
      <3>3. out' = <<>> /\ game' = "idle" /\ ~waiting' /\ route' \in Routes
        BY <1>1, <1>2, <2>1 DEF InstallInv, TypeOK
      <3>4. AtStep(0)'
        BY <3>1, <3>2, <3>3, FreshRoute
      <3> QED BY <3>1, <3>3, <3>4 DEF PollInv
    <2> QED BY <1>1, <2>2, <2>3, <2>4 DEF ReplayInv
  <1> QED BY <1>1, <1>2, <1>3, <1>4, Unclean

-----------------------------------------------------------------------------
(* A poll. *)

LEMMA PollLiveKeeps == ASSUME ReplayInv, PollLive PROVE ReplayInv'
  <1>1. TypeOK' /\ clean' \in BOOLEAN
    BY TypeStep DEF Next, GameStep, ReplayInv, TypeOK
  <1>2. ASSUME clean' PROVE ReplayInv'
    <2>1. clean /\ host = "idle" /\ host' = "idle" /\ PollInv /\ OutInv /\ TypeOK
      BY <1>2 DEF PollLive, thread, ReplayInv
    <2>2. /\ game = "idle" /\ UNCHANGED <<replay, waiting, poll, route>>
          /\ ~engaged \/ waiting
      BY DEF PollLive
    <2>3. CASE out = <<>>
      <3>1. out' = out
        BY <2>3 DEF PollLive
      <3>2. PollInv'
        BY <2>1, <2>2, <3>1 DEF PollInv, AtStep, AtEnd, FrameDue, Total, replay, poll
      <3>3. OutInv'
        BY <2>1, <2>2, <3>1 DEF OutInv, Total
      <3> QED BY <1>1, <2>1, <3>2, <3>3 DEF ReplayInv
    <2>4. CASE out # <<>>
      <3>1. ~waiting /\ ~engaged /\ stepIndex = Len(route) + 1 /\ steps = route
            /\ Len(out) >= Total(route)
        BY <2>1, <2>2, <2>4 DEF PollInv
      <3>2. Record(Live)
        BY <2>4 DEF PollLive
      <3>3. OutInv' /\ Len(out') >= Total(route)
        BY <2>1, <2>2, <3>1, <3>2, RecordLive
      <3>4. PollInv'
        BY <2>2, <3>1, <3>3 DEF PollInv, AtStep, AtEnd, FrameDue, Total, replay, poll
      <3> QED BY <1>1, <2>1, <3>3, <3>4 DEF ReplayInv
    <2> QED BY <2>3, <2>4
  <1> QED BY <1>1, <1>2, Unclean

LEMMA PollRouteKeeps == ASSUME ReplayInv, PollRoute PROVE ReplayInv'
  <1>1. TypeOK' /\ clean' \in BOOLEAN
    BY TypeStep DEF Next, GameStep, ReplayInv, TypeOK
  <1>2. ASSUME clean' PROVE ReplayInv'
    <2>1. clean /\ host = "idle" /\ host' = "idle" /\ PollInv /\ OutInv
      BY <1>2 DEF PollRoute, thread, ReplayInv
    <2>2. /\ game = "idle" /\ game' = "next" /\ engaged /\ ~waiting
          /\ UNCHANGED <<replay, waiting, route, out>>
      BY DEF PollRoute
    <2>3. PollInv'
      BY <2>1, <2>2 DEF PollInv, AtStep, replay
    <2>4. OutInv'
      BY <2>1, <2>2 DEF OutInv, Total
    <2> QED BY <1>1, <2>1, <2>3, <2>4 DEF ReplayInv
  <1> QED BY <1>1, <1>2, Unclean

\* The steps of a poll that has begun.
PollStep == NextLoad \/ NextStore \/ ConsumeCompleted \/ Reset

\* While a poll is under way and no reload overlaps, the host rests.
LEMMA CleanPoll ==
  ASSUME ReplayInv, clean, PollStep
  PROVE  /\ TypeOK /\ TypeOK' /\ PollInv /\ OutInv /\ host = "idle" /\ game # "idle"
         /\ UNCHANGED <<host, clean, route, waiting>> /\ ~waiting
  <1>1. UNCHANGED <<host, clean, route, waiting>> /\ game # "idle"
    BY DEF PollStep, NextLoad, NextStore, ConsumeCompleted, Reset, thread
  <1>2. host = "idle"
    BY <1>1 DEF ReplayInv, InstallInv
  <1>3. TypeOK'
    BY TypeStep DEF Next, GameStep, PollStep, ReplayInv
  <1> QED BY <1>1, <1>2, <1>3 DEF ReplayInv, PollInv

\* The clean poll keeps what is due.
LEMMA CleanResult ==
  ASSUME TypeOK', host' = "idle", PollInv', OutInv'
  PROVE  ReplayInv'
  BY DEF ReplayInv

LEMMA NextLoadKeeps == ASSUME ReplayInv, clean, NextLoad PROVE ReplayInv'
  <1>1. /\ TypeOK /\ TypeOK' /\ PollInv /\ OutInv /\ host' = "idle" /\ ~waiting' /\ ~waiting
        /\ route' = route
    BY CleanPoll DEF PollStep
  <1>2. game = "next" /\ UNCHANGED <<replay, out>>
    BY DEF NextLoad
  <1>3. engaged /\ AtStep(0) /\ steps = route
    BY <1>1, <1>2 DEF PollInv
  <1>4. /\ stepIndex \in 1..Len(route) /\ Len(route) \in Nat
        /\ pollsRemaining \in 1..route[stepIndex].polls
    BY <1>1, <1>3, StepPosition
  <1>5. route[stepIndex].polls \in 1..(Modulus - 1) /\ Modulus \in Nat
    BY <1>1, <1>4, RouteBounds, RouteAssumption DEF TypeOK
  <1>6. pollsRemaining \in 1..(Modulus - 1)
    BY <1>4, <1>5
  <1>7. ~(stepIndex > Len(steps))
    BY <1>3, <1>4
  <1>8. game' = "store" /\ frame' = route[stepIndex].frame
    BY <1>3, <1>7 DEF NextLoad
  <1>9. count' = pollsRemaining - 1
    <2>1. count' = (pollsRemaining - 1) % Modulus
      BY <1>7 DEF NextLoad
    <2> QED BY <1>5, <1>6, <2>1, NoWrap
  <1>10. AtStep(0)'
    BY <1>1, <1>2, <1>3 DEF AtStep, replay
  <1>11. PollInv'
    BY <1>1, <1>2, <1>3, <1>8, <1>9, <1>10 DEF PollInv, replay
  <1>12. OutInv'
    BY <1>1, <1>2 DEF OutInv, Total
  <1> QED BY <1>1, <1>11, <1>12, CleanResult

LEMMA NextStoreKeeps == ASSUME ReplayInv, clean, NextStore PROVE ReplayInv'
  <1>1. /\ TypeOK /\ TypeOK' /\ PollInv /\ OutInv /\ host' = "idle" /\ ~waiting' /\ ~waiting
        /\ route' = route
    BY CleanPoll DEF PollStep
  <1>2. /\ game = "store" /\ game' = "completed"
        /\ UNCHANGED <<engaged, steps, frame, out>>
    BY DEF NextStore
  <1>3. /\ engaged /\ AtStep(0) /\ steps = route /\ frame = route[stepIndex].frame
        /\ count = pollsRemaining - 1
    BY <1>1, <1>2 DEF PollInv
  <1>4. FrameDue'
    <2>1. FrameDue
      BY <1>1, <1>3, StepFrameIsDue
    <2> QED BY <1>1, <1>2, <2>1 DEF FrameDue
  <1>5. /\ Len(out) \in Nat /\ Len(route) \in Nat /\ stepIndex \in 1..Len(route)
        /\ pollsRemaining \in 1..route[stepIndex].polls /\ route[stepIndex].polls \in Nat
        /\ Begin[route][stepIndex + 1] \in Nat
    <2>1. Begin[route][stepIndex] \in Nat /\ route[stepIndex].polls \in Nat
      BY <1>1, <1>3, StepPosition
    <2> QED BY <1>1, <1>3, <2>1, StepPosition
  <1>6. Len(out) + pollsRemaining = Begin[route][stepIndex + 1] /\ ~pending
    BY <1>3, <1>5 DEF AtStep
  <1>7. AtStep(1)' \/ (AtEnd(1)' /\ pending')
    <2>1. CASE count # 0
      <3>1. pollsRemaining' = count /\ UNCHANGED <<stepIndex, pending>>
        BY <2>1 DEF NextStore
      <3>2. count \in 1..route[stepIndex].polls /\ Len(out) + 1 + count = Begin[route][stepIndex + 1]
        BY <1>3, <1>5, <1>6, <2>1
      <3> QED BY <1>1, <1>2, <1>5, <1>6, <3>1, <3>2 DEF AtStep
    <2>2. CASE count = 0 /\ stepIndex + 1 <= Len(steps)
      <3>1. /\ stepIndex' = stepIndex + 1 /\ pollsRemaining' = route[stepIndex + 1].polls
            /\ pending' = pending
        BY <1>3, <2>2 DEF NextStore
      <3>2. stepIndex + 1 \in 1..Len(route)
        BY <1>3, <1>5, <2>2
      <3>3. /\ route[stepIndex + 1].polls \in Nat \ {0}
            /\ Begin[route][(stepIndex + 1) + 1]
                 = Begin[route][stepIndex + 1] + route[stepIndex + 1].polls
        BY <1>1, <3>2, RouteBounds DEF TypeOK
      <3>4. Len(out) + 1 = Begin[route][stepIndex + 1]
        BY <1>3, <1>5, <1>6, <2>2
      <3> QED BY <1>1, <1>2, <1>5, <1>6, <3>1, <3>2, <3>3, <3>4 DEF AtStep
    <2>3. CASE count = 0 /\ ~(stepIndex + 1 <= Len(steps))
      <3>1. stepIndex' = stepIndex + 1 /\ pending' = TRUE
        BY <2>3 DEF NextStore
      <3>2. stepIndex = Len(route)
        BY <1>3, <1>5, <2>3
      <3>3. Len(out) + 1 = Begin[route][stepIndex + 1]
        BY <1>3, <1>5, <1>6, <2>3
      <3> QED BY <1>1, <1>2, <3>1, <3>2, <3>3 DEF AtEnd, Total
    <2> QED BY <2>1, <2>2, <2>3
  <1>8. PollInv'
    BY <1>1, <1>2, <1>3, <1>4, <1>7 DEF PollInv
  <1>9. OutInv'
    BY <1>1, <1>2 DEF OutInv, Total
  <1> QED BY <1>1, <1>8, <1>9, CleanResult

LEMMA ConsumeCompletedKeeps == ASSUME ReplayInv, clean, ConsumeCompleted PROVE ReplayInv'
  <1>1. /\ TypeOK /\ TypeOK' /\ PollInv /\ OutInv /\ host' = "idle" /\ ~waiting' /\ ~waiting
        /\ route' = route
    BY CleanPoll DEF PollStep
  <1>2. /\ game = "completed" /\ pending' = FALSE
        /\ UNCHANGED <<engaged, steps, stepIndex, pollsRemaining, frame>>
    BY DEF ConsumeCompleted
  <1>3. engaged /\ steps = route /\ FrameDue /\ (AtStep(1) \/ (AtEnd(1) /\ pending))
    BY <1>1, <1>2 DEF PollInv
  <1>4. CASE pending
    <2>1. game' = "reset" /\ out' = out
      BY <1>4 DEF ConsumeCompleted
    <2>2. AtEnd(1)
      BY <1>3, <1>4 DEF AtStep
    <2>3. AtEnd(1)'
      BY <1>1, <1>2, <2>1, <2>2 DEF AtEnd, Total
    <2>4. FrameDue'
      BY <1>1, <1>2, <1>3, <2>1 DEF FrameDue
    <2>5. PollInv'
      BY <1>1, <1>2, <1>3, <2>1, <2>3, <2>4 DEF PollInv
    <2>6. OutInv'
      BY <1>1, <2>1 DEF OutInv, Total
    <2> QED BY <1>1, <2>5, <2>6, CleanResult
  <1>5. CASE ~pending
    <2>1. game' = "idle" /\ Record(frame)
      BY <1>5 DEF ConsumeCompleted
    <2>2. AtStep(1)
      BY <1>3, <1>5
    <2>3. Len(out) \in Nat /\ Len(out) + 1 < Total(route) /\ Total(route) \in Nat
      BY <1>1, <2>2, StepPosition, RouteBounds DEF TypeOK
    <2>4. OutInv' /\ Len(out') = Len(out) + 1
      <3>1. Len(out) < Total(route)
        BY <2>3
      <3> QED BY <1>1, <1>3, <2>1, <3>1, RecordDue
    <2>5. AtStep(0)'
      <3>1. Len(out') + 0 = Len(out) + 1
        BY <2>3, <2>4
      <3> QED BY <1>1, <1>2, <2>2, <3>1 DEF AtStep
    <2>6. PollInv'
      BY <1>1, <1>2, <1>3, <2>1, <2>5 DEF PollInv
    <2> QED BY <1>1, <2>4, <2>6, CleanResult
  <1> QED BY <1>4, <1>5

LEMMA ResetKeeps == ASSUME ReplayInv, clean, Reset PROVE ReplayInv'
  <1>1. /\ TypeOK /\ TypeOK' /\ PollInv /\ OutInv /\ host' = "idle" /\ ~waiting' /\ ~waiting
        /\ route' = route
    BY CleanPoll DEF PollStep
  <1>2. /\ game = "reset" /\ game' = "idle" /\ engaged' = FALSE /\ Record(frame)
        /\ UNCHANGED <<steps, stepIndex, pollsRemaining, pending>>
    BY DEF Reset
  <1>3. FrameDue /\ AtEnd(1) /\ steps = route
    BY <1>1, <1>2 DEF PollInv
  <1>4. Len(out) \in Nat /\ Total(route) \in Nat /\ Len(out) + 1 = Total(route)
    BY <1>1, <1>3, LenProperties, RouteBounds DEF TypeOK, AtEnd
  <1>5. OutInv' /\ Len(out') = Len(out) + 1
    <2>1. Len(out) < Total(route)
      BY <1>4
    <2> QED BY <1>1, <1>2, <1>3, <2>1, RecordDue
  <1>6. stepIndex' = Len(route') + 1 /\ Len(out') >= Total(route')
    BY <1>1, <1>2, <1>3, <1>4, <1>5 DEF AtEnd, Total
  <1>7. PollInv'
    BY <1>1, <1>2, <1>3, <1>6 DEF PollInv
  <1> QED BY <1>1, <1>5, <1>7, CleanResult

LEMMA ReplayStep == ReplayInv /\ [Next]_vars => ReplayInv'
  <1> SUFFICES ASSUME ReplayInv, [Next]_vars PROVE ReplayInv'
    OBVIOUS
  <1>1. CASE PollStep
    <2>1. TypeOK' /\ clean' = clean /\ clean \in BOOLEAN
      BY <1>1, TypeStep DEF ReplayInv, TypeOK, PollStep, NextLoad, NextStore, ConsumeCompleted, Reset
    <2>2. CASE clean
      BY <1>1, <2>2, NextLoadKeeps, NextStoreKeeps, ConsumeCompletedKeeps, ResetKeeps DEF PollStep
    <2>3. CASE ~clean
      BY <2>1, <2>3, Unclean
    <2> QED BY <2>1, <2>2, <2>3
  <1>2. CASE UNCHANGED vars
    <2>1. UNCHANGED <<replay, fileMode, waiting, thread, poll, route, out, clean>>
      BY <1>2 DEF vars
    <2>2. TypeOK'
      BY TypeStep DEF ReplayInv
    <2>3. InstallInv => InstallInv'
      BY <2>1 DEF InstallInv, replay, thread, poll
    <2>4. PollInv => PollInv'
      BY <2>1 DEF PollInv, AtStep, AtEnd, FrameDue, Total, replay, poll
    <2>5. OutInv => OutInv'
      BY <2>1 DEF OutInv, Total
    <2> QED BY <2>1, <2>2, <2>3, <2>4, <2>5 DEF ReplayInv, thread
  <1> QED BY <1>1, <1>2, StartArmedKeeps, ReloadKeeps, HostStepKeeps, PollLiveKeeps, PollRouteKeeps
          DEF Next, GameStep, PollStep

\* TestInputReplay::next and get_input: a route, of the launch or of a reload
\* that no poll overlapped, is seen step by step for exactly its polls, then
\* input is live, and its counter never wraps - for routes of any length and
\* steps of any number of polls.
THEOREM RoutesAreExact == Spec => []RouteIsExact
  <1>1. ReplayInv => RouteIsExact
    <2> SUFFICES ASSUME ReplayInv PROVE RouteIsExact
      OBVIOUS
    <2>1. ASSUME clean, host = "idle"
          PROVE  /\ stepIndex \in 1..(Len(steps) + 1)
                 /\ stepIndex <= Len(steps) => pollsRemaining \in 1..steps[stepIndex].polls
      <3>1. TypeOK /\ PollInv /\ steps = route /\ Len(route) \in Nat
        BY <2>1, RouteBounds DEF ReplayInv, PollInv, TypeOK
      <3>2. CASE AtStep(0) \/ AtStep(1)
        BY <3>1, <3>2 DEF AtStep
      <3>3. CASE stepIndex = Len(route) + 1
        BY <3>1, <3>3
      <3> QED BY <3>1, <3>2, <3>3 DEF PollInv, AtEnd, TypeOK
    <2>2. PositionInRoute
      BY <2>1 DEF PositionInRoute
    <2> QED BY <2>2 DEF ReplayInv, OutInv, RouteIsExact
  <1>2. Spec => []ReplayInv
    BY InitReplay, ReplayStep, PTL DEF Spec
  <1> QED BY <1>1, <1>2, PTL
=============================================================================
