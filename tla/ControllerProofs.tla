-------------------------- MODULE ControllerProofs --------------------------
(***************************************************************************)
(* Proofs about ControllerSlots and its composition ControllerHandoff, for *)
(* every set of controllers, every number of players and every preferred   *)
(* index: no controller is shared or leaked, nobody is displaced, and the  *)
(* overlay, which never misses the last report, does not get in the way.   *)
(***************************************************************************)
EXTENDS ControllerHandoff, FiniteSetTheorems, SequenceTheorems, WellFoundedInduction, TLAPS

-----------------------------------------------------------------------------
(* ControllerSlots. *)

\* A set of numbers that is not empty has a least one.
LEMMA Smallest ==
  ASSUME NEW S \in SUBSET Nat, S # {}
  PROVE  \E n \in S : \A m \in S : n <= m
  <1> DEFINE R == OpToRel(<, Nat)
  <1>1. IsWellFoundedOn(R, Nat)
    BY NatLessThanWellFounded
  <1>2. \A x, y \in Nat : <<y, x>> \in R <=> y < x
    BY DEF OpToRel
  <1> HIDE DEF R
  <1>3. PICK n \in S : \A m \in S : ~(<<m, n>> \in R)
    BY <1>1, WFMin
  <1>4. \A m \in S : ~(m < n)
    BY <1>2, <1>3
  <1> QED BY <1>4

\* A function on 1..n is a sequence.
LEMMA FunctionIsSeq ==
  ASSUME NEW S, NEW n \in Nat, NEW f \in [1..n -> S]
  PROVE  f \in Seq(S)
  BY SeqDef, Zenon

\* free_slot is a slot without a handle whenever there is one.
LEMMA FirstFreeIsFree ==
  ASSUME FreeSlots # {}
  PROVE  FirstFree \in FreeSlots
  <1>1. FreeSlots \in SUBSET Nat
    BY ConstantsAssumption DEF FreeSlots, Players
  <1>2. PICK p \in FreeSlots : \A q \in FreeSlots : p <= q
    BY <1>1, Smallest
  <1> QED BY <1>2 DEF FirstFree

\* The slots that hold one instance are none or one.
LEMMA HoldersCount ==
  ASSUME NoSharedInstance, NEW i \in Instances
  PROVE  Cardinality({p \in Players : slots[p] = i}) = IF Seated(i) THEN 1 ELSE 0
  <1>1. CASE Seated(i)
    <2>1. PICK p \in Players : slots[p] = i
      BY <1>1 DEF Seated
    <2>2. {q \in Players : slots[q] = i} = {p}
      BY <2>1, ConstantsAssumption DEF NoSharedInstance
    <2> QED BY <1>1, <2>2, FS_Singleton
  <1>2. CASE ~Seated(i)
    <2>1. {q \in Players : slots[q] = i} = {}
      BY <1>2 DEF Seated
    <2> QED BY <1>2, <2>1, FS_EmptySet
  <1> QED BY <1>1, <1>2

\* What is attached is a controller.
LEMMA AttachedInstances == TypeOK => Attached \subseteq Instances
  BY ElementOfSeq DEF TypeOK, Attached

\* The sort of enumerate() permutes the device indices.
LEMMA RankedIndexRange ==
  ASSUME TypeOK, NEW k \in 1..Len(devices)
  PROVE  RankedIndex(k) \in 1..Len(devices)
  BY ConstantsAssumption, LenProperties DEF TypeOK, RankedIndex

\* The inductive invariant holds before anything is attached.
LEMMA InitInv == Init => IInv
  <1> SUFFICES ASSUME Init PROVE IInv
    OBVIOUS
  <1>1. TypeOK
    BY ConstantsAssumption, EmptySeq DEF Init, TypeOK, Players
  <1>2. NoSharedInstance
    BY DEF Init, NoSharedInstance
  <1>3. HandlesBalanced
    BY ConstantsAssumption DEF Init, HandlesBalanced, Seated
  <1>4. CandidateInv
    BY DEF Init, CandidateInv
  <1> QED BY <1>1, <1>2, <1>3, <1>4 DEF IInv

\* Steps that leave slots, references and the handle being judged alone can
\* only disturb the types and the phase.
LEMMA KeepsSlots ==
  ASSUME IInv, UNCHANGED <<slots, opens, candidate>>
  PROVE  NoSharedInstance' /\ HandlesBalanced'
  BY DEF IInv, NoSharedInstance, HandlesBalanced, Seated

\* A new device touches neither slots nor references.
LEMMA AttachInv ==
  ASSUME IInv, NEW i \in Instances, Attach(i)
  PROVE  IInv'
  <1>1. devices' \in Seq(Instances)
    BY AppendProperties DEF IInv, TypeOK, Attach
  <1>2. TypeOK'
    BY <1>1 DEF IInv, TypeOK, Attach
  <1>3. CandidateInv'
    BY DEF IInv, CandidateInv, Attach, Seated, FreeSlots
  <1> QED BY <1>2, <1>3, KeepsSlots DEF IInv, Attach

\* The list of devices minus one is a list of devices.
LEMMA DetachInv ==
  ASSUME IInv, NEW k \in 1..Len(devices), Detach(k)
  PROVE  IInv'
  <1> DEFINE shorter == [j \in 1..(Len(devices) - 1) |-> devices[IF j < k THEN j ELSE j + 1]]
  <1>1. Len(devices) - 1 \in Nat /\ devices \in [1..Len(devices) -> Instances]
    BY LenProperties DEF IInv, TypeOK
  <1>2. \A j \in 1..(Len(devices) - 1) : devices[IF j < k THEN j ELSE j + 1] \in Instances
    BY <1>1
  <1>3. shorter \in [1..(Len(devices) - 1) -> Instances]
    BY <1>2
  <1>4. devices' \in Seq(Instances)
    <2>1. shorter \in Seq(Instances)
      BY <1>1, <1>3, FunctionIsSeq, Zenon
    <2> QED BY <2>1 DEF Detach
  <1>5. devices[k] \in Instances
    BY <1>1
  <1>6. TypeOK'
    BY <1>4, <1>5 DEF IInv, TypeOK, Detach
  <1>7. CandidateInv'
    BY DEF IInv, CandidateInv, Detach, Seated, FreeSlots
  <1> QED BY <1>6, <1>7, KeepsSlots DEF IInv, Detach

\* The start of a pass only moves the phase.
LEMMA StartReconcileInv ==
  ASSUME IInv, StartReconcile
  PROVE  IInv'
  <1>1. TypeOK'
    BY DEF IInv, TypeOK, StartReconcile, environment
  <1>2. CandidateInv'
    BY DEF IInv, CandidateInv, StartReconcile
  <1> QED BY <1>1, <1>2, KeepsSlots DEF IInv, StartReconcile

\* release_instance closes the handle of the one slot that holds the instance.
LEMMA OnRemovedInv ==
  ASSUME IInv, NEW i \in Instances, OnRemoved(i)
  PROVE  IInv'
  <1>1. opens' = [opens EXCEPT ![i] = @ - (IF Seated(i) THEN 1 ELSE 0)]
    BY HoldersCount DEF IInv, OnRemoved
  <1>2. slots' \in [Players -> Instances \cup {None}]
    BY DEF IInv, TypeOK, OnRemoved
  <1>3. candidate = None /\ candidate' = None
    BY DEF IInv, CandidateInv, OnRemoved
  <1>4. \A j \in Instances : Seated(j)' <=> j # i /\ Seated(j)
    BY ConstantsAssumption DEF IInv, TypeOK, OnRemoved, Seated
  <1>5. HandlesBalanced'
    BY <1>1, <1>3, <1>4, ConstantsAssumption DEF IInv, TypeOK, HandlesBalanced
  <1>6. opens' \in [Instances -> Nat]
    <2>1. opens[i] = IF Seated(i) THEN 1 ELSE 0
      BY <1>3, ConstantsAssumption DEF IInv, HandlesBalanced
    <2> QED BY <1>1, <2>1 DEF IInv, TypeOK
  <1>7. TypeOK'
    BY <1>2, <1>6 DEF IInv, TypeOK, OnRemoved
  <1>8. NoSharedInstance'
    BY DEF IInv, TypeOK, NoSharedInstance, OnRemoved
  <1>9. CandidateInv'
    BY <1>3 DEF CandidateInv, OnRemoved
  <1> QED BY <1>5, <1>7, <1>8, <1>9 DEF IInv

\* What enumerate() returns is a list of indexed controllers.
LEMMA EnumerateInv ==
  ASSUME IInv, Enumerate
  PROVE  IInv'
  <1>1. \A k \in 1..Len(devices) :
          [index |-> RankedIndex(k), instance |-> devices[RankedIndex(k)]]
            \in [index : Nat \ {0}, instance : Instances]
    <2> SUFFICES ASSUME NEW k \in 1..Len(devices)
                 PROVE  RankedIndex(k) \in Nat \ {0} /\ devices[RankedIndex(k)] \in Instances
      OBVIOUS
    <2>1. RankedIndex(k) \in 1..Len(devices)
      BY RankedIndexRange DEF IInv
    <2> QED BY <2>1, LenProperties DEF IInv, TypeOK
  <1>2. Enumeration \in [1..Len(devices) -> [index : Nat \ {0}, instance : Instances]]
    BY <1>1 DEF Enumeration
  <1>3. listing' \in Seq([index : Nat \ {0}, instance : Instances])
    <2>1. Len(devices) \in Nat
      BY LenProperties DEF IInv, TypeOK
    <2>2. Enumeration \in Seq([index : Nat \ {0}, instance : Instances])
      BY <1>2, <2>1, FunctionIsSeq, Zenon
    <2> QED BY <2>2 DEF Enumerate
  <1>4. TypeOK'
    BY <1>3, ConstantsAssumption DEF IInv, TypeOK, Enumerate, environment
  <1>5. CandidateInv'
    BY DEF IInv, CandidateInv, Enumerate
  <1> QED BY <1>4, <1>5, KeepsSlots DEF IInv, Enumerate

\* The release loop closes what the slot holds and nothing else.
LEMMA ReleaseStepInv ==
  ASSUME IInv, ReleaseStep
  PROVE  IInv'
  <1>1. candidate = None /\ candidate' = None /\ phase' # "opened" /\ cursor \in Players
    BY DEF IInv, TypeOK, CandidateInv, ReleaseStep, Players
  <1>2. cursor' \in 1..(MaxPlayers + 1)
    BY ConstantsAssumption DEF IInv, TypeOK, ReleaseStep
  <1>3. CandidateInv'
    BY <1>1 DEF CandidateInv
  <1>4. CASE UNCHANGED <<slots, opens>>
    <2>1. TypeOK'
      BY <1>2, <1>4 DEF IInv, TypeOK, ReleaseStep, environment
    <2> QED BY <1>1, <1>3, <1>4, <2>1, KeepsSlots DEF IInv
  <1>5. CASE slots[cursor] # None /\ ~StillValid(slots[cursor])
    <2> DEFINE j == slots[cursor]
    <2>1. j \in Instances /\ Seated(j)
      BY <1>1, <1>5 DEF IInv, TypeOK, Seated
    <2>2. opens[j] = 1
      BY <1>1, <2>1, ConstantsAssumption DEF IInv, HandlesBalanced
    <2>3. opens' = [opens EXCEPT ![j] = @ - 1] /\ slots' = [slots EXCEPT ![cursor] = None]
      BY <1>5 DEF ReleaseStep
    <2>4. \A i \in Instances : Seated(i)' <=> i # j /\ Seated(i)
      BY <1>1, <2>1, <2>3, ConstantsAssumption DEF IInv, TypeOK, NoSharedInstance, Seated
    <2>5. HandlesBalanced'
      BY <1>1, <2>1, <2>2, <2>3, <2>4, ConstantsAssumption DEF IInv, TypeOK, HandlesBalanced
    <2>6. NoSharedInstance'
      BY <1>1, <2>3 DEF IInv, TypeOK, NoSharedInstance
    <2>7. slots' \in [Players -> Instances \cup {None}] /\ opens' \in [Instances -> Nat]
      <3>1. slots' \in [Players -> Instances \cup {None}]
        BY <2>3 DEF IInv, TypeOK
      <3>2. opens[j] - 1 \in Nat
        BY <2>2
      <3>3. opens' = [opens EXCEPT ![j] = opens[j] - 1]
        BY <2>3
      <3> HIDE DEF j
      <3>4. opens' \in [Instances -> Nat]
        BY <3>2, <3>3 DEF IInv, TypeOK
      <3> QED BY <3>1, <3>4
    <2>8. TypeOK'
      BY <1>2, <2>7 DEF IInv, TypeOK, ReleaseStep, environment
    <2> QED BY <1>3, <2>5, <2>6, <2>8 DEF IInv
  <1> QED BY <1>4, <1>5 DEF ReleaseStep

\* The release loop ends with no handle being judged.
LEMMA EndReleaseInv ==
  ASSUME IInv, EndRelease
  PROVE  IInv'
  <1>1. TypeOK'
    BY DEF IInv, TypeOK, EndRelease, environment
  <1>2. CandidateInv'
    BY DEF IInv, CandidateInv, EndRelease
  <1> QED BY <1>1, <1>2, KeepsSlots DEF IInv, EndRelease

\* The rest of the listing is a listing.
LEMMA ListingTail ==
  ASSUME TypeOK, listing # <<>>
  PROVE  /\ Tail(listing) \in Seq([index : Nat \ {0}, instance : Instances])
         /\ Head(listing) \in [index : Nat \ {0}, instance : Instances]
  BY HeadTailProperties DEF TypeOK

\* A controller that has a player is passed over.
LEMMA SkipAssignedInv ==
  ASSUME IInv, SkipAssigned
  PROVE  IInv'
  <1>1. TypeOK'
    BY ListingTail DEF IInv, TypeOK, SkipAssigned, environment
  <1>2. CandidateInv'
    BY DEF IInv, CandidateInv, SkipAssigned
  <1> QED BY <1>1, <1>2, KeepsSlots DEF IInv, SkipAssigned

\* open() adds one reference, and only to the handle it returns - which may be
\* that of a controller a player already has.
LEMMA OpenNextInv ==
  ASSUME IInv, OpenNext
  PROVE  IInv'
  <1>1. candidate = None
    BY DEF IInv, CandidateInv, OpenNext
  <1>2. Head(listing).index \in Nat \ {0}
    BY ListingTail DEF IInv, OpenNext
  <1>3. candidate' \in Instances \cup {None}
    BY <1>2, LenProperties DEF IInv, TypeOK, OpenNext, OpenedDevice
  <1>4. opens' = [i \in Instances |-> opens[i] + (IF i = candidate' THEN 1 ELSE 0)]
    BY DEF OpenNext
  <1>5. opens' \in [Instances -> Nat]
    BY <1>4 DEF IInv, TypeOK
  <1>6. HandlesBalanced'
    BY <1>1, <1>3, <1>4, ConstantsAssumption
    DEF IInv, TypeOK, HandlesBalanced, Seated, OpenNext
  <1>7. NoSharedInstance'
    BY DEF IInv, NoSharedInstance, OpenNext
  <1>8. TypeOK'
    BY <1>3, <1>5 DEF IInv, TypeOK, OpenNext, environment
  <1>9. CandidateInv'
    BY DEF CandidateInv, OpenNext, Seated, FreeSlots
  <1> QED BY <1>6, <1>7, <1>8, <1>9 DEF IInv

\* The handle moves from the judge to the free slot; nobody has it yet because
\* it is the listed controller, which nobody has.
LEMMA SeatCandidateInv ==
  ASSUME IInv, SeatCandidate
  PROVE  IInv'
  <1>1. candidate \in Instances /\ ~Seated(candidate) /\ candidate # None
    BY AttachedInstances, ConstantsAssumption
    DEF IInv, CandidateInv, SeatCandidate, Accepted
  <1>2. FirstFree \in Players /\ slots[FirstFree] = None
    BY FirstFreeIsFree DEF IInv, CandidateInv, SeatCandidate, FreeSlots
  <1> DEFINE free == FirstFree
  <1>3. slots' = [slots EXCEPT ![free] = candidate] /\ candidate' = None /\ opens' = opens
    BY DEF SeatCandidate
  <1>4. free \in Players /\ slots[free] = None
    BY <1>2
  <1> HIDE DEF free
  <1>5. slots' \in [Players -> Instances \cup {None}]
    BY <1>1, <1>3, <1>4 DEF IInv, TypeOK
  <1>6. \A i \in Instances : Seated(i)' <=> Seated(i) \/ i = candidate
    BY <1>1, <1>3, <1>4, ConstantsAssumption DEF IInv, TypeOK, Seated
  <1>7. HandlesBalanced'
    <2> SUFFICES ASSUME NEW i \in Instances
                 PROVE  opens[i] = (IF Seated(i)' THEN 1 ELSE 0) + 0
      BY <1>3, ConstantsAssumption DEF HandlesBalanced
    <2>1. opens[i] = (IF Seated(i) THEN 1 ELSE 0) + (IF candidate = i THEN 1 ELSE 0)
      BY DEF IInv, HandlesBalanced
    <2>2. CASE i = candidate
      BY <1>1, <1>6, <2>1, <2>2
    <2>3. CASE i # candidate
      BY <1>6, <2>1, <2>3
    <2> QED BY <2>2, <2>3
  <1>8. NoSharedInstance'
    BY <1>1, <1>3, <1>4 DEF IInv, TypeOK, NoSharedInstance, Seated
  <1>9. listing' \in Seq([index : Nat \ {0}, instance : Instances])
    BY ListingTail DEF IInv, CandidateInv, SeatCandidate
  <1>10. TypeOK'
    BY <1>3, <1>5, <1>9 DEF IInv, TypeOK, SeatCandidate, environment
  <1>11. CandidateInv'
    BY DEF CandidateInv, SeatCandidate
  <1> QED BY <1>7, <1>8, <1>10, <1>11 DEF IInv

\* A refused handle gives back the one reference it had.
LEMMA RejectCandidateInv ==
  ASSUME IInv, RejectCandidate
  PROVE  IInv'
  <1>1. opens' = [i \in Instances |-> opens[i] - (IF i = candidate THEN 1 ELSE 0)]
    BY DEF RejectCandidate
  <1>2. candidate \in Instances => opens[candidate] >= 1
    BY DEF IInv, HandlesBalanced
  <1>3. opens' \in [Instances -> Nat]
    BY <1>1, <1>2 DEF IInv, TypeOK
  <1>4. HandlesBalanced'
    <2> SUFFICES ASSUME NEW i \in Instances
                 PROVE  opens'[i] = (IF Seated(i) THEN 1 ELSE 0) + 0
      BY ConstantsAssumption DEF HandlesBalanced, Seated, RejectCandidate
    <2>1. opens[i] = (IF Seated(i) THEN 1 ELSE 0) + (IF candidate = i THEN 1 ELSE 0)
      BY DEF IInv, HandlesBalanced
    <2>2. opens'[i] = opens[i] - (IF i = candidate THEN 1 ELSE 0)
      BY <1>1
    <2> QED BY <2>1, <2>2
  <1>5. NoSharedInstance'
    BY DEF IInv, NoSharedInstance, RejectCandidate
  <1>6. listing' \in Seq([index : Nat \ {0}, instance : Instances])
    BY ListingTail DEF IInv, CandidateInv, RejectCandidate
  <1>7. TypeOK'
    BY <1>3, <1>6 DEF IInv, TypeOK, RejectCandidate, environment
  <1>8. CandidateInv'
    BY DEF CandidateInv, RejectCandidate
  <1> QED BY <1>4, <1>5, <1>7, <1>8 DEF IInv

\* The assignment loop ends between two controllers, never on an open handle.
LEMMA FinishReconcileInv ==
  ASSUME IInv, FinishReconcile
  PROVE  IInv'
  <1>1. TypeOK'
    BY EmptySeq DEF IInv, TypeOK, FinishReconcile, environment
  <1>2. CandidateInv'
    BY DEF IInv, CandidateInv, FinishReconcile, AssignDone
  <1> QED BY <1>1, <1>2, KeepsSlots DEF IInv, FinishReconcile

\* close_all leaves no reference behind.
LEMMA ShutdownInv ==
  ASSUME IInv, Shutdown
  PROVE  IInv'
  <1>1. candidate = None /\ candidate' = None
    BY DEF IInv, CandidateInv, Shutdown
  <1>2. \A i \in Instances :
          opens[i] = Cardinality({p \in Players : slots[p] = i})
    BY <1>1, HoldersCount, ConstantsAssumption DEF IInv, HandlesBalanced
  <1>3. opens' = [i \in Instances |-> 0]
    <2>1. \A i \in Instances : opens[i] - Cardinality({p \in Players : slots[p] = i}) = 0
      <3> SUFFICES ASSUME NEW i \in Instances
                   PROVE  opens[i] - Cardinality({p \in Players : slots[p] = i}) = 0
        OBVIOUS
      <3>1. opens[i] = Cardinality({p \in Players : slots[p] = i})
        BY <1>2
      <3>2. opens[i] \in Nat
        BY DEF IInv, TypeOK
      <3>3. opens[i] - opens[i] = 0
        BY <3>2
      <3> QED BY <3>1, <3>3
    <2> QED BY <2>1 DEF Shutdown
  <1>4. slots' = [p \in Players |-> None]
    BY DEF Shutdown
  <1>5. HandlesBalanced'
    BY <1>1, <1>3, <1>4, ConstantsAssumption DEF HandlesBalanced, Seated
  <1>6. NoSharedInstance'
    BY <1>4 DEF NoSharedInstance
  <1>7. TypeOK'
    <2>1. opens' \in [Instances -> Nat]
      BY <1>3
    <2>2. slots' \in [Players -> Instances \cup {None}]
      BY <1>4
    <2> QED BY <1>1, <2>1, <2>2 DEF IInv, TypeOK, Shutdown, environment
  <1>8. CandidateInv'
    BY <1>1 DEF CandidateInv, Shutdown
  <1> QED BY <1>5, <1>6, <1>7, <1>8 DEF IInv

\* Every step keeps the inductive invariant.
LEMMA StepInv == IInv /\ [Next]_vars => IInv'
  <1> SUFFICES ASSUME IInv, [Next]_vars PROVE IInv'
    OBVIOUS
  <1>1. CASE Environment
    BY <1>1, AttachInv, DetachInv DEF Environment
  <1>2. CASE StartReconcile
    BY <1>2, StartReconcileInv
  <1>3. CASE \E i \in Instances : OnRemoved(i)
    BY <1>3, OnRemovedInv
  <1>4. CASE ReconcileStep
    BY <1>4, EnumerateInv, ReleaseStepInv, EndReleaseInv, SkipAssignedInv, OpenNextInv,
       SeatCandidateInv, RejectCandidateInv
    DEF ReconcileStep
  <1>5. CASE FinishReconcile
    BY <1>5, FinishReconcileInv
  <1>6. CASE Shutdown
    BY <1>6, ShutdownInv
  <1>7. CASE UNCHANGED vars
    <2>1. TypeOK'
      BY <1>7 DEF IInv, TypeOK, vars
    <2>2. CandidateInv'
      BY <1>7 DEF IInv, CandidateInv, vars, Seated, FreeSlots
    <2> QED BY <1>7, <2>1, <2>2, KeepsSlots DEF IInv, vars
  <1> QED BY <1>1, <1>2, <1>3, <1>4, <1>5, <1>6, <1>7 DEF Next, Terminated

\* reconcile, release_instance and close_all keep the inductive invariant.
THEOREM SlotInvariant == Spec => []IInv
  <1> QED BY InitInv, StepInv, PTL DEF Spec

\* controller_slots.cpp: every variable keeps its type.
THEOREM SlotTypeCorrect == Spec => []TypeOK
  <1>1. IInv => TypeOK
    BY DEF IInv
  <1> QED BY <1>1, SlotInvariant, PTL

\* reconcile never seats a controller twice, however the device list changes
\* while it runs.
THEOREM NoControllerShared == Spec => []NoSharedInstance
  <1>1. IInv => NoSharedInstance
    BY DEF IInv
  <1> QED BY <1>1, SlotInvariant, PTL

\* Every SDL handle the runner holds is that of a slot or of the candidate being
\* judged, and is referenced once.
THEOREM HandlesStayBalanced == Spec => []HandlesBalanced
  <1>1. IInv => HandlesBalanced
    BY DEF IInv
  <1> QED BY <1>1, SlotInvariant, PTL

-----------------------------------------------------------------------------
(* Players keep their controllers. *)

\* Steps that leave devices, slots and events alone and do not enter the release
\* loop.
LEMMA KeepsStability ==
  ASSUME StabilityInv, UNCHANGED <<devices, seen, removals, slots>>, phase' # "release"
  PROVE  StabilityInv'
  BY DEF StabilityInv, Attached

\* Nothing is attached, removed or seated yet.
LEMMA InitStability == Init => StabilityInv
  BY DEF Init, StabilityInv, Attached

\* Instance ids are new: no event and no player speaks of the new device.
LEMMA AttachStability ==
  ASSUME IInv, StabilityInv, NEW i \in Instances, Attach(i)
  PROVE  StabilityInv'
  <1>1. devices \in Seq(Instances) /\ devices' = Append(devices, i) /\ i \notin seen
    BY DEF IInv, TypeOK, Attach
  <1>2. /\ Len(devices') = Len(devices) + 1 /\ Len(devices) \in Nat
        /\ \A k \in 1..Len(devices) : devices'[k] = devices[k]
        /\ devices'[Len(devices) + 1] = i
    BY <1>1, AppendProperties, LenProperties
  <1>3. Attached' = Attached \cup {i}
    <2>1. Attached' \subseteq Attached \cup {i}
      BY <1>2 DEF Attached
    <2>2. Attached \cup {i} \subseteq Attached'
      BY <1>2 DEF Attached
    <2> QED BY <2>1, <2>2
  <1>4. UNCHANGED <<removals, slots, phase, listing>> /\ seen' = seen \cup {i}
    BY DEF Attach
  <1>5. Attached' \subseteq seen' /\ removals' \subseteq seen' \ Attached'
    BY <1>1, <1>3, <1>4 DEF StabilityInv
  <1>6. \A j, k \in 1..Len(devices') : j # k => devices'[j] # devices'[k]
    <2>1. \A k \in 1..Len(devices) : devices[k] # i
      BY <1>1 DEF StabilityInv, Attached
    <2> QED BY <1>2, <2>1 DEF StabilityInv
  <1>7. \A p \in Players : slots'[p] # None => slots'[p] \in seen'
    BY <1>4 DEF StabilityInv
  <1>8. phase' = "release" => \A p \in Players : slots'[p] \in Attached' => slots'[p] \in Listed'
    <2>1. \A p \in Players : slots[p] # i
      BY <1>1, ConstantsAssumption DEF StabilityInv
    <2> QED BY <1>3, <1>4, <2>1 DEF StabilityInv, Listed
  <1> QED BY <1>5, <1>6, <1>7, <1>8 DEF StabilityInv

\* The list closes up behind the device that went; nobody else has its id.
LEMMA DetachStability ==
  ASSUME IInv, StabilityInv, NEW k \in 1..Len(devices), Detach(k)
  PROVE  StabilityInv'
  <1> DEFINE old(j) == IF j < k THEN j ELSE j + 1
  <1>1. Len(devices) \in Nat /\ k \in Nat /\ Len(devices) - 1 \in Nat
    BY LenProperties DEF IInv, TypeOK
  <1>2. devices' = [j \in 1..(Len(devices) - 1) |-> devices[old(j)]]
    BY DEF Detach
  <1>3. Len(devices') = Len(devices) - 1
    <2>1. devices' \in Seq(Instances)
      BY DetachInv DEF IInv, TypeOK
    <2>2. DOMAIN devices' = 1..(Len(devices) - 1)
      BY <1>2
    <2> QED BY <1>1, <2>1, <2>2, LenProperties
  <1>4. \A j \in 1..(Len(devices) - 1) : old(j) \in 1..Len(devices) /\ old(j) # k
    BY <1>1
  <1>5. \A i, j \in 1..(Len(devices) - 1) : i # j => old(i) # old(j)
    BY <1>1
  <1>6. \A j \in 1..(Len(devices) - 1) : devices'[j] = devices[old(j)]
    BY <1>2
  <1> HIDE DEF old
  <1>7. Attached' \subseteq Attached \ {devices[k]}
    <2> SUFFICES ASSUME NEW j \in 1..(Len(devices) - 1)
                 PROVE  devices'[j] \in Attached \ {devices[k]}
      BY <1>3 DEF Attached
    <2>1. devices'[j] = devices[old(j)] /\ old(j) \in 1..Len(devices) /\ old(j) # k
      BY <1>4, <1>6
    <2> QED BY <2>1 DEF StabilityInv, Attached
  <1>8. UNCHANGED <<seen, slots, phase, listing>> /\ removals' = removals \cup {devices[k]}
    BY DEF Detach
  <1>9. Attached' \subseteq seen' /\ removals' \subseteq seen' \ Attached'
    BY <1>7, <1>8 DEF StabilityInv, Attached
  <1>10. \A i, j \in 1..Len(devices') : i # j => devices'[i] # devices'[j]
    <2> SUFFICES ASSUME NEW i \in 1..(Len(devices) - 1), NEW j \in 1..(Len(devices) - 1), i # j
                 PROVE  devices'[i] # devices'[j]
      BY <1>3
    <2> QED BY <1>4, <1>5, <1>6 DEF StabilityInv
  <1>11. \A p \in Players : slots'[p] # None => slots'[p] \in seen'
    BY <1>8 DEF StabilityInv
  <1>12. phase' = "release" => \A p \in Players : slots'[p] \in Attached' => slots'[p] \in Listed'
    BY <1>7, <1>8 DEF StabilityInv, Listed
  <1> QED BY <1>9, <1>10, <1>11, <1>12 DEF StabilityInv

\* Whatever index is preferred, every device is enumerated.
LEMMA EveryDeviceIsListed ==
  ASSUME TypeOK, Enumerate
  PROVE  Attached \subseteq Listed'
  <1> SUFFICES ASSUME NEW k \in 1..Len(devices)
               PROVE  devices[k] \in Listed'
    BY DEF Attached
  <1>1. Len(devices) \in Nat /\ k \in Nat /\ PreferredIndex \in Nat \ {0}
    BY ConstantsAssumption, LenProperties DEF TypeOK
  <1>2. PICK j \in 1..Len(devices) : RankedIndex(j) = k
    <2>1. CASE PreferredIndex > Len(devices) \/ k > PreferredIndex
      <3>1. RankedIndex(k) = k
        BY <2>1 DEF RankedIndex
      <3> QED BY <3>1
    <2>2. CASE k = PreferredIndex
      <3>1. 1 \in 1..Len(devices) /\ RankedIndex(1) = k
        BY <1>1, <2>2 DEF RankedIndex
      <3> QED BY <3>1
    <2>3. CASE PreferredIndex <= Len(devices) /\ k < PreferredIndex
      <3>1. k + 1 \in 1..Len(devices) /\ RankedIndex(k + 1) = k
        BY <1>1, <2>3 DEF RankedIndex
      <3> QED BY <3>1
    <2> QED BY <1>1, <2>1, <2>2, <2>3
  <1>3. listing' = Enumeration
    BY DEF Enumerate
  <1>4. DOMAIN listing' = 1..Len(devices) /\ listing'[j].instance = devices[k]
    BY <1>2, <1>3 DEF Enumeration
  <1>5. Len(listing') = Len(devices)
    BY <1>1, <1>3 DEF Enumeration
  <1> QED BY <1>4, <1>5 DEF Listed

\* A pass begins its release loop with every attached device listed.
LEMMA EnumerateStability ==
  ASSUME IInv, StabilityInv, Enumerate
  PROVE  StabilityInv'
  <1>1. Attached \subseteq Listed'
    BY EveryDeviceIsListed DEF IInv
  <1>2. UNCHANGED <<devices, seen, removals, slots>>
    BY DEF Enumerate, environment
  <1> QED BY <1>1, <1>2 DEF StabilityInv, Attached

\* Giving up slots is always in order.
LEMMA GivingUp ==
  ASSUME StabilityInv, UNCHANGED <<devices, seen, phase, listing>>,
         removals' \subseteq removals, None \notin Attached,
         \A p \in Players : slots'[p] \in {slots[p], None}
  PROVE  StabilityInv'
  <1>1. Attached' = Attached /\ Listed' = Listed
    BY DEF Attached, Listed
  <1>2. Attached' \subseteq seen' /\ removals' \subseteq seen' \ Attached'
    BY <1>1 DEF StabilityInv
  <1>3. \A j, k \in 1..Len(devices') : j # k => devices'[j] # devices'[k]
    BY DEF StabilityInv
  <1>4. \A p \in Players : slots'[p] # None => slots'[p] \in seen'
    BY DEF StabilityInv
  <1>5. phase' = "release" => \A p \in Players : slots'[p] \in Attached' => slots'[p] \in Listed'
    BY <1>1 DEF StabilityInv
  <1> QED BY <1>2, <1>3, <1>4, <1>5 DEF StabilityInv

\* A new player had an attached device.
LEMMA SeatStability ==
  ASSUME IInv, StabilityInv, SeatCandidate
  PROVE  StabilityInv'
  <1>1. candidate \in seen /\ UNCHANGED <<devices, seen, removals>> /\ phase' = "assign"
    BY DEF SeatCandidate, Accepted, StabilityInv, environment
  <1> DEFINE free == FirstFree
  <1>2. slots' = [slots EXCEPT ![free] = candidate] /\ slots \in [Players -> Instances \cup {None}]
    BY DEF SeatCandidate, IInv, TypeOK
  <1> HIDE DEF free
  <1>3. \A p \in Players : slots'[p] # None => slots'[p] \in seen'
    BY <1>1, <1>2 DEF StabilityInv
  <1> QED BY <1>1, <1>3 DEF StabilityInv, Attached

LEMMA StabilityStep == IInv /\ StabilityInv /\ [Next]_vars => StabilityInv'
  <1> SUFFICES ASSUME IInv, StabilityInv, [Next]_vars PROVE StabilityInv'
    OBVIOUS
  <1>1. CASE Environment
    BY <1>1, AttachStability, DetachStability DEF Environment
  <1>2. CASE StartReconcile
    BY <1>2, KeepsStability DEF StartReconcile, environment
  <1>3. ASSUME NEW i \in Instances, OnRemoved(i) PROVE StabilityInv'
    <2>1. UNCHANGED <<devices, seen>> /\ phase' = "enumerate" /\ removals' \subseteq removals
      BY <1>3 DEF OnRemoved
    <2>2. \A p \in Players : slots'[p] \in {slots[p], None}
      BY <1>3 DEF OnRemoved
    <2> QED BY <2>1, <2>2 DEF StabilityInv, Attached
  <1>4. CASE ReconcileStep
    <2>1. CASE Enumerate
      BY <2>1, EnumerateStability
    <2>2. CASE ReleaseStep
      <3>1. UNCHANGED <<devices, seen, removals, phase, listing>>
        BY <2>2 DEF ReleaseStep, environment
      <3>2. \A p \in Players : slots'[p] \in {slots[p], None}
        BY <2>2 DEF ReleaseStep, IInv, TypeOK
      <3>3. None \notin Attached
        BY AttachedInstances, ConstantsAssumption DEF IInv
      <3> QED BY <3>1, <3>2, <3>3, GivingUp
    <2>3. CASE EndRelease
      BY <2>3, KeepsStability DEF EndRelease, environment
    <2>4. CASE SkipAssigned
      BY <2>4, KeepsStability DEF SkipAssigned, environment
    <2>5. CASE OpenNext
      BY <2>5, KeepsStability DEF OpenNext, environment
    <2>6. CASE SeatCandidate
      BY <2>6, SeatStability
    <2>7. CASE RejectCandidate
      BY <2>7, KeepsStability DEF RejectCandidate, environment
    <2> QED BY <1>4, <2>1, <2>2, <2>3, <2>4, <2>5, <2>6, <2>7 DEF ReconcileStep
  <1>5. CASE FinishReconcile
    BY <1>5, KeepsStability DEF FinishReconcile, environment
  <1>6. CASE Shutdown
    <2>1. UNCHANGED <<devices, seen, removals, phase, listing>>
      BY <1>6 DEF Shutdown, environment
    <2>2. \A p \in Players : slots'[p] \in {slots[p], None}
      BY <1>6 DEF Shutdown
    <2>3. None \notin Attached
      BY AttachedInstances, ConstantsAssumption DEF IInv
    <2> QED BY <2>1, <2>2, <2>3, GivingUp
  <1>7. CASE UNCHANGED vars
    BY <1>7 DEF vars, StabilityInv, Attached, Listed
  <1> QED BY <1>1, <1>2, <1>3, <1>4, <1>5, <1>6, <1>7 DEF Next, Terminated

\* What one step may do to the players.
LEMMA NobodyIsDisplaced ==
  ASSUME IInv, StabilityInv, [Next]_vars, NEW p \in Players,
         slots[p] # None, slots'[p] # slots[p]
  PROVE  slots[p] \notin Attached \/ ~running'
  <1>1. CASE Environment
    BY <1>1 DEF Environment, Attach, Detach
  <1>2. CASE StartReconcile
    BY <1>2 DEF StartReconcile
  <1>3. ASSUME NEW i \in Instances, OnRemoved(i) PROVE slots[p] \notin Attached
    <2>1. slots[p] = i
      BY <1>3 DEF OnRemoved
    <2> QED BY <1>3, <2>1 DEF OnRemoved, StabilityInv
  <1>4. CASE ReconcileStep
    <2>1. CASE ReleaseStep
      <3>1. p = cursor /\ ~StillValid(slots[p]) /\ phase = "release"
        BY <2>1 DEF ReleaseStep, IInv, TypeOK
      <3> QED BY <3>1 DEF StillValid, StabilityInv
    <2>2. CASE SeatCandidate
      <3>1. FirstFree # p
        BY FirstFreeIsFree, <2>2 DEF SeatCandidate, IInv, CandidateInv, FreeSlots
      <3> DEFINE free == FirstFree
      <3>2. slots' = [slots EXCEPT ![free] = candidate] /\ free # p
        BY <2>2, <3>1 DEF SeatCandidate
      <3> HIDE DEF free
      <3> QED BY <3>2 DEF IInv, TypeOK
    <2> QED BY <1>4, <2>1, <2>2
        DEF ReconcileStep, Enumerate, EndRelease, SkipAssigned, OpenNext, RejectCandidate
  <1>5. CASE FinishReconcile
    BY <1>5 DEF FinishReconcile
  <1>6. CASE Shutdown
    BY <1>6 DEF Shutdown
  <1> QED BY <1>1, <1>2, <1>3, <1>4, <1>5, <1>6 DEF Next, Terminated, vars

\* ControllerSlots::reconcile: a player loses its controller only when that is
\* detached or the program ends, whatever is plugged in, preferred or
\* enumerated first and whenever an event is delivered.
THEOREM PlayersStay == Spec => SlotsAreStable
  <1>1. IInv /\ StabilityInv /\ [Next]_vars =>
          [\A p \in Players :
             slots[p] # None /\ slots'[p] # slots[p] => slots[p] \notin Attached \/ ~running']_vars
    BY NobodyIsDisplaced
  <1>2. Spec => []StabilityInv
    <2>1. Init => StabilityInv
      BY InitStability
    <2>2. IInv /\ StabilityInv /\ [Next]_vars => StabilityInv'
      BY StabilityStep
    <2> QED BY <2>1, <2>2, SlotInvariant, PTL DEF Spec
  <1> QED BY <1>1, <1>2, SlotInvariant, PTL DEF Spec, SlotsAreStable

-----------------------------------------------------------------------------
(* ControllerHandoff: sequences of blocks. *)

Blocks == {TRUE, FALSE, AttachBlock}

\* A sequence keeps its last element behind its head.
LEMMA LastOfTail ==
  ASSUME NEW S, NEW s \in Seq(S), s # <<>>, Tail(s) # <<>>
  PROVE  Tail(s)[Len(Tail(s))] = s[Len(s)]
  <1>1. Len(s) \in Nat /\ Len(s) # 0 /\ Len(Tail(s)) = Len(s) - 1
    BY EmptySeq, HeadTailProperties, LenProperties
  <1>2. Tail(s) \in Seq(S) /\ Len(Tail(s)) # 0
    BY HeadTailProperties, EmptySeq
  <1>3. Len(s) - 1 \in 1..(Len(s) - 1)
    BY <1>1, <1>2
  <1>4. \A i \in 1..Len(Tail(s)) : Tail(s)[i] = s[i + 1]
    BY HeadTailProperties
  <1> QED BY <1>1, <1>3, <1>4

\* A sequence whose tail is empty has its head only.
LEMMA LastIsHead ==
  ASSUME NEW S, NEW s \in Seq(S), s # <<>>, Tail(s) = <<>>
  PROVE  Head(s) = s[Len(s)]
  <1>1. Len(s) \in Nat /\ Len(Tail(s)) = Len(s) - 1 /\ Head(s) = s[1]
    BY HeadTailProperties, LenProperties
  <1>2. Len(Tail(s)) = 0
    BY EmptySeq
  <1>3. Len(s) = 1
    BY <1>1, <1>2
  <1> QED BY <1>1, <1>3

\* What was appended is last.
LEMMA LastOfAppend ==
  ASSUME NEW S, NEW s \in Seq(S), NEW e \in S
  PROVE  /\ Append(s, e) \in Seq(S) /\ Append(s, e) # <<>>
         /\ Append(s, e)[Len(Append(s, e))] = e
  <1>1. /\ Append(s, e) \in Seq(S) /\ Len(Append(s, e)) = Len(s) + 1 /\ Len(s) \in Nat
        /\ Append(s, e)[Len(s) + 1] = e
    BY AppendProperties, LenProperties
  <1>2. Append(s, e) # <<>>
    BY <1>1, EmptySeq
  <1> QED BY <1>1, <1>2

-----------------------------------------------------------------------------

\* Nothing has been reported yet.
LEMMA InitHandoff == HandoffInit => HandoffInv
  <1> SUFFICES ASSUME HandoffInit PROVE HandoffInv
    OBVIOUS
  <1>1. HandoffTypeOK
    BY EmptySeq DEF HandoffInit, HandoffTypeOK
  <1>2. ReportInv
    BY DEF HandoffInit, ReportInv
  <1>3. QueueInv
    BY DEF HandoffInit, QueueInv
  <1> QED BY <1>1, <1>2, <1>3 DEF HandoffInv

\* A pass does not begin while a report is under way.
LEMMA SlotStepHandoff ==
  ASSUME HandoffInv, SlotStep
  PROVE  HandoffInv'
  <1>1. UNCHANGED <<connected, reported, reporting, stored, mainQueue, overlay>>
    BY DEF SlotStep, handoff
  <1>2. HandoffTypeOK' /\ QueueInv'
    BY <1>1 DEF HandoffInv, HandoffTypeOK, QueueInv
  <1>3. reporting # "no" => phase' = "idle"
    <2>1. CASE Environment
      BY <2>1 DEF Environment, Attach, Detach, HandoffInv, ReportInv
    <2>2. CASE HostFree
      BY <2>2 DEF HostFree
    <2>3. CASE ReconcileStep
      <3>1. phase # "idle"
        BY <2>3 DEF ReconcileStep, Enumerate, ReleaseStep, EndRelease, SkipAssigned, OpenNext,
                    SeatCandidate, RejectCandidate
      <3> QED BY <3>1 DEF HandoffInv, ReportInv
    <2> QED BY <2>1, <2>2, <2>3 DEF SlotStep
  <1>4. ReportInv'
    BY <1>1, <1>3 DEF HandoffInv, ReportInv
  <1> QED BY <1>2, <1>4 DEF HandoffInv

\* A pass that changed nothing leaves no report, the other begins one.
LEMMA PassEndsHandoff ==
  ASSUME HandoffInv, PassEnds
  PROVE  HandoffInv'
  <1>1. reporting = "no"
    BY DEF PassEnds, FinishReconcile, AssignDone, HandoffInv, ReportInv
  <1>2. connected' \in BOOLEAN /\ reported' = connected' /\ reported' # Unset
    BY HandoffAssumption DEF PassEnds
  <1>3. UNCHANGED <<stored, mainQueue, overlay>> /\ phase' = "idle"
    BY DEF PassEnds, FinishReconcile
  <1>4. reporting' = IF reported # reported' THEN "store" ELSE "no"
    BY <1>2 DEF PassEnds
  <1>5. HandoffTypeOK'
    <2>1. reporting' \in {"no", "store", "dispatch"}
      BY <1>4
    <2>2. reported' \in {TRUE, FALSE, Unset}
      BY <1>2
    <2> QED BY <1>2, <1>3, <2>1, <2>2 DEF HandoffInv, HandoffTypeOK
  <1>6. ReportInv'
    BY <1>1, <1>2, <1>3, <1>4 DEF HandoffInv, ReportInv
  <1>7. QueueInv'
    BY <1>1, <1>2, <1>3, <1>4 DEF HandoffInv, QueueInv
  <1> QED BY <1>5, <1>6, <1>7 DEF HandoffInv

LEMMA StoreConnectedHandoff ==
  ASSUME HandoffInv, StoreConnected
  PROVE  HandoffInv'
  <1>1. HandoffTypeOK'
    BY DEF StoreConnected, HandoffInv, HandoffTypeOK
  <1>2. ReportInv'
    BY DEF StoreConnected, vars, HandoffInv, ReportInv
  <1>3. QueueInv'
    BY DEF StoreConnected, HandoffInv, QueueInv
  <1> QED BY <1>1, <1>2, <1>3 DEF HandoffInv

\* The dispatched block is the last one and carries the report.
LEMMA DispatchConnectedHandoff ==
  ASSUME HandoffInv, DispatchConnected
  PROVE  HandoffInv'
  <1>1. /\ reporting = "dispatch" /\ reporting' = "no"
        /\ mainQueue' = Append(mainQueue, connected)
        /\ UNCHANGED <<connected, reported, stored, overlay, phase>>
    BY DEF DispatchConnected, vars
  <1>2. mainQueue \in Seq(Blocks) /\ connected \in Blocks
    BY DEF HandoffInv, HandoffTypeOK, Blocks
  <1>3. /\ mainQueue' \in Seq(Blocks) /\ mainQueue' # <<>>
        /\ mainQueue'[Len(mainQueue')] = connected
    BY <1>1, <1>2, LastOfAppend
  <1>4. HandoffTypeOK'
    BY <1>1, <1>3 DEF HandoffInv, HandoffTypeOK, Blocks
  <1>5. ReportInv'
    BY <1>1 DEF HandoffInv, ReportInv
  <1>6. reported # Unset /\ connected = reported
    BY <1>1 DEF HandoffInv, ReportInv
  <1>7. QueueInv'
    BY <1>1, <1>3, <1>6 DEF QueueInv
  <1> QED BY <1>4, <1>5, <1>7 DEF HandoffInv

\* The block that creates the overlay is only posted between two reports.
LEMMA RequestOverlayHandoff ==
  ASSUME HandoffInv, RequestOverlay
  PROVE  HandoffInv'
  <1>1. /\ reported # Unset /\ mainQueue' = Append(mainQueue, AttachBlock)
        /\ UNCHANGED <<connected, reported, reporting, stored, overlay, phase>>
    BY DEF RequestOverlay, vars
  <1>2. mainQueue \in Seq(Blocks) /\ AttachBlock \in Blocks
    BY DEF HandoffInv, HandoffTypeOK, Blocks
  <1>3. /\ mainQueue' \in Seq(Blocks) /\ mainQueue' # <<>>
        /\ mainQueue'[Len(mainQueue')] = AttachBlock
    BY <1>1, <1>2, LastOfAppend
  <1>4. HandoffTypeOK'
    BY <1>1, <1>3 DEF HandoffInv, HandoffTypeOK, Blocks
  <1>5. ReportInv'
    BY <1>1 DEF HandoffInv, ReportInv
  <1>6. QueueInv'
    BY <1>1, <1>3 DEF QueueInv
  <1> QED BY <1>4, <1>5, <1>6 DEF HandoffInv

\* The last block to run leaves the overlay with the report.
LEMMA RunMainBlockHandoff ==
  ASSUME HandoffInv, RunMainBlock
  PROVE  HandoffInv'
  <1>1. /\ mainQueue # <<>> /\ mainQueue' = Tail(mainQueue)
        /\ UNCHANGED <<connected, reported, reporting, stored, phase>>
    BY DEF RunMainBlock, vars
  <1>2. mainQueue \in Seq(Blocks)
    BY DEF HandoffInv, HandoffTypeOK, Blocks
  <1>3. Head(mainQueue) \in Blocks /\ mainQueue' \in Seq(Blocks)
    BY <1>1, <1>2, HeadTailProperties
  <1>4. overlay' = IF Head(mainQueue) = AttachBlock THEN stored
                   ELSE IF overlay = Unset THEN Unset ELSE Head(mainQueue)
    BY DEF RunMainBlock
  <1>5. overlay' \in {TRUE, FALSE, Unset}
    BY <1>3, <1>4 DEF HandoffInv, HandoffTypeOK, Blocks
  <1>6. HandoffTypeOK'
    BY <1>1, <1>3, <1>5 DEF HandoffInv, HandoffTypeOK, Blocks
  <1>7. ReportInv'
    BY <1>1 DEF HandoffInv, ReportInv
  <1>8. reported # Unset
    BY <1>1 DEF HandoffInv, QueueInv
  <1>9. ASSUME reporting = "no", mainQueue' = <<>> PROVE overlay' \in {Unset, reported}
    <2>1. Head(mainQueue) = mainQueue[Len(mainQueue)]
      BY <1>1, <1>2, <1>9, LastIsHead
    <2>2. Head(mainQueue) \in {AttachBlock, reported}
      BY <1>1, <1>9, <2>1 DEF HandoffInv, QueueInv
    <2>3. stored = reported
      BY <1>8, <1>9 DEF HandoffInv, ReportInv
    <2> QED BY <1>4, <2>2, <2>3
  <1>10. ASSUME reporting = "no", mainQueue' # <<>>
         PROVE  mainQueue'[Len(mainQueue')] \in {AttachBlock, reported}
    <2>1. mainQueue'[Len(mainQueue')] = mainQueue[Len(mainQueue)]
      BY <1>1, <1>2, <1>10, LastOfTail
    <2> QED BY <1>1, <1>10, <2>1 DEF HandoffInv, QueueInv
  <1>11. QueueInv'
    BY <1>1, <1>8, <1>9, <1>10 DEF QueueInv
  <1> QED BY <1>6, <1>7, <1>11 DEF HandoffInv

LEMMA HandoffStep == HandoffInv /\ [HandoffNext]_allVars => HandoffInv'
  <1> SUFFICES ASSUME HandoffInv, [HandoffNext]_allVars PROVE HandoffInv'
    OBVIOUS
  <1>1. CASE UNCHANGED allVars
    BY <1>1 DEF allVars, handoff, vars, HandoffInv, HandoffTypeOK, ReportInv, QueueInv
  <1> QED BY <1>1, SlotStepHandoff, PassEndsHandoff, StoreConnectedHandoff,
             DispatchConnectedHandoff, RequestOverlayHandoff, RunMainBlockHandoff
          DEF HandoffNext

\* reconcile_controllers, SnapPad_SetPhysicalControllerConnected and
\* snappad_touch_attach: once the main queue has run dry an overlay that exists
\* has the last report, whatever the order of report and creation.
THEOREM OverlayIsUpToDate == HandoffSpec => []OverlayCaughtUp
  <1>1. HandoffInv => OverlayCaughtUp
    BY DEF HandoffInv, QueueInv, OverlayCaughtUp
  <1>2. HandoffSpec => []HandoffInv
    BY InitHandoff, HandoffStep, PTL DEF HandoffSpec
  <1> QED BY <1>1, <1>2, PTL

\* The runner's reports do not get in the way of the slots: every behaviour of
\* the composition is one of ControllerSlots, so its theorems hold here as well.
THEOREM HandoffKeepsSlots == HandoffSpec => Spec
  <1>1. HandoffInit => Init
    BY DEF HandoffInit
  <1>2. [HandoffNext]_allVars => [Next]_vars
    <2> SUFFICES ASSUME [HandoffNext]_allVars PROVE [Next]_vars
      OBVIOUS
    <2>1. CASE SlotStep
      BY <2>1 DEF SlotStep, Next
    <2>2. CASE PassEnds
      BY <2>2 DEF PassEnds, Next
    <2>3. CASE UNCHANGED vars
      BY <2>3
    <2>4. UNCHANGED allVars => UNCHANGED vars
      BY DEF allVars
    <2> QED BY <2>1, <2>2, <2>3, <2>4
        DEF HandoffNext, StoreConnected, DispatchConnected, RequestOverlay, RunMainBlock
  <1> QED BY <1>1, <1>2, PTL DEF HandoffSpec, Spec

\* The runner and the overlay together: no controller plays for two players, every
\* handle has its owner, and nobody loses a slot to a report.
THEOREM HandoffIsSafe ==
  HandoffSpec => /\ [](NoSharedInstance /\ HandlesBalanced /\ OverlayCaughtUp)
                 /\ SlotsAreStable
  <1> QED BY HandoffKeepsSlots, NoControllerShared, HandlesStayBalanced, PlayersStay,
             OverlayIsUpToDate, PTL

=============================================================================
