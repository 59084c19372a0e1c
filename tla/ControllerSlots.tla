-------------------------- MODULE ControllerSlots --------------------------
(***************************************************************************)
(* Player slots of the native runner: snappad::input::ControllerSlots      *)
(* (port/runtime/controller_slots.cpp) together with the SDL backend the   *)
(* runner gives it (SDLControllerBackend in snappad_runner.cpp).           *)
(*                                                                         *)
(* Two parties run: the operating system, which attaches and detaches      *)
(* controllers at any moment, and the host window thread, which reconciles *)
(* the slots with what the backend enumerates.  reconcile() calls the      *)
(* backend many times; the device list may change between two calls, so    *)
(* each backend call is a step.                                            *)
(*                                                                         *)
(* A handle is identified with the instance it was opened on.  opens[i] is *)
(* SDL's reference count: SDL_GameControllerOpen on an open controller     *)
(* returns the same handle with one reference more.                        *)
(***************************************************************************)
EXTENDS Integers, Sequences, FiniteSets

CONSTANTS
  Instances,      \* every joystick instance id the run may see; SDL never reuses one
  Unopenable,     \* instances on which SDL_GameControllerOpen always fails
  MaxPlayers,     \* ControllerSlots::max_players
  PreferredIndex, \* input_settings.preferred_controller_index, counted from 1
  None            \* no instance (-1), no handle (nullptr)

ASSUME ConstantsAssumption ==
  /\ MaxPlayers \in Nat \ {0}
  /\ PreferredIndex \in Nat \ {0}
  /\ None \notin Instances
  /\ Unopenable \subseteq Instances

VARIABLES
  devices,   \* SDL's joystick list: device_index -> instance
  seen,      \* instances that were attached at some time
  removals,  \* SDL_CONTROLLERDEVICEREMOVED events not yet polled
  slots,     \* slots_: the instance whose handle each player holds
  opens,     \* references the program holds on each instance
  phase,     \* where the host thread is
  listing,   \* controllers: what is left of the enumeration
  cursor,    \* slot_index of the release loop
  candidate, \* the handle open() just returned
  running    \* FALSE once main has closed the slots

environment == <<devices, seen, removals>>
vars == <<devices, seen, removals, slots, opens, phase, listing, cursor,
          candidate, running>>

Players  == 1..MaxPlayers
Attached == {devices[k] : k \in 1..Len(devices)}
Listed   == {listing[k].instance : k \in 1..Len(listing)}
\* Slip: the already_assigned test looks at the first player only.
MutSeated(i) == slots[1] = i

Seated(i) == \E p \in Players : slots[p] = i
FreeSlots == {p \in Players : slots[p] = None}
\* Slip: the newcomer is always given to player one.
MutFirstFree == 1

\* std::find_if over the slots: the first one without a handle.
FirstFree == CHOOSE p \in FreeSlots : \A q \in FreeSlots : p <= q

\* The order of enumerate(): the stable sort moves the preferred device_index,
\* if there is one, to the front and keeps the others in index order.
RankedIndex(k) ==
  IF PreferredIndex > Len(devices) \/ k > PreferredIndex THEN k
  ELSE IF k = 1 THEN PreferredIndex ELSE k - 1

Enumeration ==
  [k \in 1..Len(devices) |->
     [index |-> RankedIndex(k), instance |-> devices[RankedIndex(k)]]]

Init ==
  /\ devices = <<>> /\ seen = {} /\ removals = {}
  /\ slots = [p \in Players |-> None]
  /\ opens = [i \in Instances |-> 0]
  /\ phase = "idle" /\ listing = <<>> /\ cursor = 1 /\ candidate = None
  /\ running = TRUE

-----------------------------------------------------------------------------
(* The operating system. *)

Attach(i) ==
  /\ i \notin seen
  /\ devices' = Append(devices, i)
  /\ seen' = seen \cup {i}
  /\ UNCHANGED <<removals, slots, opens, phase, listing, cursor, candidate, running>>

\* The devices behind the removed one move down by one device index.
Detach(k) ==
  /\ k \in 1..Len(devices)
  /\ devices' = [j \in 1..(Len(devices) - 1) |-> devices[IF j < k THEN j ELSE j + 1]]
  /\ removals' = removals \cup {devices[k]}
  /\ UNCHANGED <<seen, slots, opens, phase, listing, cursor, candidate, running>>

-----------------------------------------------------------------------------
(* The host window thread. *)

\* reconcile_controllers(reason): start-up, added, remapped and foreground
\* events, and the once-a-second active check.
StartReconcile ==
  /\ running /\ phase = "idle"
  /\ phase' = "enumerate"
  /\ UNCHANGED <<environment, slots, opens, listing, cursor, candidate, running>>

\* A removed event: release_instance, then reconcile_controllers.
OnRemoved(i) ==
  /\ running /\ phase = "idle" /\ i \in removals
  /\ removals' = removals \ {i}
  /\ slots' = [p \in Players |-> IF slots[p] = i THEN None ELSE slots[p]]
  /\ opens' = [opens EXCEPT ![i] = @ - Cardinality({p \in Players : slots[p] = i})]
  /\ phase' = "enumerate"
  /\ UNCHANGED <<devices, seen, listing, cursor, candidate, running>>

\* enumerate() asks SDL for the length of its list and then about each device:
\* one snapshot here, as SDL changes the list when its events are pumped, which is
\* between passes.  (That it changes between two calls of the backend is allowed
\* all the same.)  A device that SDL_IsGameController refuses takes up an index and
\* gets no slot; one in Unopenable stands for it.
Enumerate ==
  /\ phase = "enumerate"
  /\ listing' = Enumeration
  /\ cursor' = 1
  /\ phase' = "release"
  /\ UNCHANGED <<environment, slots, opens, candidate, running>>

\* Slip: a slot stays valid for as long as its handle exists.
MutStillValid(i) == i # None

\* The release loop keeps a slot whose handle is still connected and listed.
StillValid(i) == i \in Attached /\ i \in Listed

\* Slip: the handle is closed, the slot is not reset.
MutReleaseStep ==
  /\ phase = "release" /\ cursor <= MaxPlayers
  /\ IF slots[cursor] # None /\ ~StillValid(slots[cursor])
     THEN opens' = [opens EXCEPT ![slots[cursor]] = @ - 1]
     ELSE UNCHANGED opens
  /\ cursor' = cursor + 1
  /\ UNCHANGED <<environment, slots, phase, listing, candidate, running>>

ReleaseStep ==
  /\ phase = "release" /\ cursor <= MaxPlayers
  /\ IF slots[cursor] # None /\ ~StillValid(slots[cursor])
     THEN /\ opens' = [opens EXCEPT ![slots[cursor]] = @ - 1]
          /\ slots' = [slots EXCEPT ![cursor] = None]
     ELSE UNCHANGED <<slots, opens>>
  /\ cursor' = cursor + 1
  /\ UNCHANGED <<environment, phase, listing, candidate, running>>

EndRelease ==
  /\ phase = "release" /\ cursor > MaxPlayers
  /\ phase' = "assign"
  /\ UNCHANGED <<environment, slots, opens, listing, cursor, candidate, running>>

SkipAssigned ==
  /\ phase = "assign" /\ listing # <<>>
  /\ Seated(Head(listing).instance)
  /\ listing' = Tail(listing)
  /\ UNCHANGED <<environment, slots, opens, phase, cursor, candidate, running>>

\* backend.open(item.device_index): the device that has that index NOW.
OpenedDevice(index) ==
  IF index > Len(devices) \/ devices[index] \in Unopenable
  THEN None ELSE devices[index]

OpenNext ==
  /\ phase = "assign" /\ listing # <<>>
  /\ ~Seated(Head(listing).instance)
  /\ FreeSlots # {}
  /\ candidate' = OpenedDevice(Head(listing).index)
  /\ opens' = [i \in Instances |-> opens[i] + (IF i = candidate' THEN 1 ELSE 0)]
  /\ phase' = "opened"
  /\ UNCHANGED <<environment, slots, listing, cursor, running>>

Accepted ==
  /\ candidate \in Attached
  /\ candidate = Head(listing).instance

SeatCandidate ==
  /\ phase = "opened" /\ Accepted
  /\ slots' = [slots EXCEPT ![FirstFree] = candidate]
  /\ candidate' = None
  /\ listing' = Tail(listing)
  /\ phase' = "assign"
  /\ UNCHANGED <<environment, opens, cursor, running>>

\* Slip: the mismatch path forgets backend.close(handle).
MutRejectUnclosed ==
  /\ phase = "opened" /\ ~Accepted
  /\ candidate' = None
  /\ listing' = Tail(listing)
  /\ phase' = "assign"
  /\ UNCHANGED <<environment, slots, opens, cursor, running>>

\* Slip: `break` where the code has `continue` after OpenFailed.
MutRejectBreaks ==
  /\ phase = "opened" /\ ~Accepted
  /\ opens' = [i \in Instances |-> opens[i] - (IF i = candidate THEN 1 ELSE 0)]
  /\ candidate' = None
  /\ listing' = <<>>
  /\ phase' = "assign"
  /\ UNCHANGED <<environment, slots, cursor, running>>

\* A handle that failed the identity check is closed; the loop continues.
RejectCandidate ==
  /\ phase = "opened" /\ ~Accepted
  /\ opens' = [i \in Instances |-> opens[i] - (IF i = candidate THEN 1 ELSE 0)]
  /\ candidate' = None
  /\ listing' = Tail(listing)
  /\ phase' = "assign"
  /\ UNCHANGED <<environment, slots, cursor, running>>

\* The list is exhausted, or its next controller finds every slot taken.
AssignDone ==
  /\ phase = "assign"
  /\ listing # <<>> => ~Seated(Head(listing).instance) /\ FreeSlots = {}

FinishReconcile ==
  /\ AssignDone
  /\ phase' = "idle" /\ listing' = <<>>
  /\ UNCHANGED <<environment, slots, opens, cursor, candidate, running>>

\* main after recomp::start returned: close_all.
Shutdown ==
  /\ running /\ phase = "idle"
  /\ running' = FALSE
  /\ opens' = [i \in Instances |-> opens[i] - Cardinality({p \in Players : slots[p] = i})]
  /\ slots' = [p \in Players |-> None]
  /\ UNCHANGED <<environment, phase, listing, cursor, candidate>>

\* The program has ended; nothing is left to reconcile.
Terminated == ~running /\ UNCHANGED vars

Environment == (\E i \in Instances : Attach(i)) \/ (\E k \in 1..Len(devices) : Detach(k))

ReconcileStep ==
  \/ Enumerate \/ ReleaseStep \/ EndRelease \/ SkipAssigned
  \/ OpenNext \/ SeatCandidate \/ RejectCandidate

Next ==
  \/ Environment
  \/ StartReconcile
  \/ \E i \in Instances : OnRemoved(i)
  \/ ReconcileStep
  \/ FinishReconcile
  \/ Shutdown
  \/ Terminated

Spec == Init /\ [][Next]_vars

\* update_gfx runs for as long as the program does and reconciles at least
\* once a second; reconcile() has no loop that waits.
FairSpec ==
  /\ Spec
  /\ WF_vars(StartReconcile)
  /\ WF_vars(ReconcileStep)
  /\ WF_vars(FinishReconcile)

-----------------------------------------------------------------------------
(* Properties. *)

\* Every variable keeps its type.
TypeOK ==
  /\ devices \in Seq(Instances)
  /\ seen \subseteq Instances /\ removals \subseteq Instances
  /\ slots \in [Players -> Instances \cup {None}]
  /\ opens \in [Instances -> Nat]
  /\ phase \in {"idle", "enumerate", "release", "assign", "opened"}
  /\ listing \in Seq([index : Nat \ {0}, instance : Instances])
  /\ cursor \in 1..(MaxPlayers + 1)
  /\ candidate \in Instances \cup {None}
  /\ running \in BOOLEAN

\* No controller drives two players, although the list is enumerated, sorted
\* and opened while devices come and go (already_assigned in reconcile).
NoSharedInstance ==
  \A p, q \in Players : p # q /\ slots[p] # None => slots[p] # slots[q]

\* Neither a leaked nor a dangling handle: the references on an instance are
\* those of the slot that holds it and of the handle being judged.
HandlesBalanced ==
  \A i \in Instances :
    opens[i] = (IF Seated(i) THEN 1 ELSE 0) + (IF candidate = i THEN 1 ELSE 0)

\* What the handle being judged relies on: while it exists the loop stands at a
\* controller that nobody has and some player is free; otherwise there is none.
CandidateInv ==
  IF phase = "opened"
  THEN listing # <<>> /\ ~Seated(Head(listing).instance) /\ FreeSlots # {}
  ELSE candidate = None

\* The inductive invariant of the slots.
IInv == TypeOK /\ NoSharedInstance /\ HandlesBalanced /\ CandidateInv

\* A removed event is about a device that is gone for good, a player had a device
\* that was attached at some time, and in the release loop every player whose
\* device is attached finds it in the listing.
StabilityInv ==
  /\ Attached \subseteq seen /\ removals \subseteq seen \ Attached
  /\ \A j, k \in 1..Len(devices) : j # k => devices[j] # devices[k]
  /\ \A p \in Players : slots[p] # None => slots[p] \in seen
  /\ phase = "release" => \A p \in Players : slots[p] \in Attached => slots[p] \in Listed

\* A player keeps the controller for as long as it is attached: whatever else
\* is plugged in, preferred or enumerated first, displaces nobody.
SlotsAreStable ==
  [][\A p \in Players :
       slots[p] # None /\ slots'[p] # slots[p] => slots[p] \notin Attached \/ ~running']_vars

\* A controller that stays attached and can be opened ends up with a player,
\* unless all players have one; a broken controller before it in the list, or
\* a change of the list during a pass, only delays it.
EventuallySeated ==
  \A i \in Instances \ Unopenable :
    <>[](running /\ i \in Attached) => <>[](Seated(i) \/ FreeSlots = {})

\* A detached controller does not keep its player for ever, whether or not
\* its removed event is delivered.
EventuallyReleased ==
  \A p \in Players, i \in Instances :
    (slots[p] = i /\ i \notin Attached) ~> (slots[p] # i \/ ~running)

=============================================================================
