------------------------------ MODULE TapLatch ------------------------------
(***************************************************************************)
(* The lock-free tap latch: SnapPadTouchTapLatch (touch_tap_latch.h), with *)
(* the UIKit main thread as producer and the game's input callback as      *)
(* consumer.  keyboard_tap_latches in snappad_runner.cpp is the same       *)
(* algorithm with the SDL event loop as producer and four polls per tap.   *)
(*                                                                         *)
(* Every access to an atomic counter is a step.  A failed                  *)
(* compare_exchange_weak reloads the counter; a spurious failure leaves    *)
(* everything as it was and is a stuttering step.                          *)
(***************************************************************************)
EXTENDS Integers

CONSTANTS
  NumButtons, \* counters_.size()
  MaxPolls,   \* the largest number of polls one tap asks for
  TapBound    \* bound on the taps of a run, per button

ASSUME LatchAssumption ==
  /\ NumButtons \in Nat \ {0}
  /\ MaxPolls \in Nat \ {0}
  /\ TapBound \in Nat

Buttons == 1..NumButtons

VARIABLES
  counters,  \* counters_: polls that will still see the button
  pOp,       \* producer: idle, in extend before the load or at the CAS, in clear
  pMask,     \* producer: the buttons of the call
  pPolls,    \* producer: argument of extend
  pBit,      \* producer: loop index
  pCurrent,  \* producer: its copy of the counter
  cBit,      \* consumer: loop index, 0 between two consume() calls
  cAt,       \* consumer: before the load of that counter or at the CAS
  cCurrent,  \* consumer: its copy
  delivered, \* history: polls that reported the button
  granted,   \* history: polls asked for, less those a clear took back
  owed,      \* history: buttons with a tap no poll has reported yet
  taps       \* history: extend calls, to bound a run

producer == <<pOp, pMask, pPolls, pBit, pCurrent>>
consumer == <<cBit, cAt, cCurrent>>
history  == <<delivered, granted, owed, taps>>
vars == <<counters, producer, consumer, history>>

Init ==
  /\ counters = [b \in Buttons |-> 0]
  /\ pOp = "idle" /\ pMask = {} /\ pPolls = 1 /\ pBit = 1 /\ pCurrent = 0
  /\ cBit = 0 /\ cAt = "load" /\ cCurrent = 0
  /\ delivered = [b \in Buttons |-> 0]
  /\ granted = [b \in Buttons |-> 0]
  /\ owed = {}
  /\ taps = 0

-----------------------------------------------------------------------------
(* The producer. *)

\* extend(mask, polls) is called.
Extend(mask, polls) ==
  /\ pOp = "idle" /\ taps < TapBound
  /\ pOp' = "load" /\ pMask' = mask /\ pPolls' = polls /\ pBit' = 1
  /\ granted' = [b \in Buttons |-> granted[b] + (IF b \in mask THEN polls ELSE 0)]
  /\ owed' = owed \cup mask
  /\ taps' = taps + 1
  /\ UNCHANGED <<counters, pCurrent, consumer, delivered>>

\* clear(mask); clearAll() passes every button.
Clear(mask) ==
  /\ pOp = "idle"
  /\ pOp' = "clear" /\ pMask' = mask /\ pBit' = 1
  /\ UNCHANGED <<counters, pPolls, pCurrent, consumer, history>>

\* The loop of either call is past its last counter.
Return ==
  /\ pOp \in {"load", "clear"} /\ pBit > NumButtons
  /\ pOp' = "idle"
  /\ UNCHANGED <<counters, pMask, pPolls, pBit, pCurrent, consumer, history>>

SkipButton ==
  /\ pOp \in {"load", "clear"} /\ pBit \in Buttons \ pMask
  /\ pBit' = pBit + 1
  /\ UNCHANGED <<counters, pOp, pMask, pPolls, pCurrent, consumer, history>>

\* The counter is read; one that is large enough is left alone.
ExtendLoad ==
  /\ pOp = "load" /\ pBit \in pMask
  /\ pCurrent' = counters[pBit]
  /\ IF pCurrent' < pPolls
     THEN pOp' = "cas" /\ UNCHANGED pBit
     ELSE pBit' = pBit + 1 /\ UNCHANGED pOp
  /\ UNCHANGED <<counters, pMask, pPolls, consumer, history>>

ExtendCas ==
  /\ pOp = "cas"
  /\ IF counters[pBit] = pCurrent
     THEN /\ counters' = [counters EXCEPT ![pBit] = pPolls]
          /\ pOp' = "load" /\ pBit' = pBit + 1
          /\ UNCHANGED pCurrent
     ELSE /\ pCurrent' = counters[pBit]
          /\ IF pCurrent' < pPolls
             THEN UNCHANGED <<pOp, pBit>>
             ELSE pOp' = "load" /\ pBit' = pBit + 1
          /\ UNCHANGED counters
  /\ UNCHANGED <<pMask, pPolls, consumer, history>>

\* Slip: clear forgets its mask and zeroes every counter.
MutClearStore ==
  /\ pOp = "clear" /\ pBit \in Buttons
  /\ counters' = [counters EXCEPT ![pBit] = 0]
  /\ granted' = [granted EXCEPT ![pBit] = delivered[pBit]]
  /\ owed' = owed \ ({pBit} \cap pMask)
  /\ pBit' = pBit + 1
  /\ UNCHANGED <<pOp, pMask, pPolls, pCurrent, consumer, delivered, taps>>

ClearStore ==
  /\ pOp = "clear" /\ pBit \in pMask
  /\ counters' = [counters EXCEPT ![pBit] = 0]
  /\ granted' = [granted EXCEPT ![pBit] = delivered[pBit]]
  /\ owed' = owed \ {pBit}
  /\ pBit' = pBit + 1
  /\ UNCHANGED <<pOp, pMask, pPolls, pCurrent, consumer, delivered, taps>>

-----------------------------------------------------------------------------
(* The consumer: consume(). *)

StartConsume ==
  /\ cBit = 0
  /\ cBit' = 1 /\ cAt' = "load"
  /\ UNCHANGED <<counters, producer, cCurrent, history>>

ConsumeLoad ==
  /\ cBit \in Buttons /\ cAt = "load"
  /\ cCurrent' = counters[cBit]
  /\ IF cCurrent' # 0
     THEN cAt' = "cas" /\ UNCHANGED cBit
     ELSE cBit' = cBit + 1 /\ UNCHANGED cAt
  /\ UNCHANGED <<counters, producer, history>>

\* Slip: a plain decrement of the loaded value.
MutConsumeCas ==
  /\ cBit \in Buttons /\ cAt = "cas"
  /\ counters' = [counters EXCEPT ![cBit] = cCurrent - 1]
  /\ delivered' = [delivered EXCEPT ![cBit] = @ + 1]
  /\ owed' = owed \ {cBit}
  /\ cBit' = cBit + 1 /\ cAt' = "load"
  /\ UNCHANGED <<producer, cCurrent, granted, taps>>

\* Slip: fetch_sub without looking at the value again.
MutConsumeUnderflow ==
  /\ cBit \in Buttons /\ cAt = "cas"
  /\ counters' = [counters EXCEPT ![cBit] = @ - 1]
  /\ delivered' = [delivered EXCEPT ![cBit] = @ + 1]
  /\ owed' = owed \ {cBit}
  /\ cBit' = cBit + 1 /\ cAt' = "load"
  /\ UNCHANGED <<producer, cCurrent, granted, taps>>

ConsumeCas ==
  /\ cBit \in Buttons /\ cAt = "cas"
  /\ IF counters[cBit] = cCurrent
     THEN /\ counters' = [counters EXCEPT ![cBit] = @ - 1]
          /\ delivered' = [delivered EXCEPT ![cBit] = @ + 1]
          /\ owed' = owed \ {cBit}
          /\ cBit' = cBit + 1 /\ cAt' = "load"
          /\ UNCHANGED cCurrent
     ELSE /\ cCurrent' = counters[cBit]
          /\ IF cCurrent' # 0
             THEN UNCHANGED <<cBit, cAt>>
             ELSE cBit' = cBit + 1 /\ cAt' = "load"
          /\ UNCHANGED <<counters, delivered, owed>>
  /\ UNCHANGED <<producer, granted, taps>>

EndConsume ==
  /\ cBit > NumButtons
  /\ cBit' = 0
  /\ UNCHANGED <<counters, producer, cAt, cCurrent, history>>

ProducerLoop == Return \/ SkipButton \/ ExtendLoad \/ ExtendCas \/ ClearStore

ProducerStep ==
  \/ \E mask \in SUBSET Buttons :
       Clear(mask) \/ \E polls \in 1..MaxPolls : Extend(mask, polls)
  \/ ProducerLoop

ConsumerStep == StartConsume \/ ConsumeLoad \/ ConsumeCas \/ EndConsume

Next == ProducerStep \/ ConsumerStep

Spec == Init /\ [][Next]_vars

\* The game polls its input every frame, and a call of the producer, once made,
\* runs on; nobody is obliged to tap.
FairSpec == Spec /\ WF_vars(ConsumerStep) /\ WF_vars(ProducerLoop)

-----------------------------------------------------------------------------
(* Properties. *)

\* Every variable keeps its type.
TypeOK ==
  /\ counters \in [Buttons -> Nat]
  /\ pOp \in {"idle", "load", "cas", "clear"}
  /\ pMask \in SUBSET Buttons
  /\ pPolls \in 1..MaxPolls
  /\ pBit \in 1..(NumButtons + 1)
  /\ pCurrent \in Nat
  /\ cBit \in 0..(NumButtons + 1)
  /\ cAt \in {"load", "cas"}
  /\ cCurrent \in Nat
  /\ delivered \in [Buttons -> Nat]
  /\ granted \in [Buttons -> Nat]
  /\ owed \in SUBSET Buttons
  /\ taps \in Nat

\* The extend call in progress has not come to button b yet.
Coming(b) == pOp \in {"load", "cas"} /\ b \in pMask /\ pBit <= b

\* A tap never becomes a hold: no more polls report a button than its taps
\* asked for, and after a clear none does until the next tap ("cannot leave
\* held input").  A tap that was read as a repeat would type a character twice.
NoTapMultiplied ==
  \A b \in Buttons : delivered[b] + counters[b] <= granted[b]

\* A tap is not lost to a race with a poll: until a poll has reported it the
\* counter is up, however the two loops interleave.
NoTapLost ==
  \A b \in owed : ~Coming(b) => counters[b] > 0

\* What makes NoTapMultiplied inductive: the call in progress still has its
\* polls in reserve for every button it has not come to.
Reserve ==
  \A b \in Buttons : Coming(b) => delivered[b] + counters[b] + pPolls <= granted[b]

\* What the two loops know about their copies: an exchange is only tried with a
\* copy below the polls asked for, or with a copy that is not zero.
LoopInv ==
  /\ pOp = "cas" => pBit \in pMask /\ pCurrent < pPolls
  /\ cBit \in Buttons /\ cAt = "cas" => cCurrent > 0

\* The inductive invariant of the latch.
IInv == TypeOK /\ LoopInv /\ Reserve /\ NoTapMultiplied /\ NoTapLost

\* Every tap is reported or cleared in the end.
TapsAreSeen == \A b \in Buttons : b \in owed ~> b \notin owed

\* The loops of loads and exchanges behave as indivisible operations.
Latch == INSTANCE AtomicLatch WITH credit <- counters
ImplementsAtomicLatch == Latch!AbstractSpec
=============================================================================
