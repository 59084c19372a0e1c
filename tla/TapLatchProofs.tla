--------------------------- MODULE TapLatchProofs ---------------------------
(***************************************************************************)
(* Proofs about TapLatch for every number of buttons, every number of      *)
(* polls and every run.                                                    *)
(***************************************************************************)
EXTENDS TapLatch, TLAPS

\* A button is an index of the loops.
LEMMA ButtonRange == \A b \in Buttons : b \in Nat /\ 1 <= b /\ b <= NumButtons
  BY LatchAssumption DEF Buttons

\* The inductive invariant holds of the initial state.
LEMMA InitInv == Init => IInv
  <1> SUFFICES ASSUME Init PROVE IInv
    OBVIOUS
  <1>1. TypeOK
    BY LatchAssumption DEF Init, TypeOK
  <1>2. LoopInv /\ Reserve /\ NoTapMultiplied /\ NoTapLost
    BY DEF Init, LoopInv, Reserve, NoTapMultiplied, NoTapLost, Coming, Buttons
  <1> QED BY <1>1, <1>2 DEF IInv

\* The call of extend, which takes the reserve, preserves the inductive invariant.
LEMMA ExtendInv ==
  ASSUME IInv, NEW mask \in SUBSET Buttons, NEW polls \in 1..MaxPolls, Extend(mask, polls)
  PROVE  IInv'
  <1>1. TypeOK'
    BY LatchAssumption, ButtonRange DEF IInv, TypeOK, LoopInv, Extend, consumer
  <1>2. LoopInv'
    BY ButtonRange DEF IInv, TypeOK, LoopInv, Extend, consumer
  <1>3. Reserve'
    <2> SUFFICES ASSUME NEW b \in Buttons, b \in mask
                 PROVE delivered[b] + counters[b] + polls <= granted'[b]
      BY DEF Reserve, Coming, Extend
    <2>1. granted'[b] = granted[b] + polls
      BY DEF Extend
    <2>2. delivered[b] + counters[b] <= granted[b]
      BY DEF IInv, NoTapMultiplied
    <2>3. /\ delivered[b] \in Nat /\ counters[b] \in Nat
          /\ granted[b] \in Nat /\ polls \in Nat
      BY LatchAssumption DEF IInv, TypeOK
    <2> QED BY <2>1, <2>2, <2>3
  <1>4. NoTapMultiplied'
    BY ButtonRange
    DEF IInv, TypeOK, LoopInv, Reserve, NoTapMultiplied, Coming, Extend, consumer
  <1>5. NoTapLost'
    BY ButtonRange DEF IInv, TypeOK, LoopInv, NoTapLost, Coming, Extend, consumer
  <1> QED BY <1>1, <1>2, <1>3, <1>4, <1>5 DEF IInv

\* The call of clear preserves the inductive invariant.
LEMMA ClearInv ==
  ASSUME IInv, NEW mask \in SUBSET Buttons, Clear(mask)
  PROVE  IInv'
  <1>1. TypeOK'
    BY LatchAssumption, ButtonRange DEF IInv, TypeOK, LoopInv, Clear, consumer, history
  <1>2. LoopInv'
    BY ButtonRange DEF IInv, TypeOK, LoopInv, Clear, consumer, history
  <1>3. Reserve'
    BY ButtonRange DEF IInv, TypeOK, LoopInv, Reserve, Coming, Clear, consumer, history
  <1>4. NoTapMultiplied'
    BY ButtonRange
    DEF IInv, TypeOK, LoopInv, Reserve, NoTapMultiplied, Coming, Clear, consumer, history
  <1>5. NoTapLost'
    BY ButtonRange DEF IInv, TypeOK, LoopInv, NoTapLost, Coming, Clear, consumer, history
  <1> QED BY <1>1, <1>2, <1>3, <1>4, <1>5 DEF IInv

\* The return of either call preserves the inductive invariant.
LEMMA ReturnInv == ASSUME IInv, Return PROVE IInv'
  <1>1. TypeOK'
    BY LatchAssumption, ButtonRange DEF IInv, TypeOK, LoopInv, Return, consumer, history
  <1>2. LoopInv'
    BY ButtonRange DEF IInv, TypeOK, LoopInv, Return, consumer, history
  <1>3. Reserve'
    BY ButtonRange DEF IInv, TypeOK, LoopInv, Reserve, Coming, Return, consumer, history
  <1>4. NoTapMultiplied'
    BY ButtonRange
    DEF IInv, TypeOK, LoopInv, Reserve, NoTapMultiplied, Coming, Return, consumer, history
  <1>5. NoTapLost'
    <2>1. \A b \in owed : ~(pBit <= b)
      BY LatchAssumption, ButtonRange DEF IInv, TypeOK, Return
    <2> QED BY <2>1 DEF IInv, NoTapLost, Coming, Return, history
  <1> QED BY <1>1, <1>2, <1>3, <1>4, <1>5 DEF IInv

\* Skipping a button outside the mask preserves the inductive invariant.
LEMMA SkipButtonInv == ASSUME IInv, SkipButton PROVE IInv'
  <1>1. TypeOK'
    BY LatchAssumption, ButtonRange DEF IInv, TypeOK, LoopInv, SkipButton, consumer, history
  <1>2. LoopInv'
    BY ButtonRange DEF IInv, TypeOK, LoopInv, SkipButton, consumer, history
  <1>3. Reserve'
    BY ButtonRange DEF IInv, TypeOK, LoopInv, Reserve, Coming, SkipButton, consumer, history
  <1>4. NoTapMultiplied'
    BY ButtonRange
    DEF IInv, TypeOK, LoopInv, Reserve, NoTapMultiplied, Coming, SkipButton, consumer, history
  <1>5. NoTapLost'
    BY ButtonRange DEF IInv, TypeOK, LoopInv, NoTapLost, Coming, SkipButton, consumer, history
  <1> QED BY <1>1, <1>2, <1>3, <1>4, <1>5 DEF IInv

\* The load of extend preserves the inductive invariant.
LEMMA ExtendLoadInv == ASSUME IInv, ExtendLoad PROVE IInv'
  <1>1. TypeOK'
    BY LatchAssumption, ButtonRange DEF IInv, TypeOK, LoopInv, ExtendLoad, consumer, history
  <1>2. LoopInv'
    BY ButtonRange DEF IInv, TypeOK, LoopInv, ExtendLoad, consumer, history
  <1>3. Reserve'
    BY ButtonRange DEF IInv, TypeOK, LoopInv, Reserve, Coming, ExtendLoad, consumer, history
  <1>4. NoTapMultiplied'
    BY ButtonRange
    DEF IInv, TypeOK, LoopInv, Reserve, NoTapMultiplied, Coming, ExtendLoad, consumer, history
  <1>5. NoTapLost'
    BY ButtonRange DEF IInv, TypeOK, LoopInv, NoTapLost, Coming, ExtendLoad, consumer, history
  <1> QED BY <1>1, <1>2, <1>3, <1>4, <1>5 DEF IInv

\* The exchange of extend, won or lost, preserves the inductive invariant.
LEMMA ExtendCasInv == ASSUME IInv, ExtendCas PROVE IInv'
  <1>1. TypeOK'
    BY LatchAssumption, ButtonRange DEF IInv, TypeOK, LoopInv, ExtendCas, consumer, history
  <1>2. LoopInv'
    BY ButtonRange DEF IInv, TypeOK, LoopInv, ExtendCas, consumer, history
  <1>3. Reserve'
    BY ButtonRange DEF IInv, TypeOK, LoopInv, Reserve, Coming, ExtendCas, consumer, history
  <1>4. NoTapMultiplied'
    BY ButtonRange
    DEF IInv, TypeOK, LoopInv, Reserve, NoTapMultiplied, Coming, ExtendCas, consumer, history
  <1>5. NoTapLost'
    BY ButtonRange DEF IInv, TypeOK, LoopInv, NoTapLost, Coming, ExtendCas, consumer, history
  <1> QED BY <1>1, <1>2, <1>3, <1>4, <1>5 DEF IInv

\* The store of clear, which ends what was granted, preserves the inductive invariant.
LEMMA ClearStoreInv == ASSUME IInv, ClearStore PROVE IInv'
  <1>1. TypeOK'
    BY LatchAssumption, ButtonRange DEF IInv, TypeOK, LoopInv, ClearStore, consumer
  <1>2. LoopInv'
    BY ButtonRange DEF IInv, TypeOK, LoopInv, ClearStore, consumer
  <1>3. Reserve'
    BY ButtonRange DEF IInv, TypeOK, LoopInv, Reserve, Coming, ClearStore, consumer
  <1>4. NoTapMultiplied'
    BY ButtonRange
    DEF IInv, TypeOK, LoopInv, Reserve, NoTapMultiplied, Coming, ClearStore, consumer
  <1>5. NoTapLost'
    BY ButtonRange DEF IInv, TypeOK, LoopInv, NoTapLost, Coming, ClearStore, consumer
  <1> QED BY <1>1, <1>2, <1>3, <1>4, <1>5 DEF IInv

\* The start of consume preserves the inductive invariant.
LEMMA StartConsumeInv == ASSUME IInv, StartConsume PROVE IInv'
  <1>1. TypeOK'
    BY LatchAssumption, ButtonRange DEF IInv, TypeOK, LoopInv, StartConsume, producer, history
  <1>2. LoopInv'
    BY ButtonRange DEF IInv, TypeOK, LoopInv, StartConsume, producer, history
  <1>3. Reserve'
    BY ButtonRange DEF IInv, TypeOK, LoopInv, Reserve, Coming, StartConsume, producer, history
  <1>4. NoTapMultiplied'
    BY ButtonRange
    DEF IInv, TypeOK, LoopInv, Reserve, NoTapMultiplied, Coming, StartConsume, producer, history
  <1>5. NoTapLost'
    BY ButtonRange DEF IInv, TypeOK, LoopInv, NoTapLost, Coming, StartConsume, producer, history
  <1> QED BY <1>1, <1>2, <1>3, <1>4, <1>5 DEF IInv

\* The load of consume preserves the inductive invariant.
LEMMA ConsumeLoadInv == ASSUME IInv, ConsumeLoad PROVE IInv'
  <1>1. TypeOK'
    BY LatchAssumption, ButtonRange DEF IInv, TypeOK, LoopInv, ConsumeLoad, producer, history
  <1>2. LoopInv'
    BY ButtonRange DEF IInv, TypeOK, LoopInv, ConsumeLoad, producer, history
  <1>3. Reserve'
    BY ButtonRange DEF IInv, TypeOK, LoopInv, Reserve, Coming, ConsumeLoad, producer, history
  <1>4. NoTapMultiplied'
    BY ButtonRange
    DEF IInv, TypeOK, LoopInv, Reserve, NoTapMultiplied, Coming, ConsumeLoad, producer, history
  <1>5. NoTapLost'
    BY ButtonRange DEF IInv, TypeOK, LoopInv, NoTapLost, Coming, ConsumeLoad, producer, history
  <1> QED BY <1>1, <1>2, <1>3, <1>4, <1>5 DEF IInv

\* The exchange of consume, which moves one poll from the counter to the
\* reports, preserves the inductive invariant.
LEMMA ConsumeCasInv == ASSUME IInv, ConsumeCas PROVE IInv'
  <1>1. TypeOK'
    <2>1. CASE counters[cBit] = cCurrent
      <3>1. counters[cBit] - 1 \in Nat /\ cBit + 1 \in 0..(NumButtons + 1)
        BY <2>1, LatchAssumption, ButtonRange DEF IInv, TypeOK, LoopInv, ConsumeCas
      <3>2. counters' \in [Buttons -> Nat] /\ delivered' \in [Buttons -> Nat]
        BY <2>1, <3>1 DEF IInv, TypeOK, ConsumeCas
      <3>3. /\ cBit' \in 0..(NumButtons + 1) /\ cAt' \in {"load", "cas"}
            /\ cCurrent' \in Nat /\ owed' \in SUBSET Buttons
            /\ granted' \in [Buttons -> Nat] /\ taps' \in Nat
        BY <2>1, <3>1 DEF IInv, TypeOK, ConsumeCas
      <3> QED BY <3>2, <3>3 DEF IInv, TypeOK, ConsumeCas, producer
    <2>2. CASE counters[cBit] # cCurrent
      <3>1. cBit + 1 \in 0..(NumButtons + 1)
        BY LatchAssumption, ButtonRange DEF IInv, TypeOK, ConsumeCas
      <3> QED BY <2>2, <3>1 DEF IInv, TypeOK, ConsumeCas, producer
    <2> QED BY <2>1, <2>2
  <1>2. LoopInv'
    BY ButtonRange DEF IInv, TypeOK, LoopInv, ConsumeCas, producer
  <1>3. Reserve'
    BY ButtonRange DEF IInv, TypeOK, LoopInv, Reserve, Coming, ConsumeCas, producer
  <1>4. NoTapMultiplied'
    BY ButtonRange
    DEF IInv, TypeOK, LoopInv, Reserve, NoTapMultiplied, Coming, ConsumeCas, producer
  <1>5. NoTapLost'
    BY ButtonRange DEF IInv, TypeOK, LoopInv, NoTapLost, Coming, ConsumeCas, producer
  <1> QED BY <1>1, <1>2, <1>3, <1>4, <1>5 DEF IInv

\* The end of consume preserves the inductive invariant.
LEMMA EndConsumeInv == ASSUME IInv, EndConsume PROVE IInv'
  <1>1. TypeOK'
    BY LatchAssumption, ButtonRange DEF IInv, TypeOK, LoopInv, EndConsume, producer, history
  <1>2. LoopInv'
    BY ButtonRange DEF IInv, TypeOK, LoopInv, EndConsume, producer, history
  <1>3. Reserve'
    BY ButtonRange DEF IInv, TypeOK, LoopInv, Reserve, Coming, EndConsume, producer, history
  <1>4. NoTapMultiplied'
    BY ButtonRange
    DEF IInv, TypeOK, LoopInv, Reserve, NoTapMultiplied, Coming, EndConsume, producer, history
  <1>5. NoTapLost'
    BY ButtonRange DEF IInv, TypeOK, LoopInv, NoTapLost, Coming, EndConsume, producer, history
  <1> QED BY <1>1, <1>2, <1>3, <1>4, <1>5 DEF IInv

\* Every step of the two threads preserves the inductive invariant.
LEMMA StepInv == IInv /\ [Next]_vars => IInv'
  <1> SUFFICES ASSUME IInv, [Next]_vars PROVE IInv'
    OBVIOUS
  <1>1. ASSUME NEW mask \in SUBSET Buttons, NEW polls \in 1..MaxPolls, Extend(mask, polls)
        PROVE IInv'
    BY <1>1, ExtendInv
  <1>2. ASSUME NEW mask \in SUBSET Buttons, Clear(mask)
        PROVE IInv'
    BY <1>2, ClearInv
  <1>3. CASE ProducerLoop
    BY <1>3, ReturnInv, SkipButtonInv, ExtendLoadInv, ExtendCasInv, ClearStoreInv
    DEF ProducerLoop
  <1>4. CASE ConsumerStep
    BY <1>4, StartConsumeInv, ConsumeLoadInv, ConsumeCasInv, EndConsumeInv DEF ConsumerStep
  <1>5. CASE UNCHANGED vars
    BY <1>5 DEF vars, producer, consumer, history, IInv, TypeOK, LoopInv, Reserve,
      NoTapMultiplied, NoTapLost, Coming
  <1> QED
    BY <1>1, <1>2, <1>3, <1>4, <1>5 DEF Next, ProducerStep

\* The inductive invariant holds of every reachable state.
THEOREM LatchInvariant == Spec => []IInv
  <1> QED BY InitInv, StepInv, PTL DEF Spec

\* touch_tap_latch.h: every variable keeps its type.
THEOREM LatchTypeCorrect == Spec => []TypeOK
  <1>1. IInv => TypeOK
    BY DEF IInv
  <1> QED BY <1>1, LatchInvariant, PTL

\* touch_tap_latch.h, consume against extend and clear: polls never report a
\* button more often than its taps asked for.
THEOREM TapsNeverMultiply == Spec => []NoTapMultiplied
  <1>1. IInv => NoTapMultiplied
    BY DEF IInv
  <1> QED BY <1>1, LatchInvariant, PTL

\* touch_tap_latch.h, extend against consume: a tap nobody has seen is still in
\* its counter.
THEOREM TapsNeverLost == Spec => []NoTapLost
  <1>1. IInv => NoTapLost
    BY DEF IInv
  <1> QED BY <1>1, LatchInvariant, PTL

\* touch_tap_latch.h as a whole: the loops of loads and exchanges implement the
\* latch with indivisible operations.
THEOREM LatchRefines == Spec => ImplementsAtomicLatch
  <1>1. Init => Latch!AbstractInit
    BY DEF Init, Latch!AbstractInit
  <1>2. IInv /\ [Next]_vars => [Latch!AbstractNext]_<<counters, delivered>>
    <2> SUFFICES ASSUME IInv, [Next]_vars
                 PROVE [Latch!AbstractNext]_<<counters, delivered>>
      OBVIOUS
    <2>1. CASE ExtendCas
      <3>1. CASE counters[pBit] = pCurrent
        <4>1. pBit \in Buttons /\ pPolls \in 1..MaxPolls /\ Latch!Grant(pBit, pPolls)
          BY <2>1, <3>1 DEF ExtendCas, history, IInv, TypeOK, LoopInv, Latch!Grant
        <4> QED BY <4>1 DEF Latch!AbstractNext
      <3>2. CASE counters[pBit] # pCurrent
        BY <2>1, <3>2 DEF ExtendCas, history
      <3> QED BY <3>1, <3>2
    <2>2. CASE ClearStore
      <3>1. pBit \in Buttons /\ Latch!Drop(pBit)
        BY <2>2 DEF ClearStore, IInv, TypeOK, Latch!Drop
      <3> QED BY <3>1 DEF Latch!AbstractNext
    <2>3. CASE ConsumeCas
      <3>1. CASE counters[cBit] = cCurrent
        <4>1. cBit \in Buttons /\ Latch!Take(cBit)
          BY <2>3, <3>1 DEF ConsumeCas, IInv, TypeOK, LoopInv, Latch!Take
        <4> QED BY <4>1 DEF Latch!AbstractNext
      <3>2. CASE counters[cBit] # cCurrent
        BY <2>3, <3>2 DEF ConsumeCas
      <3> QED BY <3>1, <3>2
    <2>4. CASE UNCHANGED <<counters, delivered>>
      BY <2>4
    <2> QED
      BY <2>1, <2>2, <2>3, <2>4
      DEF Next, ProducerStep, ProducerLoop, ConsumerStep, vars, producer, consumer, history,
          Extend, Clear, Return, SkipButton, ExtendLoad, StartConsume, ConsumeLoad, EndConsume
  <1> QED BY <1>1, <1>2, LatchInvariant, PTL DEF Spec, ImplementsAtomicLatch, Latch!AbstractSpec
=============================================================================
