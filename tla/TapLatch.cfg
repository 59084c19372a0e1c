SPECIFICATION FairSpec
CONSTANTS
  NumButtons = 2
  MaxPolls = 2
  TapBound = 2
INVARIANT TypeOK
INVARIANT NoTapMultiplied
INVARIANT NoTapLost
PROPERTY ImplementsAtomicLatch
PROPERTY TapsAreSeen
