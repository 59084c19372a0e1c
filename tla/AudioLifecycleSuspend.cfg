SPECIFICATION Spec
CONSTANTS
  MaxTrips = 2
  MaxQueue = 2
INVARIANT BackgroundSuspends
