SPECIFICATION FairSpec
CONSTANTS
  i1 = i1
  i2 = i2
  i3 = i3
  i4 = i4
  None = None
  Instances <- MCInstances
  Unopenable <- MCUnopenable
  MaxPlayers = 2
  PreferredIndex = 2
INVARIANT TypeOK
INVARIANT NoSharedInstance
INVARIANT HandlesBalanced
PROPERTY SlotsAreStable
PROPERTY EventuallySeated
PROPERTY EventuallyReleased
