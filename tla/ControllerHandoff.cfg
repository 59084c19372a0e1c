SPECIFICATION HandoffFairSpec
CONSTANTS
  i1 = i1
  i2 = i2
  i3 = i3
  None = None
  Unset = Unset
  AttachBlock = AttachBlock
  Instances <- MCInstances
  Unopenable = {}
  MaxPlayers = 2
  PreferredIndex = 1
INVARIANT OverlayCaughtUp
PROPERTY OverlayFollowsSlots
