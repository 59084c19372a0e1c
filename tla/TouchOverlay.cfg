SPECIFICATION Spec
CONSTANTS
  t1 = t1
  t2 = t2
  Touches <- MCTouches
  None = None
  FlickPolls = 2
  MaxTimers = 1
SYMMETRY Symmetry
INVARIANT NothingSticks
INVARIANT GyroFollowsControls
INVARIANT SheetsHideControls
INVARIANT ControlsComeBack
INVARIANT FlickFollowsStick
