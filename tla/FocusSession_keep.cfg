SPECIFICATION Spec
CONSTANTS
  Browsers = {b1, b2}
  NoBrowser = NoBrowser
  MaxCalls = 4
SYMMETRY Symmetric
INVARIANTS
  ScreenFollowsOwner
  LeaseBalanced
  MovementModeKept
CHECK_DEADLOCK FALSE
