\* A claim released, a starter signalled or the descriptor lost at any point
\* of an activation: Run leaves no process of the job unkilled, the marker
\* says what happened, and no copy of the shadow's connection is left open.
CONSTANTS
  Modes = {"goroutine", "process"}
  Shadows = {}
  Env = {"release", "signal", "descriptor"}
  MaxGaps = 0
  MaxDials = 1
  CtrlCap = 1
  SockCap = 1
SPECIFICATION FairSpec
CHECK_DEADLOCK FALSE
INVARIANT NoStray
INVARIANT MarkerTruthful
PROPERTY ConnReleased
