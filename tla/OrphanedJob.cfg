\* After a release the starter takes the closed control channel for a startd
\* gap and keeps its job; the backstop then kills the starter alone, and the
\* job runs on.
CONSTANTS
  Modes = {"process"}
  Shadows = {}
  Env = {"release"}
  MaxGaps = 0
  MaxDials = 1
  CtrlCap = 1
  SockCap = 1
SPECIFICATION FairSpec
CHECK_DEADLOCK FALSE
PROPERTY KillEndsJob
