\* Two shadows that reconnect at any point of a run, with replies that fail
\* or come too late: syscalls go to an open connection that has had its
\* Success, no connection is left without an owner, and every handoff is
\* answered.
CONSTANTS
  Modes = {"process"}
  Shadows = {"s1", "s2"}
  Env = {"VacateSoft"}
  MaxGaps = 0
  MaxDials = 1
  CtrlCap = 1
  SockCap = 1
SPECIFICATION FairSpec
CHECK_DEADLOCK FALSE
INVARIANT SyscallSocket
INVARIANT NoLeakedStream
PROPERTY HandoffAnswered
