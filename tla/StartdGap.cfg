\* One activation from both sides of the control channel, in both starter
\* modes, with a startd that dies at any point and may come back and redial:
\* the gap alone never costs the job its life, the syscall connection
\* survives its flight, Final precedes Exited, and the starter always ends as
\* StarterLife says.
CONSTANTS
  Modes = {"goroutine", "process"}
  Shadows = {}
  Env = {"startd", "VacateHard", "tick"}
  MaxGaps = 1
  MaxDials = 2
  CtrlCap = 1
  SockCap = 1
SPECIFICATION FairSpec
CHECK_DEADLOCK FALSE
INVARIANT TypeOK
INVARIANT GapKeepsJob
INVARIANT HeldInFlight
PROPERTY FinalFirst
PROPERTY StarterLifeSpec
PROPERTY AbandonedStarterEnds
PROPERTY JobEndNoticed
PROPERTY ReattachAnswered
