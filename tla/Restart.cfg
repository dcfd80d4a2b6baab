\* A startd with a static slot and a process starter stopped at any point and
\* started again: the Claimed slot's record is current, an accepted claim id
\* survives and a released one is not honoured again, and slot, claim, activation
\* and supervisor are restored together.
CONSTANTS
  Partitionable = FALSE
  NumSlots = 1
  Total <- OneCpu
  JobAds <- OneJob
  StarterMode = "process"
  HasStore = TRUE
  Env = {"stop"}
  MaxId = 3
  MaxDSlots = 0
  MaxGen = 1
  MaxDeact = 0
  MaxEsc = 0
  MaxRestarts = 1
SPECIFICATION Spec
CHECK_DEADLOCK FALSE
INVARIANT PersistedCurrent
INVARIANT BusyIffActivation
INVARIANT NoWedge
 
