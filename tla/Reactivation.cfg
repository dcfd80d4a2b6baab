\* A claim activated twice, with events and timers of the first activation
\* still under way: no vacate meant for the first activation reaches the
\* second through a leftover max-vacate timer.
CONSTANTS
  Partitionable = FALSE
  NumSlots = 1
  Total <- OneCpu
  JobAds <- OneJob
  StarterMode = "process"
  HasStore = FALSE
  Env = {}
  MaxId = 1
  MaxDSlots = 0
  MaxGen = 2
  MaxDeact = 1
  MaxEsc = 1
  MaxRestarts = 0
SPECIFICATION Spec
CHECK_DEADLOCK FALSE
INVARIANT VacateOnlyAsked
