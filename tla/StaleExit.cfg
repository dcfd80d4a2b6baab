\* The second evStarterExited of one activation ends the slot's next
\* activation.
CONSTANTS
  Partitionable = FALSE
  NumSlots = 1
  Total <- OneCpu
  JobAds <- OneJob
  StarterMode = "process"
  HasStore = FALSE
  Env = {}
  MaxId = 2
  MaxDSlots = 0
  MaxGen = 2
  MaxDeact = 0
  MaxEsc = 0
  MaxRestarts = 0
SPECIFICATION Spec
CHECK_DEADLOCK FALSE
PROPERTY ExitedIsIdempotent
