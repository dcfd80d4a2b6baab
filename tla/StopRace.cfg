\* During Stop the loop may take the evStarterExited that the cancellation of
\* its own context produced, and record the running job's slot as Idle.
CONSTANTS
  Partitionable = FALSE
  NumSlots = 1
  Total <- OneCpu
  JobAds <- OneJob
  StarterMode = "process"
  HasStore = TRUE
  Env = {"stop"}
  MaxId = 3
  MaxDSlots = 0
  MaxGen = 1
  MaxDeact = 0
  MaxEsc = 0
  MaxRestarts = 1
SPECIFICATION Spec
CHECK_DEADLOCK FALSE
PROPERTY StopKeepsJobs
