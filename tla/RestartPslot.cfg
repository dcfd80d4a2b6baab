\* A startd that dies at any point, with dynamic slots carved and destroyed
\* in turn, lost leases, and record writes and session imports that fail: the
\* rebuilt slots and what is left of their parent add up, and every restored
\* claim has its own ALIVE loop.
CONSTANTS
  Partitionable = TRUE
  NumSlots = 1
  Total <- TwoCpus
  JobAds <- OneJob
  StarterMode = "goroutine"
  HasStore = TRUE
  Env = {"lease", "crash", "import", "put"}
  MaxId = 5
  MaxDSlots = 3
  MaxGen = 0
  MaxDeact = 0
  MaxEsc = 0
  MaxRestarts = 1
SPECIFICATION Spec
CHECK_DEADLOCK FALSE
INVARIANT Conservation
INVARIANT ChildrenExact
INVARIANT LeaseExact
