\* A partitionable slot carved by requests with and without overrides,
\* dynamic slots destroyed with the persister's batches in flight, and
\* failing mints: resources add up and are never negative, ChildClaimIds is
\* exact and the record of every Claimed dynamic slot is current.
CONSTANTS
  Partitionable = TRUE
  NumSlots = 1
  Total <- TwoCpus
  JobAds <- Mixed
  StarterMode = "goroutine"
  HasStore = TRUE
  Env = {"match", "mint"}
  MaxId = 4
  MaxDSlots = 3
  MaxGen = 0
  MaxDeact = 0
  MaxEsc = 0
  MaxRestarts = 0
SPECIFICATION Spec
CHECK_DEADLOCK FALSE
INVARIANT Conservation
INVARIANT NotOvercommitted
INVARIANT ChildrenExact
INVARIANT PersistedCurrent
