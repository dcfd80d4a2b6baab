\* Two static slots under MATCH_INFO, match timeouts, REQUEST_CLAIM, lost
\* leases and RELEASE_CLAIM in every order: each Claimed slot has exactly its
\* own ALIVE loop, claim ids live and die as ClaimLifecycle says, and no slot
\* stays Matched or keeps a lost lease.
CONSTANTS
  Partitionable = FALSE
  NumSlots = 2
  Total <- TwoCpus
  JobAds <- OneJob
  StarterMode = "goroutine"
  HasStore = FALSE
  Env = {"match", "lease"}
  MaxId = 4
  MaxDSlots = 0
  MaxGen = 0
  MaxDeact = 0
  MaxEsc = 0
  MaxRestarts = 0
SPECIFICATION FairSpec
CHECK_DEADLOCK FALSE
INVARIANT TypeOK
INVARIANT LeaseExact
PROPERTY ClaimLifecycleSpec
PROPERTY MatchResolved
PROPERTY LeaseLossReleases
