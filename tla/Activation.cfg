\* One process starter from ACTIVATE_CLAIM to its end, with kills, vacates,
\* 413 and releases interleaved: slot, claim and activations map agree
\* throughout, death, hard vacate and a stashed 413 all take effect, and the
\* startd assumes of its starter no more than StarterLife says.
CONSTANTS
  Partitionable = FALSE
  NumSlots = 1
  Total <- OneCpu
  JobAds <- OneJob
  StarterMode = "process"
  HasStore = FALSE
  Env = {"kill9"}
  MaxId = 2
  MaxDSlots = 0
  MaxGen = 1
  MaxDeact = 1
  MaxEsc = 1
  MaxRestarts = 0
SPECIFICATION FairSpec
CHECK_DEADLOCK FALSE
INVARIANT BusyIffActivation
INVARIANT NoWedge
PROPERTY DeathNoticed
PROPERTY HardVacateEnds
PROPERTY DeferredAnswered
PROPERTY StartersLive
