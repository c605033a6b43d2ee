SPECIFICATION FairSpec
CONSTANTS
  Plans <- MixedPlans
  Endings = {"passed", "failed", "panicked"}
  MaxLevel = 3
INVARIANTS
  ResultIsOwn
  OneGracePeriod
  DeadlineKept
PROPERTIES
  SignalEndsNode
