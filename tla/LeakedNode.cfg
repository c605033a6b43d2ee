SPECIFICATION Spec
CONSTANTS
  Plans <- LeakPlans
  Endings = {"passed", "failed"}
  MaxLevel = 0
INVARIANTS
  FailIsReported
