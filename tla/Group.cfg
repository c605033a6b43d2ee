SPECIFICATION Spec
CONSTANTS
  Groups <- AllGroups
  CalmGroups <- LongGroups
  Outcomes = {"passed", "failed", "skipped", "aborted", "interrupted"}
  MaxSignals = 2
  Deadline = TRUE
  FirstCleanupID = 100
INVARIANTS
  TornDown
  TeardownIsLast
  SetupOnce
  CleanupsRun
  OncePerAttempt
  PassedIsPassed
