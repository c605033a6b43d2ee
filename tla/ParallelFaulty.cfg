SPECIFICATION Spec
CONSTANTS
  N = 2
  Configs <- MixedSuites
  Outcomes = {"passed", "failed", "skipped", "aborted"}
  Faults = {"signal", "deadline", "kill", "disconnect"}
  MaxFaults = 1
\* a killed process leaves process 1 waiting (see ParallelKilled.cfg)
CHECK_DEADLOCK FALSE
INVARIANTS
  SpecsWaitForProcess1
  PassIsComplete
  NothingHeldBack
