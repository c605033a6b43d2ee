SPECIFICATION FairSpec
CONSTANTS
  N = 2
  Configs <- SmallSuites
  Outcomes = {"passed"}
  Faults = {"kill"}
  MaxFaults = 1
PROPERTIES
  RunEnds
CHECK_DEADLOCK FALSE
