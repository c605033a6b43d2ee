SPECIFICATION FairSpec
CONSTANTS
  N = 3
  Configs <- ThreeSuites
  Outcomes = {"passed"}
  Faults = {"exit"}
  MaxFaults = 1
INVARIANTS
  TypeOK
  SerialRunsAlone
  Process1CleansUpLast
  ReportAfterSuiteComplete
PROPERTIES
  RunEnds
