SPECIFICATION FairSpec
CONSTANTS
  Workloads <- MCWorkloads
INVARIANTS
  OutputFiled
  Released
PROPERTIES
  CallsReturn
