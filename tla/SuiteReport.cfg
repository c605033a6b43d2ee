SPECIFICATION FairSpec
CONSTANTS
  Specs = {1, 2}
  Programs <- MCPrograms
  MaxPolls <- MCMaxPolls
  MaxSignals <- MCMaxSignals
  MaxInterrupts <- MCMaxInterrupts
  Reporters = {"answers", "reads"}
INVARIANTS
  SnapshotConsistent
  FiledUnderOwnSpec
  CleanupsRunOnce
PROPERTIES
  ReportsReturn
