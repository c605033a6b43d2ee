SPECIFICATION Spec
CONSTANTS
  Programs <- MCPrograms
  Labels <- MCLabels
  Tokens <- MCTokens
INVARIANTS
  SpecsComplete
  FocusExact
  FilterMeansWhatItSays
  OrderedStayTogether
  SerialStaysApart
  SameGroupsEverywhere
  RunnableSuite
CHECK_DEADLOCK FALSE
