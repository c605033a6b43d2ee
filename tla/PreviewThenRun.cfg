SPECIFICATION Spec
CONSTANTS
  Programs <- PreviewPrograms
  Labels <- MCLabels
  Tokens <- MCTokens
INVARIANT TopLevelKept
CHECK_DEADLOCK FALSE
