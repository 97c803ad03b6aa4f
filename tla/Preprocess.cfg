SPECIFICATION Spec
CONSTANTS
  Programs <- MCPrograms
  Width = 8
  DirectiveLines = 8
  CallLines = 8
CHECK_DEADLOCK FALSE
INVARIANTS OutputIsC ErrorsAreC LinesAreTrue IncludingEnds
