SPECIFICATION Spec
CONSTANTS
  Programs <- MCPrograms
  Rt = 1
CHECK_DEADLOCK FALSE
INVARIANTS MeansWhatCSays DiagnosticsAreTrue DefinedOnce
