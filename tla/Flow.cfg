SPECIFICATION Spec
CONSTANT Bodies <- MCBodies
INVARIANTS SameExecution WarningsAreTrue
CHECK_DEADLOCK FALSE
