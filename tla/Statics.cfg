SPECIFICATION Spec
CONSTANTS
  Literal = {"a", "b"}
  Aggregate = {"t"}
  Object = {"p", "q"}
  Function = {"main", "f"}
  Label = {1, 2, 3, 4, 5}
  Program <- MCProgram
  Main = "main"
  Calls = 2
CHECK_DEADLOCK FALSE
INVARIANTS PointersAreLive InitializersRunFirst
