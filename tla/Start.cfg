SPECIFICATION MCSpec
CONSTANTS
 Letters <- MCLetters
 CmdLines <- MCCmdLines
 Variables <- MCVariables
 Queries <- MCQueries
 Assignments <- MCAssignments
 Fold <- MCFold
 NameCap = 3
INVARIANTS FitsAllocation ArgvFollowsTheRules GetenvIsCurrent
PROPERTY WalkEnds
CHECK_DEADLOCK FALSE
