\* A chain of three steps.
CONSTANTS
  a = a
  b = b
  c = c
  NoName = NoName
  Names = {a, b, c}
  Actions = {a, b, c}
  Stages <- Chain
  RunnerResults <- OkOrError
  Filters <- SomeFilters
SPECIFICATION DSpec
INVARIANTS
  StopBlocksDependents
