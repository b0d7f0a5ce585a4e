\* Every stage of at most two steps with everything a runner may return, the
\* shapes of three steps, and a dry run of each.
CONSTANTS
  a = a
  b = b
  c = c
  NoName = NoName
  Names = {a, b, c}
  Actions = {a, b, c}
  Stages <- AllShapes
  RunnerResults <- AllResults
  Filters <- SomeFilters
SPECIFICATION MCSpec
INVARIANTS
  TypeOK
  ExactlyOneResult
  VerdictSound
  SkipJustified
  RequireRespected
  NoSendOnClosed
  SendNeverBlocks
  ReturnQuiescent
  DryRunPredicts
PROPERTIES
  ResultFinal
  ImplementsContract
  Termination
