\* The executor, the output manager and the runner together, on two and three steps.
CONSTANTS
  a = a
  b = b
  c = c
  NoName = NoName
  NoStep = NoName
  Names = {a, b, c}
  Actions = {a, b, c}
  Stages <- Runs
  RunnerResults <- OkOrError
  MaxLines <- LineBounds
SPECIFICATION RSpec
INVARIANTS
  ReportComplete
  SummaryMatchesReports
  ReportMatchesResult
PROPERTIES
  FollowsCallbackProtocol
  RunEnds
