\* Three steps run by the streaming executor.
CONSTANTS
  a = a
  b = b
  c = c
  NoName = NoName
  Names = {a, b, c}
  Actions = {a, b, c}
  Stages <- StreamShapes
  RunnerResults <- OkOrError
SPECIFICATION TSpec
INVARIANTS
  RequireRespected
  StreamsOneAtATime
  DisplayedInOrder
  AllDisplayedAtReturn
  VerdictSound
PROPERTIES
  EndsUnlessRunning
