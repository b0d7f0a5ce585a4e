\* Two steps and a cancellation.
CONSTANTS
  a = a
  b = b
  c = c
  NoName = NoName
  Names = {a, b, c}
  Actions = {a, b, c}
  Stages <- StreamPair
  RunnerResults <- OkOrError
SPECIFICATION TSpec
INVARIANTS
  NoSendAfterClose
