\* Three steps of two lines each, every order of calls.
CONSTANTS
  a = a
  b = b
  c = c
  NoStep = NoStep
  Steps <- ThreeSteps
  MaxLines <- LineBounds
SPECIFICATION OSpec
INVARIANTS
  ScreenInOrder
  HeldBackOnlyByEarlier
  PromptLinesShown
  CurrentIsFirstPending
