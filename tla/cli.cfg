\* Every invocation of the command, with one edit of the configuration.
CONSTANTS
  Variants <- ShortVariants
  Uses <- SomeUses
  Repositories <- SomeRepositories
  MaxEdits = 1
SPECIFICATION LSpec
INVARIANTS
  OnlySelectedRuns
  ExitMatchesScreen
  ChecksFailForCause
