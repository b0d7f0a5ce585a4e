\* The checks of the working tree, with one file staged and changed again.
CONSTANTS
  Variants <- ShortVariants
  Uses <- SomeUses
  Repositories <- TouchedAgain
  MaxEdits = 0
SPECIFICATION LSpec
INVARIANTS
  DocumentedFound
