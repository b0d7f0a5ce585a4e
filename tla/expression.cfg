\* Every short text, and comparisons, calls and logical combinations of up to
\* three operands.
CONSTANTS
  Texts <- AllTexts
  User <- UserVars
  Platform <- PlatformVars
  Env <- EnvRefs
  CI = TRUE
  LexOrder <- Order
  NumberOf <- Numerals
  Facts <- LibraryFacts
  Patterns <- Regexps
  VersionRank <- Versions
SPECIFICATION ESpec
INVARIANTS
  ValueIsAReading
  LanguageIsRead
