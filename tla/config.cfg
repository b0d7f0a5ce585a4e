\* Includes of up to three files: merged, circular, missing, unreadable.
CONSTANTS
  Files <- MCFiles
  FileDir <- MCFileDir
  Dirs <- MCDirs
  YamlFiles <- MCYamlFiles
  GlobOrder <- MCGlobOrder
  DefaultPaths <- MCDefaultPaths
  NoPath = "none"
  Patterns <- MCPatterns
  Worlds <- MCAllWorlds
  Requests = {"none", "c"}
SPECIFICATION CSpec
CHECK_DEADLOCK FALSE
INVARIANTS
  IncludeVerdict
  LastIncludeWins
PROPERTIES
  LoadEnds
