\* Every graph of three nodes, every order of visiting it.
CONSTANTS
  N = {a, b, c}
  Graphs <- AllGraphs
SPECIFICATION SSpec
INVARIANTS
  VerdictCorrect
PROPERTIES
  SearchEnds
