SPECIFICATION Spec
CONSTANTS
  Ids = {1, 2, 3}
  Vaults <- VaultsOfReads
  InitVaults <- InitOfReads
  Runners = {r1, r2}
  Limit = 2
  MaxRuns = 2
SYMMETRY Symmetry
INVARIANTS
  WellFormedAnswer
  SemanticIsRanking
  HybridKeepsKeywords
  NoFalseRefusal
  GraphOfTheNotes
  RaisedByRunsOnly
  SettledIndex
