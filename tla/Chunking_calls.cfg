SPECIFICATION ChunkingSpec
CONSTANTS
  Texts <- MCTexts
  Sizes <- MCSizes
  Overlaps <- MCOverlaps
INVARIANTS
  NothingDropped
  ChunksFit
PROPERTIES
  Advances
CHECK_DEADLOCK FALSE
