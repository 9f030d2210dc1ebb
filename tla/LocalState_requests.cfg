SPECIFICATION Spec
CONSTANTS
  Threads = {t1, t2}
  Vaults = {default, work}
  Default = default
  Names = {name}
  Queries = {q1, q2}
  Roots = {home, other}
  DefaultRoot = home
  NoRoot = noroot
  Unknown = unknown
  None = none
  MaxRequests = 4
  MaxFaults = 2
  MaxRestarts = 2
SYMMETRY Symmetry
INVARIANTS
  AnswersLast
  MemoryIsSaved
  NoSurprise
CHECK_DEADLOCK FALSE
