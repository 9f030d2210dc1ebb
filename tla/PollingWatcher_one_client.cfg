SPECIFICATION FairSpec
CONSTANTS
  Clients = {c1}
  Vaults <- OneFaultAtMost
  MaxStarts = 2
  MaxStops = 2
  MaxEdits = 2
  MaxOthers = 0
CHECK_DEADLOCK FALSE
INVARIANT StatusIsTrue
PROPERTIES ChangesIndexed IndexNeverGoesBack FallsSilent
