SPECIFICATION Spec
CONSTANTS
  Clients = {c1, c2}
  Vaults <- SlowAndFailing
  MaxStarts = 2
  MaxStops = 1
  MaxEdits = 1
  MaxOthers = 1
CHECK_DEADLOCK FALSE
INVARIANTS OneReportPerFailure
