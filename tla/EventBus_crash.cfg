SPECIFICATION Spec
CONSTANTS
  Vaults = {"v", "w"}
  Clients = {"c1"}
  Follows <- OneFollows
  UrlCursor <- NoUrlCursors
  NoCursor = NoCursor
  MaxEvents = 2
  Persistent = TRUE
  SaveCanFail = TRUE
  MaxPublish = 4
  MaxRestarts = 2
INVARIANTS IdsIncreasing NoRetainedEventSkipped
