SPECIFICATION FairSpec
CONSTANTS
  Vaults = {"v", "w"}
  Clients = {"c1", "c2"}
  Follows <- TwoVaultsFollows
  UrlCursor <- OneUrlCursor
  NoCursor = NoCursor
  MaxEvents = 2
  Persistent = TRUE
  SaveCanFail = FALSE
  MaxPublish = 4
  MaxRestarts = 1
INVARIANTS TypeOK NothingLost
PROPERTIES HeardOnce FeedSpec Delivered
