SPECIFICATION Spec
CONSTANTS
  Threads = {t1, t2}
  NumPaths = 2
  NumFolders = 1
  Folder <- OneFolder
  Stem <- TwoNames
  Contents = {"a", "b"}
  Links <- TextLinks
  NumChunks <- TextChunks
  Absent = Absent
  Unreadable = Unreadable
  NoContent = NoContent
  Sqlite = FALSE
  WritesCanFail = FALSE
  AllowDuplicates = FALSE
  MaxEdits = 2
  MaxRuns = 3
  MaxRestarts = 0
SYMMETRY AnyThread
CHECK_DEADLOCK FALSE
INVARIANT Heals
