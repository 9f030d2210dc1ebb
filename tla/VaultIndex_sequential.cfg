SPECIFICATION Spec
CONSTANTS
  Threads = {"t1"}
  NumPaths = 3
  NumFolders = 2
  Folder <- ThreeFolders
  Stem <- ThreeNames
  Contents = {"a", "b"}
  Links <- TextLinks
  NumChunks <- TextChunks
  Absent = Absent
  Unreadable = Unreadable
  NoContent = NoContent
  Sqlite = TRUE
  WritesCanFail = TRUE
  AllowDuplicates = FALSE
  MaxEdits = 3
  MaxRuns = 3
  MaxRestarts = 1
CHECK_DEADLOCK FALSE
INVARIANTS Heals ReportIsExact
PROPERTY PatchAnswersNewText
