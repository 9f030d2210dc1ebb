SPECIFICATION Spec
CONSTANTS
  Vaults = {"default", "work"}
  Default = "default"
  NoteIds = {"a", "b"}
  MaxCommands = 3
  MaxCrashes = 1
  MaxWrites = 2
INVARIANTS
  SchemaMatchesVersion
  NoRowLost
  RowsInPlace
  RefusedOnlyIfDisturbed
CHECK_DEADLOCK FALSE
