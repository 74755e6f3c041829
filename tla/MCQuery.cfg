CONSTANTS
  Fields <- MCFields
  Initial <- MCInitial
  Docs <- MCDocs
  Sources <- MCSources
  Depth <- MCDepth
  Databases <- MCDatabases
  None = None
  Null = Null
  Err = Err
  Panic = Panic
SPECIFICATION AllSpec
INVARIANTS SelectionMeaning MemMeaning AltMeaning RowsKept PgMeaning
