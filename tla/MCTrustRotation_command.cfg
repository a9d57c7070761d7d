SPECIFICATION RotationSpec
CONSTANTS
  c1 = c1
  c2 = c2
  c3 = c3
  c4 = c4
  Call = {c1, c4}
  Command = {c4}
  RotationPath <- MCRotationPath
  KeyPath <- MCKeyPath
  RootPath <- MCRootPath
  MigrationPath <- MCMigrationPath
  NewRoot <- MCFresh
  Migration <- MCFresh
  NewEpoch <- MCNewEpoch
  OldEpoch = 1
  NoCall = NoCall
CHECK_DEADLOCK FALSE
INVARIANT
  CommandAdvances
