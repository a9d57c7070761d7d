SPECIFICATION StoresSpec
CONSTANTS
  j1 = j1
  j2 = j2
  j3 = j3
  j4 = j4
  canonical = canonical
  first = first
  second = second
  lineageA = lineageA
  lineageB = lineageB
  reportA = reportA
  reportB = reportB
  Job = {j1, j2, j3, j4}
  Path <- MCPath
  Canonical = canonical
  Payload <- MCPayload
  None = None
  Target <- MCTarget
  Bundle <- MCBundle
  w1 = w1
  w2 = w2
  w3 = w3
  w4 = w4
  w5 = w5
  Writer = {w1, w2, w3, w4}
  Work <- MCWork
  NoInode = NoInode
  c1 = c1
  c2 = c2
  c3 = c3
  c4 = c4
  Call = {c1, c2, c3, c4}
  Command = {c4}
  RotationPath <- MCRotationPath
  KeyPath <- MCKeyPath
  RootPath <- MCRootPath
  MigrationPath <- MCMigrationPath
  NewRoot <- MCFresh
  Migration <- MCFresh
  NewEpoch <- MCNewEpoch
  OldEpoch = 1
  NoCall = NoCall
  d1 = d1
  d2 = d2
  f1 = f1
  f2 = f2
  f3 = f3
  Download = {d1, d2}
  MaxVersion = 2
  VersionSize <- MCVersionSize
  Inode = {f1, f2, f3}
  NoFile = NoFile
  full = full
  fast = fast
  other = other
  u1 = u1
  u2 = u2
  b1 = b1
  b2 = b2
  Provider = {full, fast, other}
  Full = full
  Fast = fast
  Url = {u1, u2}
  Body = {b1, b2}
  Options = {"user", "lmml"}
  Default = "lmml"
  Rest = {"mine", "yours"}
  Absent = Absent
  Configure = {k1}
  Servers <- MCServers
  Edited <- MCEdited
  AgentEdited <- MCAgentEdited
  MaxEdits = 1
  MaxBackups = 2
  FieldOrder <- MCFieldOrder
  TextToken <- MCTextToken
  Token <- MCToken
  LoadedSetting <- MCLoadedSetting
  ProfileSetting <- MCProfileSetting
  MaxText = 2
  MaxConfirms = 2
  ModelPath = {1, 2}
  InDirectory = {1}
  Slot = {t1, t2}
  MaxTasks = 3
SYMMETRY StoresSymmetry
CHECK_DEADLOCK FALSE
INVARIANTS
  UnadmittedNotExposed
  StoredAnchored
  RotationInv
  DownloadInv
  HandoffInv
  PanelInv
PROPERTIES
  ImplementsRecord
  EpochReceiptsOrdered
  HandoffKeeps
  EditsAreMeant
  ActedAsConfirmed
