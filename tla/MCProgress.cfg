SPECIFICATION ProgressSpec
CONSTANTS
  s1 = s1
  small = small
  Start = {s1}
  Serves <- MCServesOne
  Capacity = 1
  MaxLines = 1
  Enforced = FALSE
  NoStart = NoStart
  a = a
  MaxBuilds = 1
  MaxCommit = 2
  PrismCommit = {1}
  BuildConfig = {a}
  PinnedRef = {1}
  Overlap = FALSE
  NoBuild = NoBuild
  d1 = d1
  f1 = f1
  f2 = f2
  Download = {d1}
  MaxVersion = 2
  VersionSize <- MCVersionSize
  Inode = {f1, f2}
  NoFile = NoFile
  Model <- MCModel
  SameFile <- MCSameFile
  SizeMb <- MCSizeMb
  Builtin <- MCBuiltin
  LegacyServer <- MCLegacyServer
  Replaced = {"n1"}
  LoadedProfile <- MCLoadedProfile
  Arguments <- MCArguments
  Endpoint = {"e1", "e2"}
  PublicEndpoint <- MCPublicEndpoint
  RetiredEndpoint = "e2"
  DefaultEndpoint = "e1"
  ProfileName = {"d1", "d2", "n1"}
  Text <- MCText
  Qwen = {"deep", "deep2", "native"}
  NativeMtp = {"native"}
  Prism = {"prism"}
  Vram = {0, 2767, 2768}
  MaxChanges = 1
CHECK_DEADLOCK FALSE
INVARIANT
  SettingsInv
PROPERTIES
  StartAnswered
  FailureShown
  CancelStops
  RetriedToTheEnd
