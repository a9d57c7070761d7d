SPECIFICATION BuildsSpec
CONSTANTS
  a = a
  alike = alike
  MaxBuilds = 2
  MaxCommit = 1
  PrismCommit = {1}
  BuildConfig = {a, alike}
  PinnedRef = {}
  Overlap = FALSE
  NoBuild = NoBuild
  Host <- MCHost
  MaxHostChanges = 1
  OtherBackend = "CpuAvx2"
  MaxBuildRuns = 1
SYMMETRY MCSymmetry
CHECK_DEADLOCK FALSE
INVARIANTS
  BuildInv
  ChoiceInv
PROPERTY
  SkipIsCurrent
