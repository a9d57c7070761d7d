SPECIFICATION LineageSpec
CONSTANTS
  i1 = i1
  ta = ta
  Importer = {i1}
  Tensor = {1, 2}
  Shard = {1, 2}
  ShardBody <- MCBody
  Map <- MCMap
  Asset = {ta}
  MaxCheckpointEdits = 1
  MaxManifestEdits = 1
  k1 = k1
  k2 = k2
  Deriver = {k1, k2}
  base = base
  succ = succ
  Lineage = {base, succ}
  Successor = {succ}
  a1 = a1
  ArtifactId = {a1}
  p1 = p1
  OutputPath = {p1}
  MaxDisturbance = 1
  s1 = s1
  Stage = {s1}
  Base = {"b1", "b2"}
  Time = {0, 1}
  Authorizations <- MCAuthorizations
  TrainingReports <- MCTrainingReports
  AdmissionReports <- MCAdmissionReports
  Baselines <- MCBaselines
  Adapter <- MCAdapter
  Merged <- MCMerged
  MaxReplacement = 1
  MaxSwap = 3
SYMMETRY DSym
CHECK_DEADLOCK FALSE
INVARIANTS
  ImportInv
  DerivationInv
  PipelineInv
