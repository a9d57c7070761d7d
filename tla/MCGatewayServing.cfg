SPECIFICATION ServingSpec
CONSTANTS
  Request = {q1, q2}
  approving = approving
  renewing = renewing
  refusing = refusing
  Receipt = {approving, renewing}
  Decision <- MCRenewal
  InstalledReceipt = approving
  Launcher = launcher
  RevokeCall = "Never"
  MaxEdits = 2
  m1 = m1
  m2 = m2
  e1 = e1
  e2 = e2
  ModelFile = {m1, m2}
  ServerFile = {e1, e2}
  NoContent = NoContent
  Argv = {1, 2}
  Prompts <- MCPrompts
  Runtimes <- MCRuntimes
  Deployments <- MCDeployments
  MaxRewrites = 1
  MaxSwaps = 1
  k1 = k1
  k2 = k2
  x1 = x1
  x2 = x2
  Publisher = {k1, k2}
  Bytes = {x1, x2}
  NoBytes = NoBytes
  MaxInputEdits = 1
  MaxDamages = 1
  w1 = w1
  Witness = {w1}
  FileBytes = {"x", "y"}
  Admitted = "x"
  ProcessId = {1, 2}
  Process <- MCProcess
  Endpoint = {"e1"}
  RuntimeId = {1, 2}
  ExtraArgs <- MCExtraArgs
  Cases = 2
  MaxChange = 2
CHECK_DEADLOCK FALSE
SYMMETRY RequestSymmetry
INVARIANTS
  NoPhantomApproval
  QuietRevocationHolds
  LaunchInv
  SnapshotInv
  EvidenceInv
PROPERTY
  PublicationHolds
