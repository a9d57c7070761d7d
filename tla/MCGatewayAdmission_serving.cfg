SPECIFICATION FairSpec
CONSTANTS
  Request = {q1, q2}
  approving = approving
  renewing = renewing
  refusing = refusing
  Receipt = {approving, refusing}
  Decision <- MCMismatch
  InstalledReceipt = approving
  Launcher = launcher
  RevokeCall = "AfterLaunch"
  MaxEdits = 1
CHECK_DEADLOCK FALSE
PROPERTIES
  NoAdmissionAfterRevoke
  ImplementsGate
  StreamsEnd
