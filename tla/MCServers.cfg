SPECIFICATION ServersSpec
CONSTANTS
  s1 = s1
  s2 = s2
  m = m
  Start = {s1, s2}
  Serves <- MCServes
  Capacity = 1
  MaxLines = 0
  Enforced = FALSE
  NoStart = NoStart
  k1 = k1
  q1 = q1
  q2 = q2
  p1 = p1
  p2 = p2
  ProfileCommand = {k1}
  Panel = Panel
  Profile = {q1, q2}
  ModelOf <- MCModelOf
  Pid = {p1, p2}
  NoPid = NoPid
  MaxSettings = 1
SYMMETRY ServersSymmetry
CHECK_DEADLOCK FALSE
INVARIANTS
  ChildOwned
  StoppedIsStopped
  ProfileInv
PROPERTY
  CommandsKeep
