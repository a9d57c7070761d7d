SPECIFICATION Spec
CONSTANTS
  q1 = q1
  q2 = q2
  s = s
  d = d
  u = u
  v = v
  Request = {q1, q2}
  Name = {s, d}
  Static = {s}
  Rank <- MCRank
  Url = {u, v}
  StaticUrl <- MCStaticUrl
  Advert <- MCAdvert
  Load <- MCLoad
  UnknownLoad = 3
  Ttl = 0
  ProbeTimeout = 0
  Initial <- MCInitial
  MaxChanges = 1
  None = None
CHECK_DEADLOCK FALSE
INVARIANT
  LeastBusyChosen
SYMMETRY RequestSymmetry
