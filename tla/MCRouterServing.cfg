SPECIFICATION ServingSpec
CONSTANTS
  q1 = q1
  q2 = q2
  s = s
  d = d
  u = u
  v = v
  Request = {q1, q2}
  Name = {s, d}
  Static = {s}
  Rank <- MCRank
  Url = {u, v}
  StaticUrl <- MCStaticUrl
  Advert <- MCAdvert
  Load <- MCLoad
  UnknownLoad = 3
  Ttl = 1
  ProbeTimeout = 1
  Initial <- MCInitial
  MaxChanges = 1
  None = None
  n1 = n1
  bound = bound
  stranger = stranger
  NodeCall = {n1}
  Config <- MCConfig
  Deployment = {bound, stranger}
  Bound = bound
  Endpoint <- MCEndpoint
  Route <- MCRoute
  Offset <- MCOffset
  Slack = 1
  ProofTtl = 2
  MaxTime = 4
  MaxSwaps = 2
  NoProof = NoProof
  Prompt <- MCPrompt
  Reply <- MCReply
  MaxTurns = 1
  MaxNesting = 1
  Null = Null
  m1 = m1
  m2 = m2
  k1 = k1
  k2 = k2
  NodeName = {"a", "b", "c"}
  KeyText = {k1, k2}
  Specs <- MCSpecs
  KeySpecs <- MCKeySpecs
  Model = {m1, m2}
  Names <- MCNames
  Answers <- MCAnswers
  RouterRoute = {"infer", "chat"}
  MaxReprobes = 1
  NoKey = NoKey
CHECK_DEADLOCK FALSE
SYMMETRY RequestSymmetry
INVARIANTS
  CountersExact
  NodeInv
  BridgeInv
  CatalogInv
PROPERTY
  SteadyServes
