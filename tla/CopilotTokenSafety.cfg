SPECIFICATION Spec
CONSTANTS
  c1 = c1  c2 = c2  c3 = c3  a1 = a1  g1 = g1  g2 = g2
  NoAuth = NoAuth
  Callers = {c1, c2, c3}
  Auths = {a1}
  Credentials = {g1, g2}
  Configs <- MCConfigs
  Replies <- MCTwoReplies
  InsecureURLs = {"http://b"}
  MaxTime = 1
  MaxFlights = 3
SYMMETRY Symmetry
INVARIANTS
  TypeOK
  SingleFlight
  WaitersHaveLeader
  NewestCached
  ForeignOnlyByJoin
PROPERTIES
  ImplementsSharedExchange
