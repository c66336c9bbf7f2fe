SPECIFICATION MCExecFairSpec
CONSTANTS
  c1 = c1  c2 = c2  a1 = a1  g1 = g1
  NoAuth = NoAuth
  Callers = {c1, c2}
  Auths = {a1}
  Credentials = {g1}
  Configs <- MCOneConfig
  Replies <- MCReplies
  InsecureURLs = {}
  MaxTime = 0
  MaxFlights = 8
  Models <- MCModels
  SpecialModels = {"sol"}
  Listings = {{}, {"claude"}}
  Kinds = {"models", "execute", "http"}
  RequestAuths = {a1, NoAuth}
  MaxRequests = 2
  MaxRevoked = 2
INVARIANTS
  ExecTypeOK
  RetryWithFreshToken
  SpecialModelsTried
PROPERTIES
  EveryRequestEnds
