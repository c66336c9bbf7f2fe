SPECIFICATION ExecSpec
CONSTANTS
  c1 = c1  c2 = c2  a1 = a1  g1 = g1
  NoAuth = NoAuth
  Callers = {c1, c2}
  Auths = {a1}
  Credentials = {g1}
  Configs <- MCConfigs
  Replies <- MCReplies
  InsecureURLs = {}
  MaxTime = 1
  MaxFlights = 8
  Models <- MCModels
  SpecialModels = {"sol"}
  Listings <- MCListings
  Kinds = {"models"}
  RequestAuths = {a1}
  MaxRequests = 1
  MaxRevoked = 0
INVARIANTS
  ExcludedModelsNotCached
