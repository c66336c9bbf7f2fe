SPECIFICATION RefreshSpec
CONSTANTS
  w1 = w1  w2 = w2
  Workers = {w1, w2}
  Lifetimes = {0, 4, 11}
  RefreshLifetimes = {0, 7}
  MaxLogin = 1
  MaxCall = 1
  HostPause = 4
  MaxIssued = 3
  MaxRestarts = 1
  MaxTime = 11
SYMMETRY Symmetry
INVARIANTS
  RefreshTypeOK
  LoginKept
  TokenLive
CHECK_DEADLOCK FALSE
