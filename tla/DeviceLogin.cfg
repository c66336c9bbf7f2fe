SPECIFICATION FairSpec
CONSTANTS
  s1 = s1  p1 = p1  p2 = p2
  States = {s1}
  Pollers = {p1, p2}
  DeviceReplies <- MCDevices
  OAuthTimeout = 4
  SlowDowns = {0, 3}
  MaxTime = 5
  MaxInterval = 3
PROPERTIES
  KnownSessionEnds
INVARIANTS
  TypeOK
  OnePollPerState
  PollingFlagOwned
  PollSpacing
  TokenAskedOnce
