SPECIFICATION FairSpec
CONSTANTS
  c1 = c1
  c2 = c2
  c3 = c3
  NoCall = none
  Call = {c1, c2}
  Setting = "auto"
  Second = 2
  RetryAfters = {0, 4}
  MaxRetryAfter = 1
  HostPause = 2
  Recheck = 3
  PerSecond = 2
  Reprobe = 1
  LastTick = 2
INVARIANTS TypeOK PauseIsBounded FewColdInAnySecond
PROPERTIES NeverBackToVendors FetchesEnd
