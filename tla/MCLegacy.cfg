SPECIFICATION LegacySpec
CONSTANTS
  Processes = {p1, p2}
  Keys = {anon, user}
  Anon = anon
  MemMax = 1
  DayLength = 2
  PruneAge = 1
  LastTime = 2
  MaxRequests = 3
  MaxRestarts = 1
  MaxPolls = 1
  None = None
  Pollers = {w1, w2}
  Spots <- MCSpots
  Devices = {d1}
  LastDay = 2
  MaxChecks = 3
  MaxLapses = 1
INVARIANTS
  OneRefreshPerKey
  OnlyOverlapShowsOlder
  AlertsMatchTheLog
PROPERTY
  WaitingPageEnds
CHECK_DEADLOCK FALSE
