SPECIFICATION BrowserSpec
CONSTANTS
  Short = {"s"}
  Long = {"w", "wb", "wi"}
  Names = {"wb", "wi"}
  Found <- MCFound
  MaxSearches = 3
  Nothing = Nothing
  Missing = Missing
  Unset = Unset
  Tabs = {t1, t2}
  Paths <- MCPaths
  TTL = 1
  MaxRelease = 2
  MaxDelay = 1
  MaxVisits = 3
  MaxTime = 3
  Values = {v1, v2, v3}
  EMPTY = EMPTY
  Spots = {p1, p2, p3}
  MaxLoads = 3
  MaxSubmits = 2
  Users = {u1, u2}
  Writer = u1
  Slots = {s1, s2}
  Ids = {l1}
  Ops <- MCOps
  MaxSaves = 2
  NoRow = NoRow
  Workers = {h1, h2}
  Browsers = {b1, b2}
  Places = {a1, a2}
  UserTTL = 1
  PrefsTTL = 1
  LastMoment = 2
  MaxHits = 3
  Nil = Nil
SYMMETRY Symmetry
INVARIANTS
  FlyingForTheField
  ForecastsShownAreYoung
  CopyIsTheLastSeen
  OnlyOverlapLeavesRows
PROPERTIES
  OmittedFieldsUntouched
  VerdictsLagBriefly
  OnlyRecentChangesAreUndone
CHECK_DEADLOCK FALSE
