SPECIFICATION ScopedSpec
CONSTANTS
  Callers = {c1, c2}
  Catalogs = {tide, ndbc}
  Gating = {tide, ndbc}
  Nearby = {tide, ndbc}
  Failing = {tide, ndbc}
  Raising = {tide}
  TTL = 3
  NegativeTTL = 1
  HealthyFrom = 2
  MaxTime = 4
  FreshTTL = 1
  StaleTTL = 2
  Point = point
  NoEntry = NoEntry
  None = None
INVARIANTS
  ResolvedOnCurrentCatalogs
  RecoversAfterOutage
  DegradedForecastsEnd
PROPERTIES
  FetchesAreSpaced
