SPECIFICATION LoadSpec
CONSTANTS
  Callers = {c1, c2, c3}
  Keys = {k1, k2}
  FreshTTL = 1
  StaleTTL = 2
  MaxTime = 4
  NoEntry = NoEntry
  Timed = {c1, c2}
  TimedKeys = {k1}
  HungKeys = {k2}
INVARIANTS
  TypeOK
  SingleFlight
PROPERTIES
  ReadsAreMonotonic
  FreshIsLiveOrYoung
  ImplementsStore
  AnsweredOffHungKeys
