SPECIFICATION CallsSpec
CONSTANTS
  Fetchers = {f1, f2}
  MaxRetries = 2
  Backoff <- MCBackoff
  TimeFrom <- MCTimeFrom
  ConnectTimeout = 1
  ReadTimeout = 1
  MaxHead = 2
  MaxBody = 1
  MaxConnections = 1
  Ids = {i1, i2}
  Validity = 2
  MaxSkew = 3
  MaxValidity = 4
  Offsets <- MCOffsets
  MaxDelay = 1
  Start = 4
  MaxTime = 9
  Hosts = {h1, h2}
  Lookups = {l1}
  Listed = {0, 2}
  LastEdition = 2
  Miss = Miss
  NoRow = NoRow
  NoPage = NoPage
  TTL = 1
  LastHour = 3
  MaxLookups = 3
INVARIANTS
  CallsAreBounded
  ServedOnce
  PromptCallsAreServed
PROPERTIES
  LiveIsCurrent
  RefreshesEnd
CHECK_DEADLOCK FALSE
