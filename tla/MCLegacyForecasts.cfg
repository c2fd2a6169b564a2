SPECIFICATION LegacyForecastsSpec
CONSTANTS
  inlet = inlet
  Forecasts = {inlet, pier, point}
  Workers = 2
  Marine <- MCMarine
  Reports <- MCReports
  Others <- MCOthers
  Images = {"image"}
  plain = plain
  Readers = {plain, surfer, walker}
  Units <- MCUnits
  Profile <- MCProfile
  Anyone = Anyone
  CacheMax = 1
  HoursPerDay = 2
  MaxEvents = 4
  Nil = Nil
INVARIANTS
  CreditsMatchTheForecast
  MisreadOnlyAfterMphPage
PROPERTIES
  GenerationsEnd
  PagesAreForTheirReader
CHECK_DEADLOCK FALSE
