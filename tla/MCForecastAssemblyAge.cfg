SPECIFICATION ForecastSpec
CONSTANTS
  Ages = {1, 2, 5}
  Wests = {0, 3}
  Distances = {10, 25, 50}
  Absent = Absent
  NoWind = Absent
  Winds = {8, 9, 10, 12, 13, 14, 15, 16, 17, 20, 21, 22, 25, 26}
  Waves = {3, 4, 5, 6, 7, 8, 10, 11, 12, 14, 15}
  Signals <- MCSignals
  Anglers <- MCAnglers
  Days <- MCDays
  NoDay = NoDay
  NoRule = NoRule
  Catalog <- MCCatalog
  RuleBooks <- MCRuleBooks
  Skies <- MCSkies
  Temperatures = {40, 60, 75, 80}
  Targets = {"bottom", "structure"}
  MaxShown = 2
  MaxWarned = 1
INVARIANTS
  AgeIsTheReadings
CHECK_DEADLOCK FALSE
