SPECIFICATION Spec
CONSTANTS
  noName = noName
  noDate = noDate
  noNumber = noNumber
  NoName <- noName
  NoDate <- noDate
  NoNumber <- noNumber
  Weekend <- MCWeekend
  VolumeWindow = 2
  ReturnWindow = 2
  VolatilityWindow = 2
  MaWindow = 2
  AnnualizationDays = 252
  Places = 2
  Short = 2
  Middle = 3
  Long = 4
  Longest = 5
  Supplements <- MCSupplements
  Securities <- MCSecurities
  Days <- MCDays
  Stores <- MCStores
  Versions <- MCVersions
  Windows <- MCWindows
  Histories <- MCHistories
  Screens <- MCScreens
CHECK_DEADLOCK FALSE
INVARIANTS
  EligibleExactlyWhenSafe
  DayDecided
  ScreenSound
