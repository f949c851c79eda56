CONSTANTS
  Source <- MCSource
  DisksOf <- MCDisksOf
  MaxAttempts = 2
  MaxCrashes = 1
  NumDisks = 3
  MaxFaults = 2
SPECIFICATION SourcesSpec
INVARIANTS
  SourceTraced
  ExportKeepsInstance
PROPERTIES
  StopsOnlyWithConsent
  AllGivenBack
CHECK_DEADLOCK FALSE
