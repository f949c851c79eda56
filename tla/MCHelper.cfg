CONSTANTS
  Request = {r1, r2}
  Viewer = {v1}
  Browser = {b1, b2}
  MaxSessions = 2
  MaxChanges = 2
  MaxCommits = 3
  MaxFaults = 1
SPECIFICATION HelperSpec
INVARIANTS
  ConsolesHeld
  SettingsFound
PROPERTIES
  ConsoleOpens
  ChangesAreWhole
SYMMETRY Alike
CHECK_DEADLOCK FALSE
