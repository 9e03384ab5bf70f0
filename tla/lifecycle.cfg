SPECIFICATION Spec
CONSTANTS
  Entries = 3
  Executable = 2
  MaxFetches = 3
  MaxLines = 3
CHECK_DEADLOCK FALSE
INVARIANTS TypeOK InstallationIsComplete FailedLaunchLeavesNoProcess CleanUpNeverPanics
PROPERTIES LaunchConcludes NoOrphanStays
