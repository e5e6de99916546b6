SPECIFICATION HostSpec
CONSTANTS
  MaxRetries = 2
  ShutdownAfter = 0
  MaxTroubles = 2
  Writers = {1, 2, 3, 4}
  Nothing = Nothing
  MaxSnapshots = 1
  LoadSnapshots = 1
  MaxSaves = 2
  MaxCrashes = 1
INVARIANTS OneInstance OwnShutdown HandledIsOnDisk
PROPERTY Replaced
CHECK_DEADLOCK FALSE
