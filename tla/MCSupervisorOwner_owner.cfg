SPECIFICATION LiveSpec
CONSTANTS
  Pids = {1, 2}
  FailureThreshold = 2
  Ops = {"ensure", "stop", "force", "restart", "install", "reinstall", "uninstall", "serve"}
  MaxGen = 7
  MaxOwner = 5
  MaxOps = 1
  MaxFaults = 2
CHECK_DEADLOCK FALSE
INVARIANTS
  JobHasMarker
PROPERTIES
  NoRunIsCut
  StopHolds
  Recovers
