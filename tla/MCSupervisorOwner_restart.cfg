SPECIFICATION LiveSpec
CONSTANTS
  Pids = {1, 2}
  FailureThreshold = 2
  Ops = {"restart"}
  MaxGen = 3
  MaxOwner = 2
  MaxOps = 1
  MaxFaults = 1
CHECK_DEADLOCK FALSE
PROPERTY RestartReturns
