SPECIFICATION LiveSpec
CONSTANTS
  chrome = chrome
  Runs = {c1, c2}
  Other = Other
  Target <- SameBrowser
  Length = 3
  Writes = {2}
  Silent = {2}
  Local = {3}
  MaxTabs = 2
  None = None
  MaxRetries = 1
  MaxFaults = 2
CHECK_DEADLOCK FALSE
INVARIANTS
  WritesOnce
  PausedSiteIsLeftAlone
  KeptTabIsParked
PROPERTIES
  RunsEnd
