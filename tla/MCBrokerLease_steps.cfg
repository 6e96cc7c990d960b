SPECIFICATION LiveLeaseSpec
CONSTANTS
  s1 = s1
  s2 = s2
  c1 = c1
  Steps = {s1, s2}
  Closes = {c1}
  MaxTabs = 2
  MaxPort = 3
  MaxFaults = 1
  Stored = None
  None = None
CHECK_DEADLOCK FALSE
INVARIANTS
  AnsweredOnceAtHome
  OneCurrentStep
  TabsAreOwned
PROPERTIES
  StepsSettle
  ClosesAnswer
