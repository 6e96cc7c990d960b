SPECIFICATION LiveSpec
CONSTANTS
  j1 = j1 j2 = j2
  Jobs <- TwoJobs
  Nil = Nil
  MaxCrashes = 1
  MaxStops = 1
INVARIANTS
  RunsOnce
  ReportsAreTrue
PROPERTIES
  CompletedIsRemembered
  AcceptedIsReported
