SPECIFICATION LiveSpec
CONSTANTS
  s1 = s1 p1 = p1 p2 = p2 p3 = p3 r1 = r1 m1 = m1 Nil = Nil
  Steps = {s1}
  Pings = {}
  Runs = {r1}
  McpRequests = {}
  Owner <- StepOfRun
  MaxBridges = 2
  QueueCapacity = 1
INVARIANT OneHostPerCall
PROPERTY KeepsPromise
PROPERTY CallsReturn
PROPERTY ClearedConnectionEnds
CHECK_DEADLOCK FALSE
