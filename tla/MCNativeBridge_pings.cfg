SPECIFICATION Spec
CONSTANTS
  s1 = s1 p1 = p1 p2 = p2 p3 = p3 r1 = r1 m1 = m1 Nil = Nil
  Steps = {s1}
  Pings = {p1, p2, p3}
  Runs = {}
  McpRequests = {m1}
  Owner <- StepOfMcp
  MaxBridges = 1
  QueueCapacity = 2
SYMMETRY PingSymmetry
INVARIANT CancelFollowsCalls
CHECK_DEADLOCK FALSE
