SPECIFICATION Spec
CONSTANTS
  h1 = h1
  h2 = h2
  i1 = i1
  i2 = i2
  chrome = chrome
  e1 = e1
  x1 = x1
  s1 = s1
  r1 = r1
  Nil = Nil
  Homes = {h1, h2}
  Kind <- MCKind
  Instance <- MCInstance
  Extension <- MCExtension
  Sessions = {x1}
  Requests = {r1}
  Request <- MCRequest
  Steps = {s1}
  StepSession <- MCStepSession
  StepRequest <- MCStepRequest
  OpenAims <- MCOpenAims
  StepAims <- MCStepAims
  CloseAims <- MCCloseAims
  MaxBridges = 2
SYMMETRY Profiles
CHECK_DEADLOCK FALSE
INVARIANTS
  LostIsMarked
  CancelledLeavesNoSession
  CancelledLeavesNoTab
PROPERTIES
  StepsStayHome
  CancelledIsQuiet
