SPECIFICATION Spec
CONSTANTS
  a = a b = b x = x z = z Nil = Nil
  Calls = {a}
  Cancels = {x}
  Target <- CancelsA
  Oversize = {}
  Conns = {1, 2}
  Wires <- Resent
  MaxCalls = 1
  NativeCapacity = 1
  ReplyCapacity = 1
INVARIANT CancelMeetsItsCall
INVARIANT VerdictsMatchChrome
CHECK_DEADLOCK FALSE
