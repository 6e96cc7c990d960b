SPECIFICATION LiveSpec
CONSTANTS
  a = a b = b x = x z = z Nil = Nil
  Calls = {a, b, z}
  Cancels = {x}
  Target <- CancelsA
  Oversize = {z}
  Conns = {1}
  Wires <- Crowded
  MaxCalls = 1
  NativeCapacity = 1
  ReplyCapacity = 1
PROPERTY CallsSettle
PROPERTY BrokenHostExits
CHECK_DEADLOCK FALSE
