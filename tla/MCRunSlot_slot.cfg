SPECIFICATION LiveSpec
CONSTANTS
  l1 = l1
  r1 = r1
  r2 = r2
  a = a
  b = b
  Nil = Nil
  LocalRuns = {l1}
  CliRuns = {r1, r2}
  Clients = {a}
  MaxBoots = 2
  MaxReuse = 1
  MaxCalls = 1
INVARIANTS SlotIsExclusive StopsOnlyItsTarget ShutdownSparesRuns
PROPERTIES StrandedSlotIsReclaimed
CHECK_DEADLOCK FALSE
