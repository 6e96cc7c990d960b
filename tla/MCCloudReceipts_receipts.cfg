SPECIFICATION LiveSpec
CONSTANTS
  s1 = s1
  s2 = s2
  c1 = c1
  c2 = c2
  f1 = f1
  f2 = f2
  Scopes = {s1, s2}
  Commands = {c1}
  Fingerprints = {f1, f2}
  Nil = Nil
  Deadline <- MCDeadline
  Capacity = 1
  MaxTime = 1
  MaxGeneration = 3
  MaxFaults = 1
  MaxCrashes = 1
INVARIANTS
  AtMostOneDispatch
  AckedIsDurable
  VerdictsAreTrue
PROPERTIES
  LedgerSpec
  WorkerAnswers
