CONSTANTS
  f1 = f1  f2 = f2  f3 = f3
  b1 = b1  b2 = b2
  c1 = c1  c2 = c2
  File = {f1, f3}
  Batch = {b1, b2}
  Content = {c1, c2}
  BatchOf <- TwoBatches
  ContentOf <- Copies
  Mode <- SkipAll
  ClientSlots = 3
  Concurrency = 2
  Attempts = 3
  MaxStalls = 1
  MaxErrors = 0
  MaxCrashes = 0
CHECK_DEADLOCK FALSE
SPECIFICATION Spec
INVARIANT SkippedIsDone
