CONSTANTS
  f1 = f1  f2 = f2  f3 = f3
  b1 = b1  b2 = b2
  c1 = c1  c2 = c2
  File = {f1, f2, f3}
  Batch = {b1, b2}
  Content = {c1, c2}
  BatchOf <- TwoBatches
  ContentOf <- Copies
  Mode <- KeepF3
  ClientSlots = 3
  Concurrency = 2
  Attempts = 1
  MaxStalls = 1
  MaxErrors = 1
  MaxCrashes = 1
CHECK_DEADLOCK FALSE
SPECIFICATION Spec
INVARIANT OneCountPerFile
INVARIANT VerdictTruthful
INVARIANT CompletedMeansReady
PROPERTY ImplementsLedger
