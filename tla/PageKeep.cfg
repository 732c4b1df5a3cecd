CONSTANTS
  f1 = f1  f2 = f2  f3 = f3
  d1 = d1  d2 = d2
  g1 = g1  g2 = g2
  c1 = c1  c2 = c2
  n1 = n1
  File = {f1, f2, f3}
  Drop = {d1, d2}
  DropOf <- FromDrops
  Gallery = {g1, g2}
  Library = Library
  Shared = Shared
  Target <- Targets
  Resolves <- Galleries
  Content = {c1, c2}
  ContentOf <- RawTwice
  Name = {n1}
  NameOf <- SameName
  KindOf <- PhotoAndRaw
  Poll = {1}
  ClientSlots = 3
  Attempts = 3
  NoFile = NoFile
  MaxFaults = 0
  MaxFailures = 0
CHECK_DEADLOCK FALSE
SPECIFICATION Spec
INVARIANT KeepMakesCopies
