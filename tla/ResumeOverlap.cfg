CONSTANTS
  u1 = u1  u2 = u2  u3 = u3  u4 = u4
  large = large  small = small
  Attempt = {u1, u2, u3}
  Content = {large, small}
  ContentOf <- OneSmall
  Large = {large}
  Parts = 2
  PartConcurrency = 2
  NoUpload = NoUpload
  FreshPage = FALSE
  MaxFaults = 2
  MaxDeaths = 1
CHECK_DEADLOCK FALSE
SPECIFICATION Spec
INVARIANT RegisteredHasBytes
PROPERTY ImplementsDurable
PROPERTY NoResurrection
