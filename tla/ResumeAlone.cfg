CONSTANTS
  u1 = u1  u2 = u2  u3 = u3  u4 = u4
  large = large  small = small
  Attempt = {u1, u2, u3}
  Content = {large}
  ContentOf <- AllLarge
  Large = {large}
  Parts = 3
  PartConcurrency = 2
  NoUpload = NoUpload
  FreshPage = TRUE
  MaxFaults = 2
  MaxDeaths = 0
CHECK_DEADLOCK FALSE
SPECIFICATION FairSpec
INVARIANT RecordedPartsArrived
INVARIANT UploadStillOpen
PROPERTY NoPartTwice
PROPERTY EventuallyRegistered
