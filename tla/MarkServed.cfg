CONSTANTS
  a1 = a1  c1 = c1  g1 = g1  g2 = g2  w1 = w1  w2 = w2
  grid = grid  lightbox = lightbox  r1 = r1  r2 = r2
  Asset = {a1}
  Content = {c1}
  ContentOf <- OneContent
  Gallery = {g1, g2}
  Mark = {w1, w2}
  NoMark = NoMark
  Variant = {grid, lightbox}
  Request = {r1, r2}
  Clean = Clean
  Attempts = 2
  MaxRequests = 3
  MaxFaults = 1
SPECIFICATION Spec
INVARIANTS MarkedWhenQuiet FreshWhenQuiet VariantsAgree
PROPERTIES EventuallyMarked
CHECK_DEADLOCK FALSE
