CONSTANTS
  f1 = f1  f2 = f2  f3 = f3
  g1 = g1  g2 = g2  g3 = g3
  p1 = p1  p2 = p2  p3 = p3  clip = clip
  d1 = d1  d2 = d2
  k1 = k1  k2 = k2
  album1 = album1  album2 = album2  album3 = album3
  Folder = {f1, f2, f3}
  Gallery = {g1, g2, g3}
  Asset = {p1, p2, p3}
  Title <- Titles
  Typed = {"a", "y"}
  SlugOf <- Slugs
  FoldOf <- Lower
  Tags <- Keyword
  Offered = {"public", "unlisted"}
  NoFolder = NoFolder
  NoGallery = NoGallery
  Drop = {d1, d2}
  Entries <- Dropped
  MaxGlitches = 1
  Albums <- OldAlbums
  Image = {p1, p2, p3, clip}
  ImagesOf <- OldImages
  Missing = Missing
  Torn = Torn
  Excluded = {album3}
  Unsupported = {clip}
  MaxStarts = 3
  MaxOutages = 1
  UrlPath <- OldPaths
  Imported = "imported"
  Publish = TRUE
  MaxImports = 2
  MaxMonths = 2
  Copied <- OnDrive
  MaxScans = 2
  Scene <- ExportScenes
CHECK_DEADLOCK FALSE
SPECIFICATION Spec
INVARIANT FinishedManifestIsComplete
