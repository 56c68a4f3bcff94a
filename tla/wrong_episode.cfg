\* A season pack comes back with one episode under a name that resembles
\* nothing: findBestMatch takes the next episode for it.
SPECIFICATION Spec
CONSTANTS
  FaultKinds = {}
  MaxFaults = 0
  MaxJobs = 1
  Nzbs = {n1}
  Releases = {r1, new1}
  NoNzb = NoNzb
  NoRelease = NoRelease
  MaxDls = 2
  ReleaseOf <- OwnReleases
  Nested = {}
  Paths = {1, 2}
  Files <- AllFiles
  EpisodeOf <- Contents
  FilesOf <- Pack
  Shelf <- PathPerEpisode
  Held <- RowHolds
  NoFile = NoFile
  MaxSyms = 2
  NoPath = 0
  Handlers = {h1}
  ClientOps = {}
  HealOps = {}
  Loops = {"healer", "reconciler"}
  Rotated = {1}
  QuickTicks = FALSE
  HealMaxAttempts = 1
  HealDryRun = FALSE
  Seedless = {}
  HealedAs <- MaybeRenamed
  deleteGiveUpAttempts = 2
  n1 = n1
  n2 = n2
  r1 = r1
  r2 = r2
  new1 = new1
INVARIANT LinkKeepsItsContent
CHECK_DEADLOCK FALSE
