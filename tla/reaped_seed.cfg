\* The reaper drops the imported row, and the NZB with it, long before TorBox
\* rotates the release: the broken link belongs to no job and is never healed.
SPECIFICATION FairSpec
CONSTANTS
  FaultKinds = {"rotate"}
  MaxFaults = 1
  MaxJobs = 1
  Nzbs = {n1}
  Releases = {r1}
  NoNzb = NoNzb
  NoRelease = NoRelease
  MaxDls = 2
  ReleaseOf <- OwnReleases
  Nested = {}
  Paths = {1}
  Files <- AllFiles
  EpisodeOf <- Contents
  FilesOf <- OneFileEach
  Shelf <- OnePathEach
  Held <- RowHolds
  NoFile = NoFile
  MaxSyms = 1
  NoPath = 0
  Handlers = {h1}
  ClientOps = {}
  HealOps = {}
  Loops = {"reaper", "healer", "reconciler"}
  Rotated = {}
  QuickTicks = FALSE
  HealMaxAttempts = 2
  HealDryRun = FALSE
  Seedless = {}
  HealedAs <- SameName
  deleteGiveUpAttempts = 2
  n1 = n1
  n2 = n2
  r1 = r1
  r2 = r2
  new1 = new1
PROPERTY BrokenIsHealed
CHECK_DEADLOCK FALSE
