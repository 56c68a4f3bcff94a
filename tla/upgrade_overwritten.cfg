\* The client imports a better copy over a link that was found broken; the heal
\* that is under way repoints it to the old release.
SPECIFICATION Spec
CONSTANTS
  FaultKinds = {"upgrade"}
  MaxFaults = 1
  MaxJobs = 2
  Nzbs = {n1, n2}
  Releases = {r1, r2}
  NoNzb = NoNzb
  NoRelease = NoRelease
  MaxDls = 3
  ReleaseOf <- OwnReleases
  Nested = {}
  Paths = {1}
  Files <- AllFiles
  EpisodeOf <- Contents
  FilesOf <- Proper
  Shelf <- OnePathEach
  Held <- RowHolds
  NoFile = NoFile
  MaxSyms = 1
  NoPath = 0
  Handlers = {h1}
  ClientOps = {}
  HealOps = {}
  Loops = {"healer", "reconciler"}
  Rotated = {1}
  QuickTicks = TRUE
  HealMaxAttempts = 1
  HealDryRun = FALSE
  Seedless = {}
  HealedAs <- SameName
  deleteGiveUpAttempts = 2
  n1 = n1
  n2 = n2
  r1 = r1
  r2 = r2
  new1 = new1
PROPERTY RepointsOnlyBroken
CHECK_DEADLOCK FALSE
