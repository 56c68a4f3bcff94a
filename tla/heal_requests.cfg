\* The API's deletions, the deleter, an operator's give_up and a client that
\* renames, all while a job is healed: types, no symlink row without its job,
\* no download removed that nobody asked to remove.
SPECIFICATION Spec
CONSTANTS
  FaultKinds = {"give_up", "rename"}
  MaxFaults = 1
  MaxJobs = 1
  Nzbs = {n1}
  Releases = {r1}
  NoNzb = NoNzb
  NoRelease = NoRelease
  MaxDls = 2
  ReleaseOf <- OwnReleases
  Nested = {}
  Paths = {1, 2}
  Files <- AllFiles
  EpisodeOf <- Contents
  FilesOf <- OneFileEach
  Shelf <- OnePathEach
  Held <- RowHolds
  NoFile = NoFile
  MaxSyms = 2
  NoPath = 0
  Handlers = {h1}
  ClientOps = {"delete", "purge"}
  HealOps = {"give_up"}
  Loops = {"healer", "reconciler", "deleter"}
  Rotated = {1}
  QuickTicks = FALSE
  HealMaxAttempts = 1
  HealDryRun = FALSE
  Seedless = {}
  HealedAs <- SameName
  deleteGiveUpAttempts = 2
  n1 = n1
  n2 = n2
  r1 = r1
  r2 = r2
  new1 = new1
INVARIANT TypeOK
INVARIANT OwnersExist
INVARIANT RemovedOnlyIfAsked
CHECK_DEADLOCK FALSE
