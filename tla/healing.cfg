\* Two imported jobs whose downloads TorBox has dropped, healed side by side
\* while the reaper drops rows; one comes back under its old or another name,
\* and no backoff is shorter than a tick of the healer. No link gets another
\* job's episode, a finished heal leaves a link that resolves, healthy links
\* are left alone and healthy jobs are not resubmitted.
SPECIFICATION Spec
CONSTANTS
  FaultKinds = {}
  MaxFaults = 0
  MaxJobs = 2
  Nzbs = {n1, n2}
  Releases = {r1, r2, new1}
  NoNzb = NoNzb
  NoRelease = NoRelease
  MaxDls = 4
  ReleaseOf <- OwnReleases
  Nested = {}
  Paths = {1, 2}
  Files <- AllFiles
  EpisodeOf <- Contents
  FilesOf <- OneFileEach
  Shelf <- OnePathEach
  Held <- RowHolds
  NoFile = NoFile
  MaxSyms = 2
  NoPath = 0
  Handlers = {h1}
  ClientOps = {}
  HealOps = {}
  Loops = {"healer", "reconciler", "reaper"}
  Rotated = {1, 2}
  QuickTicks = TRUE
  HealMaxAttempts = 1
  HealDryRun = FALSE
  Seedless = {}
  HealedAs <- MaybeRenamed
  deleteGiveUpAttempts = 2
  n1 = n1
  n2 = n2
  r1 = r1
  r2 = r2
  new1 = new1
INVARIANT LinkKeepsItsContent
PROPERTY HealedMeansResolved
PROPERTY ResubmittedOnlyIfBroken
PROPERTY RepointsOnlyBroken
CHECK_DEADLOCK FALSE
