\* A job whose download is gone, healed by fair loops with one of eleven things
\* in between: a restart, a store error, a failed call or download, an
\* operator's request, a second rotation; backoffs may end in the middle of a
\* tick. Its link is repaired or the attempts run out, TorBox gets the NZB no
\* more often than HEAL_MAX_ATTEMPTS and what slipped the count allow, and no
\* job stays in healing.
SPECIFICATION FairSpec
CONSTANTS
  FaultKinds = {"rotate", "crash", "store", "lost", "refuse", "list", "hiccup", "fail", "link", "retry", "give_up"}
  MaxFaults = 1
  MaxJobs = 1
  Nzbs = {n1}
  Releases = {r1, new1}
  NoNzb = NoNzb
  NoRelease = NoRelease
  MaxDls = 6
  ReleaseOf <- OwnReleases
  Nested = {}
  Paths = {1}
  Files <- AllFiles
  EpisodeOf <- Contents
  FilesOf <- OneFileEach
  Shelf <- OnePathEach
  Held <- RowHolds
  NoFile = NoFile
  MaxSyms = 1
  NoPath = 0
  Handlers = {h1}
  ClientOps = {}
  HealOps = {"retry", "give_up"}
  Loops = {"healer", "reconciler"}
  Rotated = {1}
  QuickTicks = FALSE
  HealMaxAttempts = 2
  HealDryRun = FALSE
  Seedless = {}
  HealedAs <- Renamed
  deleteGiveUpAttempts = 2
  n1 = n1
  n2 = n2
  r1 = r1
  r2 = r2
  new1 = new1
INVARIANT AttemptsBounded
PROPERTY BrokenIsHealed
PROPERTY HealingSettles
PROPERTY StaleIsDropped
CHECK_DEADLOCK FALSE
