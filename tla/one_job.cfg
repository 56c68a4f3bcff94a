\* One NZB through all four loops, the API and the client, with one of seven
\* faults and fair loops: types, rows move along the transition table although
\* whole stale rows are written back, every behaviour is one of the abstract
\* JobView; submitted jobs leave the queue, deletions end, empty release
\* directories are swept.
SPECIFICATION FairSpec
CONSTANTS
  FaultKinds = {"crash", "store", "list", "hiccup", "fail", "control", "vanish"}
  MaxFaults = 1
  MaxJobs = 1
  Nzbs = {n1}
  Releases = {r1}
  NoNzb = NoNzb
  NoRelease = NoRelease
  MaxDls = 1
  ReleaseOf <- OneRelease
  Handlers = {h1}
  ClientOps = {"add", "purge"}
  Loops = {"submitter", "poller", "deleter", "reaper"}
  Nested = {}
  missingPollThreshold = 2
  deleteGiveUpAttempts = 2
  n1 = n1
  n2 = n2
  r1 = r1
  r2 = r2
INVARIANT TypeOK
PROPERTY LegalTransitions
PROPERTY ImplementsJobView
PROPERTY ActiveSettles
PROPERTY DeletedIsDropped
PROPERTY EmptyIsSwept
CHECK_DEADLOCK FALSE
