\* A purge of a row whose submission is in flight drops the row at once; the
\* download is created and nothing knows of it.
SPECIFICATION Spec
CONSTANTS
  FaultKinds = {}
  MaxFaults = 0
  MaxJobs = 1
  Nzbs = {n1}
  Releases = {r1}
  NoNzb = NoNzb
  NoRelease = NoRelease
  MaxDls = 1
  ReleaseOf <- OneRelease
  Handlers = {h1}
  ClientOps = {"add", "purge"}
  Loops = {"submitter", "poller", "deleter", "reaper"}
  Nested = {}
  missingPollThreshold = 2
  deleteGiveUpAttempts = 2
  n1 = n1
  n2 = n2
  r1 = r1
  r2 = r2
INVARIANT PurgedIsNotOrphaned
CHECK_DEADLOCK FALSE
