\* A loop that read the row before a purge writes its copy back after it: the
\* deletion request is lost.
SPECIFICATION Spec
CONSTANTS
  FaultKinds = {}
  MaxFaults = 0
  MaxJobs = 1
  Nzbs = {n1}
  Releases = {r1}
  NoNzb = NoNzb
  NoRelease = NoRelease
  MaxDls = 1
  ReleaseOf <- OneRelease
  Handlers = {h1}
  ClientOps = {"add", "purge"}
  Loops = {"submitter", "poller", "deleter", "reaper"}
  Nested = {}
  missingPollThreshold = 2
  deleteGiveUpAttempts = 2
  n1 = n1
  n2 = n2
  r1 = r1
  r2 = r2
PROPERTY DeletionSticks
CHECK_DEADLOCK FALSE
