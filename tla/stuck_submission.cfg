\* A restart after `submitting` was written leaves the row there; no loop ever
\* looks at it again.
SPECIFICATION Spec
CONSTANTS
  FaultKinds = {"crash"}
  MaxFaults = 1
  MaxJobs = 1
  Nzbs = {n1}
  Releases = {r1}
  NoNzb = NoNzb
  NoRelease = NoRelease
  MaxDls = 1
  ReleaseOf <- OneRelease
  Handlers = {h1}
  ClientOps = {"add"}
  Loops = {"submitter", "poller", "deleter", "reaper"}
  Nested = {}
  missingPollThreshold = 2
  deleteGiveUpAttempts = 2
  n1 = n1
  n2 = n2
  r1 = r1
  r2 = r2
INVARIANT SubmittingIsInProgress
CHECK_DEADLOCK FALSE
