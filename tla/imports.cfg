\* Two jobs, one of them with its files in subdirectories, submitted, polled,
\* imported and swept under three of: store errors, failed links, incomplete or
\* failed mylist calls, restarts, failed downloads, with a threshold of two
\* missing answers. History never advertises a directory without files, nothing
\* is marked imported that was not taken, a download TorBox still has is failed
\* only after that many answers in a row without it, an NZB gets a second row
\* only from a look-up that failed, and /refresh waits for the jobs known to be
\* transferring.
SPECIFICATION Spec
CONSTANTS
  FaultKinds = {"store", "link", "hiccup", "crash", "fail", "list"}
  MaxFaults = 3
  MaxJobs = 2
  Nzbs = {n1, n2}
  Releases = {r1, r2}
  NoNzb = NoNzb
  NoRelease = NoRelease
  MaxDls = 3
  ReleaseOf <- OwnReleases
  Handlers = {h1}
  ClientOps = {"add"}
  Loops = {"submitter", "poller", "reaper"}
  Nested = {r1}
  missingPollThreshold = 2
  deleteGiveUpAttempts = 2
  n1 = n1
  n2 = n2
  r1 = r1
  r2 = r2
INVARIANT DuplicatesBounded
INVARIANT SubmittedAtMostOnce
INVARIANT CompletedIsImportable
INVARIANT ImportedIsTaken
PROPERTY FailedOnlyAfterAbsences
PROPERTY RefreshOnlyWhenIdle
CHECK_DEADLOCK FALSE
