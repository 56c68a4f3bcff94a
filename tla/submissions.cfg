\* One NZB added, repeated and deleted by requests of which two are served at a
\* time, with fair submitter and deleter, under two of: a rate limit, a
\* refusal, a lost answer, a failed removal, a deletion with or without
\* del_files. The race of two requests does create two rows, contrary to
\* src/README.md:289, and never a third; no row is left in submitting, every
\* pending job is submitted, failed or deleted; only what was asked for is
\* removed, and its row goes after the download.
SPECIFICATION FairSpec
CONSTANTS
  FaultKinds = {"limit", "refuse", "lost", "control", "delete", "purge"}
  MaxFaults = 2
  MaxJobs = 3
  Nzbs = {n1}
  Releases = {r1}
  NoNzb = NoNzb
  NoRelease = NoRelease
  MaxDls = 5
  ReleaseOf <- OneRelease
  Handlers = {h1, h2}
  ClientOps = {"add", "delete", "purge"}
  Loops = {"submitter", "deleter"}
  Nested = {}
  missingPollThreshold = 2
  deleteGiveUpAttempts = 2
  n1 = n1
  n2 = n2
  r1 = r1
  r2 = r2
INVARIANT DuplicatesBounded
INVARIANT SubmittingIsInProgress
INVARIANT RowOwnsItsDownload
INVARIANT RemovedOnlyIfAsked
PROPERTY DroppedOnlyWhenRemoved
PROPERTY PendingIsSubmitted
CHECK_DEADLOCK FALSE
