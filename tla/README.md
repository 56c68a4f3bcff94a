# sab2torbox: formal specification

sab2torbox pretends to be SABnzbd for Sonarr and Radarr, hands their NZBs to
TorBox, publishes the finished downloads as a farm of symlinks that point into
TorBox's WebDAV mount, and heals the library those links were moved to when
TorBox drops a download. This directory holds TLA+ modules that model the
program, TLC configurations that check small instances of it, and proofs that
TLAPS checks for every instance.

Paths of the form `poller.go:97` are in `internal/worker/` unless another
directory is named.

## 1. The system

Up to six loops (`worker.go`), each in a goroutine of its own with its own
ticker, and one goroutine per HTTP request share a SQLite database of jobs and
tracked symlinks, a TorBox account, the WebDAV mount, the farm and the library.
They do not talk to each other. The database is the only thing that coordinates
them, and they use it in a way that makes the system hard to get right: every
actor **reads a row in one statement, works for a while, and writes all of its
columns back in another** (`UpdateJob`, store.go:133). There is no transaction
around the two, and no condition on the state the row had.

| component | state it keeps | operations | what makes it correct |
|---|---|---|---|
| Store (`internal/store`) | jobs table | one SQL statement each, one connection | statements are atomic; ids are never reused |
| Store (`internal/store`) | `imported_symlinks` | upsert by path, verify, retarget, delete; cascade | a symlink row has a job; one row per path |
| SAB API (`internal/api`) | requests in progress | addurl, addfile, delete (queue/history), queue, history | no rows for an NZB beyond those that raced for it; a deletion that was accepted happens |
| Operator's API (`handlers.go`) | requests in progress | heal `retry`, `give_up` | the count starts again; a job given up is left alone |
| Submitter (`submitter.go`) | rows of the tick, cooldown after a 429 | `submitOnce`, `submitJob` | one submission per row; nothing stays `pending` or `submitting` |
| Poller (`poller.go`, `webdav.go`) | rows of the tick, `missingPolls`, refresh cooldown | `pollOnce`, `handleMissing`, `reconcile`, `maybeRefreshWebDAV` | a job completes only with files, fails only if lost, and does one of the two |
| Deleter (`deleter.go`) | rows of the tick, `deleteAttempts` | `deleteOnce`, `deleteJob` | removes what was asked for, nothing else, and ends |
| Reaper (`reaper.go`) | rows, paths and directories of the tick | `detectImports`, `ReapImported`, sweep | `imported` means imported; no directory in use is swept, every empty one is |
| Farm (`symlink.go`) | release directories | build, remove, classify | what history names can be imported |
| Healer (`healer.go`, `healOnce`) | the tick's releases, rows and broken jobs | discover, detect, resubmit | resubmits only what is broken, not more often than allowed |
| Reconciler (`healer.go`, `healReconcileOnce`) | the tick's rows, a mylist answer | finish or fail a heal, repoint links | a link keeps its content; a heal ends |
| Library (`symlink.go`) | the links the client owns | match a file, replace a link atomically | never points at other content |
| Health, webhook, responses, config | ping cache; none | | not modelled |

TorBox, the mount and the client that imports, renames and upgrades are outside
the program. They are modelled from how `internal/torbox/client.go` and
`internal/worker` use them.

### What is hard

* **Stale rows.** Between reading and writing a row any other actor may write
  or delete it. The poller may wait 30 s for a path in between; a heal trusts an
  `is_broken` that is as old as the download took.
* **Crash and restart.** `submitting` is persisted before the call to TorBox,
  `healing` after it; the counters of the poller and the deleter are not
  persisted at all.
* **Calls that fail half way.** TorBox may create a download and lose the
  answer, mylist may leave a download out, a deletion may keep failing.
* **A filesystem shared with others.** The poller fills, the client empties,
  the sweep and the deleter remove the same directories, and the state of a
  directory is what tells the reaper that an import took place. The client
  renames and replaces the links that the reconciler repoints.
* **Two loops on one table.** Healer and reconciler rewrite the same symlink
  rows; a row may change its job and its target between two of their statements.
* **Counters and cooldowns** at their limits: the poll at which a missing job
  fails, the attempt at which a deletion or a heal is given up, the 429 that
  abandons the rest of a tick.

`PROJECT.json` lists every hazard at its line with the properties that cover it.

## 2. The modules

```
Job      Faults
   \      /
    Store ------------------ SabApi
      |                        |
    TorBox ---- Submitter      |
      |             |          |
     Farm ----------+----------+----- Library
    / | \           |          |        |
Poller | Reaper     |          |     SymlinkStore
    Deleter         |          |        |
       \____________|_________/|      Healer
             |                 |     /      \
             |                 | HealReconciler  HealApi
             |                 |     \      /
          Pipeline             +---- Healing (with Deleter)
         /   |    \                  /      \
  JobView MCPipeline PipelineProofs MCHealing HealingProofs
                   |        \                /       |
               CopyProofs    RowProofs, Greatest  RepairProofs
                   |
              SubmitProofs, OutcomeProofs
```

| module | models | how its state corresponds to the code |
|---|---|---|
| `Job` | `internal/job/job.go` | the states and the `transitions` table |
| `Faults` | what may go wrong around the program, and what others do to a library | one budget: kinds of fault and how many |
| `Store` | `internal/store/store.go`, jobs | `jobs` is the table by id, `nextId` the AUTOINCREMENT counter. A row keeps `state`, `nzb` (content or URL, with the category: the de-duplication key), `tb` (`TorBoxID`), `path` (`StoragePath`), `aged` (`updated_at` older than `importedTTL`), `heals` (`HealCount`) and `healed` (`LastHealedAt`: never, within the backoff, or before it) |
| `SymlinkStore` | `internal/store/store.go`, imported_symlinks | `syms` by id with `job`, `path`, `target`, `broken`; `Cascade` is the foreign key's ON DELETE CASCADE, which the compositions put beside every statement that drops rows of jobs |
| `TorBox` | the three client calls; account and mount (external) | `dl` by TorBox id, `mount` by release folder: absent, empty (folder before contents) or full |
| `Farm` | `symlink.go`; the client's import (external) | `farm` by release: absent, empty, hollow (only subdirectories) or linked; `library` is a history variable: releases whose links were moved out |
| `Library` | `symlink.go`: `lcp`, `findBestMatch`, `atomicReplaceSymlink`; the client (external) | `links` by path: the release and file it points to; `owner` is a history variable: the content the client last put at a path. A file name is a sequence of parts, enough for the comparison of extensions and prefixes |
| `SabApi` | `handlers.go` | `req` is what each goroutine holds between its read and its write; `asked` is a history variable: rows whose deletion was requested with `del_files=1` |
| `HealApi` | `handlers.go`: retry and give_up | `hreq` likewise; `waived` is a history variable: rows somebody asked to give up |
| `Submitter` | `submitter.go` | `subTodo`: the copies not handled yet; `subPc`: mark, call, save; `subCooling`: `submitBackoffUntil` is in the future |
| `Poller` | `poller.go`, `webdav.go` | `polTodo`, `polList` (`byID`), `polFlags` (`ongoing`, `awaiting`), `missingPolls`, `refreshHeld` |
| `Deleter` | `deleter.go` | `delTodo`, `deleteAttempts`, `delPc`: call, dir, row |
| `Reaper` | `reaper.go` | `reapTodo`, `reapActive` (`activeSet`), `reapLeft`, `reapDir` |
| `Healer` | `healer.go`: `healOnce` | `byRelease` (the map of `discoverSymlinks`), `healWalk`, `healSyms`, `eligible`, `brokenJobs`, `healRow`; `attempts` is a history variable: resubmissions since the count was last cleared. A restart leaves it alone |
| `HealReconciler` | `healer.go`: `healReconcileOnce`, `finishHeal` | `recTodo`, `recList` (`byID`), `recSyms`, `recSeen` and `recHealed` (the two counts, as none or some), `recNew` |
| `Pipeline` | `worker.go`, `cmd/sab2torbox/main.go` | the four loops that every installation runs, the API, the client; restarts. Two history variables: `absences`, how many answers of mylist in a row have left a download out since the process started, and `failedLookups`, how often the look-up for an NZB failed although it had a row |
| `Healing` | the same with `HEAL_ENABLED` | healer and reconciler beside deleter, reaper, API and operator, over rows that an earlier run imported. `uncounted` is a history variable: those of the `attempts` that may be in no count |
| `JobView` | abstract | what a client may rely on: the place of each id in queue and history |
| `RowProofs` | | what is proved of the table, the API, the account and the deleter, whatever loops run |
| `PipelineProofs`, `HealingProofs` | | the inductive invariants of the two compositions, and what follows from them |
| `CopyProofs` | | how the copies of a row relate to the row as it is now; the refinement of `JobView` |
| `SubmitProofs` | | submissions and duplicates |
| `OutcomeProofs` | | failures, refreshes, imports and deletions |
| `RepairProofs` | | links and attempts of healing |
| `Greatest` | | that a non-empty bounded set of numbers has a greatest element |

There are two compositions because a job is healed only after it was imported.
`Healing` starts from rows in `imported`, each with its links in the library and
its download on the account, or dropped from it (`Rotated`): the states in which
the pipeline leaves jobs. Nothing is added, so submitter and poller would find
no row and are left out, and the reaper has only `ReapImported` to do.

Every statement on the database, every call to TorBox and every change of the
file system is a step of its own wherever another actor could tell the
difference. What is combined into one step, and why that is sound:

* A change of an actor's own memory goes with the step next to it. The counters
  pruned at the end of a tick of the poller and the deleter are pruned when the
  next list or load takes place; nothing reads them in between.
* `detectImports` classifies a directory and writes the row in one step. The
  window between the two is microseconds of the same iteration; the copy of the
  row is as old as the load at the start of the tick, which is a separate step,
  so a stale write is in the model, only a directory that changes within this
  window is not.
* `buildSymlinkFarm`, with the `removeSymlinkDir` that may follow it, is one
  step, and so is `os.RemoveAll`.
* `discoverSymlinks` reads a link and upserts its row in one step: the next walk
  records what a link points to by then.
* `detectBrokenSymlinks` lists rows and eligible jobs in one step. A row whose
  job goes between the two queries is deleted once more, which changes nothing.
* `finishHeal` looks for the release folder and loads the broken rows in one step.
  It looks into the folder, finds the file and replaces a link in another one: the
  mount would have to change between the two calls.

Other abstractions:

* The sweep lists a category directory and then looks at its entries; in the model
  it looks at every release, also at one created after the listing.
* Ticks that find nothing to do, or cannot load their rows, are stutters and
  are left out (the reaper and the healer, which go on after such an error, have
  it as a step).
* Transient errors of a submission are retried inside `call`; only their
  outcome is a step. A retry that follows a lost answer is `SubAnswerLost`. The
  healer retries nothing.
* Time is abstracted: a cooldown ends by a step that may come at any time. The
  heal backoff (five minutes by default, doubled per attempt) may end at any time
  too, also in the middle of a tick of the healer, which stats the library over
  WebDAV and calls TorBox for one job after the other. `QuickTicks = TRUE` is the
  assumption, which the code does not guarantee, that no tick outlasts a backoff; it
  is made in `healing` and `upgrade_overwritten` only.
* `handleDelete` with several ids is several requests, one after the other.
* A shutdown is a crash: the program saves nothing when it stops.
* Paths are numbers in the order of `filepath.WalkDir`; only links into the
  mount's root are in `links`, as discovery skips all others.
* Parts of file names are of about equal length, so that "more than half of the
  name" means the same in parts as in bytes.
* A download that TorBox reports as failed or stalled stays so.

### Bounds

The constants are bounds: `MaxJobs` rows, `MaxDls` downloads, `MaxSyms` symlink
rows, `MaxFaults` faults, `Handlers` concurrent requests (two in `submissions`, one
elsewhere; `MaxDls` exceeds
`MaxJobs` wherever a second submission of a row is what a property excludes or a
fault allows). `missingPollThreshold`, `deleteGiveUpAttempts` and
`HealMaxAttempts` (6, 60 and 3 in the code, 1 to 3 in the runs: the code only
compares the counters with them, so what matters is that there is a count below,
at and above). `Loops` says which loops tick in a run, `ClientOps` and `HealOps`
what is requested; a run leaves out what cannot influence its property, to afford
a second job. Requests to delete are not bounded, except in `submissions` and
wherever else `FaultKinds` lists them: each then takes one from the budget. In `imports` the budget is larger than `missingPollThreshold`, so
that absences, failed polls and restarts in any order could reach it if they added
up. One row is enough for races on a row; two rows are in the runs where
rows can be confused with each other: downloads, shared directories, the rest of
an abandoned tick, links that change owners. In `healing` TorBox may bring a
release back under its old name or another one. `healing` and `heal_faults` have
as many downloads as their faults and attempts allow to be made, `heal_requests`
only one resubmission: a second one after a successful heal is cut off there.

Deadlock is not checked: the system stops legitimately when every job is done
and no more may be created.

### Fairness

`FairSpec` of both compositions assumes weak fairness of each loop and of TorBox.
`loop` (`worker.go:113`) runs each function at once and then at every tick for as
long as the process runs, no loop waits for another, and every call has a
timeout, so each loop takes its next step if it stays possible. Fairness of a
loop as a whole is enough: only one of its steps is possible at a time, apart
from the outcomes of one call, and a fault, whose number is bounded. TorBox is
assumed to finish or fail each download and to bring the mount up to date. The
end of a heal backoff has strong fairness: time passes although the healer ticks
and begins other backoffs. There is no fairness for
the client, the operator, faults, restarts or the clock of the reaper (`Healing`
has weak fairness of a tick of the reaper, and none of the day it waits for).

## 3. What the runs check

Passing runs:

| run | jobs | faults | question |
|---|---|---|---|
| `one_job` | 1 | 1 of seven kinds | All types; rows move along the transition table; refinement of `JobView`; submitted jobs settle, deletions end, empty directories go |
| `imports` | 2, one nested | 3 of six kinds | At most one submission per row; a completed row can be imported or was; an imported one was taken; a job TorBox still has is failed only after a threshold of answers in a row without it; rows of one NZB; `/refresh` waits for transfers |
| `submissions` | 3 of one NZB, two requests at once | 2 of six kinds, deletions among them | No more rows for an NZB than requests raced for it; `submitting` means in progress if nothing crashes; a submitted row names its own download; only what was asked for is removed, the row goes after the download; pending jobs are submitted, also after a 429 |
| `healing` | 2, 2 links | none, both rotated; `QuickTicks` | No link gets another job's content; a finished heal has repointed something; healthy links are left alone, healthy jobs not resubmitted |
| `heal_faults` | 1 | 1 of eleven kinds | TorBox gets an NZB at most `HEAL_MAX_ATTEMPTS` times, and once more where the count was lost; a broken link is repaired or the attempts run out; no job stays in `healing`; rows of jobs out of the healer's hands go |
| `heal_requests` | 1, 2 links | a give_up or a rename | Types; no symlink row without a job; only what was asked for is removed, while purges and deletions meet a heal |

`heal_faults` and `submissions` have about 40 000 distinct states, the others between
110 000 and 2.1 million.

Three of the properties compare what the code does with history variables, because the
code's own counters are what is in doubt:

* `FailedOnlyAfterAbsences`: `handleMissing` counts in `missingPolls`; `absences` counts
  the answers themselves. It begins anew when an answer has the download, when the job
  is not polled and at a restart. A poller that kept its counter over an answer that
  had the download (the mutant), or counted failed calls, would fail a job too early.
* `DuplicatesBounded`: the rows an NZB has and those about to be inserted are no more
  than there are handlers, plus one for each look-up whose error was dropped.
* `AttemptsBounded`: `attempts` counts the calls, and no restart, failed write or old
  copy takes one back. `uncounted` counts three events that the code has no record of:
  a restart between a resubmission and the row it is written to, a `heal_failed` that
  cannot be written, and a resubmission while the reconciler is about to write an
  older copy of the row. Each allows one more, until the count is cleared.

`JobView` is the promise to a SAB client. Each id has a place: not given out
yet, queue, history, taken (imported, shown nowhere), deleting or gone. A job in
history does not return to the queue; an import that was noticed does not return
to history; an id that is gone never shows again, although rows are written back
from old copies. The only way back is from a deletion that was lost, which the
code does allow (below).

Violation runs, each the disagreement of the code with a sentence of the
repository; the findings in `PROJECT.json` quote both:

| run | what happens |
|---|---|
| `lost_delete` | the poller or the reaper writes an old copy over `deleted`: the deletion is forgotten |
| `orphaned_download` | a purge during a submission drops the row, TorBox keeps the download |
| `stuck_submission` | after a restart a row stays in `submitting` for ever |
| `reaped_seed` | the reaper drops the imported row, with its NZB, after a day; a link that breaks a month later is never healed |
| `upgrade_overwritten` | the client imports a better copy over a broken link; the heal under way repoints it to the old release |
| `wrong_episode` | one episode of a season pack comes back under an obscured name; `findBestMatch` takes the next episode for it |

More disagreements were met than runs were kept for. They can be reproduced from
the configurations at hand:

* **Two requests at once create two rows for one NZB**, and so does a look-up whose
  error is dropped, since it and the insertion are two statements (handlers.go:149-183).
  The repository's README says (lines 289-291) that sab2torbox "deduplicates by NZB
  SHA256 (`addfile`) or by URL (`addurl`), scoped to the category, and returns the
  existing job ID instead of submitting twice". That is not met: `submissions` reaches
  two rows of one NZB with two handlers, `imports` with one and a failed look-up. There
  is no run that only shows this; the property of both runs, `DuplicatesBounded`, says
  what is left of the promise, and `Cardinality(RowsOf(k)) <= 1` in its place is violated
  in both.
* **A directory the deleter removed is taken for an import**: `imports` with
  `ClientOps = {"add", "purge"}` and all four loops violates `ImportedIsTaken`.
* **A directory with subdirectories left in it is never removed**: `one_job` with
  `Nested = {r1}` violates `EmptyIsSwept`.
* The `transitions` table does not allow the deletion of a row before it
  completes, which `handleDelete` performs in any state, and `/refresh` may fire
  while a job transfers that was submitted after the tick loaded its rows.
  `LegalTransitions` and `RefreshOnlyWhenIdle` are stated without these.
* **A give_up may be undone** by a healer that read the row before: `heal_faults`
  with two faults of the kinds "refuse" and "give_up" violates `GiveUpSticks`.
* A purge during a heal is lost in the same way as `lost_delete`, and a healing
  job whose new download never shows in mylist heals for ever: the reconciler
  has no threshold like the poller's (`heal_faults` with the kind "vanish"
  violates `HealingSettles`).
* **Resubmissions that nobody counts.** A restart after the call of healer.go:312 and
  before the write of :326 leaves a download and no trace of the attempt, so that the
  number of submissions over many restarts has no bound but the restarts. Two lost
  writes of one attempt, of `healing` and then of `heal_failed`, do the same, and so
  does a retry that an operator asks for while the healer has the row in hand, followed
  by lost answers: the reconciler writes an older copy, which takes a count back.
  "Give up healing a job after this many consecutive failures" holds only up to
  `uncounted`.
* **A tick of the healer that outlasts a backoff** resubmits a job that has just been
  healed, for flags that are older than the heal: `healing` with `QuickTicks = FALSE`
  violates `ResubmittedOnlyIfBroken`, and `RepointsOnlyBroken` when that second heal
  finishes. `LinkKeepsItsContent` and `HealedMeansResolved` hold without it.
* A link that the client renames during a heal loses its row at the next check:
  the reconciler finds no broken link and counts the heal as done, with an empty
  release folder too. If the release came back under another name, the renamed
  link maps to no row any more and stays broken. (This is why
  `HealedMeansResolved` speaks of jobs with tracked links and `heal_faults` has no
  renames: with the kind "rename", two paths and two symlink rows it violates
  `BrokenIsHealed`.)
* A vanished download lets the sweep remove a directory that its stale set of
  active paths does not hold (`imports` with the kind "vanish").

Consequences for the passing runs, so that their scope is clear:

* `SubmittedAtMostOnce` is checked without lost answers: with them the retry
  loop submits twice.
* `ImportedIsTaken` and `CompletedIsImportable` are checked without deletions by
  the client and without vanishing downloads.
* `EmptyIsSwept` is checked with a release that has no subdirectories, see above for one
  that has.
* `RowOwnsItsDownload` is checked without poller and reaper, whose old copies the theorem
  covers.
* `SubmittingIsInProgress` is checked without crashes and store errors.
* `DuplicatesBounded` meets the race of two requests in `submissions` and failed look-ups
  in `imports`, not both in one run; the theorem covers any number of both.
* `FailedOnlyAfterAbsences` speaks of downloads that TorBox has; with more absences in a
  row than the threshold, which `imports` has, the code fails such a job by design.
* `DroppedOnlyWhenRemoved` speaks of the row the deleter is at and is checked with
  fewer failing calls than `deleteGiveUpAttempts`, at which the code drops the row
  whatever TorBox says. So it is a check of the limit; that a counter starts from zero
  for another deletion is not put to the test by it.
* `AttemptsBounded` is checked with one fault; the theorem covers any number.
* `ActiveSettles` and `DeletedIsDropped` are about the states after `submitting`,
  in which a crash may leave a row.
* `RepointsOnlyBroken` and `LinkKeepsItsContent` are checked in `healing` without
  upgrades and with names that `findBestMatch` can tell apart; the former, and
  `ResubmittedOnlyIfBroken`, rest on `QuickTicks`.
* `HealingSettles` and `BrokenIsHealed` are checked in `heal_faults` without
  vanishing resubmissions and without the reaper.

Every property of a passing run has a mutant in `PROJECT.json`: a plausible bug
in a modelled definition under which TLC finds the property violated. The
operators they use stand next to the original, marked "Mutant".

## 4. What is proved

For all values of the constants that satisfy the named assumptions of the
modules, that is for any numbers of jobs, requests, downloads, links and faults.
Where the last column is empty the theorem holds with faults of every kind,
crashes and lost answers included; elsewhere it names the hypothesis.

| module | theorem | statement | hypothesis |
|---|---|---|---|
| `PipelineProofs` | `Invariance` | `Spec => []IInv` | |
| | `TypeCorrect` | `Spec => []TypeOK` | |
| | `OwnershipCorrect` | `Spec => []RowOwnsItsDownload` | |
| | `DeletionCorrect` | `Spec => []RemovedOnlyIfAsked` | |
| `CopyProofs` | `CopiesCorrect` | `Spec => []CopiesInv` | |
| | `TransitionsLegal` | `Spec => LegalTransitions` | |
| | `RefinesJobView` | `Spec => ImplementsJobView` | |
| `SubmitProofs` | `NeverSubmittedTwice` | `Spec => []SubmittedAtMostOnce` | no lost answers |
| | `SubmittingInProgress` | `Spec => []SubmittingIsInProgress` | no crashes, no failing statements |
| | `DuplicatesCounted` | `Spec => []DuplicatesBounded` | |
| `OutcomeProofs` | `FailuresAreReal` | `Spec => FailedOnlyAfterAbsences` | |
| | `RefreshWaits` | `Spec => RefreshOnlyWhenIdle` | |
| | `CompletedStaysImportable` | `Spec => []CompletedIsImportable` | no `del_files=1`, nothing vanishes from TorBox |
| | `ImportsAreReal` | `Spec => []ImportedIsTaken` | the same |
| | `DropsAreClean` | `Spec => DroppedOnlyWhenRemoved` | fewer faults than `deleteGiveUpAttempts` |
| `HealingProofs` | `Invariance` | `Spec => []IInv` | |
| | `TypeCorrect` | `Spec => []TypeOK` | |
| | `OwnersCorrect` | `Spec => []OwnersExist` | |
| | `DeletionCorrect` | `Spec => []RemovedOnlyIfAsked` | |
| `RepairProofs` | `LinksCorrect` | `Spec => []LinkKeepsItsContent` | `NamesDiffer`, `MatchesAreRight`, `ShelfIsImported`, no upgrades |
| | `AttemptsCorrect` | `Spec => []AttemptsBounded` | |

The hypotheses are the conditions under which the code keeps the promise, and the
runs are instances of them. That they are needed is shown by `stuck_submission`,
`upgrade_overwritten` and `wrong_episode`, runs that drop one, and by the
configurations of section 3 that drop others. Fewer faults than
`deleteGiveUpAttempts` is what that limit is for: one more and the code gives up.

### The invariants

None of these properties is inductive. A row is overwritten from copies that the
loops and the requests hold, so a property of the table must be a property of
every copy as well. That is `IInv`: **every copy of a row, wherever it is held,
is well formed**. `WellFormed(D, A, id, row)` says, against the downloads `D`
and the requested deletions `A`: the row has its type; a row with a TorBox id
names a download created for this very id; a submitted one has such an id; a
`deleted` row was asked to be deleted. Each loop adds which states its copies can
have. The argument why a copy stays well formed while its holder sleeps is the
predicate `Grows`: downloads never change hands, and requests to delete are never
taken back, whatever the others do (`TableKept`, `ServingKept`). So the proof
that a step preserves `IInv` looks at the actor that moves and cites one lemma
for each of the others. `RowProofs` holds what the two compositions share: the
table, the API, the account and the deleter. Each composition adds one lemma per
actor with one step per action, and `NextIInv` puts them together.

**Copies and rows** (`CopyProofs`). `IInv` says nothing of what has become of the
row since it was copied. `CopiesInv` does, loop by loop: while the submitter has a
copy the row is still `pending`, or `submitting` if a call is under way, or gone;
while the poller has one it is still in the state that was copied, or active if the
copy is about to be written as completed, or deleted, or gone; the reaper's row is
completed, deleted or gone, and never one that the poller holds too. A copy agrees
with its row on the NZB and the download. To show that an actor keeps the others'
copies in step it is enough to say what it does to one row: withdraw it, create it,
or move it on (`Withdrawn`, `Created`, and so on), so there are as many of these as
there are kinds of change, not as pairs of actors. `LegalTransitions` and the step
simulation of `JobView` are read off them.

**Submissions** (`SubmitProofs`). `OnceInv`: neither a pending row nor a copy the
submitter has yet to send has a download on TorBox; without lost answers, a call that
created one writes `queued`, or leaves `submitting`, which is not loaded again.
`DuplicatesBounded` is inductive beside these: a look-up that finds nothing proves that
there are no rows, and the handlers are all that can be about to insert one; a look-up
that failed is counted; an insertion turns an intention into a row; and no write gives a
row another NZB (`NzbKept`), whatever copy it is made from. The cardinalities are those
of finite sets, by the library's theorems.

**Outcomes** (`OutcomeProofs`). `MissedInv`: `missingPolls` never exceeds `absences`, and
is below it for a download that the answer of this tick leaves out and whose job is still
to be looked at. What makes it work is that the poller resets its counter wherever the
history variable begins anew: at an answer with the download, when the job is not polled,
and at a restart. `ListedInv`: what the tick takes for failed has failed. The deleter's
counter is bounded by the faults there have been: `CountedInv` and `RemovalsInv`. `TickInv`: a row
already downloading, which the list of this tick shows as working, has set the
`ongoing` flag or is still to be looked at. `ImportInv`: what is linked has its target on the mount,
so the sweep finds nothing broken and removes nothing that a completed row, or a copy
about to be written as completed, points to.

**Links** (`RepairProofs`). Three things lead the healer from a path to a release: the
map of `discoverSymlinks`, the rows of `imported_symlinks`, and the reconciler's copies
of them. `OursInv` says that a row that may be healed, every copy of it, and every
download bear a name of the NZB that the row is about, and so does the map.
`LinksInv` says that a link, the target that a symlink row remembers for it, and the
one the reconciler is about to record all show the content the client put there. The
hypotheses are about data, and the constants of the passing runs satisfy them: two
NZBs never share a release name (`NamesDiffer`), among the files of an NZB
`findBestMatch` prefers none of another episode (`MatchesAreRight`), and the library
at first holds files of the imported releases (`ShelfIsImported`).

**Attempts** (`RepairProofs`). `HealsInv` bounds the count in each row and each copy of
a row, in the state in which its holder will write it. `AttemptsInv` says where each
resubmission is counted: in the row; in what the healer is about to write; for a row in
`healing`, in the failure that the reconciler would write, which is one more than its
copy says; or in `uncounted`. The case that makes it hard is a copy of the reconciler
that outlived its row's return to `heal_failed`, which an operator's retry and a failed
write make possible: the healer may then count in the row what that copy takes back,
and this is why `HealSlips` looks at `recTodo`.

`Greatest` serves the map of `discoverSymlinks`, where the last job with a release name
wins. In `HealingProofs` a resubmission gives a row another download. The copies that
the healer, the reconciler and the operator hold stay well formed because the new
download is created for the same id (`CreateOK`), and a copy from before names
the old one, which still belongs to it. `SymInv` adds that a symlink row belongs
to a row of the table. Statements that write one job keep all rows in place
(`RowsStay`); the three that drop jobs (a request, the deleter, `ReapImported`)
take their symlink rows along (`CascadeOK`); and an upsert from a map made before
a purge is refused by the foreign key (`UpsertOK`).

### Only model-checked

The action properties of healing (`HealedMeansResolved`, `ResubmittedOnlyIfBroken`,
`RepointsOnlyBroken`), which need what the flag `is_broken` says of the link now. Every
invariant and every other action property that a passing run checks is a theorem.
Liveness under fairness (`ActiveSettles`, `DeletedIsDropped`, `EmptyIsSwept`,
`PendingIsSubmitted`, `BrokenIsHealed`, `HealingSettles`, `StaleIsDropped`) is out of
this prover's reach, as is anything about ENABLED, and stays with TLC.

## 5. Not modelled, and the plan

Not modelled:

* the webhook, which changes no state and whose outcome is dropped;
* the conversions of rows into SAB answers and the configuration, which change
  nothing after the start;
* the health check, a cached ping that no other part reads;
* partial listings of a release folder, categories and path names.

Planned, in this order:

1. Proofs of the three action properties of healing, from an invariant that relates
   `is_broken`, the copies of a symlink row and the link at its path.
2. `HealBackoff`: the doubling of a fixed-width duration and its bound, and
   `formatTimeLeft`, `isWithin` and `releaseUnderRoot` as functions checked
   against reference definitions over bounded inputs.
3. The farm with partial listings and categories.
4. `Health`: the cached ping with probes that go away.
