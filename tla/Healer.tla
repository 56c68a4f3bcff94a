-------------------------------- MODULE Healer --------------------------------
(***************************************************************************)
(* internal/worker/healer.go, healOnce: the hourly loop that finds the     *)
(* library's links into the mount, checks them, and resubmits the NZB of   *)
(* each job with a broken one.                                             *)
(*                                                                         *)
(* One tick walks the library ("walk"), checks the rows ("detect"; "mark"  *)
(* writes what was seen), and goes through the jobs with broken links      *)
(* ("trigger"); a job that is healed is submitted ("call") and written     *)
(* ("save"), or written as failed ("fail").                                *)
(***************************************************************************)
EXTENDS SymlinkStore

CONSTANTS HealMaxAttempts,  \* HEAL_MAX_ATTEMPTS
          HealDryRun,       \* HEAL_DRY_RUN
          Seedless,         \* the rows whose NZB was not kept
          HealedAs          \* the names TorBox may give a resubmitted NZB

ASSUME HealerAssumption == /\ HealMaxAttempts \in Nat \ {0}
                           /\ HealDryRun \in BOOLEAN
                           /\ Seedless \subseteq JobIds
                           /\ HealedAs \in [Nzbs -> SUBSET Releases]

VARIABLES healPc,        \* where healOnce is
          byRelease,     \* the row each release name maps to, 0 for none
          healWalk,      \* the paths still to walk
          healSyms,      \* the symlink rows still to check
          eligible,      \* the rows that were heal-relevant when these were listed
          seenBroken,    \* what stat said of the one being checked
          brokenJobs,    \* the rows with broken links still to go through
          healId,        \* the row being healed, 0 for none
          healRow,       \* and its copy
          attempts       \* resubmissions of a row since its count was last cleared

healLocals == <<healPc, byRelease, healWalk, healSyms, eligible, seenBroken,
                brokenJobs, healId, healRow>>
healVars == <<healLocals, attempts>>

HealRelevant == {"imported", "healing", "heal_failed"}

NoReleases == [r \in Releases |-> 0]

HealType == /\ healPc \in {"idle", "walk", "detect", "mark", "trigger", "call", "save", "fail"}
            /\ byRelease \in [Releases -> JobIds \cup {0}]
            /\ healWalk \in SUBSET Paths
            /\ healSyms \in SUBSET SymIds
            /\ eligible \in SUBSET JobIds
            /\ seenBroken \in BOOLEAN
            /\ brokenJobs \in SUBSET JobIds
            /\ healId \in JobIds \cup {0}
            /\ healRow \in Row
            /\ attempts \in [JobIds -> Nat]

HealInit == /\ healPc = "idle" /\ byRelease = NoReleases
            /\ healWalk = {} /\ healSyms = {} /\ eligible = {} /\ seenBroken = FALSE
            /\ brokenJobs = {} /\ healId = 0 /\ healRow = NoRow
            /\ attempts = [id \in JobIds |-> 0]

HealReturn == /\ healPc' = "idle" /\ byRelease' = NoReleases
              /\ healWalk' = {} /\ healSyms' = {} /\ eligible' = {} /\ seenBroken' = FALSE
              /\ brokenJobs' = {} /\ healId' = 0 /\ healRow' = NoRow

-----------------------------------------------------------------------------
(* discoverSymlinks *)

\* Of the jobs whose release folder has this name the last one wins.
LastWith(r) == LET S == {id \in JobIds : jobs[id].state \in HealRelevant /\ jobs[id].path = r}
               IN  IF S = {} THEN 0 ELSE CHOOSE id \in S : \A other \in S : other <= id

\* If the rows cannot be loaded nothing is discovered, and the tick goes on.
HealLoad == /\ healPc = "idle"
            /\ \/ byRelease' = [r \in Releases |-> LastWith(r)] /\ healWalk' = Paths /\ NoFault
               \/ byRelease' = NoReleases /\ healWalk' = {} /\ Fault("store")
            /\ healPc' = "walk"
            /\ UNCHANGED <<healSyms, eligible, seenBroken, brokenJobs, healId, healRow, attempts>>
            /\ UNCHANGED <<storeVars, torboxVars, farmVars, libraryVars, symVars>>

Mapped(p) == links[p] # NoLink /\ byRelease[links[p].rel] # 0

\* Mutant: foreign keys are not enforced.
RecordableAnyway(p) == Mapped(p)

Recordable(p) == Mapped(p) /\ Exists(byRelease[links[p].rel])

\* A link into the mount whose release maps to a row is recorded, unless the
\* row is gone by now (the foreign key) or the statement fails.
HealDiscover(p) ==
    /\ healPc = "walk"
    /\ FirstIn(healWalk, p)
    /\ healWalk' = healWalk \ {p}
    /\ \/ Recordable(p) /\ UpsertImportedSymlink(byRelease[links[p].rel], p) /\ NoFault
       \/ ~Recordable(p) /\ UNCHANGED symVars /\ NoFault
       \/ Mapped(p) /\ SymlinkError
    /\ UNCHANGED <<healPc, byRelease, healSyms, eligible, seenBroken, brokenJobs>>
    /\ UNCHANGED <<healId, healRow, attempts>>
    /\ UNCHANGED <<storeVars, torboxVars, farmVars, libraryVars>>

-----------------------------------------------------------------------------
(* detectBrokenSymlinks *)

\* If one of the two queries fails nothing is checked.  (A row that goes between
\* them is deleted again, which changes nothing: they are one step here.)
HealList == /\ healPc = "walk"
            /\ healWalk = {}
            /\ byRelease' = NoReleases
            /\ \/ /\ healSyms' = {s \in SymIds : Tracked(s)}
                  /\ eligible' = {id \in JobIds : jobs[id].state \in HealRelevant}
                  /\ NoFault
               \/ healSyms' = {} /\ eligible' = {} /\ Fault("store")
            /\ healPc' = "detect"
            /\ UNCHANGED <<healWalk, seenBroken, brokenJobs, healId, healRow, attempts>>
            /\ UNCHANGED <<storeVars, torboxVars, farmVars, libraryVars, symVars>>

Checking(s) == healPc = "detect" /\ FirstIn(healSyms, s)

\* Mutant: rows of jobs that are no longer healed are kept.
StaleKept(s) == links[syms[s].path] = NoLink

\* Its job is no longer healed, or nothing is at its path: the row is dropped.
Stale(s) == syms[s].job \notin eligible \/ links[syms[s].path] = NoLink

HealDrop(s) == /\ Checking(s)
               /\ Tracked(s) => Stale(s)
               /\ (DeleteImportedSymlink(s) /\ NoFault) \/ SymlinkError
               /\ healSyms' = healSyms \ {s}
               /\ UNCHANGED <<healPc, byRelease, healWalk, eligible, seenBroken, brokenJobs>>
               /\ UNCHANGED <<healId, healRow, attempts>>
               /\ UNCHANGED <<storeVars, torboxVars, farmVars, libraryVars>>

HealStat(s) == /\ Checking(s)
               /\ Tracked(s) /\ ~Stale(s)
               /\ seenBroken' = ~Resolves(syms[s].path)
               /\ healPc' = "mark"
               /\ UNCHANGED <<byRelease, healWalk, healSyms, eligible, brokenJobs>>
               /\ UNCHANGED <<healId, healRow, attempts, faults>>
               /\ UNCHANGED <<storeVars, torboxVars, farmVars, libraryVars, symVars>>

HealMark(s) == /\ healPc = "mark"
               /\ FirstIn(healSyms, s)
               /\ (SetSymlinkVerified(s, seenBroken) /\ NoFault) \/ SymlinkError
               /\ healSyms' = healSyms \ {s}
               /\ seenBroken' = FALSE
               /\ healPc' = "detect"
               /\ UNCHANGED <<byRelease, healWalk, eligible, brokenJobs>>
               /\ UNCHANGED <<healId, healRow, attempts>>
               /\ UNCHANGED <<storeVars, torboxVars, farmVars, libraryVars>>

-----------------------------------------------------------------------------
(* triggerHeals *)

HealBroken == /\ healPc = "detect"
              /\ healSyms = {}
              /\ eligible' = {}
              /\ \/ /\ brokenJobs' = {syms[s].job : s \in {t \in SymIds : syms[t].broken}}
                    /\ NoFault
                 \/ brokenJobs' = {} /\ Fault("store")
              /\ healPc' = "trigger"
              /\ UNCHANGED <<byRelease, healWalk, healSyms, seenBroken, healId, healRow, attempts>>
              /\ UNCHANGED <<storeVars, torboxVars, farmVars, libraryVars, symVars>>

\* Mutant: the backoff is not looked at.
HealableNow(row) == /\ row.state \in {"imported", "heal_failed"}
                    /\ row.heals < HealMaxAttempts
                    /\ ~HealDryRun

\* Neither healing already nor out of the healer's hands, attempts left, past its
\* backoff.
Healable(row) == /\ row.state \in {"imported", "heal_failed"}
                 /\ row.heals < HealMaxAttempts
                 /\ row.healed # "recent"
                 /\ ~HealDryRun

\* The row cannot be read, or is not to be healed now.
HealSkip(id) == /\ healPc = "trigger"
                /\ id \in brokenJobs
                /\ (~Healable(jobs[id]) /\ NoFault) \/ Fault("store")
                /\ brokenJobs' = brokenJobs \ {id}
                /\ UNCHANGED <<healPc, byRelease, healWalk, healSyms, eligible, seenBroken>>
                /\ UNCHANGED <<healId, healRow, attempts>>
                /\ UNCHANGED <<storeVars, torboxVars, farmVars, libraryVars, symVars>>

\* Mutant: the attempt is not counted.
UncountedFailure(row) == [row EXCEPT !.state = "heal_failed", !.healed = "recent"]

\* What markHealFailed writes.
MarkedFailed(row) == [row EXCEPT !.state = "heal_failed", !.heals = @ + 1, !.healed = "recent"]

\* The copy is settled and goes where pc says.
HealTo(pc, id, row) == /\ healPc' = pc
                       /\ healId' = id
                       /\ healRow' = row
                       /\ UNCHANGED <<byRelease, healWalk, healSyms, eligible, seenBroken>>
                       /\ UNCHANGED <<farmVars, libraryVars, symVars>>

\* GetJob; a row without its NZB fails at once.
HealStart(id) == /\ healPc = "trigger"
                 /\ id \in brokenJobs
                 /\ Healable(jobs[id])
                 /\ brokenJobs' = brokenJobs \ {id}
                 /\ IF id \in Seedless THEN HealTo("fail", id, MarkedFailed(jobs[id]))
                                       ELSE HealTo("call", id, jobs[id])
                 /\ UNCHANGED <<attempts, storeVars, torboxVars, faults>>

\* TorBox accepts the NZB again, and names the download anew.
Resubmitted(d) == /\ healPc = "call"
                  /\ \E r \in HealedAs[healRow.nzb] : CreateNamed(d, healId, r)
                  /\ attempts' = [attempts EXCEPT ![healId] = @ + 1]
                  /\ UNCHANGED <<brokenJobs, storeVars>>

HealCreated(d) == /\ Resubmitted(d)
                  /\ HealTo("save", healId, [healRow EXCEPT !.state = "healing", !.tb = d])
                  /\ NoFault

\* The answer is lost: an error like any other.
HealAnswerLost(d) == /\ Resubmitted(d)
                     /\ HealTo("fail", healId, MarkedFailed(healRow))
                     /\ Fault("lost")

\* An error of TorBox, a 429 included; nothing is retried.
HealRefused == /\ healPc = "call"
               /\ Fault("refuse")
               /\ HealTo("fail", healId, MarkedFailed(healRow))
               /\ UNCHANGED <<attempts, brokenJobs, storeVars, torboxVars>>

\* Mutant: the row stays as it is.
HealSaveSkipped == /\ healPc = "save" /\ HealTo("trigger", 0, NoRow)
                   /\ UNCHANGED <<attempts, brokenJobs, storeVars, torboxVars, faults>>

\* If `healing` cannot be written, the row is marked failed.
HealSave == /\ healPc = "save"
            /\ \/ UpdateJob(healId, healRow) /\ NoFault /\ HealTo("trigger", 0, NoRow)
               \/ StoreError /\ HealTo("fail", healId, MarkedFailed(healRow))
            /\ UNCHANGED <<attempts, brokenJobs, torboxVars>>

HealFail == /\ healPc = "fail"
            /\ Persist(healId, healRow)
            /\ HealTo("trigger", 0, NoRow)
            /\ UNCHANGED <<attempts, brokenJobs, torboxVars>>

HealEnd == /\ healPc = "trigger"
           /\ brokenJobs = {}
           /\ HealReturn
           /\ UNCHANGED <<attempts, storeVars, torboxVars, farmVars, libraryVars, symVars, faults>>

HealStep == \/ HealLoad
            \/ \E p \in Paths : HealDiscover(p)
            \/ HealList
            \/ \E s \in SymIds : HealDrop(s) \/ HealStat(s) \/ HealMark(s)
            \/ HealBroken
            \/ \E id \in JobIds : HealSkip(id) \/ HealStart(id)
            \/ \E d \in DlIds : HealCreated(d) \/ HealAnswerLost(d)
            \/ HealRefused
            \/ HealSave
            \/ HealFail
            \/ HealEnd
=============================================================================
