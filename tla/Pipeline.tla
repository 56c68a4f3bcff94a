------------------------------- MODULE Pipeline -------------------------------
(***************************************************************************)
(* The download pipeline: the SAB API, the submitter, the poller, the      *)
(* deleter and the reaper around one jobs table, with TorBox, the farm and *)
(* the client (cmd/sab2torbox/main.go, internal/worker/worker.go).         *)
(***************************************************************************)
EXTENDS SabApi, Submitter, Poller, Deleter, Reaper

CONSTANT Loops    \* the loops that get to tick; Run starts all four

ASSUME PipelineAssumption ==
    Loops \subseteq {"submitter", "poller", "deleter", "reaper"}

\* What no variable of the program holds.
VARIABLES absences,       \* how many answers of mylist in a row have left a download
                          \* out, since the process started, while its job was polled
          failedLookups   \* how many requests to add an NZB did not see its row
                          \* because the look-up failed

historyVars == <<absences, failedLookups>>

sharedVars == <<storeVars, torboxVars, farmVars, faults>>

vars == <<sharedVars, apiVars, subVars, polVars, delVars, reapVars, historyVars>>

Init == /\ StoreInit /\ TorBoxInit /\ FarmInit /\ faults = 0
        /\ ApiInit /\ SubInit /\ PolInit /\ DelInit /\ ReapInit
        /\ absences = NoMisses /\ failedLookups = [k \in Nzbs |-> 0]

\* An answer without the download is one more, any other begins the count anew.
Tally == absences' = IF polPc = "list" /\ polPc' = "job"
                     THEN [d \in DlIds |-> IF StillActive(d) /\ polList'[d] = "unlisted"
                                           THEN absences[d] + 1 ELSE 0]
                     ELSE absences

Creating(k) == {h \in Handlers : req[h].op = "create" /\ req[h].nzb = k}

TallyLookups ==
    failedLookups' = [k \in Nzbs |-> IF faults' # faults /\ Creating(k)' \ Creating(k) # {}
                                     THEN failedLookups[k] + 1 ELSE failedLookups[k]]

Api == /\ ApiNext
       /\ TallyLookups
       /\ UNCHANGED <<torboxVars, farmVars, subVars, polVars, delVars, reapVars, absences>>

SubmitOnce == /\ "submitter" \in Loops
              /\ SubStep
              /\ UNCHANGED <<farmVars, apiVars, polVars, delVars, reapVars, historyVars>>

PollOnce == /\ "poller" \in Loops
            /\ PolStep
            /\ Tally
            /\ UNCHANGED <<apiVars, subVars, delVars, reapVars, failedLookups>>

DeleteOnce == /\ "deleter" \in Loops
              /\ DelStep
              /\ UNCHANGED <<apiVars, subVars, polVars, reapVars, historyVars>>

ReapOnce == /\ "reaper" \in Loops
            /\ ReapStep
            /\ UNCHANGED <<apiVars, subVars, polVars, delVars, historyVars>>

\* The process ends, killed or by a signal, and is started again: what is on
\* disk and on TorBox stays, everything in memory is gone.
Restart == /\ Fault("crash")
           /\ req' = [h \in Handlers |-> Idle]
           /\ subPc' = "idle" /\ subTodo' = NoRows /\ subCooling' = FALSE
           /\ PolReturn /\ missingPolls' = NoMisses /\ refreshHeld' = FALSE
           /\ absences' = NoMisses
           /\ delPc' = "idle" /\ delTodo' = NoRows /\ deleteAttempts' = NoAttempts
           /\ ReapReturn /\ reapTodo' = NoRows
           /\ UNCHANGED <<asked, storeVars, torboxVars, farmVars, failedLookups>>

OnTorBox == /\ TorBoxNext
            /\ UNCHANGED <<storeVars, farmVars, apiVars, subVars, polVars, delVars, reapVars>>
            /\ UNCHANGED historyVars

Import == /\ \E id \in JobIds : SonarrImport(id)
          /\ UNCHANGED <<apiVars, subVars, polVars, delVars, reapVars, historyVars>>

DayPasses == /\ \E id \in JobIds : Age(id)
             /\ UNCHANGED <<torboxVars, farmVars, apiVars, subVars, polVars, delVars, reapVars>>
             /\ UNCHANGED historyVars

Next == \/ Api
        \/ SubmitOnce
        \/ PollOnce
        \/ DeleteOnce
        \/ ReapOnce
        \/ OnTorBox
        \/ Import
        \/ DayPasses
        \/ Restart

Spec == Init /\ [][Next]_vars

\* Every loop ticks for as long as the process runs, and no call blocks for
\* ever; downloads end and their files surface in the end.
Fairness == /\ WF_vars(SubmitOnce)
            /\ WF_vars(PollOnce)
            /\ WF_vars(DeleteOnce)
            /\ WF_vars(ReapOnce)
            /\ WF_vars(OnTorBox)

FairSpec == Spec /\ Fairness

-----------------------------------------------------------------------------
(* Invariants *)

\* Every variable has its type.
TypeOK == /\ StoreType /\ TorBoxType /\ FarmType /\ faults \in 0 .. MaxFaults
          /\ ApiType /\ SubType /\ PolType /\ DelType /\ ReapType
          /\ absences \in [DlIds -> Nat] /\ failedLookups \in [Nzbs -> Nat]

Owns(id, row) == row.tb \in DlIds /\ dl[row.tb].job = id

\* A submitted row names a download that was created for this very row, although
\* the submitter, the poller, the reaper and the API all write whole rows back
\* from copies of different ages.
RowOwnsItsDownload ==
    \A id \in JobIds : jobs[id].state \in Submitted => Owns(id, jobs[id])

\* An NZB is never on TorBox twice for one row: neither a crash, nor a failed
\* write, nor a rate limit makes the submitter submit it again (submitJob writes
\* `submitting` before it calls TorBox).  A lost answer does.
SubmittedAtMostOnce ==
    \A d, e \in DlIds : dl[d].job # 0 /\ dl[d].job = dl[e].job => d = e

\* The deleter removes from TorBox only what a client asked to delete with
\* del_files=1, whatever rows come and go while it runs.
RemovedOnlyIfAsked ==
    \A d \in DlIds : dl[d].status = "removed" => dl[d].job \in asked

\* While a row is `submitting` its submission is in progress (job.go: "submit to
\* TorBox in progress").
SubmittingIsInProgress ==
    \A id \in JobIds : jobs[id].state = "submitting"
                          => subPc \in {"call", "save"} /\ Submitting(id)

RowsOf(k) == {id \in JobIds : Exists(id) /\ jobs[id].nzb = k}

\* "Sonarr retries sometimes": handleAddURL and handleAddFile look for a row and
\* insert one in two statements, so that requests served at one time, and look-ups
\* that fail, may each add a row for the same NZB; but no more than that, however
\* often it is added, deleted and added again, and in whatever state its rows are.
DuplicatesBounded ==
    \A k \in Nzbs : Cardinality(RowsOf(k)) + Cardinality(Creating(k))
                       <= Cardinality(Handlers) + failedLookups[k]

\* What history advertises can be imported, or has been: the poller, a tick of
\* the sweep and an import in progress never leave a completed row without files.
CompletedIsImportable ==
    \A id \in JobIds : jobs[id].state = "completed"
                          => \/ farm[jobs[id].path] = "linked"
                             \/ jobs[id].path \in library

\* The reaper's "honest import signal": a job becomes imported only when the
\* client has moved its files to the library.
ImportedIsTaken ==
    \A id \in JobIds : jobs[id].state = "imported" => jobs[id].path \in library

\* "When Sonarr deletes the download (with del_files), sab2torbox removes it from
\* TorBox": a download of a purged job still has the row the deleter works from.
PurgedIsNotOrphaned ==
    \A d \in DlIds : dl[d].status \in Live /\ dl[d].job \in asked => Exists(dl[d].job)

-----------------------------------------------------------------------------
(* Action properties *)

\* Apart from deletions, and from those that are lost, rows change state along the
\* table of job.go, which nothing consults: not even a write from an old copy takes
\* a row back.
LegalTransitions ==
    [][\A id \in JobIds :
          {jobs[id].state, jobs'[id].state} \cap {"absent", "deleted"} = {}
             => \/ jobs'[id].state = jobs[id].state
                \/ CanTransitionTo(jobs[id].state, jobs'[id].state)]_vars

\* handleMissing fails a job whose download TorBox still has only when
\* missingPollThreshold answers in a row have left it out: absences with an answer
\* between them that has it do not add up, nor do failed calls, failed writes,
\* polls of an earlier process or the absences of other downloads.
FailedOnlyAfterAbsences ==
    [][\A id \in JobIds : /\ jobs[id].state # "failed" /\ jobs'[id].state = "failed"
                          /\ jobs'[id].tb # 0
                          /\ dl[jobs'[id].tb].status \in {"working", "ready"}
                          => absences[jobs'[id].tb] >= missingPollThreshold]_vars

\* "BEGIN IMMEDIATE transactions serialize submit/poll/delete on a job row": a row
\* marked deleted stays so until the deleter drops it.
DeletionSticks ==
    [][\A id \in JobIds : jobs[id].state = "deleted"
                             => jobs'[id].state \in {"deleted", "absent"}]_vars

\* deleteJob drops the row of a deletion it was handed only when the download is
\* off TorBox; a failed call alone, below deleteGiveUpAttempts, never loses one.
DroppedOnlyWhenRemoved ==
    [][\A id \in JobIds : delPc = "row" /\ Deleting(id) /\ delTodo'[id] # delTodo[id]
                             => dl[delTodo[id].tb].status \notin Live]_vars

\* "pollOnce only calls it when every active download has finished, so it never
\* fires while transfers are in progress", as far as the tick knows: no job already
\* downloading is among the transferring ones of the list the tick works from.
RefreshOnlyWhenIdle ==
    [][\A id \in JobIds : /\ ~refreshHeld /\ refreshHeld'
                          /\ jobs[id].state = "downloading"
                          => polList[jobs[id].tb] # "working"]_vars

-----------------------------------------------------------------------------
(* The abstract specification *)

Place(id) ==
    CASE id >= nextId -> "unborn"
      [] id < nextId /\ jobs[id].state = "absent" -> "gone"
      [] jobs[id].state \in {"pending", "submitting", "queued", "downloading"} -> "queue"
      [] jobs[id].state \in {"completed", "failed"} -> "history"
      [] jobs[id].state = "deleted" -> "deleting"
      [] OTHER -> "taken"

View == INSTANCE JobView WITH Ids <- JobIds, view <- [id \in JobIds |-> Place(id)]

\* Every behaviour of the pipeline is one a client of JobView expects.
ImplementsJobView == View!Spec

-----------------------------------------------------------------------------
(* Liveness, under FairSpec *)

\* A pending job is taken out of that state: submitted, failed or deleted.
PendingIsSubmitted ==
    \A id \in JobIds : jobs[id].state = "pending" ~> jobs[id].state \notin {"pending", "submitting"}

\* A submitted job leaves the queue: whatever TorBox does with its download, the
\* poller notices.
ActiveSettles ==
    \A id \in JobIds : jobs[id].state \in activeStates ~> jobs[id].state \notin activeStates

\* "The reaper sweeps out empty (post-import) directories."
EmptyIsSwept == \A r \in Releases : IsEmpty(r) ~> ~IsEmpty(r)

\* A deletion handed to the deleter comes to an end.
DeletedIsDropped ==
    \A id \in JobIds : jobs[id].state = "deleted" ~> jobs[id].state # "deleted"
=============================================================================
