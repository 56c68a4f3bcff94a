-------------------------------- MODULE Poller --------------------------------
(***************************************************************************)
(* internal/worker/poller.go and webdav.go: the loop that follows the      *)
(* submitted jobs on TorBox until they complete or fail.                   *)
(*                                                                         *)
(* One tick loads the active rows, calls mylist once, and takes the rows   *)
(* one by one ("job"); a release found on the mount is linked and its row  *)
(* is written in a step of its own ("save").                               *)
(***************************************************************************)
EXTENDS Farm

CONSTANT missingPollThreshold   \* 6 in the code

ASSUME PollerAssumption == missingPollThreshold \in Nat \ {0}

VARIABLES polPc,          \* where pollOnce is
          polTodo,        \* its copies of the rows it still has to reconcile
          polList,        \* the mylist answer it works from
          polFlags,       \* which of ongoing and awaiting are set
          missingPolls,   \* consecutive polls a download has been absent
          refreshHeld     \* the cooldown or the backoff of /refresh is running

polVars == <<polPc, polTodo, polList, polFlags, missingPolls, refreshHeld>>

activeStates == {"queued", "downloading"}

NoMisses == [d \in DlIds |-> 0]
NoList   == [d \in DlIds |-> "unlisted"]

PolType == /\ polPc \in {"idle", "list", "job", "save"}
           /\ polTodo \in [JobIds -> Row]
           /\ polList \in [DlIds -> Live \cup {"unlisted"}]
           /\ polFlags \in SUBSET {"ongoing", "awaiting"}
           /\ missingPolls \in [DlIds -> Nat]
           /\ refreshHeld \in BOOLEAN

PolInit == /\ polPc = "idle"
           /\ polTodo = NoRows
           /\ polList = NoList
           /\ polFlags = {}
           /\ missingPolls = NoMisses
           /\ refreshHeld = FALSE

\* The tick is over: everything local to it is forgotten.
PolReturn == /\ polPc' = "idle"
             /\ polTodo' = NoRows
             /\ polList' = NoList
             /\ polFlags' = {}

Polling(id) == Oldest(polTodo, id)

\* reconcile or handleMissing is done with a job, and this is its result.
PolResult(id, flags) == /\ polPc' = "job"
                        /\ polTodo' = Without(polTodo, id)
                        /\ polFlags' = polFlags \cup flags
                        /\ UNCHANGED <<polList, refreshHeld>>

-----------------------------------------------------------------------------
PolLoad == /\ polPc = "idle"
           /\ JobsByState(activeStates) # NoRows
           /\ polTodo' = JobsByState(activeStates)
           /\ polPc' = "list"
           /\ UNCHANGED <<polList, polFlags, missingPolls, refreshHeld>>
           /\ UNCHANGED <<storeVars, torboxVars, farmVars, faults>>

\* Without active rows the counters are cleared.
PolNothing == /\ polPc = "idle"
              /\ JobsByState(activeStates) = NoRows
              /\ missingPolls # NoMisses
              /\ missingPolls' = NoMisses
              /\ UNCHANGED <<polPc, polTodo, polList, polFlags, refreshHeld>>
              /\ UNCHANGED <<storeVars, torboxVars, farmVars, faults>>

\* A failed call ends the tick and counts for nothing.
PolListFails == /\ polPc = "list"
                /\ Fault("list")
                /\ PolReturn
                /\ UNCHANGED <<missingPolls, refreshHeld>>
                /\ UNCHANGED <<storeVars, torboxVars, farmVars>>

\* Mutant: the counters that are still needed are the ones dropped.
NotActive(d) == \A id \in JobIds : polTodo[id].state # "absent" => polTodo[id].tb # d

\* The answer.  pollOnce drops the counters of downloads it does not track at
\* the end of the tick; nothing reads them before that.
StillActive(d) == \E id \in JobIds : polTodo[id].state # "absent" /\ polTodo[id].tb = d

PolListed == /\ polPc = "list"
             /\ \/ polList' = ListUsenet({}) /\ NoFault
                \/ /\ Fault("hiccup")
                   /\ \E d \in DlIds : dl[d].status \in Live /\ polList' = ListUsenet({d})
             /\ missingPolls' = [d \in DlIds |-> IF StillActive(d) THEN missingPolls[d] ELSE 0]
             /\ polPc' = "job"
             /\ UNCHANGED <<polTodo, polFlags, refreshHeld>>
             /\ UNCHANGED <<storeVars, torboxVars, farmVars>>

-----------------------------------------------------------------------------
(* handleMissing *)

MissingTooLong(n) == n >= missingPollThreshold

\* The job is not in the answer and may still turn up.
PolMissing(id) ==
    LET d == polTodo[id].tb IN
    /\ polPc = "job"
    /\ Polling(id)
    /\ polList[d] = "unlisted"
    /\ ~MissingTooLong(missingPolls[d] + 1)
    /\ missingPolls' = [missingPolls EXCEPT ![d] = @ + 1]
    /\ PolResult(id, {"ongoing"})
    /\ UNCHANGED <<storeVars, torboxVars, farmVars, faults>>

\* It was absent too often: the job fails, unless that cannot be written.
PolGone(id) ==
    LET d == polTodo[id].tb IN
    /\ polPc = "job"
    /\ Polling(id)
    /\ polList[d] = "unlisted"
    /\ MissingTooLong(missingPolls[d] + 1)
    /\ \/ /\ UpdateJob(id, [polTodo[id] EXCEPT !.state = "failed"]) /\ NoFault
          /\ missingPolls' = [missingPolls EXCEPT ![d] = 0]
          /\ PolResult(id, {})
       \/ /\ StoreError
          /\ missingPolls' = [missingPolls EXCEPT ![d] = @ + 1]
          /\ PolResult(id, {"ongoing"})
    /\ UNCHANGED <<torboxVars, farmVars>>

-----------------------------------------------------------------------------
(* reconcile *)

\* Mutant: the counter of a download that is back is kept.
ListedUncleared(id, status) == /\ polPc = "job"
                               /\ Polling(id)
                               /\ polList[polTodo[id].tb] = status
                               /\ UNCHANGED missingPolls

Listed(id, status) == /\ polPc = "job"
                      /\ Polling(id)
                      /\ polList[polTodo[id].tb] = status
                      /\ missingPolls' = [missingPolls EXCEPT ![polTodo[id].tb] = 0]

PolFailed(id) == /\ Listed(id, "failed")
                 /\ Persist(id, [polTodo[id] EXCEPT !.state = "failed"])
                 /\ PolResult(id, {})
                 /\ UNCHANGED <<torboxVars, farmVars>>

PolOngoing(id) == /\ Listed(id, "working")
                  /\ Persist(id, [polTodo[id] EXCEPT !.state = "downloading"])
                  /\ PolResult(id, {"ongoing"})
                  /\ UNCHANGED <<torboxVars, farmVars>>

\* The folder did not appear on the mount while resolveStoragePath waited.
PolUnresolved(id) == /\ Listed(id, "ready")
                     /\ mount[dl[polTodo[id].tb].release] = "absent"
                     /\ Persist(id, polTodo[id])
                     /\ PolResult(id, {"awaiting"})
                     /\ UNCHANGED <<torboxVars, farmVars>>

\* buildSymlinkFarm ran: the copy, and with it the result, are settled.
PolLinked(id, row, flags) == /\ polTodo' = [polTodo EXCEPT ![id] = row]
                             /\ polFlags' = polFlags \cup flags
                             /\ polPc' = "save"
                             /\ UNCHANGED <<polList, refreshHeld>>
                             /\ UNCHANGED <<library, storeVars, torboxVars>>

\* Mutant: a release folder without files completes the job.
PolLinkAnything(id) ==
    LET r == dl[polTodo[id].tb].release IN
    /\ Listed(id, "ready")
    /\ mount[r] # "absent"
    /\ farm' = IF mount[r] = "full" THEN Linked(r) ELSE Made(r)
    /\ PolLinked(id, [polTodo[id] EXCEPT !.state = "completed", !.path = r], {})
    /\ NoFault

PolLink(id) ==
    LET r == dl[polTodo[id].tb].release IN
    /\ Listed(id, "ready")
    /\ mount[r] = "full"
    /\ farm' = Linked(r)
    /\ PolLinked(id, [polTodo[id] EXCEPT !.state = "completed", !.path = r], {})
    /\ NoFault

\* No files yet: the directory, old or new, is removed again.
PolPremature(id) ==
    LET r == dl[polTodo[id].tb].release IN
    /\ Listed(id, "ready")
    /\ mount[r] = "empty"
    /\ farm' = RemovedAll(r)
    /\ PolLinked(id, polTodo[id], {"awaiting"})
    /\ NoFault

PolLinkFails(id) ==
    LET r == dl[polTodo[id].tb].release IN
    /\ Listed(id, "ready")
    /\ mount[r] = "full"
    /\ Fault("link")
    /\ farm' = Made(r)
    /\ PolLinked(id, polTodo[id], {"awaiting"})

PolSave(id) == /\ polPc = "save"
               /\ Polling(id)
               /\ Persist(id, polTodo[id])
               /\ PolResult(id, {})
               /\ UNCHANGED <<missingPolls, torboxVars, farmVars>>

-----------------------------------------------------------------------------
\* Mutant: jobs that are still transferring are not looked at.
WantsRefreshEarly(flags) == "awaiting" \in flags

\* maybeRefreshWebDAV is called when jobs wait for the mount and none, as far
\* as this tick knows, is still transferring.
WantsRefresh(flags) == "awaiting" \in flags /\ "ongoing" \notin flags

PolEnd == /\ polPc = "job"
          /\ polTodo = NoRows
          /\ refreshHeld' = (refreshHeld \/ WantsRefresh(polFlags))
          /\ PolReturn
          /\ UNCHANGED <<missingPolls, storeVars, torboxVars, farmVars, faults>>

\* TORBOX_WEBDAV_REFRESH_COOLDOWN, and the backoff after a 429, have passed.
RefreshCooldownEnds ==
    /\ refreshHeld
    /\ refreshHeld' = FALSE
    /\ UNCHANGED <<polPc, polTodo, polList, polFlags, missingPolls>>
    /\ UNCHANGED <<storeVars, torboxVars, farmVars, faults>>

PolStep == \/ PolLoad
           \/ PolNothing
           \/ PolListFails
           \/ PolListed
           \/ \E id \in JobIds :
                 \/ PolMissing(id)
                 \/ PolGone(id)
                 \/ PolFailed(id)
                 \/ PolOngoing(id)
                 \/ PolUnresolved(id)
                 \/ PolPremature(id)
                 \/ PolLink(id)
                 \/ PolLinkFails(id)
                 \/ PolSave(id)
           \/ PolEnd
           \/ RefreshCooldownEnds
=============================================================================
