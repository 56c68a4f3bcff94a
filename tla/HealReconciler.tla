---------------------------- MODULE HealReconciler ----------------------------
(***************************************************************************)
(* internal/worker/healer.go, healReconcileOnce: the loop that finishes    *)
(* `healing` jobs.  It runs in a goroutine of its own, beside the healer.  *)
(*                                                                         *)
(* One tick loads the rows, calls mylist once ("list"), and takes the rows *)
(* one by one ("job"): the broken links of a job whose new release is on   *)
(* the mount are repointed ("link") and recorded ("row") one by one.       *)
(***************************************************************************)
EXTENDS Healer

VARIABLES recPc,       \* where healReconcileOnce is
          recTodo,     \* its copies of the rows still to finish
          recList,     \* the mylist answer it works from
          recSyms,     \* copies of the broken symlink rows still to repoint
          recSeen,     \* the job had broken links (brokenForJob > 0)
          recHealed,   \* one was repointed (healed > 0)
          recNew       \* the target being recorded

recVars == <<recPc, recTodo, recList, recSyms, recSeen, recHealed, recNew>>

NoSyms == [s \in SymIds |-> NoSym]
RecNoList == [d \in DlIds |-> "unlisted"]

RecType == /\ recPc \in {"idle", "list", "job", "link", "row"}
           /\ recTodo \in [JobIds -> Row]
           /\ recList \in [DlIds -> Live \cup {"unlisted"}]
           /\ recSyms \in [SymIds -> Sym]
           /\ recSeen \in BOOLEAN
           /\ recHealed \in BOOLEAN
           /\ recNew \in Target

RecInit == /\ recPc = "idle" /\ recTodo = NoRows /\ recList = RecNoList
           /\ recSyms = NoSyms /\ recSeen = FALSE /\ recHealed = FALSE /\ recNew = NoLink

RecReturn == /\ recPc' = "idle" /\ recTodo' = NoRows /\ recList' = RecNoList
             /\ recSyms' = NoSyms /\ recSeen' = FALSE /\ recHealed' = FALSE /\ recNew' = NoLink

Reconciling(id) == recPc = "job" /\ Oldest(recTodo, id)

\* The release name in mylist.
RecRelease(id) == dl[recTodo[id].tb].release

\* Done with a job.
RecNext(id) == /\ recPc' = "job"
               /\ recTodo' = Without(recTodo, id)
               /\ recSyms' = NoSyms /\ recSeen' = FALSE /\ recHealed' = FALSE
               /\ UNCHANGED <<recList, recNew>>
               /\ UNCHANGED <<torboxVars, farmVars, libraryVars, symVars, attempts>>

-----------------------------------------------------------------------------
RecLoad == /\ recPc = "idle"
           /\ JobsByState({"healing"}) # NoRows
           /\ recTodo' = JobsByState({"healing"})
           /\ recPc' = "list"
           /\ UNCHANGED <<recList, recSyms, recSeen, recHealed, recNew, attempts>>
           /\ UNCHANGED <<storeVars, torboxVars, farmVars, libraryVars, symVars, faults>>

RecListFails == /\ recPc = "list"
                /\ Fault("list")
                /\ RecReturn
                /\ UNCHANGED <<storeVars, torboxVars, farmVars, libraryVars, symVars, attempts>>

RecListed == /\ recPc = "list"
             /\ \/ recList' = ListUsenet({}) /\ NoFault
                \/ /\ Fault("hiccup")
                   /\ \E d \in DlIds : dl[d].status \in Live /\ recList' = ListUsenet({d})
             /\ recPc' = "job"
             /\ UNCHANGED <<recTodo, recSyms, recSeen, recHealed, recNew, attempts>>
             /\ UNCHANGED <<storeVars, torboxVars, farmVars, libraryVars, symVars>>

\* Not listed, still downloading, not on the mount, or its links cannot be
\* loaded: the next tick tries again.
RecWait(id) ==
    /\ Reconciling(id)
    /\ \/ recList[recTodo[id].tb] \in {"unlisted", "working"} /\ NoFault
       \/ /\ recList[recTodo[id].tb] = "ready"
          /\ (mount[RecRelease(id)] = "absent" /\ NoFault) \/ Fault("store")
    /\ RecNext(id)
    /\ UNCHANGED storeVars

\* Mutant: a failed download is waited for.
RecFailedWaits(id) == /\ Reconciling(id)
                      /\ recList[recTodo[id].tb] = "failed"
                      /\ RecNext(id)
                      /\ UNCHANGED <<storeVars, faults>>

RecFailed(id) == /\ Reconciling(id)
                 /\ recList[recTodo[id].tb] = "failed"
                 /\ Persist(id, MarkedFailed(recTodo[id]))
                 /\ RecNext(id)

-----------------------------------------------------------------------------
(* finishHeal *)

\* Mutant: the links of every job are repointed.
BrokenOfAll(id) == [s \in SymIds |-> IF syms[s].broken THEN syms[s] ELSE NoSym]

BrokenOf(id) == [s \in SymIds |-> IF syms[s].job = id /\ syms[s].broken THEN syms[s] ELSE NoSym]

RecOpen(id) == /\ Reconciling(id)
               /\ recList[recTodo[id].tb] = "ready"
               /\ mount[RecRelease(id)] # "absent"
               /\ recSyms' = BrokenOf(id)
               /\ recSeen' = (BrokenOf(id) # NoSyms)
               /\ recPc' = "link"
               /\ UNCHANGED <<recTodo, recList, recHealed, recNew, attempts>>
               /\ UNCHANGED <<storeVars, torboxVars, farmVars, libraryVars, symVars, faults>>

Linking(id, s) == /\ Oldest(recTodo, id)
                  /\ FirstIn({t \in SymIds : recSyms[t] # NoSym}, s)

\* The link is replaced; if nothing is there any more, it appears.
RecRepoint(id, s) ==
    LET r == RecRelease(id) IN
    /\ recPc = "link"
    /\ Linking(id, s)
    /\ \E f \in NewFile(r, recSyms[s].target.file) : recNew' = [rel |-> r, file |-> f]
    /\ AtomicReplace(recSyms[s].path, recNew')
    /\ recPc' = "row"
    /\ UNCHANGED <<recTodo, recList, recSyms, recSeen, recHealed, attempts>>
    /\ UNCHANGED <<storeVars, torboxVars, farmVars, symVars, faults>>

\* No confident match, or the link cannot be replaced, as when its directory
\* went with it.
RecUnmatched(id, s) ==
    /\ recPc = "link"
    /\ Linking(id, s)
    /\ \/ NewFile(RecRelease(id), recSyms[s].target.file) = {} /\ NoFault
       \/ links[recSyms[s].path] = NoLink /\ NoFault
       \/ Fault("link")
    /\ recSyms' = [recSyms EXCEPT ![s] = NoSym]
    /\ UNCHANGED <<recPc, recTodo, recList, recSeen, recHealed, recNew, attempts>>
    /\ UNCHANGED <<storeVars, torboxVars, farmVars, libraryVars, symVars>>

RecRecord(id, s) ==
    /\ recPc = "row"
    /\ Linking(id, s)
    /\ (UpdateSymlinkTarget(s, recNew) /\ NoFault) \/ SymlinkError
    /\ recSyms' = [recSyms EXCEPT ![s] = NoSym]
    /\ recHealed' = TRUE
    /\ recNew' = NoLink
    /\ recPc' = "link"
    /\ UNCHANGED <<recTodo, recList, recSeen, attempts>>
    /\ UNCHANGED <<storeVars, torboxVars, farmVars, libraryVars>>

\* Mutant: a heal that repointed nothing counts as one.
Fruitful(seen, healed) == FALSE

\* There were broken links and none of them found its file.
Fruitless(seen, healed) == seen /\ ~healed

\* What a finished heal writes.
Restored(row, r) == [row EXCEPT !.state = "imported", !.path = r, !.heals = 0, !.healed = "recent"]

RecFinish(id) ==
    /\ recPc = "link"
    /\ Oldest(recTodo, id)
    /\ recSyms = NoSyms
    /\ IF Fruitless(recSeen, recHealed)
       THEN Persist(id, MarkedFailed(recTodo[id])) /\ UNCHANGED attempts
       ELSE \/ /\ UpdateJob(id, Restored(recTodo[id], RecRelease(id))) /\ NoFault
               /\ attempts' = [attempts EXCEPT ![id] = 0]
            \/ StoreError /\ UNCHANGED attempts
    /\ recPc' = "job"
    /\ recTodo' = Without(recTodo, id)
    /\ recSeen' = FALSE /\ recHealed' = FALSE
    /\ UNCHANGED <<recList, recSyms, recNew>>
    /\ UNCHANGED <<torboxVars, farmVars, libraryVars, symVars>>

RecEnd == /\ recPc = "job"
          /\ recTodo = NoRows
          /\ RecReturn
          /\ UNCHANGED <<storeVars, torboxVars, farmVars, libraryVars, symVars, faults, attempts>>

RecStep == \/ RecLoad
           \/ RecListFails
           \/ RecListed
           \/ \E id \in JobIds : \/ RecWait(id)
                                 \/ RecFailed(id)
                                 \/ RecOpen(id)
                                 \/ RecFinish(id)
           \/ \E id \in JobIds, s \in SymIds : \/ RecRepoint(id, s)
                                               \/ RecUnmatched(id, s)
                                               \/ RecRecord(id, s)
           \/ RecEnd
=============================================================================
