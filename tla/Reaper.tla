-------------------------------- MODULE Reaper --------------------------------
(***************************************************************************)
(* internal/worker/reaper.go: the loop that notices imports, drops old     *)
(* imported rows and sweeps the farm.                                      *)
(*                                                                         *)
(* One tick goes through the completed rows ("detect"), drops the old      *)
(* imported ones ("reap"), loads the paths in use ("paths") and looks at   *)
(* each release directory ("sweep"), which it may then remove ("remove"    *)
(* when it found it empty, "removeAll" when it found it broken).           *)
(***************************************************************************)
EXTENDS Farm

VARIABLES reapPc,      \* where reapOnce is
          reapTodo,    \* its copies of the completed rows still to look at
          reapActive,  \* the paths in use, as they were loaded
          reapLeft,    \* the release directories still to look at
          reapDir      \* the directory about to be removed

reapVars == <<reapPc, reapTodo, reapActive, reapLeft, reapDir>>

ReapType == /\ reapPc \in {"idle", "detect", "paths", "sweep", "remove", "removeAll"}
            /\ reapTodo \in [JobIds -> Row]
            /\ reapActive \in SUBSET Releases
            /\ reapLeft \in SUBSET Releases
            /\ reapDir \in Releases \cup {NoRelease}

ReapInit == /\ reapPc = "idle"
            /\ reapTodo = NoRows
            /\ reapActive = {}
            /\ reapLeft = {}
            /\ reapDir = NoRelease

Detecting(id) == reapPc = "detect" /\ Oldest(reapTodo, id)

ReapReturn == /\ reapPc' = "idle"
              /\ reapActive' = {}
              /\ reapLeft' = {}
              /\ reapDir' = NoRelease

\* A tick that has nothing to look at is left out.  If the rows cannot be loaded
\* there is nothing to detect, and the tick goes on.
ReapLoad == /\ reapPc = "idle"
            /\ \/ \E id \in JobIds : jobs[id].state = "completed" \/ Reapable(id)
               \/ \E r \in Releases : farm[r] # "absent"
            /\ \/ reapTodo' = JobsByState({"completed"}) /\ NoFault
               \/ reapTodo' = NoRows /\ Fault("store")
            /\ reapPc' = "detect"
            /\ UNCHANGED <<reapActive, reapLeft, reapDir>>
            /\ UNCHANGED <<storeVars, torboxVars, farmVars>>

\* An empty directory, or one that is not there, means Sonarr has imported.
LooksImported(r) == farm[r] = "absent" \/ IsEmpty(r)

Imported(id) == /\ Detecting(id)
                /\ LooksImported(reapTodo[id].path)
                /\ Persist(id, [reapTodo[id] EXCEPT !.state = "imported"])
                /\ reapTodo' = Without(reapTodo, id)
                /\ UNCHANGED <<reapPc, reapActive, reapLeft, reapDir>>
                /\ UNCHANGED <<torboxVars, farmVars>>

NotImported(id) == /\ Detecting(id)
                   /\ ~LooksImported(reapTodo[id].path)
                   /\ reapTodo' = Without(reapTodo, id)
                   /\ UNCHANGED <<reapPc, reapActive, reapLeft, reapDir>>
                   /\ UNCHANGED <<storeVars, torboxVars, farmVars, faults>>

\* An error ends the tick.
Reap == /\ reapPc = "detect"
        /\ reapTodo = NoRows
        /\ \/ ReapImported /\ NoFault /\ reapPc' = "paths"
           \/ StoreError /\ reapPc' = "idle"
        /\ UNCHANGED <<reapTodo, reapActive, reapLeft, reapDir>>
        /\ UNCHANGED <<torboxVars, farmVars>>

SweepLoad == /\ reapPc = "paths"
             /\ \/ /\ reapActive' = ActiveStoragePaths
                   /\ reapLeft' = Releases
                   /\ reapPc' = "sweep"
                   /\ NoFault
                \/ /\ Fault("store")
                   /\ reapPc' = "idle"
                   /\ UNCHANGED <<reapActive, reapLeft>>
             /\ UNCHANGED <<reapTodo, reapDir>>
             /\ UNCHANGED <<storeVars, torboxVars, farmVars>>

Orphaned(r) == AllBroken(r) /\ r \notin reapActive

SweepLook(r) == /\ reapPc = "sweep"
                /\ r \in reapLeft
                /\ reapLeft' = reapLeft \ {r}
                /\ \/ /\ IsEmpty(r)
                      /\ reapPc' = "remove" /\ reapDir' = r
                   \/ /\ Orphaned(r)
                      /\ reapPc' = "removeAll" /\ reapDir' = r
                   \/ /\ ~IsEmpty(r) /\ ~Orphaned(r)
                      /\ UNCHANGED <<reapPc, reapDir>>
                /\ UNCHANGED <<reapTodo, reapActive>>
                /\ UNCHANGED <<storeVars, torboxVars, farmVars, faults>>

\* Mutant: the empty directory is left to somebody else.
EmptyLeft(r) == farm

\* Mutant: os.RemoveAll for the empty directory, too.
EmptyRemovedAll(r) == RemovedAll(r)

\* os.Remove refuses a directory that has been filled meanwhile.
EmptyRemoved(r) == RemovedIfEmpty(r)

SweepRemove == /\ reapPc \in {"remove", "removeAll"}
               /\ farm' = IF reapPc = "remove" THEN EmptyRemoved(reapDir)
                          ELSE RemovedAll(reapDir)
               /\ reapPc' = "sweep"
               /\ reapDir' = NoRelease
               /\ UNCHANGED <<reapTodo, reapActive, reapLeft>>
               /\ UNCHANGED <<library, storeVars, torboxVars, faults>>

SweepEnd == /\ reapPc = "sweep"
            /\ reapLeft = {}
            /\ ReapReturn
            /\ UNCHANGED <<reapTodo, storeVars, torboxVars, farmVars, faults>>

ReapStep == \/ ReapLoad
            \/ \E id \in JobIds : Imported(id) \/ NotImported(id)
            \/ Reap
            \/ SweepLoad
            \/ \E r \in Releases : SweepLook(r)
            \/ SweepRemove
            \/ SweepEnd
=============================================================================
