--------------------------------- MODULE Farm ---------------------------------
(***************************************************************************)
(* internal/worker/symlink.go: the symlink farm, one directory per release *)
(* under its category, and the SAB client that imports from it.            *)
(***************************************************************************)
EXTENDS TorBox

CONSTANT Nested      \* the releases whose files lie in subdirectories

ASSUME FarmAssumption == Nested \subseteq Releases

\* A release directory holds links, nothing, or only subdirectories ("hollow").
VARIABLES farm,      \* the state of each release directory
          library    \* the releases whose links the client moved to its library

farmVars == <<farm, library>>

FarmType == /\ farm \in [Releases -> {"absent", "empty", "hollow", "linked"}]
            /\ library \in SUBSET Releases

FarmInit == /\ farm = [r \in Releases |-> "absent"]
            /\ library = {}

\* What is left of a release directory without its links.
Emptied(r) == IF r \in Nested THEN "hollow" ELSE "empty"

\* classifyReleaseDir counts files: empty, also with subdirectories, and
\* allBroken when every link's target is gone.
IsEmpty(r) == farm[r] \in {"empty", "hollow"}
AllBroken(r) == farm[r] = "linked" /\ mount[r] # "full"

\* buildSymlinkFarm over a folder with files; existing links are kept.
Linked(r) == [farm EXCEPT ![r] = "linked"]

\* buildSymlinkFarm that made the directory and failed on its first link.
Made(r) == [farm EXCEPT ![r] = IF @ = "absent" THEN Emptied(r) ELSE @]

\* removeSymlinkDir and the sweep's os.RemoveAll: whatever it holds.
RemovedAll(r) == [farm EXCEPT ![r] = "absent"]

\* os.Remove: only a directory with nothing in it.
RemovedIfEmpty(r) == [farm EXCEPT ![r] = IF @ = "empty" THEN "absent" ELSE @]

\* The client imports a completed job: it moves the links to its library.
SonarrImport(id) == /\ jobs[id].state = "completed"
                    /\ farm[jobs[id].path] = "linked"
                    /\ farm' = [farm EXCEPT ![jobs[id].path] = Emptied(jobs[id].path)]
                    /\ library' = library \cup {jobs[id].path}
                    /\ UNCHANGED <<storeVars, torboxVars, faults>>
=============================================================================
