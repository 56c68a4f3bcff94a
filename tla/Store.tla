-------------------------------- MODULE Store --------------------------------
(***************************************************************************)
(* internal/store/store.go: the jobs table.                                *)
(*                                                                         *)
(* The pool has one connection and every operation is one SQL statement,   *)
(* so each operation below is atomic and two operations of one caller are  *)
(* not: a caller works on the copy it read, and UpdateJob writes EVERY     *)
(* mutable column of that copy back.                                       *)
(***************************************************************************)
EXTENDS Job, Faults

CONSTANTS MaxJobs,   \* how many rows may be created (AUTOINCREMENT ids)
          Nzbs,      \* NZBs, each with its category: the de-duplication key
          Releases,  \* release names, each with its category: farm directories
          NoNzb, NoRelease

ASSUME StoreAssumption == /\ MaxJobs \in Nat \ {0}
                          /\ NoNzb \notin Nzbs
                          /\ NoRelease \notin Releases

VARIABLES jobs,      \* the table: a row for every id, NoRow where there is none
          nextId     \* the next AUTOINCREMENT id

storeVars == <<jobs, nextId>>

JobIds == 1 .. MaxJobs

\* tb is TorBoxID (0: none yet), path is StoragePath, aged says that updated_at
\* is further back than importedTTL, heals is HealCount, and healed places
\* LastHealedAt: not set, within the heal backoff, or before it.
Row == [ state : States \cup {"absent"},
         nzb   : Nzbs \cup {NoNzb},
         tb    : Nat,
         path  : Releases \cup {NoRelease},
         aged  : BOOLEAN,
         heals : Nat,
         healed : {"never", "recent", "past"} ]

NoRow == [state |-> "absent", nzb |-> NoNzb, tb |-> 0,
          path |-> NoRelease, aged |-> FALSE, heals |-> 0, healed |-> "never"]

NewRow(k) == [NoRow EXCEPT !.state = "pending", !.nzb = k]

\* The states in which a row is about a download on TorBox.
Submitted == {"queued", "downloading", "completed", "imported", "deleted",
              "healing", "heal_failed", "manually_resolved"}

Exists(id) == jobs[id].state # "absent"

StoreType == /\ jobs \in [JobIds -> Row]
             /\ nextId \in 1 .. MaxJobs + 1

StoreInit == /\ jobs = [id \in JobIds |-> NoRow]
             /\ nextId = 1

-----------------------------------------------------------------------------
(* Queries: what a caller gets is a copy. *)

\* The rows in one of the states S, as a table of their own.
JobsByState(S) == [id \in JobIds |-> IF jobs[id].state \in S THEN jobs[id] ELSE NoRow]

NoRows == [id \in JobIds |-> NoRow]

\* Callers go through the rows they loaded oldest first.
Oldest(rows, id) == /\ rows[id].state # "absent"
                    /\ \A other \in JobIds : rows[other].state # "absent" => id <= other

Without(rows, id) == [rows EXCEPT ![id] = NoRow]

\* Mutant: a failed job does not count as a duplicate.
FindUnfailed(k) == {id \in JobIds : jobs[id].state \notin {"absent", "failed"} /\ jobs[id].nzb = k}

\* FindBySHA256 and FindByURL look at rows in ANY state.
FindOne(k) == {id \in JobIds : Exists(id) /\ jobs[id].nzb = k}

\* The storage paths of rows that are neither deleted nor failed.
ActiveStoragePaths ==
    {jobs[id].path : id \in {i \in JobIds : /\ jobs[i].state \notin {"absent", "deleted", "failed"}
                                            /\ jobs[i].path # NoRelease}}

-----------------------------------------------------------------------------
(* Statements that write. *)

CreateJob(k) == /\ nextId <= MaxJobs
                /\ jobs' = [jobs EXCEPT ![nextId] = NewRow(k)]
                /\ nextId' = nextId + 1

\* Mutant: INSERT OR REPLACE instead of UPDATE.
Upserted(id, row) == [jobs EXCEPT ![id] = [row EXCEPT !.aged = FALSE]]

\* jobs after UPDATE ... WHERE id=?, which changes nothing if the row is gone.
Written(id, row) == [jobs EXCEPT ![id] = IF @.state = "absent" THEN @
                                         ELSE [row EXCEPT !.aged = FALSE]]

UpdateJob(id, row) == /\ jobs' = Written(id, row)
                      /\ UNCHANGED nextId

DeleteJob(id) == /\ jobs' = Without(jobs, id)
                 /\ UNCHANGED nextId

Reapable(id) == jobs[id].state = "imported" /\ jobs[id].aged

ReapImported == /\ jobs' = [id \in JobIds |-> IF Reapable(id) THEN NoRow ELSE jobs[id]]
                /\ UNCHANGED nextId

StoreError == Fault("store") /\ UNCHANGED storeVars

\* A write whose error the caller only logs.
Persist(id, row) == \/ UpdateJob(id, row) /\ NoFault
                    \/ StoreError

\* An imported row nobody wrote for importedTTL (24h) becomes old.
Age(id) == /\ jobs[id].state = "imported"
           /\ ~jobs[id].aged
           /\ jobs' = [jobs EXCEPT ![id].aged = TRUE]
           /\ UNCHANGED <<nextId, faults>>
=============================================================================
