-------------------------------- MODULE Deleter --------------------------------
(***************************************************************************)
(* internal/worker/deleter.go: the loop that removes from TorBox, from the *)
(* farm and from the table what the client asked to delete with its files. *)
(*                                                                         *)
(* Each row of a tick goes through "call", "dir" and "row".                *)
(***************************************************************************)
EXTENDS Farm

CONSTANT deleteGiveUpAttempts   \* 60 in the code

ASSUME DeleterAssumption == deleteGiveUpAttempts \in Nat \ {0}

VARIABLES delPc,            \* where deleteOnce is
          delTodo,          \* its copies of the rows it still has to delete
          deleteAttempts    \* failed deletions on TorBox, per row

delVars == <<delPc, delTodo, deleteAttempts>>

NoAttempts == [id \in JobIds |-> 0]

DelType == /\ delPc \in {"idle", "call", "dir", "row"}
           /\ delTodo \in [JobIds -> Row]
           /\ deleteAttempts \in [JobIds -> 0 .. deleteGiveUpAttempts - 1]

DelInit == /\ delPc = "idle"
           /\ delTodo = NoRows
           /\ deleteAttempts = NoAttempts

Deleting(id) == Oldest(delTodo, id)

DelAdvance(id) == LET rows == Without(delTodo, id) IN
                  /\ delTodo' = rows
                  /\ delPc' = IF rows = NoRows THEN "idle" ELSE "call"

\* Counters of rows that no longer wait for deletion are dropped (at the end
\* of the tick; nothing reads them before).
DelLoad == LET rows == JobsByState({"deleted"}) IN
           /\ delPc = "idle"
           /\ rows # NoRows
           /\ delTodo' = rows
           /\ delPc' = "call"
           /\ deleteAttempts' = [id \in JobIds |-> IF rows[id] = NoRow THEN 0
                                                   ELSE deleteAttempts[id]]
           /\ UNCHANGED <<storeVars, torboxVars, farmVars, faults>>

DelNothing == /\ delPc = "idle"
              /\ JobsByState({"deleted"}) = NoRows
              /\ deleteAttempts # NoAttempts
              /\ deleteAttempts' = NoAttempts
              /\ UNCHANGED <<delPc, delTodo, storeVars, torboxVars, farmVars, faults>>

Forget(id) == deleteAttempts' = [deleteAttempts EXCEPT ![id] = 0]

DelRemoved(id) == /\ delPc = "call"
                  /\ Deleting(id)
                  /\ ControlUsenet(delTodo[id].tb)
                  /\ Forget(id)
                  /\ delPc' = "dir"
                  /\ UNCHANGED <<delTodo, storeVars, farmVars, faults>>

\* Mutants: one failure too many, and one too few.
GivesUpLate(n) == n > deleteGiveUpAttempts
GivesUpEarly(n) == n + 1 >= deleteGiveUpAttempts

GivesUp(n) == n >= deleteGiveUpAttempts

\* The call fails on its own account, or because TorBox has no such download.
ControlFails(d) == \/ dl[d].status \notin Live /\ NoFault
                   \/ Fault("control")

\* The row is kept for the next tick, until it has failed too often.
DelRefused(id) == LET n == deleteAttempts[id] + 1 IN
                  /\ delPc = "call"
                  /\ Deleting(id)
                  /\ ControlFails(delTodo[id].tb)
                  /\ \/ /\ ~GivesUp(n)
                        /\ deleteAttempts' = [deleteAttempts EXCEPT ![id] = n]
                        /\ DelAdvance(id)
                     \/ /\ GivesUp(n)
                        /\ Forget(id)
                        /\ delPc' = "dir"
                        /\ UNCHANGED delTodo
                  /\ UNCHANGED <<storeVars, torboxVars, farmVars>>

DelDir(id) == LET r == delTodo[id].path IN
              /\ delPc = "dir"
              /\ Deleting(id)
              /\ farm' = IF r = NoRelease THEN farm ELSE RemovedAll(r)
              /\ delPc' = "row"
              /\ UNCHANGED <<delTodo, deleteAttempts, library, storeVars, torboxVars, faults>>

\* Mutant: the row is not dropped.
DelRowKept(id) == /\ delPc = "row" /\ Deleting(id) /\ DelAdvance(id)
                  /\ UNCHANGED <<deleteAttempts, storeVars, torboxVars, farmVars, faults>>

DelRow(id) == /\ delPc = "row"
              /\ Deleting(id)
              /\ (DeleteJob(id) /\ NoFault) \/ StoreError
              /\ DelAdvance(id)
              /\ UNCHANGED <<deleteAttempts, torboxVars, farmVars>>

DelStep == \/ DelLoad
           \/ DelNothing
           \/ \E id \in JobIds :
                 \/ DelRemoved(id)
                 \/ DelRefused(id)
                 \/ DelDir(id)
                 \/ DelRow(id)
=============================================================================
