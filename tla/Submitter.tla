------------------------------- MODULE Submitter -------------------------------
(***************************************************************************)
(* internal/worker/submitter.go: the loop that submits pending jobs.       *)
(*                                                                         *)
(* One tick loads the pending rows and takes them one by one through       *)
(*   "mark"  write `submitting`                                            *)
(*   "call"  createusenetdownload, tried again after transient errors      *)
(*   "save"  write the outcome                                             *)
(***************************************************************************)
EXTENDS TorBox

VARIABLES subPc,        \* where submitOnce is
          subTodo,      \* its copies of the rows it still has to handle
          subCooling    \* submitBackoffUntil lies in the future

subVars == <<subPc, subTodo, subCooling>>

SubType == /\ subPc \in {"idle", "mark", "call", "save"}
           /\ subTodo \in [JobIds -> Row]
           /\ subCooling \in BOOLEAN

SubInit == /\ subPc = "idle"
           /\ subTodo = NoRows
           /\ subCooling = FALSE

\* The job being submitted is the oldest one still to do.
Submitting(id) == Oldest(subTodo, id)

\* On to the next job, or to the next tick.
SubAdvance(rows) == /\ subTodo' = rows
                    /\ subPc' = IF rows = NoRows THEN "idle" ELSE "mark"

SubLoad == /\ subPc = "idle"
           /\ ~subCooling
           /\ JobsByState({"pending"}) # NoRows
           /\ SubAdvance(JobsByState({"pending"}))
           /\ UNCHANGED <<subCooling, storeVars, torboxVars, faults>>

\* Mutant: the job is marked in memory only.
SubMarkUnsaved(id) ==
    /\ subPc = "mark"
    /\ Submitting(id)
    /\ subTodo' = [subTodo EXCEPT ![id].state = "submitting"]
    /\ subPc' = "call"
    /\ UNCHANGED <<subCooling, storeVars, torboxVars, faults>>

\* A job that cannot be marked is skipped; it is still pending.
SubMark(id) ==
    /\ subPc = "mark"
    /\ Submitting(id)
    /\ LET row == [subTodo[id] EXCEPT !.state = "submitting"]
       IN  \/ /\ UpdateJob(id, row) /\ NoFault
              /\ subTodo' = [subTodo EXCEPT ![id] = row]
              /\ subPc' = "call"
           \/ StoreError /\ SubAdvance(Without(subTodo, id))
    /\ UNCHANGED <<subCooling, torboxVars>>

\* The copy takes the outcome of the call, and goes to be written.
SubOutcome(id, state, d) ==
    /\ subTodo' = [subTodo EXCEPT ![id].state = state, ![id].tb = d]
    /\ subPc' = "save"

SubCreated(id, d) == /\ subPc = "call"
                     /\ Submitting(id)
                     /\ CreateUsenetDownload(d, id, subTodo[id].nzb)
                     /\ SubOutcome(id, "queued", d)
                     /\ UNCHANGED <<subCooling, storeVars, faults>>

\* The download was created and the answer lost: a transient error to the
\* retry loop, which calls again.
SubAnswerLost(id, d) == /\ subPc = "call"
                        /\ Submitting(id)
                        /\ Fault("lost")
                        /\ CreateUsenetDownload(d, id, subTodo[id].nzb)
                        /\ UNCHANGED <<subVars, storeVars>>

\* 429: back to pending, the rest of the tick is dropped after the write.
SubLimited(id) == /\ subPc = "call"
                  /\ Submitting(id)
                  /\ Fault("limit")
                  /\ SubOutcome(id, "pending", subTodo[id].tb)
                  /\ UNCHANGED <<subCooling, storeVars, torboxVars>>

\* A permanent error, or transient ones for two minutes.
SubRefused(id) == /\ subPc = "call"
                  /\ Submitting(id)
                  /\ Fault("refuse")
                  /\ SubOutcome(id, "failed", subTodo[id].tb)
                  /\ UNCHANGED <<subCooling, storeVars, torboxVars>>

\* Mutant: the cooldown starts without writing the job back to pending.
SubSaveUnreverted(id) ==
    /\ subPc = "save"
    /\ Submitting(id)
    /\ IF subTodo[id].state = "pending"
       THEN SubAdvance(NoRows) /\ subCooling' = TRUE /\ UNCHANGED <<storeVars, faults>>
       ELSE /\ Persist(id, subTodo[id])
            /\ SubAdvance(Without(subTodo, id)) /\ UNCHANGED subCooling
    /\ UNCHANGED torboxVars

SubSave(id) ==
    /\ subPc = "save"
    /\ Submitting(id)
    /\ Persist(id, subTodo[id])
    /\ IF subTodo[id].state = "pending"
       THEN SubAdvance(NoRows) /\ subCooling' = TRUE
       ELSE SubAdvance(Without(subTodo, id)) /\ UNCHANGED subCooling
    /\ UNCHANGED torboxVars

\* The cooldown (Retry-After, or five minutes) has passed.
SubCooldownEnds == /\ subCooling
                   /\ subCooling' = FALSE
                   /\ UNCHANGED <<subPc, subTodo, storeVars, torboxVars, faults>>

SubStep == \/ SubLoad
           \/ \E id \in JobIds :
                 \/ SubMark(id)
                 \/ SubRefused(id)
                 \/ SubLimited(id)
                 \/ \E d \in DlIds : SubCreated(id, d) \/ SubAnswerLost(id, d)
                 \/ SubSave(id)
           \/ SubCooldownEnds
=============================================================================
