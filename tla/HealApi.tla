-------------------------------- MODULE HealApi --------------------------------
(***************************************************************************)
(* internal/api/handlers.go: the two requests by which an operator steers  *)
(* the healer.  Like the SAB requests they read a row, look at its state,  *)
(* and write the copy back.                                                *)
(***************************************************************************)
EXTENDS Healer

CONSTANT HealOps      \* what the operator asks for: "retry", "give_up"

ASSUME HealApiAssumption == HealOps \subseteq {"retry", "give_up"}

VARIABLES hreq,      \* the request being served
          waived     \* the rows somebody asked to give up

operatorVars == <<hreq, waived>>

\* "drop" is a give_up that has yet to delete the symlink rows.
HealRequest == [ op  : {"idle", "retry", "give_up", "drop"},
                 id  : JobIds \cup {0},
                 row : Row ]

HealApiIdle == [op |-> "idle", id |-> 0, row |-> NoRow]

HealApiType == hreq \in HealRequest /\ waived \in SUBSET JobIds

HealApiInit == hreq = HealApiIdle /\ waived = {}

\* healJobFromURL and the check of the state; a request for another job is
\* answered with an error and changes nothing.  Each request draws on the
\* budget of faults.
HealRead(id, op) == /\ op \in HealOps
                    /\ hreq.op = "idle"
                    /\ jobs[id].state = "heal_failed"
                    /\ Fault(op)
                    /\ hreq' = [op |-> op, id |-> id, row |-> jobs[id]]
                    /\ waived' = IF op = "give_up" THEN waived \cup {id} ELSE waived
                    /\ UNCHANGED <<attempts, storeVars, symVars>>

\* handleHealRetry: the count starts again.
RetryWrite == /\ hreq.op = "retry"
              /\ \/ /\ UpdateJob(hreq.id, [hreq.row EXCEPT !.heals = 0, !.healed = "never"])
                    /\ attempts' = [attempts EXCEPT ![hreq.id] = 0]
                    /\ NoFault
                 \/ StoreError /\ UNCHANGED attempts
              /\ hreq' = HealApiIdle
              /\ UNCHANGED <<waived, symVars>>

\* handleHealGiveUp, which goes on only if this is written.
GiveUpWrite ==
    /\ hreq.op = "give_up"
    /\ \/ /\ UpdateJob(hreq.id, [hreq.row EXCEPT !.state = "manually_resolved"])
          /\ NoFault
          /\ hreq' = [hreq EXCEPT !.op = "drop"]
       \/ StoreError /\ hreq' = HealApiIdle
    /\ UNCHANGED <<waived, attempts, symVars>>

GiveUpDrop == /\ hreq.op = "drop"
              /\ (DeleteImportedSymlinksByJob(hreq.id) /\ NoFault) \/ SymlinkError
              /\ hreq' = HealApiIdle
              /\ UNCHANGED <<waived, attempts, storeVars>>

HealApiNext == \/ \E id \in JobIds, op \in {"retry", "give_up"} : HealRead(id, op)
               \/ RetryWrite
               \/ GiveUpWrite
               \/ GiveUpDrop
=============================================================================
