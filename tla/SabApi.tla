-------------------------------- MODULE SabApi --------------------------------
(***************************************************************************)
(* internal/api/handlers.go: the SABnzbd requests that change the jobs     *)
(* table.  Each runs in its own goroutine, reads, and then writes what it  *)
(* read: other statements may come in between.                             *)
(***************************************************************************)
EXTENDS Store, FiniteSets

CONSTANTS Handlers,     \* requests being served at one time
          ClientOps     \* what the client does: "add", "delete", "purge"

ASSUME SabApiAssumption == /\ IsFiniteSet(Handlers)
                           /\ ClientOps \subseteq {"add", "delete", "purge"}

VARIABLES req,      \* the request each handler is serving
          asked     \* the rows whose deletion was requested with del_files=1

apiVars == <<req, asked>>

\* A handler between its query and its statement: "create" will insert a row
\* for nzb, "delete" and "purge" (del_files=1) act on row, its copy of row id.
Request == [ op  : {"idle", "create", "delete", "purge"},
             nzb : Nzbs \cup {NoNzb},
             id  : JobIds \cup {0},
             row : Row ]

Idle == [op |-> "idle", nzb |-> NoNzb, id |-> 0, row |-> NoRow]

ApiType == /\ req \in [Handlers -> Request]
           /\ asked \in SUBSET JobIds

ApiInit == /\ req = [h \in Handlers |-> Idle]
           /\ asked = {}

\* The look-up that de-duplicates: its error is dropped, like an empty result.
NotFound(k) == \/ FindOne(k) = {} /\ NoFault
               \/ FindOne(k) # {} /\ Fault("store")

\* handleAddURL and handleAddFile up to the look-up.  When it finds a row the
\* handler answers with its id and changes nothing.  (No NZB is added beyond the
\* bound on rows.)
AddFind(h, k) == /\ "add" \in ClientOps
                 /\ req[h].op = "idle"
                 /\ nextId <= MaxJobs
                 /\ NotFound(k)
                 /\ req' = [req EXCEPT ![h] = [Idle EXCEPT !.op = "create", !.nzb = k]]
                 /\ UNCHANGED <<asked, storeVars>>

\* createAndRespond.
AddCreate(h) == /\ req[h].op = "create"
                /\ \/ CreateJob(req[h].nzb) /\ NoFault
                   \/ StoreError
                /\ req' = [req EXCEPT ![h] = Idle]
                /\ UNCHANGED asked

\* handleDelete's GetJob, for one id of the request's list.  (A configuration whose
\* FaultKinds has the request bounds how often it is made.)
DelRead(h, id, op) ==
    /\ op \in ClientOps \cap {"delete", "purge"}
    /\ req[h].op = "idle"
    /\ Exists(id)
    /\ req' = [req EXCEPT ![h] = [op |-> op, nzb |-> NoNzb, id |-> id, row |-> jobs[id]]]
    /\ asked' = IF op = "purge" THEN asked \cup {id} ELSE asked
    /\ IF op \in FaultKinds THEN Fault(op) ELSE NoFault
    /\ UNCHANGED storeVars

\* Mutant: del_files=1 is honoured for a job TorBox never saw.
HandsOverAny(r) == r.op = "purge"

\* Mutant: del_files is not looked at.
HandsOverKnown(r) == r.row.tb # 0

\* del_files=1 on a job that TorBox knows of is left to the deleter.
HandsOver(r) == r.op = "purge" /\ r.row.tb # 0

DelWrite(h) ==
    /\ req[h].op \in {"delete", "purge"}
    /\ IF HandsOver(req[h])
       THEN Persist(req[h].id, [req[h].row EXCEPT !.state = "deleted"])
       ELSE \/ DeleteJob(req[h].id) /\ NoFault
            \/ StoreError
    /\ req' = [req EXCEPT ![h] = Idle]
    /\ UNCHANGED asked

ApiNext == \E h \in Handlers :
              \/ \E k \in Nzbs : AddFind(h, k)
              \/ AddCreate(h)
              \/ \E id \in JobIds, op \in {"delete", "purge"} : DelRead(h, id, op)
              \/ DelWrite(h)
=============================================================================
