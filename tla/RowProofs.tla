------------------------------- MODULE RowProofs -------------------------------
(***************************************************************************)
(* What the proofs about the pipeline and about healing have in common:    *)
(* the table and its copies, the account, the API, the deleter.            *)
(*                                                                         *)
(* Every loop and every request holds copies of rows and writes them back  *)
(* whole.  The inductive invariants therefore say of every copy, however   *)
(* old, what they say of the table.                                        *)
(***************************************************************************)
EXTENDS SabApi, Deleter, TLAPS

\* What is true of every row, in the table or copied from it, whose id is id,
\* given the downloads D and the set A of rows asked to be deleted.
WellFormed(D, A, id, row) ==
    /\ row \in Row
    /\ row.state # "absent" => row.nzb \in Nzbs
    /\ row.state = "completed" => row.path \in Releases
    /\ row.state \in Submitted => row.tb # 0
    /\ row.tb # 0 => row.tb \in DlIds /\ D[row.tb].job = id
    /\ row.state = "deleted" => id \in A

Table(T, D, A) == /\ T \in [JobIds -> Row]
                  /\ \A id \in JobIds : WellFormed(D, A, id, T[id])

\* A download has an owner once it is used, and then a release.
Downloads(D) == /\ D \in [DlIds -> Download]
                /\ \A d \in DlIds : /\ D[d].status = "unused" => D[d].job = 0
                                    /\ D[d].job # 0 => D[d].release \in Releases

\* The request of a handler: its copy is of the row it names.
Serving(r, D, A) == /\ r \in Request
                    /\ r.op = "create" => r.nzb \in Nzbs
                    /\ r.op \in {"delete", "purge"} =>
                          r.id \in JobIds /\ r.row.state # "absent" /\ WellFormed(D, A, r.id, r.row)
                    /\ r.op = "purge" => r.id \in A

Asked(D, A) == \A d \in DlIds : D[d].status = "removed" => D[d].job \in A

StoreInv == /\ Table(jobs, dl, asked)
            /\ nextId \in 1 .. MaxJobs + 1
            /\ faults \in 0 .. MaxFaults

TorBoxInv == /\ Downloads(dl)
             /\ Asked(dl, asked)
             /\ mount \in [Releases -> {"absent", "empty", "full"}]

ApiInv == /\ asked \in SUBSET JobIds
          /\ req \in [Handlers -> Request]
          /\ \A h \in Handlers : Serving(req[h], dl, asked)

DelInv == /\ DelType
          /\ Table(delTodo, dl, asked)
          /\ \A id \in JobIds : delTodo[id].state \in {"deleted", "absent"}

-----------------------------------------------------------------------------
(* Rows and tables *)

\* No row is a row.
LEMMA NoRowType == NoRow \in Row /\ NoRow.state = "absent" /\ NoRow.tb = 0
BY DEF NoRow, Row, States

\* No row is well formed, whatever there is on TorBox.
LEMMA NoRowWellFormed ==
    ASSUME NEW D, NEW A, NEW id
    PROVE  WellFormed(D, A, id, NoRow)
BY NoRowType DEF WellFormed, NoRow, Submitted

\* A table stays one when a well-formed row is put into it.
LEMMA TablePut ==
    ASSUME NEW D, NEW A, NEW T, Table(T, D, A),
           NEW id \in JobIds, NEW row, WellFormed(D, A, id, row)
    PROVE  Table([T EXCEPT ![id] = row], D, A)
BY DEF Table, WellFormed

\* A table stays one when a row is taken out of it.
LEMMA TableWithout ==
    ASSUME NEW D, NEW A, NEW T, Table(T, D, A), NEW id \in JobIds
    PROVE  Table(Without(T, id), D, A)
BY TablePut, NoRowWellFormed DEF Without

\* The table without rows is one.
LEMMA TableNoRows == ASSUME NEW D, NEW A PROVE Table(NoRows, D, A)
BY NoRowWellFormed, NoRowType DEF Table, NoRows

\* What JobsByState returns is one, and holds rows of these states only.
LEMMA TableByState ==
    ASSUME NEW S, Table(jobs, dl, asked), "absent" \notin S
    PROVE  /\ Table(JobsByState(S), dl, asked)
           /\ \A id \in JobIds : JobsByState(S)[id].state \in S \cup {"absent"}
BY NoRowWellFormed, NoRowType DEF Table, JobsByState

\* Statements write well-formed rows: aged does not matter.
LEMMA WrittenWellFormed ==
    ASSUME NEW D, NEW A, NEW id, NEW row, WellFormed(D, A, id, row),
           NEW aged \in BOOLEAN
    PROVE  WellFormed(D, A, id, [row EXCEPT !.aged = aged])
BY DEF WellFormed, Row

\* A well-formed row may be given another state, if that state's claims hold.
LEMMA RestatedWellFormed ==
    ASSUME NEW D, NEW A, NEW id, NEW row, WellFormed(D, A, id, row),
           row.state # "absent", NEW s \in States, s # "completed",
           s \in Submitted => row.tb # 0, s = "deleted" => id \in A
    PROVE  WellFormed(D, A, id, [row EXCEPT !.state = s])
BY DEF WellFormed, Row, States, Submitted

\* UpdateJob keeps the table well formed if it writes a well-formed row.
LEMMA TableWritten ==
    ASSUME Table(jobs, dl, asked), NEW id \in JobIds, NEW row,
           WellFormed(dl, asked, id, row)
    PROVE  Table(Written(id, row), dl, asked)
<1>1. WellFormed(dl, asked, id, [row EXCEPT !.aged = FALSE])
  BY WrittenWellFormed
<1>2. WellFormed(dl, asked, id, jobs[id]) /\ jobs \in [JobIds -> Row]
  BY DEF Table
<1>3. CASE jobs[id].state = "absent"
  <2>1. Written(id, row) = [jobs EXCEPT ![id] = jobs[id]]
    BY <1>3, <1>2 DEF Written
  <2>2. QED  BY <2>1, <1>2, TablePut
<1>4. CASE jobs[id].state # "absent"
  <2>1. Written(id, row) = [jobs EXCEPT ![id] = [row EXCEPT !.aged = FALSE]]
    BY <1>4, <1>2 DEF Written
  <2>2. Table([jobs EXCEPT ![id] = [row EXCEPT !.aged = FALSE]], dl, asked)
    BY <1>1, TablePut
  <2>3. QED  BY <2>1, <2>2
<1>5. QED  BY <1>3, <1>4

\* Downloads never change hands and requests to delete are never taken back, so
\* a copy stays well formed while its holder waits.
LEMMA TableKept ==
    ASSUME NEW D, NEW E, NEW A, NEW B, NEW T, Table(T, D, A), A \subseteq B,
           \A d \in DlIds : D[d].job # 0 => E[d].job = D[d].job
    PROVE  Table(T, E, B)
<1>1. ASSUME NEW id \in JobIds PROVE WellFormed(E, B, id, T[id])
  <2>1. WellFormed(D, A, id, T[id]) /\ id # 0
    BY DEF Table, JobIds
  <2>2. QED  BY <2>1 DEF WellFormed
<1>2. QED  BY <1>1 DEF Table

\* The same for the copy of a request.
LEMMA ServingKept ==
    ASSUME NEW D, NEW E, NEW A, NEW B, NEW r, Serving(r, D, A), A \subseteq B,
           \A d \in DlIds : D[d].job # 0 => E[d].job = D[d].job
    PROVE  Serving(r, E, B)
<1>1. r.id \in JobIds => r.id # 0
  BY DEF JobIds
<1>2. QED  BY <1>1 DEF Serving, WellFormed

-----------------------------------------------------------------------------
(* What a step leaves alone *)

\* How the account and the requests to delete may develop in a step.
Grows == /\ asked \subseteq asked'
         /\ \A d \in DlIds : dl[d].job # 0 => dl'[d].job = dl[d].job

\* A faulty or faultless step stays within the budget.
LEMMA FaultType ==
    ASSUME faults \in 0 .. MaxFaults
    PROVE  /\ \A kind : Fault(kind) => faults' \in 0 .. MaxFaults
           /\ NoFault => faults' \in 0 .. MaxFaults
BY FaultsAssumption DEF Fault, NoFault

\* The table is kept by a step that does not write it.
LEMMA StoreKept ==
    ASSUME StoreInv, Grows, UNCHANGED storeVars, faults' \in 0 .. MaxFaults
    PROVE  StoreInv'
BY TableKept DEF StoreInv, Grows, storeVars

\* The same for the account and the farm.
LEMMA TorBoxKept == ASSUME TorBoxInv, UNCHANGED torboxVars, asked \subseteq asked' PROVE TorBoxInv'
BY DEF TorBoxInv, torboxVars, Asked, Downloads

LEMMA FarmKept == ASSUME FarmType, UNCHANGED farmVars PROVE FarmType'
BY DEF FarmType, farmVars

\* Requests and loops that do not move keep their copies well formed.
LEMMA ApiKept == ASSUME ApiInv, Grows, UNCHANGED apiVars PROVE ApiInv'
BY ServingKept DEF ApiInv, Grows, apiVars

LEMMA DelKept == ASSUME DelInv, Grows, UNCHANGED delVars PROVE DelInv'
BY TableKept DEF DelInv, DelType, Grows, delVars

\* Statements that write one well-formed row, drop one, or fail.
LEMMA PersistKept ==
    ASSUME StoreInv, NEW id \in JobIds, NEW row, WellFormed(dl, asked, id, row),
           Persist(id, row), UNCHANGED <<dl, asked>>
    PROVE  StoreInv'
<1>1. CASE UpdateJob(id, row) /\ NoFault
  <2>1. Table(jobs', dl, asked)
    BY <1>1, TableWritten DEF UpdateJob, StoreInv
  <2>2. QED  BY <1>1, <2>1 DEF UpdateJob, NoFault, StoreInv
<1>2. CASE StoreError
  BY <1>2, FaultType DEF StoreError, storeVars, StoreInv
<1>3. QED  BY <1>1, <1>2 DEF Persist

LEMMA DeleteKept ==
    ASSUME StoreInv, NEW id \in JobIds, UNCHANGED <<dl, asked>>,
           (DeleteJob(id) /\ NoFault) \/ StoreError
    PROVE  StoreInv'
<1>1. CASE DeleteJob(id) /\ NoFault
  <2>1. Table(jobs', dl, asked)
    BY <1>1, TableWithout DEF DeleteJob, StoreInv
  <2>2. QED  BY <1>1, <2>1 DEF DeleteJob, NoFault, StoreInv
<1>2. CASE StoreError
  BY <1>2, FaultType DEF StoreError, storeVars, StoreInv
<1>3. QED  BY <1>1, <1>2

-----------------------------------------------------------------------------
(* The API *)

\* An API request preserves the table and the requests.
LEMMA ApiStep ==
    ASSUME StoreInv, ApiInv, ApiNext, UNCHANGED dl
    PROVE  StoreInv' /\ ApiInv' /\ Grows
<1>1. ASSUME NEW h \in Handlers, NEW k \in Nzbs, AddFind(h, k)
      PROVE  StoreInv' /\ ApiInv' /\ Grows
  <2>1. Grows
    BY <1>1 DEF AddFind, Grows
  <2>2. StoreInv'
    <3>1. faults' \in 0 .. MaxFaults
      BY <1>1, FaultType DEF AddFind, NotFound, StoreInv
    <3>2. QED  BY <1>1, <2>1, <3>1, StoreKept DEF AddFind
  <2>3. ApiInv'
    <3> DEFINE r == [Idle EXCEPT !.op = "create", !.nzb = k]
    <3>1. Serving(r, dl, asked)
      BY NoRowType DEF Serving, Idle, Request
    <3>2. r \in Request
      BY <3>1 DEF Serving
    <3>3. req' = [req EXCEPT ![h] = r] /\ asked' = asked
      BY <1>1 DEF AddFind
    <3>4. QED  BY <3>1, <3>2, <3>3 DEF ApiInv
  <2>4. QED  BY <2>1, <2>2, <2>3
<1>2. ASSUME NEW h \in Handlers, AddCreate(h)
      PROVE  StoreInv' /\ ApiInv' /\ Grows
  <2>1. Grows
    BY <1>2 DEF AddCreate, Grows
  <2>2. StoreInv'
    <3>1. CASE CreateJob(req[h].nzb) /\ NoFault
      <4>1. nextId \in JobIds /\ nextId' \in 1 .. MaxJobs + 1
        BY <3>1, StoreAssumption DEF CreateJob, StoreInv, JobIds
      <4>2. req[h].nzb \in Nzbs
        BY <1>2 DEF AddCreate, ApiInv, Serving
      <4>3. WellFormed(dl, asked, nextId, NewRow(req[h].nzb))
        BY <4>2, NoRowType DEF WellFormed, NewRow, NoRow, Row, States, Submitted
      <4>4. Table(jobs', dl, asked)
        BY <3>1, <4>1, <4>3, TablePut DEF CreateJob, StoreInv
      <4>5. QED  BY <1>2, <3>1, <4>1, <4>4 DEF AddCreate, NoFault, StoreInv
    <3>2. CASE StoreError
      BY <1>2, <3>2, <2>1, FaultType, StoreKept DEF StoreError, StoreInv
    <3>3. QED  BY <1>2, <3>1, <3>2 DEF AddCreate
  <2>3. ApiInv'
    BY <1>2, NoRowType DEF AddCreate, ApiInv, Serving, Idle, Request
  <2>4. QED  BY <2>1, <2>2, <2>3
<1>3. ASSUME NEW h \in Handlers, NEW id \in JobIds, NEW op \in {"delete", "purge"},
             DelRead(h, id, op)
      PROVE  StoreInv' /\ ApiInv' /\ Grows
  <2>1. Grows /\ asked' \in SUBSET JobIds
    BY <1>3 DEF DelRead, Grows, ApiInv
  <2>2. StoreInv'
    <3>1. faults' \in 0 .. MaxFaults
      BY <1>3, FaultType DEF DelRead, StoreInv
    <3>2. QED  BY <1>3, <2>1, <3>1, StoreKept DEF DelRead, StoreInv
  <2>3. ApiInv'
    <3> DEFINE r == [op |-> op, nzb |-> NoNzb, id |-> id, row |-> jobs[id]]
    <3>1. WellFormed(dl, asked', id, jobs[id]) /\ jobs[id] \in Row
      BY <2>1, <2>2, <1>3 DEF StoreInv, Table, DelRead, storeVars, WellFormed
    <3>2. r \in Request
      BY <3>1 DEF Request
    <3>3. Serving(r, dl, asked')
      BY <1>3, <3>1, <3>2 DEF Serving, DelRead, Exists
    <3>4. \A g \in Handlers : Serving(req[g], dl, asked')
      BY <2>1, ServingKept DEF ApiInv, Grows
    <3>5. req' = [req EXCEPT ![h] = r]
      BY <1>3 DEF DelRead
    <3>6. QED  BY <2>1, <3>2, <3>3, <3>4, <3>5 DEF ApiInv
  <2>4. QED  BY <2>1, <2>2, <2>3
<1>4. ASSUME NEW h \in Handlers, DelWrite(h)
      PROVE  StoreInv' /\ ApiInv' /\ Grows
  <2> DEFINE row == [req[h].row EXCEPT !.state = "deleted"]
  <2>1. Grows
    BY <1>4 DEF DelWrite, Grows
  <2>2. req[h].id \in JobIds /\ WellFormed(dl, asked, req[h].id, req[h].row)
    BY <1>4 DEF DelWrite, ApiInv, Serving
  <2>3. StoreInv'
    <3>1. CASE HandsOver(req[h])
      <4>1. req[h].id \in asked /\ req[h].row.tb # 0
        BY <3>1 DEF HandsOver, ApiInv, Serving
      <4>2. WellFormed(dl, asked, req[h].id, row)
        BY <1>4, <2>2, <4>1, RestatedWellFormed DEF DelWrite, States, ApiInv, Serving
      <4>3. Persist(req[h].id, row) /\ asked' = asked
        BY <1>4, <3>1 DEF DelWrite
      <4>4. QED  BY <2>2, <4>2, <4>3, PersistKept
    <3>2. CASE ~HandsOver(req[h])
      BY <1>4, <3>2, <2>2, DeleteKept DEF DelWrite
    <3>3. QED  BY <3>1, <3>2
  <2>4. ApiInv'
    BY <1>4, NoRowType DEF DelWrite, ApiInv, Serving, Idle, Request
  <2>5. QED  BY <2>1, <2>3, <2>4
<1>5. QED  BY <1>1, <1>2, <1>3, <1>4 DEF ApiNext

-----------------------------------------------------------------------------
(* The account *)

\* TorBox accepts an NZB: the account grows by a download with a release.
LEMMA CreateOK ==
    ASSUME TorBoxInv, NEW d \in DlIds, NEW id \in JobIds, NEW r \in Releases,
           CreateNamed(d, id, r), UNCHANGED asked
    PROVE  TorBoxInv' /\ Grows /\ dl'[d].job = id
<1> DEFINE new == [status |-> "working", job |-> id, release |-> r]
<1>1. dl' = [dl EXCEPT ![d] = new] /\ dl[d].status = "unused" /\ UNCHANGED mount
  BY DEF CreateNamed
<1>2. new \in Download /\ new.release \in Releases
  BY DEF Download, Live
<1>3. dl[d].job = 0 /\ dl \in [DlIds -> Download]
  BY <1>1 DEF TorBoxInv, Downloads
<1>4. Downloads(dl')
  BY <1>1, <1>2, <1>3 DEF TorBoxInv, Downloads
<1>5. Asked(dl', asked)
  BY <1>1, <1>3 DEF TorBoxInv, Asked
<1>6. QED  BY <1>1, <1>3, <1>4, <1>5 DEF TorBoxInv, Grows

\* A download ends or is gone: nobody else's claim is touched.
LEMMA StatusOK ==
    ASSUME TorBoxInv, NEW d \in DlIds, NEW s \in {"ready", "failed", "vanished"},
           dl' = [dl EXCEPT ![d].status = s], dl[d].status \in Live, UNCHANGED <<asked, mount>>
    PROVE  TorBoxInv' /\ Grows
<1>0. dl \in [DlIds -> Download]
  BY DEF TorBoxInv, Downloads
<1>1. dl' \in [DlIds -> Download] /\ \A e \in DlIds : dl'[e].job = dl[e].job
                                                   /\ dl'[e].release = dl[e].release
  BY <1>0 DEF Download, Live
<1>2. dl'[d].status = s /\ \A e \in DlIds : e # d => dl'[e] = dl[e]
  BY <1>0 DEF Download
<1>3. Downloads(dl')
  BY <1>1, <1>2 DEF TorBoxInv, Downloads
<1>4. Asked(dl', asked)
  BY <1>1, <1>2 DEF TorBoxInv, Asked
<1>5. QED  BY <1>1, <1>3, <1>4 DEF TorBoxInv, Grows

\* Downloads end, break, vanish and surface.
LEMMA OnTorBoxOK ==
    ASSUME StoreInv, TorBoxInv, TorBoxNext, UNCHANGED <<asked, storeVars>>
    PROVE  StoreInv' /\ TorBoxInv' /\ Grows
<1>1. ASSUME NEW d \in DlIds, Finish(d) \/ Break(d) \/ Vanish(d)
      PROVE  TorBoxInv' /\ Grows /\ faults' \in 0 .. MaxFaults
  <2>1. PICK s \in {"ready", "failed", "vanished"} : dl' = [dl EXCEPT ![d].status = s]
    BY <1>1 DEF Finish, Break, Vanish
  <2>2. dl[d].status \in Live /\ UNCHANGED mount
    BY <1>1 DEF Finish, Break, Vanish, Live
  <2>3. faults' \in 0 .. MaxFaults
    BY <1>1, FaultType DEF Finish, Break, Vanish, StoreInv
  <2>4. QED  BY <2>1, <2>2, <2>3, StatusOK
<1>2. ASSUME NEW r \in Releases, Surface(r) \/ Unsurface(r)
      PROVE  TorBoxInv' /\ Grows /\ faults' \in 0 .. MaxFaults
  <2>1. UNCHANGED <<dl, faults>>
    BY <1>2 DEF Surface, Unsurface
  <2>2. mount' \in [Releases -> {"absent", "empty", "full"}]
    BY <1>2 DEF Surface, Unsurface, TorBoxInv
  <2>3. QED  BY <2>1, <2>2 DEF TorBoxInv, Grows, StoreInv
<1>3. TorBoxInv' /\ Grows /\ faults' \in 0 .. MaxFaults
  BY <1>1, <1>2 DEF TorBoxNext
<1>4. QED  BY <1>3, StoreKept

\* A day makes rows old.
LEMMA AgeOK ==
    ASSUME StoreInv, NEW id \in JobIds, Age(id), UNCHANGED <<asked, dl>>
    PROVE  StoreInv'
<1>1. WellFormed(dl, asked, id, [jobs[id] EXCEPT !.aged = TRUE])
  <2>1. WellFormed(dl, asked, id, jobs[id])
    BY DEF StoreInv, Table
  <2>2. QED  BY <2>1, WrittenWellFormed
<1>2. jobs' = [jobs EXCEPT ![id] = [jobs[id] EXCEPT !.aged = TRUE]]
  BY DEF Age, StoreInv, Table
<1>3. Table(jobs', dl, asked)
  BY <1>1, <1>2, TablePut DEF StoreInv
<1>4. QED  BY <1>3 DEF Age, StoreInv

-----------------------------------------------------------------------------
(* The deleter *)

\* The row being deleted was asked to be, and names a download it owns.
LEMMA DeletingOK ==
    ASSUME DelInv, NEW id \in JobIds, Deleting(id)
    PROVE  id \in asked /\ delTodo[id].tb \in DlIds /\ dl[delTodo[id].tb].job = id
BY DEF DelInv, Table, Deleting, Oldest, WellFormed, Submitted

\* A row is done with: its copy is dropped.
LEMMA DelAdvanceOK ==
    ASSUME DelInv, NEW id \in JobIds, DelAdvance(id), UNCHANGED <<dl, asked>>,
           deleteAttempts' \in [JobIds -> 0 .. deleteGiveUpAttempts - 1]
    PROVE  DelInv'
<1>1. Table(delTodo', dl, asked)
  BY TableWithout DEF DelInv, DelAdvance
<1>2. \A i \in JobIds : delTodo'[i].state \in {"deleted", "absent"}
  BY NoRowType DEF DelInv, DelAdvance, Without, Table
<1>3. QED  BY <1>1, <1>2 DEF DelInv, DelType, DelAdvance, Table

\* A step of the deleter preserves the table, the account, the farm, its copies.
LEMMA DelStepOK ==
    ASSUME StoreInv, TorBoxInv, FarmType, DelInv, DelStep, UNCHANGED asked
    PROVE  StoreInv' /\ TorBoxInv' /\ FarmType' /\ DelInv' /\ Grows
<1>a. deleteAttempts \in [JobIds -> 0 .. deleteGiveUpAttempts - 1]
  BY DEF DelInv, DelType
<1>b. \A id \in JobIds : Forget(id) =>
         deleteAttempts' \in [JobIds -> 0 .. deleteGiveUpAttempts - 1]
  BY <1>a, DeleterAssumption DEF Forget
<1>1. CASE DelLoad
  <2>1. UNCHANGED <<dl, torboxVars>> /\ Grows
    BY <1>1 DEF DelLoad, torboxVars, Grows
  <2>2. StoreInv' /\ TorBoxInv' /\ FarmType'
    BY <1>1, <2>1, StoreKept, TorBoxKept, FarmKept DEF DelLoad, StoreInv
  <2>3. Table(delTodo', dl, asked)
        /\ \A id \in JobIds : delTodo'[id].state \in {"deleted", "absent"}
    BY <1>1, TableByState DEF DelLoad, StoreInv
  <2>4. deleteAttempts' \in [JobIds -> 0 .. deleteGiveUpAttempts - 1]
    BY <1>1, <1>a, DeleterAssumption DEF DelLoad
  <2>5. DelInv'
    BY <1>1, <2>1, <2>3, <2>4 DEF DelLoad, DelInv, DelType, Table
  <2>6. QED  BY <2>1, <2>2, <2>5
<1>2. CASE DelNothing
  <2>1. UNCHANGED <<dl, torboxVars>> /\ Grows
    BY <1>2 DEF DelNothing, torboxVars, Grows
  <2>2. StoreInv' /\ TorBoxInv' /\ FarmType'
    BY <1>2, <2>1, StoreKept, TorBoxKept, FarmKept DEF DelNothing, StoreInv
  <2>3. DelInv'
    BY <1>2, <2>1, DeleterAssumption DEF DelNothing, DelInv, DelType, Table, NoAttempts
  <2>4. QED  BY <2>1, <2>2, <2>3
<1>3. ASSUME NEW id \in JobIds, DelRemoved(id)
      PROVE  StoreInv' /\ TorBoxInv' /\ FarmType' /\ DelInv' /\ Grows
  <2> DEFINE d == delTodo[id].tb
  <2>1. d \in DlIds /\ dl[d].job \in asked
    BY <1>3, DeletingOK DEF DelRemoved
  <2>2. dl' = [dl EXCEPT ![d].status = "removed"] /\ dl[d].status \in Live /\ UNCHANGED mount
    BY <1>3 DEF DelRemoved, ControlUsenet
  <2>3. dl \in [DlIds -> Download]
    BY DEF TorBoxInv, Downloads
  <2>4. dl' \in [DlIds -> Download] /\ \A e \in DlIds : dl'[e].job = dl[e].job
                                                     /\ dl'[e].release = dl[e].release
    BY <2>2, <2>3 DEF Download
  <2>5. \A e \in DlIds : e # d => dl'[e] = dl[e]
    BY <2>2, <2>3
  <2>6. dl'[d].status = "removed"
    BY <2>1, <2>2, <2>3 DEF Download
  <2>7. TorBoxInv' /\ Grows
    <3>1. Downloads(dl')
      BY <2>4, <2>5, <2>6 DEF TorBoxInv, Downloads
    <3>2. Asked(dl', asked)
      BY <2>1, <2>4, <2>5 DEF TorBoxInv, Asked
    <3>3. QED  BY <2>2, <2>4, <3>1, <3>2 DEF TorBoxInv, Grows
  <2>8. StoreInv' /\ FarmType'
    BY <1>3, <2>7, StoreKept, FarmKept DEF DelRemoved, StoreInv
  <2>9. DelInv'
    <3>1. Table(delTodo, dl', asked')
      BY <2>7, TableKept DEF DelInv, Grows
    <3>2. QED  BY <1>3, <1>b, <3>1 DEF DelRemoved, DelInv, DelType, Table
  <2>10. QED  BY <2>7, <2>8, <2>9
<1>4. ASSUME NEW id \in JobIds, DelRefused(id)
      PROVE  StoreInv' /\ TorBoxInv' /\ FarmType' /\ DelInv' /\ Grows
  <2>1. UNCHANGED <<dl, torboxVars>> /\ Grows
    BY <1>4 DEF DelRefused, torboxVars, Grows
  <2>2. StoreInv' /\ TorBoxInv' /\ FarmType'
    BY <1>4, <2>1, StoreKept, TorBoxKept, FarmKept, FaultType
    DEF DelRefused, ControlFails, StoreInv
  <2>3. DelInv'
    <3> DEFINE n == deleteAttempts[id] + 1
    <3>1. CASE /\ ~GivesUp(n)
               /\ deleteAttempts' = [deleteAttempts EXCEPT ![id] = n]
               /\ DelAdvance(id)
      <4>1. n \in 0 .. deleteGiveUpAttempts - 1
        BY <3>1, <1>a, DeleterAssumption DEF GivesUp
      <4>2. deleteAttempts' \in [JobIds -> 0 .. deleteGiveUpAttempts - 1]
        BY <3>1, <4>1, <1>a
      <4>3. QED  BY <2>1, <3>1, <4>2, DelAdvanceOK
    <3>2. CASE Forget(id) /\ delPc' = "dir" /\ UNCHANGED delTodo
      BY <3>2, <2>1, <1>b DEF DelInv, DelType, Table
    <3>3. QED  BY <1>4, <3>1, <3>2 DEF DelRefused
  <2>4. QED  BY <2>1, <2>2, <2>3
<1>5. ASSUME NEW id \in JobIds, DelDir(id)
      PROVE  StoreInv' /\ TorBoxInv' /\ FarmType' /\ DelInv' /\ Grows
  <2>1. UNCHANGED <<dl, torboxVars>> /\ Grows
    BY <1>5 DEF DelDir, torboxVars, Grows
  <2>2. StoreInv' /\ TorBoxInv'
    BY <1>5, <2>1, StoreKept, TorBoxKept DEF DelDir, StoreInv
  <2>3. FarmType'
    BY <1>5 DEF DelDir, FarmType, RemovedAll
  <2>4. DelInv'
    BY <1>5, <2>1 DEF DelDir, DelInv, DelType, Table
  <2>5. QED  BY <2>1, <2>2, <2>3, <2>4
<1>6. ASSUME NEW id \in JobIds, DelRow(id)
      PROVE  StoreInv' /\ TorBoxInv' /\ FarmType' /\ DelInv' /\ Grows
  <2>1. UNCHANGED <<dl, torboxVars>> /\ Grows
    BY <1>6 DEF DelRow, torboxVars, Grows
  <2>2. StoreInv' /\ TorBoxInv' /\ FarmType'
    BY <1>6, <2>1, DeleteKept, TorBoxKept, FarmKept DEF DelRow
  <2>3. DelInv'
    BY <1>6, <2>1, <1>a, DelAdvanceOK DEF DelRow
  <2>4. QED  BY <2>1, <2>2, <2>3
<1>7. QED  BY <1>1, <1>2, <1>3, <1>4, <1>5, <1>6 DEF DelStep
=============================================================================
