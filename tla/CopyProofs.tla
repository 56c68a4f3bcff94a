------------------------------ MODULE CopyProofs ------------------------------
(***************************************************************************)
(* How the copies of rows that the loops and the requests hold relate to   *)
(* the rows in the table, for any number of rows, downloads, handlers and  *)
(* faults: which states a row can be in while a copy of it is held.        *)
(*                                                                         *)
(* From this follow the two theorems about what a write from an old copy   *)
(* can do: rows move along the table of job.go, and every behaviour is one *)
(* that a client of JobView expects.                                       *)
(***************************************************************************)
EXTENDS PipelineProofs

Unsent == {"pending", "submitting"}

\* A copy is about the NZB and the download of the row, if the row is there.
Agrees(row, c) == row.state # "absent" => c.nzb = row.nzb /\ c.tb \in {0, row.tb}

\* Ids are given out in order, and only the submitter names a download.
RowsInv == \A id \in JobIds : /\ Exists(id) => id < nextId
                              /\ jobs[id].state \in Unsent => jobs[id].tb = 0

OwnersInv == \A d \in DlIds : dl[d].job < nextId

\* The submitter has marked this row and not yet written the outcome.
InCall(id) == subPc \in {"call", "save"} /\ Submitting(id)

SubFollows(id) ==
    subTodo[id].state # "absent" =>
       /\ id < nextId
       /\ Exists(id) => subTodo[id].nzb = jobs[id].nzb
       /\ subTodo[id].state # "queued" => subTodo[id].tb = 0
       /\ InCall(id) => /\ jobs[id].state \in {"submitting", "absent"}
                        /\ subPc = "call" => subTodo[id].state = "submitting"
                        /\ subPc = "save" => subTodo[id].state \in {"queued", "pending", "failed"}
       /\ ~InCall(id) => /\ jobs[id].state \in {"pending", "absent"}
                         /\ subTodo[id].state = "pending"

PolFollows(id) ==
    polTodo[id].state # "absent" =>
       /\ id < nextId
       /\ Agrees(jobs[id], polTodo[id])
       /\ polTodo[id].state \in activeStates =>
             jobs[id].state \in {polTodo[id].state, "deleted", "absent"}
       /\ polTodo[id].state = "completed" =>
             jobs[id].state \in activeStates \cup {"deleted", "absent"}
       /\ reapTodo[id].state = "absent"

ReapFollows(id) ==
    reapTodo[id].state # "absent" =>
       /\ id < nextId
       /\ Agrees(jobs[id], reapTodo[id])
       /\ jobs[id].state \in {"completed", "deleted", "absent"}

DelFollows(id) ==
    delTodo[id].state # "absent" => id < nextId /\ Agrees(jobs[id], delTodo[id])

ReqFollows(h) ==
    req[h].op \in {"delete", "purge"} => /\ req[h].id < nextId
                                         /\ Agrees(jobs[req[h].id], req[h].row)

CopiesInv == /\ RowsInv
             /\ OwnersInv
             /\ \A id \in JobIds : SubFollows(id)
             /\ \A id \in JobIds : PolFollows(id)
             /\ \A id \in JobIds : ReapFollows(id)
             /\ \A id \in JobIds : DelFollows(id)
             /\ \A h \in Handlers : ReqFollows(h)

-----------------------------------------------------------------------------
(* What a step does to one row *)

SameJob(id) == jobs'[id].nzb = jobs[id].nzb /\ jobs'[id].tb = jobs[id].tb

\* The row is kept, dropped, or marked deleted for a download.
Withdrawn(id) == \/ jobs'[id].state = "absent"
                 \/ /\ Exists(id) /\ SameJob(id)
                    /\ \/ jobs'[id].state = jobs[id].state
                       \/ jobs'[id].state = "deleted" /\ jobs[id].tb # 0

\* It is created.
Created(id) == /\ id = nextId /\ nextId' = nextId + 1
               /\ jobs'[id].state = "pending" /\ jobs'[id].tb = 0

\* The submitter writes its copy.
Sent(id) == /\ jobs'[id].nzb = jobs[id].nzb
            /\ jobs'[id].state # "queued" => jobs'[id].tb = 0
            /\ \/ jobs[id].state = "pending" /\ jobs'[id].state = "submitting"
               \/ /\ jobs[id].state = "submitting"
                  /\ jobs'[id].state \in {"queued", "pending", "failed"}
                  /\ jobs'[id].state = subTodo[id].state

\* The poller writes its copy.
Tracked(id) ==
    /\ SameJob(id)
    /\ polTodo[id].state # "absent"
    /\ \/ /\ jobs[id].state = "queued"
          /\ jobs'[id].state \in {"queued", "downloading", "completed", "failed"}
       \/ /\ jobs[id].state = "downloading"
          /\ jobs'[id].state \in {"downloading", "completed", "failed"}
       \/ /\ jobs[id].state = "deleted"
          /\ jobs'[id].state \in {"queued", "downloading", "completed", "failed"}

\* The reaper writes its copy.
Taken(id) == /\ SameJob(id)
             /\ reapTodo[id].state # "absent"
             /\ jobs[id].state \in {"completed", "deleted"}
             /\ jobs'[id].state = "imported"

Changed(id) == Withdrawn(id) \/ Created(id) \/ Sent(id) \/ Tracked(id) \/ Taken(id)

\* No other row is touched.
Alone(id) == \A other \in JobIds : other # id => jobs'[other] = jobs[other]

\* Ids already given out stay so.
IdsGrow == nextId' \in {nextId, nextId + 1}

-----------------------------------------------------------------------------
(* Lemmas about rows *)

\* The loops take their rows in one order.
LEMMA OldestUnique ==
    ASSUME NEW rows, NEW i \in JobIds, NEW j \in JobIds, Oldest(rows, i), Oldest(rows, j)
    PROVE  i = j
BY DEF Oldest, JobIds

\* A row that does not change is kept, whether it is there or not.
LEMMA UnchangedRow == ASSUME NEW id \in JobIds, jobs'[id] = jobs[id] PROVE Withdrawn(id)
BY DEF Withdrawn, SameJob, Exists

\* UpdateJob writes the copy over a row that is there, or nothing at all.
LEMMA PersistedRow ==
    ASSUME NEW id \in JobIds, NEW row \in Row, jobs \in [JobIds -> Row], Persist(id, row)
    PROVE  /\ nextId' = nextId
           /\ \/ jobs' = jobs
              \/ /\ Alone(id) /\ Exists(id)
                 /\ jobs'[id].state = row.state
                 /\ jobs'[id].nzb = row.nzb /\ jobs'[id].tb = row.tb /\ jobs'[id].path = row.path
<1>1. CASE UpdateJob(id, row)
  <2>1. nextId' = nextId /\ jobs' = Written(id, row)
    BY <1>1 DEF UpdateJob
  <2>2. CASE jobs[id].state = "absent"
    BY <2>1, <2>2 DEF Written
  <2>3. CASE jobs[id].state # "absent"
    <3>1. jobs'[id] = [row EXCEPT !.aged = FALSE] /\ Alone(id)
      BY <2>1, <2>3 DEF Written, Alone
    <3>2. QED  BY <2>1, <2>3, <3>1 DEF Exists, Row
  <2>4. QED  BY <2>2, <2>3
<1>2. CASE StoreError
  BY <1>2 DEF StoreError, storeVars
<1>3. QED  BY <1>1, <1>2 DEF Persist

\* DELETE drops one row, or fails.
LEMMA DroppedRow ==
    ASSUME NEW id \in JobIds, jobs \in [JobIds -> Row],
           (DeleteJob(id) /\ NoFault) \/ StoreError
    PROVE  /\ nextId' = nextId
           /\ \/ jobs' = jobs
              \/ Alone(id) /\ jobs'[id] = NoRow /\ Withdrawn(id)
BY NoRowType DEF DeleteJob, Without, StoreError, storeVars, Alone, Withdrawn

\* When a step touches one row at most, every row changes as this one or not at all.
LEMMA OneRow ==
    ASSUME NEW id \in JobIds, Alone(id), NEW i \in JobIds, i # id
    PROVE  Withdrawn(i)
BY UnchangedRow DEF Alone

\* No change makes a copy disagree with its row: what the submitter names for
\* the first time, no copy has a name for.
LEMMA AgreesKept ==
    ASSUME NEW id \in JobIds, id < nextId, nextId \in Nat, RowsInv,
           NEW c, Agrees(jobs[id], c), Changed(id)
    PROVE  Agrees(jobs'[id], c)
BY DEF Agrees, Changed, Withdrawn, Created, Sent, Tracked, Taken, SameJob, RowsInv, Unsent, Exists

-----------------------------------------------------------------------------
(* Copies that are not written *)

\* The table keeps its invariant through any change of its rows.
LEMMA RowsKept ==
    ASSUME RowsInv, nextId \in Nat, IdsGrow, \A id \in JobIds : Changed(id)
    PROVE  RowsInv'
<1>1. ASSUME NEW id \in JobIds
      PROVE  /\ jobs'[id].state # "absent" => id < nextId'
             /\ jobs'[id].state \in Unsent => jobs'[id].tb = 0
  BY <1>1 DEF RowsInv, IdsGrow, Changed, Withdrawn, Created, Sent, Tracked, Taken, SameJob,
          Unsent, Exists, JobIds
<1>2. QED  BY <1>1 DEF RowsInv, Exists

\* A copy the submitter holds is of a row nobody else writes, except to drop it.
LEMMA SubCopyKept ==
    ASSUME RowsInv, nextId \in Nat, IdsGrow, NEW id \in JobIds, SubFollows(id),
           Withdrawn(id) \/ Created(id) \/ Tracked(id) \/ Taken(id), UNCHANGED subVars
    PROVE  SubFollows(id)'
<1>1. CASE subTodo[id].state = "absent"
  BY <1>1 DEF SubFollows, subVars
<1>2. CASE subTodo[id].state # "absent"
  <2>1. InCall(id)' <=> InCall(id)
    BY DEF InCall, Submitting, Oldest, subVars
  <2>2. id < nextId' /\ jobs[id].state \in {"pending", "submitting", "absent"}
    BY <1>2 DEF SubFollows, IdsGrow, JobIds
  <2>3. \/ jobs'[id].state = "absent"
        \/ jobs'[id].state = jobs[id].state /\ jobs[id].state # "absent" /\ SameJob(id)
    BY <1>2, <2>2 DEF SubFollows, Withdrawn, Created, Tracked, Taken, RowsInv, Unsent, Exists
  <2>4. QED  BY <1>2, <2>1, <2>2, <2>3 DEF SubFollows, subVars, Exists, SameJob
<1>3. QED  BY <1>1, <1>2

\* A copy the poller holds is of a row that only withdrawals reach.
LEMMA PolCopyKept ==
    ASSUME RowsInv, nextId \in Nat, IdsGrow, NEW id \in JobIds, PolFollows(id),
           PolInv, Withdrawn(id) \/ Created(id) \/ Sent(id) \/ Taken(id),
           polTodo'[id] = polTodo[id],
           reapTodo[id].state = "absent" => reapTodo'[id].state = "absent"
    PROVE  PolFollows(id)'
<1>1. CASE polTodo[id].state = "absent"
  BY <1>1 DEF PolFollows
<1>2. CASE polTodo[id].state # "absent"
  <2>1. id < nextId' /\ reapTodo'[id].state = "absent"
    BY <1>2 DEF PolFollows, IdsGrow, JobIds
  <2>2. Agrees(jobs'[id], polTodo[id])
    BY <1>2, AgreesKept DEF PolFollows, Changed
  <2>3. jobs'[id].state \in {jobs[id].state, "deleted", "absent"}
    <3>1. ~Created(id) /\ polTodo[id].state \in activeStates \cup {"completed"}
      BY <1>2 DEF PolFollows, Created, PolInv, JobIds
    <3>2. jobs[id].state \in activeStates \cup {"deleted", "absent"}
      BY <1>2, <3>1 DEF PolFollows
    <3>3. ~Sent(id) /\ ~Taken(id)
      BY <1>2, <3>2 DEF Sent, Taken, activeStates, PolFollows
    <3>4. QED  BY <3>1, <3>3 DEF Withdrawn
  <2>4. QED  BY <1>2, <2>1, <2>2, <2>3 DEF PolFollows
<1>3. QED  BY <1>1, <1>2

\* The same for the reaper's copies.
LEMMA ReapCopyKept ==
    ASSUME RowsInv, nextId \in Nat, IdsGrow, NEW id \in JobIds, ReapFollows(id), PolFollows(id),
           Withdrawn(id) \/ Created(id) \/ Sent(id) \/ Tracked(id), reapTodo'[id] = reapTodo[id]
    PROVE  ReapFollows(id)'
<1>1. CASE reapTodo[id].state = "absent"
  BY <1>1 DEF ReapFollows
<1>2. CASE reapTodo[id].state # "absent"
  <2>1. id < nextId' /\ polTodo[id].state = "absent"
    BY <1>2 DEF ReapFollows, PolFollows, IdsGrow, JobIds
  <2>2. Agrees(jobs'[id], reapTodo[id])
    BY <1>2, AgreesKept DEF ReapFollows, Changed
  <2>3. jobs'[id].state \in {jobs[id].state, "deleted", "absent"}
    BY <1>2, <2>1 DEF ReapFollows, Withdrawn, Created, Sent, Tracked, JobIds
  <2>4. QED  BY <1>2, <2>1, <2>2, <2>3 DEF ReapFollows
<1>3. QED  BY <1>1, <1>2

\* The deleter writes no rows, its copies need only agree with theirs.
LEMMA DelCopyKept ==
    ASSUME RowsInv, nextId \in Nat, IdsGrow, NEW id \in JobIds, DelFollows(id), Changed(id),
           delTodo'[id] = delTodo[id]
    PROVE  DelFollows(id)'
BY AgreesKept DEF DelFollows, IdsGrow, JobIds

\* The same for a request.
LEMMA ReqCopyKept ==
    ASSUME RowsInv, nextId \in Nat, IdsGrow, NEW h \in Handlers, ReqFollows(h), ApiInv,
           \A id \in JobIds : Changed(id), req'[h] = req[h]
    PROVE  ReqFollows(h)'
<1>1. CASE req[h].op \in {"delete", "purge"}
  <2>1. req[h].id \in JobIds
    BY <1>1 DEF ApiInv, Serving
  <2>2. QED  BY <1>1, <2>1, AgreesKept DEF ReqFollows, IdsGrow, JobIds
<1>2. QED  BY <1>1 DEF ReqFollows

-----------------------------------------------------------------------------
(* The rows each actor writes *)

\* The ids are numbers.
LEMMA IdsNat == ASSUME StoreInv PROVE nextId \in Nat
BY StoreAssumption DEF StoreInv

\* A request creates a row, drops one, or marks one deleted for its download.
LEMMA ApiRows ==
    ASSUME IInv, CopiesInv, Api
    PROVE  \/ jobs' = jobs /\ nextId' = nextId
           \/ \E id \in JobIds : /\ Alone(id)
                                 /\ Created(id) \/ (nextId' = nextId /\ Withdrawn(id))
<1> DEFINE Goal == \/ jobs' = jobs /\ nextId' = nextId
                   \/ \E id \in JobIds : /\ Alone(id)
                                         /\ Created(id) \/ (nextId' = nextId /\ Withdrawn(id))
<1> SUFFICES Goal
  OBVIOUS
<1>0. jobs \in [JobIds -> Row] /\ nextId \in Nat
  BY IdsNat DEF IInv, StoreInv, Table
<1>1. ASSUME NEW h \in Handlers, AddCreate(h)
      PROVE  Goal
  <2>1. CASE StoreError
    BY <2>1 DEF StoreError, storeVars
  <2>2. CASE CreateJob(req[h].nzb)
    <3>1. nextId \in JobIds
      BY <1>0, <2>2 DEF CreateJob, IInv, StoreInv, JobIds
    <3>2. NewRow(req[h].nzb).state = "pending" /\ NewRow(req[h].nzb).tb = 0
      BY DEF NewRow, NoRow
    <3>3. Alone(nextId) /\ Created(nextId)
      BY <1>0, <2>2, <3>1, <3>2 DEF CreateJob, Alone, Created
    <3>4. QED  BY <3>1, <3>3
  <2>3. QED  BY <1>1, <2>1, <2>2 DEF AddCreate
<1>2. ASSUME NEW h \in Handlers, DelWrite(h)
      PROVE  Goal
  <2> DEFINE id == req[h].id
  <2> DEFINE row == [req[h].row EXCEPT !.state = "deleted"]
  <2>1. id \in JobIds /\ req[h].row \in Row /\ Agrees(jobs[id], req[h].row)
    BY <1>2 DEF DelWrite, IInv, ApiInv, Serving, WellFormed, CopiesInv, ReqFollows
  <2>2. CASE HandsOver(req[h])
    <3>1. row \in Row /\ Persist(id, row)
      BY <1>2, <2>1, <2>2 DEF DelWrite, Row, States
    <3>2. row.state = "deleted" /\ row.tb = req[h].row.tb /\ row.nzb = req[h].row.nzb /\ row.tb # 0
      BY <2>1, <2>2 DEF Row, HandsOver
    <3> HIDE DEF row
    <3>3. nextId' = nextId
      BY <1>0, <2>1, <3>1, PersistedRow
    <3>4. CASE jobs' = jobs
      BY <3>3, <3>4
    <3>5. CASE /\ Alone(id) /\ Exists(id) /\ jobs'[id].state = row.state
               /\ jobs'[id].nzb = row.nzb /\ jobs'[id].tb = row.tb
      <4>1. Withdrawn(id)
        BY <2>1, <3>2, <3>5 DEF Withdrawn, SameJob, Agrees, Exists
      <4>2. QED  BY <2>1, <3>3, <3>5, <4>1
    <3>6. QED  BY <1>0, <2>1, <3>1, <3>4, <3>5, PersistedRow
  <2>3. CASE ~HandsOver(req[h])
    BY <1>0, <1>2, <2>1, <2>3, DroppedRow DEF DelWrite
  <2>4. QED  BY <2>2, <2>3
<1>3. ASSUME NEW h \in Handlers, NEW k \in Nzbs, AddFind(h, k)
      PROVE  Goal
  BY <1>3 DEF AddFind, storeVars
<1>4. ASSUME NEW h \in Handlers, NEW id \in JobIds, NEW op, DelRead(h, id, op)
      PROVE  Goal
  BY <1>4 DEF DelRead, storeVars
<1>5. QED  BY <1>1, <1>2, <1>3, <1>4 DEF Api, ApiNext

\* The submitter writes rows it holds, or none.
LEMMA SubRows ==
    ASSUME IInv, CopiesInv, SubmitOnce
    PROVE  /\ nextId' = nextId
           /\ jobs' = jobs \/ \E id \in JobIds : Alone(id) /\ Sent(id) /\ Submitting(id)
<1>0. jobs \in [JobIds -> Row] /\ subTodo \in [JobIds -> Row]
  BY DEF IInv, StoreInv, Table, SubInv, SubType
<1>1. ASSUME NEW id \in JobIds, SubMark(id)
      PROVE  nextId' = nextId /\ (jobs' = jobs \/ (Alone(id) /\ Sent(id) /\ Submitting(id)))
  <2> DEFINE row == [subTodo[id] EXCEPT !.state = "submitting"]
  <2>1. Persist(id, row) /\ Submitting(id) /\ ~InCall(id)
    BY <1>1 DEF SubMark, Persist, InCall
  <2>2. /\ row \in Row /\ row.state = "submitting"
        /\ row.nzb = subTodo[id].nzb /\ row.tb = subTodo[id].tb
    BY <1>0 DEF Row, States
  <2> HIDE DEF row
  <2>3. /\ Exists(id) => subTodo[id].nzb = jobs[id].nzb
        /\ subTodo[id].tb = 0 /\ jobs[id].state \in {"pending", "absent"}
    BY <2>1 DEF CopiesInv, SubFollows, Submitting, Oldest
  <2>4. QED  BY <1>0, <2>1, <2>2, <2>3, PersistedRow DEF Sent, Exists
<1>2. ASSUME NEW id \in JobIds, SubSave(id)
      PROVE  nextId' = nextId /\ (jobs' = jobs \/ (Alone(id) /\ Sent(id) /\ Submitting(id)))
  <2>1. Persist(id, subTodo[id]) /\ Submitting(id) /\ InCall(id) /\ subPc = "save"
    BY <1>2 DEF SubSave, InCall
  <2>2. /\ Exists(id) => subTodo[id].nzb = jobs[id].nzb
        /\ subTodo[id].state # "queued" => subTodo[id].tb = 0
        /\ subTodo[id].state \in {"queued", "pending", "failed"}
        /\ jobs[id].state \in {"submitting", "absent"}
    BY <2>1 DEF CopiesInv, SubFollows, Submitting, Oldest
  <2>3. QED  BY <1>0, <2>1, <2>2, PersistedRow DEF Sent, Exists
<1>3. CASE SubLoad \/ SubCooldownEnds
  BY <1>3 DEF SubLoad, SubCooldownEnds, storeVars
<1>4. ASSUME NEW id \in JobIds, NEW d \in DlIds,
             SubRefused(id) \/ SubLimited(id) \/ SubCreated(id, d) \/ SubAnswerLost(id, d)
      PROVE  nextId' = nextId /\ jobs' = jobs
  BY <1>4 DEF SubRefused, SubLimited, SubCreated, SubAnswerLost, storeVars
<1>5. ASSUME NEW id \in JobIds, SubRefused(id) \/ SubLimited(id)
      PROVE  nextId' = nextId /\ jobs' = jobs
  BY <1>5 DEF SubRefused, SubLimited, storeVars
<1>6. QED  BY <1>1, <1>2, <1>3, <1>4, <1>5 DEF SubmitOnce, SubStep

\* What the poller writes for the job it is at: its copy, settled or failed.
LEMMA PolWrites ==
    ASSUME IInv, CopiesInv, NEW id \in JobIds, Polling(id), NEW row \in Row, Persist(id, row),
           row.nzb = polTodo[id].nzb, row.tb = polTodo[id].tb,
           row.state \in {polTodo[id].state, "downloading", "failed"}
    PROVE  /\ nextId' = nextId
           /\ jobs' = jobs \/ \E i \in JobIds : Alone(i) /\ Tracked(i) /\ Polling(i)
<1>1. polTodo[id].state \in {"queued", "downloading", "completed"} /\ polTodo[id].tb # 0
  BY PollingOK, TorBoxAssumption DEF IInv, Followed, activeStates, DlIds
<1>2. /\ Agrees(jobs[id], polTodo[id])
      /\ polTodo[id].state \in activeStates =>
            jobs[id].state \in {polTodo[id].state, "deleted", "absent"}
      /\ polTodo[id].state = "completed" =>
            jobs[id].state \in activeStates \cup {"deleted", "absent"}
  BY <1>1 DEF CopiesInv, PolFollows
<1>3. jobs \in [JobIds -> Row]
  BY DEF IInv, StoreInv, Table
<1>4. ASSUME Exists(id), jobs'[id].state = row.state, jobs'[id].nzb = row.nzb,
             jobs'[id].tb = row.tb
      PROVE  Tracked(id)
  <2>1. SameJob(id)
    BY <1>1, <1>2, <1>4 DEF SameJob, Agrees, Exists
  <2>2. QED  BY <1>1, <1>2, <1>4, <2>1 DEF Tracked, activeStates, Exists
<1>5. QED  BY <1>3, <1>4, PersistedRow

\* The poller writes rows it holds, or none.
LEMMA PolRows ==
    ASSUME IInv, CopiesInv, PollOnce
    PROVE  /\ nextId' = nextId
           /\ jobs' = jobs \/ \E i \in JobIds : Alone(i) /\ Tracked(i) /\ Polling(i)
<1> DEFINE Goal == /\ nextId' = nextId
                   /\ jobs' = jobs \/ \E i \in JobIds : Alone(i) /\ Tracked(i) /\ Polling(i)
<1> SUFFICES Goal
  OBVIOUS
<1>1. polTodo \in [JobIds -> Row]
  BY DEF IInv, PolInv, PolType
<1>2. ASSUME NEW id \in JobIds, Polling(id), NEW s \in {"failed", "downloading"},
             Persist(id, [polTodo[id] EXCEPT !.state = s])
      PROVE  Goal
  <2> DEFINE row == [polTodo[id] EXCEPT !.state = s]
  <2>1. row \in Row /\ row.state = s /\ row.nzb = polTodo[id].nzb /\ row.tb = polTodo[id].tb
    BY <1>1 DEF Row, States
  <2>2. Persist(id, row)
    BY <1>2
  <2> HIDE DEF row
  <2>3. QED  BY <1>2, <2>1, <2>2, PolWrites
<1>3. ASSUME NEW id \in JobIds, PolGone(id) \/ PolFailed(id) \/ PolOngoing(id)
      PROVE  Goal
  BY <1>2, <1>3 DEF PolGone, PolFailed, PolOngoing, Listed, Persist
<1>4. ASSUME NEW id \in JobIds, PolUnresolved(id) \/ PolSave(id)
      PROVE  Goal
  BY <1>1, <1>4, PolWrites DEF PolUnresolved, PolSave, Listed
<1>5. ASSUME NEW id \in JobIds,
             PolMissing(id) \/ PolPremature(id) \/ PolLink(id) \/ PolLinkFails(id)
      PROVE  Goal
  BY <1>5 DEF PolMissing, PolPremature, PolLink, PolLinkFails, PolLinked, storeVars
<1>6. CASE PolLoad \/ PolNothing \/ PolListFails \/ PolListed \/ PolEnd \/ RefreshCooldownEnds
  BY <1>6 DEF PolLoad, PolNothing, PolListFails, PolListed, PolEnd, RefreshCooldownEnds, storeVars
<1>7. QED  BY <1>3, <1>4, <1>5, <1>6 DEF PollOnce, PolStep

\* The reaper writes rows it holds, or drops old imported ones, or none.
LEMMA ReapRows ==
    ASSUME IInv, CopiesInv, ReapOnce
    PROVE  /\ nextId' = nextId
           /\ \/ jobs' = jobs
              \/ \E i \in JobIds : Alone(i) /\ Taken(i) /\ Detecting(i)
              \/ ReapImported
<1> DEFINE Goal == /\ nextId' = nextId
                   /\ \/ jobs' = jobs
                      \/ \E i \in JobIds : Alone(i) /\ Taken(i) /\ Detecting(i)
                      \/ ReapImported
<1> SUFFICES Goal
  OBVIOUS
<1>1. ASSUME NEW id \in JobIds, Imported(id)
      PROVE  Goal
  <2> DEFINE row == [reapTodo[id] EXCEPT !.state = "imported"]
  <2>1. /\ WellFormed(dl, asked, id, reapTodo[id])
        /\ reapTodo[id].state = "completed" /\ Detecting(id)
    BY <1>1, DetectingOK DEF Imported, IInv
  <2>2. /\ row \in Row /\ row.state = "imported" /\ row.nzb = reapTodo[id].nzb
        /\ row.tb = reapTodo[id].tb /\ row.tb # 0
    BY <2>1 DEF WellFormed, Row, States, Submitted
  <2>3. Persist(id, row)
    BY <1>1 DEF Imported
  <2>4. Agrees(jobs[id], reapTodo[id]) /\ jobs[id].state \in {"completed", "deleted", "absent"}
    BY <2>1 DEF CopiesInv, ReapFollows
  <2>5. jobs \in [JobIds -> Row]
    BY DEF IInv, StoreInv, Table
  <2> HIDE DEF row
  <2>6. ASSUME Exists(id), jobs'[id].state = row.state, jobs'[id].nzb = row.nzb,
               jobs'[id].tb = row.tb
        PROVE  Taken(id)
    BY <2>1, <2>2, <2>4, <2>6 DEF Taken, SameJob, Agrees, Exists
  <2>7. QED  BY <2>1, <2>2, <2>3, <2>5, <2>6, PersistedRow
<1>2. ASSUME NEW id \in JobIds, NotImported(id)
      PROVE  Goal
  BY <1>2 DEF NotImported, storeVars
<1>3. CASE Reap
  BY <1>3 DEF Reap, ReapImported, StoreError, storeVars
<1>4. ASSUME NEW r \in Releases, SweepLook(r)
      PROVE  Goal
  BY <1>4 DEF SweepLook, storeVars
<1>5. CASE ReapLoad \/ SweepLoad \/ SweepRemove \/ SweepEnd
  BY <1>5 DEF ReapLoad, SweepLoad, SweepRemove, SweepEnd, storeVars
<1>6. QED  BY <1>1, <1>2, <1>3, <1>4, <1>5 DEF ReapOnce, ReapStep

\* The deleter drops rows it holds, or none.
LEMMA DelRows ==
    ASSUME IInv, DeleteOnce
    PROVE  /\ nextId' = nextId
           /\ jobs' = jobs \/ \E i \in JobIds : Alone(i) /\ Withdrawn(i)
<1>1. jobs \in [JobIds -> Row]
  BY DEF IInv, StoreInv, Table
<1>2. ASSUME NEW id \in JobIds, DelRow(id)
      PROVE  /\ nextId' = nextId
             /\ jobs' = jobs \/ (Alone(id) /\ Withdrawn(id))
  BY <1>1, <1>2, DroppedRow DEF DelRow
<1>3. ASSUME NEW id \in JobIds, DelRemoved(id) \/ DelRefused(id) \/ DelDir(id)
      PROVE  nextId' = nextId /\ jobs' = jobs
  BY <1>3 DEF DelRemoved, DelRefused, DelDir, storeVars
<1>4. CASE DelLoad \/ DelNothing
  BY <1>4 DEF DelLoad, DelNothing, storeVars
<1>5. QED  BY <1>2, <1>3, <1>4 DEF DeleteOnce, DelStep

\* Outside the program rows only grow old.
LEMMA WorldRows ==
    ASSUME IInv, OnTorBox \/ Import \/ DayPasses \/ Restart
    PROVE  /\ nextId' = nextId
           /\ jobs' = jobs \/ \E i \in JobIds : Alone(i) /\ Withdrawn(i)
<1>1. jobs \in [JobIds -> Row]
  BY DEF IInv, StoreInv, Table
<1>2. ASSUME NEW id \in JobIds, Age(id)
      PROVE  nextId' = nextId /\ Alone(id) /\ Withdrawn(id)
  <2>1. jobs'[id] = [jobs[id] EXCEPT !.aged = TRUE] /\ Alone(id) /\ nextId' = nextId
    BY <1>1, <1>2 DEF Age, Alone
  <2>2. QED  BY <1>1, <1>2, <2>1 DEF Age, Withdrawn, Exists, SameJob, Row
<1>3. CASE OnTorBox \/ Import \/ Restart
  BY <1>3 DEF OnTorBox, Import, Restart, SonarrImport, storeVars
<1>4. QED  BY <1>2, <1>3 DEF DayPasses

\* The old imported rows go together.
LEMMA ReapedRows ==
    ASSUME ReapImported
    PROVE  \A id \in JobIds : Withdrawn(id) /\ (jobs'[id] = jobs[id] \/ jobs[id].state = "imported")
<1>1. ASSUME NEW id \in JobIds
      PROVE  \/ jobs'[id] = jobs[id]
             \/ jobs[id].state = "imported" /\ jobs'[id].state = "absent"
  BY <1>1, NoRowType DEF ReapImported, Reapable
<1>2. QED  BY <1>1, UnchangedRow DEF Withdrawn

-----------------------------------------------------------------------------
(* The copies each loop writes *)

\* Writing a row over the oldest one leaves it the oldest.
LEMMA OldestStays ==
    ASSUME NEW rows \in [JobIds -> Row], NEW id \in JobIds, Oldest(rows, id),
           NEW row, row.state # "absent"
    PROVE  Oldest([rows EXCEPT ![id] = row], id)
BY DEF Oldest, JobIds

\* The submitter's other copies stay as they are, or go with the tick.
LEMMA SubOthers ==
    ASSUME NEW id \in JobIds, SubFollows(id), ~InCall(id), ~InCall(id)', jobs'[id] = jobs[id],
           nextId' = nextId, subTodo'[id] = subTodo[id] \/ subTodo'[id].state = "absent"
    PROVE  SubFollows(id)'
BY DEF SubFollows, Exists

\* A step of the submitter keeps its copies in line with the rows.
LEMMA SubCopiesOK ==
    ASSUME IInv, CopiesInv, SubmitOnce
    PROVE  \A id \in JobIds : SubFollows(id)'
<1>0. /\ jobs \in [JobIds -> Row] /\ subTodo \in [JobIds -> Row] /\ nextId' = nextId
      /\ \A i \in JobIds : SubFollows(i)
  BY SubRows DEF IInv, StoreInv, Table, SubInv, SubType, CopiesInv
<1>1. CASE SubLoad
  <2>1. ASSUME NEW i \in JobIds PROVE SubFollows(i)'
    <3>1. ~InCall(i)' /\ subTodo' = JobsByState({"pending"}) /\ jobs' = jobs
      BY <1>1 DEF SubLoad, SubAdvance, InCall, storeVars
    <3>2. subTodo'[i].state # "absent" => subTodo'[i] = jobs[i] /\ jobs[i].state = "pending"
      BY <3>1, NoRowType DEF JobsByState
    <3>3. QED  BY <1>0, <3>1, <3>2 DEF SubFollows, CopiesInv, RowsInv, Unsent, Exists
  <2>2. QED  BY <2>1
<1>2. ASSUME NEW id \in JobIds, SubMark(id), NEW i \in JobIds
      PROVE  SubFollows(i)'
  <2> DEFINE row == [subTodo[id] EXCEPT !.state = "submitting"]
  <2>1. row \in Row /\ row.state = "submitting" /\ row.nzb = subTodo[id].nzb
        /\ row.tb = subTodo[id].tb
    BY <1>0 DEF Row, States
  <2>2. /\ Submitting(id) /\ subPc = "mark" /\ ~InCall(id) /\ ~InCall(i)
        /\ subTodo[id].state # "absent"
    BY <1>2 DEF SubMark, InCall, Submitting, Oldest
  <2>3. \/ UpdateJob(id, row) /\ subTodo' = [subTodo EXCEPT ![id] = row] /\ subPc' = "call"
        \/ StoreError /\ SubAdvance(Without(subTodo, id))
    BY <1>2 DEF SubMark
  <2> HIDE DEF row
  <2>4. CASE UpdateJob(id, row) /\ subTodo' = [subTodo EXCEPT ![id] = row] /\ subPc' = "call"
    <3>1. Submitting(id)'
      BY <1>0, <2>1, <2>2, <2>4, OldestStays DEF Submitting
    <3>2. CASE i = id
      <4>1. InCall(id)' /\ subTodo'[id] = row
        BY <1>0, <2>4, <3>1 DEF InCall
      <4>2. /\ jobs'[id].state \in {"submitting", "absent"}
            /\ jobs'[id].state # "absent" => Exists(id) /\ jobs'[id].nzb = row.nzb
        <5>1. CASE jobs[id].state = "absent"
          BY <1>0, <2>4, <5>1 DEF UpdateJob, Written
        <5>2. CASE jobs[id].state # "absent"
          <6>1. jobs'[id] = [row EXCEPT !.aged = FALSE]
            BY <1>0, <2>4, <5>2 DEF UpdateJob, Written
          <6>2. QED  BY <2>1, <5>2, <6>1 DEF Row, Exists
        <5>3. QED  BY <5>1, <5>2
      <4>3. id < nextId /\ subTodo[id].tb = 0
        BY <1>0, <2>2 DEF SubFollows
      <4>4. subPc' = "call"
        BY <2>4
      <4>5. Exists(id) => subTodo[id].nzb = jobs[id].nzb
        BY <1>0, <2>2 DEF SubFollows
      <4>6. jobs'[id].state # "absent" => subTodo'[id].nzb = jobs'[id].nzb
        BY <2>1, <4>1, <4>2
      <4>7. subTodo'[id].state = "submitting" /\ subTodo'[id].tb = 0 /\ nextId' = nextId
        BY <1>0, <2>1, <4>1, <4>3
      <4>8. SubFollows(id)'
        BY <4>1, <4>2, <4>3, <4>4, <4>6, <4>7 DEF SubFollows, Exists
      <4>9. QED  BY <3>2, <4>8
    <3>3. CASE i # id
      <4>1. ~InCall(i)'
        BY <3>1, <3>3, OldestUnique DEF InCall, Submitting
      <4>2. jobs'[i] = jobs[i] /\ subTodo'[i] = subTodo[i]
        BY <1>0, <2>4, <3>3 DEF UpdateJob, Written
      <4>3. QED  BY <1>0, <2>2, <4>1, <4>2, SubOthers
    <3>4. QED  BY <3>2, <3>3
  <2>5. CASE StoreError /\ SubAdvance(Without(subTodo, id))
    <3>1. ~InCall(i)' /\ jobs'[i] = jobs[i]
      BY <2>5 DEF SubAdvance, InCall, StoreError, storeVars
    <3>2. subTodo'[i] = subTodo[i] \/ subTodo'[i].state = "absent"
      BY <1>0, <2>5, NoRowType DEF SubAdvance, Without
    <3>3. QED  BY <1>0, <2>2, <3>1, <3>2, SubOthers
  <2>6. QED  BY <2>3, <2>4, <2>5
<1>3. ASSUME NEW id \in JobIds, NEW s \in {"queued", "pending", "failed"}, NEW d,
             subPc = "call", Submitting(id), SubOutcome(id, s, d), jobs' = jobs,
             s # "queued" => d = subTodo[id].tb, NEW i \in JobIds
      PROVE  SubFollows(i)'
  <2> DEFINE row == [subTodo[id] EXCEPT !.state = s, !.tb = d]
  <2>1. row.state = s /\ row.nzb = subTodo[id].nzb /\ row.tb = d
    BY <1>0 DEF Row
  <2>2. subTodo' = [subTodo EXCEPT ![id] = row] /\ subPc' = "save"
    BY <1>0, <1>3 DEF SubOutcome, Row
  <2> HIDE DEF row
  <2>3. Submitting(id)' /\ subTodo'[id] = row
    BY <1>0, <1>3, <2>1, <2>2, OldestStays DEF Submitting
  <2>4. CASE i = id
    <3>1. InCall(id) /\ InCall(id)' /\ subTodo[id].state # "absent"
      BY <1>3, <2>2, <2>3 DEF InCall, Submitting, Oldest
    <3>2. /\ id < nextId /\ (Exists(id) => subTodo[id].nzb = jobs[id].nzb)
          /\ subTodo[id].tb = 0 /\ jobs[id].state \in {"submitting", "absent"}
      BY <1>0, <1>3, <3>1 DEF SubFollows
    <3>3. /\ subTodo'[id].state = s /\ subTodo'[id].nzb = subTodo[id].nzb
          /\ s # "queued" => subTodo'[id].tb = 0
      BY <1>3, <2>1, <2>3, <3>2
    <3>4. subPc' = "save" /\ jobs' = jobs /\ nextId' = nextId
      BY <1>0, <1>3, <2>2
    <3>5. SubFollows(id)'
      BY <3>1, <3>2, <3>3, <3>4 DEF SubFollows, Exists
    <3>6. QED  BY <2>4, <3>5
  <2>5. CASE i # id
    <3>1. ~InCall(i) /\ ~InCall(i)'
      BY <1>3, <2>3, <2>5, OldestUnique DEF InCall, Submitting
    <3>2. QED  BY <1>0, <1>3, <2>2, <2>5, <3>1, SubOthers
  <2>6. QED  BY <2>4, <2>5
<1>4. ASSUME NEW id \in JobIds, NEW i \in JobIds,
             SubRefused(id) \/ SubLimited(id) \/ \E d \in DlIds : SubCreated(id, d)
      PROVE  SubFollows(i)'
  BY <1>3, <1>4 DEF SubRefused, SubLimited, SubCreated, storeVars
<1>5. ASSUME UNCHANGED <<subPc, subTodo, storeVars>>, NEW i \in JobIds
      PROVE  SubFollows(i)'
  <2>1. InCall(i)' <=> InCall(i)
    BY <1>5 DEF InCall, Submitting, Oldest
  <2>2. QED  BY <1>0, <1>5, <2>1 DEF SubFollows, Exists, storeVars
<1>6. ASSUME NEW id \in JobIds, SubSave(id), NEW i \in JobIds
      PROVE  SubFollows(i)'
  <2>1. ~InCall(i)' /\ (SubAdvance(NoRows) \/ SubAdvance(Without(subTodo, id)))
        /\ subPc = "save" /\ Submitting(id)
    BY <1>6 DEF SubSave, SubAdvance, InCall
  <2>2. subTodo'[i].state = "absent" \/ (i # id /\ subTodo'[i] = subTodo[i])
    BY <1>0, <2>1, NoRowType DEF SubAdvance, Without, NoRows
  <2>3. CASE subTodo'[i].state = "absent"
    BY <2>3 DEF SubFollows
  <2>4. CASE i # id /\ subTodo'[i] = subTodo[i]
    <3>1. ~InCall(i)
      BY <2>1, <2>4, OldestUnique DEF InCall, Submitting
    <3>2. jobs'[i] = jobs[i]
      BY <1>0, <1>6, <2>4 DEF SubSave, Persist, UpdateJob, Written, StoreError, storeVars
    <3>3. QED  BY <1>0, <2>1, <2>4, <3>1, <3>2, SubOthers
  <2>5. QED  BY <2>2, <2>3, <2>4
<1>7. CASE SubCooldownEnds \/ \E id \in JobIds, d \in DlIds : SubAnswerLost(id, d)
  BY <1>5, <1>7 DEF SubCooldownEnds, SubAnswerLost, subVars
<1>8. QED  BY <1>1, <1>2, <1>4, <1>6, <1>7 DEF SubmitOnce, SubStep

\* A copy the poller drops, or keeps while it is at another job.
LEMMA PolOthers ==
    ASSUME IInv, CopiesInv, IdsGrow, NEW id \in JobIds, Withdrawn(id), UNCHANGED reapTodo,
           polTodo'[id] = polTodo[id] \/ polTodo'[id].state = "absent"
    PROVE  PolFollows(id)'
<1>1. CASE polTodo'[id].state = "absent"
  BY <1>1 DEF PolFollows
<1>2. CASE polTodo'[id] = polTodo[id]
  BY <1>2, PolCopyKept, IdsNat DEF CopiesInv, IInv
<1>3. QED  BY <1>1, <1>2

\* A step of the poller keeps its copies in line with the rows.
LEMMA PolCopiesOK ==
    ASSUME IInv, CopiesInv, PollOnce
    PROVE  \A id \in JobIds : PolFollows(id)'
<1>0. /\ IdsGrow /\ nextId' = nextId /\ UNCHANGED reapTodo
      /\ jobs' = jobs \/ \E id \in JobIds : Alone(id) /\ Tracked(id) /\ Polling(id)
      /\ polTodo \in [JobIds -> Row]
  BY PolRows DEF IdsGrow, PollOnce, reapVars, IInv, PolInv, PolType
<1>1. CASE PolLoad
  <2>1. jobs' = jobs /\ polTodo' = JobsByState(activeStates)
    BY <1>1 DEF PolLoad, storeVars
  <2>2. ASSUME NEW id \in JobIds, polTodo'[id].state # "absent"
        PROVE  polTodo'[id] = jobs[id] /\ jobs[id].state \in activeStates
    BY <2>1, <2>2, NoRowType DEF JobsByState
  <2>3. ASSUME NEW id \in JobIds PROVE PolFollows(id)'
    <3>1. CASE polTodo'[id].state = "absent"
      BY <3>1 DEF PolFollows
    <3>2. CASE polTodo'[id].state # "absent"
      <4>1. reapTodo'[id].state = "absent" /\ id < nextId'
        BY <1>0, <2>2, <3>2 DEF CopiesInv, ReapFollows, RowsInv, Exists, activeStates
      <4>2. QED  BY <2>1, <2>2, <3>2, <4>1 DEF PolFollows, Agrees, activeStates
    <3>3. QED  BY <3>1, <3>2
  <2>4. QED  BY <2>3
<1>2. ASSUME NEW id \in JobIds, Polling(id), polTodo' = Without(polTodo, id), NEW i \in JobIds
      PROVE  PolFollows(i)'
  <2>1. CASE i = id
    BY <1>0, <1>2, <2>1, NoRowType DEF PolFollows, Without
  <2>2. CASE i # id
    <3>1. polTodo'[i] = polTodo[i]
      BY <1>0, <1>2, <2>2 DEF Without
    <3>2. Withdrawn(i)
      BY <1>0, <1>2, <2>2, OldestUnique, OneRow, UnchangedRow DEF Polling
    <3>3. QED  BY <1>0, <3>1, <3>2, PolOthers
  <2>3. QED  BY <2>1, <2>2
<1>3. ASSUME NEW id \in JobIds, NEW i \in JobIds,
             \/ PolMissing(id) \/ PolGone(id) \/ PolFailed(id) \/ PolOngoing(id)
             \/ PolUnresolved(id) \/ PolSave(id)
      PROVE  PolFollows(i)'
  <2>1. Polling(id) /\ polTodo' = Without(polTodo, id)
    BY <1>3 DEF PolMissing, PolGone, PolFailed, PolOngoing, PolUnresolved, PolSave, PolResult, Listed
  <2>2. QED  BY <1>2, <2>1
<1>4. ASSUME NEW id \in JobIds, NEW i \in JobIds,
             PolPremature(id) \/ PolLink(id) \/ PolLinkFails(id)
      PROVE  PolFollows(i)'
  <2> DEFINE r == dl[polTodo[id].tb].release
  <2> DEFINE done == [polTodo[id] EXCEPT !.state = "completed", !.path = r]
  <2>1. Polling(id) /\ jobs' = jobs
    BY <1>4 DEF PolPremature, PolLink, PolLinkFails, Listed, PolLinked, storeVars
  <2>2. \/ polTodo' = [polTodo EXCEPT ![id] = polTodo[id]]
        \/ polTodo' = [polTodo EXCEPT ![id] = done]
    BY <1>4 DEF PolPremature, PolLink, PolLinkFails, PolLinked
  <2>3. done.state = "completed" /\ done.nzb = polTodo[id].nzb /\ done.tb = polTodo[id].tb
    BY <1>0 DEF Row
  <2> HIDE DEF done
  <2>4. CASE polTodo'[i] = polTodo[i]
    BY <1>0, <2>1, <2>4, PolOthers, UnchangedRow
  <2>5. CASE i = id /\ polTodo'[id] = done
    <3>1. polTodo[id].state \in activeStates \cup {"completed"} /\ PolFollows(id)
      BY <2>1, PollingOK DEF IInv, Followed, CopiesInv
    <3>2. polTodo[id].state # "absent"
      BY <3>1 DEF activeStates
    <3>3. /\ id < nextId' /\ reapTodo'[id].state = "absent"
          /\ Agrees(jobs'[id], done)
          /\ jobs'[id].state \in activeStates \cup {"deleted", "absent"}
      BY <1>0, <2>1, <2>3, <3>1, <3>2 DEF PolFollows, Agrees
    <3>4. PolFollows(id)'
      BY <2>3, <2>5, <3>3 DEF PolFollows, activeStates
    <3>5. QED  BY <2>5, <3>4
  <2>6. QED  BY <1>0, <2>2, <2>4, <2>5
<1>5. CASE PolListFails \/ PolEnd
  <2>1. \A i \in JobIds : polTodo'[i].state = "absent"
    BY <1>5, NoRowType DEF PolListFails, PolEnd, PolReturn, NoRows
  <2>2. QED  BY <2>1 DEF PolFollows
<1>6. CASE PolNothing \/ PolListed \/ RefreshCooldownEnds
  <2>1. polTodo' = polTodo /\ jobs' = jobs
    BY <1>6 DEF PolNothing, PolListed, RefreshCooldownEnds, storeVars
  <2>2. QED  BY <1>0, <2>1, PolOthers, UnchangedRow
<1>7. QED  BY <1>1, <1>3, <1>4, <1>5, <1>6 DEF PollOnce, PolStep

\* A step of the reaper keeps its copies, and those of the poller, in line.
LEMMA ReapCopiesOK ==
    ASSUME IInv, CopiesInv, ReapOnce
    PROVE  \A id \in JobIds : ReapFollows(id)' /\ PolFollows(id)'
<1>0. /\ IdsGrow /\ nextId' = nextId /\ UNCHANGED polTodo /\ nextId \in Nat
      /\ RowsInv /\ PolInv
      /\ \A id \in JobIds : ReapFollows(id) /\ PolFollows(id)
      /\ reapTodo \in [JobIds -> Row]
  BY ReapRows, IdsNat DEF IdsGrow, ReapOnce, polVars, IInv, ReapInv, ReapType, CopiesInv
<1>1. ASSUME NEW id \in JobIds
      PROVE  Withdrawn(id) \/ (Taken(id) /\ Detecting(id))
  <2>1. CASE jobs' = jobs
    BY <2>1, UnchangedRow
  <2>2. CASE \E i \in JobIds : Alone(i) /\ Taken(i) /\ Detecting(i)
    BY <2>2, OneRow
  <2>3. CASE ReapImported
    BY <2>3, ReapedRows
  <2>4. QED  BY <2>1, <2>2, <2>3, ReapRows
<1>2. CASE ReapLoad /\ reapTodo' = JobsByState({"completed"})
  <2>1. jobs' = jobs
    BY <1>2 DEF ReapLoad, storeVars
  <2>2. ASSUME NEW id \in JobIds, reapTodo'[id].state # "absent"
        PROVE  reapTodo'[id] = jobs[id] /\ jobs[id].state = "completed"
    BY <1>2, <2>2, NoRowType DEF JobsByState
  <2>3. ASSUME NEW id \in JobIds PROVE ReapFollows(id)' /\ PolFollows(id)'
    <3>1. CASE reapTodo'[id].state = "absent"
      BY <1>0, <2>1, <3>1, PolCopyKept, UnchangedRow DEF ReapFollows
    <3>2. CASE reapTodo'[id].state # "absent"
      <4>1. polTodo'[id].state = "absent" /\ id < nextId'
        BY <1>0, <2>2, <3>2 DEF PolFollows, RowsInv, Exists, PolInv, activeStates
      <4>2. QED  BY <2>1, <2>2, <3>2, <4>1 DEF ReapFollows, PolFollows, Agrees
    <3>3. QED  BY <3>1, <3>2
  <2>4. QED  BY <2>3
<1>3. CASE \A i \in JobIds : reapTodo'[i].state = "absent"
  BY <1>0, <1>1, <1>3, PolCopyKept DEF ReapFollows
<1>4. ASSUME NEW id \in JobIds, Imported(id) \/ NotImported(id), NEW i \in JobIds
      PROVE  ReapFollows(i)' /\ PolFollows(i)'
  <2>1. reapTodo' = Without(reapTodo, id) /\ Detecting(id)
    BY <1>4 DEF Imported, NotImported
  <2>2. reapTodo'[i].state = "absent" \/ (i # id /\ reapTodo'[i] = reapTodo[i])
    BY <1>0, <2>1, NoRowType DEF Without
  <2>3. PolFollows(i)'
    BY <1>0, <1>1, <2>2, PolCopyKept
  <2>4. ReapFollows(i)'
    <3>1. CASE reapTodo'[i].state = "absent"
      BY <3>1 DEF ReapFollows
    <3>2. CASE i # id /\ reapTodo'[i] = reapTodo[i]
      <4>1. Withdrawn(i)
        BY <1>1, <2>1, <3>2, OldestUnique DEF Detecting
      <4>2. QED  BY <1>0, <3>2, <4>1, ReapCopyKept
    <3>3. QED  BY <2>2, <3>1, <3>2
  <2>5. QED  BY <2>3, <2>4
<1>5. ASSUME UNCHANGED reapTodo, \A id \in JobIds : Withdrawn(id), NEW i \in JobIds
      PROVE  ReapFollows(i)' /\ PolFollows(i)'
  BY <1>0, <1>5, PolCopyKept, ReapCopyKept
<1>6. CASE Reap \/ SweepLoad \/ SweepRemove \/ SweepEnd \/ \E r \in Releases : SweepLook(r)
  <2>1. UNCHANGED reapTodo /\ (jobs' = jobs \/ ReapImported)
    BY <1>6 DEF Reap, SweepLoad, SweepRemove, SweepEnd, SweepLook, StoreError, storeVars
  <2>2. QED  BY <1>5, <2>1, ReapedRows, UnchangedRow
<1>7. ReapLoad => (reapTodo' = JobsByState({"completed"}))
                     \/ \A i \in JobIds : reapTodo'[i].state = "absent"
  BY NoRowType DEF ReapLoad, NoRows
<1>8. QED  BY <1>2, <1>3, <1>4, <1>6, <1>7 DEF ReapOnce, ReapStep

\* A step of the deleter keeps its copies in line with the rows.
LEMMA DelCopiesOK ==
    ASSUME IInv, CopiesInv, DeleteOnce
    PROVE  \A id \in JobIds : DelFollows(id)'
<1>0. /\ IdsGrow /\ nextId' = nextId /\ nextId \in Nat /\ RowsInv
      /\ \A id \in JobIds : DelFollows(id) /\ Withdrawn(id)
      /\ delTodo \in [JobIds -> Row]
  BY DelRows, OneRow, UnchangedRow, IdsNat DEF IdsGrow, IInv, DelInv, DelType, CopiesInv
<1>1. ASSUME NEW id \in JobIds, delTodo'[id] = delTodo[id] \/ delTodo'[id].state = "absent"
      PROVE  DelFollows(id)'
  BY <1>0, <1>1, DelCopyKept DEF DelFollows, Changed
<1>2. CASE DelLoad
  <2>1. ASSUME NEW id \in JobIds, delTodo'[id].state # "absent"
        PROVE  delTodo'[id] = jobs[id] /\ jobs'[id] = jobs[id]
    BY <1>2, <2>1, NoRowType DEF DelLoad, JobsByState, storeVars
  <2>2. QED  BY <1>0, <2>1 DEF DelFollows, Agrees, RowsInv, Exists
<1>3. ASSUME NEW id \in JobIds,
             DelRemoved(id) \/ DelRefused(id) \/ DelDir(id) \/ DelRow(id)
      PROVE  delTodo' = delTodo \/ delTodo' = Without(delTodo, id)
  BY <1>3 DEF DelRemoved, DelRefused, DelDir, DelRow, DelAdvance
<1>4. DelNothing => delTodo' = delTodo
  BY DEF DelNothing
<1>5. \A id, i \in JobIds : Without(delTodo, id)[i] = delTodo[i]
                               \/ Without(delTodo, id)[i].state = "absent"
  BY <1>0, NoRowType DEF Without
<1>6. QED  BY <1>1, <1>2, <1>3, <1>4, <1>5 DEF DeleteOnce, DelStep

\* A request that reads a row holds a copy of this very row.
LEMMA ReqCopiesOK ==
    ASSUME IInv, CopiesInv, Api, IdsGrow, \A id \in JobIds : Changed(id)
    PROVE  \A h \in Handlers : ReqFollows(h)'
<1>0. /\ RowsInv /\ nextId \in Nat /\ req \in [Handlers -> Request] /\ ApiInv
      /\ \A h \in Handlers : ReqFollows(h)
  BY IdsNat DEF CopiesInv, IInv, ApiInv
<1>1. ASSUME NEW h \in Handlers, req'[h] = req[h] \/ req'[h].op \notin {"delete", "purge"}
      PROVE  ReqFollows(h)'
  BY <1>0, <1>1, ReqCopyKept DEF ReqFollows
<1>2. ASSUME NEW g \in Handlers, NEW id \in JobIds, NEW op, DelRead(g, id, op), NEW h \in Handlers
      PROVE  ReqFollows(h)'
  <2>1. CASE h = g
    <3>1. req'[g].id = id /\ req'[g].row = jobs[id] /\ jobs' = jobs /\ id < nextId /\ nextId' = nextId
      BY <1>0, <1>2 DEF DelRead, RowsInv, storeVars
    <3>2. QED  BY <2>1, <3>1 DEF ReqFollows, Agrees
  <2>2. CASE h # g
    BY <1>0, <1>1, <1>2, <2>2 DEF DelRead
  <2>3. QED  BY <2>1, <2>2
<1>3. ASSUME NEW g \in Handlers, NEW k \in Nzbs,
             AddFind(g, k), NEW h \in Handlers
      PROVE  ReqFollows(h)'
  <2> DEFINE new == [Idle EXCEPT !.op = "create", !.nzb = k]
  <2>0. new.op = "create"
    BY DEF Idle
  <2> HIDE DEF new
  <2>1. req'[h] = req[h] \/ req'[h].op \in {"idle", "create"}
    BY <1>0, <1>3, <2>0 DEF AddFind, new
  <2>2. QED  BY <1>1, <2>1
<1>4. ASSUME NEW g \in Handlers, AddCreate(g) \/ DelWrite(g), NEW h \in Handlers
      PROVE  ReqFollows(h)'
  <2>1. req'[h] = req[h] \/ req'[h].op \in {"idle", "create"}
    BY <1>0, <1>4 DEF AddCreate, DelWrite, Idle
  <2>2. QED  BY <1>1, <2>1
<1>5. QED  BY <1>2, <1>3, <1>4 DEF Api, ApiNext

-----------------------------------------------------------------------------
(* The invariant *)

LEMMA InitCopies == ASSUME Init PROVE CopiesInv
<1>1. jobs = NoRows /\ subTodo = NoRows /\ polTodo = NoRows /\ reapTodo = NoRows /\ delTodo = NoRows
  BY DEF Init, StoreInit, SubInit, PolInit, ReapInit, DelInit, NoRows
<1>2. \A id \in JobIds : NoRows[id].state = "absent"
  BY NoRowType DEF NoRows
<1>3. RowsInv
  BY <1>1, <1>2 DEF RowsInv, Unsent, Exists
<1>4. OwnersInv
  BY DEF Init, StoreInit, TorBoxInit, OwnersInv, UnusedDl
<1>5. \A h \in Handlers : ReqFollows(h)
  BY DEF Init, ApiInit, ReqFollows, Idle
<1>6. \A id \in JobIds : SubFollows(id) /\ PolFollows(id) /\ ReapFollows(id) /\ DelFollows(id)
  BY <1>1, <1>2 DEF SubFollows, PolFollows, ReapFollows, DelFollows
<1>7. QED  BY <1>3, <1>4, <1>5, <1>6 DEF CopiesInv

\* What any step does to the table: it touches one row, or drops old ones.
LEMMA StepRows ==
    ASSUME IInv, CopiesInv, [Next]_vars
    PROVE  \/ jobs' = jobs /\ nextId' = nextId
           \/ \E id \in JobIds : Alone(id) /\ Created(id)
           \/ /\ nextId' = nextId
              /\ \/ \E id \in JobIds : /\ Alone(id)
                                       /\ Withdrawn(id) \/ Sent(id) \/ Tracked(id) \/ Taken(id)
                 \/ ReapImported
<1> DEFINE Goal == \/ jobs' = jobs /\ nextId' = nextId
                   \/ \E id \in JobIds : Alone(id) /\ Created(id)
                   \/ /\ nextId' = nextId
                      /\ \/ \E id \in JobIds :
                               /\ Alone(id)
                               /\ Withdrawn(id) \/ Sent(id) \/ Tracked(id) \/ Taken(id)
                         \/ ReapImported
<1> SUFFICES Goal
  OBVIOUS
<1>1. CASE Api
  BY <1>1, ApiRows
<1>2. CASE SubmitOnce
  BY <1>2, SubRows
<1>3. CASE PollOnce
  BY <1>3, PolRows
<1>4. CASE ReapOnce
  BY <1>4, ReapRows
<1>5. CASE DeleteOnce
  BY <1>5, DelRows
<1>6. CASE OnTorBox \/ Import \/ DayPasses \/ Restart
  BY <1>6, WorldRows
<1>7. CASE UNCHANGED vars
  BY <1>7 DEF vars, sharedVars, storeVars
<1>8. QED  BY <1>1, <1>2, <1>3, <1>4, <1>5, <1>6, <1>7 DEF Next

\* So every row changes in one of the five ways.
LEMMA StepChanges ==
    ASSUME IInv, CopiesInv, [Next]_vars
    PROVE  IdsGrow /\ \A id \in JobIds : Changed(id)
<1>1. CASE jobs' = jobs /\ nextId' = nextId
  BY <1>1, UnchangedRow DEF IdsGrow, Changed
<1>2. ASSUME NEW id \in JobIds, Alone(id), Changed(id), NEW i \in JobIds
      PROVE  Changed(i)
  BY <1>2, OneRow DEF Changed
<1>3. CASE \E id \in JobIds : Alone(id) /\ Created(id)
  BY <1>2, <1>3 DEF IdsGrow, Changed, Created
<1>4. CASE nextId' = nextId /\ ReapImported
  BY <1>4, ReapedRows DEF IdsGrow, Changed
<1>5. CASE nextId' = nextId /\ \E id \in JobIds :
              Alone(id) /\ (Withdrawn(id) \/ Sent(id) \/ Tracked(id) \/ Taken(id))
  BY <1>2, <1>5 DEF IdsGrow, Changed
<1>6. QED  BY <1>1, <1>3, <1>4, <1>5, StepRows

\* A download stays whose it is, and goes on, ends, or leaves the account.
Moves(d) == /\ dl'[d].job = dl[d].job /\ dl'[d].release = dl[d].release
            /\ \/ dl'[d].status = dl[d].status
               \/ dl[d].status = "working" /\ dl'[d].status \in {"ready", "failed"}
               \/ /\ dl[d].status \in Live /\ dl'[d].status = "vanished"
                  /\ "vanish" \in FaultKinds
               \/ /\ dl[d].status \in Live /\ dl'[d].status = "removed"
                  /\ \E id \in JobIds : delPc = "call" /\ Deleting(id) /\ delTodo[id].tb = d

\* It is created for a row the submitter holds; only a lost answer keeps it unknown.
Starts(d, id) == /\ dl[d].status = "unused" /\ dl'[d].status = "working"
                 /\ dl'[d].job = id
                 /\ subPc = "call" /\ Submitting(id)
                 /\ \A e \in DlIds : e # d => dl'[e] = dl[e]
                 /\ UNCHANGED storeVars
                 /\ "lost" \notin FaultKinds => subTodo'[id].state = "queued"

\* What any step does to the account.
LEMMA StepDownloads ==
    ASSUME IInv, [Next]_vars
    PROVE  \A d \in DlIds : Moves(d) \/ \E id \in JobIds : Starts(d, id)
<1>0. dl \in [DlIds -> Download]
  BY DEF IInv, TorBoxInv, Downloads
<1>1. UNCHANGED dl => \A d \in DlIds : Moves(d)
  BY DEF Moves
<1>2. ASSUME NEW d \in DlIds, NEW id \in JobIds, SubCreated(id, d) \/ SubAnswerLost(id, d),
             NEW e \in DlIds
      PROVE  Moves(e) \/ Starts(e, id)
  <2>1. PICK k : CreateUsenetDownload(d, id, k)
    BY <1>2 DEF SubCreated, SubAnswerLost
  <2>2. dl' = [dl EXCEPT ![d] = [status |-> "working", job |-> id, release |-> ReleaseOf[k]]]
        /\ dl[d].status = "unused"
    BY <2>1 DEF CreateUsenetDownload, CreateNamed
  <2>3. CASE e # d
    BY <1>0, <2>2, <2>3 DEF Moves
  <2>4. "lost" \notin FaultKinds => subTodo'[id].state = "queued"
    BY <1>2 DEF SubCreated, SubAnswerLost, SubOutcome, Fault, IInv, SubInv, SubType, Row
  <2>5. subPc = "call" /\ Submitting(id) /\ UNCHANGED storeVars
    BY <1>2 DEF SubCreated, SubAnswerLost
  <2>6. CASE e = d
    BY <1>0, <2>2, <2>4, <2>5, <2>6 DEF Starts
  <2>7. QED  BY <2>3, <2>6
<1>3. CASE SubmitOnce
  <2>1. UNCHANGED dl \/ \E id \in JobIds, d \in DlIds : SubCreated(id, d) \/ SubAnswerLost(id, d)
    BY <1>3 DEF SubmitOnce, SubStep, SubLoad, SubMark, SubRefused, SubLimited, SubSave,
           SubCooldownEnds, torboxVars
  <2>2. QED  BY <1>1, <1>2, <2>1
<1>4. CASE OnTorBox
  <2>1. ASSUME NEW d \in DlIds, Finish(d) \/ Break(d) \/ Vanish(d), NEW e \in DlIds
        PROVE  Moves(e)
    BY <1>0, <2>1 DEF Finish, Break, Vanish, Fault, Download, Moves
  <2>2. ASSUME NEW r \in Releases, Surface(r) \/ Unsurface(r)
        PROVE  UNCHANGED dl
    BY <2>2 DEF Surface, Unsurface
  <2>3. QED  BY <1>1, <1>4, <2>1, <2>2 DEF OnTorBox, TorBoxNext
<1>5. CASE DeleteOnce
  <2>1. ASSUME NEW id \in JobIds, DelRemoved(id), NEW e \in DlIds
        PROVE  Moves(e)
    BY <1>0, <2>1 DEF DelRemoved, ControlUsenet, Download, Moves
  <2>2. ASSUME NEW id \in JobIds, DelRefused(id) \/ DelDir(id) \/ DelRow(id)
        PROVE  UNCHANGED dl
    BY <2>2 DEF DelRefused, DelDir, DelRow, torboxVars
  <2>3. DelLoad \/ DelNothing => UNCHANGED dl
    BY DEF DelLoad, DelNothing, torboxVars
  <2>4. QED  BY <1>1, <1>5, <2>1, <2>2, <2>3 DEF DeleteOnce, DelStep
<1>6. CASE PollOnce
  BY <1>1, <1>6
  DEF PollOnce, PolStep, PolLoad, PolNothing, PolListFails, PolListed, PolMissing, PolGone,
      PolFailed, PolOngoing, PolUnresolved, PolPremature, PolLink, PolLinkFails, PolLinked,
      PolSave, PolEnd, RefreshCooldownEnds, torboxVars
<1>7. CASE ReapOnce
  BY <1>1, <1>7
  DEF ReapOnce, ReapStep, ReapLoad, Imported, NotImported, Reap, SweepLoad, SweepLook,
      SweepRemove, SweepEnd, torboxVars
<1>8. CASE Api \/ Import \/ DayPasses \/ Restart \/ UNCHANGED vars
  BY <1>1, <1>8 DEF Api, Import, SonarrImport, DayPasses, Restart, vars, sharedVars, torboxVars
<1>9. QED  BY <1>3, <1>4, <1>5, <1>6, <1>7, <1>8 DEF Next

\* A download gets its owner when it is created for a row the submitter holds.
LEMMA OwnersKept ==
    ASSUME IInv, CopiesInv, [Next]_vars, IdsGrow
    PROVE  OwnersInv'
<1>0. nextId \in Nat /\ dl \in [DlIds -> Download] /\ OwnersInv
  BY IdsNat DEF IInv, TorBoxInv, Downloads, CopiesInv
<1>1. ASSUME NEW d \in DlIds PROVE dl'[d].job < nextId'
  <2>1. CASE Moves(d)
    BY <1>0, <2>1 DEF Moves, OwnersInv, IdsGrow, Download, JobIds
  <2>2. ASSUME NEW id \in JobIds, Starts(d, id)
        PROVE  dl'[d].job < nextId'
    BY <1>0, <2>2 DEF Starts, CopiesInv, SubFollows, Submitting, Oldest, IdsGrow, JobIds
  <2>3. QED  BY <2>1, <2>2, StepDownloads
<1>2. QED  BY <1>1 DEF OwnersInv

\* Every step preserves the relation between copies and rows: the actor that
\* moves by its own lemma, the others because of how rows may change.
LEMMA NextCopies == ASSUME IInv, CopiesInv, [Next]_vars PROVE CopiesInv'
<1>1. /\ IdsGrow /\ nextId \in Nat /\ RowsInv /\ PolInv /\ ApiInv
      /\ \A id \in JobIds : /\ Changed(id) /\ SubFollows(id) /\ PolFollows(id)
                            /\ ReapFollows(id) /\ DelFollows(id)
      /\ \A h \in Handlers : ReqFollows(h)
  BY StepChanges, IdsNat DEF CopiesInv, IInv
<1>2. RowsInv' /\ OwnersInv'
  BY <1>1, RowsKept, OwnersKept
<1>3. ASSUME UNCHANGED subVars,
             \A id \in JobIds : Withdrawn(id) \/ Created(id) \/ Tracked(id) \/ Taken(id)
      PROVE  \A id \in JobIds : SubFollows(id)'
  BY <1>1, <1>3, SubCopyKept
<1>4. ASSUME UNCHANGED <<polVars, reapVars>>,
             \A id \in JobIds : Withdrawn(id) \/ Created(id) \/ Sent(id)
      PROVE  \A id \in JobIds : PolFollows(id)' /\ ReapFollows(id)'
  BY <1>1, <1>4, PolCopyKept, ReapCopyKept DEF polVars, reapVars
<1>5. UNCHANGED delVars => \A id \in JobIds : DelFollows(id)'
  BY <1>1, DelCopyKept DEF delVars
<1>6. UNCHANGED apiVars => \A h \in Handlers : ReqFollows(h)'
  BY <1>1, ReqCopyKept DEF apiVars
<1>7. CASE Api
  <2>1. \A id \in JobIds : Withdrawn(id) \/ Created(id)
    BY <1>7, ApiRows, OneRow, UnchangedRow
  <2>2. \A h \in Handlers : ReqFollows(h)'
    BY <1>1, <1>7, ReqCopiesOK
  <2>3. QED  BY <1>2, <1>3, <1>4, <1>5, <1>7, <2>1, <2>2 DEF Api, CopiesInv
<1>8. CASE SubmitOnce
  <2>1. \A id \in JobIds : Withdrawn(id) \/ Sent(id)
    BY <1>8, SubRows, OneRow, UnchangedRow
  <2>2. \A id \in JobIds : SubFollows(id)'
    BY <1>8, SubCopiesOK
  <2>3. QED  BY <1>2, <1>4, <1>5, <1>6, <1>8, <2>1, <2>2 DEF SubmitOnce, CopiesInv
<1>9. CASE PollOnce
  <2>1. \A id \in JobIds : Withdrawn(id) \/ Tracked(id)
    BY <1>9, PolRows, OneRow, UnchangedRow
  <2>2. \A id \in JobIds : PolFollows(id)'
    BY <1>9, PolCopiesOK
  <2>3. \A id \in JobIds : ReapFollows(id)'
    BY <1>1, <1>9, <2>1, ReapCopyKept DEF PollOnce, reapVars
  <2>4. QED  BY <1>2, <1>3, <1>5, <1>6, <1>9, <2>1, <2>2, <2>3 DEF PollOnce, CopiesInv
<1>10. CASE ReapOnce
  <2>1. \A id \in JobIds : Withdrawn(id) \/ Taken(id)
    <3>1. ReapImported => \A id \in JobIds : Withdrawn(id)
      BY ReapedRows
    <3>2. QED  BY <1>10, <3>1, ReapRows, OneRow, UnchangedRow
  <2>2. \A id \in JobIds : ReapFollows(id)' /\ PolFollows(id)'
    BY <1>10, ReapCopiesOK
  <2>3. QED  BY <1>2, <1>3, <1>5, <1>6, <1>10, <2>1, <2>2 DEF ReapOnce, CopiesInv
<1>11. CASE DeleteOnce
  <2>1. \A id \in JobIds : Withdrawn(id)
    BY <1>11, DelRows, OneRow, UnchangedRow
  <2>2. \A id \in JobIds : DelFollows(id)'
    BY <1>11, DelCopiesOK
  <2>3. QED  BY <1>2, <1>3, <1>4, <1>6, <1>11, <2>1, <2>2 DEF DeleteOnce, CopiesInv
<1>12. CASE OnTorBox \/ Import \/ DayPasses
  <2>1. \A id \in JobIds : Withdrawn(id)
    BY <1>12, WorldRows, OneRow, UnchangedRow
  <2>2. UNCHANGED <<apiVars, subVars, polVars, delVars, reapVars>>
    BY <1>12 DEF OnTorBox, Import, DayPasses
  <2>3. QED  BY <1>2, <1>3, <1>4, <1>5, <1>6, <2>1, <2>2 DEF CopiesInv
<1>13. CASE Restart
  <2>1. \A id \in JobIds : NoRows[id].state = "absent"
    BY NoRowType DEF NoRows
  <2>2. \A h \in Handlers : ReqFollows(h)'
    BY <1>13 DEF Restart, ReqFollows, Idle
  <2>3. \A id \in JobIds :
           SubFollows(id)' /\ PolFollows(id)' /\ ReapFollows(id)' /\ DelFollows(id)'
    BY <1>13, <2>1 DEF Restart, PolReturn, SubFollows, PolFollows, ReapFollows, DelFollows
  <2>4. QED  BY <1>2, <2>2, <2>3 DEF CopiesInv
<1>14. CASE UNCHANGED vars
  <2>1. UNCHANGED <<storeVars, apiVars, subVars, polVars, delVars, reapVars>>
    BY <1>14 DEF vars, sharedVars
  <2>2. \A id \in JobIds : Withdrawn(id)
    BY <2>1, UnchangedRow DEF storeVars
  <2>3. QED  BY <1>2, <1>3, <1>4, <1>5, <1>6, <2>1, <2>2 DEF CopiesInv
<1>15. QED
  BY <1>7, <1>8, <1>9, <1>10, <1>11, <1>12, <1>13, <1>14 DEF Next

\* Whatever the interleaving, a copy that a loop or a request holds is of a row
\* in a state this copy may be written over.
THEOREM CopiesCorrect == Spec => []CopiesInv
<1>1. Init => CopiesInv
  BY InitCopies
<1>2. IInv /\ CopiesInv /\ [Next]_vars => CopiesInv'
  BY NextCopies
<1>3. QED  BY <1>1, <1>2, Invariance, PTL DEF Spec

\* Rows move along the table of job.go, which no code consults: no write from an
\* old copy takes a row back, apart from deletions that are lost.
THEOREM TransitionsLegal == Spec => LegalTransitions
<1> DEFINE Legal == \A id \in JobIds :
          {jobs[id].state, jobs'[id].state} \cap {"absent", "deleted"} = {}
             => \/ jobs'[id].state = jobs[id].state
                \/ CanTransitionTo(jobs[id].state, jobs'[id].state)
<1>1. IInv /\ CopiesInv /\ [Next]_vars => [Legal]_vars
  <2>1. SUFFICES ASSUME IInv, CopiesInv, [Next]_vars, NEW id \in JobIds,
                        jobs[id].state \notin {"absent", "deleted"},
                        jobs'[id].state \notin {"absent", "deleted"},
                        jobs'[id].state # jobs[id].state
                 PROVE  CanTransitionTo(jobs[id].state, jobs'[id].state)
    OBVIOUS
  <2>2. ~Created(id) /\ ~Withdrawn(id)
    BY <2>1, IdsNat DEF Created, Withdrawn, CopiesInv, RowsInv, IInv, Exists, JobIds
  <2>3. Sent(id) \/ Tracked(id) \/ Taken(id)
    BY <2>1, <2>2, StepChanges DEF Changed
  <2>4. QED  BY <2>1, <2>3 DEF Sent, Tracked, Taken, CanTransitionTo, transitions
<1>2. QED  BY <1>1, Invariance, CopiesCorrect, PTL DEF Spec, LegalTransitions

-----------------------------------------------------------------------------
(* The refinement of JobView *)

\* The places of all jobs, which JobView calls view.
Places == [id \in JobIds |-> Place(id)]

\* The place of a row by its state.
PlaceOf(s) == CASE s = "absent" -> "gone"
                [] s \in {"pending", "submitting", "queued", "downloading"} -> "queue"
                [] s \in {"completed", "failed"} -> "history"
                [] s = "deleted" -> "deleting"
                [] OTHER -> "taken"

\* The place of a job is that of its row's state, once its id is given out.
LEMMA PlaceByState ==
    ASSUME NEW id \in JobIds, nextId \in Nat, RowsInv
    PROVE  Place(id) = IF id < nextId THEN PlaceOf(jobs[id].state) ELSE "unborn"
<1>1. id < nextId <=> ~(id >= nextId)
  BY DEF JobIds
<1>2. CASE id < nextId
  <2>1. CASE jobs[id].state = "absent"
    BY <1>1, <1>2, <2>1 DEF Place, PlaceOf
  <2>2. CASE jobs[id].state \in {"pending", "submitting", "queued", "downloading"}
    BY <1>1, <1>2, <2>2 DEF Place, PlaceOf
  <2>3. CASE jobs[id].state \in {"completed", "failed"}
    BY <1>1, <1>2, <2>3 DEF Place, PlaceOf
  <2>4. CASE jobs[id].state = "deleted"
    BY <1>1, <1>2, <2>4 DEF Place, PlaceOf
  <2>5. CASE jobs[id].state \notin {"absent", "pending", "submitting", "queued", "downloading",
                               "completed", "failed", "deleted"}
    BY <1>1, <1>2, <2>5 DEF Place, PlaceOf
  <2>6. QED  BY <2>1, <2>2, <2>3, <2>4, <2>5
<1>3. CASE ~(id < nextId)
  BY <1>1, <1>3 DEF Place, RowsInv, Exists
<1>4. QED  BY <1>2, <1>3

LEMMA PlaceByStateNext ==
    ASSUME NEW id \in JobIds, nextId' \in Nat, RowsInv'
    PROVE  Place(id)' = IF id < nextId' THEN PlaceOf(jobs'[id].state) ELSE "unborn"
<1>1. id < nextId' <=> ~(id >= nextId')
  BY DEF JobIds
<1>2. CASE id < nextId'
  <2>1. CASE jobs'[id].state = "absent"
    BY <1>1, <1>2, <2>1 DEF Place, PlaceOf
  <2>2. CASE jobs'[id].state \in {"pending", "submitting", "queued", "downloading"}
    BY <1>1, <1>2, <2>2 DEF Place, PlaceOf
  <2>3. CASE jobs'[id].state \in {"completed", "failed"}
    BY <1>1, <1>2, <2>3 DEF Place, PlaceOf
  <2>4. CASE jobs'[id].state = "deleted"
    BY <1>1, <1>2, <2>4 DEF Place, PlaceOf
  <2>5. CASE jobs'[id].state \notin {"absent", "pending", "submitting", "queued", "downloading",
                               "completed", "failed", "deleted"}
    BY <1>1, <1>2, <2>5 DEF Place, PlaceOf
  <2>6. QED  BY <2>1, <2>2, <2>3, <2>4, <2>5
<1>3. CASE ~(id < nextId')
  BY <1>1, <1>3 DEF Place, RowsInv, Exists
<1>4. QED  BY <1>2, <1>3

\* A change of one row moves its job, or goes unnoticed.
LEMMA PlaceMoves ==
    ASSUME NEW id \in JobIds, nextId' = nextId, nextId \in Nat, RowsInv, RowsInv',
           Withdrawn(id) \/ Sent(id) \/ Tracked(id) \/ Taken(id)
    PROVE  Place(id)' = Place(id) \/ Place(id)' \in View!after[Place(id)]
<1>1. CASE ~(id < nextId)
  BY <1>1, PlaceByState, PlaceByStateNext
<1>2. CASE id < nextId
  <2> DEFINE s == jobs[id].state
  <2> DEFINE t == jobs'[id].state
  <2>1. Place(id) = PlaceOf(s) /\ Place(id)' = PlaceOf(t)
    BY <1>2, PlaceByState, PlaceByStateNext
  <2>2. CASE Withdrawn(id)
    <3>1. t = s \/ t = "deleted" \/ t = "absent"
      BY <2>2 DEF Withdrawn
    <3>2. CASE t = "absent"
      BY <2>1, <3>2 DEF PlaceOf, View!after
    <3>3. CASE t = "deleted"
      <4>1. s # "absent"
        BY <2>2, <3>3 DEF Withdrawn, Exists
      <4>2. QED  BY <2>1, <3>3, <4>1 DEF PlaceOf, View!after
    <3>4. QED  BY <2>1, <3>1, <3>2, <3>3
  <2>3. CASE Sent(id)
    BY <2>1, <2>3 DEF Sent, PlaceOf, View!after
  <2>4. CASE Tracked(id)
    BY <2>1, <2>4 DEF Tracked, PlaceOf, View!after
  <2>5. CASE Taken(id)
    BY <2>1, <2>5 DEF Taken, PlaceOf, View!after
  <2>6. QED  BY <2>2, <2>3, <2>4, <2>5
<1>3. QED  BY <1>1, <1>2

\* If one job moves at most, its move is one of JobView, or nothing is seen.
LEMMA OneMove ==
    ASSUME NEW id \in JobIds,
           \A other \in JobIds : other # id => Place(other)' = Place(other),
           Place(id)' = Place(id) \/ Place(id)' \in View!after[Place(id)]
    PROVE  [View!Next]_Places
<1>1. CASE Place(id)' = Place(id)
  BY <1>1 DEF Places
<1>2. CASE Place(id)' \in View!after[Place(id)]
  <2>1. [i \in JobIds |-> Place(i)]' = [[i \in JobIds |-> Place(i)] EXCEPT ![id] = Place(id)']
    OBVIOUS
  <2>2. View!Move(id)
    BY <1>2, <2>1 DEF View!Move
  <2>3. QED  BY <2>2 DEF View!Next
<1>3. QED  BY <1>1, <1>2

\* Every step of the pipeline is one of JobView, or nothing a client could see.
LEMMA NextPlaces ==
    ASSUME IInv, CopiesInv, CopiesInv', [Next]_vars
    PROVE  [View!Next]_Places
<1>0. nextId \in Nat /\ RowsInv /\ RowsInv'
  BY IdsNat DEF IInv, CopiesInv
<1>1. ASSUME NEW id \in JobIds, nextId' = nextId, jobs'[id] = jobs[id]
      PROVE  Place(id)' = Place(id)
  BY <1>0, <1>1, PlaceByState, PlaceByStateNext
<1>2. CASE jobs' = jobs /\ nextId' = nextId
  BY <1>1, <1>2 DEF Places
<1>3. ASSUME NEW id \in JobIds, Alone(id), Created(id)
      PROVE  [View!Next]_Places
  <2>1. nextId' \in Nat /\ ~(id < nextId) /\ id < nextId'
    BY <1>0, <1>3 DEF Created
  <2>2. Place(id) = "unborn" /\ Place(id)' = "queue"
    BY <1>0, <1>3, <2>1, PlaceByState, PlaceByStateNext DEF PlaceOf, Created
  <2>3. ASSUME NEW other \in JobIds, other # id
        PROVE  Place(other)' = Place(other)
    <3>1. other < nextId' <=> other < nextId
      BY <1>0, <1>3, <2>3 DEF Created, JobIds
    <3>2. QED
      BY <1>0, <1>3, <2>1, <2>3, <3>1, PlaceByState, PlaceByStateNext DEF Alone
  <2>4. QED  BY <2>2, <2>3, OneMove DEF View!after
<1>4. ASSUME NEW id \in JobIds, Alone(id), nextId' = nextId,
             Withdrawn(id) \/ Sent(id) \/ Tracked(id) \/ Taken(id)
      PROVE  [View!Next]_Places
  <2>1. \A other \in JobIds : other # id => Place(other)' = Place(other)
    BY <1>1, <1>4 DEF Alone
  <2>2. Place(id)' = Place(id) \/ Place(id)' \in View!after[Place(id)]
    BY <1>0, <1>4, PlaceMoves
  <2>3. QED  BY <2>1, <2>2, OneMove
<1>5. CASE nextId' = nextId /\ ReapImported
  <2> DEFINE old == {id \in JobIds : Reapable(id)}
  <2>1. ASSUME NEW id \in JobIds, Reapable(id)
        PROVE  Place(id) = "taken" /\ Place(id)' = "gone"
    <3>1. jobs[id].state = "imported" /\ jobs'[id].state = "absent" /\ id < nextId
      BY <1>0, <1>5, <2>1, NoRowType DEF ReapImported, Reapable, RowsInv, Exists
    <3>2. QED  BY <1>0, <1>5, <3>1, PlaceByState, PlaceByStateNext DEF PlaceOf
  <2>2. ASSUME NEW id \in JobIds, ~Reapable(id)
        PROVE  Place(id)' = Place(id)
    BY <1>1, <1>5, <2>2 DEF ReapImported
  <2>3. old \in SUBSET {id \in JobIds : [i \in JobIds |-> Place(i)][id] = "taken"}
    BY <2>1
  <2>4. [i \in JobIds |-> Place(i)]'
           = [id \in JobIds |-> IF id \in old THEN "gone" ELSE [i \in JobIds |-> Place(i)][id]]
    BY <2>1, <2>2
  <2>5. View!Reap
    BY <2>3, <2>4 DEF View!Reap
  <2>6. QED  BY <2>5 DEF View!Next
<1>6. QED  BY <1>2, <1>3, <1>4, <1>5, StepRows

\* The pipeline implements JobView: whatever loops, requests, faults and restarts
\* do, a client sees ids given out once, no job back in the queue from history,
\* none back in history after its import, and none after its row is gone, unless
\* the deletion it asked for was lost.
THEOREM RefinesJobView == Spec => ImplementsJobView
<1>1. Init => View!Init
  <2> SUFFICES ASSUME Init PROVE View!Init
    OBVIOUS
  <2>1. \A id \in JobIds : Place(id) = "unborn"
    <3>1. nextId = 1 /\ RowsInv
      BY InitCopies DEF Init, StoreInit, CopiesInv
    <3>2. QED  BY <3>1, PlaceByState DEF JobIds
  <2>2. QED  BY <2>1 DEF View!Init
<1>2. IInv /\ CopiesInv /\ CopiesInv' /\ [Next]_vars => [View!Next]_Places
  BY NextPlaces
<1>3. QED
  BY <1>1, <1>2, Invariance, CopiesCorrect, PTL DEF Spec, ImplementsJobView, View!Spec, Places
=============================================================================
