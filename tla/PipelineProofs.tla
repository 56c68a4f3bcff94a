---------------------------- MODULE PipelineProofs ----------------------------
(***************************************************************************)
(* Proofs about the pipeline, for any number of rows, downloads, handlers  *)
(* and faults: the copies of the submitter, the poller and the reaper on   *)
(* top of what RowProofs shows of the table, the API and the deleter.      *)
(***************************************************************************)
EXTENDS Pipeline, RowProofs

SubInv == SubType /\ Table(subTodo, dl, asked)

PolInv == /\ PolType
          /\ Table(polTodo, dl, asked)
          /\ \A id \in JobIds : polTodo[id].state \in activeStates \cup {"completed", "absent"}

ReapInv == /\ ReapType
           /\ Table(reapTodo, dl, asked)
           /\ \A id \in JobIds : reapTodo[id].state \in {"completed", "absent"}

IInv == StoreInv /\ TorBoxInv /\ FarmType /\ ApiInv /\ SubInv /\ PolInv /\ DelInv /\ ReapInv

-----------------------------------------------------------------------------
(* What a step leaves alone *)

\* Copies stay well formed while their loop waits.
LEMMA SubKept == ASSUME SubInv, Grows, UNCHANGED subVars PROVE SubInv'
BY TableKept DEF SubInv, SubType, Grows, subVars

LEMMA PolKept == ASSUME PolInv, Grows, UNCHANGED polVars PROVE PolInv'
BY TableKept DEF PolInv, PolType, Grows, polVars

LEMMA ReapKept == ASSUME ReapInv, Grows, UNCHANGED reapVars PROVE ReapInv'
BY TableKept DEF ReapInv, ReapType, Grows, reapVars

-----------------------------------------------------------------------------
(* The initial state *)

LEMMA InitIInv == ASSUME Init PROVE IInv
<1>1. StoreInv
  <2>1. jobs = NoRows /\ nextId = 1 /\ faults = 0
    BY DEF Init, StoreInit, NoRows
  <2>2. QED  BY <2>1, TableNoRows, StoreAssumption, FaultsAssumption DEF StoreInv
<1>2. TorBoxInv
  BY DEF Init, TorBoxInit, TorBoxInv, Downloads, Asked, UnusedDl, Download
<1>3. FarmType
  BY DEF Init, FarmInit, FarmType
<1>4. ApiInv
  BY NoRowType DEF Init, ApiInit, ApiInv, Serving, Request, Idle
<1>5. SubInv
  BY TableNoRows DEF Init, SubInit, SubInv, SubType, Table
<1>6. PolInv
  BY TableNoRows, NoRowType DEF Init, PolInit, PolInv, PolType, Table, NoList, NoMisses, NoRows
<1>7. DelInv
  BY TableNoRows, NoRowType, DeleterAssumption
  DEF Init, DelInit, DelInv, DelType, Table, NoAttempts, NoRows
<1>8. ReapInv
  BY TableNoRows, NoRowType DEF Init, ReapInit, ReapInv, ReapType, Table, NoRows
<1>9. QED  BY <1>1, <1>2, <1>3, <1>4, <1>5, <1>6, <1>7, <1>8 DEF IInv

-----------------------------------------------------------------------------
(* The submitter *)

\* The loop goes on with whatever well-formed copies it keeps.
LEMMA SubAdvanceOK ==
    ASSUME NEW rows, Table(rows, dl, asked), SubAdvance(rows), UNCHANGED <<dl, asked>>,
           subCooling' \in BOOLEAN
    PROVE  SubInv'
BY DEF SubAdvance, SubInv, SubType, Table

\* The job being submitted is a row, and its copy is well formed.
LEMMA SubmittingOK ==
    ASSUME SubInv, NEW id \in JobIds, Submitting(id)
    PROVE  /\ WellFormed(dl, asked, id, subTodo[id])
           /\ subTodo[id].state # "absent"
           /\ subTodo[id].nzb \in Nzbs
BY DEF SubInv, Table, Submitting, Oldest, WellFormed

\* TorBox names the download after its NZB.
LEMMA SubmittedOK ==
    ASSUME TorBoxInv, NEW d \in DlIds, NEW id \in JobIds, NEW k \in Nzbs,
           CreateUsenetDownload(d, id, k), UNCHANGED asked
    PROVE  TorBoxInv' /\ Grows /\ dl'[d].job = id
BY CreateOK, TorBoxAssumption DEF CreateUsenetDownload

\* A step of the submitter preserves the table, the account and its copies.
LEMMA SubStepOK ==
    ASSUME IInv, SubmitOnce
    PROVE  StoreInv' /\ TorBoxInv' /\ SubInv' /\ Grows
<1> USE DEF IInv
<1> UNCHANGED asked
  BY DEF SubmitOnce, apiVars
<1>1. CASE SubLoad
  <2>1. Grows /\ UNCHANGED <<dl, storeVars, torboxVars>>
    BY <1>1 DEF SubLoad, Grows, torboxVars
  <2>2. StoreInv' /\ TorBoxInv'
    BY <1>1, <2>1, StoreKept, TorBoxKept DEF SubLoad, StoreInv
  <2>3. SubInv'
    BY <1>1, <2>1, TableByState, SubAdvanceOK DEF SubLoad, StoreInv, SubInv, SubType
  <2>4. QED  BY <2>1, <2>2, <2>3
<1>2. ASSUME NEW id \in JobIds, SubMark(id)
      PROVE  StoreInv' /\ TorBoxInv' /\ SubInv' /\ Grows
  <2> DEFINE row == [subTodo[id] EXCEPT !.state = "submitting"]
  <2>1. Grows /\ UNCHANGED <<dl, torboxVars, subCooling>>
    BY <1>2 DEF SubMark, Grows, torboxVars
  <2>2. WellFormed(dl, asked, id, row)
    BY <1>2, SubmittingOK, RestatedWellFormed DEF SubMark, States, Submitted
  <2>3. Persist(id, row)
    BY <1>2 DEF SubMark, Persist
  <2>4. StoreInv' /\ TorBoxInv'
    BY <2>1, <2>2, <2>3, PersistKept, TorBoxKept
  <2>5. SubInv'
    <3>1. CASE subTodo' = [subTodo EXCEPT ![id] = row] /\ subPc' = "call"
      <4>1. Table(subTodo', dl, asked)
        BY <3>1, <2>2, TablePut DEF SubInv
      <4>2. QED  BY <3>1, <4>1, <2>1 DEF SubInv, SubType, Table
    <3>2. CASE SubAdvance(Without(subTodo, id))
      BY <3>2, <2>1, TableWithout, SubAdvanceOK DEF SubInv, SubType
    <3>3. QED  BY <1>2, <3>1, <3>2 DEF SubMark
  <2>6. QED  BY <2>1, <2>4, <2>5
<1>3. ASSUME NEW id \in JobIds, SubRefused(id) \/ SubLimited(id)
      PROVE  StoreInv' /\ TorBoxInv' /\ SubInv' /\ Grows
  <2>1. Grows /\ UNCHANGED <<dl, storeVars, torboxVars, subCooling>>
    BY <1>3 DEF SubRefused, SubLimited, Grows, torboxVars
  <2>2. StoreInv' /\ TorBoxInv'
    BY <1>3, <2>1, StoreKept, TorBoxKept, FaultType DEF SubRefused, SubLimited, StoreInv
  <2>3. PICK s \in {"failed", "pending"} : SubOutcome(id, s, subTodo[id].tb)
    BY <1>3 DEF SubRefused, SubLimited
  <2>4. subTodo \in [JobIds -> Row] /\ Submitting(id)
    BY <1>3 DEF SubInv, SubType, SubRefused, SubLimited
  <2>5. subTodo' = [subTodo EXCEPT ![id] = [subTodo[id] EXCEPT !.state = s]] /\ subPc' = "save"
    BY <2>3, <2>4 DEF SubOutcome, Row
  <2>6. WellFormed(dl, asked, id, [subTodo[id] EXCEPT !.state = s])
    BY <2>4, SubmittingOK, RestatedWellFormed DEF States, Submitted
  <2>7. Table(subTodo', dl, asked)
    BY <2>5, <2>6, TablePut DEF SubInv
  <2>8. SubInv'
    BY <2>1, <2>5, <2>7 DEF SubInv, SubType, Table
  <2>9. QED  BY <2>1, <2>2, <2>8
<1>4. ASSUME NEW id \in JobIds, NEW d \in DlIds, SubCreated(id, d)
      PROVE  StoreInv' /\ TorBoxInv' /\ SubInv' /\ Grows
  <2> DEFINE row == [subTodo[id] EXCEPT !.state = "queued", !.tb = d]
  <2>1. Submitting(id) /\ subTodo \in [JobIds -> Row]
    BY <1>4 DEF SubCreated, SubInv, SubType
  <2>2. TorBoxInv' /\ Grows /\ dl'[d].job = id
    BY <1>4, <2>1, SubmittingOK, SubmittedOK DEF SubCreated
  <2>3. StoreInv'
    BY <1>4, <2>2, StoreKept DEF SubCreated, StoreInv
  <2>4. WellFormed(dl', asked', id, row)
    <3>1. d \in Nat \ {0}
      BY TorBoxAssumption DEF DlIds
    <3>2. subTodo[id] \in Row /\ subTodo[id].nzb \in Nzbs
      BY <2>1, SubmittingOK
    <3>3. QED  BY <2>2, <3>1, <3>2 DEF WellFormed, Row, States, Submitted
  <2>5. Table(subTodo, dl', asked')
    BY <2>2, TableKept DEF SubInv, Grows
  <2>6. subTodo' = [subTodo EXCEPT ![id] = row] /\ subPc' = "save" /\ UNCHANGED subCooling
    BY <1>4, <2>1 DEF SubCreated, SubOutcome, Row
  <2>7. Table(subTodo', dl', asked')
    BY <2>4, <2>5, <2>6, TablePut
  <2>8. SubInv'
    BY <2>6, <2>7 DEF SubInv, SubType, Table
  <2>9. QED  BY <2>2, <2>3, <2>8
<1>5. ASSUME NEW id \in JobIds, NEW d \in DlIds, SubAnswerLost(id, d)
      PROVE  StoreInv' /\ TorBoxInv' /\ SubInv' /\ Grows
  <2>1. TorBoxInv' /\ Grows
    BY <1>5, SubmittingOK, SubmittedOK DEF SubAnswerLost
  <2>2. StoreInv' /\ SubInv'
    BY <1>5, <2>1, StoreKept, SubKept, FaultType DEF SubAnswerLost, StoreInv
  <2>3. QED  BY <2>1, <2>2
<1>6. ASSUME NEW id \in JobIds, SubSave(id)
      PROVE  StoreInv' /\ TorBoxInv' /\ SubInv' /\ Grows
  <2>1. Grows /\ UNCHANGED <<dl, torboxVars>> /\ subCooling' \in BOOLEAN
    BY <1>6 DEF SubSave, Grows, torboxVars, SubInv, SubType
  <2>2. StoreInv' /\ TorBoxInv'
    BY <1>6, <2>1, SubmittingOK, PersistKept, TorBoxKept DEF SubSave
  <2>3. SubInv'
    <3>1. Table(NoRows, dl, asked) /\ Table(Without(subTodo, id), dl, asked)
      BY TableNoRows, TableWithout DEF SubInv
    <3>2. SubAdvance(NoRows) \/ SubAdvance(Without(subTodo, id))
      BY <1>6 DEF SubSave
    <3>3. QED  BY <2>1, <3>1, <3>2, SubAdvanceOK
  <2>4. QED  BY <2>1, <2>2, <2>3
<1>7. CASE SubCooldownEnds
  <2>1. Grows /\ UNCHANGED <<dl, storeVars, torboxVars>>
    BY <1>7 DEF SubCooldownEnds, Grows, torboxVars
  <2>2. StoreInv' /\ TorBoxInv'
    BY <1>7, <2>1, StoreKept, TorBoxKept DEF SubCooldownEnds, StoreInv
  <2>3. SubInv'
    BY <1>7, <2>1 DEF SubCooldownEnds, SubInv, SubType, Table
  <2>4. QED  BY <2>1, <2>2, <2>3
<1>8. QED  BY <1>1, <1>2, <1>3, <1>4, <1>5, <1>6, <1>7 DEF SubmitOnce, SubStep

-----------------------------------------------------------------------------
(* The poller *)

\* The states of the poller's copies.
Followed == activeStates \cup {"completed"}

\* The job being polled is a row, and its copy names a download it owns.
LEMMA PollingOK ==
    ASSUME PolInv, TorBoxInv, NEW id \in JobIds, Polling(id)
    PROVE  /\ WellFormed(dl, asked, id, polTodo[id])
           /\ polTodo[id].state \in Followed
           /\ polTodo[id].tb \in DlIds
           /\ dl[polTodo[id].tb].release \in Releases
<1>1. /\ WellFormed(dl, asked, id, polTodo[id])
      /\ polTodo[id].state \in Followed
  BY DEF PolInv, Table, Polling, Oldest, Followed
<1>2. polTodo[id].tb \in DlIds /\ dl[polTodo[id].tb].job = id
  BY <1>1 DEF WellFormed, Followed, activeStates, Submitted
<1>3. id # 0
  BY DEF JobIds
<1>4. QED  BY <1>1, <1>2, <1>3 DEF TorBoxInv, Downloads

\* A job is done with: its copy is dropped.
LEMMA PolResultOK ==
    ASSUME PolInv, NEW id \in JobIds, NEW flags \in SUBSET {"ongoing", "awaiting"},
           PolResult(id, flags), missingPolls' \in [DlIds -> Nat], UNCHANGED <<dl, asked>>
    PROVE  PolInv'
<1>1. Table(polTodo', dl, asked)
  BY TableWithout DEF PolInv, PolResult
<1>2. \A i \in JobIds : polTodo'[i].state \in activeStates \cup {"completed", "absent"}
  BY NoRowType DEF PolInv, PolResult, Without, Table
<1>3. QED  BY <1>1, <1>2 DEF PolInv, PolType, PolResult, Table

\* The farm was built for a job: its copy is replaced by what will be written.
LEMMA PolLinkedOK ==
    ASSUME PolInv, NEW id \in JobIds, NEW flags \in SUBSET {"ongoing", "awaiting"},
           NEW row, WellFormed(dl, asked, id, row), row.state \in Followed,
           PolLinked(id, row, flags), missingPolls' \in [DlIds -> Nat], UNCHANGED asked
    PROVE  PolInv'
<1>1. UNCHANGED dl
  BY DEF PolLinked, torboxVars
<1>2. Table(polTodo', dl, asked)
  BY TablePut DEF PolInv, PolLinked
<1>3. \A i \in JobIds : polTodo'[i].state \in activeStates \cup {"completed", "absent"}
  BY DEF PolInv, PolLinked, Table, Followed
<1>4. QED  BY <1>1, <1>2, <1>3 DEF PolInv, PolType, PolLinked, Table

\* Giving the copy one of the states the poller writes keeps it well formed.
LEMMA PolRestated ==
    ASSUME PolInv, TorBoxInv, NEW id \in JobIds, Polling(id),
           NEW s \in {"failed", "downloading"}
    PROVE  WellFormed(dl, asked, id, [polTodo[id] EXCEPT !.state = s])
<1>1. polTodo[id].tb # 0 /\ polTodo[id].state # "absent"
  BY PollingOK, TorBoxAssumption DEF DlIds, Followed, activeStates
<1>2. QED  BY <1>1, PollingOK, RestatedWellFormed DEF States, Submitted

\* A step of the poller preserves the table, the account, the farm, its copies.
LEMMA PolStepOK ==
    ASSUME IInv, PollOnce
    PROVE  StoreInv' /\ TorBoxInv' /\ FarmType' /\ PolInv' /\ Grows
<1> USE DEF IInv
<1> UNCHANGED asked
  BY DEF PollOnce, apiVars
<1>0. UNCHANGED torboxVars /\ UNCHANGED dl
  BY DEF PollOnce, PolStep, PolLoad, PolNothing, PolListFails, PolListed, PolMissing, PolGone,
         PolFailed, PolOngoing, PolUnresolved, PolPremature, PolLink, PolLinkFails, PolLinked,
         PolSave, PolEnd, RefreshCooldownEnds, torboxVars
<1>a. TorBoxInv' /\ Grows
  BY <1>0, TorBoxKept DEF Grows
<1>b. missingPolls \in [DlIds -> Nat]
  BY DEF PolInv, PolType
<1>1. CASE PolLoad
  <2>1. StoreInv' /\ FarmType'
    BY <1>1, <1>a, StoreKept, FarmKept DEF PolLoad, StoreInv
  <2>2. Table(polTodo', dl, asked)
        /\ \A id \in JobIds : polTodo'[id].state \in activeStates \cup {"absent"}
    BY <1>1, TableByState DEF PolLoad, StoreInv, activeStates
  <2>3. PolInv'
    BY <1>0, <1>1, <2>2 DEF PolLoad, PolInv, PolType, Table
  <2>4. QED  BY <1>a, <2>1, <2>3
<1>2. CASE PolNothing
  <2>1. StoreInv' /\ FarmType'
    BY <1>2, <1>a, StoreKept, FarmKept DEF PolNothing, StoreInv
  <2>2. PolInv'
    BY <1>0, <1>2 DEF PolNothing, PolInv, PolType, Table, NoMisses
  <2>3. QED  BY <1>a, <2>1, <2>2
<1>3. CASE PolListFails
  <2>1. StoreInv' /\ FarmType'
    BY <1>3, <1>a, StoreKept, FarmKept, FaultType DEF PolListFails, StoreInv
  <2>2. PolInv'
    BY <1>0, <1>3, TableNoRows, NoRowType
    DEF PolListFails, PolReturn, PolInv, PolType, Table, NoList, NoRows
  <2>3. QED  BY <1>a, <2>1, <2>2
<1>4. CASE PolListed
  <2>1. StoreInv' /\ FarmType'
    BY <1>4, <1>a, StoreKept, FarmKept, FaultType DEF PolListed, StoreInv
  <2>2. polList' \in [DlIds -> Live \cup {"unlisted"}]
    BY <1>4 DEF PolListed, ListUsenet
  <2>3. missingPolls' \in [DlIds -> Nat]
    BY <1>4, <1>b DEF PolListed
  <2>4. PolInv'
    BY <1>0, <1>4, <2>2, <2>3 DEF PolListed, PolInv, PolType, Table
  <2>5. QED  BY <1>a, <2>1, <2>4
<1>5. ASSUME NEW id \in JobIds, PolMissing(id)
      PROVE  StoreInv' /\ FarmType' /\ PolInv'
  <2>1. StoreInv' /\ FarmType'
    BY <1>5, <1>a, StoreKept, FarmKept DEF PolMissing, StoreInv
  <2>2. missingPolls' \in [DlIds -> Nat]
    <3>1. polTodo[id].tb \in DlIds
      BY <1>5, PollingOK DEF PolMissing
    <3>2. QED  BY <1>5, <1>b, <3>1 DEF PolMissing
  <2>3. PolResult(id, {"ongoing"})
    BY <1>5 DEF PolMissing
  <2>4. PolInv'
    BY <1>0, <2>2, <2>3, PolResultOK
  <2>5. QED  BY <2>1, <2>4
<1>6. ASSUME NEW id \in JobIds, PolGone(id)
      PROVE  StoreInv' /\ FarmType' /\ PolInv'
  <2>1. StoreInv'
    <3>1. Persist(id, [polTodo[id] EXCEPT !.state = "failed"])
      BY <1>6 DEF PolGone, Persist
    <3>2. QED  BY <1>0, <1>6, <3>1, PolRestated, PersistKept DEF PolGone
  <2>2. FarmType'
    BY <1>6, FarmKept DEF PolGone
  <2>3. missingPolls' \in [DlIds -> Nat]
    <3>1. polTodo[id].tb \in DlIds
      BY <1>6, PollingOK DEF PolGone
    <3>2. QED  BY <1>6, <1>b, <3>1 DEF PolGone
  <2>4. PolResult(id, {}) \/ PolResult(id, {"ongoing"})
    BY <1>6 DEF PolGone
  <2>5. PolInv'
    BY <1>0, <2>3, <2>4, PolResultOK
  <2>6. QED  BY <2>1, <2>2, <2>5
<1>7. ASSUME NEW id \in JobIds, NEW status, Listed(id, status)
      PROVE  Polling(id) /\ missingPolls' \in [DlIds -> Nat]
  BY <1>7, <1>b DEF Listed
<1>8. ASSUME NEW id \in JobIds, PolFailed(id) \/ PolOngoing(id)
      PROVE  StoreInv' /\ FarmType' /\ PolInv'
  <2>1. Polling(id) /\ missingPolls' \in [DlIds -> Nat]
    BY <1>7, <1>8 DEF PolFailed, PolOngoing
  <2>2. PICK s \in {"failed", "downloading"} : Persist(id, [polTodo[id] EXCEPT !.state = s])
    BY <1>8 DEF PolFailed, PolOngoing
  <2>3. StoreInv'
    BY <1>0, <2>1, <2>2, PolRestated, PersistKept
  <2>4. FarmType'
    BY <1>8, FarmKept DEF PolFailed, PolOngoing
  <2>5. PolResult(id, {}) \/ PolResult(id, {"ongoing"})
    BY <1>8 DEF PolFailed, PolOngoing
  <2>6. PolInv'
    BY <1>0, <2>1, <2>5, PolResultOK
  <2>7. QED  BY <2>3, <2>4, <2>6
<1>9. ASSUME NEW id \in JobIds, PolUnresolved(id) \/ PolSave(id)
      PROVE  StoreInv' /\ FarmType' /\ PolInv'
  <2>1. Polling(id) /\ missingPolls' \in [DlIds -> Nat]
    BY <1>7, <1>9, <1>b DEF PolUnresolved, PolSave
  <2>2. StoreInv'
    BY <1>0, <1>9, <2>1, PollingOK, PersistKept DEF PolUnresolved, PolSave
  <2>3. FarmType'
    BY <1>9, FarmKept DEF PolUnresolved, PolSave
  <2>4. PolResult(id, {}) \/ PolResult(id, {"awaiting"})
    BY <1>9 DEF PolUnresolved, PolSave
  <2>5. PolInv'
    BY <1>0, <2>1, <2>4, PolResultOK
  <2>6. QED  BY <2>2, <2>3, <2>5
<1>10. ASSUME NEW id \in JobIds, PolPremature(id) \/ PolLink(id) \/ PolLinkFails(id)
       PROVE  StoreInv' /\ FarmType' /\ PolInv'
  <2> DEFINE r == dl[polTodo[id].tb].release
  <2> DEFINE done == [polTodo[id] EXCEPT !.state = "completed", !.path = r]
  <2>1. Polling(id) /\ missingPolls' \in [DlIds -> Nat]
    BY <1>7, <1>10 DEF PolPremature, PolLink, PolLinkFails
  <2>2. StoreInv'
    BY <1>10, <1>a, StoreKept, FaultType
    DEF PolPremature, PolLink, PolLinkFails, PolLinked, StoreInv, NoFault
  <2>3. FarmType'
    BY <1>10 DEF PolPremature, PolLink, PolLinkFails, PolLinked, FarmType, RemovedAll, Linked, Made,
             Emptied
  <2>4. \/ PolLinked(id, polTodo[id], {"awaiting"})
        \/ PolLinked(id, done, {})
    BY <1>10 DEF PolPremature, PolLink, PolLinkFails
  <2>5. WellFormed(dl, asked, id, done) /\ done.state \in Followed
    <3>1. polTodo[id] \in Row /\ r \in Releases /\ WellFormed(dl, asked, id, polTodo[id])
      BY <2>1, PollingOK DEF WellFormed
    <3>2. polTodo[id].tb # 0 /\ polTodo[id].nzb \in Nzbs
      BY <2>1, PollingOK, TorBoxAssumption DEF DlIds, WellFormed, Followed, activeStates
    <3>3. QED  BY <3>1, <3>2 DEF WellFormed, Row, States, Submitted, Followed
  <2>6. PolInv'
    BY <2>1, <2>4, <2>5, PollingOK, PolLinkedOK
  <2>7. QED  BY <2>2, <2>3, <2>6
<1>11. CASE PolEnd
  <2>1. StoreInv' /\ FarmType'
    BY <1>11, <1>a, StoreKept, FarmKept DEF PolEnd, StoreInv
  <2>2. PolInv'
    BY <1>0, <1>11, TableNoRows, NoRowType
    DEF PolEnd, PolReturn, PolInv, PolType, Table, NoList, NoRows, WantsRefresh
  <2>3. QED  BY <1>a, <2>1, <2>2
<1>12. CASE RefreshCooldownEnds
  <2>1. StoreInv' /\ FarmType'
    BY <1>12, <1>a, StoreKept, FarmKept DEF RefreshCooldownEnds, StoreInv
  <2>2. PolInv'
    BY <1>0, <1>12 DEF RefreshCooldownEnds, PolInv, PolType, Table
  <2>3. QED  BY <1>a, <2>1, <2>2
<1>13. QED
  BY <1>a, <1>1, <1>2, <1>3, <1>4, <1>5, <1>6, <1>8, <1>9, <1>10, <1>11, <1>12
  DEF PollOnce, PolStep

-----------------------------------------------------------------------------
(* The reaper *)

\* The copy of the row being looked at is of a completed job.
LEMMA DetectingOK ==
    ASSUME ReapInv, NEW id \in JobIds, Detecting(id)
    PROVE  /\ WellFormed(dl, asked, id, reapTodo[id])
           /\ reapTodo[id].state = "completed"
BY DEF ReapInv, Table, Detecting, Oldest

\* A step of the reaper preserves the table, the farm and its copies.
LEMMA ReapStepOK ==
    ASSUME IInv, ReapOnce
    PROVE  StoreInv' /\ TorBoxInv' /\ FarmType' /\ ReapInv' /\ Grows
<1> USE DEF IInv
<1> UNCHANGED asked
  BY DEF ReapOnce, apiVars
<1>0. UNCHANGED torboxVars /\ UNCHANGED dl
  BY DEF ReapOnce, ReapStep, ReapLoad, Imported, NotImported, Reap, SweepLoad, SweepLook,
         SweepRemove, SweepEnd, torboxVars
<1>a. TorBoxInv' /\ Grows
  BY <1>0, TorBoxKept DEF Grows
<1>1. CASE ReapLoad
  <2>1. StoreInv' /\ FarmType'
    BY <1>1, <1>a, StoreKept, FarmKept, FaultType DEF ReapLoad, StoreInv, NoFault
  <2>2. Table(reapTodo', dl, asked)
        /\ \A id \in JobIds : reapTodo'[id].state \in {"completed", "absent"}
    <3>1. Table(NoRows, dl, asked) /\ \A id \in JobIds : NoRows[id].state = "absent"
      BY TableNoRows, NoRowType DEF NoRows
    <3>2. QED  BY <1>1, <3>1, TableByState DEF ReapLoad, StoreInv
  <2>3. ReapInv'
    BY <1>0, <1>1, <2>2 DEF ReapLoad, ReapInv, ReapType, Table
  <2>4. QED  BY <1>a, <2>1, <2>3
<1>2. ASSUME NEW id \in JobIds, Imported(id) \/ NotImported(id)
      PROVE  StoreInv' /\ FarmType' /\ ReapInv'
  <2>1. StoreInv'
    <3>1. CASE Imported(id)
      <4>1. WellFormed(dl, asked, id, [reapTodo[id] EXCEPT !.state = "imported"])
        <5>1. reapTodo[id].tb # 0
          BY <3>1, DetectingOK DEF Imported, WellFormed, Submitted
        <5>2. QED  BY <3>1, <5>1, DetectingOK, RestatedWellFormed DEF Imported, States
      <4>2. QED  BY <1>0, <3>1, <4>1, PersistKept DEF Imported
    <3>2. CASE NotImported(id)
      BY <1>a, <3>2, StoreKept DEF NotImported, StoreInv
    <3>3. QED  BY <1>2, <3>1, <3>2
  <2>2. FarmType'
    BY <1>2, FarmKept DEF Imported, NotImported
  <2>3. reapTodo' = Without(reapTodo, id)
    BY <1>2 DEF Imported, NotImported
  <2>4. Table(reapTodo', dl, asked)
    BY <2>3, TableWithout DEF ReapInv
  <2>5. \A i \in JobIds : reapTodo'[i].state \in {"completed", "absent"}
    BY <2>3, NoRowType DEF ReapInv, Without, Table
  <2>6. ReapInv'
    BY <1>0, <1>2, <2>4, <2>5 DEF Imported, NotImported, ReapInv, ReapType, Table
  <2>7. QED  BY <2>1, <2>2, <2>6
<1>3. CASE Reap
  <2>1. StoreInv'
    <3>1. CASE ReapImported /\ NoFault
      <4>1. Table(jobs', dl, asked)
        BY <3>1, NoRowWellFormed, NoRowType DEF ReapImported, StoreInv, Table
      <4>2. QED  BY <1>0, <3>1, <4>1 DEF ReapImported, NoFault, StoreInv
    <3>2. CASE StoreError
      BY <1>a, <3>2, StoreKept, FaultType DEF StoreError, StoreInv
    <3>3. QED  BY <1>3, <3>1, <3>2 DEF Reap
  <2>2. FarmType'
    BY <1>3, FarmKept DEF Reap
  <2>3. ReapInv'
    BY <1>0, <1>3 DEF Reap, ReapInv, ReapType, Table
  <2>4. QED  BY <1>a, <2>1, <2>2, <2>3
<1>4. CASE SweepLoad
  <2>1. StoreInv' /\ FarmType'
    BY <1>4, <1>a, StoreKept, FarmKept, FaultType DEF SweepLoad, StoreInv, NoFault
  <2>2. ActiveStoragePaths \in SUBSET Releases
    BY DEF ActiveStoragePaths, StoreInv, Table, Row
  <2>3. ReapInv'
    BY <1>0, <1>4, <2>2 DEF SweepLoad, ReapInv, ReapType, Table
  <2>4. QED  BY <1>a, <2>1, <2>3
<1>5. ASSUME NEW r \in Releases, SweepLook(r)
      PROVE  StoreInv' /\ FarmType' /\ ReapInv'
  <2>1. StoreInv' /\ FarmType'
    BY <1>5, <1>a, StoreKept, FarmKept DEF SweepLook, StoreInv
  <2>2. ReapInv'
    BY <1>0, <1>5 DEF SweepLook, ReapInv, ReapType, Table
  <2>3. QED  BY <2>1, <2>2
<1>6. CASE SweepRemove
  <2>1. StoreInv'
    BY <1>6, <1>a, StoreKept DEF SweepRemove, StoreInv
  <2>2. FarmType'
    BY <1>6 DEF SweepRemove, FarmType, EmptyRemoved, RemovedIfEmpty, RemovedAll
  <2>3. ReapInv'
    BY <1>0, <1>6 DEF SweepRemove, ReapInv, ReapType, Table
  <2>4. QED  BY <1>a, <2>1, <2>2, <2>3
<1>7. CASE SweepEnd
  <2>1. StoreInv' /\ FarmType'
    BY <1>7, <1>a, StoreKept, FarmKept DEF SweepEnd, StoreInv
  <2>2. ReapInv'
    BY <1>0, <1>7 DEF SweepEnd, ReapReturn, ReapInv, ReapType, Table
  <2>3. QED  BY <1>a, <2>1, <2>2
<1>8. QED  BY <1>a, <1>1, <1>2, <1>3, <1>4, <1>5, <1>6, <1>7 DEF ReapOnce, ReapStep

-----------------------------------------------------------------------------
(* The world around the program, and its restarts *)

\* An import moves links; a day makes rows old.
LEMMA ClientOK ==
    ASSUME IInv, Import \/ DayPasses
    PROVE  StoreInv' /\ TorBoxInv' /\ FarmType' /\ Grows
<1> USE DEF IInv
<1>1. ASSUME NEW id \in JobIds, SonarrImport(id), UNCHANGED asked
      PROVE  StoreInv' /\ TorBoxInv' /\ FarmType' /\ Grows
  <2>1. Grows /\ UNCHANGED torboxVars
    BY <1>1 DEF SonarrImport, Grows, torboxVars
  <2>2. StoreInv' /\ TorBoxInv'
    BY <1>1, <2>1, StoreKept, TorBoxKept DEF SonarrImport, StoreInv
  <2>3. jobs[id].path \in Releases
    BY <1>1 DEF SonarrImport, StoreInv, Table, WellFormed
  <2>4. FarmType'
    BY <1>1, <2>3 DEF SonarrImport, FarmType, Emptied
  <2>5. QED  BY <2>1, <2>2, <2>4
<1>2. ASSUME NEW id \in JobIds, Age(id), UNCHANGED <<asked, torboxVars, farmVars>>
      PROVE  StoreInv' /\ TorBoxInv' /\ FarmType' /\ Grows
  <2>1. Grows /\ UNCHANGED dl
    BY <1>2 DEF Grows, torboxVars
  <2>2. QED  BY <1>2, <2>1, AgeOK, TorBoxKept, FarmKept
<1>3. QED  BY <1>1, <1>2 DEF Import, DayPasses, apiVars

\* After a restart every copy is gone.
LEMMA RestartOK == ASSUME IInv, Restart PROVE IInv'
<1> USE DEF IInv
<1>1. Grows /\ UNCHANGED <<dl, asked, storeVars, torboxVars, farmVars>>
  BY DEF Restart, Grows, torboxVars
<1>2. StoreInv' /\ TorBoxInv' /\ FarmType'
  BY <1>1, StoreKept, TorBoxKept, FarmKept, FaultType DEF Restart, StoreInv
<1>3. Table(NoRows, dl, asked) /\ \A id \in JobIds : NoRows[id].state = "absent"
  BY TableNoRows, NoRowType DEF NoRows
<1>4. ApiInv'
  BY <1>1, NoRowType DEF Restart, ApiInv, Serving, Idle, Request
<1>5. SubInv'
  BY <1>1, <1>3 DEF Restart, SubInv, SubType, Table
<1>6. PolInv'
  BY <1>1, <1>3 DEF Restart, PolReturn, PolInv, PolType, Table, NoList, NoMisses
<1>7. DelInv'
  BY <1>1, <1>3, DeleterAssumption DEF Restart, DelInv, DelType, Table, NoAttempts
<1>8. ReapInv'
  BY <1>1, <1>3 DEF Restart, ReapReturn, ReapInv, ReapType, Table
<1>9. QED  BY <1>2, <1>4, <1>5, <1>6, <1>7, <1>8

-----------------------------------------------------------------------------
(* The theorems *)

\* Every step preserves the inductive invariant: what the actor that moves
\* leaves alone stays true because claims on downloads only grow.
LEMMA NextIInv == ASSUME IInv, [Next]_vars PROVE IInv'
<1> USE DEF IInv
<1>1. CASE Api
  <2>1. StoreInv' /\ ApiInv' /\ Grows
    BY <1>1, ApiStep DEF Api, torboxVars
  <2>2. QED
    BY <1>1, <2>1, TorBoxKept, FarmKept, SubKept, PolKept, DelKept, ReapKept DEF Api, Grows
<1>2. CASE SubmitOnce
  <2>1. StoreInv' /\ TorBoxInv' /\ SubInv' /\ Grows
    BY <1>2, SubStepOK
  <2>2. QED
    BY <1>2, <2>1, FarmKept, ApiKept, PolKept, DelKept, ReapKept DEF SubmitOnce
<1>3. CASE PollOnce
  <2>1. StoreInv' /\ TorBoxInv' /\ FarmType' /\ PolInv' /\ Grows
    BY <1>3, PolStepOK
  <2>2. QED  BY <1>3, <2>1, ApiKept, SubKept, DelKept, ReapKept DEF PollOnce
<1>4. CASE DeleteOnce
  <2>1. StoreInv' /\ TorBoxInv' /\ FarmType' /\ DelInv' /\ Grows
    BY <1>4, DelStepOK DEF DeleteOnce, apiVars
  <2>2. QED  BY <1>4, <2>1, ApiKept, SubKept, PolKept, ReapKept DEF DeleteOnce
<1>5. CASE ReapOnce
  <2>1. StoreInv' /\ TorBoxInv' /\ FarmType' /\ ReapInv' /\ Grows
    BY <1>5, ReapStepOK
  <2>2. QED  BY <1>5, <2>1, ApiKept, SubKept, PolKept, DelKept DEF ReapOnce
<1>6. CASE OnTorBox
  <2>1. StoreInv' /\ TorBoxInv' /\ Grows
    BY <1>6, OnTorBoxOK DEF OnTorBox, apiVars
  <2>2. QED
    BY <1>6, <2>1, FarmKept, ApiKept, SubKept, PolKept, DelKept, ReapKept DEF OnTorBox
<1>7. CASE Import \/ DayPasses
  BY <1>7, ClientOK, ApiKept, SubKept, PolKept, DelKept, ReapKept DEF Import, DayPasses
<1>8. CASE Restart
  BY <1>8, RestartOK
<1>9. CASE UNCHANGED vars
  <2>1. Grows /\ UNCHANGED <<storeVars, torboxVars, farmVars, faults, apiVars, subVars,
                              polVars, delVars, reapVars>>
    BY <1>9 DEF vars, sharedVars, Grows, apiVars, torboxVars
  <2>2. QED
    BY <2>1, StoreKept, TorBoxKept, FarmKept, ApiKept, SubKept, PolKept, DelKept, ReapKept
    DEF StoreInv, Grows
<1>10. QED  BY <1>1, <1>2, <1>3, <1>4, <1>5, <1>6, <1>7, <1>8, <1>9 DEF Next

\* The inductive invariant holds throughout.
THEOREM Invariance == Spec => []IInv
BY InitIInv, NextIInv, PTL DEF Spec

\* The counts of absences and of failed look-ups keep their types.
AbsencesType == absences \in [DlIds -> Nat]
LookupsType == failedLookups \in [Nzbs -> Nat]
HistoryType == AbsencesType /\ LookupsType

LEMMA HistoryOK == ASSUME HistoryType, [Next]_vars PROVE HistoryType'
<1>1. Tally => AbsencesType'
  BY DEF Tally, AbsencesType, HistoryType
<1>2. UNCHANGED absences \/ absences' = NoMisses => AbsencesType'
  BY DEF AbsencesType, NoMisses, HistoryType
<1>3. TallyLookups => LookupsType'
  BY DEF TallyLookups, LookupsType, HistoryType
<1>4. UNCHANGED failedLookups => LookupsType'
  BY DEF LookupsType, HistoryType
<1>5. QED
  BY <1>1, <1>2, <1>3, <1>4
  DEF HistoryType, Next, Api, SubmitOnce, PollOnce, DeleteOnce, ReapOnce, OnTorBox, Import,
      DayPasses, Restart, vars, historyVars

LEMMA HistoryInvariance == Spec => []HistoryType
<1>1. Init => HistoryType
  BY DEF Init, HistoryType, AbsencesType, LookupsType, NoMisses
<1>2. QED  BY <1>1, HistoryOK, PTL DEF Spec

\* Every variable keeps its type, and deleteAttempts stays below the limit at
\* which deleteJob gives up.
THEOREM TypeCorrect == Spec => []TypeOK
<1>1. IInv /\ HistoryType => TypeOK
  BY DEF IInv, StoreInv, TorBoxInv, Downloads, ApiInv, SubInv, PolInv, DelInv, ReapInv,
         TypeOK, StoreType, TorBoxType, ApiType, Table, HistoryType,
         AbsencesType, LookupsType
<1>2. QED  BY <1>1, Invariance, HistoryInvariance, PTL

\* A submitted row always names a download created for it, although six actors
\* write whole rows back from copies of different ages.
THEOREM OwnershipCorrect == Spec => []RowOwnsItsDownload
<1>1. IInv => RowOwnsItsDownload
  BY DEF IInv, StoreInv, Table, WellFormed, RowOwnsItsDownload, Owns
<1>2. QED  BY <1>1, Invariance, PTL

\* The deleter never removes from TorBox what no client asked to delete with its
\* files, for any interleaving, number of crashes and failed writes.
THEOREM DeletionCorrect == Spec => []RemovedOnlyIfAsked
<1>1. IInv => RemovedOnlyIfAsked
  BY DEF IInv, TorBoxInv, Asked, RemovedOnlyIfAsked
<1>2. QED  BY <1>1, Invariance, PTL
=============================================================================
