----------------------------- MODULE OutcomeProofs -----------------------------
(***************************************************************************)
(* What becomes of a submitted job, for any number of rows, downloads and  *)
(* handlers: when the poller fails it, completes it or asks TorBox for a   *)
(* refresh, when the reaper takes it for imported, when the deleter drops  *)
(* it.                                                                     *)
(***************************************************************************)
EXTENDS CopyProofs

-----------------------------------------------------------------------------
(* Steps, seen from the account and the budget of faults *)

\* A fault is counted when it happens, and stays so.
FaultsGrow == faults' \in {faults, faults + 1}

LEMMA StepFaults == ASSUME [Next]_vars PROVE FaultsGrow
<1>1. \A kind : Fault(kind) => FaultsGrow
  BY DEF Fault, FaultsGrow
<1>2. UNCHANGED faults => FaultsGrow
  BY DEF FaultsGrow
<1>3. StoreError => FaultsGrow
  BY <1>1 DEF StoreError
<1>4. \A id, row : Persist(id, row) => FaultsGrow
  BY <1>2, <1>3 DEF Persist, NoFault
<1>5. CASE Api
  BY <1>1, <1>2, <1>3, <1>4, <1>5
  DEF Api, ApiNext, AddFind, NotFound, AddCreate, DelRead, DelWrite, NoFault
<1>6. CASE SubmitOnce
  BY <1>1, <1>2, <1>3, <1>4, <1>6
  DEF SubmitOnce, SubStep, SubLoad, SubMark, SubRefused, SubLimited, SubCreated, SubAnswerLost,
      SubSave, SubCooldownEnds, NoFault
<1>7. CASE PollOnce
  BY <1>1, <1>2, <1>3, <1>4, <1>7
  DEF PollOnce, PolStep, PolLoad, PolNothing, PolListFails, PolListed, PolMissing, PolGone,
      PolFailed, PolOngoing, PolUnresolved, PolPremature, PolLink, PolLinkFails, PolSave, PolEnd,
      RefreshCooldownEnds, NoFault
<1>8. CASE DeleteOnce
  BY <1>1, <1>2, <1>3, <1>8
  DEF DeleteOnce, DelStep, DelLoad, DelNothing, DelRemoved, DelRefused, ControlFails, DelDir,
      DelRow, NoFault
<1>9. CASE ReapOnce
  BY <1>1, <1>2, <1>3, <1>4, <1>9
  DEF ReapOnce, ReapStep, ReapLoad, Imported, NotImported, Reap, SweepLoad, SweepLook,
      SweepRemove, SweepEnd, NoFault
<1>10. CASE OnTorBox \/ Import \/ DayPasses \/ Restart \/ UNCHANGED vars
  BY <1>1, <1>2, <1>10
  DEF OnTorBox, TorBoxNext, Finish, Break, Vanish, Surface, Unsurface, Import, SonarrImport,
      DayPasses, Age, Restart, vars, sharedVars
<1>11. QED  BY <1>5, <1>6, <1>7, <1>8, <1>9, <1>10 DEF Next

\* A download somebody has a name for is no new one, and gets no better.
LEMMA OwnedDownload ==
    ASSUME IInv, [Next]_vars, NEW d \in DlIds, dl[d].job # 0
    PROVE  /\ dl'[d].job = dl[d].job
           /\ dl'[d].status \in Live => dl[d].status \in Live
           /\ dl'[d].status \in {"working", "ready"} => dl[d].status \in {"working", "ready"}
<1>1. dl[d].status # "unused"
  BY DEF IInv, TorBoxInv, Downloads
<1>2. Moves(d)
  BY <1>1, StepDownloads DEF Starts
<1>3. QED  BY <1>1, <1>2 DEF Moves, Live

\* The name a row or a copy has is that of a download submitted for it.
LEMMA NamedDownload ==
    ASSUME NEW rows, Table(rows, dl, asked), NEW id \in JobIds, rows[id].tb # 0
    PROVE  rows[id].tb \in DlIds /\ dl[rows[id].tb].job = id /\ id # 0
BY DEF Table, WellFormed, JobIds

-----------------------------------------------------------------------------
(* Failed only after absences *)

Running == {"working", "ready"}

\* A job of this tick has a download that the answer leaves out, or lists.
Owed(d) == polPc \in {"job", "save"} /\ polList[d] = "unlisted" /\ StillActive(d)
Answered(d) == polPc \in {"job", "save"} /\ polList[d] # "unlisted" /\ StillActive(d)

\* The poller counts no more polls than there were absences in a row, and fewer when
\* it is yet to count one; but it may be yet to clear a counter, and has done so for
\* the job it writes.
MissedInv ==
    /\ \A d \in DlIds : ~Answered(d) => /\ missingPolls[d] <= absences[d]
                                        /\ Owed(d) => missingPolls[d] < absences[d]
    /\ polPc = "save" => \A id \in JobIds : Polling(id) => missingPolls[polTodo[id].tb] = 0

\* What the tick takes for failed has failed.
ListedInv == \A d \in DlIds : polPc \in {"job", "save"} /\ polList[d] = "failed"
                                 => dl[d].status \notin Running \cup {"unused"}

LostInv == HistoryType /\ MissedInv /\ ListedInv

\* A download of the tick has one job, whose copy is dropped when it is done.
LEMMA DoneIsSettled ==
    ASSUME PolInv, TorBoxInv, NEW id \in JobIds, Polling(id), polTodo' = Without(polTodo, id)
    PROVE  \A d \in DlIds : StillActive(d)' <=> StillActive(d) /\ d # polTodo[id].tb
<1>1. /\ polTodo \in [JobIds -> Row]
      /\ polTodo[id].tb \in DlIds /\ dl[polTodo[id].tb].job = id
  BY PollingOK DEF PolInv, PolType, WellFormed, Followed, activeStates, Submitted
<1>2. \A i \in JobIds : polTodo'[i].state # "absent" => i # id /\ polTodo'[i] = polTodo[i]
  BY <1>1, NoRowType DEF Without
<1>3. ASSUME NEW i \in JobIds, polTodo'[i].state # "absent", polTodo'[i].tb = polTodo[id].tb
      PROVE  FALSE
  BY <1>1, <1>2, <1>3, TorBoxAssumption DEF PolInv, Table, WellFormed, DlIds
<1>4. \A i \in JobIds : i # id => polTodo'[i] = polTodo[i]
  BY <1>1 DEF Without
<1>5. QED  BY <1>2, <1>3, <1>4 DEF StillActive

\* A step of the poller counts an absence that Tally counts too, or clears a counter.
LEMMA MissedPolled ==
    ASSUME IInv, AbsencesType, MissedInv, PollOnce
    PROVE  MissedInv'
<1>0. /\ missingPolls \in [DlIds -> Nat] /\ polTodo \in [JobIds -> Row]
      /\ absences \in [DlIds -> Nat] /\ Tally
  BY DEF IInv, PolInv, PolType, AbsencesType, PollOnce
<1>1. ASSUME NEW id \in JobIds, Polling(id)
      PROVE  polTodo[id].tb \in DlIds /\ polTodo[id].state # "absent"
  BY <1>1, PollingOK DEF IInv, WellFormed, Followed, activeStates, Submitted, Polling, Oldest
<1>2. ASSUME polPc' \notin {"job", "save"}, polPc \notin {"job", "save"} \/ polTodo = NoRows,
             missingPolls' = missingPolls \/ missingPolls' = NoMisses
      PROVE  MissedInv'
  <2>1. absences' = absences
    BY <1>0, <1>2 DEF Tally
  <2>2. \A d \in DlIds : ~Answered(d)
    BY <1>2, NoRowType DEF Answered, StillActive, NoRows
  <2>3. QED  BY <1>0, <1>2, <2>1, <2>2 DEF MissedInv, Owed, NoMisses
<1>3. CASE PolLoad \/ PolNothing \/ PolListFails \/ PolEnd
  <2>1. CASE PolLoad \/ PolListFails \/ PolEnd
    BY <1>2, <2>1 DEF PolLoad, PolListFails, PolEnd, PolReturn
  <2>2. CASE PolNothing
    BY <1>2, <2>2 DEF PolNothing
  <2>3. QED  BY <1>3, <2>1, <2>2
<1>4. CASE PolListed
  <2>1. /\ polPc = "list" /\ polPc' = "job" /\ polTodo' = polTodo
        /\ missingPolls' = [d \in DlIds |-> IF StillActive(d) THEN missingPolls[d] ELSE 0]
        /\ absences' = [d \in DlIds |-> IF StillActive(d) /\ polList'[d] = "unlisted"
                                        THEN absences[d] + 1 ELSE 0]
    BY <1>0, <1>4 DEF PolListed, Tally
  <2>2. ASSUME NEW d \in DlIds, ~Answered(d)'
        PROVE  missingPolls'[d] <= absences'[d] /\ (Owed(d)' => missingPolls'[d] < absences'[d])
    <3>1. missingPolls[d] <= absences[d]
      BY <2>1 DEF MissedInv, Answered
    <3>2. StillActive(d)' <=> StillActive(d)
      BY <2>1 DEF StillActive
    <3>3. CASE StillActive(d)
      <4>1. polList'[d] = "unlisted"
        BY <2>1, <2>2, <3>2, <3>3 DEF Answered
      <4>2. missingPolls'[d] = missingPolls[d] /\ absences'[d] = absences[d] + 1
        BY <2>1, <3>3, <4>1
      <4>3. QED  BY <1>0, <3>1, <4>2
    <3>4. CASE ~StillActive(d)
      <4>1. missingPolls'[d] = 0 /\ absences'[d] = 0 /\ ~Owed(d)'
        BY <2>1, <3>2, <3>4 DEF Owed
      <4>2. QED  BY <4>1
    <3>5. QED  BY <3>3, <3>4
  <2>3. QED  BY <2>1, <2>2 DEF MissedInv
<1>5. ASSUME NEW id \in JobIds, Polling(id), polPc \in {"job", "save"}, polPc' = "job",
             polTodo' = Without(polTodo, id), polList' = polList,
             \/ missingPolls' = [missingPolls EXCEPT ![polTodo[id].tb] = 0]
             \/ missingPolls' = missingPolls /\ missingPolls[polTodo[id].tb] = 0
             \/ /\ polList[polTodo[id].tb] = "unlisted"
                /\ missingPolls' = [missingPolls EXCEPT ![polTodo[id].tb] = @ + 1]
      PROVE  MissedInv'
  <2> DEFINE d == polTodo[id].tb
  <2>1. d \in DlIds /\ StillActive(d) /\ absences' = absences
    BY <1>0, <1>1, <1>5 DEF StillActive, Tally
  <2>2. \A e \in DlIds : StillActive(e)' <=> StillActive(e) /\ e # d
    BY <1>5, DoneIsSettled DEF IInv
  <2>3. ASSUME NEW e \in DlIds, e # d
        PROVE  missingPolls'[e] = missingPolls[e] /\ Owed(e)' = Owed(e)
               /\ Answered(e)' = Answered(e)
    BY <1>0, <1>5, <2>1, <2>2, <2>3 DEF Owed, Answered
  <2>4. \A e \in DlIds : e = d => ~Owed(e)' /\ ~Answered(e)'
    BY <1>5, <2>2 DEF Owed, Answered
  <2>5. \/ missingPolls'[d] = 0
        \/ Owed(d) /\ ~Answered(d) /\ missingPolls'[d] = missingPolls[d] + 1
    BY <1>0, <1>5, <2>1 DEF Owed, Answered
  <2>6. missingPolls'[d] <= absences'[d]
    BY <1>0, <2>1, <2>5 DEF MissedInv
  <2> HIDE DEF d
  <2>7. QED
    <3>1. ASSUME NEW e \in DlIds, ~Answered(e)'
          PROVE  /\ missingPolls'[e] <= absences'[e]
                 /\ Owed(e)' => missingPolls'[e] < absences'[e]
      BY <2>1, <2>3, <2>4, <2>6, <3>1 DEF MissedInv
    <3>2. QED  BY <1>5, <3>1 DEF MissedInv
<1>6. ASSUME NEW id \in JobIds,
             PolMissing(id) \/ PolGone(id) \/ PolFailed(id) \/ PolOngoing(id) \/ PolUnresolved(id)
      PROVE  MissedInv'
  BY <1>5, <1>6
  DEF PolMissing, PolGone, PolFailed, PolOngoing, PolUnresolved, PolResult, Listed
<1>7. ASSUME NEW id \in JobIds, PolPremature(id) \/ PolLink(id) \/ PolLinkFails(id)
      PROVE  MissedInv'
  <2>1. /\ Polling(id) /\ polPc = "job" /\ polPc' = "save" /\ polList' = polList
        /\ missingPolls' = [missingPolls EXCEPT ![polTodo[id].tb] = 0]
        /\ absences' = absences
    BY <1>0, <1>7 DEF PolPremature, PolLink, PolLinkFails, PolLinked, Listed, Tally
  <2>2. PICK row : /\ polTodo' = [polTodo EXCEPT ![id] = row]
                   /\ row.tb = polTodo[id].tb /\ row.state # "absent"
    <3>1. CASE PolPremature(id) \/ PolLinkFails(id)
      <4>1. polTodo' = [polTodo EXCEPT ![id] = polTodo[id]]
        BY <3>1 DEF PolPremature, PolLinkFails, PolLinked
      <4>2. QED  BY <1>1, <2>1, <4>1
    <3>2. CASE PolLink(id)
      <4> DEFINE new == [polTodo[id] EXCEPT !.state = "completed",
                                            !.path = dl[polTodo[id].tb].release]
      <4>1. polTodo' = [polTodo EXCEPT ![id] = new]
        BY <3>2 DEF PolLink, PolLinked
      <4>2. new.tb = polTodo[id].tb /\ new.state = "completed"
        BY <1>0 DEF Row
      <4> HIDE DEF new
      <4>3. QED  BY <4>1, <4>2
    <3>3. QED  BY <1>7, <3>1, <3>2
  <2>3. \A d \in DlIds : StillActive(d)' <=> StillActive(d)
    BY <1>0, <1>1, <2>1, <2>2 DEF StillActive
  <2>4. \A d \in DlIds : /\ missingPolls'[d] \in {0, missingPolls[d]}
                         /\ Owed(d)' <=> Owed(d)
                         /\ Answered(d)' <=> Answered(d)
    BY <1>0, <1>1, <2>1, <2>3 DEF Owed, Answered
  <2>5. ASSUME NEW i \in JobIds, Polling(i)' PROVE missingPolls'[polTodo'[i].tb] = 0
    <3>1. i = id
      BY <1>0, <1>1, <2>1, <2>2, <2>5 DEF Polling, Oldest, JobIds
    <3>2. QED  BY <1>0, <1>1, <2>1, <2>2, <3>1
  <2>6. QED  BY <1>0, <2>1, <2>4, <2>5 DEF MissedInv
<1>8. ASSUME NEW id \in JobIds, PolSave(id)
      PROVE  MissedInv'
  BY <1>5, <1>8 DEF PolSave, PolResult, MissedInv
<1>9. CASE RefreshCooldownEnds
  BY <1>0, <1>9 DEF RefreshCooldownEnds, MissedInv, Owed, Answered, StillActive, Polling, Oldest, Tally
<1>10. QED  BY <1>3, <1>4, <1>6, <1>7, <1>8, <1>9 DEF PollOnce, PolStep

\* The list is not older than the failure it tells of.
LEMMA NextListed ==
    ASSUME IInv, ListedInv, [Next]_vars
    PROVE  ListedInv'
<1>1. ASSUME NEW d \in DlIds, dl[d].status \notin Running \cup {"unused"}
      PROVE  dl'[d].status \notin Running \cup {"unused"}
  BY <1>1, StepDownloads DEF Moves, Starts, Running, Live, IInv, TorBoxInv, Downloads, Download
<1>2. CASE polList' = polList /\ (polPc' \in {"job", "save"} => polPc \in {"job", "save"})
  BY <1>1, <1>2 DEF ListedInv
<1>3. CASE polPc' \notin {"job", "save"}
  BY <1>3 DEF ListedInv
<1>4. CASE PolListed
  BY <1>1, <1>4 DEF PolListed, ListUsenet, ListedInv, Running
<1>5. CASE PollOnce
  <2>1. ASSUME NEW id \in JobIds,
               \/ PolMissing(id) \/ PolGone(id) \/ PolFailed(id) \/ PolOngoing(id)
               \/ PolUnresolved(id) \/ PolSave(id)
        PROVE  ListedInv'
    BY <1>2, <2>1
    DEF PolMissing, PolGone, PolFailed, PolOngoing, PolUnresolved, PolSave, PolResult, Listed
  <2>2. ASSUME NEW id \in JobIds, PolPremature(id) \/ PolLink(id) \/ PolLinkFails(id)
        PROVE  ListedInv'
    BY <1>2, <2>2 DEF PolPremature, PolLink, PolLinkFails, PolLinked, Listed
  <2>3. CASE PolLoad \/ PolNothing \/ PolListFails \/ PolEnd \/ RefreshCooldownEnds
    BY <1>2, <1>3, <2>3
    DEF PolLoad, PolNothing, PolListFails, PolEnd, PolReturn, RefreshCooldownEnds
  <2>4. QED  BY <1>4, <1>5, <2>1, <2>2, <2>3 DEF PollOnce, PolStep
<1>6. CASE Restart
  BY <1>3, <1>6 DEF Restart, PolReturn
<1>7. QED
  BY <1>2, <1>5, <1>6
  DEF Next, Api, SubmitOnce, DeleteOnce, ReapOnce, OnTorBox, Import, DayPasses, vars, polVars

\* The poller gives a row another state in three of its steps, and then that of
\* its copy; it fails rows in two of them only.
LEMMA PolFails ==
    ASSUME IInv, PollOnce, NEW id \in JobIds, jobs'[id].state = "failed", jobs[id].state # "failed"
    PROVE  PolGone(id) \/ PolFailed(id)
<1>0. jobs \in [JobIds -> Row] /\ polTodo \in [JobIds -> Row]
  BY DEF IInv, StoreInv, Table, PolInv, PolType
<1>1. ASSUME NEW i \in JobIds, NEW row \in Row, Persist(i, row)
      PROVE  i = id /\ row.state = "failed"
  BY <1>0, <1>1, PersistedRow DEF Alone
<1>2. ASSUME NEW i \in JobIds, NEW s \in {"failed", "downloading"},
             Persist(i, [polTodo[i] EXCEPT !.state = s])
      PROVE  i = id /\ s = "failed"
  <2> DEFINE row == [polTodo[i] EXCEPT !.state = s]
  <2>1. row \in Row /\ row.state = s
    BY <1>0 DEF Row, States
  <2>2. QED  BY <1>1, <1>2, <2>1
<1>3. ASSUME NEW i \in JobIds, PolOngoing(i)
      PROVE  FALSE
  BY <1>2, <1>3 DEF PolOngoing
<1>4. ASSUME NEW i \in JobIds, PolUnresolved(i) \/ PolSave(i)
      PROVE  FALSE
  <2>1. polTodo[i].state \in Followed
    BY <1>4, PollingOK DEF PolUnresolved, PolSave, Listed, IInv
  <2>2. polTodo[i].state = "failed"
    BY <1>0, <1>1, <1>4 DEF PolUnresolved, PolSave
  <2>3. QED  BY <2>1, <2>2 DEF Followed, activeStates
<1>5. ASSUME NEW i \in JobIds, PolGone(i) \/ PolFailed(i)
      PROVE  PolGone(id) \/ PolFailed(id)
  <2>1. Persist(i, [polTodo[i] EXCEPT !.state = "failed"])
    BY <1>5 DEF PolGone, PolFailed, Persist
  <2>2. i = id
    BY <1>2, <2>1
  <2>3. QED  BY <1>5, <2>2
<1>6. ASSUME NEW i \in JobIds, PolMissing(i) \/ PolPremature(i) \/ PolLink(i) \/ PolLinkFails(i)
      PROVE  jobs' = jobs
  BY <1>6 DEF PolMissing, PolPremature, PolLink, PolLinkFails, PolLinked, storeVars
<1>7. CASE PolLoad \/ PolNothing \/ PolListFails \/ PolListed \/ PolEnd \/ RefreshCooldownEnds
  BY <1>7 DEF PolLoad, PolNothing, PolListFails, PolListed, PolEnd, RefreshCooldownEnds, storeVars
<1>8. QED  BY <1>3, <1>4, <1>5, <1>6, <1>7 DEF PollOnce, PolStep

\* A row fails with the name of a download only when the poller writes it: the
\* list says so, or the counter has reached its threshold.
LEMMA FailedRows ==
    ASSUME IInv, CopiesInv, [Next]_vars, NEW id \in JobIds,
           jobs'[id].state = "failed", jobs'[id].tb # 0
    PROVE  /\ jobs[id].tb = jobs'[id].tb
           /\ \/ jobs[id].state = "failed"
              \/ PollOnce /\ (PolGone(id) \/ PolFailed(id)) /\ polTodo[id].tb = jobs'[id].tb
<1> DEFINE Goal == /\ jobs[id].tb = jobs'[id].tb
                   /\ \/ jobs[id].state = "failed"
                      \/ PollOnce /\ (PolGone(id) \/ PolFailed(id)) /\ polTodo[id].tb = jobs'[id].tb
<1> SUFFICES Goal
  OBVIOUS
<1>1. CASE Withdrawn(id)
  BY <1>1 DEF Withdrawn, SameJob
<1>2. CASE Tracked(id) /\ ~Withdrawn(id)
  <2>1. /\ SameJob(id) /\ polTodo[id].state # "absent" /\ jobs[id].state # "failed" /\ Exists(id)
    BY <1>2 DEF Tracked, Exists
  <2>2. polTodo[id].tb = jobs'[id].tb
    <3>1. polTodo[id].tb # 0
      BY <2>1, TorBoxAssumption DEF IInv, PolInv, Table, WellFormed, activeStates, Submitted
    <3>2. QED  BY <2>1, <3>1 DEF CopiesInv, PolFollows, Agrees, Exists, SameJob
  <2>3. jobs' # jobs
    BY <1>2, UnchangedRow
  <2>4. PollOnce
    BY <1>2, ApiRows, SubRows, ReapRows, DelRows, WorldRows, ReapedRows, <2>1, <2>3
    DEF Next, vars, sharedVars, storeVars, Alone, Created, Sent, Taken, Withdrawn
  <2>5. QED  BY <2>1, <2>2, <2>4, PolFails DEF SameJob
<1>3. QED  BY <1>1, <1>2, StepChanges DEF Changed, Created, Sent, Taken

LEMMA NextLost ==
    ASSUME IInv, LostInv, [Next]_vars
    PROVE  LostInv'
<1>1. MissedInv'
  <2>1. CASE UNCHANGED <<polVars, absences>>
    BY <2>1 DEF LostInv, MissedInv, polVars, Owed, Answered, StillActive, Polling, Oldest
  <2>2. CASE PollOnce
    BY <2>2, MissedPolled DEF LostInv, HistoryType
  <2>3. CASE Restart
    BY <2>3 DEF Restart, PolReturn, NoMisses, MissedInv, Owed
  <2>4. QED
    BY <2>1, <2>2, <2>3
    DEF Next, Api, SubmitOnce, DeleteOnce, ReapOnce, OnTorBox, Import, DayPasses, vars,
        historyVars
<1>2. ListedInv'
  BY NextListed DEF LostInv
<1>3. HistoryType'
  BY HistoryOK DEF LostInv
<1>4. QED  BY <1>1, <1>2, <1>3 DEF LostInv

\* A step that fails a job although its download is working or done comes after
\* missingPollThreshold absences in a row.
LEMMA FailsAfterAbsences ==
    ASSUME IInv, CopiesInv, LostInv, [Next]_vars, NEW id \in JobIds,
           jobs[id].state # "failed", jobs'[id].state = "failed", jobs'[id].tb # 0,
           dl[jobs'[id].tb].status \in Running
    PROVE  absences[jobs'[id].tb] >= missingPollThreshold
<1> DEFINE d == jobs'[id].tb
<1>1. d \in DlIds /\ jobs[id].tb = d
  BY FailedRows, NamedDownload DEF IInv, StoreInv
<1>2. polTodo[id].tb = d /\ (PolGone(id) \/ PolFailed(id))
  BY FailedRows
<1>3. ~PolFailed(id)
  BY <1>1, <1>2 DEF PolFailed, Listed, LostInv, ListedInv
<1>4. /\ polPc = "job" /\ polTodo[id].state # "absent" /\ polList[d] = "unlisted"
      /\ missingPolls[d] + 1 >= missingPollThreshold
  BY <1>2, <1>3 DEF PolGone, MissingTooLong, Polling, Oldest
<1>5. Owed(d) /\ ~Answered(d)
  BY <1>1, <1>2, <1>4 DEF Owed, Answered, StillActive
<1>6. missingPolls[d] < absences[d]
  BY <1>1, <1>5 DEF LostInv, MissedInv
<1>7. missingPolls[d] \in Nat /\ absences[d] \in Nat /\ missingPollThreshold \in Nat
  BY <1>1, PollerAssumption DEF LostInv, HistoryType, AbsencesType, IInv, PolInv, PolType
<1> HIDE DEF d
<1>8. absences[d] >= missingPollThreshold
  BY <1>4, <1>6, <1>7
<1>9. QED  BY <1>8 DEF d

\* A download that is on the account, working or done, makes its job fail only when
\* missingPollThreshold answers in a row have left it out, whatever calls, writes,
\* restarts and other jobs' absences come between: the counter is cleared by every
\* answer that has it, before it could be read again.
THEOREM FailuresAreReal == Spec => FailedOnlyAfterAbsences
<1>1. Init => LostInv
  BY DEF Init, PolInit, LostInv, MissedInv, ListedInv, HistoryType, AbsencesType, LookupsType,
         NoMisses, Owed
<1>2. IInv /\ LostInv /\ [Next]_vars => LostInv'
  BY NextLost
<1>3. IInv /\ CopiesInv /\ LostInv /\ [Next]_vars
      => [\A id \in JobIds : /\ jobs[id].state # "failed" /\ jobs'[id].state = "failed"
                             /\ jobs'[id].tb # 0
                             /\ dl[jobs'[id].tb].status \in {"working", "ready"}
                             => absences[jobs'[id].tb] >= missingPollThreshold]_vars
  BY FailsAfterAbsences DEF Running
<1>4. QED  BY <1>1, <1>2, <1>3, Invariance, CopiesCorrect, PTL DEF Spec, FailedOnlyAfterAbsences

-----------------------------------------------------------------------------
(* Refresh only when idle *)

\* A row already downloading whose download the list shows working has been
\* counted by this tick, or is still to be looked at; and what was linked was not
\* working.
TickInv == /\ polPc # "idle" =>
                 \A id \in JobIds : /\ jobs[id].state = "downloading"
                                    /\ polPc = "list" \/ polList[jobs[id].tb] = "working"
                                    => "ongoing" \in polFlags \/ polTodo[id].state # "absent"
           /\ polPc = "save" => \A id \in JobIds : Polling(id) => polList[polTodo[id].tb] = "ready"

\* While the poller waits no row begins to download.
LEMMA DownloadingRows ==
    ASSUME IInv, CopiesInv, [Next]_vars, ~PollOnce, NEW id \in JobIds,
           jobs'[id].state = "downloading"
    PROVE  jobs[id].state = "downloading" /\ jobs'[id].tb = jobs[id].tb
<1> DEFINE Goal == jobs[id].state = "downloading" /\ jobs'[id].tb = jobs[id].tb
<1> SUFFICES Goal
  OBVIOUS
<1>1. ASSUME Withdrawn(id) PROVE Goal
  BY <1>1 DEF Withdrawn, SameJob
<1>2. ~Created(id) /\ ~Sent(id) /\ ~Taken(id)
  BY DEF Created, Sent, Taken
<1>3. CASE Api
  BY <1>1, <1>2, <1>3, ApiRows, OneRow, UnchangedRow
<1>4. CASE SubmitOnce
  BY <1>1, <1>2, <1>4, SubRows, OneRow, UnchangedRow
<1>5. CASE ReapOnce
  BY <1>1, <1>2, <1>5, ReapRows, ReapedRows, OneRow, UnchangedRow
<1>6. CASE DeleteOnce
  BY <1>1, <1>2, <1>6, DelRows, OneRow, UnchangedRow
<1>7. CASE OnTorBox \/ Import \/ DayPasses \/ Restart
  BY <1>1, <1>2, <1>7, WorldRows, OneRow, UnchangedRow
<1>8. CASE UNCHANGED vars
  BY <1>1, <1>8, UnchangedRow DEF vars, sharedVars, storeVars
<1>9. QED  BY <1>3, <1>4, <1>5, <1>6, <1>7, <1>8 DEF Next

\* While the poller is at a job, the rows of the others stay as they are.
LEMMA PolledRows ==
    ASSUME IInv, CopiesInv, PollOnce, NEW id \in JobIds, Polling(id), NEW i \in JobIds, i # id
    PROVE  jobs'[i] = jobs[i]
BY PolRows, OldestUnique DEF Polling, Alone

\* The row of the job the poller is done with has the download its copy names.
LEMMA PolledName ==
    ASSUME IInv, CopiesInv, PollOnce, NEW id \in JobIds, Polling(id), Exists(id)'
    PROVE  jobs'[id].tb = polTodo[id].tb
<1>1. polTodo[id].tb # 0 /\ polTodo[id].state # "absent"
  BY PollingOK, TorBoxAssumption DEF IInv, DlIds, Followed, activeStates
<1>2. jobs'[id] = jobs[id] \/ (Tracked(id) /\ Exists(id))
  BY PolRows, OldestUnique DEF Polling, Alone, Tracked, Exists
<1>3. QED  BY <1>1, <1>2 DEF CopiesInv, PolFollows, Agrees, Tracked, SameJob, Exists

\* A step of the poller keeps account of what is still transferring.
LEMMA TickPolled ==
    ASSUME IInv, CopiesInv, TickInv, PollOnce
    PROVE  TickInv'
<1>0. polTodo \in [JobIds -> Row]
  BY DEF IInv, PolInv, PolType
<1>1. CASE polPc' = "idle"
  BY <1>1 DEF TickInv
<1>2. CASE PolLoad
  <2>1. polTodo' = JobsByState(activeStates) /\ jobs' = jobs /\ polPc' = "list"
    BY <1>2 DEF PolLoad, storeVars
  <2>2. \A id \in JobIds : jobs[id].state = "downloading" => polTodo'[id].state # "absent"
    BY <2>1 DEF JobsByState, activeStates
  <2>3. QED  BY <2>1, <2>2 DEF TickInv
<1>3. CASE PolListed
  <2>1. /\ polTodo' = polTodo /\ polFlags' = polFlags /\ jobs' = jobs
        /\ polPc = "list" /\ polPc' = "job"
    BY <1>3 DEF PolListed, storeVars
  <2>2. QED  BY <2>1 DEF TickInv
<1>4. ASSUME NEW id \in JobIds, NEW flags, Polling(id), polPc \in {"job", "save"},
             PolResult(id, flags), polList[polTodo[id].tb] = "working" => "ongoing" \in flags
      PROVE  TickInv'
  <2>1. polPc' = "job" /\ polList' = polList /\ polFlags' = polFlags \cup flags
    BY <1>4 DEF PolResult
  <2>2. ASSUME NEW i \in JobIds, jobs'[i].state = "downloading", polList[jobs'[i].tb] = "working"
        PROVE  "ongoing" \in polFlags' \/ polTodo'[i].state # "absent"
    <3>1. CASE i = id
      <4>1. jobs'[id].tb = polTodo[id].tb
        BY <1>4, <2>2, <3>1, PolledName DEF Exists
      <4>2. QED  BY <1>4, <2>1, <2>2, <3>1, <4>1
    <3>2. CASE i # id
      <4>1. jobs'[i] = jobs[i] /\ polTodo'[i] = polTodo[i]
        BY <1>0, <1>4, <3>2, PolledRows DEF PolResult, Without
      <4>2. QED  BY <1>4, <2>1, <2>2, <4>1 DEF TickInv
    <3>3. QED  BY <3>1, <3>2
  <2>3. QED  BY <2>1, <2>2 DEF TickInv
<1>5. ASSUME NEW id \in JobIds,
             PolMissing(id) \/ PolGone(id) \/ PolFailed(id) \/ PolOngoing(id) \/ PolUnresolved(id)
      PROVE  TickInv'
  <2>1. CASE PolMissing(id) \/ PolGone(id)
    BY <1>4, <2>1 DEF PolMissing, PolGone
  <2>2. CASE PolFailed(id) \/ PolOngoing(id) \/ PolUnresolved(id)
    BY <1>4, <2>2 DEF PolFailed, PolOngoing, PolUnresolved, Listed
  <2>3. QED  BY <1>5, <2>1, <2>2
<1>6. ASSUME NEW id \in JobIds, PolSave(id)
      PROVE  TickInv'
  BY <1>4, <1>6 DEF PolSave, TickInv
<1>7. ASSUME NEW id \in JobIds, PolPremature(id) \/ PolLink(id) \/ PolLinkFails(id)
      PROVE  TickInv'
  <2>1. /\ Polling(id) /\ polPc = "job" /\ polPc' = "save" /\ polList' = polList /\ jobs' = jobs
        /\ polFlags \subseteq polFlags' /\ polList[polTodo[id].tb] = "ready"
    BY <1>7 DEF PolPremature, PolLink, PolLinkFails, PolLinked, Listed, storeVars
  <2>2. PICK row \in Row : /\ polTodo' = [polTodo EXCEPT ![id] = row]
                           /\ row.tb = polTodo[id].tb /\ row.state # "absent"
    <3>1. polTodo[id].state # "absent" /\ dl[polTodo[id].tb].release \in Releases
      BY <2>1, PollingOK DEF IInv, Polling, Oldest
    <3> DEFINE r == dl[polTodo[id].tb].release
    <3> DEFINE done == [polTodo[id] EXCEPT !.state = "completed", !.path = r]
    <3>2. done \in Row /\ done.tb = polTodo[id].tb /\ done.state = "completed"
      BY <1>0, <3>1 DEF Row, States
    <3>3. polTodo' = [polTodo EXCEPT ![id] = polTodo[id]] \/ polTodo' = [polTodo EXCEPT ![id] = done]
      BY <1>7 DEF PolPremature, PolLink, PolLinkFails, PolLinked
    <3> HIDE DEF done
    <3>4. polTodo[id] \in Row
      BY <1>0
    <3>5. QED  BY <3>1, <3>2, <3>3, <3>4
  <2>3. Polling(id)'
    BY <1>0, <2>1, <2>2, OldestStays DEF Polling
  <2>4. \A i \in JobIds : Polling(i)' => i = id
    BY <2>3, OldestUnique DEF Polling
  <2>5. \A i \in JobIds : polTodo[i].state # "absent" => polTodo'[i].state # "absent"
    BY <1>0, <2>2
  <2>6. polTodo'[id].tb = polTodo[id].tb
    BY <1>0, <2>2
  <2>7. QED  BY <2>1, <2>4, <2>5, <2>6 DEF TickInv
<1>8. CASE PolNothing \/ PolListFails \/ PolEnd
  BY <1>1, <1>8 DEF PolNothing, PolListFails, PolEnd, PolReturn
<1>9. CASE RefreshCooldownEnds
  BY <1>9 DEF RefreshCooldownEnds, TickInv, Polling, Oldest, storeVars
<1>10. QED  BY <1>2, <1>3, <1>5, <1>6, <1>7, <1>8, <1>9 DEF PollOnce, PolStep

LEMMA NextTick ==
    ASSUME IInv, CopiesInv, TickInv, [Next]_vars
    PROVE  TickInv'
<1>1. CASE PollOnce
  BY <1>1, TickPolled
<1>2. CASE ~PollOnce /\ UNCHANGED polVars
  <2>1. UNCHANGED <<polPc, polTodo, polList, polFlags>>
    BY <1>2 DEF polVars
  <2>2. \A id \in JobIds : jobs'[id].state = "downloading" =>
                              jobs[id].state = "downloading" /\ jobs'[id].tb = jobs[id].tb
    BY <1>2, DownloadingRows
  <2>3. QED  BY <2>1, <2>2 DEF TickInv, Polling, Oldest
<1>3. CASE Restart
  BY <1>3 DEF Restart, PolReturn, TickInv
<1>4. QED
  BY <1>1, <1>2, <1>3
  DEF Next, Api, SubmitOnce, DeleteOnce, ReapOnce, OnTorBox, Import, DayPasses, vars

\* A refresh of the mount is asked for only when, by the list of this tick, no row
\* already downloading is still transferring, whatever requests and other loops do
\* to the rows between the list and the refresh.
THEOREM RefreshWaits == Spec => RefreshOnlyWhenIdle
<1> DEFINE Waits == \A id \in JobIds : /\ ~refreshHeld /\ refreshHeld'
                                       /\ jobs[id].state = "downloading"
                                       => polList[jobs[id].tb] # "working"
<1>1. Init => TickInv
  BY DEF Init, PolInit, TickInv
<1>2. IInv /\ CopiesInv /\ TickInv /\ [Next]_vars => TickInv'
  BY NextTick
<1>3. IInv /\ TickInv /\ [Next]_vars => [Waits]_vars
  <2>1. SUFFICES ASSUME IInv, TickInv, [Next]_vars, ~refreshHeld, refreshHeld'
                 PROVE  Waits
    OBVIOUS
  <2>2. PolEnd
    BY <2>1
    DEF Next, Api, SubmitOnce, DeleteOnce, ReapOnce, OnTorBox, Import, DayPasses, Restart, vars,
        polVars, PollOnce, PolStep, PolLoad, PolNothing, PolListFails, PolListed, PolMissing,
        PolGone, PolFailed, PolOngoing, PolUnresolved, PolPremature, PolLink, PolLinkFails,
        PolLinked, PolSave, PolResult, RefreshCooldownEnds
  <2>3. polPc = "job" /\ "ongoing" \notin polFlags /\ \A id \in JobIds : polTodo[id].state = "absent"
    BY <2>1, <2>2, NoRowType DEF PolEnd, WantsRefresh, NoRows
  <2>4. QED  BY <2>1, <2>3 DEF TickInv
<1>4. QED  BY <1>1, <1>2, <1>3, Invariance, CopiesCorrect, PTL DEF Spec, RefreshOnlyWhenIdle

-----------------------------------------------------------------------------
(* Completed is importable, imported is taken *)

\* Where a row in one of the states that come after the download has it from.
Settles(id) ==
    \/ jobs'[id].state \notin {"completed", "imported", "deleted"}
    \/ jobs'[id].state = jobs[id].state /\ jobs'[id].path = jobs[id].path
    \/ /\ jobs'[id].state = "completed"
       /\ polTodo[id].state = "completed" /\ jobs'[id].path = polTodo[id].path
    \/ /\ jobs'[id].state = "imported" /\ reapTodo[id].state = "completed"
       /\ LooksImported(reapTodo[id].path) /\ jobs'[id].path = reapTodo[id].path
    \/ jobs'[id].state = "deleted" /\ \E h \in Handlers : req[h].op = "purge"

\* A row that a statement leaves in another state is one of these.
LEMMA PersistSettles ==
    ASSUME IInv, NEW i \in JobIds, NEW row \in Row, Persist(i, row), NEW id \in JobIds,
           \/ row.state \notin {"completed", "imported", "deleted"}
           \/ /\ row.state = "completed"
              /\ polTodo[i].state = "completed" /\ row.path = polTodo[i].path
           \/ /\ row.state = "imported" /\ reapTodo[i].state = "completed"
              /\ LooksImported(reapTodo[i].path) /\ row.path = reapTodo[i].path
           \/ row.state = "deleted" /\ \E h \in Handlers : req[h].op = "purge"
    PROVE  Settles(id)
<1>1. jobs \in [JobIds -> Row]
  BY DEF IInv, StoreInv, Table
<1>2. CASE jobs'[id] = jobs[id]
  BY <1>2 DEF Settles
<1>3. CASE /\ id = i /\ jobs'[i].state = row.state /\ jobs'[i].path = row.path
  BY <1>3 DEF Settles
<1>4. QED  BY <1>1, <1>2, <1>3, PersistedRow DEF Alone

LEMMA ApiSettles == ASSUME IInv, Api, NEW id \in JobIds PROVE Settles(id)
<1>0. jobs \in [JobIds -> Row]
  BY DEF IInv, StoreInv, Table
<1>1. ASSUME jobs'[id] = jobs[id] \/ jobs'[id].state \in {"absent", "pending"}
      PROVE  Settles(id)
  BY <1>1 DEF Settles
<1>2. ASSUME NEW h \in Handlers, AddCreate(h)
      PROVE  Settles(id)
  <2>1. NewRow(req[h].nzb).state = "pending"
    BY DEF NewRow, NoRow
  <2>2. QED  BY <1>0, <1>1, <1>2, <2>1 DEF AddCreate, CreateJob, StoreError, storeVars
<1>3. ASSUME NEW h \in Handlers, DelWrite(h)
      PROVE  Settles(id)
  <2> DEFINE row == [req[h].row EXCEPT !.state = "deleted"]
  <2>1. req[h].id \in JobIds /\ req[h].row \in Row
    BY <1>3 DEF DelWrite, IInv, ApiInv, Serving, WellFormed
  <2>2. CASE HandsOver(req[h])
    <3>1. row \in Row /\ row.state = "deleted" /\ Persist(req[h].id, row) /\ req[h].op = "purge"
      BY <1>3, <2>1, <2>2 DEF DelWrite, Row, States, HandsOver
    <3>2. QED  BY <2>1, <3>1, PersistSettles
  <2>3. CASE ~HandsOver(req[h])
    BY <1>0, <1>1, <1>3, <2>1, <2>3, NoRowType DEF DelWrite, DeleteJob, Without, StoreError, storeVars
  <2>4. QED  BY <2>2, <2>3
<1>4. ASSUME NEW h \in Handlers, (\E k \in Nzbs : AddFind(h, k)) \/ (\E i, op : DelRead(h, i, op))
      PROVE  Settles(id)
  BY <1>1, <1>4 DEF AddFind, DelRead, storeVars
<1>5. QED  BY <1>2, <1>3, <1>4 DEF Api, ApiNext

LEMMA SubSettles == ASSUME IInv, CopiesInv, SubmitOnce, NEW id \in JobIds PROVE Settles(id)
<1>1. jobs'[id] = jobs[id] \/ Sent(id)
  BY SubRows DEF Alone
<1>2. QED  BY <1>1 DEF Sent, Settles

LEMMA PolSettles == ASSUME IInv, PollOnce, NEW id \in JobIds PROVE Settles(id)
<1>0. polTodo \in [JobIds -> Row]
  BY DEF IInv, PolInv, PolType
<1>1. ASSUME NEW i \in JobIds, NEW s \in {"failed", "downloading"},
             Persist(i, [polTodo[i] EXCEPT !.state = s])
      PROVE  Settles(id)
  <2> DEFINE row == [polTodo[i] EXCEPT !.state = s]
  <2>1. row \in Row /\ row.state = s
    BY <1>0 DEF Row, States
  <2>2. QED  BY <1>1, <2>1, PersistSettles
<1>2. ASSUME NEW i \in JobIds, PolGone(i) \/ PolFailed(i) \/ PolOngoing(i)
      PROVE  Settles(id)
  BY <1>1, <1>2 DEF PolGone, PolFailed, PolOngoing, Persist
<1>3. ASSUME NEW i \in JobIds, PolUnresolved(i) \/ PolSave(i)
      PROVE  Settles(id)
  <2>1. polTodo[i].state \in Followed /\ Persist(i, polTodo[i])
    BY <1>3, PollingOK DEF PolUnresolved, PolSave, Listed, IInv
  <2>2. QED  BY <1>0, <2>1, PersistSettles DEF Followed, activeStates
<1>4. CASE jobs' = jobs
  BY <1>4 DEF Settles
<1>5. ASSUME NEW i \in JobIds, PolMissing(i) \/ PolPremature(i) \/ PolLink(i) \/ PolLinkFails(i)
      PROVE  jobs' = jobs
  BY <1>5 DEF PolMissing, PolPremature, PolLink, PolLinkFails, PolLinked, storeVars
<1>6. CASE PolLoad \/ PolNothing \/ PolListFails \/ PolListed \/ PolEnd \/ RefreshCooldownEnds
  BY <1>4, <1>6 DEF PolLoad, PolNothing, PolListFails, PolListed, PolEnd, RefreshCooldownEnds, storeVars
<1>7. QED  BY <1>2, <1>3, <1>4, <1>5, <1>6 DEF PollOnce, PolStep

LEMMA ReapSettles == ASSUME IInv, ReapOnce, NEW id \in JobIds PROVE Settles(id)
<1>0. reapTodo \in [JobIds -> Row]
  BY DEF IInv, ReapInv, ReapType
<1>1. ASSUME NEW i \in JobIds, Imported(i)
      PROVE  Settles(id)
  <2> DEFINE row == [reapTodo[i] EXCEPT !.state = "imported"]
  <2>1. reapTodo[i].state = "completed" /\ LooksImported(reapTodo[i].path) /\ Persist(i, row)
    BY <1>1, DetectingOK DEF Imported, IInv
  <2>2. row \in Row /\ row.state = "imported" /\ row.path = reapTodo[i].path
    BY <1>0 DEF Row, States
  <2>3. QED  BY <2>1, <2>2, PersistSettles
<1>2. CASE jobs' = jobs
  BY <1>2 DEF Settles
<1>3. CASE ReapImported
  BY <1>3, NoRowType DEF ReapImported, Settles
<1>4. ASSUME NEW i \in JobIds, NotImported(i)
      PROVE  jobs' = jobs
  BY <1>4 DEF NotImported, storeVars
<1>5. ASSUME NEW r \in Releases, SweepLook(r)
      PROVE  jobs' = jobs
  BY <1>5 DEF SweepLook, storeVars
<1>6. CASE Reap \/ ReapLoad \/ SweepLoad \/ SweepRemove \/ SweepEnd
  BY <1>2, <1>3, <1>6 DEF Reap, ReapLoad, SweepLoad, SweepRemove, SweepEnd, StoreError, storeVars
<1>7. QED  BY <1>1, <1>2, <1>4, <1>5, <1>6 DEF ReapOnce, ReapStep

LEMMA StepSettles ==
    ASSUME IInv, CopiesInv, [Next]_vars
    PROVE  \A id \in JobIds : Settles(id)
<1>0. jobs \in [JobIds -> Row]
  BY DEF IInv, StoreInv, Table
<1>1. CASE DeleteOnce
  <2>1. ASSUME NEW id \in JobIds PROVE jobs'[id] = jobs[id] \/ jobs'[id] = NoRow
    <3>1. ASSUME NEW i \in JobIds, DelRow(i)
          PROVE  jobs'[id] = jobs[id] \/ jobs'[id] = NoRow
      BY <1>0, <3>1 DEF DelRow, DeleteJob, Without, StoreError, storeVars
    <3>2. ASSUME NEW i \in JobIds, DelRemoved(i) \/ DelRefused(i) \/ DelDir(i)
          PROVE  jobs' = jobs
      BY <3>2 DEF DelRemoved, DelRefused, DelDir, storeVars
    <3>3. DelLoad \/ DelNothing => jobs' = jobs
      BY DEF DelLoad, DelNothing, storeVars
    <3>4. QED  BY <1>1, <3>1, <3>2, <3>3 DEF DeleteOnce, DelStep
  <2>2. QED  BY <2>1, NoRowType DEF Settles
<1>2. CASE DayPasses
  <2>1. ASSUME NEW i \in JobIds, Age(i), NEW id \in JobIds
        PROVE  jobs'[id].state = jobs[id].state /\ jobs'[id].path = jobs[id].path
    <3>1. jobs'[id] = jobs[id] \/ jobs'[id] = [jobs[id] EXCEPT !.aged = TRUE]
      BY <1>0, <2>1 DEF Age
    <3>2. QED  BY <1>0, <3>1 DEF Row
  <2>2. QED  BY <1>2, <2>1 DEF DayPasses, Settles
<1>3. CASE OnTorBox \/ Import \/ Restart \/ UNCHANGED vars
  BY <1>3 DEF OnTorBox, Import, SonarrImport, Restart, vars, sharedVars, storeVars, Settles
<1>4. QED
  BY <1>1, <1>2, <1>3, ApiSettles, SubSettles, PolSettles, ReapSettles DEF Next

\* The files of a release are where the client finds them, or has put them.
Importable(r) == farm[r] = "linked" \/ r \in library

\* Without del_files nothing is on its way to the deleter.
NoDeletions == /\ \A h \in Handlers : req[h].op # "purge"
               /\ \A id \in JobIds : /\ jobs[id].state # "deleted"
                                     /\ delTodo[id].state = "absent"

\* Links have targets, folders on the mount have a download behind them, and so
\* the sweep finds nothing broken.
FilesInv == /\ \A r \in Releases : /\ farm[r] = "linked" => mount[r] = "full"
                                   /\ mount[r] # "absent" => Ready(r)
            /\ reapPc # "removeAll"

\* What holds of the rows holds of the copies that will be written over them.
OutcomesInv ==
    \A id \in JobIds : /\ jobs[id].state = "completed" => Importable(jobs[id].path)
                       /\ jobs[id].state = "imported" => jobs[id].path \in library
                       /\ polTodo[id].state = "completed" => Importable(polTodo[id].path)
                       /\ reapTodo[id].state = "completed" => Importable(reapTodo[id].path)

ImportInv == NoDeletions /\ FilesInv /\ OutcomesInv

LEMMA NextNoDeletions ==
    ASSUME "purge" \notin ClientOps, IInv, CopiesInv, NoDeletions, [Next]_vars
    PROVE  NoDeletions'
<1>0. req \in [Handlers -> Request]
  BY DEF IInv, ApiInv
<1>1. \A id \in JobIds : jobs'[id].state # "deleted"
  BY StepSettles DEF Settles, NoDeletions
<1>2. \A h \in Handlers : req'[h].op # "purge"
  <2>1. ASSUME NEW g \in Handlers, NEW id \in JobIds, NEW op \in {"delete", "purge"}, DelRead(g, id, op)
        PROVE  \A h \in Handlers : req'[h].op # "purge"
    BY <1>0, <2>1 DEF DelRead, NoDeletions
  <2>2. ASSUME NEW g \in Handlers, NEW k \in Nzbs, AddFind(g, k)
        PROVE  \A h \in Handlers : req'[h].op # "purge"
    <3> DEFINE new == [Idle EXCEPT !.op = "create", !.nzb = k]
    <3>1. new.op = "create"
      BY DEF Idle
    <3>2. req' = [req EXCEPT ![g] = new]
      BY <2>2 DEF AddFind
    <3> HIDE DEF new
    <3>3. QED  BY <1>0, <3>1, <3>2 DEF NoDeletions
  <2>3. ASSUME NEW g \in Handlers, AddCreate(g) \/ DelWrite(g)
        PROVE  \A h \in Handlers : req'[h].op # "purge"
    BY <1>0, <2>3 DEF AddCreate, DelWrite, Idle, NoDeletions
  <2>4. CASE UNCHANGED apiVars
    BY <2>4 DEF apiVars, NoDeletions
  <2>5. CASE Restart
    BY <2>5 DEF Restart, Idle
  <2>6. QED
    BY <2>1, <2>2, <2>3, <2>4, <2>5
    DEF Next, Api, ApiNext, SubmitOnce, PollOnce, DeleteOnce, ReapOnce, OnTorBox, Import,
        DayPasses, vars
<1>3. \A id \in JobIds : delTodo'[id].state = "absent"
  <2>1. \A id \in JobIds : ~Deleting(id)
    BY DEF NoDeletions, Deleting, Oldest
  <2>2. ~DelLoad
    BY DEF DelLoad, JobsByState, NoRows, NoDeletions
  <2>3. DeleteOnce => delTodo' = delTodo
    BY <2>1, <2>2 DEF DeleteOnce, DelStep, DelNothing, DelRemoved, DelRefused, DelDir, DelRow
  <2>4. Restart => \A id \in JobIds : delTodo'[id].state = "absent"
    BY NoRowType DEF Restart, NoRows
  <2>5. QED
    BY <2>3, <2>4
    DEF NoDeletions, Next, Api, SubmitOnce, PollOnce, ReapOnce, OnTorBox, Import, DayPasses, vars,
        delVars
<1>4. QED  BY <1>1, <1>2, <1>3 DEF NoDeletions

\* A release whose download is done stays on the account.
LEMMA ReadyStays ==
    ASSUME "vanish" \notin FaultKinds, IInv, NoDeletions, [Next]_vars, NEW r \in Releases, Ready(r)
    PROVE  Ready(r)'
<1>1. PICK d \in DlIds : dl[d].status = "ready" /\ dl[d].release = r
  BY DEF Ready
<1>2. Moves(d)
  BY <1>1, StepDownloads DEF Starts
<1>3. dl'[d].status = "ready" /\ dl'[d].release = r
  BY <1>1, <1>2 DEF Moves, NoDeletions, Deleting, Oldest
<1>4. QED  BY <1>3 DEF Ready

\* The mount loses nothing that is behind a link.
LEMMA MountStays ==
    ASSUME "vanish" \notin FaultKinds, IInv, NoDeletions, FilesInv, [Next]_vars, NEW r \in Releases
    PROVE  /\ mount[r] = "full" => mount'[r] = "full"
           /\ mount'[r] # "absent" => Ready(r)'
<1>1. CASE mount'[r] = mount[r]
  BY <1>1, ReadyStays DEF FilesInv
<1>2. ASSUME NEW s \in Releases, Surface(s)
      PROVE  /\ mount[r] = "full" => mount'[r] = "full"
             /\ mount'[r] # "absent" => Ready(r)'
  <2>1. CASE s = r
    BY <1>2, <2>1, ReadyStays DEF Surface
  <2>2. CASE s # r
    BY <1>1, <1>2, <2>2 DEF Surface, IInv, TorBoxInv
  <2>3. QED  BY <2>1, <2>2
<1>3. ASSUME NEW s \in Releases, Unsurface(s)
      PROVE  FALSE
  BY <1>3 DEF Unsurface, FilesInv
<1>4. CASE UNCHANGED mount
  BY <1>1, <1>4
<1>5. CASE OnTorBox
  BY <1>2, <1>3, <1>4, <1>5 DEF OnTorBox, TorBoxNext, Finish, Break, Vanish
<1>6. CASE SubmitOnce
  BY <1>4, <1>6
  DEF SubmitOnce, SubStep, SubLoad, SubMark, SubRefused, SubLimited, SubCreated, SubAnswerLost,
      SubSave, SubCooldownEnds, CreateUsenetDownload, CreateNamed, torboxVars
<1>7. CASE PollOnce
  BY <1>4, <1>7
  DEF PollOnce, PolStep, PolLoad, PolNothing, PolListFails, PolListed, PolMissing, PolGone,
      PolFailed, PolOngoing, PolUnresolved, PolPremature, PolLink, PolLinkFails, PolLinked, PolSave,
      PolEnd, RefreshCooldownEnds, torboxVars
<1>8. CASE DeleteOnce
  BY <1>4, <1>8
  DEF DeleteOnce, DelStep, DelLoad, DelNothing, DelRemoved, DelRefused, DelDir, DelRow,
      ControlUsenet, torboxVars
<1>9. CASE ReapOnce
  BY <1>4, <1>9
  DEF ReapOnce, ReapStep, ReapLoad, Imported, NotImported, Reap, SweepLoad, SweepLook,
      SweepRemove, SweepEnd, torboxVars
<1>10. CASE Api \/ Import \/ DayPasses \/ Restart \/ UNCHANGED vars
  BY <1>4, <1>10 DEF Api, Import, SonarrImport, DayPasses, Restart, vars, sharedVars, torboxVars
<1>11. QED  BY <1>5, <1>6, <1>7, <1>8, <1>9, <1>10 DEF Next

\* No step takes the files of a release from the client: what the poller unlinks
\* and what the sweep removes holds none.
LEMMA FarmStays ==
    ASSUME IInv, NoDeletions, FilesInv, [Next]_vars, NEW r \in Releases
    PROVE  /\ Importable(r) => Importable(r)'
           /\ r \in library => r \in library'
           /\ farm'[r] = "linked" => farm[r] = "linked" \/ (mount[r] = "full" /\ mount' = mount)
<1> DEFINE Goal == /\ Importable(r) => Importable(r)'
                   /\ r \in library => r \in library'
                   /\ farm'[r] = "linked" => farm[r] = "linked" \/ (mount[r] = "full" /\ mount' = mount)
<1> SUFFICES Goal
  OBVIOUS
<1>0. farm \in [Releases -> {"absent", "empty", "hollow", "linked"}]
  BY DEF IInv, FarmType
<1>1. CASE UNCHANGED farmVars
  BY <1>1 DEF farmVars, Importable
<1>2. ASSUME NEW id \in JobIds, PolLink(id)
      PROVE  Goal
  BY <1>0, <1>2 DEF PolLink, Linked, PolLinked, torboxVars, Importable
<1>3. ASSUME NEW id \in JobIds, PolLinkFails(id)
      PROVE  Goal
  BY <1>0, <1>3 DEF PolLinkFails, Made, Emptied, PolLinked, Importable
<1>4. ASSUME NEW id \in JobIds, PolPremature(id)
      PROVE  Goal
  <2>1. dl[polTodo[id].tb].release \in Releases
    BY <1>4, PollingOK DEF PolPremature, Listed, IInv
  <2>2. farm[dl[polTodo[id].tb].release] # "linked"
    BY <1>4, <2>1 DEF PolPremature, FilesInv
  <2>3. QED  BY <1>0, <1>4, <2>1, <2>2 DEF PolPremature, RemovedAll, PolLinked, Importable
<1>5. CASE SweepRemove
  BY <1>0, <1>5 DEF SweepRemove, FilesInv, EmptyRemoved, RemovedIfEmpty, Importable
<1>6. ASSUME NEW id \in JobIds, SonarrImport(id)
      PROVE  Goal
  <2>1. jobs[id].path \in Releases
    BY <1>6 DEF SonarrImport, IInv, StoreInv, Table, WellFormed
  <2>2. QED  BY <1>0, <1>6, <2>1 DEF SonarrImport, Emptied, Importable
<1>7. CASE PollOnce
  BY <1>1, <1>2, <1>3, <1>4, <1>7
  DEF PollOnce, PolStep, PolLoad, PolNothing, PolListFails, PolListed, PolMissing, PolGone,
      PolFailed, PolOngoing, PolUnresolved, PolSave, PolEnd, RefreshCooldownEnds
<1>8. CASE DeleteOnce
  <2>1. \A id \in JobIds : ~DelDir(id)
    BY DEF NoDeletions, DelDir, Deleting, Oldest
  <2>2. QED
    BY <1>1, <1>8, <2>1
    DEF DeleteOnce, DelStep, DelLoad, DelNothing, DelRemoved, DelRefused, DelRow
<1>9. CASE ReapOnce
  BY <1>1, <1>5, <1>9
  DEF ReapOnce, ReapStep, ReapLoad, Imported, NotImported, Reap, SweepLoad, SweepLook, SweepEnd
<1>10. CASE Api \/ SubmitOnce \/ OnTorBox \/ DayPasses \/ Restart \/ UNCHANGED vars
  BY <1>1, <1>10 DEF Api, SubmitOnce, OnTorBox, DayPasses, Restart, vars, sharedVars
<1>11. QED  BY <1>6, <1>7, <1>8, <1>9, <1>10 DEF Next, Import

LEMMA NextFiles ==
    ASSUME "vanish" \notin FaultKinds, IInv, NoDeletions, FilesInv, [Next]_vars
    PROVE  FilesInv'
<1>1. ASSUME NEW r \in Releases
      PROVE  /\ farm'[r] = "linked" => mount'[r] = "full"
             /\ mount'[r] # "absent" => Ready(r)'
  BY <1>1, MountStays, FarmStays DEF FilesInv
<1>2. reapPc' # "removeAll"
  <2>1. ASSUME NEW r \in Releases, SweepLook(r)
        PROVE  reapPc' # "removeAll"
    BY <2>1 DEF SweepLook, Orphaned, AllBroken, FilesInv
  <2>2. ASSUME NEW id \in JobIds, Imported(id) \/ NotImported(id)
        PROVE  reapPc' # "removeAll"
    BY <2>2 DEF Imported, NotImported, FilesInv
  <2>3. CASE ReapLoad \/ Reap \/ SweepLoad \/ SweepRemove \/ SweepEnd \/ Restart
    BY <2>3 DEF ReapLoad, Reap, SweepLoad, SweepRemove, SweepEnd, Restart, ReapReturn
  <2>4. CASE UNCHANGED reapVars
    BY <2>4 DEF reapVars, FilesInv
  <2>5. QED
    BY <2>1, <2>2, <2>3, <2>4
    DEF Next, ReapOnce, ReapStep, Api, SubmitOnce, PollOnce, DeleteOnce, OnTorBox, Import,
        DayPasses, vars
<1>3. QED  BY <1>1, <1>2 DEF FilesInv

\* A completed copy of the poller is one it had, or it has just linked the files.
LEMMA CompletedCopies ==
    ASSUME IInv, [Next]_vars, NEW id \in JobIds, polTodo'[id].state = "completed"
    PROVE  \/ polTodo[id].state = "completed" /\ polTodo'[id].path = polTodo[id].path
           \/ polTodo'[id].path \in Releases /\ farm'[polTodo'[id].path] = "linked"
<1> DEFINE Goal == \/ polTodo[id].state = "completed" /\ polTodo'[id].path = polTodo[id].path
                   \/ polTodo'[id].path \in Releases /\ farm'[polTodo'[id].path] = "linked"
<1> SUFFICES Goal
  OBVIOUS
<1>0. polTodo \in [JobIds -> Row] /\ farm \in [Releases -> {"absent", "empty", "hollow", "linked"}]
  BY DEF IInv, PolInv, PolType, FarmType
<1>1. CASE polTodo'[id] = polTodo[id]
  BY <1>1
<1>2. CASE PolLoad
  BY <1>2, NoRowType DEF PolLoad, JobsByState, activeStates
<1>3. ASSUME NEW i \in JobIds, polTodo' = Without(polTodo, i)
      PROVE  Goal
  BY <1>0, <1>1, <1>3, NoRowType DEF Without
<1>4. ASSUME polTodo' = NoRows
      PROVE  FALSE
  BY <1>4, NoRowType DEF NoRows
<1>5. ASSUME NEW i \in JobIds,
             PolMissing(i) \/ PolGone(i) \/ PolFailed(i) \/ PolOngoing(i) \/ PolUnresolved(i)
                \/ PolSave(i)
      PROVE  Goal
  BY <1>3, <1>5
  DEF PolMissing, PolGone, PolFailed, PolOngoing, PolUnresolved, PolSave, PolResult
<1>6. ASSUME NEW i \in JobIds, PolPremature(i) \/ PolLinkFails(i)
      PROVE  Goal
  BY <1>0, <1>1, <1>6 DEF PolPremature, PolLinkFails, PolLinked
<1>7. ASSUME NEW i \in JobIds, PolLink(i)
      PROVE  Goal
  <2> DEFINE r == dl[polTodo[i].tb].release
  <2> DEFINE done == [polTodo[i] EXCEPT !.state = "completed", !.path = r]
  <2>1. r \in Releases
    BY <1>7, PollingOK DEF PolLink, Listed, IInv
  <2>2. farm' = Linked(r) /\ polTodo' = [polTodo EXCEPT ![i] = done]
    BY <1>7 DEF PolLink, PolLinked
  <2>3. done.path = r
    BY <1>0 DEF Row
  <2> HIDE DEF done, r
  <2>4. CASE i = id
    BY <1>0, <2>1, <2>2, <2>3, <2>4 DEF Linked
  <2>5. CASE i # id
    BY <1>0, <1>1, <2>2, <2>5
  <2>6. QED  BY <2>4, <2>5
<1>8. CASE PolNothing \/ PolListFails \/ PolListed \/ PolEnd \/ RefreshCooldownEnds
  BY <1>1, <1>4, <1>8
  DEF PolNothing, PolListFails, PolListed, PolEnd, PolReturn, RefreshCooldownEnds
<1>9. CASE Restart
  BY <1>4, <1>9 DEF Restart, PolReturn
<1>10. CASE UNCHANGED polVars
  BY <1>1, <1>10 DEF polVars
<1>11. CASE PollOnce
  BY <1>2, <1>5, <1>6, <1>7, <1>8, <1>11 DEF PollOnce, PolStep
<1>12. QED
  BY <1>9, <1>10, <1>11
  DEF Next, Api, SubmitOnce, DeleteOnce, ReapOnce, OnTorBox, Import, DayPasses, vars

\* A copy of the reaper is one it had, or that of a row completed when it is read.
LEMMA DetectedCopies ==
    ASSUME IInv, [Next]_vars, NEW id \in JobIds, reapTodo'[id].state = "completed"
    PROVE  \/ reapTodo[id].state = "completed" /\ reapTodo'[id].path = reapTodo[id].path
           \/ jobs[id].state = "completed" /\ reapTodo'[id].path = jobs[id].path
<1> DEFINE Goal == \/ reapTodo[id].state = "completed" /\ reapTodo'[id].path = reapTodo[id].path
                   \/ jobs[id].state = "completed" /\ reapTodo'[id].path = jobs[id].path
<1> SUFFICES Goal
  OBVIOUS
<1>0. reapTodo \in [JobIds -> Row]
  BY DEF IInv, ReapInv, ReapType
<1>1. CASE reapTodo' = reapTodo
  BY <1>1
<1>2. ASSUME reapTodo' = NoRows
      PROVE  FALSE
  BY <1>2, NoRowType DEF NoRows
<1>3. CASE ReapLoad
  BY <1>2, <1>3, NoRowType DEF ReapLoad, JobsByState
<1>4. ASSUME NEW i \in JobIds, Imported(i) \/ NotImported(i)
      PROVE  Goal
  BY <1>0, <1>4, NoRowType DEF Imported, NotImported, Without
<1>5. CASE Reap \/ SweepLoad \/ SweepRemove \/ SweepEnd \/ \E r \in Releases : SweepLook(r)
  BY <1>1, <1>5 DEF Reap, SweepLoad, SweepRemove, SweepEnd, SweepLook
<1>6. CASE Restart
  BY <1>2, <1>6 DEF Restart
<1>7. CASE UNCHANGED reapVars
  BY <1>1, <1>7 DEF reapVars
<1>8. CASE ReapOnce
  BY <1>3, <1>4, <1>5, <1>8 DEF ReapOnce, ReapStep
<1>9. QED
  BY <1>6, <1>7, <1>8
  DEF Next, Api, SubmitOnce, PollOnce, DeleteOnce, OnTorBox, Import, DayPasses, vars

LEMMA NextOutcomes ==
    ASSUME IInv, CopiesInv, NoDeletions, FilesInv, OutcomesInv, [Next]_vars
    PROVE  OutcomesInv'
<1>1. ASSUME NEW rows, Table(rows, dl, asked), NEW id \in JobIds, rows[id].state = "completed"
      PROVE  rows[id].path \in Releases
  BY <1>1 DEF Table, WellFormed
<1>2. ASSUME NEW r \in Releases, Importable(r)
      PROVE  farm'[r] = "linked" \/ r \in library'
  BY <1>2, FarmStays DEF Importable
<1>3. ASSUME NEW id \in JobIds
      PROVE  /\ jobs[id].state = "completed" =>
                   jobs[id].path \in Releases /\ Importable(jobs[id].path)
             /\ polTodo[id].state = "completed" =>
                   polTodo[id].path \in Releases /\ Importable(polTodo[id].path)
             /\ reapTodo[id].state = "completed" =>
                   reapTodo[id].path \in Releases /\ Importable(reapTodo[id].path)
  BY <1>1 DEF OutcomesInv, IInv, StoreInv, PolInv, ReapInv
<1>4. ASSUME NEW id \in JobIds, jobs'[id].state = "completed"
      PROVE  Importable(jobs[id].path)'
  <2>1. jobs'[id].path \in Releases /\ Importable(jobs'[id].path)
    BY <1>3, <1>4, StepSettles DEF Settles
  <2>2. QED  BY <1>2, <2>1 DEF Importable
<1>5. ASSUME NEW id \in JobIds, jobs'[id].state = "imported"
      PROVE  jobs'[id].path \in library'
  <2>1. CASE jobs[id].state = "imported" /\ jobs'[id].path = jobs[id].path
    <3>1. jobs[id].path \in library /\ library \subseteq Releases
      BY <2>1 DEF OutcomesInv, IInv, FarmType
    <3>2. QED  BY <2>1, <3>1, FarmStays
  <2>2. CASE /\ reapTodo[id].state = "completed" /\ LooksImported(reapTodo[id].path)
             /\ jobs'[id].path = reapTodo[id].path
    <3>1. reapTodo[id].path \in Releases /\ Importable(reapTodo[id].path)
      BY <1>3, <2>2
    <3>2. reapTodo[id].path \in library
      BY <2>2, <3>1 DEF LooksImported, IsEmpty, Importable
    <3>3. QED  BY <2>2, <3>1, <3>2, FarmStays
  <2>3. QED  BY <1>5, <2>1, <2>2, StepSettles DEF Settles
<1>6. ASSUME NEW id \in JobIds, polTodo'[id].state = "completed"
      PROVE  Importable(polTodo[id].path)'
  <2>1. CASE polTodo[id].state = "completed" /\ polTodo'[id].path = polTodo[id].path
    BY <1>2, <1>3, <2>1 DEF Importable
  <2>2. CASE farm'[polTodo'[id].path] = "linked"
    BY <2>2 DEF Importable
  <2>3. QED  BY <1>6, <2>1, <2>2, CompletedCopies
<1>7. ASSUME NEW id \in JobIds, reapTodo'[id].state = "completed"
      PROVE  Importable(reapTodo[id].path)'
  <2>1. reapTodo'[id].path \in Releases /\ Importable(reapTodo'[id].path)
    BY <1>3, <1>7, DetectedCopies
  <2>2. QED  BY <1>2, <2>1 DEF Importable
<1>8. QED  BY <1>4, <1>5, <1>6, <1>7 DEF OutcomesInv

\* The invariant under which the client never loses a completed job.
LEMMA ImportsCorrect ==
    ASSUME "purge" \notin ClientOps, "vanish" \notin FaultKinds
    PROVE  Spec => []ImportInv
<1>1. Init => ImportInv
  <2> SUFFICES ASSUME Init PROVE ImportInv
    OBVIOUS
  <2>1. \A id \in JobIds : /\ jobs[id].state = "absent" /\ polTodo[id].state = "absent"
                           /\ reapTodo[id].state = "absent" /\ delTodo[id].state = "absent"
    BY NoRowType DEF Init, StoreInit, PolInit, ReapInit, DelInit, NoRows
  <2>2. NoDeletions
    BY <2>1 DEF Init, ApiInit, Idle, NoDeletions
  <2>3. FilesInv
    BY DEF Init, FarmInit, TorBoxInit, ReapInit, FilesInv
  <2>4. QED  BY <2>1, <2>2, <2>3 DEF ImportInv, OutcomesInv
<1>2. IInv /\ CopiesInv /\ ImportInv /\ [Next]_vars => ImportInv'
  BY NextNoDeletions, NextFiles, NextOutcomes DEF ImportInv
<1>3. QED  BY <1>1, <1>2, Invariance, CopiesCorrect, PTL DEF Spec

\* A job that history advertises as completed has its files in the farm, or the
\* client has them: no sweep, failed link or second look of the poller takes them
\* away while the client only adds jobs and drops them from its queue, and TorBox
\* keeps what it has.
THEOREM CompletedStaysImportable ==
    ASSUME "purge" \notin ClientOps, "vanish" \notin FaultKinds
    PROVE  Spec => []CompletedIsImportable
<1>1. ImportInv => CompletedIsImportable
  BY DEF ImportInv, OutcomesInv, CompletedIsImportable, Importable
<1>2. QED  BY <1>1, ImportsCorrect, PTL

\* An empty or missing release directory is, under the same conditions, an honest
\* signal: what the reaper marks imported is in the client's library.
THEOREM ImportsAreReal ==
    ASSUME "purge" \notin ClientOps, "vanish" \notin FaultKinds
    PROVE  Spec => []ImportedIsTaken
<1>1. ImportInv => ImportedIsTaken
  BY DEF ImportInv, OutcomesInv, ImportedIsTaken
<1>2. QED  BY <1>1, ImportsCorrect, PTL

-----------------------------------------------------------------------------
(* Dropped only when removed *)

LiveDl(d) == d # 0 /\ dl[d].status \in Live

\* Each failed removal of a download that is still there has used up a fault, and
\* nothing is counted for a row that has no download yet.
CountedInv ==
    \A id \in JobIds : /\ Exists(id) /\ LiveDl(jobs[id].tb) => deleteAttempts[id] <= faults
                       /\ Exists(id) /\ jobs[id].tb = 0 => deleteAttempts[id] = 0
                       /\ id >= nextId => deleteAttempts[id] = 0

\* The same for the rows the deleter has loaded; past the call the download is gone.
RemovalsInv ==
    \A id \in JobIds : /\ delTodo[id].state # "absent" /\ LiveDl(delTodo[id].tb)
                             => deleteAttempts[id] <= faults
                       /\ delPc \in {"dir", "row"} /\ Deleting(id) => ~LiveDl(delTodo[id].tb)

\* The download of a row or a copy does not come back to the account.
LEMMA LiveBack ==
    ASSUME IInv, [Next]_vars, NEW rows, Table(rows, dl, asked), NEW id \in JobIds,
           NEW d, d = rows[id].tb, d # 0
    PROVE  dl'[d].status \in Live => dl[d].status \in Live
BY NamedDownload, OwnedDownload

\* Rows change under the counters only to disappear, to start without a download,
\* or to get one while nothing is counted.
LEMMA CountedKept ==
    ASSUME IInv, CopiesInv, CountedInv, [Next]_vars, UNCHANGED deleteAttempts
    PROVE  CountedInv'
<1>0. /\ FaultsGrow /\ faults \in Nat /\ deleteAttempts \in [JobIds -> Nat] /\ nextId \in Nat
      /\ RowsInv /\ IdsGrow
  BY StepFaults, StepChanges, IdsNat, FaultsAssumption, DeleterAssumption
  DEF IInv, StoreInv, DelInv, DelType, CopiesInv
<1>1. ASSUME NEW id \in JobIds
      PROVE  /\ jobs'[id].state # "absent" /\ jobs'[id].tb # 0 /\ dl'[jobs'[id].tb].status \in Live
                   => deleteAttempts[id] <= faults'
             /\ jobs'[id].state # "absent" /\ jobs'[id].tb = 0 => deleteAttempts[id] = 0
             /\ id >= nextId' => deleteAttempts[id] = 0
  <2>1. id >= nextId' => deleteAttempts[id] = 0
    BY <1>0 DEF CountedInv, IdsGrow, JobIds
  <2>2. CASE Exists(id) /\ SameJob(id)
    <3>1. jobs[id].tb # 0 /\ dl'[jobs[id].tb].status \in Live => dl[jobs[id].tb].status \in Live
      BY LiveBack DEF IInv, StoreInv
    <3>2. QED  BY <1>0, <2>1, <2>2, <3>1 DEF CountedInv, LiveDl, SameJob, FaultsGrow
  <2>3. CASE jobs'[id].state = "absent"
    BY <2>1, <2>3
  <2>4. CASE Created(id)
    BY <1>0, <2>1, <2>4 DEF Created, CountedInv, JobIds
  <2>5. CASE Sent(id)
    <3>1. deleteAttempts[id] = 0
      BY <2>5 DEF Sent, RowsInv, Unsent, CopiesInv, CountedInv, Exists
    <3>2. QED  BY <1>0, <2>1, <3>1 DEF FaultsGrow
  <2>6. QED
    BY <2>2, <2>3, <2>4, <2>5, StepChanges DEF Changed, Withdrawn, Tracked, Taken, Exists
<1>2. QED  BY <1>1 DEF CountedInv, LiveDl, Exists

\* While the deleter waits its own counters and copies stay right.
LEMMA RemovalsKept ==
    ASSUME IInv, RemovalsInv, [Next]_vars, UNCHANGED delVars
    PROVE  RemovalsInv'
<1>0. /\ FaultsGrow /\ faults \in Nat /\ deleteAttempts \in [JobIds -> Nat]
      /\ UNCHANGED <<delPc, delTodo, deleteAttempts>>
  BY StepFaults, FaultsAssumption, DeleterAssumption DEF IInv, StoreInv, DelInv, DelType, delVars
<1>1. ASSUME NEW id \in JobIds
      PROVE  LiveDl(delTodo[id].tb)' => LiveDl(delTodo[id].tb)
  BY <1>0, LiveBack DEF IInv, DelInv, LiveDl
<1>2. QED  BY <1>0, <1>1 DEF RemovalsInv, Deleting, Oldest, FaultsGrow

\* The row being deleted, if it is still there, has the download its copy names.
LEMMA DeletingRow ==
    ASSUME IInv, CopiesInv, NEW id \in JobIds, Deleting(id)
    PROVE  /\ delTodo[id].tb \in DlIds /\ delTodo[id].tb # 0 /\ delTodo[id].state # "absent"
           /\ id < nextId /\ nextId \in Nat
           /\ Exists(id) => jobs[id].tb = delTodo[id].tb
<1>1. delTodo[id].state = "deleted"
  BY DEF Deleting, Oldest, IInv, DelInv
<1>2. delTodo[id].tb \in DlIds /\ delTodo[id].tb # 0
  BY <1>1 DEF IInv, DelInv, Table, WellFormed, Submitted
<1>3. QED  BY <1>1, <1>2, IdsNat DEF CopiesInv, DelFollows, Agrees, Exists, IInv

\* A step of the deleter counts one removal for a fault, or one of a download that
\* is gone, or clears a counter.
LEMMA RemovalsStep ==
    ASSUME MaxFaults < deleteGiveUpAttempts, IInv, CopiesInv, CountedInv, RemovalsInv, DeleteOnce,
           [Next]_vars
    PROVE  CountedInv' /\ RemovalsInv'
<1> DEFINE Goal == CountedInv' /\ RemovalsInv'
<1> SUFFICES Goal
  OBVIOUS
<1>0. /\ FaultsGrow /\ faults \in Nat /\ deleteAttempts \in [JobIds -> Nat]
      /\ delTodo \in [JobIds -> Row] /\ faults <= MaxFaults /\ MaxFaults \in Nat
  BY StepFaults, FaultsAssumption, DeleterAssumption DEF IInv, StoreInv, DelInv, DelType
<1>1. ASSUME UNCHANGED <<dl, storeVars>>,
             \A id \in JobIds : deleteAttempts'[id] = 0 \/ deleteAttempts'[id] = deleteAttempts[id]
      PROVE  CountedInv'
  BY <1>0, <1>1 DEF CountedInv, LiveDl, Exists, storeVars, FaultsGrow
<1>2. CASE DelLoad
  <2>1. /\ UNCHANGED <<dl, storeVars>> /\ delTodo' = JobsByState({"deleted"}) /\ delPc' = "call"
        /\ \A id \in JobIds : deleteAttempts'[id] \in {0, deleteAttempts[id]}
    BY <1>2 DEF DelLoad, torboxVars
  <2>2. ASSUME NEW id \in JobIds, delTodo'[id].state # "absent"
        PROVE  delTodo'[id] = jobs[id] /\ Exists(id)
    BY <2>1, <2>2, NoRowType DEF JobsByState, Exists
  <2>3. QED
    BY <1>0, <1>1, <2>1, <2>2 DEF RemovalsInv, CountedInv, LiveDl, FaultsGrow
<1>3. CASE DelNothing
  <2>1. UNCHANGED <<dl, storeVars, delTodo, delPc>> /\ deleteAttempts' = NoAttempts
    BY <1>3 DEF DelNothing, torboxVars
  <2>2. QED
    BY <1>0, <1>1, <2>1 DEF NoAttempts, RemovalsInv, Deleting, Oldest, LiveDl, FaultsGrow
<1>4. ASSUME NEW id \in JobIds, DelRemoved(id)
      PROVE  Goal
  <2>1. Deleting(id) /\ Deleting(id)' /\ delTodo' = delTodo
    BY <1>4 DEF DelRemoved, Deleting, Oldest
  <2>2. /\ \A d \in DlIds : dl'[d].status \in Live => dl[d].status \in Live
        /\ dl'[delTodo[id].tb].status = "removed"
    BY <1>4 DEF DelRemoved, ControlUsenet, IInv, TorBoxInv, Downloads, Download, Live
  <2>3. /\ jobs' = jobs /\ nextId' = nextId /\ faults' = faults
        /\ \A i \in JobIds : deleteAttempts'[i] \in {0, deleteAttempts[i]}
    BY <1>0, <1>4 DEF DelRemoved, Forget, storeVars
  <2>4. \A i \in JobIds : /\ jobs[i].tb # 0 => jobs[i].tb \in DlIds
                          /\ delTodo[i].tb # 0 => delTodo[i].tb \in DlIds
    BY DEF IInv, StoreInv, DelInv, Table, WellFormed
  <2>5. CountedInv'
    BY <1>0, <2>2, <2>3, <2>4 DEF CountedInv, LiveDl, Exists
  <2>6. RemovalsInv'
    <3>1. \A i \in JobIds : Deleting(i)' => i = id
      BY <2>1, OldestUnique DEF Deleting
    <3>2. QED  BY <1>0, <2>1, <2>2, <2>3, <2>4, <3>1 DEF RemovalsInv, LiveDl, Live
  <2>7. QED  BY <2>5, <2>6
<1>5. ASSUME NEW id \in JobIds, DelRefused(id)
      PROVE  Goal
  <2> DEFINE n == deleteAttempts[id] + 1
  <2>0. Deleting(id) /\ UNCHANGED <<dl, storeVars>>
    BY <1>5 DEF DelRefused, torboxVars
  <2>1. LiveDl(delTodo[id].tb) => n <= faults' /\ n <= MaxFaults
    <3>1. delTodo[id].state # "absent"
      BY <2>0, DeletingRow
    <3>2. LiveDl(delTodo[id].tb) => Fault("control")
      BY <1>5 DEF DelRefused, ControlFails, LiveDl
    <3>3. QED  BY <1>0, <3>1, <3>2 DEF Fault, RemovalsInv
  <2>2. CASE /\ deleteAttempts' = [deleteAttempts EXCEPT ![id] = n]
             /\ DelAdvance(id)
    <3>1. delPc' \in {"idle", "call"} /\ delTodo' = Without(delTodo, id)
      BY <2>2 DEF DelAdvance
    <3>2. \A i \in JobIds : delTodo'[i].state # "absent" => i # id /\ delTodo'[i] = delTodo[i]
      BY <1>0, <3>1, NoRowType DEF Without
    <3>3. RemovalsInv'
      BY <1>0, <2>0, <2>2, <3>1, <3>2 DEF RemovalsInv, LiveDl, FaultsGrow
    <3>4. ASSUME NEW i \in JobIds
          PROVE  /\ Exists(i) /\ LiveDl(jobs[i].tb) => deleteAttempts'[i] <= faults'
                 /\ Exists(i) /\ jobs[i].tb = 0 => deleteAttempts'[i] = 0
                 /\ i >= nextId => deleteAttempts'[i] = 0
      <4>1. CASE i = id
        <5>1. deleteAttempts'[i] = n
          BY <1>0, <2>2, <4>1
        <5>2. id < nextId /\ nextId \in Nat /\ (Exists(id) => jobs[id].tb = delTodo[id].tb)
              /\ delTodo[id].tb # 0
          BY <2>0, DeletingRow
        <5>3. QED  BY <2>1, <4>1, <5>1, <5>2 DEF JobIds
      <4>2. CASE i # id
        BY <1>0, <2>2, <4>2 DEF CountedInv, FaultsGrow
      <4>3. QED  BY <4>1, <4>2
    <3>5. CountedInv'
      BY <2>0, <3>4 DEF CountedInv, LiveDl, Exists, storeVars
    <3>6. QED  BY <3>3, <3>5
  <2>3. CASE GivesUp(n) /\ Forget(id) /\ UNCHANGED delTodo
    <3>1. ~LiveDl(delTodo[id].tb)
      BY <1>0, <2>1, <2>3, DeleterAssumption DEF GivesUp
    <3>2. \A i \in JobIds : deleteAttempts'[i] \in {0, deleteAttempts[i]}
      BY <1>0, <2>3 DEF Forget
    <3>3. \A i \in JobIds : Deleting(i)' => i = id
      BY <2>0, <2>3, OldestUnique DEF Deleting, Oldest
    <3>4. RemovalsInv'
      BY <1>0, <2>0, <2>3, <3>1, <3>2, <3>3 DEF RemovalsInv, LiveDl, FaultsGrow
    <3>5. QED  BY <1>1, <2>0, <3>2, <3>4
  <2>4. QED  BY <1>5, <2>2, <2>3 DEF DelRefused
<1>6. ASSUME NEW id \in JobIds, DelDir(id)
      PROVE  Goal
  <2>1. /\ UNCHANGED <<dl, storeVars, delTodo, deleteAttempts, faults>> /\ delPc = "dir"
    BY <1>6 DEF DelDir, torboxVars
  <2>2. QED  BY <1>1, <2>1 DEF RemovalsInv, LiveDl, Deleting, Oldest
<1>7. ASSUME NEW id \in JobIds, DelRow(id)
      PROVE  Goal
  <2>1. /\ delPc' \in {"idle", "call"} /\ delTodo' = Without(delTodo, id)
        /\ UNCHANGED <<dl, deleteAttempts>>
    BY <1>7 DEF DelRow, DelAdvance, torboxVars
  <2>2. \A i \in JobIds : delTodo'[i].state # "absent" => delTodo'[i] = delTodo[i]
    BY <1>0, <2>1, NoRowType DEF Without
  <2>3. RemovalsInv'
    BY <1>0, <2>1, <2>2 DEF RemovalsInv, LiveDl, FaultsGrow
  <2>4. QED  BY <2>1, <2>3, CountedKept
<1>8. QED  BY <1>2, <1>3, <1>4, <1>5, <1>6, <1>7 DEF DeleteOnce, DelStep

LEMMA NextRemovals ==
    ASSUME MaxFaults < deleteGiveUpAttempts, IInv, CopiesInv, CountedInv, RemovalsInv, [Next]_vars
    PROVE  CountedInv' /\ RemovalsInv'
<1>1. CASE DeleteOnce
  BY <1>1, RemovalsStep
<1>2. CASE UNCHANGED delVars
  BY <1>2, CountedKept, RemovalsKept DEF delVars
<1>3. CASE Restart
  <2>1. UNCHANGED <<dl, storeVars>> /\ deleteAttempts' = NoAttempts /\ delTodo' = NoRows
    BY <1>3 DEF Restart, torboxVars
  <2>2. faults' \in Nat
    BY StepFaults, FaultsAssumption DEF FaultsGrow, IInv, StoreInv
  <2>3. \A id \in JobIds : delTodo'[id].state = "absent" /\ delTodo'[id].tb = 0
    BY <2>1, NoRowType DEF NoRows
  <2>4. QED  BY <2>1, <2>2, <2>3 DEF NoAttempts, CountedInv, RemovalsInv, LiveDl
<1>4. QED
  BY <1>1, <1>2, <1>3
  DEF Next, Api, SubmitOnce, PollOnce, ReapOnce, OnTorBox, Import, DayPasses, vars

\* deleteJob drops the row of a deletion only when the download is off TorBox, as
\* long as fewer things go wrong than the attempts it makes, through any restart
\* and whatever requests and the poller do to the row meanwhile: a counter never
\* outlives its row or counts for another.
THEOREM DropsAreClean ==
    ASSUME MaxFaults < deleteGiveUpAttempts
    PROVE  Spec => DroppedOnlyWhenRemoved
<1> DEFINE Clean == \A id \in JobIds : delPc = "row" /\ Deleting(id) /\ delTodo'[id] # delTodo[id]
                                          => dl[delTodo[id].tb].status \notin Live
<1>1. Init => CountedInv /\ RemovalsInv
  BY NoRowType
  DEF Init, StoreInit, DelInit, NoAttempts, CountedInv, RemovalsInv, Exists, NoRows
<1>2. IInv /\ CopiesInv /\ CountedInv /\ RemovalsInv /\ [Next]_vars => CountedInv' /\ RemovalsInv'
  BY NextRemovals
<1>3. IInv /\ CopiesInv /\ RemovalsInv => [Clean]_vars
  BY DeletingRow DEF RemovalsInv, LiveDl
<1>4. QED
  BY <1>1, <1>2, <1>3, Invariance, CopiesCorrect, PTL DEF Spec, DroppedOnlyWhenRemoved
=============================================================================
