------------------------------ MODULE SubmitProofs ------------------------------
(***************************************************************************)
(* What the submitter and the API promise, for any number of rows,         *)
(* downloads, requests and faults: nothing is submitted twice unless an    *)
(* answer of TorBox is lost, a row is `submitting` only while it is being  *)
(* submitted unless the process dies or a statement fails, and an NZB has  *)
(* no more rows than the handlers that raced for it, and the look-ups that *)
(* failed, explain.                                                        *)
(***************************************************************************)
EXTENDS CopyProofs, FiniteSetTheorems

\* Nothing on TorBox was submitted for this row.
Free(id) == \A d \in DlIds : dl[d].job # id

\* Neither a row the submitter could load, nor one it has yet to submit, has a
\* download already.
OnceInv == /\ SubmittedAtMostOnce
           /\ \A id \in JobIds : /\ jobs[id].state = "pending" => Free(id)
                                 /\ subTodo[id].state \in Unsent => Free(id)

-----------------------------------------------------------------------------
(* Submitted at most once *)

\* A copy of the submitter that has not been sent is an old one, or it was loaded
\* from a pending row: the outcome of a call is none of these unless TorBox has
\* answered that it did not take the NZB.
LEMMA UnsentCopies ==
    ASSUME IInv, CopiesInv, [Next]_vars, NEW id \in JobIds, subTodo'[id].state \in Unsent
    PROVE  subTodo[id].state \in Unsent \/ jobs[id].state = "pending"
<1> DEFINE Goal == subTodo[id].state \in Unsent \/ jobs[id].state = "pending"
<1> SUFFICES Goal
  OBVIOUS
<1>0. subTodo \in [JobIds -> Row] /\ SubFollows(id)
  BY DEF IInv, SubInv, SubType, CopiesInv
<1>1. CASE subTodo' = subTodo
  BY <1>1
<1>2. CASE SubLoad
  BY <1>2, NoRowType DEF SubLoad, SubAdvance, JobsByState, Unsent
<1>3. ASSUME NEW i \in JobIds, SubAdvance(NoRows) \/ SubAdvance(Without(subTodo, i))
      PROVE  Goal
  BY <1>0, <1>3, NoRowType DEF SubAdvance, Without, NoRows, Unsent
<1>4. ASSUME NEW i \in JobIds, Submitting(i), subTodo[i].state # "absent" => subTodo[i].state \in Unsent,
             \A other \in JobIds : other # i => subTodo'[other] = subTodo[other]
      PROVE  Goal
  BY <1>4 DEF Submitting, Oldest
<1>5. ASSUME NEW i \in JobIds, subPc = "call", Submitting(i)
      PROVE  subTodo[i].state = "submitting"
  BY <1>5 DEF CopiesInv, SubFollows, InCall, Submitting, Oldest
<1>6. ASSUME NEW i \in JobIds, subPc = "mark", Submitting(i)
      PROVE  subTodo[i].state = "pending"
  BY <1>6 DEF CopiesInv, SubFollows, InCall, Submitting, Oldest
<1>7. ASSUME NEW i \in JobIds, SubMark(i)
      PROVE  Goal
  BY <1>0, <1>3, <1>4, <1>6, <1>7 DEF SubMark, Unsent
<1>8. ASSUME NEW i \in JobIds, SubRefused(i) \/ SubLimited(i) \/ \E d \in DlIds : SubCreated(i, d)
      PROVE  Goal
  BY <1>0, <1>4, <1>5, <1>8 DEF SubRefused, SubLimited, SubCreated, SubOutcome, Unsent
<1>9. ASSUME NEW i \in JobIds, SubSave(i)
      PROVE  Goal
  BY <1>3, <1>9 DEF SubSave
<1>10. CASE SubCooldownEnds \/ \E i \in JobIds, d \in DlIds : SubAnswerLost(i, d)
  BY <1>1, <1>10 DEF SubCooldownEnds, SubAnswerLost, subVars
<1>11. CASE Restart
  BY <1>11, NoRowType DEF Restart, NoRows, Unsent
<1>12. CASE SubmitOnce
  BY <1>2, <1>7, <1>8, <1>9, <1>10, <1>12 DEF SubmitOnce, SubStep
<1>13. QED
  BY <1>1, <1>11, <1>12
  DEF Next, Api, PollOnce, DeleteOnce, ReapOnce, OnTorBox, Import, DayPasses, vars, subVars

\* A row that is pending after a step was so before, is new, or is one whose
\* submission TorBox has turned down.
LEMMA PendingRows ==
    ASSUME IInv, CopiesInv, [Next]_vars, NEW id \in JobIds, jobs'[id].state = "pending"
    PROVE  jobs[id].state = "pending" \/ id = nextId \/ subTodo[id].state = "pending"
BY StepChanges DEF Changed, Withdrawn, Created, Sent, Tracked, Taken

\* A download is created for the row the submitter has marked and still holds.
LEMMA StartsInCall ==
    ASSUME IInv, CopiesInv, NEW d \in DlIds, NEW id \in JobIds, Starts(d, id)
    PROVE  /\ subTodo[id].state = "submitting"
           /\ jobs[id].state \in {"submitting", "absent"}
BY DEF Starts, CopiesInv, SubFollows, InCall, Submitting, Oldest

LEMMA NextOnce ==
    ASSUME "lost" \notin FaultKinds, IInv, CopiesInv, OnceInv, [Next]_vars
    PROVE  OnceInv'
<1>0. \A d \in DlIds : Moves(d) \/ \E id \in JobIds : Starts(d, id)
  BY StepDownloads
<1>1. ASSUME NEW id \in JobIds, Free(id), subTodo'[id].state # "queued" \/ jobs'[id].state = "pending"
      PROVE  Free(id)'
  <2>1. ASSUME NEW d \in DlIds, Starts(d, id)
        PROVE  FALSE
    <3>1. subTodo'[id].state = "queued" /\ jobs' = jobs
      BY <2>1 DEF Starts, storeVars
    <3>2. jobs[id].state # "pending"
      BY <2>1, StartsInCall
    <3>3. QED  BY <1>1, <3>1, <3>2
  <2>2. ASSUME NEW d \in DlIds PROVE dl'[d].job # id
    BY <1>0, <1>1, <2>1 DEF Free, Moves, Starts
  <2>3. QED  BY <2>2 DEF Free
<1>2. ASSUME NEW id \in JobIds, jobs'[id].state = "pending"
      PROVE  Free(id)'
  <2>1. Free(nextId)
    BY IdsNat DEF CopiesInv, OwnersInv, Free, IInv, TorBoxInv, Downloads, Download, JobIds
  <2>2. Free(id)
    BY <1>2, <2>1, PendingRows DEF OnceInv, Unsent
  <2>3. QED  BY <1>1, <1>2, <2>2
<1>3. ASSUME NEW id \in JobIds, subTodo'[id].state \in Unsent
      PROVE  Free(id)'
  <2>1. Free(id)
    BY <1>3, UnsentCopies DEF OnceInv
  <2>2. QED  BY <1>1, <1>3, <2>1 DEF Unsent
<1>4. ASSUME NEW d \in DlIds, NEW e \in DlIds, dl'[d].job # 0, dl'[d].job = dl'[e].job, d # e
      PROVE  FALSE
  <2>1. ASSUME NEW a \in DlIds, NEW b \in DlIds, a # b, NEW id \in JobIds, Starts(a, id),
               dl'[b].job = id
        PROVE  FALSE
    BY <2>1, StartsInCall DEF Starts, OnceInv, Free, Unsent
  <2>2. ASSUME NEW id \in JobIds, Starts(d, id)
        PROVE  FALSE
    BY <1>4, <2>1, <2>2 DEF Starts
  <2>3. ASSUME NEW id \in JobIds, Starts(e, id)
        PROVE  FALSE
    BY <1>4, <2>1, <2>3 DEF Starts
  <2>4. Moves(d) /\ Moves(e)
    BY <1>0, <2>2, <2>3
  <2>5. QED  BY <1>4, <2>4 DEF Moves, OnceInv, SubmittedAtMostOnce
<1>5. QED  BY <1>2, <1>3, <1>4 DEF OnceInv, SubmittedAtMostOnce

\* An NZB is never on TorBox twice for one row, whatever crashes, failed writes,
\* refusals and rate limits come in between, as long as no answer of TorBox is
\* lost: the row is marked before the call, and a copy that was sent is never
\* taken for one that was not.
THEOREM NeverSubmittedTwice ==
    ASSUME "lost" \notin FaultKinds
    PROVE  Spec => []SubmittedAtMostOnce
<1>1. Init => OnceInv
  BY DEF Init, TorBoxInit, StoreInit, UnusedDl, OnceInv, SubmittedAtMostOnce, Free, JobIds
<1>2. IInv /\ CopiesInv /\ OnceInv /\ [Next]_vars => OnceInv'
  BY NextOnce
<1>3. OnceInv => SubmittedAtMostOnce
  BY DEF OnceInv
<1>4. QED  BY <1>1, <1>2, <1>3, Invariance, CopiesCorrect, PTL DEF Spec

-----------------------------------------------------------------------------
(* `submitting` means that a submission is in progress *)

\* Only the submitter marks rows; what the others write is none of its states.
LEMMA OthersRows ==
    ASSUME IInv, CopiesInv, [Next]_vars, ~SubmitOnce
    PROVE  \A id \in JobIds : Withdrawn(id) \/ Created(id) \/ Tracked(id) \/ Taken(id)
<1> DEFINE Goal == \A id \in JobIds : Withdrawn(id) \/ Created(id) \/ Tracked(id) \/ Taken(id)
<1> SUFFICES Goal
  OBVIOUS
<1>1. CASE Api
  BY <1>1, ApiRows, OneRow, UnchangedRow
<1>2. CASE PollOnce
  BY <1>2, PolRows, OneRow, UnchangedRow
<1>3. CASE ReapOnce
  <2>1. ReapImported => Goal
    BY ReapedRows
  <2>2. QED  BY <1>3, <2>1, ReapRows, OneRow, UnchangedRow
<1>4. CASE DeleteOnce
  BY <1>4, DelRows, OneRow, UnchangedRow
<1>5. CASE OnTorBox \/ Import \/ DayPasses \/ Restart
  BY <1>5, WorldRows, OneRow, UnchangedRow
<1>6. CASE UNCHANGED vars
  BY <1>6, UnchangedRow DEF vars, sharedVars, storeVars
<1>7. QED  BY <1>1, <1>2, <1>3, <1>4, <1>5, <1>6 DEF Next

\* A write that does not fail leaves the state it was given, if the row is there.
LEMMA UpdatedState ==
    ASSUME NEW id \in JobIds, NEW row \in Row, jobs \in [JobIds -> Row], UpdateJob(id, row)
    PROVE  Alone(id) /\ jobs'[id].state \in {row.state, "absent"}
<1>1. jobs'[id] = (IF jobs[id].state = "absent" THEN jobs[id] ELSE [row EXCEPT !.aged = FALSE])
      /\ Alone(id)
  BY DEF UpdateJob, Written, Alone
<1>2. [row EXCEPT !.aged = FALSE].state = row.state
  BY DEF Row
<1>3. QED  BY <1>1, <1>2

LEMMA NextInProgress ==
    ASSUME FaultKinds \cap {"crash", "store"} = {}, IInv, CopiesInv, SubmittingIsInProgress,
           [Next]_vars
    PROVE  SubmittingIsInProgress'
<1>0. /\ jobs \in [JobIds -> Row] /\ subTodo \in [JobIds -> Row]
      /\ \A id \in JobIds : jobs[id].state = "submitting" => InCall(id)
  BY DEF IInv, StoreInv, Table, SubInv, SubType, SubmittingIsInProgress, InCall
<1>1. SUFFICES ASSUME NEW id \in JobIds, jobs'[id].state = "submitting"
               PROVE  InCall(id)'
  BY DEF SubmittingIsInProgress, InCall
<1>2. ASSUME jobs' = jobs, subTodo' = subTodo, subPc' = subPc
      PROVE  InCall(id)'
  BY <1>0, <1>1, <1>2 DEF InCall, Submitting, Oldest
<1>3. CASE ~SubmitOnce
  <2>1. UNCHANGED subVars
    BY <1>3 DEF Next, Api, PollOnce, DeleteOnce, ReapOnce, OnTorBox, Import, DayPasses, Restart,
            Fault, vars, subVars
  <2>2. jobs[id].state = "submitting"
    BY <1>1, <1>3, OthersRows DEF Withdrawn, Created, Tracked, Taken
  <2>3. QED  BY <1>0, <2>1, <2>2 DEF InCall, Submitting, Oldest, subVars
<1>4. CASE SubLoad
  BY <1>0, <1>1, <1>4 DEF SubLoad, storeVars, InCall
<1>5. ASSUME NEW i \in JobIds, SubMark(i)
      PROVE  InCall(id)'
  <2> DEFINE row == [subTodo[i] EXCEPT !.state = "submitting"]
  <2>1. /\ UpdateJob(i, row) /\ subTodo' = [subTodo EXCEPT ![i] = row] /\ subPc' = "call"
        /\ Submitting(i)
    BY <1>5 DEF SubMark, StoreError, Fault
  <2>2. row \in Row /\ row.state = "submitting"
    BY <1>0 DEF Row, States
  <2> HIDE DEF row
  <2>3. id = i
    <3>1. jobs[id].state # "submitting"
      BY <1>0, <1>5 DEF SubMark, InCall
    <3>2. QED  BY <1>0, <1>1, <2>1, <2>2, <3>1, UpdatedState DEF Alone
  <2>4. Submitting(i)'
    BY <1>0, <2>1, <2>2, OldestStays DEF Submitting
  <2>5. QED  BY <2>1, <2>3, <2>4 DEF InCall
<1>6. ASSUME NEW i \in JobIds, NEW s \in {"queued", "pending", "failed"}, NEW d,
             Submitting(i), SubOutcome(i, s, d), jobs' = jobs
      PROVE  InCall(id)'
  <2> DEFINE row == [subTodo[i] EXCEPT !.state = s, !.tb = d]
  <2>1. row.state = s /\ subTodo' = [subTodo EXCEPT ![i] = row] /\ subPc' = "save"
    BY <1>0, <1>6 DEF SubOutcome, Row
  <2> HIDE DEF row
  <2>2. Submitting(i)'
    BY <1>0, <1>6, <2>1, OldestStays DEF Submitting
  <2>3. id = i
    BY <1>0, <1>1, <1>6, OldestUnique DEF InCall, Submitting
  <2>4. QED  BY <2>1, <2>2, <2>3 DEF InCall
<1>7. ASSUME NEW i \in JobIds, SubRefused(i) \/ SubLimited(i) \/ \E d \in DlIds : SubCreated(i, d)
      PROVE  InCall(id)'
  BY <1>6, <1>7 DEF SubRefused, SubLimited, SubCreated, storeVars
<1>8. ASSUME NEW i \in JobIds, SubSave(i)
      PROVE  FALSE
  <2>1. UpdateJob(i, subTodo[i]) /\ InCall(i)
    BY <1>8 DEF SubSave, Persist, StoreError, Fault, InCall
  <2>2. subTodo[i].state \in {"queued", "pending", "failed"}
    BY <1>8, <2>1 DEF SubSave, CopiesInv, SubFollows, Submitting, Oldest
  <2>3. id # i /\ jobs[id].state = "submitting"
    BY <1>0, <1>1, <2>1, <2>2, UpdatedState DEF Alone
  <2>4. QED  BY <1>0, <2>1, <2>3, OldestUnique DEF InCall, Submitting
<1>9. CASE SubCooldownEnds \/ \E i \in JobIds, d \in DlIds : SubAnswerLost(i, d)
  BY <1>2, <1>9 DEF SubCooldownEnds, SubAnswerLost, subVars, storeVars
<1>10. QED  BY <1>3, <1>4, <1>5, <1>7, <1>8, <1>9 DEF SubmitOnce, SubStep

\* A row in the state job.go calls "submit to TorBox in progress" is one that the
\* submitter is at, if no statement fails and the process is not restarted: a
\* rate limit, a refusal or a lost answer never leaves it behind.
THEOREM SubmittingInProgress ==
    ASSUME FaultKinds \cap {"crash", "store"} = {}
    PROVE  Spec => []SubmittingIsInProgress
<1>1. Init => SubmittingIsInProgress
  BY NoRowType DEF Init, StoreInit, SubmittingIsInProgress
<1>2. IInv /\ CopiesInv /\ SubmittingIsInProgress /\ [Next]_vars => SubmittingIsInProgress'
  BY NextInProgress
<1>3. QED  BY <1>1, <1>2, Invariance, CopiesCorrect, PTL DEF Spec

-----------------------------------------------------------------------------
(* The rows of an NZB *)

\* No write gives a row another NZB.
LEMMA NzbKept ==
    ASSUME IInv, CopiesInv, [Next]_vars, nextId' = nextId, NEW id \in JobIds, Exists(id)'
    PROVE  Exists(id) /\ jobs'[id].nzb = jobs[id].nzb
<1>1. ~Created(id)
  BY IdsNat DEF Created, IInv
<1>2. QED
  BY <1>1, StepChanges DEF Changed, Withdrawn, Sent, Tracked, Taken, SameJob, Exists

LEMMA RowSets == ASSUME NEW S \in SUBSET JobIds PROVE IsFiniteSet(S) /\ Cardinality(S) \in Nat
<1>1. IsFiniteSet(JobIds)
  BY StoreAssumption, FS_Interval DEF JobIds
<1>2. IsFiniteSet(S)
  BY <1>1, FS_Subset
<1>3. QED  BY <1>2, FS_CardinalityType

LEMMA HandlerSets ==
    ASSUME NEW S \in SUBSET Handlers
    PROVE  /\ IsFiniteSet(S)
           /\ Cardinality(S) \in Nat
           /\ Cardinality(Handlers) \in Nat
           /\ Cardinality(S) <= Cardinality(Handlers)
BY SabApiAssumption, FS_Subset, FS_CardinalityType

\* The rows an NZB has and those that handlers are about to add for it.
Bound(k) == Cardinality(RowsOf(k)) + Cardinality(Creating(k))
               <= Cardinality(Handlers) + failedLookups[k]

LEMMA CountTypes ==
    ASSUME NEW k \in Nzbs
    PROVE  /\ Cardinality(RowsOf(k)) \in Nat /\ Cardinality(RowsOf(k))' \in Nat
           /\ Cardinality(Creating(k)) \in Nat /\ Cardinality(Creating(k))' \in Nat
           /\ Cardinality(Handlers) \in Nat
<1>1. RowsOf(k) \in SUBSET JobIds /\ RowsOf(k)' \in SUBSET JobIds
  BY DEF RowsOf, Exists
<1>2. Creating(k) \in SUBSET Handlers /\ Creating(k)' \in SUBSET Handlers
  BY DEF Creating
<1>3. QED  BY <1>1, <1>2, RowSets, HandlerSets

LEMMA LookupsGrow ==
    ASSUME HistoryType, [Next]_vars, NEW k \in Nzbs
    PROVE  /\ failedLookups[k] \in Nat /\ failedLookups'[k] \in Nat
           /\ failedLookups[k] <= failedLookups'[k]
<1>1. TallyLookups \/ UNCHANGED failedLookups
  BY DEF Next, Api, SubmitOnce, PollOnce, DeleteOnce, ReapOnce, OnTorBox, Import, DayPasses,
         Restart, vars, historyVars
<1>2. QED  BY <1>1 DEF TallyLookups, HistoryType, LookupsType

\* A step that adds neither a row nor an intention to add one.
LEMMA FewerRows ==
    ASSUME HistoryType, [Next]_vars, NEW k \in Nzbs, Bound(k),
           RowsOf(k)' \subseteq RowsOf(k), Creating(k)' \subseteq Creating(k)
    PROVE  Bound(k)'
<1>1. RowsOf(k) \in SUBSET JobIds /\ Creating(k) \in SUBSET Handlers
  BY DEF RowsOf, Creating
<1>2. Cardinality(RowsOf(k)') <= Cardinality(RowsOf(k))
  BY <1>1, RowSets, FS_Subset
<1>3. Cardinality(Creating(k)') <= Cardinality(Creating(k))
  BY <1>1, HandlerSets, FS_Subset
<1>4. QED  BY <1>2, <1>3, CountTypes, LookupsGrow DEF Bound

\* A look-up finds no row because there is none, and then no more rows can be on
\* their way than there are handlers; or because it failed, and that is counted.
LEMMA FindBounded ==
    ASSUME IInv, HistoryType, [Next]_vars, TallyLookups, NEW k \in Nzbs, Bound(k),
           NEW h \in Handlers, NEW n \in Nzbs, AddFind(h, n)
    PROVE  Bound(k)'
<1> DEFINE new == [Idle EXCEPT !.op = "create", !.nzb = n]
<1>0. new.nzb = n /\ new.op = "create"
  BY DEF Idle
<1> HIDE DEF new
<1>1. /\ req' = [req EXCEPT ![h] = new] /\ req \in [Handlers -> Request]
      /\ jobs' = jobs /\ req[h].op = "idle"
  BY DEF AddFind, storeVars, new, IInv, ApiInv
<1>2. RowsOf(k)' = RowsOf(k)
  BY <1>1 DEF RowsOf, Exists
<1>3. Creating(k)' = IF n = k THEN Creating(k) \cup {h} ELSE Creating(k)
  BY <1>0, <1>1 DEF Creating
<1>4. CASE n # k
  BY <1>2, <1>3, <1>4, FewerRows
<1>5. CASE n = k /\ FindOne(k) = {}
  <2>1. RowsOf(k)' = {}
    BY <1>2, <1>5 DEF RowsOf, FindOne
  <2>2. Cardinality(RowsOf(k)') = 0
    BY <2>1, FS_EmptySet
  <2>3. Cardinality(Creating(k)') <= Cardinality(Handlers)
    BY HandlerSets DEF Creating
  <2>4. QED  BY <2>2, <2>3, CountTypes, LookupsGrow DEF Bound
<1>6. CASE n = k /\ FindOne(k) # {}
  <2>1. faults' # faults
    <3>1. faults \in Nat
      BY FaultsAssumption DEF IInv, StoreInv
    <3>2. faults' = faults + 1
      BY <1>6 DEF AddFind, NotFound, Fault
    <3>3. QED  BY <3>1, <3>2
  <2>2. Creating(k)' \ Creating(k) # {}
    BY <1>1, <1>3, <1>6 DEF Creating
  <2>3. failedLookups'[k] = failedLookups[k] + 1
    BY <2>1, <2>2 DEF TallyLookups
  <2>4. Cardinality(Creating(k)') <= Cardinality(Creating(k)) + 1
    <3>1. Creating(k) \in SUBSET Handlers /\ Creating(k)' = Creating(k) \cup {h}
      BY <1>3, <1>6 DEF Creating
    <3>2. IsFiniteSet(Creating(k)) /\ Cardinality(Creating(k)) \in Nat
      BY <3>1, HandlerSets
    <3>3. Cardinality(Creating(k) \cup {h}) <= Cardinality(Creating(k)) + 1
      BY <3>2, FS_AddElement
    <3>4. QED  BY <3>1, <3>3
  <2>5. Cardinality(RowsOf(k)') = Cardinality(RowsOf(k))
    BY <1>2
  <2>6. QED  BY <2>3, <2>4, <2>5, CountTypes, LookupsGrow DEF Bound
<1>7. QED  BY <1>4, <1>5, <1>6

\* The row a handler adds is the one it was about to add.
LEMMA CreateBounded ==
    ASSUME IInv, HistoryType, [Next]_vars, NEW k \in Nzbs, Bound(k),
           NEW h \in Handlers, AddCreate(h)
    PROVE  Bound(k)'
<1>0. /\ req \in [Handlers -> Request] /\ jobs \in [JobIds -> Row] /\ nextId \in Nat
      /\ req' = [req EXCEPT ![h] = Idle] /\ req[h].op = "create" /\ Idle.op = "idle"
  BY IdsNat DEF AddCreate, IInv, ApiInv, StoreInv, Table, Idle
<1>1. Creating(k)' = Creating(k) \ {h}
  BY <1>0 DEF Creating
<1>2. CASE UNCHANGED storeVars
  <2>1. RowsOf(k)' = RowsOf(k)
    BY <1>2 DEF RowsOf, Exists, storeVars
  <2>2. QED  BY <1>1, <2>1, FewerRows
<1>3. CASE CreateJob(req[h].nzb)
  <2> DEFINE new == NewRow(req[h].nzb)
  <2>1. jobs' = [jobs EXCEPT ![nextId] = new] /\ new.nzb = req[h].nzb
    BY <1>3 DEF CreateJob, NewRow, NoRow
  <2> HIDE DEF new
  <2>2. CASE req[h].nzb # k
    <3>1. RowsOf(k)' \subseteq RowsOf(k)
      BY <1>0, <2>1, <2>2 DEF RowsOf, Exists
    <3>2. QED  BY <1>1, <3>1, FewerRows
  <2>3. CASE req[h].nzb = k
    <3>1. RowsOf(k)' \in SUBSET (RowsOf(k) \cup {nextId})
      BY <1>0, <2>1 DEF RowsOf, Exists
    <3>2. Cardinality(RowsOf(k)') <= Cardinality(RowsOf(k)) + 1
      <4>1. RowsOf(k) \in SUBSET JobIds
        BY DEF RowsOf
      <4>2. IsFiniteSet(RowsOf(k)) /\ Cardinality(RowsOf(k)) \in Nat
        BY <4>1, RowSets
      <4>3. /\ IsFiniteSet(RowsOf(k) \cup {nextId})
            /\ Cardinality(RowsOf(k) \cup {nextId}) <= Cardinality(RowsOf(k)) + 1
        BY <4>2, FS_AddElement
      <4>4. Cardinality(RowsOf(k)') <= Cardinality(RowsOf(k) \cup {nextId})
        BY <3>1, <4>3, FS_Subset
      <4>5. Cardinality(RowsOf(k) \cup {nextId}) \in Nat /\ Cardinality(RowsOf(k)') \in Nat
        BY <4>3, FS_CardinalityType, CountTypes
      <4>6. QED  BY <4>2, <4>3, <4>4, <4>5
    <3>3. Cardinality(Creating(k)') = Cardinality(Creating(k)) - 1
      <4>1. Creating(k) \in SUBSET Handlers /\ h \in Creating(k)
        BY <1>0, <2>3 DEF Creating
      <4>2. IsFiniteSet(Creating(k))
        BY <4>1, HandlerSets
      <4>3. QED  BY <1>1, <4>1, <4>2, FS_RemoveElement
    <3>4. QED  BY <3>2, <3>3, CountTypes, LookupsGrow DEF Bound
  <2>4. QED  BY <2>2, <2>3
<1>4. QED  BY <1>2, <1>3 DEF AddCreate, StoreError

\* Every other step adds no row, and no handler that would.
LEMMA OthersBounded ==
    ASSUME IInv, CopiesInv, HistoryType, [Next]_vars, NEW k \in Nzbs, Bound(k),
           nextId' = nextId,
           \A h \in Handlers : req'[h] = req[h] \/ req'[h].op # "create"
    PROVE  Bound(k)'
<1>1. RowsOf(k)' \subseteq RowsOf(k)
  BY NzbKept DEF RowsOf
<1>2. Creating(k)' \subseteq Creating(k)
  BY DEF Creating
<1>3. QED  BY <1>1, <1>2, FewerRows

LEMMA NextBounded ==
    ASSUME IInv, CopiesInv, HistoryType, DuplicatesBounded, [Next]_vars
    PROVE  DuplicatesBounded'
<1>0. SUFFICES ASSUME NEW k \in Nzbs PROVE Bound(k)'
  BY DEF DuplicatesBounded, Bound
<1>1. Bound(k) /\ req \in [Handlers -> Request]
  BY DEF DuplicatesBounded, Bound, IInv, ApiInv
<1>2. ASSUME NEW h \in Handlers, NEW id \in JobIds, NEW op \in {"delete", "purge"},
             DelRead(h, id, op)
      PROVE  Bound(k)'
  BY <1>1, <1>2, OthersBounded DEF DelRead, storeVars
<1>3. ASSUME NEW h \in Handlers, DelWrite(h)
      PROVE  Bound(k)'
  <2>1. nextId' = nextId
    BY <1>3 DEF DelWrite, Persist, UpdateJob, DeleteJob, StoreError, storeVars
  <2>2. \A g \in Handlers : req'[g] = req[g] \/ req'[g].op # "create"
    BY <1>1, <1>3 DEF DelWrite, Idle
  <2>3. QED  BY <1>1, <2>1, <2>2, OthersBounded
<1>4. CASE Api
  <2>1. ASSUME NEW h \in Handlers, NEW n \in Nzbs, AddFind(h, n) PROVE Bound(k)'
    BY <1>1, <1>4, <2>1, FindBounded DEF Api
  <2>2. ASSUME NEW h \in Handlers, AddCreate(h) PROVE Bound(k)'
    BY <1>1, <2>2, CreateBounded
  <2>3. QED  BY <1>2, <1>3, <1>4, <2>1, <2>2 DEF Api, ApiNext
<1>5. CASE ~Api
  <2>1. nextId' = nextId
    <3>1. SubmitOnce => nextId' = nextId
      BY SubRows
    <3>2. PollOnce => nextId' = nextId
      BY PolRows
    <3>3. ReapOnce => nextId' = nextId
      BY ReapRows
    <3>4. DeleteOnce => nextId' = nextId
      BY DelRows
    <3>5. OnTorBox \/ Import \/ DayPasses \/ Restart => nextId' = nextId
      BY WorldRows
    <3>6. UNCHANGED vars => nextId' = nextId
      BY DEF vars, sharedVars, storeVars
    <3>7. QED  BY <1>5, <3>1, <3>2, <3>3, <3>4, <3>5, <3>6 DEF Next
  <2>2. req' = req \/ \A h \in Handlers : req'[h].op # "create"
    BY <1>5
    DEF Next, SubmitOnce, PollOnce, DeleteOnce, ReapOnce, OnTorBox, Import, DayPasses, Restart,
        Idle, vars, apiVars
  <2>3. QED  BY <1>1, <2>1, <2>2, OthersBounded
<1>6. QED  BY <1>4, <1>5

\* The look-ups of handleAddURL and handleAddFile keep the rows of one NZB below the
\* number of requests that can be served at one time, plus one for every look-up
\* whose error was dropped; for every number of both, through failed INSERTs,
\* restarts, deletions and whatever the loops write meanwhile.
THEOREM DuplicatesCounted == Spec => []DuplicatesBounded
<1>1. Init => DuplicatesBounded
  <2>1. ASSUME Init, NEW k \in Nzbs
        PROVE  Cardinality(RowsOf(k)) = 0 /\ Cardinality(Creating(k)) = 0 /\ failedLookups[k] = 0
    <3>1. RowsOf(k) = {} /\ Creating(k) = {} /\ failedLookups[k] = 0
      BY <2>1, NoRowType DEF Init, StoreInit, ApiInit, Idle, RowsOf, Creating, Exists
    <3>2. QED  BY <3>1, FS_EmptySet
  <2>2. QED  BY <2>1, CountTypes DEF DuplicatesBounded
<1>2. IInv /\ CopiesInv /\ HistoryType /\ DuplicatesBounded /\ [Next]_vars => DuplicatesBounded'
  BY NextBounded
<1>3. QED  BY <1>1, <1>2, Invariance, HistoryInvariance, CopiesCorrect, PTL DEF Spec
=============================================================================
