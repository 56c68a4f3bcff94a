------------------------------ MODULE RepairProofs ------------------------------
(***************************************************************************)
(* What healing does to the library and how often it may try.              *)
(*                                                                         *)
(* A link keeps its content because everything that leads to its path from *)
(* a release name (the map of discoverSymlinks, the symlink rows and the   *)
(* reconciler's copies of them) leads to a job with the content that the   *)
(* client put there.  Resubmissions are bounded because each one is        *)
(* counted in a row or in a copy that is going to be written.              *)
(***************************************************************************)
EXTENDS HealingProofs

\* The release names that the downloads of an NZB may have.
Names(k) == {ReleaseOf[k]} \cup HealedAs[k]

\* A release name leads to one NZB.
NamesDiffer == \A k, l \in Nzbs : Names(k) \cap Names(l) # {} => k = l

\* findBestMatch tells the episodes of an NZB apart, under all its names.
MatchesAreRight ==
    \A k \in Nzbs : \A r, q \in Names(k) :
        \A f \in FilesOf[r] : \A g \in FindBestMatch(FilesOf[q], f) : EpisodeOf[g] = EpisodeOf[f]

\* The library holds files of the imported releases.
ShelfIsImported ==
    \A p \in Paths : Shelf[p] # NoLink =>
        /\ \E id \in JobIds : Shelf[p].rel = ReleaseOf[Held[id]]
        /\ Shelf[p].file \in FilesOf[Shelf[p].rel]

\* A row that may be healed is about the NZB it was about at first, and its folder
\* has one of that NZB's names.
Ours(id, row) == row.state \in HealRelevant => /\ row.nzb = Held[id]
                                               /\ row.path \in Names(Held[id])

\* So are all copies of rows that are healed, the downloads, and the map.
OursInv ==
    /\ \A id \in JobIds : Ours(id, jobs[id]) /\ Ours(id, recTodo[id])
    /\ healPc \in {"call", "save", "fail"} => Ours(healId, healRow)
    /\ hreq.op \in {"retry", "give_up"} => Ours(hreq.id, hreq.row)
    /\ \A d \in DlIds : dl[d].job # 0 => dl[d].release \in Names(Held[dl[d].job])
    /\ \A r \in Releases : byRelease[r] # 0 => r \in Names(Held[byRelease[r]])

\* A link to t shows the content c.
Fits(t, c) == /\ t # NoLink
              /\ c.nzb \in Nzbs
              /\ t.rel \in Names(c.nzb)
              /\ t.file \in FilesOf[t.rel]
              /\ EpisodeOf[t.file] = c.episode

\* A symlink row remembers a target that was right for its path, and belongs to the
\* job that was imported there.
Remembers(sym) == /\ sym.path \in Paths
                  /\ Fits(sym.target, owner[sym.path])
                  /\ Held[sym.job] = owner[sym.path].nzb

\* The reconciler is about to record the link of this copy.
Recording(s) == recPc = "row" /\ FirstIn({t \in SymIds : recSyms[t] # NoSym}, s)

\* Links show their content, symlink rows and their copies remember it, and the
\* copies are of the job that is being finished.
LinksInv ==
    /\ \A p \in Paths : links[p] # NoLink => Fits(links[p], owner[p])
    /\ \A s \in SymIds : Tracked(s) => Remembers(syms[s]) /\ s < nextSym
    /\ \A s \in SymIds : recSyms[s] # NoSym =>
          /\ Remembers(recSyms[s])
          /\ s < nextSym
          /\ Tracked(s) => syms[s].path = recSyms[s].path
          /\ recPc \in {"link", "row"}
          /\ \A id \in JobIds : Oldest(recTodo, id) => recSyms[s].job = id
    /\ \A s \in SymIds : Recording(s) => Fits(recNew, owner[recSyms[s].path])

-----------------------------------------------------------------------------
(* Rows keep their NZB and their names *)

\* A row that is written keeps what its copy says.
LEMMA PersistOurs ==
    ASSUME jobs \in [JobIds -> Row], \A i \in JobIds : Ours(i, jobs[i]),
           NEW id \in JobIds, NEW row \in Row, Ours(id, row), Persist(id, row)
    PROVE  \A i \in JobIds : Ours(i, jobs'[i])
<1>1. CASE UpdateJob(id, row)
  <2> DEFINE new == [row EXCEPT !.aged = FALSE]
  <2>1. new.state = row.state /\ new.nzb = row.nzb /\ new.path = row.path
    BY DEF Row
  <2> HIDE DEF new
  <2>2. jobs' = [jobs EXCEPT ![id] = IF jobs[id].state = "absent" THEN jobs[id] ELSE new]
    BY <1>1 DEF UpdateJob, Written, new
  <2>3. QED  BY <2>1, <2>2 DEF Ours
<1>2. CASE StoreError
  BY <1>2 DEF StoreError, storeVars
<1>3. QED  BY <1>1, <1>2 DEF Persist

\* What a heal writes is about the same NZB.
LEMMA MarkedOurs ==
    ASSUME NEW id, NEW row \in Row, row.state \in HealRelevant, Ours(id, row)
    PROVE  Ours(id, MarkedFailed(row))
BY DEF MarkedFailed, Ours, Row

\* Who does not heal leaves the copies alone, and the names of the downloads.
Unnamed == \A d \in DlIds : dl'[d].job = dl[d].job /\ dl'[d].release = dl[d].release

LEMMA OursKept ==
    ASSUME OursInv, Unnamed, UNCHANGED healingVars, \A id \in JobIds : Ours(id, jobs'[id])
    PROVE  OursInv'
<1>1. UNCHANGED <<recTodo, healPc, healId, healRow, byRelease, hreq>>
  BY DEF healingVars, healVars, healLocals, recVars, operatorVars
<1>2. QED  BY <1>1 DEF OursInv, Unnamed, Ours

\* The statements of the others: no row appears among the heal-relevant ones.
LEMMA OthersOurs ==
    ASSUME IInv, OursInv, Api \/ DeleteOnce \/ ReapOnce \/ BackoffEnds \/ DayPasses
    PROVE  \A id \in JobIds : Ours(id, jobs'[id])
<1>0. jobs \in [JobIds -> Row] /\ \A id \in JobIds : Ours(id, jobs[id])
  BY DEF IInv, StoreInv, Table, OursInv
<1> SUFFICES \A id \in JobIds : Ours(id, jobs'[id])
  OBVIOUS
<1>a. \A id : Ours(id, NoRow)
  BY NoRowType, HealStates DEF Ours
<1>1. ASSUME NEW id \in JobIds, DeleteJob(id) PROVE \A i \in JobIds : Ours(i, jobs'[i])
  BY <1>0, <1>a, <1>1 DEF DeleteJob, Without
<1>2. CASE UNCHANGED jobs
  BY <1>0, <1>2
<1>3. CASE Api
  <2>1. ASSUME NEW h \in Handlers, AddCreate(h) PROVE \A i \in JobIds : Ours(i, jobs'[i])
    <3>1. CASE CreateJob(req[h].nzb)
      <4>1. Ours(nextId, NewRow(req[h].nzb))
        BY DEF NewRow, NoRow, Ours, HealRelevant
      <4>2. QED  BY <1>0, <3>1, <4>1 DEF CreateJob
    <3>2. QED  BY <1>2, <2>1, <3>1 DEF AddCreate, StoreError, storeVars
  <2>2. ASSUME NEW h \in Handlers, DelWrite(h) PROVE \A i \in JobIds : Ours(i, jobs'[i])
    <3> DEFINE row == [req[h].row EXCEPT !.state = "deleted"]
    <3>1. req[h].id \in JobIds /\ req[h].row \in Row
      BY <2>2 DEF DelWrite, IInv, ApiInv, Serving, Request
    <3>2. row \in Row /\ Ours(req[h].id, row)
      BY <3>1 DEF Row, States, Ours, HealRelevant
    <3>3. Persist(req[h].id, row) \/ DeleteJob(req[h].id) \/ UNCHANGED jobs
      BY <2>2 DEF DelWrite, StoreError, storeVars
    <3> HIDE DEF row
    <3>4. QED  BY <1>0, <1>1, <1>2, <3>1, <3>2, <3>3, PersistOurs
  <2>3. QED  BY <1>2, <1>3, <2>1, <2>2 DEF Api, ApiNext, AddFind, DelRead, storeVars
<1>4. CASE DeleteOnce
  <2>1. UNCHANGED jobs \/ \E id \in JobIds : DeleteJob(id)
    BY <1>4 DEF DeleteOnce, DelStep, DelLoad, DelNothing, DelRemoved, DelRefused, DelDir, DelRow,
                StoreError, storeVars
  <2>2. QED  BY <1>1, <1>2, <2>1
<1>5. CASE ReapOnce
  BY <1>0, <1>a, <1>5 DEF ReapOnce, ReapImported
<1>6. ASSUME NEW id \in JobIds, BackoffPasses(id) \/ Age(id)
      PROVE  \A i \in JobIds : Ours(i, jobs'[i])
  <2>1. jobs' = [jobs EXCEPT ![id].healed = "past"] \/ jobs' = [jobs EXCEPT ![id].aged = TRUE]
    BY <1>6 DEF BackoffPasses, Age
  <2>2. jobs'[id].state = jobs[id].state /\ jobs'[id].nzb = jobs[id].nzb /\ jobs'[id].path = jobs[id].path
    BY <1>0, <2>1 DEF Row
  <2>3. \A i \in JobIds : i # id => jobs'[i] = jobs[i]
    BY <1>0, <2>1
  <2>4. QED  BY <1>0, <2>2, <2>3 DEF Ours
<1>7. QED  BY <1>3, <1>4, <1>5, <1>6 DEF BackoffEnds, DayPasses

\* Downloads keep their names while others than the healer use the account.
LEMMA OthersUnnamed ==
    ASSUME IInv, Api \/ DeleteOnce \/ ReapOnce \/ BackoffEnds \/ DayPasses \/ OnTorBox \/ Client
    PROVE  Unnamed
<1>0. dl \in [DlIds -> Download]
  BY DEF IInv, TorBoxInv, Downloads
<1>1. ASSUME NEW d \in DlIds, NEW s, dl' = [dl EXCEPT ![d].status = s]
      PROVE  Unnamed
  BY <1>0, <1>1 DEF Unnamed, Download
<1>2. CASE UNCHANGED dl
  BY <1>2 DEF Unnamed
<1>3. CASE DeleteOnce
  BY <1>1, <1>2, <1>3
  DEF DeleteOnce, DelStep, DelLoad, DelNothing, DelRemoved, DelRefused, DelDir, DelRow,
      ControlUsenet, torboxVars
<1>4. CASE OnTorBox
  BY <1>1, <1>2, <1>4
  DEF OnTorBox, TorBoxNext, Finish, Break, Vanish, Surface, Unsurface, Rotate
<1>5. CASE Api \/ ReapOnce \/ BackoffEnds \/ DayPasses \/ Client
  BY <1>2, <1>5 DEF Api, ReapOnce, BackoffEnds, DayPasses, OnClock, Client, torboxVars
<1>6. QED  BY <1>3, <1>4, <1>5

\* A row that discoverSymlinks maps a name to has this name.
LEMMA LastWithName ==
    ASSUME NEW r \in Releases, LastWith(r) # 0
    PROVE  /\ LastWith(r) \in JobIds
           /\ jobs[LastWith(r)].state \in HealRelevant /\ jobs[LastWith(r)].path = r
<1> DEFINE S == {id \in JobIds : jobs[id].state \in HealRelevant /\ jobs[id].path = r}
<1>1. S # {}
  BY DEF LastWith
<1>2. \E id \in S : \A other \in S : other <= id
  BY <1>1, HasGreatest, StoreAssumption DEF JobIds
<1>3. (CHOOSE id \in S : \A other \in S : other <= id) \in S
  BY <1>2
<1>4. LastWith(r) \in S
  BY <1>1, <1>3 DEF LastWith
<1>5. QED  BY <1>4

\* A step of the healer.
LEMMA HealOurs == ASSUME IInv, OursInv, HealOnce PROVE OursInv'
<1> DEFINE Rows == \A id \in JobIds : Ours(id, jobs'[id])
           Copy == healPc' \in {"call", "save", "fail"} => Ours(healId', healRow')
           Map  == \A r \in Releases : byRelease'[r] # 0 => r \in Names(Held[byRelease'[r]])
           Owners == \A d \in DlIds : dl'[d].job # 0 => dl'[d].release \in Names(Held[dl'[d].job])
<1>a. UNCHANGED <<recTodo, hreq>>
  BY DEF HealOnce, recVars, operatorVars
<1>b. /\ jobs \in [JobIds -> Row] /\ \A id \in JobIds : Ours(id, jobs[id])
      /\ healPc \in {"call", "save", "fail"} => HeldToHeal(dl, asked, healId, healRow)
      /\ dl \in [DlIds -> Download]
  BY DEF IInv, StoreInv, Table, HealInv, TorBoxInv, Downloads, OursInv
<1>c. ASSUME UNCHANGED <<byRelease>> \/ HealReturn PROVE Map
  BY <1>c DEF HealReturn, NoReleases, OursInv
<1>d. ASSUME UNCHANGED jobs PROVE Rows
  BY <1>b, <1>d
<1>e. ASSUME UNCHANGED dl PROVE Owners
  BY <1>e DEF OursInv
<1>f. ASSUME healPc' \notin {"call", "save", "fail"} PROVE Copy
  BY <1>f
<1>h. ASSUME NEW pc, NEW id, NEW row, HealTo(pc, id, row)
      PROVE  healPc' = pc /\ healId' = id /\ healRow' = row /\ Map
  BY <1>c, <1>h DEF HealTo
<1>g. healPc \in {"call", "save", "fail"} =>
         /\ healRow \in Row /\ healRow.state \in HealRelevant /\ healId \in JobIds
         /\ Ours(healId, healRow) /\ Ours(healId, MarkedFailed(healRow))
  BY <1>b, MarkedOurs DEF HeldToHeal, WellFormed, OursInv
<1> SUFFICES Rows /\ Copy /\ Map /\ Owners
  BY <1>a DEF OursInv, Ours
<1>1. CASE HealLoad
  <2>1. Map
    BY <1>1, <1>b, LastWithName DEF HealLoad, NoReleases, Ours
  <2>2. QED  BY <1>1, <2>1, <1>d, <1>e, <1>f DEF HealLoad, storeVars, torboxVars
<1>2. ASSUME NEW p \in Paths, HealDiscover(p) PROVE Rows /\ Copy /\ Map /\ Owners
  BY <1>2, <1>c, <1>d, <1>e, <1>f DEF HealDiscover, storeVars, torboxVars
<1>3. CASE HealList
  BY <1>3, <1>d, <1>e, <1>f DEF HealList, NoReleases, storeVars, torboxVars
<1>4. ASSUME NEW s \in SymIds, HealDrop(s) \/ HealStat(s) \/ HealMark(s)
      PROVE  Rows /\ Copy /\ Map /\ Owners
  BY <1>4, <1>c, <1>d, <1>e, <1>f
  DEF HealDrop, HealStat, HealMark, Checking, storeVars, torboxVars
<1>5. CASE HealBroken
  BY <1>5, <1>c, <1>d, <1>e, <1>f DEF HealBroken, storeVars, torboxVars
<1>6. ASSUME NEW id \in JobIds, HealSkip(id) PROVE Rows /\ Copy /\ Map /\ Owners
  BY <1>6, <1>c, <1>d, <1>e, <1>f DEF HealSkip, storeVars, torboxVars
<1>7. ASSUME NEW id \in JobIds, HealStart(id) PROVE Rows /\ Copy /\ Map /\ Owners
  <2>1. jobs[id] \in Row /\ jobs[id].state \in HealRelevant /\ Ours(id, jobs[id])
    BY <1>7, <1>b DEF HealStart, Healable, HealRelevant
  <2>2. Ours(id, MarkedFailed(jobs[id]))
    BY <2>1, MarkedOurs
  <2>3. HealTo("fail", id, MarkedFailed(jobs[id])) \/ HealTo("call", id, jobs[id])
    BY <1>7 DEF HealStart
  <2>4. Copy /\ Map
    BY <2>1, <2>2, <2>3, <1>h
  <2>5. QED  BY <1>7, <2>4, <1>d, <1>e DEF HealStart, storeVars, torboxVars
<1>8. ASSUME NEW d \in DlIds, Resubmitted(d)
      PROVE  Rows /\ Owners
  <2>1. healRow.nzb = Held[healId] /\ healId \in JobIds
    BY <1>8, <1>g DEF Resubmitted, Ours
  <2>2. PICK r \in HealedAs[healRow.nzb] : CreateNamed(d, healId, r)
    BY <1>8 DEF Resubmitted
  <2>3. dl' = [dl EXCEPT ![d] = [status |-> "working", job |-> healId, release |-> r]]
    BY <2>2 DEF CreateNamed
  <2>4. \A e \in DlIds : e # d => dl'[e] = dl[e]
    BY <2>3, <1>b
  <2>5. dl'[d].job = healId /\ dl'[d].release = r
    BY <2>3, <1>b
  <2>6. r \in Names(Held[healId])
    BY <2>1, <2>2 DEF Names
  <2>7. Owners
    BY <2>4, <2>5, <2>6 DEF OursInv
  <2>8. QED  BY <1>8, <2>7, <1>d DEF Resubmitted, storeVars
<1>9. ASSUME NEW d \in DlIds, HealCreated(d) PROVE Rows /\ Copy /\ Map /\ Owners
  <2> DEFINE row == [healRow EXCEPT !.state = "healing", !.tb = d]
  <2>1. Resubmitted(d) /\ HealTo("save", healId, row)
    BY <1>9 DEF HealCreated
  <2>2. healRow \in Row /\ Ours(healId, healRow) /\ healRow.state \in HealRelevant
    BY <2>1, <1>g DEF Resubmitted
  <2>3. row.nzb = healRow.nzb /\ row.path = healRow.path
    BY <2>2 DEF Row
  <2>4. Ours(healId, row)
    BY <2>2, <2>3 DEF Ours
  <2> HIDE DEF row
  <2>5. QED  BY <2>1, <2>4, <1>8, <1>h
<1>10. ASSUME NEW d \in DlIds, HealAnswerLost(d) PROVE Rows /\ Copy /\ Map /\ Owners
  BY <1>10, <1>8, <1>g, <1>h DEF HealAnswerLost, Resubmitted
<1>11. CASE HealRefused
  BY <1>11, <1>d, <1>e, <1>g, <1>h DEF HealRefused, storeVars, torboxVars
<1>12. CASE HealSave
  <2>1. Persist(healId, healRow) /\ UNCHANGED dl
    BY <1>12 DEF HealSave, Persist, torboxVars
  <2>2. Rows
    BY <1>12, <2>1, <1>b, <1>g, PersistOurs DEF HealSave
  <2>3. HealTo("trigger", 0, NoRow) \/ HealTo("fail", healId, MarkedFailed(healRow))
    BY <1>12 DEF HealSave
  <2>4. Copy /\ Map
    BY <1>12, <2>3, <1>g, <1>h DEF HealSave
  <2>5. QED  BY <2>1, <2>2, <2>4, <1>e
<1>13. CASE HealFail
  <2>1. Rows
    BY <1>13, <1>b, <1>g, PersistOurs DEF HealFail
  <2>2. QED  BY <1>13, <2>1, <1>e, <1>h DEF HealFail, torboxVars
<1>14. CASE HealEnd
  BY <1>14, <1>c, <1>d, <1>e, <1>f DEF HealEnd, HealReturn, storeVars, torboxVars
<1>15. QED
  BY <1>1, <1>2, <1>3, <1>4, <1>5, <1>6, <1>7, <1>9, <1>10, <1>11, <1>12, <1>13, <1>14
  DEF HealOnce, HealStep

\* A step of the reconciler.
LEMMA RecOurs == ASSUME IInv, OursInv, HealReconcileOnce PROVE OursInv'
<1> DEFINE Rows == \A id \in JobIds : Ours(id, jobs'[id])
           Todo == \A id \in JobIds : Ours(id, recTodo'[id])
<1>a. UNCHANGED <<healPc, healId, healRow, byRelease, hreq, dl>>
  BY DEF HealReconcileOnce, RecStep, RecLoad, RecListFails, RecListed, RecWait, RecFailed, RecOpen,
         RecFinish, RecRepoint, RecUnmatched, RecRecord, RecEnd, RecNext, healLocals, operatorVars,
         torboxVars
<1>b. /\ jobs \in [JobIds -> Row] /\ \A id \in JobIds : Ours(id, jobs[id])
      /\ recTodo \in [JobIds -> Row] /\ \A id \in JobIds : Ours(id, recTodo[id])
  BY DEF IInv, StoreInv, RecInv, Table, OursInv
<1>c. \A id : Ours(id, NoRow)
  BY NoRowType, HealStates DEF Ours
<1>d. ASSUME UNCHANGED jobs PROVE Rows
  BY <1>b, <1>d
<1>e. ASSUME UNCHANGED recTodo \/ (\E id \in JobIds : recTodo' = Without(recTodo, id)) \/ recTodo' = NoRows
      PROVE  Todo
  BY <1>b, <1>c, <1>e DEF Without, NoRows
<1>f. ASSUME NEW id \in JobIds, Oldest(recTodo, id)
      PROVE  /\ HeldToHeal(dl, asked, id, recTodo[id])
             /\ recTodo[id] \in Row /\ recTodo[id].state \in HealRelevant
             /\ Ours(id, recTodo[id]) /\ RecRelease(id) \in Names(Held[id])
             /\ RecRelease(id) \in Releases
  <2>1. HeldToHeal(dl, asked, id, recTodo[id]) /\ RecRelease(id) \in Releases
    BY <1>f, RecHeldOK DEF IInv
  <2>2. recTodo[id].tb \in DlIds /\ dl[recTodo[id].tb].job = id /\ id # 0
    BY <2>1, HealStates DEF HeldToHeal, WellFormed, JobIds
  <2>3. QED  BY <2>1, <2>2, <1>b DEF HeldToHeal, RecRelease, OursInv
<1> SUFFICES Rows /\ Todo
  BY <1>a DEF OursInv, Ours
<1>1. CASE RecLoad
  BY <1>1, <1>b, <1>c, <1>d DEF RecLoad, JobsByState, storeVars
<1>2. CASE RecListFails \/ RecListed \/ RecEnd
  BY <1>2, <1>d, <1>e DEF RecListFails, RecListed, RecEnd, RecReturn, storeVars
<1>3. ASSUME NEW id \in JobIds, RecWait(id) \/ RecOpen(id) PROVE Rows /\ Todo
  BY <1>3, <1>d, <1>e DEF RecWait, RecOpen, RecNext, storeVars
<1>4. ASSUME NEW id \in JobIds, RecFailed(id) PROVE Rows /\ Todo
  <2> DEFINE row == MarkedFailed(recTodo[id])
  <2>1. Oldest(recTodo, id) /\ Persist(id, row) /\ recTodo' = Without(recTodo, id)
    BY <1>4 DEF RecFailed, Reconciling, RecNext
  <2>2. row \in Row
    BY <2>1, <1>f, FailedOK DEF HeldToHeal, WellFormed
  <2>3. Ours(id, row)
    BY <2>1, <1>f, MarkedOurs
  <2> HIDE DEF row
  <2>4. QED  BY <2>1, <2>2, <2>3, <1>b, <1>e, PersistOurs
<1>5. ASSUME NEW id \in JobIds, RecFinish(id) PROVE Rows /\ Todo
  <2> DEFINE failed == MarkedFailed(recTodo[id])
             healed == Restored(recTodo[id], RecRelease(id))
  <2>1. Oldest(recTodo, id) /\ recTodo' = Without(recTodo, id)
        /\ (Persist(id, failed) \/ Persist(id, healed))
    BY <1>5 DEF RecFinish, Persist
  <2>2. failed \in Row /\ healed \in Row
    <3>1. HeldToHeal(dl, asked, id, failed) /\ HeldToHeal(dl, asked, id, healed)
      BY <2>1, <1>f, FailedOK, RestoredOK
    <3>2. QED  BY <3>1 DEF HeldToHeal, WellFormed
  <2>3. Ours(id, failed)
    BY <2>1, <1>f, MarkedOurs
  <2>4. healed.nzb = recTodo[id].nzb /\ healed.path = RecRelease(id)
    BY <2>1, <1>f DEF Restored, Row
  <2>5. Ours(id, healed)
    BY <2>1, <2>4, <1>f DEF Ours
  <2> HIDE DEF failed, healed
  <2>6. QED  BY <2>1, <2>2, <2>3, <2>5, <1>b, <1>e, PersistOurs
<1>6. ASSUME NEW id \in JobIds, NEW s \in SymIds,
             RecRepoint(id, s) \/ RecUnmatched(id, s) \/ RecRecord(id, s)
      PROVE  Rows /\ Todo
  BY <1>6, <1>d, <1>e DEF RecRepoint, RecUnmatched, RecRecord, storeVars
<1>7. QED
  BY <1>1, <1>2, <1>3, <1>4, <1>5, <1>6 DEF HealReconcileOnce, RecStep

\* A request of the operator.
LEMMA OperatorOurs == ASSUME IInv, OursInv, Operator PROVE OursInv'
<1> DEFINE Rows == \A id \in JobIds : Ours(id, jobs'[id])
           Copy == hreq'.op \in {"retry", "give_up"} => Ours(hreq'.id, hreq'.row)
<1>a. UNCHANGED <<recTodo, healPc, healId, healRow, byRelease, dl>>
  BY DEF Operator, healLocals, recVars, torboxVars
<1>b. jobs \in [JobIds -> Row] /\ \A id \in JobIds : Ours(id, jobs[id])
  BY DEF IInv, StoreInv, Table, OursInv
<1>c. hreq.op \in {"retry", "give_up"} =>
         hreq.id \in JobIds /\ hreq.row \in Row /\ Ours(hreq.id, hreq.row)
  BY DEF IInv, OperatorInv, HeldToHeal, WellFormed, OursInv
<1>d. hreq' = HealApiIdle => Copy
  BY DEF HealApiIdle
<1> SUFFICES Rows /\ Copy
  BY <1>a DEF OursInv, Ours
<1>1. ASSUME NEW id \in JobIds, NEW op, HealRead(id, op) PROVE Rows /\ Copy
  BY <1>1, <1>b DEF HealRead, storeVars
<1>2. CASE RetryWrite
  <2> DEFINE row == [hreq.row EXCEPT !.heals = 0, !.healed = "never"]
  <2>1. hreq.id \in JobIds /\ hreq.row \in Row /\ Ours(hreq.id, hreq.row)
    BY <1>2, <1>c DEF RetryWrite
  <2>2. row \in Row /\ row.state = hreq.row.state /\ row.nzb = hreq.row.nzb /\ row.path = hreq.row.path
    BY <2>1 DEF Row
  <2>3. Ours(hreq.id, row)
    BY <2>1, <2>2 DEF Ours
  <2>4. Persist(hreq.id, row)
    BY <1>2 DEF RetryWrite, Persist
  <2> HIDE DEF row
  <2>5. Rows
    BY <2>1, <2>2, <2>3, <2>4, <1>b, PersistOurs
  <2>6. QED  BY <1>2, <2>5, <1>d DEF RetryWrite
<1>3. CASE GiveUpWrite
  <2> DEFINE row == [hreq.row EXCEPT !.state = "manually_resolved"]
  <2>1. hreq.id \in JobIds /\ hreq.row \in Row
    BY <1>3, <1>c DEF GiveUpWrite
  <2>2. row \in Row /\ row.state = "manually_resolved"
    BY <2>1 DEF Row, States
  <2>3. Ours(hreq.id, row)
    BY <2>2 DEF Ours, HealRelevant
  <2>4. Persist(hreq.id, row)
    BY <1>3 DEF GiveUpWrite, Persist
  <2> HIDE DEF row
  <2>5. Rows
    BY <2>1, <2>2, <2>3, <2>4, <1>b, PersistOurs
  <2>6. hreq' = [hreq EXCEPT !.op = "drop"] \/ hreq' = HealApiIdle
    BY <1>3 DEF GiveUpWrite
  <2>7. Copy
    BY <2>6, <1>d DEF IInv, OperatorInv, HealApiType, HealRequest
  <2>8. QED  BY <2>5, <2>7
<1>4. CASE GiveUpDrop
  BY <1>4, <1>b, <1>d DEF GiveUpDrop, storeVars
<1>5. QED  BY <1>1, <1>2, <1>3, <1>4 DEF Operator, HealApiNext

\* Every step keeps the rows about the same NZB.
LEMMA NextOurs == ASSUME IInv, OursInv, [Next]_vars PROVE OursInv'
<1>0. \A id \in JobIds : Ours(id, jobs[id])
  BY DEF OursInv
<1>1. CASE Api \/ DeleteOnce \/ ReapOnce \/ BackoffEnds \/ DayPasses
  <2>1. UNCHANGED healingVars
    BY <1>1 DEF Api, DeleteOnce, ReapOnce, BackoffEnds, DayPasses, OnClock
  <2>2. QED  BY <1>1, <2>1, OthersOurs, OthersUnnamed, OursKept
<1>2. CASE OnTorBox \/ Client
  <2>1. UNCHANGED <<healingVars, jobs>>
    BY <1>2 DEF OnTorBox, Client, storeVars
  <2>2. Unnamed
    BY <1>2, OthersUnnamed
  <2>3. QED  BY <1>0, <2>1, <2>2, OursKept
<1>3. CASE Restart
  <2>1. \A id : Ours(id, NoRow)
    BY NoRowType, HealStates DEF Ours
  <2>2. QED
    BY <1>0, <1>3, <2>1
    DEF Restart, HealReturn, RecReturn, HealApiIdle, NoRows, NoReleases, OursInv, storeVars, torboxVars
<1>4. CASE UNCHANGED vars
  <2>1. UNCHANGED <<healingVars, jobs, dl>>
    BY <1>4 DEF vars, storeVars, torboxVars
  <2>2. QED  BY <1>0, <2>1, OursKept DEF Unnamed
<1>5. QED  BY <1>1, <1>2, <1>3, <1>4, HealOurs, RecOurs, OperatorOurs DEF Next

LEMMA InitOurs == ASSUME Init PROVE OursInv
<1>1. ASSUME NEW id \in JobIds
      PROVE  jobs[id].nzb = Held[id] /\ jobs[id].path = ReleaseOf[Held[id]]
  BY NoRowType DEF Init, ImportedRow, Row
<1>2. \A id \in JobIds : Ours(id, jobs[id])
  BY <1>1 DEF Ours, Names
<1>3. \A id : Ours(id, NoRow)
  BY NoRowType, HealStates DEF Ours
<1>4. \A d \in DlIds : dl[d].job # 0 => dl[d].release \in Names(Held[dl[d].job])
  BY DEF Init, UnusedDl, Names
<1>5. QED
  BY <1>2, <1>3, <1>4
  DEF Init, HealInit, RecInit, HealApiInit, HealApiIdle, NoReleases, NoRows, OursInv

-----------------------------------------------------------------------------
(* Links keep their content *)

\* What replaces a file is a file of the new release with the same episode.
LEMMA NewFileRight ==
    ASSUME MatchesAreRight, NEW k \in Nzbs, NEW r \in Names(k), NEW q \in Names(k),
           NEW f \in FilesOf[r], NEW g \in NewFile(q, f)
    PROVE  g \in FilesOf[q] /\ EpisodeOf[g] = EpisodeOf[f]
<1>1. Shown(q) = FilesOf[q] \/ Shown(q) = {}
  BY DEF Shown
<1>2. CASE f \in Shown(q)
  BY <1>1, <1>2 DEF NewFile
<1>3. CASE f \notin Shown(q)
  <2>1. g \in FindBestMatch(Shown(q), f)
    BY <1>3 DEF NewFile
  <2>2. FindBestMatch(Shown(q), f) \subseteq Shown(q)
    BY DEF FindBestMatch
  <2>3. QED  BY <1>1, <2>1, <2>2 DEF MatchesAreRight
<1>4. QED  BY <1>2, <1>3

\* Statements that only drop symlink rows or check them, while nobody touches the
\* library and the reconciler does not move.
LEMMA LinksKept ==
    ASSUME LinksInv, UNCHANGED <<libraryVars, recVars, nextSym>>,
           \A s \in SymIds : Tracked(s)' => /\ Tracked(s)
                                            /\ syms'[s].job = syms[s].job
                                            /\ syms'[s].path = syms[s].path
                                            /\ syms'[s].target = syms[s].target
    PROVE  LinksInv'
BY DEF LinksInv, Remembers, Fits, Recording, libraryVars, recVars

\* Tracked rows that nothing writes.
LEMMA SymsKept ==
    ASSUME LinksInv, UNCHANGED <<libraryVars, recVars, symVars>>
    PROVE  LinksInv'
BY LinksKept DEF symVars, Tracked

\* Rows that are cascaded.
LEMMA CascadeLinks ==
    ASSUME LinksInv, UNCHANGED <<libraryVars, recVars>>, Cascade
    PROVE  LinksInv'
<1>1. \A s \in SymIds : Tracked(s)' => Tracked(s) /\ syms'[s] = syms[s]
  BY DEF Cascade, Tracked
<1>2. QED  BY <1>1, LinksKept DEF Cascade

\* The client renames links and takes their content along.
LEMMA RenameLinks ==
    ASSUME IInv, LinksInv, Client, "upgrade" \notin FaultKinds
    PROVE  LinksInv'
<1>1. PICK p \in Paths, q \in Paths : Rename(p, q)
  BY DEF Client, ClientNext, Upgrade, Fault
<1>2. UNCHANGED <<recVars, symVars>>
  BY DEF Client, healingVars
<1>3. /\ links' = [links EXCEPT ![q] = links[p], ![p] = NoLink]
      /\ owner' = [owner EXCEPT ![q] = owner[p]]
      /\ links[p] # NoLink /\ p # q
  BY <1>1 DEF Rename
<1>4. links \in [Paths -> Target] /\ owner \in [Paths -> Content]
  BY DEF IInv, LibraryType
<1>5. \A x \in Paths : owner[x].nzb \in Nzbs => owner'[x] = owner[x]
  BY <1>1, <1>3, <1>4, StoreAssumption DEF Rename, NoContent
<1>6. \A x \in Paths : links'[x] # NoLink => Fits(links'[x], owner'[x])
  <2>1. Fits(links[p], owner[p])
    BY <1>3 DEF LinksInv
  <2>2. links'[q] = links[p] /\ owner'[q] = owner[p] /\ links'[p] = NoLink
    BY <1>3, <1>4
  <2>3. \A x \in Paths : x # p /\ x # q => links'[x] = links[x] /\ owner'[x] = owner[x]
    BY <1>3, <1>4
  <2>4. QED  BY <2>1, <2>2, <2>3 DEF LinksInv
<1>7. \A t, x : x \in Paths /\ Fits(t, owner[x]) => Fits(t, owner'[x]) /\ owner'[x] = owner[x]
  BY <1>5 DEF Fits
<1>8. UNCHANGED <<syms, nextSym, recPc, recTodo, recSyms, recNew>>
  BY <1>2 DEF symVars, recVars
<1>9. \A sym : Remembers(sym) => Remembers(sym)'
  BY <1>7 DEF Remembers, Fits
<1>10. \A s \in SymIds : Recording(s)' => Fits(recNew', owner'[recSyms'[s].path])
  <2>1. \A s \in SymIds : Recording(s) => recSyms[s] # NoSym
    BY DEF Recording, FirstIn
  <2>2. \A s \in SymIds : Recording(s) => recSyms[s].path \in Paths
    BY <2>1 DEF LinksInv, Remembers
  <2>3. QED  BY <1>7, <1>8, <2>2 DEF LinksInv, Recording
<1>11. \A s \in SymIds : Tracked(s)' => Remembers(syms[s])' /\ s < nextSym'
  BY <1>8, <1>9 DEF LinksInv, Tracked
<1>12. \A s \in SymIds : recSyms'[s] # NoSym =>
          /\ Remembers(recSyms[s])'
          /\ s < nextSym'
          /\ Tracked(s)' => syms'[s].path = recSyms'[s].path
          /\ recPc' \in {"link", "row"}
          /\ \A id \in JobIds : Oldest(recTodo', id) => recSyms'[s].job = id
  BY <1>8, <1>9 DEF LinksInv, Tracked
<1>13. QED  BY <1>6, <1>10, <1>11, <1>12 DEF LinksInv, Fits

\* Discovery records a link for the job that its release name leads to.
LEMMA UpsertLinks ==
    ASSUME NamesDiffer, IInv, OursInv, LinksInv, NEW p \in Paths, Recordable(p),
           UpsertImportedSymlink(byRelease[links[p].rel], p), UNCHANGED <<libraryVars, recVars>>
    PROVE  LinksInv'
<1> DEFINE id == byRelease[links[p].rel]
<1>1. Fits(links[p], owner[p]) /\ links[p].rel \in Releases /\ id \in JobIds /\ id # 0
  BY DEF LinksInv, Recordable, Mapped, IInv, LibraryType, Target, HealInv, HealType
<1>2. Held[id] \in Nzbs /\ links[p].rel \in Names(Held[id])
  BY <1>1, LibraryAssumption DEF OursInv
<1>3. Held[id] = owner[p].nzb
  BY <1>1, <1>2 DEF NamesDiffer, Fits
<1>4. syms \in [SymIds -> Sym] /\ nextSym \in Nat /\ links' = links /\ owner' = owner
      /\ UNCHANGED <<recPc, recTodo, recSyms, recNew>>
  BY SymlinkStoreAssumption DEF IInv, SymInv, SymType, libraryVars, recVars
<1> HIDE DEF id
<1>5. ASSUME NEW new, new.job = id, new.path = p, new.target = links[p]
      PROVE  Remembers(new)'
  BY <1>1, <1>3, <1>4, <1>5 DEF Remembers, Fits
<1>6. \A sym : Remembers(sym) => Remembers(sym)'
  BY <1>4 DEF Remembers, Fits
<1>7. /\ \A s \in SymIds : Tracked(s)' => Remembers(syms[s])' /\ s < nextSym'
      /\ \A s \in SymIds : recSyms[s] # NoSym /\ Tracked(s)' => syms'[s].path = recSyms[s].path
      /\ nextSym' >= nextSym /\ nextSym' \in Nat
  <2>1. CASE RowsAt(p) # {}
    <3>1. /\ \A s \in RowsAt(p) : syms'[s] = [syms[s] EXCEPT !.job = id, !.target = links[p]]
          /\ \A s \in SymIds \ RowsAt(p) : syms'[s] = syms[s]
          /\ nextSym' = nextSym
      BY <2>1 DEF UpsertImportedSymlink, RowsAt, id
    <3>2. \A s \in RowsAt(p) : s \in SymIds /\ Tracked(s) /\ syms[s].path = p
      BY DEF RowsAt
    <3>3. ASSUME NEW s \in RowsAt(p)
          PROVE  syms'[s].job = id /\ syms'[s].path = p /\ syms'[s].target = links[p]
      <4>1. syms[s] \in Sym /\ syms'[s] = [syms[s] EXCEPT !.job = id, !.target = links[p]]
        BY <1>4, <3>1, <3>2
      <4>2. QED  BY <3>2, <4>1 DEF Sym
    <3>4. \A s \in RowsAt(p) : Remembers(syms[s])'
      BY <1>5, <3>3
    <3>5. ASSUME NEW s \in SymIds, s \notin RowsAt(p), Tracked(s)'
          PROVE  Tracked(s) /\ Remembers(syms[s])'
      <4>1. syms'[s] = syms[s] /\ Tracked(s)
        BY <3>1, <3>5 DEF Tracked
      <4>2. Remembers(syms[s])
        BY <4>1 DEF LinksInv
      <4>3. QED  BY <1>6, <4>1, <4>2
    <3>6. \A s \in SymIds : Tracked(s)' => Tracked(s) /\ Remembers(syms[s])' /\ syms'[s].path = syms[s].path
      BY <3>1, <3>2, <3>3, <3>4, <3>5
    <3>7. \A s \in SymIds : Tracked(s) =>
             s < nextSym /\ (recSyms[s] # NoSym => syms[s].path = recSyms[s].path)
      BY DEF LinksInv
    <3>8. \A s \in SymIds : Tracked(s)' => Remembers(syms[s])' /\ s < nextSym'
      BY <3>1, <3>6, <3>7
    <3>9. \A s \in SymIds : recSyms[s] # NoSym /\ Tracked(s)' => syms'[s].path = recSyms[s].path
      BY <3>6, <3>7
    <3>10. nextSym' >= nextSym /\ nextSym' \in Nat
      <4>1. nextSym' = nextSym
        BY <3>1
      <4>2. nextSym \in Nat
        BY <1>4
      <4>3. QED  BY <4>1, <4>2
    <3>11. QED  BY <3>8, <3>9, <3>10
  <2>2. CASE RowsAt(p) = {}
    <3> DEFINE new == [job |-> id, path |-> p, target |-> links[p], broken |-> FALSE]
    <3>1. syms' = [syms EXCEPT ![nextSym] = new] /\ nextSym' = nextSym + 1
      BY <2>2 DEF UpsertImportedSymlink, id
    <3>2. \A sym : sym = new => Remembers(sym)'
      BY <1>5
    <3> HIDE DEF new
    <3>3. \A s \in SymIds : s # nextSym => syms'[s] = syms[s]
      BY <1>4, <3>1
    <3>4. nextSym \in SymIds => syms'[nextSym] = new
      BY <1>4, <3>1
    <3>5. ASSUME NEW s \in SymIds, Tracked(s)'
          PROVE  Remembers(syms[s])'
      <4>1. CASE s = nextSym
        BY <3>2, <3>4, <4>1
      <4>2. CASE s # nextSym
        BY <1>6, <3>3, <3>5, <4>2 DEF LinksInv, Tracked
      <4>3. QED  BY <4>1, <4>2
    <3>6. \A s \in SymIds : recSyms[s] # NoSym => s # nextSym
      BY <1>4 DEF LinksInv, SymIds
    <3>7. \A s \in SymIds : Tracked(s)' => s < nextSym'
      BY <1>4, <3>1, <3>3 DEF LinksInv, Tracked, SymIds
    <3>8. QED  BY <1>4, <3>1, <3>3, <3>5, <3>6, <3>7 DEF LinksInv, Tracked
  <2>3. QED  BY <2>1, <2>2
<1>8. \A s \in SymIds : recSyms'[s] # NoSym =>
          /\ Remembers(recSyms[s])'
          /\ s < nextSym'
          /\ Tracked(s)' => syms'[s].path = recSyms'[s].path
          /\ recPc' \in {"link", "row"}
          /\ \A i \in JobIds : Oldest(recTodo', i) => recSyms'[s].job = i
  BY <1>4, <1>6, <1>7 DEF LinksInv, SymIds
<1>9. QED  BY <1>4, <1>7, <1>8 DEF LinksInv, Recording, Fits

\* A step of the healer.
LEMMA HealLinks ==
    ASSUME NamesDiffer, IInv, OursInv, LinksInv, HealOnce
    PROVE  LinksInv'
<1>1. UNCHANGED <<libraryVars, recVars>>
  BY DEF HealOnce, HealStep, HealLoad, HealDiscover, HealList, HealDrop, HealStat, HealMark,
         HealBroken, HealSkip, HealStart, HealCreated, HealAnswerLost, HealRefused, HealSave,
         HealFail, HealEnd, HealTo
<1>2. ASSUME NEW p \in Paths, HealDiscover(p) PROVE LinksInv'
  BY <1>1, <1>2, UpsertLinks, SymsKept DEF HealDiscover, SymlinkError
<1>3. ASSUME NEW s \in SymIds, DeleteImportedSymlink(s) PROVE LinksInv'
  <2>1. syms' = [syms EXCEPT ![s] = NoSym] /\ UNCHANGED nextSym /\ syms \in [SymIds -> Sym]
    BY <1>3 DEF DeleteImportedSymlink, IInv, SymInv, SymType
  <2>2. \A t \in SymIds : Tracked(t)' => Tracked(t) /\ syms'[t] = syms[t]
    BY <2>1 DEF Tracked
  <2>3. QED  BY <1>1, <2>1, <2>2, LinksKept
<1>4. ASSUME NEW s \in SymIds, SetSymlinkVerified(s, seenBroken) PROVE LinksInv'
  <2> DEFINE new == [syms[s] EXCEPT !.broken = seenBroken]
  <2>1. UNCHANGED nextSym /\ syms \in [SymIds -> Sym]
        /\ syms' = [syms EXCEPT ![s] = IF syms[s] = NoSym THEN syms[s] ELSE new]
    BY <1>4 DEF SetSymlinkVerified, IInv, SymInv, SymType
  <2>2. new.job = syms[s].job /\ new.path = syms[s].path /\ new.target = syms[s].target
    BY <2>1 DEF Sym
  <2> HIDE DEF new
  <2>3. \A t \in SymIds : Tracked(t)' => /\ Tracked(t)
                                         /\ syms'[t].job = syms[t].job
                                         /\ syms'[t].path = syms[t].path
                                         /\ syms'[t].target = syms[t].target
    BY <2>1, <2>2 DEF Tracked
  <2>4. QED  BY <1>1, <2>1, <2>3, LinksKept
<1>5. CASE UNCHANGED symVars
  BY <1>1, <1>5, SymsKept
<1>6. ASSUME NEW s \in SymIds, HealDrop(s) \/ HealStat(s) \/ HealMark(s) PROVE LinksInv'
  BY <1>3, <1>4, <1>5, <1>6 DEF HealDrop, HealStat, HealMark, SymlinkError
<1>7. QED
  BY <1>2, <1>5, <1>6
  DEF HealOnce, HealStep, HealLoad, HealList, HealBroken, HealSkip, HealStart, HealCreated,
      HealAnswerLost, HealRefused, HealSave, HealFail, HealEnd, HealTo

\* Requests of the operator drop symlink rows, or leave them.
LEMMA OperatorLinks == ASSUME IInv, LinksInv, Operator PROVE LinksInv'
<1>1. UNCHANGED <<libraryVars, recVars>>
  BY DEF Operator
<1>2. ASSUME NEW id, DeleteImportedSymlinksByJob(id) PROVE LinksInv'
  <2>1. \A s \in SymIds : Tracked(s)' => Tracked(s) /\ syms'[s] = syms[s]
    BY <1>2 DEF DeleteImportedSymlinksByJob, Tracked
  <2>2. QED  BY <1>1, <1>2, <2>1, LinksKept DEF DeleteImportedSymlinksByJob
<1>3. CASE UNCHANGED symVars
  BY <1>1, <1>3, SymsKept
<1>4. QED
  BY <1>2, <1>3
  DEF Operator, HealApiNext, HealRead, RetryWrite, GiveUpWrite, GiveUpDrop, SymlinkError

\* Of the copies there is one first.
LEMMA FirstUnique ==
    ASSUME NEW S \in SUBSET SymIds, NEW s, NEW t, FirstIn(S, s), FirstIn(S, t)
    PROVE  s = t
BY DEF FirstIn, SymIds

\* The reconciler takes up other copies, or none; it does not record.
LEMMA RecLinksKept ==
    ASSUME LinksInv, UNCHANGED <<libraryVars, symVars>>, recPc' # "row",
           \A s \in SymIds : recSyms'[s] # NoSym =>
              /\ Remembers(recSyms'[s]) /\ s < nextSym
              /\ Tracked(s) => syms[s].path = recSyms'[s].path
              /\ recPc' \in {"link", "row"}
              /\ \A id \in JobIds : Oldest(recTodo', id) => recSyms'[s].job = id
    PROVE  LinksInv'
<1>1. UNCHANGED <<links, owner, syms, nextSym>>
  BY DEF libraryVars, symVars
<1>2. \A sym : Remembers(sym) => Remembers(sym)'
  BY <1>1 DEF Remembers, Fits
<1>3. \A s \in SymIds : Tracked(s)' => Tracked(s) /\ Remembers(syms[s])' /\ s < nextSym'
  BY <1>1, <1>2 DEF LinksInv, Tracked
<1>4. \A s \in SymIds : recSyms'[s] # NoSym =>
         /\ Remembers(recSyms[s])' /\ s < nextSym'
         /\ Tracked(s)' => syms'[s].path = recSyms'[s].path
         /\ recPc' \in {"link", "row"}
         /\ \A id \in JobIds : Oldest(recTodo', id) => recSyms'[s].job = id
  BY <1>1, <1>2, <1>3
<1>5. \A p \in Paths : links'[p] # NoLink => Fits(links'[p], owner'[p])
  BY <1>1 DEF LinksInv
<1>6. QED  BY <1>3, <1>4, <1>5 DEF LinksInv, Recording

\* What a link is replaced by shows the same content.
LEMMA RepointFits ==
    ASSUME MatchesAreRight, IInv, OursInv, LinksInv, NEW id \in JobIds, NEW s \in SymIds,
           Linking(id, s),
           NEW f \in NewFile(RecRelease(id), recSyms[s].target.file)
    PROVE  /\ recSyms[s].path \in Paths
           /\ Fits([rel |-> RecRelease(id), file |-> f], owner[recSyms[s].path])
<1> DEFINE r == RecRelease(id)
           t == recSyms[s].target
           c == owner[recSyms[s].path]
<1>1. recSyms[s] # NoSym /\ Oldest(recTodo, id)
  BY DEF Linking, FirstIn
<1>2. recSyms[s].path \in Paths /\ Fits(t, c) /\ recSyms[s].job = id /\ Held[id] = c.nzb
  BY <1>1 DEF LinksInv, Remembers
<1>3. HeldToHeal(dl, asked, id, recTodo[id]) /\ r \in Releases
  BY <1>1, RecHeldOK DEF IInv
<1>4. recTodo[id].tb \in DlIds /\ dl[recTodo[id].tb].job = id /\ id # 0
  BY <1>3, HealStates DEF HeldToHeal, WellFormed, JobIds
<1>5. r \in Names(c.nzb)
  BY <1>2, <1>4 DEF OursInv, RecRelease
<1>6. c.nzb \in Nzbs /\ t.rel \in Names(c.nzb) /\ t.file \in FilesOf[t.rel]
      /\ EpisodeOf[t.file] = c.episode
  BY <1>2 DEF Fits
<1>7. f \in NewFile(r, t.file)
  OBVIOUS
<1> HIDE DEF r, t, c
<1>8. f \in FilesOf[r] /\ EpisodeOf[f] = EpisodeOf[t.file]
  BY <1>5, <1>6, <1>7, NewFileRight
<1>9. [rel |-> r, file |-> f] # NoLink
  BY <1>3, StoreAssumption DEF NoLink, r
<1>10. Fits([rel |-> r, file |-> f], c)
  BY <1>5, <1>6, <1>8, <1>9 DEF Fits
<1>11. QED  BY <1>2, <1>10 DEF r, c

\* A step of the reconciler.
LEMMA RecLinks ==
    ASSUME MatchesAreRight, IInv, OursInv, LinksInv, HealReconcileOnce
    PROVE  LinksInv'
<1>a. recSyms \in [SymIds -> Sym] /\ syms \in [SymIds -> Sym]
      /\ links \in [Paths -> Target] /\ owner \in [Paths -> Content]
  BY DEF IInv, RecInv, RecType, SymInv, SymType, LibraryType
<1>b. ASSUME recSyms' = NoSyms, recPc' # "row", UNCHANGED <<libraryVars, symVars>>
      PROVE  LinksInv'
  BY <1>b, RecLinksKept DEF NoSyms
<1>c. recPc \notin {"link", "row"} => recSyms = NoSyms
  BY <1>a DEF LinksInv, NoSyms
<1>1. CASE RecLoad
  BY <1>1, <1>b, <1>c DEF RecLoad
<1>2. CASE RecListFails
  BY <1>2, <1>b DEF RecListFails, RecReturn
<1>3. CASE RecListed
  BY <1>3, <1>b, <1>c DEF RecListed
<1>4. ASSUME NEW id \in JobIds, RecWait(id) \/ RecFailed(id) PROVE LinksInv'
  BY <1>4, <1>b DEF RecWait, RecFailed, RecNext
<1>5. ASSUME NEW id \in JobIds, RecOpen(id) PROVE LinksInv'
  <2>1. recSyms' = BrokenOf(id) /\ recPc' = "link" /\ recTodo' = recTodo /\ Oldest(recTodo, id)
        /\ UNCHANGED <<libraryVars, symVars>>
    BY <1>5 DEF RecOpen, Reconciling
  <2>2. \A s \in SymIds : recSyms'[s] # NoSym => recSyms'[s] = syms[s] /\ syms[s].job = id /\ Tracked(s)
    BY <2>1 DEF BrokenOf, Tracked
  <2>3. \A other \in JobIds : Oldest(recTodo, other) => other = id
    BY <2>1 DEF Oldest, JobIds
  <2>4. \A s \in SymIds : recSyms'[s] # NoSym => Remembers(recSyms'[s]) /\ s < nextSym
    BY <2>2 DEF LinksInv
  <2>5. QED  BY <2>1, <2>2, <2>3, <2>4, RecLinksKept
<1>6. ASSUME NEW id \in JobIds, RecFinish(id) PROVE LinksInv'
  BY <1>6, <1>b DEF RecFinish
<1>7. ASSUME NEW id \in JobIds, NEW s \in SymIds, RecRepoint(id, s) PROVE LinksInv'
  <2> DEFINE p == recSyms[s].path
  <2>1. Linking(id, s) /\ recPc' = "row" /\ recPc = "link"
        /\ links' = [links EXCEPT ![p] = recNew'] /\ owner' = owner
        /\ UNCHANGED <<recTodo, recSyms, syms, nextSym>>
    BY <1>7 DEF RecRepoint, AtomicReplace, symVars
  <2>2. p \in Paths /\ Fits(recNew', owner[p])
    BY <1>7, <2>1, RepointFits DEF RecRepoint
  <2>3. \A q \in Paths : links'[q] # NoLink => Fits(links'[q], owner'[q])
    BY <1>a, <2>1, <2>2 DEF LinksInv
  <2>4. \A sym : Remembers(sym) => Remembers(sym)'
    BY <2>1 DEF Remembers, Fits
  <2>5. \A t \in SymIds : Tracked(t)' => Tracked(t) /\ Remembers(syms[t])' /\ t < nextSym'
    BY <2>1, <2>4 DEF LinksInv, Tracked
  <2>6. \A t \in SymIds : recSyms'[t] # NoSym =>
           /\ Remembers(recSyms[t])' /\ t < nextSym'
           /\ Tracked(t)' => syms'[t].path = recSyms'[t].path
           /\ recPc' \in {"link", "row"}
           /\ \A i \in JobIds : Oldest(recTodo', i) => recSyms'[t].job = i
    BY <2>1, <2>4 DEF LinksInv, Tracked
  <2>7. \A t \in SymIds : Recording(t)' => t = s
    <3> DEFINE S == {t \in SymIds : recSyms[t] # NoSym}
    <3>1. FirstIn(S, s)
      BY <2>1 DEF Linking
    <3>2. \A t \in SymIds : Recording(t)' => FirstIn(S, t)
      BY <2>1 DEF Recording, FirstIn
    <3>3. S \in SUBSET SymIds
      OBVIOUS
    <3> HIDE DEF S
    <3>4. QED  BY <3>1, <3>2, <3>3, FirstUnique
  <2>8. \A t \in SymIds : Recording(t)' => Fits(recNew', owner'[recSyms'[t].path])
    BY <2>1, <2>2, <2>7
  <2>9. QED  BY <2>3, <2>5, <2>6, <2>8 DEF LinksInv
<1>8. ASSUME NEW s \in SymIds, recSyms' = [recSyms EXCEPT ![s] = NoSym]
      PROVE  \A t \in SymIds : recSyms'[t] # NoSym => recSyms'[t] = recSyms[t] /\ recSyms[t] # NoSym
  BY <1>a, <1>8
<1>9. ASSUME NEW id \in JobIds, NEW s \in SymIds, RecUnmatched(id, s) PROVE LinksInv'
  <2>1. recSyms' = [recSyms EXCEPT ![s] = NoSym] /\ recPc' = "link" /\ recPc = "link"
        /\ recTodo' = recTodo /\ UNCHANGED <<libraryVars, symVars>>
    BY <1>9 DEF RecUnmatched
  <2>2. QED  BY <1>8, <2>1, RecLinksKept DEF LinksInv
<1>10. ASSUME NEW id \in JobIds, NEW s \in SymIds, RecRecord(id, s) PROVE LinksInv'
  <2> DEFINE new == [syms[s] EXCEPT !.target = recNew, !.broken = FALSE]
  <2>1. recSyms' = [recSyms EXCEPT ![s] = NoSym] /\ recPc' = "link" /\ recPc = "row"
        /\ recTodo' = recTodo /\ UNCHANGED <<links, owner, nextSym>> /\ Recording(s)
        /\ (UNCHANGED syms \/ syms' = [syms EXCEPT ![s] = IF syms[s] = NoSym THEN syms[s] ELSE new])
    BY <1>10 DEF RecRecord, SymlinkError, UpdateSymlinkTarget, Linking, Recording, libraryVars, symVars
  <2>2. new.job = syms[s].job /\ new.path = syms[s].path /\ new.target = recNew
    BY <1>a DEF Sym
  <2> HIDE DEF new
  <2>3. recSyms[s] # NoSym
    BY <2>1 DEF Recording, FirstIn
  <2>4. \A sym : Remembers(sym) => Remembers(sym)'
    BY <2>1 DEF Remembers, Fits
  <2>5. Tracked(s) => Remembers(new)
    BY <2>1, <2>2, <2>3 DEF LinksInv, Remembers
  <2>6. ASSUME NEW t \in SymIds, Tracked(t)'
        PROVE  /\ Tracked(t) /\ syms'[t].path = syms[t].path
               /\ syms'[t] = syms[t] \/ (syms'[t] = new /\ t = s)
    <3>1. CASE t # s
      <4>1. syms'[t] = syms[t]
        BY <1>a, <2>1, <3>1
      <4>2. QED  BY <2>6, <4>1 DEF Tracked
    <3>2. CASE t = s
      <4>1. syms'[s] = syms[s] \/ (syms[s] # NoSym /\ syms'[s] = new)
        BY <1>a, <2>1
      <4>2. QED  BY <2>2, <2>6, <3>2, <4>1 DEF Tracked
    <3>3. QED  BY <3>1, <3>2
  <2>7. \A t \in SymIds : Tracked(t)' => Remembers(syms[t])' /\ t < nextSym'
    <3>1. \A t \in SymIds : Tracked(t)' => Remembers(syms'[t])
      BY <2>5, <2>6 DEF LinksInv
    <3>2. QED  BY <2>1, <2>4, <2>6, <3>1 DEF LinksInv
  <2>8. \A t \in SymIds : recSyms'[t] # NoSym =>
           /\ Remembers(recSyms[t])' /\ t < nextSym'
           /\ Tracked(t)' => syms'[t].path = recSyms'[t].path
           /\ recPc' \in {"link", "row"}
           /\ \A i \in JobIds : Oldest(recTodo', i) => recSyms'[t].job = i
    BY <1>8, <2>1, <2>4, <2>6 DEF LinksInv
  <2>9. \A q \in Paths : links'[q] # NoLink => Fits(links'[q], owner'[q])
    BY <2>1 DEF LinksInv
  <2>10. QED  BY <2>1, <2>7, <2>8, <2>9 DEF LinksInv, Recording
<1>11. CASE RecEnd
  BY <1>11, <1>b DEF RecEnd, RecReturn
<1>12. QED
  BY <1>1, <1>2, <1>3, <1>4, <1>5, <1>6, <1>7, <1>9, <1>10, <1>11 DEF HealReconcileOnce, RecStep

\* Every step keeps links to their content.
LEMMA NextLinks ==
    ASSUME NamesDiffer, MatchesAreRight, "upgrade" \notin FaultKinds,
           IInv, OursInv, LinksInv, [Next]_vars
    PROVE  LinksInv'
<1>1. CASE Api \/ DeleteOnce \/ ReapOnce
  <2>1. UNCHANGED <<libraryVars, recVars>> /\ Cascade
    BY <1>1 DEF Api, DeleteOnce, ReapOnce, healingVars
  <2>2. QED  BY <2>1, CascadeLinks
<1>2. CASE OnTorBox \/ BackoffEnds \/ DayPasses \/ UNCHANGED vars
  <2>1. UNCHANGED <<libraryVars, recVars, symVars>>
    BY <1>2 DEF OnTorBox, BackoffEnds, DayPasses, OnClock, vars, healingVars
  <2>2. QED  BY <2>1, SymsKept
<1>3. CASE Restart
  <2>1. recSyms' = NoSyms /\ recPc' = "idle" /\ UNCHANGED <<libraryVars, symVars>>
    BY <1>3 DEF Restart, RecReturn
  <2>2. QED  BY <2>1, RecLinksKept DEF NoSyms
<1>4. QED  BY <1>1, <1>2, <1>3, HealLinks, RecLinks, OperatorLinks, RenameLinks DEF Next

LEMMA InitLinks == ASSUME ShelfIsImported, Init PROVE LinksInv
<1>1. ASSUME NEW p \in Paths, links[p] # NoLink
      PROVE  Fits(links[p], owner[p])
  <2> DEFINE r == Shelf[p].rel
  <2>1. links[p] = Shelf[p]
        /\ owner[p] = [nzb |-> NzbOf(r), episode |-> EpisodeOf[Shelf[p].file]]
    BY <1>1 DEF Init, LibraryInit
  <2>2. (\E id \in JobIds : ReleaseOf[Held[id]] = r) /\ Shelf[p].file \in FilesOf[r]
    BY <1>1, <2>1 DEF ShelfIsImported
  <2>3. PICK id \in JobIds : ReleaseOf[Held[id]] = r /\ NzbOf(r) = Held[id]
    BY <2>2 DEF NzbOf
  <2>4. NzbOf(r) \in Nzbs /\ r \in Names(NzbOf(r))
    BY <2>3, LibraryAssumption DEF Names
  <2> HIDE DEF r
  <2>5. owner[p].nzb = NzbOf(r) /\ owner[p].episode = EpisodeOf[Shelf[p].file]
    BY <2>1
  <2>6. QED  BY <1>1, <2>1, <2>2, <2>4, <2>5 DEF Fits, r
<1>2. \A s \in SymIds : ~Tracked(s) /\ recSyms[s] = NoSym /\ ~Recording(s)
  BY DEF Init, SymInit, RecInit, NoSyms, Tracked, Recording
<1>3. QED  BY <1>1, <1>2 DEF LinksInv

\* No interleaving of healer, reconciler, client and operator puts another job's
\* content or another episode behind a library link, for any library, if release
\* names lead to one NZB, findBestMatch tells its episodes apart (without this the
\* run wrong_episode shows the opposite) and the client does not replace a link while
\* its job is healed (as in upgrade_overwritten).
THEOREM LinksCorrect ==
    ASSUME NamesDiffer, MatchesAreRight, ShelfIsImported, "upgrade" \notin FaultKinds
    PROVE  Spec => []LinkKeepsItsContent
<1>1. Init => OursInv /\ LinksInv
  BY InitOurs, InitLinks
<1>2. IInv /\ OursInv /\ LinksInv /\ [Next]_vars => OursInv' /\ LinksInv'
  BY NextOurs, NextLinks
<1>3. LinksInv => LinkKeepsItsContent
  BY DEF LinksInv, Fits, Names, LinkKeepsItsContent
<1>4. QED  BY <1>1, <1>2, <1>3, Invariance, PTL DEF Spec

-----------------------------------------------------------------------------
(* No row counts beyond the limit *)

\* A row is within the limit; one that is being healed has an attempt left.
Bounded(row) == /\ row.heals <= HealMaxAttempts
                /\ row.state = "healing" => row.heals < HealMaxAttempts

\* So are all copies, each in the state in which its holder will write it.
HealsInv ==
    /\ \A id \in JobIds : Bounded(jobs[id]) /\ Bounded(recTodo[id])
    /\ \A h \in Handlers : req[h].row.heals <= HealMaxAttempts
    /\ hreq.op \in {"retry", "give_up"} => Bounded(hreq.row) /\ hreq.row.state = "heal_failed"
    /\ healPc = "call" => healRow.heals < HealMaxAttempts
    /\ healPc = "save" => healRow.heals < HealMaxAttempts /\ healRow.state = "healing"
    /\ healPc = "fail" => healRow.heals <= HealMaxAttempts /\ healRow.state = "heal_failed"

LEMMA NoRowBounded == Bounded(NoRow) /\ NoRow.heals = 0
BY HealerAssumption DEF Bounded, NoRow

\* A row that is written is within the limit if its copy is.
LEMMA PersistBounded ==
    ASSUME jobs \in [JobIds -> Row], \A i \in JobIds : Bounded(jobs[i]),
           NEW id \in JobIds, NEW row \in Row, Bounded(row), Persist(id, row)
    PROVE  \A i \in JobIds : Bounded(jobs'[i])
<1>1. CASE UpdateJob(id, row)
  <2> DEFINE new == [row EXCEPT !.aged = FALSE]
  <2>1. new.state = row.state /\ new.heals = row.heals
    BY DEF Row
  <2> HIDE DEF new
  <2>2. jobs' = [jobs EXCEPT ![id] = IF jobs[id].state = "absent" THEN jobs[id] ELSE new]
    BY <1>1 DEF UpdateJob, Written, new
  <2>3. QED  BY <2>1, <2>2 DEF Bounded
<1>2. CASE StoreError
  BY <1>2 DEF StoreError, storeVars
<1>3. QED  BY <1>1, <1>2 DEF Persist

\* A failed heal is one attempt more.
LEMMA MarkedBounded ==
    ASSUME NEW row \in Row, row.heals < HealMaxAttempts
    PROVE  /\ MarkedFailed(row).heals = row.heals + 1
           /\ MarkedFailed(row).state = "heal_failed"
           /\ Bounded(MarkedFailed(row))
<1>1. MarkedFailed(row).heals = row.heals + 1 /\ MarkedFailed(row).state = "heal_failed"
  BY DEF MarkedFailed, Row
<1>2. row.heals \in Nat /\ HealMaxAttempts \in Nat
  BY HealerAssumption DEF Row
<1>3. QED  BY <1>1, <1>2 DEF Bounded

\* A row that may be healed has an attempt left.
LEMMA HealableBounded == ASSUME NEW row, Healable(row) PROVE row.heals < HealMaxAttempts
BY DEF Healable

\* Requests of the client.
LEMMA ApiHeals == ASSUME IInv, HealsInv, Api PROVE HealsInv'
<1> DEFINE Rows == \A id \in JobIds : Bounded(jobs'[id])
           Reqs == \A h \in Handlers : req'[h].row.heals <= HealMaxAttempts
<1>a. UNCHANGED <<recTodo, hreq, healPc, healRow>>
  BY DEF Api, healingVars, healVars, healLocals, recVars, operatorVars
<1>b. /\ jobs \in [JobIds -> Row] /\ \A id \in JobIds : Bounded(jobs[id])
      /\ req \in [Handlers -> Request]
  BY DEF IInv, StoreInv, Table, ApiInv, HealsInv
<1>c. \A h \in Handlers : req' = [req EXCEPT ![h] = Idle] => Reqs
  BY <1>b, NoRowBounded, HealerAssumption DEF Idle, HealsInv
<1>d. UNCHANGED jobs => Rows
  BY <1>b
<1> SUFFICES Rows /\ Reqs
  BY <1>a DEF HealsInv, Bounded
<1>1. ASSUME NEW h \in Handlers, NEW k \in Nzbs, AddFind(h, k) PROVE Rows /\ Reqs
  <2>1. [Idle EXCEPT !.op = "create", !.nzb = k].row = NoRow
    BY DEF Idle
  <2>2. Reqs
    BY <1>1, <1>b, <2>1, NoRowBounded, HealerAssumption DEF AddFind, HealsInv
  <2>3. QED  BY <1>1, <1>d, <2>2 DEF AddFind, storeVars
<1>2. ASSUME NEW h \in Handlers, AddCreate(h) PROVE Rows /\ Reqs
  <2>1. CASE CreateJob(req[h].nzb)
    <3>1. Bounded(NewRow(req[h].nzb))
      BY HealerAssumption DEF NewRow, NoRow, Bounded
    <3>2. Rows
      BY <1>b, <2>1, <3>1 DEF CreateJob
    <3>3. QED  BY <1>2, <1>c, <3>2 DEF AddCreate
  <2>2. QED  BY <1>2, <2>1, <1>c, <1>d DEF AddCreate, StoreError, storeVars
<1>3. ASSUME NEW h \in Handlers, NEW id \in JobIds, NEW op, DelRead(h, id, op) PROVE Rows /\ Reqs
  <2>1. jobs[id].heals <= HealMaxAttempts
    BY <1>b DEF Bounded
  <2>2. Reqs
    BY <1>3, <1>b, <2>1 DEF DelRead, HealsInv
  <2>3. QED  BY <1>3, <1>d, <2>2 DEF DelRead, storeVars
<1>4. ASSUME NEW h \in Handlers, DelWrite(h) PROVE Rows /\ Reqs
  <2> DEFINE row == [req[h].row EXCEPT !.state = "deleted"]
  <2>1. req[h].id \in JobIds /\ req[h].row \in Row
    BY <1>4 DEF DelWrite, IInv, ApiInv, Serving, Request
  <2>2. row \in Row /\ row.state = "deleted" /\ row.heals = req[h].row.heals
    BY <2>1 DEF Row, States
  <2>3. Bounded(row)
    BY <2>2 DEF HealsInv, Bounded
  <2>4. Persist(req[h].id, row) \/ DeleteJob(req[h].id) \/ UNCHANGED jobs
    BY <1>4 DEF DelWrite, StoreError, storeVars
  <2> HIDE DEF row
  <2>5. CASE DeleteJob(req[h].id)
    BY <1>b, <1>c, <1>4, <2>5, NoRowBounded DEF DeleteJob, Without, DelWrite
  <2>6. QED  BY <1>b, <1>c, <1>d, <1>4, <2>1, <2>2, <2>3, <2>4, <2>5, PersistBounded DEF DelWrite
<1>5. QED  BY <1>1, <1>2, <1>3, <1>4 DEF Api, ApiNext

\* Those who neither heal nor serve requests.
LEMMA OthersHeals ==
    ASSUME IInv, HealsInv,
           DeleteOnce \/ ReapOnce \/ OnTorBox \/ Client \/ BackoffEnds \/ DayPasses \/ UNCHANGED vars
    PROVE  HealsInv'
<1> DEFINE Rows == \A id \in JobIds : Bounded(jobs'[id])
<1>a. UNCHANGED <<recTodo, hreq, healPc, healRow, req>>
  BY DEF DeleteOnce, ReapOnce, OnTorBox, Client, BackoffEnds, DayPasses, OnClock, vars, healingVars,
         healVars, healLocals, recVars, operatorVars, apiVars
<1>b. jobs \in [JobIds -> Row] /\ \A id \in JobIds : Bounded(jobs[id])
  BY DEF IInv, StoreInv, Table, HealsInv
<1> SUFFICES Rows
  BY <1>a DEF HealsInv, Bounded
<1>1. CASE UNCHANGED jobs
  BY <1>b, <1>1
<1>2. CASE DeleteOnce
  <2>1. UNCHANGED jobs \/ \E id \in JobIds : DeleteJob(id)
    BY <1>2 DEF DeleteOnce, DelStep, DelLoad, DelNothing, DelRemoved, DelRefused, DelDir, DelRow,
                StoreError, storeVars
  <2>2. QED  BY <1>b, <1>1, <2>1, NoRowBounded DEF DeleteJob, Without
<1>3. CASE ReapOnce
  BY <1>b, <1>3, NoRowBounded DEF ReapOnce, ReapImported
<1>4. ASSUME NEW id \in JobIds, BackoffPasses(id) \/ Age(id) PROVE Rows
  <2>1. jobs' = [jobs EXCEPT ![id].healed = "past"] \/ jobs' = [jobs EXCEPT ![id].aged = TRUE]
    BY <1>4 DEF BackoffPasses, Age
  <2>2. jobs'[id].state = jobs[id].state /\ jobs'[id].heals = jobs[id].heals
    BY <1>b, <2>1 DEF Row
  <2>3. \A i \in JobIds : i # id => jobs'[i] = jobs[i]
    BY <1>b, <2>1
  <2>4. QED  BY <1>b, <2>2, <2>3 DEF Bounded
<1>5. QED
  BY <1>1, <1>2, <1>3, <1>4 DEF OnTorBox, Client, BackoffEnds, DayPasses, vars, storeVars

\* A step of the healer.
LEMMA HealHeals == ASSUME IInv, HealsInv, HealOnce PROVE HealsInv'
<1> DEFINE Rows == \A id \in JobIds : Bounded(jobs'[id])
           Copy == /\ healPc' = "call" => healRow'.heals < HealMaxAttempts
                   /\ healPc' = "save" => healRow'.heals < HealMaxAttempts /\ healRow'.state = "healing"
                   /\ healPc' = "fail" => healRow'.heals <= HealMaxAttempts
                                          /\ healRow'.state = "heal_failed"
<1>a. UNCHANGED <<recTodo, hreq, req>>
  BY DEF HealOnce, recVars, operatorVars, apiVars
<1>b. /\ jobs \in [JobIds -> Row] /\ \A id \in JobIds : Bounded(jobs[id])
      /\ healPc \in {"call", "save", "fail"} => healId \in JobIds /\ healRow \in Row
  BY DEF IInv, StoreInv, Table, HealInv, HeldToHeal, WellFormed, HealsInv
<1>d. UNCHANGED jobs => Rows
  BY <1>b
<1>f. healPc' \notin {"call", "save", "fail"} => Copy
  OBVIOUS
<1>h. ASSUME NEW id, NEW row \in Row, row.heals < HealMaxAttempts, HealTo("fail", id, MarkedFailed(row))
      PROVE  Copy
  BY <1>h, MarkedBounded DEF HealTo, Bounded
<1> SUFFICES Rows /\ Copy
  BY <1>a DEF HealsInv, Bounded
<1>1. CASE HealLoad \/ HealList \/ HealBroken \/ HealEnd
  BY <1>1, <1>d, <1>f DEF HealLoad, HealList, HealBroken, HealEnd, HealReturn, storeVars
<1>2. ASSUME NEW p \in Paths, HealDiscover(p) PROVE Rows /\ Copy
  BY <1>2, <1>d, <1>f DEF HealDiscover, storeVars
<1>3. ASSUME NEW s \in SymIds, HealDrop(s) \/ HealStat(s) \/ HealMark(s) PROVE Rows /\ Copy
  BY <1>3, <1>d, <1>f DEF HealDrop, HealStat, HealMark, Checking, storeVars
<1>4. ASSUME NEW id \in JobIds, HealSkip(id) PROVE Rows /\ Copy
  BY <1>4, <1>d, <1>f DEF HealSkip, storeVars
<1>5. ASSUME NEW id \in JobIds, HealStart(id) PROVE Rows /\ Copy
  <2>1. jobs[id] \in Row /\ jobs[id].heals < HealMaxAttempts
    BY <1>5, <1>b, HealableBounded DEF HealStart
  <2>2. CASE HealTo("call", id, jobs[id])
    BY <1>5, <2>1, <2>2, <1>d DEF HealTo, HealStart, storeVars
  <2>3. QED  BY <1>5, <2>1, <2>2, <1>d, <1>h DEF HealStart, storeVars
<1>6. ASSUME NEW d \in DlIds, HealCreated(d) PROVE Rows /\ Copy
  <2> DEFINE row == [healRow EXCEPT !.state = "healing", !.tb = d]
  <2>1. healPc = "call" /\ HealTo("save", healId, row) /\ UNCHANGED jobs
    BY <1>6 DEF HealCreated, Resubmitted, storeVars
  <2>2. row.heals = healRow.heals /\ row.state = "healing"
    BY <2>1, <1>b DEF Row
  <2> HIDE DEF row
  <2>3. QED  BY <2>1, <2>2, <1>d DEF HealTo, HealsInv
<1>7. ASSUME NEW d \in DlIds, HealAnswerLost(d) PROVE Rows /\ Copy
  BY <1>7, <1>b, <1>d, <1>h DEF HealAnswerLost, Resubmitted, storeVars, HealsInv
<1>8. CASE HealRefused
  BY <1>8, <1>b, <1>d, <1>h DEF HealRefused, storeVars, HealsInv
<1>9. CASE HealSave
  <2>1. healPc = "save" /\ Bounded(healRow) /\ healRow.heals < HealMaxAttempts
    BY <1>9, <1>b, HealerAssumption DEF HealSave, HealsInv, Bounded, Row
  <2>2. Persist(healId, healRow)
    BY <1>9 DEF HealSave, Persist
  <2>3. Rows
    BY <2>1, <2>2, <1>b, PersistBounded
  <2>4. CASE HealTo("trigger", 0, NoRow)
    BY <2>3, <2>4, <1>f DEF HealTo
  <2>5. QED  BY <1>9, <2>1, <2>3, <2>4, <1>b, <1>h DEF HealSave
<1>10. CASE HealFail
  <2>1. healPc = "fail" /\ Bounded(healRow)
    BY <1>10 DEF HealFail, HealsInv, Bounded
  <2>2. Rows
    BY <1>10, <2>1, <1>b, PersistBounded DEF HealFail
  <2>3. QED  BY <1>10, <2>2, <1>f DEF HealFail, HealTo
<1>11. QED
  BY <1>1, <1>2, <1>3, <1>4, <1>5, <1>6, <1>7, <1>8, <1>9, <1>10 DEF HealOnce, HealStep

\* A step of the reconciler.
LEMMA RecHeals == ASSUME IInv, HealsInv, HealReconcileOnce PROVE HealsInv'
<1> DEFINE Rows == \A id \in JobIds : Bounded(jobs'[id])
           Todo == \A id \in JobIds : Bounded(recTodo'[id])
<1>a. UNCHANGED <<healPc, healRow, hreq, req>>
  BY DEF HealReconcileOnce, healLocals, operatorVars, apiVars
<1>b. /\ jobs \in [JobIds -> Row] /\ \A id \in JobIds : Bounded(jobs[id])
      /\ recTodo \in [JobIds -> Row] /\ \A id \in JobIds : Bounded(recTodo[id])
  BY DEF IInv, StoreInv, RecInv, Table, HealsInv
<1>d. UNCHANGED jobs => Rows
  BY <1>b
<1>e. ASSUME UNCHANGED recTodo \/ (\E id \in JobIds : recTodo' = Without(recTodo, id)) \/ recTodo' = NoRows
      PROVE  Todo
  BY <1>b, <1>e, NoRowBounded DEF Without, NoRows
<1>f. ASSUME NEW id \in JobIds, Oldest(recTodo, id)
      PROVE  recTodo[id] \in Row /\ recTodo[id].heals < HealMaxAttempts /\ RecRelease(id) \in Releases
  <2>1. HeldToHeal(dl, asked, id, recTodo[id]) /\ RecRelease(id) \in Releases
    BY <1>f, RecHeldOK DEF IInv
  <2>2. recTodo[id].state = "healing"
    BY <1>f DEF IInv, RecInv, Oldest
  <2>3. QED  BY <2>1, <2>2, <1>b DEF Bounded
<1> SUFFICES Rows /\ Todo
  BY <1>a DEF HealsInv, Bounded
<1>1. CASE RecLoad
  BY <1>1, <1>b, <1>d, NoRowBounded DEF RecLoad, JobsByState, storeVars
<1>2. CASE RecListFails \/ RecListed \/ RecEnd
  BY <1>2, <1>d, <1>e DEF RecListFails, RecListed, RecEnd, RecReturn, storeVars
<1>3. ASSUME NEW id \in JobIds, RecWait(id) \/ RecOpen(id) PROVE Rows /\ Todo
  BY <1>3, <1>d, <1>e DEF RecWait, RecOpen, RecNext, storeVars
<1>4. ASSUME NEW id \in JobIds, Oldest(recTodo, id), Persist(id, MarkedFailed(recTodo[id]))
      PROVE  Rows
  <2>1. Bounded(MarkedFailed(recTodo[id]))
    BY <1>4, <1>f, MarkedBounded
  <2>2. MarkedFailed(recTodo[id]) \in Row
    BY <1>4, <1>f, RecHeldOK, FailedOK DEF IInv, HeldToHeal, WellFormed
  <2>3. QED  BY <1>4, <2>1, <2>2, <1>b, PersistBounded
<1>5. ASSUME NEW id \in JobIds, RecFailed(id) PROVE Rows /\ Todo
  BY <1>5, <1>4, <1>e DEF RecFailed, Reconciling, RecNext
<1>6. ASSUME NEW id \in JobIds, RecFinish(id) PROVE Rows /\ Todo
  <2> DEFINE healed == Restored(recTodo[id], RecRelease(id))
  <2>1. Oldest(recTodo, id) /\ recTodo' = Without(recTodo, id)
        /\ (Persist(id, MarkedFailed(recTodo[id])) \/ Persist(id, healed))
    BY <1>6 DEF RecFinish, Persist
  <2>2. healed \in Row /\ healed.heals = 0 /\ healed.state = "imported"
    BY <2>1, <1>f DEF Restored, Row, States
  <2>3. Bounded(healed)
    BY <2>2, HealerAssumption DEF Bounded
  <2> HIDE DEF healed
  <2>4. CASE Persist(id, healed)
    BY <2>1, <2>2, <2>3, <2>4, <1>b, <1>e, PersistBounded
  <2>5. QED  BY <2>1, <2>4, <1>4, <1>e
<1>7. ASSUME NEW id \in JobIds, NEW s \in SymIds,
             RecRepoint(id, s) \/ RecUnmatched(id, s) \/ RecRecord(id, s)
      PROVE  Rows /\ Todo
  BY <1>7, <1>d, <1>e DEF RecRepoint, RecUnmatched, RecRecord, storeVars
<1>8. QED
  BY <1>1, <1>2, <1>3, <1>5, <1>6, <1>7 DEF HealReconcileOnce, RecStep

\* A request of the operator.
LEMMA OperatorHeals == ASSUME IInv, HealsInv, Operator PROVE HealsInv'
<1> DEFINE Rows == \A id \in JobIds : Bounded(jobs'[id])
           Copy == hreq'.op \in {"retry", "give_up"} =>
                      Bounded(hreq'.row) /\ hreq'.row.state = "heal_failed"
<1>a. UNCHANGED <<recTodo, healPc, healRow, req>>
  BY DEF Operator, healLocals, recVars, apiVars
<1>b. /\ jobs \in [JobIds -> Row] /\ \A id \in JobIds : Bounded(jobs[id])
      /\ hreq.op \in {"retry", "give_up"} => hreq.id \in JobIds /\ hreq.row \in Row
      /\ hreq \in HealRequest
  BY DEF IInv, StoreInv, Table, OperatorInv, HealApiType, HeldToHeal, WellFormed, HealsInv
<1>d. hreq' = HealApiIdle => Copy
  BY DEF HealApiIdle
<1> SUFFICES Rows /\ Copy
  BY <1>a DEF HealsInv, Bounded
<1>1. ASSUME NEW id \in JobIds, NEW op, HealRead(id, op) PROVE Rows /\ Copy
  BY <1>1, <1>b DEF HealRead, storeVars
<1>2. CASE RetryWrite
  <2> DEFINE row == [hreq.row EXCEPT !.heals = 0, !.healed = "never"]
  <2>1. hreq.id \in JobIds /\ hreq.row \in Row
    BY <1>2, <1>b DEF RetryWrite
  <2>2. row \in Row /\ row.heals = 0
    BY <2>1 DEF Row
  <2>3. Bounded(row)
    BY <2>2, HealerAssumption DEF Bounded
  <2>4. Persist(hreq.id, row)
    BY <1>2 DEF RetryWrite, Persist
  <2> HIDE DEF row
  <2>5. QED  BY <1>2, <2>1, <2>2, <2>3, <2>4, <1>b, <1>d, PersistBounded DEF RetryWrite
<1>3. CASE GiveUpWrite
  <2> DEFINE row == [hreq.row EXCEPT !.state = "manually_resolved"]
  <2>1. hreq.id \in JobIds /\ hreq.row \in Row /\ hreq.row.heals <= HealMaxAttempts
    BY <1>3, <1>b DEF GiveUpWrite, HealsInv, Bounded
  <2>2. row \in Row /\ row.heals = hreq.row.heals /\ row.state = "manually_resolved"
    BY <2>1 DEF Row, States
  <2>3. Bounded(row)
    BY <2>1, <2>2 DEF Bounded
  <2>4. Persist(hreq.id, row)
    BY <1>3 DEF GiveUpWrite, Persist
  <2> HIDE DEF row
  <2>5. Rows
    BY <2>1, <2>2, <2>3, <2>4, <1>b, PersistBounded
  <2>6. hreq'.op = "drop" \/ hreq' = HealApiIdle
    BY <1>3, <1>b DEF GiveUpWrite, HealRequest
  <2>7. QED  BY <2>5, <2>6, <1>d
<1>4. CASE GiveUpDrop
  BY <1>4, <1>b, <1>d DEF GiveUpDrop, storeVars
<1>5. QED  BY <1>1, <1>2, <1>3, <1>4 DEF Operator, HealApiNext

LEMMA InitHeals == ASSUME Init PROVE HealsInv
<1>1. \A id \in JobIds : jobs[id].heals = 0 /\ jobs[id].state = "imported"
  BY DEF Init, ImportedRow, NoRow
<1>2. /\ \A id \in JobIds : recTodo[id] = NoRow
      /\ \A h \in Handlers : req[h].row = NoRow
      /\ hreq.op = "idle" /\ healPc = "idle"
  BY DEF Init, RecInit, NoRows, ApiInit, Idle, HealApiInit, HealApiIdle, HealInit
<1>3. QED  BY <1>1, <1>2, NoRowBounded, HealerAssumption DEF HealsInv, Bounded

\* Every step keeps the limit.
LEMMA NextHeals == ASSUME IInv, HealsInv, [Next]_vars PROVE HealsInv'
<1>1. CASE Restart
  <2>1. /\ UNCHANGED jobs /\ recTodo' = NoRows /\ hreq' = HealApiIdle /\ healPc' = "idle"
        /\ \A h \in Handlers : req'[h].row = NoRow
    BY <1>1 DEF Restart, RecReturn, HealReturn, storeVars, Idle
  <2>2. QED  BY <2>1, NoRowBounded, HealerAssumption DEF HealsInv, Bounded, NoRows, HealApiIdle
<1>2. QED
  BY <1>1, ApiHeals, OthersHeals, HealHeals, RecHeals, OperatorHeals DEF Next

-----------------------------------------------------------------------------
(* Every resubmission is counted *)

\* Rows that may be healed, rows that the reconciler holds a copy of, and the row the
\* healer is at.
Settled(id) == jobs[id].state \in {"imported", "heal_failed"}
Copied(id) == recTodo[id].state # "absent"
Holds(id, pcs) == healPc \in pcs /\ healId = id

\* The resubmissions of a row are counted in it; the one in flight is counted by what
\* the healer is about to write, the last one of a healing row, and of the
\* reconciler's copy, by the reconciler's MarkedFailed.
Counted(id) ==
    /\ attempts[id] <= HealMaxAttempts + uncounted[id]
    /\ Settled(id) /\ ~Holds(id, {"save", "fail"}) =>
          attempts[id] <= jobs[id].heals + uncounted[id]
    /\ Settled(id) /\ Holds(id, {"save", "fail"}) =>
          attempts[id] <= jobs[id].heals + 1 + uncounted[id]
    /\ jobs[id].state = "healing" =>
          /\ attempts[id] <= jobs[id].heals + 1 + uncounted[id]
          /\ ~Holds(id, {"call", "save", "fail"})
    /\ Holds(id, {"call", "fail"}) => attempts[id] <= healRow.heals + uncounted[id]
    /\ Holds(id, {"save"}) => attempts[id] <= healRow.heals + 1 + uncounted[id]
    /\ Copied(id) => attempts[id] <= recTodo[id].heals + 1 + uncounted[id]

AttemptsInv == UncountedType /\ \A id \in JobIds : Counted(id)

\* What is counted are numbers.
LEMMA CountType ==
    ASSUME IInv
    PROVE  /\ attempts \in [JobIds -> Nat] /\ HealMaxAttempts \in Nat
           /\ jobs \in [JobIds -> Row] /\ \A id \in JobIds : jobs[id].heals \in Nat
           /\ recTodo \in [JobIds -> Row] /\ \A id \in JobIds : recTodo[id].heals \in Nat
           /\ healRow \in Row /\ healRow.heals \in Nat
<1>1. jobs \in [JobIds -> Row] /\ recTodo \in [JobIds -> Row]
  BY DEF IInv, StoreInv, RecInv, Table
<1>2. attempts \in [JobIds -> Nat] /\ healRow \in Row
  BY DEF IInv, HealInv, HealType
<1>3. HealMaxAttempts \in Nat
  BY HealerAssumption
<1>4. \A row \in Row : row.heals \in Nat
  BY DEF Row
<1>5. QED  BY <1>1, <1>2, <1>3, <1>4

\* What goes uncounted adds up until the count of the row is cleared.
Tallied(id) == /\ uncounted[id] \in Nat /\ uncounted'[id] \in Nat
               /\ attempts'[id] = 0 \/ uncounted'[id] >= uncounted[id]

LEMMA UncountTallies ==
    ASSUME IInv, IInv', UncountedType, NEW id \in JobIds, NEW rows, Uncount(rows)
    PROVE  /\ Tallied(id)
           /\ id \in rows => attempts'[id] = 0 \/ uncounted'[id] >= uncounted[id] + 1
<1>1. uncounted'[id] = IF attempts'[id] = 0 THEN 0
                       ELSE uncounted[id] + (IF id \in rows THEN 1 ELSE 0)
  BY DEF Uncount
<1>2. uncounted[id] \in Nat
  BY DEF UncountedType
<1>3. QED  BY <1>1, <1>2 DEF Tallied

\* Nothing is uncounted for a row whose count is cleared.
LEMMA ClearedCounted ==
    ASSUME IInv', NEW id \in JobIds, attempts'[id] = 0, uncounted'[id] \in Nat,
           jobs'[id].state = "healing" => ~Holds(id, {"call", "save", "fail"})'
    PROVE  Counted(id)'
<1>1. /\ jobs'[id].heals \in Nat /\ recTodo'[id].heals \in Nat /\ healRow'.heals \in Nat
      /\ HealMaxAttempts \in Nat
  <2>1. (HealMaxAttempts \in Nat)
    BY HealerAssumption
  <2>2. /\ jobs' \in [JobIds -> Row] /\ recTodo' \in [JobIds -> Row] /\ healRow' \in Row
    BY DEF IInv, StoreInv, RecInv, Table, HealInv, HealType
  <2>3. \A row \in Row : row.heals \in Nat
    BY DEF Row
  <2>4. QED  BY <2>1, <2>2, <2>3
<1>2. QED  BY <1>1 DEF Counted

\* A row whose counts do not change stays counted, also if it leaves healing, or if
\* the reconciler drops its copy.
LEMMA CountedQuietly ==
    ASSUME IInv, IInv', NEW id \in JobIds, Counted(id), Tallied(id),
           healPc' = healPc, healId' = healId, healRow' = healRow,
           attempts'[id] = attempts[id],
           recTodo'[id] = recTodo[id] \/ ~Copied(id)',
           \/ jobs'[id].state = jobs[id].state /\ jobs'[id].heals = jobs[id].heals
           \/ jobs'[id].state \notin HealRelevant
    PROVE  Counted(id)'
<1>1. jobs'[id].state = "healing" => ~Holds(id, {"call", "save", "fail"})'
  BY DEF Counted, Holds, HealRelevant
<1>2. CASE attempts'[id] = 0
  BY <1>1, <1>2, ClearedCounted DEF Tallied
<1>3. CASE uncounted'[id] >= uncounted[id]
  <2>1. uncounted[id] \in Nat /\ uncounted'[id] \in Nat
    BY DEF Tallied
  <2>2. QED
    BY <1>1, <1>3, <2>1, CountType DEF Counted, Settled, Copied, Holds, HealRelevant
<1>4. QED  BY <1>2, <1>3 DEF Tallied

\* So it does if the healer starts or ends with another one.
LEMMA CountedUnheld ==
    ASSUME IInv, IInv', NEW id \in JobIds, Counted(id), Tallied(id),
           ~Holds(id, {"call", "save", "fail"}), ~Holds(id, {"call", "save", "fail"})',
           attempts'[id] = attempts[id], recTodo'[id] = recTodo[id], jobs'[id] = jobs[id]
    PROVE  Counted(id)'
<1>1. CASE attempts'[id] = 0
  BY <1>1, ClearedCounted DEF Tallied
<1>2. CASE uncounted'[id] >= uncounted[id]
  <2>1. uncounted[id] \in Nat /\ uncounted'[id] \in Nat
    BY DEF Tallied
  <2>2. QED
    BY <1>2, <2>1, CountType DEF Counted, Settled, Copied, Holds
<1>3. QED  BY <1>1, <1>2 DEF Tallied

\* The healer looks at a row, takes it up or refuses to.
LEMMA StartCounted ==
    ASSUME IInv, IInv', AttemptsInv, NEW k \in JobIds, HealStart(k), UNCHANGED recTodo,
           NEW id \in JobIds, Tallied(id)
    PROVE  Counted(id)'
<1>1. /\ jobs[k].state \in {"imported", "heal_failed"} /\ jobs[k] \in Row
      /\ jobs[k].heals \in Nat
      /\ healPc = "trigger" /\ healId' = k /\ healPc' \in {"call", "fail"}
      /\ UNCHANGED <<jobs, attempts>>
  BY CountType DEF HealStart, Healable, HealTo, storeVars
<1>2. healRow'.heals \in {jobs[k].heals, jobs[k].heals + 1}
  BY <1>1, MarkedBounded, HealableBounded DEF HealStart, HealTo
<1>3. Counted(id)
  BY DEF AttemptsInv
<1>4. CASE id # k
  BY <1>1, <1>3, <1>4, CountedUnheld DEF Holds
<1>5. CASE id = k
  <2>1. CASE attempts'[id] = 0
    BY <1>1, <1>5, <2>1, ClearedCounted DEF Tallied
  <2>2. CASE uncounted'[id] >= uncounted[id]
    <3>1. uncounted[id] \in Nat /\ uncounted'[id] \in Nat /\ attempts[id] \in Nat
          /\ recTodo[id].heals \in Nat /\ HealMaxAttempts \in Nat
      BY CountType DEF Tallied
    <3>2. attempts[id] <= jobs[id].heals + uncounted[id]
      BY <1>1, <1>3, <1>5 DEF Counted, Settled, Holds
    <3>3. QED
      BY <1>1, <1>2, <1>3, <1>5, <2>2, <3>1, <3>2 DEF Counted, Settled, Copied, Holds
  <2>3. QED  BY <2>1, <2>2 DEF Tallied
<1>6. QED  BY <1>4, <1>5

\* TorBox has the NZB again, and the answer arrives.
LEMMA CreatedCounted ==
    ASSUME IInv, IInv', HealsInv, AttemptsInv, NEW d \in DlIds, HealCreated(d),
           UNCHANGED recTodo, Uncount(HealSlips), NEW id \in JobIds, Tallied(id)
    PROVE  Counted(id)'
<1>1. /\ healPc = "call" /\ healPc' = "save" /\ healId' = healId
      /\ attempts' = [attempts EXCEPT ![healId] = @ + 1]
      /\ UNCHANGED jobs
      /\ healRow' = [healRow EXCEPT !.state = "healing", !.tb = d]
  BY DEF HealCreated, Resubmitted, HealTo, storeVars
<1>2. healRow'.heals = healRow.heals /\ healRow.heals < HealMaxAttempts /\ healRow.heals \in Nat
  BY <1>1, CountType DEF Row, HealsInv
<1>3. Counted(id)
  BY DEF AttemptsInv
<1>4. CASE id # healId
  <2>1. attempts'[id] = attempts[id]
    BY <1>1, <1>4, CountType
  <2>2. QED  BY <1>1, <1>3, <1>4, <2>1, CountedUnheld DEF Holds
<1>5. CASE id = healId
  <2>1. attempts'[id] = attempts[id] + 1 /\ attempts[id] \in Nat
    BY <1>1, <1>5, CountType
  <2>2. attempts[id] <= healRow.heals + uncounted[id] /\ jobs[id].state # "healing"
        /\ (Settled(id) => attempts[id] <= jobs[id].heals + uncounted[id])
    BY <1>1, <1>3, <1>5 DEF Counted, Holds
  <2>3. uncounted[id] \in Nat /\ uncounted'[id] \in Nat /\ uncounted'[id] >= uncounted[id]
    BY <2>1 DEF Tallied
  <2>4. Copied(id) => uncounted'[id] >= uncounted[id] + 1
    <3>1. Copied(id) => id \in HealSlips
      <4>1. attempts' # attempts
        BY <2>1
      <4>2. QED  BY <1>5, <4>1 DEF HealSlips, Copied
    <3>2. QED  BY <2>1, <3>1, UncountTallies DEF AttemptsInv
  <2>5. Copied(id) => attempts[id] <= recTodo[id].heals + 1 + uncounted[id]
    BY <1>3 DEF Counted
  <2>6. /\ Holds(id, {"save"})' /\ Holds(id, {"save", "fail"})' /\ ~Holds(id, {"call", "fail"})'
        /\ Settled(id)' = Settled(id) /\ Copied(id)' = Copied(id)
    BY <1>1, <1>5 DEF Holds, Settled, Copied
  <2>7. jobs[id].heals \in Nat /\ recTodo[id].heals \in Nat /\ HealMaxAttempts \in Nat
    BY CountType
  <2>8. /\ attempts'[id] <= HealMaxAttempts + uncounted'[id]
        /\ Settled(id) => attempts'[id] <= jobs[id].heals + 1 + uncounted'[id]
        /\ attempts'[id] <= healRow.heals + 1 + uncounted'[id]
        /\ Copied(id) => attempts'[id] <= recTodo[id].heals + 1 + uncounted'[id]
    BY <1>2, <2>1, <2>2, <2>3, <2>4, <2>5, <2>7
  <2>9. QED
    BY <1>1, <1>2, <2>2, <2>6, <2>8 DEF Counted
<1>6. QED  BY <1>4, <1>5

\* The answer is lost, or TorBox refuses: the failure will count the attempt.
LEMMA RefusedCounted ==
    ASSUME IInv, IInv', HealsInv, AttemptsInv, UNCHANGED recTodo, Uncount(HealSlips),
           NEW id \in JobIds, Tallied(id),
           HealRefused \/ \E d \in DlIds : HealAnswerLost(d)
    PROVE  Counted(id)'
<1>1. /\ healPc = "call" /\ healPc' = "fail" /\ healId' = healId /\ UNCHANGED jobs
      /\ attempts' = [attempts EXCEPT ![healId] = @ + 1] \/ attempts' = attempts
      /\ healRow' = MarkedFailed(healRow)
  BY DEF HealRefused, HealAnswerLost, Resubmitted, HealTo, storeVars
<1>2. /\ healRow.heals < HealMaxAttempts /\ healRow.heals \in Nat
      /\ healRow'.heals = healRow.heals + 1
  BY <1>1, CountType, MarkedBounded DEF HealsInv
<1>3. Counted(id)
  BY DEF AttemptsInv
<1>4. CASE id # healId
  <2>1. attempts'[id] = attempts[id]
    BY <1>1, <1>4, CountType
  <2>2. QED  BY <1>1, <1>3, <1>4, <2>1, CountedUnheld DEF Holds
<1>5. CASE id = healId
  <2>1. attempts'[id] \in {attempts[id], attempts[id] + 1} /\ attempts[id] \in Nat
    BY <1>1, <1>5, CountType
  <2>2. attempts[id] <= healRow.heals + uncounted[id] /\ jobs[id].state # "healing"
        /\ (Settled(id) => attempts[id] <= jobs[id].heals + uncounted[id])
    BY <1>1, <1>3, <1>5 DEF Counted, Holds
  <2>a. CASE attempts'[id] = 0
    BY <1>1, <2>2, <2>a, ClearedCounted DEF Tallied
  <2>b. CASE uncounted'[id] >= uncounted[id]
    <3>1. uncounted[id] \in Nat /\ uncounted'[id] \in Nat
      BY DEF Tallied
    <3>2. Copied(id) => attempts'[id] = attempts[id] \/ uncounted'[id] >= uncounted[id] + 1
      <4>1. Copied(id) => attempts'[id] = attempts[id] \/ id \in HealSlips
        BY <1>5 DEF HealSlips, Copied
      <4>2. QED  BY <2>1, <4>1, UncountTallies DEF AttemptsInv
    <3>3. Copied(id) => attempts[id] <= recTodo[id].heals + 1 + uncounted[id]
      BY <1>3 DEF Counted
    <3>4. /\ ~Holds(id, {"save"})' /\ Holds(id, {"save", "fail"})' /\ Holds(id, {"call", "fail"})'
          /\ Settled(id)' = Settled(id) /\ Copied(id)' = Copied(id)
      BY <1>1, <1>5 DEF Holds, Settled, Copied
    <3>5. jobs[id].heals \in Nat /\ recTodo[id].heals \in Nat /\ HealMaxAttempts \in Nat
      BY CountType
    <3>6. /\ attempts'[id] <= HealMaxAttempts + uncounted'[id]
          /\ Settled(id) => attempts'[id] <= jobs[id].heals + 1 + uncounted'[id]
          /\ attempts'[id] <= healRow'.heals + uncounted'[id]
          /\ Copied(id) => attempts'[id] <= recTodo[id].heals + 1 + uncounted'[id]
      BY <1>2, <2>1, <2>2, <2>b, <3>1, <3>2, <3>3, <3>5
    <3>7. QED
      BY <1>1, <2>2, <3>4, <3>6 DEF Counted
  <2>c. QED  BY <2>a, <2>b DEF Tallied
<1>6. QED  BY <1>4, <1>5

\* `healing` is written, or marked failed instead.
LEMMA SaveCounted ==
    ASSUME IInv, IInv', HealsInv, AttemptsInv, UNCHANGED recTodo, NEW id \in JobIds,
           Tallied(id), HealSave
    PROVE  Counted(id)'
<1>1. healPc = "save" /\ healRow \in Row /\ healRow.heals \in Nat
      /\ healRow.state = "healing" /\ healRow.heals < HealMaxAttempts
      /\ UNCHANGED attempts /\ attempts[id] \in Nat /\ HealMaxAttempts \in Nat
      /\ recTodo[id].heals \in Nat /\ jobs[id].heals \in Nat
  BY CountType DEF HealSave, HealsInv
<1>2. Counted(id)
  BY DEF AttemptsInv
<1>3. CASE UpdateJob(healId, healRow) /\ NoFault /\ HealTo("trigger", 0, NoRow)
  <2> DEFINE new == [healRow EXCEPT !.aged = FALSE]
  <2>1. new.state = "healing" /\ new.heals = healRow.heals
    BY <1>1 DEF Row
  <2> HIDE DEF new
  <2>2. jobs' = [jobs EXCEPT ![healId] = IF jobs[healId].state = "absent" THEN jobs[healId] ELSE new]
    BY <1>3 DEF UpdateJob, Written, new
  <2>3. healPc' = "trigger"
    BY <1>3 DEF HealTo
  <2>4. CASE id # healId
    <3>1. jobs'[id] = jobs[id]
      BY <2>2, <2>4, CountType
    <3>2. QED  BY <1>1, <1>2, <2>3, <2>4, <3>1, CountedUnheld DEF Holds
  <2>5. CASE id = healId
    <3>1. jobs'[id].state = "absent" \/ jobs'[id] = new
      BY <2>2, <2>5, CountType
    <3>2. attempts[id] <= healRow.heals + 1 + uncounted[id]
      BY <1>1, <1>2, <2>5 DEF Counted, Holds
    <3>3. CASE attempts'[id] = 0
      BY <2>3, <3>3, ClearedCounted DEF Tallied, Holds
    <3>4. CASE uncounted'[id] >= uncounted[id]
      <4>1. uncounted[id] \in Nat /\ uncounted'[id] \in Nat
        BY DEF Tallied
      <4>2. QED
        BY <1>1, <1>2, <2>1, <2>3, <3>1, <3>2, <3>4, <4>1 DEF Counted, Settled, Copied, Holds
    <3>5. QED  BY <3>3, <3>4 DEF Tallied
  <2>6. QED  BY <2>4, <2>5
<1>4. CASE StoreError /\ HealTo("fail", healId, MarkedFailed(healRow))
  <2>1. /\ healPc' = "fail" /\ healId' = healId /\ UNCHANGED jobs
        /\ healRow'.heals = healRow.heals + 1
    BY <1>1, <1>4, MarkedBounded DEF HealTo, StoreError, storeVars
  <2>2. CASE id # healId
    BY <1>1, <1>2, <2>1, <2>2, CountedUnheld DEF Holds
  <2>3. CASE id = healId
    <3>1. jobs[id].state # "healing"
      BY <1>1, <1>2, <2>3 DEF Counted, Holds
    <3>2. CASE attempts'[id] = 0
      BY <2>1, <3>1, <3>2, ClearedCounted DEF Tallied
    <3>3. CASE uncounted'[id] >= uncounted[id]
      <4>1. uncounted[id] \in Nat /\ uncounted'[id] \in Nat
        BY DEF Tallied
      <4>2. QED
        BY <1>1, <1>2, <2>1, <2>3, <3>1, <3>3, <4>1 DEF Counted, Settled, Copied, Holds
    <3>4. QED  BY <3>2, <3>3 DEF Tallied
  <2>4. QED  BY <2>2, <2>3
<1>5. QED  BY <1>3, <1>4 DEF HealSave

\* The failure is written, or lost: then the attempt goes uncounted.
LEMMA FailCounted ==
    ASSUME IInv, IInv', HealsInv, AttemptsInv, UNCHANGED recTodo, NEW id \in JobIds,
           Tallied(id), Uncount(HealSlips), HealFail
    PROVE  Counted(id)'
<1>1. healPc = "fail" /\ healPc' = "trigger" /\ healRow \in Row /\ healRow.heals \in Nat
      /\ healRow.state = "heal_failed"
      /\ UNCHANGED attempts /\ attempts[id] \in Nat /\ HealMaxAttempts \in Nat
      /\ recTodo[id].heals \in Nat /\ jobs[id].heals \in Nat
  BY CountType DEF HealFail, HealsInv, HealTo
<1>2. Counted(id)
  BY DEF AttemptsInv
<1>3. ~Holds(id, {"call", "save", "fail"})'
  BY <1>1 DEF Holds
<1>4. CASE attempts'[id] = 0
  BY <1>3, <1>4, ClearedCounted DEF Tallied
<1>5. CASE attempts'[id] # 0
  <2>1. uncounted[id] \in Nat /\ uncounted'[id] \in Nat /\ uncounted'[id] >= uncounted[id]
    BY <1>5 DEF Tallied
  <2>2. CASE UpdateJob(healId, healRow) /\ NoFault
    <3> DEFINE new == [healRow EXCEPT !.aged = FALSE]
    <3>1. new.state = "heal_failed" /\ new.heals = healRow.heals
      BY <1>1 DEF Row
    <3> HIDE DEF new
    <3>2. jobs' = [jobs EXCEPT ![healId] = IF jobs[healId].state = "absent" THEN jobs[healId] ELSE new]
      BY <2>2 DEF UpdateJob, Written, new
    <3>3. CASE id # healId
      <4>1. jobs'[id] = jobs[id]
        BY <3>2, <3>3, CountType
      <4>2. QED  BY <1>1, <1>2, <3>3, <4>1, CountedUnheld DEF Holds
    <3>4. CASE id = healId
      <4>1. jobs'[id].state = "absent" \/ jobs'[id] = new
        BY <3>2, <3>4, CountType
      <4>2. attempts[id] <= healRow.heals + uncounted[id]
        BY <1>1, <1>2, <3>4 DEF Counted, Holds
      <4>3. QED
        BY <1>1, <1>2, <2>1, <3>1, <4>1, <4>2 DEF Counted, Settled, Copied, Holds
    <3>5. QED  BY <3>3, <3>4
  <2>3. CASE StoreError
    <3>1. UNCHANGED jobs
      BY <2>3 DEF StoreError, storeVars
    <3>2. CASE id # healId
      BY <1>1, <1>2, <3>1, <3>2, CountedUnheld DEF Holds
    <3>3. CASE id = healId
      <4>1. faults' # faults
        <5>1. faults' = faults + 1 /\ faults \in Nat
          BY <2>3, FaultsAssumption DEF StoreError, Fault, IInv, StoreInv
        <5>2. QED  BY <5>1
      <4>2. uncounted'[id] >= uncounted[id] + 1
        BY <1>1, <1>5, <3>3, <4>1, UncountTallies DEF HealSlips, AttemptsInv
      <4>3. QED
        BY <1>1, <1>2, <2>1, <3>1, <3>3, <4>2 DEF Counted, Settled, Copied, Holds
    <3>4. QED  BY <3>2, <3>3
  <2>4. QED  BY <2>2, <2>3 DEF HealFail, Persist
<1>6. QED  BY <1>4, <1>5

\* A step of the healer.
LEMMA HealCounted ==
    ASSUME IInv, IInv', HealsInv, AttemptsInv, HealOnce, NEW id \in JobIds
    PROVE  Counted(id)'
<1>1. UNCHANGED recTodo /\ Uncount(HealSlips)
  BY DEF HealOnce, recVars
<1>2. Tallied(id)
  BY <1>1, UncountTallies DEF AttemptsInv
<1>3. ASSUME UNCHANGED <<jobs, attempts>>, healPc \notin {"call", "save", "fail"},
             healPc' \notin {"call", "save", "fail"}
      PROVE  Counted(id)'
  BY <1>1, <1>2, <1>3, CountedUnheld DEF AttemptsInv, Holds
<1>4. CASE HealLoad \/ HealList \/ HealBroken \/ HealEnd
  BY <1>3, <1>4 DEF HealLoad, HealList, HealBroken, HealEnd, HealReturn, storeVars
<1>5. ASSUME NEW p \in Paths, HealDiscover(p) PROVE Counted(id)'
  BY <1>3, <1>5 DEF HealDiscover, storeVars
<1>6. ASSUME NEW s \in SymIds, HealDrop(s) \/ HealStat(s) \/ HealMark(s) PROVE Counted(id)'
  BY <1>3, <1>6 DEF HealDrop, HealStat, HealMark, Checking, storeVars
<1>7. ASSUME NEW k \in JobIds, HealSkip(k) PROVE Counted(id)'
  BY <1>3, <1>7 DEF HealSkip, storeVars
<1>8. QED
  BY <1>1, <1>2, <1>4, <1>5, <1>6, <1>7, StartCounted, CreatedCounted, RefusedCounted,
     SaveCounted, FailCounted
  DEF HealOnce, HealStep

\* A step of the reconciler that leaves the rows alone, or fails to write one.
LEMMA RecCountedQuietly ==
    ASSUME IInv, IInv', AttemptsInv, UNCHANGED <<healPc, healId, healRow, jobs, attempts>>,
           UNCHANGED recTodo \/ recTodo' = NoRows \/ \E k \in JobIds : recTodo' = Without(recTodo, k),
           NEW id \in JobIds, Tallied(id)
    PROVE  Counted(id)'
<1>1. recTodo'[id] = recTodo[id] \/ recTodo'[id] = NoRow
  BY CountType DEF NoRows, Without
<1>2. recTodo'[id] = recTodo[id] \/ ~Copied(id)'
  BY <1>1, NoRowType DEF Copied
<1>3. Counted(id)
  BY DEF AttemptsInv
<1>4. QED  BY <1>2, <1>3, CountedQuietly

\* The reconciler's copy of a row is written over it and dropped: as a failure that
\* counts the attempt, or as a heal that starts again from 0.
LEMMA RecCountedWrite ==
    ASSUME IInv, IInv', HealsInv, AttemptsInv, UNCHANGED <<healPc, healId, healRow>>,
           NEW k \in JobIds, Oldest(recTodo, k), recTodo' = Without(recTodo, k),
           NEW row \in Row, jobs' = Written(k, row),
           \/ /\ row.state = "heal_failed" /\ row.heals = recTodo[k].heals + 1
              /\ UNCHANGED attempts
           \/ row.state = "imported" /\ attempts' = [attempts EXCEPT ![k] = 0],
           NEW id \in JobIds, Tallied(id)
    PROVE  Counted(id)'
<1>1. Counted(id)
  BY DEF AttemptsInv
<1> DEFINE new == [row EXCEPT !.aged = FALSE]
<1>2. new.state = row.state /\ new.heals = row.heals /\ row.heals \in Nat
  BY DEF Row
<1> HIDE DEF new
<1>3. jobs' = [jobs EXCEPT ![k] = IF jobs[k].state = "absent" THEN jobs[k] ELSE new]
  BY DEF Written, new
<1>4. CASE id # k
  <2>1. jobs'[id] = jobs[id] /\ recTodo'[id] = recTodo[id] /\ attempts'[id] = attempts[id]
    BY <1>3, <1>4, CountType DEF Without
  <2>2. QED  BY <1>1, <2>1, CountedQuietly
<1>5. CASE id = k
  <2>1. jobs'[id].state = "absent" \/ jobs'[id] = new
    BY <1>3, <1>5, CountType
  <2>2. ~Copied(id)'
    BY <1>5, CountType, NoRowType DEF Copied, Without
  <2>3. jobs'[id].state # "healing"
    BY <1>2, <2>1
  <2>4. CASE attempts'[id] = 0
    BY <2>3, <2>4, ClearedCounted DEF Tallied
  <2>5. CASE attempts'[id] # 0
    <3>1. row.heals = recTodo[k].heals + 1 /\ UNCHANGED attempts
      BY <1>5, <2>5, CountType
    <3>2. uncounted[id] \in Nat /\ uncounted'[id] \in Nat /\ uncounted'[id] >= uncounted[id]
      BY <2>5 DEF Tallied
    <3>3. attempts[id] <= row.heals + uncounted[id]
      <4>1. Copied(id)
        BY <1>5 DEF Oldest, Copied
      <4>2. QED  BY <1>1, <1>5, <3>1, <4>1 DEF Counted
    <3>4. attempts[id] \in Nat /\ healRow.heals \in Nat /\ HealMaxAttempts \in Nat
      BY CountType
    <3>5. QED
      BY <1>1, <1>2, <2>1, <2>2, <2>3, <3>1, <3>2, <3>3, <3>4 DEF Counted, Settled, Holds
  <2>6. QED  BY <2>4, <2>5
<1>6. QED  BY <1>4, <1>5

\* A step of the reconciler.
LEMMA RecCounted ==
    ASSUME IInv, IInv', HealsInv, AttemptsInv, HealReconcileOnce, NEW id \in JobIds
    PROVE  Counted(id)'
<1>1. UNCHANGED <<healPc, healId, healRow>> /\ Uncount({})
  BY DEF HealReconcileOnce, healLocals
<1>2. Tallied(id)
  BY <1>1, UncountTallies DEF AttemptsInv
<1>3. ASSUME UNCHANGED <<jobs, attempts>>,
             UNCHANGED recTodo \/ recTodo' = NoRows \/ \E k \in JobIds : recTodo' = Without(recTodo, k)
      PROVE  Counted(id)'
  BY <1>1, <1>2, <1>3, RecCountedQuietly
<1>4. CASE RecLoad
  <2>1. UNCHANGED <<jobs, attempts>> /\ recTodo' = JobsByState({"healing"})
    BY <1>4 DEF RecLoad, storeVars
  <2>2. Counted(id)
    BY DEF AttemptsInv
  <2>3. recTodo'[id] = IF jobs[id].state = "healing" THEN jobs[id] ELSE NoRow
    BY <2>1 DEF JobsByState
  <2>4. CASE jobs[id].state = "healing"
    <3>1. CASE attempts'[id] = 0
      BY <1>1, <1>2, <2>1, <2>2, <2>4, <3>1, ClearedCounted DEF Tallied, Counted, Holds
    <3>2. CASE uncounted'[id] >= uncounted[id]
      <4>1. uncounted[id] \in Nat /\ uncounted'[id] \in Nat
        BY <1>2 DEF Tallied
      <4>2. attempts[id] \in Nat /\ jobs[id].heals \in Nat /\ HealMaxAttempts \in Nat
            /\ healRow.heals \in Nat
        BY CountType
      <4>3. QED
        BY <1>1, <2>1, <2>2, <2>3, <2>4, <3>2, <4>1, <4>2 DEF Counted, Settled, Copied, Holds
    <3>3. QED  BY <1>2, <3>1, <3>2 DEF Tallied
  <2>5. CASE jobs[id].state # "healing"
    <3>1. ~Copied(id)'
      BY <2>3, <2>5, NoRowType DEF Copied
    <3>2. QED  BY <1>1, <1>2, <2>1, <2>2, <3>1, CountedQuietly
  <2>6. QED  BY <2>4, <2>5
<1>5. CASE RecListFails \/ RecListed \/ RecEnd
  BY <1>3, <1>5 DEF RecListFails, RecListed, RecEnd, RecReturn, storeVars
<1>6. ASSUME NEW k \in JobIds, RecWait(k) \/ RecOpen(k) PROVE Counted(id)'
  BY <1>3, <1>6 DEF RecWait, RecOpen, RecNext, storeVars
<1>7. ASSUME NEW k \in JobIds, NEW s \in SymIds,
             RecRepoint(k, s) \/ RecUnmatched(k, s) \/ RecRecord(k, s)
      PROVE  Counted(id)'
  BY <1>3, <1>7 DEF RecRepoint, RecUnmatched, RecRecord, storeVars
<1>8. ASSUME NEW k \in JobIds, Oldest(recTodo, k), recTodo' = Without(recTodo, k),
             Persist(k, MarkedFailed(recTodo[k])), UNCHANGED attempts
      PROVE  Counted(id)'
  <2> DEFINE row == MarkedFailed(recTodo[k])
  <2>1. recTodo[k] \in Row /\ recTodo[k].heals < HealMaxAttempts
    <3>1. recTodo[k].state = "healing" /\ recTodo[k] \in Row
      BY <1>8, CountType DEF IInv, RecInv, Oldest
    <3>2. QED  BY <3>1 DEF HealsInv, Bounded
  <2>2. row.state = "heal_failed" /\ row.heals = recTodo[k].heals + 1
    BY <2>1, MarkedBounded
  <2>3. row \in Row
    <3>1. HeldToHeal(dl, asked, k, row)
      BY <1>8, RecHeldOK, FailedOK DEF IInv
    <3>2. QED  BY <3>1 DEF HeldToHeal, WellFormed
  <2>4. CASE UpdateJob(k, row) /\ NoFault
    <3>1. jobs' = Written(k, row)
      BY <2>4 DEF UpdateJob
    <3> HIDE DEF row
    <3>2. QED  BY <1>1, <1>2, <1>8, <2>2, <2>3, <3>1, RecCountedWrite
  <2>5. CASE StoreError
    BY <1>3, <1>8, <2>5 DEF StoreError, storeVars
  <2>6. QED  BY <1>8, <2>4, <2>5 DEF Persist
<1>9. ASSUME NEW k \in JobIds, RecFailed(k) PROVE Counted(id)'
  BY <1>8, <1>9 DEF RecFailed, Reconciling, RecNext
<1>10. ASSUME NEW k \in JobIds, RecFinish(k) PROVE Counted(id)'
  <2> DEFINE row == Restored(recTodo[k], RecRelease(k))
  <2>1. Oldest(recTodo, k) /\ recTodo' = Without(recTodo, k)
    BY <1>10 DEF RecFinish
  <2>2. row \in Row /\ row.state = "imported"
    <3>1. HeldToHeal(dl, asked, k, recTodo[k]) /\ RecRelease(k) \in Releases
      BY <2>1, RecHeldOK DEF IInv
    <3>2. QED  BY <3>1 DEF HeldToHeal, WellFormed, Restored, Row, States
  <2>3. CASE Persist(k, MarkedFailed(recTodo[k])) /\ UNCHANGED attempts
    BY <1>8, <2>1, <2>3
  <2>4. CASE UpdateJob(k, row) /\ NoFault /\ attempts' = [attempts EXCEPT ![k] = 0]
    <3>1. jobs' = Written(k, row)
      BY <2>4 DEF UpdateJob
    <3> HIDE DEF row
    <3>2. QED  BY <1>1, <1>2, <2>1, <2>2, <2>4, <3>1, RecCountedWrite
  <2>5. CASE StoreError /\ UNCHANGED attempts
    BY <1>3, <2>1, <2>5 DEF StoreError, storeVars
  <2>6. QED  BY <1>10, <2>3, <2>4, <2>5 DEF RecFinish
<1>11. QED
  BY <1>4, <1>5, <1>6, <1>7, <1>9, <1>10 DEF HealReconcileOnce, RecStep

\* A request of the operator.
LEMMA OperatorCounted ==
    ASSUME IInv, IInv', HealsInv, AttemptsInv, Operator, NEW id \in JobIds
    PROVE  Counted(id)'
<1>1. UNCHANGED <<healPc, healId, healRow, recTodo>> /\ Uncount({})
  BY DEF Operator, healLocals, recVars
<1>2. Tallied(id)
  BY <1>1, UncountTallies DEF AttemptsInv
<1>3. ASSUME UNCHANGED <<jobs, attempts>> PROVE Counted(id)'
  BY <1>1, <1>2, <1>3, CountedQuietly DEF AttemptsInv
<1>4. /\ hreq \in HealRequest
      /\ hreq.op \in {"retry", "give_up"} => hreq.id \in JobIds /\ hreq.row \in Row
  BY DEF IInv, OperatorInv, HealApiType, HeldToHeal, WellFormed
<1>5. ASSUME NEW k \in JobIds, NEW op, HealRead(k, op) PROVE Counted(id)'
  BY <1>3, <1>5 DEF HealRead, storeVars
<1>6. CASE RetryWrite
  <2> DEFINE row == [hreq.row EXCEPT !.heals = 0, !.healed = "never"]
             new == [row EXCEPT !.aged = FALSE]
  <2>1. hreq.id \in JobIds /\ hreq.row \in Row /\ hreq.row.state = "heal_failed"
    BY <1>4, <1>6 DEF RetryWrite, HealsInv
  <2>2. new.state = "heal_failed"
    BY <2>1 DEF Row
  <2>3. CASE UpdateJob(hreq.id, row) /\ attempts' = [attempts EXCEPT ![hreq.id] = 0]
    <3> HIDE DEF new
    <3>1. jobs' = [jobs EXCEPT ![hreq.id] = IF jobs[hreq.id].state = "absent" THEN jobs[hreq.id]
                                            ELSE new]
      BY <2>3 DEF UpdateJob, Written, new
    <3>2. CASE id # hreq.id
      <4>1. jobs'[id] = jobs[id] /\ attempts'[id] = attempts[id]
        BY <2>3, <3>1, <3>2, CountType
      <4>2. QED  BY <1>1, <1>2, <4>1, CountedQuietly DEF AttemptsInv
    <3>3. CASE id = hreq.id
      <4>1. attempts'[id] = 0
        BY <2>3, <3>3, CountType
      <4>2. jobs'[id].state # "healing"
        BY <2>2, <3>1, <3>3, CountType
      <4>3. QED  BY <1>2, <4>1, <4>2, ClearedCounted DEF Tallied
    <3>4. QED  BY <3>2, <3>3
  <2>4. CASE StoreError /\ UNCHANGED attempts
    BY <1>3, <2>4 DEF StoreError, storeVars
  <2>5. QED  BY <1>6, <2>3, <2>4 DEF RetryWrite
<1>7. CASE GiveUpWrite
  <2> DEFINE row == [hreq.row EXCEPT !.state = "manually_resolved"]
             new == [row EXCEPT !.aged = FALSE]
  <2>1. hreq.id \in JobIds /\ hreq.row \in Row /\ UNCHANGED attempts
    BY <1>4, <1>7 DEF GiveUpWrite
  <2>2. new.state = "manually_resolved"
    BY <2>1 DEF Row
  <2>3. CASE UpdateJob(hreq.id, row)
    <3> HIDE DEF new
    <3>1. jobs' = [jobs EXCEPT ![hreq.id] = IF jobs[hreq.id].state = "absent" THEN jobs[hreq.id]
                                            ELSE new]
      BY <2>3 DEF UpdateJob, Written, new
    <3>2. jobs'[id] = jobs[id] \/ jobs'[id].state \notin HealRelevant
      BY <2>2, <3>1, CountType DEF HealRelevant
    <3>3. QED  BY <1>1, <1>2, <2>1, <3>2, CountedQuietly DEF AttemptsInv
  <2>4. CASE StoreError
    BY <1>3, <2>1, <2>4 DEF StoreError, storeVars
  <2>5. QED  BY <1>7, <2>3, <2>4 DEF GiveUpWrite
<1>8. CASE GiveUpDrop
  BY <1>3, <1>8 DEF GiveUpDrop, storeVars
<1>9. QED  BY <1>5, <1>6, <1>7, <1>8 DEF Operator, HealApiNext

\* Those who neither heal nor count.
LEMMA OthersCounted ==
    ASSUME IInv, IInv', AttemptsInv, NEW id \in JobIds,
           Api \/ DeleteOnce \/ ReapOnce \/ OnTorBox \/ Client \/ BackoffEnds \/ DayPasses
           \/ UNCHANGED vars
    PROVE  Counted(id)'
<1> DEFINE Rows == \A k \in JobIds : \/ jobs'[k].state = jobs[k].state
                                        /\ jobs'[k].heals = jobs[k].heals
                                     \/ jobs'[k].state \notin HealRelevant
<1>1. UNCHANGED <<healPc, healId, healRow, recTodo, attempts>>
  BY DEF Api, DeleteOnce, ReapOnce, OnTorBox, Client, BackoffEnds, DayPasses, OnClock, vars,
         healingVars, healVars, healLocals, recVars, operatorVars
<1>2. Tallied(id)
  <2>1. UNCHANGED uncounted
    BY DEF Api, DeleteOnce, ReapOnce, OnTorBox, Client, BackoffEnds, DayPasses, OnClock, vars,
           healingVars
  <2>2. QED  BY <2>1 DEF Tallied, AttemptsInv, UncountedType
<1>3. jobs \in [JobIds -> Row] /\ NoRow.state \notin HealRelevant
  BY CountType, NoRowType, HealStates
<1>4. Rows
  <2>1. CASE UNCHANGED jobs
    BY <2>1
  <2>2. ASSUME NEW k \in JobIds, DeleteJob(k) PROVE Rows
    BY <1>3, <2>2 DEF DeleteJob, Without
  <2>3. CASE Api
    <3>1. ASSUME NEW h \in Handlers, AddCreate(h) PROVE Rows
      <4>1. CASE CreateJob(req[h].nzb)
        <5>1. NewRow(req[h].nzb).state \notin HealRelevant
          BY DEF NewRow, NoRow, HealRelevant
        <5>2. QED  BY <1>3, <4>1, <5>1 DEF CreateJob
      <4>2. QED  BY <2>1, <3>1, <4>1 DEF AddCreate, StoreError, storeVars
    <3>2. ASSUME NEW h \in Handlers, DelWrite(h) PROVE Rows
      <4> DEFINE row == [req[h].row EXCEPT !.state = "deleted"]
                 new == [row EXCEPT !.aged = FALSE]
      <4>1. req[h].id \in JobIds /\ req[h].row \in Row
        BY <3>2 DEF DelWrite, IInv, ApiInv, Serving, Request
      <4>2. new.state = "deleted"
        BY <4>1 DEF Row
      <4>3. CASE UpdateJob(req[h].id, row)
        <5> HIDE DEF new
        <5>1. jobs' = [jobs EXCEPT ![req[h].id] = IF jobs[req[h].id].state = "absent"
                                                  THEN jobs[req[h].id] ELSE new]
          BY <4>3 DEF UpdateJob, Written, new
        <5>2. QED  BY <1>3, <4>2, <5>1 DEF HealRelevant
      <4>4. QED  BY <3>2, <4>1, <4>3, <2>1, <2>2 DEF DelWrite, Persist, StoreError, storeVars
    <3>3. QED  BY <2>1, <2>3, <3>1, <3>2 DEF Api, ApiNext, AddFind, DelRead, storeVars
  <2>4. CASE DeleteOnce
    <3>1. UNCHANGED jobs \/ \E k \in JobIds : DeleteJob(k)
      BY <2>4 DEF DeleteOnce, DelStep, DelLoad, DelNothing, DelRemoved, DelRefused, DelDir, DelRow,
                  StoreError, storeVars
    <3>2. QED  BY <2>1, <2>2, <3>1
  <2>5. CASE ReapOnce
    BY <1>3, <2>5 DEF ReapOnce, ReapImported
  <2>6. ASSUME NEW k \in JobIds, BackoffPasses(k) \/ Age(k) PROVE Rows
    <3>1. jobs' = [jobs EXCEPT ![k].healed = "past"] \/ jobs' = [jobs EXCEPT ![k].aged = TRUE]
      BY <2>6 DEF BackoffPasses, Age
    <3>2. jobs'[k].state = jobs[k].state /\ jobs'[k].heals = jobs[k].heals
      BY <1>3, <3>1 DEF Row
    <3>3. \A i \in JobIds : i # k => jobs'[i] = jobs[i]
      BY <1>3, <3>1
    <3>4. QED  BY <3>2, <3>3
  <2>7. QED
    BY <2>1, <2>3, <2>4, <2>5, <2>6 DEF OnTorBox, Client, BackoffEnds, DayPasses, vars, storeVars
<1>5. QED  BY <1>1, <1>2, <1>4, CountedQuietly DEF AttemptsInv

\* After a restart the rows tell what was counted: the attempt that the healer was
\* about to write is not.
LEMMA RestartCounted ==
    ASSUME IInv, IInv', AttemptsInv, Restart, NEW id \in JobIds
    PROVE  Counted(id)'
<1> DEFINE lost == {k \in JobIds : k = healId /\ healPc \in {"save", "fail"}}
<1>1. /\ UNCHANGED <<jobs, attempts>> /\ healPc' = "idle" /\ recTodo' = NoRows
      /\ Uncount(lost)
  BY DEF Restart, HealReturn, RecReturn, storeVars
<1>2. Tallied(id) /\ (id \in lost => attempts'[id] = 0 \/ uncounted'[id] >= uncounted[id] + 1)
  BY <1>1, UncountTallies DEF AttemptsInv
<1>3. ~Holds(id, {"call", "save", "fail"})' /\ ~Copied(id)'
  BY <1>1, NoRowType DEF Holds, Copied, NoRows
<1>4. Counted(id)
  BY DEF AttemptsInv
<1>5. CASE attempts'[id] = 0
  BY <1>2, <1>3, <1>5, ClearedCounted DEF Tallied
<1>6. CASE attempts'[id] # 0
  <2>1. uncounted[id] \in Nat /\ uncounted'[id] \in Nat /\ uncounted'[id] >= uncounted[id]
    BY <1>2, <1>6 DEF Tallied
  <2>2. Holds(id, {"save", "fail"}) => uncounted'[id] >= uncounted[id] + 1
    BY <1>2, <1>6 DEF Holds
  <2>3. attempts[id] \in Nat /\ jobs[id].heals \in Nat /\ HealMaxAttempts \in Nat
    BY CountType
  <2>4. Settled(id) => attempts[id] <= jobs[id].heals + uncounted'[id]
    BY <1>4, <2>1, <2>2, <2>3 DEF Counted
  <2>5. QED
    BY <1>1, <1>3, <1>4, <2>1, <2>3, <2>4 DEF Counted, Settled, Holds
<1>7. QED  BY <1>5, <1>6

LEMMA InitCounted == ASSUME Init PROVE AttemptsInv
<1>1. /\ \A id \in JobIds : /\ attempts[id] = 0 /\ recTodo[id] = NoRow
                            /\ jobs[id].heals = 0 /\ jobs[id].state = "imported"
      /\ healPc = "idle" /\ uncounted = [id \in JobIds |-> 0]
  BY DEF Init, ImportedRow, NoRow, HealInit, RecInit, NoRows
<1>2. UncountedType
  BY <1>1 DEF UncountedType
<1>3. QED
  BY <1>1, <1>2, NoRowType, HealerAssumption DEF AttemptsInv, Counted, Settled, Copied, Holds

\* Every step counts.
LEMMA NextCounted ==
    ASSUME IInv, IInv', HealsInv, AttemptsInv, [Next]_vars
    PROVE  AttemptsInv'
<1>1. \A id \in JobIds : Counted(id)'
  BY OthersCounted, HealCounted, RecCounted, OperatorCounted, RestartCounted DEF Next
<1>2. QED  BY <1>1, UncountedOK DEF AttemptsInv

\* Between two heals or requests to retry TorBox is sent an NZB at most
\* HEAL_MAX_ATTEMPTS times and once more for each restart that catches the healer
\* between a resubmission and its row, each failure that cannot be written, and each
\* resubmission during a tick of the reconciler that still writes an older copy.
\* Nothing else loses count: not rows written from old copies by the API and the
\* operator, not lost answers, not a failing write of `healing`.
THEOREM AttemptsCorrect == Spec => []AttemptsBounded
<1>1. Init => HealsInv /\ AttemptsInv
  BY InitHeals, InitCounted
<1>2. IInv /\ IInv' /\ HealsInv /\ AttemptsInv /\ [Next]_vars => HealsInv' /\ AttemptsInv'
  BY NextHeals, NextCounted
<1>3. AttemptsInv => AttemptsBounded
  BY DEF AttemptsInv, Counted, AttemptsBounded
<1>4. QED  BY <1>1, <1>2, <1>3, Invariance, PTL DEF Spec
=============================================================================
