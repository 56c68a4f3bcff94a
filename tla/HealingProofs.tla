----------------------------- MODULE HealingProofs -----------------------------
(***************************************************************************)
(* Proofs about healing, for any library, number of rows, downloads,       *)
(* requests and faults: the copies of the healer, its reconciler and the   *)
(* operator's requests on top of what RowProofs shows of the table, the    *)
(* API and the deleter, and the symlink rows that refer to the table.      *)
(***************************************************************************)
EXTENDS Healing, RowProofs, Greatest

\* A symlink row names a row of the table that is there, and a path.
SymInv == /\ SymType
          /\ \A s \in SymIds : Tracked(s) => /\ syms[s].job \in JobIds
                                             /\ syms[s].path \in Paths
                                             /\ Exists(syms[s].job)

\* A row the healer or an operator may hold.
HeldToHeal(D, A, id, row) == /\ id \in JobIds
                             /\ WellFormed(D, A, id, row)
                             /\ row.state \in HealRelevant

HealInv == /\ HealType
           /\ healPc \in {"call", "save", "fail"} => HeldToHeal(dl, asked, healId, healRow)

RecInv == /\ RecType
          /\ Table(recTodo, dl, asked)
          /\ \A id \in JobIds : recTodo[id].state \in {"healing", "absent"}

OperatorInv == /\ HealApiType
               /\ hreq.op \in {"retry", "give_up"} => HeldToHeal(dl, asked, hreq.id, hreq.row)

IInv == /\ StoreInv /\ TorBoxInv /\ FarmType /\ LibraryType /\ SymInv
        /\ ApiInv /\ DelInv /\ HealInv /\ RecInv /\ OperatorInv

-----------------------------------------------------------------------------
(* Rows that are healed *)

\* A release name maps to a row, or to none.
LEMMA LastWithType ==
    ASSUME NEW r \in Releases
    PROVE  LastWith(r) \in JobIds \cup {0}
<1> DEFINE S == {id \in JobIds : jobs[id].state \in HealRelevant /\ jobs[id].path = r}
<1>1. CASE S = {}
  BY <1>1 DEF LastWith
<1>2. CASE S # {}
  <2>1. \E id \in S : \A other \in S : other <= id
    BY <1>2, HasGreatest, StoreAssumption DEF JobIds
  <2>2. (CHOOSE id \in S : \A other \in S : other <= id) \in S
    BY <2>1
  <2>3. QED  BY <1>2, <2>2 DEF LastWith
<1>3. QED  BY <1>1, <1>2

\* The states of healing are states about a download.
LEMMA HealStates == HealRelevant \subseteq Submitted /\ HealRelevant \subseteq States
                    /\ "absent" \notin HealRelevant /\ "deleted" \notin HealRelevant
BY DEF HealRelevant, Submitted, States

\* The copies that are written while a job is healed are well formed.
LEMMA FailedOK ==
    ASSUME NEW D, NEW A, NEW id, NEW row, HeldToHeal(D, A, id, row)
    PROVE  HeldToHeal(D, A, id, MarkedFailed(row))
<1> DEFINE new == MarkedFailed(row)
<1>1. row \in Row /\ row.tb # 0 /\ row.heals \in Nat
  BY HealStates DEF HeldToHeal, WellFormed, Row
<1>2. new \in Row
  <2>1. row.heals + 1 \in Nat
    BY <1>1
  <2>2. new = [row EXCEPT !.state = "heal_failed", !.heals = row.heals + 1, !.healed = "recent"]
    BY <1>1 DEF MarkedFailed, Row
  <2>3. QED  BY <1>1, <2>1, <2>2 DEF Row, States
<1>3. new.state = "heal_failed" /\ new.tb = row.tb /\ new.nzb = row.nzb
  BY <1>1 DEF MarkedFailed, Row
<1>4. QED  BY <1>1, <1>2, <1>3, HealStates DEF HeldToHeal, WellFormed, HealRelevant

LEMMA RestoredOK ==
    ASSUME NEW D, NEW A, NEW id, NEW row, HeldToHeal(D, A, id, row), NEW r \in Releases
    PROVE  HeldToHeal(D, A, id, Restored(row, r))
<1> DEFINE new == Restored(row, r)
<1>1. row \in Row /\ row.tb # 0
  BY HealStates DEF HeldToHeal, WellFormed, Row
<1>2. new \in Row
  BY <1>1 DEF Restored, Row, States
<1>3. new.state = "imported" /\ new.tb = row.tb /\ new.nzb = row.nzb
  BY <1>1 DEF Restored, Row
<1>4. QED  BY <1>1, <1>2, <1>3, HealStates DEF HeldToHeal, WellFormed, HealRelevant

\* The copy of a job that is resubmitted names its new download.
LEMMA ResubmittedOK ==
    ASSUME NEW D, NEW A, NEW id, NEW row, HeldToHeal(D, A, id, row), NEW d \in DlIds,
           D[d].job = id
    PROVE  HeldToHeal(D, A, id, [row EXCEPT !.state = "healing", !.tb = d])
<1> DEFINE new == [row EXCEPT !.state = "healing", !.tb = d]
<1>1. row \in Row /\ d \in Nat /\ d # 0
  BY DEF HeldToHeal, WellFormed, DlIds
<1>2. new \in Row
  BY <1>1 DEF Row, States
<1>3. new.state = "healing" /\ new.tb = d /\ new.nzb = row.nzb
  BY <1>1 DEF Row
<1>4. QED  BY <1>1, <1>2, <1>3, HealStates DEF HeldToHeal, WellFormed, HealRelevant

\* A row in the table that is healed may be copied.
LEMMA HeldFromTable ==
    ASSUME StoreInv, NEW id \in JobIds, jobs[id].state \in HealRelevant
    PROVE  HeldToHeal(dl, asked, id, jobs[id])
BY DEF StoreInv, Table, HeldToHeal

\* Held copies stay so while their holder waits.
LEMMA HeldKept ==
    ASSUME Grows, NEW id, NEW row, HeldToHeal(dl, asked, id, row)
    PROVE  HeldToHeal(dl', asked', id, row)
<1>1. id # 0
  BY DEF HeldToHeal, JobIds
<1>2. QED  BY <1>1 DEF HeldToHeal, WellFormed, Grows, JobIds, DlIds

-----------------------------------------------------------------------------
(* What a step leaves alone *)

\* No row of the table goes.
RowsStay == \A id \in JobIds : Exists(id) => Exists(id)'

LEMMA SymKept == ASSUME SymInv, RowsStay, UNCHANGED symVars PROVE SymInv'
BY DEF SymInv, SymType, RowsStay, symVars, Tracked

\* Deleted rows take their symlink rows along.
LEMMA CascadeOK == ASSUME SymInv, Cascade PROVE SymInv'
<1>1. syms \in [SymIds -> Sym] /\ nextSym' = nextSym /\ NoSym \in Sym
  BY DEF SymInv, SymType, Cascade, NoSym, Sym, Target
<1>2. syms' \in [SymIds -> Sym]
  BY <1>1 DEF Cascade
<1>3. \A s \in SymIds : Tracked(s)' => /\ Tracked(s) /\ syms'[s] = syms[s]
                                       /\ jobs'[syms[s].job].state # "absent"
  BY <1>1 DEF Cascade, Tracked
<1>4. QED  BY <1>1, <1>2, <1>3 DEF SymInv, SymType, Exists

LEMMA HealKept ==
    ASSUME HealInv, Grows, UNCHANGED healLocals, attempts' \in [JobIds -> Nat]
    PROVE  HealInv'
<1>1. HealType'
  BY DEF HealInv, HealType, healLocals
<1>2. QED  BY <1>1, HeldKept DEF HealInv, healLocals

LEMMA RecKept == ASSUME RecInv, Grows, UNCHANGED recVars PROVE RecInv'
BY TableKept DEF RecInv, RecType, Grows, recVars

LEMMA OperatorKept == ASSUME OperatorInv, Grows, UNCHANGED operatorVars PROVE OperatorInv'
BY HeldKept DEF OperatorInv, HealApiType, operatorVars

\* Writing a row that is there removes none.
LEMMA WrittenStays ==
    ASSUME jobs \in [JobIds -> Row], NEW id \in JobIds, NEW row, row.state # "absent",
           row \in Row, Persist(id, row)
    PROVE  RowsStay
<1>1. CASE UpdateJob(id, row)
  <2>1. [row EXCEPT !.aged = FALSE].state # "absent"
    BY DEF Row
  <2>2. QED  BY <1>1, <2>1 DEF UpdateJob, Written, RowsStay, Exists
<1>2. CASE StoreError
  BY <1>2 DEF StoreError, storeVars, RowsStay, Exists
<1>3. QED  BY <1>1, <1>2 DEF Persist

\* Statements that write the copy of a job being healed, or fail.
LEMMA HealPersistOK ==
    ASSUME StoreInv, NEW id, NEW row, HeldToHeal(dl, asked, id, row),
           Persist(id, row), UNCHANGED <<dl, asked>>
    PROVE  StoreInv' /\ RowsStay
<1>1. StoreInv'
  BY PersistKept DEF HeldToHeal
<1>2. RowsStay
  BY HealStates, WrittenStays DEF StoreInv, Table, HeldToHeal, WellFormed
<1>3. QED  BY <1>1, <1>2

LEMMA StoreStays ==
    ASSUME StoreInv, Grows, UNCHANGED storeVars, faults' \in 0 .. MaxFaults
    PROVE  StoreInv' /\ RowsStay
BY StoreKept DEF storeVars, RowsStay, Exists

-----------------------------------------------------------------------------
(* Statements on imported_symlinks *)

LEMMA UpsertOK ==
    ASSUME SymInv, LibraryType, RowsStay, NEW id \in JobIds, NEW p \in Paths, Exists(id),
           UpsertImportedSymlink(id, p), SymlinkStoreAssumption
    PROVE  SymInv'
<1>1. syms \in [SymIds -> Sym] /\ links[p] \in Target /\ Exists(id)'
  BY DEF SymInv, SymType, LibraryType, RowsStay
<1>2. CASE RowsAt(p) # {}
  <2>1. syms' = [s \in SymIds |-> IF s \in RowsAt(p)
                                  THEN [syms[s] EXCEPT !.job = id, !.target = links[p]]
                                  ELSE syms[s]] /\ nextSym' = nextSym
    BY <1>2 DEF UpsertImportedSymlink
  <2>2. ASSUME NEW s \in SymIds, s \in RowsAt(p)
        PROVE  /\ syms'[s] \in Sym /\ syms'[s].job = id /\ syms'[s].path \in Paths
    BY <1>1, <2>1, <2>2 DEF RowsAt, Sym
  <2>3. \A s \in SymIds : s \notin RowsAt(p) => syms'[s] = syms[s]
    BY <2>1
  <2>4. syms' \in [SymIds -> Sym]
    BY <1>1, <2>1, <2>2, <2>3
  <2>5. ASSUME NEW s \in SymIds, Tracked(s)'
        PROVE  syms'[s].job \in JobIds /\ syms'[s].path \in Paths /\ Exists(syms[s].job)'
    <3>1. CASE s \in RowsAt(p)
      BY <1>1, <2>2, <3>1
    <3>2. CASE s \notin RowsAt(p)
      BY <2>3, <2>5, <3>2 DEF SymInv, Tracked, RowsStay
    <3>3. QED  BY <3>1, <3>2
  <2>6. QED  BY <2>1, <2>4, <2>5 DEF SymInv, SymType
<1>3. CASE RowsAt(p) = {}
  <2> DEFINE new == [job |-> id, path |-> p, target |-> links[p], broken |-> FALSE]
  <2>1. /\ nextSym \in SymIds /\ nextSym' \in 1 .. MaxSyms + 1
        /\ syms' = [syms EXCEPT ![nextSym] = new]
    BY <1>3, SymlinkStoreAssumption DEF UpsertImportedSymlink, SymInv, SymType, SymIds
  <2>2. new \in Sym /\ new.job = id /\ new.path = p
    BY <1>1 DEF Sym
  <2>3. syms' \in [SymIds -> Sym] /\ syms'[nextSym] = new
        /\ \A s \in SymIds : s # nextSym => syms'[s] = syms[s]
    BY <1>1, <2>1, <2>2
  <2> HIDE DEF new
  <2>4. QED  BY <1>1, <2>1, <2>2, <2>3 DEF SymInv, SymType, Tracked, RowsStay
<1>4. QED  BY <1>2, <1>3

LEMMA VerifiedOK ==
    ASSUME SymInv, RowsStay, NEW s \in SymIds, NEW b \in BOOLEAN, SetSymlinkVerified(s, b)
    PROVE  SymInv'
<1> DEFINE new == IF syms[s] = NoSym THEN syms[s] ELSE [syms[s] EXCEPT !.broken = b]
<1>1. syms \in [SymIds -> Sym] /\ nextSym' = nextSym /\ syms' = [syms EXCEPT ![s] = new]
  BY DEF SymInv, SymType, SetSymlinkVerified
<1>2. new \in Sym /\ new.job = syms[s].job /\ new.path = syms[s].path
      /\ (syms[s] = NoSym => new = NoSym)
  BY <1>1 DEF Sym
<1> HIDE DEF new
<1>3. QED  BY <1>1, <1>2 DEF SymInv, SymType, Tracked, RowsStay

LEMMA TargetOK ==
    ASSUME SymInv, RowsStay, NEW s \in SymIds, NEW t \in Target, UpdateSymlinkTarget(s, t)
    PROVE  SymInv'
<1> DEFINE new == IF syms[s] = NoSym THEN syms[s]
                  ELSE [syms[s] EXCEPT !.target = t, !.broken = FALSE]
<1>1. syms \in [SymIds -> Sym] /\ nextSym' = nextSym /\ syms' = [syms EXCEPT ![s] = new]
  BY DEF SymInv, SymType, UpdateSymlinkTarget
<1>2. new \in Sym /\ new.job = syms[s].job /\ new.path = syms[s].path
      /\ (syms[s] = NoSym => new = NoSym)
  BY <1>1 DEF Sym
<1> HIDE DEF new
<1>3. QED  BY <1>1, <1>2 DEF SymInv, SymType, Tracked, RowsStay

LEMMA SymDropOK ==
    ASSUME SymInv, RowsStay, NEW s, DeleteImportedSymlink(s) \/ DeleteImportedSymlinksByJob(s)
    PROVE  SymInv'
<1>1. syms \in [SymIds -> Sym] /\ nextSym' = nextSym /\ NoSym \in Sym
  BY DEF SymInv, SymType, DeleteImportedSymlink, DeleteImportedSymlinksByJob, NoSym, Sym, Target
<1>2. syms' \in [SymIds -> Sym] /\ \A t \in SymIds : syms'[t] # NoSym => syms'[t] = syms[t]
  BY <1>1 DEF DeleteImportedSymlink, DeleteImportedSymlinksByJob
<1>3. QED  BY <1>1, <1>2 DEF SymInv, SymType, Tracked, RowsStay

-----------------------------------------------------------------------------
(* The initial state *)

LEMMA InitIInv == ASSUME Init PROVE IInv
<1>1. \A id \in JobIds : id \in DlIds /\ id # 0
  BY HealingAssumption, StoreAssumption, TorBoxAssumption DEF JobIds, DlIds
<1>2. \A id \in JobIds : /\ Held[id] \in Nzbs
                         /\ ReleaseOf[Held[id]] \in Releases
  BY LibraryAssumption, TorBoxAssumption
<1>3. \A id \in JobIds : dl[id].job = id
  BY <1>1 DEF Init
<1>4. StoreInv
  <2>1. ASSUME NEW id \in JobIds PROVE WellFormed(dl, asked, id, ImportedRow(id))
    <3> DEFINE row == ImportedRow(id)
    <3>1. id \in Nat
      BY DEF JobIds
    <3>2. row \in Row
      BY <3>1, <1>2, NoRowType DEF ImportedRow, Row, States
    <3>3. row.state = "imported" /\ row.tb = id /\ row.nzb = Held[id]
      BY NoRowType DEF ImportedRow, Row
    <3> HIDE DEF row
    <3>4. WellFormed(dl, asked, id, row)
      BY <3>2, <3>3, <1>1, <1>2, <1>3 DEF WellFormed
    <3>5. QED  BY <3>4 DEF row
  <2>2. Table(jobs, dl, asked)
    BY <2>1 DEF Init, Table, WellFormed
  <2>3. QED  BY <2>2, StoreAssumption, FaultsAssumption DEF Init, StoreInv
<1>5. TorBoxInv
  <2>1. ASSUME NEW d \in DlIds
        PROVE  /\ dl[d] \in Download
               /\ dl[d].status = "unused" => dl[d].job = 0
               /\ dl[d].job # 0 => dl[d].release \in Releases
               /\ dl[d].status # "removed"
    <3>1. CASE d \in JobIds
      BY <1>2, <3>1 DEF Init, Download, Live
    <3>2. CASE d \notin JobIds
      BY <3>2 DEF Init, Download, UnusedDl
    <3>3. QED  BY <3>1, <3>2
  <2>2. Downloads(dl) /\ Asked(dl, asked)
    BY <2>1 DEF Init, Downloads, Asked
  <2>3. QED  BY <2>2 DEF Init, TorBoxInv
<1>6. FarmType
  BY <1>2 DEF Init, FarmType, ImportedRow, NoRow
<1>7. LibraryType
  <2>1. \A r : NzbOf(r) \in Nzbs \cup {NoNzb}
    BY <1>2 DEF NzbOf
  <2>2. \A q \in Paths : Shelf[q] # NoLink => EpisodeOf[Shelf[q].file] \in Episodes
    BY LibraryAssumption DEF Target, Episodes
  <2>3. QED
    BY <2>1, <2>2, LibraryAssumption DEF Init, LibraryInit, LibraryType, Content, NoContent
<1>8. SymInv
  <2>1. NoSym \in Sym
    BY DEF NoSym, Sym, Target
  <2>2. QED  BY <2>1, SymlinkStoreAssumption DEF Init, SymInit, SymInv, SymType, Tracked
<1>9. ApiInv
  BY NoRowType DEF Init, ApiInit, ApiInv, Serving, Request, Idle
<1>10. DelInv
  BY TableNoRows, NoRowType, DeleterAssumption
  DEF Init, DelInit, DelInv, DelType, Table, NoAttempts, NoRows
<1>11. HealInv
  BY NoRowType DEF Init, HealInit, HealInv, HealType, NoReleases
<1>12. RecInv
  BY TableNoRows, NoRowType
  DEF Init, RecInit, RecInv, RecType, Table, NoRows, NoSyms, NoSym, Sym, Target, RecNoList
<1>13. OperatorInv
  BY NoRowType DEF Init, HealApiInit, OperatorInv, HealApiType, HealApiIdle, HealRequest
<1>14. QED
  BY <1>4, <1>5, <1>6, <1>7, <1>8, <1>9, <1>10, <1>11, <1>12, <1>13 DEF IInv

-----------------------------------------------------------------------------
(* The healer *)

\* The healer takes up a copy, or puts it aside.
LEMMA HealToOK ==
    ASSUME HealInv, NEW pc \in {"trigger", "call", "save", "fail"}, NEW id \in JobIds \cup {0},
           NEW row \in Row, HealTo(pc, id, row),
           brokenJobs' \in SUBSET JobIds, attempts' \in [JobIds -> Nat],
           pc # "trigger" => HeldToHeal(dl', asked', id, row)
    PROVE  HealInv'
BY DEF HealTo, HealInv, HealType

\* What a step of the healer preserves.
LEMMA HealStepOK ==
    ASSUME IInv, HealOnce
    PROVE  StoreInv' /\ TorBoxInv' /\ FarmType' /\ LibraryType' /\ SymInv' /\ HealInv' /\ Grows
<1> USE DEF IInv
<1> DEFINE Rest == FarmType' /\ LibraryType'
           Goal == StoreInv' /\ TorBoxInv' /\ SymInv' /\ HealInv' /\ Grows
<1> UNCHANGED asked
  BY DEF HealOnce, apiVars
<1>a. HealType /\ faults \in 0 .. MaxFaults
  BY DEF HealInv, StoreInv
<1>b. ASSUME UNCHANGED <<storeVars, torboxVars>>, faults' \in 0 .. MaxFaults
      PROVE  StoreInv' /\ TorBoxInv' /\ RowsStay /\ Grows
  <2>1. Grows
    BY <1>b DEF torboxVars, Grows
  <2>2. QED  BY <1>b, <2>1, StoreStays, TorBoxKept
<1>c. ASSUME UNCHANGED <<storeVars, torboxVars, symVars>>, faults' \in 0 .. MaxFaults
      PROVE  StoreInv' /\ TorBoxInv' /\ SymInv' /\ Grows
  BY <1>b, <1>c, SymKept
<1>0. Rest
  BY DEF HealOnce, HealStep, HealLoad, HealDiscover, HealList, HealDrop, HealStat, HealMark,
         HealBroken, HealSkip, HealStart, HealCreated, HealAnswerLost, HealRefused, HealSave,
         HealFail, HealEnd, HealTo, farmVars, libraryVars, FarmType, LibraryType
<1> SUFFICES Goal
  BY <1>0
<1>1. CASE HealLoad
  <2>1. faults' \in 0 .. MaxFaults
    BY <1>1, <1>a, FaultType DEF HealLoad
  <2>2. byRelease' \in [Releases -> JobIds \cup {0}]
    BY <1>1, LastWithType DEF HealLoad, NoReleases
  <2>3. HealInv'
    BY <1>1, <1>a, <2>2 DEF HealLoad, HealInv, HealType
  <2>4. QED  BY <1>1, <2>1, <2>3, <1>c DEF HealLoad
<1>2. ASSUME NEW p \in Paths, HealDiscover(p)
      PROVE  Goal
  <2>1. faults' \in 0 .. MaxFaults
    BY <1>2, <1>a, FaultType DEF HealDiscover, SymlinkError
  <2>2. StoreInv' /\ TorBoxInv' /\ RowsStay /\ Grows
    BY <1>2, <2>1, <1>b DEF HealDiscover
  <2>3. SymInv'
    <3>1. CASE Recordable(p) /\ UpsertImportedSymlink(byRelease[links[p].rel], p)
      <4>1. byRelease[links[p].rel] \in JobIds /\ Exists(byRelease[links[p].rel])
        BY <3>1, <1>a DEF Recordable, Mapped, HealType, LibraryType, Target
      <4>2. QED  BY <3>1, <4>1, <2>2, UpsertOK, SymlinkStoreAssumption
    <3>2. CASE UNCHANGED symVars
      BY <2>2, <3>2, SymKept
    <3>3. QED  BY <1>2, <3>1, <3>2 DEF HealDiscover, SymlinkError
  <2>4. HealInv'
    BY <1>2, <1>a DEF HealDiscover, HealInv, HealType
  <2>5. QED  BY <2>2, <2>3, <2>4
<1>3. CASE HealList
  <2>1. faults' \in 0 .. MaxFaults
    BY <1>3, <1>a, FaultType DEF HealList
  <2>2. HealInv'
    BY <1>3, <1>a DEF HealList, HealInv, HealType, NoReleases
  <2>3. QED  BY <1>3, <2>1, <2>2, <1>c DEF HealList
<1>4. ASSUME NEW s \in SymIds, HealDrop(s)
      PROVE  Goal
  <2>1. faults' \in 0 .. MaxFaults
    BY <1>4, <1>a, FaultType DEF HealDrop, SymlinkError
  <2>2. StoreInv' /\ TorBoxInv' /\ RowsStay /\ Grows
    BY <1>4, <2>1, <1>b DEF HealDrop
  <2>3. SymInv'
    BY <1>4, <2>2, SymKept, SymDropOK DEF HealDrop, SymlinkError
  <2>4. HealInv'
    BY <1>4, <1>a DEF HealDrop, Checking, HealInv, HealType
  <2>5. QED  BY <2>2, <2>3, <2>4
<1>5. ASSUME NEW s \in SymIds, HealStat(s)
      PROVE  Goal
  <2>1. HealInv'
    BY <1>5, <1>a DEF HealStat, HealInv, HealType, Resolves
  <2>2. QED  BY <1>5, <2>1, <1>a, <1>c DEF HealStat
<1>6. ASSUME NEW s \in SymIds, HealMark(s)
      PROVE  Goal
  <2>1. faults' \in 0 .. MaxFaults
    BY <1>6, <1>a, FaultType DEF HealMark, SymlinkError
  <2>2. StoreInv' /\ TorBoxInv' /\ RowsStay /\ Grows
    BY <1>6, <2>1, <1>b DEF HealMark
  <2>3. SymInv'
    <3>1. seenBroken \in BOOLEAN
      BY <1>a DEF HealType
    <3>2. QED  BY <1>6, <3>1, <2>2, SymKept, VerifiedOK DEF HealMark, SymlinkError
  <2>4. HealInv'
    BY <1>6, <1>a DEF HealMark, HealInv, HealType
  <2>5. QED  BY <2>2, <2>3, <2>4
<1>7. CASE HealBroken
  <2>1. faults' \in 0 .. MaxFaults
    BY <1>7, <1>a, FaultType DEF HealBroken
  <2>2. \A s \in SymIds : syms[s].broken => syms[s].job \in JobIds
    BY DEF SymInv, Tracked, NoSym
  <2>3. brokenJobs' \in SUBSET JobIds
    BY <1>7, <2>2 DEF HealBroken
  <2>4. HealInv'
    BY <1>7, <1>a, <2>3 DEF HealBroken, HealInv, HealType
  <2>5. QED  BY <1>7, <2>1, <2>4, <1>c DEF HealBroken
<1>8. ASSUME NEW id \in JobIds, HealSkip(id)
      PROVE  Goal
  <2>1. faults' \in 0 .. MaxFaults
    BY <1>8, <1>a, FaultType DEF HealSkip
  <2>2. HealInv'
    BY <1>8, <1>a DEF HealSkip, HealInv, HealType
  <2>3. QED  BY <1>8, <2>1, <2>2, <1>c DEF HealSkip
<1>9. ASSUME NEW id \in JobIds, HealStart(id)
      PROVE  Goal
  <2>1. UNCHANGED symVars
    BY <1>9 DEF HealStart, HealTo
  <2>2. StoreInv' /\ TorBoxInv' /\ SymInv' /\ Grows
    BY <1>9, <2>1, <1>a, <1>c DEF HealStart
  <2>3. HeldToHeal(dl, asked, id, jobs[id])
    BY <1>9, HeldFromTable DEF HealStart, Healable, HealRelevant
  <2>4. HeldToHeal(dl', asked', id, jobs[id]) /\ HeldToHeal(dl', asked', id, MarkedFailed(jobs[id]))
    BY <2>2, <2>3, FailedOK, HeldKept
  <2>5. jobs[id] \in Row /\ MarkedFailed(jobs[id]) \in Row
    BY <2>4 DEF HeldToHeal, WellFormed
  <2>6. brokenJobs' \in SUBSET JobIds /\ attempts' \in [JobIds -> Nat]
    BY <1>9, <1>a DEF HealStart, HealType
  <2>7. HealInv'
    BY <1>9, <2>4, <2>5, <2>6, HealToOK DEF HealStart
  <2>8. QED  BY <2>2, <2>7
<1>10. ASSUME NEW d \in DlIds, Resubmitted(d)
       PROVE  /\ TorBoxInv' /\ Grows /\ dl'[d].job = healId
              /\ HeldToHeal(dl', asked', healId, healRow) /\ healId \in JobIds /\ UNCHANGED storeVars
              /\ brokenJobs' \in SUBSET JobIds /\ attempts' \in [JobIds -> Nat]
  <2>1. HeldToHeal(dl, asked, healId, healRow) /\ healId \in JobIds
    BY <1>10 DEF Resubmitted, HealInv, HeldToHeal
  <2>2. healRow.nzb \in Nzbs
    BY <2>1, HealStates DEF HeldToHeal, WellFormed
  <2>3. PICK r \in HealedAs[healRow.nzb] : CreateNamed(d, healId, r)
    BY <1>10 DEF Resubmitted
  <2>4. r \in Releases
    BY <2>2, HealerAssumption
  <2>5. TorBoxInv' /\ Grows /\ dl'[d].job = healId
    BY <2>1, <2>3, <2>4, CreateOK
  <2>6. brokenJobs' \in SUBSET JobIds /\ attempts' \in [JobIds -> Nat]
    BY <1>10, <1>a, <2>1 DEF Resubmitted, HealType
  <2>7. QED  BY <1>10, <2>1, <2>5, <2>6, HeldKept DEF Resubmitted
<1>11. ASSUME NEW d \in DlIds, HealCreated(d)
       PROVE  Goal
  <2> DEFINE row == [healRow EXCEPT !.state = "healing", !.tb = d]
  <2>1. Resubmitted(d) /\ HealTo("save", healId, row) /\ NoFault
    BY <1>11 DEF HealCreated
  <2>2. StoreInv' /\ SymInv'
    BY <2>1, <1>10, <1>a, FaultType, StoreStays, SymKept DEF HealTo
  <2>3. HeldToHeal(dl', asked', healId, row)
    BY <2>1, <1>10, ResubmittedOK
  <2>4. row \in Row
    BY <2>3 DEF HeldToHeal, WellFormed
  <2>5. HealInv'
    BY <2>1, <2>3, <2>4, <1>10, HealToOK
  <2>6. QED  BY <2>1, <2>2, <2>5, <1>10
<1>12. ASSUME NEW d \in DlIds, HealAnswerLost(d)
       PROVE  Goal
  <2> DEFINE row == MarkedFailed(healRow)
  <2>1. Resubmitted(d) /\ HealTo("fail", healId, row) /\ Fault("lost")
    BY <1>12 DEF HealAnswerLost
  <2>2. StoreInv' /\ SymInv'
    BY <2>1, <1>10, <1>a, FaultType, StoreStays, SymKept DEF HealTo
  <2>3. HeldToHeal(dl, asked, healId, row)
    BY <2>1, FailedOK DEF Resubmitted, HealInv
  <2> HIDE DEF row
  <2>4. HeldToHeal(dl', asked', healId, row)
    BY <2>1, <2>3, <1>10, HeldKept
  <2>5. row \in Row
    BY <2>3 DEF HeldToHeal, WellFormed
  <2>6. HealInv'
    BY <2>1, <2>4, <2>5, <1>10, HealToOK
  <2>7. QED  BY <2>1, <2>2, <2>6, <1>10
<1>13. CASE HealRefused
  <2> DEFINE row == MarkedFailed(healRow)
  <2>1. HealTo("fail", healId, row) /\ Fault("refuse") /\ healPc = "call"
    BY <1>13 DEF HealRefused
  <2>2. StoreInv' /\ TorBoxInv' /\ SymInv' /\ Grows
    BY <1>13, <2>1, <1>a, <1>c, FaultType DEF HealRefused, HealTo
  <2>3. HeldToHeal(dl, asked, healId, row)
    BY <2>1, FailedOK DEF HealInv
  <2> HIDE DEF row
  <2>4. HeldToHeal(dl', asked', healId, row)
    BY <2>2, <2>3, HeldKept
  <2>5. brokenJobs' \in SUBSET JobIds /\ attempts' \in [JobIds -> Nat]
    BY <1>13, <1>a DEF HealRefused, HealType
  <2>6. row \in Row /\ healId \in JobIds
    BY <2>3 DEF HeldToHeal, WellFormed
  <2>7. HealInv'
    BY <2>1, <2>4, <2>5, <2>6, HealToOK
  <2>8. QED  BY <2>2, <2>7
<1>14. ASSUME HealTo("trigger", 0, NoRow), UNCHANGED <<attempts, brokenJobs>>
       PROVE  HealInv'
  <2>1. brokenJobs' \in SUBSET JobIds /\ attempts' \in [JobIds -> Nat]
    BY <1>14, <1>a DEF HealType
  <2>2. QED  BY <1>14, <2>1, NoRowType, HealToOK
<1>15. CASE HealSave
  <2>1. HeldToHeal(dl, asked, healId, healRow) /\ healId \in JobIds
    BY <1>15 DEF HealSave, HealInv, HeldToHeal
  <2>2. UNCHANGED <<torboxVars, dl, symVars, attempts, brokenJobs>> /\ Grows
    BY <1>15 DEF HealSave, HealTo, torboxVars, Grows
  <2>3. Persist(healId, healRow)
    BY <1>15 DEF HealSave, Persist
  <2>4. StoreInv' /\ RowsStay
    BY <2>1, <2>2, <2>3, HealPersistOK
  <2>5. TorBoxInv' /\ SymInv'
    BY <2>2, <2>4, TorBoxKept, SymKept
  <2>6. HealInv'
    <3>1. CASE HealTo("trigger", 0, NoRow)
      BY <3>1, <2>2, <1>14
    <3>2. CASE HealTo("fail", healId, MarkedFailed(healRow))
      <4> DEFINE row == MarkedFailed(healRow)
      <4>1. HeldToHeal(dl, asked, healId, row) /\ row \in Row
        BY <2>1, FailedOK DEF HeldToHeal, WellFormed
      <4> HIDE DEF row
      <4>2. HeldToHeal(dl', asked', healId, row)
        BY <2>2, <4>1, HeldKept
      <4>3. brokenJobs' \in SUBSET JobIds /\ attempts' \in [JobIds -> Nat]
        BY <2>2, <1>a DEF HealType
      <4>4. HealTo("fail", healId, row)
        BY <3>2 DEF row
      <4>5. QED  BY <2>1, <4>1, <4>2, <4>3, <4>4, HealToOK
    <3>3. QED  BY <1>15, <3>1, <3>2 DEF HealSave
  <2>7. QED  BY <2>2, <2>4, <2>5, <2>6
<1>16. CASE HealFail
  <2>1. HeldToHeal(dl, asked, healId, healRow)
    BY <1>16 DEF HealFail, HealInv
  <2>2. UNCHANGED <<torboxVars, dl, symVars>> /\ Grows
    BY <1>16 DEF HealFail, HealTo, torboxVars, Grows
  <2>3. StoreInv' /\ RowsStay
    BY <1>16, <2>1, <2>2, HealPersistOK DEF HealFail
  <2>4. TorBoxInv' /\ SymInv'
    BY <2>2, <2>3, TorBoxKept, SymKept
  <2>5. HealInv'
    BY <1>16, <1>14 DEF HealFail
  <2>6. QED  BY <2>2, <2>3, <2>4, <2>5
<1>17. CASE HealEnd
  <2>1. HealInv'
    BY <1>17, <1>a, NoRowType DEF HealEnd, HealReturn, HealInv, HealType, NoReleases
  <2>2. QED  BY <1>17, <2>1, <1>a, <1>c DEF HealEnd
<1>18. QED
  BY <1>1, <1>2, <1>3, <1>4, <1>5, <1>6, <1>7, <1>8, <1>9, <1>11, <1>12, <1>13, <1>15,
     <1>16, <1>17
  DEF HealOnce, HealStep

-----------------------------------------------------------------------------
(* The reconciler *)

\* What the reconciler finishes: its copy of a row, whose download has a name.
LEMMA RecHeldOK ==
    ASSUME RecInv, TorBoxInv, NEW id \in JobIds, Oldest(recTodo, id)
    PROVE  HeldToHeal(dl, asked, id, recTodo[id]) /\ RecRelease(id) \in Releases
<1>1. recTodo[id].state = "healing" /\ WellFormed(dl, asked, id, recTodo[id])
  BY DEF RecInv, Table, Oldest
<1>2. recTodo[id].tb \in DlIds /\ dl[recTodo[id].tb].job = id
  BY <1>1 DEF WellFormed, Submitted
<1>3. RecRelease(id) \in Releases
  BY <1>2 DEF RecRelease, TorBoxInv, Downloads, JobIds
<1>4. QED  BY <1>1, <1>3 DEF HeldToHeal, HealRelevant

\* The reconciler is done with a job, or goes on with it.
LEMMA RecDoneOK ==
    ASSUME RecInv, NEW id \in JobIds, recTodo' = Without(recTodo, id) \/ UNCHANGED recTodo,
           UNCHANGED <<dl, asked, recList>>, recPc' \in {"job", "link", "row"},
           recSyms' \in [SymIds -> Sym], recSeen' \in BOOLEAN, recHealed' \in BOOLEAN,
           recNew' \in Target
    PROVE  RecInv'
<1>1. Table(recTodo', dl, asked)
  BY TableWithout DEF RecInv
<1>2. \A i \in JobIds : recTodo'[i].state \in {"healing", "absent"}
  BY NoRowType DEF RecInv, Without, Table
<1>3. RecType'
  BY <1>1 DEF RecInv, RecType, Table
<1>4. QED  BY <1>1, <1>2, <1>3 DEF RecInv

\* No links are left to repoint.
LEMMA NoLinkType == NoLink \in Target /\ NoSym \in Sym /\ NoSyms \in [SymIds -> Sym]
BY DEF NoLink, NoSym, NoSyms, Sym, Target

\* Between ticks the reconciler holds nothing.
LEMMA RecReturnOK == ASSUME RecReturn PROVE RecInv'
BY TableNoRows, NoRowType, NoLinkType DEF RecReturn, RecInv, RecType, Table, NoRows, RecNoList

\* A file that replaces another one is a file of the new release.
LEMMA NewFileType ==
    ASSUME NEW r \in Releases, NEW f
    PROVE  NewFile(r, f) \subseteq Files
BY LibraryAssumption DEF NewFile, FindBestMatch, Shown

\* What a step of the reconciler preserves.
LEMMA RecStepOK ==
    ASSUME IInv, HealReconcileOnce
    PROVE  /\ StoreInv' /\ TorBoxInv' /\ FarmType' /\ LibraryType' /\ SymInv' /\ RecInv'
           /\ attempts' \in [JobIds -> Nat] /\ Grows
<1> USE DEF IInv
<1> DEFINE Goal == StoreInv' /\ LibraryType' /\ SymInv' /\ RecInv' /\ attempts' \in [JobIds -> Nat]
<1>a. UNCHANGED <<asked, torboxVars, dl, farmVars>> /\ Grows
  BY DEF HealReconcileOnce, RecStep, RecLoad, RecListFails, RecListed, RecWait, RecFailed, RecOpen,
         RecFinish, RecRepoint, RecUnmatched, RecRecord, RecEnd, RecNext, apiVars, torboxVars, Grows
<1>b. RecType /\ faults \in 0 .. MaxFaults /\ attempts \in [JobIds -> Nat]
  BY DEF RecInv, StoreInv, HealInv, HealType
<1>c. TorBoxInv' /\ FarmType'
  BY <1>a, TorBoxKept, FarmKept
<1>d. ASSUME UNCHANGED storeVars, faults' \in 0 .. MaxFaults
      PROVE  StoreInv' /\ RowsStay
  BY <1>a, <1>d, StoreStays
<1>e. ASSUME UNCHANGED libraryVars
      PROVE  LibraryType'
  BY <1>e DEF libraryVars, LibraryType
<1>f. ASSUME NEW id \in JobIds, RecNext(id)
      PROVE  RecInv' /\ UNCHANGED <<libraryVars, symVars, attempts>>
  BY <1>a, <1>b, <1>f, RecDoneOK, NoLinkType DEF RecNext, RecType
<1> SUFFICES Goal
  BY <1>a, <1>c
<1>1. CASE RecLoad
  <2>1. Table(recTodo', dl, asked) /\ \A id \in JobIds : recTodo'[id].state \in {"healing", "absent"}
    BY <1>1, TableByState DEF RecLoad, StoreInv
  <2>2. RecInv'
    BY <1>1, <1>a, <1>b, <2>1 DEF RecLoad, RecInv, RecType, Table
  <2>3. QED  BY <1>1, <2>2, <1>b, <1>d, <1>e, SymKept DEF RecLoad
<1>2. CASE RecListFails
  BY <1>2, <1>b, <1>d, <1>e, SymKept, FaultType, RecReturnOK DEF RecListFails
<1>3. CASE RecListed
  <2>1. faults' \in 0 .. MaxFaults
    BY <1>3, <1>b, FaultType DEF RecListed
  <2>2. recList' \in [DlIds -> Live \cup {"unlisted"}]
    BY <1>3 DEF RecListed, ListUsenet
  <2>3. RecInv'
    BY <1>3, <1>a, <1>b, <2>2 DEF RecListed, RecInv, RecType
  <2>4. QED  BY <1>3, <2>1, <2>3, <1>b, <1>d, <1>e, SymKept DEF RecListed
<1>4. ASSUME NEW id \in JobIds, RecWait(id)
      PROVE  Goal
  <2>1. faults' \in 0 .. MaxFaults
    BY <1>4, <1>b, FaultType DEF RecWait
  <2>2. QED  BY <1>4, <2>1, <1>b, <1>d, <1>e, <1>f, SymKept DEF RecWait
<1>5. ASSUME NEW id \in JobIds, RecFailed(id)
      PROVE  Goal
  <2> DEFINE row == MarkedFailed(recTodo[id])
  <2>1. HeldToHeal(dl, asked, id, row)
    BY <1>5, RecHeldOK, FailedOK DEF RecFailed, Reconciling
  <2>2. Persist(id, row)
    BY <1>5 DEF RecFailed
  <2> HIDE DEF row
  <2>3. StoreInv' /\ RowsStay
    BY <2>1, <2>2, <1>a, HealPersistOK
  <2>4. QED  BY <1>5, <2>3, <1>b, <1>e, <1>f, SymKept DEF RecFailed
<1>6. ASSUME NEW id \in JobIds, RecOpen(id)
      PROVE  Goal
  <2>1. recSyms' \in [SymIds -> Sym]
    BY <1>6, NoLinkType DEF RecOpen, BrokenOf, SymInv, SymType
  <2>2. RecInv'
    BY <1>6, <2>1, <1>a, <1>b, RecDoneOK DEF RecOpen, RecType
  <2>3. QED  BY <1>6, <2>2, <1>b, <1>d, <1>e, SymKept DEF RecOpen
<1>7. ASSUME NEW id \in JobIds, RecFinish(id)
      PROVE  Goal
  <2>1. HeldToHeal(dl, asked, id, recTodo[id]) /\ RecRelease(id) \in Releases
    BY <1>7, RecHeldOK DEF RecFinish
  <2> DEFINE failed == MarkedFailed(recTodo[id])
             healed == Restored(recTodo[id], RecRelease(id))
  <2>2. HeldToHeal(dl, asked, id, failed) /\ HeldToHeal(dl, asked, id, healed)
    BY <2>1, FailedOK, RestoredOK
  <2>3. Persist(id, failed) \/ Persist(id, healed)
    BY <1>7 DEF RecFinish, Persist
  <2> HIDE DEF failed, healed
  <2>4. StoreInv' /\ RowsStay
    BY <2>2, <2>3, <1>a, HealPersistOK
  <2>5. attempts' \in [JobIds -> Nat]
    BY <1>7, <1>b DEF RecFinish
  <2>6. RecInv'
    BY <1>7, <1>a, <1>b, RecDoneOK DEF RecFinish, RecType
  <2>7. QED  BY <1>7, <2>4, <2>5, <2>6, <1>e, SymKept DEF RecFinish
<1>8. ASSUME NEW id \in JobIds, NEW s \in SymIds, RecRepoint(id, s)
      PROVE  Goal
  <2>1. RecRelease(id) \in Releases
    BY <1>8, RecHeldOK DEF RecRepoint, Linking
  <2>2. recNew' \in Target
    BY <1>8, <2>1, NewFileType DEF RecRepoint, Target
  <2>3. LibraryType'
    BY <1>8, <2>2 DEF RecRepoint, AtomicReplace, LibraryType
  <2>4. RecInv'
    BY <1>8, <2>2, <1>a, <1>b, RecDoneOK DEF RecRepoint, RecType
  <2>5. QED  BY <1>8, <2>3, <2>4, <1>b, <1>d, SymKept DEF RecRepoint
<1>9. ASSUME NEW id \in JobIds, NEW s \in SymIds, RecUnmatched(id, s)
      PROVE  Goal
  <2>1. faults' \in 0 .. MaxFaults
    BY <1>9, <1>b, FaultType DEF RecUnmatched
  <2>2. recSyms' \in [SymIds -> Sym]
    BY <1>9, <1>b, NoLinkType DEF RecUnmatched, RecType
  <2>3. RecInv'
    BY <1>9, <2>2, <1>a, <1>b DEF RecUnmatched, RecInv, RecType
  <2>4. QED  BY <1>9, <2>1, <2>3, <1>b, <1>d, <1>e, SymKept DEF RecUnmatched
<1>10. ASSUME NEW id \in JobIds, NEW s \in SymIds, RecRecord(id, s)
       PROVE  Goal
  <2>1. faults' \in 0 .. MaxFaults
    BY <1>10, <1>b, FaultType DEF RecRecord, SymlinkError
  <2>2. StoreInv' /\ RowsStay
    BY <1>10, <2>1, <1>d DEF RecRecord
  <2>3. SymInv'
    BY <1>10, <1>b, <2>2, TargetOK, SymKept DEF RecRecord, SymlinkError, RecType
  <2>4. recSyms' \in [SymIds -> Sym]
    BY <1>10, <1>b, NoLinkType DEF RecRecord, RecType
  <2>5. RecInv'
    BY <1>10, <2>4, <1>a, <1>b, RecDoneOK, NoLinkType DEF RecRecord, RecType
  <2>6. QED  BY <1>10, <2>2, <2>3, <2>5, <1>b, <1>e DEF RecRecord
<1>11. CASE RecEnd
  BY <1>11, <1>b, <1>d, <1>e, SymKept, RecReturnOK DEF RecEnd
<1>12. QED
  BY <1>1, <1>2, <1>3, <1>4, <1>5, <1>6, <1>7, <1>8, <1>9, <1>10, <1>11
  DEF HealReconcileOnce, RecStep

-----------------------------------------------------------------------------
(* The operator *)

\* What handleHealRetry writes.
LEMMA RetriedOK ==
    ASSUME NEW D, NEW A, NEW id, NEW row, HeldToHeal(D, A, id, row)
    PROVE  HeldToHeal(D, A, id, [row EXCEPT !.heals = 0, !.healed = "never"])
<1> DEFINE new == [row EXCEPT !.heals = 0, !.healed = "never"]
<1>1. row \in Row /\ 0 \in Nat
  BY DEF HeldToHeal, WellFormed
<1>2. new \in Row /\ new.state = row.state /\ new.tb = row.tb /\ new.nzb = row.nzb
                  /\ new.path = row.path
  BY <1>1 DEF Row
<1>3. QED  BY <1>2 DEF HeldToHeal, WellFormed

\* What handleHealGiveUp writes.
LEMMA GivenUpOK ==
    ASSUME NEW D, NEW A, NEW id, NEW row, HeldToHeal(D, A, id, row)
    PROVE  WellFormed(D, A, id, [row EXCEPT !.state = "manually_resolved"])
<1>1. row.tb # 0 /\ row.state # "absent" /\ "manually_resolved" \in States
  BY HealStates DEF HeldToHeal, WellFormed, States
<1>2. QED  BY <1>1, RestatedWellFormed DEF HeldToHeal

\* What a request of the operator preserves.
LEMMA OperatorStepOK ==
    ASSUME IInv, Operator
    PROVE  StoreInv' /\ SymInv' /\ OperatorInv' /\ attempts' \in [JobIds -> Nat]
<1> USE DEF IInv
<1>a. UNCHANGED <<asked, torboxVars, dl>> /\ Grows
  BY DEF Operator, apiVars, torboxVars, Grows
<1>b. HealApiType /\ faults \in 0 .. MaxFaults /\ attempts \in [JobIds -> Nat]
  BY DEF OperatorInv, StoreInv, HealInv, HealType
<1>c. HealApiIdle \in HealRequest
  BY NoRowType DEF HealApiIdle, HealRequest
<1> SUFFICES StoreInv' /\ SymInv' /\ OperatorInv' /\ attempts' \in [JobIds -> Nat]
  OBVIOUS
<1>1. ASSUME NEW id \in JobIds, NEW op \in {"retry", "give_up"}, HealRead(id, op)
      PROVE  StoreInv' /\ SymInv' /\ OperatorInv' /\ attempts' \in [JobIds -> Nat]
  <2>1. faults' \in 0 .. MaxFaults
    BY <1>1, <1>b, FaultType DEF HealRead
  <2>2. HeldToHeal(dl, asked, id, jobs[id])
    BY <1>1, HeldFromTable DEF HealRead, HealRelevant
  <2>3. HeldToHeal(dl', asked', id, jobs[id])
    BY <1>a, <2>2, HeldKept
  <2>4. hreq' = [op |-> op, id |-> id, row |-> jobs[id]] /\ jobs[id] \in Row
    BY <1>1, <2>2 DEF HealRead, HeldToHeal, WellFormed
  <2>5. hreq' \in HealRequest /\ waived' \in SUBSET JobIds
    BY <1>1, <1>b, <2>4 DEF HealRead, HealRequest, HealApiType
  <2>6. OperatorInv'
    BY <2>3, <2>4, <2>5 DEF OperatorInv, HealApiType
  <2>7. StoreInv' /\ RowsStay
    BY <1>1, <1>a, <2>1, StoreStays DEF HealRead
  <2>8. QED  BY <1>1, <1>b, <2>6, <2>7, SymKept DEF HealRead
<1>2. CASE RetryWrite
  <2> DEFINE row == [hreq.row EXCEPT !.heals = 0, !.healed = "never"]
  <2>1. HeldToHeal(dl, asked, hreq.id, row)
    BY <1>2, RetriedOK DEF RetryWrite, OperatorInv
  <2>2. Persist(hreq.id, row)
    BY <1>2 DEF RetryWrite, Persist
  <2> HIDE DEF row
  <2>3. StoreInv' /\ RowsStay
    BY <2>1, <2>2, <1>a, HealPersistOK
  <2>4. OperatorInv'
    BY <1>2, <1>b, <1>c DEF RetryWrite, OperatorInv, HealApiType, HealApiIdle
  <2>5. attempts' \in [JobIds -> Nat]
    BY <1>2, <1>b DEF RetryWrite
  <2>6. QED  BY <1>2, <2>3, <2>4, <2>5, SymKept DEF RetryWrite
<1>3. CASE GiveUpWrite
  <2> DEFINE row == [hreq.row EXCEPT !.state = "manually_resolved"]
  <2>1. HeldToHeal(dl, asked, hreq.id, hreq.row)
    BY <1>3 DEF GiveUpWrite, OperatorInv
  <2>2. WellFormed(dl, asked, hreq.id, row) /\ row.state # "absent" /\ row \in Row
    BY <2>1, GivenUpOK DEF HeldToHeal, WellFormed, Row
  <2>3. Persist(hreq.id, row) /\ hreq.id \in JobIds
    BY <1>3, <2>1 DEF GiveUpWrite, Persist, HeldToHeal
  <2> HIDE DEF row
  <2>4. StoreInv'
    BY <2>2, <2>3, <1>a, PersistKept
  <2>5. RowsStay
    BY <2>2, <2>3, WrittenStays DEF StoreInv, Table
  <2>6. OperatorInv'
    <3>1. hreq' \in HealRequest /\ hreq'.op \in {"drop", "idle"}
      BY <1>3, <1>b, <1>c DEF GiveUpWrite, HealApiType, HealRequest, HealApiIdle
    <3>2. QED  BY <1>3, <1>b, <3>1 DEF GiveUpWrite, OperatorInv, HealApiType
  <2>7. QED  BY <1>3, <1>b, <2>4, <2>5, <2>6, SymKept DEF GiveUpWrite
<1>4. CASE GiveUpDrop
  <2>1. faults' \in 0 .. MaxFaults
    BY <1>4, <1>b, FaultType DEF GiveUpDrop, SymlinkError
  <2>2. StoreInv' /\ RowsStay
    BY <1>4, <1>a, <2>1, StoreStays DEF GiveUpDrop
  <2>3. SymInv'
    BY <1>4, <2>2, SymDropOK, SymKept DEF GiveUpDrop, SymlinkError
  <2>4. OperatorInv'
    BY <1>4, <1>b, <1>c DEF GiveUpDrop, OperatorInv, HealApiType, HealApiIdle
  <2>5. QED  BY <1>4, <1>b, <2>2, <2>3, <2>4 DEF GiveUpDrop
<1>5. QED  BY <1>1, <1>2, <1>3, <1>4 DEF Operator, HealApiNext

-----------------------------------------------------------------------------
(* The client, the clock, and restarts *)

\* What the client does to its library keeps links and their contents typed.
LEMMA ClientOK == ASSUME LibraryType, ClientNext PROVE LibraryType'
<1>1. ASSUME NEW p \in Paths, NEW q \in Paths, Rename(p, q)
      PROVE  LibraryType'
  BY <1>1 DEF Rename, LibraryType, NoLink, Target
<1>2. ASSUME NEW p \in Paths, NEW t \in Target \ {NoLink}, NEW k \in Nzbs, Upgrade(p, t, k)
      PROVE  LibraryType'
  <2>1. [nzb |-> k, episode |-> EpisodeOf[t.file]] \in Content
    BY DEF Content, Episodes, Target
  <2>2. QED  BY <1>2, <2>1 DEF Upgrade, LibraryType
<1>3. QED  BY <1>1, <1>2 DEF ClientNext

\* Time passes for a row: it stays well formed.
LEMMA ClockOK ==
    ASSUME IInv, NEW id \in JobIds, BackoffPasses(id) \/ Age(id), UNCHANGED <<asked, torboxVars, dl>>
    PROVE  StoreInv' /\ RowsStay /\ Grows
<1> USE DEF IInv
<1>1. Grows
  BY DEF Grows
<1>2. CASE Age(id)
  BY <1>1, <1>2, AgeOK DEF Age, RowsStay, Exists, StoreInv, Table, Row
<1>3. CASE BackoffPasses(id)
  <2> DEFINE row == [jobs[id] EXCEPT !.healed = "past"]
  <2>1. WellFormed(dl, asked, id, jobs[id]) /\ jobs[id] \in Row
    BY DEF StoreInv, Table
  <2>2. row \in Row /\ row.state = jobs[id].state /\ row.tb = jobs[id].tb
        /\ row.nzb = jobs[id].nzb /\ row.path = jobs[id].path
    BY <2>1 DEF Row
  <2>3. WellFormed(dl, asked, id, row)
    BY <2>1, <2>2 DEF WellFormed
  <2>4. jobs' = [jobs EXCEPT ![id] = row]
    BY <1>3 DEF BackoffPasses
  <2>5. RowsStay
    BY <2>2, <2>4 DEF RowsStay, Exists, StoreInv, Table
  <2> HIDE DEF row
  <2>6. Table(jobs', dl, asked)
    BY <2>3, <2>4, TablePut DEF StoreInv
  <2>7. QED  BY <1>1, <1>3, <2>5, <2>6 DEF BackoffPasses, StoreInv
<1>4. QED  BY <1>2, <1>3

\* TorBox does what it does, or drops the download of an imported job.
LEMMA RotateOK ==
    ASSUME IInv, OnTorBox
    PROVE  StoreInv' /\ TorBoxInv' /\ Grows
<1> USE DEF IInv
<1>1. UNCHANGED <<asked, storeVars>>
  BY DEF OnTorBox, apiVars
<1>2. CASE TorBoxNext
  BY <1>1, <1>2, OnTorBoxOK
<1>3. ASSUME NEW d \in DlIds, Rotate(d)
      PROVE  StoreInv' /\ TorBoxInv' /\ Grows
  <2>1. TorBoxInv' /\ Grows
    BY <1>1, <1>3, StatusOK DEF Rotate, Live
  <2>2. QED  BY <1>1, <1>3, <2>1, StoreKept, FaultType DEF Rotate, StoreInv
<1>4. QED  BY <1>2, <1>3 DEF OnTorBox

\* What was imported a day ago goes, and its symlink rows with it.
LEMMA ReapedOK ==
    ASSUME IInv, ReapOnce
    PROVE  StoreInv' /\ SymInv' /\ Grows /\ UNCHANGED <<torboxVars, farmVars>>
<1> USE DEF IInv
<1>1. UNCHANGED <<asked, dl, torboxVars, farmVars, faults>> /\ Grows
  BY DEF ReapOnce, apiVars, torboxVars, Grows
<1>2. Table(jobs', dl, asked)
  BY NoRowWellFormed, NoRowType DEF ReapOnce, ReapImported, StoreInv, Table
<1>3. QED  BY <1>1, <1>2, CascadeOK DEF ReapOnce, ReapImported, StoreInv

\* After a restart every copy is gone.
LEMMA RestartOK == ASSUME IInv, Restart PROVE IInv'
<1> USE DEF IInv
<1>1. Grows /\ UNCHANGED <<dl, asked, storeVars, torboxVars, farmVars, libraryVars, symVars, waived>>
  BY DEF Restart, Grows, torboxVars
<1>2. StoreInv' /\ TorBoxInv' /\ FarmType' /\ RowsStay
  BY <1>1, StoreStays, TorBoxKept, FarmKept, FaultType DEF Restart, StoreInv
<1>3. LibraryType' /\ SymInv'
  BY <1>1, <1>2, SymKept DEF libraryVars, LibraryType
<1>4. Table(NoRows, dl, asked) /\ \A id \in JobIds : NoRows[id].state = "absent"
  BY TableNoRows, NoRowType DEF NoRows
<1>5. ApiInv'
  BY <1>1, NoRowType DEF Restart, ApiInv, Serving, Idle, Request
<1>6. DelInv'
  BY <1>1, <1>4, DeleterAssumption DEF Restart, DelInv, DelType, Table, NoAttempts
<1>7. HealInv'
  <2>1. attempts' \in [JobIds -> Nat]
    BY DEF Restart, HealInv, HealType
  <2>2. QED  BY <2>1, NoRowType DEF Restart, HealReturn, HealInv, HealType, NoReleases
<1>8. RecInv'
  BY RecReturnOK DEF Restart
<1>9. OperatorInv'
  BY <1>1, NoRowType DEF Restart, OperatorInv, HealApiType, HealApiIdle, HealRequest
<1>10. QED  BY <1>2, <1>3, <1>5, <1>6, <1>7, <1>8, <1>9

-----------------------------------------------------------------------------
(* The theorems *)

\* What an actor that does not heal leaves alone.
LEMMA HealersKept ==
    ASSUME IInv, Grows, UNCHANGED healingVars
    PROVE  HealInv' /\ RecInv' /\ OperatorInv'
<1>1. UNCHANGED <<healLocals, recVars, operatorVars, attempts>>
  BY DEF healingVars, healVars
<1>2. attempts' \in [JobIds -> Nat]
  BY <1>1 DEF IInv, HealInv, HealType
<1>3. QED  BY <1>1, <1>2, HealKept, RecKept, OperatorKept DEF IInv

LEMMA LibraryKept == ASSUME LibraryType, UNCHANGED libraryVars PROVE LibraryType'
BY DEF LibraryType, libraryVars

\* Every step preserves the inductive invariant.
LEMMA NextIInv == ASSUME IInv, [Next]_vars PROVE IInv'
<1> USE DEF IInv
<1>1. CASE Api
  <2>1. StoreInv' /\ ApiInv' /\ Grows
    BY <1>1, ApiStep DEF Api, torboxVars
  <2>2. QED
    BY <1>1, <2>1, TorBoxKept, FarmKept, LibraryKept, CascadeOK, DelKept, HealersKept
    DEF Api, Grows
<1>2. CASE DeleteOnce
  <2>1. StoreInv' /\ TorBoxInv' /\ FarmType' /\ DelInv' /\ Grows
    BY <1>2, DelStepOK DEF DeleteOnce, apiVars
  <2>2. QED  BY <1>2, <2>1, ApiKept, LibraryKept, CascadeOK, HealersKept DEF DeleteOnce
<1>3. CASE ReapOnce
  <2>1. StoreInv' /\ SymInv' /\ Grows /\ UNCHANGED <<torboxVars, farmVars>>
    BY <1>3, ReapedOK
  <2>2. QED
    BY <1>3, <2>1, TorBoxKept, FarmKept, ApiKept, LibraryKept, DelKept, HealersKept
    DEF ReapOnce, Grows
<1>4. CASE HealOnce
  <2>1. StoreInv' /\ TorBoxInv' /\ FarmType' /\ LibraryType' /\ SymInv' /\ HealInv' /\ Grows
    BY <1>4, HealStepOK
  <2>2. QED  BY <1>4, <2>1, ApiKept, DelKept, RecKept, OperatorKept DEF HealOnce
<1>5. CASE HealReconcileOnce
  <2>1. /\ StoreInv' /\ TorBoxInv' /\ FarmType' /\ LibraryType' /\ SymInv' /\ RecInv'
        /\ attempts' \in [JobIds -> Nat] /\ Grows
    BY <1>5, RecStepOK
  <2>2. QED  BY <1>5, <2>1, ApiKept, DelKept, HealKept, OperatorKept DEF HealReconcileOnce
<1>6. CASE Operator
  <2>1. StoreInv' /\ SymInv' /\ OperatorInv' /\ attempts' \in [JobIds -> Nat]
    BY <1>6, OperatorStepOK
  <2>2. Grows /\ asked \subseteq asked'
    BY <1>6 DEF Operator, apiVars, torboxVars, Grows
  <2>3. QED
    BY <1>6, <2>1, <2>2, TorBoxKept, FarmKept, LibraryKept, ApiKept, DelKept, HealKept, RecKept
    DEF Operator
<1>7. CASE OnTorBox
  <2>1. StoreInv' /\ TorBoxInv' /\ Grows
    BY <1>7, RotateOK
  <2>2. RowsStay
    BY <1>7 DEF OnTorBox, storeVars, RowsStay, Exists
  <2>3. QED
    BY <1>7, <2>1, <2>2, FarmKept, LibraryKept, SymKept, ApiKept, DelKept, HealersKept
    DEF OnTorBox
<1>8. CASE Client
  <2>1. Grows /\ faults' \in 0 .. MaxFaults
    <3>1. faults \in 0 .. MaxFaults
      BY DEF StoreInv
    <3>2. QED
      BY <1>8, <3>1, FaultType DEF Client, ClientNext, Rename, Upgrade, apiVars, torboxVars, Grows
  <2>2. StoreInv' /\ RowsStay /\ LibraryType'
    BY <1>8, <2>1, StoreStays, ClientOK DEF Client
  <2>3. QED
    BY <1>8, <2>1, <2>2, TorBoxKept, FarmKept, SymKept, ApiKept, DelKept, HealersKept
    DEF Client, Grows
<1>9. CASE BackoffEnds \/ DayPasses
  <2>1. UNCHANGED <<torboxVars, dl, asked, farmVars, libraryVars, symVars, apiVars, delVars, healingVars>>
    BY <1>9 DEF BackoffEnds, DayPasses, OnClock, torboxVars, apiVars
  <2>2. StoreInv' /\ RowsStay /\ Grows
    BY <1>9, <2>1, ClockOK DEF BackoffEnds, DayPasses
  <2>3. QED
    BY <2>1, <2>2, TorBoxKept, FarmKept, LibraryKept, SymKept, ApiKept, DelKept, HealersKept
    DEF Grows
<1>10. CASE Restart
  BY <1>10, RestartOK
<1>11. CASE UNCHANGED vars
  <2>1. UNCHANGED <<storeVars, torboxVars, dl, asked, farmVars, libraryVars, symVars, faults,
                    apiVars, delVars, healingVars>>
    BY <1>11 DEF vars, apiVars, torboxVars
  <2>2. Grows
    BY <2>1 DEF Grows
  <2>3. StoreInv' /\ RowsStay
    BY <2>1, <2>2, StoreStays DEF StoreInv
  <2>4. QED
    BY <2>1, <2>2, <2>3, TorBoxKept, FarmKept, LibraryKept, SymKept, ApiKept, DelKept, HealersKept
    DEF Grows
<1>12. QED
  BY <1>1, <1>2, <1>3, <1>4, <1>5, <1>6, <1>7, <1>8, <1>9, <1>10, <1>11 DEF Next

\* The inductive invariant holds throughout.
THEOREM Invariance == Spec => []IInv
BY InitIInv, NextIInv, PTL DEF Spec

\* What may go uncounted is counted.
UncountedType == uncounted \in [JobIds -> Nat]

LEMMA UncountedOK == ASSUME UncountedType, [Next]_vars PROVE UncountedType'
<1>1. ASSUME NEW rows, Uncount(rows) PROVE UncountedType'
  BY <1>1 DEF Uncount, UncountedType
<1>2. CASE UNCHANGED uncounted
  BY <1>2 DEF UncountedType
<1>3. QED
  BY <1>1, <1>2
  DEF Next, Api, DeleteOnce, ReapOnce, HealOnce, HealReconcileOnce, Operator, OnTorBox, Client,
      BackoffEnds, DayPasses, OnClock, Restart, vars, healingVars

LEMMA UncountedInvariance == Spec => []UncountedType
<1>1. Init => UncountedType
  BY DEF Init, UncountedType
<1>2. QED  BY <1>1, UncountedOK, PTL DEF Spec

\* Every variable keeps its type while healer, reconciler, operator and deleter
\* write the rows and the symlink rows beside each other.
THEOREM TypeCorrect == Spec => []TypeOK
<1>1. IInv /\ UncountedType => TypeOK
  BY DEF IInv, StoreInv, TorBoxInv, Downloads, ApiInv, DelInv, SymInv, HealInv, RecInv, OperatorInv,
         TypeOK, StoreType, TorBoxType, ApiType, Table, UncountedType
<1>2. QED  BY <1>1, Invariance, UncountedInvariance, PTL

\* imported_symlinks never holds a row without its job: what discovery records from
\* old copies is checked by the foreign key, and what goes is cascaded.
THEOREM OwnersCorrect == Spec => []OwnersExist
<1>1. IInv => OwnersExist
  BY DEF IInv, SymInv, OwnersExist
<1>2. QED  BY <1>1, Invariance, PTL

\* The deleter never removes a download that no client asked to delete, also when
\* resubmissions replace the downloads of the rows it holds copies of.
THEOREM DeletionCorrect == Spec => []RemovedOnlyIfAsked
<1>1. IInv => RemovedOnlyIfAsked
  BY DEF IInv, TorBoxInv, Asked, RemovedOnlyIfAsked
<1>2. QED  BY <1>1, Invariance, PTL
=============================================================================
