-------------------------------- MODULE Healing --------------------------------
(***************************************************************************)
(* The healing of a library: the healer and its reconciler beside the      *)
(* deleter, the reaper and the API, on the rows of an earlier run of the   *)
(* program that were all imported (cmd/sab2torbox/main.go with             *)
(* HEAL_ENABLED, internal/worker/worker.go).  Nothing is added, so the     *)
(* submitter and the poller have nothing to do.                            *)
(***************************************************************************)
EXTENDS SabApi, Deleter, HealReconciler, HealApi

CONSTANTS Loops,      \* the loops that get to tick; Run starts all four
          Rotated,    \* the rows whose download TorBox has dropped at first
          QuickTicks  \* no backoff ends while a tick of the healer goes on

ASSUME HealingAssumption ==
    /\ Loops \subseteq {"deleter", "reaper", "healer", "reconciler"}
    /\ Rotated \subseteq JobIds
    /\ MaxJobs <= MaxDls
    /\ QuickTicks \in BOOLEAN

VARIABLE uncounted    \* resubmissions of a row (see attempts) that it may not have counted

healingVars == <<healVars, recVars, operatorVars, uncounted>>

vars == <<storeVars, torboxVars, farmVars, libraryVars, symVars, faults,
          apiVars, delVars, healingVars>>

\* A row whose download was imported.
ImportedRow(id) == [NoRow EXCEPT !.state = "imported", !.nzb = Held[id], !.tb = id,
                                 !.path = ReleaseOf[Held[id]]]

Init == /\ jobs = [id \in JobIds |-> ImportedRow(id)]
        /\ nextId = MaxJobs + 1
        /\ dl = [d \in DlIds |-> IF d \in JobIds
                                 THEN [status  |-> IF d \in Rotated THEN "vanished" ELSE "ready",
                                       job     |-> d,
                                       release |-> ReleaseOf[Held[d]]]
                                 ELSE UnusedDl]
        /\ mount = [r \in Releases |-> IF Ready(r) THEN "full" ELSE "absent"]
        /\ farm = [r \in Releases |-> "absent"]
        /\ library = {jobs[id].path : id \in JobIds}
        /\ faults = 0
        /\ LibraryInit /\ SymInit /\ ApiInit /\ DelInit
        /\ HealInit /\ RecInit /\ HealApiInit
        /\ uncounted = [id \in JobIds |-> 0]

\* A resubmission of each of these rows may go uncounted; none is left of a row whose
\* count was cleared.
Uncount(rows) ==
    uncounted' = [id \in JobIds |-> IF attempts'[id] = 0 THEN 0
                                     ELSE uncounted[id] + (IF id \in rows THEN 1 ELSE 0)]

\* The healer's failure could not be written, or the reconciler will write an older
\* copy of the row (which a retry in the middle of its heal makes possible).
HealSlips == {id \in JobIds :
                /\ id = healId
                /\ \/ healPc = "fail" /\ faults' # faults
                   \/ attempts' # attempts /\ recTodo[id].state # "absent"}

\* Deletions of rows take the symlink rows along.
Api == /\ ApiNext
       /\ Cascade
       /\ UNCHANGED <<torboxVars, farmVars, libraryVars, delVars, healingVars>>

DeleteOnce == /\ "deleter" \in Loops
              /\ DelStep
              /\ Cascade
              /\ UNCHANGED <<libraryVars, apiVars, healingVars>>

\* A tick of the reaper: no row is completed and the farm is empty, so that all it
\* has to do is this statement.
ReapOnce == /\ "reaper" \in Loops
            /\ \E id \in JobIds : Reapable(id)
            /\ ReapImported
            /\ UNCHANGED <<torboxVars, farmVars, faults>>
            /\ Cascade
            /\ UNCHANGED <<libraryVars, apiVars, delVars, healingVars>>

HealOnce == /\ "healer" \in Loops
            /\ HealStep
            /\ Uncount(HealSlips)
            /\ UNCHANGED <<apiVars, delVars, recVars, operatorVars>>

HealReconcileOnce == /\ "reconciler" \in Loops
                     /\ RecStep
                     /\ Uncount({})
                     /\ UNCHANGED <<apiVars, delVars, healLocals, operatorVars>>

Operator == /\ HealApiNext
            /\ Uncount({})
            /\ UNCHANGED <<torboxVars, farmVars, libraryVars, apiVars, delVars>>
            /\ UNCHANGED <<healLocals, recVars>>

\* TorBox drops a download after a month: not during a heal of its job.
Rotate(d) == /\ dl[d].status = "ready"
             /\ \E id \in JobIds : jobs[id].tb = d /\ jobs[id].state = "imported" /\ healId # id
             /\ Fault("rotate")
             /\ dl' = [dl EXCEPT ![d].status = "vanished"]
             /\ UNCHANGED mount

OnTorBox == /\ TorBoxNext \/ \E d \in DlIds : Rotate(d)
            /\ UNCHANGED <<storeVars, farmVars, libraryVars, symVars>>
            /\ UNCHANGED <<apiVars, delVars, healingVars>>

Client == /\ ClientNext
          /\ UNCHANGED <<storeVars, torboxVars, farmVars, symVars>>
          /\ UNCHANGED <<apiVars, delVars, healingVars>>

\* The heal backoff of a row is over.  Nothing in the code keeps that from happening
\* in the middle of a tick, which may be long.
BackoffPasses(id) == /\ jobs[id].healed = "recent"
                     /\ QuickTicks => healPc = "idle"
                     /\ jobs' = [jobs EXCEPT ![id].healed = "past"]
                     /\ UNCHANGED <<nextId, faults>>

OnClock == /\ UNCHANGED <<torboxVars, farmVars, libraryVars, symVars>>
           /\ UNCHANGED <<apiVars, delVars, healingVars>>

BackoffEnds == /\ \E id \in JobIds : BackoffPasses(id)
               /\ OnClock

DayPasses == /\ \E id \in JobIds : Age(id)
             /\ OnClock

\* The process ends and is started again; what the healer was to write is lost.
Restart == /\ Fault("crash")
           /\ req' = [h \in Handlers |-> Idle]
           /\ delPc' = "idle" /\ delTodo' = NoRows /\ deleteAttempts' = NoAttempts
           /\ HealReturn /\ RecReturn /\ hreq' = HealApiIdle
           /\ UNCHANGED <<asked, waived, attempts, storeVars, torboxVars, farmVars>>
           /\ UNCHANGED <<libraryVars, symVars>>
           /\ Uncount({id \in JobIds : id = healId /\ healPc \in {"save", "fail"}})

Next == \/ Api
        \/ DeleteOnce
        \/ ReapOnce
        \/ HealOnce
        \/ HealReconcileOnce
        \/ Operator
        \/ OnTorBox
        \/ Client
        \/ BackoffEnds
        \/ DayPasses
        \/ Restart

Spec == Init /\ [][Next]_vars

\* The loops tick, downloads end and surface; a backoff passes although the healer
\* goes on ticking.
Fairness == /\ WF_vars(DeleteOnce)
            /\ WF_vars(ReapOnce)
            /\ WF_vars(HealOnce)
            /\ WF_vars(HealReconcileOnce)
            /\ WF_vars(OnTorBox)
            /\ SF_vars(BackoffEnds)

FairSpec == Spec /\ Fairness

-----------------------------------------------------------------------------
(* Invariants *)

\* Every variable has its type.
TypeOK == /\ StoreType /\ TorBoxType /\ FarmType /\ LibraryType /\ SymType
          /\ faults \in 0 .. MaxFaults
          /\ ApiType /\ DelType /\ HealType /\ RecType /\ HealApiType
          /\ uncounted \in [JobIds -> Nat]

\* Every symlink row has its job, although discovery records links for rows it
\* loaded before they were purged.
OwnersExist == \A s \in SymIds : Tracked(s) => Exists(syms[s].job)

\* The deleter takes from TorBox only downloads, first ones and resubmissions, of
\* jobs that a client asked to delete with del_files=1.
RemovedOnlyIfAsked == \A d \in DlIds : dl[d].status = "removed" => dl[d].job \in asked

\* "Give up healing a job after this many consecutive failures": TorBox is never
\* sent an NZB more often than HEAL_MAX_ATTEMPTS between two heals or requests to
\* retry, although counts are written from old copies and answers are lost.  What is
\* not counted comes on top: one resubmission for a restart between it and its row,
\* for a failure that cannot be written, for a reconciler that writes an older copy.
AttemptsBounded == \A id \in JobIds : attempts[id] <= HealMaxAttempts + uncounted[id]

\* Healing never puts another job's content or another episode behind a library
\* link, although rows of imported_symlinks change owners and targets under the
\* reconciler: findBestMatch does not "repoint a library entry at different content".
LinkKeepsItsContent ==
    \A p \in Paths : links[p] # NoLink =>
        /\ links[p].rel \in {ReleaseOf[owner[p].nzb]} \cup HealedAs[owner[p].nzb]
        /\ EpisodeOf[links[p].file] = owner[p].episode

-----------------------------------------------------------------------------
(* Action properties *)

\* An imported job is healed only while a link to its content is broken, not for a
\* flag that is_broken kept from before its last heal; or TorBox brought up a
\* resubmission that the table does not know of, because of a crash.
ResubmittedOnlyIfBroken ==
    [][\A id \in JobIds :
          /\ healPc = "trigger" /\ healPc' = "call" /\ healId' = id
          /\ jobs[id].state = "imported"
          => \/ \E p \in Paths : owner[p].nzb = Held[id] /\ Broken(p)
             \/ \E d \in DlIds : /\ dl[d].job = id /\ d # jobs[id].tb
                                  /\ dl[d].status = "ready"]_vars

\* No "misleading healed with zero repointed links": when a job with tracked links
\* returns from healing, one of the links to its content resolves.
HealedMeansResolved ==
    [][\A id \in JobIds :
          /\ jobs[id].state = "healing" /\ jobs'[id].state = "imported"
          /\ \E s \in SymIds : syms[s].job = id
          => \E p \in Paths : owner[p].nzb = Held[id] /\ Resolves(p)]_vars

\* "finishHeal repoints every broken symlink of a job to its new release": it leaves
\* the links alone that resolve.
RepointsOnlyBroken ==
    [][\A p \in Paths : recPc = "link" /\ recPc' = "row" /\ links'[p] # links[p]
          => ~Resolves(p)]_vars

\* give_up: "the healer ignores it from that point on".
GiveUpSticks ==
    [][\A id \in JobIds : jobs[id].state = "manually_resolved"
          => jobs'[id].state \in {"manually_resolved", "deleted", "absent"}]_vars

-----------------------------------------------------------------------------
(* Liveness, under FairSpec *)

\* Nobody wants the content at p any more, or the healer has given up on it.
LetGo(p) == \E id \in JobIds :
               /\ Held[id] = owner[p].nzb
               /\ \/ id \in asked \cup waived
                  \/ jobs[id].state = "heal_failed" /\ jobs[id].heals >= HealMaxAttempts

\* A link that breaks because TorBox rotated its release is repaired, or the
\* healer has tried often enough.
BrokenIsHealed == \A p \in Paths : Broken(p) ~> ~Broken(p) \/ LetGo(p)

\* A job does not stay in healing.
HealingSettles == \A id \in JobIds : jobs[id].state = "healing" ~> jobs[id].state # "healing"

\* The rows of a job that the healer no longer looks after are dropped, also when
\* give_up failed to: they do not "inflate the broken-symlink count".
StaleIsDropped ==
    \A s \in SymIds : /\ Tracked(s)
                      /\ jobs[syms[s].job].state \notin HealRelevant
                      ~> \/ ~Tracked(s)
                         \/ jobs[syms[s].job].state \in HealRelevant
=============================================================================
