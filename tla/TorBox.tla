-------------------------------- MODULE TorBox --------------------------------
(***************************************************************************)
(* The TorBox account and its WebDAV mount, which are not part of the      *)
(* program: modelled from the calls of internal/torbox/client.go and from  *)
(* the fields of the mylist records that internal/worker reads.            *)
(***************************************************************************)
EXTENDS Store

CONSTANTS MaxDls,      \* how many downloads the account may ever hold
          ReleaseOf    \* the release name TorBox derives from an NZB

ASSUME TorBoxAssumption == /\ MaxDls \in Nat
                           /\ ReleaseOf \in [Nzbs -> Releases]

VARIABLES dl,       \* the account's downloads, by TorBox id
          mount     \* what the WebDAV mount shows of each release folder

torboxVars == <<dl, mount>>

DlIds == 1 .. MaxDls

Live == {"working", "ready", "failed"}

\* "removed": deleted on request; "vanished": dropped by TorBox.  job is the
\* row the download was submitted for, which TorBox does not know.
Download == [ status  : Live \cup {"unused", "removed", "vanished"},
              job     : JobIds \cup {0},
              release : Releases \cup {NoRelease} ]

UnusedDl == [status |-> "unused", job |-> 0, release |-> NoRelease]

TorBoxType == /\ dl \in [DlIds -> Download]
              /\ mount \in [Releases -> {"absent", "empty", "full"}]

TorBoxInit == /\ dl = [d \in DlIds |-> UnusedDl]
              /\ mount = [r \in Releases |-> "absent"]

-----------------------------------------------------------------------------
(* Calls of the program. *)

\* createusenetdownload for row id, which TorBox will name r: a new id, never one
\* that was used before.
CreateNamed(d, id, r) ==
    /\ d \in DlIds
    /\ dl[d].status = "unused"
    /\ \A e \in 1 .. d - 1 : dl[e].status # "unused"
    /\ dl' = [dl EXCEPT ![d] = [status |-> "working", job |-> id, release |-> r]]
    /\ UNCHANGED mount

CreateUsenetDownload(d, id, k) == CreateNamed(d, id, ReleaseOf[k])

\* mylist: what is on the account, without what it leaves out this time.
ListUsenet(omitted) ==
    [d \in DlIds |-> IF dl[d].status \in Live /\ d \notin omitted THEN dl[d].status
                     ELSE "unlisted"]

\* controlusenetdownload with operation "delete"; of an unknown id, it fails.
ControlUsenet(d) == /\ d \in DlIds
                    /\ dl[d].status \in Live
                    /\ dl' = [dl EXCEPT ![d].status = "removed"]
                    /\ UNCHANGED mount

-----------------------------------------------------------------------------
(* What happens on TorBox's side. *)

Finish(d) == /\ dl[d].status = "working"
             /\ dl' = [dl EXCEPT ![d].status = "ready"]
             /\ UNCHANGED <<mount, faults>>

Break(d) == /\ dl[d].status = "working"
            /\ Fault("fail")
            /\ dl' = [dl EXCEPT ![d].status = "failed"]
            /\ UNCHANGED mount

Vanish(d) == /\ dl[d].status \in Live
             /\ Fault("vanish")
             /\ dl' = [dl EXCEPT ![d].status = "vanished"]
             /\ UNCHANGED mount

Ready(r) == \E d \in DlIds : dl[d].status = "ready" /\ dl[d].release = r

\* The release folder surfaces before its contents, and both may take a while.
Surface(r) == /\ Ready(r)
              /\ mount[r] # "full"
              /\ mount' = [mount EXCEPT ![r] = IF @ = "absent" THEN "empty" ELSE "full"]
              /\ UNCHANGED <<dl, faults>>

Unsurface(r) == /\ ~Ready(r)
                /\ mount[r] # "absent"
                /\ mount' = [mount EXCEPT ![r] = "absent"]
                /\ UNCHANGED <<dl, faults>>

TorBoxNext == \/ \E d \in DlIds : Finish(d) \/ Break(d) \/ Vanish(d)
              \/ \E r \in Releases : Surface(r) \/ Unsurface(r)
=============================================================================
