-------------------------------- MODULE JobView --------------------------------
(***************************************************************************)
(* What a SAB client may rely on, whatever goes wrong behind the API: the  *)
(* place of each job id in the answers of mode=queue and mode=history.     *)
(* The handlers that give these answers are handleQueue and handleHistory. *)
(*                                                                         *)
(* Ids are given out once; a job in history (completed or failed) does not *)
(* go back to the queue, and one whose import was noticed does not go back *)
(* to history, except through a deletion that is lost; an id whose row is  *)
(* gone never shows again.                                                 *)
(***************************************************************************)
CONSTANT Ids

VARIABLE view

Places == {"unborn", "queue", "history", "taken", "deleting", "gone"}

after == [ unborn   |-> {"queue"},
           queue    |-> {"history", "deleting", "gone"},
           history  |-> {"taken", "deleting", "gone"},
           taken    |-> {"deleting", "gone"},
           deleting |-> {"queue", "history", "taken", "gone"},
           gone     |-> {} ]

Init == view = [id \in Ids |-> "unborn"]

Move(id) == \E place \in after[view[id]] : view' = [view EXCEPT ![id] = place]

\* The reaper drops any number of imported rows in one statement.
Reap == \E old \in SUBSET {id \in Ids : view[id] = "taken"} :
           view' = [id \in Ids |-> IF id \in old THEN "gone" ELSE view[id]]

Next == (\E id \in Ids : Move(id)) \/ Reap

Spec == Init /\ [][Next]_view
=============================================================================
