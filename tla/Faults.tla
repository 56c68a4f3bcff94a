------------------------------- MODULE Faults -------------------------------
(***************************************************************************)
(* What can go wrong around the program, as one budget of faults that the  *)
(* other modules draw from.  A configuration names the kinds of fault it   *)
(* allows and how many of them may happen in one behaviour.                *)
(*                                                                         *)
(*   "crash"   the process is killed or shut down, and started again       *)
(*   "store"   a statement on the SQLite database returns an error         *)
(*   "lost"    TorBox accepts an NZB, its answer never arrives             *)
(*   "refuse"  TorBox rejects an NZB, or keeps failing for two minutes     *)
(*   "limit"   TorBox answers 429 to a submission                          *)
(*   "list"    the mylist call fails                                       *)
(*   "hiccup"  mylist succeeds without one of the account's downloads      *)
(*   "control" the controlusenetdownload call fails                        *)
(*   "link"    a symlink cannot be created in the farm                     *)
(*   "fail"    a download fails on TorBox                                  *)
(*   "vanish"  TorBox drops a download by itself                           *)
(*                                                                         *)
(* and what others do, to a library while it is healed and to the jobs:     *)
(*                                                                         *)
(*   "rotate"  TorBox drops the download of an imported job                *)
(*   "rename"  the client renames a link of its library                    *)
(*   "upgrade" the client imports another release over a link              *)
(*   "retry", "give_up"  the operator's requests                           *)
(*   "delete", "purge"   the client's; unbounded unless they are listed    *)
(***************************************************************************)
EXTENDS Naturals

CONSTANTS FaultKinds,   \* the kinds of fault that may happen
          MaxFaults     \* how many faults may happen in all

ASSUME FaultsAssumption == MaxFaults \in Nat

VARIABLE faults         \* how many have happened

Fault(kind) == /\ kind \in FaultKinds
               /\ faults < MaxFaults
               /\ faults' = faults + 1

NoFault == UNCHANGED faults
=============================================================================
