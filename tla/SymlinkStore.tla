----------------------------- MODULE SymlinkStore -----------------------------
(***************************************************************************)
(* internal/store/store.go: the imported_symlinks table, one row for each  *)
(* library link the healer knows (migrations/003_heal.sql).                *)
(***************************************************************************)
EXTENDS Library

CONSTANTS MaxSyms,   \* how many rows may be inserted (AUTOINCREMENT ids)
          NoPath

ASSUME SymlinkStoreAssumption == MaxSyms \in Nat /\ NoPath \notin Paths

VARIABLES syms,      \* the table, NoSym where there is no row
          nextSym    \* the next AUTOINCREMENT id

symVars == <<syms, nextSym>>

SymIds == 1 .. MaxSyms

Sym == [ job    : JobIds \cup {0},
         path   : Paths \cup {NoPath},
         target : Target,
         broken : BOOLEAN ]

NoSym == [job |-> 0, path |-> NoPath, target |-> NoLink, broken |-> FALSE]

SymType == /\ syms \in [SymIds -> Sym]
           /\ nextSym \in 1 .. MaxSyms + 1

SymInit == /\ syms = [s \in SymIds |-> NoSym]
           /\ nextSym = 1

Tracked(s) == syms[s] # NoSym

\* Rows are listed by id, paths are walked in their order.
FirstIn(S, x) == x \in S /\ \A other \in S : x <= other

\* symlink_path is UNIQUE.
RowsAt(p) == {s \in SymIds : Tracked(s) /\ syms[s].path = p}

\* INSERT ... ON CONFLICT(symlink_path) DO UPDATE: is_broken stays as it was.
UpsertImportedSymlink(id, p) ==
    IF RowsAt(p) # {}
    THEN /\ syms' = [s \in SymIds |-> IF s \in RowsAt(p)
                                      THEN [syms[s] EXCEPT !.job = id, !.target = links[p]]
                                      ELSE syms[s]]
         /\ UNCHANGED nextSym
    ELSE /\ nextSym <= MaxSyms
         /\ syms' = [syms EXCEPT ![nextSym] = [job |-> id, path |-> p,
                                               target |-> links[p], broken |-> FALSE]]
         /\ nextSym' = nextSym + 1

\* UPDATE ... WHERE id=?, which changes nothing if the row is gone.
SetSymlinkVerified(s, broken) ==
    /\ syms' = [syms EXCEPT ![s] = IF @ = NoSym THEN @ ELSE [@ EXCEPT !.broken = broken]]
    /\ UNCHANGED nextSym

UpdateSymlinkTarget(s, target) ==
    /\ syms' = [syms EXCEPT ![s] = IF @ = NoSym THEN @
                                   ELSE [@ EXCEPT !.target = target, !.broken = FALSE]]
    /\ UNCHANGED nextSym

DeleteImportedSymlink(s) == /\ syms' = [syms EXCEPT ![s] = NoSym]
                            /\ UNCHANGED nextSym

DeleteImportedSymlinksByJob(id) ==
    /\ syms' = [s \in SymIds |-> IF syms[s].job = id THEN NoSym ELSE syms[s]]
    /\ UNCHANGED nextSym

\* job_id REFERENCES jobs(id) ON DELETE CASCADE.
Cascade == /\ syms' = [s \in SymIds |-> IF Tracked(s) /\ jobs'[syms[s].job].state = "absent"
                                        THEN NoSym ELSE syms[s]]
           /\ UNCHANGED nextSym

SymlinkError == Fault("store") /\ UNCHANGED symVars
=============================================================================
