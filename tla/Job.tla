-------------------------------- MODULE Job --------------------------------
(***************************************************************************)
(* The job life cycle of internal/job/job.go: the states a row of the jobs *)
(* table can be in and the table of allowed next states.                   *)
(***************************************************************************)
EXTENDS Naturals

\* The job states of the pipeline and of the healing subsystem.
States == {"pending", "submitting", "queued", "downloading", "completed",
           "imported", "deleted", "failed", "healing", "heal_failed",
           "manually_resolved"}

\* "transitions lists the allowed next states for each state."
transitions ==
    [ pending           |-> {"submitting", "failed"},
      submitting        |-> {"queued", "pending", "failed"},
      queued            |-> {"downloading", "completed", "failed"},
      downloading       |-> {"completed", "failed"},
      completed         |-> {"imported", "deleted", "failed"},
      imported          |-> {"deleted", "failed", "healing"},
      healing           |-> {"imported", "heal_failed"},
      heal_failed       |-> {"healing", "manually_resolved"},
      manually_resolved |-> {},
      deleted           |-> {},
      failed            |-> {} ]

CanTransitionTo(s, next) == next \in transitions[s]
=============================================================================
