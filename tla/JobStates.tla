------------------------------ MODULE JobStates ------------------------------
(***************************************************************************)
(* The canonical job state machine every part of the system validates      *)
(* against: crates/domain/src/job.rs.                                      *)
(***************************************************************************)

\* JobState::can_transition_to, as the successors of every state that has any.
Successors ==
  [registered |-> {"content_pending", "waiting_for_agent", "cancel_requested", "expired"},
   content_pending |-> {"waiting_for_agent", "cancel_requested", "expired", "failed_terminal"},
   waiting_for_agent |->
     {"agent_downloading", "cancel_requested", "expired", "failed_retryable"},
   agent_downloading |->
     {"agent_accepted", "waiting_for_agent", "cancel_requested", "expired", "failed_retryable"},
   agent_accepted |-> {"queued_local", "cancel_requested", "failed_retryable"},
   queued_local |->
     {"preparing", "cancel_requested", "blocked", "expired", "failed_retryable"},
   preparing |->
     {"rendering", "spool_intent", "cancel_requested", "failed_retryable", "failed_terminal"},
   rendering |-> {"spool_intent", "cancel_requested", "failed_retryable", "failed_terminal"},
   spool_intent |->
     {"accepted_by_spooler", "delivery_uncertain", "failed_retryable", "failed_terminal"},
   accepted_by_spooler |->
     {"spooling", "printing", "completed_reported", "blocked", "delivery_uncertain",
      "cancelled", "failed_terminal"},
   spooling |->
     {"printing", "completed_reported", "blocked", "delivery_uncertain", "cancelled",
      "failed_terminal"},
   printing |->
     {"completed_reported", "blocked", "delivery_uncertain", "cancelled", "failed_terminal"},
   blocked |->
     {"spooling", "printing", "completed_reported", "cancel_requested", "cancelled",
      "failed_retryable", "failed_terminal"},
   cancel_requested |-> {"cancelled", "delivery_uncertain", "completed_reported"},
   failed_retryable |-> {"waiting_for_agent", "queued_local", "cancel_requested", "expired"}]

\* JobState::is_terminal.
Terminal ==
  {"completed_reported", "delivery_uncertain", "cancelled", "expired", "failed_terminal"}

JobState == DOMAIN Successors \cup Terminal

\* validate_transition.
CanTransition(from, to) == from \in DOMAIN Successors /\ to \in Successors[from]
=============================================================================
