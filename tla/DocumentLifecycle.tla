-------------------------- MODULE DocumentLifecycle --------------------------
(***************************************************************************)
(* The processing state machine of a document and of the URL it came from  *)
(* (domain/documents.py).  Both the acquisition pipeline and the analysis  *)
(* runner move rows through it and refuse any move it does not list.       *)
(***************************************************************************)

\* DocumentState
DocumentState == {"discovered", "downloading", "downloaded", "validated",
                  "processing", "processed", "failed", "quarantined"}

\* STATE_TRANSITIONS: where a state may move to.
StateTransitions ==
    [discovered  |-> {"downloading", "failed"},
     downloading |-> {"downloaded", "failed", "quarantined"},
     downloaded  |-> {"validated", "failed", "quarantined"},
     validated   |-> {"processing", "failed"},
     processing  |-> {"processed", "failed", "quarantined"},
     processed   |-> {},
     failed      |-> {"downloading", "processing"},
     quarantined |-> {}]

\* can_transition, and the condition assert_transition_allowed raises on.
CanTransition(current, target) == target \in StateTransitions[current]

=============================================================================
