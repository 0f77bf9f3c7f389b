------------------------------ MODULE UIStates ------------------------------
(***************************************************************************)
(* The states of a page and the transitions between them: UIStateManager   *)
(* of public/js/ui.js.  transition throws where CanTransition is false;    *)
(* error, cancel and reset go to ERROR, CANCELLED and IDLE from any state. *)
(***************************************************************************)

UIState == {"IDLE", "SELECTING_FILES", "PAIRING", "CONNECTED", "WAITING_APPROVAL",
            "TRANSFERRING", "PAUSED", "VERIFYING", "COMPLETED", "CANCELLED", "ERROR"}

ValidTransitions ==
  LET resting == {"IDLE", "PAIRING", "SELECTING_FILES"}
      accepting == {"CONNECTED", "WAITING_APPROVAL", "TRANSFERRING", "ERROR"}
  IN [IDLE |-> accepting \cup {"SELECTING_FILES", "PAIRING"},
      SELECTING_FILES |-> accepting \cup {"IDLE", "PAIRING"},
      PAIRING |-> accepting \cup {"IDLE", "CANCELLED"},
      CONNECTED |-> (accepting \ {"CONNECTED"}) \cup resting \cup {"CANCELLED"},
      WAITING_APPROVAL |-> {"TRANSFERRING", "CANCELLED", "ERROR", "IDLE"},
      TRANSFERRING |-> {"VERIFYING", "PAUSED", "CANCELLED", "ERROR"},
      PAUSED |-> {"TRANSFERRING", "CANCELLED", "ERROR"},
      VERIFYING |-> {"COMPLETED", "CANCELLED", "ERROR"},
      COMPLETED |-> resting, CANCELLED |-> resting, ERROR |-> resting]

\* transition(next), for a page whose isApproved is approved, does not throw.
CanTransition(state, approved, next) ==
  \/ state = next
  \/ /\ next \in ValidTransitions[state]
     /\ next = "TRANSFERRING" => approved
=============================================================================
