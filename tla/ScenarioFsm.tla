---------------------------- MODULE ScenarioFsm ----------------------------
(***************************************************************************)
(* The state machine of one scenario step (scenarios/state_machine.py): a  *)
(* table of the transitions that transition() accepts.  Every step of a    *)
(* scenario gets a machine of its own, so the machine may be replaced by a *)
(* fresh one at any time; what it may never do is take a transition that   *)
(* is not in the table, which in the code is a ValueError that ends the    *)
(* whole run.                                                              *)
(***************************************************************************)

VARIABLE state   \* current_state of the machine of the current step

FlowStates ==
    {"started", "observed", "understood", "candidate_selected", "intent_built",
     "dry_run_passed", "execution_allowed", "executed", "verification_passed",
     "verification_failed", "blocked", "awaiting_user_confirmation",
     "recovery_needed", "aborted"}

(* Where a step may go from every state in which it is still acting. *)
Setbacks == {"blocked", "awaiting_user_confirmation", "recovery_needed", "aborted"}
Verdicts == {"verification_passed", "verification_failed"}

(* _ALLOWED_TRANSITIONS; "none" is a machine that has not started. *)
Allowed ==
    [s \in FlowStates \cup {"none"} |->
        CASE s = "none"                -> {"started"}
          [] s = "started"             -> {"observed", "recovery_needed", "aborted"}
          [] s = "observed"            -> {"understood"} \cup Setbacks
          [] s = "understood"          -> {"candidate_selected"} \cup Verdicts \cup Setbacks
          [] s = "candidate_selected"  -> {"intent_built"} \cup Setbacks
          [] s = "intent_built"        -> {"dry_run_passed"} \cup Setbacks
          [] s = "dry_run_passed"      -> {"observed", "execution_allowed"} \cup Verdicts \cup Setbacks
          [] s = "execution_allowed"   -> {"observed", "executed"} \cup Verdicts \cup Setbacks
          [] s = "executed"            -> {"observed"} \cup Verdicts \cup Setbacks
          [] s = "verification_failed" -> {"recovery_needed", "aborted"}
          [] s = "blocked"             -> Setbacks \ {"blocked"}
          [] s = "awaiting_user_confirmation" -> {"observed", "recovery_needed", "aborted"}
          [] s = "recovery_needed"     -> {"awaiting_user_confirmation", "observed", "aborted"}
          [] s \in {"verification_passed", "aborted"} -> {}]

Init == state = "none"

(* __init__: a machine for the next step. *)
Create == state' \in Allowed["none"]

(* transition *)
Transition == state' \in Allowed[state]

Next == Create \/ Transition

Spec == Init /\ [][Next]_state
=============================================================================
