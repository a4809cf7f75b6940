--------------------------- MODULE AiArbitration ---------------------------
(***************************************************************************)
(* Who decides about a candidate.  Two deciders read the deterministic     *)
(* binding and the answers of the AI sources: the arbitrator, whose        *)
(* outcome selects a candidate, and the escalation engine, whose           *)
(* disposition says whether another source is to be asked.  Recovery       *)
(* planning turns the disposition into what the caller does next.          *)
(***************************************************************************)
EXTENDS AiContracts

CONSTANTS Policy       \* the EscalationPolicy in force

ASSUME PolicyAssumption ==
    Policy \in [deterministic : Percent, resolver : Percent, planner : Percent,
                tolerance : Percent, localForHighRisk : BOOLEAN, cloudForConflict : BOOLEAN,
                blockIncomplete : BOOLEAN, blockDisagreement : BOOLEAN, confirmHighRisk : BOOLEAN]

Present(response) == response.signal # "none"

(* A disagreement between sources, as opposed to a contract that is missing, *)
(* incomplete or unsafe.                                                     *)
Material ==
    {"candidate_reference_mismatch", "label_mismatch", "target_label_mismatch",
     "action_mismatch", "confidence_disagreement"}

HighRisk(binding) == binding.risk = "high"

----------------------------------------------------------------------------
(* The conflicts of the sources. *)

Bindings(binding, resolver, planner) ==
    {b \in {binding, resolver.binding, planner.binding} : b # NoBinding}

(* Confidences that differ by exactly the tolerance are apart or not as     *)
(* binary floating point has it (0.90 - 0.75 > 0.15); instances avoid them. *)
Apart(a, b) == a # Missing /\ b # Missing /\ (a - b > Policy.tolerance \/ b - a > Policy.tolerance)

(* _collect_conflicts, as the set of the kinds it finds. *)
Conflicts(binding, resolver, planner) ==
    LET confidences == {binding.confidence, resolver.confidence, planner.confidence}
        bound == Bindings(binding, resolver, planner)
        found(kind, condition) == IF condition THEN {kind} ELSE {}
    IN  found("missing_contract", binding = NoBinding)
        \cup found("incomplete_contract",
                   \/ binding # NoBinding /\ ~binding.complete
                   \/ resolver.signal \notin {"none", "available"}
                   \/ planner.signal \notin {"none", "available"})
        \cup found("safety_ineligibility", planner.live)
        \cup found("candidate_reference_mismatch", \E a, b \in bound : a.id # b.id)
        \cup found("label_mismatch", \E a, b \in bound : a.label # b.label)
        \cup found("target_label_mismatch",
                   "none" \notin {resolver.target, planner.target} /\ resolver.target # planner.target)
        \cup found("action_mismatch",
                   "none" \notin {resolver.action, planner.action} /\ resolver.action # planner.action)
        \cup found("confidence_disagreement", \E a, b \in confidences : Apart(a, b))

----------------------------------------------------------------------------
(* The arbitrator. *)

(* _local_resolver_needed_decision *)
LocalNeeded(binding) ==
    \/ binding.needsResolver
    \/ binding.ambiguous
    \/ HighRisk(binding) /\ Policy.localForHighRisk
    \/ binding.confidence # Missing /\ binding.confidence < Policy.deterministic

(* _conflict_decision *)
ConflictDecision(binding, resolver, planner, conflicts) ==
    IF conflicts = {} THEN "stay_deterministic"
    ELSE IF HighRisk(binding) /\ Policy.confirmHighRisk THEN "block_for_user_confirmation"
    ELSE IF ~Policy.blockDisagreement THEN "stay_deterministic"
    ELSE IF ~Present(resolver) THEN "ask_local_resolver"
    ELSE IF ~Present(planner) THEN "escalate_to_cloud_planner"
    ELSE "block_for_user_confirmation"

(* decide: the first rule that applies. *)
Decide(binding, resolver, planner, conflicts) ==
    IF binding = NoBinding
    THEN IF Policy.blockIncomplete THEN "block_for_user_confirmation" ELSE "ask_local_resolver"
    ELSE IF ~binding.complete /\ Policy.blockIncomplete THEN "block_for_user_confirmation"
    ELSE IF binding.conflict /\ Policy.cloudForConflict THEN "escalate_to_cloud_planner"
    ELSE IF LocalNeeded(binding) THEN "ask_local_resolver"
    ELSE ConflictDecision(binding, resolver, planner, conflicts)

Usable(response) == response.signal = "available" /\ response.binding # NoBinding

(* _select_resolution: the source whose candidate is selected, "none" if none is. *)
SelectedSource(decision, binding, resolver, planner) ==
    CASE decision = "stay_deterministic" /\ binding # NoBinding -> "deterministic_pipeline"
      [] decision = "ask_local_resolver" /\ Usable(resolver) -> "local_visual_resolver"
      [] decision = "escalate_to_cloud_planner" /\ Usable(planner) -> "cloud_planner"
      [] OTHER -> "none"

SelectedId(source, binding, resolver, planner) ==
    CASE source = "deterministic_pipeline" -> binding.id
      [] source = "local_visual_resolver" -> resolver.binding.id
      [] source = "cloud_planner" -> planner.binding.id
      [] OTHER -> NoOne

(* _signal_status, of the arbitrator and of the engine. *)
EvidenceSignal(binding, resolver, planner) ==
    IF /\ binding.complete
       /\ {resolver.signal, planner.signal} \subseteq {"none", "available"}
    THEN "available" ELSE "partial"

Arbitrate(binding, resolver, planner) ==
    LET decision == Decide(binding, resolver, planner, Conflicts(binding, resolver, planner))
        source == SelectedSource(decision, binding, resolver, planner)
    IN  [decision |-> decision, source |-> source,
         id |-> SelectedId(source, binding, resolver, planner),
         status |-> IF decision = "block_for_user_confirmation" THEN "blocked"
                    ELSE IF source # "none" THEN "resolved"
                    ELSE IF EvidenceSignal(binding, resolver, planner) = "partial" THEN "partial"
                    ELSE "escalated"]

----------------------------------------------------------------------------
(* The escalation engine. *)

(* _early_block_decision: why the path is blocked, "none" if it is not. *)
EarlyBlock(binding, resolver, planner, conflicts) ==
    CASE binding = NoBinding -> "deterministic_binding_missing"
      [] binding # NoBinding /\ ~binding.complete -> "deterministic_binding_partial"
      [] OTHER ->
         IF resolver.signal \notin {"none", "available"} THEN "resolver_response_partial"
         ELSE IF planner.signal \notin {"none", "available"} THEN "planner_response_partial"
         ELSE IF planner.live THEN "planner_live_execution_requested"
         ELSE IF "safety_ineligibility" \in conflicts THEN "safety_ineligibility_conflict"
         ELSE IF conflicts \cap {"missing_contract", "incomplete_contract"} # {}
         THEN "incomplete_contract_conflict"
         ELSE "none"

(* _local_resolver_reason_codes is not empty. *)
LocalReasons(binding) == LocalNeeded(binding) \/ binding.confidence = Missing

Sufficient(confidence, threshold) == confidence # Missing /\ confidence >= threshold

(* Mutant: the local path also sends the caller to a planner that has answered. *)
LocalPathAsksAgain(resolver, planner, material) ==
    IF ~Present(resolver) THEN "local_resolver_recommended"
    ELSE IF ~Sufficient(resolver.confidence, Policy.resolver) \/ material
    THEN "cloud_planner_recommended"
    ELSE "deterministic_ok"

(* _local_resolver_path_decision *)
LocalPath(resolver, planner, material) ==
    IF ~Present(resolver) THEN "local_resolver_recommended"
    ELSE IF ~Sufficient(resolver.confidence, Policy.resolver) \/ material
    THEN IF Present(planner) THEN "human_confirmation_required" ELSE "cloud_planner_recommended"
    ELSE "deterministic_ok"

(* Mutant: the confidence of the planner is not compared with its threshold. *)
PlannerPathTrusting(binding, planner, material) ==
    IF ~Present(planner) THEN "cloud_planner_recommended"
    ELSE IF HighRisk(binding) /\ material THEN "human_confirmation_required"
    ELSE "deterministic_ok"

(* _planner_conflict_path_decision *)
PlannerPath(binding, planner, material) ==
    IF ~Present(planner) THEN "cloud_planner_recommended"
    ELSE IF ~Sufficient(planner.confidence, Policy.planner) THEN "human_confirmation_required"
    ELSE IF HighRisk(binding) /\ material THEN "human_confirmation_required"
    ELSE "deterministic_ok"

(* _build_decision: the disposition. *)
Disposition(binding, resolver, planner, conflicts) ==
    LET material == conflicts \cap Material # {} IN
    IF EarlyBlock(binding, resolver, planner, conflicts) # "none" THEN "blocked"
    ELSE IF LocalReasons(binding) THEN LocalPath(resolver, planner, material)
    ELSE IF binding.conflict \/ material THEN PlannerPath(binding, planner, material)
    ELSE "deterministic_ok"

(* evaluate, on the conflicts the arbitrator found. *)
Evaluate(binding, resolver, planner) ==
    LET conflicts == Conflicts(binding, resolver, planner) IN
    [disposition |-> Disposition(binding, resolver, planner, conflicts),
     reason |-> EarlyBlock(binding, resolver, planner, conflicts)]

----------------------------------------------------------------------------
(* Recovery planning. *)

RetryableReasons ==
    {"deterministic_binding_missing", "deterministic_binding_partial",
     "resolver_response_partial", "planner_response_partial", "incomplete_contract_conflict"}

(* plan_from_escalation_decision: what the caller does next. *)
RecoveryPlan(evaluation) ==
    CASE evaluation.disposition = "deterministic_ok" -> "no_recovery_needed"
      [] evaluation.disposition = "local_resolver_recommended" -> "escalate_local"
      [] evaluation.disposition = "cloud_planner_recommended" -> "escalate_cloud"
      [] evaluation.disposition = "human_confirmation_required" -> "await_user_confirmation"
      [] evaluation.disposition = "blocked" /\ evaluation.reason \in RetryableReasons -> "retry"
      [] OTHER -> "blocked"

=============================================================================
