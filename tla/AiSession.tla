----------------------------- MODULE AiSession -----------------------------
(***************************************************************************)
(* One candidate between the deterministic pipeline, the local resolver,   *)
(* the cloud planner and a human.  The program has no caller that runs     *)
(* these parts together: the session is that caller, and does what the     *)
(* recovery plan made from the engine's decision tells it.                 *)
(*                                                                         *)
(* It looks at the screen, decides, asks the source that is recommended,   *)
(* validates the answer at the AI boundary, binds it and decides again.    *)
(* The screen changes under it.  An answer that is refused sends it back   *)
(* to look.  Sources answer through a contract of their own, or, the local *)
(* resolver through the metadata backend of the program and the planner    *)
(* through the client with its correction loop, which yields a plan.       *)
(***************************************************************************)
EXTENDS AiArbitration, LocalResolver, CloudPlanner, FiniteSets

CONSTANTS
    Screens,              \* the candidates of the frames that may be seen
    ViewSignals,          \* the signal of the exposure may be any of these
    PlannerContracts, ResolverContracts,
    LiveAllowed,          \* the gates of the boundary for live requests
    MaxFrames             \* bound on the changes of the screen

ASSUME ScreensAssumption ==
    \A s \in Screens : IsFiniteSet(s) /\ \A c \in s : c \in Candidate /\ ExposureRight(c)
ASSUME ContractsAssumption ==
    PlannerContracts \subseteq PlannerContract /\ ResolverContracts \subseteq ResolverContract

ASSUME ViewsAssumption ==
    ViewSignals \subseteq Signals /\ MaxFrames \in Nat \ {0}

VARIABLES
    stage,       \* look, decide, resolver, planner, planning, confirm, settled, blocked
    screen,      \* the current snapshot
    view,        \* the exposure of the last look
    binding,     \* the deterministic binding of the candidate in question
    resolver, planner,      \* the responses bound since the last look
    evaluation,  \* the last decision of the engine
    outcome      \* the last outcome of the arbitrator

sessionVars == <<stage, screen, view, binding, resolver, planner, evaluation, outcome>>
vars == <<sessionVars, call>>

Frames == 1..MaxFrames
Dispositions == {"deterministic_ok", "local_resolver_recommended", "cloud_planner_recommended",
                 "human_confirmation_required", "blocked"}

NoEvaluation == [disposition |-> "blocked", reason |-> "deterministic_binding_missing"]
NoOutcome == [decision |-> "block_for_user_confirmation", source |-> "none", id |-> NoOne,
              status |-> "blocked"]
NoView == [frame |-> 0, candidates |-> <<>>, signal |-> "absent"]

Init ==
    /\ stage = "look"
    /\ \E s \in Screens : screen = [frame |-> 1, candidates |-> s]
    /\ view = NoView /\ binding = NoBinding
    /\ resolver = NoResponse /\ planner = NoResponse
    /\ evaluation = NoEvaluation /\ outcome = NoOutcome
    /\ call = Idle

----------------------------------------------------------------------------
(* The exposure ranks by score, then by identifier; a missing score is last. *)
RankedBefore(a, b) == a.score > b.score \/ (a.score = b.score /\ a.id < b.id)

Rankings(candidates) ==
    {s \in [1..Cardinality(candidates) -> candidates] :
        \A i, j \in DOMAIN s : i < j => RankedBefore(s[i], s[j])}

(* signal_status of the view: partial when metadata is missing, of a        *)
(* candidate that is shown or of the scoring as a whole.                    *)
Exposure(candidates) ==
    LET shown == {c \in candidates : c.exposed} IN
    {[frame |-> screen.frame, candidates |-> ranking, signal |-> s] :
        ranking \in Rankings(shown),
        s \in {v \in ViewSignals :
                  /\ v = "absent" => shown = {}
                  /\ v = "available" => shown # {} /\ \A c \in shown : c.complete}}

(* The candidate is bound from the view, or from the snapshot itself. *)
Look ==
    /\ stage = "look"
    /\ view' \in Exposure(screen.candidates)
    /\ binding' \in IF view'.candidates = <<>> THEN {NoBinding}
                    ELSE {BindExposed(view'.candidates[1]), BindSemantic(view'.candidates[1])}
    /\ resolver' = NoResponse /\ planner' = NoResponse
    /\ stage' = "decide"
    /\ UNCHANGED <<screen, evaluation, outcome, call>>

(* arbitrate and evaluate on the same evidence, then plan the recovery. *)
Settle ==
    /\ stage = "decide"
    /\ evaluation' = Evaluate(binding, resolver, planner)
    /\ outcome' = Arbitrate(binding, resolver, planner)
    /\ stage' = CASE RecoveryPlan(evaluation') = "no_recovery_needed" -> "settled"
                  [] RecoveryPlan(evaluation') = "escalate_local" -> "resolver"
                  [] RecoveryPlan(evaluation') = "escalate_cloud" -> "planner"
                  [] RecoveryPlan(evaluation') = "await_user_confirmation" -> "confirm"
                  [] RecoveryPlan(evaluation') = "retry" -> "look"
                  [] OTHER -> "blocked"
    /\ UNCHANGED <<screen, view, binding, resolver, planner, call>>

ScreenChanges ==
    /\ screen.frame < MaxFrames
    /\ \E s \in Screens : screen' = [frame |-> screen.frame + 1, candidates |-> s]
    /\ UNCHANGED <<stage, view, binding, resolver, planner, evaluation, outcome, call>>

----------------------------------------------------------------------------
(* The local resolver. *)

(* An answer the boundary accepts is bound and decided on; any other one    *)
(* sends the caller back to the screen.                                     *)
ReceiveResolver(contract) ==
    LET bound == BindResolver(contract, view) IN
    IF ResolverAccepted(contract, screen, view) /\ bound.signal # "failed"
    THEN stage' = "decide" /\ resolver' = bound
    ELSE stage' = "look" /\ UNCHANGED resolver

ResolverAnswers ==
    /\ stage = "resolver"
    /\ \E contract \in ResolverContracts : ReceiveResolver(contract)
    /\ UNCHANGED <<screen, view, binding, planner, evaluation, outcome, call>>

ViewIds == [i \in DOMAIN view.candidates |-> view.candidates[i].id]

(* The caller's translation of the backend's choice; the crop it points at  *)
(* lies in the bounds the candidate has in the view.                        *)
ChoiceContract(output) ==
    [action |-> "candidate_select", id |-> output.id, name |-> Find(view, output.id).name,
     target |-> "candidate_center", confidence |-> output.confidence, inside |-> TRUE]

BackendAnswers ==
    /\ stage = "resolver"
    /\ LET request == Request(view, ViewIds, "choose_candidate", {}) IN
       IF RequestRefusal(screen, view, ViewIds, "choose_candidate", {}) # "none"
       THEN stage' = "look" /\ UNCHANGED resolver
       ELSE \E output \in Answers(request) :
               IF BoundChoice(request, output) = NoOne
               THEN stage' = "look" /\ UNCHANGED resolver
               ELSE ReceiveResolver(ChoiceContract(output))
    /\ UNCHANGED <<screen, view, binding, planner, evaluation, outcome, call>>

----------------------------------------------------------------------------
(* The cloud planner. *)

PlannerAnswers ==
    /\ stage = "planner"
    /\ \E contract \in PlannerContracts :
          LET bound == BindPlanner(contract, view) IN
          IF PlannerAccepted(contract, screen, view, LiveAllowed) /\ bound.signal # "failed"
          THEN stage' = "decide" /\ planner' = bound
          ELSE stage' = "look" /\ UNCHANGED planner
    /\ UNCHANGED <<screen, view, binding, resolver, evaluation, outcome, call>>

AskForPlan ==
    /\ stage = "planner"
    /\ IF PlanRequestRefused(screen, view)
       THEN stage' = "look" /\ UNCHANGED call
       ELSE stage' = "planning"
            /\ StartCall(PlanRequest(view, EvidenceSignal(binding, resolver, planner)))
    /\ UNCHANGED <<screen, view, binding, resolver, planner, evaluation, outcome>>

Plan ==
    /\ stage = "planning" /\ CallStep
    /\ UNCHANGED sessionVars

(* A plan that is available is taken; without one the caller looks again. *)
TakePlan ==
    /\ stage = "planning" /\ call.stage = "done"
    /\ stage' = IF call.signal = "available" THEN "settled" ELSE "look"
    /\ UNCHANGED <<screen, view, binding, resolver, planner, evaluation, outcome, call>>

----------------------------------------------------------------------------
Next ==
    \/ Look \/ Settle \/ ScreenChanges
    \/ ResolverAnswers \/ BackendAnswers
    \/ PlannerAnswers \/ AskForPlan \/ Plan \/ TakePlan

(* A call returns: the client has a time-out, the backend computes.  The    *)
(* caller of the session goes on deciding.                                  *)
Fairness ==
    /\ WF_vars(Settle)
    /\ WF_vars(ResolverAnswers \/ BackendAnswers)
    /\ WF_vars(PlannerAnswers \/ AskForPlan)
    /\ WF_vars(Plan) /\ WF_vars(TakePlan)

Spec == Init /\ [][Next]_vars /\ Fairness

----------------------------------------------------------------------------
TypeOK ==
    /\ stage \in {"look", "decide", "resolver", "planner", "planning", "confirm", "settled", "blocked"}
    /\ screen \in [frame : Frames, candidates : Screens]
    /\ view.frame \in 0..screen.frame /\ view.signal \in Signals
    /\ binding \in Binding /\ resolver \in Response /\ planner \in Response
    /\ evaluation.disposition \in Dispositions
    /\ outcome.id \in CandidateIds \cup {NoOne}
    /\ call.stage \in {"idle", "prompting", "waiting", "done"}

(* The engine and the arbitrator agree on who decides: when the engine says *)
(* the deterministic evidence is sufficient, the arbitrator selects the     *)
(* deterministic candidate or none.  The one exception is a source conflict *)
(* that a planner of sufficient confidence, asking for no live execution,   *)
(* settles for a candidate that needed no local resolver.                   *)
OverrideJustified ==
    evaluation.disposition = "deterministic_ok" =>
        \/ outcome.id \in {binding.id, NoOne}
        \/ /\ outcome.source = "cloud_planner" /\ binding.conflict
           /\ Sufficient(planner.confidence, Policy.planner) /\ ~planner.live
           /\ ~LocalNeeded(binding)

(* A caller that follows the plans of the engine gets somewhere: whatever   *)
(* the sources answer, one look is decided, goes to a human or is given up  *)
(* for a new look, and is not passed from source to source for ever.        *)
LookEnds == stage = "decide" ~> stage \in {"look", "settled", "confirm", "blocked"}

(* An answer that is decided on names a candidate that stands on the screen *)
(* just as the view showed it to the source: no answer to a frame that is   *)
(* gone gets through, even if the new frame has a candidate of that name.   *)
AnswersFitScreen ==
    [][(stage = "resolver" \/ stage = "planner") /\ stage' = "decide" =>
         \A response \in {resolver', planner'} \ {resolver, planner} :
            response.binding # NoBinding =>
                Find(view, response.binding.id) \in screen.candidates]_vars

Orders == {s \in [1..Len(view.candidates) -> CandidateIds] :
              \A i, j \in DOMAIN s : /\ i # j => s[i] # s[j]
                                     /\ Shown(view, s[i])}

(* The order in which a caller lists the shortlist, which the backend       *)
(* scores as a rank, may leave a choice open but never turns it into        *)
(* another candidate's: for shortlists of at most five entries, what the    *)
(* rank steps can move is less than twice the decisive margin.              *)
OrderIrrelevant ==
    LET chosen == {output.id : output \in
                     UNION {Answers(Request(view, ids, "choose_candidate", {})) : ids \in Orders}}
    IN  stage = "resolver" => Cardinality(chosen \ {NoOne}) <= 1

=============================================================================
