---------------------------- MODULE AiContracts ----------------------------
(***************************************************************************)
(* What the local resolver and the cloud planner are shown and what they   *)
(* may answer: the binding of a candidate to the shared ontology, the      *)
(* answers of the two AI sources bound back to the exposure view, and the  *)
(* validation of an answer at the AI boundary.                             *)
(*                                                                         *)
(* Scores and confidences are percents.  A view is the exposure of one     *)
(* frame (one semantic snapshot): its candidates in rank order and its     *)
(* signal status.  A screen is the snapshot itself.                        *)
(***************************************************************************)
EXTENDS Integers, Sequences

CONSTANTS
    CandidateIds,   \* identifiers, in their order
    Labels,         \* shared candidate labels
    Names           \* the labels a candidate shows as text

Missing == -1       \* a score or a confidence that is None
NoOne == 0          \* the identifier that is None

ASSUME CandidateIdsAssumption == CandidateIds \subseteq Nat \ {NoOne}
ASSUME LabelsAssumption == "none" \notin Labels
ASSUME NamesAssumption == "none" \notin Names

Percent == 0..100
Signals == {"available", "partial", "absent"}

(* A scored candidate of a snapshot, with what its exposure says of it. *)
Candidate ==
    [id : CandidateIds, name : Names, label : Labels \cup {"none"},
     score : Percent \cup {Missing}, risk : {"none", "low", "medium", "high"},
     described : BOOLEAN,      \* source type, source priority and provenance are there
     ambiguous : BOOLEAN, needsResolver : BOOLEAN, conflict : BOOLEAN,
     visible : BOOLEAN,
     exposed : BOOLEAN,        \* the exposure shows it
     complete : BOOLEAN]       \* completeness_status of its exposure

(* _candidate_completeness_status: what a complete exposure has. *)
ExposureRight(c) ==
    c.complete => c.described /\ c.risk # "none" /\ c.label # "none" /\ c.score # Missing

----------------------------------------------------------------------------
(* Shared ontology: the binding of a candidate. *)

Binding ==
    [id : CandidateIds \cup {NoOne}, name : Names \cup {"none"}, label : Labels \cup {"none"},
     confidence : Percent \cup {Missing}, risk : {"none", "low", "medium", "high"},
     ambiguous : BOOLEAN, needsResolver : BOOLEAN, conflict : BOOLEAN, complete : BOOLEAN]

NoBinding ==
    [id |-> NoOne, name |-> "none", label |-> "none", confidence |-> Missing, risk |-> "none",
     ambiguous |-> FALSE, needsResolver |-> FALSE, conflict |-> FALSE, complete |-> FALSE]

OntologyComplete(c) == c.described /\ c.risk # "none"

BuildBinding(c, complete) ==
    [id |-> c.id, name |-> c.name, label |-> c.label, confidence |-> c.score, risk |-> c.risk,
     ambiguous |-> c.ambiguous, needsResolver |-> c.needsResolver, conflict |-> c.conflict,
     complete |-> complete]

BindSemantic(c) == BuildBinding(c, OntologyComplete(c) /\ c.label # "none")

BindExposed(c) == BuildBinding(c, OntologyComplete(c) /\ c.label # "none" /\ c.complete)

(* evaluate_candidate_resolver_readiness *)
Readiness(binding, complete) ==
    IF ~complete THEN "partial" ELSE IF binding.conflict THEN "conflicted" ELSE "ready"

Shown(view, id) == \E i \in DOMAIN view.candidates : view.candidates[i].id = id

(* _find_exposed_candidate *)
Find(view, id) == CHOOSE c \in {view.candidates[i] : i \in DOMAIN view.candidates} : c.id = id

----------------------------------------------------------------------------
(* Contracts as the AI sources send them, and their binding to the view. *)

(* "none" stands for a field that is None, "other" for a value the          *)
(* enumeration of the field does not have.                                  *)
PlannerContract ==
    [action : {"candidate_select", "observe_only", "other", "none"},   \* "none": no suggestion
     id : CandidateIds \cup {NoOne}, name : Names \cup {"none"},
     target : {"candidate_center", "candidate_point", "other", "none"},
     confidence : Percent \cup {Missing},     \* Missing: not a number in 0.0..1.0
     dryRun : BOOLEAN, live : BOOLEAN,
     outcomes : SUBSET [id : CandidateIds, change : {"appeared", "changed", "disappeared"},
                        before : Names \cup {"none"}, scored : BOOLEAN]]

ResolverContract ==
    [action : {"candidate_select", "observe_only", "other"},
     id : CandidateIds \cup {NoOne}, name : Names \cup {"none"},
     target : {"candidate_center", "candidate_point", "other", "none"},
     confidence : Percent \cup {Missing},
     inside : BOOLEAN]         \* the point is numeric and lies in the candidate's bounds

Response ==
    [signal : Signals \cup {"none", "failed"}, action : {"candidate_select", "observe_only", "none"},
     binding : Binding, target : {"candidate_center", "candidate_point", "none"},
     confidence : Percent \cup {Missing}, live : BOOLEAN]

(* "none" is the absence of a response; "failed" a bind that returned a failure. *)
NoResponse ==
    [signal |-> "none", action |-> "none", binding |-> NoBinding, target |-> "none",
     confidence |-> Missing, live |-> FALSE]
Failed == [NoResponse EXCEPT !.signal = "failed"]

(* _merge_signal_status *)
Merge(exposure, bound) ==
    IF "partial" \in {exposure, bound} THEN "partial"
    ELSE IF exposure = "absent" /\ bound = "absent" THEN "absent"
    ELSE "available"

BoundSignal(view, binding) ==
    Merge(view.signal, IF binding.complete THEN "available" ELSE "partial")

(* bind_response of the planner builder. *)
BindPlanner(contract, view) ==
    IF contract.action = "none"
    THEN [NoResponse EXCEPT !.signal = IF contract.outcomes = {} THEN "partial" ELSE "available"]
    ELSE IF contract.action = "other" \/ contract.confidence = Missing THEN Failed
    ELSE IF contract.action = "observe_only"
    THEN [NoResponse EXCEPT !.signal = "available", !.action = "observe_only",
                            !.confidence = contract.confidence, !.live = contract.live]
    ELSE IF ~Shown(view, contract.id) \/ contract.target \in {"other", "none"} THEN Failed
    ELSE LET binding == BindExposed(Find(view, contract.id)) IN
         [signal |-> BoundSignal(view, binding), action |-> "candidate_select",
          binding |-> binding, target |-> contract.target,
          confidence |-> contract.confidence, live |-> contract.live]

(* bind_response of the resolver builder. *)
BindResolver(contract, view) ==
    IF \/ contract.action = "other" \/ ~Shown(view, contract.id)
       \/ contract.target \in {"other", "none"} \/ contract.confidence = Missing
    THEN Failed
    ELSE LET binding == BindExposed(Find(view, contract.id)) IN
         [signal |-> BoundSignal(view, binding), action |-> contract.action,
          binding |-> binding, target |-> contract.target,
          confidence |-> contract.confidence, live |-> FALSE]

----------------------------------------------------------------------------
(* The AI boundary: what an answer is validated against. *)

OnScreen(screen, id) == \E c \in screen.candidates : c.id = id
Current(screen, id) == CHOOSE c \in screen.candidates : c.id = id

(* Mutant: the view is not compared with the snapshot of the context. *)
ReferenceOfAnyFrame(id, name, screen, view) ==
    /\ OnScreen(screen, id)
    /\ Shown(view, id)
    /\ view.signal # "partial"
    /\ Find(view, id).complete
    /\ name \in {"none", Current(screen, id).name}

(* _resolve_candidate_reference finds no reason to reject. *)
ReferenceAccepted(id, name, screen, view) ==
    /\ OnScreen(screen, id)
    /\ view.frame = screen.frame
    /\ Shown(view, id)
    /\ view.signal # "partial"
    /\ Find(view, id).complete
    /\ name \in {"none", Current(screen, id).name}

(* _validate_expected_outcome, for outcomes about candidates. *)
OutcomePossible(outcome, screen) ==
    /\ OnScreen(screen, outcome.id) <=> outcome.change # "appeared"
    /\ OnScreen(screen, outcome.id) =>
          /\ outcome.before \in {"none", Current(screen, outcome.id).name}
          /\ outcome.scored => Current(screen, outcome.id).score # Missing

(* validate_planner_contract; liveAllowed stands for the seven gates of the *)
(* run configuration, the protected context, the switches and the policy.   *)
PlannerAccepted(contract, screen, view, liveAllowed) ==
    /\ contract.action # "none" =>
          /\ contract.action # "other"
          /\ contract.confidence # Missing
          /\ contract.dryRun
    /\ contract.action = "observe_only" => ~contract.live
    /\ contract.action = "candidate_select" =>
          /\ ReferenceAccepted(contract.id, contract.name, screen, view)
          /\ contract.target \in {"candidate_center", "candidate_point"}
          /\ contract.live => liveAllowed
    /\ \A outcome \in contract.outcomes : OutcomePossible(outcome, screen)

(* validate_resolver_contract *)
ResolverAccepted(contract, screen, view) ==
    /\ contract.action = "candidate_select"
    /\ contract.confidence # Missing
    /\ contract.target \in {"candidate_center", "candidate_point"}
    /\ contract.inside
    /\ ReferenceAccepted(contract.id, contract.name, screen, view)

=============================================================================
