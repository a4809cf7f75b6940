---------------------------- MODULE ActionGates ----------------------------
(***************************************************************************)
(* What stands between a candidate on the screen and a click on it, as     *)
(* functions of what each gate reads: the definition of the step, the      *)
(* exposure and choice of a candidate, the scaffold of an intent, its dry  *)
(* run, the policy and the final tool boundary.                            *)
(*                                                                         *)
(* A snapshot maps the identifiers of its candidates to candidates.        *)
(* Scores are levels, 0 being the score that is missing.  A place stands   *)
(* for the box of a candidate; the target of an intent is the centre of    *)
(* its candidate's box, hence also a place.                                *)
(***************************************************************************)
EXTENDS Naturals, FiniteSets

CONSTANTS
    CandidateIds,   \* identifiers; candidates of equal score are in their order
    Classes,        \* candidate classes, "button_like" among them
    MaxScore,       \* the highest level of a score
    ClickScore,     \* the level of 0.9, the least score a click accepts
    MaxRank,        \* the last rank a click accepts (5)
    Places,         \* boxes on the normalized screen
    Degenerate      \* boxes that hold no pixel: the late-bound point misses them

ASSUME CandidateIdsAssumption == CandidateIds \subseteq Nat /\ IsFiniteSet(CandidateIds)
ASSUME ClassesAssumption == "button_like" \in Classes
ASSUME ScoreAssumption == MaxScore \in Nat /\ ClickScore \in 1..MaxScore /\ MaxRank \in Nat
ASSUME PlacesAssumption == Degenerate \subseteq Places

Candidate ==
    [class : Classes, score : 0..MaxScore, visible : BOOLEAN,
     region : BOOLEAN,      \* its layout region is in the snapshot
     described : BOOLEAN,   \* ontology, explanations and factors are complete
     place : Places]

Screen == UNION {[I -> Candidate] : I \in SUBSET CandidateIds}

----------------------------------------------------------------------------
(* The definition of a step and of a scenario. *)

(* 0 stands for an absent minimum score or maximum rank. *)
StepDefinition ==
    [filled : BOOLEAN,      \* names, action type, outcome and requirements are given
     safe : BOOLEAN,        \* observe-only, safety-first, definition-only
     select : BOOLEAN,      \* the action type is candidate_select
     eligible : BOOLEAN,    \* real_click_eligible rather than dry_run_only
     allowClick : BOOLEAN, cleared : BOOLEAN,
     classes : SUBSET Classes, allowed : SUBSET CandidateIds,
     minScore : 0..MaxScore, limit : Nat,
     visible : BOOLEAN, complete : BOOLEAN]

(* _validate_real_click_eligibility *)
ClickInvalid(step, scenario) ==
    \/ ~scenario.realClick \/ ~step.select \/ ~step.cleared
    \/ ~(step.classes \subseteq {"button_like"})
    \/ step.minScore \in 1..(ClickScore - 1)
    \/ step.limit > MaxRank

ClickIncomplete(step) ==
    ~step.allowClick \/ step.classes = {} \/ step.minScore = 0 \/ step.limit = 0

(* _normalize_step *)
StepStatus(step, scenario) ==
    CASE ~step.safe \/ (step.eligible /\ ClickInvalid(step, scenario)) -> "invalid"
      [] \/ ~step.filled
         \/ step.classes = {} /\ step.allowed = {}
         \/ step.eligible /\ ClickIncomplete(step) -> "incomplete"
      [] OTHER -> "defined"

StatusesOf(scenario) ==
    {StepStatus(scenario.steps[k], scenario) : k \in DOMAIN scenario.steps}

(* _scenario_status: the steps' statuses, the scenario's own flags and ids *)
ScenarioStatus(scenario) ==
    CASE ~scenario.safe \/ ~scenario.uniqueIds \/ "invalid" \in StatusesOf(scenario) -> "invalid"
      [] ~scenario.named \/ scenario.steps = <<>> \/ "incomplete" \in StatusesOf(scenario) -> "incomplete"
      [] OTHER -> "defined"

----------------------------------------------------------------------------
(* Exposure, and the candidate a step chooses. *)

Complete(c) == c.described /\ c.region /\ c.score # 0

Passes(step, c) ==
    /\ step.visible => c.visible
    /\ step.classes # {} => c.class \in step.classes
    /\ c.score >= step.minScore

Unfiltered(step, screen) == {i \in DOMAIN screen : Passes(step, screen[i])}

(* _candidate_sort_key: best score first, then by identifier *)
Precedes(screen, i, j) ==
    \/ screen[i].score > screen[j].score
    \/ screen[i].score = screen[j].score /\ i < j

Rank(step, screen, i) ==
    1 + Cardinality({j \in Unfiltered(step, screen) : Precedes(screen, j, i)})

Exposed(step, screen) ==
    {i \in Unfiltered(step, screen) : step.limit = 0 \/ Rank(step, screen, i) <= step.limit}

Matched(step, screen) ==
    {i \in Exposed(step, screen) :
        /\ step.allowed # {} => i \in step.allowed
        /\ step.complete => Complete(screen[i])}

(* matched_candidate_ids[0] *)
Selected(step, screen) ==
    CHOOSE i \in Matched(step, screen) :
        \A j \in Matched(step, screen) \ {i} : Precedes(screen, i, j)

----------------------------------------------------------------------------
(* The intent and its dry run. *)

(* _build_intent.  An exposed candidate is never enabled or actionable,    *)
(* so the scaffold never blocks one as unsafe.                             *)
Intent(step, screen, i) ==
    LET c == screen[i] IN
    [candidate |-> i, class |-> c.class, score |-> c.score, rank |-> Rank(step, screen, i),
     visible |-> c.visible, region |-> c.region, complete |-> Complete(c), place |-> c.place,
     status |-> IF Complete(c) THEN "scaffolded" ELSE "incomplete"]

(* _common_intent_outcomes: the candidate is still there, where it was *)
Bound(intent, screen) ==
    /\ intent.candidate \in DOMAIN screen
    /\ screen[intent.candidate].place = intent.place

(* _evaluate_intent and _determine_disposition *)
DryRun(intent, screen) ==
    LET c == screen[intent.candidate] IN
    CASE ~Bound(intent, screen) -> "rejected"
      [] ~(intent.region /\ c.region /\ intent.complete) -> "would_block"
      [] intent.status = "incomplete" \/ ~(intent.visible /\ c.visible) -> "incomplete"
      [] OTHER -> "would_execute"

----------------------------------------------------------------------------
(* The policy, apart from kill switch and pause, and the tool boundary. *)

Policy ==
    [protected : {"clear", "unknown", "protected"},
     denied : SUBSET CandidateIds,                      \* what the denylist matches
     restrictive : BOOLEAN, allowed : SUBSET CandidateIds,  \* whether there is an allowlist, and its matches
     complete : BOOLEAN]                                \* completeness of the context

(* evaluate from the protected context on; live input was asked for *)
Rules(policy, intent, live) ==
    CASE policy.protected = "protected" \/ intent.candidate \in policy.denied \/ ~live -> "deny"
      [] policy.protected = "unknown" \/ ~policy.complete -> "review"
      [] policy.restrictive /\ intent.candidate \notin policy.allowed -> "review"
      [] OTHER -> "allow"

(* evaluate_intent_for_safe_click: the checks of the candidate, of the      *)
(* target point and of the configuration                                    *)
ClickFit(intent, screen, config) ==
    /\ Bound(intent, screen)
    /\ config.live
    /\ intent.class = "button_like" /\ intent.rank <= MaxRank
    /\ intent.status = "scaffolded" /\ intent.complete
    /\ intent.score >= ClickScore
    /\ DryRun(intent, screen) = "would_execute"
    /\ config.metrics
    /\ intent.place \notin Degenerate
    /\ config.execute => config.transport

(* Mutant: only a denial of the policy blocks. *)
MutantBoundaryOpenOnReview(intent, screen, config, verdict) ==
    verdict # "deny" /\ ClickFit(intent, screen, config)

(* evaluate_intent_for_safe_click: no check of the boundary blocks *)
BoundaryOpen(intent, screen, config, verdict) ==
    verdict = "allow" /\ ClickFit(intent, screen, config)
=============================================================================
