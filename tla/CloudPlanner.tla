---------------------------- MODULE CloudPlanner ----------------------------
(***************************************************************************)
(* The cloud planner: the request built from a view, the correction loop   *)
(* around the client (prompt, transport, parser) and the binding of the    *)
(* parsed plan to the steps of a scenario.                                 *)
(*                                                                         *)
(* A call is the run of plan_request on one request.  What the provider    *)
(* answers is a reply: its text is malformed, lacks what the schema asks   *)
(* for, or is a contract with its subgoals.  Any failure of the transport  *)
(* (no endpoint, HTTP or URL error, time-out, unreadable or too long a     *)
(* text) ends the call and is one outcome here.                            *)
(***************************************************************************)
EXTENDS AiContracts

CONSTANTS
    MaxRetries,     \* max_correction_retries
    Replies         \* what the provider may answer

(* "none" stands for a field that is absent; a label is a shared label. *)
Subgoal ==
    [name : {"first", "second"}, action : {"candidate_select", "observe_only"},
     id : CandidateIds \cup {NoOne}, label : Labels \cup {"none"},
     targetAllowed : BOOLEAN,            \* no target label, or one the binding allows
     criteria : {"none", "given", "unknown"}, dryRun : BOOLEAN]

Reply ==
    [json : BOOLEAN, fields : BOOLEAN,   \* the text parses; its fields have their types
     outcome : {"planned", "unresolved", "unknown"}, goal : BOOLEAN, needMore : BOOLEAN,
     forbidsLive : BOOLEAN, subgoals : Seq(Subgoal)]

ASSUME RetriesAssumption == MaxRetries \in Nat
ASSUME RepliesAssumption == Replies \subseteq Reply

VARIABLE call       \* the call in progress or the last one

Errors == {"malformed", "schema_invalid"}
PromptRecord == [attempt : Nat, feedback : Errors \cup {"none"}]

Idle == [stage |-> "idle", attempt |-> 0, feedback |-> "none", prompts |-> <<>>,
         refused |-> <<>>, request |-> [signal |-> "absent", summary |-> {}],
         signal |-> "none", steps |-> <<>>]

----------------------------------------------------------------------------
(* The request. *)

SummaryEntry(c) ==
    LET binding == BindExposed(c) IN
    [id |-> c.id, label |-> c.label, score |-> c.score, complete |-> binding.complete]

(* build_request, without the optional contexts but for the escalation      *)
(* decision, whose signal counts.                                           *)
PlanRequest(view, evidence) ==
    LET summary == {SummaryEntry(view.candidates[i]) : i \in DOMAIN view.candidates}
        statuses == {view.signal, evidence}
                    \cup {IF e.complete THEN "available" ELSE "partial" : e \in summary}
    IN  [summary |-> summary,
         signal |-> IF statuses \cap {"partial", "absent"} # {} THEN "partial"
                    ELSE IF summary = {} THEN "absent"
                    ELSE "available"]

PlanRequestRefused(screen, view) == view.frame # screen.frame

Listed(request, id) == \E e \in request.summary : e.id = id
EntryOf(request, id) == CHOOSE e \in request.summary : e.id = id

----------------------------------------------------------------------------
(* The parser. *)

(* _parse_subgoals *)
SubgoalParses(request, subgoal) ==
    /\ subgoal.id # NoOne => Listed(request, subgoal.id) /\ subgoal.targetAllowed
    /\ subgoal.action = "candidate_select" => subgoal.id # NoOne
    /\ subgoal.criteria # "unknown"
    /\ subgoal.dryRun

(* _parse_output_contract: the error it raises, "none" if it raises none. *)
ParseError(request, reply) ==
    IF ~reply.json THEN "malformed"
    ELSE IF /\ reply.fields /\ reply.forbidsLive
            /\ reply.outcome = "planned" =>
                  /\ reply.goal /\ ~reply.needMore
                  /\ reply.subgoals # <<>>
                  /\ \A i \in DOMAIN reply.subgoals : SubgoalParses(request, reply.subgoals[i])
                  /\ \A i, j \in DOMAIN reply.subgoals :
                        i # j => reply.subgoals[i].name # reply.subgoals[j].name
    THEN "none" ELSE "schema_invalid"

----------------------------------------------------------------------------
(* Binding the plan. *)

(* _bind_subgoal raises on a label that is not the candidate's. *)
SubgoalBinds(request, subgoal) ==
    /\ subgoal.id # NoOne => Listed(request, subgoal.id)
    /\ subgoal.id # NoOne /\ subgoal.label # "none" =>
          EntryOf(request, subgoal.id).label = subgoal.label

(* _candidate_constraint: an empty set of candidates restricts nothing. *)
Constraint(request, subgoal) ==
    IF subgoal.id # NoOne
    THEN [allowed |-> {subgoal.id}, minScore |-> EntryOf(request, subgoal.id).score]
    ELSE [allowed |-> {e.id : e \in request.summary}, minScore |-> Missing]

(* _scenario_step_from_subgoal; a step without criteria has no expected     *)
(* outcome, which leaves its definition incomplete.                         *)
Step(request, subgoal) ==
    [constraint |-> Constraint(request, subgoal), filled |-> subgoal.criteria = "given"]

(* Mutant: a plan is available whatever the request was built from. *)
PlanSignalOfSteps(request, steps) ==
    IF \A i \in DOMAIN steps : steps[i].filled THEN "available" ELSE "partial"

(* _bound_signal_status *)
PlanSignal(request, steps) ==
    IF request.signal = "available" /\ \A i \in DOMAIN steps : steps[i].filled
    THEN "available" ELSE "partial"

(* bind_response *)
BindPlan(request, reply) ==
    LET steps == [i \in DOMAIN reply.subgoals |-> Step(request, reply.subgoals[i])] IN
    IF reply.outcome # "planned" THEN [signal |-> "partial", steps |-> <<>>]
    ELSE IF \A i \in DOMAIN reply.subgoals : SubgoalBinds(request, reply.subgoals[i])
    THEN [signal |-> PlanSignal(request, steps), steps |-> steps]
    ELSE [signal |-> "failed", steps |-> <<>>]

----------------------------------------------------------------------------
(* The correction loop. *)

StartCall(request) ==
    call' = [Idle EXCEPT !.stage = "prompting", !.attempt = 1, !.request = request]

(* build_prompt, then the client sends the prompt. *)
Prompt ==
    /\ call.stage = "prompting"
    /\ call' = [call EXCEPT !.stage = "waiting",
                            !.prompts = Append(@, [attempt |-> call.attempt,
                                                   feedback |-> call.feedback])]

(* A failed transport is returned at once, never retried. *)
TransportFails ==
    /\ call.stage = "waiting"
    /\ call' = [call EXCEPT !.stage = "done", !.signal = "failed"]

(* Mutant: the feedback of the first refusal is kept for the retries. *)
CorrectOnce(error) ==
    [call EXCEPT !.stage = "prompting", !.attempt = @ + 1, !.refused = Append(@, error),
                 !.feedback = IF @ = "none" THEN error ELSE @]

(* What the loop carries to its next attempt when the parser refuses. *)
Correct(error) ==
    [call EXCEPT !.stage = "prompting", !.attempt = @ + 1, !.refused = Append(@, error),
                 !.feedback = error]

AnswerArrives(reply) ==
    LET error == ParseError(call.request, reply)
        bound == BindPlan(call.request, reply)
    IN  /\ call.stage = "waiting"
        /\ call' = IF error = "none"
                   THEN [call EXCEPT !.stage = "done", !.signal = bound.signal, !.steps = bound.steps]
                   ELSE IF call.attempt <= MaxRetries THEN Correct(error)
                   ELSE [call EXCEPT !.stage = "done", !.signal = "failed",
                                     !.refused = Append(@, error)]

CallStep == Prompt \/ TransportFails \/ \E reply \in Replies : AnswerArrives(reply)

----------------------------------------------------------------------------
(* What a call is trusted for. *)

(* The correction loop of the backend: at most one prompt per allowed       *)
(* retry beyond the first, and a prompt that is not the first tells the     *)
(* provider why its previous answer, not an earlier one, was refused.       *)
RetryDiscipline ==
    /\ Len(call.prompts) <= MaxRetries + 1
    /\ \A i \in DOMAIN call.prompts :
          call.prompts[i].feedback = IF i = 1 THEN "none" ELSE call.refused[i - 1]

(* A bound plan whose signal is available names, in every step, candidates  *)
(* of the request it answers: no step of it is free to act on any candidate *)
(* of the screen, which an empty set of allowed candidates would mean.      *)
StepsWithinSummary ==
    call.stage = "done" /\ call.signal = "available" =>
        \A i \in DOMAIN call.steps :
            /\ call.steps[i].constraint.allowed # {}
            /\ \A id \in call.steps[i].constraint.allowed :
                  \E e \in call.request.summary : e.id = id /\ e.complete

=============================================================================
