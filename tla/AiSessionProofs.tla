-------------------------- MODULE AiSessionProofs --------------------------
(***************************************************************************)
(* Proofs about AiSession, for any escalation policy, any screens and any  *)
(* answers of the sources, finite in number or not.                        *)
(***************************************************************************)
EXTENDS AiSession, FiniteSetTheorems, TLAPS

----------------------------------------------------------------------------
(* The two deciders on the same evidence. *)

(* Without a material conflict every bound source names the candidate in    *)
(* question.                                                                *)
LEMMA NoMaterialSameId ==
    ASSUME NEW b, NEW r, NEW p, b # NoBinding,
           Conflicts(b, r, p) \cap Material = {}
    PROVE  /\ r.binding # NoBinding => r.binding.id = b.id
           /\ p.binding # NoBinding => p.binding.id = b.id
<1>1. "candidate_reference_mismatch" \notin Conflicts(b, r, p)
    BY DEF Material
<1>2. ~ \E x, y \in Bindings(b, r, p) : x.id # y.id
    BY <1>1 DEF Conflicts
<1>3. QED
    BY <1>2 DEF Bindings

LEMMA OkMeansJustified ==
    ASSUME NEW b, NEW r, NEW p,
           Evaluate(b, r, p).disposition = "deterministic_ok"
    PROVE  LET o == Arbitrate(b, r, p) IN
           \/ o.id \in {b.id, NoOne}
           \/ /\ o.source = "cloud_planner" /\ b.conflict
              /\ Sufficient(p.confidence, Policy.planner) /\ ~p.live
              /\ ~LocalNeeded(b)
<1> DEFINE conflicts == Conflicts(b, r, p)
           material == conflicts \cap Material # {}
           decision == Decide(b, r, p, conflicts)
           source == SelectedSource(decision, b, r, p)
<1>1. Disposition(b, r, p, conflicts) = "deterministic_ok"
    BY DEF Evaluate
<1>2. EarlyBlock(b, r, p, conflicts) = "none"
    BY <1>1 DEF Disposition
<1>3. b # NoBinding /\ b.complete /\ ~p.live
    BY <1>2 DEF EarlyBlock
<1>4. /\ Arbitrate(b, r, p).source = source
      /\ Arbitrate(b, r, p).id = SelectedId(source, b, r, p)
    BY DEF Arbitrate
<1>5. CASE ~material
  <2>1. /\ r.binding # NoBinding => r.binding.id = b.id
        /\ p.binding # NoBinding => p.binding.id = b.id
      BY <1>3, <1>5, NoMaterialSameId
  <2>2. /\ source = "local_visual_resolver" => r.binding # NoBinding
        /\ source = "cloud_planner" => p.binding # NoBinding
      BY DEF SelectedSource, Usable
  <2>3. SelectedId(source, b, r, p) \in {b.id, NoOne}
      BY <2>1, <2>2 DEF SelectedId
  <2>4. QED
      BY <1>4, <2>3
<1>6. CASE material
  <2>1. ~LocalReasons(b)
      BY <1>1, <1>2, <1>6 DEF Disposition, LocalPath
  <2>2. PlannerPath(b, p, material) = "deterministic_ok"
      BY <1>1, <1>2, <1>6, <2>1 DEF Disposition
  <2>3. Present(p) /\ Sufficient(p.confidence, Policy.planner)
      BY <2>2 DEF PlannerPath
  <2>4. ~LocalNeeded(b)
      BY <2>1 DEF LocalReasons
  <2>5. decision = "ask_local_resolver" => ~Present(r)
      BY <1>3, <2>4 DEF Decide, ConflictDecision
  <2>6. source # "local_visual_resolver"
      BY <2>5 DEF SelectedSource, Usable, Present
  <2>7. decision = "escalate_to_cloud_planner" => b.conflict
      BY <1>3, <2>3, <2>4 DEF Decide, ConflictDecision
  <2>8. source = "cloud_planner" => b.conflict
      BY <2>7 DEF SelectedSource
  <2>9. source # "cloud_planner" => SelectedId(source, b, r, p) \in {b.id, NoOne}
      BY <2>6 DEF SelectedId
  <2>10. QED
      BY <1>3, <1>4, <2>3, <2>4, <2>8, <2>9
<1>7. QED
    BY <1>5, <1>6

(* When the engine says so the session is over, and what the arbitrator     *)
(* selected is justified by the evidence it was selected on.                *)
OkInv ==
    /\ stage \in {"look", "decide", "resolver", "planner", "planning", "confirm", "settled", "blocked"}
    /\ evaluation.disposition = "deterministic_ok" => stage = "settled"
    /\ OverrideJustified

LEMMA OkInit == Init => OkInv
BY DEF Init, OkInv, OverrideJustified, NoEvaluation

LEMMA OkStep == OkInv /\ [Next]_vars => OkInv'
<1> SUFFICES ASSUME OkInv, [Next]_vars PROVE OkInv'
    OBVIOUS
<1> USE DEF OkInv
<1>1. CASE Settle
  <2>1. /\ evaluation' = Evaluate(binding, resolver, planner)
        /\ outcome' = Arbitrate(binding, resolver, planner)
        /\ UNCHANGED <<binding, resolver, planner>>
      BY <1>1 DEF Settle
  <2>2. OverrideJustified'
      BY <2>1, OkMeansJustified DEF OverrideJustified
  <2>3. /\ stage' \in {"settled", "resolver", "planner", "confirm", "look", "blocked"}
        /\ evaluation'.disposition = "deterministic_ok" => stage' = "settled"
      BY <1>1 DEF Settle, RecoveryPlan
  <2>4. QED
      BY <2>2, <2>3
<1>2. CASE Look
    BY <1>2 DEF Look, OverrideJustified
<1>3. CASE ScreenChanges
    BY <1>3 DEF ScreenChanges, OverrideJustified
<1>4. CASE ResolverAnswers
    BY <1>4 DEF ResolverAnswers, ReceiveResolver, OverrideJustified
<1>5. CASE BackendAnswers
    BY <1>5 DEF BackendAnswers, ReceiveResolver, OverrideJustified
<1>6. CASE PlannerAnswers
    BY <1>6 DEF PlannerAnswers, OverrideJustified
<1>7. CASE AskForPlan
    BY <1>7 DEF AskForPlan, OverrideJustified
<1>8. CASE Plan
    BY <1>8 DEF Plan, sessionVars, OverrideJustified
<1>9. CASE TakePlan
    BY <1>9 DEF TakePlan, OverrideJustified
<1>10. CASE UNCHANGED vars
    BY <1>10 DEF vars, sessionVars, OverrideJustified
<1>11. QED
    BY <1>1, <1>2, <1>3, <1>4, <1>5, <1>6, <1>7, <1>8, <1>9, <1>10 DEF Next

(* OverrideJustified of every session: where the engine and the arbitrator  *)
(* decide on the same evidence, the engine's all-clear never lets another   *)
(* candidate than the deterministic one through, but for a source conflict  *)
(* that a planner of sufficient confidence settles.                         *)
THEOREM JustifiedOverride == Spec => []OverrideJustified
<1>1. OkInv => OverrideJustified
    BY DEF OkInv
<1>2. QED
    BY <1>1, OkInit, OkStep, PTL DEF Spec

----------------------------------------------------------------------------
(* The boundary. *)

(* The view of the current frame shows nothing the screen does not have.    *)
ViewInv ==
    /\ screen.frame \in Nat \ {0}
    /\ view.frame \in 0..screen.frame
    /\ view.frame = screen.frame =>
          \A i \in DOMAIN view.candidates : view.candidates[i] \in screen.candidates

LEMMA ViewInit == Init => ViewInv
BY DEF Init, ViewInv, NoView

LEMMA ViewStep == ViewInv /\ [Next]_vars => ViewInv'
<1> SUFFICES ASSUME ViewInv, [Next]_vars PROVE ViewInv'
    OBVIOUS
<1> USE DEF ViewInv
<1>1. CASE Look
  <2>1. view' \in Exposure(screen.candidates)
      BY <1>1 DEF Look
  <2>2. PICK ranking \in Rankings({c \in screen.candidates : c.exposed}), s \in ViewSignals :
            view' = [frame |-> screen.frame, candidates |-> ranking, signal |-> s]
      BY <2>1 DEF Exposure
  <2>3. \A i \in DOMAIN ranking : ranking[i] \in screen.candidates
      BY DEF Rankings
  <2>4. QED
      BY <1>1, <2>2, <2>3 DEF Look
<1>2. CASE ScreenChanges
    BY <1>2 DEF ScreenChanges
<1>3. CASE Settle
    BY <1>3 DEF Settle
<1>4. CASE ResolverAnswers \/ BackendAnswers \/ PlannerAnswers \/ AskForPlan \/ TakePlan
    BY <1>4 DEF ResolverAnswers, BackendAnswers, PlannerAnswers, AskForPlan, TakePlan
<1>5. CASE Plan
    BY <1>5 DEF Plan, sessionVars
<1>6. CASE UNCHANGED vars
    BY <1>6 DEF vars, sessionVars
<1>7. QED
    BY <1>1, <1>2, <1>3, <1>4, <1>5, <1>6 DEF Next

(* What the boundary accepts is on the screen as the view shows it.         *)
LEMMA AcceptedIsThere ==
    ASSUME ViewInv, NEW id, NEW name, ReferenceAccepted(id, name, screen, view)
    PROVE  Shown(view, id) /\ Find(view, id) \in screen.candidates
<1>1. \E c \in {view.candidates[i] : i \in DOMAIN view.candidates} : c.id = id
    BY DEF ReferenceAccepted, Shown
<1>2. Find(view, id) \in {view.candidates[i] : i \in DOMAIN view.candidates}
    BY <1>1 DEF Find
<1>3. QED
    BY <1>2 DEF ReferenceAccepted, ViewInv

LEMMA BoundNames ==
    ASSUME NEW id, Shown(view, id)
    PROVE  BindExposed(Find(view, id)).id = id
<1>1. \E c \in {view.candidates[i] : i \in DOMAIN view.candidates} : c.id = id
    BY DEF Shown
<1>2. Find(view, id).id = id
    BY <1>1 DEF Find
<1>3. QED
    BY <1>2 DEF BindExposed, BuildBinding

FitsScreen(response) ==
    response.binding # NoBinding => Find(view, response.binding.id) \in screen.candidates

LEMMA ResolverFits ==
    ASSUME ViewInv, NEW contract, ResolverAccepted(contract, screen, view),
           BindResolver(contract, view).signal # "failed"
    PROVE  FitsScreen(BindResolver(contract, view))
<1>1. Shown(view, contract.id) /\ Find(view, contract.id) \in screen.candidates
    BY AcceptedIsThere DEF ResolverAccepted
<1>2. BindResolver(contract, view).binding = BindExposed(Find(view, contract.id))
    BY DEF BindResolver, Failed
<1>3. QED
    BY <1>1, <1>2, BoundNames DEF FitsScreen

LEMMA PlannerFits ==
    ASSUME ViewInv, NEW contract \in PlannerContracts,
           PlannerAccepted(contract, screen, view, LiveAllowed),
           BindPlanner(contract, view).signal # "failed"
    PROVE  FitsScreen(BindPlanner(contract, view))
<1>1. contract.action \in {"candidate_select", "observe_only", "other", "none"}
    BY ContractsAssumption DEF PlannerContract
<1>2. CASE contract.action # "candidate_select"
    BY <1>1, <1>2 DEF BindPlanner, FitsScreen, NoResponse, Failed
<1>3. CASE contract.action = "candidate_select"
  <2>1. Shown(view, contract.id) /\ Find(view, contract.id) \in screen.candidates
      BY <1>3, AcceptedIsThere DEF PlannerAccepted
  <2>2. BindPlanner(contract, view).binding = BindExposed(Find(view, contract.id))
      BY <1>3 DEF BindPlanner, Failed
  <2>3. QED
      BY <2>1, <2>2, BoundNames DEF FitsScreen
<1>4. QED
    BY <1>2, <1>3

(* A step that takes an answer takes it from the boundary. *)
Taken ==
    stage \in {"resolver", "planner"} /\ stage' = "decide" =>
        /\ UNCHANGED <<view, screen>>
        /\ \A response \in {resolver', planner'} \ {resolver, planner} : FitsScreen(response)

LEMMA ReceivedFits ==
    ASSUME ViewInv, NEW contract, ReceiveResolver(contract), stage' = "decide"
    PROVE  FitsScreen(resolver')
<1>1. CASE ResolverAccepted(contract, screen, view) /\ BindResolver(contract, view).signal # "failed"
    BY <1>1, ResolverFits DEF ReceiveResolver
<1>2. CASE ~(ResolverAccepted(contract, screen, view) /\ BindResolver(contract, view).signal # "failed")
    BY <1>2 DEF ReceiveResolver
<1>3. QED
    BY <1>1, <1>2

LEMMA AnswersTaken == ViewInv /\ [Next]_vars => Taken
<1> SUFFICES ASSUME ViewInv, [Next]_vars, stage \in {"resolver", "planner"}, stage' = "decide"
             PROVE  Taken
    BY DEF Taken
<1> USE DEF Taken
<1>1. CASE ResolverAnswers
  <2>1. PICK contract \in ResolverContracts : ReceiveResolver(contract)
      BY <1>1 DEF ResolverAnswers
  <2>2. QED
      BY <1>1, <2>1, ReceivedFits DEF ResolverAnswers
<1>2. CASE BackendAnswers
  <2>1. PICK output : ReceiveResolver(ChoiceContract(output))
      BY <1>2 DEF BackendAnswers
  <2>2. QED
      BY <1>2, <2>1, ReceivedFits DEF BackendAnswers
<1>3. CASE PlannerAnswers
  <2>1. PICK contract \in PlannerContracts :
            /\ PlannerAccepted(contract, screen, view, LiveAllowed)
            /\ BindPlanner(contract, view).signal # "failed"
            /\ planner' = BindPlanner(contract, view)
      BY <1>3 DEF PlannerAnswers
  <2>2. QED
      BY <1>3, <2>1, PlannerFits DEF PlannerAnswers
<1>4. CASE Look \/ Settle \/ ScreenChanges \/ AskForPlan \/ Plan \/ TakePlan
    BY <1>4 DEF Look, Settle, ScreenChanges, AskForPlan, Plan, TakePlan, sessionVars
<1>5. CASE UNCHANGED vars
    BY <1>5 DEF vars, sessionVars
<1>6. QED
    BY <1>1, <1>2, <1>3, <1>4, <1>5 DEF Next

(* AnswersFitScreen of every session: no answer to a frame that is gone is  *)
(* decided on.                                                              *)
THEOREM FittingAnswers == Spec => AnswersFitScreen
<1>1. ViewInv /\ [Next]_vars =>
        [(stage = "resolver" \/ stage = "planner") /\ stage' = "decide" =>
           \A response \in {resolver', planner'} \ {resolver, planner} :
              response.binding # NoBinding =>
                  Find(view, response.binding.id) \in screen.candidates]_vars
    BY AnswersTaken DEF Taken, FitsScreen
<1>2. QED
    BY <1>1, ViewInit, ViewStep, PTL DEF Spec, AnswersFitScreen

----------------------------------------------------------------------------
(* The correction loop. *)

LastRefusal == IF call.refused = <<>> THEN "none" ELSE call.refused[Len(call.refused)]

(* The call is a record of these fields. *)
CallShape ==
    call = [stage |-> call.stage, attempt |-> call.attempt, feedback |-> call.feedback,
            prompts |-> call.prompts, refused |-> call.refused, request |-> call.request,
            signal |-> call.signal, steps |-> call.steps]

CallInv ==
    /\ CallShape
    /\ call.prompts \in Seq(PromptRecord) /\ call.refused \in Seq(Errors)
    /\ call.attempt \in 0..(MaxRetries + 1)
    /\ call.feedback \in Errors \cup {"none"}
    /\ call.stage \in {"idle", "prompting", "waiting", "done"}
    /\ call.stage = "idle" => call.prompts = <<>> /\ call.refused = <<>>
    /\ call.stage = "prompting" =>
          /\ Len(call.prompts) = call.attempt - 1 /\ Len(call.refused) = call.attempt - 1
          /\ call.feedback = LastRefusal
    /\ call.stage = "waiting" =>
          Len(call.prompts) = call.attempt /\ Len(call.refused) = call.attempt - 1
    /\ Len(call.refused) >= Len(call.prompts) - 1
    /\ RetryDiscipline

LEMMA CallInit == Init => CallInv
<1> SUFFICES ASSUME Init PROVE CallInv
    OBVIOUS
<1>1. call = Idle
    BY DEF Init
<1>2. QED
    BY <1>1, RetriesAssumption DEF Idle, CallInv, CallShape, RetryDiscipline

LEMMA StartInv == ASSUME NEW request, StartCall(request) PROVE CallInv'
<1>1. call' = [stage |-> "prompting", attempt |-> 1, feedback |-> "none", prompts |-> <<>>,
               refused |-> <<>>, request |-> request, signal |-> "none", steps |-> <<>>]
    BY DEF StartCall, Idle
<1>2. QED
    BY <1>1, RetriesAssumption DEF CallInv, CallShape, RetryDiscipline, LastRefusal

LEMMA PromptInv == CallInv /\ Prompt => CallInv'
<1> SUFFICES ASSUME CallInv, Prompt PROVE CallInv'
    OBVIOUS
<1> DEFINE record == [attempt |-> call.attempt, feedback |-> call.feedback]
<1>1. call' = [stage |-> "waiting", attempt |-> call.attempt, feedback |-> call.feedback,
               prompts |-> Append(call.prompts, record), refused |-> call.refused,
               request |-> call.request, signal |-> call.signal, steps |-> call.steps]
    BY DEF Prompt, CallInv, CallShape
<1>2. record \in PromptRecord
    BY RetriesAssumption DEF CallInv, PromptRecord
<1>3. /\ call'.prompts \in Seq(PromptRecord)
      /\ Len(call'.prompts) = call.attempt /\ DOMAIN call'.prompts = 1..call.attempt
      /\ \A i \in 1..(call.attempt - 1) : call'.prompts[i] = call.prompts[i]
      /\ call'.prompts[call.attempt] = record
    BY <1>1, <1>2, RetriesAssumption DEF CallInv, Prompt
<1>4. \A i \in DOMAIN call'.prompts :
          call'.prompts[i].feedback = IF i = 1 THEN "none" ELSE call'.refused[i - 1]
  <2>0. call'.refused = call.refused
      BY <1>1
  <2> SUFFICES ASSUME NEW i \in 1..call.attempt
               PROVE  call'.prompts[i].feedback = IF i = 1 THEN "none" ELSE call.refused[i - 1]
      BY <1>3, <2>0
  <2>1. CASE i = call.attempt
      BY <1>3, <2>1 DEF CallInv, Prompt, LastRefusal
  <2>2. CASE i < call.attempt
      BY <1>3, <2>2 DEF CallInv, Prompt, RetryDiscipline
  <2>3. QED
      BY <2>1, <2>2 DEF CallInv
<1>5. call.stage = "prompting"
    BY DEF Prompt
<1>6. RetryDiscipline'
    BY <1>3, <1>4, RetriesAssumption DEF CallInv, RetryDiscipline
<1>7. QED
    BY <1>1, <1>3, <1>5, <1>6, RetriesAssumption DEF CallInv, CallShape

LEMMA FailureInv == CallInv /\ TransportFails => CallInv'
<1> SUFFICES ASSUME CallInv, TransportFails PROVE CallInv'
    OBVIOUS
<1>1. call' = [stage |-> "done", attempt |-> call.attempt, feedback |-> call.feedback,
               prompts |-> call.prompts, refused |-> call.refused,
               request |-> call.request, signal |-> "failed", steps |-> call.steps]
    BY DEF TransportFails, CallInv, CallShape
<1>2. QED
    BY <1>1 DEF CallInv, CallShape, RetryDiscipline

LEMMA AnswerInv == ASSUME CallInv, NEW reply, AnswerArrives(reply) PROVE CallInv'
<1> DEFINE error == ParseError(call.request, reply)
           bound == BindPlan(call.request, reply)
           refused == Append(call.refused, error)
<1>1. call.stage = "waiting"
    BY DEF AnswerArrives
<1>2. CASE error = "none"
  <2>1. call' = [stage |-> "done", attempt |-> call.attempt, feedback |-> call.feedback,
                 prompts |-> call.prompts, refused |-> call.refused,
                 request |-> call.request, signal |-> bound.signal, steps |-> bound.steps]
      BY <1>2 DEF AnswerArrives, CallInv, CallShape
  <2>2. QED
      BY <1>1, <2>1 DEF CallInv, CallShape, RetryDiscipline
<1>3. CASE error # "none"
  <2>1. error \in Errors
      BY <1>3 DEF ParseError, Errors
  <2>2. /\ refused \in Seq(Errors)
        /\ Len(refused) = Len(call.refused) + 1
        /\ \A i \in 1..Len(call.refused) : refused[i] = call.refused[i]
        /\ refused[Len(refused)] = error
        /\ refused # <<>>
      BY <2>1 DEF CallInv
  <2>3. \A i \in DOMAIN call.prompts :
            call.prompts[i].feedback = IF i = 1 THEN "none" ELSE refused[i - 1]
    <3>1. /\ Len(call.prompts) \in Nat /\ DOMAIN call.prompts = 1..Len(call.prompts)
          /\ Len(call.refused) = Len(call.prompts) - 1
        BY <1>1 DEF CallInv
    <3>2. \A i \in DOMAIN call.prompts :
              call.prompts[i].feedback = IF i = 1 THEN "none" ELSE call.refused[i - 1]
        BY DEF CallInv, RetryDiscipline
    <3> HIDE DEF refused
    <3>3. ASSUME NEW i \in DOMAIN call.prompts
          PROVE  call.prompts[i].feedback = IF i = 1 THEN "none" ELSE refused[i - 1]
      <4>1. CASE i = 1
          BY <3>2, <4>1
      <4>2. CASE i # 1
        <5>1. i - 1 \in 1..Len(call.refused)
            BY <3>1, <4>2
        <5>2. call.prompts[i].feedback = call.refused[i - 1]
            BY <3>2, <4>2
        <5>3. QED
            BY <2>2, <4>2, <5>1, <5>2
      <4>3. QED
          BY <4>1, <4>2
    <3>4. QED
        BY <3>3
  <2>4. CASE call.attempt <= MaxRetries
    <3>1. call' = [stage |-> "prompting", attempt |-> call.attempt + 1, feedback |-> error,
                   prompts |-> call.prompts, refused |-> refused,
                   request |-> call.request, signal |-> call.signal, steps |-> call.steps]
        BY <1>3, <2>4 DEF AnswerArrives, Correct, CallInv, CallShape
    <3>2. QED
        BY <1>1, <2>1, <2>2, <2>3, <2>4, <3>1, RetriesAssumption
        DEF CallInv, CallShape, RetryDiscipline, LastRefusal
  <2>5. CASE ~(call.attempt <= MaxRetries)
    <3>1. call' = [stage |-> "done", attempt |-> call.attempt, feedback |-> call.feedback,
                   prompts |-> call.prompts, refused |-> refused,
                   request |-> call.request, signal |-> "failed", steps |-> call.steps]
        BY <1>3, <2>5 DEF AnswerArrives, CallInv, CallShape
    <3>2. QED
        BY <1>1, <2>2, <2>3, <3>1 DEF CallInv, CallShape, RetryDiscipline
  <2>6. QED
      BY <2>4, <2>5
<1>4. QED
    BY <1>2, <1>3

LEMMA CallUnchanged ==
    ASSUME [Next]_vars, ~Plan, \A request : ~StartCall(request)
    PROVE  call' = call
BY DEF Next, vars, Look, Settle, ScreenChanges, ResolverAnswers, BackendAnswers, PlannerAnswers,
       AskForPlan, TakePlan

LEMMA CallStepInv == CallInv /\ [Next]_vars => CallInv'
<1> SUFFICES ASSUME CallInv, [Next]_vars PROVE CallInv'
    OBVIOUS
<1>1. CASE Plan
  <2>1. Prompt \/ TransportFails \/ \E reply \in Replies : AnswerArrives(reply)
      BY <1>1 DEF Plan, CallStep
  <2>2. QED
      BY <2>1, PromptInv, FailureInv, AnswerInv
<1>2. CASE \E request : StartCall(request)
    BY <1>2, StartInv
<1>3. CASE ~Plan /\ \A request : ~StartCall(request)
  <2>1. call' = call
      BY <1>3, CallUnchanged
  <2>2. QED
      BY <2>1 DEF CallInv, CallShape, RetryDiscipline, LastRefusal
<1>4. QED
    BY <1>1, <1>2, <1>3

(* RetryDiscipline of every call, for any number of retries and any replies. *)
THEOREM DisciplinedRetries == Spec => []RetryDiscipline
<1>1. CallInv => RetryDiscipline
    BY DEF CallInv
<1>2. QED
    BY <1>1, CallInit, CallStepInv, PTL DEF Spec

----------------------------------------------------------------------------
(* The plans. *)

(* A request whose signal is available lists candidates, and complete ones. *)
LEMMA AvailableRequest ==
    ASSUME NEW v, NEW evidence, PlanRequest(v, evidence).signal = "available"
    PROVE  /\ PlanRequest(v, evidence).summary # {}
           /\ \A e \in PlanRequest(v, evidence).summary : e.complete
BY DEF PlanRequest

PlanInv ==
    /\ call.request.signal = "available" =>
          call.request.summary # {} /\ \A e \in call.request.summary : e.complete
    /\ StepsWithinSummary

(* A plan that binds as available names listed candidates in every step.    *)
LEMMA AvailablePlan ==
    ASSUME NEW request, NEW reply, BindPlan(request, reply).signal = "available",
           request.summary # {}, \A e \in request.summary : e.complete,
           NEW i \in DOMAIN BindPlan(request, reply).steps
    PROVE  LET allowed == BindPlan(request, reply).steps[i].constraint.allowed IN
           /\ allowed # {}
           /\ \A id \in allowed : \E e \in request.summary : e.id = id /\ e.complete
<1> DEFINE subgoal == reply.subgoals[i]
<1>1. /\ \A j \in DOMAIN reply.subgoals : SubgoalBinds(request, reply.subgoals[j])
      /\ BindPlan(request, reply).steps =
             [j \in DOMAIN reply.subgoals |-> Step(request, reply.subgoals[j])]
    BY DEF BindPlan
<1>2. /\ SubgoalBinds(request, subgoal)
      /\ BindPlan(request, reply).steps[i].constraint = Constraint(request, subgoal)
    BY <1>1 DEF Step
<1>3. CASE subgoal.id # NoOne
  <2>1. /\ Constraint(request, subgoal).allowed = {subgoal.id}
        /\ Listed(request, subgoal.id)
      BY <1>2, <1>3 DEF Constraint, SubgoalBinds
  <2>2. QED
      BY <1>2, <2>1 DEF Listed
<1>4. CASE subgoal.id = NoOne
  <2>1. Constraint(request, subgoal).allowed = {e.id : e \in request.summary}
      BY <1>4 DEF Constraint
  <2>2. QED
      BY <1>2, <2>1
<1>5. QED
    BY <1>3, <1>4

LEMMA PlanSignalOfRequest ==
    ASSUME NEW request, NEW reply, BindPlan(request, reply).signal = "available"
    PROVE  request.signal = "available"
BY DEF BindPlan, PlanSignal

LEMMA PlanStepInv == CallInv /\ PlanInv /\ [Next]_vars => PlanInv'
<1> SUFFICES ASSUME CallInv, PlanInv, [Next]_vars PROVE PlanInv'
    OBVIOUS
<1>1. CASE Plan
  <2>1. CASE Prompt \/ TransportFails
      BY <2>1 DEF Prompt, TransportFails, CallInv, CallShape, PlanInv, StepsWithinSummary
  <2>2. ASSUME NEW reply \in Replies, AnswerArrives(reply) PROVE PlanInv'
    <3>1. call'.request = call.request
        BY <2>2 DEF AnswerArrives, Correct, CallInv, CallShape
    <3>2. ASSUME call'.stage = "done", call'.signal = "available"
          PROVE  /\ BindPlan(call.request, reply).signal = "available"
                 /\ call'.steps = BindPlan(call.request, reply).steps
        BY <2>2, <3>2 DEF AnswerArrives, Correct, CallInv, CallShape
    <3>3. StepsWithinSummary'
        BY <3>1, <3>2, AvailablePlan, PlanSignalOfRequest DEF StepsWithinSummary, PlanInv
    <3>4. QED
        BY <3>1, <3>3 DEF PlanInv
  <2>3. QED
      BY <1>1, <2>1, <2>2 DEF Plan, CallStep
<1>2. CASE AskForPlan /\ call' # call
  <2>1. call' = [Idle EXCEPT !.stage = "prompting", !.attempt = 1,
                             !.request = PlanRequest(view, EvidenceSignal(binding, resolver, planner))]
      BY <1>2 DEF AskForPlan, StartCall
  <2>2. /\ call'.stage = "prompting"
        /\ call'.request = PlanRequest(view, EvidenceSignal(binding, resolver, planner))
      BY <2>1 DEF Idle
  <2>3. QED
      BY <2>2, AvailableRequest DEF PlanInv, StepsWithinSummary
<1>3. CASE call' = call
    BY <1>3 DEF PlanInv, StepsWithinSummary
<1>4. QED
    BY <1>1, <1>2, <1>3
    DEF Next, vars, Look, Settle, ScreenChanges, ResolverAnswers, BackendAnswers, PlannerAnswers,
        TakePlan

(* StepsWithinSummary of every call: a plan that is taken acts only on      *)
(* complete candidates of the request it answers.                           *)
THEOREM PlansWithinSummary == Spec => []StepsWithinSummary
<1>1. Init => PlanInv
    BY DEF Init, Idle, PlanInv, StepsWithinSummary
<1>2. PlanInv => StepsWithinSummary
    BY DEF PlanInv
<1>3. QED
    BY <1>1, <1>2, CallInit, CallStepInv, PlanStepInv, PTL DEF Spec

----------------------------------------------------------------------------
(* A look has only so many steps to take.                                  *)

Without(response) == IF Present(response) THEN 0 ELSE 1
SourcesLeft == Without(resolver) + Without(planner)

(* What a call may still do: a prompt and an answer for each attempt left. *)
CallLeft ==
    CASE call.stage = "prompting" -> 2 * (MaxRetries + 1 - call.attempt) + 2
      [] call.stage = "waiting" -> 2 * (MaxRetries + 1 - call.attempt) + 1
      [] OTHER -> 0

(* What a look may still do: decide, ask each source that has not answered, *)
(* and make one call for a plan.                                            *)
LookLeft ==
    IF stage = "planning" THEN CallLeft
    ELSE 2 * MaxRetries + 3 + 2 * SourcesLeft + (IF stage = "decide" THEN 1 ELSE 0)

Looking == {"decide", "resolver", "planner", "planning"}
LookState == <<stage, view, binding, resolver, planner, call>>

LooksRunDown ==
    [][(stage \in Looking) =>
          /\ LookLeft \in 0..(2 * MaxRetries + 8)
          /\ \/ UNCHANGED LookState
             \/ stage' \notin Looking
             \/ LookLeft' < LookLeft]_vars

(* A source is asked only while it has not answered.                       *)
AskedOnce ==
    /\ stage = "resolver" => ~Present(resolver)
    /\ stage = "planner" => ~Present(planner)

LEMMA RecommendedIsAbsent ==
    ASSUME NEW b, NEW r, NEW p
    PROVE  /\ RecoveryPlan(Evaluate(b, r, p)) = "escalate_local" => ~Present(r)
           /\ RecoveryPlan(Evaluate(b, r, p)) = "escalate_cloud" => ~Present(p)
<1> DEFINE d == Evaluate(b, r, p).disposition
<1>1. d = Disposition(b, r, p, Conflicts(b, r, p))
    BY DEF Evaluate
<1>2. /\ d = "local_resolver_recommended" => ~Present(r)
      /\ d = "cloud_planner_recommended" => ~Present(p)
    BY <1>1 DEF Disposition, LocalPath, PlannerPath
<1> HIDE DEF d
<1>3. /\ RecoveryPlan(Evaluate(b, r, p)) = "escalate_local" => d = "local_resolver_recommended"
      /\ RecoveryPlan(Evaluate(b, r, p)) = "escalate_cloud" => d = "cloud_planner_recommended"
    BY DEF RecoveryPlan, d
<1>4. QED
    BY <1>2, <1>3

LEMMA BoundIsPresent ==
    ASSUME NEW contract
    PROVE  Present(BindResolver(contract, view)) /\ Present(BindPlanner(contract, view))
BY DEF Present, BindResolver, BindPlanner, Failed, NoResponse, BoundSignal, Merge

(* The steps a look consists of.                                           *)
Decides ==
    /\ stage = "decide"
    /\ \/ stage' \notin Looking
       \/ stage' = "resolver" /\ ~Present(resolver)
       \/ stage' = "planner" /\ ~Present(planner)
    /\ UNCHANGED <<resolver, planner, call>>

Answered ==
    /\ stage \in {"resolver", "planner"}
    /\ \/ stage' = "look"
       \/ /\ stage' = "decide"
          /\ \/ stage = "resolver" /\ Present(resolver') /\ planner' = planner
             \/ stage = "planner" /\ Present(planner') /\ resolver' = resolver
    /\ UNCHANGED call

Calls ==
    /\ stage = "planner" /\ stage' = "planning"
    /\ call'.stage = "prompting" /\ call'.attempt = 1

CallsOn ==
    /\ stage = "planning" /\ stage' = "planning"
    /\ \/ /\ call.stage = "prompting" /\ call'.stage = "waiting"
          /\ call'.attempt = call.attempt
       \/ /\ call.stage = "waiting" /\ call'.stage = "prompting"
          /\ call'.attempt = call.attempt + 1
       \/ call.stage = "waiting" /\ call'.stage = "done"

LEMMA CallStepClass ==
    ASSUME CallInv, Plan
    PROVE  CallsOn
<1>1. /\ call = [stage |-> call.stage, attempt |-> call.attempt, feedback |-> call.feedback,
                 prompts |-> call.prompts, refused |-> call.refused, request |-> call.request,
                 signal |-> call.signal, steps |-> call.steps]
      /\ stage = "planning" /\ stage' = "planning"
    BY DEF CallInv, CallShape, Plan, sessionVars
<1>2. CASE Prompt
    BY <1>1, <1>2 DEF Prompt, CallsOn
<1>3. CASE TransportFails
    BY <1>1, <1>3 DEF TransportFails, CallsOn
<1>4. ASSUME NEW reply, AnswerArrives(reply) PROVE CallsOn
    BY <1>1, <1>4 DEF AnswerArrives, Correct, CallsOn
<1>5. QED
    BY <1>2, <1>3, <1>4 DEF Plan, CallStep

LEMMA LookClass ==
    ASSUME CallInv, [Next]_vars, stage \in Looking
    PROVE  \/ UNCHANGED LookState
           \/ stage' \notin Looking /\ stage' \notin {"resolver", "planner"}
           \/ Decides \/ Answered \/ Calls \/ CallsOn
<1>1. CASE ScreenChanges \/ UNCHANGED vars
    BY <1>1 DEF ScreenChanges, vars, sessionVars, LookState
<1>2. CASE Settle
  <2> DEFINE plan == RecoveryPlan(Evaluate(binding, resolver, planner))
  <2>1. /\ stage = "decide" /\ UNCHANGED <<resolver, planner, call>>
        /\ stage' = CASE plan = "no_recovery_needed" -> "settled"
                      [] plan = "escalate_local" -> "resolver"
                      [] plan = "escalate_cloud" -> "planner"
                      [] plan = "await_user_confirmation" -> "confirm"
                      [] plan = "retry" -> "look"
                      [] OTHER -> "blocked"
      BY <1>2 DEF Settle
  <2>2. /\ plan = "escalate_local" => ~Present(resolver)
        /\ plan = "escalate_cloud" => ~Present(planner)
      BY RecommendedIsAbsent
  <2> HIDE DEF plan
  <2>3. QED
      BY <2>1, <2>2 DEF Decides, Looking
<1>3. ASSUME NEW contract, ReceiveResolver(contract), stage = "resolver",
             UNCHANGED <<planner, call>>
      PROVE  Answered
    BY <1>3, BoundIsPresent DEF ReceiveResolver, Answered
<1>4. CASE ResolverAnswers
    BY <1>3, <1>4 DEF ResolverAnswers
<1>5. CASE BackendAnswers
    BY <1>3, <1>5 DEF BackendAnswers, Answered
<1>6. CASE PlannerAnswers
    BY <1>6, BoundIsPresent DEF PlannerAnswers, Answered
<1>7. CASE AskForPlan
  <2>1. CASE PlanRequestRefused(screen, view)
      BY <1>7, <2>1 DEF AskForPlan, Answered
  <2>2. CASE ~PlanRequestRefused(screen, view)
    <3>1. PICK request : StartCall(request)
        BY <1>7, <2>2 DEF AskForPlan
    <3>2. call'.stage = "prompting" /\ call'.attempt = 1
        BY <3>1 DEF StartCall, Idle
    <3>3. QED
        BY <1>7, <2>2, <3>2 DEF AskForPlan, Calls
  <2>3. QED
      BY <2>1, <2>2
<1>8. CASE Plan
    BY <1>8, CallStepClass
<1>9. CASE TakePlan
    BY <1>9 DEF TakePlan, Looking
<1>10. CASE Look
    BY <1>10 DEF Look, Looking
<1>11. QED
    BY <1>1, <1>2, <1>4, <1>5, <1>6, <1>7, <1>8, <1>9, <1>10 DEF Next

LEMMA AskedStep == CallInv /\ AskedOnce /\ [Next]_vars => AskedOnce'
<1> SUFFICES ASSUME CallInv, AskedOnce, [Next]_vars PROVE AskedOnce'
    OBVIOUS
<1>1. CASE stage \notin Looking
  <2>1. UNCHANGED stage \/ stage' = "decide"
      BY <1>1 DEF Next, Look, Settle, ScreenChanges, ResolverAnswers, BackendAnswers,
                  PlannerAnswers, AskForPlan, Plan, TakePlan, vars, sessionVars, Looking
  <2>2. QED
      BY <1>1, <2>1 DEF AskedOnce, Looking
<1>2. CASE stage \in Looking
  <2>1. CASE UNCHANGED LookState
      BY <2>1 DEF LookState, AskedOnce, Present
  <2>2. CASE Decides
      BY <2>2 DEF Decides, AskedOnce, Present, Looking
  <2>3. QED
      BY <1>2, <2>1, <2>2, LookClass DEF Answered, Calls, CallsOn, AskedOnce
<1>3. QED
    BY <1>1, <1>2

(* Whatever the sources answer and however the screen changes, a look takes *)
(* at most 2 * max_correction_retries + 8 steps before the one that ends    *)
(* it: the engine recommends no source that has answered, and the planner's *)
(* client does not correct for ever.  (evaluate,                            *)
(* plan_from_escalation_decision, plan_request)                             *)
THEOREM LooksRunOut == Spec => LooksRunDown
<1>1. ASSUME CallInv, AskedOnce, [Next]_vars, stage \in Looking
      PROVE  /\ LookLeft \in 0..(2 * MaxRetries + 8)
             /\ UNCHANGED LookState \/ stage' \notin Looking \/ LookLeft' < LookLeft
  <2>1. /\ MaxRetries \in Nat /\ call.attempt \in 0..(MaxRetries + 1)
        /\ call'.attempt \in 0..(MaxRetries + 1)
      BY <1>1, CallStepInv, RetriesAssumption DEF CallInv
  <2>2. CallLeft \in 0..(2 * MaxRetries + 4) /\ SourcesLeft \in 0..2
      BY <2>1 DEF CallLeft, SourcesLeft, Without
  <2>3. LookLeft \in 0..(2 * MaxRetries + 8)
    <3> HIDE DEF CallLeft, SourcesLeft
    <3>1. QED
        BY <2>1, <2>2 DEF LookLeft
  <2>4. CASE Decides
      BY <2>1, <2>2, <2>4 DEF Decides, LookLeft, SourcesLeft, Without, Present, Looking
  <2>5. CASE Answered
      BY <1>1, <2>1, <2>5 DEF Answered, LookLeft, SourcesLeft, Without, AskedOnce, Looking
  <2>6. CASE Calls
    <3>1. CallLeft' = 2 * MaxRetries + 2
        BY <2>1, <2>6 DEF Calls, CallLeft
    <3>2. LookLeft' = 2 * MaxRetries + 2 /\ LookLeft = 2 * MaxRetries + 3 + 2 * SourcesLeft + 0
        BY <2>6, <3>1 DEF Calls, LookLeft
    <3>3. QED
        BY <2>1, <2>2, <3>2
  <2>7. CASE CallsOn
    <3>1. CallLeft' < CallLeft
        BY <2>1, <2>7 DEF CallsOn, CallLeft
    <3>2. stage = "planning" /\ stage' = "planning"
        BY <2>7 DEF CallsOn
    <3>3. LookLeft' = CallLeft' /\ LookLeft = CallLeft
        BY <3>2 DEF LookLeft
    <3>4. QED
        BY <2>3, <3>1, <3>3
  <2>8. QED
      BY <1>1, <2>3, <2>4, <2>5, <2>6, <2>7, LookClass
<1>2. Init => AskedOnce
    BY DEF Init, AskedOnce
<1>3. CallInv /\ AskedOnce /\ [Next]_vars
      => [(stage \in Looking) =>
             /\ LookLeft \in 0..(2 * MaxRetries + 8)
             /\ \/ UNCHANGED LookState
                \/ stage' \notin Looking
                \/ LookLeft' < LookLeft]_vars
    BY <1>1
<1>4. QED
    BY <1>2, <1>3, CallInit, CallStepInv, AskedStep, PTL DEF Spec, LooksRunDown

----------------------------------------------------------------------------
(* The metadata backend: the order of the shortlist.                       *)

(* A set of natural numbers has a least one: induction, in the form of the *)
(* library's theorem on finite sets ordered by inclusion.                  *)
LEMMA LeastNumber ==
    ASSUME NEW S, S \subseteq Nat, S # {}
    PROVE  \E m \in S : \A n \in S : m <= n
<1> DEFINE Initial == {1..n : n \in S}
<1>1. Initial \subseteq FiniteSubsetsOf(Nat) /\ Initial # {}
  <2>1. ASSUME NEW n \in S PROVE 1..n \in FiniteSubsetsOf(Nat)
    <3>1. IsFiniteSet(1..n)
        BY FS_Interval
    <3>2. QED
        BY <3>1 DEF FiniteSubsetsOf
  <2>2. QED
      BY <2>1
<1>2. PICK u \in Initial : \A v \in Initial : ~ (<<v, u>> \in StrictSubsetOrdering(Nat))
  <2> HIDE DEF Initial
  <2>1. QED
      BY <1>1, FS_StrictSubsetOrderingWellFounded, WFMin
<1>3. PICK m \in S : u = 1..m
    OBVIOUS
<1>4. ASSUME NEW n \in S, n < m PROVE FALSE
  <2>1. 1..n \subseteq 1..m /\ m \in 1..m /\ m \notin 1..n
      BY <1>4
  <2>2. <<1..n, u>> \in StrictSubsetOrdering(Nat)
      BY <1>3, <2>1 DEF StrictSubsetOrdering
  <2>3. QED
      BY <1>2, <2>2
<1>5. QED
    BY <1>4

(* What an entry scores apart from its place in the shortlist. *)
Base(entry) == IF entry.score = Missing THEN 0 ELSE entry.score
Unready(entry) ==
    CASE Readiness(entry.binding, entry.complete) = "partial" -> PartialPenalty
      [] Readiness(entry.binding, entry.complete) = "conflicted" -> ConflictedPenalty
      [] OTHER -> 0
Sight(entry) == IF entry.visible THEN VisibleBonus ELSE -HiddenPenalty

Merit(entry) ==
    Base(entry) - Unready(entry) + Sight(entry) - RiskPenalty[entry.binding.risk]

IntParts(entry) ==
    /\ Base(entry) \in Int /\ Unready(entry) \in Int /\ Sight(entry) \in Int
    /\ RiskPenalty[entry.binding.risk] \in Int

CandidatesShown == view.candidates \in Seq(Candidate)

(* A view as a look leaves it: at most five candidates of the program.     *)
ViewOK == CandidatesShown /\ Len(view.candidates) <= DecisiveMargin

Choose(ids) == Request(view, ids, "choose_candidate", {})

(* The places at which a candidate may be listed, and what it scores there. *)
Scored(id, place) == Clamp(Merit(Entry(view, id)) - (place - 1))

LEMMA ShownFound ==
    ASSUME CandidatesShown, NEW id, Shown(view, id)
    PROVE  /\ Find(view, id) \in Candidate /\ Find(view, id).id = id
           /\ IntParts(Entry(view, id)) /\ Merit(Entry(view, id)) \in Int
           /\ Entry(view, id).binding.id = id
<1>1. Find(view, id) \in {view.candidates[i] : i \in DOMAIN view.candidates}
      /\ Find(view, id).id = id
    BY DEF Shown, Find
<1>2. Find(view, id) \in Candidate
    BY <1>1 DEF CandidatesShown
<1> DEFINE c == Find(view, id)
           e == Entry(view, id)
<1> HIDE DEF c
<1>3. c \in Candidate /\ c.id = id
    BY <1>1, <1>2 DEF c
<1>4. /\ e.binding.id = id /\ e.binding.risk \in {"none", "low", "medium", "high"}
      /\ e.score \in Percent \cup {Missing} /\ e.visible \in BOOLEAN
    BY <1>3 DEF c, Entry, BindExposed, BuildBinding, Candidate
<1> HIDE DEF e
<1>5. RiskPenalty[e.binding.risk] \in Int
    BY <1>4 DEF RiskPenalty
<1>6. Unready(e) \in Int
    BY DEF Unready, Readiness, PartialPenalty, ConflictedPenalty
<1>7. Base(e) \in Int /\ Sight(e) \in Int
    BY <1>4 DEF Base, Sight, Percent, Missing, VisibleBonus, HiddenPenalty
<1>8. IntParts(e) /\ Merit(e) \in Int
    BY <1>5, <1>6, <1>7 DEF IntParts, Merit
<1>9. QED
    BY <1>1, <1>2, <1>4, <1>8 DEF e

LEMMA ClampRange == ASSUME NEW m \in Int PROVE Clamp(m) \in 0..100
BY DEF Clamp

(* The score of an entry is that of its candidate at its place. *)
LEMMA ScoreOfShown ==
    ASSUME CandidatesShown, NEW ids, NEW i \in DOMAIN ids, i \in Int, Shown(view, ids[i])
    PROVE  /\ EntryScore(Choose(ids), i) = Scored(ids[i], i)
           /\ Choose(ids).shortlist[i].binding.id = ids[i]
           /\ Scored(ids[i], i) \in 0..100
<1>1. i \in DOMAIN ids /\ Shown(view, ids[i]) /\ i \in Int
    OBVIOUS
<1>2. /\ Choose(ids).shortlist[i] = Entry(view, ids[i])
      /\ Choose(ids).allowed = {}
    BY <1>1 DEF Choose, Request
<1>3. Merit(Entry(view, ids[i])) \in Int /\ Entry(view, ids[i]).binding.id = ids[i]
    BY <1>1, ShownFound
<1>4. EntryScore(Choose(ids), i) = Clamp(Merit(Entry(view, ids[i])) - RankStep * (i - 1) + 0)
  <2> DEFINE q == Choose(ids)
  <2> HIDE DEF q
  <2> DEFINE e == q.shortlist[i]
             named == IF q.allowed = {} THEN 0
                      ELSE IF e.binding.label \in q.allowed THEN LabelMatchBonus
                      ELSE -LabelMismatchPenalty
  <2>1. EntryScore(q, i) =
          Clamp(Base(e) - Unready(e) + Sight(e) - RiskPenalty[e.binding.risk]
                - RankStep * (i - 1) + named)
      BY DEF EntryScore, Base, Unready, Sight
  <2>2. named = 0 /\ e = Entry(view, ids[i])
      BY <1>2 DEF q
  <2>3. IntParts(e) /\ RankStep * (i - 1) \in Int
      BY <1>1, <2>2, ShownFound DEF RankStep
  <2> HIDE DEF e, named
  <2>4. Base(e) - Unready(e) + Sight(e) - RiskPenalty[e.binding.risk] - RankStep * (i - 1) + named
        = Merit(e) - RankStep * (i - 1) + 0
      BY <2>2, <2>3 DEF IntParts, Merit
  <2>5. QED
      BY <2>1, <2>2, <2>4 DEF q
<1>5. Merit(Entry(view, ids[i])) - RankStep * (i - 1) + 0 = Merit(Entry(view, ids[i])) - (i - 1)
    BY <1>1, <1>3 DEF RankStep
<1>6. Scored(ids[i], i) \in 0..100
  <2>1. Merit(Entry(view, ids[i])) - (i - 1) \in Int
      BY <1>1, <1>3
  <2>2. QED
      BY <2>1, ClampRange DEF Scored
<1>7. QED
    BY <1>1, <1>2, <1>3, <1>4, <1>5, <1>6 DEF Scored

LEMMA ScoreOfPlace ==
    ASSUME ViewOK, NEW ids \in Orders, NEW i \in 1..Len(view.candidates)
    PROVE  /\ EntryScore(Choose(ids), i) = Scored(ids[i], i)
           /\ Choose(ids).shortlist[i].binding.id = ids[i]
           /\ Shown(view, ids[i])
           /\ Scored(ids[i], i) \in 0..100
<1>1. i \in DOMAIN ids /\ Shown(view, ids[i]) /\ i \in Int
    BY DEF Orders, ViewOK, CandidatesShown
<1>2. QED
    BY <1>1, ScoreOfShown DEF ViewOK

(* There is a best entry among any of the entries of a request. *)
LEMMA TopIsBest ==
    ASSUME NEW request, NEW n \in Nat, NEW entries \in SUBSET (1..n), entries # {},
           \A i \in entries : EntryScore(request, i) \in 0..100
    PROVE  /\ Top(request, entries) \in entries
           /\ \A j \in entries :
                 EntryScore(request, j) <= EntryScore(request, Top(request, entries))
<1> DEFINE score == [i \in entries |-> EntryScore(request, i)]
           falls == {100 - score[i] : i \in entries}
<1>1. \A i \in entries : score[i] \in 0..100 /\ i \in Nat
    OBVIOUS
<1>0. \A i \in entries : score[i] = EntryScore(request, i)
    OBVIOUS
<1> HIDE DEF score
<1>2. PICK fall \in falls : \A other \in falls : fall <= other
  <2>1. falls \subseteq Nat /\ falls # {}
    <3>1. ASSUME NEW i \in entries PROVE 100 - score[i] \in Nat
        BY <1>1
    <3>2. QED
        BY <3>1
  <2> HIDE DEF falls
  <2>2. QED
      BY <2>1, LeastNumber
<1> DEFINE best == {i \in entries : 100 - score[i] = fall}
<1>3. PICK i \in best : \A j \in best : i <= j
  <2>1. best \subseteq Nat /\ best # {}
      BY <1>1
  <2> HIDE DEF best
  <2>2. QED
      BY <2>1, LeastNumber
<1>4. ASSUME NEW j \in entries \ {i}
      PROVE  score[i] > score[j] \/ (score[i] = score[j] /\ i < j)
  <2>1. fall <= 100 - score[j] /\ fall = 100 - score[i] /\ i \in entries
      BY <1>2, <1>3
  <2>2. score[j] \in 0..100 /\ score[i] \in 0..100 /\ i \in Nat /\ j \in Nat
      BY <1>1, <2>1
  <2>3. CASE score[j] = score[i]
    <3>1. j \in best
        BY <2>1, <2>3
    <3>2. i <= j
        BY <1>3, <3>1
    <3>3. QED
        BY <2>2, <2>3, <3>2
  <2>4. CASE score[j] # score[i]
    <3> HIDE DEF best, falls
    <3>1. QED
        BY <2>1, <2>2, <2>4, SMTT(30)
  <2>5. QED
      BY <2>3, <2>4
<1>5. i \in entries
    BY <1>3
<1>6. i \in entries /\ \A j \in entries \ {i} : Ahead(request, i, j)
    BY <1>0, <1>4, <1>5 DEF Ahead
<1> HIDE DEF best, falls
<1>7. /\ Top(request, entries) \in entries
      /\ \A j \in entries \ {Top(request, entries)} : Ahead(request, Top(request, entries), j)
    BY <1>6 DEF Top
<1> DEFINE top == Top(request, entries)
<1> HIDE DEF top
<1>8. top \in entries /\ \A j \in entries \ {top} : Ahead(request, top, j)
    BY <1>7 DEF top
<1>9. ASSUME NEW j \in entries PROVE EntryScore(request, j) <= EntryScore(request, top)
  <2>1. EntryScore(request, j) \in 0..100 /\ EntryScore(request, top) \in 0..100
      BY <1>8
  <2>2. CASE j = top
      BY <2>1, <2>2
  <2>3. CASE j # top
      BY <1>8, <2>1, <2>3 DEF Ahead
  <2>4. QED
      BY <2>2, <2>3
<1>10. QED
    BY <1>8, <1>9 DEF top

(* The candidate the backend chooses scores at its place at least the       *)
(* decisive margin more than any other does at its own.                     *)
LEMMA ChosenLeads ==
    ASSUME ViewOK, NEW ids \in Orders, NEW output \in Answers(Choose(ids)),
           output.id # NoOne
    PROVE  \E i \in 1..Len(view.candidates) :
              /\ output.id = ids[i]
              /\ \A j \in 1..Len(view.candidates) :
                    j # i => Scored(ids[i], i) - Scored(ids[j], j) >= DecisiveMargin
<1> DEFINE n == Len(view.candidates)
           request == Choose(ids)
           matching == Matching(request)
           top == Top(request, matching)
           others == matching \ {top}
           second == Top(request, others)
           margin == EntryScore(request, top) - EntryScore(request, second)
<1>1. n \in Nat /\ ids \in [1..n -> CandidateIds]
    BY DEF ViewOK, CandidatesShown, Orders
<1>2. matching = 1..n
    BY <1>1 DEF Matching, Choose, Request
<1>3. \A i \in 1..n : /\ EntryScore(request, i) = Scored(ids[i], i)
                      /\ request.shortlist[i].binding.id = ids[i]
                      /\ Scored(ids[i], i) \in 0..100
    BY ScoreOfPlace
<1>4. /\ output.id = request.shortlist[top].binding.id
      /\ matching # {}
      /\ others = {} \/ margin > DecisiveMargin \/ margin = DecisiveMargin
    BY DEF Answers, Output, NeedMoreContext, Unknown
<1>5. top \in 1..n
  <2> HIDE DEF request, matching
  <2>1. QED
      BY <1>1, <1>2, <1>3, <1>4, TopIsBest
<1>6. ASSUME NEW j \in 1..n, j # top
      PROVE  EntryScore(request, top) - EntryScore(request, j) >= DecisiveMargin
  <2>1. j \in others /\ others \in SUBSET (1..n)
      BY <1>2, <1>6
  <2> HIDE DEF request, matching, others
  <2>2. \A i \in 1..n : EntryScore(request, i) \in 0..100
      BY <1>3
  <2>3. second \in others /\ EntryScore(request, j) <= EntryScore(request, second)
      BY <1>1, <2>1, <2>2, TopIsBest
  <2>4. PICK a \in 0..100 : a = EntryScore(request, top)
      BY <1>5, <2>2
  <2>5. PICK b \in 0..100 : b = EntryScore(request, second)
      BY <2>1, <2>2, <2>3
  <2>6. PICK c \in 0..100 : c = EntryScore(request, j)
      BY <1>6, <2>2
  <2>7. a - b > DecisiveMargin \/ a - b = DecisiveMargin
      BY <1>4, <2>1, <2>4, <2>5
  <2>8. a - c >= DecisiveMargin
      BY <2>3, <2>4, <2>5, <2>6, <2>7 DEF DecisiveMargin
  <2>9. QED
      BY <2>4, <2>6, <2>8
<1> HIDE DEF top, request
<1>7. output.id = ids[top]
    BY <1>3, <1>4, <1>5
<1>8. \A j \in 1..n : j # top => Scored(ids[top], top) - Scored(ids[j], j) >= DecisiveMargin
    BY <1>3, <1>5, <1>6
<1>9. QED
    BY <1>5, <1>7, <1>8

(* Moving a candidate in the shortlist moves its score no further. *)
LEMMA PlaceMoves ==
    ASSUME NEW m \in Int, NEW i \in 1..DecisiveMargin, NEW j \in 1..DecisiveMargin
    PROVE  Clamp(m - (i - 1)) - Clamp(m - (j - 1)) < DecisiveMargin
BY DEF Clamp, DecisiveMargin

(* An order lists every candidate that is shown: it lists as many as the    *)
(* view has places, none twice.                                             *)
LEMMA OrderListsAll ==
    ASSUME ViewOK, NEW ids \in Orders, NEW id, Shown(view, id)
    PROVE  \E i \in 1..Len(view.candidates) : ids[i] = id
<1> DEFINE n == Len(view.candidates)
           shown == {view.candidates[i].id : i \in 1..n}
           places == [i \in 1..n |-> view.candidates[i].id]
<1>1. n \in Nat /\ DOMAIN view.candidates = 1..n
    BY DEF ViewOK
<1>2. IsFiniteSet(1..n) /\ Cardinality(1..n) \in Nat
  <2>1. ASSUME NEW m \in Nat PROVE IsFiniteSet(1..m)
      BY FS_Interval
  <2>2. QED
      BY <1>1, <2>1, FS_CardinalityType
<1>3. places \in Surjection(1..n, shown)
    BY DEF Surjection
<1>4. IsFiniteSet(shown) /\ Cardinality(shown) <= Cardinality(1..n)
    BY <1>2, <1>3, FS_Surjection
<1>5. ids \in Injection(1..n, shown)
    BY <1>1 DEF Orders, Shown, Injection, IsInjective
<1> HIDE DEF shown
<1>6. /\ Cardinality(1..n) <= Cardinality(shown)
      /\ Cardinality(1..n) = Cardinality(shown) <=> ids \in Surjection(1..n, shown)
    BY <1>4, <1>5, FS_Injection
<1>7. ids \in Surjection(1..n, shown)
  <2>1. Cardinality(shown) \in Nat
      BY <1>4, FS_CardinalityType
  <2>2. QED
      BY <1>2, <1>4, <1>6, <2>1
<1>8. id \in shown
    BY <1>1 DEF Shown, shown
<1>9. QED
    BY <1>7, <1>8 DEF Surjection

(* Two orders of the shortlist do not choose two candidates. *)
LEMMA OrdersAgree ==
    ASSUME ViewOK, NEW s \in Orders, NEW t \in Orders,
           NEW x \in Answers(Choose(s)), NEW y \in Answers(Choose(t)),
           x.id # NoOne, y.id # NoOne
    PROVE  x.id = y.id
<1> SUFFICES ASSUME x.id # y.id PROVE FALSE
    OBVIOUS
<1> DEFINE n == Len(view.candidates)
<1>1. PICK i \in 1..n :
         /\ x.id = s[i]
         /\ \A j \in 1..n : j # i => Scored(s[i], i) - Scored(s[j], j) >= DecisiveMargin
    BY ChosenLeads
<1>2. PICK k \in 1..n :
         /\ y.id = t[k]
         /\ \A j \in 1..n : j # k => Scored(t[k], k) - Scored(t[j], j) >= DecisiveMargin
    BY ChosenLeads
<1>3. Shown(view, x.id) /\ Shown(view, y.id)
    BY <1>1, <1>2, ScoreOfPlace
<1>4. PICK j \in 1..n : s[j] = y.id
    BY <1>3, OrderListsAll
<1>5. PICK l \in 1..n : t[l] = x.id
    BY <1>3, OrderListsAll
<1> DEFINE a == Merit(Entry(view, x.id))
           b == Merit(Entry(view, y.id))
<1>6. a \in Int /\ b \in Int
    BY <1>3, ShownFound DEF ViewOK
<1>7. {i, j, k, l} \subseteq 1..DecisiveMargin
    BY DEF ViewOK, DecisiveMargin
<1>8. Scored(x.id, i) - Scored(y.id, j) >= DecisiveMargin
    BY <1>1, <1>4
<1>9. Scored(y.id, k) - Scored(x.id, l) >= DecisiveMargin
    BY <1>2, <1>5
<1> HIDE DEF a, b
<1>10. /\ Clamp(a - (i - 1)) - Clamp(b - (j - 1)) >= DecisiveMargin
       /\ Clamp(b - (k - 1)) - Clamp(a - (l - 1)) >= DecisiveMargin
    BY <1>8, <1>9 DEF Scored, a, b
<1>11. /\ Clamp(a - (i - 1)) - Clamp(a - (l - 1)) < DecisiveMargin
       /\ Clamp(b - (k - 1)) - Clamp(b - (j - 1)) < DecisiveMargin
    BY <1>6, <1>7, PlaceMoves
<1>12. /\ Clamp(a - (i - 1)) \in Int /\ Clamp(a - (l - 1)) \in Int
       /\ Clamp(b - (k - 1)) \in Int /\ Clamp(b - (j - 1)) \in Int
    BY <1>6, <1>7 DEF Clamp, DecisiveMargin
<1>13. QED
    BY <1>10, <1>11, <1>12 DEF DecisiveMargin

(* Screens that show no more candidates than the margin is worth of ranks.  *)
FewShown ==
    \A s \in Screens : Cardinality({c \in s : c.exposed}) <= DecisiveMargin

ScreenOK == screen.candidates \in Screens /\ ViewOK

(* What a look leaves in the view. *)
LEMMA LookShows ==
    ASSUME screen.candidates \in Screens, Look
    PROVE  /\ CandidatesShown'
           /\ Len(view'.candidates) = Cardinality({c \in screen.candidates : c.exposed})
           /\ Len(view'.candidates) \in Nat
           /\ view'.frame = screen.frame /\ view'.signal \in ViewSignals
<1> DEFINE shown == {c \in screen.candidates : c.exposed}
           n == Cardinality(shown)
<1>1. view' \in Exposure(screen.candidates)
    BY DEF Look
<1>2. PICK ranking \in Rankings(shown), s \in ViewSignals :
          view' = [frame |-> screen.frame, candidates |-> ranking, signal |-> s]
    BY <1>1 DEF Exposure
<1>3. /\ IsFiniteSet(shown) /\ shown \subseteq Candidate
    BY ScreensAssumption, FS_Subset
<1>4. n \in Nat
    BY <1>3, FS_CardinalityType
<1>5. ranking \in [1..n -> shown]
    BY DEF Rankings
<1> HIDE DEF shown, n
<1>6. ranking \in Seq(Candidate) /\ Len(ranking) = n
    BY <1>3, <1>4, <1>5
<1>7. /\ view'.candidates = ranking /\ view'.frame = screen.frame
      /\ view'.signal \in ViewSignals
    BY <1>2
<1>8. QED
    BY <1>4, <1>6, <1>7 DEF CandidatesShown, n, shown

LEMMA ScreenInit == Init => ScreenOK
BY DEF Init, ScreenOK, ViewOK, CandidatesShown, NoView, DecisiveMargin

LEMMA ScreenStep == ASSUME FewShown, ScreenOK, [Next]_vars PROVE ScreenOK'
<1> USE DEF ScreenOK
<1>1. CASE Look
  <2>1. screen' = screen
      BY <1>1 DEF Look
  <2>2. QED
      BY <1>1, <2>1, LookShows DEF ViewOK, FewShown
<1>2. CASE ScreenChanges
    BY <1>2 DEF ScreenChanges, ViewOK, CandidatesShown
<1>3. CASE Settle
    BY <1>3 DEF Settle, ViewOK, CandidatesShown
<1>4. CASE ResolverAnswers \/ BackendAnswers \/ PlannerAnswers \/ AskForPlan \/ TakePlan
    BY <1>4 DEF ResolverAnswers, BackendAnswers, PlannerAnswers, AskForPlan, TakePlan,
                ViewOK, CandidatesShown
<1>5. CASE Plan
    BY <1>5 DEF Plan, sessionVars, ViewOK, CandidatesShown
<1>6. CASE UNCHANGED vars
    BY <1>6 DEF vars, sessionVars, ViewOK, CandidatesShown
<1>7. QED
    BY <1>1, <1>2, <1>3, <1>4, <1>5, <1>6 DEF Next

(* OrderIrrelevant of every session on screens that show at most five       *)
(* candidates, whatever they score: how the caller orders the shortlist     *)
(* never turns a choice of the backend into another candidate's.            *)
THEOREM OrderDoesNotMatter == FewShown /\ Spec => []OrderIrrelevant
<1> SUFFICES ASSUME FewShown PROVE Spec => []OrderIrrelevant
    OBVIOUS
<1>1. ScreenOK => OrderIrrelevant
  <2> SUFFICES ASSUME ViewOK PROVE OrderIrrelevant
      BY DEF ScreenOK
  <2> DEFINE outputs == UNION {Answers(Choose(ids)) : ids \in Orders}
             chosen == {output.id : output \in outputs} \ {NoOne}
  <2>1. ASSUME NEW a \in chosen, NEW b \in chosen PROVE a = b
      BY OrdersAgree
  <2>2. chosen = {} \/ \E a : chosen = {a}
    <3> HIDE DEF chosen
    <3>1. QED
        BY <2>1
  <2>3. Cardinality(chosen) <= 1
    <3> HIDE DEF chosen
    <3>1. Cardinality({}) = 0 /\ \A a : Cardinality({a}) = 1
        BY FS_EmptySet, FS_Singleton
    <3>2. Cardinality(chosen) \in {0, 1}
        BY <2>2, <3>1
    <3>3. QED
        BY <3>2
  <2>4. QED
      BY <2>3 DEF OrderIrrelevant, Choose
<1>2. ScreenOK /\ [Next]_vars => ScreenOK'
    BY ScreenStep
<1>3. QED
    BY <1>1, <1>2, ScreenInit, PTL DEF Spec

----------------------------------------------------------------------------
(* Types.                                                                  *)

LEMMA BindingTyped ==
    ASSUME NEW c \in Candidate
    PROVE  BindExposed(c) \in Binding /\ BindSemantic(c) \in Binding
<1>1. \A complete \in BOOLEAN : BuildBinding(c, complete) \in Binding
    BY DEF BuildBinding, Binding, Candidate
<1>2. OntologyComplete(c) \in BOOLEAN /\ c.complete \in BOOLEAN
    BY DEF OntologyComplete, Candidate
<1>3. (OntologyComplete(c) /\ c.label # "none" /\ c.complete) \in BOOLEAN
      /\ (OntologyComplete(c) /\ c.label # "none") \in BOOLEAN
    BY <1>2
<1>4. QED
    BY <1>1, <1>3 DEF BindExposed, BindSemantic

NoResponseFields ==
    /\ NoBinding \in Binding /\ NoResponse \in Response /\ Failed \in Response

LEMMA NoResponseTyped == NoResponseFields
<1>1. NoBinding \in Binding
    BY DEF NoBinding, Binding
<1>2. NoResponse \in Response
    BY <1>1 DEF NoResponse, Response
<1>3. Failed \in Response
    BY <1>1 DEF Failed, NoResponse, Response
<1>4. QED
    BY <1>1, <1>2, <1>3 DEF NoResponseFields

(* What a source may say: an answer with a field of another type is refused *)
(* before it is bound.                                                      *)
LEMMA ResolverTyped ==
    ASSUME CandidatesShown, view.signal \in Signals, NEW contract,
           contract.action \in {"candidate_select", "observe_only", "other"},
           contract.target \in {"candidate_center", "candidate_point", "other", "none"},
           contract.confidence \in Percent \cup {Missing}
    PROVE  BindResolver(contract, view) \in Response
<1> DEFINE refused == \/ contract.action = "other" \/ ~Shown(view, contract.id)
                      \/ contract.target \in {"other", "none"} \/ contract.confidence = Missing
           b == BindExposed(Find(view, contract.id))
<1>1. CASE refused
    BY <1>1, NoResponseTyped DEF BindResolver, NoResponseFields
<1>2. CASE ~refused
  <2>1. b \in Binding
      BY <1>2, ShownFound, BindingTyped
  <2>2. BoundSignal(view, b) \in Signals
      BY DEF BoundSignal, Merge, Signals
  <2>3. BindResolver(contract, view) =
            [signal |-> BoundSignal(view, b), action |-> contract.action,
             binding |-> b, target |-> contract.target,
             confidence |-> contract.confidence, live |-> FALSE]
      BY <1>2 DEF BindResolver
  <2> HIDE DEF b
  <2>4. QED
      BY <1>2, <2>1, <2>2, <2>3 DEF Response
<1>3. QED
    BY <1>1, <1>2

LEMMA PlannerTyped ==
    ASSUME CandidatesShown, view.signal \in Signals, NEW contract \in PlannerContract
    PROVE  BindPlanner(contract, view) \in Response
<1> DEFINE b == BindExposed(Find(view, contract.id))
<1>1. /\ contract.action \in {"candidate_select", "observe_only", "other", "none"}
      /\ contract.target \in {"candidate_center", "candidate_point", "other", "none"}
      /\ contract.confidence \in Percent \cup {Missing} /\ contract.live \in BOOLEAN
    BY DEF PlannerContract
<1>2. CASE contract.action = "none"
    BY <1>2, NoResponseTyped DEF BindPlanner, NoResponseFields, NoResponse, Response, Signals
<1>3. CASE BindPlanner(contract, view) = Failed
    BY <1>3, NoResponseTyped DEF NoResponseFields
<1>4. CASE contract.action = "observe_only" /\ contract.confidence # Missing
    BY <1>1, <1>4, NoResponseTyped
    DEF BindPlanner, NoResponseFields, NoResponse, Response, Signals
<1>5. CASE /\ contract.action = "candidate_select" /\ contract.confidence # Missing
           /\ Shown(view, contract.id) /\ contract.target \notin {"other", "none"}
  <2>1. b \in Binding
      BY <1>5, ShownFound, BindingTyped
  <2>2. BoundSignal(view, b) \in Signals
      BY DEF BoundSignal, Merge, Signals
  <2>3. BindPlanner(contract, view) =
            [signal |-> BoundSignal(view, b), action |-> "candidate_select",
             binding |-> b, target |-> contract.target,
             confidence |-> contract.confidence, live |-> contract.live]
      BY <1>5 DEF BindPlanner
  <2> HIDE DEF b
  <2>4. QED
      BY <1>1, <1>5, <2>1, <2>2, <2>3 DEF Response
<1>6. QED
    BY <1>1, <1>2, <1>3, <1>4, <1>5 DEF BindPlanner

(* The confidence of the backend is the score of an entry of the request.   *)
LEMMA BackendTyped ==
    ASSUME CandidatesShown, ViewIds # <<>>, NEW output \in Answers(Choose(ViewIds))
    PROVE  output.confidence \in Percent \cup {Missing}
<1> DEFINE n == Len(view.candidates)
           request == Choose(ViewIds)
           top == Top(request, Matching(request))
<1>1. n \in Nat /\ n # 0 /\ DOMAIN ViewIds = 1..n /\ DOMAIN view.candidates = 1..n
    BY DEF CandidatesShown, ViewIds
<1>2. Matching(request) = 1..n
    BY <1>1 DEF Matching, Choose, Request
<1>3. ASSUME NEW i \in 1..n PROVE EntryScore(request, i) \in 0..100
  <2>1. i \in DOMAIN ViewIds /\ i \in Int /\ Shown(view, ViewIds[i])
      BY <1>1 DEF Shown, ViewIds
  <2>2. /\ EntryScore(Choose(ViewIds), i) = Scored(ViewIds[i], i)
        /\ Scored(ViewIds[i], i) \in 0..100
      BY <2>1, ScoreOfShown
  <2>3. QED
      BY <2>2
<1> HIDE DEF n, request
<1>4. top \in 1..n
  <2>0. 1 \in 1..n
      BY <1>1
  <2>1. 1..n \in SUBSET (1..n) /\ 1..n # {}
      BY <2>0
  <2>2. Top(request, 1..n) \in 1..n
      BY <1>1, <1>3, <2>1, TopIsBest
  <2>3. QED
      BY <1>2, <2>2
<1>5. EntryScore(request, top) \in Percent
    BY <1>3, <1>4 DEF Percent
<1>6. \/ output.confidence = EntryScore(request, top)
      \/ output.confidence = Missing
    BY DEF request, Answers, Output, NeedMoreContext, Unknown
<1>7. QED
    BY <1>5, <1>6

LEMMA ReceivedTyped ==
    ASSUME CandidatesShown, view.signal \in Signals, resolver \in Response, NEW contract,
           contract.action \in {"candidate_select", "observe_only", "other"},
           contract.target \in {"candidate_center", "candidate_point", "other", "none"},
           contract.confidence \in Percent \cup {Missing}, ReceiveResolver(contract)
    PROVE  resolver' \in Response
BY ResolverTyped DEF ReceiveResolver

LEMMA DecisionTyped ==
    ASSUME NEW b \in Binding, NEW r \in Response, NEW p \in Response
    PROVE  /\ Evaluate(b, r, p).disposition \in Dispositions
           /\ Arbitrate(b, r, p).id \in CandidateIds \cup {NoOne}
<1>1. Disposition(b, r, p, Conflicts(b, r, p)) \in Dispositions
    BY DEF Disposition, LocalPath, PlannerPath, Dispositions
<1>2. /\ b.id \in CandidateIds \cup {NoOne}
      /\ r.binding.id \in CandidateIds \cup {NoOne}
      /\ p.binding.id \in CandidateIds \cup {NoOne}
    BY DEF Binding, Response
<1>3. \A source : SelectedId(source, b, r, p) \in CandidateIds \cup {NoOne}
    BY <1>2 DEF SelectedId
<1>4. QED
    BY <1>1, <1>3 DEF Evaluate, Arbitrate

TypeInv == TypeOK /\ CandidatesShown

LEMMA TypeInit == Init => TypeInv
<1> SUFFICES ASSUME Init PROVE TypeInv
    OBVIOUS
<1>1. /\ view = NoView /\ NoView.frame = 0 /\ NoView.candidates = <<>>
      /\ NoView.signal = "absent"
    BY DEF Init, NoView
<1>2. screen \in [frame : Frames, candidates : Screens] /\ screen.frame = 1
    BY ViewsAssumption DEF Init, Frames
<1>3. CandidatesShown /\ view.signal \in Signals /\ view.frame \in 0..screen.frame
    BY <1>1, <1>2 DEF CandidatesShown, Signals
<1>4. binding \in Binding /\ resolver \in Response /\ planner \in Response
    BY NoResponseTyped DEF Init, NoResponseFields
<1>5. evaluation.disposition \in Dispositions /\ outcome.id \in CandidateIds \cup {NoOne}
    BY DEF Init, NoEvaluation, NoOutcome, Dispositions
<1>6. call.stage \in {"idle", "prompting", "waiting", "done"}
      /\ stage = "look"
    BY DEF Init, Idle
<1>7. QED
    BY <1>2, <1>3, <1>4, <1>5, <1>6 DEF TypeInv, TypeOK

LEMMA TypeStep ==
    ASSUME TypeInv, CallInv, [Next]_vars
    PROVE  TypeInv'
<1> USE DEF TypeInv, TypeOK
<1>0. call'.stage \in {"idle", "prompting", "waiting", "done"}
    BY CallStepInv DEF CallInv
<1>1. CASE Look
  <2>1. /\ CandidatesShown' /\ view'.frame = screen.frame /\ view'.signal \in Signals
        /\ screen' = screen
      BY <1>1, LookShows, ViewsAssumption DEF Look
  <2>2. view'.frame \in 0..screen.frame
      BY <2>1, ViewsAssumption DEF Frames
  <2>3. binding' \in Binding
    <3>1. CASE view'.candidates = <<>>
        BY <1>1, <3>1, NoResponseTyped DEF Look, NoResponseFields
    <3>2. CASE view'.candidates # <<>>
      <4>1. view'.candidates[1] \in Candidate
          BY <2>1, <3>2 DEF CandidatesShown
      <4>2. QED
          BY <1>1, <3>2, <4>1, BindingTyped DEF Look
    <3>3. QED
        BY <3>1, <3>2
  <2>4. resolver' \in Response /\ planner' \in Response
      BY <1>1, NoResponseTyped DEF Look, NoResponseFields
  <2>5. stage' = "decide" /\ UNCHANGED <<evaluation, outcome>>
      BY <1>1 DEF Look
  <2>6. QED
      BY <1>0, <2>1, <2>2, <2>3, <2>4, <2>5
<1>2. CASE Settle
  <2>1. /\ evaluation'.disposition \in Dispositions
        /\ outcome'.id \in CandidateIds \cup {NoOne}
      BY <1>2, DecisionTyped DEF Settle
  <2>2. stage' \in {"settled", "resolver", "planner", "confirm", "look", "blocked"}
      BY <1>2 DEF Settle
  <2>3. UNCHANGED <<screen, view, binding, resolver, planner>>
      BY <1>2 DEF Settle
  <2>4. QED
      BY <1>0, <2>1, <2>2, <2>3 DEF CandidatesShown
<1>3. CASE ScreenChanges
  <2>1. /\ screen' \in [frame : Frames, candidates : Screens]
        /\ view.frame \in 0..screen'.frame
    <3>1. screen.frame \in Nat /\ screen.frame + 1 \in Frames
        BY <1>3, ViewsAssumption DEF ScreenChanges, Frames
    <3>2. PICK s \in Screens : screen' = [frame |-> screen.frame + 1, candidates |-> s]
        BY <1>3 DEF ScreenChanges
    <3>3. QED
        BY <3>1, <3>2
  <2>2. UNCHANGED <<stage, view, binding, resolver, planner, evaluation, outcome, call>>
      BY <1>3 DEF ScreenChanges
  <2>3. QED
      BY <2>1, <2>2 DEF CandidatesShown
<1>4. CASE ResolverAnswers \/ BackendAnswers
  <2>1. resolver' \in Response
    <3>1. ASSUME NEW contract \in ResolverContracts, ReceiveResolver(contract)
          PROVE  resolver' \in Response
      <4>1. contract \in ResolverContract
          BY ContractsAssumption
      <4>2. QED
          BY <3>1, <4>1, ReceivedTyped DEF ResolverContract
    <3>2. ASSUME ViewIds # <<>>, NEW output \in Answers(Choose(ViewIds)),
                 ReceiveResolver(ChoiceContract(output))
          PROVE  resolver' \in Response
      <4>1. output.confidence \in Percent \cup {Missing}
          BY <3>2, BackendTyped
      <4>2. /\ ChoiceContract(output).action = "candidate_select"
            /\ ChoiceContract(output).target = "candidate_center"
            /\ ChoiceContract(output).confidence = output.confidence
          BY DEF ChoiceContract
      <4>3. QED
          BY <3>2, <4>1, <4>2, ReceivedTyped
    <3>3. BackendAnswers => \/ resolver' = resolver
                            \/ /\ ViewIds # <<>>
                               /\ \E output \in Answers(Choose(ViewIds)) :
                                     ReceiveResolver(ChoiceContract(output))
        BY DEF BackendAnswers, RequestRefusal, Choose
    <3>4. QED
        BY <1>4, <3>1, <3>2, <3>3 DEF ResolverAnswers
  <2>2. stage' \in {"look", "decide"}
      BY <1>4 DEF ResolverAnswers, BackendAnswers, ReceiveResolver
  <2>3. UNCHANGED <<screen, view, binding, planner, evaluation, outcome>>
      BY <1>4 DEF ResolverAnswers, BackendAnswers
  <2>4. QED
      BY <1>0, <2>1, <2>2, <2>3 DEF CandidatesShown
<1>5. CASE PlannerAnswers
  <2>1. planner' \in Response
      BY <1>5, ContractsAssumption, PlannerTyped DEF PlannerAnswers
  <2>2. stage' \in {"look", "decide"}
      BY <1>5 DEF PlannerAnswers
  <2>3. UNCHANGED <<screen, view, binding, resolver, evaluation, outcome>>
      BY <1>5 DEF PlannerAnswers
  <2>4. QED
      BY <1>0, <2>1, <2>2, <2>3 DEF CandidatesShown
<1>6. CASE AskForPlan \/ TakePlan
  <2>1. stage' \in {"look", "planning", "settled"}
      BY <1>6 DEF AskForPlan, TakePlan
  <2>2. UNCHANGED <<screen, view, binding, resolver, planner, evaluation, outcome>>
      BY <1>6 DEF AskForPlan, TakePlan
  <2>3. QED
      BY <1>0, <2>1, <2>2 DEF CandidatesShown
<1>7. CASE Plan \/ UNCHANGED vars
  <2>1. UNCHANGED sessionVars
      BY <1>7 DEF Plan, vars
  <2>2. QED
      BY <1>0, <2>1 DEF sessionVars, CandidatesShown
<1>8. QED
    BY <1>1, <1>2, <1>3, <1>4, <1>5, <1>6, <1>7 DEF Next

(* Types of a session, for any screens, contracts and replies: what an AI   *)
(* source answers, the backend's own choice included, is bound to a         *)
(* response with a confidence that is a percent or missing, and no decision *)
(* selects an identifier the program does not know.                         *)
THEOREM TypeCorrect == Spec => []TypeOK
<1>1. TypeInv => TypeOK
    BY DEF TypeInv
<1>2. CallInv /\ TypeInv /\ [Next]_vars => TypeInv'
    BY TypeStep
<1>3. QED
    BY <1>1, <1>2, TypeInit, CallInit, CallStepInv, PTL DEF Spec

=============================================================================
