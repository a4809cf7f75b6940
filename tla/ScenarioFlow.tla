---------------------------- MODULE ScenarioFlow ----------------------------
(***************************************************************************)
(* The two scenario runners: ObserveUnderstandVerifyScenarioRunner         *)
(* (scenarios/loop.py) and ObserveActVerifyScenarioRunner                  *)
(* (scenarios/action_flow.py) with the safe click executor                 *)
(* (actions/safe_click.py) and the policy engine (policy/engine.py).       *)
(*                                                                         *)
(* A runner is one thread.  An operator, on another thread, works the kill *)
(* switch and the pause control between any two of its steps, and the      *)
(* screen is whatever each capture finds it to be.                         *)
(***************************************************************************)
EXTENDS ActionGates, Sequences

CONSTANTS
    Scenarios,      \* the scenario definitions that may be run
    Configs,        \* configurations and capabilities of a run
    Policies,       \* rules and context of the policy engine
    Screens,        \* what a capture may show
    MaxRuns,        \* bound: runs of one runner
    MaxToggles      \* bound: uses of kill switch and pause control

Scenario ==
    [named : BOOLEAN, safe : BOOLEAN, uniqueIds : BOOLEAN, realClick : BOOLEAN,
     steps : Seq(StepDefinition)]

(* live: safe_action_mode with allow_live_input; metrics: the desktop's    *)
(* metrics were given; transport: the executor has a click transport.      *)
Config == [live : BOOLEAN, execute : BOOLEAN, metrics : BOOLEAN, transport : BOOLEAN]

ASSUME ScenariosAssumption == Scenarios \subseteq Scenario
ASSUME ConfigsAssumption == Configs \subseteq Config
ASSUME PoliciesAssumption == Policies \subseteq Policy
ASSUME ScreensAssumption == Screens \subseteq Screen
ASSUME BoundsAssumption == MaxRuns \in Nat /\ MaxToggles \in Nat

VARIABLES
    runner,         \* "act" or "verify": which of the two classes
    policy,         \* the rules of the policy engine
    scenario, config,    \* arguments of run
    pc,             \* where the runner is
    index,          \* the step it is at
    flow,           \* current_state of the step's state machine
    pre, post,      \* snapshots of the step: [no, screen], no = 0 for None
    before,         \* number of active_previous_snapshot, 0 for None
    prev,           \* number of self._previous_snapshot
    disposition,    \* action disposition of the step so far
    verdict,        \* what the policy has said of the step
    stepRuns,       \* records of the steps that returned
    outcome,        \* status of the run, "error" for a failure result
    killed, paused, \* kill switch and pause control
    captures,       \* number of frames captured
    runs, toggles,  \* counters of the bounds
    clicks,         \* history: clicks of this run
    held            \* history: killed or paused ever since the step began

Flow == INSTANCE ScenarioFsm WITH state <- flow

stepVars == <<index, pre, post, before, disposition, verdict>>
runVars  == <<runner, policy, scenario, config>>
operatorVars == <<killed, paused, toggles>>
vars == <<runVars, operatorVars, stepVars, pc, flow, prev, stepRuns, outcome,
          captures, runs, clicks, held>>

NoSnapshot == [no |-> 0, screen |-> <<>>]
Nothing == [named |-> TRUE, safe |-> TRUE, uniqueIds |-> TRUE, realClick |-> FALSE, steps |-> <<>>]

PcStates ==
    {"idle", "step", "capture", "observed", "unmatched", "understood", "selected",
     "built", "safeClick", "killSwitch", "pause", "gates", "clicked", "executed", "verify"}
Dispositions ==
    {"incomplete", "dry_run_only", "blocked", "real_click_eligible", "real_click_executed"}
FinalStages == {"verified", "incomplete", "failed"}

Step == scenario.steps[index]
Status == StepStatus(Step, scenario)

(* The step's intent, dry run included, is a function of its pre-action frame. *)
StepIntent == Intent(Step, pre.screen, Selected(Step, pre.screen))

Init ==
    /\ runner \in {"act", "verify"} /\ policy \in Policies
    /\ scenario = Nothing /\ config \in Configs
    /\ pc = "idle" /\ index = 1 /\ flow = "none"
    /\ pre = NoSnapshot /\ post = NoSnapshot /\ before = 0 /\ prev = 0
    /\ disposition = "incomplete" /\ verdict = "none"
    /\ stepRuns = <<>> /\ outcome = "none"
    /\ killed = FALSE /\ paused = FALSE /\ toggles = 0
    /\ captures = 0 /\ runs = 0 /\ clicks = <<>> /\ held = {}

----------------------------------------------------------------------------
(* Beginning and end of a run and of a step. *)

(* Mutant: the place in the scenario survives from the run before. *)
MutantStartRunKeepsIndex ==
    /\ pc = "idle" /\ runs < MaxRuns
    /\ \E s \in Scenarios, given \in {0, captures} :
        /\ scenario' = s
        /\ before' = IF given # 0 THEN given ELSE prev
    /\ pc' = "step" /\ stepRuns' = <<>> /\ outcome' = "running"
    /\ runs' = runs + 1 /\ clicks' = <<>>
    /\ UNCHANGED <<runner, policy, config, operatorVars, index, pre, post, disposition, verdict,
                   flow, prev, captures, held>>

(* run: given is the snapshot of a caller that passes one. *)
StartRun ==
    /\ pc = "idle" /\ runs < MaxRuns
    /\ \E s \in Scenarios, given \in {0, captures} :
        /\ scenario' = s
        /\ before' = IF given # 0 THEN given ELSE prev
    /\ pc' = "step" /\ index' = 1 /\ stepRuns' = <<>> /\ outcome' = "running"
    /\ runs' = runs + 1 /\ clicks' = <<>>
    /\ UNCHANGED <<runner, policy, config, operatorVars, pre, post, disposition, verdict,
                   flow, prev, captures, held>>

(* A new state machine; the definition of the step decides. *)
BeginStep ==
    /\ pc = "step" /\ index <= Len(scenario.steps)
    /\ flow' = "started" /\ pc' = "capture"
    /\ pre' = NoSnapshot /\ post' = NoSnapshot
    /\ disposition' = "incomplete" /\ verdict' = "none"
    /\ held' = (IF killed THEN {"kill"} ELSE {}) \cup (IF paused THEN {"pause"} ELSE {})
    /\ UNCHANGED <<runVars, operatorVars, index, before, prev, stepRuns, outcome,
                   captures, runs, clicks>>

(* The step returns.  Its latest snapshot is the next one's before.  Pre   *)
(* and post are the snapshots it returns, d its disposition, to its state. *)
EndStep(final, to, d, r, s) ==
    /\ stepRuns' = Append(stepRuns, [step |-> index, final |-> final, flow |-> to, disposition |-> d,
                                     before |-> before, pre |-> r.no, post |-> s.no])
    /\ before' = IF s.no # 0 THEN s.no ELSE IF r.no # 0 THEN r.no ELSE before
    /\ flow' = to /\ index' = index + 1 /\ pc' = "step"
    /\ pre' = NoSnapshot /\ post' = NoSnapshot /\ disposition' = "incomplete" /\ verdict' = "none"
    /\ UNCHANGED <<runVars, operatorVars, prev, outcome, runs, clicks, held>>

(* The step needs recovery. *)
Setback(r, s) == EndStep("incomplete", "recovery_needed", disposition, r, s)

(* The state machine moves on within the step. *)
Advance(from, to, next) ==
    /\ pc = from /\ pc' = next /\ flow' = to
    /\ UNCHANGED <<runVars, operatorVars, index, before, prev, stepRuns, outcome, runs, held>>

(* Mutant: only failed steps count. *)
MutantRunStatusOfFailures ==
    CASE \/ ScenarioStatus(scenario) = "invalid"
         \/ \E k \in DOMAIN stepRuns : stepRuns[k].final = "failed" -> "failed"
      [] stepRuns = <<>> \/ ScenarioStatus(scenario) = "incomplete" -> "incomplete"
      [] OTHER -> "completed"

RunStatus ==
    CASE \/ ScenarioStatus(scenario) = "invalid"
         \/ \E k \in DOMAIN stepRuns : stepRuns[k].final = "failed" -> "failed"
      [] \/ stepRuns = <<>> \/ ScenarioStatus(scenario) = "incomplete"
         \/ \E k \in DOMAIN stepRuns : stepRuns[k].final = "incomplete" -> "incomplete"
      [] OTHER -> "completed"

FinishRun ==
    /\ pc = "step" /\ index > Len(scenario.steps)
    /\ pc' = "idle" /\ outcome' = RunStatus
    /\ prev' = IF before # 0 THEN before ELSE prev
    /\ UNCHANGED <<runVars, operatorVars, stepVars, flow, stepRuns, captures, runs, clicks, held>>

(* An exception of the capture provider, of the pipeline or of the         *)
(* verifier: a failure result without the steps that have returned.        *)
Raise ==
    /\ \/ pc = "capture" /\ Status = "defined"
       \/ pc \in {"observed", "verify"}
    /\ pc' = "idle" /\ outcome' = "error" /\ stepRuns' = <<>>
    /\ UNCHANGED <<runVars, operatorVars, stepVars, flow, prev, captures, runs, clicks, held>>

----------------------------------------------------------------------------
(* Observing and understanding, before the action and again after it. *)

Acted == pre.no # 0
Invalid == pc = "capture" /\ Status = "invalid" /\ EndStep("failed", "aborted", disposition, pre, post)
                          /\ UNCHANGED captures
Incomplete == pc = "capture" /\ Status = "incomplete" /\ Setback(pre, post) /\ UNCHANGED captures

Capture ==
    /\ Advance("capture", "observed", "observed") /\ Status = "defined"
    /\ captures' = captures + 1
    /\ UNCHANGED <<pre, post, disposition, verdict, clicks>>

CaptureFails ==
    /\ pc = "capture" /\ Status = "defined" /\ Setback(pre, post) /\ UNCHANGED captures

(* A stage of _understand_step fails, with or without a snapshot so far. *)
UnderstandFails ==
    /\ pc = "observed" /\ UNCHANGED captures
    /\ \E no \in {0, captures} :
        LET partial == [no |-> no, screen |-> <<>>] IN
        IF Acted THEN Setback(pre, partial) ELSE Setback(partial, post)

Understand ==
    /\ pc = "observed"
    /\ \E screen \in Screens :
        LET snapshot == [no |-> captures, screen |-> screen]
            found == Matched(Step, screen) # {}
        IN  /\ Advance("observed", "understood",
                       IF ~found THEN "unmatched"
                       ELSE IF Acted \/ runner = "verify" THEN "verify" ELSE "understood")
            /\ IF Acted THEN post' = snapshot /\ UNCHANGED pre
                        ELSE pre' = snapshot /\ UNCHANGED post
            /\ UNCHANGED <<disposition, verdict, captures, clicks>>

(* No exposed candidate fits the step: the view exists, the step does not go on. *)
Unmatched == pc = "unmatched" /\ Setback(pre, post) /\ UNCHANGED captures

----------------------------------------------------------------------------
(* _resolve_action up to the dry run. *)

ScaffoldFails == pc = "understood" /\ Setback(pre, post) /\ UNCHANGED captures

Select ==
    /\ Advance("understood", "candidate_selected", "selected")
    /\ UNCHANGED <<pre, post, disposition, verdict, captures, clicks>>

(* The scaffold holds an intent for every exposed candidate. *)
BuildIntent ==
    /\ Advance("selected", "intent_built", "built")
    /\ UNCHANGED <<pre, post, disposition, verdict, captures, clicks>>

(* The engine fails, or finds the intent incomplete or unfit. *)
DryRunSetback ==
    /\ pc = "built" /\ Setback(pre, post) /\ UNCHANGED captures

(* Mutant: a blocked dry run counts as an incomplete step. *)
MutantDryRunBlocksIncomplete ==
    /\ pc = "built" /\ DryRun(StepIntent, pre.screen) = "would_block"
    /\ EndStep("incomplete", "blocked", "blocked", pre, post) /\ UNCHANGED captures

DryRunBlocks ==
    /\ pc = "built" /\ DryRun(StepIntent, pre.screen) = "would_block"
    /\ EndStep("failed", "blocked", "blocked", pre, post) /\ UNCHANGED captures

DryRunPasses ==
    /\ pc = "built" /\ DryRun(StepIntent, pre.screen) = "would_execute"
    /\ Advance("built", "dry_run_passed", IF Step.eligible THEN "safeClick" ELSE "capture")
    /\ disposition' = IF Step.eligible THEN disposition ELSE "dry_run_only"
    /\ UNCHANGED <<pre, post, verdict, captures, clicks>>

----------------------------------------------------------------------------
(* The safe click executor's handle, and what the runner makes of it. *)

(* An exception inside handle, one of the policy engine's included. *)
SafeClickFails ==
    /\ pc \in {"safeClick", "killSwitch", "pause", "gates"}
    /\ Setback(pre, post) /\ UNCHANGED captures

DryRunOnly ==
    /\ ~config.live /\ Advance("safeClick", flow, "capture")
    /\ disposition' = "dry_run_only"
    /\ UNCHANGED <<pre, post, verdict, captures, clicks>>

AskPolicy ==
    /\ config.live /\ Advance("safeClick", flow, "killSwitch")
    /\ UNCHANGED <<pre, post, disposition, verdict, captures, clicks>>

ReadKillSwitch ==
    /\ Advance("killSwitch", flow, IF killed THEN "gates" ELSE "pause")
    /\ verdict' = IF killed THEN "deny" ELSE verdict
    /\ UNCHANGED <<pre, post, disposition, captures, clicks>>

(* Mutant: the pause control is not consulted. *)
MutantReadPauseNever ==
    /\ Advance("pause", flow, "gates")
    /\ verdict' = Rules(policy, StepIntent, config.live)
    /\ UNCHANGED <<pre, post, disposition, captures, clicks>>

ReadPause ==
    /\ Advance("pause", flow, "gates")
    /\ verdict' = IF paused THEN "deny" ELSE Rules(policy, StepIntent, config.live)
    /\ UNCHANGED <<pre, post, disposition, captures, clicks>>

Open == BoundaryOpen(StepIntent, pre.screen, config, verdict)

Blocked ==
    /\ pc = "gates" /\ ~Open
    /\ EndStep("failed", "blocked", "blocked", pre, post) /\ UNCHANGED captures

(* The gates are open, but execution was not asked for: the plan for a     *)
(* human confirmation is attached, and the step goes on.                   *)
AllowOnly ==
    /\ pc = "gates" /\ Open /\ ~config.execute /\ Advance("gates", "execution_allowed", "capture")
    /\ disposition' = "real_click_eligible"
    /\ UNCHANGED <<pre, post, verdict, captures, clicks>>

Click ==
    /\ pc = "gates" /\ Open /\ config.execute /\ Advance("gates", flow, "clicked")
    /\ clicks' = Append(clicks, [step |-> index, candidate |-> StepIntent.candidate,
                                 screen |-> pre.screen, after |-> captures])
    /\ UNCHANGED <<pre, post, disposition, verdict, captures>>

(* Mutant: the machine goes to executed at once. *)
MutantClickedUnallowed ==
    /\ Advance("clicked", "executed", "executed")
    /\ UNCHANGED <<pre, post, disposition, verdict, captures, clicks>>

Clicked ==
    /\ Advance("clicked", "execution_allowed", "executed")
    /\ UNCHANGED <<pre, post, disposition, verdict, captures, clicks>>

(* Mutants: the click is reported as one that was only allowed; the frame  *)
(* of before the click is verified.                                        *)
MutantExecutedUnreported ==
    /\ Advance("executed", "executed", "capture")
    /\ disposition' = "real_click_eligible"
    /\ UNCHANGED <<pre, post, verdict, captures, clicks>>
MutantExecutedUnobserved ==
    /\ Advance("executed", "executed", "verify")
    /\ disposition' = "real_click_executed" /\ post' = pre
    /\ UNCHANGED <<pre, verdict, captures, clicks>>

Executed ==
    /\ Advance("executed", "executed", "capture")
    /\ disposition' = "real_click_executed"
    /\ UNCHANGED <<pre, post, verdict, captures, clicks>>

----------------------------------------------------------------------------
(* Verification against the snapshot of the step before. *)
Verify ==
    /\ pc = "verify" /\ UNCHANGED captures
    /\ \/ EndStep("verified", "verification_passed", disposition, pre, post)
       \/ EndStep("failed", "verification_failed", disposition, pre, post)
       \/ Setback(pre, post)

(* The operator. *)
Toggle ==
    /\ toggles < MaxToggles /\ toggles' = toggles + 1
    /\ UNCHANGED <<runVars, stepVars, pc, flow, prev, stepRuns, outcome, captures, runs, clicks>>

Engage == ~killed /\ killed' = TRUE /\ Toggle /\ UNCHANGED <<paused, held>>
Release == killed /\ killed' = FALSE /\ held' = held \ {"kill"} /\ Toggle /\ UNCHANGED paused
Pause == ~paused /\ paused' = TRUE /\ Toggle /\ UNCHANGED <<killed, held>>
Resume == paused /\ paused' = FALSE /\ held' = held \ {"pause"} /\ Toggle /\ UNCHANGED killed

Next ==
    \/ StartRun \/ BeginStep \/ FinishRun \/ Raise
    \/ Invalid \/ Incomplete \/ Capture \/ CaptureFails
    \/ UnderstandFails \/ Understand \/ Unmatched
    \/ ScaffoldFails \/ Select \/ BuildIntent
    \/ DryRunSetback \/ DryRunBlocks \/ DryRunPasses
    \/ SafeClickFails \/ DryRunOnly \/ AskPolicy \/ ReadKillSwitch \/ ReadPause
    \/ Blocked \/ AllowOnly \/ Click \/ Clicked \/ Executed
    \/ Verify
    \/ Engage \/ Release \/ Pause \/ Resume

Spec == Init /\ [][Next]_vars

----------------------------------------------------------------------------
(* Properties. *)

Snapshot == [no : Nat, screen : Screens \cup {<<>>}]
StepRun ==
    [step : Nat, final : FinalStages, flow : Flow!FlowStates, disposition : Dispositions,
     before : Nat, pre : Nat, post : Nat]
ClickRecord == [step : Nat, candidate : CandidateIds, screen : Screens, after : Nat]

(* Every variable keeps its type. *)
TypeOK ==
    /\ runner \in {"act", "verify"} /\ policy \in Policies
    /\ scenario \in Scenarios \cup {Nothing} /\ config \in Configs
    /\ pc \in PcStates /\ index \in 1..(Len(scenario.steps) + 1)
    /\ flow \in Flow!FlowStates \cup {"none"}
    /\ pre \in Snapshot /\ post \in Snapshot /\ before \in Nat /\ prev \in Nat
    /\ disposition \in Dispositions /\ verdict \in {"none", "deny", "review", "allow"}
    /\ stepRuns \in Seq(StepRun)
    /\ outcome \in {"none", "running", "completed", "incomplete", "failed", "error"}
    /\ killed \in BOOLEAN /\ paused \in BOOLEAN
    /\ captures \in Nat /\ runs \in Nat /\ toggles \in Nat
    /\ clicks \in Seq(ClickRecord) /\ held \subseteq {"kill", "pause"}

(* No runner ever asks its state machine for a transition that is not in   *)
(* the table, on any path through capture, action and verification: the    *)
(* ValueError of transition(), which would end a run whose click has been  *)
(* made, cannot occur.                                                     *)
FollowsTable == Flow!Spec

(* While kill switch or pause control is held from before a step begins,   *)
(* that step clicks nothing, whatever the policy said of earlier steps.    *)
HaltHonoured == [][Len(clicks') > Len(clicks) => held' = {}]_vars

(* A click goes to the candidate that is the step's best match on the      *)
(* newest frame, visible there, complete and of the score a click needs,   *)
(* and only in a run that asked for execution in live mode, for a step     *)
(* that is defined and eligible.  It relates the definition of the step,   *)
(* exposure, scaffold, dry run and boundary, which check this in parts.    *)
ClickJustified ==
    \A k \in DOMAIN clicks :
        LET click == clicks[k]
            step == scenario.steps[click.step]
            target == click.screen[click.candidate]
        IN  /\ config.live /\ config.execute /\ runner = "act"
            /\ StepStatus(step, scenario) = "defined" /\ step.eligible
            /\ click.candidate \in Matched(step, click.screen)
            /\ \A i \in Matched(step, click.screen) : ~Precedes(click.screen, i, click.candidate)
            /\ target.visible /\ Complete(target) /\ target.score >= ClickScore
            /\ target.place \notin Degenerate
            /\ policy.protected = "clear" /\ click.candidate \notin policy.denied

(* The result of a run tells every click: a step that returned has the     *)
(* disposition real_click_executed exactly if it clicked, and no step      *)
(* clicks twice.                                                           *)
ClicksReported ==
    /\ \A j, k \in DOMAIN clicks : j < k => clicks[j].step < clicks[k].step
    /\ \A k \in DOMAIN stepRuns :
          stepRuns[k].disposition = "real_click_executed"
             <=> \E j \in DOMAIN clicks : clicks[j].step = stepRuns[k].step

(* What verifies a click was captured after it, and what it is compared    *)
(* with was captured before it.                                            *)
VerifiedAcrossClick ==
    \A k \in DOMAIN stepRuns, j \in DOMAIN clicks :
        stepRuns[k].step = clicks[j].step /\ stepRuns[k].final = "verified"
            => stepRuns[k].before <= clicks[j].after /\ clicks[j].after < stepRuns[k].post

(* The stage a step reports and the state its machine ended in agree, at   *)
(* each of the many places where a step returns.                           *)
EndOf == [verified   |-> {"verification_passed"},
          incomplete |-> {"recovery_needed"},
          failed     |-> {"verification_failed", "blocked", "aborted"}]

StagesAgree ==
    \A k \in DOMAIN stepRuns :
        /\ stepRuns[k].flow \in EndOf[stepRuns[k].final]
        /\ stepRuns[k].flow = "blocked" <=> stepRuns[k].disposition = "blocked"

(* A run is completed only if its definition is sound and every step of it *)
(* was verified on frames that did not run backwards.                      *)
CompletedMeansVerified ==
    outcome = "completed" =>
        /\ ScenarioStatus(scenario) = "defined"
        /\ Len(stepRuns) = Len(scenario.steps)
        /\ \A k \in DOMAIN stepRuns : stepRuns[k].final = "verified" /\ stepRuns[k].step = k
        /\ \A j, k \in DOMAIN stepRuns : j < k => stepRuns[j].pre < stepRuns[k].pre
=============================================================================
