# A formal model of the universal visual OS agent

TLA+ modules that model the parts of this repository in which something can go
wrong that a unit test hardly reaches, the TLC runs that check them on small
instances, and theorems about them that TLAPS checks for every value of the
constants. All paths below are relative to
`src/src/universal_visual_os_agent/` unless they start with `src/`.

`PROJECT.json` gives, for every definition, the lines of the code it translates
("map"), the hazards of the code with the properties that cover them, and for
every checked property a mutant of the model that violates it.

## 1. Inventory

The agent looks at the screen, builds a semantic snapshot of it, decides, and
(only behind many gates) clicks. Everything runs in one Python process; it is
one asyncio event loop plus, where synchronous providers are offloaded, a thread
pool. State that outlives a call is rare, which is why most of the 38 000 lines
are pure transformations and a few hundred carry the concurrency.

| Component (path) | State it keeps | Operations | What is hard | Correct means |
|---|---|---|---|---|
| Runtime event coordinator (`app/runtime_events.py`) | the queue of events, each with its sources | `submit` (blocked, accepted, coalesced), `dispatch_next` | order and identity of what was coalesced | nothing lost or repeated, the oldest goes first, a plan covers its sources |
| Main loop (`app/orchestration.py`) | request queue, `_previous_frame`, `_previous_snapshot`, `_current_task` | `enqueue`, `run_next`, `run_until_empty`, `run_once`, `run_next_runtime_event`, `cancel_current` | every stage is an await; several tasks may be inside; timeouts, retries, cancellation | each request answered once; the baseline never comes from an attempt that failed; a cancelled task stops |
| Runtime I/O boundary (`app/runtime_io.py`) | none (a pool of threads) | call a provider inline or in a thread | a thread that outlives its timeout | a late answer reaches nobody |
| Persistence (`persistence/`, `recovery/loading.py`) | three SQLite tables | save, get latest, list recent, write checkpoint, load snapshot | two statements per operation, several processes, crashes | a checkpoint stored once, a load neither stale nor going back |
| Recovery planning (`recovery/handling.py`) | none | failure to plan | precedence of many conditions | the documented precedence |
| Policy (`policy/`) | kill switch, pause control | `evaluate`, engage/release, pause/resume | operated by another thread during a step | a halt that holds stops the click |
| Scenario state machine (`scenarios/state_machine.py`) | `current_state` | `transition` | asked from some twenty places; a wrong request raises | only transitions of the table |
| Scenario runners (`scenarios/loop.py`, `action_flow.py`) | snapshot of the previous step and run | `run` | about twenty early returns per step, each setting four results separately | the record tells what happened; verification sees the action |
| Action gates (`actions/`) | none | scaffold, dry run, tool boundary, safe click | the same intent judged four times against different inputs | a click only on a justified target |
| Replay harness (`replay/`) | a cursor into recorded frames | `run`; observe, diff, rebuild | retries and other runs advance the one cursor | "completed" means every request on its own entry; a run ends |
| Verification (`verification/`, `semantics/semantic_delta.py`) | none | compare two snapshots, verify an expectation over a window of polls, plan what follows | incomplete items, branches, polls that come late, untimed or never | satisfied means seen, unsatisfied means refuted, a success is not taken back |
| Escalation, arbitration, planner, resolver (`ai_architecture/`) | none; a loop with the planner client | decide, ask, correct | two deciders over the same evidence; malformed answers and retries | they do not contradict each other; an answer is not trusted beyond its contract |
| AI boundary (`ai_boundary/`) | none | validate a proposal | references to a frame that is gone | only proposals that fit the current snapshot pass |
| Capture (`integrations/windows/capture*.py`) | backend handles | capture with fallback | handles released on every path | no leak, the fallback order |
| Perception, semantics, geometry | none | frame to snapshot, candidates, delta | rounding, identity of candidates | stable candidate identity |
| Configuration, contracts, diagnostics, testing | none | parse, format | - | - |

How they interact. A scenario runner calls the capture provider, the semantic
pipeline, the scaffold, the dry-run engine, the safe click executor (which asks
the policy engine, which reads kill switch and pause control) and the verifier,
synchronously. The main loop awaits a capture, a diff, a rebuild, recovery
loading (which reads persistence), the policy, a planner and a verifier, through
the runtime I/O boundary. Runtime events reach it through the coordinator's
queue. The replay harness drives the same orchestrator with providers that read
from a recorded session. Resolver, planner, engine, arbitrator and recovery
planner are called by nobody in the repository together; each is a function of
the same bindings, and the caller is left to the embedding program.

## 2. Modules

| Module | Models | Implements / uses |
|---|---|---|
| `EventIntake` | abstract specification: what the coordinator promises | - |
| `RuntimeEvents` | `app/runtime_events.py` and its models | implements `EventIntake` |
| `MainLoop` | `app/orchestration.py` | uses `EventIntake` in place of the coordinator |
| `Persistence` | `persistence/sqlite.py`, `services.py`, `recovery/loading.py` | - |
| `ScenarioFsm` | the transition table of `scenarios/state_machine.py` | - |
| `ActionGates` | definition status, exposure, choice, scaffold, dry run, policy rules, tool boundary, as pure operators | - |
| `ScenarioFlow` | both scenario runners, safe click executor, policy engine, operator | extends `ActionGates`, implements `ScenarioFsm` |
| `ReplayRun` | `replay/harness.py`, the attempts of `app/orchestration.py`, `app/runtime_io.py` | - |
| `AiContracts` | bindings of candidates and answers, validation at the AI boundary | - |
| `AiArbitration` | escalation engine, arbitrator, the recovery plan of a decision | extends `AiContracts` |
| `LocalResolver` | the resolver's request, metadata backend and binding | extends `AiContracts` |
| `CloudPlanner` | the planner's request, the client's correction loop, plan binding | extends `AiContracts` |
| `AiSession` | a caller that follows the plans of the engine | composes the four above |
| `SemanticDelta` | `semantics/semantic_delta.py` | - |
| `Verification` | `verification/`, the recovery plan of a result, as pure operators | extends `SemanticDelta` |
| `VerificationRun` | a transition verified while its polls come in | extends `Verification` |
| `MC*` | constants of the runs | - |
| `*Proofs` | theorems and their proofs | extend the module they are about |

### RuntimeEvents and EventIntake

One action per answer of `submit` (`SubmitBlocked`, `SubmitAccepted`,
`SubmitCoalesced`) and `DispatchNext`. `queue` is `_queue`; `log`,
`disposition` and `plans` are histories of what was submitted, answered and
dispatched. Coalescing is modelled down to the signals of a scope, because
merging them through a dict keeps only the last queued signal: `MergeScope` does
what `_merge_invalidation_signals` does, and `EntriesAnswerSources` says what of a
source survives. Left out: summaries, metadata and the debounce window, which no
code reads; the enum order in which tuples are listed.

`EventIntake` says the same from outside: numbered submissions are taken or
refused, and a delivery hands out a set of pending ones that includes the
oldest. The refinement mapping is `submitted <- Len(log)`, `pending` the sources
in the queue, `delivered` the sources in the plans.

### MainLoop

`run[r]` is the local state of the `_run_request` that task `r` is inside;
`stage` names the await it is suspended at. Each action runs from one await to
the next: `Observed` is what the code does when `observe` returns, up to the call
of `diff`. So `_previous_frame` is read in `Observed` and `_previous_snapshot` in
`Planned`, several awaits apart. `TimedOut`, `Raised` and `Cancelled` may happen
at every stage; `Retry` starts the next attempt in the same step because the code
awaits nothing between. `Return` is the `finally` clause plus `task_done`. A
`run_once` puts its request (`RunOnce`, waiting in stage "putting" while the queue
is full) and then runs whatever is at the head (`PutThenGet`).
A frame is a number, a snapshot is named by the frame it was rebuilt from.
What a provider answers is nondeterministic. A provider that never suspends
gives fewer interleavings, all of them included.

### Persistence

Every statement is a transaction and so an action; what the services do takes two
(`CheckTask` then `SaveCheckpoint`; `LoadTask` then `LoadCheckpoint`). A process
may `Crash` between, and a writer may write the same record again. `Stamp` keeps
an instant and a UTC offset, since `recorded_at` is ordered as ISO text:
`TextBefore` is that order. Payloads are left out; a task counts its saves. The
audit table's foreign key is left out: an event names a task that exists.

### ScenarioFlow, ActionGates, ScenarioFsm

`pc` is where the runner is in `_run_step` or `_run_action_step`; one action per
thing that may happen there. Every place where the code returns from a step is an
`EndStep` with the final stage, state-machine state, disposition and snapshots
that this place passes. `runner` chooses between the two runners, which share
the code from capture to verification. Kill switch and pause control are
toggled between any two actions; `ReadKillSwitch` and `ReadPause` are two
actions because `evaluate` reads them one after the other. The screen is a
function from identifiers to candidates, any member of `Screens` at each capture.
Scores are levels (0 is the missing score), boxes are places; a `Degenerate` box
is one whose floor-rounded target point misses it.

Facts of the code the model uses: an exposed candidate is never enabled or
actionable, so the scaffold never blocks one as unsafe; the scaffold has an
intent for every exposed candidate; a definition that cannot be built starts no
run; a transport that raises has not clicked, since `SetCursorPos` is the only
call that raises and it comes first. Stages whose inner failures all end the same
way (`_understand_step`) are one action with a nondeterministic partial snapshot.

### ReplayRun

`run[c]` is the local state of one call of `ReplayHarness.run`, `index` the cursor
all calls share. The replay providers do not suspend, so `BeginAttempt` takes an
entry, diffs and rebuilds in one step, and no other task moves while an attempt
is about to begin (`LoopFree`). Recovery loading and reconciliation go through
the runtime I/O boundary: a provider that says it is thread-safe gets a member of
`threads`, and its answer goes to the await that started it (`Awaits`); a timeout
or a cancellation ends the await and leaves the thread running, unless the pool
had not started it. An entry is reduced to whether its frame, its snapshot and
its task are there. A cancelled task stands for the caller's.

### AiContracts, AiArbitration, LocalResolver, CloudPlanner, AiSession

Scores and confidences are percents, `Missing` is `None`. A view is the exposure of
one frame: its candidates in rank order and its signal status. `BindExposed`,
`BindSemantic`, `BindResolver` and `BindPlanner` are the bindings of the ontology,
`PlannerAccepted` and `ResolverAccepted` the validation at the boundary. `Evaluate`
is the escalation engine and `Arbitrate` the arbitrator, both with the code's
order of precedence. `Answers` of `LocalResolver` is the metadata backend; it is a
set because the difference of two scores is not rounded in the code, and one
that equals the decisive margin may fall on either side in binary floating
point. In `CloudPlanner` a call is a machine of its own: prompt, answer,
correction, until the retries are spent. `AiSession` is the caller (external): it
looks, lets both deciders judge, asks the source the recovery plan names, and
looks again when an answer is refused, while `ScreenChanges` may happen at any
moment.

### SemanticDelta, Verification, VerificationRun

A snapshot is a function from keys (category and identifier) to items; the fields
of an item other than its confidence are one field `value`. A delta is told by
its two snapshots. An outcome status is formed as the code forms it:
`Matches`, else `Refuted`, else unknown, where an item that is incomplete keeps a
mismatch from refuting. `Window`, `Chosen`, `Evaluated` and `Selection` are the attempts
of `verify`, `Checked` the exception path of a result that its own type refuses.
`OutcomeCategory`, `ResultCategories` and `TaxonomyCategories` are the explanations,
which `RecoveryPlan` reads. `VerificationRun` adds the caller that polls (external):
it numbers polls from 2, takes them one tick apart, may not know when one was
taken, and hands them over late, out of order or never; each arrival makes a new
transition that is verified from scratch. `Holds`, `Meets` and `CouldMeet` are the
reference: what it is to see the expected change, told from two whole snapshots
without a delta, and what could be seen if the fields left empty were filled in.

## 3. Runs

All runs set `CHECK_DEADLOCK FALSE`: requests, events, runs and toggles are
bounded, and the system may simply have nothing left to do.

| Run | Question | Instance | Distinct states |
|---|---|---|---|
| `runtime_events` | Does coalescing lose, repeat or overtake anything? Does the coordinator implement `EventIntake`? | 5 submissions of 6 kinds of event: two merge on one key (with and without capture targets, with several signals in one scope), two replace on the same key, a keyed tick that never coalesces, one that is refused | 93 240 |
| `main_loop_concurrent` | What holds when tasks interleave? | a drainer and a caller of `run_once`/`run_next_runtime_event`, queue of 2, 2 attempts, retry on timeout only, 3 requests, 1 event | 1 421 932 |
| `main_loop_sequential` | What holds only for one runner? | one task makes every call; recovery mode, both kinds of retry, 3 requests, 2 events | 218 504 |
| `main_loop_liveness` | Is every request answered? | queue of 1, 2 attempts, both kinds of retry, 2 requests, 1 event | 45 734 |
| `main_loop_cancel` | finding: `CancelReachesRunning` with two runners | as concurrent, 2 requests | violation |
| `persistence` | Stored once? Loads fresh and monotonic, also with mixed UTC offsets? | 2 processes, 2 tasks, 2 instants, 2 offsets, 2 checkpoints, 2 saves of a task | 1 166 494 |
| `persistence_audit` | finding: `RecentMeansNewest` | limit 2, 4 events | violation |
| `ai_session` | Who decides? What may a stale answer do? Does a look end? | 9 screens of up to 5 candidates of 2 labels, 2 frames, 13 planner and 5 resolver contracts, 7 replies with 2 corrections | 156 421 |
| `replay` | Does "completed" mean the session was replayed? Whose answer is it? Does a run end? | 2 tasks, 2 runs, 6 harnesses (sessions of up to 3 entries, with and without holes, retries, threads) | 66 204 |
| `verification` | Is a verdict what the snapshots show, and does it stay? | 8 expectations over all seven kinds of item, each with every pair of 3 or 4 snapshots or none, 2 polls | 39 296 |
| `verification_gap` | finding: `SelectionWithinCount` | as `verification` | violation |
| `scenario_flow` | Is every click justified, halted, reported and verified, and every status right? | both runners, 2 runs of 5 scenarios of up to 2 steps, 4 screens, 3 policies, 3 configurations, 2 uses of the switches | 1 800 966 |

Why these bounds are enough. `runtime_events`: five submissions let an entry
coalesce twice between two others and be dispatched in between. Two runners are
the least that interleave; three requests let one wait, one run and one be put;
two attempts are the least with a retry. Two checkpoints, instants and offsets give
every order of construction and insertion, and a later record whose text comes
first; processes and tasks are
interchangeable in the module and no liveness is checked, so the symmetry is
sound. In `scenario_flow` two steps and two runs let a snapshot be carried from
step to step and from run to run. The scenarios hold a step looser than what a
click needs (the boundary has to catch it), one that cannot click, an invalid
and an incomplete one, and an unsafe scenario. The screens hold an empty one,
a best candidate that is not the first, an invisible one, one without its
region and a degenerate box. Two toggles engage and release, or engage both.
In `ai_session` five candidates are what the backend's rank steps are scaled for,
and two frames are the least on which an answer can be stale; two corrections
let a feedback belong to another attempt than the last. In `replay` two retries of
two tasks use up any of the sessions, and a thread can be late for a retry and
for the next run. In `verification` two polls arrive in either order, one with and
one without a time, or leave a gap; the eight expectations use each rule of an
outcome, branches, presence, and each bound of the window.

### Fairness

Three runs check liveness.

`main_loop_liveness` (`FairSpec`) assumes weak fairness of `Step(r)` and
`PutThenGet(r)` for each runner and of `RunNext(r)` for each drainer. The first
is `asyncio.timeout`: an attempt that hangs is ended by the event loop. The
second is that `asyncio.Queue` resumes a waiting `put` when there is room; with
the drainer and one caller no other put competes for the slot for ever, since
requests are bounded. The third is the loop of `run_until_empty`. Nobody has
to enqueue, submit or cancel anything. Without a drainer, a caller of `run_once`
that waits on a full queue waits for ever; that is a use the code allows and the
property does not cover.

`replay` assumes weak fairness of each caller's `Step`, which includes `TimedOut`: the
event loop runs what can run, and `asyncio.timeout` ends an attempt whose
provider hangs. Threads are under no fairness: `RunReturns` holds although a
recovery provider may never come back. Runs are started by nobody's duty.

`ai_session` assumes that a source that was asked answers (the client has a
timeout, the backend computes) and that the caller goes on deciding. Nobody has
to look: `LookEnds` says that one look is decided, not that the screen is ever
read again, and a caller whose answers keep being refused may look for ever.

## 4. What the runs show

* Coalescing keeps every accepted submission in exactly one entry or plan, oldest
  first, and there is never more than one entry an event could coalesce with.
* With any interleaving of two runners, every request is in one place, runtime
  events travel in one request each, which some runner is in the middle of until it
  is answered (a request that is given up drops its events), `_current_task` names only a task that runs,
  the diff baseline comes only from completed attempts, and a cancelled task does
  nothing but return. With one runner the frame and the snapshot an attempt is
  compared with belong together; with two TLC finds a counterexample, as both are
  read from `self` several awaits apart (hazard at `app/orchestration.py:302`). No
  document promises it for two, so `SameBaseline` is checked only for one.
* Checkpoints are stored once. A load is not behind what was stored when it began,
  and the loads of a process do not go back. With mixed UTC offsets, which the query
  compares as text, "behind" allows for the difference of the offsets and no more;
  with one offset, as the default factory gives, it is the order of the instants.
* A click is always on the step's best match, of a defined and eligible step,
  never while a halt has been in force since the step began; a step that
  returned has the disposition of its clicks; verification compares a frame from
  before the click with one from after it; stage, disposition and state of the
  machine agree at each return; a completed run verified every step.
* A replay reported as completed evaluated each request on its own entry, though
  retries and other runs consume entries; missing data is reported only for a
  hole, a retry or a second run; the answer of a call that timed out reaches
  neither the retry nor the next request; every run ends.
* When the engine lets the deterministic candidate pass, the arbitrator selects
  no other one, but for a source conflict that a sufficient planner answer
  settles; an answer that is decided on names a candidate that is still on the
  screen as it was shown; the order of a shortlist never turns one choice into
  another; the planner client corrects each answer with its own feedback; no look
  is passed round between the sources for ever.
* A satisfied verdict rests on the first attempt that shows the expected change,
  in time and within the polls that count, and no later poll takes it back. An
  unsatisfied verdict refutes every attempt of the window for any content of the
  fields that the pipeline left empty. Recovery aborts only on one attempt whose
  primary outcomes were observed or are about items that no field left empty; nodes
  of a layout tree that is missing altogether count as missing, not as unseen.

### Findings

1. `main_loop_cancel`: with two runners, the `finally` clause of the first to
   return clears `_current_task` (`app/orchestration.py:209`), and `cancel_current`,
   whose docstring promises to cancel "the currently running orchestration task, if
   any", then does nothing.
2. `persistence_audit`: `list_recent` (`persistence/sqlite.py:168`) orders ascending
   and then limits, so beyond the limit it returns the oldest events, where its
   contract says "recent".
3. `verification_gap`: the verifier reports the index of the selected attempt and
   the count of the evaluated ones (`verification/goal_oriented.py:948`). If a poll
   before the selected one is lost, late or dropped by the timeout, the index
   exceeds the count, `VerificationResult` raises, and `verify` answers "unknown"
   although the expected change may have been seen.

Two more disagreements were met and have no run of their own. A polled result, or
one of an alternate branch, that is unsatisfied is never aborted, because the
explanation of the search is always `ambiguous_result`; the test
`src/tests/test_recovery_escalation_hitl_scaffolding.py:218` and the plan's wording
know only the single attempt (`AbortOnFullSight` states `count = 1` as a fact). And a
missing layout tree counts as missing nodes, hence refutes and may abort, where
`src/docs/CONTEXT_PACKS.md:62` asks for unknown on partial input; the code says so
itself (`verification/goal_oriented.py:461`), so `CouldMeet` follows the code.

## 5. Theorems

Each proof module extends the module it is about. `tlapm` checks them without
any assumption beyond the named `ASSUME`s of the modules, which TLC evaluates in
the runs. The bounds (`MaxEvents`, `MaxRequests`, `MaxRuns`, ...) are arbitrary
natural numbers in the theorems, and the sets of keys, runners, screens,
scenarios and policies are arbitrary.

**`RuntimeEventsProofs`.** `IInv` is `TypeOK`, `OneEntryPerKey`, equal lengths of
the two histories, and `CarriedOK` of the plans followed by the queue: every
record lists its sources in order, no two share one, together they are the
submissions that were not refused, and the first sources grow along the
sequence. The last part is the strengthening: without it nothing says that the
head of the queue carries the oldest pending submission, which `Deliver` of
`EventIntake` demands, and coalescing in place must be shown to keep it.
Theorems: `TypeCorrect`, `KeysUnique`, `SourcesCorrect`, `Implementation`
(`Spec => ImplementsIntake`) and `AnswersCorrect`, for which `AnswersInv` says of every
queued entry what a further submission cannot take from it: a merged entry
*absorbs* each of its sources (it names their capture and analysis targets and
covers their signals scope by scope), a replaced one is the latest of them, and it
allows polling exactly if all of them do. The property speaks of the plan derived
from an entry, which is too little to be kept by the next merge; absorbing is
transitive (`CoveredTransitive`), so it is kept. Of plans already made only the
polling veto is claimed; they keep it as the history behind them grows.

**`MainLoopProofs`.** `IInv == TypeOK /\ EveryRequestInOnePlace /\
CurrentTaskRunning /\ Supporting`. `Supporting` says that an idle runner holds
nothing, that frames are numbered up to `seen`, and that a request in the queue
or waiting to be put carries no runtime event; without it `unfinished` could go
below zero when a request is answered. The hard part is the count
`unfinished = Len(queue) + Cardinality(QueuedRuns)`, for which one runner joins,
leaves or stays in `QueuedRuns` at a time. `EventsCarried` and `CancelHonoured`
(with `CancelledRuns`: only a running task is cancelled) are proved on top of
`IInv`; that an open request with events is being run (`CarriersRun`) follows from it. Theorems: `TypeCorrect`, `RequestsInOnePlace`, `CancelsOnlyRuns`,
`EventsNotLost`, `CancellationIsFinal`.

**`ScenarioFlowProofs`.** `IInv` adds to the properties what the runner knows at
each place: `FlowOK` (where the state machine is), `Located` (what has been
established: defined, eligible, a match exists), `Frames` (which frames precede
which), `Clicking` (which clicks belong to the current step), `Halting` (what an
answer "allow" means while a switch is held). None of the properties is inductive
without them: for instance that a verified record encloses its click needs the
order of frames and clicks before the record exists. The eleven actions in
which a step returns are shown once to be an `Ending`, the ten that move on
between choice and second capture once to be a `Moving`, and each invariant is
proved for these. The candidate `Selected` chooses exists because, of the finite
sets of candidates that come before a given one, one is minimal
(`BestExists`). Theorems: all eight checked properties of the run
`scenario_flow`, the refinement of `ScenarioFsm` among them.

**`ReplayRunProofs`.** `CallersOk` says of each caller that the entries of its
completed requests climb at least as fast as the requests (`Climbing`), that none
is beyond the cursor, and that the call it waits for is the latest of its attempt.
`CompletedIsExact` follows by counting: a run that completes has as many
climbing entries as the session has. `RecoveryIsOwn` follows from calls being
numbered and an attempt remembering the number it began with.
`MissingIsExplained` needs that without a retry and a second run the cursor is
exactly the position of the one run (the invariant of an undisturbed run).
`RunsEnd` is the part of `RunReturns` that is not fairness: each step of a run ends
it or brings it forward in the order of request, attempt and stage, each of which
is bounded; a thread that returns late moves no run.

**`AiSessionProofs`.** `JustifiedOverride` compares the two deciders on arbitrary
evidence: without a material conflict all bound sources name one candidate, and
with one the engine says "sufficient" only in the case the property allows.
`FittingAnswers` needs that the view is never newer than the screen.
`DisciplinedRetries` and `PlansWithinSummary` are invariants of the call machine.
`TypeCorrect` shows among others that the backend's confidence is a percent, for
which its best entry must exist (`TopIsBest`, from `LeastNumber`: a nonempty set of
natural numbers has a least one).

`OrderDoesNotMatter` compares any two orders of a shortlist. Whoever is chosen leads
at its place by the decisive margin (`ChosenLeads`); listing the candidates in
another order moves a lead by at most twice the number of places but one, which for
five candidates is less than twice the margin (`OrdersAgree`). The theorem has the
premise `FewShown`, that a screen shows at most five candidates. The code puts no
limit on a shortlist, and with six the moves add up to twice the margin, so the
premise is one of the theorem and not an assumption of the module.

`LooksRunOut` is the part of `LookEnds` that is not fairness: the engine recommends
only a source that has not answered (`RecommendedIsAbsent`, `AskedOnce`), an answer
that is bound is present, and the client's corrections are counted, so that
`LookLeft` decreases with each step until the look ends.

**`VerificationProofs`.** Three layers. `SatisfiedOutcome` and `RefutedOutcome` show, for
every outcome and every two well-formed snapshots, that a status formed from the
delta is what the reference says of the whole snapshots; `SatisfiedAttempt` and
`RefutedAttempt` lift that over branches and presence; the lemmas on the window
show that the chosen attempt is one of the window and, by counting the evaluated
indices, that a result its type accepts has no gap before the selected attempt.
This count is why a satisfied verdict is final: a poll that comes in later must
have a higher index. The inductive invariant `Shape` says that attempts are
numbered without repetition and the verdict is that of the attempts that are
in. Theorems: all four properties of the run.

**`MainLoopBaselineProofs`.** Every step is first shown to be one in which a runner
starts an attempt, goes on, or answers. `FramesApart` (no two runners hold the
same frame, and none holds the baseline) makes `BaselineSettled` inductive for any
number of runners. `ReadsCurrent` says that what a runner read of the baseline is
still the baseline; it needs that there is one runner, the premise of
`BaselineIsOne` and `CancelReaches`. Two runners break both.

The module also counts. `RetriesBounded` needs a sum over the requests, which the
prover cannot form; `ObservationsCharged` says instead that there is a finite set of
pairs of a request and an attempt, one per observation delivered, each of them
*spent*: the attempt has observed, or the request is past it or answered. Spent
attempts stay spent (`SpentStays`), an attempt about to observe is none of them
(`FreshAttempt`), and there are only `MaxAttempts * Cardinality(Made)` pairs.
`RequestsEnd` is the part of `EventuallyAnswered` that is not fairness: every step
of a runner that has a request lowers a natural number that starts at `8 *
MaxAttempts`, unless it answers; steps of others leave it alone.

**`PersistenceProofs`.** `StoreInv`. That the query for the latest checkpoint finds a
row in a table of any length is an invariant itself (`HasLatest`): an appended row
beats the latest one of its task or leaves it the latest, as the order of the
texts is total. `CheckedHasTask` bridges the two transactions of a write and
`SinceInv` those of a load. `Fresh` and `Monotonic` hold for any offsets, as they speak of
checkpoints up to the difference of their offsets (`NotBehind`). `Newest` has the
premise `SameOffset`, that all clocks show one, and speaks of the instants.

Every safety and action property of the runs is stated by a theorem, except those
that a run shows violated. Only model-checked is liveness (`EventuallyAnswered`,
`RunReturns`, `LookEnds`), which the prover does not reach. What it does reach are
the three theorems `RequestsEnd`, `RunsEnd` and `LooksRunOut` above: each shows, for
every value of the constants, that what the liveness property speaks of has only
finitely many steps left to take, and fairness says that it takes them. That a step
is enabled while it has not ended is left to TLC.

## 6. Not modelled

`PROJECT.json` says it component by component.

* Capture (`integrations/windows/capture*.py`): backend choice and the fallback are a
  loop over a list within one call; what could go wrong there, a handle that
  leaks or a buffer read after its release, lies in the ctypes calls, which the
  source does not show. Capture is an input in `ScenarioFlow` and `MainLoop` that may
  fail at any time.
* OCR enrichment, layout, ranking and generation of candidates, perception and
  geometry: stateless transformations of one frame. Their result is an input
  (any screen of a set), so no property here can tell their rules apart; a
  definition would restate tables of weights and rounding.
* Parsing and prompts of the planner, field-by-field coercion at the AI boundary:
  an answer is malformed, incomplete or a contract.
* The tool boundary for planner and resolver outputs and the plan from its
  assessment: called by tests only.
* Diagnostics, developer tooling, formatting of summaries and reasons,
  dataclasses without behaviour.

## 7. Abstractions a reader should know

* The callers of `ai_architecture` and of the verifier's polls are not in the
  repository. `AiSession` and `VerificationRun` model the caller the interfaces ask
  for: one that follows the recovery plan, and one that numbers its polls as
  `src/tests/test_verification_time_aware.py` does, each number once.
* Snapshots in `VerificationRun` are well formed, so the comparison never fails;
  its failure path gives the same unknown result as a missing delta.
* In `ReplayRun` a retried attempt of a run that has not consumed foreign entries
  always ends in missing data or in entries that are not its own; that is the
  code's behaviour and the reason `MissingExplained` names the retry.
* An explainer that raises is replaced by a fixed explanation of category
  `ambiguous_result` (`verification/goal_oriented.py:309`); `VerificationRun` has an
  explainer that does not raise, and confidence changes, which the code rounds to four
  digits, are exact. No property rests on either.
* Floating-point confidences are integers (levels or percents). Where a rounding
  could tip a decision (`LocalResolver`) both outcomes are allowed.
