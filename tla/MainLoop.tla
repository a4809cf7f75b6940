------------------------------ MODULE MainLoop ------------------------------
(***************************************************************************)
(* The asyncio orchestrator (app/orchestration.py): a bounded queue of     *)
(* requests, and tasks ("runners") that take a request from the queue, or  *)
(* a dispatch plan from the runtime event coordinator, and drive it        *)
(* through observe, diff, rebuild, recovery, policy, plan and verify, with *)
(* a timeout and retries.  Every stage is an await, so runners interleave  *)
(* between stages, and cancel_current may be called between any two steps. *)
(*                                                                         *)
(* An observation is numbered in the order the frames arrive; a semantic   *)
(* snapshot is named by the frame it was rebuilt from; 0 is None.  The     *)
(* coordinator is the abstract EventIntake, which RuntimeEvents implements.*)
(* Providers, the planner and the verifier are abstracted to: they answer, *)
(* they raise, or they take longer than the timeout.  A provider that does *)
(* not suspend gives fewer interleavings, all of them included here.       *)
(***************************************************************************)
EXTENDS Naturals, Sequences, FiniteSets

CONSTANTS
    Runners,           \* tasks that execute requests
    Drainers,          \* runners that call run_next or run_until_empty
    OnceCallers,       \* runners that call run_once
    EventCallers,      \* runners that call run_next_runtime_event
    NoTask,            \* _current_task is None
    QueueMax,          \* queue_maxsize
    MaxAttempts,       \* retry_policy.max_attempts
    RetryOnTimeout,    \* retry_policy.retry_on_timeout
    RetryOnException,  \* retry_policy.retry_on_exception
    RecoveryMode,      \* config.mode is recovery_mode and there is a loader
    MaxRequests,       \* bound: LoopRequests ever made
    MaxEvents          \* bound: runtime events ever submitted

ASSUME RunnersAssumption ==
    /\ Drainers \subseteq Runners
    /\ OnceCallers \subseteq Runners
    /\ EventCallers \subseteq Runners
    /\ NoTask \notin Runners
    /\ IsFiniteSet(Runners)

(* The checks of __post_init__ and RetryPolicy. *)
ASSUME LimitsAssumption ==
    /\ QueueMax \in Nat \ {0}
    /\ MaxAttempts \in Nat \ {0}
    /\ {RetryOnTimeout, RetryOnException, RecoveryMode} \subseteq BOOLEAN
    /\ MaxRequests \in Nat
    /\ MaxEvents \in Nat

VARIABLES
    queue,         \* _queue: request numbers, next one first
    unfinished,    \* what asyncio.Queue counts between put and task_done
    carries,       \* per request made: the runtime events it carries
    results,       \* per request made: "open", or its LoopStatus
    run,           \* per runner: the local state of its _run_request
    prevFrame,     \* _previous_frame
    prevSnapshot,  \* _previous_snapshot
    currentTask,   \* _current_task
    seen,          \* observations delivered so far
    submitted, pending, delivered   \* the runtime event coordinator

loopVars == <<queue, unfinished, carries, results, run,
              prevFrame, prevSnapshot, currentTask, seen>>
intakeVars == <<submitted, pending, delivered>>
vars == <<loopVars, intakeVars>>

Intake == INSTANCE EventIntake

Stages == {"observing", "diffing", "rebuilding", "loading", "reconciling",
           "policing", "planning", "verifying"}

Statuses == {"completed", "cancelled", "timed_out", "aborted"}

(* The local state of a runner.  frame is the current observation, base    *)
(* what it was diffed against, before what its snapshot is verified        *)
(* against; cancelled says that Task.cancel was called on it.              *)
Run == [stage     : Stages \cup {"idle", "putting"},
        req       : Nat,
        attempt   : Nat,
        frame     : Nat,
        base      : Nat,
        before    : Nat,
        cancelled : BOOLEAN]

Idle == [stage |-> "idle", req |-> 0, attempt |-> 0,
         frame |-> 0, base |-> 0, before |-> 0, cancelled |-> FALSE]

Running(r) == run[r].stage \in Stages

(* May the stage of r finish or raise?  Once Task.cancel was called, the   *)
(* next thing the task sees is the CancelledError.                         *)
Active(r, stage) ==
    /\ run[r].stage = stage
    /\ ~run[r].cancelled

----------------------------------------------------------------------------
(* Requests. *)

Init ==
    /\ queue = <<>>
    /\ unfinished = 0
    /\ carries = <<>>
    /\ results = <<>>
    /\ run = [r \in Runners |-> Idle]
    /\ prevFrame = 0
    /\ prevSnapshot = 0
    /\ currentTask = NoTask
    /\ seen = 0
    /\ Intake!Init

NewRequest == Len(carries) + 1

(* A LoopRequest is made; it carries the given runtime events. *)
Make(events) ==
    /\ Len(carries) < MaxRequests
    /\ carries' = Append(carries, events)
    /\ results' = Append(results, "open")

(* The first attempt at request id: _run_request up to the call of observe *)
Started(id) ==
    [Idle EXCEPT !.stage = "observing", !.req = id, !.attempt = 1]

(* enqueue; it waits while the queue is full *)
Enqueue ==
    /\ Len(queue) < QueueMax
    /\ Make({})
    /\ queue' = Append(queue, NewRequest)
    /\ unfinished' = unfinished + 1
    /\ UNCHANGED <<run, prevFrame, prevSnapshot, currentTask, seen>>
    /\ UNCHANGED intakeVars

(* enqueue_runtime_event *)
EnqueueRuntimeEvent ==
    /\ Intake!Take \/ Intake!Refuse
    /\ UNCHANGED loopVars

(* run_next, and each turn of run_until_empty: get does not suspend while  *)
(* the queue holds something                                               *)
RunNext(r) ==
    /\ r \in Drainers
    /\ run[r] = Idle
    /\ queue # <<>>
    /\ run' = [run EXCEPT ![r] = Started(Head(queue))]
    /\ queue' = Tail(queue)
    /\ currentTask' = r
    /\ UNCHANGED <<unfinished, carries, results, prevFrame, prevSnapshot, seen>>
    /\ UNCHANGED intakeVars

(* run_once, up to the put *)
RunOnce(r) ==
    /\ r \in OnceCallers
    /\ run[r] = Idle
    /\ Make({})
    /\ run' = [run EXCEPT ![r] = [Idle EXCEPT !.stage = "putting", !.req = NewRequest]]
    /\ UNCHANGED <<queue, unfinished, prevFrame, prevSnapshot, currentTask, seen>>
    /\ UNCHANGED intakeVars

(* Mutant: run_once runs its own request, as if it had to be at the head. *)
MutantPutThenGetOwn(r) ==
    /\ run[r].stage = "putting"
    /\ Len(queue) < QueueMax
    /\ run' = [run EXCEPT ![r] = Started(run[r].req)]
    /\ queue' = Tail(Append(queue, run[r].req))
    /\ unfinished' = unfinished + 1
    /\ currentTask' = r
    /\ UNCHANGED <<carries, results, prevFrame, prevSnapshot, seen>>
    /\ UNCHANGED intakeVars

(* Mutant: the last slot of the queue is never used. *)
MutantPutThenGetFull(r) ==
    /\ run[r].stage = "putting"
    /\ Len(queue) + 1 < QueueMax
    /\ LET filled == Append(queue, run[r].req)
       IN  /\ run' = [run EXCEPT ![r] = Started(Head(filled))]
           /\ queue' = Tail(filled)
    /\ unfinished' = unfinished + 1
    /\ currentTask' = r
    /\ UNCHANGED <<carries, results, prevFrame, prevSnapshot, seen>>
    /\ UNCHANGED intakeVars

(* run_once, once there is room: the put, then run_next on whatever is at  *)
(* the head, which need not be the request just put                        *)
PutThenGet(r) ==
    /\ run[r].stage = "putting"
    /\ Len(queue) < QueueMax
    /\ LET filled == Append(queue, run[r].req)
       IN  /\ run' = [run EXCEPT ![r] = Started(Head(filled))]
           /\ queue' = Tail(filled)
    /\ unfinished' = unfinished + 1
    /\ currentTask' = r
    /\ UNCHANGED <<carries, results, prevFrame, prevSnapshot, seen>>
    /\ UNCHANGED intakeVars

(* Mutant: the plan is made from the head of the queue without popping it. *)
MutantRuntimeEventPeeked(r) ==
    /\ r \in EventCallers
    /\ run[r] = Idle
    /\ pending # {}
    /\ Make(pending)
    /\ run' = [run EXCEPT ![r] = Started(NewRequest)]
    /\ currentTask' = r
    /\ UNCHANGED <<queue, unfinished, prevFrame, prevSnapshot, seen>>
    /\ UNCHANGED intakeVars

(* run_next_runtime_event.  With nothing pending it returns an aborted     *)
(* result and changes nothing.                                             *)
RunNextRuntimeEvent(r) ==
    /\ r \in EventCallers
    /\ run[r] = Idle
    /\ \E batch \in SUBSET pending :
          /\ Intake!Deliver(batch)
          /\ Make(batch)
    /\ run' = [run EXCEPT ![r] = Started(NewRequest)]
    /\ currentTask' = r
    /\ UNCHANGED <<queue, unfinished, prevFrame, prevSnapshot, seen>>

(* cancel_current, called by anyone at any time *)
CancelCurrent ==
    /\ currentTask # NoTask
    /\ ~run[currentTask].cancelled
    /\ run' = [run EXCEPT ![currentTask].cancelled = TRUE]
    /\ UNCHANGED <<queue, unfinished, carries, results, prevFrame, prevSnapshot,
                   currentTask, seen>>
    /\ UNCHANGED intakeVars

----------------------------------------------------------------------------
(* The stages of _execute_attempt. *)

(* The awaited provider answers and the next one is called. *)
To(r, stage) ==
    /\ run' = [run EXCEPT ![r].stage = stage]
    /\ UNCHANGED <<queue, unfinished, carries, results, prevFrame, prevSnapshot,
                   currentTask, seen>>
    /\ UNCHANGED intakeVars

(* observe returns; frame_differ.diff is called with _previous_frame as it *)
(* is now                                                                  *)
Observed(r) ==
    /\ Active(r, "observing")
    /\ seen' = seen + 1
    /\ run' = [run EXCEPT ![r].stage = "diffing",
                          ![r].frame = seen + 1,
                          ![r].base  = prevFrame]
    /\ UNCHANGED <<queue, unfinished, carries, results, prevFrame, prevSnapshot,
                   currentTask>>
    /\ UNCHANGED intakeVars

Diffed(r) == Active(r, "diffing") /\ To(r, "rebuilding")

(* Recovery is loaded only for a request that names a task: a queued one   *)
(* may, the request of a runtime event does not.                           *)
RebuiltForRecovery(r) ==
    /\ Active(r, "rebuilding")
    /\ RecoveryMode
    /\ carries[run[r].req] = {}
    /\ To(r, "loading")

Rebuilt(r) == Active(r, "rebuilding") /\ To(r, "policing")

(* load_latest found a snapshot and there is a reconciler *)
LoadedSnapshot(r) == Active(r, "loading") /\ To(r, "reconciling")

LoadedNothing(r) == Active(r, "loading") /\ To(r, "policing")

(* Whatever the reconciliation says, safe_to_resume included, it is only   *)
(* handed to the planner.                                                  *)
Reconciled(r) == Active(r, "reconciling") /\ To(r, "policing")

PolicyAllowed(r) == Active(r, "policing") /\ To(r, "planning")

(* Mutant: the baseline moves on before the transition was verified. *)
MutantPlannedCommits(r) ==
    /\ Active(r, "planning")
    /\ run' = [run EXCEPT ![r].stage = "verifying", ![r].before = prevSnapshot]
    /\ prevFrame' = run[r].frame
    /\ prevSnapshot' = run[r].frame
    /\ UNCHANGED <<queue, unfinished, carries, results, currentTask, seen>>
    /\ UNCHANGED intakeVars

(* plan returns; the verifier gets _previous_snapshot as it is now *)
Planned(r) ==
    /\ Active(r, "planning")
    /\ run' = [run EXCEPT ![r].stage = "verifying", ![r].before = prevSnapshot]
    /\ UNCHANGED <<queue, unfinished, carries, results, prevFrame, prevSnapshot,
                   currentTask, seen>>
    /\ UNCHANGED intakeVars

----------------------------------------------------------------------------
(* How an attempt ends. *)

(* Mutant: task_done is called for a request that never was in the queue. *)
MutantReturnAlwaysDone(r, status) ==
    /\ results' = [results EXCEPT ![run[r].req] = status]
    /\ run' = [run EXCEPT ![r] = Idle]
    /\ currentTask' = NoTask
    /\ unfinished' = unfinished - 1
    /\ UNCHANGED <<queue, carries, seen>>
    /\ UNCHANGED intakeVars

(* Mutant: no finally clause. *)
MutantReturnKeepsTask(r, status) ==
    /\ results' = [results EXCEPT ![run[r].req] = status]
    /\ run' = [run EXCEPT ![r] = Idle]
    /\ unfinished' = IF carries[run[r].req] = {} THEN unfinished - 1 ELSE unfinished
    /\ UNCHANGED <<queue, carries, seen, currentTask>>
    /\ UNCHANGED intakeVars

(* _run_request returns: finally clears _current_task, whoever it names,   *)
(* and run_next calls task_done for a request that came from the queue.    *)
Return(r, status) ==
    /\ results' = [results EXCEPT ![run[r].req] = status]
    /\ run' = [run EXCEPT ![r] = Idle]
    /\ currentTask' = NoTask
    /\ unfinished' = IF carries[run[r].req] = {} THEN unfinished - 1 ELSE unfinished
    /\ UNCHANGED <<queue, carries, seen>>
    /\ UNCHANGED intakeVars

NoCommit == UNCHANGED <<prevFrame, prevSnapshot>>

(* Mutant: the snapshot is not remembered with its frame. *)
MutantVerifiedFrameOnly(r) ==
    /\ Active(r, "verifying")
    /\ prevFrame' = run[r].frame
    /\ UNCHANGED prevSnapshot
    /\ Return(r, "completed")

(* verify returns: the observation becomes the baseline of later attempts *)
Verified(r) ==
    /\ Active(r, "verifying")
    /\ prevFrame' = run[r].frame
    /\ prevSnapshot' = run[r].frame
    /\ Return(r, "completed")

(* The policy denies or asks for review: no retry. *)
PolicyRefused(r) ==
    /\ Active(r, "policing")
    /\ Return(r, "aborted")
    /\ NoCommit

(* Mutant: _current_task is set once, before the loop over the attempts. *)
MutantRetryUnnamed(r) ==
    /\ run' = [run EXCEPT ![r] = [Started(run[r].req) EXCEPT !.attempt = run[r].attempt + 1]]
    /\ currentTask' = NoTask
    /\ UNCHANGED <<queue, unfinished, carries, results, seen>>
    /\ UNCHANGED intakeVars

(* The next attempt starts in the same step: nothing is awaited between. *)
Retry(r) ==
    /\ run' = [run EXCEPT ![r] = [Started(run[r].req) EXCEPT !.attempt = run[r].attempt + 1]]
    /\ currentTask' = r
    /\ UNCHANGED <<queue, unfinished, carries, results, seen>>
    /\ UNCHANGED intakeVars

(* Mutant: one attempt too many. *)
MutantTimedOutOneMore(r) ==
    /\ Running(r)
    /\ ~run[r].cancelled
    /\ IF run[r].attempt <= MaxAttempts /\ RetryOnTimeout
       THEN Retry(r) ELSE Return(r, "timed_out")
    /\ NoCommit

TimedOut(r) ==
    /\ Running(r)
    /\ ~run[r].cancelled
    /\ IF run[r].attempt < MaxAttempts /\ RetryOnTimeout
       THEN Retry(r) ELSE Return(r, "timed_out")
    /\ NoCommit

(* A provider raises, or the runtime I/O boundary reports a failure. *)
Raised(r) ==
    /\ Running(r)
    /\ ~run[r].cancelled
    /\ IF run[r].attempt < MaxAttempts /\ RetryOnException
       THEN Retry(r) ELSE Return(r, "aborted")
    /\ NoCommit

(* Mutant: a cancellation is taken for the timeout and retried. *)
MutantCancelledRetried(r) ==
    /\ Running(r)
    /\ run[r].cancelled
    /\ IF run[r].attempt < MaxAttempts /\ RetryOnTimeout
       THEN Retry(r) ELSE Return(r, "cancelled")
    /\ NoCommit

(* The CancelledError arrives and is turned into a result. *)
Cancelled(r) ==
    /\ Running(r)
    /\ run[r].cancelled
    /\ Return(r, "cancelled")
    /\ NoCommit

Step(r) ==
    \/ Observed(r) \/ Diffed(r) \/ RebuiltForRecovery(r) \/ Rebuilt(r)
    \/ LoadedSnapshot(r) \/ LoadedNothing(r) \/ Reconciled(r)
    \/ PolicyAllowed(r) \/ PolicyRefused(r) \/ Planned(r) \/ Verified(r)
    \/ Cancelled(r) \/ TimedOut(r) \/ Raised(r)

Next ==
    \/ Enqueue
    \/ EnqueueRuntimeEvent
    \/ CancelCurrent
    \/ \E r \in Runners :
          \/ RunNext(r) \/ RunOnce(r) \/ PutThenGet(r) \/ RunNextRuntimeEvent(r)
          \/ Step(r)

Spec == Init /\ [][Next]_vars

(* An attempt goes on, or asyncio.timeout ends it; run_until_empty takes   *)
(* the next request while there is one; a put that has room is resumed.    *)
(* Nobody has to enqueue, submit or cancel anything.                       *)
FairSpec ==
    /\ Spec
    /\ \A r \in Runners : WF_vars(Step(r)) /\ WF_vars(PutThenGet(r))
    /\ \A r \in Drainers : WF_vars(RunNext(r))

----------------------------------------------------------------------------
(* Properties. *)

Made == DOMAIN carries
Putting(r) == run[r].stage = "putting"
Queued == {queue[i] : i \in DOMAIN queue}
InHand == {run[r].req : r \in {q \in Runners : run[q] # Idle}}
QueuedRuns == {r \in Runners : Running(r) /\ carries[run[r].req] = {}}

TypeOK ==
    /\ queue \in Seq(Nat)
    /\ Len(queue) <= QueueMax
    /\ unfinished \in Nat
    /\ carries \in Seq(SUBSET (1 .. MaxEvents))
    /\ results \in Seq(Statuses \cup {"open"})
    /\ run \in [Runners -> Run]
    /\ prevFrame \in 0 .. seen
    /\ prevSnapshot \in 0 .. seen
    /\ currentTask \in Runners \cup {NoTask}
    /\ seen \in Nat
    /\ submitted \in 0 .. MaxEvents
    /\ pending \in SUBSET (1 .. submitted)
    /\ delivered \in SUBSET (1 .. submitted)

(* Every request made is in exactly one place: in the queue once, in the   *)
(* hands of one runner, or answered; no two runners work on the same       *)
(* request, and asyncio.Queue waits for exactly the queued requests that   *)
(* are not answered yet, so that join() returns when they all are.         *)
(* (run_once puts one request and may run another one.)                    *)
EveryRequestInOnePlace ==
    /\ Len(results) = Len(carries)
    /\ Queued \cup InHand = {id \in Made : results[id] = "open"}
    /\ Queued \cap InHand = {}
    /\ \A i, j \in DOMAIN queue : queue[i] = queue[j] => i = j
    /\ \A r, q \in Runners :
          run[r] # Idle /\ run[q] # Idle /\ run[r].req = run[q].req => r = q
    /\ unfinished = Len(queue) + Cardinality(QueuedRuns)

(* A runtime event the coordinator handed out travels in exactly one       *)
(* request, retries included, and a request carries no event that was not  *)
(* handed out.  As long as that request is not answered, a runner is in    *)
(* the middle of it: no failed attempt drops it and nobody queues it.      *)
(* (run_next_runtime_event)                                                *)
EventsCarried ==
    /\ delivered = UNION {carries[id] : id \in Made}
    /\ delivered \cap pending = {}
    /\ \A i, j \in Made : i # j => carries[i] \cap carries[j] = {}
    /\ \A id \in Made :
          carries[id] # {} /\ results[id] = "open" => \E r \in Runners : Running(r) /\ run[r].req = id

(* _current_task never names a task that is not inside _run_request: a     *)
(* late cancel_current cannot hit the caller of a run that has returned.   *)
CurrentTaskRunning == currentTask # NoTask => Running(currentTask)

(* The baseline of later diffs is never the frame of an attempt that may   *)
(* still fail, be cancelled or be refused by the policy.                   *)
BaselineSettled ==
    \A r \in Runners : Running(r) /\ run[r].frame # 0 => run[r].frame # prevFrame

(* Retries are bounded: no request is observed more than max_attempts      *)
(* times, timeouts and exceptions of its attempts mixed in any way.        *)
ObservationsBounded ==
    /\ seen <= MaxAttempts * Cardinality(Made)
    /\ \A r \in Runners : run[r].attempt <= MaxAttempts

(* A task on which Task.cancel was called takes no further step than to    *)
(* return "cancelled" for the request it had: no stage is entered, nothing *)
(* is retried and no baseline moves, whatever timeout races with it.       *)
CancelHonoured ==
    [][\A r \in Runners :
          run[r].cancelled =>
              \/ run'[r] = run[r]
              \/ /\ run'[r] = Idle
                 /\ results'[run[r].req] = "cancelled"
                 /\ UNCHANGED <<prevFrame, prevSnapshot>>]_vars

(* Every request made is answered, whatever its providers do: the timeout  *)
(* ends an attempt that hangs and the attempts are counted.                *)
EventuallyAnswered ==
    \A id \in 1 .. MaxRequests : id \in Made ~> (id \in Made /\ results[id] # "open")

(* The frame a new observation was diffed against and the snapshot it is   *)
(* verified against belong together.  Only true while one runner at a time *)
(* is inside _run_request: both are read from self, two awaits apart.      *)
SameBaseline ==
    \A r \in Runners : run[r].stage = "verifying" => run[r].before = run[r].base

(* "Cancel the currently running orchestration task, if any": while a task *)
(* runs, cancel_current reaches it.  Holds for one runner, violated for    *)
(* two: see the findings.                                                  *)
CancelReachesRunning ==
    (\E r \in Runners : Running(r)) => currentTask # NoTask

=============================================================================
