----------------------------- MODULE ReplayRun -----------------------------
(***************************************************************************)
(* The replay harness: run() drives the requests of a session through the  *)
(* orchestrator one after the other, and the providers of the orchestrator *)
(* take frames and snapshots from one cursor over the session's entries.   *)
(* run() may be called again on the same harness, also while another call  *)
(* is in progress; the cursor is never set back.                           *)
(*                                                                         *)
(* The replay providers do not suspend: an attempt takes the next entry,   *)
(* diffs and rebuilds in one step of the event loop, and an attempt that   *)
(* fails is repeated without giving the loop away.  Recovery loading,      *)
(* reconciliation and the policy go through the runtime I/O boundary; the  *)
(* first two run in a thread if their provider says they may.  A timeout   *)
(* ends the await, not the thread.  The callables of the caller (policy,   *)
(* planner, verifier, a recovery provider that stays in the loop) may      *)
(* suspend.                                                                *)
(***************************************************************************)
EXTENDS Naturals, Sequences

CONSTANTS
    Callers,           \* tasks that call run()
    Harnesses,         \* session, retry policy and recovery providers of the harness
    MaxRuns            \* bound: calls of run()

BoundaryStages == {"loading", "reconciling"}
Entry == [frame : BOOLEAN, snapshot : BOOLEAN, task : BOOLEAN]

(* recovery: recovery mode, with a loader and a reconciler; offload: the    *)
(* providers that are runtime_io_thread_offload_safe.                       *)
Harness == [session : Seq(Entry), attempts : Nat \ {0}, onTimeout : BOOLEAN,
            onException : BOOLEAN, recovery : BOOLEAN, offload : SUBSET BoundaryStages]

ASSUME HarnessAssumption ==
    /\ MaxRuns \in Nat
    /\ \A h \in Harnesses : h \in Harness

VARIABLES
    harness,    \* the harness, built once
    index,      \* cursor.index: entries handed out
    run,        \* per caller: the run it is in
    taken,      \* per caller: the entries its completed requests ran on
    threads,    \* calls that run in a thread
    calls,      \* calls of a recovery provider so far
    runs,       \* calls of run() so far
    retried     \* an attempt was retried

vars == <<harness, index, run, taken, threads, calls, runs, retried>>

Session == harness.session
Last == Len(Session)
Ends == {"completed", "cancelled", "timed_out", "aborted", "missing"}
Stages == BoundaryStages \cup {"idle", "starting", "policing", "planning", "verifying"}

(* position is the request; entry what the attempt observed; call the      *)
(* provider call it awaits (0: none); since the number of calls when the   *)
(* attempt began; recovered the call its recovery snapshot came from.      *)
Run == [stage : Stages, position : Nat, attempt : Nat, entry : Nat, call : Nat,
        since : Nat, recovered : Nat, ended : Ends \cup {"never"}]
Thread == [call : Nat, caller : Callers, stage : BoundaryStages]

Resting(end) ==
    [stage |-> "idle", position |-> 0, attempt |-> 0, entry |-> 0, call |-> 0,
     since |-> 0, recovered |-> 0, ended |-> end]

Fresh(position, attempt) ==
    [stage |-> "starting", position |-> position, attempt |-> attempt, entry |-> 0, call |-> 0,
     since |-> 0, recovered |-> 0, ended |-> "never"]

Init ==
    /\ harness \in Harnesses
    /\ index = 0 /\ threads = {} /\ calls = 0 /\ runs = 0 /\ retried = FALSE
    /\ run = [c \in Callers |-> Resting("never")]
    /\ taken = [c \in Callers |-> <<>>]

(* A task gives the event loop away only where it awaits. *)
LoopFree == \A c \in Callers : run[c].stage # "starting"

(* run(): an empty session is refused at once. *)
StartRun(c) ==
    /\ LoopFree /\ run[c].stage = "idle" /\ runs < MaxRuns
    /\ run' = [run EXCEPT ![c] = IF Session = <<>> THEN Resting("missing") ELSE Fresh(1, 1)]
    /\ taken' = [taken EXCEPT ![c] = <<>>]
    /\ runs' = runs + 1
    /\ UNCHANGED <<harness, index, threads, calls, retried>>

----------------------------------------------------------------------------
(* How an attempt and a run end. *)

(* run() returns at the first result that is not completed. *)
Return(c, end) ==
    /\ run' = [run EXCEPT ![c] = Resting(end)]
    /\ UNCHANGED <<taken, retried>>

Retry(c, attempt) ==
    /\ run' = [run EXCEPT ![c] = Fresh(run[c].position, attempt)]
    /\ retried' = TRUE
    /\ UNCHANGED taken

(* Mutant: a repeated attempt is not counted. *)
FailUncounted(c, retry, end) ==
    IF run[c].attempt < harness.attempts /\ retry THEN Retry(c, run[c].attempt)
                                                  ELSE Return(c, end)

(* An attempt that failed is repeated if the policy says so; the cursor     *)
(* stays where the attempt left it.                                         *)
Fail(c, retry, end) ==
    IF run[c].attempt < harness.attempts /\ retry THEN Retry(c, run[c].attempt + 1)
                                                  ELSE Return(c, end)

Raise(c, end) == Fail(c, harness.onException, end)

(* Mutant: the run is complete when no entry is left. *)
CompleteAtTheEnd(c) ==
    /\ taken' = [taken EXCEPT ![c] = Append(@, run[c].entry)]
    /\ run' = [run EXCEPT ![c] = IF index = Last THEN Resting("completed")
                                 ELSE Fresh(run[c].position + 1, 1)]
    /\ UNCHANGED retried

(* The verifier answered: the request is completed, the next one follows. *)
Complete(c) ==
    /\ taken' = [taken EXCEPT ![c] = Append(@, run[c].entry)]
    /\ run' = [run EXCEPT ![c] = IF run[c].position = Last THEN Resting("completed")
                                 ELSE Fresh(run[c].position + 1, 1)]
    /\ UNCHANGED retried

----------------------------------------------------------------------------
(* An attempt. *)

(* To a stage; the call of a recovery provider gets a number, and a thread  *)
(* of its own where the boundary offloads it.  running: the other threads.  *)
Enter(c, stage, entry, since, recovered, running) ==
    LET called == stage \in BoundaryStages
        call == IF called THEN calls + 1 ELSE 0
        started == IF stage \in harness.offload
                   THEN {[call |-> calls + 1, caller |-> c, stage |-> stage]} ELSE {}
    IN  /\ run' = [run EXCEPT ![c] =
                      [stage |-> stage, position |-> run[c].position, attempt |-> run[c].attempt,
                       entry |-> entry, call |-> call, since |-> since, recovered |-> recovered,
                       ended |-> "never"]]
        /\ calls' = IF called THEN calls + 1 ELSE calls
        /\ threads' = running \cup started
        /\ UNCHANGED <<taken, retried>>

(* Mutant: the session counts as exhausted one entry early. *)
ExhaustedEarly == index + 1 >= Last

(* next_entry of the cursor raises. *)
Exhausted == index >= Last

AfterRebuild(c) ==
    IF harness.recovery /\ Session[run[c].position].task THEN "loading" ELSE "policing"

(* observe, diff and rebuild: the entry is taken before it turns out that   *)
(* its frame or its snapshot is missing.                                    *)
BeginAttempt(c) ==
    /\ run[c].stage = "starting"
    /\ IF Exhausted
       THEN Raise(c, "missing") /\ UNCHANGED <<index, threads, calls>>
       ELSE /\ index' = index + 1
            /\ IF Session[index + 1].frame /\ Session[index + 1].snapshot
               THEN Enter(c, AfterRebuild(c), index + 1, calls, 0, threads)
               ELSE Raise(c, "missing") /\ UNCHANGED <<threads, calls>>
    /\ UNCHANGED <<harness, runs>>

(* What the awaited call of a recovery provider leads to: a failure, the    *)
(* policy, or, with a snapshot, reconciliation.  source is the call its     *)
(* value came from, running the threads that are left.                      *)
Answered(c, source, running) ==
    \/ Raise(c, "aborted") /\ threads' = running /\ calls' = calls
    \/ Enter(c, "policing", run[c].entry, run[c].since, run[c].recovered, running)
    \/ /\ run[c].stage = "loading"
       /\ Enter(c, "reconciling", run[c].entry, run[c].since, source, running)

(* The provider is called in the event loop. *)
CallInLoop(c) ==
    /\ LoopFree /\ run[c].stage \in BoundaryStages \ harness.offload
    /\ Answered(c, run[c].call, threads)
    /\ UNCHANGED <<harness, index, runs>>

(* Mutant: a thread answers whoever waits for such a call. *)
AwaitsAny(t) == run[t.caller].stage = t.stage

(* to_thread: the answer goes to the await that started the thread.         *)
Awaits(t) == run[t.caller].call = t.call

(* The thread is done; nobody hears of it if the await has ended.           *)
ThreadReturns(t) ==
    /\ LoopFree /\ t \in threads
    /\ IF Awaits(t) THEN Answered(t.caller, t.call, threads \ {t})
       ELSE threads' = threads \ {t} /\ UNCHANGED <<run, taken, retried, calls>>
    /\ UNCHANGED <<harness, index, runs>>

(* A verdict other than allow ends the request; it is no failure to retry.  *)
PolicyAnswers(c) ==
    /\ LoopFree /\ run[c].stage = "policing"
    /\ \/ run' = [run EXCEPT ![c].stage = "planning"] /\ UNCHANGED <<taken, retried>>
       \/ Return(c, "aborted")
       \/ Raise(c, "aborted")
    /\ UNCHANGED <<harness, index, threads, calls, runs>>

PlannerAnswers(c) ==
    /\ LoopFree /\ run[c].stage = "planning"
    /\ \/ run' = [run EXCEPT ![c].stage = "verifying"] /\ UNCHANGED <<taken, retried>>
       \/ Raise(c, "aborted")
    /\ UNCHANGED <<harness, index, threads, calls, runs>>

VerifierAnswers(c) ==
    /\ LoopFree /\ run[c].stage = "verifying"
    /\ Complete(c) \/ Raise(c, "aborted")
    /\ UNCHANGED <<harness, index, threads, calls, runs>>

(* An await that ends early leaves its thread running, unless the pool had  *)
(* not started it yet.                                                      *)
Abandon(c) == \/ threads' = threads
              \/ threads' = {t \in threads : ~Awaits(t) \/ t.caller # c}

Awaiting(c) == run[c].stage \notin {"idle", "starting"}

TimedOut(c) ==
    /\ LoopFree /\ Awaiting(c) /\ Abandon(c)
    /\ Fail(c, harness.onTimeout, "timed_out")
    /\ UNCHANGED <<harness, index, calls, runs>>

(* The cancellation of the caller's task becomes a result and is not        *)
(* retried.                                                                 *)
Cancelled(c) ==
    /\ LoopFree /\ Awaiting(c) /\ Abandon(c)
    /\ Return(c, "cancelled")
    /\ UNCHANGED <<harness, index, calls, runs>>

Step(c) ==
    \/ BeginAttempt(c) \/ CallInLoop(c) \/ PolicyAnswers(c) \/ PlannerAnswers(c)
    \/ VerifierAnswers(c) \/ TimedOut(c)

Next ==
    \/ \E c \in Callers : StartRun(c) \/ Step(c) \/ Cancelled(c)
    \/ \E t \in threads : ThreadReturns(t)

(* The loop runs a task that can go on, and the timeout of an attempt       *)
(* fires if nothing else happens.  Threads may never end.                   *)
Spec == Init /\ [][Next]_vars /\ \A c \in Callers : WF_vars(Step(c))

----------------------------------------------------------------------------
(* A replay that reports "completed" replayed the session: each request was *)
(* evaluated on its own entry, in order, whatever attempts were repeated    *)
(* and whichever other runs shared the cursor.                              *)
CompletedRunExact ==
    \A c \in Callers :
        run[c].ended = "completed" =>
            /\ Len(taken[c]) = Last
            /\ \A i \in 1..Last : taken[c][i] = i

Incomplete == Session = <<>> \/ \E i \in 1..Last : ~Session[i].frame \/ ~Session[i].snapshot

(* "Missing replay data" is reported for a session with a hole, or because  *)
(* an attempt was repeated or run() was called again: an intact session     *)
(* replayed once, without a retry, is never reported as incomplete.         *)
MissingExplained ==
    \A c \in Callers :
        run[c].ended = "missing" => Incomplete \/ retried \/ runs > 1

(* The recovery snapshot of an attempt was loaded for that attempt: the     *)
(* late answer of a call that timed out never becomes the answer of the     *)
(* call a retry waits for.                                                  *)
OwnRecovery == \A c \in Callers : run[c].recovered # 0 => run[c].recovered > run[c].since

(* Every run of the harness ends, whatever the providers do: the timeout    *)
(* ends an attempt, and the retries are bounded.                            *)
RunReturns == \A c \in Callers : run[c].stage # "idle" ~> run[c].stage = "idle"
=============================================================================
