----------------------- MODULE MainLoopBaselineProofs -----------------------
(***************************************************************************)
(* Proofs about the baseline of MainLoop: the frame and the snapshot later *)
(* attempts are compared with.  For any number of runners the baseline is  *)
(* settled.  For one runner it is also consistent, and cancel_current      *)
(* reaches the request that runs.  For two runners neither holds (for      *)
(* cancel_current, see the findings), so that there is only one is a       *)
(* premise of these two theorems.                                          *)
(*                                                                         *)
(* And proofs that retries are counted: observations of a request, and the *)
(* steps a request may still take.                                         *)
(***************************************************************************)
EXTENDS MainLoopProofs

(* What one step does to the runners and to the state they share. *)

(* r is given a request, or starts its next attempt. *)
Starts(r) ==
    \E x \in Run :
        /\ run' = [run EXCEPT ![r] = x]
        /\ x.frame = 0
        /\ \/ x.stage = "putting" /\ run[r] = Idle /\ UNCHANGED currentTask
           \/ x.stage = "observing" /\ currentTask' = r
        /\ UNCHANGED <<prevFrame, prevSnapshot, seen>>

(* r goes on: it gets a frame, or the snapshot to verify against, or not. *)
GoesOn(r) ==
    \E x \in Run :
        /\ run' = [run EXCEPT ![r] = x]
        /\ Running(r) /\ x.stage \in Stages
        /\ \/ /\ x.frame = seen + 1 /\ seen' = seen + 1
              /\ x.stage = "diffing" /\ x.base = prevFrame
           \/ /\ x.frame = run[r].frame /\ x.base = run[r].base /\ UNCHANGED seen
              /\ \/ x.stage = run[r].stage /\ x.before = run[r].before
                 \/ /\ x.stage \in Stages \ {"observing", "verifying"}
                    /\ run[r].stage # "observing"
                 \/ /\ run[r].stage = "planning" /\ x.stage = "verifying"
                    /\ x.before = prevSnapshot
        /\ UNCHANGED <<prevFrame, prevSnapshot, currentTask>>

(* r answers its request; a verified one becomes the baseline. *)
Answers(r) ==
    /\ run' = [run EXCEPT ![r] = Idle]
    /\ Running(r)
    /\ currentTask' = NoTask
    /\ \/ UNCHANGED <<prevFrame, prevSnapshot>>
       \/ run[r].stage = "verifying" /\ prevFrame' = run[r].frame /\ prevSnapshot' = run[r].frame
    /\ UNCHANGED seen

Still == UNCHANGED <<run, prevFrame, prevSnapshot, currentTask, seen>>

LEMMA StartedStarts ==
    ASSUME NEW r \in Runners, NEW id \in Nat, NEW n \in Nat,
           run' = [run EXCEPT ![r] = [Started(id) EXCEPT !.attempt = n]],
           currentTask' = r,
           UNCHANGED <<prevFrame, prevSnapshot, seen>>
    PROVE  Starts(r)
<1> DEFINE x == [Started(id) EXCEPT !.attempt = n]
<1>1. x \in Run /\ x.frame = 0 /\ x.stage = "observing"
    BY DEF Started, Idle, Run, Stages
<1> HIDE DEF x
<1>2. run' = [run EXCEPT ![r] = x]
    BY DEF x
<1>3. QED
    BY <1>1, <1>2 DEF Starts

LEMMA ToGoesOn ==
    ASSUME TypeOK, NEW r \in Runners, NEW stage \in Stages \ {"observing", "verifying"},
           Running(r), run[r].stage # "observing", To(r, stage)
    PROVE  GoesOn(r)
<1> DEFINE x == [run[r] EXCEPT !.stage = stage]
<1>1. run[r] \in Run
    BY DEF TypeOK
<1>2. /\ x \in Run /\ x.stage = stage /\ x.frame = run[r].frame /\ x.base = run[r].base
    BY <1>1 DEF Run
<1>3. run' = [run EXCEPT ![r] = x] /\ UNCHANGED <<seen, prevFrame, prevSnapshot, currentTask>>
    BY DEF To
<1> HIDE DEF x
<1>4. QED
    BY <1>2, <1>3 DEF GoesOn

LEMMA StageClass ==
    ASSUME TypeOK, NEW r \in Runners, Step(r)
    PROVE  Starts(r) \/ GoesOn(r) \/ Answers(r)
<1>0. run[r] \in Run /\ run[r].attempt \in Nat /\ run[r].req \in Nat /\ seen \in Nat
      /\ prevFrame \in Nat /\ prevSnapshot \in Nat
    BY DEF TypeOK, Run
<1>1. CASE Observed(r)
  <2> DEFINE x == [run[r] EXCEPT !.stage = "diffing", !.frame = seen + 1, !.base = prevFrame]
  <2>1. x \in Run /\ x.stage = "diffing" /\ x.frame = seen + 1 /\ x.base = prevFrame
    <3>1. "diffing" \in Stages \cup {"idle", "putting"} /\ seen + 1 \in Nat
        BY <1>0 DEF Stages
    <3>2. QED
        BY <1>0, <3>1 DEF Run
  <2>2. run' = [run EXCEPT ![r] = x] /\ seen' = seen + 1 /\ Running(r)
        /\ UNCHANGED <<prevFrame, prevSnapshot, currentTask>> /\ "diffing" \in Stages
      BY <1>0, <1>1 DEF Observed, Active, Running, Stages, TypeOK
  <2> HIDE DEF x
  <2>3. QED
      BY <2>1, <2>2 DEF GoesOn
<1>2. CASE Diffed(r) \/ RebuiltForRecovery(r) \/ Rebuilt(r) \/ LoadedSnapshot(r)
           \/ LoadedNothing(r) \/ Reconciled(r) \/ PolicyAllowed(r)
  <2>1. \E stage \in Stages \ {"observing", "verifying"} :
            Running(r) /\ run[r].stage # "observing" /\ To(r, stage)
      BY <1>2 DEF Diffed, RebuiltForRecovery, Rebuilt, LoadedSnapshot, LoadedNothing,
                  Reconciled, PolicyAllowed, Active, Running, Stages
  <2>2. QED
      BY <2>1, ToGoesOn
<1>3. CASE Planned(r)
  <2> DEFINE x == [run[r] EXCEPT !.stage = "verifying", !.before = prevSnapshot]
  <2>1. x \in Run /\ x.stage = "verifying" /\ x.frame = run[r].frame /\ x.base = run[r].base
        /\ x.before = prevSnapshot
      BY <1>0 DEF Run, Stages
  <2>2. run' = [run EXCEPT ![r] = x] /\ Running(r) /\ run[r].stage = "planning"
        /\ UNCHANGED <<seen, prevFrame, prevSnapshot, currentTask>> /\ "verifying" \in Stages
      BY <1>0, <1>3 DEF Planned, Active, Running, Stages, TypeOK
  <2> HIDE DEF x
  <2>3. QED
      BY <2>1, <2>2 DEF GoesOn
<1>4. CASE Verified(r) \/ PolicyRefused(r) \/ Cancelled(r)
    BY <1>4 DEF Verified, PolicyRefused, Cancelled, Return, NoCommit, Answers, Active,
                Running, Stages
<1>5. CASE TimedOut(r) \/ Raised(r)
  <2>1. CASE Retry(r) /\ NoCommit
    <3>1. run[r].attempt + 1 \in Nat
        BY <1>0
    <3>2. run' = [run EXCEPT ![r] = [Started(run[r].req) EXCEPT !.attempt = run[r].attempt + 1]]
          /\ currentTask' = r /\ UNCHANGED <<prevFrame, prevSnapshot, seen>>
        BY <2>1 DEF Retry, NoCommit
    <3>3. QED
        BY <1>0, <3>1, <3>2, StartedStarts
  <2>2. CASE Running(r) /\ NoCommit /\ \E status \in Statuses : Return(r, status)
      BY <2>2 DEF Return, NoCommit, Answers
  <2>3. QED
      BY <1>5, <2>1, <2>2 DEF TimedOut, Raised, Statuses
<1>6. QED
    BY <1>1, <1>2, <1>3, <1>4, <1>5 DEF Step

LEMMA StepClass ==
    ASSUME IInv, [Next]_vars
    PROVE  Still \/ \E r \in Runners : Starts(r) \/ GoesOn(r) \/ Answers(r)
<1>0. TypeOK /\ CurrentTaskRunning
    BY DEF IInv
<1>1. CASE Enqueue \/ EnqueueRuntimeEvent \/ UNCHANGED vars
    BY <1>1 DEF Enqueue, EnqueueRuntimeEvent, vars, loopVars, Still
<1>2. CASE CancelCurrent
  <2> DEFINE r == currentTask
             x == [run[r] EXCEPT !.cancelled = TRUE]
  <2>1. r \in Runners /\ Running(r) /\ run[r] \in Run
      BY <1>0, <1>2 DEF CancelCurrent, CurrentTaskRunning, TypeOK
  <2>2. /\ x \in Run /\ x.stage = run[r].stage /\ x.frame = run[r].frame
        /\ x.base = run[r].base /\ x.before = run[r].before
      BY <2>1 DEF Run
  <2>3. run' = [run EXCEPT ![r] = x] /\ UNCHANGED <<seen, prevFrame, prevSnapshot, currentTask>>
      BY <1>2 DEF CancelCurrent
  <2> HIDE DEF x
  <2>4. GoesOn(r)
      BY <2>1, <2>2, <2>3 DEF GoesOn, Running
  <2>5. QED
      BY <2>1, <2>4
<1>3. ASSUME NEW r \in Runners, RunOnce(r) PROVE Starts(r)
  <2> DEFINE x == [Idle EXCEPT !.stage = "putting", !.req = NewRequest]
  <2>1. NewRequest \in Nat
      BY <1>0 DEF NewRequest, TypeOK
  <2>2. x \in Run /\ x.stage = "putting" /\ x.frame = 0
      BY <2>1 DEF Run, Idle
  <2>3. run' = [run EXCEPT ![r] = x] /\ run[r] = Idle
        /\ UNCHANGED <<seen, prevFrame, prevSnapshot, currentTask>>
      BY <1>3 DEF RunOnce
  <2> HIDE DEF x
  <2>4. QED
      BY <2>2, <2>3 DEF Starts
<1>4. ASSUME NEW r \in Runners, RunNext(r) \/ PutThenGet(r) \/ RunNextRuntimeEvent(r)
      PROVE  Starts(r)
  <2>1. \E id \in Nat : run' = [run EXCEPT ![r] = Started(id)]
    <3>1. CASE RunNext(r)
      <4>1. queue \in Seq(Nat) /\ queue # <<>>
          BY <1>0, <3>1 DEF RunNext, TypeOK
      <4>2. Head(queue) \in Nat
          BY <4>1
      <4>3. QED
          BY <3>1, <4>2 DEF RunNext
    <3>2. CASE PutThenGet(r)
      <4>1. run[r].req \in Nat
          BY <1>0 DEF TypeOK, Run
      <4>2. Head(Append(queue, run[r].req)) \in Nat
          BY <1>0, <4>1 DEF TypeOK
      <4>3. QED
          BY <3>2, <4>2 DEF PutThenGet
    <3>3. CASE RunNextRuntimeEvent(r)
      <4>1. NewRequest \in Nat
          BY <1>0 DEF NewRequest, TypeOK
      <4>2. QED
          BY <3>3, <4>1 DEF RunNextRuntimeEvent
    <3>4. QED
        BY <1>4, <3>1, <3>2, <3>3
  <2>2. PICK id \in Nat : run' = [run EXCEPT ![r] = Started(id)]
      BY <2>1
  <2>3. Started(id) = [Started(id) EXCEPT !.attempt = 1]
      BY DEF Started, Idle
  <2>4. currentTask' = r /\ UNCHANGED <<prevFrame, prevSnapshot, seen>>
      BY <1>4 DEF RunNext, PutThenGet, RunNextRuntimeEvent
  <2>5. QED
      BY <2>2, <2>3, <2>4, StartedStarts
<1>5. QED
    BY <1>0, <1>1, <1>2, <1>3, <1>4, StageClass DEF Next

----------------------------------------------------------------------------
(* Any number of runners. *)

(* No two runners hold the same frame, and none holds the baseline. *)
FramesApart ==
    /\ \A r, q \in Runners : run[r].frame # 0 /\ run[r].frame = run[q].frame => r = q
    /\ \A r \in Runners : run[r].frame # 0 => run[r].frame # prevFrame

LEMMA FramesStep == IInv /\ FramesApart /\ [Next]_vars => FramesApart'
<1> SUFFICES ASSUME IInv, FramesApart, [Next]_vars PROVE FramesApart'
    OBVIOUS
<1>0. /\ run \in [Runners -> Run] /\ seen \in Nat /\ prevFrame \in Nat /\ prevFrame <= seen
      /\ \A q \in Runners : run[q].frame \in Nat /\ run[q].frame <= seen
    BY DEF IInv, TypeOK, Supporting, Run
<1>1. CASE Still
    BY <1>1 DEF Still, FramesApart
<1>2. ASSUME NEW r \in Runners, Starts(r) PROVE FramesApart'
    BY <1>0, <1>2 DEF Starts, FramesApart
<1>3. ASSUME NEW r \in Runners, GoesOn(r) PROVE FramesApart'
    BY <1>0, <1>3 DEF GoesOn, FramesApart
<1>4. ASSUME NEW r \in Runners, Answers(r) PROVE FramesApart'
    BY <1>0, <1>4 DEF Answers, FramesApart, Idle
<1>5. QED
    BY <1>1, <1>2, <1>3, <1>4, StepClass

(* The baseline is not the frame of an attempt that may still fail, be     *)
(* cancelled or be refused, however many runners share it.                 *)
THEOREM BaselineIsSettled == Spec => []BaselineSettled
<1>1. Init => FramesApart
    BY DEF Init, FramesApart, Idle
<1>2. FramesApart => BaselineSettled
    BY DEF FramesApart, BaselineSettled
<1>3. QED
    BY <1>1, <1>2, FramesStep, Invariance, PTL DEF Spec

----------------------------------------------------------------------------
(* One runner. *)

OneRunner == \A r, q \in Runners : r = q

(* What a single runner read of the baseline is still the baseline. *)
ReadsCurrent ==
    /\ prevFrame = prevSnapshot
    /\ \A r \in Runners :
          /\ Running(r) => currentTask # NoTask
          /\ Running(r) /\ run[r].stage # "observing" => run[r].base = prevFrame
          /\ run[r].stage = "verifying" => run[r].before = prevSnapshot

LEMMA ReadsStep == ASSUME OneRunner, IInv, ReadsCurrent, [Next]_vars PROVE ReadsCurrent'
<1>0. /\ run \in [Runners -> Run] /\ NoTask \notin Runners
      /\ \A r, q \in Runners : r = q
      /\ "putting" \notin Stages /\ "idle" \notin Stages /\ "verifying" \in Stages
    BY RunnersAssumption DEF IInv, TypeOK, OneRunner, Stages
<1>1. CASE Still
    BY <1>1 DEF Still, ReadsCurrent, Running
<1>2. ASSUME NEW r \in Runners, Starts(r) PROVE ReadsCurrent'
    BY <1>0, <1>2 DEF Starts, ReadsCurrent, Running
<1>3. ASSUME NEW r \in Runners, GoesOn(r) PROVE ReadsCurrent'
    BY <1>0, <1>3 DEF GoesOn, ReadsCurrent, Running
<1>4. ASSUME NEW r \in Runners, Answers(r) PROVE ReadsCurrent'
    BY <1>0, <1>4 DEF Answers, ReadsCurrent, Running, Idle
<1>5. QED
    BY <1>1, <1>2, <1>3, <1>4, StepClass

LEMMA ReadsAlways == ASSUME OneRunner PROVE Spec => []ReadsCurrent
<1>1. Init => ReadsCurrent
    BY DEF Init, ReadsCurrent, Running, Idle, Stages
<1>2. IInv /\ ReadsCurrent /\ [Next]_vars => ReadsCurrent'
    BY ReadsStep
<1>3. QED
    BY <1>1, <1>2, Invariance, PTL DEF Spec

(* With one runner, a new observation is diffed and verified against the   *)
(* same earlier one, timeouts, retries and cancellations between or not.   *)
THEOREM BaselineIsOne == OneRunner /\ Spec => []SameBaseline
<1> SUFFICES ASSUME OneRunner PROVE Spec => []SameBaseline
    OBVIOUS
<1>1. ReadsCurrent => SameBaseline
    BY DEF ReadsCurrent, SameBaseline, Running, Stages
<1>2. QED
    BY <1>1, ReadsAlways, PTL

(* With one runner, cancel_current reaches the request that runs. *)
THEOREM CancelReaches == OneRunner /\ Spec => []CancelReachesRunning
<1> SUFFICES ASSUME OneRunner PROVE Spec => []CancelReachesRunning
    OBVIOUS
<1>1. ReadsCurrent => CancelReachesRunning
    BY DEF ReadsCurrent, CancelReachesRunning
<1>2. QED
    BY <1>1, ReadsAlways, PTL

----------------------------------------------------------------------------
(* Any number of runners: observations are counted.                        *)

(* How many attempts of its request a runner has spent an observation on.  *)
Used(x) == IF x.frame = 0 THEN x.attempt - 1 ELSE x.attempt

(* Attempt h[2] of request h[1] can observe no more: it has, or the        *)
(* request is past it, or answered.                                        *)
Spent(h) ==
    \/ results[h[1]] # "open"
    \/ \E r \in Runners : Running(r) /\ run[r].req = h[1] /\ h[2] <= Used(run[r])

(* Each observation delivered so far is charged to an attempt of its own.  *)
Charged(H) ==
    /\ IsFiniteSet(H)
    /\ Cardinality(H) = seen
    /\ H \subseteq Made \X (1 .. MaxAttempts)
    /\ \A h \in H : Spent(h)

AttemptsCounted ==
    \A r \in Runners :
        /\ run[r].attempt <= MaxAttempts
        /\ Running(r) => run[r].attempt >= 1
        /\ run[r].stage = "observing" => run[r].frame = 0

ObservationsCharged == AttemptsCounted /\ \E H : Charged(H)

(* What one step does to the attempts and to the answers: r observes, r    *)
(* goes on with its request, r gets another one, r answers.                *)
Observes(r) ==
    /\ Running(r) /\ run[r].stage = "observing" /\ seen' = seen + 1
    /\ \E x \in Run :
          /\ run' = [run EXCEPT ![r] = x]
          /\ x.stage = "diffing" /\ x.req = run[r].req
          /\ x.attempt = run[r].attempt /\ x.frame # 0
    /\ UNCHANGED <<carries, results>>

Proceeds(r) ==
    /\ Running(r)
    /\ \E x \in Run :
          /\ run' = [run EXCEPT ![r] = x]
          /\ x.stage \in Stages /\ x.req = run[r].req
          /\ \/ x.attempt = run[r].attempt /\ x.frame = run[r].frame
                /\ (x.stage = "observing" => run[r].stage = "observing")
             \/ x.attempt = run[r].attempt + 1 /\ x.frame = 0 /\ x.attempt <= MaxAttempts
    /\ UNCHANGED <<carries, results, seen>>

Enters(r) ==
    /\ ~Running(r)
    /\ \E x \in Run :
          /\ run' = [run EXCEPT ![r] = x]
          /\ x.frame = 0
          /\ \/ x.stage = "putting" /\ x.attempt = 0
             \/ x.stage = "observing" /\ x.attempt = 1
    /\ UNCHANGED seen

Leaves(r) ==
    /\ Running(r)
    /\ run' = [run EXCEPT ![r] = Idle]
    /\ \E status \in Statuses : results' = [results EXCEPT ![run[r].req] = status]
    /\ UNCHANGED <<carries, seen>>

(* No request made is forgotten, and an answer stands.                     *)
AnswersStand ==
    \A id \in Made : id \in Made' /\ (results[id] # "open" => results'[id] # "open")

LEMMA CountClass ==
    ASSUME TypeOK, NEW r \in Runners, Step(r)
    PROVE  Observes(r) \/ Proceeds(r) \/ Leaves(r)
<1>0. /\ run[r] \in Run /\ run[r].attempt \in Nat /\ run[r].req \in Nat /\ seen \in Nat
      /\ prevFrame \in Nat /\ prevSnapshot \in Nat /\ MaxAttempts \in Nat
    BY LimitsAssumption DEF TypeOK, Run
<1>1. CASE Observed(r)
  <2> DEFINE x == [run[r] EXCEPT !.stage = "diffing", !.frame = seen + 1, !.base = prevFrame]
  <2>1. /\ x \in Run /\ x.stage = "diffing" /\ x.frame = seen + 1
        /\ x.req = run[r].req /\ x.attempt = run[r].attempt
    <3>1. "diffing" \in Stages \cup {"idle", "putting"} /\ seen + 1 \in Nat
        BY <1>0 DEF Stages
    <3>2. QED
        BY <1>0, <3>1 DEF Run
  <2>2. /\ run' = [run EXCEPT ![r] = x] /\ seen' = seen + 1 /\ Running(r)
        /\ run[r].stage = "observing" /\ UNCHANGED <<carries, results>>
      BY <1>0, <1>1 DEF Observed, Active, Running, Stages, TypeOK
  <2>3. x.frame # 0
      BY <1>0, <2>1
  <2> HIDE DEF x
  <2>4. QED
      BY <2>1, <2>2, <2>3 DEF Observes
<1>2. CASE Diffed(r) \/ RebuiltForRecovery(r) \/ Rebuilt(r) \/ LoadedSnapshot(r)
           \/ LoadedNothing(r) \/ Reconciled(r) \/ PolicyAllowed(r)
  <2>1. PICK stage \in Stages \ {"observing"} : Running(r) /\ To(r, stage)
      BY <1>2 DEF Diffed, RebuiltForRecovery, Rebuilt, LoadedSnapshot, LoadedNothing,
                  Reconciled, PolicyAllowed, Active, Running, Stages
  <2> DEFINE x == [run[r] EXCEPT !.stage = stage]
  <2>2. /\ x \in Run /\ x.stage = stage /\ x.frame = run[r].frame
        /\ x.req = run[r].req /\ x.attempt = run[r].attempt
      BY <1>0 DEF Run
  <2>3. run' = [run EXCEPT ![r] = x] /\ UNCHANGED <<seen, carries, results>>
      BY <2>1 DEF To
  <2> HIDE DEF x
  <2>4. QED
      BY <2>1, <2>2, <2>3 DEF Proceeds
<1>3. CASE Planned(r)
  <2> DEFINE x == [run[r] EXCEPT !.stage = "verifying", !.before = prevSnapshot]
  <2>1. /\ x \in Run /\ x.stage = "verifying" /\ x.frame = run[r].frame
        /\ x.req = run[r].req /\ x.attempt = run[r].attempt
      BY <1>0 DEF Run, Stages
  <2>2. run' = [run EXCEPT ![r] = x] /\ Running(r) /\ UNCHANGED <<seen, carries, results>>
      BY <1>0, <1>3 DEF Planned, Active, Running, Stages, TypeOK
  <2> HIDE DEF x
  <2>3. "verifying" \in Stages
      BY DEF Stages
  <2>4. QED
      BY <2>1, <2>2, <2>3 DEF Proceeds
<1>4. CASE Verified(r) \/ PolicyRefused(r) \/ Cancelled(r)
    BY <1>4 DEF Verified, PolicyRefused, Cancelled, Return, Leaves, Active, Running,
                Stages, Statuses
<1>5. CASE TimedOut(r) \/ Raised(r)
  <2>1. CASE Retry(r) /\ Running(r) /\ run[r].attempt < MaxAttempts
    <3> DEFINE x == [Started(run[r].req) EXCEPT !.attempt = run[r].attempt + 1]
    <3>1. run[r].attempt + 1 \in Nat /\ run[r].attempt + 1 <= MaxAttempts
        BY <1>0, <2>1
    <3>2. /\ x \in Run /\ x.stage = "observing" /\ x.frame = 0
          /\ x.req = run[r].req /\ x.attempt = run[r].attempt + 1
        BY <1>0, <3>1 DEF Started, Idle, Run, Stages
    <3>3. run' = [run EXCEPT ![r] = x] /\ UNCHANGED <<seen, carries, results>>
        BY <2>1 DEF Retry
    <3> HIDE DEF x
    <3>4. "observing" \in Stages
        BY DEF Stages
    <3>5. QED
        BY <2>1, <3>1, <3>2, <3>3, <3>4 DEF Proceeds
  <2>2. CASE Running(r) /\ \E status \in Statuses : Return(r, status)
      BY <2>2 DEF Return, Leaves
  <2>3. QED
      BY <1>5, <2>1, <2>2 DEF TimedOut, Raised, Statuses
<1>6. QED
    BY <1>1, <1>2, <1>3, <1>4, <1>5 DEF Step

LEMMA CountStepClass ==
    ASSUME IInv, [Next]_vars
    PROVE  \/ UNCHANGED <<run, seen>>
           \/ \E r \in Runners : Observes(r) \/ Proceeds(r) \/ Enters(r) \/ Leaves(r)
<1>0. TypeOK /\ CurrentTaskRunning
    BY DEF IInv
<1>1. CASE Enqueue \/ EnqueueRuntimeEvent \/ UNCHANGED vars
    BY <1>1 DEF Enqueue, EnqueueRuntimeEvent, vars, loopVars
<1>2. CASE CancelCurrent
  <2> DEFINE r == currentTask
             x == [run[r] EXCEPT !.cancelled = TRUE]
  <2>1. r \in Runners /\ Running(r) /\ run[r] \in Run
      BY <1>0, <1>2 DEF CancelCurrent, CurrentTaskRunning, TypeOK
  <2>2. /\ x \in Run /\ x.stage = run[r].stage /\ x.frame = run[r].frame
        /\ x.req = run[r].req /\ x.attempt = run[r].attempt
      BY <2>1 DEF Run
  <2>3. run' = [run EXCEPT ![r] = x] /\ UNCHANGED <<seen, carries, results>>
      BY <1>2 DEF CancelCurrent
  <2> HIDE DEF x
  <2>4. Proceeds(r)
      BY <2>1, <2>2, <2>3 DEF Proceeds, Running
  <2>5. QED
      BY <2>1, <2>4
<1>3. ASSUME NEW r \in Runners, RunOnce(r) PROVE Enters(r)
  <2> DEFINE x == [Idle EXCEPT !.stage = "putting", !.req = NewRequest]
  <2>1. NewRequest \in Nat
      BY <1>0 DEF NewRequest, TypeOK
  <2>2. x \in Run /\ x.stage = "putting" /\ x.frame = 0 /\ x.attempt = 0
      BY <2>1 DEF Run, Idle
  <2>3. run' = [run EXCEPT ![r] = x] /\ run[r] = Idle /\ UNCHANGED seen
      BY <1>3 DEF RunOnce
  <2>4. ~Running(r)
      BY <2>3 DEF Running, Idle, Stages
  <2> HIDE DEF x
  <2>5. QED
      BY <2>2, <2>3, <2>4 DEF Enters
<1>4. ASSUME NEW r \in Runners, RunNext(r) \/ PutThenGet(r) \/ RunNextRuntimeEvent(r)
      PROVE  Enters(r)
  <2>1. \E id \in Nat : run' = [run EXCEPT ![r] = Started(id)]
    <3>1. CASE RunNext(r)
      <4>1. queue \in Seq(Nat) /\ queue # <<>>
          BY <1>0, <3>1 DEF RunNext, TypeOK
      <4>2. Head(queue) \in Nat
          BY <4>1
      <4>3. QED
          BY <3>1, <4>2 DEF RunNext
    <3>2. CASE PutThenGet(r)
      <4>1. run[r].req \in Nat
          BY <1>0 DEF TypeOK, Run
      <4>2. Head(Append(queue, run[r].req)) \in Nat
          BY <1>0, <4>1 DEF TypeOK
      <4>3. QED
          BY <3>2, <4>2 DEF PutThenGet
    <3>3. CASE RunNextRuntimeEvent(r)
      <4>1. NewRequest \in Nat
          BY <1>0 DEF NewRequest, TypeOK
      <4>2. QED
          BY <3>3, <4>1 DEF RunNextRuntimeEvent
    <3>4. QED
        BY <1>4, <3>1, <3>2, <3>3
  <2>2. PICK id \in Nat : run' = [run EXCEPT ![r] = Started(id)]
      BY <2>1
  <2>3. /\ Started(id) \in Run /\ Started(id).stage = "observing"
        /\ Started(id).attempt = 1 /\ Started(id).frame = 0
      BY DEF Started, Idle, Run, Stages
  <2>4. UNCHANGED seen /\ ~Running(r)
      BY <1>4 DEF RunNext, PutThenGet, RunNextRuntimeEvent, Running, Idle, Stages
  <2>5. QED
      BY <2>2, <2>3, <2>4 DEF Enters
<1>5. QED
    BY <1>0, <1>1, <1>2, <1>3, <1>4, CountClass DEF Next

LEMMA AnswersStep ==
    ASSUME IInv, [Next]_vars
    PROVE  AnswersStand
<1>1. /\ carries \in Seq(SUBSET (1 .. MaxEvents))
      /\ results \in Seq(Statuses \cup {"open"}) /\ Len(results) = Len(carries)
      /\ Made = 1 .. Len(carries) /\ Len(carries) \in Nat
      /\ "open" \notin Statuses
    BY DEF IInv, TypeOK, EveryRequestInOnePlace, Made, Statuses
<1>2. CASE UNCHANGED <<carries, results>>
    BY <1>2 DEF AnswersStand, Made
<1>3. CASE \E events \in SUBSET (1 .. MaxEvents) : Make(events)
    BY <1>1, <1>3 DEF AnswersStand, Made, Make
<1>4. CASE /\ UNCHANGED carries
           /\ \E id \in Nat, status \in Statuses : results' = [results EXCEPT ![id] = status]
    BY <1>1, <1>4 DEF AnswersStand, Made
<1>5. ASSUME NEW r \in Runners, Step(r)
      PROVE  AnswersStand
  <2>1. Observes(r) \/ Proceeds(r) \/ Leaves(r)
      BY <1>5, CountClass DEF IInv
  <2>2. run[r].req \in Nat
      BY DEF IInv, TypeOK, Run
  <2>3. QED
      BY <1>2, <1>4, <2>1, <2>2 DEF Observes, Proceeds, Leaves
<1>6. ASSUME NEW r \in Runners, RunNextRuntimeEvent(r)
      PROVE  AnswersStand
  <2>1. pending \subseteq 1 .. MaxEvents
      BY LimitsAssumption DEF IInv, TypeOK
  <2>2. QED
      BY <1>3, <1>6, <2>1 DEF RunNextRuntimeEvent
<1>7. CASE Enqueue \/ \E r \in Runners : RunOnce(r)
  <2>1. Make({})
      BY <1>7 DEF Enqueue, RunOnce
  <2>2. QED
      BY <1>3, <2>1
<1>8. CASE \/ EnqueueRuntimeEvent \/ CancelCurrent \/ UNCHANGED vars
           \/ \E r \in Runners : RunNext(r) \/ PutThenGet(r)
    BY <1>2, <1>8 DEF EnqueueRuntimeEvent, CancelCurrent, RunNext, PutThenGet, vars, loopVars
<1>9. QED
    BY <1>5, <1>6, <1>7, <1>8 DEF Next

LEMMA AttemptsStep ==
    ASSUME IInv, AttemptsCounted, [Next]_vars
    PROVE  AttemptsCounted'
<1>0. /\ run \in [Runners -> Run] /\ MaxAttempts \in Nat /\ MaxAttempts >= 1
      /\ \A r \in Runners : run[r].attempt \in Nat
      /\ {"idle", "putting"} \cap Stages = {} /\ {"observing", "diffing"} \subseteq Stages
    BY LimitsAssumption DEF IInv, TypeOK, Run, Stages
<1>1. CASE UNCHANGED <<run, seen>>
    BY <1>1 DEF AttemptsCounted, Running
<1>2. ASSUME NEW r \in Runners, Observes(r) \/ Proceeds(r) \/ Enters(r) \/ Leaves(r)
      PROVE  AttemptsCounted'
  <2>1. \A q \in Runners : q # r => run'[q] = run[q]
      BY <1>0, <1>2 DEF Observes, Proceeds, Enters, Leaves
  <2>2. /\ run'[r].attempt <= MaxAttempts
        /\ Running(r)' => run'[r].attempt >= 1
        /\ run'[r].stage = "observing" => run'[r].frame = 0
    <3>1. CASE Observes(r)
        BY <1>0, <3>1 DEF Observes, AttemptsCounted
    <3>2. CASE Proceeds(r)
        BY <1>0, <3>2 DEF Proceeds, AttemptsCounted
    <3>3. CASE Enters(r)
        BY <1>0, <3>3 DEF Enters, Running
    <3>4. CASE Leaves(r)
        BY <1>0, <3>4 DEF Leaves, Running, Idle
    <3>5. QED
        BY <1>2, <3>1, <3>2, <3>3, <3>4
  <2>3. QED
      BY <2>1, <2>2 DEF AttemptsCounted, Running
<1>3. QED
    BY <1>1, <1>2, CountStepClass

(* An attempt that is spent stays spent. *)
LEMMA SpentStays ==
    ASSUME IInv, AttemptsCounted, [Next]_vars, NEW h, h[1] \in Made, h[2] \in Nat, Spent(h)
    PROVE  Spent(h)'
<1>0. /\ run \in [Runners -> Run]
      /\ \A r \in Runners : run[r].attempt \in Nat /\ run[r].frame \in Nat
                            /\ run[r].req \in Nat
      /\ "diffing" \in Stages /\ "open" \notin Statuses
    BY DEF IInv, TypeOK, Run, Stages, Statuses
<1>1. CASE results[h[1]] # "open"
    BY <1>1, AnswersStep DEF AnswersStand, Spent
<1>2. ASSUME NEW r \in Runners, Running(r), run[r].req = h[1], h[2] <= Used(run[r])
      PROVE  Spent(h)'
  <2>1. CASE run'[r] = run[r]
      BY <1>2, <2>1 DEF Spent, Running
  <2>2. CASE Observes(r) \/ Proceeds(r)
    <3>1. /\ run'[r].req = run[r].req /\ run'[r].stage \in Stages
          /\ Used(run[r]) <= Used(run'[r])
        BY <1>0, <2>2 DEF Observes, Proceeds, Used
    <3>2. /\ Used(run[r]) \in Int /\ Used(run'[r]) \in Int
      <4>1. run'[r] \in Run
          BY <1>0, <2>2 DEF Observes, Proceeds
      <4>2. QED
          BY <1>0, <4>1 DEF Used, Run
    <3>3. h[2] <= Used(run'[r])
        BY <1>2, <3>1, <3>2
    <3>4. QED
        BY <1>2, <3>1, <3>3 DEF Spent, Running
  <2>3. CASE Leaves(r)
    <3>1. run[r].req \in DOMAIN results
        BY <1>2 DEF IInv, TypeOK, EveryRequestInOnePlace, Made
    <3>2. results'[h[1]] # "open"
        BY <1>0, <1>2, <2>3, <3>1 DEF Leaves
    <3>3. QED
        BY <3>2 DEF Spent
  <2>4. ASSUME NEW q \in Runners, q # r,
               Observes(q) \/ Proceeds(q) \/ Enters(q) \/ Leaves(q)
        PROVE  run'[r] = run[r]
      BY <1>0, <2>4 DEF Observes, Proceeds, Enters, Leaves
  <2>5. ~Enters(r)
      BY <1>2 DEF Enters
  <2>6. QED
      BY <2>1, <2>2, <2>3, <2>4, <2>5, CountStepClass
<1>3. QED
    BY <1>1, <1>2 DEF Spent

(* The attempt that observes now was not spent before. *)
LEMMA FreshAttempt ==
    ASSUME IInv, AttemptsCounted, NEW r \in Runners, Running(r), run[r].stage = "observing"
    PROVE  /\ ~Spent(<<run[r].req, run[r].attempt>>)
           /\ run[r].req \in Made /\ run[r].attempt \in 1 .. MaxAttempts
<1>0. run[r].attempt \in Nat /\ MaxAttempts \in Nat
    BY LimitsAssumption DEF IInv, TypeOK, Run
<1>1. run[r] # Idle /\ run[r].req \in InHand
    BY Held
<1>2. run[r].req \in Made /\ results[run[r].req] = "open"
    BY <1>1 DEF IInv, EveryRequestInOnePlace
<1>3. ASSUME NEW q \in Runners, Running(q), run[q].req = run[r].req
      PROVE  q = r
    BY <1>1, <1>3, Held DEF IInv, EveryRequestInOnePlace
<1>4. ~(run[r].attempt <= Used(run[r]))
    BY <1>0 DEF AttemptsCounted, Used
<1>5. QED
    BY <1>0, <1>2, <1>3, <1>4 DEF Spent, AttemptsCounted

LEMMA ChargedStep ==
    ASSUME IInv, ObservationsCharged, [Next]_vars
    PROVE  ObservationsCharged'
<1>1. AttemptsCounted /\ AttemptsCounted'
    BY AttemptsStep DEF ObservationsCharged
<1>2. PICK H : Charged(H)
    BY DEF ObservationsCharged
<1>3. /\ IsFiniteSet(H) /\ Cardinality(H) = seen
      /\ H \subseteq Made' \X (1 .. MaxAttempts)
      /\ \A h \in H : Spent(h)'
  <2>1. Made \subseteq Made'
      BY AnswersStep DEF AnswersStand
  <2>2. ASSUME NEW h \in H PROVE Spent(h)'
      BY <1>1, <1>2, SpentStays DEF Charged
  <2>3. QED
      BY <1>2, <2>1, <2>2 DEF Charged
<1>4. ASSUME UNCHANGED seen
      PROVE  ObservationsCharged'
    BY <1>1, <1>3, <1>4 DEF ObservationsCharged, Charged
<1>5. ASSUME NEW r \in Runners, Observes(r)
      PROVE  ObservationsCharged'
  <2>1. PICK a : a = <<run[r].req, run[r].attempt>>
      OBVIOUS
  <2>2. ~Spent(a) /\ a \in Made \X (1 .. MaxAttempts)
      BY <1>1, <1>5, <2>1, FreshAttempt DEF Observes
  <2>3. a \notin H
      BY <1>2, <2>2 DEF Charged
  <2>4. IsFiniteSet(H \cup {a}) /\ Cardinality(H \cup {a}) = seen'
      BY <1>3, <1>5, <2>3, FS_AddElement DEF Observes
  <2>5. Spent(a)'
    <3>1. /\ run'[r].stage \in Stages /\ run'[r].req = a[1] /\ run'[r].attempt = a[2]
          /\ run'[r].frame # 0 /\ a[2] \in Nat
        BY <1>5, <2>1 DEF Observes, IInv, TypeOK, Run, Stages
    <3>2. QED
        BY <3>1 DEF Spent, Running, Used
  <2>6. a \in Made' \X (1 .. MaxAttempts)
      BY <2>2, AnswersStep DEF AnswersStand
  <2>7. Charged(H \cup {a})'
      BY <1>3, <2>4, <2>5, <2>6 DEF Charged
  <2>8. QED
      BY <1>1, <2>7 DEF ObservationsCharged
<1>6. QED
    BY <1>4, <1>5, CountStepClass DEF Proceeds, Enters, Leaves

LEMMA ChargedAlways == Spec => []ObservationsCharged
<1>1. Init => ObservationsCharged
  <2> SUFFICES ASSUME Init PROVE ObservationsCharged
      OBVIOUS
  <2>1. AttemptsCounted
      BY LimitsAssumption DEF Init, AttemptsCounted, Running, Idle, Stages
  <2>2. Charged({})
      BY FS_EmptySet DEF Init, Charged
  <2>3. QED
      BY <2>1, <2>2 DEF ObservationsCharged
<1>2. IInv /\ ObservationsCharged /\ [Next]_vars => ObservationsCharged'
    BY ChargedStep
<1>3. QED
    BY <1>1, <1>2, Invariance, PTL DEF Spec

(* However timeouts, exceptions, cancellations and runners mix, no request *)
(* is observed more than max_attempts times.                               *)
THEOREM RetriesBounded == Spec => []ObservationsBounded
<1>1. IInv /\ ObservationsCharged => ObservationsBounded
  <2> SUFFICES ASSUME IInv, ObservationsCharged PROVE ObservationsBounded
      OBVIOUS
  <2>1. PICK H : Charged(H)
      BY DEF ObservationsCharged
  <2>2. MaxAttempts \in Nat /\ Len(carries) \in Nat /\ Made = 1 .. Len(carries)
      BY LimitsAssumption DEF IInv, TypeOK, Made
  <2>3. /\ IsFiniteSet(Made) /\ IsFiniteSet(1 .. MaxAttempts)
        /\ Cardinality(1 .. MaxAttempts) = MaxAttempts
        /\ Cardinality(Made) = Len(carries)
    <3>1. ASSUME NEW n \in Nat
          PROVE  IsFiniteSet(1 .. n) /\ Cardinality(1 .. n) = n
      <4>1. /\ IsFiniteSet(1 .. n)
            /\ Cardinality(1 .. n) = IF 1 > n THEN 0 ELSE n - 1 + 1
          BY FS_Interval
      <4>2. QED
          BY <4>1
    <3>2. QED
        BY <2>2, <3>1
  <2>4. /\ IsFiniteSet(Made \X (1 .. MaxAttempts))
        /\ Cardinality(Made \X (1 .. MaxAttempts)) = Cardinality(Made) * MaxAttempts
      BY <2>3, FS_Product
  <2>5. seen <= Cardinality(Made) * MaxAttempts
      BY <2>1, <2>4, FS_Subset DEF Charged
  <2>6. Cardinality(Made) * MaxAttempts = MaxAttempts * Cardinality(Made)
      BY <2>2, <2>3
  <2>7. QED
      BY <2>5, <2>6 DEF ObservationsBounded, ObservationsCharged, AttemptsCounted
<1>2. QED
    BY <1>1, ChargedAlways, Invariance, PTL

----------------------------------------------------------------------------
(* Any number of runners: the steps of a request are counted.              *)

(* How many stages of an attempt may still follow a stage. *)
StagesLeft ==
    [observing |-> 7, diffing |-> 6, rebuilding |-> 5, loading |-> 4, reconciling |-> 3,
     policing |-> 2, planning |-> 1, verifying |-> 0]

(* An attempt has eight stages, and cancel_current comes once or not. *)
StepsLeft(x) ==
    8 * (MaxAttempts - x.attempt) + StagesLeft[x.stage] + (IF x.cancelled THEN 0 ELSE 1)

(* A runner on its request either answers or has fewer steps left. *)
Nearer(r) ==
    \/ run'[r] = Idle
    \/ /\ Running(r)' /\ run'[r].req = run[r].req
       /\ StepsLeft(run'[r]) < StepsLeft(run[r])

RequestsRunDown ==
    [][\A r \in Runners :
          Running(r) =>
              /\ StepsLeft(run[r]) \in 0 .. 8 * MaxAttempts
              /\ run'[r] # run[r] => Nearer(r)]_vars

LEMMA StepsInRange ==
    ASSUME IInv, AttemptsCounted, NEW r \in Runners, Running(r)
    PROVE  StepsLeft(run[r]) \in 0 .. 8 * MaxAttempts
<1>1. /\ run[r].attempt \in Nat /\ run[r].cancelled \in BOOLEAN /\ MaxAttempts \in Nat
      /\ run[r].attempt >= 1 /\ run[r].attempt <= MaxAttempts
    BY LimitsAssumption DEF IInv, TypeOK, Run, AttemptsCounted
<1>2. StagesLeft[run[r].stage] \in 0 .. 7
    BY DEF Running, Stages, StagesLeft
<1>3. PICK a \in Nat, s \in 0 .. 7 : a = run[r].attempt /\ s = StagesLeft[run[r].stage]
    BY <1>1, <1>2
<1>4. 8 * (MaxAttempts - a) \in 0 .. 8 * MaxAttempts - 8
    BY <1>1, <1>3
<1>5. QED
    BY <1>1, <1>3, <1>4 DEF StepsLeft

(* What is left after a step to a record x, if r's own was y. *)
LEMMA FewerLeft ==
    ASSUME NEW x \in Run, NEW y \in Run, x.stage \in Stages, y.stage \in Stages,
           \/ /\ x.attempt = y.attempt /\ x.cancelled = y.cancelled
              /\ StagesLeft[x.stage] < StagesLeft[y.stage]
           \/ x.attempt = y.attempt /\ x.stage = y.stage /\ x.cancelled /\ ~y.cancelled
           \/ x.attempt = y.attempt + 1 /\ ~x.cancelled /\ ~y.cancelled
    PROVE  StepsLeft(x) < StepsLeft(y)
<1>1. /\ x.attempt \in Nat /\ y.attempt \in Nat /\ MaxAttempts \in Nat
      /\ x.cancelled \in BOOLEAN /\ y.cancelled \in BOOLEAN
    BY LimitsAssumption DEF Run
<1>2. StagesLeft[x.stage] \in 0 .. 7 /\ StagesLeft[y.stage] \in 0 .. 7
    BY DEF Stages, StagesLeft
<1>3. PICK s \in 0 .. 7, t \in 0 .. 7 : s = StagesLeft[x.stage] /\ t = StagesLeft[y.stage]
    BY <1>2
<1>4. CASE x.attempt = y.attempt /\ x.cancelled = y.cancelled /\ s < t
    BY <1>1, <1>3, <1>4 DEF StepsLeft
<1>5. CASE x.attempt = y.attempt /\ s = t /\ x.cancelled /\ ~y.cancelled
    BY <1>1, <1>3, <1>5 DEF StepsLeft
<1>6. CASE x.attempt = y.attempt + 1 /\ ~x.cancelled /\ ~y.cancelled
  <2>1. 8 * (MaxAttempts - x.attempt) = 8 * (MaxAttempts - y.attempt) - 8
      BY <1>1, <1>6
  <2>2. QED
      BY <1>1, <1>3, <1>6, <2>1 DEF StepsLeft
<1>7. QED
    BY <1>3, <1>4, <1>5, <1>6

LEMMA StepNearer ==
    ASSUME IInv, NEW r \in Runners, Step(r)
    PROVE  Nearer(r)
<1>0. /\ run \in [Runners -> Run] /\ run[r] \in Run /\ seen \in Nat
      /\ run[r].attempt \in Nat /\ run[r].req \in Nat
      /\ prevFrame \in Nat /\ prevSnapshot \in Nat
    BY DEF IInv, TypeOK, Run
<1>1. ASSUME NEW x \in Run, run' = [run EXCEPT ![r] = x], x.req = run[r].req,
             Running(r), x.stage \in Stages, StepsLeft(x) < StepsLeft(run[r])
      PROVE  Nearer(r)
    BY <1>0, <1>1 DEF Nearer, Running
<1>2. CASE Observed(r)
  <2> DEFINE x == [run[r] EXCEPT !.stage = "diffing", !.frame = seen + 1, !.base = prevFrame]
  <2>1. /\ x \in Run /\ x.stage = "diffing" /\ x.req = run[r].req
        /\ x.attempt = run[r].attempt /\ x.cancelled = run[r].cancelled
    <3>1. "diffing" \in Stages \cup {"idle", "putting"} /\ seen + 1 \in Nat
        BY <1>0 DEF Stages
    <3>2. QED
        BY <1>0, <3>1 DEF Run
  <2>2. /\ run' = [run EXCEPT ![r] = x] /\ run[r].stage = "observing"
      BY <1>0, <1>2 DEF Observed, Active
  <2> HIDE DEF x
  <2>3. {"observing", "diffing"} \subseteq Stages
        /\ StagesLeft["diffing"] < StagesLeft["observing"]
      BY DEF Stages, StagesLeft
  <2>4. StepsLeft(x) < StepsLeft(run[r])
      BY <1>0, <2>1, <2>2, <2>3, FewerLeft
  <2>5. QED
      BY <1>1, <2>1, <2>2, <2>3, <2>4 DEF Running
<1>3. CASE Diffed(r) \/ RebuiltForRecovery(r) \/ Rebuilt(r) \/ LoadedSnapshot(r)
           \/ LoadedNothing(r) \/ Reconciled(r) \/ PolicyAllowed(r)
  <2>1. PICK stage \in Stages :
            /\ Running(r) /\ To(r, stage)
            /\ StagesLeft[stage] < StagesLeft[run[r].stage]
      BY <1>3 DEF Diffed, RebuiltForRecovery, Rebuilt, LoadedSnapshot, LoadedNothing,
                  Reconciled, PolicyAllowed, Active, Running, Stages, StagesLeft
  <2> DEFINE x == [run[r] EXCEPT !.stage = stage]
  <2>2. /\ x \in Run /\ x.stage = stage /\ x.req = run[r].req
        /\ x.attempt = run[r].attempt /\ x.cancelled = run[r].cancelled
      BY <1>0 DEF Run
  <2>3. run' = [run EXCEPT ![r] = x]
      BY <2>1 DEF To
  <2> HIDE DEF x
  <2>4. StepsLeft(x) < StepsLeft(run[r])
      BY <1>0, <2>1, <2>2, FewerLeft DEF Running
  <2>5. QED
      BY <1>1, <2>1, <2>2, <2>3, <2>4
<1>4. CASE Planned(r)
  <2> DEFINE x == [run[r] EXCEPT !.stage = "verifying", !.before = prevSnapshot]
  <2>1. /\ x \in Run /\ x.stage = "verifying" /\ x.req = run[r].req
        /\ x.attempt = run[r].attempt /\ x.cancelled = run[r].cancelled
      BY <1>0 DEF Run, Stages
  <2>2. /\ run' = [run EXCEPT ![r] = x] /\ run[r].stage = "planning"
      BY <1>0, <1>4 DEF Planned, Active
  <2> HIDE DEF x
  <2>3. {"planning", "verifying"} \subseteq Stages
        /\ StagesLeft["verifying"] < StagesLeft["planning"]
      BY DEF Stages, StagesLeft
  <2>4. StepsLeft(x) < StepsLeft(run[r])
      BY <1>0, <2>1, <2>2, <2>3, FewerLeft
  <2>5. QED
      BY <1>1, <2>1, <2>2, <2>3, <2>4 DEF Running
<1>5. CASE TimedOut(r) \/ Raised(r)
  <2>1. CASE Retry(r) /\ Running(r) /\ ~run[r].cancelled
    <3> DEFINE x == [Started(run[r].req) EXCEPT !.attempt = run[r].attempt + 1]
    <3>1. run[r].attempt + 1 \in Nat
        BY <1>0
    <3>2. /\ x \in Run /\ x.stage = "observing" /\ ~x.cancelled
          /\ x.req = run[r].req /\ x.attempt = run[r].attempt + 1
        BY <1>0, <3>1 DEF Started, Idle, Run, Stages
    <3>3. run' = [run EXCEPT ![r] = x]
        BY <2>1 DEF Retry
    <3> HIDE DEF x
    <3>4. "observing" \in Stages
        BY DEF Stages
    <3>5. StepsLeft(x) < StepsLeft(run[r])
        BY <1>0, <2>1, <3>2, <3>4, FewerLeft DEF Running
    <3>6. QED
        BY <1>1, <2>1, <3>2, <3>3, <3>4, <3>5
  <2>2. CASE \E status \in Statuses : Return(r, status)
      BY <1>0, <2>2 DEF Return, Nearer
  <2>3. QED
      BY <1>5, <2>1, <2>2 DEF TimedOut, Raised, Statuses
<1>6. CASE Verified(r) \/ PolicyRefused(r) \/ Cancelled(r)
    BY <1>0, <1>6 DEF Verified, PolicyRefused, Cancelled, Return, Nearer
<1>7. QED
    BY <1>2, <1>3, <1>4, <1>5, <1>6 DEF Step

(* cancel_current, which is called once per attempt at most, is a step too. *)
LEMMA CancelNearer ==
    ASSUME IInv, CancelCurrent
    PROVE  \A r \in Runners : run'[r] # run[r] => Nearer(r)
<1>0. PICK r \in Runners : r = currentTask
    BY DEF CancelCurrent, IInv, TypeOK
<1> DEFINE x == [run[r] EXCEPT !.cancelled = TRUE]
<1>1. Running(r) /\ run[r] \in Run /\ run \in [Runners -> Run]
    BY <1>0 DEF CancelCurrent, IInv, TypeOK, CurrentTaskRunning
<1>2. /\ x \in Run /\ x.stage = run[r].stage /\ x.req = run[r].req
      /\ x.attempt = run[r].attempt /\ x.cancelled
    BY <1>1 DEF Run
<1>3. run' = [run EXCEPT ![r] = x] /\ ~run[r].cancelled
    BY <1>0 DEF CancelCurrent
<1> HIDE DEF x
<1>4. StepsLeft(x) < StepsLeft(run[r])
    BY <1>1, <1>2, <1>3, FewerLeft DEF Running
<1>5. Nearer(r)
    BY <1>1, <1>2, <1>3, <1>4 DEF Nearer, Running
<1>6. QED
    BY <1>1, <1>3, <1>5

(* A request that runs takes at most 8 * max_attempts steps before the one *)
(* that answers it: whatever its providers do and whatever the other       *)
(* runners do, each step, a retry or a cancellation included, leaves it    *)
(* fewer.  (_run_request)                                                  *)
THEOREM RequestsEnd == Spec => RequestsRunDown
<1>1. ASSUME IInv, AttemptsCounted, [Next]_vars, NEW r \in Runners, Running(r)
      PROVE  /\ StepsLeft(run[r]) \in 0 .. 8 * MaxAttempts
             /\ run'[r] # run[r] => Nearer(r)
  <2>1. run \in [Runners -> Run]
      BY <1>1 DEF IInv, TypeOK
  <2>2. CASE Enqueue \/ EnqueueRuntimeEvent \/ UNCHANGED vars
      BY <1>1, <2>2, StepsInRange DEF Enqueue, EnqueueRuntimeEvent, vars, loopVars
  <2>3. CASE CancelCurrent
      BY <1>1, <2>3, StepsInRange, CancelNearer
  <2>4. ASSUME NEW q \in Runners, RunNext(q) \/ RunOnce(q) \/ PutThenGet(q)
                                  \/ RunNextRuntimeEvent(q)
        PROVE  run'[r] = run[r]
    <3>1. q # r
        BY <1>1, <2>4 DEF RunNext, RunOnce, PutThenGet, RunNextRuntimeEvent, Running,
                          Idle, Stages
    <3>2. \E x : run' = [run EXCEPT ![q] = x]
        BY <2>4 DEF RunNext, RunOnce, PutThenGet, RunNextRuntimeEvent
    <3>3. QED
        BY <2>1, <3>1, <3>2
  <2>5. ASSUME NEW q \in Runners, Step(q), q # r
        PROVE  run'[r] = run[r]
      BY <1>1, <2>1, <2>5, CountClass DEF IInv, Observes, Proceeds, Leaves
  <2>6. QED
      BY <1>1, <2>2, <2>3, <2>4, <2>5, StepsInRange, StepNearer DEF Next
<1>2. IInv /\ ObservationsCharged /\ [Next]_vars
      => [\A r \in Runners :
             Running(r) => /\ StepsLeft(run[r]) \in 0 .. 8 * MaxAttempts
                           /\ run'[r] # run[r] => Nearer(r)]_vars
    BY <1>1 DEF ObservationsCharged
<1>3. QED
    BY <1>2, ChargedAlways, Invariance, PTL DEF Spec, RequestsRunDown

=============================================================================
