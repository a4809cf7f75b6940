-------------------------- MODULE MainLoopProofs --------------------------
(***************************************************************************)
(* Proofs about MainLoop, for any number of runners, requests and events   *)
(* and any retry policy.  IInv is inductive; EveryRequestInOnePlace alone  *)
(* is not: that unfinished never goes below zero needs to know that a      *)
(* queued request carries no runtime event, and that a request can be      *)
(* started needs to know that an idle runner holds nothing.                *)
(***************************************************************************)
EXTENDS MainLoop, SequenceTheorems, FiniteSetTheorems, TLAPS

(* What a runner and a queued request look like between two steps. *)
Supporting ==
    /\ \A r \in Runners : run[r].stage = "idle" => run[r] = Idle
    /\ \A r \in Runners : run[r].frame <= seen
    /\ \A i \in DOMAIN queue : carries[queue[i]] = {}
    /\ \A r \in Runners : Putting(r) => carries[run[r].req] = {}

IInv ==
    /\ TypeOK
    /\ EveryRequestInOnePlace
    /\ CurrentTaskRunning
    /\ Supporting

----------------------------------------------------------------------------
(* Lemmas about the queue. *)

Elems(q) == {q[i] : i \in DOMAIN q}
Distinct(q) == \A i, j \in DOMAIN q : q[i] = q[j] => i = j

LEMMA AppendedQueue ==
    ASSUME NEW q \in Seq(Nat), NEW x \in Nat
    PROVE  /\ Append(q, x) \in Seq(Nat)
           /\ Append(q, x) # <<>>
           /\ Len(Append(q, x)) = Len(q) + 1
           /\ Elems(Append(q, x)) = Elems(q) \cup {x}
           /\ Distinct(q) /\ x \notin Elems(q) => Distinct(Append(q, x))
<1>1. /\ Append(q, x) \in Seq(Nat)
      /\ Append(q, x) # <<>>
      /\ Len(Append(q, x)) = Len(q) + 1
      /\ DOMAIN Append(q, x) = DOMAIN q \cup {Len(q) + 1}
      /\ \A i \in DOMAIN q : Append(q, x)[i] = q[i]
      /\ Append(q, x)[Len(q) + 1] = x
    OBVIOUS
<1>2. Elems(Append(q, x)) = Elems(q) \cup {x}
    BY <1>1 DEF Elems
<1>3. Distinct(q) /\ x \notin Elems(q) => Distinct(Append(q, x))
    BY <1>1 DEF Elems, Distinct
<1>4. QED
    BY <1>1, <1>2, <1>3

LEMMA TailQueue ==
    ASSUME NEW q \in Seq(Nat), q # <<>>, Distinct(q)
    PROVE  /\ Tail(q) \in Seq(Nat)
           /\ Head(q) \in Elems(q)
           /\ Head(q) \in Nat
           /\ Len(q) \in Nat \ {0}
           /\ Len(Tail(q)) = Len(q) - 1
           /\ Elems(Tail(q)) = Elems(q) \ {Head(q)}
           /\ Distinct(Tail(q))
<1>1. /\ Tail(q) \in Seq(Nat)
      /\ Head(q) \in Nat
      /\ Head(q) = q[1]
      /\ 1 \in DOMAIN q
      /\ Len(q) \in Nat \ {0}
      /\ Len(Tail(q)) = Len(q) - 1
    OBVIOUS
<1>2. /\ \A i \in DOMAIN Tail(q) :
            i + 1 \in DOMAIN q /\ Tail(q)[i] = q[i + 1] /\ i \in Nat \ {0}
      /\ \A i \in DOMAIN q :
            \/ i = 1
            \/ i - 1 \in DOMAIN Tail(q) /\ Tail(q)[i - 1] = q[i] /\ i \in Nat
    OBVIOUS
<1>3. Elems(Tail(q)) \subseteq Elems(q) \ {Head(q)}
    <2> SUFFICES ASSUME NEW i \in DOMAIN Tail(q)
                 PROVE  Tail(q)[i] \in Elems(q) \ {Head(q)}
        BY DEF Elems
    <2>1. Tail(q)[i] = q[i + 1] /\ i + 1 \in DOMAIN q /\ i + 1 # 1
        BY <1>2
    <2>2. q[i + 1] # q[1]
        BY <1>1, <2>1 DEF Distinct
    <2>3. QED
        BY <1>1, <2>1, <2>2 DEF Elems
<1>4. Elems(q) \ {Head(q)} \subseteq Elems(Tail(q))
    <2> SUFFICES ASSUME NEW i \in DOMAIN q, q[i] # q[1]
                 PROVE  q[i] \in Elems(Tail(q))
        BY <1>1 DEF Elems
    <2>1. i - 1 \in DOMAIN Tail(q) /\ Tail(q)[i - 1] = q[i]
        BY <1>2
    <2>2. QED
        BY <2>1 DEF Elems
<1>5. Distinct(Tail(q))
    <2> SUFFICES ASSUME NEW i \in DOMAIN Tail(q), NEW j \in DOMAIN Tail(q),
                        Tail(q)[i] = Tail(q)[j]
                 PROVE  i = j
        BY DEF Distinct
    <2>1. i + 1 = j + 1 /\ i \in Nat /\ j \in Nat
        BY <1>2 DEF Distinct
    <2>2. QED
        BY <2>1
<1>6. QED
    BY <1>1, <1>3, <1>4, <1>5 DEF Elems

----------------------------------------------------------------------------
(* Lemmas about what the runners hold, as one of them changes. *)

(* A runner that holds nothing takes a request. *)
LEMMA RunnerTakes ==
    ASSUME NEW r \in Runners, NEW x,
           run \in [Runners -> Run],
           run[r] = Idle, x # Idle,
           run' = [run EXCEPT ![r] = x]
    PROVE  InHand' = InHand \cup {x.req}
BY DEF InHand

(* A runner goes on with the request it has. *)
LEMMA RunnerGoesOn ==
    ASSUME NEW r \in Runners, NEW x,
           run \in [Runners -> Run],
           run[r] # Idle, x # Idle, x.req = run[r].req,
           run' = [run EXCEPT ![r] = x]
    PROVE  InHand' = InHand
BY DEF InHand

(* A runner is done with the request that only it had. *)
LEMMA RunnerDone ==
    ASSUME NEW r \in Runners,
           run \in [Runners -> Run],
           run[r] # Idle,
           run' = [run EXCEPT ![r] = Idle],
           \A q \in Runners : run[q] # Idle /\ run[q].req = run[r].req => q = r
    PROVE  InHand' = InHand \ {run[r].req}
BY DEF InHand

(* A runner swaps the request that only it had for another one. *)
LEMMA RunnerSwaps ==
    ASSUME NEW r \in Runners, NEW x,
           run \in [Runners -> Run],
           run[r] # Idle, x # Idle,
           run' = [run EXCEPT ![r] = x],
           \A q \in Runners : run[q] # Idle /\ run[q].req = run[r].req => q = r
    PROVE  InHand' = (InHand \ {run[r].req}) \cup {x.req}
BY DEF InHand

(* The runners are finitely many, so those with a queued request can be    *)
(* counted, one more or one less at a time.                                *)
LEMMA CountOfRuns ==
    /\ IsFiniteSet(QueuedRuns)
    /\ Cardinality(QueuedRuns) \in Nat
    /\ \A r : r \notin QueuedRuns =>
          Cardinality(QueuedRuns \cup {r}) = Cardinality(QueuedRuns) + 1
    /\ \A r \in QueuedRuns :
          /\ Cardinality(QueuedRuns \ {r}) = Cardinality(QueuedRuns) - 1
          /\ Cardinality(QueuedRuns) > 0
<1>1. IsFiniteSet(QueuedRuns)
    BY FS_Subset, RunnersAssumption DEF QueuedRuns
<1>2. Cardinality(QueuedRuns) \in Nat
    BY <1>1, FS_CardinalityType
<1>3. \A r : r \notin QueuedRuns =>
          Cardinality(QueuedRuns \cup {r}) = Cardinality(QueuedRuns) + 1
    BY <1>1, FS_AddElement
<1>4. ASSUME NEW r \in QueuedRuns
      PROVE  /\ Cardinality(QueuedRuns \ {r}) = Cardinality(QueuedRuns) - 1
             /\ Cardinality(QueuedRuns) > 0
    <2>1. Cardinality(QueuedRuns \ {r}) = Cardinality(QueuedRuns) - 1
        BY <1>1, FS_RemoveElement
    <2>2. Cardinality(QueuedRuns) # 0
        BY <1>1, FS_EmptySet
    <2>3. QED
        BY <1>2, <2>1, <2>2
<1>5. QED
    BY <1>1, <1>2, <1>3, <1>4

----------------------------------------------------------------------------
(* The invariant holds initially. *)

LEMMA NotIdle == \A x : x.stage # "idle" => x # Idle
BY DEF Idle

LEMMA IdleIsRun == Idle \in Run
BY DEF Idle, Run

LEMMA InitIInv == Init => IInv
<1> SUFFICES ASSUME Init
             PROVE  IInv
    OBVIOUS
<1> USE DEF Init, Intake!Init
<1>1. TypeOK
    BY IdleIsRun, RunnersAssumption, LimitsAssumption DEF TypeOK
<1>2. EveryRequestInOnePlace
    <2>1. Queued = {} /\ InHand = {} /\ Made = {}
        BY DEF Queued, InHand, Made
    <2>2. QueuedRuns = {}
        BY DEF QueuedRuns, Running, Idle, Stages
    <2>3. Cardinality(QueuedRuns) = 0
        BY <2>2, FS_EmptySet
    <2>4. QED
        BY <2>1, <2>3 DEF EveryRequestInOnePlace
<1>3. CurrentTaskRunning
    BY DEF CurrentTaskRunning
<1>4. Supporting
    BY DEF Supporting, Idle, Putting
<1>5. QED
    BY <1>1, <1>2, <1>3, <1>4 DEF IInv

----------------------------------------------------------------------------
(* The steps that leave every request where it is. *)

(* A runner inside _run_request goes on with its request: the stages that  *)
(* answer, cancel_current, and the start of the next attempt.              *)
LEMMA MoveStep ==
    ASSUME IInv,
           NEW r \in Runners, NEW x \in Run,
           run[r].stage \in Stages, x.stage \in Stages, x.req = run[r].req,
           run' = [run EXCEPT ![r] = x],
           x.frame <= seen', seen' \in Nat, seen <= seen',
           currentTask' \in {currentTask, r},
           UNCHANGED <<queue, unfinished, carries, results, prevFrame, prevSnapshot>>,
           UNCHANGED intakeVars
    PROVE  IInv'
<1> USE DEF IInv
<1>0. /\ run \in [Runners -> Run] /\ run' \in [Runners -> Run]
      /\ run[r] # Idle /\ x # Idle
      /\ \A q \in Runners : run'[q] = IF q = r THEN x ELSE run[q]
      /\ "idle" \notin Stages /\ "putting" \notin Stages
    BY NotIdle DEF TypeOK, Stages
<1>1. TypeOK'
    BY <1>0, RunnersAssumption DEF TypeOK, intakeVars
<1>2. EveryRequestInOnePlace'
    <2>1. InHand' = InHand
        BY <1>0, RunnerGoesOn
    <2>2. QueuedRuns' = QueuedRuns
        BY <1>0 DEF QueuedRuns, Running
    <2>3. Queued' = Queued /\ Made' = Made
        BY DEF Queued, Made
    <2>4. \A p, q \in Runners :
              run'[p] # Idle /\ run'[q] # Idle /\ run'[p].req = run'[q].req => p = q
        BY <1>0 DEF EveryRequestInOnePlace
    <2>5. QED
        BY <2>1, <2>2, <2>3, <2>4 DEF EveryRequestInOnePlace
<1>3. CurrentTaskRunning'
    BY <1>0 DEF CurrentTaskRunning, Running, TypeOK
<1>4. Supporting'
    <2>1. \A q \in Runners : run'[q].stage = "idle" => run'[q] = Idle
        BY <1>0 DEF Supporting
    <2>2. \A q \in Runners : run'[q].frame <= seen'
        <3> TAKE q \in Runners
        <3>1. run[q].frame <= seen /\ run[q].frame \in Nat /\ seen \in Nat
            BY <1>0 DEF Supporting, TypeOK, Run
        <3>2. QED
            BY <1>0, <3>1
    <2>3. \A q \in Runners : Putting(q)' => carries'[run'[q].req] = {}
        BY <1>0 DEF Supporting, Putting
    <2>4. QED
        BY <2>1, <2>2, <2>3 DEF Supporting, Putting
<1>5. QED
    BY <1>1, <1>2, <1>3, <1>4

(* enqueue_runtime_event touches the coordinator only. *)
LEMMA SubmitStep == IInv /\ EnqueueRuntimeEvent => IInv'
<1> SUFFICES ASSUME IInv, EnqueueRuntimeEvent
             PROVE  IInv'
    OBVIOUS
<1> USE DEF IInv
<1>0. UNCHANGED loopVars
    BY DEF EnqueueRuntimeEvent
<1>1. TypeOK'
    <2>1. /\ submitted' \in 0 .. MaxEvents
          /\ pending' \in SUBSET (1 .. submitted')
          /\ delivered' \in SUBSET (1 .. submitted')
        <3>1. CASE Intake!Take
            BY <3>1, LimitsAssumption DEF TypeOK, Intake!Take
        <3>2. CASE Intake!Refuse
            BY <3>2, LimitsAssumption DEF TypeOK, Intake!Refuse
        <3>3. QED
            BY <3>1, <3>2 DEF EnqueueRuntimeEvent
    <2>2. QED
        BY <1>0, <2>1 DEF TypeOK, loopVars
<1>2. EveryRequestInOnePlace'
    BY <1>0 DEF EveryRequestInOnePlace, loopVars, Made, Queued, InHand, QueuedRuns, Running
<1>3. CurrentTaskRunning' /\ Supporting'
    BY <1>0 DEF CurrentTaskRunning, Supporting, loopVars, Running, Putting
<1>4. QED
    BY <1>1, <1>2, <1>3

----------------------------------------------------------------------------
(* The step that answers a request. *)

LEMMA ReturnStep ==
    ASSUME IInv,
           NEW r \in Runners, Running(r),
           NEW status \in Statuses, Return(r, status),
           prevFrame' \in {prevFrame, run[r].frame},
           prevSnapshot' \in {prevSnapshot, run[r].frame}
    PROVE  IInv'
<1> USE DEF IInv
<1> DEFINE id == run[r].req
<1>0. /\ run \in [Runners -> Run] /\ run' \in [Runners -> Run]
      /\ run[r] # Idle
      /\ run' = [run EXCEPT ![r] = Idle]
      /\ \A q \in Runners : run'[q] = IF q = r THEN Idle ELSE run[q]
      /\ Idle.stage = "idle" /\ Idle.frame = 0 /\ "idle" \notin Stages
      /\ "putting" \notin Stages
    BY NotIdle, IdleIsRun DEF TypeOK, Running, Stages, Return, Idle
<1>1. id \in InHand /\ id \in Made /\ id \in DOMAIN results /\ results[id] = "open"
    BY <1>0 DEF InHand, EveryRequestInOnePlace, Made, TypeOK
<1>2. InHand' = InHand \ {id}
    BY <1>0, RunnerDone DEF EveryRequestInOnePlace
<1>3. Queued' = Queued /\ Made' = Made /\ id \notin Queued
    BY <1>1 DEF Queued, Made, Return, EveryRequestInOnePlace
<1>4. unfinished' = Len(queue) + Cardinality(QueuedRuns') /\ unfinished' \in Nat
    <2>0. unfinished = Len(queue) + Cardinality(QueuedRuns) /\ Len(queue) \in Nat
        BY DEF EveryRequestInOnePlace, TypeOK
    <2>1. CASE carries[id] = {}
        <3>1. r \in QueuedRuns
            BY <2>1 DEF QueuedRuns
        <3>2. QueuedRuns' = QueuedRuns \ {r}
            BY <1>0 DEF QueuedRuns, Running, Return
        <3>3. unfinished' = unfinished - 1
            BY <2>1 DEF Return
        <3>4. /\ Cardinality(QueuedRuns \ {r}) = Cardinality(QueuedRuns) - 1
              /\ Cardinality(QueuedRuns) > 0
              /\ Cardinality(QueuedRuns) \in Nat
            BY <3>1, CountOfRuns
        <3>5. Cardinality(QueuedRuns') = Cardinality(QueuedRuns) - 1
            BY <3>2, <3>4
        <3>6. QED
            BY <2>0, <3>3, <3>4, <3>5
    <2>2. CASE carries[id] # {}
        <3>1. QueuedRuns' = QueuedRuns
            BY <1>0, <2>2 DEF QueuedRuns, Running, Return
        <3>2. unfinished' = unfinished
            BY <2>2 DEF Return
        <3>3. QED
            BY <2>0, <3>1, <3>2, CountOfRuns
    <2>3. QED
        BY <2>1, <2>2
<1>5. results' = [results EXCEPT ![id] = status] /\ results' \in Seq(Statuses \cup {"open"})
      /\ Len(results') = Len(results) /\ status # "open"
    BY <1>1 DEF Return, TypeOK, Statuses
<1>6. {i \in Made' : results'[i] = "open"} = {i \in Made : results[i] = "open"} \ {id}
    <2>1. \A i \in Made : i \in DOMAIN results
        BY DEF Made, EveryRequestInOnePlace, TypeOK
    <2>2. QED
        BY <1>3, <1>5, <2>1
<1>7. TypeOK'
    <2>1. run[r].frame \in 0 .. seen
        BY <1>0 DEF Supporting, TypeOK, Run
    <2>2. QED
        BY <1>0, <1>4, <1>5, <2>1 DEF TypeOK, Return, intakeVars
<1>8. EveryRequestInOnePlace'
    <2>1. Queued' \cup InHand' = {i \in Made' : results'[i] = "open"}
        BY <1>2, <1>3, <1>6 DEF EveryRequestInOnePlace
    <2>2. Queued' \cap InHand' = {}
        BY <1>2, <1>3 DEF EveryRequestInOnePlace
    <2>3. \A p, q \in Runners :
              run'[p] # Idle /\ run'[q] # Idle /\ run'[p].req = run'[q].req => p = q
        BY <1>0 DEF EveryRequestInOnePlace
    <2>4. QED
        BY <1>4, <1>5, <2>1, <2>2, <2>3 DEF EveryRequestInOnePlace, Return
<1>9. CurrentTaskRunning' /\ Supporting'
    <2>1. CurrentTaskRunning'
        BY DEF CurrentTaskRunning, Return
    <2>2. UNCHANGED <<queue, carries, seen>> /\ seen \in Nat
        BY DEF Return, TypeOK
    <2>3. /\ \A q \in Runners : run'[q].stage = "idle" => run'[q] = Idle
          /\ \A q \in Runners : run'[q].frame <= seen'
        BY <1>0, <2>2 DEF Supporting
    <2>4. \A q \in Runners : Putting(q)' => carries'[run'[q].req] = {}
        BY <1>0, <2>2 DEF Supporting, Putting
    <2>5. QED
        BY <2>1, <2>2, <2>3, <2>4 DEF Supporting, Putting
<1>10. QED
    BY <1>7, <1>8, <1>9

----------------------------------------------------------------------------
(* The steps that make a request. *)

(* A new request is open and nobody has it yet. *)
LEMMA MadeOne ==
    ASSUME IInv, NEW events \in SUBSET (1 .. MaxEvents), Make(events)
    PROVE  /\ NewRequest \in Nat /\ NewRequest \notin Made
           /\ NewRequest \notin Queued /\ NewRequest \notin InHand
           /\ carries' \in Seq(SUBSET (1 .. MaxEvents))
           /\ results' \in Seq(Statuses \cup {"open"})
           /\ Len(results') = Len(carries')
           /\ Made' = Made \cup {NewRequest}
           /\ \A i \in Made : carries'[i] = carries[i] /\ results'[i] = results[i]
           /\ carries'[NewRequest] = events /\ results'[NewRequest] = "open"
           /\ {i \in Made' : results'[i] = "open"}
                = {i \in Made : results[i] = "open"} \cup {NewRequest}
<1>1. /\ carries \in Seq(SUBSET (1 .. MaxEvents)) /\ results \in Seq(Statuses \cup {"open"})
      /\ Len(results) = Len(carries)
      /\ carries' = Append(carries, events) /\ results' = Append(results, "open")
    BY DEF IInv, TypeOK, EveryRequestInOnePlace, Make
<1>2. /\ NewRequest \in Nat /\ NewRequest \notin Made
      /\ carries' \in Seq(SUBSET (1 .. MaxEvents))
      /\ results' \in Seq(Statuses \cup {"open"})
      /\ Len(results') = Len(carries')
      /\ Made' = Made \cup {NewRequest}
      /\ \A i \in Made : carries'[i] = carries[i] /\ results'[i] = results[i]
      /\ carries'[NewRequest] = events /\ results'[NewRequest] = "open"
    BY <1>1 DEF NewRequest, Made
<1>3. NewRequest \notin Queued /\ NewRequest \notin InHand
    BY <1>2 DEF IInv, EveryRequestInOnePlace
<1>4. QED
    BY <1>2, <1>3

LEMMA EnqueueStep == IInv /\ Enqueue => IInv'
<1> SUFFICES ASSUME IInv, Enqueue
             PROVE  IInv'
    OBVIOUS
<1> USE DEF IInv
<1> DEFINE id == NewRequest
<1>0. /\ Make({}) /\ queue' = Append(queue, id) /\ unfinished' = unfinished + 1
      /\ UNCHANGED <<run, prevFrame, prevSnapshot, currentTask, seen>>
      /\ UNCHANGED intakeVars /\ Len(queue) < QueueMax /\ queue \in Seq(Nat)
    BY DEF Enqueue, TypeOK
<1>1. /\ id \in Nat /\ id \notin Made /\ id \notin Queued /\ id \notin InHand
      /\ carries' \in Seq(SUBSET (1 .. MaxEvents))
      /\ results' \in Seq(Statuses \cup {"open"})
      /\ Len(results') = Len(carries')
      /\ \A i \in Made : carries'[i] = carries[i]
      /\ carries'[id] = {}
      /\ {i \in Made' : results'[i] = "open"} = {i \in Made : results[i] = "open"} \cup {id}
    BY <1>0, MadeOne
<1> HIDE DEF id
<1>2. /\ queue' \in Seq(Nat) /\ Len(queue') = Len(queue) + 1 /\ Len(queue) \in Nat
      /\ Elems(queue') = Elems(queue) \cup {id} /\ Distinct(queue')
    <2>1. Distinct(queue) /\ id \notin Elems(queue)
        BY <1>1 DEF Queued, Elems, Distinct, EveryRequestInOnePlace
    <2>2. QED
        BY <1>0, <1>1, <2>1, AppendedQueue
<1>3. \A q \in Runners : run[q] # Idle => run[q].req \in Made
    BY DEF EveryRequestInOnePlace, InHand
<1>4. QueuedRuns' = QueuedRuns
    <2>1. \A q \in Runners : Running(q) => run[q] # Idle
        BY DEF Running, Idle, Stages
    <2>2. QED
        BY <1>0, <1>1, <1>3, <2>1 DEF QueuedRuns, Running
<1>5. TypeOK'
    BY <1>0, <1>1, <1>2, LimitsAssumption DEF TypeOK, intakeVars
<1>6. EveryRequestInOnePlace'
    <2>1. InHand' = InHand /\ Queued' = Queued \cup {id}
        BY <1>0, <1>2 DEF InHand, Queued, Elems
    <2>2. unfinished' = Len(queue') + Cardinality(QueuedRuns')
        BY <1>0, <1>2, <1>4, CountOfRuns DEF EveryRequestInOnePlace
    <2>3. Queued' \cup InHand' = {i \in Made' : results'[i] = "open"}
        BY <1>1, <2>1 DEF EveryRequestInOnePlace
    <2>4. Queued' \cap InHand' = {}
        BY <1>1, <2>1 DEF EveryRequestInOnePlace
    <2>5. \A i, j \in DOMAIN queue' : queue'[i] = queue'[j] => i = j
        BY <1>2 DEF Distinct
    <2>6. QED
        BY <1>0, <1>1, <2>2, <2>3, <2>4, <2>5 DEF EveryRequestInOnePlace
<1>7. CurrentTaskRunning'
    BY <1>0 DEF CurrentTaskRunning, Running
<1>8. Supporting'
    <2>1. \A i \in DOMAIN queue' : carries'[queue'[i]] = {}
        <3> SUFFICES ASSUME NEW i \in DOMAIN queue'
                     PROVE  carries'[queue'[i]] = {}
            OBVIOUS
        <3>1. queue'[i] \in Queued \cup {id}
            BY <1>2 DEF Queued, Elems
        <3>2. CASE queue'[i] = id
            BY <1>1, <3>2
        <3>3. CASE queue'[i] \in Queued
            <4>1. queue'[i] \in Made /\ carries[queue'[i]] = {}
                BY <3>3 DEF EveryRequestInOnePlace, Supporting, Queued
            <4>2. QED
                BY <1>1, <4>1
        <3>4. QED
            BY <3>1, <3>2, <3>3
    <2>2. \A q \in Runners : Putting(q)' => carries'[run'[q].req] = {}
        <3> SUFFICES ASSUME NEW q \in Runners, Putting(q)
                     PROVE  carries'[run[q].req] = {}
            BY <1>0 DEF Putting
        <3>1. run[q].req \in Made /\ carries[run[q].req] = {}
            BY <1>3, NotIdle DEF Supporting, Putting
        <3>2. QED
            BY <1>1, <3>1
    <2>3. QED
        BY <1>0, <2>1, <2>2 DEF Supporting, Putting
<1>9. QED
    BY <1>5, <1>6, <1>7, <1>8

----------------------------------------------------------------------------
(* The steps in which a runner takes a request. *)

(* The first attempt at a request. *)
LEMMA StartedRun ==
    ASSUME NEW id \in Nat
    PROVE  /\ Started(id) \in Run
           /\ Started(id).stage = "observing" /\ Started(id).stage \in Stages
           /\ Started(id).req = id
           /\ Started(id).frame = 0
           /\ Started(id) # Idle
BY DEF Started, Idle, Run, Stages

(* Who holds a request holds an open one, and alone. *)
LEMMA Held ==
    ASSUME IInv
    PROVE  /\ \A q \in Runners : run[q] # Idle => run[q].req \in Made /\ run[q].req \in InHand
           /\ \A q \in Runners : run[q].stage # "idle" => run[q] # Idle
           /\ \A q \in Runners : Running(q) => run[q] # Idle
           /\ \A q \in Queued : q \in Made /\ q \in Nat /\ carries[q] = {}
           /\ Distinct(queue) /\ Elems(queue) = Queued /\ queue \in Seq(Nat)
<1>1. \A q \in Runners : run[q].stage # "idle" => run[q] # Idle
    BY NotIdle
<1>2. \A q \in Runners : Running(q) => run[q].stage # "idle"
    BY DEF Running, Stages
<1>3. \A q \in Queued : q \in Made /\ q \in Nat /\ carries[q] = {}
    BY DEF IInv, EveryRequestInOnePlace, TypeOK, Supporting, Queued
<1>4. QED
    BY <1>1, <1>2, <1>3 DEF IInv, EveryRequestInOnePlace, InHand, TypeOK, Distinct, Elems, Queued

LEMMA RunNextStep ==
    ASSUME IInv, NEW r \in Runners, RunNext(r)
    PROVE  IInv'
<1> USE DEF IInv
<1> DEFINE id == Head(queue)
           x == Started(id)
<1>0. /\ run \in [Runners -> Run] /\ run[r] = Idle
      /\ run' = [run EXCEPT ![r] = x]
      /\ queue # <<>> /\ queue' = Tail(queue) /\ currentTask' = r
      /\ UNCHANGED <<unfinished, carries, results, prevFrame, prevSnapshot, seen>>
      /\ UNCHANGED intakeVars
    BY DEF RunNext, TypeOK
<1>1. /\ queue' \in Seq(Nat) /\ id \in Queued /\ id \in Nat
      /\ Len(queue) \in Nat \ {0} /\ Len(queue') = Len(queue) - 1
      /\ Elems(queue') = Queued \ {id} /\ Distinct(queue')
    BY <1>0, Held, TailQueue
<1>2. /\ x \in Run /\ x.stage \in Stages /\ x.req = id /\ x.frame = 0 /\ x # Idle
      /\ x.stage = "observing"
    BY <1>1, StartedRun
<1> HIDE DEF x, id
<1>3. /\ id \in Made /\ carries[id] = {} /\ id \notin InHand
    BY <1>1, Held DEF EveryRequestInOnePlace
<1>4. /\ run' \in [Runners -> Run]
      /\ \A q \in Runners : run'[q] = IF q = r THEN x ELSE run[q]
      /\ InHand' = InHand \cup {id}
    BY <1>0, <1>2, RunnerTakes
<1>5. Cardinality(QueuedRuns') = Cardinality(QueuedRuns) + 1
    <2>1. r \notin QueuedRuns
        BY <1>0, Held DEF QueuedRuns
    <2>2. QueuedRuns' = QueuedRuns \cup {r}
        BY <1>0, <1>2, <1>3, <1>4 DEF QueuedRuns, Running
    <2>3. QED
        BY <2>1, <2>2, CountOfRuns
<1>6. TypeOK'
    BY <1>0, <1>1, <1>4, LimitsAssumption DEF TypeOK, intakeVars
<1>7. EveryRequestInOnePlace'
    <2>1. Queued' = Queued \ {id}
        BY <1>1 DEF Queued, Elems
    <2>2. unfinished' = Len(queue') + Cardinality(QueuedRuns')
        BY <1>0, <1>1, <1>5, CountOfRuns DEF EveryRequestInOnePlace
    <2>3. /\ Queued' \cup InHand' = {i \in Made' : results'[i] = "open"}
          /\ Queued' \cap InHand' = {}
        BY <1>0, <1>1, <1>3, <1>4, <2>1 DEF EveryRequestInOnePlace, Made
    <2>4. \A p, q \in Runners :
              run'[p] # Idle /\ run'[q] # Idle /\ run'[p].req = run'[q].req => p = q
        BY <1>0, <1>2, <1>3, <1>4, Held DEF EveryRequestInOnePlace
    <2>5. \A i, j \in DOMAIN queue' : queue'[i] = queue'[j] => i = j
        BY <1>1 DEF Distinct
    <2>6. QED
        BY <1>0, <2>2, <2>3, <2>4, <2>5 DEF EveryRequestInOnePlace
<1>8. CurrentTaskRunning'
    BY <1>0, <1>2, <1>4 DEF CurrentTaskRunning, Running
<1>9. Supporting'
    <2>1. \A i \in DOMAIN queue' : carries'[queue'[i]] = {}
        BY <1>0, <1>1, Held DEF Elems
    <2>2. \A q \in Runners : Putting(q)' => carries'[run'[q].req] = {}
        BY <1>0, <1>2, <1>4 DEF Supporting, Putting
    <2>3. /\ \A q \in Runners : run'[q].stage = "idle" => run'[q] = Idle
          /\ \A q \in Runners : run'[q].frame <= seen'
        <3>1. "idle" \notin Stages /\ seen \in Nat
            BY DEF Stages, TypeOK
        <3>2. QED
            BY <1>0, <1>2, <1>4, <3>1 DEF Supporting
    <2>4. QED
        BY <2>1, <2>2, <2>3 DEF Supporting, Putting
<1>10. QED
    BY <1>6, <1>7, <1>8, <1>9

LEMMA RunOnceStep ==
    ASSUME IInv, NEW r \in Runners, RunOnce(r)
    PROVE  IInv'
<1> USE DEF IInv
<1> DEFINE id == NewRequest
           x == [Idle EXCEPT !.stage = "putting", !.req = id]
<1>0. /\ run \in [Runners -> Run] /\ run[r] = Idle /\ Make({})
      /\ run' = [run EXCEPT ![r] = x]
      /\ UNCHANGED <<queue, unfinished, prevFrame, prevSnapshot, currentTask, seen>>
      /\ UNCHANGED intakeVars
    BY DEF RunOnce, TypeOK
<1>1. /\ id \in Nat /\ id \notin Made /\ id \notin Queued /\ id \notin InHand
      /\ carries' \in Seq(SUBSET (1 .. MaxEvents))
      /\ results' \in Seq(Statuses \cup {"open"})
      /\ Len(results') = Len(carries')
      /\ \A i \in Made : carries'[i] = carries[i]
      /\ carries'[id] = {}
      /\ {i \in Made' : results'[i] = "open"} = {i \in Made : results[i] = "open"} \cup {id}
    BY <1>0, MadeOne
<1> HIDE DEF id
<1>2. x \in Run /\ x.stage = "putting" /\ x.req = id /\ x.frame = 0 /\ x # Idle
    BY <1>1 DEF Idle, Run
<1> HIDE DEF x
<1>3. /\ run' \in [Runners -> Run]
      /\ \A q \in Runners : run'[q] = IF q = r THEN x ELSE run[q]
      /\ InHand' = InHand \cup {id}
    BY <1>0, <1>2, RunnerTakes
<1>4. QueuedRuns' = QueuedRuns
    <2>1. ~Running(r) /\ ~Running(r)'
        BY <1>0, <1>2, <1>3 DEF Running, Idle, Stages
    <2>2. \A q \in Runners \ {r} :
              Running(q)' = Running(q) /\ (Running(q) => carries'[run'[q].req] = carries[run[q].req])
        BY <1>1, <1>3, Held DEF Running
    <2>3. QED
        BY <2>1, <2>2, <1>3 DEF QueuedRuns
<1>5. TypeOK'
    BY <1>0, <1>1, <1>3 DEF TypeOK, intakeVars
<1>6. EveryRequestInOnePlace'
    <2>1. Queued' = Queued
        BY <1>0 DEF Queued
    <2>2. /\ Queued' \cup InHand' = {i \in Made' : results'[i] = "open"}
          /\ Queued' \cap InHand' = {}
        BY <1>1, <1>3, <2>1 DEF EveryRequestInOnePlace
    <2>3. \A p, q \in Runners :
              run'[p] # Idle /\ run'[q] # Idle /\ run'[p].req = run'[q].req => p = q
        BY <1>0, <1>1, <1>2, <1>3, Held DEF EveryRequestInOnePlace
    <2>4. QED
        BY <1>0, <1>1, <1>4, <2>2, <2>3 DEF EveryRequestInOnePlace
<1>7. CurrentTaskRunning'
    BY <1>0, <1>3 DEF CurrentTaskRunning, Running, Idle, Stages
<1>8. Supporting'
    <2>1. \A i \in DOMAIN queue' : carries'[queue'[i]] = {}
        BY <1>0, <1>1, Held DEF Queued
    <2>2. \A q \in Runners : Putting(q)' => carries'[run'[q].req] = {}
        <3> SUFFICES ASSUME NEW q \in Runners, run'[q].stage = "putting"
                     PROVE  carries'[run'[q].req] = {}
            BY DEF Putting
        <3>1. CASE q = r
            BY <1>1, <1>2, <1>3, <3>1
        <3>2. CASE q # r
            <4>1. run'[q] = run[q] /\ run[q].req \in Made /\ carries[run[q].req] = {}
                BY <1>3, <3>2, Held DEF Supporting, Putting
            <4>2. QED
                BY <1>1, <4>1
        <3>3. QED
            BY <3>1, <3>2
    <2>3. /\ \A q \in Runners : run'[q].stage = "idle" => run'[q] = Idle
          /\ \A q \in Runners : run'[q].frame <= seen'
        <3>1. seen \in Nat
            BY DEF TypeOK
        <3>2. QED
            BY <1>0, <1>2, <1>3, <3>1 DEF Supporting
    <2>4. QED
        BY <2>1, <2>2, <2>3 DEF Supporting, Putting
<1>9. QED
    BY <1>5, <1>6, <1>7, <1>8

LEMMA PutThenGetStep ==
    ASSUME IInv, NEW r \in Runners, PutThenGet(r)
    PROVE  IInv'
<1> USE DEF IInv
<1> DEFINE put == run[r].req
           filled == Append(queue, put)
           id == Head(filled)
           x == Started(id)
<1>0. /\ run \in [Runners -> Run] /\ Putting(r)
      /\ run' = [run EXCEPT ![r] = x]
      /\ queue' = Tail(filled) /\ Len(queue) < QueueMax /\ currentTask' = r
      /\ unfinished' = unfinished + 1
      /\ UNCHANGED <<carries, results, prevFrame, prevSnapshot, seen>>
      /\ UNCHANGED intakeVars
    BY DEF PutThenGet, Putting, TypeOK
<1>1. /\ run[r] # Idle /\ put \in Made /\ put \in InHand /\ put \notin Queued
      /\ put \in Nat /\ carries[put] = {}
    <2>1. run[r] # Idle
        BY <1>0, Held DEF Putting
    <2>2. put \in Made /\ put \in InHand /\ put \notin Queued
        BY <2>1, Held DEF EveryRequestInOnePlace
    <2>3. QED
        BY <1>0, <2>1, <2>2 DEF Supporting, Made, TypeOK, Run
<1>2. /\ filled \in Seq(Nat) /\ filled # <<>> /\ Len(filled) = Len(queue) + 1
      /\ Elems(filled) = Queued \cup {put} /\ Distinct(filled)
    BY <1>1, Held, AppendedQueue
<1> HIDE DEF put, filled
<1>3. /\ queue' \in Seq(Nat) /\ id \in Queued \cup {put} /\ id \in Nat
      /\ Len(queue) \in Nat /\ Len(queue') = Len(queue)
      /\ Elems(queue') = (Queued \cup {put}) \ {id} /\ Distinct(queue')
    BY <1>0, <1>2, TailQueue DEF TypeOK
<1>4. /\ x \in Run /\ x.stage \in Stages /\ x.req = id /\ x.frame = 0 /\ x # Idle
      /\ x.stage = "observing"
    BY <1>3, StartedRun
<1> HIDE DEF x, id
<1>5. id \in Made /\ carries[id] = {} /\ (id # put => id \notin InHand)
    BY <1>1, <1>3, Held DEF EveryRequestInOnePlace
<1>6. /\ run' \in [Runners -> Run]
      /\ \A q \in Runners : run'[q] = IF q = r THEN x ELSE run[q]
      /\ InHand' = (InHand \ {put}) \cup {id}
    BY <1>0, <1>1, <1>4, RunnerSwaps DEF EveryRequestInOnePlace, put
<1>7. Cardinality(QueuedRuns') = Cardinality(QueuedRuns) + 1
    <2>1. r \notin QueuedRuns
        BY <1>0 DEF QueuedRuns, Putting, Running, Stages
    <2>2. QueuedRuns' = QueuedRuns \cup {r}
        BY <1>0, <1>4, <1>5, <1>6 DEF QueuedRuns, Running
    <2>3. QED
        BY <2>1, <2>2, CountOfRuns
<1>8. TypeOK'
    BY <1>0, <1>3, <1>6, LimitsAssumption DEF TypeOK, intakeVars
<1>9. EveryRequestInOnePlace'
    <2>1. Queued' = (Queued \cup {put}) \ {id}
        BY <1>3 DEF Queued, Elems
    <2>2. unfinished' = Len(queue') + Cardinality(QueuedRuns')
        <3>1. unfinished = Len(queue) + Cardinality(QueuedRuns)
            BY DEF EveryRequestInOnePlace
        <3>2. Cardinality(QueuedRuns) \in Nat
            BY CountOfRuns
        <3>3. /\ unfinished' = unfinished + 1
              /\ Len(queue') = Len(queue) /\ Len(queue) \in Nat
              /\ Cardinality(QueuedRuns') = Cardinality(QueuedRuns) + 1
            BY <1>0, <1>3, <1>7
        <3>4. QED
            BY <3>1, <3>2, <3>3
    <2>3. Queued' \cup InHand' = {i \in Made' : results'[i] = "open"}
        <3>1. Queued' \cup InHand' = Queued \cup InHand
            BY <1>1, <1>3, <1>6, <2>1
        <3>2. QED
            BY <1>0, <3>1 DEF EveryRequestInOnePlace, Made
    <2>4. Queued' \cap InHand' = {}
        BY <1>1, <1>6, <2>1 DEF EveryRequestInOnePlace
    <2>5. \A p, q \in Runners :
              run'[p] # Idle /\ run'[q] # Idle /\ run'[p].req = run'[q].req => p = q
        <3>1. \A q \in Runners \ {r} : run'[q] # Idle => run'[q].req # id
            BY <1>1, <1>5, <1>6, Held DEF EveryRequestInOnePlace, put
        <3>2. QED
            BY <1>4, <1>6, <3>1 DEF EveryRequestInOnePlace
    <2>6. \A i, j \in DOMAIN queue' : queue'[i] = queue'[j] => i = j
        BY <1>3 DEF Distinct
    <2>7. QED
        BY <1>0, <2>2, <2>3, <2>4, <2>5, <2>6 DEF EveryRequestInOnePlace
<1>10. CurrentTaskRunning'
    BY <1>0, <1>4, <1>6 DEF CurrentTaskRunning, Running
<1>11. Supporting'
    <2>1. \A i \in DOMAIN queue' : carries'[queue'[i]] = {}
        <3> SUFFICES ASSUME NEW i \in DOMAIN queue'
                     PROVE  carries'[queue'[i]] = {}
            OBVIOUS
        <3>1. queue'[i] \in Queued \cup {put}
            BY <1>3 DEF Elems
        <3>2. carries[queue'[i]] = {}
            <4>1. carries[put] = {}
                BY <1>1 DEF put
            <4>2. QED
                BY <3>1, <4>1, Held
        <3>3. QED
            BY <1>0, <3>2
    <2>2. \A q \in Runners : Putting(q)' => carries'[run'[q].req] = {}
        BY <1>0, <1>4, <1>6 DEF Supporting, Putting
    <2>3. /\ \A q \in Runners : run'[q].stage = "idle" => run'[q] = Idle
          /\ \A q \in Runners : run'[q].frame <= seen'
        <3>1. "idle" \notin Stages /\ seen \in Nat
            BY DEF Stages, TypeOK
        <3>2. QED
            BY <1>0, <1>4, <1>6, <3>1 DEF Supporting
    <2>4. QED
        BY <2>1, <2>2, <2>3 DEF Supporting, Putting
<1>12. QED
    BY <1>8, <1>9, <1>10, <1>11

LEMMA RuntimeEventStep ==
    ASSUME IInv, NEW r \in Runners, RunNextRuntimeEvent(r)
    PROVE  IInv'
<1> USE DEF IInv
<1> DEFINE id == NewRequest
           x == Started(id)
<1>0. /\ run \in [Runners -> Run] /\ run[r] = Idle
      /\ run' = [run EXCEPT ![r] = x] /\ currentTask' = r
      /\ UNCHANGED <<queue, unfinished, prevFrame, prevSnapshot, seen>>
    BY DEF RunNextRuntimeEvent, TypeOK
<1>1. PICK batch \in SUBSET pending : Intake!Deliver(batch) /\ Make(batch)
    BY DEF RunNextRuntimeEvent
<1>2. /\ batch \in SUBSET (1 .. MaxEvents) /\ batch # {}
      /\ submitted' = submitted
      /\ pending' \in SUBSET (1 .. submitted')
      /\ delivered' \in SUBSET (1 .. submitted')
    <2>1. submitted \in 0 .. MaxEvents /\ pending \in SUBSET (1 .. submitted)
              /\ delivered \in SUBSET (1 .. submitted)
        BY DEF TypeOK
    <2>2. 1 .. submitted \subseteq 1 .. MaxEvents
        BY <2>1, LimitsAssumption
    <2>3. QED
        BY <1>1, <2>1, <2>2 DEF Intake!Deliver
<1>3. /\ id \in Nat /\ id \notin Made /\ id \notin Queued /\ id \notin InHand
      /\ carries' \in Seq(SUBSET (1 .. MaxEvents))
      /\ results' \in Seq(Statuses \cup {"open"})
      /\ Len(results') = Len(carries')
      /\ \A i \in Made : carries'[i] = carries[i]
      /\ carries'[id] # {}
      /\ {i \in Made' : results'[i] = "open"} = {i \in Made : results[i] = "open"} \cup {id}
    BY <1>1, <1>2, MadeOne
<1>4. /\ x \in Run /\ x.stage \in Stages /\ x.req = id /\ x.frame = 0 /\ x # Idle
      /\ x.stage = "observing"
    BY <1>3, StartedRun
<1> HIDE DEF x, id
<1>5. /\ run' \in [Runners -> Run]
      /\ \A q \in Runners : run'[q] = IF q = r THEN x ELSE run[q]
      /\ InHand' = InHand \cup {id}
    BY <1>0, <1>4, RunnerTakes
<1>6. QueuedRuns' = QueuedRuns
    <2>1. r \notin QueuedRuns /\ r \notin QueuedRuns'
        BY <1>0, <1>3, <1>4, <1>5, Held DEF QueuedRuns
    <2>2. \A q \in Runners \ {r} :
              Running(q)' = Running(q) /\ (Running(q) => carries'[run'[q].req] = carries[run[q].req])
        BY <1>3, <1>5, Held DEF Running
    <2>3. QED
        BY <2>1, <2>2, <1>5 DEF QueuedRuns
<1>7. TypeOK'
    BY <1>0, <1>2, <1>3, <1>5 DEF TypeOK
<1>8. EveryRequestInOnePlace'
    <2>1. Queued' = Queued
        BY <1>0 DEF Queued
    <2>2. /\ Queued' \cup InHand' = {i \in Made' : results'[i] = "open"}
          /\ Queued' \cap InHand' = {}
        BY <1>3, <1>5, <2>1 DEF EveryRequestInOnePlace
    <2>3. \A p, q \in Runners :
              run'[p] # Idle /\ run'[q] # Idle /\ run'[p].req = run'[q].req => p = q
        BY <1>0, <1>3, <1>4, <1>5, Held DEF EveryRequestInOnePlace
    <2>4. QED
        BY <1>0, <1>3, <1>6, <2>2, <2>3 DEF EveryRequestInOnePlace
<1>9. CurrentTaskRunning'
    BY <1>0, <1>4, <1>5 DEF CurrentTaskRunning, Running
<1>10. Supporting'
    <2>1. \A i \in DOMAIN queue' : carries'[queue'[i]] = {}
        BY <1>0, <1>3, Held DEF Queued
    <2>2. \A q \in Runners : Putting(q)' => carries'[run'[q].req] = {}
        <3> SUFFICES ASSUME NEW q \in Runners, run'[q].stage = "putting"
                     PROVE  carries'[run'[q].req] = {}
            BY DEF Putting
        <3>1. q # r
            BY <1>4, <1>5
        <3>2. run'[q] = run[q] /\ run[q].req \in Made /\ carries[run[q].req] = {}
            BY <1>5, <3>1, Held DEF Supporting, Putting
        <3>3. QED
            BY <1>3, <3>2
    <2>3. /\ \A q \in Runners : run'[q].stage = "idle" => run'[q] = Idle
          /\ \A q \in Runners : run'[q].frame <= seen'
        <3>1. "idle" \notin Stages /\ seen \in Nat
            BY DEF Stages, TypeOK
        <3>2. QED
            BY <1>0, <1>4, <1>5, <3>1 DEF Supporting
    <2>4. QED
        BY <2>1, <2>2, <2>3 DEF Supporting, Putting
<1>11. QED
    BY <1>7, <1>8, <1>9, <1>10

----------------------------------------------------------------------------
(* Every step preserves the invariant. *)

(* A stage that answers, or cancel_current: one runner's record changes. *)
LEMMA StageStep ==
    ASSUME IInv, NEW r \in Runners, Step(r)
    PROVE  IInv'
<1>0. /\ run[r] \in Run /\ run \in [Runners -> Run] /\ seen \in Nat
      /\ run[r].frame \in Nat /\ run[r].frame <= seen /\ run[r].req \in Nat
      /\ run[r].attempt \in Nat
      /\ Stages \subseteq Stages \cup {"idle", "putting"}
      /\ prevFrame \in Nat /\ prevSnapshot \in Nat
    BY SMTT(30) DEF IInv, TypeOK, Supporting, Run
<1>1. ASSUME NEW stage \in Stages, NEW next \in Stages, Active(r, stage), To(r, next)
      PROVE  IInv'
    <2> DEFINE x == [run[r] EXCEPT !.stage = next]
    <2>1. x \in Run /\ x.stage = next /\ x.req = run[r].req /\ x.frame = run[r].frame
        BY <1>0 DEF Run
    <2>2. run' = [run EXCEPT ![r] = x] /\ run[r].stage \in Stages
        BY <1>0, <1>1 DEF To, Active
    <2> HIDE DEF x
    <2>3. /\ UNCHANGED <<queue, unfinished, carries, results, prevFrame, prevSnapshot>>
          /\ UNCHANGED intakeVars /\ seen' = seen /\ currentTask' \in {currentTask, r}
        BY <1>1 DEF To
    <2>4. x.frame <= seen' /\ seen' \in Nat /\ seen <= seen'
        BY <1>0, <2>1, <2>3
    <2>5. QED
        BY <2>1, <2>2, <2>3, <2>4, MoveStep
<1>2. CASE Observed(r)
    <2> DEFINE x == [run[r] EXCEPT !.stage = "diffing", !.frame = seen + 1, !.base = prevFrame]
    <2>1. /\ x \in Run /\ x.stage \in Stages /\ x.req = run[r].req /\ x.frame = seen + 1
        <3>1. "diffing" \in Stages /\ seen + 1 \in Nat
            BY <1>0 DEF Stages
        <3>2. QED
            BY <1>0, <3>1 DEF Run
    <2>2. run' = [run EXCEPT ![r] = x] /\ run[r].stage \in Stages
        BY <1>0, <1>2 DEF Observed, Active, Stages
    <2> HIDE DEF x
    <2>3. /\ UNCHANGED <<queue, unfinished, carries, results, prevFrame, prevSnapshot>>
          /\ UNCHANGED intakeVars /\ seen' = seen + 1 /\ currentTask' \in {currentTask, r}
        BY <1>2 DEF Observed
    <2>4. x.frame <= seen' /\ seen' \in Nat /\ seen <= seen'
        BY <1>0, <2>1, <2>3
    <2>5. QED
        BY <2>1, <2>2, <2>3, <2>4, MoveStep
<1>3. CASE Planned(r)
    <2> DEFINE x == [run[r] EXCEPT !.stage = "verifying", !.before = prevSnapshot]
    <2>1. /\ x \in Run /\ x.stage \in Stages /\ x.req = run[r].req /\ x.frame = run[r].frame
        BY <1>0 DEF Run, Stages
    <2>2. run' = [run EXCEPT ![r] = x] /\ run[r].stage \in Stages
        BY <1>0, <1>3 DEF Planned, Active, Stages
    <2> HIDE DEF x
    <2>3. /\ UNCHANGED <<queue, unfinished, carries, results, prevFrame, prevSnapshot>>
          /\ UNCHANGED intakeVars /\ seen' = seen /\ currentTask' \in {currentTask, r}
        BY <1>3 DEF Planned
    <2>4. x.frame <= seen' /\ seen' \in Nat /\ seen <= seen'
        BY <1>0, <2>1, <2>3
    <2>5. QED
        BY <2>1, <2>2, <2>3, <2>4, MoveStep
<1>4. CASE Diffed(r) \/ RebuiltForRecovery(r) \/ Rebuilt(r) \/ LoadedSnapshot(r)
             \/ LoadedNothing(r) \/ Reconciled(r) \/ PolicyAllowed(r)
    BY <1>1, <1>4 DEF Diffed, RebuiltForRecovery, Rebuilt, LoadedSnapshot,
                      LoadedNothing, Reconciled, PolicyAllowed, Stages
<1>5. ASSUME Running(r), Retry(r), NoCommit
      PROVE  IInv'
    <2> DEFINE x == [Started(run[r].req) EXCEPT !.attempt = run[r].attempt + 1]
    <2>1. x \in Run /\ x.stage \in Stages /\ x.req = run[r].req /\ x.frame = 0
        <3>1. Started(run[r].req) \in Run /\ run[r].attempt + 1 \in Nat
            BY <1>0, StartedRun
        <3>2. x \in Run
            BY <3>1 DEF Run
        <3>3. QED
            BY <1>0, <3>1, <3>2, StartedRun DEF Run
    <2>2. run' = [run EXCEPT ![r] = x] /\ run[r].stage \in Stages
        BY <1>5 DEF Retry, Running
    <2> HIDE DEF x
    <2>3. /\ UNCHANGED <<queue, unfinished, carries, results, prevFrame, prevSnapshot>>
          /\ UNCHANGED intakeVars /\ seen' = seen /\ currentTask' \in {currentTask, r}
        BY <1>5 DEF Retry, NoCommit
    <2>4. x.frame <= seen' /\ seen' \in Nat /\ seen <= seen'
        BY <1>0, <2>1, <2>3
    <2>5. QED
        BY <2>1, <2>2, <2>3, <2>4, MoveStep
<1>6. CASE Verified(r)
    <2>1. Running(r) /\ Return(r, "completed")
          /\ prevFrame' = run[r].frame /\ prevSnapshot' = run[r].frame
        BY <1>6 DEF Verified, Active, Running, Stages
    <2>2. QED
        BY <2>1, ReturnStep DEF Statuses
<1>7. CASE PolicyRefused(r)
    <2>1. Running(r) /\ Return(r, "aborted") /\ NoCommit
        BY <1>7 DEF PolicyRefused, Active, Running, Stages
    <2>2. QED
        BY <2>1, ReturnStep DEF Statuses, NoCommit
<1>8. CASE Cancelled(r)
    BY <1>8, ReturnStep DEF Cancelled, Statuses, NoCommit
<1>9. CASE TimedOut(r)
    BY <1>5, <1>9, ReturnStep DEF TimedOut, Statuses, NoCommit
<1>10. CASE Raised(r)
    BY <1>5, <1>10, ReturnStep DEF Raised, Statuses, NoCommit
<1>11. QED
    BY <1>2, <1>3, <1>4, <1>6, <1>7, <1>8, <1>9, <1>10 DEF Step

LEMMA CancelStep == IInv /\ CancelCurrent => IInv'
<1> SUFFICES ASSUME IInv, CancelCurrent
             PROVE  IInv'
    OBVIOUS
<1> DEFINE r == currentTask
           x == [run[r] EXCEPT !.cancelled = TRUE]
<1>1. /\ r \in Runners /\ run[r].stage \in Stages
      /\ run \in [Runners -> Run] /\ seen \in Nat /\ run[r].frame <= seen
    BY DEF IInv, CancelCurrent, CurrentTaskRunning, Running, TypeOK, Supporting
<1>2. x \in Run /\ x.stage = run[r].stage /\ x.req = run[r].req /\ x.frame = run[r].frame
    BY <1>1 DEF Run
<1>3. run' = [run EXCEPT ![r] = x]
    BY <1>1 DEF CancelCurrent
<1>4. UNCHANGED <<queue, unfinished, carries, results, prevFrame, prevSnapshot,
                  currentTask, seen>>
      /\ UNCHANGED intakeVars
    BY DEF CancelCurrent
<1> HIDE DEF x, r
<1>5. x.frame <= seen' /\ seen' \in Nat /\ seen <= seen' /\ currentTask' \in {currentTask, r}
    BY <1>1, <1>2, <1>4
<1>6. QED
    BY <1>1, <1>2, <1>3, <1>4, <1>5, MoveStep

LEMMA NextIInv == IInv /\ [Next]_vars => IInv'
<1> SUFFICES ASSUME IInv, [Next]_vars
             PROVE  IInv'
    OBVIOUS
<1>1. CASE UNCHANGED vars
    <2> USE <1>1 DEF vars, loopVars, intakeVars
    <2>1. TypeOK => TypeOK'
        BY DEF TypeOK
    <2>2. EveryRequestInOnePlace => EveryRequestInOnePlace'
        BY DEF EveryRequestInOnePlace, Made, Queued, InHand, QueuedRuns, Running
    <2>3. CurrentTaskRunning => CurrentTaskRunning'
        BY DEF CurrentTaskRunning, Running
    <2>4. Supporting => Supporting'
        BY DEF Supporting, Putting
    <2>5. QED
        BY <2>1, <2>2, <2>3, <2>4 DEF IInv
<1>2. CASE Enqueue \/ EnqueueRuntimeEvent \/ CancelCurrent
    BY <1>2, EnqueueStep, SubmitStep, CancelStep
<1>3. ASSUME NEW r \in Runners,
             RunNext(r) \/ RunOnce(r) \/ PutThenGet(r) \/ RunNextRuntimeEvent(r) \/ Step(r)
      PROVE  IInv'
    BY <1>3, RunNextStep, RunOnceStep, PutThenGetStep, RuntimeEventStep, StageStep
<1>4. QED
    BY <1>1, <1>2, <1>3 DEF Next

LEMMA Invariance == Spec => []IInv
BY InitIInv, NextIInv, PTL DEF Spec

----------------------------------------------------------------------------
(* Theorems. *)

(* The loop keeps its types; in particular the count that asyncio.Queue    *)
(* keeps for join never goes below zero (task_done raises there).          *)
THEOREM TypeCorrect == Spec => []TypeOK
BY Invariance, PTL DEF IInv

(* No request is lost, run twice at a time, or counted wrongly, however    *)
(* enqueue, run_once, run_next, timeouts, retries and cancellations mix.   *)
THEOREM RequestsInOnePlace == Spec => []EveryRequestInOnePlace
BY Invariance, PTL DEF IInv

(* cancel_current only ever cancels a task that is inside _run_request. *)
THEOREM CancelsOnlyRuns == Spec => []CurrentTaskRunning
BY Invariance, PTL DEF IInv

----------------------------------------------------------------------------
(* Runtime events. *)

(* The part of EventsCarried that says where the events are. *)
EventsTravel ==
    /\ delivered = UNION {carries[id] : id \in Made}
    /\ delivered \cap pending = {}
    /\ \A i, j \in Made : i # j => carries[i] \cap carries[j] = {}

(* Only run_next_runtime_event hands out events and only it makes requests *)
(* that carry some.                                                        *)
LEMMA EventsStep == IInv /\ EventsTravel /\ [Next]_vars => EventsTravel'
<1> SUFFICES ASSUME IInv, EventsTravel, [Next]_vars
             PROVE  EventsTravel'
    OBVIOUS
<1>1. CASE UNCHANGED <<carries, pending, delivered>>
    BY <1>1 DEF EventsTravel, Made
<1>2. ASSUME Make({}), UNCHANGED intakeVars
      PROVE  EventsTravel'
    <2>1. /\ Made' = Made \cup {NewRequest} /\ NewRequest \notin Made
          /\ \A i \in Made : carries'[i] = carries[i]
          /\ carries'[NewRequest] = {}
        BY <1>2, MadeOne
    <2>2. UNION {carries'[i] : i \in Made'} = UNION {carries[i] : i \in Made}
        BY <2>1
    <2>3. QED
        BY <1>2, <2>1, <2>2 DEF EventsTravel, intakeVars
<1>3. ASSUME NEW r \in Runners, RunNextRuntimeEvent(r)
      PROVE  EventsTravel'
    <2>1. PICK batch \in SUBSET pending : Intake!Deliver(batch) /\ Make(batch)
        BY <1>3 DEF RunNextRuntimeEvent
    <2>2. /\ batch \in SUBSET (1 .. MaxEvents)
          /\ pending' = pending \ batch /\ delivered' = delivered \cup batch
        <3>1. submitted \in 0 .. MaxEvents /\ pending \in SUBSET (1 .. submitted)
            BY DEF IInv, TypeOK
        <3>2. 1 .. submitted \subseteq 1 .. MaxEvents
            BY <3>1, LimitsAssumption
        <3>3. QED
            BY <2>1, <3>1, <3>2 DEF Intake!Deliver
    <2>3. /\ Made' = Made \cup {NewRequest} /\ NewRequest \notin Made
          /\ \A i \in Made : carries'[i] = carries[i]
          /\ carries'[NewRequest] = batch
        BY <2>1, <2>2, MadeOne
    <2>4. UNION {carries'[i] : i \in Made'} = (UNION {carries[i] : i \in Made}) \cup batch
        BY <2>3
    <2>5. \A i \in Made : carries[i] \cap batch = {}
        BY DEF EventsTravel
    <2>6. QED
        BY <2>2, <2>3, <2>4, <2>5 DEF EventsTravel
<1>4. CASE EnqueueRuntimeEvent
    <2>1. UNCHANGED <<carries, delivered>>
        BY <1>4 DEF EnqueueRuntimeEvent, loopVars, Intake!Take, Intake!Refuse
    <2>2. pending' \subseteq pending \cup {submitted + 1}
        BY <1>4 DEF EnqueueRuntimeEvent, Intake!Take, Intake!Refuse
    <2>3. submitted + 1 \notin delivered
        BY DEF IInv, TypeOK
    <2>4. QED
        BY <2>1, <2>2, <2>3 DEF EventsTravel, Made
<1>5. ASSUME NEW r \in Runners, Step(r)
      PROVE  UNCHANGED <<carries, pending, delivered>>
    BY <1>5 DEF Step, Observed, Diffed, RebuiltForRecovery, Rebuilt, LoadedSnapshot,
                LoadedNothing, Reconciled, PolicyAllowed, PolicyRefused, Planned,
                Verified, Cancelled, TimedOut, Raised, To, Return, Retry, intakeVars
<1>6. ASSUME NEW r \in Runners, RunNext(r) \/ PutThenGet(r)
      PROVE  UNCHANGED <<carries, pending, delivered>>
    BY <1>6 DEF RunNext, PutThenGet, intakeVars
<1>7. CASE CancelCurrent \/ UNCHANGED vars
    BY <1>1, <1>7 DEF CancelCurrent, vars, loopVars, intakeVars
<1>8. CASE Enqueue \/ \E r \in Runners : RunOnce(r)
    BY <1>2, <1>8 DEF Enqueue, RunOnce
<1>9. QED
    BY <1>1, <1>3, <1>4, <1>5, <1>6, <1>7, <1>8 DEF Next

(* An open request is queued or in hand, and one that is queued, or waits  *)
(* to be put, carries no event: so one that does is being run.             *)
LEMMA CarriersRun ==
    ASSUME IInv, NEW id \in Made, carries[id] # {}, results[id] = "open"
    PROVE  \E r \in Runners : Running(r) /\ run[r].req = id
<1>1. id \in Queued \cup InHand
    BY DEF IInv, EveryRequestInOnePlace
<1>2. id \notin Queued
    BY DEF IInv, Supporting, Queued
<1>3. PICK r \in Runners : run[r] # Idle /\ run[r].req = id
    BY <1>1, <1>2 DEF InHand
<1>4. run[r].stage \notin {"idle", "putting"}
    BY <1>3 DEF IInv, Supporting, Putting
<1>5. run[r].stage \in Stages \cup {"idle", "putting"}
    BY DEF IInv, TypeOK, Run
<1>6. QED
    BY <1>3, <1>4, <1>5 DEF Running

(* Every event the coordinator handed out is in the hands of exactly one   *)
(* request, and that request in the hands of a runner until it is          *)
(* answered, for any number of callers of run_next_runtime_event.          *)
THEOREM EventsNotLost == Spec => []EventsCarried
<1>1. Init => EventsTravel
    BY DEF Init, Intake!Init, EventsTravel, Made
<1>2. IInv /\ EventsTravel => EventsCarried
    BY CarriersRun DEF EventsCarried, EventsTravel
<1>3. QED
    BY <1>1, <1>2, EventsStep, Invariance, PTL DEF Spec

----------------------------------------------------------------------------
(* Cancellation. *)

CancelledRuns == \A r \in Runners : run[r].cancelled => Running(r)

(* What a step does to the runner it is not about, and to the one it is.   *)
LEMMA CancelledStep ==
    ASSUME IInv, CancelledRuns, [Next]_vars
    PROVE  /\ CancelledRuns'
           /\ \A r \in Runners :
                 run[r].cancelled =>
                     \/ run'[r] = run[r]
                     \/ /\ run'[r] = Idle
                        /\ results'[run[r].req] = "cancelled"
                        /\ UNCHANGED <<prevFrame, prevSnapshot>>
<1>0. run \in [Runners -> Run] /\ Idle.cancelled = FALSE /\ Idle.stage \notin Stages
      /\ \A r \in Runners : run[r].cancelled \in BOOLEAN
    BY DEF IInv, TypeOK, Idle, Run, Stages
<1> DEFINE Honoured == \A r \in Runners :
                 run[r].cancelled =>
                     \/ run'[r] = run[r]
                     \/ /\ run'[r] = Idle
                        /\ results'[run[r].req] = "cancelled"
                        /\ UNCHANGED <<prevFrame, prevSnapshot>>
<1>1. CASE UNCHANGED run
    BY <1>1 DEF CancelledRuns, Running
<1>2. ASSUME NEW r \in Runners, NEW x, ~run[r].cancelled,
             run' = [run EXCEPT ![r] = x], x.cancelled => x.stage \in Stages
      PROVE  CancelledRuns' /\ Honoured
    <2>1. \A q \in Runners : run'[q] = IF q = r THEN x ELSE run[q]
        BY <1>0, <1>2
    <2>2. QED
        BY <1>2, <2>1 DEF CancelledRuns, Running
<1>3. ASSUME NEW r \in Runners, Cancelled(r)
      PROVE  CancelledRuns' /\ Honoured
    <2>1. /\ \A q \in Runners : run'[q] = IF q = r THEN Idle ELSE run[q]
          /\ results' = [results EXCEPT ![run[r].req] = "cancelled"]
          /\ UNCHANGED <<prevFrame, prevSnapshot>>
        BY <1>0, <1>3 DEF Cancelled, Return, NoCommit
    <2>2. run[r] # Idle
        BY <1>0, <1>3 DEF Cancelled
    <2>3. run[r].req \in DOMAIN results
        BY <2>2, Held DEF IInv, EveryRequestInOnePlace, TypeOK, Made
    <2>4. results'[run[r].req] = "cancelled"
        BY <2>1, <2>3
    <2>5. QED
        BY <1>0, <2>1, <2>4 DEF CancelledRuns, Running
<1>4. ASSUME NEW r \in Runners, NEW id, run[r] = Idle \/ Putting(r),
             run' = [run EXCEPT ![r] = Started(id)]
      PROVE  CancelledRuns' /\ Honoured
    <2>1. ~run[r].cancelled
        BY <1>0, <1>4 DEF CancelledRuns, Running, Putting, Stages
    <2>2. Started(id).cancelled = FALSE
        BY DEF Started, Idle
    <2>3. QED
        BY <1>2, <1>4, <2>1, <2>2
<1>5. ASSUME NEW r \in Runners,
             RunNext(r) \/ PutThenGet(r) \/ RunNextRuntimeEvent(r)
      PROVE  CancelledRuns' /\ Honoured
    BY <1>4, <1>5 DEF RunNext, PutThenGet, RunNextRuntimeEvent, Putting
<1>6. ASSUME NEW r \in Runners, RunOnce(r)
      PROVE  CancelledRuns' /\ Honoured
    <2> DEFINE x == [Idle EXCEPT !.stage = "putting", !.req = NewRequest]
    <2>1. x.cancelled = FALSE /\ run' = [run EXCEPT ![r] = x] /\ run[r] = Idle
        BY <1>6 DEF RunOnce, Idle
    <2> HIDE DEF x
    <2>2. QED
        BY <1>0, <1>2, <2>1
<1>7. CASE CancelCurrent
    <2> DEFINE r == currentTask
               x == [run[r] EXCEPT !.cancelled = TRUE]
    <2>1. r \in Runners /\ run[r].stage \in Stages /\ ~run[r].cancelled
        BY <1>7 DEF IInv, CancelCurrent, CurrentTaskRunning, Running, TypeOK
    <2>2. run' = [run EXCEPT ![r] = x] /\ x.stage \in Stages
        BY <1>0, <1>7, <2>1 DEF CancelCurrent, Run
    <2> HIDE DEF x, r
    <2>3. QED
        BY <1>2, <2>1, <2>2
<1>8. ASSUME NEW r \in Runners, ~run[r].cancelled,
             \/ \E stage \in Stages : To(r, stage)
             \/ Observed(r) \/ Planned(r) \/ Retry(r)
             \/ \E status \in Statuses : Return(r, status)
      PROVE  CancelledRuns' /\ Honoured
    <2>1. ASSUME NEW stage \in Stages, To(r, stage)
          PROVE  CancelledRuns' /\ Honoured
        <3>1. run' = [run EXCEPT ![r] = [run[r] EXCEPT !.stage = stage]]
              /\ [run[r] EXCEPT !.stage = stage].stage = stage
            BY <1>0, <2>1 DEF To, Run
        <3>2. QED
            BY <1>2, <1>8, <2>1, <3>1
    <2>2. CASE Observed(r)
        <3> DEFINE x == [run[r] EXCEPT !.stage = "diffing", !.frame = seen + 1, !.base = prevFrame]
        <3>1. run' = [run EXCEPT ![r] = x] /\ x.stage \in Stages
            BY <1>0, <2>2 DEF Observed, Run, Stages
        <3> HIDE DEF x
        <3>2. QED
            BY <1>2, <1>8, <3>1
    <2>3. CASE Planned(r)
        <3> DEFINE x == [run[r] EXCEPT !.stage = "verifying", !.before = prevSnapshot]
        <3>1. run' = [run EXCEPT ![r] = x] /\ x.stage \in Stages
            BY <1>0, <2>3 DEF Planned, Run, Stages
        <3> HIDE DEF x
        <3>2. QED
            BY <1>2, <1>8, <3>1
    <2>4. CASE Retry(r)
        <3> DEFINE x == [Started(run[r].req) EXCEPT !.attempt = run[r].attempt + 1]
        <3>1. run' = [run EXCEPT ![r] = x] /\ x.stage \in Stages
            BY <2>4 DEF Retry, Started, Idle, Stages
        <3> HIDE DEF x
        <3>2. QED
            BY <1>2, <1>8, <3>1
    <2>5. CASE \E status \in Statuses : Return(r, status)
        BY <1>0, <1>2, <1>8, <2>5 DEF Return
    <2>6. QED
        BY <1>8, <2>1, <2>2, <2>3, <2>4, <2>5
<1>9. ASSUME NEW r \in Runners, Step(r)
      PROVE  CancelledRuns' /\ Honoured
    <2> HIDE DEF Honoured
    <2>1. CASE Diffed(r) \/ RebuiltForRecovery(r) \/ Rebuilt(r) \/ LoadedSnapshot(r)
             \/ LoadedNothing(r) \/ Reconciled(r) \/ PolicyAllowed(r)
        BY <1>8, <2>1 DEF Diffed, RebuiltForRecovery, Rebuilt, LoadedSnapshot,
                      LoadedNothing, Reconciled, PolicyAllowed, Stages, Active
    <2>2. CASE Observed(r) \/ Planned(r)
        BY <1>8, <2>2 DEF Observed, Planned, Active
    <2>3. CASE Verified(r) \/ PolicyRefused(r)
        BY <1>8, <2>3 DEF Verified, PolicyRefused, Active, Statuses
    <2>4. CASE TimedOut(r) \/ Raised(r)
        BY <1>8, <2>4 DEF TimedOut, Raised, Statuses
    <2>5. QED
        BY <1>3, <1>9, <2>1, <2>2, <2>3, <2>4 DEF Step
<1>10. CASE Enqueue \/ EnqueueRuntimeEvent \/ UNCHANGED vars
    BY <1>1, <1>10 DEF Enqueue, EnqueueRuntimeEvent, vars, loopVars
<1>11. QED
    <2>1. ASSUME NEW r \in Runners,
                 RunNext(r) \/ RunOnce(r) \/ PutThenGet(r)
                    \/ RunNextRuntimeEvent(r) \/ Step(r)
          PROVE  CancelledRuns' /\ Honoured
        <3> HIDE DEF Honoured
        <3>1. QED
            BY <1>5, <1>6, <1>9, <2>1
    <2>2. CASE Next
        BY <1>7, <1>10, <2>1, <2>2 DEF Next
    <2>3. QED
        BY <1>10, <2>2

(* A cancelled attempt ends as "cancelled", in one step, whatever raced    *)
(* with the cancellation.                                                  *)
THEOREM CancellationIsFinal == Spec => CancelHonoured
<1>1. Init => CancelledRuns
    BY DEF Init, CancelledRuns, Idle
<1>2. IInv /\ CancelledRuns /\ [Next]_vars => CancelledRuns'
    BY CancelledStep
<1>3. IInv /\ CancelledRuns /\ [Next]_vars =>
          [\A r \in Runners :
              run[r].cancelled =>
                  \/ run'[r] = run[r]
                  \/ /\ run'[r] = Idle
                     /\ results'[run[r].req] = "cancelled"
                     /\ UNCHANGED <<prevFrame, prevSnapshot>>]_vars
    BY CancelledStep
<1>4. QED
    BY <1>1, <1>2, <1>3, Invariance, PTL DEF Spec, CancelHonoured

=============================================================================
