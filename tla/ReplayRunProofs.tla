-------------------------- MODULE ReplayRunProofs --------------------------
(***************************************************************************)
(* Proofs about ReplayRun, for any number of tasks, any sessions, retry    *)
(* policies and recovery providers.                                        *)
(***************************************************************************)
EXTENDS ReplayRun, TLAPS

(* The entries of the completed requests: each at or after its request, and *)
(* at least as far apart as the requests are.                               *)
Climbing(s) ==
    \A i \in 1..Len(s) :
        /\ s[i] >= i
        /\ \A j \in i..Len(s) : s[j] + i >= s[i] + j

(* What is known of a caller in run r with completed requests s, when n     *)
(* entries were handed out and k provider calls made.                       *)
RunOk(r, s, n, k) ==
    /\ r \in Run /\ s \in Seq(Nat) /\ Climbing(s)
    /\ \A i \in 1..Len(s) : s[i] <= n
    /\ r.stage # "idle" =>
          /\ r.position \in 1..Last /\ Len(s) = r.position - 1 /\ r.ended = "never"
    /\ r.stage \notin {"idle", "starting"} =>
          /\ r.entry \in 1..n
          /\ \A i \in 1..Len(s) : s[i] < r.entry
    /\ r.stage \in {"idle", "starting"} => r.call = 0 /\ r.recovered = 0
    /\ r.since <= k /\ r.call <= k
    /\ r.stage \in BoundaryStages => r.call > r.since
    /\ r.stage \notin BoundaryStages => r.call = 0
    /\ r.recovered # 0 => r.recovered > r.since
    /\ r.ended = "completed" => r.stage = "idle" /\ Len(s) = Last

ThreadsOk(ts, k) == \A t \in ts : t \in Thread /\ t.call \in 1..k

TypeOK ==
    /\ harness \in Harness
    /\ index \in Nat /\ calls \in Nat /\ runs \in Nat /\ retried \in BOOLEAN
    /\ run \in [Callers -> Run] /\ taken \in [Callers -> Seq(Nat)]
    /\ Last \in Nat

CallersOk ==
    /\ TypeOK /\ index <= Last
    /\ ThreadsOk(threads, calls)
    /\ \A c \in Callers : RunOk(run[c], taken[c], index, calls)

----------------------------------------------------------------------------
(* One caller moves to r, s; the others only see the counters grow. *)

LEMMA CallerMoves ==
    ASSUME CallersOk, NEW c \in Callers, NEW r, NEW s,
           run' = [run EXCEPT ![c] = r], taken' = [taken EXCEPT ![c] = s],
           harness' = harness, runs' \in Nat, retried' \in BOOLEAN,
           index' \in Nat, index <= index', index' <= Last,
           calls' \in Nat, calls <= calls', ThreadsOk(threads', calls'),
           RunOk(r, s, index', calls')
    PROVE  CallersOk'
<1>1. r \in Run /\ s \in Seq(Nat)
    BY DEF RunOk
<1>2. TypeOK' /\ Last' = Last
    BY <1>1 DEF CallersOk, TypeOK, Last, Session
<1>3. ASSUME NEW d \in Callers PROVE RunOk(run[d], taken[d], index, calls)'
  <2>1. CASE d = c
    <3>1. run'[d] = r /\ taken'[d] = s
        BY <2>1 DEF CallersOk, TypeOK
    <3>2. QED
        BY <3>1, <1>2 DEF RunOk
  <2>2. CASE d # c
    <3>1. run'[d] = run[d] /\ taken'[d] = taken[d]
        BY <2>2 DEF CallersOk, TypeOK
    <3>2. RunOk(run[d], taken[d], index, calls)
        BY DEF CallersOk
    <3>3. RunOk(run[d], taken[d], index', calls')
      <4> DEFINE rd == run[d]
                 sd == taken[d]
      <4>1. RunOk(rd, sd, index, calls)
          BY <3>2
      <4>2. rd \in Run /\ sd \in Seq(Nat) /\ index \in Nat /\ calls \in Nat
          BY <4>1 DEF RunOk, CallersOk, TypeOK
      <4> HIDE DEF rd, sd
      <4>0. /\ \A i \in 1..Len(sd) : sd[i] <= index
            /\ rd.since <= calls /\ rd.call <= calls
            /\ rd.stage \notin {"idle", "starting"} => rd.entry \in 1..index
          BY <4>1 DEF RunOk
      <4>8. rd.since \in Nat /\ rd.call \in Nat
          BY <4>2 DEF Run
      <4>9. \A i \in 1..Len(sd) : sd[i] \in Nat
          BY <4>2
      <4>3. \A i \in 1..Len(sd) : sd[i] <= index'
          BY <4>0, <4>2, <4>9
      <4>4. rd.stage \notin {"idle", "starting"} => rd.entry \in 1..index'
          BY <4>0, <4>2
      <4>5. rd.since <= calls' /\ rd.call <= calls'
          BY <4>0, <4>2, <4>8
      <4>6. RunOk(rd, sd, index', calls')
          BY <4>1, <4>3, <4>4, <4>5 DEF RunOk
      <4>7. QED
          BY <4>6 DEF rd, sd
    <3>4. QED
        BY <3>1, <3>3, <1>2 DEF RunOk
  <2>3. QED
      BY <2>1, <2>2
<1>4. QED
    BY <1>2, <1>3 DEF CallersOk

LEMMA RestingOk ==
    ASSUME CallersOk, NEW c \in Callers, NEW end \in Ends, NEW n \in Nat, NEW k \in Nat,
           index <= n, end # "completed"
    PROVE  RunOk(Resting(end), taken[c], n, k)
<1>1. RunOk(run[c], taken[c], index, calls) /\ index \in Nat
    BY DEF CallersOk, TypeOK
<1>2. \A i \in 1..Len(taken[c]) : taken[c][i] <= n
    BY <1>1 DEF RunOk
<1>3. Resting(end) \in Run
    BY DEF Resting, Run, Stages, Ends
<1>4. QED
    BY <1>1, <1>2, <1>3 DEF RunOk, Resting, BoundaryStages

LEMMA FreshOk ==
    ASSUME NEW position \in 1..Last, Last \in Nat, NEW attempt \in Nat, NEW n \in Nat,
           NEW k \in Nat, NEW s \in Seq(Nat), Climbing(s), \A i \in 1..Len(s) : s[i] <= n,
           Len(s) = position - 1
    PROVE  RunOk(Fresh(position, attempt), s, n, k)
<1>1. Fresh(position, attempt) =
         [stage |-> "starting", position |-> position, attempt |-> attempt, entry |-> 0,
          call |-> 0, since |-> 0, recovered |-> 0, ended |-> "never"]
    BY DEF Fresh
<1>2. Fresh(position, attempt) \in Run
    BY <1>1 DEF Run, Stages, Ends
<1>3. QED
    BY <1>1, <1>2 DEF RunOk, BoundaryStages

(* A failed attempt, repeated or not. *)
LEMMA FailKeeps ==
    ASSUME CallersOk, NEW c \in Callers, NEW retry, NEW end \in Ends, end # "completed",
           run[c].stage # "idle", Fail(c, retry, end),
           harness' = harness, runs' = runs,
           index' \in Nat, index <= index', index' <= Last,
           calls' \in Nat, calls <= calls', ThreadsOk(threads', calls')
    PROVE  CallersOk'
<1>1. RunOk(run[c], taken[c], index, calls) /\ TypeOK
    BY DEF CallersOk
<1>2. taken' = [taken EXCEPT ![c] = taken[c]] /\ runs' \in Nat
    BY <1>1 DEF Fail, Retry, Return, TypeOK
<1>3. CASE Retry(c, run[c].attempt + 1)
  <2>1. run[c].attempt + 1 \in Nat /\ run[c].position \in 1..Last
      BY <1>1 DEF RunOk, Run
  <2>2. \A i \in 1..Len(taken[c]) : taken[c][i] <= index'
      BY <1>1 DEF RunOk, TypeOK
  <2>6. /\ taken[c] \in Seq(Nat) /\ Climbing(taken[c]) /\ Last \in Nat
        /\ Len(taken[c]) = run[c].position - 1
      BY <1>1 DEF RunOk, TypeOK
  <2>3. RunOk(Fresh(run[c].position, run[c].attempt + 1), taken[c], index', calls')
      BY <2>1, <2>2, <2>6, FreshOk
  <2>4. run' = [run EXCEPT ![c] = Fresh(run[c].position, run[c].attempt + 1)]
        /\ retried' \in BOOLEAN
      BY <1>3 DEF Retry
  <2>5. QED
      BY <1>2, <2>3, <2>4, CallerMoves
<1>4. CASE Return(c, end)
  <2>1. RunOk(Resting(end), taken[c], index', calls')
      BY RestingOk
  <2>2. run' = [run EXCEPT ![c] = Resting(end)] /\ retried' \in BOOLEAN
      BY <1>1, <1>4 DEF Return, TypeOK
  <2>3. QED
      BY <1>2, <2>1, <2>2, CallerMoves
<1>5. QED
    BY <1>3, <1>4 DEF Fail

(* An attempt goes on to another stage. *)
LEMMA EnterKeeps ==
    ASSUME CallersOk, NEW c \in Callers, NEW stage \in Stages \ {"idle", "starting"},
           NEW entry \in 1..index', NEW since \in Nat, NEW recovered \in Nat, NEW running,
           run[c].stage # "idle", Enter(c, stage, entry, since, recovered, running),
           ThreadsOk(running, calls),
           harness' = harness, runs' = runs,
           index' \in Nat, index <= index', index' <= Last,
           \A i \in 1..Len(taken[c]) : taken[c][i] < entry,
           since <= calls, recovered # 0 => recovered > since
    PROVE  CallersOk'
<1> DEFINE call == IF stage \in BoundaryStages THEN calls + 1 ELSE 0
           r == [stage |-> stage, position |-> run[c].position, attempt |-> run[c].attempt,
                 entry |-> entry, call |-> call, since |-> since, recovered |-> recovered,
                 ended |-> "never"]
<1>1. RunOk(run[c], taken[c], index, calls) /\ TypeOK
    BY DEF CallersOk
<1>2. /\ taken' = [taken EXCEPT ![c] = taken[c]] /\ runs' \in Nat /\ retried' \in BOOLEAN
      /\ run' = [run EXCEPT ![c] = r]
    BY <1>1 DEF Enter, TypeOK
<1>3. taken[c] \in Seq(Nat) /\ calls \in Nat /\ index \in Nat /\ run[c] \in Run
    BY <1>1 DEF RunOk, TypeOK
<1>4. \A i \in 1..Len(taken[c]) : taken[c][i] <= index'
    BY <1>1, <1>3 DEF RunOk
<1>5. calls' = IF stage \in BoundaryStages THEN calls + 1 ELSE calls
    BY DEF Enter
<1>6. /\ call \in Nat /\ calls' \in Nat /\ calls <= calls' /\ call <= calls' /\ since <= calls'
      /\ stage \in BoundaryStages => call > since
      /\ stage \notin BoundaryStages => call = 0
    BY <1>3, <1>5
<1> HIDE DEF call
<1>7. r \in Run
    BY <1>3, <1>6 DEF Run
<1>8. /\ run[c].position \in 1..Last /\ Len(taken[c]) = run[c].position - 1
      /\ Climbing(taken[c])
    BY <1>1 DEF RunOk
<1>9. RunOk(r, taken[c], index', calls')
    BY <1>3, <1>4, <1>6, <1>7, <1>8 DEF RunOk
<1>10. ThreadsOk(threads', calls')
  <2> SUFFICES ASSUME NEW t \in threads' PROVE t \in Thread /\ t.call \in 1..calls'
      BY DEF ThreadsOk
  <2>1. CASE t \in running
      BY <2>1, <1>3, <1>6 DEF ThreadsOk
  <2>2. CASE /\ stage \in harness.offload
             /\ t = [call |-> calls + 1, caller |-> c, stage |-> stage]
    <3>1. stage \in BoundaryStages
        BY <2>2, <1>1 DEF TypeOK, Harness
    <3>2. QED
        BY <2>2, <3>1, <1>3, <1>5 DEF Thread
  <2>3. QED
      BY <2>1, <2>2 DEF Enter
<1>11. QED
    BY <1>2, <1>6, <1>9, <1>10, CallerMoves

(* The answer of the recovery provider a caller waits for. *)
LEMMA AnsweredKeeps ==
    ASSUME CallersOk, NEW c \in Callers, NEW source \in Nat, NEW running,
           run[c].stage \in BoundaryStages, source > run[c].since,
           ThreadsOk(running, calls), Answered(c, source, running),
           harness' = harness, runs' = runs, index' = index
    PROVE  CallersOk'
<1>1. RunOk(run[c], taken[c], index, calls) /\ TypeOK /\ index <= Last
    BY DEF CallersOk
<1>2. run[c].stage \notin {"idle", "starting"}
    BY DEF BoundaryStages
<1>3. /\ run[c] \in Run /\ run[c].ended = "never" /\ run[c].since <= calls
      /\ run[c].entry \in 1..index
      /\ \A i \in 1..Len(taken[c]) : taken[c][i] < run[c].entry
      /\ run[c].recovered # 0 => run[c].recovered > run[c].since
    BY <1>1, <1>2 DEF RunOk
<1>4. index' \in Nat /\ index <= index' /\ index' <= Last /\ calls \in Nat
    BY <1>1 DEF TypeOK
<1>5. CASE Raise(c, "aborted") /\ threads' = running /\ calls' = calls
    BY <1>2, <1>4, <1>5, FailKeeps DEF Raise, Ends
<1>6. ASSUME NEW stage \in {"policing", "reconciling"}, NEW recovered \in Nat,
             recovered # 0 => recovered > run[c].since,
             Enter(c, stage, run[c].entry, run[c].since, recovered, running)
      PROVE  CallersOk'
  <2>1. stage \in Stages \ {"idle", "starting"}
      BY DEF Stages, BoundaryStages
  <2>2. run[c].entry \in 1..index' /\ run[c].since \in Nat
      BY <1>3 DEF Run
  <2>3. QED
      BY <1>2, <1>3, <1>4, <1>6, <2>1, <2>2, EnterKeeps
<1>7. CASE Enter(c, "policing", run[c].entry, run[c].since, run[c].recovered, running)
  <2>1. run[c].recovered \in Nat
      BY <1>3 DEF Run
  <2>2. QED
      BY <1>3, <1>6, <1>7, <2>1
<1>8. CASE Enter(c, "reconciling", run[c].entry, run[c].since, source, running)
    BY <1>6, <1>8
<1>9. QED
    BY <1>5, <1>7, <1>8 DEF Answered

(* The verified request is added to the completed ones. *)
LEMMA CompleteKeeps ==
    ASSUME CallersOk, NEW c \in Callers, run[c].stage = "verifying", Complete(c),
           harness' = harness, runs' = runs, index' = index, calls' = calls,
           threads' = threads
    PROVE  CallersOk'
<1> DEFINE s == Append(taken[c], run[c].entry)
           n == Len(taken[c])
<1>1. RunOk(run[c], taken[c], index, calls) /\ TypeOK /\ index <= Last
      /\ ThreadsOk(threads, calls)
    BY DEF CallersOk
<1>2. /\ run[c] \in Run /\ taken[c] \in Seq(Nat) /\ Climbing(taken[c])
      /\ run[c].position \in 1..Last /\ n = run[c].position - 1
      /\ run[c].entry \in 1..index
      /\ \A i \in 1..n : taken[c][i] < run[c].entry
    BY <1>1 DEF RunOk
<1>3. index \in Nat /\ calls \in Nat /\ Last \in Nat /\ run[c].position \in Nat
      /\ run[c].entry \in Nat
    BY <1>1, <1>2 DEF TypeOK, Run
<1>4. /\ s \in Seq(Nat) /\ Len(s) = n + 1 /\ n \in Nat
      /\ s[n + 1] = run[c].entry
      /\ \A i \in 1..n : s[i] = taken[c][i] /\ s[i] \in Nat
    BY <1>2, <1>3
<1>11. taken' = [taken EXCEPT ![c] = s] /\ retried' \in BOOLEAN /\ runs' \in Nat
    BY <1>1 DEF Complete, TypeOK
<1> HIDE DEF s, n
<1>5. \A i \in 1..n : s[i] >= i /\ \A j \in i..n : s[j] + i >= s[i] + j
  <2>1. \A i \in 1..n : /\ taken[c][i] >= i
                        /\ \A j \in i..n : taken[c][j] + i >= taken[c][i] + j
      BY <1>2 DEF Climbing, n
  <2>2. \A i \in 1..n : \A j \in i..n : j \in 1..n
      BY <1>4
  <2>3. QED
      BY <1>4, <2>1, <2>2
<1>16. /\ n = run[c].position - 1 /\ run[c].position \in Nat
       /\ Last \in Nat /\ run[c].position >= 1 /\ run[c].position <= Last
       /\ Len(s) = n + 1 /\ n \in Nat
    BY <1>2, <1>3, <1>4
<1>17. /\ s[n + 1] <= index /\ index \in Nat
       /\ \A i \in 1..n : s[i] < s[n + 1]
       /\ \A i \in 1..n : s[i] \in Nat
       /\ s[n + 1] \in Nat
    BY <1>2, <1>3, <1>4
<1>6. \A i \in 1..n : s[n] + i >= s[i] + n
  <2> SUFFICES ASSUME NEW i \in 1..n PROVE s[n] + i >= s[i] + n
      OBVIOUS
  <2>1. n \in i..n
      BY <1>4
  <2>2. QED
      BY <1>5, <2>1
<1>7. \A i \in 1..n : s[n + 1] + i >= s[i] + (n + 1)
  <2> SUFFICES ASSUME NEW i \in 1..n PROVE s[n + 1] + i >= s[i] + (n + 1)
      OBVIOUS
  <2>1. n \in 1..n
      BY <1>4
  <2>2. s[n] + i >= s[i] + n /\ s[n] < s[n + 1] /\ s[n] \in Nat /\ s[i] \in Nat
        /\ s[n + 1] \in Nat
      BY <2>1, <1>2, <1>3, <1>4, <1>6
  <2>5. n \in Nat /\ i \in Nat
      BY <1>16
  <2>3. \A a, b, d \in Nat : a + i >= b + n /\ a < d => d + i >= b + (n + 1)
      BY <2>5
  <2>4. QED
      BY <2>2, <2>3
<1>8. s[n + 1] >= n + 1
  <2>1. CASE n = 0
      BY <2>1, <1>2, <1>3, <1>4
  <2>2. CASE n # 0
    <3>1. n \in 1..n
        BY <2>2, <1>4
    <3>2. s[n] >= n /\ s[n] < s[n + 1] /\ s[n] \in Nat
        BY <3>1, <1>2, <1>4, <1>5
    <3>3. QED
        BY <3>2, <1>3, <1>4
  <2>3. QED
      BY <2>1, <2>2
<1>9. Climbing(s)
  <2> SUFFICES ASSUME NEW i \in 1..(n + 1)
               PROVE s[i] >= i /\ \A j \in i..(n + 1) : s[j] + i >= s[i] + j
      BY <1>4 DEF Climbing
  <2>1. CASE i = n + 1
    <3>1. \A j \in i..(n + 1) : j = i
        BY <2>1, <1>4
    <3>2. QED
        BY <2>1, <3>1, <1>3, <1>4, <1>8
  <2>2. CASE i \in 1..n
    <3>1. \A j \in i..(n + 1) : j \in i..n \/ j = n + 1
        BY <1>4
    <3>2. QED
        BY <2>2, <3>1, <1>5, <1>7
  <2>3. QED
      BY <2>1, <2>2, <1>4
<1>10. \A i \in 1..Len(s) : s[i] <= index
  <2>1. \A i \in 1..n : s[i] <= index
      BY <1>17
  <2>2. \A i \in 1..Len(s) : i \in 1..n \/ i = n + 1
      BY <1>16
  <2>3. QED
      BY <2>1, <2>2, <1>17
<1>15. index' \in Nat /\ index <= index' /\ index' <= Last /\ calls' \in Nat /\ calls <= calls'
       /\ ThreadsOk(threads', calls')
    BY <1>1, <1>3
<1>12. CASE run[c].position = Last
  <2>1. Resting("completed") \in Run
      BY DEF Resting, Run, Stages, Ends
  <2>2. RunOk(Resting("completed"), s, index', calls')
      BY <1>2, <1>3, <1>4, <1>9, <1>10, <1>12, <2>1 DEF RunOk, Resting, BoundaryStages
  <2>3. run' = [run EXCEPT ![c] = Resting("completed")]
      BY <1>12 DEF Complete
  <2>4. QED
      BY <1>1, <1>11, <1>15, <2>2, <2>3, CallerMoves
<1>13. CASE run[c].position # Last
  <2>1. run[c].position + 1 \in 1..Last /\ Len(s) = (run[c].position + 1) - 1
      BY <1>13, <1>16
  <2>2. RunOk(Fresh(run[c].position + 1, 1), s, index', calls')
      BY <1>3, <1>4, <1>9, <1>10, <2>1, FreshOk
  <2>3. run' = [run EXCEPT ![c] = Fresh(run[c].position + 1, 1)]
      BY <1>13 DEF Complete
  <2>4. QED
      BY <1>1, <1>11, <1>15, <2>2, <2>3, CallerMoves
<1>14. QED
    BY <1>12, <1>13

----------------------------------------------------------------------------
(* The invariant is inductive. *)

LEMMA CallersInit == Init => CallersOk
<1> SUFFICES ASSUME Init PROVE CallersOk
    OBVIOUS
<1>1. harness \in Harness /\ Last \in Nat
    BY HarnessAssumption DEF Init, Harness, Last, Session
<1>2. Resting("never") \in Run
    BY DEF Resting, Run, Stages
<1>3. TypeOK
  <2>1. run = [c \in Callers |-> Resting("never")] /\ run \in [Callers -> Run]
      BY <1>2 DEF Init
  <2>2. <<>> \in Seq(Nat)
      OBVIOUS
  <2>3. taken \in [Callers -> Seq(Nat)]
      BY <2>2 DEF Init
  <2>4. QED
      BY <1>1, <2>1, <2>3 DEF TypeOK, Init
<1>4. ThreadsOk(threads, calls)
    BY DEF Init, ThreadsOk
<1>5. ASSUME NEW c \in Callers PROVE RunOk(run[c], taken[c], index, calls)
  <2>1. run[c] = Resting("never") /\ taken[c] = <<>> /\ index = 0 /\ calls = 0
      BY DEF Init
  <2>2. RunOk(Resting("never"), <<>>, 0, 0)
      BY <1>2 DEF RunOk, Resting, BoundaryStages, Climbing
  <2>3. QED
      BY <2>1, <2>2
<1>6. QED
    BY <1>1, <1>3, <1>4, <1>5 DEF CallersOk, Init

LEMMA StartRunKeeps == ASSUME CallersOk, NEW c \in Callers, StartRun(c) PROVE CallersOk'
<1>1. TypeOK /\ index <= Last /\ ThreadsOk(threads, calls)
    BY DEF CallersOk
<1>2. /\ harness' = harness /\ index' \in Nat /\ index <= index' /\ index' <= Last
      /\ calls' \in Nat /\ calls <= calls' /\ ThreadsOk(threads', calls')
      /\ runs' \in Nat /\ retried' \in BOOLEAN
      /\ taken' = [taken EXCEPT ![c] = <<>>]
    BY <1>1 DEF StartRun, TypeOK
<1>3. /\ <<>> \in Seq(Nat) /\ Climbing(<<>>) /\ Len(<<>>) = 0
      /\ \A i \in 1..Len(<<>>) : <<>>[i] <= index'
    BY DEF Climbing
<1>4. CASE Session = <<>>
  <2>1. Resting("missing") \in Run
      BY DEF Resting, Run, Stages, Ends
  <2>2. RunOk(Resting("missing"), <<>>, index', calls')
      BY <1>2, <1>3, <2>1 DEF RunOk, Resting, BoundaryStages
  <2>3. run' = [run EXCEPT ![c] = Resting("missing")]
      BY <1>4 DEF StartRun
  <2>4. QED
      BY <1>2, <2>2, <2>3, CallerMoves
<1>5. CASE Session # <<>>
  <2>1. Last # 0
    <3>1. Session \in Seq(Entry)
        BY <1>1 DEF TypeOK, Harness, Session
    <3>2. QED
        BY <3>1, <1>5 DEF Last
  <2>2. 1 \in 1..Last /\ Last \in Nat
      BY <1>1, <2>1 DEF TypeOK
  <2>3. RunOk(Fresh(1, 1), <<>>, index', calls')
    <3>1. 1 \in Nat /\ Len(<<>>) = 1 - 1
        BY <1>3
    <3>2. ASSUME NEW s, s = <<>> PROVE RunOk(Fresh(1, 1), s, index', calls')
      <4>1. s \in Seq(Nat) /\ Climbing(s) /\ Len(s) = 1 - 1
            /\ \A i \in 1..Len(s) : s[i] <= index'
          BY <1>3, <3>1, <3>2
      <4>2. QED
          BY <1>2, <2>2, <3>1, <4>1, FreshOk
    <3>3. QED
        BY <3>2
  <2>4. run' = [run EXCEPT ![c] = Fresh(1, 1)]
      BY <1>5 DEF StartRun
  <2>5. QED
      BY <1>2, <2>3, <2>4, CallerMoves
<1>6. QED
    BY <1>4, <1>5

LEMMA BeginAttemptKeeps ==
    ASSUME CallersOk, NEW c \in Callers, BeginAttempt(c) PROVE CallersOk'
<1>1. RunOk(run[c], taken[c], index, calls) /\ TypeOK /\ index <= Last
      /\ ThreadsOk(threads, calls) /\ index \in Nat /\ calls \in Nat /\ Last \in Nat
    BY DEF CallersOk, TypeOK
<1>2. run[c].stage = "starting" /\ harness' = harness /\ runs' = runs
    BY DEF BeginAttempt
<1>3. CASE Exhausted
  <2>1. Raise(c, "missing") /\ index' = index /\ threads' = threads /\ calls' = calls
      BY <1>3 DEF BeginAttempt
  <2>2. QED
      BY <1>1, <1>2, <2>1, FailKeeps DEF Raise, Ends
<1>4. CASE ~Exhausted
  <2>1. index' = index + 1 /\ index' \in Nat /\ index <= index' /\ index' <= Last
      BY <1>1, <1>4 DEF BeginAttempt, Exhausted
  <2>2. CASE Raise(c, "missing") /\ threads' = threads /\ calls' = calls
      BY <1>1, <1>2, <2>1, <2>2, FailKeeps DEF Raise, Ends
  <2>3. CASE Enter(c, AfterRebuild(c), index + 1, calls, 0, threads)
    <3>1. \A i \in 1..Len(taken[c]) : taken[c][i] < index + 1
        BY <1>1 DEF RunOk
    <3>2. AfterRebuild(c) \in Stages \ {"idle", "starting"}
        BY DEF AfterRebuild, Stages, BoundaryStages
    <3>3. index + 1 \in 1..index' /\ 0 \in Nat /\ calls <= calls
        BY <1>1, <2>1
    <3>4. QED
        BY <1>1, <1>2, <2>1, <2>3, <3>1, <3>2, <3>3, EnterKeeps
  <2>6. QED
      BY <1>4, <2>2, <2>3 DEF BeginAttempt
<1>5. QED
    BY <1>3, <1>4

LEMMA AnswersKeep ==
    ASSUME CallersOk, NEW c \in Callers,
           CallInLoop(c) \/ \E t \in threads : ThreadReturns(t) /\ t.caller = c
    PROVE  CallersOk'
<1>1. RunOk(run[c], taken[c], index, calls) /\ TypeOK /\ index <= Last
      /\ ThreadsOk(threads, calls)
    BY DEF CallersOk
<1>2. CASE CallInLoop(c)
  <2>1. /\ run[c].stage \in BoundaryStages /\ Answered(c, run[c].call, threads)
        /\ harness' = harness /\ runs' = runs /\ index' = index
      BY <1>2 DEF CallInLoop
  <2>2. run[c].call \in Nat /\ run[c].call > run[c].since
      BY <1>1, <2>1 DEF RunOk, Run
  <2>3. QED
      BY <1>1, <2>1, <2>2, AnsweredKeeps
<1>3. ASSUME NEW t \in threads, ThreadReturns(t), t.caller = c PROVE CallersOk'
  <2>1. harness' = harness /\ runs' = runs /\ index' = index
        /\ ThreadsOk(threads \ {t}, calls) /\ t \in Thread /\ t.call \in 1..calls
      BY <1>1, <1>3 DEF ThreadReturns, ThreadsOk
  <2>2. CASE Awaits(t)
    <3>1. run[c].call = t.call /\ t.call \in Nat /\ t.call # 0
        BY <1>3, <2>1, <2>2 DEF Awaits, Thread
    <3>2. run[c].stage \in BoundaryStages /\ t.call > run[c].since
        BY <1>1, <3>1 DEF RunOk
    <3>3. Answered(c, t.call, threads \ {t})
        BY <1>3, <2>2 DEF ThreadReturns
    <3>4. QED
        BY <2>1, <3>1, <3>2, <3>3, AnsweredKeeps
  <2>3. CASE ~Awaits(t)
    <3>1. /\ run' = [run EXCEPT ![c] = run[c]] /\ taken' = [taken EXCEPT ![c] = taken[c]]
          /\ threads' = threads \ {t} /\ calls' = calls
          /\ runs' \in Nat /\ retried' \in BOOLEAN
        BY <1>1, <1>3, <2>1, <2>3 DEF ThreadReturns, TypeOK
    <3>2. index' \in Nat /\ index <= index' /\ index' <= Last /\ calls' \in Nat
          /\ calls <= calls' /\ ThreadsOk(threads', calls')
        BY <1>1, <2>1, <3>1 DEF TypeOK
    <3>3. RunOk(run[c], taken[c], index', calls')
        BY <1>1, <2>1, <3>1
    <3>4. QED
        BY <2>1, <3>1, <3>2, <3>3, CallerMoves
  <2>4. QED
      BY <2>2, <2>3
<1>4. QED
    BY <1>2, <1>3

LEMMA NextKeeps == CallersOk /\ [Next]_vars => CallersOk'
<1> SUFFICES ASSUME CallersOk, [Next]_vars PROVE CallersOk'
    OBVIOUS
<1>1. /\ TypeOK /\ index <= Last /\ ThreadsOk(threads, calls) /\ index \in Nat /\ calls \in Nat
      /\ \A c \in Callers : RunOk(run[c], taken[c], index, calls)
    BY DEF CallersOk, TypeOK
<1> DEFINE Left == /\ harness' = harness /\ runs' = runs /\ index' = index /\ calls' = calls
                   /\ ThreadsOk(threads', calls')
<1>2. ASSUME NEW c \in Callers, run[c].stage # "idle", Left,
             \/ \E retry \in BOOLEAN, end \in Ends \ {"completed"} : Fail(c, retry, end)
             \/ \E end \in Ends \ {"completed"} : Return(c, end)
      PROVE  CallersOk'
  <2>1. ASSUME NEW retry \in BOOLEAN, NEW end \in Ends \ {"completed"}, Fail(c, retry, end)
        PROVE  CallersOk'
      BY <1>1, <1>2, <2>1, FailKeeps
  <2>2. ASSUME NEW end \in Ends \ {"completed"}, Return(c, end) PROVE CallersOk'
    <3>1. Fail(c, FALSE, end)
        BY <2>2 DEF Fail
    <3>2. QED
        BY <2>1, <3>1
  <2>3. QED
      BY <1>2, <2>1, <2>2
<1>3. /\ "aborted" \in Ends \ {"completed"} /\ "timed_out" \in Ends \ {"completed"}
      /\ "cancelled" \in Ends \ {"completed"}
      /\ harness.onException \in BOOLEAN /\ harness.onTimeout \in BOOLEAN
    BY <1>1 DEF Ends, TypeOK, Harness
<1>4. ASSUME NEW c \in Callers, NEW stage \in {"planning", "verifying"},
             run[c].stage \in {"policing", "planning"}, Left,
             run' = [run EXCEPT ![c].stage = stage], taken' = taken, retried' = retried
      PROVE  CallersOk'
  <2> DEFINE r == [run[c] EXCEPT !.stage = stage]
  <2>1. RunOk(run[c], taken[c], index, calls) /\ run[c] \in Run
      BY <1>1 DEF RunOk
  <2>2. r = [stage |-> stage, position |-> run[c].position, attempt |-> run[c].attempt,
             entry |-> run[c].entry, call |-> run[c].call, since |-> run[c].since,
             recovered |-> run[c].recovered, ended |-> run[c].ended]
      BY <2>1 DEF Run
  <2>3. r \in Run
      BY <2>1, <2>2 DEF Run, Stages
  <2>4. RunOk(r, taken[c], index', calls')
      BY <1>4, <2>1, <2>2, <2>3 DEF RunOk, BoundaryStages
  <2>5. /\ run' = [run EXCEPT ![c] = r] /\ taken' = [taken EXCEPT ![c] = taken[c]]
        /\ runs' \in Nat /\ retried' \in BOOLEAN
      BY <1>1, <1>4 DEF TypeOK
  <2>6. /\ index' \in Nat /\ index <= index' /\ index' <= Last
        /\ calls' \in Nat /\ calls <= calls' /\ ThreadsOk(threads', calls')
        /\ harness' = harness
      BY <1>1, <1>4
  <2> HIDE DEF r
  <2>7. QED
      BY <2>4, <2>5, <2>6, CallerMoves
<1>5. ASSUME NEW c \in Callers, PolicyAnswers(c) PROVE CallersOk'
  <2>1. run[c].stage = "policing" /\ Left
      BY <1>1, <1>5 DEF PolicyAnswers
  <2>2. QED
      BY <1>2, <1>3, <1>4, <1>5, <2>1 DEF PolicyAnswers, Raise
<1>6. ASSUME NEW c \in Callers, PlannerAnswers(c) PROVE CallersOk'
  <2>1. run[c].stage = "planning" /\ Left
      BY <1>1, <1>6 DEF PlannerAnswers
  <2>2. QED
      BY <1>2, <1>3, <1>4, <1>6, <2>1 DEF PlannerAnswers, Raise
<1>7. ASSUME NEW c \in Callers, VerifierAnswers(c) PROVE CallersOk'
  <2>1. run[c].stage = "verifying" /\ Left /\ threads' = threads
      BY <1>1, <1>7 DEF VerifierAnswers
  <2>2. QED
      BY <1>2, <1>3, <1>7, <2>1, CompleteKeeps DEF VerifierAnswers, Raise
<1>8. ASSUME NEW c \in Callers, TimedOut(c) \/ Cancelled(c) PROVE CallersOk'
  <2>1. run[c].stage # "idle" /\ Left
      BY <1>1, <1>8 DEF TimedOut, Cancelled, Awaiting, Abandon, ThreadsOk
  <2>2. QED
      BY <1>2, <1>3, <1>8, <2>1 DEF TimedOut, Cancelled
<1>9. ASSUME NEW t \in threads, ThreadReturns(t) PROVE CallersOk'
  <2>1. t.caller \in Callers
      BY <1>1 DEF ThreadsOk, Thread
  <2>2. QED
      BY <1>9, <2>1, AnswersKeep
<1>10. CASE UNCHANGED vars
  <2>1. UNCHANGED <<harness, index, run, taken, threads, calls, runs, retried>>
      BY <1>10 DEF vars
  <2>2. QED
      BY <2>1 DEF CallersOk, TypeOK, RunOk, ThreadsOk, Last, Session
<1>11. QED
    BY <1>5, <1>6, <1>7, <1>8, <1>9, <1>10, StartRunKeeps, BeginAttemptKeeps, AnswersKeep
    DEF Next, Step

THEOREM Progress == Spec => []CallersOk
    BY CallersInit, NextKeeps, PTL DEF Spec

(* A completed run evaluated each request on the entry of the session that  *)
(* holds it: with as many entries as the session has, each after the one    *)
(* before it, none can be left out.                                         *)
THEOREM CompletedIsExact == Spec => []CompletedRunExact
<1>1. CallersOk => CompletedRunExact
  <2> SUFFICES ASSUME CallersOk, NEW c \in Callers, run[c].ended = "completed"
               PROVE  Len(taken[c]) = Last /\ \A i \in 1..Last : taken[c][i] = i
      BY DEF CompletedRunExact
  <2> DEFINE s == taken[c]
  <2>1. /\ s \in Seq(Nat) /\ Climbing(s) /\ Len(s) = Last /\ Last \in Nat /\ index \in Nat
        /\ index <= Last /\ \A i \in 1..Len(s) : s[i] <= index
      BY DEF CallersOk, RunOk, TypeOK
  <2> HIDE DEF s
  <2>2. ASSUME NEW i \in 1..Last PROVE s[i] = i
    <3>1. Last \in i..Last /\ Last \in 1..Last
        BY <2>1
    <3>2. s[i] >= i /\ s[Last] + i >= s[i] + Last
        BY <2>1, <3>1 DEF Climbing
    <3>3. s[Last] <= Last /\ s[Last] \in Nat /\ s[i] \in Nat
        BY <2>1, <3>1
    <3>4. QED
        BY <2>1, <3>2, <3>3
  <2>3. QED
      BY <2>1, <2>2 DEF s
<1>2. QED
    BY <1>1, Progress, PTL

(* The recovery snapshot of an attempt was loaded for that attempt.         *)
THEOREM RecoveryIsOwn == Spec => []OwnRecovery
<1>1. CallersOk => OwnRecovery
    BY DEF CallersOk, RunOk, OwnRecovery
<1>2. QED
    BY <1>1, Progress, PTL

----------------------------------------------------------------------------
(* The first run, without a retry, is the only one that moves the cursor:   *)
(* the cursor stands at its request.                                        *)

Alone(c) == \A d \in Callers \ {c} : run[d] = Resting("never")

Standing(r) == IF r.stage = "starting" THEN r.position - 1 ELSE r.position

CursorAtRequest ==
    ~retried /\ runs <= 1 =>
        \A c \in Callers :
            run[c].stage # "idle" => runs = 1 /\ Alone(c) /\ index = Standing(run[c])

NothingRun == runs = 0 => index = 0 /\ \A c \in Callers : run[c] = Resting("never")

FirstRun == CursorAtRequest /\ NothingRun /\ MissingExplained

(* One caller moves, within its run. *)
LEMMA FirstRunStep ==
    ASSUME CallersOk, FirstRun, NEW c \in Callers, NEW r,
           run[c].stage # "idle", run' = [run EXCEPT ![c] = r],
           runs' = runs, harness' = harness, retried => retried',
           ~retried' /\ runs <= 1 /\ r.stage # "idle" => index' = Standing(r),
           r.ended = "missing" => Incomplete \/ retried' \/ runs > 1
    PROVE  FirstRun'
<1>1. /\ \A d \in Callers : run'[d] = IF d = c THEN r ELSE run[d]
      /\ Incomplete' = Incomplete
    BY DEF CallersOk, TypeOK, Incomplete, Last, Session
<1>2. MissingExplained'
    BY <1>1 DEF FirstRun, MissingExplained
<1>3. runs # 0
    BY DEF FirstRun, NothingRun, Resting
<1>4. ASSUME ~retried', runs' <= 1, NEW d \in Callers, run'[d].stage # "idle"
      PROVE  runs' = 1 /\ Alone(d)' /\ index' = Standing(run'[d])
  <2>1. runs = 1 /\ Alone(c)
      BY <1>4 DEF FirstRun, CursorAtRequest
  <2>2. d = c
      BY <1>1, <1>4, <2>1 DEF Alone, Resting
  <2>3. Alone(c)'
      BY <1>1, <2>1 DEF Alone, Resting
  <2>4. QED
      BY <1>1, <1>4, <2>1, <2>2, <2>3
<1>5. CursorAtRequest'
    BY <1>4 DEF CursorAtRequest, Standing
<1>6. QED
    BY <1>2, <1>3, <1>5 DEF FirstRun, NothingRun

LEMMA FailFirst ==
    ASSUME CallersOk, FirstRun, NEW c \in Callers, NEW retry, NEW end,
           run[c].stage # "idle", Fail(c, retry, end), runs' = runs, harness' = harness,
           end = "missing" => Incomplete \/ retried \/ runs > 1
    PROVE  FirstRun'
<1>1. CASE Retry(c, run[c].attempt + 1)
  <2>1. run' = [run EXCEPT ![c] = Fresh(run[c].position, run[c].attempt + 1)] /\ retried'
      BY <1>1 DEF Retry
  <2>2. QED
      BY <2>1, FirstRunStep
<1>2. CASE Return(c, end)
  <2>1. run' = [run EXCEPT ![c] = Resting(end)] /\ retried' = retried
      BY <1>2 DEF Return
  <2>2. Resting(end).stage = "idle" /\ Resting(end).ended = end
      BY DEF Resting
  <2>3. QED
      BY <2>1, <2>2, FirstRunStep
<1>3. QED
    BY <1>1, <1>2 DEF Fail

LEMMA EnterFirst ==
    ASSUME CallersOk, FirstRun, NEW c \in Callers, NEW stage \in Stages \ {"idle", "starting"},
           NEW entry, NEW since, NEW recovered, NEW running,
           run[c].stage # "idle", Enter(c, stage, entry, since, recovered, running),
           index' = IF run[c].stage = "starting" THEN index + 1 ELSE index,
           runs' = runs, harness' = harness
    PROVE  FirstRun'
<1> DEFINE r == [stage |-> stage, position |-> run[c].position, attempt |-> run[c].attempt,
                 entry |-> entry,
                 call |-> IF stage \in BoundaryStages THEN calls + 1 ELSE 0,
                 since |-> since, recovered |-> recovered, ended |-> "never"]
<1>1. run' = [run EXCEPT ![c] = r] /\ retried' = retried
    BY DEF Enter
<1>2. r.ended = "never" /\ r.stage = stage /\ r.position = run[c].position
    OBVIOUS
<1>3. run[c] \in Run /\ index \in Nat
    BY DEF CallersOk, TypeOK
<1>4. ASSUME ~retried, runs <= 1 PROVE index' = Standing(r)
  <2>1. index = Standing(run[c])
      BY <1>4 DEF FirstRun, CursorAtRequest
  <2>2. QED
      BY <1>2, <1>3, <2>1 DEF Standing, Run
<1> HIDE DEF r
<1>5. QED
    BY <1>1, <1>2, <1>4, FirstRunStep

LEMMA AnsweredFirst ==
    ASSUME CallersOk, FirstRun, NEW c \in Callers, NEW source, NEW running,
           run[c].stage \in BoundaryStages, Answered(c, source, running),
           harness' = harness, runs' = runs, index' = index
    PROVE  FirstRun'
<1>1. run[c].stage \notin {"idle", "starting"}
    BY DEF BoundaryStages
<1>2. {"policing", "reconciling"} \subseteq Stages \ {"idle", "starting"}
    BY DEF Stages, BoundaryStages
<1>3. CASE Raise(c, "aborted")
    BY <1>1, <1>3, FailFirst DEF Raise
<1>4. CASE Enter(c, "policing", run[c].entry, run[c].since, run[c].recovered, running)
    BY <1>1, <1>2, <1>4, EnterFirst
<1>5. CASE Enter(c, "reconciling", run[c].entry, run[c].since, source, running)
    BY <1>1, <1>2, <1>5, EnterFirst
<1>6. QED
    BY <1>3, <1>4, <1>5 DEF Answered

LEMMA StartRunFirst ==
    ASSUME CallersOk, FirstRun, NEW c \in Callers, StartRun(c) PROVE FirstRun'
<1> DEFINE r == IF Session = <<>> THEN Resting("missing") ELSE Fresh(1, 1)
<1>1. /\ run' = [run EXCEPT ![c] = r] /\ runs' = runs + 1 /\ index' = index
      /\ harness' = harness /\ retried' = retried
    BY DEF StartRun
<1>2. /\ \A d \in Callers : run'[d] = IF d = c THEN r ELSE run[d]
      /\ Incomplete' = Incomplete /\ runs \in Nat
    BY <1>1 DEF CallersOk, TypeOK, Incomplete, Last, Session
<1>3. r.ended = "missing" => Incomplete
    BY DEF Incomplete, Fresh
<1>4. MissingExplained'
    BY <1>1, <1>2, <1>3 DEF FirstRun, MissingExplained
<1>5. NothingRun'
    BY <1>1, <1>2 DEF NothingRun
<1>6. CursorAtRequest'
  <2> SUFFICES ASSUME ~retried', runs' <= 1, NEW d \in Callers, run'[d].stage # "idle"
               PROVE  runs' = 1 /\ Alone(d)' /\ index' = Standing(run'[d])
      BY DEF CursorAtRequest, Standing
  <2>1. runs = 0 /\ runs' = 1
      BY <1>1, <1>2
  <2>2. index = 0 /\ \A e \in Callers : run[e] = Resting("never")
      BY <2>1 DEF FirstRun, NothingRun
  <2>3. d = c
      BY <1>2, <2>2 DEF Resting
  <2>4. r = Fresh(1, 1)
      BY <1>2, <2>3 DEF Resting
  <2>5. Standing(Fresh(1, 1)) = 0
      BY DEF Standing, Fresh
  <2>6. Alone(c)'
      BY <1>2, <2>2 DEF Alone, Resting
  <2>7. QED
      BY <1>1, <1>2, <2>1, <2>2, <2>3, <2>4, <2>5, <2>6
<1>7. QED
    BY <1>4, <1>5, <1>6 DEF FirstRun

LEMMA BeginAttemptFirst ==
    ASSUME CallersOk, FirstRun, NEW c \in Callers, BeginAttempt(c) PROVE FirstRun'
<1>1. /\ run[c].stage = "starting" /\ runs' = runs /\ harness' = harness
      /\ RunOk(run[c], taken[c], index, calls)
      /\ index \in Nat /\ Last \in Nat /\ index <= Last
    BY DEF BeginAttempt, CallersOk, TypeOK
<1>2. run[c].position \in 1..Last
    BY <1>1 DEF RunOk
<1>3. CASE Exhausted
  <2>1. Incomplete \/ retried \/ runs > 1
    <3> SUFFICES ASSUME ~retried, ~(runs > 1) PROVE FALSE
        OBVIOUS
    <3>1. runs <= 1
        BY DEF CallersOk, TypeOK
    <3>2. index = run[c].position - 1
        BY <1>1, <3>1 DEF FirstRun, CursorAtRequest, Standing
    <3>3. QED
        BY <1>1, <1>2, <1>3, <3>2 DEF Exhausted
  <2>2. Raise(c, "missing")
      BY <1>3 DEF BeginAttempt
  <2>3. QED
      BY <1>1, <2>1, <2>2, FailFirst DEF Raise
<1>4. CASE ~Exhausted
  <2>1. index + 1 \in 1..Last /\ index' = index + 1
      BY <1>1, <1>4 DEF Exhausted, BeginAttempt
  <2>2. CASE Session[index + 1].frame /\ Session[index + 1].snapshot
    <3>1. Enter(c, AfterRebuild(c), index + 1, calls, 0, threads)
        BY <1>4, <2>2 DEF BeginAttempt
    <3>2. AfterRebuild(c) \in Stages \ {"idle", "starting"}
        BY DEF AfterRebuild, Stages, BoundaryStages
    <3>3. QED
        BY <1>1, <2>1, <3>1, <3>2, EnterFirst
  <2>3. CASE ~(Session[index + 1].frame /\ Session[index + 1].snapshot)
    <3>1. Raise(c, "missing") /\ Incomplete
        BY <1>4, <2>1, <2>3 DEF BeginAttempt, Incomplete
    <3>2. QED
        BY <1>1, <3>1, FailFirst DEF Raise
  <2>4. QED
      BY <2>2, <2>3
<1>5. QED
    BY <1>3, <1>4

LEMMA FirstNext == CallersOk /\ FirstRun /\ [Next]_vars => FirstRun'
<1> SUFFICES ASSUME CallersOk, FirstRun, [Next]_vars PROVE FirstRun'
    OBVIOUS
<1>1. ASSUME NEW c \in Callers, NEW retry, NEW end, run[c].stage # "idle", end # "missing",
             Fail(c, retry, end) \/ Return(c, end), runs' = runs, harness' = harness
      PROVE  FirstRun'
  <2>1. Return(c, end) => Fail(c, FALSE, end)
      BY DEF Fail
  <2>2. ASSUME NEW again, Fail(c, again, end) PROVE FirstRun'
      BY <1>1, <2>2, FailFirst
  <2>3. QED
      BY <1>1, <2>1, <2>2
<1>2. ASSUME NEW c \in Callers, NEW stage \in {"planning", "verifying"},
             run[c].stage \notin {"idle", "starting"}, run' = [run EXCEPT ![c].stage = stage],
             retried' = retried, index' = index, runs' = runs, harness' = harness
      PROVE  FirstRun'
  <2> DEFINE r == [run[c] EXCEPT !.stage = stage]
  <2>1. RunOk(run[c], taken[c], index, calls) /\ run[c] \in Run
      BY DEF CallersOk, RunOk
  <2>2. r.stage = stage /\ r.position = run[c].position /\ r.ended = run[c].ended
      BY <2>1 DEF Run
  <2>3. run[c].ended = "never"
      BY <1>2, <2>1 DEF RunOk
  <2>4. run' = [run EXCEPT ![c] = r]
      BY <1>2
  <2> HIDE DEF r
  <2>5. ~retried' /\ runs <= 1 => index' = Standing(r)
      BY <1>2, <2>2 DEF FirstRun, CursorAtRequest, Standing
  <2>6. QED
      BY <1>2, <2>2, <2>3, <2>4, <2>5, FirstRunStep
<1>3. ASSUME NEW c \in Callers, PolicyAnswers(c) PROVE FirstRun'
    BY <1>1, <1>2, <1>3 DEF PolicyAnswers, Raise
<1>4. ASSUME NEW c \in Callers, PlannerAnswers(c) PROVE FirstRun'
    BY <1>1, <1>2, <1>4 DEF PlannerAnswers, Raise
<1>5. ASSUME NEW c \in Callers, VerifierAnswers(c) PROVE FirstRun'
  <2>1. /\ run[c].stage = "verifying" /\ runs' = runs /\ harness' = harness /\ index' = index
        /\ RunOk(run[c], taken[c], index, calls) /\ index \in Nat
      BY <1>5 DEF VerifierAnswers, CallersOk, TypeOK
  <2>2. CASE Raise(c, "aborted")
      BY <1>1, <2>1, <2>2 DEF Raise
  <2>3. CASE Complete(c) /\ run[c].position = Last
    <3>1. run' = [run EXCEPT ![c] = Resting("completed")] /\ retried' = retried
        BY <2>3 DEF Complete
    <3>2. Resting("completed").stage = "idle" /\ Resting("completed").ended = "completed"
        BY DEF Resting
    <3>3. QED
        BY <2>1, <3>1, <3>2, FirstRunStep
  <2>4. CASE Complete(c) /\ run[c].position # Last
    <3>1. run' = [run EXCEPT ![c] = Fresh(run[c].position + 1, 1)] /\ retried' = retried
        BY <2>4 DEF Complete
    <3>2. run[c].position \in Nat
        BY <2>1 DEF RunOk, Run
    <3>3. /\ Fresh(run[c].position + 1, 1).ended = "never"
          /\ Standing(Fresh(run[c].position + 1, 1)) = run[c].position
        BY <3>2 DEF Fresh, Standing
    <3>4. ~retried /\ runs <= 1 => index = run[c].position
        BY <2>1 DEF FirstRun, CursorAtRequest, Standing
    <3>5. QED
        BY <2>1, <3>1, <3>3, <3>4, FirstRunStep
  <2>5. QED
      BY <1>5, <2>2, <2>3, <2>4 DEF VerifierAnswers
<1>6. ASSUME NEW c \in Callers, TimedOut(c) \/ Cancelled(c) PROVE FirstRun'
    BY <1>1, <1>6 DEF TimedOut, Cancelled, Awaiting
<1>7. ASSUME NEW c \in Callers, CallInLoop(c) PROVE FirstRun'
    BY <1>7, AnsweredFirst DEF CallInLoop
<1>8. ASSUME NEW t \in threads, ThreadReturns(t) PROVE FirstRun'
  <2>1. t.caller \in Callers /\ t.call \in Nat /\ t.call # 0 /\ harness' = harness
        /\ runs' = runs /\ index' = index
      BY <1>8 DEF CallersOk, TypeOK, ThreadsOk, Thread, ThreadReturns
  <2>2. CASE Awaits(t)
    <3>1. RunOk(run[t.caller], taken[t.caller], index, calls)
        BY <2>1 DEF CallersOk
    <3>2. run[t.caller].stage \in BoundaryStages
        BY <2>1, <2>2, <3>1 DEF RunOk, Awaits
    <3>3. Answered(t.caller, t.call, threads \ {t})
        BY <1>8, <2>2 DEF ThreadReturns
    <3>4. QED
        BY <2>1, <3>2, <3>3, AnsweredFirst
  <2>3. CASE ~Awaits(t)
      BY <1>8, <2>3 DEF ThreadReturns, FirstRun, CursorAtRequest, NothingRun, MissingExplained,
                        Alone, Standing, Incomplete, Last, Session
  <2>4. QED
      BY <2>2, <2>3
<1>9. CASE UNCHANGED vars
    BY <1>9 DEF vars, FirstRun, CursorAtRequest, NothingRun, MissingExplained,
                Alone, Standing, Incomplete, Last, Session
<1>10. QED
    BY <1>3, <1>4, <1>5, <1>6, <1>7, <1>8, <1>9, StartRunFirst, BeginAttemptFirst
    DEF Next, Step

(* An intact session replayed once, without a retry, is never reported as   *)
(* incomplete.                                                              *)
THEOREM MissingIsExplained == Spec => []MissingExplained
<1>1. Init => FirstRun
    BY DEF Init, FirstRun, CursorAtRequest, NothingRun, MissingExplained, Resting
<1>2. CallersOk /\ CallersOk' /\ FirstRun /\ [Next]_vars => FirstRun'
    BY FirstNext
<1>3. FirstRun => MissingExplained
    BY DEF FirstRun
<1>4. QED
    BY <1>1, <1>2, <1>3, Progress, PTL DEF Spec

----------------------------------------------------------------------------
(* A run has only so many steps to take.                                    *)

AttemptsCounted ==
    \A c \in Callers : run[c].stage # "idle" => run[c].attempt \in 1..harness.attempts

(* How many stages of an attempt may still follow a stage. *)
StagesLeft ==
    [starting |-> 5, loading |-> 4, reconciling |-> 3, policing |-> 2, planning |-> 1,
     verifying |-> 0]

(* A run at x is nearer to its end than at y: it is at a later request, or  *)
(* at a later attempt at it, or further in the attempt.                     *)
Nearer(x, y) ==
    \/ x.position = y.position + 1
    \/ x.position = y.position /\ x.attempt = y.attempt + 1
    \/ /\ x.position = y.position /\ x.attempt = y.attempt
       /\ StagesLeft[x.stage] < StagesLeft[y.stage]

InSession(x) == x.position \in 1..Last /\ x.attempt \in 1..harness.attempts

RunsRunDown ==
    [][\A c \in Callers :
          run[c].stage # "idle" =>
              /\ InSession(run[c])
              /\ run'[c] # run[c] => run'[c].stage = "idle" \/ Nearer(run'[c], run[c])]_vars

(* c goes on to x, or its run ends. *)
Goes(c) ==
    \E x : /\ run' = [run EXCEPT ![c] = x]
           /\ \/ x.stage = "idle"
              \/ x.attempt \in 1..harness.attempts /\ Nearer(x, run[c])

LEMMA RestGoes ==
    ASSUME NEW c \in Callers, NEW end, run' = [run EXCEPT ![c] = Resting(end)]
    PROVE  Goes(c)
<1>1. Resting(end).stage = "idle"
    BY DEF Resting
<1>2. QED
    BY <1>1 DEF Goes

LEMMA FreshGoes ==
    ASSUME NEW c \in Callers, NEW position, NEW attempt \in 1..harness.attempts,
           run' = [run EXCEPT ![c] = Fresh(position, attempt)],
           \/ position = run[c].position + 1
           \/ position = run[c].position /\ attempt = run[c].attempt + 1
    PROVE  Goes(c)
<1>1. Fresh(position, attempt).position = position /\ Fresh(position, attempt).attempt = attempt
    BY DEF Fresh
<1>2. QED
    BY <1>1 DEF Goes, Nearer

LEMMA FailGoes ==
    ASSUME CallersOk, AttemptsCounted, NEW c \in Callers, run[c].stage # "idle",
           NEW retry, NEW end, Fail(c, retry, end)
    PROVE  Goes(c)
<1>1. /\ run[c].attempt \in Nat /\ run[c].attempt \in 1..harness.attempts
      /\ harness.attempts \in Nat
    BY DEF CallersOk, RunOk, TypeOK, Run, Harness, AttemptsCounted
<1>2. CASE run[c].attempt < harness.attempts /\ retry
  <2>1. run' = [run EXCEPT ![c] = Fresh(run[c].position, run[c].attempt + 1)]
      BY <1>2 DEF Fail, Retry
  <2>2. run[c].attempt + 1 \in 1..harness.attempts
      BY <1>1, <1>2
  <2>3. QED
      BY <2>1, <2>2, FreshGoes
<1>3. CASE ~(run[c].attempt < harness.attempts /\ retry)
    BY <1>3, RestGoes DEF Fail, Return
<1>4. QED
    BY <1>2, <1>3

LEMMA EnterGoes ==
    ASSUME AttemptsCounted, NEW c \in Callers, run[c].stage # "idle",
           NEW stage, NEW entry, NEW since, NEW recovered, NEW running,
           Enter(c, stage, entry, since, recovered, running),
           StagesLeft[stage] < StagesLeft[run[c].stage]
    PROVE  Goes(c)
<1> DEFINE x == [stage |-> stage, position |-> run[c].position, attempt |-> run[c].attempt,
                 entry |-> entry, call |-> IF stage \in BoundaryStages THEN calls + 1 ELSE 0,
                 since |-> since, recovered |-> recovered, ended |-> "never"]
<1>1. run' = [run EXCEPT ![c] = x]
    BY DEF Enter
<1>2. x.stage = stage /\ x.position = run[c].position /\ x.attempt = run[c].attempt
    OBVIOUS
<1> HIDE DEF x
<1>3. QED
    BY <1>1, <1>2 DEF Goes, Nearer, AttemptsCounted

LEMMA AnsweredGoes ==
    ASSUME CallersOk, AttemptsCounted, NEW c \in Callers, NEW source, NEW running,
           run[c].stage \in BoundaryStages, Answered(c, source, running)
    PROVE  Goes(c)
<1>1. /\ run[c].stage # "idle" /\ StagesLeft["policing"] < StagesLeft[run[c].stage]
      /\ run[c].stage = "loading" => StagesLeft["reconciling"] < StagesLeft[run[c].stage]
    BY DEF BoundaryStages, StagesLeft
<1>2. CASE Raise(c, "aborted")
    BY <1>1, <1>2, FailGoes DEF Raise
<1>3. QED
    BY <1>1, <1>2, EnterGoes DEF Answered

LEMMA BeginAttemptGoes ==
    ASSUME CallersOk, AttemptsCounted, NEW c \in Callers, BeginAttempt(c)
    PROVE  Goes(c)
<1>1. /\ run[c].stage # "idle"
      /\ StagesLeft[AfterRebuild(c)] < StagesLeft[run[c].stage]
    BY DEF BeginAttempt, AfterRebuild, StagesLeft
<1>2. CASE Raise(c, "missing")
    BY <1>1, <1>2, FailGoes DEF Raise
<1>3. QED
    BY <1>1, <1>2, EnterGoes DEF BeginAttempt

LEMMA CompleteGoes ==
    ASSUME CallersOk, NEW c \in Callers, Complete(c)
    PROVE  Goes(c)
<1>1. 1 \in 1..harness.attempts
    BY DEF CallersOk, TypeOK, Harness
<1>2. QED
    BY <1>1, FreshGoes, RestGoes DEF Complete

LEMMA StageGoes ==
    ASSUME CallersOk, AttemptsCounted, NEW c \in Callers, NEW stage,
           run[c].stage # "idle", run' = [run EXCEPT ![c].stage = stage],
           StagesLeft[stage] < StagesLeft[run[c].stage]
    PROVE  Goes(c)
<1> DEFINE x == [run[c] EXCEPT !.stage = stage]
<1>1. run[c] \in Run
    BY DEF CallersOk, TypeOK
<1>2. x.stage = stage /\ x.position = run[c].position /\ x.attempt = run[c].attempt
    BY <1>1 DEF Run
<1>3. run' = [run EXCEPT ![c] = x]
    OBVIOUS
<1> HIDE DEF x
<1>4. QED
    BY <1>2, <1>3 DEF Goes, Nearer, AttemptsCounted

(* A step starts the run of a caller, or moves a caller, or none. *)
LEMMA StepGoes ==
    ASSUME CallersOk, AttemptsCounted, [Next]_vars
    PROVE  /\ harness' = harness
           /\ \/ run' = run
              \/ \E c \in Callers :
                    \/ Goes(c)
                    \/ /\ run[c].stage = "idle"
                       /\ \E x \in {Resting("missing"), Fresh(1, 1)} :
                             run' = [run EXCEPT ![c] = x]
<1>1. CASE UNCHANGED vars
    BY <1>1 DEF vars
<1>2. ASSUME NEW c \in Callers, StartRun(c)
      PROVE  /\ harness' = harness /\ run[c].stage = "idle"
             /\ \E x \in {Resting("missing"), Fresh(1, 1)} : run' = [run EXCEPT ![c] = x]
    BY <1>2 DEF StartRun
<1>3. ASSUME NEW c \in Callers, Step(c) \/ Cancelled(c)
      PROVE  harness' = harness /\ Goes(c)
  <2>1. CASE BeginAttempt(c)
      BY <2>1, BeginAttemptGoes DEF BeginAttempt
  <2>2. CASE CallInLoop(c)
      BY <2>2, AnsweredGoes DEF CallInLoop
  <2>3. CASE PolicyAnswers(c)
    <3>1. run[c].stage # "idle" /\ StagesLeft["planning"] < StagesLeft[run[c].stage]
        BY <2>3 DEF PolicyAnswers, StagesLeft
    <3>2. QED
        BY <2>3, <3>1, StageGoes, FailGoes, RestGoes DEF PolicyAnswers, Raise, Return
  <2>4. CASE PlannerAnswers(c)
    <3>1. run[c].stage # "idle" /\ StagesLeft["verifying"] < StagesLeft[run[c].stage]
        BY <2>4 DEF PlannerAnswers, StagesLeft
    <3>2. QED
        BY <2>4, <3>1, StageGoes, FailGoes DEF PlannerAnswers, Raise
  <2>5. CASE VerifierAnswers(c)
      BY <2>5, CompleteGoes, FailGoes DEF VerifierAnswers, Raise
  <2>6. CASE TimedOut(c)
      BY <2>6, FailGoes DEF TimedOut, Awaiting
  <2>7. CASE Cancelled(c)
      BY <2>7, RestGoes DEF Cancelled, Return
  <2>8. QED
      BY <1>3, <2>1, <2>2, <2>3, <2>4, <2>5, <2>6, <2>7 DEF Step
<1>4. ASSUME NEW t \in threads, ThreadReturns(t)
      PROVE  harness' = harness /\ (run' = run \/ \E c \in Callers : Goes(c))
  <2>1. t.caller \in Callers /\ t.call \in Nat /\ t.call # 0
      BY DEF CallersOk, TypeOK, ThreadsOk, Thread
  <2>2. CASE Awaits(t)
    <3>1. RunOk(run[t.caller], taken[t.caller], index, calls)
        BY <2>1 DEF CallersOk
    <3>2. run[t.caller].stage \in BoundaryStages
        BY <2>1, <2>2, <3>1 DEF RunOk, Awaits
    <3>3. Answered(t.caller, t.call, threads \ {t})
        BY <1>4, <2>2 DEF ThreadReturns
    <3>4. QED
        BY <1>4, <2>1, <3>2, <3>3, AnsweredGoes DEF ThreadReturns
  <2>3. CASE ~Awaits(t)
      BY <1>4, <2>3 DEF ThreadReturns
  <2>4. QED
      BY <2>2, <2>3
<1>5. QED
    BY <1>1, <1>2, <1>3, <1>4 DEF Next

LEMMA AttemptsAlways == Spec => []AttemptsCounted
<1>1. Init => AttemptsCounted
    BY DEF Init, AttemptsCounted, Resting
<1>2. CallersOk /\ AttemptsCounted /\ [Next]_vars => AttemptsCounted'
  <2> SUFFICES ASSUME CallersOk, AttemptsCounted, [Next]_vars PROVE AttemptsCounted'
      OBVIOUS
  <2>1. run \in [Callers -> Run] /\ harness' = harness /\ 1 \in 1..harness.attempts
      BY StepGoes DEF CallersOk, TypeOK, Harness
  <2>2. CASE run' = run
      BY <2>1, <2>2 DEF AttemptsCounted
  <2>3. ASSUME NEW c \in Callers, NEW x, run' = [run EXCEPT ![c] = x],
               x.stage = "idle" \/ x.attempt \in 1..harness.attempts
        PROVE  AttemptsCounted'
      BY <2>1, <2>3 DEF AttemptsCounted
  <2>4. Resting("missing").stage = "idle" /\ Fresh(1, 1).attempt = 1
      BY DEF Resting, Fresh
  <2>5. QED
      BY <2>1, <2>2, <2>3, <2>4, StepGoes DEF Goes
<1>3. QED
    BY <1>1, <1>2, Progress, PTL DEF Spec

(* Each step of a run ends it or brings it nearer to its end: to the next   *)
(* request, to the next attempt at this one or to a later stage, of which   *)
(* the session, the retry policy and the pipeline have so many.  Threads    *)
(* that return late and other runs on the cursor change nothing of that.    *)
(* (run of the harness, _run_request)                                       *)
THEOREM RunsEnd == Spec => RunsRunDown
<1>1. ASSUME CallersOk, AttemptsCounted, [Next]_vars, NEW c \in Callers,
             run[c].stage # "idle"
      PROVE  /\ InSession(run[c])
             /\ run'[c] # run[c] => run'[c].stage = "idle" \/ Nearer(run'[c], run[c])
  <2>1. run \in [Callers -> Run] /\ InSession(run[c])
      BY <1>1 DEF CallersOk, TypeOK, RunOk, InSession, AttemptsCounted
  <2>2. ASSUME NEW d \in Callers, Goes(d)
        PROVE  run'[c] # run[c] => run'[c].stage = "idle" \/ Nearer(run'[c], run[c])
      BY <2>1, <2>2 DEF Goes
  <2>3. ASSUME NEW d \in Callers, NEW x, run[d].stage = "idle", run' = [run EXCEPT ![d] = x]
        PROVE  run'[c] = run[c]
      BY <1>1, <2>1, <2>3
  <2>4. QED
      BY <1>1, <2>1, <2>2, <2>3, StepGoes
<1>2. CallersOk /\ AttemptsCounted /\ [Next]_vars
      => [\A c \in Callers :
             run[c].stage # "idle" =>
                 /\ InSession(run[c])
                 /\ run'[c] # run[c] =>
                        run'[c].stage = "idle" \/ Nearer(run'[c], run[c])]_vars
    BY <1>1
<1>3. QED
    BY <1>2, AttemptsAlways, Progress, PTL DEF Spec, RunsRunDown

=============================================================================
