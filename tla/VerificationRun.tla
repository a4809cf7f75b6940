-------------------------- MODULE VerificationRun --------------------------
(***************************************************************************)
(* A transition is verified while its polls are still coming in.  The code *)
(* that polls the screen is the caller's: it numbers its polls from 2, the *)
(* transition itself being attempt 1, takes each one tick after the last,  *)
(* and may not know how long one took.  A poll reaches the transition late,*)
(* after its successors, or never.                                         *)
(*                                                                         *)
(* Each poll that comes in makes a new transition, which is verified       *)
(* again.  The verifier keeps nothing between two calls.                   *)
(***************************************************************************)
EXTENDS Verification

CONSTANTS
    Cases,       \* expectations, each with the snapshots it is put to
    MaxPolls     \* bound: polls taken

(* None is no snapshot and no delta.                                       *)
ASSUME CasesAssumption ==
    /\ MaxPolls \in Nat
    /\ \A c \in Cases :
          /\ c.expectation \in Expectation
          /\ \A s \in c.snapshots : s # None /\ IsSnapshot(s)
          /\ \A before, after \in c.snapshots : Delta(before, after) # None

VARIABLES
    case,        \* the expectation and its snapshots
    first,       \* the transition: its before and after snapshot
    taken,       \* polls taken so far
    transit,     \* polls on their way
    polls,       \* transition.poll_attempts
    verdict      \* the result of the last verification

vars == <<case, first, taken, transit, polls, verdict>>

Attempts == {first} \cup polls

Snapshots == case.snapshots \cup {None}
Attempt(index, elapsed, before, after) ==
    [index |-> index, elapsed |-> elapsed, before |-> before, after |-> after]

Init ==
    /\ case \in Cases
    /\ first \in {Attempt(1, 0, before, after) : before \in Snapshots, after \in Snapshots}
    /\ taken = 0 /\ transit = {} /\ polls = {}
    /\ verdict = Verify(case.expectation, Attempts)

Poll(after) ==
    /\ taken < MaxPolls
    /\ taken' = taken + 1
    /\ \E elapsed \in {taken + 1, None} :
          transit' = transit \cup {Attempt(taken + 2, elapsed, first.before, after)}
    /\ UNCHANGED <<case, first, polls, verdict>>

Arrive(poll) ==
    /\ transit' = transit \ {poll}
    /\ polls' = polls \cup {poll}
    /\ verdict' = Verify(case.expectation, Attempts \cup {poll})
    /\ UNCHANGED <<case, first, taken>>

Lose(poll) ==
    /\ transit' = transit \ {poll}
    /\ UNCHANGED <<case, first, taken, polls, verdict>>

Next ==
    \/ \E after \in Snapshots : Poll(after)
    \/ \E poll \in transit : Arrive(poll) \/ Lose(poll)

Spec == Init /\ [][Next]_vars

(* What the recovery planner makes of it. *)
Plan == RecoveryPlan(case.expectation, first, verdict)

(***************************************************************************)
(* What it is to see the expected change, told from two whole snapshots    *)
(* and without a delta.                                                    *)
(***************************************************************************)
Field(snapshot, key, field) == snapshot.items[key].state[field]

Shows(snapshot, key, expected) ==
    \A field \in DOMAIN expected :
        Here(snapshot, key) /\ Field(snapshot, key, field) = expected[field]

Moved(outcome, old, new) ==
    /\ old # None /\ new # None
    /\ outcome.minimum # None => new - old >= outcome.minimum \/ old - new >= outcome.minimum
    /\ outcome.direction = "increased" => new > old
    /\ outcome.direction = "decreased" => new < old

Holds(outcome, before, after) ==
    LET key == outcome.key IN
    /\ IsNode(key) => before.tree /\ after.tree
    /\ Here(before, key) = (outcome.expected # "appeared")
    /\ Here(after, key) = (outcome.expected # "disappeared")
    /\ outcome.expected = "changed" => before.items[key].state # after.items[key].state
    /\ \A field \in outcome.fields :
          /\ outcome.expected = "changed"
          /\ Field(before, key, field) # Field(after, key, field)
    /\ Shows(before, key, outcome.before) /\ Shows(after, key, outcome.after)
    /\ AsksForScore(outcome) =>
          Moved(outcome, Field(before, key, "confidence"), Field(after, key, "confidence"))

Present(e, after) ==
    /\ \A id \in e.required : Here(after, <<"candidate", id>>)
    /\ \A id \in e.forbidden : ~Here(after, <<"candidate", id>>)
    /\ \A id \in e.nodes : Here(after, <<"layout_tree_node", id>>)

Unconditional(e) == e.primary = {} /\ e.alternates = <<>>
SomeBranch(e, Good(_)) ==
    \/ Unconditional(e)
    \/ e.primary # {} /\ \A outcome \in e.primary : Good(outcome)
    \/ \E i \in DOMAIN e.alternates : \A outcome \in e.alternates[i] : Good(outcome)

Meets(e, a) ==
    /\ a.after # None /\ Present(e, a.after)
    /\ a.before # None \/ Unconditional(e)
    /\ SomeBranch(e, LAMBDA outcome : Holds(outcome, a.before, a.after))

(***************************************************************************)
(* The same with the fields that the pipeline failed to fill filled in,    *)
(* and with a missing tree taken to hold whatever is expected of it.       *)
(***************************************************************************)
Completions(key, item) ==
    IF ~ItemIncomplete(key, item) THEN {item}
    ELSE {[state |-> state, produced |-> item.produced] :
             state \in {s \in State : \A field \in Fields :
                           item.state[field] # None => s[field] = item.state[field]}}

(* The snapshots that show one item as it could be. *)
Completed(snapshot, key) ==
    IF ~Here(snapshot, key) THEN {snapshot}
    ELSE {[tree |-> snapshot.tree, items |-> [snapshot.items EXCEPT ![key] = item]] :
             item \in Completions(key, snapshot.items[key])}

CouldHold(outcome, before, after) ==
    \/ IsNode(outcome.key) /\ ~(before.tree /\ after.tree)
    \/ \E b \in Completed(before, outcome.key), a \in Completed(after, outcome.key) :
          Holds(outcome, b, a)

CouldMeet(e, a) ==
    \/ a.after = None
    \/ /\ Present(e, a.after)
       /\ \/ a.before = None
          \/ SomeBranch(e, LAMBDA outcome : CouldHold(outcome, a.before, a.after))

(***************************************************************************)
(* Properties.                                                             *)
(***************************************************************************)
(* A satisfied verdict rests on an attempt that came in, in time and among *)
(* the first that count, and shows the expected change in its snapshots;   *)
(* no attempt before it does.                                              *)
SatisfiedIsSeen ==
    LET e == case.expectation IN
    verdict.status = "satisfied" =>
        \E a \in Attempts :
            /\ a.index = verdict.index /\ Meets(e, a)
            /\ Bounded(e, "timeout") /\ a.elapsed # None => a.elapsed <= e.timing.timeout
            /\ Bounded(e, "polls") => a.index <= e.timing.polls
            /\ \A b \in Attempts : b.index < a.index => ~Meets(e, b)

(* An unsatisfied verdict is no guess: in no attempt of the window could   *)
(* the expectation be met, whatever the items that the pipeline left       *)
(* incomplete really hold.  (Without a tree required nodes count as        *)
(* missing, as the code says they do.)                                     *)
UnsatisfiedIsDefinite ==
    verdict.status = "unsatisfied" =>
        \A a \in Window(case.expectation, Attempts) : ~CouldMeet(case.expectation, a)

(* Recovery gives up only on what was seen in full: one attempt, an after  *)
(* snapshot, and every primary outcome either observed or about an item    *)
(* that neither snapshot leaves incomplete.  (A layout tree that is not    *)
(* there at all leaves none of its nodes incomplete: to the code they are  *)
(* missing, and recovery may give up on them.)                             *)
AbortOnFullSight ==
    Plan = "aborted" =>
        /\ verdict.count = 1 /\ first.after # None
        /\ \A outcome \in case.expectation.primary :
              /\ first.before # None
              /\ \/ Holds(outcome, first.before, first.after)
                 \/ ~Incomplete(Delta(first.before, first.after), outcome.key)

(* A satisfied verdict is final: no poll that comes in later, in whatever  *)
(* order, revokes it or moves it to another attempt.                       *)
StaysSatisfied ==
    [][verdict.status = "satisfied" => verdict' = verdict]_vars

(* The assertion of VerificationResult: the selected attempt does not lie  *)
(* beyond the attempts that were counted.                                  *)
SelectionWithinCount == IsResult(Selection(case.expectation, Attempts))
=============================================================================
