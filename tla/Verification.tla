---------------------------- MODULE Verification ----------------------------
(***************************************************************************)
(* GoalOrientedSemanticVerifier: what is expected of a transition, the     *)
(* result of one attempt, the window of attempts, the verdict, and what    *)
(* follows from it: the categories of the explanations and the recovery    *)
(* plan.  Snapshots are well formed, so the comparison never fails.        *)
(***************************************************************************)
EXTENDS SemanticDelta, Sequences

Directions == {"any_change", "increased", "decreased"}
DeltaType == [appeared |-> "added", disappeared |-> "removed", changed |-> "changed"]

PartialState == UNION {[fields -> Values \cup Scores \cup {None}] : fields \in SUBSET Fields}

Outcome == {o \in [key : Key, expected : DOMAIN DeltaType, fields : SUBSET Fields,
                   before : PartialState, after : PartialState,
                   minimum : Nat \cup {None}, direction : Directions] :
               o.minimum # None \/ o.direction # "any_change" =>
                  o.key[1] = "candidate" /\ o.expected = "changed"}

Timing == [timeout : Nat \cup {None}, polls : (Nat \ {0}) \cup {None}]

Expectation == [required : SUBSET Ids, forbidden : SUBSET Ids, nodes : SUBSET Ids,
                primary : SUBSET Outcome, alternates : Seq((SUBSET Outcome) \ {{}}),
                timing : Timing \cup {None}]

Branches(e) == (IF e.primary = {} THEN <<>> ELSE <<e.primary>>) \o e.alternates

(***************************************************************************)
(* One expected outcome against the change of its item.  A mismatch that   *)
(* an incomplete item may explain leaves the outcome unknown; any other    *)
(* one refutes it.                                                         *)
(***************************************************************************)
Agrees(expected, actual) ==
    \A field \in DOMAIN expected : field \in DOMAIN actual /\ actual[field] = expected[field]

Lacks(expected, actual) ==
    \E field \in DOMAIN expected :
        field \notin DOMAIN actual \/ (actual[field] = None /\ expected[field] # None)

AbsInt(n) == IF n < 0 THEN -n ELSE n

AsksForScore(outcome) == outcome.minimum # None \/ outcome.direction # "any_change"

ScoreRefuted(outcome, moved) ==
    /\ moved # None
    /\ \/ outcome.minimum # None /\ AbsInt(moved) < outcome.minimum
       \/ outcome.direction = "increased" /\ moved <= 0
       \/ outcome.direction = "decreased" /\ moved >= 0

(* A mutant: a state that does not agree refutes, also where it is not filled in. *)
RefutedOnSight(outcome, change, incomplete) ==
    \/ change.type # DeltaType[outcome.expected]
    \/ ~(outcome.fields \subseteq change.fields)
    \/ ~Agrees(outcome.before, change.before) \/ ~Agrees(outcome.after, change.after)
    \/ ScoreRefuted(outcome, ScoreDelta(change))

Refuted(outcome, change, incomplete) ==
    LET moved == ScoreDelta(change)
        StateRefuted(expected, actual) ==
            /\ ~Agrees(expected, actual)
            /\ ~incomplete \/ ~Lacks(expected, actual)
    IN  \/ change.type # DeltaType[outcome.expected]
        \/ ~incomplete /\ ~(outcome.fields \subseteq change.fields)
        \/ StateRefuted(outcome.before, change.before)
        \/ StateRefuted(outcome.after, change.after)
        \/ ScoreRefuted(outcome, moved)
        \/ ~incomplete /\ AsksForScore(outcome) /\ moved = None

Matches(outcome, change) ==
    /\ change.type = DeltaType[outcome.expected]
    /\ outcome.fields \subseteq change.fields
    /\ Agrees(outcome.before, change.before) /\ Agrees(outcome.after, change.after)
    /\ AsksForScore(outcome) => ScoreDelta(change) # None
    /\ ~ScoreRefuted(outcome, ScoreDelta(change))

OutcomeStatus(outcome, delta) ==
    IF delta = None THEN "unknown"
    ELSE LET incomplete == Incomplete(delta, outcome.key)
             change == Change(delta.before, delta.after, outcome.key)
         IN  IF outcome.key \notin Changed(delta.before, delta.after)
             THEN IF incomplete THEN "unknown" ELSE "unsatisfied"
             ELSE IF Matches(outcome, change) THEN "satisfied"
             ELSE IF Refuted(outcome, change, incomplete) THEN "unsatisfied" ELSE "unknown"

(***************************************************************************)
(* One attempt.  Missing and forbidden items decide first, then any        *)
(* satisfied branch, then any unknown one.                                 *)
(***************************************************************************)
Aggregate(statuses) ==
    IF "unsatisfied" \in statuses THEN "unsatisfied"
    ELSE IF "unknown" \in statuses THEN "unknown" ELSE "satisfied"
BranchStatus(branch, delta) == Aggregate({OutcomeStatus(outcome, delta) : outcome \in branch})

(* The first satisfied branch, else the first unknown one, else the first. *)
FirstWith(statuses, status) ==
    CHOOSE i \in DOMAIN statuses :
        statuses[i] = status /\ \A j \in 1 .. i - 1 : statuses[j] # status
Selected(statuses) ==
    LET Some(status) == \E i \in DOMAIN statuses : statuses[i] = status
    IN  IF statuses = <<>> THEN 0
        ELSE IF Some("satisfied") THEN FirstWith(statuses, "satisfied")
        ELSE IF Some("unknown") THEN FirstWith(statuses, "unknown") ELSE 1

MissingCandidates(e, after) == {id \in e.required : ~Here(after, <<"candidate", id>>)}
Unexpected(e, after) == {id \in e.forbidden : Here(after, <<"candidate", id>>)}
MissingNodes(e, after) == {id \in e.nodes : ~Here(after, <<"layout_tree_node", id>>)}
Contradicted(e, after) ==
    MissingCandidates(e, after) \cup Unexpected(e, after) \cup MissingNodes(e, after) # {}

AttemptStatus(e, after, statuses) ==
    LET Some(status) == \E i \in DOMAIN statuses : statuses[i] = status
    IN  IF Contradicted(e, after) THEN "unsatisfied"
        ELSE IF statuses = <<>> \/ Some("satisfied") THEN "satisfied"
        ELSE IF Some("unknown") THEN "unknown" ELSE "unsatisfied"

(* _verify_attempt *)
Unavailable == [status |-> "unknown", delta |-> None, branch |-> 0,
                missing |-> FALSE, unexpected |-> FALSE, count |-> 1, index |-> 1]
Available(e, after, delta, statuses) ==
    [status |-> AttemptStatus(e, after, statuses), delta |-> delta,
     branch |-> Selected(statuses),
     missing |-> MissingCandidates(e, after) \cup MissingNodes(e, after) # {},
     unexpected |-> Unexpected(e, after) # {}, count |-> 1, index |-> 1]
BranchStatuses(e, delta) == [i \in DOMAIN Branches(e) |-> BranchStatus(Branches(e)[i], delta)]
AttemptResult(e, before, after) ==
    IF after = None THEN Unavailable
    ELSE LET delta == IF before = None THEN None ELSE Delta(before, after)
         IN  Available(e, after, delta, BranchStatuses(e, delta))

(***************************************************************************)
(* The window: the transition itself is attempt 1, the polls follow by     *)
(* index.  Attempts known to be too late are dropped, then all but the     *)
(* first timing.polls of the others.                                       *)
(***************************************************************************)
Bounded(e, bound) == e.timing # None /\ e.timing[bound] # None

(* A mutant: the timeout is not looked at. *)
AllInTime(e, attempts) == attempts

InTime(e, attempts) ==
    {a \in attempts :
        Bounded(e, "timeout") /\ a.elapsed # None => a.elapsed <= e.timing.timeout}

Earlier(attempts, a) == {b \in attempts : b.index < a.index}

Window(e, attempts) ==
    LET kept == InTime(e, attempts)
    IN  {a \in kept : Bounded(e, "polls") => Cardinality(Earlier(kept, a)) < e.timing.polls}

ResultOf(e, a) == AttemptResult(e, a.before, a.after)

Lowest(attempts) == CHOOSE a \in attempts : \A b \in attempts : a.index <= b.index
Highest(attempts) == CHOOSE a \in attempts : \A b \in attempts : b.index <= a.index

WithStatus(e, attempts, status) == {a \in attempts : ResultOf(e, a).status = status}

(* The first satisfied attempt ends the search; without one the last       *)
(* unknown attempt speaks, without that the last.                          *)
Preferred(satisfied, unknown, window) ==
    IF satisfied # {} THEN Lowest(satisfied)
    ELSE IF unknown # {} THEN Highest(unknown) ELSE Highest(window)
Chosen(e, window) ==
    Preferred(WithStatus(e, window, "satisfied"), WithStatus(e, window, "unknown"), window)

Evaluated(e, window) ==
    IF WithStatus(e, window, "satisfied") = {} THEN window
    ELSE {a \in window : a.index <= Chosen(e, window).index}

TimingIncomplete(e, attempts) == e.timing # None /\ \E a \in attempts : a.elapsed = None

(* The result as it is put together, before VerificationResult checks it. *)
Guarded(e, attempts, status) ==
    IF TimingIncomplete(e, attempts) /\ status = "unsatisfied" THEN "unknown" ELSE status

Finalized(e, attempts, result, count, index) ==
    [status |-> Guarded(e, attempts, result.status), delta |-> result.delta,
     branch |-> result.branch, missing |-> result.missing, unexpected |-> result.unexpected,
     count |-> count, index |-> index]
Selection(e, attempts) ==
    LET window == Window(e, attempts)
        chosen == Chosen(e, window)
    IN  Finalized(e, attempts, ResultOf(e, chosen), Cardinality(Evaluated(e, window)), chosen.index)

(* A mutant: the result is returned as it was put together. *)
VerifyUnchecked(e, attempts) == Selection(e, attempts)

(* VerificationResult refuses a selected attempt beyond the count of       *)
(* attempts.                                                               *)
IsResult(selection) == selection.index <= selection.count

(* verify(): the exception of a refused result becomes an unknown one.     *)
Checked(selection) == IF IsResult(selection) THEN selection ELSE Unavailable
Verify(e, attempts) == Checked(Selection(e, attempts))

(***************************************************************************)
(* Explanations: the categories of the taxonomy, by the transition that    *)
(* was submitted, not by the attempt that was selected.                    *)
(***************************************************************************)
Doubtful == {"missing_input", "partial_input", "ambiguous_result"}

SelectedOutcomes(e, result) == IF result.branch = 0 THEN {} ELSE Branches(e)[result.branch]

(* A mutant: a refuted outcome counts as not found, however little was seen of its item. *)
CategoryOnSight(e, first, result, outcome) ==
    LET status == OutcomeStatus(outcome, result.delta)
    IN  IF status = "satisfied" THEN "expected_change_observed"
        ELSE IF status = "unknown" THEN "ambiguous_result" ELSE "expected_change_not_found"

OutcomeCategory(e, first, result, outcome) ==
    LET status == OutcomeStatus(outcome, result.delta)
        known == outcome \in e.primary
        before == result.delta.before
        after == result.delta.after
    IN  IF status = "satisfied" THEN "expected_change_observed"
        ELSE IF first.after = None \/ first.before = None THEN "missing_input"
        ELSE IF result.delta # None /\ Incomplete(result.delta, outcome.key) THEN "partial_input"
        ELSE IF status = "unknown" THEN "ambiguous_result"
        ELSE IF known /\ AsksForScore(outcome) THEN "score_change_not_satisfied"
        ELSE IF /\ known /\ outcome.key[1] = "snapshot_metadata"
                /\ DOMAIN outcome.before \cup DOMAIN outcome.after # {}
             THEN "metadata_expectation_not_met"
        ELSE IF /\ known /\ outcome.key \in Changed(before, after)
                /\ ChangeType(before, after, outcome.key) # DeltaType[outcome.expected]
             THEN "unexpected_change_detected"
        ELSE "expected_change_not_found"

OutcomeCategories(e, first, result) ==
    {OutcomeCategory(e, first, result, outcome) : outcome \in SelectedOutcomes(e, result)}

(* An explanation that says whether the search came to something. *)
Remark(result) ==
    IF result.status = "satisfied" THEN "expected_change_observed" ELSE "ambiguous_result"

ResultCategories(e, first, result) ==
    LET outcomes == OutcomeCategories(e, first, result)
        asked == SelectedOutcomes(e, result) # {}
        If(condition, category) == IF condition THEN {category} ELSE {}
    IN  If(first.after = None \/ (first.before = None /\ asked), "missing_input")
        \cup If(/\ first.after # None /\ first.before # None
                /\ result.delta = None /\ asked, "ambiguous_result")
        \cup If(/\ result.delta # None /\ Partial(result.delta)
                /\ ~asked \/ result.status = "unknown" \/ outcomes \cap Doubtful # {},
                "partial_input")
        \cup If(result.branch > 0 /\ (result.branch > 1 \/ e.primary = {}), Remark(result))
        \cup If(result.count > 1, Remark(result))
        \cup If(result.missing, "expected_change_not_found")
        \cup If(result.unexpected, "unexpected_change_detected")

TaxonomyCategories(e, first, result) ==
    LET found == ResultCategories(e, first, result)
    IN  OutcomeCategories(e, first, result)
        \cup IF found = {} /\ result.status # "unsatisfied" THEN {Remark(result)} ELSE found

(* _plan_from_verification_result *)
RecoveryPlan(e, first, result) ==
    CASE result.status = "satisfied" -> "no_recovery_needed"
      [] \/ result.status = "unknown"
         \/ TaxonomyCategories(e, first, result) \cap Doubtful # {} -> "retry"
      [] OTHER -> "aborted"
=============================================================================
