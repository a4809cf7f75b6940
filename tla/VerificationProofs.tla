------------------------- MODULE VerificationProofs -------------------------
(***************************************************************************)
(* What the verdict says is true of the snapshots, for every expectation   *)
(* and every set of snapshots, however many polls are taken and in         *)
(* whatever order they come in.                                            *)
(*                                                                         *)
(* Three layers: one outcome against two snapshots, one attempt, and the   *)
(* window of attempts.                                                     *)
(***************************************************************************)
EXTENDS VerificationRun, FiniteSetTheorems, WellFoundedInduction, TLAPS

(***************************************************************************)
(* One outcome.                                                            *)
(***************************************************************************)
(* What an item of a snapshot is made of. *)
LEMMA ItemShape ==
    ASSUME NEW s, IsSnapshot(s), NEW key, Here(s, key)
    PROVE  /\ StateIn(s, key) = s.items[key].state
           /\ s.items[key] \in Item
           /\ s.items[key].state \in State
           /\ DOMAIN s.items[key].state = Fields
           /\ IsNode(key) => s.tree
BY DEF IsSnapshot, Here, StateIn, Item, State, Fields

(* A score is a number or missing, and the change of it likewise. *)
LEMMA ScoreMoved ==
    ASSUME NEW before, NEW after, IsSnapshot(before), IsSnapshot(after), NEW key,
           Here(before, key), Here(after, key)
    PROVE  LET old == Field(before, key, "confidence")
               new == Field(after, key, "confidence")
               moved == ScoreDelta(Change(before, after, key))
           IN  /\ old \in Nat \cup {None} /\ new \in Nat \cup {None}
               /\ old # None /\ new # None => moved = new - old /\ moved # None
               /\ old = None \/ new = None => moved = None
<1>1. /\ Field(before, key, "confidence") \in Scores \cup {None}
      /\ Field(after, key, "confidence") \in Scores \cup {None}
  BY ItemShape DEF Field, State
<1>2. LET change == Change(before, after, key)
      IN  /\ change.before = before.items[key].state
          /\ change.after = after.items[key].state
  BY ItemShape DEF Change
<1>3. /\ Scored(before.items[key].state) <=> Field(before, key, "confidence") # None
      /\ Scored(after.items[key].state) <=> Field(after, key, "confidence") # None
  BY ItemShape DEF Scored, Field, Fields
<1>4. LET moved == ScoreDelta(Change(before, after, key))
      IN  moved = IF /\ Field(before, key, "confidence") # None
                     /\ Field(after, key, "confidence") # None
                  THEN Field(after, key, "confidence") - Field(before, key, "confidence")
                  ELSE None
  BY <1>2, <1>3 DEF ScoreDelta, Field
<1> DEFINE old == Field(before, key, "confidence")
           new == Field(after, key, "confidence")
           moved == ScoreDelta(Change(before, after, key))
<1>5. old \in Nat \cup {None} /\ new \in Nat \cup {None}
  BY <1>1, ScoresAssumption
<1>6. moved = IF old # None /\ new # None THEN new - old ELSE None
  BY <1>4
<1> HIDE DEF old, new, moved
<1>7. old # None /\ new # None => new - old \in Int /\ moved = new - old
  BY <1>5, <1>6
<1>8. old # None /\ new # None => moved # None
  BY <1>7, ScoresAssumption
<1>9. old = None \/ new = None => moved = None
  BY <1>6
<1>10. QED
  BY <1>5, <1>7, <1>8, <1>9 DEF old, new, moved
(* What an expected outcome is made of. *)
LEMMA OutcomeShape ==
    ASSUME NEW o \in Outcome
    PROVE  /\ o.expected \in {"appeared", "disappeared", "changed"}
           /\ o.fields \subseteq Fields
           /\ DOMAIN o.before \subseteq Fields /\ DOMAIN o.after \subseteq Fields
           /\ o.minimum \in Nat \cup {None}
           /\ AsksForScore(o) => o.expected = "changed"
<1>1. /\ o.expected \in DOMAIN DeltaType /\ o.fields \subseteq Fields
      /\ o.before \in PartialState /\ o.after \in PartialState
      /\ o.minimum \in Nat \cup {None}
      /\ AsksForScore(o) => o.expected = "changed"
  BY DEF Outcome, AsksForScore
<1>2. \A state \in PartialState : DOMAIN state \subseteq Fields
  BY DEF PartialState
<1>3. DOMAIN DeltaType = {"appeared", "disappeared", "changed"}
  BY DEF DeltaType
<1>4. QED
  BY <1>1, <1>2, <1>3

(* The type of a change tells where the item is. *)
LEMMA TypeTells ==
    ASSUME NEW before, NEW after, NEW o \in Outcome,
           Here(before, o.key) \/ Here(after, o.key)
    PROVE  ChangeType(before, after, o.key) = DeltaType[o.expected]
              <=> /\ Here(before, o.key) = (o.expected # "appeared")
                  /\ Here(after, o.key) = (o.expected # "disappeared")
<1>1. Here(before, o.key) \in BOOLEAN /\ Here(after, o.key) \in BOOLEAN
  BY DEF Here
<1>2. DeltaType[o.expected] = IF o.expected = "appeared" THEN "added"
                              ELSE IF o.expected = "disappeared" THEN "removed" ELSE "changed"
  BY OutcomeShape DEF DeltaType
<1>3. ChangeType(before, after, o.key) =
          IF ~Here(before, o.key) THEN "added"
          ELSE IF ~Here(after, o.key) THEN "removed" ELSE "changed"
  <2>1. CASE ~Here(before, o.key)
    BY <2>1 DEF ChangeType
  <2>2. CASE Here(before, o.key) /\ ~Here(after, o.key)
    BY <2>2 DEF ChangeType
  <2>3. CASE Here(before, o.key) /\ Here(after, o.key)
    BY <2>3 DEF ChangeType
  <2>4. QED
    BY <2>1, <2>2, <2>3
<1>4. QED
  BY <1>1, <1>2, <1>3, OutcomeShape

(* An expected state agrees with the state of an item, or of none, if the  *)
(* snapshot shows it.                                                      *)
LEMMA AgreesIsShown ==
    ASSUME NEW s, IsSnapshot(s), NEW key, NEW expected, DOMAIN expected \subseteq Fields
    PROVE  Agrees(expected, StateIn(s, key)) <=> Shows(s, key, expected)
<1>1. CASE Here(s, key)
  BY <1>1, ItemShape DEF Agrees, Shows, Field
<1>2. CASE ~Here(s, key)
  BY <1>2 DEF Agrees, Shows, StateIn, NoState
<1>3. QED
  BY <1>1, <1>2

(* Two states are the same if all fields are. *)
LEMMA StatesDiffer ==
    ASSUME NEW before, NEW after, IsSnapshot(before), IsSnapshot(after), NEW key,
           Here(before, key), Here(after, key)
    PROVE  /\ ChangedFields(before, after, key) =
                 {field \in Fields : Field(before, key, field) # Field(after, key, field)}
           /\ ChangedFields(before, after, key) # {}
                 <=> before.items[key].state # after.items[key].state
<1> DEFINE old == before.items[key].state
           new == after.items[key].state
<1>1. old \in State /\ new \in State /\ DOMAIN old = Fields /\ DOMAIN new = Fields
  BY ItemShape
<1>2. ChangedFields(before, after, key) = {field \in Fields : old[field] # new[field]}
  BY <1>1, ItemShape DEF ChangedFields
<1>3. old["value"] = new["value"] /\ old["confidence"] = new["confidence"] => old = new
  BY <1>1 DEF State
<1>4. QED
  BY <1>2, <1>3 DEF Field, Fields
(* A score that moved as expected is one that is known and not refuted. *)
LEMMA ScoreAsExpected ==
    ASSUME NEW before, NEW after, IsSnapshot(before), IsSnapshot(after), NEW o \in Outcome,
           Here(before, o.key), Here(after, o.key)
    PROVE  LET moved == ScoreDelta(Change(before, after, o.key))
           IN  moved # None /\ ~ScoreRefuted(o, moved)
                 <=> Moved(o, Field(before, o.key, "confidence"), Field(after, o.key, "confidence"))
<1> DEFINE old == Field(before, o.key, "confidence")
           new == Field(after, o.key, "confidence")
           moved == ScoreDelta(Change(before, after, o.key))
<1>1. /\ old \in Nat \cup {None} /\ new \in Nat \cup {None}
      /\ old # None /\ new # None => moved = new - old /\ moved # None
      /\ old = None \/ new = None => moved = None
  BY ScoreMoved
<1>2. o.minimum \in Nat \cup {None}
  BY OutcomeShape
<1> HIDE DEF old, new, moved
<1>3. old = None \/ new = None
        => (moved # None /\ ~ScoreRefuted(o, moved) <=> Moved(o, old, new))
  BY <1>1 DEF Moved
<1>4. ASSUME old # None /\ new # None
      PROVE  moved # None /\ ~ScoreRefuted(o, moved) <=> Moved(o, old, new)
  <2>1. old \in Nat /\ new \in Nat /\ moved = new - old /\ moved # None
    BY <1>1, <1>4
  <2>2. o.minimum # None =>
            (AbsInt(moved) < o.minimum <=> ~(new - old >= o.minimum \/ old - new >= o.minimum))
    BY <2>1, <1>2 DEF AbsInt
  <2>3. (moved <= 0 <=> ~(new > old)) /\ (moved >= 0 <=> ~(new < old))
    BY <2>1
  <2>4. ScoreRefuted(o, moved)
          <=> \/ o.minimum # None /\ ~(new - old >= o.minimum \/ old - new >= o.minimum)
              \/ o.direction = "increased" /\ ~(new > old)
              \/ o.direction = "decreased" /\ ~(new < old)
    BY <2>1, <2>2, <2>3, Zenon DEF ScoreRefuted
  <2>5. Moved(o, old, new)
          <=> /\ o.minimum # None => new - old >= o.minimum \/ old - new >= o.minimum
              /\ o.direction = "increased" => new > old
              /\ o.direction = "decreased" => new < old
    BY <1>4, Zenon DEF Moved
  <2>6. QED
    BY <2>1, <2>4, <2>5, Zenon
<1>5. QED
  BY <1>3, <1>4 DEF old, new, moved

(* A delta tells that an outcome is there exactly if the two snapshots     *)
(* show it.                                                                *)
THEOREM SatisfiedOutcome ==
    ASSUME NEW before, NEW after, IsSnapshot(before), IsSnapshot(after),
           Delta(before, after) # None, NEW o \in Outcome
    PROVE  OutcomeStatus(o, Delta(before, after)) = "satisfied" <=> Holds(o, before, after)
<1> DEFINE key == o.key
           change == Change(before, after, key)
<1>1. OutcomeStatus(o, Delta(before, after)) = "satisfied"
        <=> key \in Changed(before, after) /\ Matches(o, change)
  BY DEF OutcomeStatus, Delta
<1>2. CASE ~Here(before, key) /\ ~Here(after, key)
  <2>1. key \notin Changed(before, after)
    BY <1>2 DEF Changed, Compared, Here
  <2>2. ~Holds(o, before, after)
    BY <1>2, OutcomeShape DEF Holds, Here
  <2>3. QED
    BY <1>1, <2>1, <2>2
<1>3. CASE Here(before, key) \/ Here(after, key)
  <2>1. change.type = DeltaType[o.expected]
          <=> /\ Here(before, key) = (o.expected # "appeared")
              /\ Here(after, key) = (o.expected # "disappeared")
    BY <1>3, TypeTells DEF Change
  <2>2. SUFFICES ASSUME change.type = DeltaType[o.expected]
                 PROVE  key \in Changed(before, after) /\ Matches(o, change)
                          <=> Holds(o, before, after)
    BY <1>1, <2>1 DEF Matches, Holds
  <2>3. key \in Compared(before, after) <=> (IsNode(key) => before.tree /\ after.tree)
    BY <1>3 DEF Compared, Here
  <2>4. /\ Agrees(o.before, change.before) <=> Shows(before, key, o.before)
        /\ Agrees(o.after, change.after) <=> Shows(after, key, o.after)
    BY AgreesIsShown, OutcomeShape DEF Change
  <2>5. CASE o.expected = "changed"
    <3>1. Here(before, key) /\ Here(after, key) /\ change.type = "changed"
      <4>1. Here(before, key) /\ Here(after, key)
        BY <2>1, <2>2, <2>5 DEF Here
      <4>2. DeltaType[o.expected] = "changed"
        BY <2>5 DEF DeltaType
      <4>3. QED
        BY <2>2, <4>1, <4>2
    <3>2. key \in Changed(before, after)
            <=> key \in Compared(before, after) /\ before.items[key].state # after.items[key].state
      BY <3>1, StatesDiffer DEF Changed, Change
    <3>3. o.fields \subseteq change.fields
            <=> \A field \in o.fields : Field(before, key, field) # Field(after, key, field)
      BY <3>1, StatesDiffer, OutcomeShape DEF Change
    <3>4. (AsksForScore(o) => ScoreDelta(change) # None) /\ ~ScoreRefuted(o, ScoreDelta(change))
            <=> (AsksForScore(o) => Moved(o, Field(before, key, "confidence"),
                                             Field(after, key, "confidence")))
      <4>1. ~AsksForScore(o) => ~ScoreRefuted(o, ScoreDelta(change))
        BY DEF AsksForScore, ScoreRefuted
      <4>2. QED
        BY <3>1, <4>1, ScoreAsExpected
    <3>5. QED
      BY <2>1, <2>2, <2>3, <2>4, <2>5, <3>2, <3>3, <3>4 DEF Matches, Holds
  <2>6. CASE o.expected # "changed"
    <3>1. change.type # "changed" /\ ChangeType(before, after, key) # "changed"
      BY <2>2, <2>6, OutcomeShape DEF DeltaType, Change
    <3>2. key \in Changed(before, after) <=> key \in Compared(before, after)
      BY <3>1 DEF Changed
    <3>3. ~(Here(before, key) /\ Here(after, key))
      BY <2>1, <2>2, <2>6, OutcomeShape
    <3>4. change.fields = {}
      BY <3>3 DEF Change, ChangedFields, StateIn, NoState
    <3>5. ~AsksForScore(o) /\ ~ScoreRefuted(o, ScoreDelta(change))
      BY <2>6, OutcomeShape DEF AsksForScore, ScoreRefuted
    <3>6. o.fields \subseteq change.fields <=> o.fields = {}
      BY <3>4
    <3>7. QED
      BY <2>1, <2>2, <2>3, <2>4, <2>6, <3>2, <3>5, <3>6 DEF Matches, Holds
  <2>7. QED
    BY <2>5, <2>6
<1>4. QED
  BY <1>2, <1>3
(* A completed snapshot has the same items, and the same fields where they *)
(* were filled in.                                                         *)
LEMMA CompletedShape ==
    ASSUME NEW s, IsSnapshot(s), NEW key, NEW c \in Completed(s, key)
    PROVE  /\ Here(c, key) = Here(s, key) /\ c.tree = s.tree
           /\ Here(s, key) =>
                 /\ c.items[key].state \in State
                 /\ \A field \in Fields :
                       Field(s, key, field) # None => Field(c, key, field) = Field(s, key, field)
                 /\ ~ItemIncomplete(key, s.items[key]) => c.items[key] = s.items[key]
<1>1. CASE ~Here(s, key)
  BY <1>1 DEF Completed
<1>2. CASE Here(s, key)
  <2>1. PICK item \in Completions(key, s.items[key]) :
            c = [tree |-> s.tree, items |-> [s.items EXCEPT ![key] = item]]
    BY <1>2 DEF Completed
  <2>2. c.tree = s.tree /\ DOMAIN c.items = DOMAIN s.items /\ c.items[key] = item
    BY <1>2, <2>1 DEF Here
  <2>3. CASE ~ItemIncomplete(key, s.items[key])
    <3>1. item = s.items[key]
      BY <2>1, <2>3 DEF Completions
    <3>2. QED
      BY <1>2, <2>2, <3>1, ItemShape DEF Here, Field
  <2>4. CASE ItemIncomplete(key, s.items[key])
    <3>1. PICK state \in State :
              /\ item = [state |-> state, produced |-> s.items[key].produced]
              /\ \A field \in Fields : s.items[key].state[field] # None
                                        => state[field] = s.items[key].state[field]
      BY <2>1, <2>4 DEF Completions
    <3>2. item.state = state
      BY <3>1
    <3>3. QED
      BY <1>2, <2>2, <2>4, <3>1, <3>2 DEF Here, Field
  <2>5. QED
    BY <2>3, <2>4
<1>3. QED
  BY <1>1, <1>2

(* A state that is refuted although its item is incomplete disagrees in a  *)
(* field that is filled in, so no completion agrees.                       *)
LEMMA RefutedForGood ==
    ASSUME NEW s, IsSnapshot(s), NEW key, NEW c \in Completed(s, key),
           NEW expected, DOMAIN expected \subseteq Fields,
           ~Agrees(expected, StateIn(s, key)), ~Lacks(expected, StateIn(s, key))
    PROVE  ~Shows(c, key, expected)
<1>1. PICK field \in DOMAIN expected :
          field \in DOMAIN StateIn(s, key) /\ StateIn(s, key)[field] # expected[field]
  BY DEF Agrees, Lacks
<1>2. Here(s, key) /\ StateIn(s, key)[field] = Field(s, key, field)
  BY <1>1, ItemShape DEF StateIn, NoState, Field
<1>3. Field(s, key, field) # None
  BY <1>1, <1>2 DEF Lacks
<1>4. Field(c, key, field) = Field(s, key, field)
  BY <1>2, <1>3, CompletedShape
<1>5. QED
  BY <1>1, <1>2, <1>4 DEF Shows

(* A refuted score was known on both sides, so no completion moves it.     *)
LEMMA ScoreRefutedForGood ==
    ASSUME NEW before, NEW after, IsSnapshot(before), IsSnapshot(after), NEW o \in Outcome,
           Here(before, o.key), Here(after, o.key),
           ScoreRefuted(o, ScoreDelta(Change(before, after, o.key))),
           NEW b \in Completed(before, o.key), NEW a \in Completed(after, o.key)
    PROVE  ~Moved(o, Field(b, o.key, "confidence"), Field(a, o.key, "confidence"))
<1>1. /\ Field(before, o.key, "confidence") # None
      /\ Field(after, o.key, "confidence") # None
  BY ScoreMoved DEF ScoreRefuted
<1>2. /\ Field(b, o.key, "confidence") = Field(before, o.key, "confidence")
      /\ Field(a, o.key, "confidence") = Field(after, o.key, "confidence")
  BY <1>1, CompletedShape DEF Fields
<1>3. QED
  BY <1>2, ScoreAsExpected

(* A delta refutes an outcome only if no way of filling in what the        *)
(* pipeline left open makes the snapshots show it.                         *)
THEOREM RefutedOutcome ==
    ASSUME NEW before, NEW after, IsSnapshot(before), IsSnapshot(after),
           Delta(before, after) # None, NEW o \in Outcome,
           OutcomeStatus(o, Delta(before, after)) = "unsatisfied"
    PROVE  ~CouldHold(o, before, after)
<1> DEFINE key == o.key
           change == Change(before, after, key)
           incomplete == Incomplete(Delta(before, after), key)
<1>1. /\ key \notin Changed(before, after) => ~incomplete
      /\ key \in Changed(before, after) => Refuted(o, change, incomplete)
  BY DEF OutcomeStatus, Delta
<1>2. ~Holds(o, before, after)
  BY SatisfiedOutcome
<1>3. ~(IsNode(key) /\ ~(before.tree /\ after.tree))
  BY <1>1 DEF Changed, Compared, Incomplete, TreeMissing, Delta
<1>4. SUFFICES ASSUME NEW b \in Completed(before, key), NEW a \in Completed(after, key),
                      Holds(o, b, a)
               PROVE  FALSE
  BY <1>3 DEF CouldHold
<1>5. /\ Here(b, key) = Here(before, key) /\ b.tree = before.tree
      /\ Here(a, key) = Here(after, key) /\ a.tree = after.tree
  BY CompletedShape
<1>6. CASE ~incomplete
  <2>1. /\ Here(before, key) => ~ItemIncomplete(key, before.items[key])
        /\ Here(after, key) => ~ItemIncomplete(key, after.items[key])
    <3>1. CASE IsNode(key)
      BY <3>1 DEF IsNode, ItemIncomplete
    <3>2. CASE ~IsNode(key)
      BY <1>6, <3>2 DEF Incomplete, IncompleteIn, Delta, Here
    <3>3. QED
      BY <3>1, <3>2
  <2>2. /\ Here(before, key) => b.items[key] = before.items[key]
        /\ Here(after, key) => a.items[key] = after.items[key]
    BY <2>1, CompletedShape
  <2>3. /\ Shows(b, key, o.before) <=> Shows(before, key, o.before)
        /\ Shows(a, key, o.after) <=> Shows(after, key, o.after)
    BY <1>5, <2>2 DEF Shows, Field
  <2>4. Holds(o, before, after)
    BY <1>4, <1>5, <2>2, <2>3, OutcomeShape DEF Holds, Field
  <2>5. QED
    BY <1>2, <2>4
<1>7. CASE incomplete
  <2>1. key \in Changed(before, after) /\ Refuted(o, change, incomplete)
    BY <1>1, <1>7
  <2>2. Here(before, key) \/ Here(after, key)
    BY <2>1 DEF Changed, Compared, Here
  <2>3. change.type = DeltaType[o.expected]
    BY <1>4, <1>5, <2>2, TypeTells DEF Holds, Change
  <2>4. \/ ~Agrees(o.before, change.before) /\ ~Lacks(o.before, change.before)
        \/ ~Agrees(o.after, change.after) /\ ~Lacks(o.after, change.after)
        \/ ScoreRefuted(o, ScoreDelta(change))
    BY <1>7, <2>1, <2>3 DEF Refuted
  <2>5. CASE ~Agrees(o.before, change.before) /\ ~Lacks(o.before, change.before)
    BY <1>4, <2>5, RefutedForGood, OutcomeShape DEF Holds, Change
  <2>6. CASE ~Agrees(o.after, change.after) /\ ~Lacks(o.after, change.after)
    BY <1>4, <2>6, RefutedForGood, OutcomeShape DEF Holds, Change
  <2>7. CASE ScoreRefuted(o, ScoreDelta(change))
    <3>1. AsksForScore(o)
      BY <2>7 DEF ScoreRefuted, AsksForScore
    <3>2. Here(before, key) /\ Here(after, key)
      BY <1>4, <1>5, <3>1, OutcomeShape DEF Holds, Here
    <3>3. QED
      BY <1>4, <2>7, <3>1, <3>2, ScoreRefutedForGood DEF Holds
  <2>8. QED
    BY <2>4, <2>5, <2>6, <2>7
<1>8. QED
  BY <1>6, <1>7

(***************************************************************************)
(* One attempt.                                                            *)
(***************************************************************************)
Statuses == {"satisfied", "unknown", "unsatisfied"}

(* The snapshots of an attempt are missing or well formed. *)
Sound(a) ==
    /\ a.before = None \/ IsSnapshot(a.before)
    /\ a.after = None \/ IsSnapshot(a.after)
    /\ a.before # None /\ a.after # None => Delta(a.before, a.after) # None

(* The branches are the primary one, unless it is empty, and the others;   *)
(* none of them is empty.                                                  *)
LEMMA BranchShape ==
    ASSUME NEW e \in Expectation
    PROVE  /\ \A i \in DOMAIN Branches(e) :
                 Branches(e)[i] \in SUBSET Outcome /\ Branches(e)[i] # {}
           /\ Branches(e) = <<>> <=> Unconditional(e)
           /\ \A branch : (\E i \in DOMAIN Branches(e) : Branches(e)[i] = branch)
                 <=> \/ e.primary # {} /\ branch = e.primary
                     \/ \E i \in DOMAIN e.alternates : branch = e.alternates[i]
<1> DEFINE alternates == e.alternates
           primary == e.primary
<1>1. primary \in SUBSET Outcome /\ alternates \in Seq((SUBSET Outcome) \ {{}})
  BY DEF Expectation
<1>2. Branches(e) = (IF primary = {} THEN <<>> ELSE <<primary>>) \o alternates
  BY DEF Branches
<1>3. Unconditional(e) <=> primary = {} /\ alternates = <<>>
  BY DEF Unconditional
<1> HIDE DEF alternates, primary
<1>4. \A i \in DOMAIN alternates : alternates[i] \in SUBSET Outcome /\ alternates[i] # {}
  <2> DEFINE Some == (SUBSET Outcome) \ {{}}
  <2>1. alternates \in Seq(Some)
    BY <1>1
  <2>2. \A branch \in Some : branch \in SUBSET Outcome /\ branch # {}
    OBVIOUS
  <2> HIDE DEF Some
  <2>3. DOMAIN alternates = 1 .. Len(alternates) /\ \A i \in 1 .. Len(alternates) : alternates[i] \in Some
    BY <2>1
  <2>4. QED
    BY <2>2, <2>3
<1>5. CASE primary = {}
  <2>1. Branches(e) = alternates
    BY <1>1, <1>2, <1>5
  <2>2. QED
    BY <1>3, <1>4, <1>5, <2>1 DEF primary, alternates
<1>6. CASE primary # {}
  <2>1. Branches(e) = <<primary>> \o alternates
    BY <1>2, <1>6
  <2>2. /\ DOMAIN Branches(e) = 1 .. Len(alternates) + 1
        /\ Branches(e)[1] = primary
        /\ \A i \in 1 .. Len(alternates) : Branches(e)[i + 1] = alternates[i]
        /\ DOMAIN alternates = 1 .. Len(alternates) /\ Len(alternates) \in Nat
    BY <1>1, <2>1
  <2>3. \A i \in DOMAIN Branches(e) :
            i = 1 \/ (i - 1 \in DOMAIN alternates /\ Branches(e)[i] = alternates[i - 1])
    <3> SUFFICES ASSUME NEW i \in DOMAIN Branches(e), i # 1
                 PROVE  i - 1 \in DOMAIN alternates /\ Branches(e)[i] = alternates[i - 1]
      OBVIOUS
    <3>1. i - 1 \in 1 .. Len(alternates) /\ i = (i - 1) + 1
      BY <2>2
    <3>2. QED
      BY <2>2, <3>1
  <2>4. 1 \in DOMAIN Branches(e) /\ \A i \in DOMAIN alternates :
            i + 1 \in DOMAIN Branches(e) /\ Branches(e)[i + 1] = alternates[i]
    BY <2>2
  <2>5. Branches(e) # <<>>
    BY <2>4
  <2>6. \A i \in DOMAIN Branches(e) : Branches(e)[i] \in SUBSET Outcome /\ Branches(e)[i] # {}
    BY <1>1, <1>4, <1>6, <2>2, <2>3
  <2>7. \A branch : (\E i \in DOMAIN Branches(e) : Branches(e)[i] = branch)
                 <=> \/ branch = primary
                     \/ \E i \in DOMAIN alternates : branch = alternates[i]
    BY <2>2, <2>3, <2>4
  <2>8. QED
    BY <1>3, <1>6, <2>5, <2>6, <2>7 DEF primary, alternates
<1>7. QED
  BY <1>5, <1>6

(* A branch is satisfied if all of its outcomes are there, and refuted     *)
(* only if one of them could not be.                                       *)
LEMMA BranchDecided ==
    ASSUME NEW before, NEW after, IsSnapshot(before), IsSnapshot(after),
           Delta(before, after) # None, NEW branch \in SUBSET Outcome
    PROVE  LET status == BranchStatus(branch, Delta(before, after))
           IN  /\ status \in Statuses
               /\ status = "satisfied" <=> \A o \in branch : Holds(o, before, after)
               /\ status = "unsatisfied" => \E o \in branch : ~CouldHold(o, before, after)
<1> DEFINE delta == Delta(before, after)
           status == BranchStatus(branch, delta)
<1>1. \A o \in branch : OutcomeStatus(o, delta) \in Statuses
  BY DEF OutcomeStatus, Statuses
<1>2. \A o \in branch : OutcomeStatus(o, delta) = "satisfied" <=> Holds(o, before, after)
  BY SatisfiedOutcome
<1>3. \A o \in branch : OutcomeStatus(o, delta) = "unsatisfied" => ~CouldHold(o, before, after)
  BY RefutedOutcome
<1> HIDE DEF delta
<1>4. /\ status \in Statuses
      /\ status = "satisfied" <=> \A o \in branch : OutcomeStatus(o, delta) = "satisfied"
      /\ status = "unsatisfied" => \E o \in branch : OutcomeStatus(o, delta) = "unsatisfied"
  BY <1>1 DEF BranchStatus, Aggregate, Statuses
<1>5. QED
  BY <1>2, <1>3, <1>4 DEF delta

(* Without a delta nothing is known of a branch. *)
LEMMA BranchUnknown ==
    ASSUME NEW branch, branch # {}
    PROVE  BranchStatus(branch, None) = "unknown"
BY DEF BranchStatus, Aggregate, OutcomeStatus

(* The items that must be there are, and those that must not are not. *)
LEMMA ContradictedIsAbsent ==
    ASSUME NEW e, NEW after
    PROVE  Contradicted(e, after) <=> ~Present(e, after)
BY DEF Contradicted, Present, MissingCandidates, Unexpected, MissingNodes

(* What the status of an attempt is made of. *)
LEMMA AttemptShape ==
    ASSUME NEW e \in Expectation, NEW a, a.after # None
    PROVE  LET delta == IF a.before = None THEN None ELSE Delta(a.before, a.after)
               Some(status) == \E i \in DOMAIN Branches(e) :
                                   BranchStatus(Branches(e)[i], delta) = status
           IN  ResultOf(e, a).status =
                   IF ~Present(e, a.after) THEN "unsatisfied"
                   ELSE IF Unconditional(e) \/ Some("satisfied") THEN "satisfied"
                   ELSE IF Some("unknown") THEN "unknown" ELSE "unsatisfied"
<1> DEFINE delta == IF a.before = None THEN None ELSE Delta(a.before, a.after)
           statuses == BranchStatuses(e, delta)
<1>1. ResultOf(e, a).status = AttemptStatus(e, a.after, statuses)
  BY DEF ResultOf, AttemptResult, Available
<1>2. /\ DOMAIN statuses = DOMAIN Branches(e)
      /\ \A i \in DOMAIN Branches(e) : statuses[i] = BranchStatus(Branches(e)[i], delta)
  BY DEF BranchStatuses
<1>3. statuses = <<>> <=> Unconditional(e)
  BY BranchShape DEF BranchStatuses
<1>4. QED
  BY <1>1, <1>2, <1>3, ContradictedIsAbsent DEF AttemptStatus

(* An attempt is satisfied exactly if its two snapshots show, without any  *)
(* delta, what was expected.                                               *)
THEOREM SatisfiedAttempt ==
    ASSUME NEW e \in Expectation, NEW a, Sound(a)
    PROVE  ResultOf(e, a).status = "satisfied" <=> Meets(e, a)
<1>1. CASE a.after = None
  BY <1>1 DEF ResultOf, AttemptResult, Unavailable, Meets
<1>2. CASE a.after # None /\ a.before = None
  <2>1. \A i \in DOMAIN Branches(e) : BranchStatus(Branches(e)[i], None) = "unknown"
    BY BranchUnknown, BranchShape
  <2>2. ResultOf(e, a).status = "satisfied" <=> Present(e, a.after) /\ Unconditional(e)
    BY <1>2, <2>1, AttemptShape
  <2>3. QED
    BY <1>2, <2>2 DEF Meets, SomeBranch
<1>3. CASE a.after # None /\ a.before # None
  <2> DEFINE good(branch) == \A o \in branch : Holds(o, a.before, a.after)
  <2>1. \A i \in DOMAIN Branches(e) :
            BranchStatus(Branches(e)[i], Delta(a.before, a.after)) = "satisfied"
               <=> good(Branches(e)[i])
    BY <1>3, BranchDecided, BranchShape DEF Sound
  <2>2. ResultOf(e, a).status = "satisfied"
          <=> Present(e, a.after) /\ (Unconditional(e)
                                      \/ \E i \in DOMAIN Branches(e) : good(Branches(e)[i]))
    BY <1>3, <2>1, AttemptShape
  <2>3. (\E i \in DOMAIN Branches(e) : good(Branches(e)[i]))
          <=> \/ e.primary # {} /\ good(e.primary)
              \/ \E i \in DOMAIN e.alternates : good(e.alternates[i])
    <3> HIDE DEF good
    <3> QED
      BY BranchShape
  <2>4. Meets(e, a) <=> /\ Present(e, a.after)
                        /\ \/ Unconditional(e)
                           \/ e.primary # {} /\ good(e.primary)
                           \/ \E i \in DOMAIN e.alternates : good(e.alternates[i])
    BY <1>3 DEF Meets, SomeBranch
  <2>5. QED
    BY <2>2, <2>3, <2>4
<1>4. QED
  BY <1>1, <1>2, <1>3

(* An attempt is unsatisfied only if the expectation could not be met,     *)
(* whatever the items that the pipeline left incomplete really hold.       *)
THEOREM RefutedAttempt ==
    ASSUME NEW e \in Expectation, NEW a, Sound(a), ResultOf(e, a).status = "unsatisfied"
    PROVE  ~CouldMeet(e, a)
<1>1. a.after # None
  BY DEF ResultOf, AttemptResult, Unavailable
<1>2. CASE ~Present(e, a.after)
  BY <1>1, <1>2 DEF CouldMeet
<1>3. CASE Present(e, a.after)
  <2>1. ~Unconditional(e)
    BY <1>1, <1>3, AttemptShape
  <2>2. PICK i \in DOMAIN Branches(e) : TRUE
    BY <2>1, BranchShape
  <2>3. a.before # None
    <3>1. CASE a.before = None
      <4>1. BranchStatus(Branches(e)[i], None) = "unknown"
        BY BranchUnknown, BranchShape
      <4>2. QED
        BY <1>1, <1>3, <3>1, <4>1, AttemptShape
    <3>2. QED
      BY <3>1
  <2> DEFINE delta == Delta(a.before, a.after)
             could(branch) == \A o \in branch : CouldHold(o, a.before, a.after)
  <2>4. \A j \in DOMAIN Branches(e) :
            /\ BranchStatus(Branches(e)[j], delta) \in Statuses
            /\ BranchStatus(Branches(e)[j], delta) = "unsatisfied" => ~could(Branches(e)[j])
    BY <1>1, <2>3, BranchDecided, BranchShape DEF Sound
  <2>5. \A j \in DOMAIN Branches(e) : BranchStatus(Branches(e)[j], delta) = "unsatisfied"
    BY <1>1, <1>3, <2>3, <2>4, AttemptShape DEF Statuses
  <2>6. /\ e.primary # {} => ~could(e.primary)
        /\ \A j \in DOMAIN e.alternates : ~could(e.alternates[j])
    <3>1. \A j \in DOMAIN Branches(e) : ~could(Branches(e)[j])
      BY <2>4, <2>5
    <3> HIDE DEF could
    <3> QED
      BY <3>1, BranchShape
  <2>7. CouldMeet(e, a) => \/ e.primary # {} /\ could(e.primary)
                           \/ \E j \in DOMAIN e.alternates : could(e.alternates[j])
    BY <1>1, <2>1, <2>3 DEF CouldMeet, SomeBranch
  <2>8. QED
    BY <2>6, <2>7
<1>4. QED
  BY <1>2, <1>3

(***************************************************************************)
(* The window.                                                             *)
(***************************************************************************)
(* The attempts are numbered: no index twice, none above n. *)
Numbered(attempts, n) ==
    /\ \A a \in attempts : a.index \in 1 .. n
    /\ \A a, b \in attempts : a.index = b.index => a = b

(* The transition itself is attempt 1. *)
Started(attempts, n) ==
    Numbered(attempts, n) /\ \E a \in attempts : a.index = 1 /\ a.elapsed = 0

(* A set of natural numbers has a least one. *)
LEMMA Least ==
    ASSUME NEW S, S \subseteq Nat, S # {}
    PROVE  \E n \in S : \A m \in S : n <= m
<1> DEFINE R == {ss \in Nat \X Nat : ss[1] < ss[2]}
<1>1. IsWellFoundedOn(R, Nat)
  BY NatLessThanWellFounded DEF OpToRel
<1>2. PICK n \in S : \A m \in S : ~(<<m, n>> \in R)
  <2> HIDE DEF R
  <2> QED BY <1>1, WFMin, Zenon
<1>3. SUFFICES ASSUME NEW m \in S PROVE n <= m
  OBVIOUS
<1>4. n \in Nat /\ m \in Nat
  OBVIOUS
<1>5. ~(m < n)
  BY <1>2, <1>4
<1>6. QED
  BY <1>4, <1>5

(* The lowest and the highest attempt are attempts. *)
LEMMA LowestIs ==
    ASSUME NEW S, NEW n \in Nat, Numbered(S, n), S # {}
    PROVE  Lowest(S) \in S /\ \A b \in S : Lowest(S).index <= b.index
<1>1. {a.index : a \in S} \subseteq Nat /\ {a.index : a \in S} # {}
  BY DEF Numbered
<1>2. PICK m \in {a.index : a \in S} : \A i \in {a.index : a \in S} : m <= i
  BY <1>1, Least
<1>3. PICK a \in S : a.index = m
  BY <1>2
<1>4. \A b \in S : a.index <= b.index
  BY <1>2, <1>3
<1>5. QED
  BY <1>4 DEF Lowest

LEMMA HighestIs ==
    ASSUME NEW S, NEW n \in Nat, Numbered(S, n), S # {}
    PROVE  Highest(S) \in S /\ \A b \in S : b.index <= Highest(S).index
<1>1. {n - a.index : a \in S} \subseteq Nat /\ {n - a.index : a \in S} # {}
  BY DEF Numbered
<1>2. PICK m \in {n - a.index : a \in S} : \A i \in {n - a.index : a \in S} : m <= i
  BY <1>1, Least
<1>3. PICK a \in S : n - a.index = m
  BY <1>2
<1>4. \A b \in S : n - a.index <= n - b.index
  BY <1>2, <1>3
<1>5. \A b \in S : b.index <= a.index
  <2> SUFFICES ASSUME NEW b \in S PROVE b.index <= a.index
    OBVIOUS
  <2>1. a.index \in Nat /\ b.index \in Nat /\ n - a.index <= n - b.index
    BY <1>4 DEF Numbered
  <2>2. QED
    BY <2>1
<1>6. QED
  BY <1>5 DEF Highest

(* Numbered attempts are finitely many, no more than their numbers, and as *)
(* many only if every number is taken.                                     *)
LEMMA Counted ==
    ASSUME NEW S, NEW n \in Nat, Numbered(S, n)
    PROVE  /\ IsFiniteSet(S) /\ Cardinality(S) \in Nat /\ Cardinality(S) <= n
           /\ Cardinality(S) = n => \A i \in 1 .. n : \E a \in S : a.index = i
<1> DEFINE index == [a \in S |-> a.index]
<1>1. index \in Injection(S, 1 .. n)
  BY DEF Numbered, Injection, IsInjective
<1>2. IsFiniteSet(1 .. n) /\ Cardinality(1 .. n) = n
  BY FS_Interval
<1>3. /\ IsFiniteSet(S) /\ Cardinality(S) <= n
      /\ Cardinality(S) = n => index \in Surjection(S, 1 .. n)
  <2> HIDE DEF index
  <2> QED BY <1>1, <1>2, FS_Injection
<1>4. Cardinality(S) \in Nat
  BY <1>3, FS_CardinalityType
<1>5. index \in Surjection(S, 1 .. n) => \A i \in 1 .. n : \E a \in S : a.index = i
  BY DEF Surjection
<1>6. QED
  BY <1>3, <1>4, <1>5

LEMMA NumberedPart ==
    ASSUME NEW S, NEW n, Numbered(S, n), NEW T \in SUBSET S
    PROVE  Numbered(T, n)
BY DEF Numbered

(* The first attempt always counts. *)
LEMMA WindowShape ==
    ASSUME NEW e \in Expectation, NEW attempts, NEW n \in Nat, Started(attempts, n)
    PROVE  /\ Window(e, attempts) \subseteq attempts
           /\ Window(e, attempts) # {}
           /\ Numbered(Window(e, attempts), n)
<1>1. Window(e, attempts) \subseteq attempts
  BY DEF Window, InTime
<1>2. PICK a \in attempts : a.index = 1 /\ a.elapsed = 0
  BY DEF Started
<1>3. Bounded(e, "timeout") => e.timing.timeout \in Nat
  BY DEF Bounded, Expectation, Timing
<1>4. Bounded(e, "polls") => e.timing.polls \in Nat \ {0}
  BY DEF Bounded, Expectation, Timing
<1>5. a \in InTime(e, attempts)
  BY <1>2, <1>3 DEF InTime
<1>6. Earlier(InTime(e, attempts), a) = {}
  <2>1. \A b \in attempts : b.index \in 1 .. n
    BY DEF Started, Numbered
  <2>2. QED
    BY <1>2, <2>1 DEF Earlier, InTime
<1>7. a \in Window(e, attempts)
  BY <1>4, <1>5, <1>6, FS_EmptySet DEF Window
<1>8. QED
  BY <1>1, <1>7, NumberedPart DEF Started

(* The status of an attempt is one of three. *)
LEMMA ResultStatus ==
    ASSUME NEW e \in Expectation, NEW a
    PROVE  ResultOf(e, a).status \in Statuses
<1>1. CASE a.after = None
  BY <1>1 DEF ResultOf, AttemptResult, Unavailable, Statuses
<1>2. CASE a.after # None
  BY <1>2, AttemptShape DEF Statuses
<1>3. QED
  BY <1>1, <1>2

(* The chosen attempt is one of the window: the first satisfied one if     *)
(* there is any, and an unsatisfied one only if all are.                   *)
LEMMA ChosenShape ==
    ASSUME NEW e \in Expectation, NEW window, NEW n \in Nat, Numbered(window, n), window # {}
    PROVE  LET chosen == Chosen(e, window)
               status == ResultOf(e, chosen).status
           IN  /\ chosen \in window
               /\ WithStatus(e, window, "satisfied") # {} =>
                     /\ status = "satisfied"
                     /\ \A b \in WithStatus(e, window, "satisfied") : chosen.index <= b.index
               /\ status = "unsatisfied" =>
                     \A b \in window : ResultOf(e, b).status = "unsatisfied"
<1> DEFINE chosen == Chosen(e, window)
           satisfied == WithStatus(e, window, "satisfied")
           unknown == WithStatus(e, window, "unknown")
<1>1. Numbered(satisfied, n) /\ Numbered(unknown, n)
  BY NumberedPart DEF WithStatus
<1>2. CASE satisfied # {}
  <2>1. chosen = Lowest(satisfied)
    BY <1>2 DEF Chosen, Preferred
  <2>2. chosen \in satisfied /\ \A b \in satisfied : chosen.index <= b.index
    BY <1>1, <1>2, <2>1, LowestIs
  <2>3. QED
    BY <2>2 DEF WithStatus
<1>3. CASE satisfied = {} /\ unknown # {}
  <2>1. chosen = Highest(unknown)
    BY <1>3 DEF Chosen, Preferred
  <2>2. chosen \in unknown
    BY <1>1, <1>3, <2>1, HighestIs
  <2>3. QED
    BY <1>3, <2>2 DEF WithStatus
<1>4. CASE satisfied = {} /\ unknown = {}
  <2>1. chosen = Highest(window)
    BY <1>4 DEF Chosen, Preferred
  <2>2. chosen \in window
    BY <2>1, HighestIs
  <2>3. \A b \in window : ResultOf(e, b).status = "unsatisfied"
    BY <1>4, ResultStatus DEF WithStatus, Statuses
  <2>4. QED
    BY <1>4, <2>2, <2>3
<1>5. QED
  BY <1>2, <1>3, <1>4

(* The attempts up to a satisfied one are counted, and if the count does   *)
(* not fall short of its index none of them is missing.                    *)
LEMMA EvaluatedShape ==
    ASSUME NEW e \in Expectation, NEW window, NEW n \in Nat, Numbered(window, n), window # {}
    PROVE  LET chosen == Chosen(e, window)
               evaluated == Evaluated(e, window)
           IN  /\ chosen \in evaluated /\ evaluated \subseteq window
               /\ IsFiniteSet(evaluated) /\ Cardinality(evaluated) \in Nat \ {0}
               /\ ResultOf(e, chosen).status = "satisfied" =>
                     /\ evaluated = {a \in window : a.index <= chosen.index}
                     /\ chosen.index <= Cardinality(evaluated) =>
                           \A i \in 1 .. chosen.index : \E a \in evaluated : a.index = i
<1> DEFINE chosen == Chosen(e, window)
           evaluated == Evaluated(e, window)
<1>1. chosen \in window
  BY ChosenShape
<1>2. chosen.index \in Nat
  BY <1>1 DEF Numbered
<1>3. chosen \in evaluated /\ evaluated \subseteq window
  BY <1>1, <1>2 DEF Evaluated
<1>4. IsFiniteSet(evaluated) /\ Cardinality(evaluated) \in Nat
  BY <1>3, NumberedPart, Counted
<1>5. Cardinality(evaluated) # 0
  BY <1>3, <1>4, FS_EmptySet
<1>6. ASSUME ResultOf(e, chosen).status = "satisfied"
      PROVE  /\ evaluated = {a \in window : a.index <= chosen.index}
             /\ chosen.index <= Cardinality(evaluated) =>
                   \A i \in 1 .. chosen.index : \E a \in evaluated : a.index = i
  <2>1. chosen \in WithStatus(e, window, "satisfied")
    BY <1>1, <1>6 DEF WithStatus
  <2>2. evaluated = {a \in window : a.index <= chosen.index}
    BY <2>1 DEF Evaluated
  <2>3. Numbered(evaluated, chosen.index)
    BY <1>2, <2>2 DEF Numbered
  <2>4. /\ Cardinality(evaluated) <= chosen.index
        /\ Cardinality(evaluated) = chosen.index =>
              \A i \in 1 .. chosen.index : \E a \in evaluated : a.index = i
    BY <1>2, <2>3, Counted
  <2>5. QED
    BY <1>2, <1>4, <2>2, <2>4
<1>7. QED
  BY <1>3, <1>4, <1>5, <1>6

(* What a satisfied or an unsatisfied verdict says of the attempts.        *)
LEMMA VerdictShape ==
    ASSUME NEW e \in Expectation, NEW attempts, NEW n \in Nat, Started(attempts, n)
    PROVE  LET chosen == Chosen(e, Window(e, attempts))
               verdict_ == Verify(e, attempts)
           IN  /\ verdict_.status \in Statuses
               /\ verdict_.status # "unknown" =>
                     /\ verdict_ = Selection(e, attempts)
                     /\ IsResult(verdict_)
                     /\ verdict_.status = ResultOf(e, chosen).status
<1> DEFINE chosen == Chosen(e, Window(e, attempts))
<1>1. ResultOf(e, chosen).status \in Statuses
  BY ResultStatus
<1>2. Selection(e, attempts).status = Guarded(e, attempts, ResultOf(e, chosen).status)
  BY DEF Selection, Finalized
<1>3. /\ Selection(e, attempts).status \in Statuses
      /\ Selection(e, attempts).status # "unknown" =>
            Selection(e, attempts).status = ResultOf(e, chosen).status
  BY <1>1, <1>2 DEF Guarded, Statuses
<1>4. CASE IsResult(Selection(e, attempts))
  BY <1>3, <1>4 DEF Verify, Checked
<1>5. CASE ~IsResult(Selection(e, attempts))
  BY <1>5 DEF Verify, Checked, Unavailable, Statuses
<1>6. QED
  BY <1>4, <1>5

(***************************************************************************)
(* Verdicts.                                                               *)
(***************************************************************************)
(* A satisfied verdict is about the first attempt that meets the           *)
(* expectation, and no attempt before it is missing.                       *)
LEMMA SatisfiedVerdict ==
    ASSUME NEW e \in Expectation, NEW attempts, NEW n \in Nat, Started(attempts, n),
           \A a \in attempts : Sound(a),
           Verify(e, attempts).status = "satisfied"
    PROVE  LET chosen == Chosen(e, Window(e, attempts))
           IN  /\ chosen \in Window(e, attempts)
               /\ Verify(e, attempts).index = chosen.index
               /\ Meets(e, chosen)
               /\ Bounded(e, "polls") => chosen.index <= e.timing.polls
               /\ \A i \in 1 .. chosen.index : \E a \in Window(e, attempts) : a.index = i
               /\ \A b \in attempts : b.index < chosen.index => ~Meets(e, b)
<1> DEFINE window == Window(e, attempts)
           chosen == Chosen(e, window)
           evaluated == Evaluated(e, window)
<1>1. window \subseteq attempts /\ window # {} /\ Numbered(window, n)
  BY WindowShape
<1>2. chosen \in window
  BY <1>1, ChosenShape
<1>3. /\ Verify(e, attempts) = Selection(e, attempts)
      /\ IsResult(Selection(e, attempts)) /\ ResultOf(e, chosen).status = "satisfied"
  BY VerdictShape
<1>4. /\ Verify(e, attempts).index = chosen.index
      /\ chosen.index <= Cardinality(evaluated)
  BY <1>3 DEF Selection, Finalized, IsResult
<1>5. /\ evaluated = {a \in window : a.index <= chosen.index}
      /\ IsFiniteSet(evaluated)
      /\ Cardinality(evaluated) \in Nat
      /\ \A i \in 1 .. chosen.index : \E a \in evaluated : a.index = i
  BY <1>1, <1>3, <1>4, EvaluatedShape
<1>6. chosen.index \in 1 .. n /\ \A a \in attempts : a.index \in 1 .. n
  BY <1>1, <1>2 DEF Numbered, Started
<1>7. Meets(e, chosen)
  BY <1>1, <1>2, <1>3, SatisfiedAttempt
<1>8. Bounded(e, "polls") => chosen.index <= e.timing.polls
  <2> SUFFICES ASSUME Bounded(e, "polls") PROVE chosen.index <= e.timing.polls
    OBVIOUS
  <2> DEFINE earlier == Earlier(InTime(e, attempts), chosen)
  <2>1. e.timing.polls \in Nat
    BY DEF Bounded, Expectation, Timing
  <2>2. Cardinality(earlier) < e.timing.polls
    BY <1>2 DEF Window
  <2>3. earlier \subseteq attempts
    BY DEF Earlier, InTime
  <2>4. IsFiniteSet(earlier) /\ Cardinality(earlier) \in Nat
    BY <2>3, NumberedPart, Counted DEF Started
  <2>5. evaluated \subseteq earlier \cup {chosen}
    <3>1. \A a \in evaluated : a.index < chosen.index \/ a = chosen
      BY <1>1, <1>2, <1>5, <1>6 DEF Numbered
    <3>2. evaluated \subseteq InTime(e, attempts)
      BY <1>5 DEF Window
    <3>3. QED
      BY <3>1, <3>2 DEF Earlier
  <2>6. /\ IsFiniteSet(earlier \cup {chosen})
        /\ Cardinality(earlier \cup {chosen}) <= Cardinality(earlier) + 1
        /\ Cardinality(earlier \cup {chosen}) \in Nat
    <3> HIDE DEF earlier
    <3>1. /\ IsFiniteSet(earlier \cup {chosen})
          /\ Cardinality(earlier \cup {chosen}) =
                IF chosen \in earlier THEN Cardinality(earlier) ELSE Cardinality(earlier) + 1
      BY <2>4, FS_AddElement
    <3>2. QED
      BY <2>4, <3>1
  <2>7. Cardinality(evaluated) <= Cardinality(earlier \cup {chosen})
    BY <2>5, <2>6, FS_Subset
  <2>8. QED
    BY <1>4, <1>5, <1>6, <2>1, <2>2, <2>4, <2>6, <2>7
<1>9. ASSUME NEW b \in attempts, b.index < chosen.index
      PROVE  ~Meets(e, b)
  <2>1. b.index \in 1 .. chosen.index
    BY <1>6, <1>9
  <2>2. PICK a \in evaluated : a.index = b.index
    BY <1>5, <2>1
  <2>3. b \in window
    BY <1>1, <1>5, <2>2 DEF Started, Numbered
  <2>4. chosen \in WithStatus(e, window, "satisfied")
    BY <1>2, <1>3 DEF WithStatus
  <2>5. b \notin WithStatus(e, window, "satisfied")
    BY <1>1, <1>6, <1>9, <2>4, ChosenShape
  <2>6. QED
    BY <1>9, <2>3, <2>5, SatisfiedAttempt DEF WithStatus
<1>10. QED
  BY <1>2, <1>4, <1>5, <1>7, <1>8, <1>9

(* An unsatisfied verdict refutes every attempt of the window. *)
LEMMA UnsatisfiedVerdict ==
    ASSUME NEW e \in Expectation, NEW attempts, NEW n \in Nat, Started(attempts, n),
           \A a \in attempts : Sound(a),
           Verify(e, attempts).status = "unsatisfied"
    PROVE  \A a \in Window(e, attempts) : ~CouldMeet(e, a)
<1> DEFINE window == Window(e, attempts)
<1>1. window \subseteq attempts /\ window # {} /\ Numbered(window, n)
  BY WindowShape
<1>2. ResultOf(e, Chosen(e, window)).status = "unsatisfied"
  BY VerdictShape
<1>3. \A a \in window : ResultOf(e, a).status = "unsatisfied"
  BY <1>1, <1>2, ChosenShape
<1>4. QED
  BY <1>1, <1>3, RefutedAttempt

(* One more attempt, with a higher number than the one a satisfied verdict *)
(* is about, does not change the verdict.                                  *)
LEMMA LaterAttempt ==
    ASSUME NEW e \in Expectation, NEW attempts, NEW n \in Nat, NEW p,
           Started(attempts, n), Numbered(attempts \cup {p}, n), p \notin attempts,
           \A a \in attempts : Sound(a),
           Verify(e, attempts).status = "satisfied"
    PROVE  Verify(e, attempts \cup {p}) = Verify(e, attempts)
<1> DEFINE more == attempts \cup {p}
           window == Window(e, attempts)
           wider == Window(e, more)
           chosen == Chosen(e, window)
           satisfied == WithStatus(e, window, "satisfied")
           wider_satisfied == WithStatus(e, wider, "satisfied")
<1>1. /\ window \subseteq attempts /\ window # {} /\ Numbered(window, n)
      /\ chosen \in window
      /\ \A i \in 1 .. chosen.index : \E a \in window : a.index = i
  BY WindowShape, SatisfiedVerdict
<1>2. /\ Verify(e, attempts) = Selection(e, attempts)
      /\ IsResult(Selection(e, attempts)) /\ ResultOf(e, chosen).status = "satisfied"
  BY VerdictShape
<1>3. \A a \in more : a.index \in 1 .. n
  BY DEF Numbered
<1>4. chosen.index < p.index
  <2>1. p.index \notin 1 .. chosen.index
    BY <1>1 DEF Numbered
  <2>2. p.index \in 1 .. n /\ chosen.index \in 1 .. n
    BY <1>1, <1>3
  <2>3. QED
    BY <2>1, <2>2
<1>5. \A a \in more : a.index <= chosen.index => (a \in wider <=> a \in window)
  <2> SUFFICES ASSUME NEW a \in more, a.index <= chosen.index
               PROVE  a \in wider <=> a \in window
    OBVIOUS
  <2>1. a # p
    BY <1>1, <1>3, <1>4
  <2>2. a \in InTime(e, more) <=> a \in InTime(e, attempts)
    BY <2>1 DEF InTime
  <2>3. Earlier(InTime(e, more), a) = Earlier(InTime(e, attempts), a)
    <3>1. ~(p.index < a.index)
      BY <1>1, <1>3, <1>4
    <3>2. QED
      BY <3>1 DEF Earlier, InTime
  <2>4. QED
    BY <2>2, <2>3 DEF Window
<1>6. Started(more, n)
  BY DEF Started
<1>7. wider \subseteq more /\ wider # {} /\ Numbered(wider, n)
  BY <1>6, WindowShape
<1>8. chosen \in wider_satisfied /\ chosen \in satisfied
  <2>1. chosen \in more /\ chosen.index <= chosen.index
    BY <1>1, <1>3
  <2>2. QED
    BY <1>1, <1>2, <1>5, <2>1 DEF WithStatus
<1>9. /\ Chosen(e, wider) \in wider /\ ResultOf(e, Chosen(e, wider)).status = "satisfied"
      /\ Chosen(e, wider).index <= chosen.index
  BY <1>7, <1>8, ChosenShape
<1>10. Chosen(e, wider) = chosen
  <2>1. Chosen(e, wider) \in window
    BY <1>5, <1>7, <1>9
  <2>2. chosen.index <= Chosen(e, wider).index
    BY <1>1, <1>8, <1>9, <2>1, ChosenShape DEF WithStatus
  <2>3. Chosen(e, wider).index = chosen.index
    BY <1>1, <1>3, <1>9, <2>1, <2>2
  <2>4. QED
    BY <1>1, <2>1, <2>3 DEF Numbered
<1>11. Evaluated(e, wider) = Evaluated(e, window)
  <2>1. Evaluated(e, wider) = {a \in wider : a.index <= chosen.index}
    BY <1>8, <1>10 DEF Evaluated
  <2>2. Evaluated(e, window) = {a \in window : a.index <= chosen.index}
    BY <1>8 DEF Evaluated
  <2>3. QED
    BY <1>1, <1>5, <1>7, <2>1, <2>2
<1>12. /\ Guarded(e, more, "satisfied") = "satisfied"
       /\ Guarded(e, attempts, "satisfied") = "satisfied"
  BY DEF Guarded
<1>13. Selection(e, more) = Selection(e, attempts)
  BY <1>2, <1>10, <1>11, <1>12 DEF Selection, Finalized
<1>14. QED
  BY <1>2, <1>13 DEF Verify, Checked

(* The indices of the branches count from 1. *)
LEMMA BranchIndices ==
    ASSUME NEW e \in Expectation
    PROVE  \E m \in Nat : /\ DOMAIN Branches(e) = 1 .. m
                          /\ e.primary # {} => m > 0 /\ Branches(e)[1] = e.primary
<1> DEFINE alternates == e.alternates
           primary == e.primary
<1>1. primary \in SUBSET Outcome /\ alternates \in Seq((SUBSET Outcome) \ {{}})
  BY DEF Expectation
<1>2. Branches(e) = (IF primary = {} THEN <<>> ELSE <<primary>>) \o alternates
  BY DEF Branches
<1> HIDE DEF alternates, primary
<1>3. CASE primary = {}
  <2>1. Branches(e) = alternates
    BY <1>1, <1>2, <1>3
  <2>2. DOMAIN Branches(e) = 1 .. Len(alternates) /\ Len(alternates) \in Nat
    BY <1>1, <2>1
  <2>3. QED
    BY <1>3, <2>2 DEF primary
<1>4. CASE primary # {}
  <2>1. Branches(e) = <<primary>> \o alternates
    BY <1>2, <1>4
  <2>2. /\ DOMAIN Branches(e) = 1 .. Len(alternates) + 1 /\ Len(alternates) + 1 \in Nat
        /\ Branches(e)[1] = primary /\ Len(alternates) + 1 > 0
    BY <1>1, <2>1
  <2>3. QED
    BY <2>2 DEF primary
<1>5. QED
  BY <1>3, <1>4

(* The selected branch is a branch. *)
LEMMA SelectedIs ==
    ASSUME NEW statuses, NEW m \in Nat \ {0}, DOMAIN statuses = 1 .. m
    PROVE  Selected(statuses) \in 1 .. m
<1>1. ASSUME NEW status, \E i \in 1 .. m : statuses[i] = status
      PROVE  FirstWith(statuses, status) \in 1 .. m
  <2> DEFINE S == {i \in 1 .. m : statuses[i] = status}
  <2>1. S \subseteq Nat /\ S # {}
    BY <1>1
  <2>2. PICK i \in S : \A j \in S : i <= j
    <3> HIDE DEF S
    <3> QED BY <2>1, Least
  <2>3. i \in 1 .. m /\ statuses[i] = status
    BY <2>2
  <2>4. \A j \in 1 .. i - 1 : statuses[j] # status
    <3>1. \A j \in 1 .. i - 1 : j \in 1 .. m /\ ~(i <= j)
      BY <2>3
    <3>2. QED
      BY <2>2, <3>1
  <2>5. QED
    BY <2>3, <2>4 DEF FirstWith
<1>2. CASE statuses = <<>>
  <2>1. FALSE
    BY <1>2
  <2>2. QED
    BY <2>1
<1>3. CASE statuses # <<>>
  BY <1>1, <1>3 DEF Selected
<1>4. QED
  BY <1>2, <1>3

(* Every explanation that casts doubt keeps the plan from giving up, so an *)
(* aborted recovery is about one attempt whose primary outcomes were       *)
(* observed or seen in full.                                               *)
LEMMA AbortedVerdict ==
    ASSUME NEW e \in Expectation, NEW attempts, NEW n \in Nat, Started(attempts, n),
           \A a \in attempts : Sound(a),
           NEW start \in attempts, start.index = 1,
           RecoveryPlan(e, start, Verify(e, attempts)) = "aborted"
    PROVE  /\ Verify(e, attempts).count = 1 /\ start.after # None
           /\ \A outcome \in e.primary :
                 /\ start.before # None
                 /\ \/ Holds(outcome, start.before, start.after)
                    \/ ~Incomplete(Delta(start.before, start.after), outcome.key)
<1> DEFINE result == Verify(e, attempts)
           window == Window(e, attempts)
           chosen == Chosen(e, window)
           found == ResultCategories(e, start, result)
<1>1. result.status \in Statuses
  BY VerdictShape
<1>2. /\ result.status = "unsatisfied"
      /\ TaxonomyCategories(e, start, result) \cap Doubtful = {}
  <2>1. CASE result.status = "satisfied"
    BY <2>1 DEF RecoveryPlan
  <2>2. CASE \/ result.status = "unknown"
             \/ TaxonomyCategories(e, start, result) \cap Doubtful # {}
    <3>1. result.status # "satisfied" => RecoveryPlan(e, start, result) = "retry"
      BY <2>2 DEF RecoveryPlan
    <3>2. QED
      BY <2>1, <3>1
  <2>3. QED
    BY <1>1, <2>1, <2>2 DEF Statuses
<1>3. OutcomeCategories(e, start, result) \cap Doubtful = {} /\ found \cap Doubtful = {}
  <2>1. TaxonomyCategories(e, start, result) = OutcomeCategories(e, start, result) \cup found
    BY <1>2 DEF TaxonomyCategories
  <2>2. QED
    BY <1>2, <2>1
<1>4. Remark(result) \in Doubtful
  BY <1>2 DEF Remark, Doubtful
<1>5. /\ result = Selection(e, attempts) /\ IsResult(result)
      /\ ResultOf(e, chosen).status = "unsatisfied"
  BY <1>2, VerdictShape
<1>6. window \subseteq attempts /\ window # {} /\ Numbered(window, n)
  BY WindowShape
<1>7. chosen \in window /\ Cardinality(Evaluated(e, window)) \in Nat \ {0}
  BY <1>6, ChosenShape, EvaluatedShape
<1>8. result.count = Cardinality(Evaluated(e, window)) /\ result.index = chosen.index
  BY <1>5 DEF Selection, Finalized
<1>9. result.count = 1
  <2>1. ~(result.count > 1)
    BY <1>3, <1>4 DEF ResultCategories
  <2>2. QED
    BY <1>7, <1>8, <2>1
<1>10. chosen = start
  <2>1. chosen.index \in 1 .. n /\ chosen.index <= 1
    BY <1>5, <1>6, <1>7, <1>8, <1>9 DEF IsResult, Numbered
  <2>2. chosen.index = start.index
    BY <2>1
  <2>3. QED
    BY <1>6, <1>7, <2>2 DEF Started, Numbered
<1>11. start.after # None
  <2>1. "missing_input" \in Doubtful
    BY DEF Doubtful
  <2>2. QED
    BY <1>3, <2>1 DEF ResultCategories
<1>12. ASSUME NEW outcome \in e.primary
       PROVE  /\ start.before # None
              /\ \/ Holds(outcome, start.before, start.after)
                 \/ ~Incomplete(Delta(start.before, start.after), outcome.key)
  <2> DEFINE delta == IF start.before = None THEN None ELSE Delta(start.before, start.after)
             statuses == BranchStatuses(e, delta)
  <2>1. result.delta = delta /\ result.branch = Selected(statuses)
    BY <1>5, <1>10, <1>11 DEF Selection, Finalized, ResultOf, AttemptResult, Available
  <2>2. Branches(e)[1] = e.primary
    BY <1>12, BranchIndices
  <2>3. ~(result.branch > 0 /\ (result.branch > 1 \/ e.primary = {}))
    BY <1>3, <1>4 DEF ResultCategories
  <2>4. result.branch \in Nat \ {0}
    <3>1. PICK m \in Nat : DOMAIN Branches(e) = 1 .. m /\ m > 0
      BY <1>12, BranchIndices
    <3>2. DOMAIN statuses = 1 .. m
      BY <3>1 DEF BranchStatuses
    <3>3. Selected(statuses) \in 1 .. m
      <4> HIDE DEF statuses
      <4> QED BY <3>1, <3>2, SelectedIs
    <3>4. QED
      BY <2>1, <3>3
  <2>5. result.branch = 1
    BY <2>3, <2>4
  <2>6. SelectedOutcomes(e, result) = e.primary
    BY <2>2, <2>5 DEF SelectedOutcomes
  <2>7. OutcomeCategory(e, start, result, outcome) \notin Doubtful
    BY <1>3, <2>6 DEF OutcomeCategories
  <2>8. start.before # None
    <3>1. "missing_input" \in Doubtful
      BY DEF Doubtful
    <3>2. QED
      BY <1>3, <1>12, <2>6, <3>1 DEF ResultCategories
  <2>9. /\ IsSnapshot(start.before) /\ IsSnapshot(start.after)
        /\ Delta(start.before, start.after) # None
        /\ result.delta = Delta(start.before, start.after)
    BY <1>11, <2>1, <2>8 DEF Sound
  <2>10. outcome \in Outcome
    BY DEF Expectation
  <2>11. CASE OutcomeStatus(outcome, result.delta) = "satisfied"
    BY <2>8, <2>9, <2>10, <2>11, SatisfiedOutcome
  <2>12. CASE OutcomeStatus(outcome, result.delta) # "satisfied"
    <3>1. ~Incomplete(result.delta, outcome.key)
      BY <1>11, <2>7, <2>8, <2>9, <2>12 DEF OutcomeCategory, Doubtful
    <3>2. QED
      BY <2>8, <2>9, <3>1
  <2>13. QED
    BY <2>11, <2>12
<1>13. QED
  BY <1>9, <1>11, <1>12

(***************************************************************************)
(* The run.                                                                *)
(***************************************************************************)
(* The attempts are numbered from the transition on, polls on their way    *)
(* included; they share its before snapshot; and the verdict is the one    *)
(* verify() gives for the attempts that are in.                            *)
Shape ==
    /\ case \in Cases /\ taken \in Nat
    /\ first.index = 1 /\ first.elapsed = 0
    /\ first.before \in Snapshots /\ first.after \in Snapshots
    /\ \A p \in transit \cup polls :
          /\ p.index \in 2 .. taken + 1
          /\ p.before = first.before /\ p.after \in Snapshots
    /\ \A p, q \in transit \cup polls : p.index = q.index => p = q
    /\ transit \cap polls = {}
    /\ verdict = Verify(case.expectation, Attempts)

(* What the lemmas on verdicts ask for. *)
LEMMA ShapeGives ==
    ASSUME Shape
    PROVE  /\ case.expectation \in Expectation
           /\ taken + 1 \in Nat
           /\ Started(Attempts, taken + 1)
           /\ Numbered(Attempts \cup transit, taken + 1)
           /\ first \in Attempts /\ first.index = 1
           /\ \A a \in Attempts : Sound(a)
<1>1. case.expectation \in Expectation /\ taken \in Nat /\ taken + 1 \in Nat
  BY CasesAssumption DEF Shape
<1>2. \A s \in Snapshots : s = None \/ (s \in case.snapshots /\ s # None /\ IsSnapshot(s))
  BY CasesAssumption DEF Snapshots, Shape
<1>3. \A before, after \in case.snapshots : Delta(before, after) # None
  BY CasesAssumption DEF Shape
<1>4. \A a \in Attempts : a.before \in Snapshots /\ a.after \in Snapshots
  BY DEF Attempts, Shape
<1>5. \A a \in Attempts : Sound(a)
  BY <1>2, <1>3, <1>4 DEF Sound
<1>6. Numbered(Attempts \cup transit, taken + 1)
  <2>1. \A a \in transit \cup polls : a.index \in 2 .. taken + 1 /\ a.index # 1
    BY <1>1 DEF Shape
  <2>2. 1 \in 1 .. taken + 1 /\ \A i \in 2 .. taken + 1 : i \in 1 .. taken + 1
    BY <1>1
  <2>3. QED
    BY <2>1, <2>2 DEF Numbered, Attempts, Shape
<1>7. Started(Attempts, taken + 1)
  <2>1. Numbered(Attempts, taken + 1)
    BY <1>6, NumberedPart
  <2>2. first \in Attempts /\ first.index = 1 /\ first.elapsed = 0
    BY DEF Attempts, Shape
  <2>3. QED
    BY <2>1, <2>2 DEF Started
<1>8. QED
  BY <1>1, <1>5, <1>6, <1>7 DEF Attempts, Shape

LEMMA ShapeInit == Init => Shape
<1> SUFFICES ASSUME Init PROVE Shape
  OBVIOUS
<1>1. PICK before \in Snapshots, after \in Snapshots : first = Attempt(1, 0, before, after)
  BY DEF Init
<1>2. /\ first.index = 1 /\ first.elapsed = 0
      /\ first.before \in Snapshots /\ first.after \in Snapshots
  BY <1>1 DEF Attempt
<1>3. QED
  BY <1>2 DEF Init, Shape

LEMMA ShapeNext == Shape /\ [Next]_vars => Shape'
<1> SUFFICES ASSUME Shape, [Next]_vars PROVE Shape'
  OBVIOUS
<1>1. ASSUME NEW after \in Snapshots, Poll(after)
      PROVE  Shape'
  <2>1. PICK elapsed \in {taken + 1, None} :
            transit' = transit \cup {Attempt(taken + 2, elapsed, first.before, after)}
    BY <1>1 DEF Poll
  <2> DEFINE poll == Attempt(taken + 2, elapsed, first.before, after)
  <2>2. poll.index = taken + 2 /\ poll.before = first.before /\ poll.after = after
    BY DEF Attempt
  <2>3. /\ taken' = taken + 1 /\ transit' = transit \cup {poll}
        /\ case' = case /\ first' = first /\ polls' = polls /\ verdict' = verdict
    BY <1>1, <2>1 DEF Poll
  <2>4. Snapshots' = Snapshots /\ Attempts' = Attempts
    BY <2>3 DEF Snapshots, Attempts
  <2>5. taken \in Nat
    BY DEF Shape
  <2> HIDE DEF poll
  <2>6. \A p \in transit \cup polls : p.index \in 2 .. taken + 1
    BY DEF Shape
  <2>7. \A p \in transit \cup polls : p.index \in 2 .. taken' + 1 /\ p.index # taken + 2
    <3>1. \A i \in 2 .. taken + 1 : i \in 2 .. (taken + 1) + 1 /\ i # taken + 2
      BY <2>5
    <3>2. QED
      BY <2>3, <2>6, <3>1
  <2>8. poll.index \in 2 .. taken' + 1 /\ taken' \in Nat
    BY <2>2, <2>3, <2>5
  <2>9. poll \notin transit \cup polls
    BY <2>2, <2>7
  <2>10. \A p \in (transit \cup polls)' :
            /\ p.index \in 2 .. taken' + 1
            /\ p.before = first.before /\ p.after \in Snapshots
    BY <1>1, <2>2, <2>3, <2>7, <2>8 DEF Shape
  <2>11. \A p, q \in (transit \cup polls)' : p.index = q.index => p = q
    BY <2>2, <2>3, <2>7 DEF Shape
  <2>12. transit' \cap polls' = {}
    BY <2>3, <2>9 DEF Shape
  <2>13. QED
    BY <2>3, <2>4, <2>8, <2>10, <2>11, <2>12 DEF Shape
<1>2. ASSUME NEW poll \in transit, Arrive(poll)
      PROVE  Shape'
  <2>1. /\ transit' = transit \ {poll} /\ polls' = polls \cup {poll}
        /\ verdict' = Verify(case.expectation, Attempts \cup {poll})
        /\ case' = case /\ first' = first /\ taken' = taken
    BY <1>2 DEF Arrive
  <2>2. Snapshots' = Snapshots /\ Attempts' = Attempts \cup {poll}
    BY <2>1 DEF Snapshots, Attempts
  <2>3. (transit \cup polls)' = transit \cup polls /\ transit' \cap polls' = {}
    BY <1>2, <2>1 DEF Shape
  <2>4. QED
    BY <2>1, <2>2, <2>3 DEF Shape
<1>3. ASSUME NEW poll \in transit, Lose(poll)
      PROVE  Shape'
  <2>1. /\ transit' = transit \ {poll} /\ polls' = polls
        /\ verdict' = verdict /\ case' = case /\ first' = first /\ taken' = taken
    BY <1>3 DEF Lose
  <2>2. Snapshots' = Snapshots /\ Attempts' = Attempts
    BY <2>1 DEF Snapshots, Attempts
  <2>3. QED
    BY <2>1, <2>2 DEF Shape
<1>4. CASE UNCHANGED vars
  <2>1. /\ transit' = transit /\ polls' = polls /\ verdict' = verdict
        /\ case' = case /\ first' = first /\ taken' = taken
    BY <1>4 DEF vars
  <2>2. Snapshots' = Snapshots /\ Attempts' = Attempts
    BY <2>1 DEF Snapshots, Attempts
  <2>3. QED
    BY <2>1, <2>2 DEF Shape
<1>5. QED
  BY <1>1, <1>2, <1>3, <1>4 DEF Next

(* The verdict is always that of the attempts that are in. *)
THEOREM ShapeAlways == Spec => []Shape
BY ShapeInit, ShapeNext, PTL DEF Spec

(* A satisfied verdict rests on the first attempt that shows the expected  *)
(* change, in time and among the first that count.                         *)
THEOREM Seen == Spec => []SatisfiedIsSeen
<1>1. Shape => SatisfiedIsSeen
  <2> SUFFICES ASSUME Shape, verdict.status = "satisfied"
               PROVE  SatisfiedIsSeen
    BY DEF SatisfiedIsSeen
  <2> DEFINE e == case.expectation
             chosen == Chosen(e, Window(e, Attempts))
  <2>1. /\ chosen \in Window(e, Attempts) /\ verdict.index = chosen.index /\ Meets(e, chosen)
        /\ Bounded(e, "polls") => chosen.index <= e.timing.polls
        /\ \A b \in Attempts : b.index < chosen.index => ~Meets(e, b)
    BY ShapeGives, SatisfiedVerdict DEF Shape
  <2>2. /\ chosen \in Attempts
        /\ Bounded(e, "timeout") /\ chosen.elapsed # None => chosen.elapsed <= e.timing.timeout
    BY <2>1 DEF Window, InTime
  <2>3. QED
    BY <2>1, <2>2 DEF SatisfiedIsSeen
<1>2. QED
  BY <1>1, ShapeAlways, PTL

(* An unsatisfied verdict is no guess. *)
THEOREM Definite == Spec => []UnsatisfiedIsDefinite
<1>1. Shape => UnsatisfiedIsDefinite
  BY ShapeGives, UnsatisfiedVerdict DEF Shape, UnsatisfiedIsDefinite
<1>2. QED
  BY <1>1, ShapeAlways, PTL

(* Recovery gives up only on what was seen in full. *)
THEOREM GivenUp == Spec => []AbortOnFullSight
<1>1. Shape => AbortOnFullSight
  <2> SUFFICES ASSUME Shape, Plan = "aborted"
               PROVE  AbortOnFullSight
    BY DEF AbortOnFullSight
  <2>1. RecoveryPlan(case.expectation, first, Verify(case.expectation, Attempts)) = "aborted"
    BY DEF Plan, Shape
  <2>2. /\ Verify(case.expectation, Attempts).count = 1 /\ first.after # None
        /\ \A outcome \in case.expectation.primary :
              /\ first.before # None
              /\ \/ Holds(outcome, first.before, first.after)
                 \/ ~Incomplete(Delta(first.before, first.after), outcome.key)
    BY <2>1, ShapeGives, AbortedVerdict
  <2>3. QED
    BY <2>2 DEF Shape, AbortOnFullSight
<1>2. QED
  BY <1>1, ShapeAlways, PTL

(* A satisfied verdict is final, in whatever order later polls come in. *)
THEOREM Final == Spec => StaysSatisfied
<1>1. Shape /\ [Next]_vars => [verdict.status = "satisfied" => verdict' = verdict]_vars
  <2> SUFFICES ASSUME Shape, Next, verdict.status = "satisfied"
               PROVE  verdict' = verdict
    BY DEF vars
  <2>1. ASSUME NEW poll \in transit, Arrive(poll)
        PROVE  verdict' = verdict
    <3>1. /\ case.expectation \in Expectation /\ taken + 1 \in Nat
          /\ Started(Attempts, taken + 1)
          /\ Numbered(Attempts \cup transit, taken + 1)
          /\ \A a \in Attempts : Sound(a)
      BY ShapeGives
    <3>2. Numbered(Attempts \cup {poll}, taken + 1)
      BY <2>1, <3>1, NumberedPart
    <3>3. poll \notin Attempts
      <4>1. poll.index # 1
        BY <2>1 DEF Shape
      <4>2. QED
        BY <2>1, <4>1 DEF Attempts, Shape
    <3>4. verdict = Verify(case.expectation, Attempts)
      BY DEF Shape
    <3>5. Verify(case.expectation, Attempts \cup {poll}) = Verify(case.expectation, Attempts)
      BY <3>1, <3>2, <3>3, <3>4, LaterAttempt
    <3>6. QED
      BY <2>1, <3>4, <3>5 DEF Arrive
  <2>2. ASSUME NEW after \in Snapshots, Poll(after)
        PROVE  verdict' = verdict
    BY <2>2 DEF Poll
  <2>3. ASSUME NEW poll \in transit, Lose(poll)
        PROVE  verdict' = verdict
    BY <2>3 DEF Lose
  <2>4. QED
    BY <2>1, <2>2, <2>3 DEF Next
<1>2. QED
  BY <1>1, ShapeAlways, PTL DEF Spec, StaysSatisfied
=============================================================================
