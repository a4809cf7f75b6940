--------------------------- MODULE SemanticDelta ---------------------------
(***************************************************************************)
(* The comparison of two semantic snapshots.  A snapshot holds items of    *)
(* seven categories, each under its own key; an item is compared field by  *)
(* field.  The fields of an item other than its confidence are one field,  *)
(* "value": it stands for the role of a layout region, the text of a text  *)
(* region or block, the class and origin of a candidate, the value of a    *)
(* metadata key.                                                           *)
(*                                                                         *)
(* An item is incomplete when the pipeline says it produced it (the text   *)
(* was extracted, the candidate was generated) and a field is missing, or, *)
(* for layout regions and text blocks, whenever the field is missing.      *)
(***************************************************************************)
EXTENDS Integers, FiniteSets

CONSTANTS
    None,      \* a field, a snapshot or a bound that is not there
    Ids,       \* identifiers of items
    Values,    \* what a field other than the confidence holds
    Scores     \* confidences, as numbers in steps of the smallest difference

ASSUME ScoresAssumption == Scores \subseteq Nat /\ None \notin Int \cup Values

Categories == {"layout_tree_node", "region_block", "layout_region", "text_region",
               "text_block", "candidate", "snapshot_metadata"}
Fields == {"value", "confidence"}
State == [value : Values \cup {None}, confidence : Scores \cup {None}]
Item == [state : State, produced : BOOLEAN]
Key == Categories \X Ids

IsNode(key) == key[1] = "layout_tree_node"

IsSnapshot(s) ==
    /\ s = [tree |-> s.tree, items |-> s.items] /\ s.tree \in BOOLEAN
    /\ s.items = [key \in DOMAIN s.items |-> s.items[key]] /\ DOMAIN s.items \subseteq Key
    /\ \A key \in DOMAIN s.items : s.items[key] \in Item /\ (IsNode(key) => s.tree)

NoState == [field \in {} |-> None]

Here(snapshot, key) == key \in DOMAIN snapshot.items
StateIn(snapshot, key) == IF Here(snapshot, key) THEN snapshot.items[key].state ELSE NoState

(***************************************************************************)
(* Changes.  Tree nodes are compared only if both snapshots have a tree.   *)
(***************************************************************************)
Compared(before, after) ==
    {key \in DOMAIN before.items \cup DOMAIN after.items :
        IsNode(key) => before.tree /\ after.tree}

ChangedFields(before, after, key) ==
    {field \in DOMAIN StateIn(before, key) \cap DOMAIN StateIn(after, key) :
        StateIn(before, key)[field] # StateIn(after, key)[field]}

ChangeType(before, after, key) ==
    CASE ~Here(before, key) -> "added"
      [] ~Here(after, key) -> "removed"
      [] OTHER -> "changed"

Changed(before, after) ==
    {key \in Compared(before, after) :
        ChangeType(before, after, key) = "changed" => ChangedFields(before, after, key) # {}}

Change(before, after, key) ==
    [type |-> ChangeType(before, after, key), fields |-> ChangedFields(before, after, key),
     before |-> StateIn(before, key), after |-> StateIn(after, key)]

(* The score moved by this much, if both states have a score. *)
Scored(state) == "confidence" \in DOMAIN state /\ state["confidence"] # None
ScoreDelta(change) ==
    IF Scored(change.before) /\ Scored(change.after)
    THEN change.after["confidence"] - change.before["confidence"]
    ELSE None

(***************************************************************************)
(* Incomplete input.                                                       *)
(***************************************************************************)
ItemIncomplete(key, item) ==
    CASE key[1] \in {"layout_region", "text_block"} -> item.state.value = None
      [] key[1] = "text_region" -> item.produced /\ item.state.value = None
      [] key[1] = "candidate" -> /\ item.produced
                                 /\ item.state.value = None \/ item.state.confidence = None
      [] OTHER -> FALSE

IncompleteIn(snapshot) ==
    {key \in DOMAIN snapshot.items : ItemIncomplete(key, snapshot.items[key])}

(***************************************************************************)
(* A delta is told by the two snapshots it compares.                       *)
(***************************************************************************)
Delta(before, after) == [before |-> before, after |-> after]

TreeMissing(delta) == ~delta.before.tree \/ ~delta.after.tree

(* signal_status = "partial" *)
Partial(delta) ==
    TreeMissing(delta) \/ IncompleteIn(delta.before) \cup IncompleteIn(delta.after) # {}

Incomplete(delta, key) ==
    IF IsNode(key) THEN TreeMissing(delta)
    ELSE key \in IncompleteIn(delta.before) \cup IncompleteIn(delta.after)
=============================================================================
