--------------------------- MODULE MCVerification ---------------------------
EXTENDS VerificationRun

CONSTANTS i1, i2, v1, v2

MCIds == {i1, i2}
MCValues == {v1, v2}
MCScores == 0 .. 2

It(value, confidence, produced) ==
    [state |-> [value |-> value, confidence |-> confidence], produced |-> produced]
Plain(value) == It(value, None, TRUE)

(* Snapshots, as functions written pair by pair. *)
Empty == [key \in {} |-> Plain(v1)]
With(items, category, id, item) ==
    [key \in DOMAIN items \cup {<<category, id>>} |->
        IF key = <<category, id>> THEN item ELSE items[key]]
One(category, item) == With(Empty, category, i1, item)
Seen(tree, items) == [tree |-> tree, items |-> items]

NoFields == [field \in {} |-> None]
ValueIs(value) == [field \in {"value"} |-> value]
Expect(category, expected, before, after) ==
    [key |-> <<category, i1>>, expected |-> expected, fields |-> {}, before |-> before,
     after |-> after, minimum |-> None, direction |-> "any_change"]
Appeared(category, value) == Expect(category, "appeared", NoFields, ValueIs(value))
Became(category, old, new) ==
    [Expect(category, "changed", ValueIs(old), ValueIs(new)) EXCEPT !.fields = {"value"}]
Rises(minimum) ==
    [Expect("candidate", "changed", NoFields, NoFields) EXCEPT
        !.fields = {"confidence"}, !.minimum = minimum, !.direction = "increased"]
Falls == [Rises(None) EXCEPT !.direction = "decreased"]

Wants(primary, alternates, timing) ==
    [required |-> {}, forbidden |-> {}, nodes |-> {}, primary |-> primary,
     alternates |-> alternates, timing |-> timing]
Within(timeout, max) == [timeout |-> timeout, polls |-> max]
Case(expectation, snapshots) == [expectation |-> expectation, snapshots |-> snapshots]

Scored3 == {Seen(TRUE, One("candidate", It(v1, c, TRUE))) : c \in {0, 2, None}}

MCCases ==
    { \* a marker appears late (timeout and number of polls)
      Case(Wants({Appeared("snapshot_metadata", v1)}, <<>>, Within(1, 3)),
           {Seen(TRUE, Empty)} \cup {Seen(TRUE, One("snapshot_metadata", Plain(v))) : v \in MCValues}),
      \* a score rises; generated candidates may lack theirs
      Case(Wants({Rises(2)}, <<>>, Within(None, 2)), Scored3),
      \* either of two branches
      Case(Wants({Falls}, <<{Appeared("text_region", v1)}>>, Within(2, None)),
           {Seen(TRUE, One("candidate", It(v1, 1, FALSE))),
            Seen(TRUE, With(One("candidate", It(v1, 0, FALSE)), "text_region", i1, Plain(None))),
            Seen(TRUE, With(One("candidate", It(v1, 1, FALSE)), "text_region", i1, Plain(v1)))}),
      \* alternates only
      Case(Wants({}, <<{Appeared("text_block", v2)}, {Became("region_block", v1, v2)}>>, None),
           {Seen(FALSE, One("region_block", Plain(v1))),
            Seen(FALSE, One("region_block", Plain(v2))),
            Seen(FALSE, With(One("region_block", Plain(v1)), "text_block", i1, Plain(None)))}),
      \* a role is read or not
      Case(Wants({Became("layout_region", v1, v2)}, <<>>, None),
           {Seen(TRUE, One("layout_region", Plain(v))) : v \in MCValues \cup {None}}),
      \* two outcomes, one of them about the tree
      Case(Wants({Became("layout_tree_node", v1, v2),
                  Expect("text_region", "disappeared", ValueIs(v1), NoFields)}, <<>>, None),
           {Seen(TRUE, With(One("layout_tree_node", Plain(v1)), "text_region", i1, Plain(v1))),
            Seen(TRUE, One("layout_tree_node", Plain(v2))),
            Seen(FALSE, Empty)}),
      \* presence only
      Case([Wants({}, <<>>, None) EXCEPT !.required = {i1}, !.forbidden = {i2}, !.nodes = {i1}],
           {Seen(TRUE, With(One("layout_tree_node", Plain(v1)), "candidate", i1, It(v1, 1, FALSE))),
            Seen(FALSE, One("candidate", It(v1, None, TRUE))),
            Seen(TRUE, With(One("layout_tree_node", Plain(v1)), "candidate", i2, It(v1, 1, FALSE)))}),
      \* presence and an outcome
      Case([Wants({Became("candidate", v1, v2)}, <<>>, None) EXCEPT !.required = {i2}],
           {Seen(TRUE, With(One("candidate", It(v, 1, TRUE)), "candidate", i2, It(v1, 1, TRUE))) :
               v \in MCValues \cup {None}}) }
=============================================================================
