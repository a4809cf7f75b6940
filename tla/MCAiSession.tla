---------------------------- MODULE MCAiSession ----------------------------
(* A small instance of AiSession: up to five candidates of two labels. *)
EXTENDS AiSession

(* The defaults of EscalationPolicy. *)
MCPolicy ==
    [deterministic |-> 90, resolver |-> 75, planner |-> 70, tolerance |-> 15,
     localForHighRisk |-> TRUE, cloudForConflict |-> TRUE, blockIncomplete |-> TRUE,
     blockDisagreement |-> TRUE, confirmHighRisk |-> TRUE]

Button(i, score) ==
    [id |-> i, name |-> "ok", label |-> "button", score |-> score, risk |-> "low",
     described |-> TRUE, ambiguous |-> FALSE, needsResolver |-> FALSE, conflict |-> FALSE,
     visible |-> TRUE, exposed |-> TRUE, complete |-> TRUE]
Tab(i, score) == [Button(i, score) EXCEPT !.label = "tab"]
Renamed(c) == [c EXCEPT !.name = "cancel"]
Ambiguous(c) == [c EXCEPT !.ambiguous = TRUE]
Conflicting(c) == [c EXCEPT !.conflict = TRUE]
Risky(c) == [c EXCEPT !.risk = "high"]
Hidden(c) == [c EXCEPT !.visible = FALSE, !.risk = "medium"]
Partial(c) == [c EXCEPT !.complete = FALSE]
Unscored(c) == [Partial(c) EXCEPT !.score = Missing]

MCScreens ==
    {{},
     {Button(1, 96), Tab(2, 91), [Partial(Tab(3, 50)) EXCEPT !.exposed = FALSE]},
     {Conflicting(Button(1, 96)), Tab(2, 91)},
     {Conflicting(Button(1, 96)), Partial(Tab(2, 50))},
     {Conflicting(Risky(Button(1, 96))), Button(2, 91)},
     {Ambiguous(Button(1, 99)), Renamed(Button(2, 92)), Hidden(Button(3, 90))},
     {Button(1, 82), Button(2, 81)},
     {Risky(Button(1, 99)), Button(2, 88), Button(3, 87), Tab(4, 87), Tab(5, 86)},
     {Unscored(Button(1, 0))}}

Select(i, confidence) ==
    [action |-> "candidate_select", id |-> i, name |-> "none", target |-> "candidate_center",
     confidence |-> confidence, dryRun |-> TRUE, live |-> FALSE, outcomes |-> {}]
Expecting(contract, change, i) ==
    [contract EXCEPT !.outcomes = {[id |-> i, change |-> change, before |-> "none", scored |-> FALSE]}]

MCPlannerContracts ==
    {Select(1, 88), Select(2, 88), Select(2, 60), Select(NoOne, 88),
     [Select(2, 92) EXCEPT !.live = TRUE],
     [Select(1, 92) EXCEPT !.dryRun = FALSE],
     [Select(1, 88) EXCEPT !.name = "cancel"],
     [Select(1, 88) EXCEPT !.target = "candidate_point"],
     [Select(1, Missing) EXCEPT !.target = "other"],
     [Select(NoOne, 88) EXCEPT !.action = "observe_only", !.target = "none"],
     [Select(NoOne, Missing) EXCEPT !.action = "none"],
     Expecting([Select(NoOne, Missing) EXCEPT !.action = "none"], "disappeared", 2),
     Expecting(Select(1, 88), "appeared", 2)}

Pick(i, confidence) ==
    [action |-> "candidate_select", id |-> i, name |-> "ok", target |-> "candidate_center",
     confidence |-> confidence, inside |-> TRUE]

MCResolverContracts ==
    {Pick(1, 60), Pick(1, 93), Pick(2, 93), [Pick(2, 93) EXCEPT !.inside = FALSE],
     [Pick(1, Missing) EXCEPT !.action = "observe_only", !.target = "other"]}

(* Replies of the provider. *)
Goal(i) ==
    [name |-> "first", action |-> "candidate_select", id |-> i, label |-> "none",
     targetAllowed |-> TRUE, criteria |-> "given", dryRun |-> TRUE]
Watch == [Goal(NoOne) EXCEPT !.action = "observe_only", !.name = "second"]
Planned(subgoals) ==
    [json |-> TRUE, fields |-> TRUE, outcome |-> "planned", goal |-> TRUE, needMore |-> FALSE,
     forbidsLive |-> TRUE, subgoals |-> subgoals]

MCReplies ==
    {[Planned(<<>>) EXCEPT !.json = FALSE],
     [Planned(<<>>) EXCEPT !.outcome = "unresolved"],
     Planned(<<Goal(2), Watch>>),
     Planned(<<Watch>>),
     Planned(<<[Goal(1) EXCEPT !.criteria = "none"]>>),
     Planned(<<[Goal(1) EXCEPT !.label = "tab"]>>),
     Planned(<<Goal(1), Goal(2)>>)}

=============================================================================
