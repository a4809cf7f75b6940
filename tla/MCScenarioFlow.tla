-------------------------- MODULE MCScenarioFlow --------------------------
(* A small instance of ScenarioFlow: two candidates, four levels of score. *)
EXTENDS ScenarioFlow

DryStep ==
    [filled |-> TRUE, safe |-> TRUE, select |-> TRUE, eligible |-> FALSE, allowClick |-> FALSE,
     cleared |-> TRUE, classes |-> {}, allowed |-> {1}, minScore |-> 0, limit |-> 0,
     visible |-> FALSE, complete |-> FALSE]
ClickStep ==
    [DryStep EXCEPT !.eligible = TRUE, !.allowClick = TRUE, !.classes = {"button_like"},
                    !.allowed = {}, !.minScore = 2, !.limit = 2, !.visible = TRUE, !.complete = TRUE]
(* The step's own constraints are looser than what a click needs. *)
LooseStep == [ClickStep EXCEPT !.visible = FALSE, !.complete = FALSE]
InvalidStep == [ClickStep EXCEPT !.minScore = 1]
IncompleteStep == [DryStep EXCEPT !.filled = FALSE]

ScenarioOf(steps) ==
    [named |-> TRUE, safe |-> TRUE, uniqueIds |-> TRUE, realClick |-> TRUE, steps |-> steps]

MCScenarios ==
    {ScenarioOf(<<ClickStep, LooseStep>>), ScenarioOf(<<DryStep, ClickStep>>),
     ScenarioOf(<<InvalidStep, ClickStep>>), ScenarioOf(<<IncompleteStep>>),
     [ScenarioOf(<<ClickStep>>) EXCEPT !.safe = FALSE]}

MCConfigs ==
    {[live |-> TRUE, execute |-> TRUE, metrics |-> TRUE, transport |-> TRUE],
     [live |-> TRUE, execute |-> FALSE, metrics |-> TRUE, transport |-> TRUE],
     [live |-> FALSE, execute |-> TRUE, metrics |-> FALSE, transport |-> FALSE]}

Permissive == [protected |-> "clear", denied |-> {}, restrictive |-> FALSE, allowed |-> {}, complete |-> TRUE]
MCPolicies ==
    {Permissive,
     [Permissive EXCEPT !.denied = {1}, !.restrictive = TRUE, !.allowed = {1, 2}],
     [Permissive EXCEPT !.protected = "unknown"]}

Button ==
    [class |-> "button_like", score |-> 2, visible |-> TRUE, region |-> TRUE,
     described |-> TRUE, place |-> "left"]
Better == [Button EXCEPT !.score = 3]
MCScreens ==
    {<<>>,
     <<Button, Better>>,
     <<[Button EXCEPT !.place = "right"], [Better EXCEPT !.visible = FALSE]>>,
     <<[Better EXCEPT !.region = FALSE], [Button EXCEPT !.place = "line"]>>}
=============================================================================
