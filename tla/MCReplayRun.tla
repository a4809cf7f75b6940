---------------------------- MODULE MCReplayRun ----------------------------
(* Small instance of the replay harness: two tasks that may run it twice,   *)
(* sessions with and without holes, with and without retries.               *)
EXTENDS ReplayRun

CONSTANTS c1, c2

MCCallers == {c1, c2}

Full == [frame |-> TRUE, snapshot |-> TRUE, task |-> TRUE]
NoTask == [Full EXCEPT !.task = FALSE]
NoFrame == [Full EXCEPT !.frame = FALSE]
NoSnapshot == [Full EXCEPT !.snapshot = FALSE]

Plain(session) ==
    [session |-> session, attempts |-> 1, onTimeout |-> FALSE, onException |-> FALSE,
     recovery |-> FALSE, offload |-> {}]
Retrying(session, offload) ==
    [session |-> session, attempts |-> 2, onTimeout |-> TRUE, onException |-> TRUE,
     recovery |-> TRUE, offload |-> offload]

MCHarnesses ==
    {Plain(<<>>), Plain(<<NoTask, NoTask, NoTask>>),
     Plain(<<NoTask, NoFrame>>),
     Retrying(<<Full, NoTask, Full>>, BoundaryStages),
     Retrying(<<Full, NoFrame, Full>>, {"loading"}),
     Retrying(<<Full, NoSnapshot, NoTask>>, {})}

ASSUME MCInstanceAssumption == c1 # c2
=============================================================================
