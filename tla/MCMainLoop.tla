---------------------------- MODULE MCMainLoop ----------------------------
(* Who calls what: a task that drains the queue, and one that calls        *)
(* run_once and run_next_runtime_event beside it; or one task doing all.   *)
EXTENDS MainLoop

CONSTANTS drainer, caller

Both == {drainer, caller}
OnlyDrainer == {drainer}
OnlyCaller == {caller}

=============================================================================
