--------------------------- MODULE MCPersistence ---------------------------
(* Two processes, of which either may write and load, and two tasks. *)
EXTENDS Persistence, TLC

CONSTANTS p1, p2, t1, t2

MCProcesses == {p1, p2}
MCTasks == {t1, t2}
OneTask == {t1}
Nobody == {}
UtcOnly == {0}
UtcAndEast == {0, 1}

(* The processes are interchangeable, and so are the tasks. *)
MCSymmetry == Permutations(MCProcesses) \cup Permutations(MCTasks)

=============================================================================
