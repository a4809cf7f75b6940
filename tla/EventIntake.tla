---------------------------- MODULE EventIntake ----------------------------
(***************************************************************************)
(* What the runtime event coordinator promises its callers, whatever it    *)
(* coalesces: every submission it does not refuse is handed out in exactly *)
(* one dispatch plan, and each dispatch hands out the oldest pending one.  *)
(* RuntimeEvents is shown to implement this module, and MainLoop uses it   *)
(* in place of the coordinator.                                            *)
(***************************************************************************)
EXTENDS Naturals

CONSTANT MaxEvents   \* bound: number of submissions

VARIABLES
    submitted,   \* how many events have been submitted; they are numbered
    pending,     \* submissions waiting for a dispatch
    delivered    \* submissions some dispatch plan has carried

intakeVars == <<submitted, pending, delivered>>

Init ==
    /\ submitted = 0
    /\ pending = {}
    /\ delivered = {}

(* submit, accepted or coalesced *)
Take ==
    /\ submitted < MaxEvents
    /\ submitted' = submitted + 1
    /\ pending' = pending \cup {submitted + 1}
    /\ UNCHANGED delivered

(* submit, refused *)
Refuse ==
    /\ submitted < MaxEvents
    /\ submitted' = submitted + 1
    /\ UNCHANGED <<pending, delivered>>

(* dispatch_next of a plan that carries the submissions in batch *)
Deliver(batch) ==
    /\ batch # {}
    /\ batch \subseteq pending
    /\ \E oldest \in batch : \A e \in pending : oldest <= e
    /\ pending' = pending \ batch
    /\ delivered' = delivered \cup batch
    /\ UNCHANGED submitted

Next ==
    \/ Take
    \/ Refuse
    \/ \E batch \in SUBSET pending : Deliver(batch)

Spec == Init /\ [][Next]_intakeVars

=============================================================================
