--------------------------- MODULE LocalResolver ---------------------------
(***************************************************************************)
(* The local visual resolver: the request a caller builds from a view, the *)
(* metadata backend that answers it and the binding of the answer back to  *)
(* the request.                                                            *)
(*                                                                         *)
(* The scores of the backend are rounded to six digits, so a score at a    *)
(* threshold meets it exactly; the difference of two scores is not         *)
(* rounded, and one that equals the decisive margin lies on either side of *)
(* it in binary floating point.                                            *)
(***************************************************************************)
EXTENDS AiContracts

Tasks == {"choose_candidate", "classify_region", "confirm_ui_role"}

(* MetadataHeuristicLocalVisualResolverConfig *)
Threshold ==
    [choose_candidate |-> 80, classify_region |-> 78, confirm_ui_role |-> 82]
DecisiveMargin == 5
LabelMatchBonus == 8
LabelMismatchPenalty == 25
PartialPenalty == 30
ConflictedPenalty == 18
VisibleBonus == 2
HiddenPenalty == 8
RiskPenalty == [none |-> 0, low |-> 0, medium |-> 4, high |-> 10]
RankStep == 1

----------------------------------------------------------------------------
(* The request. *)

(* _validate_task_constraints *)
TaskAllowed(task, allowed) ==
    CASE task = "classify_region" -> allowed # {}
      [] task = "confirm_ui_role" -> \E l \in allowed : allowed = {l}
      [] OTHER -> TRUE

(* _build_shortlist_entry *)
Entry(view, id) ==
    LET c == Find(view, id)
        binding == BindExposed(c)
    IN  [binding |-> binding, visible |-> c.visible, score |-> c.score, complete |-> binding.complete]

(* Why build_request refuses, "none" if it does not.  ids has no duplicate. *)
RequestRefusal(screen, view, ids, task, allowed) ==
    IF view.frame # screen.frame THEN "snapshot_mismatch"
    ELSE IF ids = <<>> THEN "empty_shortlist"
    ELSE IF ~TaskAllowed(task, allowed) THEN "task_constraint"
    ELSE IF \E i \in DOMAIN ids : ~Shown(view, ids[i]) THEN "candidate_unavailable"
    ELSE IF \E i \in DOMAIN ids : ~OnScreen(screen, ids[i]) THEN "candidate_missing_from_snapshot"
    ELSE IF allowed # {} /\ \A i \in DOMAIN ids : Find(view, ids[i]).label \notin allowed
    THEN "label_conflict"
    ELSE "none"

(* build_request *)
Request(view, ids, task, allowed) ==
    LET shortlist == [i \in DOMAIN ids |-> Entry(view, ids[i])] IN
    [task |-> task, allowed |-> allowed, shortlist |-> shortlist,
     sourceConflict |-> \E i \in DOMAIN ids : shortlist[i].binding.conflict,
     signal |-> IF view.signal = "partial" \/ \E i \in DOMAIN ids : ~shortlist[i].complete
                THEN "partial" ELSE view.signal]

----------------------------------------------------------------------------
(* The metadata backend. *)

(* A score is kept between 0.0 and 1.0. *)
Clamp(n) == IF n < 0 THEN 0 ELSE IF n > 100 THEN 100 ELSE n

(* _score_entry; rank is the place of the entry in the request's shortlist. *)
EntryScore(request, rank) ==
    LET e == request.shortlist[rank]
        readiness == Readiness(e.binding, e.complete)
    IN  Clamp((IF e.score = Missing THEN 0 ELSE e.score)
              - (CASE readiness = "partial" -> PartialPenalty
                   [] readiness = "conflicted" -> ConflictedPenalty
                   [] OTHER -> 0)
              + (IF e.visible THEN VisibleBonus ELSE -HiddenPenalty)
              - RiskPenalty[e.binding.risk]
              - RankStep * (rank - 1)
              + (IF request.allowed = {} THEN 0
                 ELSE IF e.binding.label \in request.allowed THEN LabelMatchBonus
                 ELSE -LabelMismatchPenalty))

(* The order of the scored entries: score, then rank. *)
Ahead(request, i, j) ==
    LET a == EntryScore(request, i)
        b == EntryScore(request, j)
    IN  a > b \/ (a = b /\ i < j)

(* _matching_entries *)
Matching(request) ==
    {i \in DOMAIN request.shortlist :
        request.allowed # {} => request.shortlist[i].binding.label \in request.allowed}

Output(outcome, id, label, confidence, needMore) ==
    [outcome |-> outcome, id |-> id, label |-> label, confidence |-> confidence, needMore |-> needMore]

NeedMoreContext == Output("unresolved", NoOne, "none", Missing, TRUE)
Unknown == Output("unknown", NoOne, "none", Missing, FALSE)

(* The best entry of a set of entries. *)
Top(request, entries) == CHOOSE i \in entries : \A j \in entries \ {i} : Ahead(request, i, j)

(* Mutant: the best entry is taken however close the second one is. *)
AnswersAtAnyMargin(request) ==
    LET matching == Matching(request)
        top == Top(request, matching)
        entry == request.shortlist[top]
        score == EntryScore(request, top)
    IN  IF request.signal # "available" \/ request.sourceConflict THEN {NeedMoreContext}
        ELSE IF matching = {} THEN {Unknown}
        ELSE IF score < Threshold[request.task] THEN {Unknown}
        ELSE {Output("resolved", entry.binding.id, entry.binding.label, score, FALSE)}

(* resolve: the outputs the backend may give.  The shortlist is not empty. *)
Answers(request) ==
    LET matching == Matching(request)
        top == Top(request, matching)
        entry == request.shortlist[top]
        score == EntryScore(request, top)
        others == matching \ {top}
        margin == score - EntryScore(request, Top(request, others))
        resolved == Output("resolved", entry.binding.id, entry.binding.label, score, FALSE)
    IN  IF request.signal # "available" \/ request.sourceConflict THEN {NeedMoreContext}
        ELSE IF matching = {} THEN {Unknown}
        ELSE IF Readiness(entry.binding, entry.complete) = "partial" THEN {NeedMoreContext}
        ELSE IF score < Threshold[request.task] THEN {Unknown}
        ELSE IF others = {} \/ margin > DecisiveMargin THEN {resolved}
        ELSE IF margin = DecisiveMargin THEN {resolved, NeedMoreContext}
        ELSE {NeedMoreContext}

----------------------------------------------------------------------------
(* bind_response finds the choice of a resolved output in the request. *)
ChoiceBound(request, output) ==
    \E i \in DOMAIN request.shortlist :
       LET binding == request.shortlist[i].binding
           label == IF output.label = "none" THEN binding.label ELSE output.label
       IN  /\ binding.id = output.id
           /\ label # "none" /\ request.allowed # {} => label \in request.allowed
           /\ label # "none" /\ binding.label # "none" => label = binding.label

(* The candidate of the bound response, when its signal is available; NoOne *)
(* when the response is refused or partial.                                 *)
BoundChoice(request, output) ==
    IF /\ output.outcome = "resolved" /\ ChoiceBound(request, output)
       /\ request.signal = "available" /\ ~output.needMore
    THEN output.id
    ELSE NoOne

=============================================================================
