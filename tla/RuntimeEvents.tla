--------------------------- MODULE RuntimeEvents ---------------------------
(***************************************************************************)
(* The in-memory coordinator that queues runtime events, coalesces the     *)
(* ones that share a debounce key, and turns the head of the queue into a  *)
(* dispatch plan (app/runtime_events.py).  Submissions come from capture,  *)
(* semantic, verification and scenario code in any order, interleaved with *)
(* dispatches.                                                             *)
(*                                                                         *)
(* Data.  An event is identified by its submission number (the code draws  *)
(* a uuid).  The invalidation signals of an event, a tuple in the code,    *)
(* are kept per scope in the order given: no code reads the order between  *)
(* scopes.  Tuples the code reorders with _dedupe_in_enum_order are sets.  *)
(* Summaries, metadata and the debounce window (never read) are left out.  *)
(***************************************************************************)
EXTENDS Naturals, Sequences, FiniteSets

CONSTANTS
    Keys,         \* debounce keys
    NoKey,        \* debounce_key is None
    RegionIds,    \* what the affected_ids of a signal name
    Contents,     \* the events that may be submitted, without their id
    MaxEvents     \* bound: number of submissions

----------------------------------------------------------------------------
(* The vocabulary of runtime_event_models.py. *)

EventTypes == {"observation_invalidated", "semantic_reanalysis_requested",
               "verification_requested", "scenario_requested",
               "polling_fallback_tick"}

Scopes == {"frame", "semantic_snapshot", "ocr_regions", "layout_regions",
           "candidates", "verification", "scenario"}

CaptureTargets == {"full_desktop", "foreground_window", "affected_regions"}

AnalysisTargets == {"frame_diff", "semantic_state", "ocr", "layout",
                    "candidate_set", "verification", "scenario_state"}

CoalescingModes == {"none", "debounce_replace", "merge"}

Signal == [ids : SUBSET RegionIds, full : BOOLEAN]

(* Content of a RuntimeEvent as its __post_init__ admits it: a coalescing  *)
(* mode other than none needs a debounce key.                              *)
Content ==
    {c \in [type     : EventTypes,
            signals  : [Scopes -> Seq(Signal)],
            capture  : SUBSET CaptureTargets,
            analysis : SUBSET AnalysisTargets,
            mode     : CoalescingModes,
            key      : Keys \cup {NoKey},
            polling  : BOOLEAN] : c.mode # "none" => c.key # NoKey}

ASSUME ContentsAssumption == Contents \subseteq Content
ASSUME MaxEventsAssumption == MaxEvents \in Nat
ASSUME NoKeyAssumption == NoKey \notin Keys

(* A _QueuedRuntimeEvent: the (possibly coalesced) event, the submissions  *)
(* it stands for, and the coalesced_event_count the code maintains.        *)
Entry == [event : Content, sources : Seq(Nat), count : Nat]

Plan == [sources  : Seq(Nat),
         count    : Nat,
         dispatch : {"event_first", "polling_fallback"},
         scopes   : SUBSET Scopes,
         capture  : SUBSET CaptureTargets,
         analysis : SUBSET AnalysisTargets,
         polling  : BOOLEAN]

Dispositions == {"accepted", "coalesced", "blocked"}

VARIABLES
    queue,        \* _queue, head first
    log,          \* history: the content of submission i
    disposition,  \* history: what submit answered to submission i
    plans         \* history: the plans dispatch_next has returned

vars == <<queue, log, disposition, plans>>

Elems(s) == {s[i] : i \in DOMAIN s}

----------------------------------------------------------------------------
(* Deriving the plan of one event. *)

(* _ordered_invalidation_scopes *)
ScopesOf(c) == {s \in Scopes : c.signals[s] # <<>>}

(* _derive_capture_targets: the full desktop is derived only when the      *)
(* event names no capture target of its own.                               *)
CaptureOf(c) ==
    IF /\ c.capture = {}
       /\ "frame" \in ScopesOf(c) \/ c.type = "polling_fallback_tick"
    THEN {"full_desktop"}
    ELSE c.capture

(* The scope_mapping of _derive_analysis_targets. *)
ScopeAnalysis ==
    [s \in Scopes |->
        CASE s = "frame"             -> {"frame_diff", "semantic_state"}
          [] s = "semantic_snapshot" -> {"semantic_state"}
          [] s = "ocr_regions"       -> {"ocr", "semantic_state"}
          [] s = "layout_regions"    -> {"layout", "semantic_state"}
          [] s = "candidates"        -> {"candidate_set"}
          [] s = "verification"      -> {"verification"}
          [] s = "scenario"          -> {"scenario_state"}]

AnalysisOf(c) ==
    c.analysis
    \cup {a \in AnalysisTargets : \E s \in ScopesOf(c) : a \in ScopeAnalysis[s]}
    \cup IF c.type = "polling_fallback_tick"
         THEN {"frame_diff", "semantic_state"} ELSE {}

PlanOf(entry) ==
    [sources  |-> entry.sources,
     count    |-> entry.count,
     dispatch |-> IF entry.event.type = "polling_fallback_tick"
                  THEN "polling_fallback" ELSE "event_first",
     scopes   |-> ScopesOf(entry.event),
     capture  |-> CaptureOf(entry.event),
     analysis |-> AnalysisOf(entry.event),
     polling  |-> entry.event.polling]

----------------------------------------------------------------------------
(* Coalescing. *)

(* _validate_event_completeness *)
Complete(c) ==
    \/ c.type = "polling_fallback_tick"
    \/ ScopesOf(c) # {}
    \/ c.capture # {}
    \/ c.analysis # {}

Matches(queued, c) ==
    /\ queued.key = c.key
    /\ queued.mode = c.mode
    /\ queued.type = c.type

(* Mutant: only the last queued entry is looked at. *)
MutantCoalescibleTailOnly(q, c) ==
    {i \in DOMAIN q : /\ i = Len(q)
                      /\ c.mode # "none"
                      /\ Matches(q[i].event, c)}

(* _find_coalescible_index: every index it may return, and the one it does *)
Coalescible(q, c) ==
    {i \in DOMAIN q : /\ c.mode # "none"
                      /\ c.key # NoKey
                      /\ Matches(q[i].event, c)}

First(S) == CHOOSE i \in S : \A j \in S : i <= j

(* Mutant: the incoming signal overwrites the queued one, as dict.update would. *)
MutantMergeScopeOverwrite(first, second) ==
    IF second = <<>> THEN first ELSE << second[Len(second)] >>

(* _merge_invalidation_signals, for one scope: of the queued signals only  *)
(* the last is kept in the dict; every incoming one is folded into it.     *)
MergeScope(first, second) ==
    IF first = <<>> /\ second = <<>> THEN <<>>
    ELSE LET kept == Elems(second)
                     \cup IF first = <<>> THEN {} ELSE {first[Len(first)]}
         IN  << [ids  |-> {r \in RegionIds : \E g \in kept : r \in g.ids},
                 full |-> \E g \in kept : g.full] >>

MergeSignals(first, second) == [s \in Scopes |-> MergeScope(first[s], second[s])]

(* _coalesce_events, debounce_replace branch: the incoming event stands,   *)
(* except that polling fallback stays allowed only if both allow it.       *)
Replaced(existing, incoming) ==
    [incoming EXCEPT !.polling = existing.polling /\ incoming.polling]

(* _coalesce_events, merge branch: the queued event stands, with merged    *)
(* signals and trigger.                                                    *)
Merged(existing, incoming) ==
    [existing EXCEPT
        !.signals  = MergeSignals(existing.signals, incoming.signals),
        !.capture  = existing.capture \cup incoming.capture,
        !.analysis = existing.analysis \cup incoming.analysis,
        !.polling  = existing.polling /\ incoming.polling]

(* Mutant: the coalesced entry names only its latest source. *)
MutantCoalesceForgets(entry, c, id) ==
    [event   |-> IF c.mode = "debounce_replace"
                 THEN Replaced(entry.event, c) ELSE Merged(entry.event, c),
     sources |-> <<id>>,
     count   |-> entry.count + 1]

(* _coalesce_events *)
Coalesce(entry, c, id) ==
    [event   |-> IF c.mode = "debounce_replace"
                 THEN Replaced(entry.event, c) ELSE Merged(entry.event, c),
     sources |-> Append(entry.sources, id),
     count   |-> entry.count + 1]

----------------------------------------------------------------------------
(* The handlers. *)

Init ==
    /\ queue = <<>>
    /\ log = <<>>
    /\ disposition = <<>>
    /\ plans = <<>>

(* What submit does to the history whatever it answers. *)
Logged(c, answer) ==
    /\ Len(log) < MaxEvents
    /\ log' = Append(log, c)
    /\ disposition' = Append(disposition, answer)
    /\ UNCHANGED plans

(* submit, refused by the completeness check *)
SubmitBlocked(c) ==
    /\ ~Complete(c)
    /\ Logged(c, "blocked")
    /\ UNCHANGED queue

(* submit, appended *)
SubmitAccepted(c) ==
    /\ Complete(c)
    /\ Coalescible(queue, c) = {}
    /\ Logged(c, "accepted")
    /\ queue' = Append(queue, [event   |-> c,
                               sources |-> <<Len(log) + 1>>,
                               count   |-> 1])

(* Mutant: the coalesced entry goes to the back of the queue. *)
MutantSubmitCoalescedToBack(c) ==
    /\ Complete(c)
    /\ Coalescible(queue, c) # {}
    /\ Logged(c, "coalesced")
    /\ LET i == First(Coalescible(queue, c))
       IN  queue' = Append(SubSeq(queue, 1, i - 1)
                               \o SubSeq(queue, i + 1, Len(queue)),
                           Coalesce(queue[i], c, Len(log) + 1))

(* submit, coalesced in place *)
SubmitCoalesced(c) ==
    /\ Complete(c)
    /\ Coalescible(queue, c) # {}
    /\ Logged(c, "coalesced")
    /\ LET i == First(Coalescible(queue, c))
       IN  queue' = [queue EXCEPT ![i] = Coalesce(queue[i], c, Len(log) + 1)]

(* dispatch_next with something pending.  On an empty queue it answers     *)
(* runtime_event_queue_empty and changes nothing.                          *)
DispatchNext ==
    /\ queue # <<>>
    /\ plans' = Append(plans, PlanOf(Head(queue)))
    /\ queue' = Tail(queue)
    /\ UNCHANGED <<log, disposition>>

Next ==
    \/ \E c \in Contents :
          SubmitBlocked(c) \/ SubmitAccepted(c) \/ SubmitCoalesced(c)
    \/ DispatchNext

Spec == Init /\ [][Next]_vars

----------------------------------------------------------------------------
(* Properties. *)

(* The submissions that some of these entries or plans stand for. *)
Sources(entries) == UNION {Elems(entries[i].sources) : i \in DOMAIN entries}

Increasing(s) == \A i, j \in DOMAIN s : i < j => s[i] < s[j]

TypeOK ==
    /\ queue \in Seq(Entry)
    /\ log \in Seq(Contents)
    /\ disposition \in Seq(Dispositions)
    /\ plans \in Seq(Plan)

(* Every submission that submit did not refuse is, at any moment, in       *)
(* exactly one queued entry or one returned plan, once; a refused one is   *)
(* in none.  The count that the result and the plan report is the number   *)
(* of submissions behind them, listed oldest first.  (submit,              *)
(* _coalesce_events and dispatch_next)                                     *)
SourcesAccountedFor ==
    LET all == plans \o queue
    IN  /\ Len(log) = Len(disposition)
        /\ Sources(all) = {i \in DOMAIN disposition : disposition[i] # "blocked"}
        /\ \A i \in DOMAIN all :
              /\ all[i].count = Len(all[i].sources)
              /\ all[i].sources # <<>>
              /\ Increasing(all[i].sources)
              /\ \A j \in DOMAIN all :
                    i # j => Elems(all[i].sources) \cap Elems(all[j].sources) = {}

(* Two queued entries never share a debounce key, mode and type: an event  *)
(* that could coalesce always finds the one entry it belongs to, so "the   *)
(* first match" of _find_coalescible_index is the only match.              *)
OneEntryPerKey ==
    \A i, j \in DOMAIN queue :
        /\ queue[i].event.mode # "none"
        /\ Matches(queue[i].event, queue[j].event)
        => i = j

(* An entry in debounce_replace mode asks for what its latest source asked *)
(* for, though it stays at the place its first source took in the queue.   *)
LatestReplaces ==
    \A i \in DOMAIN queue :
        LET entry == queue[i]
            latest == log[entry.sources[Len(entry.sources)]]
        IN  entry.event.mode = "debounce_replace" =>
                entry.event = [latest EXCEPT !.polling = entry.event.polling]

(* Merging loses no work: the plan of a merged entry covers the scopes,    *)
(* the analysis targets and the requested capture targets of every event   *)
(* behind it, and still says that a full refresh is required where one of  *)
(* them said so last for that scope.  (_merge_invalidation_signals,        *)
(* _merge_selective_trigger)                                               *)
MergeCoversSources ==
    \A i \in DOMAIN queue :
        queue[i].event.mode = "merge" =>
            \A id \in Elems(queue[i].sources) :
                LET plan == PlanOf(queue[i])
                    source == log[id]
                IN  /\ ScopesOf(source) \subseteq plan.scopes
                    /\ AnalysisOf(source) \subseteq plan.analysis
                    /\ source.capture \subseteq plan.capture
                    /\ \A s \in ScopesOf(source) :
                          LET asked == source.signals[s][Len(source.signals[s])]
                              kept == queue[i].event.signals[s]
                          IN  /\ asked.ids \subseteq kept[Len(kept)].ids
                              /\ asked.full => kept[Len(kept)].full

(* A plan allows polling fallback exactly when every event behind it did:  *)
(* neither branch of _coalesce_events lets a later or an earlier event     *)
(* lift the veto of another.                                               *)
PollingNeedsEverySource ==
    \A i \in DOMAIN plans :
        plans[i].polling <=> \A id \in Elems(plans[i].sources) : log[id].polling

(* Whatever the mode and however many events were coalesced, an entry      *)
(* answers for all of them: it forgets no work, asks for the latest of     *)
(* what replaces, and keeps every veto.                                    *)
EntriesAnswerSources == MergeCoversSources /\ LatestReplaces /\ PollingNeedsEverySource

(* The coordinator implements EventIntake: no submission is lost or handed *)
(* out twice, and coalescing never lets a younger event overtake the       *)
(* oldest one.                                                             *)
Intake == INSTANCE EventIntake WITH
              submitted <- Len(log),
              pending   <- Sources(queue),
              delivered <- Sources(plans)

ImplementsIntake == Intake!Spec

=============================================================================
