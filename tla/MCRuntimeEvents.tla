-------------------------- MODULE MCRuntimeEvents --------------------------
(* Model values and the catalogue of events for TLC. *)
EXTENDS RuntimeEvents

CONSTANTS k1, k2, r1, r2

MCKeys == {k1, k2}
MCRegions == {r1, r2}

NoSignals == [s \in Scopes |-> <<>>]
OneSignal(scope, ids, full) ==
    [NoSignals EXCEPT ![scope] = <<[ids |-> ids, full |-> full]>>]

Base == [type |-> "observation_invalidated", signals |-> NoSignals,
         capture |-> {}, analysis |-> {}, mode |-> "merge", key |-> k1,
         polling |-> TRUE]

(* a frame was invalidated; nothing more is said *)
FrameLost == [Base EXCEPT !.signals = OneSignal("frame", {r1}, TRUE)]

(* two OCR signals in one event, only some regions to capture again *)
RegionsLost ==
    [Base EXCEPT
        !.signals = [NoSignals EXCEPT !["ocr_regions"] =
                        <<[ids |-> {r1}, full |-> FALSE],
                          [ids |-> {r2}, full |-> TRUE]>>,
                                      !["frame"] =
                        <<[ids |-> {r2}, full |-> FALSE]>>],
        !.capture = {"affected_regions"},
        !.polling = FALSE]

(* successive requests for candidates, the latest one wins *)
CandidatesStale ==
    [Base EXCEPT !.signals = OneSignal("candidates", {r1}, FALSE),
                 !.mode = "debounce_replace"]

VerifyAgain ==
    [Base EXCEPT !.analysis = {"verification"},
                 !.mode = "debounce_replace",
                 !.polling = FALSE]

(* never coalesced, though it carries a key *)
Tick == [Base EXCEPT !.type = "polling_fallback_tick", !.mode = "none", !.key = k2]

(* refused: it asks for nothing *)
Nothing == [Base EXCEPT !.mode = "none", !.key = NoKey]

MCContents == {FrameLost, RegionsLost, CandidatesStale, VerifyAgain, Tick, Nothing}

=============================================================================
