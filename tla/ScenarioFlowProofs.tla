------------------------- MODULE ScenarioFlowProofs -------------------------
(***************************************************************************)
(* Theorems about ScenarioFlow, for every set of scenarios, policies and   *)
(* screens and any number of runs and of uses of the two switches.         *)
(*                                                                         *)
(* IInv adds to the properties what the runner knows at each place of its  *)
(* way through a step: where its state machine is (FlowOK), what it has    *)
(* established (Located), which frames it has seen (Frames), which clicks  *)
(* it has made (Clicking) and what the policy's answer means (Halting).    *)
(***************************************************************************)
EXTENDS ScenarioFlow, SequenceTheorems, FiniteSetTheorems, TLAPS

Outside == {"idle", "step"}
Gated   == {"safeClick", "killSwitch", "pause", "gates", "clicked", "executed"}
Acting  == {"understood", "selected", "built"} \cup Gated

(* The states the machine may be in where the runner goes on with the step. *)
Expected ==
    [p \in PcStates \ Outside |->
        CASE p = "capture" -> {"started", "dry_run_passed", "execution_allowed", "executed"}
          [] p = "observed" -> {"observed"}
          [] p \in {"unmatched", "understood", "verify"} -> {"understood"}
          [] p = "selected" -> {"candidate_selected"}
          [] p = "built" -> {"intent_built"}
          [] p \in Gated \ {"executed"} -> {"dry_run_passed"}
          [] p = "executed" -> {"execution_allowed"}]

FlowOK == pc \notin Outside => flow \in Expected[pc]

Chosen == pre.screen \in Screens /\ Matched(Step, pre.screen) # {}

Located ==
    /\ pc # "idle" => outcome = "running"
    /\ pc \notin Outside => index \in DOMAIN scenario.steps
    /\ pc \notin Outside \cup {"capture"} \/ (pc = "capture" /\ Acted) => Status = "defined"
    /\ pc \in Acting => runner = "act" /\ Chosen
    /\ pc \in Gated => Step.eligible
    /\ pc \in Acting => disposition = "incomplete"
    /\ pc \in {"capture", "observed"} /\ ~Acted => disposition = "incomplete"
    /\ pc \notin Outside => disposition # "blocked"

Frames ==
    /\ before <= captures /\ prev <= captures /\ pre.no <= captures /\ post.no <= captures
    /\ pc = "observed" => captures > 0
    /\ pc \in Acting \cup {"verify"} => Acted
    /\ pc \in Acting \cup {"capture", "observed"} => post.no = 0
    /\ pc = "verify" /\ runner = "act" => post.no # 0
    /\ \A k \in DOMAIN stepRuns :
          /\ stepRuns[k].pre <= captures
          /\ pc = "observed" /\ ~Acted => stepRuns[k].pre < captures
          /\ pc \notin Outside /\ Acted => stepRuns[k].pre < pre.no
    /\ \A j, k \in DOMAIN stepRuns :
          j < k /\ stepRuns[k].final = "verified" => stepRuns[j].pre < stepRuns[k].pre

Clicking ==
    /\ \A k \in DOMAIN stepRuns : stepRuns[k].step = k
    /\ pc # "idle" => Len(stepRuns) = index - 1
    /\ pc # "idle" => \A k \in DOMAIN clicks : clicks[k].step <= index
    /\ pc = "step" => \A k \in DOMAIN clicks : clicks[k].step < index
    /\ pc \notin Outside =>
          ((\E k \in DOMAIN clicks : clicks[k].step = index)
              <=> pc \in {"clicked", "executed"} \/ disposition = "real_click_executed")
    /\ \A k \in DOMAIN clicks :
          /\ clicks[k].after <= captures
          /\ pc \notin Outside /\ clicks[k].step = index =>
                /\ before <= clicks[k].after /\ Acted
                /\ pc = "observed" => clicks[k].after < captures
                /\ post.no # 0 => clicks[k].after < post.no

Halting ==
    /\ "kill" \in held => killed
    /\ "pause" \in held => paused
    /\ pc = "pause" => "kill" \notin held
    /\ pc = "gates" /\ verdict = "allow" =>
          held = {} /\ Rules(policy, StepIntent, config.live) = "allow"

IInv ==
    /\ TypeOK /\ FlowOK /\ Located /\ Frames /\ Clicking /\ Halting
    /\ ClickJustified /\ ClicksReported /\ VerifiedAcrossClick
    /\ StagesAgree /\ CompletedMeansVerified

----------------------------------------------------------------------------
(* The choice of a candidate and the gates it passes. *)

(* Precedes is a strict total order on the candidates of a screen. *)
LEMMA PrecedesOrders ==
    ASSUME NEW screen \in Screen, NEW i \in DOMAIN screen, NEW j \in DOMAIN screen
    PROVE  /\ ~(Precedes(screen, i, j) /\ Precedes(screen, j, i))
           /\ ~Precedes(screen, i, i)
           /\ i # j => Precedes(screen, i, j) \/ Precedes(screen, j, i)
           /\ \A k \in DOMAIN screen :
                 Precedes(screen, i, j) /\ Precedes(screen, j, k) => Precedes(screen, i, k)
<1>1. PICK I \in SUBSET CandidateIds : screen \in [I -> Candidate]
  BY DEF Screen
<1>2. DOMAIN screen \subseteq Nat
  BY <1>1, CandidateIdsAssumption
<1>3. ASSUME NEW k \in DOMAIN screen  PROVE screen[k].score \in Nat
  <2>1. screen[k] \in Candidate
    BY <1>1
  <2>2. screen[k].score \in 0..MaxScore
    BY <2>1 DEF Candidate
  <2> QED  BY <2>2, ScoreAssumption
<1> QED  BY <1>2, <1>3 DEF Precedes

(* The candidates a step matches are on the screen, and finitely many. *)
LEMMA MatchedOnScreen ==
    ASSUME NEW step, NEW screen \in Screen
    PROVE  /\ Matched(step, screen) \subseteq DOMAIN screen
           /\ DOMAIN screen \subseteq CandidateIds
           /\ IsFiniteSet(Matched(step, screen))
<1>1. Matched(step, screen) \subseteq DOMAIN screen
  BY DEF Matched, Exposed, Unfiltered
<1>2. DOMAIN screen \subseteq CandidateIds
  BY DEF Screen
<1>3. Matched(step, screen) \in SUBSET CandidateIds
  BY <1>1, <1>2
<1>4. IsFiniteSet(Matched(step, screen))
  BY <1>3, FS_Subset, CandidateIdsAssumption
<1> QED  BY <1>1, <1>2, <1>4

(* Whenever some candidate matches there is a best one: of the sets of     *)
(* candidates that come before a given one, one is minimal.                *)
LEMMA BestExists ==
    ASSUME NEW step, NEW screen \in Screen, Matched(step, screen) # {}
    PROVE  \E i \in Matched(step, screen) :
               \A j \in Matched(step, screen) \ {i} : Precedes(screen, i, j)
<1> DEFINE S == Matched(step, screen)
           UpTo(i) == {j \in S : j = i \/ Precedes(screen, j, i)}
           All == {UpTo(i) : i \in S}
<1>1. IsFiniteSet(S) /\ S \subseteq DOMAIN screen
  BY MatchedOnScreen
<1>2. IsWellFoundedOn(StrictSubsetOrdering(S), FiniteSubsetsOf(S))
  BY FS_StrictSubsetOrderingWellFounded
<1>3. All \subseteq FiniteSubsetsOf(S) /\ All # {}
  <2>1. FiniteSubsetsOf(S) = SUBSET S
    BY <1>1, FS_FiniteSubsetsOfFinite
  <2>2. \A i \in S : UpTo(i) \in SUBSET S
    OBVIOUS
  <2>3. S # {}
    OBVIOUS
  <2> HIDE DEF UpTo, S
  <2> QED  BY <2>1, <2>2, <2>3
<1>4. PICK T \in All : \A U \in All : <<U, T>> \notin StrictSubsetOrdering(S)
  <2> HIDE DEF All
  <2> QED  BY <1>2, <1>3, WFMin
<1>5. PICK i \in S : T = UpTo(i)
  OBVIOUS
<1>6. ASSUME NEW j \in S \ {i}, ~Precedes(screen, i, j)
      PROVE  FALSE
  <2>1. Precedes(screen, j, i)
    BY <1>1, <1>6, PrecedesOrders
  <2>2. UpTo(j) \subseteq UpTo(i)
    <3> SUFFICES ASSUME NEW k \in S, k = j \/ Precedes(screen, k, j)
                 PROVE  Precedes(screen, k, i)
      OBVIOUS
    <3> QED  BY <1>1, <2>1, PrecedesOrders
  <2>3. i \in UpTo(i) /\ i \notin UpTo(j)
    BY <1>1, <2>1, <1>6, PrecedesOrders
  <2>4. UpTo(i) \in SUBSET S /\ UpTo(j) \in SUBSET S /\ UpTo(j) \in All
    OBVIOUS
  <2>5. <<UpTo(j), UpTo(i)>> \in StrictSubsetOrdering(S)
    <3> HIDE DEF UpTo, S
    <3> QED  BY <2>2, <2>3, <2>4 DEF StrictSubsetOrdering
  <2> QED  BY <1>4, <1>5, <2>4, <2>5
<1> QED  BY <1>6

(* The candidate a step selects matches it, and none that matches is better. *)
LEMMA SelectedBest ==
    ASSUME NEW step, NEW screen \in Screen, Matched(step, screen) # {}
    PROVE  /\ Selected(step, screen) \in Matched(step, screen)
           /\ \A j \in Matched(step, screen) : ~Precedes(screen, j, Selected(step, screen))
<1> DEFINE S == Matched(step, screen)
           sel == Selected(step, screen)
<1>1. sel \in S /\ \A j \in S \ {sel} : Precedes(screen, sel, j)
  BY BestExists DEF Selected
<1>2. S \subseteq DOMAIN screen
  BY MatchedOnScreen
<1>3. ASSUME NEW j \in S, Precedes(screen, j, sel)  PROVE FALSE
  BY <1>1, <1>2, <1>3, PrecedesOrders
<1> QED  BY <1>1, <1>3

(* What the open gates say of the candidate behind the intent. *)
LEMMA GatesJustify ==
    ASSUME NEW step, NEW screen \in Screen, NEW i \in DOMAIN screen, NEW c, NEW v,
           BoundaryOpen(Intent(step, screen, i), screen, c, v)
    PROVE  /\ v = "allow" /\ c.live
           /\ screen[i].visible /\ Complete(screen[i])
           /\ screen[i].score >= ClickScore
           /\ screen[i].place \notin Degenerate
<1> DEFINE n == Intent(step, screen, i)
<1>1. /\ n.candidate = i /\ n.visible = screen[i].visible
      /\ n.complete = Complete(screen[i]) /\ n.score = screen[i].score
      /\ n.place = screen[i].place
  BY DEF Intent
<1>2. ClickFit(n, screen, c) /\ v = "allow"
  BY DEF BoundaryOpen
<1>3. /\ c.live /\ n.complete /\ n.score >= ClickScore /\ n.place \notin Degenerate
      /\ DryRun(n, screen) = "would_execute"
  BY <1>2 DEF ClickFit
<1>4. screen[n.candidate].visible
  BY <1>3 DEF DryRun
<1> QED  BY <1>1, <1>2, <1>3, <1>4

----------------------------------------------------------------------------
(* Facts about types, and about the table of the state machine. *)

(* What the types say of indices, snapshots and records. *)
LEMMA Typed ==
    ASSUME TypeOK
    PROVE  /\ scenario.steps \in Seq(StepDefinition)
           /\ index \in Nat /\ 1 <= index /\ index <= Len(scenario.steps) + 1
           /\ pre.no \in Nat /\ post.no \in Nat
           /\ pre.screen \in Screens \cup {<<>>} /\ post.screen \in Screens \cup {<<>>}
           /\ \A k \in DOMAIN stepRuns : stepRuns[k].pre \in Nat
           /\ \A k \in DOMAIN clicks : clicks[k].step \in Nat /\ clicks[k].after \in Nat
<1>1. scenario \in Scenario
  <2>1. Nothing \in Scenario
    BY DEF Nothing, Scenario
  <2> QED  BY <2>1, ScenariosAssumption DEF TypeOK
<1>2. scenario.steps \in Seq(StepDefinition)
  BY <1>1 DEF Scenario
<1>3. Len(scenario.steps) \in Nat
  BY <1>2
<1>4. index \in 1..(Len(scenario.steps) + 1)
  BY DEF TypeOK
<1>5. /\ pre.no \in Nat /\ post.no \in Nat
      /\ pre.screen \in Screens \cup {<<>>} /\ post.screen \in Screens \cup {<<>>}
  BY DEF TypeOK, Snapshot
<1>6. ASSUME NEW k \in DOMAIN stepRuns  PROVE stepRuns[k].pre \in Nat
  <2>1. stepRuns \in Seq(StepRun)
    BY DEF TypeOK
  <2>2. stepRuns[k] \in StepRun
    BY <2>1
  <2> QED  BY <2>2 DEF StepRun
<1>7. ASSUME NEW k \in DOMAIN clicks  PROVE clicks[k].step \in Nat /\ clicks[k].after \in Nat
  <2>1. clicks \in Seq(ClickRecord)
    BY DEF TypeOK
  <2>2. clicks[k] \in ClickRecord
    BY <2>1
  <2> QED  BY <2>2 DEF ClickRecord
<1> QED  BY <1>2, <1>3, <1>4, <1>5, <1>6, <1>7

(* The transitions the runners ask for. *)
LEMMA Table ==
    /\ \A s \in {"started", "observed", "understood", "candidate_selected", "intent_built",
                 "dry_run_passed", "execution_allowed", "executed"} :
          "recovery_needed" \in Flow!Allowed[s] /\ "aborted" \in Flow!Allowed[s]
    /\ \A s \in {"started", "dry_run_passed", "execution_allowed", "executed"} :
          "observed" \in Flow!Allowed[s]
    /\ "blocked" \in Flow!Allowed["intent_built"] /\ "blocked" \in Flow!Allowed["dry_run_passed"]
    /\ "understood" \in Flow!Allowed["observed"]
    /\ "candidate_selected" \in Flow!Allowed["understood"]
    /\ "intent_built" \in Flow!Allowed["candidate_selected"]
    /\ "dry_run_passed" \in Flow!Allowed["intent_built"]
    /\ "execution_allowed" \in Flow!Allowed["dry_run_passed"]
    /\ "executed" \in Flow!Allowed["execution_allowed"]
    /\ "verification_passed" \in Flow!Allowed["understood"]
    /\ "verification_failed" \in Flow!Allowed["understood"]
    /\ "started" \in Flow!Allowed["none"]
<1>1. ASSUME NEW s \in {"started", "observed", "understood", "candidate_selected", "intent_built",
                       "dry_run_passed", "execution_allowed", "executed"}
      PROVE  "recovery_needed" \in Flow!Allowed[s] /\ "aborted" \in Flow!Allowed[s]
  BY DEF Flow!Allowed, Flow!FlowStates, Flow!Setbacks, Flow!Verdicts
<1>2. ASSUME NEW s \in {"started", "dry_run_passed", "execution_allowed", "executed"}
      PROVE  "observed" \in Flow!Allowed[s]
  BY DEF Flow!Allowed, Flow!FlowStates, Flow!Setbacks, Flow!Verdicts
<1>3. /\ "blocked" \in Flow!Allowed["intent_built"] /\ "blocked" \in Flow!Allowed["dry_run_passed"]
      /\ "understood" \in Flow!Allowed["observed"]
      /\ "candidate_selected" \in Flow!Allowed["understood"]
      /\ "intent_built" \in Flow!Allowed["candidate_selected"]
  BY DEF Flow!Allowed, Flow!FlowStates, Flow!Setbacks, Flow!Verdicts
<1>4. /\ "dry_run_passed" \in Flow!Allowed["intent_built"]
      /\ "execution_allowed" \in Flow!Allowed["dry_run_passed"]
      /\ "executed" \in Flow!Allowed["execution_allowed"]
      /\ "verification_passed" \in Flow!Allowed["understood"]
      /\ "verification_failed" \in Flow!Allowed["understood"]
      /\ "started" \in Flow!Allowed["none"]
  BY DEF Flow!Allowed, Flow!FlowStates, Flow!Setbacks, Flow!Verdicts
<1> QED  BY <1>1, <1>2, <1>3, <1>4

(* Where the machine may be, place by place. *)
LEMMA FlowAt ==
    /\ Expected["capture"] = {"started", "dry_run_passed", "execution_allowed", "executed"}
    /\ Expected["observed"] = {"observed"}
    /\ \A p \in {"unmatched", "understood", "verify"} : Expected[p] = {"understood"}
    /\ Expected["selected"] = {"candidate_selected"}
    /\ Expected["built"] = {"intent_built"}
    /\ \A p \in Gated \ {"executed"} : Expected[p] = {"dry_run_passed"}
    /\ Expected["executed"] = {"execution_allowed"}
  BY DEF Expected, PcStates, Outside, Gated

----------------------------------------------------------------------------
(* The end of a step. *)

StepEnds ==
    \/ Invalid \/ Incomplete \/ CaptureFails \/ UnderstandFails \/ Unmatched \/ ScaffoldFails
    \/ DryRunSetback \/ DryRunBlocks \/ SafeClickFails \/ Blocked \/ Verify

(* What all the places where a step returns have in common. *)
Ends(final, to, d, r, s) ==
    /\ EndStep(final, to, d, r, s) /\ UNCHANGED captures
    /\ pc \in PcStates \ (Outside \cup {"clicked", "executed"})
    /\ to \in EndOf[final] /\ to \in Flow!Allowed[flow] /\ (to = "blocked" <=> d = "blocked")
    /\ d \in Dispositions /\ (d # disposition => d = "blocked" /\ disposition = "incomplete")
    /\ r.no \in {0, captures, pre.no} /\ s.no \in {0, captures, post.no}
    /\ final = "verified" => pc = "verify" /\ r = pre /\ s = post

Ending ==
    \E final \in FinalStages, to \in Flow!FlowStates, d \in Dispositions,
       r \in Snapshot, s \in Snapshot : Ends(final, to, d, r, s)

(* A step may need recovery wherever the runner is within it. *)
LEMMA SetbackEnds ==
    ASSUME TypeOK, FlowOK, Located, pc \in PcStates \ (Outside \cup {"clicked", "executed"}),
           NEW r \in Snapshot, NEW s \in Snapshot,
           r.no \in {0, captures, pre.no}, s.no \in {0, captures, post.no},
           Setback(r, s), UNCHANGED captures
    PROVE  Ending
<1>1. EndStep("incomplete", "recovery_needed", disposition, r, s)
  BY DEF Setback
<1>2. disposition \in Dispositions /\ disposition # "blocked"
  BY DEF TypeOK, Located
<1>3. "recovery_needed" \in Flow!Allowed[flow]
  <2>1. flow \in Expected[pc]
    BY DEF FlowOK
  <2> QED  BY <2>1, FlowAt, Table DEF PcStates, Outside, Gated
<1>4. "recovery_needed" \in EndOf["incomplete"] /\ "incomplete" \in FinalStages
      /\ "recovery_needed" \in Flow!FlowStates
  BY DEF EndOf, FinalStages, Flow!FlowStates
<1>5. Ends("incomplete", "recovery_needed", disposition, r, s)
  BY <1>1, <1>2, <1>3, <1>4 DEF Ends
<1> QED  BY <1>2, <1>4, <1>5 DEF Ending

(* Every place where a step returns is such an end. *)
LEMMA StepEndsEnd == IInv /\ StepEnds => Ending
<1> SUFFICES ASSUME IInv, StepEnds PROVE Ending
  OBVIOUS
<1> USE DEF IInv
<1>0. /\ pre \in Snapshot /\ post \in Snapshot /\ captures \in Nat
      /\ [no |-> 0, screen |-> <<>>] \in Snapshot /\ [no |-> captures, screen |-> <<>>] \in Snapshot
      /\ disposition \in Dispositions
  BY DEF TypeOK, Snapshot
<1>1. CASE Invalid
  <2>1. pc = "capture" /\ EndStep("failed", "aborted", disposition, pre, post) /\ UNCHANGED captures
    BY <1>1 DEF Invalid
  <2>2. disposition # "blocked"
    BY <2>1 DEF Located, Outside
  <2>3. "aborted" \in Flow!Allowed[flow]
    BY <2>1, FlowAt, Table DEF FlowOK, Outside
  <2>4. "aborted" \in EndOf["failed"] /\ "failed" \in FinalStages /\ "aborted" \in Flow!FlowStates
    BY DEF EndOf, FinalStages, Flow!FlowStates
  <2>5. Ends("failed", "aborted", disposition, pre, post)
    BY <1>0, <2>1, <2>2, <2>3, <2>4 DEF Ends, PcStates, Outside
  <2> QED  BY <1>0, <2>4, <2>5 DEF Ending
<1>2. CASE Incomplete \/ CaptureFails \/ Unmatched \/ ScaffoldFails \/ DryRunSetback \/ SafeClickFails
  <2>1. /\ pc \in {"capture", "unmatched", "understood", "built", "safeClick", "killSwitch", "pause", "gates"}
        /\ Setback(pre, post) /\ UNCHANGED captures
    BY <1>2 DEF Incomplete, CaptureFails, Unmatched, ScaffoldFails, DryRunSetback, SafeClickFails
  <2>2. pc \in PcStates \ (Outside \cup {"clicked", "executed"})
    BY <2>1 DEF PcStates, Outside
  <2> QED  BY <1>0, <2>1, <2>2, SetbackEnds
<1>3. CASE UnderstandFails
  <2>1. pc = "observed" /\ UNCHANGED captures
    BY <1>3 DEF UnderstandFails
  <2>2. PICK no \in {0, captures} :
            IF Acted THEN Setback(pre, [no |-> no, screen |-> <<>>])
                     ELSE Setback([no |-> no, screen |-> <<>>], post)
    BY <1>3 DEF UnderstandFails
  <2>3. [no |-> no, screen |-> <<>>] \in Snapshot
    BY <1>0
  <2>4. pc \in PcStates \ (Outside \cup {"clicked", "executed"})
    BY <2>1 DEF PcStates, Outside
  <2>5. CASE Acted
    BY <1>0, <2>1, <2>2, <2>3, <2>4, <2>5, SetbackEnds
  <2>6. CASE ~Acted
    BY <1>0, <2>1, <2>2, <2>3, <2>4, <2>6, SetbackEnds
  <2> QED  BY <2>5, <2>6
<1>4. CASE DryRunBlocks \/ Blocked
  <2>1. pc \in {"built", "gates"} /\ EndStep("failed", "blocked", "blocked", pre, post) /\ UNCHANGED captures
    BY <1>4 DEF DryRunBlocks, Blocked
  <2>2. disposition = "incomplete"
    BY <2>1 DEF Located, Acting, Gated
  <2>3. "blocked" \in Flow!Allowed[flow]
    BY <2>1, FlowAt, Table DEF FlowOK, Outside, Gated
  <2>4. /\ "blocked" \in EndOf["failed"] /\ "failed" \in FinalStages /\ "blocked" \in Flow!FlowStates
        /\ "blocked" \in Dispositions
    BY DEF EndOf, FinalStages, Flow!FlowStates, Dispositions
  <2>5. Ends("failed", "blocked", "blocked", pre, post)
    BY <1>0, <2>1, <2>2, <2>3, <2>4 DEF Ends, PcStates, Outside
  <2> QED  BY <1>0, <2>4, <2>5 DEF Ending
<1>5. CASE Verify
  <2>1. pc = "verify" /\ UNCHANGED captures
    BY <1>5 DEF Verify
  <2>2. pc \in PcStates \ (Outside \cup {"clicked", "executed"})
    BY <2>1 DEF PcStates, Outside
  <2>3. disposition # "blocked" /\ flow = "understood"
    BY <2>1, FlowAt DEF Located, FlowOK, Outside
  <2>4. CASE Setback(pre, post)
    BY <1>0, <2>1, <2>2, <2>4, SetbackEnds
  <2>5. CASE EndStep("verified", "verification_passed", disposition, pre, post)
    <3>1. /\ "verification_passed" \in EndOf["verified"] /\ "verified" \in FinalStages
          /\ "verification_passed" \in Flow!FlowStates
      BY DEF EndOf, FinalStages, Flow!FlowStates
    <3>2. Ends("verified", "verification_passed", disposition, pre, post)
      BY <1>0, <2>1, <2>2, <2>3, <2>5, <3>1, Table DEF Ends
    <3> QED  BY <1>0, <3>1, <3>2 DEF Ending
  <2>6. CASE EndStep("failed", "verification_failed", disposition, pre, post)
    <3>1. /\ "verification_failed" \in EndOf["failed"] /\ "failed" \in FinalStages
          /\ "verification_failed" \in Flow!FlowStates
      BY DEF EndOf, FinalStages, Flow!FlowStates
    <3>2. Ends("failed", "verification_failed", disposition, pre, post)
      BY <1>0, <2>1, <2>2, <2>3, <2>6, <3>1, Table DEF Ends
    <3> QED  BY <1>0, <3>1, <3>2 DEF Ending
  <2> QED  BY <1>5, <2>4, <2>5, <2>6 DEF Verify
<1> QED  BY <1>1, <1>2, <1>3, <1>4, <1>5 DEF StepEnds

(* The end of a step keeps the invariant. *)
LEMMA EndingKeeps == IInv /\ Ending => IInv'
<1> SUFFICES ASSUME IInv, Ending PROVE IInv'
  OBVIOUS
<1> USE DEF IInv
<1>1. PICK final \in FinalStages, to \in Flow!FlowStates, d \in Dispositions,
           r \in Snapshot, s \in Snapshot : Ends(final, to, d, r, s)
  BY DEF Ending
<1> DEFINE rec == [step |-> index, final |-> final, flow |-> to, disposition |-> d,
                   before |-> before, pre |-> r.no, post |-> s.no]
           n == Len(stepRuns) + 1
<1>2. /\ EndStep(final, to, d, r, s) /\ captures' = captures
      /\ pc \in PcStates \ (Outside \cup {"clicked", "executed"})
      /\ to \in EndOf[final] /\ (to = "blocked" <=> d = "blocked")
      /\ d # disposition => d = "blocked" /\ disposition = "incomplete"
      /\ r.no \in {0, captures, pre.no} /\ s.no \in {0, captures, post.no}
      /\ final = "verified" => pc = "verify" /\ r = pre /\ s = post
  BY <1>1 DEF Ends
<1>3. /\ stepRuns' = Append(stepRuns, rec)
      /\ before' = (IF s.no # 0 THEN s.no ELSE IF r.no # 0 THEN r.no ELSE before)
      /\ flow' = to /\ index' = index + 1 /\ pc' = "step"
      /\ pre' = NoSnapshot /\ post' = NoSnapshot /\ disposition' = "incomplete" /\ verdict' = "none"
      /\ runner' = runner /\ policy' = policy /\ scenario' = scenario /\ config' = config
      /\ killed' = killed /\ paused' = paused /\ toggles' = toggles
      /\ prev' = prev /\ outcome' = outcome /\ runs' = runs /\ clicks' = clicks /\ held' = held
  BY <1>2 DEF EndStep, runVars, operatorVars
<1>4. /\ pc \notin Outside /\ pc # "idle" /\ pc' \in Outside /\ pc' = "step"
      /\ pc' \in PcStates /\ pc \notin {"clicked", "executed"}
  BY <1>2, <1>3 DEF Outside, PcStates
<1>5. /\ index \in Nat /\ index >= 1 /\ index <= Len(scenario.steps) /\ Len(scenario.steps) \in Nat
      /\ pre.no \in Nat /\ post.no \in Nat /\ r.no \in Nat /\ s.no \in Nat
      /\ before \in Nat /\ captures \in Nat
  <2>1. index \in DOMAIN scenario.steps
    BY <1>4 DEF Located
  <2>2. scenario.steps \in Seq(StepDefinition)
    BY Typed
  <2> QED  BY <2>1, <2>2, Typed DEF TypeOK, Snapshot
<1>6. rec \in StepRun
  BY <1>5 DEF StepRun
<1>7. /\ stepRuns' \in Seq(StepRun) /\ Len(stepRuns) \in Nat
      /\ DOMAIN stepRuns' = 1..n /\ DOMAIN stepRuns = 1..(n - 1)
      /\ stepRuns'[n] = rec
      /\ \A k \in DOMAIN stepRuns : stepRuns'[k] = stepRuns[k]
      /\ \A k \in DOMAIN stepRuns' : k = n \/ k \in DOMAIN stepRuns
  BY <1>3, <1>6 DEF TypeOK
<1> HIDE DEF rec
<1>8. n = index
  BY <1>4, <1>5, <1>7 DEF Clicking
<1>9. /\ rec.step = index /\ rec.final = final /\ rec.flow = to /\ rec.disposition = d
      /\ rec.before = before /\ rec.pre = r.no /\ rec.post = s.no
  BY DEF rec
<1>10. TypeOK'
  <2>1. index' \in 1..(Len(scenario'.steps) + 1)
    BY <1>3, <1>5
  <2>2. before' \in Nat /\ captures' \in Nat
    BY <1>2, <1>3, <1>5
  <2>3. NoSnapshot \in Snapshot
    BY DEF NoSnapshot, Snapshot
  <2>4. "incomplete" \in Dispositions /\ flow' \in Flow!FlowStates \cup {"none"}
    BY <1>3 DEF Dispositions
  <2> QED  BY <1>3, <1>4, <1>7, <2>1, <2>2, <2>3, <2>4 DEF TypeOK
<1>11. FlowOK' /\ Located'
  BY <1>3, <1>4 DEF FlowOK, Located, Acting, Gated, Outside
<1>12. Frames'
  <2>1. /\ before <= captures /\ prev <= captures /\ pre.no <= captures /\ post.no <= captures
    BY DEF Frames
  <2>2. before' <= captures' /\ prev' <= captures' /\ pre'.no <= captures' /\ post'.no <= captures'
    BY <1>2, <1>3, <1>5, <2>1 DEF NoSnapshot
  <2>3. ASSUME NEW k \in DOMAIN stepRuns'  PROVE stepRuns'[k].pre <= captures'
    BY <1>2, <1>5, <1>7, <1>9, <2>1, <2>3 DEF Frames
  <2>4. ASSUME NEW j \in DOMAIN stepRuns', NEW k \in DOMAIN stepRuns', j < k,
               stepRuns'[k].final = "verified"
        PROVE  stepRuns'[j].pre < stepRuns'[k].pre
    <3>1. j \in DOMAIN stepRuns
      BY <1>7, <2>4
    <3>2. CASE k \in DOMAIN stepRuns
      BY <1>7, <2>4, <3>1, <3>2 DEF Frames
    <3>3. CASE k = n
      <4>1. pc = "verify" /\ r = pre
        BY <1>2, <1>7, <1>9, <2>4, <3>3
      <4>2. Acted
        BY <4>1 DEF Frames
      <4>3. stepRuns[j].pre < pre.no
        BY <1>4, <3>1, <4>2 DEF Frames
      <4> QED  BY <1>7, <1>9, <3>1, <3>3, <4>1, <4>3
    <3> QED  BY <1>7, <3>2, <3>3
  <2>5. pc' \notin {"observed", "verify"} /\ pc' \notin Acting \cup {"capture", "observed"}
    BY <1>3 DEF Acting, Gated
  <2> QED  BY <1>4, <2>2, <2>3, <2>4, <2>5 DEF Frames
<1>13. Clicking'
  <2>1. ASSUME NEW k \in DOMAIN stepRuns'  PROVE stepRuns'[k].step = k
    BY <1>7, <1>8, <1>9 DEF Clicking
  <2>2. Len(stepRuns') = index' - 1
    BY <1>3, <1>5, <1>7, <1>8
  <2>3. ASSUME NEW k \in DOMAIN clicks'
        PROVE  clicks'[k].step < index' /\ clicks'[k].after <= captures'
    <3>1. clicks[k].step \in Nat /\ clicks[k].step <= index /\ clicks[k].after <= captures
      <4>1. clicks[k] \in ClickRecord
        BY <1>3 DEF TypeOK
      <4> QED  BY <1>3, <1>4, <4>1 DEF Clicking, ClickRecord
    <3> QED  BY <1>2, <1>3, <1>5, <3>1
  <2>4. ASSUME NEW k \in DOMAIN clicks'  PROVE clicks'[k].step <= index'
    <3>1. clicks'[k].step < index' /\ clicks'[k] \in ClickRecord
      BY <1>3, <2>3 DEF TypeOK
    <3> QED  BY <1>3, <1>5, <3>1 DEF ClickRecord
  <2> QED  BY <1>4, <2>1, <2>2, <2>3, <2>4 DEF Clicking
<1>14. Halting'
  BY <1>3 DEF Halting
<1>15. ClickJustified'
  BY <1>3 DEF ClickJustified
<1>16. ClicksReported'
  <2>1. ASSUME NEW k \in DOMAIN stepRuns'
        PROVE  stepRuns'[k].disposition = "real_click_executed"
                 <=> \E j \in DOMAIN clicks' : clicks'[j].step = stepRuns'[k].step
    <3>1. CASE k \in DOMAIN stepRuns
      BY <1>3, <1>7, <3>1 DEF ClicksReported
    <3>2. CASE k = n
      <4>1. (\E j \in DOMAIN clicks : clicks[j].step = index) <=> disposition = "real_click_executed"
        BY <1>4 DEF Clicking
      <4>2. d = "real_click_executed" <=> disposition = "real_click_executed"
        BY <1>2
      <4> QED  BY <1>3, <1>7, <1>9, <3>2, <4>1, <4>2
    <3> QED  BY <1>7, <3>1, <3>2
  <2> QED  BY <1>3, <2>1 DEF ClicksReported
<1>17. VerifiedAcrossClick'
  <2> SUFFICES ASSUME NEW k \in DOMAIN stepRuns', NEW j \in DOMAIN clicks',
                      stepRuns'[k].step = clicks'[j].step, stepRuns'[k].final = "verified"
               PROVE  stepRuns'[k].before <= clicks'[j].after /\ clicks'[j].after < stepRuns'[k].post
    BY DEF VerifiedAcrossClick
  <2>1. CASE k \in DOMAIN stepRuns
    BY <1>3, <1>7, <2>1 DEF VerifiedAcrossClick
  <2>2. CASE k = n
    <3>1. pc = "verify" /\ s = post /\ clicks[j].step = index /\ j \in DOMAIN clicks
      BY <1>2, <1>3, <1>7, <1>9, <2>2
    <3>2. runner = "act"
      BY <3>1 DEF ClickJustified
    <3>3. post.no # 0
      BY <3>1, <3>2 DEF Frames
    <3>4. before <= clicks[j].after /\ clicks[j].after < post.no
      BY <1>4, <3>1, <3>3 DEF Clicking
    <3> QED  BY <1>3, <1>7, <1>9, <2>2, <3>1, <3>4
  <2> QED  BY <1>7, <2>1, <2>2
<1>18. StagesAgree'
  <2> SUFFICES ASSUME NEW k \in DOMAIN stepRuns'
               PROVE  /\ stepRuns'[k].flow \in EndOf[stepRuns'[k].final]
                      /\ stepRuns'[k].flow = "blocked" <=> stepRuns'[k].disposition = "blocked"
    BY DEF StagesAgree
  <2>1. CASE k \in DOMAIN stepRuns
    BY <1>7, <2>1 DEF StagesAgree
  <2>2. CASE k = n
    BY <1>2, <1>7, <1>9, <2>2
  <2> QED  BY <1>7, <2>1, <2>2
<1>19. CompletedMeansVerified'
  BY <1>3, <1>4 DEF Located, CompletedMeansVerified
<1> QED  BY <1>10, <1>11, <1>12, <1>13, <1>14, <1>15, <1>16, <1>17, <1>18, <1>19

----------------------------------------------------------------------------
(* The steps within a step of the scenario. *)

(* What is a function of the step and of its pre-action frame stays. *)
LEMMA SameStep ==
    ASSUME scenario' = scenario, index' = index
    PROVE  /\ Step' = Step /\ Status' = Status
           /\ pre' = pre => (Chosen' <=> Chosen) /\ StepIntent' = StepIntent /\ (Acted' <=> Acted)
  BY DEF Step, Status, Chosen, StepIntent, Acted

(* What speaks of the records of the run only. *)
LEMMA RecordsKeep ==
    ASSUME IInv,
           UNCHANGED <<runner, policy, scenario, config, stepRuns, outcome, clicks>>
    PROVE  (ClickJustified /\ ClicksReported /\ VerifiedAcrossClick /\ StagesAgree
               /\ CompletedMeansVerified)'
<1>1. /\ runner' = runner /\ policy' = policy /\ scenario' = scenario /\ config' = config
      /\ stepRuns' = stepRuns /\ outcome' = outcome /\ clicks' = clicks
  OBVIOUS
<1>2. ClickJustified'
  BY <1>1 DEF IInv, ClickJustified
<1>3. ClicksReported' /\ VerifiedAcrossClick'
  BY <1>1 DEF IInv, ClicksReported, VerifiedAcrossClick
<1>4. StagesAgree' /\ CompletedMeansVerified'
  BY <1>1 DEF IInv, StagesAgree, CompletedMeansVerified
<1> QED  BY <1>2, <1>3, <1>4

(* What an Advance leaves alone. *)
LEMMA Advanced ==
    ASSUME IInv, NEW from, NEW to, NEW next, Advance(from, to, next)
    PROVE  /\ pc = from /\ pc' = next /\ flow' = to
           /\ runner' = runner /\ policy' = policy /\ scenario' = scenario /\ config' = config
           /\ killed' = killed /\ paused' = paused /\ toggles' = toggles
           /\ index' = index /\ before' = before /\ prev' = prev /\ stepRuns' = stepRuns
           /\ outcome' = outcome /\ runs' = runs /\ held' = held
           /\ Step' = Step /\ Status' = Status
           /\ pre' = pre => (Chosen' <=> Chosen) /\ StepIntent' = StepIntent /\ (Acted' <=> Acted)
<1>1. /\ pc = from /\ pc' = next /\ flow' = to
      /\ runner' = runner /\ policy' = policy /\ scenario' = scenario /\ config' = config
      /\ killed' = killed /\ paused' = paused /\ toggles' = toggles
      /\ index' = index /\ before' = before /\ prev' = prev /\ stepRuns' = stepRuns
      /\ outcome' = outcome /\ runs' = runs /\ held' = held
  BY DEF Advance, runVars, operatorVars
<1> QED  BY <1>1, SameStep

(* A frame is captured: it is newer than every frame seen and every click. *)
LEMMA CaptureKeeps == IInv /\ Capture => IInv'
<1> SUFFICES ASSUME IInv, Capture PROVE IInv'
  OBVIOUS
<1> USE DEF IInv
<1>1. /\ Advance("capture", "observed", "observed") /\ Status = "defined"
      /\ captures' = captures + 1
      /\ pre' = pre /\ post' = post /\ disposition' = disposition /\ verdict' = verdict /\ clicks' = clicks
  BY DEF Capture
<1>2. /\ pc = "capture" /\ pc' = "observed" /\ flow' = "observed"
      /\ runner' = runner /\ policy' = policy /\ scenario' = scenario /\ config' = config
      /\ killed' = killed /\ paused' = paused /\ toggles' = toggles
      /\ index' = index /\ before' = before /\ prev' = prev /\ stepRuns' = stepRuns
      /\ outcome' = outcome /\ runs' = runs /\ held' = held
      /\ Step' = Step /\ Status' = Status /\ (Chosen' <=> Chosen) /\ (Acted' <=> Acted)
  BY <1>1, Advanced
<1>3. captures \in Nat /\ before \in Nat /\ prev \in Nat /\ pre.no \in Nat /\ post.no \in Nat
  BY Typed DEF TypeOK
<1>4. TypeOK'
  BY <1>1, <1>2, <1>3 DEF TypeOK, PcStates, Flow!FlowStates
<1>5. FlowOK'
  BY <1>2, FlowAt DEF FlowOK
<1>6. Located'
  BY <1>1, <1>2 DEF Located, Outside, Acting, Gated
<1>7. Frames'
  <2>1. \A k \in DOMAIN stepRuns : stepRuns[k].pre \in Nat
    BY Typed
  <2>2. /\ before' <= captures' /\ prev' <= captures' /\ pre'.no <= captures' /\ post'.no <= captures'
        /\ captures' > 0
    BY <1>1, <1>2, <1>3 DEF Frames
  <2>3. post'.no = 0
    BY <1>1, <1>2 DEF Frames
  <2>4. ASSUME NEW k \in DOMAIN stepRuns'
        PROVE  stepRuns'[k].pre < captures' /\ (Acted' => stepRuns'[k].pre < pre'.no)
    BY <1>1, <1>2, <1>3, <2>1 DEF Frames, Outside
  <2>5. ASSUME NEW k \in DOMAIN stepRuns'  PROVE stepRuns'[k].pre <= captures'
    BY <1>1, <1>2, <1>3, <2>1 DEF Frames
  <2>6. \A j, k \in DOMAIN stepRuns' :
           j < k /\ stepRuns'[k].final = "verified" => stepRuns'[j].pre < stepRuns'[k].pre
    BY <1>2 DEF Frames
  <2>7. pc' \notin Acting \cup {"verify"}
    BY <1>2 DEF Acting, Gated
  <2> QED  BY <1>2, <2>2, <2>3, <2>4, <2>5, <2>6, <2>7 DEF Frames
<1>8. Clicking'
  <2>1. \A k \in DOMAIN clicks : clicks[k].after \in Nat
    BY Typed
  <2>2. ASSUME NEW k \in DOMAIN clicks'
        PROVE  clicks'[k].after < captures' /\ clicks'[k].after <= captures'
    BY <1>1, <1>3, <2>1 DEF Clicking
  <2> QED  BY <1>1, <1>2, <2>2 DEF Clicking, Outside
<1>9. Halting'
  BY <1>2 DEF Halting
<1> QED  BY <1>1, <1>2, <1>4, <1>5, <1>6, <1>7, <1>8, <1>9, RecordsKeep

(* The newest frame becomes pre before the action, and post after it. *)
LEMMA UnderstandKeeps == IInv /\ Understand => IInv'
<1> SUFFICES ASSUME IInv, Understand PROVE IInv'
  OBVIOUS
<1> USE DEF IInv
<1>1. PICK screen \in Screens :
          /\ Advance("observed", "understood",
                     IF ~(Matched(Step, screen) # {}) THEN "unmatched"
                     ELSE IF Acted \/ runner = "verify" THEN "verify" ELSE "understood")
          /\ IF Acted THEN post' = [no |-> captures, screen |-> screen] /\ UNCHANGED pre
                      ELSE pre' = [no |-> captures, screen |-> screen] /\ UNCHANGED post
          /\ UNCHANGED <<disposition, verdict, captures, clicks>>
  BY DEF Understand
<1>2. /\ pc = "observed" /\ pc' \in {"unmatched", "verify", "understood"} /\ flow' = "understood"
      /\ runner' = runner /\ policy' = policy /\ scenario' = scenario /\ config' = config
      /\ killed' = killed /\ paused' = paused /\ toggles' = toggles
      /\ index' = index /\ before' = before /\ prev' = prev /\ stepRuns' = stepRuns
      /\ outcome' = outcome /\ runs' = runs /\ held' = held
      /\ Step' = Step /\ Status' = Status
      /\ disposition' = disposition /\ verdict' = verdict /\ captures' = captures /\ clicks' = clicks
  BY <1>1, Advanced
<1>3. /\ pc' = "understood" => Matched(Step, screen) # {} /\ ~Acted /\ runner = "act"
      /\ pc' = "verify" => Acted \/ runner = "verify"
  BY <1>1, <1>2, Advanced DEF TypeOK
<1>4. /\ captures \in Nat /\ captures > 0 /\ before \in Nat /\ prev \in Nat
      /\ pre.no \in Nat /\ post.no \in Nat /\ post.no = 0
  BY <1>2, Typed DEF TypeOK, Frames
<1>5. /\ Acted => pre' = pre /\ post'.no = captures /\ post'.screen = screen
      /\ ~Acted => post' = post /\ pre'.no = captures /\ pre'.screen = screen /\ pre.no = 0
      /\ pre'.no # 0 /\ Acted'
  BY <1>1, <1>4 DEF Acted
<1>6. TypeOK'
  <2>1. [no |-> captures, screen |-> screen] \in Snapshot
    BY <1>4 DEF Snapshot
  <2>2. pre' \in Snapshot /\ post' \in Snapshot
    BY <1>1, <2>1 DEF TypeOK
  <2> QED  BY <1>2, <2>2 DEF TypeOK, PcStates, Flow!FlowStates
<1>7. FlowOK'
  BY <1>2, FlowAt DEF FlowOK
<1>8. Located'
  <2>1. pc' = "understood" => runner' = "act" /\ Chosen' /\ disposition' = "incomplete"
    BY <1>2, <1>3, <1>5 DEF Chosen, Located
  <2> QED  BY <1>2, <2>1 DEF Located, Outside, Acting, Gated
<1>9. Frames'
  <2>1. \A k \in DOMAIN stepRuns : stepRuns[k].pre \in Nat
    BY Typed
  <2>2. /\ before' <= captures' /\ prev' <= captures' /\ pre'.no <= captures' /\ post'.no <= captures'
    BY <1>2, <1>4, <1>5 DEF Frames
  <2>3. pc' \in Acting \cup {"capture", "observed"} => post'.no = 0
    BY <1>2, <1>3, <1>4, <1>5 DEF Acting, Gated
  <2>4. pc' = "verify" /\ runner' = "act" => post'.no # 0
    BY <1>2, <1>3, <1>4, <1>5
  <2>5. ASSUME NEW k \in DOMAIN stepRuns'
        PROVE  stepRuns'[k].pre < pre'.no /\ stepRuns'[k].pre <= captures'
    <3>1. CASE Acted
      BY <1>2, <1>5, <2>1, <3>1 DEF Frames, Outside
    <3>2. CASE ~Acted
      BY <1>2, <1>5, <2>1, <3>2 DEF Frames, Outside
    <3> QED  BY <3>1, <3>2
  <2>6. \A j, k \in DOMAIN stepRuns' :
           j < k /\ stepRuns'[k].final = "verified" => stepRuns'[j].pre < stepRuns'[k].pre
    BY <1>2 DEF Frames
  <2> QED  BY <1>2, <1>5, <2>2, <2>3, <2>4, <2>5, <2>6 DEF Frames
<1>10. Clicking'
  <2>1. ASSUME NEW k \in DOMAIN clicks', clicks'[k].step = index'
        PROVE  before' <= clicks'[k].after /\ (post'.no # 0 => clicks'[k].after < post'.no)
    BY <1>2, <1>4, <1>5, <2>1 DEF Clicking, Outside
  <2> QED  BY <1>2, <1>5, <2>1 DEF Clicking, Outside
<1>11. Halting'
  BY <1>2 DEF Halting
<1> QED  BY <1>2, <1>6, <1>7, <1>8, <1>9, <1>10, <1>11, RecordsKeep

(* The steps of the runner on its way from the choice of a candidate to    *)
(* the second capture, the click apart, and what they have in common.      *)
Resolves ==
    \/ Select \/ BuildIntent \/ DryRunPasses
    \/ DryRunOnly \/ AskPolicy \/ ReadKillSwitch \/ ReadPause \/ AllowOnly
    \/ Clicked \/ Executed

Moves(from, to, next) ==
    /\ Advance(from, to, next) /\ from \in Acting /\ next \in Acting \cup {"capture"}
    /\ UNCHANGED <<pre, post, captures, clicks>>
    /\ to \in Expected[next] /\ (to = flow \/ to \in Flow!Allowed[flow]) /\ to \in Flow!FlowStates
    /\ disposition' \in Dispositions \ {"blocked"}
    /\ verdict' \in {"none", "deny", "review", "allow"}
    /\ next \in Acting => disposition' = disposition
    /\ next \in Gated => Step.eligible
    /\ (next \in {"clicked", "executed"} \/ disposition' = "real_click_executed")
          <=> from \in {"clicked", "executed"}
    /\ next = "pause" => "kill" \notin held
    /\ next = "gates" /\ verdict' = "allow" =>
          held = {} /\ Rules(policy, StepIntent, config.live) = "allow"

Moving ==
    \E from \in Acting, to \in Flow!FlowStates, next \in Acting \cup {"capture"} : Moves(from, to, next)

(* Each of these actions is such a move. *)
LEMMA ResolvesMove == IInv /\ Resolves => Moving
<1> SUFFICES ASSUME IInv, Resolves PROVE Moving
  OBVIOUS
<1>0. /\ disposition \in Dispositions /\ verdict \in {"none", "deny", "review", "allow"}
      /\ flow \in Flow!FlowStates \cup {"none"}
      /\ pc \in Acting => disposition = "incomplete"
      /\ pc \in Gated => Step.eligible
      /\ pc \notin Outside => flow \in Expected[pc]
  BY DEF IInv, TypeOK, Located, FlowOK
<1>1. {"dry_run_only", "real_click_eligible", "real_click_executed", "incomplete"}
         \subseteq Dispositions \ {"blocked"}
  BY DEF Dispositions
<1>2. {"candidate_selected", "intent_built", "dry_run_passed", "execution_allowed", "executed"}
         \subseteq Flow!FlowStates
  BY DEF Flow!FlowStates
<1>3. Rules(policy, StepIntent, config.live) \in {"deny", "review", "allow"}
  BY DEF Rules
<1>4. CASE Select
  <2>1. Advance("understood", "candidate_selected", "selected") /\ pc = "understood"
    BY <1>4 DEF Select, Advance
  <2>2. flow = "understood"
    BY <1>0, <2>1, FlowAt DEF Outside
  <2>3. Moves("understood", "candidate_selected", "selected")
    BY <1>0, <1>1, <1>2, <1>4, <2>1, <2>2, FlowAt, Table DEF Moves, Select, Acting, Gated
  <2> QED  BY <1>2, <2>3 DEF Moving, Acting
<1>5. CASE BuildIntent
  <2>1. Advance("selected", "intent_built", "built") /\ pc = "selected"
    BY <1>5 DEF BuildIntent, Advance
  <2>2. flow = "candidate_selected"
    BY <1>0, <2>1, FlowAt DEF Outside
  <2>3. Moves("selected", "intent_built", "built")
    BY <1>0, <1>1, <1>2, <1>5, <2>1, <2>2, FlowAt, Table DEF Moves, BuildIntent, Acting, Gated
  <2> QED  BY <1>2, <2>3 DEF Moving, Acting
<1>6. CASE DryRunPasses
  <2>1. pc = "built" /\ Advance("built", "dry_run_passed", IF Step.eligible THEN "safeClick" ELSE "capture")
    BY <1>6 DEF DryRunPasses, Advance
  <2>2. flow = "intent_built"
    BY <1>0, <2>1, FlowAt DEF Outside
  <2>3. CASE Step.eligible
    <3>1. Moves("built", "dry_run_passed", "safeClick")
      BY <1>0, <1>1, <1>2, <1>6, <2>1, <2>2, <2>3, FlowAt, Table DEF Moves, DryRunPasses, Acting, Gated
    <3> QED  BY <1>2, <3>1 DEF Moving, Acting, Gated
  <2>4. CASE ~Step.eligible
    <3>1. Moves("built", "dry_run_passed", "capture")
      BY <1>0, <1>1, <1>2, <1>6, <2>1, <2>2, <2>4, FlowAt, Table DEF Moves, DryRunPasses, Acting, Gated
    <3> QED  BY <1>2, <3>1 DEF Moving, Acting, Gated
  <2> QED  BY <2>3, <2>4
<1>7. CASE DryRunOnly \/ AskPolicy
  <2>1. pc = "safeClick" /\ flow = "dry_run_passed"
    BY <1>0, <1>7, FlowAt DEF DryRunOnly, AskPolicy, Advance, Outside, Gated
  <2>2. CASE DryRunOnly
    <3>1. Moves("safeClick", flow, "capture")
      BY <1>0, <1>1, <1>2, <2>1, <2>2, FlowAt DEF Moves, DryRunOnly, Acting, Gated
    <3> QED  BY <1>2, <2>1, <3>1 DEF Moving, Acting, Gated
  <2>3. CASE AskPolicy
    <3>1. Moves("safeClick", flow, "killSwitch")
      BY <1>0, <1>1, <1>2, <2>1, <2>3, FlowAt DEF Moves, AskPolicy, Acting, Gated
    <3> QED  BY <1>2, <2>1, <3>1 DEF Moving, Acting, Gated
  <2> QED  BY <1>7, <2>2, <2>3
<1>8. CASE ReadKillSwitch
  <2>1. pc = "killSwitch" /\ flow = "dry_run_passed"
    BY <1>0, <1>8, FlowAt DEF ReadKillSwitch, Advance, Outside, Gated
  <2>2. CASE killed
    <3>1. Moves("killSwitch", flow, "gates")
      BY <1>0, <1>1, <1>2, <1>8, <2>1, <2>2, FlowAt DEF Moves, ReadKillSwitch, Acting, Gated
    <3> QED  BY <1>2, <2>1, <3>1 DEF Moving, Acting, Gated
  <2>3. CASE ~killed
    <3>1. "kill" \notin held
      BY <2>3 DEF IInv, Halting
    <3>2. Moves("killSwitch", flow, "pause")
      BY <1>0, <1>1, <1>2, <1>8, <2>1, <2>3, <3>1, FlowAt DEF Moves, ReadKillSwitch, Acting, Gated
    <3> QED  BY <1>2, <2>1, <3>2 DEF Moving, Acting, Gated
  <2> QED  BY <2>2, <2>3
<1>9. CASE ReadPause
  <2>1. pc = "pause" /\ flow = "dry_run_passed"
    BY <1>0, <1>9, FlowAt DEF ReadPause, Advance, Outside, Gated
  <2>2. ~paused => held = {}
    BY <2>1 DEF IInv, Halting, TypeOK
  <2>3. Moves("pause", flow, "gates")
    BY <1>0, <1>1, <1>2, <1>3, <1>9, <2>1, <2>2, FlowAt DEF Moves, ReadPause, Acting, Gated
  <2> QED  BY <1>2, <2>1, <2>3 DEF Moving, Acting, Gated
<1>10. CASE AllowOnly
  <2>1. pc = "gates" /\ flow = "dry_run_passed"
    BY <1>0, <1>10, FlowAt DEF AllowOnly, Advance, Outside, Gated
  <2>2. Moves("gates", "execution_allowed", "capture")
    BY <1>0, <1>1, <1>2, <1>10, <2>1, FlowAt, Table DEF Moves, AllowOnly, Acting, Gated
  <2> QED  BY <1>2, <2>2 DEF Moving, Acting, Gated
<1>11. CASE Clicked
  <2>1. pc = "clicked" /\ flow = "dry_run_passed"
    BY <1>0, <1>11, FlowAt DEF Clicked, Advance, Outside, Gated
  <2>2. Moves("clicked", "execution_allowed", "executed")
    BY <1>0, <1>1, <1>2, <1>11, <2>1, FlowAt, Table DEF Moves, Clicked, Acting, Gated
  <2> QED  BY <1>2, <2>2 DEF Moving, Acting, Gated
<1>12. CASE Executed
  <2>1. pc = "executed" /\ flow = "execution_allowed"
    BY <1>0, <1>12, FlowAt DEF Executed, Advance, Outside, Gated
  <2>2. Moves("executed", "executed", "capture")
    BY <1>0, <1>1, <1>2, <1>12, <2>1, FlowAt, Table DEF Moves, Executed, Acting, Gated
  <2> QED  BY <1>2, <2>2 DEF Moving, Acting, Gated
<1> QED  BY <1>4, <1>5, <1>6, <1>7, <1>8, <1>9, <1>10, <1>11, <1>12 DEF Resolves

(* A move keeps the invariant. *)
LEMMA MovingKeeps == IInv /\ Moving => IInv'
<1> SUFFICES ASSUME IInv, Moving PROVE IInv'
  OBVIOUS
<1> USE DEF IInv
<1>1. PICK from \in Acting, to \in Flow!FlowStates, next \in Acting \cup {"capture"} : Moves(from, to, next)
  BY DEF Moving
<1>2. /\ pc = from /\ pc' = next /\ flow' = to
      /\ runner' = runner /\ policy' = policy /\ scenario' = scenario /\ config' = config
      /\ killed' = killed /\ paused' = paused /\ toggles' = toggles
      /\ index' = index /\ before' = before /\ prev' = prev /\ stepRuns' = stepRuns
      /\ outcome' = outcome /\ runs' = runs /\ held' = held
      /\ pre' = pre /\ post' = post /\ captures' = captures /\ clicks' = clicks
      /\ Step' = Step /\ Status' = Status /\ (Chosen' <=> Chosen) /\ StepIntent' = StepIntent
      /\ (Acted' <=> Acted)
  BY <1>1, Advanced DEF Moves
<1>3. /\ to \in Expected[next] /\ disposition' \in Dispositions \ {"blocked"}
      /\ verdict' \in {"none", "deny", "review", "allow"}
      /\ next \in Acting => disposition' = disposition
      /\ next \in Gated => Step.eligible
      /\ (next \in {"clicked", "executed"} \/ disposition' = "real_click_executed")
            <=> from \in {"clicked", "executed"}
      /\ next = "pause" => "kill" \notin held
      /\ next = "gates" /\ verdict' = "allow" =>
            held = {} /\ Rules(policy, StepIntent, config.live) = "allow"
  BY <1>1 DEF Moves
<1>4. /\ pc \in Acting /\ pc \notin Outside \cup {"capture", "observed"} /\ pc # "idle"
      /\ pc' \in Acting \cup {"capture"} /\ pc' \notin Outside \cup {"observed", "verify"} /\ pc' # "idle"
      /\ pc' \in PcStates
  BY <1>1, <1>2 DEF Acting, Gated, Outside, PcStates
<1>5. Acted /\ post.no = 0 /\ runner = "act" /\ Chosen /\ Status = "defined" /\ disposition = "incomplete"
  BY <1>4 DEF Frames, Located
<1>6. TypeOK'
  BY <1>2, <1>3, <1>4 DEF TypeOK
<1>7. FlowOK'
  BY <1>2, <1>3 DEF FlowOK
<1>8. Located'
  BY <1>2, <1>3, <1>4, <1>5 DEF Located
<1>9. Frames'
  BY <1>2, <1>4, <1>5 DEF Frames
<1>10. Clicking'
  <2>1. (\E k \in DOMAIN clicks : clicks[k].step = index) <=> pc \in {"clicked", "executed"}
    BY <1>4, <1>5 DEF Clicking
  <2>2. (\E k \in DOMAIN clicks' : clicks'[k].step = index')
           <=> pc' \in {"clicked", "executed"} \/ disposition' = "real_click_executed"
    BY <1>2, <1>3, <2>1
  <2>3. /\ \A k \in DOMAIN stepRuns' : stepRuns'[k].step = k
        /\ Len(stepRuns') = index' - 1
        /\ \A k \in DOMAIN clicks' : clicks'[k].step <= index'
    BY <1>2, <1>4 DEF Clicking
  <2>4. ASSUME NEW k \in DOMAIN clicks'
        PROVE  /\ clicks'[k].after <= captures'
               /\ clicks'[k].step = index' => before' <= clicks'[k].after
    BY <1>2, <1>4 DEF Clicking
  <2> QED  BY <1>2, <1>4, <1>5, <2>2, <2>3, <2>4 DEF Clicking, Outside
<1>11. Halting'
  BY <1>2, <1>3 DEF Halting
<1> QED  BY <1>2, <1>6, <1>7, <1>8, <1>9, <1>10, <1>11, RecordsKeep

(* The click. *)
LEMMA ClickKeeps == IInv /\ Click => IInv'
<1> SUFFICES ASSUME IInv, Click PROVE IInv'
  OBVIOUS
<1> USE DEF IInv
<1> DEFINE sel == Selected(Step, pre.screen)
           rec == [step |-> index, candidate |-> StepIntent.candidate,
                   screen |-> pre.screen, after |-> captures]
           n == Len(clicks) + 1
<1>1. /\ Open /\ config.execute /\ Advance("gates", flow, "clicked")
      /\ clicks' = Append(clicks, rec)
      /\ pre' = pre /\ post' = post /\ disposition' = disposition /\ verdict' = verdict
      /\ captures' = captures
  BY DEF Click
<1>2. /\ pc = "gates" /\ pc' = "clicked" /\ flow' = flow
      /\ runner' = runner /\ policy' = policy /\ scenario' = scenario /\ config' = config
      /\ killed' = killed /\ paused' = paused /\ toggles' = toggles
      /\ index' = index /\ before' = before /\ prev' = prev /\ stepRuns' = stepRuns
      /\ outcome' = outcome /\ runs' = runs /\ held' = held
      /\ Step' = Step /\ Status' = Status /\ (Chosen' <=> Chosen) /\ (Acted' <=> Acted)
  BY <1>1, Advanced
<1>3. /\ pc \in Acting /\ pc \in Gated /\ pc \notin Outside
      /\ pc' \in Acting /\ pc' \in Gated /\ pc' \notin Outside /\ pc' \in PcStates
  BY <1>2 DEF Acting, Gated, Outside, PcStates
<1>4. /\ Acted /\ post.no = 0 /\ runner = "act" /\ Chosen /\ Step.eligible
      /\ Status = "defined" /\ disposition = "incomplete" /\ before <= captures
  BY <1>2, <1>3 DEF Frames, Located
<1>5. /\ index \in Nat /\ captures \in Nat /\ before \in Nat
  BY Typed DEF TypeOK
<1>6. /\ pre.screen \in Screens /\ pre.screen \in Screen /\ Matched(Step, pre.screen) # {}
  BY <1>4, ScreensAssumption DEF Chosen
<1>7. /\ sel \in Matched(Step, pre.screen)
      /\ \A i \in Matched(Step, pre.screen) : ~Precedes(pre.screen, i, sel)
      /\ sel \in DOMAIN pre.screen /\ sel \in CandidateIds
  <2>1. sel \in Matched(Step, pre.screen)
        /\ \A i \in Matched(Step, pre.screen) : ~Precedes(pre.screen, i, sel)
    BY <1>6, SelectedBest
  <2>2. Matched(Step, pre.screen) \subseteq DOMAIN pre.screen /\ DOMAIN pre.screen \subseteq CandidateIds
    BY <1>6, MatchedOnScreen
  <2> QED  BY <2>1, <2>2
<1>8. StepIntent = Intent(Step, pre.screen, sel) /\ StepIntent.candidate = sel
  BY DEF StepIntent, Intent
<1>9. rec \in ClickRecord
  BY <1>5, <1>6, <1>7, <1>8 DEF ClickRecord
<1>10. /\ clicks' \in Seq(ClickRecord) /\ Len(clicks) \in Nat
       /\ DOMAIN clicks' = 1..n /\ DOMAIN clicks = 1..(n - 1)
       /\ clicks'[n] = rec
       /\ \A k \in DOMAIN clicks : clicks'[k] = clicks[k] /\ k < n
       /\ \A k \in DOMAIN clicks' : k = n \/ k \in DOMAIN clicks
  BY <1>1, <1>9 DEF TypeOK
<1>11. /\ rec.step = index /\ rec.candidate = sel /\ rec.screen = pre.screen /\ rec.after = captures
  BY <1>8
<1> HIDE DEF rec, sel
<1>12. /\ verdict = "allow" /\ config.live /\ pre.screen[sel].visible /\ Complete(pre.screen[sel])
       /\ pre.screen[sel].score >= ClickScore /\ pre.screen[sel].place \notin Degenerate
  <2>1. BoundaryOpen(Intent(Step, pre.screen, sel), pre.screen, config, verdict)
    BY <1>1, <1>8 DEF Open
  <2> QED  BY <1>6, <1>7, <2>1, GatesJustify
<1>13. policy.protected = "clear" /\ sel \notin policy.denied
  <2>1. Rules(policy, StepIntent, config.live) = "allow"
    BY <1>2, <1>12 DEF Halting
  <2>2. policy \in Policy
    BY PoliciesAssumption DEF TypeOK
  <2>3. policy.protected \in {"clear", "unknown", "protected"}
    BY <2>2 DEF Policy
  <2>4. policy.protected # "protected" /\ StepIntent.candidate \notin policy.denied
    BY <2>1 DEF Rules
  <2>5. policy.protected # "unknown"
    BY <2>1 DEF Rules
  <2> QED  BY <1>8, <2>3, <2>4, <2>5
<1>14. \A k \in DOMAIN clicks : clicks[k].step < index
  <2>1. \A k \in DOMAIN clicks : clicks[k].step # index /\ clicks[k].step <= index
    BY <1>2, <1>3, <1>4 DEF Clicking
  <2> QED  BY <1>5, <2>1, Typed
<1>15. \A k \in DOMAIN stepRuns : stepRuns[k].step # index
  <2>1. \A k \in DOMAIN stepRuns : k < index /\ stepRuns[k].step = k
    <3>1. Len(stepRuns) = index - 1 /\ stepRuns \in Seq(StepRun)
      BY <1>2 DEF Clicking, TypeOK
    <3>2. \A k \in DOMAIN stepRuns : k \in 1..(index - 1)
      BY <3>1
    <3> QED  BY <1>5, <3>2 DEF Clicking
  <2> QED  BY <1>5, <2>1
<1>16. TypeOK'
  BY <1>1, <1>2, <1>3, <1>10 DEF TypeOK
<1>17. FlowOK'
  <2>1. flow = "dry_run_passed"
    BY <1>2, <1>3, FlowAt DEF FlowOK, Gated
  <2> QED  BY <1>2, <2>1, FlowAt DEF FlowOK, Gated
<1>18. Located'
  BY <1>1, <1>2, <1>3, <1>4 DEF Located, Outside
<1>19. Frames'
  BY <1>1, <1>2, <1>3, <1>4 DEF Frames, Outside
<1>20. Clicking'
  <2>1. ASSUME NEW k \in DOMAIN clicks'
        PROVE  /\ clicks'[k].after <= captures' /\ clicks'[k].step <= index'
               /\ clicks'[k].step = index' => before' <= clicks'[k].after
    <3>1. CASE k = n
      BY <1>1, <1>2, <1>4, <1>5, <1>10, <1>11, <3>1
    <3>2. CASE k \in DOMAIN clicks
      BY <1>1, <1>2, <1>3, <1>10, <3>2 DEF Clicking
    <3> QED  BY <1>10, <3>1, <3>2
  <2>2. \E k \in DOMAIN clicks' : clicks'[k].step = index'
    <3>1. n \in DOMAIN clicks'
      BY <1>10
    <3> QED  BY <1>2, <1>10, <1>11, <3>1
  <2>3. /\ \A k \in DOMAIN stepRuns' : stepRuns'[k].step = k
        /\ Len(stepRuns') = index' - 1
    BY <1>2 DEF Clicking
  <2> QED  BY <1>1, <1>2, <1>4, <2>1, <2>2, <2>3 DEF Clicking
<1>21. Halting'
  BY <1>2 DEF Halting
<1>22. ClickJustified'
  <2> SUFFICES ASSUME NEW k \in DOMAIN clicks'
               PROVE  LET click == clicks'[k]
                          step == scenario.steps[click.step]
                          target == click.screen[click.candidate]
                      IN  /\ config.live /\ config.execute /\ runner = "act"
                          /\ StepStatus(step, scenario) = "defined" /\ step.eligible
                          /\ click.candidate \in Matched(step, click.screen)
                          /\ \A i \in Matched(step, click.screen) :
                                 ~Precedes(click.screen, i, click.candidate)
                          /\ target.visible /\ Complete(target) /\ target.score >= ClickScore
                          /\ target.place \notin Degenerate
                          /\ policy.protected = "clear" /\ click.candidate \notin policy.denied
    BY <1>2 DEF ClickJustified
  <2>1. CASE k \in DOMAIN clicks
    BY <1>10, <2>1 DEF ClickJustified
  <2>2. CASE k = n
    <3>1. scenario.steps[rec.step] = Step /\ StepStatus(Step, scenario) = "defined"
      BY <1>4, <1>11 DEF Step, Status
    <3> QED  BY <1>1, <1>4, <1>7, <1>10, <1>11, <1>12, <1>13, <2>2, <3>1
  <2> QED  BY <1>10, <2>1, <2>2
<1>23. ClicksReported'
  <2>1. ASSUME NEW j \in DOMAIN clicks', NEW k \in DOMAIN clicks', j < k
        PROVE  clicks'[j].step < clicks'[k].step
    <3>1. j \in DOMAIN clicks
      BY <1>10, <2>1
    <3>2. CASE k \in DOMAIN clicks
      BY <1>10, <2>1, <3>1, <3>2 DEF ClicksReported
    <3>3. CASE k = n
      BY <1>10, <1>11, <1>14, <3>1, <3>3
    <3> QED  BY <1>10, <3>2, <3>3
  <2>2. ASSUME NEW k \in DOMAIN stepRuns'
        PROVE  (\E j \in DOMAIN clicks' : clicks'[j].step = stepRuns'[k].step)
                 <=> \E j \in DOMAIN clicks : clicks[j].step = stepRuns[k].step
    BY <1>2, <1>10, <1>11, <1>15
  <2> QED  BY <1>2, <2>1, <2>2 DEF ClicksReported
<1>24. VerifiedAcrossClick'
  <2> SUFFICES ASSUME NEW k \in DOMAIN stepRuns, NEW j \in DOMAIN clicks',
                      stepRuns[k].step = clicks'[j].step, stepRuns[k].final = "verified"
               PROVE  stepRuns[k].before <= clicks'[j].after /\ clicks'[j].after < stepRuns[k].post
    BY <1>2 DEF VerifiedAcrossClick
  <2>1. j \in DOMAIN clicks
    BY <1>10, <1>11, <1>15
  <2> QED  BY <1>10, <2>1 DEF VerifiedAcrossClick
<1>25. StagesAgree' /\ CompletedMeansVerified'
  BY <1>2 DEF StagesAgree, CompletedMeansVerified
<1> QED  BY <1>16, <1>17, <1>18, <1>19, <1>20, <1>21, <1>22, <1>23, <1>24, <1>25

----------------------------------------------------------------------------
(* Beginning and end of a run, beginning of a step, and the operator. *)

(* A new run forgets records and clicks, but not the last snapshot. *)
LEMMA StartRunKeeps == IInv /\ StartRun => IInv'
<1> SUFFICES ASSUME IInv, StartRun PROVE IInv'
  OBVIOUS
<1> USE DEF IInv
<1>1. PICK s \in Scenarios, given \in {0, captures} :
          scenario' = s /\ before' = IF given # 0 THEN given ELSE prev
  BY DEF StartRun
<1>2. /\ pc' = "step" /\ index' = 1 /\ stepRuns' = <<>> /\ outcome' = "running"
      /\ runs' = runs + 1 /\ clicks' = <<>>
      /\ runner' = runner /\ policy' = policy /\ config' = config
      /\ killed' = killed /\ paused' = paused /\ toggles' = toggles
      /\ pre' = pre /\ post' = post /\ disposition' = disposition /\ verdict' = verdict
      /\ flow' = flow /\ prev' = prev /\ captures' = captures /\ held' = held
  BY DEF StartRun, operatorVars
<1>3. /\ captures \in Nat /\ prev \in Nat /\ before' \in Nat /\ before' <= captures
  <2>1. captures \in Nat /\ prev \in Nat /\ prev <= captures
    BY DEF TypeOK, Frames
  <2> QED  BY <1>1, <2>1
<1>4. /\ pc' \in Outside /\ pc' \in PcStates /\ pc' \notin Acting \cup {"capture", "observed", "verify"}
      /\ pc' \notin {"pause", "gates"}
  BY <1>2 DEF Outside, PcStates, Acting, Gated
<1>5. /\ stepRuns' \in Seq(StepRun) /\ clicks' \in Seq(ClickRecord)
      /\ DOMAIN stepRuns' = {} /\ DOMAIN clicks' = {} /\ Len(stepRuns') = 0
  BY <1>2
<1>6. TypeOK'
  <2>1. scenario' \in Scenario
    BY <1>1, ScenariosAssumption
  <2>2. Len(scenario'.steps) \in Nat
    BY <2>1 DEF Scenario
  <2>3. index' \in 1..(Len(scenario'.steps) + 1)
    BY <1>2, <2>2
  <2>4. runs' \in Nat
    BY <1>2 DEF TypeOK
  <2> QED  BY <1>1, <1>2, <1>3, <1>4, <1>5, <2>3, <2>4 DEF TypeOK
<1>7. FlowOK' /\ Located'
  BY <1>2, <1>4 DEF FlowOK, Located, Outside, Gated, Acting
<1>8. Frames'
  BY <1>2, <1>3, <1>4, <1>5 DEF Frames
<1>9. Clicking'
  BY <1>2, <1>4, <1>5 DEF Clicking
<1>10. Halting'
  BY <1>2, <1>4 DEF Halting
<1>11. (ClickJustified /\ ClicksReported /\ VerifiedAcrossClick /\ StagesAgree)'
  BY <1>5 DEF ClickJustified, ClicksReported, VerifiedAcrossClick, StagesAgree
<1>12. CompletedMeansVerified'
  BY <1>2 DEF CompletedMeansVerified
<1> QED  BY <1>6, <1>7, <1>8, <1>9, <1>10, <1>11, <1>12

(* A new step has no frame and no click, and notes which switches are held. *)
LEMMA BeginStepKeeps == IInv /\ BeginStep => IInv'
<1> SUFFICES ASSUME IInv, BeginStep PROVE IInv'
  OBVIOUS
<1> USE DEF IInv
<1>1. /\ pc = "step" /\ index <= Len(scenario.steps)
      /\ flow' = "started" /\ pc' = "capture"
      /\ pre' = NoSnapshot /\ post' = NoSnapshot
      /\ disposition' = "incomplete" /\ verdict' = "none"
      /\ held' = (IF killed THEN {"kill"} ELSE {}) \cup (IF paused THEN {"pause"} ELSE {})
      /\ runner' = runner /\ policy' = policy /\ scenario' = scenario /\ config' = config
      /\ killed' = killed /\ paused' = paused /\ toggles' = toggles
      /\ index' = index /\ before' = before /\ prev' = prev /\ stepRuns' = stepRuns
      /\ outcome' = outcome /\ captures' = captures /\ runs' = runs /\ clicks' = clicks
  BY DEF BeginStep, runVars, operatorVars
<1>2. /\ pc' \notin Acting \cup {"observed", "verify"} /\ pc' \notin Outside /\ pc' \in PcStates
      /\ pc' \notin {"pause", "gates", "clicked", "executed"}
  BY <1>1 DEF Acting, Gated, Outside, PcStates
<1>3. NoSnapshot \in Snapshot /\ NoSnapshot.no = 0 /\ ~Acted'
  BY <1>1 DEF NoSnapshot, Snapshot, Acted
<1>4. TypeOK'
  BY <1>1, <1>2, <1>3 DEF TypeOK, Flow!FlowStates, Dispositions
<1>5. FlowOK'
  BY <1>1, FlowAt DEF FlowOK
<1>6. Located'
  <2>1. index' \in DOMAIN scenario'.steps
    BY <1>1, Typed
  <2> QED  BY <1>1, <1>2, <1>3, <2>1 DEF Located, Gated, Acting
<1>7. Frames'
  <2>1. captures \in Nat
    BY DEF TypeOK
  <2> QED  BY <1>1, <1>2, <1>3, <2>1 DEF Frames
<1>8. Clicking'
  <2>1. \A k \in DOMAIN clicks : clicks[k].step # index
    BY <1>1, Typed DEF Clicking
  <2> QED  BY <1>1, <1>2, <2>1 DEF Clicking
<1>9. Halting'
  BY <1>1, <1>2 DEF Halting
<1> QED  BY <1>1, <1>4, <1>5, <1>6, <1>7, <1>8, <1>9, RecordsKeep

(* The status of the run is read off its records. *)
LEMMA FinishRunKeeps == IInv /\ FinishRun => IInv'
<1> SUFFICES ASSUME IInv, FinishRun PROVE IInv'
  OBVIOUS
<1> USE DEF IInv
<1>1. /\ pc = "step" /\ index > Len(scenario.steps) /\ pc' = "idle" /\ outcome' = RunStatus
      /\ prev' = (IF before # 0 THEN before ELSE prev)
      /\ runner' = runner /\ policy' = policy /\ scenario' = scenario /\ config' = config
      /\ killed' = killed /\ paused' = paused /\ toggles' = toggles
      /\ index' = index /\ pre' = pre /\ post' = post /\ before' = before
      /\ disposition' = disposition /\ verdict' = verdict
      /\ flow' = flow /\ stepRuns' = stepRuns /\ captures' = captures /\ runs' = runs
      /\ clicks' = clicks /\ held' = held
  BY DEF FinishRun, runVars, operatorVars, stepVars
<1>2. /\ pc' \in Outside /\ pc' \in PcStates /\ pc' \notin Acting \cup {"capture", "observed", "verify"}
      /\ pc' \notin {"pause", "gates", "step"}
  BY <1>1 DEF Outside, PcStates, Acting, Gated
<1>3. before \in Nat /\ prev \in Nat
  BY DEF TypeOK
<1>4. TypeOK'
  <2>1. RunStatus \in {"completed", "incomplete", "failed"}
    BY DEF RunStatus
  <2> QED  BY <1>1, <1>2, <1>3, <2>1 DEF TypeOK
<1>5. FlowOK' /\ Located'
  BY <1>1, <1>2 DEF FlowOK, Located, Gated, Acting
<1>6. Frames'
  BY <1>1, <1>2 DEF Frames
<1>7. Clicking' /\ Halting'
  BY <1>1, <1>2 DEF Clicking, Halting
<1>8. ClickJustified' /\ ClicksReported' /\ VerifiedAcrossClick' /\ StagesAgree'
  BY <1>1 DEF ClickJustified, ClicksReported, VerifiedAcrossClick, StagesAgree
<1>9. CompletedMeansVerified'
  <2> SUFFICES ASSUME RunStatus = "completed"
               PROVE  /\ ScenarioStatus(scenario) = "defined"
                      /\ Len(stepRuns) = Len(scenario.steps)
                      /\ \A k \in DOMAIN stepRuns :
                            stepRuns[k].final = "verified" /\ stepRuns[k].step = k
                      /\ \A j, k \in DOMAIN stepRuns : j < k => stepRuns[j].pre < stepRuns[k].pre
    BY <1>1 DEF CompletedMeansVerified
  <2>1. /\ ScenarioStatus(scenario) \notin {"invalid", "incomplete"}
        /\ ~\E k \in DOMAIN stepRuns : stepRuns[k].final = "failed"
        /\ ~\E k \in DOMAIN stepRuns : stepRuns[k].final = "incomplete"
    BY DEF RunStatus
  <2>2. ScenarioStatus(scenario) \in {"invalid", "incomplete", "defined"}
    BY DEF ScenarioStatus
  <2>3. \A k \in DOMAIN stepRuns : stepRuns[k].final \in FinalStages
    <3>1. stepRuns \in Seq(StepRun)
      BY DEF TypeOK
    <3>2. \A k \in DOMAIN stepRuns : stepRuns[k] \in StepRun
      BY <3>1
    <3> QED  BY <3>2 DEF StepRun
  <2>4. \A k \in DOMAIN stepRuns : stepRuns[k].final = "verified"
    BY <2>1, <2>3 DEF FinalStages
  <2>5. Len(stepRuns) = Len(scenario.steps)
    <3>1. Len(stepRuns) = index - 1
      BY <1>1 DEF Clicking
    <3>2. Len(scenario.steps) \in Nat
      BY Typed
    <3> QED  BY <1>1, <3>1, <3>2, Typed
  <2> QED  BY <2>1, <2>2, <2>4, <2>5 DEF Clicking, Frames
<1> QED  BY <1>4, <1>5, <1>6, <1>7, <1>8, <1>9

(* A failure result has no records. *)
LEMMA RaiseKeeps == IInv /\ Raise => IInv'
<1> SUFFICES ASSUME IInv, Raise PROVE IInv'
  OBVIOUS
<1> USE DEF IInv
<1>1. /\ pc' = "idle" /\ outcome' = "error" /\ stepRuns' = <<>>
      /\ runner' = runner /\ policy' = policy /\ scenario' = scenario /\ config' = config
      /\ killed' = killed /\ paused' = paused /\ toggles' = toggles
      /\ index' = index /\ pre' = pre /\ post' = post /\ before' = before
      /\ disposition' = disposition /\ verdict' = verdict
      /\ flow' = flow /\ prev' = prev /\ captures' = captures /\ runs' = runs
      /\ clicks' = clicks /\ held' = held
  BY DEF Raise, runVars, operatorVars, stepVars
<1>2. /\ pc' \in Outside /\ pc' \in PcStates /\ pc' \notin Acting \cup {"capture", "observed", "verify"}
      /\ pc' \notin {"pause", "gates", "step"}
  BY <1>1 DEF Outside, PcStates, Acting, Gated
<1>3. stepRuns' \in Seq(StepRun) /\ DOMAIN stepRuns' = {}
  BY <1>1
<1>4. TypeOK'
  BY <1>1, <1>2, <1>3 DEF TypeOK
<1>5. FlowOK' /\ Located'
  BY <1>1, <1>2 DEF FlowOK, Located, Gated, Acting
<1>6. Frames'
  BY <1>1, <1>2, <1>3 DEF Frames
<1>7. Clicking' /\ Halting'
  BY <1>1, <1>2, <1>3 DEF Clicking, Halting
<1>8. ClickJustified'
  BY <1>1 DEF ClickJustified
<1>9. ClicksReported' /\ VerifiedAcrossClick' /\ StagesAgree'
  BY <1>1, <1>3 DEF ClicksReported, VerifiedAcrossClick, StagesAgree
<1>10. CompletedMeansVerified'
  BY <1>1 DEF CompletedMeansVerified
<1> QED  BY <1>4, <1>5, <1>6, <1>7, <1>8, <1>9, <1>10

(* The operator leaves to the runner everything but the two switches. *)
LEMMA OperatorKeeps == IInv /\ (Engage \/ Release \/ Pause \/ Resume \/ UNCHANGED vars) => IInv'
<1> SUFFICES ASSUME IInv, Engage \/ Release \/ Pause \/ Resume \/ UNCHANGED vars PROVE IInv'
  OBVIOUS
<1> USE DEF IInv
<1>1. /\ runner' = runner /\ policy' = policy /\ scenario' = scenario /\ config' = config
      /\ index' = index /\ pre' = pre /\ post' = post /\ before' = before
      /\ disposition' = disposition /\ verdict' = verdict /\ pc' = pc
      /\ flow' = flow /\ prev' = prev /\ stepRuns' = stepRuns /\ outcome' = outcome
      /\ captures' = captures /\ runs' = runs /\ clicks' = clicks
  BY DEF Engage, Release, Pause, Resume, Toggle, vars, runVars, stepVars
<1>2. /\ Step' = Step /\ Status' = Status /\ (Chosen' <=> Chosen) /\ StepIntent' = StepIntent
      /\ (Acted' <=> Acted)
  BY <1>1, SameStep
<1>3. /\ killed' \in BOOLEAN /\ paused' \in BOOLEAN /\ held' \subseteq held /\ toggles' \in Nat
      /\ ("kill" \in held' => killed') /\ ("pause" \in held' => paused')
  <2>1. /\ killed \in BOOLEAN /\ paused \in BOOLEAN /\ toggles \in Nat
        /\ ("kill" \in held => killed) /\ ("pause" \in held => paused)
    BY DEF Halting, TypeOK
  <2> DEFINE Switched(k, p, h) ==
               killed' = k /\ paused' = p /\ held' = h /\ toggles' = toggles + 1
  <2>2. CASE Engage
    <3>1. Switched(TRUE, paused, held)
      BY <2>2 DEF Engage, Toggle
    <3> QED  BY <2>1, <3>1
  <2>3. CASE Release
    <3>1. Switched(FALSE, paused, held \ {"kill"})
      BY <2>3 DEF Release, Toggle
    <3>2. held' \subseteq held /\ "kill" \notin held' /\ ("pause" \in held' => "pause" \in held)
      BY <3>1
    <3>3. toggles' \in Nat
      BY <2>1, <3>1
    <3> QED  BY <2>1, <3>1, <3>2, <3>3, Zenon
  <2>4. CASE Pause
    <3>1. Switched(killed, TRUE, held)
      BY <2>4 DEF Pause, Toggle
    <3> QED  BY <2>1, <3>1
  <2>5. CASE Resume
    <3>1. Switched(killed, FALSE, held \ {"pause"})
      BY <2>5 DEF Resume, Toggle
    <3>2. held' \subseteq held /\ "pause" \notin held' /\ ("kill" \in held' => "kill" \in held)
      BY <3>1
    <3>3. toggles' \in Nat
      BY <2>1, <3>1
    <3> QED  BY <2>1, <3>1, <3>2, <3>3, Zenon
  <2>6. CASE UNCHANGED vars
    BY <2>1, <2>6 DEF vars, operatorVars
  <2> QED  BY <2>2, <2>3, <2>4, <2>5, <2>6
<1>4. TypeOK'
  BY <1>1, <1>3 DEF TypeOK
<1>5. FlowOK' /\ Located'
  BY <1>1, <1>2 DEF FlowOK, Located
<1>6. Frames'
  BY <1>1, <1>2 DEF Frames
<1>7. Clicking'
  BY <1>1, <1>2 DEF Clicking
<1>8. Halting'
  <2>1. pc' = "pause" => "kill" \notin held'
    BY <1>1, <1>3 DEF Halting
  <2>2. ASSUME pc' = "gates", verdict' = "allow"
        PROVE  held' = {} /\ Rules(policy', StepIntent', config'.live) = "allow"
    <3>1. held = {} /\ Rules(policy, StepIntent, config.live) = "allow"
      BY <1>1, <2>2 DEF Halting
    <3>2. held' = {}
      BY <1>3, <3>1
    <3> QED  BY <1>1, <1>2, <3>1, <3>2
  <2> QED  BY <1>3, <2>1, <2>2 DEF Halting
<1> QED  BY <1>1, <1>4, <1>5, <1>6, <1>7, <1>8, RecordsKeep

----------------------------------------------------------------------------
(* The theorems. *)

(* The invariant holds before the first run. *)
LEMMA Initially == Init => IInv
<1> SUFFICES ASSUME Init PROVE IInv
  OBVIOUS
<1> USE DEF Init
<1>1. /\ DOMAIN stepRuns = {} /\ DOMAIN clicks = {}
      /\ stepRuns \in Seq(StepRun) /\ clicks \in Seq(ClickRecord)
  OBVIOUS
<1>2. /\ pc \in Outside /\ pc \in PcStates /\ pc = "idle"
      /\ pc \notin Acting \cup {"capture", "observed", "verify"}
  BY DEF Outside, PcStates, Acting, Gated
<1>3. TypeOK
  <2>1. NoSnapshot \in Snapshot
    BY DEF NoSnapshot, Snapshot
  <2>2. index \in 1..(Len(scenario.steps) + 1)
    BY DEF Nothing
  <2> QED  BY <1>1, <1>2, <2>1, <2>2 DEF TypeOK, Dispositions
<1>4. FlowOK /\ Located
  BY <1>2 DEF FlowOK, Located, Gated, Acting
<1>5. Frames
  BY <1>1, <1>2 DEF Frames, NoSnapshot
<1>6. Clicking /\ Halting
  BY <1>1, <1>2 DEF Clicking, Halting
<1>7. /\ ClickJustified /\ ClicksReported /\ VerifiedAcrossClick
      /\ StagesAgree /\ CompletedMeansVerified
  BY <1>1 DEF ClickJustified, ClicksReported, VerifiedAcrossClick, StagesAgree, CompletedMeansVerified
<1> QED  BY <1>3, <1>4, <1>5, <1>6, <1>7 DEF IInv

(* The kinds of step the lemmas above are about are all there are. *)
LEMMA NextKinds ==
    Next => \/ StartRun \/ BeginStep \/ FinishRun \/ Raise \/ Capture \/ Understand \/ Click
            \/ StepEnds \/ Resolves \/ Engage \/ Release \/ Pause \/ Resume
  BY DEF Next, StepEnds, Resolves

(* The invariant is inductive. *)
LEMMA Inductive == IInv /\ [Next]_vars => IInv'
<1> SUFFICES ASSUME IInv, [Next]_vars PROVE IInv'
  OBVIOUS
<1>1. CASE StepEnds
  BY <1>1, StepEndsEnd, EndingKeeps
<1>2. CASE Resolves
  BY <1>2, ResolvesMove, MovingKeeps
<1>3. CASE Capture \/ Understand \/ Click
  BY <1>3, CaptureKeeps, UnderstandKeeps, ClickKeeps
<1>4. CASE StartRun \/ BeginStep \/ FinishRun \/ Raise
  BY <1>4, StartRunKeeps, BeginStepKeeps, FinishRunKeeps, RaiseKeeps
<1>5. CASE Engage \/ Release \/ Pause \/ Resume \/ UNCHANGED vars
  BY <1>5, OperatorKeeps
<1> QED  BY <1>1, <1>2, <1>3, <1>4, <1>5, NextKinds

(* IInv holds in every reachable state. *)
THEOREM Invariance == Spec => []IInv
  BY Initially, Inductive, PTL DEF Spec

(* Every variable keeps its type. *)
THEOREM TypeCorrect == Spec => []TypeOK
<1>1. IInv => TypeOK
  BY DEF IInv
<1> QED  BY <1>1, Invariance, PTL

(* Every click goes to the best match of a step that may click, through    *)
(* open gates, whatever the screens, definitions and policies are.         *)
THEOREM ClicksAreJustified == Spec => []ClickJustified
<1>1. IInv => ClickJustified
  BY DEF IInv
<1> QED  BY <1>1, Invariance, PTL

(* The records of a run tell its clicks.                                   *)
THEOREM ClicksAreReported == Spec => []ClicksReported
<1>1. IInv => ClicksReported
  BY DEF IInv
<1> QED  BY <1>1, Invariance, PTL

(* A verified click lies between the two frames that verify it.            *)
THEOREM VerificationSeesClick == Spec => []VerifiedAcrossClick
<1>1. IInv => VerifiedAcrossClick
  BY DEF IInv
<1> QED  BY <1>1, Invariance, PTL

(* Stage, disposition and state of the machine agree in every record.      *)
THEOREM RecordsAgree == Spec => []StagesAgree
<1>1. IInv => StagesAgree
  BY DEF IInv
<1> QED  BY <1>1, Invariance, PTL

(* A completed run verified every step of a sound definition.              *)
THEOREM CompletionSound == Spec => []CompletedMeansVerified
<1>1. IInv => CompletedMeansVerified
  BY DEF IInv
<1> QED  BY <1>1, Invariance, PTL

(* What the end of a step and a move do to the machine and to the clicks. *)
LEMMA EndingFlow ==
    ASSUME IInv, StepEnds
    PROVE  flow' \in Flow!Allowed[flow] /\ clicks' = clicks
<1>1. PICK final \in FinalStages, to \in Flow!FlowStates, d \in Dispositions,
           r \in Snapshot, s \in Snapshot : Ends(final, to, d, r, s)
  BY StepEndsEnd DEF Ending
<1>2. EndStep(final, to, d, r, s) /\ to \in Flow!Allowed[flow]
  BY <1>1 DEF Ends
<1> QED  BY <1>2 DEF EndStep

LEMMA MovingFlow ==
    ASSUME IInv, Resolves
    PROVE  (flow' = flow \/ flow' \in Flow!Allowed[flow]) /\ clicks' = clicks
<1>1. PICK from \in Acting, to \in Flow!FlowStates, next \in Acting \cup {"capture"} : Moves(from, to, next)
  BY ResolvesMove DEF Moving
<1> QED  BY <1>1 DEF Moves, Advance

(* No other action adds a click. *)
LEMMA OnlyClickClicks ==
    ASSUME IInv, [Next]_vars, Len(clicks') > Len(clicks)
    PROVE  Click
<1>0. Len(clicks) \in Nat
  BY DEF IInv, TypeOK
<1>1. CASE StepEnds
  BY <1>0, <1>1, EndingFlow
<1>2. CASE Resolves
  BY <1>0, <1>2, MovingFlow
<1>3. CASE Capture \/ Understand
  BY <1>0, <1>3 DEF Capture, Understand
<1>4. CASE StartRun
  BY <1>0, <1>4 DEF StartRun
<1>5. CASE BeginStep \/ FinishRun \/ Raise
  BY <1>0, <1>5 DEF BeginStep, FinishRun, Raise
<1>6. CASE Engage \/ Release \/ Pause \/ Resume \/ UNCHANGED vars
  BY <1>0, <1>6 DEF Engage, Release, Pause, Resume, Toggle, vars
<1> QED  BY <1>1, <1>2, <1>3, <1>4, <1>5, <1>6, NextKinds

(* No step clicks under a halt that has been in force since it began: the  *)
(* answer allow of the policy means that neither switch was held, and the  *)
(* operator can only let go of what was held.                              *)
THEOREM HaltIsHonoured == Spec => HaltHonoured
<1>1. ASSUME IInv, [Next]_vars, Len(clicks') > Len(clicks)
      PROVE  held' = {}
  <2>1. Click
    BY <1>1, OnlyClickClicks
  <2>2. pc = "gates" /\ verdict = "allow" /\ held' = held
    BY <2>1 DEF Click, Advance, Open, BoundaryOpen
  <2> QED  BY <1>1, <2>2 DEF IInv, Halting
<1>2. IInv /\ [Next]_vars => [Len(clicks') > Len(clicks) => held' = {}]_vars
  BY <1>1
<1> QED  BY <1>2, Invariance, PTL DEF Spec, HaltHonoured

(* Every step takes the machine along its table, or leaves it where it is. *)
LEMMA FlowStep == IInv /\ [Next]_vars => [Flow!Next]_flow
<1> SUFFICES ASSUME IInv, [Next]_vars PROVE [Flow!Next]_flow
  OBVIOUS
<1>1. CASE StepEnds
  BY <1>1, EndingFlow DEF Flow!Next, Flow!Transition
<1>2. CASE Resolves
  BY <1>2, MovingFlow DEF Flow!Next, Flow!Transition
<1>3. CASE Capture \/ Understand
  <2>1. \/ pc = "capture" /\ flow' = "observed"
        \/ pc = "observed" /\ flow' = "understood"
    BY <1>3 DEF Capture, Understand, Advance
  <2>2. flow \in Expected[pc]
    BY <2>1 DEF IInv, FlowOK, Outside
  <2> QED  BY <2>1, <2>2, FlowAt, Table DEF Flow!Next, Flow!Transition
<1>4. CASE BeginStep
  BY <1>4, Table DEF BeginStep, Flow!Next, Flow!Create
<1>5. CASE Click \/ StartRun \/ FinishRun \/ Raise
  BY <1>5 DEF Click, Advance, StartRun, FinishRun, Raise
<1>6. CASE Engage \/ Release \/ Pause \/ Resume \/ UNCHANGED vars
  BY <1>6 DEF Engage, Release, Pause, Resume, Toggle, vars
<1> QED  BY <1>1, <1>2, <1>3, <1>4, <1>5, <1>6, NextKinds

(* The runners implement ScenarioFsm: transition() never raises.           *)
THEOREM Implementation == Spec => FollowsTable
<1>1. Init => Flow!Init
  BY DEF Init, Flow!Init
<1> QED  BY <1>1, FlowStep, Invariance, PTL DEF Spec, FollowsTable, Flow!Spec
=============================================================================
