------------------------ MODULE RuntimeEventsProofs ------------------------
(***************************************************************************)
(* Theorems about RuntimeEvents, for every catalogue of events, every set  *)
(* of debounce keys and every number of submissions.                       *)
(***************************************************************************)
EXTENDS RuntimeEvents, SequenceTheorems, TLAPS

----------------------------------------------------------------------------
(* What the operators return. *)

LEMMA MergeSignalsType ==
    ASSUME NEW a \in [Scopes -> Seq(Signal)], NEW b \in [Scopes -> Seq(Signal)]
    PROVE  MergeSignals(a, b) \in [Scopes -> Seq(Signal)]
<1> SUFFICES ASSUME NEW s \in Scopes
             PROVE  MergeScope(a[s], b[s]) \in Seq(Signal)
    BY DEF MergeSignals
<1> DEFINE kept == Elems(b[s]) \cup IF a[s] = <<>> THEN {} ELSE {a[s][Len(a[s])]}
           merged == [ids  |-> {r \in RegionIds : \E g \in kept : r \in g.ids},
                      full |-> \E g \in kept : g.full]
<1>1. CASE a[s] = <<>> /\ b[s] = <<>>
    BY <1>1 DEF MergeScope
<1>2. CASE ~(a[s] = <<>> /\ b[s] = <<>>)
    <2>1. MergeScope(a[s], b[s]) = <<merged>>
        BY <1>2 DEF MergeScope
    <2> HIDE DEF kept
    <2>2. merged \in Signal
        BY DEF Signal
    <2> HIDE DEF merged
    <2>3. QED
        BY <2>1, <2>2
<1>3. QED
    BY <1>1, <1>2

LEMMA ReplacedType ==
    ASSUME NEW a \in Content, NEW b \in Content
    PROVE  Replaced(a, b) \in Content
BY DEF Replaced, Content

LEMMA MergedType ==
    ASSUME NEW a \in Content, NEW b \in Content
    PROVE  Merged(a, b) \in Content
<1>1. MergeSignals(a.signals, b.signals) \in [Scopes -> Seq(Signal)]
    BY MergeSignalsType DEF Content
<1>2. /\ a.capture \cup b.capture \in SUBSET CaptureTargets
      /\ a.analysis \cup b.analysis \in SUBSET AnalysisTargets
      /\ (a.polling /\ b.polling) \in BOOLEAN
    BY DEF Content
<1>3. QED
    BY <1>1, <1>2 DEF Merged, Content

LEMMA CoalesceType ==
    ASSUME NEW e \in Entry, NEW c \in Content, NEW id \in Nat
    PROVE  Coalesce(e, c, id) \in Entry
<1>1. e.event \in Content /\ e.sources \in Seq(Nat) /\ e.count \in Nat
    BY DEF Entry
<1>2. Replaced(e.event, c) \in Content /\ Merged(e.event, c) \in Content
    BY <1>1, ReplacedType, MergedType
<1>3. Append(e.sources, id) \in Seq(Nat) /\ e.count + 1 \in Nat
    BY <1>1
<1>4. QED
    BY <1>2, <1>3 DEF Coalesce, Entry

LEMMA PlanType ==
    ASSUME NEW e \in Entry
    PROVE  PlanOf(e) \in Plan
<1>1. e.event \in Content /\ e.sources \in Seq(Nat) /\ e.count \in Nat
    BY DEF Entry
<1>2. ScopesOf(e.event) \in SUBSET Scopes
    BY DEF ScopesOf
<1>3. CaptureOf(e.event) \in SUBSET CaptureTargets
    BY <1>1 DEF CaptureOf, CaptureTargets, Content
<1>4. AnalysisOf(e.event) \in SUBSET AnalysisTargets
    <2>1. e.event.analysis \in SUBSET AnalysisTargets
        BY <1>1 DEF Content
    <2>2. QED
        BY <2>1 DEF AnalysisOf, AnalysisTargets
<1>5. e.event.polling \in BOOLEAN
    BY <1>1 DEF Content
<1>6. QED
    BY <1>1, <1>2, <1>3, <1>4, <1>5 DEF PlanOf, Plan

(* Where one entry at most can coalesce, First picks it. *)
LEMMA FirstOfOne ==
    ASSUME NEW S, S \subseteq Nat, S # {}, \A i, j \in S : i = j
    PROVE  First(S) \in S
<1>1. PICK i \in S : TRUE
    OBVIOUS
<1>2. \A j \in S : i <= j
    BY <1>1
<1>3. QED
    BY <1>1, <1>2 DEF First

----------------------------------------------------------------------------
(* The inductive invariant. *)

(* What the plans and the queue carry, oldest first: n submissions were    *)
(* made and those in A were not refused.  Each record stands for           *)
(* submissions in the order they arrived and no two share one; the first   *)
(* sources grow along the sequence, which is why the head of the queue     *)
(* always carries the oldest pending submission.                           *)
Carried == plans \o queue

EntryOK(e, n) ==
    /\ e.count = Len(e.sources)
    /\ e.sources # <<>>
    /\ Increasing(e.sources)
    /\ Elems(e.sources) \subseteq 1..n

Disjoint(s) ==
    \A i, j \in DOMAIN s :
        i # j => Elems(s[i].sources) \cap Elems(s[j].sources) = {}

Ordered(s) ==
    \A i, j \in DOMAIN s : i < j => s[i].sources[1] < s[j].sources[1]

CarriedOK(s, n, A) ==
    /\ \A i \in DOMAIN s : EntryOK(s[i], n)
    /\ Disjoint(s)
    /\ Ordered(s)
    /\ Sources(s) = A

Accepted == {i \in DOMAIN disposition : disposition[i] # "blocked"}

IInv ==
    /\ TypeOK
    /\ OneEntryPerKey
    /\ Len(log) = Len(disposition)
    /\ CarriedOK(Carried, Len(log), Accepted)

(* The records of a sequence of m plans or entries. *)
Records(s, m) ==
    /\ DOMAIN s = 1..m
    /\ \A i \in 1..m : s[i].sources \in Seq(Nat) /\ s[i].count \in Nat

(* Carried as a sequence: the plans, then the queue. *)
CarriedShape ==
    /\ Records(Carried, Len(plans) + Len(queue))
    /\ \A i \in 1..(Len(plans) + Len(queue)) :
          Carried[i] = IF i <= Len(plans) THEN plans[i] ELSE queue[i - Len(plans)]

LEMMA CarriedType == TypeOK => CarriedShape
<1> SUFFICES ASSUME TypeOK PROVE CarriedShape
    OBVIOUS
<1>1. plans \in Seq(Entry \cup Plan) /\ queue \in Seq(Entry \cup Plan)
    BY SeqMonotonic DEF TypeOK
<1>2. /\ Carried \in Seq(Entry \cup Plan)
      /\ Len(Carried) = Len(plans) + Len(queue)
      /\ \A i \in 1..(Len(plans) + Len(queue)) :
            Carried[i] = IF i <= Len(plans) THEN plans[i] ELSE queue[i - Len(plans)]
    BY <1>1, ConcatProperties DEF Carried
<1>3. DOMAIN Carried = 1..(Len(plans) + Len(queue))
    BY <1>2, LenProperties
<1>4. ASSUME NEW i \in DOMAIN Carried
      PROVE  Carried[i].sources \in Seq(Nat) /\ Carried[i].count \in Nat
    <2>1. Carried[i] \in Entry \cup Plan
        BY <1>2, <1>3, ElementOfSeq
    <2>2. QED
        BY <2>1 DEF Entry, Plan
<1>5. QED
    BY <1>2, <1>3, <1>4 DEF Records, CarriedShape

(* The one queued entry an event can coalesce with. *)
LEMMA TheCoalescible ==
    ASSUME TypeOK, OneEntryPerKey, NEW c \in Contents,
           Coalescible(queue, c) # {}
    PROVE  /\ First(Coalescible(queue, c)) \in DOMAIN queue
           /\ c.mode # "none"
           /\ Matches(queue[First(Coalescible(queue, c))].event, c)
<1>1. Coalescible(queue, c) \subseteq Nat
    BY DEF Coalescible, TypeOK
<1>2. ASSUME NEW i \in Coalescible(queue, c), NEW j \in Coalescible(queue, c)
      PROVE  i = j
    BY DEF Coalescible, Matches, OneEntryPerKey
<1>3. First(Coalescible(queue, c)) \in Coalescible(queue, c)
    BY <1>1, <1>2, FirstOfOne
<1>4. QED
    BY <1>3 DEF Coalescible

(* The entry that a coalesced submission leaves in the queue. *)
Target(c) == First(Coalescible(queue, c))

LEMMA CoalescedEntry ==
    ASSUME TypeOK, OneEntryPerKey, NEW c \in Contents, SubmitCoalesced(c)
    PROVE  /\ Target(c) \in 1..Len(queue)
           /\ queue[Target(c)] \in Entry
           /\ Coalesce(queue[Target(c)], c, Len(log) + 1) \in Entry
           /\ queue' = [queue EXCEPT ![Target(c)] =
                           Coalesce(queue[Target(c)], c, Len(log) + 1)]
<1>1. Target(c) \in 1..Len(queue)
    BY TheCoalescible DEF Target, SubmitCoalesced, TypeOK
<1>2. queue[Target(c)] \in Entry
    BY <1>1, ElementOfSeq DEF TypeOK
<1>3. c \in Content /\ Len(log) + 1 \in Nat
    BY ContentsAssumption, LenProperties DEF TypeOK
<1>4. Coalesce(queue[Target(c)], c, Len(log) + 1) \in Entry
    BY <1>2, <1>3, CoalesceType
<1>5. QED
    BY <1>1, <1>2, <1>4 DEF SubmitCoalesced, Target

LEMMA TypeStep ==
    ASSUME TypeOK, OneEntryPerKey, [Next]_vars
    PROVE  TypeOK'
<1> USE DEF TypeOK
<1>1. ASSUME NEW c \in Contents, SubmitBlocked(c)
      PROVE  TypeOK'
    BY <1>1 DEF SubmitBlocked, Logged, Dispositions
<1>2. ASSUME NEW c \in Contents, SubmitAccepted(c)
      PROVE  TypeOK'
    <2>1. c \in Content /\ Len(log) + 1 \in Nat
        BY ContentsAssumption, LenProperties
    <2>2. [event |-> c, sources |-> <<Len(log) + 1>>, count |-> 1] \in Entry
        BY <2>1 DEF Entry
    <2>3. queue' \in Seq(Entry)
        BY <1>2, <2>2 DEF SubmitAccepted
    <2>4. QED
        BY <1>2, <2>3 DEF SubmitAccepted, Logged, Dispositions
<1>3. ASSUME NEW c \in Contents, SubmitCoalesced(c)
      PROVE  TypeOK'
    <2>1. queue' \in Seq(Entry)
        BY <1>3, CoalescedEntry, ExceptSeq, SMTT(30)
    <2>2. QED
        BY <1>3, <2>1 DEF SubmitCoalesced, Logged, Dispositions
<1>4. CASE DispatchNext
    <2>1. Head(queue) \in Entry /\ Tail(queue) \in Seq(Entry)
        BY <1>4, HeadTailProperties DEF DispatchNext
    <2>2. PlanOf(Head(queue)) \in Plan
        BY <2>1, PlanType
    <2>3. QED
        BY <1>4, <2>1, <2>2 DEF DispatchNext
<1>5. CASE UNCHANGED vars
    BY <1>5 DEF vars
<1>6. QED
    BY <1>1, <1>2, <1>3, <1>4, <1>5 DEF Next

(* A coalesced event keeps the key, the mode and the type it matched on,   *)
(* and an event is appended only where nothing matches it.                 *)
LEMMA KeyStep ==
    ASSUME TypeOK, OneEntryPerKey, [Next]_vars
    PROVE  OneEntryPerKey'
<1> USE DEF OneEntryPerKey
<1>1. ASSUME NEW c \in Contents, SubmitBlocked(c)
      PROVE  OneEntryPerKey'
    BY <1>1 DEF SubmitBlocked
<1>2. ASSUME NEW c \in Contents, SubmitAccepted(c)
      PROVE  OneEntryPerKey'
    <2> DEFINE n == Len(queue)
    <2>1. c \in Content /\ n \in Nat
        BY ContentsAssumption, LenProperties DEF TypeOK
    <2>2. /\ DOMAIN queue' = 1..(n + 1)
          /\ DOMAIN queue = 1..n
          /\ queue'[n + 1].event = c
          /\ \A i \in 1..n : queue'[i] = queue[i]
        BY <1>2, <2>1 DEF SubmitAccepted, TypeOK
    <2>3. c.mode # "none" => \A i \in 1..n : ~Matches(queue[i].event, c)
        BY <1>2, <2>1, <2>2, NoKeyAssumption DEF SubmitAccepted, Coalescible, Content
    <2>4. ASSUME NEW i \in DOMAIN queue', NEW j \in DOMAIN queue',
                 queue'[i].event.mode # "none",
                 Matches(queue'[i].event, queue'[j].event)
          PROVE  i = j
        BY <2>1, <2>2, <2>3, <2>4 DEF Matches
    <2>5. QED
        BY <2>4
<1>3. ASSUME NEW c \in Contents, SubmitCoalesced(c)
      PROVE  OneEntryPerKey'
    <2> DEFINE t == Target(c)
               new == Coalesce(queue[t], c, Len(log) + 1)
    <2>1. /\ t \in 1..Len(queue)
          /\ DOMAIN queue' = DOMAIN queue
          /\ DOMAIN queue = 1..Len(queue)
          /\ queue'[t] = new
          /\ \A i \in DOMAIN queue : i # t => queue'[i] = queue[i]
        BY <1>3, CoalescedEntry DEF TypeOK
    <2>2. Matches(queue[t].event, c) /\ queue[t].event \in Content /\ c \in Content
        BY <1>3, TheCoalescible, CoalescedEntry, ContentsAssumption
        DEF Target, SubmitCoalesced, Entry
    <2>3. /\ new.event.key = queue[t].event.key
          /\ new.event.mode = queue[t].event.mode
          /\ new.event.type = queue[t].event.type
        BY <2>2 DEF Coalesce, Replaced, Merged, Matches, Content
    <2> HIDE DEF t, new
    <2>4. QED
        BY <2>1, <2>3 DEF Matches
<1>4. CASE DispatchNext
    <2>1. /\ Len(queue) \in Nat
          /\ DOMAIN queue = 1..Len(queue)
          /\ DOMAIN queue' = 1..(Len(queue) - 1)
          /\ \A i \in DOMAIN queue' : queue'[i] = queue[i + 1]
        BY <1>4 DEF DispatchNext, TypeOK
    <2>2. ASSUME NEW i \in DOMAIN queue', NEW j \in DOMAIN queue',
                 queue'[i].event.mode # "none",
                 Matches(queue'[i].event, queue'[j].event)
          PROVE  i = j
        <3>1. i + 1 \in DOMAIN queue /\ j + 1 \in DOMAIN queue
            BY <2>1
        <3>2. i + 1 = j + 1
            BY <2>1, <2>2, <3>1
        <3>3. QED
            BY <2>1, <3>2
    <2>3. QED
        BY <2>2
<1>5. CASE UNCHANGED vars
    BY <1>5 DEF vars
<1>6. QED
    BY <1>1, <1>2, <1>3, <1>4, <1>5 DEF Next

----------------------------------------------------------------------------
(* The three ways a step changes what is carried: a record for a new       *)
(* submission at the end, a new submission added to one record, and the    *)
(* same submissions carried by other records.                              *)

LEMMA InSources ==
    ASSUME NEW s, NEW x
    PROVE  x \in Sources(s) <=> \E i \in DOMAIN s : x \in Elems(s[i].sources)
BY DEF Sources

LEMMA InElems ==
    ASSUME NEW q, NEW x
    PROVE  x \in Elems(q) <=> \E i \in DOMAIN q : x = q[i]
BY DEF Elems

LEMMA ElemsAppend ==
    ASSUME NEW q \in Seq(Nat), NEW n \in Nat, NEW x
    PROVE  x \in Elems(Append(q, n)) <=> x \in Elems(q) \/ x = n
<1>1. /\ Len(q) \in Nat /\ DOMAIN q = 1..Len(q)
      /\ DOMAIN Append(q, n) = 1..(Len(q) + 1)
      /\ Append(q, n)[Len(q) + 1] = n
      /\ \A i \in 1..Len(q) : Append(q, n)[i] = q[i]
    OBVIOUS
<1>2. x \in Elems(Append(q, n)) <=> \E i \in 1..(Len(q) + 1) : x = Append(q, n)[i]
    BY <1>1 DEF Elems
<1>3. x \in Elems(q) <=> \E i \in 1..Len(q) : x = Append(q, n)[i]
    BY <1>1 DEF Elems
<1>4. \A i : i \in 1..(Len(q) + 1) <=> i \in 1..Len(q) \/ i = Len(q) + 1
    BY <1>1
<1>5. QED
    BY <1>1, <1>2, <1>3, <1>4

LEMMA RecordAdded ==
    ASSUME NEW s, NEW t, NEW m \in Nat, NEW n \in Nat, NEW A,
           Records(s, m), Records(t, m + 1), CarriedOK(s, n, A),
           \A i \in 1..m : t[i] = s[i],
           t[m + 1].sources = <<n + 1>>, t[m + 1].count = 1
    PROVE  CarriedOK(t, n + 1, A \cup {n + 1})
<1> DEFINE new == t[m + 1]
<1>1. Elems(new.sources) = {n + 1} /\ new.sources[1] = n + 1
    BY DEF Elems
<1>2. EntryOK(new, n + 1)
    BY <1>1 DEF EntryOK, Increasing
<1>3. \A i \in 1..m : EntryOK(s[i], n)
    BY DEF CarriedOK, Records
<1>4. \A i \in 1..m : EntryOK(t[i], n + 1)
    BY <1>3, SMTT(30) DEF EntryOK
<1>5. \A i \in DOMAIN t : EntryOK(t[i], n + 1)
    BY <1>2, <1>4 DEF Records
<1>6. Disjoint(t)
    <2>1. ASSUME NEW i \in 1..m
          PROVE  n + 1 \notin Elems(s[i].sources)
        <3>1. Elems(s[i].sources) \subseteq 1..n
            BY <1>3 DEF EntryOK
        <3>2. n + 1 \notin 1..n
            OBVIOUS
        <3>3. QED
            BY <3>1, <3>2
    <2> HIDE DEF new
    <2>2. ASSUME NEW i \in 1..(m + 1), NEW j \in 1..(m + 1), i # j
          PROVE  Elems(t[i].sources) \cap Elems(t[j].sources) = {}
        <3>1. CASE i \in 1..m /\ j \in 1..m
            <4>1. Disjoint(s) /\ DOMAIN s = 1..m
                BY DEF CarriedOK, Records
            <4>2. QED
                BY <2>2, <3>1, <4>1 DEF Disjoint
        <3>2. CASE i = m + 1 \/ j = m + 1
            BY <2>1, <2>2, <3>2, <1>1 DEF new
        <3>3. QED
            BY <3>1, <3>2
    <2>3. QED
        BY <2>2 DEF Disjoint, Records
<1>7. Ordered(t)
    <2>1. ASSUME NEW i \in 1..m
          PROVE  s[i].sources[1] \in 1..n
        BY <1>3 DEF EntryOK, Elems, Records
    <2>2. ASSUME NEW i \in 1..(m + 1), NEW j \in 1..(m + 1), i < j
          PROVE  t[i].sources[1] < t[j].sources[1]
        <3>1. CASE j \in 1..m
            <4>1. Ordered(s) /\ DOMAIN s = 1..m /\ i \in 1..m
                BY <2>2, <3>1 DEF CarriedOK, Records
            <4>2. QED
                BY <2>2, <3>1, <4>1 DEF Ordered
        <3>2. CASE j = m + 1
            BY <2>1, <2>2, <3>2, <1>1
        <3>3. QED
            BY <3>1, <3>2
    <2>3. QED
        BY <2>2 DEF Ordered, Records
<1>8. Sources(t) = A \cup {n + 1}
    <2>1. Sources(s) = A /\ DOMAIN s = 1..m /\ DOMAIN t = 1..(m + 1)
        BY DEF CarriedOK, Records
    <2>2. ASSUME NEW x
          PROVE  x \in Sources(t) <=> x \in A \cup {n + 1}
        <3>1. x \in Sources(t) <=> \E i \in 1..(m + 1) : x \in Elems(t[i].sources)
            BY <2>1, InSources
        <3>2. x \in A <=> \E i \in 1..m : x \in Elems(t[i].sources)
            BY <2>1, InSources
        <3>3. x \in Elems(t[m + 1].sources) <=> x = n + 1
            BY <1>1
        <3>4. \A i : i \in 1..(m + 1) <=> i \in 1..m \/ i = m + 1
            OBVIOUS
        <3>5. QED
            BY <3>1, <3>2, <3>3, <3>4
    <2>3. QED
        BY <2>2
<1>9. QED
    BY <1>5, <1>6, <1>7, <1>8 DEF CarriedOK

LEMMA SourceAdded ==
    ASSUME NEW s, NEW t, NEW m \in Nat, NEW n \in Nat, NEW A, NEW k \in 1..m,
           Records(s, m), Records(t, m), CarriedOK(s, n, A),
           \A i \in 1..m : i # k => t[i] = s[i],
           t[k].sources = Append(s[k].sources, n + 1),
           t[k].count = s[k].count + 1
    PROVE  CarriedOK(t, n + 1, A \cup {n + 1})
<1> DEFINE old == s[k].sources
           new == t[k].sources
<1>1. old \in Seq(Nat) /\ EntryOK(s[k], n)
    BY DEF Records, CarriedOK
<1>2. /\ Len(new) = Len(old) + 1
      /\ DOMAIN new = 1..(Len(old) + 1)
      /\ DOMAIN old = 1..Len(old)
      /\ Len(old) \in Nat \ {0}
      /\ new[Len(old) + 1] = n + 1
      /\ \A i \in 1..Len(old) : new[i] = old[i]
    BY <1>1, EmptySeq DEF EntryOK
<1>3. Elems(new) = Elems(old) \cup {n + 1}
    <2>1. ASSUME NEW x
          PROVE  x \in Elems(new) <=> x \in Elems(old) \/ x = n + 1
        BY <1>1, ElemsAppend
    <2>2. QED
        BY <2>1
<1>4. EntryOK(t[k], n + 1)
    <2>1. Increasing(new)
        <3>1. \A i \in 1..Len(old) : old[i] \in 1..n
            BY <1>1, <1>2 DEF EntryOK, Elems
        <3>2. ASSUME NEW i \in 1..(Len(old) + 1), NEW j \in 1..(Len(old) + 1), i < j
              PROVE  new[i] < new[j]
            <4>1. CASE j \in 1..Len(old)
                <5>1. Increasing(old) /\ i \in 1..Len(old)
                    BY <1>1, <1>2, <3>2, <4>1 DEF EntryOK
                <5>2. QED
                    BY <1>2, <3>2, <4>1, <5>1 DEF Increasing
            <4>2. CASE j = Len(old) + 1
                BY <1>2, <3>1, <3>2, <4>2
            <4>3. QED
                BY <3>2, <4>1, <4>2, SMTT(30)
        <3>3. QED
            BY <1>2, <3>2 DEF Increasing
    <2>2. t[k].count = Len(new)
        BY <1>1, <1>2 DEF EntryOK
    <2>3. new # <<>>
        BY <1>1
    <2>4. Elems(new) \subseteq 1..(n + 1)
        BY <1>1, <1>3 DEF EntryOK
    <2>5. QED
        BY <2>1, <2>2, <2>3, <2>4 DEF EntryOK
<1>5. \A i \in 1..m : EntryOK(s[i], n)
    BY DEF CarriedOK, Records
<1>6. ASSUME NEW i \in 1..m, i # k
      PROVE  EntryOK(t[i], n + 1)
    <2>1. EntryOK(t[i], n)
        BY <1>5, <1>6
    <2>2. QED
        BY <2>1 DEF EntryOK
<1>7. ASSUME NEW i \in 1..m
      PROVE  n + 1 \notin Elems(s[i].sources)
    <2>1. Elems(s[i].sources) \subseteq 1..n
        BY <1>5 DEF EntryOK
    <2>2. n + 1 \notin 1..n
        OBVIOUS
    <2>3. QED
        BY <2>1, <2>2
<1>8. new[1] = old[1]
    BY <1>2
<1>9. \A i \in 1..m : i # k => t[i].sources = s[i].sources
    OBVIOUS
<1> HIDE DEF old, new
<1>10. Disjoint(t)
    <2>1. ASSUME NEW i \in 1..m, NEW j \in 1..m, i # j
          PROVE  Elems(t[i].sources) \cap Elems(t[j].sources) = {}
        <3>1. Elems(s[i].sources) \cap Elems(s[j].sources) = {}
            BY <2>1 DEF CarriedOK, Disjoint, Records
        <3>2. QED
            BY <2>1, <3>1, <1>3, <1>7, <1>9 DEF old, new
    <2>2. QED
        BY <2>1 DEF Disjoint, Records
<1>11. Ordered(t)
    <2>1. Ordered(s) /\ DOMAIN s = 1..m /\ DOMAIN t = 1..m
        BY DEF CarriedOK, Records
    <2>2. \A i \in 1..m : t[i].sources[1] = s[i].sources[1]
        BY <1>8, <1>9 DEF old, new
    <2>3. QED
        BY <2>1, <2>2 DEF Ordered
<1>12. Sources(t) = A \cup {n + 1}
    <2>1. Sources(s) = A /\ DOMAIN s = 1..m /\ DOMAIN t = 1..m
        BY DEF CarriedOK, Records
    <2>2. ASSUME NEW x
          PROVE  x \in Sources(t) <=> x \in A \cup {n + 1}
        <3>1. x \in Sources(t) <=> \E i \in 1..m : x \in Elems(t[i].sources)
            BY <2>1, InSources
        <3>2. x \in A <=> \E i \in 1..m : x \in Elems(s[i].sources)
            BY <2>1, InSources
        <3>3. x \in Elems(t[k].sources) <=> x \in Elems(s[k].sources) \/ x = n + 1
            BY <1>3 DEF old, new
        <3>4. QED
            BY <3>1, <3>2, <3>3, <1>9
    <2>3. QED
        BY <2>2
<1>13. QED
    BY <1>4, <1>6, <1>10, <1>11, <1>12 DEF CarriedOK, Records

LEMMA SameSources ==
    ASSUME NEW s, NEW t, NEW m \in Nat, NEW n \in Nat, NEW A,
           Records(s, m), Records(t, m), CarriedOK(s, n, A),
           \A i \in 1..m : t[i].sources = s[i].sources /\ t[i].count = s[i].count
    PROVE  CarriedOK(t, n, A)
<1>1. DOMAIN s = 1..m /\ DOMAIN t = 1..m
    BY DEF Records
<1>2. \A i \in DOMAIN t : EntryOK(t[i], n)
    BY <1>1 DEF CarriedOK, EntryOK
<1>3. Disjoint(t) /\ Ordered(t)
    BY <1>1 DEF CarriedOK, Disjoint, Ordered
<1>4. Sources(t) = Sources(s)
    BY <1>1 DEF Sources
<1>5. QED
    BY <1>2, <1>3, <1>4 DEF CarriedOK

LEMMA OneMoreSubmission ==
    ASSUME NEW s, NEW n \in Nat, NEW A, CarriedOK(s, n, A)
    PROVE  CarriedOK(s, n + 1, A)
BY DEF CarriedOK, EntryOK

----------------------------------------------------------------------------
(* The inductive step, one lemma per action. *)

LEMMA BlockedStep ==
    ASSUME IInv, NEW c \in Contents, SubmitBlocked(c)
    PROVE  /\ Len(log') = Len(disposition')
           /\ CarriedOK(Carried', Len(log'), Accepted')
<1>1. /\ Len(log') = Len(log) + 1
      /\ Len(disposition') = Len(disposition) + 1
      /\ Len(log) \in Nat
      /\ Carried' = Carried
    BY DEF SubmitBlocked, Logged, IInv, TypeOK, Carried
<1>2. Accepted' = Accepted
    BY DEF SubmitBlocked, Logged, IInv, TypeOK, Accepted
<1>3. CarriedOK(Carried, Len(log) + 1, Accepted)
    BY <1>1, OneMoreSubmission DEF IInv
<1>4. QED
    BY <1>1, <1>2, <1>3 DEF IInv

LEMMA AcceptedHistory ==
    ASSUME IInv, NEW c \in Contents, NEW answer \in {"accepted", "coalesced"},
           Logged(c, answer)
    PROVE  /\ Len(log) \in Nat
           /\ Len(log') = Len(log) + 1
           /\ Len(disposition') = Len(log')
           /\ Accepted' = Accepted \cup {Len(log) + 1}
           /\ plans' = plans
<1>1. /\ Len(log) \in Nat
      /\ Len(log') = Len(log) + 1
      /\ Len(disposition) = Len(log)
      /\ Len(disposition') = Len(log) + 1
    BY DEF Logged, IInv, TypeOK
<1>2. /\ DOMAIN disposition = 1..Len(log)
      /\ DOMAIN disposition' = 1..(Len(log) + 1)
      /\ disposition'[Len(log) + 1] = answer
      /\ \A i \in 1..Len(log) : disposition'[i] = disposition[i]
    BY <1>1 DEF Logged, IInv, TypeOK
<1>3. QED
    BY <1>1, <1>2 DEF Logged, Accepted

LEMMA AcceptedStep ==
    ASSUME IInv, TypeOK', NEW c \in Contents, SubmitAccepted(c)
    PROVE  /\ Len(log') = Len(disposition')
           /\ CarriedOK(Carried', Len(log'), Accepted')
<1> DEFINE m == Len(plans) + Len(queue)
<1>1. /\ Len(log) \in Nat
      /\ Len(log') = Len(log) + 1
      /\ Len(disposition') = Len(log')
      /\ Accepted' = Accepted \cup {Len(log) + 1}
      /\ plans' = plans
    BY AcceptedHistory DEF SubmitAccepted
<1>2. /\ Len(queue) \in Nat /\ Len(plans) \in Nat
      /\ Len(queue') = Len(queue) + 1
      /\ \A i \in 1..Len(queue) : queue'[i] = queue[i]
      /\ queue'[Len(queue) + 1].sources = <<Len(log) + 1>>
      /\ queue'[Len(queue) + 1].count = 1
    BY DEF SubmitAccepted, IInv, TypeOK
<1>3. Records(Carried, m) /\ CarriedOK(Carried, Len(log), Accepted)
    BY CarriedType DEF IInv, CarriedShape
<1>4. Len(plans') + Len(queue') = m + 1
    BY <1>1, <1>2
<1>5. /\ Records(Carried', m + 1)
      /\ \A i \in 1..(m + 1) :
            Carried'[i] = IF i <= Len(plans) THEN plans[i]
                          ELSE queue'[i - Len(plans)]
    <2>1. CarriedShape'
        BY CarriedType, PTL
    <2>2. QED
        BY <2>1, <1>1, <1>4 DEF CarriedShape
<1>6. ASSUME NEW i \in 1..m
      PROVE  Carried'[i] = Carried[i]
    <2>1. Carried[i] = IF i <= Len(plans) THEN plans[i] ELSE queue[i - Len(plans)]
        BY CarriedType DEF IInv, CarriedShape
    <2>2. i \in 1..(m + 1) /\ (~(i <= Len(plans)) => i - Len(plans) \in 1..Len(queue))
        BY <1>2
    <2>3. QED
        BY <1>2, <1>5, <2>1, <2>2
<1>7. Carried'[m + 1] = queue'[Len(queue) + 1]
    BY <1>2, <1>5
<1>8. CarriedOK(Carried', Len(log) + 1, Accepted \cup {Len(log) + 1})
    <2>1. m \in Nat
        BY <1>2
    <2> HIDE DEF m
    <2>2. QED
        BY <2>1, <1>1, <1>2, <1>3, <1>5, <1>6, <1>7, RecordAdded
<1>9. QED
    BY <1>1, <1>8

LEMMA CoalescedStep ==
    ASSUME IInv, TypeOK', NEW c \in Contents, SubmitCoalesced(c)
    PROVE  /\ Len(log') = Len(disposition')
           /\ CarriedOK(Carried', Len(log'), Accepted')
<1> DEFINE p == Len(plans)
           m == p + Len(queue)
           k == p + Target(c)
<1>1. /\ Len(log) \in Nat
      /\ Len(log') = Len(log) + 1
      /\ Len(disposition') = Len(log')
      /\ Accepted' = Accepted \cup {Len(log) + 1}
      /\ plans' = plans
    BY AcceptedHistory DEF SubmitCoalesced
<1>2. /\ Target(c) \in 1..Len(queue)
      /\ queue' = [queue EXCEPT ![Target(c)] =
                      Coalesce(queue[Target(c)], c, Len(log) + 1)]
    BY CoalescedEntry DEF IInv
<1>3. /\ Len(queue) \in Nat /\ p \in Nat
      /\ Len(queue') = Len(queue)
      /\ \A i \in 1..Len(queue) : i # Target(c) => queue'[i] = queue[i]
      /\ queue'[Target(c)].sources = Append(queue[Target(c)].sources, Len(log) + 1)
      /\ queue'[Target(c)].count = queue[Target(c)].count + 1
    BY <1>2 DEF IInv, TypeOK, Coalesce
<1>4. /\ Records(Carried, m) /\ CarriedOK(Carried, Len(log), Accepted)
      /\ \A i \in 1..m : Carried[i] = IF i <= p THEN plans[i] ELSE queue[i - p]
    BY CarriedType DEF IInv, CarriedShape
<1>5. /\ Records(Carried', m)
      /\ \A i \in 1..m : Carried'[i] = IF i <= p THEN plans[i] ELSE queue'[i - p]
    <2>1. CarriedShape'
        BY CarriedType, PTL
    <2>2. QED
        BY <2>1, <1>1, <1>3 DEF CarriedShape
<1>6. k \in 1..m /\ ~(k <= p) /\ k - p = Target(c)
    BY <1>2, <1>3
<1>7. ASSUME NEW i \in 1..m, i # k
      PROVE  Carried'[i] = Carried[i]
    <2>1. ~(i <= p) => i - p \in 1..Len(queue) /\ i - p # Target(c)
        BY <1>2, <1>3, <1>7
    <2>2. QED
        BY <1>3, <1>4, <1>5, <2>1
<1>8. /\ Carried'[k].sources = Append(Carried[k].sources, Len(log) + 1)
      /\ Carried'[k].count = Carried[k].count + 1
    BY <1>3, <1>4, <1>5, <1>6
<1>9. CarriedOK(Carried', Len(log) + 1, Accepted \cup {Len(log) + 1})
    <2>1. m \in Nat
        BY <1>3
    <2> HIDE DEF m, k
    <2>2. QED
        BY <2>1, <1>1, <1>4, <1>5, <1>6, <1>7, <1>8, SourceAdded
<1>10. QED
    BY <1>1, <1>9

LEMMA DispatchStep ==
    ASSUME IInv, TypeOK', DispatchNext
    PROVE  /\ Len(log') = Len(disposition')
           /\ CarriedOK(Carried', Len(log'), Accepted')
<1> DEFINE p == Len(plans)
           m == p + Len(queue)
<1>1. log' = log /\ disposition' = disposition /\ Accepted' = Accepted
    BY DEF DispatchNext, Accepted
<1>2. /\ p \in Nat /\ Len(queue) \in Nat \ {0} /\ Len(log) \in Nat
      /\ Len(plans') = p + 1 /\ Len(queue') = Len(queue) - 1
      /\ \A i \in 1..p : plans'[i] = plans[i]
      /\ plans'[p + 1] = PlanOf(queue[1])
      /\ \A i \in 1..(Len(queue) - 1) : queue'[i] = queue[i + 1]
    BY EmptySeq DEF DispatchNext, IInv, TypeOK
<1>3. /\ plans'[p + 1].sources = queue[1].sources
      /\ plans'[p + 1].count = queue[1].count
    BY <1>2 DEF PlanOf
<1>4. /\ Records(Carried, m) /\ CarriedOK(Carried, Len(log), Accepted)
      /\ \A i \in 1..m : Carried[i] = IF i <= p THEN plans[i] ELSE queue[i - p]
    BY CarriedType DEF IInv, CarriedShape
<1>5. /\ Records(Carried', m)
      /\ \A i \in 1..m : Carried'[i] = IF i <= p + 1 THEN plans'[i]
                                       ELSE queue'[i - (p + 1)]
    <2>1. CarriedShape'
        BY CarriedType, PTL
    <2>2. Len(plans') + Len(queue') = m
        BY <1>2
    <2>3. QED
        BY <2>1, <2>2, <1>2 DEF CarriedShape
<1>6. ASSUME NEW i \in 1..m
      PROVE  /\ Carried'[i].sources = Carried[i].sources
             /\ Carried'[i].count = Carried[i].count
    <2>1. CASE i <= p
        BY <2>1, <1>2, <1>4, <1>5
    <2>2. CASE i = p + 1
        <3>1. Carried'[i] = plans'[p + 1] /\ Carried[i] = queue[1]
            BY <2>2, <1>2, <1>4, <1>5
        <3>2. QED
            BY <3>1, <1>3
    <2>3. CASE i > p + 1
        <3>1. /\ i - (p + 1) \in 1..(Len(queue) - 1)
              /\ i - (p + 1) + 1 = i - p
              /\ ~(i <= p) /\ ~(i <= p + 1)
            BY <2>3, <1>2
        <3>2. Carried'[i] = queue'[i - (p + 1)] /\ Carried[i] = queue[i - p]
            BY <3>1, <1>4, <1>5
        <3>3. QED
            BY <3>1, <3>2, <1>2
    <2>4. QED
        BY <2>1, <2>2, <2>3, <1>2
<1>7. CarriedOK(Carried', Len(log), Accepted)
    <2>1. m \in Nat
        BY <1>2
    <2> HIDE DEF m
    <2>2. QED
        BY <2>1, <1>2, <1>4, <1>5, <1>6, SameSources
<1>8. QED
    BY <1>1, <1>7 DEF IInv

----------------------------------------------------------------------------
(* The theorems. *)

LEMMA InitIInv == Init => IInv
<1> SUFFICES ASSUME Init PROVE IInv
    OBVIOUS
<1>1. TypeOK
    BY DEF Init, TypeOK
<1>2. OneEntryPerKey /\ Len(log) = Len(disposition)
    BY DEF Init, OneEntryPerKey
<1>3. Carried = <<>> /\ DOMAIN Carried = {}
    BY DEF Init, Carried
<1>4. Accepted = {} /\ Sources(Carried) = {}
    BY <1>3 DEF Init, Accepted, Sources
<1>5. QED
    BY <1>1, <1>2, <1>3, <1>4 DEF IInv, CarriedOK, Disjoint, Ordered

LEMMA NextIInv == IInv /\ [Next]_vars => IInv'
<1> SUFFICES ASSUME IInv, [Next]_vars PROVE IInv'
    OBVIOUS
<1>1. TypeOK' /\ OneEntryPerKey'
    BY TypeStep, KeyStep DEF IInv
<1>2. ASSUME NEW c \in Contents, SubmitBlocked(c)
      PROVE  IInv'
    BY <1>1, <1>2, BlockedStep DEF IInv
<1>3. ASSUME NEW c \in Contents, SubmitAccepted(c)
      PROVE  IInv'
    BY <1>1, <1>3, AcceptedStep DEF IInv
<1>4. ASSUME NEW c \in Contents, SubmitCoalesced(c)
      PROVE  IInv'
    BY <1>1, <1>4, CoalescedStep DEF IInv
<1>5. CASE DispatchNext
    BY <1>1, <1>5, DispatchStep DEF IInv
<1>6. CASE UNCHANGED vars
    BY <1>6 DEF IInv, vars, TypeOK, OneEntryPerKey, Carried, Accepted
<1>7. QED
    BY <1>2, <1>3, <1>4, <1>5, <1>6 DEF Next

LEMMA Invariance == Spec => []IInv
BY InitIInv, NextIInv, PTL DEF Spec

(* The queue, the history and the plans keep their types: in particular a  *)
(* coalesced event is always one that RuntimeEvent.__post_init__ admits.   *)
THEOREM TypeCorrect == Spec => []TypeOK
<1>1. IInv => TypeOK
    BY DEF IInv
<1>2. QED
    BY <1>1, Invariance, PTL

(* _find_coalescible_index never has a choice: one entry per debounce key, *)
(* mode and type.                                                          *)
THEOREM KeysUnique == Spec => []OneEntryPerKey
<1>1. IInv => OneEntryPerKey
    BY DEF IInv
<1>2. QED
    BY <1>1, Invariance, PTL

(* No submission that was not refused is lost, duplicated or reordered     *)
(* within its entry, and the count reported is the number of submissions.  *)
THEOREM SourcesCorrect == Spec => []SourcesAccountedFor
<1>1. IInv => SourcesAccountedFor
    BY DEF IInv, CarriedOK, EntryOK, Disjoint, Carried, Accepted, SourcesAccountedFor
<1>2. QED
    BY <1>1, Invariance, PTL

----------------------------------------------------------------------------
(* RuntimeEvents implements EventIntake. *)

LEMMA OldestFirst ==
    ASSUME NEW s, NEW m \in Nat, NEW n \in Nat, NEW A,
           Records(s, m), CarriedOK(s, n, A),
           NEW i \in 1..m, NEW j \in 1..m, i <= j,
           NEW x \in Elems(s[j].sources)
    PROVE  s[i].sources[1] <= x
<1>1. /\ Increasing(s[j].sources) /\ s[j].sources # <<>>
      /\ Elems(s[j].sources) \subseteq 1..n
      /\ Elems(s[i].sources) \subseteq 1..n /\ s[i].sources # <<>>
      /\ Ordered(s) /\ DOMAIN s = 1..m
    BY DEF CarriedOK, EntryOK, Records
<1>2. s[i].sources \in Seq(Nat) /\ s[j].sources \in Seq(Nat)
    BY DEF Records
<1>3. PICK k \in DOMAIN s[j].sources : x = s[j].sources[k]
    BY InElems
<1> DEFINE q == s[j].sources
           r == s[i].sources
<1>4. /\ q \in Seq(Nat) /\ Increasing(q) /\ q # <<>> /\ k \in DOMAIN q /\ x = q[k]
      /\ r \in Seq(Nat) /\ r # <<>>
    BY <1>1, <1>2, <1>3
<1>5. r[1] <= q[1]
    <2>1. CASE i = j
        BY <2>1, <1>4
    <2>2. CASE i < j
        <3>1. i \in DOMAIN s /\ j \in DOMAIN s
            BY <1>1
        <3>2. s[i].sources[1] < s[j].sources[1]
            BY <1>1, <2>2, <3>1 DEF Ordered
        <3>3. r[1] \in Nat /\ q[1] \in Nat
            <4> HIDE DEF q, r
            <4>1. Len(r) \in Nat \ {0} /\ Len(q) \in Nat \ {0}
                BY <1>4, EmptySeq
            <4>2. QED
                BY <1>4, <4>1, ElementOfSeq, SMTT(30)
        <3>4. QED
            BY <3>2, <3>3
    <2>3. QED
        BY <2>1, <2>2
<1> HIDE DEF q, r
<1>6. q[1] <= x
    BY <1>4 DEF Increasing
<1>7. r[1] \in Nat /\ q[1] \in Nat /\ x \in Nat
    BY <1>4
<1>8. r[1] <= x
    BY <1>5, <1>6, <1>7
<1>9. QED
    BY <1>8 DEF r

(* The queue is the tail of what is carried. *)
LEMMA QueueCarried ==
    ASSUME IInv, NEW i \in 1..Len(queue)
    PROVE  /\ Len(plans) + i \in 1..(Len(plans) + Len(queue))
           /\ Carried[Len(plans) + i] = queue[i]
           /\ queue[i].sources \in Seq(Nat)
           /\ EntryOK(queue[i], Len(log))
<1>1. Len(plans) \in Nat /\ Len(queue) \in Nat
    BY DEF IInv, TypeOK
<1>2. Len(plans) + i \in 1..(Len(plans) + Len(queue)) /\ ~(Len(plans) + i <= Len(plans))
      /\ Len(plans) + i - Len(plans) = i
    BY <1>1
<1>3. Carried[Len(plans) + i] = queue[i]
    BY <1>2, CarriedType DEF IInv, CarriedShape
<1>4. Len(plans) + i \in DOMAIN Carried /\ Carried[Len(plans) + i].sources \in Seq(Nat)
    BY <1>2, CarriedType DEF IInv, CarriedShape, Records
<1>5. QED
    BY <1>2, <1>3, <1>4 DEF IInv, CarriedOK

LEMMA IntakeTake ==
    ASSUME IInv, IInv', NEW c \in Contents,
           SubmitAccepted(c) \/ SubmitCoalesced(c)
    PROVE  Intake!Take
<1>1. /\ Len(log) < MaxEvents /\ Len(log') = Len(log) + 1 /\ plans' = plans
    BY AcceptedHistory DEF SubmitAccepted, SubmitCoalesced, Logged
<1>2. Sources(queue') = Sources(queue) \cup {Len(log) + 1}
    <2>1. CASE SubmitAccepted(c)
        <3>1. /\ Len(queue) \in Nat
              /\ DOMAIN queue = 1..Len(queue) /\ DOMAIN queue' = 1..(Len(queue) + 1)
              /\ \A i \in 1..Len(queue) : queue'[i] = queue[i]
              /\ queue'[Len(queue) + 1].sources = <<Len(log) + 1>>
            BY <2>1 DEF SubmitAccepted, IInv, TypeOK
        <3>2. Elems(queue'[Len(queue) + 1].sources) = {Len(log) + 1}
            BY <3>1 DEF Elems
        <3>3. ASSUME NEW x
              PROVE  x \in Sources(queue') <=> x \in Sources(queue) \cup {Len(log) + 1}
            <4>1. x \in Sources(queue') <=>
                     \E i \in 1..(Len(queue) + 1) : x \in Elems(queue'[i].sources)
                BY <3>1, InSources
            <4>2. x \in Sources(queue) <=>
                     \E i \in 1..Len(queue) : x \in Elems(queue'[i].sources)
                BY <3>1, InSources
            <4>3. \A i : i \in 1..(Len(queue) + 1) <=>
                            i \in 1..Len(queue) \/ i = Len(queue) + 1
                BY <3>1
            <4>4. QED
                BY <3>2, <4>1, <4>2, <4>3
        <3>4. QED
            BY <3>3
    <2>2. CASE SubmitCoalesced(c)
        <3> DEFINE t == Target(c)
        <3>1. /\ t \in 1..Len(queue)
              /\ queue' = [queue EXCEPT ![t] = Coalesce(queue[t], c, Len(log) + 1)]
            BY <2>2, CoalescedEntry DEF IInv
        <3>2. /\ DOMAIN queue = 1..Len(queue) /\ DOMAIN queue' = 1..Len(queue)
              /\ \A i \in 1..Len(queue) : i # t => queue'[i] = queue[i]
              /\ queue'[t].sources = Append(queue[t].sources, Len(log) + 1)
            BY <3>1 DEF IInv, TypeOK, Coalesce
        <3>3. queue[t].sources \in Seq(Nat) /\ Len(log) + 1 \in Nat
            BY <3>1, QueueCarried DEF IInv, TypeOK
        <3> HIDE DEF t
        <3>4. ASSUME NEW x
              PROVE  x \in Elems(queue'[t].sources) <=>
                        x \in Elems(queue[t].sources) \/ x = Len(log) + 1
            BY <3>2, <3>3, ElemsAppend
        <3>5. ASSUME NEW x
              PROVE  x \in Sources(queue') <=> x \in Sources(queue) \cup {Len(log) + 1}
            <4>1. x \in Sources(queue') <=>
                     \E i \in 1..Len(queue) : x \in Elems(queue'[i].sources)
                BY <3>2, InSources
            <4>2. x \in Sources(queue) <=>
                     \E i \in 1..Len(queue) : x \in Elems(queue[i].sources)
                BY <3>2, InSources
            <4>3. QED
                BY <3>1, <3>2, <3>4, <4>1, <4>2
        <3>6. QED
            BY <3>5
    <2>3. QED
        BY <2>1, <2>2
<1>3. QED
    BY <1>1, <1>2 DEF Intake!Take

LEMMA IntakeDeliver ==
    ASSUME IInv, IInv', DispatchNext
    PROVE  \E batch \in SUBSET Sources(queue) : Intake!Deliver(batch)
<1> DEFINE batch == Elems(queue[1].sources)
           n == Len(queue)
<1>1. /\ n \in Nat \ {0} /\ log' = log
      /\ DOMAIN queue = 1..n /\ DOMAIN queue' = 1..(n - 1)
      /\ \A i \in 1..(n - 1) : queue'[i] = queue[i + 1]
      /\ Len(plans) \in Nat
      /\ DOMAIN plans = 1..Len(plans) /\ DOMAIN plans' = 1..(Len(plans) + 1)
      /\ \A i \in 1..Len(plans) : plans'[i] = plans[i]
      /\ plans'[Len(plans) + 1].sources = queue[1].sources
    BY EmptySeq DEF DispatchNext, IInv, TypeOK, PlanOf
<1>2. /\ queue[1].sources \in Seq(Nat) /\ queue[1].sources # <<>>
      /\ queue[1].sources[1] \in batch
    <2>1. queue[1].sources \in Seq(Nat) /\ EntryOK(queue[1], Len(log))
        BY <1>1, QueueCarried
    <2>2. QED
        BY <2>1 DEF EntryOK, Elems
<1> HIDE DEF batch, n
<1>3. batch \subseteq Sources(queue)
    BY <1>1, InSources DEF batch
<1>4. \A e \in Sources(queue) : queue[1].sources[1] <= e
    <2>1. ASSUME NEW e \in Sources(queue)
          PROVE  queue[1].sources[1] <= e
        <3> DEFINE p == Len(plans)
                   m == p + Len(queue)
        <3>1. PICK i \in 1..n : e \in Elems(queue[i].sources)
            BY <1>1, InSources
        <3>2. /\ p + 1 \in 1..m /\ Carried[p + 1] = queue[1]
              /\ p + i \in 1..m /\ Carried[p + i] = queue[i]
            BY <1>1, <3>1, QueueCarried DEF n
        <3>3. p + 1 <= p + i /\ m \in Nat /\ Len(log) \in Nat
            BY <1>1, <3>1 DEF n, IInv, TypeOK
        <3>4. Records(Carried, m) /\ CarriedOK(Carried, Len(log), Accepted)
            BY CarriedType DEF IInv, CarriedShape
        <3> HIDE DEF p, m
        <3>5. Carried[p + 1].sources[1] <= e
            BY <3>1, <3>2, <3>3, <3>4, OldestFirst
        <3>6. QED
            BY <3>2, <3>5
    <2>2. QED
        BY <2>1
<1>5. Sources(queue') = Sources(queue) \ batch
    <2>1. ASSUME NEW i \in 2..n
          PROVE  Elems(queue[i].sources) \cap batch = {}
        <3>1. /\ Carried[Len(plans) + 1] = queue[1] /\ Carried[Len(plans) + i] = queue[i]
              /\ Len(plans) + 1 \in 1..(Len(plans) + Len(queue))
              /\ Len(plans) + i \in 1..(Len(plans) + Len(queue))
              /\ Len(plans) + 1 # Len(plans) + i
            BY <1>1, QueueCarried DEF n
        <3>2. DOMAIN Carried = 1..(Len(plans) + Len(queue)) /\ Disjoint(Carried)
            BY CarriedType DEF IInv, CarriedShape, Records, CarriedOK
        <3>3. QED
            BY <3>1, <3>2 DEF Disjoint, batch
    <2>2. ASSUME NEW x
          PROVE  x \in Sources(queue') <=> x \in Sources(queue) \ batch
        <3>1. x \in Sources(queue') <=>
                 \E i \in 1..(n - 1) : x \in Elems(queue[i + 1].sources)
            <4>1. x \in Sources(queue') <=>
                     \E i \in DOMAIN queue' : x \in Elems(queue'[i].sources)
                BY InSources
            <4>2. \A i \in DOMAIN queue' : queue'[i].sources = queue[i + 1].sources
                BY <1>1
            <4>3. DOMAIN queue' = 1..(n - 1)
                BY <1>1
            <4>4. QED
                BY <4>1, <4>2, <4>3
        <3>2. x \in Sources(queue) <=> \E i \in 1..n : x \in Elems(queue[i].sources)
            BY <1>1, InSources
        <3>3. (\E i \in 1..(n - 1) : x \in Elems(queue[i + 1].sources)) <=>
                 \E i \in 2..n : x \in Elems(queue[i].sources)
            <4>1. \A i \in 1..(n - 1) : i + 1 \in 2..n
                BY <1>1
            <4>2. \A i \in 2..n : i - 1 \in 1..(n - 1) /\ (i - 1) + 1 = i
                BY <1>1
            <4>3. QED
                BY <4>1, <4>2
        <3>4. \A i : i \in 1..n <=> i = 1 \/ i \in 2..n
            BY <1>1
        <3>5. QED
            BY <2>1, <3>1, <3>2, <3>3, <3>4 DEF batch
    <2>3. QED
        BY <2>2
<1>6. Sources(plans') = Sources(plans) \cup batch
    <2>1. ASSUME NEW x
          PROVE  x \in Sources(plans') <=> x \in Sources(plans) \cup batch
        <3>1. x \in Sources(plans') <=>
                 \E i \in 1..(Len(plans) + 1) : x \in Elems(plans'[i].sources)
            BY <1>1, InSources
        <3>2. x \in Sources(plans) <=>
                 \E i \in 1..Len(plans) : x \in Elems(plans'[i].sources)
            <4>1. x \in Sources(plans) <=>
                     \E i \in DOMAIN plans : x \in Elems(plans[i].sources)
                BY InSources
            <4>2. DOMAIN plans = 1..Len(plans)
                BY <1>1
            <4>3. \A i \in 1..Len(plans) : plans'[i].sources = plans[i].sources
                BY <1>1
            <4>4. QED
                BY <4>1, <4>2, <4>3
        <3>3. \A i : i \in 1..(Len(plans) + 1) <=>
                        i \in 1..Len(plans) \/ i = Len(plans) + 1
            BY <1>1
        <3>4. QED
            BY <1>1, <3>1, <3>2, <3>3 DEF batch
    <2>2. QED
        BY <2>1
<1>7. Intake!Deliver(batch)
    BY <1>1, <1>2, <1>3, <1>4, <1>5, <1>6 DEF Intake!Deliver
<1>8. QED
    BY <1>3, <1>7

(* Whatever it coalesces, the coordinator hands out every submission it    *)
(* did not refuse exactly once, and the oldest pending one at each         *)
(* dispatch.                                                               *)
THEOREM Implementation == Spec => ImplementsIntake
<1>1. Init => Intake!Init
    <2>1. Sources(<<>>) = {}
        BY DEF Sources
    <2>2. QED
        BY <2>1 DEF Init, Intake!Init
<1>2. IInv /\ IInv' /\ [Next]_vars => [Intake!Next]_(Intake!intakeVars)
    <2> SUFFICES ASSUME IInv, IInv', [Next]_vars
                 PROVE  [Intake!Next]_(Intake!intakeVars)
        OBVIOUS
    <2>1. ASSUME NEW c \in Contents, SubmitBlocked(c)
          PROVE  Intake!Refuse
        BY <2>1 DEF SubmitBlocked, Logged, Intake!Refuse, IInv, TypeOK
    <2>2. ASSUME NEW c \in Contents, SubmitAccepted(c) \/ SubmitCoalesced(c)
          PROVE  Intake!Take
        BY <2>2, IntakeTake
    <2>3. CASE DispatchNext
        BY <2>3, IntakeDeliver DEF Intake!Next
    <2>4. CASE UNCHANGED vars
        BY <2>4 DEF vars, Intake!intakeVars
    <2>5. QED
        BY <2>1, <2>2, <2>3, <2>4 DEF Next, Intake!Next
<1>3. QED
    BY <1>1, <1>2, Invariance, PTL DEF Spec, ImplementsIntake, Intake!Spec

----------------------------------------------------------------------------
(* An entry answers for all of its sources: the inductive strengthening.   *)

(* What a source asked of a scope, and what an event still asks of it: the *)
(* last signal of each.                                                    *)
Covered(asked, kept) ==
    asked # <<>> =>
        /\ kept # <<>>
        /\ asked[Len(asked)].ids \subseteq kept[Len(kept)].ids
        /\ asked[Len(asked)].full => kept[Len(kept)].full

(* An event has absorbed a source of its type.  The derived capture and    *)
(* analysis targets follow from what the events name themselves.           *)
Absorbs(event, source) ==
    /\ event.type = source.type
    /\ source.capture \subseteq event.capture
    /\ source.analysis \subseteq event.analysis
    /\ \A s \in Scopes : Covered(source.signals[s], event.signals[s])

Heeds(polling, sources, l) ==
    polling <=> \A id \in Elems(sources) : l[id].polling

Latest(sources, l) == l[sources[Len(sources)]]

EntryAnswers(e, l) ==
    /\ Heeds(e.event.polling, e.sources, l)
    /\ e.event.mode = "debounce_replace" =>
          e.event = [Latest(e.sources, l) EXCEPT !.polling = e.event.polling]
    /\ e.event.mode = "merge" =>
          \A id \in Elems(e.sources) : Absorbs(e.event, l[id])

AnswersInv ==
    /\ \A i \in DOMAIN queue : EntryAnswers(queue[i], log)
    /\ \A i \in DOMAIN plans : Heeds(plans[i].polling, plans[i].sources, log)

LEMMA MergeScopeCovers ==
    ASSUME NEW a \in Seq(Signal), NEW b \in Seq(Signal)
    PROVE  Covered(a, MergeScope(a, b)) /\ Covered(b, MergeScope(a, b))
<1> DEFINE kept == Elems(b) \cup IF a = <<>> THEN {} ELSE {a[Len(a)]}
           merged == [ids  |-> {r \in RegionIds : \E g \in kept : r \in g.ids},
                      full |-> \E g \in kept : g.full]
<1>1. CASE a = <<>> /\ b = <<>>
    BY <1>1 DEF Covered
<1>2. CASE ~(a = <<>> /\ b = <<>>)
    <2>1. MergeScope(a, b) = <<merged>>
        BY <1>2 DEF MergeScope
    <2>2. a # <<>> => a[Len(a)] \in kept /\ a[Len(a)] \in Signal
        BY EmptySeq, ElementOfSeq
    <2>3. b # <<>> => b[Len(b)] \in kept /\ b[Len(b)] \in Signal
        BY EmptySeq, ElementOfSeq DEF Elems
    <2> HIDE DEF kept
    <2>4. ASSUME NEW g \in kept, g \in Signal
          PROVE  g.ids \subseteq merged.ids /\ (g.full => merged.full)
        BY <2>4 DEF Signal
    <2> HIDE DEF merged
    <2>5. <<merged>> # <<>> /\ Len(<<merged>>) = 1 /\ <<merged>>[1] = merged
        OBVIOUS
    <2>6. QED
        BY <2>1, <2>2, <2>3, <2>4, <2>5 DEF Covered
<1>3. QED
    BY <1>1, <1>2

LEMMA CoveredTransitive ==
    ASSUME NEW a, NEW b, NEW c, Covered(a, b), Covered(b, c)
    PROVE  Covered(a, c)
BY DEF Covered

LEMMA AbsorbsItself ==
    ASSUME NEW c
    PROVE  Absorbs(c, c)
BY DEF Absorbs, Covered

(* What a merge had absorbed it keeps, and it absorbs the incoming event.  *)
LEMMA MergedAbsorbs ==
    ASSUME NEW a \in Content, NEW b \in Content, a.type = b.type
    PROVE  /\ Absorbs(Merged(a, b), b)
           /\ \A source : Absorbs(a, source) => Absorbs(Merged(a, b), source)
<1> DEFINE m == Merged(a, b)
<1>1. /\ m.type = a.type
      /\ m.capture = a.capture \cup b.capture
      /\ m.analysis = a.analysis \cup b.analysis
      /\ m.signals = MergeSignals(a.signals, b.signals)
    BY DEF Merged, Content
<1>2. \A s \in Scopes : /\ Covered(a.signals[s], m.signals[s])
                        /\ Covered(b.signals[s], m.signals[s])
    BY <1>1, MergeScopeCovers DEF MergeSignals, Content
<1> HIDE DEF m
<1>3. Absorbs(m, b)
    BY <1>1, <1>2 DEF Absorbs
<1>4. ASSUME NEW source, Absorbs(a, source)
      PROVE  Absorbs(m, source)
    BY <1>1, <1>2, <1>4, CoveredTransitive DEF Absorbs
<1>5. QED
    BY <1>3, <1>4 DEF m

(* The sources of an entry, and the latest of them, are in the log.        *)
LEMMA SourcesLogged ==
    ASSUME NEW e, NEW n \in Nat, e.sources \in Seq(Nat), EntryOK(e, n)
    PROVE  /\ Elems(e.sources) \subseteq 1..n
           /\ Len(e.sources) \in DOMAIN e.sources
           /\ e.sources[Len(e.sources)] \in Elems(e.sources)
<1>1. Len(e.sources) \in DOMAIN e.sources
    BY EmptySeq DEF EntryOK
<1>2. QED
    BY <1>1, InElems DEF EntryOK

(* A later submission changes nothing for the entries it does not touch.   *)
LEMMA LogGrows ==
    ASSUME NEW l \in Seq(Contents), NEW c \in Contents, NEW e,
           e.sources \in Seq(Nat), EntryOK(e, Len(l)), NEW p
    PROVE  /\ Heeds(p, e.sources, l) => Heeds(p, e.sources, Append(l, c))
           /\ EntryAnswers(e, l) => EntryAnswers(e, Append(l, c))
<1>1. Len(l) \in Nat /\ \A id \in 1..Len(l) : Append(l, c)[id] = l[id]
    OBVIOUS
<1>2. \A id \in Elems(e.sources) : Append(l, c)[id] = l[id]
    BY <1>1, SourcesLogged
<1>3. Latest(e.sources, Append(l, c)) = Latest(e.sources, l)
    BY <1>1, <1>2, SourcesLogged DEF Latest
<1> DEFINE m == Append(l, c)
<1>4. \A q : Heeds(q, e.sources, l) => Heeds(q, e.sources, m)
    BY <1>2 DEF Heeds
<1> HIDE DEF m
<1>5. QED
    BY <1>2, <1>3, <1>4 DEF EntryAnswers, m

(* The entry a coalesced submission leaves answers for it as well.         *)
LEMMA CoalesceAnswers ==
    ASSUME NEW l \in Seq(Contents), NEW c \in Contents, NEW e \in Entry,
           EntryOK(e, Len(l)), EntryAnswers(e, l),
           Matches(e.event, c), c.mode # "none"
    PROVE  EntryAnswers(Coalesce(e, c, Len(l) + 1), Append(l, c))
<1> DEFINE n == Len(l)
           m == Append(l, c)
           new == Coalesce(e, c, n + 1)
<1>1. /\ e.sources \in Seq(Nat) /\ e.event \in Content /\ c \in Content
      /\ n \in Nat
    BY ContentsAssumption DEF Entry
<1>2. m[n + 1] = c
    OBVIOUS
<1>3. EntryAnswers(e, m)
    BY <1>1, LogGrows
<1> HIDE DEF m, n
<1>4. /\ new.sources = Append(e.sources, n + 1)
      /\ new.event = IF c.mode = "debounce_replace"
                     THEN Replaced(e.event, c) ELSE Merged(e.event, c)
    BY DEF Coalesce
<1>5. ASSUME NEW id
      PROVE  id \in Elems(new.sources) <=> id \in Elems(e.sources) \/ id = n + 1
    <2>1. n + 1 \in Nat
        BY <1>1
    <2> HIDE DEF new
    <2>2. QED
        BY <1>1, <1>4, <2>1, ElemsAppend
<1>6. Latest(new.sources, m) = c
    BY <1>1, <1>2, <1>4 DEF Latest
<1>7. new.event.polling = (e.event.polling /\ c.polling)
    BY <1>1, <1>4 DEF Replaced, Merged, Content
<1>8. Heeds(new.event.polling, new.sources, m)
    <2>1. Heeds(e.event.polling, e.sources, m)
        BY <1>3 DEF EntryAnswers
    <2> HIDE DEF new
    <2>2. QED
        BY <2>1, <1>2, <1>5, <1>7 DEF Heeds
<1>9. new.event.mode = c.mode
    BY <1>1, <1>4 DEF Replaced, Merged, Matches, Content
<1>10. ASSUME c.mode = "debounce_replace"
       PROVE  new.event = [c EXCEPT !.polling = new.event.polling]
    BY <1>1, <1>4, <1>10 DEF Replaced, Content
<1>11. ASSUME c.mode = "merge", NEW id \in Elems(new.sources)
       PROVE  Absorbs(new.event, m[id])
    <2>1. new.event = Merged(e.event, c) /\ e.event.type = c.type /\ e.event.mode = "merge"
        BY <1>4, <1>11 DEF Matches
    <2>2. CASE id = n + 1
        BY <1>1, <1>2, <2>1, <2>2, MergedAbsorbs
    <2>3. CASE id \in Elems(e.sources)
        <3>1. Absorbs(e.event, m[id])
            BY <1>3, <2>1, <2>3 DEF EntryAnswers
        <3>2. QED
            BY <1>1, <2>1, <3>1, MergedAbsorbs
    <2>4. QED
        BY <1>5, <1>11, <2>2, <2>3
<1> HIDE DEF new
<1>12. EntryAnswers(new, m)
    BY <1>6, <1>8, <1>9, <1>10, <1>11 DEF EntryAnswers
<1>13. QED
    BY <1>12 DEF new, m, n

(* The plans, too, are carried records with sources in the log.            *)
LEMMA PlanCarried ==
    ASSUME IInv, NEW i \in 1..Len(plans)
    PROVE  plans[i].sources \in Seq(Nat) /\ EntryOK(plans[i], Len(log))
<1>1. Len(plans) \in Nat /\ Len(queue) \in Nat
    BY DEF IInv, TypeOK
<1>2. i \in 1..(Len(plans) + Len(queue)) /\ i <= Len(plans)
    BY <1>1
<1>3. Carried[i] = plans[i] /\ i \in DOMAIN Carried /\ Carried[i].sources \in Seq(Nat)
    BY <1>2, CarriedType DEF IInv, CarriedShape, Records
<1>4. QED
    BY <1>3 DEF IInv, CarriedOK

(* A submission leaves the history behind every plan and every entry.      *)
LEMMA SubmitKeeps ==
    ASSUME IInv, AnswersInv, NEW c \in Contents, log' = Append(log, c), plans' = plans
    PROVE  /\ \A i \in DOMAIN queue : EntryAnswers(queue[i], log')
           /\ \A i \in DOMAIN plans' : Heeds(plans'[i].polling, plans'[i].sources, log')
<1>1. /\ log \in Seq(Contents)
      /\ DOMAIN queue = 1..Len(queue) /\ DOMAIN plans = 1..Len(plans)
    BY DEF IInv, TypeOK
<1>2. ASSUME NEW i \in DOMAIN queue
      PROVE  EntryAnswers(queue[i], log')
    <2>1. EntryAnswers(queue[i], log)
        BY DEF AnswersInv
    <2>2. queue[i].sources \in Seq(Nat) /\ EntryOK(queue[i], Len(log))
        BY <1>1, QueueCarried
    <2>3. QED
        BY <1>1, <2>1, <2>2, LogGrows
<1>3. ASSUME NEW i \in DOMAIN plans
      PROVE  Heeds(plans[i].polling, plans[i].sources, log')
    <2>1. Heeds(plans[i].polling, plans[i].sources, log)
        BY DEF AnswersInv
    <2>2. plans[i].sources \in Seq(Nat) /\ EntryOK(plans[i], Len(log))
        BY <1>1, PlanCarried
    <2>3. QED
        BY <1>1, <2>1, <2>2, LogGrows
<1>4. QED
    BY <1>2, <1>3

LEMMA AnswersStep == IInv /\ AnswersInv /\ [Next]_vars => AnswersInv'
<1> SUFFICES ASSUME IInv, AnswersInv, [Next]_vars PROVE AnswersInv'
    OBVIOUS
<1>1. ASSUME NEW c \in Contents, SubmitBlocked(c)
      PROVE  AnswersInv'
    BY <1>1, SubmitKeeps DEF SubmitBlocked, Logged, AnswersInv
<1>2. ASSUME NEW c \in Contents, SubmitAccepted(c)
      PROVE  AnswersInv'
    <2> DEFINE n == Len(queue)
               new == [event |-> c, sources |-> <<Len(log) + 1>>, count |-> 1]
    <2>1. /\ n \in Nat /\ DOMAIN queue = 1..n /\ DOMAIN queue' = 1..(n + 1)
          /\ \A i \in 1..n : queue'[i] = queue[i]
          /\ queue'[n + 1] = new
        BY <1>2 DEF SubmitAccepted, IInv, TypeOK
    <2>2. /\ \A i \in 1..n : EntryAnswers(queue[i], log')
          /\ \A i \in DOMAIN plans' :
                Heeds(plans'[i].polling, plans'[i].sources, log')
        BY <1>2, <2>1, SubmitKeeps DEF SubmitAccepted, Logged
    <2>3. log'[Len(log) + 1] = c
        BY <1>2 DEF SubmitAccepted, Logged, IInv, TypeOK
    <2>4. EntryAnswers(new, log')
        <3>1. /\ new.event = c /\ new.sources = <<Len(log) + 1>>
              /\ Elems(new.sources) = {Len(log) + 1}
              /\ Latest(new.sources, log') = c
            BY <2>3 DEF Elems, Latest
        <3>2. c \in Content
            BY ContentsAssumption
        <3>3. c = [c EXCEPT !.polling = c.polling]
            BY <3>2 DEF Content
        <3> HIDE DEF new
        <3>4. QED
            BY <2>3, <3>1, <3>3, AbsorbsItself DEF EntryAnswers, Heeds
    <2> HIDE DEF new
    <2>5. \A i : i \in 1..(n + 1) => i \in 1..n \/ i = n + 1
        BY <2>1
    <2>6. QED
        BY <2>1, <2>2, <2>4, <2>5 DEF AnswersInv
<1>3. ASSUME NEW c \in Contents, SubmitCoalesced(c)
      PROVE  AnswersInv'
    <2> DEFINE t == Target(c)
               new == Coalesce(queue[t], c, Len(log) + 1)
    <2>1. /\ t \in 1..Len(queue) /\ queue[t] \in Entry
          /\ DOMAIN queue = 1..Len(queue) /\ DOMAIN queue' = 1..Len(queue)
          /\ queue'[t] = new
          /\ \A i \in 1..Len(queue) : i # t => queue'[i] = queue[i]
        BY <1>3, CoalescedEntry DEF IInv, TypeOK
    <2>2. /\ \A i \in 1..Len(queue) : EntryAnswers(queue[i], log')
          /\ \A i \in DOMAIN plans' :
                Heeds(plans'[i].polling, plans'[i].sources, log')
        BY <1>3, <2>1, SubmitKeeps DEF SubmitCoalesced, Logged
    <2>3. Matches(queue[t].event, c) /\ c.mode # "none"
        BY <1>3, TheCoalescible DEF Target, SubmitCoalesced, IInv
    <2>4. /\ log \in Seq(Contents) /\ log' = Append(log, c)
          /\ EntryOK(queue[t], Len(log)) /\ EntryAnswers(queue[t], log)
        BY <1>3, <2>1, QueueCarried DEF SubmitCoalesced, Logged, AnswersInv, IInv, TypeOK
    <2> HIDE DEF t
    <2>5. EntryAnswers(new, log')
        BY <2>1, <2>3, <2>4, CoalesceAnswers
    <2> HIDE DEF new
    <2>6. QED
        BY <2>1, <2>2, <2>5 DEF AnswersInv
<1>4. CASE DispatchNext
    <2>1. /\ Len(queue) \in Nat \ {0} /\ Len(plans) \in Nat /\ log' = log
          /\ DOMAIN queue = 1..Len(queue) /\ DOMAIN queue' = 1..(Len(queue) - 1)
          /\ \A i \in 1..(Len(queue) - 1) : queue'[i] = queue[i + 1]
          /\ DOMAIN plans = 1..Len(plans) /\ DOMAIN plans' = 1..(Len(plans) + 1)
          /\ \A i \in 1..Len(plans) : plans'[i] = plans[i]
          /\ plans'[Len(plans) + 1] = PlanOf(queue[1])
        BY <1>4, EmptySeq DEF DispatchNext, IInv, TypeOK
    <2>2. \A i \in 1..(Len(queue) - 1) : i + 1 \in 1..Len(queue)
        BY <2>1
    <2>3. \A i \in DOMAIN queue' : EntryAnswers(queue'[i], log')
        BY <2>1, <2>2 DEF AnswersInv
    <2>4. Heeds(PlanOf(queue[1]).polling, PlanOf(queue[1]).sources, log')
        <3>1. EntryAnswers(queue[1], log)
            BY <2>1 DEF AnswersInv
        <3>2. QED
            BY <2>1, <3>1 DEF EntryAnswers, PlanOf
    <2>5. \A i : i \in 1..(Len(plans) + 1) => i \in 1..Len(plans) \/ i = Len(plans) + 1
        BY <2>1
    <2>6. \A i \in DOMAIN plans' : Heeds(plans'[i].polling, plans'[i].sources, log')
        BY <2>1, <2>4, <2>5 DEF AnswersInv
    <2>7. QED
        BY <2>3, <2>6 DEF AnswersInv
<1>5. CASE UNCHANGED vars
    BY <1>5 DEF vars, AnswersInv
<1>6. QED
    BY <1>1, <1>2, <1>3, <1>4, <1>5 DEF Next

(* What an entry has absorbed, its plan covers.                            *)
LEMMA AbsorbedCovered ==
    ASSUME NEW e, NEW source, Absorbs(e.event, source)
    PROVE  /\ ScopesOf(source) \subseteq PlanOf(e).scopes
           /\ AnalysisOf(source) \subseteq PlanOf(e).analysis
           /\ source.capture \subseteq PlanOf(e).capture
<1>1. ScopesOf(source) \subseteq ScopesOf(e.event)
    BY DEF Absorbs, Covered, ScopesOf
<1>2. AnalysisOf(source) \subseteq AnalysisOf(e.event)
    BY <1>1 DEF Absorbs, AnalysisOf
<1>3. e.event.capture \subseteq CaptureOf(e.event)
    BY DEF CaptureOf
<1>4. QED
    BY <1>1, <1>2, <1>3 DEF Absorbs, PlanOf

(* Whatever is coalesced, in whatever order submissions and dispatches     *)
(* come: a merged entry covers every event behind it, a replaced one asks  *)
(* for what the latest asked, and a plan allows polling fallback exactly   *)
(* when every event behind it did.                                         *)
THEOREM AnswersCorrect == Spec => []EntriesAnswerSources
<1>1. Init => AnswersInv
    BY DEF Init, AnswersInv
<1>2. IInv /\ AnswersInv => EntriesAnswerSources
    <2> SUFFICES ASSUME IInv, AnswersInv PROVE EntriesAnswerSources
        OBVIOUS
    <2>1. MergeCoversSources
        <3> SUFFICES ASSUME NEW i \in DOMAIN queue, queue[i].event.mode = "merge",
                            NEW id \in Elems(queue[i].sources)
                     PROVE  LET plan == PlanOf(queue[i])
                                source == log[id]
                            IN  /\ ScopesOf(source) \subseteq plan.scopes
                                /\ AnalysisOf(source) \subseteq plan.analysis
                                /\ source.capture \subseteq plan.capture
                                /\ \A s \in ScopesOf(source) :
                                      LET asked == source.signals[s][Len(source.signals[s])]
                                          kept == queue[i].event.signals[s]
                                      IN  /\ asked.ids \subseteq kept[Len(kept)].ids
                                          /\ asked.full => kept[Len(kept)].full
            BY DEF MergeCoversSources
        <3>1. Absorbs(queue[i].event, log[id])
            BY DEF AnswersInv, EntryAnswers
        <3>2. \A s \in ScopesOf(log[id]) :
                 /\ log[id].signals[s] # <<>>
                 /\ Covered(log[id].signals[s], queue[i].event.signals[s])
            BY <3>1 DEF Absorbs, ScopesOf
        <3>3. QED
            BY <3>1, <3>2, AbsorbedCovered DEF Covered
    <2>2. LatestReplaces
        BY DEF AnswersInv, EntryAnswers, LatestReplaces, Latest
    <2>3. PollingNeedsEverySource
        BY DEF AnswersInv, Heeds, PollingNeedsEverySource
    <2>4. QED
        BY <2>1, <2>2, <2>3 DEF EntriesAnswerSources
<1>3. QED
    BY <1>1, <1>2, Invariance, AnswersStep, PTL DEF Spec

=============================================================================
