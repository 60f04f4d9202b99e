---------------------------- MODULE Resume_proofs ----------------------------
(***************************************************************************)
(* Proofs about what decides where a run goes on and what it selects:      *)
(* ContiguousProgress, for every Start and Limit - its inductive           *)
(* invariant, the safety properties it implies, and that the tracker       *)
(* implements PrefixTracker -, ResumePlan, for every size of the integers  *)
(* and every value of the options, the tree size and the saved state,      *)
(* StartupBaseline, for every set of logs and every tree size, and         *)
(* DomainFilter, for every alphabet, every -domain option and every name.  *)
(***************************************************************************)
EXTENDS ContiguousProgress, ResumePlan, StartupBaseline, Algorithms,
        SequenceTheorems, WellFoundedInduction, TLAPS

-----------------------------------------------------------------------------
(* The tracker.                                                            *)

\* Recording a segment keeps the old ones at least as long, makes the new one
\* reach its end, and starts no segment anywhere else.
LEMMA InsertKeeps ==
    ASSUME NEW p, p \in [DOMAIN p -> Nat], DOMAIN p \subseteq Nat,
           NEW s \in Nat, NEW e \in Nat
    PROVE  LET q == Insert(p, s, e)
           IN  /\ DOMAIN q = DOMAIN p \cup {s}
               /\ q \in [DOMAIN q -> Nat]
               /\ \A k \in DOMAIN p : q[k] >= p[k]
               /\ \A k \in DOMAIN p : k # s => q[k] = p[k]
               /\ q[s] >= e
               /\ q[s] = e \/ (s \in DOMAIN p /\ q[s] = p[s])
BY DEF Insert

\* Indices asked for are natural numbers.
LEMMA RequestedNat == TypeOK => Requested \subseteq Nat
<1> SUFFICES ASSUME TypeOK PROVE Requested \subseteq Nat
  OBVIOUS
<1>1. call[1] \in Nat /\ call[2] \in Nat /\ marked \subseteq Nat
  BY TrackerBounds DEF TypeOK, Indices
<1>2. \A a, b \in Nat : Interval(a, b) \subseteq Nat
  BY DEF Interval
<1>3. Interval(call[1], call[2]) \subseteq Nat
  BY <1>1, <1>2
<1> QED BY <1>1, <1>3 DEF Requested

\* The initial state satisfies the inductive invariant.
LEMMA InitInd == Init => IndInv
<1> SUFFICES ASSUME Init PROVE IndInv
  OBVIOUS
<1>1. /\ next = Start /\ Start \in Nat /\ DOMAIN pending = {}
      /\ pending = [k \in {} |-> 0] /\ call = <<0, 0>> /\ marked = {}
  BY TrackerBounds DEF Init, NoCall
<1>2. Requested = {}
  BY <1>1 DEF Requested, Interval
<1>3. TypeOK
  <2>1. pending \in [DOMAIN pending -> Nat]
    BY <1>1
  <2>2. call \in Indices \X Indices
    BY <1>1, TrackerBounds DEF Indices
  <2> QED BY <2>1, <2>2, <1>1 DEF TypeOK, Init
<1>4. NoGapCrossed
  BY <1>1 DEF NoGapCrossed, Interval
<1>5. NothingForgotten /\ PendingWasMarked
  BY <1>1, <1>2 DEF NothingForgotten, PendingWasMarked
<1>6. VisitedBeyondGap
  BY <1>1 DEF VisitedBeyondGap, Init
<1> QED BY <1>3, <1>4, <1>5, <1>6 DEF IndInv

\* An interval that adds nothing beyond next leaves the invariant alone.
LEMMA MarkNothingInd ==
    ASSUME IndInv, NEW s \in Indices, NEW e \in Indices, MarkNothing(s, e)
    PROVE  IndInv'
<1> s \in Nat /\ e \in Nat
  BY TrackerBounds DEF Indices
<1> USE DEF IndInv, MarkNothing
<1>1. TypeOK'
  BY DEF TypeOK, Interval
<1>2. NoGapCrossed'
  BY DEF NoGapCrossed, Requested, Interval, TypeOK
<1>3. NothingForgotten'
  BY DEF NothingForgotten, Requested, Interval, TypeOK
<1>4. PendingWasMarked'
  BY DEF PendingWasMarked, Requested, Interval, TypeOK
<1>5. VisitedBeyondGap'
  BY DEF VisitedBeyondGap, TypeOK
<1> QED BY <1>1, <1>2, <1>3, <1>4, <1>5

\* Recording the interval of a new call establishes the invariant of its loop.
LEMMA EnterInd ==
    ASSUME IndInv, NEW s \in Indices, NEW e \in Indices, Enter(s, e)
    PROVE  IndInv'
<1> DEFINE c == IF s < next THEN next ELSE s
<1>1. s \in Nat /\ e \in Nat /\ c \in Nat /\ s <= c /\ c < e /\ next <= c
  BY TrackerBounds DEF Indices, IndInv, TypeOK, Enter
<1>2. /\ pending' = Insert(pending, c, e)
      /\ DOMAIN pending' = DOMAIN pending \cup {c}
      /\ pending' \in [DOMAIN pending' -> Nat]
      /\ \A k \in DOMAIN pending : pending'[k] >= pending[k]
      /\ \A k \in DOMAIN pending : k # c => pending'[k] = pending[k]
      /\ pending'[c] >= e
      /\ pending'[c] = e \/ (c \in DOMAIN pending /\ pending'[c] = pending[c])
  <2>1. pending' = Insert(pending, c, e)
    BY DEF Enter
  <2>2. pending \in [DOMAIN pending -> Nat] /\ DOMAIN pending \subseteq Nat
    BY DEF IndInv, TypeOK
  <2> HIDE DEF c
  <2>3. LET q == Insert(pending, c, e)
        IN  /\ DOMAIN q = DOMAIN pending \cup {c}
            /\ q \in [DOMAIN q -> Nat]
            /\ \A k \in DOMAIN pending : q[k] >= pending[k]
            /\ \A k \in DOMAIN pending : k # c => q[k] = pending[k]
            /\ q[c] >= e
            /\ q[c] = e \/ (c \in DOMAIN pending /\ q[c] = pending[c])
    BY <2>2, <1>1, InsertKeeps
  <2> QED BY <2>1, <2>3
<1>3. /\ pc = "idle" /\ call = NoCall /\ Requested = marked
      /\ next' = next /\ marked' = marked /\ answer' = answer
      /\ pc' = "pass" /\ scan' = DOMAIN pending' /\ advanced' = FALSE
      /\ call' = <<s, e>>
  BY DEF IndInv, VisitedBeyondGap, Enter, Requested, Interval, NoCall
<1>4. Requested' = marked \cup (s .. (e - 1))
  BY <1>3 DEF Requested, Interval
<1> HIDE DEF c
<1>5. TypeOK'
  <2>1. call' \in Indices \X Indices
    BY <1>3
  <2>2. DOMAIN pending' \subseteq Nat
    BY <1>1, <1>2 DEF IndInv, TypeOK
  <2> QED BY <2>1, <2>2, <1>2, <1>3 DEF IndInv, TypeOK
<1>6. NoGapCrossed'
  BY <1>3, <1>4 DEF IndInv, NoGapCrossed, Interval
<1>7. NothingForgotten'
  <2> SUFFICES ASSUME NEW i \in Requested', i >= next
               PROVE  \E k \in DOMAIN pending' : k <= i /\ i < pending'[k]
    BY <1>3 DEF NothingForgotten
  <2>1. i \in Nat
    BY <1>1, <1>4 DEF IndInv, TypeOK
  <2>2. CASE i \in marked
    <3>1. PICK k \in DOMAIN pending : k <= i /\ i < pending[k]
      BY <2>2, <1>3 DEF IndInv, NothingForgotten
    <3>2. k \in Nat /\ pending[k] \in Nat /\ pending'[k] \in Nat
      BY <3>1, <1>2 DEF IndInv, TypeOK
    <3> QED BY <3>1, <3>2, <2>1, <1>2
  <2>3. CASE i \in s .. (e - 1)
    <3>1. c <= i
      BY <2>3, <1>1, <1>3 DEFS c, IndInv, TypeOK
    <3>2. i < pending'[c]
      BY <2>3, <1>1, <1>2
    <3> QED BY <3>1, <3>2, <1>2
  <2> QED BY <2>2, <2>3, <1>4
<1>8. PendingWasMarked'
  <2> SUFFICES ASSUME NEW k \in DOMAIN pending', NEW i \in k .. (pending'[k] - 1)
               PROVE  i \in Requested'
    BY DEF PendingWasMarked, Interval
  <2>1. CASE k \in DOMAIN pending /\ pending'[k] = pending[k]
    BY <2>1, <1>3, <1>4 DEF IndInv, PendingWasMarked, Interval
  <2>2. CASE k = c /\ pending'[k] = e
    BY <2>2, <1>1, <1>4
  <2> QED BY <2>1, <2>2, <1>2
<1>9. VisitedBeyondGap'
  <2>1. \A k \in DOMAIN pending' : k < pending'[k]
    BY <1>1, <1>2 DEF IndInv, VisitedBeyondGap, TypeOK
  <2> QED BY <2>1, <1>3 DEF IndInv, VisitedBeyondGap
<1> QED BY <1>5, <1>6, <1>7, <1>8, <1>9 DEF IndInv

\* Taking a segment out leaves every other segment as it was.
LEMMA DropKeeps ==
    ASSUME TypeOK, NEW k \in DOMAIN pending, Drop(k)
    PROVE  /\ DOMAIN pending' = DOMAIN pending \ {k}
           /\ pending' \in [DOMAIN pending' -> Nat]
           /\ \A j \in DOMAIN pending' : pending'[j] = pending[j]
BY DEF Drop, TypeOK

\* One segment yielded by the range statement.
LEMMA VisitInd ==
    ASSUME IndInv, NEW k \in DOMAIN pending, Visit(k)
    PROVE  IndInv'
<1>1. /\ k \in Nat /\ pending[k] \in Nat /\ next \in Nat /\ answer \in Nat
      /\ k \in scan /\ scan' = scan \ {k} /\ pc = "pass"
      /\ Requested' = Requested /\ k < pending[k] /\ Requested \subseteq Nat
  BY RequestedNat DEF IndInv, TypeOK, Visit, Requested, VisitedBeyondGap
<1>2. CASE Stale(k)
  <2>1. /\ DOMAIN pending' = DOMAIN pending \ {k}
        /\ pending' \in [DOMAIN pending' -> Nat]
        /\ \A j \in DOMAIN pending' : pending'[j] = pending[j]
    BY <1>2, DropKeeps DEF IndInv, Stale
  <2>2. TypeOK'
    BY <1>1, <1>2, <2>1 DEF IndInv, TypeOK, Visit, Stale
  <2>3. NoGapCrossed'
    BY <1>1, <1>2 DEF IndInv, NoGapCrossed, Stale, Interval
  <2>4. NothingForgotten'
    <3> SUFFICES ASSUME NEW i \in Requested, i >= next
                 PROVE  \E j \in DOMAIN pending' : j <= i /\ i < pending'[j]
      BY <1>1, <1>2 DEF NothingForgotten, Stale
    <3>1. PICK j \in DOMAIN pending : j <= i /\ i < pending[j]
      BY DEF IndInv, NothingForgotten
    <3>2. j # k
      BY <1>1, <1>2, <3>1 DEF Stale
    <3> QED BY <2>1, <3>1, <3>2
  <2>5. PendingWasMarked'
    BY <1>1, <2>1 DEF IndInv, PendingWasMarked, Interval
  <2>6. VisitedBeyondGap'
    BY <1>1, <1>2, <2>1 DEF IndInv, VisitedBeyondGap, Stale, Visit
  <2> QED BY <2>2, <2>3, <2>4, <2>5, <2>6 DEF IndInv
<1>3. CASE Absorb(k)
  <2>1. /\ DOMAIN pending' = DOMAIN pending \ {k}
        /\ pending' \in [DOMAIN pending' -> Nat]
        /\ \A j \in DOMAIN pending' : pending'[j] = pending[j]
    BY <1>3, DropKeeps DEF IndInv, Absorb
  <2>2. next' = pending[k] /\ next < next' /\ k <= next /\ advanced' = TRUE
    BY <1>3 DEF Absorb
  <2>3. TypeOK'
    BY <1>1, <2>1, <2>2 DEF IndInv, TypeOK, Visit
  <2>4. NoGapCrossed'
    <3>1. Interval(next, next') \subseteq Requested
      BY <1>1, <2>2 DEF IndInv, PendingWasMarked, Interval
    <3>2. Interval(Start, next) \subseteq Requested /\ Start \in Nat
      BY TrackerBounds DEF IndInv, NoGapCrossed
    <3>3. Interval(Start, next') \subseteq Interval(Start, next) \cup Interval(next, next')
      BY <1>1, <2>2, <3>2 DEF Interval
    <3> QED BY <1>1, <2>2, <3>1, <3>2, <3>3 DEF IndInv, NoGapCrossed
  <2>5. NothingForgotten'
    <3> SUFFICES ASSUME NEW i \in Requested, i >= next'
                 PROVE  \E j \in DOMAIN pending' : j <= i /\ i < pending'[j]
      BY <1>1 DEF NothingForgotten
    <3>1. PICK j \in DOMAIN pending : j <= i /\ i < pending[j]
      BY <1>1, <2>2 DEF IndInv, NothingForgotten
    <3>2. j # k
      BY <1>1, <2>2, <3>1
    <3> QED BY <2>1, <3>1, <3>2
  <2>6. PendingWasMarked'
    BY <1>1, <2>1 DEF IndInv, PendingWasMarked, Interval
  <2>7. VisitedBeyondGap'
    BY <1>1, <2>1, <2>2 DEF IndInv, VisitedBeyondGap, Visit
  <2> QED BY <2>3, <2>4, <2>5, <2>6, <2>7 DEF IndInv
<1>4. CASE Keep(k)
  <2>1. UNCHANGED <<next, pending, advanced, pc, call, marked, answer>> /\ next < k
    BY <1>1, <1>4 DEF Keep, Visit
  <2>2. TypeOK'
    BY <1>1, <2>1 DEF IndInv, TypeOK
  <2>3. NoGapCrossed' /\ NothingForgotten' /\ PendingWasMarked'
    BY <1>1, <2>1 DEF IndInv, NoGapCrossed, NothingForgotten, PendingWasMarked
  <2>4. VisitedBeyondGap'
    BY <1>1, <2>1 DEF IndInv, VisitedBeyondGap
  <2> QED BY <2>2, <2>3, <2>4 DEF IndInv
<1> QED BY <1>2, <1>3, <1>4 DEF Visit

\* Another pass over what is left.
LEMMA NextPassInd == ASSUME IndInv, NextPass PROVE IndInv'
<1>1. /\ UNCHANGED <<next, pending, pc, call, marked, answer>>
      /\ pc = "pass" /\ scan' = DOMAIN pending /\ advanced' = FALSE
  BY DEF NextPass
<1>2. Requested' = Requested
  BY <1>1 DEF Requested
<1>3. TypeOK'
  BY <1>1 DEF IndInv, TypeOK
<1>4. NoGapCrossed' /\ NothingForgotten' /\ PendingWasMarked'
  BY <1>1, <1>2 DEF IndInv, NoGapCrossed, NothingForgotten, PendingWasMarked
<1>5. VisitedBeyondGap'
  BY <1>1 DEF IndInv, VisitedBeyondGap
<1> QED BY <1>3, <1>4, <1>5 DEF IndInv

\* The call returns: what was requested is now what was marked.
LEMMA ReturnInd == ASSUME IndInv, Return PROVE IndInv'
<1>1. /\ UNCHANGED <<next, pending, scan, advanced>>
      /\ pc' = "idle" /\ scan = {} /\ ~advanced
      /\ call' = <<0, 0>> /\ marked' = Requested /\ answer' = next
  BY DEF Return, NoCall
<1>2. Requested' = Requested
  BY <1>1 DEF Requested, Interval
<1>3. TypeOK'
  <2>1. call' \in Indices \X Indices
    BY <1>1, TrackerBounds DEF Indices
  <2>2. Requested \subseteq Nat
    BY RequestedNat DEF IndInv
  <2> QED BY <1>1, <2>1, <2>2 DEF IndInv, TypeOK
<1>4. NoGapCrossed' /\ NothingForgotten' /\ PendingWasMarked'
  BY <1>1, <1>2 DEF IndInv, NoGapCrossed, NothingForgotten, PendingWasMarked
<1>5. VisitedBeyondGap'
  BY <1>1 DEF IndInv, VisitedBeyondGap, TypeOK, NoCall
<1> QED BY <1>3, <1>4, <1>5 DEF IndInv

\* A step that changes nothing.
LEMMA StutterInd == ASSUME IndInv, UNCHANGED vars PROVE IndInv'
BY DEF IndInv, vars, TypeOK, NoGapCrossed, NothingForgotten, PendingWasMarked,
       VisitedBeyondGap, Requested, Interval

\* The invariant of the tracker holds in every reachable state: types, no gap
\* crossed, nothing forgotten, and the bookkeeping of the absorbing loop.
THEOREM TrackerInvariant == Spec => []IndInv
<1>1. IndInv /\ [Next]_vars => IndInv'
  BY MarkNothingInd, EnterInd, VisitInd, NextPassInd, ReturnInd, StutterInd DEF Next
<1> QED BY InitInd, <1>1, PTL DEF Spec

\* Every variable keeps its type.
THEOREM TrackerTypes == Spec => []TypeOK
<1>1. IndInv => TypeOK
  BY DEF IndInv
<1> QED BY <1>1, TrackerInvariant, PTL

\* Resume state never advances across a gap: in every state, inside a call or
\* between calls, every index from Start up to next was asked to be marked.
THEOREM TrackerNeverCrossesGap == Spec => []NoGapCrossed
<1>1. IndInv => NoGapCrossed
  BY DEF IndInv
<1> QED BY <1>1, TrackerInvariant, PTL

\* A marked index is behind the prefix or still recorded in a pending segment.
THEOREM TrackerForgetsNothing == Spec => []NothingForgotten
<1>1. IndInv => NothingForgotten
  BY DEF IndInv
<1> QED BY <1>1, TrackerInvariant, PTL

\* Between calls no recorded segment reaches back to the prefix.
LEMMA IdleSegments == IndInv => NoDebrisBetweenCalls
BY DEF IndInv, TypeOK, VisitedBeyondGap, NoDebrisBetweenCalls

\* Between calls the map holds only segments beyond a gap.
THEOREM TrackerLeavesNoDebris == Spec => []NoDebrisBetweenCalls
BY IdleSegments, TrackerInvariant, PTL

\* Between calls the prefix ends at an index nobody marked.
LEMMA IdlePrefixExact == IndInv => FirstUnprocessed
<1> SUFFICES ASSUME IndInv, pc = "idle", next \in marked PROVE FALSE
  BY DEF FirstUnprocessed
<1>1. next \in Requested /\ next \in Nat
  BY DEF IndInv, TypeOK, Requested
<1>2. PICK k \in DOMAIN pending : k <= next /\ next < pending[k]
  BY <1>1 DEF IndInv, NothingForgotten
<1>3. k \in Nat /\ next < k
  BY IdleSegments DEF NoDebrisBetweenCalls, IndInv, TypeOK
<1> QED BY <1>1, <1>2, <1>3

\* The prefix the tracker reports is exact: not only sound, but as long as the
\* marked indices allow, whatever order the map yields its segments in.
THEOREM TrackerPrefixExact == Spec => []FirstUnprocessed
BY IdlePrefixExact, TrackerInvariant, PTL

\* The prefix and the returned value never move back.
THEOREM TrackerPrefixGrows == Spec => PrefixGrows
<1>1. IndInv /\ [Next]_vars => [next' >= next /\ answer' >= answer]_vars
  <2> SUFFICES ASSUME IndInv, Next
               PROVE  next' >= next /\ answer' >= answer
    OBVIOUS
  <2>1. next \in Nat /\ answer \in Nat /\ answer <= next
    BY DEF IndInv, TypeOK, VisitedBeyondGap
  <2>2. ASSUME NEW s \in Indices, NEW e \in Indices, MarkNothing(s, e)
        PROVE  next' >= next /\ answer' >= answer
    BY <2>1, <2>2 DEF MarkNothing
  <2>3. ASSUME NEW s \in Indices, NEW e \in Indices, Enter(s, e)
        PROVE  next' >= next /\ answer' >= answer
    BY <2>1, <2>3 DEF Enter
  <2>4. ASSUME NEW k \in DOMAIN pending, Visit(k)
        PROVE  next' >= next /\ answer' >= answer
    BY <2>1, <2>4 DEF Visit, Stale, Absorb, Keep, IndInv, TypeOK
  <2>5. CASE NextPass \/ Return
    BY <2>1, <2>5 DEF NextPass, Return
  <2> QED BY <2>2, <2>3, <2>4, <2>5 DEF Next
<1> QED BY <1>1, TrackerInvariant, PTL DEF Spec, PrefixGrows

\* Every step of the tracker is, from outside, one call of Mark or nothing.
LEMMA StepRefines ==
    ASSUME IndInv, IndInv', [Next]_vars
    PROVE  [Abstract!Next]_(Abstract!vars)
<1> USE DEF Abstract!vars
<1>1. ASSUME NEW s \in Indices, NEW e \in Indices, MarkNothing(s, e)
      PROVE  Abstract!Next
  <2>1. /\ marked' = marked \cup Interval(s, e) /\ answer' = next
        /\ next' = next /\ pc = "idle" /\ (e <= s \/ e <= next)
        /\ s \in Nat /\ e \in Nat /\ next \in Nat
    BY <1>1, TrackerBounds DEF MarkNothing, IndInv, TypeOK, Indices
  <2>2. next >= Start /\ Interval(Start, next) \subseteq marked
    BY <2>1 DEF IndInv, NoGapCrossed, VisitedBeyondGap, Requested, Interval, NoCall
  <2>3. next \notin marked
    BY <2>1, IdlePrefixExact DEF FirstUnprocessed
  <2>4. Abstract!FirstGap(answer', marked')
    BY <2>1, <2>2, <2>3 DEF Abstract!FirstGap, Abstract!Interval, Interval
  <2>5. Abstract!Mark(s, e)
    BY <2>1, <2>4 DEF Abstract!Mark, Abstract!Interval, Interval
  <2> QED BY <2>5 DEF Abstract!Next, Indices
<1>2. ASSUME Return PROVE Abstract!Next
  <2>1. /\ marked' = marked \cup Interval(call[1], call[2]) /\ answer' = next
        /\ next' = next /\ pc' = "idle" /\ next \in Nat
    BY <1>2 DEF Return, Requested, IndInv, TypeOK
  <2>2. next >= Start /\ Interval(Start, next) \subseteq marked'
    BY <1>2 DEF Return, IndInv, NoGapCrossed
  <2>3. next \notin marked'
    <3>1. IndInv' => FirstUnprocessed'
      BY IdlePrefixExact, PTL
    <3> QED BY <2>1, <3>1 DEF FirstUnprocessed
  <2>4. Abstract!FirstGap(answer', marked')
    BY <2>1, <2>2, <2>3 DEF Abstract!FirstGap, Abstract!Interval, Interval
  <2>5. Abstract!Mark(call[1], call[2])
    BY <2>1, <2>4 DEF Abstract!Mark, Abstract!Interval, Interval
  <2>6. call[1] \in 0..Limit /\ call[2] \in 0..Limit
    BY DEF IndInv, TypeOK, Indices
  <2> QED BY <2>5, <2>6 DEF Abstract!Next
<1>3. ASSUME NEW s \in Indices, NEW e \in Indices, Enter(s, e)
      PROVE  UNCHANGED <<marked, answer>>
  BY <1>3 DEF Enter
<1>4. ASSUME NEW k \in DOMAIN pending, Visit(k)
      PROVE  UNCHANGED <<marked, answer>>
  BY <1>4 DEF Visit
<1>5. ASSUME NextPass \/ UNCHANGED vars PROVE UNCHANGED <<marked, answer>>
  BY <1>5 DEF NextPass, vars
<1> QED BY <1>1, <1>2, <1>3, <1>4, <1>5 DEF Next

\* ContiguousProgress implements PrefixTracker: batches marked in any order, any
\* overlap and any map order, every call returns the first unmarked index.
THEOREM TrackerImplementsPrefix == Spec => ImplementsPrefixTracker
<1>1. Init => Abstract!Init
  BY DEF Init, Abstract!Init
<1> QED BY <1>1, StepRefines, TrackerInvariant, PTL
        DEF Spec, ImplementsPrefixTracker, Abstract!Spec

-----------------------------------------------------------------------------
(* The plan.                                                               *)

\* The inputs are integers, the tree sizes naturals.
LEMMA PlanNumbers ==
    /\ MaxInt \in Nat /\ TailDefault \in Nat
    /\ \A c \in Counts \cup Starts \cup Bounds : c \in Int
    /\ \A s \in Sizes : s \in Nat /\ s <= MaxInt
<1>1. MaxInt \in Nat /\ TailDefault \in Nat
  BY PlanConstants
<1>2. ASSUME NEW c \in Counts \cup Starts \cup Bounds PROVE c \in Int
  <2>1. c \in -MaxInt .. MaxInt
    BY <1>2, PlanConstants, Zenon
  <2> QED
    BY <1>1, <2>1
<1>3. ASSUME NEW s \in Sizes PROVE s \in Nat /\ s <= MaxInt
  <2>1. s \in 0 .. MaxInt
    BY <1>3, PlanConstants, Zenon
  <2> QED
    BY <1>1, <2>1
<1> QED
  BY <1>1, <1>2, <1>3

\* The types of the inputs, field by field.
LEMMA PlanInputs ==
    ASSUME opts \in Options, size \in Sizes, saved \in SavedStates \cup {None}
    PROVE  /\ opts.start \in Int /\ opts.count \in Int /\ opts.fromEnd \in BOOLEAN
           /\ size \in Nat /\ size <= MaxInt
           /\ saved # None => saved.rangeStart \in Nat /\ saved.next \in Int
<1>1. opts.start \in Starts /\ opts.count \in Counts /\ opts.fromEnd \in BOOLEAN
  BY DEF Options
<1>2. saved # None => /\ saved.rangeStart \in Bounds /\ saved.next \in Bounds
                      /\ 0 <= saved.rangeStart
  BY DEF SavedStates
<1> QED
  BY <1>1, <1>2, PlanNumbers

\* The inputs stay what they were, and a decision consists of naturals.
THEOREM PlanTypes == PlanSpec => []PlanTypeOK
<1>1. PlanInit => PlanTypeOK
  BY DEF PlanInit, PlanTypeOK, Decided
<1>2. PlanTypeOK /\ [PlanNext]_planVars => PlanTypeOK'
  <2> SUFFICES ASSUME PlanTypeOK, [PlanNext]_planVars PROVE PlanTypeOK'
    OBVIOUS
  <2> USE DEF PlanTypeOK
  <2>1. CASE NothingToDo
    BY <2>1 DEF NothingToDo, Decided
  <2>2. CASE Regressed
    BY <2>2 DEF Regressed, Decided
  <2>3. CASE Decide
    <3>1. UNCHANGED <<opts, size, saved>>
      BY <2>3 DEF Decide
    <3>2. /\ opts.start \in Int /\ opts.count \in Int /\ size \in Nat
          /\ TailDefault \in Nat /\ MaxInt \in Nat
      BY PlanInputs, PlanNumbers
    <3>3. Request.from \in Nat /\ Request.to \in Int /\ Request.from < Request.to
      BY <2>3, <3>2
      DEF Decide, Request, CalculateRange, TailFrom, HeadFrom, HeadTo, Add, Larger, Smaller
    <3>4. saved # None => saved.rangeStart \in Nat /\ saved.next \in Int
      BY PlanInputs
    <3>5. SafeResumeIndex(saved, Request.from, Request.to).next \in Nat
      BY <3>3, <3>4 DEF SafeResumeIndex, Covers, Smaller
    <3>6. SafeResumeIndex(saved, Request.from, Request.to).ok => saved # None
      BY DEF SafeResumeIndex
    <3>7. {plan'.proof, plan'.start, plan'.to} \subseteq Nat
          /\ plan'.at \in {"covered", "fetch"}
      BY <2>3, <3>3, <3>4, <3>5, <3>6 DEF Decide
    <3> QED
      BY <3>1, <3>7 DEF Decided
  <2>4. CASE UNCHANGED planVars
    BY <2>4 DEF planVars, Decided
  <2> QED
    BY <2>1, <2>2, <2>3, <2>4 DEF PlanNext
<1> QED
  BY <1>1, <1>2, PTL DEF PlanSpec

\* calculateRange yields exactly the entries the options ask for, and no entry at all
\* where start + count exceeds the largest integer.
THEOREM PlanRangeIsWanted == PlanSpec => []RangeIsWanted
<1>1. PlanTypeOK => RangeIsWanted
  <2> SUFFICES ASSUME PlanTypeOK PROVE RangeIsWanted
    OBVIOUS
  <2>1. /\ opts.start \in Int /\ opts.count \in Int /\ opts.fromEnd \in BOOLEAN
        /\ size \in Nat /\ TailDefault \in Nat /\ MaxInt \in Nat
    BY PlanInputs, PlanNumbers DEF PlanTypeOK
  <2>2. opts.start <= MaxInt /\ opts.count <= MaxInt
    <3>1. opts.start \in Starts /\ opts.count \in Counts
      BY DEF PlanTypeOK, Options
    <3>2. Starts \subseteq -MaxInt .. MaxInt /\ Counts \subseteq -MaxInt .. MaxInt
      BY PlanConstants
    <3>3. opts.start \in -MaxInt .. MaxInt /\ opts.count \in -MaxInt .. MaxInt
      BY <3>1, <3>2
    <3> QED
      BY <2>1, <3>3
  <2>3. CASE opts.fromEnd
    <3>1. ~Overflows
      BY <2>3 DEF Overflows
    <3>2. Span(Request.from, Request.to) = Wanted
      BY <2>1, <2>3 DEF Request, CalculateRange, TailFrom, Larger, Span, Wanted
    <3> QED
      BY <3>1, <3>2 DEF RangeIsWanted
  <2>4. CASE ~opts.fromEnd /\ ~Overflows
    <3>1. HeadFrom(opts) + opts.count <= MaxInt
      BY <2>1, <2>4 DEF Overflows, HeadFrom
    <3>2. Span(Request.from, Request.to) = Wanted
      BY <2>1, <2>4, <3>1
      DEF Request, CalculateRange, HeadFrom, HeadTo, Add, Smaller, Span, Wanted
    <3> QED
      BY <2>4, <3>2 DEF RangeIsWanted
  <2>5. CASE ~opts.fromEnd /\ Overflows
    <3> DEFINE from == HeadFrom(opts)
    <3>1. from \in Nat /\ from <= MaxInt /\ from + opts.count > MaxInt
      BY <2>1, <2>2, <2>5 DEF Overflows, HeadFrom
    <3>2. opts.count > 0
      BY <2>1, <3>1
    <3>3. Request.from = from /\ Request.to = Smaller(Add(from, opts.count), size)
      BY <2>5, <3>2 DEF Request, CalculateRange, HeadTo
    <3> HIDE DEF from
    <3>4. Add(from, opts.count) \in Int /\ Add(from, opts.count) < 0
      BY <2>1, <2>2, <3>1 DEF Add
    <3>5. Request.to \in Int /\ Request.to < 0
      BY <2>1, <3>3, <3>4 DEF Smaller
    <3>6. Span(Request.from, Request.to) = {}
      BY <3>1, <3>3, <3>5 DEF Span
    <3> QED
      BY <2>5, <3>6 DEF RangeIsWanted
  <2> QED
    BY <2>3, <2>4, <2>5
<1> QED
  BY <1>1, PlanTypes, PTL

\* What a run skips or claims without having fetched it is the proven prefix of the
\* state it read.
THEOREM PlanSkipsOnlyProven == PlanSpec => []SkipsOnlyProven
<1>1. PlanInit => SkipsOnlyProven
  BY DEF PlanInit, SkipsOnlyProven, Decided
<1>2. PlanTypeOK /\ SkipsOnlyProven /\ [PlanNext]_planVars => SkipsOnlyProven'
  <2> SUFFICES ASSUME PlanTypeOK, SkipsOnlyProven, [PlanNext]_planVars PROVE SkipsOnlyProven'
    OBVIOUS
  <2>1. CASE NothingToDo
    BY <2>1 DEF NothingToDo, SkipsOnlyProven, Decided
  <2>2. CASE Regressed
    BY <2>2 DEF Regressed, SkipsOnlyProven, Decided
  <2>3. CASE Decide
    <3> DEFINE resume == SafeResumeIndex(saved, Request.from, Request.to)
    <3>1. Request' = Request /\ Proven' = Proven
      BY <2>3 DEF Decide, Request, Proven
    <3>2. plan'.start = resume.next
          /\ plan'.proof = IF resume.ok THEN saved.rangeStart ELSE Request.from
      BY <2>3 DEF Decide
    <3>3. /\ opts.start \in Int /\ opts.count \in Int /\ size \in Nat
          /\ TailDefault \in Nat /\ MaxInt \in Nat
      BY PlanInputs, PlanNumbers DEF PlanTypeOK
    <3>4. Request.from \in Int /\ Request.to \in Int
      BY <3>3
      DEF Request, CalculateRange, TailFrom, HeadFrom, HeadTo, Add, Larger, Smaller
    <3>5. CASE resume.ok
      <4>1. saved # None /\ Covers(saved, Request.from)
            /\ resume.next = Smaller(saved.next, Request.to)
        BY <3>5 DEF SafeResumeIndex
      <4>2. saved.rangeStart \in Int /\ saved.next \in Int
        BY <4>1, PlanInputs DEF PlanTypeOK
      <4>3. /\ resume.next \in Int /\ resume.next <= saved.next
            /\ saved.rangeStart <= Request.from
        BY <3>4, <4>1, <4>2 DEF Covers, Smaller
      <4>4. /\ plan'.start = resume.next /\ plan'.proof = saved.rangeStart
        BY <3>2, <3>5
      <4>5. Proven = Span(saved.rangeStart, saved.next)
        BY <4>1 DEF Proven
      <4> HIDE DEF resume
      <4>6. /\ Span(Request.from, resume.next) \subseteq Proven
            /\ Span(saved.rangeStart, resume.next) \subseteq Proven
        BY <3>4, <4>2, <4>3, <4>5 DEF Span
      <4> QED
        BY <3>1, <4>4, <4>6 DEF SkipsOnlyProven
    <3>6. CASE ~resume.ok
      <4>1. resume.next = Request.from
        BY <3>6 DEF SafeResumeIndex
      <4> QED
        BY <3>1, <3>2, <3>4, <3>6, <4>1 DEF SkipsOnlyProven, Span
    <3> QED
      BY <3>5, <3>6
  <2>4. CASE UNCHANGED planVars
    BY <2>4 DEF planVars, SkipsOnlyProven, Decided, Proven, Request
  <2> QED
    BY <2>1, <2>2, <2>3, <2>4 DEF PlanNext
<1> QED
  BY <1>1, <1>2, PlanTypes, PTL DEF PlanSpec

\* A run that asks for an entry the saved state proves goes on at the end of the proven
\* prefix, or has nothing left to do: no entry is fetched and written again.
THEOREM PlanResumesWhereProven == PlanSpec => []ResumesWhereProven
<1>1. PlanInit => ResumesWhereProven
  BY DEF PlanInit, ResumesWhereProven, Decided
<1>2. PlanTypeOK /\ ResumesWhereProven /\ [PlanNext]_planVars => ResumesWhereProven'
  <2> SUFFICES ASSUME PlanTypeOK, ResumesWhereProven, [PlanNext]_planVars PROVE ResumesWhereProven'
    OBVIOUS
  <2>1. CASE NothingToDo \/ Regressed
    BY <2>1 DEF NothingToDo, Regressed, ResumesWhereProven, Decided
  <2>2. CASE Decide
    <3> DEFINE resume == SafeResumeIndex(saved, Request.from, Request.to)
    <3>1. /\ Request' = Request /\ Proven' = Proven
          /\ plan'.start = resume.next /\ plan'.to = Request.to
          /\ Request.from < Request.to
      BY <2>2 DEF Decide, Request, Proven
    <3>2. /\ opts.start \in Int /\ opts.count \in Int /\ size \in Nat
          /\ TailDefault \in Nat /\ MaxInt \in Nat
      BY PlanInputs, PlanNumbers DEF PlanTypeOK
    <3>3. Request.from \in Nat /\ Request.to \in Int
      BY <3>1, <3>2
      DEF Request, CalculateRange, TailFrom, HeadFrom, HeadTo, Add, Larger, Smaller
    <3> SUFFICES ASSUME Request.from \in Proven
                 PROVE  Proven \cap Span(resume.next, Request.to) = {}
      BY <3>1 DEF ResumesWhereProven
    <3>4. saved # None /\ Proven = Span(saved.rangeStart, saved.next)
      BY DEF Proven
    <3>5. /\ saved.rangeStart \in Int /\ saved.next \in Int
          /\ saved.rangeStart <= saved.next /\ saved.next <= saved.rangeEnd
      BY <3>4, PlanInputs DEF PlanTypeOK, SavedStates
    <3>6. saved.rangeStart <= Request.from /\ Request.from < saved.next
      BY <3>3, <3>4, <3>5 DEF Span
    <3>7. Covers(saved, Request.from)
      BY <3>5, <3>6 DEF Covers
    <3>8. resume.next = Smaller(saved.next, Request.to)
      BY <3>1, <3>3, <3>4, <3>7 DEF SafeResumeIndex
    <3> HIDE DEF resume
    <3> QED
      BY <3>3, <3>4, <3>5, <3>8 DEF Span, Smaller
  <2>3. CASE UNCHANGED planVars
    BY <2>3 DEF planVars, ResumesWhereProven, Decided, Proven, Request
  <2> QED
    BY <2>1, <2>2, <2>3 DEF PlanNext
<1> QED
  BY <1>1, <1>2, PlanTypes, PTL DEF PlanSpec

-----------------------------------------------------------------------------
(* StartupBaseline: the supervising transaction never makes an entry of a  *)
(* monitored log unreplayable, whatever the logs and the tree sizes.       *)

\* The invariant's part about the process, which its steps have to preserve.
ProcessInv == /\ \A l \in Logs : OutcomesKeep(l)
              /\ at \in {"init", "publish"} =>
                    \A l \in Logs : StartsFromState(l) /\ emitted[l] = {}
              /\ at = "publish" => \A l \in Logs : job[l] = "up"
              /\ at = "poll" => \A l \in Logs : PollsFromRestored(l)

\* Outside "idle" the invariant is that the process is sound.
LEMMA RunningInv ==
    ASSUME at # "idle"
    PROVE  TransactionInv <=> BaselineTypeOK /\ EmittedIsRecoverable /\ ProcessInv
BY DEF TransactionInv, NothingUnreplayable, ProcessInv

\* The functions of the state, one by one.
LEMMA Types ==
    ASSUME BaselineTypeOK
    PROVE  /\ state \in [Logs -> Position] /\ session \in [Logs -> Position]
           /\ target \in [Logs -> Position] /\ before \in [Logs -> Position]
           /\ origin \in [Logs -> Position] /\ head \in [Logs -> Nat]
           /\ job \in [Logs -> Jobs] /\ emitted \in [Logs -> SUBSET Nat]
           /\ committed \in [Logs -> SUBSET Nat] /\ fresh \subseteq Logs
           /\ artifact \in [fresh -> Nat] \cup {Absent}
BY DEF BaselineTypeOK

\* The restored position is one the transaction has seen.
LEMMA RestoredType ==
    ASSUME BaselineTypeOK, NEW l \in Logs
    PROVE  Restored(l) \in Position
BY Types DEF Restored, Position

\* Initially nothing is monitored.
LEMMA InitInv == BaselineInit => TransactionInv
<1> SUFFICES ASSUME BaselineInit PROVE TransactionInv
  OBVIOUS
<1>1. BaselineTypeOK
  <2>1. /\ Absent \in Position /\ "start" \in Jobs /\ 0 .. MaxTree \subseteq Nat
    BY BaselineConstants DEF Position, Jobs
  <2> QED
    BY <2>1 DEF BaselineInit, BaselineTypeOK
<1> QED
  BY <1>1 DEF BaselineInit, TransactionInv, NothingUnreplayable, EmittedIsRecoverable

\* A log that grows is none of the transaction's business.
LEMMA GrowInv ==
    ASSUME TransactionInv, NEW l \in Logs, Grow(l)
    PROVE  TransactionInv'
<1>1. BaselineTypeOK'
  <2>1. head' \in [Logs -> Nat]
    BY Types DEF TransactionInv, Grow
  <2> QED
    BY <2>1, Types DEF TransactionInv, BaselineTypeOK, Grow, process, supervisor
<1> QED
  BY <1>1 DEF TransactionInv, Grow, process, supervisor, NothingUnreplayable,
     EmittedIsRecoverable, OutcomesKeep, StartsFromState, PollsFromRestored, Restored

\* A step of one log's initialisation concerns that log only, and a log that was
\* polled before has a state file nobody touches.
LEMMA InitStep ==
    ASSUME TransactionInv, at = "init", NEW l \in Logs, BaselineTypeOK', StartsFromState(l)',
           UNCHANGED <<artifact, at, emitted, supervisor, origin>>,
           \A k \in Logs \ {l} : /\ state'[k] = state[k] /\ session'[k] = session[k]
                                 /\ job'[k] = job[k] /\ (k \in fresh' <=> k \in fresh),
           before[l] # Absent => state'[l] = state[l]
    PROVE  TransactionInv'
<1>1. ProcessInv /\ BaselineTypeOK
  BY RunningInv
<1>2. artifact = Absent /\ \A k \in Logs : StartsFromState(k) /\ emitted[k] = {}
  BY <1>1 DEF ProcessInv, StartsFromState
<1>3. \A k \in Logs : Restored(k) = before[k] /\ Restored(k)' = before[k]
  BY <1>2 DEF Restored, supervisor
<1>4. ASSUME NEW k \in Logs PROVE OutcomesKeep(k)'
  <2>1. OutcomesKeep(k)
    BY <1>1 DEF ProcessInv
  <2>2. origin[k] # Absent => state'[k] = state[k]
    BY <2>1, <1>3 DEF OutcomesKeep
  <2> QED
    BY <2>1, <2>2, <1>3 DEF OutcomesKeep, supervisor
<1>5. ASSUME NEW k \in Logs PROVE StartsFromState(k)' /\ emitted'[k] = {}
  BY <1>2 DEF StartsFromState, supervisor
<1>6. EmittedIsRecoverable'
  BY <1>5 DEF EmittedIsRecoverable
<1> QED
  BY <1>4, <1>5, <1>6 DEF TransactionInv, NothingUnreplayable

\* The steps of a log's initialisation.
LEMMA StartUpInv ==
    ASSUME TransactionInv, NEW l \in Logs,
           \/ LoadState(l) \/ InitFails(l) \/ InitialHead(l)
           \/ SaveInitial(l) \/ SaveInitialFails(l)
    PROVE  TransactionInv'
<1>1. at = "init"
  BY DEF LoadState, InitFails, InitialHead, SaveInitial, SaveInitialFails
<1>2. /\ BaselineTypeOK /\ StartsFromState(l) /\ artifact = Absent /\ fresh \subseteq Logs
      /\ state \in [Logs -> Position] /\ session \in [Logs -> Position]
      /\ job \in [Logs -> Jobs]
  BY <1>1, Types DEF TransactionInv, StartsFromState
<1> USE DEF Jobs
<1>3. CASE LoadState(l)
  <2>1. BaselineTypeOK'
    BY <1>2, <1>3, Types DEF LoadState, supervisor, BaselineTypeOK
  <2>2. StartsFromState(l)'
    BY <1>2, <1>3 DEF LoadState, StartsFromState, supervisor
  <2> QED
    BY <1>1, <1>2, <1>3, <2>1, <2>2, InitStep DEF LoadState
<1>4. CASE InitFails(l)
  <2>1. BaselineTypeOK'
    BY <1>2, <1>4, Types DEF InitFails, supervisor, BaselineTypeOK
  <2>2. StartsFromState(l)'
    BY <1>2, <1>4 DEF InitFails, StartsFromState, supervisor
  <2> QED
    BY <1>1, <1>2, <1>4, <2>1, <2>2, InitStep DEF InitFails
<1>5. CASE InitialHead(l)
  <2>1. PICK n \in 0 .. head[l] :
          \/ /\ session[l] # Absent /\ session[l] <= n
             /\ job' = [job EXCEPT ![l] = "up"] /\ UNCHANGED session
          \/ /\ session[l] # Absent /\ session[l] > n
             /\ job' = [job EXCEPT ![l] = "failed"] /\ UNCHANGED session
          \/ /\ session[l] = Absent
             /\ job' = [job EXCEPT ![l] = "saving"]
             /\ session' = [session EXCEPT ![l] = n]
    BY <1>5 DEF InitialHead
  <2>2. n \in Nat /\ n # Absent
    BY BaselineConstants
  <2>3. BaselineTypeOK'
    BY <1>2, <1>5, <2>1, <2>2, Types DEF InitialHead, supervisor, BaselineTypeOK, Position
  <2>4. StartsFromState(l)'
    BY <1>2, <1>5, <2>1, <2>2 DEF InitialHead, StartsFromState, supervisor
  <2>5. \A k \in Logs \ {l} : session'[k] = session[k] /\ job'[k] = job[k]
    BY <1>2, <2>1
  <2> QED
    BY <1>1, <1>2, <1>5, <2>3, <2>4, <2>5, InitStep DEF InitialHead
<1>6. CASE SaveInitial(l)
  <2>1. BaselineTypeOK'
    BY <1>2, <1>6, Types DEF SaveInitial, supervisor, BaselineTypeOK
  <2>2. StartsFromState(l)'
    BY <1>2, <1>6 DEF SaveInitial, StartsFromState, supervisor
  <2>3. before[l] = Absent
    BY <1>2, <1>6 DEF SaveInitial, StartsFromState
  <2> QED
    BY <1>1, <1>2, <1>6, <2>1, <2>2, <2>3, InitStep DEF SaveInitial
<1>7. CASE SaveInitialFails(l)
  <2>1. BaselineTypeOK'
    BY <1>2, <1>7, Types DEF SaveInitialFails, supervisor, BaselineTypeOK
  <2>2. before[l] = Absent /\ l \notin fresh
    BY <1>2, <1>7 DEF SaveInitialFails, StartsFromState
  <2>3. StartsFromState(l)'
    BY <1>2, <1>7, <2>2 DEF SaveInitialFails, StartsFromState, supervisor
  <2>4. \A k \in Logs \ {l} : state'[k] = state[k]
    BY <1>2, <1>7 DEF SaveInitialFails
  <2> QED
    BY <1>1, <1>2, <1>7, <2>1, <2>2, <2>3, <2>4, InitStep DEF SaveInitialFails
<1> QED
  BY <1>3, <1>4, <1>5, <1>6, <1>7

\* The end of start-up, and of a process, moves no position.
LEMMA GatheredOrEndInv ==
    ASSUME TransactionInv, Gathered \/ End
    PROVE  TransactionInv'
<1>1. /\ UNCHANGED <<head, state, artifact, job, session, target, fresh, emitted>>
      /\ UNCHANGED <<supervisor, origin>>
      /\ at # "idle" /\ at' \in {"publish", "ended"}
      /\ at' = "publish" => at = "init" /\ \A l \in Logs : job[l] = "up"
  BY DEF Gathered, End
<1>2. BaselineTypeOK'
  BY <1>1 DEF TransactionInv, BaselineTypeOK, supervisor
<1>3. \A l \in Logs : OutcomesKeep(l)'
  BY <1>1 DEF TransactionInv, OutcomesKeep, Restored, supervisor
<1>4. EmittedIsRecoverable'
  BY <1>1 DEF TransactionInv, EmittedIsRecoverable, Restored, supervisor
<1>5. at' = "publish" => \A l \in Logs : StartsFromState(l)' /\ emitted'[l] = {}
  BY <1>1 DEF TransactionInv, StartsFromState, supervisor
<1> QED
  BY <1>1, <1>2, <1>3, <1>4, <1>5 DEF TransactionInv, NothingUnreplayable

\* Publishing the artifact makes every new state file restorable, so a log may
\* become monitored.
LEMMA PublishInv ==
    ASSUME TransactionInv, Publish \/ PublishFails
    PROVE  TransactionInv'
<1>1. /\ BaselineTypeOK /\ at = "publish" /\ fresh \subseteq Logs
      /\ \A l \in Logs : /\ StartsFromState(l) /\ emitted[l] = {} /\ job[l] = "up"
                         /\ OutcomesKeep(l)
  BY Types DEF Publish, PublishFails, TransactionInv
<1>2. /\ state \in [Logs -> Position] /\ session \in [Logs -> Position]
      /\ before \in [Logs -> Position] /\ origin \in [Logs -> Position]
      /\ emitted \in [Logs -> SUBSET Nat] /\ committed \in [Logs -> SUBSET Nat]
  BY <1>1, Types
<1>3. \A l \in Logs : /\ state[l] # Absent /\ state[l] = session[l] /\ state[l] \in Nat
                      /\ l \in fresh <=> before[l] = Absent
                      /\ l \notin fresh => state[l] = before[l]
  BY <1>1, <1>2 DEF StartsFromState, Position
<1>4. [l \in fresh |-> state[l]] \in [fresh -> Nat] /\ [l \in fresh |-> state[l]] # Absent
  BY <1>1, <1>3, BaselineConstants
<1>5. ASSUME NEW l \in Logs PROVE Delta(state[l], state[l]) = {}
  BY <1>3, <1>5 DEF Delta
<1>6. CASE Publish
  <2>1. /\ artifact' = [l \in fresh |-> state[l]] /\ at' = "poll"
        /\ origin' = [l \in Logs |-> IF origin[l] = Absent THEN session[l] ELSE origin[l]]
        /\ UNCHANGED <<head, state, job, session, target, fresh, emitted, before, committed>>
    BY <1>6 DEF Publish, supervisor
  <2>2. BaselineTypeOK'
    <3>1. origin' \in [Logs -> Position]
      BY <1>2, <2>1
    <3> QED
      BY <1>1, <1>4, <2>1, <3>1 DEF BaselineTypeOK
  <2>3. \A l \in Logs : Restored(l)' = state[l]
    BY <1>1, <1>3, <1>4, <2>1 DEF Restored
  <2>4. ASSUME NEW l \in Logs PROVE OutcomesKeep(l)'
    <3>1. CASE origin[l] = Absent
      <4>1. origin'[l] = state[l]
        BY <1>3, <2>1, <3>1
      <4> QED
        BY <1>3, <1>5, <2>1, <2>3, <4>1 DEF OutcomesKeep
    <3>2. CASE origin[l] # Absent
      <4>1. origin'[l] = origin[l] /\ before[l] # Absent /\ Restored(l) = state[l]
        BY <1>1, <1>3, <2>1, <3>2 DEF OutcomesKeep, Restored, StartsFromState
      <4> QED
        BY <1>1, <1>3, <1>5, <2>1, <2>3, <3>2, <4>1 DEF OutcomesKeep
    <3> QED
      BY <3>1, <3>2
  <2>5. ASSUME NEW l \in Logs PROVE PollsFromRestored(l)'
    <3>1. origin'[l] # Absent
      BY <1>3, <2>1
    <3> QED
      BY <1>1, <1>3, <1>5, <2>1, <2>3, <3>1 DEF PollsFromRestored
  <2>6. EmittedIsRecoverable'
    BY <1>1, <2>1 DEF EmittedIsRecoverable
  <2> QED
    BY <2>1, <2>2, <2>4, <2>5, <2>6 DEF TransactionInv, NothingUnreplayable
<1>7. CASE PublishFails
  <2>1. /\ artifact' \in {Absent, [l \in fresh |-> state[l]]} /\ at' = "ended"
        /\ UNCHANGED <<head, state, job, session, target, fresh, emitted, before>>
        /\ UNCHANGED <<committed, origin>>
    BY <1>7 DEF PublishFails, supervisor
  <2>2. BaselineTypeOK'
    BY <1>1, <1>4, <2>1 DEF BaselineTypeOK
  <2>3. ASSUME NEW l \in Logs PROVE OutcomesKeep(l)'
    <3>1. origin[l] # Absent => before[l] # Absent
      BY <1>1 DEF OutcomesKeep, Restored, StartsFromState
    <3>2. before[l] # Absent => Restored(l)' = Restored(l)
      BY <2>1 DEF Restored
    <3> QED
      BY <1>1, <2>1, <3>1, <3>2 DEF OutcomesKeep
  <2>4. EmittedIsRecoverable'
    BY <1>1, <2>1 DEF EmittedIsRecoverable
  <2> QED
    BY <2>1, <2>2, <2>3, <2>4 DEF TransactionInv, NothingUnreplayable
<1> QED
  BY <1>6, <1>7

\* A step of a poll concerns one log, and moves no restored position.
LEMMA PollStep ==
    ASSUME TransactionInv, at = "poll", NEW l \in Logs, BaselineTypeOK',
           UNCHANGED <<artifact, at, fresh, supervisor, origin>>,
           \A k \in Logs \ {l} :
               /\ state'[k] = state[k] /\ session'[k] = session[k] /\ job'[k] = job[k]
               /\ target'[k] = target[k] /\ emitted'[k] = emitted[k],
           Restored(l)' = Restored(l) => OutcomesKeep(l)' /\ PollsFromRestored(l)',
           \A i \in emitted'[l] : Restored(l) <= i
    PROVE  TransactionInv'
<1>1. \A k \in Logs : OutcomesKeep(k) /\ PollsFromRestored(k) /\ Restored(k)' = Restored(k)
  BY DEF TransactionInv, Restored, supervisor
<1>2. ASSUME NEW k \in Logs PROVE OutcomesKeep(k)' /\ PollsFromRestored(k)'
  <2>1. CASE k = l
    BY <1>1, <2>1
  <2>2. CASE k # l
    BY <1>1, <2>2 DEF OutcomesKeep, PollsFromRestored, supervisor
  <2> QED
    BY <2>1, <2>2
<1>3. EmittedIsRecoverable'
  <2>1. ASSUME NEW k \in Logs, NEW i \in emitted'[k]
        PROVE  Restored(k)' # Absent /\ Restored(k)' <= i
    BY <1>1, <2>1 DEF TransactionInv, EmittedIsRecoverable, PollsFromRestored
  <2> QED
    BY <2>1 DEF EmittedIsRecoverable
<1> QED
  BY <1>2, <1>3 DEF TransactionInv, NothingUnreplayable

\* The steps of a poll.
LEMMA PollInv ==
    ASSUME TransactionInv, NEW l \in Logs,
           Deliver(l) \/ DeliverPart(l) \/ SaveAndMove(l) \/ SaveFails(l)
    PROVE  TransactionInv'
<1>1. at = "poll" /\ BaselineTypeOK
  BY DEF Deliver, DeliverPart, SaveAndMove, SaveFails, TransactionInv
<1>2. /\ OutcomesKeep(l) /\ PollsFromRestored(l)
      /\ \A i \in emitted[l] : Restored(l) <= i
  BY <1>1 DEF TransactionInv, EmittedIsRecoverable
<1>3. /\ state \in [Logs -> Position] /\ session \in [Logs -> Position]
      /\ target \in [Logs -> Position] /\ job \in [Logs -> Jobs]
      /\ emitted \in [Logs -> SUBSET Nat] /\ head \in [Logs -> Nat]
  BY <1>1, Types
<1>4. session[l] \in Nat /\ Restored(l) \in Nat /\ Restored(l) <= session[l]
  BY <1>1, <1>2, <1>3, RestoredType DEF PollsFromRestored, Position
<1>5. ASSUME NEW a \in Nat, NEW b \in Nat
      PROVE  /\ Delta(a, b) \subseteq Nat
             /\ \A c \in Nat : Delta(a, c) \subseteq Delta(a, b) \cup Delta(b, c)
  BY DEF Delta
<1> USE DEF Jobs
<1>6. CASE Deliver(l)
  <2>1. PICK n \in 0 .. head[l] :
          /\ n > session[l]
          /\ emitted' = [emitted EXCEPT ![l] = @ \cup Delta(session[l], n)]
          /\ target' = [target EXCEPT ![l] = n]
    BY <1>6 DEF Deliver
  <2>2. n \in Nat /\ n # Absent
    BY <1>3, BaselineConstants
  <2>3. BaselineTypeOK'
    <3>1. emitted' \in [Logs -> SUBSET Nat]
      BY <1>3, <1>4, <1>5, <2>1, <2>2
    <3>2. target' \in [Logs -> Position] /\ job' \in [Logs -> Jobs]
      BY <1>3, <1>6, <2>1, <2>2 DEF Deliver, Position
    <3> QED
      BY <1>1, <1>6, <3>1, <3>2 DEF Deliver, BaselineTypeOK, supervisor
  <2>4. /\ emitted'[l] = emitted[l] \cup Delta(session[l], n)
        /\ target'[l] = n /\ job'[l] = "delivered"
        /\ state'[l] = state[l] /\ session'[l] = session[l] /\ UNCHANGED <<origin, committed>>
    BY <1>3, <1>6, <2>1 DEF Deliver, supervisor
  <2>5. Delta(Restored(l), n) \subseteq emitted'[l]
    BY <1>2, <1>4, <1>5, <2>2, <2>4 DEF PollsFromRestored
  <2>6. Restored(l)' = Restored(l) => OutcomesKeep(l)' /\ PollsFromRestored(l)'
    <3> SUFFICES ASSUME Restored(l)' = Restored(l)
                 PROVE  OutcomesKeep(l)' /\ PollsFromRestored(l)'
      OBVIOUS
    <3>1. OutcomesKeep(l)'
      BY <1>2, <2>4 DEF OutcomesKeep
    <3>2. PollsFromRestored(l)'
      BY <1>2, <1>4, <2>1, <2>2, <2>4, <2>5 DEF PollsFromRestored
    <3> QED
      BY <3>1, <3>2
  <2>7. \A i \in emitted'[l] : Restored(l) <= i
    BY <1>2, <1>4, <2>2, <2>4 DEF Delta
  <2>8. \A k \in Logs \ {l} : /\ emitted'[k] = emitted[k] /\ target'[k] = target[k]
                              /\ job'[k] = job[k]
    BY <1>3, <1>6, <2>1 DEF Deliver
  <2> QED
    BY <1>1, <1>6, <2>3, <2>6, <2>7, <2>8, PollStep DEF Deliver
<1>7. CASE DeliverPart(l)
  <2>1. PICK part \in SUBSET Delta(session[l], head[l]) :
          emitted' = [emitted EXCEPT ![l] = @ \cup part]
    BY <1>7 DEF DeliverPart
  <2>2. part \subseteq Nat /\ \A i \in part : session[l] <= i
    BY <1>3, <1>4 DEF Delta
  <2>3. BaselineTypeOK'
    <3>1. emitted' \in [Logs -> SUBSET Nat]
      BY <1>3, <2>1, <2>2
    <3> QED
      BY <1>1, <1>7, <3>1 DEF DeliverPart, BaselineTypeOK, supervisor
  <2>4. emitted'[l] = emitted[l] \cup part /\ \A k \in Logs \ {l} : emitted'[k] = emitted[k]
    BY <1>3, <2>1
  <2>5. Restored(l)' = Restored(l) => OutcomesKeep(l)' /\ PollsFromRestored(l)'
    BY <1>2, <1>7, <2>4 DEF OutcomesKeep, PollsFromRestored, DeliverPart, supervisor
  <2>6. \A i \in emitted'[l] : Restored(l) <= i
    BY <1>2, <1>4, <2>2, <2>4
  <2> QED
    BY <1>1, <1>7, <2>3, <2>4, <2>5, <2>6, PollStep DEF DeliverPart
<1>8. CASE SaveAndMove(l)
  <2>1. /\ job[l] = "delivered" /\ state'[l] = target[l] /\ session'[l] = target[l]
        /\ target'[l] = Absent /\ job'[l] = "up"
        /\ UNCHANGED <<origin, emitted, committed>>
    BY <1>3, <1>8 DEF SaveAndMove, supervisor
  <2>2. BaselineTypeOK'
    BY <1>1, <1>3, <1>8 DEF SaveAndMove, BaselineTypeOK, supervisor, Position
  <2>3. target[l] \in Nat /\ target[l] # Absent /\ Restored(l) <= target[l]
    BY <1>2, <1>3, <1>4, <2>1 DEF PollsFromRestored, Position
  <2>4. Restored(l)' = Restored(l) => OutcomesKeep(l)' /\ PollsFromRestored(l)'
    BY <1>2, <2>1, <2>3 DEF OutcomesKeep, PollsFromRestored
  <2>5. \A k \in Logs \ {l} : /\ state'[k] = state[k] /\ session'[k] = session[k]
                              /\ target'[k] = target[k] /\ job'[k] = job[k]
    BY <1>3, <1>8 DEF SaveAndMove
  <2> QED
    BY <1>1, <1>2, <1>8, <2>1, <2>2, <2>4, <2>5, PollStep DEF SaveAndMove
<1>9. CASE SaveFails(l)
  <2>1. /\ job[l] = "delivered" /\ state'[l] \in {state[l], target[l]}
        /\ session'[l] = session[l] /\ target'[l] = Absent /\ job'[l] = "up"
        /\ UNCHANGED <<origin, emitted, committed>>
        /\ \A k \in Logs \ {l} : /\ state'[k] = state[k] /\ target'[k] = target[k]
                                 /\ job'[k] = job[k]
    BY <1>3, <1>9 DEF SaveFails, supervisor
  <2>2. BaselineTypeOK'
    BY <1>1, <1>3, <1>9 DEF SaveFails, BaselineTypeOK, supervisor, Position
  <2>3. Restored(l)' = Restored(l) => OutcomesKeep(l)' /\ PollsFromRestored(l)'
    BY <1>2, <2>1 DEF OutcomesKeep, PollsFromRestored
  <2> QED
    BY <1>1, <1>2, <1>9, <2>1, <2>2, <2>3, PollStep DEF SaveFails
<1> QED
  BY <1>6, <1>7, <1>8, <1>9

\* A transaction begins with the state files as its snapshot.
LEMMA LaunchInv ==
    ASSUME TransactionInv, Launch
    PROVE  TransactionInv'
<1>1. /\ before' = state /\ artifact' = Absent /\ at' = "init" /\ fresh' = {}
      /\ job' = [l \in Logs |-> "start"] /\ emitted' = [l \in Logs |-> {}]
      /\ session' = [l \in Logs |-> Absent] /\ target' = [l \in Logs |-> Absent]
      /\ UNCHANGED <<head, state, committed, origin>>
  BY DEF Launch
<1>2. state \in [Logs -> Position] /\ BaselineTypeOK
  BY Types DEF TransactionInv
<1>3. BaselineTypeOK'
  BY <1>1, <1>2 DEF BaselineTypeOK, Jobs, Position
<1>4. ASSUME NEW l \in Logs PROVE OutcomesKeep(l)'
  <2>1. Restored(l)' = state[l]
    BY <1>1 DEF Restored
  <2>2. origin[l] # Absent =>
            /\ state[l] \in Nat /\ state[l] # Absent
            /\ Delta(origin[l], state[l]) \subseteq committed[l]
    BY <1>2 DEF TransactionInv, NothingUnreplayable, Launch, Position
  <2> QED
    BY <1>1, <2>1, <2>2 DEF OutcomesKeep, Delta
<1>5. \A l \in Logs : StartsFromState(l)' /\ emitted'[l] = {}
  BY <1>1 DEF StartsFromState
<1>6. EmittedIsRecoverable'
  BY <1>5 DEF EmittedIsRecoverable
<1> QED
  BY <1>1, <1>3, <1>4, <1>5, <1>6 DEF TransactionInv, NothingUnreplayable

\* Either outcome of a transaction keeps every monitored log replayable.
LEMMA OutcomeInv ==
    ASSUME TransactionInv, Commit \/ Restore
    PROVE  TransactionInv'
<1>1. /\ at = "ended" /\ at' = "idle" /\ UNCHANGED origin /\ BaselineTypeOK
      /\ \A l \in Logs : OutcomesKeep(l)
  BY DEF Commit, Restore, TransactionInv
<1>2. /\ state \in [Logs -> Position] /\ origin \in [Logs -> Position]
      /\ emitted \in [Logs -> SUBSET Nat] /\ committed \in [Logs -> SUBSET Nat]
      /\ \A l \in Logs : Restored(l) \in Position
  BY <1>1, Types, RestoredType
<1>3. CASE Commit
  <2>1. /\ committed' = [l \in Logs |-> committed[l] \cup emitted[l]] /\ state' = state
        /\ UNCHANGED <<head, artifact, job, session, target, fresh, emitted, before>>
    BY <1>3 DEF Commit
  <2>2. BaselineTypeOK'
    <3>1. committed' \in [Logs -> SUBSET Nat]
      BY <1>2, <2>1
    <3> QED
      BY <1>1, <2>1, <3>1 DEF BaselineTypeOK
  <2>3. ASSUME NEW l \in Logs, origin[l] # Absent
        PROVE  state[l] # Absent /\ Delta(origin[l], state[l]) \subseteq committed'[l]
    <3>1. origin[l] \in Nat /\ state[l] \in Nat /\ Restored(l) \in Nat /\ state[l] # Absent
      BY <1>1, <1>2, <2>3 DEF OutcomesKeep, Position
    <3>2. Delta(origin[l], state[l])
            \subseteq Delta(origin[l], Restored(l)) \cup Delta(Restored(l), state[l])
      BY <3>1 DEF Delta
    <3> QED
      BY <1>1, <2>1, <2>3, <3>1, <3>2 DEF OutcomesKeep
  <2> QED
    BY <1>1, <2>1, <2>2, <2>3
    DEF TransactionInv, NothingUnreplayable, EmittedIsRecoverable
<1>4. CASE Restore
  <2>1. /\ state' = [l \in Logs |-> Restored(l)]
        /\ UNCHANGED <<head, artifact, job, session, target, fresh, emitted, before>>
        /\ UNCHANGED committed
    BY <1>4 DEF Restore, supervisor
  <2>2. BaselineTypeOK'
    <3>1. state' \in [Logs -> Position]
      BY <1>2, <2>1
    <3> QED
      BY <1>1, <2>1, <3>1 DEF BaselineTypeOK
  <2> QED
    BY <1>1, <2>1, <2>2
    DEF TransactionInv, NothingUnreplayable, EmittedIsRecoverable, OutcomesKeep
<1> QED
  BY <1>3, <1>4

\* The invariant of the transaction: what either outcome would leave is complete,
\* whatever step the process has reached.
THEOREM BaselineInvariant == BaselineSpec => []TransactionInv
<1>1. TransactionInv /\ [BaselineNext]_baselineVars => TransactionInv'
  <2> SUFFICES ASSUME TransactionInv, [BaselineNext]_baselineVars PROVE TransactionInv'
    OBVIOUS
  <2>1. CASE UNCHANGED baselineVars
    BY <2>1 DEF baselineVars, process, supervisor, TransactionInv, BaselineTypeOK,
                NothingUnreplayable,
       EmittedIsRecoverable, OutcomesKeep, StartsFromState, PollsFromRestored, Restored
  <2> QED
    BY <2>1, GrowInv, StartUpInv, PollInv, GatheredOrEndInv, PublishInv, LaunchInv,
       OutcomeInv DEF BaselineNext
<1> QED
  BY <1>1, InitInv, PTL DEF BaselineSpec

\* Between transactions every entry of a monitored log is kept or still ahead of the
\* restored position.
THEOREM BaselineReplays == BaselineSpec => []NothingUnreplayable
<1>1. TransactionInv => NothingUnreplayable
  BY DEF TransactionInv
<1> QED
  BY <1>1, BaselineInvariant, PTL

\* Whatever a process has emitted, restoring would replay it.
THEOREM BaselineRecoversEmitted == BaselineSpec => []EmittedIsRecoverable
<1>1. TransactionInv => EmittedIsRecoverable
  BY DEF TransactionInv
<1> QED
  BY <1>1, BaselineInvariant, PTL

\* The variables keep their types.
THEOREM BaselineTypes == BaselineSpec => []BaselineTypeOK
<1>1. TransactionInv => BaselineTypeOK
  BY DEF TransactionInv
<1> QED
  BY <1>1, BaselineInvariant, PTL
\* What an artifact stands for of one log.
Covered(l) == state[l] # Absent /\ (before[l] = Absent => l \in fresh)

\* An artifact exists only while every selected log has a state file, its own files
\* included (run_with_baseline.go:166-172).
THEOREM BaselineCovers == BaselineSpec => []ArtifactMeansCovered
<1>1. BaselineInit => ArtifactMeansCovered
  BY DEF BaselineInit, ArtifactMeansCovered
<1>2. ASSUME TransactionInv, ArtifactMeansCovered, [BaselineNext]_baselineVars
      PROVE  ArtifactMeansCovered'
  <2> SUFFICES ASSUME NEW l \in Logs, at' # "idle", artifact' # Absent
               PROVE  Covered(l)'
    BY DEF ArtifactMeansCovered, Covered
  <2>1. at \in {"init", "publish"} => artifact = Absent /\ StartsFromState(l)
    BY <1>2 DEF TransactionInv, StartsFromState
  <2>2. at # "idle" /\ artifact # Absent => Covered(l)
    BY <1>2 DEF ArtifactMeansCovered, Covered
  <2>3. CASE UNCHANGED <<state, artifact, fresh, before>> /\ at # "idle"
    BY <2>2, <2>3 DEF Covered
  <2>4. CASE Publish \/ PublishFails
    <3>1. job[l] = "up"  BY <1>2, <2>4 DEF TransactionInv, Publish, PublishFails
    <3> QED  BY <2>1, <2>4, <3>1 DEF StartsFromState, Publish, PublishFails, Covered, supervisor
  <2>5. ASSUME NEW k \in Logs, SaveAndMove(k) \/ SaveFails(k) PROVE Covered(l)'
    <3>1. target[k] # Absent
      BY <1>2, <2>5 DEF TransactionInv, PollsFromRestored, SaveAndMove, SaveFails
    <3>2. state \in [Logs -> Position]  BY <1>2 DEF TransactionInv, BaselineTypeOK
    <3> QED
      BY <2>2, <2>5, <3>1, <3>2 DEF SaveAndMove, SaveFails, Covered, supervisor
  <2>6. ASSUME NEW k \in Logs, SaveInitial(k) \/ SaveInitialFails(k) PROVE Covered(l)'
    BY <2>1, <2>6 DEF SaveInitial, SaveInitialFails
  <2>7. CASE Launch \/ Commit \/ Restore
    BY <2>7 DEF Launch, Commit, Restore
  <2>8. CASE UNCHANGED at /\ at = "idle"  BY <2>8
  <2> QED
    BY <1>2, <2>3, <2>4, <2>5, <2>6, <2>7, <2>8
    DEF BaselineNext, baselineVars, process, supervisor, Grow, LoadState, InitFails, InitialHead, Deliver,
        DeliverPart, Gathered, End
<1> QED
  BY <1>1, <1>2, BaselineInvariant, PTL DEF BaselineSpec

-----------------------------------------------------------------------------
(* The two normalizations of a domain.                                     *)

\* strings.TrimSpace yields a part of the string.
LEMMA Extremes ==
    ASSUME NEW n \in Nat, NEW K \in SUBSET (1 .. n), K # {}
    PROVE  Min(K) \in K /\ Max(K) \in K
<1> DEFINE R == OpToRel(<, Nat)
           D == {n - i : i \in K}
<1>1. \A i, j \in Nat : <<i, j>> \in R <=> i < j
  BY DEF OpToRel
<1>2. IsWellFoundedOn(R, Nat)
  BY NatLessThanWellFounded
<1>3. K \in SUBSET Nat /\ D \in SUBSET Nat /\ D # {}
  OBVIOUS
<1> HIDE DEF R
<1>4. \E m \in K : \A i \in K : m <= i
  <2>1. PICK m \in K : \A i \in K : ~(<<i, m>> \in R)
    BY <1>2, <1>3, WFMin
  <2>2. \A i \in K : i \in Nat /\ m \in Nat /\ ~(i < m)
    BY <1>1, <1>3, <2>1
  <2> QED
    BY <2>2
<1>5. \E m \in K : \A i \in K : m >= i
  <2> HIDE DEF D
  <2>1. PICK d \in D : \A i \in D : ~(<<i, d>> \in R)
    BY <1>2, <1>3, WFMin
  <2>2. \A i \in D : i \in Nat /\ d \in Nat /\ ~(i < d)
    BY <1>1, <1>3, <2>1
  <2>3. PICK m \in K : d = n - m
    BY DEF D
  <2>4. ASSUME NEW i \in K PROVE m >= i
    <3>1. n - i \in D
      BY DEF D
    <3> QED
      BY <2>2, <2>3, <3>1
  <2> QED
    BY <2>4
<1> QED
  BY <1>4, <1>5 DEF Min, Max

LEMMA Part ==
    ASSUME NEW S, NEW s \in Seq(S), NEW m \in 1 .. (Len(s) + 1), NEW n \in 0 .. Len(s)
    PROVE  /\ SubSeq(s, m, n) \in Seq(S)
           /\ Len(SubSeq(s, m, n)) = IF m <= n THEN (n - m) + 1 ELSE 0
           /\ \A i \in 1 .. ((n - m) + 1) : SubSeq(s, m, n)[i] = s[(m + i) - 1]
<1>1. Len(s) \in Nat /\ m \in Int /\ n \in Int
  BY LenProperties
<1>2. \A i \in m .. n : s[i] \in S
  BY <1>1, ElementOfSeq
<1> QED
  BY <1>1, <1>2, SubSeqProperties

LEMMA TrimSpaceType == ASSUME NEW s \in Seq(Char) PROVE TrimSpace(s) \in Seq(Char)
<1> DEFINE K == {i \in DOMAIN s : s[i] # " "}
<1>1. Len(s) \in Nat /\ K \in SUBSET (1 .. Len(s))
  BY LenProperties
<1>2. CASE K = {}
  BY <1>2, EmptySeq DEF TrimSpace
<1>3. CASE K # {}
  <2> HIDE DEF K
  <2>1. Min(K) \in 1 .. Len(s) /\ Max(K) \in 1 .. Len(s)
    BY <1>1, <1>3, Extremes
  <2>2. Min(K) \in 1 .. (Len(s) + 1) /\ Max(K) \in 0 .. Len(s)
    BY <1>1, <2>1
  <2>3. SubSeq(s, Min(K), Max(K)) \in Seq(Char)
    BY <2>2, Part
  <2> QED
    BY <1>3, <2>3 DEF TrimSpace, K
<1> QED
  BY <1>2, <1>3

\* The sequence begins with a dot.
LEMMA BeginsWithDot ==
    ASSUME NEW d \in Seq(Char), d = <<".">>, NEW s \in Seq(Char)
    PROVE  IsPrefix(d, s) <=> Len(s) > 0 /\ s[1] = "."
<1> DEFINE one == 1
<1>1. one = 1 /\ one \in Nat /\ Len(s) \in Nat /\ Len(d) = one /\ d[1] = "." /\ d[one] = "."
  BY LenProperties
<1> HIDE DEF one
<1>2. ASSUME NEW x \in Seq(Char), Len(x) > 0
      PROVE  /\ SubSeq(x, one, one) \in Seq(Char) /\ Len(SubSeq(x, one, one)) = 1
             /\ SubSeq(x, one, one)[1] = x[1]
  <2>1. Len(x) \in Nat
    BY LenProperties
  <2>2. one \in 1 .. (Len(x) + 1) /\ one \in 0 .. Len(x)
    BY <1>1, <1>2, <2>1
  <2>3. /\ SubSeq(x, one, one) \in Seq(Char)
        /\ Len(SubSeq(x, one, one)) = IF one <= one THEN (one - one) + 1 ELSE 0
        /\ \A i \in 1 .. ((one - one) + 1) : SubSeq(x, one, one)[i] = x[(one + i) - 1]
    BY <2>2, Part
  <2>4. one <= one /\ (one - one) + 1 = 1 /\ (one + one) - 1 = one
        /\ one \in 1 .. ((one - one) + 1)
    BY <1>1
  <2>5. SubSeq(x, one, one)[one] = x[one]
    BY <2>3, <2>4
  <2> QED
    BY <1>1, <2>3, <2>4, <2>5
<1>3. CASE Len(s) > 0
  <2> DEFINE x == SubSeq(s, one, one)
             y == SubSeq(d, one, one)
  <2>1. /\ x \in Seq(Char) /\ Len(x) = 1 /\ x[1] = s[1]
        /\ y \in Seq(Char) /\ Len(y) = 1 /\ y[1] = "."
    BY <1>1, <1>2, <1>3
  <2> HIDE DEF x, y
  <2>2. (\A i \in 1 .. Len(y) : y[i] = x[i]) => y = x
    BY <2>1, SeqEqual
  <2>3. y = x <=> s[1] = "."
    BY <2>1, <2>2
  <2>4. Len(d) <= Len(s)
    BY <1>1, <1>3
  <2> QED
    BY <1>1, <1>3, <2>3, <2>4 DEF IsPrefix, x, y
<1>4. CASE ~(Len(s) > 0)
  <2>1. ~(Len(d) <= Len(s))
    BY <1>1, <1>4
  <2> QED
    BY <1>4, <2>1 DEF IsPrefix
<1> QED
  BY <1>3, <1>4

LEMMA DotIs == Dot \in Seq(Char) /\ Len(Dot) = 1 /\ Dot = <<".">> /\ Reverse(Dot) = <<".">>
<1>1. Dot = <<".">> /\ Len(Dot) = 1 /\ Dot \in Seq(Char)
  <2>1. "." \in Char
    BY CharConstants
  <2>2. \A x \in Char : <<x>> \in Seq(Char) /\ Len(<<x>>) = 1
    OBVIOUS
  <2>3. Dot = <<".">>
    BY DEF Dot
  <2>4. <<".">> \in Seq(Char) /\ Len(<<".">>) = 1
    BY <2>1, <2>2
  <2> QED
    BY <2>3, <2>4, Zenon
<1>2. Reverse(Dot) = [i \in 1 .. 1 |-> Dot[(1 - i) + 1]]
  BY <1>1 DEF Reverse
<1>3. Reverse(Dot) = <<".">>
  BY <1>1, <1>2
<1> QED
  BY <1>1, <1>3

\* strings.TrimPrefix and strings.TrimSuffix, of a dot.
LEMMA TrimFirst ==
    ASSUME NEW s \in Seq(Char)
    PROVE  TrimPrefix(s, Dot) = IF Len(s) > 0 /\ s[1] = "." THEN SubSeq(s, 2, Len(s)) ELSE s
<1>1. IsPrefix(Dot, s) <=> Len(s) > 0 /\ s[1] = "."
  BY DotIs, BeginsWithDot
<1>2. Len(Dot) + 1 = 2
  BY DotIs
<1> QED
  BY <1>1, <1>2 DEF TrimPrefix

LEMMA TrimLast ==
    ASSUME NEW s \in Seq(Char)
    PROVE  TrimSuffix(s, Dot)
              = IF Len(s) > 0 /\ s[Len(s)] = "." THEN SubSeq(s, 1, Len(s) - 1) ELSE s
<1> DEFINE r == Reverse(s)
           n == Len(s)
<1>1. n \in Nat /\ Len(Dot) = 1
  BY LenProperties, DotIs
<1>2. r \in Seq(Char) /\ Len(r) = n /\ (n > 0 => r[1] = s[n])
  <2>1. r = [i \in 1 .. n |-> s[(n - i) + 1]]
    BY DEF Reverse
  <2>2. \A i \in 1 .. n : (n - i) + 1 \in 1 .. n
    BY <1>1
  <2>3. \A i \in 1 .. n : s[(n - i) + 1] \in Char
    BY <2>2, ElementOfSeq
  <2> HIDE DEF r, n
  <2>4. r \in [1 .. n -> Char]
    BY <2>1, <2>3
  <2>5. r \in Seq(Char) /\ Len(r) = n
    BY <1>1, <2>4
  <2>6. n > 0 => r[1] = s[(n - 1) + 1] /\ (n - 1) + 1 = n
    BY <1>1, <2>1
  <2> QED
    BY <2>5, <2>6
<1> HIDE DEF r, n
<1>3. IsPrefix(Reverse(Dot), r) <=> n > 0 /\ r[1] = "."
  <2>1. Reverse(Dot) \in Seq(Char) /\ Reverse(Dot) = <<".">>
    BY DotIs
  <2>2. IsPrefix(Reverse(Dot), r) <=> Len(r) > 0 /\ r[1] = "."
    BY <1>2, <2>1, BeginsWithDot
  <2> QED
    BY <1>2, <2>2
<1>4. IsSuffix(Dot, s) <=> n > 0 /\ s[n] = "."
  BY <1>2, <1>3 DEF IsSuffix, r
<1> QED
  BY <1>1, <1>4 DEF TrimSuffix, n

LEMMA LowerKeepsDots ==
    ASSUME NEW s \in Seq(Char)
    PROVE  /\ Lower(s) \in Seq(Char) /\ Len(Lower(s)) = Len(s)
           /\ \A i \in 1 .. Len(s) : Lower(s)[i] = "." <=> s[i] = "."
<1> DEFINE low(c) == IF c \in DOMAIN Upper THEN Upper[c] ELSE c
<1>1. Len(s) \in Nat /\ DOMAIN s = 1 .. Len(s) /\ \A i \in 1 .. Len(s) : s[i] \in Char
  BY LenProperties, ElementOfSeq
<1>2. \A c \in Char : low(c) \in Char /\ (low(c) = "." <=> c = ".")
  BY CharConstants
<1>3. Lower(s) = [i \in 1 .. Len(s) |-> low(s[i])]
  BY <1>1 DEF Lower
<1> HIDE DEF low
<1>4. Lower(s) \in [1 .. Len(s) -> Char]
  BY <1>1, <1>2, <1>3
<1>5. Lower(s) \in Seq(Char) /\ Len(Lower(s)) = Len(s)
  BY <1>1, <1>4
<1> QED
  BY <1>1, <1>2, <1>3, <1>5

\* What is left of a string behind its first character, and before its last.
LEMMA AllButFirst ==
    ASSUME NEW s \in Seq(Char), Len(s) > 0
    PROVE  /\ SubSeq(s, 2, Len(s)) \in Seq(Char) /\ Len(SubSeq(s, 2, Len(s))) = Len(s) - 1
           /\ \A i \in 1 .. (Len(s) - 1) : SubSeq(s, 2, Len(s))[i] = s[i + 1]
<1> DEFINE two == 2
           n == Len(s)
           rest == SubSeq(s, two, n)
<1>1. n \in Nat /\ n > 0
  BY LenProperties
<1>2. two \in 1 .. (n + 1) /\ n \in 0 .. n /\ two = 2
  BY <1>1
<1> HIDE DEF two
<1>3. /\ rest \in Seq(Char) /\ Len(rest) = IF two <= n THEN (n - two) + 1 ELSE 0
      /\ \A i \in 1 .. ((n - two) + 1) : rest[i] = s[(two + i) - 1]
  BY <1>2, Part
<1> HIDE DEF n, rest
<1>4. Len(rest) = n - 1
  BY <1>1, <1>2, <1>3
<1>5. ASSUME NEW i \in 1 .. (n - 1) PROVE rest[i] = s[i + 1]
  <2>1. i \in 1 .. ((n - two) + 1) /\ (two + i) - 1 = i + 1
    BY <1>1, <1>2
  <2> QED
    BY <1>3, <2>1
<1> QED
  BY <1>2, <1>3, <1>4, <1>5 DEF rest, n

LEMMA AllButLast ==
    ASSUME NEW s \in Seq(Char), Len(s) > 0
    PROVE  /\ SubSeq(s, 1, Len(s) - 1) \in Seq(Char) /\ Len(SubSeq(s, 1, Len(s) - 1)) = Len(s) - 1
           /\ \A i \in 1 .. (Len(s) - 1) : SubSeq(s, 1, Len(s) - 1)[i] = s[i]
<1> DEFINE one == 1
           n == Len(s)
           rest == SubSeq(s, one, n - 1)
<1>1. n \in Nat /\ n > 0
  BY LenProperties
<1>2. one \in 1 .. (n + 1) /\ n - 1 \in 0 .. n /\ one = 1
  BY <1>1
<1> HIDE DEF one
<1>3. /\ rest \in Seq(Char)
      /\ Len(rest) = IF one <= n - 1 THEN ((n - 1) - one) + 1 ELSE 0
      /\ \A i \in 1 .. (((n - 1) - one) + 1) : rest[i] = s[(one + i) - 1]
  BY <1>2, Part
<1> HIDE DEF n, rest
<1>4. Len(rest) = n - 1
  BY <1>1, <1>2, <1>3
<1>5. ASSUME NEW i \in 1 .. (n - 1) PROVE rest[i] = s[i]
  <2>1. i \in 1 .. (((n - 1) - one) + 1) /\ (one + i) - 1 = i
    BY <1>1, <1>2
  <2> QED
    BY <1>3, <2>1
<1> QED
  BY <1>2, <1>3, <1>4, <1>5 DEF rest, n

\* Cutting a dot in front and making letters small are independent ...
LEMMA LowerAfterTrim ==
    ASSUME NEW t \in Seq(Char)
    PROVE  Lower(TrimPrefix(t, Dot)) = TrimPrefix(Lower(t), Dot)
<1> DEFINE n == Len(t)
           l == Lower(t)
           cut == SubSeq(t, 2, n)
           rest == SubSeq(l, 2, n)
<1>1. /\ n \in Nat /\ l \in Seq(Char) /\ Len(l) = n
      /\ \A i \in 1 .. n : l[i] = "." <=> t[i] = "."
  BY LenProperties, LowerKeepsDots
<1>2. TrimPrefix(l, Dot) = IF n > 0 /\ l[1] = "." THEN rest ELSE l
  BY <1>1, TrimFirst
<1>3. TrimPrefix(t, Dot) = IF n > 0 /\ t[1] = "." THEN cut ELSE t
  BY TrimFirst
<1>4. \A x \in Seq(Char) : \A i \in 1 .. Len(x) :
         Lower(x)[i] = IF x[i] \in DOMAIN Upper THEN Upper[x[i]] ELSE x[i]
  BY LenProperties DEF Lower
<1>5. n > 0 => (l[1] = "." <=> t[1] = ".")
  <2> HIDE DEF l, n
  <2>1. n > 0 => 1 \in 1 .. n
    BY <1>1
  <2> QED
    BY <1>1, <2>1
<1>6. ASSUME n > 0 PROVE Lower(cut) = rest
  <2>1. cut \in Seq(Char) /\ Len(cut) = n - 1 /\ \A i \in 1 .. (n - 1) : cut[i] = t[i + 1]
    BY <1>6, AllButFirst
  <2>2. rest \in Seq(Char) /\ Len(rest) = n - 1 /\ \A i \in 1 .. (n - 1) : rest[i] = l[i + 1]
    <3> HIDE DEF l, n
    <3> QED
      BY <1>1, <1>6, AllButFirst
  <2> HIDE DEF cut, rest
  <2>3. Lower(cut) \in Seq(Char) /\ Len(Lower(cut)) = n - 1
    BY <2>1, LowerKeepsDots
  <2>4. ASSUME NEW i \in 1 .. (n - 1) PROVE Lower(cut)[i] = rest[i]
    <3>1. i + 1 \in 1 .. n /\ i \in 1 .. Len(cut)
      BY <1>1, <2>1
    <3>2. Lower(cut)[i] = IF cut[i] \in DOMAIN Upper THEN Upper[cut[i]] ELSE cut[i]
      BY <1>4, <2>1, <3>1
    <3>3. l[i + 1] = IF t[i + 1] \in DOMAIN Upper THEN Upper[t[i + 1]] ELSE t[i + 1]
      BY <1>4, <3>1
    <3> QED
      BY <2>1, <2>2, <3>2, <3>3
  <2> QED
    BY <2>2, <2>3, <2>4, SeqEqual
<1> HIDE DEF cut, rest, n
<1> QED
  BY <1>2, <1>3, <1>5, <1>6

\* ... and so are cutting one in front and cutting one behind.
LEMMA TrimBothEnds ==
    ASSUME NEW l \in Seq(Char)
    PROVE  TrimPrefix(TrimSuffix(l, Dot), Dot) = TrimSuffix(TrimPrefix(l, Dot), Dot)
<1> DEFINE n == Len(l)
           h == SubSeq(l, 1, n - 1)
           g == SubSeq(l, 2, n)
<1>1. n \in Nat
  BY LenProperties
<1>2. TrimPrefix(l, Dot) = IF n > 0 /\ l[1] = "." THEN g ELSE l
  BY TrimFirst
<1>3. TrimSuffix(l, Dot) = IF n > 0 /\ l[n] = "." THEN h ELSE l
  BY TrimLast
<1>4. CASE n = 0
  BY <1>2, <1>3, <1>4
<1>5. n > 0 => /\ h \in Seq(Char) /\ Len(h) = n - 1 /\ \A i \in 1 .. (n - 1) : h[i] = l[i]
               /\ g \in Seq(Char) /\ Len(g) = n - 1 /\ \A i \in 1 .. (n - 1) : g[i] = l[i + 1]
  BY AllButFirst, AllButLast
<1> HIDE DEF h, g, n
<1>6. n > 0 => TrimPrefix(h, Dot) = IF Len(h) > 0 /\ h[1] = "." THEN SubSeq(h, 2, Len(h)) ELSE h
  BY <1>5, TrimFirst
<1>7. n > 0 => TrimSuffix(g, Dot)
                  = IF Len(g) > 0 /\ g[Len(g)] = "." THEN SubSeq(g, 1, Len(g) - 1) ELSE g
  BY <1>5, TrimLast
<1>8. CASE n = 1
  <2>1. Len(h) = 0 /\ Len(g) = 0
    BY <1>5, <1>8
  <2>2. h = g
    BY <1>5, <1>8, <2>1, SeqEqual
  <2>3. TrimPrefix(h, Dot) = h /\ TrimSuffix(g, Dot) = g
    BY <1>6, <1>7, <1>8, <2>1
  <2> QED
    BY <1>2, <1>3, <1>8, <2>2, <2>3
<1>9. CASE n > 1
  <2> DEFINE x == SubSeq(h, 2, Len(h))
             y == SubSeq(g, 1, Len(g) - 1)
  <2>1. /\ h \in Seq(Char) /\ Len(h) = n - 1 /\ \A i \in 1 .. (n - 1) : h[i] = l[i]
        /\ g \in Seq(Char) /\ Len(g) = n - 1 /\ \A i \in 1 .. (n - 1) : g[i] = l[i + 1]
    <3>1. n > 0
      BY <1>1, <1>9
    <3> QED
      BY <1>5, <3>1, Zenon
  <2>2. Len(h) > 0 /\ Len(g) > 0
    BY <1>1, <1>9, <2>1
  <2>3. x \in Seq(Char) /\ Len(x) = Len(h) - 1 /\ \A i \in 1 .. (Len(h) - 1) : x[i] = h[i + 1]
    BY <2>1, <2>2, AllButFirst
  <2>4. y \in Seq(Char) /\ Len(y) = Len(g) - 1 /\ \A i \in 1 .. (Len(g) - 1) : y[i] = g[i]
    BY <2>1, <2>2, AllButLast
  <2> HIDE DEF x, y
  <2>5. ASSUME NEW i \in 1 .. Len(x) PROVE x[i] = y[i]
    <3>1. i \in 1 .. (n - 2) /\ i + 1 \in 1 .. (n - 1) /\ i \in 1 .. (n - 1)
      BY <1>1, <1>9, <2>1, <2>3
    <3>2. i \in 1 .. (Len(h) - 1) /\ i \in 1 .. (Len(g) - 1)
      BY <1>1, <1>9, <2>1, <2>3
    <3>3. x[i] = h[i + 1] /\ y[i] = g[i]
      BY <2>3, <2>4, <3>2
    <3> QED
      BY <2>1, <3>1, <3>3
  <2>6. x = y
    <3>1. Len(x) = Len(y)
      BY <2>1, <2>3, <2>4
    <3> QED
      BY <2>3, <2>4, <2>5, <3>1, SeqEqual
  <2>7. h[1] = l[1] /\ g[Len(g)] = l[n]
    <3>1. 1 \in 1 .. (n - 1) /\ n - 1 \in 1 .. (n - 1) /\ (n - 1) + 1 = n
      BY <1>1, <1>9
    <3> QED
      BY <2>1, <3>1
  <2>8. TrimPrefix(h, Dot) = IF l[1] = "." THEN x ELSE h
    BY <1>1, <1>6, <1>9, <2>2, <2>7 DEF x
  <2>9. TrimSuffix(g, Dot) = IF l[n] = "." THEN y ELSE g
    BY <1>1, <1>7, <1>9, <2>2, <2>7 DEF y
  <2>10. n > 0
    BY <1>1, <1>9
  <2> QED
    BY <1>2, <1>3, <2>6, <2>8, <2>9, <2>10
<1> QED
  BY <1>1, <1>4, <1>8, <1>9

\* The filter of a domain is a function of what the state file is bound to.
Filtered(t) == TrimPrefix(TrimSuffix(t, Dot), Wildcard)

LEMMA FilterOfSelection ==
    ASSUME NEW s \in Seq(Char)
    PROVE  FilterDomain(s) = Filtered(SelectionDomain(s))
<1> DEFINE t == TrimSpace(s)
           l == Lower(t)
<1>1. t \in Seq(Char)
  BY TrimSpaceType
<1> HIDE DEF t
<1>2. l \in Seq(Char)
  BY <1>1, LowerKeepsDots
<1> HIDE DEF l
<1>3. SelectionDomain(s) = TrimPrefix(l, Dot)
  BY <1>1, LowerAfterTrim DEF SelectionDomain, l, t
<1>4. TrimPrefix(TrimSuffix(l, Dot), Dot) = TrimSuffix(TrimPrefix(l, Dot), Dot)
  BY <1>2, TrimBothEnds
<1> QED
  BY <1>3, <1>4 DEF FilterDomain, Filtered, l, t

LEMMA FilteredNothing == Filtered(<<>>) = <<>>
<1> DEFINE e == <<>>
<1>1. e \in Seq(Char) /\ Len(e) = 0
  BY EmptySeq
<1>2. TrimSuffix(e, Dot) = IF Len(e) > 0 /\ e[Len(e)] = "." THEN SubSeq(e, 1, Len(e) - 1) ELSE e
  <2> HIDE DEF e
  <2> QED
    BY <1>1, TrimLast
<1>3. TrimSuffix(e, Dot) = e
  BY <1>1, <1>2
<1>4. ~IsPrefix(Wildcard, e)
  BY DEF IsPrefix, Wildcard
<1>5. TrimPrefix(e, Wildcard) = e
  BY <1>4 DEF TrimPrefix
<1> QED
  BY <1>3, <1>5 DEF Filtered

LEMMA FilterIs ==
    ASSUME NEW D, \A s \in D : s \in Seq(Char)
    PROVE  Filter(D) = {Filtered(t) : t \in Selection(D)} \ {<<>>}
<1>1. ASSUME NEW x \in Filter(D) PROVE x \in {Filtered(t) : t \in Selection(D)} \ {<<>>}
  <2>1. PICK s \in D : x = FilterDomain(s)
    BY <1>1 DEF Filter
  <2>2. x # <<>> /\ x = Filtered(SelectionDomain(s))
    BY <1>1, <2>1, FilterOfSelection DEF Filter
  <2>3. SelectionDomain(s) # <<>>
    BY <2>2, FilteredNothing
  <2>4. SelectionDomain(s) \in Selection(D)
    BY <2>1, <2>3 DEF Selection
  <2> QED
    BY <2>2, <2>4
<1>2. ASSUME NEW x \in {Filtered(t) : t \in Selection(D)} \ {<<>>} PROVE x \in Filter(D)
  <2>1. PICK t \in Selection(D) : x = Filtered(t)
    BY <1>2
  <2>2. PICK s \in D : t = SelectionDomain(s)
    BY <2>1 DEF Selection
  <2>3. x = FilterDomain(s) /\ x # <<>>
    BY <1>2, <2>1, <2>2, FilterOfSelection
  <2> QED
    BY <2>2, <2>3 DEF Filter
<1> QED
  BY <1>1, <1>2

\* Options with the same selection hash make the same filter: loadScrapeProgress
\* (runner.go) resumes a state file only under the filter it was written with, whatever
\* the options and however they are written.
THEOREM BindingDetermines == (question \in DomainQuestions) => BindingDeterminesFilter
<1> SUFFICES ASSUME question \in DomainQuestions, NEW others \in OptionSets,
                    Selection(question.options) = Selection(others)
             PROVE  Filter(question.options) = Filter(others)
  BY DEF BindingDeterminesFilter
<1>1. question.options \in OptionSets
  BY DEF DomainQuestions
<1>2. /\ \A s \in question.options : s \in Seq(Char)
      /\ \A s \in others : s \in Seq(Char)
  BY <1>1, AlgorithmConstants
<1>3. /\ Filter(question.options) = {Filtered(t) : t \in Selection(question.options)} \ {<<>>}
      /\ Filter(others) = {Filtered(t) : t \in Selection(others)} \ {<<>>}
  BY <1>2, FilterIs
<1> QED
  BY <1>3

-----------------------------------------------------------------------------
(* The domains an option selects.                                          *)

\* IsPrefix and IsSuffix, and what is left of a string behind an index, character by
\* character.
LEMMA PrefixIs ==
    ASSUME NEW p \in Seq(Char), NEW s \in Seq(Char)
    PROVE  IsPrefix(p, s) <=> /\ Len(p) <= Len(s)
                              /\ \A i \in 1 .. Len(p) : s[i] = p[i]
<1> DEFINE one == 1
           n == Len(p)
           x == SubSeq(p, one, n)
           y == SubSeq(s, one, n)
<1>1. n \in Nat /\ Len(s) \in Nat /\ one = 1
  BY LenProperties
<1>2. IsPrefix(p, s) <=> n <= Len(s) /\ x = y
  BY DEF IsPrefix
<1> HIDE DEF one
<1>3. ASSUME n <= Len(s)
      PROVE  x = y <=> \A i \in 1 .. n : s[i] = p[i]
  <2>1. one \in 1 .. (Len(p) + 1) /\ n \in 0 .. Len(p) /\ one \in 1 .. (Len(s) + 1)
        /\ n \in 0 .. Len(s)
    BY <1>1, <1>3
  <2> HIDE DEF n
  <2>2. /\ x \in Seq(Char) /\ Len(x) = IF one <= n THEN (n - one) + 1 ELSE 0
        /\ \A i \in 1 .. ((n - one) + 1) : x[i] = p[(one + i) - 1]
        /\ y \in Seq(Char) /\ Len(y) = IF one <= n THEN (n - one) + 1 ELSE 0
        /\ \A i \in 1 .. ((n - one) + 1) : y[i] = s[(one + i) - 1]
    BY <2>1, Part
  <2> HIDE DEF x, y
  <2>3. /\ Len(x) = n /\ Len(y) = n
        /\ \A i \in 1 .. n : x[i] = p[i] /\ y[i] = s[i]
    <3>1. (n - one) + 1 = n /\ \A i \in 1 .. n : (one + i) - 1 = i
      BY <1>1
    <3> QED
      BY <1>1, <2>2, <3>1
  <2>4. (\A i \in 1 .. Len(x) : x[i] = y[i]) => x = y
    BY <2>2, <2>3, SeqEqual
  <2> QED
    BY <2>3, <2>4
<1> QED
  BY <1>2, <1>3

LEMMA ReverseIs ==
    ASSUME NEW s \in Seq(Char)
    PROVE  /\ Reverse(s) \in Seq(Char) /\ Len(Reverse(s)) = Len(s)
           /\ \A i \in 1 .. Len(s) : Reverse(s)[i] = s[(Len(s) - i) + 1]
<1> DEFINE r == Reverse(s)
           n == Len(s)
<1>1. n \in Nat
  BY LenProperties
<1>2. r = [i \in 1 .. n |-> s[(n - i) + 1]]
  BY DEF Reverse
<1>3. \A i \in 1 .. n : (n - i) + 1 \in 1 .. n
  BY <1>1
<1>4. \A i \in 1 .. n : s[(n - i) + 1] \in Char
  BY <1>3, ElementOfSeq
<1> HIDE DEF r, n
<1>5. r \in [1 .. n -> Char]
  BY <1>2, <1>4
<1>6. r \in Seq(Char) /\ Len(r) = n
  BY <1>1, <1>5
<1> QED
  BY <1>2, <1>6 DEF r, n

LEMMA SuffixIs ==
    ASSUME NEW p \in Seq(Char), NEW s \in Seq(Char)
    PROVE  IsSuffix(p, s) <=> /\ Len(p) <= Len(s)
                              /\ \A i \in 1 .. Len(p) : s[(Len(s) - Len(p)) + i] = p[i]
<1> DEFINE n == Len(p)
           m == Len(s)
           x == Reverse(p)
           y == Reverse(s)
<1>1. /\ x \in Seq(Char) /\ Len(x) = n /\ \A i \in 1 .. n : x[i] = p[(n - i) + 1]
      /\ y \in Seq(Char) /\ Len(y) = m /\ \A i \in 1 .. m : y[i] = s[(m - i) + 1]
      /\ n \in Nat /\ m \in Nat
  BY ReverseIs, LenProperties
<1>2. IsSuffix(p, s) <=> IsPrefix(x, y)
  BY DEF IsSuffix
<1> HIDE DEF n, m, x, y
<1>3. IsPrefix(x, y) <=> n <= m /\ \A i \in 1 .. n : y[i] = x[i]
  BY <1>1, PrefixIs
<1>4. ASSUME n <= m
      PROVE  (\A i \in 1 .. n : y[i] = x[i]) <=> \A i \in 1 .. n : s[(m - n) + i] = p[i]
  <2>1. ASSUME \A i \in 1 .. n : y[i] = x[i], NEW i \in 1 .. n
        PROVE  s[(m - n) + i] = p[i]
    <3> DEFINE j == (n - i) + 1
    <3>1. j \in 1 .. n /\ j \in 1 .. m /\ (n - j) + 1 = i /\ (m - j) + 1 = (m - n) + i
      BY <1>1, <1>4
    <3> HIDE DEF j
    <3> QED
      BY <1>1, <2>1, <3>1
  <2>2. ASSUME \A i \in 1 .. n : s[(m - n) + i] = p[i], NEW i \in 1 .. n
        PROVE  y[i] = x[i]
    <3> DEFINE j == (n - i) + 1
    <3>1. j \in 1 .. n /\ i \in 1 .. m /\ (m - i) + 1 = (m - n) + j
      BY <1>1, <1>4
    <3>2. s[(m - n) + j] = p[j]
      BY <2>2, <3>1
    <3>3. y[i] = s[(m - i) + 1] /\ x[i] = p[j]
      BY <1>1, <3>1
    <3> QED
      BY <3>1, <3>2, <3>3
  <2> QED
    BY <2>1, <2>2
<1> QED
  BY <1>2, <1>3, <1>4 DEF n, m

\* What is left of a string behind one of its places.
LEMMA TailIs ==
    ASSUME NEW s \in Seq(Char), NEW j \in 0 .. Len(s)
    PROVE  /\ SubSeq(s, j + 1, Len(s)) \in Seq(Char)
           /\ Len(SubSeq(s, j + 1, Len(s))) = Len(s) - j
           /\ \A i \in 1 .. (Len(s) - j) : SubSeq(s, j + 1, Len(s))[i] = s[j + i]
<1> DEFINE m == j + 1
           n == Len(s)
           t == SubSeq(s, m, n)
<1>1. n \in Nat /\ m \in 1 .. (n + 1) /\ n \in 0 .. n /\ j = m - 1
  BY LenProperties
<1> HIDE DEF m
<1>2. /\ t \in Seq(Char) /\ Len(t) = IF m <= n THEN (n - m) + 1 ELSE 0
      /\ \A i \in 1 .. ((n - m) + 1) : t[i] = s[(m + i) - 1]
  BY <1>1, Part
<1> HIDE DEF n, t
<1>3. Len(t) = n - j
  BY <1>1, <1>2
<1>4. ASSUME NEW i \in 1 .. (n - j) PROVE t[i] = s[j + i]
  <2>1. i \in 1 .. ((n - m) + 1) /\ (m + i) - 1 = j + i
    BY <1>1
  <2> QED
    BY <1>2, <2>1
<1> QED
  BY <1>2, <1>3, <1>4 DEF m, n, t

\* A string is left behind a place if it is as long and has the same characters.
LEMMA TailEquals ==
    ASSUME NEW s \in Seq(Char), NEW j \in 0 .. Len(s), NEW d \in Seq(Char)
    PROVE  SubSeq(s, j + 1, Len(s)) = d
             <=> Len(s) = j + Len(d) /\ \A i \in 1 .. Len(d) : s[j + i] = d[i]
<1> DEFINE t == SubSeq(s, j + 1, Len(s))
           n == Len(s)
           k == Len(d)
<1>1. /\ t \in Seq(Char) /\ Len(t) = n - j /\ \A i \in 1 .. (n - j) : t[i] = s[j + i]
      /\ n \in Nat /\ k \in Nat /\ j \in Int
  BY TailIs, LenProperties
<1> HIDE DEF t, n
<1>2. ASSUME t = d PROVE n = j + k /\ \A i \in 1 .. k : s[j + i] = d[i]
  <2>1. n - j = k
    BY <1>1, <1>2
  <2> QED
    BY <1>1, <1>2, <2>1
<1>3. ASSUME n = j + k, \A i \in 1 .. k : s[j + i] = d[i] PROVE t = d
  <2>1. n - j = k
    BY <1>1, <1>3
  <2>2. Len(t) = Len(d) /\ \A i \in 1 .. Len(t) : t[i] = d[i]
    BY <1>1, <1>3, <2>1
  <2> QED
    BY <1>1, <2>2, SeqEqual
<1> QED
  BY <1>2, <1>3 DEF t, n

\* Two strings, one behind the other.
LEMMA JoinIs ==
    ASSUME NEW s \in Seq(Char), NEW t \in Seq(Char)
    PROVE  /\ s \o t \in Seq(Char) /\ Len(s \o t) = Len(s) + Len(t)
           /\ Len(s) \in Nat /\ Len(t) \in Nat
           /\ \A i \in 1 .. Len(s) : (s \o t)[i] = s[i]
           /\ \A i \in 1 .. Len(t) : (s \o t)[Len(s) + i] = t[i]
<1> DEFINE n == Len(s)
           m == Len(t)
<1>1. /\ s \o t \in Seq(Char) /\ Len(s \o t) = n + m /\ n \in Nat /\ m \in Nat
      /\ \A i \in 1 .. (n + m) : (s \o t)[i] = IF i <= n THEN s[i] ELSE t[i - n]
  BY LenProperties, ConcatProperties
<1> HIDE DEF n, m
<1>2. ASSUME NEW i \in 1 .. n PROVE (s \o t)[i] = s[i]
  <2>1. i \in 1 .. (n + m) /\ i <= n
    BY <1>1
  <2> QED
    BY <1>1, <2>1
<1>3. ASSUME NEW i \in 1 .. m PROVE (s \o t)[n + i] = t[i]
  <2>1. n + i \in 1 .. (n + m) /\ ~(n + i <= n) /\ (n + i) - n = i
    BY <1>1
  <2> QED
    BY <1>1, <2>1
<1> QED
  BY <1>1, <1>2, <1>3 DEF n, m

\* matchesDomain: the name ends with a dot and the domain.
LEMMA DotSuffix ==
    ASSUME NEW d \in Seq(Char), NEW s \in Seq(Char)
    PROVE  IsSuffix(Dot \o d, s)
             <=> \E j \in 1 .. Len(s) : s[j] = "." /\ SubSeq(s, j + 1, Len(s)) = d
<1> DEFINE p == Dot \o d
           n == Len(s)
           k == Len(d)
<1>1. Dot \in Seq(Char) /\ Len(Dot) = 1 /\ Dot[1] = "."
  <2>1. Dot \in Seq(Char) /\ Len(Dot) = 1 /\ Dot = <<".">>
    BY DotIs
  <2> QED
    BY <2>1
<1>2. /\ p \in Seq(Char) /\ Len(p) = 1 + k /\ k \in Nat /\ n \in Nat
      /\ p[1] = "." /\ \A i \in 1 .. k : p[1 + i] = d[i]
  <2>1. /\ p \in Seq(Char) /\ Len(p) = Len(Dot) + k /\ k \in Nat
        /\ \A i \in 1 .. Len(Dot) : p[i] = Dot[i]
        /\ \A i \in 1 .. k : p[Len(Dot) + i] = d[i]
    BY <1>1, JoinIs
  <2> HIDE DEF p
  <2>2. 1 \in 1 .. Len(Dot)
    BY <1>1
  <2> QED
    BY <1>1, <2>1, <2>2, LenProperties
<1> HIDE DEF p
<1>3. IsSuffix(p, s) <=> 1 + k <= n /\ \A i \in 1 .. (1 + k) : s[(n - (1 + k)) + i] = p[i]
  <2> DEFINE l == Len(p)
  <2>1. IsSuffix(p, s) <=> l <= n /\ \A i \in 1 .. l : s[(n - l) + i] = p[i]
    BY <1>2, SuffixIs
  <2>2. l = 1 + k
    BY <1>2
  <2> HIDE DEF l
  <2> QED
    BY <2>1, <2>2
<1>4. \A j \in 1 .. n : SubSeq(s, j + 1, n) = d
                          <=> n = j + k /\ \A i \in 1 .. k : s[j + i] = d[i]
  <2> TAKE j \in 1 .. n
  <2>1. j \in 0 .. Len(s)
    BY <1>2
  <2> QED
    BY <2>1, TailEquals
<1> HIDE DEF n, k
<1>5. ASSUME IsSuffix(p, s)
      PROVE  \E j \in 1 .. n : s[j] = "." /\ SubSeq(s, j + 1, n) = d
  <2> DEFINE j == n - k
  <2>1. j \in 1 .. n /\ n = j + k /\ (n - (1 + k)) + 1 = j /\ 1 \in 1 .. (1 + k)
    BY <1>2, <1>3, <1>5
  <2>2. s[j] = "."
    BY <1>2, <1>3, <1>5, <2>1
  <2>3. ASSUME NEW i \in 1 .. k PROVE s[j + i] = d[i]
    <3>1. 1 + i \in 1 .. (1 + k) /\ (n - (1 + k)) + (1 + i) = j + i
      BY <1>2, <2>1
    <3> QED
      BY <1>2, <1>3, <1>5, <3>1
  <2> HIDE DEF j
  <2> QED
    BY <1>4, <2>1, <2>2, <2>3
<1>6. ASSUME NEW j \in 1 .. n, s[j] = ".", SubSeq(s, j + 1, n) = d
      PROVE  IsSuffix(p, s)
  <2>1. n = j + k /\ \A i \in 1 .. k : s[j + i] = d[i]
    BY <1>4, <1>6
  <2>2. 1 + k <= n
    BY <1>2, <2>1
  <2>3. ASSUME NEW i \in 1 .. (1 + k) PROVE s[(n - (1 + k)) + i] = p[i]
    <3>1. CASE i = 1
      <4>1. (n - (1 + k)) + i = j
        BY <1>2, <2>1, <3>1
      <4> QED
        BY <1>2, <1>6, <3>1, <4>1
    <3>2. CASE i # 1
      <4> DEFINE l == i - 1
      <4>1. l \in 1 .. k /\ (n - (1 + k)) + i = j + l /\ i = 1 + l
        BY <1>2, <2>1, <3>2
      <4> HIDE DEF l
      <4> QED
        BY <1>2, <2>1, <4>1
    <3> QED
      BY <3>1, <3>2
  <2> QED
    BY <1>3, <2>2, <2>3
<1> QED
  BY <1>5, <1>6 DEF p, n

\* The domains of a name are itself and what it has behind its dots.
LEMMA BelongsIs ==
    ASSUME NEW d \in Seq(Char), NEW s \in Seq(Char)
    PROVE  d \in DomainsOf(s) <=> s = d \/ IsSuffix(Dot \o d, s)
<1> DEFINE rest(i) == SubSeq(s, i + 1, Len(s))
<1>1. DOMAIN s = 1 .. Len(s)
  BY LenProperties
<1>2. rest(0) = s
  <2>1. 0 + 1 = 1
    OBVIOUS
  <2> QED
    BY <2>1, SubSeqFull
<1>3. DomainsOf(s) = {rest(i) : i \in {0} \cup {j \in 1 .. Len(s) : s[j] = "."}}
  BY <1>1 DEF DomainsOf
<1>4. IsSuffix(Dot \o d, s) <=> \E j \in 1 .. Len(s) : s[j] = "." /\ rest(j) = d
  BY DotSuffix
<1> HIDE DEF rest
<1> QED
  BY <1>2, <1>3, <1>4

\* A wildcard is an asterisk and a dot.
LEMMA WildcardIs ==
    /\ Wildcard \in Seq(Char) /\ Len(Wildcard) = 2
    /\ Wildcard[1] = "*" /\ Wildcard[2] = "."
<1>1. "*" \in Char /\ "." \in Char
  BY CharConstants
<1>2. \A x, y \in Char : <<x, y>> \in Seq(Char) /\ Len(<<x, y>>) = 2
                         /\ <<x, y>>[1] = x /\ <<x, y>>[2] = y
  OBVIOUS
<1>3. Wildcard = <<"*", ".">>
  BY DEF Wildcard
<1>4. /\ <<"*", ".">> \in Seq(Char) /\ Len(<<"*", ".">>) = 2
      /\ <<"*", ".">>[1] = "*" /\ <<"*", ".">>[2] = "."
  BY <1>1, <1>2
<1> QED
  BY <1>3, <1>4, Zenon

\* A wildcard in front of a name changes nothing: what the suffix rule and the rule for
\* wildcards allow is a domain of the rest.
LEMMA MatchesIs ==
    ASSUME NEW name \in Seq(Char), NEW d \in Seq(Char), Len(d) > 0, d[1] # "*"
    PROVE  MatchesDomain(name, d) <=> d \in DomainsOf(TrimPrefix(name, Wildcard))
<1> DEFINE base == TrimPrefix(name, Wildcard)
           n == Len(name)
<1>1. n \in Nat /\ Wildcard \in Seq(Char) /\ Len(Wildcard) = 2
      /\ Wildcard[1] = "*" /\ Wildcard[2] = "."
  BY WildcardIs, LenProperties
<1>2. CASE ~IsPrefix(Wildcard, name)
  <2>1. base = name
    BY <1>2 DEF TrimPrefix
  <2>2. MatchesDomain(name, d) <=> name = d \/ IsSuffix(Dot \o d, name)
    BY <1>2 DEF MatchesDomain
  <2> QED
    BY <2>1, <2>2, BelongsIs
<1>3. CASE IsPrefix(Wildcard, name)
  <2>1. 2 <= n /\ name[1] = "*"
    <3>1. Len(Wildcard) <= n /\ \A i \in 1 .. Len(Wildcard) : name[i] = Wildcard[i]
      BY <1>1, <1>3, PrefixIs
    <3>2. 1 \in 1 .. Len(Wildcard)
      BY <1>1
    <3>3. name[1] = Wildcard[1] /\ 2 <= n
      BY <1>1, <3>1, <3>2
    <3> QED
      BY <1>1, <3>3
  <2> DEFINE two == 2
  <2>2. base = SubSeq(name, two + 1, n)
    <3>1. Len(Wildcard) + 1 = two + 1
      BY <1>1
    <3> QED
      BY <1>3, <3>1 DEF TrimPrefix
  <2>3. two \in 0 .. n /\ two = 2
    BY <1>1, <2>1
  <2> HIDE DEF two
  <2>4. /\ base \in Seq(Char) /\ Len(base) = n - two
        /\ \A i \in 1 .. (n - two) : base[i] = name[two + i]
    BY <2>2, <2>3, TailIs
  <2>5. MatchesDomain(name, d)
          <=> \/ name = d \/ IsSuffix(Dot \o d, name)
              \/ base = d \/ IsSuffix(Dot \o d, base)
    BY <1>3 DEF MatchesDomain
  <2>6. name # d
    BY <2>1
  <2>7. IsSuffix(Dot \o d, name)
          <=> \E j \in 1 .. n : name[j] = "." /\ SubSeq(name, j + 1, n) = d
    BY DotSuffix
  <2> HIDE DEF base
  <2>8. ASSUME IsSuffix(Dot \o d, name) PROVE base = d \/ IsSuffix(Dot \o d, base)
    <3>1. PICK j \in 1 .. n : name[j] = "." /\ SubSeq(name, j + 1, n) = d
      BY <2>7, <2>8
    <3>2. j # 1
      <4>1. "*" # "."
        OBVIOUS
      <4> QED
        BY <2>1, <3>1, <4>1
    <3>3. CASE j = two
      BY <2>2, <3>1, <3>3 DEF base
    <3>4. CASE j # two
      <4> DEFINE k == j - two
                 m == Len(base)
      <4>1. /\ k \in 1 .. m /\ k \in 0 .. m /\ two + k = j /\ k \in 1 .. (n - two)
            /\ j \in 0 .. n /\ m = n - two
        BY <1>1, <2>3, <2>4, <3>2, <3>4
      <4>2. n = j + Len(d) /\ \A i \in 1 .. Len(d) : name[j + i] = d[i]
        BY <3>1, <4>1, TailEquals
      <4>3. Len(d) \in Nat
        BY LenProperties
      <4> HIDE DEF k
      <4>4. base[k] = "."
        BY <2>4, <3>1, <4>1
      <4>5. m = k + Len(d)
        <5> DEFINE l == Len(d)
        <5>1. n = j + l /\ l \in Nat /\ m = n - two /\ two + k = j /\ k \in 1 .. m
          BY <4>1, <4>2, <4>3
        <5> HIDE DEF l, m, n
        <5> QED
          BY <1>1, <2>3, <5>1 DEF l
      <4>6. ASSUME NEW i \in 1 .. Len(d) PROVE base[k + i] = d[i]
        <5>1. k + i \in 1 .. (n - two) /\ two + (k + i) = j + i
          BY <1>1, <2>3, <4>1, <4>3, <4>5
        <5> QED
          BY <2>4, <4>2, <5>1
      <4>7. SubSeq(base, k + 1, Len(base)) = d
        BY <2>4, <4>1, <4>5, <4>6, TailEquals
      <4>8. IsSuffix(Dot \o d, base)
        BY <2>4, <4>1, <4>4, <4>7, DotSuffix
      <4> QED
        BY <4>8
    <3> QED
      BY <3>3, <3>4
  <2>9. MatchesDomain(name, d) <=> base = d \/ IsSuffix(Dot \o d, base)
    BY <2>5, <2>6, <2>8
  <2>10. d \in DomainsOf(base) <=> base = d \/ IsSuffix(Dot \o d, base)
    BY <2>4, BelongsIs
  <2> QED
    BY <2>9, <2>10 DEF base
<1> QED
  BY <1>2, <1>3

\* strings.TrimPrefix cuts off what is there, and nothing else.
LEMMA TrimOff ==
    ASSUME NEW p \in Seq(Char), NEW s \in Seq(Char)
    PROVE  TrimPrefix(p \o s, p) = s
<1> DEFINE t == p \o s
           k == Len(p)
<1>1. /\ t \in Seq(Char) /\ Len(t) = k + Len(s) /\ k \in Nat /\ Len(s) \in Nat
      /\ \A i \in 1 .. k : t[i] = p[i]
      /\ \A i \in 1 .. Len(s) : t[k + i] = s[i]
  BY JoinIs
<1> HIDE DEF t
<1>2. k <= Len(t)
  BY <1>1
<1>3. IsPrefix(p, t)
  BY <1>1, <1>2, PrefixIs
<1>4. k \in 0 .. Len(t)
  BY <1>1, <1>2
<1> HIDE DEF k
<1>5. SubSeq(t, k + 1, Len(t)) = s
  BY <1>1, <1>4, TailEquals
<1> QED
  BY <1>3, <1>5 DEF TrimPrefix, t, k

\* Nothing is cut off a string that begins with another character.
LEMMA TrimNothing ==
    ASSUME NEW p \in Seq(Char), NEW s \in Seq(Char), Len(p) > 0, s[1] # p[1]
    PROVE  TrimPrefix(s, p) = s
<1>1. 1 \in 1 .. Len(p)
  BY LenProperties
<1>2. ~IsPrefix(p, s)
  BY <1>1, PrefixIs
<1> QED
  BY <1>2 DEF TrimPrefix

\* The dot of the root is cut off, if it is there.
LEMMA TrimRoot ==
    ASSUME NEW s \in Seq(Char), Len(s) > 0, s[Len(s)] # ".",
           NEW t \in {s, s \o Dot}
    PROVE  TrimSuffix(t, Dot) = s
<1> DEFINE n == Len(s)
<1>1. n \in Nat /\ Dot \in Seq(Char) /\ Len(Dot) = 1 /\ Dot[1] = "."
  <2>1. Dot \in Seq(Char) /\ Len(Dot) = 1 /\ Dot = <<".">>
    BY DotIs
  <2> QED
    BY <2>1, LenProperties
<1>2. CASE t = s
  BY <1>2, TrimLast
<1>3. CASE t = s \o Dot
  <2>1. /\ t \in Seq(Char) /\ Len(t) = n + Len(Dot)
        /\ \A i \in 1 .. n : t[i] = s[i]
        /\ \A i \in 1 .. Len(Dot) : t[n + i] = Dot[i]
    BY <1>1, <1>3, JoinIs
  <2>2. 1 \in 1 .. Len(Dot)
    BY <1>1
  <2>3. Len(t) = n + 1 /\ t[n + 1] = "." /\ Len(t) > 0 /\ Len(t) - 1 = n
    BY <1>1, <2>1, <2>2
  <2> DEFINE x == SubSeq(t, 1, Len(t) - 1)
  <2>4. TrimSuffix(t, Dot) = x
    BY <2>1, <2>3, TrimLast
  <2>5. x \in Seq(Char) /\ Len(x) = Len(t) - 1 /\ \A i \in 1 .. (Len(t) - 1) : x[i] = t[i]
    BY <2>1, <2>3, AllButLast
  <2> HIDE DEF x
  <2>6. Len(x) = Len(s) /\ \A i \in 1 .. Len(x) : x[i] = s[i]
    BY <2>1, <2>3, <2>5
  <2>7. x = s
    BY <2>5, <2>6, SeqEqual
  <2> QED
    BY <2>4, <2>7
<1> QED
  BY <1>2, <1>3

\* Lower case, character by character.
LEMMA LowerOf ==
    ASSUME NEW s \in Seq(Char)
    PROVE  /\ Lower(s) \in Seq(Char) /\ Len(Lower(s)) = Len(s)
           /\ \A i \in 1 .. Len(s) :
                /\ Lower(s)[i] = IF s[i] \in DOMAIN Upper THEN Upper[s[i]] ELSE s[i]
                /\ s[i] \in {"*", "."} => Lower(s)[i] = s[i]
                /\ Lower(s)[i] \in {" ", "*", "."} => s[i] = Lower(s)[i]
<1>1. Lower(s) \in Seq(Char) /\ Len(Lower(s)) = Len(s)
  BY LowerKeepsDots
<1>2. Len(s) \in Nat /\ DOMAIN s = 1 .. Len(s) /\ \A i \in 1 .. Len(s) : s[i] \in Char
  BY LenProperties, ElementOfSeq
<1>3. \A i \in 1 .. Len(s) :
         Lower(s)[i] = IF s[i] \in DOMAIN Upper THEN Upper[s[i]] ELSE s[i]
  BY <1>2 DEF Lower
<1>4. \A c \in DOMAIN Upper : c \notin {" ", "*", "."} /\ Upper[c] \notin {" ", "*", "."}
  BY CharConstants
<1> QED
  BY <1>1, <1>3, <1>4

\* Strings in lower case, one behind the other.
LEMMA LowerJoined ==
    ASSUME NEW s \in Seq(Char), NEW t \in Seq(Char)
    PROVE  Lower(s \o t) = Lower(s) \o Lower(t)
<1> DEFINE w == s \o t
           u == Lower(s)
           v == Lower(t)
           x == Lower(w)
           y == u \o v
           low(c) == IF c \in DOMAIN Upper THEN Upper[c] ELSE c
<1>1. /\ w \in Seq(Char) /\ Len(w) = Len(s) + Len(t)
      /\ \A i \in 1 .. Len(s) : w[i] = s[i]
      /\ \A i \in 1 .. Len(t) : w[Len(s) + i] = t[i]
  BY JoinIs
<1>2. Len(s) \in Nat /\ Len(t) \in Nat
  BY LenProperties
<1> HIDE DEF w
<1>3. x \in Seq(Char) /\ Len(x) = Len(w) /\ \A i \in 1 .. Len(w) : x[i] = low(w[i])
  BY <1>1, LowerOf
<1>4. /\ u \in Seq(Char) /\ Len(u) = Len(s) /\ \A i \in 1 .. Len(s) : u[i] = low(s[i])
      /\ v \in Seq(Char) /\ Len(v) = Len(t) /\ \A i \in 1 .. Len(t) : v[i] = low(t[i])
  BY LowerOf
<1> HIDE DEF low, u, v, x
<1>5. /\ y \in Seq(Char) /\ Len(y) = Len(u) + Len(v)
      /\ \A i \in 1 .. Len(u) : y[i] = u[i]
      /\ \A i \in 1 .. Len(v) : y[Len(u) + i] = v[i]
  BY <1>4, JoinIs
<1> HIDE DEF y
<1> DEFINE n == Len(s)
           m == Len(t)
<1>6. n \in Nat /\ m \in Nat /\ Len(x) = n + m /\ Len(y) = n + m /\ Len(w) = n + m
  BY <1>1, <1>2, <1>3, <1>4, <1>5
<1>7. /\ \A i \in 1 .. n : w[i] = s[i] /\ u[i] = low(s[i]) /\ y[i] = u[i]
      /\ \A i \in 1 .. m : w[n + i] = t[i] /\ v[i] = low(t[i]) /\ y[n + i] = v[i]
  BY <1>1, <1>4, <1>5
<1>8. \A i \in 1 .. (n + m) : x[i] = low(w[i])
  BY <1>3, <1>6
<1> HIDE DEF n, m
<1>9. ASSUME NEW i \in 1 .. (n + m) PROVE x[i] = y[i]
  <2>1. x[i] = low(w[i])
    BY <1>8
  <2>2. i \in 1 .. n \/ \E j \in 1 .. m : i = n + j
    <3> DEFINE j == i - n
    <3>1. i \in 1 .. n \/ (j \in 1 .. m /\ i = n + j)
      BY <1>6
    <3> HIDE DEF j
    <3> QED
      BY <3>1
  <2> QED
    BY <1>7, <2>1, <2>2
<1>10. x = y
  BY <1>3, <1>5, <1>6, <1>9, SeqEqual
<1> QED
  BY <1>10 DEF x, y, u, v, w

\* Dots and wildcards are neither capital nor small.
LEMMA LowerMarks ==
    ASSUME NEW s \in {<<>>, Dot, Wildcard}
    PROVE  Lower(s) = s /\ s \in Seq(Char)
<1>1. s \in Seq(Char) /\ \A i \in 1 .. Len(s) : s[i] \in {"*", "."}
  <2>1. CASE s = <<>>
    <3>1. s \in Seq(Char) /\ Len(s) = 0
      BY <2>1, EmptySeq
    <3> QED
      BY <3>1
  <2>2. CASE s = Dot
    <3>1. Dot \in Seq(Char) /\ Len(Dot) = 1 /\ Dot = <<".">>
      BY DotIs
    <3>2. Dot[1] = "."
      BY <3>1
    <3> QED
      BY <2>2, <3>1, <3>2
  <2>3. CASE s = Wildcard
    BY <2>3, WildcardIs
  <2> QED
    BY <2>1, <2>2, <2>3
<1>2. Lower(s) \in Seq(Char) /\ Len(Lower(s)) = Len(s)
      /\ \A i \in 1 .. Len(s) : Lower(s)[i] = s[i]
  BY <1>1, LowerOf
<1>3. Lower(s) = s
  BY <1>1, <1>2, SeqEqual
<1> QED
  BY <1>1, <1>3

\* The ends of an interval.
LEMMA IntervalEnds ==
    ASSUME NEW m \in Nat, NEW n \in Nat, m <= n
    PROVE  Min(m .. n) = m /\ Max(m .. n) = n
<1>1. m \in m .. n /\ n \in m .. n /\ \A i \in m .. n : m <= i /\ i <= n
  OBVIOUS
<1>2. \A i \in m .. n : (i <= m => i = m) /\ (n <= i => i = n) /\ (i >= n => i = n)
  OBVIOUS
<1> QED
  BY <1>1, <1>2 DEF Min, Max

\* A number of blanks.
LEMMA BlanksAre ==
    ASSUME NEW n \in Nat
    PROVE  /\ Blanks(n) \in Seq(Char) /\ Len(Blanks(n)) = n
           /\ \A i \in 1 .. n : Blanks(n)[i] = " "
<1> DEFINE r == Blanks(n)
<1>1. r = [i \in 1 .. n |-> " "]
  BY DEF Blanks
<1>2. " " \in Char
  BY CharConstants
<1> HIDE DEF r
<1>3. r \in [1 .. n -> Char]
  BY <1>1, <1>2
<1>4. r \in Seq(Char) /\ Len(r) = n
  BY <1>3
<1> QED
  BY <1>1, <1>4 DEF r

\* One string between two others.
LEMMA Between ==
    ASSUME NEW x \in Seq(Char), NEW c \in Seq(Char), NEW y \in Seq(Char)
    PROVE  LET s == (x \o c) \o y
           IN  /\ s \in Seq(Char) /\ Len(s) = (Len(x) + Len(c)) + Len(y)
               /\ \A i \in 1 .. Len(x) : s[i] = x[i]
               /\ \A i \in 1 .. Len(c) : s[Len(x) + i] = c[i]
               /\ \A i \in 1 .. Len(y) : s[(Len(x) + Len(c)) + i] = y[i]
<1> DEFINE t == x \o c
           s == t \o y
<1>1. /\ t \in Seq(Char) /\ Len(t) = Len(x) + Len(c)
      /\ \A i \in 1 .. Len(x) : t[i] = x[i]
      /\ \A i \in 1 .. Len(c) : t[Len(x) + i] = c[i]
  BY JoinIs
<1> HIDE DEF t
<1>2. /\ s \in Seq(Char) /\ Len(s) = Len(t) + Len(y)
      /\ \A i \in 1 .. Len(t) : s[i] = t[i]
      /\ \A i \in 1 .. Len(y) : s[Len(t) + i] = y[i]
  BY <1>1, JoinIs
<1> HIDE DEF s
<1> DEFINE b == Len(x)
           k == Len(c)
<1>3. b \in Nat /\ k \in Nat
  BY LenProperties
<1>4. /\ \A i \in 1 .. (b + k) : s[i] = t[i]
      /\ \A i \in 1 .. b : t[i] = x[i]
      /\ \A i \in 1 .. k : t[b + i] = c[i]
  BY <1>1, <1>2
<1>5. s \in Seq(Char) /\ Len(s) = (b + k) + Len(y)
      /\ \A i \in 1 .. Len(y) : s[(b + k) + i] = y[i]
  BY <1>1, <1>2
<1> HIDE DEF b, k
<1>6. ASSUME NEW i \in 1 .. b PROVE s[i] = x[i]
  <2>1. i \in 1 .. (b + k)
    BY <1>3
  <2> QED
    BY <1>4, <2>1
<1>7. ASSUME NEW i \in 1 .. k PROVE s[b + i] = c[i]
  <2>1. b + i \in 1 .. (b + k)
    BY <1>3
  <2> QED
    BY <1>4, <2>1
<1> QED
  BY <1>5, <1>6, <1>7 DEF s, t, b, k

NoBlank(s) == \A i \in 1 .. Len(s) : s[i] # " "

\* strings.TrimSpace finds a string between its blanks.
LEMMA TrimBlanks ==
    ASSUME NEW front \in Nat, NEW behind \in Nat, NEW c \in Seq(Char), Len(c) > 0, NoBlank(c)
    PROVE  TrimSpace((Blanks(front) \o c) \o Blanks(behind)) = c
<1> DEFINE x == Blanks(front)
           y == Blanks(behind)
           s == (x \o c) \o y
           K == {i \in DOMAIN s : s[i] # " "}
           b == Len(x)
           k == Len(c)
           a == Len(y)
<1>1. /\ x \in Seq(Char) /\ \A i \in 1 .. b : x[i] = " "
      /\ y \in Seq(Char) /\ \A i \in 1 .. a : y[i] = " "
  BY BlanksAre
<1>2. b \in Nat /\ k \in Nat /\ a \in Nat /\ k > 0
  BY <1>1, LenProperties
<1> HIDE DEF x, y
<1>3. /\ s \in Seq(Char) /\ Len(s) = (b + k) + a
      /\ \A i \in 1 .. b : s[i] = x[i]
      /\ \A i \in 1 .. k : s[b + i] = c[i]
      /\ \A i \in 1 .. a : s[(b + k) + i] = y[i]
  BY <1>1, Between
<1>4. \A i \in 1 .. k : c[i] # " "
  BY DEF NoBlank
<1> HIDE DEF s
<1>5. DOMAIN s = 1 .. ((b + k) + a)
  BY <1>3, LenProperties
<1> DEFINE m == b + 1
           n == b + k
           e == (b + k) + a
<1>6. Len(s) = e
  BY <1>3
<1> HIDE DEF b, k, a
<1>7. /\ m \in Nat /\ n \in Nat /\ m <= n /\ m \in 1 .. (e + 1) /\ n \in 0 .. e
      /\ (n - m) + 1 = k /\ \A i \in m .. n : i \in 1 .. e
      /\ \A i \in 1 .. k : (m + i) - 1 = b + i
  BY <1>2
<1>8. \A i \in 1 .. e :
         \/ i \in 1 .. b /\ i \notin m .. n
         \/ i - b \in 1 .. k /\ i = b + (i - b) /\ i \in m .. n
         \/ i - (b + k) \in 1 .. a /\ i = (b + k) + (i - (b + k)) /\ i \notin m .. n
  BY <1>2
<1>9. ASSUME NEW i \in 1 .. e PROVE s[i] # " " <=> i \in m .. n
  <2>1. CASE i \in 1 .. b /\ i \notin m .. n
    BY <1>1, <1>3, <2>1
  <2>2. CASE i - b \in 1 .. k /\ i = b + (i - b) /\ i \in m .. n
    <3> DEFINE j == i - b
    <3>1. j \in 1 .. k /\ i = b + j
      BY <2>2
    <3> HIDE DEF j
    <3>2. s[i] = c[j]
      BY <1>3, <3>1
    <3> QED
      BY <1>4, <2>2, <3>1, <3>2
  <2>3. CASE i - (b + k) \in 1 .. a /\ i = (b + k) + (i - (b + k)) /\ i \notin m .. n
    <3> DEFINE j == i - (b + k)
    <3>1. j \in 1 .. a /\ i = (b + k) + j
      BY <2>3
    <3> HIDE DEF j
    <3>2. s[i] = y[j]
      BY <1>3, <3>1
    <3> QED
      BY <1>1, <2>3, <3>1, <3>2
  <2> QED
    BY <1>8, <2>1, <2>2, <2>3
<1> HIDE DEF m, n, e
<1>10. K = m .. n
  BY <1>5, <1>7, <1>9 DEF e
<1>11. K # {} /\ Min(K) = m /\ Max(K) = n
  <2>1. m \in m .. n
    BY <1>7
  <2>2. Min(m .. n) = m /\ Max(m .. n) = n
    BY <1>7, IntervalEnds
  <2> HIDE DEF K
  <2> QED
    BY <1>10, <2>1, <2>2
<1>12. SubSeq(s, m, n) = c
  <2> DEFINE z == SubSeq(s, m, n)
  <2>1. m \in 1 .. (Len(s) + 1) /\ n \in 0 .. Len(s)
    BY <1>6, <1>7
  <2>2. /\ z \in Seq(Char) /\ Len(z) = IF m <= n THEN (n - m) + 1 ELSE 0
        /\ \A i \in 1 .. ((n - m) + 1) : z[i] = s[(m + i) - 1]
    BY <1>3, <2>1, Part
  <2> HIDE DEF z
  <2>3. Len(z) = k
    BY <1>7, <2>2
  <2>4. ASSUME NEW i \in 1 .. k PROVE z[i] = c[i]
    <3>1. z[i] = s[(m + i) - 1]
      BY <1>7, <2>2
    <3>2. (m + i) - 1 = b + i
      BY <1>7
    <3> QED
      BY <1>3, <3>1, <3>2
  <2>5. Len(z) = Len(c) /\ \A i \in 1 .. Len(z) : z[i] = c[i]
    BY <2>3, <2>4 DEF k
  <2>6. z = c
    BY <2>2, <2>5, SeqEqual
  <2> QED
    BY <2>6 DEF z
<1>13. TrimSpace(s) = IF K = {} THEN <<>> ELSE SubSeq(s, Min(K), Max(K))
  BY DEF TrimSpace
<1> HIDE DEF K
<1>14. TrimSpace(s) = c
  BY <1>11, <1>12, <1>13
<1> QED
  BY <1>14 DEF s, x, y

\* Strings without blanks, one behind the other.
LEMMA NoBlankJoined ==
    ASSUME NEW s \in Seq(Char), NEW t \in Seq(Char), NoBlank(s), NoBlank(t)
    PROVE  /\ s \o t \in Seq(Char) /\ NoBlank(s \o t)
           /\ Len(s) > 0 \/ Len(t) > 0 => Len(s \o t) > 0
<1> DEFINE n == Len(s)
           m == Len(t)
           w == s \o t
<1>1. /\ w \in Seq(Char) /\ Len(w) = n + m
      /\ \A i \in 1 .. n : w[i] = s[i]
      /\ \A i \in 1 .. m : w[n + i] = t[i]
  BY JoinIs
<1>2. n \in Nat /\ m \in Nat
  BY LenProperties
<1>3. (\A i \in 1 .. n : s[i] # " ") /\ (\A i \in 1 .. m : t[i] # " ")
  BY DEF NoBlank
<1>4. n > 0 \/ m > 0 => n + m > 0
  <2> HIDE DEF n, m
  <2> QED
    BY <1>2
<1> HIDE DEF w, n, m
<1>5. ASSUME NEW i \in 1 .. (n + m) PROVE w[i] # " "
  <2>1. i \in 1 .. n \/ \E j \in 1 .. m : i = n + j
    <3> DEFINE j == i - n
    <3>1. i \in 1 .. n \/ (j \in 1 .. m /\ i = n + j)
      BY <1>2
    <3> HIDE DEF j
    <3> QED
      BY <3>1
  <2> QED
    BY <1>1, <1>3, <2>1
<1>6. NoBlank(w)
  BY <1>1, <1>5 DEF NoBlank
<1> QED
  BY <1>1, <1>4, <1>6 DEF w, n, m

\* Dots and wildcards are no blanks.
LEMMA NoBlankMarks ==
    ASSUME NEW s \in {<<>>, Dot, Wildcard}
    PROVE  NoBlank(s)
<1>1. CASE s = <<>>
  <2>1. Len(s) = 0
    BY <1>1, EmptySeq
  <2>2. \A i \in 1 .. 0 : FALSE
    OBVIOUS
  <2>3. \A i \in 1 .. Len(s) : s[i] # " "
    BY <2>1, <2>2
  <2> QED
    BY <2>3 DEF NoBlank
<1>2. CASE s = Dot
  <2>1. Len(Dot) = 1 /\ Dot = <<".">>
    BY DotIs
  <2>2. Dot[1] = "."
    BY <2>1
  <2>3. \A i \in 1 .. 1 : i = 1
    OBVIOUS
  <2>4. \A i \in 1 .. Len(Dot) : Dot[i] = "."
    BY <2>1, <2>2, <2>3
  <2>5. \A i \in 1 .. Len(s) : s[i] # " "
    BY <1>2, <2>4
  <2> QED
    BY <2>5 DEF NoBlank
<1>3. CASE s = Wildcard
  <2>1. Len(Wildcard) = 2 /\ \A i \in 1 .. 2 : i = 1 \/ i = 2
    BY WildcardIs
  <2> QED
    BY <1>3, <2>1, WildcardIs DEF NoBlank
<1> QED
  BY <1>1, <1>2, <1>3

\* Strings can be joined in any grouping.
LEMMA Regroup ==
    ASSUME NEW s \in Seq(Char), NEW t \in Seq(Char), NEW u \in Seq(Char)
    PROVE  (s \o t) \o u = s \o (t \o u)
BY ConcatAssociative

\* An option, taken apart the way the normalization does.
Regroups(x, dot, star, d, root) ==
    x \o dot \o star \o d \o root = x \o ((dot \o (star \o d)) \o root)

LEMMA OptionParts ==
    ASSUME NEW x \in Seq(Char), NEW dot \in Seq(Char), NEW star \in Seq(Char),
           NEW d \in Seq(Char), NEW root \in Seq(Char)
    PROVE  Regroups(x, dot, star, d, root)
<1> DEFINE xd == x \o dot
           sd == star \o d
           core == dot \o sd
<1>1. xd \in Seq(Char)
  BY JoinIs
<1>2. sd \in Seq(Char)
  BY JoinIs
<1> HIDE DEF xd, sd
<1>3. (xd \o star) \o d = xd \o (star \o d)
  BY <1>1, Regroup
<1>4. (x \o dot) \o sd = x \o (dot \o sd)
  BY <1>2, Regroup
<1>5. core \in Seq(Char)
  BY <1>2, JoinIs
<1> HIDE DEF core
<1>6. (x \o core) \o root = x \o (core \o root)
  BY <1>5, Regroup
<1>7. (x \o dot \o star \o d) \o root = x \o (core \o root)
  BY <1>3, <1>4, <1>6 DEF core, sd, xd
<1> QED
  BY <1>7 DEF core, sd, Regroups

\* A domain that no normalization changes but that of its letters.
Bare(d) == /\ d \in Seq(Char) /\ Len(d) > 0
           /\ d[1] # "." /\ d[1] # "*" /\ d[Len(d)] # "."

\* Lower case keeps such a domain as it is.
LEMMA LowerBare == ASSUME NEW d, Bare(d) PROVE Bare(Lower(d))
<1> DEFINE n == Len(d)
           low == Lower(d)
<1>1. d \in Seq(Char) /\ n > 0 /\ d[1] # "." /\ d[1] # "*" /\ d[n] # "."
  BY DEF Bare
<1>2. /\ low \in Seq(Char) /\ Len(low) = n
      /\ \A i \in 1 .. n : low[i] \in {" ", "*", "."} => d[i] = low[i]
  BY <1>1, LowerOf
<1>3. n \in Nat
  BY <1>1, LenProperties
<1> HIDE DEF n, low
<1>4. 1 \in 1 .. n /\ n \in 1 .. n
  <2>1. n > 0
    BY <1>1
  <2> QED
    BY <1>3, <2>1
<1>5. low[1] # "." /\ low[1] # "*" /\ low[n] # "."
  BY <1>1, <1>2, <1>4
<1>6. Len(low) > 0
  BY <1>1, <1>2
<1> QED
  BY <1>2, <1>5, <1>6 DEF Bare, low

\* Two strings end as the second does.
LEMMA LastOfJoined ==
    ASSUME NEW s \in Seq(Char), NEW t \in Seq(Char), Len(t) > 0
    PROVE  /\ s \o t \in Seq(Char) /\ Len(s \o t) > 0
           /\ (s \o t)[Len(s \o t)] = t[Len(t)]
<1> DEFINE n == Len(s)
           m == Len(t)
           w == s \o t
<1>1. w \in Seq(Char) /\ Len(w) = n + m /\ \A i \in 1 .. m : w[n + i] = t[i]
  BY JoinIs
<1>2. n \in Nat /\ m \in Nat /\ m > 0
  BY LenProperties
<1> HIDE DEF w, n, m
<1>3. m \in 1 .. m /\ n + m > 0
  BY <1>2
<1>4. w[n + m] = t[m]
  BY <1>1, <1>3
<1> QED
  BY <1>1, <1>3, <1>4 DEF w, n, m

\* What normalizeFilterDomain cuts off a domain.
LEMMA CutBare ==
    ASSUME NEW d, Bare(d), NEW dot \in {<<>>, Dot}, NEW star \in {<<>>, Wildcard},
           NEW root \in {<<>>, Dot}
    PROVE  TrimPrefix(TrimPrefix(TrimSuffix((dot \o (star \o d)) \o root, Dot), Dot), Wildcard)
             = d
<1> DEFINE sd == star \o d
           dsd == dot \o sd
<1>1. d \in Seq(Char) /\ Len(d) > 0 /\ d[1] # "." /\ d[1] # "*" /\ d[Len(d)] # "."
  BY DEF Bare
<1>2. dot \in Seq(Char) /\ star \in Seq(Char)
  BY LowerMarks
<1>3. sd \in Seq(Char) /\ Len(sd) > 0 /\ sd[Len(sd)] = d[Len(d)]
  BY <1>1, <1>2, LastOfJoined
<1>4. sd[1] # "."
  <2>1. CASE star = <<>>
    BY <1>1, <2>1, ConcatEmptySeq
  <2>2. CASE star = Wildcard
    <3>1. Wildcard \in Seq(Char) /\ Len(Wildcard) = 2 /\ Wildcard[1] = "*"
      BY WildcardIs
    <3>2. \A i \in 1 .. Len(Wildcard) : (Wildcard \o d)[i] = Wildcard[i]
      BY <1>1, <3>1, JoinIs
    <3>3. 1 \in 1 .. Len(Wildcard)
      BY <3>1
    <3>4. sd[1] = "*"
      BY <2>2, <3>1, <3>2, <3>3
    <3> QED
      BY <3>4
  <2> QED
    BY <2>1, <2>2
<1>5. TrimPrefix(sd, Wildcard) = d
  <2>1. CASE star = <<>>
    <3>1. sd = d
      BY <1>1, <2>1, ConcatEmptySeq
    <3>2. Wildcard \in Seq(Char) /\ Len(Wildcard) = 2 /\ Wildcard[1] = "*"
      BY WildcardIs
    <3>3. Len(Wildcard) > 0 /\ d[1] # Wildcard[1]
      BY <1>1, <3>2
    <3>4. TrimPrefix(d, Wildcard) = d
      BY <1>1, <3>2, <3>3, TrimNothing
    <3> QED
      BY <3>1, <3>4
  <2>2. CASE star = Wildcard
    BY <1>1, <1>2, <2>2, TrimOff
  <2> QED
    BY <2>1, <2>2
<1> HIDE DEF sd
<1>6. dsd \in Seq(Char) /\ Len(dsd) > 0 /\ dsd[Len(dsd)] = sd[Len(sd)]
  BY <1>2, <1>3, LastOfJoined
<1>7. TrimPrefix(dsd, Dot) = sd
  <2>1. CASE dot = <<>>
    <3>1. dsd = sd
      BY <1>3, <2>1, ConcatEmptySeq
    <3>2. TrimPrefix(sd, Dot) = sd
      BY <1>3, <1>4, TrimFirst
    <3> QED
      BY <3>1, <3>2
  <2>2. CASE dot = Dot
    BY <1>2, <1>3, <2>2, TrimOff
  <2> QED
    BY <2>1, <2>2
<1> HIDE DEF dsd
<1>8. dsd \o root \in {dsd, dsd \o Dot}
  BY <1>6, ConcatEmptySeq
<1>9. dsd[Len(dsd)] # "."
  BY <1>1, <1>3, <1>6
<1>10. TrimSuffix(dsd \o root, Dot) = dsd
  BY <1>6, <1>8, <1>9, TrimRoot
<1> QED
  BY <1>5, <1>7, <1>10 DEF dsd, sd

Optional(mark) == {<<>>, mark}

\* normalizeFilterDomain finds the domain in an option, however it is written.
LEMMA OptionIs ==
    ASSUME NEW b \in Nat, NEW a \in Nat, NEW dot \in Optional(Dot),
           NEW star \in Optional(Wildcard), NEW d, Bare(d), NoBlank(d),
           NEW root \in Optional(Dot)
    PROVE  FilterDomain(Blanks(b) \o dot \o star \o d \o root \o Blanks(a)) = Lower(d)
<1> DEFINE sd == star \o d
           dsd == dot \o sd
           core == dsd \o root
           x == Blanks(b)
           y == Blanks(a)
           lsd == star \o Lower(d)
           ldsd == dot \o lsd
<1>1. /\ dot \in Seq(Char) /\ star \in Seq(Char) /\ root \in Seq(Char)
      /\ Lower(dot) = dot /\ Lower(star) = star /\ Lower(root) = root
      /\ NoBlank(dot) /\ NoBlank(star) /\ NoBlank(root)
  BY LowerMarks, NoBlankMarks DEF Optional
<1>2. d \in Seq(Char) /\ Len(d) > 0
  BY DEF Bare
<1>3. x \in Seq(Char)
  BY BlanksAre
<1>4. x \o dot \o star \o d \o root \o y = (x \o core) \o y
  <2> HIDE DEF x, y
  <2>1. dot \in Seq(Char) /\ star \in Seq(Char) /\ root \in Seq(Char)
    BY <1>1
  <2>2. d \in Seq(Char)
    BY <1>2
  <2> HIDE DEF core, dsd, sd
  <2>3. Regroups(x, dot, star, d, root)
    BY <1>3, <2>1, <2>2, OptionParts
  <2> QED
    BY <2>3 DEF core, dsd, sd, Regroups
<1>5. sd \in Seq(Char) /\ NoBlank(sd) /\ Len(sd) > 0 /\ Lower(sd) = lsd
  BY <1>1, <1>2, NoBlankJoined, LowerJoined
<1> HIDE DEF sd, lsd
<1>6. dsd \in Seq(Char) /\ NoBlank(dsd) /\ Len(dsd) > 0 /\ Lower(dsd) = ldsd
  BY <1>1, <1>5, NoBlankJoined, LowerJoined
<1> HIDE DEF dsd, ldsd
<1>7. core \in Seq(Char) /\ NoBlank(core) /\ Len(core) > 0 /\ Lower(core) = ldsd \o root
  <2>1. root \in Seq(Char) /\ dsd \in Seq(Char)
    BY <1>1, <1>6
  <2>2. NoBlank(root) /\ NoBlank(dsd) /\ Len(dsd) > 0
    BY <1>1, <1>6
  <2>3. core \in Seq(Char) /\ NoBlank(core) /\ Len(core) > 0
    BY <2>1, <2>2, NoBlankJoined
  <2>4. Lower(core) = Lower(dsd) \o Lower(root)
    BY <2>1, LowerJoined
  <2>5. Lower(dsd) = ldsd /\ Lower(root) = root
    BY <1>1, <1>6
  <2> HIDE DEF core
  <2> QED
    BY <2>3, <2>4, <2>5
<1> HIDE DEF core
<1>8. TrimSpace((x \o core) \o y) = core
  BY <1>7, TrimBlanks
<1>9. TrimPrefix(TrimPrefix(TrimSuffix(ldsd \o root, Dot), Dot), Wildcard) = Lower(d)
  <2>1. Bare(Lower(d))
    BY LowerBare
  <2> QED
    BY <2>1, CutBare DEF ldsd, lsd, Optional
<1>10. FilterDomain((x \o core) \o y) = Lower(d)
  BY <1>7, <1>8, <1>9 DEF FilterDomain
<1> QED
  BY <1>4, <1>10

\* For every name, every domain and every way to write the option: matchesDomain selects
\* the name if it is one of the domain's, and only then.
THEOREM OptionsSelect == (question \in SelectQuestions) => SelectsSubdomains
<1> SUFFICES ASSUME question \in SelectQuestions PROVE SelectsSubdomains
  OBVIOUS
<1> DEFINE name == question.name
           d == question.domain
           low == Lower(d)
           option == Option(question)
           l == Lower(name)
<1>1. /\ name \in Seq(Char) /\ Bare(d) /\ NoBlank(d)
      /\ question.before \in Nat /\ question.after \in Nat
  <2>1. /\ question.name \in Names /\ question.domain \in DomainNames
        /\ question.before \in 0 .. MaxBlanks /\ question.after \in 0 .. MaxBlanks
    BY DEF SelectQuestions
  <2> DEFINE Letters == Char \ {" ", "*"}
  <2>2. /\ d \in Seq(Letters) /\ d # <<>> /\ d[1] # "." /\ d[Len(d)] # "."
        /\ name \in Seq(Char)
    BY <2>1, NameConstants
  <2>3. Letters \subseteq Char /\ \A c \in Letters : c # " " /\ c # "*"
    OBVIOUS
  <2> HIDE DEF d, name, Letters
  <2>4. \A i \in 1 .. Len(d) : d[i] \in Letters
    BY <2>2, ElementOfSeq
  <2>5. d \in Seq(Char)
    BY <2>2, <2>3, SeqMonotonic
  <2>6. Len(d) \in Nat \ {0}
    BY <2>2, EmptySeq
  <2>7. Len(d) > 0 /\ 1 \in 1 .. Len(d)
    BY <2>6
  <2>8. NoBlank(d) /\ d[1] # "*"
    BY <2>3, <2>4, <2>7 DEF NoBlank
  <2>9. question.before \in Nat /\ question.after \in Nat
    BY <2>1
  <2> QED
    BY <2>2, <2>5, <2>7, <2>8, <2>9 DEF Bare
<1> HIDE DEF d, name
<1>2. FilterDomain(option) = low /\ Bare(low)
  <2> DEFINE dot == IF question.dot THEN Dot ELSE <<>>
             star == IF question.star THEN Wildcard ELSE <<>>
             root == IF question.root THEN Dot ELSE <<>>
             b == question.before
             a == question.after
  <2>1. option = Blanks(b) \o dot \o star \o d \o root \o Blanks(a)
    BY DEF Option, d
  <2>2. /\ dot \in {<<>>, Dot} /\ star \in {<<>>, Wildcard} /\ root \in {<<>>, Dot}
        /\ b \in Nat /\ a \in Nat
    BY <1>1
  <2> HIDE DEF dot, star, root, option, b, a
  <2>3. FilterDomain(Blanks(b) \o dot \o star \o d \o root \o Blanks(a)) = Lower(d)
    <3>1. Bare(d) /\ NoBlank(d) /\ b \in Nat /\ a \in Nat
      BY <1>1, <2>2
    <3>2. dot \in Optional(Dot) /\ star \in Optional(Wildcard) /\ root \in Optional(Dot)
      BY <2>2 DEF Optional
    <3> HIDE DEF low
    <3> QED
      BY ONLY <3>1, <3>2, OptionIs
  <2> QED
    BY <1>1, <2>1, <2>3, LowerBare DEF low
<1> HIDE DEF option, low
<1>3. low \in Seq(Char) /\ Len(low) > 0 /\ low[1] # "*" /\ low # <<>>
  <2>1. low \in Seq(Char) /\ Len(low) > 0 /\ low[1] # "*"
    BY <1>2 DEF Bare
  <2>2. Len(<<>>) = 0
    OBVIOUS
  <2>3. low # <<>>
    BY <2>1, <2>2
  <2> QED
    BY <2>1, <2>3
<1>4. Filter({option}) = {low}
  BY <1>2, <1>3 DEF Filter
<1>5. Selected({name}, {}, {option}) <=> MatchesDomain(l, low)
  BY <1>4 DEF Selected
<1>6. l \in Seq(Char)
  BY <1>1, LowerOf
<1> HIDE DEF l
<1>7. MatchesDomain(l, low) <=> low \in DomainsOf(TrimPrefix(l, Wildcard))
  BY <1>3, <1>6, MatchesIs
<1> QED
  BY <1>5, <1>7 DEF SelectsSubdomains, low, l, option, name, d
=========================================================================
