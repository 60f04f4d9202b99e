------------------------- MODULE ContiguousProgress -------------------------
(***************************************************************************)
(* ctlog/progress.go: the tracker that turns batches finished out of order *)
(* into the contiguous prefix resume state may claim.  A call of Mark      *)
(* holds the mutex from Enter to Return; in between the loop over the Go   *)
(* map is one step per visited segment, in any order the map yields.       *)
(***************************************************************************)
EXTENDS Integers, FiniteSets

CONSTANTS Start, Limit

ASSUME TrackerBounds == Start \in Nat /\ Limit \in Nat

VARIABLES
    next,       \* p.next
    pending,    \* p.pending: segment start |-> segment end
    pc,         \* "idle": mutex free; "pass": inside the absorbing loop
    scan,       \* keys the current range over the map has not yielded yet
    advanced,   \* the flag of the current pass
    call,       \* the interval the call in progress was asked to mark
    marked,     \* history: what the completed calls have marked
    answer      \* history: what the last completed call returned

vars == <<next, pending, pc, scan, advanced, call, marked, answer>>

Indices == 0..Limit
Interval(s, e) == s .. (e - 1)
NoCall == <<0, 0>>

\* What has been asked for so far, the call in progress included.
Requested == marked \cup Interval(call[1], call[2])

-----------------------------------------------------------------------------
Init == /\ next = Start
        /\ pending = [k \in {} |-> 0]
        /\ pc = "idle"
        /\ scan = {}
        /\ advanced = FALSE
        /\ call = NoCall
        /\ marked = {}
        /\ answer = Start

\* Nothing to record: the interval is empty or already below next.
MarkNothing(s, e) ==
    /\ pc = "idle"
    /\ e <= s \/ e <= next
    /\ marked' = marked \cup Interval(s, e)
    /\ answer' = next
    /\ UNCHANGED <<next, pending, pc, scan, advanced, call>>

\* pending with segment [s, e) entered: an existing longer segment stays.
Insert(p, s, e) ==
    [k \in DOMAIN p \cup {s} |->
        IF k = s /\ (k \notin DOMAIN p \/ e > p[k]) THEN e ELSE p[k]]

\* The interval is clamped to next and recorded, then the first pass begins.
Enter(s, e) ==
    /\ pc = "idle"
    /\ s < e /\ next < e
    /\ pending' = Insert(pending, IF s < next THEN next ELSE s, e)
    /\ call' = <<s, e>>
    /\ pc' = "pass"
    /\ scan' = DOMAIN pending'
    /\ advanced' = FALSE
    /\ UNCHANGED <<next, marked, answer>>

Drop(k) == pending' = [j \in DOMAIN pending \ {k} |-> pending[j]]

\* The range statement yields k: the segment is stale, joins the prefix, or
\* lies beyond a gap and is kept.
Stale(k) == /\ pending[k] <= next
            /\ Drop(k)
            /\ UNCHANGED <<next, advanced>>

\* Mutant: a segment beyond a gap is absorbed like one that touches the prefix.
AbsorbAcrossGap(k) == /\ pending[k] > next
                      /\ next' = pending[k]
                      /\ Drop(k)
                      /\ advanced' = TRUE

Absorb(k) == /\ pending[k] > next
             /\ k <= next
             /\ next' = pending[k]
             /\ Drop(k)
             /\ advanced' = TRUE

Keep(k) == /\ pending[k] > next
           /\ k > next
           /\ UNCHANGED <<next, pending, advanced>>

Visit(k) == /\ pc = "pass"
            /\ k \in scan
            /\ scan' = scan \ {k}
            /\ Stale(k) \/ Absorb(k) \/ Keep(k)
            /\ UNCHANGED <<pc, call, marked, answer>>

\* Mutant: the flag of the pass is not reset.
NextPassKeepsFlag == /\ pc = "pass"
                     /\ scan = {}
                     /\ advanced
                     /\ scan' = DOMAIN pending
                     /\ UNCHANGED <<next, pending, pc, advanced, call, marked, answer>>

\* The pass moved next, so an earlier segment may touch it now: once more.
NextPass == /\ pc = "pass"
            /\ scan = {}
            /\ advanced
            /\ scan' = DOMAIN pending
            /\ advanced' = FALSE
            /\ UNCHANGED <<next, pending, pc, call, marked, answer>>

\* Mutant: one pass over the map is taken to be enough.
ReturnAfterOnePass == /\ pc = "pass"
                      /\ scan = {}
                      /\ pc' = "idle"
                      /\ call' = NoCall
                      /\ marked' = Requested
                      /\ answer' = next
                      /\ UNCHANGED <<next, pending, scan, advanced>>

\* No segment was absorbed in the pass: the mutex is released.
Return == /\ pc = "pass"
          /\ scan = {}
          /\ ~advanced
          /\ pc' = "idle"
          /\ call' = NoCall
          /\ marked' = Requested
          /\ answer' = next
          /\ UNCHANGED <<next, pending, scan, advanced>>

Next == \/ \E s, e \in Indices : MarkNothing(s, e) \/ Enter(s, e)
        \/ \E k \in DOMAIN pending : Visit(k)
        \/ NextPass
        \/ Return

Spec == Init /\ [][Next]_vars

\* The goroutine inside Mark keeps running; nothing makes a caller call it.
Step == (\E k \in DOMAIN pending : Visit(k)) \/ NextPass \/ Return
FairSpec == Spec /\ WF_vars(Step)

-----------------------------------------------------------------------------
TypeOK == /\ next \in Nat
          /\ DOMAIN pending \subseteq Nat
          /\ pending \in [DOMAIN pending -> Nat]
          /\ pc \in {"idle", "pass"}
          /\ scan \subseteq DOMAIN pending
          /\ advanced \in BOOLEAN
          /\ call \in Indices \X Indices
          /\ marked \subseteq Nat
          /\ answer \in Nat

\* Resume state must never advance across a gap (progress.go:5-6): even in the
\* middle of the loop, every index below next has been asked for.
NoGapCrossed == /\ next >= Start
                /\ Interval(Start, next) \subseteq Requested

\* Mark returns the first index not yet known to be processed (progress.go:20-21):
\* once the loop is left the prefix ends exactly at an index nobody has marked,
\* whatever the order in which the map yielded the segments.
FirstUnprocessed == pc = "idle" => next \notin marked

\* No interval is forgotten: an index that was marked is behind next or inside
\* a pending segment that a later call can still join to the prefix.
NothingForgotten ==
    \A i \in Requested : i >= next =>
        \E k \in DOMAIN pending : k <= i /\ i < pending[k]

\* A segment waiting behind a gap holds only indices that were really marked.
PendingWasMarked ==
    \A k \in DOMAIN pending : Interval(k, pending[k]) \subseteq Requested

\* Within a pass that has not moved next, every segment already visited lies
\* beyond a gap; and every segment is non-empty.
VisitedBeyondGap ==
    /\ \A k \in DOMAIN pending : k < pending[k]
    /\ ~advanced => \A k \in DOMAIN pending \ scan : next < k
    /\ pc = "idle" => scan = {} /\ ~advanced /\ call = NoCall
    /\ answer <= next

\* Between calls the map holds only segments beyond a gap, so its size is bounded
\* by the number of gaps and not by the number of batches of the whole run.
NoDebrisBetweenCalls ==
    pc = "idle" => \A k \in DOMAIN pending : next < k /\ k < pending[k]

\* The prefix never moves back, and a call never returns less than an earlier
\* one did: the checkpoint derived from it is monotonic.
PrefixGrows == [][next' >= next /\ answer' >= answer]_vars

\* Every call comes back: the absorbing loop cannot run forever with the mutex
\* held, because each pass that repeats it has removed a segment.
MarkReturns == pc = "pass" ~> pc = "idle"

\* The inductive invariant of the proofs: the parts the steps of a call hand to
\* one another.
IndInv == /\ TypeOK
          /\ NoGapCrossed
          /\ NothingForgotten
          /\ PendingWasMarked
          /\ VisitedBeyondGap

Abstract == INSTANCE PrefixTracker

\* The tracker implements the abstract one: seen from its callers, every call of
\* Mark is one step that returns the first index not marked so far.
ImplementsPrefixTracker == Abstract!Spec
=============================================================================
