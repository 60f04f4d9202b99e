------------------------------ MODULE ResumePlan ------------------------------
(***************************************************************************)
(* What one run of scrapeLog decides to fetch, from the range options, the *)
(* tree size and the saved state: Runner.calculateRange,                   *)
(* ScrapeProgress.SafeResumeIndex and the code between them, in the signed *)
(* integers of the machine.  ScrapeLog has the same decisions inside whole *)
(* runs, over integers that cannot overflow.                               *)
(***************************************************************************)
EXTENDS Integers

CONSTANTS
    MaxInt,         \* the largest int64
    Counts, Starts, \* values of -n and -start (0 and -1 when not given)
    Sizes,          \* tree sizes
    Bounds,         \* values of the index fields of a saved state
    TailDefault,    \* the 10000 entries of -from-end without -n
    None            \* no saved state

ASSUME PlanConstants ==
    /\ MaxInt \in Nat /\ TailDefault \in Nat
    /\ Counts \subseteq -MaxInt .. MaxInt /\ Starts \subseteq -MaxInt .. MaxInt
    /\ Sizes \subseteq 0 .. MaxInt /\ Bounds \subseteq -MaxInt .. MaxInt

VARIABLES
    opts,    \* the range options of the run
    size,    \* the tree size the log shows
    saved,   \* the state read from the state file
    plan     \* what the run decided, [at |-> "none"] before

planVars == <<opts, size, saved, plan>>

Larger(a, b) == IF a > b THEN a ELSE b
Smaller(a, b) == IF a < b THEN a ELSE b
Span(from, to) == from .. (to - 1)

\* The sum of two non-negative int64, which wraps around.
Add(a, b) == IF a + b > MaxInt THEN a + b - 2 * (MaxInt + 1) ELSE a + b

-----------------------------------------------------------------------------
(* calculateRange                                                          *)

\* Mutant: a tail longer than the log starts below zero.
TailFromUnclamped(o, s) ==
    IF o.count > 0 THEN s - o.count
    ELSE IF o.start >= 0 THEN o.start
    ELSE Larger(0, s - TailDefault)

TailFrom(o, s) ==
    IF o.count > 0 THEN Larger(s - o.count, 0)
    ELSE IF o.start >= 0 THEN o.start
    ELSE Larger(0, s - TailDefault)

HeadFrom(o) == IF o.start >= 0 THEN o.start ELSE 0

HeadTo(o, s) == IF o.count > 0 THEN Smaller(Add(HeadFrom(o), o.count), s) ELSE s

CalculateRange(o, s) ==
    IF o.fromEnd THEN [from |-> TailFrom(o, s), to |-> s]
                 ELSE [from |-> HeadFrom(o), to |-> HeadTo(o, s)]

-----------------------------------------------------------------------------
(* SafeResumeIndex                                                         *)

\* Mutant: a saved prefix covers every request below its end, one that starts before
\* its range too.
CoversFromBelow(p, from) ==
    /\ p.rangeStart <= p.next /\ p.next <= p.rangeEnd
    /\ from < p.next

\* Mutant: the last index of the saved prefix is not counted.
CoversButLast(p, from) ==
    /\ p.rangeStart <= p.next /\ p.next <= p.rangeEnd
    /\ p.rangeStart <= from /\ from < p.next - 1

\* The saved prefix of a range contains the first requested index.
Covers(p, from) ==
    /\ p.rangeStart <= p.next /\ p.next <= p.rangeEnd
    /\ p.rangeStart <= from /\ from < p.next

\* A state of version 3, as loadScrapeProgress accepts it: ok says whether the run
\* may start at next instead of the requested start.
SafeResumeIndex(p, from, to) ==
    IF p # None /\ 0 <= from /\ from <= to /\ Covers(p, from)
    THEN [next |-> Smaller(p.next, to), ok |-> TRUE]
    ELSE [next |-> from, ok |-> FALSE]

-----------------------------------------------------------------------------
Options == [start : Starts, count : Counts, fromEnd : BOOLEAN]

\* What loadScrapeProgress returns without an error; agrees: it has no root, or the one
\* that the log shows now.
SavedStates ==
    {p \in [rangeStart : Bounds, rangeEnd : Bounds, next : Bounds, size : Sizes,
            agrees : BOOLEAN] :
        /\ 0 <= p.rangeStart /\ p.rangeStart <= p.rangeEnd
        /\ p.rangeStart <= p.next /\ p.next <= p.rangeEnd
        /\ p.rangeEnd <= p.size}

PlanInit == /\ opts \in Options
            /\ size \in Sizes
            /\ saved \in SavedStates \cup {None}
            /\ plan = [at |-> "none"]

Request == CalculateRange(opts, size)

\* "no entries to process": the run reports success.
NothingToDo == /\ plan.at = "none"
               /\ Request.from >= Request.to
               /\ plan' = [at |-> "empty"]
               /\ UNCHANGED <<opts, size, saved>>

\* The saved state has seen a larger tree, or another tree of this size.
Contradicted ==
    /\ saved # None
    /\ \/ saved.size > size
       \/ saved.size = size /\ ~saved.agrees

\* An error: the log shows less than it did, or something else.
Regressed == /\ plan.at = "none"
             /\ Request.from < Request.to
             /\ Contradicted
             /\ plan' = [at |-> "error"]
             /\ UNCHANGED <<opts, size, saved>>

\* Otherwise the run fetches from the resume index on, or is done already; proof
\* is where the prefix of its next state will begin.
Decide ==
    LET resume == SafeResumeIndex(saved, Request.from, Request.to)
    IN  /\ plan.at = "none"
        /\ Request.from < Request.to
        /\ ~Contradicted
        /\ plan' = [at |-> IF resume.next >= Request.to THEN "covered" ELSE "fetch",
                    proof |-> IF resume.ok THEN saved.rangeStart ELSE Request.from,
                    start |-> resume.next,
                    to |-> Request.to]
        /\ UNCHANGED <<opts, size, saved>>

PlanNext == NothingToDo \/ Regressed \/ Decide

PlanSpec == PlanInit /\ [][PlanNext]_planVars

-----------------------------------------------------------------------------
\* What the options ask for, said without arithmetic that can overflow: the last
\* count entries, or those from start on, at most count of them.
Wanted ==
    {i \in 0 .. (size - 1) :
        IF opts.fromEnd
        THEN IF opts.count > 0 THEN size - i <= opts.count
             ELSE IF opts.start >= 0 THEN i >= opts.start
             ELSE size - i <= TailDefault
        ELSE /\ i >= opts.start
             /\ opts.count > 0 => i - HeadFrom(opts) < opts.count}

Decided == plan.at \in {"fetch", "covered"}
Proven == IF saved = None THEN {} ELSE Span(saved.rangeStart, saved.next)

PlanTypeOK ==
    /\ opts \in Options /\ size \in Sizes /\ saved \in SavedStates \cup {None}
    /\ plan.at \in {"none", "empty", "error", "fetch", "covered"}
    /\ Decided => {plan.proof, plan.start, plan.to} \subseteq Nat

\* -start plus -n does not fit an int64 (runner.go:892).
Overflows == ~opts.fromEnd /\ HeadFrom(opts) + opts.count > MaxInt

\* The half-open range is exactly what the options ask for (runner_test.go:12-25 samples
\* it); where the end of the request is beyond the integers, the sum that wraps leaves an
\* empty range, and never one that holds anything else.
RangeIsWanted ==
    Span(Request.from, Request.to) = IF Overflows THEN {} ELSE Wanted

\* What the run skips of its range, and what it will claim on top of that in its
\* next state, is the proven prefix of the state it read: the sliding range of
\* -from-end or another -start can never turn a hole into a claim.
SkipsOnlyProven ==
    Decided => /\ Span(Request.from, plan.start) \subseteq Proven
               /\ Span(plan.proof, plan.start) \subseteq Proven

\* A saved prefix that contains the first requested index is used to its end: no
\* entry that is already in the output is fetched and written again.
ResumesWhereProven ==
    (Decided /\ Request.from \in Proven) => Proven \cap Span(plan.start, plan.to) = {}
=============================================================================
