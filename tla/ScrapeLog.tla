------------------------------ MODULE ScrapeLog ------------------------------
(***************************************************************************)
(* runner.scrape and scrapeLog for one log, over any number of process     *)
(* runs: what a run reads from its state file, which entries it fetches,   *)
(* the order parse, flush, mark, save, and what is left behind by a failed *)
(* write, a cancelled fetch, a crash or a power loss at any point.         *)
(*                                                                         *)
(* The pool is the RangeFetch of its refinement (batches in any order, nil *)
(* without the whole range only after a cancellation) and the tracker the  *)
(* PrefixTracker of its (the first index not marked).  An entry either     *)
(* yields one output record or is malformed and yields one evidence event. *)
(* The root hash is a function of the tree size.                           *)
(***************************************************************************)
EXTENDS Integers, FiniteSets, DurableFile

CONSTANTS
    MaxTree,       \* the log grows up to this many entries (a bound for TLC)
    Malformed,     \* indices whose entry the parser rejects
    Options,       \* the -start (-1 when not given), -n (0) and -from-end of the runs
    TailDefault,   \* the 10000 entries of -from-end without -n
    BatchSize,     \* largest batch the pool delivers
    SaveEvery,     \* the 10000 entries between two periodic saves
    MaxRuns,       \* process starts (a bound for TLC)
    FreshRuns,     \* TRUE: some of the runs are started without -resume
    None           \* no state file

ASSUME ScrapeConstants ==
    /\ MaxTree \in Nat /\ TailDefault \in Nat
    /\ Options # {} /\ Options \subseteq [start : Int, count : Nat, fromEnd : BOOLEAN]
    /\ BatchSize \in Nat \ {0} /\ SaveEvery \in Nat \ {0} /\ MaxRuns \in Nat
    /\ FreshRuns \in BOOLEAN

VARIABLES
    tree,       \* entries in the log
    out,        \* the -o file, a DurableFile
    mal,        \* the malformed-evidence file, a DurableFile
    state,      \* the scrape state file of this log and selection
    pc,         \* where the process is, "down" when there is none
    run,        \* the local variables of the current run
    promised,   \* history: the entries the last run claimed on exiting with success
    runs        \* process starts so far

vars == <<tree, out, mal, state, pc, run, promised, runs>>

Larger(a, b) == IF a > b THEN a ELSE b
Smaller(a, b) == IF a < b THEN a ELSE b
Span(from, to) == from .. (to - 1)

-----------------------------------------------------------------------------
(* Which entries a run is about.                                           *)

\* calculateRange
Requested(opts, size) ==
    IF opts.fromEnd
    THEN [to |-> size,
          from |-> IF opts.count > 0 THEN Larger(size - opts.count, 0)
                   ELSE IF opts.start >= 0 THEN opts.start
                   ELSE Larger(0, size - TailDefault)]
    ELSE LET from == Larger(opts.start, 0)
         IN [from |-> from,
             to |-> IF opts.count > 0 THEN Smaller(from + opts.count, size) ELSE size]

\* SafeResumeIndex of a version 3 state: the saved prefix must contain the first
\* requested index.
Resumable(s, from) == s # None /\ s.from <= from /\ from < s.next

Idle == [resume |-> FALSE, opts |-> None, from |-> 0, to |-> 0, proof |-> 0, size |-> 0,
         todo |-> {}, batch |-> {}, left |-> {}, malWritten |-> FALSE,
         batchFailed |-> FALSE, marked |-> {}, next |-> 0, lastSaved |-> 0,
         failed |-> FALSE]

Init == /\ tree = 0
        /\ out = Empty /\ mal = Empty
        /\ state = NewState(None)
        /\ pc = "down"
        /\ run = Idle
        /\ promised = {}
        /\ runs = 0

Grow == /\ tree < MaxTree
        /\ tree' = tree + 1
        /\ UNCHANGED <<out, mal, state, pc, run, promised, runs>>

\* A process starts: the output file is opened to append under -resume and
\* truncated otherwise, the evidence file is always appended to.
Begin(resume, opts) ==
    /\ pc = "down"
    /\ runs < MaxRuns
    /\ resume \/ FreshRuns
    /\ runs' = runs + 1
    /\ out' = Opened(out, resume)
    /\ mal' = Opened(mal, TRUE)
    /\ run' = [Idle EXCEPT !.resume = resume, !.opts = opts]
    /\ promised' = {}
    /\ pc' = "connect"
    /\ UNCHANGED <<tree, state>>

-----------------------------------------------------------------------------
(* scrapeLog up to the fetch: state, tree head, range.  The log may answer *)
(* with an older tree head than it has shown before.                       *)

Saved == IF run.resume THEN state.seen ELSE None

\* The state is unreadable or the log does not answer.
ConnectFails == /\ pc = "connect"
                /\ run' = [run EXCEPT !.failed = TRUE]
                /\ pc' = "exit"
                /\ UNCHANGED <<tree, out, mal, state, promised, runs>>

\* Nothing requested exists yet: reported as success.
NothingToDo(size) ==
    /\ pc = "connect"
    /\ Requested(run.opts, size).from >= Requested(run.opts, size).to
    /\ pc' = "exit"
    /\ UNCHANGED <<tree, out, mal, state, run, promised, runs>>

\* Mutant: no comparison of the tree head with the saved one.
NeverShrunk(size) == FALSE

Shrunk(size) == Saved # None /\ Saved.size > size

\* Mutant: the saved range start is kept for a fetch that did not resume it.
ProofKept(resumed, from) == IF Saved # None THEN Saved.from ELSE from

\* Where the prefix begins that a save of this run claims.
ProofStart(resumed, from) == IF resumed THEN Saved.from ELSE from

\* The log shows fewer entries than the saved state has seen.
Regressed(size) ==
    /\ pc = "connect"
    /\ Requested(run.opts, size).from < Requested(run.opts, size).to
    /\ Shrunk(size)
    /\ run' = [run EXCEPT !.failed = TRUE]
    /\ pc' = "exit"
    /\ UNCHANGED <<tree, out, mal, state, promised, runs>>

\* The fetch starts at the saved prefix if it covers the request, and at the
\* requested start otherwise; a request inside the prefix is already done.
Plan(size) ==
    LET req == Requested(run.opts, size)
        resumed == Resumable(Saved, req.from)
        start == IF resumed THEN Smaller(Saved.next, req.to) ELSE req.from
    IN  /\ pc = "connect"
        /\ req.from < req.to
        /\ ~Shrunk(size)
        /\ run' = [run EXCEPT !.from = req.from, !.to = req.to, !.size = size,
                              !.proof = ProofStart(resumed, req.from),
                              !.todo = Span(start, req.to),
                              !.next = start, !.lastSaved = start]
        /\ pc' = IF start >= req.to THEN "exit" ELSE "fetch"
        /\ UNCHANGED <<tree, out, mal, state, promised, runs>>

-----------------------------------------------------------------------------
(* The loop over the batches the pool delivers.                            *)

\* for batch := range results: any batch of what is not delivered yet.
Receive(a, b) ==
    /\ pc = "fetch"
    /\ a < b /\ b - a <= BatchSize
    /\ Span(a, b) \subseteq run.todo
    /\ run' = [run EXCEPT !.todo = @ \ Span(a, b), !.batch = Span(a, b),
                          !.left = Span(a, b), !.malWritten = FALSE,
                          !.batchFailed = FALSE]
    /\ pc' = "parse"
    /\ UNCHANGED <<tree, out, mal, state, promised, runs>>

\* parseBatch handles the entries of a batch concurrently, in any order.  A failed
\* output write is only remembered by the writer; a failed evidence write is an
\* error of the batch.
ParseEntry(i) ==
    /\ pc = "parse"
    /\ i \in run.left
    /\ \/ /\ i \notin Malformed
          /\ out' \in AfterWrite(out, i)
          /\ run' = [run EXCEPT !.left = @ \ {i}]
          /\ UNCHANGED mal
       \/ /\ i \in Malformed
          /\ mal' \in AfterWrite(mal, i)
          /\ run' = [run EXCEPT !.left = @ \ {i},
                                !.malWritten = @ \/ ~mal'.err,
                                !.batchFailed = @ \/ mal'.err]
          /\ UNCHANGED out
    /\ UNCHANGED <<tree, state, pc, promised, runs>>

FlushOutput == /\ pc = "parse"
               /\ run.left = {}
               /\ out' \in AfterFlush(out)
               /\ run' = [run EXCEPT !.batchFailed = @ \/ out'.err]
               /\ pc' = "flush"
               /\ UNCHANGED <<tree, mal, state, promised, runs>>

\* The evidence file is flushed when this batch wrote to it.
FlushEvidence == /\ pc = "flush"
                 /\ IF run.malWritten
                    THEN /\ mal' \in AfterFlush(mal)
                         /\ run' = [run EXCEPT !.batchFailed = @ \/ mal'.err]
                    ELSE UNCHANGED <<mal, run>>
                 /\ pc' = "mark"
                 /\ UNCHANGED <<tree, out, state, promised, runs>>

\* A batch with an error is not marked; the loop goes on with the next one.
SkipMark == /\ pc = "mark"
            /\ run.batchFailed
            /\ run' = [run EXCEPT !.failed = TRUE]
            /\ pc' = "fetch"
            /\ UNCHANGED <<tree, out, mal, state, promised, runs>>

\* n is the first index from the start of the fetch that is not marked.
FirstGap(n, marked) ==
    n >= run.next /\ Span(run.next, n) \subseteq marked /\ n \notin marked

\* Mutant: a batch is marked whatever became of its records.
MarkRegardless ==
    /\ pc = "mark"
    /\ \E n \in run.next .. run.to :
          /\ FirstGap(n, run.marked \cup run.batch)
          /\ run' = [run EXCEPT !.marked = @ \cup run.batch, !.next = n]
          /\ pc' = IF run.resume /\ n - run.lastSaved >= SaveEvery
                   THEN "save" ELSE "fetch"
    /\ UNCHANGED <<tree, out, mal, state, promised, runs>>

\* tracker.Mark, then the periodic save once enough was added.
MarkBatch ==
    /\ pc = "mark"
    /\ ~run.batchFailed
    /\ \E n \in run.next .. run.to :
          /\ FirstGap(n, run.marked \cup run.batch)
          /\ run' = [run EXCEPT !.marked = @ \cup run.batch, !.next = n]
          /\ pc' = IF run.resume /\ n - run.lastSaved >= SaveEvery
                   THEN "save" ELSE "fetch"
    /\ UNCHANGED <<tree, out, mal, state, promised, runs>>

Progress == [from |-> run.proof, next |-> run.next, size |-> run.size]

\* saveScrapeProgress: the state file is replaced, or an error is reported before
\* the rename or, from the chmod that follows it, after.
SaveState == \/ state' = Replaced(state, Progress)
             \/ UNCHANGED state

PeriodicSave == /\ pc = "save"
                /\ \/ /\ state' = Replaced(state, Progress)
                      /\ run' = [run EXCEPT !.lastSaved = run.next]
                   \/ /\ SaveState
                      /\ run' = [run EXCEPT !.failed = TRUE]
                /\ pc' = "fetch"
                /\ UNCHANGED <<tree, out, mal, promised, runs>>

\* The results channel is closed.  The pool reports an error when something is
\* missing, unless a cancellation made it return nil early.
PoolEnds == /\ pc = "fetch"
            /\ \/ UNCHANGED run
               \/ run' = [run EXCEPT !.failed = TRUE]
            /\ pc' = "final"
            /\ UNCHANGED <<tree, out, mal, state, promised, runs>>

-----------------------------------------------------------------------------
(* After the loop: last flush, last save, verdict, close.                  *)

FinalFlush == /\ pc = "final"
              /\ out' \in AfterFlush(out)
              /\ run' = [run EXCEPT !.failed = @ \/ out'.err]
              /\ pc' = IF run.resume THEN "finalSave" ELSE "verdict"
              /\ UNCHANGED <<tree, mal, state, promised, runs>>

FinalSave == /\ pc = "finalSave"
             /\ \/ state' = Replaced(state, Progress) /\ UNCHANGED run
                \/ SaveState /\ run' = [run EXCEPT !.failed = TRUE]
             /\ pc' = "verdict"
             /\ UNCHANGED <<tree, out, mal, promised, runs>>

\* Mutant: the pool's own verdict is trusted.
VerdictOfPool == /\ pc = "verdict"
                 /\ pc' = "exit"
                 /\ UNCHANGED <<tree, out, mal, state, run, promised, runs>>

\* The marked prefix must reach the end of the range, whatever the pool said.
Verdict == /\ pc = "verdict"
           /\ run' = [run EXCEPT !.failed = @ \/ run.next # run.to]
           /\ pc' = "exit"
           /\ UNCHANGED <<tree, out, mal, state, promised, runs>>

\* Back in scrape: both writers are flushed and closed, and the process ends; it
\* ends with success when no step of it failed.
Exit == /\ pc = "exit"
        /\ \E o \in AfterFlush(out), m \in AfterFlush(mal) :
              /\ promised' = IF run.failed \/ o.err \/ m.err
                             THEN {} ELSE Span(run.from, run.to)
              /\ out' = [o EXCEPT !.buf = {}, !.err = FALSE]
              /\ mal' = [m EXCEPT !.buf = {}, !.err = FALSE]
        /\ run' = Idle
        /\ pc' = "down"
        /\ UNCHANGED <<tree, state, runs>>

\* The process is killed.
Crash == /\ pc # "down"
         /\ out' \in AfterExit(out)
         /\ mal' \in AfterExit(mal)
         /\ run' = Idle
         /\ pc' = "down"
         /\ UNCHANGED <<tree, state, promised, runs>>

\* The machine loses power, running or not.
PowerLoss == /\ out' \in AfterPowerLoss(out)
             /\ mal' \in AfterPowerLoss(mal)
             /\ state' \in StateAfterPowerLoss(state)
             /\ run' = Idle
             /\ pc' = "down"
             /\ UNCHANGED <<tree, promised, runs>>

Scrape == \/ ConnectFails
          \/ \E size \in 0..tree : NothingToDo(size) \/ Regressed(size) \/ Plan(size)
          \/ \E a, b \in 0..tree : Receive(a, b)
          \/ \E i \in run.left : ParseEntry(i)
          \/ FlushOutput \/ FlushEvidence \/ SkipMark \/ MarkBatch \/ PeriodicSave
          \/ PoolEnds \/ FinalFlush \/ FinalSave \/ Verdict \/ Exit

Next == \/ Grow \/ Crash \/ PowerLoss
        \/ \E resume \in BOOLEAN, opts \in Options : Begin(resume, opts)
        \/ Scrape

Spec == Init /\ [][Next]_vars

-----------------------------------------------------------------------------
Indices == 0 .. (MaxTree - 1)
FileType == [buf : SUBSET Indices, os : SUBSET Indices, disk : SUBSET Indices,
             err : BOOLEAN]
ProgressType == [from : Nat, next : Nat, size : Nat]
RunType == [resume : BOOLEAN, opts : Options \cup {None}, from : Nat, to : Nat,
            proof : Nat, size : Nat, todo : SUBSET Indices, batch : SUBSET Indices,
            left : SUBSET Indices, malWritten : BOOLEAN, batchFailed : BOOLEAN,
            marked : SUBSET Indices, next : Nat, lastSaved : Nat, failed : BOOLEAN]

TypeOK ==
    /\ tree \in 0..MaxTree
    /\ out \in FileType /\ mal \in FileType
    /\ Versions(state) \subseteq ProgressType \cup {None}
    /\ pc \in {"down", "connect", "fetch", "parse", "flush", "mark", "save",
               "final", "finalSave", "verdict", "exit"}
    /\ run \in RunType /\ Span(run.from, run.to) \subseteq Indices
    /\ pc = "connect" => run.opts \in Options
    /\ promised \subseteq Indices /\ runs \in 0..MaxRuns

\* The record an entry owes is on disk, in the file it belongs to.
OnDisk(i) == IF i \in Malformed THEN i \in mal.disk ELSE i \in out.disk

\* Output and malformed evidence are flushed and fsync'd before persistent progress
\* may advance (README.md:202, README.md:206): every entry below the position of
\* the state file, of any version of it that a power loss can bring back, is on disk.
CheckpointOnDisk ==
    \A s \in Versions(state) \ {None} : \A i \in Span(s.from, s.next) : OnDisk(i)

\* A run that ends with success has every entry of the requested range on disk,
\* be it written by this run or by the earlier ones it resumed from.
SuccessOnDisk == \A i \in promised : OnDisk(i)

\* -resume means "resume from last saved verified contiguous position"
\* (options.go:118): what a resumed run skips is in the file it appends to.
SkippedIsOnDisk ==
    run.resume => \A i \in Span(run.from, run.next) : OnDisk(i)

\* The tracker is ahead of no record: what is marked in memory has been synced.
MarkedOnDisk == \A i \in run.marked : OnDisk(i)

\* While no power is lost the position of a range never moves back: retries,
\* failed batches and stale tree heads cost work but never progress.
Saves == pc \in {"save", "finalSave"} /\ pc' # "down"
CheckpointGrows ==
    [][ (Saves /\ state.seen # None /\ state'.seen.from = state.seen.from)
        => /\ state'.seen.next >= state.seen.next
           /\ state'.seen.size >= state.seen.size ]_vars
=============================================================================
