------------------------------ MODULE WorkerPool ------------------------------
(***************************************************************************)
(* ctlog/worker.go: one call of WorkerPool.FetchRange.  A feeder cuts the  *)
(* range into items for a bounded channel, workers take items and fetch    *)
(* them in as many requests as the log needs, a coordinator adds workers   *)
(* on its ticker while few requests fail, and the caller's goroutine waits *)
(* in a select for cancellation or for the workers to be done.             *)
(*                                                                         *)
(* Both callers (runner.go:392, runner.go:697) pass a non-empty range with *)
(* a non-negative start, so the two early returns are not modelled.        *)
(***************************************************************************)
EXTENDS Integers, FiniteSets

CONSTANTS
    Start, End,     \* the half-open range of the call
    BatchSize,      \* entries per work item
    MaxWorkers,     \* wp.maxWorkers; the work channel holds twice as many items
    Workers,        \* goroutine identities, reused after a worker has exited
    ResultCap,      \* capacity of the caller's results channel
    RateLimited     \* TRUE iff wp.rateLimit > 0: workers wait for a ticker

ASSUME PoolConstants ==
    /\ Start \in Nat /\ End \in Nat /\ Start < End
    /\ BatchSize \in Nat \ {0} /\ MaxWorkers \in Nat \ {0} /\ ResultCap \in Nat \ {0}
    /\ IsFiniteSet(Workers) /\ Cardinality(Workers) > MaxWorkers
    /\ RateLimited \in BOOLEAN

Indices == Start .. (End - 1)

VARIABLES
    feedPos,     \* the feeder's pos
    feeding,     \* the feeder has not closed the work channel
    takePos,     \* the work channel holds the items cut from takePos to feedPos
    worker,      \* per worker: where it is, the rest [cur, last] of its item, and
                 \* the number of entries of the response in hand
    queued,      \* batches in the results channel
    coord,       \* the coordinator: "start", "loop", then within one tick "ramp" and
                 \* "rate", then "drain", "done"
    successes,   \* the successCount that the tick at hand has loaded, else 0
    caller,      \* "setup", "parked", "done", "joined", "returned"
    verdict,     \* "running", then "nil", "incomplete" or "ctx"
    cancelled,   \* ctx is done
    errCount, successCount, dropped,    \* the pool's atomic counters
    delivered,   \* history: indices sent on the results channel
    lost         \* history: indices a recorded failure covers

poolVars == <<errCount, successCount, dropped>>
coordVars == <<coord, successes>>
vars == <<feedPos, feeding, takePos, worker, queued, coord, successes, caller, verdict,
          cancelled, errCount, successCount, dropped, delivered, lost>>

Off == [at |-> "off", cur |-> Start, last |-> Start, n |-> 0]

Running == {w \in Workers : worker[w].at # "off"}
InHand(w) == worker[w].at \in {"limit", "head", "wait", "give"}
Rest(w) == worker[w].cur .. worker[w].last

Init == /\ feedPos = Start /\ feeding = TRUE /\ takePos = Start
        /\ worker = [w \in Workers |-> Off]
        /\ queued = 0
        /\ coord = "start" /\ successes = 0 /\ caller = "setup" /\ verdict = "running"
        /\ cancelled = FALSE
        /\ errCount = 0 /\ successCount = 0 /\ dropped = 0
        /\ delivered = {} /\ lost = {}

-----------------------------------------------------------------------------
(* The feeder.                                                             *)

ItemsQueued == (feedPos - takePos) \div BatchSize

Feed == /\ feeding
        /\ feedPos < End
        /\ ItemsQueued < 2 * MaxWorkers
        /\ feedPos' = feedPos + BatchSize
        /\ UNCHANGED <<feeding, takePos, worker, queued, coordVars, caller, verdict,
                       cancelled, poolVars, delivered, lost>>

\* The range is cut, or the select took ctx.Done: the work channel is closed.
CloseWork == /\ feeding
             /\ feedPos >= End \/ cancelled
             /\ feeding' = FALSE
             /\ UNCHANGED <<feedPos, takePos, worker, queued, coordVars, caller,
                            verdict, cancelled, poolVars, delivered, lost>>

-----------------------------------------------------------------------------
(* A worker.  "take": receiving from the work channel; "limit": waiting    *)
(* for the rate ticker; "head": top of fetchItem's loop; "wait": request   *)
(* in flight; "give": sending a batch to the results channel.              *)

Goto(w, at) == worker' = [worker EXCEPT ![w].at = at]
Quit(w) == worker' = [worker EXCEPT ![w] = Off]

\* Mutant: inclusive and exclusive end confused, so items overlap by one index.
ItemLastInclusive(pos) == IF pos + BatchSize >= End THEN End - 1 ELSE pos + BatchSize

ItemLast(pos) == IF pos + BatchSize - 1 >= End THEN End - 1
                                               ELSE pos + BatchSize - 1

Take(w) ==
    /\ worker[w].at = "take"
    /\ takePos < feedPos
    /\ takePos' = takePos + BatchSize
    /\ IF cancelled
       THEN Quit(w)
       ELSE worker' = [worker EXCEPT ![w] =
                 [at |-> IF RateLimited THEN "limit" ELSE "head",
                  cur |-> takePos, last |-> ItemLast(takePos), n |-> 0]]
    /\ UNCHANGED <<feedPos, feeding, queued, coordVars, caller, verdict, cancelled,
                   poolVars, delivered, lost>>

WorkDrained == ~feeding /\ takePos = feedPos

Leave(w) == /\ worker[w].at = "take"
            /\ WorkDrained
            /\ Quit(w)
            /\ UNCHANGED <<feedPos, feeding, takePos, queued, coordVars, caller,
                           verdict, cancelled, poolVars, delivered, lost>>

RateTick(w) == /\ worker[w].at = "limit"
               /\ Goto(w, "head") \/ (cancelled /\ Quit(w))
               /\ UNCHANGED <<feedPos, feeding, takePos, queued, coordVars, caller,
                              verdict, cancelled, poolVars, delivered, lost>>

\* Top of fetchItem's loop: item finished, cancelled, or the next request goes out.
LoopHead(w) ==
    /\ worker[w].at = "head"
    /\ Goto(w, IF worker[w].cur > worker[w].last \/ cancelled THEN "take" ELSE "wait")
    /\ UNCHANGED <<feedPos, feeding, takePos, queued, coordVars, caller, verdict,
                   cancelled, poolVars, delivered, lost>>

\* The log answers with n entries, a prefix of what was asked for.
Response(w, n) ==
    /\ worker[w].at = "wait"
    /\ n <= worker[w].last - worker[w].cur + 1
    /\ successCount' = successCount + 1
    /\ worker' = [worker EXCEPT ![w].at = "give", ![w].n = n]
    /\ UNCHANGED <<feedPos, feeding, takePos, queued, coordVars, caller, verdict,
                   cancelled, errCount, dropped, delivered, lost>>

\* Mutant: a response without entries ends the item like a finished one.
FailureIgnored(w) ==
    /\ worker[w].at = "wait"
    /\ errCount' = errCount + 1
    /\ Goto(w, "take")
    /\ UNCHANGED <<feedPos, feeding, takePos, queued, coordVars, caller, verdict,
                   cancelled, successCount, dropped, delivered, lost>>

\* Mutant: the inclusive remainder is counted one short.
FailureMiscounted(w) ==
    /\ worker[w].at = "wait"
    /\ errCount' = errCount + 1
    /\ dropped' = dropped + (worker[w].last - worker[w].cur)
    /\ lost' = lost \cup Rest(w)
    /\ Goto(w, "take")
    /\ UNCHANGED <<feedPos, feeding, takePos, queued, coordVars, caller, verdict,
                   cancelled, successCount, delivered>>

\* An error, a nil response, zero entries, or more than were asked for: the rest
\* of the item is recorded as dropped and the worker moves on.
Failure(w) ==
    /\ worker[w].at = "wait"
    /\ errCount' = errCount + 1
    /\ dropped' = dropped + (worker[w].last - worker[w].cur + 1)
    /\ lost' = lost \cup Rest(w)
    /\ Goto(w, "take")
    /\ UNCHANGED <<feedPos, feeding, takePos, queued, coordVars, caller, verdict,
                   cancelled, successCount, delivered>>

Batch(w) == worker[w].cur .. (worker[w].cur + worker[w].n - 1)

Send(w) ==
    /\ worker[w].at = "give"
    /\ queued < ResultCap
    /\ queued' = queued + 1
    /\ delivered' = delivered \cup Batch(w)
    /\ worker' = [worker EXCEPT ![w].at = "head", ![w].cur = @ + worker[w].n,
                                ![w].n = 0]
    /\ UNCHANGED <<feedPos, feeding, takePos, coordVars, caller, verdict, cancelled,
                   poolVars, lost>>

Abandon(w) == /\ worker[w].at = "give"
              /\ cancelled
              /\ Goto(w, "take")
              /\ UNCHANGED <<feedPos, feeding, takePos, queued, coordVars, caller,
                             verdict, cancelled, poolVars, delivered, lost>>

WorkerStep(w) == \/ Take(w) \/ Leave(w) \/ RateTick(w) \/ LoopHead(w)
                 \/ Failure(w) \/ Send(w) \/ Abandon(w)
                 \/ \E n \in 1..BatchSize : Response(w, n)

-----------------------------------------------------------------------------
(* The coordinator, whose 500 ms ticker may fire at any time.              *)

Spawn(w) == worker' = [worker EXCEPT ![w] = [Off EXCEPT !.at = "take"]]

FirstWorker == /\ coord = "start"
               /\ \E w \in Workers : Spawn(w)
               /\ coord' = "loop"
               /\ UNCHANGED <<feedPos, feeding, takePos, queued, successes, caller,
                              verdict, cancelled, poolVars, delivered, lost>>

\* The tick loads activeWorkers, then successCount, then errCount, and only then starts a
\* worker: in between workers leave and requests succeed or fail.  The coordinator alone
\* adds to activeWorkers, after the go statement but before its next tick, so what it
\* loads is never more than the workers that run.
LoadActive == /\ coord = "loop"
              /\ Running # {}
              /\ Cardinality(Running) < MaxWorkers
              /\ coord' = "ramp"
              /\ UNCHANGED <<feedPos, feeding, takePos, worker, queued, successes, caller,
                             verdict, cancelled, poolVars, delivered, lost>>

LoadSuccesses == /\ coord = "ramp"
                 /\ coord' = "rate"
                 /\ successes' = successCount
                 /\ UNCHANGED <<feedPos, feeding, takePos, worker, queued, caller,
                                verdict, cancelled, poolVars, delivered, lost>>

\* Some request made and an error rate below 10 percent, as the tick sees it.
RampUp == /\ errCount + successes > 0
          /\ 10 * errCount < errCount + successes

AddWorker == /\ coord = "rate"
             /\ RampUp
             /\ \E w \in Workers \ Running : Spawn(w)
             /\ coord' = "loop" /\ successes' = 0
             /\ UNCHANGED <<feedPos, feeding, takePos, queued, caller, verdict,
                            cancelled, poolVars, delivered, lost>>

KeepWorkers == /\ coord = "rate"
               /\ ~RampUp
               /\ coord' = "loop" /\ successes' = 0
               /\ UNCHANGED <<feedPos, feeding, takePos, worker, queued, caller, verdict,
                              cancelled, poolVars, delivered, lost>>

Ramp == LoadSuccesses \/ AddWorker \/ KeepWorkers

\* Mutant: the coordinator only reacts to cancellation.
StopOnlyOnCancel == /\ coord = "loop"
                    /\ cancelled
                    /\ coord' = "drain"
                    /\ UNCHANGED <<feedPos, feeding, takePos, worker, queued, successes,
                                   caller, verdict, cancelled, poolVars, delivered, lost>>

\* A tick that loads no active worker, or cancellation: wait for the group.
StopRamping == /\ coord = "loop"
               /\ cancelled \/ Running = {}
               /\ coord' = "drain"
               /\ UNCHANGED <<feedPos, feeding, takePos, worker, queued, successes, caller,
                              verdict, cancelled, poolVars, delivered, lost>>

\* Mutant: workersDone is closed without waiting for the group.
WorkersDoneUnwaited ==
    /\ coord = "drain"
    /\ coord' = "done"
    /\ caller' = IF caller = "parked" THEN "joined" ELSE caller
    /\ UNCHANGED <<feedPos, feeding, takePos, worker, queued, successes, verdict,
                   cancelled, poolVars, delivered, lost>>

\* wg.Wait returned and workersDone is closed: a parked caller wakes up on it.
WorkersDone == /\ coord = "drain"
               /\ Running = {}
               /\ coord' = "done"
               /\ caller' = IF caller = "parked" THEN "joined" ELSE caller
               /\ UNCHANGED <<feedPos, feeding, takePos, worker, queued, successes,
                              verdict, cancelled, poolVars, delivered, lost>>

-----------------------------------------------------------------------------
(* The caller's goroutine, the context, and the loop that drains results.  *)

\* The select: a ready case is taken, either one when both are; otherwise the
\* goroutine parks and the case that becomes ready first is the one taken.
Select == /\ caller = "setup"
          /\ \/ cancelled /\ caller' = "done"
             \/ coord = "done" /\ caller' = "joined"
             \/ ~cancelled /\ coord # "done" /\ caller' = "parked"
          /\ UNCHANGED <<feedPos, feeding, takePos, worker, queued, coordVars,
                         verdict, cancelled, poolVars, delivered, lost>>

ReturnCtxErr == /\ caller = "done"
                /\ coord = "done"
                /\ caller' = "returned"
                /\ verdict' = "ctx"
                /\ UNCHANGED <<feedPos, feeding, takePos, worker, queued, coordVars,
                               cancelled, poolVars, delivered, lost>>

ReturnCounted == /\ caller = "joined"
                 /\ caller' = "returned"
                 /\ verdict' = IF dropped > 0 THEN "incomplete" ELSE "nil"
                 /\ UNCHANGED <<feedPos, feeding, takePos, worker, queued, coordVars,
                                cancelled, poolVars, delivered, lost>>

Cancel == /\ ~cancelled
          /\ cancelled' = TRUE
          /\ caller' = IF caller = "parked" THEN "done" ELSE caller
          /\ UNCHANGED <<feedPos, feeding, takePos, worker, queued, coordVars,
                         verdict, poolVars, delivered, lost>>

\* for batch := range results
Drain == /\ queued > 0
         /\ queued' = queued - 1
         /\ UNCHANGED <<feedPos, feeding, takePos, worker, coordVars, caller, verdict,
                        cancelled, poolVars, delivered, lost>>

Finished == /\ caller = "returned" /\ queued = 0 /\ ~feeding
            /\ UNCHANGED vars

Next == \/ Feed \/ CloseWork
        \/ \E w \in Workers : WorkerStep(w)
        \/ FirstWorker \/ LoadActive \/ Ramp \/ StopRamping \/ WorkersDone
        \/ Select \/ ReturnCtxErr \/ ReturnCounted
        \/ Cancel \/ Drain \/ Finished

Spec == Init /\ [][Next]_vars

\* Every goroutine runs: requests end by the HTTP client's timeout, the ticker
\* keeps firing, the caller keeps draining.  Nothing forces a cancellation.
FairSpec == /\ Spec
            /\ WF_vars(Feed) /\ WF_vars(CloseWork)
            /\ \A w \in Workers : WF_vars(WorkerStep(w))
            /\ WF_vars(FirstWorker) /\ WF_vars(Ramp)
            /\ WF_vars(StopRamping) /\ WF_vars(WorkersDone)
            /\ WF_vars(Select) /\ WF_vars(ReturnCtxErr) /\ WF_vars(ReturnCounted)
            /\ WF_vars(Drain)

-----------------------------------------------------------------------------
WorkerType == [at : {"off", "take", "limit", "head", "wait", "give"},
               cur : Nat, last : Nat, n : 0..BatchSize]

TypeOK ==
    /\ feedPos \in Nat /\ takePos \in Nat /\ feeding \in BOOLEAN
    /\ worker \in [Workers -> WorkerType]
    /\ queued \in 0..ResultCap
    /\ coord \in {"start", "loop", "ramp", "rate", "drain", "done"} /\ successes \in Nat
    /\ caller \in {"setup", "parked", "done", "joined", "returned"}
    /\ verdict \in {"running", "nil", "incomplete", "ctx"}
    /\ cancelled \in BOOLEAN
    /\ errCount \in Nat /\ successCount \in Nat /\ dropped \in Nat
    /\ delivered \subseteq Indices /\ lost \subseteq Indices

\* No index is fetched twice or charged twice: what was delivered, what a recorded
\* failure covers, what a worker still holds and what no worker has taken yet are
\* disjoint (worker.go:226-262, the split of an item over several responses).
OwnedOnce ==
    /\ delivered \cap lost = {}
    /\ \A i \in delivered \cup lost : i < takePos
    /\ \A w \in Workers : InHand(w) =>
          /\ Rest(w) \cap (delivered \cup lost) = {}
          /\ \A i \in Rest(w) : i < takePos
          /\ \A v \in Workers \ {w} : InHand(v) => Rest(v) \cap Rest(w) = {}

\* Until the context is cancelled no index leaves the pool unnoticed: taken
\* indices are delivered, charged to a failure, or in a worker's hand.
NothingUnnoticed ==
    ~cancelled =>
        \A i \in Indices : i < takePos =>
            i \in delivered \cup lost \/ \E w \in Workers : InHand(w) /\ i \in Rest(w)

\* Failed or incomplete ranges are errors, never silent success (README.md:231):
\* without cancellation FetchRange returns nil exactly when the whole range was
\* delivered, and an IncompleteRangeError counts exactly the missing entries.
VerdictHonest ==
    (caller = "returned" /\ ~cancelled) =>
        /\ verdict = "nil" <=> delivered = Indices
        /\ verdict = "incomplete" => dropped = Cardinality(Indices \ delivered)

\* A worker never sends on the closed results channel: by the time FetchRange
\* returns, and closes it, no worker goroutine is left.
NoSendAfterClose == caller = "returned" => Running = {}

\* FetchRange returns, cancelled or not, and leaves no feeder, no worker and no
\* undrained batch behind: no deadlock on a full channel, no leaked goroutine.  The one
\* way around it is a ticker so fast that the coordinator for ever counts a worker about to
\* leave and adds another, which finds the work drained.
FetchReturns ==
    \/ <>[](caller = "returned" /\ ~feeding /\ Running = {} /\ queued = 0)
    \/ []<><<AddWorker>>_vars

Promise == INSTANCE RangeFetch WITH
    verdict <- IF verdict \in {"running", "nil"} THEN verdict ELSE "error"

\* Seen from the goroutine that drains results, the pool is a RangeFetch.
ImplementsRangeFetch == Promise!Spec
=============================================================================
