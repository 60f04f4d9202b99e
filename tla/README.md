# ct-hulhu in TLA+

ct-hulhu fetches the entries of Certificate Transparency logs, keeps those that concern the
configured domains and appends them to an output file, once (*scrape*) or for as long as it runs
(*monitor*). What the program promises is that nothing it was asked for is silently missing:
`README.md` calls the collector "intentionally loss-aware", resume state may never run ahead of the
output, and a failed delta is retried. The modules here model the code behind that promise, TLC
checks them on small instances, and TLAPS proves what can be proved for every size.

Paths below are relative to `src/internal/` unless they begin with `src/`.

## 1. Inventory

| Component | State it keeps | Operations | Hard because of | Correct when |
|---|---|---|---|---|
| Progress tracker `ctlog/progress.go` | `next`, map `pending` of segments, mutex | `Mark`, `Next` | batches in any order, random map iteration, deletion while iterating | the prefix is exactly the first index not marked, monotonic, and the loop ends |
| Worker pool `ctlog/worker.go` | work channel, workers, atomic counters, results channel, context | `FetchRange` and its goroutines | feeder, workers, coordinator, caller and cancellation interleave on bounded channels; partial responses split items | every index is delivered once or accounted for; it returns; no send on a closed channel |
| Scrape `runner/runner.go` 232-459 | local variables of a run, state file | `scrape`, `scrapeLog`, load/save state | flush, mark and save are separate steps; crashes between them; shrinking or stale tree heads; `-from-end` moves the range | no state file and no success is ahead of the output on disk |
| Monitor `runner/runner.go` 498-729 | sessions with positions, one state file per log | start-up, poll round, delta | one goroutine per log on shared writers; retries; restarts | nothing between the start of monitoring and a saved position is missing; a failed delta is retried |
| Output writer `output/output.go` | bufio buffer, sticky error, dedup map | `WriteResult`, `Flush`, `Close` | errors surface later, on someone else's call; dedup before write; lines that reach the file in pieces | an acknowledged flush means the record is on disk; half lines only where a process ended |
| Evidence writer `evidence/malformed.go` | buffer, sticky error | `Append`, `Flush`, `Close` | as above | as above |
| State files `runner/runner.go` 899-1068 | one JSON file per log and mode | atomic replace, load with binding checks | rename without directory sync, error after the rename | a reader sees some complete version, never one ahead of the data |
| Startup baseline `runner/run_with_baseline.go`, `monitor_baseline.go` | baseline artifact | write once before the first poll | ordering against start-up and polls, restore by a supervisor | restored state never skips an entry |
| Range and resume arithmetic `runner.go` 876-897, `ctlog/types.go` | none | `calculateRange`, `SafeResumeIndex` | negative and huge options, wrapping addition, equal bounds | a run skips only what the saved prefix proves |
| RFC 6962 client `ctlog/client.go` | next request slot | request with retries | slots shared by all workers, cancellation in a slot's sleep, a request or a backoff | the rate is kept, waiting does not pile up, every call returns |
| Static CT client `staticct/client.go`, `tile.go` | current checkpoint, anchor, tile cache | tree head, raw entries | unverified tiles cached, several goroutines, heads that move, partial tiles that vanish | entries served belong to the verified head |
| Merkle arithmetic `staticct/merkle.go` | none | range root, root with leaf | powers of two, tile edges | equals the RFC 6962 definition |
| Certificate parser `certparser/parser.go` | compiled filter | leaf parsing, domain match | nested lengths; two normalizations of one option | reads back what the log wrote; state is bound to the filter it was made under |
| Log list, options, updater | none that matters here | | | |

How they interact: `scrapeLog` and `fetchAndProcess` start `FetchRange` in a goroutine, drain its
results channel, hand every batch to `parseBatch` (which writes to the two writers concurrently),
flush the writers, call `Mark`, and from time to time save the prefix. Cancellation reaches all of
them through one context. The workers of a pool and the monitor's poll share one client and its
request slots. The next process run meets the others only through files.

## 2. Modules

| Module | Models | State and actions |
|---|---|---|
| `PrefixTracker` | what the tracker promises | one action: `Mark` answers the first index not marked |
| `ContiguousProgress` | `progress.go` | a call is `MarkNothing`, or `Enter`, one `Visit` per map key in any order, `NextPass` when the pass moved the prefix, `Return`. `marked` and `answer` are history |
| `RangeFetch` | what `FetchRange` promises the consumer | batches in any order, no overlap, `nil` only for a complete or cancelled fetch |
| `WorkerPool` | `worker.go` | feeder `Feed`, `CloseWork`; workers `Take`, `Leave`, `RateTick`, `LoopHead`, `Response`, `Failure`, `Send`, `Abandon`; coordinator `FirstWorker`, `LoadActive`, `LoadSuccesses`, `AddWorker`, `KeepWorkers`, `StopRamping`, `WorkersDone` (a tick loads its counters one after the other, so that what it goes by may be stale); caller `Select`, `ReturnCtxErr`, `ReturnCounted`; `Cancel`, `Drain`. The work channel is FIFO over consecutive items, so it is the pair of its ends, `takePos` and `feedPos` |
| `RequestGate` | `waitRequestSlot` and the retry loop around it, for all callers of one client | `now` is explicit. `Start`, `Reserve`, `Send`, `Succeed`, `Fail`, `Retry`, `GiveUpSlot`, `GiveUpRetry`, `Cancel`, `Tick`. `granted` is history: each slot and when its request went out |
| `DurableFile` | the two writers and the state file as far as loss matters | no variables: buffer, kernel, disk and sticky error of a file, and the set of files each operation may leave |
| `FileContract` | that a file changes in these ways and in no other | `Open`, `Use`, `End` |
| `OutputFile` | `output.go` with lines in pieces | `Open`, `WriteResult` (dedup with its limit, a buffer that overflows in the middle of a line), `Flush`, `Close`, `Killed`, `PowerLost` |
| `Checkpoint` | the discipline of `fetchAndProcess` and `scrapeLog` over `OutputFile`, and `atomicWriteJSON` step by step | `Give`, `FetchFails`, `FlushBatch`, then `CreateTemp`, `WriteTemp`, `SyncTemp`, `Rename` or `SaveFails`; `Stop`, `Crash`, `PowerLoss` |
| `ScrapeLog` | `scrape` and `scrapeLog` over any number of process runs | one action per step of the loop: `Receive`, `ParseEntry`, `FlushOutput`, `FlushEvidence`, `SkipMark`/`MarkBatch`, `PeriodicSave`, ..., and `Crash`, `PowerLoss` |
| `MonitorLog` | `monitor` over several logs and runs | per log `InitSaved`, `InitFresh`, `InitSaveFails`, `InitFails`, then `InitDone`; `Round`, and in it the goroutine of a log through `job[l].at`: `NewHead`, `Receive`, `ParseResult`, `FlushOutput`, ..., `PoolEnds`, `SaveAndMove`, `SaveFails`; `Interrupt`, `Exit`, `Crash`, `PowerLoss`. A state has `from` as history: where the stretch begins that its position stands for |
| `ResumePlan` | `calculateRange`, `SafeResumeIndex` and what `scrapeLog` decides with them, in integers that wrap | one decision per behaviour, from every combination of options, tree size and saved state; `plan` is the outcome: refused (a smaller tree than saved, or another root at the same size), empty, done, or the fetch and the prefix its saves will claim |
| `StartupBaseline` | `run_with_baseline.go`, `monitor_baseline.go`, and the supervising transaction of `docs/MONITOR_BASELINE.md` | per log `LoadState`, `InitialHead`, `SaveInitial`, then `Publish`, then polls as `Deliver`, `SaveAndMove`; `Launch`, `Commit`, `Restore` are the supervisor's; `End` may come at any step |
| `MerkleTiles` | `merkle.go` and the RFC 6962 definition it has to meet | pure operators and recursive functions of the size; hashes are the terms they are hashes of |
| `StaticClient` | `staticct/client.go` over `MerkleTiles` | every call is a record in `calls`: the tiles it still needs and the hashes it has. `CacheHit`, `CacheMiss`, `TileArrives`, `TileFails` read one tile; `FetchCheckpoint`, `CheckRoot`, `CheckPrefix` are `GetTreeHead`; `ReadEntries`, `VerifyEntries`, `Take` are `GetRawEntries`; `SaveHead`, `Restart` are the runner's |
| `DataTiles` | tile paths and the range loop of `GetRawEntries` with its fallback from a partial tile to the full one | pure operators; the loop and the digits of a path are recursive functions |
| `EntryCodec` | the bytes of a data tile and of a `MerkleTreeLeaf`: `parseDataTile`, and certparser behind it | pure operators over sequences of cells, one for a field of fixed width; the loop over a tile is a recursive function of what is left of it |
| `DomainFilter` | the two normalizations of a domain option, the match, and what a result is matched by | pure operators over characters |
| `Algorithms` | what `MerkleTiles`, `DataTiles`, `EntryCodec` and `DomainFilter` have to answer, for any tree, range, tile and options | one variable, the question; no actions |

The proofs are in modules of their own that extend the components': `Resume_proofs` (what a
restart relies on: the tracker, the resume plan, the startup baseline, and the domain filter, to which
a state is bound), `WorkerPool_proofs`, `RequestGate_proofs`, `ScrapeLog_proofs`, `MonitorLog_proofs`,
`Checkpoint_proofs` (with the output file), `StaticClient_proofs` (with the Merkle arithmetic, data tiles
and entries), and
`DurableFile_proofs` with the lemmas about files that the runner modules share. Modules that begin
with `MC` give the constants their values for TLC.

The composition goes by contracts. `ScrapeLog` and `MonitorLog` do not contain the tracker and the
pool: they take from `PrefixTracker` that a mark yields the first gap, and from `RangeFetch` that
batches are disjoint parts of the range in any order and that an early `nil` only follows a
cancellation. That the two components implement these contracts is checked and proved. They do not
contain a file of bytes either: they take a `DurableFile`, with records that are there or not, and
that `OutputFile` implements it (read as the records that are whole lines) is checked and proved.
`ScrapeLog` has the range and resume decisions of `ResumePlan` over naturals, one level of
detail above it. `StaticClient` and `Algorithms` build on `MerkleTiles` by extension; `Algorithms`
extends `DomainFilter` too and takes `DataTiles` and `EntryCodec` as instances. `MCAlgorithms`
extends `ResumePlan` and `Algorithms` and puts questions to all of them.

Every module has mutants beside its definitions (comments that begin with "Mutant:"): variants of a
definition as a plausible bug would leave it. Each checked property is violated when the mutant
listed for it in `PROJECT.json` takes the definition's place.

## 3. What the runs check

Passing runs. Sizes are distinct states.

| Run | Instance | What it shows |
|---|---|---|
| `tracker` | indices 0..5, start 1 (7.9 thousand) | whatever intervals are marked and in whatever order the map is iterated: no gap is crossed, no stale segment stays, every call returns, and a call is one step of `PrefixTracker` |
| `pool` | five entries in three items, two workers at a time, rate ticker on (397 thousand) | every index is in exactly one place and none leaves unnoticed; the verdict and the count of missing entries are right; nobody sends on the closed channel; all goroutines end; the pool implements `RangeFetch` |
| `gate` | two callers, two calls with one retry each, a slot every two units, timers up to one late (100 thousand) | requests keep their distance whoever makes them, retries included; slots do not pile up; every call returns, and after a cancellation at once |
| `scrape` | three entries, one malformed, three runs of two kinds of options (1.4 million) | the state file, in every version a power loss can bring back, is behind the disk; so is what is marked in memory, and what a successful run claims; positions do not move back |
| `monitor` | two logs with two and one entries, two runs, two faults (598 thousand) | whatever version of the state file is left, nothing is missing between where its monitoring into the present output began and its position; sessions are never ahead of their file; an entry the dedup map suppresses is really written; a monitor that keeps running on files that accept writes catches up |
| `checkpoint` | three records in two pieces, a buffer of three pieces, a dedup map of two keys, two runs, two faults (150 thousand) | the state, in every version, is behind the whole lines on disk; damaged lines stand only where a process ended or failed; dedup is exact up to its limit and only forgets beyond it; `OutputFile` implements `FileContract` |
| `baseline` | two interchangeable logs, trees up to 3, any number of transactions (900 thousand) | however the process is cut off, restore and commit both leave every entry either kept or ahead of the position; what was emitted can be gone back to; an artifact means that every log is covered |
| `static` | three entries in tiles of two, two views, two workers, a cache of two (1.1 million) | served entries are those of the accepted checkpoint; the cache keeps its bound under races; checkpoints that are backed by their own tiles extend the one before, over restarts too |
| `algorithms` | one behaviour per question (122 thousand): 4-bit integers for plans, trees of up to 16 leaves in tiles of four, ranges over up to 16 entries in tiles of three, option strings of up to four characters, names of up to three labels, data tiles of two entries cut anywhere | plans ask for what the options say, skip only what is proved, and use all that is proved; roots out of tiles are those of RFC 6962; a range is read in order, without gap or repetition; options that bind alike filter alike; an option selects exactly the names under its domain; entries are read back as the log wrote them |

The bounds are small but reach the cases that matter. In `tracker` four segments fit beside one
another with gaps between them, and a map pass has up to 3! orders. Three items are more than two workers
take at once, so the feeder, the work channel and the coordinator all have something to wait for,
and the third item is the one that is cut. In `gate` a caller can be late while
the slot behind it is taken, and a stretch without calls lets `nextRequest` fall behind the clock. Three
entries and batches of two give the scrape a batch that fails before, between and after others; three
runs are enough for a run to inherit a state from a run that had itself resumed. In the monitor a
second run resumes after the first or starts afresh behind it; two faults are a failure and a second
one during its repair; two logs are what it takes for one goroutine to flush another's records. In
`checkpoint` every overflow of the buffer cuts a line, and the map is full before the last record.
Four bits wrap as 64 do. In tiles of four a tree of 16 fills two levels to the brim and all sizes below
leave partial tiles on each; in `static` tiles of two put a hash of level 1 into a tree of three,
and a cache of two is smaller than what one consistency check reads. One entry is read per request
there: verification is per entry, and two workers read concurrently.

Deadlock is checked in `tracker`, `pool`, `baseline` and `static`. The other models end on
purpose: their numbers of runs, calls, entries and faults are used up, or their one answer is computed.

`PROJECT.json` binds every definition to the lines it models.

## 4. Fairness

- `ContiguousProgress`: a call that has begun takes its steps; it runs under the mutex and waits for
  nothing.
- `WorkerPool`: every goroutine is scheduled; a request ends, because the HTTP client has a
  timeout; the consumer drains, because it is a `range` loop. Nothing forces a cancellation, a
  success, or the ticker. `FetchReturns` has the exception that the code has: a coordinator
  that always counts a worker about to leave, and so adds another, could go on for ever.
- `RequestGate`: goroutines run and requests end. That time passes is not part of the specification:
  it is a hypothesis of the first half of `CallsEnd` (a call returns after its retries), and the
  second half (a cancelled call returns) does without it.
- `MonitorLog`: weak fairness for the process as a whole: start-up goes on, the ticker ticks, and of
  the goroutines of a round some one takes a step (a round is finite, so each ends); and strong fairness
  for seeing the newest head: the log does not hide it from every poll. `CatchesUp` is about a
  monitor that stays up and whose writers have no sticky error; behind one it makes no progress
  until it is restarted, as `output/output.go:77` has it.
- `StaticClient` (`FairSpec`): the client polls, `LogRecovers` may happen once, and from then on
  the log answers everything with the truth. Tiles of the wrong length are what it may answer
  before.

## 5. Where the code and its documentation disagree

Three runs end in a violation, each of one property.

- `scrape_fresh_then_resume`. A run without `-resume` truncates the output and leaves the state
  file of an earlier resumed run alone; the next run with `-resume` skips entries that are no longer
  in the output (`runner/runner.go:250`).
- `static_garbled_tile_stays`. `getCached` keeps every body that came with status 200. One of the
  wrong length fails its caller, and every later one, long after the log has recovered
  (`staticct/client.go:399`).
- `static_prefix_unbound`. The signed root and the root of the previous tree are computed from
  different tiles when the previous size cuts through a subtree, and nothing compares those tiles
  with one another: a checkpoint can be accepted that does not contain the saved tree
  (`staticct/client.go:259`). The passing run states what is left: it holds when the tiles are
  those of the new tree.

More is admitted as behaviour by the models, and the passing properties are stated so that they do
not deny it.

- A cancelled `FetchRange` may return nil for an undelivered range, since its select takes either
  case when both are ready (`ctlog/worker.go:173`; `worker_test.go:100` expects an error).
  `RangeFetch` allows it, `ImplementsRangeFetch` needs it, and the runner models show that the
  callers' own comparison of the prefix with the end makes it harmless.
- `start + count` wraps for a huge `-n` (`runner/runner.go:892`), the range is then empty, and the
  run reports success. `RangeIsWanted` says so: what wraps leaves nothing, never a wrong range.
- `atomicWriteJSON` does not sync the directory (`runner/runner.go:945`), so a power loss may bring
  back an older version of a state file, or undo the first one. Where none is left, the next
  session starts at the current head, and what the log added in between is never fetched. With an older
  version it starts further back, where that version's own stretch ends. `NoGapSinceStart` therefore
  speaks of each version by itself: between its `from` and its `pos` nothing is missing.
- After a crash in the middle of a line the next run appends to the half line, so that its first
  record is damaged with it, although it was flushed and acknowledged (`output/output.go:208`).
  `DamageOnlyAtSeams` says that this is all; the state counts such a record as written.
- With its map full, the writer remembers nothing new (`output/output.go:109`): entries of a
  retried delta are then written again. `DedupExact` says what is left.
- The rate of `-rl` is per client, and a monitor has one client per log: N logs make up to N times as
  many requests (`src/README.md:238` speaks of all requests). `RateKept` is about one client.
- With `-start` at or beyond what a stale tree head shows, a run ends with success before it looks
  at its saved state (`runner/runner.go:362`), since there is nothing to do; the next run is not
  affected.

## 6. What is proved

The theorems hold for every value of the constants that satisfies the assumption named in the
module, and the further assumptions stated with them.

**Tracker** (`TrackerBounds`: two naturals). `TrackerInvariant` proves `IndInv`. "No gap is crossed"
alone is not inductive: to absorb a segment safely one has to know that pending segments hold only
indices that were asked for (`PendingWasMarked`), and to end the loop with the exact prefix, that
the segments already visited in a pass without progress lie beyond the gap (`VisitedBeyondGap`), for
any order of visits. From it follow types, `NoGapCrossed`, `NothingForgotten`,
`NoDebrisBetweenCalls`, the exactness of the answer (`FirstUnprocessed`), that the prefix never
moves back (`PrefixGrows`), and the refinement: `Enter` and `Visit` stutter, `Return` is the
abstract `Mark`.

**Pool** (`PoolConstants`: a non-empty range, a positive batch size, finitely many workers). The
invariant adds to `OwnedOnce` and `NothingUnnoticed` where items come from (`Cutting`: the two ends
of the work channel are a whole number of items apart, so an item is never taken that reaches into
the next), what a worker's remainder is after any sequence of partial responses (`Hands`), that the
counter of dropped entries is the cardinality of what was lost (`Counted`), and how far the
goroutines have got (`Stages`: without a cancellation the last worker leaves only when the channel is
closed and empty, and the caller returns only after the coordinator has seen all workers leave).
`VerdictHonest` and `NoSendAfterClose` follow. For the refinement, a `Send` that succeeds is the
abstract delivery and the caller's return the abstract verdict; everything else stutters.

**Request gate** (`GateConstants`: finitely many callers, times are naturals, at most ten retries).
`RateKept` follows from two facts about the slots of the past: two of them are as many intervals
apart as there are slots between them, and the last of them is one interval before the horizon, the
time where the next slot cannot lie before. A sleeper is awake within `Slack` of its slot, so what
holds of slots holds of requests up to `Slack`. `NoDebt` is not inductive, as time moves callers out
of the queue; the invariant says it of every later time at once: what is reserved beyond it belongs
to callers that still wait then (`NoDebtAhead`).

**Resume plan** (`PlanConstants`: option, size and index values lie in the machine's integers).
`PlanRangeIsWanted`, `PlanSkipsOnlyProven` and `PlanResumesWhereProven` for any integer size: the
first covers the sum that wraps; the second is what makes resuming safe, that the entries skipped, and those claimed beyond what is
fetched, lie in the saved prefix; the third what makes it worthwhile. The state has one step, so the
invariant is the definition of the step; the work is in the arithmetic of wrapping addition, the
lemmas `PlanNumbers` and `PlanInputs`.

**Files** (`DurableFile_proofs`). What each operation preserves of a file: it stays within its type,
what is on disk was written, nothing leaves the disk, a record is in buffer, kernel or disk as long as
no error is noted, and a flush without an error has it on disk.

**Output file and checkpoint** (`OutputConstants`: finitely many records, a buffer that takes one;
`CheckpointConstants`: records are numbers and a torn state file is none).
`CheckpointDamageOnlyAtSeams`, `CheckpointDedupExact` and `CheckpointStateBehindOutput`, for any
buffer, any dedup limit, and any number of runs, failed writes, crashes and power losses, wherever
in a line they strike. The properties speak of the file; the invariant has to speak of the file and the buffer as one
sequence of pieces (`Content`), since only there lines are whole: an overflow leaves half a line in the file
and the other half in the buffer. `OutputInv` says of this sequence that its pieces fit but for the
seams, that what the last flush left behind ends with a line, that the process's own part ends with
one too as long as nothing failed, and that each key of the dedup map begins exactly one line of that part
(`MapExact`). Where a process ends the statement moves from the content to what is left of it: a prefix
of a sequence that fits, fits. `ProgressInv` says that every version of the state file claims only
records whose whole line survives a power loss; to keep it, the records handed over since the last flush
must be whole in the content while no error is noted, and durable between the flush and
the save (`GivenWritten`).

`CheckpointImplementsFileContract` is the refinement that lets the runner modules work with
sets of records: what is flushed, pending and durable of a file of pieces, read as its whole
lines, changes only as `FileContract` allows. The delicate steps are those that cut: a write that
breaks off keeps a prefix of the pieces, which is a set of records that arrived and perhaps a half line that is
none; what an overflow has put into the file counts as pending until the buffer is next emptied for good, so
that a line that lies half in each is split by neither view.

**Scrape**. `CheckpointOnDisk`, `SuccessOnDisk` and `MarkedOnDisk`, for any log, batches, options
and any number of runs, failures, crashes and power losses. The invariant follows a batch from
the buffer through the kernel to the disk, a statement per place in the loop (`BatchOnItsWay`): by the
time it is marked, an error of either writer would have been noticed. What the tracker's prefix
claims, together with what was inherited from the saved state, is on disk (`PrefixOnDisk`). The
assumption is `~FreshRuns`: with runs that truncate the output the claims are false, which the run
`scrape_fresh_then_resume` shows. `CheckpointGrows` needs no such assumption.

**Monitor**. `NoGapSinceStart`, `SessionBehindState` and `SuppressedIsWritten`, for any set of logs
whose goroutines share the writers. The invariant has, per log, that every version of the state file a
power loss can bring back claims only what is on disk (`StateSafe`), that the session and its delta
do (`DeltaSafe`), and the way of the batch at hand (`BatchOnItsWay`). The latter is where the
sharing matters: between a goroutine's write and its flush others may flush, or break, the same
writer; sticky errors make this safe, since an error stays until every batch that wrote before has
noticed it (`FilesKept`, `OthersSafe`). Nothing is assumed beyond `MonitorConstants`: runs without
`-resume`, and power losses that undo any save, are among the behaviours.

**Baseline** (`BaselineConstants`: `Absent` is no number and no position map). `BaselineInvariant`
proves `TransactionInv` for any set of logs. Between transactions the claim is about state files
and what is kept (`NothingUnreplayable`); during one neither is final, since a crash hands the
decision to the supervisor. The invariant therefore speaks of both outcomes at once: at every step,
what a restore would bring back leaves nothing behind it unkept, and what a commit would add closes
the distance to the state file. For that it follows the process through its phases: sessions start
where their state file is, nothing is emitted before the artifact is out, and while polling what
was emitted covers the span from the restored position to the session, or to the delta's end once
it is delivered. There is one lemma per action. `BaselineCovers` (`ArtifactMeansCovered`) rests on the
same invariant.

**Merkle arithmetic** (`TileConstants`: tiles have a positive height; `AlgorithmConstants`: trees have
at most `TwoTo[MaxHeight]` leaves, in the code 2^40, to which `staticct/checkpoint.go:16` and `:80` hold
the size of a checkpoint). `PrefixRootsExact`: out of the tiles of a tree the code computes
the RFC 6962 root of every tree it contains. `InclusionsExact`: the entry at an index, and no other,
leads to the root. `TreeHashInjective`: trees of one size with the same root are the same. That hashes
are terms means that SHA-256 is taken to have no collisions, and that a leaf, a node and the empty
tree are never mistaken for one another; the prefixes 0x00 and 0x01 are there for that.

The operators recur on the size of a range, so the proofs need that a recursive definition has a
solution and that what holds of all smaller sizes holds of a size. The library's theorems for this
take operators; here both are stated over sets. `Recursion` builds the solution of a step that looks
only at smaller numbers out of its approximations, from the fact that a set of naturals has a
least element, and `Ladder` is induction over a set of naturals. On these rest: the split of the
code, found by doubling, is the one RFC 6962 asks for (`SplitIsLargest`); nodes are what splits of powers
of two lead to (`SplitOfPower`), and hashes folded pairwise out of one tile are the node's hash
(`FoldGenuine`, `NodeGenuine`); ranges are put together of nodes (`RangeGenuine`, `LeafGenuine`); hashes of different
leaves differ (`HashInjective`). That the properties are not empty takes `InclusionTilesAreThere` and
`RangeTilesAreThere`: the tiles asked for are those the log has, with the width it has them in.

**Static client** (`ClientConstants`: a cache of at least one tile, and views of bounded size).
`ClientCacheBounded`, `ClientServesSigned` and `ClientHeadsExtend`, for any number of workers and
views, and a log that may answer any call out of any of them. `CacheInv` adds to the bound that the
order lists the paths of the map, each once; two calls that miss the same tile and store it
one after the other keep that because the second finds it in the map. `ClientInv` follows a
call: between its checkpoint and its verdict the tiles it has and those it still needs are together
at least those that the verdict is computed from (`Continues`: no step forgets one). Then
`ClientServesSigned` needs nothing of the tiles themselves, since whatever they contain a leaf that
leads to the root of the tree is the tree's (`LeafOfRoot`). `ClientHeadsExtend` does need it: where the
tiles are those of the new tree, `PrefixRoots` makes the root that the code compares the root of the
prefix, and `TreeHashInjective` makes equal roots equal trees. Without that condition the claim is false, as
`static_prefix_unbound` shows. TLC confirmed both invariants on the instance of `static` before they
were proved.

**Data tiles** (`DataConstants`: tiles of any positive width, paths in any radix from two on and with
any positive number of digits in an element; the mark of a failure is no list of entries).
`RangesReadThemselves`, for any tree, any checkpoint of it, any range, and whatever partial tiles the
log still has after it has grown. The loop of `GetRawEntries` is a recursive function of how much is
left; each pass takes at least one entry and at most what its tile has (`Recursion`, `Ladder` as
above). A tile path is the number of its tile in digits, padded to whole elements, and it is the only
path the log takes for that number, so that what comes back are the entries of that tile. The theorem is exact
about failure: it comes exactly when the range reaches into a partial tile that is no longer
there and whose full tile is not there yet. A range that ends before the partial tile never fails, and the
fallback to the full tile, which then holds more entries than the client asked for, gives the same ones.

**Entries** (`DataConstants`: tiles are made of log entries; fields are numbers). `TilesReadBack`, for
any number of entries of both types, with contents of any length. `parseDataTile` finds in what is
left of a tile the entry the log put first and stops where it ends; where the tile is cut off inside that
entry, some field cannot be read, whichever it is. So by the length of what is left, the parser gives back the
entries up to the cut if the cut is between two, and nothing otherwise. That
`parseMerkleTreeLeaf` then finds the timestamp, the type and the certificate, for a pre-certificate in
the extra data, is the last step.

**Domain filter** (`CharConstants`: capitals and small letters are not blanks, dots or
stars; `NameConstants`: a domain is not empty, has no blanks or stars, and neither begins nor ends
with a dot). `BindingDetermines`, for all sets of options, of any number and length: a state that is accepted
for its domain hash was made under the same filter. The two normalizations cut and lower-case in different orders;
the proof gives the parser's as a function of the runner's, since cutting the front dot commutes with
lower-casing and with cutting the dot behind. `OptionsSelect`, for any name and any way to write an
option: what the normalization leaves of the option is the domain in small letters (`OptionIs`), since blanks, marks
and domain cannot be mistaken for one another; and `matchesDomain`, with its rule for wildcards in
names and its dot in front of the suffix, agrees with the domains a name has behind its dots (`MatchesIs`,
`BelongsIs`). So `badexample.com` is not under `example.com`, and no dot in the option makes it so.

**Only model-checked.** Liveness (`MarkReturns`, `FetchReturns`, `CallsEnd`, `CatchesUp`): the prover
does not reason about fairness and `ENABLED`. Every invariant and every other action property of the passing
runs is the subject of a theorem. The violations of section 5 are TLC's too.

## 7. What the models leave out

- In the runner modules requests with their retries are one step that succeeds or fails;
  `RequestGate` has the retries. `-retries` is at most ten (`runner/options.go`), so the backoff's
  shift cannot overflow. `Slack` bounds how late a timer may be served; the code has no such bound,
  and without one no rate is kept.
- An HTTP answer is entries, a tree size, or a tile. JSON and base64 decoding only decides between
  success and failure.
- The root hash is a function of the tree size in the runner models, so two heads of one size
  never disagree there. The check for another root at the saved size (`runner/runner.go:372`) is in
  `ResumePlan`, where a saved state agrees with the log or does not; `StaticClient` is where trees differ.
- In `StaticClient` data tiles are answers with the right number of entries, whatever they contain;
  `DataTiles` and `EntryCodec` have the rest. A root, a prefix or a proof reads each tile once; the code
  asks `getCached` again for every node (`staticct/merkle.go:128`, `staticct/client.go:363`), so two
  different bodies of one tile within one computation, with an eviction between, are left out. Signatures are taken to be valid.
  `maxStaticCacheEntries` is `CacheMax`. The runner never asks for a tree head while workers read
  entries, so the model does not either.
- An entry yields one record or one evidence event, and in the runner modules files are sets of them: no
  order, no duplicates, no half lines; `OutputFile` has lines. A file that was created stays, what fsync
  acknowledged is on disk, and of what it did not acknowledge a power loss keeps a prefix.
- A worker that leaves takes itself off the count and out of the group in one step.
- The semaphores of a poll round and of a batch bound concurrency and order nothing; they are left out.
- Several logs in one scrape take turns; the model has one log. The bindings of a state file (source,
  options, selection) only make a run refuse it; of these the domain hash is modelled, in
  `DomainFilter`. A domain file that cannot be read only gives a warning (`runner/runner.go:816`).
- X.509 parsing, output fields and `Sanitize`, the log list and its filters, options, banner and
  logging have no state that the properties depend on.
- The self-updater cannot be reached: both entry points refuse `-update`
  (`runner/runner.go:42-44`, `runner/run_with_baseline.go:29`).

## 8. Plan

1. Built, in this order: tracker and pool with their contracts, files, scrape, monitor; the resume
   arithmetic, the start-up transaction, Merkle arithmetic and the static client; the request gate, the
   output file in lines with the checkpoint discipline over it, domain filter, data tiles and entry
   bytes; the proofs of pool, gate, scrape and monitor; of output file and checkpoint with the
   refinement of `FileContract`, of Merkle arithmetic and static client, and of the domain binding; of
   data tiles, entries and the selection of names.
2. What is left of "partly": several logs in one scrape with the state bindings of
   `loadScrapeProgress`, and `RunWithBaseline` composed with the deltas of `MonitorLog` instead of a delta
   as one step.
3. Proofs worth adding: that several scrapes in turn keep what one keeps, once 2 is built. Of what the
   runs check now, only liveness is left to TLC.
