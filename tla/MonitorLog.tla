------------------------------ MODULE MonitorLog ------------------------------
(***************************************************************************)
(* runner.monitor over several logs and any number of process runs: the    *)
(* concurrent start-up of one session per log, the poll rounds with one    *)
(* goroutine per log, the output and evidence writers those goroutines     *)
(* share, and the state file of each log, through failed requests, failed  *)
(* writes, crashes and power losses.                                       *)
(*                                                                         *)
(* As in ScrapeLog the worker pool is a RangeFetch and the tracker a       *)
(* PrefixTracker.  The semaphore over a round only limits how many of its  *)
(* goroutines run at once and is left out.  An entry is a pair of its log  *)
(* and its index; it yields one output record or one evidence event.       *)
(***************************************************************************)
EXTENDS Integers, FiniteSets, DurableFile

CONSTANTS
    Logs,           \* the selected logs
    MaxTree,        \* per log: it grows up to this many entries (a bound for TLC)
    Malformed,      \* the entries the parser rejects
    BatchSize,      \* largest batch the pool delivers
    MaxRuns,        \* process starts (a bound for TLC)
    MaxFaults,      \* failures of any kind (a bound for TLC)
    WriteFaults,    \* TRUE: writes to the output or evidence file may fail
    PowerFaults,    \* TRUE: the machine may lose power
    FreshRuns,      \* TRUE: some of the runs are started without -resume
    None

\* What the state file of a log can say: a position.  As history it also has where the
\* stretch of entries begins that this position stands for in the present output.
MonitorState == [pos : Nat, from : Nat]

ASSUME MonitorConstants ==
    /\ IsFiniteSet(Logs) /\ Logs # {}
    /\ MaxTree \in [Logs -> Nat] /\ Malformed \subseteq Logs \X Nat
    /\ BatchSize \in Nat \ {0} /\ MaxRuns \in Nat /\ MaxFaults \in Nat
    /\ {WriteFaults, PowerFaults, FreshRuns} \subseteq BOOLEAN
    /\ None \notin MonitorState

VARIABLES
    tree,      \* per log: its size
    out, mal,  \* the shared output and evidence files
    known,     \* the output writer's dedup map: entries written by this process
    state,     \* per log: its monitor state file
    pc,        \* "down", "init", "poll" or "exit"
    resume,    \* this run was started with -resume (of no account after start-up)
    session,   \* per log: "none", "ready" or "failed" during start-up
    pos,       \* per log: session.pos
    job,       \* per log: the goroutine of the current poll round
    runs, faults

files == <<out, mal, known>>
vars == <<tree, out, mal, known, state, pc, resume, session, pos, job, runs, faults>>

Span(from, to) == from .. (to - 1)
Entries(l, from, to) == {<<l, i>> : i \in Span(from, to)}

NoJob == [at |-> "idle", head |-> 0, todo |-> {}, batch |-> {}, left |-> {},
          malWritten |-> FALSE, batchFailed |-> FALSE, failed |-> FALSE,
          marked |-> {}, next |-> 0]

Init == /\ tree = [l \in Logs |-> 0]
        /\ out = Empty /\ mal = Empty /\ known = {}
        /\ state = [l \in Logs |-> NewState(None)]
        /\ pc = "down" /\ resume = FALSE
        /\ session = [l \in Logs |-> "none"]
        /\ pos = [l \in Logs |-> 0]
        /\ job = [l \in Logs |-> NoJob]
        /\ runs = 0 /\ faults = 0

\* A step that fails uses up one of the faults; one that does not leaves them.
Fault == faults < MaxFaults /\ faults' = faults + 1
NoFault == UNCHANGED faults

\* The same for a write that turns a writer's sticky error on.
WriteOutcome(before, after) ==
    IF after.err /\ ~before.err THEN WriteFaults /\ Fault ELSE NoFault

Grow(l) == /\ tree[l] < MaxTree[l]
           /\ tree' = [tree EXCEPT ![l] = @ + 1]
           /\ UNCHANGED <<files, state, pc, resume, session, pos, job, runs, faults>>

-----------------------------------------------------------------------------
(* Start-up: writers opened, then one goroutine per log.                   *)

StartAt(head) == [pos |-> head, from |-> head]

Rebased(v) == IF v = None THEN None ELSE StartAt(v.pos)

\* A truncated output holds nothing of what the state files stand for; the files
\* themselves are not touched.
Emptied(s) == [seen |-> Rebased(s.seen), older |-> {Rebased(v) : v \in s.older}]

Begin(r) == /\ pc = "down"
            /\ runs < MaxRuns
            /\ r \/ FreshRuns
            /\ runs' = runs + 1
            /\ resume' = r
            /\ out' = Opened(out, r) /\ mal' = Opened(mal, TRUE) /\ known' = {}
            /\ session' = [l \in Logs |-> "none"]
            /\ state' = IF r THEN state ELSE [l \in Logs |-> Emptied(state[l])]
            /\ pc' = "init"
            /\ UNCHANGED <<tree, pos, job, faults>>

Starting(l) == pc = "init" /\ session[l] = "none"

Saved(l) == IF resume THEN state[l].seen ELSE None

\* A saved position is where the session starts, unless the log now shows less.
InitSaved(l, head) ==
    /\ Starting(l)
    /\ Saved(l) # None
    /\ IF Saved(l).pos > head
       THEN /\ session' = [session EXCEPT ![l] = "failed"]
            /\ UNCHANGED pos
       ELSE /\ session' = [session EXCEPT ![l] = "ready"]
            /\ pos' = [pos EXCEPT ![l] = Saved(l).pos]
    /\ UNCHANGED <<tree, files, state, pc, resume, job, runs, faults>>

\* Without one the session starts at the current head, and says so on disk first.
InitFresh(l, head) ==
    /\ Starting(l)
    /\ Saved(l) = None
    /\ state' = [state EXCEPT ![l] = Replaced(@, StartAt(head))]
    /\ session' = [session EXCEPT ![l] = "ready"]
    /\ pos' = [pos EXCEPT ![l] = head]
    /\ UNCHANGED <<tree, files, pc, resume, job, runs, faults>>

\* The first save fails after its rename: the log has no session, but a state file.
InitSaveFails(l, head) ==
    /\ Starting(l)
    /\ Saved(l) = None
    /\ Fault
    /\ state' = [state EXCEPT ![l] = Replaced(@, StartAt(head))]
    /\ session' = [session EXCEPT ![l] = "failed"]
    /\ UNCHANGED <<tree, files, pc, resume, pos, job, runs>>

\* Reader, state or tree head failed, or the first save before its rename.
InitFails(l) == /\ Starting(l)
                /\ session' = [session EXCEPT ![l] = "failed"]
                /\ Fault
                /\ UNCHANGED <<tree, files, state, pc, resume, pos, job, runs>>

\* Start-up fails unless every selected log has its session.
InitDone == /\ pc = "init"
            /\ \A l \in Logs : session[l] # "none"
            /\ pc' = IF \A l \in Logs : session[l] = "ready" THEN "poll" ELSE "exit"
            /\ job' = [l \in Logs |-> NoJob]
            /\ resume' = FALSE
            /\ UNCHANGED <<tree, files, state, session, pos, runs, faults>>

-----------------------------------------------------------------------------
(* A poll round.  A goroutine that is through is "done" until the next.    *)

At(l, at) == pc = "poll" /\ job[l].at = at
SetJob(l, j) == job' = [job EXCEPT ![l] = j]
NextAt(l, at) == SetJob(l, [job[l] EXCEPT !.at = at])
Done == [NoJob EXCEPT !.at = "done"]

Round == /\ pc = "poll"
         /\ \A l \in Logs : job[l].at = "done"
         /\ job' = [l \in Logs |-> NoJob]
         /\ UNCHANGED <<tree, files, state, pc, resume, session, pos, runs, faults>>

\* No tree head, a smaller one, or the one already processed: position retained.
NoNews(l) == /\ At(l, "idle")
             /\ SetJob(l, Done)
             /\ UNCHANGED <<tree, files, state, pc, resume, session, pos, runs, faults>>

\* The log may answer with a head older than its newest.
NewHead(l, head) ==
    /\ At(l, "idle")
    /\ head > pos[l]
    /\ SetJob(l, [NoJob EXCEPT !.at = "fetch", !.head = head,
                               !.todo = Span(pos[l], head), !.next = pos[l]])
    /\ UNCHANGED <<tree, files, state, pc, resume, session, pos, runs, faults>>

Receive(l, a, b) ==
    /\ At(l, "fetch")
    /\ a < b /\ b - a <= BatchSize
    /\ Span(a, b) \subseteq job[l].todo
    /\ SetJob(l, [job[l] EXCEPT !.at = "parse", !.todo = @ \ Span(a, b),
                                !.batch = Span(a, b), !.left = Span(a, b),
                                !.malWritten = FALSE, !.batchFailed = FALSE])
    /\ UNCHANGED <<tree, files, state, pc, resume, session, pos, runs, faults>>

\* WriteResult: nothing behind a sticky error; an entry the dedup map knows is not
\* written again; otherwise it enters the map before the write is attempted.
WriteResult(e) ==
    /\ IF out.err \/ e \in known
       THEN UNCHANGED out
       ELSE out' \in AfterWrite(out, e)
    /\ known' = IF out.err THEN known ELSE known \cup {e}
    /\ WriteOutcome(out, out')

ParseResult(l, i) ==
    /\ At(l, "parse")
    /\ i \in job[l].left /\ <<l, i>> \notin Malformed
    /\ WriteResult(<<l, i>>)
    /\ SetJob(l, [job[l] EXCEPT !.left = @ \ {i}])
    /\ UNCHANGED <<tree, mal, state, pc, resume, session, pos, runs>>

ParseMalformed(l, i) ==
    /\ At(l, "parse")
    /\ i \in job[l].left /\ <<l, i>> \in Malformed
    /\ mal' \in AfterWrite(mal, <<l, i>>)
    /\ WriteOutcome(mal, mal')
    /\ SetJob(l, [job[l] EXCEPT !.left = @ \ {i},
                                !.malWritten = @ \/ ~mal'.err,
                                !.batchFailed = @ \/ mal'.err])
    /\ UNCHANGED <<tree, out, known, state, pc, resume, session, pos, runs>>

FirstGap(n, j, marked) ==
    n >= j.next /\ Span(j.next, n) \subseteq marked /\ n \notin marked

\* A batch with an error fails the delta and is not marked.  Failures and tracker are
\* the goroutine's own, so this goes with the last flush.
MarkBatch(l, j) ==
    LET marked == j.marked \cup j.batch
        rest == [j EXCEPT !.at = "fetch", !.batch = {}, !.malWritten = FALSE,
                          !.batchFailed = FALSE]
    IN IF j.batchFailed
       THEN SetJob(l, [rest EXCEPT !.failed = TRUE])
       ELSE \E n \in j.next .. j.head :
               /\ FirstGap(n, j, marked)
               /\ SetJob(l, [rest EXCEPT !.marked = marked, !.next = n])

\* The evidence is flushed only if the batch wrote some.
OutputFlushed(l, err) ==
    LET j == [job[l] EXCEPT !.batchFailed = @ \/ err]
    IN IF j.malWritten THEN SetJob(l, [j EXCEPT !.at = "flush"]) ELSE MarkBatch(l, j)

\* Mutant: a failed flush is reported once and then forgotten.
FlushForgetsError(l) ==
    /\ At(l, "parse")
    /\ job[l].left = {}
    /\ \E f \in AfterFlush(out) :
          /\ out' = [f EXCEPT !.err = FALSE]
          /\ WriteOutcome(out, f)
          /\ OutputFlushed(l, f.err)
    /\ UNCHANGED <<tree, mal, known, state, pc, resume, session, pos, runs>>

FlushOutput(l) ==
    /\ At(l, "parse")
    /\ job[l].left = {}
    /\ out' \in AfterFlush(out)
    /\ WriteOutcome(out, out')
    /\ OutputFlushed(l, out'.err)
    /\ UNCHANGED <<tree, mal, known, state, pc, resume, session, pos, runs>>

FlushEvidence(l) ==
    /\ At(l, "flush")
    /\ mal' \in AfterFlush(mal)
    /\ WriteOutcome(mal, mal')
    /\ MarkBatch(l, [job[l] EXCEPT !.batchFailed = @ \/ mal'.err])
    /\ UNCHANGED <<tree, out, known, state, pc, resume, session, pos, runs>>

\* Mutant: a delta without failures is taken to be complete.
DeltaDoneTrusting(j) == ~j.failed

\* fetchAndProcess succeeds only without failures and with the prefix at the head.
DeltaDone(j) == ~j.failed /\ j.next = j.head

\* Mutant: the goroutine of a failed delta never reports to the round's group.
DeltaEndsHung(l, failed) ==
    LET j == [job[l] EXCEPT !.failed = @ \/ failed]
    IN SetJob(l, IF DeltaDone(j) THEN [j EXCEPT !.at = "save"] ELSE [j EXCEPT !.at = "hung"])

DeltaEnds(l, failed) ==
    LET j == [job[l] EXCEPT !.failed = @ \/ failed]
    IN SetJob(l, IF DeltaDone(j) THEN [j EXCEPT !.at = "save"] ELSE Done)

\* The results channel is closed, with everything delivered or by a failure or a
\* cancellation; the latter may come without an error.
PoolEnds(l) ==
    /\ At(l, "fetch")
    /\ \/ job[l].todo = {} /\ NoFault /\ DeltaEnds(l, FALSE)
       \/ job[l].todo # {} /\ Fault /\ \E failed \in BOOLEAN : DeltaEnds(l, failed)
    /\ UNCHANGED <<tree, files, state, pc, resume, session, pos, runs>>

\* Mutant: the session moves on although its checkpoint could not be saved.
MoveUnsaved(l) ==
    /\ At(l, "save")
    /\ Fault
    /\ pos' = [pos EXCEPT ![l] = job[l].head]
    /\ SetJob(l, Done)
    /\ UNCHANGED <<tree, files, state, pc, resume, session, runs>>

\* The saved position stands for a longer stretch from the same beginning.
SavedUpTo(l) == Replaced(state[l], [state[l].seen EXCEPT !.pos = job[l].head])

\* The checkpoint is persisted, and only then does the session move on.
SaveAndMove(l) ==
    /\ At(l, "save")
    /\ state' = [state EXCEPT ![l] = SavedUpTo(l)]
    /\ pos' = [pos EXCEPT ![l] = job[l].head]
    /\ SetJob(l, Done)
    /\ UNCHANGED <<tree, files, pc, resume, session, runs, faults>>

\* The save fails, before the rename or after it: the position is retained.
SaveFails(l) ==
    /\ At(l, "save")
    /\ Fault
    /\ \/ UNCHANGED state
       \/ state' = [state EXCEPT ![l] = SavedUpTo(l)]
    /\ SetJob(l, Done)
    /\ UNCHANGED <<tree, files, pc, resume, session, pos, runs>>

-----------------------------------------------------------------------------
(* The end of a run.                                                       *)

\* Start-up failed, or the context was cancelled and the round is over: writers
\* are flushed and closed.
Interrupt == /\ pc = "poll"
             /\ \A l \in Logs : job[l].at \in {"idle", "done"}
             /\ Fault
             /\ pc' = "exit"
             /\ job' = [l \in Logs |-> NoJob]
             /\ UNCHANGED <<tree, files, state, resume, session, pos, runs>>

Gone == /\ pc' = "down"
        /\ known' = {}
        /\ job' = [l \in Logs |-> NoJob]
        /\ pos' = [l \in Logs |-> 0]
        /\ session' = [l \in Logs |-> "none"]
        /\ resume' = FALSE
        /\ UNCHANGED <<tree, runs>>

Exit == /\ pc = "exit"
        /\ \E o \in AfterFlush(out), m \in AfterFlush(mal) :
              /\ out' = [o EXCEPT !.err = FALSE]
              /\ mal' = [m EXCEPT !.err = FALSE]
        /\ Gone
        /\ UNCHANGED <<state, faults>>

Crash == /\ pc # "down"
         /\ Fault
         /\ out' \in AfterExit(out) /\ mal' \in AfterExit(mal)
         /\ Gone
         /\ UNCHANGED state

PowerLoss == /\ PowerFaults
             /\ Fault
             /\ out' \in AfterPowerLoss(out) /\ mal' \in AfterPowerLoss(mal)
             /\ \E s \in [Logs -> UNION {StateAfterPowerLoss(state[l]) : l \in Logs}] :
                   /\ \A l \in Logs : s[l] \in StateAfterPowerLoss(state[l])
                   /\ state' = s
             /\ Gone

Fetch(l) == \/ \E a, b \in 0..MaxTree[l] : Receive(l, a, b)
            \/ \E i \in job[l].left : ParseResult(l, i) \/ ParseMalformed(l, i)
            \/ FlushOutput(l) \/ FlushEvidence(l)
            \/ PoolEnds(l) \/ SaveAndMove(l) \/ SaveFails(l)

InitLog(l) == \/ InitFails(l)
              \/ \E head \in 0..tree[l] : 
                   InitSaved(l, head) \/ InitFresh(l, head) \/ InitSaveFails(l, head)

\* The goroutine of l in a poll round.
Poll(l) == \/ NoNews(l) \/ Fetch(l)
           \/ \E head \in 0..tree[l] : NewHead(l, head)

Next == \/ \E r \in BOOLEAN : Begin(r)
        \/ \E l \in Logs : Grow(l) \/ InitLog(l) \/ Poll(l)
        \/ InitDone \/ Round \/ Interrupt \/ Exit \/ Crash \/ PowerLoss

Spec == Init /\ [][Next]_vars

\* The process runs: start-up goes on, the ticker ticks, and of the goroutines of a
\* round some one takes a step.  A log does not hide its newest head from every poll.
FairSpec == /\ Spec
            /\ WF_vars(InitDone \/ Round \/ \E l \in Logs : InitLog(l) \/ Poll(l))
            /\ \A l \in Logs : SF_vars(NewHead(l, tree[l]))

-----------------------------------------------------------------------------
AllEntries == Logs \X Nat
FileType == [buf : SUBSET AllEntries, os : SUBSET AllEntries,
             disk : SUBSET AllEntries, err : BOOLEAN]
JobType == [at : {"idle", "fetch", "parse", "flush", "save", "done"},
            head : Nat, todo : SUBSET Nat, batch : SUBSET Nat, left : SUBSET Nat,
            malWritten : BOOLEAN, batchFailed : BOOLEAN, failed : BOOLEAN,
            marked : SUBSET Nat, next : Nat]

TypeOK ==
    /\ tree \in [Logs -> Nat] /\ pos \in [Logs -> Nat]
    /\ state \in [Logs -> [seen : MonitorState \cup {None},
                           older : SUBSET (MonitorState \cup {None})]]
    /\ out \in FileType /\ mal \in FileType /\ known \subseteq AllEntries
    /\ pc \in {"down", "init", "poll", "exit"} /\ resume \in BOOLEAN
    /\ session \in [Logs -> {"none", "ready", "failed"}]
    /\ job \in [Logs -> JobType]
    /\ runs \in Nat /\ faults \in Nat

OnDisk(e) == IF e \in Malformed THEN e \in mal.disk ELSE e \in out.disk

\* Monitor positions move only after the corresponding output and evidence is
\* durable (README.md:234): whatever version of its state file a log is left with, the
\* newest or one that a power loss brings back, everything from the beginning of the
\* stretch to the position is on disk, across runs, retries, write errors the log
\* itself did not cause, and restarts.
NoGapSinceStart ==
    \A l \in Logs : \A v \in Versions(state[l]) \ {None} :
        \A e \in Entries(l, v.from, v.pos) : OnDisk(e)

\* ... and the new monitor state is persisted (README.md:234): a session is never
\* ahead of its state file.
SessionBehindState ==
    \A l \in Logs : (pc = "poll" /\ session[l] = "ready") =>
        /\ state[l].seen # None
        /\ pos[l] <= state[l].seen.pos

\* An entry the dedup map suppresses is in the file or in its buffer, unless the
\* writer is stuck on an error and can acknowledge nothing: a retried delta may
\* rely on records its failed predecessor wrote.
SuppressedIsWritten ==
    pc # "down" /\ ~out.err => known \subseteq out.buf \cup out.os

\* A failed delta is retried: a monitor that keeps running, on files that accept
\* writes, catches up with every log in spite of failed requests and failed saves.
\* Behind a writer's sticky error it never does: then only a restart helps.
CatchesUp ==
    <>[](pc = "poll" /\ ~out.err /\ ~mal.err) => <>[](\A l \in Logs : pos[l] = tree[l])
=============================================================================
