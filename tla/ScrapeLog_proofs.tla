-------------------------- MODULE ScrapeLog_proofs --------------------------
(***************************************************************************)
(* Proofs about ScrapeLog: for logs of any size, batches of any size and   *)
(* any number of runs, failures, crashes and power losses.                 *)
(***************************************************************************)
EXTENDS ScrapeLog, DurableFile_proofs, TLAPS

\* The places of a process that has planned its fetch.
Loop == {"fetch", "parse", "flush", "mark", "save", "final", "finalSave", "verdict"}

FilesSound == Sound(out, Indices) /\ Sound(mal, Indices)

-----------------------------------------------------------------------------
(* Types                                                                   *)

LEMMA Numbers ==
    /\ MaxTree \in Nat /\ TailDefault \in Nat
    /\ BatchSize \in Nat /\ SaveEvery \in Nat /\ MaxRuns \in Nat
BY ScrapeConstants

LEMMA RequestedRange ==
    ASSUME NEW opts \in Options, NEW size \in Nat
    PROVE  /\ Requested(opts, size).from \in Nat
           /\ Requested(opts, size).to \in Int
           /\ Requested(opts, size).to <= size
<1>1. opts \in [start : Int, count : Nat, fromEnd : BOOLEAN]  BY ScrapeConstants
<1>2. opts.start \in Int /\ opts.count \in Nat  BY <1>1
<1>3. CASE opts.fromEnd
  <2>1. Requested(opts, size).to = size  BY <1>3 DEF Requested
  <2>2. Requested(opts, size).from
          = IF opts.count > 0 THEN Larger(size - opts.count, 0)
            ELSE IF opts.start >= 0 THEN opts.start
            ELSE Larger(0, size - TailDefault)
    BY <1>3 DEF Requested
  <2> QED  BY <1>2, <2>1, <2>2, Numbers DEF Larger
<1>4. CASE ~opts.fromEnd
  <2>1. Requested(opts, size).from = Larger(opts.start, 0)  BY <1>4 DEF Requested
  <2>2. Requested(opts, size).to
          = IF opts.count > 0 THEN Smaller(Larger(opts.start, 0) + opts.count, size)
            ELSE size
    BY <1>4 DEF Requested
  <2> QED  BY <1>2, <2>1, <2>2 DEF Larger, Smaller
<1> QED  BY <1>3, <1>4

LEMMA IdleRun == Idle \in RunType
BY DEF Idle, RunType

LEMMA SpanIndices ==
    ASSUME NEW a \in Nat, NEW b \in Int, b <= MaxTree
    PROVE  Span(a, b) \subseteq Indices
BY Numbers DEF Span, Indices

\* What Plan decides.
PlanIs(size, from, to, proof, start) ==
    /\ run' = [run EXCEPT !.from = from, !.to = to, !.size = size,
                          !.proof = proof, !.todo = Span(start, to),
                          !.next = start, !.lastSaved = start]
    /\ pc' = IF start >= to THEN "exit" ELSE "fetch"
    /\ from < to /\ to <= MaxTree /\ proof <= from
    /\ \/ /\ Saved # None /\ Saved \in ProgressType
          /\ proof = Saved.from /\ from < Saved.next
          /\ start = Smaller(Saved.next, to)
       \/ /\ proof = from /\ start = from
          /\ Saved # None => ~(Saved.from <= from /\ from < Saved.next)
    /\ ~Shrunk(size)
    /\ UNCHANGED <<tree, out, mal, state, promised, runs>>

LEMMA Planned ==
    ASSUME TypeOK, NEW size \in 0..tree, Plan(size)
    PROVE  \E from \in Nat, to \in Nat, proof \in Nat, start \in Nat :
              PlanIs(size, from, to, proof, start)
<1> DEFINE req == Requested(run.opts, size)
           resumed == Resumable(Saved, req.from)
           start == IF resumed THEN Smaller(Saved.next, req.to) ELSE req.from
           proof == ProofStart(resumed, req.from)
<1>1. size \in Nat /\ size <= MaxTree  BY Numbers DEF TypeOK
<1>2. /\ req.from \in Nat /\ req.to \in Int /\ req.to <= size /\ req.from < req.to
  BY <1>1, RequestedRange DEF Plan, TypeOK
<1>3. Saved # None => Saved \in ProgressType
  BY DEF Saved, TypeOK, Versions
<1>4. /\ run' = [run EXCEPT !.from = req.from, !.to = req.to, !.size = size,
                            !.proof = proof, !.todo = Span(start, req.to),
                            !.next = start, !.lastSaved = start]
      /\ pc' = IF start >= req.to THEN "exit" ELSE "fetch"
      /\ ~Shrunk(size)
      /\ UNCHANGED <<tree, out, mal, state, promised, runs>>
  BY DEF Plan
<1>5. CASE resumed
  <2>1. /\ Saved # None /\ Saved \in ProgressType
        /\ Saved.from \in Nat /\ Saved.next \in Nat
        /\ Saved.from <= req.from /\ req.from < Saved.next
    BY <1>3, <1>5 DEF Resumable, ProgressType
  <2>2. proof = Saved.from /\ start = Smaller(Saved.next, req.to)  BY <1>5 DEF ProofStart
  <2>3. start \in Nat /\ req.to \in Nat  BY <1>2, <2>1, <2>2 DEF Smaller
  <2>4. req.to <= MaxTree  BY <1>1, <1>2, Numbers
  <2> HIDE DEF req, resumed, start, proof
  <2> QED  BY <1>2, <1>4, <2>1, <2>2, <2>3, <2>4 DEF PlanIs
<1>6. CASE ~resumed
  <2>1. Saved # None => ~(Saved.from <= req.from /\ req.from < Saved.next)
    BY <1>6 DEF Resumable
  <2>2. proof = req.from /\ start = req.from  BY <1>6 DEF ProofStart
  <2>3. req.to \in Nat /\ req.to <= MaxTree  BY <1>1, <1>2, Numbers
  <2>4. proof \in Nat /\ start \in Nat /\ proof <= req.from  BY <1>2, <2>2
  <2> HIDE DEF req, resumed, start, proof
  <2> QED  BY <1>2, <1>4, <2>1, <2>2, <2>3, <2>4, Zenon DEF PlanIs
<1> QED  BY <1>5, <1>6

LEMMA TypeInit == Init => TypeOK /\ FilesSound
<1> SUFFICES ASSUME Init PROVE TypeOK /\ FilesSound
  OBVIOUS
<1>1. Sound(Empty, Indices)  BY DEF Sound, Empty, FileOf
<1>2. Versions(state) = {None}  BY DEF Init, NewState, Versions
<1>3. tree \in 0..MaxTree /\ runs \in 0..MaxRuns  BY Numbers DEF Init
<1>4. Span(Idle.from, Idle.to) = {}  BY DEF Idle, Span
<1> QED
  BY <1>1, <1>2, <1>3, <1>4, IdleRun DEF Init, TypeOK, FilesSound, Sound, FileType, FileOf

LEMMA VersionsOfReplaced ==
    ASSUME NEW p, state' = Replaced(state, p)
    PROVE  Versions(state)' = Versions(state) \cup {p} /\ state'.seen = p
BY ReplacedState

LEMMA VersionsAfterPowerLoss ==
    ASSUME state' \in StateAfterPowerLoss(state)
    PROVE  Versions(state)' \subseteq Versions(state)
BY StateLost

LEMMA TypeNext ==
    TypeOK /\ FilesSound /\ [Next]_vars => (TypeOK /\ FilesSound)'
<1> SUFFICES ASSUME TypeOK, FilesSound, [Next]_vars PROVE (TypeOK /\ FilesSound)'
  OBVIOUS
<1> DEFINE Goal == (TypeOK /\ FilesSound)'
<1>a. Sound(out, Indices) /\ Sound(mal, Indices) /\ run \in RunType  BY DEF FilesSound, TypeOK
<1>b. ASSUME UNCHANGED state PROVE Versions(state)' \subseteq ProgressType \cup {None}
  BY <1>b DEF TypeOK, Versions
<1>c. Progress \in ProgressType  BY <1>a DEF Progress, ProgressType, RunType
<1>d. /\ Idle \in RunType /\ Span(Idle.from, Idle.to) = {}
      /\ Span(run.from, run.to) \subseteq Indices
  BY IdleRun DEF Idle, Span, TypeOK
<1>1. ASSUME Grow PROVE Goal
  <2>1. tree' \in 0..MaxTree  BY <1>1, Numbers DEF Grow, TypeOK
  <2> QED  BY <1>1, <1>a, <1>b, <2>1 DEF Grow, TypeOK, FilesSound
<1>2. ASSUME NEW resume \in BOOLEAN, NEW opts \in Options, Begin(resume, opts) PROVE Goal
  <2>1. Sound(out', Indices) /\ Sound(mal', Indices)
    BY <1>2, <1>a, OpenedFile, TruncatedFile DEF Begin
  <2>2. run' \in RunType /\ run'.opts \in Options
        /\ run'.from = Idle.from /\ run'.to = Idle.to
    BY <1>2, IdleRun DEF Begin, RunType
  <2>3. runs' \in 0..MaxRuns  BY <1>2, Numbers DEF Begin, TypeOK
  <2> QED
    BY <1>2, <1>b, <1>d, <2>1, <2>2, <2>3 DEF Begin, TypeOK, FilesSound, Sound, FileType, FileOf
<1>3. ASSUME ConnectFails \/ PoolEnds \/ SkipMark PROVE Goal
  <2>1. run' \in RunType /\ run'.from = run.from /\ run'.to = run.to
    BY <1>3, <1>a DEF ConnectFails, PoolEnds, SkipMark, RunType
  <2> QED  BY <1>3, <1>b, <1>d, <2>1 DEF ConnectFails, PoolEnds, SkipMark, TypeOK, FilesSound
<1>4. ASSUME NEW size \in 0..tree, NothingToDo(size) PROVE Goal
  BY <1>4, <1>b DEF NothingToDo, TypeOK, FilesSound
<1>5. ASSUME NEW size \in 0..tree, Regressed(size) PROVE Goal
  <2>1. run' \in RunType /\ run'.from = run.from /\ run'.to = run.to
    BY <1>5, <1>a DEF Regressed, RunType
  <2> QED  BY <1>5, <1>b, <1>d, <2>1 DEF Regressed, TypeOK, FilesSound
<1>6. ASSUME NEW size \in 0..tree, Plan(size) PROVE Goal
  <2>1. PICK from \in Nat, to \in Nat, proof \in Nat, start \in Nat :
           PlanIs(size, from, to, proof, start)
    BY <1>6, Planned
  <2>2. /\ run' = [run EXCEPT !.from = from, !.to = to, !.size = size,
                              !.proof = proof, !.todo = Span(start, to),
                              !.next = start, !.lastSaved = start]
        /\ pc' \in {"exit", "fetch"}
        /\ UNCHANGED <<tree, out, mal, state, promised, runs>>
    BY <2>1 DEF PlanIs
  <2>3. Span(start, to) \subseteq Indices /\ Span(from, to) \subseteq Indices
    <3>1. to <= MaxTree  BY <2>1 DEF PlanIs
    <3> QED  BY <3>1, SpanIndices
  <2>4. run' \in RunType /\ run'.from = from /\ run'.to = to
    <3>1. size \in Nat  OBVIOUS
    <3> QED  BY <1>a, <2>2, <2>3, <3>1 DEF RunType
  <2> QED  BY <1>b, <2>2, <2>3, <2>4 DEF TypeOK, FilesSound
<1>7. ASSUME NEW a \in 0..tree, NEW b \in 0..tree, Receive(a, b) PROVE Goal
  <2>1. Span(a, b) \subseteq Indices  BY <1>7, <1>a DEF Receive, RunType
  <2>2. run' \in RunType /\ run'.from = run.from /\ run'.to = run.to
    BY <1>7, <1>a, <2>1 DEF Receive, RunType
  <2> QED  BY <1>7, <1>b, <1>d, <2>2 DEF Receive, TypeOK, FilesSound
<1>8. ASSUME NEW i \in run.left, ParseEntry(i) PROVE Goal
  <2>1. i \in Indices  BY <1>a DEF RunType
  <2>2. Sound(out', Indices) /\ Sound(mal', Indices)
    BY <1>8, <1>a, <2>1, WrittenFile DEF ParseEntry
  <2>3. mal'.err \in BOOLEAN  BY <2>2 DEF Sound, FileType, FileOf
  <2>4. run' \in RunType /\ run'.from = run.from /\ run'.to = run.to
    BY <1>8, <1>a, <2>3 DEF ParseEntry, RunType
  <2> QED
    BY <1>8, <1>b, <1>d, <2>2, <2>4 DEF ParseEntry, TypeOK, FilesSound, Sound, FileType, FileOf
<1>9. ASSUME FlushOutput \/ FinalFlush PROVE Goal
  <2>1. Sound(out', Indices) /\ Sound(mal', Indices)
    BY <1>9, <1>a, FlushedFile DEF FlushOutput, FinalFlush
  <2>2. out'.err \in BOOLEAN  BY <2>1 DEF Sound, FileType, FileOf
  <2>3. run' \in RunType /\ run'.from = run.from /\ run'.to = run.to
    BY <1>9, <1>a, <2>2 DEF FlushOutput, FinalFlush, RunType
  <2> QED
    BY <1>9, <1>b, <1>d, <2>1, <2>3
    DEF FlushOutput, FinalFlush, TypeOK, FilesSound, Sound, FileType, FileOf
<1>10. ASSUME FlushEvidence PROVE Goal
  <2>1. Sound(out', Indices) /\ Sound(mal', Indices)
    BY <1>10, <1>a, FlushedFile DEF FlushEvidence
  <2>2. mal'.err \in BOOLEAN  BY <2>1 DEF Sound, FileType, FileOf
  <2>3. run' \in RunType /\ run'.from = run.from /\ run'.to = run.to
    BY <1>10, <1>a, <2>2 DEF FlushEvidence, RunType
  <2> QED
    BY <1>10, <1>b, <1>d, <2>1, <2>3 DEF FlushEvidence, TypeOK, FilesSound, Sound, FileType, FileOf
<1>11. ASSUME MarkBatch PROVE Goal
  <2>1. PICK n \in run.next .. run.to :
           /\ run' = [run EXCEPT !.marked = @ \cup run.batch, !.next = n]
           /\ pc' \in {"save", "fetch"}
           /\ UNCHANGED <<tree, out, mal, state, promised, runs>>
    BY <1>11 DEF MarkBatch
  <2>2. n \in Nat  BY <1>a DEF RunType
  <2>3. run' \in RunType /\ run'.from = run.from /\ run'.to = run.to
    BY <1>a, <2>1, <2>2 DEF RunType
  <2> QED  BY <1>b, <1>d, <2>1, <2>3 DEF TypeOK, FilesSound
<1>12. ASSUME PeriodicSave \/ FinalSave PROVE Goal
  <2>1. Versions(state)' \subseteq ProgressType \cup {None}
    BY <1>12, <1>b, <1>c, VersionsOfReplaced DEF PeriodicSave, FinalSave, SaveState, TypeOK
  <2>2. run' \in RunType /\ run'.from = run.from /\ run'.to = run.to
    BY <1>12, <1>a DEF PeriodicSave, FinalSave, RunType
  <2> QED  BY <1>12, <1>d, <2>1, <2>2 DEF PeriodicSave, FinalSave, TypeOK, FilesSound
<1>13. ASSUME Verdict PROVE Goal
  <2>1. run' \in RunType /\ run'.from = run.from /\ run'.to = run.to
    BY <1>13, <1>a DEF Verdict, RunType
  <2> QED  BY <1>13, <1>b, <1>d, <2>1 DEF Verdict, TypeOK, FilesSound
<1>14. ASSUME Exit PROVE Goal
  <2>1. PICK o \in AfterFlush(out), m \in AfterFlush(mal) :
           /\ promised' = IF run.failed \/ o.err \/ m.err THEN {} ELSE Span(run.from, run.to)
           /\ out' = [o EXCEPT !.buf = {}, !.err = FALSE]
           /\ mal' = [m EXCEPT !.buf = {}, !.err = FALSE]
    BY <1>14 DEF Exit
  <2>2. Sound(out', Indices) /\ Sound(mal', Indices)  BY <1>a, <2>1, FlushedFile, ClosedFile
  <2>3. promised' \subseteq Indices  BY <1>d, <2>1
  <2> QED
    BY <1>14, <1>b, <2>2, <2>3, <1>d DEF Exit, TypeOK, FilesSound, Sound, FileType, FileOf
<1>15. ASSUME Crash PROVE Goal
  <2>1. Sound(out', Indices) /\ Sound(mal', Indices)  BY <1>15, <1>a, ExitedFile DEF Crash
  <2> QED  BY <1>15, <1>b, <2>1, <1>d DEF Crash, TypeOK, FilesSound, Sound, FileType, FileOf
<1>16. ASSUME PowerLoss PROVE Goal
  <2>1. Sound(out', Indices) /\ Sound(mal', Indices)  BY <1>16, <1>a, LostFile DEF PowerLoss
  <2>2. Versions(state)' \subseteq ProgressType \cup {None}
    BY <1>16, VersionsAfterPowerLoss DEF PowerLoss, TypeOK
  <2> QED
    BY <1>16, <2>1, <2>2, <1>d DEF PowerLoss, TypeOK, FilesSound, Sound, FileType, FileOf
<1>17. ASSUME UNCHANGED vars PROVE Goal
  BY <1>17, <1>b DEF vars, TypeOK, FilesSound
<1> QED  BY <1>1, <1>2, <1>3, <1>4, <1>5, <1>6, <1>7, <1>8, <1>9, <1>10, <1>11, <1>12,
            <1>13, <1>14, <1>15, <1>16, <1>17 DEF Next, Scrape

\* The variables keep their types, and what is durable in a file has been written to it.
THEOREM ScrapeTypes == Spec => [](TypeOK /\ FilesSound)
BY TypeInit, TypeNext, PTL DEF Spec

-----------------------------------------------------------------------------
(* Durability: the inductive invariant.                                    *)

\* The prefix the next save will claim.
PrefixOnDisk == \A i \in Span(run.proof, run.next) : OnDisk(i)

\* The way of a batch to the disk.  An error of the output writer is only seen at its
\* next flush, one of the evidence writer at once.
Held(i) == IF i \in Malformed
           THEN run.batchFailed \/ (run.malWritten /\ i \in mal.buf \cup mal.os)
           ELSE out.err \/ i \in out.buf \cup out.os

Flushed(i) == IF i \in Malformed
              THEN run.malWritten /\ i \in mal.buf \cup mal.os
              ELSE i \in out.disk

BatchOnItsWay ==
    /\ pc = "parse" => \A i \in run.batch \ run.left : Held(i)
    /\ pc = "flush" => run.batchFailed \/ \A i \in run.batch : Flushed(i)
    /\ pc = "mark" => run.batchFailed \/ \A i \in run.batch : OnDisk(i)

\* A run claims nothing behind the start of its range.
ClaimsFromStart == pc \in Loop => run.proof <= run.from

\* At the end of a run without failures the range is on disk; before the plan there is
\* no range.
RangeOnDisk ==
    /\ pc = "connect" => Span(run.from, run.to) = {}
    /\ (pc = "exit" /\ ~run.failed) => \A i \in Span(run.from, run.to) : OnDisk(i)

IInv == /\ TypeOK /\ FilesSound
        /\ CheckpointOnDisk /\ MarkedOnDisk /\ SuccessOnDisk
        /\ PrefixOnDisk /\ BatchOnItsWay /\ ClaimsFromStart /\ RangeOnDisk

\* Nothing that is on disk is lost.
DiskGrows == out.disk \subseteq out'.disk /\ mal.disk \subseteq mal'.disk

LEMMA OnDiskStays == ASSUME DiskGrows, NEW i, OnDisk(i) PROVE OnDisk(i)'
BY DEF DiskGrows, OnDisk

\* The disk claims a step does not add to.
LEMMA ClaimsStay ==
    ASSUME IInv, DiskGrows
    PROVE  /\ Versions(state)' \subseteq Versions(state) => CheckpointOnDisk'
           /\ run'.marked \subseteq run.marked => MarkedOnDisk'
           /\ promised' \subseteq promised => SuccessOnDisk'
           /\ run'.proof = run.proof /\ run'.next = run.next => PrefixOnDisk'
BY OnDiskStays DEF IInv, CheckpointOnDisk, MarkedOnDisk, SuccessOnDisk, PrefixOnDisk

LEMMA IInvInit == Init => IInv
<1> SUFFICES ASSUME Init PROVE IInv
  OBVIOUS
<1>1. Span(Idle.proof, Idle.next) = {} /\ Span(Idle.from, Idle.to) = {}
      /\ Idle.marked = {}
  BY DEF Idle, Span
<1>2. Versions(state) = {None}  BY DEF Init, NewState, Versions
<1> QED  BY <1>1, <1>2, TypeInit DEF Init, IInv, CheckpointOnDisk, MarkedOnDisk,
            SuccessOnDisk, PrefixOnDisk, BatchOnItsWay, ClaimsFromStart, RangeOnDisk, Loop

\* When a process is gone, only the claims of its files are left.
LEMMA DownIsSafe ==
    ASSUME IInv, DiskGrows, run' = Idle, pc' = "down",
           Versions(state)' \subseteq Versions(state), SuccessOnDisk'
    PROVE  /\ CheckpointOnDisk' /\ MarkedOnDisk' /\ PrefixOnDisk'
           /\ BatchOnItsWay' /\ ClaimsFromStart' /\ RangeOnDisk'
<1>1. Span(Idle.proof, Idle.next) = {} /\ Idle.marked = {}  BY DEF Idle, Span
<1>2. CheckpointOnDisk'  BY ClaimsStay
<1>3. MarkedOnDisk' /\ PrefixOnDisk'  BY <1>1 DEF MarkedOnDisk, PrefixOnDisk
<1> QED  BY <1>2, <1>3 DEF BatchOnItsWay, ClaimsFromStart, RangeOnDisk, Loop

-----------------------------------------------------------------------------
(* The actions.                                                            *)

LEMMA BeginSafe ==
    ASSUME IInv, NEW opts \in Options, Begin(TRUE, opts)
    PROVE  /\ CheckpointOnDisk' /\ MarkedOnDisk' /\ SuccessOnDisk' /\ PrefixOnDisk'
           /\ BatchOnItsWay' /\ ClaimsFromStart' /\ RangeOnDisk'
<1>1. run' = [Idle EXCEPT !.resume = TRUE, !.opts = opts]  BY DEF Begin
<1>2. /\ run'.from = 0 /\ run'.to = 0 /\ run'.proof = 0 /\ run'.next = 0
      /\ run'.marked = {}
  BY <1>1 DEF Idle
<1>3. DiskGrows  BY OpenedFile DEF Begin, DiskGrows, IInv, FilesSound
<1>4. CheckpointOnDisk'  BY <1>3, ClaimsStay DEF Begin, Versions
<1>5. SuccessOnDisk'  BY DEF Begin, SuccessOnDisk
<1>6. MarkedOnDisk' /\ PrefixOnDisk'  BY <1>2 DEF MarkedOnDisk, PrefixOnDisk, Span
<1>7. RangeOnDisk'  BY <1>2 DEF Begin, RangeOnDisk, Span
<1> QED  BY <1>4, <1>5, <1>6, <1>7 DEF Begin, BatchOnItsWay, ClaimsFromStart, Loop

\* The plan takes over the prefix of the state file, or starts an empty one.
LEMMA PlanSafe ==
    ASSUME IInv, NEW size \in 0..tree, Plan(size)
    PROVE  /\ CheckpointOnDisk' /\ MarkedOnDisk' /\ SuccessOnDisk' /\ PrefixOnDisk'
           /\ BatchOnItsWay' /\ ClaimsFromStart' /\ RangeOnDisk'
<1>1. PICK from \in Nat, to \in Nat, proof \in Nat, start \in Nat :
         PlanIs(size, from, to, proof, start)
  BY Planned DEF IInv
<1>2. /\ run' = [run EXCEPT !.from = from, !.to = to, !.size = size,
                            !.proof = proof, !.todo = Span(start, to),
                            !.next = start, !.lastSaved = start]
      /\ pc' = IF start >= to THEN "exit" ELSE "fetch"
      /\ UNCHANGED <<out, mal, state, promised>>
  BY <1>1 DEF PlanIs
<1>3. /\ run'.from = from /\ run'.to = to /\ run'.proof = proof /\ run'.next = start
      /\ run'.marked = run.marked /\ run'.failed = run.failed
  BY <1>2 DEF IInv, TypeOK, RunType
<1>4. from < to /\ proof <= from  BY <1>1 DEF PlanIs
<1>5. DiskGrows  BY <1>2 DEF DiskGrows
<1>6. CheckpointOnDisk' /\ MarkedOnDisk' /\ SuccessOnDisk'
  BY <1>2, <1>3, <1>5, ClaimsStay DEF Versions
<1>7. ASSUME NEW i \in Span(proof, start)
      PROVE  OnDisk(i)
  <2>1. /\ Saved # None /\ Saved \in ProgressType
        /\ proof = Saved.from /\ start = Smaller(Saved.next, to)
    BY <1>1, <1>7 DEF PlanIs, Span
  <2>2. Saved \in Versions(state) \ {None}  BY <2>1 DEF Saved, Versions
  <2>3. i \in Span(Saved.from, Saved.next)
    BY <1>7, <2>1 DEF Span, Smaller, ProgressType
  <2> QED  BY <2>2, <2>3 DEF IInv, CheckpointOnDisk
<1>8. PrefixOnDisk'  BY <1>3, <1>5, <1>7, OnDiskStays DEF PrefixOnDisk
<1>9. RangeOnDisk'
  <2>1. CASE start >= to
    <3>1. Span(from, to) \subseteq Span(proof, start)  BY <1>4, <2>1 DEF Span
    <3> QED  BY <1>2, <1>3, <1>5, <1>7, <2>1, <3>1, OnDiskStays DEF RangeOnDisk
  <2>2. CASE ~(start >= to)
    BY <1>2, <2>2 DEF RangeOnDisk
  <2> QED  BY <2>1, <2>2
<1>10. ClaimsFromStart'  BY <1>3, <1>4 DEF ClaimsFromStart
<1> QED  BY <1>2, <1>6, <1>8, <1>9, <1>10 DEF BatchOnItsWay

\* Steps that end a run before it has planned anything, or find it failed.
LEMMA EndsSafe ==
    ASSUME IInv,
           \/ ConnectFails
           \/ \E size \in 0..tree : NothingToDo(size) \/ Regressed(size)
    PROVE  /\ CheckpointOnDisk' /\ MarkedOnDisk' /\ SuccessOnDisk' /\ PrefixOnDisk'
           /\ BatchOnItsWay' /\ ClaimsFromStart' /\ RangeOnDisk'
<1>1. UNCHANGED <<out, mal, state, promised>> /\ pc = "connect" /\ pc' = "exit"
  BY DEF ConnectFails, NothingToDo, Regressed
<1>2. run' = run \/ run' = [run EXCEPT !.failed = TRUE]
  BY DEF ConnectFails, NothingToDo, Regressed
<1>3. /\ run'.from = run.from /\ run'.to = run.to /\ run'.proof = run.proof
      /\ run'.next = run.next /\ run'.marked = run.marked
  BY <1>2 DEF IInv, TypeOK, RunType
<1>4. DiskGrows  BY <1>1 DEF DiskGrows
<1>5. CheckpointOnDisk' /\ MarkedOnDisk' /\ SuccessOnDisk' /\ PrefixOnDisk'
  BY <1>1, <1>3, <1>4, ClaimsStay DEF Versions
<1>6. RangeOnDisk'  BY <1>1, <1>3 DEF IInv, RangeOnDisk
<1> QED  BY <1>1, <1>5, <1>6 DEF BatchOnItsWay, ClaimsFromStart, Loop

LEMMA ReceiveSafe ==
    ASSUME IInv, NEW a \in 0..tree, NEW b \in 0..tree, Receive(a, b)
    PROVE  /\ CheckpointOnDisk' /\ MarkedOnDisk' /\ SuccessOnDisk' /\ PrefixOnDisk'
           /\ BatchOnItsWay' /\ ClaimsFromStart' /\ RangeOnDisk'
<1>1. /\ UNCHANGED <<out, mal, state, promised>> /\ pc = "fetch" /\ pc' = "parse"
      /\ run' = [run EXCEPT !.todo = @ \ Span(a, b), !.batch = Span(a, b),
                            !.left = Span(a, b), !.malWritten = FALSE,
                            !.batchFailed = FALSE]
  BY DEF Receive
<1>2. /\ run'.from = run.from /\ run'.proof = run.proof /\ run'.next = run.next
      /\ run'.marked = run.marked /\ run'.batch \ run'.left = {}
  BY <1>1 DEF IInv, TypeOK, RunType
<1>3. CheckpointOnDisk' /\ MarkedOnDisk' /\ SuccessOnDisk' /\ PrefixOnDisk'
  BY <1>1, <1>2, ClaimsStay DEF Versions, DiskGrows
<1> QED  BY <1>1, <1>2, <1>3 DEF BatchOnItsWay, ClaimsFromStart, RangeOnDisk, IInv, Loop

\* A record goes to its writer; what was held there stays, or an error is noticed.
LEMMA ParseSafe ==
    ASSUME IInv, NEW i \in run.left, ParseEntry(i)
    PROVE  /\ CheckpointOnDisk' /\ MarkedOnDisk' /\ SuccessOnDisk' /\ PrefixOnDisk'
           /\ BatchOnItsWay' /\ ClaimsFromStart' /\ RangeOnDisk'
<1>1. Sound(out, Indices) /\ Sound(mal, Indices) /\ run \in RunType /\ i \in Indices
  BY DEF IInv, FilesSound, TypeOK, RunType
<1>2. UNCHANGED <<state, pc, promised>> /\ pc = "parse"  BY DEF ParseEntry
<1>3. /\ run'.from = run.from /\ run'.proof = run.proof /\ run'.next = run.next
      /\ run'.marked = run.marked /\ run'.batch = run.batch
      /\ run'.left = run.left \ {i}
  BY <1>1 DEF ParseEntry, RunType
<1>4. DiskGrows  BY <1>1, WrittenFile DEF ParseEntry, DiskGrows
<1>5. CheckpointOnDisk' /\ MarkedOnDisk' /\ SuccessOnDisk' /\ PrefixOnDisk'
  BY <1>2, <1>3, <1>4, ClaimsStay DEF Versions
<1>6. ASSUME NEW j \in run.batch \ (run.left \ {i}) PROVE Held(j)'
  <2>1. j = i \/ Held(j)  BY <1>2, <1>6 DEF IInv, BatchOnItsWay
  <2>2. CASE i \notin Malformed
    <3>1. /\ out' \in AfterWrite(out, i) /\ mal' = mal
          /\ run' = [run EXCEPT !.left = @ \ {i}]
      BY <2>2 DEF ParseEntry
    <3>2. run'.batchFailed = run.batchFailed /\ run'.malWritten = run.malWritten
      BY <1>1, <3>1 DEF RunType
    <3>3. out'.err \/ out.buf \cup out.os \cup {i} \subseteq out'.buf \cup out'.os
      BY <1>1, <3>1, WrittenFile
    <3>4. out.err => out'.err  BY <3>1 DEF AfterWrite
    <3> QED  BY <2>1, <2>2, <3>1, <3>2, <3>3, <3>4 DEF Held
  <2>3. CASE i \in Malformed
    <3>1. /\ mal' \in AfterWrite(mal, i) /\ out' = out
          /\ run' = [run EXCEPT !.left = @ \ {i},
                                !.malWritten = @ \/ ~mal'.err,
                                !.batchFailed = @ \/ mal'.err]
      BY <2>3 DEF ParseEntry
    <3>2. /\ run'.batchFailed = (run.batchFailed \/ mal'.err)
          /\ run'.malWritten = (run.malWritten \/ ~mal'.err)
      BY <1>1, <3>1 DEF RunType
    <3>3. mal'.err \/ mal.buf \cup mal.os \cup {i} \subseteq mal'.buf \cup mal'.os
      BY <1>1, <3>1, WrittenFile
    <3> QED  BY <2>1, <2>3, <3>1, <3>2, <3>3 DEF Held
  <2> QED  BY <2>2, <2>3
<1>7. BatchOnItsWay'  BY <1>2, <1>3, <1>6 DEF BatchOnItsWay
<1> QED  BY <1>2, <1>3, <1>5, <1>7 DEF ClaimsFromStart, RangeOnDisk, IInv, Loop

LEMMA FlushOutputSafe ==
    ASSUME IInv, FlushOutput
    PROVE  /\ CheckpointOnDisk' /\ MarkedOnDisk' /\ SuccessOnDisk' /\ PrefixOnDisk'
           /\ BatchOnItsWay' /\ ClaimsFromStart' /\ RangeOnDisk'
<1>1. Sound(out, Indices) /\ run \in RunType  BY DEF IInv, FilesSound, TypeOK
<1>2. /\ out' \in AfterFlush(out) /\ UNCHANGED <<mal, state, promised>>
      /\ run' = [run EXCEPT !.batchFailed = @ \/ out'.err]
      /\ pc = "parse" /\ pc' = "flush" /\ run.left = {}
  BY DEF FlushOutput
<1>3. /\ run'.from = run.from /\ run'.proof = run.proof /\ run'.next = run.next
      /\ run'.marked = run.marked /\ run'.batch = run.batch
      /\ run'.malWritten = run.malWritten
      /\ run'.batchFailed = (run.batchFailed \/ out'.err)
  BY <1>1, <1>2 DEF RunType
<1>4. out.disk \subseteq out'.disk /\ (out'.err \/ out.buf \cup out.os \subseteq out'.disk)
  BY <1>1, <1>2, FlushedFile
<1>5. out.err => out'.err  BY <1>2 DEF AfterFlush
<1>6. CheckpointOnDisk' /\ MarkedOnDisk' /\ SuccessOnDisk' /\ PrefixOnDisk'
  BY <1>2, <1>3, <1>4, ClaimsStay DEF Versions, DiskGrows
<1>7. ASSUME ~run'.batchFailed, NEW i \in run.batch PROVE Flushed(i)'
  <2>1. Held(i)  BY <1>2 DEF IInv, BatchOnItsWay
  <2>2. ~run.batchFailed /\ ~out'.err  BY <1>3, <1>7
  <2> QED  BY <1>2, <1>3, <1>4, <1>5, <2>1, <2>2 DEF Held, Flushed
<1>8. BatchOnItsWay'  BY <1>2, <1>3, <1>7 DEF BatchOnItsWay
<1> QED  BY <1>2, <1>3, <1>6, <1>8 DEF ClaimsFromStart, RangeOnDisk, IInv, Loop

LEMMA FlushEvidenceSafe ==
    ASSUME IInv, FlushEvidence
    PROVE  /\ CheckpointOnDisk' /\ MarkedOnDisk' /\ SuccessOnDisk' /\ PrefixOnDisk'
           /\ BatchOnItsWay' /\ ClaimsFromStart' /\ RangeOnDisk'
<1>1. Sound(mal, Indices) /\ run \in RunType  BY DEF IInv, FilesSound, TypeOK
<1>2. /\ UNCHANGED <<out, state, promised>>
      /\ pc = "flush" /\ pc' = "mark"
      /\ \/ /\ run.malWritten /\ mal' \in AfterFlush(mal)
            /\ run' = [run EXCEPT !.batchFailed = @ \/ mal'.err]
         \/ ~run.malWritten /\ UNCHANGED <<mal, run>>
  BY DEF FlushEvidence
<1>3. /\ run'.from = run.from /\ run'.proof = run.proof /\ run'.next = run.next
      /\ run'.marked = run.marked /\ run'.batch = run.batch
      /\ run.malWritten => run'.batchFailed = (run.batchFailed \/ mal'.err)
      /\ run.batchFailed => run'.batchFailed
  BY <1>1, <1>2 DEF RunType
<1>4. /\ mal.disk \subseteq mal'.disk
      /\ run.malWritten => (mal'.err \/ mal.buf \cup mal.os \subseteq mal'.disk)
  BY <1>1, <1>2, FlushedFile
<1>5. CheckpointOnDisk' /\ MarkedOnDisk' /\ SuccessOnDisk' /\ PrefixOnDisk'
  BY <1>2, <1>3, <1>4, ClaimsStay DEF Versions, DiskGrows
<1>6. ASSUME ~run'.batchFailed, NEW i \in run.batch PROVE OnDisk(i)'
  <2>1. Flushed(i)  BY <1>2, <1>3, <1>6 DEF IInv, BatchOnItsWay
  <2> QED  BY <1>2, <1>3, <1>4, <1>6, <2>1 DEF Flushed, OnDisk
<1>7. BatchOnItsWay'  BY <1>2, <1>3, <1>6 DEF BatchOnItsWay
<1> QED  BY <1>2, <1>3, <1>5, <1>7 DEF ClaimsFromStart, RangeOnDisk, IInv, Loop

\* Only a batch that is on disk is marked, so the prefix grows over what is on disk.
LEMMA MarkSafe ==
    ASSUME IInv, MarkBatch
    PROVE  /\ CheckpointOnDisk' /\ MarkedOnDisk' /\ SuccessOnDisk' /\ PrefixOnDisk'
           /\ BatchOnItsWay' /\ ClaimsFromStart' /\ RangeOnDisk'
<1>1. run \in RunType  BY DEF IInv, TypeOK
<1>2. PICK n \in run.next .. run.to :
         /\ FirstGap(n, run.marked \cup run.batch)
         /\ run' = [run EXCEPT !.marked = @ \cup run.batch, !.next = n]
         /\ pc' \in {"save", "fetch"}
  BY DEF MarkBatch
<1>3. /\ UNCHANGED <<out, mal, state, promised>>
      /\ pc = "mark" /\ ~run.batchFailed
  BY DEF MarkBatch
<1>4. /\ run'.from = run.from /\ run'.proof = run.proof /\ run'.next = n
      /\ run'.marked = run.marked \cup run.batch
      /\ run.proof \in Nat /\ run.next \in Nat /\ n \in Int
  BY <1>1, <1>2 DEF RunType
<1>5. DiskGrows  BY <1>3 DEF DiskGrows
<1>6. CheckpointOnDisk' /\ SuccessOnDisk'  BY <1>3, <1>5, ClaimsStay DEF Versions
<1>7. \A i \in run.marked \cup run.batch : OnDisk(i)
  BY <1>3 DEF IInv, MarkedOnDisk, BatchOnItsWay
<1>8. MarkedOnDisk'  BY <1>4, <1>5, <1>7, OnDiskStays DEF MarkedOnDisk
<1>9. PrefixOnDisk'
  <2> SUFFICES ASSUME NEW i \in Span(run.proof, n) PROVE OnDisk(i)
    BY <1>4, <1>5, OnDiskStays DEF PrefixOnDisk
  <2>1. i \in Span(run.proof, run.next) \/ i \in Span(run.next, n)  BY <1>4 DEF Span
  <2>2. Span(run.next, n) \subseteq run.marked \cup run.batch  BY <1>2 DEF FirstGap
  <2> QED  BY <1>7, <2>1, <2>2 DEF IInv, PrefixOnDisk
<1>10. ClaimsFromStart'  BY <1>3, <1>4 DEF IInv, ClaimsFromStart, Loop
<1> QED  BY <1>2, <1>6, <1>8, <1>9, <1>10 DEF BatchOnItsWay, RangeOnDisk

\* A save claims the prefix, which is on disk, whether it is reported or not.
LEMMA SaveSafe ==
    ASSUME IInv, PeriodicSave \/ FinalSave
    PROVE  /\ CheckpointOnDisk' /\ MarkedOnDisk' /\ SuccessOnDisk' /\ PrefixOnDisk'
           /\ BatchOnItsWay' /\ ClaimsFromStart' /\ RangeOnDisk'
<1>1. run \in RunType  BY DEF IInv, TypeOK
<1>2. /\ UNCHANGED <<out, mal, promised>>
      /\ pc \in {"save", "finalSave"} /\ pc' \in {"fetch", "verdict"}
      /\ state' = Replaced(state, Progress) \/ state' = state
      /\ \/ run' = run
         \/ run' = [run EXCEPT !.lastSaved = run.next]
         \/ run' = [run EXCEPT !.failed = TRUE]
  BY DEF PeriodicSave, FinalSave, SaveState
<1>3. /\ run'.from = run.from /\ run'.proof = run.proof /\ run'.next = run.next
      /\ run'.marked = run.marked
  BY <1>1, <1>2 DEF RunType
<1>4. DiskGrows  BY <1>2 DEF DiskGrows
<1>5. MarkedOnDisk' /\ SuccessOnDisk' /\ PrefixOnDisk'  BY <1>2, <1>3, <1>4, ClaimsStay
<1>6. CheckpointOnDisk'
  <2>1. Versions(state)' \subseteq Versions(state) \cup {Progress}
    BY <1>2, VersionsOfReplaced DEF Versions
  <2>2. ASSUME NEW s \in Versions(state)' \ {None}, NEW i \in Span(s.from, s.next)
        PROVE  OnDisk(i)
    <3>1. CASE s = Progress
      BY <2>2, <3>1 DEF IInv, PrefixOnDisk, Progress
    <3>2. CASE s \in Versions(state)
      BY <2>2, <3>2 DEF IInv, CheckpointOnDisk
    <3> QED  BY <2>1, <2>2, <3>1, <3>2
  <2> QED  BY <1>4, <2>2, OnDiskStays DEF CheckpointOnDisk
<1> QED  BY <1>2, <1>3, <1>5, <1>6
         DEF BatchOnItsWay, ClaimsFromStart, RangeOnDisk, IInv, Loop

\* The remaining steps of the loop only move on or note a failure.
LEMMA MovesOnSafe ==
    ASSUME IInv, SkipMark \/ PoolEnds \/ FinalFlush
    PROVE  /\ CheckpointOnDisk' /\ MarkedOnDisk' /\ SuccessOnDisk' /\ PrefixOnDisk'
           /\ BatchOnItsWay' /\ ClaimsFromStart' /\ RangeOnDisk'
<1>1. Sound(out, Indices) /\ run \in RunType  BY DEF IInv, FilesSound, TypeOK
<1>2. /\ UNCHANGED <<mal, state, promised>>
      /\ pc \in Loop /\ pc' \in {"fetch", "final", "finalSave", "verdict"}
      /\ out' = out \/ out' \in AfterFlush(out)
  BY DEF SkipMark, PoolEnds, FinalFlush, Loop
<1>3. /\ run'.from = run.from /\ run'.proof = run.proof /\ run'.next = run.next
      /\ run'.marked = run.marked
  BY <1>1 DEF SkipMark, PoolEnds, FinalFlush, RunType
<1>4. DiskGrows  BY <1>1, <1>2, FlushedFile DEF DiskGrows
<1>5. CheckpointOnDisk' /\ MarkedOnDisk' /\ SuccessOnDisk' /\ PrefixOnDisk'
  BY <1>2, <1>3, <1>4, ClaimsStay DEF Versions
<1> QED  BY <1>2, <1>3, <1>5 DEF BatchOnItsWay, ClaimsFromStart, RangeOnDisk, IInv

\* The prefix has reached the end of the range, or the run has failed.
LEMMA VerdictSafe ==
    ASSUME IInv, Verdict
    PROVE  /\ CheckpointOnDisk' /\ MarkedOnDisk' /\ SuccessOnDisk' /\ PrefixOnDisk'
           /\ BatchOnItsWay' /\ ClaimsFromStart' /\ RangeOnDisk'
<1>1. run \in RunType  BY DEF IInv, TypeOK
<1>2. /\ UNCHANGED <<out, mal, state, promised>> /\ pc = "verdict" /\ pc' = "exit"
      /\ run' = [run EXCEPT !.failed = @ \/ run.next # run.to]
  BY DEF Verdict
<1>3. /\ run'.from = run.from /\ run'.to = run.to /\ run'.proof = run.proof
      /\ run'.next = run.next /\ run'.marked = run.marked
      /\ ~run'.failed => run.next = run.to
  BY <1>1, <1>2 DEF RunType
<1>4. DiskGrows  BY <1>2 DEF DiskGrows
<1>5. CheckpointOnDisk' /\ MarkedOnDisk' /\ SuccessOnDisk' /\ PrefixOnDisk'
  BY <1>2, <1>3, <1>4, ClaimsStay DEF Versions
<1>6. run.proof <= run.from  BY <1>2 DEF IInv, ClaimsFromStart, Loop
<1>7. ASSUME ~run'.failed, NEW i \in Span(run.from, run.to) PROVE OnDisk(i)
  <2>1. i \in Span(run.proof, run.next)
    BY <1>1, <1>3, <1>6, <1>7 DEF Span, RunType
  <2> QED  BY <2>1 DEF IInv, PrefixOnDisk
<1>8. RangeOnDisk'  BY <1>2, <1>3, <1>4, <1>7, OnDiskStays DEF RangeOnDisk
<1> QED  BY <1>2, <1>5, <1>8 DEF BatchOnItsWay, ClaimsFromStart, Loop

LEMMA ExitSafe ==
    ASSUME IInv, Exit
    PROVE  /\ CheckpointOnDisk' /\ MarkedOnDisk' /\ SuccessOnDisk' /\ PrefixOnDisk'
           /\ BatchOnItsWay' /\ ClaimsFromStart' /\ RangeOnDisk'
<1>1. Sound(out, Indices) /\ Sound(mal, Indices)  BY DEF IInv, FilesSound
<1>2. PICK o \in AfterFlush(out), m \in AfterFlush(mal) :
         /\ promised' = IF run.failed \/ o.err \/ m.err
                        THEN {} ELSE Span(run.from, run.to)
         /\ out' = [o EXCEPT !.buf = {}, !.err = FALSE]
         /\ mal' = [m EXCEPT !.buf = {}, !.err = FALSE]
  BY DEF Exit
<1>3. pc = "exit" /\ pc' = "down" /\ run' = Idle /\ UNCHANGED state  BY DEF Exit
<1>4. DiskGrows
  <2>1. /\ Sound(o, Indices) /\ out.disk \subseteq o.disk
        /\ Sound(m, Indices) /\ mal.disk \subseteq m.disk
    BY <1>1, FlushedFile
  <2>2. out'.disk = o.disk /\ mal'.disk = m.disk  BY <1>2, <2>1, ClosedFile
  <2> QED  BY <2>1, <2>2 DEF DiskGrows
<1>5. SuccessOnDisk'
  BY <1>2, <1>3, <1>4, OnDiskStays DEF IInv, RangeOnDisk, SuccessOnDisk
<1> QED  BY <1>3, <1>4, <1>5, DownIsSafe DEF Versions

LEMMA GoneSafe ==
    ASSUME IInv, Crash \/ PowerLoss
    PROVE  /\ CheckpointOnDisk' /\ MarkedOnDisk' /\ SuccessOnDisk' /\ PrefixOnDisk'
           /\ BatchOnItsWay' /\ ClaimsFromStart' /\ RangeOnDisk'
<1>1. Sound(out, Indices) /\ Sound(mal, Indices)  BY DEF IInv, FilesSound
<1>2. DiskGrows  BY <1>1, ExitedFile, LostFile DEF Crash, PowerLoss, DiskGrows
<1>3. Versions(state)' \subseteq Versions(state)
  BY VersionsAfterPowerLoss DEF Crash, PowerLoss, Versions
<1>4. promised' = promised /\ run' = Idle /\ pc' = "down"  BY DEF Crash, PowerLoss
<1>5. SuccessOnDisk'  BY <1>2, <1>4, ClaimsStay
<1> QED  BY <1>2, <1>3, <1>4, <1>5, DownIsSafe

LEMMA IInvNext == ~FreshRuns /\ IInv /\ [Next]_vars => IInv'
<1> SUFFICES ASSUME ~FreshRuns, IInv, [Next]_vars PROVE IInv'
  OBVIOUS
<1> DEFINE Safe == /\ CheckpointOnDisk /\ MarkedOnDisk /\ SuccessOnDisk /\ PrefixOnDisk
                   /\ BatchOnItsWay /\ ClaimsFromStart /\ RangeOnDisk
<1>1. (TypeOK /\ FilesSound)'  BY TypeNext DEF IInv
<1>2. ASSUME NEW resume \in BOOLEAN, NEW opts \in Options, Begin(resume, opts) PROVE Safe'
  <2>1. resume = TRUE  BY <1>2 DEF Begin
  <2> QED  BY <1>2, <2>1, BeginSafe
<1>3. ASSUME Scrape PROVE Safe'
  BY <1>3, EndsSafe, PlanSafe, ReceiveSafe, ParseSafe, FlushOutputSafe, FlushEvidenceSafe,
     MarkSafe, SaveSafe, MovesOnSafe, VerdictSafe, ExitSafe
  DEF Scrape
<1>4. ASSUME Grow \/ UNCHANGED vars PROVE Safe'
  <2>1. UNCHANGED <<out, mal, state, pc, run, promised>>  BY <1>4 DEF Grow, vars
  <2> QED  BY <2>1 DEF IInv, CheckpointOnDisk, MarkedOnDisk, SuccessOnDisk, PrefixOnDisk,
                       BatchOnItsWay, ClaimsFromStart, RangeOnDisk, OnDisk, Held, Flushed,
                       Versions
<1>5. ASSUME Crash \/ PowerLoss PROVE Safe'  BY <1>5, GoneSafe
<1>6. Safe'  BY <1>2, <1>3, <1>4, <1>5 DEF Next
<1> QED  BY <1>1, <1>6 DEF IInv

\* As long as every run resumes (runner.go:247-250 truncates the output otherwise), a
\* state file never claims an entry that is not durable, whatever fails in whatever
\* order, for logs, batches and histories of any size (runner.go:404-459).
THEOREM ScrapeCheckpointOnDisk == ASSUME ~FreshRuns PROVE Spec => []CheckpointOnDisk
<1>1. IInv => CheckpointOnDisk  BY DEF IInv
<1> QED  BY IInvInit, IInvNext, <1>1, PTL DEF Spec

\* ... nor does a run report success for one (runner.go:449-458).
THEOREM ScrapeSuccessOnDisk == ASSUME ~FreshRuns PROVE Spec => []SuccessOnDisk
<1>1. IInv => SuccessOnDisk  BY DEF IInv
<1> QED  BY IInvInit, IInvNext, <1>1, PTL DEF Spec

\* ... nor is one marked in memory (runner.go:412-426).
THEOREM ScrapeMarkedOnDisk == ASSUME ~FreshRuns PROVE Spec => []MarkedOnDisk
<1>1. IInv => MarkedOnDisk  BY DEF IInv
<1> QED  BY IInvInit, IInvNext, <1>1, PTL DEF Spec

-----------------------------------------------------------------------------
(* The saved position.                                                     *)

\* A run that saves has seen a tree as large as the saved one, and has taken up a prefix
\* of its own range where the saved one ends.
AheadOfSaved ==
    /\ pc \in {"save", "finalSave"} => run.resume
    /\ (pc \in Loop /\ run.resume /\ state.seen # None)
          => /\ state.seen.size <= run.size
             /\ state.seen.from = run.proof => state.seen.next <= run.next

LEMMA AheadNext ==
    TypeOK /\ FilesSound /\ AheadOfSaved /\ [Next]_vars => AheadOfSaved'
<1> SUFFICES ASSUME TypeOK, FilesSound, AheadOfSaved, [Next]_vars PROVE AheadOfSaved'
  OBVIOUS
<1>1. run \in RunType /\ (state.seen # None => state.seen \in ProgressType)
  BY DEF TypeOK, Versions
<1>2. ASSUME UNCHANGED state, pc \in Loop, pc' \in Loop \ {"save", "finalSave"},
             run'.resume = run.resume, run'.size = run.size, run'.proof = run.proof,
             run'.next = run.next
      PROVE  AheadOfSaved'
  BY <1>2 DEF AheadOfSaved, Loop
<1>3. ASSUME pc' \notin Loop PROVE AheadOfSaved'  BY <1>3 DEF AheadOfSaved, Loop
<1>4. CASE \/ \E resume \in BOOLEAN, opts \in Options : Begin(resume, opts)
           \/ ConnectFails \/ Verdict \/ Exit \/ Crash \/ PowerLoss
           \/ \E size \in 0..tree : NothingToDo(size) \/ Regressed(size)
  BY <1>3, <1>4 DEF Begin, ConnectFails, Verdict, Exit, Crash, PowerLoss, NothingToDo,
                    Regressed, Loop
<1>5. ASSUME NEW size \in 0..tree, Plan(size) PROVE AheadOfSaved'
  <2>1. PICK from \in Nat, to \in Nat, proof \in Nat, start \in Nat :
           PlanIs(size, from, to, proof, start)
    BY <1>5, Planned
  <2>2. /\ run'.size = size /\ run'.proof = proof /\ run'.next = start
        /\ run'.resume = run.resume /\ state' = state
        /\ pc' = IF start >= to THEN "exit" ELSE "fetch"
        /\ ~Shrunk(size)
    BY <1>1, <2>1 DEF PlanIs, RunType
  <2>3. (run.resume /\ state.seen # None)
          => /\ Saved = state.seen
             /\ state.seen.size \in Nat /\ state.seen.next \in Nat /\ state.seen.from \in Nat
    BY <1>1 DEF Saved, ProgressType
  <2>4. ASSUME run.resume, state.seen # None PROVE state.seen.size <= size
    BY <2>2, <2>3, <2>4 DEF Shrunk
  <2>5. ASSUME run.resume, state.seen # None, start < to, state.seen.from = proof
        PROVE  state.seen.next <= start
    <3>1. CASE start = Smaller(Saved.next, to)  BY <2>3, <2>5, <3>1 DEF Smaller
    <3>2. CASE /\ proof = from /\ start = from
               /\ Saved # None => ~(Saved.from <= from /\ from < Saved.next)
      BY <2>3, <2>5, <3>2
    <3> QED  BY <2>1, <3>1, <3>2 DEF PlanIs
  <2> QED  BY <2>2, <2>4, <2>5 DEF AheadOfSaved, Loop
<1>6. CASE \/ \E a, b \in 0..tree : Receive(a, b)
           \/ FlushOutput \/ FlushEvidence \/ SkipMark \/ PoolEnds
           \/ \E i \in run.left : ParseEntry(i)
  <2>1. UNCHANGED state /\ pc \in Loop /\ pc' \in Loop \ {"save", "finalSave"}
    BY <1>6 DEF Receive, ParseEntry, FlushOutput, FlushEvidence, SkipMark, PoolEnds, Loop
  <2>2. /\ run'.resume = run.resume /\ run'.size = run.size /\ run'.proof = run.proof
        /\ run'.next = run.next
    BY <1>1, <1>6 DEF Receive, ParseEntry, FlushOutput, FlushEvidence, SkipMark, PoolEnds,
                      RunType
  <2> QED  BY <1>2, <2>1, <2>2
<1>7. CASE MarkBatch
  <2>1. PICK n \in run.next .. run.to :
           /\ run' = [run EXCEPT !.marked = @ \cup run.batch, !.next = n]
           /\ pc' = IF run.resume /\ n - run.lastSaved >= SaveEvery
                    THEN "save" ELSE "fetch"
           /\ UNCHANGED state /\ pc = "mark"
    BY <1>7 DEF MarkBatch
  <2>2. /\ run'.resume = run.resume /\ run'.size = run.size /\ run'.proof = run.proof
        /\ run'.next = n /\ run.next \in Nat /\ run.next <= n /\ n \in Int
    BY <1>1, <2>1 DEF RunType
  <2>3. state.seen # None => state.seen.next \in Nat  BY <1>1 DEF ProgressType
  <2> QED  BY <2>1, <2>2, <2>3 DEF AheadOfSaved, Loop
<1>8. CASE FinalFlush
  <2>1. /\ run'.resume = run.resume /\ run'.size = run.size /\ run'.proof = run.proof
        /\ run'.next = run.next /\ UNCHANGED state /\ pc = "final"
        /\ pc' = IF run.resume THEN "finalSave" ELSE "verdict"
    BY <1>1, <1>8 DEF FinalFlush, RunType
  <2> QED  BY <2>1 DEF AheadOfSaved, Loop
<1>9. CASE PeriodicSave \/ FinalSave
  <2>1. /\ run'.resume = run.resume /\ run'.size = run.size /\ run'.proof = run.proof
        /\ run'.next = run.next /\ pc \in Loop /\ pc' \in {"fetch", "verdict"}
    BY <1>1, <1>9 DEF PeriodicSave, FinalSave, RunType, Loop
  <2>2. state' = state \/ state'.seen = Progress
    BY <1>9, VersionsOfReplaced DEF PeriodicSave, FinalSave, SaveState
  <2>3. CASE state' = state  BY <2>1, <2>3 DEF AheadOfSaved, Loop
  <2>4. CASE state'.seen = Progress
    <3>1. /\ state'.seen.size = run.size /\ state'.seen.next = run.next
          /\ run.size \in Nat /\ run.next \in Nat
      BY <1>1, <2>4 DEF Progress, RunType
    <3> QED  BY <2>1, <3>1 DEF AheadOfSaved
  <2> QED  BY <2>2, <2>3, <2>4
<1>10. CASE Grow \/ UNCHANGED vars
  <2>1. UNCHANGED <<pc, run, state>>  BY <1>10 DEF Grow, vars
  <2> QED  BY <2>1 DEF AheadOfSaved
<1> QED  BY <1>4, <1>5, <1>6, <1>7, <1>8, <1>9, <1>10 DEF Next, Scrape

\* Whatever batches fail and whatever tree head the log shows, a save never takes the
\* saved position or the tree size of a range back, with or without fresh runs between
\* (runner.go:346-382, runner.go:434-438).
THEOREM ScrapeCheckpointGrows == Spec => CheckpointGrows
<1>1. Init => AheadOfSaved  BY DEF Init, AheadOfSaved, Loop
<1>2. ASSUME TypeOK, AheadOfSaved, [Next]_vars, Saves, state.seen # None,
             state'.seen.from = state.seen.from
      PROVE  state'.seen.next >= state.seen.next /\ state'.seen.size >= state.seen.size
  <2>1. run \in RunType /\ state.seen \in ProgressType  BY <1>2 DEF TypeOK, Versions
  <2>2. state' = state \/ state'.seen = Progress
    <3>1. CASE PeriodicSave \/ FinalSave
      BY <3>1, VersionsOfReplaced DEF PeriodicSave, FinalSave, SaveState
    <3>2. CASE Grow \/ UNCHANGED vars  BY <3>2 DEF Grow, vars
    <3> QED
      BY <1>2, <3>1, <3>2
      DEF Saves, Next, Scrape, Begin, Crash, PowerLoss, ConnectFails, NothingToDo, Regressed,
          Plan, Receive, ParseEntry, FlushOutput, FlushEvidence, SkipMark, MarkBatch,
          PoolEnds, FinalFlush, Verdict, Exit
  <2>3. CASE state' = state  BY <2>1, <2>3 DEF ProgressType
  <2>4. CASE state'.seen = Progress
    <3>1. /\ state'.seen.from = run.proof /\ state'.seen.next = run.next
          /\ state'.seen.size = run.size
      BY <2>4 DEF Progress
    <3>2. pc \in Loop /\ run.resume  BY <1>2 DEF Saves, AheadOfSaved, Loop
    <3>3. state.seen.size <= run.size /\ state.seen.next <= run.next
      BY <1>2, <3>1, <3>2 DEF AheadOfSaved
    <3> QED  BY <2>1, <3>1, <3>3 DEF ProgressType, RunType
  <2> QED  BY <2>2, <2>3, <2>4
<1>3. TypeOK /\ AheadOfSaved /\ [Next]_vars
        => [(Saves /\ state.seen # None /\ state'.seen.from = state.seen.from)
              => /\ state'.seen.next >= state.seen.next
                 /\ state'.seen.size >= state.seen.size]_vars
  BY <1>2
<1> QED  BY <1>1, <1>3, AheadNext, ScrapeTypes, PTL DEF Spec, CheckpointGrows
=============================================================================
