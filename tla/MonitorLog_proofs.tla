-------------------------- MODULE MonitorLog_proofs --------------------------
(***************************************************************************)
(* Proofs about MonitorLog: for any set of logs, trees of any size and any *)
(* number of runs, failures, crashes and power losses.                     *)
(***************************************************************************)
EXTENDS MonitorLog, DurableFile_proofs, TLAPS

FilesSound == Sound(out, AllEntries) /\ Sound(mal, AllEntries)

-----------------------------------------------------------------------------
(* Types.                                                                  *)

LEMMA MonitorNumbers ==
    /\ Logs # {} /\ MaxTree \in [Logs -> Nat] /\ None \notin MonitorState
    /\ FreshRuns \in BOOLEAN
BY MonitorConstants

LEMMA IdleJob == NoJob \in JobType /\ NoJob.next = 0 /\ NoJob.marked = {} /\ NoJob.at = "idle"
BY DEF NoJob, JobType

LEMMA DoneJob == Done \in JobType /\ Done.next = 0 /\ Done.marked = {} /\ Done.at = "done"
BY DEF Done, NoJob, JobType

LEMMA SetsJob ==
    ASSUME TypeOK, NEW l \in Logs, NEW j \in JobType, SetJob(l, j)
    PROVE  /\ job' \in [Logs -> JobType]
           /\ job'[l] = j
           /\ \A k \in Logs \ {l} : job'[k] = job[k]
BY DEF TypeOK, SetJob

LEMMA Entry == ASSUME NEW l \in Logs, NEW i \in Nat PROVE <<l, i>> \in AllEntries
BY DEF AllEntries

LEMMA SpanOfNat ==
    ASSUME NEW a \in Nat, NEW b \in Int PROVE Span(a, b) \subseteq Nat
BY DEF Span

\* What a poll step of the goroutine of l leaves alone.
Polls(l) == /\ pc = "poll"
            /\ UNCHANGED <<tree, pc, resume, session, runs>>
            /\ faults' \in Nat
            /\ \A k \in Logs \ {l} :
                  job'[k] = job[k] /\ pos'[k] = pos[k] /\ state'[k] = state[k]

LEMMA FaultCount ==
    ASSUME TypeOK PROVE (NoFault \/ Fault) => faults' \in Nat
BY DEF TypeOK, Fault, NoFault

LEMMA OutcomeCount ==
    ASSUME TypeOK, NEW f, NEW g, WriteOutcome(f, g) PROVE faults' \in Nat
BY FaultCount DEF WriteOutcome

LEMMA TypeInit == Init => TypeOK /\ FilesSound
<1> SUFFICES ASSUME Init PROVE TypeOK /\ FilesSound
  OBVIOUS
<1>1. Sound(Empty, AllEntries)  BY EmptyFile
<1>2. NewState(None) \in [seen : MonitorState \cup {None}, older : SUBSET (MonitorState \cup {None})]
  BY DEF NewState
<1> QED  BY <1>1, <1>2, IdleJob DEF Init, TypeOK, FilesSound, Sound, FileOf, FileType

StateType == [seen : MonitorState \cup {None}, older : SUBSET (MonitorState \cup {None})]

LEMMA StateTypes ==
    ASSUME NEW s \in StateType, NEW v \in MonitorState \cup {None}
    PROVE  /\ Replaced(s, v) \in StateType /\ NewState(v) \in StateType
           /\ StateAfterPowerLoss(s) \subseteq StateType
           /\ Versions(s) \subseteq MonitorState \cup {None}
BY DEF StateType, Replaced, NewState, StateAfterPowerLoss, Versions

\* What the truncation of the output makes of a state file's claims: nothing is left of them.
LEMMA EmptiedState ==
    ASSUME NEW s \in StateType
    PROVE  /\ Emptied(s) \in StateType
           /\ \A v \in Versions(Emptied(s)) \ {None} : v.pos \in Nat /\ v.from = v.pos
<1>1. ASSUME NEW v \in MonitorState \cup {None}
      PROVE  /\ Rebased(v) \in MonitorState \cup {None}
             /\ Rebased(v) # None => Rebased(v).pos \in Nat /\ Rebased(v).from = Rebased(v).pos
  BY DEF Rebased, StartAt, MonitorState
<1>2. s.seen \in MonitorState \cup {None} /\ s.older \subseteq MonitorState \cup {None}
  BY DEF StateType
<1>3. Emptied(s) \in StateType  BY <1>1, <1>2 DEF Emptied, StateType
<1>4. Versions(Emptied(s)) = {Rebased(v) : v \in s.older} \cup {Rebased(s.seen)}
  BY DEF Emptied, Versions
<1> QED  BY <1>1, <1>2, <1>3, <1>4

\* The part of the type invariant that a poll step can disturb.
LEMMA PollTypes ==
    ASSUME TypeOK, NEW l \in Logs, Polls(l), job' \in [Logs -> JobType],
           pos' \in [Logs -> Nat], state' \in [Logs -> StateType],
           Sound(out', AllEntries), Sound(mal', AllEntries), known' \subseteq AllEntries
    PROVE  (TypeOK /\ FilesSound)'
BY DEF TypeOK, FilesSound, Polls, Sound, FileOf, FileType, StateType

LEMMA TypePoll ==
    ASSUME TypeOK, FilesSound, NEW l \in Logs, pc = "poll" => state[l].seen # None, Poll(l)
    PROVE  (TypeOK /\ FilesSound)' /\ Polls(l)
<1>a. /\ Sound(out, AllEntries) /\ Sound(mal, AllEntries) /\ known \subseteq AllEntries
      /\ job[l] \in JobType /\ job \in [Logs -> JobType] /\ pos \in [Logs -> Nat]
      /\ state \in [Logs -> StateType] /\ faults \in Nat
  BY DEF FilesSound, TypeOK, StateType
<1>b. ASSUME NEW j \in JobType, SetJob(l, j), pc = "poll",
             UNCHANGED <<tree, pc, resume, session, runs, pos, state>>,
             faults' \in Nat, Sound(out', AllEntries), Sound(mal', AllEntries),
             known' \subseteq AllEntries
      PROVE  (TypeOK /\ FilesSound)' /\ Polls(l)
  <2>1. job' \in [Logs -> JobType] /\ \A k \in Logs \ {l} : job'[k] = job[k]
    BY <1>b, SetsJob
  <2>2. Polls(l)  BY <1>b, <2>1 DEF Polls
  <2> QED  BY <1>a, <1>b, <2>1, <2>2, PollTypes
<1>1. CASE NoNews(l)
  BY <1>1, <1>a, <1>b, DoneJob DEF NoNews, At, files
<1>2. ASSUME NEW head \in 0..tree[l], NewHead(l, head) PROVE (TypeOK /\ FilesSound)' /\ Polls(l)
  <2> DEFINE j == [NoJob EXCEPT !.at = "fetch", !.head = head,
                                !.todo = Span(pos[l], head), !.next = pos[l]]
  <2>1. tree[l] \in Nat /\ head \in Nat /\ pos[l] \in Nat  BY <1>a DEF TypeOK
  <2>2. j \in JobType
    <3>1. Span(pos[l], head) \subseteq Nat  BY <2>1, SpanOfNat
    <3> QED  BY <2>1, <3>1, IdleJob DEF JobType
  <2>3. SetJob(l, j)  BY <1>2 DEF NewHead
  <2> HIDE DEF j
  <2> QED  BY <1>2, <1>a, <1>b, <2>2, <2>3 DEF NewHead, At, files
<1>3. ASSUME NEW a \in 0..MaxTree[l], NEW b \in 0..MaxTree[l], Receive(l, a, b)
      PROVE  (TypeOK /\ FilesSound)' /\ Polls(l)
  <2> DEFINE j == [job[l] EXCEPT !.at = "parse", !.todo = @ \ Span(a, b),
                                 !.batch = Span(a, b), !.left = Span(a, b),
                                 !.malWritten = FALSE, !.batchFailed = FALSE]
  <2>1. Span(a, b) \subseteq Nat  BY <1>3, <1>a DEF Receive, JobType
  <2>2. j \in JobType  BY <1>a, <2>1 DEF JobType
  <2>3. SetJob(l, j)  BY <1>3 DEF Receive
  <2> HIDE DEF j
  <2> QED  BY <1>3, <1>a, <1>b, <2>2, <2>3 DEF Receive, At, files
<1>4. ASSUME NEW i \in job[l].left, ParseResult(l, i)
      PROVE  (TypeOK /\ FilesSound)' /\ Polls(l)
  <2> DEFINE j == [job[l] EXCEPT !.left = @ \ {i}]
  <2>1. i \in Nat /\ <<l, i>> \in AllEntries  BY <1>a, Entry DEF JobType
  <2>2. j \in JobType  BY <1>a DEF JobType
  <2>3. SetJob(l, j)  BY <1>4 DEF ParseResult
  <2>4. Sound(out', AllEntries) /\ known' \subseteq AllEntries
    BY <1>4, <1>a, <2>1, WrittenFile DEF ParseResult, WriteResult
  <2>5. faults' \in Nat  BY <1>4, OutcomeCount DEF ParseResult, WriteResult
  <2> HIDE DEF j
  <2> QED  BY <1>4, <1>a, <1>b, <2>2, <2>3, <2>4, <2>5 DEF ParseResult, At
<1>5. ASSUME NEW i \in job[l].left, ParseMalformed(l, i)
      PROVE  (TypeOK /\ FilesSound)' /\ Polls(l)
  <2> DEFINE j == [job[l] EXCEPT !.left = @ \ {i}, !.malWritten = @ \/ ~mal'.err,
                                 !.batchFailed = @ \/ mal'.err]
  <2>1. i \in Nat /\ <<l, i>> \in AllEntries  BY <1>a, Entry DEF JobType
  <2>2. Sound(mal', AllEntries)  BY <1>5, <1>a, <2>1, WrittenFile DEF ParseMalformed
  <2>3. mal'.err \in BOOLEAN  BY <2>2 DEF Sound, FileOf
  <2>4. j \in JobType  BY <1>a, <2>3 DEF JobType
  <2>5. SetJob(l, j)  BY <1>5 DEF ParseMalformed
  <2>6. faults' \in Nat  BY <1>5, OutcomeCount DEF ParseMalformed
  <2> HIDE DEF j
  <2> QED  BY <1>5, <1>a, <1>b, <2>2, <2>4, <2>5, <2>6 DEF ParseMalformed, At
<1>c. ASSUME NEW j \in JobType, MarkBatch(l, j)
      PROVE  \E k \in JobType : SetJob(l, k)
  <2> DEFINE rest == [j EXCEPT !.at = "fetch", !.batch = {}, !.malWritten = FALSE,
                               !.batchFailed = FALSE]
             failed == [rest EXCEPT !.failed = TRUE]
             marked(n) == [rest EXCEPT !.marked = j.marked \cup j.batch, !.next = n]
  <2>1. rest \in JobType  BY DEF JobType
  <2>2. failed \in JobType  BY <2>1 DEF JobType
  <2>3. ASSUME NEW n \in j.next .. j.head PROVE marked(n) \in JobType
    <3>1. n \in Nat /\ j.marked \cup j.batch \subseteq Nat  BY DEF JobType
    <3> QED  BY <2>1, <3>1 DEF JobType
  <2>4. SetJob(l, failed) \/ \E n \in j.next .. j.head : SetJob(l, marked(n))
    BY <1>c DEF MarkBatch
  <2> QED  BY <2>2, <2>3, <2>4
<1>6. CASE FlushOutput(l)
  <2>1. Sound(out', AllEntries)  BY <1>6, <1>a, FlushedFile DEF FlushOutput
  <2>2. out'.err \in BOOLEAN  BY <2>1 DEF Sound, FileOf
  <2>3. PICK j : j = [job[l] EXCEPT !.batchFailed = @ \/ out'.err]
    OBVIOUS
  <2>4. j \in JobType /\ [j EXCEPT !.at = "flush"] \in JobType  BY <1>a, <2>2, <2>3 DEF JobType
  <2>5. SetJob(l, [j EXCEPT !.at = "flush"]) \/ MarkBatch(l, j)
    BY <1>6, <2>3 DEF FlushOutput, OutputFlushed
  <2>6. PICK k \in JobType : SetJob(l, k)  BY <1>c, <2>4, <2>5
  <2>7. faults' \in Nat  BY <1>6, OutcomeCount DEF FlushOutput
  <2> QED  BY <1>6, <1>a, <1>b, <2>1, <2>6, <2>7 DEF FlushOutput, At
<1>7. CASE FlushEvidence(l)
  <2>1. Sound(mal', AllEntries)  BY <1>7, <1>a, FlushedFile DEF FlushEvidence
  <2>2. mal'.err \in BOOLEAN  BY <2>1 DEF Sound, FileOf
  <2>3. PICK j : j = [job[l] EXCEPT !.batchFailed = @ \/ mal'.err]
    OBVIOUS
  <2>4. j \in JobType  BY <1>a, <2>2, <2>3 DEF JobType
  <2>5. MarkBatch(l, j)  BY <1>7, <2>3 DEF FlushEvidence
  <2>6. PICK k \in JobType : SetJob(l, k)  BY <1>c, <2>4, <2>5
  <2>7. faults' \in Nat  BY <1>7, OutcomeCount DEF FlushEvidence
  <2> QED  BY <1>7, <1>a, <1>b, <2>1, <2>6, <2>7 DEF FlushEvidence, At
<1>8. CASE PoolEnds(l)
  <2>1. PICK failed \in BOOLEAN : DeltaEnds(l, failed)  BY <1>8 DEF PoolEnds
  <2> DEFINE j == [job[l] EXCEPT !.failed = @ \/ failed]
  <2>2. j \in JobType /\ [j EXCEPT !.at = "save"] \in JobType  BY <1>a DEF JobType
  <2>3. SetJob(l, [j EXCEPT !.at = "save"]) \/ SetJob(l, Done)  BY <2>1 DEF DeltaEnds
  <2>4. PICK k \in JobType : SetJob(l, k)  BY <2>2, <2>3, DoneJob
  <2>5. faults' \in Nat  BY <1>8, FaultCount DEF PoolEnds
  <2> QED  BY <1>8, <1>a, <1>b, <2>4, <2>5 DEF PoolEnds, At, files
<1>9. CASE SaveAndMove(l) \/ SaveFails(l)
  <2> DEFINE s == SavedUpTo(l)
  <2>1. /\ pc = "poll" /\ SetJob(l, Done)
        /\ UNCHANGED <<tree, files, pc, resume, session, runs>>
    BY <1>9 DEF SaveAndMove, SaveFails, At
  <2>2. faults' \in Nat  BY <1>9, <1>a, FaultCount DEF SaveAndMove, SaveFails
  <2>3. job' \in [Logs -> JobType] /\ \A k \in Logs \ {l} : job'[k] = job[k]
    BY <2>1, DoneJob, SetsJob
  <2>4. job[l].head \in Nat /\ state[l] \in StateType  BY <1>a DEF JobType
  <2>5. s \in StateType
    <3>1. state[l].seen \in MonitorState  BY <2>1, <2>4 DEF StateType
    <3>2. [state[l].seen EXCEPT !.pos = job[l].head] \in MonitorState
      BY <2>4, <3>1 DEF MonitorState
    <3> QED  BY <2>4, <3>2, StateTypes DEF SavedUpTo
  <2>6. state' = state \/ state' = [state EXCEPT ![l] = s]
    BY <1>9 DEF SaveAndMove, SaveFails
  <2>7. pos' = pos \/ pos' = [pos EXCEPT ![l] = job[l].head]
    BY <1>9 DEF SaveAndMove, SaveFails
  <2> HIDE DEF s
  <2>8. state' \in [Logs -> StateType] /\ \A k \in Logs \ {l} : state'[k] = state[k]
    BY <1>a, <2>5, <2>6
  <2>9. pos' \in [Logs -> Nat] /\ \A k \in Logs \ {l} : pos'[k] = pos[k]
    BY <1>a, <2>4, <2>7
  <2>10. Polls(l)  BY <2>1, <2>2, <2>3, <2>8, <2>9 DEF Polls
  <2> QED  BY <1>a, <2>1, <2>3, <2>8, <2>9, <2>10, PollTypes DEF files
<1> QED
  BY <1>1, <1>2, <1>3, <1>4, <1>5, <1>6, <1>7, <1>8, <1>9 DEF Fetch, Poll

\* The process is gone: what is left of its session and its goroutines.
LEMMA GoneTypes ==
    ASSUME TypeOK, Gone, Sound(out', AllEntries), Sound(mal', AllEntries),
           state' \in [Logs -> StateType], faults' \in Nat
    PROVE  (TypeOK /\ FilesSound)'
<1>1. job' \in [Logs -> JobType]  BY IdleJob DEF Gone
<1> QED  BY <1>1 DEF TypeOK, FilesSound, Gone, Sound, FileOf, FileType, StateType

\* Start-up, and what goes on outside the poll rounds.
LEMMA TypeOther ==
    ASSUME TypeOK, FilesSound,
           \/ \E r \in BOOLEAN : Begin(r)
           \/ \E l \in Logs : Grow(l) \/ InitLog(l)
           \/ InitDone \/ Round \/ Interrupt \/ Exit \/ Crash \/ PowerLoss
           \/ UNCHANGED vars
    PROVE  (TypeOK /\ FilesSound)'
<1> DEFINE Goal == (TypeOK /\ FilesSound)'
<1>a. /\ Sound(out, AllEntries) /\ Sound(mal, AllEntries) /\ known \subseteq AllEntries
      /\ job \in [Logs -> JobType] /\ pos \in [Logs -> Nat] /\ tree \in [Logs -> Nat]
      /\ state \in [Logs -> StateType] /\ faults \in Nat /\ runs \in Nat
      /\ session \in [Logs -> {"none", "ready", "failed"}]
      /\ pc \in {"down", "init", "poll", "exit"} /\ resume \in BOOLEAN
  BY DEF FilesSound, TypeOK, StateType
<1>b. [l \in Logs |-> NoJob] \in [Logs -> JobType]  BY IdleJob
<1>1. ASSUME NEW r \in BOOLEAN, Begin(r) PROVE Goal
  <2>1. Sound(out', AllEntries) /\ Sound(mal', AllEntries)
    BY <1>1, <1>a, OpenedFile, TruncatedFile DEF Begin
  <2>2. state' \in [Logs -> StateType]  BY <1>1, <1>a, EmptiedState DEF Begin
  <2>3. runs' \in Nat /\ resume' \in BOOLEAN  BY <1>1, <1>a DEF Begin
  <2>4. session' \in [Logs -> {"none", "ready", "failed"}]  BY <1>1 DEF Begin
  <2> QED
    BY <1>1, <1>a, <2>1, <2>2, <2>3, <2>4
    DEF Begin, TypeOK, FilesSound, Sound, FileOf, FileType, StateType
<1>2. ASSUME NEW l \in Logs, Grow(l) PROVE Goal
  <2>1. tree' \in [Logs -> Nat]  BY <1>2, <1>a DEF Grow
  <2> QED  BY <1>2, <1>a, <2>1 DEF Grow, files, TypeOK, FilesSound
<1>3. ASSUME NEW l \in Logs, NEW head \in 0..tree[l], InitSaved(l, head) PROVE Goal
  <2>1. Saved(l).pos \in Nat
    BY <1>3, <1>a DEF InitSaved, Saved, StateType, MonitorState
  <2>2. session' \in [Logs -> {"none", "ready", "failed"}]  BY <1>3, <1>a DEF InitSaved
  <2>3. pos' \in [Logs -> Nat]  BY <1>3, <1>a, <2>1 DEF InitSaved
  <2> QED
    BY <1>3, <1>a, <2>2, <2>3 DEF InitSaved, files, TypeOK, FilesSound, StateType
<1>4. ASSUME NEW l \in Logs, NEW head \in 0..tree[l],
             InitFresh(l, head) \/ InitSaveFails(l, head)
      PROVE  Goal
  <2>1. head \in Nat  BY <1>a
  <2>2. session' \in [Logs -> {"none", "ready", "failed"}]
    BY <1>4, <1>a DEF InitFresh, InitSaveFails
  <2>3. pos' \in [Logs -> Nat]  BY <1>4, <1>a, <2>1 DEF InitFresh, InitSaveFails
  <2>4. state' \in [Logs -> StateType]
    <3>1. StartAt(head) \in MonitorState  BY <2>1 DEF StartAt, MonitorState
    <3>2. Replaced(state[l], StartAt(head)) \in StateType  BY <1>a, <3>1, StateTypes
    <3> QED  BY <1>4, <1>a, <3>2 DEF InitFresh, InitSaveFails
  <2>5. faults' \in Nat  BY <1>4, <1>a, FaultCount DEF InitFresh, InitSaveFails
  <2> QED
    BY <1>4, <1>a, <2>2, <2>3, <2>4, <2>5
    DEF InitFresh, InitSaveFails, files, TypeOK, FilesSound, StateType
<1>5. ASSUME NEW l \in Logs, InitFails(l) PROVE Goal
  <2>1. session' \in [Logs -> {"none", "ready", "failed"}]  BY <1>5, <1>a DEF InitFails
  <2>2. faults' \in Nat  BY <1>5, FaultCount DEF InitFails
  <2> QED  BY <1>5, <1>a, <2>1, <2>2 DEF InitFails, files, TypeOK, FilesSound
<1>6. CASE InitDone
  <2>1. pc' \in {"poll", "exit"} /\ job' \in [Logs -> JobType] /\ resume' = FALSE
    BY <1>6, <1>b DEF InitDone
  <2> QED  BY <1>6, <1>a, <2>1 DEF InitDone, files, TypeOK, FilesSound
<1>7. CASE Round
  BY <1>7, <1>a, <1>b DEF Round, files, TypeOK, FilesSound
<1>8. CASE Interrupt
  <2>1. faults' \in Nat  BY <1>8, FaultCount DEF Interrupt
  <2> QED  BY <1>8, <1>a, <1>b, <2>1 DEF Interrupt, files, TypeOK, FilesSound
<1>9. CASE Exit
  <2>1. PICK o \in AfterFlush(out), m \in AfterFlush(mal) :
           out' = [o EXCEPT !.err = FALSE] /\ mal' = [m EXCEPT !.err = FALSE]
    BY <1>9 DEF Exit
  <2>2. Sound(o, AllEntries) /\ Sound(m, AllEntries)  BY <1>a, FlushedFile
  <2>3. Sound(out', AllEntries) /\ Sound(mal', AllEntries)  BY <2>1, <2>2, ClosedFile
  <2> QED  BY <1>9, <1>a, <2>3, GoneTypes DEF Exit
<1>10. CASE Crash
  <2>1. Sound(out', AllEntries) /\ Sound(mal', AllEntries)
    BY <1>10, <1>a, ExitedFile DEF Crash
  <2>2. faults' \in Nat  BY <1>10, FaultCount DEF Crash
  <2> QED  BY <1>10, <1>a, <2>1, <2>2, GoneTypes DEF Crash
<1>11. CASE PowerLoss
  <2>1. Sound(out', AllEntries) /\ Sound(mal', AllEntries)
    BY <1>11, <1>a, LostFile DEF PowerLoss
  <2>2. PICK s \in [Logs -> UNION {StateAfterPowerLoss(state[l]) : l \in Logs}] :
           /\ \A l \in Logs : s[l] \in StateAfterPowerLoss(state[l])
           /\ state' = s
    BY <1>11 DEF PowerLoss
  <2>3. \A l \in Logs : s[l] \in StateType
    <3> SUFFICES ASSUME NEW l \in Logs PROVE s[l] \in StateType
      OBVIOUS
    <3>1. StateAfterPowerLoss(state[l]) \subseteq StateType
      <4>1. state[l] \in StateType /\ None \in MonitorState \cup {None}  BY <1>a
      <4> QED  BY <4>1, StateTypes
    <3> QED  BY <2>2, <3>1
  <2>4. state' \in [Logs -> StateType]  BY <2>2, <2>3
  <2>5. faults' \in Nat  BY <1>11, FaultCount DEF PowerLoss
  <2> QED  BY <1>11, <2>1, <2>4, <2>5, GoneTypes DEF PowerLoss
<1>12. CASE UNCHANGED vars
  BY <1>12, <1>a DEF vars, TypeOK, FilesSound
<1> QED  BY <1>1, <1>2, <1>3, <1>4, <1>5, <1>6, <1>7, <1>8, <1>9, <1>10, <1>11, <1>12
         DEF InitLog

LEMMA TypeNext ==
    ASSUME TypeOK, FilesSound, pc = "poll" => \A l \in Logs : state[l].seen # None,
           [Next]_vars
    PROVE  (TypeOK /\ FilesSound)'
BY TypePoll, TypeOther DEF Next

-----------------------------------------------------------------------------
(* No gap: the inductive invariant.                                        *)

\* What one version of a state file claims, and what the session that goes on from the
\* present one claims when it is at n.
Covered(l, v) == \A i \in Span(v.from, v.pos) : OnDisk(<<l, i>>)
Claim(l, n) == state[l].seen # None =>
                  \A i \in Span(state[l].seen.from, n) : OnDisk(<<l, i>>)

Busy == {"fetch", "parse", "flush", "save"}

\* The way of a batch to the disk, on writers other goroutines use as well: an error of
\* either writer stays until it is noticed by every batch that wrote before.
Held(l, i) == IF <<l, i>> \in Malformed
              THEN \/ job[l].batchFailed
                   \/ job[l].malWritten /\ (mal.err \/ <<l, i>> \in mal.buf \cup mal.os)
              ELSE out.err \/ <<l, i>> \in out.buf \cup out.os

Flushed(l, i) == IF <<l, i>> \in Malformed
                 THEN job[l].malWritten /\ (mal.err \/ <<l, i>> \in mal.buf \cup mal.os)
                 ELSE <<l, i>> \in out.disk

BatchOnItsWay(l) ==
    /\ job[l].at = "parse" => \A i \in job[l].batch \ job[l].left : Held(l, i)
    /\ job[l].at = "flush" => job[l].batchFailed \/ \A i \in job[l].batch : Flushed(l, i)

\* The positions of a session, and of the delta it is processing.
DeltaSafe(l) ==
    /\ Claim(l, pos[l]) /\ Claim(l, job[l].next)
    /\ \A i \in job[l].marked : OnDisk(<<l, i>>)
    /\ job[l].at \in Busy => pos[l] < job[l].head
    /\ job[l].at = "save" => job[l].next = job[l].head

\* The state file: what it says, and what a power loss can make it say.
StateSafe(l) ==
    /\ \A v \in Versions(state[l]) \ {None} : Covered(l, v)
    /\ (session[l] = "ready" /\ pc \in {"init", "poll"})
         => state[l].seen # None /\ pos[l] <= state[l].seen.pos

Safe(l) == DeltaSafe(l) /\ StateSafe(l) /\ (pc = "poll" => BatchOnItsWay(l))

\* How far start-up and rounds have got.
Stages ==
    /\ pc \in {"down", "init"} => \A l \in Logs : job[l] = NoJob
    /\ pc = "down" => \A l \in Logs : session[l] = "none"
    /\ \A l \in Logs : session[l] = "none" => pos[l] = 0
    /\ pc = "poll" => \A l \in Logs : session[l] = "ready"
    /\ pc = "down" => known = {}

IInv == /\ TypeOK /\ FilesSound
        /\ Stages /\ SuppressedIsWritten
        /\ \A l \in Logs : Safe(l)

-----------------------------------------------------------------------------
(* What stays.                                                             *)

DiskGrows == out.disk \subseteq out'.disk /\ mal.disk \subseteq mal'.disk

\* One process, with its sticky errors, goes on.
FilesKept == Keeps(out, out') /\ Keeps(mal, mal')

LEMMA OnDiskStays == ASSUME DiskGrows, NEW e, OnDisk(e) PROVE OnDisk(e)'
BY DEF DiskGrows, OnDisk

LEMMA KeptGrows == FilesKept => DiskGrows
BY DEF FilesKept, DiskGrows, Keeps

LEMMA KeptWays ==
    ASSUME FilesKept, NEW l \in Logs, job'[l] = job[l], BatchOnItsWay(l)
    PROVE  BatchOnItsWay(l)'
<1>1. \A i : OnDisk(<<l, i>>) => OnDisk(<<l, i>>)'  BY KeptGrows, OnDiskStays
<1>2. \A i : Held(l, i) => Held(l, i)'  BY DEF FilesKept, Keeps, Held
<1>3. \A i : Flushed(l, i) => Flushed(l, i)'  BY DEF FilesKept, Keeps, Flushed
<1> QED  BY <1>1, <1>2, <1>3 DEF BatchOnItsWay

LEMMA DeltaStays ==
    ASSUME DiskGrows, NEW l \in Logs, job'[l] = job[l], pos'[l] = pos[l],
           state'[l].seen = state[l].seen, DeltaSafe(l)
    PROVE  DeltaSafe(l)'
BY OnDiskStays DEF DeltaSafe, Claim

LEMMA ClaimsStay ==
    ASSUME DiskGrows, NEW l \in Logs, Versions(state'[l]) \subseteq Versions(state[l]),
           StateSafe(l)
    PROVE  (\A v \in Versions(state[l]) \ {None} : Covered(l, v))'
BY OnDiskStays DEF StateSafe, Covered

\* The logs a poll step is not about.
LEMMA OthersSafe ==
    ASSUME IInv, NEW l \in Logs, Polls(l), FilesKept, NEW k \in Logs \ {l}
    PROVE  Safe(k)'
<1>1. /\ job'[k] = job[k] /\ pos'[k] = pos[k] /\ state'[k] = state[k]
      /\ session'[k] = session[k] /\ pc' = pc /\ DiskGrows
  BY KeptGrows DEF Polls
<1>2. Safe(k)  BY DEF IInv
<1>3. DeltaSafe(k)'  BY <1>1, <1>2, DeltaStays DEF Safe
<1>4. StateSafe(k)'  BY <1>1, <1>2, ClaimsStay DEF Safe, StateSafe
<1> QED  BY <1>1, <1>2, <1>3, <1>4, KeptWays DEF Safe

\* A poll step has to show that the log it is about stays safe.
LEMMA PollSafe ==
    ASSUME IInv, NEW l \in Logs, Polls(l), FilesKept, Safe(l)', SuppressedIsWritten'
    PROVE  Stages' /\ SuppressedIsWritten' /\ \A k \in Logs : Safe(k)'
<1>1. \A k \in Logs : Safe(k)'  BY OthersSafe
<1>2. session' = session /\ pc' = pc /\ pc = "poll"  BY DEF Polls
<1>3. pc = "poll" => \A k \in Logs : session[k] = "ready"  BY DEF IInv, Stages
<1>4. Stages'  BY <1>2, <1>3 DEF Stages
<1> QED  BY <1>1, <1>4

\* ... in its delta only, where the state file is not touched.
LEMMA StateStays ==
    ASSUME IInv, NEW l \in Logs, Polls(l), DiskGrows, state'[l] = state[l], pos'[l] = pos[l]
    PROVE  StateSafe(l)'
<1>1. session'[l] = session[l] /\ pc' = pc  BY DEF Polls
<1> QED  BY <1>1, ClaimsStay DEF IInv, Safe, StateSafe

LEMMA SuppressionStays ==
    ASSUME IInv, NEW l \in Logs, Polls(l), FilesKept, known' = known
    PROVE  SuppressedIsWritten'
BY DEF IInv, Polls, FilesKept, Keeps, SuppressedIsWritten

LEMMA MonitorInit == Init => IInv
<1> SUFFICES ASSUME Init PROVE IInv
  OBVIOUS
<1>1. TypeOK /\ FilesSound  BY TypeInit
<1>2. ASSUME NEW l \in Logs
      PROVE  /\ job[l] = NoJob /\ pos[l] = 0 /\ session[l] = "none"
             /\ Versions(state[l]) = {None} /\ state[l].seen = None
  BY DEF Init, NewState, Versions
<1>3. Stages  BY <1>2 DEF Init, Stages
<1>4. SuppressedIsWritten  BY DEF Init, SuppressedIsWritten
<1>5. \A l \in Logs : Safe(l)
  BY <1>2, IdleJob DEF Init, Safe, DeltaSafe, StateSafe, Claim, Busy
<1> QED  BY <1>1, <1>3, <1>4, <1>5 DEF IInv

\* Where nothing is asked for, everything is there.
LEMMA NothingBelowZero ==
    ASSUME TypeOK', NEW l \in Logs, NEW n \in Int, n <= 0
    PROVE  Claim(l, n)'
<1>1. state'[l].seen # None => state'[l].seen.from \in Nat  BY DEF TypeOK, MonitorState
<1> QED  BY <1>1 DEF Claim, Span

\* The process is gone: only what the files say is left.
LEMMA GoneSafe ==
    ASSUME IInv, TypeOK', Gone, DiskGrows,
           \A l \in Logs : Versions(state'[l]) \subseteq Versions(state[l])
    PROVE  Stages' /\ SuppressedIsWritten' /\ \A l \in Logs : Safe(l)'
<1>1. /\ pc' = "down" /\ known' = {}
      /\ \A l \in Logs : job'[l] = NoJob /\ pos'[l] = 0 /\ session'[l] = "none"
  BY DEF Gone
<1>2. Stages' /\ SuppressedIsWritten'  BY <1>1 DEF Stages, SuppressedIsWritten
<1>3. ASSUME NEW l \in Logs PROVE Safe(l)'
  <2>1. Claim(l, 0)'  BY NothingBelowZero
  <2>2. DeltaSafe(l)'  BY <1>1, <2>1, IdleJob DEF DeltaSafe, Claim, Busy
  <2>3. StateSafe(l)'  BY <1>1, ClaimsStay DEF IInv, Safe, StateSafe
  <2> QED  BY <1>1, <2>2, <2>3 DEF Safe
<1> QED  BY <1>2, <1>3

-----------------------------------------------------------------------------
(* Start-up and the end of a run.                                          *)

LEMMA BeginSafe ==
    ASSUME IInv, TypeOK', NEW r \in BOOLEAN, Begin(r)
    PROVE  Stages' /\ SuppressedIsWritten' /\ \A l \in Logs : Safe(l)'
<1>1. /\ pc = "down" /\ pc' = "init" /\ resume' = r /\ known' = {}
      /\ UNCHANGED <<pos, job>>
      /\ \A l \in Logs : session'[l] = "none" /\ session[l] = "none" /\ job[l] = NoJob
                          /\ pos[l] = 0
      /\ state' = IF r THEN state ELSE [l \in Logs |-> Emptied(state[l])]
  BY DEF Begin, IInv, Stages
<1>2. Stages' /\ SuppressedIsWritten'  BY <1>1 DEF Stages, SuppressedIsWritten
<1>3. ASSUME NEW l \in Logs PROVE Safe(l)'
  <2>1. Claim(l, 0)'  BY NothingBelowZero
  <2>2. DeltaSafe(l)'  BY <1>1, <2>1, IdleJob DEF DeltaSafe, Claim, Busy
  <2>3. CASE r
    <3>1. DiskGrows  BY <2>3, OpenedFile DEF Begin, DiskGrows, IInv, FilesSound
    <3>2. StateSafe(l)'  BY <1>1, <2>3, <3>1, ClaimsStay DEF IInv, Safe, StateSafe
    <3> QED  BY <1>1, <2>2, <3>2 DEF Safe
  <2>4. CASE ~r
    <3>1. state[l] \in StateType /\ state'[l] = Emptied(state[l])
      BY <1>1, <2>4 DEF IInv, TypeOK, StateType
    <3>2. \A v \in Versions(state'[l]) \ {None} : Span(v.from, v.pos) = {}
      BY <3>1, EmptiedState DEF Span
    <3>3. StateSafe(l)'  BY <1>1, <3>2 DEF StateSafe, Covered
    <3> QED  BY <1>1, <2>2, <3>3 DEF Safe
  <2> QED  BY <2>3, <2>4
<1> QED  BY <1>2, <1>3

\* A step of start-up that is about l.
LEMMA InitSafe ==
    ASSUME IInv, TypeOK', NEW l \in Logs, pc = "init", UNCHANGED <<files, pc, job>>,
           \A k \in Logs \ {l} : /\ pos'[k] = pos[k] /\ state'[k] = state[k]
                                 /\ session'[k] = session[k],
           session'[l] # "none", Claim(l, pos[l])', StateSafe(l)'
    PROVE  Stages' /\ SuppressedIsWritten' /\ \A k \in Logs : Safe(k)'
<1>1. DiskGrows /\ \A k \in Logs : job[k] = NoJob
  BY DEF files, DiskGrows, IInv, Stages
<1>2. Stages'
  <2>1. \A k \in Logs : session'[k] = "none" => pos'[k] = 0  BY DEF IInv, Stages
  <2> QED  BY <1>1, <2>1 DEF Stages
<1>3. SuppressedIsWritten'  BY DEF IInv, SuppressedIsWritten, files
<1>4. Safe(l)'
  <2>1. Claim(l, 0)'  BY NothingBelowZero
  <2> QED  BY <1>1, <2>1, IdleJob DEF Safe, DeltaSafe, Busy
<1>5. ASSUME NEW k \in Logs \ {l} PROVE Safe(k)'
  <2>1. DeltaSafe(k)'  BY <1>1, DeltaStays DEF IInv, Safe
  <2>2. StateSafe(k)'  BY <1>1, ClaimsStay DEF IInv, Safe, StateSafe
  <2> QED  BY <2>1, <2>2 DEF Safe
<1> QED  BY <1>2, <1>3, <1>4, <1>5

LEMMA InitSavedSafe ==
    ASSUME IInv, TypeOK', NEW l \in Logs, NEW head \in 0..tree[l], InitSaved(l, head)
    PROVE  Stages' /\ SuppressedIsWritten' /\ \A k \in Logs : Safe(k)'
<1>1. /\ pc = "init" /\ UNCHANGED <<files, pc, job, state>> /\ session'[l] # "none"
      /\ \A k \in Logs \ {l} : pos'[k] = pos[k] /\ session'[k] = session[k]
      /\ \/ session'[l] = "failed" /\ pos' = pos
         \/ session'[l] = "ready" /\ pos'[l] = state[l].seen.pos /\ state[l].seen # None
  BY DEF InitSaved, Saved, Starting, IInv, TypeOK
<1>2. DiskGrows /\ Safe(l)  BY <1>1 DEF files, DiskGrows, IInv
<1>3. (\A v \in Versions(state[l]) \ {None} : Covered(l, v))'
  BY <1>1, <1>2, ClaimsStay DEF Safe
<1>4. CASE session'[l] = "failed" /\ pos' = pos
  <2>1. Claim(l, pos[l])'  BY <1>1, <1>2, <1>4, OnDiskStays DEF Safe, DeltaSafe, Claim
  <2>2. StateSafe(l)'  BY <1>3, <1>4 DEF StateSafe
  <2> QED  BY <1>1, <2>1, <2>2, InitSafe
<1>5. CASE session'[l] = "ready" /\ pos'[l] = state[l].seen.pos /\ state[l].seen # None
  <2>1. state'[l].seen \in Versions(state[l]') \ {None}  BY <1>1, <1>5 DEF Versions
  <2>2. Claim(l, pos[l])'  BY <1>1, <1>3, <1>5, <2>1 DEF Covered, Claim
  <2>3. state'[l].seen # None /\ pos'[l] <= state'[l].seen.pos
    <3>1. state[l].seen.pos \in Nat  BY <1>5 DEF IInv, TypeOK, MonitorState
    <3> QED  BY <1>1, <1>5, <3>1
  <2>4. StateSafe(l)'  BY <1>3, <2>3 DEF StateSafe
  <2> QED  BY <1>1, <2>2, <2>4, InitSafe
<1> QED  BY <1>1, <1>4, <1>5

\* A state file that gets its first version, or an unrelated new one, claims nothing by it.
LEMMA InitFreshSafe ==
    ASSUME IInv, TypeOK', NEW l \in Logs, NEW head \in 0..tree[l],
           InitFresh(l, head) \/ InitSaveFails(l, head)
    PROVE  Stages' /\ SuppressedIsWritten' /\ \A k \in Logs : Safe(k)'
<1>0. head \in Nat  BY DEF IInv, TypeOK
<1>1. /\ pc = "init" /\ UNCHANGED <<files, pc, job>>
      /\ state'[l] = Replaced(state[l], StartAt(head))
      /\ \/ session'[l] = "ready" /\ pos'[l] = head
         \/ session'[l] = "failed" /\ pos'[l] = pos[l] /\ pos[l] = 0
      /\ \A k \in Logs \ {l} : /\ pos'[k] = pos[k] /\ state'[k] = state[k]
                               /\ session'[k] = session[k]
  BY DEF InitFresh, InitSaveFails, Starting, IInv, TypeOK, Stages
<1>2. /\ Versions(state'[l]) = Versions(state[l]) \cup {StartAt(head)}
      /\ state'[l].seen = StartAt(head)
  BY <1>1, ReplacedState
<1>3. /\ StartAt(head).from = head /\ StartAt(head).pos = head /\ StartAt(head) # None
      /\ Span(head, head) = {}
  BY <1>0, MonitorNumbers DEF StartAt, Span, MonitorState
<1>4. Claim(l, pos[l])'
  <2>1. CASE pos'[l] = head  BY <1>2, <1>3, <2>1 DEF Claim
  <2>2. CASE pos'[l] = 0
    <3>1. Claim(l, 0)'  BY NothingBelowZero
    <3> QED  BY <2>2, <3>1 DEF Claim
  <2> QED  BY <1>1, <2>1, <2>2
<1>5. StateSafe(l)'
  <2>1. \A v \in Versions(state[l]) \ {None} : Covered(l, v)'
    <3>1. DiskGrows  BY <1>1 DEF files, DiskGrows
    <3> QED  BY <3>1, OnDiskStays DEF IInv, Safe, StateSafe, Covered
  <2>2. Covered(l, StartAt(head))'  BY <1>3 DEF Covered
  <2>3. (\A v \in Versions(state[l]) \ {None} : Covered(l, v))'  BY <1>2, <2>1, <2>2
  <2>4. session'[l] = "ready" => state'[l].seen # None /\ pos'[l] <= state'[l].seen.pos
    BY <1>0, <1>1, <1>2, <1>3
  <2> QED  BY <2>3, <2>4 DEF StateSafe
<1> QED  BY <1>1, <1>4, <1>5, InitSafe

LEMMA InitFailsSafe ==
    ASSUME IInv, TypeOK', NEW l \in Logs, InitFails(l)
    PROVE  Stages' /\ SuppressedIsWritten' /\ \A k \in Logs : Safe(k)'
<1>1. /\ pc = "init" /\ UNCHANGED <<files, pc, job, pos, state>>
      /\ session'[l] = "failed"
      /\ \A k \in Logs \ {l} : session'[k] = session[k]
  BY DEF InitFails, Starting, IInv, TypeOK
<1>2. DiskGrows  BY <1>1 DEF files, DiskGrows
<1>3. Claim(l, pos[l])'
  BY <1>1, <1>2, OnDiskStays DEF IInv, Safe, DeltaSafe, Claim
<1>4. StateSafe(l)'  BY <1>1, <1>2, ClaimsStay DEF IInv, Safe, StateSafe
<1> QED  BY <1>1, <1>3, <1>4, InitSafe

\* Between start-up and rounds every log is idle.
LEMMA BetweenSafe ==
    ASSUME IInv, TypeOK', InitDone \/ Round \/ Interrupt \/ UNCHANGED vars
                          \/ \E l \in Logs : Grow(l)
    PROVE  Stages' /\ SuppressedIsWritten' /\ \A k \in Logs : Safe(k)'
<1>1. UNCHANGED <<files, state, session, pos>>
  BY DEF InitDone, Round, Interrupt, Grow, vars, files
<1>2. FilesKept /\ DiskGrows
  <2>1. FilesKept  BY <1>1, KeepsItself DEF files, FilesKept
  <2> QED  BY <2>1, KeptGrows
<1>3. \/ /\ \A k \in Logs : job'[k] = NoJob
         /\ pc \in {"init", "poll"} /\ pc' \in {"poll", "exit"}
         /\ pc' = "poll" => \A k \in Logs : session[k] = "ready"
      \/ pc' = pc /\ job' = job
  BY DEF InitDone, Round, Interrupt, Grow, vars, IInv, Stages
<1>4. Stages'
  <2>1. \A k \in Logs : session'[k] = "none" => pos'[k] = 0  BY <1>1 DEF IInv, Stages
  <2>2. CASE /\ pc' \in {"poll", "exit"}
             /\ pc' = "poll" => \A k \in Logs : session[k] = "ready"
    BY <1>1, <2>1, <2>2 DEF Stages
  <2>3. CASE pc' = pc /\ job' = job
    BY <1>1, <2>1, <2>3 DEF IInv, Stages, files
  <2> QED  BY <1>3, <2>2, <2>3
<1>5. SuppressedIsWritten'
  <2>1. pc' # "down" => pc # "down"  BY <1>3
  <2> QED  BY <1>1, <2>1 DEF IInv, SuppressedIsWritten, files
<1>6. ASSUME NEW k \in Logs PROVE Safe(k)'
  <2>1. Safe(k)  BY DEF IInv
  <2>2. StateSafe(k)'
    BY <1>1, <1>2, <1>3, <2>1, ClaimsStay DEF Safe, StateSafe
  <2>3. CASE job'[k] = NoJob
    <3>1. Claim(k, 0)'  BY NothingBelowZero
    <3>2. Claim(k, pos[k])'  BY <1>1, <2>1 DEF Safe, DeltaSafe, Claim, OnDisk, files
    <3>3. DeltaSafe(k)' /\ BatchOnItsWay(k)'
      BY <2>3, <3>1, <3>2, IdleJob DEF DeltaSafe, BatchOnItsWay, Busy
    <3> QED  BY <2>2, <3>3 DEF Safe
  <2>4. CASE job' = job /\ pc' = pc
    <3>1. DeltaSafe(k)'  BY <1>1, <1>2, <2>1, <2>4, DeltaStays DEF Safe
    <3>2. BatchOnItsWay(k) => BatchOnItsWay(k)'  BY <1>2, <2>4, KeptWays
    <3> QED  BY <2>1, <2>2, <2>4, <3>1, <3>2 DEF Safe
  <2> QED  BY <1>3, <2>3, <2>4
<1> QED  BY <1>4, <1>5, <1>6

LEMMA EndSafe ==
    ASSUME IInv, TypeOK', Exit \/ Crash \/ PowerLoss
    PROVE  Stages' /\ SuppressedIsWritten' /\ \A l \in Logs : Safe(l)'
<1>1. Sound(out, AllEntries) /\ Sound(mal, AllEntries) /\ Gone
  BY DEF IInv, FilesSound, Exit, Crash, PowerLoss
<1>2. DiskGrows
  <2>1. CASE Exit
    <3>1. PICK o \in AfterFlush(out), m \in AfterFlush(mal) :
             out' = [o EXCEPT !.err = FALSE] /\ mal' = [m EXCEPT !.err = FALSE]
      BY <2>1 DEF Exit
    <3>2. /\ Sound(o, AllEntries) /\ out.disk \subseteq o.disk
          /\ Sound(m, AllEntries) /\ mal.disk \subseteq m.disk
      BY <1>1, FlushedFile
    <3>3. out'.disk = o.disk /\ mal'.disk = m.disk  BY <3>1, <3>2, ClosedFile
    <3> QED  BY <3>2, <3>3 DEF DiskGrows
  <2>2. CASE Crash  BY <1>1, <2>2, ExitedFile DEF Crash, DiskGrows
  <2>3. CASE PowerLoss  BY <1>1, <2>3, LostFile DEF PowerLoss, DiskGrows
  <2> QED  BY <2>1, <2>2, <2>3
<1>3. \A l \in Logs : Versions(state'[l]) \subseteq Versions(state[l])
  <2>1. CASE Exit \/ Crash  BY <2>1 DEF Exit, Crash
  <2>2. CASE PowerLoss
    <3>1. \A l \in Logs : state'[l] \in StateAfterPowerLoss(state[l])
      BY <2>2 DEF PowerLoss
    <3> QED  BY <3>1, StateLost
  <2> QED  BY <2>1, <2>2
<1> QED  BY <1>1, <1>2, <1>3, GoneSafe

-----------------------------------------------------------------------------
(* The steps of a poll round.                                              *)

\* A step that only moves the delta of l on.
LEMMA MoveSafe ==
    ASSUME IInv, NEW l \in Logs, Polls(l), UNCHANGED <<files, pos, state>>,
           job'[l].next \in {job[l].next, pos[l], 0},
           job'[l].marked \subseteq job[l].marked,
           job'[l].at \in Busy => pos[l] < job'[l].head,
           job'[l].at = "save" => job'[l].next = job'[l].head,
           BatchOnItsWay(l)'
    PROVE  Stages' /\ SuppressedIsWritten' /\ \A k \in Logs : Safe(k)'
<1>1. FilesKept /\ known' = known  BY KeepsItself DEF files, FilesKept
<1>2. DiskGrows /\ Safe(l)  BY <1>1, KeptGrows DEF IInv
<1>3. DeltaSafe(l)'
  <2>1. state[l].seen # None => Span(state[l].seen.from, 0) = {}
    BY DEF IInv, TypeOK, MonitorState, Span
  <2>2. Claim(l, pos[l])' /\ Claim(l, job[l].next)'
    BY <1>2, <2>1, OnDiskStays DEF Safe, DeltaSafe, Claim
  <2>3. (\A i \in job[l].marked : OnDisk(<<l, i>>))'
    BY <1>2, OnDiskStays DEF Safe, DeltaSafe
  <2> QED  BY <2>2, <2>3 DEF DeltaSafe
<1>4. StateSafe(l)'  BY <1>2, StateStays
<1>5. SuppressedIsWritten'  BY <1>1, SuppressionStays
<1> QED  BY <1>1, <1>3, <1>4, <1>5, PollSafe DEF Safe

LEMMA StartDeltaSafe ==
    ASSUME IInv, NEW l \in Logs, Polls(l),
           NoNews(l) \/ \E head \in 0..tree[l] : NewHead(l, head)
    PROVE  Stages' /\ SuppressedIsWritten' /\ \A k \in Logs : Safe(k)'
<1>1. UNCHANGED <<files, pos, state>> /\ job[l] \in JobType
  BY DEF NoNews, NewHead, IInv, TypeOK
<1>2. CASE NoNews(l)
  <2>1. job'[l] = Done  BY <1>2, DoneJob, SetsJob DEF NoNews, IInv
  <2>2. job'[l].at = "done" /\ job'[l].next = 0 /\ job'[l].marked = {}
    BY <2>1, DoneJob
  <2> QED  BY <1>1, <2>2, MoveSafe DEF BatchOnItsWay, Busy
<1>3. ASSUME NEW head \in 0..tree[l], NewHead(l, head)
      PROVE  Stages' /\ SuppressedIsWritten' /\ \A k \in Logs : Safe(k)'
  <2>1. job'[l] = [NoJob EXCEPT !.at = "fetch", !.head = head,
                                !.todo = Span(pos[l], head), !.next = pos[l]]
    BY <1>3 DEF NewHead, SetJob, IInv, TypeOK
  <2>2. /\ job'[l].at = "fetch" /\ job'[l].next = pos[l] /\ job'[l].marked = {}
        /\ job'[l].head = head /\ pos[l] < head
    <3>1. pos[l] < head
      <4>1. pos[l] \in Nat /\ tree[l] \in Nat  BY DEF IInv, TypeOK
      <4>2. head > pos[l]  BY <1>3 DEF NewHead
      <4> QED  BY <4>1, <4>2
    <3>2. job'[l].head = head  BY <2>1 DEF NoJob
    <3>3. /\ job'[l].at = "fetch" /\ job'[l].next = pos[l] /\ job'[l].marked = {}
      BY <2>1 DEF NoJob
    <3> QED  BY <3>1, <3>2, <3>3
  <2>3. BatchOnItsWay(l)'  BY <2>2 DEF BatchOnItsWay
  <2>4. job'[l].marked \subseteq job[l].marked  BY <2>2
  <2> QED  BY <1>1, <2>2, <2>3, <2>4, MoveSafe
<1> QED  BY <1>2, <1>3

LEMMA ReceiveSafe ==
    ASSUME IInv, NEW l \in Logs, Polls(l), NEW a, NEW b, Receive(l, a, b)
    PROVE  Stages' /\ SuppressedIsWritten' /\ \A k \in Logs : Safe(k)'
<1>1. /\ UNCHANGED <<files, pos, state>> /\ job[l] \in JobType /\ job[l].at = "fetch"
      /\ job'[l] = [job[l] EXCEPT !.at = "parse", !.todo = @ \ Span(a, b),
                                  !.batch = Span(a, b), !.left = Span(a, b),
                                  !.malWritten = FALSE, !.batchFailed = FALSE]
  BY DEF Receive, At, SetJob, IInv, TypeOK
<1>2. /\ job'[l].at = "parse" /\ job'[l].next = job[l].next
      /\ job'[l].marked = job[l].marked /\ job'[l].head = job[l].head
      /\ job'[l].batch \ job'[l].left = {}
  BY <1>1 DEF JobType
<1>3. pos[l] < job[l].head  BY <1>1 DEF IInv, Safe, DeltaSafe, Busy
<1> QED  BY <1>1, <1>2, <1>3, MoveSafe DEF BatchOnItsWay

\* A step that touches the files: what it must show.
LEMMA WriteSafe ==
    ASSUME IInv, NEW l \in Logs, Polls(l), FilesKept, UNCHANGED <<pos, state>>,
           job[l].at \in Busy, job'[l].at # "save",
           job'[l].next = job[l].next, job'[l].marked = job[l].marked,
           job'[l].head = job[l].head, BatchOnItsWay(l)', SuppressedIsWritten'
    PROVE  Stages' /\ SuppressedIsWritten' /\ \A k \in Logs : Safe(k)'
<1>1. DiskGrows /\ Safe(l)  BY KeptGrows DEF IInv
<1>2. DeltaSafe(l)'
  <2>1. Claim(l, pos[l])' /\ Claim(l, job[l].next)'
    BY <1>1, OnDiskStays DEF Safe, DeltaSafe, Claim
  <2>2. (\A i \in job[l].marked : OnDisk(<<l, i>>))'
    BY <1>1, OnDiskStays DEF Safe, DeltaSafe
  <2>3. pos'[l] < job'[l].head  BY <1>1 DEF Safe, DeltaSafe
  <2> QED  BY <2>1, <2>2, <2>3 DEF DeltaSafe
<1>3. StateSafe(l)'  BY <1>1, StateStays
<1> QED  BY <1>2, <1>3, PollSafe DEF Safe

\* A record that is suppressed was written by this process; one that is not is written.
LEMMA ParseResultSafe ==
    ASSUME IInv, NEW l \in Logs, Polls(l), NEW i \in job[l].left, ParseResult(l, i)
    PROVE  Stages' /\ SuppressedIsWritten' /\ \A k \in Logs : Safe(k)'
<1>1. /\ job[l] \in JobType /\ job[l].at = "parse" /\ pc = "poll" /\ pc' = "poll"
      /\ <<l, i>> \notin Malformed /\ WriteResult(<<l, i>>)
      /\ job'[l] = [job[l] EXCEPT !.left = @ \ {i}]
      /\ UNCHANGED <<mal, pos, state>>
  BY DEF ParseResult, At, SetJob, IInv, TypeOK
<1>2. /\ job'[l].at = "parse" /\ job'[l].next = job[l].next
      /\ job'[l].marked = job[l].marked /\ job'[l].head = job[l].head
      /\ job'[l].batch = job[l].batch /\ job'[l].left = job[l].left \ {i}
      /\ job'[l].malWritten = job[l].malWritten
      /\ job'[l].batchFailed = job[l].batchFailed
  BY <1>1 DEF JobType
<1>3. /\ Keeps(out, out')
      /\ out'.err \/ <<l, i>> \in out'.buf \cup out'.os
      /\ ~out.err => known' = known \cup {<<l, i>>}
      /\ out.err => known' = known
  <2>1. Sound(out, AllEntries) /\ <<l, i>> \in AllEntries
    BY <1>1, Entry DEF IInv, FilesSound, JobType
  <2>2. CASE out.err  BY <1>1, <2>2, KeepsItself DEF WriteResult
  <2>3. CASE ~out.err /\ <<l, i>> \in known
    BY <1>1, <2>3, KeepsItself DEF WriteResult, IInv, SuppressedIsWritten
  <2>4. CASE ~out.err /\ <<l, i>> \notin known
    BY <1>1, <2>1, <2>4, WrittenFile DEF WriteResult
  <2> QED  BY <1>1, <2>2, <2>3, <2>4
<1>4. FilesKept  BY <1>1, <1>3, KeepsItself DEF FilesKept
<1>5. SuppressedIsWritten'
  BY <1>1, <1>3 DEF IInv, SuppressedIsWritten, Keeps
<1>6. ASSUME NEW j \in job[l].batch \ (job[l].left \ {i}) PROVE Held(l, j)'
  <2>1. CASE j = i  BY <1>1, <1>3, <2>1 DEF Held
  <2>2. CASE j # i
    <3>1. Held(l, j)  BY <1>1, <1>6, <2>2 DEF IInv, Safe, BatchOnItsWay
    <3> QED  BY <1>2, <1>4, <3>1 DEF Held, FilesKept, Keeps
  <2> QED  BY <2>1, <2>2
<1>7. BatchOnItsWay(l)'  BY <1>2, <1>6 DEF BatchOnItsWay
<1> QED  BY <1>1, <1>2, <1>4, <1>5, <1>7, WriteSafe DEF Busy

LEMMA ParseMalformedSafe ==
    ASSUME IInv, NEW l \in Logs, Polls(l), NEW i \in job[l].left, ParseMalformed(l, i)
    PROVE  Stages' /\ SuppressedIsWritten' /\ \A k \in Logs : Safe(k)'
<1>1. /\ job[l] \in JobType /\ job[l].at = "parse" /\ pc = "poll" /\ pc' = "poll"
      /\ <<l, i>> \in Malformed /\ mal' \in AfterWrite(mal, <<l, i>>)
      /\ job'[l] = [job[l] EXCEPT !.left = @ \ {i}, !.malWritten = @ \/ ~mal'.err,
                                  !.batchFailed = @ \/ mal'.err]
      /\ UNCHANGED <<out, known, pos, state>>
  BY DEF ParseMalformed, At, SetJob, IInv, TypeOK
<1>2. /\ job'[l].at = "parse" /\ job'[l].next = job[l].next
      /\ job'[l].marked = job[l].marked /\ job'[l].head = job[l].head
      /\ job'[l].batch = job[l].batch /\ job'[l].left = job[l].left \ {i}
      /\ job'[l].malWritten = (job[l].malWritten \/ ~mal'.err)
      /\ job'[l].batchFailed = (job[l].batchFailed \/ mal'.err)
  BY <1>1 DEF JobType
<1>3. Sound(mal, AllEntries) /\ <<l, i>> \in AllEntries
  BY <1>1, Entry DEF IInv, FilesSound, JobType
<1>4. Keeps(mal, mal') /\ (mal'.err \/ <<l, i>> \in mal'.buf \cup mal'.os)
  BY <1>1, <1>3, WrittenFile
<1>5. FilesKept  BY <1>1, <1>4, KeepsItself DEF FilesKept
<1>6. SuppressedIsWritten'  BY <1>1, <1>5, SuppressionStays
<1>7. ASSUME NEW j \in job[l].batch \ (job[l].left \ {i}) PROVE Held(l, j)'
  <2>1. CASE j = i  BY <1>1, <1>2, <1>4, <2>1 DEF Held
  <2>2. CASE j # i
    <3>1. Held(l, j)  BY <1>1, <1>7, <2>2 DEF IInv, Safe, BatchOnItsWay
    <3> QED  BY <1>2, <1>5, <3>1 DEF Held, FilesKept, Keeps
  <2> QED  BY <2>1, <2>2
<1>8. BatchOnItsWay(l)'  BY <1>2, <1>7 DEF BatchOnItsWay
<1> QED  BY <1>1, <1>2, <1>5, <1>6, <1>8, WriteSafe DEF Busy

\* The tracker absorbs a batch that is on disk: so is the prefix it grows to.
LEMMA MarkSafe ==
    ASSUME IInv, NEW l \in Logs, Polls(l), FilesKept, UNCHANGED <<pos, state>>,
           SuppressedIsWritten', job[l].at \in Busy,
           NEW j \in JobType, MarkBatch(l, j), j.next = job[l].next,
           j.marked = job[l].marked, j.head = job[l].head,
           j.batchFailed \/ \A i \in j.batch : OnDisk(<<l, i>>)'
    PROVE  Stages' /\ SuppressedIsWritten' /\ \A k \in Logs : Safe(k)'
<1>1. /\ Safe(l) /\ pos[l] < job[l].head /\ DiskGrows
      /\ job \in [Logs -> JobType]
  BY KeptGrows DEF IInv, Safe, DeltaSafe, TypeOK
<1> DEFINE rest == [j EXCEPT !.at = "fetch", !.batch = {}, !.malWritten = FALSE,
                             !.batchFailed = FALSE]
           failed == [rest EXCEPT !.failed = TRUE]
           marked(n) == [rest EXCEPT !.marked = j.marked \cup j.batch, !.next = n]
<1>2. CASE j.batchFailed
  <2>1. job'[l] = failed  BY <1>1, <1>2 DEF MarkBatch, SetJob
  <2>2. failed.at = "fetch" /\ failed.next = j.next /\ failed.marked = j.marked
        /\ failed.head = j.head
    BY DEF JobType
  <2>3. BatchOnItsWay(l)'  BY <2>1, <2>2 DEF BatchOnItsWay
  <2> HIDE DEF failed
  <2> QED  BY <2>1, <2>2, <2>3, WriteSafe
<1>3. CASE ~j.batchFailed
  <2>1. PICK n \in j.next .. j.head :
           FirstGap(n, j, j.marked \cup j.batch) /\ job'[l] = marked(n)
    BY <1>1, <1>3 DEF MarkBatch, SetJob
  <2>2. /\ marked(n).at = "fetch" /\ marked(n).next = n /\ marked(n).head = j.head
        /\ marked(n).marked = j.marked \cup j.batch
    BY DEF JobType
  <2> HIDE DEF marked
  <2>3. \A i \in j.marked \cup j.batch : OnDisk(<<l, i>>)'
    BY <1>1, <1>3, OnDiskStays DEF Safe, DeltaSafe
  <2>4. Claim(l, n)'
    <3> SUFFICES ASSUME state[l].seen # None, NEW i \in Span(state[l].seen.from, n)
                 PROVE  OnDisk(<<l, i>>)'
      BY DEF Claim
    <3>1. state[l].seen.from \in Nat /\ j.next \in Nat /\ n \in Int
      BY DEF IInv, TypeOK, JobType, MonitorState
    <3>2. i \in Span(state[l].seen.from, j.next) \/ i \in Span(j.next, n)
      BY <3>1 DEF Span
    <3>3. Span(j.next, n) \subseteq j.marked \cup j.batch  BY <2>1 DEF FirstGap
    <3> QED
      BY <1>1, <2>3, <3>2, <3>3, OnDiskStays DEF Safe, DeltaSafe, Claim
  <2>5. DeltaSafe(l)'
    <3>1. Claim(l, pos[l])'  BY <1>1, OnDiskStays DEF Safe, DeltaSafe, Claim
    <3>2. Claim(l, job[l].next)'  BY <2>1, <2>2, <2>4 DEF Claim
    <3>3. (\A i \in job[l].marked : OnDisk(<<l, i>>))'  BY <2>1, <2>2, <2>3
    <3>4. job'[l].at = "fetch" /\ pos'[l] < job'[l].head  BY <1>1, <2>1, <2>2
    <3> QED  BY <3>1, <3>2, <3>3, <3>4 DEF DeltaSafe
  <2>6. StateSafe(l)'  BY <1>1, StateStays
  <2>7. BatchOnItsWay(l)'  BY <2>1, <2>2 DEF BatchOnItsWay
  <2> QED  BY <2>5, <2>6, <2>7, PollSafe DEF Safe
<1> QED  BY <1>2, <1>3

LEMMA FlushOutputSafe ==
    ASSUME IInv, NEW l \in Logs, Polls(l), FlushOutput(l)
    PROVE  Stages' /\ SuppressedIsWritten' /\ \A k \in Logs : Safe(k)'
<1>1. /\ job[l] \in JobType /\ job[l].at = "parse" /\ job[l].left = {} /\ pc = "poll"
      /\ job \in [Logs -> JobType] /\ out' \in AfterFlush(out)
      /\ UNCHANGED <<mal, known, pos, state>>
  BY DEF FlushOutput, At, IInv, TypeOK
<1>2. /\ Keeps(out, out') /\ (out'.err \/ out.buf \cup out.os \subseteq out'.disk)
      /\ out'.err \in BOOLEAN
  <2>1. Sound(out, AllEntries)  BY DEF IInv, FilesSound
  <2>2. Sound(out', AllEntries)  BY <1>1, <2>1, FlushedFile
  <2> QED  BY <1>1, <2>1, <2>2, FlushedFile DEF Sound, FileOf
<1>3. FilesKept  BY <1>1, <1>2, KeepsItself DEF FilesKept
<1>4. SuppressedIsWritten'  BY <1>1, <1>3, SuppressionStays
<1>5. PICK j : j = [job[l] EXCEPT !.batchFailed = @ \/ out'.err]
  OBVIOUS
<1>6. /\ j \in JobType /\ j.at = "parse" /\ j.next = job[l].next
      /\ j.marked = job[l].marked /\ j.head = job[l].head /\ j.batch = job[l].batch
      /\ j.malWritten = job[l].malWritten
      /\ j.batchFailed = (job[l].batchFailed \/ out'.err)
  BY <1>1, <1>2, <1>5 DEF JobType
<1>7. ASSUME ~j.batchFailed, NEW i \in job[l].batch
      PROVE  IF <<l, i>> \in Malformed
             THEN job[l].malWritten /\ (mal.err \/ <<l, i>> \in mal.buf \cup mal.os)
             ELSE <<l, i>> \in out'.disk
  <2>1. Held(l, i)  BY <1>1 DEF IInv, Safe, BatchOnItsWay
  <2>2. ~out.err /\ ~out'.err /\ ~job[l].batchFailed
    BY <1>2, <1>6, <1>7 DEF Keeps
  <2> QED  BY <1>2, <2>1, <2>2 DEF Held
<1>8. CASE j.malWritten
  <2>1. job'[l] = [j EXCEPT !.at = "flush"]
    BY <1>1, <1>5, <1>8 DEF FlushOutput, OutputFlushed, SetJob
  <2>2. /\ job'[l].at = "flush" /\ job'[l].next = job[l].next
        /\ job'[l].marked = job[l].marked /\ job'[l].head = job[l].head
        /\ job'[l].batch = job[l].batch /\ job'[l].malWritten = job[l].malWritten
        /\ job'[l].batchFailed = j.batchFailed
    BY <1>6, <2>1 DEF JobType
  <2>3. ASSUME ~job'[l].batchFailed, NEW i \in job[l].batch PROVE Flushed(l, i)'
    BY <1>1, <1>7, <2>2, <2>3 DEF Flushed
  <2>4. BatchOnItsWay(l)'  BY <2>2, <2>3 DEF BatchOnItsWay
  <2> QED  BY <1>1, <1>3, <1>4, <2>2, <2>4, WriteSafe DEF Busy
<1>9. CASE ~j.malWritten
  <2>1. MarkBatch(l, j)  BY <1>5, <1>9 DEF FlushOutput, OutputFlushed
  <2>2. j.batchFailed \/ \A i \in j.batch : OnDisk(<<l, i>>)'
    BY <1>6, <1>7, <1>9 DEF OnDisk
  <2> QED  BY <1>1, <1>3, <1>4, <1>6, <2>1, <2>2, MarkSafe DEF Busy
<1> QED  BY <1>8, <1>9

LEMMA FlushEvidenceSafe ==
    ASSUME IInv, NEW l \in Logs, Polls(l), FlushEvidence(l)
    PROVE  Stages' /\ SuppressedIsWritten' /\ \A k \in Logs : Safe(k)'
<1>1. /\ job[l] \in JobType /\ job[l].at = "flush" /\ pc = "poll"
      /\ mal' \in AfterFlush(mal) /\ UNCHANGED <<out, known, pos, state>>
  BY DEF FlushEvidence, At, IInv, TypeOK
<1>2. /\ Keeps(mal, mal') /\ (mal'.err \/ mal.buf \cup mal.os \subseteq mal'.disk)
      /\ mal'.err \in BOOLEAN
  <2>1. Sound(mal, AllEntries)  BY DEF IInv, FilesSound
  <2>2. Sound(mal', AllEntries)  BY <1>1, <2>1, FlushedFile
  <2> QED  BY <1>1, <2>1, <2>2, FlushedFile DEF Sound, FileOf
<1>3. FilesKept  BY <1>1, <1>2, KeepsItself DEF FilesKept
<1>4. SuppressedIsWritten'  BY <1>1, <1>3, SuppressionStays
<1>5. PICK j : j = [job[l] EXCEPT !.batchFailed = @ \/ mal'.err]
  OBVIOUS
<1>6. /\ j \in JobType /\ j.next = job[l].next
      /\ j.marked = job[l].marked /\ j.head = job[l].head /\ j.batch = job[l].batch
      /\ j.batchFailed = (job[l].batchFailed \/ mal'.err)
  BY <1>1, <1>2, <1>5 DEF JobType
<1>7. MarkBatch(l, j)  BY <1>5 DEF FlushEvidence
<1>8. ASSUME ~j.batchFailed, NEW i \in j.batch PROVE OnDisk(<<l, i>>)'
  <2>1. ~mal.err /\ ~mal'.err /\ ~job[l].batchFailed
    BY <1>2, <1>6, <1>8 DEF Keeps
  <2>2. Flushed(l, i)  BY <1>1, <1>6, <1>8, <2>1 DEF IInv, Safe, BatchOnItsWay
  <2> QED  BY <1>1, <1>2, <2>1, <2>2 DEF Flushed, OnDisk
<1> QED  BY <1>1, <1>3, <1>4, <1>6, <1>7, <1>8, MarkSafe DEF Busy

LEMMA PoolEndsSafe ==
    ASSUME IInv, NEW l \in Logs, Polls(l), PoolEnds(l)
    PROVE  Stages' /\ SuppressedIsWritten' /\ \A k \in Logs : Safe(k)'
<1>1. /\ job[l] \in JobType /\ job[l].at = "fetch" /\ job \in [Logs -> JobType]
      /\ UNCHANGED <<files, pos, state>>
  BY DEF PoolEnds, At, IInv, TypeOK
<1>2. PICK failed \in BOOLEAN : DeltaEnds(l, failed)  BY DEF PoolEnds
<1>3. PICK j : j = [job[l] EXCEPT !.failed = @ \/ failed]
  OBVIOUS
<1>4. /\ j \in JobType /\ j.next = job[l].next /\ j.marked = job[l].marked
      /\ j.head = job[l].head
  BY <1>1, <1>3 DEF JobType
<1>5. \/ job'[l] = Done
      \/ job'[l] = [j EXCEPT !.at = "save"] /\ j.next = j.head
  BY <1>1, <1>2, <1>3 DEF DeltaEnds, DeltaDone, SetJob
<1>6. pos[l] < job[l].head  BY <1>1 DEF IInv, Safe, DeltaSafe, Busy
<1>7. CASE job'[l] = Done
  BY <1>1, <1>7, DoneJob, MoveSafe DEF BatchOnItsWay, Busy
<1>8. CASE job'[l] = [j EXCEPT !.at = "save"] /\ j.next = j.head
  <2>1. /\ job'[l].at = "save" /\ job'[l].next = job[l].next /\ job'[l].head = job[l].head
        /\ job'[l].marked = job[l].marked /\ job'[l].next = job'[l].head
    BY <1>4, <1>8 DEF JobType
  <2>2. BatchOnItsWay(l)'  BY <2>1 DEF BatchOnItsWay
  <2> QED  BY <1>1, <1>6, <2>1, <2>2, MoveSafe
<1> QED  BY <1>5, <1>7, <1>8

\* The position that is saved is the end of a prefix on disk.
LEMMA SaveSafe ==
    ASSUME IInv, NEW l \in Logs, Polls(l), SaveAndMove(l) \/ SaveFails(l)
    PROVE  Stages' /\ SuppressedIsWritten' /\ \A k \in Logs : Safe(k)'
<1> DEFINE new == [state[l].seen EXCEPT !.pos = job[l].head]
<1>1. /\ job[l] \in JobType /\ job[l].at = "save" /\ pc = "poll" /\ Safe(l)
      /\ UNCHANGED files /\ job'[l] = Done
      /\ pos[l] \in Nat /\ job[l].head \in Nat
  BY DEF SaveAndMove, SaveFails, At, SetJob, IInv, TypeOK, JobType
<1>2. job'[l].at = "done" /\ job'[l].next = 0 /\ job'[l].marked = {}
  BY <1>1, DoneJob
<1>3. pos[l] < job[l].head /\ Claim(l, job[l].head)
  BY <1>1 DEF Safe, DeltaSafe, Busy
<1>4. state[l].seen \in MonitorState /\ session[l] = "ready" /\ pos[l] <= state[l].seen.pos
  <2>1. session[l] = "ready"  BY <1>1 DEF IInv, Stages
  <2>2. state[l].seen # None /\ pos[l] <= state[l].seen.pos
    BY <1>1, <2>1 DEF Safe, StateSafe
  <2> QED  BY <2>1, <2>2 DEF IInv, TypeOK
<1>5. new \in MonitorState /\ new.pos = job[l].head /\ new.from = state[l].seen.from
  BY <1>1, <1>4 DEF MonitorState
<1>6. /\ FilesKept /\ DiskGrows /\ known' = known /\ session'[l] = session[l] /\ pc' = pc
  <2>1. FilesKept /\ known' = known  BY <1>1, KeepsItself DEF files, FilesKept
  <2> QED  BY <2>1, KeptGrows DEF Polls
<1>7. /\ state'[l] = state[l] \/ state'[l] = Replaced(state[l], new)
      /\ \/ pos'[l] = pos[l]
         \/ pos'[l] = job[l].head /\ state'[l] = Replaced(state[l], new)
  BY DEF SaveAndMove, SaveFails, SavedUpTo, IInv, TypeOK
<1> HIDE DEF new
<1>8. /\ Versions(Replaced(state[l], new)) = Versions(state[l]) \cup {new}
      /\ Replaced(state[l], new).seen = new
  BY ReplacedState
<1>9. state'[l].seen \in MonitorState /\ state'[l].seen.from = state[l].seen.from
  BY <1>4, <1>5, <1>7, <1>8
<1>10. state[l].seen # None /\ state'[l].seen # None  BY <1>4, <1>9, MonitorNumbers
<1>11. DeltaSafe(l)'
  <2>1. Claim(l, pos[l])'
    BY <1>1, <1>3, <1>6, <1>7, <1>9, <1>10, OnDiskStays DEF Safe, DeltaSafe, Claim
  <2>2. Span(state'[l].seen.from, 0) = {}  BY <1>9 DEF MonitorState, Span
  <2>3. Claim(l, job[l].next)' /\ (\A i \in job[l].marked : OnDisk(<<l, i>>))'
    BY <1>2, <2>2 DEF Claim
  <2> QED  BY <1>2, <2>1, <2>3 DEF DeltaSafe, Busy
<1>12. StateSafe(l)'
  <2>1. Covered(l, new)
    BY <1>3, <1>5, <1>10 DEF Claim, Covered
  <2>2. \A v \in Versions(state'[l]) \ {None} : Covered(l, v)
    BY <1>1, <1>7, <1>8, <2>1 DEF Safe, StateSafe
  <2>3. (\A v \in Versions(state[l]) \ {None} : Covered(l, v))'
    BY <1>6, <2>2, OnDiskStays DEF Covered
  <2>4. pos'[l] <= state'[l].seen.pos
    BY <1>1, <1>3, <1>4, <1>5, <1>7, <1>8
  <2> QED  BY <1>10, <2>3, <2>4 DEF StateSafe
<1>13. BatchOnItsWay(l)'  BY <1>2 DEF BatchOnItsWay
<1>14. SuppressedIsWritten'  BY <1>6, SuppressionStays
<1> QED  BY <1>6, <1>11, <1>12, <1>13, <1>14, PollSafe DEF Safe

LEMMA MonitorStep == IInv /\ [Next]_vars => IInv'
<1> SUFFICES ASSUME IInv, [Next]_vars PROVE IInv'
  OBVIOUS
<1> DEFINE Kept == Stages' /\ SuppressedIsWritten' /\ \A k \in Logs : Safe(k)'
<1>1. pc = "poll" => \A l \in Logs : state[l].seen # None
  BY DEF IInv, Stages, Safe, StateSafe
<1>2. TypeOK /\ FilesSound /\ (TypeOK /\ FilesSound)'  BY <1>1, TypeNext DEF IInv
<1>3. ASSUME NEW r \in BOOLEAN, Begin(r) PROVE Kept  BY <1>2, <1>3, BeginSafe
<1>4. ASSUME NEW l \in Logs, InitLog(l) PROVE Kept
  BY <1>2, <1>4, InitSavedSafe, InitFreshSafe, InitFailsSafe DEF InitLog
<1>5. ASSUME NEW l \in Logs, Poll(l) PROVE Kept
  <2>1. Polls(l)  BY <1>1, <1>2, <1>5, TypePoll
  <2>2. CASE NoNews(l) \/ \E head \in 0..tree[l] : NewHead(l, head)
    BY <2>1, <2>2, StartDeltaSafe
  <2>3. CASE Fetch(l)
    BY <2>1, <2>3, ReceiveSafe, ParseResultSafe, ParseMalformedSafe, FlushOutputSafe,
       FlushEvidenceSafe, PoolEndsSafe, SaveSafe
    DEF Fetch
  <2> QED  BY <1>5, <2>2, <2>3 DEF Poll
<1>6. ASSUME InitDone \/ Round \/ Interrupt \/ UNCHANGED vars \/ \E l \in Logs : Grow(l)
      PROVE  Kept
  BY <1>2, <1>6, BetweenSafe
<1>7. ASSUME Exit \/ Crash \/ PowerLoss PROVE Kept  BY <1>2, <1>7, EndSafe
<1>8. Kept  BY <1>3, <1>4, <1>5, <1>6, <1>7 DEF Next
<1> QED  BY <1>2, <1>8 DEF IInv

\* The variables keep their types, and what is durable in a file has been written to it.
THEOREM MonitorTypes == Spec => [](TypeOK /\ FilesSound)
<1>1. IInv => TypeOK /\ FilesSound  BY DEF IInv
<1> QED  BY <1>1, MonitorInit, MonitorStep, PTL DEF Spec

\* Whatever version of its state file a log is left with, the newest or one a power loss
\* brings back, everything from the beginning of its stretch to its position is durable: for
\* any logs, goroutines, failures, crashes and power losses (runner.go:586-729).
THEOREM MonitorNoGap == Spec => []NoGapSinceStart
<1>1. IInv => NoGapSinceStart
  BY DEF IInv, Safe, StateSafe, Covered, NoGapSinceStart, Entries
<1> QED  BY <1>1, MonitorInit, MonitorStep, PTL DEF Spec

\* A session is never ahead of its state file, also where a save was reported as failed
\* after its rename, or a power loss has taken the file back before the session began.
THEOREM MonitorSessionBehindState == Spec => []SessionBehindState
<1>1. IInv => SessionBehindState
  BY DEF IInv, Safe, StateSafe, SessionBehindState
<1> QED  BY <1>1, MonitorInit, MonitorStep, PTL DEF Spec

\* A record the dedup map suppresses is in the file or its buffer, or the writer is stuck
\* on an error and acknowledges nothing.
THEOREM MonitorSuppressesWritten == Spec => []SuppressedIsWritten
<1>1. IInv => SuppressedIsWritten  BY DEF IInv
<1> QED  BY <1>1, MonitorInit, MonitorStep, PTL DEF Spec
=============================================================================
