-------------------------- MODULE WorkerPool_proofs --------------------------
(***************************************************************************)
(* Proofs about WorkerPool, for any range, item size and number of workers *)
(* and any order in which requests, failures, new workers and a            *)
(* cancellation interleave.                                                *)
(***************************************************************************)
EXTENDS WorkerPool, FiniteSetTheorems, TLAPS

\* What a worker has in hand, nothing if it is between two items.
Holding(w) == IF InHand(w) THEN Rest(w) ELSE {}

\* The channel holds whole items, and the feeder is less than an item beyond the end.
Cutting ==
    /\ \E k \in Nat : feedPos = takePos + k * BatchSize
    /\ Start <= takePos
    /\ feedPos < End + BatchSize

\* What is in hand was taken, lies in the range and covers the response.
Hands ==
    \A w \in Workers : InHand(w) =>
        /\ Start <= worker[w].cur
        /\ worker[w].last < End /\ worker[w].last < takePos
        /\ worker[w].at = "wait" => worker[w].cur <= worker[w].last
        /\ worker[w].at = "give" => /\ worker[w].n >= 1
                                    /\ worker[w].cur + worker[w].n - 1 <= worker[w].last

Counted == IsFiniteSet(lost) /\ dropped = Cardinality(lost)

\* How far feeder, workers, coordinator and caller have got, relative to each other.
Stages ==
    /\ ~feeding /\ ~cancelled => feedPos >= End
    /\ coord = "start" => Running = {}
    /\ coord # "start" /\ Running = {} /\ ~cancelled => WorkDrained
    /\ coord = "done" => Running = {}
    /\ caller = "done" => cancelled
    /\ caller \in {"joined", "returned"} => coord = "done"
    /\ caller = "returned" <=> verdict # "running"
    /\ caller = "returned" /\ ~cancelled
          => verdict = IF dropped > 0 THEN "incomplete" ELSE "nil"

IInv == TypeOK /\ Cutting /\ Hands /\ OwnedOnce /\ NothingUnnoticed /\ Counted /\ Stages

-----------------------------------------------------------------------------
LEMMA PoolNumbers ==
    /\ Start \in Nat /\ End \in Nat /\ Start < End
    /\ BatchSize \in Nat /\ BatchSize > 0 /\ ResultCap \in Nat
BY PoolConstants

LEMMA GridStep ==
    ASSUME NEW k \in Nat, NEW b \in Nat
    PROVE  k * b \in Nat /\ (k + 1) * b = k * b + b
OBVIOUS

\* An item that can be taken was cut as a whole, and begins inside the range.
LEMMA NextItem ==
    ASSUME TypeOK, Cutting, takePos < feedPos
    PROVE  /\ takePos < End
           /\ \E k \in Nat : feedPos = (takePos + BatchSize) + k * BatchSize
<1>1. PICK k \in Nat : feedPos = takePos + k * BatchSize  BY DEF Cutting
<1>2. takePos \in Nat /\ feedPos \in Nat  BY DEF TypeOK
<1>3. k # 0
  <2>1. 0 * BatchSize = 0  BY PoolNumbers
  <2> QED  BY <1>1, <1>2, <2>1
<1>4. k - 1 \in Nat  BY <1>3
<1>5. (k - 1) * BatchSize \in Nat
      /\ ((k - 1) + 1) * BatchSize = (k - 1) * BatchSize + BatchSize
  BY <1>4, GridStep, PoolNumbers
<1>6. (k - 1) + 1 = k  OBVIOUS
<1>7. feedPos = (takePos + BatchSize) + (k - 1) * BatchSize
  BY <1>1, <1>2, <1>5, <1>6, PoolNumbers
<1>8. takePos < End  BY <1>2, <1>5, <1>7, PoolNumbers DEF Cutting
<1> QED  BY <1>4, <1>7, <1>8

LEMMA RangeFinite == ASSUME NEW S \in SUBSET Indices PROVE IsFiniteSet(S)
<1>1. IsFiniteSet(Start .. (End - 1))  BY FS_Interval, PoolNumbers
<1> QED  BY <1>1, FS_Subset DEF Indices

-----------------------------------------------------------------------------
(* A step of one worker.                                                   *)

Becomes(w, r) ==
    /\ worker' \in [Workers -> WorkerType]
    /\ worker'[w] = r
    /\ \A v \in Workers \ {w} : worker'[v] = worker[v]

LEMMA Steps ==
    ASSUME TypeOK, NEW w \in Workers, NEW r \in WorkerType, worker' = [worker EXCEPT ![w] = r]
    PROVE  Becomes(w, r)
BY DEF TypeOK, Becomes

LEMMA OffWorker == Off \in WorkerType
BY PoolNumbers DEF Off, WorkerType

LEMMA Quits == ASSUME TypeOK, NEW w \in Workers, Quit(w) PROVE Becomes(w, Off)
BY Steps, OffWorker DEF Quit

LEMMA Goes ==
    ASSUME TypeOK, NEW w \in Workers,
           NEW at \in {"off", "take", "limit", "head", "wait", "give"}, Goto(w, at)
    PROVE  /\ Becomes(w, [worker[w] EXCEPT !.at = at])
           /\ worker'[w].at = at /\ worker'[w].cur = worker[w].cur
           /\ worker'[w].last = worker[w].last /\ worker'[w].n = worker[w].n
<1> DEFINE r == [worker[w] EXCEPT !.at = at]
<1>1. worker[w] \in WorkerType  BY DEF TypeOK
<1>2. r \in WorkerType /\ r.at = at /\ r.cur = worker[w].cur /\ r.last = worker[w].last
      /\ r.n = worker[w].n
  BY <1>1 DEF WorkerType
<1>3. worker' = [worker EXCEPT ![w] = r]  BY DEF Goto, TypeOK
<1> HIDE DEF r
<1>4. Becomes(w, r)  BY <1>2, <1>3, Steps
<1>5. worker'[w] = r  BY <1>4 DEF Becomes
<1> QED  BY <1>2, <1>4, <1>5 DEF r

LEMMA Spawns ==
    ASSUME TypeOK, NEW w \in Workers, Spawn(w)
    PROVE  Becomes(w, [Off EXCEPT !.at = "take"]) /\ worker'[w].at = "take"
<1>1. [Off EXCEPT !.at = "take"] \in WorkerType /\ [Off EXCEPT !.at = "take"].at = "take"
  BY OffWorker DEF WorkerType
<1>2. Becomes(w, [Off EXCEPT !.at = "take"])  BY <1>1, Steps DEF Spawn
<1> QED  BY <1>1, <1>2 DEF Becomes

\* The step of w uses up D of what it holds, which is delivered or lost.
Spends(w, D) ==
    /\ takePos' = takePos
    /\ Holding(w)' \subseteq Holding(w)
    /\ D \subseteq Holding(w) /\ D \cap Holding(w)' = {}
    /\ \/ delivered' = delivered \cup D /\ lost' = lost
       \/ delivered' = delivered /\ lost' = lost \cup D

LEMMA OwnedStays ==
    ASSUME OwnedOnce, NEW w \in Workers, NEW r, Becomes(w, r), NEW D, Spends(w, D)
    PROVE  OwnedOnce'
<1>1. ASSUME NEW v \in Workers PROVE Holding(v)' \subseteq Holding(v)
  <2>1. CASE v = w  BY <2>1 DEF Spends
  <2>2. CASE v # w  BY <2>2 DEF Becomes, Holding, InHand, Rest
  <2> QED  BY <2>1, <2>2
<1>2. ASSUME NEW v \in Workers PROVE Holding(v)' \cap D = {}
  <2>1. CASE v = w  BY <2>1 DEF Spends
  <2>2. CASE v # w
    <3>1. Holding(v) \cap Holding(w) = {}  BY <2>2 DEF OwnedOnce, Holding
    <3> QED  BY <3>1, <1>1 DEF Spends
  <2> QED  BY <2>1, <2>2
<1>3. D \subseteq Holding(w)  BY DEF Spends
<1>4. D \cap (delivered \cup lost) = {} /\ \A i \in D : i < takePos
  BY <1>3 DEF OwnedOnce, Holding
<1>5. (delivered' \cup lost') = delivered \cup lost \cup D  BY DEF Spends
<1>6. (delivered \cap lost = {})' /\ (\A i \in delivered \cup lost : i < takePos)'
  BY <1>4, <1>5 DEF OwnedOnce, Spends
<1>7. ASSUME NEW v \in Workers, InHand(v)' 
      PROVE  /\ Rest(v)' \cap (delivered' \cup lost') = {}
             /\ \A i \in Rest(v)' : i < takePos'
             /\ \A u \in Workers \ {v} : InHand(u)' => Rest(u)' \cap Rest(v)' = {}
  <2>1. Rest(v)' = Holding(v)' /\ Rest(v)' \subseteq Holding(v)  BY <1>1, <1>7 DEF Holding
  <2>2. Holding(v) \cap (delivered \cup lost) = {} /\ \A i \in Holding(v) : i < takePos
    BY DEF OwnedOnce, Holding
  <2>3. ASSUME NEW u \in Workers \ {v}, InHand(u)' PROVE Rest(u)' \cap Rest(v)' = {}
    <3>1. Rest(u)' \subseteq Holding(u)  BY <1>1, <2>3 DEF Holding
    <3>2. Holding(u) \cap Holding(v) = {}  BY DEF OwnedOnce, Holding
    <3> QED  BY <2>1, <3>1, <3>2
  <2> QED  BY <1>2, <1>5, <2>1, <2>2, <2>3 DEF Spends
<1> QED  BY <1>6, <1>7 DEF OwnedOnce

LEMMA NoticedStays ==
    ASSUME NothingUnnoticed, NEW w \in Workers, NEW r, Becomes(w, r), NEW D, Spends(w, D),
           cancelled' <=> cancelled, ~cancelled => Holding(w) \subseteq D \cup Holding(w)'
    PROVE  NothingUnnoticed'
<1> SUFFICES ASSUME ~cancelled, NEW i \in Indices, i < takePos,
                    i \notin delivered' \cup lost'
             PROVE  \E v \in Workers : InHand(v)' /\ i \in Rest(v)'
  BY DEF NothingUnnoticed, Spends
<1>1. i \notin delivered \cup lost /\ i \notin D  BY DEF Spends
<1>2. PICK v \in Workers : InHand(v) /\ i \in Rest(v)  BY <1>1 DEF NothingUnnoticed
<1>3. i \in Holding(v)'
  <2>1. CASE v = w  BY <1>1, <1>2, <2>1 DEF Holding
  <2>2. CASE v # w  BY <1>2, <2>2 DEF Becomes, Holding, InHand, Rest
  <2> QED  BY <2>1, <2>2
<1> QED  BY <1>3 DEF Holding

-----------------------------------------------------------------------------
(* The invariant, step by step.                                            *)

LEMMA PoolInit == Init => IInv
<1> SUFFICES ASSUME Init PROVE IInv
  OBVIOUS
<1>1. worker \in [Workers -> WorkerType] /\ \A w \in Workers : worker[w].at = "off"
  BY OffWorker DEF Init, Off
<1>2. Running = {} /\ \A w \in Workers : ~InHand(w)  BY <1>1 DEF Running, InHand
<1>3. TypeOK
  <2>1. Start \in Nat /\ 0 \in 0..ResultCap /\ 0 \in Nat  BY PoolNumbers
  <2> QED  BY <1>1, <2>1 DEF Init, TypeOK
<1>4. Cutting
  <2>1. Start = Start + 0 * BatchSize  BY PoolNumbers
  <2> QED  BY <2>1, PoolNumbers DEF Init, Cutting
<1>5. Counted  BY FS_EmptySet DEF Init, Counted
<1>6. Hands /\ OwnedOnce  BY <1>2 DEF Init, Hands, OwnedOnce
<1>7. NothingUnnoticed  BY PoolNumbers DEF Init, NothingUnnoticed, Indices
<1>8. Stages  BY <1>2 DEF Init, Stages
<1> QED  BY <1>3, <1>4, <1>5, <1>6, <1>7, <1>8 DEF IInv

\* Where no worker moves, ownership and counting stay.
LEMMA OwnershipStays ==
    ASSUME IInv, UNCHANGED <<worker, takePos, delivered, lost,
                             dropped>>, cancelled => cancelled'
    PROVE  Hands' /\ OwnedOnce' /\ NothingUnnoticed' /\ Counted' /\ Running' = Running
<1>1. \A w \in Workers : (InHand(w)' <=> InHand(w)) /\ Rest(w)' = Rest(w)
  BY DEF InHand, Rest
<1>2. Running' = Running  BY DEF Running
<1>3. Hands'  BY <1>1 DEF IInv, Hands
<1>4. OwnedOnce'  BY <1>1 DEF IInv, OwnedOnce
<1>5. NothingUnnoticed'  BY <1>1 DEF IInv, NothingUnnoticed
<1>6. Counted'  BY DEF IInv, Counted
<1> QED  BY <1>2, <1>3, <1>4, <1>5, <1>6

LEMMA FeederKeeps == ASSUME IInv, Feed \/ CloseWork PROVE IInv'
<1>1. UNCHANGED <<takePos, worker, queued, coord, successes, caller, verdict, cancelled,
                  errCount, successCount, dropped, delivered, lost>> /\ feeding
  BY DEF Feed, CloseWork, poolVars, coordVars
<1>2. Hands' /\ OwnedOnce' /\ NothingUnnoticed' /\ Counted' /\ Running' = Running
  BY <1>1, OwnershipStays
<1>3. feedPos \in Nat /\ takePos \in Nat  BY DEF IInv, TypeOK
<1>4. CASE Feed
  <2>1. feedPos' = feedPos + BatchSize /\ feedPos < End /\ feeding' = feeding
    BY <1>4 DEF Feed
  <2>2. PICK k \in Nat : feedPos = takePos + k * BatchSize  BY DEF IInv, Cutting
  <2>3. k * BatchSize \in Nat /\ (k + 1) * BatchSize = k * BatchSize + BatchSize
    BY GridStep, PoolNumbers
  <2>4. feedPos' = takePos' + (k + 1) * BatchSize
    BY <1>1, <1>3, <2>1, <2>2, <2>3, PoolNumbers
  <2>5. Cutting'  BY <1>1, <1>3, <2>1, <2>4, PoolNumbers DEF IInv, Cutting
  <2>6. TypeOK'  BY <1>1, <1>3, <2>1, PoolNumbers DEF IInv, TypeOK
  <2>7. Stages'  BY <1>1, <1>2, <2>1 DEF IInv, Stages, WorkDrained
  <2> QED  BY <1>2, <2>5, <2>6, <2>7 DEF IInv
<1>5. CASE CloseWork
  <2>1. feedPos' = feedPos /\ feeding' = FALSE /\ (feedPos >= End \/ cancelled)
    BY <1>5 DEF CloseWork
  <2>2. Cutting' /\ TypeOK'  BY <1>1, <2>1 DEF IInv, Cutting, TypeOK
  <2>3. Stages'  BY <1>1, <1>2, <2>1 DEF IInv, Stages, WorkDrained
  <2> QED  BY <1>2, <2>2, <2>3 DEF IInv
<1> QED  BY <1>4, <1>5

LEMMA ControlKeeps ==
    ASSUME IInv, \/ LoadActive \/ LoadSuccesses \/ KeepWorkers \/ StopRamping \/ WorkersDone
                 \/ Select \/ ReturnCtxErr \/ ReturnCounted \/ Cancel \/ Drain
                 \/ UNCHANGED vars
    PROVE  IInv'
<1>1. UNCHANGED <<feedPos, feeding, takePos, worker, dropped, delivered, lost, errCount,
                  successCount>> /\ (cancelled => cancelled')
  BY DEF IInv, TypeOK, LoadActive, LoadSuccesses, KeepWorkers, StopRamping, WorkersDone,
         Select, ReturnCtxErr, ReturnCounted, Cancel, Drain, vars, poolVars, coordVars
<1>2. Hands' /\ OwnedOnce' /\ NothingUnnoticed' /\ Counted' /\ Running' = Running
  BY <1>1, OwnershipStays
<1>3. Cutting'  BY <1>1 DEF IInv, Cutting
<1>4. WorkDrained' = WorkDrained  BY <1>1 DEF WorkDrained
<1>5. TypeOK'
  <2>1. queued' \in 0..ResultCap
    <3>1. CASE Drain  BY <3>1, PoolNumbers DEF IInv, TypeOK, Drain
    <3>2. CASE ~Drain
      BY <3>2 DEF IInv, TypeOK, LoadActive, LoadSuccesses, KeepWorkers, StopRamping,
                  WorkersDone, Select, ReturnCtxErr, ReturnCounted, Cancel, vars
    <3> QED  BY <3>1, <3>2
  <2>2. /\ coord' \in {"start", "loop", "ramp", "rate", "drain", "done"}
        /\ successes' \in Nat
        /\ caller' \in {"setup", "parked", "done", "joined", "returned"}
        /\ verdict' \in {"running", "nil", "incomplete", "ctx"}
        /\ cancelled' \in BOOLEAN
    <3>1. CASE LoadActive \/ LoadSuccesses \/ KeepWorkers
      BY <3>1 DEF IInv, TypeOK, LoadActive, LoadSuccesses, KeepWorkers
    <3>2. CASE StopRamping \/ WorkersDone \/ UNCHANGED vars
      BY <3>2 DEF IInv, TypeOK, StopRamping, WorkersDone, vars
    <3>3. CASE Select \/ ReturnCtxErr \/ ReturnCounted \/ Cancel \/ Drain
      BY <3>3 DEF IInv, TypeOK, Select, ReturnCtxErr, ReturnCounted, Cancel, Drain, coordVars
    <3> QED  BY <3>1, <3>2, <3>3
  <2> QED  BY <1>1, <2>1, <2>2 DEF IInv, TypeOK
<1>6. Stages'
  <2>1. CASE StopRamping
    BY <1>1, <1>2, <1>4, <2>1 DEF IInv, Stages, StopRamping, WorkDrained
  <2>2. CASE WorkersDone
    BY <1>1, <1>2, <1>4, <2>2 DEF IInv, Stages, WorkersDone, WorkDrained
  <2>3. CASE Select  BY <1>1, <1>2, <1>4, <2>3 DEF IInv, Stages, Select, WorkDrained, coordVars
  <2>4. CASE ReturnCtxErr
    BY <1>1, <1>2, <1>4, <2>4 DEF IInv, Stages, ReturnCtxErr, WorkDrained, coordVars
  <2>5. CASE ReturnCounted
    BY <1>1, <1>2, <1>4, <2>5 DEF IInv, Stages, ReturnCounted, WorkDrained, coordVars
  <2>6. CASE Cancel  BY <1>1, <1>2, <1>4, <2>6 DEF IInv, Stages, Cancel, WorkDrained, coordVars
  <2>7. CASE Drain \/ UNCHANGED vars
    BY <1>1, <1>2, <1>4, <2>7 DEF IInv, Stages, Drain, WorkDrained, vars, coordVars
  <2>8. CASE LoadActive \/ LoadSuccesses \/ KeepWorkers
    BY <1>1, <1>2, <1>4, <2>8
       DEF IInv, Stages, LoadActive, LoadSuccesses, KeepWorkers, WorkDrained
  <2> QED  BY <2>1, <2>2, <2>3, <2>4, <2>5, <2>6, <2>7, <2>8
<1> QED  BY <1>2, <1>3, <1>5, <1>6 DEF IInv

\* A step of a worker that leaves control alone: what the others rely on.
LEMMA StepKeeps ==
    ASSUME IInv, NEW w \in Workers, NEW r, Becomes(w, r), NEW D, Spends(w, D),
           ~cancelled => Holding(w) \subseteq D \cup Holding(w)',
           UNCHANGED <<coord, successes, caller, verdict, cancelled>>
    PROVE  OwnedOnce' /\ NothingUnnoticed'
BY OwnedStays, NoticedStays DEF IInv

\* While a worker runs, FetchRange has not returned and the coordinator has started.
LEMMA WhileRunning ==
    ASSUME IInv, NEW w \in Workers, worker[w].at # "off"
    PROVE  /\ w \in Running
           /\ coord \notin {"start", "done"} /\ caller \notin {"joined", "returned"}
BY DEF IInv, Stages, Running

\* A worker that goes on running changes nothing for the others.
LEMMA StagesStay ==
    ASSUME IInv, NEW w \in Workers, worker[w].at # "off",
           UNCHANGED <<feedPos, feeding, coord, successes, caller, verdict, cancelled>>,
           w \in Running' \/ WorkDrained' \/ cancelled
    PROVE  Stages'
BY WhileRunning DEF IInv, Stages

LEMMA TakeKeeps == ASSUME IInv, NEW w \in Workers, Take(w) PROVE IInv'
<1>1. /\ worker[w].at = "take" /\ takePos < feedPos /\ takePos' = takePos + BatchSize
      /\ UNCHANGED <<feedPos, feeding, queued, coord, successes, caller, verdict,
                     cancelled, errCount, successCount, dropped, delivered, lost>>
  BY DEF Take, poolVars, coordVars
<1>2. TypeOK /\ Cutting /\ takePos \in Nat /\ feedPos \in Nat
  BY DEF IInv, TypeOK
<1>3. /\ takePos < End
      /\ \E k \in Nat : feedPos = (takePos + BatchSize) + k * BatchSize
  BY <1>1, <1>2, NextItem
<1>4. Cutting'  BY <1>1, <1>2, <1>3, PoolNumbers DEF Cutting
<1>5. Counted'  BY <1>1 DEF IInv, Counted
<1>6. ~InHand(w)  BY <1>1 DEF InHand
<1>7. CASE cancelled
  <2>1. Becomes(w, Off)  BY <1>1, <1>2, <1>7, Quits DEF Take
  <2>2. worker'[w].at = "off" /\ ~InHand(w)'  BY <2>1 DEF Becomes, Off, InHand
  <2>3. TypeOK'  BY <1>1, <1>2, <2>1, PoolNumbers DEF TypeOK, Becomes
  <2>4. \A v \in Workers : (InHand(v)' => InHand(v)) /\ (InHand(v)' => worker'[v] = worker[v])
    BY <2>1, <2>2 DEF Becomes, InHand
  <2>5. Hands'  BY <1>1, <1>2, <2>4, PoolNumbers DEF IInv, Hands, TypeOK, WorkerType
  <2>6. \A i \in delivered \cup lost : i < takePos'
    BY <1>1, <1>2, PoolNumbers DEF IInv, OwnedOnce, TypeOK, Indices
  <2>7. OwnedOnce'
    <3>1. \A v \in Workers : InHand(v)' => \A i \in Rest(v) : i < takePos'
      BY <1>1, <1>2, <2>4, PoolNumbers DEF IInv, OwnedOnce, Rest, TypeOK, WorkerType
    <3>2. \A v \in Workers : InHand(v)' => Rest(v)' = Rest(v)  BY <2>4 DEF Rest
    <3> QED  BY <1>1, <2>4, <2>6, <3>1, <3>2 DEF IInv, OwnedOnce
  <2>8. NothingUnnoticed'  BY <1>1, <1>7 DEF NothingUnnoticed
  <2>9. Stages'  BY <1>1, <1>7, StagesStay
  <2> QED  BY <1>4, <1>5, <2>3, <2>5, <2>7, <2>8, <2>9 DEF IInv
<1>8. CASE ~cancelled
  <2> DEFINE r == [at |-> IF RateLimited THEN "limit" ELSE "head",
                   cur |-> takePos, last |-> ItemLast(takePos), n |-> 0]
             last == ItemLast(takePos)
  <2>1. /\ last \in Nat /\ last < End /\ last < takePos + BatchSize
        /\ \A i \in Indices : (i >= takePos /\ i < takePos + BatchSize) <=> i \in takePos .. last
    BY <1>2, <1>3, PoolNumbers DEF ItemLast, Indices
  <2>2. r \in WorkerType /\ r.at \in {"limit", "head"} /\ r.cur = takePos /\ r.last = last
    BY <1>2, <2>1, PoolNumbers DEF WorkerType
  <2>3. worker' = [worker EXCEPT ![w] = r]  BY <1>8 DEF Take
  <2> HIDE DEF r, last
  <2>4. Becomes(w, r) /\ worker'[w] = r  BY <1>2, <2>2, <2>3, Steps DEF Becomes
  <2>5. InHand(w)' /\ Rest(w)' = takePos .. last  BY <2>2, <2>4 DEF InHand, Rest
  <2>6. TypeOK'  BY <1>1, <1>2, <2>4, PoolNumbers DEF TypeOK, Becomes
  <2>7. \A v \in Workers \ {w} : (InHand(v)' <=> InHand(v)) /\ Rest(v)' = Rest(v)
    BY <2>4 DEF Becomes, InHand, Rest
  <2>8. Hands'
    <3> SUFFICES ASSUME NEW v \in Workers, InHand(v)'
                 PROVE  /\ Start <= worker'[v].cur
                        /\ worker'[v].last < End /\ worker'[v].last < takePos'
                        /\ worker'[v].at = "wait" => worker'[v].cur <= worker'[v].last
                        /\ worker'[v].at = "give"
                             => /\ worker'[v].n >= 1
                                /\ worker'[v].cur + worker'[v].n - 1 <= worker'[v].last
      BY DEF Hands
    <3>1. CASE v = w  BY <1>1, <1>2, <2>1, <2>2, <2>4, <3>1 DEF Cutting
    <3>2. CASE v # w
      <4>1. InHand(v) /\ worker'[v] = worker[v] /\ worker[v] \in WorkerType
        BY <1>2, <2>4, <2>7, <3>2 DEF Becomes, TypeOK
      <4> QED  BY <1>1, <1>2, <4>1, PoolNumbers DEF IInv, Hands, WorkerType
    <3> QED  BY <3>1, <3>2
  <2>9. \A v \in Workers : InHand(v) => \A i \in Rest(v) : i < takePos
    BY DEF IInv, OwnedOnce
  <2>10. \A i \in delivered \cup lost : i < takePos  BY DEF IInv, OwnedOnce
  <2>11. \A i \in Int : i < takePos => i < takePos'  BY <1>1, <1>2, PoolNumbers
  <2>12. OwnedOnce'
    <3>1. \A i \in Rest(w)' : i \in Int /\ ~(i < takePos) /\ i < takePos'
      <4>1. takePos \in Nat /\ takePos' = takePos + BatchSize  BY <1>1, <1>2
      <4>2. last \in Nat /\ last < takePos + BatchSize  BY <2>1
      <4> QED  BY <2>5, <4>1, <4>2, PoolNumbers
    <3>2. \A i \in delivered \cup lost : i \in Int
      BY PoolNumbers DEF IInv, TypeOK, Indices
    <3>3. \A v \in Workers : \A i \in Rest(v) : i \in Int  BY DEF Rest
    <3> QED
      BY <1>1, <2>5, <2>7, <2>9, <2>10, <2>11, <3>1, <3>2, <3>3, <1>6 DEF IInv, OwnedOnce
  <2>13. NothingUnnoticed'
    <3> SUFFICES ASSUME NEW i \in Indices, i < takePos', i \notin delivered \cup lost
                 PROVE  \E v \in Workers : InHand(v)' /\ i \in Rest(v)'
      BY <1>1 DEF NothingUnnoticed
    <3>1. CASE i < takePos
      <4>1. PICK v \in Workers : InHand(v) /\ i \in Rest(v)
        BY <1>8, <3>1 DEF IInv, NothingUnnoticed
      <4>2. v # w  BY <1>6, <4>1
      <4> QED  BY <2>7, <4>1, <4>2
    <3>2. CASE ~(i < takePos)
      <4>1. i \in Int  BY PoolNumbers DEF Indices
      <4>2. i \in takePos .. last  BY <1>1, <1>2, <2>1, <3>2, <4>1
      <4> QED  BY <2>5, <4>2
    <3> QED  BY <3>1, <3>2
  <2>14. w \in Running'  BY <2>2, <2>4 DEF Running
  <2>15. Stages'  BY <1>1, <2>14, StagesStay
  <2> QED  BY <1>4, <1>5, <2>6, <2>8, <2>12, <2>13, <2>15 DEF IInv
<1> QED  BY <1>7, <1>8

\* What the invariant asks of an item in the hand of w.
Sound(w) == InHand(w) =>
    /\ Start <= worker[w].cur
    /\ worker[w].last < End /\ worker[w].last < takePos
    /\ worker[w].at = "wait" => worker[w].cur <= worker[w].last
    /\ worker[w].at = "give" => /\ worker[w].n >= 1
                                /\ worker[w].cur + worker[w].n - 1 <= worker[w].last

\* A step of one worker that takes nothing new from the channel.
LEMMA MoveKeeps ==
    ASSUME IInv, NEW w \in Workers, worker[w].at # "off", NEW r, Becomes(w, r), Sound(w)',
           NEW D, Spends(w, D), ~cancelled => Holding(w) \subseteq D \cup Holding(w)',
           UNCHANGED <<feedPos, feeding, coord, successes, caller, verdict, cancelled>>,
           w \in Running' \/ WorkDrained' \/ cancelled,
           queued' \in 0..ResultCap, errCount' \in Nat, successCount' \in Nat,
           dropped' \in Nat, Counted', D \subseteq Indices
    PROVE  IInv'
<1>1. takePos' = takePos  BY DEF Spends
<1>2. OwnedOnce' /\ NothingUnnoticed'  BY StepKeeps
<1>3. Stages'  BY StagesStay
<1>4. Cutting'  BY <1>1 DEF IInv, Cutting
<1>5. delivered' \subseteq Indices /\ lost' \subseteq Indices
  BY DEF IInv, TypeOK, Spends
<1>6. TypeOK'  BY <1>1, <1>5 DEF IInv, TypeOK, Becomes
<1>7. Hands'
  <2>1. \A v \in Workers \ {w} : worker'[v] = worker[v]  BY DEF Becomes
  <2>2. ASSUME NEW v \in Workers PROVE Sound(v)'
    <3>1. CASE v = w  BY <3>1
    <3>2. CASE v # w
      <4>1. Sound(v)  BY DEF IInv, Hands, Sound
      <4> QED  BY <1>1, <2>1, <3>2, <4>1 DEF Sound, InHand
    <3> QED  BY <3>1, <3>2
  <2> QED  BY <2>2 DEF Hands, Sound
<1> QED  BY <1>2, <1>3, <1>4, <1>6, <1>7 DEF IInv

\* Where w puts nothing on the channel, nothing is delivered or lost.
LEMMA QuietSpends ==
    ASSUME NEW w \in Workers, UNCHANGED <<takePos, delivered, lost>>,
           Holding(w)' \subseteq Holding(w)
    PROVE  Spends(w, {})
BY DEF Spends

LEMMA LeaveKeeps == ASSUME IInv, NEW w \in Workers, Leave(w) PROVE IInv'
<1>1. /\ worker[w].at = "take" /\ WorkDrained /\ Quit(w)
      /\ UNCHANGED <<feedPos, feeding, takePos, queued, coord, successes, caller, verdict,
                     cancelled, errCount, successCount, dropped, delivered, lost>>
  BY DEF Leave, poolVars, coordVars
<1>2. Becomes(w, Off)  BY <1>1, Quits DEF IInv
<1>3. ~InHand(w) /\ ~InHand(w)'  BY <1>1, <1>2 DEF Becomes, Off, InHand
<1>4. Holding(w) = {} /\ Holding(w)' = {} /\ Sound(w)'  BY <1>3 DEF Holding, Sound
<1>5. Spends(w, {})  BY <1>1, <1>4, QuietSpends
<1>6. WorkDrained' /\ Counted'  BY <1>1 DEF WorkDrained, IInv, Counted
<1>7. /\ queued' \in 0..ResultCap /\ errCount' \in Nat /\ successCount' \in Nat
      /\ dropped' \in Nat
  BY <1>1 DEF IInv, TypeOK
<1> QED  BY <1>1, <1>2, <1>4, <1>5, <1>6, <1>7, MoveKeeps

\* The worker goes on, or gives up what it has when the context is cancelled.
LEMMA GoKeeps ==
    ASSUME IInv, NEW w \in Workers, worker[w].at # "off", NEW r, Becomes(w, r),
           UNCHANGED <<feedPos, feeding, takePos, queued, coord, successes, caller,
                       verdict, cancelled, errCount, dropped, delivered, lost>>,
           successCount' \in Nat, Sound(w)', Holding(w)' \subseteq Holding(w),
           cancelled \/ (w \in Running' /\ Holding(w) \subseteq Holding(w)')
    PROVE  IInv'
<1>1. Spends(w, {})  BY QuietSpends
<1>2. Counted'  BY DEF IInv, Counted
<1>3. queued' \in 0..ResultCap /\ errCount' \in Nat /\ dropped' \in Nat
  BY DEF IInv, TypeOK
<1> QED  BY <1>1, <1>2, <1>3, MoveKeeps

\* The same item in hand before and after.
LEMMA SameItem ==
    ASSUME NEW w \in Workers, InHand(w), InHand(w)',
           worker'[w].cur = worker[w].cur, worker'[w].last = worker[w].last
    PROVE  Holding(w)' = Holding(w) /\ w \in Running'
BY DEF Holding, InHand, Rest, Running

LEMMA RateTickKeeps == ASSUME IInv, NEW w \in Workers, RateTick(w) PROVE IInv'
<1>1. /\ worker[w].at = "limit" /\ worker[w].at # "off" /\ InHand(w)
      /\ UNCHANGED <<feedPos, feeding, takePos, queued, coord, successes, caller, verdict,
                     cancelled, errCount, successCount, dropped, delivered, lost>>
  BY DEF RateTick, poolVars, coordVars, InHand
<1>2. Sound(w) /\ successCount' \in Nat  BY <1>1 DEF IInv, Hands, Sound, TypeOK
<1>3. CASE Goto(w, "head")
  <2>1. PICK r : /\ Becomes(w, r) /\ worker'[w].at = "head"
                 /\ worker'[w].cur = worker[w].cur /\ worker'[w].last = worker[w].last
    BY <1>3, Goes DEF IInv
  <2>2. InHand(w)'  BY <2>1 DEF InHand
  <2>3. Holding(w)' = Holding(w) /\ w \in Running'  BY <1>1, <2>1, <2>2, SameItem
  <2>4. Sound(w)'  BY <1>1, <1>2, <2>1 DEF Sound
  <2> QED  BY <1>1, <1>2, <2>1, <2>3, <2>4, GoKeeps
<1>4. CASE cancelled /\ Quit(w)
  <2>1. Becomes(w, Off)  BY <1>4, Quits DEF IInv
  <2>2. ~InHand(w)'  BY <2>1 DEF Becomes, Off, InHand
  <2>3. Holding(w)' = {} /\ Sound(w)'  BY <2>2 DEF Holding, Sound
  <2>4. Holding(w)' \subseteq Holding(w)  BY <2>3
  <2> QED  BY <1>1, <1>2, <1>4, <2>1, <2>3, <2>4, GoKeeps
<1> QED  BY <1>3, <1>4 DEF RateTick

LEMMA LoopHeadKeeps == ASSUME IInv, NEW w \in Workers, LoopHead(w) PROVE IInv'
<1> DEFINE next == IF worker[w].cur > worker[w].last \/ cancelled THEN "take" ELSE "wait"
<1>1. /\ worker[w].at = "head" /\ worker[w].at # "off" /\ InHand(w) /\ Goto(w, next)
      /\ UNCHANGED <<feedPos, feeding, takePos, queued, coord, successes, caller, verdict,
                     cancelled, errCount, successCount, dropped, delivered, lost>>
  BY DEF LoopHead, poolVars, coordVars, InHand
<1>2. Sound(w) /\ successCount' \in Nat /\ worker[w] \in WorkerType
  BY <1>1 DEF IInv, Hands, Sound, TypeOK
<1>3. PICK r : /\ Becomes(w, r) /\ worker'[w].at = next
               /\ worker'[w].cur = worker[w].cur /\ worker'[w].last = worker[w].last
  BY <1>1, Goes DEF IInv
<1>4. w \in Running'  BY <1>3 DEF Running
<1>5. CASE next = "take"
  <2>1. ~InHand(w)'  BY <1>3, <1>5 DEF InHand
  <2>2. Holding(w)' = {} /\ Sound(w)'  BY <2>1 DEF Holding, Sound
  <2>3. cancelled \/ Holding(w) = {}
    BY <1>1, <1>2, <1>5 DEF Holding, Rest, WorkerType
  <2> QED  BY <1>1, <1>2, <1>3, <1>4, <2>2, <2>3, GoKeeps
<1>6. CASE next # "take"
  <2>1. next = "wait" /\ worker[w].cur <= worker[w].last  BY <1>2, <1>6 DEF WorkerType
  <2>2. InHand(w)'  BY <1>3, <2>1 DEF InHand
  <2>3. Holding(w)' = Holding(w)  BY <1>1, <1>3, <2>2, SameItem
  <2>4. Sound(w)'  BY <1>1, <1>2, <1>3, <2>1 DEF Sound
  <2> QED  BY <1>1, <1>2, <1>3, <1>4, <2>3, <2>4, GoKeeps
<1> QED  BY <1>5, <1>6

LEMMA AbandonKeeps == ASSUME IInv, NEW w \in Workers, Abandon(w) PROVE IInv'
<1>1. /\ worker[w].at # "off" /\ cancelled /\ Goto(w, "take")
      /\ UNCHANGED <<feedPos, feeding, takePos, queued, coord, successes, caller, verdict,
                     cancelled, errCount, successCount, dropped, delivered, lost>>
  BY DEF Abandon, poolVars, coordVars
<1>2. PICK r : Becomes(w, r) /\ worker'[w].at = "take"  BY <1>1, Goes DEF IInv
<1>3. ~InHand(w)'  BY <1>2 DEF InHand
<1>4. Holding(w)' = {} /\ Sound(w)' /\ successCount' \in Nat
  BY <1>1, <1>3 DEF Holding, Sound, IInv, TypeOK
<1>5. Holding(w)' \subseteq Holding(w)  BY <1>4
<1> QED  BY <1>1, <1>2, <1>4, <1>5, GoKeeps

LEMMA ResponseKeeps ==
    ASSUME IInv, NEW w \in Workers, NEW n \in 1..BatchSize, Response(w, n) PROVE IInv'
<1> DEFINE r == [worker[w] EXCEPT !.at = "give", !.n = n]
<1>1. /\ worker[w].at = "wait" /\ worker[w].at # "off" /\ InHand(w)
      /\ n <= worker[w].last - worker[w].cur + 1
      /\ successCount' = successCount + 1
      /\ UNCHANGED <<feedPos, feeding, takePos, queued, coord, successes, caller, verdict,
                     cancelled, errCount, dropped, delivered, lost>>
  BY DEF Response, InHand, coordVars
<1>2. TypeOK /\ worker[w] \in WorkerType /\ Sound(w)
  BY DEF IInv, TypeOK, Hands, Sound
<1>3. r \in WorkerType /\ r.at = "give" /\ r.n = n /\ r.cur = worker[w].cur
      /\ r.last = worker[w].last
  <2>1. n \in 0..BatchSize  BY PoolNumbers
  <2> QED  BY <1>2, <2>1 DEF WorkerType
<1>4. worker' = [worker EXCEPT ![w] = r]  BY <1>2 DEF Response, TypeOK
<1> HIDE DEF r
<1>5. Becomes(w, r) /\ worker'[w] = r  BY <1>2, <1>3, <1>4, Steps DEF Becomes
<1>6. InHand(w)'  BY <1>3, <1>5 DEF InHand
<1>7. Holding(w)' = Holding(w) /\ w \in Running'
  BY <1>1, <1>3, <1>5, <1>6, SameItem
<1>8. Sound(w)'  BY <1>1, <1>2, <1>3, <1>5 DEF Sound, WorkerType
<1>9. successCount' \in Nat  BY <1>1, <1>2 DEF TypeOK
<1> QED  BY <1>1, <1>5, <1>7, <1>8, <1>9, GoKeeps

LEMMA SendKeeps == ASSUME IInv, NEW w \in Workers, Send(w) PROVE IInv'
<1> DEFINE r == [worker[w] EXCEPT !.at = "head", !.cur = worker[w].cur + worker[w].n, !.n = 0]
<1>1. /\ worker[w].at = "give" /\ worker[w].at # "off" /\ InHand(w)
      /\ queued < ResultCap /\ queued' = queued + 1
      /\ delivered' = delivered \cup Batch(w) /\ lost' = lost
      /\ UNCHANGED <<feedPos, feeding, takePos, coord, successes, caller, verdict,
                     cancelled, errCount, successCount, dropped, lost>>
  BY DEF Send, poolVars, coordVars, InHand
<1>2. TypeOK /\ worker[w] \in WorkerType /\ Sound(w)
  BY DEF IInv, TypeOK, Hands, Sound
<1>3. /\ worker[w].cur \in Nat /\ worker[w].last \in Nat /\ worker[w].n \in Nat
      /\ worker[w].n >= 1 /\ worker[w].cur + worker[w].n - 1 <= worker[w].last
      /\ Start <= worker[w].cur /\ worker[w].last < End /\ worker[w].last < takePos
  BY <1>1, <1>2, PoolNumbers DEF WorkerType, Sound
<1>4. r \in WorkerType /\ r.at = "head" /\ r.cur = worker[w].cur + worker[w].n
      /\ r.last = worker[w].last
  <2>1. 0 \in 0..BatchSize /\ worker[w].cur + worker[w].n \in Nat  BY <1>3, PoolNumbers
  <2> QED  BY <1>2, <2>1 DEF WorkerType
<1>5. worker' = [worker EXCEPT ![w] = r]  BY <1>2 DEF Send, TypeOK
<1> HIDE DEF r
<1>6. Becomes(w, r) /\ worker'[w] = r  BY <1>2, <1>4, <1>5, Steps DEF Becomes
<1>7. InHand(w)' /\ w \in Running'  BY <1>4, <1>6 DEF InHand, Running
<1>8. /\ Holding(w) = worker[w].cur .. worker[w].last
      /\ Holding(w)' = (worker[w].cur + worker[w].n) .. worker[w].last
  BY <1>1, <1>4, <1>6, <1>7 DEF Holding, Rest
<1>9. /\ Holding(w)' \subseteq Holding(w)
      /\ Batch(w) \subseteq Holding(w)
      /\ Batch(w) \cap Holding(w)' = {}
      /\ Holding(w) \subseteq Batch(w) \cup Holding(w)'
  BY <1>3, <1>8 DEF Batch
<1>10. Spends(w, Batch(w))  BY <1>1, <1>9 DEF Spends
<1>11. Sound(w)'
  <2>1. Start <= r.cur /\ r.last < End /\ r.last < takePos  BY <1>3, <1>4, PoolNumbers
  <2> QED  BY <1>1, <1>4, <1>6, <2>1 DEF Sound
<1>12. Batch(w) \subseteq Indices  BY <1>3, PoolNumbers DEF Batch, Indices
<1>13. Counted'  BY <1>1 DEF IInv, Counted
<1>14. queued' \in 0..ResultCap  BY <1>1, <1>2, PoolNumbers DEF TypeOK
<1>15. errCount' \in Nat /\ successCount' \in Nat /\ dropped' \in Nat
  BY <1>1, <1>2 DEF TypeOK
<1> QED
  BY <1>1, <1>6, <1>7, <1>9, <1>10, <1>11, <1>12, <1>13, <1>14, <1>15, MoveKeeps

\* The rest of the item is charged exactly once: it is in nobody else's hand and was
\* neither delivered nor charged before.
LEMMA FailureKeeps == ASSUME IInv, NEW w \in Workers, Failure(w) PROVE IInv'
<1>1. /\ worker[w].at = "wait" /\ worker[w].at # "off" /\ InHand(w) /\ Goto(w, "take")
      /\ errCount' = errCount + 1
      /\ dropped' = dropped + (worker[w].last - worker[w].cur + 1)
      /\ lost' = lost \cup Rest(w) /\ delivered' = delivered
      /\ UNCHANGED <<feedPos, feeding, takePos, queued, coord, successes, caller, verdict,
                     cancelled, successCount, delivered>>
  BY DEF Failure, InHand, coordVars
<1>2. TypeOK /\ worker[w] \in WorkerType /\ Sound(w) /\ OwnedOnce /\ Counted
  BY DEF IInv, TypeOK, Hands, Sound
<1>3. /\ worker[w].cur \in Nat /\ worker[w].last \in Nat /\ worker[w].cur <= worker[w].last
      /\ Start <= worker[w].cur /\ worker[w].last < End
  BY <1>1, <1>2 DEF WorkerType, Sound
<1>4. PICK r : Becomes(w, r) /\ worker'[w].at = "take"  BY <1>1, <1>2, Goes
<1>5. ~InHand(w)' /\ w \in Running'  BY <1>4 DEF InHand, Running
<1>6. Holding(w)' = {} /\ Sound(w)' /\ Holding(w) = Rest(w)
  BY <1>1, <1>5 DEF Holding, Sound
<1>7. Spends(w, Rest(w)) /\ Holding(w) \subseteq Rest(w) \cup Holding(w)'
  BY <1>1, <1>6 DEF Spends
<1>8. Rest(w) \subseteq Indices  BY <1>3, PoolNumbers DEF Rest, Indices
<1>9. Counted'
  <2>1. IsFiniteSet(Rest(w)) /\ Cardinality(Rest(w)) = worker[w].last - worker[w].cur + 1
    <3>1. worker[w].cur \in Int /\ worker[w].last \in Int  BY <1>3
    <3>2. /\ IsFiniteSet(worker[w].cur .. worker[w].last)
          /\ Cardinality(worker[w].cur .. worker[w].last)
               = IF worker[w].cur > worker[w].last THEN 0
                                                   ELSE worker[w].last - worker[w].cur + 1
      BY <3>1, FS_Interval
    <3>3. ~(worker[w].cur > worker[w].last)  BY <1>3
    <3> QED  BY <3>2, <3>3 DEF Rest
  <2>2. Rest(w) \cap lost = {}  BY <1>1, <1>2 DEF OwnedOnce
  <2>3. /\ IsFiniteSet(lost \cup Rest(w))
        /\ Cardinality(lost \cup Rest(w))
             = Cardinality(lost) + Cardinality(Rest(w)) - Cardinality(lost \cap Rest(w))
    BY <1>2, <2>1, FS_Union DEF Counted
  <2>4. lost \cap Rest(w) = {} /\ Cardinality({}) = 0  BY <2>2, FS_EmptySet
  <2>5. dropped \in Nat /\ dropped = Cardinality(lost)  BY <1>2 DEF TypeOK, Counted
  <2>6. Cardinality(lost \cap Rest(w)) = 0  BY <2>4
  <2>7. Cardinality(lost') = dropped + (worker[w].last - worker[w].cur + 1)
    BY <1>1, <1>3, <2>1, <2>3, <2>5, <2>6
  <2>8. IsFiniteSet(lost')  BY <1>1, <2>3
  <2> QED  BY <1>1, <2>7, <2>8 DEF Counted
<1>10. dropped' \in Nat /\ errCount' \in Nat /\ successCount' \in Nat
       /\ queued' \in 0..ResultCap
  BY <1>1, <1>2, <1>3 DEF TypeOK
<1> QED  BY <1>1, <1>4, <1>5, <1>6, <1>7, <1>8, <1>9, <1>10, MoveKeeps

LEMMA SpawnKeeps == ASSUME IInv, FirstWorker \/ AddWorker PROVE IInv'
<1>1. /\ UNCHANGED <<feedPos, feeding, takePos, queued, caller, verdict, cancelled, errCount,
                     successCount, dropped, delivered, lost>>
      /\ coord' = "loop" /\ (successes' = successes \/ successes' = 0)
  BY DEF FirstWorker, AddWorker, poolVars, coordVars
<1>2. PICK w \in Workers : Spawn(w) /\ worker[w].at = "off"
  <2>1. CASE FirstWorker
    <3>1. Running = {}  BY <2>1 DEF FirstWorker, IInv, Stages
    <3> QED  BY <2>1, <3>1 DEF FirstWorker, Running
  <2>2. CASE AddWorker  BY <2>2 DEF AddWorker, Running
  <2> QED  BY <2>1, <2>2
<1>3. PICK r : Becomes(w, r) /\ worker'[w].at = "take"  BY <1>2, Spawns DEF IInv
<1>4. ~InHand(w) /\ ~InHand(w)' /\ w \in Running'
  BY <1>2, <1>3 DEF InHand, Running
<1>5. Holding(w) = {} /\ Holding(w)' = {} /\ Sound(w)'  BY <1>4 DEF Holding, Sound
<1>6. Holding(w)' \subseteq Holding(w)  BY <1>5
<1>7. Spends(w, {})  BY <1>1, <1>6, QuietSpends
<1>8. OwnedOnce' /\ NothingUnnoticed'
  BY <1>1, <1>3, <1>5, <1>7, OwnedStays, NoticedStays DEF IInv
<1>9. Hands'  BY <1>1, <1>3, <1>4 DEF IInv, Hands, Becomes, InHand
<1>10. TypeOK'  BY <1>1, <1>3 DEF IInv, TypeOK, Becomes
<1>11. Cutting' /\ Counted'  BY <1>1 DEF IInv, Cutting, Counted
<1>12. caller \notin {"joined", "returned"}
  BY DEF FirstWorker, AddWorker, IInv, Stages
<1>13. Stages'  BY <1>1, <1>4, <1>12 DEF IInv, Stages
<1> QED  BY <1>8, <1>9, <1>10, <1>11, <1>13 DEF IInv

LEMMA PoolStep == IInv /\ [Next]_vars => IInv'
<1> SUFFICES ASSUME IInv, [Next]_vars PROVE IInv'
  OBVIOUS
<1>1. CASE Feed \/ CloseWork  BY <1>1, FeederKeeps
<1>2. ASSUME NEW w \in Workers, WorkerStep(w) PROVE IInv'
  BY <1>2, TakeKeeps, LeaveKeeps, RateTickKeeps, LoopHeadKeeps, FailureKeeps, SendKeeps,
     AbandonKeeps, ResponseKeeps DEF WorkerStep
<1>3. CASE FirstWorker \/ AddWorker  BY <1>3, SpawnKeeps
<1>4. CASE \/ LoadActive \/ LoadSuccesses \/ KeepWorkers \/ StopRamping \/ WorkersDone \/ Select
           \/ ReturnCtxErr \/ ReturnCounted \/ Cancel \/ Drain \/ UNCHANGED vars
  BY <1>4, ControlKeeps
<1>5. CASE Finished  BY <1>5, ControlKeeps DEF Finished
<1> QED  BY <1>1, <1>2, <1>3, <1>4, <1>5 DEF Next, Ramp

LEMMA PoolInvariant == Spec => []IInv
BY PoolInit, PoolStep, PTL DEF Spec

\* Without cancellation the end of the last worker accounts for the whole range.
LEMMA AllAccountedFor ==
    ASSUME IInv, coord = "done", ~cancelled
    PROVE  /\ Indices \ delivered = lost
           /\ dropped = Cardinality(Indices \ delivered)
           /\ dropped > 0 <=> delivered # Indices
<1>1. Running = {} /\ WorkDrained /\ feedPos >= End
  BY DEF IInv, Stages, WorkDrained
<1>2. \A w \in Workers : ~InHand(w)  BY <1>1 DEF Running, InHand
<1>3. \A i \in Indices : i < takePos
  BY <1>1, PoolNumbers DEF IInv, TypeOK, WorkDrained, Indices
<1>4. Indices \subseteq delivered \cup lost
  BY <1>2, <1>3 DEF IInv, NothingUnnoticed
<1>5. Indices \ delivered = lost
  BY <1>4 DEF IInv, TypeOK, OwnedOnce
<1>6. dropped = Cardinality(lost) /\ IsFiniteSet(lost) /\ dropped \in Nat
  BY DEF IInv, Counted, TypeOK
<1>7. dropped = 0 <=> lost = {}  BY <1>6, FS_EmptySet
<1>8. lost = {} <=> delivered = Indices  BY <1>5 DEF IInv, TypeOK
<1>9. dropped > 0 <=> dropped # 0  BY <1>6
<1> QED  BY <1>5, <1>6, <1>7, <1>8, <1>9

LEMMA PoolVerdict == IInv => VerdictHonest
<1> SUFFICES ASSUME IInv, caller = "returned", ~cancelled
             PROVE  /\ verdict = "nil" <=> delivered = Indices
                    /\ verdict = "incomplete" => dropped = Cardinality(Indices \ delivered)
  BY DEF VerdictHonest
<1>1. coord = "done" /\ verdict = IF dropped > 0 THEN "incomplete" ELSE "nil"
  BY DEF IInv, Stages
<1> QED  BY <1>1, AllAccountedFor

-----------------------------------------------------------------------------
(* The pool is a RangeFetch.                                               *)

LEMMA PromiseInit == Init => Promise!Init
BY DEF Init, Promise!Init

\* What a worker sends is a non-empty batch nobody delivered, before any verdict.
LEMMA SendDelivers ==
    ASSUME IInv, NEW w \in Workers, Send(w)
    PROVE  \E a, b \in Promise!Range : Promise!Deliver(a .. b)
<1>1. /\ worker[w].at = "give" /\ InHand(w) /\ worker[w].at # "off"
      /\ delivered' = delivered \cup Batch(w)
      /\ UNCHANGED <<verdict, cancelled>>
  BY DEF Send, InHand
<1>2. worker[w] \in WorkerType  BY DEF IInv, TypeOK
<1>3. /\ worker[w].cur \in Nat /\ worker[w].last \in Nat /\ worker[w].n \in Nat
      /\ worker[w].n >= 1 /\ worker[w].cur + worker[w].n - 1 <= worker[w].last
      /\ Start <= worker[w].cur /\ worker[w].last < End
  BY <1>1, <1>2, PoolNumbers DEF WorkerType, IInv, Hands
<1> DEFINE a == worker[w].cur
           b == worker[w].cur + worker[w].n - 1
<1>4. a \in Promise!Range /\ b \in Promise!Range
  BY <1>3, PoolNumbers DEF Promise!Range
<1>5. (a .. b) \subseteq Promise!Range  BY <1>4, PoolNumbers DEF Promise!Range
<1>6. (a .. b) \subseteq Rest(w) /\ Batch(w) = a .. b  BY <1>3 DEF Rest, Batch
<1>7. Rest(w) \cap delivered = {}  BY <1>1 DEF IInv, OwnedOnce
<1>8. verdict = "running"  BY <1>1, WhileRunning DEF IInv, Stages
<1>9. Promise!Deliver(a .. b)
  <2>1. (a .. b) \subseteq Promise!Range \ delivered  BY <1>5, <1>6, <1>7
  <2> QED  BY <1>1, <1>6, <1>8, <2>1 DEF Promise!Deliver
<1> QED  BY <1>4, <1>9

LEMMA ReturnCloses == ASSUME IInv, ReturnCtxErr \/ ReturnCounted PROVE Promise!Close
<1>1. /\ verdict = "running" /\ coord = "done" /\ (caller = "done" => cancelled)
      /\ UNCHANGED <<delivered, cancelled>>
  BY DEF IInv, Stages, ReturnCtxErr, ReturnCounted
<1>2. CASE ReturnCtxErr
  BY <1>1, <1>2 DEF ReturnCtxErr, Promise!Close, Promise!Complete
<1>3. CASE ReturnCounted
  <2>1. verdict' = IF dropped > 0 THEN "incomplete" ELSE "nil"  BY <1>3 DEF ReturnCounted
  <2>2. ~cancelled => (dropped > 0 <=> delivered # Indices)  BY <1>1, AllAccountedFor
  <2>3. Promise!Range = Indices  BY DEF Promise!Range, Indices
  <2> QED  BY <1>1, <2>1, <2>2, <2>3 DEF Promise!Close, Promise!Complete
<1> QED  BY <1>2, <1>3

LEMMA PromiseStep == IInv /\ [Next]_vars => [Promise!Next]_(Promise!vars)
<1> SUFFICES ASSUME IInv, [Next]_vars PROVE Promise!Next \/ UNCHANGED Promise!vars
  OBVIOUS
<1>1. ASSUME UNCHANGED <<delivered, cancelled, verdict>> PROVE UNCHANGED Promise!vars
  BY <1>1 DEF Promise!vars
<1>2. CASE \E w \in Workers : Send(w)
  BY <1>2, SendDelivers DEF Promise!Next
<1>3. CASE ReturnCtxErr \/ ReturnCounted  BY <1>3, ReturnCloses DEF Promise!Next
<1>4. CASE Cancel  BY <1>4 DEF Cancel, Promise!Next, Promise!Cancel
<1>5. ASSUME NEW w \in Workers, WorkerStep(w), ~Send(w) PROVE UNCHANGED Promise!vars
  BY <1>1, <1>5 DEF WorkerStep, Take, Leave, RateTick, LoopHead, Failure, Abandon, Response,
                      coordVars
<1>6. CASE \/ Feed \/ CloseWork \/ FirstWorker \/ LoadActive \/ Ramp \/ StopRamping
           \/ WorkersDone \/ Select \/ Drain \/ Finished \/ UNCHANGED vars
  BY <1>1, <1>6 DEF Feed, CloseWork, FirstWorker, LoadActive, Ramp, LoadSuccesses, AddWorker,
                    KeepWorkers, StopRamping, WorkersDone, Select, Drain, Finished, vars
<1> QED  BY <1>2, <1>3, <1>4, <1>5, <1>6 DEF Next

-----------------------------------------------------------------------------
(* The theorems.                                                           *)

\* FetchRange keeps every variable in its type: its counters never go negative and what
\* it delivers or charges lies in the range it was asked for.
THEOREM PoolTypes == Spec => []TypeOK
<1>1. IInv => TypeOK  BY DEF IInv
<1> QED  BY <1>1, PoolInvariant, PTL

\* However an item is split over partial responses, no index is delivered twice, charged
\* twice, delivered and charged, or in the hands of two workers.
THEOREM PoolOwnsOnce == Spec => []OwnedOnce
<1>1. IInv => OwnedOnce  BY DEF IInv
<1> QED  BY <1>1, PoolInvariant, PTL

\* Without cancellation every index taken from the channel is delivered, charged to a
\* failure, or still in the hand of a worker.
THEOREM PoolNoticesAll == Spec => []NothingUnnoticed
<1>1. IInv => NothingUnnoticed  BY DEF IInv
<1> QED  BY <1>1, PoolInvariant, PTL

\* When FetchRange returns, and the caller closes the results channel, no worker is left
\* that could send on it.
THEOREM PoolNeverSendsAfterClose == Spec => []NoSendAfterClose
<1>1. IInv => NoSendAfterClose  BY DEF IInv, Stages, NoSendAfterClose
<1> QED  BY <1>1, PoolInvariant, PTL

\* An uncancelled FetchRange returns nil exactly when it delivered the whole range, and an
\* IncompleteRangeError counts exactly the missing entries.
THEOREM PoolVerdictHonest == Spec => []VerdictHonest
BY PoolVerdict, PoolInvariant, PTL

\* The pool implements the abstract fetch of a range: disjoint batches of the range while
\* it runs, and one verdict that tells the truth unless the context was cancelled.
THEOREM PoolImplementsRangeFetch == Spec => ImplementsRangeFetch
BY PromiseInit, PromiseStep, PoolInvariant, PTL DEF Spec, ImplementsRangeFetch, Promise!Spec
=============================================================================
