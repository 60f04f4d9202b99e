--------------------------- MODULE StartupBaseline ---------------------------
(***************************************************************************)
(* monitorWithBaseline under the supervising transaction that              *)
(* docs/MONITOR_BASELINE.md describes.  A monitor process initialises all  *)
(* selected logs concurrently, writes the state files it has newly created *)
(* to a baseline artifact and only then polls.  When it has ended, the     *)
(* supervisor either commits what was emitted, or throws it away and       *)
(* restores the state files of before plus those of the artifact.          *)
(*                                                                         *)
(* A delta is one step here, whatever part of it is emitted; MonitorLog    *)
(* has its inside.  Every transaction names a fresh artifact.              *)
(***************************************************************************)
EXTENDS Integers

CONSTANTS
    Logs,       \* the selected logs
    MaxTree,    \* bound: the largest tree
    Absent        \* no state file, no artifact, no position

ASSUME BaselineConstants ==
    MaxTree \in Nat /\ Absent \notin Nat /\ \A S \in SUBSET Logs : Absent \notin [S -> Nat]

VARIABLES
    head,       \* [Logs -> Nat]: the tree size each log has reached
    state,      \* [Logs -> Nat or Absent]: the position in each state file
    artifact,   \* the baseline: [newly initialised logs -> Nat], or Absent
    at,         \* "idle", "init", "publish", "poll" or "ended"
    job,        \* [Logs -> what the goroutine of the log is doing]
    session,    \* [Logs -> Nat or Absent]: loaded or fetched position, then session.pos
    target,     \* [Logs -> Nat or Absent]: the tree head of the delta being processed
    fresh,      \* initializedStatePaths
    emitted,    \* [Logs -> indices]: what this process has written
    before,     \* the supervisor's snapshot of the state files
    committed,  \* [Logs -> indices]: what earlier transactions have kept
    origin      \* history: [Logs -> Nat or Absent]: the position the log was first
                \* monitored from, once a process has come as far as polling it

process == <<artifact, at, job, session, target, fresh, emitted>>
supervisor == <<before, committed>>
baselineVars == <<head, state, process, supervisor, origin>>

Delta(from, to) == from .. (to - 1)
Position == Nat \cup {Absent}

BaselineInit == /\ head \in [Logs -> 0 .. MaxTree]
                /\ state = [l \in Logs |-> Absent]
                /\ artifact = Absent /\ at = "idle" /\ fresh = {}
                /\ job = [l \in Logs |-> "start"]
                /\ session = [l \in Logs |-> Absent] /\ target = [l \in Logs |-> Absent]
                /\ emitted = [l \in Logs |-> {}]
                /\ before = state /\ committed = [l \in Logs |-> {}]
                /\ origin = [l \in Logs |-> Absent]

Grow(l) == /\ head[l] < MaxTree
           /\ head' = [head EXCEPT ![l] = @ + 1]
           /\ UNCHANGED <<state, process, supervisor, origin>>

-----------------------------------------------------------------------------
(* Start-up                                                                *)

LoadState(l) == /\ at = "init" /\ job[l] = "start"
                /\ session' = [session EXCEPT ![l] = state[l]]
                /\ job' = [job EXCEPT ![l] = "loaded"]
                /\ UNCHANGED <<head, state, artifact, at, target, fresh, emitted>>
                /\ UNCHANGED <<supervisor, origin>>

\* newReader, the state file, the consistency anchor or the tree head fails.
InitFails(l) == /\ at = "init" /\ job[l] \in {"start", "loaded"}
                /\ job' = [job EXCEPT ![l] = "failed"]
                /\ UNCHANGED <<head, state, artifact, at, session, target, fresh, emitted>>
                /\ UNCHANGED <<supervisor, origin>>

\* A tree head arrives, perhaps from a front end that lags: a log with a state is
\* up, unless the tree regressed; one without has its first position to save.
InitialHead(l) ==
    /\ at = "init" /\ job[l] = "loaded"
    /\ \E size \in 0 .. head[l] :
         \/ /\ session[l] # Absent /\ session[l] <= size
            /\ job' = [job EXCEPT ![l] = "up"]
            /\ UNCHANGED session
         \/ /\ session[l] # Absent /\ session[l] > size
            /\ job' = [job EXCEPT ![l] = "failed"]
            /\ UNCHANGED session
         \/ /\ session[l] = Absent
            /\ job' = [job EXCEPT ![l] = "saving"]
            /\ session' = [session EXCEPT ![l] = size]
    /\ UNCHANGED <<head, state, artifact, at, target, fresh, emitted, supervisor, origin>>

SaveInitial(l) ==
    /\ at = "init" /\ job[l] = "saving"
    /\ state' = [state EXCEPT ![l] = session[l]]
    /\ fresh' = fresh \cup {l}
    /\ job' = [job EXCEPT ![l] = "up"]
    /\ UNCHANGED <<head, artifact, at, session, target, emitted, supervisor, origin>>

\* The error may come before or after the rename of the state file.
SaveInitialFails(l) ==
    /\ at = "init" /\ job[l] = "saving"
    /\ state' \in {state, [state EXCEPT ![l] = session[l]]}
    /\ job' = [job EXCEPT ![l] = "failed"]
    /\ UNCHANGED <<head, artifact, at, session, target, fresh, emitted, supervisor, origin>>

\* Mutant: one log that is up is enough.
GatheredSome ==
    /\ at = "init" /\ \A l \in Logs : job[l] \in {"up", "failed"}
    /\ at' = IF \E l \in Logs : job[l] = "up" THEN "publish" ELSE "ended"
    /\ UNCHANGED <<head, state, artifact, job, session, target, fresh, emitted>>
    /\ UNCHANGED <<supervisor, origin>>

\* initGroup.Wait: start-up coverage must be complete.
Gathered ==
    /\ at = "init" /\ \A l \in Logs : job[l] \in {"up", "failed"}
    /\ at' = IF \A l \in Logs : job[l] = "up" THEN "publish" ELSE "ended"
    /\ UNCHANGED <<head, state, artifact, job, session, target, fresh, emitted>>
    /\ UNCHANGED <<supervisor, origin>>

\* writeMonitorBaseline reads the new state files and publishes them by a rename;
\* polling may begin.
Publish ==
    /\ at = "publish"
    /\ artifact' = [l \in fresh |-> state[l]]
    /\ at' = "poll"
    /\ origin' = [l \in Logs |-> IF origin[l] = Absent THEN session[l] ELSE origin[l]]
    /\ UNCHANGED <<head, state, job, session, target, fresh, emitted, supervisor>>

\* The error may come before or after the rename of the artifact.
PublishFails ==
    /\ at = "publish"
    /\ artifact' \in {Absent, [l \in fresh |-> state[l]]}
    /\ at' = "ended"
    /\ UNCHANGED <<head, state, job, session, target, fresh, emitted, supervisor, origin>>

-----------------------------------------------------------------------------
(* Polling                                                                 *)

\* Mutant: the first poll does not wait for the artifact.
DeliverEarly(l) ==
    /\ at \in {"publish", "poll"} /\ job[l] = "up"
    /\ \E size \in 0 .. head[l] :
         /\ size > session[l]
         /\ emitted' = [emitted EXCEPT ![l] = @ \cup Delta(session[l], size)]
         /\ target' = [target EXCEPT ![l] = size]
    /\ job' = [job EXCEPT ![l] = "delivered"]
    /\ UNCHANGED <<head, state, artifact, at, session, fresh, supervisor, origin>>

\* fetchAndProcess of a whole delta.
Deliver(l) ==
    /\ at = "poll" /\ job[l] = "up"
    /\ \E size \in 0 .. head[l] :
         /\ size > session[l]
         /\ emitted' = [emitted EXCEPT ![l] = @ \cup Delta(session[l], size)]
         /\ target' = [target EXCEPT ![l] = size]
    /\ job' = [job EXCEPT ![l] = "delivered"]
    /\ UNCHANGED <<head, state, artifact, at, session, fresh, supervisor, origin>>

\* Mutant: the error of an incomplete delta is not looked at.
DeliverPartMoves(l) ==
    /\ at = "poll" /\ job[l] = "up" /\ head[l] > session[l]
    /\ \E part \in SUBSET Delta(session[l], head[l]) :
         emitted' = [emitted EXCEPT ![l] = @ \cup part]
    /\ target' = [target EXCEPT ![l] = head[l]]
    /\ job' = [job EXCEPT ![l] = "delivered"]
    /\ UNCHANGED <<head, state, artifact, at, session, fresh, supervisor, origin>>

\* A delta that fails, or is cancelled, has emitted any part; the position stays.
DeliverPart(l) ==
    /\ at = "poll" /\ job[l] = "up"
    /\ \E part \in SUBSET Delta(session[l], head[l]) :
         emitted' = [emitted EXCEPT ![l] = @ \cup part]
    /\ UNCHANGED <<head, state, artifact, at, job, session, target, fresh>>
    /\ UNCHANGED <<supervisor, origin>>

SaveAndMove(l) ==
    /\ at = "poll" /\ job[l] = "delivered"
    /\ state' = [state EXCEPT ![l] = target[l]]
    /\ session' = [session EXCEPT ![l] = target[l]]
    /\ target' = [target EXCEPT ![l] = Absent]
    /\ job' = [job EXCEPT ![l] = "up"]
    /\ UNCHANGED <<head, artifact, at, fresh, emitted, supervisor, origin>>

SaveFails(l) ==
    /\ at = "poll" /\ job[l] = "delivered"
    /\ state' \in {state, [state EXCEPT ![l] = target[l]]}
    /\ target' = [target EXCEPT ![l] = Absent]
    /\ job' = [job EXCEPT ![l] = "up"]
    /\ UNCHANGED <<head, artifact, at, session, fresh, emitted, supervisor, origin>>

\* An interrupt or a crash.
End == /\ at \in {"init", "publish", "poll"}
       /\ at' = "ended"
       /\ UNCHANGED <<head, state, artifact, job, session, target, fresh, emitted>>
       /\ UNCHANGED <<supervisor, origin>>

-----------------------------------------------------------------------------
(* The supervisor                                                          *)

Launch == /\ at = "idle"
          /\ before' = state
          /\ artifact' = Absent /\ at' = "init" /\ fresh' = {}
          /\ job' = [l \in Logs |-> "start"]
          /\ session' = [l \in Logs |-> Absent] /\ target' = [l \in Logs |-> Absent]
          /\ emitted' = [l \in Logs |-> {}]
          /\ UNCHANGED <<head, state, committed, origin>>

Commit == /\ at = "ended"
          /\ at' = "idle"
          /\ committed' = [l \in Logs |-> committed[l] \cup emitted[l]]
          /\ UNCHANGED <<head, state, artifact, job, session, target, fresh, emitted>>
          /\ UNCHANGED <<before, origin>>

\* The pre-run state plus the newly initialised files of the artifact.
Restored(l) == IF before[l] # Absent THEN before[l]
               ELSE IF artifact # Absent /\ l \in fresh THEN artifact[l]
               ELSE Absent

Restore == /\ at = "ended"
           /\ at' = "idle"
           /\ state' = [l \in Logs |-> Restored(l)]
           /\ UNCHANGED <<head, artifact, job, session, target, fresh, emitted>>
           /\ UNCHANGED <<supervisor, origin>>

-----------------------------------------------------------------------------
BaselineNext == \/ \E l \in Logs : \/ Grow(l)
                                   \/ LoadState(l) \/ InitFails(l) \/ InitialHead(l)
                                   \/ SaveInitial(l) \/ SaveInitialFails(l)
                                   \/ Deliver(l) \/ DeliverPart(l)
                                   \/ SaveAndMove(l) \/ SaveFails(l)
                \/ Gathered \/ Publish \/ PublishFails \/ End
                \/ Launch \/ Commit \/ Restore

BaselineSpec == BaselineInit /\ [][BaselineNext]_baselineVars

-----------------------------------------------------------------------------
Jobs == {"start", "loaded", "saving", "up", "delivered", "failed"}

BaselineTypeOK == /\ head \in [Logs -> Nat]
                  /\ {state, session, target, before, origin} \subseteq [Logs -> Position]
                  /\ fresh \subseteq Logs
                  /\ artifact \in [fresh -> Nat] \cup {Absent}
                  /\ at \in {"idle", "init", "publish", "poll", "ended"}
                  /\ job \in [Logs -> Jobs]
                  /\ emitted \in [Logs -> SUBSET Nat] /\ committed \in [Logs -> SUBSET Nat]

\* "restore the pre-run state plus the baseline's newly initialized files ...
\* preserves replayability" (docs/MONITOR_BASELINE.md:57-59): between transactions,
\* every entry of a monitored log is kept or is still ahead of its position, however
\* many transactions were rolled back in whatever state.
NothingUnreplayable ==
    at = "idle" =>
        \A l \in Logs : origin[l] # Absent =>
            state[l] # Absent /\ Delta(origin[l], state[l]) \subseteq committed[l]

\* "If startup coverage is incomplete, ct-hulhu exits non-zero and does not produce
\* the baseline artifact": an artifact only exists when every selected log had a
\* state file, its own content included.
ArtifactMeansCovered ==
    (at # "idle" /\ artifact # Absent) =>
        \A l \in Logs : state[l] # Absent /\ (before[l] = Absent => l \in fresh)

\* The artifact is written before the first delta: whatever has been emitted of a
\* log can be replayed from the snapshot or from the artifact.
EmittedIsRecoverable ==
    at # "idle" =>
        \A l \in Logs : \A i \in emitted[l] : Restored(l) # Absent /\ Restored(l) <= i

-----------------------------------------------------------------------------
(* The inductive invariant behind NothingUnreplayable                      *)

\* What either outcome of a transaction will leave: restoring goes back to what is
\* committed, and committing adds what lies between that and the state file.
OutcomesKeep(l) ==
    origin[l] # Absent =>
        /\ Restored(l) # Absent /\ Delta(origin[l], Restored(l)) \subseteq committed[l]
        /\ state[l] # Absent /\ Delta(Restored(l), state[l]) \subseteq emitted[l]

\* Before the artifact a state file of the snapshot is untouched, and a new one is
\* remembered by the time its log is up.
StartsFromState(l) ==
    /\ artifact = Absent
    /\ before[l] # Absent => state[l] = before[l] /\ l \notin fresh
    /\ job[l] = "start" => state[l] = before[l]
    /\ job[l] = "loaded" => session[l] = before[l]
    /\ job[l] = "saving" => before[l] = Absent /\ session[l] # Absent
    /\ l \in fresh => job[l] = "up"
    /\ job[l] = "up" => /\ state[l] # Absent /\ state[l] = session[l]
                        /\ before[l] = Absent => l \in fresh

\* While polling, all between the restored position and the session's is emitted.
PollsFromRestored(l) ==
    /\ job[l] \in {"up", "delivered"}
    /\ origin[l] # Absent /\ Restored(l) # Absent /\ session[l] # Absent
    /\ Restored(l) <= session[l] /\ Delta(Restored(l), session[l]) \subseteq emitted[l]
    /\ job[l] = "delivered" => /\ target[l] # Absent /\ session[l] <= target[l]
                               /\ Delta(Restored(l), target[l]) \subseteq emitted[l]

\* Whatever step the process has reached, and however it is cut off there, both
\* outcomes of the transaction (the restore and the commit) keep every log complete.
TransactionInv ==
    /\ BaselineTypeOK
    /\ NothingUnreplayable
    /\ EmittedIsRecoverable
    /\ at # "idle" => \A l \in Logs : OutcomesKeep(l)
    /\ at \in {"init", "publish"} => \A l \in Logs : StartsFromState(l) /\ emitted[l] = {}
    /\ at = "publish" => \A l \in Logs : job[l] = "up"
    /\ at = "poll" => \A l \in Logs : PollsFromRestored(l)
=============================================================================
