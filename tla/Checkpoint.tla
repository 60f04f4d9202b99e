------------------------------ MODULE Checkpoint ------------------------------
(***************************************************************************)
(* The discipline fetchAndProcess and scrapeLog share, over the output     *)
(* file of OutputFile and a state file written step by step                *)
(* (Runner.atomicWriteJSON): records are written, the file is flushed, the *)
(* position is saved, and only then do the next ones follow.  The state is *)
(* the number of records it claims.                                        *)
(***************************************************************************)
EXTENDS OutputFile, DurableFile

CONSTANTS
    MaxRuns, MaxFaults, MaxPieces,  \* bounds for TLC, the last on file and buffer
    None, Garbage

ASSUME CheckpointConstants == Records \subseteq Nat /\ Garbage \notin Records

VARIABLES
    pos,     \* the position of the process
    given,   \* records of the batch handed to the writer since
    at,      \* "write", "flushed" or "save"
    temp,    \* the temporary state file
    state,   \* the state file
    runs, faults

vars == <<outputVars, pos, given, at, temp, state, runs, faults>>

Init == /\ OutputInit
        /\ pos = 0 /\ given = {} /\ at = "write"
        /\ temp = "none" /\ state = NewState(None)
        /\ runs = 0 /\ faults = 0

Fault == faults < MaxFaults /\ faults' = faults + 1
NoFault == UNCHANGED faults

Start == /\ runs < MaxRuns
         /\ Open
         /\ runs' = runs + 1
         /\ pos' = IF state.seen = None THEN 0 ELSE state.seen
         /\ given' = {} /\ at' = "write" /\ temp' = "none"
         /\ UNCHANGED <<state, faults>>

At(place) == alive /\ at = place

Retry == given' = {} /\ at' = "write"

\* The parsers of a batch hand over its records in any order.
Give(i) == /\ At("write")
           /\ i > pos /\ i \notin given
           /\ Len(file \o buf) <= MaxPieces - 2
           /\ WriteResult(i)
           /\ IF writeErr' /\ ~writeErr THEN Fault ELSE NoFault
           /\ given' = given \cup {i}
           /\ UNCHANGED <<pos, at, temp, state, runs>>

\* A fetch fails; a later poll begins at the position again.
FetchFails == /\ At("write")
              /\ given # {}
              /\ Retry
              /\ UNCHANGED <<outputVars, pos, temp, state, runs, faults>>

FlushBatch == /\ At("write")
              /\ given # {}
              /\ Flush
              /\ IF writeErr' /\ ~writeErr THEN Fault ELSE NoFault
              /\ IF writeErr' THEN Retry ELSE at' = "flushed" /\ UNCHANGED given
              /\ UNCHANGED <<pos, temp, state, runs>>

\* What the contiguous prefix has reached.
Reached(n) == /\ n \in Records \cup {pos} /\ n >= pos
              /\ (pos + 1) .. n \subseteq given
              /\ n + 1 \notin given

-----------------------------------------------------------------------------
(* atomicWriteJSON                                                         *)

CreateTemp == /\ At("flushed")
              /\ at' = "save" /\ temp' = "empty"
              /\ UNCHANGED <<outputVars, pos, given, state, runs, faults>>

WriteTemp == /\ At("save") /\ temp = "empty"
             /\ temp' = "written"
             /\ UNCHANGED <<outputVars, pos, given, at, state, runs, faults>>

SyncTemp == /\ At("save") /\ temp = "written"
            /\ temp' = "synced"
            /\ UNCHANGED <<outputVars, pos, given, at, state, runs, faults>>

\* The name has the new contents from now on.  After a power loss it may have an older
\* one, since the directory is not synced, or nothing if the contents were not.
Renamed(n) == LET s == Replaced(state, n)
              IN  IF temp = "synced" THEN s ELSE [s EXCEPT !.older = @ \cup {Garbage}]

\* Mutant: the temporary file is renamed as soon as it is written.
RenameUnsynced(n) == /\ At("save") /\ temp = "written"
                     /\ Reached(n)
                     /\ state' = Renamed(n)
                     /\ pos' = n
                     /\ temp' = "none" /\ Retry
                     /\ UNCHANGED <<outputVars, runs, faults>>

Rename(n) == /\ At("save") /\ temp = "synced"
             /\ Reached(n)
             /\ state' = Renamed(n)
             /\ pos' = n
             /\ temp' = "none" /\ Retry
             /\ UNCHANGED <<outputVars, runs, faults>>

\* A failure before the rename, or of the chmod behind it.
SaveFails == /\ At("save")
             /\ Fault
             /\ \/ UNCHANGED state
                \/ temp = "synced" /\ \E n \in Records : Reached(n) /\ state' = Renamed(n)
             /\ temp' = "none" /\ Retry
             /\ UNCHANGED <<outputVars, pos, runs>>

-----------------------------------------------------------------------------
Gone == /\ pos' = 0 /\ given' = {} /\ at' = "write" /\ temp' = "none"
        /\ UNCHANGED runs

Stop == At("write") /\ Close /\ Gone /\ UNCHANGED <<state, faults>>

Crash == Fault /\ Killed /\ Gone /\ UNCHANGED state

PowerLoss == Fault /\ PowerLost /\ Gone /\ state' \in StateAfterPowerLoss(state)

Next == \/ Start \/ FetchFails \/ FlushBatch
        \/ \E i \in Records : Give(i)
        \/ CreateTemp \/ WriteTemp \/ SyncTemp \/ SaveFails
        \/ \E n \in Records : Rename(n)
        \/ Stop \/ Crash \/ PowerLoss

Spec == Init /\ [][Next]_vars

-----------------------------------------------------------------------------
\* Whatever is lost, the state file that is found afterwards can be read, and every
\* record it claims is in the durable part of the output, with its newline
\* (README.md:234).
StateBehindOutput ==
    \A v \in Versions(state) \ {None} :
        /\ v # Garbage
        /\ 1 .. v \subseteq Whole(Upto(file, synced))
=============================================================================
