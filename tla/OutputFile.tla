------------------------------ MODULE OutputFile ------------------------------
(***************************************************************************)
(* output/output.go: the Writer of one process in front of the file that   *)
(* outlives it, opened to append as a resumed run does.  A record is a     *)
(* line in two pieces, <<i, 1>> and, with the newline, <<i, 2>>; the       *)
(* buffer overflows, a write fails and a process dies between any two      *)
(* pieces.                                                                 *)
(***************************************************************************)
EXTENDS Integers, Sequences, FiniteSets

CONSTANTS
    Records,    \* what WriteResult is given
    BufSize,    \* pieces the bufio.Writer holds
    MaxDedup    \* keys the seen map holds

ASSUME OutputConstants ==
    /\ IsFiniteSet(Records)
    /\ BufSize \in Nat \ {0, 1}     \* a record fits
    /\ MaxDedup \in Nat

VARIABLES
    alive,      \* the process runs
    file,       \* the pieces in the file
    synced,     \* as many of them survive a power loss
    buf,        \* the pieces in the buffer
    seen,       \* dedup map of the process
    writeErr,   \* its first error, which stays
    settled,    \* history: the length of file when the buffer was last empty for good
    opened,     \* history: the length of file when the process opened it
    seams       \* history: the lengths of file at which a process ended

outputVars == <<alive, file, synced, buf, seen, writeErr, settled, opened, seams>>

OutputInit == /\ alive = FALSE
              /\ file = <<>> /\ synced = 0 /\ buf = <<>>
              /\ seen = {} /\ writeErr = FALSE
              /\ settled = 0 /\ opened = 0 /\ seams = {}

Line(i) == <<<<i, 1>>, <<i, 2>>>>

Upto(s, n) == SubSeq(s, 1, n)
Beyond(s, n) == SubSeq(s, n + 1, Len(s))

\* NewWriterWithOptions: nothing of the last process but its file.
Open == /\ ~alive /\ alive' = TRUE
        /\ buf' = <<>> /\ seen' = {} /\ writeErr' = FALSE
        /\ settled' = Len(file) /\ opened' = Len(file)
        /\ UNCHANGED <<file, synced, seams>>

\* Of what goes to the file, all but the last pieces may arrive and then all is lost
\* that was buffered; all may, and standard output, which gets a copy, or the sync
\* may fail.
Breaks(pieces) == /\ \E k \in 0 .. Len(pieces) : file' = file \o Upto(pieces, k)
                  /\ settled' = Len(file')
                  /\ buf' = <<>>
                  /\ writeErr' = TRUE
                  /\ UNCHANGED synced

\* The buffer overflows as a whole.
Put(content) ==
    IF Len(content) <= BufSize
    THEN buf' = content /\ UNCHANGED <<file, synced, writeErr, settled>>
    ELSE \/ /\ file' = file \o Upto(content, BufSize)
            /\ buf' = Beyond(content, BufSize)
            /\ UNCHANGED <<synced, writeErr, settled>>
         \/ Breaks(content)

\* Mutant: at its limit the map starts anew.
RememberRestarts(i) ==
    IF Cardinality(seen) < MaxDedup THEN seen \cup {i} ELSE {i}

\* Beyond the limit the map knows what it knew.
Remember(i) == IF Cardinality(seen) < MaxDedup THEN seen \cup {i} ELSE seen

\* Mutant: a write goes on after an error.
WriteResultPastError(i) ==
    /\ alive
    /\ IF i \in seen
       THEN UNCHANGED <<file, synced, buf, seen, writeErr, settled>>
       ELSE /\ seen' = Remember(i)
            /\ Put(buf \o Line(i))
    /\ UNCHANGED <<alive, opened, seams>>

WriteResult(i) ==
    /\ alive
    /\ IF writeErr \/ i \in seen
       THEN UNCHANGED <<file, synced, buf, seen, writeErr, settled>>
       ELSE /\ seen' = Remember(i)
            /\ Put(buf \o Line(i))
    /\ UNCHANGED <<alive, opened, seams>>

\* Mutant: the buffer is emptied, and nothing makes the file durable.
FlushUnsynced ==
    /\ alive
    /\ IF writeErr
       THEN UNCHANGED <<file, synced, buf, writeErr, settled>>
       ELSE \/ /\ file' = file \o buf
               /\ settled' = Len(file')
               /\ buf' = <<>>
               /\ UNCHANGED <<synced, writeErr>>
            \/ Breaks(buf)
    /\ UNCHANGED <<alive, seen, opened, seams>>

\* Flush and then sync, with the outcome in writeErr'.
Flush ==
    /\ alive
    /\ IF writeErr
       THEN UNCHANGED <<file, synced, buf, writeErr, settled>>
       ELSE \/ /\ file' = file \o buf
               /\ synced' = Len(file') /\ settled' = Len(file')
               /\ buf' = <<>>
               /\ UNCHANGED writeErr
            \/ Breaks(buf)
    /\ UNCHANGED <<alive, seen, opened, seams>>

Ended(n) == /\ alive' = FALSE
            /\ buf' = <<>> /\ seen' = {} /\ writeErr' = FALSE
            /\ settled' = n /\ opened' = n
            /\ seams' = (seams \cap 0 .. n) \cup {n}

\* Close flushes, and its error ends with the process.
Close == \/ /\ alive /\ ~writeErr
            /\ file' = file \o buf
            /\ synced' = Len(file') /\ Ended(Len(file'))
         \/ /\ alive
            /\ \E k \in 0 .. Len(buf) : file' = file \o Upto(buf, k)
            /\ UNCHANGED synced /\ Ended(Len(file'))

\* The process is killed.
Killed == alive /\ Ended(Len(file)) /\ UNCHANGED <<file, synced>>

\* The machine loses power: the file ends where the file system had got to.
PowerLost == \E n \in synced .. Len(file) :
                /\ file' = Upto(file, n)
                /\ synced' = n
                /\ Ended(n)

-----------------------------------------------------------------------------
\* The records that are there from their first piece to their last.
Whole(s) == {i \in Records : \E k \in 1 .. (Len(s) - 1) : SubSeq(s, k, k + 1) = Line(i)}

Times(i, s) == Cardinality({k \in DOMAIN s : s[k] = <<i, 1>>})

\* Pieces that belong behind each other: a line and its end, or an end and a line.
Joined(p, q) == IF p[2] = 1 THEN q = <<p[1], 2>> ELSE q[2] = 1

\* The JSONL a consumer reads: a line may be cut off or run into the next one only at
\* a place where a process ended, and at the end of the file as it stands.  A write
\* error in the middle of a run, with records before and after it, leaves no other.
DamageOnlyAtSeams ==
    \A k \in 1 .. (Len(file) - 1) : Joined(file[k], file[k + 1]) \/ k \in seams

\* Within a process the dedup map is exact: what it knows is written once, and what it
\* does not know is written only when it is full (output.go:15).
DedupExact ==
    LET written == Beyond(file, opened) \o buf
    IN  /\ \A i \in seen : Times(i, written) <= 1 /\ (~writeErr => Times(i, written) = 1)
        /\ \A i \in Records \ seen :
              Times(i, written) > 0 => Cardinality(seen) = MaxDedup

\* The file as ScrapeLog and MonitorLog see it.
Contract == INSTANCE FileContract
            WITH f <- [os |-> Whole(Upto(file, settled)),
                       buf |-> Whole(Beyond(file, settled) \o buf),
                       disk |-> Whole(Upto(file, synced)),
                       err |-> writeErr]

\* Losses in the middle of a line, an overflow in the middle of a record and the dedup
\* map add nothing to what those modules take into account.
ImplementsFileContract == Contract!Spec
=============================================================================
