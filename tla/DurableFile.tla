----------------------------- MODULE DurableFile -----------------------------
(***************************************************************************)
(* The files ct-hulhu writes, as far as loss matters.                      *)
(*                                                                         *)
(* An appended file (output.Writer, evidence.Writer) is a bufio buffer in  *)
(* front of an os.File: buf is in the process, os has reached the kernel,  *)
(* disk has been fsync'd, and err is the writer's sticky error.  A record  *)
(* is the index of the entry it is about.                                  *)
(*                                                                         *)
(* A state file is replaced by rename.  atomicWriteJSON syncs the new file *)
(* but not the directory, so until then a power loss may bring back any    *)
(* version of the file since the last one known to be on disk.             *)
(*                                                                         *)
(* Operators named After... give the set of files an operation can leave.  *)
(***************************************************************************)

Empty == [buf |-> {}, os |-> {}, disk |-> {}, err |-> FALSE]

\* O_APPEND keeps what is there, O_TRUNC does not; a new writer has no error.
Opened(f, append) == IF append THEN [f EXCEPT !.buf = {}, !.err = FALSE] ELSE Empty

\* Writing a record: dropped behind a sticky error, buffered, or it makes the
\* buffer overflow into a file that cannot take all of it.
AfterWrite(f, i) ==
    IF f.err
    THEN {f}
    ELSE {[f EXCEPT !.buf = @ \cup {i}]} \cup
         {[f EXCEPT !.buf = {}, !.os = @ \cup part, !.err = TRUE] :
             part \in SUBSET (f.buf \cup {i})}

Synced(f) == [f EXCEPT !.buf = {}, !.os = f.os \cup f.buf, !.disk = f.os \cup f.buf]

\* Flush: buffer, then fsync; either may fail, and then stays failed.
AfterFlush(f) ==
    IF f.err
    THEN {f}
    ELSE {Synced(f)} \cup
         {[f EXCEPT !.buf = {}, !.os = @ \cup part, !.err = TRUE] : part \in SUBSET f.buf}

\* The process is gone: of its buffer, what had overflowed into the file remains.
AfterExit(f) ==
    {[f EXCEPT !.buf = {}, !.os = @ \cup part, !.err = FALSE] : part \in SUBSET f.buf}

\* The machine is gone: of what was not synced, anything may be lost.
AfterPowerLoss(f) ==
    {[buf |-> {}, os |-> f.disk \cup part, disk |-> f.disk \cup part, err |-> FALSE] :
        part \in SUBSET ((f.os \cup f.buf) \ f.disk)}

-----------------------------------------------------------------------------
NewState(none) == [seen |-> none, older |-> {}]

Replaced(s, value) == [seen |-> value, older |-> s.older \cup {s.seen}]

StateAfterPowerLoss(s) == {[seen |-> v, older |-> {}] : v \in s.older \cup {s.seen}}

\* Every version a reader may meet from now on without another write.
Versions(s) == s.older \cup {s.seen}
=============================================================================
