-------------------------- MODULE DurableFile_proofs --------------------------
(***************************************************************************)
(* What the operations on an appended file leave behind, for records from  *)
(* any set.                                                                *)
(***************************************************************************)
EXTENDS DurableFile, TLAPS

FileOf(records) == [buf : SUBSET records, os : SUBSET records, disk : SUBSET records,
                    err : BOOLEAN]

\* What is durable has been written.
Sound(f, records) == f \in FileOf(records) /\ f.disk \subseteq f.os

\* Nothing durable is lost, an error stays, and without one neither is what was written.
Keeps(f, g) == /\ f.disk \subseteq g.disk
               /\ f.err => g.err
               /\ g.err \/ f.buf \cup f.os \subseteq g.buf \cup g.os

LEMMA EmptyFile == ASSUME NEW S PROVE Sound(Empty, S)
BY DEF Empty, FileOf, Sound

LEMMA KeepsItself == ASSUME NEW f PROVE Keeps(f, f)
BY DEF Keeps

\* A write is dropped behind an error, runs into one, or puts the record in the buffer.
LEMMA WrittenFile ==
    ASSUME NEW S, NEW f, Sound(f, S), NEW i \in S, NEW g \in AfterWrite(f, i)
    PROVE  /\ Sound(g, S) /\ Keeps(f, g)
           /\ g.disk = f.disk
           /\ g.err \/ f.buf \cup f.os \cup {i} \subseteq g.buf \cup g.os
<1>1. CASE f.err
  BY <1>1 DEF AfterWrite, Keeps
<1>2. CASE ~f.err /\ g = [f EXCEPT !.buf = @ \cup {i}]
  BY <1>2 DEF FileOf, Sound, Keeps
<1>3. ASSUME ~f.err,
             NEW part \in SUBSET (f.buf \cup {i}),
             g = [f EXCEPT !.buf = {}, !.os = @ \cup part, !.err = TRUE]
      PROVE  Sound(g, S) /\ g.disk = f.disk /\ g.err /\ Keeps(f, g)
  BY <1>3 DEF FileOf, Sound, Keeps
<1> QED  BY <1>1, <1>2, <1>3 DEF AfterWrite

\* A flush that reports no error has made everything durable.
LEMMA FlushedFile ==
    ASSUME NEW S, NEW f, Sound(f, S), NEW g \in AfterFlush(f)
    PROVE  /\ Sound(g, S) /\ Keeps(f, g)
           /\ f.disk \subseteq g.disk
           /\ g.err \/ f.buf \cup f.os \subseteq g.disk
<1>1. CASE f.err
  BY <1>1 DEF AfterFlush, Keeps
<1>2. CASE ~f.err /\ g = Synced(f)
  BY <1>2 DEF Synced, FileOf, Sound, Keeps
<1>3. ASSUME ~f.err,
             NEW part \in SUBSET f.buf,
             g = [f EXCEPT !.buf = {}, !.os = @ \cup part, !.err = TRUE]
      PROVE  Sound(g, S) /\ f.disk = g.disk /\ g.err /\ Keeps(f, g)
  BY <1>3 DEF FileOf, Sound, Keeps
<1> QED  BY <1>1, <1>2, <1>3 DEF AfterFlush

\* A new process appends to what is there, or truncates it.
LEMMA OpenedFile ==
    ASSUME NEW S, NEW f, Sound(f, S)
    PROVE  Sound(Opened(f, TRUE), S) /\ Opened(f, TRUE).disk = f.disk
BY DEF Opened, FileOf, Sound

LEMMA TruncatedFile == ASSUME NEW S, NEW f PROVE Sound(Opened(f, FALSE), S)
BY DEF Opened, Empty, FileOf, Sound

\* The end of a process, orderly, by a kill or by a power loss, takes nothing durable.
LEMMA ClosedFile ==
    ASSUME NEW S, NEW f, Sound(f, S)
    PROVE  /\ Sound([f EXCEPT !.err = FALSE], S) /\ [f EXCEPT !.err = FALSE].disk = f.disk
           /\ Sound([f EXCEPT !.buf = {}, !.err = FALSE], S)
           /\ [f EXCEPT !.buf = {}, !.err = FALSE].disk = f.disk
BY DEF FileOf, Sound

LEMMA ExitedFile ==
    ASSUME NEW S, NEW f, Sound(f, S), NEW g \in AfterExit(f)
    PROVE  Sound(g, S) /\ g.disk = f.disk
BY DEF AfterExit, FileOf, Sound

LEMMA LostFile ==
    ASSUME NEW S, NEW f, Sound(f, S), NEW g \in AfterPowerLoss(f)
    PROVE  Sound(g, S) /\ f.disk \subseteq g.disk
<1>1. PICK part \in SUBSET ((f.os \cup f.buf) \ f.disk) :
         g = [buf |-> {}, os |-> f.disk \cup part, disk |-> f.disk \cup part, err |-> FALSE]
  BY DEF AfterPowerLoss
<1> QED  BY <1>1 DEF FileOf, Sound

-----------------------------------------------------------------------------
(* State files.                                                            *)

LEMMA ReplacedState ==
    ASSUME NEW s, NEW v
    PROVE  /\ Versions(Replaced(s, v)) = Versions(s) \cup {v}
           /\ Replaced(s, v).seen = v
BY DEF Replaced, Versions

LEMMA StateLost ==
    ASSUME NEW s, NEW t \in StateAfterPowerLoss(s)
    PROVE  Versions(t) \subseteq Versions(s) /\ t.older = {}
BY DEF StateAfterPowerLoss, Versions
=============================================================================
