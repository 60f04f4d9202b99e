----------------------------- MODULE FileContract -----------------------------
(***************************************************************************)
(* What ScrapeLog and MonitorLog take an output file to be: a DurableFile  *)
(* that changes by writes, flushes, closing, process exits and power       *)
(* losses, and by nothing else.                                            *)
(***************************************************************************)
EXTENDS DurableFile

CONSTANT Records

VARIABLES f, alive     \* the file, and whether a process has it open

Init == f = Empty /\ alive = FALSE

Open == ~alive /\ f' = Opened(f, TRUE) /\ alive'

Use == /\ alive /\ alive'
       /\ \/ \E i \in Records : f' \in AfterWrite(f, i)
          \/ f' \in AfterFlush(f)

\* An orderly end flushes first and forgets the error with the process.
AfterClose == {[g EXCEPT !.err = FALSE] : g \in AfterFlush(f)}

End == /\ ~alive'
       /\ \/ alive /\ f' \in AfterClose \cup AfterExit(f)
          \/ f' \in AfterPowerLoss(f)

Next == Open \/ Use \/ End

Spec == Init /\ [][Next]_<<f, alive>>
=============================================================================
