------------------------------ MODULE RangeFetch ------------------------------
(***************************************************************************)
(* What ctlog.WorkerPool.FetchRange promises the code that drains its      *)
(* results channel: batches of the range come in any order, none overlaps  *)
(* another, and a run that was not cancelled returns nil only when every   *)
(* index of the range was delivered.                                       *)
(***************************************************************************)
EXTENDS Integers

CONSTANTS Start, End    \* the half-open range [Start, End) of the call

Range == Start .. (End - 1)

VARIABLES delivered,   \* indices put on the results channel
          cancelled,   \* the context was cancelled
          verdict      \* "running", then "nil" or "error" once FetchRange returned

vars == <<delivered, cancelled, verdict>>

Init == /\ delivered = {}
        /\ cancelled = FALSE
        /\ verdict = "running"

Deliver(batch) == /\ verdict = "running"
                  /\ batch \subseteq Range \ delivered
                  /\ delivered' = delivered \cup batch
                  /\ UNCHANGED <<cancelled, verdict>>

Cancel == /\ cancelled' = TRUE
          /\ UNCHANGED <<delivered, verdict>>

Complete == delivered = Range

Close == /\ verdict = "running"
         /\ verdict' \in {"nil", "error"}
         /\ verdict' = "nil" => Complete \/ cancelled
         /\ verdict' = "error" => ~Complete \/ cancelled
         /\ UNCHANGED <<delivered, cancelled>>

Next == Cancel \/ Close \/ \E a, b \in Range : Deliver(a .. b)

Spec == Init /\ [][Next]_vars
=============================================================================
