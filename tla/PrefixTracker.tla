---------------------------- MODULE PrefixTracker ----------------------------
(***************************************************************************)
(* What ctlog.ContiguousProgress promises its callers, without its map,    *)
(* its loop or its lock: every call that marks [s, e) as processed returns *)
(* the first index that has not been marked by any call so far.            *)
(***************************************************************************)
EXTENDS Integers

CONSTANTS Start,   \* the first index of the range, NewContiguousProgress(start)
          Limit    \* the calls mark intervals inside 0..Limit (a bound for TLC)

VARIABLES marked,    \* every index some completed call has marked
          answer     \* what the last call returned

vars == <<marked, answer>>

Interval(s, e) == s .. (e - 1)

\* n is the first index from Start on that is not in S: the range is known to
\* be processed up to n and no further.
FirstGap(n, S) == /\ n >= Start
                  /\ Interval(Start, n) \subseteq S
                  /\ n \notin S

Init == /\ marked = {}
        /\ answer = Start

\* One call Mark(s, e), from outside.
Mark(s, e) == /\ marked' = marked \cup Interval(s, e)
              /\ answer' \in Nat
              /\ FirstGap(answer', marked')

Next == \E s, e \in 0..Limit : Mark(s, e)

Spec == Init /\ [][Next]_vars
=============================================================================
