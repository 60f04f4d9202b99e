----------------------------- MODULE RequestGate -----------------------------
(***************************************************************************)
(* ctlog/client.go: the requests of one client, whoever makes them.  All   *)
(* callers of a client - the workers of a pool, the monitor's poll - take  *)
(* their turns at waitRequestSlot: a slot is reserved under a mutex, the   *)
(* wait for it is outside.  Around that, doRequestWithRetry repeats what   *)
(* failed, after a backoff.  staticct/client.go has the same two loops for *)
(* its own requests.                                                       *)
(*                                                                         *)
(* Time is explicit.  A goroutine whose timer has expired runs within      *)
(* Slack, and a request ends within Timeout.                               *)
(***************************************************************************)
EXTENDS Integers, Sequences, FiniteSets

CONSTANTS
    Callers,     \* goroutines that use the client
    Interval,    \* requestInterval: time between two slots, 0 without a limit
    Second,      \* the unit of the backoff
    MaxBackoff,  \* the 30 seconds it is cut at
    Retries,     \* options.go allows up to ten, so 2^(attempt - 1) never overflows
    Slack,       \* the latest a goroutine runs after its timer
    Timeout,     \* of the HTTP client
    MaxCalls,    \* calls made (a bound for TLC)
    None

ASSUME GateConstants ==
    /\ IsFiniteSet(Callers)
    /\ {Interval, Second, MaxBackoff, Slack, Timeout, MaxCalls} \subseteq Nat
    /\ Retries \in 0..10
    /\ None \notin Nat

VARIABLES
    now,
    nextRequest,
    cancelled,   \* the context all callers share
    call,        \* per caller: where it is, its attempt, and the time it waits for
    granted,     \* history: the slots in the order of their reservation, and when
                 \* the request of each was sent
    calls

vars == <<now, nextRequest, cancelled, call, granted, calls>>

Idle == [at |-> "idle", attempt |-> 0, wake |-> 0, turn |-> 0]

Init == /\ now = 0 /\ nextRequest = 0
        /\ cancelled = FALSE
        /\ call = [c \in Callers |-> Idle]
        /\ granted = <<>>
        /\ calls = 0

Smaller(a, b) == IF a < b THEN a ELSE b
Later(a, b) == IF a > b THEN a ELSE b

At(c, at) == call[c].at = at
Due(c) == now >= call[c].wake
SetCall(c, r) == call' = [call EXCEPT ![c] = r]

Start(c) == /\ At(c, "idle")
            /\ calls < MaxCalls
            /\ calls' = calls + 1
            /\ SetCall(c, [Idle EXCEPT !.at = "reserve", !.wake = now])
            /\ UNCHANGED <<now, nextRequest, cancelled, granted>>

-----------------------------------------------------------------------------
(* waitRequestSlot                                                         *)

\* Mutant: only an idle gate moves the next slot on.
SlotForgetful == Later(now, nextRequest - Interval)

\* Mutant: a slot is taken behind the next one.
SlotBehind == Later(now, nextRequest + Interval)

Slot == Later(now, nextRequest)

\* Without a limit the slot is now, and nothing is reserved.
Reserve(c) ==
    /\ At(c, "reserve")
    /\ LET slot == IF Interval = 0 THEN now ELSE Slot
       IN  /\ granted' = Append(granted, [slot |-> slot, sent |-> None])
           /\ SetCall(c, [call[c] EXCEPT !.at = "sleep", !.wake = slot,
                                         !.turn = Len(granted) + 1])
           /\ nextRequest' = IF Interval = 0 THEN nextRequest ELSE slot + Interval
    /\ UNCHANGED <<now, cancelled, calls>>

\* The slot has come: the request goes out.
Send(c) == /\ At(c, "sleep")
           /\ Due(c)
           /\ ~cancelled
           /\ granted' = [granted EXCEPT ![call[c].turn].sent = now]
           /\ SetCall(c, [call[c] EXCEPT !.at = "flight", !.wake = now])
           /\ UNCHANGED <<now, nextRequest, cancelled, calls>>

-----------------------------------------------------------------------------
(* doRequestWithRetry                                                      *)

\* The delay before an attempt, the first having none.
Backoff(attempt) == Smaller(2 ^ (attempt - 1) * Second, MaxBackoff)

AfterFailure(c) ==
    IF call[c].attempt >= Retries
    THEN Idle
    ELSE [Idle EXCEPT !.at = "backoff", !.attempt = call[c].attempt + 1,
                      !.wake = now + Backoff(call[c].attempt + 1)]

\* The select on the slot's timer sees the cancellation, or the transport does when
\* the slot has come; either way this is one more failed attempt.
GiveUpSlot(c) == /\ At(c, "sleep")
                 /\ cancelled
                 /\ SetCall(c, AfterFailure(c))
                 /\ UNCHANGED <<now, nextRequest, cancelled, granted, calls>>

Succeed(c) == /\ At(c, "flight")
              /\ SetCall(c, Idle)
              /\ UNCHANGED <<now, nextRequest, cancelled, granted, calls>>

\* A transport error, a timeout, another status, or too long a body.
Fail(c) == /\ At(c, "flight")
           /\ SetCall(c, AfterFailure(c))
           /\ UNCHANGED <<now, nextRequest, cancelled, granted, calls>>

Retry(c) == /\ At(c, "backoff")
            /\ Due(c)
            /\ SetCall(c, [call[c] EXCEPT !.at = "reserve", !.wake = now])
            /\ UNCHANGED <<now, nextRequest, cancelled, granted, calls>>

\* Mutant: the context is looked at only when the backoff is over.
GiveUpRetryLate(c) == /\ At(c, "backoff")
                      /\ Due(c)
                      /\ cancelled
                      /\ SetCall(c, Idle)
                      /\ UNCHANGED <<now, nextRequest, cancelled, granted, calls>>

GiveUpRetry(c) == /\ At(c, "backoff")
                  /\ cancelled
                  /\ SetCall(c, Idle)
                  /\ UNCHANGED <<now, nextRequest, cancelled, granted, calls>>

-----------------------------------------------------------------------------
Cancel == /\ ~cancelled
          /\ cancelled' = TRUE
          /\ UNCHANGED <<now, nextRequest, call, granted, calls>>

Deadline(c) == call[c].wake + (IF At(c, "flight") THEN Timeout ELSE Slack)

\* While nobody calls, time passes until it makes no more difference to the gate.
Tick == /\ \A c \in Callers : ~At(c, "idle") => now < Deadline(c)
        /\ \/ \E c \in Callers : ~At(c, "idle")
           \/ now <= nextRequest
        /\ now' = now + 1
        /\ UNCHANGED <<nextRequest, cancelled, call, granted, calls>>

Step(c) == \/ Reserve(c) \/ Send(c) \/ GiveUpSlot(c)
           \/ Succeed(c) \/ Fail(c) \/ Retry(c) \/ GiveUpRetry(c)

Next == (\E c \in Callers : Start(c) \/ Step(c)) \/ Cancel \/ Tick

Spec == Init /\ [][Next]_vars

\* Goroutines run, and a request ends.  That time passes is not assumed here.
FairSpec == Spec /\ \A c \in Callers : WF_vars(Step(c))

-----------------------------------------------------------------------------
Places == {"idle", "reserve", "sleep", "flight", "backoff"}
CallType == [at : Places, attempt : 0..Retries, wake : Nat, turn : Nat]
GrantType == [slot : Nat, sent : Nat \cup {None}]

TypeOK ==
    /\ now \in Nat /\ nextRequest \in Nat
    /\ cancelled \in BOOLEAN
    /\ call \in [Callers -> CallType]
    /\ granted \in Seq(GrantType)
    /\ calls \in 0..MaxCalls

\* -rl caps the underlying requests, of all callers and with their retries
\* (README.md:238): among the requests sent in any stretch of time, one per Interval
\* and one more, the lateness of a timer aside.  A number of requests with the m-th
\* and the n-th slot as their extremes is at most n - m + 1.
RateKept ==
    \A m, n \in DOMAIN granted :
        (m < n /\ granted[m].sent # None /\ granted[n].sent # None) =>
            (n - m) * Interval <= granted[n].sent - granted[m].sent + Slack

Queued == {c \in Callers : At(c, "sleep") /\ ~Due(c)}

\* A caller waits for those before it and for nobody else: slots do not pile up, even
\* when requests fail and are repeated.  A cancelled sleeper leaves its slot behind,
\* but the cancellation is that of every caller.
NoDebt == ~cancelled => nextRequest <= now + Interval * (Cardinality(Queued) + 1)

\* Every call comes back: if time goes on, after its retries, and once the context is
\* cancelled, wherever the call is waiting, without another moment passing.
CallsEnd ==
    \A c \in Callers :
        /\ WF_vars(Tick) => (~At(c, "idle") ~> At(c, "idle"))
        /\ (cancelled /\ ~At(c, "idle")) ~> At(c, "idle")
=============================================================================
