-------------------------- MODULE RequestGate_proofs --------------------------
(***************************************************************************)
(* Proofs about RequestGate: for any number of callers, any rate and any   *)
(* backoff, the rate is kept and no waiting time builds up.                *)
(***************************************************************************)
EXTENDS RequestGate, FiniteSetTheorems, SequenceTheorems, TLAPS

\* Where the next slot cannot lie before; without a limit that is now.
Horizon == IF Interval = 0 THEN now ELSE nextRequest

\* The m-th slot is as many intervals before the horizon as there are slots from it on.
SlotsBehindHorizon ==
    \A m \in DOMAIN granted :
        granted[m].slot + (Len(granted) - m + 1) * Interval <= Horizon

SlotsApart ==
    \A m, n \in DOMAIN granted :
        m < n => granted[m].slot + (n - m) * Interval <= granted[n].slot

\* A sleeper waits for the slot it was given and is awake in time for it.
SleepersOwnSlots ==
    \A c \in Callers : At(c, "sleep") =>
        /\ call[c].turn \in DOMAIN granted
        /\ call[c].wake = granted[call[c].turn].slot
        /\ now <= call[c].wake + Slack

SentInTime ==
    \A m \in DOMAIN granted : granted[m].sent # None =>
        /\ granted[m].slot <= granted[m].sent
        /\ granted[m].sent <= granted[m].slot + Slack

\* The callers whose slot has not come at time t.
WaitingAt(t) == {c \in Callers : At(c, "sleep") /\ call[c].wake > t}

\* The generalisation of NoDebt to every time to come: what is reserved beyond it
\* belongs to callers that still wait then.
NoDebtAhead ==
    ~cancelled =>
        \A t \in Nat : now <= t =>
            nextRequest <= t + Interval * (Cardinality(WaitingAt(t)) + 1)

Unlimited == Interval = 0 => nextRequest = 0

SlotInv == SlotsBehindHorizon /\ SlotsApart /\ SleepersOwnSlots /\ SentInTime

-----------------------------------------------------------------------------
LEMMA Numbers ==
    /\ Interval \in Nat /\ Second \in Nat /\ MaxBackoff \in Nat /\ Slack \in Nat
    /\ Timeout \in Nat /\ MaxCalls \in Nat /\ Retries \in Nat
BY GateConstants

LEMMA AtMostTenRetries == Retries <= 10
BY GateConstants

LEMMA OneMore == ASSUME NEW k \in Int, NEW i \in Int PROVE (k + 1) * i = k * i + i
BY SMT

LEMMA PowersOfTwo == ASSUME NEW n \in 0..9 PROVE 2^n \in Nat
<1>1. n \in {0, 1, 2, 3, 4, 5, 6, 7, 8, 9}  BY SMT
<1>2. /\ 2^0 \in Nat /\ 2^1 \in Nat /\ 2^2 \in Nat /\ 2^3 \in Nat /\ 2^4 \in Nat
      /\ 2^5 \in Nat /\ 2^6 \in Nat /\ 2^7 \in Nat /\ 2^8 \in Nat /\ 2^9 \in Nat
      BY SMT
<1> QED  BY <1>1, <1>2, Zenon

\* An attempt is followed by the next one, no earlier, or by none.
LEMMA NextAttempt ==
    ASSUME TypeOK, NEW c \in Callers
    PROVE  /\ AfterFailure(c) \in CallType
           /\ AfterFailure(c).at # "sleep"
<1>1. CASE call[c].attempt >= Retries
  BY <1>1, Numbers DEF AfterFailure, Idle, Places, CallType
<1>2. CASE ~(call[c].attempt >= Retries)
  <2> DEFINE next == call[c].attempt + 1
  <2>1. next \in 1..Retries
    <3>1. call[c].attempt \in 0..Retries  BY DEF TypeOK, CallType
    <3> QED  BY <1>2, <3>1, Numbers
  <2>2. next - 1 \in 0..9  BY <2>1, AtMostTenRetries, Numbers
  <2>3. 2^(next - 1) \in Nat  BY <2>2, PowersOfTwo
  <2>4. Backoff(next) \in Nat
    <3> DEFINE power == 2^(next - 1)
    <3> HIDE DEF power
    <3>1. power \in Nat  BY <2>3 DEF power
    <3>2. Backoff(next) = IF power * Second < MaxBackoff THEN power * Second ELSE MaxBackoff
      BY DEF Backoff, Smaller, power
    <3>3. power * Second \in Nat  BY <3>1, Numbers
    <3> QED  BY <3>2, <3>3, Numbers
  <2>5. now + Backoff(next) \in Nat  BY <2>4 DEF TypeOK
  <2>6. AfterFailure(c) = [Idle EXCEPT !.at = "backoff", !.attempt = next,
                                       !.wake = now + Backoff(next)]
    BY <1>2 DEF AfterFailure
  <2> HIDE DEF next
  <2>7. AfterFailure(c) = [at |-> "backoff", attempt |-> next,
                           wake |-> now + Backoff(next), turn |-> 0]
    BY <2>6 DEF Idle
  <2>8. next \in 0..Retries  BY <2>1, Numbers
  <2> QED  BY <2>5, <2>7, <2>8 DEF Places, CallType
<1> QED  BY <1>1, <1>2

\* What a step does that only moves one caller, and not to sleep.
Quiet(c) == /\ UNCHANGED <<now, nextRequest, granted>>
            /\ \E r \in CallType :
                  r.at # "sleep" /\ SetCall(c, r)

LEMMA QuietSteps ==
    ASSUME TypeOK, NEW c \in Callers
    PROVE  /\ Start(c) => Quiet(c)
           /\ GiveUpSlot(c) => Quiet(c)
           /\ Succeed(c) => Quiet(c)
           /\ Fail(c) => Quiet(c)
           /\ Retry(c) => Quiet(c)
           /\ GiveUpRetry(c) => Quiet(c)
<1> USE Numbers
<1> DEFINE R == CallType
<1>1. Idle \in R /\ Idle.at # "sleep"  BY DEF Idle, Places, CallType
<1>2. [Idle EXCEPT !.at = "reserve", !.wake = now] \in R
  <2> SUFFICES ASSUME NEW r, r = [Idle EXCEPT !.at = "reserve", !.wake = now]
               PROVE  r \in R
    OBVIOUS
  <2>1. r = [at |-> "reserve", attempt |-> 0, wake |-> now, turn |-> 0]  BY DEF Idle
  <2>2. now \in Nat  BY DEF TypeOK
  <2> QED  BY <2>1, <2>2 DEF Places, CallType
<1>3. call[c] \in R /\ [call[c] EXCEPT !.at = "reserve", !.wake = now] \in R
  BY DEF Places, TypeOK, CallType
<1>4. /\ [Idle EXCEPT !.at = "reserve", !.wake = now].at # "sleep"
      /\ [call[c] EXCEPT !.at = "reserve", !.wake = now].at # "sleep"
  BY <1>3 DEF Idle, CallType
<1>5. Start(c) => Quiet(c)  BY <1>2, <1>4 DEF Start, Quiet
<1>6. GiveUpSlot(c) => Quiet(c)  BY NextAttempt DEF GiveUpSlot, Quiet
<1>7. Succeed(c) => Quiet(c)  BY <1>1 DEF Succeed, Quiet
<1>8. Fail(c) => Quiet(c)  BY NextAttempt DEF Fail, Quiet
<1>9. Retry(c) => Quiet(c)  BY <1>3, <1>4 DEF Retry, Quiet
<1>10. GiveUpRetry(c) => Quiet(c)  BY <1>1 DEF GiveUpRetry, Quiet
<1> QED  BY <1>5, <1>6, <1>7, <1>8, <1>9, <1>10

-----------------------------------------------------------------------------
(* Types                                                                   *)

LEMMA TypeInit == Init => TypeOK
<1> SUFFICES ASSUME Init PROVE TypeOK
  OBVIOUS
<1>1. call \in [Callers -> CallType]
  BY Numbers DEF Init, Idle, Places, CallType
<1>2. granted \in Seq(GrantType)  BY DEF Init
<1>3. now \in Nat /\ nextRequest \in Nat /\ cancelled \in BOOLEAN  BY DEF Init
<1>4. calls \in 0..MaxCalls  BY Numbers DEF Init
<1> QED  BY <1>1, <1>2, <1>3, <1>4 DEF TypeOK

LEMMA TypeNext == TypeOK /\ [Next]_vars => TypeOK'
<1> SUFFICES ASSUME TypeOK, [Next]_vars PROVE TypeOK'
  OBVIOUS
<1> USE Numbers
<1>1. ASSUME NEW c \in Callers, Quiet(c) PROVE call' \in [Callers -> CallType]
  BY <1>1 DEF Quiet, SetCall, TypeOK
<1>2. ASSUME NEW c \in Callers, Start(c) PROVE TypeOK'
  BY <1>1, <1>2, QuietSteps DEF Start, TypeOK
<1>3. ASSUME NEW c \in Callers, Reserve(c) PROVE TypeOK'
  <2> DEFINE slot == IF Interval = 0 THEN now ELSE Slot
  <2>1. slot \in Nat  BY DEF Slot, Later, TypeOK
  <2>2. /\ granted' = Append(granted, [slot |-> slot, sent |-> None])
        /\ call' = [call EXCEPT ![c] = [call[c] EXCEPT !.at = "sleep", !.wake = slot,
                                                       !.turn = Len(granted) + 1]]
        /\ nextRequest' = IF Interval = 0 THEN nextRequest ELSE slot + Interval
        /\ UNCHANGED <<now, cancelled, calls>>
    BY <1>3 DEF Reserve, SetCall
  <2> HIDE DEF slot
  <2>3. granted' \in Seq(GrantType)
    <3>1. [slot |-> slot, sent |-> None] \in GrantType  BY <2>1 DEF GrantType
    <3>2. granted \in Seq(GrantType)  BY DEF TypeOK
    <3> QED  BY <2>2, <3>1, <3>2
  <2>4. Len(granted) + 1 \in Nat  BY DEF TypeOK
  <2>5. call' \in [Callers -> CallType]
    BY <2>1, <2>2, <2>4 DEF TypeOK, Places, CallType
  <2> QED  BY <2>1, <2>2, <2>3, <2>5 DEF TypeOK
<1>4. ASSUME NEW c \in Callers, Send(c) PROVE TypeOK'
  <2>1. granted' = [granted EXCEPT ![call[c].turn].sent = now]  BY <1>4 DEF Send
  <2>2. granted' \in Seq(GrantType)
    <3>1. granted \in Seq(GrantType) /\ now \in Nat  BY DEF TypeOK
    <3>2. Len(granted) \in Nat /\ granted \in [1 .. Len(granted) -> GrantType]
      BY <3>1
    <3>3. granted' \in [1 .. Len(granted) -> GrantType]
      BY <2>1, <3>1, <3>2 DEF GrantType
    <3> QED  BY <3>2, <3>3, SeqDef
  <2> QED  BY <1>4, <2>2 DEF Send, SetCall, TypeOK, Places, CallType
<1>5. ASSUME NEW c \in Callers,
             GiveUpSlot(c) \/ Succeed(c) \/ Fail(c) \/ Retry(c) \/ GiveUpRetry(c)
      PROVE  TypeOK'
  BY <1>1, <1>5, QuietSteps
     DEF GiveUpSlot, Succeed, Fail, Retry, GiveUpRetry, TypeOK
<1>6. ASSUME Cancel PROVE TypeOK'  BY <1>6 DEF Cancel, TypeOK
<1>7. ASSUME Tick PROVE TypeOK'  BY <1>7 DEF Tick, TypeOK
<1>8. ASSUME UNCHANGED vars PROVE TypeOK'  BY <1>8 DEF vars, TypeOK
<1> QED  BY <1>2, <1>3, <1>4, <1>5, <1>6, <1>7, <1>8 DEF Next, Step

\* The variables of the gate keep their types, for any callers, rate and retries
\* (ctlog/client.go:75-205).
THEOREM GateTypes == Spec => []TypeOK
BY TypeInit, TypeNext, PTL DEF Spec

-----------------------------------------------------------------------------
(* The rate                                                                *)

LEMMA SlotInit == Init => SlotInv
BY DEF Init, SlotInv, SlotsBehindHorizon, SlotsApart, SleepersOwnSlots, SentInTime,
       At, Idle

\* A step that leaves the slots alone, moves nobody to sleep and lets no time pass.
LEMMA QuietKeepsSlots ==
    ASSUME TypeOK, SlotInv, NEW c \in Callers, Quiet(c)
    PROVE  SlotInv'
<1>1. PICK r \in CallType : r.at # "sleep" /\ call' = [call EXCEPT ![c] = r]
  BY DEF Quiet, SetCall
<1>2. UNCHANGED <<now, nextRequest, granted>>  BY DEF Quiet
<1>3. SlotsBehindHorizon' /\ SlotsApart' /\ SentInTime'
  BY <1>2 DEF SlotInv, SlotsBehindHorizon, SlotsApart, SentInTime, Horizon
<1>4. ASSUME NEW d \in Callers, At(d, "sleep")' PROVE call'[d] = call[d]
  BY <1>1, <1>4 DEF TypeOK, At
<1>5. SleepersOwnSlots'  BY <1>2, <1>4 DEF SlotInv, SleepersOwnSlots, At
<1> QED  BY <1>3, <1>5 DEF SlotInv

\* What Reserve does, in both cases: the new slot lies beyond the horizon and moves it
\* one interval past itself.
LEMMA Reserved ==
    ASSUME TypeOK, NEW c \in Callers, Reserve(c)
    PROVE  \E slot \in Nat :
              /\ Horizon <= slot /\ now <= slot
              /\ Horizon' = slot + Interval
              /\ granted' = Append(granted, [slot |-> slot, sent |-> None])
              /\ call' = [call EXCEPT ![c] = [call[c] EXCEPT !.at = "sleep", !.wake = slot,
                                                             !.turn = Len(granted) + 1]]
              /\ Interval = 0 => nextRequest' = nextRequest
              /\ Interval # 0 => nextRequest' = slot + Interval
              /\ slot = now \/ slot = nextRequest
              /\ UNCHANGED <<now, cancelled>>
<1> DEFINE slot == IF Interval = 0 THEN now ELSE Slot
<1>1. now \in Nat /\ nextRequest \in Nat /\ Interval \in Nat  BY Numbers DEF TypeOK
<1>2. slot \in Nat /\ Horizon <= slot /\ now <= slot /\ (slot = now \/ slot = nextRequest)
  BY <1>1 DEF Slot, Later, Horizon
<1>3. /\ granted' = Append(granted, [slot |-> slot, sent |-> None])
      /\ call' = [call EXCEPT ![c] = [call[c] EXCEPT !.at = "sleep", !.wake = slot,
                                                     !.turn = Len(granted) + 1]]
      /\ nextRequest' = IF Interval = 0 THEN nextRequest ELSE slot + Interval
      /\ UNCHANGED <<now, cancelled>>
  BY DEF Reserve, SetCall
<1>4. Horizon' = slot + Interval  BY <1>1, <1>3 DEF Horizon
<1> HIDE DEF slot
<1> QED  BY <1>2, <1>3, <1>4

LEMMA ReserveKeepsSlots ==
    ASSUME TypeOK, SlotInv, NEW c \in Callers, Reserve(c)
    PROVE  SlotInv'
<1>1. PICK slot \in Nat :
         /\ Horizon <= slot /\ now <= slot
         /\ Horizon' = slot + Interval
         /\ granted' = Append(granted, [slot |-> slot, sent |-> None])
         /\ call' = [call EXCEPT ![c] = [call[c] EXCEPT !.at = "sleep", !.wake = slot,
                                                        !.turn = Len(granted) + 1]]
         /\ UNCHANGED now
  BY Reserved
<1> DEFINE L == Len(granted)
<1>2. /\ L \in Nat /\ DOMAIN granted = 1 .. L
      /\ DOMAIN granted' = 1 .. (L + 1) /\ Len(granted') = L + 1
      /\ \A m \in 1 .. L : granted'[m] = granted[m] /\ granted[m] \in GrantType
      /\ granted'[L + 1] = [slot |-> slot, sent |-> None]
  BY <1>1 DEF TypeOK
<1>3. Interval \in Nat /\ Slack \in Nat /\ now \in Nat /\ Horizon \in Nat
  BY Numbers DEF TypeOK, Horizon
<1> HIDE DEF L
<1>4. ASSUME NEW m \in 1 .. L
      PROVE  granted[m].slot + (L - m + 1) * Interval <= slot
  <2> DEFINE gap == (L - m + 1) * Interval
  <2>1. gap \in Nat  BY <1>2, <1>3
  <2>2. granted[m].slot \in Nat  BY <1>2 DEF GrantType
  <2>3. granted[m].slot + gap <= Horizon
    BY <1>2 DEF SlotInv, SlotsBehindHorizon, L
  <2> HIDE DEF gap
  <2>4. granted[m].slot + gap <= slot  BY <1>1, <1>3, <2>1, <2>2, <2>3
  <2> QED  BY <2>4 DEF gap
<1>5. SlotsBehindHorizon'
  <2> SUFFICES ASSUME NEW m \in 1 .. (L + 1)
               PROVE  granted'[m].slot + (L + 1 - m + 1) * Interval <= slot + Interval
    BY <1>1, <1>2 DEF SlotsBehindHorizon
  <2>1. CASE m = L + 1
    BY <1>2, <1>3, <2>1
  <2>2. CASE m \in 1 .. L
    <3> DEFINE gap == (L - m + 1) * Interval
    <3>1. (L + 1 - m + 1) * Interval = gap + Interval
      <4>1. L - m + 1 \in Int /\ L + 1 - m + 1 = (L - m + 1) + 1  BY <1>2, <2>2
      <4> QED  BY <1>3, <4>1, OneMore
    <3>2. gap \in Nat  BY <1>2, <1>3, <2>2
    <3>3. granted'[m].slot \in Nat /\ granted'[m].slot + gap <= slot
      BY <1>2, <1>4, <2>2 DEF GrantType
    <3> HIDE DEF gap
    <3> QED  BY <1>3, <3>1, <3>2, <3>3
  <2> QED  BY <1>2, <2>1, <2>2
<1>6. SlotsApart'
  <2> SUFFICES ASSUME NEW m \in 1 .. (L + 1), NEW n \in 1 .. (L + 1), m < n
               PROVE  granted'[m].slot + (n - m) * Interval <= granted'[n].slot
    BY <1>2 DEF SlotsApart
  <2>1. m \in 1 .. L  BY <1>2
  <2>2. CASE n = L + 1
    <3>1. n - m = L - m + 1  BY <1>2, <2>2
    <3> QED  BY <1>2, <1>4, <2>1, <2>2, <3>1
  <2>3. CASE n \in 1 .. L
    BY <1>2, <2>1, <2>3 DEF SlotInv, SlotsApart
  <2> QED  BY <1>2, <2>2, <2>3
<1>7. SleepersOwnSlots'
  <2> SUFFICES ASSUME NEW d \in Callers, At(d, "sleep")'
               PROVE  /\ call'[d].turn \in 1 .. (L + 1)
                      /\ call'[d].wake = granted'[call'[d].turn].slot
                      /\ now <= call'[d].wake + Slack
    BY <1>1, <1>2 DEF SleepersOwnSlots
  <2>1. CASE d = c
    <3>1. call'[d].turn = L + 1 /\ call'[d].wake = slot
      BY <1>1, <2>1 DEF TypeOK, CallType, L
    <3> QED  BY <1>1, <1>2, <1>3, <3>1
  <2>2. CASE d # c
    <3>1. call'[d] = call[d]  BY <1>1, <2>2 DEF TypeOK
    <3>2. At(d, "sleep")  BY <3>1 DEF At
    <3> QED  BY <1>2, <3>1, <3>2 DEF SlotInv, SleepersOwnSlots
  <2> QED  BY <2>1, <2>2
<1>8. SentInTime'
  <2> SUFFICES ASSUME NEW m \in 1 .. (L + 1), granted'[m].sent # None
               PROVE  /\ granted'[m].slot <= granted'[m].sent
                      /\ granted'[m].sent <= granted'[m].slot + Slack
    BY <1>2 DEF SentInTime
  <2>1. m \in 1 .. L  BY <1>2
  <2> QED  BY <1>2, <2>1 DEF SlotInv, SentInTime
<1> QED  BY <1>5, <1>6, <1>7, <1>8 DEF SlotInv

LEMMA SendKeepsSlots ==
    ASSUME TypeOK, SlotInv, NEW c \in Callers, Send(c)
    PROVE  SlotInv'
<1> DEFINE turn == call[c].turn
<1>1. /\ granted' = [granted EXCEPT ![turn].sent = now]
      /\ call' = [call EXCEPT ![c] = [call[c] EXCEPT !.at = "flight", !.wake = now]]
      /\ call[c].wake <= now
      /\ UNCHANGED <<now, nextRequest>>
  BY DEF Send, SetCall, Due, TypeOK, CallType
<1>2. /\ turn \in DOMAIN granted
      /\ granted[turn].slot <= now /\ now <= granted[turn].slot + Slack
  BY <1>1 DEF Send, SlotInv, SleepersOwnSlots
<1>3. /\ DOMAIN granted' = DOMAIN granted /\ Len(granted') = Len(granted)
      /\ \A m \in DOMAIN granted : granted'[m].slot = granted[m].slot
      /\ \A m \in DOMAIN granted \ {turn} : granted'[m].sent = granted[m].sent
      /\ granted'[turn].sent = now
  <2>1. granted \in Seq(GrantType) /\ granted' \in Seq(GrantType)
    BY TypeNext DEF TypeOK, Next, Step
  <2> QED  BY <1>1, <1>2, <2>1 DEF GrantType
<1> HIDE DEF turn
<1>4. SlotsBehindHorizon' /\ SlotsApart'
  BY <1>1, <1>3 DEF SlotInv, SlotsBehindHorizon, SlotsApart, Horizon
<1>5. SentInTime'
  <2> SUFFICES ASSUME NEW m \in DOMAIN granted, granted'[m].sent # None
               PROVE  /\ granted'[m].slot <= granted'[m].sent
                      /\ granted'[m].sent <= granted'[m].slot + Slack
    BY <1>3 DEF SentInTime
  <2>1. CASE m = turn  BY <1>2, <1>3, <2>1
  <2>2. CASE m # turn  BY <1>3, <2>2 DEF SlotInv, SentInTime
  <2> QED  BY <2>1, <2>2
<1>6. SleepersOwnSlots'
  <2> SUFFICES ASSUME NEW d \in Callers, At(d, "sleep")'
               PROVE  /\ call'[d].turn \in DOMAIN granted
                      /\ call'[d].wake = granted'[call'[d].turn].slot
                      /\ now <= call'[d].wake + Slack
    BY <1>1, <1>3 DEF SleepersOwnSlots
  <2>1. call'[d] = call[d] /\ At(d, "sleep")  BY <1>1 DEF TypeOK, CallType, At
  <2> QED  BY <1>3, <2>1 DEF SlotInv, SleepersOwnSlots
<1> QED  BY <1>4, <1>5, <1>6 DEF SlotInv

\* Time does not pass a sleeper that is due by more than Slack.
LEMMA TickKeepsSlots ==
    ASSUME TypeOK, SlotInv, Tick
    PROVE  SlotInv'
<1>1. /\ now \in Nat /\ now' = now + 1 /\ UNCHANGED <<nextRequest, granted, call>>
      /\ Interval \in Nat /\ Slack \in Nat
  BY Numbers DEF Tick, TypeOK
<1>2. SlotsBehindHorizon'
  <2> SUFFICES ASSUME NEW m \in DOMAIN granted
               PROVE  granted[m].slot + (Len(granted) - m + 1) * Interval <= Horizon'
    BY <1>1 DEF SlotsBehindHorizon
  <2> DEFINE gap == (Len(granted) - m + 1) * Interval
  <2>1. granted[m].slot \in Nat /\ gap \in Nat
    <3>1. /\ granted[m] \in GrantType
          /\ Len(granted) \in Nat /\ m \in 1 .. Len(granted)
      BY DEF TypeOK
    <3>2. Len(granted) - m + 1 \in Nat  BY <3>1
    <3> QED  BY <1>1, <3>1, <3>2 DEF GrantType
  <2>2. granted[m].slot + gap <= Horizon  BY DEF SlotInv, SlotsBehindHorizon
  <2> HIDE DEF gap
  <2>3. Horizon \in Nat /\ Horizon' \in Nat /\ Horizon <= Horizon'
    BY <1>1 DEF Horizon, TypeOK
  <2>4. granted[m].slot + gap <= Horizon'  BY <2>1, <2>2, <2>3
  <2> QED  BY <2>4 DEF gap
<1>3. SlotsApart' /\ SentInTime'  BY <1>1 DEF SlotInv, SlotsApart, SentInTime
<1>4. SleepersOwnSlots'
  <2> SUFFICES ASSUME NEW c \in Callers, At(c, "sleep")
               PROVE  now + 1 <= call[c].wake + Slack
    BY <1>1 DEF SlotInv, SleepersOwnSlots, At
  <2>1. now < Deadline(c)  BY DEF Tick, At
  <2>2. Deadline(c) = call[c].wake + Slack  BY DEF Deadline, At
  <2>3. call[c].wake \in Nat  BY DEF TypeOK, CallType
  <2> QED  BY <1>1, <2>1, <2>2, <2>3
<1> QED  BY <1>2, <1>3, <1>4 DEF SlotInv

LEMMA SlotNext == TypeOK /\ SlotInv /\ [Next]_vars => SlotInv'
<1> SUFFICES ASSUME TypeOK, SlotInv, [Next]_vars PROVE SlotInv'
  OBVIOUS
<1>1. ASSUME NEW c \in Callers, Start(c) PROVE SlotInv'
  BY <1>1, QuietSteps, QuietKeepsSlots
<1>2. ASSUME NEW c \in Callers, Step(c) PROVE SlotInv'
  BY <1>2, QuietSteps, QuietKeepsSlots, ReserveKeepsSlots, SendKeepsSlots DEF Step
<1>3. ASSUME UNCHANGED <<now, nextRequest, call, granted>> PROVE SlotInv'
  BY <1>3 DEF SlotInv, SlotsBehindHorizon, SlotsApart, SleepersOwnSlots, SentInTime,
              Horizon, At
<1> QED  BY <1>1, <1>2, <1>3, TickKeepsSlots DEF Next, Cancel, vars

\* Slots are an interval apart and requests leave no earlier than their slots and at most
\* Slack later: together the rate (waitRequestSlot, ctlog/client.go:75-103).
LEMMA SlotsKeepRate == TypeOK /\ SlotInv => RateKept
<1> SUFFICES ASSUME TypeOK, SlotInv, NEW m \in DOMAIN granted, NEW n \in DOMAIN granted,
                    m < n, granted[m].sent # None, granted[n].sent # None
             PROVE  (n - m) * Interval <= granted[n].sent - granted[m].sent + Slack
  BY DEF RateKept
<1> DEFINE gap == (n - m) * Interval
<1>1. /\ Slack \in Nat /\ gap \in Int
      /\ granted[m].slot \in Nat /\ granted[m].sent \in Nat
      /\ granted[n].slot \in Nat /\ granted[n].sent \in Nat
  <2>1. granted[m] \in GrantType /\ granted[n] \in GrantType  BY DEF TypeOK
  <2>2. n - m \in Int  BY DEF TypeOK
  <2>3. gap \in Int  BY <2>2, Numbers
  <2> QED  BY <2>1, <2>3, Numbers DEF GrantType
<1>2. granted[m].slot + gap <= granted[n].slot  BY DEF SlotInv, SlotsApart
<1>3. /\ granted[n].slot <= granted[n].sent
      /\ granted[m].sent <= granted[m].slot + Slack
  BY DEF SlotInv, SentInTime
<1> HIDE DEF gap
<1>4. gap <= granted[n].sent - granted[m].sent + Slack  BY <1>1, <1>2, <1>3
<1> QED  BY <1>4 DEF gap

\* The limit of -rl holds for any number of callers, any rate, any retries and any
\* lateness of timers (ctlog/client.go:75-103).
THEOREM GateKeepsRate == Spec => []RateKept
<1>1. TypeOK /\ SlotInv /\ [Next]_vars => (TypeOK /\ SlotInv)'  BY TypeNext, SlotNext
<1> QED  BY TypeInit, SlotInit, <1>1, SlotsKeepRate, PTL DEF Spec

-----------------------------------------------------------------------------
(* No waiting time builds up                                               *)

LEMMA WaitingFinite ==
    ASSUME NEW t
    PROVE  IsFiniteSet(WaitingAt(t)) /\ Cardinality(WaitingAt(t)) \in Nat
<1>1. IsFiniteSet(Callers)  BY GateConstants
<1>2. WaitingAt(t) \subseteq Callers  BY DEF WaitingAt
<1> QED  BY <1>1, <1>2, FS_Subset, FS_CardinalityType

LEMMA DebtInit == Init => NoDebtAhead /\ Unlimited
<1> SUFFICES ASSUME Init PROVE NoDebtAhead /\ Unlimited
  OBVIOUS
<1>1. Unlimited  BY DEF Init, Unlimited
<1>2. ASSUME NEW t \in Nat
      PROVE  nextRequest <= t + Interval * (Cardinality(WaitingAt(t)) + 1)
  <2> DEFINE debt == Interval * (Cardinality(WaitingAt(t)) + 1)
  <2>1. debt \in Nat  BY Numbers, WaitingFinite
  <2>2. nextRequest = 0  BY DEF Init
  <2> HIDE DEF debt
  <2>3. nextRequest <= t + debt  BY <2>1, <2>2
  <2> QED  BY <2>3 DEF debt
<1> QED  BY <1>1, <1>2 DEF NoDebtAhead

\* Where no slot is reserved and, unless the context is cancelled, nobody whose slot is
\* still to come leaves, the debt stays.
LEMMA SameDebt ==
    ASSUME NoDebtAhead, Unlimited, UNCHANGED <<now, nextRequest>>,
           ~cancelled' => /\ ~cancelled
                          /\ \A t \in Nat : now <= t => WaitingAt(t)' = WaitingAt(t)
    PROVE  (NoDebtAhead /\ Unlimited)'
<1>1. Unlimited'  BY DEF Unlimited
<1>2. ASSUME ~cancelled', NEW t \in Nat, now <= t
      PROVE  nextRequest <= t + Interval * (Cardinality(WaitingAt(t)') + 1)
  BY <1>2 DEF NoDebtAhead
<1> QED  BY <1>1, <1>2 DEF NoDebtAhead

\* One caller moves that had no slot to wait for, and has none then.
LEMMA MoverDoesNotWait ==
    ASSUME TypeOK, NEW c \in Callers, NEW t \in Nat, now <= t,
           ~At(c, "sleep") \/ call[c].wake <= now,
           NEW r \in CallType, r.at # "sleep", call' = [call EXCEPT ![c] = r]
    PROVE  WaitingAt(t)' = WaitingAt(t)
<1>1. call'[c] = r /\ \A d \in Callers \ {c} : call'[d] = call[d]  BY DEF TypeOK
<1>2. c \notin WaitingAt(t)  BY DEF WaitingAt, TypeOK, CallType
<1>3. c \notin WaitingAt(t)'  BY <1>1 DEF WaitingAt, At
<1>4. \A d \in Callers \ {c} : d \in WaitingAt(t) <=> d \in WaitingAt(t)'
  BY <1>1 DEF WaitingAt, At
<1> QED  BY <1>2, <1>3, <1>4 DEF WaitingAt

LEMMA QuietKeepsDebt ==
    ASSUME TypeOK, NoDebtAhead, Unlimited, NEW c \in Callers,
           Quiet(c), UNCHANGED cancelled, cancelled \/ ~At(c, "sleep")
    PROVE  (NoDebtAhead /\ Unlimited)'
<1>1. PICK r \in CallType : r.at # "sleep" /\ call' = [call EXCEPT ![c] = r]
  BY DEF Quiet, SetCall
<1>2. ASSUME ~cancelled, NEW t \in Nat, now <= t PROVE WaitingAt(t)' = WaitingAt(t)
  BY <1>1, <1>2, MoverDoesNotWait
<1> QED  BY <1>2, SameDebt DEF Quiet

LEMMA SendKeepsDebt ==
    ASSUME TypeOK, NoDebtAhead, Unlimited, NEW c \in Callers, Send(c)
    PROVE  (NoDebtAhead /\ Unlimited)'
<1> DEFINE r == [call[c] EXCEPT !.at = "flight", !.wake = now]
<1>1. call' = [call EXCEPT ![c] = r] /\ call[c].wake <= now
  BY DEF Send, SetCall, Due, TypeOK, CallType
<1>2. r \in CallType /\ r.at # "sleep"  BY DEF TypeOK, CallType, Places
<1> HIDE DEF r
<1>3. ASSUME NEW t \in Nat, now <= t PROVE WaitingAt(t)' = WaitingAt(t)
  BY <1>1, <1>2, <1>3, MoverDoesNotWait
<1> QED  BY <1>3, SameDebt DEF Send

\* A slot taken at the end of the queue moves its end on by one interval, and whenever
\* that slot is still to come, there is one more caller waiting for one.
LEMMA ReserveKeepsDebt ==
    ASSUME TypeOK, NoDebtAhead, Unlimited, NEW c \in Callers, Reserve(c)
    PROVE  (NoDebtAhead /\ Unlimited)'
<1>1. PICK slot \in Nat :
         /\ call' = [call EXCEPT ![c] = [call[c] EXCEPT !.at = "sleep", !.wake = slot,
                                                        !.turn = Len(granted) + 1]]
         /\ Interval = 0 => nextRequest' = nextRequest
         /\ Interval # 0 => nextRequest' = slot + Interval
         /\ slot = now \/ slot = nextRequest
         /\ UNCHANGED <<now, cancelled>>
  BY Reserved
<1>2. Unlimited'  BY <1>1 DEF Unlimited
<1>3. ASSUME ~cancelled, NEW t \in Nat, now <= t
      PROVE  nextRequest' <= t + Interval * (Cardinality(WaitingAt(t)') + 1)
  <2>1. /\ call'[c].at = "sleep" /\ call'[c].wake = slot
        /\ \A d \in Callers \ {c} : call'[d] = call[d]
    BY <1>1 DEF TypeOK, CallType
  <2>2. c \notin WaitingAt(t)  BY DEF Reserve, WaitingAt, At
  <2>3. Interval \in Nat /\ now \in Nat /\ nextRequest \in Nat  BY Numbers DEF TypeOK
  <2>4. /\ IsFiniteSet(WaitingAt(t)) /\ Cardinality(WaitingAt(t)) \in Nat
    BY WaitingFinite
  <2>5. CASE slot > t
    <3>1. WaitingAt(t)' = WaitingAt(t) \cup {c}  BY <2>1, <2>5 DEF WaitingAt, At
    <3> DEFINE n == Cardinality(WaitingAt(t))
               debt == Interval * (n + 1)
    <3>2. Cardinality(WaitingAt(t)') = n + 1  BY <2>2, <2>4, <3>1, FS_AddElement
    <3>3. Interval * (n + 1 + 1) = debt + Interval /\ debt \in Nat
      <4>1. n \in Nat  BY <2>4
      <4> HIDE DEF n
      <4>2. n + 1 \in Int  BY <4>1
      <4>3. (n + 1 + 1) * Interval = (n + 1) * Interval + Interval
        BY <2>3, <4>2, OneMore
      <4> QED  BY <2>3, <4>1, <4>3
    <3>4. slot = nextRequest  BY <1>1, <1>3, <2>3, <2>5
    <3>5. nextRequest <= t + debt  BY <1>3 DEF NoDebtAhead
    <3> HIDE DEF debt, n
    <3>6. nextRequest' <= t + (debt + Interval)
      BY <1>1, <2>3, <3>3, <3>4, <3>5 DEF Unlimited
    <3> QED  BY <3>2, <3>3, <3>6
  <2>6. CASE slot <= t
    <3> DEFINE n == Cardinality(WaitingAt(t)')
    <3>1. WaitingAt(t)' = WaitingAt(t)
      <4>1. c \notin WaitingAt(t)'  BY <2>1, <2>6 DEF WaitingAt
      <4>2. \A d \in Callers \ {c} : d \in WaitingAt(t) <=> d \in WaitingAt(t)'
        BY <2>1 DEF WaitingAt, At
      <4> QED  BY <2>2, <4>1, <4>2 DEF WaitingAt
    <3>2. n \in Nat  BY <2>4, <3>1
    <3> HIDE DEF n
    <3>3. (n + 1) * Interval = n * Interval + Interval /\ n * Interval \in Nat
      BY <2>3, <3>2, OneMore
    <3>4. Interval * (n + 1) = (n + 1) * Interval  BY <2>3, <3>2
    <3>5. nextRequest' <= t + Interval
      BY <1>1, <2>3, <2>6 DEF Unlimited
    <3>6. nextRequest' \in Nat  BY <1>1, <2>3
    <3>7. nextRequest' <= t + Interval * (n + 1)
      <4> DEFINE k == n * Interval
      <4>1. k \in Nat /\ Interval * (n + 1) = k + Interval  BY <3>3, <3>4
      <4> HIDE DEF k
      <4> QED  BY <2>3, <3>5, <3>6, <4>1
    <3> QED  BY <3>7 DEF n
  <2> QED  BY <1>1, <2>3, <2>5, <2>6
<1> QED  BY <1>1, <1>2, <1>3 DEF NoDebtAhead

LEMMA DebtNext ==
    TypeOK /\ NoDebtAhead /\ Unlimited /\ [Next]_vars => (NoDebtAhead /\ Unlimited)'
<1> SUFFICES ASSUME TypeOK, NoDebtAhead, Unlimited, [Next]_vars
             PROVE  (NoDebtAhead /\ Unlimited)'
  OBVIOUS
<1>1. ASSUME NEW c \in Callers,
             Start(c) \/ Succeed(c) \/ Fail(c) \/ Retry(c) \/ GiveUpRetry(c)
      PROVE  (NoDebtAhead /\ Unlimited)'
  <2>1. Quiet(c)  BY <1>1, QuietSteps
  <2>2. UNCHANGED cancelled /\ ~At(c, "sleep")
    BY <1>1 DEF Start, Succeed, Fail, Retry, GiveUpRetry, At
  <2> QED  BY <2>1, <2>2, QuietKeepsDebt
<1>2. ASSUME NEW c \in Callers, GiveUpSlot(c) PROVE (NoDebtAhead /\ Unlimited)'
  BY <1>2, QuietSteps, QuietKeepsDebt DEF GiveUpSlot
<1>3. ASSUME Tick PROVE (NoDebtAhead /\ Unlimited)'
  <2>1. now \in Nat /\ now' = now + 1 /\ UNCHANGED <<nextRequest, cancelled, call>>
    BY <1>3 DEF Tick, TypeOK
  <2>2. Unlimited'  BY <2>1 DEF Unlimited
  <2>3. ASSUME ~cancelled, NEW t \in Nat, now' <= t
        PROVE  /\ WaitingAt(t)' = WaitingAt(t)
               /\ nextRequest <= t + Interval * (Cardinality(WaitingAt(t)) + 1)
    <3>1. now <= t  BY <2>1, <2>3
    <3> QED  BY <2>1, <2>3, <3>1 DEF NoDebtAhead, WaitingAt, At
  <2> QED  BY <2>1, <2>2, <2>3 DEF NoDebtAhead
<1>4. ASSUME Cancel PROVE (NoDebtAhead /\ Unlimited)'
  BY <1>4 DEF Cancel, NoDebtAhead, Unlimited
<1>5. ASSUME UNCHANGED vars PROVE (NoDebtAhead /\ Unlimited)'
  <2>1. UNCHANGED <<now, nextRequest, cancelled, call>>  BY <1>5 DEF vars
  <2>2. \A t \in Nat : WaitingAt(t)' = WaitingAt(t)  BY <2>1 DEF WaitingAt, At
  <2> QED  BY <2>1, <2>2, SameDebt
<1> QED  BY <1>1, <1>2, <1>3, <1>4, <1>5, ReserveKeepsDebt, SendKeepsDebt DEF Next, Step

LEMMA AheadIncludesNow == TypeOK /\ NoDebtAhead => NoDebt
<1> SUFFICES ASSUME TypeOK, NoDebtAhead, ~cancelled
             PROVE  nextRequest <= now + Interval * (Cardinality(Queued) + 1)
  BY DEF NoDebt
<1>1. now \in Nat  BY DEF TypeOK
<1>2. WaitingAt(now) = Queued
  <2>1. \A c \in Callers : call[c].wake \in Nat  BY DEF TypeOK, CallType
  <2>2. \A c \in Callers : call[c].wake > now <=> ~Due(c)  BY <1>1, <2>1 DEF Due
  <2> QED  BY <2>2 DEF WaitingAt, Queued
<1> QED  BY <1>1, <1>2 DEF NoDebtAhead

\* A caller never waits behind slots that nobody is going to use: until the context is
\* cancelled, what is reserved ahead of now belongs to callers that wait for it.
THEOREM GateHasNoDebt == Spec => []NoDebt
<1>1. TypeOK /\ NoDebtAhead /\ Unlimited /\ [Next]_vars
        => (TypeOK /\ NoDebtAhead /\ Unlimited)'
  BY TypeNext, DebtNext
<1> QED  BY TypeInit, DebtInit, <1>1, AheadIncludesNow, PTL DEF Spec
=============================================================================
