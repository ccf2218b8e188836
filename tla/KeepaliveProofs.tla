-------------------------- MODULE KeepaliveProofs ---------------------------
(***************************************************************************)
(* The safety properties of Keepalive for all lengths of the timers and of *)
(* the server's stalls.  The argument is a budget: from the moment a read  *)
(* begins, the pings the server may still ignore and the stall it may then *)
(* take never add up to more than Limit, which is below the stale timeout. *)
(***************************************************************************)
EXTENDS Keepalive, TLAPS

\* The ticks a live server can spend on pings it leaves alone.
Slack(m) == Ping * (MaxMissed - m)

\* While the reader waits for a packet a live server has not completed, the
\* time it has waited and the time the server has left stay below the limit.
Budget ==
    reader \in Reading /\ server = "alive" /\ whole = 0 =>
        IF due = NotDue
        THEN quiet + ping_in + Slack(missed) + MaxStall <= Limit
        ELSE quiet + due <= Limit

\* A packet's age is that of the current read, after one full read at most.
Age ==
    /\ reader = "header" => since = quiet
    /\ reader \in {"body", "rest"} => since <= Stale + quiet
    /\ reader = "callback" => since = 0 /\ quiet = 0

IInv == TypeOK /\ Budget /\ Age /\ KeptThroughStalls

-----------------------------------------------------------------------------
LEMMA SlackRange ==
    ASSUME NEW m \in 0..MaxMissed
    PROVE  /\ Slack(m) \in Nat
           /\ Slack(m) <= Ping * MaxMissed
           /\ Limit = Ping * MaxMissed + Ping + MaxStall
           /\ Limit \in Nat
<1> DEFINE d == MaxMissed - m
<1>1. Ping \in Nat /\ MaxMissed \in Nat /\ MaxStall \in Nat /\ d \in Nat /\ d <= MaxMissed
  BY KeepaliveAssumption
<1>2. Ping * d \in Nat /\ Ping * d <= Ping * MaxMissed
  BY <1>1
<1>3. Ping * (MaxMissed + 1) = Ping * MaxMissed + Ping /\ Ping * MaxMissed \in Nat
  BY <1>1
<1> QED
  BY <1>1, <1>2, <1>3 DEF Slack, Limit

\* A missed ping costs the time to the next one.
LEMMA SlackStep ==
    ASSUME NEW m \in 0..MaxMissed, m < MaxMissed
    PROVE  Slack(m) = Slack(m + 1) + Ping
<1> DEFINE d == MaxMissed - (m + 1)
<1>1. Ping \in Nat /\ d \in Nat /\ MaxMissed - m = d + 1
  BY KeepaliveAssumption
<1>2. Ping * (d + 1) = Ping * d + Ping
  BY <1>1
<1> QED
  BY <1>1, <1>2 DEF Slack

LEMMA LimitBelowStale == Limit < Stale /\ Stale \in Nat
BY KeepaliveAssumption

-----------------------------------------------------------------------------
LEMMA InitIInv == Init => IInv
<1> SUFFICES ASSUME Init PROVE IInv
  OBVIOUS
<1>1. TypeOK
  BY KeepaliveAssumption DEF Init, TypeOK, Reading, NotDue
<1>2. Budget
  <2>1. 0 \in 0..MaxMissed
    BY KeepaliveAssumption
  <2>2. Slack(0) <= Ping * MaxMissed /\ Limit = Ping * MaxMissed + Ping + MaxStall
        /\ Slack(0) \in Nat /\ Ping * MaxMissed \in Nat
    BY <2>1, SlackRange, KeepaliveAssumption
  <2> QED
    BY <2>2, KeepaliveAssumption DEF Init, Budget
<1>3. Age /\ KeptThroughStalls
  BY DEF Init, Age, KeptThroughStalls
<1> QED
  BY <1>1, <1>2, <1>3 DEF IInv

\* A read that begins now has the whole budget before it.
LEMMA FreshBudget ==
    ASSUME TypeOK
    PROVE  IF due = NotDue
           THEN ping_in + Slack(missed) + MaxStall <= Limit
           ELSE due <= Limit
<1>1. missed \in 0..MaxMissed /\ ping_in \in 0..Ping /\ due \in {NotDue} \union 0..MaxStall
  BY DEF TypeOK
<1>2. /\ Slack(missed) \in Nat
      /\ Slack(missed) <= Ping * MaxMissed
      /\ Limit = Ping * MaxMissed + Ping + MaxStall
  BY <1>1, SlackRange
<1>3. Ping \in Nat /\ MaxStall \in Nat /\ Ping * MaxMissed \in Nat
  BY KeepaliveAssumption
<1> QED
  BY <1>1, <1>2, <1>3 DEF NotDue

LEMMA StepIInv == IInv /\ [Next]_vars => IInv'
<1> SUFFICES ASSUME IInv, [Next]_vars PROVE IInv'
  OBVIOUS
<1> USE DEF IInv
<1>a. /\ Ping \in Nat \ {0} /\ Stale \in Nat \ {0} /\ MaxStall \in Nat
      /\ MaxMissed \in Nat /\ MaxBuffer \in Nat \ {0}
  BY KeepaliveAssumption
<1>b. missed \in 0..MaxMissed /\ Slack(missed) \in Nat /\ Limit \in Nat
  BY SlackRange DEF TypeOK
<1>1. CASE ReadHeader
  <2>1. TypeOK' /\ Age' /\ KeptThroughStalls'
    BY <1>1, <1>a DEF ReadHeader, TypeOK, Age, KeptThroughStalls, Reading, arrivals
  <2>2. Budget'
    BY <1>1, <1>a, <1>b, FreshBudget
    DEF ReadHeader, TypeOK, Budget, Reading, arrivals
  <2> QED
    BY <2>1, <2>2
<1>2. CASE ReadSome
  BY <1>2, <1>a DEF ReadSome, TypeOK, Budget, Age, KeptThroughStalls, Reading, arrivals
<1>3. CASE ReadRest
  <2>1. whole > 0
    BY <1>3 DEF ReadRest, Available
  <2>2. TypeOK' /\ Age' /\ KeptThroughStalls'
    BY <1>3, <1>a, <2>1 DEF ReadRest, TypeOK, Age, KeptThroughStalls, Reading
  <2>3. Budget'
    BY <1>3, <1>a, <1>b, FreshBudget DEF ReadRest, TypeOK, Budget, Reading
  <2> QED
    BY <2>2, <2>3
<1>4. CASE CallbackReturns
  <2>1. TypeOK' /\ Age' /\ KeptThroughStalls'
    BY <1>4, <1>a DEF CallbackReturns, TypeOK, Age, KeptThroughStalls, Reading, arrivals
  <2>2. Budget'
    BY <1>4, <1>a, <1>b, FreshBudget
    DEF CallbackReturns, TypeOK, Age, Budget, Reading, arrivals
  <2> QED
    BY <2>1, <2>2
<1>5. CASE GoesStale
  <2>1. TypeOK' /\ Age' /\ Budget'
    BY <1>5, <1>a DEF GoesStale, TypeOK, Age, Budget, Reading, arrivals
  <2>2. server # "alive"
    <3> SUFFICES ASSUME server = "alive" PROVE FALSE
      OBVIOUS
    <3>1. reader \in Reading /\ whole = 0 /\ quiet = Stale
      BY <1>5, <1>a DEF GoesStale, Available, TypeOK
    <3>2. Stale <= Limit
      BY <3>1, <1>a, <1>b DEF Budget, TypeOK, NotDue
    <3> QED
      BY <3>2, <1>a, <1>b, LimitBelowStale
  <2> QED
    BY <1>5, <2>1, <2>2 DEF GoesStale, KeptThroughStalls, arrivals
<1>6. CASE LinkLost
  BY <1>6, <1>a DEF LinkLost, TypeOK, Budget, Age, KeptThroughStalls, Reading, arrivals
<1>7. CASE SendPing
  <2>1. TypeOK' /\ Age' /\ KeptThroughStalls'
    BY <1>7, <1>a DEF SendPing, TypeOK, Age, KeptThroughStalls, Reading, NotDue
  <2>2. Budget'
    <3>1. CASE server # "alive"
      BY <1>7, <3>1 DEF SendPing, Budget
    <3>2. CASE missed' = 0 /\ due' = IF due = NotDue THEN MaxStall ELSE due
      BY <1>7, <1>a, <1>b, <3>2 DEF SendPing, TypeOK, Budget, NotDue
    <3>3. CASE missed < MaxMissed /\ missed' = missed + 1 /\ due' = due
      <4>1. Slack(missed) = Slack(missed + 1) + Ping /\ Slack(missed + 1) \in Nat
        BY <3>3, <1>a, <1>b, SlackStep, SlackRange
      <4> QED
        BY <1>7, <1>a, <1>b, <3>3, <4>1 DEF SendPing, TypeOK, Budget, NotDue
    <3> QED
      BY <1>7, <3>1, <3>2, <3>3 DEF SendPing
  <2> QED
    BY <2>1, <2>2
<1>8. CASE Tick
  <2>1. TypeOK' /\ Age' /\ KeptThroughStalls'
    BY <1>8, <1>a DEF Tick, TypeOK, Age, KeptThroughStalls, Reading, NotDue
  <2>2. Budget'
    BY <1>8, <1>a, <1>b DEF Tick, TypeOK, Budget, Reading, NotDue
  <2> QED
    BY <2>1, <2>2
<1>9. CASE Arrives
  BY <1>9, <1>a DEF Arrives, TypeOK, Budget, Age, KeptThroughStalls, Reading, NotDue
<1>10. CASE ServerFails
  BY <1>10, <1>a
  DEF ServerFails, TypeOK, Budget, Age, KeptThroughStalls, Reading, arrivals
<1>11. CASE UNCHANGED vars
  BY <1>11 DEF vars, arrivals, TypeOK, Budget, Age, KeptThroughStalls
<1> QED
  BY <1>1, <1>2, <1>3, <1>4, <1>5, <1>6, <1>7, <1>8, <1>9, <1>10, <1>11
  DEF Next, ReaderSteps

LEMMA InductiveInvariant == Spec => []IInv
BY InitIInv, StepIInv, PTL DEF Spec

-----------------------------------------------------------------------------
\* The clocks and buffers keep their types, whatever the timers' lengths.
THEOREM TypeCorrect == Spec => []TypeOK
BY InductiveInvariant, PTL DEF IInv

\* A live server is never declared dead: world_client.py's ping and stale
\* timers, for every pair of lengths that leaves room for the missed pings.
THEOREM LiveServerKept == Spec => []KeptThroughStalls
BY InductiveInvariant, PTL DEF IInv

\* The reader waits at most twice the stale timeout for one packet.
THEOREM SilenceIsBounded == Spec => []DetectionBound
<1>1. IInv => DetectionBound
  BY LimitBelowStale DEF IInv, TypeOK, Age, DetectionBound, Reading
<1> QED
  BY <1>1, InductiveInvariant, PTL
=============================================================================
