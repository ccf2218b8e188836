--------------------------- MODULE LifecycleProofs --------------------------
(***************************************************************************)
(* The safety properties of Lifecycle for every MaxExponent and MaxCount,  *)
(* from one inductive invariant.  The properties are about the flags of    *)
(* WowBridge.run, but each depends on where the loop is: what the flags    *)
(* mean between sessions (RetryInv), inside one (SessionInv) and which     *)
(* world client is held at each await (ClientInv).                         *)
(***************************************************************************)
EXTENDS Lifecycle, TLAPS

InSession == {"running", "ending", "lost"}

\* A client seen by the Discord handlers outside its own stretch of the loop
\* is paid for by a timeout that abandoned nothing.
ClientInv ==
    /\ sock = "open" => pc \in Dialled
    /\ world = "closed" => pc = "ending"
    /\ pc \in {"roster", "connected", "running"} => world = "open"
    /\ pc = "lost" => world = "none"
    /\ abandoned <= timeouts
    /\ world = "open" /\ pc \notin {"roster", "connected", "running"} =>
           /\ timeouts > 0
           /\ abandoned < timeouts \/ timeouts = MaxCount

\* Between sessions the last announcement is a function of the flags.
RetryInv ==
    pc \in Retrying \union {"connected"} =>
        /\ down_notified = ever_connected
        /\ told = IF fatal_notified THEN "rejected"
                  ELSE IF ever_connected THEN "lost" ELSE "nothing"

\* From the start of a session to its announced end the flags are clear.
SessionInv ==
    pc \in InSession =>
        /\ ever_connected /\ ~down_notified /\ ~fatal_notified
        /\ attempt = 0
        /\ told \in {"nothing", "reconnected"}

IInv ==
    /\ TypeOK
    /\ ClientInv
    /\ RetryInv
    /\ SessionInv
    /\ StopsOnlyForGoodReason

-----------------------------------------------------------------------------
\* What the shared helpers of Lifecycle can do to the state they touch.
LEMMA BumpedRange ==
    ASSUME NEW n \in 0..MaxCount
    PROVE  Bumped(n) \in 0..MaxCount /\ Bumped(n) >= n /\ Bumped(n) > 0
BY BoundsAssumption DEF Bumped

LEMMA BackOffRange ==
    ASSUME attempt \in 0..MaxExponent + 1, wait \in {Fatal, NoWait} \union 0..MaxExponent,
           BackOff
    PROVE  /\ attempt' \in 0..MaxExponent + 1
           /\ wait' \in {Fatal, NoWait} \union 0..MaxExponent
           /\ \/ pc' = "sleep" /\ wait' = attempt
              \/ pc' = "closing" /\ attempt' > MaxExponent
BY BoundsAssumption DEF BackOff, Fatal, NoWait

-----------------------------------------------------------------------------
LEMMA InitIInv == Init => IInv
<1> SUFFICES ASSUME Init PROVE IInv
  OBVIOUS
<1>1. TypeOK
  <2>1. 0 \in 0..MaxCount /\ 0 \in 0..MaxExponent + 1
    BY BoundsAssumption
  <2>2. pc \in Labels /\ told \in Statuses /\ seen \in Statuses /\ beat \in {0, 1}
    BY DEF Init, Labels, Retrying, Statuses
  <2> QED
    BY <2>1, <2>2 DEF Init, TypeOK
<1>2. ClientInv /\ SessionInv /\ StopsOnlyForGoodReason
  BY DEF Init, ClientInv, SessionInv, StopsOnlyForGoodReason, Dialled, InSession
<1>3. RetryInv
  BY DEF Init, RetryInv
<1> QED
  BY <1>1, <1>2, <1>3 DEF IInv

\* Every step of the loop and of its environment keeps the types.
LEMMA TypePreserved == TypeOK /\ [Next]_vars => TypeOK'
<1> SUFFICES ASSUME TypeOK, [Next]_vars
             PROVE  TypeOK'
  OBVIOUS
<1> USE DEF TypeOK, Labels, Retrying, Connecting, Dialled, sockets, flags, feed
<1>1. CASE LoopTop
  BY <1>1 DEF LoopTop
<1>2. CASE Authenticated
  BY <1>2 DEF Authenticated, Goto
<1>3. CASE WorldDialled
  BY <1>3 DEF WorldDialled, Goto
<1>4. CASE HandshakeDone
  BY <1>4 DEF HandshakeDone, Goto
<1>5. CASE CharactersListed
  BY <1>5 DEF CharactersListed, Goto
<1>6. CASE WorldEntered
  BY <1>6, BumpedRange DEF WorldEntered, Goto
<1>7. CASE RosterRequested
  BY <1>7 DEF RosterRequested, Goto
<1>8. CASE ConnectRejected
  BY <1>8 DEF ConnectRejected
<1>9. CASE ConnectFailed
  BY <1>9 DEF ConnectFailed
<1>10. CASE ConnectTimeout
  BY <1>10, BumpedRange DEF ConnectTimeout
<1>11. CASE SleepRejected
  BY <1>11 DEF SleepRejected, NotifyIf, Notify, Statuses, Fatal, NoWait, Goto
<1>12. CASE SleepFailed
  BY <1>12, BackOffRange DEF SleepFailed, NotifyIf, Notify, Statuses
<1>13. CASE StartSession
  <2>1. told' \in Statuses /\ seen' \in Statuses /\ beat' \in {0, 1}
    BY <1>13 DEF StartSession, NotifyIf, Notify, Statuses
  <2>2. attempt' \in 0..MaxExponent + 1
    BY <1>13, BoundsAssumption DEF StartSession
  <2> QED
    BY <1>13, <2>1, <2>2 DEF StartSession, Goto
<1>14. CASE SessionEnds
  BY <1>14 DEF SessionEnds, Goto
<1>15. CASE WorldReleased
  BY <1>15 DEF WorldReleased, Goto
<1>16. CASE SleepLost
  <2>1. told' \in Statuses /\ seen' \in Statuses /\ beat' \in {0, 1}
    BY <1>16 DEF SleepLost, NotifyIf, Notify, Statuses
  <2>2. CASE discord_closed
    BY <1>16, <2>1, <2>2 DEF SleepLost
  <2>3. CASE ~discord_closed
    BY <1>16, <2>1, <2>3, BackOffRange DEF SleepLost
  <2> QED
    BY <2>2, <2>3
<1>17. CASE Wake
  BY <1>17 DEF Wake, Fatal, NoWait, Goto
<1>18. CASE Shutdown
  BY <1>18 DEF Shutdown, Goto
<1>19. CASE DiscordCloses
  BY <1>19 DEF DiscordCloses
<1>20. CASE UNCHANGED vars
  BY <1>20 DEF vars
<1> QED
  BY <1>1, <1>2, <1>3, <1>4, <1>5, <1>6, <1>7, <1>8, <1>9, <1>10, <1>11, <1>12, <1>13, <1>14, <1>15, <1>16, <1>17, <1>18, <1>19, <1>20 DEF Next, LoopSteps, Answers

-----------------------------------------------------------------------------
\* Each part of the invariant is kept by every step; ClientInv needs the caps
\* of the two counters, the others only the place of the loop.
LEMMA IInvPreserved == IInv /\ [Next]_vars => IInv'
<1> SUFFICES ASSUME IInv, [Next]_vars
             PROVE  IInv'
  OBVIOUS
<1>type. TypeOK'
  BY TypePreserved DEF IInv
<1> USE DEF IInv, Retrying, Connecting, Dialled, InSession, sockets, flags, feed
<1>1. CASE LoopTop
  <2>1. ClientInv'
    BY <1>1, <1>type DEF LoopTop, ClientInv, TypeOK
  <2>2. RetryInv'
    BY <1>1, <1>type DEF LoopTop, RetryInv, SessionInv, TypeOK
  <2>3. SessionInv' /\ StopsOnlyForGoodReason'
    BY <1>1, <1>type DEF LoopTop, RetryInv, SessionInv, StopsOnlyForGoodReason, TypeOK
  <2> QED
    BY <1>type, <2>1, <2>2, <2>3
<1>2. CASE Authenticated
  <2>1. ClientInv'
    BY <1>2, <1>type DEF Authenticated, ClientInv, TypeOK, Goto
  <2>2. RetryInv'
    BY <1>2, <1>type DEF Authenticated, RetryInv, SessionInv, TypeOK, Goto
  <2>3. SessionInv' /\ StopsOnlyForGoodReason'
    BY <1>2, <1>type DEF Authenticated, RetryInv, SessionInv, StopsOnlyForGoodReason, TypeOK, Goto
  <2> QED
    BY <1>type, <2>1, <2>2, <2>3
<1>3. CASE WorldDialled
  <2>1. ClientInv'
    BY <1>3, <1>type DEF WorldDialled, ClientInv, TypeOK, Goto
  <2>2. RetryInv'
    BY <1>3, <1>type DEF WorldDialled, RetryInv, SessionInv, TypeOK, Goto
  <2>3. SessionInv' /\ StopsOnlyForGoodReason'
    BY <1>3, <1>type DEF WorldDialled, RetryInv, SessionInv, StopsOnlyForGoodReason, TypeOK, Goto
  <2> QED
    BY <1>type, <2>1, <2>2, <2>3
<1>4. CASE HandshakeDone
  <2>1. ClientInv'
    BY <1>4, <1>type DEF HandshakeDone, ClientInv, TypeOK, Goto
  <2>2. RetryInv'
    BY <1>4, <1>type DEF HandshakeDone, RetryInv, SessionInv, TypeOK, Goto
  <2>3. SessionInv' /\ StopsOnlyForGoodReason'
    BY <1>4, <1>type DEF HandshakeDone, RetryInv, SessionInv, StopsOnlyForGoodReason, TypeOK, Goto
  <2> QED
    BY <1>type, <2>1, <2>2, <2>3
<1>5. CASE CharactersListed
  <2>1. ClientInv'
    BY <1>5, <1>type DEF CharactersListed, ClientInv, TypeOK, Goto
  <2>2. RetryInv'
    BY <1>5, <1>type DEF CharactersListed, RetryInv, SessionInv, TypeOK, Goto
  <2>3. SessionInv' /\ StopsOnlyForGoodReason'
    BY <1>5, <1>type DEF CharactersListed, RetryInv, SessionInv, StopsOnlyForGoodReason, TypeOK, Goto
  <2> QED
    BY <1>type, <2>1, <2>2, <2>3
<1>6. CASE WorldEntered
  <2>1. ClientInv'
    <3>1. abandoned' <= timeouts
      BY <1>6, BoundsAssumption
         DEF WorldEntered, Goto, Bumped, ClientInv, TypeOK
    <3> QED
      BY <1>6, <3>1 DEF WorldEntered, ClientInv, Goto
  <2>2. RetryInv'
    BY <1>6, <1>type DEF WorldEntered, RetryInv, SessionInv, TypeOK, Goto
  <2>3. SessionInv' /\ StopsOnlyForGoodReason'
    BY <1>6, <1>type DEF WorldEntered, RetryInv, SessionInv, StopsOnlyForGoodReason, TypeOK, Goto
  <2> QED
    BY <1>type, <2>1, <2>2, <2>3
<1>7. CASE RosterRequested
  <2>1. ClientInv'
    BY <1>7, <1>type DEF RosterRequested, ClientInv, TypeOK, Goto
  <2>2. RetryInv'
    BY <1>7, <1>type DEF RosterRequested, RetryInv, SessionInv, TypeOK, Goto
  <2>3. SessionInv' /\ StopsOnlyForGoodReason'
    BY <1>7, <1>type DEF RosterRequested, RetryInv, SessionInv, StopsOnlyForGoodReason, TypeOK, Goto
  <2> QED
    BY <1>type, <2>1, <2>2, <2>3
<1>8. CASE ConnectRejected
  <2>1. ClientInv'
    BY <1>8, <1>type DEF ConnectRejected, ClientInv, TypeOK
  <2>2. RetryInv'
    BY <1>8, <1>type DEF ConnectRejected, RetryInv, SessionInv, TypeOK
  <2>3. SessionInv' /\ StopsOnlyForGoodReason'
    BY <1>8, <1>type DEF ConnectRejected, RetryInv, SessionInv, StopsOnlyForGoodReason, TypeOK
  <2> QED
    BY <1>type, <2>1, <2>2, <2>3
<1>9. CASE ConnectFailed
  <2>1. ClientInv'
    BY <1>9, <1>type DEF ConnectFailed, ClientInv, TypeOK
  <2>2. RetryInv'
    BY <1>9, <1>type DEF ConnectFailed, RetryInv, SessionInv, TypeOK
  <2>3. SessionInv' /\ StopsOnlyForGoodReason'
    BY <1>9, <1>type DEF ConnectFailed, RetryInv, SessionInv, StopsOnlyForGoodReason, TypeOK
  <2> QED
    BY <1>type, <2>1, <2>2, <2>3
<1>10. CASE ConnectTimeout
  <2>1. ClientInv'
    <3>1. /\ abandoned \in Int /\ timeouts \in Int /\ MaxCount \in Int
          /\ abandoned <= timeouts /\ timeouts <= MaxCount /\ timeouts >= 0
      BY BoundsAssumption DEF TypeOK, ClientInv
    <3>2. \/ timeouts' = timeouts + 1 /\ timeouts + 1 <= MaxCount
          \/ timeouts' = timeouts /\ timeouts = MaxCount
      BY <1>10, <3>1 DEF ConnectTimeout, Bumped
    <3>3. \/ abandoned' = abandoned
          \/ sock = "open" /\ abandoned' = abandoned + 1 /\ abandoned' <= MaxCount
      BY <1>10, <3>1 DEF ConnectTimeout, Bumped
    <3>4. abandoned' <= timeouts' /\ timeouts' > 0
      BY <3>1, <3>2, <3>3, BoundsAssumption
    <3>5. world = "open" => abandoned' < timeouts' \/ timeouts' = MaxCount
      BY <3>1, <3>2, <3>3 DEF ClientInv
    <3> QED
      BY <1>10, <3>4, <3>5 DEF ConnectTimeout, ClientInv
  <2>2. RetryInv'
    BY <1>10, <1>type DEF ConnectTimeout, RetryInv, SessionInv, TypeOK
  <2>3. SessionInv' /\ StopsOnlyForGoodReason'
    BY <1>10, <1>type DEF ConnectTimeout, RetryInv, SessionInv, StopsOnlyForGoodReason, TypeOK
  <2> QED
    BY <1>type, <2>1, <2>2, <2>3
<1>11. CASE SleepRejected
  <2>1. ClientInv'
    BY <1>11, <1>type DEF SleepRejected, ClientInv, TypeOK, Goto
  <2>2. RetryInv'
    BY <1>11, <1>type DEF SleepRejected, RetryInv, SessionInv, TypeOK, NotifyIf, Notify, Goto
  <2>3. SessionInv' /\ StopsOnlyForGoodReason'
    BY <1>11, <1>type DEF SleepRejected, RetryInv, SessionInv, StopsOnlyForGoodReason, TypeOK, NotifyIf, Notify, Goto
  <2> QED
    BY <1>type, <2>1, <2>2, <2>3
<1>12. CASE SleepFailed
  <2>1. ClientInv'
    BY <1>12, <1>type, BackOffRange DEF SleepFailed, ClientInv, TypeOK
  <2>2. RetryInv'
    BY <1>12, <1>type, BackOffRange DEF SleepFailed, RetryInv, SessionInv, TypeOK, NotifyIf, Notify
  <2>3. SessionInv' /\ StopsOnlyForGoodReason'
    BY <1>12, <1>type, BackOffRange DEF SleepFailed, RetryInv, SessionInv, StopsOnlyForGoodReason, TypeOK, NotifyIf, Notify
  <2> QED
    BY <1>type, <2>1, <2>2, <2>3
<1>13. CASE StartSession
  <2>1. ClientInv'
    BY <1>13, <1>type DEF StartSession, ClientInv, TypeOK, Goto
  <2>2. RetryInv'
    BY <1>13, <1>type DEF StartSession, RetryInv, SessionInv, TypeOK, NotifyIf, Notify, Goto
  <2>3. SessionInv' /\ StopsOnlyForGoodReason'
    BY <1>13, <1>type DEF StartSession, RetryInv, SessionInv, StopsOnlyForGoodReason, TypeOK, NotifyIf, Notify, Goto
  <2> QED
    BY <1>type, <2>1, <2>2, <2>3
<1>14. CASE SessionEnds
  <2>1. ClientInv'
    BY <1>14, <1>type DEF SessionEnds, ClientInv, TypeOK, Goto
  <2>2. RetryInv'
    BY <1>14, <1>type DEF SessionEnds, RetryInv, SessionInv, TypeOK, Goto
  <2>3. SessionInv' /\ StopsOnlyForGoodReason'
    BY <1>14, <1>type DEF SessionEnds, RetryInv, SessionInv, StopsOnlyForGoodReason, TypeOK, Goto
  <2> QED
    BY <1>type, <2>1, <2>2, <2>3
<1>15. CASE WorldReleased
  <2>1. ClientInv'
    BY <1>15, <1>type DEF WorldReleased, ClientInv, TypeOK, Goto
  <2>2. RetryInv'
    BY <1>15, <1>type DEF WorldReleased, RetryInv, SessionInv, TypeOK, Goto
  <2>3. SessionInv' /\ StopsOnlyForGoodReason'
    BY <1>15, <1>type DEF WorldReleased, RetryInv, SessionInv, StopsOnlyForGoodReason, TypeOK, Goto
  <2> QED
    BY <1>type, <2>1, <2>2, <2>3
<1>16. CASE SleepLost
  <2>1. ClientInv'
    BY <1>16, <1>type, BackOffRange DEF SleepLost, ClientInv, TypeOK
  <2>2. RetryInv'
    BY <1>16, <1>type, BackOffRange DEF SleepLost, RetryInv, SessionInv, TypeOK, NotifyIf, Notify
  <2>3. SessionInv' /\ StopsOnlyForGoodReason'
    BY <1>16, <1>type, BackOffRange DEF SleepLost, RetryInv, SessionInv, StopsOnlyForGoodReason, TypeOK, NotifyIf, Notify
  <2> QED
    BY <1>type, <2>1, <2>2, <2>3
<1>17. CASE Wake
  <2>1. ClientInv'
    BY <1>17, <1>type DEF Wake, ClientInv, TypeOK, Goto
  <2>2. RetryInv'
    BY <1>17, <1>type DEF Wake, RetryInv, SessionInv, TypeOK, Goto
  <2>3. SessionInv' /\ StopsOnlyForGoodReason'
    BY <1>17, <1>type DEF Wake, RetryInv, SessionInv, StopsOnlyForGoodReason, TypeOK, Goto
  <2> QED
    BY <1>type, <2>1, <2>2, <2>3
<1>18. CASE Shutdown
  <2>1. ClientInv'
    BY <1>18, <1>type DEF Shutdown, ClientInv, TypeOK, Goto
  <2>2. RetryInv'
    BY <1>18, <1>type DEF Shutdown, RetryInv, SessionInv, TypeOK, Goto
  <2>3. SessionInv' /\ StopsOnlyForGoodReason'
    BY <1>18, <1>type DEF Shutdown, RetryInv, SessionInv, StopsOnlyForGoodReason, TypeOK, Goto
  <2> QED
    BY <1>type, <2>1, <2>2, <2>3
<1>19. CASE DiscordCloses
  <2>1. ClientInv'
    BY <1>19, <1>type DEF DiscordCloses, ClientInv, TypeOK
  <2>2. RetryInv'
    BY <1>19, <1>type DEF DiscordCloses, RetryInv, SessionInv, TypeOK
  <2>3. SessionInv' /\ StopsOnlyForGoodReason'
    BY <1>19, <1>type DEF DiscordCloses, RetryInv, SessionInv, StopsOnlyForGoodReason, TypeOK
  <2> QED
    BY <1>type, <2>1, <2>2, <2>3
<1>20. CASE UNCHANGED vars
  BY <1>20, <1>type DEF vars, ClientInv, RetryInv, SessionInv, StopsOnlyForGoodReason
<1> QED
  BY <1>1, <1>2, <1>3, <1>4, <1>5, <1>6, <1>7, <1>8, <1>9, <1>10, <1>11, <1>12, <1>13, <1>14, <1>15, <1>16, <1>17, <1>18, <1>19, <1>20 DEF Next, LoopSteps, Answers

-----------------------------------------------------------------------------
\* IInv holds in every state of every behaviour of the loop.
THEOREM Invariance == Spec => []IInv
  BY InitIInv, IInvPreserved, PTL DEF Spec

\* The counters, flags and labels of WowBridge.run keep their types; the
\* backoff exponent in particular stops at MaxExponent + 1.
THEOREM TypeCorrect == Spec => []TypeOK
<1>1. IInv => TypeOK
  BY DEF IInv
<1> QED
  BY <1>1, Invariance, PTL

\* A world socket dropped without close() is always a 60 s timeout's doing,
\* one socket at most for each timeout (bot.py:476-482, 531, 597-601).
THEOREM SocketsAreAccounted == Spec => []SocketsAccounted
<1>1. IInv => SocketsAccounted
  BY DEF IInv, ClientInv, SocketsAccounted
<1> QED
  BY <1>1, Invariance, PTL

\* Without a timeout the Discord handlers never find a world client outside a
\* session (bot.py:484, 599-601).
THEOREM StaleWorldNeedsTimeout == Spec => []StaleWorldOnlyAfterTimeout
<1>1. IInv => StaleWorldOnlyAfterTimeout
  BY DEF IInv, ClientInv, TypeOK, StaleWorldOnlyAfterTimeout
<1> QED
  BY <1>1, Invariance, PTL

\* Between sessions the outage is always flagged (bot.py:551, 607-611).
THEOREM OutageAlwaysFlagged == Spec => []OutageFlagged
<1>1. IInv => OutageFlagged
  BY DEF IInv, RetryInv, OutageFlagged
<1> QED
  BY <1>1, Invariance, PTL

\* The loop ends only for Discord or for the exponent (bot.py:523-618).
THEOREM StopsForGoodReason == Spec => []StopsOnlyForGoodReason
<1>1. IInv => StopsOnlyForGoodReason
  BY DEF IInv
<1> QED
  BY <1>1, Invariance, PTL

\* A dropped session is retried after the base delay (bot.py:567, 612).
THEOREM FirstRetryIsAtBase == Spec => FirstRetryAtBase
<1>1. IInv /\ [Next]_vars => [pc = "lost" /\ pc' = "sleep" => wait' = 0]_vars
  <2> SUFFICES ASSUME IInv, [Next]_vars, pc = "lost", pc' = "sleep"
               PROVE  wait' = 0
    OBVIOUS
  <2>1. attempt = 0
    BY DEF IInv, SessionInv, InSession
  <2>2. SleepLost
    BY DEF Next, LoopSteps, Answers, vars, Goto, LoopTop, Authenticated,
           WorldDialled, HandshakeDone, CharactersListed, WorldEntered,
           RosterRequested, ConnectRejected, ConnectFailed, ConnectTimeout,
           SleepRejected, SleepFailed, StartSession, SessionEnds,
           WorldReleased, Wake, Shutdown, DiscordCloses, Connecting, Dialled
  <2> QED
    BY <2>1, <2>2 DEF SleepLost, BackOff
<1> QED
  BY <1>1, Invariance, PTL DEF Spec, FirstRetryAtBase

-----------------------------------------------------------------------------
\* The loop implements the abstract feed: every announcement it makes is one
\* StatusFeed allows in the state its flags stand for.
THEOREM ImplementsFeed == Spec => FollowsFeed
<1>1. Init => Feed!Init
  BY DEF Init, Feed!Init
<1>2. IInv /\ [Next]_vars => [Feed!Next]_(Feed!vars)
  <2> SUFFICES ASSUME IInv, [Next]_vars
               PROVE  Feed!Next \/ UNCHANGED Feed!vars
    OBVIOUS
  <2> USE DEF Feed!vars, flags, feed
  <2>1. CASE SleepRejected
    <3>1. CASE fatal_notified
      BY <2>1, <3>1 DEF SleepRejected, NotifyIf, Goto
    <3>2. CASE ~fatal_notified
      <4>1. told = IF ever_connected THEN "lost" ELSE "nothing"
        BY <2>1, <3>2 DEF IInv, RetryInv, Retrying, SleepRejected, Goto
      <4> QED
        BY <2>1, <3>2, <4>1
           DEF SleepRejected, NotifyIf, Notify, Goto, Feed!Next,
               Feed!AnnounceRejection, Feed!Announce
    <3> QED
      BY <3>1, <3>2
  <2>2. CASE SleepFailed
    <3>1. ~(ever_connected /\ ~down_notified)
      BY <2>2 DEF SleepFailed, IInv, RetryInv, Retrying
    <3> QED
      BY <2>2, <3>1 DEF SleepFailed, BackOff, NotifyIf
  <2>3. CASE StartSession
    <3>1. /\ down_notified = ever_connected
          /\ told = IF fatal_notified THEN "rejected"
                    ELSE IF ever_connected THEN "lost" ELSE "nothing"
      BY <2>3 DEF IInv, RetryInv, StartSession, Goto
    <3> QED
      BY <2>3, <3>1
         DEF IInv, TypeOK, StartSession, NotifyIf, Notify, Goto, Feed!Next,
             Feed!Connect, Feed!Announce
  <2>4. CASE SessionEnds
    <3>1. ever_connected
      BY <2>4 DEF IInv, SessionInv, InSession, SessionEnds, Goto
    <3> QED
      BY <2>4, <3>1 DEF SessionEnds, Goto, Feed!Next, Feed!Drop
  <2>5. CASE SleepLost
    <3>1. ever_connected /\ ~down_notified /\ told \in {"nothing", "reconnected"}
      BY <2>5 DEF IInv, SessionInv, InSession, SleepLost
    <3> QED
      BY <2>5, <3>1
         DEF SleepLost, BackOff, NotifyIf, Notify, Feed!Next, Feed!AnnounceLoss, Feed!Announce
  <2>6. CASE UNCHANGED vars
    BY <2>6 DEF vars
  <2> QED
    BY <2>1, <2>2, <2>3, <2>4, <2>5, <2>6
       DEF Next, LoopSteps, Answers, Goto, LoopTop, Authenticated,
           WorldDialled, HandshakeDone, CharactersListed, WorldEntered,
           RosterRequested, ConnectRejected, ConnectFailed, ConnectTimeout,
           WorldReleased, Wake, Shutdown, DiscordCloses, Connecting, Dialled
<1> QED
  BY <1>1, <1>2, Invariance, PTL DEF Spec, FollowsFeed, Feed!Spec
=============================================================================
