------------------------- MODULE DiscordRelayProofs -------------------------
(***************************************************************************)
(* The properties of DiscordRelay, for any messages, mappings and bounds.  *)
(* The argument: without a timeout a client is held exactly while the loop *)
(* is in a session, and the handlers that drain a client are gone before   *)
(* the loop leaves its sleep; so no handler ever meets a second client.    *)
(***************************************************************************)
EXTENDS DiscordRelay, SequenceTheorems, TLAPS

Handler == [route : SUBSET Targets, left : SUBSET Targets, client : Nat,
            steady : BOOLEAN]
Send == [n : Nat, target : Targets, client : Nat, writer : {"open", "closed"}]

Typed ==
    /\ handlers \in Seq(Handler)
    /\ sends \in Seq(Send)
    /\ client \in Nat

\* Where the loop is when it holds a client, and where it has none yet.
InWorld == {"roster", "connected", "running"}
Early == {"top", "auth", "dial", "handshake", "characters", "enter"}

Held ==
    /\ timeouts \in Nat
    /\ world \in {"none", "open", "closed"}
    /\ timeouts = 0 => /\ world = "open" <=> pc \in InWorld
                       /\ world = "closed" <=> pc = "ending"

\* What is still ahead of a handler is never the first mapping of its route.
Routed ==
    \A n \in 1..Len(handlers) :
        /\ handlers[n].left \subseteq handlers[n].route
        /\ handlers[n].left \cap Foremost(handlers[n].route) = {}

Received ==
    /\ \A i \in 1..Len(sends) : sends[i].n \in 1..Len(handlers)
    /\ \A i, j \in 1..Len(sends) :
           /\ i < j
           /\ sends[i].target \in Foremost(handlers[sends[i].n].route)
           /\ sends[j].target \in Foremost(handlers[sends[j].n].route)
           => sends[i].n < sends[j].n

\* How far a handler has got that has seen one open client.
Progress(n) ==
    /\ handlers[n].left # {} => world = "open" /\ handlers[n].client = client
    /\ \A i \in 1..Len(sends) :
           sends[i].n = n =>
               /\ sends[i].target \in handlers[n].route \ handlers[n].left
               /\ sends[i].writer = "open" /\ sends[i].client = handlers[n].client
               /\ \A t \in handlers[n].left : sends[i].target < t
    /\ \A t \in handlers[n].route \ handlers[n].left :
           \E i \in 1..Len(sends) : sends[i].n = n /\ sends[i].target = t
    /\ \A i, j \in 1..Len(sends) :
           i < j /\ sends[i].n = n /\ sends[j].n = n
               => sends[i].target < sends[j].target

Progressing == \A n \in 1..Len(handlers) : handlers[n].steady => Progress(n)

\* Without a timeout, the handlers under way are those of the last client.
OneClient ==
    timeouts = 0 =>
        /\ \A n \in Suspended : handlers[n].client = client
        /\ pc \in Early => Suspended = {}
        /\ pc \notin InWorld => Suspended = {} \/ client \in closed
        /\ world = "closed" => client \in closed
        /\ \A i \in 1..Len(sends) : sends[i].client = handlers[sends[i].n].client

IInv == Typed /\ Held /\ Routed /\ Received /\ Progressing /\ OneClient

-----------------------------------------------------------------------------
LEMMA InitIInv == Init => IInv
<1> SUFFICES ASSUME Init
             PROVE  IInv
  OBVIOUS
<1>1. /\ handlers = <<>> /\ sends = <<>> /\ client = 0
      /\ pc = "top" /\ world = "none" /\ timeouts = 0
  BY DEF Init, Loop!Init
<1>2. /\ handlers \in Seq(Handler) /\ sends \in Seq(Send)
      /\ Len(handlers) = 0 /\ Len(sends) = 0
  BY <1>1, EmptySeq
<1>3. DOMAIN handlers = 1..0
  BY <1>2, LenProperties
<1>4. Suspended = {}
  BY <1>3 DEF Suspended
<1>5. Typed
  BY <1>1, <1>2 DEF Typed
<1>6. Held
  BY <1>1 DEF Held, InWorld
<1>7. Routed /\ Received /\ Progressing
  BY <1>2 DEF Routed, Received, Progressing
<1>8. OneClient
  BY <1>1, <1>2, <1>4 DEF OneClient
<1> QED
  BY <1>5, <1>6, <1>7, <1>8 DEF IInv

\* What a step of the reconnection loop does to the client and to its place.
LEMMA LoopFacts ==
    ASSUME Held, Loop!Next
    PROVE  /\ Held'
           /\ timeouts' = 0 =>
                  /\ timeouts = 0
                  /\ pc' \in Early => pc \in Early \/ (pc = "sleep" /\ pc' = "top")
                  /\ pc' \notin InWorld => pc \notin InWorld \/ world' = "closed"
<1> USE DEF Held, InWorld, Early, Loop!sockets, Loop!flags, Loop!feed, Loop!Goto
<1>1. timeouts \in Nat /\ MaxCount \in Nat \ {0}
  BY RelayAssumption
<1>2. CASE Loop!LoopTop
  BY <1>2 DEF Loop!LoopTop
<1>3. CASE Loop!Authenticated \/ Loop!HandshakeDone \/ Loop!CharactersListed
  BY <1>3 DEF Loop!Authenticated, Loop!HandshakeDone, Loop!CharactersListed
<1>4. CASE Loop!WorldDialled
  BY <1>4 DEF Loop!WorldDialled
<1>5. CASE Loop!WorldEntered
  BY <1>5 DEF Loop!WorldEntered
<1>6. CASE Loop!RosterRequested
  BY <1>6 DEF Loop!RosterRequested
<1>7. CASE Loop!ConnectRejected
  BY <1>7 DEF Loop!ConnectRejected
<1>8. CASE Loop!ConnectFailed
  BY <1>8 DEF Loop!ConnectFailed, Loop!Connecting, Loop!Dialled
<1>9. CASE Loop!ConnectTimeout
  <2>1. timeouts' \in Nat /\ timeouts' > 0
    BY <1>1, <1>9 DEF Loop!ConnectTimeout, Loop!Bumped
  <2>2. UNCHANGED world
    BY <1>9 DEF Loop!ConnectTimeout
  <2> QED
    BY <2>1, <2>2
<1>10. CASE Loop!SleepRejected
  BY <1>10 DEF Loop!SleepRejected
<1>11. CASE Loop!SleepFailed
  BY <1>11 DEF Loop!SleepFailed, Loop!BackOff
<1>12. CASE Loop!StartSession
  BY <1>12 DEF Loop!StartSession
<1>13. CASE Loop!SessionEnds
  BY <1>13 DEF Loop!SessionEnds
<1>14. CASE Loop!WorldReleased
  BY <1>14 DEF Loop!WorldReleased
<1>15. CASE Loop!SleepLost
  BY <1>15 DEF Loop!SleepLost, Loop!BackOff
<1>16. CASE Loop!Wake
  BY <1>16 DEF Loop!Wake
<1>17. CASE Loop!Shutdown \/ Loop!DiscordCloses
  BY <1>17 DEF Loop!Shutdown, Loop!DiscordCloses
<1> QED
  BY <1>2, <1>3, <1>4, <1>5, <1>6, <1>7, <1>8, <1>9, <1>10, <1>11, <1>12,
     <1>13, <1>14, <1>15, <1>16, <1>17
  DEF Loop!Next, Loop!LoopSteps, Loop!Answers

LEMMA Basics ==
    ASSUME IInv
    PROVE  /\ handlers \in Seq(Handler) /\ sends \in Seq(Send)
           /\ Len(handlers) \in Nat /\ Len(sends) \in Nat
           /\ DOMAIN handlers = 1..Len(handlers) /\ DOMAIN sends = 1..Len(sends)
           /\ \A n \in 1..Len(handlers) : handlers[n] \in Handler
           /\ Suspended = {n \in 1..Len(handlers) : handlers[n].left # {}}
<1>1. handlers \in Seq(Handler) /\ sends \in Seq(Send)
  BY DEF IInv, Typed
<1>2. /\ Len(handlers) \in Nat /\ Len(sends) \in Nat
      /\ DOMAIN handlers = 1..Len(handlers) /\ DOMAIN sends = 1..Len(sends)
  BY <1>1, LenProperties
<1>3. \A n \in 1..Len(handlers) : handlers[n] \in Handler
  BY <1>1, ElementOfSeq
<1> QED
  BY <1>1, <1>2, <1>3 DEF Suspended

LEMMA ForemostIsLeast ==
    ASSUME NEW R \in SUBSET Targets, NEW t \in Foremost(R)
    PROVE  /\ t \in R /\ t \in Nat /\ t \in Targets
           /\ \A u \in R \ {t} : t < u
           /\ Foremost(R) = {t}
<1>1. R \subseteq Nat
  BY RoutingAssumption
<1>2. t \in R /\ \A u \in R : t <= u
  BY DEF Foremost
<1>3. \A u \in R \ {t} : t < u
  BY <1>1, <1>2
<1>4. \A u \in Foremost(R) : u = t
  BY <1>1, <1>2 DEF Foremost
<1> QED
  BY <1>1, <1>2, <1>3, <1>4

\* A send is added at the end of the history.
LEMMA Sending ==
    ASSUME IInv, NEW m \in Nat, NEW t \in Targets, world # "none", BeginSend(m, t)
    PROVE  /\ sends' \in Seq(Send) /\ Len(sends') = Len(sends) + 1
           /\ \A i \in 1..Len(sends) : i \in 1..Len(sends') /\ sends'[i] = sends[i]
           /\ \A i \in 1..Len(sends') : i \in 1..Len(sends) \/ i = Len(sends) + 1
           /\ Len(sends) + 1 \in 1..Len(sends')
           /\ sends'[Len(sends) + 1].n = m /\ sends'[Len(sends) + 1].target = t
           /\ sends'[Len(sends) + 1].client = client
           /\ sends'[Len(sends) + 1].writer = world
<1> DEFINE entry == [n |-> m, target |-> t, client |-> client, writer |-> world]
<1>1. sends \in Seq(Send) /\ Len(sends) \in Nat
  BY Basics
<1>2. entry \in Send
  <2>1. client \in Nat /\ world \in {"open", "closed"}
    BY DEF IInv, Typed, Held
  <2> QED
    BY <2>1 DEF Send
<1>3. sends' = Append(sends, entry)
  BY DEF BeginSend
<1>4. /\ sends' \in Seq(Send) /\ Len(sends') = Len(sends) + 1
      /\ \A i \in 1..Len(sends) : sends'[i] = sends[i]
      /\ sends'[Len(sends) + 1] = entry
  BY <1>1, <1>2, <1>3, AppendProperties
<1>5. /\ \A i \in 1..Len(sends) : i \in 1..Len(sends')
      /\ \A i \in 1..Len(sends') : i \in 1..Len(sends) \/ i = Len(sends) + 1
      /\ Len(sends) + 1 \in 1..Len(sends')
  BY <1>1, <1>4
<1> QED
  BY <1>4, <1>5

\* A message is accepted: its handler sends to the first of its mappings.
LEMMA ReceivePreserves ==
    ASSUME IInv, Receive
    PROVE  IInv'
<1> DEFINE m == Len(handlers) + 1
           s == Len(sends) + 1
<1>1. UNCHANGED <<pc, world, timeouts, client, closed>>
  BY DEF Receive, loop
<1>a. PICK post \in Posts : \E t \in Foremost(Route(post)) :
          /\ Accepts(post)
          /\ NewHandler(post, Route(post) \ {t})
          /\ BeginSend(Len(handlers) + 1, t)
  BY DEF Receive
<1>2. PICK t \in Foremost(Route(post)) :
          /\ Accepts(post)
          /\ NewHandler(post, Route(post) \ {t})
          /\ BeginSend(Len(handlers) + 1, t)
  BY <1>a
<1>3. /\ handlers \in Seq(Handler) /\ Len(handlers) \in Nat /\ m \in Nat
      /\ Len(sends) \in Nat /\ client \in Nat
      /\ DOMAIN handlers = 1..Len(handlers)
  BY Basics DEF IInv, Typed
<1>4. /\ Route(post) \subseteq Targets /\ t \in Route(post) /\ t \in Targets
      /\ \A u \in Route(post) \ {t} : t < u
      /\ Foremost(Route(post)) = {t}
  BY ForemostIsLeast DEF Route
<1> DEFINE h == [route |-> Route(post), left |-> Route(post) \ {t},
                 client |-> client, steady |-> world = "open"]
<1>5. h \in Handler
  <2>1. (world = "open") \in BOOLEAN
    OBVIOUS
  <2> QED
    BY <1>3, <1>4, <2>1 DEF Handler
<1>c. /\ handlers' \in Seq(Handler) /\ Len(handlers') = m
      /\ \A n \in 1..Len(handlers) : handlers'[n] = handlers[n]
      /\ handlers'[m] = h
  <2>1. handlers' = Append(handlers, h)
    BY <1>2 DEF NewHandler
  <2> QED
    BY <1>3, <1>5, <2>1, AppendProperties
<1>6. /\ handlers' \in Seq(Handler) /\ Len(handlers') = m
      /\ \A n \in 1..Len(handlers) : handlers'[n] = handlers[n]
      /\ handlers'[m].route = Route(post) /\ handlers'[m].left = Route(post) \ {t}
      /\ handlers'[m].client = client
  BY <1>c
<1>7. /\ \A n \in 1..Len(handlers) : n \in 1..Len(handlers') /\ n < m
      /\ \A n \in 1..Len(handlers') : n \in 1..Len(handlers) \/ n = m
      /\ m \in 1..Len(handlers')
  BY <1>3, <1>6
<1>8. /\ sends' \in Seq(Send) /\ Len(sends') = s
      /\ \A i \in 1..Len(sends) : i \in 1..Len(sends') /\ sends'[i] = sends[i]
      /\ \A i \in 1..Len(sends') : i \in 1..Len(sends) \/ i = s
      /\ s \in 1..Len(sends')
      /\ sends'[s].n = m /\ sends'[s].target = t /\ sends'[s].client = client
      /\ sends'[s].writer = world
  BY <1>2, <1>3, <1>4, Sending DEF Accepts
<1>9. \A i \in 1..Len(sends) : sends[i].n \in 1..Len(handlers) /\ sends[i].n # m
  BY <1>3 DEF IInv, Received
<1>10. /\ handlers'[m].left \subseteq handlers'[m].route
       /\ handlers'[m].left \cap Foremost(handlers'[m].route) = {}
  BY <1>4, <1>6
<1>11. Typed'
  BY <1>1, <1>3, <1>6, <1>8 DEF Typed
<1>12. Held'
  BY <1>1 DEF IInv, Held
<1>13. Routed'
  <2>1. \A n \in 1..Len(handlers) :
            /\ handlers[n].left \subseteq handlers[n].route
            /\ handlers[n].left \cap Foremost(handlers[n].route) = {}
    BY DEF IInv, Routed
  <2> QED
    BY <1>6, <1>7, <1>10, <2>1 DEF Routed
<1>14. Received'
  <2>1. \A i \in 1..Len(sends') : sends'[i].n \in 1..Len(handlers')
    BY <1>7, <1>8, <1>9
  <2>2. ASSUME NEW i \in 1..Len(sends'), NEW j \in 1..Len(sends'), i < j,
               sends'[i].target \in Foremost(handlers'[sends'[i].n].route),
               sends'[j].target \in Foremost(handlers'[sends'[j].n].route)
        PROVE  sends'[i].n < sends'[j].n
    <3>1. i \in 1..Len(sends)
      BY <1>3, <1>8, <2>2
    <3>2. CASE j \in 1..Len(sends)
      BY <1>6, <1>8, <1>9, <2>2, <3>1, <3>2 DEF IInv, Received
    <3>3. CASE j = s
      BY <1>7, <1>8, <1>9, <3>1, <3>3
    <3> QED
      BY <1>8, <3>2, <3>3
  <2> QED
    BY <2>1, <2>2 DEF Received
<1>15. Progressing'
  <2>1. ASSUME NEW n \in 1..Len(handlers), handlers[n].steady
        PROVE  Progress(n)'
    <3>1. Progress(n)
      BY <2>1 DEF IInv, Progressing
    <3>2. handlers'[n] = handlers[n] /\ n # m
      BY <1>6, <1>7, <1>3
    <3>3. \A i \in 1..Len(sends') :
              sends'[i].n = n => i \in 1..Len(sends) /\ sends'[i] = sends[i]
      BY <1>8, <3>2
    <3> QED
      BY <1>1, <1>8, <3>1, <3>2, <3>3 DEF Progress
  <2>2. ASSUME NEW n \in 1..Len(handlers'), n = m, handlers'[n].steady
        PROVE  Progress(n)'
    <3>1. world = "open"
      <4>1. h.steady
        BY <1>c, <2>2, Zenon
      <4> QED
        BY <4>1
    <3>2. \A i \in 1..Len(sends') : sends'[i].n = n => i = s
      BY <1>8, <1>9, <2>2
    <3>3. \A u \in handlers'[n].left : t < u
      BY <1>4, <1>6, <2>2
    <3>4. handlers'[n].route \ handlers'[n].left = {t}
      BY <1>4, <1>6, <2>2
    <3>5. \A i, j \in 1..Len(sends') :
              sends'[i].n = n /\ sends'[j].n = n => ~(i < j)
      BY <1>3, <3>2
    <3>6. \A u \in handlers'[n].route \ handlers'[n].left :
              \E i \in 1..Len(sends') : sends'[i].n = n /\ sends'[i].target = u
      BY <1>8, <2>2, <3>4
    <3>7. \A i \in 1..Len(sends') :
              sends'[i].n = n =>
                  /\ sends'[i].target \in handlers'[n].route \ handlers'[n].left
                  /\ sends'[i].writer = "open" /\ sends'[i].client = handlers'[n].client
                  /\ \A u \in handlers'[n].left : sends'[i].target < u
      BY <1>6, <1>8, <2>2, <3>1, <3>2, <3>3, <3>4
    <3> QED
      BY <1>1, <1>6, <2>2, <3>1, <3>5, <3>6, <3>7 DEF Progress
  <2>3. ASSUME NEW n \in 1..Len(handlers'), handlers'[n].steady
        PROVE  Progress(n)'
    <3>1. CASE n \in 1..Len(handlers)
      BY <1>6, <2>1, <2>3, <3>1
    <3>2. CASE n = m
      BY <2>2, <2>3, <3>2
    <3> QED
      BY <1>7, <3>1, <3>2
  <2> QED
    BY <2>3 DEF Progressing
<1>16. OneClient'
  <2> SUFFICES ASSUME timeouts = 0
               PROVE  /\ \A n \in Suspended' : handlers'[n].client = client
                      /\ pc \notin Early
                      /\ pc \notin InWorld => client \in closed
                      /\ world = "closed" => client \in closed
                      /\ \A i \in 1..Len(sends') :
                             sends'[i].client = handlers'[sends'[i].n].client
    BY <1>1 DEF OneClient
  <2>1. pc \in InWorld \/ world = "closed"
    BY <1>2 DEF Accepts, IInv, Held
  <2>2. world = "closed" => client \in closed /\ pc = "ending"
    BY DEF IInv, OneClient, Held
  <2>3. \A n \in Suspended' : handlers'[n].client = client
    <3>1. Suspended' = {n \in 1..Len(handlers') : handlers'[n].left # {}}
      BY <1>6, LenProperties DEF Suspended
    <3>2. ASSUME NEW n \in 1..Len(handlers'), handlers'[n].left # {}
          PROVE  handlers'[n].client = client
      <4>1. CASE n \in 1..Len(handlers)
        <5>1. n \in Suspended
          BY <1>3, <1>6, <3>2, <4>1 DEF Suspended
        <5> QED
          BY <1>6, <4>1, <5>1 DEF IInv, OneClient
      <4>2. CASE n = m
        BY <1>6, <1>10, <4>2
      <4> QED
        BY <1>7, <4>1, <4>2
    <3> QED
      BY <3>1, <3>2
  <2>4. ASSUME NEW i \in 1..Len(sends')
        PROVE  sends'[i].client = handlers'[sends'[i].n].client
    <3>1. CASE i \in 1..Len(sends)
      BY <1>6, <1>8, <1>9, <3>1 DEF IInv, OneClient
    <3>2. CASE i = s
      BY <1>6, <1>8, <1>10, <3>2
    <3> QED
      BY <1>8, <3>1, <3>2
  <2> QED
    BY <2>1, <2>2, <2>3, <2>4 DEF InWorld, Early
<1> QED
  BY <1>11, <1>12, <1>13, <1>14, <1>15, <1>16 DEF IInv

\* Without a client the handler ends; it had not seen one open client anyway.
LEMMA GiveUpPreserves ==
    ASSUME IInv, NEW m \in Suspended, Resume(m), world = "none"
    PROVE  IInv'
<1>1. /\ UNCHANGED <<pc, world, timeouts, client, closed, sends>>
      /\ handlers' = [handlers EXCEPT ![m].left = {}]
  BY DEF Resume, loop
<1>2. /\ handlers \in Seq(Handler) /\ m \in 1..Len(handlers)
      /\ handlers[m].left # {} /\ handlers[m] \in Handler
      /\ DOMAIN handlers = 1..Len(handlers) /\ Len(handlers) \in Nat
  BY Basics
<1> DEFINE h == [handlers[m] EXCEPT !.left = {}]
<1>3. h \in Handler
  BY <1>2 DEF Handler
<1>4. handlers' = [handlers EXCEPT ![m] = h]
  BY <1>1
<1>5. handlers' \in Seq(Handler) /\ Len(handlers') = Len(handlers)
  BY <1>2, <1>3, <1>4, ExceptSeq
<1>6. /\ \A n \in 1..Len(handlers) : n # m => handlers'[n] = handlers[n]
      /\ \A n \in 1..Len(handlers) : handlers'[n].route = handlers[n].route
      /\ \A n \in 1..Len(handlers) : handlers'[n].client = handlers[n].client
      /\ handlers'[m].left = {}
  BY <1>1, <1>2 DEF Handler
<1>7. Suspended' = Suspended \ {m}
  <2>1. Suspended' = {n \in 1..Len(handlers') : handlers'[n].left # {}}
    BY <1>5, LenProperties DEF Suspended
  <2>2. Suspended = {n \in 1..Len(handlers) : handlers[n].left # {}}
    BY Basics
  <2> QED
    BY <1>5, <1>6, <2>1, <2>2
<1>8. Typed' /\ Held'
  BY <1>1, <1>5 DEF IInv, Typed, Held
<1>9. Routed'
  BY <1>5, <1>6 DEF IInv, Routed
<1>10. Received'
  <2>1. \A i \in 1..Len(sends) : sends[i].n \in 1..Len(handlers)
    BY DEF IInv, Received
  <2> QED
    BY <1>1, <1>5, <1>6, <2>1 DEF IInv, Received
<1>11. Progressing'
  <2>1. ~handlers[m].steady
    BY <1>2 DEF IInv, Progressing, Progress
  <2>2. ~handlers'[m].steady
    <3>1. handlers'[m] = h
      BY <1>2, <1>4
    <3>2. h.steady = handlers[m].steady
      BY <1>2 DEF Handler
    <3> QED
      BY <2>1, <3>1, <3>2, Zenon
  <2>3. ASSUME NEW n \in 1..Len(handlers'), handlers'[n].steady
        PROVE  Progress(n)'
    <3>1. n # m
      BY <2>2, <2>3
    <3>2. handlers'[n] = handlers[n] /\ n \in 1..Len(handlers)
      BY <1>5, <1>6, <3>1
    <3>3. handlers[n].steady
      BY <2>3, <3>2, Zenon
    <3>4. Progress(n)
      BY <3>2, <3>3 DEF IInv, Progressing
    <3> QED
      BY <1>1, <3>2, <3>4 DEF Progress
  <2> QED
    BY <2>3 DEF Progressing
<1>12. OneClient'
  <2>1. \A n \in Suspended' : n \in Suspended /\ handlers'[n].client = handlers[n].client
    BY <1>6, <1>7, Basics
  <2>2. \A i \in 1..Len(sends) : sends[i].n \in 1..Len(handlers)
    BY DEF IInv, Received
  <2> QED
    BY <1>1, <1>6, <2>1, <2>2, <1>7 DEF IInv, OneClient
<1> QED
  BY <1>8, <1>9, <1>10, <1>11, <1>12 DEF IInv

\* The handler goes on to the next of its mappings.
LEMMA GoOnPreserves ==
    ASSUME IInv, NEW m \in Suspended, Resume(m), world # "none"
    PROVE  IInv'
<1> DEFINE s == Len(sends) + 1
<1>1. UNCHANGED <<pc, world, timeouts, client, closed>>
  BY DEF Resume, loop
<1>2. /\ handlers \in Seq(Handler) /\ m \in 1..Len(handlers) /\ m \in Nat
      /\ handlers[m].left # {} /\ handlers[m] \in Handler
      /\ DOMAIN handlers = 1..Len(handlers) /\ Len(handlers) \in Nat
      /\ Len(sends) \in Nat /\ client \in Nat
  BY Basics DEF IInv, Typed
<1>3. PICK t \in Foremost(handlers[m].left) :
          /\ handlers' = [handlers EXCEPT ![m].left = @ \ {t}, ![m].client = client]
          /\ BeginSend(m, t)
  BY DEF Resume
<1>4. /\ handlers[m].left \subseteq Targets /\ handlers[m].route \subseteq Targets
      /\ handlers[m].left \subseteq handlers[m].route
      /\ handlers[m].left \cap Foremost(handlers[m].route) = {}
  BY <1>2 DEF IInv, Routed, Handler
<1>5. /\ t \in handlers[m].left /\ t \in Targets /\ t \in Nat
      /\ \A u \in handlers[m].left \ {t} : t < u
  BY <1>4, ForemostIsLeast
<1> DEFINE h == [handlers[m] EXCEPT !.left = @ \ {t}, !.client = client]
<1>6. h \in Handler
  BY <1>2, <1>4 DEF Handler
<1>7. handlers' = [handlers EXCEPT ![m] = h]
  BY <1>3
<1>8. handlers' \in Seq(Handler) /\ Len(handlers') = Len(handlers)
  BY <1>2, <1>6, <1>7, ExceptSeq
<1>9. /\ \A n \in 1..Len(handlers) : n # m => handlers'[n] = handlers[n]
      /\ \A n \in 1..Len(handlers) : handlers'[n].route = handlers[n].route
      /\ handlers'[m].client = client
      /\ handlers'[m].left = handlers[m].left \ {t}
  BY <1>2, <1>3 DEF Handler
<1>10. handlers'[m].steady = handlers[m].steady
  <2>1. handlers'[m] = h
    BY <1>2, <1>7
  <2>2. h.steady = handlers[m].steady
    BY <1>2 DEF Handler
  <2> QED
    BY <2>1, <2>2, Zenon
<1>11. Suspended' \subseteq Suspended
  <2>1. Suspended' = {n \in 1..Len(handlers') : handlers'[n].left # {}}
    BY <1>8, LenProperties DEF Suspended
  <2>2. Suspended = {n \in 1..Len(handlers) : handlers[n].left # {}}
    BY Basics
  <2> QED
    BY <1>2, <1>8, <1>9, <2>1, <2>2
<1>12. /\ sends' \in Seq(Send) /\ Len(sends') = s
       /\ \A i \in 1..Len(sends) : i \in 1..Len(sends') /\ sends'[i] = sends[i]
       /\ \A i \in 1..Len(sends') : i \in 1..Len(sends) \/ i = s
       /\ s \in 1..Len(sends')
       /\ sends'[s].n = m /\ sends'[s].target = t /\ sends'[s].client = client
       /\ sends'[s].writer = world
  BY <1>2, <1>3, <1>5, Sending
<1>13. \A i \in 1..Len(sends) : sends[i].n \in 1..Len(handlers)
  BY DEF IInv, Received
<1>14. Typed' /\ Held'
  BY <1>1, <1>8, <1>12 DEF IInv, Typed, Held
<1>15. Routed'
  BY <1>4, <1>8, <1>9 DEF IInv, Routed
<1>16. Received'
  <2>1. \A i \in 1..Len(sends') : sends'[i].n \in 1..Len(handlers')
    BY <1>2, <1>8, <1>12, <1>13
  <2>2. ASSUME NEW i \in 1..Len(sends'), NEW j \in 1..Len(sends'), i < j,
               sends'[i].target \in Foremost(handlers'[sends'[i].n].route),
               sends'[j].target \in Foremost(handlers'[sends'[j].n].route)
        PROVE  sends'[i].n < sends'[j].n
    <3>1. i \in 1..Len(sends)
      BY <1>2, <1>12, <2>2
    <3>2. j # s
      BY <1>2, <1>4, <1>5, <1>9, <1>12, <2>2
    <3>3. j \in 1..Len(sends)
      BY <1>12, <3>2
    <3> QED
      BY <1>9, <1>12, <1>13, <2>2, <3>1, <3>3 DEF IInv, Received
  <2> QED
    BY <2>1, <2>2 DEF Received
<1>17. Progressing'
  <2>1. ASSUME NEW n \in 1..Len(handlers), n # m, handlers'[n].steady
        PROVE  Progress(n)'
    <3>1. handlers'[n] = handlers[n]
      BY <1>9, <2>1
    <3>2. handlers[n].steady
      BY <2>1, <3>1, Zenon
    <3>3. Progress(n)
      BY <3>2 DEF IInv, Progressing
    <3>4. \A i \in 1..Len(sends') :
              sends'[i].n = n => i \in 1..Len(sends) /\ sends'[i] = sends[i]
      BY <1>12, <2>1
    <3> QED
      BY <1>1, <1>12, <3>1, <3>3, <3>4 DEF Progress
  <2>2. ASSUME handlers'[m].steady
        PROVE  Progress(m)'
    <3>1. Progress(m)
      BY <1>2, <1>10, <2>2 DEF IInv, Progressing
    <3>2. world = "open" /\ handlers[m].client = client
      BY <1>2, <3>1 DEF Progress
    <3>3. \A u \in handlers'[m].route \ handlers'[m].left :
              u = t \/ u \in handlers[m].route \ handlers[m].left
      BY <1>2, <1>9
    <3>4. \A u \in handlers'[m].route \ handlers'[m].left :
              \E i \in 1..Len(sends') : sends'[i].n = m /\ sends'[i].target = u
      BY <1>12, <3>1, <3>3 DEF Progress
    <3>5. ASSUME NEW i \in 1..Len(sends'), sends'[i].n = m
          PROVE  /\ sends'[i].target \in handlers'[m].route \ handlers'[m].left
                 /\ sends'[i].writer = "open" /\ sends'[i].client = handlers'[m].client
                 /\ \A u \in handlers'[m].left : sends'[i].target < u
      <4>1. CASE i \in 1..Len(sends)
        BY <1>2, <1>9, <1>12, <3>1, <3>2, <3>5, <4>1 DEF Progress
      <4>2. CASE i = s
        BY <1>2, <1>4, <1>5, <1>9, <1>12, <3>2, <4>2
      <4> QED
        BY <1>12, <4>1, <4>2
    <3>6. ASSUME NEW i \in 1..Len(sends'), NEW j \in 1..Len(sends'), i < j,
                 sends'[i].n = m, sends'[j].n = m
          PROVE  sends'[i].target < sends'[j].target
      <4>1. i \in 1..Len(sends)
        BY <1>2, <1>12, <3>6
      <4>2. CASE j \in 1..Len(sends)
        BY <1>12, <3>1, <3>6, <4>1, <4>2 DEF Progress
      <4>3. CASE j = s
        BY <1>5, <1>12, <3>1, <3>6, <4>1, <4>3 DEF Progress
      <4> QED
        BY <1>12, <4>2, <4>3
    <3> QED
      BY <1>1, <1>9, <3>2, <3>4, <3>5, <3>6 DEF Progress
  <2> QED
    BY <1>8, <2>1, <2>2 DEF Progressing
<1>18. OneClient'
  <2>1. \A n \in Suspended : n \in 1..Len(handlers)
    BY Basics
  <2>2. timeouts = 0 => \A n \in 1..Len(handlers) : handlers'[n].client = handlers[n].client
    BY <1>9 DEF IInv, OneClient
  <2>3. ASSUME timeouts = 0, NEW i \in 1..Len(sends')
        PROVE  sends'[i].client = handlers'[sends'[i].n].client
    <3>1. CASE i \in 1..Len(sends)
      BY <1>12, <1>13, <2>2, <2>3, <3>1 DEF IInv, OneClient
    <3>2. CASE i = s
      BY <1>9, <1>12, <3>2
    <3> QED
      BY <1>12, <3>1, <3>2
  <2> QED
    BY <1>1, <1>11, <2>1, <2>2, <2>3 DEF IInv, OneClient
<1> QED
  BY <1>14, <1>15, <1>16, <1>17, <1>18 DEF IInv

\* The reconnection loop moves on; the handlers only learn what it did.
LEMMA LoopStepPreserves ==
    ASSUME IInv, LoopStep
    PROVE  IInv'
<1>1. /\ UNCHANGED sends /\ closed \subseteq closed'
      /\ world' = "closed" => client \in closed'
      /\ client' = (IF pc = "enter" /\ pc' = "roster" THEN client + 1 ELSE client)
      /\ pc = "sleep" /\ pc' = "top" =>
             \A n \in Suspended : handlers[n].client \notin closed
  BY DEF LoopStep
<1>2. /\ handlers \in Seq(Handler) /\ client \in Nat
      /\ DOMAIN handlers = 1..Len(handlers) /\ Len(handlers) \in Nat
      /\ \A n \in 1..Len(handlers) : handlers[n] \in Handler
      /\ Suspended = {n \in 1..Len(handlers) : handlers[n].left # {}}
  BY Basics DEF IInv, Typed
<1> DEFINE same(n) == n \in Suspended => world' = "open" /\ client' = client
           h(n) == [handlers[n] EXCEPT !.steady = @ /\ same(n)]
<1>3. handlers' = [n \in 1..Len(handlers) |-> h(n)]
  BY <1>2 DEF LoopStep
<1>4. \A n \in 1..Len(handlers) : h(n) \in Handler
  <2>1. ASSUME NEW n \in 1..Len(handlers)
        PROVE  h(n) \in Handler
    <3>1. (handlers[n].steady /\ same(n)) \in BOOLEAN
      OBVIOUS
    <3>2. handlers[n] \in Handler
      BY <1>2
    <3> QED
      BY <3>1, <3>2 DEF Handler
  <2> QED
    BY <2>1
<1>5. handlers' \in Seq(Handler) /\ Len(handlers') = Len(handlers)
  <2>1. handlers' \in [1..Len(handlers) -> Handler]
    BY <1>3, <1>4
  <2>2. handlers' \in Seq(Handler)
    BY <1>2, <2>1, SeqDef
  <2>3. DOMAIN handlers' = 1..Len(handlers) /\ DOMAIN handlers' = 1..Len(handlers')
        /\ Len(handlers') \in Nat
    BY <2>1, <2>2, LenProperties
  <2> QED
    BY <1>2, <2>2, <2>3
<1>6. \A n \in 1..Len(handlers) :
          /\ handlers'[n].route = handlers[n].route
          /\ handlers'[n].left = handlers[n].left
          /\ handlers'[n].client = handlers[n].client
  BY <1>2, <1>3 DEF Handler
<1>7. ASSUME NEW n \in 1..Len(handlers), handlers'[n].steady
      PROVE  handlers[n].steady /\ same(n)
  <2>1. handlers'[n] = h(n)
    BY <1>3
  <2>2. h(n).steady = (handlers[n].steady /\ same(n))
    BY <1>2 DEF Handler
  <2>3. h(n).steady
    BY <1>7, <2>1, Zenon
  <2> QED
    BY <2>2, <2>3, Zenon
<1>8. Suspended' = Suspended
  <2>1. Suspended' = {n \in 1..Len(handlers') : handlers'[n].left # {}}
    BY <1>5, LenProperties DEF Suspended
  <2> QED
    BY <1>2, <1>5, <1>6, <2>1
<1>9. client' \in Nat
  BY <1>1, <1>2
<1>10. Typed'
  BY <1>1, <1>5, <1>9 DEF IInv, Typed
<1>11. /\ Held'
       /\ timeouts' = 0 =>
              /\ timeouts = 0
              /\ pc' \in Early => pc \in Early \/ (pc = "sleep" /\ pc' = "top")
              /\ pc' \notin InWorld => pc \notin InWorld \/ world' = "closed"
  BY LoopFacts DEF LoopStep, IInv
<1>12. \A i \in 1..Len(sends) : sends[i].n \in 1..Len(handlers)
  BY DEF IInv, Received
<1>13. Routed'
  BY <1>5, <1>6 DEF IInv, Routed
<1>14. Received'
  BY <1>1, <1>5, <1>6, <1>12 DEF IInv, Received
<1>15. Progressing'
  <2>1. ASSUME NEW n \in 1..Len(handlers'), handlers'[n].steady
        PROVE  Progress(n)'
    <3>1. n \in 1..Len(handlers) /\ handlers[n].steady /\ same(n)
      BY <1>5, <1>7, <2>1
    <3>2. Progress(n)
      BY <3>1 DEF IInv, Progressing
    <3>3. handlers'[n].left # {} => world' = "open" /\ handlers'[n].client = client'
      BY <1>2, <1>6, <3>1, <3>2 DEF Progress
    <3> QED
      BY <1>1, <1>6, <3>1, <3>2, <3>3 DEF Progress
  <2> QED
    BY <2>1 DEF Progressing
<1>16. OneClient'
  <2> SUFFICES ASSUME timeouts' = 0
               PROVE  /\ \A n \in Suspended : handlers[n].client = client'
                      /\ pc' \in Early => Suspended = {}
                      /\ pc' \notin InWorld => Suspended = {} \/ client' \in closed'
                      /\ world' = "closed" => client' \in closed'
                      /\ \A i \in 1..Len(sends) :
                             sends[i].client = handlers[sends[i].n].client
    BY <1>1, <1>2, <1>6, <1>8, <1>12 DEF OneClient
  <2>1. /\ timeouts = 0
        /\ \A n \in Suspended : handlers[n].client = client
        /\ pc \in Early => Suspended = {}
        /\ pc \notin InWorld => Suspended = {} \/ client \in closed
        /\ \A i \in 1..Len(sends) : sends[i].client = handlers[sends[i].n].client
    BY <1>11 DEF IInv, OneClient
  <2>2. client' = client \/ (pc = "enter" /\ pc' = "roster" /\ Suspended = {})
    BY <1>1, <2>1 DEF Early
  <2>3. pc' \in Early => Suspended = {}
    <3>1. CASE pc = "sleep" /\ pc' = "top"
      BY <1>1, <2>1, <3>1 DEF InWorld
    <3>2. CASE ~(pc = "sleep" /\ pc' = "top")
      BY <1>11, <2>1, <3>2
    <3> QED
      BY <3>1, <3>2
  <2>4. world' = "closed" => client' \in closed'
    <3>1. world' = "closed" => pc' # "roster"
      BY <1>11 DEF Held
    <3> QED
      BY <1>1, <3>1
  <2>5. pc' \notin InWorld => Suspended = {} \/ client' \in closed'
    BY <1>1, <1>11, <2>1, <2>2, <2>4
  <2> QED
    BY <2>1, <2>2, <2>3, <2>4, <2>5
<1> QED
  BY <1>10, <1>11, <1>13, <1>14, <1>15, <1>16 DEF IInv

LEMMA IInvPreserved == IInv /\ [Next]_vars => IInv'
<1> SUFFICES ASSUME IInv, [Next]_vars
             PROVE  IInv'
  OBVIOUS
<1>1. CASE \E n \in Suspended : Resume(n)
  BY <1>1, GiveUpPreserves, GoOnPreserves
<1>2. CASE UNCHANGED vars
  <2>1. UNCHANGED <<pc, world, timeouts, client, closed, handlers, sends>>
    BY <1>2 DEF vars, loop
  <2> QED
    BY <2>1 DEF IInv, Typed, Held, Routed, Received, Progressing, Progress,
       OneClient, Suspended
<1> QED
  BY <1>1, <1>2, ReceivePreserves, LoopStepPreserves DEF Next

LEMMA InductiveInvariant == Spec => []IInv
<1> QED
  BY InitIInv, IInvPreserved, PTL DEF Spec

-----------------------------------------------------------------------------
\* A handler that saw one open client has sent its message once to each of
\* its mappings, in order (bot.py:282-308).
THEOREM HandlersDoTheirWork == Spec => []WholeInSession
<1>1. ASSUME IInv PROVE WholeInSession
  <2>1. /\ DOMAIN sends = 1..Len(sends)
        /\ DOMAIN handlers \ Suspended = {n \in 1..Len(handlers) : handlers[n].left = {}}
    BY <1>1, Basics
  <2>2. ASSUME NEW n \in 1..Len(handlers), handlers[n].left = {}, handlers[n].steady
        PROVE  LET mine == {i \in 1..Len(sends) : sends[i].n = n}
               IN  /\ handlers[n].route = {sends[i].target : i \in mine}
                   /\ \A i, j \in mine : i < j => sends[i].target < sends[j].target
                   /\ \A i \in mine : /\ sends[i].writer = "open"
                                      /\ sends[i].client = handlers[n].client
    <3>1. Progress(n)
      BY <1>1, <2>2 DEF IInv, Progressing
    <3> QED
      BY <2>2, <3>1 DEF Progress
  <2> QED
    BY <2>1, <2>2 DEF WholeInSession
<1> QED
  BY <1>1, InductiveInvariant, PTL

\* Messages keep their order in the first mapping of their routes
\* (bot.py:282-308).
THEOREM FirstMappingKeepsOrder == Spec => []FirstMappingInOrder
<1>1. ASSUME IInv PROVE FirstMappingInOrder
  <2>1. DOMAIN sends = 1..Len(sends)
    BY <1>1, Basics
  <2> QED
    BY <1>1, <2>1 DEF IInv, Received, FirstMappingInOrder
<1> QED
  BY <1>1, InductiveInvariant, PTL

\* Without a timeout no message is spread over two sessions (bot.py:304,
\* 597-601).
THEOREM MessageHasOneClient == Spec => []OneClientPerMessage
<1>1. ASSUME IInv PROVE OneClientPerMessage
  <2>1. DOMAIN sends = 1..Len(sends)
    BY <1>1, Basics
  <2> QED
    BY <1>1, <2>1 DEF IInv, OneClient, OneClientPerMessage
<1> QED
  BY <1>1, InductiveInvariant, PTL

\* Without a timeout chat is sent in a session only, and lost only while a
\* session is being closed (bot.py:484-488, 597-601).
THEOREM ChatMeetsASession == Spec => SendsMeetASession
<1> DEFINE Meets == sends' # sends /\ timeouts = 0 =>
               pc \in IF sends'[Len(sends')].writer = "open"
                     THEN {"roster", "connected", "running"} ELSE {"ending"}
<1>1. ASSUME IInv, [Next]_vars PROVE [Meets]_vars
  <2> SUFFICES ASSUME sends' # sends, timeouts = 0
               PROVE  pc \in IF sends'[Len(sends')].writer = "open"
                            THEN {"roster", "connected", "running"} ELSE {"ending"}
    OBVIOUS
  <2>1. PICK m \in Nat, t \in Targets : BeginSend(m, t) /\ world # "none"
    <3>1. Len(handlers) + 1 \in Nat
      BY <1>1, Basics
    <3>2. CASE Receive
      BY <3>1, <3>2 DEF Receive, Accepts, Foremost, Route
    <3>3. CASE \E n \in Suspended : Resume(n)
      <4>1. PICK n \in Suspended : Resume(n)
        BY <3>3
      <4>2. n \in Nat /\ handlers[n].left \subseteq Targets
        BY <1>1, Basics DEF Handler
      <4> QED
        BY <4>1, <4>2 DEF Resume, Foremost
    <3> QED
      BY <1>1, <3>2, <3>3 DEF Next, LoopStep, vars
  <2>2. sends'[Len(sends')].writer = world
    BY <1>1, <2>1, Sending
  <2>3. /\ world = "open" => pc \in InWorld
        /\ world # "open" => pc = "ending"
    BY <1>1, <2>1 DEF IInv, Held
  <2> QED
    BY <2>2, <2>3 DEF InWorld
<1> QED
  BY <1>1, InductiveInvariant, PTL DEF Spec, SendsMeetASession

-----------------------------------------------------------------------------
\* The handlers do not disturb the loop: every behaviour of the composition is
\* one of the reconnection loop, whose only state they share is self.world,
\* and that they only read (bot.py:282-308, 523-614).
THEOREM ImplementsLoop == Spec => Loop!Spec
<1>1. Init => Loop!Init
  BY DEF Init
<1>2. [Next]_vars => [Loop!Next]_(Loop!vars)
  <2> SUFFICES ASSUME [Next]_vars
               PROVE  Loop!Next \/ UNCHANGED Loop!vars
    OBVIOUS
  <2> USE DEF vars, loop, Loop!vars, Loop!sockets, Loop!flags, Loop!feed
  <2>1. CASE Receive
    BY <2>1 DEF Receive
  <2>2. CASE \E n \in Suspended : Resume(n)
    BY <2>2 DEF Resume
  <2>3. CASE LoopStep
    BY <2>3 DEF LoopStep
  <2> QED
    BY <2>1, <2>2, <2>3 DEF Next
<1> QED
  BY <1>1, <1>2, PTL DEF Spec, Loop!Spec

LoopProofs == INSTANCE LifecycleProofs

\* The module of the loop's proofs speaks of the loop by other names.
LEMMA SameLoop ==
    /\ Loop!Init <=> LoopProofs!Init
    /\ [Loop!Next]_(Loop!vars) <=> [LoopProofs!Next]_(LoopProofs!vars)
<1>1. Loop!Init <=> LoopProofs!Init
  BY Zenon DEF Loop!Init, LoopProofs!Init, Loop!NoWait, LoopProofs!NoWait
<1>2. UNCHANGED Loop!vars <=> UNCHANGED LoopProofs!vars
  BY Zenon DEF Loop!vars, LoopProofs!vars, Loop!sockets, LoopProofs!sockets,
     Loop!flags, LoopProofs!flags, Loop!feed, LoopProofs!feed
<1>3. Loop!Next <=> LoopProofs!Next
  BY Zenon DEF
     Loop!Next, LoopProofs!Next, Loop!LoopSteps, LoopProofs!LoopSteps,
     Loop!Answers, LoopProofs!Answers, Loop!Goto, LoopProofs!Goto,
     Loop!BackOff, LoopProofs!BackOff, Loop!Notify, LoopProofs!Notify,
     Loop!NotifyIf, LoopProofs!NotifyIf, Loop!Bumped, LoopProofs!Bumped,
     Loop!Connecting, LoopProofs!Connecting, Loop!Dialled,
     LoopProofs!Dialled, Loop!sockets, LoopProofs!sockets, Loop!flags,
     LoopProofs!flags, Loop!feed, LoopProofs!feed, Loop!vars,
     LoopProofs!vars, Loop!Fatal, LoopProofs!Fatal, Loop!NoWait,
     LoopProofs!NoWait, Loop!LoopTop, LoopProofs!LoopTop, Loop!Authenticated,
     LoopProofs!Authenticated, Loop!WorldDialled, LoopProofs!WorldDialled,
     Loop!HandshakeDone, LoopProofs!HandshakeDone, Loop!CharactersListed,
     LoopProofs!CharactersListed, Loop!WorldEntered, LoopProofs!WorldEntered,
     Loop!RosterRequested, LoopProofs!RosterRequested, Loop!ConnectRejected,
     LoopProofs!ConnectRejected, Loop!ConnectFailed,
     LoopProofs!ConnectFailed, Loop!ConnectTimeout,
     LoopProofs!ConnectTimeout, Loop!SleepRejected, LoopProofs!SleepRejected,
     Loop!SleepFailed, LoopProofs!SleepFailed, Loop!StartSession,
     LoopProofs!StartSession, Loop!SessionEnds, LoopProofs!SessionEnds,
     Loop!WorldReleased, LoopProofs!WorldReleased, Loop!SleepLost,
     LoopProofs!SleepLost, Loop!Wake, LoopProofs!Wake, Loop!Shutdown,
     LoopProofs!Shutdown, Loop!DiscordCloses, LoopProofs!DiscordCloses
<1> QED
  BY <1>1, <1>2, <1>3

\* So what is proved of the loop holds with the handlers at work: only timeouts
\* leak sockets or leave a client in self.world, outages are flagged, and the
\* loop stops for good reasons only (bot.py:476-614).
THEOREM LoopKeepsItsPromises ==
    Spec => [](/\ Loop!SocketsAccounted /\ Loop!StaleWorldOnlyAfterTimeout
               /\ Loop!OutageFlagged /\ Loop!StopsOnlyForGoodReason)
<1>1. MaxExponent \in Nat /\ MaxCount \in Nat \ {0}
  BY RelayAssumption
<1>2. Loop!Spec => LoopProofs!Spec
  BY SameLoop, PTL DEF Loop!Spec, LoopProofs!Spec
<1>3. LoopProofs!Spec => []LoopProofs!SocketsAccounted
  BY <1>1, LoopProofs!SocketsAreAccounted
<1>4. LoopProofs!Spec => []LoopProofs!StaleWorldOnlyAfterTimeout
  BY <1>1, LoopProofs!StaleWorldNeedsTimeout
<1>5. LoopProofs!Spec => []LoopProofs!OutageFlagged
  BY <1>1, LoopProofs!OutageAlwaysFlagged
<1>6. LoopProofs!Spec => []LoopProofs!StopsOnlyForGoodReason
  BY <1>1, LoopProofs!StopsForGoodReason
<1>7. /\ LoopProofs!SocketsAccounted => Loop!SocketsAccounted
      /\ LoopProofs!StaleWorldOnlyAfterTimeout => Loop!StaleWorldOnlyAfterTimeout
      /\ LoopProofs!OutageFlagged => Loop!OutageFlagged
      /\ LoopProofs!StopsOnlyForGoodReason => Loop!StopsOnlyForGoodReason
  BY DEF Loop!SocketsAccounted, LoopProofs!SocketsAccounted,
     Loop!StaleWorldOnlyAfterTimeout, LoopProofs!StaleWorldOnlyAfterTimeout,
     Loop!OutageFlagged, LoopProofs!OutageFlagged, Loop!Retrying,
     LoopProofs!Retrying, Loop!Connecting, LoopProofs!Connecting, Loop!Dialled,
     LoopProofs!Dialled, Loop!StopsOnlyForGoodReason,
     LoopProofs!StopsOnlyForGoodReason
<1> QED
  BY <1>2, <1>3, <1>4, <1>5, <1>6, <1>7, ImplementsLoop, PTL
=============================================================================
