-------------------------- MODULE NameRelayProofs ---------------------------
(***************************************************************************)
(* The safety properties of NameRelay, and its refinement of OrderedRelay, *)
(* for any players, mappings and messages.  The argument: a player's name  *)
(* is asked for once, so it is answered once, and nothing of that player   *)
(* has been shown before; from then on messages are shown as they come.    *)
(***************************************************************************)
EXTENDS NameRelay, SequenceTheorems, TLAPS

From(n) == heard[n].from

ChatPacket == [chat : Said]
NamePacket == [guid : Guids, name : Names]
Shown == [n : Nat, target : Targets, name : Names \union {"guid:0"}]

Typed ==
    /\ wire \in Seq(ChatPacket \union NamePacket)
    /\ asked \subseteq Guids
    /\ name_cache \in [Guids -> Names \union {Nobody}]
    /\ pending \in [Guids -> Seq(Nat)]
    /\ batch \in Seq(Nat) /\ route \subseteq Targets
    /\ answering \in Guids \union {Nobody}
    /\ heard \in Seq(Said)
    /\ shown \in Seq(Shown)
    /\ dropped \subseteq 1..Len(heard)

\* Message numbers name messages that were read, in the order of reading.
Numbered(numbers) ==
    /\ \A i \in 1..Len(numbers) : numbers[i] \in 1..Len(heard)
    /\ \A i, j \in 1..Len(numbers) : i < j => numbers[i] < numbers[j]

Queues ==
    \A g \in Guids :
        /\ Numbered(pending[g])
        /\ \A i \in 1..Len(pending[g]) : From(pending[g][i]) = g

Batch ==
    /\ Numbered(batch)
    /\ \A i \in 1..Len(batch) : From(batch[i]) = From(batch[1])

ShownRead == \A k \in 1..Len(shown) : shown[k].n \in 1..Len(heard)

\* A lookup under way belongs to a queue of a player without a name, once.
Unanswered(g) == pending[g] # <<>> /\ name_cache[g] = Nobody

Lookups ==
    /\ \A g \in asked : Unanswered(g)
    /\ \A i \in 1..Len(wire) :
           wire[i] \in NamePacket =>
               Unanswered(wire[i].guid) /\ wire[i].guid \notin asked
    /\ \A i, j \in 1..Len(wire) :
           wire[i] \in NamePacket /\ wire[j] \in NamePacket
               /\ wire[i].guid = wire[j].guid => i = j

\* What is or was shown of a sender is under its name, and it has one.
NameOf(s) == IF s \in Guids THEN name_cache[s] ELSE "guid:0"

Naming ==
    /\ \A k \in 1..Len(shown) :
           shown[k].name = NameOf(From(shown[k].n))
    /\ batch # <<>> => label = NameOf(From(batch[1])) /\ label # Nobody

\* A callback has either one message or what is left of a player's queue.
Callback ==
    IF answering = Nobody
    THEN Len(batch) <= 1
    ELSE /\ batch # <<>> /\ From(batch[1]) = answering
         /\ \A i \in 1..Len(batch) :
                \E j \in 1..Len(pending[answering]) :
                    pending[answering][j] = batch[i]

Stranded ==
    \A g \in Guids :
        pending[g] # <<>> /\ name_cache[g] # Nobody =>
            g = answering \/ \E n \in dropped : From(n) = g

\* What was shown of the sender in hand precedes what is still to be shown.
Order ==
    batch # <<>> =>
        \A k \in 1..Len(shown) :
            From(shown[k].n) = From(batch[1]) =>
                \/ shown[k].n < batch[1]
                \/ shown[k].n = batch[1] /\ shown[k].target \notin route

\* Where message n is with respect to mapping t.
Settled(n, t) ==
    \/ \E j \in 1..Len(shown) : shown[j].n = n /\ shown[j].target = t
    \/ [n |-> n, target |-> t] \in passed
    \/ n \in dropped

InHand(n, t) == \E j \in 1..Len(batch) : batch[j] = n /\ (j = 1 => t \in route)

Queued(n) ==
    /\ From(n) \in Guids /\ From(n) # answering
    /\ \E j \in 1..Len(pending[From(n)]) : pending[From(n)][j] = n

Accounted ==
    \A n \in 1..Len(heard) : \A t \in FindMapping(heard[n]) :
        Settled(n, t) \/ InHand(n, t) \/ Queued(n)

IInv ==
    /\ Typed /\ Queues /\ Batch /\ ShownRead
    /\ Lookups /\ Naming /\ Callback /\ Stranded /\ Order /\ Accounted

-----------------------------------------------------------------------------
LEMMA InitIInv == Init => IInv
<1> SUFFICES ASSUME Init
             PROVE  IInv
  OBVIOUS
<1>1. /\ wire = <<>> /\ batch = <<>> /\ heard = <<>> /\ shown = <<>>
      /\ asked = {} /\ route = {} /\ answering = Nobody /\ dropped = {}
      /\ name_cache = [g \in Guids |-> Nobody] /\ pending = [g \in Guids |-> <<>>]
  BY DEF Init
<1>2. /\ wire \in Seq(ChatPacket \union NamePacket) /\ batch \in Seq(Nat)
      /\ heard \in Seq(Said) /\ shown \in Seq(Shown)
      /\ pending \in [Guids -> Seq(Nat)]
  BY <1>1, EmptySeq
<1>3. /\ Len(wire) = 0 /\ Len(batch) = 0 /\ Len(heard) = 0 /\ Len(shown) = 0
      /\ \A g \in Guids : pending[g] = <<>> /\ Len(pending[g]) = 0
  BY <1>1, EmptySeq
<1>4. Typed
  <2>1. /\ asked \subseteq Guids /\ route \subseteq Targets
        /\ answering \in Guids \union {Nobody} /\ dropped \subseteq 1..Len(heard)
    BY <1>1
  <2>2. name_cache \in [Guids -> Names \union {Nobody}]
    BY <1>1
  <2> QED
    BY <1>2, <2>1, <2>2 DEF Typed
<1>5. Queues /\ Batch /\ ShownRead /\ Accounted
  BY <1>3 DEF Queues, Batch, Numbered, ShownRead, Accounted
<1>6. Lookups
  BY <1>1, <1>3 DEF Lookups
<1>7. Naming /\ Callback /\ Stranded /\ Order
  BY <1>1, <1>3 DEF Naming, Callback, Stranded, Order
<1> QED
  BY <1>4, <1>5, <1>6, <1>7 DEF IInv

\* The facts about lengths and elements that most steps need.
LEMMA Basics ==
    ASSUME IInv
    PROVE  /\ Len(wire) \in Nat /\ Len(batch) \in Nat
           /\ Len(heard) \in Nat /\ Len(shown) \in Nat
           /\ \A g \in Guids : pending[g] \in Seq(Nat) /\ Len(pending[g]) \in Nat
           /\ \A n \in 1..Len(heard) : From(n) \in Senders
           /\ batch # <<>> => Len(batch) > 0
           /\ batch = <<>> => Len(batch) = 0 /\ answering = Nobody
<1>1. /\ wire \in Seq(ChatPacket \union NamePacket) /\ batch \in Seq(Nat)
      /\ heard \in Seq(Said) /\ shown \in Seq(Shown)
      /\ pending \in [Guids -> Seq(Nat)]
  BY DEF IInv, Typed
<1>2. /\ Len(wire) \in Nat /\ Len(batch) \in Nat
      /\ Len(heard) \in Nat /\ Len(shown) \in Nat
      /\ batch # <<>> => Len(batch) > 0
      /\ batch = <<>> => Len(batch) = 0
  BY <1>1, LenProperties, EmptySeq
<1>3. \A g \in Guids : pending[g] \in Seq(Nat) /\ Len(pending[g]) \in Nat
  BY <1>1, LenProperties
<1>4. \A n \in 1..Len(heard) : From(n) \in Senders
  BY <1>1, ElementOfSeq, RelayAssumption DEF From, Senders
<1>5. batch = <<>> => answering = Nobody
  BY DEF IInv, Callback
<1> QED
  BY <1>2, <1>3, <1>4, <1>5

\* A step of the connection or of the server touches the lookups only.
LEMMA OutsideStep ==
    ASSUME IInv, UNCHANGED <<name_cache, pending, reader, history>>,
           wire' \in Seq(ChatPacket \union NamePacket), asked' \subseteq Guids,
           Lookups'
    PROVE  IInv'
<1>1. UNCHANGED <<batch, route, label, answering, heard, shown, passed, dropped>>
  BY DEF reader, history
<1>2. Typed'
  BY <1>1 DEF IInv, Typed
<1>3. Queues' /\ Batch' /\ ShownRead'
  BY <1>1 DEF IInv, Queues, Batch, Numbered, From, ShownRead
<1>4. Naming' /\ Callback' /\ Stranded' /\ Order'
  BY <1>1 DEF IInv, Naming, NameOf, Callback, Stranded, Order, From
<1>5. Accounted'
  BY <1>1 DEF IInv, Accounted, Settled, InHand, Queued, From, FindMapping
<1> QED
  BY <1>2, <1>3, <1>4, <1>5 DEF IInv

LEMMA EmptyWire ==
    ASSUME IInv, UNCHANGED <<name_cache, pending>>, asked' = {},
           wire' = wire \/ wire' = <<>>
    PROVE  wire' \in Seq(ChatPacket \union NamePacket) /\ Lookups'
<1>1. CASE wire' = wire
  BY <1>1 DEF IInv, Typed, Lookups, Unanswered
<1>2. CASE wire' = <<>>
  <2>1. wire' \in Seq(ChatPacket \union NamePacket) /\ Len(wire') = 0
    BY <1>2, EmptySeq
  <2> QED
    BY <2>1 DEF Lookups
<1> QED
  BY <1>1, <1>2

LEMMA PacketKinds ==
    /\ \A msg \in Said : [chat |-> msg] \notin NamePacket
    /\ \A packet \in ChatPacket \union NamePacket :
           /\ "chat" \in DOMAIN packet => packet \in ChatPacket
           /\ "name" \in DOMAIN packet => packet \in NamePacket
BY DEF ChatPacket, NamePacket

LEMMA ServerChatPreserves ==
    ASSUME IInv, ServerChat
    PROVE  IInv'
<1>1. UNCHANGED <<asked, name_cache, pending, reader, history>>
  BY DEF ServerChat
<1>2. PICK msg \in Said : wire' = Append(wire, [chat |-> msg])
  BY DEF ServerChat
<1> DEFINE packet == [chat |-> msg]
<1>3. /\ wire \in Seq(ChatPacket \union NamePacket)
      /\ packet \in ChatPacket \union NamePacket /\ packet \notin NamePacket
      /\ Len(wire) \in Nat
  BY Basics, PacketKinds DEF IInv, Typed, ChatPacket
<1>4. /\ wire' \in Seq(ChatPacket \union NamePacket) /\ Len(wire') = Len(wire) + 1
      /\ \A i \in 1..Len(wire) : wire'[i] = wire[i]
      /\ wire'[Len(wire) + 1] = packet
  BY <1>2, <1>3, AppendProperties
<1>5. \A i \in 1..Len(wire') :
          wire'[i] \in NamePacket => i \in 1..Len(wire) /\ wire'[i] = wire[i]
  <2>1. \A i \in 1..Len(wire') : i \in 1..Len(wire) \/ i = Len(wire) + 1
    BY <1>3, <1>4
  <2> QED
    BY <1>3, <1>4, <2>1
<1>6. Lookups'
  BY <1>1, <1>5 DEF IInv, Lookups, Unanswered
<1>7. asked' \subseteq Guids
  BY <1>1 DEF IInv, Typed
<1> QED
  BY <1>1, <1>4, <1>6, <1>7, OutsideStep

LEMMA ServerNamePreserves ==
    ASSUME IInv, ServerName
    PROVE  IInv'
<1>1. UNCHANGED <<name_cache, pending, reader, history>>
  BY DEF ServerName
<1>2. PICK g \in asked, name \in Names :
          /\ wire' = Append(wire, [guid |-> g, name |-> name])
          /\ asked' = asked \ {g}
  BY DEF ServerName
<1> DEFINE packet == [guid |-> g, name |-> name]
<1>3. /\ wire \in Seq(ChatPacket \union NamePacket) /\ asked \subseteq Guids
      /\ Len(wire) \in Nat
  BY Basics DEF IInv, Typed
<1>4. packet \in NamePacket /\ packet.guid = g
  BY <1>3 DEF NamePacket
<1>5. /\ wire' \in Seq(ChatPacket \union NamePacket) /\ Len(wire') = Len(wire) + 1
      /\ \A i \in 1..Len(wire) : wire'[i] = wire[i]
      /\ wire'[Len(wire) + 1] = packet
  BY <1>2, <1>3, <1>4, AppendProperties
<1>6. \A i \in 1..Len(wire') : i \in 1..Len(wire) \/ i = Len(wire) + 1
  BY <1>3, <1>5
<1>7. Unanswered(g)
  BY DEF IInv, Lookups
<1>8. \A i \in 1..Len(wire) : wire[i] \in NamePacket => wire[i].guid # g
  BY DEF IInv, Lookups
<1>9. Lookups'
  <2>1. \A h \in asked' : Unanswered(h)'
    BY <1>1, <1>2 DEF IInv, Lookups, Unanswered
  <2>2. ASSUME NEW i \in 1..Len(wire'), wire'[i] \in NamePacket
        PROVE  /\ pending'[wire'[i].guid] # <<>> /\ name_cache'[wire'[i].guid] = Nobody
               /\ wire'[i].guid \notin asked'
    <3>1. CASE i \in 1..Len(wire)
      BY <1>1, <1>2, <1>5, <2>2, <3>1 DEF IInv, Lookups, Unanswered
    <3>2. CASE i = Len(wire) + 1
      BY <1>1, <1>2, <1>4, <1>5, <1>7, <3>2 DEF Unanswered
    <3> QED
      BY <1>6, <3>1, <3>2
  <2>3. \A i, j \in 1..Len(wire') :
           wire'[i] \in NamePacket /\ wire'[j] \in NamePacket
               /\ wire'[i].guid = wire'[j].guid => i = j
    BY <1>4, <1>5, <1>6, <1>8 DEF IInv, Lookups
  <2> QED
    BY <2>1, <2>2, <2>3 DEF Lookups, Unanswered
<1>10. asked' \subseteq Guids
  BY <1>2, <1>3
<1> QED
  BY <1>1, <1>5, <1>9, <1>10, OutsideStep

\* An exception ends the callback and the session; of a queue, its first
\* message is dropped and the others stay where they are.
LEMMA RelayRaisesPreserves ==
    ASSUME IInv, RelayRaises
    PROVE  IInv'
<1>1. /\ batch # <<>> /\ batch' = <<>> /\ route' = {} /\ answering' = Nobody
      /\ wire' = <<>> /\ asked' = {} /\ dropped' = dropped \union {batch[1]}
      /\ UNCHANGED <<name_cache, pending, heard, shown, passed>>
  BY DEF RelayRaises, SessionOver
<1>2. /\ Len(batch) \in Nat \ {0} /\ batch[1] \in 1..Len(heard)
      /\ \A g \in Guids : Len(pending[g]) \in Nat
      /\ \A n \in 1..Len(heard) : From(n) \in Senders
  <2>1. Len(batch) \in Nat /\ Len(batch) > 0
    BY <1>1, Basics
  <2>2. 1 \in 1..Len(batch)
    BY <2>1
  <2> QED
    BY <2>1, <2>2, Basics DEF IInv, Batch, Numbered
<1>3. /\ wire' \in Seq(ChatPacket \union NamePacket) /\ batch' \in Seq(Nat)
      /\ Len(wire') = 0 /\ Len(batch') = 0
  BY <1>1, EmptySeq
<1>4. Typed'
  <2>1. dropped' \subseteq 1..Len(heard) /\ asked' \subseteq Guids
    BY <1>1, <1>2 DEF IInv, Typed
  <2>2. route' \subseteq Targets /\ answering' \in Guids \union {Nobody}
    BY <1>1
  <2>3. /\ UNCHANGED <<name_cache, pending, heard, shown>>
    BY <1>1
  <2> QED
    BY <1>3, <2>1, <2>2, <2>3 DEF IInv, Typed
<1>5. Queues' /\ Batch' /\ ShownRead'
  BY <1>1, <1>3 DEF IInv, Queues, Batch, Numbered, From, ShownRead
<1>6. Lookups'
  BY <1>1, <1>3 DEF Lookups
<1>7. Naming' /\ Callback' /\ Order'
  BY <1>1, <1>3 DEF IInv, Naming, NameOf, From, Callback, Order
<1>8. Stranded'
  <2>1. answering \in Guids => From(batch[1]) = answering
    BY RelayAssumption DEF IInv, Callback
  <2> QED
    BY <1>1, <2>1 DEF IInv, Stranded, From
<1>9. Accounted'
  <2>1. ASSUME NEW n \in 1..Len(heard), NEW t \in FindMapping(heard[n])
        PROVE  (Settled(n, t) \/ Queued(n))'
    <3>1. CASE Settled(n, t)
      BY <1>1, <3>1 DEF Settled
    <3>2. CASE Queued(n)
      BY <1>1, <3>2, RelayAssumption DEF Queued, From
    <3>3. CASE InHand(n, t)
      <4>1. PICK j \in 1..Len(batch) : batch[j] = n
        BY <3>3 DEF InHand
      <4>2. CASE j = 1
        BY <1>1, <4>1, <4>2 DEF Settled
      <4>3. CASE j # 1
        <5>1. answering # Nobody
          BY <1>2, <4>1, <4>3 DEF IInv, Callback
        <5>2. answering \in Guids
          BY <5>1 DEF IInv, Typed
        <5>3. From(n) = answering
          BY <4>1, <5>1 DEF IInv, Callback, Batch
        <5>4. \E i \in 1..Len(pending[answering]) : pending[answering][i] = n
          BY <4>1, <5>1 DEF IInv, Callback
        <5> QED
          BY <1>1, <5>2, <5>3, <5>4, RelayAssumption DEF Queued, From
      <4> QED
        BY <4>2, <4>3
    <3> QED
      BY <3>1, <3>2, <3>3 DEF IInv, Accounted
  <2> QED
    BY <1>1, <2>1 DEF Accounted, FindMapping
<1> QED
  BY <1>4, <1>5, <1>6, <1>7, <1>8, <1>9 DEF IInv

\* One mapping less is ahead of the message in hand.
LEMMA RelayMappingPreserves ==
    ASSUME IInv, RelayMapping
    PROVE  IInv'
<1>1. /\ batch # <<>>
      /\ UNCHANGED <<wire, asked, name_cache, pending, batch, label, answering,
                     heard, dropped>>
  BY DEF RelayMapping, Foremost, transport
<1>2. PICK t \in route :
          /\ route' = route \ {t}
          /\ \/ /\ shown' = Append(shown, [n |-> batch[1], target |-> t, name |-> label])
                /\ passed' = passed
             \/ /\ passed' = passed \union {[n |-> batch[1], target |-> t]}
                /\ shown' = shown
  BY DEF RelayMapping, Foremost
<1>3. /\ Len(batch) \in Nat \ {0} /\ batch[1] \in 1..Len(heard)
      /\ Len(heard) \in Nat /\ Len(shown) \in Nat
      /\ label = NameOf(From(batch[1])) /\ label # Nobody
      /\ From(batch[1]) \in Senders
  <2>1. Len(batch) \in Nat /\ Len(batch) > 0
    BY <1>1, Basics
  <2>2. 1 \in 1..Len(batch)
    BY <2>1
  <2> QED
    BY <1>1, <2>1, <2>2, Basics DEF IInv, Batch, Numbered, Naming
<1> DEFINE delivery == [n |-> batch[1], target |-> t, name |-> label]
<1>4. delivery \in Shown
  <2>1. t \in Targets
    BY DEF IInv, Typed
  <2>2. label \in Names \union {"guid:0"}
    BY <1>3 DEF IInv, Typed, NameOf
  <2> QED
    BY <1>3, <2>1, <2>2 DEF Shown
<1>5. /\ shown' \in Seq(Shown)
      /\ Len(shown) <= Len(shown') /\ Len(shown') \in Nat
      /\ \A k \in 1..Len(shown) : shown'[k] = shown[k]
      /\ \A k \in 1..Len(shown') : k \in 1..Len(shown) \/ shown'[k] = delivery
      /\ \/ \E k \in 1..Len(shown') : shown'[k] = delivery
         \/ [n |-> batch[1], target |-> t] \in passed'
      /\ passed \subseteq passed'
  <2>1. shown \in Seq(Shown)
    BY DEF IInv, Typed
  <2>2. CASE shown' = Append(shown, delivery)
    <3>1. /\ shown' \in Seq(Shown) /\ Len(shown') = Len(shown) + 1
          /\ \A k \in 1..Len(shown) : shown'[k] = shown[k]
          /\ shown'[Len(shown) + 1] = delivery
      BY <1>4, <2>1, <2>2, AppendProperties
    <3>2. \A k \in 1..Len(shown') : k \in 1..Len(shown) \/ k = Len(shown) + 1
      BY <1>3, <3>1
    <3>3. Len(shown) + 1 \in 1..Len(shown')
      BY <1>3, <3>1
    <3>4. passed \subseteq passed'
      BY <1>2
    <3> QED
      BY <1>3, <3>1, <3>2, <3>3, <3>4
  <2>3. CASE shown' = shown /\ passed' = passed \union {[n |-> batch[1], target |-> t]}
    BY <1>3, <2>1, <2>3
  <2> QED
    BY <1>2, <2>2, <2>3
<1>6. Typed'
  <2>1. route' \subseteq Targets
    BY <1>2 DEF IInv, Typed
  <2>2. shown' \in Seq(Shown)
    BY <1>5
  <2> QED
    BY <1>1, <2>1, <2>2 DEF IInv, Typed
<1>7. Queues' /\ Batch' /\ Lookups' /\ Callback' /\ Stranded'
  BY <1>1 DEF IInv, Queues, Batch, Numbered, From, Lookups, Unanswered, Callback,
     Stranded
<1>8. ShownRead'
  <2>1. delivery.n \in 1..Len(heard)
    BY <1>3
  <2> QED
    BY <1>1, <1>5, <2>1 DEF IInv, ShownRead
<1>9. Naming'
  <2>1. delivery.name = NameOf(From(delivery.n))
    BY <1>3
  <2>2. \A k \in 1..Len(shown') : shown'[k].name = NameOf(From(shown'[k].n))
    BY <1>5, <2>1 DEF IInv, Naming
  <2>3. label = NameOf(From(batch[1])) /\ label # Nobody
    BY <1>3
  <2> QED
    BY <1>1, <2>2, <2>3 DEF Naming, NameOf, From
<1>10. Order'
  <2>1. ASSUME NEW k \in 1..Len(shown'), From(shown'[k].n) = From(batch[1])
        PROVE  \/ shown'[k].n < batch[1]
               \/ shown'[k].n = batch[1] /\ shown'[k].target \notin route'
    <3>1. CASE k \in 1..Len(shown) /\ shown'[k] = shown[k]
      BY <1>1, <1>2, <2>1, <3>1 DEF IInv, Order
    <3>2. CASE shown'[k] = delivery
      BY <1>2, <3>2
    <3> QED
      BY <1>5, <3>1, <3>2
  <2> QED
    BY <1>1, <2>1 DEF Order, From
<1>11. Accounted'
  <2>1. ASSUME NEW n \in 1..Len(heard), NEW u \in FindMapping(heard[n])
        PROVE  (Settled(n, u) \/ InHand(n, u) \/ Queued(n))'
    <3>1. CASE Settled(n, u)
      <4>1. \A k \in 1..Len(shown) : k \in 1..Len(shown') /\ shown'[k] = shown[k]
        BY <1>3, <1>5
      <4> QED
        BY <1>1, <1>5, <3>1, <4>1 DEF Settled
    <3>2. CASE Queued(n)
      BY <1>1, <3>2 DEF Queued, From
    <3>3. CASE InHand(n, u)
      <4>1. PICK j \in 1..Len(batch) : batch[j] = n /\ (j = 1 => u \in route)
        BY <3>3 DEF InHand
      <4>2. CASE j = 1 /\ u = t
        BY <1>5, <4>1, <4>2 DEF Settled
      <4>3. CASE ~(j = 1 /\ u = t)
        BY <1>1, <1>2, <4>1, <4>3 DEF InHand
      <4> QED
        BY <4>2, <4>3
    <3> QED
      BY <3>1, <3>2, <3>3 DEF IInv, Accounted
  <2> QED
    BY <1>1, <2>1 DEF Accounted, FindMapping
<1> QED
  BY <1>6, <1>7, <1>8, <1>9, <1>10, <1>11 DEF IInv

\* The next message follows, or an answered queue is deleted: all its messages
\* are settled by then.
LEMMA RelayMessageDonePreserves ==
    ASSUME IInv, RelayMessageDone
    PROVE  IInv'
<1>1. /\ batch # <<>> /\ route = {} /\ batch' = Tail(batch)
      /\ UNCHANGED <<wire, asked, name_cache, heard, shown, passed, dropped>>
  BY DEF RelayMessageDone, transport, history
<1>2. /\ batch \in Seq(Nat) /\ batch' \in Seq(Nat)
      /\ Len(batch) \in Nat \ {0} /\ Len(batch') = Len(batch) - 1
      /\ \A i \in 1..Len(batch') :
             i + 1 \in 1..Len(batch) /\ batch'[i] = batch[i + 1]
  <2>1. batch \in Seq(Nat) /\ Len(batch) \in Nat /\ Len(batch) > 0
    BY <1>1, Basics DEF IInv, Typed
  <2>2. /\ Tail(batch) \in Seq(Nat) /\ Len(Tail(batch)) = Len(batch) - 1
        /\ \A i \in 1..Len(Tail(batch)) : Tail(batch)[i] = batch[i + 1]
    BY <1>1, <2>1, HeadTailProperties
  <2> QED
    BY <1>1, <2>1, <2>2
<1>3. /\ 1 \in 1..Len(batch) /\ batch[1] \in 1..Len(heard)
      /\ \A i \in 1..Len(batch) :
             batch[i] \in 1..Len(heard) /\ From(batch[i]) = From(batch[1])
      /\ \A i, j \in 1..Len(batch) : i < j => batch[i] < batch[j]
  BY <1>2 DEF IInv, Batch, Numbered
<1>4. Batch'
  <2>1. ASSUME NEW i \in 1..Len(batch')
        PROVE  batch'[i] \in 1..Len(heard) /\ From(batch'[i]) = From(batch[1])
    <3>1. i + 1 \in 1..Len(batch) /\ batch'[i] = batch[i + 1]
      BY <1>2
    <3>2. batch[i + 1] \in 1..Len(heard) /\ From(batch[i + 1]) = From(batch[1])
      BY <1>3, <3>1
    <3> QED
      BY <3>1, <3>2
  <2>2. ASSUME NEW i \in 1..Len(batch'), NEW j \in 1..Len(batch'), i < j
        PROVE  batch'[i] < batch'[j]
    <3>1. /\ i + 1 \in 1..Len(batch) /\ j + 1 \in 1..Len(batch) /\ i + 1 < j + 1
          /\ batch'[i] = batch[i + 1] /\ batch'[j] = batch[j + 1]
      BY <1>2, <2>2
    <3> QED
      BY <1>3, <3>1
  <2>3. \A i \in 1..Len(batch') : 1 \in 1..Len(batch')
    BY <1>2
  <2> QED
    BY <1>1, <2>1, <2>2, <2>3 DEF Batch, Numbered, From
<1>5. ShownRead'
  BY <1>1 DEF IInv, ShownRead
<1>6. \A g \in Guids : Len(pending[g]) \in Nat
  BY Basics
<1>7. CASE batch' # <<>>
  <2>1. /\ route' = FindMapping(heard[Head(batch')])
        /\ UNCHANGED <<label, answering, pending>>
    BY <1>7 DEF RelayMessageDone
  <2>2. Len(batch') \in Nat \ {0} /\ 1 \in 1..Len(batch') /\ Head(batch') = batch'[1]
    <3>1. Len(batch') \in Nat \ {0}
      BY <1>2, <1>7, EmptySeq
    <3>2. Head(batch') = batch'[1]
      BY <1>2, <3>1
    <3> QED
      BY <3>1, <3>2
  <2>3. batch'[1] = batch[2] /\ 2 \in 1..Len(batch)
    <3>1. batch'[1] = batch[1 + 1] /\ 1 + 1 \in 1..Len(batch)
      BY <1>2, <2>2
    <3> QED
      BY <3>1
  <2>4. route' = FindMapping(heard[batch'[1]])
    BY <2>1, <2>2
  <2>5. Typed'
    <3>1. route' \subseteq Targets
      BY <2>1 DEF FindMapping
    <3> QED
      BY <1>1, <1>2, <2>1, <3>1 DEF IInv, Typed
  <2>6. Queues' /\ Lookups' /\ Stranded'
    BY <1>1, <2>1 DEF IInv, Queues, Numbered, From, Lookups, Unanswered, Stranded
  <2>7. Naming'
    <3>1. label = NameOf(From(batch[1])) /\ label # Nobody
      BY <1>1 DEF IInv, Naming
    <3>2. label = NameOf(From(batch'[1]))
      BY <1>3, <2>3, <3>1
    <3>3. \A k \in 1..Len(shown) : shown[k].name = NameOf(From(shown[k].n))
      BY DEF IInv, Naming
    <3> QED
      BY <1>1, <2>1, <3>1, <3>2, <3>3 DEF Naming, NameOf, From
  <2>8. Callback'
    <3>1. CASE answering = Nobody
      BY <1>2, <2>1, <3>1 DEF IInv, Callback
    <3>2. CASE answering # Nobody
      <4>1. From(batch'[1]) = answering
        BY <1>3, <2>3, <3>2 DEF IInv, Callback
      <4>2. \A i \in 1..Len(batch') :
                \E j \in 1..Len(pending[answering]) :
                    pending[answering][j] = batch'[i]
        BY <1>2, <3>2 DEF IInv, Callback
      <4> QED
        BY <1>1, <1>7, <2>1, <3>2, <4>1, <4>2 DEF Callback, From
    <3> QED
      BY <3>1, <3>2
  <2>9. Order'
    <3>1. ASSUME NEW k \in 1..Len(shown), From(shown[k].n) = From(batch'[1])
          PROVE  shown[k].n < batch'[1]
      <4>1. shown[k].n <= batch[1]
        <5>1. From(shown[k].n) = From(batch[1])
          BY <1>3, <2>3, <3>1
        <5>2. shown[k].n \in 1..Len(heard)
          BY DEF IInv, ShownRead
        <5> QED
          BY <1>1, <1>3, <5>1, <5>2, Basics DEF IInv, Order
      <4>2. batch[1] < batch[2]
        BY <1>3, <2>3
      <4>3. shown[k].n \in 1..Len(heard) /\ batch[2] \in 1..Len(heard)
        BY <1>3, <2>3 DEF IInv, ShownRead
      <4> QED
        BY <1>3, <2>3, <4>1, <4>2, <4>3, Basics
    <3> QED
      BY <1>1, <3>1 DEF Order, From
  <2>10. Accounted'
    <3>1. ASSUME NEW n \in 1..Len(heard), NEW t \in FindMapping(heard[n])
          PROVE  (Settled(n, t) \/ InHand(n, t) \/ Queued(n))'
      <4>1. CASE Settled(n, t)
        BY <1>1, <4>1 DEF Settled
      <4>2. CASE Queued(n)
        BY <1>1, <2>1, <4>2 DEF Queued, From
      <4>3. CASE InHand(n, t)
        <5>1. PICK j \in 1..Len(batch) : batch[j] = n /\ (j = 1 => t \in route)
          BY <4>3 DEF InHand
        <5>2. /\ j # 1 /\ j - 1 \in 1..Len(batch') /\ batch'[j - 1] = n
          BY <1>1, <1>2, <5>1
        <5>3. j - 1 = 1 => t \in route'
          BY <2>4, <5>2
        <5> QED
          BY <5>2, <5>3 DEF InHand
      <4> QED
        BY <4>1, <4>2, <4>3 DEF IInv, Accounted
    <3> QED
      BY <1>1, <3>1 DEF Accounted, FindMapping
  <2> QED
    BY <1>4, <1>5, <2>5, <2>6, <2>7, <2>8, <2>9, <2>10 DEF IInv
<1>8. CASE batch' = <<>>
  <2>1. /\ route' = {} /\ label' = Nobody /\ answering' = Nobody
        /\ pending' = [g \in Guids |-> IF g = answering THEN <<>> ELSE pending[g]]
    BY <1>8 DEF RelayMessageDone
  <2>2. Len(batch) = 1 /\ Len(batch') = 0
    BY <1>2, <1>8, EmptySeq
  <2>3. /\ pending' \in [Guids -> Seq(Nat)]
        /\ \A g \in Guids :
               \/ g = answering /\ pending'[g] = <<>> /\ Len(pending'[g]) = 0
               \/ g # answering /\ pending'[g] = pending[g]
    <3>1. <<>> \in Seq(Nat) /\ Len(<<>>) = 0
      BY EmptySeq
    <3>2. \A g \in Guids : pending[g] \in Seq(Nat)
      BY Basics
    <3> QED
      BY <2>1, <3>1, <3>2
  <2>4. Typed'
    <3>1. route' \subseteq Targets /\ answering' \in Guids \union {Nobody}
      BY <2>1
    <3> QED
      BY <1>1, <1>2, <2>3, <3>1 DEF IInv, Typed
  <2>5. Queues'
    <3>1. ASSUME NEW g \in Guids
          PROVE  /\ \A i \in 1..Len(pending'[g]) :
                        pending'[g][i] \in 1..Len(heard) /\ From(pending'[g][i]) = g
                 /\ \A i, j \in 1..Len(pending'[g]) :
                        i < j => pending'[g][i] < pending'[g][j]
      BY <2>3 DEF IInv, Queues, Numbered
    <3> QED
      BY <1>1, <3>1 DEF Queues, Numbered, From
  <2>6. answering # Nobody => name_cache[answering] # Nobody
    <3>1. answering # Nobody => answering = From(batch[1]) /\ answering \in Guids
      BY DEF IInv, Callback, Typed
    <3> QED
      BY <1>1, <3>1 DEF IInv, Naming, NameOf
  <2>7. Lookups'
    <3>1. \A g \in Guids : Unanswered(g) => pending'[g] # <<>> /\ name_cache[g] = Nobody
      BY <2>3, <2>6, RelayAssumption DEF Unanswered
    <3>2. asked \subseteq Guids
      BY DEF IInv, Typed
    <3>3. \A i \in 1..Len(wire) : wire[i] \in NamePacket => wire[i].guid \in Guids
      BY DEF NamePacket
    <3> QED
      BY <1>1, <3>1, <3>2, <3>3 DEF IInv, Lookups, Unanswered
  <2>8. Stranded'
    BY <1>1, <2>1, <2>3 DEF IInv, Stranded, From
  <2>9. Naming' /\ Callback' /\ Order'
    BY <1>1, <1>8, <2>1, <2>2 DEF IInv, Naming, NameOf, From, Callback, Order
  <2>10. Accounted'
    <3>1. ASSUME NEW n \in 1..Len(heard), NEW t \in FindMapping(heard[n])
          PROVE  (Settled(n, t) \/ InHand(n, t) \/ Queued(n))'
      <4>1. CASE Settled(n, t)
        BY <1>1, <4>1 DEF Settled
      <4>2. CASE Queued(n)
        BY <1>1, <2>1, <2>3, <4>2, RelayAssumption DEF Queued, From
      <4>3. CASE InHand(n, t)
        BY <1>1, <2>2, <4>3 DEF InHand
      <4> QED
        BY <4>1, <4>2, <4>3 DEF IInv, Accounted
    <3> QED
      BY <1>1, <3>1 DEF Accounted, FindMapping
  <2> QED
    BY <1>4, <1>5, <2>4, <2>5, <2>7, <2>8, <2>9, <2>10 DEF IInv
<1> QED
  BY <1>7, <1>8

\* What the reader knows when it takes a packet: no callback is under way.
LEMMA AtRead ==
    ASSUME IInv, Reading, wire' = Tail(wire)
    PROVE  /\ batch = <<>> /\ Len(batch) = 0 /\ answering = Nobody
           /\ wire[1] = Head(wire) /\ Head(wire) \in ChatPacket \union NamePacket
           /\ wire' \in Seq(ChatPacket \union NamePacket)
           /\ Len(wire) \in Nat \ {0} /\ Len(wire') = Len(wire) - 1
           /\ \A i \in 1..Len(wire') : wire'[i] = wire[i + 1]
           /\ Len(heard) \in Nat
<1>1. wire \in Seq(ChatPacket \union NamePacket) /\ wire # <<>> /\ batch = <<>>
  BY DEF IInv, Typed, Reading
<1>2. Len(wire) \in Nat \ {0}
  BY <1>1, EmptySeq
<1>3. /\ wire' \in Seq(ChatPacket \union NamePacket)
      /\ Head(wire) \in ChatPacket \union NamePacket
      /\ Len(wire') = Len(wire) - 1
      /\ \A i \in 1..Len(wire') : wire'[i] = wire[i + 1]
  BY <1>1, HeadTailProperties
<1>4. wire[1] = Head(wire)
  BY <1>1, <1>2
<1> QED
  BY <1>1, <1>2, <1>3, <1>4, Basics

\* Taking a packet leaves the other lookups as they are.
LEMMA LookupsAfterRead ==
    ASSUME IInv, Reading, wire' = Tail(wire)
    PROVE  \A i \in 1..Len(wire') :
               /\ i + 1 \in 1..Len(wire) /\ wire'[i] = wire[i + 1]
               /\ wire'[i] \in NamePacket =>
                      /\ wire'[i].guid \in Guids
                      /\ Unanswered(wire'[i].guid) /\ wire'[i].guid \notin asked
                      /\ \A j \in 1..Len(wire') :
                             wire'[j] \in NamePacket /\ wire'[i].guid = wire'[j].guid
                                 => i = j
                      /\ wire[1] \in NamePacket => wire'[i].guid # wire[1].guid
<1> SUFFICES ASSUME NEW i \in 1..Len(wire')
             PROVE  /\ i + 1 \in 1..Len(wire) /\ wire'[i] = wire[i + 1]
                    /\ wire'[i] \in NamePacket =>
                      /\ wire'[i].guid \in Guids
                      /\ Unanswered(wire'[i].guid) /\ wire'[i].guid \notin asked
                      /\ \A j \in 1..Len(wire') :
                             wire'[j] \in NamePacket /\ wire'[i].guid = wire'[j].guid
                                 => i = j
                      /\ wire[1] \in NamePacket => wire'[i].guid # wire[1].guid
  OBVIOUS
<1>1. \A j \in 1..Len(wire') :
          j + 1 \in 1..Len(wire) /\ j + 1 # 1 /\ wire'[j] = wire[j + 1]
  BY AtRead
<1>2. 1 \in 1..Len(wire)
  BY AtRead
<1>3. wire'[i] \in NamePacket => wire'[i].guid \in Guids
  BY DEF NamePacket
<1>4. wire'[i] \in NamePacket =>
          Unanswered(wire'[i].guid) /\ wire'[i].guid \notin asked
  BY <1>1 DEF IInv, Lookups
<1>5. \A j \in 1..Len(wire') :
          wire'[i] \in NamePacket /\ wire'[j] \in NamePacket
              /\ wire'[i].guid = wire'[j].guid => i = j
  BY <1>1 DEF IInv, Lookups
<1>6. wire'[i] \in NamePacket /\ wire[1] \in NamePacket => wire'[i].guid # wire[1].guid
  BY <1>1, <1>2 DEF IInv, Lookups
<1> QED
  BY <1>1, <1>3, <1>4, <1>5, <1>6

\* The name is new, nothing of its player was shown, and the player's queue,
\* if it is still there, becomes the batch.
LEMMA ReadNamePreserves ==
    ASSUME IInv, ReadName
    PROVE  IInv'
<1> DEFINE g == Head(wire).guid
           name == Head(wire).name
<1>1. /\ Reading /\ wire' = Tail(wire) /\ "name" \in DOMAIN Head(wire)
      /\ name_cache' = [name_cache EXCEPT ![g] = name] /\ AnswerQueue(g, name)
      /\ UNCHANGED <<asked, pending, heard, shown, passed, dropped>>
  BY DEF ReadName, history
<1>2. Head(wire) \in NamePacket /\ g \in Guids /\ name \in Names
  BY <1>1, AtRead, PacketKinds DEF NamePacket
<1>3. /\ wire[1] = Head(wire) /\ 1 \in 1..Len(wire)
      /\ batch = <<>> /\ Len(batch) = 0 /\ answering = Nobody
      /\ wire' \in Seq(ChatPacket \union NamePacket)
  BY <1>1, AtRead
<1>4. pending[g] # <<>> /\ name_cache[g] = Nobody /\ g \notin asked
  BY <1>2, <1>3 DEF IInv, Lookups, Unanswered
<1>5. /\ name # Nobody
      /\ name_cache' \in [Guids -> Names \union {Nobody}]
      /\ name_cache'[g] = name
      /\ \A h \in Guids : h # g => name_cache'[h] = name_cache[h]
  BY <1>1, <1>2, RelayAssumption DEF IInv, Typed, Names
<1>6. /\ batch' = pending[g] /\ route' = FindMapping(heard[pending[g][1]])
      /\ label' = name /\ answering' = g
  BY <1>1, <1>4 DEF AnswerQueue, StartRelay
<1>7. /\ pending[g] \in Seq(Nat) /\ Len(pending[g]) \in Nat \ {0}
      /\ \A i \in 1..Len(pending[g]) :
             pending[g][i] \in 1..Len(heard) /\ From(pending[g][i]) = g
      /\ \A i, j \in 1..Len(pending[g]) : i < j => pending[g][i] < pending[g][j]
  <2>1. pending[g] \in Seq(Nat)
    BY <1>2, Basics
  <2>2. Len(pending[g]) \in Nat \ {0}
    BY <1>4, <2>1, EmptySeq
  <2> QED
    BY <1>2, <2>1, <2>2 DEF IInv, Queues, Numbered
<1>8. 1 \in 1..Len(pending[g]) /\ From(pending[g][1]) = g
  BY <1>7
<1>9. \A k \in 1..Len(shown) : From(shown[k].n) # g
  <2>1. ASSUME NEW k \in 1..Len(shown)
        PROVE  shown[k].name # Nobody
    <3>1. shown[k] \in Shown
      BY ElementOfSeq DEF IInv, Typed
    <3> QED
      BY <3>1, RelayAssumption DEF Shown, Names
  <2> QED
    BY <1>2, <1>4, <2>1 DEF IInv, Naming, NameOf
<1>10. Typed'
  <2>1. route' \subseteq Targets
    BY <1>6 DEF FindMapping
  <2>2. batch' \in Seq(Nat) /\ answering' \in Guids \union {Nobody}
    BY <1>2, <1>6, <1>7
  <2> QED
    BY <1>1, <1>3, <1>5, <2>1, <2>2 DEF IInv, Typed
<1>11. Queues' /\ ShownRead'
  BY <1>1 DEF IInv, Queues, Numbered, From, ShownRead
<1>12. Batch'
  BY <1>1, <1>6, <1>7, <1>8 DEF Batch, Numbered, From
<1>13. Lookups'
  <2>1. \A h \in asked : h \in Guids /\ h # g /\ Unanswered(h)
    BY <1>4 DEF IInv, Typed, Lookups
  <2>2. \A i \in 1..Len(wire') :
            wire'[i] \in NamePacket =>
                /\ wire'[i].guid \in Guids /\ wire'[i].guid # g
                /\ Unanswered(wire'[i].guid) /\ wire'[i].guid \notin asked
                /\ \A j \in 1..Len(wire') :
                       wire'[j] \in NamePacket /\ wire'[i].guid = wire'[j].guid => i = j
    BY <1>1, <1>2, <1>3, LookupsAfterRead
  <2>3. \A h \in Guids : h # g /\ Unanswered(h) =>
            pending'[h] # <<>> /\ name_cache'[h] = Nobody
    BY <1>1, <1>5 DEF Unanswered
  <2> QED
    BY <1>1, <2>1, <2>2, <2>3 DEF Lookups, Unanswered
<1>14. Naming'
  <2>1. \A k \in 1..Len(shown) :
            shown[k].name = IF From(shown[k].n) \in Guids
                            THEN name_cache'[From(shown[k].n)] ELSE "guid:0"
    BY <1>5, <1>9 DEF IInv, Naming, NameOf
  <2>2. label' = IF From(batch'[1]) \in Guids
                 THEN name_cache'[From(batch'[1])] ELSE "guid:0"
    BY <1>2, <1>5, <1>6, <1>8
  <2> QED
    BY <1>1, <1>5, <1>6, <2>1, <2>2 DEF Naming, NameOf, From
<1>15. Callback'
  <2>1. answering' # Nobody
    BY <1>2, <1>6, RelayAssumption
  <2> QED
    BY <1>1, <1>4, <1>6, <1>8, <2>1 DEF Callback, From
<1>16. Stranded'
  BY <1>1, <1>3, <1>5, <1>6, RelayAssumption DEF IInv, Stranded, From
<1>17. Order'
  BY <1>1, <1>6, <1>8, <1>9 DEF Order, From
<1>18. Accounted'
  <2>1. ASSUME NEW n \in 1..Len(heard), NEW t \in FindMapping(heard[n])
        PROVE  (Settled(n, t) \/ InHand(n, t) \/ Queued(n))'
    <3>1. CASE Settled(n, t)
      BY <1>1, <3>1 DEF Settled
    <3>2. CASE InHand(n, t)
      BY <1>3, <3>2 DEF InHand
    <3>3. CASE Queued(n)
      <4>1. CASE From(n) # g
        BY <1>1, <1>6, <3>3, <4>1 DEF Queued, From
      <4>2. CASE From(n) = g
        <5>1. PICK j \in 1..Len(batch') : batch'[j] = n
          BY <1>6, <3>3, <4>2 DEF Queued
        <5>2. j = 1 => t \in route'
          BY <1>6, <5>1
        <5> QED
          BY <5>1, <5>2 DEF InHand
      <4> QED
        BY <4>1, <4>2
    <3> QED
      BY <3>1, <3>2, <3>3 DEF IInv, Accounted
  <2> QED
    BY <1>1, <2>1 DEF Accounted, FindMapping
<1> QED
  BY <1>10, <1>11, <1>12, <1>13, <1>14, <1>15, <1>16, <1>17, <1>18 DEF IInv

\* A chat message gets the next number; the messages before it keep theirs.
LEMMA AfterReadChat ==
    ASSUME IInv, ReadChat
    PROVE  /\ Head(wire) \in ChatPacket /\ Head(wire).chat \in Said
           /\ Head(wire).chat.from \in Senders
           /\ heard' \in Seq(Said) /\ Len(heard) \in Nat /\ Len(heard') = Latest
           /\ heard'[Latest] = Head(wire).chat
           /\ \A n \in 1..Len(heard) : n \in 1..Len(heard') /\ heard'[n] = heard[n]
           /\ \A n \in 1..Len(heard') : n \in 1..Len(heard) \/ n = Latest
           /\ \A n \in 1..Len(heard) : n < Latest
           /\ dropped' \subseteq 1..Len(heard')
           /\ ShownRead'
           /\ \A k \in 1..Len(shown) : shown[k].n \in 1..Len(heard)
           /\ UNCHANGED <<name_cache, shown, passed, dropped>>
<1>1. /\ Reading /\ wire' = Tail(wire) /\ "chat" \in DOMAIN Head(wire)
      /\ heard' = Append(heard, Head(wire).chat)
      /\ UNCHANGED <<name_cache, shown, passed, dropped>>
  BY DEF ReadChat
<1>2. Head(wire) \in ChatPacket
  BY <1>1, AtRead, PacketKinds
<1>3. Head(wire).chat \in Said /\ Head(wire).chat.from \in Senders
  BY <1>2, RelayAssumption DEF ChatPacket, Senders
<1>4. heard \in Seq(Said) /\ Len(heard) \in Nat /\ dropped \subseteq 1..Len(heard)
  BY Basics DEF IInv, Typed
<1>5. /\ heard' \in Seq(Said) /\ Len(heard') = Len(heard) + 1
      /\ \A n \in 1..Len(heard) : heard'[n] = heard[n]
      /\ heard'[Len(heard) + 1] = Head(wire).chat
  BY <1>1, <1>3, <1>4, AppendProperties
<1>6. /\ \A n \in 1..Len(heard) : n \in 1..Len(heard') /\ n < Len(heard) + 1
      /\ \A n \in 1..Len(heard') : n \in 1..Len(heard) \/ n = Len(heard) + 1
  BY <1>4, <1>5
<1>7. \A k \in 1..Len(shown) : shown[k].n \in 1..Len(heard)
  BY DEF IInv, ShownRead
<1>8. ShownRead'
  BY <1>1, <1>6, <1>7 DEF ShownRead
<1>9. dropped' \subseteq 1..Len(heard')
  BY <1>1, <1>4, <1>6
<1> QED
  BY <1>1, <1>2, <1>3, <1>4, <1>5, <1>6, <1>7, <1>8, <1>9 DEF Latest

\* A message that is relayed at once is newer than all that was shown.
LEMMA RelayAtOncePreserves ==
    ASSUME IInv, ReadChat, RelayAtOnce(Head(wire).chat)
    PROVE  IInv'
<1> DEFINE msg == Head(wire).chat
<1>1. Reading /\ wire' = Tail(wire) /\ UNCHANGED <<asked, pending, answering>>
  BY DEF ReadChat, RelayAtOnce
<1>2. /\ Head(wire) \in ChatPacket /\ msg \in Said /\ msg.from \in Senders
      /\ heard' \in Seq(Said) /\ Len(heard) \in Nat /\ Len(heard') = Latest
      /\ heard'[Latest] = msg
      /\ \A n \in 1..Len(heard) : n \in 1..Len(heard') /\ heard'[n] = heard[n]
      /\ \A n \in 1..Len(heard') : n \in 1..Len(heard) \/ n = Latest
      /\ \A n \in 1..Len(heard) : n < Latest
      /\ dropped' \subseteq 1..Len(heard')
      /\ ShownRead'
      /\ \A k \in 1..Len(shown) : shown[k].n \in 1..Len(heard)
      /\ UNCHANGED <<name_cache, shown, passed, dropped>>
  BY AfterReadChat
<1>3. /\ batch = <<>> /\ Len(batch) = 0 /\ answering = Nobody
      /\ wire' \in Seq(ChatPacket \union NamePacket)
  BY <1>1, AtRead
<1>4. Latest \in Nat /\ Latest \in 1..Len(heard')
  BY <1>2 DEF Latest
<1>5. /\ batch' = <<Latest>> /\ route' = FindMapping(msg)
      /\ label' = NameOf(msg.from) /\ label' # Nobody
  BY RelayAssumption DEF RelayAtOnce, StartRelay, NameOf
<1>6. batch' \in Seq(Nat) /\ Len(batch') = 1 /\ batch'[1] = Latest
  BY <1>4, <1>5
<1>7. Typed'
  <2>1. route' \subseteq Targets
    BY <1>5 DEF FindMapping
  <2> QED
    BY <1>1, <1>2, <1>3, <1>6, <2>1 DEF IInv, Typed
<1>8. Queues'
  BY <1>1, <1>2 DEF IInv, Queues, Numbered, From
<1>9. Batch'
  <2>1. \A i \in 1..Len(batch') : i = 1
    BY <1>6
  <2>2. \A i, j \in 1..Len(batch') : ~(i < j)
    BY <2>1
  <2> QED
    BY <1>4, <1>6, <2>1, <2>2 DEF Batch, Numbered
<1>10. Lookups'
  BY <1>1, <1>2, LookupsAfterRead DEF IInv, Lookups, Unanswered
<1>11. Naming'
  <2>1. \A k \in 1..Len(shown) : shown[k].name = NameOf(From(shown[k].n))
    BY DEF IInv, Naming
  <2>2. \A k \in 1..Len(shown) : heard'[shown[k].n] = heard[shown[k].n]
    BY <1>2
  <2>3. heard'[batch'[1]].from = msg.from
    BY <1>2, <1>6
  <2> QED
    BY <1>2, <1>5, <2>1, <2>2, <2>3 DEF Naming, NameOf, From
<1>12. Callback'
  BY <1>1, <1>3, <1>6 DEF Callback
<1>13. Stranded'
  <2>1. \A n \in dropped : n \in 1..Len(heard)
    BY DEF IInv, Typed
  <2> QED
    BY <1>1, <1>2, <2>1 DEF IInv, Stranded, From
<1>14. Order'
  BY <1>2, <1>6 DEF Order
<1>15. Accounted'
  <2>1. ASSUME NEW n \in 1..Len(heard'), NEW t \in FindMapping(heard'[n])
        PROVE  (Settled(n, t) \/ InHand(n, t) \/ Queued(n))'
    <3>1. CASE n \in 1..Len(heard)
      <4>1. heard'[n] = heard[n]
        BY <1>2, <3>1
      <4>2. CASE Settled(n, t)
        BY <1>2, <4>2 DEF Settled
      <4>3. CASE Queued(n)
        BY <1>1, <4>1, <4>3 DEF Queued, From
      <4>4. ~InHand(n, t)
        BY <1>3 DEF InHand
      <4> QED
        BY <3>1, <4>1, <4>2, <4>3, <4>4 DEF IInv, Accounted
    <3>2. CASE n = Latest
      BY <1>2, <1>5, <1>6, <3>2 DEF InHand
    <3> QED
      BY <1>2, <3>1, <3>2
  <2> QED
    BY <2>1 DEF Accounted, FindMapping
<1> QED
  BY <1>2, <1>7, <1>8, <1>9, <1>10, <1>11, <1>12, <1>13, <1>14, <1>15 DEF IInv

LEMMA Appending ==
    ASSUME NEW q \in Seq(Nat), NEW n \in Nat
    PROVE  /\ Append(q, n) \in Seq(Nat) /\ Append(q, n) # <<>>
           /\ Len(Append(q, n)) = Len(q) + 1
           /\ \A i \in 1..Len(q) : Append(q, n)[i] = q[i]
           /\ Append(q, n)[Len(q) + 1] = n
BY AppendProperties

\* A message whose sender has no name yet joins the queue of its sender.
LEMMA EnqueuePreserves ==
    ASSUME IInv, ReadChat, EnqueueUnnamed(Head(wire).chat)
    PROVE  IInv'
<1> DEFINE msg == Head(wire).chat
           g == msg.from
<1>1. Reading /\ wire' = Tail(wire) /\ UNCHANGED reader
  BY DEF ReadChat, EnqueueUnnamed
<1>2. /\ Head(wire) \in ChatPacket /\ msg \in Said /\ msg.from \in Senders
      /\ heard' \in Seq(Said) /\ Len(heard) \in Nat /\ Len(heard') = Latest
      /\ heard'[Latest] = msg
      /\ \A n \in 1..Len(heard) : n \in 1..Len(heard') /\ heard'[n] = heard[n]
      /\ \A n \in 1..Len(heard') : n \in 1..Len(heard) \/ n = Latest
      /\ \A n \in 1..Len(heard) : n < Latest
      /\ dropped' \subseteq 1..Len(heard')
      /\ ShownRead'
      /\ \A k \in 1..Len(shown) : shown[k].n \in 1..Len(heard)
      /\ UNCHANGED <<name_cache, shown, passed, dropped>>
  BY AfterReadChat
<1>3. /\ batch = <<>> /\ Len(batch) = 0 /\ answering = Nobody
      /\ wire' \in Seq(ChatPacket \union NamePacket)
      /\ UNCHANGED <<batch, route, label, answering>>
  BY <1>1, AtRead DEF reader
<1>4. Latest \in Nat /\ Latest \in 1..Len(heard')
  BY <1>2 DEF Latest
<1>5. /\ g \in Guids /\ name_cache[g] = Nobody
      /\ pending' = [pending EXCEPT ![g] = Append(@, Latest)]
      /\ asked' = asked \/ (pending[g] = <<>> /\ asked' = asked \union {g})
  BY DEF EnqueueUnnamed
<1>6. /\ pending \in [Guids -> Seq(Nat)] /\ pending[g] \in Seq(Nat)
      /\ Len(pending[g]) \in Nat
  BY <1>5, Basics DEF IInv, Typed
<1>7. /\ Append(pending[g], Latest) \in Seq(Nat)
      /\ Append(pending[g], Latest) # <<>>
      /\ Len(Append(pending[g], Latest)) = Len(pending[g]) + 1
      /\ \A i \in 1..Len(pending[g]) : Append(pending[g], Latest)[i] = pending[g][i]
      /\ Append(pending[g], Latest)[Len(pending[g]) + 1] = Latest
  BY <1>4, <1>6, Appending
<1>8. /\ pending' \in [Guids -> Seq(Nat)] /\ pending'[g] # <<>>
      /\ Len(pending'[g]) = Len(pending[g]) + 1
      /\ \A i \in 1..Len(pending[g]) : pending'[g][i] = pending[g][i]
      /\ pending'[g][Len(pending[g]) + 1] = Latest
      /\ \A h \in Guids : h # g => pending'[h] = pending[h]
  BY <1>5, <1>6, <1>7
<1>9. /\ \A i \in 1..Len(pending'[g]) :
             i \in 1..Len(pending[g]) \/ i = Len(pending[g]) + 1
      /\ \A i \in 1..Len(pending[g]) : i \in 1..Len(pending'[g])
      /\ Len(pending[g]) + 1 \in 1..Len(pending'[g])
  BY <1>6, <1>8
<1>10. Typed'
  <2>1. asked' \subseteq Guids
    BY <1>5 DEF IInv, Typed
  <2> QED
    BY <1>2, <1>3, <1>8, <2>1 DEF IInv, Typed
<1>11. Queues'
  <2>1. ASSUME NEW h \in Guids
        PROVE  (Numbered(pending[h]) /\
                \A i \in 1..Len(pending[h]) : From(pending[h][i]) = h)'
    <3>0. /\ \A i \in 1..Len(pending[h]) :
                 pending[h][i] \in 1..Len(heard) /\ From(pending[h][i]) = h
          /\ \A i, j \in 1..Len(pending[h]) : i < j => pending[h][i] < pending[h][j]
      BY DEF IInv, Queues, Numbered
    <3>1. CASE h # g
      BY <1>2, <1>8, <3>0, <3>1 DEF Numbered, From
    <3>2. CASE h = g
      <4>1. ASSUME NEW i \in 1..Len(pending'[g])
            PROVE  pending'[g][i] \in 1..Len(heard') /\ heard'[pending'[g][i]].from = g
        <5>1. CASE i \in 1..Len(pending[g])
          <6>1. pending'[g][i] = pending[g][i]
            BY <1>8, <5>1
          <6>2. pending[g][i] \in 1..Len(heard) /\ heard[pending[g][i]].from = g
            BY <3>0, <3>2, <5>1 DEF From
          <6>3. /\ pending[g][i] \in 1..Len(heard')
                /\ heard'[pending[g][i]] = heard[pending[g][i]]
            BY <1>2, <6>2
          <6> QED
            BY <6>1, <6>2, <6>3
        <5>2. CASE i = Len(pending[g]) + 1
          BY <1>2, <1>4, <1>8, <5>2
        <5> QED
          BY <1>9, <5>1, <5>2
      <4>2. ASSUME NEW i \in 1..Len(pending'[g]), NEW j \in 1..Len(pending'[g]), i < j
            PROVE  pending'[g][i] < pending'[g][j]
        <5>1. i \in 1..Len(pending[g])
          BY <1>6, <1>8, <4>2
        <5>2. pending'[g][i] = pending[g][i] /\ pending[g][i] \in 1..Len(heard)
          BY <1>8, <3>0, <3>2, <5>1
        <5>3. CASE j \in 1..Len(pending[g])
          BY <1>8, <3>0, <3>2, <4>2, <5>1, <5>2, <5>3
        <5>4. CASE j = Len(pending[g]) + 1
          BY <1>2, <1>8, <5>2, <5>4
        <5> QED
          BY <1>9, <5>3, <5>4
      <4> QED
        BY <3>2, <4>1, <4>2 DEF Numbered, From
    <3> QED
      BY <3>1, <3>2
  <2> QED
    BY <2>1 DEF Queues
<1>12. Batch'
  BY <1>3 DEF Batch, Numbered
<1>13. Lookups'
  <2>1. \A h \in Guids : Unanswered(h) => pending'[h] # <<>> /\ name_cache'[h] = Nobody
    BY <1>2, <1>8 DEF Unanswered
  <2>2. ASSUME NEW h \in asked'
        PROVE  pending'[h] # <<>> /\ name_cache'[h] = Nobody
    <3>1. CASE h \in asked
      BY <2>1, <3>1 DEF IInv, Typed, Lookups
    <3>2. CASE h = g
      BY <1>2, <1>5, <1>8, <3>2
    <3> QED
      BY <1>5, <3>1, <3>2
  <2>3. ASSUME NEW i \in 1..Len(wire'), wire'[i] \in NamePacket
        PROVE  /\ pending'[wire'[i].guid] # <<>> /\ name_cache'[wire'[i].guid] = Nobody
               /\ wire'[i].guid \notin asked'
               /\ \A j \in 1..Len(wire') :
                      wire'[j] \in NamePacket /\ wire'[i].guid = wire'[j].guid => i = j
    <3>1. /\ wire'[i].guid \in Guids
          /\ Unanswered(wire'[i].guid) /\ wire'[i].guid \notin asked
          /\ \A j \in 1..Len(wire') :
                 wire'[j] \in NamePacket /\ wire'[i].guid = wire'[j].guid => i = j
      BY <1>1, <2>3, LookupsAfterRead
    <3>2. wire'[i].guid \notin asked'
      BY <1>5, <3>1 DEF Unanswered
    <3> QED
      BY <2>1, <3>1, <3>2
  <2> QED
    BY <2>2, <2>3 DEF Lookups, Unanswered
<1>14. Naming'
  <2>1. \A k \in 1..Len(shown) : shown[k].name = NameOf(From(shown[k].n))
    BY DEF IInv, Naming
  <2>2. \A k \in 1..Len(shown) : heard'[shown[k].n] = heard[shown[k].n]
    BY <1>2
  <2> QED
    BY <1>2, <1>3, <2>1, <2>2 DEF Naming, NameOf, From
<1>15. Callback' /\ Order'
  BY <1>3 DEF Callback, Order
<1>16. Stranded'
  <2>1. \A n \in dropped : n \in 1..Len(heard)
    BY DEF IInv, Typed
  <2>2. \A n \in dropped : heard'[n] = heard[n]
    BY <1>2, <2>1
  <2>3. ASSUME NEW h \in Guids, pending'[h] # <<>>, name_cache'[h] # Nobody
        PROVE  h = answering' \/ \E n \in dropped' : heard'[n].from = h
    <3>1. h # g
      BY <1>2, <1>5, <2>3
    <3>2. pending[h] # <<>> /\ name_cache[h] # Nobody
      BY <1>2, <1>8, <2>3, <3>1
    <3> QED
      BY <1>2, <1>3, <2>2, <3>2 DEF IInv, Stranded, From
  <2> QED
    BY <2>3 DEF Stranded, From
<1>17. Accounted'
  <2>1. ASSUME NEW n \in 1..Len(heard'), NEW t \in FindMapping(heard'[n])
        PROVE  (Settled(n, t) \/ InHand(n, t) \/ Queued(n))'
    <3>1. CASE n \in 1..Len(heard)
      <4>1. heard'[n] = heard[n]
        BY <1>2, <3>1
      <4>2. CASE Settled(n, t)
        BY <1>2, <4>2 DEF Settled
      <4>3. CASE Queued(n)
        <5>1. /\ heard'[n].from \in Guids /\ heard'[n].from # answering'
              /\ \E j \in 1..Len(pending[From(n)]) : pending[From(n)][j] = n
          BY <1>3, <4>1, <4>3 DEF Queued, From
        <5>2. \E j \in 1..Len(pending'[From(n)]) : pending'[From(n)][j] = n
          <6>1. CASE From(n) = g
            BY <1>8, <1>9, <5>1, <6>1
          <6>2. CASE From(n) # g
            BY <1>8, <4>3, <5>1, <6>2 DEF Queued
          <6> QED
            BY <6>1, <6>2
        <5> QED
          BY <4>1, <5>1, <5>2 DEF Queued, From
      <4>4. ~InHand(n, t)
        BY <1>3 DEF InHand
      <4> QED
        BY <3>1, <4>1, <4>2, <4>3, <4>4 DEF IInv, Accounted
    <3>2. CASE n = Latest
      <4>1. heard'[n].from = g /\ g # answering'
        BY <1>2, <1>3, <1>5, <3>2, RelayAssumption
      <4>2. \E j \in 1..Len(pending'[g]) : pending'[g][j] = n
        BY <1>8, <1>9, <3>2
      <4> QED
        BY <1>5, <4>1, <4>2 DEF Queued, From
    <3> QED
      BY <1>2, <3>1, <3>2
  <2> QED
    BY <2>1 DEF Accounted, FindMapping
<1> QED
  BY <1>2, <1>10, <1>11, <1>12, <1>13, <1>14, <1>15, <1>16, <1>17 DEF IInv

LEMMA IInvPreserved == IInv /\ [Next]_vars => IInv'
<1> SUFFICES ASSUME IInv, [Next]_vars
             PROVE  IInv'
  OBVIOUS
<1>1. CASE ReadChat
  <2>1. RelayAtOnce(Head(wire).chat) \/ EnqueueUnnamed(Head(wire).chat)
    BY <1>1 DEF ReadChat
  <2> QED
    BY <1>1, <2>1, RelayAtOncePreserves, EnqueuePreserves
<1>2. CASE SessionEnds \/ LinkBreaks
  <2>1. /\ UNCHANGED <<name_cache, pending, reader, history>>
        /\ asked' = {} /\ (wire' = wire \/ wire' = <<>>)
    BY <1>2 DEF SessionEnds, SessionOver, LinkBreaks
  <2>2. wire' \in Seq(ChatPacket \union NamePacket) /\ Lookups'
    BY <2>1, EmptyWire
  <2> QED
    BY <2>1, <2>2, OutsideStep
<1>3. CASE Connect \/ UNCHANGED vars
  <2>1. UNCHANGED <<name_cache, pending, reader, history, wire, asked>>
    BY <1>3 DEF Connect, vars, transport
  <2>2. /\ wire' \in Seq(ChatPacket \union NamePacket) /\ asked' \subseteq Guids
        /\ Lookups'
    BY <2>1 DEF IInv, Typed, Lookups, Unanswered
  <2> QED
    BY <2>1, <2>2, OutsideStep
<1> QED
  BY <1>1, <1>2, <1>3, ReadNamePreserves, RelayMappingPreserves,
     RelayMessageDonePreserves, RelayRaisesPreserves, ServerChatPreserves,
     ServerNamePreserves DEF Next, ReaderSteps

LEMMA InductiveInvariant == Spec => []IInv
<1> QED
  BY InitIInv, IInvPreserved, PTL DEF Spec

-----------------------------------------------------------------------------
\* A player goes by one name for as long as the bridge runs, whatever the
\* server answers and however many sessions it takes (bot.py:174, 180-192).
THEOREM OneName == Spec => []OneNamePerSender
<1>1. ASSUME IInv PROVE OneNamePerSender
  <2>1. DOMAIN shown = 1..Len(shown)
    BY <1>1, LenProperties DEF IInv, Typed
  <2> QED
    BY <1>1, <2>1 DEF IInv, Naming, From, OneNamePerSender
<1> QED
  BY <1>1, InductiveInvariant, PTL

\* Only an exception leaves behind the queue of a player whose name is known
\* (bot.py:194-198).
THEOREM QueueLeftOnlyByException == Spec => []StrandedOnlyByException
<1>1. ASSUME IInv PROVE StrandedOnlyByException
  BY <1>1 DEF IInv, Stranded, From, StrandedOnlyByException
<1> QED
  BY <1>1, InductiveInvariant, PTL

\* Every message read is accounted for, in every mapping it matches
\* (bot.py:166-198, 301-361).
THEOREM EveryMessageAccounted == Spec => []NothingVanishes
<1>1. ASSUME IInv PROVE NothingVanishes
  <2>1. /\ DOMAIN heard = 1..Len(heard) /\ DOMAIN shown = 1..Len(shown)
        /\ DOMAIN batch = 1..Len(batch)
        /\ \A g \in Guids : DOMAIN pending[g] = 1..Len(pending[g])
    BY <1>1, Basics, LenProperties DEF IInv, Typed
  <2>2. ASSUME NEW n \in 1..Len(heard), NEW t \in FindMapping(heard[n])
        PROVE  \/ \E j \in DOMAIN shown : shown[j].n = n /\ shown[j].target = t
               \/ [n |-> n, target |-> t] \in passed
               \/ \E j \in DOMAIN batch : batch[j] = n
               \/ n \in dropped
               \/ /\ heard[n].from \in Guids
                  /\ \E j \in DOMAIN pending[heard[n].from] :
                         pending[heard[n].from][j] = n
    <3>1. CASE Settled(n, t)
      BY <2>1, <3>1 DEF Settled
    <3>2. CASE InHand(n, t)
      BY <2>1, <3>2 DEF InHand
    <3>3. CASE Queued(n)
      BY <2>1, <3>3 DEF Queued, From
    <3> QED
      BY <1>1, <3>1, <3>2, <3>3 DEF IInv, Accounted
  <2> QED
    BY <2>1, <2>2 DEF NothingVanishes
<1> QED
  BY <1>1, InductiveInvariant, PTL

-----------------------------------------------------------------------------
\* The refinement: what a reader of Discord sees of the two histories.
Speakers == [n \in DOMAIN heard |-> heard[n].from]
Deliveries == [k \in DOMAIN shown |-> [n |-> shown[k].n, target |-> shown[k].target]]

LEMMA IsAppend ==
    ASSUME NEW S, NEW L \in Nat, NEW q \in [1..L -> S], NEW x \in S,
           NEW r \in [1..(L + 1) -> S],
           \A i \in 1..L : r[i] = q[i], r[L + 1] = x
    PROVE  r = Append(q, x)
<1>1. /\ q \in Seq(S) /\ r \in Seq(S)
  BY SeqDef
<1>2. Len(q) = L /\ Len(r) = L + 1
  BY <1>1, LenProperties
<1>3. /\ Append(q, x) \in Seq(S) /\ Len(Append(q, x)) = L + 1
      /\ \A i \in 1..L : Append(q, x)[i] = q[i]
      /\ Append(q, x)[L + 1] = x
  BY <1>1, <1>2, AppendProperties
<1>4. \A i \in 1..(L + 1) : i \in 1..L \/ i = L + 1
  OBVIOUS
<1>5. \A i \in 1..Len(r) : r[i] = Append(q, x)[i]
  BY <1>2, <1>3, <1>4
<1> QED
  BY <1>1, <1>2, <1>3, <1>5, SeqEqual

\* Reading a chat packet is hearing its sender.
LEMMA ReadingHears ==
    ASSUME IInv, ReadChat
    PROVE  \E s \in Senders : Relay!Hear(s)
<1> DEFINE s == Head(wire).chat.from
<1>1. /\ s \in Senders /\ heard' \in Seq(Said)
      /\ Len(heard) \in Nat /\ Len(heard') = Len(heard) + 1
      /\ heard'[Len(heard) + 1].from = s
      /\ \A n \in 1..Len(heard) : heard'[n] = heard[n]
      /\ UNCHANGED shown
  BY AfterReadChat DEF Latest
<1>2. DOMAIN heard = 1..Len(heard) /\ DOMAIN heard' = 1..(Len(heard) + 1)
  BY <1>1, LenProperties DEF IInv, Typed
<1>3. Speakers \in [1..Len(heard) -> Senders]
  BY <1>2, Basics DEF Speakers, From
<1>4. Speakers' \in [1..(Len(heard) + 1) -> Senders]
  <2>1. \A n \in 1..(Len(heard) + 1) : n \in 1..Len(heard) \/ n = Len(heard) + 1
    BY <1>1
  <2>2. \A n \in 1..(Len(heard) + 1) : heard'[n].from \in Senders
    BY <1>1, <2>1, Basics DEF From
  <2> QED
    BY <1>2, <2>2 DEF Speakers
<1>5. /\ \A n \in 1..Len(heard) : Speakers'[n] = Speakers[n]
      /\ Speakers'[Len(heard) + 1] = s
  BY <1>1, <1>2 DEF Speakers
<1>6. Speakers' = Append(Speakers, s)
  BY <1>1, <1>3, <1>4, <1>5, IsAppend
<1>7. \E p \in Senders : Speakers' = Append(Speakers, p)
  BY <1>1, <1>6
<1> QED
  BY <1>1, <1>7 DEF Relay!Hear, Speakers

\* Relaying through a mapping shows the message in order, or nothing.
LEMMA RelayingShows ==
    ASSUME IInv, RelayMapping
    PROVE  \/ \E n \in DOMAIN Speakers, t \in Targets : Relay!Show(n, t)
           \/ UNCHANGED <<heard, shown>>
<1>1. PICK t \in route :
          /\ route' = route \ {t}
          /\ \/ shown' = Append(shown, [n |-> Head(batch), target |-> t, name |-> label])
             \/ UNCHANGED shown
  BY DEF RelayMapping, Foremost
<1>2. batch # <<>> /\ UNCHANGED heard
  BY DEF RelayMapping, Foremost
<1> SUFFICES ASSUME shown' = Append(shown, [n |-> Head(batch), target |-> t,
                                            name |-> label])
             PROVE  \E n \in DOMAIN Speakers, u \in Targets : Relay!Show(n, u)
  BY <1>1, <1>2
<1> DEFINE n == batch[1]
           entry == [n |-> n, target |-> t, name |-> label]
<1>3. /\ Len(batch) \in Nat \ {0} /\ n \in 1..Len(heard) /\ Head(batch) = n
      /\ Len(heard) \in Nat /\ Len(shown) \in Nat /\ t \in Targets
  <2>1. Len(batch) \in Nat /\ Len(batch) > 0 /\ batch \in Seq(Nat)
    BY <1>2, Basics DEF IInv, Typed
  <2>2. 1 \in 1..Len(batch)
    BY <2>1
  <2>3. Head(batch) = n
    BY <2>1
  <2>4. t \in Targets
    BY DEF IInv, Typed
  <2> QED
    BY <2>1, <2>2, <2>3, <2>4, Basics DEF IInv, Batch, Numbered
<1>4. n \in Nat
  BY <1>3
<1>5. label \in Names \union {"guid:0"}
  <2>1. label = NameOf(From(batch[1])) /\ label # Nobody
    BY <1>2 DEF IInv, Naming
  <2>2. From(batch[1]) \in Guids =>
            name_cache[From(batch[1])] \in Names \union {Nobody}
    BY DEF IInv, Typed
  <2> QED
    BY <2>1, <2>2 DEF NameOf
<1>6. shown \in Seq(Shown) /\ entry \in Shown
  BY <1>3, <1>4, <1>5 DEF IInv, Typed, Shown
<1>7. /\ shown' \in Seq(Shown) /\ Len(shown') = Len(shown) + 1
      /\ \A k \in 1..Len(shown) : shown'[k] = shown[k]
      /\ shown'[Len(shown) + 1] = entry
  BY <1>3, <1>6, AppendProperties
<1>8. /\ DOMAIN shown = 1..Len(shown) /\ DOMAIN shown' = 1..(Len(shown) + 1)
      /\ DOMAIN heard = 1..Len(heard)
  BY <1>6, <1>7, LenProperties DEF IInv, Typed
<1> DEFINE Made == [n : Nat, target : Targets]
<1>9. Deliveries \in [1..Len(shown) -> Made]
  <2>1. \A k \in 1..Len(shown) : shown[k] \in Shown
    BY <1>6, ElementOfSeq
  <2> QED
    BY <1>8, <2>1 DEF Deliveries, Shown
<1>10. Deliveries' \in [1..(Len(shown) + 1) -> Made]
  <2>1. \A k \in 1..(Len(shown) + 1) : shown'[k] \in Shown
    BY <1>7, ElementOfSeq
  <2> QED
    BY <1>8, <2>1 DEF Deliveries, Shown
<1>11. /\ \A k \in 1..Len(shown) : Deliveries'[k] = Deliveries[k]
       /\ Deliveries'[Len(shown) + 1] = [n |-> n, target |-> t]
  BY <1>3, <1>7, <1>8 DEF Deliveries
<1>12. Deliveries' = Append(Deliveries, [n |-> n, target |-> t])
  <2>1. [n |-> n, target |-> t] \in Made
    BY <1>3, <1>4
  <2> QED
    BY <1>3, <1>9, <1>10, <1>11, <2>1, IsAppend
<1>13. Relay!InOrder(n, t)
  <2>1. ASSUME NEW k \in 1..Len(shown), shown[k].target = t,
               heard[shown[k].n].from = heard[n].from
        PROVE  shown[k].n < n
    BY <1>2, <2>1 DEF IInv, Order, From
  <2>2. \A k \in 1..Len(shown) : shown[k].n \in 1..Len(heard)
    BY DEF IInv, ShownRead
  <2>3. /\ DOMAIN Deliveries = 1..Len(shown) /\ Speakers[n] = heard[n].from
        /\ \A k \in 1..Len(shown) :
               /\ Deliveries[k].target = shown[k].target
               /\ Deliveries[k].n = shown[k].n
               /\ Speakers[shown[k].n] = heard[shown[k].n].from
    BY <1>3, <1>8, <2>2 DEF Deliveries, Speakers
  <2>4. \A k \in DOMAIN Deliveries :
            Deliveries[k].target = t /\ Speakers[Deliveries[k].n] = Speakers[n]
                => Deliveries[k].n < n
    BY <2>1, <2>3
  <2> QED
    BY <2>4 DEF Relay!InOrder, Deliveries, Speakers
<1>14. Relay!Show(n, t)
  BY <1>2, <1>12, <1>13 DEF Relay!Show, Deliveries, Speakers
<1> QED
  BY <1>3, <1>8, <1>14 DEF Speakers

\* The relay delivers the messages of a sender through a mapping in the order
\* they were said, none of them twice (bot.py:166-198).
THEOREM ImplementsOrder == Spec => FollowsOrder
<1>1. Init => Relay!Init
  BY EmptySeq DEF Init, Relay!Init
<1>2. IInv /\ [Next]_vars => [Relay!Next]_(Relay!vars)
  <2> SUFFICES ASSUME IInv, [Next]_vars
               PROVE  Relay!Next \/ UNCHANGED Relay!vars
    OBVIOUS
  <2>1. CASE ReadChat
    BY <2>1, ReadingHears DEF Relay!Next
  <2>2. CASE RelayMapping
    BY <2>2, RelayingShows DEF Relay!Next, Relay!vars, Speakers
  <2>3. CASE UNCHANGED <<heard, shown>>
    BY <2>3 DEF Relay!vars
  <2> QED
    BY <2>1, <2>2, <2>3 DEF Next, ReaderSteps, ReadName, RelayMessageDone,
       RelayRaises, SessionEnds, Connect, ServerChat, ServerName, LinkBreaks,
       history, vars
<1> QED
  BY <1>1, <1>2, InductiveInvariant, PTL DEF Spec, FollowsOrder, Relay!Spec
=============================================================================
