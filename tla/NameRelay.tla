------------------------------ MODULE NameRelay -----------------------------
(***************************************************************************)
(* WoW -> Discord: WorldClient.run of world/world_client.py reads packets  *)
(* one at a time and awaits the bridge's callback for each, so one task    *)
(* does everything below except what the servers do.  A chat packet names  *)
(* its sender by guid only; on_wow_chat and on_wow_name_query_response of  *)
(* discord_bridge/bot.py look the name up, queue what comes meanwhile and  *)
(* relay it.  The name cache and the queues belong to the bridge and       *)
(* outlive the sessions; the wire and the server's duties do not.          *)
(***************************************************************************)
EXTENDS Routing

CONSTANTS
    Guids,         \* players
    System,        \* sender guid 0
    Nobody,        \* no guid, no name
    Said,          \* chat packets: [from, type, channel]
    MaxSessions,   \* bounds on the sessions and on the chat packets sent
    MaxSent

ASSUME RelayAssumption ==
    /\ System \notin Guids
    /\ Nobody \notin Guids /\ Nobody \notin {"known", "UNKNOWN", "guid:0"}
    /\ \A msg \in Said : msg.from \in Guids \union {System}

Senders == Guids \union {System}

VARIABLES
    session,      \* how many times the bridge has connected
    link,         \* "down", "up", or "cut": dead, and the reader not yet aware
    wire,         \* packets on their way to the reader
    asked,        \* name queries the server has yet to answer
    sent,         \* chat packets sent by the server so far
    name_cache,   \* guid -> name, Nobody when absent
    pending,      \* pending_chat_queues: guid -> messages, <<>> when absent
    batch,        \* the messages the current callback has yet to relay ...
    route,        \* ... and the mappings still ahead of the first of them
    label,        \* the name they are shown under
    answering,    \* the guid whose queue they are, or Nobody
    heard,        \* history: the chat messages read, in order
    shown,        \* history: deliveries made
    passed,       \* history: deliveries a mapping left out
    dropped,      \* history: messages cut short by an exception
    opened        \* history: the session in which a guid's queue was created

transport == <<session, link, wire, asked, sent>>
reader == <<batch, route, label, answering>>
history == <<heard, shown, passed, dropped, opened>>
vars == <<transport, name_cache, pending, reader, history>>

Names == {"known", "UNKNOWN"}    \* a name, or the server does not know

Init ==
    /\ session = 0 /\ link = "down" /\ wire = <<>> /\ asked = {} /\ sent = 0
    /\ name_cache = [g \in Guids |-> Nobody]
    /\ pending = [g \in Guids |-> <<>>]
    /\ batch = <<>> /\ route = {} /\ label = Nobody /\ answering = Nobody
    /\ heard = <<>> /\ shown = <<>> /\ passed = {} /\ dropped = {}
    /\ opened = [g \in Guids |-> 0]

-----------------------------------------------------------------------------
\* The WoW server and the connection (external).
Connect ==
    /\ link = "down"
    /\ session < MaxSessions
    /\ session' = session + 1
    /\ link' = "up"
    /\ UNCHANGED <<wire, asked, sent, name_cache, pending, reader, history>>

ServerChat ==
    /\ link = "up"
    /\ sent < MaxSent
    /\ sent' = sent + 1
    /\ \E msg \in Said : wire' = Append(wire, [chat |-> msg])
    /\ UNCHANGED <<session, link, asked, name_cache, pending, reader, history>>

ServerName ==
    /\ link = "up"
    /\ \E g \in asked, name \in Names :
           /\ wire' = Append(wire, [guid |-> g, name |-> name])
           /\ asked' = asked \ {g}
    /\ UNCHANGED <<session, link, sent, name_cache, pending, reader, history>>

LinkBreaks ==
    /\ link = "up"
    /\ link' = "cut"
    /\ asked' = {}
    /\ UNCHANGED <<session, wire, sent, name_cache, pending, reader, history>>

-----------------------------------------------------------------------------
\* The reader.  Start a callback's relaying: numbers of messages, their label.
StartRelay(numbers, name, said) ==
    /\ batch' = numbers
    /\ route' = FindMapping(said)
    /\ label' = name

Reading == link # "down" /\ batch = <<>> /\ wire # <<>>

Latest == Len(heard) + 1    \* the number of the message being read

\* Mutant: a message is relayed ahead of the queue of its sender.
RelayAtOnce_AheadOfQueue(msg) ==
    /\ \/ msg.from = System /\ StartRelay(<<Latest>>, "guid:0", msg)
       \/ /\ msg.from \in Guids
          /\ name_cache[msg.from] # Nobody \/ pending[msg.from] # <<>>
          /\ StartRelay(<<Latest>>, name_cache[msg.from], msg)
    /\ UNCHANGED <<asked, pending, answering, opened>>

\* on_wow_chat: no name needed, or the name is in the cache.
RelayAtOnce(msg) ==
    /\ \/ msg.from = System /\ StartRelay(<<Latest>>, "guid:0", msg)
       \/ /\ msg.from \in Guids
          /\ name_cache[msg.from] # Nobody
          /\ StartRelay(<<Latest>>, name_cache[msg.from], msg)
    /\ UNCHANGED <<asked, pending, answering, opened>>

\* Mutants: a name is asked for whenever it is missing; only the first message
\* of a sender is queued.
EnqueueUnnamed_AskAgain(msg) ==
    /\ msg.from \in Guids
    /\ name_cache[msg.from] = Nobody
    /\ asked' = IF link = "up" THEN asked \union {msg.from} ELSE asked
    /\ opened' = [opened EXCEPT ![msg.from] = session]
    /\ pending' = [pending EXCEPT ![msg.from] = Append(@, Latest)]
    /\ UNCHANGED reader

EnqueueUnnamed_FirstOnly(msg) ==
    /\ msg.from \in Guids
    /\ name_cache[msg.from] = Nobody
    /\ IF pending[msg.from] = <<>>
       THEN /\ asked' = IF link = "up" THEN asked \union {msg.from} ELSE asked
            /\ opened' = [opened EXCEPT ![msg.from] = session]
            /\ pending' = [pending EXCEPT ![msg.from] = Append(@, Latest)]
       ELSE UNCHANGED <<asked, opened, pending>>
    /\ UNCHANGED reader

\* on_wow_chat: queue the message; the first of a queue sends the query, and
\* a query that cannot be sent is logged and forgotten.
EnqueueUnnamed(msg) ==
    /\ msg.from \in Guids
    /\ name_cache[msg.from] = Nobody
    /\ IF pending[msg.from] = <<>>
       THEN /\ asked' = IF link = "up" THEN asked \union {msg.from} ELSE asked
            /\ opened' = [opened EXCEPT ![msg.from] = session]
       ELSE UNCHANGED <<asked, opened>>
    /\ pending' = [pending EXCEPT ![msg.from] = Append(@, Latest)]
    /\ UNCHANGED reader

ReadChat ==
    /\ Reading
    /\ "chat" \in DOMAIN Head(wire)
    /\ wire' = Tail(wire)
    /\ LET msg == Head(wire).chat IN
           /\ RelayAtOnce(msg) \/ EnqueueUnnamed(msg)
           /\ heard' = Append(heard, msg)
    /\ UNCHANGED <<session, link, sent, name_cache, shown, passed, dropped>>

\* Mutant: the answer fills the cache and nothing else.
AnswerQueue_CacheOnly(g, name) == UNCHANGED <<batch, route, label, answering>>

\* on_wow_name_query_response, after the cache is filled.
AnswerQueue(g, name) ==
    IF pending[g] # <<>>
    THEN /\ StartRelay(pending[g], name, heard[pending[g][1]])
         /\ answering' = g
    ELSE UNCHANGED reader

ReadName ==
    /\ Reading
    /\ "name" \in DOMAIN Head(wire)
    /\ wire' = Tail(wire)
    /\ LET answer == Head(wire) IN
           /\ name_cache' = [name_cache EXCEPT ![answer.guid] = answer.name]
           /\ AnswerQueue(answer.guid, answer.name)
    /\ UNCHANGED <<session, link, asked, sent, pending, history>>

\* One mapping of _send_wow_chat_to_discord: the message is sent, or left out
\* by a filter, an unknown channel or a failed send, which is swallowed.
RelayMapping ==
    /\ batch # <<>>
    /\ \E t \in Foremost(route) :
        /\ route' = route \ {t}
        /\ \/ /\ shown' = Append(shown, [n |-> Head(batch), target |-> t,
                                         name |-> label])
              /\ UNCHANGED passed
           \/ /\ passed' = passed \union {[n |-> Head(batch), target |-> t]}
              /\ UNCHANGED shown
    /\ UNCHANGED <<transport, name_cache, pending, batch, label, answering>>
    /\ UNCHANGED <<heard, dropped, opened>>

\* Mutant: the queue is kept once it has been relayed.
RelayMessageDone_KeepQueue ==
    /\ batch # <<>> /\ route = {}
    /\ batch' = Tail(batch)
    /\ IF batch' # <<>>
       THEN /\ route' = FindMapping(heard[Head(batch')])
            /\ UNCHANGED <<label, answering>>
       ELSE /\ route' = {} /\ label' = Nobody /\ answering' = Nobody
    /\ UNCHANGED <<transport, name_cache, pending, history>>

\* The next message of the queue, or the end of the callback: the queue of an
\* answered guid is deleted when all of it has been relayed.
RelayMessageDone ==
    /\ batch # <<>> /\ route = {}
    /\ batch' = Tail(batch)
    /\ IF batch' # <<>>
       THEN /\ route' = FindMapping(heard[Head(batch')])
            /\ UNCHANGED <<label, answering, pending>>
       ELSE /\ route' = {} /\ label' = Nobody /\ answering' = Nobody
            /\ pending' = [g \in Guids |->
                               IF g = answering THEN <<>> ELSE pending[g]]
    /\ UNCHANGED <<transport, name_cache, history>>

SessionOver ==
    /\ link' = "down"
    /\ wire' = <<>>
    /\ asked' = {}
    /\ UNCHANGED <<session, sent, name_cache, pending>>

\* An exception outside the guarded send (a mention lookup in a channel whose
\* members have no names, a filter that is no string) leaves the callback and
\* WorldClient.run with it.
RelayRaises ==
    /\ batch # <<>> /\ route # {}
    /\ SessionOver
    /\ batch' = <<>> /\ route' = {} /\ label' = Nobody /\ answering' = Nobody
    /\ dropped' = dropped \union {Head(batch)}
    /\ UNCHANGED <<heard, shown, passed, opened>>

\* The reader meets the end of the stream, an error or 90 s of silence; what
\* an error overtakes is lost.
SessionEnds ==
    /\ link = "cut" /\ batch = <<>>
    /\ SessionOver
    /\ UNCHANGED <<reader, history>>

-----------------------------------------------------------------------------
ReaderSteps == ReadChat \/ ReadName \/ RelayMapping \/ RelayMessageDone

Next ==
    \/ ReaderSteps \/ RelayRaises \/ SessionEnds
    \/ Connect \/ ServerChat \/ ServerName \/ LinkBreaks

Spec == Init /\ [][Next]_vars

\* The reader is scheduled and the server answers every query it received.
FairSpec == Spec /\ WF_vars(ReaderSteps) /\ WF_vars(ServerName)

-----------------------------------------------------------------------------
\* The deliveries follow the abstract relay: in order for each sender and
\* mapping, never twice, across lookups, exceptions and reconnections
\* (bot.py:166-198).
Relay == INSTANCE OrderedRelay WITH
             heard <- [n \in DOMAIN heard |-> heard[n].from],
             shown <- [k \in DOMAIN shown |->
                          [n |-> shown[k].n, target |-> shown[k].target]]

FollowsOrder == Relay!Spec

\* A player goes by one name for as long as the bridge runs, whatever was
\* answered, in whichever session (bot.py:174, 180-192).
OneNamePerSender ==
    \A j, k \in DOMAIN shown :
        heard[shown[j].n].from = heard[shown[k].n].from
            => shown[j].name = shown[k].name

\* A queue of a player whose name is known is being relayed at this moment,
\* unless an exception interrupted it (bot.py:194-198).
StrandedOnlyByException ==
    \A g \in Guids :
        pending[g] # <<>> /\ name_cache[g] # Nobody =>
            g = answering \/ \E n \in dropped : heard[n].from = g

\* Every message read is, for each mapping it matches, delivered, left out
\* for cause, queued, in the reader's hands, or cut short by an exception.
NothingVanishes ==
    \A n \in DOMAIN heard : \A t \in FindMapping(heard[n]) :
        \/ \E j \in DOMAIN shown : shown[j].n = n /\ shown[j].target = t
        \/ [n |-> n, target |-> t] \in passed
        \/ \E j \in DOMAIN batch : batch[j] = n
        \/ n \in dropped
        \/ /\ heard[n].from \in Guids
           /\ \E j \in DOMAIN pending[heard[n].from] :
                  pending[heard[n].from][j] = n

\* A queue created in the session that is up is relayed and deleted, or the
\* session ends (bot.py:179-198).
FreshQueueServed ==
    \A g \in Guids :
        (pending[g] # <<>> /\ opened[g] = session /\ link = "up")
            ~> (pending[g] = <<>> \/ link # "up")

-----------------------------------------------------------------------------
\* SETUP.md:100-101, a message said in guild chat "should show up on the other
\* side within a second or two": in a session that stays up, nothing the
\* bridge has read waits for ever.
NothingWaitsForever ==
    \A g \in Guids :
        (pending[g] # <<>> /\ link = "up") ~> (pending[g] = <<>> \/ link # "up")
=============================================================================
