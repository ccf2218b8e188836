---------------------------- MODULE DiscordRelay ----------------------------
(***************************************************************************)
(* Discord -> WoW: WowBridge.on_discord_message of discord_bridge/bot.py,  *)
(* composed with the reconnection loop.  Every Discord message is handled  *)
(* by a task of its own.  A handler walks over the mappings, reads         *)
(* self.world again for each of them and awaits each send, so the loop and *)
(* the other handlers run in between.                                      *)
(***************************************************************************)
EXTENDS Routing

CONSTANTS
    Posts,                   \* Discord messages: [channel, author, text]
    Commands,                \* texts that start with the command prefix
    MaxExponent, MaxCount,   \* bounds of Lifecycle
    MaxPosts, MaxClients     \* bounds on the messages and on the sessions

ASSUME RelayAssumption ==
    /\ MaxExponent \in Nat /\ MaxCount \in Nat \ {0}
    /\ MaxPosts \in Nat /\ MaxClients \in Nat

\* encode_messagechat raises for a channel without a name, and for a whisper,
\* whose addressee send_chat is never given.  The handler logs it and goes on.
Encodable(mapping) ==
    /\ mapping.chat_type # "whisper"
    /\ mapping.chat_type = "channel" => mapping.wow_channel # ""

\* The mappings a message is sent to.
Route(post) ==
    {t \in Targets : /\ Mappings[t].direction \in {"discord_to_wow", "both"}
                     /\ Mappings[t].discord_channel = post.channel
                     /\ Mappings[t].chat_type \in KnownTypes
                     /\ post.text \notin Mappings[t].filters
                     /\ Encodable(Mappings[t])}

-----------------------------------------------------------------------------
VARIABLES
    pc, sock, world, attempt, wait, ever_connected, down_notified,
    fatal_notified, discord_closed, cause, abandoned, timeouts,
    told, seen, beat,        \* the reconnection loop, see Lifecycle
    client,     \* how often self.world was assigned: which client it names
    closed,     \* the clients that were closed
    handlers,   \* per relayed message: its mappings, those still ahead, the
                \* client it sent to last, and whether self.world has been
                \* one open client since it began
    sends       \* history: the sends begun, in order

Loop == INSTANCE Lifecycle
loop == <<pc, sock, world, attempt, wait, ever_connected, down_notified,
          fatal_notified, discord_closed, cause, abandoned, timeouts, told, seen, beat>>
vars == <<loop, client, closed, handlers, sends>>

Init == Loop!Init /\ client = 0 /\ closed = {}
        /\ handlers = <<>> /\ sends = <<>>

-----------------------------------------------------------------------------
\* The handlers that await the drain() of their client.
Suspended == {n \in DOMAIN handlers : handlers[n].left # {}}

\* send_chat: the packet is written before the first await; a closed writer
\* swallows it and drain() raises.
BeginSend(n, target) ==
    sends' = Append(sends, [n |-> n, target |-> target, client |-> client,
                            writer |-> world])

\* Messages of bots, commands and messages that find no client leave no trace
\* here, nor do those without a mapping.
Accepts(post) ==
    /\ post.author # "bot"
    /\ world # "none"
    /\ post.text \notin Commands

NewHandler(post, left) ==
    handlers' = Append(handlers, [route |-> Route(post), left |-> left,
                                  client |-> client, steady |-> world = "open"])

\* Mutant: the handler awaits something before its first send.
Receive_AwaitFirst ==
    /\ ~discord_closed /\ Len(handlers) < MaxPosts
    /\ \E post \in Posts : /\ Accepts(post) /\ Route(post) # {}
                          /\ NewHandler(post, Route(post))
    /\ UNCHANGED <<loop, client, closed, sends>>

\* on_discord_message, up to its first await.
Receive ==
    /\ ~discord_closed /\ Len(handlers) < MaxPosts
    /\ \E post \in Posts : \E t \in Foremost(Route(post)) :
        /\ Accepts(post)
        /\ NewHandler(post, Route(post) \ {t})
        /\ BeginSend(Len(handlers) + 1, t)
    /\ UNCHANGED <<loop, client, closed>>

\* Mutant: the handler is done once a mapping has taken the message.
Resume_FirstMappingOnly(n) ==
    /\ handlers' = [handlers EXCEPT ![n].left = {}]
    /\ UNCHANGED <<loop, client, closed, sends>>

\* drain() has returned or raised: on to the next mapping.  With self.world
\* None every remaining send raises AttributeError, and the handler ends.
Resume(n) ==
    /\ IF world # "none"
       THEN \E t \in Foremost(handlers[n].left) :
                /\ handlers' = [handlers EXCEPT ![n].left = @ \ {t},
                                                ![n].client = client]
                /\ BeginSend(n, t)
       ELSE /\ handlers' = [handlers EXCEPT ![n].left = {}]
            /\ UNCHANGED sends
    /\ UNCHANGED <<loop, client, closed>>

\* A step of the reconnection loop, which may assign, close or clear
\* self.world under the handlers' feet.  Closing a client wakes the handlers
\* that drain it; they need a few turns of the event loop, and are through
\* before the delay of the next attempt is over.
LoopStep ==
    /\ Loop!Next
    /\ client' = IF pc = "enter" /\ pc' = "roster" THEN client + 1 ELSE client
    /\ client' <= MaxClients
    /\ closed' = IF world' = "closed" THEN closed \union {client} ELSE closed
    /\ pc = "sleep" /\ pc' = "top" => \A n \in Suspended : handlers[n].client \notin closed
    /\ handlers' = [n \in DOMAIN handlers |->
            [handlers[n] EXCEPT !.steady =
                @ /\ (n \in Suspended => world' = "open" /\ client' = client)]]
    /\ UNCHANGED sends

Next == Receive \/ (\E n \in Suspended : Resume(n)) \/ LoopStep

Spec == Init /\ [][Next]_vars

-----------------------------------------------------------------------------
\* A message whose handler saw one open client from beginning to end was
\* written for every mapping of its route, once and in the configured order,
\* whatever the other handlers did at its awaits (bot.py:282-308).
WholeInSession ==
    \A n \in DOMAIN handlers \ Suspended :
        LET mine == {i \in DOMAIN sends : sends[i].n = n}
        IN  handlers[n].steady =>
                /\ handlers[n].route = {sends[i].target : i \in mine}
                /\ \A i, j \in mine : i < j => sends[i].target < sends[j].target
                /\ \A i \in mine : /\ sends[i].writer = "open"
                                   /\ sends[i].client = handlers[n].client

\* Messages appear in the first mapping of their route in the order they were
\* received: nothing is awaited before the first send.  (In the later ones a
\* message may be overtaken.)
FirstMappingInOrder ==
    \A i, j \in DOMAIN sends :
        /\ i < j
        /\ \A k \in {i, j} : sends[k].target \in Foremost(handlers[sends[k].n].route)
        => sends[i].n < sends[j].n

\* A message is not spread over two sessions: closing a client ends its
\* handlers before there is another.  Only a client left behind by a timeout,
\* which nobody closes, can hold a handler back until then.
OneClientPerMessage ==
    timeouts = 0 => \A i, j \in DOMAIN sends :
        sends[i].n = sends[j].n => sends[i].client = sends[j].client

\* Chat is written only to a character in the world, and lost in a closed
\* writer only while the session's `finally` awaits wait_closed() -- but for a
\* client that a timeout left in self.world (bot.py:484-488, 597-601).
SendsMeetASession ==
    [][sends' # sends /\ timeouts = 0 =>
        pc \in IF sends'[Len(sends')].writer = "open"
              THEN {"roster", "connected", "running"} ELSE {"ending"}]_vars
=============================================================================
