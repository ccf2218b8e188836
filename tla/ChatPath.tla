------------------------------ MODULE ChatPath ------------------------------
(***************************************************************************)
(* From a chat packet to the text posted in Discord: the decoders of Codec *)
(* and, for a message, the text pipeline of Text as                        *)
(* _send_wow_chat_to_discord runs it for each mapping (bot.py:119-164).    *)
(* A packet cut short hands the pipeline a message cut short, in the       *)
(* middle of a colour marker too.  Which mappings apply, and whether a     *)
(* channel is found, is NameRelay's part.                                  *)
(***************************************************************************)
EXTENDS Codec, Text

CONSTANTS
    Mappings,   \* the mappings the message goes through: [filters, template]
    Sender,     \* the sender's name, and the other fillings of a template
    Label,
    Clock

VARIABLE posted  \* per mapping the text sent, or NotPosted; <<>> until then

chatVars == <<packet, handed, posted>>

NotPosted == <<>>

Trophy == 85  \* the wording of an achievement, which has no template

\* Nobody types a mention or a rendered link, and neither the configuration nor a
\* name has one, or the bar of a marker; no name or time has a placeholder;
\* filters are about words.
ASSUME ChatPathAssumption ==
    LET strange == {Bar} \cup RenderedLinks \cup Pinging
        fillings == {Sender, Label, Clock}
    IN  /\ fillings \subseteq Seq(Nat)
        /\ \A s \in fillings : ToSet(s) \cap (strange \cup Placeholders) = {}
        /\ Mappings \in Seq([filters : Seq(Nat), template : Seq(Nat)])
        /\ \A m \in DOMAIN Mappings :
              /\ ToSet(Mappings[m].template) \cap strange = {}
              /\ ToSet(Mappings[m].filters) \cap (MarkerChars \cup Links \cup RenderedLinks) = {}
        /\ Trophy \notin strange
        /\ \A c \in Chats : ToSet(c.text) \cap (RenderedLinks \cup Pinging) = {}

Post(mapping, chat) ==
    LET clean == CleanMessage(chat.text)
        message == resolve_wow_mentions(clean)
    IN  IF matches_any_filter(mapping.filters, clean) THEN NotPosted
        ELSE IF chat.head[1] = Achievement THEN Append(Sender, Trophy) \o message
        ELSE format_relay_message(mapping.template, Sender, message, Label, Clock)

-----------------------------------------------------------------------------
ChatInit == Init /\ posted = <<>>

\* A message for the callback on_wow_chat, its sender known.
Relayable == Is("chat") /\ handed # Raised

Relay ==
    /\ Relayable /\ posted = <<>>
    /\ posted' = [m \in DOMAIN Mappings |-> Post(Mappings[m], handed.value)]
    /\ UNCHANGED vars

Done ==
    /\ Relayable => posted # <<>>
    /\ Handled
    /\ posted' = <<>>

Decode == (Arrives \/ Dispatch \/ SendChat) /\ UNCHANGED posted

ChatNext == Decode \/ Relay \/ Done

ChatSpec == ChatInit /\ [][ChatNext]_chatVars

-----------------------------------------------------------------------------
\* What was said, and the texts it was posted as.
Said == handed.value.text

PostedTo == {m \in DOMAIN posted : posted[m] # NotPosted}

\* The template that m gives to the message; an achievement's wording is fixed.
Wording(m) == IF handed.value.head[1] = Achievement THEN <<Message>>
              ELSE Mappings[m].template

\* However a message is coloured, nested or cut, every whole link in it reaches
\* Discord, readable and in order, wherever the template has the message, and
\* nothing else reaches it as a link (bot.py:120-127: the links must be resolved
\* before the colours go).
LinksReadable ==
    \A m \in PostedTo :
       LET shown == FlattenSeq([i \in DOMAIN posted[m] |->
                        IF posted[m][i] \in RenderedLinks
                        THEN <<posted[m][i]>> ELSE <<>>])
           links == FlattenSeq([i \in DOMAIN Said |->
                        IF LinkAt(Said, i) THEN <<Rendered(Said[i])>> ELSE <<>>])
       IN  shown = FlattenSeq([i \in DOMAIN Wording(m) |->
                        IF Wording(m)[i] = Message THEN links ELSE <<>>])

\* A text whose bars all begin a whole marker, whether or not the markers match.
WellMarked(text) ==
    \A i \in DOMAIN text : text[i] = Bar => StartAt(text, i) \/ EndAt(text, i)

\* The text with every marker taken out at once and its links shown.
Uncoloured(text) ==
    FlattenSeq([i \in DOMAIN text |->
        IF LinkAt(text, i) THEN <<Rendered(text[i])>>
        ELSE IF i \in Covered(Starts(text), Ends(text)) THEN <<>> ELSE <<text[i]>>])

\* The three passes take out exactly the markers of a message, in pairs or not,
\* nested or cut between two of them, and nothing else of it, if its bars are
\* all markers'; none is left in the post (resolver.py:41-46).
MarkersGo ==
    \A m \in PostedTo :
       WellMarked(Said) => /\ CleanMessage(Said) = Uncoloured(Said)
                           /\ Bar \notin ToSet(posted[m])

\* Each mapping withholds exactly the messages that contain what one of its
\* valid filters forbids, wherever invalid ones stand among them, and posts any
\* other with its template filled in one pass as far as anyone can tell: a
\* placeholder that a player types stays as typed (formatting.py:33-58).
PostedAsConfigured ==
    \A m \in DOMAIN posted :
       LET template == Mappings[m].template
           forbidden == ToSet(Mappings[m].filters) \ {Invalid}
           Fill(token) == CASE token = Time -> Clock
                            [] token = ChannelName -> Label
                            [] token = User -> Sender
                            [] token = Message -> resolve_wow_mentions(CleanMessage(Said))
                            [] OTHER -> <<token>>
       IN  IF forbidden \cap ToSet(Said) # {} THEN posted[m] = NotPosted
           ELSE \/ handed.value.head[1] = Achievement /\ posted[m] # NotPosted
                \/ posted[m] = FlattenSeq([i \in DOMAIN template |-> Fill(template[i])])

\* How well a role or member fits a tag: by a whole name, by a word, or not.
Fit(names, tag) == IF tag \in names THEN 2
                   ELSE IF \E n \in names : tag \in Words[n] THEN 1 ELSE 0

\* A tag pings the one role or member that fits it best, is left alone when
\* two fit equally or nobody does, and never pings the bridge itself; a member
\* with several fitting names is still one (mentions.py:24-69).
PingsAreUnambiguous ==
    LET people == {[names |-> m.names, mention |-> m.mention] :
                      m \in {x \in Members : ~x.bot}}
                  \cup {[names |-> {r.name}, mention |-> r.mention] : r \in Roles}
        Best(tag) == {p \in people : /\ Fit(p.names, tag) > 0
                                     /\ \A q \in people : Fit(q.names, tag) <= Fit(p.names, tag)}
        Pings(tag) == {p.mention : p \in {q \in Best(tag) : Best(tag) = {q}}}
        all == {p.mention : p \in people} \cup {x.mention : x \in Members}
    IN  \A m \in PostedTo :
           all \cap ToSet(posted[m]) =
               IF Message \in ToSet(Wording(m))
               THEN UNION {Pings(tag) : tag \in Tags \cap ToSet(Said)} ELSE {}
=============================================================================
