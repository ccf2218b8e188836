------------------------------- MODULE Codec --------------------------------
(***************************************************************************)
(* The packet bodies of world/chat.py, and the character list, which       *)
(* world_client.py reads itself, byte by byte where their bounds           *)
(* matter: a decoder walks over a body with an offset, raises, breaks off  *)
(* or goes on.  WorldClient.run skips a packet whose decoder raised.  The  *)
(* server is external; it encodes the layouts that chat.py and             *)
(* tests/test_guild_event.py describe, whole or cut short anywhere.  A     *)
(* field is the sequence of its bytes; only counts, sizes and the packed   *)
(* guid's mask are read as numbers.                                        *)
(***************************************************************************)
EXTENDS Integers, SequencesExt

CONSTANTS
    WhoLists,     \* sequences of <<name, guild, stats, gender, zone>>
    Rosters,      \* [motd, info, ranks, members]: see RosterBody
    Events,       \* [type, strings]
    Chats,        \* [head, channel, text, achievement]
    NameAnswers,  \* [guid, known, name]
    CharacterLists,  \* sequences of <<guid, name, nine bytes, the rest>>
    Commands      \* [type, text, target, channel], for CMSG_MESSAGECHAT

VARIABLES
    packet,    \* the packet being handled, or NoPacket
    handed     \* what its callback was given, Raised if it was skipped, or Pending

vars == <<packet, handed>>

NoPacket == [kind |-> "none"]

\* What becomes of a packet.
Pending == [state |-> "pending"]
Raised == [state |-> "raised"]
Gave(value) == [state |-> "given", value |-> value]

\* The chat types whose layouts differ (world/opcodes.py).
Whisper == 6
Channel == 17
Achievement == 49

UNKNOWN == <<85, 78, 75, 78, 79, 87, 78>>

\* A field of n bytes, and the bytes of a string.
Field(n) == [1..n -> Nat]
Strings == Seq(Nat \ {0})

\* The entries of the lists; a member has a last logoff if it is offline.
PlayerEntries == Strings \X Strings \X Field(12) \X Field(1) \X Field(4)
OnlineEntries == {m \in Field(9) \X Strings \X Field(2) \X Field(4) : m[1][9] # 0}
OfflineEntries ==
    {m \in Field(9) \X Strings \X Field(2) \X Field(4) \X Field(4) : m[1][9] = 0}
CharacterEntries == Field(8) \X Strings \X Field(9) \X Seq(Nat)

\* What the server puts into its lists, and the bridge into a message.
ASSUME ListAssumption ==
    /\ WhoLists \subseteq Seq(PlayerEntries)
    /\ Rosters \subseteq [motd : Strings, info : Strings, ranks : Nat,
                           members : Seq(OnlineEntries \cup OfflineEntries)]
    /\ Events \subseteq [type : Nat, strings : Seq(Strings)]
    /\ CharacterLists \subseteq Seq(CharacterEntries)
    /\ Commands \subseteq [type : Nat, text : Strings, target : Strings, channel : Strings]

\* What it puts into its other answers: a message says its channel only if it is
\* said in one, and an achievement has its number.
ASSUME CodecAssumption ==
    /\ \A c \in Chats :
          /\ c.head \in Seq(Nat) /\ Len(c.head) = 13 /\ c.text \in Seq(Nat)
          /\ c = [head |-> c.head, channel |-> c.channel, text |-> c.text,
                  achievement |-> c.achievement]
          /\ c.channel \in Strings /\ (c.head[1] # Channel => c.channel = <<>>)
          /\ c.achievement \in Seq(Nat)
          /\ Len(c.achievement) = IF c.head[1] = Achievement THEN 4 ELSE 0
    /\ \A a \in NameAnswers :
          a.guid \in [0..7 -> 0..255] /\ a.known \in BOOLEAN /\ a.name \in Strings

-----------------------------------------------------------------------------
\* A reader of a body: its offset, the fields read so far, and whether it goes
\* on, has broken off, or has raised.
Cursor(at) == [at |-> at, state |-> "more", fields |-> <<>>]

\* struct.unpack_from, and the indexing of a single byte
Fixed(body, c, n) ==
    IF c.state # "more" THEN c
    ELSE IF c.at + n > Len(body) THEN [c EXCEPT !.state = "raised"]
    ELSE [c EXCEPT !.at = @ + n,
                   !.fields = Append(@, SubSeq(body, c.at + 1, c.at + n))]

\* offset += n, unchecked
Skip(c, n) == IF c.state # "more" THEN c ELSE [c EXCEPT !.at = @ + n]

BreakIf(c, condition) ==
    IF c.state = "more" /\ condition THEN [c EXCEPT !.state = "broken"] ELSE c

\* body.index(b"\x00", offset)
Cstring(body, c) ==
    LET zeros == {i \in c.at + 1..Len(body) : body[i] = 0}
        end == CHOOSE i \in zeros : \A j \in zeros : i <= j
    IN  IF c.state # "more" THEN c
        ELSE IF zeros = {} THEN [c EXCEPT !.state = "raised"]
        ELSE [c EXCEPT !.at = end,
                       !.fields = Append(@, SubSeq(body, c.at + 1, end - 1))]

\* A string that is read past and not kept.
SkipString(body, c) == [Cstring(body, c) EXCEPT !.fields = c.fields]

Zero(n) == [i \in 1..n |-> 0]

Uint32(n) == <<n, 0, 0, 0>>

Number(bytes) ==
    bytes[1] + 256 * bytes[2] + 65536 * bytes[3] + 16777216 * bytes[4]

Result(c, value) == IF c.state = "raised" THEN Raised ELSE Gave(value)

-----------------------------------------------------------------------------
\* Mutant: the guard lets the byte after the numbers be missing.
WhoEntry_Loose(body, c) ==
    LET guild == Cstring(body, Cstring(body, c))
        stats == Fixed(body, BreakIf(guild, guild.at + 12 > Len(body)), 12)
        gender == Fixed(body, stats, 1)
    IN  Fixed(body, BreakIf(gender, gender.at + 4 > Len(body)), 4)

WhoEntry(body, c) ==
    LET guild == Cstring(body, Cstring(body, c))
        stats == Fixed(body, BreakIf(guild, guild.at + 12 >= Len(body)), 12)
        gender == Fixed(body, stats, 1)
    IN  Fixed(body, BreakIf(gender, gender.at + 4 > Len(body)), 4)

\* guid and is_online, name, rank, level and class, zone, for those offline the
\* last logoff, and two notes
RosterEntry(body, c) ==
    LET level == Fixed(body, Skip(Cstring(body, Fixed(body, c, 9)), 4), 2)
        zone == Fixed(body, level, 4)
        offline == zone.state = "more" /\ zone.fields[1][9] = 0
        logoff == IF offline THEN Fixed(body, zone, 4) ELSE zone
    IN  SkipString(body, SkipString(body, logoff))

Entry(layout, body, c) ==
    CASE layout = "who" -> WhoEntry(body, c)
      [] layout = "roster" -> RosterEntry(body, c)
      [] layout = "event" -> Cstring(body, c)

\* One turn of `for _ in range(count)`: break off at the end of the body; the
\* fields of a complete entry are added to c.fields.
OneMore(layout, body, c) ==
    LET one == Entry(layout, body, BreakIf([c EXCEPT !.fields = <<>>], c.at >= Len(body)))
    IN  [one EXCEPT !.fields = IF one.state = "more" THEN Append(c.fields, one.fields)
                               ELSE c.fields]

Entries(layout, body, c, count) ==
    LET all[i \in 0..count] ==
            IF i = 0 THEN c ELSE OneMore(layout, body, all[i - 1])
    IN  all[count]

decode_who_response(body) ==
    IF Len(body) < 8 THEN Gave(<<>>)
    ELSE LET all == Entries("who", body, Cursor(8), Number(SubSeq(body, 1, 4)))
         IN  Result(all, all.fields)

decode_guild_roster(body) ==
    IF Len(body) < 8 THEN Raised
    ELSE LET head == Fixed(body, SkipString(body, Cstring(body, Cursor(4))), 4)
             ranks == Number(head.fields[2])
             start == [head EXCEPT !.at = @ + 4 * ranks, !.fields = <<>>]
             all == Entries("roster", body, start, Number(SubSeq(body, 1, 4)))
         IN  IF head.state = "raised" THEN Raised
             ELSE Result(all, [motd |-> head.fields[1], members |-> all.fields])

decode_guild_event(body) ==
    IF Len(body) < 2 THEN Raised
    ELSE LET all == Entries("event", body, Cursor(2), body[2])
         IN  Result(all, [type |-> body[1],
                          strings |-> FlattenSeq(all.fields)])

Lesser(m, n) == IF m < n THEN m ELSE n

\* Mutant: the channel's name is expected in every packet.
ChatHead_AlwaysChannel(body) == Cstring(body, Skip(Fixed(body, Cursor(0), 13), 4))

\* type, language and sender, then the channel's name if there is one
ChatHead(body) ==
    LET sender == Skip(Fixed(body, Cursor(0), 13), 4)
    IN  IF sender.state = "more" /\ body[1] = Channel THEN Cstring(body, sender)
        ELSE sender

\* The message is a slice, which is as short as the body makes it.
decode_messagechat(body) ==
    LET head == ChatHead(body)
        size == Fixed(body, Skip(head, 8), 4)
        length == Number(Last(size.fields))
        text == SubSeq(body, size.at + 1, Lesser(size.at + length - 1, Len(body)))
        rest == Skip(size, length + 1)
        earned == IF body[1] = Achievement /\ rest.at + 4 <= Len(body)
                  THEN SubSeq(body, rest.at + 1, rest.at + 4) ELSE <<>>
    IN  Result(size, [head |-> head.fields[1],
                      channel |-> IF body[1] = Channel THEN head.fields[2] ELSE <<>>,
                      text |-> text, achievement |-> earned])

\* unpack_guid: a mask, and a byte for each of its bits; bytes that are missing
\* are taken as 0.
Bit == <<1, 2, 4, 8, 16, 32, 64, 128>>
Bits(mask) == {i \in 0..7 : (mask \div Bit[i + 1]) % 2 = 1}

unpack_guid(body) ==
    LET bits == IF body = <<>> THEN {} ELSE Bits(body[1])
        place(i) == 1 + Cardinality({j \in bits : j <= i})
    IN  [guid |-> [i \in 0..7 |-> IF i \in bits /\ place(i) <= Len(body)
                                  THEN body[place(i)] ELSE 0],
         at |-> Lesser(1 + Cardinality(bits), Len(body))]

\* Mutant: a name without its end is taken as far as it goes.
decode_name_query_response_Lenient(body) ==
    LET who == unpack_guid(body)
        name == Cstring(Append(body, 0), Cursor(who.at + 1))
    IN  IF who.at >= Len(body) \/ body[who.at + 1] # 0
        THEN Gave([guid |-> who.guid, name |-> UNKNOWN])
        ELSE Gave([guid |-> who.guid, name |-> Last(name.fields)])

decode_name_query_response(body) ==
    LET who == unpack_guid(body)
        name == Cstring(body, Cursor(who.at + 1))
    IN  IF who.at >= Len(body) \/ body[who.at + 1] # 0
        THEN Gave([guid |-> who.guid, name |-> UNKNOWN])
        ELSE Result(name, [guid |-> who.guid, name |-> Last(name.fields)])

\* request_characters: guid, name and level of the first character; what comes
\* behind its nine single bytes is not looked at.
request_characters(body) ==
    LET first == Fixed(body, Cstring(body, Fixed(body, Cursor(1), 8)), 9)
    IN  IF body = <<>> THEN Raised
        ELSE IF body[1] = 0 THEN Gave(<<>>)
        ELSE Result(first, << <<first.fields[1], first.fields[2], first.fields[3][9]>> >>)

encode_messagechat(type, text, target, channel) ==
    LET to == CASE type = Whisper -> target
                [] type = Channel -> channel
                [] OTHER -> <<>>
        addressed == type \in {Whisper, Channel}
    IN  IF addressed /\ to = <<>> THEN Raised
        ELSE Gave(Uint32(type) \o Zero(4)
                  \o (IF addressed THEN Append(to, 0) ELSE <<>>) \o Append(text, 0))

-----------------------------------------------------------------------------
\* The server's side: SMSG_WHO, SMSG_GUILD_ROSTER, SMSG_GUILD_EVENT,
\* SMSG_MESSAGECHAT, SMSG_NAME_QUERY and SMSG_CHAR_ENUM bodies, and its reading
\* of CMSG_MESSAGECHAT.
ConcatMap(Op(_), s) == FlattenSeq([i \in DOMAIN s |-> Op(s[i])])

WhoBody(list) ==
    Uint32(Len(list)) \o Uint32(Len(list))
    \o ConcatMap(LAMBDA e : Append(e[1], 0) \o Append(e[2], 0)
                            \o e[3] \o e[4] \o e[5], list)

\* A member has a fifth field, the last logoff, if it is offline.
RosterBody(r) ==
    Uint32(Len(r.members)) \o Append(r.motd, 0) \o Append(r.info, 0)
    \o Uint32(r.ranks) \o Zero(4 * r.ranks)
    \o ConcatMap(LAMBDA m : m[1] \o Append(m[2], 0) \o Zero(4) \o m[3] \o m[4]
                            \o (IF Len(m) = 5 THEN m[5] ELSE <<>>)
                            \o <<1, 0, 0>>, r.members)

EventBody(e) ==
    <<e.type, Len(e.strings)>> \o ConcatMap(LAMBDA s : Append(s, 0), e.strings)

ChatBody(c) ==
    c.head \o Zero(4) \o (IF c.head[1] = Channel THEN Append(c.channel, 0) ELSE <<>>)
    \o Zero(8) \o Uint32(Len(c.text) + 1) \o Append(c.text, 0) \o <<0>> \o c.achievement

NameBody(a) ==
    LET used == {i \in 0..7 : a.guid[i] # 0}
    IN  <<CHOOSE mask \in 0..255 : Bits(mask) = used>>
        \o ConcatMap(LAMBDA b : IF b # 0 THEN <<b>> ELSE <<>>, [i \in 1..8 |-> a.guid[i - 1]])
        \o (IF a.known THEN <<0>> \o Append(a.name, 0) ELSE <<1>>)

CharacterBody(list) ==
    <<Len(list)>> \o ConcatMap(LAMBDA c : c[1] \o Append(c[2], 0) \o c[3] \o c[4], list)

ServerReads(body) ==
    LET type == Cursor(8)
        named == IF body[1] \in {Whisper, Channel} THEN Cstring(body, type) ELSE type
        all == Cstring(body, named)
    IN  Result(all, all.fields)

Body(kind, content) ==
    CASE kind = "who" -> WhoBody(content)
      [] kind = "roster" -> RosterBody(content)
      [] kind = "event" -> EventBody(content)
      [] kind = "chat" -> ChatBody(content)
      [] kind = "name" -> NameBody(content)
      [] kind = "characters" -> CharacterBody(content)

-----------------------------------------------------------------------------
Init == packet = NoPacket /\ handed = Pending

\* The server sends a packet, of which the first `size` bytes are its body.
Arrives ==
    /\ packet = NoPacket
    /\ \E kind \in {"who", "roster", "event", "chat", "name", "characters"} :
       \E content \in CASE kind = "who" -> WhoLists
                        [] kind = "roster" -> Rosters
                        [] kind = "event" -> Events
                        [] kind = "chat" -> Chats
                        [] kind = "name" -> NameAnswers
                        [] kind = "characters" -> CharacterLists :
       \E size \in 0..Len(Body(kind, content)) :
          packet' = [kind |-> kind, content |-> content, size |-> size]
    /\ UNCHANGED handed

\* WorldClient.run: decode by opcode; a packet whose decoder raises is skipped.
\* The character list is read before, and ends the attempt if it raises.
Dispatch ==
    /\ packet # NoPacket /\ handed = Pending
    /\ LET body == SubSeq(Body(packet.kind, packet.content), 1, packet.size)
       IN  handed' = CASE packet.kind = "who" -> decode_who_response(body)
                     [] packet.kind = "roster" -> decode_guild_roster(body)
                     [] packet.kind = "event" -> decode_guild_event(body)
                     [] packet.kind = "chat" -> decode_messagechat(body)
                     [] packet.kind = "name" -> decode_name_query_response(body)
                     [] packet.kind = "characters" -> request_characters(body)
    /\ UNCHANGED packet

\* WorldClient.send_chat, with what the server makes of the packet.
SendChat ==
    /\ packet = NoPacket
    /\ \E c \in Commands :
          LET body == encode_messagechat(c.type, c.text, c.target, c.channel)
          IN  /\ packet' = [kind |-> "command", content |-> c, size |-> 0]
              /\ handed' = IF body = Raised THEN Raised ELSE ServerReads(body.value)

\* The callback returns, and the loop reads the next packet.
Handled == handed # Pending /\ packet' = NoPacket /\ handed' = Pending

Next == Arrives \/ Dispatch \/ SendChat \/ Handled

Spec == Init /\ [][Next]_vars

-----------------------------------------------------------------------------
Is(kind) == packet.kind = kind /\ handed # Pending

Whole(kind) == Is(kind) /\ packet.size = Len(Body(kind, packet.content))

\* A packet that arrives whole is decoded to what the server put into it, for
\* every layout: with and without a channel, online and offline members in any
\* order, ranks, empty strings, packed guids with gaps (chat.py's decoders).
\* The server in turn reads back what send_chat was given; a whisper to nobody
\* or a nameless channel is refused before a byte is written.
WholePacketsUnderstood ==
    LET sent == packet.content
        to == CASE sent.type = Whisper -> <<sent.target>>
                [] sent.type = Channel -> <<sent.channel>>
                [] OTHER -> <<>>
    IN  /\ Whole("who") => handed = Gave(sent)
        /\ Whole("roster") =>
              handed = Gave([motd |-> sent.motd, members |-> sent.members])
        /\ Whole("event") => handed = Gave(sent)
        /\ Whole("chat") => handed = Gave(sent)
        /\ Whole("name") =>
              handed = Gave([guid |-> sent.guid,
                             name |-> IF sent.known THEN sent.name ELSE UNKNOWN])
        /\ Is("command") =>
              handed = IF to = << <<>> >> THEN Raised ELSE Gave(Append(to, sent.text))

\* A list that ends early keeps the entries before its end and never half of
\* one.  A /who list loses the entry it ends in, and is unreadable only if it
\* ends within that entry's two strings: the guard and the reads agree on every
\* byte (chat.py:299-320).  An event or a roster has to end between entries.
\* A character list is good as soon as its first name and level are complete,
\* and whatever follows them (world_client.py:254-276).
CutListsKeepEntries ==
    LET sent == packet.content
        End(n) == Len(WhoBody(SubSeq(sent, 1, n)))
        FitsTo(n) == /\ End(n) <= packet.size
                     /\ n < Len(sent) => packet.size < End(n + 1)
        InStrings(n) == /\ n < Len(sent)
                        /\ packet.size - End(n) \in
                              1..Len(sent[n + 1][1]) + Len(sent[n + 1][2]) + 1
        Short(n) == [sent EXCEPT !.strings = SubSeq(@, 1, n)]
        fits == {n \in 0..Len(sent.strings) : Len(EventBody(Short(n))) = packet.size}
        first == [i \in DOMAIN sent \cap {1} |-> sent[i]]
        needed == Len(CharacterBody([i \in DOMAIN first |-> [first[i] EXCEPT ![4] = <<>>]]))
    IN  /\ Is("characters") =>
              handed = IF packet.size < needed THEN Raised
                       ELSE Gave([i \in DOMAIN first |->
                                     <<first[i][1], first[i][2], Last(first[i][3])>>])
        /\ Is("who") /\ packet.size >= 8 =>
              \E kept \in 0..Len(sent) :
                 /\ FitsTo(kept)
                 /\ handed = IF InStrings(kept) THEN Raised ELSE Gave(SubSeq(sent, 1, kept))
        /\ Is("event") /\ packet.size >= 2 =>
              IF fits = {} THEN handed = Raised ELSE \E n \in fits : handed = Gave(Short(n))
        /\ Is("roster") /\ handed # Raised =>
              /\ handed.value.motd = sent.motd
              /\ IsPrefix(handed.value.members, sent.members)

\* A cut packet may lose a message's end or a name, and invents nothing: no
\* text that was not said, no sender or channel but the right one, and no name
\* but the player's own (a name is cached for good: bot.py:174-176).
NothingInvented ==
    LET sent == packet.content
    IN  /\ Is("chat") /\ handed # Raised =>
              /\ handed.value.head = sent.head /\ handed.value.channel = sent.channel
              /\ IsPrefix(handed.value.text, sent.text)
              /\ handed.value.achievement \in {<<>>, sent.achievement}
        /\ Is("name") /\ handed # Raised =>
              \/ handed.value.name = UNKNOWN
              \/ handed.value = [guid |-> sent.guid, name |-> sent.name]
=============================================================================
