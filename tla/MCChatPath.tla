------------------------------ MODULE MCChatPath -----------------------------
(***************************************************************************)
(* Lists of up to three entries over two entries of different sizes; every *)
(* layout; names, texts and notes with and without bytes; guids with gaps. *)
(* Codec adds every place where a body can end.                            *)
(***************************************************************************)
EXTENDS ChatPath

Bytes(byte, n) == [i \in 1..n |-> byte]
UpTo(n, S) == UNION {[1..k -> S] : k \in 0..n}

Player == <<<<7, 8>>, <<9>>, Bytes(1, 12), <<0>>, Bytes(2, 4)>>
Loner == <<<<7>>, <<>>, Zero(12), <<1>>, Zero(4)>>
MCWhoLists == UpTo(3, {Player, Loner})

Online == <<Bytes(1, 9), <<7, 8>>, <<80, 1>>, Bytes(3, 4)>>
Offline == <<Append(Bytes(2, 8), 0), <<9>>, <<70, 4>>, Zero(4), Bytes(5, 4)>>
MCRosters == [motd : {<<>>, <<7>>}, info : {<<8>>}, ranks : {0, 2},
              members : UpTo(2, {Online, Offline})]

MCEvents == [type : {0, 3}, strings : UpTo(3, {<<>>, <<7, 8>>})]

\* One link, one word, and three tags: "bob", "ann" and "lead".
Item == 1
Word == 2
Bob == 11
Ann == 12
Lead == 13

\* Markers of two digits, whole or in parts, and coloured links, one in another.
MCHexDigits == {LetterC, 94}
StartMarker == <<Bar, LetterC, 94, LetterC>>
EndMarker == <<Bar, LetterR>>
Coloured == StartMarker \o <<Item>> \o EndMarker
Nested == StartMarker \o Coloured \o <<Bob>> \o EndMarker

MCTexts ==
    {FlattenSeq(parts) : parts \in
        UpTo(3, {StartMarker, EndMarker, <<Bar>>, <<LetterR>>, <<Item>>, <<Word>>, <<Bob>>, <<User>>})}
    \cup {<<Word>> \o s \o t : s, t \in {Coloured, Nested}}

ChatHeadOf(type) == <<type>> \o Bytes(7, 12)
MCChats ==
    [head : {ChatHeadOf(4)}, channel : {<<>>}, achievement : {<<>>},
     text : MCTexts]
    \cup [head : {ChatHeadOf(Channel)}, channel : {<<5>>, <<5, 6>>}, text : UpTo(2, {Ann, Lead}),
          achievement : {<<>>}]
    \cup [head : {ChatHeadOf(Achievement)}, channel : {<<>>}, text : {Coloured, Nested, <<Word>>},
          achievement : {Bytes(9, 4)}]

MCNameAnswers ==
    [guid : {[i \in 0..7 |-> IF i \in bytes THEN 7 ELSE 0] :
                bytes \in {{}, {0}, {0, 2}, {1, 3, 7}}},
     known : BOOLEAN, name : {<<>>, <<7>>, <<7, 8>>}]

Character(name, rest) == <<Bytes(4, 8), name, Append(Bytes(6, 8), 80), rest>>
MCCharacterLists == UpTo(2, {Character(<<7, 8>>, Bytes(3, 3)), Character(<<>>, <<>>)})

MCCommands == [type : {4, Whisper, Channel}, text : UpTo(2, {1, 2}),
               target : {<<>>, <<7>>}, channel : {<<>>, <<8, 9>>}]

\* "bob smith" also goes by "bob s"; two members share the name "ann", which
\* is a word of a third's; "lead" is a role and a word of another; the bridge
\* is called "bob" too.
MCRoles == {[name |-> Lead, mention |-> 501], [name |-> 23, mention |-> 502]}
MCMembers ==
    {[names |-> {21, 22}, mention |-> 511, bot |-> FALSE],
     [names |-> {Ann}, mention |-> 512, bot |-> FALSE],
     [names |-> {Ann, 24}, mention |-> 513, bot |-> FALSE],
     [names |-> {Bob}, mention |-> 514, bot |-> TRUE]}
MCWords == 21 :> {Bob, 31} @@ 22 :> {Bob, 32} @@ 23 :> {Lead, 33} @@ 24 :> {Ann, 34}
           @@ Ann :> {Ann} @@ Bob :> {Bob} @@ Lead :> {Lead}

MCMappings == <<[filters |-> <<>>, template |-> <<User, Message>>],
                [filters |-> <<Invalid, Word>>, template |-> <<Time, ChannelName, User, Message>>],
                [filters |-> <<Bob, Invalid>>, template |-> <<Message, User, Message>>],
                [filters |-> <<>>, template |-> <<User>>]>>
MCSender == <<7, 8>>
MCLabel == <<5>>
MCClock == <<9>>
=============================================================================
