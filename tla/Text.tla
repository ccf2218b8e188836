-------------------------------- MODULE Text --------------------------------
(***************************************************************************)
(* What becomes of a WoW message's text on its way to Discord: links,      *)
(* colours, filters, mentions and the message template (world/resolver.py, *)
(* discord_bridge/mentions.py and formatting.py).  Text is a sequence of   *)
(* tokens, each a number: a character of a colour marker, a link, a tag, a *)
(* placeholder of the template, or a word.                                 *)
(***************************************************************************)
EXTENDS Integers, SequencesExt

CONSTANTS
    HexDigits,   \* the characters of a colour
    Digits,      \* how many of them a colour has (8)
    Links,       \* |Hkind:id...|h[text]|h, without the colour around it
    Tags,        \* @name or @"name"
    Roles,       \* [name, mention] for each role of the Discord server
    Members,     \* [names, mention, bot] for each member of the channel
    Words        \* the words of a name or tag: [name -> set of tags]

\* The characters of the markers |cAARRGGBB and |r; c is a hex digit too.
Bar == 91
LetterR == 92
LetterC == 93
MarkerChars == HexDigits \cup {Bar, LetterR}

\* The placeholders of a template.
Time == 81
ChannelName == 82
User == 83
Message == 84

\* **text** or [text](url): the link's name, readable in Discord.
Rendered(link) == 1000 + link

\* The kinds of token other than words.
Placeholders == {Time, ChannelName, User, Message}
RenderedLinks == {Rendered(l) : l \in Links}
Pinging == {r.mention : r \in Roles} \cup {m.mention : m \in Members}

\* No token is of two kinds, and Discord gives everyone a mention of their own.
ASSUME TextAssumption ==
    LET kinds == <<Links, Tags, MarkerChars, Placeholders, RenderedLinks, Pinging>>
    IN  /\ \A i, j \in 1..6 : i # j => kinds[i] \cap kinds[j] = {}
        /\ HexDigits \subseteq Nat \ {Bar, LetterR} /\ LetterC \in HexDigits
        /\ Digits \in Nat
        /\ Links \subseteq Nat /\ Tags \subseteq Nat /\ Pinging \subseteq Nat
        /\ IsFiniteSet(Roles) /\ IsFiniteSet(Members)
        /\ \A m, n \in Roles : m.mention = n.mention => m = n
        /\ \A m, n \in Members : m.mention = n.mention => m = n
        /\ \A r \in Roles, m \in Members : r.mention # m.mention

-----------------------------------------------------------------------------

\* The two markers of a colour, _STRAY_COLOR_START_RE and _STRAY_COLOR_END_RE.
StartAt(text, i) ==
    /\ i \in 1..Len(text) - Digits - 1
    /\ text[i] = Bar /\ text[i + 1] = LetterC
    /\ \A d \in 2..Digits + 1 : text[i + d] \in HexDigits

EndAt(text, i) ==
    i \in 1..Len(text) - 1 /\ text[i] = Bar /\ text[i + 1] = LetterR

Starts(text) == {i \in DOMAIN text : StartAt(text, i)}
Ends(text) == {i \in DOMAIN text : EndAt(text, i)}

\* The places of the markers that begin at given ones.
Covered(starts, ends) ==
    {i + d : i \in starts, d \in 0..Digits + 1} \cup {i + d : i \in ends, d \in 0..1}

\* _HYPERLINK_RE: a link between two markers of its own, like |c..|H..|h[..]|h|r
LinkAt(text, i) ==
    /\ i \in DOMAIN text /\ text[i] \in Links
    /\ StartAt(text, i - Digits - 2) /\ EndAt(text, i + 1)

resolve_links(text) ==
    FlattenSeq([i \in DOMAIN text |->
        IF LinkAt(text, i) THEN <<Rendered(text[i])>>
        ELSE IF \E l \in i - 2..i + Digits + 2 : LinkAt(text, l) THEN <<>> ELSE <<text[i]>>])

\* re.sub of markers by nothing
Without(text, places) ==
    FlattenSeq([i \in DOMAIN text |-> IF i \in places THEN <<>> ELSE <<text[i]>>])

\* _COLOR_SPAN_RE: from the first start that no span before it covers to the
\* first end behind it.
SpanStarts(text) ==
    {s \in Starts(text) :
        /\ \E e \in Ends(text) : s < e
        /\ \A r \in Starts(text) : r < s => \E e \in Ends(text) : r < e /\ e < s}

SpanEnds(text) ==
    {e \in Ends(text) :
        \E s \in Starts(text) : s < e /\ \A f \in Ends(text) : ~(s < f /\ f < e)}

Unwrapped(text) == Without(text, Covered(SpanStarts(text), SpanEnds(text)))
WithoutStarts(text) == Without(text, Covered(Starts(text), {}))
WithoutEnds(text) == Without(text, Covered({}, Ends(text)))

\* Mutant: a message is expected to have its colours in pairs.
strip_color_coding_SpansOnly(text) == Unwrapped(text)

\* Spans are unwrapped, what is left of the starts is removed and then what is
\* left of the ends; no pass looks again at what it has made.
strip_color_coding(text) == WithoutEnds(WithoutStarts(Unwrapped(text)))

\* Mutant: the colours are stripped first.
CleanMessage_ColorsFirst(text) == resolve_links(strip_color_coding(text))

CleanMessage(text) == strip_color_coding(resolve_links(text))

-----------------------------------------------------------------------------
\* A pattern that is not a regular expression raises re.error.
Invalid == 0

Search(pattern, text) == pattern # Invalid /\ Contains(text, pattern)

matches_any_filter(patterns, text) ==
    \E i \in DOMAIN patterns : Search(patterns[i], text)

-----------------------------------------------------------------------------
\* Every name a tag can stand for, with the mention it would become.
Candidates ==
    {<<r.name, r.mention>> : r \in Roles}
    \cup UNION {{<<name, m.mention>> : name \in m.names} :
                   m \in {x \in Members : ~x.bot}}

\* The whole name first; failing that, one of its words.
Found(tag) ==
    LET exact == {c \in Candidates : c[1] = tag}
    IN  IF exact # {} THEN exact ELSE {c \in Candidates : tag \in Words[c[1]]}

\* Mutant: a member two of whose names match counts as two matches.
Mentions_PerName(tag) ==
    IF Cardinality(Found(tag)) = 1 THEN {c[2] : c \in Found(tag)} ELSE {}

Mentions(tag) == {c[2] : c \in Found(tag)}

\* Each tag that matches one mention becomes it; every other one stays.
resolve_wow_mentions(text) ==
    [i \in DOMAIN text |->
        IF text[i] \in Tags /\ Cardinality(Mentions(text[i])) = 1
        THEN CHOOSE m \in Mentions(text[i]) : TRUE ELSE text[i]]

-----------------------------------------------------------------------------
\* str.replace of a placeholder by a text
Replace(text, placeholder, by) ==
    FlattenSeq([i \in DOMAIN text |-> IF text[i] = placeholder THEN by ELSE <<text[i]>>])

\* Mutant: the message is put in before the sender.
format_relay_message_MessageFirst(template, user, message, channel, time) ==
    Replace(Replace(Replace(Replace(template, Time, time), ChannelName, channel),
                    Message, message), User, user)

format_relay_message(template, user, message, channel, time) ==
    Replace(Replace(Replace(Replace(template, Time, time), ChannelName, channel),
                    User, user), Message, message)
=============================================================================
