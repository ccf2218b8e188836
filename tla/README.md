# GuildCord: a TLA+ verification of the bridge

GuildCord logs into a World of Warcraft 3.3.5a server as one character and relays chat
between it and Discord. Everything runs in one Python process on one asyncio event loop.
These modules model what can go wrong between two steps (the reconnection loop, the two
relays, the `!who` command, the world session with its ciphered headers and its timers) and
what can go wrong at the edge of an input (the login's arithmetic, the packet decoders, the
text pipeline). File and line references are to `src/guildcord/`.

## 1. Inventory of the system

| Component | State it keeps | Operations | Modelled in |
| --- | --- | --- | --- |
| Reconnection loop, `discord_bridge/bot.py` `run`, `connect_wow`, `_notify_status` | `self.world`, the local `world`, `ever_connected`, `down_notified`, `fatal_notified`, `backoff._attempt` | connect (bounded by 60 s), retry, run a session, announce, shut down | `Lifecycle`, `StatusFeed` |
| WoW to Discord relay, `on_wow_chat`, `on_wow_name_query_response`, `_send_wow_chat_to_discord` | `name_cache`, `pending_chat_queues` | relay, look up and queue, deliver a queue | `Routing`, `NameRelay`, `OrderedRelay` |
| Discord to WoW relay, `on_discord_message` | none of its own; reads `self.world` | filter, prefix, send to each mapping | `DiscordRelay`, on top of `Lifecycle` and `Routing` |
| `!who`, `on_discord_message`, `on_wow_who_response` | `last_who_channel_id`, `last_who_query` | take a command, report an answer | `WhoCommand` |
| World session, `world/world_client.py`, `world/crypto.py` | the two RC4 streams, `_encrypted`, `_running`, the limits of the reads, the ping timer | handshake, character list, world entry, send, receive, ping | `WorldSession` (headers and order), `Keepalive` (time) |
| Auth session, `auth/auth_client.py`, `auth/srp6.py` | one login's keys | challenge, proof, key derivation | `Login` |
| Codecs, `world/chat.py`, and the character list | none | decode, encode | `Codec` |
| Text, `resolver`, `mentions`, `formatting`, `emoji` | none | links, colours, filters, mentions, template | `Text`, composed with `Codec` in `ChatPath` |
| Guild events and roster | `guild_motd`, `guild_members`, `wow_character_name` | post an event, replace the roster | decoders in `Codec` |
| Backoff policy, `common/backoff.py` | `_attempt` | `next_delay`, `reset` | counter in `Lifecycle` |
| Configuration, `main.py`, opcode tables | read once | load | the CONSTANTS |

**Interaction.** `run` is one task. While a session lasts it is inside `WorldClient.run`, which
reads a packet, awaits the bridge's callback for it, and only then reads the next one. Beside it
run the ping loop, the roster loop and one task per Discord message. They share the bridge's
fields and the one `WorldClient`, with no locks: a stretch of code without an await is atomic,
and every await is a place where the others run. `self.world` appears when `connect_wow` is
nearly done and disappears after the session's socket is closed.

**What is hard.** The timeout cancels `connect_wow` at any await. Flags must make sense for every
order of failures, rejections and sessions. The name cache, the queues and the `!who` slot
outlive the session whose packets they wait for. Discord sends can fail inside the callbacks of
the WoW reader, and keep it from its reads. Discord handlers are suspended in mid-walk while the
loop swaps the client under them. Headers must be ciphered and written in one order by many
senders. The silence limit restarts with every read. Decoders walk over bodies that may end
anywhere. `PROJECT.json` lists the hazards line by line, each with the properties that watch it.

**What makes each component correct.** The loop: it never gives up or hangs, leaks nothing, and
announces each outage once. WoW to Discord: per sender and mapping in order, at most once, under
one name, nothing lost track of. Discord to WoW: a message is sent once for each of its mappings
and into one session. `!who`: an answer goes to the command that asked. The session: each header
is read at the stream position it was ciphered at, the client believes it is in the world only
when it is, and a live server is kept while a dead one is noticed. The login: both sides hold one
key or the login fails, and the failure is classed as what it is. The decoders: what the server
wrote, or a part of it, and nothing else. The text: readable, filtered and filled in as configured.

## 2. How the modules fit together, and what is left

| Module | Extends / instantiates | Abstract specification | Run | Proofs |
| --- | --- | --- | --- | --- |
| `Lifecycle` | instance of `StatusFeed` | `StatusFeed` | `lifecycle`, `lifecycle_overflow` | `LifecycleProofs` |
| `NameRelay` | `Routing`; instance of `OrderedRelay` | `OrderedRelay` | `relay`, `relay_stuck` | `NameRelayProofs` |
| `DiscordRelay` | `Routing`; composed with `Lifecycle` | `Lifecycle` | `discord` | `DiscordRelayProofs` |
| `WhoCommand` | | | `who`, `who_overlap` | `WhoCommandProofs` |
| `WorldSession` | | | `session` | `WorldSessionProofs` |
| `Keepalive` | | | `keepalive` | `KeepaliveProofs` |
| `Login` | | | `login`, `login_strip` | `LoginProofs` |
| `ChatPath` | `Codec`, `Text` | | `chat` | `ChatPathProofs` |

Every `MC` module instantiates the module of its name for TLC. A module to be proved about uses
no RECURSIVE operator (none does), has one action per operation, and states its constants'
assumptions under a name. Definitions marked "Mutant" are plausible mistakes in the code; nothing
uses them, and each shows that a property notices the mistake when put in place of the original.

What could follow: `NameRelay` and `WhoCommand` composed with `Lifecycle` in the way of
`DiscordRelay`, in place of the `Connect`, `LinkBreaks` and `SessionEnds` they carry; and
`WorldSession` shown to implement the stages of `connect_wow`.

## 3. Lifecycle

`pc` is the await at which `run` is suspended. `auth`, `dial`, `handshake`, `characters`, `enter`
and `roster` are the stages of `connect_wow`; `rejected`, `failed` and `lost` are the three ways
to a sleep; `running` is inside `WorldClient.run`, `ending` is the `finally` between `close()` and
`self.world = None`; `closing` is the outer `finally`.

| Action | Code |
| --- | --- |
| `LoopTop`, `Wake`, `Shutdown` | the `while` test, the end of a sleep, the outer `finally` |
| `Authenticated` ... `RosterRequested` | the stages of `connect_wow` |
| `ConnectRejected`, `ConnectFailed`, `ConnectTimeout` | a fatal error, any other `Exception`, the cancellation by `wait_for` |
| `SleepRejected`, `SleepFailed`, `SleepLost` | the three handlers, with announcement, flags and delay |
| `StartSession`, `SessionEnds`, `WorldReleased` | a session from "reconnected" to `self.world = None` |
| `DiscordCloses` | the gateway, external |

`told` is the last status text handed to `_notify_status`, `beat` flips with each such call (so that
saying the same twice is a step that `StatusFeed` forbids), `seen` is the last one that reached the
channel: the function is silent when unconfigured, unresolvable or failing. So `told` is about
the calls and `seen` about what anybody sees. `wait` is the
exponent of the delay; jitter and cap are left out. `cause`, `abandoned` and `timeouts` are
bookkeeping. `MaxExponent` is the largest exponent for which `2.0 ** e` is finite (1023 for a
double); `MaxCount` bounds the two counters, which saturate instead of blocking.

`StatusFeed` is the abstract specification: an operator is told "lost" at most once per outage,
then possibly "rejected" once, and "reconnected" only as the answer to one of them. `FollowsFeed`
says the loop implements it, with the link up exactly when `pc = "running"`.

Runs:

- `lifecycle` (`MaxExponent = 3`, `MaxCount = 3`; 51 553 states). Safety: sockets are accounted
  for, a stale `self.world` needs a timeout, an outage is always flagged between sessions, the
  loop stops only for a reason, the first retry after a session waits the base delay, and the
  announcements follow the feed. Exponents 0..3 let a streak grow, be reset and overflow;
  three timeouts let leaks accumulate over several attempts, also with a stale client overwritten.
  Liveness, under `FairSpec` (the event loop runs ready tasks and fires the 60 s timer; servers
  owe nothing): every attempt ends (`AttemptsEnd`). The end of a session is not in the loop's own
  hands: `close()` awaits `wait_closed()` with no limit, and a server that stops reading can hold
  it. `WorldReleased` is therefore an answer of the server and has no fairness in `FairSpec`.
  `LossAnnounced` takes the end of `close()` as its premise. It says that every lost session is
  handed to `_notify_status`, and that once the sends to the channel work, every later loss is
  shown there: a status that could not be sent is not repeated in its own outage (section 12), but
  it silences no later one. `Recovers` has its further assumptions in its statement, too: every attempt is
  answered in one way or another and every connection closes (`WF_vars(Answers)`), and from some
  point on none fails.
- `lifecycle_overflow` (violation, with the real 1023): after 1024 failures in a row
  `2.0 ** attempt` overflows, the exception leaves `run` from inside its except handler, and the
  bridge ends.

In CPython an abandoned socket may later be closed by the garbage collector; the model says only
that the bridge has dropped it without `close()`.

## 4. NameRelay

`Routing` says which mappings a message matches, achievements going where
guild chat goes and channel names compared in lower case; a walk takes the `Foremost` of those
still ahead, which is the configured order. `NameRelay` is the reader: `ReadChat`
(`RelayAtOnce` or `EnqueueUnnamed`), `ReadName`, one `RelayMapping` per mapping visited,
`RelayMessageDone` to the next message or the end of the callback, and `RelayRaises` for an
exception outside the guarded send (a mapping to a thread, whose members have no names; a filter
that is not a string). `RelayMapping` leaves a mapping out for a filter, an unknown channel or a
failed send; those are one choice. An absent queue and an empty one are one value: the code never
lets go of the event loop with an empty queue except while it asks for the name, and nobody else
looks at the queues. The `Connect`, `Server*` and `LinkBreaks` actions are external: a FIFO
connection to a server that answers a query with a name or as unknown, and that may cut the link
with packets unread. Only answers to queries are modelled, and none is malformed.

`OrderedRelay` is the abstract specification: per sender and mapping in order, never twice.

Runs, with two players and the system as senders, two mappings for guild chat, one for a channel
and one that must not match, two sessions and three chat packets (116 345 states). Two sessions
are what a stale queue needs; three packets are what it takes to queue, relay at once and repeat.

- `relay`: the refinement, `OneNamePerSender`, `StrandedOnlyByException` (a queue whose player
  has a name is being delivered, or an exception cut its delivery short), `NothingVanishes`, and
  the liveness property `FreshQueueServed`, fair to the reader and to the server's answers: a
  queue opened in a session that lasts is delivered.
- `relay_stuck` (violation): a link cut before the name arrives leaves the queue behind, and no
  later session asks again, since the queue exists. `OneNamePerSender` and the at-most-once part
  of `OrderedRelay` rest on the same fact, that a player is asked for once; asking again in a new
  session has to delete or deliver the queue with care.

## 5. WhoCommand

Commands are numbered; the slot holds a number. `TakeCommand` sets the slot and sends in one
step; `ReadAnswer` reads the slot; each `PostResult` is one send, and the last one clears the
slot, whoever holds it by then. `SessionEnds` stands for the server's loss and for a send that
raises. The server answers in order (external).

- `who` (three commands about one name, three channels of which one is not in Discord's cache,
  two sessions, up to four results; 98 897 states): an answer is never shown under an older
  command, a command is shown one answer at most, and a command without overlap is answered, fair
  to reader and server. Three commands give a command before, one in the slot and one that
  arrives during the sends; four results exceed the three that are sent. No property of this run
  looks at the name asked for, so one is enough.
- `who_overlap` (violation): an answer appears under another command's name.

## 6. WorldSession

A stream is its position, and a packet carries the position its header was ciphered at (`Plain`
for the two that are not). The connecting task reads and sends in turn; in the world, the tasks
of `Tasks` send in any interleaving, ciphering and writing in one step and awaiting `drain()`
after it. `garbled` records a header read at another position, `verdict` the refusal the server
has sent. That the list names a character, or the configuration does, is one choice (`Listed`,
`NotListed`): the list is asked for and parsed either way.

- `session` (three tasks, six packets out, seven in, `MaxDrained = 3` for the 200 of
  `enter_world`; 1 698 states with the tasks interchangeable): all headers are readable, an
  admission is a real one, and the slow retry is for an account the server does not know and for
  nothing else, wherever the client is when that verdict is sent (`SlowRetryOnlyIfRefused`). Six
  and seven packets are the handshake with three more each way, so that all three tasks have
  packets in flight.

Connection loss is not modelled here but in `Lifecycle` and `Keepalive`; packets whose header has
five bytes are not produced by this server model.

## 7. DiscordRelay

`DiscordRelay` carries the variables of `Lifecycle` and takes its whole `Next` as `LoopStep`, so
the handlers run beside every way the loop can go. `Receive` is `on_discord_message` up to the
await of its first send; `Resume` is what the handler does when that await returns or raises,
up to the next await. `route` is the set of mappings the message goes to, `left` those still
ahead. `client` counts the assignments of `self.world`, so that two sessions' clients differ.
Two things are left out because they change only the text: emoji markup and the choice between a
dot command and the "[Discord] name:" prefix. `steady` is history: whether `self.world` was one
open client from the handler's beginning on.

`LoopStep` may not end a sleep while a handler still awaits a drain of a closed client: closing
a transport wakes those that drain it within a few turns of the event loop, and a sleep lasts
seconds. Without that conjunct `OneClientPerMessage` would be about asyncio, not about this code.

`discord` (two messages at once, three usable mappings of seven, two of which may filter a
message out, two clients, one timeout; 2 216 282 states): a message whose handler saw one open
client reaches every mapping once and in order; messages keep their order in the first mapping;
no message is spread over two sessions; chat is written only inside a session, or to the writer
that `close()` awaits. The last two are stated for behaviours without a timeout, and that is a
fact about the code: a client that the 60 s limit left in `self.world` (the cut comes during
`request_guild_roster`) is closed by nobody, a handler that drains it can go on with the next
session's client, and messages are written to it while the loop connects. Two messages are what
overtaking takes; two clients what splitting takes.

## 8. Keepalive

Time in ticks, one being 10 s in the run: `Ping = 3`, `Stale = 9`. A packet comes in three
pieces (header, some of the body, the rest) because `_read_server_packet` makes two timed reads.
`Tick` passes only when nothing is due, so a step that is due comes first: timers run on time,
which holds for an event loop without blocking calls. A callback lasts as long as it likes; the
reader has no limit in it. The server completes an answer to a ping within `MaxStall`, or leaves
at most `MaxMissed` pings in a row alone; while "slow" it keeps no time, "hung" it is silent,
"broken" the connection ends with an error.

`keepalive` (68 148 states): with `MaxStall = 2` and `MaxMissed = 1` a live server is never
declared dead; the reader waits for one packet at most twice the limit (the header at the end of
one read, the body at the end of the next); a hung server ends the session, provided every
callback returns (`FairSpec`: the reader's steps, the pings, time). `KeepaliveAssumption` says
what makes the first of these true, `Ping * (MaxMissed + 1) + MaxStall < Stale`: one lost ping
leaves up to 20 s for the answer to the next one, two lost pings leave nothing. The comment at
`world_client.py:90-92` speaks of "a couple of missed beats".

## 9. Login

One login, from the challenge to the server's proof. The group is the integers modulo 79 with
generator 3, whose numbers have four digits to the base 3, where the code has 32 bytes: small
enough to try 16 private values on both sides, and with secrets that have zeros at either end,
which is where `_interleave_session_key` is delicate. Hashes are tuples of what they hash, that
is, free of collisions. The server is external: honest (as in `tests/test_srp6.py`), busy,
rejecting, or an impostor without the verifier, who may send any number that fits into the field.
The honest one writes its secret without the
zeros at its upper end, as a big integer prints.

- `login` (27 881 states): with the right password an honest server's login ends neither in a
  rejection, which would put the bridge on its slow retry, nor in a mismatch, except for secrets
  the two sides strip differently; a wrong key ends on the slow retry; a login that returns has
  the server's key.
- `login_strip` (violation): zeros are stripped one at a time, and an odd rest loses its last
  byte; the docstring speaks of pairs. A server that strips pairs would refuse about one login in
  256. The server of `tests/test_srp6.py` calls the same function, yet with the secret written
  without its upper zeros, where the client writes 32 bytes; for a secret whose highest byte is 0,
  again about one in 256, the two strip to different rests and the test's equality fails as well.
  `RightPasswordAccepted` leaves just these out, and says nothing of a busy server.

## 10. Codec, Text and ChatPath

`Codec` walks over a body as the decoders do: a cursor with an offset, the fields read, and
whether it goes on, has broken off or has raised. The server's layouts are written from the
comments of `chat.py` and the tests, and a packet may be cut at every byte. `Text` works on
tokens: tags, placeholders and words are tokens of their own, and so is a link without the colour
around it; a colour marker is written out in characters (`Bar`, then `LetterR`, or `LetterC` and
`Digits` hex digits), because the three substitutions of `strip_color_coding` work on characters
and each sees what the one before has left. `StartAt` and `EndAt` are the two markers, `SpanStarts`
and `SpanEnds` where the spans of `_COLOR_SPAN_RE` begin and end: a span goes from a start to the
first end behind it, and the next span begins behind that. `LinkAt` finds a link by the markers
next to it. `ChatPath` sends a decoded chat message, cut or not, through the text steps in the
order of `_send_wow_chat_to_discord`.

- `chat` (53 290 states; lists of up to three entries, guids with gaps, every chat layout, texts
  with single, paired, nested and unmatched markers, with links, and with bars that begin no
  marker, colours of two digits instead of eight, three mappings with an invalid filter in
  different places): whole packets are understood; cut lists keep their whole entries and only
  those, and the character list is good as soon as its first level is there; nothing is invented
  from a cut packet; whole links stay readable (`LinksReadable`); if every bar of a message begins
  a marker, the three passes take out exactly the markers, as one pass over all of them would, and
  no post holds one (`MarkersGo`); a message is withheld exactly when a valid filter matches, and
  otherwise posted with its template filled in one pass; a tag pings the one role or member that
  fits it best. Three entries give a first, a middle and a last one; two sizes of entry make a
  misread shift what follows.

The premise of `MarkersGo` is needed: `||rr` loses its inner `|r` and is posted as `|r`, and
`||rcff00ff00x` as `|cff00ff00x`. A message cut within a marker keeps the piece of it that is left,
which is a bar that begins no marker.

One thing a cut packet can do: a packed guid that ends early is read with its missing bytes as
0, and is then a wrong guid, whose name becomes `UNKNOWN`. `NothingInvented` is stated with that.

## 11. Proofs

Every theorem is `Spec => []P` or `Spec => P` for all values of the constants that meet the named
assumptions. Each module of proofs defines `IInv`, an inductive strengthening that TLC has checked
as an invariant of the run before it was proved, and proves `Init => IInv`,
`IInv /\ [Next]_vars => IInv'` with a step or a lemma per action, and `IInv => P`.

**LifecycleProofs**, for all `MaxExponent \in Nat` and `MaxCount \in Nat \ {0}`: every safety
property of the run `lifecycle`, the refinement of `StatusFeed` included. `IInv` says what the
state means at each place of the loop:

- `RetryInv`: between sessions `down_notified = ever_connected`, and `told` is a function of
  `ever_connected` and `fatal_notified`. This is why the branch at `bot.py:551` announces nothing
  in any reachable state, and it carries the refinement.
- `SessionInv`: from the start of a session to its announced end the flags are clear and the
  attempt counter is 0.
- `ClientInv`: which world client exists at each await. A client held outside its stretch of the
  loop has been paid for by a timeout that abandoned nothing (`abandoned < timeouts`, unless the
  counter is at its cap), so the step that overwrites it keeps `abandoned <= timeouts`.

The refinement goes action by action: five actions map to a step of `StatusFeed` or a stutter, the
others leave both mapped variables alone.

**NameRelayProofs**, for any players, mappings and messages: `OneName`, `QueueLeftOnlyByException`,
`EveryMessageAccounted`, and `ImplementsOrder`, the refinement of `OrderedRelay`. The argument is
`Lookups` (a lookup under way belongs to a queue of a player without a name, and there is one per
player): hence a name is answered once, `Naming` (what was shown of a sender is under the name it
has now) survives the answer, and `Order` (what was shown of the sender in hand precedes what is
still to be shown) holds when a queue starts, since nothing of that player was shown before.
`Accounted` says of each message and mapping whether it is settled, in hand or queued.

**WhoCommandProofs**, for any channels, queries and bounds: `TypeCorrect`, `AnswersGoForward`,
`CommandAnsweredOnce`. A slot in use holds the newest command (`SlotIsNewest`), so an answer is to
it or an older one; `SlotUsedUp` says that a slot which was posted under while nobody is posting
has no answer to come, because a session's end took them all.

**WorldSessionProofs**, for any tasks and bounds: `TypeCorrect`, `HeadersInStep`,
`EntersOnlyIfAdmitted`, `RefusalIsHeeded`. `Incoming` and `Outgoing` say that the headers in
flight carry consecutive positions, from the receiver's to the sender's; the two plain packets are
the exceptions, and while one of them is under way the other direction is empty. `Heeded` says
that the news of an unknown account is the only packet after the challenge and that the client
has not gone past the place that reads it.

**KeepaliveProofs**, for all lengths of the timers with `Limit < Stale`: `TypeCorrect`,
`LiveServerKept`, `SilenceIsBounded`. `Budget`: from the beginning of a read, the time waited, the
time to the next ping, the pings the server may still ignore and the stall it may then take never
exceed `Limit`. `Age` bounds a packet's age by the current read's plus one full limit.

**DiscordRelayProofs**, for any mappings, messages and bounds: `HandlersDoTheirWork`,
`FirstMappingKeepsOrder`, `MessageHasOneClient`, `ChatMeetsASession`. `Progress` says how far a
steady handler has got: sent for each mapping taken, once, in order, all before those still ahead.
`OneClient` says that without timeouts the handlers under way are those of the last client, and
that there are none when the next attempt begins. `Held` ties `self.world` to the place of the
loop. `ImplementsLoop` is the refinement the other way round: with the handlers hidden, every
behaviour of the composition is one of `Lifecycle`, so `LoopKeepsItsPromises` takes over what
`LifecycleProofs` says, with no second proof.

**LoginProofs**, for any modulus, generator, width, hash and private values: `RightPassword`,
`WrongKey`, `OneKey`, and `FullWidthSecret` (a secret whose highest digit is not zero is stripped
alike by both sides, so the exception in `RightPasswordAccepted` is about nothing else). `IInv`
says how each number was computed; the step that needs work is that the client's
`(B - k*v)^(a + u*x)` and the server's `(A * v^u)^b` are one number. It rests on lemmas about
remainders (`ReduceFactor`, `ReduceTerm`) and powers (`PowSum`, `PowPow`), and none of them needs
the modulus to be a prime. `ScrambleAssumption` says that a hash read as a number is a natural
number.

**ChatPathProofs**, for packets, lists, texts and configurations of any size:
`WholePacketsAreUnderstood`, `CutListsAreKept`, `NothingIsInvented`, `LinksStayReadable`,
`MarkersAreGone`, `PostsAreConfigured`, `TagsPingTheBest`. `IInv` is simple (what was handed on
is what the decoder makes of the packet, and what was posted is what `Post` makes of that); the
theorems are about the computation.

- A body is described by where its fields stand in it (`At`), a cut body agrees with it up to its
  end (`IsCut`), and `Reads` says what a reader gives at a field's end: all fields so far, or an
  error if the cut came before. `ChatDecoded` and `NameDecoded` go through the layouts field by
  field; `GuidRead` needs that the bytes of a packed guid stand in the order of its bits.
- A list is its entries' codes one behind the other, `Behind(list, f, i)` bytes for the first `i`.
  `PlayerTaken`, `MemberTaken` and `StringTaken` say what one turn of a decoder's loop makes of one
  entry (`Takes`): the entry if it is there in full, and otherwise a break, or an error if the cut
  is at one of the places `WhoTorn`, `MemberTorn` and `EventTorn` name. `EntriesRead` is the
  induction over the loop: it takes all entries, or those before the first that does not fit, and
  nothing behind it. `WhoDecoded`, `RosterDecoded`, `EventDecoded` and `CharactersDecoded` add the
  counts and strings before the list, and `CommandDecoded` is the way back, from `send_chat` to the
  server. That `decode_who_response` never keeps half of an entry rests on its two guards: the first
  wants a byte more than the fields it protects, for the single byte that is read unguarded next.
- A step of the text pipeline is a substitution `Subst(text, rule)` of a text for each token.
  `SubstSubst` says that one substitution after another is a substitution; `FormatIs` shows in this
  way that the four replacements are as good as one (no name or time has a placeholder in it and
  the message comes last), and `RelayedShowsLinks` that filling in mentions leaves the links alone.
  `CleanShowsLinks` says that a link with its two markers becomes the readable link, which no later
  pass touches.
- A pass over colours leaves a thinner text (`IsThin`): its places in the text before are an
  increasing sequence, and that determines it (`ThinUnique`). In a text whose bars all begin
  markers, two markers have no place in common (`MarkersApart`), so each pass takes a marker out
  whole or leaves it whole (`MarkerStays`), and none comes into being (`MarkersStay`). Hence what
  the passes took out together is again a set of whole markers (`PassClears`), after the last one
  all of them (`CleanIsUncoloured`), and the post, whose other texts have no bar, holds none.
- `MentionsAreBest` shows that the two searches of `mentions.py` find the best fits; since a
  mention belongs to one role or member, one mention found is one person found.

Three definitions are recursive: `Pow`, the loop `Entries` and the library's `FlattenSeq`. That a
function with their equations exists is itself proved (`TableExists`, `WalkExists`, `ConcatExists`), from the library's theorem that
a well-founded relation has minimal elements; the induction theorems, which take an operator, are
not needed, as `SetInduction` says the same of a set.

The assumptions: `ListAssumption`, that an entry of a list has the fields of its layout, of their
sizes, a member the last logoff if and only if it is offline; `CodecAssumption`, that strings in packets have no zero byte, a channel's name is
sent for channel messages and a number for achievements, and a head has the length of its fields;
`TextAssumption`, that the kinds of token are apart and Discord's mentions belong to one role or
member each; `ChatPathAssumption`, that nobody types what only the pipeline produces (a rendered link, a
Discord mention by its number), that templates, names and the clock have no bar in them and filters
no part of a marker, and that names and the clock have no placeholder.

Only model-checked: liveness and ENABLED, which are out of the prover's reach (`AttemptsEnd`,
`LossAnnounced`, `Recovers`, `FreshQueueServed`, `LoneCommandAnswered`, `HungDetected`). Every safety
property, action property and refinement of the passing runs is a theorem.

## 12. Where the code and its documents disagree

The four violation runs show: the overflow (section 3), the stuck queue (4), the answer under
another name (5), the stripped byte (9). Met while modelling, and kept here as notes:

- A timeout in `connect_wow` raises `CancelledError`, which passes the `except Exception` at
  `bot.py:476`; the socket it promises not to leak is dropped (`abandoned` counts these).
- A failing `channel.send` at `bot.py:361`, unlike the one in `_send_wow_chat_to_discord`, leaves
  the callback and ends the WoW session, which is then announced as a loss of the WoW server.
- `close()` awaits `wait_closed()` without a limit (`world_client.py:113-120`), and the 60 s of
  `bot.py:531` do not cover it (section 3).
- `down_notified` and `fatal_notified` are set whether or not the message could be sent
  (`bot.py:500-503` swallows the failure), so a loss whose message failed is never shown as one,
  though `SETUP.md:117-119` promises "a Discord ping if the WoW-side connection ever drops".
- With `character_guid` set the character list is asked for and parsed all the same
  (`bot.py:447`), and a list that does not parse ends the attempt, though `world_client.py:13-15`
  and `README.md:239` say that it is skipped.
- The name of a configured character is looked for among the first entry of the list, the only
  one parsed (`bot.py:460-465`). Any other character has no name, and its own guild events pass
  the test at `bot.py:316`.
- `strip_color_coding` makes three passes, each once, and the comment at `resolver.py:32-34` says
  that the last two clean up any stray marker; a marker that such a removal makes stays
  (section 10).
- Any refusal of the proof, a busy server's too, counts as a wrong password
  (`auth_client.py:210`). The server's `g` and `N` are read and ignored.
- A mapping to whispers always fails, since `send_chat` is given no addressee.
- `content.startswith(".")` after the prefix "[Discord] ..." has been put before it
  (`bot.py:300`) is never true.
- Exact entries of the dot command whitelist are compared with a lower-cased word as they were
  configured.
- The last-seen answer of `!who` does not look at `is_online`, and `guild_members` outlives the
  session it came from.
- Jitter is applied after the cap of the delay, as the docstring of `next_delay` says.

## 13. Not modelled

- What the regular expressions match within a link (kind, number and name) and in a tag, link
  URLs, and `resolve_discord_emoji`. They have unit tests; the models begin with tokens there.
  Colour markers, and with them the ends of links, are modelled in characters; a marker inside a
  link's name is not.
- UTF-8 decoding, the layouts of login packets and of the client's requests other than chat, RC4
  itself and the size of SRP6's numbers.
- `!online` and `!gmotd`, which read what the last roster left; which guild events are posted
  (the own-character test) and in what words; `should_send_directly`, which chooses between two texts.
- Delays as numbers: base, cap and jitter are an expression each.
- `name_cache` and `pending_chat_queues` have no limit in the code; the models bound the messages.
- discord.py. Its `Client.event` registers a coroutine under its own name, and the handlers are
  named `on_discord_message` and `on_discord_ready`; whether the library delivers gateway events
  to them is a question about the library. The models take them to be delivered.
- A failure of `discord_task` (a bad token): `run` looks only at `is_closed()`.
