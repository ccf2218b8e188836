----------------------------- MODULE WhoCommand -----------------------------
(***************************************************************************)
(* The `!who <name>` command of discord_bridge/bot.py.  A Discord handler  *)
(* notes channel and query in one slot of the bridge and sends CMSG_WHO;   *)
(* the reader of the WoW session, a task of its own, later takes the slot  *)
(* as the address of whatever answer arrives.  The two tasks interleave at *)
(* every await, and the slot outlives the session.  A command stands for   *)
(* its number; its channel and query are looked up in `commands`.          *)
(***************************************************************************)
EXTENDS Naturals, Sequences

CONSTANTS
    Channels, Queries,
    Uncached,      \* the channels get_channel does not find (a DM, a thread)
    NoCommand,     \* an empty slot
    MaxCommands,   \* bounds of the commands given, the sessions and the size
    MaxSessions,   \* of an answer
    MaxResults

ASSUME WhoAssumption ==
    /\ MaxCommands \in Nat /\ MaxSessions \in Nat /\ MaxResults \in Nat
    /\ NoCommand \notin Nat
    /\ Uncached \subseteq Channels

VARIABLES
    session, up,   \* sessions so far; is self.world set and its reader running
    slot,          \* last_who_channel_id and last_who_query
    todo,          \* queries the server has received and not answered, in order
    wire,          \* answers on their way: [to |-> command, results |-> count]
    posting,       \* the command the reader is posting to, or NoCommand ...
    reading,       \* ... the command whose answer it posts ...
    left,          \* ... and how many sends remain
    commands,      \* history: the commands taken: [channel, query]
    posted         \* history: sends made: [under |-> command, answer |-> command]

link == <<session, up>>
server == <<todo, wire>>
reader == <<posting, reading, left>>
vars == <<link, slot, server, reader, commands, posted>>

Commands == 1..MaxCommands

TypeOK ==
    /\ session \in 0..MaxSessions
    /\ up \in BOOLEAN
    /\ slot \in Commands \union {NoCommand}
    /\ todo \in Seq(Commands)
    /\ wire \in Seq([to : Commands, results : 0..MaxResults])
    /\ posting \in Commands \union {NoCommand}
    /\ reading \in Commands \union {NoCommand}
    /\ left \in 0..3
    /\ commands \in Seq([channel : Channels, query : Queries])
    /\ Len(commands) <= MaxCommands
    /\ posted \in Seq([under : Commands, answer : Commands])

Init ==
    /\ session = 0 /\ up = FALSE
    /\ slot = NoCommand
    /\ todo = <<>> /\ wire = <<>>
    /\ posting = NoCommand /\ reading = NoCommand /\ left = 0
    /\ commands = <<>> /\ posted = <<>>

-----------------------------------------------------------------------------
Connect ==
    /\ ~up
    /\ session < MaxSessions
    /\ session' = session + 1
    /\ up' = TRUE
    /\ UNCHANGED <<slot, server, reader, commands, posted>>

\* External: the server answers queries in the order it received them.
ServerAnswers ==
    /\ up
    /\ todo # <<>>
    /\ \E count \in 0..MaxResults :
           wire' = Append(wire, [to |-> Head(todo), results |-> count])
    /\ todo' = Tail(todo)
    /\ UNCHANGED <<link, slot, reader, commands, posted>>

\* request_who: the query is written; on a dying connection it is lost, and a
\* failure is logged.  Nothing asks again.
request_who(command) ==
    \/ todo' = Append(todo, command)
    \/ UNCHANGED todo

\* Mutant: a command in progress keeps the slot.
TakeCommand_KeepSlot(c, q) ==
    /\ up
    /\ Len(commands) < MaxCommands
    /\ commands' = Append(commands, [channel |-> c, query |-> q])
    /\ slot' = IF slot = NoCommand THEN Len(commands) + 1 ELSE slot
    /\ request_who(Len(commands) + 1)
    /\ UNCHANGED <<link, wire, reader, posted>>

\* on_discord_message, `who` with a name.  Setting the slot and writing the
\* packet are one step.  Without a world client the message is ignored.
TakeCommand(c, q) ==
    /\ up
    /\ Len(commands) < MaxCommands
    /\ commands' = Append(commands, [channel |-> c, query |-> q])
    /\ slot' = Len(commands) + 1
    /\ request_who(Len(commands) + 1)
    /\ UNCHANGED <<link, wire, reader, posted>>

Addressed == slot # NoCommand /\ commands[slot].channel \notin Uncached

\* Mutants: an empty answer is not reported; every result is sent.
ReadAnswer_SkipEmpty ==
    /\ up /\ posting = NoCommand
    /\ wire # <<>>
    /\ wire' = Tail(wire)
    /\ IF Addressed /\ Head(wire).results > 0
       THEN /\ posting' = slot
            /\ reading' = Head(wire).to
            /\ left' = IF Head(wire).results > 3 THEN 3 ELSE Head(wire).results
       ELSE UNCHANGED reader
    /\ UNCHANGED <<link, slot, todo, commands, posted>>

ReadAnswer_SendAll ==
    /\ up /\ posting = NoCommand
    /\ wire # <<>>
    /\ wire' = Tail(wire)
    /\ IF Addressed
       THEN /\ posting' = slot
            /\ reading' = Head(wire).to
            /\ left' = IF Head(wire).results = 0 THEN 1 ELSE Head(wire).results
       ELSE UNCHANGED reader
    /\ UNCHANGED <<link, slot, todo, commands, posted>>

\* on_wow_who_response up to its first send: the slot is read here and not
\* again.  One send tells of an empty answer, else at most three results are
\* sent.  An empty slot or an unknown channel ends the callback at once.
ReadAnswer ==
    /\ up /\ posting = NoCommand
    /\ wire # <<>>
    /\ wire' = Tail(wire)
    /\ IF Addressed
       THEN /\ posting' = slot
            /\ reading' = Head(wire).to
            /\ left' = IF Head(wire).results = 0 THEN 1
                       ELSE IF Head(wire).results > 3 THEN 3
                       ELSE Head(wire).results
       ELSE UNCHANGED reader
    /\ UNCHANGED <<link, slot, todo, commands, posted>>

\* Mutant: the slot is left as it is after the last send.
PostResult_KeepSlot ==
    /\ posting # NoCommand
    /\ posted' = Append(posted, [under |-> posting, answer |-> reading])
    /\ left' = left - 1
    /\ IF left = 1
       THEN posting' = NoCommand /\ reading' = NoCommand
       ELSE UNCHANGED <<posting, reading>>
    /\ UNCHANGED <<link, slot, server, commands>>

\* One channel.send; after the last one the slot is cleared, whoever holds it.
PostResult ==
    /\ posting # NoCommand
    /\ posted' = Append(posted, [under |-> posting, answer |-> reading])
    /\ left' = left - 1
    /\ IF left = 1
       THEN posting' = NoCommand /\ reading' = NoCommand /\ slot' = NoCommand
       ELSE UNCHANGED <<posting, reading, slot>>
    /\ UNCHANGED <<link, server, commands>>

\* The session ends: the server is gone, or a send raised out of the reader.
SessionEnds ==
    /\ up
    /\ up' = FALSE
    /\ todo' = <<>> /\ wire' = <<>>
    /\ posting' = NoCommand /\ reading' = NoCommand /\ left' = 0
    /\ UNCHANGED <<session, slot, commands, posted>>

Reader == ReadAnswer \/ PostResult

Next ==
    \/ \E c \in Channels, q \in Queries : TakeCommand(c, q)
    \/ Reader \/ SessionEnds
    \/ Connect \/ ServerAnswers

Spec == Init /\ [][Next]_vars

\* The reader runs, and a server that is up answers what it received.
FairSpec == Spec /\ WF_vars(Reader) /\ WF_vars(ServerAnswers)

-----------------------------------------------------------------------------
\* An answer is never shown as the answer to an older command: commands that
\* overlap can only push an answer forward (bot.py:260-261, 371-375).
NeverUnderOlder ==
    \A k \in DOMAIN posted : posted[k].under >= posted[k].answer

\* A command is shown the answer to one command at most, its own or not: the
\* slot is used up by the answer it addresses (bot.py:368-375, 415-416).
OneAnswerEach ==
    \A j, k \in DOMAIN posted :
        posted[j].under = posted[k].under => posted[j].answer = posted[k].answer

\* A command given while no other is under way is answered, unless a later
\* command or the end of the session comes in between (bot.py:258-263).
Alone(k) ==
    /\ up /\ Len(commands) = k
    /\ slot = k /\ commands[k].channel \notin Uncached
    /\ todo = <<k>> /\ wire = <<>> /\ posting = NoCommand

LoneCommandAnswered ==
    \A k \in Commands :
        Alone(k) ~> \/ ~up \/ Len(commands) > k
                    \/ [under |-> k, answer |-> k] \in {posted[j] : j \in DOMAIN posted}

-----------------------------------------------------------------------------
\* README.md:209, "`!who <name>` queries the server /who list for a player
\* name": what is shown in reply to a command is about its name.
AnsweredAboutItsName ==
    \A k \in DOMAIN posted :
        commands[posted[k].under].query = commands[posted[k].answer].query
=============================================================================
