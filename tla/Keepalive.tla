----------------------------- MODULE Keepalive ------------------------------
(***************************************************************************)
(* When does a world session give up on a silent server?  In               *)
(* world/world_client.py the reader awaits the header and then the body of *)
(* each packet, each read with a limit of its own, and awaits the bridge's *)
(* callback in between, with no limit; another task sends a ping every     *)
(* 30 s.  Time passes in ticks.  A step that is due happens before the     *)
(* next tick.                                                              *)
(***************************************************************************)
EXTENDS Integers

CONSTANTS
    Ping,        \* ticks between two pings
    Stale,       \* stale_timeout, in ticks
    MaxStall,    \* external: a live server completes an answer within this
    MaxMissed,   \* external: and leaves at most so many pings in a row alone
    MaxBuffer    \* bound on the packets counted as buffered

\* How long a live server can keep the reader waiting.
Limit == Ping * (MaxMissed + 1) + MaxStall

ASSUME KeepaliveAssumption ==
    /\ Ping \in Nat \ {0} /\ Stale \in Nat \ {0}
    /\ MaxStall \in Nat /\ MaxMissed \in Nat /\ MaxBuffer \in Nat \ {0}
    /\ Limit < Stale

VARIABLES
    reader,    \* what the reader awaits, or how it ended
    quiet,     \* ticks this _read_exact has lasted
    since,     \* history: ticks since it began to wait for this packet
    ping_in,   \* ticks until ping_loop wakes
    server,    \* "alive", "slow": keeps no time limit, "hung": silent for
               \* good, or "broken": the connection ends with an error
    whole,     \* complete packets that arrived, the one being read included
    part,      \* pieces that arrived of a packet that is not complete
    due,       \* ticks the server has to complete a packet, or NotDue
    missed     \* pings it has left alone since it last took one

vars == <<reader, quiet, since, ping_in, server, whole, part, due, missed>>
arrivals == <<whole, part, due, missed>>

NotDue == -1

\* A packet comes in three pieces: its header, some of its body, the rest.
Reading == {"header", "body", "rest"}

TypeOK ==
    /\ reader \in Reading \union {"callback", "stale", "lost"}
    /\ quiet \in 0..Stale
    /\ since \in Nat
    /\ ping_in \in 0..Ping
    /\ server \in {"alive", "slow", "hung", "broken"}
    /\ whole \in 0..MaxBuffer
    /\ part \in 0..2
    /\ due \in {NotDue} \union 0..MaxStall
    /\ missed \in 0..MaxMissed

Init ==
    /\ reader = "header" /\ quiet = 0 /\ since = 0
    /\ ping_in = Ping
    /\ server = "alive"
    /\ whole = 0 /\ part = 0 /\ due = NotDue /\ missed = 0

-----------------------------------------------------------------------------
\* What the current read waits for has arrived.
Available ==
    \/ reader \in Reading /\ whole > 0
    \/ reader = "header" /\ part > 0
    \/ reader = "body" /\ part > 1

\* The header is complete: a new read, with a new limit, awaits the body.
ReadHeader ==
    /\ reader = "header" /\ Available
    /\ reader' = "body"
    /\ quiet' = 0
    /\ UNCHANGED <<since, ping_in, server, arrivals>>

\* Mutant: the limit restarts whenever some bytes arrive.
ReadSome_Restarts ==
    /\ reader = "body" /\ Available
    /\ reader' = "rest"
    /\ quiet' = 0
    /\ UNCHANGED <<since, ping_in, server, arrivals>>

\* readexactly buffers an incomplete body; its limit runs on.
ReadSome ==
    /\ reader = "body" /\ Available
    /\ reader' = "rest"
    /\ UNCHANGED <<quiet, since, ping_in, server, arrivals>>

\* Mutant: the limit spans the packets.
ReadRest_KeepsLimit ==
    /\ reader = "rest" /\ Available
    /\ reader' \in {"header", "callback"}
    /\ since' = 0
    /\ whole' = whole - 1
    /\ UNCHANGED <<quiet, ping_in, server, part, due, missed>>

\* The packet is complete; its callback, if there is one, may await Discord.
ReadRest ==
    /\ reader = "rest" /\ Available
    /\ reader' \in {"header", "callback"}
    /\ quiet' = 0 /\ since' = 0
    /\ whole' = whole - 1
    /\ UNCHANGED <<ping_in, server, part, due, missed>>

CallbackReturns ==
    /\ reader = "callback"
    /\ reader' = "header"
    /\ UNCHANGED <<quiet, since, ping_in, server, arrivals>>

\* Mutant: only a packet's header is read under the limit.
GoesStale_HeaderOnly ==
    /\ reader = "header" /\ quiet = Stale /\ ~Available
    /\ reader' = "stale"
    /\ UNCHANGED <<quiet, since, ping_in, server, arrivals>>

\* asyncio.wait_for: ConnectionStale
GoesStale ==
    /\ reader \in Reading /\ quiet = Stale /\ ~Available
    /\ reader' = "stale"
    /\ UNCHANGED <<quiet, since, ping_in, server, arrivals>>

\* The connection is closed or reset, and the reader gets to know.
LinkLost ==
    /\ server = "broken"
    /\ reader \in Reading
    /\ reader' = "lost"
    /\ UNCHANGED <<quiet, since, ping_in, server, arrivals>>

\* ping_loop wakes and sends; the server takes note of the ping or does not.
SendPing ==
    /\ reader \in Reading \union {"callback"}
    /\ ping_in = 0
    /\ ping_in' = Ping
    /\ \/ /\ server = "alive"
          /\ missed' = 0
          /\ due' = IF due = NotDue THEN MaxStall ELSE due
       \/ /\ server = "alive" /\ missed < MaxMissed
          /\ missed' = missed + 1
          /\ UNCHANGED due
       \/ /\ server # "alive"
          /\ UNCHANGED <<missed, due>>
    /\ UNCHANGED <<reader, quiet, since, server, whole, part>>

\* External: the server sends the next piece, asked or not.
Arrives ==
    /\ server \in {"alive", "slow"}
    /\ \/ /\ part < 2
          /\ part' = part + 1
          /\ UNCHANGED <<whole, due>>
       \/ /\ part = 2
          /\ part' = 0
          /\ whole' = IF whole < MaxBuffer THEN whole + 1 ELSE whole
          /\ due' = NotDue
    /\ UNCHANGED <<reader, quiet, since, ping_in, server, missed>>

\* External: the server slows down or hangs, or its connection breaks.
ServerFails ==
    /\ \/ server = "alive" /\ server' \in {"slow", "hung", "broken"}
       \/ server = "slow" /\ server' \in {"hung", "broken"}
    /\ UNCHANGED <<reader, quiet, since, ping_in, arrivals>>

\* A tick passes when nothing is due: every timer runs.
Tick ==
    /\ reader \in Reading \union {"callback"}
    /\ ~Available
    /\ ping_in > 0
    /\ server = "alive" => due # 0
    /\ reader \in Reading => quiet < Stale /\ server # "broken"
    /\ ping_in' = ping_in - 1
    /\ due' = IF server = "alive" /\ due > 0 THEN due - 1 ELSE due
    /\ IF reader \in Reading
       THEN quiet' = quiet + 1 /\ since' = since + 1
       ELSE UNCHANGED <<quiet, since>>
    /\ UNCHANGED <<reader, server, whole, part, missed>>

ReaderSteps ==
    \/ ReadHeader \/ ReadSome \/ ReadRest \/ CallbackReturns
    \/ GoesStale \/ LinkLost

Next == ReaderSteps \/ SendPing \/ Tick \/ Arrives \/ ServerFails

Spec == Init /\ [][Next]_vars

\* Ready tasks run and time passes; Discord lets a callback return.
FairSpec == Spec /\ WF_vars(ReaderSteps) /\ WF_vars(SendPing) /\ WF_vars(Tick)

-----------------------------------------------------------------------------
\* A live server is never declared dead, however its answers are stalled, cut
\* into pieces or read late behind a slow callback: the pings draw one out of
\* it in time (world_client.py:88-93, 122-132, 371-379).
KeptThroughStalls == reader = "stale" => server # "alive"

\* The limit restarts for the body, so a server that stops in mid-packet is
\* noticed later than the 90 s of stale_timeout, but within twice that time.
DetectionBound == reader \in Reading => since <= 2 * Stale

\* A server that hangs without closing the connection ends the session.
HungDetected == server = "hung" ~> reader = "stale"
=============================================================================
