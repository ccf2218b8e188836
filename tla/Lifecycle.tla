----------------------------- MODULE Lifecycle ------------------------------
(***************************************************************************)
(* The reconnection loop WowBridge.run of discord_bridge/bot.py and the    *)
(* connection sequence connect_wow that it bounds with a 60 s timeout.     *)
(* One asyncio task runs the loop; its steps are the stretches of code     *)
(* between two awaits, and pc says where it is suspended.  The other       *)
(* actors are the servers (which answer, reject, fail or stay silent), the *)
(* timer of asyncio.wait_for, Discord's gateway (which may close for       *)
(* good) and the packet callbacks (which may raise).                       *)
(***************************************************************************)
EXTENDS Integers

CONSTANTS
    MaxExponent,  \* largest e for which 2.0 ** e is a finite float (1023)
    MaxCount      \* bound of the two bookkeeping counters below

ASSUME BoundsAssumption == MaxExponent \in Nat /\ MaxCount \in Nat \ {0}

VARIABLES
    pc,               \* where the loop is suspended
    sock,             \* connect_wow's local `world`, holding a socket or not
    world,            \* self.world, as the Discord handlers see it
    attempt,          \* backoff._attempt
    wait,             \* delay of the current sleep: an exponent, or Fatal
    ever_connected, down_notified, fatal_notified,
    discord_closed,   \* discord_client.is_closed()
    cause,            \* bookkeeping: what ended the last session
    abandoned,        \* bookkeeping: world sockets dropped without close()
    timeouts,         \* bookkeeping: connection attempts cut off at 60 s
    told, seen,       \* last status announced / shown in the status channel
    beat              \* flips with every announcement

sockets == <<sock, world, abandoned, timeouts>>
flags == <<ever_connected, down_notified, fatal_notified>>
feed == <<told, seen, beat>>
vars == <<pc, sockets, attempt, wait, flags, discord_closed, cause, feed>>

Fatal == -1       \* the flat reconnect_fatal_delay
NoWait == -2

\* connect_wow: auth server; dialling the world server; awaiting the end of
\* the auth handshake, the character list, the world entry and channel joins;
\* and, with self.world already assigned, the first roster request.
Dialled == {"handshake", "characters", "enter"}
Connecting == {"auth", "dial", "roster"} \union Dialled
Retrying == Connecting \union {"top", "rejected", "failed", "sleep"}
Labels == Retrying \union
          {"connected", "running", "ending", "lost", "closing", "done"}

Statuses == {"nothing", "lost", "rejected", "reconnected"}

TypeOK ==
    /\ pc \in Labels
    /\ sock \in {"none", "open"}
    /\ world \in {"none", "open", "closed"}
    /\ abandoned \in 0..MaxCount
    /\ timeouts \in 0..MaxCount
    /\ attempt \in 0..MaxExponent + 1
    /\ wait \in {Fatal, NoWait} \union 0..MaxExponent
    /\ ever_connected \in BOOLEAN
    /\ down_notified \in BOOLEAN
    /\ fatal_notified \in BOOLEAN
    /\ discord_closed \in BOOLEAN
    /\ cause \in {"none", "server", "callback"}
    /\ told \in Statuses
    /\ seen \in Statuses
    /\ beat \in {0, 1}

Init ==
    /\ pc = "top"
    /\ sock = "none" /\ world = "none"
    /\ abandoned = 0 /\ timeouts = 0
    /\ attempt = 0 /\ wait = NoWait
    /\ ever_connected = FALSE /\ down_notified = FALSE /\ fatal_notified = FALSE
    /\ discord_closed = FALSE
    /\ cause = "none"
    /\ told = "nothing" /\ seen = "nothing" /\ beat = 0

-----------------------------------------------------------------------------
\* Counters stop at MaxCount instead of blocking the step that counts.
Bumped(n) == IF n < MaxCount THEN n + 1 ELSE n

Goto(from, to) == pc = from /\ pc' = to

\* _notify_status: unconfigured, unresolvable and failing sends are all silent.
Notify(text) ==
    /\ told' = text
    /\ seen' \in {seen, text}
    /\ beat' = 1 - beat

NotifyIf(due, text) == IF due THEN Notify(text) ELSE UNCHANGED feed

\* Mutant: the attempt counter is advanced before the delay is computed.
BackOff_IncrementFirst ==
    \/ /\ attempt <= MaxExponent
       /\ wait' = attempt + 1
       /\ attempt' = attempt + 1
       /\ pc' = "sleep"
    \/ /\ attempt > MaxExponent
       /\ pc' = "closing"
       /\ UNCHANGED <<wait, attempt>>

\* backoff.next_delay() and the sleep on it.  2.0 ** attempt overflows past
\* MaxExponent; the exception leaves the loop through its outer `finally`.
BackOff ==
    \/ /\ attempt <= MaxExponent
       /\ wait' = attempt
       /\ attempt' = attempt + 1
       /\ pc' = "sleep"
    \/ /\ attempt > MaxExponent
       /\ pc' = "closing"
       /\ UNCHANGED <<wait, attempt>>

-----------------------------------------------------------------------------
\* Mutant: an attempt is skipped while self.world still holds a client.
LoopTop_SkipIfHeld ==
    /\ pc = "top"
    /\ pc' = IF discord_closed THEN "closing"
             ELSE IF world = "none" THEN "auth" ELSE "sleep"
    /\ UNCHANGED <<sockets, attempt, wait, flags, discord_closed, cause, feed>>

\* `while not self.discord_client.is_closed()`
LoopTop ==
    /\ pc = "top"
    /\ pc' = IF discord_closed THEN "closing" ELSE "auth"
    /\ UNCHANGED <<sockets, attempt, wait, flags, discord_closed, cause, feed>>

\* The connection sequence.  The auth socket is closed in a `finally` before
\* the sequence goes on, so it never outlives the "auth" stage.
Authenticated ==
    /\ Goto("auth", "dial")
    /\ UNCHANGED <<sockets, attempt, wait, flags, discord_closed, cause, feed>>

\* Mutant: the handlers get the client as soon as its socket is open.
WorldDialled_Shared ==
    /\ Goto("dial", "handshake")
    /\ sock' = "open"
    /\ world' = "open"
    /\ UNCHANGED <<abandoned, timeouts>>
    /\ UNCHANGED <<attempt, wait, flags, discord_closed, cause, feed>>

WorldDialled ==
    /\ Goto("dial", "handshake")
    /\ sock' = "open"
    /\ UNCHANGED <<world, abandoned, timeouts>>
    /\ UNCHANGED <<attempt, wait, flags, discord_closed, cause, feed>>

HandshakeDone ==
    /\ Goto("handshake", "characters")
    /\ UNCHANGED <<sockets, attempt, wait, flags, discord_closed, cause, feed>>

CharactersListed ==
    /\ Goto("characters", "enter")
    /\ UNCHANGED <<sockets, attempt, wait, flags, discord_closed, cause, feed>>

\* `self.world = world`: a client still held from an earlier attempt is
\* overwritten, and nothing else refers to it.
WorldEntered ==
    /\ Goto("enter", "roster")
    /\ sock' = "none"
    /\ world' = "open"
    /\ abandoned' = IF world = "open" THEN Bumped(abandoned) ELSE abandoned
    /\ UNCHANGED <<timeouts, attempt, wait, flags, discord_closed, cause, feed>>

\* The first roster request; an Exception it raises is logged and swallowed.
RosterRequested ==
    /\ Goto("roster", "connected")
    /\ UNCHANGED <<sockets, attempt, wait, flags, discord_closed, cause, feed>>

\* FatalAuthError from the auth server, FatalWorldError from the world server.
ConnectRejected ==
    /\ pc \in {"auth", "handshake"}
    /\ pc' = "rejected"
    /\ sock' = "none"
    /\ UNCHANGED <<world, abandoned, timeouts>>
    /\ UNCHANGED <<attempt, wait, flags, discord_closed, cause, feed>>

\* Mutant: the handler re-raises without closing the world socket.
ConnectFailed_NoClose ==
    /\ pc \in Connecting \ {"roster"}
    /\ pc' = "failed"
    /\ abandoned' = IF sock = "open" THEN Bumped(abandoned) ELSE abandoned
    /\ sock' = "none"
    /\ UNCHANGED <<world, timeouts>>
    /\ UNCHANGED <<attempt, wait, flags, discord_closed, cause, feed>>

\* Any other Exception; `except Exception` closes the world socket.
ConnectFailed ==
    /\ pc \in Connecting \ {"roster"}
    /\ pc' = "failed"
    /\ sock' = "none"
    /\ UNCHANGED <<world, abandoned, timeouts>>
    /\ UNCHANGED <<attempt, wait, flags, discord_closed, cause, feed>>

\* Mutant: wait_for bounds the auth login only.
ConnectTimeout_AuthOnly ==
    /\ pc = "auth"
    /\ pc' = "failed"
    /\ timeouts' = Bumped(timeouts)
    /\ UNCHANGED <<sock, abandoned, world, attempt, wait, flags>>
    /\ UNCHANGED <<discord_closed, cause, feed>>

\* wait_for cancels the sequence.  CancelledError is not an Exception, so
\* the handler that closes the world socket does not run.
ConnectTimeout ==
    /\ pc \in Connecting
    /\ pc' = "failed"
    /\ timeouts' = Bumped(timeouts)
    /\ abandoned' = IF sock = "open" THEN Bumped(abandoned) ELSE abandoned
    /\ sock' = "none"
    /\ UNCHANGED <<world, attempt, wait, flags, discord_closed, cause, feed>>

\* Mutants: every rejection is announced; a rejection ends the loop.
SleepRejected_Spam ==
    /\ Goto("rejected", "sleep")
    /\ Notify("rejected")
    /\ fatal_notified' = TRUE
    /\ wait' = Fatal
    /\ UNCHANGED <<sockets, attempt, ever_connected, down_notified>>
    /\ UNCHANGED <<discord_closed, cause>>

SleepRejected_Break ==
    /\ Goto("rejected", "closing")
    /\ NotifyIf(~fatal_notified, "rejected")
    /\ fatal_notified' = TRUE
    /\ UNCHANGED <<wait, sockets, attempt, ever_connected, down_notified>>
    /\ UNCHANGED <<discord_closed, cause>>

\* `except (FatalAuthError, FatalWorldError)`
SleepRejected ==
    /\ Goto("rejected", "sleep")
    /\ NotifyIf(~fatal_notified, "rejected")
    /\ fatal_notified' = TRUE
    /\ wait' = Fatal
    /\ UNCHANGED <<sockets, attempt, ever_connected, down_notified>>
    /\ UNCHANGED <<discord_closed, cause>>

\* `except Exception` around the attempt
SleepFailed ==
    /\ pc = "failed"
    /\ NotifyIf(ever_connected /\ ~down_notified, "lost")
    /\ down_notified' = (down_notified \/ ever_connected)
    /\ BackOff
    /\ UNCHANGED <<sockets, ever_connected, fatal_notified, discord_closed, cause>>

\* Mutant: backoff.reset() is forgotten.
StartSession_NoReset ==
    /\ Goto("connected", "running")
    /\ NotifyIf(down_notified \/ fatal_notified, "reconnected")
    /\ ever_connected' = TRUE
    /\ down_notified' = FALSE
    /\ fatal_notified' = FALSE
    /\ cause' = "none"
    /\ UNCHANGED <<sockets, attempt, wait, discord_closed>>

\* Connected: announce the recovery, reset the backoff and the flags, run.
StartSession ==
    /\ Goto("connected", "running")
    /\ NotifyIf(down_notified \/ fatal_notified, "reconnected")
    /\ attempt' = 0
    /\ ever_connected' = TRUE
    /\ down_notified' = FALSE
    /\ fatal_notified' = FALSE
    /\ cause' = "none"
    /\ UNCHANGED <<sockets, wait, discord_closed>>

\* Mutant: the session's `finally` only clears self.world.
SessionEnds_NoClose ==
    /\ Goto("running", "ending")
    /\ cause' \in {"server", "callback"}
    /\ world' = "none"
    /\ UNCHANGED <<sock, abandoned, timeouts>>
    /\ UNCHANGED <<attempt, wait, flags, discord_closed, feed>>

\* WorldClient.run raised: the server closed or went stale, or a callback let
\* a Discord error through.  The `finally` closes the client first ...
SessionEnds ==
    /\ Goto("running", "ending")
    /\ cause' \in {"server", "callback"}
    /\ world' = "closed"
    /\ UNCHANGED <<sock, abandoned, timeouts>>
    /\ UNCHANGED <<attempt, wait, flags, discord_closed, feed>>

\* Mutant: self.world is closed but not cleared.
WorldReleased_Kept ==
    /\ Goto("ending", "lost")
    /\ UNCHANGED <<sockets, attempt, wait, flags, discord_closed, cause, feed>>

\* ... and clears self.world only once wait_closed() has returned.
WorldReleased ==
    /\ Goto("ending", "lost")
    /\ world' = "none"
    /\ UNCHANGED <<sock, abandoned, timeouts>>
    /\ UNCHANGED <<attempt, wait, flags, discord_closed, cause, feed>>

\* Mutants: the outage flag is not set; it is set before it is tested.
SleepLost_NoFlag ==
    /\ pc = "lost"
    /\ \/ /\ discord_closed
          /\ pc' = "closing"
          /\ UNCHANGED <<attempt, wait, flags, feed>>
       \/ /\ ~discord_closed
          /\ NotifyIf(~down_notified, "lost")
          /\ BackOff
          /\ UNCHANGED flags
    /\ UNCHANGED <<sockets, discord_closed, cause>>

SleepLost_FlagFirst ==
    /\ pc = "lost"
    /\ \/ /\ discord_closed
          /\ pc' = "closing"
          /\ UNCHANGED <<attempt, wait, flags, feed>>
       \/ /\ ~discord_closed
          /\ down_notified' = TRUE
          /\ BackOff
          /\ UNCHANGED <<ever_connected, fatal_notified, feed>>
    /\ UNCHANGED <<sockets, discord_closed, cause>>

SleepLost ==
    /\ pc = "lost"
    /\ \/ /\ discord_closed
          /\ pc' = "closing"
          /\ UNCHANGED <<attempt, wait, flags, feed>>
       \/ /\ ~discord_closed
          /\ NotifyIf(~down_notified, "lost")
          /\ down_notified' = TRUE
          /\ BackOff
          /\ UNCHANGED <<ever_connected, fatal_notified>>
    /\ UNCHANGED <<sockets, discord_closed, cause>>

Wake ==
    /\ Goto("sleep", "top")
    /\ wait' = NoWait
    /\ UNCHANGED <<sockets, attempt, flags, discord_closed, cause, feed>>

\* The outer `finally`
Shutdown ==
    /\ Goto("closing", "done")
    /\ discord_closed' = TRUE
    /\ UNCHANGED <<sockets, attempt, wait, flags, cause, feed>>

\* External: the gateway connection is closed for good.
DiscordCloses ==
    /\ ~discord_closed
    /\ discord_closed' = TRUE
    /\ UNCHANGED <<pc, sockets, attempt, wait, flags, cause, feed>>

-----------------------------------------------------------------------------
\* Steps the loop takes as soon as it is scheduled; nobody can withhold them.
LoopSteps ==
    \/ LoopTop \/ SleepRejected \/ SleepFailed \/ StartSession
    \/ SleepLost \/ Wake \/ Shutdown

\* Steps that need an answer from a server, or its failure.  WorldReleased is
\* one: wait_closed() has no limit, and a server that does not read what is
\* still buffered for it can withhold the end of the connection.
Answers ==
    \/ Authenticated \/ WorldDialled \/ HandshakeDone \/ CharactersListed
    \/ WorldEntered \/ RosterRequested \/ ConnectRejected \/ ConnectFailed
    \/ WorldReleased

Next == LoopSteps \/ Answers \/ SessionEnds \/ ConnectTimeout \/ DiscordCloses

Spec == Init /\ [][Next]_vars

\* The event loop runs ready tasks and fires timers; servers owe nothing.
FairSpec == Spec /\ WF_vars(LoopSteps) /\ WF_vars(ConnectTimeout)

-----------------------------------------------------------------------------
\* Every world socket that was dropped without close() belongs to an attempt
\* that the 60 s timeout cut off: no other way out of connect_wow or of a
\* session leaks one (bot.py:476-482, 597-601).
SocketsAccounted == abandoned <= timeouts

\* The Discord handlers can see a world client outside a session only after
\* a timeout hit the roster request: every other failure path either has not
\* assigned self.world yet or has cleared it again.
StaleWorldOnlyAfterTimeout ==
    world # "none" =>
        \/ pc \in {"roster", "connected", "running", "ending"}
        \/ timeouts > 0

\* Whenever the bridge is between sessions, the outage is already flagged as
\* announced, so no retry announces it again (bot.py:551, 607).
OutageFlagged == ever_connected /\ pc \in Retrying => down_notified

\* The loop gives up only when Discord is closed or when the backoff exponent
\* has left the range of a float; no sequence of WoW failures short of that
\* ends the bridge (bot.py:523-614).
StopsOnlyForGoodReason ==
    pc \in {"closing", "done"} => discord_closed \/ attempt > MaxExponent

\* The first retry after a dropped session waits the base delay: however long
\* the failure streak before it was, the session restarted the curve.
FirstRetryAtBase == [][pc = "lost" /\ pc' = "sleep" => wait' = 0]_vars

\* The announcements follow the abstract feed.
Feed == INSTANCE StatusFeed WITH
            link <- IF pc = "running" THEN "up"
                    ELSE IF ever_connected THEN "down" ELSE "never",
            told <- told, beat <- beat

FollowsFeed == Feed!Spec

\* A server that accepts the connection and then stays silent does not hang
\* the loop: every attempt ends (bot.py:527-531).
AttemptsEnd == pc \in Connecting ~> pc \notin Connecting

\* A session that ends is handed to _notify_status as a loss, unless Discord
\* is gone, provided that close() comes to an end; the 60 s limit does not
\* cover it, nor does any other (bot.py:597-611, world_client.py:113-120).  A
\* status that could not be sent is not sent again (bot.py:500-503), but keeps
\* no later outage from the channel: once the sends work, losses are shown.
SendsWork == [][seen' = told']_beat

LossAnnounced ==
    WF_vars(WorldReleased) =>
        /\ pc = "ending" ~> told = "lost" \/ discord_closed
        /\ <>SendsWork =>
               <>[](pc = "ending" => <>(seen = "lost" \/ discord_closed))

\* Once the servers answer every attempt and none fails any more, the bridge
\* gets back into a session from any point of its retry cycle, whatever
\* timeouts and leaks came before (bot.py:523-571).
Failure == ConnectRejected \/ ConnectFailed \/ ConnectTimeout

Recovers ==
    WF_vars(Answers) /\ <>[][~Failure]_vars
        => (pc = "sleep" ~> pc = "running" \/ discord_closed)

-----------------------------------------------------------------------------
\* A claim of the documents that the code does not keep.

\* README.md:41, "Automatic reconnection": the loop ends only with Discord.
OnlyDiscordStopsTheLoop == pc \in {"closing", "done"} => discord_closed
=============================================================================
