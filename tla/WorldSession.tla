---------------------------- MODULE WorldSession ----------------------------
(***************************************************************************)
(* One connection to the world server (world/world_client.py) and the two  *)
(* RC4 streams that cipher its packet headers (world/crypto.py).  A stream *)
(* is its position: a header is readable only at the position the other    *)
(* end has reached.  The client is the connecting task until the client is *)
(* in the world; from then on the reader, the ping loop, the roster loop   *)
(* and the Discord handlers all send through it.  Packet bodies are left   *)
(* out, except for the verdicts in them.                                   *)
(***************************************************************************)
EXTENDS Naturals, Sequences

CONSTANTS
    Tasks,         \* the tasks that send once the client is in the world
    Plain,         \* the position of a header sent in the clear
    MaxOut, MaxIn, \* bounds on the headers of either direction
    MaxDrained     \* packets enter_world reads before it gives up (200)

ASSUME SessionAssumption ==
    /\ Plain \notin Nat
    /\ MaxOut \in Nat /\ MaxIn \in Nat /\ MaxDrained \in Nat \ {0}

VARIABLES
    pc,          \* what the connecting task, and then the reader, awaits
    encrypted,   \* _encrypted
    enc, dec,    \* positions of the client's two streams
    drained,     \* packets read by enter_world
    draining,    \* tasks suspended in drain(), their packet written
    to_server, to_client,   \* packets in flight: [op, at |-> position]
    stage,       \* what the server has granted
    s_enc, s_dec,           \* positions of the server's two streams
    verdict,     \* history: the rejection sent by the server, if any
    garbled      \* history: a header was read out of step, by either end

client == <<pc, encrypted, drained>>
server == <<stage, verdict, s_enc, s_dec>>
vars ==
    <<client, enc, dec, draining, to_server, to_client, server, garbled>>

Awaits == {"challenge", "sent_auth", "auth_response", "char_enum",
           "verify_world", "running", "rejected", "failed"}
ClientOps == {"AUTH_SESSION", "CHAR_ENUM", "PLAYER_LOGIN", "other"}
ServerOps == {"AUTH_CHALLENGE", "AUTH_OK", "AUTH_UNKNOWN_ACCOUNT",
              "AUTH_OTHER", "CHAR_ENUM", "VERIFY_WORLD", "LOGIN_FAILED",
              "other"}

TypeOK ==
    /\ pc \in Awaits
    /\ encrypted \in BOOLEAN
    /\ enc \in 0..MaxOut /\ s_dec \in 0..MaxOut
    /\ dec \in 0..MaxIn /\ s_enc \in 0..MaxIn
    /\ drained \in 0..MaxDrained
    /\ draining \subseteq Tasks
    /\ to_server \in Seq([op : ClientOps, at : {Plain} \union 0..MaxOut])
    /\ to_client \in Seq([op : ServerOps, at : {Plain} \union 0..MaxIn])
    /\ stage \in {"fresh", "challenged", "authed", "in_world", "closed"}
    /\ verdict \in
           {"none", "AUTH_UNKNOWN_ACCOUNT", "AUTH_OTHER", "LOGIN_FAILED"}
    /\ garbled \in BOOLEAN

Init ==
    /\ pc = "challenge" /\ encrypted = FALSE /\ drained = 0
    /\ enc = 0 /\ dec = 0 /\ s_enc = 0 /\ s_dec = 0
    /\ draining = {}
    /\ to_server = <<>> /\ to_client = <<>>
    /\ stage = "fresh" /\ verdict = "none"
    /\ garbled = FALSE

-----------------------------------------------------------------------------
\* WorldCrypto: the position a header gets or is read at, and where ciphering it
\* leaves its stream; before the streams exist headers are plain.
At(position) == IF encrypted THEN position ELSE Plain
Crypt(position) == IF encrypted THEN position + 1 ELSE position

\* _send_client_packet: ciphering the header and writing the packet are one
\* step, with no await between them; the await is in drain().
SendClient(op) ==
    /\ enc < MaxOut
    /\ enc' = Crypt(enc)
    /\ to_server' = Append(to_server, [op |-> op, at |-> At(enc)])

\* _read_server_packet: decipher the header if ciphering is on.
ReadServer(op) ==
    /\ to_client # <<>> /\ Head(to_client).op = op
    /\ to_client' = Tail(to_client)
    /\ dec' = Crypt(dec)
    /\ garbled' = (garbled \/ Head(to_client).at # At(dec))
    /\ UNCHANGED server

\* A read in which the client learns that the attempt has failed.
Fail(op, outcome) ==
    /\ ReadServer(op)
    /\ pc' = outcome
    /\ UNCHANGED <<encrypted, drained, enc, draining, to_server>>

-----------------------------------------------------------------------------
\* The server (external).  Its side of the streams starts with the answer to
\* the client's proof.
ServerSend(op, at) == to_client' = Append(to_client, [op |-> op, at |-> at])

ServerRead(op) ==
    /\ to_server # <<>> /\ Head(to_server).op = op
    /\ to_server' = Tail(to_server)
    /\ garbled' =
           (garbled \/ Head(to_server).at #
                           (IF op = "AUTH_SESSION" THEN Plain ELSE s_dec))
    /\ s_dec' = IF op = "AUTH_SESSION" THEN s_dec ELSE s_dec + 1

ServerChallenges ==
    /\ stage = "fresh"
    /\ stage' = "challenged"
    /\ ServerSend("AUTH_CHALLENGE", Plain)
    /\ UNCHANGED <<client, enc, dec, draining, to_server>>
    /\ UNCHANGED <<verdict, s_enc, s_dec, garbled>>

ServerJudges ==
    /\ stage = "challenged"
    /\ ServerRead("AUTH_SESSION")
    /\ s_enc < MaxIn
    /\ s_enc' = s_enc + 1
    /\ \/ /\ ServerSend("AUTH_OK", s_enc)
          /\ stage' = "authed"
          /\ UNCHANGED verdict
       \/ \E code \in {"AUTH_UNKNOWN_ACCOUNT", "AUTH_OTHER"} :
              /\ ServerSend(code, s_enc)
              /\ stage' = "closed"
              /\ verdict' = code
    /\ UNCHANGED <<client, enc, dec, draining>>

ServerLists ==
    /\ stage = "authed"
    /\ ServerRead("CHAR_ENUM")
    /\ s_enc < MaxIn
    /\ s_enc' = s_enc + 1
    /\ ServerSend("CHAR_ENUM", s_enc)
    /\ UNCHANGED <<client, enc, dec, draining, stage, verdict>>

ServerAdmits ==
    /\ stage = "authed"
    /\ ServerRead("PLAYER_LOGIN")
    /\ s_enc < MaxIn
    /\ s_enc' = s_enc + 1
    /\ \/ /\ ServerSend("VERIFY_WORLD", s_enc)
          /\ stage' = "in_world"
          /\ UNCHANGED verdict
       \/ /\ ServerSend("LOGIN_FAILED", s_enc)
          /\ stage' = "closed"
          /\ verdict' = "LOGIN_FAILED"
    /\ UNCHANGED <<client, enc, dec, draining>>

ServerServes ==
    /\ stage = "in_world"
    /\ ServerRead("other")
    /\ UNCHANGED <<client, enc, dec, draining, to_client>>
    /\ UNCHANGED <<stage, verdict, s_enc>>

\* Packets nobody asked for, at any time after the login.
ServerTalks ==
    /\ stage \in {"authed", "in_world"}
    /\ s_enc < MaxIn
    /\ s_enc' = s_enc + 1
    /\ ServerSend("other", s_enc)
    /\ UNCHANGED <<client, enc, dec, draining, to_server>>
    /\ UNCHANGED <<stage, verdict, s_dec, garbled>>

-----------------------------------------------------------------------------
\* handshake: the proof goes out with a plain header ...
AnswerChallenge ==
    /\ pc = "challenge"
    /\ ReadServer("AUTH_CHALLENGE")
    /\ SendClient("AUTH_SESSION")
    /\ pc' = "sent_auth"
    /\ UNCHANGED <<encrypted, drained, draining>>

\* ... and the streams are created once drain() has returned.
StartCipher ==
    /\ pc = "sent_auth"
    /\ pc' = "auth_response"
    /\ encrypted' = TRUE
    /\ UNCHANGED drained
    /\ UNCHANGED <<enc, dec, draining, to_server, to_client>>
    /\ UNCHANGED <<server, garbled>>

\* request_characters follows the verdict without an await of its own.
Accepted ==
    /\ pc = "auth_response"
    /\ ReadServer("AUTH_OK")
    /\ SendClient("CHAR_ENUM")
    /\ pc' = "char_enum"
    /\ UNCHANGED <<encrypted, drained, draining>>

\* Mutant: every refusal is fatal.
Refused_Always ==
    /\ pc = "auth_response"
    /\ \/ \E code \in {"AUTH_UNKNOWN_ACCOUNT", "AUTH_OTHER"} :
              Fail(code, "rejected")
       \/ Fail("other", "failed")

\* _read_auth_response: only an unknown account is fatal.
Refused ==
    /\ pc = "auth_response"
    /\ \/ Fail("AUTH_UNKNOWN_ACCOUNT", "rejected")
       \/ Fail("AUTH_OTHER", "failed")
       \/ Fail("other", "failed")

\* The list was parsed, as far as its first character, and it or the
\* configuration names the character to enter with; enter_world follows.
Listed ==
    /\ pc = "char_enum"
    /\ ReadServer("CHAR_ENUM")
    /\ SendClient("PLAYER_LOGIN")
    /\ pc' = "verify_world"
    /\ UNCHANGED <<encrypted, drained, draining>>

\* The list does not parse, or it is empty and no character is configured; or
\* another packet came first.
NotListed ==
    /\ pc = "char_enum"
    /\ \E op \in {"CHAR_ENUM", "other"} : Fail(op, "failed")

\* Mutants: the wait has no end; any packet counts as the way in.
DrainOther_NoEnd ==
    /\ pc = "verify_world"
    /\ ReadServer("other")
    /\ drained' = drained + 1
    /\ UNCHANGED <<pc, encrypted, enc, draining, to_server>>

DrainOther_Enters ==
    /\ pc = "verify_world"
    /\ ReadServer("other")
    /\ pc' = "running"
    /\ UNCHANGED <<drained, encrypted, enc, draining, to_server>>

\* enter_world: read and ignore, up to MaxDrained packets.
DrainOther ==
    /\ pc = "verify_world"
    /\ ReadServer("other")
    /\ drained' = drained + 1
    /\ pc' = IF drained' = MaxDrained THEN "failed" ELSE pc
    /\ UNCHANGED <<encrypted, enc, draining, to_server>>

EnterWorld ==
    /\ pc = "verify_world"
    /\ ReadServer("VERIFY_WORLD")
    /\ pc' = "running"
    /\ UNCHANGED <<encrypted, drained, enc, draining, to_server>>

LoginFailed ==
    /\ pc = "verify_world"
    /\ Fail("LOGIN_FAILED", "failed")

\* WorldClient.run reads on while the tasks send.
ReadOn ==
    /\ pc = "running"
    /\ ReadServer("other")
    /\ UNCHANGED <<client, enc, draining, to_server>>

\* Mutant: an await between ciphering and writing lets another task's packet
\* overtake.
TaskSends_Overtaken(t) ==
    /\ pc = "running" /\ t \notin draining
    /\ enc < MaxOut
    /\ enc' = enc + 1
    /\ to_server' = <<[op |-> "other", at |-> enc]>> \o to_server
    /\ draining' = draining \union {t}
    /\ UNCHANGED <<client, dec, to_client, server, garbled>>

TaskSends(t) ==
    /\ pc = "running" /\ t \notin draining
    /\ SendClient("other")
    /\ draining' = draining \union {t}
    /\ UNCHANGED <<client, dec, to_client, server, garbled>>

TaskDrained(t) ==
    /\ t \in draining
    /\ draining' = draining \ {t}
    /\ UNCHANGED <<client, enc, dec, to_server, to_client>>
    /\ UNCHANGED <<server, garbled>>

ServerSteps ==
    \/ ServerChallenges \/ ServerJudges \/ ServerLists \/ ServerAdmits
    \/ ServerServes \/ ServerTalks

ClientSteps ==
    \/ AnswerChallenge \/ StartCipher \/ Accepted \/ Refused
    \/ Listed \/ NotListed \/ DrainOther \/ EnterWorld \/ LoginFailed \/ ReadOn

Next ==
    \/ ServerSteps \/ ClientSteps
    \/ \E t \in Tasks : TaskSends(t) \/ TaskDrained(t)

Spec == Init /\ [][Next]_vars
-----------------------------------------------------------------------------
\* Every header is read at the position it was ciphered at, in the clear only
\* where the other end expects it, whoever sent it and whatever the tasks do
\* meanwhile: "headers MUST be processed in the exact order they appear on
\* the wire" (crypto.py:88-93, world_client.py:139-159, 212-222).
AllReadable == ~garbled

\* A client that takes itself to be in the world, and lets the tasks send,
\* was admitted to it (world_client.py:287-302).
InWorldIsAdmitted == pc = "running" => stage = "in_world"

\* The slow retry of a rejection (FatalWorldError) is for an account the
\* server does not know, and for nothing else: other refusals pass by
\* themselves.  And that one is never lost: whatever the client was doing when
\* the verdict was sent, it ends there (world_client.py:40-46, 224-235).
SlowRetryOnlyIfRefused ==
    /\ pc = "rejected" => verdict = "AUTH_UNKNOWN_ACCOUNT"
    /\ verdict = "AUTH_UNKNOWN_ACCOUNT" =>
           pc \in {"sent_auth", "auth_response", "rejected"}
=============================================================================
