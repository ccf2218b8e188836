------------------------- MODULE WorldSessionProofs -------------------------
(***************************************************************************)
(* The safety properties of WorldSession for any number of tasks, packets  *)
(* and drained packets.  The argument: in either direction, the headers in *)
(* flight carry consecutive positions of the cipher stream, from the one   *)
(* the receiver has reached up to the one the sender has reached.          *)
(***************************************************************************)
EXTENDS WorldSession, SequenceTheorems, TLAPS

ToServer == [op : ClientOps, at : {Plain} \union 0..MaxOut]
ToClient == [op : ServerOps, at : {Plain} \union 0..MaxIn]

\* The headers in flight carry the positions from `from` on.
InFlight(packets, from) ==
    \A i \in 1..Len(packets) : packets[i].at = from + i - 1

\* To the client: first the challenge in the clear, then the stream.
Incoming ==
    IF pc = "challenge"
    THEN /\ s_enc = 0 /\ dec = 0
         /\ \/ stage = "fresh" /\ to_client = <<>>
            \/ /\ stage = "challenged"
               /\ to_client = <<[op |-> "AUTH_CHALLENGE", at |-> Plain]>>
    ELSE /\ stage # "fresh"
         /\ s_enc = dec + Len(to_client)
         /\ InFlight(to_client, dec)

\* To the server: first the proof in the clear, which it has to judge before
\* the client goes on, then the stream.
Outgoing ==
    IF stage \in {"fresh", "challenged"}
    THEN /\ enc = 0 /\ s_dec = 0 /\ s_enc = 0
         /\ to_server = IF pc = "challenge" THEN <<>>
                        ELSE <<[op |-> "AUTH_SESSION", at |-> Plain]>>
    ELSE /\ enc = s_dec + Len(to_server)
         /\ InFlight(to_server, s_dec)

Ciphering ==
    IF pc \in {"challenge", "sent_auth"} THEN encrypted = FALSE
                                         ELSE encrypted = TRUE

Patience == pc \notin {"running", "failed"} => drained < MaxDrained

\* The server's admission comes before the news of it.
Admission ==
    /\ pc = "running" => stage = "in_world"
    /\ \A i \in 1..Len(to_client) :
           to_client[i].op = "VERIFY_WORLD" => stage = "in_world"

Readable == garbled = FALSE

\* The news that the account is unknown is the only packet of its session after
\* the challenge, and the client has not gone past the place that reads it.
Unknown == "AUTH_UNKNOWN_ACCOUNT"

Heeded ==
    /\ stage \in {"fresh", "challenged"} =>
           pc \in {"challenge", "sent_auth", "auth_response"}
    /\ verdict # "none" => stage = "closed"
    /\ \A i \in 1..Len(to_client) :
           to_client[i].op = Unknown => verdict = Unknown
    /\ pc = "rejected" => verdict = Unknown
    /\ verdict = Unknown =>
           \/ pc = "rejected"
           \/ /\ pc \in {"sent_auth", "auth_response"}
              /\ Len(to_client) = 1 /\ to_client[1].op = Unknown

IInv ==
    /\ TypeOK
    /\ Incoming /\ Outgoing /\ Ciphering /\ Patience /\ Admission /\ Readable
    /\ Heeded
-----------------------------------------------------------------------------
LEMMA AppendInFlight ==
    ASSUME NEW S, NEW packets \in Seq(S), NEW from \in Nat,
           NEW packet \in S, packet.at = from + Len(packets),
           InFlight(packets, from)
    PROVE  /\ InFlight(Append(packets, packet), from)
           /\ Len(Append(packets, packet)) = Len(packets) + 1
           /\ Append(packets, packet) \in Seq(S)
<1>1. /\ Len(packets) \in Nat
      /\ Len(Append(packets, packet)) = Len(packets) + 1
      /\ Append(packets, packet) \in Seq(S)
      /\ \A i \in 1..Len(packets) : Append(packets, packet)[i] = packets[i]
      /\ Append(packets, packet)[Len(packets) + 1] = packet
  BY LenProperties, AppendProperties
<1>2. ASSUME NEW i \in 1..Len(packets) + 1
      PROVE  Append(packets, packet)[i].at = from + i - 1
  <2>1. CASE i = Len(packets) + 1
    BY <1>1, <2>1
  <2>2. CASE i \in 1..Len(packets)
    BY <1>1, <2>2 DEF InFlight
  <2> QED
    BY <1>1, <2>1, <2>2
<1> QED
  BY <1>1, <1>2 DEF InFlight

LEMMA TailInFlight ==
    ASSUME NEW S, NEW packets \in Seq(S), NEW from \in Nat,
           packets # <<>>, InFlight(packets, from)
    PROVE  /\ Head(packets).at = from
           /\ InFlight(Tail(packets), from + 1)
           /\ Len(packets) = Len(Tail(packets)) + 1
           /\ Tail(packets) \in Seq(S)
BY DEF InFlight

\* A ciphered packet is read by the client in step, and only after the server
\* has judged the proof.
LEMMA ClientReads ==
    ASSUME IInv, pc \notin {"challenge", "sent_auth"}, pc' # "challenge",
           NEW op, ReadServer(op)
    PROVE  /\ stage \notin {"fresh", "challenged"}
           /\ to_client' \in Seq(ToClient) /\ dec' \in 0..MaxIn
           /\ Incoming' /\ Readable'
           /\ op = "VERIFY_WORLD" => stage = "in_world"
           /\ \A i \in 1..Len(to_client') :
                  to_client'[i].op = "VERIFY_WORLD" => stage' = "in_world"
           /\ UNCHANGED server
<1>a. to_client \in Seq(ToClient) /\ dec \in Nat /\ s_enc \in 0..MaxIn
  BY DEF IInv, TypeOK, ToClient
<1>b. /\ s_enc = dec + Len(to_client) /\ InFlight(to_client, dec)
      /\ stage # "fresh" /\ encrypted = TRUE /\ garbled = FALSE
  BY DEF IInv, Incoming, Ciphering, Readable
<1>1. /\ to_client \in Seq(ToClient) /\ to_client # <<>>
      /\ dec \in Nat /\ s_enc \in 0..MaxIn /\ encrypted = TRUE /\ garbled = FALSE
      /\ s_enc = dec + Len(to_client) /\ InFlight(to_client, dec)
      /\ stage # "fresh"
  BY <1>a, <1>b DEF ReadServer, At, Crypt
<1>2. /\ Head(to_client).at = dec
      /\ InFlight(Tail(to_client), dec + 1)
      /\ Len(to_client) = Len(Tail(to_client)) + 1
      /\ Tail(to_client) \in Seq(ToClient)
  BY <1>1, TailInFlight
<1>3. /\ to_client' = Tail(to_client) /\ dec' = dec + 1 /\ garbled' = FALSE
      /\ s_enc' = s_enc /\ stage' = stage /\ UNCHANGED server
  BY <1>1, <1>2 DEF ReadServer, server, At, Crypt
<1>4. Incoming' /\ Readable' /\ dec' \in 0..MaxIn
  BY <1>1, <1>2, <1>3, SessionAssumption DEF Incoming, Readable
<1>5. stage # "challenged"
  BY <1>1, <1>2 DEF IInv, Outgoing
<1>6. \A i \in 1..Len(to_client) :
          to_client[i].op = "VERIFY_WORLD" => stage = "in_world"
  BY DEF IInv, Admission
<1>7. op = "VERIFY_WORLD" => stage = "in_world"
  BY <1>1, <1>2, <1>6 DEF ReadServer, At, Crypt
<1>8. \A i \in 1..Len(to_client') :
          to_client'[i].op = "VERIFY_WORLD" => stage' = "in_world"
  BY <1>1, <1>2, <1>3, <1>6
<1> QED
  BY <1>1, <1>2, <1>3, <1>4, <1>5, <1>7, <1>8

\* A task's packet continues the stream to the server.
LEMMA ClientSends ==
    ASSUME IInv, stage \notin {"fresh", "challenged"}, pc # "challenge",
           pc # "sent_auth", NEW op \in ClientOps, SendClient(op),
           UNCHANGED <<stage, s_dec>>
    PROVE  /\ to_server' \in Seq(ToServer) /\ enc' \in 0..MaxOut
           /\ Outgoing'
<1>a. to_server \in Seq(ToServer) /\ enc \in Nat /\ s_dec \in Nat
  BY SessionAssumption DEF IInv, TypeOK, ToServer
<1>b. encrypted = TRUE /\ enc = s_dec + Len(to_server) /\ InFlight(to_server, s_dec)
  BY DEF IInv, Outgoing, Ciphering
<1>1. /\ to_server \in Seq(ToServer) /\ enc \in Nat /\ s_dec \in Nat
      /\ encrypted = TRUE /\ enc < MaxOut
      /\ enc = s_dec + Len(to_server) /\ InFlight(to_server, s_dec)
  BY <1>a, <1>b DEF SendClient, At, Crypt
<1> DEFINE packet == [op |-> op, at |-> enc]
<1>2. /\ to_server' = Append(to_server, packet) /\ enc' = enc + 1
      /\ packet \in ToServer /\ packet.at = enc
  BY <1>1, SessionAssumption DEF SendClient, ToServer, At, Crypt
<1>3. /\ InFlight(to_server', s_dec)
      /\ Len(to_server') = Len(to_server) + 1
      /\ to_server' \in Seq(ToServer)
  BY <1>1, <1>2, AppendInFlight
<1> QED
  BY <1>1, <1>2, <1>3, SessionAssumption DEF Outgoing

\* A packet of the server continues the stream to the client; only one that
\* follows the admission tells of it.
LEMMA ServerSends ==
    ASSUME IInv, pc # "challenge", UNCHANGED <<pc, dec>>,
           NEW op \in ServerOps, ServerSend(op, s_enc),
           s_enc < MaxIn, s_enc' = s_enc + 1, stage' # "fresh",
           op = "VERIFY_WORLD" \/ stage = "in_world" => stage' = "in_world"
    PROVE  /\ to_client' \in Seq(ToClient) /\ s_enc' \in 0..MaxIn
           /\ Incoming' /\ Admission'
<1>1. /\ to_client \in Seq(ToClient) /\ dec \in Nat /\ s_enc \in Nat
      /\ s_enc = dec + Len(to_client) /\ InFlight(to_client, dec)
  BY DEF IInv, TypeOK, Incoming, ToClient
<1> DEFINE packet == [op |-> op, at |-> s_enc]
<1>2. /\ to_client' = Append(to_client, packet)
      /\ packet \in ToClient /\ packet.at = s_enc /\ packet.op = op
  BY <1>1, SessionAssumption DEF ServerSend, ToClient
<1>3. /\ InFlight(to_client', dec)
      /\ Len(to_client') = Len(to_client) + 1
      /\ to_client' \in Seq(ToClient)
  BY <1>1, <1>2, AppendInFlight
<1>4. Admission'
  <2>1. pc' = "running" => stage' = "in_world"
    BY DEF IInv, Admission
  <2>2. ASSUME NEW i \in 1..Len(to_client'),
               to_client'[i].op = "VERIFY_WORLD"
        PROVE  stage' = "in_world"
    <3>1. CASE i = Len(to_client')
      BY <1>1, <1>2, <1>3, <2>2, <3>1
    <3>2. CASE i # Len(to_client')
      <4>1. i \in 1..Len(to_client) /\ to_client'[i] = to_client[i]
        BY <1>1, <1>2, <1>3, <3>2
      <4> QED
        BY <2>2, <4>1 DEF IInv, Admission
    <3> QED
      BY <3>1, <3>2
  <2> QED
    BY <2>1, <2>2 DEF Admission
<1> QED
  BY <1>1, <1>3, <1>4, SessionAssumption DEF Incoming

\* A ciphered packet is read by the server in step.
LEMMA ServerReads ==
    ASSUME IInv, stage \notin {"fresh", "challenged"},
           NEW op, op # "AUTH_SESSION", ServerRead(op), enc' = enc,
           stage' \notin {"fresh", "challenged"}
    PROVE  /\ to_server' \in Seq(ToServer) /\ s_dec' \in 0..MaxOut
           /\ Outgoing' /\ Readable'
<1>1. /\ to_server \in Seq(ToServer) /\ to_server # <<>>
      /\ enc \in 0..MaxOut /\ s_dec \in Nat /\ garbled = FALSE
      /\ enc = s_dec + Len(to_server) /\ InFlight(to_server, s_dec)
  BY DEF IInv, TypeOK, Outgoing, Readable, ServerRead, ToServer
<1>2. /\ Head(to_server).at = s_dec
      /\ InFlight(Tail(to_server), s_dec + 1)
      /\ Len(to_server) = Len(Tail(to_server)) + 1
      /\ Tail(to_server) \in Seq(ToServer)
  BY <1>1, TailInFlight
<1>3. to_server' = Tail(to_server) /\ s_dec' = s_dec + 1 /\ garbled' = FALSE
  BY <1>1, <1>2 DEF ServerRead
<1> QED
  BY <1>1, <1>2, <1>3, SessionAssumption DEF Outgoing, Readable

\* A packet that follows the server's acceptance brings no such news ...
LEMMA HeededAfterSend ==
    ASSUME IInv, stage \in {"authed", "in_world"}, pc' = pc,
           stage' \notin {"fresh", "challenged"},
           NEW op \in ServerOps \ {Unknown}, NEW at, ServerSend(op, at),
           \/ verdict' = verdict
           \/ verdict' = "LOGIN_FAILED" /\ stage' = "closed"
    PROVE  Heeded'
<1>1. /\ to_client \in Seq(ToClient) /\ verdict = "none"
      /\ pc # "rejected"
      /\ \A i \in 1..Len(to_client) : to_client[i].op # Unknown
  BY DEF IInv, TypeOK, ToClient, Heeded, Unknown
<1> DEFINE packet == [op |-> op, at |-> at]
<1>2. to_client' = Append(to_client, packet) /\ packet.op = op
  BY DEF ServerSend
<1>3. ASSUME NEW i \in 1..Len(to_client')
      PROVE  to_client'[i].op # Unknown
  <2>1. CASE i = Len(to_client) + 1
    BY <1>1, <1>2, <2>1
  <2>2. CASE i \in 1..Len(to_client)
    BY <1>1, <1>2, <2>2
  <2> QED
    BY <1>1, <1>2, <2>1, <2>2
<1>4. verdict' # Unknown
  BY <1>1 DEF Unknown
<1> QED
  BY <1>1, <1>3, <1>4 DEF Heeded

\* ... and whoever reads it goes on to the slow retry.
LEMMA HeededAfterRead ==
    ASSUME IInv, stage \notin {"fresh", "challenged"},
           pc \notin {"challenge", "sent_auth", "rejected"},
           NEW op, ReadServer(op), pc' = "rejected" <=> op = Unknown
    PROVE  Heeded'
<1>1. /\ to_client \in Seq(ToClient) /\ to_client # <<>>
      /\ Head(to_client) = to_client[1] /\ to_client[1].op = op
      /\ to_client' = Tail(to_client)
      /\ UNCHANGED <<stage, verdict>>
  BY DEF IInv, TypeOK, ToClient, ReadServer, server
<1>2. ASSUME NEW i \in 1..Len(to_client'), to_client'[i].op = Unknown
      PROVE  verdict' = Unknown
  <2>1. i + 1 \in 1..Len(to_client) /\ to_client'[i] = to_client[i + 1]
    BY <1>1
  <2> QED
    BY <1>1, <1>2, <2>1 DEF IInv, Heeded
<1>3. 1 \in 1..Len(to_client)
  BY <1>1
<1>4. op = Unknown => verdict = Unknown
  BY <1>1, <1>3 DEF IInv, Heeded
<1>5. verdict = Unknown => op = Unknown
  BY <1>1 DEF IInv, Heeded
<1>6. verdict # "none" => stage = "closed"
  BY DEF IInv, Heeded
<1> QED
  BY <1>1, <1>2, <1>4, <1>5, <1>6 DEF Heeded

-----------------------------------------------------------------------------
LEMMA InitIInv == Init => IInv
<1> SUFFICES ASSUME Init
             PROVE  IInv
  OBVIOUS
<1>1. to_client \in Seq(ToClient) /\ to_server \in Seq(ToServer)
  BY EmptySeq DEF Init
<1>2. TypeOK
  <2>1. /\ enc \in 0..MaxOut /\ s_dec \in 0..MaxOut
        /\ dec \in 0..MaxIn /\ s_enc \in 0..MaxIn /\ drained \in 0..MaxDrained
    BY SessionAssumption DEF Init
  <2>2. encrypted \in BOOLEAN /\ garbled \in BOOLEAN
    BY DEF Init
  <2>3. /\ pc = "challenge" /\ draining = {} /\ stage = "fresh" /\ verdict = "none"
    BY DEF Init
  <2> QED
    BY <1>1, <2>1, <2>2, <2>3 DEF TypeOK, Awaits, ToClient, ToServer
<1>3. Incoming /\ Outgoing /\ Ciphering /\ Patience /\ Readable
  BY SessionAssumption DEF Init, Incoming, Outgoing, Ciphering, Patience, Readable
<1>4. Admission /\ Heeded
  BY DEF Init, Admission, Heeded, Unknown
<1> QED
  BY <1>2, <1>3, <1>4 DEF IInv

\* A read of the connecting task or the reader that sends nothing.
LEMMA ReadOnly ==
    ASSUME IInv, pc \notin {"challenge", "sent_auth", "rejected"},
           pc' \in Awaits \ {"challenge", "sent_auth"},
           NEW op, ReadServer(op), pc' = "running" => stage = "in_world",
           pc' = "rejected" <=> op = Unknown,
           UNCHANGED <<encrypted, enc, draining, to_server>>,
           drained' \in 0..MaxDrained, Patience'
    PROVE  IInv'
<1>1. /\ stage \notin {"fresh", "challenged"}
      /\ to_client' \in Seq(ToClient) /\ dec' \in 0..MaxIn
      /\ Incoming' /\ Readable'
      /\ \A i \in 1..Len(to_client') :
              to_client'[i].op = "VERIFY_WORLD" => stage' = "in_world"
      /\ UNCHANGED server
  BY ClientReads
<1>2. TypeOK'
  BY <1>1 DEF IInv, TypeOK, server, ToClient, Readable
<1>3. Outgoing'
  BY <1>1 DEF IInv, Outgoing, server
<1>4. Ciphering'
  BY DEF IInv, Ciphering
<1>5. Admission'
  BY <1>1 DEF Admission, server
<1>6. Heeded'
  BY <1>1, HeededAfterRead
<1> QED
  BY <1>1, <1>2, <1>3, <1>4, <1>5, <1>6 DEF IInv

\* A read answered at once with a packet, before the world is entered.
LEMMA ReadAndSend ==
    ASSUME IInv, pc \in {"auth_response", "char_enum"},
           pc' \in {"char_enum", "verify_world"},
           NEW op, op # Unknown, ReadServer(op),
           NEW out \in ClientOps, SendClient(out),
           UNCHANGED <<encrypted, drained, draining>>
    PROVE  IInv'
<1>1. /\ stage \notin {"fresh", "challenged"}
      /\ to_client' \in Seq(ToClient) /\ dec' \in 0..MaxIn
      /\ Incoming' /\ Readable'
      /\ \A i \in 1..Len(to_client') :
              to_client'[i].op = "VERIFY_WORLD" => stage' = "in_world"
      /\ UNCHANGED server
  BY ClientReads
<1>2. to_server' \in Seq(ToServer) /\ enc' \in 0..MaxOut /\ Outgoing'
  BY <1>1, ClientSends DEF server
<1>3. TypeOK'
  BY <1>1, <1>2 DEF IInv, TypeOK, server, ToClient, ToServer, Readable, Awaits
<1>4. Ciphering' /\ Patience' /\ Admission'
  BY <1>1 DEF IInv, Ciphering, Patience, Admission
<1>5. Heeded'
  BY <1>1, HeededAfterRead
<1> QED
  BY <1>1, <1>2, <1>3, <1>4, <1>5 DEF IInv

LEMMA IInvPreserved == IInv /\ [Next]_vars => IInv'
<1> SUFFICES ASSUME IInv, [Next]_vars
             PROVE  IInv'
  OBVIOUS
<1> USE SessionAssumption
<1>1. CASE ServerChallenges
  <2>1. pc = "challenge" /\ to_client = <<>>
    BY <1>1 DEF ServerChallenges, IInv, Incoming
  <2>2. to_client' = <<[op |-> "AUTH_CHALLENGE", at |-> Plain]>>
    BY <1>1, <2>1 DEF ServerChallenges, ServerSend
  <2>3. TypeOK'
    <3>1. [op |-> "AUTH_CHALLENGE", at |-> Plain] \in ToClient
      BY DEF ToClient, ServerOps
    <3>2. to_client' \in Seq(ToClient)
      BY <2>2, <3>1
    <3> QED
      BY <1>1, <3>2 DEF ServerChallenges, client, IInv, TypeOK, ToClient
  <2>4. Incoming' /\ Outgoing'
    BY <1>1, <2>1, <2>2 DEF ServerChallenges, client, IInv, Incoming, Outgoing
  <2>5. Ciphering' /\ Patience' /\ Readable'
    BY <1>1 DEF ServerChallenges, client, IInv, Ciphering, Patience, Readable
  <2>6. Admission'
    BY <1>1, <2>1, <2>2 DEF ServerChallenges, client, Admission
  <2>7. Heeded'
    BY <1>1, <2>1, <2>2 DEF ServerChallenges, client, IInv, Heeded, Unknown
  <2> QED
    BY <2>3, <2>4, <2>5, <2>6, <2>7 DEF IInv
<1>2. CASE ServerJudges
  <2>1. /\ pc # "challenge" /\ to_client = <<>>
        /\ enc = 0 /\ s_dec = 0 /\ s_enc = 0 /\ dec = 0
        /\ to_server = <<[op |-> "AUTH_SESSION", at |-> Plain]>>
    <3>1. /\ to_server # <<>> /\ stage = "challenged"
      BY <1>2 DEF ServerJudges, ServerRead
    <3>2. /\ pc # "challenge" /\ enc = 0 /\ s_dec = 0 /\ s_enc = 0
          /\ to_server = <<[op |-> "AUTH_SESSION", at |-> Plain]>>
      BY <3>1 DEF IInv, Outgoing
    <3>3. s_enc = dec + Len(to_client)
      BY <3>2 DEF IInv, Incoming
    <3>4. to_client \in Seq(ToClient) /\ dec \in Nat
      BY DEF IInv, TypeOK, ToClient
    <3>5. Len(to_client) = 0 /\ dec = 0
      BY <3>2, <3>3, <3>4, LenProperties
    <3> QED
      BY <3>2, <3>4, <3>5, EmptySeq
  <2>2. /\ to_server' = <<>> /\ s_dec' = 0 /\ garbled' = FALSE /\ enc' = 0
    <3>1. /\ Tail(to_server) = <<>> /\ Head(to_server).at = Plain
          /\ garbled = FALSE
      BY <2>1 DEF IInv, Readable
    <3> QED
      BY <1>2, <2>1, <3>1 DEF ServerJudges, ServerRead
  <2>3. PICK op \in {"AUTH_OK", "AUTH_UNKNOWN_ACCOUNT", "AUTH_OTHER"} :
            /\ ServerSend(op, s_enc)
            /\ stage' = IF op = "AUTH_OK" THEN "authed" ELSE "closed"
            /\ verdict' = IF op = "AUTH_OK" THEN verdict ELSE op
    BY <1>2 DEF ServerJudges
  <2>4. /\ UNCHANGED <<client, enc, dec, draining>>
        /\ s_enc < MaxIn /\ s_enc' = s_enc + 1
    BY <1>2 DEF ServerJudges
  <2>5. stage # "in_world"
    BY <1>2 DEF ServerJudges
  <2>6. /\ to_client' \in Seq(ToClient) /\ s_enc' \in 0..MaxIn
        /\ Incoming' /\ Admission'
    BY <2>1, <2>3, <2>4, <2>5, ServerSends DEF client, ServerOps
  <2>7. TypeOK'
    <3>1. to_server' \in Seq(ToServer)
      BY <2>2, EmptySeq
    <3>2. dec' \in 0..MaxIn /\ enc' \in 0..MaxOut /\ s_dec' \in 0..MaxOut
      BY <2>1, <2>2, <2>4
    <3> QED
      BY <2>2, <2>3, <2>4, <2>6, <3>1, <3>2
         DEF client, IInv, TypeOK, ToClient, ToServer
  <2>8. Outgoing'
    BY <2>2, <2>3 DEF Outgoing, InFlight
  <2>9. Ciphering' /\ Patience'
    BY <2>4 DEF client, IInv, Ciphering, Patience
  <2>10. Heeded'
    <3>1. /\ stage = "challenged" /\ verdict = "none"
          /\ pc' \in {"sent_auth", "auth_response"}
      BY <1>2, <2>1, <2>4 DEF ServerJudges, client, IInv, Heeded
    <3>2. to_client' = <<[op |-> op, at |-> s_enc]>>
      BY <2>1, <2>3 DEF ServerSend
    <3>3. Len(to_client') = 1 /\ to_client'[1].op = op
      BY <3>2
    <3> QED
      BY <2>3, <3>1, <3>3 DEF Heeded, Unknown
  <2> QED
    BY <2>2, <2>6, <2>7, <2>8, <2>9, <2>10 DEF IInv, Readable
<1>3. ASSUME NEW op \in ClientOps \ {"AUTH_SESSION"},
             NEW out \in ServerOps \ {Unknown},
             NEW to \in {"authed", "in_world", "closed"},
             stage = "authed", ServerRead(op), s_enc < MaxIn,
             s_enc' = s_enc + 1, ServerSend(out, s_enc), stage' = to,
             out = "VERIFY_WORLD" => to = "in_world",
             \/ verdict' = verdict
             \/ verdict' = "LOGIN_FAILED" /\ to = "closed",
             UNCHANGED <<client, enc, dec, draining>>
      PROVE  IInv'
  <2>1. pc # "challenge"
    BY <1>3 DEF IInv, Incoming
  <2>2. /\ to_client' \in Seq(ToClient) /\ s_enc' \in 0..MaxIn
        /\ Incoming' /\ Admission'
    BY <1>3, <2>1, ServerSends DEF client
  <2>3. /\ to_server' \in Seq(ToServer) /\ s_dec' \in 0..MaxOut
        /\ Outgoing' /\ Readable'
    BY <1>3, ServerReads
  <2>4. TypeOK'
    BY <1>3, <2>2, <2>3 DEF client, IInv, TypeOK, ToClient, ToServer, Readable
  <2>5. Ciphering' /\ Patience'
    BY <1>3 DEF client, IInv, Ciphering, Patience
  <2>6. Heeded'
    BY <1>3, HeededAfterSend DEF client
  <2> QED
    BY <2>2, <2>3, <2>4, <2>5, <2>6 DEF IInv
<1>4. CASE ServerLists
  BY <1>3, <1>4 DEF ServerLists, ClientOps, ServerOps, Unknown
<1>5. CASE ServerAdmits
  BY <1>3, <1>5 DEF ServerAdmits, ClientOps, ServerOps, Unknown
<1>6. CASE ServerServes
  <2>1. /\ stage = "in_world" /\ stage' = "in_world"
        /\ UNCHANGED <<client, enc, dec, draining, to_client, verdict, s_enc>>
        /\ ServerRead("other")
    BY <1>6 DEF ServerServes
  <2>2. /\ to_server' \in Seq(ToServer) /\ s_dec' \in 0..MaxOut
        /\ Outgoing' /\ Readable'
    BY <2>1, ServerReads
  <2>3. TypeOK'
    BY <2>1, <2>2 DEF client, IInv, TypeOK, ToServer, Readable
  <2>4. Incoming' /\ Admission' /\ Heeded'
    BY <2>1 DEF client, IInv, Incoming, Admission, Heeded
  <2>5. Ciphering' /\ Patience'
    BY <2>1 DEF client, IInv, Ciphering, Patience
  <2> QED
    BY <2>2, <2>3, <2>4, <2>5 DEF IInv
<1>7. CASE ServerTalks
  <2>1. /\ stage \in {"authed", "in_world"} /\ stage' = stage
        /\ s_enc < MaxIn /\ s_enc' = s_enc + 1 /\ ServerSend("other", s_enc)
        /\ UNCHANGED <<client, enc, dec, draining, to_server, verdict,
                       s_dec, garbled>>
    BY <1>7 DEF ServerTalks
  <2>2. pc # "challenge"
    BY <2>1 DEF IInv, Incoming
  <2>3. /\ to_client' \in Seq(ToClient) /\ s_enc' \in 0..MaxIn
        /\ Incoming' /\ Admission'
    BY <2>1, <2>2, ServerSends DEF client, ServerOps
  <2>4. TypeOK'
    BY <2>1, <2>3 DEF client, IInv, TypeOK, ToClient
  <2>5. Outgoing'
    BY <2>1 DEF client, IInv, Outgoing
  <2>6. Ciphering' /\ Patience' /\ Readable'
    BY <2>1 DEF client, IInv, Ciphering, Patience, Readable
  <2>7. Heeded'
    BY <2>1, HeededAfterSend DEF client, ServerOps, Unknown
  <2> QED
    BY <2>3, <2>4, <2>5, <2>6, <2>7 DEF IInv
<1>8. CASE AnswerChallenge
  <2> DEFINE proof == [op |-> "AUTH_SESSION", at |-> Plain]
  <2>1. /\ pc = "challenge" /\ to_client # <<>> /\ encrypted = FALSE
        /\ garbled = FALSE
    BY <1>8 DEF AnswerChallenge, ReadServer, IInv, Ciphering, Readable
  <2>2. /\ stage = "challenged" /\ s_enc = 0 /\ dec = 0
        /\ to_client = <<[op |-> "AUTH_CHALLENGE", at |-> Plain]>>
    BY <2>1 DEF IInv, Incoming
  <2>3. enc = 0 /\ s_dec = 0 /\ to_server = <<>>
    BY <2>1, <2>2 DEF IInv, Outgoing
  <2>4. Tail(to_client) = <<>> /\ Head(to_client).at = Plain
    BY <2>2
  <2>5. to_client' = <<>> /\ dec' = 0 /\ garbled' = FALSE /\ UNCHANGED server
    BY <1>8, <2>1, <2>2, <2>4 DEF AnswerChallenge, ReadServer, At, Crypt
  <2>6. to_server' = <<proof>> /\ enc' = 0
    BY <1>8, <2>1, <2>3 DEF AnswerChallenge, SendClient, At, Crypt
  <2>7. /\ pc' = "sent_auth"
        /\ UNCHANGED <<encrypted, drained, draining>>
    BY <1>8 DEF AnswerChallenge
  <2>8. TypeOK'
    <3>1. proof \in ToServer
      BY DEF ToServer, ClientOps
    <3>2. to_client' \in Seq(ToClient) /\ to_server' \in Seq(ToServer)
      BY <2>5, <2>6, <3>1, EmptySeq
    <3>3. dec' \in 0..MaxIn
      BY <2>5
    <3>4. enc' \in 0..MaxOut
      BY <2>6
    <3>5. garbled' \in BOOLEAN
      BY <2>5
    <3>6. UNCHANGED <<stage, verdict, s_enc, s_dec>>
      BY <2>5 DEF server
    <3> QED
      BY <2>7, <3>2, <3>3, <3>4, <3>5, <3>6
         DEF IInv, TypeOK, Awaits, ToClient, ToServer
  <2>9. Incoming' /\ Outgoing'
    BY <2>2, <2>3, <2>5, <2>6, <2>7 DEF server, Incoming, Outgoing, InFlight
  <2>10. Ciphering' /\ Patience' /\ Admission'
    BY <2>1, <2>5, <2>7
       DEF IInv, Ciphering, Patience, Admission
  <2>11. Heeded'
    BY <2>2, <2>5, <2>7 DEF server, IInv, Heeded, Unknown
  <2> QED
    BY <2>5, <2>8, <2>9, <2>10, <2>11 DEF IInv, Readable
<1>9. CASE StartCipher
  <2>1. /\ pc = "sent_auth" /\ pc' = "auth_response" /\ encrypted' = TRUE
        /\ UNCHANGED <<drained, enc, dec, draining, to_server, to_client,
                       server, garbled>>
    BY <1>9 DEF StartCipher
  <2>2. TypeOK'
    BY <2>1 DEF server, IInv, TypeOK, Awaits
  <2>3. Incoming' /\ Outgoing'
    BY <2>1 DEF server, IInv, Incoming, Outgoing
  <2>4. Ciphering' /\ Patience' /\ Admission' /\ Readable'
    BY <2>1 DEF server, IInv, Ciphering, Patience, Admission, Readable
  <2>5. Heeded'
    BY <2>1 DEF server, IInv, Heeded
  <2> QED
    BY <2>2, <2>3, <2>4, <2>5 DEF IInv
<1>10. CASE Accepted
  BY <1>10, ReadAndSend DEF Accepted, ClientOps, Unknown
<1>11. CASE Listed
  BY <1>11, ReadAndSend DEF Listed, ClientOps, Unknown
<1>12. ASSUME NEW op, NEW outcome \in {"rejected", "failed"},
              pc \in {"auth_response", "char_enum", "verify_world"},
              outcome = "rejected" <=> op = Unknown, Fail(op, outcome)
       PROVE  IInv'
  <2>1. /\ ReadServer(op) /\ pc' = outcome
        /\ UNCHANGED <<encrypted, drained, enc, draining, to_server>>
    BY <1>12 DEF Fail
  <2>2. Patience'
    BY <1>12, <2>1 DEF IInv, Patience
  <2>3. /\ drained' \in 0..MaxDrained
        /\ pc' \in Awaits \ {"challenge", "sent_auth"}
    BY <2>1 DEF IInv, TypeOK, Awaits
  <2> QED
    BY <1>12, <2>1, <2>2, <2>3, ReadOnly
<1>13. CASE Refused
  BY <1>12, <1>13 DEF Refused, Unknown
<1>14. CASE NotListed
  BY <1>12, <1>14 DEF NotListed, Unknown
<1>15. CASE LoginFailed
  BY <1>12, <1>15 DEF LoginFailed, Unknown
<1>16. CASE DrainOther
  <2>1. /\ pc = "verify_world" /\ ReadServer("other") /\ drained' = drained + 1
        /\ pc' = IF drained' = MaxDrained THEN "failed" ELSE pc
        /\ UNCHANGED <<encrypted, enc, draining, to_server>>
    BY <1>16 DEF DrainOther
  <2>2. drained < MaxDrained /\ drained \in 0..MaxDrained
    BY <2>1 DEF IInv, TypeOK, Patience
  <2>3. drained' \in 0..MaxDrained /\ Patience'
    BY <2>1, <2>2 DEF Patience
  <2>4. pc' \in {"failed", "verify_world"}
    BY <2>1
  <2> QED
    BY <2>1, <2>3, <2>4, ReadOnly DEF Awaits, Unknown
<1>17. CASE EnterWorld
  <2>1. /\ pc = "verify_world" /\ ReadServer("VERIFY_WORLD") /\ pc' = "running"
        /\ UNCHANGED <<encrypted, drained, enc, draining, to_server>>
    BY <1>17 DEF EnterWorld
  <2>2. stage = "in_world"
    BY <2>1, ClientReads
  <2>3. drained' \in 0..MaxDrained /\ Patience'
    BY <2>1 DEF IInv, TypeOK, Patience
  <2> QED
    BY <2>1, <2>2, <2>3, ReadOnly DEF Awaits, Unknown
<1>18. CASE ReadOn
  <2>1. /\ pc = "running" /\ ReadServer("other")
        /\ UNCHANGED <<client, enc, draining, to_server>>
    BY <1>18 DEF ReadOn
  <2>2. stage = "in_world"
    BY <2>1 DEF IInv, Admission
  <2>3. /\ drained' \in 0..MaxDrained
        /\ Patience' /\ pc' = "running" /\ encrypted' = encrypted
    BY <2>1 DEF client, IInv, TypeOK, Patience
  <2> QED
    BY <2>1, <2>2, <2>3, ReadOnly DEF Awaits, Unknown
<1>19. ASSUME NEW t \in Tasks, TaskSends(t)
       PROVE  IInv'
  <2>1. /\ pc = "running" /\ SendClient("other")
        /\ draining' = draining \union {t}
        /\ UNCHANGED <<client, dec, to_client, server, garbled>>
    BY <1>19 DEF TaskSends
  <2>2. stage = "in_world"
    BY <2>1 DEF IInv, Admission
  <2>3. to_server' \in Seq(ToServer) /\ enc' \in 0..MaxOut /\ Outgoing'
    BY <2>1, <2>2, ClientSends DEF server, ClientOps
  <2>4. TypeOK'
    BY <2>1, <2>3 DEF client, server, IInv, TypeOK, ToServer
  <2>5. Incoming' /\ Admission' /\ Heeded'
    BY <2>1 DEF client, server, IInv, Incoming, Admission, Heeded
  <2>6. Ciphering' /\ Patience' /\ Readable'
    BY <2>1 DEF client, IInv, Ciphering, Patience, Readable
  <2> QED
    BY <2>3, <2>4, <2>5, <2>6 DEF IInv
<1>20. ASSUME UNCHANGED <<client, enc, dec, to_server, to_client, server,
                         garbled>>,
              draining' \subseteq Tasks
       PROVE  IInv'
  <2>1. TypeOK'
    BY <1>20 DEF client, server, IInv, TypeOK
  <2>2. Incoming' /\ Outgoing' /\ Admission' /\ Heeded'
    BY <1>20 DEF client, server, IInv, Incoming, Outgoing, Admission, Heeded
  <2>3. Ciphering' /\ Patience' /\ Readable'
    BY <1>20 DEF client, IInv, Ciphering, Patience, Readable
  <2> QED
    BY <2>1, <2>2, <2>3 DEF IInv
<1>21. ASSUME NEW t \in Tasks, TaskDrained(t)
       PROVE  IInv'
  <2>1. draining' \subseteq Tasks
    BY <1>21 DEF TaskDrained, IInv, TypeOK
  <2> QED
    BY <1>20, <1>21, <2>1 DEF TaskDrained
<1>22. CASE UNCHANGED vars
  <2>1. draining' \subseteq Tasks
    BY <1>22 DEF vars, IInv, TypeOK
  <2> QED
    BY <1>20, <1>22, <2>1 DEF vars
<1> QED
  BY <1>1, <1>2, <1>4, <1>5, <1>6, <1>7, <1>8, <1>9, <1>10, <1>11, <1>13,
     <1>14, <1>15, <1>16, <1>17, <1>18, <1>19, <1>21, <1>22
     DEF Next, ServerSteps, ClientSteps

-----------------------------------------------------------------------------
LEMMA InductiveInvariant == Spec => []IInv
<1>1. Init => IInv
  BY InitIInv
<1>2. IInv /\ [Next]_vars => IInv'
  BY IInvPreserved
<1> QED
  BY <1>1, <1>2, PTL DEF Spec

\* Every variable keeps its type: no position outruns its bound.
THEOREM TypeCorrect == Spec => []TypeOK
<1>1. IInv => TypeOK
  BY DEF IInv
<1> QED
  BY <1>1, InductiveInvariant, PTL

\* No header is ever read out of step, by either end, whatever the tasks do
\* (world_client.py:139-159, 212-222).
THEOREM HeadersInStep == Spec => []AllReadable
<1>1. IInv => AllReadable
  BY DEF IInv, Readable, AllReadable
<1> QED
  BY <1>1, InductiveInvariant, PTL

\* Whoever takes itself to be in the world was admitted to it
\* (world_client.py:287-302).
THEOREM EntersOnlyIfAdmitted == Spec => []InWorldIsAdmitted
<1>1. IInv => InWorldIsAdmitted
  BY DEF IInv, Admission, InWorldIsAdmitted
<1> QED
  BY <1>1, InductiveInvariant, PTL

\* The slow retry is for an unknown account, and for that alone; the verdict
\* is never lost (world_client.py:40-46, 224-235).
THEOREM RefusalIsHeeded == Spec => []SlowRetryOnlyIfRefused
<1>1. IInv => SlowRetryOnlyIfRefused
  BY DEF IInv, Heeded, Unknown, SlowRetryOnlyIfRefused
<1> QED
  BY <1>1, InductiveInvariant, PTL
=============================================================================
