------------------------------- MODULE Login --------------------------------
(***************************************************************************)
(* One login at the auth server: AuthClient.login of auth/auth_client.py   *)
(* and the SRP6 arithmetic of auth/srp6.py, over a small group.  Numbers   *)
(* are written as Width digits to the base Base, least significant first,  *)
(* where the code has 32 bytes; a hash is the tuple of what it hashes.     *)
(* The server is external.  The honest one is that of tests/test_srp6.py;  *)
(* others are busy, reject the account, or do not know its verifier.       *)
(***************************************************************************)
EXTENDS Integers, SequencesExt

CONSTANTS
    N, G,              \* the group: a prime and a generator
    Base, Width,       \* digits of a number below N
    Passwords,
    X,                 \* password -> the number its salted hash stands for
    Ephemerals,        \* private values, of the client and of the server
    Scramble(_, _)     \* SHA1(A | B), as a number

ASSUME GroupAssumption ==
    /\ N \in Nat \ {0, 1} /\ G \in 1..N - 1 /\ Base \in Nat \ {0, 1} /\ Width \in Nat
    /\ N <= Base ^ Width
    /\ X \in [Passwords -> Nat] /\ Ephemerals \subseteq Nat

ASSUME ScrambleAssumption == \A u, v \in 0..N - 1 : Scramble(u, v) \in Nat

VARIABLES
    stage,         \* "challenge": its answer is awaited; "proof"; "closed"
    configured,    \* the password of the configuration ...
    account,       \* ... and of the account
    server,        \* "honest", "busy", "rejecting" or "impostor"
    a, b,          \* private values; b is 0 unless the server has chosen it
    public,        \* server_B as the client got it, or 0
    secret, key,   \* S and K of the client, once it has computed them
    outcome        \* how login returned or what it raised

vars == <<stage, configured, account, server, a, b, public, secret, key, outcome>>
NotYet == -1

Init ==
    /\ stage = "challenge"
    /\ configured \in Passwords /\ account \in Passwords
    /\ server \in {"honest", "busy", "rejecting", "impostor"}
    /\ a \in Ephemerals /\ b = 0 /\ public = 0
    /\ secret = NotYet /\ key = <<>>
    /\ outcome = "none"

-----------------------------------------------------------------------------
Multiplier == 3

\* pow(base, e, N)
Pow(base, e) ==
    LET power[n \in Nat] == IF n = 0 THEN 1 ELSE (base * power[n - 1]) % N
    IN  power[e]

Digits(n) == [i \in 1..Width |-> (n \div Base ^ (i - 1)) % Base]

\* compute_verifier, compute_client_public, compute_server_public
Verifier(password) == Pow(G, X[password])
A == Pow(G, a)
ServerPublic(n) == (Multiplier * Verifier(account) + Pow(G, n)) % N

\* Mutant: the multiplier is left out of the client's base.
ClientSecret_NoMultiplier(B) ==
    Pow((B - Verifier(configured)) % N, a + Scramble(A, B) * X[configured])

\* client_compute_session: S = (B - k*g^x)^(a + u*x)
ClientSecret(B) ==
    Pow((B - Multiplier * Verifier(configured)) % N,
        a + Scramble(A, B) * X[configured])

\* The server's S = (A * v^u)^b, as tests/test_srp6.py computes it.
ServerSecret == Pow((A * Pow(Verifier(account), Scramble(A, public))) % N, b)

\* How many leading digits are zero; the last one is never counted.
Zeros(digits) ==
    CHOOSE k \in 0..Len(digits) - 1 :
        /\ \A i \in 1..k : digits[i] = 0
        /\ k < Len(digits) - 1 => digits[k + 1] # 0

EvenOdd(digits) ==
    << [i \in 1..Len(digits) \div 2 |-> digits[2 * i - 1]],
       [i \in 1..Len(digits) \div 2 |-> digits[2 * i]] >>

\* The bytes _interleave_session_key hashes: the zeros are stripped one by one
\* and an odd remainder loses its last byte.
Stripped(digits) ==
    LET rest == SubSeq(digits, Zeros(digits) + 1, Len(digits))
    IN  IF Len(rest) % 2 = 1 THEN Front(rest) ELSE rest

\* The two halves are hashed and the hashes interleaved.
SessionKey(digits) == EvenOdd(Stripped(digits))

\* The server's key: it writes S without the zeros at its upper end.
Shortest(digits) ==
    IF \A d \in Range(digits) : d = 0 THEN <<0>>
    ELSE SubSeq(digits, 1, CHOOSE k \in DOMAIN digits :
                              /\ digits[k] # 0
                              /\ \A i \in k + 1..Len(digits) : digits[i] = 0)

ServerKey == SessionKey(Shortest(Digits(ServerSecret)))

\* compute_client_proof and compute_server_proof
M1(k) == <<A, public, k>>
M2(m1, k) == <<A, m1, k>>

-----------------------------------------------------------------------------
Ends(how) == stage' = "closed" /\ outcome' = how

\* The challenge is answered: compute the session and send the proof.
SendProof(B) ==
    /\ stage = "challenge"
    /\ public' = B
    /\ secret' = ClientSecret(B)
    /\ key' = SessionKey(Digits(ClientSecret(B)))
    /\ stage' = "proof"
    /\ UNCHANGED <<configured, account, server, a, outcome>>

ChallengeAnswered ==
    /\ server \in {"honest", "busy"}
    /\ \E n \in Ephemerals : b' = n /\ SendProof(ServerPublic(n))

\* Whatever fits into the field is taken, 0 and numbers from N on included.
ImpostorAnswers ==
    /\ server = "impostor"
    /\ \E B \in 0..Base ^ Width - 1 : SendProof(B)
    /\ UNCHANGED b

\* Only an unknown account, a wrong password and a wrong version are final.
Refusal == IF server = "rejecting" THEN "fatal" ELSE "refused"

ChallengeRefused ==
    /\ stage = "challenge"
    /\ server \in {"busy", "rejecting"}
    /\ Ends(Refusal)
    /\ UNCHANGED <<configured, account, server, a, b, public, secret, key>>

\* Mutant: a refused proof is taken for a passing condition.
ProofRefused_Transient ==
    /\ stage = "proof"
    /\ server = "honest" => M1(key) # M1(ServerKey)
    /\ Ends("refused")
    /\ UNCHANGED <<configured, account, server, a, b, public, secret, key>>

\* Any code but success is taken for a rejection of the password.
ProofRefused ==
    /\ stage = "proof"
    /\ server = "honest" => M1(key) # M1(ServerKey)
    /\ Ends("fatal")
    /\ UNCHANGED <<configured, account, server, a, b, public, secret, key>>

\* Mutant: the server's proof is not compared.
CheckServerProof_Trusting(m2) == Ends("ok")

CheckServerProof(m2) ==
    Ends(IF m2 = M2(M1(key), key) THEN "ok" ELSE "mismatch")

ProofAccepted ==
    /\ stage = "proof"
    /\ \/ /\ server # "impostor"
          /\ M1(key) = M1(ServerKey)
          /\ CheckServerProof(M2(M1(key), ServerKey))
       \/ /\ server = "impostor"
          /\ CheckServerProof(<<>>)
    /\ UNCHANGED <<configured, account, server, a, b, public, secret, key>>

\* An unexpected opcode, or the connection ends.
LinkFails ==
    /\ stage # "closed"
    /\ Ends("error")
    /\ UNCHANGED <<configured, account, server, a, b, public, secret, key>>

Next ==
    \/ ChallengeAnswered \/ ImpostorAnswers \/ ChallengeRefused
    \/ ProofRefused \/ ProofAccepted \/ LinkFails

Spec == Init /\ [][Next]_vars

-----------------------------------------------------------------------------
\* With the right password an honest server's login does not end in a
\* rejection, which would put the bridge on its slow retry, nor in a mismatch,
\* but for the secrets whose zero bytes the two sides strip differently
\* (auth_client.py:223-245, srp6.py:133-162).
RightPasswordAccepted ==
    /\ server = "honest" /\ configured = account /\ secret # NotYet
    /\ Stripped(Digits(secret)) = Stripped(Shortest(Digits(secret)))
    => outcome \in {"none", "ok", "error"}

\* An honest server that derives another key, as with a wrong password, leads
\* to the slow retry and nowhere else: never to an early retry, never to a
\* mismatch, which means an impostor (auth_client.py:209-215, 223-231).
WrongKeyRejected ==
    server = "honest" /\ secret # NotYet /\ key # ServerKey
        => outcome \in {"none", "fatal", "error"}

\* A login that returns leaves both sides with one session key: the ciphers of
\* the world session start alike (auth_client.py:239-245).
KeysAgree == outcome = "ok" => server # "impostor" /\ key = ServerKey

-----------------------------------------------------------------------------
\* srp6.py:94-98, "Strips leading zero-byte pairs, splits the remaining bytes
\* into even/odd interleaved halves": what is hashed is the rest of S.
OnlyLeadingBytesStripped ==
    secret # NotYet => IsSuffix(Stripped(Digits(secret)), Digits(secret))
=============================================================================
