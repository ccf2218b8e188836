---------------------------- MODULE LoginProofs ----------------------------
(***************************************************************************)
(* The properties of Login, for any modulus, width, hash and private       *)
(* values.  The argument: with g^x for the verifier, both sides compute    *)
(* g^(b * (a + u * x)) modulo N, one as a power of B - k * v and the other *)
(* of A * v^u.  The laws of powers and remainders that this needs are      *)
(* proved first; Pow is a recursive function, and that it exists is proved *)
(* from the well-foundedness of the natural numbers.                       *)
(***************************************************************************)
EXTENDS Login, WellFoundedInduction, TLAPS

\* Every nonempty set of natural numbers has a least element.
LEMMA LeastElement ==
    ASSUME NEW T \in SUBSET Nat, T # {}
    PROVE  \E x \in T : \A y \in T : x <= y
<1> DEFINE R == {ss \in Nat \X Nat : ss[1] < ss[2]}
<1>1. IsWellFoundedOn(R, Nat)
  BY NatLessThanWellFounded DEF OpToRel
<1>2. \A x, y \in Nat : x < y => <<x, y>> \in R
  OBVIOUS
<1>3. PICK x \in T : \A y \in T : ~(<<y, x>> \in R)
  <2> HIDE DEF R
  <2> QED BY <1>1, WFMin
<1>4. \A y \in T : ~(y < x)
  <2> HIDE DEF R
  <2> QED BY <1>2, <1>3, Zenon
<1> QED BY <1>4

\* Induction, for a set of numbers.
LEMMA SetInduction ==
    ASSUME NEW T, 0 \in T, \A n \in Nat : n \in T => n + 1 \in T
    PROVE  Nat \subseteq T
<1> DEFINE U == Nat \ T
<1> SUFFICES ASSUME U # {} PROVE FALSE
  OBVIOUS
<1>1. PICK x \in U : \A y \in U : x <= y
  BY LeastElement
<1>2. x # 0 /\ x - 1 \in Nat
  OBVIOUS
<1>3. x - 1 \in T
  BY <1>1, <1>2
<1>4. (x - 1) + 1 \in T
  BY <1>2, <1>3
<1> QED BY <1>4

-----------------------------------------------------------------------------
\* Division with remainder by N: the remainder is determined.
LEMMA Remainder ==
    ASSUME NEW x \in Int
    PROVE  /\ x % N \in 0..N - 1
           /\ x \div N \in Int
           /\ x = N * (x \div N) + (x % N)
BY GroupAssumption

LEMMA RemainderUnique ==
    ASSUME NEW q \in Int, NEW r \in 0..N - 1
    PROVE  (N * q + r) % N = r
<1> DEFINE x == N * q + r
           p == x \div N
           s == x % N
<1>1. N \in Nat /\ N > 0
  BY GroupAssumption
<1>2. x \in Int
  BY <1>1
<1>3. /\ s \in 0..N - 1
      /\ p \in Int
      /\ x = N * p + s
  BY <1>2, Remainder
<1>4. N * (q - p) = s - r
  <2> HIDE DEF p, s
  <2> QED BY <1>1, <1>3
<1>5. q = p
  <2> HIDE DEF p, s
  <2> DEFINE d == q - p
  <2>1. d \in Int /\ N * d = s - r
    BY <1>3, <1>4
  <2>2. s - r < N /\ s - r > -N
    BY <1>1, <1>3
  <2> HIDE DEF d
  <2>3. ~(d >= 1)
    <3> SUFFICES ASSUME d >= 1 PROVE FALSE
      OBVIOUS
    <3>1. N * d >= N
      BY <1>1, <2>1
    <3> QED BY <1>1, <1>3, <2>1, <2>2, <3>1
  <2>4. ~(d <= -1)
    <3> SUFFICES ASSUME d <= -1 PROVE FALSE
      OBVIOUS
    <3>1. N * d <= -N
      BY <1>1, <2>1
    <3> QED BY <1>1, <1>3, <2>1, <2>2, <3>1
  <2>5. d = 0
    BY <2>1, <2>3, <2>4
  <2> QED BY <1>3, <2>5 DEF d
<1>6. s = r
  <2> HIDE DEF p, s
  <2> QED BY <1>1, <1>3, <1>5
<1> QED BY <1>6

LEMMA AddMultiple ==
    ASSUME NEW x \in Int, NEW k \in Int
    PROVE  (x + N * k) % N = x % N
<1>1. N \in Nat /\ N > 0
  BY GroupAssumption
<1> DEFINE q == x \div N
           r == x % N
<1>2. /\ r \in 0..N - 1
      /\ q \in Int
      /\ x = N * q + r
  BY Remainder
<1>3. x + N * k = N * (q + k) + r
  <2> HIDE DEF q, r
  <2> QED BY <1>1, <1>2
<1>4. (N * (q + k) + r) % N = r
  <2> HIDE DEF q, r
  <2> QED BY <1>2, RemainderUnique
<1> QED BY <1>3, <1>4

\* A remainder below N is kept.
LEMMA SmallRemainder ==
    ASSUME NEW x \in 0..N - 1
    PROVE  x % N = x
<1>1. x = N * 0 + x
  BY GroupAssumption
<1> QED BY <1>1, RemainderUnique

\* A factor may be reduced before or after the product.
LEMMA ReduceFactor ==
    ASSUME NEW x \in Int, NEW y \in Int
    PROVE  ((x % N) * y) % N = (x * y) % N
<1>1. N \in Nat /\ N > 0
  BY GroupAssumption
<1> DEFINE q == x \div N
           r == x % N
<1>2. /\ r \in 0..N - 1
      /\ q \in Int
      /\ x = N * q + r
  BY Remainder
<1> HIDE DEF q, r
<1>3. x * y = r * y + N * (q * y)
  <2>1. x * y = (N * q + r) * y
    BY <1>2
  <2>2. (N * q + r) * y = r * y + N * (q * y)
    BY <1>1, <1>2
  <2> QED BY <2>1, <2>2
<1>4. r * y \in Int /\ q * y \in Int
  BY <1>2
<1>5. (r * y + N * (q * y)) % N = (r * y) % N
  BY <1>4, AddMultiple
<1> QED BY <1>3, <1>5 DEF r

\* The sum of a number and a reduced difference.
LEMMA ReduceTerm ==
    ASSUME NEW x \in Int, NEW y \in Int
    PROVE  ((x % N) + y) % N = (x + y) % N
<1>1. N \in Nat /\ N > 0
  BY GroupAssumption
<1> DEFINE q == x \div N
           r == x % N
<1>2. /\ r \in 0..N - 1
      /\ q \in Int
      /\ x = N * q + r
  BY Remainder
<1> HIDE DEF q, r
<1>3. x + y = (r + y) + N * q
  BY <1>1, <1>2
<1>4. ((r + y) + N * q) % N = (r + y) % N
  BY <1>2, AddMultiple
<1> QED BY <1>3, <1>4 DEF r

-----------------------------------------------------------------------------
\* What a table of the first k powers is.
IsTable(base, k, g) ==
    /\ g[0] = 1
    /\ \A n \in 1..k : g[n] = (base * g[n - 1]) % N

LEMMA TableExists ==
    ASSUME NEW base, NEW k \in Nat
    PROVE  \E g : IsTable(base, k, g)
<1> DEFINE T == {n \in Nat : \E g : IsTable(base, n, g)}
<1>1. 0 \in T
  <2>1. IsTable(base, 0, [i \in {0} |-> 1])
    BY DEF IsTable
  <2> QED BY <2>1
<1>2. ASSUME NEW n \in Nat, n \in T PROVE n + 1 \in T
  <2>1. PICK g : IsTable(base, n, g)
    BY <1>2
  <2> DEFINE h == [i \in 0..n + 1 |->
                     IF i = n + 1 THEN (base * g[n]) % N ELSE g[i]]
  <2>2. h[0] = 1
    BY <2>1 DEF IsTable
  <2>3. ASSUME NEW i \in 1..n + 1 PROVE h[i] = (base * h[i - 1]) % N
    <3>1. i - 1 \in 0..n /\ i \in 0..n + 1
      OBVIOUS
    <3>2. h[i - 1] = g[i - 1]
      BY <3>1
    <3>3. CASE i = n + 1
      BY <3>1, <3>2, <3>3
    <3>4. CASE i # n + 1
      <4>1. h[i] = g[i]
        BY <3>1, <3>4
      <4>2. i \in 1..n
        BY <3>4
      <4>3. g[i] = (base * g[i - 1]) % N
        BY <2>1, <4>2 DEF IsTable
      <4> QED BY <3>2, <4>1, <4>3
    <3> QED BY <3>3, <3>4
  <2>4. IsTable(base, n + 1, h)
    <3> HIDE DEF h
    <3> QED BY <2>2, <2>3 DEF IsTable
  <2> QED BY <2>4
<1>3. Nat \subseteq T
  <2> HIDE DEF T
  <2> QED BY <1>1, <1>2, SetInduction
<1> QED BY <1>3

LEMMA TableUnique ==
    ASSUME NEW base, NEW k \in Nat, NEW g, NEW h,
           IsTable(base, k, g), IsTable(base, k, h)
    PROVE  g[k] = h[k]
<1> DEFINE T == {n \in Nat : n <= k => g[n] = h[n]}
<1>1. 0 \in T
  BY DEF IsTable
<1>2. ASSUME NEW n \in Nat, n \in T PROVE n + 1 \in T
  <2> SUFFICES ASSUME n + 1 <= k PROVE g[n + 1] = h[n + 1]
    OBVIOUS
  <2>1. g[n] = h[n]
    BY <1>2
  <2>2. n + 1 \in 1..k /\ (n + 1) - 1 = n
    OBVIOUS
  <2>3. g[n + 1] = (base * g[n]) % N
    BY <2>2 DEF IsTable
  <2>4. h[n + 1] = (base * h[n]) % N
    BY <2>2 DEF IsTable
  <2> QED BY <2>1, <2>3, <2>4
<1>3. Nat \subseteq T
  <2> HIDE DEF T
  <2> QED BY <1>1, <1>2, SetInduction
<1> QED BY <1>3

\* The recursive definition of Pow has a solution, so Pow satisfies it.
LEMMA PowDefined ==
    ASSUME NEW base
    PROVE  /\ Pow(base, 0) = 1
           /\ \A n \in Nat : Pow(base, n + 1) = (base * Pow(base, n)) % N
<1> DEFINE table(k) == CHOOSE g : IsTable(base, k, g)
           Step(f) == [n \in Nat |-> IF n = 0 THEN 1 ELSE (base * f[n - 1]) % N]
           power == [n \in Nat |-> table(n)[n]]
<1>1. \A k \in Nat : IsTable(base, k, table(k))
  BY TableExists
<1>2. power[0] = 1
  BY <1>1 DEF IsTable
<1>3. ASSUME NEW n \in Nat PROVE power[n + 1] = (base * power[n]) % N
  <2>1. n + 1 \in 1..n + 1 /\ (n + 1) - 1 = n /\ n + 1 \in Nat
    OBVIOUS
  <2>2. IsTable(base, n + 1, table(n + 1)) /\ IsTable(base, n, table(n))
    BY <1>1, <2>1
  <2> HIDE DEF table
  <2>3. table(n + 1)[n + 1] = (base * table(n + 1)[n]) % N
    BY <2>1, <2>2 DEF IsTable
  <2>4. IsTable(base, n, table(n + 1))
    BY <2>2 DEF IsTable
  <2>5. table(n + 1)[n] = table(n)[n]
    BY <2>2, <2>4, TableUnique
  <2>6. power[n + 1] = table(n + 1)[n + 1] /\ power[n] = table(n)[n]
    BY <2>1
  <2> QED BY <2>3, <2>5, <2>6
<1>4. power = Step(power)
  <2>1. ASSUME NEW n \in Nat PROVE power[n] = Step(power)[n]
    <3> HIDE DEF table, power
    <3>1. CASE n = 0
      BY <1>2, <3>1
    <3>2. CASE n # 0
      <4>1. n - 1 \in Nat /\ (n - 1) + 1 = n
        BY <3>2
      <4>2. power[n] = (base * power[n - 1]) % N
        BY <1>3, <4>1
      <4> QED BY <3>2, <4>2
    <3> QED BY <3>1, <3>2
  <2> QED BY <2>1
<1> DEFINE chosen == CHOOSE f : f = Step(f)
<1>5. chosen = Step(chosen)
  <2> HIDE DEF power, Step
  <2> QED BY <1>4
<1>6. \A e : Pow(base, e) = chosen[e]
  BY DEF Pow
<1>7. chosen[0] = 1
  <2> HIDE DEF chosen
  <2>1. Step(chosen)[0] = 1
    OBVIOUS
  <2> QED BY <1>5, <2>1
<1>8. ASSUME NEW n \in Nat PROVE chosen[n + 1] = (base * chosen[n]) % N
  <2> HIDE DEF chosen
  <2>1. Step(chosen)[n + 1] = (base * chosen[n]) % N
    OBVIOUS
  <2> QED BY <1>5, <2>1
<1> HIDE DEF chosen
<1> QED BY <1>6, <1>7, <1>8

\* A power is a member of the group.
LEMMA PowRange ==
    ASSUME NEW base \in Int, NEW e \in Nat
    PROVE  Pow(base, e) \in 0..N - 1
<1> DEFINE T == {n \in Nat : Pow(base, n) \in 0..N - 1}
<1>1. 0 \in T
  BY PowDefined, GroupAssumption
<1>2. ASSUME NEW n \in Nat, n \in T PROVE n + 1 \in T
  <2>1. Pow(base, n) \in Int
    BY <1>2, GroupAssumption
  <2>2. base * Pow(base, n) \in Int
    BY <2>1
  <2>3. (base * Pow(base, n)) % N \in 0..N - 1
    BY <2>2, Remainder
  <2> QED BY <2>3, PowDefined
<1>3. Nat \subseteq T
  <2> HIDE DEF T
  <2> QED BY <1>1, <1>2, SetInduction
<1> QED BY <1>3

\* Exponents add up when powers are multiplied.
LEMMA PowSum ==
    ASSUME NEW base \in Int, NEW m \in Nat, NEW n \in Nat
    PROVE  Pow(base, m + n) = (Pow(base, m) * Pow(base, n)) % N
<1> DEFINE T == {i \in Nat :
                   Pow(base, i + n) = (Pow(base, i) * Pow(base, n)) % N}
           y == Pow(base, n)
<1>0. y \in 0..N - 1 /\ y \in Int
  BY PowRange, GroupAssumption
<1>1. 0 \in T
  <2>1. (1 * y) % N = y
    <3> HIDE DEF y
    <3>1. 1 * y = y
      BY <1>0
    <3> QED BY <1>0, <3>1, SmallRemainder
  <2>2. Pow(base, 0) = 1 /\ 0 + n = n
    BY PowDefined
  <2> QED BY <2>1, <2>2
<1>2. ASSUME NEW i \in Nat, i \in T PROVE i + 1 \in T
  <2> DEFINE x == Pow(base, i)
             z == Pow(base, i + n)
  <2>1. x \in Int
    BY PowRange, GroupAssumption
  <2>2. z = (x * y) % N
    BY <1>2
  <2>3. Pow(base, i + 1) = (base * x) % N
    BY PowDefined
  <2>4. Pow(base, (i + 1) + n) = (base * z) % N
    <3>1. (i + 1) + n = (i + n) + 1 /\ i + n \in Nat
      OBVIOUS
    <3> QED BY <3>1, PowDefined
  <2> HIDE DEF x, y, z
  <2>5. (base * z) % N = ((x * y) * base) % N
    <3>1. x * y \in Int
      BY <1>0, <2>1
    <3>2. ((x * y) % N) * base = base * z
      <4>1. z \in Int
        BY <2>2, <3>1, Remainder, GroupAssumption
      <4> QED BY <2>2, <4>1
    <3>3. (((x * y) % N) * base) % N = ((x * y) * base) % N
      BY <3>1, ReduceFactor
    <3> QED BY <3>2, <3>3
  <2>6. (((base * x) % N) * y) % N = ((base * x) * y) % N
    <3>1. base * x \in Int
      BY <2>1
    <3> QED BY <1>0, <3>1, ReduceFactor
  <2>7. (x * y) * base = (base * x) * y
    BY <1>0, <2>1
  <2>8. Pow(base, (i + 1) + n) = (Pow(base, i + 1) * y) % N
    BY <2>3, <2>4, <2>5, <2>6, <2>7
  <2> QED BY <2>8 DEF y
<1>3. Nat \subseteq T
  <2> HIDE DEF T
  <2> QED BY <1>1, <1>2, SetInduction
<1> QED BY <1>3

\* Exponents multiply when a power is raised to another.
LEMMA PowPow ==
    ASSUME NEW base \in Int, NEW m \in Nat, NEW n \in Nat
    PROVE  Pow(Pow(base, m), n) = Pow(base, m * n)
<1> DEFINE x == Pow(base, m)
           T == {i \in Nat : Pow(x, i) = Pow(base, m * i)}
<1>1. 0 \in T
  <2>1. m * 0 = 0
    OBVIOUS
  <2>2. Pow(x, 0) = 1 /\ Pow(base, 0) = 1
    BY PowDefined
  <2> QED BY <2>1, <2>2
<1>2. ASSUME NEW i \in Nat, i \in T PROVE i + 1 \in T
  <2>1. Pow(x, i + 1) = (x * Pow(x, i)) % N
    BY PowDefined
  <2>2. m * i \in Nat /\ m * (i + 1) = m + m * i
    OBVIOUS
  <2>3. Pow(base, m + m * i) = (x * Pow(base, m * i)) % N
    BY <2>2, PowSum
  <2> QED BY <1>2, <2>1, <2>2, <2>3
<1>3. Nat \subseteq T
  <2> HIDE DEF T
  <2> QED BY <1>1, <1>2, SetInduction
<1> QED BY <1>3

-----------------------------------------------------------------------------
\* What every state knows of its constants.
Chosen ==
    /\ configured \in Passwords /\ account \in Passwords
    /\ a \in Ephemerals

LEMMA Exponents ==
    ASSUME Chosen
    PROVE  /\ a \in Nat /\ X[configured] \in Nat /\ X[account] \in Nat
           /\ N \in Nat /\ N > 0 /\ G \in Int
           /\ A \in 0..N - 1 /\ A \in Int
           /\ Verifier(configured) \in Int /\ Verifier(account) \in Int
           /\ \A n \in Nat : Pow(G, n) \in 0..N - 1 /\ ServerPublic(n) \in 0..N - 1
<1>1. /\ a \in Nat /\ X[configured] \in Nat /\ X[account] \in Nat
      /\ N \in Nat /\ N > 0 /\ G \in Int
  BY GroupAssumption DEF Chosen
<1>2. \A n \in Nat : Pow(G, n) \in 0..N - 1
  BY <1>1, PowRange
<1>3. A \in 0..N - 1 /\ Verifier(configured) \in Int /\ Verifier(account) \in Int
  BY <1>1, <1>2 DEF A, Verifier
<1>4. ASSUME NEW n \in Nat PROVE ServerPublic(n) \in 0..N - 1
  <2>1. Pow(G, n) \in Int
    BY <1>1, <1>2
  <2>2. Multiplier * Verifier(account) + Pow(G, n) \in Int
    BY <1>3, <2>1 DEF Multiplier
  <2> QED BY <2>2, Remainder DEF ServerPublic
<1> QED BY <1>1, <1>2, <1>3, <1>4

\* The client takes the multiple of its verifier off the server's public value,
\* and with the password of the account what is left is the power G ^ n of the
\* server's private value (srp6.py:125-127).
LEMMA BlindingComesOff ==
    ASSUME Chosen, configured = account, NEW n \in Nat
    PROVE  (ServerPublic(n) - Multiplier * Verifier(configured)) % N = Pow(G, n)
<1> DEFINE v == Verifier(account)
           p == Pow(G, n)
           w == Multiplier * v
<1>1. /\ N \in Nat /\ N > 0
      /\ v \in Int
      /\ p \in 0..N - 1 /\ p \in Int
  <2>1. p \in 0..N - 1 /\ N \in Nat /\ N > 0 /\ v \in Int
    BY Exponents
  <2> QED BY <2>1
<1>2. w \in Int
  BY <1>1 DEF Multiplier
<1>3. ServerPublic(n) = (w + p) % N
  BY DEF ServerPublic
<1> HIDE DEF v, p, w
<1>4. w + p \in Int /\ -w \in Int
  BY <1>1, <1>2
<1>5. (((w + p) % N) + (-w)) % N = ((w + p) + (-w)) % N
  BY <1>4, ReduceTerm
<1>6. ((w + p) % N) + (-w) = ((w + p) % N) - w /\ (w + p) + (-w) = p
  <2>1. (w + p) % N \in Int
    BY <1>1, <1>4, Remainder
  <2> QED BY <1>1, <1>2, <2>1
<1>7. p % N = p
  BY <1>1, SmallRemainder
<1>8. (((w + p) % N) - w) % N = p
  BY <1>5, <1>6, <1>7
<1> QED BY <1>3, <1>8 DEF v, p, w

\* With the password of the account, client and server compute one secret:
\* (G ^ n) ^ (a + u * x) = (G ^ a * (G ^ x) ^ u) ^ n.
LEMMA SecretsAgree ==
    ASSUME Chosen, configured = account, b \in Nat, public = ServerPublic(b)
    PROVE  ClientSecret(public) = ServerSecret
<1> DEFINE u == Scramble(A, public)
           x == X[account]
           e == a + u * x
<1>1. a \in Nat /\ x \in Nat /\ u \in Nat /\ G \in Int
  BY Exponents, ScrambleAssumption
<1>2. u * x \in Nat /\ e \in Nat
  <2> HIDE DEF u, x
  <2> QED BY <1>1
<1>3. ClientSecret(public) = Pow(Pow(G, b), e)
  BY BlindingComesOff DEF ClientSecret
<1>4. Pow(Pow(G, b), e) = Pow(G, b * e)
  <2> HIDE DEF e
  <2> QED BY <1>1, <1>2, PowPow
<1>5. (A * Pow(Verifier(account), u)) % N = Pow(G, e)
  <2>1. Pow(Verifier(account), u) = Pow(G, x * u)
    <3> HIDE DEF u
    <3> QED BY <1>1, PowPow DEF Verifier
  <2>2. x * u = u * x
    <3> HIDE DEF u, x
    <3> QED BY <1>1
  <2> HIDE DEF u, x
  <2>3. Pow(G, a + u * x) = (Pow(G, a) * Pow(G, u * x)) % N
    BY <1>1, <1>2, PowSum
  <2> QED BY <2>1, <2>2, <2>3 DEF A
<1>6. ServerSecret = Pow(Pow(G, e), b)
  BY <1>5 DEF ServerSecret
<1>7. Pow(Pow(G, e), b) = Pow(G, e * b)
  <2> HIDE DEF e
  <2> QED BY <1>1, <1>2, PowPow
<1>8. e * b = b * e
  <2> HIDE DEF e
  <2> QED BY <1>2
<1> QED BY <1>3, <1>4, <1>6, <1>7, <1>8

-----------------------------------------------------------------------------
\* The inductive invariant: what the client has computed, in terms of the
\* values both sides have chosen, and what is open at each stage.
Derived ==
    secret # NotYet =>
        /\ server = "honest" => b \in Nat /\ public = ServerPublic(b)
        /\ secret = ClientSecret(public)
        /\ key = SessionKey(Digits(secret))

Progress ==
    /\ stage \in {"challenge", "proof", "closed"}
    /\ stage = "challenge" => secret = NotYet
    /\ stage # "closed" => outcome = "none"

IInv ==
    /\ Chosen /\ Derived /\ Progress
    /\ RightPasswordAccepted /\ WrongKeyRejected /\ KeysAgree

LEMMA InitIInv == Init => IInv
BY DEF Init, IInv, Chosen, Derived, Progress, RightPasswordAccepted,
   WrongKeyRejected, KeysAgree

\* With the right password, a secret whose zeros are stripped alike on both
\* sides makes one key.
LEMMA RightPasswordKey ==
    ASSUME IInv, server = "honest", configured = account, secret # NotYet,
           Stripped(Digits(secret)) = Stripped(Shortest(Digits(secret)))
    PROVE  key = ServerKey
<1>1. secret = ServerSecret
  BY SecretsAgree DEF IInv, Derived
<1>2. key = EvenOdd(Stripped(Digits(secret)))
  BY DEF IInv, Derived, SessionKey
<1> QED BY <1>1, <1>2 DEF ServerKey, SessionKey

LEMMA SendProofStep ==
    ASSUME IInv, NEW B, SendProof(B),
           server = "honest" => b' \in Nat /\ B = ServerPublic(b')
    PROVE  IInv'
<1> USE DEF SendProof
<1>1. Chosen'
  BY DEF IInv, Chosen
<1>2. Derived'
  <2>1. ClientSecret(public)' = ClientSecret(B)
    BY DEF ClientSecret, Verifier, A
  <2>2. server = "honest" => ServerPublic(b)' = B
    BY DEF ServerPublic, Verifier
  <2> QED BY <2>1, <2>2 DEF Derived
<1>3. Progress' /\ outcome' = "none"
  BY DEF IInv, Progress
<1>4. RightPasswordAccepted' /\ WrongKeyRejected' /\ KeysAgree'
  BY <1>3 DEF RightPasswordAccepted, WrongKeyRejected, KeysAgree
<1> QED BY <1>1, <1>2, <1>3, <1>4 DEF IInv

\* Every other action only closes the login with an outcome.
LEMMA EndsStep ==
    ASSUME IInv, NEW how, Ends(how),
           UNCHANGED <<configured, account, server, a, b, public, secret, key>>,
           how \notin {"none", "ok", "error"} =>
               ~(/\ server = "honest" /\ configured = account /\ secret # NotYet
                 /\ Stripped(Digits(secret)) = Stripped(Shortest(Digits(secret)))),
           how \notin {"none", "fatal", "error"} =>
               ~(server = "honest" /\ secret # NotYet /\ key # ServerKey),
           how = "ok" => server # "impostor" /\ key = ServerKey
    PROVE  IInv'
<1>1. outcome' = how /\ stage' = "closed"
  BY DEF Ends
<1>2. Chosen'
  BY DEF IInv, Chosen
<1>3. ServerKey' = ServerKey /\ ClientSecret(public)' = ClientSecret(public)
  BY DEF ServerKey, ServerSecret, ClientSecret, Verifier, A
<1>4. Derived'
  BY <1>3 DEF IInv, Derived, ServerPublic, Verifier
<1>5. Progress'
  BY <1>1 DEF Progress
<1>6. RightPasswordAccepted' /\ WrongKeyRejected' /\ KeysAgree'
  BY <1>1, <1>3 DEF RightPasswordAccepted, WrongKeyRejected, KeysAgree
<1> QED BY <1>2, <1>4, <1>5, <1>6 DEF IInv

LEMMA NextIInv == IInv /\ [Next]_vars => IInv'
<1> SUFFICES ASSUME IInv, [Next]_vars PROVE IInv'
  OBVIOUS
<1>1. CASE ChallengeAnswered
  <2>1. PICK n \in Ephemerals : b' = n /\ SendProof(ServerPublic(n))
    BY <1>1 DEF ChallengeAnswered
  <2>2. n \in Nat
    BY GroupAssumption
  <2> QED BY <2>1, <2>2, SendProofStep
<1>2. CASE ImpostorAnswers
  <2>1. PICK B \in 0..Base ^ Width - 1 : SendProof(B)
    BY <1>2 DEF ImpostorAnswers
  <2>2. server # "honest"
    BY <1>2 DEF ImpostorAnswers
  <2> QED BY <2>1, <2>2, SendProofStep
<1>3. CASE ChallengeRefused
  <2>1. server # "honest"
    BY <1>3 DEF ChallengeRefused
  <2>2. Refusal # "ok"
    BY DEF Refusal
  <2>3. Ends(Refusal) /\ UNCHANGED <<configured, account, server, a, b, public, secret, key>>
    BY <1>3 DEF ChallengeRefused
  <2> QED BY <2>1, <2>2, <2>3, EndsStep
<1>4. CASE ProofRefused
  <2>1. server = "honest" => key # ServerKey
    BY <1>4 DEF ProofRefused, M1
  <2>2. Ends("fatal") /\ UNCHANGED <<configured, account, server, a, b, public, secret, key>>
    BY <1>4 DEF ProofRefused
  <2> QED BY <2>1, <2>2, RightPasswordKey, EndsStep
<1>5. CASE ProofAccepted
  <2>0. UNCHANGED <<configured, account, server, a, b, public, secret, key>>
    BY <1>5 DEF ProofAccepted
  <2>1. CASE /\ server # "impostor"
             /\ M1(key) = M1(ServerKey)
             /\ CheckServerProof(M2(M1(key), ServerKey))
    <3>1. key = ServerKey
      BY <2>1 DEF M1
    <3>2. Ends("ok")
      BY <2>1, <3>1 DEF CheckServerProof
    <3> QED BY <2>0, <2>1, <3>1, <3>2, EndsStep
  <2>2. CASE server = "impostor" /\ CheckServerProof(<<>>)
    <3>1. M2(M1(key), key) # <<>>
      BY DEF M2
    <3>2. Ends("mismatch")
      BY <2>2, <3>1 DEF CheckServerProof
    <3> QED BY <2>0, <2>2, <3>2, EndsStep
  <2> QED BY <1>5, <2>1, <2>2 DEF ProofAccepted
<1>6. CASE LinkFails
  <2>1. Ends("error") /\ UNCHANGED <<configured, account, server, a, b, public, secret, key>>
    BY <1>6 DEF LinkFails
  <2> QED BY <2>1, EndsStep
<1>7. CASE UNCHANGED vars
  BY <1>7 DEF vars, IInv, Chosen, Derived, Progress, RightPasswordAccepted,
     WrongKeyRejected, KeysAgree, ClientSecret, ServerPublic, Verifier, A,
     ServerKey, ServerSecret
<1> QED BY <1>1, <1>2, <1>3, <1>4, <1>5, <1>6, <1>7 DEF Next

\* What is chosen, computed and decided stays consistent until login ends.
THEOREM IInvHolds == Spec => []IInv
BY InitIInv, NextIInv, PTL DEF Spec

\* The password of the account is never taken for a wrong one, nor the server
\* for an impostor, when both sides strip the secret's zeros alike: for every
\* group, hash and private value (auth_client.py:223-245, srp6.py:107-162).
THEOREM RightPassword == Spec => []RightPasswordAccepted
<1>1. IInv => RightPasswordAccepted
  BY DEF IInv
<1> QED BY <1>1, IInvHolds, PTL

\* A key the honest server does not share ends in the slow retry or in a link
\* error (auth_client.py:209-215, 223-231).
THEOREM WrongKey == Spec => []WrongKeyRejected
<1>1. IInv => WrongKeyRejected
  BY DEF IInv
<1> QED BY <1>1, IInvHolds, PTL

\* A login that returns has the server's key, and its server is no impostor
\* (auth_client.py:239-245).
THEOREM OneKey == Spec => []KeysAgree
<1>1. IInv => KeysAgree
  BY DEF IInv
<1> QED BY <1>1, IInvHolds, PTL

-----------------------------------------------------------------------------
\* A number whose last digit is not zero is as short as it is written.
LEMMA NothingToShorten ==
    ASSUME NEW S, NEW digits \in Seq(S), Len(digits) > 0, digits[Len(digits)] # 0
    PROVE  Shortest(digits) = digits
<1> DEFINE n == Len(digits)
           IsLast(k) == /\ digits[k] # 0
                        /\ \A i \in k + 1..n : digits[i] = 0
<1>1. n \in Nat /\ DOMAIN digits = 1..n /\ n \in DOMAIN digits
  OBVIOUS
<1>2. ASSUME NEW k \in DOMAIN digits, IsLast(k) PROVE k = n
  <2>1. ~(n \in k + 1..n)
    BY <1>2
  <2> QED BY <1>1, <2>1
<1>3. IsLast(n)
  BY <1>1
<1>4. (CHOOSE k \in DOMAIN digits : IsLast(k)) = n
  <2> HIDE DEF IsLast, n
  <2> QED BY <1>1, <1>2, <1>3
<1>5. digits[n] \in Range(digits)
  BY <1>1 DEF Range
<1>6. Shortest(digits) = SubSeq(digits, 1, n)
  BY <1>4, <1>5 DEF Shortest
<1>7. SubSeq(digits, 1, n) = digits
  BY <1>1
<1> QED BY <1>6, <1>7

\* The exception of RightPasswordAccepted cannot arise while the upper byte of
\* the secret is not zero: the code keeps all its bytes, and so does the server.
FullWidthAccepted ==
    /\ server = "honest" /\ configured = account /\ secret # NotYet
    /\ Width > 0 /\ Digits(secret)[Width] # 0
    => outcome \in {"none", "ok", "error"}

\* A secret that fills its width is never rejected (srp6.py:133-162).
THEOREM FullWidthSecret == Spec => []FullWidthAccepted
<1>1. RightPasswordAccepted => FullWidthAccepted
  <2> SUFFICES ASSUME RightPasswordAccepted, server = "honest",
                      configured = account, secret # NotYet,
                      Width > 0, Digits(secret)[Width] # 0
               PROVE  outcome \in {"none", "ok", "error"}
    BY DEF FullWidthAccepted
  <2> DEFINE d == Digits(secret)
             S == {d[i] : i \in 1..Width}
  <2>1. d \in Seq(S) /\ Len(d) = Width
    <3>1. d = [i \in 1..Width |-> d[i]] /\ Width \in Nat
      BY GroupAssumption, Zenon DEF Digits
    <3>2. \A i \in 1..Width : d[i] \in S
      OBVIOUS
    <3> HIDE DEF d, S
    <3> QED BY <3>1, <3>2
  <2>2. Shortest(d) = d
    <3> HIDE DEF d, S
    <3> SUFFICES d[Width] # 0 BY <2>1, NothingToShorten
    <3> QED BY DEF d
  <2> QED BY <2>2 DEF RightPasswordAccepted
<1> QED BY <1>1, RightPassword, PTL
=============================================================================
