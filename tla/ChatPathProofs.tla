--------------------------- MODULE ChatPathProofs ---------------------------
(***************************************************************************)
(* What ChatPath promises of packets, texts, links, members and            *)
(* configurations of any size.  The argument has four parts.  The          *)
(* decoders walk over a body with a reader: behind each read it has either *)
(* come to the end of a field of the layout, or the body has been cut      *)
(* before that and the reader has raised.  A list is the codes of its      *)
(* entries one behind the other: each turn of a decoder's loop takes the   *)
(* next entry, or the body has been cut within it and no turn takes        *)
(* anything any more.  The steps of the text pipeline are substitutions of *)
(* texts for tokens; substitutions compose, and so each post is the        *)
(* wording with one text for each of its tokens.  The passes that take out *)
(* colours leave a thinner text: its places in the one before are an       *)
(* increasing sequence, a marker is taken out whole or stays whole, and so *)
(* the passes together take out what one would.                            *)
(* FlattenSeq is recursive: that it exists is proved from the              *)
(* well-foundedness of the natural numbers, and what it does by induction  *)
(* on sets of sequences.                                                   *)
(***************************************************************************)
EXTENDS ChatPath, SequenceTheorems, WellFoundedInduction, FiniteSetTheorems, TLAPS

-----------------------------------------------------------------------------
\* Induction over the natural numbers, for a set.
LEMMA SetInduction ==
    ASSUME NEW T, 0 \in T, \A n \in Nat : n \in T => n + 1 \in T
    PROVE  Nat \subseteq T
<1> DEFINE U == Nat \ T
           R == {ss \in Nat \X Nat : ss[1] < ss[2]}
<1> SUFFICES ASSUME U # {} PROVE FALSE
  OBVIOUS
<1>1. IsWellFoundedOn(R, Nat)
  BY NatLessThanWellFounded DEF OpToRel
<1>2. PICK x \in U : \A y \in U : ~(<<y, x>> \in R)
  <2> HIDE DEF R
  <2> U \subseteq Nat OBVIOUS
  <2> HIDE DEF U
  <2> QED BY <1>1, WFMin
<1>3. x # 0 /\ x - 1 \in Nat /\ <<x - 1, x>> \in R
  OBVIOUS
<1>4. x - 1 \in T
  BY <1>2, <1>3
<1>5. (x - 1) + 1 \in T
  BY <1>3, <1>4
<1> QED BY <1>5

\* What the partial concatenations of ss up to the k-th are.
IsConcat(ss, k, f) ==
    /\ f[1] = ss[1]
    /\ \A i \in 2..k : f[i] = f[i - 1] \o ss[i]

LEMMA ConcatExists ==
    ASSUME NEW ss, NEW k \in Nat
    PROVE  \E f : IsConcat(ss, k, f)
<1> DEFINE T == {n \in Nat : \E f : IsConcat(ss, n, f)}
<1>1. 0 \in T
  <2>1. IsConcat(ss, 0, [i \in {1} |-> ss[1]])
    BY DEF IsConcat
  <2> QED BY <2>1
<1>2. ASSUME NEW n \in Nat, n \in T PROVE n + 1 \in T
  <2>1. PICK f : IsConcat(ss, n, f)
    BY <1>2
  <2> DEFINE g == [i \in 1..n + 1 |->
                     IF i > 1 /\ i = n + 1 THEN f[n] \o ss[i] ELSE f[i]]
  <2>2. g[1] = ss[1]
    BY <2>1 DEF IsConcat
  <2>3. ASSUME NEW i \in 2..n + 1 PROVE g[i] = g[i - 1] \o ss[i]
    <3>1. i \in 1..n + 1 /\ i - 1 \in 1..n + 1 /\ i - 1 # n + 1 /\ i > 1
      OBVIOUS
    <3>2. g[i - 1] = f[i - 1]
      BY <3>1
    <3>3. CASE i = n + 1
      <4>1. g[i] = f[n] \o ss[i]
        BY <3>1, <3>3, Zenon
      <4>2. i - 1 = n
        BY <3>3
      <4> QED BY <3>2, <4>1, <4>2
    <3>4. CASE i # n + 1
      <4>1. g[i] = f[i] /\ i \in 2..n
        BY <3>1, <3>4
      <4>2. f[i] = f[i - 1] \o ss[i]
        BY <2>1, <4>1 DEF IsConcat
      <4> QED BY <3>2, <4>1, <4>2
    <3> QED BY <3>3, <3>4
  <2>4. IsConcat(ss, n + 1, g)
    <3> HIDE DEF g
    <3> QED BY <2>2, <2>3 DEF IsConcat
  <2> QED BY <2>4
<1>3. Nat \subseteq T
  <2> HIDE DEF T
  <2> QED BY <1>1, <1>2, SetInduction
<1> QED BY <1>3

LEMMA ConcatUnique ==
    ASSUME NEW ss, NEW tt, NEW k \in Nat \ {0}, NEW f, NEW g,
           \A i \in 1..k : ss[i] = tt[i],
           IsConcat(ss, k, f), IsConcat(tt, k, g)
    PROVE  f[k] = g[k]
<1> DEFINE T == {n \in Nat : n \in 1..k => f[n] = g[n]}
<1>1. 0 \in T
  OBVIOUS
<1>2. ASSUME NEW n \in Nat, n \in T PROVE n + 1 \in T
  <2> SUFFICES ASSUME n + 1 \in 1..k PROVE f[n + 1] = g[n + 1]
    OBVIOUS
  <2>1. CASE n = 0
    BY <2>1 DEF IsConcat
  <2>2. CASE n # 0
    <3>1. n + 1 \in 2..k /\ (n + 1) - 1 = n /\ n \in 1..k
      BY <2>2
    <3>2. f[n] = g[n]
      BY <1>2, <3>1
    <3>3. f[n + 1] = f[n] \o ss[n + 1] /\ g[n + 1] = g[n] \o tt[n + 1]
      BY <3>1 DEF IsConcat
    <3> QED BY <3>1, <3>2, <3>3
  <2> QED BY <2>1, <2>2
<1>3. Nat \subseteq T
  <2> HIDE DEF T
  <2> QED BY <1>1, <1>2, SetInduction
<1> QED BY <1>3

\* The recursive definition in FlattenSeq has a solution.
LEMMA FlattenDefined ==
    ASSUME NEW ss, Len(ss) \in Nat \ {0}
    PROVE  \E f : IsConcat(ss, Len(ss), f) /\ FlattenSeq(ss) = f[Len(ss)]
<1> DEFINE n == Len(ss)
           Step(f) == [i \in 1..n |-> IF i = 1 THEN ss[i] ELSE f[i - 1] \o ss[i]]
<1>1. PICK f : IsConcat(ss, n, f)
  BY ConcatExists
<1> DEFINE g == [i \in 1..n |-> f[i]]
<1>2. g = Step(g)
  <2>1. ASSUME NEW i \in 1..n PROVE g[i] = IF i = 1 THEN ss[i] ELSE g[i - 1] \o ss[i]
    <3>1. CASE i = 1
      BY <1>1, <3>1 DEF IsConcat
    <3>2. CASE i # 1
      <4>1. i \in 2..n /\ i - 1 \in 1..n
        BY <3>2
      <4> QED BY <1>1, <3>2, <4>1 DEF IsConcat
    <3> QED BY <3>1, <3>2
  <2> QED BY <2>1
<1> DEFINE chosen == CHOOSE h : h = Step(h)
<1>3. chosen = Step(chosen)
  <2> HIDE DEF g, Step
  <2> QED BY <1>2
<1>4. FlattenSeq(ss) = chosen[n]
  BY DEF FlattenSeq
<1>5. IsConcat(ss, n, chosen)
  <2> HIDE DEF chosen
  <2>1. chosen[1] = ss[1]
    <3>1. Step(chosen)[1] = ss[1]
      OBVIOUS
    <3> QED BY <1>3, <3>1
  <2>2. ASSUME NEW i \in 2..n PROVE chosen[i] = chosen[i - 1] \o ss[i]
    <3>1. i \in 1..n /\ i # 1
      OBVIOUS
    <3>2. Step(chosen)[i] = chosen[i - 1] \o ss[i]
      BY <3>1, Zenon
    <3> HIDE DEF Step
    <3> QED BY <1>3, <3>2
  <2> QED BY <2>1, <2>2 DEF IsConcat
<1> QED BY <1>4, <1>5

LEMMA FlattenEmpty == FlattenSeq(<<>>) = <<>>
BY DEF FlattenSeq

LEMMA FlattenAppend ==
    ASSUME NEW S, NEW ss \in Seq(Seq(S)), NEW s \in Seq(S)
    PROVE  FlattenSeq(Append(ss, s)) = FlattenSeq(ss) \o s
<1> DEFINE tt == Append(ss, s)
           n == Len(ss)
<1>1. /\ n \in Nat /\ Len(tt) = n + 1 /\ tt[n + 1] = s
      /\ \A i \in 1..n : tt[i] = ss[i]
  BY AppendProperties, LenProperties
<1>2. PICK g : IsConcat(tt, n + 1, g) /\ FlattenSeq(tt) = g[n + 1]
  <2> HIDE DEF tt, n
  <2>1. Len(tt) \in Nat \ {0}
    BY <1>1
  <2> QED BY <1>1, <2>1, FlattenDefined
<1>3. CASE n = 0
  <2>1. ss = <<>>
    BY <1>3
  <2>2. FlattenSeq(tt) = s
    BY <1>1, <1>2, <1>3 DEF IsConcat
  <2>3. <<>> \o s = s
    BY ConcatEmptySeq
  <2> QED BY <2>1, <2>2, <2>3, FlattenEmpty
<1>4. CASE n # 0
  <2>1. PICK f : IsConcat(ss, n, f) /\ FlattenSeq(ss) = f[n]
    BY <1>1, <1>4, FlattenDefined
  <2> HIDE DEF tt, n
  <2>2. IsConcat(tt, n, g)
    <3>1. \A i \in 2..n : i \in 2..n + 1
      BY <1>1
    <3> QED BY <1>2, <3>1, Zenon DEF IsConcat
  <2>3. f[n] = g[n]
    BY <1>1, <1>4, <2>1, <2>2, ConcatUnique
  <2>4. n + 1 \in 2..n + 1 /\ (n + 1) - 1 = n
    BY <1>1, <1>4
  <2>5. g[n + 1] = g[n] \o tt[n + 1]
    BY <1>2, <2>4 DEF IsConcat
  <2> QED BY <1>1, <1>2, <2>1, <2>3, <2>5 DEF tt
<1> QED BY <1>3, <1>4

\* Induction over the sequences of S, for a set.
LEMMA SequenceInduction ==
    ASSUME NEW S, NEW T, <<>> \in T,
           \A s \in Seq(S) : \A e \in S : s \in T => Append(s, e) \in T
    PROVE  Seq(S) \subseteq T
<1> DEFINE U == {n \in Nat : \A s \in Seq(S) : Len(s) = n => s \in T}
<1>1. 0 \in U
  <2>1. \A s \in Seq(S) : Len(s) = 0 => s = <<>>
    BY EmptySeq
  <2> QED BY <2>1
<1>2. ASSUME NEW n \in Nat, n \in U PROVE n + 1 \in U
  <2> SUFFICES ASSUME NEW s \in Seq(S), Len(s) = n + 1 PROVE s \in T
    OBVIOUS
  <2>1. s # <<>>
    BY EmptySeq
  <2>2. PICK r \in Seq(S), e \in S : s = Append(r, e)
    BY <2>1, SequenceEmptyOrAppend
  <2>3. Len(s) = Len(r) + 1 /\ Len(r) \in Nat
    BY <2>2, AppendProperties, LenProperties
  <2>4. r \in T
    BY <1>2, <2>3
  <2> QED BY <2>2, <2>4
<1>3. Nat \subseteq U
  <2> HIDE DEF U
  <2> QED BY <1>1, <1>2, SetInduction
<1>4. \A s \in Seq(S) : Len(s) \in Nat
  BY LenProperties
<1> QED BY <1>3, <1>4

LEMMA FlattenType ==
    ASSUME NEW S, NEW ss \in Seq(Seq(S))
    PROVE  FlattenSeq(ss) \in Seq(S)
<1> DEFINE T == {r \in Seq(Seq(S)) : FlattenSeq(r) \in Seq(S)}
<1>1. <<>> \in T
  BY FlattenEmpty, EmptySeq
<1>2. ASSUME NEW r \in Seq(Seq(S)), NEW e \in Seq(S), r \in T
      PROVE  Append(r, e) \in T
  <2>1. FlattenSeq(Append(r, e)) = FlattenSeq(r) \o e
    BY FlattenAppend
  <2>2. FlattenSeq(r) \o e \in Seq(S)
    BY <1>2, ConcatProperties
  <2> QED BY <2>1, <2>2, AppendProperties
<1>3. Seq(Seq(S)) \subseteq T
  <2> HIDE DEF T
  <2> QED BY <1>1, <1>2, SequenceInduction
<1> QED BY <1>3

\* What ToSet makes of the ways to build a sequence.
LEMMA ToSetOf ==
    ASSUME NEW S, NEW s \in Seq(S)
    PROVE  /\ ToSet(s) = {s[i] : i \in 1..Len(s)}
           /\ ToSet(s) \subseteq S
           /\ \A x : s \in Seq(S \ x) <=> ToSet(s) \cap x = {}
<1>1. DOMAIN s = 1..Len(s) /\ Len(s) \in Nat
  BY LenProperties
<1>2. \A i \in 1..Len(s) : s[i] \in S
  BY ElementOfSeq
<1>3. ASSUME NEW x, s \in Seq(S \ x) PROVE ToSet(s) \cap x = {}
  BY <1>1, <1>3, ElementOfSeq DEF ToSet
<1>4. ASSUME NEW x, ToSet(s) \cap x = {} PROVE s \in Seq(S \ x)
  <2>1. \A i \in 1..Len(s) : s[i] \in S \ x
    BY <1>1, <1>2, <1>4 DEF ToSet
  <2>2. s = [i \in 1..Len(s) |-> s[i]]
    BY LenProperties
  <2> QED BY <1>1, <2>1, <2>2
<1> QED BY <1>1, <1>2, <1>3, <1>4 DEF ToSet

LEMMA ToSetConcat ==
    ASSUME NEW S, NEW s \in Seq(S), NEW t \in Seq(S)
    PROVE  ToSet(s \o t) = ToSet(s) \cup ToSet(t)
<1>1. /\ s \o t \in Seq(S) /\ Len(s \o t) = Len(s) + Len(t)
      /\ Len(s) \in Nat /\ Len(t) \in Nat
      /\ \A i \in 1..Len(s) + Len(t) :
             (s \o t)[i] = IF i <= Len(s) THEN s[i] ELSE t[i - Len(s)]
  BY ConcatProperties, LenProperties
<1>2. /\ ToSet(s \o t) = {(s \o t)[i] : i \in 1..Len(s) + Len(t)}
      /\ ToSet(s) = {s[i] : i \in 1..Len(s)}
      /\ ToSet(t) = {t[i] : i \in 1..Len(t)}
  BY <1>1, ToSetOf
<1> DEFINE u == s \o t
<1> HIDE DEF u
<1>3. ASSUME NEW i \in 1..Len(s) + Len(t)
      PROVE  u[i] \in ToSet(s) \cup ToSet(t)
  <2>1. CASE i <= Len(s)
    BY <1>1, <1>2, <2>1 DEF u
  <2>2. CASE i > Len(s)
    <3>1. i - Len(s) \in 1..Len(t)
      BY <1>1, <2>2
    <3> QED BY <1>1, <1>2, <2>2, <3>1 DEF u
  <2> QED BY <1>1, <2>1, <2>2
<1>4. ASSUME NEW i \in 1..Len(s) PROVE s[i] \in ToSet(u)
  <2>1. i \in 1..Len(s) + Len(t) /\ u[i] = s[i]
    BY <1>1 DEF u
  <2> QED BY <1>2, <2>1 DEF u
<1>5. ASSUME NEW i \in 1..Len(t) PROVE t[i] \in ToSet(u)
  <2>1. /\ i + Len(s) \in 1..Len(s) + Len(t) /\ ~(i + Len(s) <= Len(s))
        /\ (i + Len(s)) - Len(s) = i
    BY <1>1
  <2>2. u[i + Len(s)] = t[i]
    BY <1>1, <2>1 DEF u
  <2> QED BY <1>2, <2>1, <2>2 DEF u
<1> QED BY <1>2, <1>3, <1>4, <1>5 DEF u

LEMMA ToSetFlatten ==
    ASSUME NEW S, NEW ss \in Seq(Seq(S))
    PROVE  ToSet(FlattenSeq(ss)) = UNION {ToSet(ss[i]) : i \in 1..Len(ss)}
<1> DEFINE All(r) == UNION {ToSet(r[i]) : i \in 1..Len(r)}
           T == {r \in Seq(Seq(S)) : ToSet(FlattenSeq(r)) = All(r)}
<1>1. <<>> \in T
  <2>1. ToSet(<<>>) = {} /\ All(<<>>) = {}
    BY DEF ToSet
  <2> QED BY <2>1, FlattenEmpty, EmptySeq
<1>2. ASSUME NEW r \in Seq(Seq(S)), NEW e \in Seq(S), r \in T
      PROVE  Append(r, e) \in T
  <2>1. FlattenSeq(Append(r, e)) = FlattenSeq(r) \o e
    BY FlattenAppend
  <2>2. ToSet(FlattenSeq(r) \o e) = ToSet(FlattenSeq(r)) \cup ToSet(e)
    BY FlattenType, ToSetConcat
  <2> DEFINE q == Append(r, e)
  <2>3. /\ q \in Seq(Seq(S)) /\ Len(q) = Len(r) + 1 /\ Len(r) \in Nat
        /\ q[Len(r) + 1] = e /\ \A i \in 1..Len(r) : q[i] = r[i]
    BY AppendProperties, LenProperties
  <2> HIDE DEF q
  <2>4. All(q) = All(r) \cup ToSet(e)
    <3>1. ASSUME NEW i \in 1..Len(q) PROVE ToSet(q[i]) \subseteq All(r) \cup ToSet(e)
      <4>1. CASE i = Len(r) + 1
        BY <2>3, <4>1
      <4>2. CASE i # Len(r) + 1
        <5>1. i \in 1..Len(r)
          BY <2>3, <4>2
        <5> QED BY <2>3, <5>1
      <4> QED BY <4>1, <4>2
    <3>2. ASSUME NEW i \in 1..Len(r) PROVE ToSet(r[i]) \subseteq All(q)
      <4>1. i \in 1..Len(q) /\ q[i] = r[i]
        BY <2>3
      <4> QED BY <4>1
    <3>3. ToSet(e) \subseteq All(q)
      <4>1. Len(r) + 1 \in 1..Len(q)
        BY <2>3
      <4> QED BY <2>3, <4>1
    <3> QED BY <3>1, <3>2, <3>3
  <2> HIDE DEF All
  <2>5. ToSet(FlattenSeq(q)) = All(q)
    BY <1>2, <2>1, <2>2, <2>4 DEF q
  <2> QED BY <2>3, <2>5 DEF q
<1>3. Seq(Seq(S)) \subseteq T
  <2> HIDE DEF T
  <2> QED BY <1>1, <1>2, SequenceInduction
<1> QED BY <1>3

-----------------------------------------------------------------------------
\* A text, and what becomes of each token of one; Subst replaces each by it.
Texts == Seq(Nat)
Rules == [Nat -> Texts]

Images(text, f) == [i \in DOMAIN text |-> f[text[i]]]

Subst(text, f) == FlattenSeq([i \in DOMAIN text |-> f[text[i]]])

LEMMA ImagesAre ==
    ASSUME NEW s \in Texts, NEW f
    PROVE  /\ DOMAIN Images(s, f) = 1..Len(s)
           /\ Len(Images(s, f)) = Len(s) /\ Len(s) \in Nat
           /\ \A i \in 1..Len(s) : Images(s, f)[i] = f[s[i]]
<1>1. DOMAIN s = 1..Len(s) /\ Len(s) \in Nat
  BY LenProperties DEF Texts
<1> QED BY <1>1 DEF Images

LEMMA ImagesType ==
    ASSUME NEW s \in Texts, NEW f \in Rules
    PROVE  Images(s, f) \in Seq(Texts)
<1>1. DOMAIN s = 1..Len(s) /\ Len(s) \in Nat
  BY LenProperties DEF Texts
<1>2. \A i \in 1..Len(s) : f[s[i]] \in Texts
  BY ElementOfSeq DEF Texts, Rules
<1> QED BY <1>1, <1>2 DEF Images

LEMMA SubstEmpty == \A f : Subst(<<>>, f) = <<>>
<1> SUFFICES ASSUME NEW f PROVE Subst(<<>>, f) = <<>>
  OBVIOUS
<1>1. [i \in DOMAIN <<>> |-> f[<<>>[i]]] = <<>>
  OBVIOUS
<1> QED BY <1>1, FlattenEmpty DEF Subst

LEMMA SubstType ==
    ASSUME NEW s \in Texts, NEW f \in Rules
    PROVE  Subst(s, f) \in Texts
<1>1. Images(s, f) \in Seq(Texts)
  BY ImagesType
<1> QED BY <1>1, FlattenType DEF Subst, Images, Texts

\* What the rules say and the texts so far, for the sequences built from them.
LEMMA TextsAre ==
    /\ <<>> \in Texts
    /\ \A s, t \in Texts : s \o t \in Texts
    /\ \A s \in Texts : \A e \in Nat : Append(s, e) \in Texts
    /\ \A e \in Nat : <<e>> \in Texts
    /\ \A f \in Rules : \A e \in Nat : f[e] \in Texts
<1>1. <<>> \in Texts
  BY EmptySeq DEF Texts
<1>2. \A s, t \in Texts : s \o t \in Texts
  BY ConcatProperties DEF Texts
<1>3. \A s \in Texts : \A e \in Nat : Append(s, e) \in Texts
  BY AppendProperties DEF Texts
<1>4. \A e \in Nat : <<e>> \in Texts
  BY DEF Texts
<1>5. \A f \in Rules : \A e \in Nat : f[e] \in Texts
  BY DEF Rules
<1> QED BY <1>1, <1>2, <1>3, <1>4, <1>5

LEMMA SubstAppend ==
    ASSUME NEW s \in Texts, NEW e \in Nat, NEW f \in Rules
    PROVE  Subst(Append(s, e), f) = Subst(s, f) \o f[e]
<1> DEFINE t == Append(s, e)
<1>1. /\ t \in Texts /\ Len(t) = Len(s) + 1 /\ Len(s) \in Nat
      /\ \A i \in 1..Len(s) : t[i] = s[i]
      /\ t[Len(s) + 1] = e
  BY AppendProperties, LenProperties DEF Texts
<1> HIDE DEF t
<1>2. /\ Images(t, f) \in Seq(Texts) /\ Len(Images(t, f)) = Len(s) + 1
      /\ \A i \in 1..Len(s) + 1 : Images(t, f)[i] = f[t[i]]
  BY <1>1, ImagesType, ImagesAre
<1>3. /\ Images(s, f) \in Seq(Texts) /\ Len(Images(s, f)) = Len(s)
      /\ \A i \in 1..Len(s) : Images(s, f)[i] = f[s[i]]
  BY ImagesType, ImagesAre
<1> DEFINE r == Append(Images(s, f), f[e])
<1>4. /\ r \in Seq(Texts) /\ Len(r) = Len(s) + 1
      /\ \A i \in 1..Len(s) : r[i] = Images(s, f)[i]
      /\ r[Len(s) + 1] = f[e]
  BY <1>3, TextsAre, AppendProperties
<1>5. Images(t, f) = r
  <2> HIDE DEF r
  <2>1. ASSUME NEW i \in 1..Len(s) + 1 PROVE Images(t, f)[i] = r[i]
    <3>1. CASE i = Len(s) + 1
      BY <1>1, <1>2, <1>4, <3>1
    <3>2. CASE i # Len(s) + 1
      <4>1. i \in 1..Len(s)
        BY <1>1, <3>2
      <4>2. t[i] = s[i] /\ Images(t, f)[i] = f[t[i]]
        BY <1>1, <1>2, <4>1
      <4>3. r[i] = f[s[i]]
        BY <1>3, <1>4, <4>1
      <4> QED BY <4>2, <4>3
    <3> QED BY <3>1, <3>2
  <2> QED BY <1>2, <1>4, <2>1, SeqEqual
<1>6. FlattenSeq(r) = FlattenSeq(Images(s, f)) \o f[e]
  <2> HIDE DEF r
  <2>1. f[e] \in Seq(Nat) /\ Images(s, f) \in Seq(Seq(Nat))
    BY <1>3, TextsAre DEF Texts
  <2> QED BY <2>1, FlattenAppend DEF r
<1> QED BY <1>5, <1>6 DEF Subst, Images, t

LEMMA SubstSingle ==
    ASSUME NEW e \in Nat, NEW f \in Rules
    PROVE  Subst(<<e>>, f) = f[e]
<1>1. <<>> \in Texts /\ Append(<<>>, e) = <<e>>
  BY TextsAre
<1>2. Subst(<<e>>, f) = Subst(<<>>, f) \o f[e]
  BY <1>1, SubstAppend
<1>3. <<>> \o f[e] = f[e]
  BY ConcatEmptySeq, TextsAre DEF Texts
<1> QED BY <1>2, <1>3, SubstEmpty

\* Induction over texts.
LEMMA TextInduction ==
    ASSUME NEW T, <<>> \in T,
           \A s \in Texts : \A e \in Nat : s \in T => Append(s, e) \in T
    PROVE  Texts \subseteq T
BY SequenceInduction DEF Texts

LEMMA SubstConcat ==
    ASSUME NEW s \in Texts, NEW t \in Texts, NEW f \in Rules
    PROVE  Subst(s \o t, f) = Subst(s, f) \o Subst(t, f)
<1> DEFINE T == {r \in Texts : Subst(s \o r, f) = Subst(s, f) \o Subst(r, f)}
<1>0. Subst(s, f) \in Texts
  BY SubstType
<1>1. <<>> \in T
  <2>1. s \o <<>> = s /\ Subst(s, f) \o <<>> = Subst(s, f)
    BY <1>0, ConcatEmptySeq DEF Texts
  <2> QED BY <2>1, SubstEmpty, TextsAre
<1>2. ASSUME NEW r \in Texts, NEW e \in Nat, r \in T PROVE Append(r, e) \in T
  <2>1. s \o Append(r, e) = Append(s \o r, e) /\ s \o r \in Texts
    BY DEF Texts
  <2>2. Subst(Append(s \o r, e), f) = Subst(s \o r, f) \o f[e]
    BY <2>1, SubstAppend
  <2>3. Subst(Append(r, e), f) = Subst(r, f) \o f[e]
    BY SubstAppend
  <2>4. Subst(r, f) \in Texts /\ f[e] \in Texts
    BY SubstType, TextsAre
  <2>5. (Subst(s, f) \o Subst(r, f)) \o f[e] = Subst(s, f) \o (Subst(r, f) \o f[e])
    <3>1. ASSUME NEW u \in Texts, NEW v \in Texts, NEW w \in Texts
          PROVE  (u \o v) \o w = u \o (v \o w)
      <4>1. u \in Seq(Nat) /\ v \in Seq(Nat) /\ w \in Seq(Nat)
        BY DEF Texts
      <4> QED BY <4>1, ConcatAssociative
    <3> QED BY <1>0, <2>4, <3>1
  <2>6. Append(r, e) \in Texts
    BY TextsAre
  <2> QED BY <1>2, <2>1, <2>2, <2>3, <2>5, <2>6
<1>3. Texts \subseteq T
  <2> HIDE DEF T
  <2> QED BY <1>1, <1>2, TextInduction
<1> QED BY <1>3

\* A substitution may as well be made in the parts of a text.
SubstParts(ss, f) == [i \in DOMAIN ss |-> Subst(ss[i], f)]

LEMMA SubstFlatten ==
    ASSUME NEW ss \in Seq(Texts), NEW f \in Rules
    PROVE  /\ FlattenSeq(ss) \in Texts
           /\ SubstParts(ss, f) \in Seq(Texts)
           /\ Subst(FlattenSeq(ss), f) = FlattenSeq(SubstParts(ss, f))
<1> DEFINE T == {r \in Seq(Texts) : Subst(FlattenSeq(r), f) = FlattenSeq(SubstParts(r, f))}
<1>0. \A r \in Seq(Texts) :
         /\ FlattenSeq(r) \in Texts
         /\ SubstParts(r, f) \in Seq(Texts)
         /\ Len(SubstParts(r, f)) = Len(r) /\ Len(r) \in Nat
         /\ \A i \in 1..Len(r) : SubstParts(r, f)[i] = Subst(r[i], f)
  <2> SUFFICES ASSUME NEW r \in Seq(Texts)
               PROVE  /\ FlattenSeq(r) \in Texts
                      /\ SubstParts(r, f) \in Seq(Texts)
                      /\ Len(SubstParts(r, f)) = Len(r) /\ Len(r) \in Nat
                      /\ \A i \in 1..Len(r) : SubstParts(r, f)[i] = Subst(r[i], f)
    OBVIOUS
  <2>1. DOMAIN r = 1..Len(r) /\ Len(r) \in Nat
    BY LenProperties
  <2>2. \A i \in 1..Len(r) : r[i] \in Texts
    BY ElementOfSeq
  <2>3. \A i \in 1..Len(r) : Subst(r[i], f) \in Texts
    BY <2>2, SubstType
  <2>4. FlattenSeq(r) \in Texts
    BY FlattenType DEF Texts
  <2> QED BY <2>1, <2>3, <2>4 DEF SubstParts
<1>1. <<>> \in T
  <2>1. SubstParts(<<>>, f) = <<>>
    BY DEF SubstParts
  <2> QED BY <2>1, FlattenEmpty, SubstEmpty, EmptySeq
<1>2. ASSUME NEW r \in Seq(Texts), NEW e \in Texts, r \in T
      PROVE  Append(r, e) \in T
  <2>1. FlattenSeq(Append(r, e)) = FlattenSeq(r) \o e
    BY FlattenAppend DEF Texts
  <2>2. Subst(FlattenSeq(r) \o e, f) = Subst(FlattenSeq(r), f) \o Subst(e, f)
    BY <1>0, SubstConcat
  <2> DEFINE q == Append(r, e)
             a == SubstParts(r, f)
             b == SubstParts(q, f)
             d == Append(a, Subst(e, f))
  <2>3. /\ q \in Seq(Texts) /\ Len(q) = Len(r) + 1
        /\ q[Len(r) + 1] = e /\ \A i \in 1..Len(r) : q[i] = r[i]
    BY AppendProperties, LenProperties
  <2>4. Subst(e, f) \in Texts /\ a \in Seq(Texts) /\ Len(a) = Len(r) /\ Len(r) \in Nat
    BY <1>0, SubstType
  <2>5. /\ d \in Seq(Texts) /\ Len(d) = Len(r) + 1
        /\ d[Len(r) + 1] = Subst(e, f)
        /\ \A i \in 1..Len(r) : d[i] = a[i]
    <3> HIDE DEF a
    <3> QED BY <2>4, AppendProperties
  <2>6. b = d
    <3> HIDE DEF d, q
    <3>1. b \in Seq(Texts) /\ Len(b) = Len(r) + 1
      BY <1>0, <2>3
    <3>2. ASSUME NEW i \in 1..Len(r) + 1 PROVE b[i] = d[i]
      <4>0. b[i] = Subst(q[i], f)
        BY <1>0, <2>3
      <4>1. CASE i = Len(r) + 1
        BY <2>3, <2>5, <4>0, <4>1
      <4>2. CASE i # Len(r) + 1
        <5>1. i \in 1..Len(r)
          BY <2>4, <4>2
        <5>2. q[i] = r[i] /\ d[i] = a[i]
          BY <2>3, <2>5, <5>1
        <5>3. a[i] = Subst(r[i], f)
          BY <1>0, <5>1
        <5> QED BY <4>0, <5>2, <5>3
      <4> QED BY <4>1, <4>2
    <3> HIDE DEF b
    <3> QED BY <2>5, <3>1, <3>2, SeqEqual
  <2>7. FlattenSeq(d) = FlattenSeq(a) \o Subst(e, f)
    <3> HIDE DEF a
    <3> QED BY <2>4, FlattenAppend DEF Texts
  <2>8. Subst(FlattenSeq(q), f) = FlattenSeq(b)
    <3> HIDE DEF a, b, d
    <3> QED BY <1>2, <2>1, <2>2, <2>6, <2>7 DEF a
  <2> QED BY <2>3, <2>8
<1>3. Seq(Texts) \subseteq T
  <2> HIDE DEF T
  <2> QED BY <1>1, <1>2, SequenceInduction
<1> QED BY <1>0, <1>3

LEMMA SubstEqual ==
    ASSUME NEW s, NEW f, NEW g, \A t \in ToSet(s) : f[t] = g[t]
    PROVE  Subst(s, f) = Subst(s, g)
<1>1. \A i \in DOMAIN s : f[s[i]] = g[s[i]]
  BY DEF ToSet
<1>2. [i \in DOMAIN s |-> f[s[i]]] = [i \in DOMAIN s |-> g[s[i]]]
  BY <1>1, Zenon
<1> QED BY <1>2 DEF Subst

\* One substitution after another is a substitution.
Then(f, g) == [t \in Nat |-> Subst(f[t], g)]

LEMMA SubstSubst ==
    ASSUME NEW s \in Texts, NEW f \in Rules, NEW g \in Rules
    PROVE  /\ Then(f, g) \in Rules
           /\ Subst(Subst(s, f), g) = Subst(s, Then(f, g))
<1> DEFINE ss == Images(s, f)
<1>1. Then(f, g) \in Rules
  <2>1. \A t \in Nat : Subst(f[t], g) \in Texts
    BY TextsAre, SubstType
  <2> QED BY <2>1 DEF Then, Rules
<1>2. /\ ss \in Seq(Texts) /\ DOMAIN ss = 1..Len(s) /\ DOMAIN s = 1..Len(s)
      /\ \A i \in 1..Len(s) : ss[i] = f[s[i]] /\ s[i] \in Nat
  <2>1. DOMAIN s = 1..Len(s) /\ \A i \in 1..Len(s) : s[i] \in Nat
    BY LenProperties, ElementOfSeq DEF Texts
  <2> QED BY <2>1, ImagesAre, ImagesType
<1>3. Subst(Subst(s, f), g) = FlattenSeq(SubstParts(ss, g))
  <2>1. Subst(s, f) = FlattenSeq(ss)
    BY DEF Subst, Images
  <2> HIDE DEF ss
  <2> QED BY <1>2, <2>1, SubstFlatten
<1>4. SubstParts(ss, g) = [i \in DOMAIN s |-> Then(f, g)[s[i]]]
  <2> HIDE DEF ss
  <2>1. \A i \in 1..Len(s) : Subst(ss[i], g) = Then(f, g)[s[i]]
    BY <1>2 DEF Then
  <2> QED BY <1>2, <2>1 DEF SubstParts
<1> QED BY <1>1, <1>3, <1>4 DEF Subst

\* A text that no rule changes, and one of which nothing is left.
LEMMA SubstSame ==
    ASSUME NEW s \in Texts, NEW f, \A t \in ToSet(s) : f[t] = <<t>>
    PROVE  Subst(s, f) = s
<1> DEFINE g == [t \in Nat |-> <<t>>]
           T == {r \in Texts : Subst(r, g) = r}
<1>0. g \in Rules
  BY TextsAre DEF Rules
<1>1. <<>> \in T
  BY SubstEmpty, TextsAre
<1>2. ASSUME NEW r \in Texts, NEW e \in Nat, r \in T PROVE Append(r, e) \in T
  <2>1. Subst(Append(r, e), g) = Subst(r, g) \o g[e]
    <3> HIDE DEF g
    <3> QED BY <1>0, SubstAppend
  <2>2. Append(r, e) = r \o <<e>> /\ Append(r, e) \in Texts
    BY AppendIsConcat, TextsAre DEF Texts
  <2> QED BY <1>2, <2>1, <2>2
<1>3. Texts \subseteq T
  <2> HIDE DEF T
  <2> QED BY <1>1, <1>2, TextInduction
<1>4. Subst(s, g) = s
  BY <1>3
<1>5. ToSet(s) \subseteq Nat
  BY ToSetOf DEF Texts
<1>6. \A t \in ToSet(s) : f[t] = g[t]
  BY <1>5
<1> QED BY <1>4, <1>6, SubstEqual

LEMMA SubstNothing ==
    ASSUME NEW s \in Texts, NEW f, \A t \in ToSet(s) : f[t] = <<>>
    PROVE  Subst(s, f) = <<>>
<1> DEFINE g == [t \in Nat |-> <<>>]
           T == {r \in Texts : Subst(r, g) = <<>>}
<1>0. g \in Rules
  BY TextsAre DEF Rules
<1>1. <<>> \in T
  BY SubstEmpty, TextsAre
<1>2. ASSUME NEW r \in Texts, NEW e \in Nat, r \in T PROVE Append(r, e) \in T
  <2>1. Subst(Append(r, e), g) = Subst(r, g) \o g[e]
    <3> HIDE DEF g
    <3> QED BY <1>0, SubstAppend
  <2>2. <<>> \o <<>> = <<>> /\ Append(r, e) \in Texts
    BY TextsAre
  <2> QED BY <1>2, <2>1, <2>2
<1>3. Texts \subseteq T
  <2> HIDE DEF T
  <2> QED BY <1>1, <1>2, TextInduction
<1>4. Subst(s, g) = <<>>
  BY <1>3
<1>5. ToSet(s) \subseteq Nat
  BY ToSetOf DEF Texts
<1>6. \A t \in ToSet(s) : f[t] = g[t]
  BY <1>5
<1> QED BY <1>4, <1>6, SubstEqual

LEMMA ToSetSubst ==
    ASSUME NEW s \in Texts, NEW f \in Rules
    PROVE  ToSet(Subst(s, f)) = UNION {ToSet(f[t]) : t \in ToSet(s)}
<1>1. /\ Images(s, f) \in Seq(Seq(Nat)) /\ Len(Images(s, f)) = Len(s)
      /\ \A i \in 1..Len(s) : Images(s, f)[i] = f[s[i]]
  BY ImagesType, ImagesAre DEF Texts
<1>2. ToSet(FlattenSeq(Images(s, f))) = UNION {ToSet(Images(s, f)[i]) : i \in 1..Len(s)}
  BY <1>1, ToSetFlatten
<1>3. ToSet(s) = {s[i] : i \in 1..Len(s)}
  BY ToSetOf DEF Texts
<1>4. ASSUME NEW x PROVE x \in UNION {ToSet(Images(s, f)[i]) : i \in 1..Len(s)}
                         <=> x \in UNION {ToSet(f[t]) : t \in ToSet(s)}
  <2>1. x \in UNION {ToSet(Images(s, f)[i]) : i \in 1..Len(s)}
        <=> \E i \in 1..Len(s) : x \in ToSet(f[s[i]])
    BY <1>1
  <2>2. x \in UNION {ToSet(f[t]) : t \in ToSet(s)}
        <=> \E i \in 1..Len(s) : x \in ToSet(f[s[i]])
    BY <1>3
  <2> QED BY <2>1, <2>2
<1>5. Subst(s, f) = FlattenSeq(Images(s, f))
  BY DEF Subst, Images
<1> QED BY <1>2, <1>4, <1>5
-----------------------------------------------------------------------------
\* The bytes s stand in b behind the first k.
At(b, k, s) ==
    /\ k \in Nat /\ k + Len(s) <= Len(b)
    /\ \A i \in 1..Len(s) : b[k + i] = s[i]

LEMMA AtConcat ==
    ASSUME NEW s \in Texts, NEW t \in Texts
    PROVE  /\ s \o t \in Texts /\ Len(s \o t) = Len(s) + Len(t)
           /\ At(s \o t, Len(s), t)
           /\ \A k, r : Len(r) \in Nat /\ At(s, k, r) => At(s \o t, k, r)
<1> DEFINE u == s \o t
<1>1. /\ u \in Texts /\ Len(u) = Len(s) + Len(t)
      /\ Len(s) \in Nat /\ Len(t) \in Nat
      /\ \A i \in 1..Len(s) + Len(t) : u[i] = IF i <= Len(s) THEN s[i] ELSE t[i - Len(s)]
  BY ConcatProperties, LenProperties DEF Texts
<1> HIDE DEF u
<1>2. At(u, Len(s), t)
  <2>1. ASSUME NEW i \in 1..Len(t) PROVE u[Len(s) + i] = t[i]
    <3>1. /\ Len(s) + i \in 1..Len(s) + Len(t) /\ ~(Len(s) + i <= Len(s))
          /\ (Len(s) + i) - Len(s) = i
      BY <1>1
    <3> QED BY <1>1, <3>1
  <2> QED BY <1>1, <2>1 DEF At
<1>3. ASSUME NEW k, NEW r, Len(r) \in Nat, At(s, k, r) PROVE At(u, k, r)
  <2>1. ASSUME NEW i \in 1..Len(r) PROVE u[k + i] = r[i]
    <3>1. k + i \in 1..Len(s) /\ k + i \in 1..Len(s) + Len(t) /\ s[k + i] = r[i]
      BY <1>1, <1>3 DEF At
    <3> QED BY <1>1, <3>1
  <2> QED BY <1>1, <1>3, <2>1 DEF At
<1> QED BY <1>1, <1>2, <1>3 DEF u

\* d is the body b, or its beginning.
IsCut(d, b) ==
    /\ d \in Texts /\ b \in Texts /\ Len(d) \in Nat /\ Len(b) \in Nat /\ Len(d) <= Len(b)
    /\ \A i \in 1..Len(d) : d[i] = b[i]

LEMMA CutIs ==
    ASSUME NEW b \in Texts, NEW n \in 0..Len(b)
    PROVE  IsCut(SubSeq(b, 1, n), b) /\ Len(SubSeq(b, 1, n)) = n
<1>1. Len(b) \in Nat
  BY LenProperties DEF Texts
<1>2. \A i \in 1..n : b[i] \in Nat
  BY <1>1, ElementOfSeq DEF Texts
<1> DEFINE d == SubSeq(b, 1, n)
<1>3. d \in Texts /\ Len(d) = n /\ \A i \in 1..n : d[i] = b[i]
  BY <1>1, <1>2, SubSeqProperties DEF Texts
<1> HIDE DEF d
<1> QED BY <1>1, <1>3 DEF IsCut, d

LEMMA SliceIs ==
    ASSUME NEW b, NEW c, IsCut(c, b), NEW s \in Texts, NEW k, At(b, k, s)
    PROVE  /\ k + Len(s) <= Len(c) => SubSeq(c, k + 1, k + Len(s)) = s
           /\ IsPrefix(SubSeq(c, k + 1, Lesser(k + Len(s), Len(c))), s)
<1> DEFINE n == Len(c)
<1>1. /\ Len(b) \in Nat /\ c \in Texts /\ Len(c) = n /\ \A i \in 1..n : c[i] = b[i]
      /\ Len(s) \in Nat /\ k \in Nat /\ k + Len(s) <= Len(b) /\ n \in Nat
      /\ \A i \in 1..Len(s) : b[k + i] = s[i]
  BY LenProperties DEF At, Texts, IsCut
<1> HIDE DEF n
<1>2. ASSUME NEW m \in 0..Len(s), k + m <= n
      PROVE  SubSeq(c, k + 1, k + m) \in Texts /\ SubSeq(c, k + 1, k + m) = SubSeq(s, 1, m)
             /\ Len(SubSeq(s, 1, m)) = m
  <2> DEFINE u == SubSeq(c, k + 1, k + m)
             v == SubSeq(s, 1, m)
  <2>1. u \in Texts /\ Len(u) = m /\ \A i \in 1..m : u[i] = c[k + i]
    <3>1. /\ k + 1 \in Int /\ k + m \in Int
          /\ \A i \in k + 1..k + m : c[i] \in Nat
      <4>1. \A i \in k + 1..k + m : i \in 1..Len(c)
        BY <1>1, <1>2
      <4> QED BY <1>1, <1>2, <4>1, ElementOfSeq DEF Texts
    <3>2. /\ u \in Texts
          /\ Len(u) = (IF k + 1 <= k + m THEN (k + m) - (k + 1) + 1 ELSE 0)
          /\ \A i \in 1..(k + m) - (k + 1) + 1 : u[i] = c[(k + 1) + i - 1]
      BY <3>1, SubSeqProperties DEF Texts
    <3>3. /\ (k + m) - (k + 1) + 1 = m /\ (~(k + 1 <= k + m) => m = 0)
          /\ \A i \in 1..m : (k + 1) + i - 1 = k + i
      BY <1>1
    <3> HIDE DEF u
    <3> QED BY <3>2, <3>3
  <2>2. v \in Texts /\ Len(v) = m /\ \A i \in 1..m : v[i] = s[i]
    BY <1>1 DEF Texts
  <2> HIDE DEF u, v
  <2>3. ASSUME NEW i \in 1..m PROVE u[i] = v[i]
    <3>1. k + i \in 1..n /\ i \in 1..Len(s)
      BY <1>1, <1>2
    <3> QED BY <1>1, <2>1, <2>2, <3>1
  <2>4. u = v
    BY <2>1, <2>2, <2>3, SeqEqual DEF Texts
  <2> QED BY <2>1, <2>2, <2>4 DEF u, v
<1>3. SubSeq(s, 1, Len(s)) = s
  BY <1>1 DEF Texts
<1>4. ASSUME k + Len(s) <= n PROVE SubSeq(c, k + 1, k + Len(s)) = s
  BY <1>1, <1>2, <1>3, <1>4
<1>5. IsPrefix(SubSeq(c, k + 1, Lesser(k + Len(s), n)), s)
  <2>1. CASE k + Len(s) < n
    BY <1>1, <1>3, <1>4, <2>1 DEF IsPrefix, Lesser
  <2>2. CASE ~(k + Len(s) < n) /\ k <= n
    <3> DEFINE m == n - k
    <3>1. m \in 0..Len(s) /\ k + m = n
      BY <1>1, <2>2
    <3>2. SubSeq(c, k + 1, n) = SubSeq(s, 1, m) /\ Len(SubSeq(s, 1, m)) = m
      <4> HIDE DEF m
      <4>1. k + m <= n
        BY <1>1, <3>1
      <4> QED BY <1>2, <3>1, <4>1
    <3>3. SubSeq(SubSeq(s, 1, m), 1, m) = SubSeq(s, 1, m)
      <4> DEFINE v == SubSeq(s, 1, m)
      <4> HIDE DEF m
      <4>1. v \in Texts
        <5>1. k + m <= n
          BY <1>1, <3>1
        <5> QED BY <1>2, <3>1, <5>1
      <4> HIDE DEF v
      <4>2. SubSeq(v, 1, Len(v)) = v
        BY <4>1 DEF Texts
      <4> QED BY <3>2, <4>2 DEF v
    <3>4. Lesser(k + Len(s), n) = n
      BY <2>2 DEF Lesser
    <3> HIDE DEF m
    <3>5. m <= Len(s)
      BY <1>1, <3>1
    <3>6. ASSUME NEW w, w = SubSeq(s, 1, m), Len(w) = m PROVE IsPrefix(w, s)
      BY <3>3, <3>5, <3>6 DEF IsPrefix
    <3> QED BY <3>2, <3>4, <3>6
  <2>3. CASE ~(k <= n)
    <3>1. Lesser(k + Len(s), n) = n /\ n < k + 1
      BY <1>1, <2>3 DEF Lesser
    <3>2. SubSeq(c, k + 1, n) = <<>> /\ SubSeq(s, 1, 0) = <<>> /\ SubSeq(<<>>, 1, 0) = <<>>
      BY <1>1, <3>1, SubSeqEmpty DEF Texts
    <3> QED BY <1>1, <3>1, <3>2 DEF IsPrefix
  <2> QED BY <1>1, <2>1, <2>2, <2>3
<1> QED BY <1>4, <1>5 DEF n

-----------------------------------------------------------------------------
\* A reader that has come as far as `at`.
Reader(at, fields) == [at |-> at, state |-> "more", fields |-> fields]

\* What a read that needs the first n bytes of d gives.
Reads(c, d, n, fields) ==
    /\ n <= Len(d) => c = Reader(n, fields)
    /\ ~(n <= Len(d)) => c.state = "raised"

LEMMA ReaderGoesOn ==
    \A k, fs : \A n \in Nat : /\ Skip(Reader(k, fs), n) = Reader(k + n, fs)
                              /\ Reader(k, fs).state = "more"
                              /\ Reader(k, fs).at = k
                              /\ Reader(k, fs).fields = fs
BY DEF Reader, Skip

LEMMA ReaderStays ==
    \A c, b, n : c.state = "raised" =>
       Fixed(b, c, n) = c /\ Skip(c, n) = c /\ Cstring(b, c) = c
<1> SUFFICES ASSUME NEW c, NEW b, NEW n, c.state = "raised"
             PROVE  Fixed(b, c, n) = c /\ Skip(c, n) = c /\ Cstring(b, c) = c
  OBVIOUS
<1>1. c.state # "more"
  OBVIOUS
<1>2. Fixed(b, c, n) = c
  BY <1>1, Zenon DEF Fixed
<1>3. Skip(c, n) = c
  BY <1>1, Zenon DEF Skip
<1>4. Cstring(b, c) = c
  BY <1>1, Zenon DEF Cstring
<1> QED BY <1>2, <1>3, <1>4

LEMMA FixedIs ==
    ASSUME NEW b, NEW d, IsCut(d, b), NEW s \in Texts, NEW k, At(b, k, s), NEW fs,
           NEW n, n = Len(s)
    PROVE  Reads(Fixed(d, Reader(k, fs), n), d, k + n, Append(fs, s))
<1> DEFINE r == Reader(k, fs)
<1>1. Len(d) \in Nat /\ k \in Nat /\ n \in Nat
  BY LenProperties DEF At, Texts, IsCut
<1>2. r.state = "more" /\ r.at = k /\ r.fields = fs
  BY DEF Reader
<1>3. ASSUME k + n <= Len(d) PROVE Fixed(d, r, n) = Reader(k + n, Append(fs, s))
  <2>1. SubSeq(d, k + 1, k + n) = s
    BY <1>3, SliceIs
  <2>2. Fixed(d, r, n) = [r EXCEPT !.at = @ + n, !.fields = Append(@, s)]
    <3> HIDE DEF r
    <3>1. ~(r.at + n > Len(d))
      BY <1>1, <1>2, <1>3
    <3> QED BY <2>1, <1>2, <3>1, Zenon DEF Fixed
  <2> QED BY <2>2 DEF Reader
<1>4. ASSUME ~(k + n <= Len(d)) PROVE Fixed(d, r, n).state = "raised"
  BY <1>1, <1>4 DEF Fixed, Reader
<1> QED BY <1>3, <1>4 DEF Reads

LEMMA CstringIs ==
    ASSUME NEW b, NEW d, IsCut(d, b), NEW s \in Seq(Nat \ {0}), NEW k,
           At(b, k, Append(s, 0)), NEW fs
    PROVE  Reads(Cstring(d, Reader(k, fs)), d, k + Len(s) + 1, Append(fs, s))
<1> DEFINE n == Len(d)
           z == Append(s, 0)
           e == k + Len(s) + 1
           zeros == {i \in k + 1..Len(d) : d[i] = 0}
<1>1. /\ Len(b) \in Nat /\ Len(d) = n /\ n \in Nat /\ k \in Nat /\ Len(s) \in Nat
      /\ \A i \in 1..n : d[i] = b[i]
      /\ Len(z) = Len(s) + 1 /\ z[Len(s) + 1] = 0 /\ z \in Texts
      /\ \A i \in 1..Len(s) : z[i] = s[i] /\ s[i] \in Nat \ {0}
      /\ s \in Texts
  <2>1. s \in Texts
    BY DEF Texts
  <2>2. \A i \in 1..Len(s) : s[i] \in Nat \ {0}
    BY ElementOfSeq
  <2>3. z \in Texts /\ Len(z) = Len(s) + 1 /\ z[Len(s) + 1] = 0 /\ \A i \in 1..Len(s) : z[i] = s[i]
    BY <2>1, AppendProperties DEF Texts
  <2> QED BY <2>1, <2>2, <2>3, LenProperties DEF At, IsCut
<1> HIDE DEF n, z
<1>2. \A i \in 1..Len(s) + 1 : b[k + i] = z[i]
  BY <1>1 DEF At, z
<1>3. ASSUME NEW i \in k + 1..n, i < e PROVE d[i] # 0
  <2>1. i - k \in 1..Len(s) /\ i - k \in 1..Len(s) + 1 /\ k + (i - k) = i /\ i \in 1..n
    BY <1>1, <1>3
  <2>2. d[i] = z[i - k]
    BY <1>1, <1>2, <2>1
  <2> QED BY <1>1, <2>1, <2>2
<1>4. CASE e <= n
  <2>1. /\ e \in k + 1..n /\ e \in 1..n /\ e = k + (Len(s) + 1) /\ e \in Nat
        /\ Len(s) + 1 \in 1..Len(s) + 1
    BY <1>1, <1>4
  <2>2. d[e] = 0
    <3>1. d[e] = b[k + (Len(s) + 1)]
      BY <1>1, <2>1
    <3>2. b[k + (Len(s) + 1)] = 0
      BY <1>1, <1>2, <2>1
    <3> QED BY <3>1, <3>2
  <2>3. e \in zeros /\ \A j \in zeros : e <= j
    BY <1>1, <1>3, <2>1, <2>2
  <2>4. (CHOOSE i \in zeros : \A j \in zeros : i <= j) = e
    <3>0. zeros \subseteq Int /\ e \in Int
      BY <1>1, <2>1
    <3> HIDE DEF zeros, e
    <3>1. \A i \in zeros : (\A j \in zeros : i <= j) => i = e
      <4> SUFFICES ASSUME NEW i \in zeros, \A j \in zeros : i <= j PROVE i = e
        OBVIOUS
      <4>1. i <= e /\ e <= i
        BY <2>3
      <4> QED BY <3>0, <4>1
    <3> QED BY <2>3, <3>1
  <2>5. SubSeq(d, k + 1, e - 1) = s
    <3>1. At(b, k, s)
      <4>1. \A i \in 1..Len(s) : b[k + i] = s[i]
        BY <1>1, <1>2
      <4>2. k + Len(s) <= Len(b)
        BY <1>1, <1>4 DEF IsCut, n
      <4> QED BY <1>1, <4>1, <4>2 DEF At
    <3>2. e - 1 = k + Len(s) /\ k + Len(s) <= n
      BY <1>1, <1>4
    <3>3. SubSeq(d, k + 1, k + Len(s)) = s
      BY <1>1, <3>1, <3>2, SliceIs DEF n
    <3> QED BY <3>2, <3>3
  <2>6. Cstring(d, Reader(k, fs)) = Reader(e, Append(fs, s))
    <3>1. zeros # {}
      BY <2>3
    <3> QED BY <2>4, <2>5, <3>1 DEF Cstring, Reader
  <2> QED BY <1>4, <2>6 DEF n, Reads
<1>5. CASE ~(e <= n)
  <2>1. zeros = {}
    BY <1>1, <1>3, <1>5
  <2>2. Cstring(d, Reader(k, fs)).state = "raised"
    BY <2>1 DEF Cstring, Reader
  <2> QED BY <1>5, <2>2 DEF n, Reads
<1> QED BY <1>4, <1>5

-----------------------------------------------------------------------------
LEMMA AtParts ==
    ASSUME NEW b \in Texts, NEW s \in Texts, NEW e \in Nat, NEW k, At(b, k, Append(s, e))
    PROVE  At(b, k, s) /\ b[k + Len(s) + 1] = e
<1>1. /\ Len(Append(s, e)) = Len(s) + 1 /\ Append(s, e)[Len(s) + 1] = e
      /\ \A i \in 1..Len(s) : Append(s, e)[i] = s[i]
      /\ Len(s) \in Nat
  BY AppendProperties, LenProperties DEF Texts
<1> DEFINE t == Append(s, e)
<1> HIDE DEF t
<1>2. /\ k \in Nat /\ k + (Len(s) + 1) <= Len(b)
      /\ \A i \in 1..Len(s) + 1 : b[k + i] = t[i]
  BY <1>1 DEF At, t
<1>3. k + Len(s) <= Len(b)
  <2>1. Len(b) \in Nat
    BY LenProperties DEF Texts
  <2> QED BY <1>1, <1>2, <2>1
<1> QED BY <1>1, <1>2, <1>3 DEF At, t

\* The channel's part of a message.
InChannel(c) == IF c.head[1] = Channel THEN Append(c.channel, 0) ELSE <<>>

LEMMA ChatParts ==
    ASSUME NEW c \in Chats
    PROVE  /\ c.head \in Texts /\ Len(c.head) = 13
           /\ Zero(4) \in Texts /\ Len(Zero(4)) = 4 /\ Zero(8) \in Texts /\ Len(Zero(8)) = 8
           /\ InChannel(c) \in Texts /\ c.channel \in Texts
           /\ \A n \in Nat : Uint32(n) \in Texts /\ Len(Uint32(n)) = 4
           /\ c.text \in Texts /\ Len(c.text) \in Nat /\ <<0>> \in Texts /\ Len(<<0>>) = 1
           /\ Append(c.text, 0) \in Texts /\ Len(Append(c.text, 0)) = Len(c.text) + 1
           /\ c.achievement \in Texts
           /\ Len(c.achievement) = (IF c.head[1] = Achievement THEN 4 ELSE 0)
           /\ Len(InChannel(c)) \in Nat
           /\ c.head[1] = Channel => Len(InChannel(c)) = Len(c.channel) + 1
           /\ c.head[1] # Channel => Len(InChannel(c)) = 0
<1>1. /\ c.head \in Seq(Nat) /\ Len(c.head) = 13 /\ c.text \in Seq(Nat)
      /\ c.channel \in Seq(Nat \ {0}) /\ c.achievement \in Seq(Nat)
      /\ Len(c.achievement) = (IF c.head[1] = Achievement THEN 4 ELSE 0)
  BY CodecAssumption DEF Strings
<1>2. c.channel \in Texts /\ c.head \in Texts /\ c.text \in Texts /\ c.achievement \in Texts
  BY <1>1 DEF Texts
<1>3. /\ Append(c.channel, 0) \in Texts /\ Len(Append(c.channel, 0)) = Len(c.channel) + 1
      /\ Append(c.text, 0) \in Texts /\ Len(Append(c.text, 0)) = Len(c.text) + 1
      /\ Len(c.channel) \in Nat /\ Len(c.text) \in Nat
  BY <1>2, AppendProperties, LenProperties DEF Texts
<1>4. InChannel(c) \in Texts /\ Len(InChannel(c)) \in Nat
  BY <1>3, TextsAre, LenProperties DEF InChannel
<1>5. Zero(4) \in Texts /\ Len(Zero(4)) = 4 /\ Zero(8) \in Texts /\ Len(Zero(8)) = 8
  BY DEF Zero, Texts
<1>6. \A n \in Nat : Uint32(n) \in Texts /\ Len(Uint32(n)) = 4
  BY DEF Uint32, Texts
<1>7. <<0>> \in Texts /\ Len(<<0>>) = 1
  BY DEF Texts
<1>8. /\ c.head[1] = Channel => Len(InChannel(c)) = Len(c.channel) + 1
      /\ c.head[1] # Channel => Len(InChannel(c)) = 0
  BY <1>3 DEF InChannel
<1> QED BY <1>1, <1>2, <1>3, <1>4, <1>5, <1>6, <1>7, <1>8

\* u is s and t behind it.
Joined(s, t, u) ==
    /\ u \in Texts /\ Len(u) = Len(s) + Len(t)
    /\ At(u, Len(s), t)
    /\ \A k : \A r \in Texts : At(s, k, r) => At(u, k, r)

LEMMA Joining == \A s, t \in Texts : s \o t \in Texts /\ Joined(s, t, s \o t)
<1> SUFFICES ASSUME NEW s \in Texts, NEW t \in Texts
             PROVE  s \o t \in Texts /\ Joined(s, t, s \o t)
  OBVIOUS
<1>1. \A r \in Texts : Len(r) \in Nat
  BY LenProperties DEF Texts
<1>2. /\ s \o t \in Texts /\ Len(s \o t) = Len(s) + Len(t) /\ At(s \o t, Len(s), t)
      /\ \A k, r : Len(r) \in Nat /\ At(s, k, r) => At(s \o t, k, r)
  BY AtConcat
<1> DEFINE u == s \o t
<1> HIDE DEF u
<1> QED BY <1>1, <1>2 DEF Joined, u

SevenParts(p1, p2, p3, p4, p5, p6, p7, b) ==
    /\ b \in Texts
    /\ Len(b) = Len(p1) + Len(p2) + Len(p3) + Len(p4) + Len(p5) + Len(p6) + Len(p7)
    /\ At(b, 0, p1) /\ At(b, Len(p1), p2)
    /\ At(b, Len(p1) + Len(p2), p3)
    /\ At(b, Len(p1) + Len(p2) + Len(p3), p4)
    /\ At(b, Len(p1) + Len(p2) + Len(p3) + Len(p4), p5)
    /\ At(b, Len(p1) + Len(p2) + Len(p3) + Len(p4) + Len(p5), p6)
    /\ At(b, Len(p1) + Len(p2) + Len(p3) + Len(p4) + Len(p5) + Len(p6), p7)

LEMMA SevenPartsJoined ==
    \A p1, p2, p3, p4, p5, p6, p7 \in Texts :
       SevenParts(p1, p2, p3, p4, p5, p6, p7, p1 \o p2 \o p3 \o p4 \o p5 \o p6 \o p7)
<1> SUFFICES ASSUME NEW p1 \in Texts, NEW p2 \in Texts, NEW p3 \in Texts, NEW p4 \in Texts,
                    NEW p5 \in Texts, NEW p6 \in Texts, NEW p7 \in Texts
             PROVE  SevenParts(p1, p2, p3, p4, p5, p6, p7,
                               p1 \o p2 \o p3 \o p4 \o p5 \o p6 \o p7)
  OBVIOUS
<1> DEFINE q2 == p1 \o p2
           q3 == q2 \o p3
           q4 == q3 \o p4
           q5 == q4 \o p5
           q6 == q5 \o p6
           q7 == q6 \o p7
<1>1. At(p1, 0, p1)
  BY LenProperties DEF At, Texts
<1>2. q2 \in Texts /\ Joined(p1, p2, q2)
  BY Joining
<1> HIDE DEF q2
<1>3. q3 \in Texts /\ Joined(q2, p3, q3)
  BY <1>2, Joining
<1> HIDE DEF q3
<1>4. q4 \in Texts /\ Joined(q3, p4, q4)
  BY <1>3, Joining
<1> HIDE DEF q4
<1>5. q5 \in Texts /\ Joined(q4, p5, q5)
  BY <1>4, Joining
<1> HIDE DEF q5
<1>6. q6 \in Texts /\ Joined(q5, p6, q6)
  BY <1>5, Joining
<1> HIDE DEF q6
<1>7. q7 \in Texts /\ Joined(q6, p7, q7)
  BY <1>6, Joining
<1>8. q7 = p1 \o p2 \o p3 \o p4 \o p5 \o p6 \o p7
  BY DEF q2, q3, q4, q5, q6
<1> HIDE DEF q7
<1>9. \A r \in Texts : Len(r) \in Nat
  BY LenProperties DEF Texts
<1> QED BY <1>1, <1>2, <1>3, <1>4, <1>5, <1>6, <1>7, <1>8, <1>9 DEF Joined, SevenParts

LEMMA ChatLayout ==
    ASSUME NEW c \in Chats
    PROVE  LET b == ChatBody(c)
               k == Len(InChannel(c))
               n == Len(c.text)
           IN  /\ b \in Texts /\ Len(b) = 31 + k + n + Len(c.achievement)
               /\ At(b, 0, c.head) /\ At(b, 17, InChannel(c))
               /\ At(b, 25 + k, Uint32(n + 1)) /\ At(b, 29 + k, c.text)
               /\ At(b, 31 + k + n, c.achievement)
<1> DEFINE k == Len(InChannel(c))
           n == Len(c.text)
           p == Zero(4) \o InChannel(c)
           b == c.head \o Zero(4) \o InChannel(c) \o Zero(8) \o Uint32(n + 1)
                \o Append(c.text, 0) \o <<0>>
           d == b \o c.achievement
<1>0. /\ c.head \in Texts /\ Len(c.head) = 13
      /\ Zero(4) \in Texts /\ Len(Zero(4)) = 4 /\ Zero(8) \in Texts /\ Len(Zero(8)) = 8
      /\ InChannel(c) \in Texts /\ k \in Nat
      /\ Uint32(n + 1) \in Texts /\ Len(Uint32(n + 1)) = 4
      /\ c.text \in Texts /\ n \in Nat /\ <<0>> \in Texts /\ Len(<<0>>) = 1
      /\ Append(c.text, 0) \in Texts /\ Len(Append(c.text, 0)) = n + 1
      /\ c.achievement \in Texts
  BY ChatParts
<1>1. /\ b \in Texts
      /\ Len(b) = 13 + 4 + k + 8 + 4 + (n + 1) + 1
      /\ At(b, 0, c.head)
      /\ At(b, 13 + 4, InChannel(c))
      /\ At(b, 13 + 4 + k + 8, Uint32(n + 1))
      /\ At(b, 13 + 4 + k + 8 + 4, Append(c.text, 0))
  <2> DEFINE size == Uint32(n + 1)
             text == Append(c.text, 0)
  <2>1. /\ b \in Texts
        /\ Len(b) = Len(c.head) + Len(Zero(4)) + Len(InChannel(c)) + Len(Zero(8)) + Len(size)
                    + Len(text) + Len(<<0>>)
        /\ At(b, 0, c.head)
        /\ At(b, Len(c.head) + Len(Zero(4)), InChannel(c))
        /\ At(b, Len(c.head) + Len(Zero(4)) + Len(InChannel(c)) + Len(Zero(8)), size)
        /\ At(b, Len(c.head) + Len(Zero(4)) + Len(InChannel(c)) + Len(Zero(8)) + Len(size), text)
    <3> DEFINE head == c.head
               z4 == Zero(4)
               channel == InChannel(c)
               z8 == Zero(8)
               last == <<0>>
    <3>1. /\ size \in Texts /\ text \in Texts /\ head \in Texts /\ z4 \in Texts
          /\ channel \in Texts /\ z8 \in Texts /\ last \in Texts
      BY <1>0
    <3>2. b = head \o z4 \o channel \o z8 \o size \o text \o last
      OBVIOUS
    <3> HIDE DEF size, text, head, z4, channel, z8, last, b
    <3>3. SevenParts(head, z4, channel, z8, size, text, last, b)
      BY <3>1, <3>2, SevenPartsJoined
    <3> QED BY <3>3 DEF SevenParts, size, text, head, z4, channel, z8, last
  <2> HIDE DEF b
  <2> QED BY <1>0, <2>1
<1> HIDE DEF b
<1>2. d \in Texts /\ Joined(b, c.achievement, d)
  BY <1>0, <1>1, Joining
<1>3. d = ChatBody(c)
  BY DEF ChatBody, InChannel, b
<1> HIDE DEF d, k, n
<1>4. /\ Len(b) = 31 + k + n /\ 13 + 4 = 17 /\ 13 + 4 + k + 8 = 25 + k
      /\ 13 + 4 + k + 8 + 4 = 29 + k
  <2>1. k \in Nat /\ n \in Nat
    BY <1>0 DEF k, n
  <2>2. Len(b) = 13 + 4 + k + 8 + 4 + (n + 1) + 1
    BY <1>1 DEF k, n
  <2> QED BY <2>1, <2>2
<1>5. At(d, 29 + k, c.text)
  <2>1. At(d, 29 + k, Append(c.text, 0))
    BY <1>0, <1>1, <1>2, <1>4 DEF k, n, Joined
  <2> QED BY <1>0, <1>2, <2>1, AtParts
<1> QED BY <1>0, <1>1, <1>2, <1>3, <1>4, <1>5 DEF k, n, Joined

\* The fields of a message before its size.
Heading(c) == IF c.head[1] = Channel THEN <<c.head, c.channel>> ELSE <<c.head>>

LEMMA HeadingIs ==
    ASSUME NEW c \in Chats, NEW s \in Texts
    PROVE  /\ Heading(c)[1] = c.head /\ Last(Append(Heading(c), s)) = s
           /\ c.head[1] = Channel => Heading(c)[2] = c.channel
<1>1. /\ c.head \in Texts /\ c.channel \in Texts
  BY ChatParts
<1>2. CASE c.head[1] = Channel
  BY <1>1, <1>2 DEF Heading, Last
<1>3. CASE c.head[1] # Channel
  BY <1>1, <1>3 DEF Heading, Last
<1> QED BY <1>2, <1>3

LEMMA NumberIs == \A n \in Nat : Number(Uint32(n)) = n
BY DEF Number, Uint32

LEMMA ChatHeadRead ==
    ASSUME NEW c \in Chats, NEW d, IsCut(d, ChatBody(c))
    PROVE  LET k == 17 + Len(InChannel(c))
           IN  \/ ChatHead(d).state = "raised" /\ Len(d) < k
               \/ ChatHead(d) = Reader(k, Heading(c)) /\ Len(d) >= 13
<1> DEFINE b == ChatBody(c)
           sender == Skip(Fixed(d, Reader(0, <<>>), 13), 4)
<1>1. /\ b \in Texts /\ At(b, 0, c.head) /\ At(b, 17, InChannel(c))
  BY ChatLayout
<1>2. c.head \in Texts /\ Len(c.head) = 13 /\ c.channel \in Texts /\ c.channel \in Seq(Nat \ {0})
  BY ChatParts, CodecAssumption DEF Strings
<1>3. ChatHead(d) = IF sender.state = "more" /\ d[1] = Channel THEN Cstring(d, sender) ELSE sender
  BY DEF ChatHead, Cursor, Reader
<1> HIDE DEF b
<1>4. IsCut(d, b) /\ Len(d) \in Nat
  BY DEF b, IsCut
<1>5. CASE ~(13 <= Len(d))
  <2>1. Fixed(d, Reader(0, <<>>), 13).state = "raised"
    <3>1. Reads(Fixed(d, Reader(0, <<>>), 13), d, 0 + 13, Append(<<>>, c.head))
      BY <1>1, <1>2, <1>4, FixedIs
    <3> QED BY <1>5, <3>1 DEF Reads
  <2>2. sender.state = "raised"
    BY <2>1, ReaderStays
  <2>3. ChatHead(d).state = "raised"
    BY <1>3, <2>2
  <2> QED BY <1>4, <1>5, <2>3, ChatParts
<1>6. CASE 13 <= Len(d)
  <2>1. Fixed(d, Reader(0, <<>>), 13) = Reader(13, <<c.head>>)
    <3>1. Append(<<>>, c.head) = <<c.head>> /\ 0 + 13 = 13
      OBVIOUS
    <3>2. Reads(Fixed(d, Reader(0, <<>>), 13), d, 0 + 13, Append(<<>>, c.head))
      BY <1>1, <1>2, <1>4, FixedIs
    <3> QED BY <1>6, <3>1, <3>2 DEF Reads
  <2>2. sender = Reader(17, <<c.head>>)
    BY <2>1, ReaderGoesOn
  <2>3. d[1] = c.head[1]
    <3>1. 1 \in 1..13 /\ 1 \in 1..Len(d)
      BY <1>4, <1>6
    <3>2. d[1] = b[1]
      BY <1>4, <3>1 DEF IsCut
    <3>3. b[0 + 1] = c.head[1]
      BY <1>1, <1>2, <3>1 DEF At
    <3> QED BY <3>2, <3>3
  <2>4. CASE c.head[1] = Channel
    <3>1. At(b, 17, Append(c.channel, 0))
      BY <1>1, <2>4 DEF InChannel
    <3>2. ChatHead(d) = Cstring(d, Reader(17, <<c.head>>))
      BY <1>3, <2>2, <2>3, <2>4, ReaderGoesOn
    <3>3. Len(c.channel) \in Nat
      BY <1>2, LenProperties DEF Texts
    <3>4. Len(InChannel(c)) = Len(c.channel) + 1 /\ Heading(c) = <<c.head, c.channel>>
      BY <2>4, ChatParts DEF Heading
    <3>5. Append(<<c.head>>, c.channel) = <<c.head, c.channel>>
      <4>1. ASSUME NEW x \in Texts, NEW y \in Texts PROVE Append(<<x>>, y) = <<x, y>>
        <5> DEFINE u == Append(<<x>>, y)
                   v == <<x, y>>
        <5>1. <<x>> \in Seq(Texts) /\ Len(<<x>>) = 1 /\ <<x>>[1] = x
          OBVIOUS
        <5>2. u \in Seq(Texts) /\ Len(u) = 2 /\ u[1] = x /\ u[2] = y
          BY <5>1, AppendProperties
        <5>3. v \in Seq(Texts) /\ Len(v) = 2 /\ v[1] = x /\ v[2] = y
          OBVIOUS
        <5> HIDE DEF u, v
        <5>4. \A i \in 1..2 : i = 1 \/ i = 2
          OBVIOUS
        <5>5. u = v
          BY <5>2, <5>3, <5>4, SeqEqual
        <5> QED BY <5>5 DEF u, v
      <4> QED BY <1>2, <4>1
    <3> DEFINE e == 17 + Len(c.channel) + 1
    <3>6. /\ e <= Len(d) => ChatHead(d) = Reader(e, <<c.head, c.channel>>)
          /\ ~(e <= Len(d)) => ChatHead(d).state = "raised"
      <4>1. Reads(Cstring(d, Reader(17, <<c.head>>)), d, e, Append(<<c.head>>, c.channel))
        BY <1>2, <1>4, <3>1, CstringIs
      <4> QED BY <3>2, <3>5, <4>1 DEF Reads
    <3>7. e = 17 + Len(InChannel(c))
      BY <3>3, <3>4
    <3> QED BY <1>4, <1>6, <3>3, <3>4, <3>6, <3>7
  <2>5. CASE c.head[1] # Channel
    <3>1. ChatHead(d) = Reader(17, <<c.head>>)
      BY <1>3, <2>2, <2>3, <2>5
    <3>2. Len(InChannel(c)) = 0 /\ Heading(c) = <<c.head>>
      BY <2>5, ChatParts DEF Heading
    <3> QED BY <1>6, <3>1, <3>2
  <2> QED BY <2>4, <2>5
<1> QED BY <1>5, <1>6

LEMMA ChatSizeRead ==
    ASSUME NEW c \in Chats, NEW d, IsCut(d, ChatBody(c))
    PROVE  LET m == Len(InChannel(c))
               bytes == Uint32(Len(c.text) + 1)
               size == Fixed(d, Skip(ChatHead(d), 8), 4)
           IN  /\ Len(d) < 29 + m => size.state = "raised"
               /\ ~(Len(d) < 29 + m) =>
                     size = Reader(29 + m, Append(Heading(c), bytes))
<1> DEFINE m == Len(InChannel(c))
           b == ChatBody(c)
           bytes == Uint32(Len(c.text) + 1)
           fs == Heading(c)
           head == ChatHead(d)
<1>1. At(b, 25 + m, bytes)
  BY ChatLayout
<1>2. m \in Nat /\ bytes \in Texts /\ 4 = Len(bytes)
  BY ChatParts
<1>3. IsCut(d, b) /\ Len(d) \in Nat
  BY DEF IsCut
<1>4. \/ head.state = "raised" /\ Len(d) < 17 + m
      \/ head = Reader(17 + m, fs) /\ Len(d) >= 13
  BY ChatHeadRead
<1> HIDE DEF m, b, bytes, fs, head
<1>5. CASE head.state = "raised" /\ Len(d) < 17 + m
  <2>1. Fixed(d, Skip(head, 8), 4).state = "raised"
    BY <1>5, ReaderStays
  <2>2. Len(d) < 29 + m
    BY <1>2, <1>3, <1>5
  <2> QED BY <2>1, <2>2 DEF m, b, bytes, fs, head
<1>6. CASE head = Reader(17 + m, fs)
  <2>1. Skip(head, 8) = Reader((17 + m) + 8, fs)
    BY <1>6, ReaderGoesOn
  <2>2. (17 + m) + 8 = 25 + m /\ (25 + m) + 4 = 29 + m
    BY <1>2
  <2> DEFINE r == Fixed(d, Reader(25 + m, fs), 4)
  <2>3. Reads(r, d, (25 + m) + 4, Append(fs, bytes))
    BY <1>1, <1>2, <1>3, FixedIs
  <2>4. r = Fixed(d, Skip(head, 8), 4)
    BY <2>1, <2>2
  <2> HIDE DEF r
  <2>5. (25 + m) + 4 <= Len(d) <=> ~(Len(d) < 29 + m)
    BY <1>2, <1>3
  <2> QED BY <2>2, <2>3, <2>4, <2>5 DEF m, b, bytes, fs, head, Reads
<1> QED BY <1>4, <1>5, <1>6

\* A message is decoded if it reaches its size, to what is there of its text;
\* the rest is what the server said.
LEMMA ChatDecoded ==
    ASSUME NEW c \in Chats, NEW d, IsCut(d, ChatBody(c))
    PROVE  LET r == decode_messagechat(d)
               k == 29 + Len(InChannel(c))
           IN  \/ r = Raised /\ Len(d) < k
               \/ \E earned \in {<<>>, c.achievement} :
                     /\ r = Gave([head |-> c.head, channel |-> c.channel,
                                  text |-> SubSeq(d, k + 1, Lesser(k + Len(c.text), Len(d))),
                                  achievement |-> earned])
                     /\ Len(d) = Len(ChatBody(c)) => earned = c.achievement
<1> DEFINE b == ChatBody(c)
           t == Len(c.text)
           m == Len(InChannel(c))
           k == 29 + m
           bytes == Uint32(t + 1)
           fs == Append(Heading(c), bytes)
           size == Fixed(d, Skip(ChatHead(d), 8), 4)
           length == Number(Last(size.fields))
           text == SubSeq(d, size.at + 1, Lesser(size.at + length - 1, Len(d)))
           rest == Skip(size, length + 1)
           earned == IF d[1] = Achievement /\ rest.at + 4 <= Len(d)
                     THEN SubSeq(d, rest.at + 1, rest.at + 4) ELSE <<>>
           value == [head |-> ChatHead(d).fields[1],
                     channel |-> IF d[1] = Channel THEN ChatHead(d).fields[2] ELSE <<>>,
                     text |-> text, achievement |-> earned]
<1>1. decode_messagechat(d) = Result(size, value)
  BY Zenon DEF decode_messagechat
<1>2. /\ At(b, 0, c.head) /\ At(b, 31 + m + t, c.achievement)
      /\ Len(b) = 31 + m + t + Len(c.achievement)
  BY ChatLayout
<1>3. /\ Len(c.head) = 13 /\ t \in Nat /\ m \in Nat /\ bytes \in Texts
      /\ c.achievement \in Texts
      /\ Len(c.achievement) = (IF c.head[1] = Achievement THEN 4 ELSE 0)
  BY ChatParts
<1>4. IsCut(d, b) /\ Len(d) \in Nat /\ k \in Nat
  BY <1>3 DEF IsCut
<1>5. /\ Len(d) < k => size.state = "raised"
      /\ ~(Len(d) < k) => size = Reader(k, fs)
  BY ChatSizeRead
<1>6. k = 29 + m
  OBVIOUS
<1> HIDE DEF value, earned, rest, text, length, size, b, k
<1>7. CASE Len(d) < k
  BY <1>1, <1>5, <1>7 DEF Result, k
<1>8. CASE ~(Len(d) < k)
  <2>1. size.at = k /\ size.state = "more" /\ size.fields = fs
    BY <1>5, <1>8 DEF Reader
  <2>2. /\ ChatHead(d).fields[1] = c.head /\ Last(size.fields) = bytes
        /\ c.head[1] = Channel => ChatHead(d).fields[2] = c.channel
    <3>1. ChatHead(d) = Reader(17 + m, Heading(c))
      <4>1. ~(Len(d) < 17 + m)
        BY <1>3, <1>4, <1>6, <1>8
      <4> QED BY <4>1, ChatHeadRead
    <3>2. ChatHead(d).fields = Heading(c)
      BY <3>1 DEF Reader
    <3> QED BY <1>3, <2>1, <3>2, HeadingIs
  <2>3. length = t + 1
    BY <1>3, <2>2, NumberIs DEF length
  <2>4. d[1] = c.head[1]
    <3>1. 1 \in 1..13 /\ 1 \in 1..Len(d) /\ 0 + 1 = 1
      BY <1>3, <1>4, <1>6, <1>8
    <3>2. b[0 + 1] = c.head[1]
      BY <1>2, <1>3, <3>1 DEF At
    <3> QED BY <1>4, <3>1, <3>2 DEF IsCut
  <2>5. text = SubSeq(d, k + 1, Lesser(k + t, Len(d)))
    <3>1. k + length - 1 = k + t
      BY <1>3, <1>4, <2>3
    <3> QED BY <2>1, <3>1 DEF text
  <2>6. rest.at = 31 + m + t
    <3>1. t + 2 \in Nat /\ length + 1 = t + 2 /\ k + (t + 2) = 31 + m + t
      <4>1. t \in Nat /\ m \in Nat /\ k = 29 + m /\ length = t + 1
        BY <1>3, <1>6, <2>3
      <4> HIDE DEF t, m
      <4> QED BY <4>1
    <3> DEFINE far == t + 2
    <3> HIDE DEF far
    <3>2. Skip(size, far) = Reader(k + far, fs)
      BY <1>5, <1>8, <3>1, ReaderGoesOn DEF far
    <3>3. rest = Reader(k + far, fs)
      BY <3>1, <3>2 DEF rest, far
    <3>4. rest.at = k + far
      BY <3>3 DEF Reader
    <3> QED BY <3>1, <3>4 DEF far
  <2>7. /\ earned \in {<<>>, c.achievement}
        /\ Len(d) = Len(b) => earned = c.achievement
    <3> DEFINE e == 31 + m + t
    <3>1. earned = IF c.head[1] = Achievement /\ e + 4 <= Len(d) THEN SubSeq(d, e + 1, e + 4) ELSE <<>>
      <4> HIDE DEF e
      <4>1. rest.at = e
        BY <2>6 DEF e
      <4> QED BY <2>4, <4>1 DEF earned
    <3>2. e \in Nat /\ At(b, e, c.achievement) /\ Len(b) = e + Len(c.achievement)
      <4>1. t \in Nat /\ m \in Nat
        BY <1>3
      <4>2. e \in Nat
        <5> HIDE DEF t, m
        <5> QED BY <4>1
      <4>3. Len(b) = e + Len(c.achievement)
        BY <1>2
      <4>4. At(b, e, c.achievement)
        BY <1>2
      <4> QED BY <4>2, <4>3, <4>4
    <3> HIDE DEF e
    <3>3. CASE c.head[1] = Achievement /\ e + 4 <= Len(d)
      <4>1. SubSeq(d, e + 1, e + 4) = c.achievement
        BY <1>3, <1>4, <3>2, <3>3, SliceIs
      <4> QED BY <3>1, <3>3, <4>1
    <3>4. CASE ~(c.head[1] = Achievement /\ e + 4 <= Len(d))
      <4>1. earned = <<>>
        BY <3>1, <3>4
      <4>2. ASSUME Len(d) = Len(b) PROVE c.achievement = <<>>
        <5>1. Len(c.achievement) = 0
          BY <1>3, <1>4, <3>2, <3>4, <4>2
        <5> QED BY <1>3, <5>1, EmptySeq DEF Texts
      <4> QED BY <4>1, <4>2
    <3> QED BY <3>3, <3>4
  <2>8. c.head[1] # Channel => c.channel = <<>>
    BY CodecAssumption
  <2>9. value = [head |-> c.head, channel |-> c.channel,
                 text |-> SubSeq(d, k + 1, Lesser(k + t, Len(d))), achievement |-> earned]
    BY <2>2, <2>4, <2>5, <2>8 DEF value
  <2>10. decode_messagechat(d) = Gave(value)
    BY <1>1, <2>1 DEF Result
  <2> QED BY <2>7, <2>9, <2>10 DEF b, k
<1> QED BY <1>7, <1>8

-----------------------------------------------------------------------------
\* Every set of bytes of a guid has its mask.
LEMMA MaskExists ==
    \A used \in SUBSET (0..7) : \E mask \in 0..255 : Bits(mask) = used
<1> SUFFICES ASSUME NEW used \in SUBSET (0..7)
             PROVE  \E mask \in 0..255 : Bits(mask) = used
  OBVIOUS
<1> DEFINE x(i) == IF i \in used THEN 1 ELSE 0
           mask == x(0) + 2 * x(1) + 4 * x(2) + 8 * x(3) + 16 * x(4) + 32 * x(5)
                   + 64 * x(6) + 128 * x(7)
<1>1. \A i \in 0..7 : x(i) \in 0..1 /\ (i \in used <=> x(i) = 1)
  OBVIOUS
<1> HIDE DEF x
<1>2. /\ x(0) \in 0..1 /\ x(1) \in 0..1 /\ x(2) \in 0..1 /\ x(3) \in 0..1
      /\ x(4) \in 0..1 /\ x(5) \in 0..1 /\ x(6) \in 0..1 /\ x(7) \in 0..1
  BY <1>1
<1>3. mask \in 0..255
  BY <1>2
<1>4. ASSUME NEW i \in 0..7 PROVE (mask \div Bit[i + 1]) % 2 = x(i)
  <2>1. CASE i = 0
    BY <1>2, <2>1 DEF Bit
  <2>2. CASE i = 1
    BY <1>2, <2>2 DEF Bit
  <2>3. CASE i = 2
    BY <1>2, <2>3 DEF Bit
  <2>4. CASE i = 3
    BY <1>2, <2>4 DEF Bit
  <2>5. CASE i = 4
    BY <1>2, <2>5 DEF Bit
  <2>6. CASE i = 5
    BY <1>2, <2>6 DEF Bit
  <2>7. CASE i = 6
    BY <1>2, <2>7 DEF Bit
  <2>8. CASE i = 7
    BY <1>2, <2>8 DEF Bit
  <2> QED BY <2>1, <2>2, <2>3, <2>4, <2>5, <2>6, <2>7, <2>8
<1> HIDE DEF mask
<1>5. Bits(mask) = used
  BY <1>1, <1>4 DEF Bits
<1> QED BY <1>3, <1>5

Guids == [0..7 -> 0..255]

\* The bytes of a guid that a packed one has, and how many stand before the i-th.
Used(g) == {i \in 0..7 : g[i] # 0}
Before(g, i) == Cardinality({j \in Used(g) : j < i})

\* The packed guid without its mask.
Packed(g) == [i \in 1..8 |-> IF g[i - 1] # 0 THEN <<g[i - 1]>> ELSE <<>>]

LEMMA BeforeIs ==
    ASSUME NEW g \in Guids
    PROVE  /\ Before(g, 0) = 0
           /\ Before(g, 8) = Cardinality(Used(g))
           /\ \A i \in 0..8 : Before(g, i) \in Nat
           /\ \A i \in 0..7 :
                 /\ Before(g, i + 1) = Before(g, i) + (IF g[i] # 0 THEN 1 ELSE 0)
                 /\ Before(g, i + 1) = Cardinality({j \in Used(g) : j <= i})
                 /\ Before(g, i + 1) <= Before(g, 8)
<1> DEFINE S(i) == {j \in Used(g) : j < i}
<1>0. \A i : Before(g, i) = Cardinality(S(i))
  BY Zenon DEF Before
<1>1. IsFiniteSet(0..7)
  <2>1. 0 \in Int /\ 7 \in Int
    OBVIOUS
  <2> QED BY <2>1, FS_Interval, Zenon
<1>2. \A i : S(i) \in SUBSET (0..7)
  BY DEF Used
<1>3. ASSUME NEW i PROVE IsFiniteSet(S(i)) /\ Cardinality(S(i)) \in Nat
  <2> HIDE DEF S
  <2> QED BY <1>1, <1>2, FS_Subset, FS_CardinalityType
<1>4. Before(g, 0) = 0
  <2>1. S(0) = {}
    BY DEF Used
  <2> QED BY <2>1, FS_EmptySet DEF Before
<1>5. S(8) = Used(g)
  BY DEF Used
<1>6. ASSUME NEW i \in 0..7
      PROVE  /\ Before(g, i + 1) = Before(g, i) + (IF g[i] # 0 THEN 1 ELSE 0)
             /\ Before(g, i + 1) = Cardinality({j \in Used(g) : j <= i})
             /\ Before(g, i + 1) <= Before(g, 8)
  <2>1. S(i + 1) = {j \in Used(g) : j <= i}
    BY DEF Used
  <2>2. ASSUME g[i] # 0 PROVE Before(g, i + 1) = Before(g, i) + 1
    <3>1. S(i + 1) = S(i) \cup {i} /\ i \notin S(i)
      BY <2>2 DEF Used
    <3> HIDE DEF S
    <3>2. Cardinality(S(i + 1)) = Cardinality(S(i)) + 1
      <4>1. IsFiniteSet(S(i)) /\ Cardinality(S(i)) \in Nat
        BY <1>3
      <4>2. Cardinality(S(i) \cup {i}) = Cardinality(S(i)) + 1
        BY <3>1, <4>1, FS_AddElement
      <4> QED BY <3>1, <4>2
    <3> QED BY <1>0, <2>2, <3>2
  <2>3. ASSUME g[i] = 0 PROVE Before(g, i + 1) = Before(g, i) + 0
    <3>1. S(i + 1) = S(i)
      BY <2>3 DEF Used
    <3>2. Cardinality(S(i + 1)) = Cardinality(S(i)) + 0
      <4> HIDE DEF S
      <4>1. Cardinality(S(i)) \in Nat
        BY <1>3
      <4> QED BY <3>1, <4>1
    <3> HIDE DEF S
    <3> QED BY <1>0, <2>3, <3>2
  <2>4. S(i + 1) \in SUBSET S(8)
    BY DEF Used
  <2>5. Cardinality(S(i + 1)) <= Cardinality(S(8))
    <3> HIDE DEF S
    <3> QED BY <1>3, <2>4, FS_Subset
  <2>6. Before(g, i + 1) = Cardinality({j \in Used(g) : j <= i})
    BY <1>0, <2>1
  <2>7. Before(g, i + 1) <= Before(g, 8)
    <3> HIDE DEF S
    <3> QED BY <1>0, <2>5
  <2> QED BY <2>2, <2>3, <2>6, <2>7
<1> QED BY <1>3, <1>4, <1>5, <1>6 DEF Before

LEMMA BeforeGrows ==
    ASSUME NEW g \in Guids, NEW i \in 0..8, NEW m \in 0..8, i <= m
    PROVE  Before(g, i) <= Before(g, m)
<1> DEFINE S(k) == {j \in Used(g) : j < k}
<1>1. S(m) \in SUBSET (0..7) /\ S(i) \in SUBSET S(m)
  BY DEF Used
<1>2. IsFiniteSet(S(m))
  <2>1. 0 \in Int /\ 7 \in Int
    OBVIOUS
  <2>2. IsFiniteSet(0..7)
    BY <2>1, FS_Interval, Zenon
  <2> HIDE DEF S
  <2> QED BY <1>1, <2>2, FS_Subset
<1>3. Cardinality(S(i)) <= Cardinality(S(m))
  <2> HIDE DEF S
  <2> QED BY <1>1, <1>2, FS_Subset
<1> QED BY <1>3 DEF Before

LEMMA PackedIs ==
    ASSUME NEW g \in Guids
    PROVE  LET f == FlattenSeq(Packed(g))
           IN  /\ f \in Texts /\ Len(f) = Before(g, 8)
               /\ \A i \in Used(g) : f[Before(g, i + 1)] = g[i]
<1> DEFINE ss(m) == [i \in 1..m |-> Packed(g)[i]]
           f(m) == FlattenSeq(ss(m))
           P(m) == /\ ss(m) \in Seq(Texts) /\ f(m) \in Texts /\ Len(f(m)) = Before(g, m)
                   /\ \A i \in Used(g) : i < m => f(m)[Before(g, i + 1)] = g[i]
           T == {m \in Nat : m <= 8 => P(m)}
<1>1. 0 \in T
  <2>1. ss(0) = <<>>
    OBVIOUS
  <2>2. f(0) = <<>> /\ Len(<<>>) = 0 /\ ss(0) \in Seq(Texts)
    BY <2>1, FlattenEmpty, EmptySeq
  <2>3. \A i \in Used(g) : ~(i < 0)
    BY DEF Used
  <2> HIDE DEF ss, f
  <2> QED BY <2>2, <2>3, BeforeIs, TextsAre
<1>2. ASSUME NEW m \in Nat, m \in T PROVE m + 1 \in T
  <2> SUFFICES ASSUME m + 1 <= 8 PROVE P(m + 1)
    OBVIOUS
  <2>1. m \in 0..7 /\ P(m)
    BY <1>2
  <2> DEFINE e == IF g[m] # 0 THEN <<g[m]>> ELSE <<>>
  <2>2. e \in Texts /\ g[m] \in Nat /\ Len(e) = (IF g[m] # 0 THEN 1 ELSE 0)
    <3>0. m \in 0..7
      BY <2>1
    <3>1. g[m] \in Nat
      <4> HIDE DEF ss, f, e, P, T
      <4>1. g \in [0..7 -> 0..255]
        BY DEF Guids
      <4>2. g[m] \in 0..255
        BY <3>0, <4>1
      <4> QED BY <4>2
    <3>2. <<g[m]>> \in Texts /\ <<>> \in Texts
      BY <3>1, TextsAre
    <3>3. Len(<<g[m]>>) = 1 /\ Len(<<>>) = 0
      OBVIOUS
    <3> QED BY <3>1, <3>2, <3>3
  <2>3. ss(m + 1) = Append(ss(m), e)
    <3>1. ss(m + 1) = [i \in 1..m + 1 |-> IF i <= m THEN ss(m)[i] ELSE e]
      <4>1. ASSUME NEW i \in 1..m + 1 PROVE Packed(g)[i] = IF i <= m THEN ss(m)[i] ELSE e
        <5>1. CASE i <= m
          BY <5>1
        <5>2. CASE ~(i <= m)
          <6>1. i = m + 1 /\ i \in 1..8 /\ i - 1 = m
            BY <2>1, <5>2
          <6> QED BY <5>2, <6>1 DEF Packed
        <5> QED BY <5>1, <5>2
      <4> QED BY <4>1
    <3> DEFINE q == Append(ss(m), e)
               r == [i \in 1..m + 1 |-> IF i <= m THEN ss(m)[i] ELSE e]
    <3>2. Len(ss(m)) = m /\ ss(m) \in Seq(Texts)
      BY <2>1
    <3>3. q \in Seq(Texts) /\ Len(q) = m + 1 /\ q[m + 1] = e /\ \A i \in 1..m : q[i] = ss(m)[i]
      <4> HIDE DEF ss, e
      <4> QED BY <2>2, <3>2, AppendProperties
    <3>4. DOMAIN q = 1..m + 1 /\ q = [i \in 1..m + 1 |-> q[i]]
      <4> HIDE DEF q
      <4> QED BY <3>3, LenProperties
    <3>5. \A i \in 1..m + 1 : q[i] = IF i <= m THEN ss(m)[i] ELSE e
      <4> HIDE DEF q, ss, e
      <4>1. \A i \in 1..m + 1 : i \in 1..m \/ (i = m + 1 /\ ~(i <= m))
        OBVIOUS
      <4>2. \A i \in 1..m : i <= m
        OBVIOUS
      <4> QED BY <3>3, <4>1, <4>2
    <3> HIDE DEF q, ss, e
    <3>6. q = r
      BY <3>4, <3>5
    <3> QED BY <3>1, <3>6 DEF q
  <2>4. f(m + 1) = f(m) \o e
    <3> HIDE DEF ss, e
    <3>1. ss(m) \in Seq(Seq(Nat)) /\ e \in Seq(Nat)
      BY <2>1, <2>2 DEF Texts
    <3> QED BY <2>3, <3>1, FlattenAppend
  <2>5. ss(m + 1) \in Seq(Texts)
    <3> HIDE DEF ss, e
    <3> QED BY <2>1, <2>2, <2>3, AppendProperties
  <2>6. /\ Before(g, m + 1) = Before(g, m) + (IF g[m] # 0 THEN 1 ELSE 0)
        /\ Before(g, m) \in Nat /\ Before(g, m + 1) \in Nat
    <3>1. m \in 0..8 /\ m + 1 \in 0..8
      BY <2>1
    <3> QED BY <2>1, <3>1, BeforeIs
  <2> HIDE DEF ss, f, e
  <2>7. Joined(f(m), e, f(m + 1)) /\ f(m + 1) \in Texts
    BY <2>1, <2>2, <2>4, Joining
  <2>8. Len(f(m + 1)) = Before(g, m + 1)
    BY <2>1, <2>2, <2>6, <2>7 DEF Joined
  <2>9. ASSUME NEW i \in Used(g), i < m + 1 PROVE f(m + 1)[Before(g, i + 1)] = g[i]
    <3>0. i \in 0..7 /\ g[i] # 0
      BY DEF Used
    <3>1. CASE i < m
      <4>1. /\ Before(g, i + 1) = Before(g, i) + 1 /\ Before(g, i) \in Nat
        <5>1. i \in 0..8
          BY <3>0
        <5> QED BY <3>0, <5>1, BeforeIs
      <4>2. Before(g, i + 1) <= Before(g, m)
        BY <2>1, <3>0, <3>1, BeforeGrows
      <4>3. Before(g, i + 1) \in 1..Len(f(m))
        BY <2>1, <2>6, <4>1, <4>2
      <4>4. At(f(m), 0, f(m))
        BY <2>1, LenProperties DEF At, Texts
      <4>5. At(f(m + 1), 0, f(m))
        BY <2>1, <2>7, <4>4 DEF Joined
      <4>6. f(m + 1)[0 + Before(g, i + 1)] = f(m)[Before(g, i + 1)]
        BY <4>3, <4>5 DEF At
      <4>7. 0 + Before(g, i + 1) = Before(g, i + 1)
        BY <4>1
      <4> QED BY <2>1, <3>1, <4>6, <4>7
    <3>2. CASE i = m
      <4>1. Len(e) = 1 /\ e[1] = g[m]
        BY <2>2, <3>0, <3>2 DEF e
      <4>2. f(m + 1)[Len(f(m)) + 1] = e[1]
        BY <2>7, <4>1 DEF Joined, At
      <4>3. Before(g, i + 1) = Len(f(m)) + 1
        BY <2>1, <2>6, <3>0, <3>2
      <4> QED BY <3>2, <4>1, <4>2, <4>3
    <3> QED BY <2>1, <2>9, <3>0, <3>1, <3>2
  <2> QED BY <2>5, <2>7, <2>8, <2>9
<1>3. 8 \in T
  <2> HIDE DEF T
  <2> QED BY <1>1, <1>2, SetInduction
<1>4. P(8)
  BY <1>3
<1>5. ss(8) = Packed(g)
  BY DEF Packed
<1>6. \A i \in Used(g) : i < 8
  BY DEF Used
<1> HIDE DEF ss
<1> QED BY <1>4, <1>5, <1>6

\* What a name answer says behind the guid.
Answer(a) == IF a.known THEN <<0>> \o Append(a.name, 0) ELSE <<1>>

LEMMA NameLayout ==
    ASSUME NEW a \in NameAnswers
    PROVE  LET b == NameBody(a)
               g == a.guid
               l == 1 + Before(g, 8)
           IN  /\ g \in Guids /\ Before(g, 8) \in Nat
               /\ b \in Texts /\ Bits(b[1]) = Used(g)
               /\ \A i \in Used(g) : b[1 + Before(g, i + 1)] = g[i]
               /\ Len(b) = l + Len(Answer(a)) /\ Answer(a) \in Texts
               /\ At(b, l, Answer(a))
<1> DEFINE g == a.guid
           mask == CHOOSE mask \in 0..255 : Bits(mask) = Used(g)
           f == FlattenSeq(Packed(g))
           q == <<mask>> \o f
           b == q \o Answer(a)
<1>1. g \in Guids /\ a.name \in Texts
  BY CodecAssumption DEF Guids, Strings, Texts
<1>2. mask \in 0..255 /\ Bits(mask) = Used(g)
  <2>1. Used(g) \in SUBSET (0..7)
    BY DEF Used
  <2> QED BY <2>1, MaskExists
<1>3. NameBody(a) = b
  <2>1. [i \in 1..8 |-> g[i - 1]] = [i \in 1..8 |-> a.guid[i - 1]]
    OBVIOUS
  <2> DEFINE s == [i \in 1..8 |-> a.guid[i - 1]]
  <2>2. [i \in DOMAIN s |-> IF s[i] # 0 THEN <<s[i]>> ELSE <<>>] = Packed(g)
    BY DEF Packed
  <2>3. ConcatMap(LAMBDA e : IF e # 0 THEN <<e>> ELSE <<>>, s) = f
    BY <2>2 DEF ConcatMap
  <2> QED BY <2>3 DEF NameBody, Used, Answer
<1>4. f \in Texts /\ Len(f) = Before(g, 8) /\ \A i \in Used(g) : f[Before(g, i + 1)] = g[i]
  BY <1>1, PackedIs
<1> HIDE DEF mask, f, g
<1>5. <<mask>> \in Texts /\ Len(<<mask>>) = 1 /\ mask \in Nat
  <2>1. mask \in Nat
    BY <1>2
  <2>2. <<mask>> \in Texts
    BY <2>1, TextsAre
  <2>3. Len(<<mask>>) = 1
    OBVIOUS
  <2> QED BY <2>1, <2>2, <2>3
<1>6. Answer(a) \in Texts
  <2>1. <<0>> \in Texts /\ <<1>> \in Texts /\ Append(a.name, 0) \in Texts
    BY <1>1, TextsAre
  <2> QED BY <2>1, TextsAre DEF Answer
<1> DEFINE first == <<mask>>
<1>7. first \in Texts /\ Len(first) = 1 /\ first[1] = mask
  BY <1>5
<1> HIDE DEF first
<1>8. q \in Texts /\ Joined(first, f, q)
  BY <1>4, <1>7, Joining DEF first
<1> HIDE DEF q
<1>9. b \in Texts /\ Joined(q, Answer(a), b)
  BY <1>6, <1>8, Joining
<1> HIDE DEF b
<1>10. At(b, 0, first) /\ At(b, 1, f)
  <2>1. At(first, 0, first)
    BY <1>7 DEF At
  <2> QED BY <1>4, <1>7, <1>8, <1>9, <2>1 DEF Joined
<1>11. b[1] = mask
  <2>1. b[0 + 1] = first[1]
    BY <1>7, <1>10 DEF At
  <2> QED BY <1>7, <2>1
<1>12. Before(g, 8) \in Nat
  <2>1. 8 \in 0..8
    OBVIOUS
  <2> QED BY <1>1, <2>1, BeforeIs
<1>13. ASSUME NEW i \in Used(g) PROVE b[1 + Before(g, i + 1)] = g[i]
  <2>1. i \in 0..7 /\ i \in 0..8 /\ i + 1 \in 0..8 /\ g[i] # 0
    BY DEF Used
  <2>2. /\ Before(g, i + 1) = Before(g, i) + 1 /\ Before(g, i) \in Nat
        /\ Before(g, i + 1) <= Before(g, 8)
    BY <1>1, <2>1, BeforeIs
  <2>3. Before(g, i + 1) \in 1..Len(f)
    BY <1>4, <1>12, <2>2
  <2> QED BY <1>4, <1>10, <2>3 DEF At
<1>14. Len(q) = 1 + Before(g, 8)
  BY <1>4, <1>7, <1>8 DEF Joined
<1>15. Len(b) = (1 + Before(g, 8)) + Len(Answer(a)) /\ At(b, 1 + Before(g, 8), Answer(a))
  BY <1>9, <1>14 DEF Joined
<1> QED BY <1>1, <1>2, <1>3, <1>6, <1>9, <1>11, <1>12, <1>13, <1>15 DEF g

LEMMA GuidRead ==
    ASSUME NEW a \in NameAnswers, NEW d, IsCut(d, NameBody(a))
    PROVE  LET who == unpack_guid(d)
               l == 1 + Before(a.guid, 8)
           IN  /\ who.at = Lesser(l, Len(d)) \/ (Len(d) = 0 /\ who.at = 0)
               /\ l <= Len(d) => who.guid = a.guid
<1> DEFINE g == a.guid
           b == NameBody(a)
           L == Before(g, 8)
           bits == IF d = <<>> THEN {} ELSE Bits(d[1])
           place(i) == 1 + Cardinality({j \in bits : j <= i})
           guid == [i \in 0..7 |-> IF i \in bits /\ place(i) <= Len(d) THEN d[place(i)] ELSE 0]
<1>1. /\ g \in Guids /\ L \in Nat /\ Bits(b[1]) = Used(g)
      /\ \A i \in Used(g) : b[1 + Before(g, i + 1)] = g[i]
  BY NameLayout
<1>2. /\ Len(d) \in Nat /\ d \in Texts /\ \A i \in 1..Len(d) : d[i] = b[i]
  BY DEF IsCut
<1>3. unpack_guid(d) = [guid |-> guid, at |-> Lesser(1 + Cardinality(bits), Len(d))]
  BY Zenon DEF unpack_guid
<1> HIDE DEF b, g
<1>4. CASE d = <<>>
  <2>1. Cardinality(bits) = 0 /\ Len(d) = 0
    BY <1>4, FS_EmptySet
  <2>2. unpack_guid(d).at = Len(d)
    <3> HIDE DEF bits, guid
    <3> QED BY <1>3, <2>1 DEF Lesser
  <2>3. ~(1 + L <= Len(d))
    BY <1>1, <2>1
  <2> QED BY <1>4, <2>2, <2>3 DEF g
<1>5. CASE d # <<>>
  <2>1. 1 \in 1..Len(d)
    BY <1>2, <1>5, EmptySeq DEF Texts
  <2>2. bits = Used(g)
    BY <1>1, <1>2, <1>5, <2>1
  <2> HIDE DEF bits
  <2>3. Cardinality(bits) = L
    BY <1>1, <2>2, BeforeIs
  <2>4. unpack_guid(d).at = Lesser(1 + L, Len(d))
    <3> HIDE DEF guid
    <3> QED BY <1>3, <2>3
  <2>5. ASSUME 1 + L <= Len(d) PROVE guid = g
    <3>1. ASSUME NEW i \in 0..7
          PROVE (IF i \in bits /\ place(i) <= Len(d) THEN d[place(i)] ELSE 0) = g[i]
      <4>1. CASE g[i] # 0
        <5>1. i \in bits /\ i \in 0..8
          BY <2>2, <4>1 DEF Used
        <5>2. /\ place(i) = 1 + Before(g, i + 1) /\ Before(g, i + 1) = Before(g, i) + 1
              /\ Before(g, i) \in Nat /\ Before(g, i + 1) <= L
          BY <1>1, <2>2, <4>1, <5>1, BeforeIs
        <5> HIDE DEF place, L
        <5>3. place(i) \in 1..Len(d)
          BY <1>1, <1>2, <2>5, <5>2 DEF L
        <5>4. d[place(i)] = g[i]
          BY <1>1, <1>2, <2>2, <5>1, <5>2, <5>3
        <5> QED BY <5>1, <5>3, <5>4
      <4>2. CASE g[i] = 0
        BY <2>2, <4>2 DEF Used
      <4> QED BY <4>1, <4>2
    <3>2. guid = [i \in 0..7 |-> g[i]]
      <4> HIDE DEF place
      <4> QED BY <3>1
    <3> QED BY <1>1, <3>2 DEF Guids
  <2> HIDE DEF guid
  <2>6. unpack_guid(d).guid = guid
    BY <1>3
  <2>7. unpack_guid(d).at = Lesser(1 + L, Len(d))
    BY <2>4
  <2>8. 1 + L <= Len(d) => unpack_guid(d).guid = g
    BY <2>5, <2>6
  <2> QED BY <2>7, <2>8 DEF g
<1> QED BY <1>4, <1>5

\* A name answer gives UNKNOWN or what the server said, or is skipped.
LEMMA NameDecoded ==
    ASSUME NEW a \in NameAnswers, NEW d, IsCut(d, NameBody(a))
    PROVE  LET r == decode_name_query_response(d)
           IN  /\ \/ r = Raised \/ r = Gave([guid |-> a.guid, name |-> a.name])
                  \/ r.state = "given" /\ r.value.name = UNKNOWN
               /\ Len(d) = Len(NameBody(a)) =>
                     r = Gave([guid |-> a.guid,
                               name |-> IF a.known THEN a.name ELSE UNKNOWN])
<1> DEFINE b == NameBody(a)
           l == 1 + Before(a.guid, 8)
           who == unpack_guid(d)
           name == Cstring(d, Cursor(who.at + 1))
           r == decode_name_query_response(d)
           unknown == Gave([guid |-> who.guid, name |-> UNKNOWN])
<1>1. /\ Before(a.guid, 8) \in Nat /\ b \in Texts
      /\ Len(b) = l + Len(Answer(a)) /\ Answer(a) \in Texts
      /\ At(b, l, Answer(a))
  BY NameLayout
<1>2. /\ Len(d) \in Nat /\ Len(b) \in Nat /\ Len(d) <= Len(b)
      /\ \A i \in 1..Len(d) : d[i] = b[i]
  BY DEF IsCut
<1>3. /\ who.at = Lesser(l, Len(d)) \/ (Len(d) = 0 /\ who.at = 0)
      /\ l <= Len(d) => who.guid = a.guid
  BY GuidRead
<1>4. r = IF who.at >= Len(d) \/ d[who.at + 1] # 0 THEN unknown
          ELSE Result(name, [guid |-> who.guid, name |-> Last(name.fields)])
  BY Zenon DEF decode_name_query_response
<1>5. /\ a.name \in Seq(Nat \ {0}) /\ a.name \in Texts /\ a.known \in BOOLEAN
  BY CodecAssumption DEF Strings, Texts
<1>6. unknown.state = "given" /\ unknown.value.name = UNKNOWN
  BY DEF Gave
<1>7. Len(Answer(a)) \in Nat \ {0}
  <2>1. <<0>> \in Texts /\ Append(a.name, 0) \in Texts /\ Len(<<0>>) = 1 /\ Len(<<1>>) = 1
    BY <1>5, TextsAre
  <2>2. Len(Append(a.name, 0)) \in Nat
    BY <2>1, LenProperties DEF Texts
  <2>3. Len(<<0>> \o Append(a.name, 0)) = 1 + Len(Append(a.name, 0))
    BY <2>1, AtConcat
  <2> QED BY <2>1, <2>2, <2>3 DEF Answer
<1> HIDE DEF b, l, who, name, r, unknown
<1>8. l \in Nat
  BY <1>1 DEF l
<1>9. CASE Len(d) <= l
  <2>1. who.at = Len(d)
    BY <1>2, <1>3, <1>8, <1>9 DEF Lesser
  <2>2. r = unknown
    BY <1>2, <1>4, <2>1
  <2>3. Len(d) # Len(b)
    BY <1>1, <1>2, <1>7, <1>8, <1>9
  <2> QED BY <1>6, <2>2, <2>3 DEF r, b
<1>10. CASE ~(Len(d) <= l)
  <2>1. who.at = l /\ who.guid = a.guid /\ ~(who.at >= Len(d))
    BY <1>2, <1>3, <1>8, <1>10 DEF Lesser
  <2>2. d[l + 1] = Answer(a)[1]
    <3>1. l + 1 \in 1..Len(d) /\ 1 \in 1..Len(Answer(a))
      BY <1>2, <1>7, <1>8, <1>10
    <3> QED BY <1>1, <1>2, <3>1 DEF At
  <2>3. CASE ~a.known
    <3>1. Answer(a)[1] # 0
      BY <2>3 DEF Answer
    <3>2. r = unknown
      BY <1>4, <2>1, <2>2, <3>1
    <3>3. unknown = Gave([guid |-> a.guid, name |-> UNKNOWN])
      BY <2>1 DEF unknown
    <3> QED BY <1>6, <2>3, <3>2, <3>3 DEF r
  <2>4. CASE a.known
    <3> DEFINE z == Append(a.name, 0)
               zero == <<0>>
    <3>1. zero \in Texts /\ z \in Texts /\ Len(zero) = 1 /\ zero[1] = 0
      BY <1>5, TextsAre
    <3>2. Answer(a) = zero \o z
      BY <2>4 DEF Answer
    <3> HIDE DEF z, zero
    <3>3. Joined(zero, z, Answer(a)) /\ Len(z) \in Nat
      BY <3>1, <3>2, Joining, LenProperties DEF Texts
    <3>4. Answer(a)[1] = 0
      <4>1. At(zero, 0, zero)
        BY <3>1 DEF At
      <4>2. Answer(a)[0 + 1] = zero[1]
        <5>1. At(Answer(a), 0, zero)
          BY <3>1, <3>3, <4>1 DEF Joined
        <5>2. 1 \in 1..Len(zero)
          BY <3>1
        <5> QED BY <5>1, <5>2 DEF At
      <4> QED BY <3>1, <4>2
    <3>5. At(b, l + 1, z)
      <4>1. Len(Answer(a)) = 1 + Len(z) /\ \A i \in 1..Len(z) : Answer(a)[1 + i] = z[i]
        BY <3>1, <3>3 DEF Joined, At
      <4>2. ASSUME NEW i \in 1..Len(z) PROVE b[(l + 1) + i] = z[i]
        <5>1. 1 + i \in 1..Len(Answer(a)) /\ l + (1 + i) = (l + 1) + i
          BY <1>8, <3>3, <4>1
        <5> QED BY <1>1, <4>1, <5>1 DEF At
      <4>3. (l + 1) + Len(z) <= Len(b)
        BY <1>1, <1>8, <3>3, <4>1
      <4> QED BY <1>8, <4>2, <4>3 DEF At
    <3>6. name = Cstring(d, Reader(l + 1, <<>>))
      BY <2>1 DEF name, Cursor, Reader
    <3> DEFINE e == (l + 1) + Len(a.name) + 1
    <3>7. Reads(name, d, e, Append(<<>>, a.name))
      <4>1. Reads(Cstring(d, Reader(l + 1, <<>>)), d, e, Append(<<>>, a.name))
        <5>1. IsCut(d, b)
          BY DEF b
        <5> QED BY <1>5, <3>5, <5>1, CstringIs DEF z
      <4> QED BY <3>6, <4>1
    <3>8. r = Result(name, [guid |-> a.guid, name |-> Last(name.fields)])
      BY <1>4, <2>1, <2>2, <3>4
    <3>9. CASE e <= Len(d)
      <4>1. name.state = "more" /\ name.fields = Append(<<>>, a.name)
        BY <3>7, <3>9 DEF Reads, Reader
      <4>2. Last(Append(<<>>, a.name)) = a.name
        BY DEF Last
      <4>3. r = Gave([guid |-> a.guid, name |-> a.name])
        BY <3>8, <4>1, <4>2 DEF Result
      <4> QED BY <2>4, <4>3 DEF r
    <3>10. CASE ~(e <= Len(d))
      <4>1. r = Raised
        BY <3>7, <3>8, <3>10 DEF Reads, Result
      <4>2. Len(d) # Len(b)
        <5>1. Len(b) = l + (1 + (Len(a.name) + 1)) /\ Len(a.name) \in Nat
          <6>1. Len(z) = Len(a.name) + 1 /\ Len(a.name) \in Nat
            BY <1>5, AppendProperties, LenProperties DEF z, Texts
          <6>2. Len(Answer(a)) = 1 + Len(z)
            BY <3>1, <3>3 DEF Joined
          <6>3. Len(b) = l + Len(Answer(a))
            BY <1>1 DEF l
          <6> QED BY <1>8, <3>3, <6>1, <6>2, <6>3
        <5>2. e = Len(b)
          <6> DEFINE n == Len(a.name)
          <6>1. n \in Nat /\ Len(b) = l + (1 + (n + 1))
            BY <5>1
          <6> HIDE DEF n
          <6>2. (l + 1) + n + 1 = Len(b)
            BY <1>8, <6>1
          <6> QED BY <6>2 DEF n
        <5> HIDE DEF e
        <5> QED BY <1>2, <3>10, <5>2
      <4> QED BY <4>1, <4>2 DEF r, b
    <3> QED BY <3>9, <3>10
  <2> QED BY <1>5, <2>3, <2>4
<1> QED BY <1>2, <1>8, <1>9, <1>10

-----------------------------------------------------------------------------
\* A list is encoded entry by entry: Behind(list, f, i) is the number of bytes
\* that its first i entries take.
Behind(list, f, i) == Len(Subst(SubSeq(list, 1, i), f))

LEMMA CodeAppend ==
    ASSUME NEW S, NEW f \in [S -> Texts], NEW list \in Seq(S), NEW e \in S
    PROVE  /\ Subst(list, f) \in Texts
           /\ Subst(Append(list, e), f) = Subst(list, f) \o f[e]
<1> DEFINE u == Append(list, e)
           ss == [i \in DOMAIN list |-> f[list[i]]]
           tt == [i \in DOMAIN u |-> f[u[i]]]
           n == Len(list)
<1>1. /\ n \in Nat /\ DOMAIN list = 1..n /\ u \in Seq(S) /\ Len(u) = n + 1
      /\ DOMAIN u = 1..n + 1 /\ u[n + 1] = e /\ \A i \in 1..n : u[i] = list[i] /\ list[i] \in S
  BY AppendProperties, LenProperties, ElementOfSeq
<1> HIDE DEF u, n
<1>2. ss \in Seq(Texts) /\ Len(ss) = n
  BY <1>1
<1>3. f[e] \in Texts
  OBVIOUS
<1>4. tt = Append(ss, f[e])
  <2> DEFINE vv == Append(ss, f[e])
  <2>1. vv \in Seq(Texts) /\ Len(vv) = n + 1 /\ vv[n + 1] = f[e] /\ \A i \in 1..n : vv[i] = ss[i]
    BY <1>2, <1>3, AppendProperties
  <2>2. \A i \in 1..n + 1 : u[i] \in S
    BY <1>1, ElementOfSeq
  <2>3. tt \in Seq(Texts) /\ Len(tt) = n + 1
    BY <1>1, <2>2
  <2>4. ASSUME NEW i \in 1..n + 1 PROVE tt[i] = vv[i]
    <3>1. CASE i = n + 1
      BY <1>1, <2>1, <3>1
    <3>2. CASE i # n + 1
      <4>1. i \in 1..n
        BY <1>1, <3>2
      <4> HIDE DEF vv
      <4>2. tt[i] = f[list[i]] /\ ss[i] = f[list[i]]
        BY <1>1, <4>1
      <4> QED BY <2>1, <4>1, <4>2
    <3> QED BY <3>1, <3>2
  <2> HIDE DEF vv, tt
  <2>5. tt = vv
    BY <1>1, <2>1, <2>3, <2>4, SeqEqual
  <2> QED BY <2>5 DEF vv
<1>5. Subst(list, f) = FlattenSeq(ss) /\ Subst(u, f) = FlattenSeq(tt)
  BY DEF Subst
<1> HIDE DEF ss, tt
<1>6. ss \in Seq(Seq(Nat)) /\ f[e] \in Seq(Nat)
  BY <1>2, <1>3 DEF Texts
<1> QED BY <1>4, <1>5, <1>6, FlattenAppend, FlattenType DEF Texts, u

LEMMA CodeEmpty == \A f, list : Behind(list, f, 0) = 0
<1> SUFFICES ASSUME NEW f, NEW list PROVE Behind(list, f, 0) = 0
  OBVIOUS
<1>1. SubSeq(list, 1, 0) = <<>>
  OBVIOUS
<1>2. Subst(SubSeq(list, 1, 0), f) = <<>>
  BY <1>1, SubstEmpty, Zenon
<1>3. Len(<<>>) = 0
  OBVIOUS
<1> QED BY <1>2, <1>3, Zenon DEF Behind

\* An entry's bytes stand behind those of the entries before it.
LEMMA CodeIs ==
    ASSUME NEW S, NEW f \in [S -> Texts], NEW list \in Seq(S)
    PROVE  /\ Subst(list, f) \in Texts
           /\ Behind(list, f, Len(list)) = Len(Subst(list, f))
           /\ \A i \in 0..Len(list) : Behind(list, f, i) \in Nat
           /\ \A i \in 0..Len(list) - 1 :
                 /\ Behind(list, f, i + 1) = Behind(list, f, i) + Len(f[list[i + 1]])
                 /\ At(Subst(list, f), Behind(list, f, i), f[list[i + 1]])
<1> DEFINE T == {l \in Seq(S) :
                   /\ Subst(l, f) \in Texts
                   /\ Behind(l, f, Len(l)) = Len(Subst(l, f))
                   /\ \A i \in 0..Len(l) : Behind(l, f, i) \in Nat
                   /\ \A i \in 0..Len(l) - 1 :
                        /\ Behind(l, f, i + 1) = Behind(l, f, i) + Len(f[l[i + 1]])
                        /\ At(Subst(l, f), Behind(l, f, i), f[l[i + 1]])}
<1>1. <<>> \in T
  <2>1. Subst(<<>>, f) = <<>> /\ <<>> \in Texts /\ Behind(<<>>, f, 0) = 0
    BY SubstEmpty, CodeEmpty DEF Texts
  <2> QED BY <2>1
<1>2. ASSUME NEW l \in Seq(S), NEW e \in S, l \in T PROVE Append(l, e) \in T
  <2> DEFINE u == Append(l, e)
             n == Len(l)
             a == Subst(l, f)
             c == Subst(u, f)
             x == f[e]
  <2>1. /\ n \in Nat /\ u \in Seq(S) /\ Len(u) = n + 1 /\ u[n + 1] = e
        /\ \A i \in 1..n : u[i] = l[i]
    BY AppendProperties, LenProperties
  <2>2. a \in Texts /\ c = a \o x /\ x \in Texts
    BY CodeAppend
  <2>3. c \in Texts /\ Joined(a, x, c)
    BY <2>2, Joining
  <2>4. \A t \in Texts : Len(t) \in Nat
    BY LenProperties DEF Texts
  <2>5. ASSUME NEW i \in 0..n PROVE Behind(u, f, i) = Behind(l, f, i)
    <3>1. SubSeq(u, 1, i) = SubSeq(l, 1, i)
      <4> DEFINE p == SubSeq(u, 1, i)
                 q == SubSeq(l, 1, i)
      <4>1. p \in Seq(S) /\ q \in Seq(S) /\ Len(p) = i /\ Len(q) = i
            /\ \A j \in 1..i : p[j] = u[j] /\ q[j] = l[j]
        <5> HIDE DEF u
        <5> QED BY <2>1
      <4> HIDE DEF p, q, u
      <4>2. \A j \in 1..i : j \in 1..n
        BY <2>1
      <4>3. \A j \in 1..i : p[j] = q[j]
        BY <2>1, <4>1, <4>2
      <4> QED BY <4>1, <4>3, SeqEqual DEF p, q
    <3> QED BY <3>1 DEF Behind
  <2>6. Behind(u, f, n + 1) = Len(c)
    <3>1. SubSeq(u, 1, n + 1) = u
      <4> HIDE DEF u
      <4> QED BY <2>1
    <3> QED BY <3>1 DEF Behind
  <2>7. Behind(l, f, n) = Len(a)
    BY <1>2
  <2> HIDE DEF u, n, a, c, x
  <2>8. Len(c) = Len(a) + Len(x) /\ At(c, Len(a), x)
    BY <2>3 DEF Joined
  <2>9. ASSUME NEW i \in 0..n + 1 PROVE Behind(u, f, i) \in Nat
    <3>1. CASE i = n + 1
      BY <2>3, <2>4, <2>6, <3>1
    <3>2. CASE i # n + 1
      <4>1. i \in 0..n
        BY <2>1, <3>2
      <4> QED BY <1>2, <2>5, <4>1 DEF n
    <3> QED BY <3>1, <3>2
  <2>10. ASSUME NEW i \in 0..n
         PROVE  /\ Behind(u, f, i + 1) = Behind(u, f, i) + Len(f[u[i + 1]])
                /\ At(c, Behind(u, f, i), f[u[i + 1]])
    <3>1. CASE i = n
      BY <2>1, <2>5, <2>6, <2>7, <2>8, <3>1 DEF x
    <3>2. CASE i # n
      <4>1. i \in 0..n - 1 /\ i + 1 \in 0..n /\ i + 1 \in 1..n
        BY <2>1, <3>2
      <4>2. /\ Behind(l, f, i + 1) = Behind(l, f, i) + Len(f[l[i + 1]])
            /\ At(a, Behind(l, f, i), f[l[i + 1]])
        BY <1>2, <4>1 DEF a, n
      <4>3. l[i + 1] \in S /\ u[i + 1] = l[i + 1]
        BY <2>1, <4>1, ElementOfSeq DEF n
      <4>4. At(c, Behind(l, f, i), f[l[i + 1]])
        BY <2>3, <4>2, <4>3 DEF Joined
      <4> QED BY <2>5, <4>1, <4>2, <4>3, <4>4
    <3> QED BY <3>1, <3>2
  <2>11. /\ c = Subst(u, f) /\ (n + 1) - 1 = n
         /\ Len(u) = n + 1
    BY <2>1 DEF c
  <2> QED BY <2>1, <2>3, <2>6, <2>9, <2>10, <2>11 DEF u
<1>3. Seq(S) \subseteq T
  <2> HIDE DEF T
  <2> QED BY <1>1, <1>2, SequenceInduction
<1> QED BY <1>3

\* What stands in a part stands in the whole.
LEMMA AtBehind ==
    ASSUME NEW b \in Texts, NEW k, NEW t \in Texts, At(b, k, t),
           NEW j, NEW r \in Texts, At(t, j, r)
    PROVE  At(b, k + j, r)
<1>1. /\ k \in Nat /\ j \in Nat /\ Len(t) \in Nat /\ Len(r) \in Nat /\ Len(b) \in Nat
      /\ k + Len(t) <= Len(b) /\ j + Len(r) <= Len(t)
      /\ \A i \in 1..Len(t) : b[k + i] = t[i]
      /\ \A i \in 1..Len(r) : t[j + i] = r[i]
  BY LenProperties DEF At, Texts
<1>2. ASSUME NEW i \in 1..Len(r) PROVE b[(k + j) + i] = r[i]
  <2>1. j + i \in 1..Len(t) /\ k + (j + i) = (k + j) + i
    BY <1>1
  <2> QED BY <1>1, <2>1
<1>3. (k + j) + Len(r) <= Len(b)
  BY <1>1
<1> QED BY <1>1, <1>2, <1>3 DEF At

-----------------------------------------------------------------------------
\* What the reader of a list is after each turn of its loop.
IsWalk(layout, body, c, count, h) ==
    /\ h[0] = c
    /\ \A i \in 1..count : h[i] = OneMore(layout, body, h[i - 1])

LEMMA WalkExists ==
    ASSUME NEW layout, NEW body, NEW c, NEW count \in Nat
    PROVE  \E h : IsWalk(layout, body, c, count, h)
<1> DEFINE T == {n \in Nat : \E h : IsWalk(layout, body, c, n, h)}
<1>1. 0 \in T
  <2>1. IsWalk(layout, body, c, 0, [i \in {0} |-> c])
    BY DEF IsWalk
  <2> QED BY <2>1
<1>2. ASSUME NEW n \in Nat, n \in T PROVE n + 1 \in T
  <2>1. PICK h : IsWalk(layout, body, c, n, h)
    BY <1>2
  <2> DEFINE more == OneMore(layout, body, h[n])
             g == [i \in 0..n + 1 |-> IF i = n + 1 THEN more ELSE h[i]]
  <2>2. g[0] = c
    BY <2>1 DEF IsWalk
  <2>3. ASSUME NEW i \in 1..n + 1 PROVE g[i] = OneMore(layout, body, g[i - 1])
    <3>1. i \in 0..n + 1 /\ i - 1 \in 0..n + 1 /\ i - 1 # n + 1
      OBVIOUS
    <3> HIDE DEF more
    <3>2. g[i - 1] = h[i - 1]
      BY <3>1
    <3>3. CASE i = n + 1
      <4>1. g[i] = more /\ i - 1 = n
        BY <3>1, <3>3
      <4> HIDE DEF g
      <4> QED BY <3>2, <4>1 DEF more
    <3>4. CASE i # n + 1
      <4>1. g[i] = h[i] /\ i \in 1..n
        BY <3>1, <3>4
      <4> HIDE DEF g
      <4> QED BY <2>1, <3>2, <4>1 DEF IsWalk
    <3> QED BY <3>3, <3>4
  <2>4. IsWalk(layout, body, c, n + 1, g)
    <3> HIDE DEF g
    <3> QED BY <2>2, <2>3 DEF IsWalk
  <2> QED BY <2>4
<1>3. Nat \subseteq T
  <2> HIDE DEF T
  <2> QED BY <1>1, <1>2, SetInduction
<1> QED BY <1>3

\* The recursive definition in Entries has a solution.
LEMMA EntriesDefined ==
    ASSUME NEW layout, NEW body, NEW c, NEW count \in Nat
    PROVE  \E h : /\ IsWalk(layout, body, c, count, h)
                  /\ Entries(layout, body, c, count) = h[count]
<1> DEFINE Step(f) == [i \in 0..count |-> IF i = 0 THEN c ELSE OneMore(layout, body, f[i - 1])]
<1>1. PICK h : IsWalk(layout, body, c, count, h)
  BY WalkExists
<1> DEFINE g == [i \in 0..count |-> h[i]]
<1>2. g = Step(g)
  <2>1. ASSUME NEW i \in 0..count
        PROVE  g[i] = IF i = 0 THEN c ELSE OneMore(layout, body, g[i - 1])
    <3>1. CASE i = 0
      BY <1>1, <3>1 DEF IsWalk
    <3>2. CASE i # 0
      <4>1. i \in 1..count /\ i - 1 \in 0..count
        BY <3>2
      <4>2. g[i] = h[i] /\ g[i - 1] = h[i - 1]
        BY <4>1
      <4> HIDE DEF g
      <4>3. h[i] = OneMore(layout, body, h[i - 1])
        BY <1>1, <4>1 DEF IsWalk
      <4> QED BY <3>2, <4>2, <4>3
    <3> QED BY <3>1, <3>2
  <2> QED BY <2>1
<1> DEFINE chosen == CHOOSE f : f = Step(f)
<1>3. chosen = Step(chosen)
  <2> HIDE DEF g, Step
  <2> QED BY <1>2
<1>4. Entries(layout, body, c, count) = chosen[count]
  BY DEF Entries
<1>5. IsWalk(layout, body, c, count, chosen)
  <2> HIDE DEF chosen
  <2>1. chosen[0] = c
    <3>1. Step(chosen)[0] = c
      OBVIOUS
    <3> HIDE DEF Step
    <3> QED BY <1>3, <3>1
  <2>2. ASSUME NEW i \in 1..count PROVE chosen[i] = OneMore(layout, body, chosen[i - 1])
    <3>1. i \in 0..count /\ i # 0
      OBVIOUS
    <3>2. Step(chosen)[i] = OneMore(layout, body, chosen[i - 1])
      BY <3>1, Zenon
    <3> HIDE DEF Step
    <3> QED BY <1>3, <3>2
  <2> QED BY <2>1, <2>2 DEF IsWalk
<1> QED BY <1>4, <1>5

\* A reader that has stopped reads nothing.
LEMMA StoppedStays ==
    \A c, b : c.state # "more" =>
       /\ Cstring(b, c) = c
       /\ \A n : Fixed(b, c, n) = c /\ Skip(c, n) = c /\ BreakIf(c, n) = c
<1> SUFFICES ASSUME NEW c, NEW b, c.state # "more"
             PROVE  /\ Cstring(b, c) = c
                    /\ \A n : Fixed(b, c, n) = c /\ Skip(c, n) = c /\ BreakIf(c, n) = c
  OBVIOUS
<1>1. Cstring(b, c) = c
  BY Zenon DEF Cstring
<1>2. \A n : Fixed(b, c, n) = c
  BY Zenon DEF Fixed
<1>3. \A n : Skip(c, n) = c
  BY Zenon DEF Skip
<1>4. \A n : BreakIf(c, n) = c
  BY Zenon DEF BreakIf
<1> QED BY <1>1, <1>2, <1>3, <1>4

\* Reads one behind the other.
LEMMA ReadsCstring ==
    ASSUME NEW b, NEW d, IsCut(d, b), NEW s \in Seq(Nat \ {0}), NEW k, At(b, k, Append(s, 0)),
           NEW fs, NEW c, Reads(c, d, k, fs)
    PROVE  Reads(Cstring(d, c), d, k + Len(s) + 1, Append(fs, s))
<1>1. /\ Len(d) \in Nat /\ k \in Nat /\ Len(s) \in Nat
  BY LenProperties DEF At, IsCut
<1>2. CASE k <= Len(d)
  BY <1>2, CstringIs DEF Reads
<1>3. CASE ~(k <= Len(d))
  <2>1. c.state = "raised"
    BY <1>3 DEF Reads
  <2>2. Cstring(d, c) = c
    BY <2>1, StoppedStays
  <2>3. ~(k + Len(s) + 1 <= Len(d))
    BY <1>1, <1>3
  <2> QED BY <2>1, <2>2, <2>3 DEF Reads
<1> QED BY <1>2, <1>3

LEMMA ReadsFixed ==
    ASSUME NEW b, NEW d, IsCut(d, b), NEW s \in Texts, NEW k, At(b, k, s),
           NEW fs, NEW c, Reads(c, d, k, fs)
    PROVE  Reads(Fixed(d, c, Len(s)), d, k + Len(s), Append(fs, s))
<1>1. /\ Len(d) \in Nat /\ k \in Nat /\ Len(s) \in Nat
  BY LenProperties DEF At, IsCut, Texts
<1>2. CASE k <= Len(d)
  BY <1>2, FixedIs DEF Reads
<1>3. CASE ~(k <= Len(d))
  <2>1. c.state = "raised"
    BY <1>3 DEF Reads
  <2>2. Fixed(d, c, Len(s)) = c
    BY <2>1, StoppedStays
  <2>3. ~(k + Len(s) <= Len(d))
    BY <1>1, <1>3
  <2> QED BY <2>1, <2>2, <2>3 DEF Reads
<1> QED BY <1>2, <1>3

\* An unchecked step over n bytes, and a read behind it.
LEMMA ReadsSkipped ==
    ASSUME NEW b, NEW d, IsCut(d, b), NEW s \in Texts, NEW k \in Nat, NEW n \in Nat,
           At(b, k + n, s), NEW fs, NEW c, Reads(c, d, k, fs)
    PROVE  Reads(Fixed(d, Skip(c, n), Len(s)), d, k + n + Len(s), Append(fs, s))
<1>1. /\ Len(d) \in Nat /\ Len(s) \in Nat
  BY LenProperties DEF At, IsCut, Texts
<1>2. CASE k <= Len(d)
  <2>1. Skip(c, n) = Reader(k + n, fs)
    BY <1>2, ReaderGoesOn DEF Reads
  <2> QED BY <2>1, FixedIs
<1>3. CASE ~(k <= Len(d))
  <2>1. c.state = "raised"
    BY <1>3 DEF Reads
  <2>2. Fixed(d, Skip(c, n), Len(s)) = c
    <3>1. Skip(c, n) = c
      BY <2>1, StoppedStays
    <3>2. Fixed(d, c, Len(s)) = c
      BY <2>1, StoppedStays
    <3> QED BY <3>1, <3>2
  <2>3. ~(k + n + Len(s) <= Len(d))
    BY <1>1, <1>3
  <2> QED BY <2>1, <2>2, <2>3 DEF Reads
<1> QED BY <1>2, <1>3

LEMMA ReadsPast ==
    ASSUME NEW b, NEW d, IsCut(d, b), NEW s \in Seq(Nat \ {0}), NEW k, At(b, k, Append(s, 0)),
           NEW fs, NEW c, Reads(c, d, k, fs)
    PROVE  Reads(SkipString(d, c), d, k + Len(s) + 1, fs)
<1> DEFINE e == k + Len(s) + 1
<1>1. /\ Len(d) \in Nat /\ k \in Nat /\ Len(s) \in Nat
  BY LenProperties DEF At, IsCut
<1>2. Reads(Cstring(d, c), d, e, Append(fs, s))
  BY ReadsCstring
<1>3. e <= Len(d) => k <= Len(d)
  BY <1>1
<1> HIDE DEF e
<1>4. CASE e <= Len(d)
  <2>1. c.fields = fs
    BY <1>3, <1>4 DEF Reads, Reader
  <2>2. Cstring(d, c) = Reader(e, Append(fs, s))
    BY <1>2, <1>4 DEF Reads
  <2>3. [Reader(e, Append(fs, s)) EXCEPT !.fields = fs] = Reader(e, fs)
    BY DEF Reader
  <2> QED BY <1>4, <2>1, <2>2, <2>3 DEF Reads, SkipString, e
<1>5. CASE ~(e <= Len(d))
  <2>1. Cstring(d, c).state = "raised"
    BY <1>2, <1>5 DEF Reads
  <2>2. SkipString(d, c).state = "raised"
    BY <2>1 DEF SkipString
  <2> QED BY <1>5, <2>2 DEF Reads, e
<1> QED BY <1>4, <1>5

-----------------------------------------------------------------------------
\* One turn of the loop of a reader that is at k: it takes the entry e, of n
\* bytes, or it stops, and raises if the entry is torn.
Takes(layout, d, k, n, e, torn) ==
    \A fs :
       LET one == OneMore(layout, d, Reader(k, fs))
       IN  /\ k + n <= Len(d) => one = Reader(k + n, Append(fs, e))
           /\ ~(k + n <= Len(d)) =>
                 one.state # "more" /\ one.fields = fs /\ (one.state = "raised" <=> torn)

\* An entry adds nothing to a reader that has stopped.
LEMMA EntryStays ==
    ASSUME NEW layout \in {"who", "roster", "event"}, NEW d, NEW o, o.state # "more"
    PROVE  Entry(layout, d, o).state = o.state
<1>1. \A q : q.state # "more" => SkipString(d, q).state = q.state
  <2> SUFFICES ASSUME NEW q, q.state # "more" PROVE SkipString(d, q).state = q.state
    OBVIOUS
  <2>1. Cstring(d, q) = q
    BY StoppedStays
  <2> QED BY <2>1 DEF SkipString
<1>2. CASE layout = "who"
  <2>1. /\ Cstring(d, o) = o /\ BreakIf(o, o.at + 12 >= Len(d)) = o /\ Fixed(d, o, 12) = o
        /\ Fixed(d, o, 1) = o /\ BreakIf(o, o.at + 4 > Len(d)) = o /\ Fixed(d, o, 4) = o
    BY StoppedStays
  <2>2. WhoEntry(d, o) = o
    BY <2>1, Zenon DEF WhoEntry
  <2> QED BY <1>2, <2>2 DEF Entry
<1>3. CASE layout = "roster"
  <2>1. /\ Fixed(d, o, 9) = o /\ Cstring(d, o) = o /\ Skip(o, 4) = o /\ Fixed(d, o, 2) = o
        /\ Fixed(d, o, 4) = o
    BY StoppedStays
  <2>2. RosterEntry(d, o) = SkipString(d, SkipString(d, o))
    BY <2>1, Zenon DEF RosterEntry
  <2>3. SkipString(d, SkipString(d, o)).state = o.state
    BY <1>1
  <2> QED BY <1>3, <2>2, <2>3 DEF Entry
<1>4. CASE layout = "event"
  <2>1. Cstring(d, o) = o
    BY StoppedStays
  <2> QED BY <1>4, <2>1 DEF Entry
<1> QED BY <1>2, <1>3, <1>4

\* A reader that has stopped in the list stays as it is.
LEMMA StoppedTakesNothing ==
    ASSUME NEW layout \in {"who", "roster", "event"}, NEW d, NEW c, c.state # "more"
    PROVE  LET one == OneMore(layout, d, c) IN one.state = c.state /\ one.fields = c.fields
<1> DEFINE o == [c EXCEPT !.fields = <<>>]
           one == Entry(layout, d, o)
<1>1. o.state = c.state
  OBVIOUS
<1>2. BreakIf(o, c.at >= Len(d)) = o
  <2> HIDE DEF o
  <2> QED BY <1>1, StoppedStays
<1> HIDE DEF o
<1>3. one.state = c.state
  BY <1>1, EntryStays
<1>4. OneMore(layout, d, c) =
         [one EXCEPT !.fields = IF one.state = "more" THEN Append(c.fields, one.fields)
                                ELSE c.fields]
  BY <1>2, Zenon DEF OneMore, o
<1> HIDE DEF one
<1>5. OneMore(layout, d, c) = [one EXCEPT !.fields = c.fields]
  BY <1>3, <1>4
<1> QED BY <1>3, <1>5

\* It suffices to see what Entry makes of a reader that is not at the end.
LEMMA EntryTakes ==
    ASSUME NEW layout \in {"who", "roster", "event"}, NEW d, Len(d) \in Nat, NEW k \in Nat,
           NEW n \in Nat \ {0}, NEW e, NEW torn, torn => k < Len(d),
           k < Len(d) =>
              LET one == Entry(layout, d, Reader(k, <<>>))
              IN  /\ k + n <= Len(d) => one = Reader(k + n, e)
                  /\ ~(k + n <= Len(d)) =>
                        one.state # "more" /\ (one.state = "raised" <=> torn)
    PROVE  Takes(layout, d, k, n, e, torn)
<1> SUFFICES ASSUME NEW fs
             PROVE  LET one == OneMore(layout, d, Reader(k, fs))
                    IN  /\ k + n <= Len(d) => one = Reader(k + n, Append(fs, e))
                        /\ ~(k + n <= Len(d)) =>
                              one.state # "more" /\ one.fields = fs
                              /\ (one.state = "raised" <=> torn)
  BY Zenon DEF Takes
<1> DEFINE open == BreakIf(Reader(k, <<>>), k >= Len(d))
           one == Entry(layout, d, open)
<1>1. OneMore(layout, d, Reader(k, fs)) =
         [one EXCEPT !.fields = IF one.state = "more" THEN Append(fs, one.fields) ELSE fs]
  <2>1. /\ [Reader(k, fs) EXCEPT !.fields = <<>>] = Reader(k, <<>>)
        /\ Reader(k, fs).at = k /\ Reader(k, fs).fields = fs
    BY DEF Reader
  <2> QED BY <2>1, Zenon DEF OneMore
<1>2. /\ k + n <= Len(d) => one = Reader(k + n, e)
      /\ ~(k + n <= Len(d)) => one.state # "more" /\ (one.state = "raised" <=> torn)
  <2>1. CASE k < Len(d)
    <3>1. open = Reader(k, <<>>)
      BY <2>1 DEF BreakIf, Reader
    <3> HIDE DEF open
    <3> QED BY <2>1, <3>1
  <2>2. CASE ~(k < Len(d))
    <3>1. open = [Reader(k, <<>>) EXCEPT !.state = "broken"]
      BY <2>2 DEF BreakIf, Reader
    <3>2. open.state = "broken"
      BY <3>1 DEF Reader
    <3> HIDE DEF open
    <3>3. one.state = "broken"
      BY <3>2, EntryStays
    <3>4. ~(k + n <= Len(d)) /\ ~torn
      BY <2>2
    <3> QED BY <3>3, <3>4
  <2> QED BY <2>1, <2>2
<1> HIDE DEF one
<1>3. CASE k + n <= Len(d)
  <2>1. one = Reader(k + n, e)
    BY <1>2, <1>3
  <2> QED BY <1>1, <1>3, <2>1 DEF Reader
<1>4. CASE ~(k + n <= Len(d))
  <2>1. one.state # "more" /\ (one.state = "raised" <=> torn)
    BY <1>2, <1>4
  <2>2. OneMore(layout, d, Reader(k, fs)) = [one EXCEPT !.fields = fs]
    BY <1>1, <2>1
  <2> QED BY <1>4, <2>1, <2>2
<1> QED BY <1>3, <1>4

LEMMA PrefixGrows ==
    ASSUME NEW S, NEW list \in Seq(S), NEW i \in 0..Len(list) - 1
    PROVE  SubSeq(list, 1, i + 1) = Append(SubSeq(list, 1, i), list[i + 1])
<1> DEFINE p == SubSeq(list, 1, i)
           q == SubSeq(list, 1, i + 1)
           x == list[i + 1]
           r == Append(p, x)
<1>1. Len(list) \in Nat /\ i \in Nat /\ i + 1 \in 1..Len(list) /\ x \in S
  BY LenProperties, ElementOfSeq
<1>2. p \in Seq(S) /\ Len(p) = i /\ \A j \in 1..i : p[j] = list[j]
  BY <1>1
<1>3. q \in Seq(S) /\ Len(q) = i + 1 /\ \A j \in 1..i + 1 : q[j] = list[j]
  BY <1>1
<1> HIDE DEF p, q
<1>4. r \in Seq(S) /\ Len(r) = i + 1 /\ r[i + 1] = x /\ \A j \in 1..i : r[j] = p[j]
  <2> HIDE DEF x
  <2> QED BY <1>1, <1>2, AppendProperties
<1> HIDE DEF r
<1>5. ASSUME NEW j \in 1..i + 1 PROVE q[j] = r[j]
  <2>1. CASE j = i + 1
    BY <1>3, <1>4, <2>1
  <2>2. CASE j # i + 1
    <3>1. j \in 1..i
      BY <1>1, <2>2
    <3> QED BY <1>2, <1>3, <1>4, <3>1
  <2> QED BY <2>1, <2>2
<1>6. q = r
  BY <1>3, <1>4, <1>5, SeqEqual
<1> QED BY <1>6 DEF p, q, r

\* The reader c of the list that starts at k has taken its first n entries, or
\* has stopped in the entry behind them.
Taken(c, list, f, k, d, n) ==
    /\ c = Reader(k + Behind(list, f, n), SubSeq(list, 1, n))
    /\ n = 0 \/ k + Behind(list, f, n) <= Len(d)

StopsBehind(c, list, f, torn, k, d, n) ==
    /\ n = 0 \/ k + Behind(list, f, n) <= Len(d)
    /\ Len(d) < k + Behind(list, f, n + 1)
    /\ c.state # "more" /\ c.fields = SubSeq(list, 1, n)
    /\ c.state = "raised" <=> Len(d) - (k + Behind(list, f, n)) \in torn[list[n + 1]]

LEMMA EntriesRead ==
    ASSUME NEW layout \in {"who", "roster", "event"}, NEW S, NEW f \in [S -> Texts],
           NEW list \in Seq(S), NEW d, Len(d) \in Nat, NEW k \in Nat, NEW torn,
           \A i \in 0..Len(list) - 1 :
              Takes(layout, d, k + Behind(list, f, i), Len(f[list[i + 1]]), list[i + 1],
                    Len(d) - (k + Behind(list, f, i)) \in torn[list[i + 1]])
    PROVE  LET all == Entries(layout, d, Reader(k, <<>>), Len(list))
           IN  \/ Taken(all, list, f, k, d, Len(list))
               \/ \E n \in 0..Len(list) - 1 : StopsBehind(all, list, f, torn, k, d, n)
<1> DEFINE count == Len(list)
<1>0. count \in Nat
  BY LenProperties
<1> HIDE DEF count
<1>1. PICK h : /\ IsWalk(layout, d, Reader(k, <<>>), count, h)
               /\ Entries(layout, d, Reader(k, <<>>), count) = h[count]
  BY <1>0, EntriesDefined
<1> DEFINE Good(i) == \/ Taken(h[i], list, f, k, d, i)
                      \/ \E n \in 0..i - 1 : StopsBehind(h[i], list, f, torn, k, d, n)
           T == {i \in Nat : i <= count => Good(i)}
<1>2. 0 \in T
  <2>1. h[0] = Reader(k, <<>>)
    BY <1>1 DEF IsWalk
  <2>2. Behind(list, f, 0) = 0 /\ SubSeq(list, 1, 0) = <<>>
    BY CodeEmpty
  <2>3. k + 0 = k
    OBVIOUS
  <2>4. Taken(h[0], list, f, k, d, 0)
    BY <2>1, <2>2, <2>3 DEF Taken
  <2> QED BY <2>4
<1>3. ASSUME NEW i \in Nat, i \in T PROVE i + 1 \in T
  <2> SUFFICES ASSUME i + 1 <= count PROVE Good(i + 1)
    OBVIOUS
  <2>1. i \in 0..count - 1 /\ i \in 0..count /\ i + 1 \in 1..count /\ (i + 1) - 1 = i
    BY <1>0
  <2>2. h[i + 1] = OneMore(layout, d, h[i])
    BY <1>1, <2>1 DEF IsWalk
  <2>3. Good(i)
    BY <1>0, <1>3, <2>1
  <2>4. /\ Behind(list, f, i) \in Nat
        /\ Behind(list, f, i + 1) = Behind(list, f, i) + Len(f[list[i + 1]])
    BY <2>1, CodeIs DEF count
  <2>5. f[list[i + 1]] \in Texts
    BY <2>1, ElementOfSeq DEF count
  <2> DEFINE n == Len(f[list[i + 1]])
             at == k + Behind(list, f, i)
             tears == Len(d) - at \in torn[list[i + 1]]
  <2>6. n \in Nat /\ at \in Nat /\ k + Behind(list, f, i + 1) = at + n
    BY <2>4, <2>5, LenProperties DEF Texts
  <2>7. CASE Taken(h[i], list, f, k, d, i)
    <3>1. h[i] = Reader(at, SubSeq(list, 1, i)) /\ (i = 0 \/ at <= Len(d))
      BY <2>7 DEF Taken
    <3>2. Takes(layout, d, at, n, list[i + 1], tears)
      BY <2>1 DEF count
    <3> HIDE DEF n, at, tears
    <3>3. /\ at + n <= Len(d) =>
                h[i + 1] = Reader(at + n, Append(SubSeq(list, 1, i), list[i + 1]))
          /\ ~(at + n <= Len(d)) =>
                /\ h[i + 1].state # "more" /\ h[i + 1].fields = SubSeq(list, 1, i)
                /\ h[i + 1].state = "raised" <=> tears
      <4> DEFINE fs == SubSeq(list, 1, i)
                 one == OneMore(layout, d, Reader(at, fs))
      <4>1. /\ at + n <= Len(d) => one = Reader(at + n, Append(fs, list[i + 1]))
            /\ ~(at + n <= Len(d)) =>
                  one.state # "more" /\ one.fields = fs /\ (one.state = "raised" <=> tears)
        BY <3>2, Zenon DEF Takes
      <4>2. h[i + 1] = one
        BY <2>2, <3>1
      <4> HIDE DEF one
      <4> QED BY <4>1, <4>2
    <3>4. CASE at + n <= Len(d)
      <4>1. SubSeq(list, 1, i + 1) = Append(SubSeq(list, 1, i), list[i + 1])
        BY <2>1, PrefixGrows DEF count
      <4>2. Taken(h[i + 1], list, f, k, d, i + 1)
        BY <2>6, <3>3, <3>4, <4>1 DEF Taken
      <4> QED BY <4>2
    <3>5. CASE ~(at + n <= Len(d))
      <4>1. Len(d) < k + Behind(list, f, i + 1)
        BY <2>6, <3>5
      <4>2. StopsBehind(h[i + 1], list, f, torn, k, d, i)
        BY <3>1, <3>3, <3>5, <4>1 DEF StopsBehind, at, tears
      <4>3. i \in 0..(i + 1) - 1
        OBVIOUS
      <4> QED BY <4>2, <4>3
    <3> QED BY <3>4, <3>5
  <2>8. CASE \E m \in 0..i - 1 : StopsBehind(h[i], list, f, torn, k, d, m)
    <3>1. PICK m \in 0..i - 1 : StopsBehind(h[i], list, f, torn, k, d, m)
      BY <2>8
    <3>2. h[i + 1].state = h[i].state /\ h[i + 1].fields = h[i].fields
      BY <2>2, <3>1, StoppedTakesNothing DEF StopsBehind
    <3>3. StopsBehind(h[i + 1], list, f, torn, k, d, m)
      BY <3>1, <3>2 DEF StopsBehind
    <3>4. m \in 0..(i + 1) - 1
      OBVIOUS
    <3> QED BY <3>3, <3>4
  <2> QED BY <2>3, <2>7, <2>8
<1>4. Nat \subseteq T
  <2> HIDE DEF T
  <2> QED BY <1>2, <1>3, SetInduction
<1>5. Good(count)
  BY <1>0, <1>4
<1> QED BY <1>1, <1>5 DEF count

-----------------------------------------------------------------------------
LEMMA AppendIs ==
    ASSUME NEW S, NEW s \in Seq(S), NEW e \in S, NEW t \in Seq(S), Len(t) = Len(s) + 1,
           t[Len(s) + 1] = e, \A i \in 1..Len(s) : t[i] = s[i]
    PROVE  Append(s, e) = t
<1> DEFINE u == Append(s, e)
<1>1. /\ u \in Seq(S) /\ Len(u) = Len(s) + 1 /\ u[Len(s) + 1] = e /\ Len(s) \in Nat
      /\ \A i \in 1..Len(s) : u[i] = s[i]
  BY AppendProperties, LenProperties
<1> HIDE DEF u
<1>2. ASSUME NEW i \in 1..Len(s) + 1 PROVE u[i] = t[i]
  <2>1. i = Len(s) + 1 \/ i \in 1..Len(s)
    BY <1>1
  <2> QED BY <1>1, <2>1
<1>3. u = t
  BY <1>1, <1>2, SeqEqual
<1> QED BY <1>3 DEF u

\* The fields of an entry, as they are collected.
LEMMA AppendSecond ==
    ASSUME NEW S, NEW x1 \in S, NEW x2 \in S
    PROVE  Append(<<x1>>, x2) = <<x1, x2>>
<1> DEFINE s1 == <<x1>>
           s2 == <<x1, x2>>
<1>1. s1 \in Seq(S) /\ Len(s1) = 1 /\ s1[1] = x1
  OBVIOUS
<1>2. s2 \in Seq(S) /\ Len(s2) = 2 /\ s2[1] = x1 /\ s2[2] = x2
  OBVIOUS
<1> HIDE DEF s1, s2
<1>3. Len(s2) = Len(s1) + 1 /\ s2[Len(s1) + 1] = x2 /\ \A i \in 1..Len(s1) : s2[i] = s1[i]
  BY <1>1, <1>2
<1>4. Append(s1, x2) = s2
  BY <1>1, <1>2, <1>3, AppendIs
<1> QED BY <1>4 DEF s1, s2

LEMMA AppendThird ==
    ASSUME NEW S, NEW x1 \in S, NEW x2 \in S, NEW x3 \in S
    PROVE  Append(<<x1, x2>>, x3) = <<x1, x2, x3>>
<1> DEFINE s2 == <<x1, x2>>
           s3 == <<x1, x2, x3>>
<1>1. s2 \in Seq(S) /\ Len(s2) = 2 /\ s2[1] = x1 /\ s2[2] = x2
  OBVIOUS
<1>2. s3 \in Seq(S) /\ Len(s3) = 3 /\ s3[1] = x1 /\ s3[2] = x2 /\ s3[3] = x3
  OBVIOUS
<1> HIDE DEF s2, s3
<1>3. Len(s3) = Len(s2) + 1 /\ s3[Len(s2) + 1] = x3 /\ \A i \in 1..Len(s2) : s3[i] = s2[i]
  BY <1>1, <1>2
<1>4. Append(s2, x3) = s3
  BY <1>1, <1>2, <1>3, AppendIs
<1> QED BY <1>4 DEF s2, s3

LEMMA AppendFields ==
    ASSUME NEW S, NEW x1 \in S, NEW x2 \in S, NEW x3 \in S, NEW x4 \in S, NEW x5 \in S
    PROVE  /\ Append(<<>>, x1) = <<x1>> /\ Append(<<x1>>, x2) = <<x1, x2>>
           /\ Append(<<x1, x2>>, x3) = <<x1, x2, x3>>
           /\ Append(<<x1, x2, x3>>, x4) = <<x1, x2, x3, x4>>
           /\ Append(<<x1, x2, x3, x4>>, x5) = <<x1, x2, x3, x4, x5>>
<1> DEFINE s1 == <<x1>>
           s2 == <<x1, x2>>
           s3 == <<x1, x2, x3>>
           s4 == <<x1, x2, x3, x4>>
           s5 == <<x1, x2, x3, x4, x5>>
<1>1. s3 \in Seq(S) /\ Len(s3) = 3 /\ s3[1] = x1 /\ s3[2] = x2 /\ s3[3] = x3
  OBVIOUS
<1>2. s4 \in Seq(S) /\ Len(s4) = 4 /\ s4[1] = x1 /\ s4[2] = x2 /\ s4[3] = x3 /\ s4[4] = x4
  OBVIOUS
<1>3. s5 \in Seq(S) /\ Len(s5) = 5 /\ s5[1] = x1 /\ s5[2] = x2 /\ s5[3] = x3 /\ s5[4] = x4
      /\ s5[5] = x5
  OBVIOUS
<1>4. Append(<<>>, x1) = s1
  OBVIOUS
<1> HIDE DEF s1, s2, s3, s4, s5
<1>5. /\ \A i \in 1..3 : i = 1 \/ i = 2 \/ i = 3
      /\ \A i \in 1..4 : i = 1 \/ i = 2 \/ i = 3 \/ i = 4
      /\ 3 + 1 = 4 /\ 4 + 1 = 5
  OBVIOUS
<1>6. Append(s1, x2) = s2
  BY AppendSecond DEF s1, s2
<1>7. Append(s2, x3) = s3
  BY AppendThird DEF s2, s3
<1>8. Append(s3, x4) = s4
  <2>1. Len(s4) = Len(s3) + 1 /\ s4[Len(s3) + 1] = x4 /\ \A i \in 1..Len(s3) : s4[i] = s3[i]
    BY <1>1, <1>2, <1>5
  <2> QED BY <1>1, <1>2, <2>1, AppendIs
<1>9. Append(s4, x5) = s5
  <2>1. Len(s5) = Len(s4) + 1 /\ s5[Len(s4) + 1] = x5 /\ \A i \in 1..Len(s4) : s5[i] = s4[i]
    BY <1>2, <1>3, <1>5
  <2> QED BY <1>2, <1>3, <2>1, AppendIs
<1> QED BY <1>4, <1>6, <1>7, <1>8, <1>9 DEF s1, s2, s3, s4, s5

LEMMA FieldIs ==
    /\ \A n \in Nat : \A s \in Field(n) : s \in Texts /\ Len(s) = n
    /\ \A s \in Strings :
          /\ s \in Texts /\ s \in Seq(Nat \ {0}) /\ Len(s) \in Nat
          /\ Append(s, 0) \in Texts /\ Len(Append(s, 0)) = Len(s) + 1
<1>1. \A n \in Nat : \A s \in Field(n) : s \in Texts /\ Len(s) = n
  BY DEF Field, Texts
<1>2. ASSUME NEW s \in Strings
      PROVE  /\ s \in Texts /\ s \in Seq(Nat \ {0}) /\ Len(s) \in Nat
             /\ Append(s, 0) \in Texts /\ Len(Append(s, 0)) = Len(s) + 1
  <2>1. s \in Texts /\ s \in Seq(Nat \ {0})
    BY DEF Strings, Texts
  <2> QED BY <2>1, AppendProperties, LenProperties DEF Texts
<1> QED BY <1>1, <1>2

-----------------------------------------------------------------------------
\* The bytes of a player in a /who list, and where the list may not end.
WhoCode ==
    [e \in PlayerEntries |-> Append(e[1], 0) \o Append(e[2], 0) \o e[3] \o e[4] \o e[5]]
WhoTorn == [e \in PlayerEntries |-> 1..Len(e[1]) + Len(e[2]) + 1]

LEMMA PlayerIs ==
    ASSUME NEW e \in PlayerEntries
    PROVE  /\ e = <<e[1], e[2], e[3], e[4], e[5]>>
           /\ e[1] \in Strings /\ e[2] \in Strings
           /\ e[3] \in Texts /\ Len(e[3]) = 12 /\ e[4] \in Texts /\ Len(e[4]) = 1
           /\ e[5] \in Texts /\ Len(e[5]) = 4
<1>1. /\ e = <<e[1], e[2], e[3], e[4], e[5]>> /\ e[1] \in Strings /\ e[2] \in Strings
      /\ e[3] \in Field(12) /\ e[4] \in Field(1) /\ e[5] \in Field(4)
  BY DEF PlayerEntries
<1> QED BY <1>1, FieldIs

LEMMA PlayerLayout ==
    ASSUME NEW e \in PlayerEntries
    PROVE  LET b == WhoCode[e]
               m == Len(e[1]) + 1
               n == Len(e[2]) + 1
           IN  /\ b \in Texts /\ Len(b) = m + n + 17 /\ m \in Nat /\ n \in Nat
               /\ At(b, 0, Append(e[1], 0)) /\ At(b, m, Append(e[2], 0))
               /\ At(b, m + n, e[3]) /\ At(b, m + n + 12, e[4]) /\ At(b, m + n + 13, e[5])
<1> DEFINE p1 == Append(e[1], 0)
           p2 == Append(e[2], 0)
           p3 == e[3]
           p4 == e[4]
           p5 == e[5]
           none == <<>>
           b == p1 \o p2 \o p3 \o p4 \o p5
           m == Len(e[1]) + 1
           n == Len(e[2]) + 1
<1>1. /\ p1 \in Texts /\ Len(p1) = m /\ p2 \in Texts /\ Len(p2) = n
      /\ p3 \in Texts /\ Len(p3) = 12 /\ p4 \in Texts /\ Len(p4) = 1
      /\ p5 \in Texts /\ Len(p5) = 4 /\ m \in Nat /\ n \in Nat
      /\ none \in Texts /\ Len(none) = 0
  <2>1. /\ Append(e[1], 0) \in Texts /\ Len(Append(e[1], 0)) = Len(e[1]) + 1
        /\ Append(e[2], 0) \in Texts /\ Len(Append(e[2], 0)) = Len(e[2]) + 1
        /\ Len(e[1]) \in Nat /\ Len(e[2]) \in Nat
    BY PlayerIs, FieldIs
  <2>2. none \in Texts /\ Len(none) = 0
    BY DEF Texts
  <2> QED BY <2>1, <2>2, PlayerIs
<1>2. WhoCode[e] = b
  BY DEF WhoCode
<1> HIDE DEF p1, p2, p3, p4, p5, none, m, n
<1>3. b \in Texts /\ b \o none \o none = b
  <2>1. /\ p1 \o p2 \in Texts /\ p1 \o p2 \o p3 \in Texts
        /\ p1 \o p2 \o p3 \o p4 \in Texts /\ b \in Texts
    <3>1. p1 \o p2 \in Texts
      BY <1>1, AtConcat
    <3>2. p1 \o p2 \o p3 \in Texts
      BY <1>1, <3>1, AtConcat
    <3>3. p1 \o p2 \o p3 \o p4 \in Texts
      BY <1>1, <3>2, AtConcat
    <3>4. b \in Texts
      BY <1>1, <3>3, AtConcat
    <3> QED BY <3>1, <3>2, <3>3, <3>4
  <2>2. \A x \in Texts : x \o none = x
    BY ConcatEmptySeq DEF none, Texts
  <2> HIDE DEF b
  <2> QED BY <2>1, <2>2
<1>4. SevenParts(p1, p2, p3, p4, p5, none, none, b)
  <2>1. SevenParts(p1, p2, p3, p4, p5, none, none, p1 \o p2 \o p3 \o p4 \o p5 \o none \o none)
    BY <1>1, SevenPartsJoined
  <2> QED BY <1>3, <2>1
<1> HIDE DEF b
<1>5. /\ Len(b) = m + n + 12 + 1 + 4 + 0 + 0 /\ At(b, 0, p1) /\ At(b, m, p2)
      /\ At(b, m + n, p3) /\ At(b, m + n + 12, p4) /\ At(b, m + n + 12 + 1, p5)
  BY <1>1, <1>4 DEF SevenParts
<1>6. m + n + 12 + 1 + 4 + 0 + 0 = m + n + 17 /\ m + n + 12 + 1 = m + n + 13
  BY <1>1
<1> QED BY <1>1, <1>2, <1>3, <1>5, <1>6 DEF p1, p2, p3, p4, p5, m, n

\* A complete player is taken; the list breaks off in one that is not, and
\* raises if it ends within the player's two strings.
LEMMA PlayerTaken ==
    ASSUME NEW b \in Texts, NEW d, IsCut(d, b), NEW e \in PlayerEntries, NEW k,
           At(b, k, WhoCode[e])
    PROVE  Takes("who", d, k, Len(WhoCode[e]), e, Len(d) - k \in WhoTorn[e])
<1> DEFINE x == Len(e[1])
           y == Len(e[2])
           l == Len(d)
           m == x + 1
           n == y + 1
           q == k + (m + n)
           c == WhoCode[e]
           open == Reader(k, <<>>)
           guild == Cstring(d, Cstring(d, open))
           stats == Fixed(d, BreakIf(guild, guild.at + 12 >= Len(d)), 12)
           gender == Fixed(d, stats, 1)
           zone == Fixed(d, BreakIf(gender, gender.at + 4 > Len(d)), 4)
           torn == l - k \in 1..x + y + 1
<1>1. /\ e = <<e[1], e[2], e[3], e[4], e[5]>>
      /\ e[1] \in Strings /\ e[2] \in Strings
      /\ e[3] \in Texts /\ Len(e[3]) = 12 /\ e[4] \in Texts /\ Len(e[4]) = 1
      /\ e[5] \in Texts /\ Len(e[5]) = 4
  BY PlayerIs
<1>2. /\ e[1] \in Seq(Nat \ {0}) /\ e[2] \in Seq(Nat \ {0}) /\ e[1] \in Texts /\ e[2] \in Texts
      /\ Append(e[1], 0) \in Texts /\ Append(e[2], 0) \in Texts
      /\ x \in Nat /\ y \in Nat
  BY <1>1, FieldIs
<1>3. /\ c \in Texts /\ Len(c) = m + n + 17 /\ m \in Nat /\ n \in Nat
      /\ At(c, 0, Append(e[1], 0)) /\ At(c, m, Append(e[2], 0))
      /\ At(c, m + n, e[3]) /\ At(c, m + n + 12, e[4]) /\ At(c, m + n + 13, e[5])
  BY PlayerLayout
<1>4. /\ Append(<<>>, e[1]) = <<e[1]>> /\ Append(<<e[1]>>, e[2]) = <<e[1], e[2]>>
      /\ Append(<<e[1], e[2]>>, e[3]) = <<e[1], e[2], e[3]>>
      /\ Append(<<e[1], e[2], e[3]>>, e[4]) = <<e[1], e[2], e[3], e[4]>>
      /\ Append(<<e[1], e[2], e[3], e[4]>>, e[5]) = e
  BY <1>1, <1>2, AppendFields
<1>5. l \in Nat /\ k \in Nat
  BY DEF IsCut, At
<1>6. At(b, k, c)
  OBVIOUS
<1> HIDE DEF c, x, y, l
<1>7. /\ q \in Nat /\ k + (m + n + 12) = q + 12 /\ k + (m + n + 13) = q + 13
      /\ k + (m + n + 17) = q + 17 /\ (torn <=> k < l /\ l < q)
      /\ k + m \in Nat /\ (k + m) + n = q /\ m \in Nat /\ l \in Nat /\ k < q /\ k \in Nat
      /\ (q <= l => k + m <= l) /\ k + x + 1 = k + m /\ (k + m) + y + 1 = q
      /\ m + n + 17 \in Nat \ {0}
  BY <1>2, <1>5
<1> HIDE DEF m, n, q, torn
<1>8. /\ At(b, k, Append(e[1], 0)) /\ At(b, k + m, Append(e[2], 0))
      /\ At(b, k + (m + n), e[3]) /\ At(b, k + (m + n + 12), e[4])
      /\ At(b, k + (m + n + 13), e[5])
  <2>1. At(b, k + 0, Append(e[1], 0))
    BY <1>2, <1>3, <1>6, AtBehind
  <2>2. k + 0 = k
    BY <1>5
  <2>3. At(b, k + m, Append(e[2], 0))
    BY <1>2, <1>3, <1>6, AtBehind
  <2>4. At(b, k + (m + n), e[3])
    BY <1>1, <1>3, <1>6, AtBehind
  <2>5. At(b, k + (m + n + 12), e[4])
    BY <1>1, <1>3, <1>6, AtBehind
  <2>6. At(b, k + (m + n + 13), e[5])
    BY <1>1, <1>3, <1>6, AtBehind
  <2> QED BY <2>1, <2>2, <2>3, <2>4, <2>5, <2>6
<1>10. WhoEntry(d, open) = zone
  BY Zenon DEF WhoEntry
<1>11. ASSUME k < l
       PROVE  /\ q + 17 <= l => zone = Reader(q + 17, e)
              /\ ~(q + 17 <= l) => zone.state # "more" /\ (zone.state = "raised" <=> torn)
  <2>1. Reads(open, d, k, <<>>)
    BY <1>5, <1>11 DEF Reads, l
  <2>3. Reads(Cstring(d, open), d, k + m, <<e[1]>>)
    <3>1. Reads(Cstring(d, open), d, k + x + 1, Append(<<>>, e[1]))
      BY <1>2, <1>8, <2>1, ReadsCstring DEF x
    <3> QED BY <1>4, <1>7, <3>1
  <2>4. Reads(guild, d, q, <<e[1], e[2]>>)
    <3>1. Reads(guild, d, (k + m) + y + 1, Append(<<e[1]>>, e[2]))
      BY <1>2, <1>8, <2>3, ReadsCstring DEF y
    <3> QED BY <1>4, <1>7, <3>1
  <2> HIDE DEF open, guild
  <2>5. /\ q + 17 <= l => zone = Reader(q + 17, e)
        /\ ~(q + 17 <= l) => zone.state # "more" /\ (zone.state = "raised" <=> torn)
    <3>1. CASE l < q
      <4>1. guild.state = "raised" /\ torn
        BY <1>7, <1>11, <2>4, <3>1 DEF Reads, l
      <4>2. BreakIf(guild, guild.at + 12 >= Len(d)) = guild /\ Fixed(d, guild, 12) = guild
            /\ Fixed(d, guild, 1) = guild /\ BreakIf(guild, guild.at + 4 > Len(d)) = guild
            /\ Fixed(d, guild, 4) = guild
        BY <4>1, StoppedStays
      <4>3. zone = guild
        BY <4>2
      <4> HIDE DEF zone
      <4> QED BY <1>7, <3>1, <4>1, <4>3
    <3>2. CASE q <= l /\ l <= q + 12
      <4>1. guild = Reader(q, <<e[1], e[2]>>) /\ ~torn
        BY <1>7, <2>4, <3>2 DEF Reads, l
      <4> DEFINE o == BreakIf(guild, guild.at + 12 >= Len(d))
      <4>2. o.state = "broken"
        BY <1>7, <3>2, <4>1 DEF BreakIf, Reader, l
      <4> HIDE DEF o
      <4>3. Fixed(d, o, 12) = o /\ Fixed(d, o, 1) = o /\ BreakIf(o, o.at + 4 > Len(d)) = o
            /\ Fixed(d, o, 4) = o
        BY <4>2, StoppedStays
      <4>4. zone = o
        BY <4>3 DEF o
      <4> HIDE DEF zone
      <4> QED BY <1>7, <3>2, <4>1, <4>2, <4>4
    <3>3. CASE q + 12 < l
      <4>1. guild = Reader(q, <<e[1], e[2]>>) /\ ~torn
        <5>1. q <= l
          BY <1>7, <3>3
        <5> QED BY <1>7, <2>4, <5>1 DEF Reads, l
      <4>2. BreakIf(guild, guild.at + 12 >= Len(d)) = Reader(q, <<e[1], e[2]>>)
        BY <1>7, <3>3, <4>1 DEF BreakIf, Reader, l
      <4>3. At(b, q, e[3]) /\ At(b, q + 12, e[4]) /\ At(b, q + 13, e[5])
        BY <1>8, <1>7 DEF q
      <4>4. Reads(Reader(q, <<e[1], e[2]>>), d, q, <<e[1], e[2]>>)
        BY <1>7, <3>3 DEF Reads, l
      <4>5. Reads(stats, d, q + 12, <<e[1], e[2], e[3]>>)
        <5> DEFINE r == Reader(q, <<e[1], e[2]>>)
        <5>1. stats = Fixed(d, r, 12)
          BY <4>2
        <5>2. Reads(r, d, q, <<e[1], e[2]>>)
          BY <4>4
        <5> HIDE DEF r, stats
        <5>3. Reads(Fixed(d, r, Len(e[3])), d, q + Len(e[3]), Append(<<e[1], e[2]>>, e[3]))
          BY <1>1, <4>3, <5>2, ReadsFixed
        <5> QED BY <1>1, <1>4, <5>1, <5>3
      <4> HIDE DEF stats
      <4>6. Reads(gender, d, q + 13, <<e[1], e[2], e[3], e[4]>>)
        <5>1. Reads(Fixed(d, stats, Len(e[4])), d, (q + 12) + Len(e[4]),
                    Append(<<e[1], e[2], e[3]>>, e[4]))
          BY <1>1, <4>3, <4>5, ReadsFixed
        <5>2. (q + 12) + 1 = q + 13
          BY <1>7
        <5> QED BY <1>1, <1>4, <5>1, <5>2
      <4> HIDE DEF gender
      <4>7. gender = Reader(q + 13, <<e[1], e[2], e[3], e[4]>>)
        <5>1. q + 13 <= l
          BY <1>7, <3>3
        <5> QED BY <4>6, <5>1 DEF Reads, l
      <4>8. CASE l < q + 17
        <5> DEFINE o == BreakIf(gender, gender.at + 4 > Len(d))
        <5>1. o.state = "broken"
          BY <1>7, <4>7, <4>8 DEF BreakIf, Reader, l
        <5> HIDE DEF o
        <5>2. Fixed(d, o, 4) = o
          BY <5>1, StoppedStays
        <5>3. zone = o
          BY <5>2 DEF o
        <5> HIDE DEF zone
        <5> QED BY <1>7, <4>1, <4>8, <5>1, <5>3
      <4>9. CASE ~(l < q + 17)
        <5>1. BreakIf(gender, gender.at + 4 > Len(d)) = gender
          BY <1>7, <4>7, <4>9 DEF BreakIf, Reader, l
        <5>2. Reads(Fixed(d, gender, Len(e[5])), d, (q + 13) + Len(e[5]),
                    Append(<<e[1], e[2], e[3], e[4]>>, e[5]))
          BY <1>1, <4>3, <4>6, ReadsFixed
        <5>3. (q + 13) + 4 = q + 17 /\ q + 17 <= l
          BY <1>7, <4>9
        <5>4. zone = Reader(q + 17, e)
          <6>1. zone = Fixed(d, gender, 4)
            BY <5>1
          <6> HIDE DEF zone
          <6> QED BY <1>1, <1>4, <5>2, <5>3, <6>1 DEF Reads, l
        <5> HIDE DEF zone
        <5> QED BY <5>3, <5>4
      <4> QED BY <4>8, <4>9
    <3> QED BY <1>7, <3>1, <3>2, <3>3
  <2> QED BY <2>5
<1>12. Entry("who", d, Reader(k, <<>>)) = zone
  BY <1>10 DEF Entry
<1>13. torn <=> Len(d) - k \in WhoTorn[e]
  BY DEF torn, WhoTorn, l, x, y
<1>14. torn => k < Len(d)
  BY <1>7 DEF l
<1> HIDE DEF zone, open
<1>15. Takes("who", d, k, m + n + 17, e, torn)
  BY <1>5, <1>7, <1>11, <1>12, <1>14, EntryTakes DEF l
<1> QED BY <1>3, <1>13, <1>15 DEF c

-----------------------------------------------------------------------------
\* The bytes of a member in a roster, which may not end within them.
MemberEntries == OnlineEntries \cup OfflineEntries
LastLogoff(m) == IF Len(m) = 5 THEN m[5] ELSE <<>>
MemberCode ==
    [m \in MemberEntries |-> m[1] \o Append(m[2], 0) \o Zero(4) \o m[3] \o m[4]
                             \o LastLogoff(m) \o <<1, 0, 0>>]
MemberTorn == [m \in MemberEntries |-> 1..Len(MemberCode[m]) - 1]

LEMMA MemberIs ==
    ASSUME NEW e \in MemberEntries
    PROVE  /\ \/ /\ e = <<e[1], e[2], e[3], e[4]>> /\ e[1][9] # 0
                 /\ LastLogoff(e) = <<>>
              \/ /\ e = <<e[1], e[2], e[3], e[4], e[5]>> /\ e[1][9] = 0
                 /\ LastLogoff(e) = e[5] /\ Len(LastLogoff(e)) = 4
           /\ e[1] \in Texts /\ Len(e[1]) = 9 /\ e[2] \in Strings
           /\ e[3] \in Texts /\ Len(e[3]) = 2 /\ e[4] \in Texts /\ Len(e[4]) = 4
           /\ LastLogoff(e) \in Texts
<1>1. CASE e \in OnlineEntries
  <2>1. /\ e = <<e[1], e[2], e[3], e[4]>> /\ Len(e) = 4 /\ e[1] \in Field(9)
        /\ e[2] \in Strings /\ e[3] \in Field(2) /\ e[4] \in Field(4) /\ e[1][9] # 0
    BY <1>1 DEF OnlineEntries
  <2>2. LastLogoff(e) = <<>> /\ <<>> \in Texts
    BY <2>1 DEF LastLogoff, Texts
  <2> QED BY <2>1, <2>2, FieldIs
<1>2. CASE e \in OfflineEntries
  <2>1. /\ e = <<e[1], e[2], e[3], e[4], e[5]>> /\ Len(e) = 5 /\ e[1] \in Field(9)
        /\ e[2] \in Strings /\ e[3] \in Field(2) /\ e[4] \in Field(4) /\ e[5] \in Field(4)
        /\ e[1][9] = 0
    BY <1>2 DEF OfflineEntries
  <2>2. LastLogoff(e) = e[5]
    BY <2>1 DEF LastLogoff
  <2> QED BY <2>1, <2>2, FieldIs
<1> QED BY <1>1, <1>2 DEF MemberEntries

\* Two notes, of one byte and of none.
LEMMA NotesAre ==
    ASSUME NEW b \in Texts, NEW k, At(b, k, <<1, 0, 0>>)
    PROVE  /\ <<1>> \in Seq(Nat \ {0}) /\ Len(<<1>>) = 1 /\ At(b, k, Append(<<1>>, 0))
           /\ <<>> \in Seq(Nat \ {0}) /\ Len(<<>>) = 0 /\ At(b, k + 2, Append(<<>>, 0))
<1>1. /\ Append(<<1>>, 0) = <<1, 0>> /\ Append(<<>>, 0) = <<0>>
  <2>1. 1 \in Nat /\ 0 \in Nat
    OBVIOUS
  <2> QED BY <2>1, AppendFields
<1>2. /\ k \in Nat /\ k + 3 <= Len(b) /\ b[k + 1] = 1 /\ b[k + 2] = 0 /\ b[k + 3] = 0
      /\ Len(b) \in Nat
  <2>1. Len(<<1, 0, 0>>) = 3 /\ 1 \in 1..3 /\ 2 \in 1..3 /\ 3 \in 1..3
    OBVIOUS
  <2> QED BY <2>1, LenProperties DEF At, Texts
<1>3. At(b, k, <<1, 0>>)
  <2> DEFINE s == <<1, 0>>
  <2>1. Len(s) = 2 /\ s[1] = 1 /\ s[2] = 0
    OBVIOUS
  <2>2. \A i \in 1..2 : i = 1 \/ i = 2
    OBVIOUS
  <2> HIDE DEF s
  <2>3. \A i \in 1..Len(s) : b[k + i] = s[i]
    BY <1>2, <2>1, <2>2
  <2>4. k + 2 <= Len(b)
    BY <1>2
  <2>5. At(b, k, s)
    BY <1>2, <2>1, <2>3, <2>4 DEF At
  <2> QED BY <2>5 DEF s
<1>4. At(b, k + 2, <<0>>)
  <2> DEFINE s == <<0>>
  <2>1. Len(s) = 1 /\ s[1] = 0 /\ \A i \in 1..1 : i = 1
    OBVIOUS
  <2> HIDE DEF s
  <2>2. /\ k + 2 \in Nat /\ (k + 2) + 1 = k + 3 /\ (k + 2) + 1 <= Len(b)
    BY <1>2
  <2>3. ASSUME NEW i \in 1..Len(s) PROVE b[(k + 2) + i] = s[i]
    <3>1. i = 1
      BY <2>1
    <3> QED BY <1>2, <2>1, <2>2, <3>1
  <2>4. At(b, k + 2, s)
    BY <2>1, <2>2, <2>3 DEF At
  <2> QED BY <2>4 DEF s
<1>5. <<1>> \in Seq(Nat \ {0}) /\ Len(<<1>>) = 1 /\ <<>> \in Seq(Nat \ {0}) /\ Len(<<>>) = 0
  OBVIOUS
<1> QED BY <1>1, <1>3, <1>4, <1>5, Zenon

LEMMA MemberLayout ==
    ASSUME NEW e \in MemberEntries
    PROVE  LET b == MemberCode[e]
               n == Len(e[2])
               y == Len(LastLogoff(e))
           IN  /\ b \in Texts /\ Len(b) = 23 + n + y /\ n \in Nat /\ y \in Nat
               /\ At(b, 0, e[1]) /\ At(b, 9, Append(e[2], 0))
               /\ At(b, 14 + n, e[3]) /\ At(b, 16 + n, e[4]) /\ At(b, 20 + n, LastLogoff(e))
               /\ At(b, 20 + n + y, <<1, 0, 0>>)
<1> DEFINE p1 == e[1]
           p2 == Append(e[2], 0)
           p3 == Zero(4)
           p4 == e[3]
           p5 == e[4]
           p6 == LastLogoff(e)
           p7 == <<1, 0, 0>>
           b == MemberCode[e]
           n == Len(e[2])
           y == Len(LastLogoff(e))
<1>1. /\ p1 \in Texts /\ Len(p1) = 9 /\ p2 \in Texts /\ Len(p2) = n + 1
      /\ p3 \in Texts /\ Len(p3) = 4 /\ p4 \in Texts /\ Len(p4) = 2
      /\ p5 \in Texts /\ Len(p5) = 4 /\ p6 \in Texts /\ Len(p6) = y
      /\ p7 \in Texts /\ Len(p7) = 3 /\ n \in Nat /\ y \in Nat
  <2>1. p2 \in Texts /\ Len(p2) = n + 1 /\ n \in Nat
    BY MemberIs, FieldIs
  <2>2. p7 \in Texts /\ Len(p7) = 3 /\ p3 \in Texts /\ Len(p3) = 4
    BY DEF Texts, Zero
  <2>3. p6 \in Texts /\ y \in Nat
    BY MemberIs, LenProperties DEF Texts
  <2> QED BY <2>1, <2>2, <2>3, MemberIs
<1>2. b = p1 \o p2 \o p3 \o p4 \o p5 \o p6 \o p7
  BY DEF MemberCode
<1> HIDE DEF p1, p2, p3, p4, p5, p6, p7, n, y, b
<1>3. SevenParts(p1, p2, p3, p4, p5, p6, p7, b)
  BY <1>1, <1>2, SevenPartsJoined
<1>4. /\ b \in Texts /\ Len(b) = 9 + (n + 1) + 4 + 2 + 4 + y + 3
      /\ At(b, 0, p1) /\ At(b, 9, p2) /\ At(b, 9 + (n + 1) + 4, p4)
      /\ At(b, 9 + (n + 1) + 4 + 2, p5) /\ At(b, 9 + (n + 1) + 4 + 2 + 4, p6)
      /\ At(b, 9 + (n + 1) + 4 + 2 + 4 + y, p7)
  BY <1>1, <1>3 DEF SevenParts
<1>5. /\ 9 + (n + 1) + 4 = 14 + n /\ 9 + (n + 1) + 4 + 2 = 16 + n
      /\ 9 + (n + 1) + 4 + 2 + 4 = 20 + n
      /\ 9 + (n + 1) + 4 + 2 + 4 + y = 20 + n + y
      /\ 9 + (n + 1) + 4 + 2 + 4 + y + 3 = 23 + n + y
  BY <1>1
<1> QED BY <1>1, <1>4, <1>5 DEF p1, p2, p4, p5, p6, p7, n, y, b

\* A complete member is taken, and one that is torn raises.
LEMMA MemberTaken ==
    ASSUME NEW b \in Texts, NEW d, IsCut(d, b), NEW e \in MemberEntries, NEW k,
           At(b, k, MemberCode[e])
    PROVE  Takes("roster", d, k, Len(MemberCode[e]), e, Len(d) - k \in MemberTorn[e])
<1> DEFINE n == Len(e[2])
           y == Len(LastLogoff(e))
           l == Len(d)
           c == MemberCode[e]
           last == LastLogoff(e)
           end == k + (23 + n + y)
           open == Reader(k, <<>>)
           guid == Fixed(d, open, 9)
           name == Cstring(d, guid)
           level == Fixed(d, Skip(name, 4), 2)
           zone == Fixed(d, level, 4)
           offline == zone.state = "more" /\ zone.fields[1][9] = 0
           logoff == IF offline THEN Fixed(d, zone, 4) ELSE zone
           note == SkipString(d, logoff)
           all == SkipString(d, note)
           torn == l - k \in 1..(23 + n + y) - 1
           four == <<e[1], e[2], e[3], e[4]>>
<1>1. /\ \/ e = four /\ e[1][9] # 0 /\ last = <<>> /\ y = 0
         \/ e = <<e[1], e[2], e[3], e[4], e[5]>> /\ e[1][9] = 0 /\ last = e[5] /\ y = 4
      /\ e[1] \in Texts /\ Len(e[1]) = 9 /\ e[2] \in Strings
      /\ e[3] \in Texts /\ Len(e[3]) = 2 /\ e[4] \in Texts /\ Len(e[4]) = 4
      /\ last \in Texts
  <2>1. Len(<<>>) = 0
    OBVIOUS
  <2> QED BY <2>1, MemberIs
<1>2. /\ e[2] \in Seq(Nat \ {0}) /\ e[2] \in Texts /\ Append(e[2], 0) \in Texts
  BY <1>1, FieldIs
<1>3. /\ c \in Texts /\ Len(c) = 23 + n + y /\ n \in Nat /\ y \in Nat
      /\ At(c, 0, e[1]) /\ At(c, 9, Append(e[2], 0))
      /\ At(c, 14 + n, e[3]) /\ At(c, 16 + n, e[4]) /\ At(c, 20 + n, last)
      /\ At(c, 20 + n + y, <<1, 0, 0>>)
  BY MemberLayout
<1>4. /\ Append(<<>>, e[1]) = <<e[1]>> /\ Append(<<e[1]>>, e[2]) = <<e[1], e[2]>>
      /\ Append(<<e[1], e[2]>>, e[3]) = <<e[1], e[2], e[3]>>
      /\ Append(<<e[1], e[2], e[3]>>, e[4]) = four
      /\ Append(four, last) = <<e[1], e[2], e[3], e[4], last>>
  BY <1>1, <1>2, AppendFields
<1>5. l \in Nat /\ k \in Nat
  BY DEF IsCut, At
<1>6. At(b, k, c)
  OBVIOUS
<1> HIDE DEF c, n, y, l, last
<1>7. /\ end \in Nat /\ (torn <=> k < l /\ l < end) /\ k < end /\ k \in Nat /\ l \in Nat
      /\ (k + 9) + n + 1 = k + (10 + n) /\ k + (10 + n) + 4 = k + (14 + n)
      /\ k + (10 + n) + 4 + 2 = k + (16 + n)
      /\ k + (16 + n) + 4 = k + (20 + n) /\ k + (20 + n) + y = k + (20 + n + y)
      /\ k + (20 + n + y) + 1 + 1 = k + (20 + n + y) + 2
      /\ k + (20 + n + y) + 2 + 0 + 1 = end
      /\ 23 + n + y \in Nat \ {0} /\ k + (10 + n) \in Nat /\ k + (20 + n) \in Nat
      /\ (end <= l => k + (20 + n) <= l)
  BY <1>3, <1>5
<1>8. /\ At(b, k, e[1]) /\ At(b, k + 9, Append(e[2], 0))
      /\ At(b, k + (14 + n), e[3]) /\ At(b, k + (16 + n), e[4])
      /\ At(b, k + (20 + n), last) /\ At(b, k + (20 + n + y), <<1, 0, 0>>)
  <2>1. At(b, k + 0, e[1])
    BY <1>1, <1>3, <1>6, AtBehind
  <2>2. k + 0 = k
    BY <1>5
  <2>3. At(b, k + 9, Append(e[2], 0))
    BY <1>2, <1>3, <1>6, AtBehind
  <2>4. At(b, k + (14 + n), e[3])
    BY <1>1, <1>3, <1>6, AtBehind
  <2>5. At(b, k + (16 + n), e[4])
    BY <1>1, <1>3, <1>6, AtBehind
  <2>6. At(b, k + (20 + n), last)
    BY <1>1, <1>3, <1>6, AtBehind
  <2>7. At(b, k + (20 + n + y), <<1, 0, 0>>)
    <3>1. <<1, 0, 0>> \in Texts
      BY DEF Texts
    <3> QED BY <1>3, <1>6, <3>1, AtBehind
  <2> QED BY <2>1, <2>2, <2>3, <2>4, <2>5, <2>6, <2>7
<1> HIDE DEF end, torn
<1>9. RosterEntry(d, open) = all
  BY Zenon DEF RosterEntry
<1>10. ASSUME k < l PROVE Reads(all, d, end, e)
  <2>1. Reads(open, d, k, <<>>)
    BY <1>5, <1>10 DEF Reads, l
  <2> HIDE DEF open
  <2>2. Reads(guid, d, k + 9, <<e[1]>>)
    <3>1. Reads(Fixed(d, open, Len(e[1])), d, k + Len(e[1]), Append(<<>>, e[1]))
      BY <1>1, <1>8, <2>1, ReadsFixed
    <3> QED BY <1>1, <1>4, <3>1
  <2> HIDE DEF guid
  <2>3. Reads(name, d, k + (10 + n), <<e[1], e[2]>>)
    <3>1. Reads(Cstring(d, guid), d, (k + 9) + n + 1, Append(<<e[1]>>, e[2]))
      BY <1>2, <1>8, <2>2, ReadsCstring DEF n
    <3> QED BY <1>4, <1>7, <3>1
  <2> HIDE DEF name
  <2>4. Reads(level, d, k + (16 + n), <<e[1], e[2], e[3]>>)
    <3>1. Reads(Fixed(d, Skip(name, 4), Len(e[3])), d, k + (10 + n) + 4 + Len(e[3]),
                Append(<<e[1], e[2]>>, e[3]))
      <4>1. At(b, k + (10 + n) + 4, e[3])
        BY <1>7, <1>8
      <4> QED BY <1>1, <1>7, <2>3, <4>1, ReadsSkipped
    <3> QED BY <1>1, <1>4, <1>7, <3>1
  <2> HIDE DEF level
  <2>5. Reads(zone, d, k + (20 + n), four)
    <3>1. Reads(Fixed(d, level, Len(e[4])), d, k + (16 + n) + Len(e[4]),
                Append(<<e[1], e[2], e[3]>>, e[4]))
      BY <1>1, <1>8, <2>4, ReadsFixed
    <3> QED BY <1>1, <1>4, <1>7, <3>1
  <2> HIDE DEF zone
  <2>6. Reads(logoff, d, k + (20 + n + y), e)
    <3>1. CASE e = four /\ e[1][9] # 0 /\ y = 0
      <4>1. zone.state = "more" => zone.fields = four
        <5>1. CASE k + (20 + n) <= l
          BY <2>5, <5>1 DEF Reads, Reader, l
        <5>2. CASE ~(k + (20 + n) <= l)
          BY <2>5, <5>2 DEF Reads, l
        <5> QED BY <5>1, <5>2
      <4>2. four[1] = e[1]
        OBVIOUS
      <4> HIDE DEF four
      <4>3. ~offline
        BY <3>1, <4>1, <4>2
      <4>4. logoff = zone
        BY <4>3
      <4>5. k + (20 + n + y) = k + (20 + n)
        BY <1>3, <1>5, <3>1
      <4> HIDE DEF logoff
      <4> QED BY <2>5, <3>1, <4>4, <4>5
    <3>2. CASE e = <<e[1], e[2], e[3], e[4], e[5]>> /\ e[1][9] = 0 /\ last = e[5] /\ y = 4
      <4>1. four[1] = e[1] /\ Append(four, last) = e
        BY <1>4, <3>2
      <4> HIDE DEF four
      <4>2. Reads(Fixed(d, zone, 4), d, k + (20 + n + y), e)
        <5>1. Reads(Fixed(d, zone, Len(last)), d, k + (20 + n) + Len(last), Append(four, last))
          BY <1>1, <1>8, <2>5, ReadsFixed
        <5>2. Len(last) = 4
          BY <3>2 DEF y, last
        <5>3. k + (20 + n) + 4 = k + (20 + n + y)
          BY <1>3, <1>5, <3>2
        <5> QED BY <4>1, <5>1, <5>2, <5>3
      <4>3. CASE zone.state = "more"
        <5>1. k + (20 + n) <= l
          BY <2>5, <4>3 DEF Reads, l
        <5>2. zone.fields = four
          BY <2>5, <5>1 DEF Reads, Reader, l
        <5>3. offline
          BY <3>2, <4>1, <4>3, <5>2
        <5> HIDE DEF offline
        <5> QED BY <4>2, <5>3
      <4>4. CASE zone.state # "more"
        <5>1. Fixed(d, zone, 4) = zone
          BY <4>4, StoppedStays
        <5> QED BY <4>2, <4>4, <5>1
      <4> QED BY <4>3, <4>4
    <3> QED BY <1>1, <3>1, <3>2
  <2> HIDE DEF logoff
  <2>7. /\ <<1>> \in Seq(Nat \ {0}) /\ Len(<<1>>) = 1
        /\ At(b, k + (20 + n + y), Append(<<1>>, 0))
        /\ <<>> \in Seq(Nat \ {0}) /\ Len(<<>>) = 0
        /\ At(b, k + (20 + n + y) + 2, Append(<<>>, 0))
    BY <1>8, NotesAre
  <2>8. Reads(note, d, k + (20 + n + y) + 2, e)
    <3> DEFINE s == <<1>>
    <3>1. s \in Seq(Nat \ {0}) /\ Len(s) = 1 /\ At(b, k + (20 + n + y), Append(s, 0))
      BY <2>7
    <3> HIDE DEF s
    <3>2. Reads(SkipString(d, logoff), d, k + (20 + n + y) + Len(s) + 1, e)
      BY <2>6, <3>1, ReadsPast
    <3> QED BY <1>7, <3>1, <3>2
  <2> HIDE DEF note
  <2>9. Reads(all, d, end, e)
    <3> DEFINE s == <<>>
    <3>1. s \in Seq(Nat \ {0}) /\ Len(s) = 0 /\ At(b, k + (20 + n + y) + 2, Append(s, 0))
      BY <2>7
    <3> HIDE DEF s
    <3>2. Reads(SkipString(d, note), d, k + (20 + n + y) + 2 + Len(s) + 1, e)
      BY <2>8, <3>1, ReadsPast
    <3> QED BY <1>7, <3>1, <3>2
  <2> QED BY <2>9
<1> HIDE DEF all, open
<1>11. k < l => /\ end <= l => all = Reader(end, e)
                /\ ~(end <= l) => all.state # "more" /\ (all.state = "raised" <=> torn)
  BY <1>7, <1>10 DEF Reads, l
<1>12. Entry("roster", d, Reader(k, <<>>)) = all
  BY <1>9 DEF Entry, open
<1>13. torn <=> Len(d) - k \in MemberTorn[e]
  BY <1>3 DEF torn, MemberTorn, l, c
<1>14. torn => k < Len(d)
  BY <1>7 DEF l
<1>15. Takes("roster", d, k, 23 + n + y, e, torn)
  BY <1>5, <1>7, <1>11, <1>12, <1>14, EntryTakes DEF l, end
<1> QED BY <1>3, <1>13, <1>15 DEF c

-----------------------------------------------------------------------------
\* A string of an event, as an entry with one field.
EventEntries == {<<s>> : s \in Strings}
EventCode == [e \in EventEntries |-> Append(e[1], 0)]
EventTorn == [e \in EventEntries |-> 1..Len(EventCode[e]) - 1]

LEMMA StringTaken ==
    ASSUME NEW b \in Texts, NEW d, IsCut(d, b), NEW e \in EventEntries, NEW k,
           At(b, k, EventCode[e])
    PROVE  Takes("event", d, k, Len(EventCode[e]), e, Len(d) - k \in EventTorn[e])
<1> DEFINE s == e[1]
           n == Len(s)
           l == Len(d)
           one == Cstring(d, Reader(k, <<>>))
           torn == l - k \in 1..(n + 1) - 1
<1>1. e = <<s>> /\ s \in Strings /\ EventCode[e] = Append(s, 0)
  BY DEF EventEntries, EventCode
<1>2. s \in Seq(Nat \ {0}) /\ s \in Texts /\ n \in Nat /\ Len(Append(s, 0)) = n + 1
  BY <1>1, FieldIs
<1>3. l \in Nat /\ k \in Nat
  BY DEF IsCut, At
<1>4. Append(<<>>, s) = e
  BY <1>1
<1>5. Reads(one, d, k + n + 1, e)
  BY <1>1, <1>2, <1>4, CstringIs
<1>6. torn <=> Len(d) - k \in EventTorn[e]
  BY <1>1, <1>2 DEF EventTorn
<1>7. Entry("event", d, Reader(k, <<>>)) = one
  BY DEF Entry
<1> HIDE DEF s, n, l, one
<1>8. /\ n + 1 \in Nat \ {0} /\ k + n + 1 = k + (n + 1)
      /\ (torn <=> k < l /\ l < k + (n + 1))
  BY <1>2, <1>3
<1> HIDE DEF torn
<1>9. k < l => /\ k + (n + 1) <= l => one = Reader(k + (n + 1), e)
               /\ ~(k + (n + 1) <= l) => one.state # "more" /\ (one.state = "raised" <=> torn)
  BY <1>3, <1>5, <1>8 DEF Reads, l
<1>10. Takes("event", d, k, n + 1, e, torn)
  BY <1>3, <1>7, <1>8, <1>9, EntryTakes DEF l
<1> QED BY <1>1, <1>2, <1>6, <1>10 DEF s

-----------------------------------------------------------------------------
\* Where the entries of a list stand in a body.
LEMMA ListIs ==
    ASSUME NEW S, NEW f \in [S -> Texts], NEW list \in Seq(S),
           NEW b \in Texts, NEW k, At(b, k, Subst(list, f))
    PROVE  /\ k \in Nat
           /\ \A i \in 0..Len(list) : Behind(list, f, i) \in Nat
           /\ \A i \in 0..Len(list) - 1 :
                 /\ list[i + 1] \in S
                 /\ At(b, k + Behind(list, f, i), f[list[i + 1]])
                 /\ k + Behind(list, f, i + 1) <= Len(b)
           /\ k + Behind(list, f, Len(list)) <= Len(b)
<1> DEFINE t == Subst(list, f)
<1>1. /\ t \in Texts /\ Behind(list, f, Len(list)) = Len(t)
      /\ \A i \in 0..Len(list) : Behind(list, f, i) \in Nat
      /\ \A i \in 0..Len(list) - 1 :
            /\ Behind(list, f, i + 1) = Behind(list, f, i) + Len(f[list[i + 1]])
            /\ At(t, Behind(list, f, i), f[list[i + 1]])
  BY CodeIs
<1>2. k \in Nat /\ k + Len(t) <= Len(b) /\ At(b, k, t)
  BY DEF At
<1> HIDE DEF t
<1>3. ASSUME NEW i \in 0..Len(list) - 1
      PROVE  /\ list[i + 1] \in S
             /\ At(b, k + Behind(list, f, i), f[list[i + 1]])
             /\ k + Behind(list, f, i + 1) <= Len(b)
  <2>1. i + 1 \in 1..Len(list) /\ i \in 0..Len(list)
    BY LenProperties
  <2>2. list[i + 1] \in S
    BY <2>1, ElementOfSeq
  <2>3. f[list[i + 1]] \in Texts
    BY <2>2
  <2>4. At(b, k + Behind(list, f, i), f[list[i + 1]])
    BY <1>1, <1>2, <2>3, AtBehind
  <2> DEFINE n == Len(f[list[i + 1]])
             j == Behind(list, f, i)
  <2>5. n \in Nat /\ j \in Nat /\ (k + j) + n <= Len(b) /\ Len(b) \in Nat
    BY <1>1, <2>1, <2>3, <2>4, LenProperties DEF At, Texts
  <2>6. Behind(list, f, i + 1) = j + n
    BY <1>1
  <2> HIDE DEF n, j
  <2>7. k + (j + n) <= Len(b)
    BY <1>2, <2>5
  <2> QED BY <2>2, <2>4, <2>6, <2>7 DEF j
<1> QED BY <1>1, <1>2, <1>3

LEMMA BehindGrows ==
    ASSUME NEW S, NEW f \in [S -> Texts], NEW list \in Seq(S),
           NEW m \in 0..Len(list), NEW n \in 0..Len(list), m <= n
    PROVE  Behind(list, f, m) <= Behind(list, f, n)
<1> DEFINE T == {j \in Nat : m + j <= Len(list) => Behind(list, f, m) <= Behind(list, f, m + j)}
<1>0. Len(list) \in Nat /\ Behind(list, f, m) \in Nat
  BY CodeIs, LenProperties
<1>1. 0 \in T
  <2>1. m + 0 = m
    OBVIOUS
  <2> QED BY <1>0, <2>1
<1>2. ASSUME NEW j \in Nat, j \in T PROVE j + 1 \in T
  <2> SUFFICES ASSUME m + (j + 1) <= Len(list)
               PROVE  Behind(list, f, m) <= Behind(list, f, m + (j + 1))
    OBVIOUS
  <2> DEFINE i == m + j
  <2>1. i \in 0..Len(list) - 1 /\ i \in 0..Len(list) /\ i + 1 = m + (j + 1) /\ i + 1 \in 1..Len(list)
    BY <1>0
  <2>2. Behind(list, f, m) <= Behind(list, f, i)
    BY <1>0, <1>2, <2>1
  <2> HIDE DEF i
  <2>3. Behind(list, f, i + 1) = Behind(list, f, i) + Len(f[list[i + 1]])
    BY <2>1, CodeIs
  <2>4. f[list[i + 1]] \in Texts
    BY <2>1, ElementOfSeq
  <2>5. Len(f[list[i + 1]]) \in Nat /\ Behind(list, f, i) \in Nat
    BY <2>1, <2>4, CodeIs, LenProperties DEF Texts
  <2>6. Behind(list, f, m) <= Behind(list, f, i + 1)
    BY <1>0, <2>2, <2>3, <2>5
  <2> QED BY <2>1, <2>6
<1>3. Nat \subseteq T
  <2> HIDE DEF T
  <2> QED BY <1>1, <1>2, SetInduction
<1>4. n - m \in Nat /\ m + (n - m) = n
  BY <1>0
<1>5. n - m \in T
  BY <1>3, <1>4
<1> QED BY <1>0, <1>4, <1>5

LEMMA Uint32Is == \A n \in Nat : Uint32(n) \in Texts /\ Len(Uint32(n)) = 4
BY DEF Uint32, Texts

\* The first number of a body.
LEMMA CountRead ==
    ASSUME NEW b, NEW d, IsCut(d, b), NEW n \in Nat, At(b, 0, Uint32(n)), Len(d) >= 4
    PROVE  Number(SubSeq(d, 1, 4)) = n
<1>1. Uint32(n) \in Texts /\ Len(Uint32(n)) = 4 /\ Len(d) \in Nat
  BY Uint32Is DEF IsCut
<1> DEFINE s == Uint32(n)
<1> HIDE DEF s
<1>2. 0 + Len(s) <= Len(d) /\ s \in Texts /\ At(b, 0, s) /\ Len(s) = 4
  BY <1>1 DEF s
<1>3. SubSeq(d, 0 + 1, 0 + Len(s)) = s
  BY <1>2, SliceIs
<1>4. SubSeq(d, 1, 4) = s
  BY <1>2, <1>3
<1> QED BY <1>4, NumberIs DEF s

-----------------------------------------------------------------------------
LEMMA CodesAre ==
    /\ WhoCode \in [PlayerEntries -> Texts]
    /\ MemberCode \in [MemberEntries -> Texts]
    /\ EventCode \in [EventEntries -> Texts]
<1>1. WhoCode \in [PlayerEntries -> Texts]
  BY PlayerLayout DEF WhoCode
<1>2. MemberCode \in [MemberEntries -> Texts]
  BY MemberLayout DEF MemberCode
<1>3. EventCode \in [EventEntries -> Texts]
  <2>1. \A e \in EventEntries : Append(e[1], 0) \in Texts
    BY FieldIs DEF EventEntries
  <2> QED BY <2>1 DEF EventCode
<1> QED BY <1>1, <1>2, <1>3

LEMMA WhoLayout ==
    ASSUME NEW list \in Seq(PlayerEntries)
    PROVE  LET b == WhoBody(list)
           IN  /\ b \in Texts /\ Len(b) = 8 + Len(Subst(list, WhoCode))
               /\ At(b, 0, Uint32(Len(list))) /\ At(b, 8, Subst(list, WhoCode))
<1> DEFINE n == Uint32(Len(list))
           t == Subst(list, WhoCode)
           h == n \o n
           b == h \o t
<1>1. n \in Texts /\ Len(n) = 4 /\ t \in Texts
  BY Uint32Is, CodesAre, CodeIs, LenProperties
<1>2. WhoBody(list) = b
  <2>1. DOMAIN list = 1..Len(list) /\ \A i \in 1..Len(list) : list[i] \in PlayerEntries
    BY LenProperties, ElementOfSeq
  <2>2. [i \in DOMAIN list |-> Append(list[i][1], 0) \o Append(list[i][2], 0)
                               \o list[i][3] \o list[i][4] \o list[i][5]]
           = [i \in DOMAIN list |-> WhoCode[list[i]]]
    BY <2>1 DEF WhoCode
  <2> QED BY <2>2 DEF WhoBody, ConcatMap, Subst
<1> HIDE DEF n, t
<1>3. h \in Texts /\ Joined(n, n, h)
  BY <1>1, Joining
<1> HIDE DEF h
<1>4. b \in Texts /\ Joined(h, t, b)
  BY <1>1, <1>3, Joining
<1> HIDE DEF b
<1>5. Len(h) = 8 /\ At(n, 0, n)
  BY <1>1, <1>3 DEF Joined, At
<1>6. At(b, 0, n)
  BY <1>1, <1>3, <1>4, <1>5 DEF Joined
<1> QED BY <1>2, <1>4, <1>5, <1>6 DEF Joined, n, t

\* A /who list that is cut keeps the players before the cut.
LEMMA WhoDecoded ==
    ASSUME NEW list \in WhoLists, NEW d, IsCut(d, WhoBody(list)), Len(d) >= 8
    PROVE  LET r == decode_who_response(d)
               End(n) == Len(WhoBody(SubSeq(list, 1, n)))
           IN  /\ \E n \in 0..Len(list) :
                     /\ End(n) <= Len(d) /\ (n < Len(list) => Len(d) < End(n + 1))
                     /\ r = IF /\ n < Len(list)
                               /\ Len(d) - End(n) \in
                                     1..Len(list[n + 1][1]) + Len(list[n + 1][2]) + 1
                            THEN Raised ELSE Gave(SubSeq(list, 1, n))
               /\ Len(d) = Len(WhoBody(list)) => r = Gave(list)
<1> DEFINE b == WhoBody(list)
           f == WhoCode
           r == decode_who_response(d)
           all == Entries("who", d, Reader(8, <<>>), Len(list))
           Stop(n) == 8 + Behind(list, f, n)
<1>1. /\ list \in Seq(PlayerEntries) /\ f \in [PlayerEntries -> Texts] /\ Len(list) \in Nat
  BY ListAssumption, CodesAre, LenProperties
<1>2. /\ b \in Texts /\ Len(b) = 8 + Len(Subst(list, f))
      /\ At(b, 0, Uint32(Len(list))) /\ At(b, 8, Subst(list, f))
  BY <1>1, WhoLayout
<1>3. ASSUME NEW n \in 0..Len(list) PROVE Len(WhoBody(SubSeq(list, 1, n))) = Stop(n)
  <2>1. SubSeq(list, 1, n) \in Seq(PlayerEntries)
    BY <1>1
  <2> QED BY <2>1, WhoLayout DEF Behind
<1>4. IsCut(d, b) /\ Len(d) \in Nat /\ Len(b) \in Nat /\ Len(d) <= Len(b)
  BY DEF IsCut
<1>5. r = Result(all, all.fields)
  <2>1. Number(SubSeq(d, 1, 4)) = Len(list)
    BY <1>1, <1>2, <1>4, CountRead
  <2>2. Cursor(8) = Reader(8, <<>>) /\ ~(Len(d) < 8)
    BY <1>4 DEF Cursor, Reader
  <2> QED BY <2>1, <2>2, Zenon DEF decode_who_response
<1>6. /\ \A i \in 0..Len(list) : Behind(list, f, i) \in Nat
      /\ \A i \in 0..Len(list) - 1 :
            /\ list[i + 1] \in PlayerEntries
            /\ At(b, Stop(i), f[list[i + 1]]) /\ Stop(i + 1) <= Len(b)
      /\ Behind(list, f, Len(list)) = Len(Subst(list, f))
  BY <1>1, <1>2, ListIs, CodeIs
<1> HIDE DEF b, f
<1>7. ASSUME NEW i \in 0..Len(list) - 1
      PROVE  Takes("who", d, Stop(i), Len(f[list[i + 1]]), list[i + 1],
                   Len(d) - Stop(i) \in WhoTorn[list[i + 1]])
  BY <1>2, <1>4, <1>6, PlayerTaken DEF f
<1>8. \/ Taken(all, list, f, 8, d, Len(list))
      \/ \E n \in 0..Len(list) - 1 : StopsBehind(all, list, f, WhoTorn, 8, d, n)
  BY <1>1, <1>4, <1>7, EntriesRead
<1> HIDE DEF all, r
<1>9. CASE Taken(all, list, f, 8, d, Len(list))
  <2>1. SubSeq(list, 1, Len(list)) = list
    BY <1>1
  <2>2. all.state = "more" /\ all.fields = list
    BY <1>9, <2>1 DEF Taken, Reader
  <2>3. r = Gave(list)
    BY <1>5, <2>2 DEF Result
  <2>4. Stop(Len(list)) <= Len(d)
    <3>1. CASE Len(list) = 0
      BY <1>4, <3>1, CodeEmpty
    <3>2. CASE Len(list) # 0
      BY <1>9, <3>2 DEF Taken
    <3> QED BY <3>1, <3>2
  <2>5. Len(list) \in 0..Len(list) /\ ~(Len(list) < Len(list))
    BY <1>1
  <2> QED BY <1>3, <2>1, <2>3, <2>4, <2>5 DEF r
<1>10. ASSUME NEW n \in 0..Len(list) - 1, StopsBehind(all, list, f, WhoTorn, 8, d, n)
       PROVE  LET End(i) == Len(WhoBody(SubSeq(list, 1, i)))
              IN  /\ n \in 0..Len(list)
                  /\ End(n) <= Len(d) /\ Len(d) < End(n + 1) /\ n < Len(list)
                  /\ r = IF Len(d) - End(n) \in
                                     1..Len(list[n + 1][1]) + Len(list[n + 1][2]) + 1
                         THEN Raised ELSE Gave(SubSeq(list, 1, n))
                  /\ Len(d) # Len(b)
  <2>1. n \in 0..Len(list) /\ n + 1 \in 0..Len(list) /\ n < Len(list)
    BY <1>1
  <2>2. Stop(n) <= Len(d)
    <3>1. CASE n = 0
      BY <1>4, <3>1, CodeEmpty
    <3>2. CASE n # 0
      BY <1>10, <3>2 DEF StopsBehind
    <3> QED BY <3>1, <3>2
  <2>3. /\ Len(d) < Stop(n + 1) /\ all.state # "more" /\ all.fields = SubSeq(list, 1, n)
        /\ (all.state = "raised" <=> Len(d) - Stop(n) \in WhoTorn[list[n + 1]])
    BY <1>10 DEF StopsBehind
  <2>4. WhoTorn[list[n + 1]] = 1..Len(list[n + 1][1]) + Len(list[n + 1][2]) + 1
    BY <1>6 DEF WhoTorn
  <2>5. r = IF Len(d) - Stop(n) \in WhoTorn[list[n + 1]] THEN Raised ELSE Gave(SubSeq(list, 1, n))
    BY <1>5, <2>3 DEF Result
  <2>6. Len(d) # Len(b)
    <3>1. Stop(n + 1) <= Len(b) /\ Behind(list, f, n + 1) \in Nat
      BY <1>6, <2>1
    <3> QED BY <1>4, <2>3, <3>1
  <2> HIDE DEF Stop
  <2> QED BY <1>3, <2>1, <2>2, <2>3, <2>4, <2>5, <2>6
<1> QED BY <1>8, <1>9, <1>10 DEF b, r

-----------------------------------------------------------------------------
\* The strings of an event as entries with one field.
Entried(ss) == [i \in 1..Len(ss) |-> <<ss[i]>>]

LEMMA EntriedIs ==
    ASSUME NEW ss \in Seq(Strings)
    PROVE  /\ Entried(ss) \in Seq(EventEntries) /\ Len(Entried(ss)) = Len(ss)
           /\ \A n \in 0..Len(ss) : SubSeq(Entried(ss), 1, n) = Entried(SubSeq(ss, 1, n))
<1> DEFINE es == Entried(ss)
<1>1. Len(ss) \in Nat /\ \A i \in 1..Len(ss) : ss[i] \in Strings
  BY LenProperties, ElementOfSeq
<1>2. \A i \in 1..Len(ss) : <<ss[i]>> \in EventEntries
  BY <1>1 DEF EventEntries
<1>3. es \in Seq(EventEntries) /\ Len(es) = Len(ss)
  BY <1>1, <1>2 DEF Entried
<1>4. \A i \in 1..Len(ss) : es[i] = <<ss[i]>>
  BY DEF Entried
<1>5. ASSUME NEW n \in 0..Len(ss) PROVE SubSeq(es, 1, n) = Entried(SubSeq(ss, 1, n))
  <2> DEFINE r == SubSeq(ss, 1, n)
             p == SubSeq(es, 1, n)
             q == Entried(r)
  <2>1. r \in Seq(Strings) /\ Len(r) = n /\ \A i \in 1..n : r[i] = ss[i]
    BY <1>1
  <2> HIDE DEF es
  <2>2. p \in Seq(EventEntries) /\ Len(p) = n /\ \A i \in 1..n : p[i] = es[i]
    BY <1>1, <1>3
  <2> HIDE DEF p, r
  <2>3. q = [i \in 1..n |-> <<r[i]>>]
    BY <2>1 DEF Entried
  <2>4. \A i \in 1..n : i \in 1..Len(ss) /\ r[i] = ss[i]
    BY <1>1, <2>1
  <2>5. \A i \in 1..n : <<r[i]>> \in EventEntries
    BY <1>2, <2>4
  <2>6. q \in Seq(EventEntries) /\ Len(q) = n /\ \A i \in 1..n : q[i] = <<r[i]>>
    BY <1>1, <2>3, <2>5
  <2> HIDE DEF q
  <2>7. \A i \in 1..n : p[i] = q[i]
    BY <1>4, <2>2, <2>4, <2>6
  <2>8. p = q
    BY <2>2, <2>6, <2>7, SeqEqual
  <2> QED BY <2>8 DEF p, q, r
<1> QED BY <1>3, <1>5

LEMMA EntriedFlat == \A ss \in Seq(Strings) : FlattenSeq(Entried(ss)) = ss
<1> DEFINE T == {ss \in Seq(Strings) : FlattenSeq(Entried(ss)) = ss}
<1>1. <<>> \in T
  <2>1. Entried(<<>>) = <<>>
    BY DEF Entried
  <2> QED BY <2>1, FlattenEmpty
<1>2. ASSUME NEW ss \in Seq(Strings), NEW e \in Strings, ss \in T PROVE Append(ss, e) \in T
  <2> DEFINE u == Append(ss, e)
             n == Len(ss)
             x == <<e>>
             c == ss \o x
             es == Entried(ss)
             eu == Entried(u)
  <2>1. u \in Seq(Strings) /\ Len(u) = n + 1 /\ u[n + 1] = e /\ n \in Nat
        /\ \A i \in 1..n : u[i] = ss[i]
    BY AppendProperties, LenProperties
  <2>2. x \in Seq(Strings) /\ Len(x) = 1 /\ x[1] = e
    OBVIOUS
  <2> HIDE DEF u, x
  <2>3. c \in Seq(Strings) /\ Len(c) = n + 1
        /\ \A i \in 1..n + 1 : c[i] = IF i <= n THEN ss[i] ELSE x[i - n]
    <3>1. /\ c \in Seq(Strings) /\ Len(c) = Len(ss) + Len(x)
          /\ \A i \in 1..Len(ss) + Len(x) : c[i] = IF i <= Len(ss) THEN ss[i] ELSE x[i - Len(ss)]
      BY <2>2, ConcatProperties
    <3> HIDE DEF c
    <3> QED BY <2>2, <3>1
  <2> HIDE DEF n, c
  <2>4. c = u
    <3>1. \A i \in 1..n + 1 : c[i] = u[i]
      <4>1. ASSUME NEW i \in 1..n + 1 PROVE c[i] = u[i]
        <5>1. CASE i <= n
          <6>1. i \in 1..n
            BY <2>1, <5>1
          <6> QED BY <2>1, <2>3, <5>1, <6>1
        <5>2. CASE ~(i <= n)
          <6>1. i = n + 1 /\ i - n = 1
            BY <2>1, <5>2
          <6> QED BY <2>1, <2>2, <2>3, <5>2, <6>1
        <5> QED BY <5>1, <5>2
      <4> QED BY <4>1
    <3> QED BY <2>1, <2>3, <3>1, SeqEqual
  <2>5. eu = Append(es, x)
    <3>1. /\ es \in Seq(EventEntries) /\ Len(es) = n /\ eu \in Seq(EventEntries)
          /\ Len(eu) = n + 1
      BY <2>1, EntriedIs DEF n
    <3>2. /\ eu[n + 1] = x
      BY <2>1 DEF Entried, x
    <3>3. \A i \in 1..n : eu[i] = es[i]
      BY <2>1 DEF Entried, n
    <3>4. x \in EventEntries
      BY DEF EventEntries, x
    <3> HIDE DEF eu, es
    <3> QED BY <3>1, <3>2, <3>3, <3>4, AppendIs
  <2>6. es \in Seq(Seq(Strings))
    <3>1. EventEntries \subseteq Seq(Strings)
      <4>1. \A s \in Strings : <<s>> \in Seq(Strings)
        OBVIOUS
      <4> QED BY <4>1, Zenon DEF EventEntries
    <3>2. es \in Seq(EventEntries)
      BY EntriedIs
    <3> HIDE DEF es
    <3> QED BY <3>1, <3>2
  <2>7. FlattenSeq(eu) = FlattenSeq(es) \o x
    <3> HIDE DEF es, eu
    <3> QED BY <2>2, <2>5, <2>6, FlattenAppend
  <2>8. FlattenSeq(es) = ss
    BY <1>2
  <2>9. FlattenSeq(eu) = u
    BY <2>4, <2>7, <2>8 DEF c
  <2> QED BY <2>1, <2>9 DEF u
<1>3. Seq(Strings) \subseteq T
  <2> HIDE DEF T
  <2> QED BY <1>1, <1>2, SequenceInduction
<1> QED BY <1>3

LEMMA EventLayout ==
    ASSUME NEW e \in [type : Nat, strings : Seq(Strings)]
    PROVE  LET b == EventBody(e)
               t == Subst(Entried(e.strings), EventCode)
           IN  /\ b \in Texts /\ Len(b) = 2 + Len(t) /\ At(b, 2, t)
               /\ b[1] = e.type /\ b[2] = Len(e.strings)
<1> DEFINE ss == e.strings
           t == Subst(Entried(ss), EventCode)
           h == <<e.type, Len(ss)>>
           b == h \o t
<1>1. ss \in Seq(Strings) /\ e.type \in Nat /\ Len(ss) \in Nat
  BY LenProperties
<1>2. Entried(ss) \in Seq(EventEntries) /\ Len(Entried(ss)) = Len(ss)
  BY <1>1, EntriedIs
<1>3. t \in Texts
  BY <1>2, CodesAre, CodeIs
<1>4. EventBody(e) = b
  <2>1. DOMAIN ss = 1..Len(ss) /\ DOMAIN Entried(ss) = 1..Len(ss)
        /\ \A i \in 1..Len(ss) : ss[i] \in Strings
    BY <1>1, LenProperties, ElementOfSeq DEF Entried
  <2>2. \A i \in 1..Len(ss) : EventCode[Entried(ss)[i]] = Append(ss[i], 0)
    <3> SUFFICES ASSUME NEW i \in 1..Len(ss)
                 PROVE  EventCode[Entried(ss)[i]] = Append(ss[i], 0)
      OBVIOUS
    <3>1. Entried(ss)[i] = <<ss[i]>>
      BY DEF Entried
    <3>2. <<ss[i]>> \in EventEntries
      BY <2>1 DEF EventEntries
    <3> QED BY <3>1, <3>2 DEF EventCode
  <2>3. [i \in DOMAIN ss |-> Append(ss[i], 0)]
           = [i \in DOMAIN Entried(ss) |-> EventCode[Entried(ss)[i]]]
    <3> HIDE DEF ss
    <3> QED BY <2>1, <2>2
  <2> QED BY <2>3 DEF EventBody, ConcatMap, Subst
<1>5. h \in Texts /\ Len(h) = 2 /\ h[1] = e.type /\ h[2] = Len(ss)
  BY <1>1 DEF Texts
<1> HIDE DEF t, h, ss
<1>6. b \in Texts /\ Joined(h, t, b)
  BY <1>3, <1>5, Joining
<1>7. b[1] = h[1] /\ b[2] = h[2]
  <2>1. At(h, 0, h)
    BY <1>5 DEF At
  <2>2. At(b, 0, h) /\ 1 \in 1..Len(h) /\ 2 \in 1..Len(h) /\ 0 + 1 = 1 /\ 0 + 2 = 2
    BY <1>5, <1>6, <2>1 DEF Joined
  <2> HIDE DEF b
  <2>3. \A i \in 1..Len(h) : b[0 + i] = h[i]
    BY <2>2 DEF At
  <2>4. b[0 + 1] = h[1] /\ b[0 + 2] = h[2]
    BY <2>2, <2>3
  <2> QED BY <2>2, <2>4
<1> QED BY <1>4, <1>5, <1>6, <1>7 DEF Joined, t, h, ss

\* An event is decoded if it ends between its strings.
LEMMA EventDecoded ==
    ASSUME NEW e \in Events, NEW d, IsCut(d, EventBody(e)), Len(d) >= 2
    PROVE  LET r == decode_guild_event(d)
               Short(n) == [e EXCEPT !.strings = SubSeq(@, 1, n)]
               fits == {n \in 0..Len(e.strings) : Len(EventBody(Short(n))) = Len(d)}
           IN  /\ IF fits = {} THEN r = Raised ELSE \E n \in fits : r = Gave(Short(n))
               /\ Len(d) = Len(EventBody(e)) => r = Gave(e)
<1> DEFINE b == EventBody(e)
           f == EventCode
           ss == e.strings
           count == Len(ss)
           list == Entried(ss)
           r == decode_guild_event(d)
           all == Entries("event", d, Reader(2, <<>>), count)
           value == [type |-> e.type, strings |-> FlattenSeq(all.fields)]
           Short(n) == [e EXCEPT !.strings = SubSeq(@, 1, n)]
           Stop(n) == 2 + Behind(list, f, n)
           fits == {n \in 0..count : Len(EventBody(Short(n))) = Len(d)}
<1>1. /\ e \in [type : Nat, strings : Seq(Strings)] /\ ss \in Seq(Strings) /\ count \in Nat
      /\ list \in Seq(EventEntries) /\ Len(list) = count /\ f \in [EventEntries -> Texts]
      /\ \A n \in 0..count : SubSeq(list, 1, n) = Entried(SubSeq(ss, 1, n))
  BY ListAssumption, CodesAre, EntriedIs, LenProperties
<1>2. /\ b \in Texts /\ Len(b) = 2 + Len(Subst(list, f)) /\ At(b, 2, Subst(list, f))
      /\ b[1] = e.type /\ b[2] = count
  BY <1>1, EventLayout
<1>3. \A n \in 0..count : /\ SubSeq(ss, 1, n) \in Seq(Strings)
                           /\ Short(n) = [type |-> e.type, strings |-> SubSeq(ss, 1, n)]
                           /\ Short(n) \in [type : Nat, strings : Seq(Strings)]
  <2> TAKE n \in 0..count
  <2>1. SubSeq(ss, 1, n) \in Seq(Strings)
    BY <1>1
  <2>2. Short(n) = [type |-> e.type, strings |-> SubSeq(ss, 1, n)]
    <3>1. \A x \in [type : Nat, strings : Seq(Strings)] : \A y :
             [x EXCEPT !.strings = y] = [type |-> x.type, strings |-> y]
      OBVIOUS
    <3>2. Short(n) = [e EXCEPT !.strings = SubSeq(ss, 1, n)]
      OBVIOUS
    <3> HIDE DEF Short
    <3> QED BY <1>1, <3>1, <3>2, Zenon
  <2> HIDE DEF ss, Short
  <2> QED BY <1>1, <2>1, <2>2
<1>4. ASSUME NEW n \in 0..count PROVE Len(EventBody(Short(n))) = Stop(n)
  <2>1. Short(n) \in [type : Nat, strings : Seq(Strings)] /\ Short(n).strings = SubSeq(ss, 1, n)
    BY <1>3
  <2>2. Len(EventBody(Short(n))) = 2 + Len(Subst(Entried(SubSeq(ss, 1, n)), f))
    <3> HIDE DEF ss, Short
    <3> QED BY <2>1, EventLayout
  <2> QED BY <1>1, <2>2 DEF Behind
<1>5. IsCut(d, b) /\ Len(d) \in Nat /\ Len(b) \in Nat /\ Len(d) <= Len(b)
  BY DEF IsCut
<1>6. r = Result(all, value)
  <2>1. 1 \in 1..Len(d) /\ 2 \in 1..Len(d)
    BY <1>5
  <2>2. d[1] = e.type /\ d[2] = count
    BY <1>2, <1>5, <2>1 DEF IsCut
  <2>3. Cursor(2) = Reader(2, <<>>) /\ ~(Len(d) < 2)
    BY <1>5 DEF Cursor, Reader
  <2> QED BY <2>2, <2>3, Zenon DEF decode_guild_event
<1>7. /\ \A i \in 0..count : Behind(list, f, i) \in Nat
      /\ \A i \in 0..count - 1 :
            /\ list[i + 1] \in EventEntries
            /\ At(b, Stop(i), f[list[i + 1]]) /\ Stop(i + 1) <= Len(b)
            /\ Behind(list, f, i + 1) = Behind(list, f, i) + Len(f[list[i + 1]])
      /\ Behind(list, f, count) = Len(Subst(list, f))
  BY <1>1, <1>2, ListIs, CodeIs
<1>8. \A m, n \in 0..count : m <= n => Stop(m) <= Stop(n)
  <2> SUFFICES ASSUME NEW m \in 0..count, NEW n \in 0..count, m <= n
               PROVE  Stop(m) <= Stop(n)
    OBVIOUS
  <2>1. Behind(list, f, m) <= Behind(list, f, n)
    <3>1. m \in 0..Len(list) /\ n \in 0..Len(list)
      BY <1>1
    <3> HIDE DEF list, f
    <3> QED BY <1>1, <3>1, BehindGrows
  <2>2. Behind(list, f, m) \in Nat /\ Behind(list, f, n) \in Nat
    BY <1>7
  <2> QED BY <2>1, <2>2
<1> HIDE DEF b, f, list, count
<1>9. ASSUME NEW i \in 0..count - 1
      PROVE  Takes("event", d, Stop(i), Len(f[list[i + 1]]), list[i + 1],
                   Len(d) - Stop(i) \in EventTorn[list[i + 1]])
  BY <1>2, <1>5, <1>7, StringTaken DEF f
<1>10. \/ Taken(all, list, f, 2, d, count)
       \/ \E n \in 0..count - 1 : StopsBehind(all, list, f, EventTorn, 2, d, n)
  BY <1>1, <1>5, <1>9, EntriesRead
<1> HIDE DEF all, r, fits, Short
<1>11. ASSUME NEW n \in 0..count, Stop(n) = Len(d), all.state # "raised",
              all.fields = SubSeq(list, 1, n)
       PROVE  n \in fits /\ r = Gave(Short(n))
  <2>1. FlattenSeq(all.fields) = SubSeq(ss, 1, n)
    BY <1>1, <1>3, <1>11, EntriedFlat
  <2>2. value = Short(n)
    BY <1>3, <2>1
  <2>3. n \in fits
    BY <1>4, <1>11 DEF fits
  <2> QED BY <1>6, <1>11, <2>2, <2>3 DEF Result
<1>12. ASSUME Taken(all, list, f, 2, d, count)
       PROVE  (\E i \in fits : r = Gave(Short(i))) /\ r = Gave(e)
  <2>1. all.state = "more" /\ all.fields = SubSeq(list, 1, count) /\ count \in 0..count
    BY <1>1, <1>12 DEF Taken, Reader
  <2>2. Stop(count) = Len(d)
    <3>1. Stop(count) <= Len(d)
      <4>1. CASE count = 0
        BY <1>5, <4>1, CodeEmpty
      <4>2. CASE count # 0
        BY <1>12, <4>2 DEF Taken
      <4> QED BY <4>1, <4>2
    <3>2. Len(b) = Stop(count) /\ Stop(count) \in Nat
      BY <1>2, <1>7, <2>1
    <3> QED BY <1>5, <3>1, <3>2
  <2>3. count \in fits /\ r = Gave(Short(count))
    BY <1>11, <2>1, <2>2
  <2>4. Short(count) = e
    <3>1. SubSeq(ss, 1, count) = ss
      BY <1>1 DEF count
    <3>2. e = [type |-> e.type, strings |-> ss]
      <4>1. \A x \in [type : Nat, strings : Seq(Strings)] :
               x = [type |-> x.type, strings |-> x.strings]
        OBVIOUS
      <4> QED BY <1>1, <4>1, Zenon
    <3>3. Short(count) = [type |-> e.type, strings |-> SubSeq(ss, 1, count)]
      BY <1>3, <2>1
    <3> HIDE DEF ss
    <3> QED BY <3>1, <3>2, <3>3
  <2> QED BY <2>3, <2>4
<1>13. ASSUME NEW n \in 0..count - 1, StopsBehind(all, list, f, EventTorn, 2, d, n)
       PROVE  /\ IF fits = {} THEN r = Raised ELSE \E i \in fits : r = Gave(Short(i))
              /\ Len(d) # Len(b)
  <2>1. n \in 0..count /\ n + 1 \in 0..count
    BY <1>1
  <2>2. Stop(n) <= Len(d)
    <3>1. CASE n = 0
      BY <1>5, <3>1, CodeEmpty
    <3>2. CASE n # 0
      BY <1>13, <3>2 DEF StopsBehind
    <3> QED BY <3>1, <3>2
  <2> DEFINE x == f[list[n + 1]]
  <2>3. /\ Len(d) < Stop(n + 1) /\ all.state # "more" /\ all.fields = SubSeq(list, 1, n)
        /\ (all.state = "raised" <=> Len(d) - Stop(n) \in EventTorn[list[n + 1]])
    BY <1>13 DEF StopsBehind
  <2>4. EventTorn[list[n + 1]] = 1..Len(x) - 1
    BY <1>7 DEF EventTorn, f
  <2>5. /\ Stop(n + 1) <= Len(b) /\ Behind(list, f, n) \in Nat
        /\ Behind(list, f, n + 1) \in Nat
        /\ Behind(list, f, n + 1) = Behind(list, f, n) + Len(x)
    BY <1>7, <2>1
  <2>6. Len(x) \in Nat
    <3>1. x \in Texts
      BY <1>1, <1>7
    <3> QED BY <3>1, LenProperties DEF Texts
  <2> HIDE DEF x
  <2>7. all.state = "raised" <=> Stop(n) < Len(d)
    <3> DEFINE i == Len(x)
               j == Behind(list, f, n)
               l == Len(d)
    <3>1. /\ i \in Nat /\ j \in Nat /\ l \in Nat /\ Stop(n) = 2 + j /\ Stop(n + 1) = 2 + (j + i)
          /\ l < 2 + (j + i)
      BY <1>5, <2>3, <2>5, <2>6
    <3> HIDE DEF i, j, l, Stop
    <3>2. l - (2 + j) \in 1..i - 1 <=> 2 + j < l
      BY <3>1
    <3> QED BY <2>3, <2>4, <3>1, <3>2 DEF i, l
  <2>8. Len(d) # Len(b)
    BY <1>5, <2>3, <2>5
  <2>9. CASE Stop(n) = Len(d)
    <3>1. all.state # "raised"
      BY <1>5, <2>7, <2>9
    <3>2. n \in fits /\ r = Gave(Short(n))
      BY <1>11, <2>1, <2>3, <2>9, <3>1
    <3> QED BY <2>8, <3>2
  <2>10. CASE Stop(n) # Len(d)
    <3>1. Stop(n) < Len(d)
      BY <1>5, <2>2, <2>5, <2>10
    <3>2. r = Raised
      BY <1>6, <2>7, <3>1 DEF Result
    <3>3. ASSUME NEW i \in fits PROVE FALSE
      <4>1. i \in 0..count /\ Stop(i) = Len(d)
        BY <1>4, <3>3 DEF fits
      <4>2. CASE i <= n
        <5>1. Stop(i) <= Stop(n)
          BY <1>8, <2>1, <4>1, <4>2
        <5> QED BY <1>5, <2>5, <3>1, <4>1, <5>1
      <4>3. CASE ~(i <= n)
        <5>1. n + 1 <= i
          BY <2>1, <4>1, <4>3
        <5>2. Stop(n + 1) <= Stop(i)
          BY <1>8, <2>1, <4>1, <5>1
        <5> QED BY <1>5, <2>3, <2>5, <4>1, <5>2
      <4> QED BY <4>2, <4>3
    <3> QED BY <2>8, <3>2, <3>3
  <2> QED BY <2>9, <2>10
<1> QED BY <1>10, <1>12, <1>13 DEF b, r, fits, Short, count

-----------------------------------------------------------------------------
LEMMA StartsAnew ==
    ASSUME NEW q \in Nat, NEW n \in Nat, NEW w
    PROVE  [Reader(q, w) EXCEPT !.at = @ + n, !.fields = <<>>] = Reader(q + n, <<>>)
<1> DEFINE c == Reader(q, w)
           e == [c EXCEPT !.at = q + n]
<1>1. c.at = q /\ DOMAIN c = {"at", "state", "fields"}
  BY DEF Reader
<1>2. e = Reader(q + n, w)
  BY DEF Reader
<1>3. [e EXCEPT !.fields = <<>>] = Reader(q + n, <<>>)
  <2>1. \A k, f, g : [Reader(k, f) EXCEPT !.fields = g] = Reader(k, g)
    BY DEF Reader
  <2> HIDE DEF e
  <2> QED BY <1>2, <2>1
<1>4. [c EXCEPT !.at = @ + n, !.fields = <<>>] = [e EXCEPT !.fields = <<>>]
  BY <1>1
<1> QED BY <1>3, <1>4

\* Where the members of a roster begin.
MembersAt(r) == 10 + Len(r.motd) + Len(r.info) + 4 * r.ranks

LEMMA RosterLayout ==
    ASSUME NEW r \in Rosters
    PROVE  LET b == RosterBody(r)
               x == Len(r.motd)
               y == Len(r.info)
               t == Subst(r.members, MemberCode)
           IN  /\ r.motd \in Strings /\ r.info \in Strings /\ r.ranks \in Nat
               /\ r.members \in Seq(MemberEntries) /\ x \in Nat /\ y \in Nat
               /\ b \in Texts /\ Len(b) = MembersAt(r) + Len(t)
               /\ At(b, 0, Uint32(Len(r.members))) /\ At(b, 4, Append(r.motd, 0))
               /\ At(b, 5 + x, Append(r.info, 0)) /\ At(b, 6 + x + y, Uint32(r.ranks))
               /\ At(b, MembersAt(r), t)
<1> DEFINE x == Len(r.motd)
           y == Len(r.info)
           p1 == Uint32(Len(r.members))
           p2 == Append(r.motd, 0)
           p3 == Append(r.info, 0)
           p4 == Uint32(r.ranks)
           p5 == Zero(4 * r.ranks)
           p6 == Subst(r.members, MemberCode)
           none == <<>>
           b == RosterBody(r)
           c == p1 \o p2 \o p3 \o p4 \o p5 \o p6
<1>1. /\ r.motd \in Strings /\ r.info \in Strings /\ r.ranks \in Nat
      /\ r.members \in Seq(MemberEntries)
  BY ListAssumption DEF MemberEntries
<1>2. /\ p2 \in Texts /\ Len(p2) = x + 1 /\ x \in Nat /\ p3 \in Texts /\ Len(p3) = y + 1
      /\ y \in Nat
  BY <1>1, FieldIs
<1>3. /\ p1 \in Texts /\ Len(p1) = 4 /\ p4 \in Texts /\ Len(p4) = 4
  BY <1>1, Uint32Is, LenProperties
<1>4. p5 \in Texts /\ Len(p5) = 4 * r.ranks
  <2> DEFINE n == 4 * r.ranks
  <2>1. n \in Nat
    BY <1>1
  <2> HIDE DEF n
  <2>2. Zero(n) \in Texts /\ Len(Zero(n)) = n
    BY <2>1 DEF Zero, Texts
  <2> QED BY <2>2 DEF n
<1>5. p6 \in Texts /\ none \in Texts
  <2>1. none \in Texts
    BY DEF Texts
  <2> QED BY <1>1, <2>1, CodesAre, CodeIs
<1>6. b = c
  <2> DEFINE ms == r.members
  <2>1. DOMAIN ms = 1..Len(ms) /\ \A i \in 1..Len(ms) : ms[i] \in MemberEntries
    BY <1>1, LenProperties, ElementOfSeq
  <2> HIDE DEF ms
  <2>2. [i \in DOMAIN ms |-> ms[i][1] \o Append(ms[i][2], 0) \o Zero(4) \o ms[i][3] \o ms[i][4]
                             \o (IF Len(ms[i]) = 5 THEN ms[i][5] ELSE <<>>) \o <<1, 0, 0>>]
           = [i \in DOMAIN ms |-> MemberCode[ms[i]]]
    BY <2>1 DEF MemberCode, LastLogoff
  <2> QED BY <2>2 DEF RosterBody, ConcatMap, Subst, ms
<1> HIDE DEF p1, p2, p3, p4, p5, p6, none, x, y
<1>7. c \in Texts /\ c \o none = c
  <2>1. p1 \o p2 \in Texts
    BY <1>2, <1>3, AtConcat
  <2>2. p1 \o p2 \o p3 \in Texts
    BY <1>2, <2>1, AtConcat
  <2>3. p1 \o p2 \o p3 \o p4 \in Texts
    BY <1>3, <2>2, AtConcat
  <2>4. p1 \o p2 \o p3 \o p4 \o p5 \in Texts
    BY <1>4, <2>3, AtConcat
  <2>5. c \in Texts
    BY <1>5, <2>4, AtConcat
  <2>6. \A z \in Texts : z \o none = z
    BY ConcatEmptySeq DEF none, Texts
  <2> HIDE DEF c
  <2> QED BY <2>5, <2>6
<1>8. SevenParts(p1, p2, p3, p4, p5, p6, none, c)
  <2>1. SevenParts(p1, p2, p3, p4, p5, p6, none, p1 \o p2 \o p3 \o p4 \o p5 \o p6 \o none)
    BY <1>2, <1>3, <1>4, <1>5, SevenPartsJoined
  <2> QED BY <1>7, <2>1
<1> HIDE DEF b, c
<1> DEFINE n == 4 * r.ranks
<1>9. n \in Nat /\ Len(p5) = n /\ Len(none) = 0 /\ Len(p6) \in Nat
  BY <1>1, <1>4, <1>5, LenProperties DEF none, Texts
<1> HIDE DEF n
<1>10. /\ Len(c) = 4 + (x + 1) + (y + 1) + 4 + n + Len(p6) + 0
       /\ At(c, 0, p1) /\ At(c, 4, p2) /\ At(c, 4 + (x + 1), p3)
       /\ At(c, 4 + (x + 1) + (y + 1), p4) /\ At(c, 4 + (x + 1) + (y + 1) + 4 + n, p6)
  BY <1>2, <1>3, <1>8, <1>9 DEF SevenParts
<1>11. /\ 4 + (x + 1) = 5 + x /\ 4 + (x + 1) + (y + 1) = 6 + x + y
       /\ 4 + (x + 1) + (y + 1) + 4 + n = 10 + x + y + n
       /\ 4 + (x + 1) + (y + 1) + 4 + n + Len(p6) + 0 = 10 + x + y + n + Len(p6)
  BY <1>2, <1>9
<1>12. MembersAt(r) = 10 + x + y + n
  BY DEF MembersAt, x, y, n
<1> QED BY <1>1, <1>2, <1>6, <1>7, <1>10, <1>11, <1>12 DEF x, y, p1, p2, p3, p4, p6, b

\* A roster gives the message of the day and the members before the cut, or
\* nothing.
LEMMA RosterDecoded ==
    ASSUME NEW r \in Rosters, NEW d, IsCut(d, RosterBody(r))
    PROVE  LET res == decode_guild_roster(d)
           IN  /\ \/ res = Raised
                  \/ \E n \in 0..Len(r.members) :
                        res = Gave([motd |-> r.motd, members |-> SubSeq(r.members, 1, n)])
               /\ Len(d) = Len(RosterBody(r)) =>
                     res = Gave([motd |-> r.motd, members |-> r.members])
<1> DEFINE b == RosterBody(r)
           f == MemberCode
           list == r.members
           x == Len(r.motd)
           y == Len(r.info)
           k == MembersAt(r)
           res == decode_guild_roster(d)
           size == Uint32(r.ranks)
           motd == Cstring(d, Reader(4, <<>>))
           info == SkipString(d, motd)
           head == Fixed(d, info, 4)
           start == [head EXCEPT !.at = @ + 4 * Number(head.fields[2]), !.fields = <<>>]
           all == Entries("roster", d, start, Len(list))
           value == [motd |-> head.fields[1], members |-> all.fields]
           Stop(n) == k + Behind(list, f, n)
<1>1. /\ r.motd \in Strings /\ r.info \in Strings /\ r.ranks \in Nat
      /\ list \in Seq(MemberEntries) /\ Len(list) \in Nat
      /\ b \in Texts /\ Len(b) = k + Len(Subst(list, f)) /\ At(b, k, Subst(list, f))
      /\ At(b, 0, Uint32(Len(list))) /\ At(b, 4, Append(r.motd, 0))
      /\ At(b, 5 + x, Append(r.info, 0)) /\ At(b, 6 + x + y, size)
      /\ f \in [MemberEntries -> Texts] /\ x \in Nat /\ y \in Nat
  BY RosterLayout, CodesAre, LenProperties
<1>2. /\ r.motd \in Seq(Nat \ {0}) /\ r.info \in Seq(Nat \ {0}) /\ r.motd \in Texts
      /\ size \in Texts /\ Len(size) = 4
  BY <1>1, FieldIs, Uint32Is
<1>3. IsCut(d, b) /\ Len(d) \in Nat /\ Len(b) \in Nat /\ Len(d) <= Len(b)
  BY DEF IsCut
<1>4. /\ k \in Nat
      /\ \A i \in 0..Len(list) : Behind(list, f, i) \in Nat
      /\ \A i \in 0..Len(list) - 1 :
            /\ list[i + 1] \in MemberEntries
            /\ At(b, Stop(i), f[list[i + 1]]) /\ Stop(i + 1) <= Len(b)
      /\ Behind(list, f, Len(list)) = Len(Subst(list, f))
      /\ k = 10 + x + y + 4 * r.ranks
  BY <1>1, ListIs, CodeIs DEF MembersAt
<1>5. Len(b) >= 8
  <2> DEFINE n == 4 * r.ranks
             t == Behind(list, f, Len(list))
  <2>1. n \in Nat /\ t \in Nat /\ Len(b) = 10 + x + y + n + t
    BY <1>1, <1>4
  <2> HIDE DEF n, t, x, y
  <2> QED BY <1>1, <2>1
<1>6. CASE Len(d) < 8
  <2>1. res = Raised
    BY <1>6 DEF decode_guild_roster
  <2> QED BY <1>3, <1>5, <1>6, <2>1
<1>7. CASE ~(Len(d) < 8)
  <2>1. res = IF head.state = "raised" THEN Raised ELSE Result(all, value)
    <3>1. Number(SubSeq(d, 1, 4)) = Len(list)
      BY <1>1, <1>3, <1>7, CountRead
    <3>2. Cursor(4) = Reader(4, <<>>)
      BY DEF Cursor, Reader
    <3> QED BY <1>7, <3>1, <3>2, Zenon DEF decode_guild_roster
  <2>2. Reads(Reader(4, <<>>), d, 4, <<>>)
    BY <1>3, <1>7 DEF Reads
  <2>3. Reads(motd, d, 5 + x, <<r.motd>>)
    <3>1. Append(<<>>, r.motd) = <<r.motd>>
      OBVIOUS
    <3> HIDE DEF x
    <3>2. Reads(motd, d, 4 + x + 1, Append(<<>>, r.motd))
      BY <1>1, <1>2, <1>3, <2>2, ReadsCstring DEF x
    <3>3. 4 + x + 1 = 5 + x
      BY <1>1
    <3> QED BY <3>1, <3>2, <3>3
  <2> HIDE DEF motd, x, y
  <2>4. Reads(info, d, 6 + x + y, <<r.motd>>)
    <3>1. Reads(info, d, (5 + x) + y + 1, <<r.motd>>)
      BY <1>1, <1>2, <1>3, <2>3, ReadsPast DEF y
    <3>2. (5 + x) + y + 1 = 6 + x + y
      BY <1>1
    <3> QED BY <3>1, <3>2
  <2> HIDE DEF info
  <2>5. Reads(head, d, 10 + x + y, <<r.motd, size>>)
    <3>1. Append(<<r.motd>>, size) = <<r.motd, size>>
      BY <1>2, AppendSecond
    <3> HIDE DEF size
    <3>2. Reads(Fixed(d, info, Len(size)), d, (6 + x + y) + Len(size), Append(<<r.motd>>, size))
      BY <1>1, <1>2, <1>3, <2>4, ReadsFixed
    <3>3. (6 + x + y) + 4 = 10 + x + y
      BY <1>1
    <3> QED BY <1>2, <3>1, <3>2, <3>3
  <2> DEFINE q == 10 + x + y
             n == 4 * r.ranks
  <2>6. n \in Nat /\ q \in Nat /\ k = q + n
    <3>1. n \in Nat /\ k = 10 + x + y + n
      BY <1>1, <1>4
    <3> HIDE DEF n, k
    <3> QED BY <1>1, <3>1
  <2>7. CASE ~(q <= Len(d))
    <3>1. res = Raised
      BY <2>1, <2>5, <2>7 DEF Reads
    <3>2. Len(d) # Len(b)
      <4> DEFINE t == Behind(list, f, Len(list))
      <4>1. t \in Nat /\ Len(b) = k + t
        BY <1>1, <1>4
      <4> HIDE DEF t, q, n
      <4> QED BY <1>3, <2>6, <2>7, <4>1
    <3> QED BY <3>1, <3>2
  <2>8. CASE q <= Len(d)
    <3>1. head = Reader(q, <<r.motd, size>>)
      BY <2>5, <2>8 DEF Reads
    <3>2. /\ head.state = "more" /\ head.fields[1] = r.motd /\ head.fields[2] = size
          /\ head.at = q
      BY <3>1 DEF Reader
    <3>3. Number(head.fields[2]) = r.ranks
      BY <1>1, <3>2, NumberIs
    <3> HIDE DEF q, n
    <3>4. start = Reader(k, <<>>)
      <4>1. start = [head EXCEPT !.at = @ + n, !.fields = <<>>]
        BY <3>3 DEF n
      <4> HIDE DEF start, head, k
      <4>2. [Reader(q, <<r.motd, size>>) EXCEPT !.at = @ + n, !.fields = <<>>]
            = Reader(q + n, <<>>)
        BY <2>6, StartsAnew
      <4> QED BY <2>6, <3>1, <4>1, <4>2
    <3> HIDE DEF start
    <3>5. all = Entries("roster", d, Reader(k, <<>>), Len(list))
      BY <3>4
    <3>6. res = Result(all, [motd |-> r.motd, members |-> all.fields])
      BY <2>1, <3>2
    <3> HIDE DEF all, b, f, k, list, res
    <3>7. ASSUME NEW i \in 0..Len(list) - 1
          PROVE  Takes("roster", d, Stop(i), Len(f[list[i + 1]]), list[i + 1],
                       Len(d) - Stop(i) \in MemberTorn[list[i + 1]])
      BY <1>1, <1>3, <1>4, MemberTaken DEF f
    <3>8. \/ Taken(all, list, f, k, d, Len(list))
          \/ \E i \in 0..Len(list) - 1 : StopsBehind(all, list, f, MemberTorn, k, d, i)
      <4>1. \/ Taken(Entries("roster", d, Reader(k, <<>>), Len(list)), list, f, k, d, Len(list))
            \/ \E i \in 0..Len(list) - 1 :
                  StopsBehind(Entries("roster", d, Reader(k, <<>>), Len(list)), list, f,
                              MemberTorn, k, d, i)
        BY <1>1, <1>3, <1>4, <3>7, EntriesRead
      <4> QED BY <3>5, <4>1, Zenon
    <3>9. CASE Taken(all, list, f, k, d, Len(list))
      <4>1. SubSeq(list, 1, Len(list)) = list
        BY <1>1
      <4>2. all.state = "more" /\ all.fields = list
        BY <3>9, <4>1 DEF Taken, Reader
      <4>3. res = Gave([motd |-> r.motd, members |-> list])
        BY <3>6, <4>2 DEF Result
      <4>4. Len(list) \in 0..Len(list)
        BY <1>1
      <4> QED BY <4>1, <4>3, <4>4 DEF list, res
    <3>10. ASSUME NEW i \in 0..Len(list) - 1, StopsBehind(all, list, f, MemberTorn, k, d, i)
           PROVE  /\ i \in 0..Len(list) /\ Len(d) # Len(b)
                  /\ \/ res = Raised
                     \/ res = Gave([motd |-> r.motd, members |-> SubSeq(list, 1, i)])
      <4>1. all.fields = SubSeq(list, 1, i) /\ Len(d) < Stop(i + 1)
        BY <3>10 DEF StopsBehind
      <4>2. Stop(i + 1) <= Len(b) /\ i + 1 \in 0..Len(list) /\ i \in 0..Len(list)
        <5>1. Stop(i + 1) <= Len(b)
          BY <1>4
        <5> HIDE DEF Stop
        <5> QED BY <1>1, <5>1
      <4>3. Behind(list, f, i + 1) \in Nat
        BY <1>4, <4>2
      <4>4. Len(d) # Len(b)
        BY <1>3, <1>4, <4>1, <4>2, <4>3
      <4>5. res = IF all.state = "raised" THEN Raised
                  ELSE Gave([motd |-> r.motd, members |-> SubSeq(list, 1, i)])
        BY <3>6, <4>1 DEF Result
      <4> QED BY <4>2, <4>4, <4>5
    <3> QED BY <3>8, <3>9, <3>10 DEF b, list, res
  <2> QED BY <2>7, <2>8
<1> QED BY <1>6, <1>7

-----------------------------------------------------------------------------
\* The bytes of a character.
CharacterCode ==
    [c \in CharacterEntries |-> c[1] \o Append(c[2], 0) \o c[3] \o c[4]]

LEMMA WithoutRest ==
    \A x1, x2, x3, x4, y : [<<x1, x2, x3, x4>> EXCEPT ![4] = y] = <<x1, x2, x3, y>>
OBVIOUS

LEMMA CharacterIs ==
    ASSUME NEW c \in CharacterEntries
    PROVE  /\ c[1] \in Texts /\ Len(c[1]) = 8 /\ c[2] \in Strings
           /\ c[3] \in Texts /\ Len(c[3]) = 9 /\ c[4] \in Texts
           /\ [c EXCEPT ![4] = <<>>] \in CharacterEntries
           /\ LET e == [c EXCEPT ![4] = <<>>]
              IN  e[1] = c[1] /\ e[2] = c[2] /\ e[3] = c[3] /\ e[4] = <<>>
<1>1. /\ c = <<c[1], c[2], c[3], c[4]>> /\ c[1] \in Field(8) /\ c[2] \in Strings
      /\ c[3] \in Field(9) /\ c[4] \in Seq(Nat)
  BY DEF CharacterEntries
<1> DEFINE none == <<>>
           x1 == c[1]
           x2 == c[2]
           x3 == c[3]
           x4 == c[4]
<1>2. [c EXCEPT ![4] = none] = <<c[1], c[2], c[3], none>>
  <2>1. [<<x1, x2, x3, x4>> EXCEPT ![4] = none] = <<x1, x2, x3, none>>
    BY WithoutRest
  <2> QED BY <1>1, <2>1
<1>3. <<c[1], c[2], c[3], none>> \in CharacterEntries
  <2>1. none \in Seq(Nat)
    OBVIOUS
  <2> HIDE DEF none
  <2> QED BY <1>1, <2>1 DEF CharacterEntries
<1>4. LET e == [c EXCEPT ![4] = none]
      IN  e[1] = c[1] /\ e[2] = c[2] /\ e[3] = c[3] /\ e[4] = none
  <2> HIDE DEF none
  <2> QED BY <1>2
<1>5. c[1] \in Texts /\ Len(c[1]) = 8 /\ c[3] \in Texts /\ Len(c[3]) = 9 /\ c[4] \in Texts
  BY <1>1, FieldIs DEF Texts
<1>6. [c EXCEPT ![4] = none] \in CharacterEntries
  BY <1>2, <1>3
<1> QED BY <1>1, <1>4, <1>5, <1>6

LEMMA CharacterLayout ==
    ASSUME NEW c \in CharacterEntries
    PROVE  LET b == CharacterCode[c]
               x == Len(c[2])
           IN  /\ b \in Texts /\ Len(b) = 18 + x + Len(c[4]) /\ x \in Nat
               /\ Len(c[4]) \in Nat
               /\ At(b, 0, c[1]) /\ At(b, 8, Append(c[2], 0)) /\ At(b, 9 + x, c[3])
<1> DEFINE p1 == c[1]
           p2 == Append(c[2], 0)
           p3 == c[3]
           p4 == c[4]
           x == Len(c[2])
           q2 == p1 \o p2
           q3 == q2 \o p3
           q4 == q3 \o p4
<1>1. /\ p1 \in Texts /\ Len(p1) = 8 /\ p2 \in Texts /\ Len(p2) = x + 1 /\ x \in Nat
      /\ p3 \in Texts /\ Len(p3) = 9 /\ p4 \in Texts /\ Len(p4) \in Nat
  BY CharacterIs, FieldIs, LenProperties DEF Texts
<1>2. CharacterCode[c] = q4
  BY DEF CharacterCode
<1> HIDE DEF p1, p2, p3, p4, x
<1>3. q2 \in Texts /\ Joined(p1, p2, q2)
  BY <1>1, Joining
<1> HIDE DEF q2
<1>4. q3 \in Texts /\ Joined(q2, p3, q3)
  BY <1>1, <1>3, Joining
<1> HIDE DEF q3
<1>5. q4 \in Texts /\ Joined(q3, p4, q4)
  BY <1>1, <1>4, Joining
<1> HIDE DEF q4
<1>6. /\ Len(q2) = 9 + x /\ Len(q3) = 18 + x /\ Len(q4) = 18 + x + Len(p4)
      /\ At(p1, 0, p1)
  BY <1>1, <1>3, <1>4, <1>5 DEF Joined, At
<1>7. At(q4, 0, p1) /\ At(q4, 8, p2) /\ At(q4, 9 + x, p3)
  BY <1>1, <1>3, <1>4, <1>5, <1>6 DEF Joined
<1> QED BY <1>1, <1>2, <1>5, <1>6, <1>7 DEF p1, p2, p3, p4, x

LEMMA CharactersLayout ==
    ASSUME NEW list \in Seq(CharacterEntries)
    PROVE  LET b == CharacterBody(list)
               t == Subst(list, CharacterCode)
           IN  /\ CharacterCode \in [CharacterEntries -> Texts]
               /\ b \in Texts /\ Len(b) = 1 + Len(t) /\ t \in Texts /\ At(b, 1, t)
               /\ b[1] = Len(list)
<1> DEFINE t == Subst(list, CharacterCode)
           h == <<Len(list)>>
           b == h \o t
<1>1. CharacterCode \in [CharacterEntries -> Texts]
  BY CharacterLayout DEF CharacterCode
<1>2. t \in Texts /\ Len(list) \in Nat
  BY <1>1, CodeIs, LenProperties
<1>3. CharacterBody(list) = b
  <2>1. DOMAIN list = 1..Len(list) /\ \A i \in 1..Len(list) : list[i] \in CharacterEntries
    BY LenProperties, ElementOfSeq
  <2>2. [i \in DOMAIN list |-> list[i][1] \o Append(list[i][2], 0) \o list[i][3] \o list[i][4]]
           = [i \in DOMAIN list |-> CharacterCode[list[i]]]
    BY <2>1 DEF CharacterCode
  <2> QED BY <2>2 DEF CharacterBody, ConcatMap, Subst
<1>4. h \in Texts /\ Len(h) = 1 /\ h[1] = Len(list)
  BY <1>2 DEF Texts
<1> HIDE DEF t, h
<1>5. b \in Texts /\ Joined(h, t, b)
  BY <1>2, <1>4, Joining
<1> HIDE DEF b
<1>6. Len(b) = 1 + Len(t) /\ At(b, 1, t)
  BY <1>4, <1>5 DEF Joined
<1>7. b[1] = Len(list)
  <2>1. At(h, 0, h)
    BY <1>4 DEF At
  <2>2. At(b, 0, h)
    BY <1>4, <1>5, <2>1 DEF Joined
  <2> QED BY <1>4, <2>2 DEF At
<1> QED BY <1>1, <1>2, <1>3, <1>5, <1>6, <1>7 DEF t

\* What request_characters needs of a list: the first character, but for what
\* comes behind its nine single bytes.
FirstOf(list) == [i \in DOMAIN list \cap {1} |-> list[i]]
NeededOf(list) ==
    Len(CharacterBody([i \in DOMAIN FirstOf(list) |-> [FirstOf(list)[i] EXCEPT ![4] = <<>>]]))

LEMMA FirstIs ==
    ASSUME NEW list \in Seq(CharacterEntries)
    PROVE  /\ list = <<>> => FirstOf(list) = <<>> /\ NeededOf(list) = 1
           /\ list # <<>> => /\ Len(list) \in Nat \ {0} /\ list[1] \in CharacterEntries
                             /\ FirstOf(list) = <<list[1]>>
                             /\ NeededOf(list) = 19 + Len(list[1][2])
<1> DEFINE short == [i \in DOMAIN FirstOf(list) |-> [FirstOf(list)[i] EXCEPT ![4] = <<>>]]
           none == <<>>
<1>1. DOMAIN list = 1..Len(list) /\ Len(list) \in Nat
  BY LenProperties
<1>2. ASSUME list = <<>> PROVE FirstOf(list) = <<>> /\ NeededOf(list) = 1
  <2>1. DOMAIN list \cap {1} = {}
    BY <1>1, <1>2
  <2>2. FirstOf(list) = <<>> /\ short = <<>>
    <3>1. FirstOf(list) = <<>>
      BY <2>1 DEF FirstOf
    <3>2. DOMAIN FirstOf(list) = {}
      BY <3>1
    <3> QED BY <3>1, <3>2
  <2>3. Len(CharacterBody(none)) = 1 + Len(Subst(none, CharacterCode))
    <3>1. none \in Seq(CharacterEntries)
      OBVIOUS
    <3> HIDE DEF none
    <3> QED BY <3>1, CharactersLayout
  <2>4. Len(Subst(none, CharacterCode)) = 0
    <3>1. Subst(none, CharacterCode) = <<>>
      BY SubstEmpty
    <3> QED BY <3>1
  <2>5. NeededOf(list) = Len(CharacterBody(short))
    BY DEF NeededOf
  <2> HIDE DEF short
  <2>6. NeededOf(list) = Len(CharacterBody(none))
    BY <2>2, <2>5
  <2> HIDE DEF none
  <2> QED BY <2>2, <2>3, <2>4, <2>6
<1>3. ASSUME list # <<>>
      PROVE  /\ Len(list) \in Nat \ {0} /\ list[1] \in CharacterEntries
             /\ FirstOf(list) = <<list[1]>> /\ NeededOf(list) = 19 + Len(list[1][2])
  <2> DEFINE c == list[1]
             e == [c EXCEPT ![4] = <<>>]
             one == Append(none, e)
  <2>1. Len(list) \in Nat \ {0}
    BY <1>1, <1>3, EmptySeq
  <2>2. DOMAIN list \cap {1} = {1} /\ c \in CharacterEntries
    BY <1>1, <2>1, ElementOfSeq
  <2>3. FirstOf(list) = <<c>>
    BY <2>2 DEF FirstOf
  <2>4. e \in CharacterEntries /\ e[2] = c[2] /\ e[4] = <<>>
    BY <2>2, CharacterIs
  <2> HIDE DEF c, e
  <2>5. short = <<e>>
    BY <2>3 DEF e
  <2>6. one = <<e>> /\ one \in Seq(CharacterEntries) /\ none \in Seq(CharacterEntries)
    BY <2>4
  <2>7. Subst(one, CharacterCode) = Subst(none, CharacterCode) \o CharacterCode[e]
        /\ CharacterCode[e] \in Texts
    BY <2>4, <2>6, CharactersLayout, CodeAppend
  <2>8. Subst(one, CharacterCode) = CharacterCode[e]
    <3>1. \A s \in Texts : <<>> \o s = s
      BY ConcatEmptySeq DEF Texts
    <3> QED BY <2>7, <3>1, SubstEmpty
  <2>9. Len(CharacterCode[e]) = 18 + Len(c[2])
    <3>1. Len(CharacterCode[e]) = 18 + Len(e[2]) + Len(e[4]) /\ Len(e[2]) \in Nat
      BY <2>4, CharacterLayout
    <3>2. Len(e[4]) = 0
      BY <2>4
    <3> QED BY <2>4, <3>1, <3>2
  <2>10. Len(CharacterBody(one)) = 1 + Len(Subst(one, CharacterCode))
    BY <2>6, CharactersLayout
  <2>11. Len(c[2]) \in Nat
    BY <2>2, CharacterIs, FieldIs
  <2>12. NeededOf(list) = Len(CharacterBody(one))
    BY <2>5, <2>6 DEF NeededOf
  <2>13. NeededOf(list) = 19 + Len(c[2])
    BY <2>8, <2>9, <2>10, <2>11, <2>12
  <2> QED BY <2>1, <2>2, <2>3, <2>13 DEF c
<1> QED BY <1>2, <1>3

\* A character list is good as soon as its first name and level are complete.
LEMMA CharactersDecoded ==
    ASSUME NEW list \in CharacterLists, NEW d, IsCut(d, CharacterBody(list))
    PROVE  request_characters(d) =
              IF Len(d) < NeededOf(list) THEN Raised
              ELSE Gave([i \in DOMAIN FirstOf(list) |->
                            <<FirstOf(list)[i][1], FirstOf(list)[i][2], Last(FirstOf(list)[i][3])>>])
<1> DEFINE b == CharacterBody(list)
           f == CharacterCode
           first == Fixed(d, Cstring(d, Fixed(d, Cursor(1), 8)), 9)
           r == request_characters(d)
<1>1. list \in Seq(CharacterEntries)
  BY ListAssumption
<1>2. /\ f \in [CharacterEntries -> Texts] /\ b \in Texts /\ Len(b) = 1 + Len(Subst(list, f))
      /\ At(b, 1, Subst(list, f)) /\ b[1] = Len(list)
  BY <1>1, CharactersLayout
<1>3. IsCut(d, b) /\ Len(d) \in Nat /\ \A i \in 1..Len(d) : d[i] = b[i]
  BY DEF IsCut
<1>4. d = <<>> <=> Len(d) = 0
  <2>1. d \in Seq(Nat)
    BY <1>3 DEF IsCut, Texts
  <2> QED BY <2>1, EmptySeq
<1>5. CASE d = <<>>
  <2>1. r = Raised
    BY <1>5 DEF request_characters
  <2>2. Len(d) < NeededOf(list)
    <3>1. list # <<>> => Len(list[1][2]) \in Nat
      BY <1>1, FirstIs, CharacterIs, FieldIs
    <3> QED BY <1>1, <1>4, <1>5, <3>1, FirstIs
  <2> QED BY <2>1, <2>2
<1>6. CASE d # <<>> /\ list = <<>>
  <2>1. Len(d) >= 1 /\ 1 \in 1..Len(d)
    BY <1>3, <1>4, <1>6
  <2>2. d[1] = 0
    BY <1>2, <1>3, <1>6, <2>1
  <2>3. r = Gave(<<>>)
    BY <1>6, <2>2 DEF request_characters
  <2>4. FirstOf(list) = <<>> /\ NeededOf(list) = 1
    BY <1>1, <1>6, FirstIs
  <2> QED BY <1>3, <2>1, <2>3, <2>4
<1>7. CASE d # <<>> /\ list # <<>>
  <2> DEFINE c == list[1]
             x == Len(c[2])
             e == f[c]
  <2>1. /\ Len(list) \in Nat \ {0} /\ c \in CharacterEntries /\ FirstOf(list) = <<c>>
        /\ NeededOf(list) = 19 + x
    BY <1>1, <1>7, FirstIs
  <2>2. /\ c[1] \in Texts /\ Len(c[1]) = 8 /\ c[2] \in Strings
        /\ c[3] \in Texts /\ Len(c[3]) = 9 /\ c[2] \in Seq(Nat \ {0}) /\ c[2] \in Texts
        /\ Append(c[2], 0) \in Texts /\ x \in Nat
    BY <2>1, CharacterIs, FieldIs
  <2>3. /\ e \in Texts /\ At(e, 0, c[1]) /\ At(e, 8, Append(c[2], 0)) /\ At(e, 9 + x, c[3])
    BY <2>1, CharacterLayout
  <2>4. At(b, 1, e)
    <3>1. \A i \in 0..Len(list) - 1 : At(b, 1 + Behind(list, f, i), f[list[i + 1]])
      BY <1>1, <1>2, ListIs
    <3>2. 0 \in 0..Len(list) - 1 /\ Behind(list, f, 0) = 0
      BY <2>1, CodeEmpty
    <3> HIDE DEF b, f
    <3>3. At(b, 1 + 0, f[list[0 + 1]])
      BY <3>1, <3>2
    <3> QED BY <3>3
  <2> HIDE DEF b, c, x, e
  <2>5. At(b, 1, c[1]) /\ At(b, 9, Append(c[2], 0)) /\ At(b, 10 + x, c[3])
    <3>1. At(b, 1 + 0, c[1]) /\ At(b, 1 + 8, Append(c[2], 0)) /\ At(b, 1 + (9 + x), c[3])
      BY <1>2, <2>2, <2>3, <2>4, AtBehind
    <3>2. 1 + (9 + x) = 10 + x
      BY <2>2
    <3> QED BY <3>1, <3>2
  <2>6. Len(d) >= 1 /\ 1 \in 1..Len(d)
    BY <1>3, <1>4, <1>7
  <2>7. d[1] # 0
    BY <1>2, <1>3, <2>1, <2>6
  <2>8. r = Result(first, << <<first.fields[1], first.fields[2], first.fields[3][9]>> >>)
    BY <1>7, <2>7 DEF request_characters
  <2>9. /\ Append(<<>>, c[1]) = <<c[1]>> /\ Append(<<c[1]>>, c[2]) = <<c[1], c[2]>>
        /\ Append(<<c[1], c[2]>>, c[3]) = <<c[1], c[2], c[3]>>
    <3>1. c[1] \in Texts /\ c[2] \in Texts /\ c[3] \in Texts
      BY <2>2
    <3>2. Append(<<>>, c[1]) = <<c[1]>>
      OBVIOUS
    <3>3. Append(<<c[1]>>, c[2]) = <<c[1], c[2]>>
      BY <3>1, AppendSecond
    <3>4. Append(<<c[1], c[2]>>, c[3]) = <<c[1], c[2], c[3]>>
      BY <3>1, AppendThird
    <3> QED BY <3>2, <3>3, <3>4
  <2> DEFINE guid == Fixed(d, Cursor(1), 8)
             name == Cstring(d, guid)
  <2>10. Reads(Cursor(1), d, 1, <<>>)
    BY <2>6 DEF Reads, Cursor, Reader
  <2>11. Reads(guid, d, 9, <<c[1]>>)
    <3>1. Reads(Fixed(d, Cursor(1), Len(c[1])), d, 1 + Len(c[1]), Append(<<>>, c[1]))
      BY <1>3, <2>2, <2>5, <2>10, ReadsFixed
    <3> QED BY <2>2, <2>9, <3>1
  <2> HIDE DEF guid
  <2>12. Reads(name, d, 10 + x, <<c[1], c[2]>>)
    <3>1. Reads(name, d, 9 + Len(c[2]) + 1, Append(<<c[1]>>, c[2]))
      BY <1>3, <2>2, <2>5, <2>11, ReadsCstring
    <3>2. 9 + x + 1 = 10 + x
      BY <2>2
    <3> QED BY <2>9, <3>1, <3>2 DEF x
  <2> HIDE DEF name
  <2>13. Reads(first, d, 19 + x, <<c[1], c[2], c[3]>>)
    <3>1. Reads(Fixed(d, name, Len(c[3])), d, (10 + x) + Len(c[3]), Append(<<c[1], c[2]>>, c[3]))
      BY <1>3, <2>2, <2>5, <2>12, ReadsFixed
    <3>2. (10 + x) + 9 = 19 + x
      BY <2>2
    <3> QED BY <2>2, <2>9, <3>1, <3>2 DEF guid, name
  <2> HIDE DEF first, r
  <2>14. CASE 19 + x <= Len(d)
    <3>1. first = Reader(19 + x, <<c[1], c[2], c[3]>>)
      BY <2>13, <2>14 DEF Reads
    <3>2. first.state = "more" /\ first.fields = <<c[1], c[2], c[3]>>
      BY <3>1 DEF Reader
    <3>3. r = Gave(<< <<c[1], c[2], c[3][9]>> >>)
      BY <2>8, <3>2 DEF Result
    <3>4. Last(c[3]) = c[3][9]
      BY <2>2 DEF Last
    <3>5. [i \in DOMAIN FirstOf(list) |->
              <<FirstOf(list)[i][1], FirstOf(list)[i][2], Last(FirstOf(list)[i][3])>>]
          = << <<c[1], c[2], c[3][9]>> >>
      BY <2>1, <3>4
    <3>6. ~(Len(d) < NeededOf(list))
      BY <1>3, <2>1, <2>2, <2>14
    <3> QED BY <3>3, <3>5, <3>6 DEF r
  <2>15. CASE ~(19 + x <= Len(d))
    <3>1. r = Raised
      BY <2>8, <2>13, <2>15 DEF Reads, Result
    <3>2. Len(d) < NeededOf(list)
      BY <1>3, <2>1, <2>2, <2>15
    <3> QED BY <3>1, <3>2 DEF r
  <2> QED BY <2>14, <2>15
<1> QED BY <1>5, <1>6, <1>7

-----------------------------------------------------------------------------
\* What send_chat's packet says, and to whom.
CommandBytes(type, part, text) == Uint32(type) \o Zero(4) \o part \o Append(text, 0)
Addressee(c) == CASE c.type = Whisper -> <<c.target>>
                  [] c.type = Channel -> <<c.channel>>
                  [] OTHER -> <<>>
\* What the server reads of a message that the bridge sends.
ReadBack(c) ==
    LET body == encode_messagechat(c.type, c.text, c.target, c.channel)
    IN  IF body = Raised THEN Raised ELSE ServerReads(body.value)

LEMMA CommandLayout ==
    ASSUME NEW type \in Nat, NEW part \in Texts, NEW text \in Strings
    PROVE  LET b == CommandBytes(type, part, text)
               n == Len(part)
           IN  /\ b \in Texts /\ Len(b) = 9 + n + Len(text) /\ n \in Nat /\ Len(text) \in Nat
               /\ b[1] = type /\ At(b, 8, part) /\ At(b, 8 + n, Append(text, 0))
<1> DEFINE p1 == Uint32(type)
           p2 == Zero(4)
           p3 == part
           p4 == Append(text, 0)
           n == Len(part)
           q2 == p1 \o p2
           q3 == q2 \o p3
           q4 == q3 \o p4
<1>1. /\ p1 \in Texts /\ Len(p1) = 4 /\ p1[1] = type
      /\ p3 \in Texts /\ n \in Nat /\ n = Len(p3)
      /\ p4 \in Texts /\ Len(p4) = Len(text) + 1 /\ Len(text) \in Nat
  BY Uint32Is, FieldIs, LenProperties DEF Texts, Uint32
<1>2. p2 \in Texts /\ Len(p2) = 4
  BY DEF Zero, Texts
<1>3. CommandBytes(type, part, text) = q4
  BY DEF CommandBytes
<1> HIDE DEF p1, p2, p3, p4, n
<1>4. q2 \in Texts /\ Joined(p1, p2, q2)
  BY <1>1, <1>2, Joining
<1> HIDE DEF q2
<1>5. q3 \in Texts /\ Joined(q2, p3, q3)
  BY <1>1, <1>4, Joining
<1> HIDE DEF q3
<1>6. q4 \in Texts /\ Joined(q3, p4, q4)
  BY <1>1, <1>5, Joining
<1> HIDE DEF q4
<1>7. /\ Len(q2) = 8 /\ Len(q3) = 8 + n /\ Len(q4) = 9 + n + Len(text) /\ At(p1, 0, p1)
  BY <1>1, <1>2, <1>4, <1>5, <1>6 DEF Joined, At
<1>8. At(q4, 0, p1) /\ At(q4, 8, p3) /\ At(q4, 8 + n, p4)
  BY <1>1, <1>4, <1>5, <1>6, <1>7 DEF Joined
<1>9. q4[1] = type
  BY <1>1, <1>8 DEF At
<1> QED BY <1>1, <1>3, <1>6, <1>7, <1>8, <1>9 DEF p3, p4, n

\* The server reads the text, and whom it is for if the message is addressed.
LEMMA ServerReadsBack ==
    ASSUME NEW type \in Nat, NEW to \in Strings, NEW text \in Strings
    PROVE  /\ type \in {Whisper, Channel} =>
                 ServerReads(CommandBytes(type, Append(to, 0), text)) = Gave(<<to, text>>)
           /\ type \notin {Whisper, Channel} =>
                 ServerReads(CommandBytes(type, <<>>, text)) = Gave(<<text>>)
<1> DEFINE none == <<>>
           start == Reader(8, none)
<1>1. /\ to \in Texts /\ text \in Texts /\ to \in Seq(Nat \ {0}) /\ text \in Seq(Nat \ {0})
      /\ Append(to, 0) \in Texts /\ Len(Append(to, 0)) = Len(to) + 1 /\ Len(to) \in Nat
      /\ Len(text) \in Nat
  BY FieldIs
<1>2. none \in Texts /\ Len(none) = 0 /\ Cursor(8) = start
  BY DEF Texts, Cursor, Reader
<1>3. ASSUME NEW b \in Texts PROVE IsCut(b, b) /\ Len(b) \in Nat
  BY LenProperties DEF IsCut, Texts
<1>4. Append(none, to) = <<to>> /\ Append(none, text) = <<text>>
  OBVIOUS
<1>5. Append(<<to>>, text) = <<to, text>>
  BY <1>1, AppendSecond
<1>6. ASSUME type \in {Whisper, Channel}
      PROVE  ServerReads(CommandBytes(type, Append(to, 0), text)) = Gave(<<to, text>>)
  <2> DEFINE b == CommandBytes(type, Append(to, 0), text)
             x == Len(to)
             y == Len(text)
             named == Cstring(b, start)
             all == Cstring(b, named)
  <2>1. /\ b \in Texts /\ Len(b) = 9 + (x + 1) + y /\ b[1] = type
        /\ At(b, 8, Append(to, 0)) /\ At(b, 8 + (x + 1), Append(text, 0))
    <3> DEFINE part == Append(to, 0)
    <3>1. part \in Texts /\ Len(part) = x + 1
      BY <1>1
    <3> HIDE DEF part
    <3>2. LET v == CommandBytes(type, part, text)
          IN  /\ v \in Texts /\ Len(v) = 9 + Len(part) + Len(text) /\ v[1] = type
              /\ At(v, 8, part) /\ At(v, 8 + Len(part), Append(text, 0))
      BY <3>1, CommandLayout
    <3> QED BY <3>1, <3>2 DEF part
  <2>2. ServerReads(b) = Result(all, all.fields)
    BY <1>2, <1>6, <2>1 DEF ServerReads
  <2> HIDE DEF b
  <2>3. IsCut(b, b) /\ Len(b) \in Nat
    BY <1>3, <2>1
  <2>4. Reads(start, b, 8, none)
    <3>1. 8 <= Len(b)
      BY <1>1, <2>1
    <3> QED BY <3>1 DEF Reads
  <2> HIDE DEF start
  <2>5. Reads(named, b, 8 + Len(to) + 1, Append(none, to))
    BY <1>1, <2>1, <2>3, <2>4, ReadsCstring
  <2>6. 8 + Len(to) + 1 = 8 + (x + 1)
    BY <1>1
  <2> HIDE DEF named, x
  <2>7. Reads(named, b, 8 + (x + 1), <<to>>)
    BY <1>4, <2>5, <2>6
  <2>8. Reads(all, b, 8 + (x + 1) + Len(text) + 1, Append(<<to>>, text))
    BY <1>1, <2>1, <2>3, <2>7, ReadsCstring
  <2>9. 8 + (x + 1) + Len(text) + 1 = Len(b)
    BY <1>1, <2>1 DEF x
  <2> HIDE DEF all
  <2>10. all = Reader(Len(b), <<to, text>>)
    <3>1. Reads(all, b, Len(b), <<to, text>>)
      BY <1>5, <2>8, <2>9
    <3> QED BY <2>3, <3>1 DEF Reads
  <2>11. all.state = "more" /\ all.fields = <<to, text>>
    BY <2>10 DEF Reader
  <2> QED BY <2>2, <2>11 DEF Result, b
<1>7. ASSUME type \notin {Whisper, Channel}
      PROVE  ServerReads(CommandBytes(type, none, text)) = Gave(<<text>>)
  <2> DEFINE b == CommandBytes(type, none, text)
             all == Cstring(b, start)
  <2>1. /\ b \in Texts /\ Len(b) = 9 + Len(text) /\ b[1] = type
        /\ At(b, 8, Append(text, 0))
    <3> HIDE DEF none
    <3>1. /\ b \in Texts /\ Len(b) = 9 + Len(none) + Len(text) /\ b[1] = type
          /\ At(b, 8 + Len(none), Append(text, 0))
      BY <1>2, CommandLayout
    <3> QED BY <1>1, <1>2, <3>1
  <2>2. ServerReads(b) = Result(all, all.fields)
    BY <1>2, <1>7, <2>1 DEF ServerReads
  <2> HIDE DEF b
  <2>3. IsCut(b, b) /\ Len(b) \in Nat
    BY <1>3, <2>1
  <2>4. Reads(start, b, 8, none)
    <3>1. 8 <= Len(b)
      BY <1>1, <2>1
    <3> QED BY <3>1 DEF Reads
  <2> HIDE DEF start
  <2>5. Reads(all, b, 8 + Len(text) + 1, Append(none, text))
    BY <1>1, <2>1, <2>3, <2>4, ReadsCstring
  <2>6. 8 + Len(text) + 1 = Len(b)
    BY <1>1, <2>1
  <2> HIDE DEF all
  <2>7. all = Reader(Len(b), <<text>>)
    BY <1>4, <2>3, <2>5, <2>6 DEF Reads
  <2>8. all.state = "more" /\ all.fields = <<text>>
    BY <2>7 DEF Reader
  <2> QED BY <2>2, <2>8 DEF Result, b
<1> QED BY <1>6, <1>7

\* The server reads back what send_chat was given, and what has no addressee is
\* refused.
LEMMA CommandDecoded ==
    ASSUME NEW c \in Commands
    PROVE  ReadBack(c) = IF Addressee(c) = << <<>> >> THEN Raised
                         ELSE Gave(Append(Addressee(c), c.text))
<1> DEFINE none == <<>>
           body == encode_messagechat(c.type, c.text, c.target, c.channel)
           to == IF c.type = Whisper THEN c.target ELSE c.channel
<1>1. c.type \in Nat /\ c.text \in Strings /\ c.target \in Strings /\ c.channel \in Strings
  BY ListAssumption
<1>2. \A v : Gave(v) # Raised /\ Gave(v).value = v
  BY DEF Gave, Raised
<1>3. CASE c.type \in {Whisper, Channel}
  <2>1. Addressee(c) = <<to>> /\ to \in Strings
    BY <1>1, <1>3 DEF Addressee, Whisper, Channel
  <2>2. body = IF to = none THEN Raised
               ELSE Gave(CommandBytes(c.type, Append(to, 0), c.text))
    BY <1>3 DEF encode_messagechat, CommandBytes, Whisper, Channel
  <2> HIDE DEF to, body, none
  <2>3. CASE to = none
    <3>1. Addressee(c) = <<none>>
      BY <2>1, <2>3
    <3>2. ReadBack(c) = Raised
      BY <2>2, <2>3 DEF ReadBack, body
    <3> QED BY <3>1, <3>2 DEF none
  <2>4. CASE to # none
    <3>1. Addressee(c) # <<none>>
      BY <2>1, <2>4
    <3>2. ReadBack(c) = ServerReads(CommandBytes(c.type, Append(to, 0), c.text))
      BY <1>2, <2>2, <2>4 DEF ReadBack, body
    <3>3. ReadBack(c) = Gave(<<to, c.text>>)
      BY <1>1, <1>3, <2>1, <3>2, ServerReadsBack
    <3>4. Append(<<to>>, c.text) = <<to, c.text>>
      <4>1. to \in Texts /\ c.text \in Texts
        BY <1>1, <2>1, FieldIs
      <4> QED BY <4>1, AppendSecond
    <3> QED BY <2>1, <3>1, <3>3, <3>4 DEF none
  <2> QED BY <2>3, <2>4
<1>4. CASE c.type \notin {Whisper, Channel}
  <2>1. Addressee(c) = none
    BY <1>4 DEF Addressee
  <2>2. body = Gave(CommandBytes(c.type, none, c.text))
    BY <1>4 DEF encode_messagechat, CommandBytes
  <2>3. Append(none, c.text) = <<c.text>> /\ none # <<none>>
    OBVIOUS
  <2> HIDE DEF body, none
  <2>4. ReadBack(c) = ServerReads(CommandBytes(c.type, none, c.text))
    BY <1>2, <2>2 DEF ReadBack, body
  <2>5. ReadBack(c) = Gave(<<c.text>>)
    BY <1>1, <1>4, <2>4, ServerReadsBack DEF none
  <2> QED BY <2>1, <2>3, <2>5 DEF none
<1> QED BY <1>3, <1>4

-----------------------------------------------------------------------------
\* The server's packet and what it is handed as belong together, and so do the
\* message and its posts.
Received ==
    /\ packet = NoPacket => handed = Pending
    /\ packet.kind = "who" =>
          packet.content \in WhoLists /\ packet.size \in 0..Len(WhoBody(packet.content))
    /\ packet.kind = "roster" =>
          packet.content \in Rosters /\ packet.size \in 0..Len(RosterBody(packet.content))
    /\ packet.kind = "event" =>
          packet.content \in Events /\ packet.size \in 0..Len(EventBody(packet.content))
    /\ packet.kind = "chat" =>
          packet.content \in Chats /\ packet.size \in 0..Len(ChatBody(packet.content))
    /\ packet.kind = "name" =>
          packet.content \in NameAnswers /\ packet.size \in 0..Len(NameBody(packet.content))
    /\ packet.kind = "characters" =>
          packet.content \in CharacterLists /\ packet.size \in 0..Len(CharacterBody(packet.content))
    /\ packet.kind = "command" => packet.content \in Commands

Decoded ==
    /\ Is("who") =>
          handed = decode_who_response(SubSeq(WhoBody(packet.content), 1, packet.size))
    /\ Is("roster") =>
          handed = decode_guild_roster(SubSeq(RosterBody(packet.content), 1, packet.size))
    /\ Is("event") =>
          handed = decode_guild_event(SubSeq(EventBody(packet.content), 1, packet.size))
    /\ Is("chat") =>
          handed = decode_messagechat(SubSeq(ChatBody(packet.content), 1, packet.size))
    /\ Is("name") =>
          handed = decode_name_query_response(SubSeq(NameBody(packet.content), 1, packet.size))
    /\ Is("characters") =>
          handed = request_characters(SubSeq(CharacterBody(packet.content), 1, packet.size))
    /\ Is("command") => handed = ReadBack(packet.content)

IsPosted ==
    posted # <<>> =>
       Relayable /\ posted = [m \in DOMAIN Mappings |-> Post(Mappings[m], handed.value)]

\* A message that is sent is read at once.
NotYetRead == handed = Pending => packet.kind # "command"

IInv == Received /\ Decoded /\ IsPosted /\ NotYetRead

LEMMA InitIInv == ChatInit => IInv
BY DEF ChatInit, Init, IInv, Received, Decoded, IsPosted, NotYetRead, Is, NoPacket, Pending

LEMMA NextIInv == IInv /\ [ChatNext]_chatVars => IInv'
<1> SUFFICES ASSUME IInv, [ChatNext]_chatVars PROVE IInv'
  OBVIOUS
<1>0. Received /\ Decoded /\ IsPosted /\ NotYetRead
  BY DEF IInv
<1>1. posted = <<>> \/ (packet # NoPacket /\ handed # Pending)
  BY <1>0 DEF Received, IsPosted, Relayable, Is
<1>2. CASE Arrives /\ UNCHANGED posted
  <2>1. packet = NoPacket /\ handed = Pending /\ handed' = handed /\ posted = <<>>
    BY <1>0, <1>1, <1>2 DEF Arrives, Received
  <2>2. packet' # NoPacket
    BY <1>2 DEF Arrives, NoPacket
  <2>3. Received'
    <3> DEFINE Sent(kind) == CASE kind = "who" -> WhoLists
                               [] kind = "roster" -> Rosters
                               [] kind = "event" -> Events
                               [] kind = "chat" -> Chats
                               [] kind = "name" -> NameAnswers
                               [] kind = "characters" -> CharacterLists
    <3>1. ASSUME NEW kind \in {"who", "roster", "event", "chat", "name", "characters"},
                 NEW content \in Sent(kind), NEW size \in 0..Len(Body(kind, content)),
                 packet' = [kind |-> kind, content |-> content, size |-> size]
          PROVE  Received'
      <4>1. packet'.kind = kind /\ packet'.content = content /\ packet'.size = size
        BY <3>1
      <4>2. CASE kind = "who"
        BY <2>2, <3>1, <4>1, <4>2 DEF Received, Body
      <4>3. CASE kind = "roster"
        BY <2>2, <3>1, <4>1, <4>3 DEF Received, Body
      <4>4. CASE kind = "event"
        BY <2>2, <3>1, <4>1, <4>4 DEF Received, Body
      <4>5. CASE kind = "chat"
        BY <2>2, <3>1, <4>1, <4>5 DEF Received, Body
      <4>6. CASE kind = "name"
        BY <2>2, <3>1, <4>1, <4>6 DEF Received, Body
      <4>7. CASE kind = "characters"
        BY <2>2, <3>1, <4>1, <4>7 DEF Received, Body
      <4> QED BY <4>2, <4>3, <4>4, <4>5, <4>6, <4>7
    <3>2. PICK kind \in {"who", "roster", "event", "chat", "name", "characters"} :
             \E content \in Sent(kind) : \E size \in 0..Len(Body(kind, content)) :
                packet' = [kind |-> kind, content |-> content, size |-> size]
      BY <1>2 DEF Arrives
    <3> HIDE DEF Sent
    <3> QED BY <3>1, <3>2
  <2>4. Decoded'
    BY <2>1 DEF Decoded, Is
  <2>5. IsPosted'
    BY <1>2, <2>1 DEF IsPosted
  <2>6. NotYetRead'
    BY <1>2 DEF Arrives, NotYetRead
  <2> QED BY <2>3, <2>4, <2>5, <2>6 DEF IInv
<1>3. CASE Dispatch /\ UNCHANGED posted
  <2>1. packet # NoPacket /\ handed = Pending /\ packet' = packet /\ posted' = <<>>
    BY <1>1, <1>3 DEF Dispatch
  <2>2. Received'
    BY <1>0, <2>1 DEF Received
  <2>3. Decoded'
    <3>1. packet.kind = "who" =>
             handed' = decode_who_response(SubSeq(WhoBody(packet.content), 1, packet.size))
      BY <1>3 DEF Dispatch, Body
    <3>2. packet.kind = "roster" =>
             handed' = decode_guild_roster(SubSeq(RosterBody(packet.content), 1, packet.size))
      BY <1>3 DEF Dispatch, Body
    <3>3. packet.kind = "event" =>
             handed' = decode_guild_event(SubSeq(EventBody(packet.content), 1, packet.size))
      BY <1>3 DEF Dispatch, Body
    <3>4. packet.kind = "chat" =>
             handed' = decode_messagechat(SubSeq(ChatBody(packet.content), 1, packet.size))
      BY <1>3 DEF Dispatch, Body
    <3>5. packet.kind = "name" =>
             handed' = decode_name_query_response(SubSeq(NameBody(packet.content), 1, packet.size))
      BY <1>3 DEF Dispatch, Body
    <3>6. packet.kind = "characters" =>
             handed' = request_characters(SubSeq(CharacterBody(packet.content), 1, packet.size))
      BY <1>3 DEF Dispatch, Body
    <3>7. packet.kind # "command"
      BY <1>0, <2>1 DEF NotYetRead
    <3> QED BY <2>1, <3>1, <3>2, <3>3, <3>4, <3>5, <3>6, <3>7 DEF Decoded, Is
  <2>4. IsPosted'
    BY <2>1 DEF IsPosted
  <2>5. NotYetRead'
    BY <1>0, <2>1 DEF NotYetRead
  <2> QED BY <2>2, <2>3, <2>4, <2>5 DEF IInv
<1>4. CASE SendChat /\ UNCHANGED posted
  <2>1. posted' = <<>>
    BY <1>0, <1>1, <1>4 DEF SendChat, Received
  <2>2. PICK c \in Commands : /\ packet' = [kind |-> "command", content |-> c, size |-> 0]
                              /\ handed' = ReadBack(c)
    BY <1>4 DEF SendChat, ReadBack
  <2>3. packet'.kind = "command" /\ packet'.content = c
    BY <2>2
  <2>4. packet' # NoPacket
    BY <2>3 DEF NoPacket
  <2>5. handed' # Pending
    BY <2>2, CommandDecoded DEF Pending, Raised, Gave
  <2> QED BY <2>1, <2>2, <2>3, <2>4, <2>5 DEF IInv, Received, Decoded, IsPosted, Is, NotYetRead
<1>5. CASE Relay
  <2>1. Received' /\ Decoded' /\ NotYetRead'
    BY <1>0, <1>5 DEF Relay, vars, Received, Decoded, NotYetRead, Is
  <2>2. IsPosted'
    BY <1>5 DEF Relay, vars, IsPosted, Relayable, Is
  <2> QED BY <2>1, <2>2 DEF IInv
<1>6. CASE Done
  BY <1>6 DEF Done, Handled, IInv, Received, Decoded, IsPosted, NotYetRead, Is, NoPacket
<1>7. CASE UNCHANGED chatVars
  BY <1>0, <1>7 DEF chatVars, IInv, Received, Decoded, IsPosted, NotYetRead, Relayable, Is
<1> QED BY <1>2, <1>3, <1>4, <1>5, <1>6, <1>7 DEF ChatNext, Decode

\* Packets, what is handed on and what is posted stay consistent.
THEOREM IInvHolds == ChatSpec => []IInv
<1> QED BY InitIInv, NextIInv, PTL DEF ChatSpec

LEMMA NothingInventedHere == IInv => NothingInvented
<1> SUFFICES ASSUME IInv PROVE NothingInvented
  OBVIOUS
<1> DEFINE sent == packet.content
<1>0. Received /\ Decoded
  BY DEF IInv
<1>1. ASSUME Is("chat"), handed # Raised
      PROVE  /\ handed.value.head = sent.head /\ handed.value.channel = sent.channel
             /\ IsPrefix(handed.value.text, sent.text)
             /\ handed.value.achievement \in {<<>>, sent.achievement}
  <2> DEFINE b == ChatBody(sent)
             d == SubSeq(b, 1, packet.size)
             k == 29 + Len(InChannel(sent))
  <2>1. sent \in Chats /\ packet.size \in 0..Len(b) /\ handed = decode_messagechat(d)
    BY <1>0, <1>1 DEF Received, Decoded, Is
  <2>2. b \in Texts /\ At(b, k, sent.text)
    BY <2>1, ChatLayout
  <2>3. IsCut(d, b)
    BY <2>1, <2>2, CutIs
  <2> HIDE DEF d
  <2>4. PICK earned \in {<<>>, sent.achievement} :
           handed = Gave([head |-> sent.head, channel |-> sent.channel,
                          text |-> SubSeq(d, k + 1, Lesser(k + Len(sent.text), Len(d))),
                          achievement |-> earned])
    BY <1>1, <2>1, <2>3, ChatDecoded
  <2>5. sent.text \in Texts
    BY <2>1, ChatParts
  <2> HIDE DEF b, k
  <2>6. IsPrefix(SubSeq(d, k + 1, Lesser(k + Len(sent.text), Len(d))), sent.text)
    BY <2>2, <2>3, <2>5, SliceIs
  <2> QED BY <2>4, <2>6 DEF Gave
<1>2. ASSUME Is("name"), handed # Raised
      PROVE  \/ handed.value.name = UNKNOWN
             \/ handed.value = [guid |-> sent.guid, name |-> sent.name]
  <2> DEFINE b == NameBody(sent)
             d == SubSeq(b, 1, packet.size)
  <2>1. sent \in NameAnswers /\ packet.size \in 0..Len(b) /\ handed = decode_name_query_response(d)
    BY <1>0, <1>2 DEF Received, Decoded, Is
  <2>2. IsCut(d, b)
    BY <2>1, NameLayout, CutIs
  <2> HIDE DEF d
  <2>3. handed = Gave([guid |-> sent.guid, name |-> sent.name]) \/ handed.value.name = UNKNOWN
    BY <1>2, <2>1, <2>2, NameDecoded
  <2> QED BY <2>3 DEF Gave
<1> QED BY <1>1, <1>2 DEF NothingInvented

\* However a packet is cut, the decoders of chat messages and names invent
\* nothing: what they hand on is what the server said, or the beginning of it.
THEOREM NothingIsInvented == ChatSpec => []NothingInvented
<1> QED BY IInvHolds, NothingInventedHere, PTL

-----------------------------------------------------------------------------
\* The kinds of token are apart.
LEMMA KindsApart ==
    /\ Links \cap Tags = {} /\ Links \cap MarkerChars = {} /\ Links \cap RenderedLinks = {}
    /\ Tags \cap MarkerChars = {} /\ Tags \cap RenderedLinks = {} /\ Tags \cap Pinging = {}
    /\ MarkerChars \cap RenderedLinks = {} /\ MarkerChars \cap Pinging = {}
    /\ RenderedLinks \cap Pinging = {}
    /\ Placeholders \cap Tags = {}
    /\ Placeholders \cap (MarkerChars \cup RenderedLinks \cup Pinging) = {}
    /\ Links \subseteq Nat /\ Tags \subseteq Nat /\ Pinging \subseteq Nat
    /\ Digits \in Nat /\ Bar \notin HexDigits /\ LetterR \notin HexDigits
    /\ LetterC \in HexDigits /\ LetterC # LetterR /\ Bar # LetterR /\ Bar \in MarkerChars
<1> DEFINE kinds == <<Links, Tags, MarkerChars, Placeholders, RenderedLinks, Pinging>>
<1>1. /\ \A i, j \in 1..6 : i # j => kinds[i] \cap kinds[j] = {}
      /\ Links \subseteq Nat /\ Tags \subseteq Nat /\ Pinging \subseteq Nat
  BY TextAssumption
<1>2. /\ kinds[1] = Links /\ kinds[2] = Tags /\ kinds[3] = MarkerChars
      /\ kinds[4] = Placeholders /\ kinds[5] = RenderedLinks /\ kinds[6] = Pinging
  OBVIOUS
<1> HIDE DEF kinds
<1>3. 1 \in 1..6 /\ 2 \in 1..6 /\ 3 \in 1..6 /\ 4 \in 1..6 /\ 5 \in 1..6 /\ 6 \in 1..6
  OBVIOUS
<1>4. /\ kinds[1] \cap kinds[2] = {} /\ kinds[1] \cap kinds[3] = {} /\ kinds[1] \cap kinds[5] = {}
      /\ kinds[2] \cap kinds[3] = {} /\ kinds[2] \cap kinds[5] = {} /\ kinds[2] \cap kinds[6] = {}
      /\ kinds[3] \cap kinds[5] = {} /\ kinds[3] \cap kinds[6] = {} /\ kinds[5] \cap kinds[6] = {}
      /\ kinds[4] \cap kinds[2] = {} /\ kinds[4] \cap kinds[3] = {}
      /\ kinds[4] \cap kinds[5] = {} /\ kinds[4] \cap kinds[6] = {}
  BY <1>1, <1>3
<1>5. /\ Digits \in Nat /\ Bar \notin HexDigits /\ LetterR \notin HexDigits
      /\ LetterC \in HexDigits /\ LetterC # LetterR /\ Bar # LetterR /\ Bar \in MarkerChars
  BY TextAssumption DEF Bar, LetterR, LetterC, MarkerChars
<1> QED BY <1>1, <1>2, <1>4, <1>5

\* The passes over a text that look at one token at a time, as rules.
ReplaceRule(placeholder, by) == [t \in Nat |-> IF t = placeholder THEN by ELSE <<t>>]
PingOf(t) == IF t \in Tags /\ Cardinality(Mentions(t)) = 1
             THEN CHOOSE m \in Mentions(t) : TRUE ELSE t
Ping == [t \in Nat |-> <<PingOf(t)>>]
ShowLinks == [t \in Nat |-> IF t \in RenderedLinks THEN <<t>> ELSE <<>>]

LEMMA TokensAre ==
    ASSUME NEW s \in Texts
    PROVE  /\ DOMAIN s = 1..Len(s) /\ Len(s) \in Nat
           /\ \A i \in DOMAIN s : s[i] \in Nat /\ s[i] \in ToSet(s)
           /\ ToSet(s) \subseteq Nat
BY LenProperties, ElementOfSeq, ToSetOf DEF Texts, ToSet

LEMMA RulesAre ==
    /\ ShowLinks \in Rules
    /\ \A p, by : by \in Texts => ReplaceRule(p, by) \in Rules
    /\ \A s \in Texts : \A p, by : Replace(s, p, by) = Subst(s, ReplaceRule(p, by))
<1>1. ShowLinks \in Rules
  BY TextsAre DEF ShowLinks, Rules
<1>2. ASSUME NEW p, NEW by \in Texts PROVE ReplaceRule(p, by) \in Rules
  BY TextsAre DEF ReplaceRule, Rules
<1>3. ASSUME NEW s \in Texts, NEW p, NEW by PROVE Replace(s, p, by) = Subst(s, ReplaceRule(p, by))
  <2>1. \A i \in DOMAIN s : s[i] \in Nat
    BY TokensAre
  <2>2. [i \in DOMAIN s |-> IF s[i] = p THEN by ELSE <<s[i]>>]
        = [i \in DOMAIN s |-> ReplaceRule(p, by)[s[i]]]
    BY <2>1 DEF ReplaceRule
  <2> QED BY <2>2 DEF Replace, Subst
<1> QED BY <1>1, <1>2, <1>3

-----------------------------------------------------------------------------
\* What taking out places of a text leaves of it.
LEMMA WithoutIs ==
    ASSUME NEW s \in Texts, NEW places
    PROVE  /\ Without(s, places) \in Texts
           /\ \A x : x \in ToSet(Without(s, places))
                     <=> \E i \in DOMAIN s : i \notin places /\ x = s[i]
           /\ \A f \in Rules : (\A i \in DOMAIN s : i \in places => f[s[i]] = <<>>)
                               => Subst(Without(s, places), f) = Subst(s, f)
<1> DEFINE piece(i) == IF i \in places THEN <<>> ELSE <<s[i]>>
           ps == [i \in DOMAIN s |-> piece(i)]
<1>1. DOMAIN s = 1..Len(s) /\ Len(s) \in Nat /\ \A i \in DOMAIN s : s[i] \in Nat
  BY TokensAre
<1>2. \A i \in DOMAIN s : piece(i) \in Texts
  BY <1>1, TextsAre
<1>3. Without(s, places) = FlattenSeq(ps)
  BY DEF Without
<1>4. \A i \in DOMAIN s : ToSet(piece(i)) = {x \in {s[i]} : i \notin places}
  <2>1. \A x : ToSet(<<x>>) = {x}
    BY DEF ToSet
  <2>2. ToSet(<<>>) = {}
    BY DEF ToSet
  <2> QED BY <2>1, <2>2
<1>5. ASSUME NEW f \in Rules, \A i \in DOMAIN s : i \in places => f[s[i]] = <<>>, NEW i \in DOMAIN s
      PROVE  Subst(piece(i), f) = f[s[i]]
  <2>1. CASE i \in places
    BY <1>5, <2>1, SubstEmpty
  <2>2. CASE i \notin places
    BY <1>1, <2>2, SubstSingle
  <2> QED BY <2>1, <2>2
<1> HIDE DEF piece
<1>6. ps \in Seq(Texts) /\ Len(ps) = Len(s) /\ DOMAIN ps = DOMAIN s
  BY <1>1, <1>2
<1>7. ASSUME NEW f \in Rules, \A i \in DOMAIN s : i \in places => f[s[i]] = <<>>
      PROVE  Subst(FlattenSeq(ps), f) = Subst(s, f)
  <2>1. \A i \in DOMAIN s : Subst(ps[i], f) = f[s[i]]
    BY <1>5, <1>7
  <2>2. SubstParts(ps, f) = [i \in DOMAIN s |-> f[s[i]]]
    <3>1. DOMAIN ps = DOMAIN s
      BY <1>6
    <3> HIDE DEF ps
    <3> QED BY <2>1, <3>1 DEF SubstParts
  <2> HIDE DEF ps
  <2> QED BY <1>6, <2>2, SubstFlatten DEF Subst
<1>8. ToSet(FlattenSeq(ps)) = UNION {ToSet(ps[i]) : i \in 1..Len(ps)}
  <2> HIDE DEF ps
  <2> QED BY <1>6, ToSetFlatten DEF Texts
<1>9. \A i \in DOMAIN s : ToSet(ps[i]) = {x \in {s[i]} : i \notin places}
  BY <1>4
<1>10. FlattenSeq(ps) \in Texts
  <2> HIDE DEF ps
  <2> QED BY <1>6, FlattenType DEF Texts
<1> HIDE DEF ps
<1>11. \A x : x \in ToSet(FlattenSeq(ps)) <=> \E i \in DOMAIN s : i \notin places /\ x = s[i]
  BY <1>1, <1>6, <1>8, <1>9
<1> QED BY <1>3, <1>7, <1>10, <1>11

\* A pass that takes out characters of markers only.
LEMMA Pass ==
    ASSUME NEW s \in Texts, NEW places,
           \A i \in DOMAIN s : i \in places => s[i] \in MarkerChars
    PROVE  /\ Without(s, places) \in Texts
           /\ ToSet(Without(s, places)) \subseteq ToSet(s)
           /\ ToSet(s) \ MarkerChars \subseteq ToSet(Without(s, places))
           /\ \A f \in Rules : (\A t \in MarkerChars : f[t] = <<>>)
                               => Subst(Without(s, places), f) = Subst(s, f)
<1>1. \A x : x \in ToSet(s) <=> \E i \in DOMAIN s : x = s[i]
  BY DEF ToSet
<1> QED BY <1>1, WithoutIs

LEMMA CoveredMeans ==
    ASSUME NEW S, NEW E, NEW i
    PROVE  i \in Covered(S, E) <=> \/ \E s \in S : \E d \in 0..Digits + 1 : i = s + d
                                   \/ \E e \in E : \E d \in 0..1 : i = e + d
<1> DEFINE A == {s + d : s \in S, d \in 0..Digits + 1}
           B == {e + d : e \in E, d \in 0..1}
<1>1. i \in A <=> \E s \in S : \E d \in 0..Digits + 1 : i = s + d
  OBVIOUS
<1>2. i \in B <=> \E e \in E : \E d \in 0..1 : i = e + d
  OBVIOUS
<1>3. Covered(S, E) = A \cup B
  BY DEF Covered
<1> HIDE DEF A, B
<1> QED BY <1>1, <1>2, <1>3

LEMMA CoveredAre ==
    ASSUME NEW s \in Texts, NEW S, S \subseteq Starts(s), NEW E, E \subseteq Ends(s)
    PROVE  \A i \in Covered(S, E) : i \in DOMAIN s /\ s[i] \in MarkerChars
<1>1. DOMAIN s = 1..Len(s) /\ Len(s) \in Nat /\ Digits \in Nat
  BY TokensAre, KindsApart
<1>2. ASSUME NEW i \in S, NEW d \in 0..Digits + 1 PROVE i + d \in DOMAIN s /\ s[i + d] \in MarkerChars
  <2>1. StartAt(s, i)
    BY <1>2 DEF Starts
  <2>2. i \in 1..Len(s) - Digits - 1
    BY <2>1 DEF StartAt
  <2>3. i + d \in 1..Len(s)
    BY <1>1, <2>2
  <2>4. CASE d = 0
    <3>1. i + d = i
      BY <2>2, <2>4
    <3> QED BY <1>1, <2>1, <2>3, <3>1, KindsApart DEF StartAt
  <2>5. CASE d = 1
    BY <1>1, <2>1, <2>3, <2>5, KindsApart DEF StartAt, MarkerChars
  <2>6. CASE d \in 2..Digits + 1
    BY <1>1, <2>1, <2>3, <2>6 DEF StartAt, MarkerChars
  <2> QED BY <1>1, <2>4, <2>5, <2>6
<1>3. ASSUME NEW i \in E, NEW d \in 0..1 PROVE i + d \in DOMAIN s /\ s[i + d] \in MarkerChars
  <2>1. EndAt(s, i)
    BY <1>3 DEF Ends
  <2>2. i \in 1..Len(s) - 1
    BY <2>1 DEF EndAt
  <2>3. i + d \in 1..Len(s)
    BY <1>1, <2>2
  <2>4. CASE d = 0
    <3>1. i + d = i
      BY <2>2, <2>4
    <3> QED BY <1>1, <2>1, <2>3, <3>1, KindsApart DEF EndAt
  <2>5. CASE d = 1
    BY <1>1, <2>1, <2>3, <2>5 DEF EndAt, MarkerChars
  <2> QED BY <2>4, <2>5
<1> QED BY <1>2, <1>3, CoveredMeans

-----------------------------------------------------------------------------
\* The text with its links shown, and the places of the markers around them.
Shown(text) ==
    [i \in DOMAIN text |-> IF LinkAt(text, i) THEN Rendered(text[i]) ELSE text[i]]

LinkStarts(text) == {l - Digits - 2 : l \in {i \in DOMAIN text : LinkAt(text, i)}}
LinkEnds(text) == {l + 1 : l \in {i \in DOMAIN text : LinkAt(text, i)}}
Around(text) == Covered(LinkStarts(text), LinkEnds(text))

LEMMA ShownIs ==
    ASSUME NEW text \in Texts
    PROVE  /\ Shown(text) \in Texts /\ DOMAIN Shown(text) = DOMAIN text
           /\ LinkStarts(text) \subseteq Starts(text) /\ LinkEnds(text) \subseteq Ends(text)
           /\ \A i \in Around(text) : i \in DOMAIN text /\ text[i] \in MarkerChars /\ ~LinkAt(text, i)
           /\ resolve_links(text) = Without(Shown(text), Around(text))
<1>1. /\ DOMAIN text = 1..Len(text) /\ Len(text) \in Nat /\ Digits \in Nat
      /\ \A i \in DOMAIN text : text[i] \in Nat /\ Rendered(text[i]) \in Nat
  BY TokensAre, KindsApart DEF Rendered
<1>2. Shown(text) \in Texts /\ DOMAIN Shown(text) = DOMAIN text
  <2>1. \A i \in DOMAIN text : (IF LinkAt(text, i) THEN Rendered(text[i]) ELSE text[i]) \in Nat
    BY <1>1
  <2> QED BY <1>1, <2>1 DEF Shown, Texts
<1>3. LinkStarts(text) \subseteq Starts(text) /\ LinkEnds(text) \subseteq Ends(text)
  <2>1. ASSUME NEW l \in DOMAIN text, LinkAt(text, l)
        PROVE  l - Digits - 2 \in Starts(text) /\ l + 1 \in Ends(text)
    <3>1. StartAt(text, l - Digits - 2) /\ EndAt(text, l + 1)
      BY <2>1 DEF LinkAt
    <3>2. l - Digits - 2 \in DOMAIN text /\ l + 1 \in DOMAIN text
      BY <1>1, <3>1 DEF StartAt, EndAt
    <3> QED BY <3>1, <3>2 DEF Starts, Ends
  <2> QED BY <2>1 DEF LinkStarts, LinkEnds
<1>4. \A i \in Around(text) : i \in DOMAIN text /\ text[i] \in MarkerChars
  BY <1>3, CoveredAre DEF Around
<1>5. \A i \in Around(text) : ~LinkAt(text, i)
  BY <1>4, KindsApart DEF LinkAt
<1>6. ASSUME NEW i \in DOMAIN text
      PROVE  i \in Around(text)
             <=> ~LinkAt(text, i) /\ \E l \in i - 2..i + Digits + 2 : LinkAt(text, l)
  <2>1. ASSUME i \in Around(text) PROVE \E l \in i - 2..i + Digits + 2 : LinkAt(text, l)
    <3>1. CASE \E l \in DOMAIN text, d \in 0..Digits + 1 : LinkAt(text, l) /\ i = (l - Digits - 2) + d
      <4>1. PICK l \in DOMAIN text, d \in 0..Digits + 1 : LinkAt(text, l) /\ i = (l - Digits - 2) + d
        BY <3>1
      <4>2. l \in Int /\ d \in Int /\ 0 <= d /\ d <= Digits + 1 /\ Digits \in Int
        BY <1>1, <4>1
      <4>3. l \in i - 2..i + Digits + 2
        BY <4>1, <4>2
      <4> QED BY <4>1, <4>3
    <3>2. CASE \E l \in DOMAIN text, d \in 0..1 : LinkAt(text, l) /\ i = (l + 1) + d
      <4>1. PICK l \in DOMAIN text, d \in 0..1 : LinkAt(text, l) /\ i = (l + 1) + d
        BY <3>2
      <4>2. l \in i - 2..i + Digits + 2
        BY <1>1, <4>1
      <4> QED BY <4>1, <4>2
    <3>3. \/ \E s \in LinkStarts(text) : \E d \in 0..Digits + 1 : i = s + d
          \/ \E e \in LinkEnds(text) : \E d \in 0..1 : i = e + d
      BY <2>1, CoveredMeans DEF Around
    <3> QED BY <3>1, <3>2, <3>3 DEF LinkStarts, LinkEnds
  <2>2. ASSUME ~LinkAt(text, i), NEW l \in i - 2..i + Digits + 2, LinkAt(text, l)
        PROVE  i \in Around(text)
    <3>1. l \in DOMAIN text /\ l \in Int /\ i \in Int
      BY <1>1, <2>2 DEF LinkAt
    <3>2. CASE i < l
      <4> DEFINE s == l - Digits - 2
                 d == i - s
      <4>1. d \in 0..Digits + 1 /\ i = s + d
        BY <1>1, <2>2, <3>1, <3>2
      <4>2. s \in LinkStarts(text)
        BY <2>2, <3>1 DEF LinkStarts
      <4> HIDE DEF s, d
      <4> QED BY <4>1, <4>2, CoveredMeans DEF Around
    <3>3. CASE i > l
      <4> DEFINE e == l + 1
                 d == i - e
      <4>1. d \in 0..1 /\ i = e + d
        BY <1>1, <2>2, <3>1, <3>3
      <4>2. e \in LinkEnds(text)
        BY <2>2, <3>1 DEF LinkEnds
      <4> HIDE DEF e, d
      <4> QED BY <4>1, <4>2, CoveredMeans DEF Around
    <3>4. i # l
      BY <2>2
    <3> QED BY <3>1, <3>2, <3>3, <3>4
  <2> QED BY <1>5, <2>1, <2>2
<1>7. ASSUME NEW i \in DOMAIN text
      PROVE  (IF LinkAt(text, i) THEN <<Rendered(text[i])>>
              ELSE IF \E l \in i - 2..i + Digits + 2 : LinkAt(text, l) THEN <<>> ELSE <<text[i]>>)
             = IF i \in Around(text) THEN <<>> ELSE <<Shown(text)[i]>>
  BY <1>6 DEF Shown
<1>8. resolve_links(text) = Without(Shown(text), Around(text))
  BY <1>2, <1>7, Zenon DEF resolve_links, Without
<1> QED BY <1>2, <1>3, <1>4, <1>5, <1>8

\* What becomes of a coloured text: its links are shown, and characters of
\* markers go.
LEMMA CleanIs ==
    ASSUME NEW text \in Texts
    PROVE  LET resolved == resolve_links(text)
               unwrapped == Unwrapped(resolved)
               started == WithoutStarts(unwrapped)
               clean == CleanMessage(text)
           IN  /\ resolved \in Texts /\ unwrapped \in Texts /\ started \in Texts
               /\ clean \in Texts /\ clean = WithoutEnds(started)
               /\ ToSet(clean) \subseteq ToSet(Shown(text))
               /\ ToSet(Shown(text)) \ MarkerChars \subseteq ToSet(clean)
               /\ \A f \in Rules : (\A t \in MarkerChars : f[t] = <<>>)
                                   => Subst(clean, f) = Subst(Shown(text), f)
<1> DEFINE shown == Shown(text)
           resolved == resolve_links(text)
           unwrapped == Unwrapped(resolved)
           started == WithoutStarts(unwrapped)
           clean == CleanMessage(text)
           Follows(s, t) == /\ t \in Texts /\ ToSet(t) \subseteq ToSet(s)
                            /\ ToSet(s) \ MarkerChars \subseteq ToSet(t)
                            /\ \A f \in Rules : (\A x \in MarkerChars : f[x] = <<>>)
                                                => Subst(t, f) = Subst(s, f)
<1>0. clean = WithoutEnds(started)
  BY DEF CleanMessage, strip_color_coding
<1>1. shown \in Texts /\ Follows(shown, resolved)
  <2>1. shown \in Texts
    BY ShownIs
  <2>2. \A i \in DOMAIN shown : i \in Around(text) => shown[i] \in MarkerChars
    BY ShownIs DEF Shown
  <2>3. resolved = Without(shown, Around(text))
    BY ShownIs
  <2> HIDE DEF shown, resolved
  <2> QED BY <2>1, <2>2, <2>3, Pass
<1>2. Follows(resolved, unwrapped)
  <2> HIDE DEF resolved
  <2> DEFINE places == Covered(SpanStarts(resolved), SpanEnds(resolved))
  <2>1. SpanStarts(resolved) \subseteq Starts(resolved) /\ SpanEnds(resolved) \subseteq Ends(resolved)
    BY DEF SpanStarts, SpanEnds
  <2>2. \A i \in places : resolved[i] \in MarkerChars
    BY <1>1, <2>1, CoveredAre
  <2>3. unwrapped = Without(resolved, places)
    BY DEF Unwrapped
  <2> HIDE DEF places, unwrapped
  <2> QED BY <1>1, <2>2, <2>3, Pass
<1>3. Follows(unwrapped, started)
  <2> HIDE DEF unwrapped
  <2> DEFINE places == Covered(Starts(unwrapped), {})
  <2>1. \A i \in places : unwrapped[i] \in MarkerChars
    BY <1>2, CoveredAre
  <2>2. started = Without(unwrapped, places)
    BY DEF WithoutStarts
  <2> HIDE DEF places, started
  <2> QED BY <1>2, <2>1, <2>2, Pass
<1>4. Follows(started, clean)
  <2> HIDE DEF started
  <2> DEFINE places == Covered({}, Ends(started))
  <2>1. \A i \in places : started[i] \in MarkerChars
    BY <1>3, CoveredAre
  <2>2. clean = Without(started, places)
    BY <1>0 DEF WithoutEnds
  <2> HIDE DEF places, clean
  <2> QED BY <1>3, <2>1, <2>2, Pass
<1> HIDE DEF shown, resolved, unwrapped, started, clean
<1>5. Follows(shown, clean)
  <2>1. \A r, s, t : Follows(r, s) /\ Follows(s, t) => Follows(r, t)
    OBVIOUS
  <2> HIDE DEF Follows
  <2> QED BY <1>1, <1>2, <1>3, <1>4, <2>1
<1> QED BY <1>0, <1>1, <1>2, <1>3, <1>5 DEF shown, resolved, unwrapped, started, clean

\* What a clean text has: no mention that was not typed, and of the words and
\* tags exactly those of the text.
LEMMA CleanTokens ==
    ASSUME NEW text \in Texts, ToSet(text) \cap (RenderedLinks \cup Pinging) = {}
    PROVE  /\ ToSet(CleanMessage(text)) \cap Pinging = {}
           /\ \A x : x \notin MarkerChars \cup Links \cup RenderedLinks =>
                 (x \in ToSet(CleanMessage(text)) <=> x \in ToSet(text))
<1> DEFINE shown == Shown(text)
<1>1. \A x : x \in ToSet(text) <=> \E i \in DOMAIN text : x = text[i]
  BY DEF ToSet
<1>2. \A x : x \in ToSet(shown)
             <=> \E i \in DOMAIN text : x = IF LinkAt(text, i) THEN Rendered(text[i]) ELSE text[i]
  BY DEF ToSet, Shown
<1>3. \A i \in DOMAIN text : LinkAt(text, i) => text[i] \in Links /\ Rendered(text[i]) \in RenderedLinks
  BY DEF LinkAt, RenderedLinks
<1>4. /\ ToSet(CleanMessage(text)) \subseteq ToSet(shown)
      /\ ToSet(shown) \ MarkerChars \subseteq ToSet(CleanMessage(text))
  BY CleanIs
<1> HIDE DEF shown
<1>5. ASSUME NEW x \in ToSet(shown) PROVE x \in ToSet(text) \/ x \in RenderedLinks
  BY <1>1, <1>2, <1>3, <1>5
<1>6. ASSUME NEW x \in ToSet(text), x \notin Links PROVE x \in ToSet(shown)
  <2>1. PICK i \in DOMAIN text : x = text[i]
    BY <1>1
  <2>2. ~LinkAt(text, i)
    BY <1>3, <1>6, <2>1
  <2> QED BY <1>2, <2>1, <2>2
<1>7. RenderedLinks \cap Pinging = {}
  BY KindsApart
<1> QED BY <1>4, <1>5, <1>6, <1>7

-----------------------------------------------------------------------------
\* A message's text is part of what was sent: it has no mention and no rendered
\* link either.
LEMMA PrefixIs ==
    ASSUME NEW s \in Texts, NEW t \in Texts, IsPrefix(s, t)
    PROVE  ToSet(s) \subseteq ToSet(t)
<1>1. /\ DOMAIN s = 1..Len(s) /\ DOMAIN t = 1..Len(t)
      /\ Len(s) \in Nat /\ Len(t) \in Nat /\ Len(s) <= Len(t)
  BY LenProperties DEF IsPrefix, Texts
<1>2. SubSeq(s, 1, Len(s)) = SubSeq(t, 1, Len(s))
  BY DEF IsPrefix
<1>3. ASSUME NEW i \in 1..Len(s) PROVE s[i] = t[i] /\ i \in 1..Len(t)
  <2>1. SubSeq(s, 1, Len(s))[i] = s[i]
    BY <1>1, SubSeqFull DEF Texts
  <2>2. SubSeq(t, 1, Len(s))[i] = t[i]
    <3>1. \A j \in 1..Len(s) : t[j] \in Nat
      BY <1>1, ElementOfSeq DEF Texts
    <3>2. Len(s) \in Int /\ (Len(s) - 1) + 1 = Len(s) /\ (1 + i) - 1 = i
      BY <1>1
    <3>3. \A j \in 1..(Len(s) - 1) + 1 : SubSeq(t, 1, Len(s))[j] = t[(1 + j) - 1]
      BY <3>1, <3>2, SubSeqProperties
    <3> QED BY <3>2, <3>3
  <2> QED BY <1>1, <1>2, <2>1, <2>2
<1> QED BY <1>1, <1>3 DEF ToSet

LEMMA SaidIs ==
    ASSUME IInv, Relayable
    PROVE  Said \in Texts /\ ToSet(Said) \cap (RenderedLinks \cup Pinging) = {}
<1> DEFINE sent == packet.content
           b == ChatBody(sent)
           d == SubSeq(b, 1, packet.size)
           k == 29 + Len(InChannel(sent))
           n == Lesser(k + Len(sent.text), Len(d))
<1>1. sent \in Chats /\ packet.size \in 0..Len(b) /\ handed = decode_messagechat(d) /\ handed # Raised
  BY DEF IInv, Received, Decoded, Relayable, Is
<1>2. b \in Texts /\ At(b, k, sent.text)
  BY <1>1, ChatLayout
<1>3. IsCut(d, b)
  BY <1>1, <1>2, CutIs
<1>4. sent.text \in Texts /\ Len(sent.text) \in Nat /\ k \in Nat
  BY <1>1, ChatParts
<1>5. Said = SubSeq(d, k + 1, n)
  <2> HIDE DEF d
  <2>1. PICK earned \in {<<>>, sent.achievement} :
           handed = Gave([head |-> sent.head, channel |-> sent.channel,
                          text |-> SubSeq(d, k + 1, Lesser(k + Len(sent.text), Len(d))),
                          achievement |-> earned])
    BY <1>1, <1>3, ChatDecoded
  <2> QED BY <2>1 DEF Gave, Said
<1> HIDE DEF b, d, k
<1>6. Said \in Texts
  <2>1. d \in Seq(Nat) /\ Len(d) \in Nat
    BY <1>3 DEF IsCut, Texts
  <2>2. n \in Nat /\ n <= Len(d)
    BY <1>4, <2>1 DEF Lesser
  <2> HIDE DEF n
  <2>3. k + 1 \in Int /\ n \in Int /\ \A i \in k + 1..n : i \in 1..Len(d)
    BY <1>4, <2>1, <2>2
  <2>4. \A i \in k + 1..n : d[i] \in Nat
    BY <2>1, <2>3, ElementOfSeq
  <2> QED BY <1>5, <2>3, <2>4, SubSeqProperties DEF Texts
<1>7. IsPrefix(Said, sent.text)
  BY <1>2, <1>3, <1>4, <1>5, SliceIs
<1>8. ToSet(Said) \subseteq ToSet(sent.text)
  BY <1>4, <1>6, <1>7, PrefixIs
<1>9. ToSet(sent.text) \cap (RenderedLinks \cup Pinging) = {}
  BY <1>1, ChatPathAssumption
<1> QED BY <1>6, <1>8, <1>9

-----------------------------------------------------------------------------
\* Mentions are filled in token by token.
LEMMA MentionsPing ==
    \A tag : Mentions(tag) \subseteq Pinging
<1> SUFFICES ASSUME NEW tag, NEW c \in Candidates PROVE c[2] \in Pinging
  BY DEF Mentions, Found
<1>1. CASE c \in {<<r.name, r.mention>> : r \in Roles}
  BY <1>1 DEF Pinging
<1>2. CASE c \in UNION {{<<name, m.mention>> : name \in m.names} :
                          m \in {x \in Members : ~x.bot}}
  BY <1>2 DEF Pinging
<1> QED BY <1>1, <1>2 DEF Candidates

LEMMA PingIs ==
    /\ Ping \in Rules
    /\ \A t \in Nat : /\ PingOf(t) \in Nat
                      /\ PingOf(t) = t \/ (PingOf(t) \in Mentions(t) /\ t \in Tags)
    /\ \A t : Cardinality(Mentions(t)) = 1 => (CHOOSE m \in Mentions(t) : TRUE) \in Mentions(t)
    /\ \A s \in Texts : resolve_wow_mentions(s) = Subst(s, Ping)
<1>1. ASSUME NEW t, Cardinality(Mentions(t)) = 1
      PROVE  (CHOOSE m \in Mentions(t) : TRUE) \in Mentions(t)
  <2>1. Mentions(t) # {}
    BY <1>1, FS_EmptySet
  <2> QED BY <2>1
<1>2. ASSUME NEW t \in Nat
      PROVE  /\ PingOf(t) \in Nat
             /\ PingOf(t) = t \/ (PingOf(t) \in Mentions(t) /\ t \in Tags)
  <2>1. PingOf(t) = t \/ (PingOf(t) \in Mentions(t) /\ t \in Tags)
    BY <1>1 DEF PingOf
  <2> QED BY <2>1, MentionsPing, KindsApart
<1>3. Ping \in Rules
  BY <1>2, TextsAre DEF Ping, Rules
<1>4. ASSUME NEW s \in Texts PROVE resolve_wow_mentions(s) = Subst(s, Ping)
  <2> DEFINE u == [i \in DOMAIN s |-> PingOf(s[i])]
             same == [t \in Nat |-> <<t>>]
  <2>1. DOMAIN s = 1..Len(s) /\ Len(s) \in Nat /\ \A i \in DOMAIN s : s[i] \in Nat
    BY TokensAre
  <2>2. u \in Texts
    <3>1. \A i \in 1..Len(s) : PingOf(s[i]) \in Nat
      BY <1>2, <2>1
    <3> QED BY <2>1, <3>1 DEF Texts
  <2>3. resolve_wow_mentions(s) = u
    BY DEF resolve_wow_mentions, PingOf
  <2>4. Subst(u, same) = u
    <3> HIDE DEF u
    <3>1. \A t \in ToSet(u) : same[t] = <<t>>
      BY <2>2, TokensAre
    <3> HIDE DEF same
    <3> QED BY <2>2, <3>1, SubstSame
  <2>5. [i \in DOMAIN u |-> same[u[i]]] = [i \in DOMAIN s |-> Ping[s[i]]]
    <3>1. \A i \in DOMAIN s : same[u[i]] = Ping[s[i]]
      BY <1>2, <2>1 DEF Ping
    <3>2. DOMAIN u = DOMAIN s
      OBVIOUS
    <3> HIDE DEF u, same
    <3> QED BY <3>1, <3>2
  <2>6. Subst(u, same) = Subst(s, Ping)
    BY <2>5 DEF Subst
  <2> QED BY <2>3, <2>4, <2>6
<1> QED BY <1>1, <1>2, <1>3, <1>4

-----------------------------------------------------------------------------
\* What each token of a template becomes.
Filling(message) ==
    [t \in Nat |-> CASE t = Time -> Clock
                     [] t = ChannelName -> Label
                     [] t = User -> Sender
                     [] t = Message -> message
                     [] OTHER -> <<t>>]

\* The configured texts.
LEMMA Configured ==
    /\ Clock \in Texts /\ Label \in Texts /\ Sender \in Texts
    /\ \A s \in {Sender, Label, Clock} :
          ToSet(s) \cap ({Bar} \cup RenderedLinks \cup Pinging \cup Placeholders) = {}
    /\ \A m \in DOMAIN Mappings :
          /\ Mappings[m].template \in Texts /\ Mappings[m].filters \in Texts
          /\ ToSet(Mappings[m].template) \cap ({Bar} \cup RenderedLinks \cup Pinging) = {}
          /\ ToSet(Mappings[m].filters) \cap (MarkerChars \cup Links \cup RenderedLinks) = {}
    /\ Trophy \in Nat /\ Trophy \notin {Bar} \cup RenderedLinks \cup Pinging
<1>1. Mappings \in Seq([filters : Seq(Nat), template : Seq(Nat)])
  BY ChatPathAssumption
<1>2. DOMAIN Mappings = 1..Len(Mappings)
  BY <1>1, LenProperties
<1>3. \A m \in DOMAIN Mappings : Mappings[m] \in [filters : Seq(Nat), template : Seq(Nat)]
  BY <1>1, <1>2, ElementOfSeq
<1>4. \A m \in DOMAIN Mappings : Mappings[m].template \in Texts /\ Mappings[m].filters \in Texts
  BY <1>3 DEF Texts
<1>5. /\ \A m \in DOMAIN Mappings :
            /\ ToSet(Mappings[m].template) \cap ({Bar} \cup RenderedLinks \cup Pinging) = {}
            /\ ToSet(Mappings[m].filters) \cap (MarkerChars \cup Links \cup RenderedLinks) = {}
      /\ Trophy \notin {Bar} \cup RenderedLinks \cup Pinging
  BY ChatPathAssumption
<1>6. /\ Clock \in Texts /\ Label \in Texts /\ Sender \in Texts
      /\ \A s \in {Sender, Label, Clock} :
            ToSet(s) \cap ({Bar} \cup RenderedLinks \cup Pinging \cup Placeholders) = {}
  BY ChatPathAssumption DEF Texts
<1>7. Trophy \in Nat
  BY DEF Trophy
<1> QED BY <1>4, <1>5, <1>6, <1>7

LEMMA FillingIs ==
    ASSUME NEW message \in Texts
    PROVE  Filling(message) \in Rules
BY Configured, TextsAre DEF Filling, Rules

\* No filling is searched for another placeholder, as none of the first three
\* has one and the message comes last.
LEMMA FormatIs ==
    ASSUME NEW template \in Texts, NEW message \in Texts
    PROVE  format_relay_message(template, Sender, message, Label, Clock)
           = Subst(template, Filling(message))
<1> DEFINE r1 == ReplaceRule(Time, Clock)
           r2 == ReplaceRule(ChannelName, Label)
           r3 == ReplaceRule(User, Sender)
           r4 == ReplaceRule(Message, message)
           f2 == Then(r1, r2)
           f3 == Then(f2, r3)
           f4 == Then(f3, r4)
<1>1. r1 \in Rules /\ r2 \in Rules /\ r3 \in Rules /\ r4 \in Rules
  BY RulesAre, Configured
<1>2. \A t \in Nat : /\ r1[t] = IF t = Time THEN Clock ELSE <<t>>
                     /\ r2[t] = IF t = ChannelName THEN Label ELSE <<t>>
                     /\ r3[t] = IF t = User THEN Sender ELSE <<t>>
                     /\ r4[t] = IF t = Message THEN message ELSE <<t>>
  BY DEF ReplaceRule
<1>3. ASSUME NEW s \in {Clock, Label, Sender}
      PROVE  Subst(s, r2) = s /\ Subst(s, r3) = s /\ Subst(s, r4) = s
  <2>1. s \in Texts /\ ToSet(s) \cap Placeholders = {}
    BY Configured
  <2>2. \A t \in ToSet(s) : t \in Nat /\ t \notin {Time, ChannelName, User, Message}
    BY <2>1, TokensAre DEF Placeholders
  <2>3. \A t \in ToSet(s) : r2[t] = <<t>> /\ r3[t] = <<t>> /\ r4[t] = <<t>>
    BY <1>2, <2>2
  <2> HIDE DEF r2, r3, r4
  <2> QED BY <2>1, <2>3, SubstSame
<1> HIDE DEF r1, r2, r3, r4
<1>4. \A t \in Nat : /\ Subst(<<t>>, r2) = r2[t]
                     /\ Subst(<<t>>, r3) = r3[t]
                     /\ Subst(<<t>>, r4) = r4[t]
  BY <1>1, SubstSingle
<1>5. ASSUME NEW s \in Texts
      PROVE  Replace(Replace(Replace(Replace(s, Time, Clock), ChannelName, Label), User, Sender),
                     Message, message) = Subst(s, f4)
  <2>1. Replace(s, Time, Clock) = Subst(s, r1) /\ Subst(s, r1) \in Texts
    BY <1>1, RulesAre, SubstType DEF r1
  <2>2. Replace(Subst(s, r1), ChannelName, Label) = Subst(s, f2) /\ f2 \in Rules /\ Subst(s, f2) \in Texts
    BY <1>1, <2>1, RulesAre, SubstSubst, SubstType DEF r2
  <2> HIDE DEF f2
  <2>3. Replace(Subst(s, f2), User, Sender) = Subst(s, f3) /\ f3 \in Rules /\ Subst(s, f3) \in Texts
    BY <1>1, <2>2, RulesAre, SubstSubst, SubstType DEF r3
  <2> HIDE DEF f3
  <2>4. Replace(Subst(s, f3), Message, message) = Subst(s, f4)
    BY <1>1, <2>3, RulesAre, SubstSubst DEF r4
  <2> QED BY <2>1, <2>2, <2>3, <2>4
<1>6. ASSUME NEW t \in Nat PROVE f4[t] = Filling(message)[t]
  <2>1. f4[t] = Subst(Subst(Subst(r1[t], r2), r3), r4)
    BY DEF Then
  <2>2. /\ Time # ChannelName /\ Time # User /\ Time # Message
        /\ ChannelName # User /\ ChannelName # Message /\ User # Message
    BY DEF Time, ChannelName, User, Message
  <2>3. CASE t = Time
    <3>1. r1[t] = Clock
      BY <1>2, <2>3
    <3>2. f4[t] = Clock
      BY <1>3, <2>1, <3>1
    <3> QED BY <2>2, <2>3, <3>2 DEF Filling
  <2>4. CASE t = ChannelName
    <3>1. r1[t] = <<t>> /\ r2[t] = Label
      BY <1>2, <2>2, <2>4
    <3> QED BY <1>3, <1>4, <2>1, <2>2, <2>4, <3>1 DEF Filling
  <2>5. CASE t = User
    <3>1. r1[t] = <<t>> /\ r2[t] = <<t>> /\ r3[t] = Sender
      BY <1>2, <2>2, <2>5
    <3> QED BY <1>3, <1>4, <2>1, <2>2, <2>5, <3>1 DEF Filling
  <2>6. CASE t = Message
    <3>1. r1[t] = <<t>> /\ r2[t] = <<t>> /\ r3[t] = <<t>> /\ r4[t] = message
      BY <1>2, <2>2, <2>6
    <3> QED BY <1>4, <2>1, <2>2, <2>6, <3>1 DEF Filling
  <2>7. CASE t \notin {Time, ChannelName, User, Message}
    <3>1. r1[t] = <<t>> /\ r2[t] = <<t>> /\ r3[t] = <<t>> /\ r4[t] = <<t>>
      BY <1>2, <2>7
    <3> QED BY <1>4, <2>1, <2>7, <3>1 DEF Filling
  <2> QED BY <2>3, <2>4, <2>5, <2>6, <2>7
<1>7. Subst(template, f4) = Subst(template, Filling(message))
  <2> HIDE DEF f4
  <2>1. ToSet(template) \subseteq Nat
    BY TokensAre
  <2> QED BY <1>6, <2>1, SubstEqual
<1> QED BY <1>5, <1>7 DEF format_relay_message

-----------------------------------------------------------------------------
\* The message as it is put into the templates.
Relayed == resolve_wow_mentions(CleanMessage(Said))

LEMMA RelayedIs ==
    ASSUME IInv, Relayable
    PROVE  /\ CleanMessage(Said) \in Texts
           /\ Relayed \in Texts /\ Relayed = Subst(CleanMessage(Said), Ping)
           /\ ToSet(CleanMessage(Said)) \cap Pinging = {}
           /\ \A x : x \notin MarkerChars \cup Links \cup RenderedLinks =>
                 (x \in ToSet(CleanMessage(Said)) <=> x \in ToSet(Said))
           /\ ToSet(Relayed) = {PingOf(t) : t \in ToSet(CleanMessage(Said))}
<1>1. Said \in Texts /\ ToSet(Said) \cap (RenderedLinks \cup Pinging) = {}
  BY SaidIs
<1>2. CleanMessage(Said) \in Texts
  BY <1>1, CleanIs
<1> DEFINE clean == CleanMessage(Said)
<1>3. Relayed = Subst(clean, Ping) /\ Relayed \in Texts
  BY <1>2, PingIs, SubstType DEF Relayed
<1>4. ToSet(Relayed) = {PingOf(t) : t \in ToSet(clean)}
  <2> HIDE DEF clean
  <2>1. clean \in Texts /\ ToSet(clean) \subseteq Nat
    BY <1>2, TokensAre DEF clean
  <2>2. ToSet(Subst(clean, Ping)) = UNION {ToSet(Ping[t]) : t \in ToSet(clean)}
    BY <2>1, PingIs, ToSetSubst
  <2>3. \A t \in ToSet(clean) : ToSet(Ping[t]) = {PingOf(t)}
    <3>1. \A x : ToSet(<<x>>) = {x}
      BY DEF ToSet
    <3>2. \A t \in ToSet(clean) : Ping[t] = <<PingOf(t)>>
      BY <2>1 DEF Ping
    <3> QED BY <3>1, <3>2
  <2> QED BY <1>3, <2>2, <2>3
<1> QED BY <1>1, <1>2, <1>3, <1>4, CleanTokens

\* What is posted, and to whom.
Forbidden(m) == ToSet(Mappings[m].filters) \ {Invalid}

LEMMA PostIs ==
    ASSUME IInv, NEW m \in DOMAIN posted
    PROVE  /\ m \in DOMAIN Mappings /\ Relayable
           /\ Forbidden(m) \cap ToSet(Said) # {} => posted[m] = NotPosted
           /\ Forbidden(m) \cap ToSet(Said) = {} =>
                 posted[m] = IF handed.value.head[1] = Achievement
                             THEN Append(Sender, Trophy) \o Relayed
                             ELSE Subst(Mappings[m].template, Filling(Relayed))
<1>1. posted # <<>>
  OBVIOUS
<1>2. Relayable /\ posted = [n \in DOMAIN Mappings |-> Post(Mappings[n], handed.value)]
  BY <1>1 DEF IInv, IsPosted
<1>3. m \in DOMAIN Mappings /\ posted[m] = Post(Mappings[m], handed.value)
  BY <1>2
<1> DEFINE clean == CleanMessage(Said)
           filters == Mappings[m].filters
<1>4. /\ Mappings[m].template \in Texts /\ filters \in Texts
      /\ ToSet(filters) \cap (MarkerChars \cup Links \cup RenderedLinks) = {}
  BY <1>3, Configured
<1>5. /\ clean \in Texts /\ Relayed \in Texts
      /\ \A x : x \notin MarkerChars \cup Links \cup RenderedLinks =>
            (x \in ToSet(clean) <=> x \in ToSet(Said))
  BY <1>2, RelayedIs
<1>6. posted[m] = IF matches_any_filter(filters, clean) THEN NotPosted
                  ELSE IF handed.value.head[1] = Achievement
                  THEN Append(Sender, Trophy) \o Relayed
                  ELSE format_relay_message(Mappings[m].template, Sender, Relayed, Label, Clock)
  BY <1>3 DEF Post, Relayed, Said
<1> HIDE DEF clean, filters
<1>7. matches_any_filter(filters, clean) <=> Forbidden(m) \cap ToSet(Said) # {}
  <2>1. \A e : Contains(clean, e) <=> e \in ToSet(clean)
    BY <1>5, TokensAre DEF Contains, ToSet
  <2>2. \A i \in DOMAIN filters : filters[i] \in ToSet(filters)
    BY DEF ToSet
  <2>3. matches_any_filter(filters, clean)
        <=> \E i \in DOMAIN filters : filters[i] # Invalid /\ filters[i] \in ToSet(Said)
    BY <1>4, <1>5, <2>1, <2>2 DEF matches_any_filter, Search
  <2> QED BY <2>3 DEF Forbidden, filters, ToSet
<1>8. format_relay_message(Mappings[m].template, Sender, Relayed, Label, Clock)
      = Subst(Mappings[m].template, Filling(Relayed))
  BY <1>4, <1>5, FormatIs
<1> QED BY <1>2, <1>3, <1>6, <1>7, <1>8

LEMMA PostedHere == IInv => PostedAsConfigured
<1> SUFFICES ASSUME IInv, NEW m \in DOMAIN posted
             PROVE  LET template == Mappings[m].template
                        Fill(token) == CASE token = Time -> Clock
                                         [] token = ChannelName -> Label
                                         [] token = User -> Sender
                                         [] token = Message -> Relayed
                                         [] OTHER -> <<token>>
                    IN  IF Forbidden(m) \cap ToSet(Said) # {} THEN posted[m] = NotPosted
                        ELSE \/ handed.value.head[1] = Achievement /\ posted[m] # NotPosted
                             \/ posted[m] = FlattenSeq([i \in DOMAIN template |-> Fill(template[i])])
  BY DEF PostedAsConfigured, Forbidden, Relayed
<1> DEFINE template == Mappings[m].template
           Fill(token) == CASE token = Time -> Clock
                            [] token = ChannelName -> Label
                            [] token = User -> Sender
                            [] token = Message -> Relayed
                            [] OTHER -> <<token>>
<1>1. /\ m \in DOMAIN Mappings /\ Relayable
      /\ Forbidden(m) \cap ToSet(Said) # {} => posted[m] = NotPosted
      /\ Forbidden(m) \cap ToSet(Said) = {} =>
            posted[m] = IF handed.value.head[1] = Achievement
                        THEN Append(Sender, Trophy) \o Relayed
                        ELSE Subst(template, Filling(Relayed))
  BY PostIs
<1>2. template \in Texts /\ Relayed \in Texts /\ Append(Sender, Trophy) \in Texts
  BY <1>1, Configured, RelayedIs, TextsAre
<1>3. Append(Sender, Trophy) \o Relayed # NotPosted
  <2>1. Len(Append(Sender, Trophy)) = Len(Sender) + 1 /\ Len(Sender) \in Nat /\ Len(Relayed) \in Nat
    BY <1>2, Configured, AppendProperties, LenProperties DEF Texts
  <2>2. Len(Append(Sender, Trophy) \o Relayed) = Len(Sender) + 1 + Len(Relayed)
    BY <1>2, <2>1, ConcatProperties DEF Texts
  <2>3. Len(<<>>) = 0
    OBVIOUS
  <2> QED BY <2>1, <2>2, <2>3 DEF NotPosted
<1>4. Subst(template, Filling(Relayed)) = FlattenSeq([i \in DOMAIN template |-> Fill(template[i])])
  <2>1. \A i \in DOMAIN template : template[i] \in Nat
    BY <1>2, TokensAre
  <2>2. \A t \in Nat : Filling(Relayed)[t] = Fill(t)
    BY DEF Filling
  <2> HIDE DEF Fill
  <2>3. [i \in DOMAIN template |-> Filling(Relayed)[template[i]]]
        = [i \in DOMAIN template |-> Fill(template[i])]
    BY <2>1, <2>2
  <2> QED BY <2>3 DEF Subst
<1> QED BY <1>1, <1>3, <1>4

\* Every message is withheld from exactly the mappings whose filters forbid it,
\* and posted to the others with the template filled in (bot.py:119-164).
THEOREM PostsAreConfigured == ChatSpec => []PostedAsConfigured
<1> QED BY IInvHolds, PostedHere, PTL

-----------------------------------------------------------------------------
\* Tokens that reach Discord with the message only.
Strange == {Bar} \cup RenderedLinks \cup Pinging

\* A post is the wording with the message in it, and a part before it that has
\* none of these tokens.
LEMMA PostIsWording ==
    ASSUME IInv, NEW m \in PostedTo
    PROVE  /\ Relayable /\ Relayed \in Texts
           /\ Wording(m) \in Texts /\ ToSet(Wording(m)) \cap Strange = {}
           /\ \E front \in Texts :
                 /\ ToSet(front) \cap Strange = {}
                 /\ posted[m] = front \o Subst(Wording(m), Filling(Relayed))
<1>0. m \in DOMAIN posted /\ posted[m] # NotPosted
  BY DEF PostedTo
<1>1. /\ m \in DOMAIN Mappings /\ Relayable
      /\ posted[m] = IF handed.value.head[1] = Achievement
                     THEN Append(Sender, Trophy) \o Relayed
                     ELSE Subst(Mappings[m].template, Filling(Relayed))
  BY <1>0, PostIs
<1>2. Relayed \in Texts
  BY <1>1, RelayedIs
<1>3. CASE handed.value.head[1] = Achievement
  <2> DEFINE front == Append(Sender, Trophy)
  <2>1. Wording(m) = <<Message>> /\ Message \in Nat
    BY <1>3 DEF Wording, Message
  <2>2. Subst(<<Message>>, Filling(Relayed)) = Relayed
    <3>1. Filling(Relayed)[Message] = Relayed
      BY DEF Filling, Message, Time, ChannelName, User
    <3> QED BY <1>2, <2>1, <3>1, FillingIs, SubstSingle
  <2>3. front \in Texts /\ ToSet(front) \cap Strange = {}
    <3>1. Sender \in Texts /\ Trophy \in Nat /\ Trophy \notin Strange /\ ToSet(Sender) \cap Strange = {}
      BY Configured DEF Strange
    <3>2. front = Sender \o <<Trophy>> /\ front \in Texts /\ <<Trophy>> \in Texts
      BY <3>1, AppendIsConcat, TextsAre DEF Texts
    <3> DEFINE trophy == <<Trophy>>
    <3> HIDE DEF front, trophy
    <3>3. ToSet(front) = ToSet(Sender) \cup ToSet(trophy)
      <4>1. Sender \in Seq(Nat) /\ trophy \in Seq(Nat) /\ front = Sender \o trophy
        BY <3>1, <3>2 DEF Texts, trophy
      <4> QED BY <4>1, ToSetConcat
    <3>4. ToSet(<<Trophy>>) = {Trophy}
      BY DEF ToSet
    <3> QED BY <3>1, <3>2, <3>3, <3>4 DEF trophy
  <2>4. ToSet(<<Message>>) \cap Strange = {}
    <3>1. ToSet(<<Message>>) = {Message}
      BY DEF ToSet
    <3>2. Message \notin Strange
      BY KindsApart DEF Strange, Placeholders
    <3> QED BY <3>1, <3>2
  <2> HIDE DEF front
  <2>5. posted[m] = front \o Subst(Wording(m), Filling(Relayed))
    BY <1>1, <1>3, <2>1, <2>2 DEF front
  <2> QED BY <1>1, <1>2, <2>1, <2>3, <2>4, <2>5, TextsAre
<1>4. CASE handed.value.head[1] # Achievement
  <2>1. Wording(m) = Mappings[m].template
    BY <1>4 DEF Wording
  <2>2. Wording(m) \in Texts /\ ToSet(Wording(m)) \cap Strange = {}
    BY <1>1, <2>1, Configured DEF Strange
  <2>3. Subst(Wording(m), Filling(Relayed)) \in Texts
    BY <1>2, <2>2, FillingIs, SubstType
  <2>4. posted[m] = <<>> \o Subst(Wording(m), Filling(Relayed))
    BY <1>1, <1>4, <2>1, <2>3, ConcatEmptySeq DEF Texts
  <2>5. <<>> \in Texts /\ ToSet(<<>>) \cap Strange = {}
    BY TextsAre DEF ToSet
  <2> QED BY <1>1, <1>2, <2>2, <2>4, <2>5
<1> QED BY <1>3, <1>4

LEMMA FillingTokens ==
    ASSUME NEW message \in Texts, NEW t \in Nat
    PROVE  /\ t = Message => Filling(message)[t] = message
           /\ t # Message /\ t \notin Strange => ToSet(Filling(message)[t]) \cap Strange = {}
<1>0. /\ Time # ChannelName /\ Time # User /\ Time # Message
      /\ ChannelName # User /\ ChannelName # Message /\ User # Message
  BY DEF Time, ChannelName, User, Message
<1>1. ASSUME t = Message PROVE Filling(message)[t] = message
  BY <1>0, <1>1 DEF Filling
<1>2. \A s \in {Sender, Label, Clock} : ToSet(s) \cap Strange = {}
  BY Configured DEF Strange
<1>3. ASSUME t # Message, t \notin Strange
      PROVE  ToSet(Filling(message)[t]) \cap Strange = {}
  <2>1. Filling(message)[t] \in {Sender, Label, Clock, <<t>>}
    BY <1>3 DEF Filling
  <2>2. ToSet(<<t>>) = {t}
    BY DEF ToSet
  <2> QED BY <1>2, <1>3, <2>1, <2>2
<1> QED BY <1>1, <1>3

\* The tokens among these that a post has are those of the message, if the
\* wording has a place for it.
LEMMA StrangeTokens ==
    ASSUME IInv, NEW m \in PostedTo, NEW x \in Strange
    PROVE  x \in ToSet(posted[m]) <=> Message \in ToSet(Wording(m)) /\ x \in ToSet(Relayed)
<1> DEFINE w == Wording(m)
           f == Filling(Relayed)
<1>1. /\ Relayed \in Texts /\ w \in Texts /\ ToSet(w) \cap Strange = {}
      /\ \E front \in Texts :
            /\ ToSet(front) \cap Strange = {}
            /\ posted[m] = front \o Subst(w, f)
  BY PostIsWording
<1>2. f \in Rules /\ ToSet(w) \subseteq Nat
  BY <1>1, FillingIs, TokensAre
<1>3. /\ \A t \in ToSet(w) : t = Message => f[t] = Relayed
      /\ \A t \in ToSet(w) : t # Message => ToSet(f[t]) \cap Strange = {}
  BY <1>1, <1>2, FillingTokens
<1> HIDE DEF w, f
<1>4. PICK front \in Texts : ToSet(front) \cap Strange = {} /\ posted[m] = front \o Subst(w, f)
  BY <1>1
<1>5. ToSet(posted[m]) = ToSet(front) \cup ToSet(Subst(w, f))
  BY <1>1, <1>2, <1>4, SubstType, ToSetConcat DEF Texts
<1>6. ToSet(Subst(w, f)) = UNION {ToSet(f[t]) : t \in ToSet(w)}
  BY <1>1, <1>2, ToSetSubst
<1>7. x \in ToSet(posted[m]) <=> \E t \in ToSet(w) : x \in ToSet(f[t])
  BY <1>4, <1>5, <1>6
<1> QED BY <1>3, <1>7 DEF w

-----------------------------------------------------------------------------
\* Whom a tag can stand for, and those it fits best.
People ==
    {[names |-> m.names, mention |-> m.mention] : m \in {x \in Members : ~x.bot}}
    \cup {[names |-> {r.name}, mention |-> r.mention] : r \in Roles}

BestFit(tag) == {p \in People : /\ Fit(p.names, tag) > 0
                                /\ \A q \in People : Fit(q.names, tag) <= Fit(p.names, tag)}

LEMMA CandidatesAre ==
    \A c : c \in Candidates <=> \E p \in People : \E n \in p.names : c = <<n, p.mention>>
<1>1. ASSUME NEW c \in Candidates PROVE \E p \in People : \E n \in p.names : c = <<n, p.mention>>
  <2>1. CASE \E r \in Roles : c = <<r.name, r.mention>>
    <3>1. PICK r \in Roles : c = <<r.name, r.mention>>
      BY <2>1
    <3> DEFINE p == [names |-> {r.name}, mention |-> r.mention]
    <3>2. p \in People /\ r.name \in p.names /\ c = <<r.name, p.mention>>
      BY <3>1 DEF People
    <3> QED BY <3>2
  <2>2. CASE \E m \in {x \in Members : ~x.bot} : \E n \in m.names : c = <<n, m.mention>>
    <3>1. PICK m \in {x \in Members : ~x.bot} : \E n \in m.names : c = <<n, m.mention>>
      BY <2>2
    <3> DEFINE p == [names |-> m.names, mention |-> m.mention]
    <3>2. p \in People /\ p.names = m.names /\ p.mention = m.mention
      BY DEF People
    <3> QED BY <3>1, <3>2
  <2> QED BY <2>1, <2>2 DEF Candidates
<1>2. ASSUME NEW p \in People, NEW n \in p.names PROVE <<n, p.mention>> \in Candidates
  <2>1. CASE \E m \in {x \in Members : ~x.bot} : p = [names |-> m.names, mention |-> m.mention]
    <3>1. PICK m \in {x \in Members : ~x.bot} : p = [names |-> m.names, mention |-> m.mention]
      BY <2>1
    <3>2. n \in m.names /\ p.mention = m.mention
      BY <3>1
    <3> QED BY <3>2 DEF Candidates
  <2>2. CASE \E r \in Roles : p = [names |-> {r.name}, mention |-> r.mention]
    <3>1. PICK r \in Roles : p = [names |-> {r.name}, mention |-> r.mention]
      BY <2>2
    <3>2. n = r.name /\ p.mention = r.mention
      BY <3>1
    <3> QED BY <3>2 DEF Candidates
  <2> QED BY <2>1, <2>2 DEF People
<1> QED BY <1>1, <1>2

\* The two searches of mentions.py find exactly the best fits.
LEMMA MentionsAreBest ==
    ASSUME NEW tag
    PROVE  Mentions(tag) = {p.mention : p \in BestFit(tag)}
<1> DEFINE whole(p) == tag \in p.names
           part(p) == \E n \in p.names : tag \in Words[n]
           exact == {c \in Candidates : c[1] = tag}
<1>1. \A p : Fit(p.names, tag) = IF whole(p) THEN 2 ELSE IF part(p) THEN 1 ELSE 0
  BY DEF Fit
<1>0. /\ \A c \in Candidates : \E p \in People : c[1] \in p.names /\ c[2] = p.mention
      /\ \A p \in People : \A n \in p.names :
            \E c \in Candidates : c[1] = n /\ c[2] = p.mention
  <2>1. ASSUME NEW c \in Candidates PROVE \E p \in People : c[1] \in p.names /\ c[2] = p.mention
    <3>1. PICK p \in People : \E n \in p.names : c = <<n, p.mention>>
      BY CandidatesAre
    <3> QED BY <3>1
  <2>2. ASSUME NEW p \in People, NEW n \in p.names
        PROVE  \E c \in Candidates : c[1] = n /\ c[2] = p.mention
    <3> DEFINE c == <<n, p.mention>>
    <3>1. c \in Candidates
      BY CandidatesAre
    <3>2. c[1] = n /\ c[2] = p.mention
      OBVIOUS
    <3> QED BY <3>1, <3>2
  <2> QED BY <2>1, <2>2
<1>2. \A x : x \in {c[2] : c \in exact} <=> \E p \in People : whole(p) /\ x = p.mention
  <2>1. ASSUME NEW c \in exact PROVE \E p \in People : whole(p) /\ c[2] = p.mention
    BY <1>0
  <2>2. ASSUME NEW p \in People, whole(p) PROVE \E c \in exact : p.mention = c[2]
    BY <1>0, <2>2
  <2> HIDE DEF exact, whole
  <2> QED BY <2>1, <2>2
<1>3. \A x : x \in {c[2] : c \in {e \in Candidates : tag \in Words[e[1]]}}
             <=> \E p \in People : part(p) /\ x = p.mention
  <2> DEFINE some == {e \in Candidates : tag \in Words[e[1]]}
  <2>1. ASSUME NEW c \in some PROVE \E p \in People : part(p) /\ c[2] = p.mention
    BY <1>0
  <2>2. ASSUME NEW p \in People, part(p) PROVE \E c \in some : p.mention = c[2]
    <3>1. PICK n \in p.names : tag \in Words[n]
      BY <2>2
    <3>2. PICK c \in Candidates : c[1] = n /\ c[2] = p.mention
      BY <1>0
    <3> QED BY <3>1, <3>2
  <2> HIDE DEF some, part
  <2>3. \A x : x \in {c[2] : c \in some} <=> \E p \in People : part(p) /\ x = p.mention
    BY <2>1, <2>2
  <2> QED BY <2>3 DEF some
<1>4. exact # {} <=> \E p \in People : whole(p)
  BY <1>0
<1>5. CASE exact # {}
  <2>1. Mentions(tag) = {c[2] : c \in exact}
    BY <1>5 DEF Mentions, Found
  <2>2. \A p \in People : p \in BestFit(tag) <=> whole(p)
    <3>1. PICK q \in People : whole(q)
      BY <1>4, <1>5
    <3> HIDE DEF whole, part
    <3> QED BY <1>1, <3>1 DEF BestFit
  <2>3. BestFit(tag) \subseteq People
    BY DEF BestFit
  <2> HIDE DEF whole, part, exact
  <2> QED BY <1>2, <2>1, <2>2, <2>3
<1>6. CASE exact = {}
  <2>1. Mentions(tag) = {c[2] : c \in {e \in Candidates : tag \in Words[e[1]]}}
    BY <1>6 DEF Mentions, Found
  <2>2. \A p \in People : p \in BestFit(tag) <=> part(p)
    <3>1. \A q \in People : ~whole(q)
      BY <1>4, <1>6
    <3> HIDE DEF whole, part
    <3> QED BY <1>1, <3>1 DEF BestFit
  <2>3. BestFit(tag) \subseteq People
    BY DEF BestFit
  <2> HIDE DEF whole, part, exact
  <2> QED BY <1>3, <2>1, <2>2, <2>3
<1> QED BY <1>5, <1>6

\* Everybody has a mention of their own, and there are finitely many.
LEMMA PeopleApart == \A p, q \in People : p.mention = q.mention => p = q
<1> SUFFICES ASSUME NEW p \in People, NEW q \in People, p.mention = q.mention PROVE p = q
  OBVIOUS
<1> DEFINE member(x) == \E m \in Members : x = [names |-> m.names, mention |-> m.mention]
           role(x) == \E r \in Roles : x = [names |-> {r.name}, mention |-> r.mention]
<1>1. (member(p) \/ role(p)) /\ (member(q) \/ role(q))
  BY DEF People
<1>2. CASE member(p) /\ member(q)
  <2>1. PICK m \in Members : p = [names |-> m.names, mention |-> m.mention]
    BY <1>2
  <2>2. PICK n \in Members : q = [names |-> n.names, mention |-> n.mention]
    BY <1>2
  <2>3. m.mention = n.mention
    BY <2>1, <2>2
  <2> QED BY <2>1, <2>2, <2>3, TextAssumption
<1>3. CASE role(p) /\ role(q)
  <2>1. PICK r \in Roles : p = [names |-> {r.name}, mention |-> r.mention]
    BY <1>3
  <2>2. PICK s \in Roles : q = [names |-> {s.name}, mention |-> s.mention]
    BY <1>3
  <2>3. r.mention = s.mention
    BY <2>1, <2>2
  <2> QED BY <2>1, <2>2, <2>3, TextAssumption
<1>4. ASSUME NEW x \in People, NEW y \in People, role(x), member(y) PROVE x.mention # y.mention
  <2>1. PICK r \in Roles : x = [names |-> {r.name}, mention |-> r.mention]
    BY <1>4
  <2>2. PICK m \in Members : y = [names |-> m.names, mention |-> m.mention]
    BY <1>4
  <2>3. x.mention = r.mention /\ y.mention = m.mention
    BY <2>1, <2>2
  <2> QED BY <2>3, TextAssumption
<1> HIDE DEF member, role
<1> QED BY <1>1, <1>2, <1>3, <1>4

LEMMA ImageFinite ==
    ASSUME NEW S, IsFiniteSet(S)
    PROVE  IsFiniteSet({x.mention : x \in S})
<1> DEFINE T == {x.mention : x \in S}
           f == [x \in S |-> x.mention]
<1>1. f \in Surjection(S, T)
  BY DEF Surjection
<1> HIDE DEF f, T
<1>2. IsFiniteSet(T)
  BY <1>1, FS_Surjection
<1> QED BY <1>2 DEF T

LEMMA MentionsFinite == \A tag : IsFiniteSet(Mentions(tag))
<1>1. IsFiniteSet(Pinging)
  <2>1. /\ IsFiniteSet({r.mention : r \in Roles})
        /\ IsFiniteSet({m.mention : m \in Members})
    BY ImageFinite, TextAssumption
  <2> QED BY <2>1, FS_Union DEF Pinging
<1> QED BY <1>1, MentionsPing, FS_Subset

\* A tag becomes a mention exactly if one person fits it best.
Pings(tag) == {p.mention : p \in {q \in BestFit(tag) : BestFit(tag) = {q}}}

LEMMA PingsAre ==
    ASSUME NEW tag
    PROVE  Pings(tag) = IF Cardinality(Mentions(tag)) = 1
                        THEN {CHOOSE x \in Mentions(tag) : TRUE} ELSE {}
<1>1. Mentions(tag) = {p.mention : p \in BestFit(tag)}
  BY MentionsAreBest
<1>2. \A p, q \in BestFit(tag) : p.mention = q.mention => p = q
  BY PeopleApart DEF BestFit
<1>3. Cardinality(Mentions(tag)) = 1 <=> \E x : Mentions(tag) = {x}
  BY MentionsFinite, FS_Singleton
<1>4. CASE \E q : BestFit(tag) = {q}
  <2>1. PICK q : BestFit(tag) = {q}
    BY <1>4
  <2>2. Mentions(tag) = {q.mention} /\ Pings(tag) = {q.mention}
    BY <1>1, <2>1 DEF Pings
  <2>3. (CHOOSE x \in Mentions(tag) : TRUE) = q.mention
    BY <2>2
  <2> QED BY <1>3, <2>2, <2>3
<1>5. CASE ~\E q : BestFit(tag) = {q}
  <2>1. Pings(tag) = {}
    BY <1>5 DEF Pings
  <2>2. ASSUME NEW x, Mentions(tag) = {x} PROVE FALSE
    <3>1. PICK q \in BestFit(tag) : x = q.mention
      BY <1>1, <2>2
    <3>2. \A p \in BestFit(tag) : p.mention = q.mention
      BY <1>1, <2>2, <3>1
    <3>3. BestFit(tag) = {q}
      BY <1>2, <3>2
    <3> QED BY <1>5, <3>3
  <2> QED BY <1>3, <2>1, <2>2
<1> QED BY <1>4, <1>5

LEMMA PingsHere == IInv => PingsAreUnambiguous
<1> DEFINE all == {p.mention : p \in People} \cup {x.mention : x \in Members}
<1> SUFFICES ASSUME IInv, NEW m \in PostedTo
             PROVE  all \cap ToSet(posted[m]) =
                       IF Message \in ToSet(Wording(m))
                       THEN UNION {Pings(tag) : tag \in Tags \cap ToSet(Said)} ELSE {}
  BY DEF PingsAreUnambiguous, Pings, BestFit, People
<1>1. all = Pinging
  <2>1. \A x : x \in {p.mention : p \in People} =>
           x \in {r.mention : r \in Roles} \cup {n.mention : n \in Members}
    BY DEF People
  <2>2. \A r \in Roles : r.mention \in {p.mention : p \in People}
    <3> SUFFICES ASSUME NEW r \in Roles PROVE r.mention \in {p.mention : p \in People}
      OBVIOUS
    <3> DEFINE p == [names |-> {r.name}, mention |-> r.mention]
    <3>1. p \in People /\ p.mention = r.mention
      BY DEF People
    <3> QED BY <3>1
  <2> QED BY <2>1, <2>2 DEF Pinging
<1>2. Relayable
  BY PostIsWording
<1> DEFINE clean == CleanMessage(Said)
<1>3. /\ clean \in Texts /\ ToSet(clean) \subseteq Nat
      /\ ToSet(clean) \cap Pinging = {}
      /\ \A x : x \notin MarkerChars \cup Links \cup RenderedLinks => (x \in ToSet(clean) <=> x \in ToSet(Said))
      /\ ToSet(Relayed) = {PingOf(t) : t \in ToSet(clean)}
  BY <1>2, RelayedIs, TokensAre
<1>4. \A tag \in Tags : tag \in ToSet(clean) <=> tag \in ToSet(Said)
  BY <1>3, KindsApart
<1> HIDE DEF clean
<1>5. ASSUME NEW t \in ToSet(clean) PROVE {PingOf(t)} \cap Pinging = IF t \in Tags THEN Pings(t) ELSE {}
  <2>1. t \notin Pinging
    BY <1>3
  <2>2. CASE t \in Tags /\ Cardinality(Mentions(t)) = 1
    <3>1. PingOf(t) \in Pinging
      BY <2>2, PingIs, MentionsPing DEF PingOf
    <3> QED BY <2>2, <3>1, PingsAre DEF PingOf
  <2>3. CASE ~(t \in Tags /\ Cardinality(Mentions(t)) = 1)
    BY <2>1, <2>3, PingsAre DEF PingOf
  <2> QED BY <2>2, <2>3
<1>6. Pinging \cap ToSet(Relayed) = UNION {Pings(tag) : tag \in Tags \cap ToSet(Said)}
  <2>1. ASSUME NEW x \in Pinging, x \in ToSet(Relayed)
        PROVE  x \in UNION {Pings(tag) : tag \in Tags \cap ToSet(Said)}
    <3>1. PICK t \in ToSet(clean) : x = PingOf(t)
      BY <1>3, <2>1
    <3>2. t \in Tags /\ x \in Pings(t)
      BY <1>5, <2>1, <3>1
    <3> QED BY <1>4, <3>1, <3>2
  <2>2. ASSUME NEW tag \in Tags \cap ToSet(Said), NEW x \in Pings(tag)
        PROVE  x \in Pinging \cap ToSet(Relayed)
    <3>1. tag \in ToSet(clean)
      BY <1>4, <2>2
    <3>2. x \in {PingOf(tag)} \cap Pinging
      BY <1>5, <2>2, <3>1
    <3> QED BY <1>3, <3>1, <3>2
  <2> QED BY <2>1, <2>2
<1>7. \A x \in Pinging : x \in ToSet(posted[m]) <=> Message \in ToSet(Wording(m)) /\ x \in ToSet(Relayed)
  BY StrangeTokens DEF Strange
<1> HIDE DEF all
<1> QED BY <1>1, <1>6, <1>7

\* However many names, words and roles a tag fits, a post pings the one that fits
\* best or nobody, and never the bridge itself (mentions.py:24-69).
THEOREM TagsPingTheBest == ChatSpec => []PingsAreUnambiguous
<1> QED BY IInvHolds, PingsHere, PTL

-----------------------------------------------------------------------------
\* The links of a text, in order.
LinksOf(text) ==
    FlattenSeq([i \in DOMAIN text |->
        IF LinkAt(text, i) THEN <<Rendered(text[i])>> ELSE <<>>])

\* Cleaning a text shows its links and no other.
LEMMA CleanShowsLinks ==
    ASSUME NEW text \in Texts, ToSet(text) \cap RenderedLinks = {}
    PROVE  Subst(CleanMessage(text), ShowLinks) = LinksOf(text)
<1>1. \A i \in DOMAIN text : text[i] \in Nat /\ Rendered(text[i]) \in Nat /\ text[i] \in ToSet(text)
  BY TokensAre DEF Rendered
<1>2. \A t \in MarkerChars : ShowLinks[t] = <<>>
  <2>1. \A t \in MarkerChars : t \in Nat /\ t \notin RenderedLinks
    BY TextAssumption, KindsApart DEF MarkerChars, Bar, LetterR
  <2> QED BY <2>1 DEF ShowLinks
<1>3. Subst(CleanMessage(text), ShowLinks) = Subst(Shown(text), ShowLinks)
  BY <1>2, CleanIs, RulesAre
<1>4. ASSUME NEW i \in DOMAIN text
      PROVE  ShowLinks[Shown(text)[i]] = IF LinkAt(text, i) THEN <<Rendered(text[i])>> ELSE <<>>
  <2>1. LinkAt(text, i) => Rendered(text[i]) \in RenderedLinks
    BY DEF LinkAt, RenderedLinks
  <2>2. Shown(text)[i] = IF LinkAt(text, i) THEN Rendered(text[i]) ELSE text[i]
    BY DEF Shown
  <2> QED BY <1>1, <2>1, <2>2 DEF ShowLinks
<1>5. [i \in DOMAIN Shown(text) |-> ShowLinks[Shown(text)[i]]]
      = [i \in DOMAIN text |-> IF LinkAt(text, i) THEN <<Rendered(text[i])>> ELSE <<>>]
  <2>1. DOMAIN Shown(text) = DOMAIN text
    BY ShownIs
  <2> QED BY <1>4, <2>1, Zenon
<1> QED BY <1>3, <1>5 DEF Subst, LinksOf

\* Mentions hide no link and add none.
LEMMA RelayedShowsLinks ==
    ASSUME IInv, Relayable
    PROVE  Subst(Relayed, ShowLinks) = LinksOf(Said)
<1>1. Said \in Texts /\ ToSet(Said) \cap RenderedLinks = {}
  BY SaidIs
<1> DEFINE clean == CleanMessage(Said)
<1>2. clean \in Texts /\ Relayed = Subst(clean, Ping) /\ ToSet(clean) \subseteq Nat
  BY RelayedIs, TokensAre
<1>3. Subst(clean, ShowLinks) = LinksOf(Said)
  BY <1>1, CleanShowsLinks
<1> HIDE DEF clean
<1>4. Subst(Relayed, ShowLinks) = Subst(clean, Then(Ping, ShowLinks))
  BY <1>2, PingIs, RulesAre, SubstSubst
<1>5. ASSUME NEW t \in ToSet(clean) PROVE Then(Ping, ShowLinks)[t] = ShowLinks[t]
  <2>1. t \in Nat /\ PingOf(t) \in Nat
    BY <1>2, PingIs
  <2>2. Then(Ping, ShowLinks)[t] = ShowLinks[PingOf(t)]
    <3>1. Subst(<<PingOf(t)>>, ShowLinks) = ShowLinks[PingOf(t)]
      BY <2>1, RulesAre, SubstSingle
    <3>2. Ping[t] = <<PingOf(t)>>
      BY <2>1 DEF Ping
    <3> QED BY <2>1, <3>1, <3>2 DEF Then
  <2>3. CASE PingOf(t) = t
    BY <2>2, <2>3
  <2>4. CASE PingOf(t) # t
    <3>1. PingOf(t) \in Pinging /\ t \in Tags
      BY <2>1, <2>4, PingIs, MentionsPing
    <3>2. PingOf(t) \notin RenderedLinks /\ t \notin RenderedLinks
      BY <3>1, KindsApart
    <3> QED BY <2>1, <2>2, <3>2 DEF ShowLinks
  <2> QED BY <2>3, <2>4
<1>6. Subst(clean, Then(Ping, ShowLinks)) = Subst(clean, ShowLinks)
  BY <1>5, SubstEqual
<1> QED BY <1>3, <1>4, <1>6

LEMMA LinksHere == IInv => LinksReadable
<1> DEFINE shown(m) == FlattenSeq([i \in DOMAIN posted[m] |->
                           IF posted[m][i] \in RenderedLinks THEN <<posted[m][i]>> ELSE <<>>])
           wanted(m) == FlattenSeq([i \in DOMAIN Wording(m) |->
                            IF Wording(m)[i] = Message THEN LinksOf(Said) ELSE <<>>])
<1> SUFFICES ASSUME IInv, NEW m \in PostedTo
             PROVE  shown(m) = wanted(m)
  BY DEF LinksReadable, LinksOf
<1>1. /\ Relayable /\ Relayed \in Texts
      /\ Wording(m) \in Texts /\ ToSet(Wording(m)) \cap Strange = {}
      /\ \E front \in Texts :
            /\ ToSet(front) \cap Strange = {}
            /\ posted[m] = front \o Subst(Wording(m), Filling(Relayed))
  BY PostIsWording
<1> DEFINE w == Wording(m)
           f == Filling(Relayed)
           g == Then(f, ShowLinks)
<1>3. PICK front \in Texts : ToSet(front) \cap Strange = {} /\ posted[m] = front \o Subst(w, f)
  BY <1>1
<1>4. f \in Rules /\ ToSet(w) \subseteq Nat /\ Subst(w, f) \in Texts
  BY <1>1, FillingIs, TokensAre, SubstType
<1>5. shown(m) = Subst(posted[m], ShowLinks)
  <2>1. posted[m] \in Texts
    BY <1>3, <1>4, TextsAre
  <2>2. \A i \in DOMAIN posted[m] : posted[m][i] \in Nat
    BY <2>1, TokensAre
  <2>3. [i \in DOMAIN posted[m] |-> IF posted[m][i] \in RenderedLinks THEN <<posted[m][i]>> ELSE <<>>]
        = [i \in DOMAIN posted[m] |-> ShowLinks[posted[m][i]]]
    BY <2>2 DEF ShowLinks
  <2> QED BY <2>3 DEF Subst
<1>6. Subst(posted[m], ShowLinks) = Subst(w, g)
  <2> HIDE DEF f, w
  <2>1. Subst(posted[m], ShowLinks) = Subst(front, ShowLinks) \o Subst(Subst(w, f), ShowLinks)
    BY <1>3, <1>4, RulesAre, SubstConcat
  <2>2. Subst(front, ShowLinks) = <<>>
    <3>1. \A t \in ToSet(front) : t \in Nat /\ t \notin RenderedLinks
      BY <1>3, TokensAre DEF Strange
    <3>2. \A t \in ToSet(front) : ShowLinks[t] = <<>>
      BY <3>1 DEF ShowLinks
    <3> QED BY <3>2, SubstNothing
  <2>3. w \in Texts
    BY <1>1 DEF w
  <2>4. Subst(Subst(w, f), ShowLinks) = Subst(w, g) /\ Subst(w, g) \in Texts
    BY <1>4, <2>3, RulesAre, SubstSubst, SubstType
  <2> HIDE DEF g
  <2> QED BY <2>1, <2>2, <2>4, ConcatEmptySeq DEF Texts
<1>7. Subst(w, g) = wanted(m)
  <2>1. ASSUME NEW t \in ToSet(w) PROVE g[t] = IF t = Message THEN LinksOf(Said) ELSE <<>>
    <3>1. t \in Nat /\ t \notin Strange
      BY <1>1, <1>4
    <3> HIDE DEF f
    <3>2. g[t] = Subst(f[t], ShowLinks)
      BY <3>1 DEF Then
    <3>3. CASE t = Message
      <4>1. f[t] = Relayed
        BY <1>1, <3>1, <3>3, FillingTokens DEF f
      <4> QED BY <1>1, <3>2, <3>3, <4>1, RelayedShowsLinks
    <3>4. CASE t # Message
      <4>1. f[t] \in Texts /\ ToSet(f[t]) \cap Strange = {}
        <5>1. ToSet(f[t]) \cap Strange = {}
          BY <1>1, <3>1, <3>4, FillingTokens DEF f
        <5> QED BY <1>4, <3>1, <5>1, TextsAre
      <4>2. \A x \in ToSet(f[t]) : x \in Nat /\ x \notin RenderedLinks
        BY <4>1, TokensAre DEF Strange
      <4>3. \A x \in ToSet(f[t]) : ShowLinks[x] = <<>>
        BY <4>2 DEF ShowLinks
      <4>4. Subst(f[t], ShowLinks) = <<>>
        BY <4>1, <4>3, SubstNothing
      <4> QED BY <3>2, <3>4, <4>4
    <3> QED BY <3>3, <3>4
  <2> HIDE DEF g
  <2>2. [i \in DOMAIN w |-> g[w[i]]]
        = [i \in DOMAIN w |-> IF w[i] = Message THEN LinksOf(Said) ELSE <<>>]
    <3>1. \A i \in DOMAIN w : w[i] \in ToSet(w)
      BY DEF ToSet
    <3> HIDE DEF w
    <3> QED BY <2>1, <3>1
  <2> QED BY <2>2 DEF Subst
<1> QED BY <1>5, <1>6, <1>7

\* However a message is coloured, nested or cut, each whole link of it is readable
\* in every post, in order, and nothing else is shown as a link (bot.py:120-127).
THEOREM LinksStayReadable == ChatSpec => []LinksReadable
<1> QED BY IInvHolds, LinksHere, PTL

-----------------------------------------------------------------------------
\* u is what is left of t at the places kept, the k-th of which is q[k].
IsThin(t, kept, u, q) ==
    /\ kept \subseteq DOMAIN t
    /\ q \in [1..Len(u) -> kept]
    /\ \A k, l \in 1..Len(u) : k < l => q[k] < q[l]
    /\ \A i \in kept : \E k \in 1..Len(u) : q[k] = i
    /\ \A k \in 1..Len(u) : u[k] = t[q[k]]

LEMMA WithoutAppend ==
    ASSUME NEW t \in Texts, NEW e \in Nat, NEW places
    PROVE  Without(Append(t, e), places)
           = IF Len(t) + 1 \in places THEN Without(t, places)
             ELSE Append(Without(t, places), e)
<1> DEFINE s == Append(t, e)
           piece(i) == IF i \in places THEN <<>> ELSE <<s[i]>>
           old == [i \in DOMAIN t |-> IF i \in places THEN <<>> ELSE <<t[i]>>]
           new == [i \in DOMAIN s |-> piece(i)]
           last == piece(Len(t) + 1)
<1>1. /\ DOMAIN t = 1..Len(t) /\ Len(t) \in Nat /\ \A i \in DOMAIN t : t[i] \in Nat
      /\ s \in Texts /\ DOMAIN s = 1..Len(t) + 1
      /\ s[Len(t) + 1] = e /\ \A i \in 1..Len(t) : s[i] = t[i]
  <2>1. Len(s) = Len(t) + 1 /\ s \in Texts
    BY AppendProperties DEF Texts
  <2> QED BY <2>1, TokensAre, AppendProperties DEF Texts
<1>2. old \in Seq(Texts) /\ Len(old) = Len(t) /\ last \in Texts
  <2>1. \A i \in DOMAIN t : (IF i \in places THEN <<>> ELSE <<t[i]>>) \in Texts
    BY <1>1, TextsAre
  <2>2. last \in Texts
    BY <1>1, TextsAre
  <2> QED BY <1>1, <2>1, <2>2
<1> HIDE DEF s
<1>3. new = Append(old, last)
  <2> DEFINE two == Append(old, last)
  <2>1. /\ two \in Seq(Texts) /\ Len(two) = Len(t) + 1 /\ two[Len(t) + 1] = last
        /\ \A i \in 1..Len(t) : two[i] = old[i]
    <3> HIDE DEF old, last
    <3> QED BY <1>2, AppendProperties
  <2>2. \A i \in 1..Len(t) : old[i] = piece(i)
    BY <1>1
  <2>3. ASSUME NEW i \in 1..Len(t) + 1 PROVE piece(i) \in Texts
    <3>1. s[i] \in Nat
      <4>1. CASE i = Len(t) + 1
        BY <1>1, <4>1
      <4>2. CASE i # Len(t) + 1
        <5>1. i \in 1..Len(t)
          BY <1>1, <4>2
        <5> QED BY <1>1, <5>1
      <4> QED BY <4>1, <4>2
    <3> QED BY <3>1, TextsAre
  <2>4. DOMAIN two = 1..Len(t) + 1
    <3> HIDE DEF two
    <3> QED BY <2>1, LenProperties
  <2> HIDE DEF piece, two, old
  <2>5. \A i \in 1..Len(t) + 1 : two[i] = piece(i)
    <3> SUFFICES ASSUME NEW i \in 1..Len(t) + 1 PROVE two[i] = piece(i)
      OBVIOUS
    <3>1. CASE i = Len(t) + 1
      BY <2>1, <3>1
    <3>2. CASE i # Len(t) + 1
      <4>1. i \in 1..Len(t)
        BY <1>1, <3>2
      <4> QED BY <2>1, <2>2, <4>1
    <3> QED BY <3>1, <3>2
  <2>6. two = [i \in 1..Len(t) + 1 |-> two[i]]
    BY <2>1, <2>4
  <2>7. new = two
    BY <1>1, <2>5, <2>6
  <2> QED BY <2>7 DEF two, old
<1>4. Without(t, places) = FlattenSeq(old) /\ Without(t, places) \in Texts
  <2>1. Without(t, places) = FlattenSeq(old)
    BY DEF Without
  <2>2. Without(t, places) \in Texts
    BY WithoutIs
  <2> QED BY <2>1, <2>2
<1>5. Without(s, places) = FlattenSeq(new)
  BY DEF Without
<1>6. FlattenSeq(Append(old, last)) = FlattenSeq(old) \o last
  <2> HIDE DEF old, last
  <2> QED BY <1>2, FlattenAppend DEF Texts
<1>7. Without(s, places) = Without(t, places) \o last
  <2> HIDE DEF old, new, last
  <2> QED BY <1>3, <1>4, <1>5, <1>6
<1>8. CASE Len(t) + 1 \in places
  <2>1. last = <<>>
    BY <1>8
  <2>2. Without(t, places) \o <<>> = Without(t, places)
    BY <1>4, ConcatEmptySeq DEF Texts
  <2> HIDE DEF last
  <2> QED BY <1>7, <1>8, <2>1, <2>2 DEF s
<1>9. CASE Len(t) + 1 \notin places
  <2>1. last = <<e>>
    BY <1>1, <1>9
  <2>2. Without(t, places) \o <<e>> = Append(Without(t, places), e)
    BY <1>4, AppendIsConcat DEF Texts
  <2> HIDE DEF last
  <2> QED BY <1>7, <1>9, <2>1, <2>2 DEF s
<1> QED BY <1>8, <1>9

LEMMA ThinExists ==
    ASSUME NEW t \in Texts, NEW places
    PROVE  \E q : IsThin(t, DOMAIN t \ places, Without(t, places), q)
<1> DEFINE T == {s \in Texts : \E q : IsThin(s, DOMAIN s \ places, Without(s, places), q)}
<1>1. <<>> \in T
  <2>1. Without(<<>>, places) = <<>>
    <3>1. [i \in DOMAIN <<>> |-> IF i \in places THEN <<>> ELSE <<<<>>[i]>>] = <<>>
      OBVIOUS
    <3> QED BY <3>1, FlattenEmpty DEF Without
  <2>2. DOMAIN <<>> = {} /\ 1..Len(<<>>) = {}
    OBVIOUS
  <2>3. IsThin(<<>>, DOMAIN <<>> \ places, <<>>, <<>>)
    BY <2>2 DEF IsThin
  <2> QED BY <2>1, <2>3, TextsAre
<1>2. ASSUME NEW s \in Texts, NEW e \in Nat, s \in T PROVE Append(s, e) \in T
  <2> DEFINE z == Append(s, e)
             n == Len(s)
             u == Without(s, places)
             m == Len(u)
             v == Without(z, places)
             kept == DOMAIN s \ places
  <2>1. PICK q : IsThin(s, kept, u, q)
    BY <1>2
  <2>2. /\ z \in Texts /\ DOMAIN z = 1..n + 1 /\ DOMAIN s = 1..n /\ n \in Nat
        /\ z[n + 1] = e /\ \A i \in 1..n : z[i] = s[i]
    <3>1. Len(z) = n + 1 /\ z \in Texts
      BY AppendProperties DEF Texts
    <3> QED BY <3>1, TokensAre, AppendProperties DEF Texts
  <2>3. u \in Texts /\ m \in Nat /\ v = IF n + 1 \in places THEN u ELSE Append(u, e)
    <3>1. u \in Texts
      BY WithoutIs
    <3> HIDE DEF u
    <3> QED BY <3>1, WithoutAppend, TokensAre DEF u
  <2> HIDE DEF z, u, v, m, n
  <2>4. /\ kept \subseteq 1..n /\ q \in [1..m -> kept]
        /\ \A k, l \in 1..m : k < l => q[k] < q[l]
        /\ \A i \in kept : \E k \in 1..m : q[k] = i
        /\ \A k \in 1..m : u[k] = s[q[k]] /\ q[k] \in 1..n
    BY <2>1, <2>2 DEF IsThin, m
  <2>5. CASE n + 1 \in places
    <3>1. DOMAIN z \ places = kept
      BY <2>2, <2>5
    <3> HIDE DEF kept
    <3>2. IsThin(z, kept, u, q)
      <4>1. \A k \in 1..m : u[k] = z[q[k]]
        BY <2>2, <2>4
      <4>2. kept \subseteq DOMAIN z
        BY <2>2, <2>4
      <4> QED BY <2>4, <4>1, <4>2 DEF IsThin, m
    <3>3. v = u
      BY <2>3, <2>5
    <3> QED BY <2>2, <3>1, <3>2, <3>3 DEF v, z
  <2>6. CASE n + 1 \notin places
    <3> DEFINE both == kept \cup {n + 1}
               r == [k \in 1..m + 1 |-> IF k = m + 1 THEN n + 1 ELSE q[k]]
    <3>1. DOMAIN z \ places = both
      BY <2>2, <2>6
    <3> HIDE DEF kept
    <3>2. /\ v \in Texts /\ Len(v) = m + 1 /\ v[m + 1] = e /\ \A k \in 1..m : v[k] = u[k]
      BY <2>3, <2>6, AppendProperties DEF Texts, m
    <3>3. /\ r[m + 1] = n + 1 /\ \A k \in 1..m : r[k] = q[k]
          /\ DOMAIN r = 1..m + 1
      BY <2>3
    <3>4. \A k \in 1..m + 1 : k = m + 1 \/ k \in 1..m
      BY <2>3
    <3> HIDE DEF r
    <3>5. r \in [1..m + 1 -> both]
      <4>1. \A k \in 1..m + 1 : r[k] \in both
        BY <2>4, <3>3, <3>4
      <4>2. r = [k \in 1..m + 1 |-> r[k]]
        BY <3>3 DEF r
      <4> QED BY <4>1, <4>2
    <3>6. ASSUME NEW k \in 1..m + 1, NEW l \in 1..m + 1, k < l PROVE r[k] < r[l]
      <4>1. k \in 1..m
        BY <2>3, <3>6
      <4>2. CASE l = m + 1
        BY <2>2, <2>4, <3>3, <4>1, <4>2
      <4>3. CASE l \in 1..m
        BY <2>4, <3>3, <3>6, <4>1, <4>3
      <4> QED BY <3>4, <4>2, <4>3
    <3>7. \A i \in both : \E k \in 1..m + 1 : r[k] = i
      <4>1. m + 1 \in 1..m + 1 /\ 1..m \subseteq 1..m + 1
        BY <2>3
      <4> QED BY <2>4, <3>3, <4>1
    <3>8. \A k \in 1..m + 1 : v[k] = z[r[k]]
      BY <2>2, <2>4, <3>2, <3>3, <3>4
    <3>9. both \subseteq DOMAIN z
      BY <2>2, <2>4
    <3> HIDE DEF both
    <3>10. IsThin(z, both, v, r)
      BY <3>2, <3>5, <3>6, <3>7, <3>8, <3>9 DEF IsThin
    <3> QED BY <2>2, <3>1, <3>10 DEF v, z
  <2> QED BY <2>5, <2>6
<1>3. Texts \subseteq T
  <2> HIDE DEF T
  <2> QED BY <1>1, <1>2, TextInduction
<1> QED BY <1>3

LEMMA ThinThin ==
    ASSUME NEW t \in Texts, NEW u \in Texts, NEW v \in Texts, NEW kept, NEW q, NEW left, NEW r,
           IsThin(t, kept, u, q), IsThin(u, left, v, r)
    PROVE  IsThin(t, {q[k] : k \in left}, v, [k \in 1..Len(v) |-> q[r[k]]])
<1> DEFINE range == {q[k] : k \in left}
           p == [k \in 1..Len(v) |-> q[r[k]]]
<1>1. DOMAIN u = 1..Len(u) /\ left \subseteq 1..Len(u)
  BY TokensAre DEF IsThin
<1>2. \A k \in 1..Len(v) : r[k] \in left /\ p[k] = q[r[k]] /\ p[k] \in range
  BY DEF IsThin
<1>3. range \subseteq kept /\ kept \subseteq DOMAIN t
  BY <1>1 DEF IsThin
<1>4. p \in [1..Len(v) -> range]
  BY <1>2
<1>5. ASSUME NEW k \in 1..Len(v), NEW l \in 1..Len(v), k < l PROVE p[k] < p[l]
  <2>1. r[k] \in 1..Len(u) /\ r[l] \in 1..Len(u) /\ r[k] < r[l]
    BY <1>1, <1>2, <1>5 DEF IsThin
  <2> QED BY <1>2, <2>1 DEF IsThin
<1>6. ASSUME NEW i \in range PROVE \E k \in 1..Len(v) : p[k] = i
  <2>1. PICK j \in left : i = q[j]
    OBVIOUS
  <2>2. PICK k \in 1..Len(v) : r[k] = j
    BY DEF IsThin
  <2> QED BY <1>2, <2>1, <2>2
<1>7. ASSUME NEW k \in 1..Len(v) PROVE v[k] = t[p[k]]
  <2>1. v[k] = u[r[k]] /\ r[k] \in 1..Len(u)
    BY <1>1, <1>2 DEF IsThin
  <2>2. u[r[k]] = t[q[r[k]]]
    BY <2>1 DEF IsThin
  <2> QED BY <1>2, <2>1, <2>2
<1> HIDE DEF p, range
<1> QED BY <1>3, <1>4, <1>5, <1>6, <1>7 DEF IsThin, p, range

\* A run of kept places is a run in what is left.
LEMMA ThinRun ==
    ASSUME NEW t \in Texts, NEW u \in Texts, NEW kept, NEW q, IsThin(t, kept, u, q),
           NEW k \in 1..Len(u), NEW m \in Nat, \A d \in 0..m : q[k] + d \in kept
    PROVE  \A d \in 0..m : k + d \in 1..Len(u) /\ q[k + d] = q[k] + d
<1> DEFINE T == {d \in Nat : d <= m => k + d \in 1..Len(u) /\ q[k + d] = q[k] + d}
<1>0. Len(u) \in Nat /\ \A j \in 1..Len(u) : q[j] \in Nat
  BY TokensAre DEF IsThin
<1>1. 0 \in T
  BY <1>0
<1>2. ASSUME NEW d \in Nat, d \in T PROVE d + 1 \in T
  <2> SUFFICES ASSUME d + 1 <= m
               PROVE  k + (d + 1) \in 1..Len(u) /\ q[k + (d + 1)] = q[k] + (d + 1)
    OBVIOUS
  <2>1. k + d \in 1..Len(u) /\ q[k + d] = q[k] + d
    BY <1>2
  <2>2. PICK j \in 1..Len(u) : q[j] = q[k] + (d + 1)
    <3>1. d + 1 \in 0..m
      OBVIOUS
    <3> QED BY <3>1 DEF IsThin
  <2> DEFINE a == k + d
  <2>3. a \in 1..Len(u) /\ q[a] \in Nat /\ q[j] \in Nat /\ q[j] = q[a] + 1
    BY <1>0, <2>1, <2>2
  <2>4. /\ j < a => q[j] < q[a]
        /\ a + 1 \in 1..Len(u) => q[a] < q[a + 1] /\ q[a + 1] \in Nat
        /\ a + 1 \in 1..Len(u) /\ a + 1 < j => q[a + 1] < q[j]
    BY <1>0, <2>3 DEF IsThin
  <2>5. j = a + 1
    BY <1>0, <2>3, <2>4
  <2> QED BY <2>2, <2>5
<1>3. Nat \subseteq T
  <2> HIDE DEF T
  <2> QED BY <1>1, <1>2, SetInduction
<1> QED BY <1>3

\* The places kept say all.
LEMMA ThinBegins ==
    ASSUME NEW t \in Texts, NEW u \in Texts, NEW v \in Texts, NEW kept, NEW q, NEW r,
           IsThin(t, kept, u, q), IsThin(t, kept, v, r)
    PROVE  Len(u) <= Len(v) /\ \A k \in 1..Len(u) : q[k] = r[k]
<1> DEFINE T == {n \in Nat : \A k \in 1..n : k <= Len(u) => k <= Len(v) /\ q[k] = r[k]}
<1>0. /\ Len(u) \in Nat /\ Len(v) \in Nat
      /\ \A j \in 1..Len(u) : q[j] \in kept /\ q[j] \in Nat
      /\ \A j \in 1..Len(v) : r[j] \in kept /\ r[j] \in Nat
  <2>1. kept \subseteq Nat
    <3>1. DOMAIN t = 1..Len(t) /\ Len(t) \in Nat
      BY TokensAre
    <3> QED BY <3>1 DEF IsThin
  <2>2. Len(u) \in Nat /\ Len(v) \in Nat
    BY TokensAre
  <2>3. \A j \in 1..Len(u) : q[j] \in kept
    BY DEF IsThin
  <2>4. \A j \in 1..Len(v) : r[j] \in kept
    BY DEF IsThin
  <2> QED BY <2>1, <2>2, <2>3, <2>4
<1>1. 0 \in T
  OBVIOUS
<1>2. ASSUME NEW n \in Nat, n \in T PROVE n + 1 \in T
  <2>0. ASSUME n + 1 <= Len(u) PROVE n + 1 <= Len(v) /\ q[n + 1] = r[n + 1]
    <3>1. n + 1 \in 1..Len(u) /\ \A k \in 1..n : k \in 1..Len(u) /\ k \in 1..Len(v) /\ q[k] = r[k]
      BY <1>0, <1>2, <2>0
    <3>2. PICK j \in 1..Len(v) : r[j] = q[n + 1]
      BY <1>0, <3>1 DEF IsThin
    <3>3. j > n
      <4> SUFFICES ASSUME j \in 1..n PROVE FALSE
        BY <1>0
      <4>1. q[j] = q[n + 1] /\ j \in 1..Len(u) /\ j < n + 1
        BY <3>1, <3>2
      <4>2. q[j] < q[n + 1]
        BY <3>1, <4>1 DEF IsThin
      <4> QED BY <1>0, <3>1, <4>1, <4>2
    <3>4. n + 1 \in 1..Len(v)
      BY <1>0, <3>2, <3>3
    <3>5. PICK i \in 1..Len(u) : q[i] = r[n + 1]
      BY <1>0, <3>4 DEF IsThin
    <3>6. i > n
      <4> SUFFICES ASSUME i \in 1..n PROVE FALSE
        BY <1>0
      <4>1. r[i] = r[n + 1] /\ i \in 1..Len(v) /\ i < n + 1
        BY <3>1, <3>5
      <4>2. r[i] < r[n + 1]
        BY <3>4, <4>1 DEF IsThin
      <4> QED BY <1>0, <3>4, <4>1, <4>2
    <3>7. r[n + 1] <= r[j]
      <4>1. CASE j = n + 1
        BY <1>0, <3>4, <4>1
      <4>2. CASE n + 1 < j
        <5>1. r[n + 1] < r[j]
          BY <3>4, <4>2 DEF IsThin
        <5> QED BY <1>0, <3>4, <5>1
      <4> QED BY <1>0, <3>3, <4>1, <4>2
    <3>8. q[n + 1] <= q[i]
      <4>1. CASE i = n + 1
        BY <1>0, <3>1, <4>1
      <4>2. CASE n + 1 < i
        <5>1. q[n + 1] < q[i]
          BY <3>1, <4>2 DEF IsThin
        <5> QED BY <1>0, <3>1, <5>1
      <4> QED BY <1>0, <3>6, <4>1, <4>2
    <3>9. q[n + 1] \in Nat /\ r[n + 1] \in Nat
      BY <1>0, <3>1, <3>4
    <3> QED BY <1>0, <3>2, <3>4, <3>5, <3>7, <3>8, <3>9
  <2>1. \A k \in 1..n + 1 : k \in 1..n \/ k = n + 1
    OBVIOUS
  <2> QED BY <1>2, <2>0, <2>1
<1>3. Nat \subseteq T
  <2> HIDE DEF T
  <2> QED BY <1>1, <1>2, SetInduction
<1>4. ASSUME NEW k \in 1..Len(u) PROVE k <= Len(v) /\ q[k] = r[k]
  <2>1. Len(u) \in T
    BY <1>0, <1>3
  <2> QED BY <1>0, <2>1
<1> QED BY <1>0, <1>4

LEMMA ThinUnique ==
    ASSUME NEW t \in Texts, NEW u \in Texts, NEW v \in Texts, NEW kept, NEW q, NEW r,
           IsThin(t, kept, u, q), IsThin(t, kept, v, r)
    PROVE  u = v
<1>1. /\ Len(u) <= Len(v) /\ \A k \in 1..Len(u) : q[k] = r[k]
      /\ Len(v) <= Len(u) /\ Len(u) \in Nat /\ Len(v) \in Nat
  BY ThinBegins, TokensAre
<1>2. Len(u) = Len(v) /\ \A k \in 1..Len(u) : u[k] = v[k]
  BY <1>1 DEF IsThin
<1> QED BY <1>2, SeqEqual DEF Texts

-----------------------------------------------------------------------------
\* A marker and where it ends.
IsMarker(text, i) == StartAt(text, i) \/ EndAt(text, i)
Reach(text, i) == IF StartAt(text, i) THEN Digits + 1 ELSE 1

LEMMA MarkerIs ==
    ASSUME NEW t \in Texts, NEW i, IsMarker(t, i)
    PROVE  /\ i \in 1..Len(t) /\ t[i] = Bar
           /\ Reach(t, i) \in Nat
           /\ \A d \in 1..Reach(t, i) : i + d \in 1..Len(t) /\ t[i + d] # Bar
           /\ StartAt(t, i) => ~EndAt(t, i) /\ Reach(t, i) = Digits + 1
           /\ EndAt(t, i) => ~StartAt(t, i) /\ Reach(t, i) = 1
<1>1. Len(t) \in Nat /\ Digits \in Nat
  BY TokensAre, KindsApart
<1>2. ~(StartAt(t, i) /\ EndAt(t, i))
  BY KindsApart DEF StartAt, EndAt
<1>3. CASE StartAt(t, i)
  <2>1. i \in 1..Len(t) - Digits - 1 /\ t[i] = Bar /\ Reach(t, i) = Digits + 1
    BY <1>3 DEF StartAt, Reach
  <2>2. ASSUME NEW d \in 1..Digits + 1 PROVE i + d \in 1..Len(t) /\ t[i + d] # Bar
    <3>1. i + d \in 1..Len(t)
      BY <1>1, <2>1
    <3>2. CASE d = 1
      BY <1>3, <3>1, <3>2, KindsApart DEF StartAt
    <3>3. CASE d # 1
      <4>1. d \in 2..Digits + 1
        BY <1>1, <3>3
      <4> QED BY <1>3, <3>1, <4>1, KindsApart DEF StartAt
    <3> QED BY <3>2, <3>3
  <2> QED BY <1>1, <1>2, <1>3, <2>1, <2>2
<1>4. CASE EndAt(t, i)
  <2>1. i \in 1..Len(t) - 1 /\ t[i] = Bar /\ t[i + 1] = LetterR /\ Reach(t, i) = 1
    BY <1>2, <1>4 DEF EndAt, Reach
  <2>2. ASSUME NEW d \in 1..1 PROVE i + d \in 1..Len(t) /\ t[i + d] # Bar
    BY <1>1, <2>1, KindsApart
  <2> QED BY <1>1, <1>2, <1>4, <2>1, <2>2
<1> QED BY <1>3, <1>4 DEF IsMarker

\* Markers do not overlap, as their bars are their beginnings.
LEMMA MarkersApart ==
    ASSUME NEW t \in Texts, NEW i, IsMarker(t, i), NEW j, IsMarker(t, j),
           NEW d \in 0..Reach(t, i), NEW e \in 0..Reach(t, j), i + d = j + e
    PROVE  i = j
<1>1. /\ i \in Nat /\ j \in Nat /\ t[i] = Bar /\ t[j] = Bar
      /\ Reach(t, i) \in Nat /\ Reach(t, j) \in Nat
      /\ \A x \in 1..Reach(t, i) : t[i + x] # Bar
      /\ \A x \in 1..Reach(t, j) : t[j + x] # Bar
  BY MarkerIs
<1>2. CASE i < j
  <2>1. d - e \in 1..Reach(t, i) /\ i + (d - e) = j
    BY <1>1, <1>2
  <2> QED BY <1>1, <2>1
<1>3. CASE j < i
  <2>1. e - d \in 1..Reach(t, j) /\ j + (e - d) = i
    BY <1>1, <1>3
  <2> QED BY <1>1, <2>1
<1> QED BY <1>1, <1>2, <1>3

\* A marker is taken out whole or stays whole.
LEMMA MarkerStays ==
    ASSUME NEW t \in Texts, NEW A, A \subseteq Starts(t), NEW B, B \subseteq Ends(t),
           NEW i, IsMarker(t, i), i \notin A, i \notin B
    PROVE  \A d \in 0..Reach(t, i) : i + d \in DOMAIN t \ Covered(A, B)
<1> SUFFICES ASSUME NEW d \in 0..Reach(t, i) PROVE i + d \in DOMAIN t \ Covered(A, B)
  OBVIOUS
<1>1. i + d \in DOMAIN t
  <2>1. /\ i \in 1..Len(t) /\ Reach(t, i) \in Nat /\ DOMAIN t = 1..Len(t) /\ Len(t) \in Nat
        /\ \A x \in 1..Reach(t, i) : i + x \in 1..Len(t)
    BY MarkerIs, TokensAre
  <2>2. CASE d = 0
    BY <2>1, <2>2
  <2>3. CASE d # 0
    <3>1. d \in 1..Reach(t, i)
      BY <2>1, <2>3
    <3> QED BY <2>1, <3>1
  <2> QED BY <2>2, <2>3
<1>2. ASSUME NEW a \in A, NEW e \in 0..Digits + 1, i + d = a + e PROVE FALSE
  <2>1. StartAt(t, a)
    BY DEF Starts
  <2>2. IsMarker(t, a) /\ Reach(t, a) = Digits + 1
    BY <2>1, MarkerIs DEF IsMarker
  <2>3. i = a
    BY <1>2, <2>2, MarkersApart
  <2> QED BY <2>3
<1>3. ASSUME NEW b \in B, NEW e \in 0..1, i + d = b + e PROVE FALSE
  <2>1. EndAt(t, b)
    BY DEF Ends
  <2>2. IsMarker(t, b) /\ Reach(t, b) = 1
    BY <2>1, MarkerIs DEF IsMarker
  <2>3. i = b
    BY <1>3, <2>2, MarkersApart
  <2> QED BY <2>3
<1>4. i + d \notin Covered(A, B)
  BY <1>2, <1>3, CoveredMeans
<1> QED BY <1>1, <1>4

-----------------------------------------------------------------------------
\* u is t without the markers at A and B.
Cleared(t, A, B, u, q) ==
    /\ A \subseteq Starts(t) /\ B \subseteq Ends(t) /\ u \in Texts
    /\ IsThin(t, DOMAIN t \ Covered(A, B), u, q)

\* Where every bar begins a marker, the markers of what is left are the ones that
\* were not taken out.
LEMMA MarkersStay ==
    ASSUME NEW t \in Texts, WellMarked(t), NEW A, NEW B, NEW u, NEW q, Cleared(t, A, B, u, q),
           NEW k \in 1..Len(u)
    PROVE  /\ StartAt(u, k) <=> StartAt(t, q[k])
           /\ EndAt(u, k) <=> EndAt(t, q[k])
           /\ IsMarker(u, k) => /\ Reach(u, k) = Reach(t, q[k])
                                /\ \A d \in 0..Reach(u, k) :
                                      k + d \in 1..Len(u) /\ q[k + d] = q[k] + d
<1> DEFINE kept == DOMAIN t \ Covered(A, B)
           i == q[k]
<1>0. /\ A \subseteq Starts(t) /\ B \subseteq Ends(t) /\ u \in Texts /\ IsThin(t, kept, u, q)
      /\ DOMAIN t = 1..Len(t) /\ Len(t) \in Nat /\ Len(u) \in Nat /\ Digits \in Nat
  BY TokensAre, KindsApart DEF Cleared
<1>1. i \in kept /\ \A l \in 1..Len(u) : u[l] = t[q[l]]
  BY <1>0 DEF IsThin
<1>2. CASE u[k] # Bar
  <2>1. t[i] # Bar
    BY <1>1, <1>2
  <2> QED BY <1>2, <2>1 DEF StartAt, EndAt, IsMarker
<1>3. CASE u[k] = Bar
  <2>1. IsMarker(t, i)
    <3>1. t[i] = Bar /\ i \in DOMAIN t
      BY <1>1, <1>3
    <3> QED BY <3>1 DEF WellMarked, IsMarker
  <2> DEFINE m == Reach(t, i)
  <2>2. /\ m \in Nat /\ i \in Nat
        /\ StartAt(t, i) => ~EndAt(t, i) /\ m = Digits + 1
        /\ EndAt(t, i) => ~StartAt(t, i) /\ m = 1
    BY <2>1, MarkerIs
  <2>3. i \notin A /\ i \notin B
    <3>1. i + 0 = i /\ 0 \in 0..Digits + 1 /\ 0 \in 0..1
      BY <1>0, <2>2
    <3>2. i \notin Covered(A, B)
      BY <1>1
    <3> HIDE DEF i
    <3> QED BY <3>1, <3>2, CoveredMeans
  <2>4. \A d \in 0..m : i + d \in kept
    BY <1>0, <2>1, <2>3, MarkerStays
  <2> HIDE DEF m, kept
  <2>5. \A d \in 0..m : k + d \in 1..Len(u) /\ q[k + d] = q[k] + d
    <3>1. /\ t \in Texts /\ u \in Texts /\ IsThin(t, kept, u, q)
          /\ k \in 1..Len(u) /\ m \in Nat /\ \A d \in 0..m : q[k] + d \in kept
      BY <1>0, <2>2, <2>4
    <3> HIDE DEF i
    <3> QED BY <3>1, ThinRun
  <2>6. \A d \in 0..m : k + d \in 1..Len(u) /\ u[k + d] = t[i + d]
    BY <1>1, <2>5
  <2> HIDE DEF i
  <2>7. CASE StartAt(t, i)
    <3>1. m = Digits + 1 /\ 1 \in 0..m
      BY <1>0, <2>2, <2>7
    <3>2. t[i + 1] = LetterC /\ \A d \in 2..Digits + 1 : t[i + d] \in HexDigits
      BY <2>7 DEF StartAt
    <3>3. u[k + 1] = LetterC
      BY <2>6, <3>1, <3>2
    <3>4. \A d \in 2..Digits + 1 : u[k + d] \in HexDigits
      <4>1. \A d \in 2..Digits + 1 : d \in 0..m
        BY <3>1
      <4> QED BY <2>6, <3>2, <4>1
    <3>5. k \in 1..Len(u) - Digits - 1
      <4>1. k + (Digits + 1) \in 1..Len(u)
        BY <1>0, <2>5, <3>1
      <4> QED BY <1>0, <4>1
    <3>6. StartAt(u, k)
      BY <1>3, <3>3, <3>4, <3>5 DEF StartAt
    <3>7. ~EndAt(u, k)
      BY <3>3, KindsApart DEF EndAt
    <3>8. Reach(u, k) = m
      BY <3>1, <3>6 DEF Reach
    <3> QED BY <2>2, <2>5, <2>7, <3>6, <3>7, <3>8 DEF i, m
  <2>8. CASE EndAt(t, i)
    <3>1. m = 1 /\ 1 \in 0..m
      BY <2>2, <2>8
    <3>2. t[i + 1] = LetterR
      BY <2>8 DEF EndAt
    <3>3. u[k + 1] = LetterR
      BY <2>6, <3>1, <3>2
    <3>4. k \in 1..Len(u) - 1
      <4>1. k + 1 \in 1..Len(u)
        BY <2>5, <3>1
      <4> QED BY <1>0, <4>1
    <3>5. EndAt(u, k)
      BY <1>3, <3>3, <3>4 DEF EndAt
    <3>6. ~StartAt(u, k)
      BY <3>3, KindsApart DEF StartAt
    <3>7. Reach(u, k) = m
      BY <3>1, <3>6 DEF Reach
    <3> QED BY <2>2, <2>5, <2>8, <3>5, <3>6, <3>7 DEF i, m
  <2> QED BY <2>1, <2>7, <2>8 DEF IsMarker
<1> QED BY <1>2, <1>3

\* Taking out more markers of what is left.
LEMMA PassClears ==
    ASSUME NEW t \in Texts, WellMarked(t), NEW A, NEW B, NEW u, NEW q, Cleared(t, A, B, u, q),
           NEW C, C \subseteq Starts(u), NEW E, E \subseteq Ends(u)
    PROVE  \E A2, B2, r :
              /\ Cleared(t, A2, B2, Without(u, Covered(C, E)), r)
              /\ A \subseteq A2 /\ (C = Starts(u) => A2 = Starts(t))
              /\ B \subseteq B2 /\ (E = Ends(u) => B2 = Ends(t))
<1> DEFINE A2 == A \cup {q[k] : k \in C}
           B2 == B \cup {q[k] : k \in E}
           kept == DOMAIN t \ Covered(A, B)
           left == DOMAIN u \ Covered(C, E)
           v == Without(u, Covered(C, E))
<1>0. /\ A \subseteq Starts(t) /\ B \subseteq Ends(t) /\ u \in Texts /\ IsThin(t, kept, u, q)
      /\ DOMAIN t = 1..Len(t) /\ DOMAIN u = 1..Len(u) /\ Len(u) \in Nat /\ Digits \in Nat
      /\ v \in Texts
  <2>1. u \in Texts
    BY DEF Cleared
  <2> QED BY <2>1, TokensAre, KindsApart, WithoutIs DEF Cleared
<1>1. /\ \A k \in 1..Len(u) : q[k] \in kept /\ q[k] \in Nat
      /\ \A k, l \in 1..Len(u) : q[k] = q[l] => k = l
      /\ \A i \in kept : \E k \in 1..Len(u) : q[k] = i
  <2>1. \A k \in 1..Len(u) : q[k] \in kept /\ q[k] \in Nat
    BY <1>0 DEF IsThin
  <2>2. ASSUME NEW k \in 1..Len(u), NEW l \in 1..Len(u), q[k] = q[l] PROVE k = l
    <3>1. (k < l => q[k] < q[l]) /\ (l < k => q[l] < q[k])
      BY <1>0 DEF IsThin
    <3> QED BY <2>1, <2>2, <3>1
  <2>3. \A i \in kept : \E k \in 1..Len(u) : q[k] = i
    BY <1>0 DEF IsThin
  <2> QED BY <2>1, <2>2, <2>3
<1>2. \A k \in C : /\ k \in 1..Len(u) /\ StartAt(u, k) /\ StartAt(t, q[k])
                   /\ \A d \in 0..Digits + 1 : k + d \in 1..Len(u) /\ q[k + d] = q[k] + d
  <2> SUFFICES ASSUME NEW k \in C
               PROVE  /\ k \in 1..Len(u) /\ StartAt(u, k) /\ StartAt(t, q[k])
                      /\ \A d \in 0..Digits + 1 : k + d \in 1..Len(u) /\ q[k + d] = q[k] + d
    OBVIOUS
  <2>1. k \in 1..Len(u) /\ StartAt(u, k)
    BY <1>0 DEF Starts
  <2>2. IsMarker(u, k) /\ Reach(u, k) = Digits + 1
    BY <2>1 DEF IsMarker, Reach
  <2> QED BY <2>1, <2>2, MarkersStay
<1>3. \A k \in E : /\ k \in 1..Len(u) /\ EndAt(u, k) /\ EndAt(t, q[k])
                   /\ \A d \in 0..1 : k + d \in 1..Len(u) /\ q[k + d] = q[k] + d
  <2> SUFFICES ASSUME NEW k \in E
               PROVE  /\ k \in 1..Len(u) /\ EndAt(u, k) /\ EndAt(t, q[k])
                      /\ \A d \in 0..1 : k + d \in 1..Len(u) /\ q[k + d] = q[k] + d
    OBVIOUS
  <2>1. k \in 1..Len(u) /\ EndAt(u, k)
    BY <1>0 DEF Ends
  <2>2. IsMarker(u, k)
    BY <2>1 DEF IsMarker
  <2>3. Reach(u, k) = 1
    BY <1>0, <2>1, <2>2, MarkerIs
  <2> QED BY <2>1, <2>2, <2>3, MarkersStay
<1>4. A2 \subseteq Starts(t) /\ B2 \subseteq Ends(t)
  <2>1. \A k \in C : q[k] \in Starts(t)
    BY <1>0, <1>1, <1>2 DEF Starts
  <2>2. \A k \in E : q[k] \in Ends(t)
    BY <1>0, <1>1, <1>3 DEF Ends
  <2> QED BY <1>0, <2>1, <2>2
<1>5. ASSUME NEW k \in 1..Len(u) PROVE q[k] \in Covered(A2, B2) <=> k \in Covered(C, E)
  <2>1. ASSUME NEW c \in C, NEW d \in 0..Digits + 1, k = c + d PROVE q[k] \in Covered(A2, B2)
    <3>1. q[k] = q[c] + d /\ q[c] \in A2
      BY <1>2, <2>1
    <3> HIDE DEF A2, B2
    <3> QED BY <3>1, CoveredMeans
  <2>2. ASSUME NEW c \in E, NEW d \in 0..1, k = c + d PROVE q[k] \in Covered(A2, B2)
    <3>1. q[k] = q[c] + d /\ q[c] \in B2
      BY <1>3, <2>2
    <3> HIDE DEF A2, B2
    <3> QED BY <3>1, CoveredMeans
  <2>3. q[k] \notin Covered(A, B)
    BY <1>1
  <2>4. ASSUME NEW a \in A2, NEW d \in 0..Digits + 1, q[k] = a + d PROVE k \in Covered(C, E)
    <3>1. a \notin A
      BY <2>3, <2>4, CoveredMeans
    <3>2. PICK c \in C : a = q[c]
      BY <3>1
    <3>3. c + d \in 1..Len(u) /\ q[c + d] = q[k]
      BY <1>2, <2>4, <3>2
    <3>4. k = c + d
      BY <1>1, <3>3
    <3> QED BY <3>4, CoveredMeans
  <2>5. ASSUME NEW b \in B2, NEW d \in 0..1, q[k] = b + d PROVE k \in Covered(C, E)
    <3>1. b \notin B
      BY <2>3, <2>5, CoveredMeans
    <3>2. PICK c \in E : b = q[c]
      BY <3>1
    <3>3. c + d \in 1..Len(u) /\ q[c + d] = q[k]
      BY <1>3, <2>5, <3>2
    <3>4. k = c + d
      BY <1>1, <3>3
    <3> QED BY <3>4, CoveredMeans
  <2> HIDE DEF A2, B2
  <2>6. k \in Covered(C, E) => q[k] \in Covered(A2, B2)
    BY <2>1, <2>2, CoveredMeans
  <2>7. q[k] \in Covered(A2, B2) => k \in Covered(C, E)
    BY <2>4, <2>5, CoveredMeans
  <2> QED BY <2>6, <2>7
<1>6. \A i \in Covered(A, B) : i \in Covered(A2, B2)
  <2>1. A \subseteq A2 /\ B \subseteq B2
    OBVIOUS
  <2> HIDE DEF A2, B2
  <2> QED BY <2>1, CoveredMeans
<1>7. {q[k] : k \in left} = DOMAIN t \ Covered(A2, B2)
  <2> HIDE DEF A2, B2
  <2>1. ASSUME NEW k \in left PROVE q[k] \in DOMAIN t \ Covered(A2, B2)
    <3>1. k \in 1..Len(u) /\ k \notin Covered(C, E)
      BY <1>0
    <3> QED BY <1>1, <1>5, <3>1
  <2>2. ASSUME NEW i \in DOMAIN t \ Covered(A2, B2) PROVE i \in {q[k] : k \in left}
    <3>1. i \in kept
      BY <1>6
    <3>2. PICK k \in 1..Len(u) : q[k] = i
      BY <1>1, <3>1
    <3>3. k \in left
      BY <1>0, <1>5, <2>2, <3>2
    <3> HIDE DEF left
    <3> QED BY <3>2, <3>3
  <2> HIDE DEF left
  <2> QED BY <2>1, <2>2
<1>8. \E r : Cleared(t, A2, B2, v, r)
  <2>1. PICK s : IsThin(u, left, v, s)
    BY <1>0, ThinExists
  <2> HIDE DEF left, v, kept, A2, B2
  <2>2. IsThin(t, {q[k] : k \in left}, v, [k \in 1..Len(v) |-> q[s[k]]])
    BY <1>0, <2>1, ThinThin
  <2> QED BY <1>0, <1>4, <1>7, <2>2 DEF Cleared
<1>9. ASSUME NEW i, IsMarker(t, i), i \notin A, i \notin B
      PROVE  \E k \in 1..Len(u) : q[k] = i /\ (StartAt(u, k) <=> StartAt(t, i))
                                  /\ (EndAt(u, k) <=> EndAt(t, i))
  <2>1. i + 0 \in kept /\ i + 0 = i
    <3>1. Reach(t, i) \in Nat /\ i \in 1..Len(t)
      BY <1>9, MarkerIs
    <3>2. 0 \in 0..Reach(t, i) /\ i + 0 = i
      BY <3>1, TokensAre
    <3>3. \A d \in 0..Reach(t, i) : i + d \in kept
      BY <1>0, <1>9, MarkerStays
    <3> QED BY <3>2, <3>3
  <2> HIDE DEF kept
  <2>2. PICK k \in 1..Len(u) : q[k] = i
    BY <1>1, <2>1
  <2> QED BY <2>2, MarkersStay
<1>10. ASSUME C = Starts(u) PROVE A2 = Starts(t)
  <2> SUFFICES ASSUME NEW i \in Starts(t), i \notin A PROVE i \in A2
    BY <1>4
  <2>1. StartAt(t, i) /\ IsMarker(t, i) /\ i \notin B
    <3>1. StartAt(t, i) /\ IsMarker(t, i)
      BY DEF Starts, IsMarker
    <3>2. ~EndAt(t, i)
      BY <3>1, MarkerIs
    <3> QED BY <1>0, <3>1, <3>2 DEF Ends
  <2>2. PICK k \in 1..Len(u) : q[k] = i /\ StartAt(u, k)
    BY <1>9, <2>1
  <2>3. k \in C
    BY <1>0, <1>10, <2>2 DEF Starts
  <2> QED BY <2>2, <2>3
<1>11. ASSUME E = Ends(u) PROVE B2 = Ends(t)
  <2> SUFFICES ASSUME NEW i \in Ends(t), i \notin B PROVE i \in B2
    BY <1>4
  <2>1. EndAt(t, i) /\ IsMarker(t, i) /\ i \notin A
    <3>1. EndAt(t, i) /\ IsMarker(t, i)
      BY DEF Ends, IsMarker
    <3>2. ~StartAt(t, i)
      BY <3>1, MarkerIs
    <3> QED BY <1>0, <3>1, <3>2 DEF Starts
  <2>2. PICK k \in 1..Len(u) : q[k] = i /\ EndAt(u, k)
    BY <1>9, <2>1
  <2>3. k \in E
    BY <1>0, <1>11, <2>2 DEF Ends
  <2> QED BY <2>2, <2>3
<1>12. A \subseteq A2 /\ B \subseteq B2
  OBVIOUS
<1> HIDE DEF v, A2, B2
<1> QED BY <1>8, <1>10, <1>11, <1>12 DEF v

-----------------------------------------------------------------------------
\* A message whose bars all begin markers is left without its markers, and with
\* everything else.
LEMMA CleanIsUncoloured ==
    ASSUME NEW text \in Texts, WellMarked(text)
    PROVE  CleanMessage(text) = Uncoloured(text) /\ Bar \notin ToSet(CleanMessage(text))
<1> DEFINE t == Shown(text)
           resolved == resolve_links(text)
           unwrapped == Unwrapped(resolved)
           started == WithoutStarts(unwrapped)
           clean == CleanMessage(text)
           gone == Covered(Starts(text), Ends(text))
<1>0. /\ t \in Texts /\ DOMAIN t = DOMAIN text /\ DOMAIN text = 1..Len(text) /\ Len(t) = Len(text)
      /\ Len(text) \in Nat /\ Digits \in Nat
      /\ resolved \in Texts /\ unwrapped \in Texts /\ started \in Texts /\ clean \in Texts
      /\ clean = WithoutEnds(started) /\ resolved = Without(t, Around(text))
  <2>1. t \in Texts /\ DOMAIN t = DOMAIN text /\ resolved = Without(t, Around(text))
    BY ShownIs
  <2>2. DOMAIN text = 1..Len(text) /\ DOMAIN t = 1..Len(t) /\ Len(text) \in Nat /\ Len(t) \in Nat
    <3> HIDE DEF t
    <3> QED BY <2>1, TokensAre
  <2>3. Len(t) = Len(text)
    <3> HIDE DEF t
    <3> QED BY <2>1, <2>2
  <2>4. /\ resolved \in Texts /\ unwrapped \in Texts /\ started \in Texts /\ clean \in Texts
        /\ clean = WithoutEnds(started)
    BY CleanIs
  <2> HIDE DEF t, resolved, unwrapped, started, clean
  <2> QED BY <2>1, <2>2, <2>3, <2>4, KindsApart
<1>1. ASSUME NEW i \in DOMAIN text
      PROVE  /\ t[i] = IF LinkAt(text, i) THEN Rendered(text[i]) ELSE text[i]
             /\ t[i] \in MarkerChars \/ text[i] \in MarkerChars => t[i] = text[i]
  <2>1. t[i] = IF LinkAt(text, i) THEN Rendered(text[i]) ELSE text[i]
    BY DEF Shown
  <2>2. LinkAt(text, i) => text[i] \in Links /\ Rendered(text[i]) \in RenderedLinks
    BY DEF LinkAt, RenderedLinks
  <2> HIDE DEF t
  <2> QED BY <2>1, <2>2, KindsApart
<1> HIDE DEF t
<1>2. \A i \in DOMAIN text : \A x \in MarkerChars : t[i] = x <=> text[i] = x
  BY <1>1
<1>3. Bar \in MarkerChars /\ LetterC \in MarkerChars /\ LetterR \in MarkerChars /\ HexDigits \subseteq MarkerChars
  BY KindsApart DEF MarkerChars
<1>4. ASSUME NEW i PROVE (StartAt(t, i) <=> StartAt(text, i)) /\ (EndAt(t, i) <=> EndAt(text, i))
  <2>1. ASSUME i \in 1..Len(text) - Digits - 1 PROVE StartAt(t, i) <=> StartAt(text, i)
    <3>1. \A d \in 0..Digits + 1 : i + d \in DOMAIN text
      BY <1>0, <2>1
    <3>2. i \in DOMAIN text /\ i + 1 \in DOMAIN text /\ \A d \in 2..Digits + 1 : i + d \in DOMAIN text
      BY <1>0, <2>1, <3>1
    <3>3. t[i] = Bar <=> text[i] = Bar
      BY <1>2, <1>3, <3>2
    <3>4. t[i + 1] = LetterC <=> text[i + 1] = LetterC
      BY <1>2, <1>3, <3>2
    <3>5. \A d \in 2..Digits + 1 : t[i + d] \in HexDigits <=> text[i + d] \in HexDigits
      BY <1>1, <1>3, <3>2
    <3> QED BY <1>0, <2>1, <3>3, <3>4, <3>5 DEF StartAt
  <2>2. ASSUME i \in 1..Len(text) - 1 PROVE EndAt(t, i) <=> EndAt(text, i)
    <3>1. i \in DOMAIN text /\ i + 1 \in DOMAIN text
      BY <1>0, <2>2
    <3> QED BY <1>0, <1>2, <1>3, <2>2, <3>1 DEF EndAt
  <2>3. i \notin 1..Len(text) - Digits - 1 => ~StartAt(t, i) /\ ~StartAt(text, i)
    BY <1>0 DEF StartAt
  <2>4. i \notin 1..Len(text) - 1 => ~EndAt(t, i) /\ ~EndAt(text, i)
    BY <1>0 DEF EndAt
  <2> QED BY <2>1, <2>2, <2>3, <2>4
<1>5. Starts(t) = Starts(text) /\ Ends(t) = Ends(text)
  BY <1>0, <1>4 DEF Starts, Ends
<1>6. WellMarked(t)
  <2>1. \A i \in DOMAIN t : t[i] = Bar => text[i] = Bar
    BY <1>0, <1>2, <1>3
  <2> QED BY <1>0, <1>4, <2>1 DEF WellMarked
<1> HIDE DEF clean, started, unwrapped, resolved
<1>7. \E q : Cleared(t, LinkStarts(text), LinkEnds(text), resolved, q)
  <2>1. PICK q : IsThin(t, DOMAIN t \ Around(text), resolved, q)
    BY <1>0, ThinExists
  <2>2. LinkStarts(text) \subseteq Starts(t) /\ LinkEnds(text) \subseteq Ends(t)
    BY <1>5, ShownIs
  <2> QED BY <1>0, <2>1, <2>2 DEF Cleared, Around
<1>8. \E A, B, q : Cleared(t, A, B, unwrapped, q)
  <2>1. PICK q : Cleared(t, LinkStarts(text), LinkEnds(text), resolved, q)
    BY <1>7
  <2> DEFINE C == SpanStarts(resolved)
             E == SpanEnds(resolved)
  <2>2. C \subseteq Starts(resolved) /\ E \subseteq Ends(resolved)
    BY DEF SpanStarts, SpanEnds
  <2>3. unwrapped = Without(resolved, Covered(C, E))
    BY DEF unwrapped, Unwrapped
  <2> HIDE DEF C, E
  <2> QED BY <1>0, <1>6, <2>1, <2>2, <2>3, PassClears
<1>9. \E B, q : Cleared(t, Starts(t), B, started, q)
  <2>1. PICK A, B, q : Cleared(t, A, B, unwrapped, q)
    BY <1>8
  <2> DEFINE C == Starts(unwrapped)
             E == {}
  <2>2. C \subseteq Starts(unwrapped) /\ E \subseteq Ends(unwrapped) /\ C = Starts(unwrapped)
    OBVIOUS
  <2>3. started = Without(unwrapped, Covered(C, E))
    BY DEF started, WithoutStarts
  <2> HIDE DEF C, E
  <2> QED BY <1>0, <1>6, <2>1, <2>2, <2>3, PassClears
<1>10. \E q : Cleared(t, Starts(t), Ends(t), clean, q)
  <2>1. PICK B, q : Cleared(t, Starts(t), B, started, q)
    BY <1>9
  <2> DEFINE C == {}
             E == Ends(started)
  <2>2. C \subseteq Starts(started) /\ E \subseteq Ends(started) /\ E = Ends(started)
    OBVIOUS
  <2>3. clean = Without(started, Covered(C, E))
    BY <1>0 DEF WithoutEnds
  <2> HIDE DEF C, E
  <2>4. PICK A2, B2, r : Cleared(t, A2, B2, clean, r) /\ Starts(t) \subseteq A2 /\ B2 = Ends(t)
    BY <1>0, <1>6, <2>1, <2>2, <2>3, PassClears
  <2>5. A2 = Starts(t)
    BY <2>4 DEF Cleared
  <2> QED BY <2>4, <2>5
<1>11. Uncoloured(text) = Without(t, gone)
  <2>1. ASSUME NEW i \in DOMAIN text, LinkAt(text, i) PROVE i \notin gone
    <3>1. text[i] \notin MarkerChars
      BY <2>1, KindsApart DEF LinkAt
    <3> QED BY <3>1, CoveredAre
  <2> HIDE DEF gone
  <2>2. \A i \in DOMAIN text :
           (IF LinkAt(text, i) THEN <<Rendered(text[i])>> ELSE IF i \in gone THEN <<>> ELSE <<text[i]>>)
           = IF i \in gone THEN <<>> ELSE <<t[i]>>
    BY <1>1, <2>1
  <2> QED BY <1>0, <2>2, Zenon DEF Uncoloured, Without, gone
<1>12. clean = Uncoloured(text)
  <2>1. PICK q : Cleared(t, Starts(t), Ends(t), clean, q)
    BY <1>10
  <2>2. IsThin(t, DOMAIN t \ gone, clean, q)
    BY <1>5, <2>1 DEF Cleared
  <2> HIDE DEF gone
  <2>3. PICK r : IsThin(t, DOMAIN t \ gone, Without(t, gone), r)
    BY <1>0, ThinExists
  <2>4. Without(t, gone) \in Texts
    BY <1>0, WithoutIs
  <2> QED BY <1>0, <1>11, <2>2, <2>3, <2>4, ThinUnique
<1>13. Bar \notin ToSet(clean)
  <2> SUFFICES ASSUME Bar \in ToSet(clean) PROVE FALSE
    OBVIOUS
  <2> HIDE DEF gone
  <2>1. PICK i \in DOMAIN t : i \notin gone /\ Bar = t[i]
    BY <1>0, <1>11, <1>12, WithoutIs
  <2>2. i \in Starts(text) \/ i \in Ends(text)
    BY <1>5, <1>6, <2>1 DEF WellMarked, Starts, Ends
  <2>3. i + 0 = i /\ 0 \in 0..Digits + 1 /\ 0 \in 0..1
    BY <1>0, <2>1
  <2>4. i \in gone
    BY <2>2, <2>3, CoveredMeans DEF gone
  <2> QED BY <2>1, <2>4
<1> QED BY <1>12, <1>13 DEF clean

LEMMA MarkersHere == IInv => MarkersGo
<1> SUFFICES ASSUME IInv, NEW m \in PostedTo, WellMarked(Said)
             PROVE  CleanMessage(Said) = Uncoloured(Said) /\ Bar \notin ToSet(posted[m])
  BY DEF MarkersGo
<1>1. Relayable /\ Relayed \in Texts
  BY PostIsWording
<1>2. Said \in Texts
  BY <1>1, SaidIs
<1>3. CleanMessage(Said) = Uncoloured(Said) /\ Bar \notin ToSet(CleanMessage(Said))
  BY <1>2, CleanIsUncoloured
<1>4. Bar \notin ToSet(Relayed)
  <2> SUFFICES ASSUME Bar \in ToSet(Relayed) PROVE FALSE
    OBVIOUS
  <2>1. PICK t \in ToSet(CleanMessage(Said)) : Bar = PingOf(t)
    BY <1>1, RelayedIs
  <2>2. t \in Nat /\ t # Bar
    BY <1>1, <1>3, <2>1, RelayedIs, TokensAre
  <2>3. Bar \in Pinging
    BY <2>1, <2>2, PingIs, MentionsPing
  <2> QED BY <2>3, KindsApart
<1>5. Bar \notin ToSet(posted[m])
  <2>1. Bar \in Strange
    BY DEF Strange
  <2> QED BY <1>4, <2>1, StrangeTokens
<1> QED BY <1>3, <1>5

\* However a message is coloured, nested or cut between two markers, the passes
\* take out exactly its markers if its bars are all markers', and no post has one
\* (resolver.py:41-46).
THEOREM MarkersAreGone == ChatSpec => []MarkersGo
<1> QED BY IInvHolds, MarkersHere, PTL

-----------------------------------------------------------------------------
\* What is left of a packet, and what was made of it.
Left(b) == SubSeq(b, 1, packet.size)

LEMMA LeftIs ==
    ASSUME NEW b \in Texts, packet.size \in 0..Len(b)
    PROVE  IsCut(Left(b), b) /\ Len(Left(b)) = packet.size /\ packet.size \in Nat /\ Len(b) \in Nat
BY CutIs, LenProperties DEF Left, Texts

LEMMA ListsReceived ==
    ASSUME IInv
    PROVE  LET sent == packet.content
           IN  /\ Is("who") => LET b == WhoBody(sent)
                               IN  /\ sent \in WhoLists /\ handed = decode_who_response(Left(b))
                                   /\ IsCut(Left(b), b) /\ Len(Left(b)) = packet.size
                                   /\ packet.size \in Nat /\ Len(b) \in Nat /\ Len(b) >= 8
               /\ Is("roster") => LET b == RosterBody(sent)
                                  IN  /\ sent \in Rosters /\ handed = decode_guild_roster(Left(b))
                                      /\ IsCut(Left(b), b) /\ Len(Left(b)) = packet.size
               /\ Is("event") => LET b == EventBody(sent)
                                 IN  /\ sent \in Events /\ handed = decode_guild_event(Left(b))
                                     /\ IsCut(Left(b), b) /\ Len(Left(b)) = packet.size
                                     /\ packet.size \in Nat /\ Len(b) \in Nat /\ Len(b) >= 2
               /\ Is("characters") => LET b == CharacterBody(sent)
                                      IN  /\ sent \in CharacterLists
                                          /\ handed = request_characters(Left(b))
                                          /\ IsCut(Left(b), b) /\ Len(Left(b)) = packet.size
<1> DEFINE sent == packet.content
<1>0. Received /\ Decoded
  BY DEF IInv
<1>1. ASSUME Is("who")
      PROVE  LET b == WhoBody(sent)
             IN  /\ sent \in WhoLists /\ handed = decode_who_response(Left(b))
                 /\ IsCut(Left(b), b) /\ Len(Left(b)) = packet.size
                 /\ packet.size \in Nat /\ Len(b) \in Nat /\ Len(b) >= 8
  <2> DEFINE b == WhoBody(sent)
             t == Subst(sent, WhoCode)
  <2>1. sent \in WhoLists /\ packet.size \in 0..Len(b) /\ handed = decode_who_response(Left(b))
    BY <1>0, <1>1 DEF Received, Decoded, Is, Left
  <2>2. b \in Texts /\ Len(b) = 8 + Len(t) /\ t \in Texts
    <3>1. sent \in Seq(PlayerEntries)
      BY <2>1, ListAssumption
    <3> QED BY <3>1, WhoLayout, CodesAre, CodeIs
  <2>3. Len(t) \in Nat
    BY <2>2, LenProperties DEF Texts
  <2> HIDE DEF b, t
  <2>4. IsCut(Left(b), b) /\ Len(Left(b)) = packet.size /\ packet.size \in Nat /\ Len(b) \in Nat
    BY <2>1, <2>2, LeftIs
  <2>5. Len(b) >= 8
    BY <2>2, <2>3
  <2> QED BY <2>1, <2>4, <2>5 DEF b
<1>2. ASSUME Is("roster")
      PROVE  LET b == RosterBody(sent)
             IN  /\ sent \in Rosters /\ handed = decode_guild_roster(Left(b))
                 /\ IsCut(Left(b), b) /\ Len(Left(b)) = packet.size
  <2> DEFINE b == RosterBody(sent)
  <2>1. sent \in Rosters /\ packet.size \in 0..Len(b) /\ handed = decode_guild_roster(Left(b))
    BY <1>0, <1>2 DEF Received, Decoded, Is, Left
  <2>2. b \in Texts
    BY <2>1, RosterLayout
  <2> HIDE DEF b
  <2> QED BY <2>1, <2>2, LeftIs DEF b
<1>3. ASSUME Is("event")
      PROVE  LET b == EventBody(sent)
             IN  /\ sent \in Events /\ handed = decode_guild_event(Left(b))
                 /\ IsCut(Left(b), b) /\ Len(Left(b)) = packet.size
                 /\ packet.size \in Nat /\ Len(b) \in Nat /\ Len(b) >= 2
  <2> DEFINE b == EventBody(sent)
             t == Subst(Entried(sent.strings), EventCode)
  <2>1. sent \in Events /\ packet.size \in 0..Len(b) /\ handed = decode_guild_event(Left(b))
    BY <1>0, <1>3 DEF Received, Decoded, Is, Left
  <2>2. b \in Texts /\ Len(b) = 2 + Len(t) /\ t \in Texts
    <3>1. sent \in [type : Nat, strings : Seq(Strings)] /\ sent.strings \in Seq(Strings)
      BY <2>1, ListAssumption
    <3>2. Entried(sent.strings) \in Seq(EventEntries)
      BY <3>1, EntriedIs
    <3> QED BY <3>1, <3>2, EventLayout, CodesAre, CodeIs
  <2>3. Len(t) \in Nat
    BY <2>2, LenProperties DEF Texts
  <2> HIDE DEF b, t
  <2>4. IsCut(Left(b), b) /\ Len(Left(b)) = packet.size /\ packet.size \in Nat /\ Len(b) \in Nat
    BY <2>1, <2>2, LeftIs
  <2>5. Len(b) >= 2
    BY <2>2, <2>3
  <2> QED BY <2>1, <2>4, <2>5 DEF b
<1>4. ASSUME Is("characters")
      PROVE  LET b == CharacterBody(sent)
             IN  /\ sent \in CharacterLists /\ handed = request_characters(Left(b))
                 /\ IsCut(Left(b), b) /\ Len(Left(b)) = packet.size
  <2> DEFINE b == CharacterBody(sent)
  <2>1. sent \in CharacterLists /\ packet.size \in 0..Len(b) /\ handed = request_characters(Left(b))
    BY <1>0, <1>4 DEF Received, Decoded, Is, Left
  <2>2. b \in Texts
    BY <2>1, ListAssumption, CharactersLayout
  <2> HIDE DEF b
  <2> QED BY <2>1, <2>2, LeftIs DEF b
<1> QED BY <1>1, <1>2, <1>3, <1>4

LEMMA ChatUnderstood ==
    ASSUME IInv, Is("chat"), packet.size = Len(ChatBody(packet.content))
    PROVE  handed = Gave(packet.content)
<1> DEFINE c == packet.content
           b == ChatBody(c)
           d == Left(b)
           m == Len(InChannel(c))
           k == 29 + m
           n == Len(c.text)
           a == Len(c.achievement)
<1>1. /\ c \in Chats /\ packet.size \in 0..Len(b) /\ packet.size = Len(b)
      /\ handed = decode_messagechat(d)
  BY DEF IInv, Received, Decoded, Is, Left
<1>2. /\ b \in Texts /\ Len(b) = 31 + m + n + a /\ At(b, k, c.text)
      /\ c.text \in Texts /\ n \in Nat /\ m \in Nat /\ a \in Nat
  BY <1>1, ChatLayout, ChatParts, LenProperties DEF Texts
<1> HIDE DEF b, m, n, a
<1>3. IsCut(d, b) /\ Len(d) = Len(b) /\ Len(d) \in Nat
  BY <1>1, <1>2, LeftIs
<1> HIDE DEF d
<1>4. k \in Nat /\ ~(Len(d) < k) /\ k + n <= Len(d) /\ k + n \in Nat
  BY <1>2, <1>3
<1> HIDE DEF k
<1>5. PICK earned \in {<<>>, c.achievement} :
         /\ handed = Gave([head |-> c.head, channel |-> c.channel,
                           text |-> SubSeq(d, k + 1, Lesser(k + n, Len(d))),
                           achievement |-> earned])
         /\ Len(d) = Len(b) => earned = c.achievement
  <2>1. LET r == decode_messagechat(d)
            q == 29 + Len(InChannel(c))
        IN  \/ r = Raised /\ Len(d) < q
            \/ \E earned \in {<<>>, c.achievement} :
                  /\ r = Gave([head |-> c.head, channel |-> c.channel,
                               text |-> SubSeq(d, q + 1, Lesser(q + Len(c.text), Len(d))),
                               achievement |-> earned])
                  /\ Len(d) = Len(ChatBody(c)) => earned = c.achievement
    BY <1>1, <1>3, ChatDecoded DEF b
  <2> QED BY <1>1, <1>4, <2>1 DEF k, m, n, b
<1>6. SubSeq(d, k + 1, Lesser(k + n, Len(d))) = c.text
  <2>1. SubSeq(d, k + 1, k + n) = c.text
    BY <1>2, <1>3, <1>4, SliceIs DEF n
  <2>2. Lesser(k + n, Len(d)) = k + n
    BY <1>3, <1>4 DEF Lesser
  <2> QED BY <2>1, <2>2
<1>7. c = [head |-> c.head, channel |-> c.channel, text |-> c.text,
           achievement |-> c.achievement]
  BY <1>1, CodecAssumption
<1> QED BY <1>3, <1>5, <1>6, <1>7

LEMMA UnderstoodHere == IInv => WholePacketsUnderstood
<1> SUFFICES ASSUME IInv PROVE WholePacketsUnderstood
  OBVIOUS
<1> DEFINE sent == packet.content
<1>1. ASSUME Whole("who") PROVE handed = Gave(sent)
  <2>1. Is("who") /\ packet.size = Len(WhoBody(sent))
    BY <1>1 DEF Whole, Is, Body
  <2> QED BY <2>1, ListsReceived, WhoDecoded
<1>2. ASSUME Whole("roster")
      PROVE  handed = Gave([motd |-> sent.motd, members |-> sent.members])
  <2>1. Is("roster") /\ packet.size = Len(RosterBody(sent))
    BY <1>2 DEF Whole, Is, Body
  <2> QED BY <2>1, ListsReceived, RosterDecoded
<1>3. ASSUME Whole("event") PROVE handed = Gave(sent)
  <2>1. Is("event") /\ packet.size = Len(EventBody(sent))
    BY <1>3 DEF Whole, Is, Body
  <2> QED BY <2>1, ListsReceived, EventDecoded
<1>4. ASSUME Whole("chat") PROVE handed = Gave(sent)
  <2>1. Is("chat") /\ packet.size = Len(ChatBody(sent))
    BY <1>4 DEF Whole, Is, Body
  <2> QED BY <2>1, ChatUnderstood
<1>5. ASSUME Whole("name")
      PROVE  handed = Gave([guid |-> sent.guid,
                            name |-> IF sent.known THEN sent.name ELSE UNKNOWN])
  <2> DEFINE b == NameBody(sent)
  <2>1. packet.size = Len(b)
    BY <1>5 DEF Whole, Is, Body
  <2>2. /\ sent \in NameAnswers /\ packet.size \in 0..Len(b)
        /\ handed = decode_name_query_response(Left(b))
    BY <1>5 DEF Whole, IInv, Received, Decoded, Is, Left
  <2>3. b \in Texts
    BY <2>2, NameLayout
  <2>4. IsCut(Left(b), b) /\ Len(Left(b)) = Len(b)
    <3> HIDE DEF b
    <3> QED BY <2>1, <2>2, <2>3, LeftIs
  <2> QED BY <2>2, <2>4, NameDecoded
<1>6. ASSUME Is("command")
      PROVE  handed = IF Addressee(sent) = << <<>> >> THEN Raised
                      ELSE Gave(Append(Addressee(sent), sent.text))
  BY <1>6, CommandDecoded DEF IInv, Received, Decoded, Is
<1> QED BY <1>1, <1>2, <1>3, <1>4, <1>5, <1>6 DEF WholePacketsUnderstood, Addressee

\* Whatever the lists, messages and names, a packet that arrives whole is decoded
\* to what the server put into it, and the server reads back what send_chat was
\* given (world/chat.py's decoders and encode_messagechat).
THEOREM WholePacketsAreUnderstood == ChatSpec => []WholePacketsUnderstood
<1> QED BY IInvHolds, UnderstoodHere, PTL

LEMMA PrefixKept ==
    ASSUME NEW S, NEW list \in Seq(S), NEW n \in 0..Len(list)
    PROVE  IsPrefix(SubSeq(list, 1, n), list)
<1> DEFINE s == SubSeq(list, 1, n)
<1>1. Len(list) \in Nat /\ \A i \in 1..n : list[i] \in S
  BY LenProperties, ElementOfSeq
<1>2. s \in Seq(S) /\ Len(s) = n
  BY <1>1, SubSeqProperties
<1>3. SubSeq(s, 1, n) = s
  <2> HIDE DEF s
  <2> QED BY <1>2
<1> QED BY <1>1, <1>2, <1>3 DEF IsPrefix

LEMMA CutListsHere == IInv => CutListsKeepEntries
<1> SUFFICES ASSUME IInv PROVE CutListsKeepEntries
  OBVIOUS
<1> DEFINE sent == packet.content
           End(n) == Len(WhoBody(SubSeq(sent, 1, n)))
           FitsTo(n) == /\ End(n) <= packet.size
                        /\ n < Len(sent) => packet.size < End(n + 1)
           InStrings(n) == /\ n < Len(sent)
                           /\ packet.size - End(n) \in
                                 1..Len(sent[n + 1][1]) + Len(sent[n + 1][2]) + 1
           Short(n) == [sent EXCEPT !.strings = SubSeq(@, 1, n)]
           fits == {n \in 0..Len(sent.strings) : Len(EventBody(Short(n))) = packet.size}
<1>1. ASSUME Is("characters")
      PROVE  handed = IF packet.size < NeededOf(sent) THEN Raised
                      ELSE Gave([i \in DOMAIN FirstOf(sent) |->
                                    <<FirstOf(sent)[i][1], FirstOf(sent)[i][2],
                                      Last(FirstOf(sent)[i][3])>>])
  BY <1>1, ListsReceived, CharactersDecoded
<1>2. ASSUME Is("who") /\ packet.size >= 8
      PROVE  \E kept \in 0..Len(sent) :
                /\ FitsTo(kept)
                /\ handed = IF InStrings(kept) THEN Raised ELSE Gave(SubSeq(sent, 1, kept))
  <2> DEFINE d == Left(WhoBody(sent))
  <2>1. /\ sent \in WhoLists /\ handed = decode_who_response(d)
        /\ IsCut(d, WhoBody(sent)) /\ Len(d) = packet.size
    BY <1>2, ListsReceived
  <2> HIDE DEF d
  <2>2. \E n \in 0..Len(sent) :
           /\ End(n) <= Len(d) /\ (n < Len(sent) => Len(d) < End(n + 1))
           /\ decode_who_response(d) =
                 IF /\ n < Len(sent)
                    /\ Len(d) - End(n) \in
                          1..Len(sent[n + 1][1]) + Len(sent[n + 1][2]) + 1
                 THEN Raised ELSE Gave(SubSeq(sent, 1, n))
    BY <1>2, <2>1, WhoDecoded
  <2> HIDE DEF End
  <2> QED BY <2>1, <2>2
<1>3. ASSUME Is("event") /\ packet.size >= 2
      PROVE  IF fits = {} THEN handed = Raised ELSE \E n \in fits : handed = Gave(Short(n))
  <2> DEFINE d == Left(EventBody(sent))
             same == {n \in 0..Len(sent.strings) : Len(EventBody(Short(n))) = Len(d)}
  <2>1. sent \in Events /\ handed = decode_guild_event(d)
    BY <1>3, ListsReceived
  <2>2. IsCut(d, EventBody(sent)) /\ Len(d) = packet.size
    BY <1>3, ListsReceived
  <2> HIDE DEF d
  <2>3. IF same = {} THEN handed = Raised ELSE \E n \in same : handed = Gave(Short(n))
    BY <1>3, <2>1, <2>2, EventDecoded
  <2> HIDE DEF Short
  <2>4. same = fits
    BY <2>2
  <2> HIDE DEF same, fits
  <2> QED BY <2>3, <2>4
<1>4. ASSUME Is("roster") /\ handed # Raised
      PROVE  handed.value.motd = sent.motd /\ IsPrefix(handed.value.members, sent.members)
  <2> DEFINE d == Left(RosterBody(sent))
  <2>1. /\ sent \in Rosters /\ handed = decode_guild_roster(d) /\ IsCut(d, RosterBody(sent))
    BY <1>4, ListsReceived
  <2> HIDE DEF d
  <2>2. PICK n \in 0..Len(sent.members) :
           handed = Gave([motd |-> sent.motd, members |-> SubSeq(sent.members, 1, n)])
    BY <1>4, <2>1, RosterDecoded
  <2>3. sent.members \in Seq(MemberEntries)
    BY <2>1, RosterLayout
  <2>4. IsPrefix(SubSeq(sent.members, 1, n), sent.members)
    BY <2>3, PrefixKept
  <2> QED BY <2>2, <2>4 DEF Gave
<1> QED BY <1>1, <1>2, <1>3, <1>4 DEF CutListsKeepEntries, FirstOf, NeededOf

\* Wherever a list is cut, its decoder keeps the entries before the cut and
\* never half of one, or raises; the guards of decode_who_response agree with
\* its reads on every byte (chat.py:299-320).
THEOREM CutListsAreKept == ChatSpec => []CutListsKeepEntries
<1> QED BY IInvHolds, CutListsHere, PTL
=============================================================================
