----------------------------- MODULE DataLemmas -----------------------------
(* Facts on numbers, sequences and sets that the proofs share: indices, and *)
(* the members of the queues, batches and logs of the code.                 *)
EXTENDS Naturals, Sequences, SequencesExt, FiniteSetTheorems, WellFoundedInduction, TLAPS

(* A set of natural numbers that is not empty has a least one.              *)
LEMMA MinOfNats ==
  ASSUME NEW S \in SUBSET Nat, S # {}
  PROVE  Min(S) \in S /\ \A x \in S : Min(S) <= x
<1> DEFINE R == OpToRel(<, Nat)
<1>1. IsWellFoundedOn(R, Nat)
  BY NatLessThanWellFounded
<1>2. \A x, y \in Nat : x < y => <<x, y>> \in R
  BY DEF OpToRel
<1> HIDE DEF R
<1>3. PICK x \in S : \A y \in S : ~(<<y, x>> \in R)
  BY <1>1, WFMin
<1>4. ASSUME NEW y \in S  PROVE x <= y
  <2>1. x \in Nat /\ y \in Nat
    OBVIOUS
  <2>2. ~(y < x)
    BY <1>2, <1>3, <2>1
  <2> QED  BY <2>1, <2>2
<1> QED  BY <1>4 DEF Min

(* ... so that there is a number that is the least of them.                 *)
LEMMA LeastOfNats ==
  ASSUME NEW S \in SUBSET Nat, S # {}
  PROVE  \E k \in S : \A x \in S : k <= x
<1>1. Min(S) \in S /\ \A x \in S : Min(S) <= x
  BY MinOfNats
<1> QED  BY <1>1, Zenon

-----------------------------------------------------------------------------
(* What n steps make of b: f[i] is what the first i of them do.             *)
Evolves(f, T, b, n, G) ==
  /\ f \in [0..n -> T]
  /\ f[0] = b
  /\ \A i \in 1..n : f[i] = G[<<i, f[i - 1]>>]

(* A function over 0..n that is defined from its value one before exists.   *)
LEMMA StepsExist ==
  ASSUME NEW T, NEW b \in T, NEW n \in Nat, NEW G \in [(1..n) \X T -> T]
  PROVE  \E f : Evolves(f, T, b, n, G)
<1> DEFINE Steps(k, f) == f[0] = b /\ \A i \in 1..k : f[i] = G[<<i, f[i - 1]>>]
           bad == {k \in 0..n : ~\E f \in [0..k -> T] : Steps(k, f)}
<1>1. ASSUME bad # {}  PROVE FALSE
  <2> DEFINE k == Min(bad)
  <2>1. bad \in SUBSET Nat
    OBVIOUS
  <2>2. k \in bad /\ \A x \in bad : k <= x
    BY <1>1, <2>1, MinOfNats, Zenon
  <2>3. k \in 0..n /\ ~\E f \in [0..k -> T] : Steps(k, f)
    BY <2>2
  <2> HIDE DEF k
  <2>4. CASE k = 0
    <3> DEFINE f == [i \in 0..0 |-> b]
    <3>1. f \in [0..0 -> T] /\ f[0] = b /\ \A i \in 1..0 : f[i] = G[<<i, f[i - 1]>>]
      OBVIOUS
    <3> QED  BY <2>3, <2>4, <3>1
  <2>5. CASE k # 0
    <3>1. k - 1 \in 0..n /\ k - 1 < k /\ k \in 1..n
      BY <2>3, <2>5
    <3>2. k - 1 \notin bad
      BY <2>2, <2>3, <3>1
    <3>3. PICK f \in [0..(k - 1) -> T] : Steps(k - 1, f)
      BY <3>1, <3>2
    <3> DEFINE g == [i \in 0..k |-> IF i = k THEN G[<<k, f[k - 1]>>] ELSE f[i]]
    <3>4. f[k - 1] \in T
      BY <3>1
    <3>5. G[<<k, f[k - 1]>>] \in T
      BY <3>1, <3>4
    <3>6. g \in [0..k -> T]
      BY <2>3, <3>5
    <3>7. g[0] = b
      BY <2>3, <2>5, <3>3
    <3>8. ASSUME NEW i \in 1..k  PROVE g[i] = G[<<i, g[i - 1]>>]
      <4>1. i - 1 \in 0..(k - 1) /\ g[i - 1] = f[i - 1]
        BY <2>3
      <4>2. CASE i = k
        BY <2>3, <4>1, <4>2
      <4>3. CASE i # k
        BY <2>3, <3>3, <4>1, <4>3
      <4> QED  BY <4>2, <4>3
    <3> HIDE DEF g
    <3> QED  BY <2>3, <3>6, <3>7, <3>8
  <2> QED  BY <2>4, <2>5
<1>2. n \in 0..n
  OBVIOUS
<1>3. \E f \in [0..n -> T] : Steps(n, f)
  <2> HIDE DEF Steps
  <2> QED  BY <1>1, <1>2, Zenon
<1> QED  BY <1>3, Zenon DEF Evolves

(* What goes step by step from T[0] to T[1] and on ends in T[n].            *)
LEMMA StepsStay ==
  ASSUME NEW n \in Nat, NEW f, NEW T,
         f[0] \in T[0], \A i \in 1..n : f[i - 1] \in T[i - 1] => f[i] \in T[i]
  PROVE  f[n] \in T[n]
<1> DEFINE bad == {k \in 0..n : f[k] \notin T[k]}
<1>1. ASSUME bad # {}  PROVE FALSE
  <2>1. bad \in SUBSET Nat
    OBVIOUS
  <2>2. PICK k \in bad : \A x \in bad : k <= x
    BY <1>1, <2>1, LeastOfNats, Zenon
  <2>3. k \in 0..n /\ f[k] \notin T[k]
    BY <2>2
  <2>4. k # 0
    BY <2>3
  <2>5. k \in 1..n /\ k - 1 \in 0..n /\ ~(k <= k - 1)
    BY <2>3, <2>4
  <2>6. f[k - 1] \in T[k - 1]
    BY <2>2, <2>5
  <2> QED  BY <2>3, <2>5, <2>6
<1> QED  BY <1>1

-----------------------------------------------------------------------------
(* A sequence of anything.                                                  *)
IsSeq(s) == \E S : s \in Seq(S)

LEMMA SeqFacts ==
  ASSUME NEW s, IsSeq(s)
  PROVE  Len(s) \in Nat /\ DOMAIN s = 1..Len(s) /\ (s = << >> <=> Len(s) = 0)
BY DEF IsSeq

LEMMA EmptyFacts == IsSeq(<< >>) /\ Len(<< >>) = 0 /\ DOMAIN << >> = {}
<1>1. << >> \in Seq({})
  OBVIOUS
<1> QED  BY <1>1 DEF IsSeq

LEMMA FunctionIsSeq ==
  ASSUME NEW n \in Nat, NEW S, NEW f \in [1..n -> S]
  PROVE  IsSeq(f) /\ Len(f) = n /\ DOMAIN f = 1..n
<1>1. f \in Seq(S) /\ Len(f) = n
  OBVIOUS
<1> QED  BY <1>1 DEF IsSeq

LEMMA AppendFacts ==
  ASSUME NEW s, IsSeq(s), NEW e
  PROVE  /\ IsSeq(Append(s, e)) /\ Len(Append(s, e)) = Len(s) + 1
         /\ DOMAIN Append(s, e) = 1..(Len(s) + 1)
         /\ \A i \in 1..Len(s) : Append(s, e)[i] = s[i]
         /\ Append(s, e)[Len(s) + 1] = e
<1>1. PICK S : s \in Seq(S)
  BY DEF IsSeq
<1>2. s \in Seq(S \cup {e})
  BY <1>1
<1>3. Append(s, e) \in Seq(S \cup {e})
  BY <1>2
<1> QED  BY <1>2, <1>3 DEF IsSeq

LEMMA TailFacts ==
  ASSUME NEW s, IsSeq(s), s # << >>
  PROVE  /\ IsSeq(Tail(s)) /\ Len(Tail(s)) = Len(s) - 1 /\ Head(s) = s[1]
         /\ Len(s) \in Nat \ {0} /\ DOMAIN Tail(s) = 1..(Len(s) - 1)
         /\ \A i \in 1..(Len(s) - 1) : Tail(s)[i] = s[i + 1]
<1>1. PICK S : s \in Seq(S)
  BY DEF IsSeq
<1>2. Tail(s) \in Seq(S)
  BY <1>1
<1> QED  BY <1>1, <1>2 DEF IsSeq

LEMMA ConcatFacts ==
  ASSUME NEW r, NEW s, IsSeq(r), IsSeq(s)
  PROVE  /\ IsSeq(r \o s) /\ Len(r \o s) = Len(r) + Len(s)
         /\ DOMAIN (r \o s) = 1..(Len(r) + Len(s))
         /\ \A i \in 1..Len(r) : (r \o s)[i] = r[i]
         /\ \A i \in 1..Len(s) : (r \o s)[Len(r) + i] = s[i]
<1>1. PICK S : r \in Seq(S)
  BY DEF IsSeq
<1>2. PICK T : s \in Seq(T)
  BY DEF IsSeq
<1>3. r \in Seq(S \cup T) /\ s \in Seq(S \cup T)
  BY <1>1, <1>2
<1>4. r \o s \in Seq(S \cup T)
  BY <1>3
<1> QED  BY <1>3, <1>4 DEF IsSeq

-----------------------------------------------------------------------------

(* What FlattenSeq joins together.                                          *)
LEMMA FlattenType ==
  ASSUME NEW S, NEW ss \in Seq(Seq(S))
  PROVE  FlattenSeq(ss) \in Seq(S)
<1> DEFINE n == Len(ss)
           F == [i \in 1..n |-> ss[i]]
           Eq(f) == f = [i \in 1..n |-> IF i = 1 THEN ss[i] ELSE f[i - 1] \o ss[i]]
<1>1. n \in Nat /\ \A i \in 1..n : ss[i] \in Seq(S)
  OBVIOUS
<1>2. CASE n = 0
  <2>1. FlattenSeq(ss) = ss
    BY <1>2 DEF FlattenSeq
  <2> QED  BY <1>2, <2>1
<1>3. CASE n # 0
  <2> DEFINE G == [x \in (1..n) \X Seq(S) |-> x[2] \o ss[x[1]]]
  <2>1. G \in [(1..n) \X Seq(S) -> Seq(S)]
    <3>1. ASSUME NEW x \in (1..n) \X Seq(S)  PROVE x[2] \o ss[x[1]] \in Seq(S)
      BY <1>1
    <3> QED  BY <3>1
  <2>2. << >> \in Seq(S)
    OBVIOUS
  <2> HIDE DEF G
  <2>3. PICK h \in [0..n -> Seq(S)] : h[0] = << >> /\ \A i \in 1..n : h[i] = G[<<i, h[i - 1]>>]
    <3> DEFINE T == Seq(S)
               b == << >>
    <3>1. n \in Nat /\ b \in T /\ G \in [(1..n) \X T -> T]
      BY <1>1, <2>1, <2>2
    <3> HIDE DEF T, n, b
    <3>2. PICK h : Evolves(h, T, b, n, G)
      BY <3>1, StepsExist, Zenon
    <3> QED  BY <3>2 DEF Evolves, T, n, b
  <2> DEFINE f == [i \in 1..n |-> h[i]]
  <2>4. \A i \in 1..n : h[i] = h[i - 1] \o ss[i]
    <3>1. ASSUME NEW i \in 1..n  PROVE h[i] = h[i - 1] \o ss[i]
      <4>1. i - 1 \in 0..n
        BY <1>1
      <4>2. <<i, h[i - 1]>> \in (1..n) \X Seq(S)
        BY <4>1
      <4>3. G[<<i, h[i - 1]>>] = h[i - 1] \o ss[i]
        BY <4>2 DEF G
      <4> QED  BY <2>3, <4>3
    <3> QED  BY <3>1
  <2>5. Eq(f)
    <3>1. ASSUME NEW i \in 1..n
          PROVE  f[i] = IF i = 1 THEN ss[i] ELSE f[i - 1] \o ss[i]
      <4>1. CASE i = 1
        <5>0. 1 \in 1..n /\ 1 - 1 = 0
          BY <4>1
        <5>1. h[1] = << >> \o ss[1] /\ ss[1] \in Seq(S)
          BY <1>1, <2>3, <2>4, <5>0
        <5>2. << >> \o ss[1] = ss[1]
          BY <5>1
        <5> QED  BY <4>1, <5>1, <5>2
      <4>2. CASE i # 1
        <5>1. i - 1 \in 1..n
          BY <1>1, <4>2
        <5> QED  BY <2>4, <4>2, <5>1
      <4> QED  BY <4>1, <4>2
    <3> QED  BY <3>1
  <2> DEFINE g == CHOOSE k : Eq(k)
  <2>6. Eq(g)
    BY <2>5
  <2>7. FlattenSeq(ss) = g[n]
    BY <1>3 DEF FlattenSeq
  <2> DEFINE bad == {i \in 1..n : g[i] \notin Seq(S)}
  <2> HIDE DEF g
  <2>8. ASSUME bad # {}  PROVE FALSE
    <3> DEFINE k == Min(bad)
    <3>1. bad \in SUBSET Nat
      OBVIOUS
    <3>2. k \in bad /\ \A x \in bad : k <= x
      BY <2>8, <3>1, MinOfNats, Zenon
    <3> HIDE DEF k
    <3>3. k \in 1..n /\ g[k] \notin Seq(S)
      BY <3>2
    <3>4. g[k] = IF k = 1 THEN ss[k] ELSE g[k - 1] \o ss[k]
      BY <2>6, <3>3, Zenon
    <3>5. k # 1
      BY <1>1, <3>3, <3>4
    <3>6. k - 1 \in 1..n /\ ~(k <= k - 1)
      BY <3>3, <3>5
    <3>7. g[k - 1] \in Seq(S)
      BY <3>2, <3>6
    <3> QED  BY <1>1, <3>3, <3>4, <3>5, <3>7
  <2>9. n \in 1..n
    BY <1>1, <1>3
  <2> QED  BY <2>7, <2>8, <2>9
<1> QED  BY <1>2, <1>3

(* Appending, as push does, adds one member.                                *)
LEMMA ToSetAppend ==
  ASSUME NEW S, NEW s \in Seq(S), NEW e \in S
  PROVE  ToSet(Append(s, e)) = ToSet(s) \cup {e}
<1>1. /\ DOMAIN s = 1..Len(s) /\ Len(s) \in Nat
      /\ DOMAIN Append(s, e) = 1..(Len(s) + 1)
      /\ \A i \in 1..Len(s) : Append(s, e)[i] = s[i]
      /\ Append(s, e)[Len(s) + 1] = e
  OBVIOUS
<1>2. 1..(Len(s) + 1) = 1..Len(s) \cup {Len(s) + 1}
  BY <1>1
<1> QED  BY <1>1, <1>2, Zenon DEF ToSet

(* Popping takes the head and leaves the members of the tail.               *)
LEMMA ToSetHeadTail ==
  ASSUME NEW S, NEW s \in Seq(S), s # <<>>
  PROVE  ToSet(s) = {Head(s)} \cup ToSet(Tail(s))
<1>1. /\ DOMAIN s = 1..Len(s) /\ Len(s) \in Nat \ {0}
      /\ Head(s) = s[1] /\ Tail(s) \in Seq(S)
      /\ DOMAIN Tail(s) = 1..(Len(s) - 1)
      /\ \A i \in 1..(Len(s) - 1) : Tail(s)[i] = s[i + 1]
  OBVIOUS
<1>2. ASSUME NEW m \in ToSet(s)
      PROVE  m \in {Head(s)} \cup ToSet(Tail(s))
  <2>1. PICK i \in 1..Len(s) : m = s[i]
    BY <1>1 DEF ToSet
  <2>2. CASE i = 1
    BY <1>1, <2>1, <2>2
  <2>3. CASE i # 1
    <3>1. i - 1 \in 1..(Len(s) - 1) /\ Tail(s)[i - 1] = s[i]
      BY <1>1, <2>1, <2>3
    <3> QED  BY <1>1, <2>1, <3>1 DEF ToSet
  <2> QED  BY <2>2, <2>3
<1>3. ASSUME NEW m \in ToSet(Tail(s))
      PROVE  m \in ToSet(s)
  <2>1. PICK i \in 1..(Len(s) - 1) : m = Tail(s)[i]
    BY <1>1 DEF ToSet
  <2>2. i + 1 \in 1..Len(s) /\ m = s[i + 1]
    BY <1>1, <2>1
  <2> QED  BY <1>1, <2>2 DEF ToSet
<1>4. Head(s) \in ToSet(s)
  BY <1>1 DEF ToSet
<1> QED  BY <1>2, <1>3, <1>4

(* A batch written to the socket adds its members.                          *)
LEMMA ToSetConcat ==
  ASSUME NEW S, NEW r \in Seq(S), NEW s \in Seq(S)
  PROVE  ToSet(r \o s) = ToSet(r) \cup ToSet(s)
<1>1. /\ DOMAIN r = 1..Len(r) /\ Len(r) \in Nat
      /\ DOMAIN s = 1..Len(s) /\ Len(s) \in Nat
      /\ DOMAIN (r \o s) = 1..(Len(r) + Len(s))
      /\ \A i \in 1..Len(r) : (r \o s)[i] = r[i]
      /\ \A i \in 1..Len(s) : (r \o s)[Len(r) + i] = s[i]
  OBVIOUS
<1>2. ASSUME NEW m \in ToSet(r \o s)
      PROVE  m \in ToSet(r) \cup ToSet(s)
  <2>1. PICK i \in 1..(Len(r) + Len(s)) : m = (r \o s)[i]
    BY <1>1 DEF ToSet
  <2>2. CASE i <= Len(r)
    BY <1>1, <2>1, <2>2 DEF ToSet
  <2>3. CASE i > Len(r)
    <3>1. i - Len(r) \in 1..Len(s) /\ i = Len(r) + (i - Len(r))
      BY <1>1, <2>1, <2>3
    <3>2. m = s[i - Len(r)]
      BY <1>1, <2>1, <3>1
    <3> QED  BY <1>1, <3>1, <3>2 DEF ToSet
  <2> QED  BY <1>1, <2>1, <2>2, <2>3
<1>3. ASSUME NEW m \in ToSet(r) \cup ToSet(s)
      PROVE  m \in ToSet(r \o s)
  <2>1. CASE m \in ToSet(r)
    <3>1. PICK i \in 1..Len(r) : m = r[i]
      BY <1>1, <2>1 DEF ToSet
    <3>2. i \in 1..(Len(r) + Len(s)) /\ m = (r \o s)[i]
      BY <1>1, <3>1
    <3> QED  BY <1>1, <3>2 DEF ToSet
  <2>2. CASE m \in ToSet(s)
    <3>1. PICK i \in 1..Len(s) : m = s[i]
      BY <1>1, <2>2 DEF ToSet
    <3>2. Len(r) + i \in 1..(Len(r) + Len(s)) /\ m = (r \o s)[Len(r) + i]
      BY <1>1, <3>1
    <3> QED  BY <1>1, <3>2 DEF ToSet
  <2> QED  BY <1>3, <2>1, <2>2
<1> QED  BY <1>2, <1>3

(* A sequence that is not empty has a member.                               *)
LEMMA ToSetOfSome ==
  ASSUME NEW S, NEW s \in Seq(S), s # <<>>
  PROVE  ToSet(s) # {}
<1>1. 1 \in DOMAIN s
  OBVIOUS
<1>2. s[1] \in ToSet(s)
  BY <1>1 DEF ToSet
<1> QED  BY <1>2

(* An empty one has none.                                                   *)
LEMMA ToSetOfNone == ToSet(<<>>) = {}
BY DEF ToSet

(* The rest of a sequence and a beginning of it have all its members.       *)
LEMMA ToSetOfSplit ==
  ASSUME NEW S, NEW s \in Seq(S), NEW n \in 0..Len(s)
  PROVE  /\ SubSeq(s, n + 1, Len(s)) \in Seq(S)
         /\ ToSet(s) = {s[i] : i \in 1..n} \cup ToSet(SubSeq(s, n + 1, Len(s)))
<1> DEFINE r == SubSeq(s, n + 1, Len(s))
<1>1. /\ r \in Seq(S) /\ DOMAIN r = 1..(Len(s) - n) /\ n \in Nat
      /\ \A i \in 1..(Len(s) - n) : r[i] = s[n + i]
      /\ DOMAIN s = 1..Len(s) /\ Len(s) \in Nat
  OBVIOUS
<1>2. ASSUME NEW m \in ToSet(s)
      PROVE  m \in {s[i] : i \in 1..n} \cup ToSet(r)
  <2>1. PICK i \in 1..Len(s) : m = s[i]
    BY <1>1 DEF ToSet
  <2>2. CASE i > n
    <3>1. i - n \in 1..(Len(s) - n) /\ n + (i - n) = i
      BY <1>1, <2>1, <2>2
    <3>2. m = r[i - n]
      BY <1>1, <2>1, <3>1
    <3> QED  BY <1>1, <3>1, <3>2 DEF ToSet
  <2>3. CASE ~(i > n)
    <3>1. i \in 1..n
      BY <1>1, <2>1, <2>3
    <3> QED  BY <2>1, <3>1
  <2> QED  BY <2>2, <2>3
<1>3. ASSUME NEW i \in 1..n
      PROVE  s[i] \in ToSet(s)
  <2>1. i \in DOMAIN s
    BY <1>1
  <2> QED  BY <2>1 DEF ToSet
<1>4. ASSUME NEW m \in ToSet(r)
      PROVE  m \in ToSet(s)
  <2>1. PICK i \in 1..(Len(s) - n) : m = r[i]
    BY <1>1 DEF ToSet
  <2>2. n + i \in DOMAIN s /\ m = s[n + i]
    BY <1>1, <2>1
  <2> QED  BY <2>2 DEF ToSet
<1> QED  BY <1>1, <1>2, <1>3, <1>4

(* SetToSeq enumerates a finite set.                                        *)
LEMMA SetToSeqEnumerates ==
  ASSUME NEW S, IsFiniteSet(S)
  PROVE  /\ Cardinality(S) \in Nat
         /\ SetToSeq(S) \in [1..Cardinality(S) -> S]
         /\ \A x \in S : \E i \in 1..Cardinality(S) : SetToSeq(S)[i] = x
<1> DEFINE n == Cardinality(S)
<1>1. n \in Nat /\ ExistsBijection(1..n, S)
  BY FS_CardinalityType
<1>2. PICK f \in [1..n -> S] : IsInjective(f)
  BY <1>1 DEF ExistsBijection, Bijection, Injection
<1>3. SetToSeq(S) \in [1..n -> S] /\ IsInjective(SetToSeq(S))
  BY <1>2 DEF SetToSeq
<1>4. SetToSeq(S) \in Injection(1..n, S)
  BY <1>3 DEF Injection
<1>5. IsFiniteSet(1..n) /\ Cardinality(1..n) = n
  BY <1>1, FS_Interval
<1>6. SetToSeq(S) \in Surjection(1..n, S)
  BY <1>4, <1>5, FS_Injection
<1> QED  BY <1>1, <1>3, <1>6 DEF Surjection

(* ... once each.                                                           *)
LEMMA SeqOfSet ==
  ASSUME NEW S, IsFiniteSet(S)
  PROVE  /\ IsSeq(SetToSeq(S))
         /\ \A i \in 1..Len(SetToSeq(S)) : SetToSeq(S)[i] \in S
         /\ \A i, j \in 1..Len(SetToSeq(S)) : SetToSeq(S)[i] = SetToSeq(S)[j] => i = j
<1> DEFINE n == Cardinality(S)
<1>1. n \in Nat /\ ExistsBijection(1..n, S)
  BY FS_CardinalityType
<1>2. PICK f \in [1..n -> S] : IsInjective(f)
  BY <1>1 DEF ExistsBijection, Bijection, Injection
<1>3. SetToSeq(S) \in [1..n -> S] /\ IsInjective(SetToSeq(S))
  BY <1>2 DEF SetToSeq
<1> DEFINE s == SetToSeq(S)
<1> HIDE DEF s, n
<1>4. s \in [1..n -> S] /\ IsInjective(s)
  BY <1>3 DEF s, n
<1>5. IsSeq(s) /\ Len(s) = n /\ DOMAIN s = 1..n
  BY <1>1, <1>4, FunctionIsSeq DEF n
<1>6. \A i, j \in 1..n : s[i] = s[j] => i = j
  BY <1>4, <1>5 DEF IsInjective
<1> QED  BY <1>4, <1>5, <1>6 DEF s

(* The image of a finite set is finite, and so is the set of the sequences   *)
(* over it of a bounded length.                                             *)
LEMMA FiniteImage ==
  ASSUME NEW S, IsFiniteSet(S), NEW f, DOMAIN f = S
  PROVE  IsFiniteSet({f[x] : x \in S})
<1> DEFINE T == {f[x] : x \in S}
           g == [x \in S |-> f[x]]
<1>1. g \in [S -> T] /\ \A y \in T : \E x \in S : g[x] = y
  OBVIOUS
<1>2. g \in Surjection(S, T)
  BY <1>1 DEF Surjection
<1> QED  BY <1>2, FS_Surjection

LEMMA FiniteSeqOf ==
  ASSUME NEW S, IsFiniteSet(S), NEW n \in Nat
  PROVE  IsFiniteSet(SeqOf(S, n))
<1> DEFINE F == SeqOf(S, n)
           T == SUBSET ((1..n) \X S)
           graph(w) == {<<i, w[i]>> : i \in DOMAIN w}
           g == [w \in F |-> graph(w)]
<1>1. IsFiniteSet(T)
  <2>1. IsFiniteSet(1..n)
    BY FS_Interval
  <2>2. IsFiniteSet((1..n) \X S)
    BY <2>1, FS_Product
  <2> QED  BY <2>2, FS_SUBSET
<1>2. ASSUME NEW w \in F
      PROVE  \E m \in 0..n : w \in [1..m -> S]
  BY DEF SeqOf
<1>3. ASSUME NEW w \in F  PROVE graph(w) \in T
  <2>1. PICK m \in 0..n : w \in [1..m -> S]
    BY <1>2
  <2>2. DOMAIN w = 1..m /\ \A i \in 1..m : i \in 1..n /\ w[i] \in S
    BY <2>1
  <2> QED  BY <2>2
<1>4. ASSUME NEW v \in F, NEW w \in F, graph(v) = graph(w)
      PROVE  v = w
  <2>1. PICK k \in 0..n : v \in [1..k -> S]
    BY <1>2
  <2>2. PICK m \in 0..n : w \in [1..m -> S]
    BY <1>2
  <2>3. ASSUME NEW i \in DOMAIN v  PROVE i \in DOMAIN w /\ v[i] = w[i]
    <3>1. <<i, v[i]>> \in graph(w)
      BY <1>4
    <3>2. PICK j \in DOMAIN w : <<i, v[i]>> = <<j, w[j]>>
      BY <3>1
    <3> QED  BY <3>2
  <2>4. ASSUME NEW i \in DOMAIN w  PROVE i \in DOMAIN v
    <3>1. <<i, w[i]>> \in graph(v)
      BY <1>4
    <3>2. PICK j \in DOMAIN v : <<i, w[i]>> = <<j, v[j]>>
      BY <3>1
    <3> QED  BY <3>2
  <2>5. DOMAIN v = DOMAIN w
    BY <2>3, <2>4
  <2> QED  BY <2>1, <2>2, <2>3, <2>5
<1> HIDE DEF graph, F, T
<1>5. g \in [F -> T] /\ \A v, w \in F : g[v] = g[w] => v = w
  BY <1>3, <1>4
<1>6. g \in Injection(F, T)
  BY <1>5 DEF Injection, IsInjective
<1>7. IsFiniteSet(F)
  BY <1>1, <1>6, FS_Injection
<1> QED  BY <1>7 DEF F

-----------------------------------------------------------------------------
(* Facts about bags.                                                        *)
LEMMA SetAdded ==
  ASSUME NEW n, NEW S
  PROVE  /\ DOMAIN (n (+) SetToBag(S)) = DOMAIN n \cup S
         /\ \A e \in S \ DOMAIN n : (n (+) SetToBag(S))[e] = 1
         /\ \A e \in DOMAIN n \ S : n[e] = 1 => (n (+) SetToBag(S))[e] = 1
<1>1. DOMAIN SetToBag(S) = S /\ \A e \in S : SetToBag(S)[e] = 1
  BY DEF SetToBag
<1>2. DOMAIN (n (+) SetToBag(S)) = DOMAIN n \cup S
  BY <1>1 DEF (+)
<1>3. \A e \in DOMAIN n \cup S : (n (+) SetToBag(S))[e] =
        (IF e \in DOMAIN n THEN n[e] ELSE 0) + (IF e \in S THEN SetToBag(S)[e] ELSE 0)
  BY <1>1 DEF (+)
<1>4. \A e \in S \ DOMAIN n : (n (+) SetToBag(S))[e] = 1
  BY <1>1, <1>3
<1>5. \A e \in DOMAIN n \ S : n[e] = 1 => (n (+) SetToBag(S))[e] = 1
  BY <1>1, <1>3
<1> QED  BY <1>2, <1>4, <1>5

LEMMA OneTaken ==
  ASSUME NEW n, NEW x \in DOMAIN n
  PROVE  LET left == n (-) SetToBag({x})
         IN /\ DOMAIN left \subseteq DOMAIN n
            /\ n[x] = 1 => x \notin DOMAIN left
            /\ \A e \in DOMAIN left \ {x} : left[e] = n[e]
<1> DEFINE L == [e \in DOMAIN n |-> IF e \in DOMAIN SetToBag({x}) THEN n[e] - SetToBag({x})[e] ELSE n[e]]
           left == n (-) SetToBag({x})
<1>1. DOMAIN SetToBag({x}) = {x} /\ SetToBag({x})[x] = 1
  BY DEF SetToBag
<1>2. left = [e \in {d \in DOMAIN L : L[d] > 0} |-> L[e]]
  BY DEF (-)
<1>3. DOMAIN L = DOMAIN n
  OBVIOUS
<1>4. L[x] = n[x] - 1
  BY <1>1
<1>5. \A e \in DOMAIN n \ {x} : L[e] = n[e]
  BY <1>1
<1> HIDE DEF L
<1>6. DOMAIN left \subseteq DOMAIN n /\ \A e \in DOMAIN left : left[e] = L[e] /\ L[e] > 0
  BY <1>2, <1>3
<1>7. ASSUME n[x] = 1  PROVE x \notin DOMAIN left
  BY <1>4, <1>6, <1>7
<1>8. \A e \in DOMAIN left \ {x} : left[e] = n[e]
  BY <1>5, <1>6
<1> HIDE DEF left
<1>9. /\ DOMAIN left \subseteq DOMAIN n
      /\ n[x] = 1 => x \notin DOMAIN left
      /\ \A e \in DOMAIN left \ {x} : left[e] = n[e]
  BY <1>6, <1>7, <1>8
<1> QED  BY <1>9 DEF left
=============================================================================
