----------------------------- MODULE ZkSequences -----------------------------
(***************************************************************************)
(* Facts about queues and stacks that the proofs of several components     *)
(* need: what is left of a sequence that was cut, what joining two of them *)
(* gives, and how many elements of a kind it holds.                        *)
(***************************************************************************)
EXTENDS Integers, Sequences, FiniteSets, FiniteSetTheorems, SequenceTheorems,
        WellFoundedInduction, TLAPS

\* The number of elements of s in K.
Count(s, K) == Cardinality({i \in 1 .. Len(s) : s[i] \in K})

-----------------------------------------------------------------------------
(* Parts                                                                   *)

\* A stack without its top.
LEMMA PopFacts ==
    ASSUME NEW S, NEW s \in Seq(S), s # <<>>
    PROVE  /\ SubSeq(s, 1, Len(s) - 1) \in Seq(S)
           /\ Len(SubSeq(s, 1, Len(s) - 1)) = Len(s) - 1
           /\ \A i \in 1 .. Len(s) - 1 : SubSeq(s, 1, Len(s) - 1)[i] = s[i]
           /\ Len(s) \in Nat \ {0}
           /\ s[Len(s)] \in S
<1> DEFINE p == SubSeq(s, 1, Len(s) - 1)
<1>1. Len(s) \in Nat \ {0} /\ \A i \in 1 .. Len(s) : s[i] \in S
  BY EmptySeq, LenProperties, ElementOfSeq
<1>2. \A i \in 1 .. Len(s) - 1 : s[i] \in S
  BY <1>1
<1>3. /\ p \in Seq(S)
      /\ Len(p) = IF 1 <= Len(s) - 1 THEN Len(s) - 1 - 1 + 1 ELSE 0
      /\ \A i \in 1 .. Len(s) - 1 - 1 + 1 : p[i] = s[1 + i - 1]
  BY <1>1, <1>2, SubSeqProperties
<1> HIDE DEF p
<1>4. PICK n \in Nat : n = Len(s) - 1
  BY <1>1
<1>5. Len(p) = IF 1 <= n THEN n - 1 + 1 ELSE 0
  BY <1>3, <1>4
<1>6. \A i \in 1 .. n - 1 + 1 : p[i] = s[1 + i - 1]
  BY <1>3, <1>4
<1>7. n - 1 + 1 = n /\ (~ 1 <= n => n = 0) /\ \A i \in 1 .. n : 1 + i - 1 = i
  OBVIOUS
<1>8. Len(p) = n
  BY <1>5, <1>7
<1>9. \A i \in 1 .. n : p[i] = s[i]
  BY <1>6, <1>7
<1> QED
  BY <1>1, <1>3, <1>4, <1>8, <1>9 DEF p

\* A queue followed by another.
LEMMA JoinFacts ==
    ASSUME NEW S, NEW s \in Seq(S), NEW t \in Seq(S)
    PROVE  /\ s \o t \in Seq(S)
           /\ Len(s) \in Nat /\ Len(t) \in Nat
           /\ Len(s \o t) = Len(s) + Len(t)
           /\ \A i \in 1 .. Len(s) : (s \o t)[i] = s[i]
           /\ \A i \in 1 .. Len(t) : (s \o t)[Len(s) + i] = t[i]
<1>1. Len(s \o t) = Len(s) + Len(t) /\ s \o t \in Seq(S)
  BY ConcatProperties
<1>2. Len(s) \in Nat /\ Len(t) \in Nat
  BY LenProperties
<1>3. ASSUME NEW i \in 1 .. Len(s)
      PROVE  (s \o t)[i] = s[i]
  <2>1. i \in 1 .. Len(s) + Len(t) /\ i <= Len(s)
    BY <1>2
  <2> QED
    BY <2>1, ConcatProperties
<1>4. ASSUME NEW i \in 1 .. Len(t)
      PROVE  (s \o t)[Len(s) + i] = t[i]
  <2>1. /\ Len(s) + i \in 1 .. Len(s) + Len(t) /\ ~ Len(s) + i <= Len(s)
        /\ Len(s) + i - Len(s) = i
    BY <1>2
  <2>2. (s \o t)[Len(s) + i] =
            IF Len(s) + i <= Len(s) THEN s[Len(s) + i] ELSE t[Len(s) + i - Len(s)]
    BY <2>1, ConcatProperties
  <2> QED
    BY <2>1, <2>2
<1> QED
  BY <1>1, <1>2, <1>3, <1>4

\* The first k elements of a queue, and what is left without them.
LEMMA CutFacts ==
    ASSUME NEW S, NEW s \in Seq(S), NEW k \in 0 .. Len(s)
    PROVE  /\ SubSeq(s, 1, k) \in Seq(S) /\ Len(SubSeq(s, 1, k)) = k
           /\ \A i \in 1 .. k : SubSeq(s, 1, k)[i] = s[i]
           /\ SubSeq(s, k + 1, Len(s)) \in Seq(S)
           /\ Len(SubSeq(s, k + 1, Len(s))) = Len(s) - k
           /\ \A i \in 1 .. Len(s) - k : SubSeq(s, k + 1, Len(s))[i] = s[k + i]
           /\ SubSeq(s, 1, k) \o SubSeq(s, k + 1, Len(s)) = s
<1>1. Len(s) \in Nat /\ k \in Nat /\ k <= Len(s) /\ \A i \in 1 .. Len(s) : s[i] \in S
  BY LenProperties, ElementOfSeq
<1>2. /\ \A i \in 1 .. k : s[i] \in S
      /\ \A i \in k + 1 .. Len(s) : s[i] \in S
  BY <1>1
<1>3. PICK n \in Nat : n = Len(s)
  BY <1>1
<1>4. /\ SubSeq(s, 1, k) \in Seq(S)
      /\ Len(SubSeq(s, 1, k)) = IF 1 <= k THEN k - 1 + 1 ELSE 0
      /\ \A i \in 1 .. k - 1 + 1 : SubSeq(s, 1, k)[i] = s[1 + i - 1]
  BY <1>1, <1>2, SubSeqProperties
<1>5. k - 1 + 1 = k /\ (~ 1 <= k => k = 0) /\ \A i \in 1 .. k : 1 + i - 1 = i
  BY <1>1
<1>6. /\ SubSeq(s, k + 1, n) \in Seq(S)
      /\ Len(SubSeq(s, k + 1, n)) = IF k + 1 <= n THEN n - (k + 1) + 1 ELSE 0
      /\ \A i \in 1 .. n - (k + 1) + 1 : SubSeq(s, k + 1, n)[i] = s[k + 1 + i - 1]
  BY <1>1, <1>2, <1>3, SubSeqProperties
<1>7. /\ n - (k + 1) + 1 = n - k /\ (~ k + 1 <= n => n - k = 0)
      /\ \A i \in 1 .. n - k : k + 1 + i - 1 = k + i
  BY <1>1, <1>3
<1>8. /\ Len(SubSeq(s, k + 1, n)) = n - k
      /\ \A i \in 1 .. n - k : SubSeq(s, k + 1, n)[i] = s[k + i]
  BY <1>6, <1>7
<1>9. SubSeq(s, 1, k) \o SubSeq(s, k + 1, n) = s
  <2>1. 1 \in 1 .. Len(s) + 1 /\ k \in 1 - 1 .. Len(s) /\ Len(s) \in k .. Len(s)
    BY <1>1
  <2>2. SubSeq(s, 1, k) \o SubSeq(s, k + 1, Len(s)) = SubSeq(s, 1, Len(s))
    BY <2>1, ConcatAdjacentSubSeq
  <2> QED
    BY <1>3, <2>2, SubSeqFull
<1>10. Len(SubSeq(s, 1, k)) = k /\ \A i \in 1 .. k : SubSeq(s, 1, k)[i] = s[i]
  BY <1>4, <1>5
<1> QED
  BY <1>3, <1>4, <1>6, <1>8, <1>9, <1>10

\* The lengths and elements of a queue whose head is taken off.
LEMMA TailFacts ==
    ASSUME NEW S, NEW s \in Seq(S), s # <<>>
    PROVE  /\ Tail(s) \in Seq(S) /\ Head(s) = s[1] /\ Len(s) \in Nat \ {0}
           /\ Len(Tail(s)) = Len(s) - 1 /\ DOMAIN Tail(s) = 1 .. Len(s) - 1
           /\ \A i \in 1 .. Len(s) - 1 : Tail(s)[i] = s[i + 1]
<1>1. Len(s) \in Nat \ {0}
  BY EmptySeq, LenProperties
<1>2. /\ Tail(s) \in Seq(S) /\ Len(Tail(s)) = Len(s) - 1
      /\ \A i \in 1 .. Len(Tail(s)) : Tail(s)[i] = s[i + 1]
  BY HeadTailProperties
<1>3. DOMAIN Tail(s) = 1 .. Len(Tail(s))
  BY <1>2, LenProperties
<1> QED
  BY <1>1, <1>2, <1>3

\* p is one of the elements of s.
Among(p, s) == \E k \in 1 .. Len(s) : s[k] = p

\* The members of joined, extended and shortened queues.
LEMMA AmongFacts ==
    ASSUME NEW S, NEW s \in Seq(S), NEW t \in Seq(S), NEW p
    PROVE  /\ Among(p, s \o t) <=> Among(p, s) \/ Among(p, t)
           /\ \A x \in S : Among(p, Append(s, x)) <=> Among(p, s) \/ p = x
           /\ s # <<>> => (Among(p, s) <=> p = Head(s) \/ Among(p, Tail(s)))
<1>1. Among(p, s \o t) <=> Among(p, s) \/ Among(p, t)
  <2>1. /\ Len(s) \in Nat /\ Len(t) \in Nat /\ Len(s \o t) = Len(s) + Len(t)
        /\ \A i \in 1 .. Len(s) : (s \o t)[i] = s[i]
        /\ \A i \in 1 .. Len(t) : (s \o t)[Len(s) + i] = t[i]
    BY JoinFacts
  <2> DEFINE u == s \o t
  <2> HIDE DEF u
  <2>2. ASSUME Among(p, s) PROVE Among(p, u)
    <3>1. PICK k \in 1 .. Len(s) : s[k] = p
      BY <2>2 DEF Among
    <3>2. k \in 1 .. Len(u) /\ u[k] = p
      BY <2>1, <3>1 DEF u
    <3> QED
      BY <3>2 DEF Among
  <2>3. ASSUME Among(p, t) PROVE Among(p, u)
    <3>1. PICK k \in 1 .. Len(t) : t[k] = p
      BY <2>3 DEF Among
    <3>2. Len(s) + k \in 1 .. Len(u) /\ u[Len(s) + k] = p
      BY <2>1, <3>1 DEF u
    <3> QED
      BY <3>2 DEF Among
  <2>4. ASSUME Among(p, u) PROVE Among(p, s) \/ Among(p, t)
    <3>1. PICK k \in 1 .. Len(u) : u[k] = p
      BY <2>4 DEF Among
    <3>2. CASE k <= Len(s)
      <4>1. k \in 1 .. Len(s) /\ s[k] = p
        BY <2>1, <3>1, <3>2 DEF u
      <4> QED
        BY <4>1 DEF Among
    <3>3. CASE k > Len(s)
      <4> DEFINE m == k - Len(s)
      <4>1. m \in 1 .. Len(t) /\ Len(s) + m = k
        BY <2>1, <3>1, <3>3 DEF u
      <4> HIDE DEF m
      <4>2. t[m] = p
        BY <2>1, <3>1, <4>1 DEF u
      <4> QED
        BY <4>1, <4>2 DEF Among
    <3> QED
      BY <2>1, <3>2, <3>3
  <2> QED
    BY <2>2, <2>3, <2>4 DEF u
<1>2. ASSUME NEW x \in S PROVE Among(p, Append(s, x)) <=> Among(p, s) \/ p = x
  <2>1. /\ Len(s) \in Nat /\ Len(Append(s, x)) = Len(s) + 1
        /\ \A i \in 1 .. Len(s) : Append(s, x)[i] = s[i]
        /\ Append(s, x)[Len(s) + 1] = x
    BY AppendProperties, LenProperties
  <2> DEFINE u == Append(s, x)
  <2>2. \A i \in 1 .. Len(s) + 1 : i \in 1 .. Len(s) \/ i = Len(s) + 1
    BY <2>1
  <2>3. Len(s) + 1 \in 1 .. Len(s) + 1 /\ \A i \in 1 .. Len(s) : i \in 1 .. Len(s) + 1
    BY <2>1
  <2> HIDE DEF u
  <2> QED
    BY <2>1, <2>2, <2>3 DEF Among, u
<1>3. ASSUME s # <<>> PROVE Among(p, s) <=> p = Head(s) \/ Among(p, Tail(s))
  <2>1. /\ Head(s) = s[1] /\ Len(s) \in Nat \ {0} /\ Len(Tail(s)) = Len(s) - 1
        /\ \A i \in 1 .. Len(s) - 1 : Tail(s)[i] = s[i + 1]
    BY <1>3, TailFacts
  <2>2. 1 \in 1 .. Len(s) /\ \A i \in 1 .. Len(s) - 1 : i + 1 \in 1 .. Len(s)
    BY <2>1
  <2>3. \A k \in 1 .. Len(s) : k = 1 \/ (k - 1 \in 1 .. Len(s) - 1 /\ (k - 1) + 1 = k)
    BY <2>1
  <2>4. \A k \in 1 .. Len(s) : k = 1 \/ (k - 1 \in 1 .. Len(s) - 1 /\ Tail(s)[k - 1] = s[k])
    BY <2>1, <2>3
  <2>5. ASSUME Among(p, s) PROVE p = Head(s) \/ Among(p, Tail(s))
    BY <2>1, <2>4, <2>5 DEF Among
  <2>6. ASSUME p = Head(s) \/ Among(p, Tail(s)) PROVE Among(p, s)
    BY <2>1, <2>2, <2>6 DEF Among
  <2> QED
    BY <2>5, <2>6
<1> QED
  BY <1>1, <1>2, <1>3

-----------------------------------------------------------------------------
(* Counting                                                                *)

\* A sequence holds so many elements of a kind.
LEMMA CountType ==
    ASSUME NEW S, NEW s \in Seq(S), NEW K
    PROVE  /\ IsFiniteSet({i \in 1 .. Len(s) : s[i] \in K})
           /\ Count(s, K) \in Nat
           /\ Count(s, K) = 0 <=> \A i \in 1 .. Len(s) : s[i] \notin K
<1>1. Len(s) \in Nat
  BY LenProperties
<1>2. IsFiniteSet(1 .. Len(s))
  BY <1>1, FS_Interval
<1>3. {i \in 1 .. Len(s) : s[i] \in K} \in SUBSET (1 .. Len(s))
  OBVIOUS
<1> DEFINE M == {i \in 1 .. Len(s) : s[i] \in K}
<1>4. IsFiniteSet(M)
  BY <1>2, <1>3, FS_Subset
<1>5. M = {} <=> \A i \in 1 .. Len(s) : s[i] \notin K
  OBVIOUS
<1>6. Count(s, K) = Cardinality(M)
  BY DEF Count
<1> HIDE DEF M
<1>7. Cardinality(M) \in Nat /\ (Cardinality(M) = 0 <=> M = {})
  BY <1>4, FS_CardinalityType, FS_EmptySet
<1>8. Count(s, K) \in Nat /\ (Count(s, K) = 0 <=> M = {})
  BY <1>6, <1>7
<1> QED
  BY <1>4, <1>5, <1>8 DEF M

\* Two queues that are alike as far as K and L can tell.
LEMMA CountAlike ==
    ASSUME NEW s, NEW t, NEW K, NEW L, Len(s) = Len(t),
           \A i \in 1 .. Len(s) : s[i] \in K <=> t[i] \in L
    PROVE  Count(s, K) = Count(t, L)
<1>1. {i \in 1 .. Len(s) : s[i] \in K} = {i \in 1 .. Len(t) : t[i] \in L}
  OBVIOUS
<1> QED
  BY <1>1 DEF Count

\* Of two queues one behind the other.
LEMMA CountJoin ==
    ASSUME NEW S, NEW s \in Seq(S), NEW t \in Seq(S), NEW K
    PROVE  Count(s \o t, K) = Count(s, K) + Count(t, K)
<1> DEFINE A == {i \in 1 .. Len(s) : s[i] \in K}
           B == {i \in 1 .. Len(t) : t[i] \in K}
           B2 == {i \in Len(s) + 1 .. Len(s) + Len(t) : (s \o t)[i] \in K}
           C == {i \in 1 .. Len(s \o t) : (s \o t)[i] \in K}
           f == [i \in B |-> Len(s) + i]
<1>1. /\ Len(s) \in Nat /\ Len(t) \in Nat /\ Len(s \o t) = Len(s) + Len(t)
      /\ \A i \in 1 .. Len(s) : (s \o t)[i] = s[i]
      /\ \A i \in 1 .. Len(t) : (s \o t)[Len(s) + i] = t[i]
  BY JoinFacts
<1>2. IsFiniteSet(A) /\ IsFiniteSet(B)
  BY CountType
<1>3. f \in Bijection(B, B2)
  <2>1. \A i \in B : Len(s) + i \in B2
    BY <1>1
  <2>2. \A i, j \in B : Len(s) + i = Len(s) + j => i = j
    BY <1>1
  <2>3. \A j \in B2 : \E i \in B : Len(s) + i = j
    <3> SUFFICES ASSUME NEW j \in B2 PROVE \E i \in B : Len(s) + i = j
      OBVIOUS
    <3>1. j - Len(s) \in 1 .. Len(t) /\ Len(s) + (j - Len(s)) = j
      BY <1>1
    <3>2. t[j - Len(s)] \in K
      BY <1>1, <3>1
    <3> QED
      BY <3>1, <3>2
  <2> QED
    BY <2>1, <2>2, <2>3 DEF Bijection, Injection, Surjection, IsInjective
<1>4. IsFiniteSet(B2) /\ Cardinality(B2) = Cardinality(B)
  BY <1>2, <1>3, FS_Bijection DEF ExistsBijection
<1>5. A \cup B2 = C
  BY <1>1
<1>6. A \cap B2 = {}
  BY <1>1
<1>10. Count(s \o t, K) = Cardinality(C) /\ Count(s, K) = Cardinality(A)
       /\ Count(t, K) = Cardinality(B)
  BY DEF Count
<1> HIDE DEF A, B, B2, C, f
<1>7. Cardinality(C) = Cardinality(A) + Cardinality(B2) - Cardinality({})
  BY <1>2, <1>4, <1>5, <1>6, FS_Union
<1>8. Cardinality({}) = 0 /\ Cardinality(A) \in Nat /\ Cardinality(B2) \in Nat
  BY <1>2, <1>4, FS_EmptySet, FS_CardinalityType
<1>9. Cardinality(C) = Cardinality(A) + Cardinality(B)
  <2>1. PICK a \in Nat, b \in Nat : a = Cardinality(A) /\ b = Cardinality(B2)
    BY <1>8
  <2>2. Cardinality(C) = a + b - 0
    BY <1>7, <1>8, <2>1
  <2> QED
    BY <1>4, <2>1, <2>2
<1> QED
  BY <1>9, <1>10

\* An empty sequence holds none.
LEMMA CountNone == \A K : Count(<<>>, K) = 0
<1> SUFFICES ASSUME NEW K PROVE Count(<<>>, K) = 0
  OBVIOUS
<1>1. <<>> \in Seq(K) /\ Len(<<>>) = 0
  BY EmptySeq
<1>2. \A i \in 1 .. Len(<<>>) : <<>>[i] \notin K
  BY <1>1
<1> QED
  BY <1>1, <1>2, CountType

\* A sequence of one element holds it or does not.
LEMMA CountOne ==
    ASSUME NEW x, NEW K
    PROVE  Count(<<x>>, K) = IF x \in K THEN 1 ELSE 0
<1>1. Len(<<x>>) = 1 /\ <<x>>[1] = x
  OBVIOUS
<1> DEFINE M == {i \in 1 .. Len(<<x>>) : <<x>>[i] \in K}
<1>2. M = IF x \in K THEN {1} ELSE {}
  BY <1>1
<1>3. Count(<<x>>, K) = Cardinality(M)
  BY DEF Count
<1> HIDE DEF M
<1>4. Cardinality({1}) = 1 /\ Cardinality({}) = 0
  BY FS_EmptySet, FS_Singleton
<1> QED
  BY <1>2, <1>3, <1>4

\* Of a queue and one element more.
LEMMA CountAppend ==
    ASSUME NEW S, NEW s \in Seq(S), NEW x \in S, NEW K
    PROVE  Count(Append(s, x), K) = Count(s, K) + (IF x \in K THEN 1 ELSE 0)
<1>1. Append(s, x) = s \o <<x>> /\ <<x>> \in Seq(S)
  BY AppendIsConcat
<1>2. Count(s \o <<x>>, K) = Count(s, K) + Count(<<x>>, K)
  BY <1>1, CountJoin
<1>3. Count(<<x>>, K) = IF x \in K THEN 1 ELSE 0
  BY CountOne
<1> QED
  BY <1>1, <1>2, <1>3

\* Of a queue without its first element.
LEMMA CountTail ==
    ASSUME NEW S, NEW s \in Seq(S), s # <<>>, NEW K
    PROVE  Count(s, K) = Count(Tail(s), K) + (IF s[1] \in K THEN 1 ELSE 0)
<1>1. Len(s) \in Nat \ {0} /\ s[1] \in S
  BY EmptySeq, ElementOfSeq
<1>2. Tail(s) \in Seq(S) /\ Tail(s) = SubSeq(s, 2, Len(s))
  BY HeadTailProperties, TailIsSubSeq
<1>3. SubSeq(s, 1, 1) = <<s[1]>>
  <2>1. 1 \in 0 .. Len(s)
    BY <1>1
  <2>2. /\ SubSeq(s, 1, 1) \in Seq(S) /\ Len(SubSeq(s, 1, 1)) = 1
        /\ SubSeq(s, 1, 1)[1] = s[1]
    BY <2>1, CutFacts
  <2>3. <<s[1]>> \in Seq(S) /\ Len(<<s[1]>>) = 1 /\ <<s[1]>>[1] = s[1]
    BY <1>1
  <2>4. \A i \in 1 .. 1 : SubSeq(s, 1, 1)[i] = <<s[1]>>[i]
    BY <2>2, <2>3
  <2> QED
    BY <2>2, <2>3, <2>4, SeqEqual
<1>4. <<s[1]>> \o Tail(s) = s
  <2>1. 1 \in 0 .. Len(s) /\ 1 + 1 = 2
    BY <1>1
  <2> QED
    BY <1>2, <1>3, <2>1, CutFacts
<1>5. <<s[1]>> \in Seq(S)
  BY <1>1
<1>6. Count(<<s[1]>> \o Tail(s), K) = Count(<<s[1]>>, K) + Count(Tail(s), K)
  BY <1>2, <1>5, CountJoin
<1>7. Count(Tail(s), K) \in Nat
  BY <1>2, CountType
<1>8. Count(<<s[1]>>, K) = IF s[1] \in K THEN 1 ELSE 0
  BY CountOne
<1>9. Count(s, K) = Count(<<s[1]>>, K) + Count(Tail(s), K)
  BY <1>4, <1>6, Zenon
<1> QED
  BY <1>7, <1>8, <1>9

\* Of the first k elements of a queue and of the others.
LEMMA CountCut ==
    ASSUME NEW S, NEW s \in Seq(S), NEW k \in 0 .. Len(s), NEW K
    PROVE  Count(s, K) = Count(SubSeq(s, 1, k), K) + Count(SubSeq(s, k + 1, Len(s)), K)
<1>1. /\ SubSeq(s, 1, k) \in Seq(S) /\ SubSeq(s, k + 1, Len(s)) \in Seq(S)
      /\ SubSeq(s, 1, k) \o SubSeq(s, k + 1, Len(s)) = s
  BY CutFacts
<1>2. Count(SubSeq(s, 1, k) \o SubSeq(s, k + 1, Len(s)), K)
          = Count(SubSeq(s, 1, k), K) + Count(SubSeq(s, k + 1, Len(s)), K)
  BY <1>1, CountJoin
<1> QED
  BY <1>1, <1>2

-----------------------------------------------------------------------------
(* Least numbers                                                           *)

\* A set of numbers that is not empty has a least one.
LEMMA Least ==
    ASSUME NEW T \in SUBSET Nat, T # {}
    PROVE  \E x \in T : \A y \in T : x <= y
<1>1. IsWellFoundedOn(OpToRel(<, Nat), Nat)
  BY NatLessThanWellFounded
<1>2. PICK x \in T : \A y \in T : ~(<<y, x>> \in OpToRel(<, Nat))
  BY <1>1, WFMin
<1>3. ASSUME NEW y \in T PROVE x <= y
  <2>1. ~(y < x)
    BY <1>2 DEF OpToRel
  <2> QED
    BY <2>1
<1> QED
  BY <1>3
-----------------------------------------------------------------------------
(* Functions defined by recursion                                          *)

\* A set that holds 0 and with each number below n the next one holds them all.
LEMMA Climb ==
    ASSUME NEW n \in Nat, NEW T, 0 \in T, \A i \in 1 .. n : i - 1 \in T => i \in T
    PROVE  0 .. n \subseteq T
<1> DEFINE U == (0 .. n) \ T
<1> SUFFICES ASSUME U # {} PROVE FALSE
  OBVIOUS
<1>1. U \in SUBSET Nat
  OBVIOUS
<1> HIDE DEF U
<1>2. PICK x \in U : \A y \in U : x <= y
  BY <1>1, Least
<1>3. x \in 0 .. n /\ x \notin T /\ \A y \in 0 .. n : y < x => y \in T
  BY <1>2 DEF U
<1> QED
  BY <1>3

\* g is what the steps F make of b, up to n.
Unrolls(g, b, F, n) == g[0] = b /\ \A i \in 1 .. n : g[i] = F[<<g[i - 1], i>>]

\* A value for 0 and a step to each of the numbers up to n make a function.
LEMMA Recursion ==
    ASSUME NEW S, NEW b \in S, NEW n \in Nat, NEW F \in [S \X (1 .. n) -> S]
    PROVE  \E g \in [0 .. n -> S] : Unrolls(g, b, F, n)
<1> DEFINE Upto(m) == \E g \in [0 .. m -> S] : Unrolls(g, b, F, m)
           T == {m \in 0 .. n : Upto(m)}
<1>1. Upto(0)
  <2>1. [i \in 0 .. 0 |-> b] \in [0 .. 0 -> S]
    OBVIOUS
  <2>2. Unrolls([i \in 0 .. 0 |-> b], b, F, 0)
    BY DEF Unrolls
  <2> QED
    BY <2>1, <2>2
<1>2. ASSUME NEW m \in 1 .. n, Upto(m - 1)
      PROVE  Upto(m)
  <2>1. PICK g \in [0 .. m - 1 -> S] : Unrolls(g, b, F, m - 1)
    BY <1>2
  <2> DEFINE h == [i \in 0 .. m |-> IF i = m THEN F[<<g[m - 1], m>>] ELSE g[i]]
  <2>2. F[<<g[m - 1], m>>] \in S
    BY <2>1
  <2>3. h \in [0 .. m -> S] /\ h[m] = F[<<g[m - 1], m>>] /\ \A i \in 0 .. m - 1 : h[i] = g[i]
    BY <2>1, <2>2
  <2> HIDE DEF h
  <2>4. h[0] = b
    BY <2>1, <2>3 DEF Unrolls
  <2>5. ASSUME NEW i \in 1 .. m
        PROVE  h[i] = F[<<h[i - 1], i>>]
    <3>1. CASE i = m
      <4>1. h[i - 1] = g[i - 1]
        BY <2>3
      <4> QED
        BY <3>1, <2>3, <4>1
    <3>2. CASE i # m
      <4>1. i \in 1 .. m - 1 /\ i \in 0 .. m - 1 /\ i - 1 \in 0 .. m - 1
        BY <3>2
      <4>2. g[i] = F[<<g[i - 1], i>>]
        BY <2>1, <4>1 DEF Unrolls
      <4>3. h[i] = g[i] /\ h[i - 1] = g[i - 1]
        BY <2>3, <4>1
      <4> QED
        BY <4>2, <4>3
    <3> QED
      BY <3>1, <3>2
  <2> QED
    BY <2>3, <2>4, <2>5 DEF Unrolls
<1>3. Upto(n)
  <2> HIDE DEF Upto
  <2>1. 0 \in T /\ \A i \in 1 .. n : i - 1 \in T => i \in T
    BY <1>1, <1>2
  <2> HIDE DEF T
  <2>2. 0 .. n \subseteq T
    BY <2>1, Climb
  <2> QED
    BY <2>2 DEF T
<1> QED
  BY <1>3

\* Two functions on 0 .. n made from the same value by the same steps are equal.
LEMMA RecursionUnique ==
    ASSUME NEW b, NEW F, NEW n \in Nat, NEW g, NEW h,
           Unrolls(g, b, F, n), Unrolls(h, b, F, n)
    PROVE  \A i \in 0 .. n : g[i] = h[i]
<1> DEFINE T == {i \in 0 .. n : g[i] = h[i]}
<1>1. 0 \in T
  BY DEF Unrolls
<1>2. ASSUME NEW i \in 1 .. n, i - 1 \in T PROVE i \in T
  <2>1. g[i] = F[<<g[i - 1], i>>] /\ h[i] = F[<<h[i - 1], i>>]
    BY DEF Unrolls
  <2>2. g[i - 1] = h[i - 1]
    BY <1>2
  <2> QED
    BY <2>1, <2>2
<1>3. 0 .. n \subseteq T
  <2> HIDE DEF T
  <2> QED
    BY <1>1, <1>2, Climb
<1> QED
  BY <1>3

\* A value for 0 and a step to every other number make a function too.
LEMMA RecursionNat ==
    ASSUME NEW S, NEW b \in S, NEW F \in [S \X (Nat \ {0}) -> S]
    PROVE  \E g \in [Nat -> S] : \A n \in Nat : Unrolls(g, b, F, n)
<1>1. ASSUME NEW n \in Nat PROVE \E g \in [0 .. n -> S] : Unrolls(g, b, F, n)
  <2> DEFINE G == [x \in S \X (1 .. n) |-> F[x]]
  <2>1. G \in [S \X (1 .. n) -> S]
    OBVIOUS
  <2>2. \A s \in S, i \in 1 .. n : G[<<s, i>>] = F[<<s, i>>]
    OBVIOUS
  <2> HIDE DEF G
  <2>3. PICK g \in [0 .. n -> S] : Unrolls(g, b, G, n)
    BY <2>1, Recursion
  <2>4. ASSUME NEW i \in 1 .. n PROVE g[i] = F[<<g[i - 1], i>>]
    <3>1. g[i] = G[<<g[i - 1], i>>]
      BY <2>3 DEF Unrolls
    <3>2. i - 1 \in 0 .. n
      OBVIOUS
    <3>3. g[i - 1] \in S
      BY <3>2
    <3> QED
      BY <2>2, <3>1, <3>3
  <2> QED
    BY <2>3, <2>4 DEF Unrolls
<1> DEFINE up == [n \in Nat |-> CHOOSE g \in [0 .. n -> S] : Unrolls(g, b, F, n)]
<1>2. \A n \in Nat : up[n] \in [0 .. n -> S] /\ Unrolls(up[n], b, F, n)
  BY <1>1
<1> HIDE DEF up
<1> DEFINE g == [n \in Nat |-> up[n][n]]
<1>3. ASSUME NEW n \in Nat
      PROVE  g[n] \in S /\ g[n] = IF n = 0 THEN b ELSE F[<<g[n - 1], n>>]
  <2>1. g[n] = up[n][n] /\ up[n][n] \in S /\ Unrolls(up[n], b, F, n)
    BY <1>2
  <2>2. CASE n = 0
    BY <2>1, <2>2 DEF Unrolls
  <2>3. CASE n # 0
    <3>1. PICK m \in Nat : n - 1 = m /\ m \in 0 .. m /\ \A i \in 1 .. m : i \in 1 .. n
      BY <2>3
    <3>2. Unrolls(up[n], b, F, m) /\ Unrolls(up[m], b, F, m)
      BY <1>2, <2>1, <3>1 DEF Unrolls
    <3>3. up[n][m] = up[m][m]
      <4> HIDE DEF g
      <4>1. PICK x, y : x = up[n] /\ y = up[m]
        OBVIOUS
      <4>2. Unrolls(x, b, F, m) /\ Unrolls(y, b, F, m)
        BY <3>2, <4>1
      <4>3. \A i \in 0 .. m : x[i] = y[i]
        BY <4>2, RecursionUnique
      <4> QED
        BY <3>1, <4>1, <4>3
    <3>4. up[n][n] = F[<<up[n][m], n>>]
      BY <2>1, <2>3, <3>1 DEF Unrolls
    <3>5. g[m] = up[m][m]
      OBVIOUS
    <3> HIDE DEF g
    <3> QED
      BY <2>1, <2>3, <3>1, <3>3, <3>4, <3>5
  <2> QED
    BY <2>2, <2>3
<1>4. g \in [Nat -> S] /\ g = [n \in Nat |-> g[n]]
  BY <1>3
<1> HIDE DEF g
<1>5. g[0] = b /\ \A i \in Nat : i # 0 => g[i] = F[<<g[i - 1], i>>]
  BY <1>3
<1>6. \A n \in Nat : Unrolls(g, b, F, n)
  BY <1>5 DEF Unrolls
<1> QED
  BY <1>4, <1>6
=============================================================================
