----------------------------- MODULE QueueLemmas -----------------------------
(***************************************************************************)
(* What the sequence operators used to model deques and lists preserve:    *)
(* their type and their elements.                                          *)
(***************************************************************************)
EXTENDS Integers, Sequences, SequencesExt, FiniteSets, FiniteSetTheorems,
        WellFoundedInduction, TLAPS

\* e stands somewhere in the sequence s.
Elem(e, s) == \E k \in DOMAIN s : s[k] = e

\* Min picks a smallest element of every non-empty set of naturals: the index
\* that deque.remove() deletes is well defined.
LEMMA MinOfNaturals ==
  ASSUME NEW S, S \subseteq Nat, S # {}
  PROVE  Min(S) \in S /\ \A y \in S : Min(S) <= y
<1> DEFINE R == OpToRel(<, Nat)
<1>1. IsWellFoundedOn(R, Nat)
  BY NatLessThanWellFounded
<1>2. \A j, k \in Nat : j < k => <<j, k>> \in R
  BY DEF OpToRel
<1> HIDE DEF R
<1>3. PICK x \in S : \A y \in S : ~ (<<y, x>> \in R)
  BY <1>1, WFMin
<1>4. ASSUME NEW y \in S
      PROVE  x <= y
  <2>1. x \in Nat /\ y \in Nat
    OBVIOUS
  <2>2. ~ (y < x)
    BY <1>2, <1>3, <2>1
  <2> QED BY <2>1, <2>2
<1> QED
  BY <1>4 DEF Min

\* Removing the first occurrence of an element that is there deletes one
\* place: what is before stays, what is behind moves up.
LEMMA RemoveFirstPositions ==
  ASSUME NEW S, NEW s \in Seq(S), NEW e, Elem(e, s)
  PROVE  \E m \in 1 .. Len(s) :
           /\ s[m] = e
           /\ RemoveFirst(s, e) \in Seq(S)
           /\ Len(RemoveFirst(s, e)) = Len(s) - 1
           /\ \A k \in 1 .. Len(s) - 1 :
                RemoveFirst(s, e)[k] = IF k < m THEN s[k] ELSE s[k + 1]
<1> DEFINE I == {i \in 1 .. Len(s) : s[i] = e}
           m == Min(I)
<1>1. I \subseteq Nat /\ I # {} /\ \E i \in 1 .. Len(s) : s[i] = e
  BY DEF Elem
<1>2. m \in 1 .. Len(s) /\ s[m] = e
  <2>1. m \in I
    BY <1>1, MinOfNaturals
  <2> QED BY <2>1
<1>3. RemoveFirst(s, e) = RemoveAt(s, m)
  BY <1>1, Zenon DEF RemoveFirst, SelectInSeq
<1> HIDE DEF m
<1>4. RemoveAt(s, m) \in Seq(S)
  BY <1>2 DEF RemoveAt
<1> DEFINE u == SubSeq(s, 1, m - 1)
           v == SubSeq(s, m + 1, Len(s))
<1>5. /\ u \in Seq(S) /\ Len(u) = m - 1
      /\ \A k \in 1 .. m - 1 : u[k] = s[k]
  BY <1>2
<1>6. /\ v \in Seq(S) /\ Len(v) = Len(s) - m
      /\ \A k \in 1 .. Len(s) - m : v[k] = s[m + k]
  BY <1>2
<1>7. RemoveAt(s, m) = u \o v
  BY DEF RemoveAt
<1> HIDE DEF u, v
<1>8. Len(u \o v) = Len(s) - 1
  BY <1>2, <1>5, <1>6
<1>9. ASSUME NEW k \in 1 .. Len(s) - 1
      PROVE  (u \o v)[k] = IF k < m THEN s[k] ELSE s[k + 1]
  <2>1. CASE k < m
    BY <1>2, <1>5, <1>6, <2>1
  <2>2. CASE ~ (k < m)
    <3>1. k \in Len(u) + 1 .. Len(u) + Len(v)
      BY <1>2, <1>5, <1>6, <2>2
    <3>2. (u \o v)[k] = v[k - Len(u)]
      BY <1>5, <1>6, <3>1
    <3>3. k - (m - 1) \in 1 .. Len(s) - m /\ m + (k - (m - 1)) = k + 1
      BY <1>2, <2>2
    <3> QED BY <1>5, <1>6, <2>2, <3>2, <3>3
  <2> QED BY <2>1, <2>2
<1> QED BY <1>2, <1>3, <1>4, <1>7, <1>8, <1>9

\* Removing the first occurrence of an element keeps the type, adds nothing,
\* and removes no other element.
LEMMA RemoveFirstFacts ==
  ASSUME NEW S, NEW s \in Seq(S), NEW e
  PROVE  /\ RemoveFirst(s, e) \in Seq(S)
         /\ \A x : Elem(x, RemoveFirst(s, e)) => Elem(x, s)
         /\ \A x : Elem(x, s) /\ x # e => Elem(x, RemoveFirst(s, e))
<1>1. CASE ~ Elem(e, s)
  <2>1. ~ \E i \in 1 .. Len(s) : s[i] = e
    BY <1>1 DEF Elem
  <2>2. RemoveFirst(s, e) = s
    BY <2>1, Zenon DEF RemoveFirst
  <2> QED BY <2>2
<1>2. CASE Elem(e, s)
  <2>1. \E m \in 1 .. Len(s) :
          /\ s[m] = e
          /\ RemoveFirst(s, e) \in Seq(S)
          /\ Len(RemoveFirst(s, e)) = Len(s) - 1
          /\ \A k \in 1 .. Len(s) - 1 :
               RemoveFirst(s, e)[k] = IF k < m THEN s[k] ELSE s[k + 1]
    BY <1>2, RemoveFirstPositions
  <2> DEFINE t == RemoveFirst(s, e)
  <2> HIDE DEF t
  <2>2. PICK m \in 1 .. Len(s) :
          /\ s[m] = e
          /\ t \in Seq(S)
          /\ Len(t) = Len(s) - 1
          /\ \A k \in 1 .. Len(s) - 1 : t[k] = IF k < m THEN s[k] ELSE s[k + 1]
    BY <2>1 DEF t
  <2>3. \A x : Elem(x, t) => Elem(x, s)
    BY <2>2 DEF Elem
  <2>4. ASSUME NEW x, Elem(x, s), x # e
        PROVE  Elem(x, t)
    <3>1. PICK k \in 1 .. Len(s) : s[k] = x
      BY <2>4 DEF Elem
    <3>2. k # m
      BY <2>2, <2>4, <3>1
    <3>3. CASE k < m
      <4>1. k \in 1 .. Len(s) - 1 /\ t[k] = x
        BY <2>2, <3>1, <3>3
      <4> QED BY <2>2, <4>1 DEF Elem
    <3>4. CASE k > m
      <4>1. k - 1 \in 1 .. Len(s) - 1 /\ t[k - 1] = x
        BY <2>2, <3>1, <3>4
      <4> QED BY <2>2, <4>1 DEF Elem
    <3> QED BY <2>2, <3>2, <3>3, <3>4
  <2> QED BY <2>2, <2>3, <2>4 DEF t
<1> QED BY <1>1, <1>2

\* Appending adds exactly the appended element.
LEMMA AppendFacts ==
  ASSUME NEW S, NEW s \in Seq(S), NEW e \in S
  PROVE  /\ Append(s, e) \in Seq(S)
         /\ \A x : Elem(x, Append(s, e)) <=> Elem(x, s) \/ x = e
<1>1. Append(s, e) \in Seq(S)
  OBVIOUS
<1>2. ASSUME NEW x
      PROVE  Elem(x, Append(s, e)) => Elem(x, s) \/ x = e
  BY <1>1 DEF Elem
<1>3. ASSUME NEW x, Elem(x, s)
      PROVE  Elem(x, Append(s, e))
  <2>1. PICK k \in 1 .. Len(s) : s[k] = x
    BY <1>3 DEF Elem
  <2>2. k \in 1 .. Len(Append(s, e)) /\ Append(s, e)[k] = x
    BY <2>1
  <2> QED BY <1>1, <2>2 DEF Elem
<1>4. Elem(e, Append(s, e))
  <2>1. Len(s) + 1 \in 1 .. Len(Append(s, e)) /\ Append(s, e)[Len(s) + 1] = e
    OBVIOUS
  <2> QED BY <1>1, <2>1 DEF Elem
<1> QED BY <1>1, <1>2, <1>3, <1>4

\* A non-empty sequence is its head and its tail.
LEMMA HeadTailFacts ==
  ASSUME NEW S, NEW s \in Seq(S), s # <<>>
  PROVE  /\ Head(s) \in S
         /\ Tail(s) \in Seq(S)
         /\ \A x : Elem(x, s) <=> x = Head(s) \/ Elem(x, Tail(s))
<1>1. Head(s) \in S /\ Tail(s) \in Seq(S) /\ Len(s) \in Nat /\ Len(s) > 0
  OBVIOUS
<1>2. /\ Head(s) = s[1]
      /\ Len(Tail(s)) = Len(s) - 1
      /\ \A k \in 1 .. Len(s) - 1 : Tail(s)[k] = s[k + 1]
  OBVIOUS
<1>3. ASSUME NEW x, Elem(x, s)
      PROVE  x = Head(s) \/ Elem(x, Tail(s))
  <2>1. PICK k \in 1 .. Len(s) : s[k] = x
    BY <1>3 DEF Elem
  <2>2. CASE k = 1
    BY <1>2, <2>1, <2>2
  <2>3. CASE k # 1
    <3>1. k - 1 \in 1 .. Len(s) - 1 /\ Tail(s)[k - 1] = x
      BY <1>1, <1>2, <2>1, <2>3
    <3>2. DOMAIN Tail(s) = 1 .. Len(s) - 1
      BY <1>1, <1>2
    <3> QED BY <3>1, <3>2 DEF Elem
  <2> QED BY <2>2, <2>3
<1>4. ASSUME NEW x, Elem(x, Tail(s))
      PROVE  Elem(x, s)
  <2>1. PICK k \in 1 .. Len(s) - 1 : Tail(s)[k] = x
    BY <1>1, <1>2, <1>4 DEF Elem
  <2>2. k + 1 \in 1 .. Len(s) /\ s[k + 1] = x
    BY <1>1, <1>2, <2>1
  <2> QED BY <2>2 DEF Elem
<1>5. Elem(Head(s), s)
  <2>1. 1 \in 1 .. Len(s)
    BY <1>1
  <2> QED BY <1>2, <2>1 DEF Elem
<1> QED BY <1>1, <1>3, <1>4, <1>5

\* In a sequence without repetition the head is not in the tail, and the tail
\* repeats nothing either.
LEMMA TailOfInjective ==
  ASSUME NEW S, NEW s \in Seq(S), s # <<>>,
         \A j, k \in DOMAIN s : s[j] = s[k] => j = k
  PROVE  /\ ~ Elem(Head(s), Tail(s))
         /\ \A j, k \in DOMAIN Tail(s) : Tail(s)[j] = Tail(s)[k] => j = k
<1>1. /\ Len(s) \in Nat /\ Len(s) > 0 /\ Head(s) = s[1]
      /\ DOMAIN s = 1 .. Len(s) /\ DOMAIN Tail(s) = 1 .. Len(s) - 1
      /\ \A k \in 1 .. Len(s) - 1 : Tail(s)[k] = s[k + 1]
  OBVIOUS
<1>2. \A k \in 1 .. Len(s) - 1 : k + 1 \in DOMAIN s /\ k + 1 # 1
  BY <1>1
<1>3. 1 \in DOMAIN s
  BY <1>1
<1>4. ~ Elem(Head(s), Tail(s))
  BY <1>1, <1>2, <1>3 DEF Elem
<1>5. ASSUME NEW j \in DOMAIN Tail(s), NEW k \in DOMAIN Tail(s),
             Tail(s)[j] = Tail(s)[k]
      PROVE  j = k
  <2>1. j + 1 = k + 1
    BY <1>1, <1>2, <1>5
  <2> QED BY <1>1, <2>1
<1> QED BY <1>4, <1>5

\* A sequence over a subset is a sequence over the set.
LEMMA SequencesOverSubset ==
  ASSUME NEW S, NEW T, T \subseteq S, NEW s \in Seq(T)
  PROVE  s \in Seq(S)
<1>1. Len(s) \in Nat /\ s \in [1 .. Len(s) -> T]
  OBVIOUS
<1>2. s \in [1 .. Len(s) -> S]
  BY <1>1
<1> QED BY <1>1, <1>2

\* A listing of a finite set without repetition is a sequence over the set,
\* repeats nothing and misses nothing: it is injective, and an injection
\* between finite sets of one size is onto.
LEMMA SetToSeqsFacts ==
  ASSUME NEW S, IsFiniteSet(S), NEW s \in SetToSeqs(S)
  PROVE  /\ s \in Seq(S)
         /\ \A j, k \in DOMAIN s : s[j] = s[k] => j = k
         /\ \A x : Elem(x, s) <=> x \in S
<1> DEFINE n == Cardinality(S)
           D == 1 .. n
<1>1. n \in Nat
  BY FS_CardinalityType
<1>2. s \in [D -> S] /\ \A j, k \in D : j # k => s[j] # s[k]
  BY Zenon DEF SetToSeqs
<1>3. s \in Seq(S)
  BY <1>1, <1>2
<1>4. IsFiniteSet(D) /\ Cardinality(D) = n
  BY <1>1, FS_Interval
<1>5. s \in Injection(D, S)
  BY <1>2 DEF Injection, IsInjective
<1>6. s \in Surjection(D, S)
  BY <1>4, <1>5, FS_Injection
<1>7. \A x \in S : \E k \in D : s[k] = x
  BY <1>6 DEF Surjection
<1> QED
  BY <1>2, <1>3, <1>7 DEF Elem
=============================================================================
