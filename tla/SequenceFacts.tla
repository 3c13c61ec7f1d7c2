--------------------------- MODULE SequenceFacts ---------------------------
(***************************************************************************)
(* Facts about sequences, about sets of numbers and about functions        *)
(* defined by recursion, for the proofs about the B+ tree and the parse.   *)
(***************************************************************************)
EXTENDS Integers, FiniteSets, SequencesExt, SequenceTheorems, FiniteSetTheorems, TLAPS

-----------------------------------------------------------------------------
(* Induction and recursion                                                 *)

\* A set of numbers that has a number has a least one.
LEMMA LeastNumber ==
    ASSUME NEW T \in SUBSET Nat, T # {}
    PROVE  \E x \in T : \A y \in T : x <= y
<1>1. PICK x \in T : \A y \in T : ~(<<y, x>> \in OpToRel(<, Nat))
  BY WFMin, NatLessThanWellFounded
<1>2. \A y \in T : ~(y < x)
  BY <1>1 DEF OpToRel
<1> QED
  BY <1>2

\* Induction over the numbers, for a set of them.
LEMMA NatSetInduction ==
    ASSUME NEW T \in SUBSET Nat, \A n \in Nat : (\A m \in 0..(n - 1) : m \in T) => n \in T
    PROVE  T = Nat
<1> SUFFICES ASSUME Nat \ T # {} PROVE FALSE
  OBVIOUS
<1>1. PICK x \in Nat \ T : \A y \in Nat \ T : x <= y
  BY LeastNumber
<1>2. \A m \in 0..(x - 1) : m \in T
  BY <1>1
<1> QED
  BY <1>1, <1>2

\* Induction along a measure, for a set of what it measures.
LEMMA MeasureInduction ==
    ASSUME NEW D, NEW h \in [D -> Nat], NEW T \in SUBSET D,
           \A a \in D : (\A b \in D : h[b] < h[a] => b \in T) => a \in T
    PROVE  T = D
<1> DEFINE N == {n \in Nat : \A a \in D : h[a] <= n => a \in T}
<1>1. ASSUME NEW n \in Nat, \A m \in 0..(n - 1) : m \in N PROVE n \in N
  <2> SUFFICES ASSUME NEW a \in D, h[a] <= n PROVE a \in T
    OBVIOUS
  <2>1. ASSUME NEW b \in D, h[b] < h[a] PROVE b \in T
    <3>1. h[b] \in Nat /\ h[b] \in 0..(n - 1)
      BY <2>1
    <3> QED
      BY <3>1, <1>1
  <2> QED
    BY <2>1
<1>2. N = Nat
  <2> HIDE DEF N
  <2>1. N \in SUBSET Nat
    BY DEF N
  <2> QED
    BY <1>1, <2>1, NatSetInduction
<1>3. ASSUME NEW a \in D PROVE a \in T
  <2>1. h[a] \in N
    BY <1>2
  <2> QED
    BY <2>1
<1> QED
  BY <1>3

\* A recursion from the members of D, which have values in V: those in E have
\* their own, the others have one made of that of the next.  A bounded measure
\* falls with each call.
Recursion(D, V, E, base, next, step, h, bound) ==
    /\ E \subseteq D /\ base \in [D -> V]
    /\ next \in [D \ E -> D] /\ step \in [(D \ E) \X V -> V]
    /\ h \in [D -> Nat] /\ bound \in Nat
    /\ \A c \in D : h[c] < bound
    /\ \A c \in D \ E : h[next[c]] < h[c]

\* The function that such a recursion defines exists.
LEMMA RecursiveFunction ==
    ASSUME NEW D, NEW V, NEW E, NEW base, NEW next, NEW step, NEW h, NEW bound,
           Recursion(D, V, E, base, next, step, h, bound)
    PROVE  \E f \in [D -> V] : \A c \in D :
              f[c] = IF c \in E THEN base[c] ELSE step[<<c, f[next[c]]>>]
<1>1. /\ E \subseteq D /\ base \in [D -> V]
      /\ next \in [D \ E -> D] /\ step \in [(D \ E) \X V -> V]
      /\ h \in [D -> Nat] /\ bound \in Nat
      /\ \A c \in D : h[c] < bound
      /\ \A c \in D \ E : h[next[c]] < h[c]
  BY DEF Recursion
<1> DEFINE Right(f, c) == f[c] = IF c \in E THEN base[c] ELSE step[<<c, f[next[c]]>>]
           T == {n \in Nat : \E f \in [D -> V] : \A c \in D : h[c] < n => Right(f, c)}
<1>2. ASSUME NEW n \in Nat, \A m \in 0..(n - 1) : m \in T PROVE n \in T
  <2>1. CASE n = 0
    <3>1. \A c \in D : h[c] < n => Right(base, c)
      BY <1>1, <2>1
    <3> QED
      BY <1>1, <3>1
  <2>2. CASE n > 0
    <3>1. n - 1 \in T
      BY <1>2, <2>2
    <3>2. PICK f \in [D -> V] : \A c \in D : h[c] < n - 1 => Right(f, c)
      BY <3>1
    <3> DEFINE g == [c \in D |-> IF h[c] < n - 1 THEN f[c]
                                 ELSE IF c \in E THEN base[c] ELSE step[<<c, f[next[c]]>>]]
    <3>3. g \in [D -> V]
      <4>1. ASSUME NEW c \in D, c \notin E PROVE step[<<c, f[next[c]]>>] \in V
        BY <1>1, <4>1
      <4> QED
        BY <1>1, <4>1
    <3>4. ASSUME NEW c \in D, h[c] < n PROVE Right(g, c)
      <4>1. CASE c \in E
        BY <3>2, <4>1
      <4>2. CASE c \notin E
        <5>1. next[c] \in D /\ h[next[c]] \in Nat /\ h[next[c]] < n - 1
          BY <1>1, <3>4, <4>2
        <5>2. g[next[c]] = f[next[c]]
          BY <5>1
        <5>3. g[c] = step[<<c, f[next[c]]>>]
          BY <3>2, <4>2
        <5> QED
          BY <5>2, <5>3, <4>2
      <4> QED
        BY <4>1, <4>2
    <3> HIDE DEF g
    <3> QED
      BY <3>3, <3>4
  <2> QED
    BY <2>1, <2>2
<1>3. T = Nat
  <2> HIDE DEF T
  <2>1. T \in SUBSET Nat
    BY DEF T
  <2> QED
    BY <1>2, <2>1, NatSetInduction
<1>4. PICK f \in [D -> V] : \A c \in D : h[c] < bound => Right(f, c)
  BY <1>1, <1>3
<1> QED
  BY <1>1, <1>4

-----------------------------------------------------------------------------
(* Sequences                                                               *)

\* A sequence with an element put in.
LEMMA InsertAtProperties ==
    ASSUME NEW S, NEW s \in Seq(S), NEW i \in 1..(Len(s) + 1), NEW e \in S
    PROVE  /\ InsertAt(s, i, e) \in Seq(S)
           /\ Len(InsertAt(s, i, e)) = Len(s) + 1
           /\ \A j \in 1..(Len(s) + 1) :
                InsertAt(s, i, e)[j] = IF j < i THEN s[j] ELSE IF j = i THEN e ELSE s[j - 1]
<1> DEFINE f == SubSeq(s, 1, i - 1)
           b == SubSeq(s, i, Len(s))
<1>1. Len(s) \in Nat /\ \A j \in 1..Len(s) : s[j] \in S
  BY LenProperties
<1>2. /\ f \in Seq(S) /\ Len(f) = i - 1
      /\ \A j \in 1..(i - 1) : f[j] = s[j]
  BY <1>1, SubSeqProperties
<1>3. /\ b \in Seq(S) /\ Len(b) = Len(s) - i + 1
      /\ \A j \in 1..(Len(s) - i + 1) : b[j] = s[i + j - 1]
  BY <1>1, SubSeqProperties
<1>4. <<e>> \in Seq(S) /\ Len(<<e>>) = 1 /\ <<e>>[1] = e
  OBVIOUS
<1> HIDE DEF f, b
<1> DEFINE fe == f \o <<e>>
<1>5. /\ fe \in Seq(S) /\ Len(fe) = i
      /\ \A j \in 1..i : fe[j] = IF j < i THEN f[j] ELSE e
  BY <1>1, <1>2, <1>4, ConcatProperties
<1> HIDE DEF fe
<1>6. /\ fe \o b \in Seq(S) /\ Len(fe \o b) = Len(s) + 1
      /\ \A j \in 1..(Len(s) + 1) : (fe \o b)[j] = IF j <= i THEN fe[j] ELSE b[j - i]
  <2>1. /\ fe \o b \in Seq(S) /\ Len(fe \o b) = Len(fe) + Len(b)
        /\ \A j \in 1..Len(fe) + Len(b) :
              (fe \o b)[j] = IF j <= Len(fe) THEN fe[j] ELSE b[j - Len(fe)]
    BY <1>3, <1>5, ConcatProperties
  <2>2. Len(fe) + Len(b) = Len(s) + 1
    BY <1>1, <1>3, <1>5
  <2> QED
    BY <1>5, <2>1, <2>2
<1>7. InsertAt(s, i, e) = fe \o b
  BY DEF InsertAt, fe, f, b
<1>8. ASSUME NEW j \in 1..(Len(s) + 1)
      PROVE  (fe \o b)[j] = IF j < i THEN s[j] ELSE IF j = i THEN e ELSE s[j - 1]
  BY <1>1, <1>2, <1>3, <1>5, <1>6
<1> QED
  BY <1>6, <1>7, <1>8

\* A sequence with an element taken out.
LEMMA RemoveAtProperties ==
    ASSUME NEW S, NEW s \in Seq(S), NEW i \in 1..Len(s)
    PROVE  /\ RemoveAt(s, i) \in Seq(S)
           /\ Len(RemoveAt(s, i)) = Len(s) - 1
           /\ \A j \in 1..(Len(s) - 1) : RemoveAt(s, i)[j] = IF j < i THEN s[j] ELSE s[j + 1]
<1> DEFINE f == SubSeq(s, 1, i - 1)
           b == SubSeq(s, i + 1, Len(s))
<1>1. Len(s) \in Nat /\ \A j \in 1..Len(s) : s[j] \in S
  BY LenProperties
<1>2. /\ f \in Seq(S) /\ Len(f) = i - 1
      /\ \A j \in 1..(i - 1) : f[j] = s[j]
  BY <1>1, SubSeqProperties
<1>3. /\ b \in Seq(S) /\ Len(b) = Len(s) - i
      /\ \A j \in 1..(Len(s) - i) : b[j] = s[i + j]
  <2> DEFINE k == i + 1
  <2>1. k \in Int /\ Len(s) \in Int /\ \A j \in k..Len(s) : s[j] \in S
    BY <1>1
  <2> HIDE DEF k
  <2>2. /\ SubSeq(s, k, Len(s)) \in Seq(S)
        /\ Len(SubSeq(s, k, Len(s))) = IF k <= Len(s) THEN Len(s) - k + 1 ELSE 0
        /\ \A j \in 1..Len(s) - k + 1 : SubSeq(s, k, Len(s))[j] = s[k + j - 1]
    BY <2>1, SubSeqProperties
  <2>3. b = SubSeq(s, k, Len(s)) /\ k = i + 1
    BY DEF k
  <2> HIDE DEF b
  <2>4. b \in Seq(S) /\ Len(b) = Len(s) - i
    BY <1>1, <2>2, <2>3
  <2>5. ASSUME NEW j \in 1..(Len(s) - i) PROVE b[j] = s[i + j]
    <3>1. j \in 1..Len(s) - k + 1 /\ k + j - 1 = i + j
      BY <1>1, <2>3
    <3> QED
      BY <2>2, <2>3, <3>1
  <2> QED
    BY <2>4, <2>5
<1> HIDE DEF f, b
<1>4. /\ f \o b \in Seq(S) /\ Len(f \o b) = Len(s) - 1
      /\ \A j \in 1..(Len(s) - 1) : (f \o b)[j] = IF j <= i - 1 THEN f[j] ELSE b[j - (i - 1)]
  <2>1. /\ f \o b \in Seq(S) /\ Len(f \o b) = Len(f) + Len(b)
        /\ \A j \in 1..Len(f) + Len(b) :
              (f \o b)[j] = IF j <= Len(f) THEN f[j] ELSE b[j - Len(f)]
    BY <1>2, <1>3, ConcatProperties
  <2>2. Len(f) + Len(b) = Len(s) - 1
    BY <1>1, <1>2, <1>3
  <2> QED
    BY <1>2, <2>1, <2>2
<1>5. RemoveAt(s, i) = f \o b
  BY DEF RemoveAt, f, b
<1>6. ASSUME NEW j \in 1..(Len(s) - 1)
      PROVE  (f \o b)[j] = IF j < i THEN s[j] ELSE s[j + 1]
  BY <1>1, <1>2, <1>3, <1>4
<1> QED
  BY <1>4, <1>5, <1>6

\* A part of a sequence.
LEMMA PartProperties ==
    ASSUME NEW S, NEW s \in Seq(S), NEW m \in 1..(Len(s) + 1), NEW n \in (m - 1)..Len(s)
    PROVE  /\ SubSeq(s, m, n) \in Seq(S)
           /\ Len(SubSeq(s, m, n)) = n - m + 1
           /\ \A j \in 1..(n - m + 1) : SubSeq(s, m, n)[j] = s[m + j - 1]
<1>1. Len(s) \in Nat /\ \A j \in 1..Len(s) : s[j] \in S
  BY LenProperties
<1> QED
  BY <1>1, SubSeqProperties

\* A sequence without its last element, and without its first.
LEMMA FrontTailProperties ==
    ASSUME NEW S, NEW s \in Seq(S), Len(s) >= 1
    PROVE  /\ Front(s) \in Seq(S)
           /\ Len(Front(s)) = Len(s) - 1
           /\ \A j \in 1..(Len(s) - 1) : Front(s)[j] = s[j]
           /\ Tail(s) \in Seq(S)
           /\ Len(Tail(s)) = Len(s) - 1
           /\ \A j \in 1..(Len(s) - 1) : Tail(s)[j] = s[j + 1]
<1>1. Len(s) \in Nat /\ s # <<>>
  BY LenProperties
<1>2. /\ Front(s) \in Seq(S)
      /\ Len(Front(s)) = Len(s) - 1
      /\ \A j \in 1..(Len(s) - 1) : Front(s)[j] = s[j]
  <2> DEFINE n == Len(s) - 1
  <2>1. n \in 0..Len(s) /\ 1 \in 1..(Len(s) + 1) /\ n \in (1 - 1)..Len(s)
    BY <1>1
  <2>2. Front(s) = SubSeq(s, 1, n)
    BY DEF Front
  <2> HIDE DEF n
  <2>3. /\ SubSeq(s, 1, n) \in Seq(S)
        /\ Len(SubSeq(s, 1, n)) = n - 1 + 1
        /\ \A j \in 1..(n - 1 + 1) : SubSeq(s, 1, n)[j] = s[1 + j - 1]
    BY <2>1, PartProperties
  <2> QED
    BY <2>1, <2>2, <2>3 DEF n
<1>3. /\ Tail(s) \in Seq(S)
      /\ Len(Tail(s)) = Len(s) - 1
      /\ \A j \in 1..(Len(s) - 1) : Tail(s)[j] = s[j + 1]
  BY <1>1, HeadTailProperties
<1> QED
  BY <1>2, <1>3

\* A sequence with an element put before it, and with one after it.
LEMMA EndsProperties ==
    ASSUME NEW S, NEW s \in Seq(S), NEW e \in S
    PROVE  /\ <<e>> \o s \in Seq(S)
           /\ Len(<<e>> \o s) = Len(s) + 1
           /\ \A j \in 1..(Len(s) + 1) : (<<e>> \o s)[j] = IF j = 1 THEN e ELSE s[j - 1]
           /\ Append(s, e) \in Seq(S)
           /\ Len(Append(s, e)) = Len(s) + 1
           /\ \A j \in 1..(Len(s) + 1) : Append(s, e)[j] = IF j <= Len(s) THEN s[j] ELSE e
<1>1. Len(s) \in Nat
  BY LenProperties
<1>2. <<e>> \in Seq(S) /\ Len(<<e>>) = 1 /\ <<e>>[1] = e
  OBVIOUS
<1>3. /\ <<e>> \o s \in Seq(S)
      /\ Len(<<e>> \o s) = Len(s) + 1
      /\ \A j \in 1..(Len(s) + 1) : (<<e>> \o s)[j] = IF j = 1 THEN e ELSE s[j - 1]
  BY <1>1, <1>2, ConcatProperties
<1>4. /\ Append(s, e) \in Seq(S)
      /\ Len(Append(s, e)) = Len(s) + 1
      /\ \A j \in 1..(Len(s) + 1) : Append(s, e)[j] = IF j <= Len(s) THEN s[j] ELSE e
  BY <1>1, AppendProperties
<1> QED
  BY <1>3, <1>4

\* t is s with e put in at place i.
PutIn(t, s, i, e) ==
    /\ Len(t) = Len(s) + 1
    /\ \A j \in 1..(Len(s) + 1) : t[j] = IF j < i THEN s[j] ELSE IF j = i THEN e ELSE s[j - 1]

\* t is s with the element at place i taken out.
TakenOut(t, s, i) ==
    /\ Len(t) = Len(s) - 1
    /\ \A j \in 1..(Len(s) - 1) : t[j] = IF j < i THEN s[j] ELSE s[j + 1]

\* t is the part of s from place m to place n.
PartOf(t, s, m, n) ==
    /\ Len(t) = n - m + 1
    /\ \A j \in 1..(n - m + 1) : t[j] = s[m + j - 1]

\* t is s followed by u.
Joined(t, s, u) ==
    /\ Len(t) = Len(s) + Len(u)
    /\ \A j \in 1..(Len(s) + Len(u)) : t[j] = IF j <= Len(s) THEN s[j] ELSE u[j - Len(s)]

\* What InsertAt, RemoveAt, SubSeq and \o make of a sequence, in these words.
LEMMA SequencesMade ==
    ASSUME NEW S, NEW s \in Seq(S)
    PROVE  /\ \A i \in 1..(Len(s) + 1), e \in S :
                InsertAt(s, i, e) \in Seq(S) /\ PutIn(InsertAt(s, i, e), s, i, e)
           /\ \A i \in 1..Len(s) :
                RemoveAt(s, i) \in Seq(S) /\ TakenOut(RemoveAt(s, i), s, i)
           /\ \A m \in 1..(Len(s) + 1) : \A n \in (m - 1)..Len(s) :
                SubSeq(s, m, n) \in Seq(S) /\ PartOf(SubSeq(s, m, n), s, m, n)
           /\ \A u \in Seq(S) : s \o u \in Seq(S) /\ Joined(s \o u, s, u)
<1>1. ASSUME NEW i \in 1..(Len(s) + 1), NEW e \in S
      PROVE  InsertAt(s, i, e) \in Seq(S) /\ PutIn(InsertAt(s, i, e), s, i, e)
  <2>1. /\ InsertAt(s, i, e) \in Seq(S)
        /\ Len(InsertAt(s, i, e)) = Len(s) + 1
        /\ \A j \in 1..(Len(s) + 1) :
              InsertAt(s, i, e)[j] = IF j < i THEN s[j] ELSE IF j = i THEN e ELSE s[j - 1]
    BY InsertAtProperties
  <2> QED
    BY Zenon, <2>1 DEF PutIn
<1>2. ASSUME NEW i \in 1..Len(s)
      PROVE  RemoveAt(s, i) \in Seq(S) /\ TakenOut(RemoveAt(s, i), s, i)
  BY RemoveAtProperties DEF TakenOut
<1>3. ASSUME NEW m \in 1..(Len(s) + 1), NEW n \in (m - 1)..Len(s)
      PROVE  SubSeq(s, m, n) \in Seq(S) /\ PartOf(SubSeq(s, m, n), s, m, n)
  BY PartProperties DEF PartOf
<1>4. ASSUME NEW u \in Seq(S) PROVE s \o u \in Seq(S) /\ Joined(s \o u, s, u)
  BY ConcatProperties DEF Joined
<1> QED
  BY <1>1, <1>2, <1>3, <1>4

\* t is s, e and u, one after the other.
Bridged(t, s, e, u) ==
    /\ Len(t) = Len(s) + 1 + Len(u)
    /\ \A j \in 1..Len(s) : t[j] = s[j]
    /\ t[Len(s) + 1] = e
    /\ \A j \in 1..Len(u) : t[Len(s) + 1 + j] = u[j]

\* An element between two sequences, in these words.
LEMMA BridgeMade ==
    ASSUME NEW S, NEW s \in Seq(S), NEW e \in S, NEW u \in Seq(S)
    PROVE  s \o <<e>> \o u \in Seq(S) /\ Bridged(s \o <<e>> \o u, s, e, u)
<1> DEFINE f == s \o <<e>>
           t == f \o u
<1>1. <<e>> \in Seq(S) /\ Len(<<e>>) = 1 /\ <<e>>[1] = e /\ Len(s) \in Nat /\ Len(u) \in Nat
  BY LenProperties
<1>2. f \in Seq(S) /\ Joined(f, s, <<e>>)
  BY <1>1, SequencesMade
<1> HIDE DEF f
<1>3. t \in Seq(S) /\ Joined(t, f, u)
  BY <1>2, SequencesMade
<1> HIDE DEF t
<1>4. /\ Len(f) = Len(s) + 1 /\ f[Len(s) + 1] = e /\ \A j \in 1..Len(s) : f[j] = s[j]
  BY <1>1, <1>2 DEF Joined
<1>5. Len(t) = Len(s) + 1 + Len(u)
  BY <1>3, <1>4 DEF Joined
<1>6. (\A j \in 1..Len(s) : t[j] = s[j]) /\ t[Len(s) + 1] = e
  BY <1>1, <1>3, <1>4 DEF Joined
<1>7. ASSUME NEW j \in 1..Len(u) PROVE t[Len(s) + 1 + j] = u[j]
  <2>1. Len(s) + 1 + j \in 1..(Len(f) + Len(u)) /\ ~(Len(s) + 1 + j <= Len(f)) /\ Len(s) + 1 + j - Len(f) = j
    BY <1>1, <1>4
  <2> QED
    BY <1>3, <2>1 DEF Joined
<1>8. Bridged(t, s, e, u)
  BY <1>5, <1>6, <1>7 DEF Bridged
<1> QED
  BY <1>3, <1>8 DEF t, f

\* The part of a sequence up to a place, and the part from a place on.
LEMMA PartsMade ==
    ASSUME NEW S, NEW s \in Seq(S), NEW m \in 0..Len(s), NEW n, n = Len(s)
    PROVE  /\ SubSeq(s, 1, m) \in Seq(S) /\ PartOf(SubSeq(s, 1, m), s, 1, m)
           /\ SubSeq(s, m + 1, n) \in Seq(S) /\ PartOf(SubSeq(s, m + 1, n), s, m + 1, n)
<1> DEFINE q == m + 1
<1>1. /\ Len(s) \in Nat /\ 1 \in 1..(Len(s) + 1) /\ m \in (1 - 1)..Len(s)
      /\ q \in 1..(Len(s) + 1) /\ n \in (q - 1)..Len(s)
  BY LenProperties
<1> HIDE DEF q
<1>2. SubSeq(s, 1, m) \in Seq(S) /\ PartOf(SubSeq(s, 1, m), s, 1, m)
  BY <1>1, SequencesMade
<1>3. SubSeq(s, q, n) \in Seq(S) /\ PartOf(SubSeq(s, q, n), s, q, n)
  BY <1>1, SequencesMade
<1> QED
  BY <1>2, <1>3 DEF q

\* The elements of a sequence with one put in.
LEMMA PutInElements ==
    ASSUME NEW s, NEW t, NEW i, NEW e, Len(s) \in Nat, i \in 1..(Len(s) + 1), PutIn(t, s, i, e)
    PROVE  /\ t[i] = e
           /\ \A j \in 1..Len(s) : t[IF j < i THEN j ELSE j + 1] = s[j]
           /\ \A j \in 1..Len(t) : 
                \/ j = i
                \/ j < i /\ j \in 1..Len(s) /\ t[j] = s[j]
                \/ j > i /\ j - 1 \in 1..Len(s) /\ t[j] = s[j - 1]
<1>1. ASSUME NEW j \in 1..Len(s) PROVE t[IF j < i THEN j ELSE j + 1] = s[j]
  <2>1. j < i => t[j] = s[j]
    BY DEF PutIn
  <2>2. ~(j < i) => t[j + 1] = s[j]
    <3>1. ~(j < i) => j + 1 \in 1..(Len(s) + 1) /\ ~(j + 1 < i) /\ j + 1 # i /\ j + 1 - 1 = j
      OBVIOUS
    <3> QED
      BY <3>1 DEF PutIn
  <2> QED
    BY <2>1, <2>2
<1> QED
  BY <1>1 DEF PutIn

\* The elements of a sequence with one taken out.
LEMMA TakenOutElements ==
    ASSUME NEW s, NEW t, NEW i, Len(s) \in Nat, i \in 1..Len(s), TakenOut(t, s, i)
    PROVE  /\ \A j \in 1..Len(s) : j # i => t[IF j < i THEN j ELSE j - 1] = s[j]
           /\ \A j \in 1..Len(t) : t[j] = s[IF j < i THEN j ELSE j + 1]
<1>1. Len(t) = Len(s) - 1
  BY DEF TakenOut
<1>2. \A j \in 1..(Len(s) - 1) : t[j] = IF j < i THEN s[j] ELSE s[j + 1]
  BY DEF TakenOut
<1>3. ASSUME NEW j \in 1..Len(s), j < i
      PROVE  t[j] = s[j]
  <2>1. j \in 1..(Len(s) - 1)
    BY <1>3
  <2> QED
    BY <1>2, <1>3, <2>1
<1>4. ASSUME NEW j \in 1..Len(s), i < j
      PROVE  t[j - 1] = s[j]
  <2>1. j - 1 \in 1..(Len(s) - 1) /\ ~(j - 1 < i) /\ (j - 1) + 1 = j
    BY <1>4
  <2> QED
    BY <1>2, <2>1
<1>5. ASSUME NEW j \in 1..Len(s), j # i
      PROVE  t[IF j < i THEN j ELSE j - 1] = s[j]
  <2>1. j < i \/ i < j
    BY <1>5
  <2> QED
    BY <1>3, <1>4, <2>1
<1>6. \A j \in 1..Len(t) : t[j] = s[IF j < i THEN j ELSE j + 1]
  BY <1>1, <1>2
<1> QED
  BY <1>5, <1>6

\* The elements of two sequences, one after the other.
LEMMA JoinedElements ==
    ASSUME NEW s, NEW t, NEW u, Len(s) \in Nat, Len(u) \in Nat, Joined(t, s, u)
    PROVE  /\ Len(t) = Len(s) + Len(u)
           /\ \A j \in 1..Len(s) : t[j] = s[j] /\ j \in 1..Len(t)
           /\ \A j \in 1..Len(u) : t[Len(s) + j] = u[j] /\ Len(s) + j \in 1..Len(t)
           /\ \A j \in 1..Len(t) :
                \/ j \in 1..Len(s) /\ t[j] = s[j]
                \/ j > Len(s) /\ j - Len(s) \in 1..Len(u) /\ t[j] = u[j - Len(s)]
           /\ \A j \in 1..Len(t) :
                (\E l \in 1..Len(s) : t[j] = s[l]) \/ (\E l \in 1..Len(u) : t[j] = u[l])
<1>1. ASSUME NEW j \in 1..Len(u) PROVE t[Len(s) + j] = u[j] /\ Len(s) + j \in 1..Len(t)
  <2>1. Len(s) + j \in 1..(Len(s) + Len(u)) /\ ~(Len(s) + j <= Len(s)) /\ Len(s) + j - Len(s) = j
    OBVIOUS
  <2> QED
    BY <2>1 DEF Joined
<1> QED
  BY <1>1 DEF Joined

\* The elements of two sequences with one between them.
LEMMA BridgedElements ==
    ASSUME NEW s, NEW t, NEW e, NEW u, Len(s) \in Nat, Len(u) \in Nat, Bridged(t, s, e, u)
    PROVE  /\ Len(t) = Len(s) + 1 + Len(u)
           /\ \A j \in 1..Len(s) : t[j] = s[j] /\ j \in 1..Len(t)
           /\ t[Len(s) + 1] = e /\ Len(s) + 1 \in 1..Len(t)
           /\ \A j \in 1..Len(u) : t[Len(s) + 1 + j] = u[j] /\ Len(s) + 1 + j \in 1..Len(t)
           /\ \A j \in 1..Len(t) :
                \/ j \in 1..Len(s) /\ t[j] = s[j]
                \/ j = Len(s) + 1 /\ t[j] = e
                \/ j > Len(s) + 1 /\ j - (Len(s) + 1) \in 1..Len(u) /\ t[j] = u[j - (Len(s) + 1)]
<1>1. ASSUME NEW j \in 1..Len(t), j > Len(s) + 1
      PROVE  j - (Len(s) + 1) \in 1..Len(u) /\ t[j] = u[j - (Len(s) + 1)]
  <2>1. j - (Len(s) + 1) \in 1..Len(u) /\ Len(s) + 1 + (j - (Len(s) + 1)) = j
    BY <1>1 DEF Bridged
  <2> QED
    BY <2>1 DEF Bridged
<1>2. ASSUME NEW j \in 1..Len(t)
      PROVE  \/ j \in 1..Len(s) /\ t[j] = s[j]
             \/ j = Len(s) + 1 /\ t[j] = e
             \/ j > Len(s) + 1
  BY DEF Bridged
<1> QED
  BY <1>1, <1>2 DEF Bridged

\* The elements of a sequence.
LEMMA ElementsOf ==
    ASSUME NEW S, NEW s \in Seq(S)
    PROVE  /\ Len(s) \in Nat /\ DOMAIN s = 1..Len(s)
           /\ \A i \in 1..Len(s) : s[i] \in S
           /\ ToSet(s) = {s[i] : i \in 1..Len(s)}
BY LenProperties DEF ToSet

\* The numbers before the first one that is not in a set, counted.
LEMMA LeadingCount ==
    ASSUME NEW n \in Nat, NEW P, NEW C,
           \A i : i \in C <=> i \in 1..n /\ \A j \in 1..i : j \in P
    PROVE  \E m \in 0..n :
             /\ Cardinality(C) = m
             /\ \A j \in 1..m : j \in P
             /\ m < n => m + 1 \notin P
<1>1. CASE \A j \in 1..n : j \in P
  <2>1. \A i : i \in C <=> i \in 1..n
    BY <1>1
  <2>2. C = 1..n
    BY <2>1
  <2>3. Cardinality(1..n) = n /\ n \in 0..n
    BY FS_Interval
  <2>4. Cardinality(C) = n
    BY <2>3, <2>2
  <2> QED
    BY <1>1, <2>3, <2>4
<1>2. CASE \E j \in 1..n : j \notin P
  <2> DEFINE T == {j \in 1..n : j \notin P}
  <2>1. PICK x \in T : \A y \in T : x <= y
    <3>1. T \in SUBSET Nat /\ T # {}
      BY <1>2
    <3> HIDE DEF T
    <3> QED
      BY <3>1, LeastNumber
  <2> DEFINE m == x - 1
  <2>2. m \in 0..n /\ m + 1 \notin P /\ m + 1 \in 1..n /\ \A j \in 1..m : j \in P
    BY <2>1
  <2> HIDE DEF m, T
  <2>3. \A i : i \in C <=> i \in 1..m
    BY <2>2
  <2>4. C = 1..m
    BY <2>3
  <2>5. Cardinality(1..m) = m
    BY <2>2, FS_Interval
  <2> QED
    BY <2>2, <2>4, <2>5
<1> QED
  BY <1>1, <1>2

\* Putting in and taking out at the ends.
LEMMA EndsMade ==
    ASSUME NEW S, NEW s \in Seq(S), NEW e \in S
    PROVE  /\ <<e>> \o s \in Seq(S) /\ PutIn(<<e>> \o s, s, 1, e)
           /\ Append(s, e) \in Seq(S) /\ PutIn(Append(s, e), s, Len(s) + 1, e)
<1>1. Len(s) \in Nat
  BY LenProperties
<1>2. PutIn(<<e>> \o s, s, 1, e)
  BY <1>1, EndsProperties DEF PutIn
<1>3. PutIn(Append(s, e), s, Len(s) + 1, e)
  BY <1>1, EndsProperties DEF PutIn
<1> QED
  BY <1>2, <1>3, EndsProperties

\* Leaving out the last element and the first one takes out one.
LEMMA EndsTaken ==
    ASSUME NEW S, NEW s \in Seq(S), Len(s) >= 1
    PROVE  /\ Front(s) \in Seq(S) /\ TakenOut(Front(s), s, Len(s))
           /\ Tail(s) \in Seq(S) /\ TakenOut(Tail(s), s, 1)
<1>1. Len(s) \in Nat
  BY LenProperties
<1>2. TakenOut(Front(s), s, Len(s))
  BY <1>1, FrontTailProperties DEF TakenOut
<1>3. TakenOut(Tail(s), s, 1)
  BY <1>1, FrontTailProperties DEF TakenOut
<1> QED
  BY <1>2, <1>3, FrontTailProperties
=============================================================================
