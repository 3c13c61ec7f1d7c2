------------------------- MODULE UploadParseProofs -------------------------
(***************************************************************************)
(* Theorems about UploadParse.  TypeOK holds of any requests.  When they   *)
(* are of files of lines (LineFilesAreSent), the file, the name and the    *)
(* flag are found as they were sent, whatever other boundary replaces that *)
(* of the request, be it between find and erase, in files of any length    *)
(* and any number of sessions.  First what the searches in a text return,  *)
(* then what they find in the bodies of curl and of multi_post.lua, part   *)
(* by part, and what is left when too much or too little was erased; then  *)
(* how a body is fetched; at the end the inductive invariants and the      *)
(* theorems.                                                               *)
(***************************************************************************)
EXTENDS UploadParse, SequenceFacts

-----------------------------------------------------------------------------
(* Texts                                                                   *)

Line == Seq(Words)

\* A text is made of lines.
LEMMA TextsOfLines == Texts = Seq(Line)
BY DEF Texts, Line

\* The empty line and the empty text, a word as a line, a line as a text.
LEMMA Empty == <<>> \in Line /\ <<>> \in Texts
BY EmptySeq DEF Line, Texts

LEMMA OneOf == ASSUME NEW S, NEW w \in S PROVE <<w>> \in Seq(S)
OBVIOUS

LEMMA WordLine == ASSUME NEW w \in Words PROVE <<w>> \in Line
BY OneOf DEF Line

LEMMA LineText == ASSUME NEW l \in Line PROVE <<l>> \in Texts
BY TextsOfLines

\* Lines are put together in any order, and so are texts.
LEMMA LineJoin == ASSUME NEW a \in Line, NEW b \in Line PROVE a \o b \in Line
<1>1. a \in Seq(Words) /\ b \in Seq(Words)
  BY DEF Line
<1>2. a \o b \in Seq(Words)
  BY <1>1, ConcatProperties
<1> QED
  BY <1>2 DEF Line

LEMMA LineAssoc ==
    ASSUME NEW a \in Line, NEW b \in Line, NEW c \in Line
    PROVE  a \o (b \o c) = (a \o b) \o c
<1>1. a \in Seq(Words) /\ b \in Seq(Words) /\ c \in Seq(Words)
  BY DEF Line
<1> QED
  BY <1>1, ConcatAssociative

LEMMA LineEmpty == ASSUME NEW l \in Line PROVE l \o <<>> = l /\ <<>> \o l = l
BY ConcatEmptySeq DEF Line

LEMMA TextJoin == ASSUME NEW x \in Texts, NEW y \in Texts PROVE x \o y \in Texts
BY TextsOfLines, ConcatProperties

LEMMA TextAssoc ==
    ASSUME NEW x \in Texts, NEW y \in Texts, NEW z \in Texts
    PROVE  x \o (y \o z) = (x \o y) \o z
BY TextsOfLines, ConcatAssociative

\* The same, in one word.
AnyGroups(x, y, z) == x \o (y \o z) = (x \o y) \o z

LEMMA Grouped ==
    ASSUME NEW x \in Texts, NEW y \in Texts, NEW z \in Texts
    PROVE  AnyGroups(x, y, z)
BY TextAssoc DEF AnyGroups

LEMMA TextEmpty == ASSUME NEW x \in Texts PROVE x \o <<>> = x /\ <<>> \o x = x
BY TextsOfLines, ConcatEmptySeq

LEMMA TextAppend ==
    ASSUME NEW x \in Texts, NEW l \in Line
    PROVE  Append(x, l) \in Texts /\ Append(x, l) = x \o <<l>>
BY TextsOfLines, AppendIsConcat, AppendProperties

\* A text has a first line, and others behind it.
LEMMA TextHead ==
    ASSUME NEW t \in Texts, t # <<>>
    PROVE  Head(t) \in Line /\ Tail(t) \in Texts /\ <<Head(t)>> \o Tail(t) = t
<1>1. t \in Seq(Line)
  BY TextsOfLines
<1>2. Head(t) \in Line /\ Tail(t) \in Seq(Line) /\ <<Head(t)>> \o Tail(t) = t
  BY <1>1
<1> QED
  BY <1>2, TextsOfLines

LEMMA TextOf ==
    ASSUME NEW l \in Line, NEW u \in Texts
    PROVE  /\ <<l>> \o u \in Texts /\ <<l>> \o u # <<>>
           /\ Head(<<l>> \o u) = l /\ Tail(<<l>> \o u) = u
<1>1. u \in Seq(Line) /\ <<l>> \in Seq(Line)
  BY TextsOfLines
<1>2. <<l>> \o u \in Seq(Line) /\ Head(<<l>> \o u) = l /\ Tail(<<l>> \o u) = u
  BY <1>1
<1>3. Len(<<l>> \o u) = 1 + Len(u) /\ Len(u) \in Nat
  BY <1>1, ConcatProperties, LenProperties
<1>4. <<l>> \o u # <<>>
  BY <1>3
<1> QED
  BY <1>2, <1>4, TextsOfLines

\* A text behind one whose last line is empty: the lines of both.
LEMMA GlueLines ==
    ASSUME NEW x \in Texts, NEW u \in Texts, u # <<>>
    PROVE  Glue(Append(x, <<>>), u) = x \o u
<1> DEFINE t == Append(x, <<>>)
<1>1. <<>> \in Line /\ x \in Seq(Line) /\ u \in Seq(Line)
  BY DEF Line, Texts
<1>2. t \in Seq(Line) /\ t # <<>> /\ Front(t) = x /\ Last(t) = <<>>
  <2>1. /\ t \in Seq(Line) /\ Len(t) = Len(x) + 1 /\ t[Len(t)] = <<>>
        /\ \A i \in 1..Len(x) : t[i] = x[i]
    BY <1>1, AppendProperties
  <2>2. Len(x) \in Nat /\ SubSeq(t, 1, Len(x)) \in Seq(Line) /\ Len(SubSeq(t, 1, Len(x))) = Len(x)
        /\ \A i \in 1..Len(x) : SubSeq(t, 1, Len(x))[i] = t[i]
    <3>1. Len(x) \in Nat
      BY <1>1, LenProperties
    <3> QED
      BY <2>1, <3>1, SubSeqProperties
  <2>3. SubSeq(t, 1, Len(x)) = x
    BY <1>1, <2>1, <2>2, SeqEqual
  <2> HIDE DEF t
  <2> QED
    BY <2>1, <2>2, <2>3 DEF Front, Last
<1>3. <<>> \o Head(u) = Head(u) /\ Head(u) \in Line
  BY <1>1, HeadTailProperties DEF Line
<1>4. x \o << Head(u) >> \o Tail(u) = x \o u
  <2>1. Head(u) \in Line /\ Tail(u) \in Seq(Line) /\ <<Head(u)>> \in Seq(Line)
    BY <1>1
  <2>2. <<Head(u)>> \o Tail(u) = u
    BY <1>1
  <2>3. (x \o << Head(u) >>) \o Tail(u) = x \o (<< Head(u) >> \o Tail(u))
    BY <1>1, <2>1, ConcatAssociative
  <2> QED
    BY <2>2, <2>3
<1> HIDE DEF t
<1>5. Glue(t, u) = x \o u
  BY <1>2, <1>3, <1>4 DEF Glue
<1> QED
  BY <1>5 DEF t

\* A text behind the empty one.
LEMMA GlueEmpty ==
    ASSUME NEW u \in Texts, u # <<>>
    PROVE  Glue(EmptyText, u) = u
<1>1. <<>> \in Texts /\ Append(<<>>, <<>>) = EmptyText /\ <<>> \o u = u
  BY DEF Texts, EmptyText
<1> QED
  BY <1>1, GlueLines

\* A word is in a text if it is in the one or in the other of its parts, and
\* in a line if it is one of its words.
LEMMA HasParts ==
    ASSUME NEW s \in Texts, NEW u \in Texts, NEW m
    PROVE  Has(s \o u, m) <=> Has(s, m) \/ Has(u, m)
<1> DEFINE t == s \o u
<1>1. t \in Seq(Line) /\ Joined(t, s, u) /\ Len(s) \in Nat /\ Len(u) \in Nat
  BY SequencesMade, LenProperties DEF Texts, Line
<1>2. /\ DOMAIN t = 1..(Len(s) + Len(u)) /\ DOMAIN s = 1..Len(s) /\ DOMAIN u = 1..Len(u)
      /\ \A j \in 1..(Len(s) + Len(u)) : t[j] = IF j <= Len(s) THEN s[j] ELSE u[j - Len(s)]
  BY <1>1 DEF Joined, Texts, Line
<1> HIDE DEF t
<1>3. ASSUME Has(t, m) PROVE Has(s, m) \/ Has(u, m)
  <2>1. PICK j \in 1..(Len(s) + Len(u)) : Contains(t[j], m)
    BY <1>2, <1>3 DEF Has
  <2>2. CASE j <= Len(s)
    BY <1>1, <1>2, <2>1, <2>2 DEF Has
  <2>3. CASE j > Len(s)
    <3>1. j - Len(s) \in 1..Len(u) /\ t[j] = u[j - Len(s)]
      BY <1>1, <1>2, <2>3
    <3> QED
      BY <1>2, <2>1, <3>1 DEF Has
  <2> QED
    BY <1>1, <2>2, <2>3
<1>4. ASSUME Has(s, m) PROVE Has(t, m)
  <2>1. PICK j \in 1..Len(s) : Contains(s[j], m)
    BY <1>2, <1>4 DEF Has
  <2>2. j \in 1..(Len(s) + Len(u)) /\ t[j] = s[j]
    BY <1>1, <1>2
  <2> QED
    BY <1>2, <2>1, <2>2 DEF Has
<1>5. ASSUME Has(u, m) PROVE Has(t, m)
  <2>1. PICK j \in 1..Len(u) : Contains(u[j], m)
    BY <1>2, <1>5 DEF Has
  <2>2. j + Len(s) \in 1..(Len(s) + Len(u)) /\ t[j + Len(s)] = u[j]
    BY <1>1, <1>2
  <2> QED
    BY <1>2, <2>1, <2>2 DEF Has
<1> QED
  BY <1>3, <1>4, <1>5 DEF t

\* A word is in a line if it is one of its words.
LEMMA HasLine ==
    ASSUME NEW l, NEW m
    PROVE  Has(<<l>>, m) <=> Contains(l, m)
BY DEF Has

\* The least number of a set.
LEMMA MinIs ==
    ASSUME NEW T, NEW k \in T, T \subseteq Nat, \A i \in T : k <= i
    PROVE  Min(T) = k
<1>1. \A x \in T : (\A y \in T : x =< y) => x = k
  OBVIOUS
<1> QED
  BY <1>1 DEF Min

\* The k-th element of t is e, before it is s and behind it u.
Around(t, s, e, u, k) ==
    /\ k \in DOMAIN t /\ DOMAIN t \subseteq Nat /\ t[k] = e
    /\ \A i \in DOMAIN t : i < k => i \in DOMAIN s /\ t[i] = s[i]
    /\ SubSeq(t, 1, k - 1) = s
    /\ SubSeq(t, k + 1, Len(t)) = u

\* What is before and behind an element of a sequence.
LEMMA BridgeTaken ==
    ASSUME NEW S, NEW t \in Seq(S), NEW s \in Seq(S), NEW e, NEW u \in Seq(S), Bridged(t, s, e, u),
           NEW k, k = Len(s) + 1
    PROVE  Around(t, s, e, u, k)
<1>1. /\ Len(s) \in Nat /\ Len(u) \in Nat /\ DOMAIN s = 1..Len(s) /\ DOMAIN t = 1..Len(t)
      /\ k - 1 = Len(s) /\ k \in Nat
  BY LenProperties
<1>2. /\ Len(t) = k + Len(u)
      /\ \A i \in 1..Len(s) : t[i] = s[i]
      /\ t[k] = e
      /\ \A i \in 1..Len(u) : t[k + i] = u[i]
  BY DEF Bridged
<1>3. k \in DOMAIN t /\ DOMAIN t \subseteq Nat
  BY <1>1, <1>2
<1>4. \A i \in DOMAIN t : i < k => i \in DOMAIN s /\ t[i] = s[i]
  BY <1>1, <1>2
<1>5. SubSeq(t, 1, k - 1) = s
  <2>1. /\ k - 1 \in 0..Len(t)
        /\ SubSeq(t, 1, k - 1) \in Seq(S) /\ PartOf(SubSeq(t, 1, k - 1), t, 1, k - 1)
    <3>1. k - 1 \in 0..Len(t)
      BY <1>1, <1>2
    <3> QED
      BY <3>1, PartsMade
  <2> DEFINE q == SubSeq(t, 1, k - 1)
  <2> HIDE DEF q
  <2>2. q \in Seq(S) /\ PartOf(q, t, 1, k - 1)
    BY <2>1 DEF q
  <2>3. Len(q) = Len(s) /\ \A i \in 1..Len(s) : q[i] = s[i]
    BY <1>1, <1>2, <2>2 DEF PartOf
  <2>4. q = s
    BY <2>2, <2>3, SeqEqual
  <2> QED
    BY <2>4 DEF q
<1>6. SubSeq(t, k + 1, Len(t)) = u
  <2>1. /\ k \in 0..Len(t)
        /\ SubSeq(t, k + 1, Len(t)) \in Seq(S) /\ PartOf(SubSeq(t, k + 1, Len(t)), t, k + 1, Len(t))
    <3>1. k \in 0..Len(t)
      BY <1>1, <1>2
    <3> QED
      BY <3>1, PartsMade
  <2> DEFINE q == SubSeq(t, k + 1, Len(t))
  <2> HIDE DEF q
  <2>2. q \in Seq(S) /\ PartOf(q, t, k + 1, Len(t))
    BY <2>1 DEF q
  <2>3. Len(q) = Len(u)
    BY <1>1, <1>2, <2>2 DEF PartOf
  <2>4. ASSUME NEW i \in 1..Len(u) PROVE q[i] = u[i]
    <3>1. i \in 1..(Len(t) - (k + 1) + 1) /\ k + 1 + i - 1 = k + i
      BY <1>1, <1>2
    <3> QED
      BY <1>2, <2>2, <3>1 DEF PartOf
  <2>5. q = u
    BY <2>2, <2>3, <2>4, SeqEqual
  <2> QED
    BY <2>5 DEF q
<1> QED
  BY <1>2, <1>3, <1>4, <1>5, <1>6 DEF Around

\* A text with an m, what is before the first and behind it.
CutApart(t, m, before, behind) ==
    /\ t \in Texts /\ Has(t, m)
    /\ Before(m)[t] = before /\ Behind(m)[t] = behind

\* The text is cut at the first m: the line it is in, between what comes before
\* and behind it.
LEMMA CutAt ==
    ASSUME NEW p \in Texts, NEW l \in Line, NEW l1 \in Line, NEW l2 \in Line, NEW u \in Texts,
           NEW m \in Words, Bridged(l, l1, m, l2), ~Has(p, m), ~Contains(l1, m)
    PROVE  CutApart(p \o (<<l>> \o u), m, Append(p, l1), <<l2>> \o u)
<1> DEFINE t == p \o (<<l>> \o u)
           k == Len(p) + 1
           j == Len(l1) + 1
<1>1. t \in Seq(Line) /\ Bridged(t, p, l, u)
  <2>1. p \in Seq(Line) /\ u \in Seq(Line) /\ <<l>> \in Seq(Line)
    BY TextsOfLines
  <2>2. p \o (<<l>> \o u) = p \o <<l>> \o u
    BY <2>1, ConcatAssociative
  <2> QED
    BY <2>1, <2>2, BridgeMade
<1> HIDE DEF t, k, j
<1>2. /\ k \in DOMAIN t /\ DOMAIN t \subseteq Nat /\ t[k] = l
      /\ \A i \in DOMAIN t : i < k => i \in DOMAIN p /\ t[i] = p[i]
      /\ SubSeq(t, 1, k - 1) = p
      /\ SubSeq(t, k + 1, Len(t)) = u
  <2>1. p \in Seq(Line) /\ u \in Seq(Line) /\ k = Len(p) + 1
    BY TextsOfLines DEF k
  <2>2. Around(t, p, l, u, k)
    BY <1>1, <2>1, BridgeTaken
  <2> QED
    BY <2>2 DEF Around
<1>3. /\ j \in DOMAIN l /\ DOMAIN l \subseteq Nat /\ l[j] = m
      /\ \A i \in DOMAIN l : i < j => i \in DOMAIN l1 /\ l[i] = l1[i]
      /\ SubSeq(l, 1, j - 1) = l1
      /\ SubSeq(l, j + 1, Len(l)) = l2
  <2>1. l \in Seq(Words) /\ l1 \in Seq(Words) /\ l2 \in Seq(Words) /\ j = Len(l1) + 1
    BY DEF j, Line
  <2>2. Around(l, l1, m, l2, j)
    BY <2>1, BridgeTaken
  <2> QED
    BY <2>2 DEF Around
<1>4. DOMAIN l = 1..Len(l) /\ DOMAIN l1 = 1..Len(l1)
  BY DEF Line
<1>5. Contains(l, m) /\ Place(l, m) = j
  <2> DEFINE T == {i \in DOMAIN l : l[i] = m}
  <2>1. j \in T /\ T \subseteq Nat
    BY <1>3
  <2>2. ASSUME NEW i \in T PROVE j <= i
    <3>1. i \in DOMAIN l /\ l[i] = m /\ i \in Nat /\ j \in Nat
      BY <1>3
    <3>2. ~(i < j)
      BY <1>3, <1>4, <3>1 DEF Contains
    <3> QED
      BY <3>1, <3>2
  <2> HIDE DEF T
  <2>3. Min(T) = j
    BY <2>1, <2>2, MinIs
  <2> QED
    BY <1>3, <1>4, <2>3 DEF Contains, Place, T
<1>6. Has(t, m) /\ LineOf(t, m) = k
  <2> DEFINE T == {i \in DOMAIN t : Contains(t[i], m)}
  <2>1. k \in T /\ T \subseteq Nat
    BY <1>2, <1>5
  <2>2. ASSUME NEW i \in T PROVE k <= i
    <3>1. i \in DOMAIN t /\ Contains(t[i], m) /\ i \in Nat /\ k \in Nat
      BY <1>2
    <3>2. ~(i < k)
      BY <1>2, <3>1 DEF Has
    <3> QED
      BY <3>1, <3>2
  <2> HIDE DEF T
  <2>3. Min(T) = k
    BY <2>1, <2>2, MinIs
  <2> QED
    BY <2>1, <2>3 DEF Has, LineOf, T
<1>7. t \in Texts
  BY <1>1, TextsOfLines
<1>8. Before(m)[t] = Append(p, l1)
  BY <1>2, <1>3, <1>5, <1>6, <1>7 DEF Before
<1>9. Behind(m)[t] = <<l2>> \o u
  BY <1>2, <1>3, <1>5, <1>6, <1>7 DEF Behind, From
<1> QED
  BY <1>6, <1>7, <1>8, <1>9 DEF CutApart, t

-----------------------------------------------------------------------------
(* Data put together                                                       *)

\* w has what the first lines make when they are put together.
Sums(w, ds, S) ==
    /\ w \in [0..Len(ds) -> Seq(S)]
    /\ w[0] = <<>>
    /\ \A i \in 1..Len(ds) : w[i] = w[i - 1] \o ds[i]

\* There is such a w.
LEMMA SumsExist ==
    ASSUME NEW S, NEW ds \in Seq(Seq(S))
    PROVE  \E w : Sums(w, ds, S)
<1> DEFINE D == 0..Len(ds)
           E == {0}
           V == Seq(S)
           base == [c \in D |-> <<>>]
           next == [c \in D \ E |-> c - 1]
           step == [x \in (D \ E) \X V |-> x[2] \o ds[x[1]]]
           h == [c \in D |-> c]
           bound == Len(ds) + 1
<1>1. Len(ds) \in Nat /\ \A i \in 1..Len(ds) : ds[i] \in V
  BY LenProperties
<1>2. base \in [D -> V]
  OBVIOUS
<1>3. next \in [D \ E -> D]
  BY <1>1
<1>4. step \in [(D \ E) \X V -> V]
  <2>1. ASSUME NEW x \in (D \ E) \X V PROVE x[2] \o ds[x[1]] \in V
    <3>1. x[1] \in 1..Len(ds) /\ x[2] \in V
      BY <1>1
    <3> QED
      BY <1>1, <3>1
  <2> HIDE DEF D, E, V
  <2> QED
    BY <2>1
<1>5. /\ E \subseteq D /\ h \in [D -> Nat] /\ bound \in Nat
      /\ \A c \in D : h[c] < bound
      /\ \A c \in D \ E : h[next[c]] < h[c]
  BY <1>1
<1>6. ASSUME NEW c \in D \ E, NEW v \in V PROVE next[c] = c - 1 /\ step[<<c, v>>] = v \o ds[c]
  OBVIOUS
<1>7. ASSUME NEW c \in D PROVE base[c] = <<>>
  OBVIOUS
<1> HIDE DEF base, next, step, h, bound
<1>8. Recursion(D, V, E, base, next, step, h, bound)
  BY <1>2, <1>3, <1>4, <1>5 DEF Recursion
<1>9. PICK w \in [D -> V] : \A c \in D :
         w[c] = IF c \in E THEN base[c] ELSE step[<<c, w[next[c]]>>]
  <2> HIDE DEF D, E, V
  <2> QED
    BY <1>8, RecursiveFunction
<1>10. w[0] = <<>>
  <2>1. 0 \in D /\ 0 \in E
    BY <1>1
  <2> HIDE DEF D, E
  <2> QED
    BY <1>7, <1>9, <2>1
<1>11. ASSUME NEW i \in 1..Len(ds) PROVE w[i] = w[i - 1] \o ds[i]
  <2>1. i \in D \ E /\ i - 1 \in D
    BY <1>1
  <2>2. next[i] = i - 1 /\ w[i - 1] \in V
    BY <1>6, <1>9, <2>1
  <2> QED
    BY <1>6, <1>9, <2>1, <2>2
<1> QED
  BY <1>9, <1>10, <1>11 DEF Sums

\* What FlattenSeq makes of lines.
LEMMA FlattenedLines ==
    ASSUME NEW S, NEW ds \in Seq(Seq(S)), NEW w, Sums(w, ds, S)
    PROVE  FlattenSeq(ds) = w[Len(ds)]
<1>1. Len(ds) \in Nat /\ \A i \in 1..Len(ds) : ds[i] \in Seq(S)
  BY LenProperties
<1>2. /\ w \in [0..Len(ds) -> Seq(S)] /\ w[0] = <<>>
      /\ \A i \in 1..Len(ds) : w[i] = w[i - 1] \o ds[i]
  BY DEF Sums
<1>3. CASE Len(ds) = 0
  BY <1>2, <1>3, EmptySeq DEF FlattenSeq
<1>4. CASE Len(ds) # 0
  <2>0. w[1] = ds[1]
    <3>1. 1 \in 1..Len(ds) /\ ds[1] \in Seq(S)
      BY <1>1, <1>4
    <3>2. <<>> \o ds[1] = ds[1]
      BY <3>1, ConcatEmptySeq
    <3>3. w[1] = w[1 - 1] \o ds[1]
      BY <1>2, <3>1
    <3>4. 1 - 1 = 0
      OBVIOUS
    <3> QED
      BY Zenon, <1>2, <3>2, <3>3, <3>4
  <2> DEFINE R(g) == g = [i \in 1..Len(ds) |-> IF i = 1 THEN ds[i] ELSE g[i - 1] \o ds[i]]
             f == [i \in 1..Len(ds) |-> w[i]]
             g == CHOOSE x : R(x)
  <2>1. FlattenSeq(ds) = g[Len(ds)]
    BY <1>4 DEF FlattenSeq
  <2>2. R(f)
    <3>1. ASSUME NEW i \in 1..Len(ds)
          PROVE  f[i] = IF i = 1 THEN ds[i] ELSE f[i - 1] \o ds[i]
      <4>1. CASE i = 1
        BY <2>0, <4>1
      <4>2. CASE i # 1
        <5>1. i - 1 \in 1..Len(ds)
          BY <1>1, <4>2
        <5> QED
          BY <1>2, <4>2, <5>1
      <4> QED
        BY <4>1, <4>2
    <3> QED
      BY <3>1
  <2>3. R(g)
    <3> HIDE DEF R, f
    <3> QED
      BY <2>2
  <2> HIDE DEF g
  <2>4. ASSUME NEW i \in 1..Len(ds)
        PROVE  g[i] = IF i = 1 THEN ds[i] ELSE g[i - 1] \o ds[i]
    BY <2>3
  <2> DEFINE T == {n \in Nat : n \in 1..Len(ds) => g[n] = w[n]}
  <2>5. ASSUME NEW n \in Nat, \A m \in 0..(n - 1) : m \in T PROVE n \in T
    <3> SUFFICES ASSUME n \in 1..Len(ds) PROVE g[n] = w[n]
      OBVIOUS
    <3>1. CASE n = 1
      BY <2>0, <2>4, <3>1
    <3>2. CASE n # 1
      <4>1. n - 1 \in 0..(n - 1) /\ n - 1 \in 1..Len(ds)
        BY <1>1, <3>2
      <4>2. g[n - 1] = w[n - 1]
        BY <2>5, <4>1
      <4> QED
        BY <1>2, <2>4, <3>2, <4>2
    <3> QED
      BY <3>1, <3>2
  <2>6. T = Nat
    <3> HIDE DEF T
    <3>1. T \in SUBSET Nat
      BY DEF T
    <3> QED
      BY <2>5, <3>1, NatSetInduction
  <2>7. Len(ds) \in T /\ Len(ds) \in 1..Len(ds)
    BY <1>1, <1>4, <2>6
  <2> QED
    BY <2>1, <2>7
<1> QED
  BY <1>3, <1>4

\* GlueAll is the last of any texts made one behind the other.
LEMMA GlueAllBy ==
    ASSUME NEW ts, Len(ts) \in Nat, NEW f, DOMAIN f = 0..Len(ts), f = [n \in 0..Len(ts) |-> f[n]],
           f[0] = EmptyText, \A i \in 1..Len(ts) : f[i] = Glue(f[i - 1], ts[i])
    PROVE  GlueAll(ts) = f[Len(ts)]
<1> DEFINE R(g) == g = [n \in 0..Len(ts) |-> IF n = 0 THEN EmptyText ELSE Glue(g[n - 1], ts[n])]
           g == CHOOSE x : R(x)
<1>1. GlueAll(ts) = g[Len(ts)]
  BY DEF GlueAll
<1>2. R(f)
  <2>1. ASSUME NEW i \in 0..Len(ts)
        PROVE  f[i] = IF i = 0 THEN EmptyText ELSE Glue(f[i - 1], ts[i])
    <3>1. CASE i = 0
      BY <3>1
    <3>2. CASE i # 0
      BY <3>2
    <3> QED
      BY <3>1, <3>2
  <2> QED
    BY <2>1
<1>3. R(g)
  <2> HIDE DEF R
  <2> QED
    BY <1>2
<1> HIDE DEF g
<1>4. ASSUME NEW i \in 0..Len(ts)
      PROVE  g[i] = IF i = 0 THEN EmptyText ELSE Glue(g[i - 1], ts[i])
  BY <1>3
<1> DEFINE T == {n \in Nat : n \in 0..Len(ts) => g[n] = f[n]}
<1>5. ASSUME NEW n \in Nat, \A m \in 0..(n - 1) : m \in T PROVE n \in T
  <2> SUFFICES ASSUME n \in 0..Len(ts) PROVE g[n] = f[n]
    OBVIOUS
  <2>1. CASE n = 0
    BY <1>4, <2>1
  <2>2. CASE n # 0
    <3>1. n - 1 \in 0..(n - 1) /\ n \in 1..Len(ts) /\ n - 1 \in 0..Len(ts)
      BY <2>2
    <3>2. g[n - 1] = f[n - 1]
      BY <1>5, <3>1
    <3> QED
      BY <1>4, <2>2, <3>1, <3>2
  <2> QED
    BY <2>1, <2>2
<1>6. T = Nat
  <2> HIDE DEF T
  <2>1. T \in SUBSET Nat
    BY DEF T
  <2> QED
    BY <1>5, <2>1, NatSetInduction
<1>7. Len(ts) \in T
  BY <1>6
<1> QED
  BY <1>1, <1>7

\* What GlueAll makes of texts of one line.
LEMMA GluedLines ==
    ASSUME NEW ts \in Seq(Texts), NEW ds \in Seq(Line), Len(ds) = Len(ts),
           \A i \in 1..Len(ts) : ts[i] = <<ds[i]>>,
           NEW w, Sums(w, ds, Words)
    PROVE  GlueAll(ts) = <<w[Len(ds)]>>
<1>1. Len(ds) \in Nat /\ \A i \in 1..Len(ds) : ds[i] \in Line
  BY LenProperties
<1>2. /\ w \in [0..Len(ds) -> Line] /\ w[0] = <<>>
      /\ \A i \in 1..Len(ds) : w[i] = w[i - 1] \o ds[i]
  BY DEF Sums, Line
<1> DEFINE f == [i \in 0..Len(ts) |-> <<w[i]>>]
<1>3. ASSUME NEW a \in Line, NEW b \in Line PROVE Glue(<<a>>, <<b>>) = <<a \o b>>
  <2>1. Front(<<a>>) = <<>> /\ Last(<<a>>) = a /\ Head(<<b>>) = b /\ Tail(<<b>>) = <<>>
    BY DEF Front, Last
  <2>2. <<a \o b>> \in Texts /\ <<>> \o <<a \o b>> \o <<>> = <<a \o b>>
    BY DEF Texts, Line
  <2> QED
    BY <2>1, <2>2 DEF Glue
<1>4. ASSUME NEW i \in 1..Len(ts) PROVE Glue(<<w[i - 1]>>, ts[i]) = <<w[i]>>
  <2>1. i \in 1..Len(ds) /\ i - 1 \in 0..Len(ds)
    BY <1>1
  <2>2. w[i - 1] \in Line /\ ds[i] \in Line /\ ts[i] = <<ds[i]>> /\ w[i] = w[i - 1] \o ds[i]
    BY <1>1, <1>2, <2>1
  <2> QED
    BY <1>3, <2>2
<1>5. /\ DOMAIN f = 0..Len(ts) /\ f = [i \in 0..Len(ts) |-> f[i]]
      /\ \A i \in 0..Len(ts) : f[i] = <<w[i]>>
  OBVIOUS
<1> HIDE DEF f
<1>6. f[0] = EmptyText
  BY <1>1, <1>2, <1>5 DEF EmptyText
<1>7. ASSUME NEW i \in 1..Len(ts) PROVE f[i] = Glue(f[i - 1], ts[i])
  <2>1. i \in 0..Len(ts) /\ i - 1 \in 0..Len(ts)
    BY <1>1
  <2> QED
    BY <1>4, <1>5, <2>1
<1>8. GlueAll(ts) = f[Len(ts)]
  BY <1>1, <1>5, <1>6, <1>7, GlueAllBy
<1> QED
  BY <1>1, <1>5, <1>8

\* The first line, and what the others make when they are put together.
LEMMA FirstAndOthers ==
    ASSUME NEW ds \in Seq(Line), NEW es \in Seq(Line), Len(ds) = Len(es) + 1,
           \A i \in 1..Len(es) : es[i] = ds[i + 1],
           NEW w, Sums(w, ds, Words), NEW v, Sums(v, es, Words)
    PROVE  ds[1] \o v[Len(es)] = w[Len(ds)]
<1>1. Len(es) \in Nat /\ \A i \in 1..Len(ds) : ds[i] \in Line
  BY LenProperties
<1>2. /\ w \in [0..Len(ds) -> Line] /\ w[0] = <<>>
      /\ \A i \in 1..Len(ds) : w[i] = w[i - 1] \o ds[i]
  BY DEF Sums, Line
<1>3. /\ v \in [0..Len(es) -> Line] /\ v[0] = <<>>
      /\ \A i \in 1..Len(es) : v[i] = v[i - 1] \o es[i]
  BY DEF Sums, Line
<1>4. 1 \in 1..Len(ds) /\ ds[1] \in Line
  BY <1>1
<1>5. w[1] = ds[1] /\ ds[1] \o v[0] = ds[1]
  <2>1. <<>> \o ds[1] = ds[1] /\ ds[1] \o <<>> = ds[1]
    BY <1>4, ConcatEmptySeq DEF Line
  <2>2. w[1] = w[1 - 1] \o ds[1]
    BY <1>2, <1>4
  <2>3. 1 - 1 = 0
    OBVIOUS
  <2> QED
    BY Zenon, <1>2, <1>3, <2>1, <2>2, <2>3
<1> DEFINE T == {n \in Nat : n \in 0..Len(es) => ds[1] \o v[n] = w[n + 1]}
<1>6. ASSUME NEW n \in Nat, \A m \in 0..(n - 1) : m \in T PROVE n \in T
  <2> SUFFICES ASSUME n \in 0..Len(es) PROVE ds[1] \o v[n] = w[n + 1]
    OBVIOUS
  <2>1. CASE n = 0
    <3>1. 0 + 1 = 1
      OBVIOUS
    <3> QED
      BY Zenon, <1>5, <2>1, <3>1
  <2>2. CASE n # 0
    <3>1. n - 1 \in 0..(n - 1) /\ n \in 1..Len(es) /\ n - 1 \in 0..Len(es)
      BY <1>1, <2>2
    <3>2. ds[1] \o v[n - 1] = w[(n - 1) + 1]
      BY <1>6, <3>1
    <3>3. (n - 1) + 1 = n /\ n + 1 \in 1..Len(ds) /\ (n + 1) - 1 = n
      BY <1>1, <3>1
    <3>4. v[n - 1] \in Line /\ es[n] \in Line /\ es[n] = ds[n + 1]
      BY <1>1, <1>3, <3>1, <3>3
    <3>5. w[n + 1] = w[n] \o ds[n + 1] /\ v[n] = v[n - 1] \o es[n]
      <4>1. w[n + 1] = w[(n + 1) - 1] \o ds[n + 1]
        BY <1>2, <3>3
      <4> QED
        BY <1>3, <3>1, <3>3, <4>1
    <3>6. ds[1] \o (v[n - 1] \o es[n]) = (ds[1] \o v[n - 1]) \o es[n]
      BY <1>4, <3>4, LineAssoc
    <3>7. ds[1] \o v[n] = w[n] \o es[n]
      BY Zenon, <3>2, <3>3, <3>5, <3>6
    <3> QED
      BY Zenon, <3>4, <3>5, <3>7
  <2> QED
    BY <2>1, <2>2
<1>7. T = Nat
  <2> HIDE DEF T
  <2>1. T \in SUBSET Nat
    BY DEF T
  <2> QED
    BY <1>6, <2>1, NatSetInduction
<1>8. Len(es) \in T
  BY <1>1, <1>7
<1>9. Len(es) \in 0..Len(es)
  BY <1>1
<1>10. ds[1] \o v[Len(es)] = w[Len(es) + 1]
  BY <1>8, <1>9
<1> QED
  BY Zenon, <1>10

-----------------------------------------------------------------------------
(* What the parse finds                                                    *)

\* The line behind n empty ones that begin with the k-th, when there are none
\* before.
LEMMA EmptyLines ==
    ASSUME NEW t \in Texts, NEW n \in Nat, NEW k \in 2..(Len(t) - n),
           \A j \in k..(k + n - 1) : t[j] = <<>>,
           \A i \in 2..(k - 1) : \E j \in i..(i + n - 1) : t[j] # <<>>
    PROVE  LineBehindEmpty(n)[t] = k + n
<1> DEFINE at == {i \in 2..(Len(t) - n) : \A j \in i..(i + n - 1) : t[j] = <<>>}
<1>1. Len(t) \in Nat
  BY LenProperties DEF Texts
<1>2. k \in at /\ at \subseteq Nat
  BY <1>1
<1>3. ASSUME NEW i \in at PROVE k <= i
  <2>1. i \in 2..(Len(t) - n) /\ \A j \in i..(i + n - 1) : t[j] = <<>>
    OBVIOUS
  <2>2. i \notin 2..(k - 1)
    BY <2>1
  <2> QED
    BY <1>1, <2>1, <2>2
<1>4. LineBehindEmpty(n)[t] = IF at = {} THEN 1 ELSE Min(at) + n
  BY DEF LineBehindEmpty
<1> HIDE DEF at
<1>5. Min(at) = k
  BY <1>2, <1>3, MinIs
<1> QED
  BY <1>2, <1>4, <1>5

\* Behind the first chunk of the file come its other chunks, each behind its
\* size, up to the empty one.
LEMMA FurtherLines ==
    ASSUME NEW t \in Texts, NEW es \in Seq(Line),
           \A i \in 1..Len(es) : es[i] # <<>> /\ t[2 * i] = es[i],
           \/ 2 * Len(es) + 2 <= Len(t) /\ t[2 * Len(es) + 2] = <<>>
           \/ Len(es) = 0 /\ Len(t) <= 1
    PROVE  FurtherData[t] = FlattenSeq(es)
<1> DEFINE ends == {i \in DOMAIN t : i % 2 = 0 /\ t[i] = <<>>} \cup {Len(t)}
           taken(stop) == [i \in 1..((stop - 1) \div 2) |-> t[2 * i]]
<1>1. Len(t) \in Nat /\ Len(es) \in Nat /\ DOMAIN t = 1..Len(t)
  BY LenProperties DEF Texts
<1>2. FurtherData[t] = FlattenSeq(taken(Min(ends)))
  BY DEF FurtherData
<1>3. CASE 2 * Len(es) + 2 <= Len(t) /\ t[2 * Len(es) + 2] = <<>>
  <2> DEFINE k == 2 * Len(es) + 2
  <2>1. k \in ends /\ ends \subseteq Nat
    <3>1. k \in DOMAIN t /\ k % 2 = 0
      BY <1>1, <1>3
    <3>2. t[k] = <<>>
      BY <1>3
    <3>3. DOMAIN t \subseteq Nat
      BY <1>1
    <3> HIDE DEF k
    <3> QED
      BY <1>1, <3>1, <3>2, <3>3
  <2>2. ASSUME NEW i \in ends PROVE k <= i
    <3>1. CASE i = Len(t)
      BY <1>1, <1>3, <3>1
    <3>2. CASE i # Len(t)
      <4>1. i \in 1..Len(t) /\ i % 2 = 0 /\ t[i] = <<>>
        BY <1>1, <3>2
      <4>2. i = 2 * (i \div 2) /\ i \div 2 \in Nat /\ i \div 2 > 0
        BY <1>1, <4>1
      <4>3. ~(i \div 2 \in 1..Len(es))
        BY <4>1, <4>2
      <4> QED
        BY <1>1, <4>1, <4>2, <4>3
    <3> QED
      BY <3>1, <3>2
  <2> HIDE DEF ends
  <2>3. Min(ends) = k
    <3> HIDE DEF k
    <3> QED
      BY <2>1, <2>2, MinIs
  <2>4. (k - 1) \div 2 = Len(es)
    BY <1>1
  <2>5. taken(k) = [i \in 1..Len(es) |-> es[i]]
    BY <2>4
  <2>6. es = [i \in 1..Len(es) |-> es[i]]
    BY <1>1
  <2> QED
    BY <1>2, <2>3, <2>5, <2>6
<1>4. CASE Len(es) = 0 /\ Len(t) <= 1
  <2>1. Len(t) \in ends /\ ends \subseteq Nat
    BY <1>1
  <2>2. ASSUME NEW i \in ends PROVE Len(t) <= i
    <3>1. CASE i = Len(t)
      BY <1>1, <3>1
    <3>2. CASE i # Len(t)
      <4>1. i \in 1..Len(t) /\ i % 2 = 0
        BY <1>1, <3>2
      <4> QED
        BY <1>1, <1>4, <3>2, <4>1
    <3> QED
      BY <3>1, <3>2
  <2> HIDE DEF ends
  <2>3. Min(ends) = Len(t)
    BY <2>1, <2>2, MinIs
  <2>4. 1..((Len(t) - 1) \div 2) = {}
    BY <1>1, <1>4
  <2>5. taken(Len(t)) = <<>>
    BY <2>4
  <2>6. es = <<>>
    BY <1>4, EmptySeq
  <2> QED
    BY <1>2, <2>3, <2>5, <2>6
<1> QED
  BY <1>3, <1>4

-----------------------------------------------------------------------------
(* Texts one behind the other                                              *)

\* What GlueAll makes of none, one or two texts.
LEMMA GlueFew ==
    ASSUME NEW t \in Texts, t # <<>>, NEW u \in Texts, u # <<>>
    PROVE  GlueAll(<<>>) = EmptyText /\ GlueAll(<<t>>) = t /\ GlueAll(<<t, u>>) = Glue(t, u)
<1>1. Glue(EmptyText, t) = t
  BY GlueEmpty
<1>2. GlueAll(<<>>) = EmptyText
  <2> DEFINE f == [n \in 0..0 |-> EmptyText]
  <2>1. /\ Len(<<>>) = 0 /\ DOMAIN f = 0..Len(<<>>) /\ f = [n \in 0..Len(<<>>) |-> f[n]]
        /\ f[0] = EmptyText /\ \A i \in 1..Len(<<>>) : f[i] = Glue(f[i - 1], <<>>[i])
    OBVIOUS
  <2> HIDE DEF f
  <2> QED
    BY <2>1, GlueAllBy
<1>3. GlueAll(<<t>>) = t
  <2> DEFINE f == [n \in 0..1 |-> IF n = 0 THEN EmptyText ELSE t]
             ts == <<t>>
  <2>1. Len(ts) = 1 /\ ts[1] = t
    OBVIOUS
  <2>2. DOMAIN f = 0..1 /\ f = [n \in 0..1 |-> f[n]] /\ f[0] = EmptyText /\ f[1] = t
    OBVIOUS
  <2> HIDE DEF f, ts
  <2>3. ASSUME NEW i \in 1..Len(ts) PROVE f[i] = Glue(f[i - 1], ts[i])
    <3>1. i = 1 /\ i - 1 = 0
      BY <2>1
    <3> QED
      BY <1>1, <2>1, <2>2, <3>1
  <2>4. GlueAll(ts) = f[Len(ts)]
    BY <2>1, <2>2, <2>3, GlueAllBy
  <2> QED
    BY <2>1, <2>2, <2>4 DEF ts
<1>4. GlueAll(<<t, u>>) = Glue(t, u)
  <2> DEFINE f == [n \in 0..2 |-> IF n = 0 THEN EmptyText ELSE IF n = 1 THEN t ELSE Glue(t, u)]
             ts == <<t, u>>
  <2>1. Len(ts) = 2 /\ ts[1] = t /\ ts[2] = u
    OBVIOUS
  <2>2. /\ DOMAIN f = 0..2 /\ f = [n \in 0..2 |-> f[n]] /\ f[0] = EmptyText /\ f[1] = t
        /\ f[2] = Glue(t, u)
    OBVIOUS
  <2> HIDE DEF f, ts
  <2>3. ASSUME NEW i \in 1..Len(ts) PROVE f[i] = Glue(f[i - 1], ts[i])
    <3>1. i \in {1, 2} /\ 1 - 1 = 0 /\ 2 - 1 = 1
      BY <2>1
    <3>2. CASE i = 1
      BY <1>1, <2>1, <2>2, <3>1, <3>2
    <3>3. CASE i = 2
      BY <2>1, <2>2, <3>1, <3>3
    <3> QED
      BY <3>1, <3>2, <3>3
  <2>4. GlueAll(ts) = f[Len(ts)]
    BY <2>1, <2>2, <2>3, GlueAllBy
  <2> QED
    BY <2>1, <2>2, <2>4 DEF ts
<1> QED
  BY <1>2, <1>3, <1>4

-----------------------------------------------------------------------------
(* Parts                                                                   *)

\* A word is not in a line of another word.
LEMMA OtherWord == ASSUME NEW w, NEW m, w # m PROVE ~Contains(<<w>>, m)
BY DEF Contains

\* A word is in two lines put together if it is in the one or in the other.
LEMMA ContainsParts ==
    ASSUME NEW a \in Line, NEW b \in Line, NEW m
    PROVE  Contains(a \o b, m) <=> Contains(a, m) \/ Contains(b, m)
<1>1. a \in Seq(Words) /\ b \in Seq(Words) /\ Len(a) \in Nat /\ Len(b) \in Nat
  BY LenProperties DEF Line
<1> DEFINE t == a \o b
<1>2. Joined(t, a, b)
  BY <1>1, SequencesMade
<1> HIDE DEF t
<1>3. /\ Len(t) = Len(a) + Len(b)
      /\ \A j \in 1..(Len(a) + Len(b)) : t[j] = IF j <= Len(a) THEN a[j] ELSE b[j - Len(a)]
  BY <1>2 DEF Joined
<1>4. ASSUME NEW j \in 1..Len(t), t[j] = m PROVE Contains(a, m) \/ Contains(b, m)
  <2>1. CASE j <= Len(a)
    BY <1>1, <1>3, <1>4, <2>1 DEF Contains
  <2>2. CASE ~(j <= Len(a))
    <3>1. j - Len(a) \in 1..Len(b) /\ b[j - Len(a)] = m
      BY <1>1, <1>3, <1>4, <2>2
    <3> QED
      BY <3>1 DEF Contains
  <2> QED
    BY <2>1, <2>2
<1>5. ASSUME NEW j \in 1..Len(a), a[j] = m PROVE Contains(t, m)
  <2>1. j \in 1..Len(t) /\ t[j] = m
    BY <1>1, <1>3, <1>5
  <2> QED
    BY <2>1 DEF Contains
<1>6. ASSUME NEW j \in 1..Len(b), b[j] = m PROVE Contains(t, m)
  <2>1. j + Len(a) \in 1..Len(t) /\ t[j + Len(a)] = m
    BY <1>1, <1>3, <1>6
  <2> QED
    BY <2>1 DEF Contains
<1> QED
  BY <1>4, <1>5, <1>6 DEF Contains, t

\* rest is what is behind the first m in a text.
Shows(t, m, rest) ==
    \E q \in Texts, l1 \in Line, l2 \in Line, u \in Texts :
       /\ t = q \o (<<l1 \o (<<m>> \o l2)>> \o u)
       /\ ~Has(q, m) /\ ~Contains(l1, m)
       /\ rest = <<l2>> \o u

\* The text behind the m that is shown.
LEMMA ShownBehind ==
    ASSUME NEW t \in Texts, NEW m \in Words, NEW rest, Shows(t, m, rest)
    PROVE  Has(t, m) /\ Behind(m)[t] = rest /\ rest \in Texts
<1>1. PICK q \in Texts, l1 \in Line, l2 \in Line, u \in Texts :
         /\ t = q \o (<<l1 \o (<<m>> \o l2)>> \o u)
         /\ ~Has(q, m) /\ ~Contains(l1, m)
         /\ rest = <<l2>> \o u
  BY DEF Shows
<1> DEFINE l == l1 \o (<<m>> \o l2)
<1>2. l \in Line /\ Bridged(l, l1, m, l2)
  <2>0. <<m>> \in Line /\ <<m>> \o l2 \in Line
    BY WordLine, LineJoin
  <2>1. l \in Line /\ l = l1 \o <<m>> \o l2
    BY <2>0, LineJoin, LineAssoc
  <2>2. l1 \in Seq(Words) /\ l2 \in Seq(Words)
    BY DEF Line
  <2> HIDE DEF l
  <2> QED
    BY <2>1, <2>2, BridgeMade
<1> HIDE DEF l
<1>3. CutApart(q \o (<<l>> \o u), m, Append(q, l1), <<l2>> \o u)
  <2>1. ~Has(q, m) /\ ~Contains(l1, m) /\ l \in Line /\ Bridged(l, l1, m, l2)
    BY <1>1, <1>2
  <2> QED
    BY <2>1, CutAt
<1>4. <<l2>> \o u \in Texts
  BY TextOf
<1> QED
  BY <1>1, <1>3, <1>4 DEF CutApart, l

\* A part that ends with the line l, a boundary, and the text behind it.
Part(x, l, b, t) == x \o (<<l \o (<<b>> \o Head(t))>> \o Tail(t))

\* The part is cut off at the boundary.
LEMMA PartCut ==
    ASSUME NEW x \in Texts, NEW l \in Line, NEW b \in Words, NEW t \in Texts, t # <<>>,
           ~Has(x, b), ~Contains(l, b)
    PROVE  CutApart(Part(x, l, b, t), b, Append(x, l), t)
<1> DEFINE h == Head(t)
           u == Tail(t)
           g == l \o (<<b>> \o h)
<1>1. h \in Line /\ u \in Texts /\ <<h>> \o u = t
  BY TextHead
<1> HIDE DEF h, u
<1>2. g \in Line /\ Bridged(g, l, b, h)
  <2>0. <<b>> \in Line /\ <<b>> \o h \in Line
    BY <1>1, WordLine, LineJoin
  <2>1. g \in Line /\ g = l \o <<b>> \o h
    BY <1>1, <2>0, LineJoin, LineAssoc
  <2>2. l \in Seq(Words) /\ h \in Seq(Words)
    BY <1>1 DEF Line
  <2> HIDE DEF g
  <2> QED
    BY <2>1, <2>2, BridgeMade
<1> HIDE DEF g
<1>3. CutApart(x \o (<<g>> \o u), b, Append(x, l), <<h>> \o u)
  BY <1>1, <1>2, CutAt
<1> QED
  BY <1>1, <1>3 DEF Part, h, u, g

\* What a text shows it shows behind a part that does not have the word.
LEMMA PartShows ==
    ASSUME NEW x \in Texts, NEW l \in Line, NEW b \in Words, NEW t \in Texts,
           NEW m \in Words, NEW rest, Shows(t, m, rest), m # b, ~Has(x, m), ~Contains(l, m)
    PROVE  Shows(Part(x, l, b, t), m, rest)
<1>1. PICK q \in Texts, l1 \in Line, l2 \in Line, u \in Texts :
         /\ t = q \o (<<l1 \o (<<m>> \o l2)>> \o u)
         /\ ~Has(q, m) /\ ~Contains(l1, m)
         /\ rest = <<l2>> \o u
  BY DEF Shows
<1> DEFINE lb == l \o <<b>>
           g == l1 \o (<<m>> \o l2)
           v == <<g>> \o u
<1>2. lb \in Line /\ ~Contains(lb, m) /\ <<b>> \in Line
  <2>1. <<b>> \in Line /\ ~Contains(<<b>>, m)
    BY WordLine, OtherWord
  <2> QED
    BY <2>1, LineJoin, ContainsParts
<1>3. g \in Line /\ v \in Texts /\ <<m>> \in Line /\ <<m>> \o l2 \in Line
  <2>1. <<m>> \in Line /\ <<m>> \o l2 \in Line
    BY WordLine, LineJoin
  <2>2. g \in Line
    BY <2>1, LineJoin
  <2> HIDE DEF g
  <2> QED
    BY <2>1, <2>2, TextOf
<1>4. \A h \in Line : l \o (<<b>> \o h) = lb \o h
  BY <1>2, LineAssoc
<1>5. CASE q = <<>>
  <2>1. t = v
    <3> HIDE DEF v
    <3>1. t = q \o v
      BY <1>1 DEF v
    <3> QED
      BY <1>3, <1>5, <3>1, TextEmpty
  <2>2. Head(t) = g /\ Tail(t) = u
    <3> HIDE DEF g
    <3> QED
      BY <1>3, <2>1, TextOf
  <2>3. lb \o g = (lb \o l1) \o (<<m>> \o l2) /\ lb \o l1 \in Line
    <3> DEFINE r == <<m>> \o l2
    <3>1. r \in Line
      BY <1>3
    <3> HIDE DEF lb, r
    <3>2. lb \o (l1 \o r) = (lb \o l1) \o r
      BY <1>2, <3>1, LineAssoc
    <3>3. lb \o l1 \in Line
      BY <1>2, LineJoin
    <3> QED
      BY <3>2, <3>3 DEF r
  <2>4. Part(x, l, b, t) = x \o (<<(lb \o l1) \o (<<m>> \o l2)>> \o u)
    BY <1>3, <1>4, <2>2, <2>3 DEF Part
  <2>5. ~Contains(lb \o l1, m)
    BY <1>1, <1>2, ContainsParts
  <2> QED
    BY <1>1, <2>3, <2>4, <2>5 DEF Shows
<1>6. CASE q # <<>>
  <2> DEFINE h == Head(q)
             k == Tail(q)
             z == x \o (<<lb \o h>> \o k)
  <2>1. h \in Line /\ k \in Texts /\ q = <<h>> \o k
    BY <1>6, TextHead
  <2> HIDE DEF h, k, v
  <2>2. t = <<h>> \o (k \o v)
    <3>1. t = q \o v
      BY <1>1 DEF v
    <3>2. <<h>> \in Texts
      BY <2>1, LineText
    <3> QED
      BY <1>3, <2>1, <3>1, <3>2, TextAssoc
  <2>3. Head(t) = h /\ Tail(t) = k \o v
    <3> DEFINE kv == k \o v
    <3>1. kv \in Texts
      BY <1>3, <2>1, TextJoin
    <3> HIDE DEF kv
    <3>2. Head(<<h>> \o kv) = h /\ Tail(<<h>> \o kv) = kv
      BY <2>1, <3>1, TextOf
    <3> QED
      BY <2>2, <3>2 DEF kv
  <2>4. lb \o h \in Line /\ <<lb \o h>> \in Texts
    BY <1>2, <2>1, LineJoin, LineText
  <2>5. Part(x, l, b, t) = x \o (<<lb \o h>> \o (k \o v))
    BY <1>4, <2>1, <2>3 DEF Part
  <2>6. x \o (<<lb \o h>> \o (k \o v)) = z \o v /\ z \in Texts
    <3> DEFINE lh == <<lb \o h>>
    <3>1. lh \in Texts
      BY <2>4
    <3> HIDE DEF lh
    <3> DEFINE lk == lh \o k
    <3>2. lk \in Texts
      BY <2>1, <3>1, TextJoin
    <3>3. v \in Texts /\ k \in Texts
      BY <1>3, <2>1
    <3>4. lh \o (k \o v) = lk \o v
      BY <3>1, <3>3, TextAssoc
    <3> HIDE DEF lk
    <3>5. x \o (lk \o v) = (x \o lk) \o v
      <4>1. AnyGroups(x, lk, v)
        BY <3>2, <3>3, Grouped
      <4> QED
        BY <4>1 DEF AnyGroups
    <3>6. x \o lk \in Texts
      BY <3>2, TextJoin
    <3> QED
      BY <3>4, <3>5, <3>6 DEF lh, lk
  <2>7. ~Has(z, m)
    <3>1. ~Contains(h, m) /\ ~Has(k, m)
      <4>1. <<h>> \in Texts
        BY <2>1, LineText
      <4>2. ~Has(<<h>>, m) /\ ~Has(k, m)
        BY <1>1, <2>1, <4>1, HasParts
      <4> QED
        BY <4>2, HasLine
    <3>2. ~Contains(lb \o h, m)
      BY <1>2, <2>1, <3>1, ContainsParts
    <3>3. <<lb \o h>> \o k \in Texts /\ ~Has(<<lb \o h>> \o k, m)
      <4>1. ~Has(<<lb \o h>>, m)
        BY <3>2, HasLine
      <4> QED
        BY <2>1, <2>4, <3>1, <4>1, TextJoin, HasParts
    <3> QED
      BY <3>3, HasParts
  <2> HIDE DEF z
  <2>8. Part(x, l, b, t) = z \o (<<l1 \o (<<m>> \o l2)>> \o u)
    BY <2>5, <2>6 DEF v
  <2> QED
    BY <1>1, <2>6, <2>7, <2>8 DEF Shows
<1> QED
  BY <1>5, <1>6

-----------------------------------------------------------------------------
(* Words that are in no line of a text                                     *)

\* Lines, and texts, that have none of the words.
LineFree(l, W) == l \in Seq(Words \ W)
Free(t, W) == t \in Seq(Seq(Words \ W))

LEMMA FreeTyped ==
    ASSUME NEW W, NEW t
    PROVE  (LineFree(t, W) => t \in Line) /\ (Free(t, W) => t \in Texts)
<1>1. Words \ W \subseteq Words
  OBVIOUS
<1>2. Seq(Words \ W) \subseteq Seq(Words)
  BY <1>1
<1>3. Seq(Seq(Words \ W)) \subseteq Seq(Seq(Words))
  BY <1>2
<1> QED
  BY <1>2, <1>3 DEF LineFree, Free, Line, Texts

\* It has none of them, nor of fewer.
LEMMA FreeHas ==
    ASSUME NEW W, NEW t, NEW m \in W
    PROVE  (LineFree(t, W) => ~Contains(t, m)) /\ (Free(t, W) => ~Has(t, m))
<1>1. ASSUME NEW l \in Seq(Words \ W) PROVE ~Contains(l, m)
  <2>1. \A i \in 1..Len(l) : l[i] \in Words \ W
    BY <1>1
  <2> QED
    BY <2>1 DEF Contains
<1>2. ASSUME NEW u \in Seq(Seq(Words \ W)) PROVE ~Has(u, m)
  <2>1. \A i \in DOMAIN u : u[i] \in Seq(Words \ W)
    BY <1>2
  <2> QED
    BY <1>1, <2>1 DEF Has
<1> QED
  BY <1>1, <1>2 DEF LineFree, Free

LEMMA FreeOfFewer ==
    ASSUME NEW W, NEW V, V \subseteq W, NEW t, Free(t, W)
    PROVE  Free(t, V)
<1>1. Words \ W \subseteq Words \ V
  OBVIOUS
<1>2. Seq(Words \ W) \subseteq Seq(Words \ V)
  BY <1>1
<1>3. Seq(Seq(Words \ W)) \subseteq Seq(Seq(Words \ V))
  BY <1>2
<1> QED
  BY <1>3 DEF Free

\* Texts one behind the other, and the parts of a text.
LEMMA FreeJoin ==
    ASSUME NEW W, NEW t, Free(t, W), NEW u, Free(u, W)
    PROVE  Free(t \o u, W)
<1> DEFINE S == Seq(Words \ W)
<1>1. t \in Seq(S) /\ u \in Seq(S)
  BY DEF Free
<1> HIDE DEF S
<1>2. t \o u \in Seq(S)
  BY <1>1, ConcatProperties
<1> QED
  BY <1>2 DEF Free, S

\* Lines of one word, and of two put together, and texts of a line.
LEMMA FreeWord ==
    ASSUME NEW W, NEW w \in Words \ W
    PROVE  LineFree(<<w>>, W) /\ LineFree(<<>>, W)
<1> DEFINE S == Words \ W
<1>1. w \in S
  OBVIOUS
<1> HIDE DEF S
<1>2. <<w>> \in Seq(S) /\ <<>> \in Seq(S)
  BY <1>1, OneOf, EmptySeq
<1> QED
  BY <1>2 DEF LineFree, S

LEMMA FreeLine == ASSUME NEW W, NEW l, LineFree(l, W) PROVE Free(<<l>>, W)
<1> DEFINE S == Seq(Words \ W)
<1>1. l \in S
  BY DEF LineFree
<1> HIDE DEF S
<1>2. <<l>> \in Seq(S)
  BY <1>1, OneOf
<1> QED
  BY <1>2 DEF Free, S

\* A line put together, and a text of a few lines.
LEMMA FreeLineJoin ==
    ASSUME NEW W, NEW k, LineFree(k, W), NEW l, LineFree(l, W)
    PROVE  LineFree(k \o l, W)
<1> DEFINE S == Words \ W
<1>1. k \in Seq(S) /\ l \in Seq(S)
  BY DEF LineFree
<1> HIDE DEF S
<1>2. k \o l \in Seq(S)
  BY <1>1, ConcatProperties
<1> QED
  BY <1>2 DEF LineFree, S

-----------------------------------------------------------------------------
(* Name and file                                                           *)

\* The name is in the line behind the empty one.
LEMMA NameFound ==
    ASSUME NEW t \in Texts, NEW rest, Shows(t, "FileName", rest),
           Len(rest) >= 3, rest[2] = <<>>
    PROVE  Has(t, "FileName") /\ FileNameIn(t) = rest[3]
<1>1. Has(t, "FileName") /\ Behind("FileName")[t] = rest /\ rest \in Texts
  <2> DEFINE m == "FileName"
  <2>1. m \in Words
    BY WordsAssumption DEF Markers
  <2>2. Shows(t, m, rest)
    BY Zenon
  <2> HIDE DEF m
  <2>3. Has(t, m) /\ Behind(m)[t] = rest /\ rest \in Texts
    BY <2>1, <2>2, ShownBehind
  <2> QED
    BY Zenon, <2>3 DEF m
<1>2. LineBehindEmpty(1)[rest] = 3
  <2>1. Len(rest) \in Nat
    BY <1>1, LenProperties DEF Texts
  <2>2. 2 \in 2..(Len(rest) - 1) /\ 1 \in Nat
    BY <2>1
  <2>3. \A j \in 2..(2 + 1 - 1) : rest[j] = <<>>
    OBVIOUS
  <2>4. \A i \in 2..(2 - 1) : \E j \in i..(i + 1 - 1) : rest[j] # <<>>
    OBVIOUS
  <2>5. LineBehindEmpty(1)[rest] = 2 + 1
    BY <1>1, <2>2, <2>3, <2>4, EmptyLines
  <2> QED
    BY <2>5
<1> QED
  BY <1>1, <1>2 DEF FileNameIn

\* The text behind a line of it.
LEMMA TextBehind ==
    ASSUME NEW t \in Texts, NEW k \in 0..Len(t)
    PROVE  /\ SubSeq(t, k + 1, Len(t)) \in Texts
           /\ Len(SubSeq(t, k + 1, Len(t))) = Len(t) - k
           /\ \A i \in 1..(Len(t) - k) : SubSeq(t, k + 1, Len(t))[i] = t[k + i]
<1>1. t \in Seq(Line) /\ Len(t) \in Nat
  BY TextsOfLines, LenProperties
<1> DEFINE u == SubSeq(t, k + 1, Len(t))
<1>2. u \in Seq(Line) /\ PartOf(u, t, k + 1, Len(t))
  BY <1>1, PartsMade
<1> HIDE DEF u
<1>3. Len(u) = Len(t) - k
  BY <1>1, <1>2 DEF PartOf
<1>4. ASSUME NEW i \in 1..(Len(t) - k) PROVE u[i] = t[k + i]
  <2>1. i \in 1..(Len(t) - (k + 1) + 1) /\ k + 1 + i - 1 = k + i
    BY <1>1
  <2> QED
    BY <1>2, <2>1 DEF PartOf
<1> QED
  BY <1>2, <1>3, <1>4, TextsOfLines DEF u

\* What is behind the marker of the file.
LEMMA FileBehind ==
    ASSUME NEW t \in Texts, NEW rest, Shows(t, "FileData", rest)
    PROVE  Has(t, "FileData") /\ Behind("FileData")[t] = rest /\ rest \in Texts
<1> DEFINE m == "FileData"
<1>1. m \in Words
  BY WordsAssumption DEF Markers
<1>2. Shows(t, m, rest)
  BY Zenon
<1> HIDE DEF m
<1>3. Has(t, m) /\ Behind(m)[t] = rest /\ rest \in Texts
  BY <1>1, <1>2, ShownBehind
<1> QED
  BY Zenon, <1>3 DEF m

\* What multi_post.lua sends is one line, behind its size.
WrkRest(rest, d) ==
    /\ rest \in Texts /\ Len(rest) = 6
    /\ rest[2] = <<>> /\ rest[3] = <<>> /\ rest[5] = d

LEMMA WrkDataFound ==
    ASSUME NEW t \in Texts, NEW rest, Shows(t, "FileData", rest), NEW d \in Line, WrkRest(rest, d)
    PROVE  Has(t, "FileData") /\ FileDataIn(t) = d
<1>1. Has(t, "FileData") /\ Behind("FileData")[t] = rest /\ rest \in Texts
  <2> DEFINE m == "FileData"
  <2>1. m \in Words
    BY WordsAssumption DEF Markers
  <2>2. Shows(t, m, rest)
    BY Zenon
  <2> HIDE DEF m
  <2>3. Has(t, m) /\ Behind(m)[t] = rest /\ rest \in Texts
    BY <2>1, <2>2, ShownBehind
  <2> QED
    BY Zenon, <2>3 DEF m
<1>2. Len(rest) = 6 /\ rest[2] = <<>> /\ rest[3] = <<>> /\ rest[5] = d
  BY DEF WrkRest
<1>3. LineBehindEmpty(2)[rest] = 4
  <2>1. 2 \in 2..(Len(rest) - 2) /\ 2 \in Nat
    BY <1>2
  <2>2. \A j \in 2..(2 + 2 - 1) : rest[j] = <<>>
    <3>1. \A j \in 2..(2 + 2 - 1) : j = 2 \/ j = 3
      OBVIOUS
    <3> QED
      BY <1>2, <3>1
  <2>3. \A i \in 2..(2 - 1) : \E j \in i..(i + 2 - 1) : rest[j] # <<>>
    OBVIOUS
  <2>4. LineBehindEmpty(2)[rest] = 2 + 2
    BY <1>1, <2>1, <2>2, <2>3, EmptyLines
  <2> QED
    BY <2>4
<1> DEFINE u == SubSeq(rest, 6, Len(rest))
<1>4. u \in Texts /\ Len(u) = 1
  <2>1. 5 \in 0..Len(rest) /\ 5 + 1 = 6
    BY <1>2
  <2>2. SubSeq(rest, 5 + 1, Len(rest)) \in Texts /\ Len(SubSeq(rest, 5 + 1, Len(rest))) = Len(rest) - 5
    BY <1>1, <2>1, TextBehind
  <2> QED
    BY <1>2, <2>1, <2>2
<1> HIDE DEF u
<1>5. FurtherData[u] = FlattenSeq(<<>>)
  <2> DEFINE es == <<>>
  <2>1. es \in Seq(Line) /\ Len(es) = 0 /\ Len(u) <= 1
    BY <1>4, EmptySeq
  <2>2. \A i \in 1..Len(es) : es[i] # <<>> /\ u[2 * i] = es[i]
    BY <2>1
  <2> HIDE DEF es
  <2>3. FurtherData[u] = FlattenSeq(es)
    BY <1>4, <2>1, <2>2, FurtherLines
  <2> QED
    BY <2>3 DEF es
<1>6. FlattenSeq(<<>>) = <<>>
  BY DEF FlattenSeq
<1>7. FileDataIn(t) = rest[5] \o <<>>
  <2>1. 4 + 1 = 5 /\ 4 + 2 = 6
    OBVIOUS
  <2> QED
    BY Zenon, <1>1, <1>3, <1>5, <1>6, <2>1 DEF FileDataIn, u
<1> QED
  BY <1>1, <1>2, <1>7, LineEmpty

\* What curl sends are the lines ds, each behind its size, and an empty one.
CurlRest(rest, ds) ==
    /\ rest \in Texts /\ Len(rest) >= 2 * Len(ds) + 7
    /\ rest[2] # <<>> /\ rest[3] = <<>> /\ rest[4] = <<>>
    /\ \A i \in 1..Len(ds) : rest[4 + 2 * i] = ds[i] /\ ds[i] # <<>>
    /\ rest[2 * Len(ds) + 6] = <<>>
    /\ Len(rest) > 7 => rest[8] = <<>> \/ Len(ds) > 0

LEMMA CurlDataFound ==
    ASSUME NEW t \in Texts, NEW rest, Shows(t, "FileData", rest), NEW ds \in Seq(Line),
           CurlRest(rest, ds), NEW w, Sums(w, ds, Words)
    PROVE  Has(t, "FileData") /\ FileDataIn(t) = w[Len(ds)]
<1>1. Has(t, "FileData") /\ Behind("FileData")[t] = rest /\ rest \in Texts
  <2> DEFINE m == "FileData"
  <2>1. m \in Words
    BY WordsAssumption DEF Markers
  <2>2. Shows(t, m, rest)
    BY Zenon
  <2> HIDE DEF m
  <2>3. Has(t, m) /\ Behind(m)[t] = rest /\ rest \in Texts
    BY <2>1, <2>2, ShownBehind
  <2> QED
    BY Zenon, <2>3 DEF m
<1>2. /\ Len(ds) \in Nat /\ Len(rest) \in Nat /\ Len(rest) >= 2 * Len(ds) + 7
      /\ rest[2] # <<>> /\ rest[3] = <<>> /\ rest[4] = <<>>
      /\ \A i \in 1..Len(ds) : rest[4 + 2 * i] = ds[i] /\ ds[i] # <<>>
      /\ rest[2 * Len(ds) + 6] = <<>>
      /\ Len(rest) > 7 => rest[8] = <<>> \/ Len(ds) > 0
  BY <1>1, LenProperties DEF CurlRest, Texts
<1>3. \A i \in 1..Len(ds) : ds[i] \in Line
  OBVIOUS
<1>4. LineBehindEmpty(2)[rest] = 5
  <2>1. 3 \in 2..(Len(rest) - 2) /\ 2 \in Nat
    BY <1>2
  <2>2. \A j \in 3..(3 + 2 - 1) : rest[j] = <<>>
    <3>1. \A j \in 3..(3 + 2 - 1) : j = 3 \/ j = 4
      OBVIOUS
    <3> QED
      BY <1>2, <3>1
  <2>3. \A i \in 2..(3 - 1) : \E j \in i..(i + 2 - 1) : rest[j] # <<>>
    <3>1. \A i \in 2..(3 - 1) : i = 2 /\ 2 \in i..(i + 2 - 1)
      OBVIOUS
    <3> QED
      BY <1>2, <3>1
  <2>4. LineBehindEmpty(2)[rest] = 3 + 2
    BY <1>1, <2>1, <2>2, <2>3, EmptyLines
  <2> QED
    BY <2>4
<1> DEFINE u == SubSeq(rest, 7, Len(rest))
<1>5. u \in Texts /\ Len(u) = Len(rest) - 6 /\ \A i \in 1..(Len(rest) - 6) : u[i] = rest[6 + i]
  <2>1. 6 \in 0..Len(rest) /\ 6 + 1 = 7
    BY <1>2
  <2>2. /\ SubSeq(rest, 6 + 1, Len(rest)) \in Texts
        /\ Len(SubSeq(rest, 6 + 1, Len(rest))) = Len(rest) - 6
        /\ \A i \in 1..(Len(rest) - 6) : SubSeq(rest, 6 + 1, Len(rest))[i] = rest[6 + i]
    BY <1>1, <2>1, TextBehind
  <2> QED
    BY <2>1, <2>2
<1>6. FileDataIn(t) = rest[6] \o FurtherData[u]
  <2>1. 5 + 1 = 6 /\ 5 + 2 = 7
    OBVIOUS
  <2> QED
    BY Zenon, <1>1, <1>4, <2>1 DEF FileDataIn, u
<1> HIDE DEF u
<1>7. CASE Len(ds) = 0
  <2>1. rest[6] = <<>> /\ w[Len(ds)] = <<>>
    <3>1. 2 * 0 + 6 = 6
      OBVIOUS
    <3> QED
      BY <1>2, <1>7, <3>1 DEF Sums
  <2> DEFINE es == <<>>
  <2>2. es \in Seq(Line) /\ Len(es) = 0
    BY EmptySeq
  <2>3. \A i \in 1..Len(es) : es[i] # <<>> /\ u[2 * i] = es[i]
    BY <2>2
  <2> HIDE DEF es
  <2>4. \/ 2 * Len(es) + 2 <= Len(u) /\ u[2 * Len(es) + 2] = <<>>
        \/ Len(es) = 0 /\ Len(u) <= 1
    <3>1. CASE Len(rest) <= 7
      BY <1>2, <1>5, <2>2, <3>1
    <3>2. CASE Len(rest) > 7
      <4>1. rest[8] = <<>> /\ 2 \in 1..(Len(rest) - 6) /\ 6 + 2 = 8
        BY <1>2, <1>7, <3>2
      <4>2. 2 * 0 + 2 = 2
        OBVIOUS
      <4> QED
        BY <1>2, <1>5, <2>2, <3>2, <4>1, <4>2
    <3> QED
      BY <1>2, <3>1, <3>2
  <2>5. FurtherData[u] = FlattenSeq(es)
    BY <1>5, <2>2, <2>3, <2>4, FurtherLines
  <2>6. FlattenSeq(es) = <<>>
    BY DEF FlattenSeq, es
  <2>7. <<>> \o <<>> = <<>>
    BY Empty, LineEmpty
  <2> QED
    BY Zenon, <1>1, <1>6, <2>1, <2>5, <2>6, <2>7
<1>8. CASE Len(ds) > 0
  <2> DEFINE es == [i \in 1..(Len(ds) - 1) |-> ds[i + 1]]
  <2>1. es \in Seq(Line) /\ Len(es) = Len(ds) - 1 /\ \A i \in 1..Len(es) : es[i] = ds[i + 1]
    BY <1>2, <1>3, <1>8
  <2> HIDE DEF es
  <2>2. ASSUME NEW i \in 1..Len(es) PROVE es[i] # <<>> /\ u[2 * i] = es[i]
    <3>1. i + 1 \in 1..Len(ds) /\ 2 * i \in 1..(Len(rest) - 6) /\ 6 + 2 * i = 4 + 2 * (i + 1)
      BY <1>2, <2>1
    <3>2. rest[4 + 2 * (i + 1)] = ds[i + 1] /\ ds[i + 1] # <<>>
      BY <1>2, <3>1
    <3>3. u[2 * i] = rest[6 + 2 * i]
      BY <1>5, <3>1
    <3> QED
      BY <2>1, <3>1, <3>2, <3>3
  <2>3. 2 * Len(es) + 2 <= Len(u) /\ u[2 * Len(es) + 2] = <<>>
    <3>1. /\ 2 * Len(es) + 2 \in 1..(Len(rest) - 6) /\ 6 + (2 * Len(es) + 2) = 2 * Len(ds) + 6
          /\ 2 * Len(es) + 2 <= Len(u)
      BY <1>2, <1>5, <2>1
    <3> QED
      BY <1>2, <1>5, <3>1
  <2>4. FurtherData[u] = FlattenSeq(es)
    BY <1>5, <2>1, <2>2, <2>3, FurtherLines
  <2>5. PICK v : Sums(v, es, Words)
    BY <2>1, SumsExist DEF Line
  <2>6. FlattenSeq(es) = v[Len(es)]
    BY <2>1, <2>5, FlattenedLines DEF Line
  <2>7. ds[1] \o v[Len(es)] = w[Len(ds)]
    <3>1. Len(ds) = Len(es) + 1
      BY <1>2, <2>1
    <3> QED
      BY <2>1, <2>5, <3>1, FirstAndOthers
  <2>8. rest[6] = ds[1]
    <3>1. 1 \in 1..Len(ds) /\ 4 + 2 * 1 = 6
      BY <1>2, <1>8
    <3> QED
      BY <1>2, <3>1
  <2> QED
    BY Zenon, <1>1, <1>6, <2>4, <2>6, <2>7, <2>8
<1> QED
  BY <1>2, <1>7, <1>8

-----------------------------------------------------------------------------
(* The fields found                                                        *)

\* The fields, before the file is found.
Named(n, nd, sec) == [name |-> n, named |-> nd, secured |-> sec, data |-> <<>>, found |-> FALSE]

LEMMA PlainPart ==
    ASSUME NEW t, NEW n, NEW nd \in BOOLEAN, NEW sec \in BOOLEAN,
           ~Has(t, "FileName"), ~Has(t, "Secured"), ~Has(t, "FileData")
    PROVE  WithPart(Named(n, nd, sec), t) = Named(n, nd, sec)
BY DEF WithPart, DataIn, Named

LEMMA FlagPart ==
    ASSUME NEW t, NEW n, NEW nd \in BOOLEAN, NEW sec \in BOOLEAN,
           ~Has(t, "FileName"), Has(t, "Secured"), ~Has(t, "FileData")
    PROVE  WithPart(Named(n, nd, sec), t) = Named(n, nd, TRUE)
BY DEF WithPart, DataIn, Named

\* Of the part with the name nothing else is looked at.
LEMMA NamePart ==
    ASSUME NEW t, NEW n, NEW sec \in BOOLEAN, Has(t, "FileName")
    PROVE  WithPart(Named(n, FALSE, sec), t) = Named(FileNameIn(t), TRUE, sec)
<1> DEFINE c == << <<"character">> >>
<1>1. ~Has(c, "Secured") /\ ~Has(c, "FileData")
  <2>1. ~Contains(<<"character">>, "Secured") /\ ~Contains(<<"character">>, "FileData")
    BY OtherWord
  <2> QED
    BY <2>1, HasLine
<1> HIDE DEF c
<1>2. WithPart(Named(n, FALSE, sec), t) =
        [name |-> FileNameIn(t), named |-> TRUE, secured |-> sec \/ Has(c, "Secured"),
         data |-> DataIn(Named(n, FALSE, sec), c), found |-> FALSE \/ Has(c, "FileData")]
  BY DEF WithPart, Named, c
<1>3. DataIn(Named(n, FALSE, sec), c) = <<>>
  BY <1>1 DEF DataIn, Named
<1> QED
  BY <1>1, <1>2, <1>3 DEF Named

\* The part with the file, and the whole text with it when there are no parts.
LEMMA FilePart ==
    ASSUME NEW t, NEW n, NEW nd \in BOOLEAN, NEW sec \in BOOLEAN,
           ~Has(t, "FileName"), ~Has(t, "Secured"), Has(t, "FileData")
    PROVE  WithPart(Named(n, nd, sec), t) =
              [name |-> n, named |-> nd, secured |-> sec, data |-> FileDataIn(t), found |-> TRUE]
BY DEF WithPart, DataIn, Named

-----------------------------------------------------------------------------
(* Texts line by line                                                      *)

\* The line l, and the text u behind it.
On(l, u) == <<l>> \o u

LEMMA OnText ==
    ASSUME NEW l \in Line, NEW u \in Texts
    PROVE  /\ On(l, u) \in Texts /\ On(l, u) # <<>> /\ Head(On(l, u)) = l /\ Tail(On(l, u)) = u
           /\ Len(On(l, u)) = Len(u) + 1 /\ Len(u) \in Nat /\ On(l, u)[1] = l
           /\ \A i \in 1..Len(u) : On(l, u)[i + 1] = u[i]
<1> DEFINE t == <<l>> \o u
<1>1. /\ t \in Texts /\ t # <<>> /\ Head(t) = l /\ Tail(t) = u
  BY TextOf
<1>2. u \in Seq(Line) /\ <<l>> \in Seq(Line) /\ Len(<<l>>) = 1 /\ <<l>>[1] = l /\ Len(u) \in Nat
  BY TextsOfLines, OneOf, LenProperties
<1>3. Joined(t, <<l>>, u)
  BY <1>2, SequencesMade
<1> HIDE DEF t
<1>4. Len(t) = Len(u) + 1 /\ t[1] = l
  BY <1>2, <1>3 DEF Joined
<1>5. ASSUME NEW i \in 1..Len(u) PROVE t[i + 1] = u[i]
  <2>1. i + 1 \in 1..(1 + Len(u)) /\ ~(i + 1 <= 1) /\ (i + 1) - 1 = i
    BY <1>2
  <2> QED
    BY <1>2, <1>3, <2>1 DEF Joined
<1> QED
  BY <1>1, <1>2, <1>4, <1>5 DEF On, t

\* A text that has a line more than another, in front, is that line on it.
HasOn(t, l, u) ==
    /\ t \in Texts /\ u \in Texts /\ Len(t) = Len(u) + 1
    /\ t[1] = l /\ \A i \in 1..Len(u) : t[i + 1] = u[i]

LEMMA OnIs ==
    ASSUME NEW l \in Line, NEW u, NEW t, HasOn(t, l, u)
    PROVE  t = On(l, u)
<1>0. /\ t \in Texts /\ u \in Texts /\ Len(t) = Len(u) + 1
      /\ t[1] = l /\ \A i \in 1..Len(u) : t[i + 1] = u[i]
  BY DEF HasOn
<1> DEFINE v == On(l, u)
<1>1. v \in Texts /\ Len(v) = Len(u) + 1 /\ Len(u) \in Nat /\ v[1] = l
      /\ \A i \in 1..Len(u) : v[i + 1] = u[i]
  BY <1>0, OnText
<1> HIDE DEF v
<1>2. t \in Seq(Line) /\ v \in Seq(Line) /\ Len(t) = Len(v)
  BY <1>0, <1>1, TextsOfLines
<1>3. ASSUME NEW j \in 1..Len(t) PROVE t[j] = v[j]
  <2>1. CASE j = 1
    BY <1>0, <1>1, <2>1
  <2>2. CASE j # 1
    <3>1. j - 1 \in 1..Len(u) /\ (j - 1) + 1 = j
      BY <1>0, <1>1, <1>2, <2>2
    <3> QED
      BY <1>0, <1>1, <3>1
  <2> QED
    BY <2>1, <2>2
<1>4. t = v
  BY <1>2, <1>3, SeqEqual
<1> QED
  BY <1>4 DEF v

\* Texts of a few lines.
LEMMA OnOne ==
    ASSUME NEW a \in Line
    PROVE  <<a>> = On(a, <<>>)
<1>1. <<a>> \in Texts /\ <<>> \in Texts /\ Len(<<a>>) = 1 /\ Len(<<>>) = 0
  BY Empty, TextsOfLines
<1>2. <<a>>[1] = a /\ \A i \in 1..0 : <<a>>[i + 1] = <<>>[i]
  OBVIOUS
<1>3. HasOn(<<a>>, a, <<>>)
  BY <1>1, <1>2 DEF HasOn
<1> QED
  BY <1>3, OnIs

LEMMA OnTwo ==
    ASSUME NEW a \in Line, NEW b \in Line
    PROVE  <<a, b>> = On(a, <<b>>)
<1>1. <<a, b>> \in Texts /\ <<b>> \in Texts /\ Len(<<a, b>>) = 2 /\ Len(<<b>>) = 1
  BY TextsOfLines
<1>2. <<a, b>>[1] = a /\ \A i \in 1..1 : <<a, b>>[i + 1] = <<b>>[i]
  OBVIOUS
<1>3. HasOn(<<a, b>>, a, <<b>>)
  BY <1>1, <1>2 DEF HasOn
<1> QED
  BY <1>3, OnIs

LEMMA OnThree ==
    ASSUME NEW a \in Line, NEW b \in Line, NEW c \in Line
    PROVE  <<a, b, c>> = On(a, <<b, c>>)
<1>1. <<a, b, c>> \in Texts /\ <<b, c>> \in Texts /\ Len(<<a, b, c>>) = 3 /\ Len(<<b, c>>) = 2
  BY TextsOfLines
<1>2. <<a, b, c>>[1] = a /\ \A i \in 1..2 : <<a, b, c>>[i + 1] = <<b, c>>[i]
  OBVIOUS
<1>3. HasOn(<<a, b, c>>, a, <<b, c>>)
  BY <1>1, <1>2 DEF HasOn
<1> QED
  BY <1>3, OnIs

LEMMA OnFour ==
    ASSUME NEW a \in Line, NEW b \in Line, NEW c \in Line, NEW d \in Line
    PROVE  <<a, b, c, d>> = On(a, <<b, c, d>>)
<1>1. <<a, b, c, d>> \in Texts /\ <<b, c, d>> \in Texts /\ Len(<<a, b, c, d>>) = 4 /\ Len(<<b, c, d>>) = 3
  BY TextsOfLines
<1>2. <<a, b, c, d>>[1] = a /\ \A i \in 1..3 : <<a, b, c, d>>[i + 1] = <<b, c, d>>[i]
  OBVIOUS
<1>3. HasOn(<<a, b, c, d>>, a, <<b, c, d>>)
  BY <1>1, <1>2 DEF HasOn
<1> QED
  BY <1>3, OnIs

LEMMA OnFive ==
    ASSUME NEW a \in Line, NEW b \in Line, NEW c \in Line, NEW d \in Line, NEW e \in Line
    PROVE  <<a, b, c, d, e>> = On(a, <<b, c, d, e>>)
<1>1. <<a, b, c, d, e>> \in Texts /\ <<b, c, d, e>> \in Texts /\ Len(<<a, b, c, d, e>>) = 5 /\ Len(<<b, c, d, e>>) = 4
  BY TextsOfLines
<1>2. <<a, b, c, d, e>>[1] = a /\ \A i \in 1..4 : <<a, b, c, d, e>>[i + 1] = <<b, c, d, e>>[i]
  OBVIOUS
<1>3. HasOn(<<a, b, c, d, e>>, a, <<b, c, d, e>>)
  BY <1>1, <1>2 DEF HasOn
<1> QED
  BY <1>3, OnIs

\* What is behind a text that has a line on it.
JoinsOn(l, u, v) == On(l, u) \o v = On(l, u \o v) /\ u \o v \in Texts

LEMMA OnJoin ==
    ASSUME NEW l \in Line, NEW u \in Texts, NEW v \in Texts
    PROVE  JoinsOn(l, u, v)
<1>1. <<l>> \in Texts
  BY LineText
<1> DEFINE k == <<l>>
<1> HIDE DEF k
<1>2. k \in Texts
  BY <1>1 DEF k
<1>3. AnyGroups(k, u, v)
  BY <1>2, Grouped
<1>4. u \o v \in Texts
  BY TextJoin
<1> QED
  BY Zenon, <1>3, <1>4 DEF AnyGroups, JoinsOn, On, k

\* Which words are in it.
LEMMA OnHas ==
    ASSUME NEW l \in Line, NEW u \in Texts, NEW m
    PROVE  Has(On(l, u), m) <=> Contains(l, m) \/ Has(u, m)
<1>1. <<l>> \in Texts
  BY LineText
<1>2. Has(<<l>> \o u, m) <=> Has(<<l>>, m) \/ Has(u, m)
  BY <1>1, HasParts
<1>3. Has(<<l>>, m) <=> Contains(l, m)
  BY HasLine
<1> QED
  BY <1>2, <1>3 DEF On

LEMMA OnFree ==
    ASSUME NEW W, NEW l, LineFree(l, W), NEW u, Free(u, W)
    PROVE  Free(On(l, u), W)
BY FreeLine, FreeJoin DEF On

LEMMA EmptyFree == ASSUME NEW W PROVE LineFree(<<>>, W) /\ Free(<<>>, W)
BY EmptySeq DEF LineFree, Free

\* A part of which the first line is known, and one of one line.
PartOn(a, x, l, b, h, u) ==
    /\ Part(On(a, x), l, b, On(h, u)) = On(a, Part(x, l, b, On(h, u)))
    /\ Part(x, l, b, On(h, u)) \in Texts
    /\ Part(<<>>, l, b, On(h, u)) = On(l \o (<<b>> \o h), u)
    /\ l \o (<<b>> \o h) \in Line

LEMMA OnPart ==
    ASSUME NEW a \in Line, NEW x \in Texts, NEW l \in Line, NEW b \in Words,
           NEW h \in Line, NEW u \in Texts
    PROVE  PartOn(a, x, l, b, h, u)
<1> DEFINE g == l \o (<<b>> \o h)
           v == On(g, u)
<1>1. g \in Line
  <2>1. <<b>> \o h \in Line
    BY WordLine, LineJoin
  <2> QED
    BY <2>1, LineJoin
<1>2. \A y : Part(y, l, b, On(h, u)) = y \o v
  <2>1. Head(On(h, u)) = h /\ Tail(On(h, u)) = u
    BY OnText
  <2> QED
    BY Zenon, <2>1 DEF Part, v, g, On
<1> HIDE DEF g
<1>3. v \in Texts
  BY <1>1, OnText
<1> HIDE DEF v
<1>4. On(a, x) \o v = On(a, x \o v) /\ x \o v \in Texts
  <2>1. JoinsOn(a, x, v)
    BY <1>3, OnJoin
  <2> QED
    BY <2>1 DEF JoinsOn
<1>5. <<>> \o v = v
  BY <1>3, TextEmpty
<1>6. Part(On(a, x), l, b, On(h, u)) = On(a, Part(x, l, b, On(h, u)))
  BY Zenon, <1>2, <1>4
<1>7. Part(x, l, b, On(h, u)) \in Texts
  BY Zenon, <1>2, <1>4
<1>8. Part(<<>>, l, b, On(h, u)) = On(g, u)
  BY Zenon, <1>2, <1>5 DEF v
<1> QED
  BY Zenon, <1>1, <1>6, <1>7, <1>8 DEF PartOn, g

\* A word is shown in the first line, or behind it.
LEMMA OnShows ==
    ASSUME NEW m \in Words, NEW a \in Line, ~Contains(a, m)
    PROVE  /\ \A l2 \in Line, u \in Texts : Shows(On(a \o (<<m>> \o l2), u), m, On(l2, u))
           /\ \A t \in Texts : \A rest : Shows(t, m, rest) => Shows(On(a, t), m, rest)
<1>1. ASSUME NEW l2 \in Line, NEW u \in Texts
      PROVE  Shows(On(a \o (<<m>> \o l2), u), m, On(l2, u))
  <2> DEFINE g == a \o (<<m>> \o l2)
  <2>1. g \in Line
    <3>1. <<m>> \o l2 \in Line
      BY WordLine, LineJoin
    <3> QED
      BY <3>1, LineJoin
  <2> HIDE DEF g
  <2>2. <<>> \in Texts /\ ~Has(<<>>, m) /\ On(g, u) = <<>> \o (<<g>> \o u)
    <3>1. On(g, u) \in Texts
      BY <2>1, OnText
    <3>2. <<>> \o On(g, u) = On(g, u)
      BY <3>1, TextEmpty
    <3> QED
      BY <3>2, Empty DEF Has, On
  <2> QED
    BY <2>2 DEF Shows, g, On
<1>2. ASSUME NEW t \in Texts, NEW rest, Shows(t, m, rest) PROVE Shows(On(a, t), m, rest)
  <2>1. PICK q \in Texts, l1 \in Line, l2 \in Line, u \in Texts :
           /\ t = q \o (<<l1 \o (<<m>> \o l2)>> \o u)
           /\ ~Has(q, m) /\ ~Contains(l1, m)
           /\ rest = <<l2>> \o u
    BY <1>2 DEF Shows
  <2> DEFINE g == l1 \o (<<m>> \o l2)
             v == On(g, u)
  <2>2. v \in Texts
    <3>1. <<m>> \o l2 \in Line
      BY WordLine, LineJoin
    <3>2. g \in Line
      BY <3>1, LineJoin
    <3> HIDE DEF g
    <3> QED
      BY <3>2, OnText
  <2>3. t = q \o v
    BY <2>1 DEF On
  <2> HIDE DEF v
  <2>4. On(a, t) = On(a, q) \o v /\ On(a, q) \in Texts
    <3>1. JoinsOn(a, q, v)
      BY <2>2, OnJoin
    <3>2. On(a, q) \in Texts
      BY OnText
    <3> QED
      BY Zenon, <2>3, <3>1, <3>2 DEF JoinsOn
  <2>5. ~Has(On(a, q), m)
    BY <2>1, OnHas
  <2> QED
    BY <2>1, <2>4, <2>5 DEF Shows, v, On
<1> QED
  BY <1>1, <1>2

AppendOn(a, u, l) ==
    /\ Append(On(a, u), l) = On(a, Append(u, l)) /\ Append(u, l) \in Texts
    /\ Append(<<>>, l) = On(l, <<>>)

LEMMA OnAppend ==
    ASSUME NEW a \in Line, NEW u \in Texts, NEW l \in Line
    PROVE  AppendOn(a, u, l)
<1> DEFINE k == On(l, <<>>)
<1>1. k \in Texts
  BY Empty, OnText
<1>2. k = <<l>>
  BY <1>1, OnOne DEF k
<1> HIDE DEF k
<1>3. \A x \in Texts : Append(x, l) = x \o k /\ x \o k \in Texts
  BY <1>1, <1>2, TextAppend, TextJoin
<1>4. On(a, u) \o k = On(a, u \o k)
  <2>1. JoinsOn(a, u, k)
    BY <1>1, OnJoin
  <2> QED
    BY <2>1 DEF JoinsOn
<1>5. On(a, u) \in Texts /\ <<>> \in Texts /\ <<>> \o k = k
  BY <1>1, OnText, Empty, TextEmpty
<1>6. Append(On(a, u), l) = On(a, Append(u, l)) /\ Append(u, l) \in Texts
  BY Zenon, <1>3, <1>4, <1>5
<1>7. Append(<<>>, l) = k
  BY Zenon, <1>3, <1>5
<1> QED
  BY Zenon, <1>6, <1>7 DEF AppendOn, k

\* Lines of a few words.
WordsJoined(a, b, c, d) ==
    /\ <<a>> \o (<<b>> \o <<>>) = <<a, b>>
    /\ <<a>> \o (<<b>> \o <<c>>) = <<a, b, c>>
    /\ <<a, b>> \o (<<c>> \o <<d>>) = <<a, b, c, d>>
    /\ <<>> \o (<<a>> \o <<>>) = <<a>>
    /\ <<>> \o (<<a>> \o <<b>>) = <<a, b>>
    /\ <<a>> \in Line /\ <<a, b>> \in Line /\ <<a, b, c>> \in Line /\ <<a, b, c, d>> \in Line

LEMMA WordsJoin ==
    ASSUME NEW a \in Words, NEW b \in Words, NEW c \in Words, NEW d \in Words
    PROVE  WordsJoined(a, b, c, d)
<1>1. /\ <<a>> \in Line /\ <<b>> \in Line /\ <<c>> \in Line /\ <<d>> \in Line
      /\ <<a, b>> \in Line /\ <<a, b, c>> \in Line /\ <<a, b, c, d>> \in Line /\ <<c, d>> \in Line
      /\ <<b, c>> \in Line
  BY DEF Line
<1>2. ASSUME NEW x \in Line, NEW y \in Line, NEW t \in Line, Joined(t, x, y) PROVE x \o y = t
  <2> DEFINE v == x \o y
  <2>1. v \in Seq(Words) /\ Joined(v, x, y) /\ t \in Seq(Words)
    BY SequencesMade DEF Line
  <2> HIDE DEF v
  <2>2. Len(v) = Len(t) /\ \A j \in 1..Len(t) : v[j] = t[j]
    BY <1>2, <2>1 DEF Joined
  <2> QED
    BY <2>1, <2>2, SeqEqual DEF v
<1>3. <<b>> \o <<>> = <<b>> /\ <<a>> \o <<>> = <<a>> /\ <<>> \o <<a>> = <<a>> /\ <<>> \o <<a, b>> = <<a, b>>
  BY <1>1, LineEmpty
<1>4. <<a>> \o <<b>> = <<a, b>>
  <2>1. Joined(<<a, b>>, <<a>>, <<b>>)
    BY DEF Joined
  <2> QED
    BY <1>1, <1>2, <2>1
<1>5. <<b>> \o <<c>> = <<b, c>>
  <2>1. Joined(<<b, c>>, <<b>>, <<c>>)
    BY DEF Joined
  <2> QED
    BY <1>1, <1>2, <2>1
<1>6. <<c>> \o <<d>> = <<c, d>>
  <2>1. Joined(<<c, d>>, <<c>>, <<d>>)
    BY DEF Joined
  <2> QED
    BY <1>1, <1>2, <2>1
<1>7. <<a>> \o <<b, c>> = <<a, b, c>>
  <2>1. Joined(<<a, b, c>>, <<a>>, <<b, c>>)
    BY DEF Joined
  <2> QED
    BY <1>1, <1>2, <2>1
<1>8. <<a, b>> \o <<c, d>> = <<a, b, c, d>>
  <2>1. Joined(<<a, b, c, d>>, <<a, b>>, <<c, d>>)
    BY DEF Joined
  <2> QED
    BY <1>1, <1>2, <2>1
<1> QED
  BY Zenon, <1>1, <1>3, <1>4, <1>5, <1>6, <1>7, <1>8 DEF WordsJoined

LEMMA LineWords ==
    ASSUME NEW a \in Words, NEW b \in Words, NEW c \in Words, NEW d \in Words
    PROVE  /\ <<a>> \o (<<b>> \o <<>>) = <<a, b>>
           /\ <<>> \o (<<a>> \o <<>>) = <<a>>
           /\ <<>> \o (<<a>> \o <<b>>) = <<a, b>>
           /\ <<a>> \in Line /\ <<a, b>> \in Line
BY WordsJoin DEF WordsJoined

-----------------------------------------------------------------------------
(* Bodies that are cut up as they should be                                *)

Forms == [name : Line, named : BOOLEAN, secured : BOOLEAN, data : Line, found : BOOLEAN]

\* The file of q is found in t, and its marker is not there again.
FileIn(t, q) ==
    /\ Has(t, "FileData") /\ <<FileDataIn(t)>> = q.data
    /\ ~Has(Behind("FileData")[t], "FileData")

\* t is left of the body of q, and f found in what was cut off; P is what may
\* be left and found after the next part.  B are the boundaries.
CutsRight(q, B, t, f, P) ==
    /\ Free(t, B \ {q.boundary}) /\ f \in Forms
    /\ Has(t, q.boundary) =>
          <<Behind(q.boundary)[t], WithPart(f, Before(q.boundary)[t])>> \in P
    /\ ~Has(t, q.boundary) => f.found /\ f.name = q.name /\ f.secured = q.secured
    /\ f.found => <<f.data>> = q.data
    /\ ~f.found => FileIn(t, q)
    /\ q.client = "curl" /\ f.secured => f.name = q.name

\* It is, when it begins with a part of lines x and the beginning l of one.
LEMMA PartFree ==
    ASSUME NEW B, B \subseteq Words, NEW b \in B, NEW x, Free(x, B), NEW l, LineFree(l, B),
           NEW t, Free(t, B \ {b}), t # <<>>
    PROVE  Free(Part(x, l, b, t), B \ {b})
<1> DEFINE W == B \ {b}
           h == Head(t)
           u == Tail(t)
           g == l \o (<<b>> \o h)
<1>1. LineFree(h, W) /\ Free(u, W)
  <2> DEFINE S == Seq(Words \ W)
  <2>1. t \in Seq(S)
    BY DEF Free
  <2> HIDE DEF S
  <2>2. Head(t) \in S /\ Tail(t) \in Seq(S)
    BY <2>1
  <2> QED
    BY <2>2 DEF LineFree, Free, S
<1>2. LineFree(<<b>>, W)
  <2>1. b \in Words \ W
    OBVIOUS
  <2> HIDE DEF W
  <2> QED
    BY <2>1, FreeWord
<1>3. LineFree(l, W) /\ Free(x, W)
  <2>1. W \subseteq B
    OBVIOUS
  <2>2. Free(<<l>>, B)
    BY FreeLine
  <2>3. Words \ B \subseteq Words \ W
    BY <2>1
  <2>4. Seq(Words \ B) \subseteq Seq(Words \ W)
    BY <2>3
  <2> HIDE DEF W
  <2> QED
    BY <2>1, <2>4, FreeOfFewer DEF LineFree
<1> HIDE DEF W, h, u, g
<1>4. LineFree(g, W)
  <2>1. LineFree(<<b>> \o h, W)
    BY <1>1, <1>2, FreeLineJoin
  <2> QED
    BY <1>3, <2>1, FreeLineJoin DEF g
<1>5. Free(<<g>> \o u, W)
  <2>1. Free(<<g>>, W)
    BY <1>4, FreeLine
  <2> QED
    BY <1>1, <2>1, FreeJoin
<1>6. Free(x \o (<<g>> \o u), W)
  BY <1>3, <1>5, FreeJoin
<1> QED
  BY <1>6 DEF Part, W, h, u, g

LEMMA CutsByPart ==
    ASSUME NEW q, NEW B, B \subseteq Words, q.boundary \in B, NEW x, Free(x, B), NEW l, LineFree(l, B),
           NEW t, Free(t, B \ {q.boundary}), t # <<>>,
           NEW f \in Forms, ~f.found, q.client = "curl" /\ f.secured => f.name = q.name,
           NEW P, <<t, WithPart(f, Append(x, l))>> \in P,
           FileIn(Part(x, l, q.boundary, t), q)
    PROVE  CutsRight(q, B, Part(x, l, q.boundary, t), f, P)
<1> DEFINE b == q.boundary
           w == Part(x, l, b, t)
<1> HIDE DEF b
<1>1. b \in B /\ b \in Words /\ Free(t, B \ {b})
  BY DEF b
<1>2. x \in Texts /\ l \in Line /\ t \in Texts
  BY <1>1, FreeTyped
<1>3. ~Has(x, b) /\ ~Contains(l, b)
  BY <1>1, FreeHas
<1>4. CutApart(w, b, Append(x, l), t)
  BY <1>1, <1>2, <1>3, PartCut
<1>5. Free(w, B \ {b})
  BY <1>1, PartFree
<1>6. FileIn(w, q)
  BY DEF b
<1> HIDE DEF w
<1> QED
  BY <1>4, <1>5, <1>6 DEF CutsRight, CutApart, FileIn, b, w

\* With l behind x, the text cut off at the boundary b and the whole text.
Ends(x, l, b, t, cut, whole) ==
    x \in Texts /\ Append(x, l) = cut /\ Part(x, l, b, t) = whole

LEMMA EndsNone ==
    ASSUME NEW l \in Line, NEW b \in Words, NEW h \in Line, NEW u \in Texts
    PROVE  Ends(<<>>, l, b, On(h, u), On(l, <<>>), On(l \o (<<b>> \o h), u))
<1>1. PartOn(l, <<>>, l, b, h, u) /\ AppendOn(l, <<>>, l)
  BY Empty, OnPart, OnAppend
<1> QED
  BY Zenon, <1>1, Empty DEF PartOn, AppendOn, Ends

LEMMA EndsOn ==
    ASSUME NEW l \in Line, NEW b \in Words, NEW t \in Texts, t # <<>>,
           NEW a \in Line, NEW x, NEW cut, NEW whole, Ends(x, l, b, t, cut, whole)
    PROVE  Ends(On(a, x), l, b, t, On(a, cut), On(a, whole))
<1>1. x \in Texts /\ Append(x, l) = cut /\ Part(x, l, b, t) = whole
  BY DEF Ends
<1> DEFINE h == Head(t)
           u == Tail(t)
<1>2. h \in Line /\ u \in Texts /\ On(h, u) = t
  BY TextHead DEF On
<1> HIDE DEF h, u
<1>3. PartOn(a, x, l, b, h, u) /\ AppendOn(a, x, l) /\ On(a, x) \in Texts
  BY <1>1, <1>2, OnPart, OnAppend, OnText
<1> QED
  BY Zenon, <1>1, <1>2, <1>3 DEF PartOn, AppendOn, Ends

\* The name in a part that begins with its marker, or has a line before it.
LEMMA NameToken ==
    ASSUME NEW nm \in Line, NEW u \in Texts, NEW c \in Line, ~Contains(c, "FileName"),
           NEW x, x = On(<<"FileName">>, On(<<>>, On(nm, u)))
    PROVE  /\ Has(x, "FileName") /\ FileNameIn(x) = nm
           /\ Has(On(c, x), "FileName") /\ FileNameIn(On(c, x)) = nm
<1> DEFINE m == "FileName"
           mk == <<m>>
           rest == On(<<>>, On(<<>>, On(nm, u)))
           v == On(<<>>, On(nm, u))
<1>1. m \in Words
  BY WordsAssumption DEF Markers
<1>2. ~Contains(c, m) /\ x = On(mk, v) /\ rest = On(<<>>, v)
  OBVIOUS
<1> HIDE DEF m, rest
<1>3. v \in Texts /\ Len(v) = Len(u) + 2 /\ Len(u) \in Nat /\ v[1] = <<>> /\ v[2] = nm
  <2> DEFINE w == On(nm, u)
  <2>1. w \in Texts /\ Len(w) = Len(u) + 1 /\ Len(u) \in Nat /\ w[1] = nm
    BY OnText
  <2> HIDE DEF w
  <2>2. v \in Texts /\ Len(v) = Len(w) + 1 /\ v[1] = <<>> /\ \A i \in 1..Len(w) : v[i + 1] = w[i]
    BY <2>1, Empty, OnText DEF w
  <2>3. 1 \in 1..Len(w) /\ 1 + 1 = 2
    BY <2>1
  <2> QED
    BY <2>1, <2>2, <2>3
<1> HIDE DEF v
<1>4. rest \in Texts /\ Len(rest) >= 3 /\ rest[2] = <<>> /\ rest[3] = nm
  <2>1. On(<<>>, v) \in Texts /\ Len(On(<<>>, v)) = Len(v) + 1 /\ \A i \in 1..Len(v) : On(<<>>, v)[i + 1] = v[i]
    BY <1>3, Empty, OnText
  <2>2. 1 \in 1..Len(v) /\ 2 \in 1..Len(v) /\ 1 + 1 = 2 /\ 2 + 1 = 3
    BY <1>3
  <2> QED
    BY <1>2, <1>3, <2>1, <2>2
<1>5. mk \in Line /\ x \in Texts
  BY <1>1, <1>2, <1>3, WordLine, OnText
<1>6. Shows(x, m, rest)
  <2>1. ~Contains(<<>>, m) /\ <<>> \in Line
    BY Empty DEF Contains
  <2>2. Shows(On(<<>> \o (<<m>> \o <<>>), v), m, On(<<>>, v))
    BY <1>1, <1>3, <2>1, OnShows
  <2>3. <<>> \o (<<m>> \o <<>>) = mk
    BY <1>1, LineWords
  <2> QED
    BY <1>2, <2>2, <2>3
<1>7. Shows(On(c, x), m, rest) /\ On(c, x) \in Texts
  BY <1>1, <1>2, <1>5, <1>6, OnShows, OnText
<1>8. Shows(x, "FileName", rest) /\ Shows(On(c, x), "FileName", rest)
  BY Zenon, <1>6, <1>7 DEF m
<1>9. Has(x, "FileName") /\ FileNameIn(x) = rest[3]
  BY <1>4, <1>5, <1>8, NameFound
<1>10. Has(On(c, x), "FileName") /\ FileNameIn(On(c, x)) = rest[3]
  BY <1>4, <1>7, <1>8, NameFound
<1> QED
  BY <1>4, <1>9, <1>10

LEMMA LineFreeOfFewer ==
    ASSUME NEW W, NEW V, V \subseteq W, NEW l, LineFree(l, W)
    PROVE  LineFree(l, V)
<1>1. Words \ W \subseteq Words \ V
  OBVIOUS
<1>2. Seq(Words \ W) \subseteq Seq(Words \ V)
  BY <1>1
<1> QED
  BY <1>2 DEF LineFree

\* A marker in a line of its own, or with a word behind it.
LEMMA Marked ==
    ASSUME NEW m \in Words, NEW w \in Words, NEW u \in Texts
    PROVE  /\ Shows(On(<<m>>, u), m, On(<<>>, u))
           /\ Shows(On(<<m, w>>, u), m, On(<<w>>, u))
<1>1. ~Contains(<<>>, m) /\ <<>> \in Line /\ <<w>> \in Line
  BY Empty, WordLine DEF Contains
<1>2. \A l2 \in Line : Shows(On(<<>> \o (<<m>> \o l2), u), m, On(l2, u))
  BY <1>1, OnShows
<1>3. <<>> \o (<<m>> \o <<>>) = <<m>> /\ <<>> \o (<<m>> \o <<w>>) = <<m, w>>
  BY LineWords
<1>4. /\ Shows(On(<<>> \o (<<m>> \o <<>>), u), m, On(<<>>, u))
      /\ Shows(On(<<>> \o (<<m>> \o <<w>>), u), m, On(<<w>>, u))
  BY <1>1, <1>2
<1> QED
  BY Zenon, <1>3, <1>4

\* What multi_post.lua sends behind the marker of the file.
LEMMA WrkRestIs ==
    ASSUME NEW s \in Line, NEW d \in Line, NEW z \in Line
    PROVE  WrkRest(On(<<>>, On(<<>>, On(<<>>, On(s, On(d, On(z, <<>>)))))), d)
<1> DEFINE u1 == On(z, <<>>)
           u2 == On(d, u1)
           u3 == On(s, u2)
           u4 == On(<<>>, u3)
           u5 == On(<<>>, u4)
           u6 == On(<<>>, u5)
<1>0. <<>> \in Line /\ <<>> \in Texts /\ Len(<<>>) = 0
  BY Empty
<1> HIDE DEF u1, u2, u3, u4, u5, u6
<1>1. u1 \in Texts /\ Len(u1) = 1
  <2>1. u1 \in Texts /\ Len(u1) = Len(<<>>) + 1
    BY <1>0, OnText DEF u1
  <2> QED
    BY <1>0, <2>1
<1>2. u2 \in Texts /\ Len(u2) = 2 /\ u2[1] = d
  <2>1. u2 \in Texts /\ Len(u2) = Len(u1) + 1 /\ u2[1] = d
    BY <1>1, OnText DEF u2
  <2> QED
    BY <1>1, <2>1
<1>3. u3 \in Texts /\ Len(u3) = 3 /\ u3[2] = d
  <2>1. /\ u3 \in Texts /\ Len(u3) = Len(u2) + 1
        /\ \A i \in 1..Len(u2) : u3[i + 1] = u2[i]
    BY <1>2, OnText DEF u3
  <2>2. 1 \in 1..Len(u2) /\ 1 + 1 = 2
    BY <1>2
  <2> QED
    BY <1>2, <2>1, <2>2
<1>4. u4 \in Texts /\ Len(u4) = 4 /\ u4[1] = <<>> /\ u4[3] = d
  <2>1. /\ u4 \in Texts /\ Len(u4) = Len(u3) + 1 /\ u4[1] = <<>>
        /\ \A i \in 1..Len(u3) : u4[i + 1] = u3[i]
    BY <1>0, <1>3, OnText DEF u4
  <2>2. 2 \in 1..Len(u3) /\ 2 + 1 = 3
    BY <1>3
  <2> QED
    BY <1>3, <2>1, <2>2
<1>5. u5 \in Texts /\ Len(u5) = 5 /\ u5[1] = <<>> /\ u5[2] = <<>> /\ u5[4] = d
  <2>1. /\ u5 \in Texts /\ Len(u5) = Len(u4) + 1 /\ u5[1] = <<>>
        /\ \A i \in 1..Len(u4) : u5[i + 1] = u4[i]
    BY <1>0, <1>4, OnText DEF u5
  <2>2. 1 \in 1..Len(u4) /\ 3 \in 1..Len(u4) /\ 1 + 1 = 2 /\ 3 + 1 = 4
    BY <1>4
  <2> QED
    BY <1>4, <2>1, <2>2
<1>6. u6 \in Texts /\ Len(u6) = 6 /\ u6[2] = <<>> /\ u6[3] = <<>> /\ u6[5] = d
  <2>1. /\ u6 \in Texts /\ Len(u6) = Len(u5) + 1
        /\ \A i \in 1..Len(u5) : u6[i + 1] = u5[i]
    BY <1>0, <1>5, OnText DEF u6
  <2>2. 1 \in 1..Len(u5) /\ 2 \in 1..Len(u5) /\ 4 \in 1..Len(u5) /\ 1 + 1 = 2 /\ 2 + 1 = 3 /\ 4 + 1 = 5
    BY <1>5
  <2> QED
    BY <1>5, <2>1, <2>2
<1> QED
  BY <1>6 DEF WrkRest, u1, u2, u3, u4, u5, u6

\* Words, names and boundaries.
Fit(b, nm, B) ==
    /\ B \subseteq Words /\ B \cap (Markers \cup Wrapping) = {}
    /\ b \in B /\ nm \in Words \ (Markers \cup B)

\* The lines that bodies have.
Plain(l, B) == LineFree(l, Markers \cup B)
LinesFree(nm, B) ==
    /\ Plain(<<>>, B) /\ Plain(<<"--">>, B) /\ Plain(<<"size">>, B) /\ Plain(<<nm>>, B)
    /\ Plain(<<"type">>, B) /\ Plain(<<"true">>, B) /\ Plain(<<"0">>, B)
    /\ LineFree(<<"FileName">>, {"Secured", "FileData"} \cup B)
    /\ LineFree(<<"Secured">>, {"FileName", "FileData"} \cup B)
    /\ LineFree(<<"Secured", "--">>, {"FileName", "FileData"} \cup B)
    /\ LineFree(<<"FileData">>, {"FileName", "Secured"} \cup B)
    /\ LineFree(<<"FileData", "filename">>, {"FileName", "Secured"} \cup B)

LEMMA LinesAreFree ==
    ASSUME NEW b, NEW nm, NEW B, Fit(b, nm, B)
    PROVE  LinesFree(nm, B)
<1>1. /\ Markers \cup Wrapping \subseteq Words /\ B \cap (Markers \cup Wrapping) = {}
      /\ nm \in Words \ (Markers \cup B)
  BY WordsAssumption DEF Fit
<1>2. /\ "--" \in Words \ (Markers \cup B) /\ "size" \in Words \ (Markers \cup B)
      /\ "type" \in Words \ (Markers \cup B) /\ "true" \in Words \ (Markers \cup B)
      /\ "0" \in Words \ (Markers \cup B)
  BY <1>1 DEF Markers, Wrapping
<1>3. /\ "FileName" \in Words \ ({"Secured", "FileData"} \cup B)
      /\ "Secured" \in Words \ ({"FileName", "FileData"} \cup B)
      /\ "--" \in Words \ ({"FileName", "FileData"} \cup B)
      /\ "FileData" \in Words \ ({"FileName", "Secured"} \cup B)
      /\ "filename" \in Words \ ({"FileName", "Secured"} \cup B)
  BY <1>1 DEF Markers, Wrapping
<1>4. ASSUME NEW W, NEW w \in Words \ W PROVE LineFree(<<w>>, W) /\ LineFree(<<>>, W)
  BY FreeWord
<1>5. ASSUME NEW W, NEW w \in Words \ W, NEW v \in Words \ W PROVE LineFree(<<w, v>>, W)
  <2> DEFINE S == Words \ W
  <2>1. w \in S /\ v \in S
    OBVIOUS
  <2> HIDE DEF S
  <2>2. <<w, v>> \in Seq(S)
    BY <2>1
  <2> QED
    BY <2>2 DEF LineFree, S
<1> DEFINE W0 == Markers \cup B
           W1 == {"Secured", "FileData"} \cup B
           W2 == {"FileName", "FileData"} \cup B
           W3 == {"FileName", "Secured"} \cup B
<1> HIDE DEF W0, W1, W2, W3
<1>6. /\ LineFree(<<>>, W0) /\ LineFree(<<"--">>, W0) /\ LineFree(<<"size">>, W0)
      /\ LineFree(<<nm>>, W0) /\ LineFree(<<"type">>, W0) /\ LineFree(<<"true">>, W0)
      /\ LineFree(<<"0">>, W0)
  BY Zenon, <1>1, <1>2, <1>4 DEF W0
<1>7. LineFree(<<"FileName">>, W1) /\ LineFree(<<"Secured">>, W2) /\ LineFree(<<"FileData">>, W3)
  BY Zenon, <1>3, <1>4 DEF W1, W2, W3
<1>8. LineFree(<<"Secured", "--">>, W2) /\ LineFree(<<"FileData", "filename">>, W3)
  BY Zenon, <1>3, <1>5 DEF W2, W3
<1> QED
  BY Zenon, <1>6, <1>7, <1>8 DEF LinesFree, Plain, W0, W1, W2, W3

\* Those without the marker of the file.
LEMMA NoMarker ==
    ASSUME NEW b, NEW nm, NEW B, Fit(b, nm, B)
    PROVE  /\ \A l : Plain(l, B) => LineFree(l, {"FileData"})
           /\ LineFree(<<"--">> \o (<<b>> \o <<"--">>), {"FileData"})
           /\ LineFree(<<"filename">>, {"FileData"}) /\ LineFree(<<>>, {"FileData"})
<1> DEFINE V == {"FileData"}
<1>1. V \subseteq Markers \cup B /\ "FileData" \notin B
  BY DEF Fit, Markers
<1>2. b \in Words \ V /\ "--" \in Words \ V /\ "filename" \in Words \ V
  BY <1>1, WordsAssumption DEF Fit, Wrapping
<1> HIDE DEF V
<1>3. LineFree(<<b>>, V) /\ LineFree(<<"--">>, V) /\ LineFree(<<"filename">>, V) /\ LineFree(<<>>, V)
  BY <1>2, FreeWord
<1>4. LineFree(<<b>> \o <<"--">>, V)
  BY <1>3, FreeLineJoin
<1>5. LineFree(<<"--">> \o (<<b>> \o <<"--">>), V)
  BY <1>3, <1>4, FreeLineJoin
<1>6. \A l : Plain(l, B) => LineFree(l, V)
  BY <1>1, LineFreeOfFewer DEF Plain
<1> QED
  BY <1>3, <1>5, <1>6 DEF V

-----------------------------------------------------------------------------
(* The body of multi_post.lua                                              *)

\* What is behind the marker of the file, of the name, and of the flag.
WrkFile(b, d) ==
    On(<<>>, On(<<>>, On(<<"size">>, On(d, On(<<"--">> \o (<<b>> \o <<"--">>), <<>>)))))
WrkName(b, nm, d) ==
    On(<<>>, On(<<nm>>, On(<<>>, On(<<"--">> \o (<<b>> \o <<"FileData">>), WrkFile(b, d)))))
WrkFlag(b, nm, d) ==
    On(<<"Secured", "--">> \o (<<b>> \o <<"FileName">>), WrkName(b, nm, d))
WrkText(b, nm, d) == On(<<"--">> \o (<<b>> \o <<>>), WrkFlag(b, nm, d))

\* Its parts.
WrkParts(b, nm, d) ==
    /\ Ends(<<>>, <<"--">>, b, On(<<>>, WrkFlag(b, nm, d)), On(<<"--">>, <<>>), WrkText(b, nm, d))
    /\ Ends(On(<<>>, <<>>), <<"Secured", "--">>, b, On(<<"FileName">>, WrkName(b, nm, d)),
            On(<<>>, On(<<"Secured", "--">>, <<>>)), On(<<>>, WrkFlag(b, nm, d)))
    /\ Ends(On(<<"FileName">>, On(<<>>, On(<<nm>>, On(<<>>, <<>>)))), <<"--">>, b,
            On(<<"FileData">>, WrkFile(b, d)),
            On(<<"FileName">>, On(<<>>, On(<<nm>>, On(<<>>, On(<<"--">>, <<>>))))),
            On(<<"FileName">>, WrkName(b, nm, d)))
    /\ Ends(On(<<"FileData">>, On(<<>>, On(<<>>, On(<<"size">>, On(d, <<>>))))), <<"--">>, b,
            On(<<"--">>, <<>>),
            On(<<"FileData">>, On(<<>>, On(<<>>, On(<<"size">>, On(d, On(<<"--">>, <<>>)))))),
            On(<<"FileData">>, WrkFile(b, d)))
WrkTyped(b, nm, d) ==
    /\ WrkFile(b, d) \in Texts /\ WrkName(b, nm, d) \in Texts /\ WrkFlag(b, nm, d) \in Texts
    /\ \A w \in {"--", "size", "FileName", "FileData"} : <<w>> \in Line
    /\ <<nm>> \in Line /\ <<"Secured", "--">> \in Line /\ <<>> \in Line

LEMMA WrkInParts ==
    ASSUME NEW b \in Words, NEW nm \in Words, NEW d \in Line
    PROVE  WrkParts(b, nm, d) /\ WrkTyped(b, nm, d)
<1> DEFINE D == <<"--">>
           S == <<"size">>
           N == <<nm>>
           MF == <<"FileName">>
           MD == <<"FileData">>
           MS == <<"Secured", "--">>
           E == <<>>
           filePart == WrkFile(b, d)
           name == WrkName(b, nm, d)
           flag == WrkFlag(b, nm, d)
<1>1. /\ \A w \in {"--", "size", "FileName", "FileData"} : <<w>> \in Line
      /\ N \in Line /\ MS \in Line /\ E \in Line /\ <<>> \in Texts
  <2>1. /\ "--" \in Words /\ "size" \in Words /\ "FileName" \in Words /\ "FileData" \in Words
        /\ "Secured" \in Words
    BY WordsAssumption DEF Markers, Wrapping
  <2> QED
    BY <2>1, Empty, WordLine, LineWords
<1>2. D \in Line /\ S \in Line /\ MF \in Line /\ MD \in Line
  BY <1>1
<1> HIDE DEF D, S, N, MF, MD, MS, E, filePart, name, flag
<1>3. \A l \in Line, h \in Line : l \o (<<b>> \o h) \in Line
  <2>1. \A h \in Line : <<b>> \o h \in Line
    BY WordLine, LineJoin
  <2> QED
    BY <2>1, LineJoin
<1>4. \A l \in Line, u \in Texts : On(l, u) \in Texts /\ On(l, u) # <<>>
  BY OnText
<1>5. filePart = On(E, On(E, On(S, On(d, On(D \o (<<b>> \o D), <<>>))))) /\ filePart \in Texts
  <2>1. filePart = On(E, On(E, On(S, On(d, On(D \o (<<b>> \o D), <<>>)))))
    BY DEF WrkFile, filePart, D, S, E
  <2> QED
    BY <1>1, <1>2, <1>3, <1>4, <2>1
<1>6. name = On(E, On(N, On(E, On(D \o (<<b>> \o MD), filePart)))) /\ name \in Texts
  <2>1. name = On(E, On(N, On(E, On(D \o (<<b>> \o MD), filePart))))
    BY DEF WrkName, name, filePart, D, MD, N, E
  <2> QED
    BY <1>1, <1>2, <1>3, <1>4, <1>5, <2>1
<1>7. flag = On(MS \o (<<b>> \o MF), name) /\ flag \in Texts
  <2>1. flag = On(MS \o (<<b>> \o MF), name)
    BY DEF WrkFlag, flag, name, MS, MF
  <2> QED
    BY <1>1, <1>2, <1>3, <1>4, <1>6, <2>1
<1>8. Ends(<<>>, D, b, On(E, flag), On(D, <<>>), On(D \o (<<b>> \o E), flag))
  BY <1>1, <1>2, <1>7, EndsNone
<1>9. Ends(On(E, <<>>), MS, b, On(MF, name), On(E, On(MS, <<>>)), On(E, flag))
  <2>1. Ends(<<>>, MS, b, On(MF, name), On(MS, <<>>), flag)
    BY <1>1, <1>2, <1>6, <1>7, EndsNone
  <2> QED
    BY <1>1, <1>2, <1>4, <1>6, <2>1, EndsOn
<1>10. Ends(On(MF, On(E, On(N, On(E, <<>>)))), D, b, On(MD, filePart),
            On(MF, On(E, On(N, On(E, On(D, <<>>))))), On(MF, name))
  <2> DEFINE t == On(MD, filePart)
             g == On(D \o (<<b>> \o MD), filePart)
  <2>0. t \in Texts /\ t # <<>>
    BY <1>2, <1>4, <1>5
  <2>1. Ends(<<>>, D, b, t, On(D, <<>>), g)
    BY <1>2, <1>5, EndsNone
  <2> HIDE DEF t, g
  <2>2. Ends(On(E, <<>>), D, b, t, On(E, On(D, <<>>)), On(E, g))
    BY <1>1, <1>2, <2>0, <2>1, EndsOn
  <2>3. Ends(On(N, On(E, <<>>)), D, b, t, On(N, On(E, On(D, <<>>))), On(N, On(E, g)))
    BY <1>1, <1>2, <2>0, <2>2, EndsOn
  <2>4. Ends(On(E, On(N, On(E, <<>>))), D, b, t, On(E, On(N, On(E, On(D, <<>>)))),
             On(E, On(N, On(E, g))))
    BY <1>1, <1>2, <2>0, <2>3, EndsOn
  <2>5. Ends(On(MF, On(E, On(N, On(E, <<>>)))), D, b, t,
             On(MF, On(E, On(N, On(E, On(D, <<>>))))), On(MF, On(E, On(N, On(E, g)))))
    BY <1>1, <1>2, <2>0, <2>4, EndsOn
  <2> QED
    BY Zenon, <1>6, <2>5 DEF t, g
<1>11. Ends(On(MD, On(E, On(E, On(S, On(d, <<>>))))), D, b, On(D, <<>>),
            On(MD, On(E, On(E, On(S, On(d, On(D, <<>>)))))), On(MD, filePart))
  <2> DEFINE t == On(D, <<>>)
             g == On(D \o (<<b>> \o D), <<>>)
  <2>0. t \in Texts /\ t # <<>>
    BY <1>1, <1>2, <1>4
  <2>1. Ends(<<>>, D, b, t, On(D, <<>>), g)
    BY <1>1, <1>2, EndsNone
  <2> HIDE DEF t, g
  <2>2. Ends(On(d, <<>>), D, b, t, On(d, On(D, <<>>)), On(d, g))
    BY <1>1, <1>2, <2>0, <2>1, EndsOn
  <2>3. Ends(On(S, On(d, <<>>)), D, b, t, On(S, On(d, On(D, <<>>))), On(S, On(d, g)))
    BY <1>1, <1>2, <2>0, <2>2, EndsOn
  <2>4. Ends(On(E, On(S, On(d, <<>>))), D, b, t, On(E, On(S, On(d, On(D, <<>>)))),
             On(E, On(S, On(d, g))))
    BY <1>1, <1>2, <2>0, <2>3, EndsOn
  <2>5. Ends(On(E, On(E, On(S, On(d, <<>>)))), D, b, t, On(E, On(E, On(S, On(d, On(D, <<>>))))),
             On(E, On(E, On(S, On(d, g)))))
    BY <1>1, <1>2, <2>0, <2>4, EndsOn
  <2>6. Ends(On(MD, On(E, On(E, On(S, On(d, <<>>))))), D, b, t,
             On(MD, On(E, On(E, On(S, On(d, On(D, <<>>)))))), On(MD, On(E, On(E, On(S, On(d, g))))))
    BY <1>1, <1>2, <2>0, <2>5, EndsOn
  <2> QED
    BY Zenon, <1>5, <2>6 DEF t, g
<1>12. WrkParts(b, nm, d)
  BY Zenon, <1>8, <1>9, <1>10, <1>11 DEF WrkParts, WrkText, D, S, N, MF, MD, MS, E, filePart, name, flag
<1>13. WrkTyped(b, nm, d)
  BY <1>1, <1>5, <1>6, <1>7 DEF WrkTyped, N, MS, E, filePart, name, flag
<1> QED
  BY <1>12, <1>13

\* The request q sends the boundary b, the name nm, the flag, and the data d.
Sends(q, b, nm, sec, d) ==
    q.boundary = b /\ q.name = <<nm>> /\ q.secured = sec /\ q.data = <<d>>

\* P has what is to be cut up and what may be left and found, all of it right.
CutsAll(q, B, t, P) ==
    /\ <<t, NoForm>> \in P
    /\ \A s, f : <<s, f>> \in P => CutsRight(q, B, s, f, P)

\* The last pair: nothing is left to cut up, and all is found.
CutsLast(q, nm, d) == [name |-> <<nm>>, named |-> TRUE, secured |-> q.secured, data |-> d, found |-> TRUE]

LEMMA CutsAtEnd ==
    ASSUME NEW b, NEW nm, NEW B, Fit(b, nm, B), NEW sec \in BOOLEAN, NEW d, Plain(d, B),
           NEW q, Sends(q, b, nm, sec, d), NEW t, Free(t, B), NEW P
    PROVE  CutsRight(q, B, t, CutsLast(q, nm, d), P)
<1> DEFINE f == CutsLast(q, nm, d)
<1>1. b \in B /\ B \subseteq Words /\ nm \in Words /\ q.boundary = b
  BY DEF Fit, Sends
<1>2. ~Has(t, b) /\ Free(t, B \ {b})
  <2>1. B \ {b} \subseteq B
    OBVIOUS
  <2> QED
    BY <1>1, <2>1, FreeHas, FreeOfFewer
<1>3. f \in Forms
  <2>1. d \in Line /\ <<nm>> \in Line
    BY <1>1, FreeTyped, WordLine DEF Plain
  <2> QED
    BY <2>1 DEF CutsLast, Forms, Sends
<1>4. /\ f.found /\ f.name = q.name /\ f.secured = q.secured /\ <<f.data>> = q.data
  BY DEF CutsLast, Sends
<1> HIDE DEF f
<1> QED
  BY <1>1, <1>2, <1>3, <1>4 DEF CutsRight, f

\* What wrk sends is found.
LEMMA FileShown ==
    ASSUME NEW q, NEW d \in Line, q.data = <<d>>,
           NEW t \in Texts, NEW rest, Shows(t, "FileData", rest), WrkRest(rest, d),
           ~Has(rest, "FileData")
    PROVE  FileIn(t, q)
BY WrkDataFound, FileBehind DEF FileIn

\* w may be left, f found before its next part and g behind it, t left then.
CutsOn(q, B, w, f, t, g) == \A P : <<t, g>> \in P => CutsRight(q, B, w, f, P)

LEMMA CutsOnPart ==
    ASSUME NEW q, NEW B, B \subseteq Words, NEW b \in B, q.boundary = b,
           NEW x, Free(x, B), NEW l, LineFree(l, B), NEW t, Free(t, B \ {b}), t # <<>>,
           NEW cut, NEW w, Ends(x, l, b, t, cut, w), FileIn(w, q),
           NEW f \in Forms, ~f.found, q.client = "curl" /\ f.secured => f.name = q.name,
           NEW g, WithPart(f, cut) = g
    PROVE  CutsOn(q, B, w, f, t, g) /\ Free(w, B \ {b})
<1>1. Append(x, l) = cut /\ Part(x, l, b, t) = w
  BY DEF Ends
<1>2. ASSUME NEW P, <<t, g>> \in P PROVE CutsRight(q, B, w, f, P)
  <2>1. /\ q.boundary \in B /\ Free(t, B \ {q.boundary}) /\ <<t, WithPart(f, Append(x, l))>> \in P
        /\ FileIn(Part(x, l, q.boundary, t), q)
    BY Zenon, <1>1, <1>2
  <2>2. CutsRight(q, B, Part(x, l, q.boundary, t), f, P)
    BY <2>1, CutsByPart
  <2> QED
    BY Zenon, <1>1, <2>2
<1>3. Free(Part(x, l, b, t), B \ {b})
  BY PartFree
<1> QED
  BY Zenon, <1>1, <1>2, <1>3 DEF CutsOn

\* A part without the marker of the file, before a text that shows the file.
LEMMA EndsShows ==
    ASSUME NEW b \in Words, b # "FileData", NEW x, NEW l, NEW t \in Texts, NEW cut, NEW w,
           Ends(x, l, b, t, cut, w), NEW V, "FileData" \in V, Free(x, V), LineFree(l, V),
           NEW rest, Shows(t, "FileData", rest)
    PROVE  Shows(w, "FileData", rest)
<1> DEFINE m == "FileData"
<1>1. m \in Words /\ m # b /\ m \in V /\ Shows(t, m, rest)
  BY WordsAssumption DEF Markers
<1>2. Part(x, l, b, t) = w
  BY DEF Ends
<1> HIDE DEF m
<1>3. x \in Texts /\ l \in Line
  BY FreeTyped
<1>4. ~Has(x, m) /\ ~Contains(l, m)
  BY <1>1, FreeHas
<1>5. Shows(Part(x, l, b, t), m, rest)
  BY <1>1, <1>3, <1>4, PartShows
<1> QED
  BY Zenon, <1>2, <1>5 DEF m

LEMMA WrkCuts ==
    ASSUME NEW b, NEW nm, NEW B, Fit(b, nm, B), NEW d, Plain(d, B),
           NEW q, Sends(q, b, nm, TRUE, d), q.client # "curl"
    PROVE  \E P : CutsAll(q, B, WrkText(b, nm, d), P)
<1> DEFINE D == <<"--">>
           S == <<"size">>
           N == <<nm>>
           MF == <<"FileName">>
           MD == <<"FileData">>
           MS == <<"Secured", "--">>
           E == <<>>
           filePart == WrkFile(b, d)
           name == WrkName(b, nm, d)
           flag == WrkFlag(b, nm, d)
           t1 == WrkText(b, nm, d)
           t2 == On(E, flag)
           t3 == On(MF, name)
           t4 == On(MD, filePart)
           t5 == On(D, <<>>)
           c1 == On(D, <<>>)
           c2 == On(E, On(MS, <<>>))
           c3 == On(MF, On(E, On(N, On(E, On(D, <<>>)))))
           c4 == On(MD, On(E, On(E, On(S, On(d, On(D, <<>>))))))
           x2 == On(E, <<>>)
           x3 == On(MF, On(E, On(N, On(E, <<>>))))
           x4 == On(MD, On(E, On(E, On(S, On(d, <<>>)))))
           f3 == Named(<<>>, FALSE, TRUE)
           f4 == Named(N, TRUE, TRUE)
           f5 == CutsLast(q, nm, d)
           P == {<<t1, NoForm>>, <<t2, NoForm>>, <<t3, f3>>, <<t4, f4>>, <<t5, f5>>}
<1>1. /\ b \in Words /\ b \in B /\ nm \in Words /\ B \subseteq Words /\ d \in Line
      /\ q.boundary = b /\ q.name = N /\ q.secured = TRUE /\ q.data = <<d>>
  BY FreeTyped DEF Fit, Sends, Plain
<1>2. /\ Ends(<<>>, D, b, t2, c1, t1) /\ Ends(x2, MS, b, t3, c2, t2)
      /\ Ends(x3, D, b, t4, c3, t3) /\ Ends(x4, D, b, t5, c4, t4)
  <2>1. WrkParts(b, nm, d)
    BY <1>1, WrkInParts
  <2> QED
    BY <2>1 DEF WrkParts
<1>3. /\ filePart \in Texts /\ name \in Texts /\ flag \in Texts
      /\ D \in Line /\ S \in Line /\ MF \in Line /\ MD \in Line /\ N \in Line /\ MS \in Line
      /\ E \in Line
  <2>1. WrkTyped(b, nm, d)
    BY <1>1, WrkInParts
  <2> QED
    BY <2>1 DEF WrkTyped
<1>4. /\ LineFree(E, Markers \cup B) /\ LineFree(D, Markers \cup B) /\ LineFree(S, Markers \cup B)
      /\ LineFree(N, Markers \cup B) /\ LineFree(d, Markers \cup B)
      /\ LineFree(MF, {"Secured", "FileData"} \cup B)
      /\ LineFree(MS, {"FileName", "FileData"} \cup B)
      /\ LineFree(MD, {"FileName", "Secured"} \cup B)
  BY LinesAreFree DEF LinesFree, Plain
<1>5. ASSUME NEW l, LineFree(l, Markers \cup B)
      PROVE  /\ LineFree(l, {"Secured", "FileData"} \cup B) /\ LineFree(l, {"FileName", "FileData"} \cup B)
             /\ LineFree(l, {"FileName", "Secured"} \cup B) /\ LineFree(l, B)
  <2>1. /\ {"Secured", "FileData"} \cup B \subseteq Markers \cup B
        /\ {"FileName", "FileData"} \cup B \subseteq Markers \cup B
        /\ {"FileName", "Secured"} \cup B \subseteq Markers \cup B /\ B \subseteq Markers \cup B
    BY DEF Markers
  <2> QED
    BY <1>5, <2>1, LineFreeOfFewer
<1>6. LineFree(MF, B) /\ LineFree(MS, B) /\ LineFree(MD, B)
  <2>1. /\ B \subseteq {"Secured", "FileData"} \cup B /\ B \subseteq {"FileName", "FileData"} \cup B
        /\ B \subseteq {"FileName", "Secured"} \cup B
    OBVIOUS
  <2> QED
    BY <1>4, <2>1, LineFreeOfFewer
<1> HIDE DEF D, S, N, MF, MD, MS, E, filePart, name, flag
<1>7. \A W : Free(<<>>, W)
  BY EmptyFree
<1>8. Free(<<>>, B) /\ Free(x2, B) /\ Free(x3, B) /\ Free(x4, B)
  BY <1>4, <1>5, <1>6, <1>7, OnFree
<1>9. /\ Free(c1, Markers \cup B) /\ Free(c2, {"FileName", "FileData"} \cup B)
      /\ Free(c4, {"FileName", "Secured"} \cup B)
  BY <1>4, <1>5, <1>7, OnFree
<1>10. Free(t5, B) /\ Free(t5, B \ {b})
  <2>1. Free(t5, B)
    BY <1>4, <1>5, <1>7, OnFree
  <2>2. B \ {b} \subseteq B
    OBVIOUS
  <2> QED
    BY <2>1, <2>2, FreeOfFewer
<1>11. t2 \in Texts /\ t3 \in Texts /\ t4 \in Texts /\ t5 \in Texts /\ t2 # <<>> /\ t3 # <<>> /\ t4 # <<>> /\ t5 # <<>>
  BY <1>3, Empty, OnText
<1>12. /\ Shows(t4, "FileData", On(E, filePart)) /\ WrkRest(On(E, filePart), d)
       /\ ~Has(On(E, filePart), "FileData")
  <2>1. "FileData" \in Words
    BY WordsAssumption DEF Markers
  <2>2. Shows(On(MD, filePart), "FileData", On(<<>>, filePart))
    BY <1>1, <1>3, <2>1, Marked DEF MD
  <2>3. filePart = On(<<>>, On(<<>>, On(S, On(d, On(D \o (<<b>> \o D), <<>>)))))
    BY DEF filePart, WrkFile, S, D
  <2>4. D \o (<<b>> \o D) \in Line
    <3>1. <<b>> \o D \in Line
      BY <1>1, <1>3, WordLine, LineJoin
    <3> QED
      BY <1>3, <3>1, LineJoin
  <2>5. WrkRest(On(<<>>, filePart), d)
    BY <1>1, <1>3, <2>3, <2>4, WrkRestIs
  <2>6. ~Has(On(<<>>, filePart), "FileData")
    <3> DEFINE V == {"FileData"}
    <3>1. /\ LineFree(<<>>, V) /\ LineFree(S, V) /\ LineFree(d, V) /\ LineFree(D \o (<<b>> \o D), V)
      BY <1>4, NoMarker DEF Plain, D
    <3> HIDE DEF V
    <3>2. Free(On(<<>>, filePart), V)
      BY <1>7, <2>3, <3>1, OnFree
    <3> QED
      BY <3>2, FreeHas DEF V
  <2> QED
    BY <2>2, <2>5, <2>6 DEF E
<1>13. FileIn(c4, q) /\ c4 \in Texts /\ Has(c4, "FileData") /\ FileDataIn(c4) = d
  <2> DEFINE k == On(E, On(E, On(S, On(d, On(D, <<>>)))))
  <2>1. "FileData" \in Words /\ k \in Texts /\ c4 \in Texts
    BY <1>1, <1>3, Empty, OnText, WordsAssumption DEF Markers
  <2>2. WrkRest(On(E, k), d)
    BY <1>1, <1>3, WrkRestIs DEF E
  <2>6. ~Has(On(E, k), "FileData")
    <3> DEFINE V == {"FileData"}
    <3>1. LineFree(E, V) /\ LineFree(S, V) /\ LineFree(d, V) /\ LineFree(D, V)
      BY <1>4, NoMarker DEF Plain
    <3> HIDE DEF V
    <3>2. Free(On(E, k), V)
      BY <1>7, <3>1, OnFree
    <3> QED
      BY <3>2, FreeHas DEF V
  <2> HIDE DEF k
  <2>3. Shows(On(MD, k), "FileData", On(E, k))
    BY <1>1, <2>1, Marked DEF MD, E
  <2>4. FileIn(c4, q)
    BY <1>1, <2>1, <2>2, <2>3, <2>6, FileShown DEF k
  <2>5. Has(c4, "FileData") /\ FileDataIn(c4) = d
    BY <1>1, <2>1, <2>2, <2>3, WrkDataFound DEF k
  <2> QED
    BY <2>1, <2>4, <2>5
<1>14. "FileData" # b /\ t1 \in Texts
  <2>1. Part(<<>>, D, b, t2) = t1 /\ b \notin Markers
    BY <1>2 DEF Ends, Fit
  <2>2. t1 = WrkText(b, nm, d)
    OBVIOUS
  <2>3. WrkText(b, nm, d) \in Texts
    <3>1. D \o (<<b>> \o <<>>) \in Line
      <4>1. <<b>> \o <<>> \in Line
        BY <1>1, Empty, WordLine, LineJoin
      <4> QED
        BY <1>3, <4>1, LineJoin
    <3>2. On(D \o (<<b>> \o <<>>), flag) \in Texts
      BY <1>3, <3>1, OnText
    <3> QED
      BY <3>2 DEF WrkText, D, flag
  <2> QED
    BY <2>1, <2>3 DEF Markers
<1>15. LineFree(D, {"Secured", "FileData"} \cup B) /\ Free(x3, {"Secured", "FileData"} \cup B)
  BY <1>4, <1>5, <1>7, OnFree
<1>16. LineFree(MS, {"FileName", "FileData"} \cup B) /\ Free(x2, {"FileName", "FileData"} \cup B)
  BY <1>4, <1>5, <1>7, OnFree
<1>17. Free(<<>>, {"FileName", "FileData"} \cup B) /\ LineFree(D, {"FileName", "FileData"} \cup B)
  BY <1>4, <1>5, <1>7
<1> DEFINE rest == On(E, filePart)
<1> HIDE DEF t1, t2, t3, t4, t5, c1, c2, c3, c4, x2, x3, x4, rest
<1>18. /\ Shows(t1, "FileData", rest) /\ Shows(t2, "FileData", rest)
       /\ Shows(t3, "FileData", rest) /\ Shows(t4, "FileData", rest)
  <2> DEFINE V == {"Secured", "FileData"} \cup B
             W == {"FileName", "FileData"} \cup B
  <2>1. "FileData" \in V /\ "FileData" \in W
    OBVIOUS
  <2>2. Shows(t4, "FileData", rest)
    BY <1>12 DEF t4, rest
  <2>3. /\ LineFree(D, V) /\ Free(x3, V) /\ LineFree(MS, W) /\ Free(x2, W) /\ Free(<<>>, W)
        /\ LineFree(D, W)
    BY Zenon, <1>15, <1>16, <1>17
  <2> HIDE DEF V, W
  <2>4. Shows(t3, "FileData", rest)
    BY <1>1, <1>2, <1>11, <1>14, <2>1, <2>2, <2>3, EndsShows
  <2>5. Shows(t2, "FileData", rest)
    BY <1>1, <1>2, <1>11, <1>14, <2>1, <2>4, <2>3, EndsShows
  <2>6. Shows(t1, "FileData", rest)
    BY <1>1, <1>2, <1>11, <1>14, <2>1, <2>5, <2>3, EndsShows
  <2> QED
    BY <2>2, <2>4, <2>5, <2>6
<1>19. FileIn(t1, q) /\ FileIn(t2, q) /\ FileIn(t3, q) /\ FileIn(t4, q)
  <2>1. WrkRest(rest, d) /\ ~Has(rest, "FileData")
    BY <1>12 DEF rest
  <2> QED
    BY <1>1, <1>11, <1>14, <1>18, <2>1, FileShown
<1>20. WithPart(NoForm, c1) = NoForm /\ WithPart(NoForm, c2) = f3
  <2>1. NoForm = Named(<<>>, FALSE, FALSE)
    BY DEF NoForm, Named
  <2>2. ~Has(c1, "FileName") /\ ~Has(c1, "Secured") /\ ~Has(c1, "FileData")
    BY <1>9, FreeHas DEF Markers
  <2>3. ~Has(c2, "FileName") /\ ~Has(c2, "FileData")
    BY <1>9, FreeHas
  <2>4. Has(c2, "Secured")
    <3>1. Contains(MS, "Secured")
      BY DEF Contains, MS
    <3>2. Has(On(MS, <<>>), "Secured") /\ On(MS, <<>>) \in Texts
      BY <1>3, <3>1, Empty, OnHas, OnText
    <3> QED
      BY <1>3, <3>2, OnHas DEF c2
  <2> QED
    BY <2>1, <2>2, <2>3, <2>4, PlainPart, FlagPart
<1>21. WithPart(f3, c3) = f4
  <2> DEFINE k == On(E, On(D, <<>>))
  <2>1. k \in Texts /\ ~Contains(<<>>, "FileName")
    BY <1>3, Empty, OnText DEF Contains
  <2>2. c3 = On(<<"FileName">>, On(<<>>, On(N, k)))
    BY DEF c3, MF, E
  <2> HIDE DEF k
  <2>3. Has(c3, "FileName") /\ FileNameIn(c3) = N
    BY <1>3, <2>1, <2>2, Empty, NameToken
  <2> QED
    BY <2>3, NamePart
<1>22. WithPart(f4, c4) = f5
  <2>1. ~Has(c4, "FileName") /\ ~Has(c4, "Secured")
    BY <1>9, FreeHas
  <2>2. WithPart(f4, c4) = [name |-> N, named |-> TRUE, secured |-> TRUE, data |-> FileDataIn(c4), found |-> TRUE]
    BY <1>13, <2>1, FilePart
  <2> QED
    BY <1>1, <1>13, <2>2 DEF CutsLast, N
<1>23. /\ NoForm \in Forms /\ f3 \in Forms /\ f4 \in Forms
       /\ ~NoForm.found /\ ~f3.found /\ ~f4.found
  BY <1>3, Empty DEF NoForm, Named, Forms
<1>24. LineFree(D, B) /\ LineFree(MS, B)
  BY <1>4, <1>5, <1>6
<1> HIDE DEF f3, f4, f5
<1>25. CutsOn(q, B, t4, f4, t5, f5) /\ Free(t4, B \ {b})
  BY <1>1, <1>2, <1>8, <1>10, <1>11, <1>19, <1>22, <1>23, <1>24, CutsOnPart
<1>26. CutsOn(q, B, t3, f3, t4, f4) /\ Free(t3, B \ {b})
  BY <1>1, <1>2, <1>8, <1>25, <1>11, <1>19, <1>21, <1>23, <1>24, CutsOnPart
<1>27. CutsOn(q, B, t2, NoForm, t3, f3) /\ Free(t2, B \ {b})
  BY <1>1, <1>2, <1>8, <1>26, <1>11, <1>19, <1>20, <1>23, <1>24, CutsOnPart
<1>28. CutsOn(q, B, t1, NoForm, t2, NoForm)
  BY <1>1, <1>2, <1>8, <1>27, <1>11, <1>19, <1>20, <1>23, <1>24, CutsOnPart
<1>29. \A Q : CutsRight(q, B, t5, f5, Q)
  BY <1>10, CutsAtEnd DEF f5
<1>30. CutsAll(q, B, t1, P)
  <2>1. ASSUME NEW s, NEW f, <<s, f>> \in P PROVE CutsRight(q, B, s, f, P)
    <3>1. \/ (s = t1 /\ f = NoForm) \/ (s = t2 /\ f = NoForm) \/ (s = t3 /\ f = f3)
          \/ (s = t4 /\ f = f4) \/ (s = t5 /\ f = f5)
      BY <2>1
    <3>2. /\ <<t2, NoForm>> \in P /\ <<t3, f3>> \in P /\ <<t4, f4>> \in P /\ <<t5, f5>> \in P
      OBVIOUS
    <3> HIDE DEF P
    <3>3. /\ CutsRight(q, B, t1, NoForm, P) /\ CutsRight(q, B, t2, NoForm, P)
          /\ CutsRight(q, B, t3, f3, P) /\ CutsRight(q, B, t4, f4, P) /\ CutsRight(q, B, t5, f5, P)
      BY Zenon, <1>25, <1>26, <1>27, <1>28, <1>29, <3>2 DEF CutsOn
    <3> QED
      BY Zenon, <3>1, <3>3
  <2>2. <<t1, NoForm>> \in P
    OBVIOUS
  <2> QED
    BY <2>1, <2>2 DEF CutsAll
<1> QED
  BY Zenon, <1>30 DEF t1

-----------------------------------------------------------------------------
(* The body of curl                                                        *)

LEMMA EndsBehind ==
    ASSUME NEW l \in Line, NEW b \in Words, NEW t \in Texts, t # <<>>,
           NEW F \in Texts, NEW x, NEW cut, NEW whole, Ends(x, l, b, t, cut, whole)
    PROVE  Ends(F \o x, l, b, t, F \o cut, F \o whole)
<1>1. x \in Texts /\ Append(x, l) = cut /\ Part(x, l, b, t) = whole
  BY DEF Ends
<1> DEFINE k == <<l>>
           g == l \o (<<b>> \o Head(t))
           v == <<g>> \o Tail(t)
<1>2. k \in Texts
  BY LineText
<1>3. v \in Texts
  <2>1. Head(t) \in Line /\ Tail(t) \in Texts
    BY TextHead
  <2>2. <<b>> \o Head(t) \in Line
    BY <2>1, WordLine, LineJoin
  <2>3. g \in Line
    BY <2>2, LineJoin
  <2> HIDE DEF g
  <2> QED
    BY <2>1, <2>3, TextOf
<1>4. \A y : Part(y, l, b, t) = y \o v
  BY Zenon DEF Part, v, g
<1>5. \A y \in Texts : Append(y, l) = y \o k
  BY TextAppend
<1> HIDE DEF k, v
<1>6. F \o x \in Texts
  BY <1>1, TextJoin
<1>7. AnyGroups(F, x, k) /\ AnyGroups(F, x, v)
  BY <1>1, <1>2, <1>3, Grouped
<1>8. Append(F \o x, l) = F \o cut
  BY Zenon, <1>1, <1>5, <1>6, <1>7 DEF AnyGroups
<1>9. Part(F \o x, l, b, t) = F \o whole
  BY Zenon, <1>1, <1>4, <1>7 DEF AnyGroups
<1> QED
  BY Zenon, <1>6, <1>8, <1>9 DEF Ends

\* The pieces of a file, each behind its size, in a text.
Pieces(F, ds) ==
    /\ F \in Texts /\ ds \in Seq(Line) /\ Len(F) = 2 * Len(ds)
    /\ \A i \in 1..Len(ds) : F[2 * i - 1] = <<"size">> /\ F[2 * i] = ds[i] /\ ds[i] # <<>>

\* What curl sends behind the marker of the file.
LEMMA CurlRestIs ==
    ASSUME NEW F, NEW ds, Pieces(F, ds), NEW Z \in Texts, Len(Z) >= 3, Z[2] = <<>>,
           Len(Z) > 3 => Z[4] = <<>>, NEW a \in Line, NEW c \in Line, c # <<>>
    PROVE  CurlRest(On(a, On(c, On(<<>>, On(<<>>, F \o Z)))), ds)
<1>1. /\ F \in Texts /\ Len(ds) \in Nat /\ Len(F) = 2 * Len(ds) /\ Len(Z) \in Nat /\ <<>> \in Line
      /\ \A i \in 1..Len(ds) : F[2 * i] = ds[i] /\ ds[i] # <<>>
  BY Empty, LenProperties DEF Pieces, Texts
<1> DEFINE u == F \o Z
           u1 == On(<<>>, u)
           u2 == On(<<>>, u1)
           u3 == On(c, u2)
           u4 == On(a, u3)
<1>2. /\ u \in Texts /\ Len(u) = 2 * Len(ds) + Len(Z)
      /\ \A i \in 1..Len(ds) : u[2 * i] = ds[i]
      /\ u[2 * Len(ds) + 2] = <<>>
      /\ Len(ds) = 0 /\ Len(Z) > 3 => u[4] = <<>>
  <2>1. F \in Seq(Line) /\ Z \in Seq(Line)
    BY <1>1, TextsOfLines
  <2>2. Joined(u, F, Z) /\ u \in Texts
    BY <1>1, <2>1, SequencesMade, TextJoin
  <2> HIDE DEF u
  <2>3. /\ Len(u) = Len(F) + Len(Z)
        /\ \A j \in 1..Len(F) : u[j] = F[j]
        /\ \A j \in 1..Len(Z) : u[Len(F) + j] = Z[j]
    <3>1. ASSUME NEW j \in 1..Len(F) PROVE u[j] = F[j]
      BY <1>1, <2>2, <3>1 DEF Joined
    <3>2. ASSUME NEW j \in 1..Len(Z) PROVE u[Len(F) + j] = Z[j]
      <4>1. Len(F) + j \in 1..(Len(F) + Len(Z)) /\ ~(Len(F) + j <= Len(F)) /\ (Len(F) + j) - Len(F) = j
        BY <1>1
      <4> QED
        BY <2>2, <4>1 DEF Joined
    <3> QED
      BY <2>2, <3>1, <3>2 DEF Joined
  <2>4. ASSUME NEW i \in 1..Len(ds) PROVE u[2 * i] = ds[i]
    <3>1. 2 * i \in 1..Len(F)
      BY <1>1
    <3> QED
      BY <1>1, <2>3, <3>1
  <2>5. u[2 * Len(ds) + 2] = <<>>
    <3>1. 2 \in 1..Len(Z) /\ Len(F) + 2 = 2 * Len(ds) + 2
      BY <1>1
    <3> QED
      BY <2>3, <3>1
  <2>6. ASSUME Len(ds) = 0, Len(Z) > 3 PROVE u[4] = <<>>
    <3>1. 4 \in 1..Len(Z) /\ Len(F) + 4 = 4
      BY <1>1, <2>6
    <3> QED
      BY <2>3, <2>6, <3>1
  <2> QED
    BY <1>1, <2>2, <2>3, <2>4, <2>5, <2>6
<1> HIDE DEF u, u1, u2, u3, u4
<1>3. /\ u1 \in Texts /\ Len(u1) = Len(u) + 1 /\ u1[1] = <<>>
      /\ \A i \in 1..Len(u) : u1[i + 1] = u[i]
  BY <1>1, <1>2, OnText DEF u1
<1>4. /\ u2 \in Texts /\ Len(u2) = Len(u1) + 1 /\ u2[1] = <<>>
      /\ \A i \in 1..Len(u1) : u2[i + 1] = u1[i]
  BY <1>1, <1>3, OnText DEF u2
<1>5. /\ u3 \in Texts /\ Len(u3) = Len(u2) + 1 /\ u3[1] = c
      /\ \A i \in 1..Len(u2) : u3[i + 1] = u2[i]
  BY <1>4, OnText DEF u3
<1>6. /\ u4 \in Texts /\ Len(u4) = Len(u3) + 1
      /\ \A i \in 1..Len(u3) : u4[i + 1] = u3[i]
  BY <1>5, OnText DEF u4
<1>7. Len(u4) = 2 * Len(ds) + Len(Z) + 4
  BY <1>1, <1>2, <1>3, <1>4, <1>5, <1>6
<1>8. ASSUME NEW i \in 1..Len(u) PROVE u4[4 + i] = u[i]
  <2>1. /\ i + 1 \in 1..Len(u1) /\ (i + 1) + 1 \in 1..Len(u2) /\ ((i + 1) + 1) + 1 \in 1..Len(u3)
        /\ 4 + i = (((i + 1) + 1) + 1) + 1
    BY <1>1, <1>2, <1>3, <1>4, <1>5
  <2>2. /\ u1[i + 1] = u[i] /\ u2[(i + 1) + 1] = u1[i + 1]
        /\ u3[((i + 1) + 1) + 1] = u2[(i + 1) + 1]
        /\ u4[(((i + 1) + 1) + 1) + 1] = u3[((i + 1) + 1) + 1]
    BY <1>3, <1>4, <1>5, <1>6, <2>1
  <2> QED
    BY Zenon, <2>1, <2>2
<1>9. u4[2] = c /\ u4[3] = <<>> /\ u4[4] = <<>>
  <2>1. /\ 1 \in 1..Len(u1) /\ 1 \in 1..Len(u2) /\ 2 \in 1..Len(u2)
        /\ 1 \in 1..Len(u3) /\ 2 \in 1..Len(u3) /\ 3 \in 1..Len(u3)
        /\ 1 + 1 = 2 /\ 2 + 1 = 3 /\ 3 + 1 = 4
    BY <1>1, <1>2, <1>3, <1>4, <1>5
  <2>2. u2[2] = <<>> /\ u3[2] = <<>>
    BY <1>3, <1>4, <1>5, <2>1
  <2>3. u3[3] = <<>>
    BY <1>5, <2>1, <2>2
  <2>4. u4[1 + 1] = u3[1] /\ u4[2 + 1] = u3[2] /\ u4[3 + 1] = u3[3]
    BY <1>6, <2>1
  <2> QED
    BY <1>5, <2>1, <2>2, <2>3, <2>4
<1>10. ASSUME NEW i \in 1..Len(ds) PROVE u4[4 + 2 * i] = ds[i] /\ ds[i] # <<>>
  <2>1. 2 * i \in 1..Len(u)
    BY <1>1, <1>2
  <2> QED
    BY <1>1, <1>2, <1>8, <2>1
<1>11. u4[2 * Len(ds) + 6] = <<>>
  <2>1. 2 * Len(ds) + 2 \in 1..Len(u) /\ 4 + (2 * Len(ds) + 2) = 2 * Len(ds) + 6
    BY <1>1, <1>2
  <2> QED
    BY <1>2, <1>8, <2>1
<1>12. ASSUME Len(u4) > 7 PROVE u4[8] = <<>> \/ Len(ds) > 0
  <2>1. CASE Len(ds) > 0
    BY <2>1
  <2>2. CASE Len(ds) = 0
    <3>1. Len(Z) > 3 /\ 4 \in 1..Len(u) /\ 4 + 4 = 8
      BY <1>1, <1>2, <1>7, <1>12, <2>2
    <3> QED
      BY <1>2, <1>8, <2>2, <3>1
  <2> QED
    BY <1>1, <2>1, <2>2
<1>13. CurlRest(u4, ds)
  BY <1>1, <1>6, <1>7, <1>9, <1>10, <1>11, <1>12 DEF CurlRest
<1> QED
  BY <1>13 DEF u, u1, u2, u3, u4

\* What is behind the last part, and behind the size before it; the part of the
\* file; one field and what is behind it; the text.
CurlEnd == On(<<"--">>, On(<<>>, On(<<"0">>, On(<<>>, <<>>))))
CurlTail(b) ==
    On(<<>>, On(<<"--">> \o (<<b>> \o <<"--">>), On(<<>>, On(<<"0">>, On(<<>>, <<>>)))))
CurlFile(F, z) ==
    On(<<"FileData", "filename">>,
       On(<<"type">>, On(<<>>, On(<<>>, F \o On(<<"size">>, z)))))
CurlField(m, v, u) == On(<<m>>, On(<<>>, On(<<v>>, u)))
CurlBound(b, u) == On(<<"--">> \o (<<b>> \o <<>>), u)
CurlData(b, F) == CurlFile(F, CurlTail(b))
CurlFlag(b, sec, F) ==
    IF sec THEN CurlField("Secured", "true", CurlBound(b, CurlData(b, F))) ELSE CurlData(b, F)
CurlName(b, nm, sec, F) == CurlField("FileName", nm, CurlBound(b, CurlFlag(b, sec, F)))
CurlText(b, nm, sec, F) == On(<<"size">>, CurlBound(b, CurlName(b, nm, sec, F)))

\* A part that is a field.
LEMMA EndsField ==
    ASSUME NEW b \in Words, NEW m \in Words, NEW v \in Words, NEW u \in Texts
    PROVE  /\ Ends(On(<<>>, CurlField(m, v, <<>>)), <<"--">>, b, On(<<>>, u),
                   On(<<>>, CurlField(m, v, On(<<"--">>, <<>>))), On(<<>>, CurlField(m, v, CurlBound(b, u))))
           /\ CurlField(m, v, CurlBound(b, u)) \in Texts
<1> DEFINE D == <<"--">>
           M == <<m>>
           N == <<v>>
           E == <<>>
           t == On(E, u)
           g == On(D \o (<<b>> \o E), u)
<1>1. D \in Line /\ M \in Line /\ N \in Line /\ E \in Line
  <2>1. "--" \in Words
    BY WordsAssumption DEF Wrapping
  <2> QED
    BY <2>1, WordLine, Empty
<1> HIDE DEF D, M, N, E
<1>2. t \in Texts /\ t # <<>>
  BY <1>1, OnText
<1>3. Ends(<<>>, D, b, t, On(D, <<>>), g)
  BY <1>1, EndsNone
<1>4. D \o (<<b>> \o E) \in Line
  <2>1. <<b>> \o E \in Line
    BY <1>1, WordLine, LineJoin
  <2> QED
    BY <1>1, <2>1, LineJoin
<1>5. On(M, On(E, On(N, g))) \in Texts
  BY <1>1, <1>4, OnText
<1> HIDE DEF t, g
<1>6. Ends(On(N, <<>>), D, b, t, On(N, On(D, <<>>)), On(N, g))
  BY <1>1, <1>2, <1>3, EndsOn
<1>7. Ends(On(E, On(N, <<>>)), D, b, t, On(E, On(N, On(D, <<>>))), On(E, On(N, g)))
  BY <1>1, <1>2, <1>6, EndsOn
<1>8. Ends(On(M, On(E, On(N, <<>>))), D, b, t, On(M, On(E, On(N, On(D, <<>>)))), On(M, On(E, On(N, g))))
  BY <1>1, <1>2, <1>7, EndsOn
<1>9. Ends(On(E, On(M, On(E, On(N, <<>>)))), D, b, t, On(E, On(M, On(E, On(N, On(D, <<>>))))),
           On(E, On(M, On(E, On(N, g)))))
  BY <1>1, <1>2, <1>8, EndsOn
<1> QED
  BY Zenon, <1>5, <1>9 DEF CurlField, CurlBound, D, M, N, E, t, g

\* The part with the file.
LEMMA EndsFile ==
    ASSUME NEW b \in Words, NEW F \in Texts
    PROVE  /\ Ends(On(<<>>, CurlFile(F, On(<<>>, <<>>))), <<"--">>, b, CurlEnd,
                   On(<<>>, CurlFile(F, On(<<>>, On(<<"--">>, <<>>)))), On(<<>>, CurlData(b, F)))
           /\ CurlData(b, F) \in Texts
<1> DEFINE D == <<"--">>
           M == <<"FileData", "filename">>
           T == <<"type">>
           S == <<"size">>
           E == <<>>
           e == On(E, On(<<"0">>, On(E, <<>>)))
           t == On(D, e)
           g == On(D \o (<<b>> \o D), e)
<1>1. D \in Line /\ M \in Line /\ T \in Line /\ S \in Line /\ E \in Line /\ <<"0">> \in Line
  <2>1. /\ "--" \in Words /\ "type" \in Words /\ "size" \in Words /\ "0" \in Words
        /\ "FileData" \in Words /\ "filename" \in Words
    BY WordsAssumption DEF Wrapping, Markers
  <2> QED
    BY <2>1, WordLine, LineWords, Empty
<1>2. D \o (<<b>> \o D) \in Line
  <2>1. <<b>> \o D \in Line
    BY <1>1, WordLine, LineJoin
  <2> QED
    BY <1>1, <2>1, LineJoin
<1> HIDE DEF D, M, T, S, E
<1>3. e \in Texts
  BY <1>1, Empty, OnText
<1> HIDE DEF e
<1>4. t \in Texts /\ t # <<>>
  BY <1>1, <1>3, OnText
<1>5. Ends(<<>>, D, b, t, On(D, <<>>), g)
  BY <1>1, <1>3, EndsNone
<1>6. g \in Texts
  BY <1>1, <1>2, <1>3, OnText
<1> HIDE DEF t, g
<1>7. Ends(On(E, <<>>), D, b, t, On(E, On(D, <<>>)), On(E, g))
  BY <1>1, <1>4, <1>5, EndsOn
<1> DEFINE x1 == On(S, On(E, <<>>))
           k1 == On(S, On(E, On(D, <<>>)))
           w1 == On(S, On(E, g))
<1>8. Ends(x1, D, b, t, k1, w1)
  BY <1>1, <1>4, <1>7, EndsOn
<1>9. w1 \in Texts
  BY <1>1, <1>6, OnText
<1> HIDE DEF x1, k1, w1
<1> DEFINE x2 == F \o x1
           k2 == F \o k1
           w2 == F \o w1
<1>10. Ends(x2, D, b, t, k2, w2)
  BY <1>1, <1>4, <1>8, EndsBehind
<1>11. w2 \in Texts
  BY <1>9, TextJoin
<1> HIDE DEF x2, k2, w2
<1>12. Ends(On(E, x2), D, b, t, On(E, k2), On(E, w2))
  BY <1>1, <1>4, <1>10, EndsOn
<1>13. Ends(On(E, On(E, x2)), D, b, t, On(E, On(E, k2)), On(E, On(E, w2)))
  BY <1>1, <1>4, <1>12, EndsOn
<1>14. Ends(On(T, On(E, On(E, x2))), D, b, t, On(T, On(E, On(E, k2))), On(T, On(E, On(E, w2))))
  BY <1>1, <1>4, <1>13, EndsOn
<1>15. Ends(On(M, On(T, On(E, On(E, x2)))), D, b, t, On(M, On(T, On(E, On(E, k2)))), On(M, On(T, On(E, On(E, w2)))))
  BY <1>1, <1>4, <1>14, EndsOn
<1>16. Ends(On(E, On(M, On(T, On(E, On(E, x2))))), D, b, t, On(E, On(M, On(T, On(E, On(E, k2))))), On(E, On(M, On(T, On(E, On(E, w2))))))
  BY <1>1, <1>4, <1>15, EndsOn
<1>17. On(M, On(T, On(E, On(E, w2)))) \in Texts
  BY <1>1, <1>11, OnText
<1>18. CurlFile(F, On(E, <<>>)) = On(M, On(T, On(E, On(E, x2))))
  BY Zenon DEF CurlFile, x1, x2, E, M, T, S
<1>19. CurlFile(F, On(E, On(D, <<>>))) = On(M, On(T, On(E, On(E, k2))))
  BY Zenon DEF CurlFile, k1, k2, E, M, T, S, D
<1>20. CurlData(b, F) = On(M, On(T, On(E, On(E, w2))))
  BY Zenon DEF CurlData, CurlTail, CurlFile, w1, w2, g, e, E, M, T, S, D
<1>21. CurlEnd = t
  BY Zenon DEF CurlEnd, t, e, E, D
<1> QED
  BY Zenon, <1>16, <1>17, <1>18, <1>19, <1>20, <1>21 DEF E, D

\* Wherever the marker of the file is found before this text, it is q's file.
FileRest(q, rest) == \A t \in Texts : Shows(t, "FileData", rest) => FileIn(t, q)

LEMMA FewerMarkers ==
    ASSUME NEW B, NEW l, Plain(l, B)
    PROVE  /\ LineFree(l, {"Secured", "FileData"} \cup B) /\ LineFree(l, {"FileName", "FileData"} \cup B)
           /\ LineFree(l, {"FileName", "Secured"} \cup B) /\ LineFree(l, B)
<1>1. /\ {"Secured", "FileData"} \cup B \subseteq Markers \cup B
      /\ {"FileName", "FileData"} \cup B \subseteq Markers \cup B
      /\ {"FileName", "Secured"} \cup B \subseteq Markers \cup B /\ B \subseteq Markers \cup B
  BY DEF Markers
<1> QED
  BY <1>1, LineFreeOfFewer DEF Plain

\* The part with the file: what is left of the text, when it is cut off.
FileCut(q, b, nm, B, F, d, sec, rest) ==
    /\ FileRest(q, rest) /\ Shows(On(<<>>, CurlData(b, F)), "FileData", rest)
    /\ CutsOn(q, B, On(<<>>, CurlData(b, F)), Named(<<nm>>, TRUE, sec), CurlEnd, CutsLast(q, nm, d))
    /\ Free(On(<<>>, CurlData(b, F)), B \ {b})

LEMMA CurlFileCut ==
    ASSUME NEW b, NEW nm, NEW B, Fit(b, nm, B), NEW ds, NEW F, Pieces(F, ds), Free(F, Markers \cup B),
           NEW w, Sums(w, ds, Words), NEW d, d = w[Len(ds)], Plain(d, B), NEW sec \in BOOLEAN,
           NEW q, Sends(q, b, nm, sec, d)
    PROVE  \E rest : FileCut(q, b, nm, B, F, d, sec, rest)
<1> DEFINE D == <<"--">>
           M == <<"FileData", "filename">>
           T == <<"type">>
           S == <<"size">>
           E == <<>>
           fn == <<"filename">>
           t == CurlEnd
           Zt == On(S, CurlTail(b))
           Zc == On(S, On(E, On(D, <<>>)))
           Zx == On(S, On(E, <<>>))
           rt == On(fn, On(T, On(E, On(E, F \o Zt))))
           rc == On(fn, On(T, On(E, On(E, F \o Zc))))
           whole == On(E, CurlData(b, F))
           cut == On(E, CurlFile(F, On(E, On(D, <<>>))))
           x == On(E, CurlFile(F, On(E, <<>>)))
           f == Named(<<nm>>, TRUE, sec)
           g == CutsLast(q, nm, d)
<1>1. /\ b \in Words /\ b \in B /\ nm \in Words /\ B \subseteq Words /\ d \in Line /\ F \in Texts
      /\ ds \in Seq(Line)
      /\ q.boundary = b /\ q.name = <<nm>> /\ q.secured = sec /\ q.data = <<d>>
  BY FreeTyped DEF Fit, Sends, Plain, Pieces
<1>2. /\ D \in Line /\ M \in Line /\ T \in Line /\ S \in Line /\ E \in Line /\ <<"0">> \in Line
      /\ fn \in Line /\ T # <<>> /\ "FileData" \in Words /\ "filename" \in Words
  <2>1. /\ "--" \in Words /\ "type" \in Words /\ "size" \in Words /\ "0" \in Words
        /\ "FileData" \in Words /\ "filename" \in Words
    BY WordsAssumption DEF Wrapping, Markers
  <2> QED
    BY <2>1, WordLine, LineWords, Empty
<1>3. D \o (<<b>> \o D) \in Line
  <2>1. <<b>> \o D \in Line
    BY <1>1, <1>2, WordLine, LineJoin
  <2> QED
    BY <1>2, <2>1, LineJoin
<1>4. /\ Plain(E, B) /\ Plain(D, B) /\ Plain(S, B) /\ Plain(T, B) /\ Plain(<<"0">>, B)
      /\ LineFree(M, {"FileName", "Secured"} \cup B)
  BY LinesAreFree DEF LinesFree
<1>5. Ends(x, D, b, t, cut, whole) /\ CurlData(b, F) \in Texts
  BY <1>1, EndsFile
<1> HIDE DEF D, M, T, S, E, fn
<1>6. t = On(D, On(E, On(<<"0">>, On(E, <<>>)))) /\ t \in Texts /\ t # <<>>
  <2>1. t = On(D, On(E, On(<<"0">>, On(E, <<>>))))
    BY DEF CurlEnd, D, E
  <2> HIDE DEF t
  <2> QED
    BY <1>2, <2>1, Empty, OnText
<1>7. /\ Zt \in Texts /\ Len(Zt) >= 3 /\ Zt[2] = <<>> /\ Zt[4] = <<>>
      /\ CurlTail(b) \in Texts
  <2> DEFINE z4 == On(E, On(<<"0">>, On(E, <<>>)))
             z3 == On(D \o (<<b>> \o D), z4)
             z2 == On(E, z3)
  <2>1. z4 \in Texts /\ Len(z4) \in Nat /\ z4[1] = <<>> /\ Len(z4) >= 1
    <3> DEFINE k == On(<<"0">>, On(E, <<>>))
    <3>1. k \in Texts
      BY <1>2, Empty, OnText
    <3> HIDE DEF k
    <3>2. On(E, k) \in Texts /\ Len(On(E, k)) = Len(k) + 1 /\ Len(k) \in Nat /\ On(E, k)[1] = E
      BY <1>2, <3>1, OnText
    <3> QED
      BY <3>2 DEF k, E
  <2>2. CurlTail(b) = z2
    BY DEF CurlTail, D, E
  <2> HIDE DEF z4
  <2>3. z3 \in Texts /\ Len(z3) = Len(z4) + 1 /\ \A i \in 1..Len(z4) : z3[i + 1] = z4[i]
    BY <1>3, <2>1, OnText
  <2>4. z3[2] = <<>>
    <3>1. 1 \in 1..Len(z4) /\ 1 + 1 = 2
      BY <2>1
    <3> QED
      BY <2>1, <2>3, <3>1
  <2> HIDE DEF z3
  <2>5. z2 \in Texts /\ Len(z2) = Len(z3) + 1 /\ z2[1] = <<>> /\ \A i \in 1..Len(z3) : z2[i + 1] = z3[i]
    <3>1. z2[1] = E
      BY <1>2, <2>3, OnText
    <3> QED
      BY <1>2, <2>3, <3>1, OnText DEF E
  <2>6. z2[3] = <<>>
    <3>1. 2 \in 1..Len(z3) /\ 2 + 1 = 3
      BY <2>1, <2>3
    <3> QED
      BY <2>4, <2>5, <3>1
  <2> HIDE DEF z2
  <2>7. On(S, z2) \in Texts /\ Len(On(S, z2)) = Len(z2) + 1 /\ \A i \in 1..Len(z2) : On(S, z2)[i + 1] = z2[i]
    BY <1>2, <2>5, OnText
  <2>8. 1 \in 1..Len(z2) /\ 3 \in 1..Len(z2) /\ 1 + 1 = 2 /\ 3 + 1 = 4 /\ Len(z2) >= 3
    BY <2>1, <2>3, <2>5
  <2>9. On(S, z2)[2] = <<>> /\ On(S, z2)[4] = <<>> /\ Len(On(S, z2)) >= 3
    BY <2>5, <2>6, <2>7, <2>8
  <2> QED
    BY <2>2, <2>5, <2>7, <2>9
<1>8. Zc \in Texts /\ Len(Zc) = 3 /\ Zc[2] = <<>> /\ On(E, On(D, <<>>)) \in Texts
  <2> DEFINE z3 == On(D, <<>>)
             z2 == On(E, z3)
  <2>1. z3 \in Texts /\ Len(z3) = 1
    <3>1. Len(<<>>) = 0
      OBVIOUS
    <3>2. z3 \in Texts /\ Len(z3) = Len(<<>>) + 1
      BY <1>2, Empty, OnText
    <3> QED
      BY <3>1, <3>2
  <2> HIDE DEF z3
  <2>2. z2 \in Texts /\ Len(z2) = 2 /\ z2[1] = <<>>
    <3>1. z2 \in Texts /\ Len(z2) = Len(z3) + 1 /\ z2[1] = E
      BY <1>2, <2>1, OnText
    <3> QED
      BY <2>1, <3>1 DEF E
  <2> HIDE DEF z2
  <2>3. On(S, z2) \in Texts /\ Len(On(S, z2)) = Len(z2) + 1 /\ \A i \in 1..Len(z2) : On(S, z2)[i + 1] = z2[i]
    BY <1>2, <2>2, OnText
  <2>4. 1 \in 1..Len(z2) /\ 1 + 1 = 2
    BY <2>2
  <2>5. On(S, z2)[2] = <<>> /\ Len(On(S, z2)) = 3
    BY <2>2, <2>3, <2>4
  <2> QED
    BY <2>2, <2>3, <2>5 DEF z2, z3
<1> HIDE DEF Zt, Zc
<1>9. CurlRest(rt, ds)
  BY <1>2, <1>7, CurlRestIs DEF E
<1>10. CurlRest(rc, ds)
  <2>1. Zc \in Texts /\ Len(Zc) >= 3 /\ Zc[2] = <<>> /\ (Len(Zc) > 3 => Zc[4] = <<>>)
    BY <1>8
  <2> QED
    BY <1>2, <2>1, CurlRestIs DEF E
<1>11. ASSUME NEW z \in Texts
       PROVE  /\ Shows(On(E, CurlFile(F, z)), "FileData", On(fn, On(T, On(E, On(E, F \o On(S, z))))))
              /\ On(E, CurlFile(F, z)) \in Texts
  <2> DEFINE m == "FileData"
             u == On(T, On(E, On(E, F \o On(S, z))))
  <2>1. F \o On(S, z) \in Texts
    BY <1>1, <1>2, OnText, TextJoin
  <2>2. u \in Texts
    BY <1>2, <2>1, OnText
  <2>3. CurlFile(F, z) = On(<<m, "filename">>, u)
    BY DEF CurlFile, T, S, E
  <2>4. m \in Words /\ "filename" \in Words /\ ~Contains(E, m)
    BY <1>2 DEF Contains, E
  <2>5. On(<<m, "filename">>, u) \in Texts
    BY <1>2, <2>2, OnText DEF M
  <2> HIDE DEF u, m
  <2>6. Shows(On(<<m, "filename">>, u), m, On(fn, u))
    BY <2>2, <2>4, Marked DEF fn
  <2>7. Shows(On(E, On(<<m, "filename">>, u)), m, On(fn, u)) /\ On(E, On(<<m, "filename">>, u)) \in Texts
    BY <1>2, <2>4, <2>5, <2>6, OnShows, OnText
  <2> QED
    BY Zenon, <2>3, <2>7 DEF u, m
<1>12. Shows(whole, "FileData", rt) /\ whole \in Texts
  <2>1. CurlData(b, F) = CurlFile(F, CurlTail(b))
    BY DEF CurlData
  <2> QED
    BY <1>7, <1>11, <2>1 DEF Zt
<1>13. Shows(cut, "FileData", rc) /\ cut \in Texts
  BY <1>8, <1>11 DEF Zc
<1>24. ~Has(rt, "FileData")
  <2> DEFINE V == {"FileData"}
  <2>1. /\ LineFree(E, V) /\ LineFree(fn, V) /\ LineFree(T, V) /\ LineFree(S, V)
        /\ LineFree(<<"0">>, V) /\ LineFree(D \o (<<b>> \o D), V)
    BY <1>4, NoMarker DEF D, fn
  <2>2. Free(F, V) /\ Free(<<>>, V)
    <3>1. V \subseteq Markers \cup B
      BY DEF Markers
    <3> QED
      BY <3>1, FreeOfFewer, EmptyFree
  <2>3. CurlTail(b) = On(E, On(D \o (<<b>> \o D), On(E, On(<<"0">>, On(E, <<>>)))))
    BY DEF CurlTail, D, E
  <2> HIDE DEF V
  <2>4. Free(Zt, V)
    BY <2>1, <2>2, <2>3, OnFree DEF Zt
  <2>5. Free(F \o Zt, V)
    BY <2>2, <2>4, FreeJoin
  <2>6. Free(rt, V)
    BY <2>1, <2>5, OnFree
  <2> QED
    BY <2>6, FreeHas DEF V
<1> HIDE DEF rt, rc, whole, cut, x, t
<1>14. \A y \in Texts : Shows(y, "FileData", rt) \/ Shows(y, "FileData", rc) => Has(y, "FileData") /\ FileDataIn(y) = d
  BY <1>1, <1>9, <1>10, CurlDataFound
<1>15. FileRest(q, rt) /\ FileIn(whole, q)
  <2>1. \A y \in Texts : Shows(y, "FileData", rt) => Behind("FileData")[y] = rt
    BY FileBehind
  <2>2. \A y \in Texts : Shows(y, "FileData", rt) => FileIn(y, q)
    BY <1>1, <1>14, <1>24, <2>1 DEF FileIn
  <2> QED
    BY <1>12, <2>2 DEF FileRest
<1>16. Free(t, B) /\ Free(t, B \ {b})
  <2>1. LineFree(D, B) /\ LineFree(E, B) /\ LineFree(<<"0">>, B) /\ Free(<<>>, B)
    BY <1>4, FewerMarkers, EmptyFree
  <2>2. Free(t, B)
    BY <1>6, <2>1, OnFree
  <2>3. B \ {b} \subseteq B
    OBVIOUS
  <2> QED
    BY <2>2, <2>3, FreeOfFewer
<1>17. ASSUME NEW z, Free(z, Markers \cup B)
       PROVE  Free(On(E, CurlFile(F, z)), {"FileName", "Secured"} \cup B) /\ Free(On(E, CurlFile(F, z)), B)
  <2> DEFINE V == {"FileName", "Secured"} \cup B
  <2>1. V \subseteq Markers \cup B /\ B \subseteq V
    BY DEF Markers
  <2>2. LineFree(E, V) /\ LineFree(T, V) /\ LineFree(S, V) /\ LineFree(M, V)
    BY <1>4, FewerMarkers
  <2> HIDE DEF V
  <2>3. Free(F, V) /\ Free(z, V)
    BY <1>17, <2>1, FreeOfFewer
  <2>4. Free(F \o On(S, z), V)
    BY <2>2, <2>3, OnFree, FreeJoin
  <2>5. Free(On(E, On(M, On(T, On(E, On(E, F \o On(S, z)))))), V)
    BY <2>2, <2>4, OnFree
  <2>6. Free(On(E, CurlFile(F, z)), V)
    BY Zenon, <2>5 DEF CurlFile, M, T, S, E
  <2>7. Free(On(E, CurlFile(F, z)), B)
    BY <2>1, <2>6, FreeOfFewer
  <2> QED
    BY <2>6, <2>7 DEF V
<1>18. Free(x, B)
  <2>1. Free(On(E, <<>>), Markers \cup B)
    BY <1>4, EmptyFree, OnFree DEF Plain
  <2> QED
    BY <1>17, <2>1 DEF x
<1>19. ~Has(cut, "FileName") /\ ~Has(cut, "Secured")
  <2>1. Free(On(E, On(D, <<>>)), Markers \cup B)
    BY <1>4, EmptyFree, OnFree DEF Plain
  <2>2. Free(cut, {"FileName", "Secured"} \cup B)
    BY <1>17, <2>1 DEF cut
  <2> QED
    BY <2>2, FreeHas
<1>20. WithPart(f, cut) = g
  <2>1. WithPart(f, cut) = [name |-> <<nm>>, named |-> TRUE, secured |-> sec, data |-> FileDataIn(cut), found |-> TRUE]
    BY <1>13, <1>14, <1>19, FilePart
  <2>2. FileDataIn(cut) = d
    BY <1>13, <1>14
  <2> QED
    BY <1>1, <2>1, <2>2 DEF CutsLast
<1>21. f \in Forms /\ ~f.found /\ f.name = q.name
  BY <1>1, WordLine, Empty DEF Named, Forms
<1>22. LineFree(D, B)
  BY <1>4, FewerMarkers
<1> HIDE DEF f, g
<1>23. CutsOn(q, B, whole, f, t, g) /\ Free(whole, B \ {b})
  BY <1>1, <1>5, <1>6, <1>15, <1>16, <1>18, <1>20, <1>21, <1>22, CutsOnPart
<1> QED
  BY Zenon, <1>12, <1>15, <1>23 DEF whole, t, f, g, E, FileCut

\* A field: its part, cut off, leaves u.
LEMMA FieldCut ==
    ASSUME NEW b, NEW nm, NEW B, Fit(b, nm, B), NEW q, q.boundary = b,
           NEW m \in {"FileName", "Secured"}, NEW v, Plain(<<v>>, B), v \in Words, NEW u \in Texts,
           NEW rest, FileRest(q, rest), Shows(On(<<>>, u), "FileData", rest),
           Free(On(<<>>, u), B \ {b}),
           NEW f \in Forms, ~f.found, q.client = "curl" /\ f.secured => f.name = q.name, NEW g,
           WithPart(f, On(<<>>, CurlField(m, v, On(<<"--">>, <<>>)))) = g
    PROVE  /\ CutsOn(q, B, On(<<>>, CurlField(m, v, CurlBound(b, u))), f, On(<<>>, u), g)
           /\ Shows(On(<<>>, CurlField(m, v, CurlBound(b, u))), "FileData", rest)
           /\ Free(On(<<>>, CurlField(m, v, CurlBound(b, u))), B \ {b})
<1> DEFINE D == <<"--">>
           x == On(<<>>, CurlField(m, v, <<>>))
           t == On(<<>>, u)
           cut == On(<<>>, CurlField(m, v, On(D, <<>>)))
           w == On(<<>>, CurlField(m, v, CurlBound(b, u)))
           V == {"FileData"} \cup B
<1>1. /\ b \in Words /\ b \in B /\ B \subseteq Words /\ m \in Words /\ b # "FileData"
      /\ Plain(<<>>, B) /\ Plain(D, B) /\ LineFree(<<m>>, V)
  <2>1. b \in Words /\ b \in B /\ B \subseteq Words /\ m \in Words /\ b # "FileData"
    BY WordsAssumption DEF Fit, Markers
  <2>2. Plain(<<>>, B) /\ Plain(D, B)
    BY LinesAreFree DEF LinesFree
  <2>3. m \in Words \ V
    BY <2>1 DEF Fit, Markers
  <2> HIDE DEF V
  <2>4. LineFree(<<m>>, V)
    BY <2>3, FreeWord
  <2> QED
    BY <2>1, <2>2, <2>4
<1>2. Ends(x, D, b, t, cut, w) /\ CurlField(m, v, CurlBound(b, u)) \in Texts
  BY <1>1, EndsField
<1>3. V \subseteq Markers \cup B /\ B \subseteq V /\ "FileData" \in V
  BY DEF Markers
<1> HIDE DEF V
<1>4. Free(x, V) /\ LineFree(D, V)
  <2>1. LineFree(<<>>, V) /\ LineFree(D, V) /\ LineFree(<<v>>, V) /\ Free(<<>>, V)
    BY <1>1, <1>3, LineFreeOfFewer, EmptyFree DEF Plain
  <2> QED
    BY <1>1, <2>1, OnFree DEF CurlField
<1>5. Free(x, B) /\ LineFree(D, B)
  BY <1>3, <1>4, FreeOfFewer, LineFreeOfFewer
<1>6. t \in Texts /\ t # <<>> /\ w \in Texts
  BY <1>2, Empty, OnText
<1> HIDE DEF x, t, cut, w, D
<1>7. Shows(t, "FileData", rest) /\ Free(t, B \ {b}) /\ WithPart(f, cut) = g
  BY DEF t, cut, D
<1>8. Shows(w, "FileData", rest)
  BY <1>1, <1>2, <1>3, <1>4, <1>6, <1>7, EndsShows
<1>9. FileIn(w, q)
  BY <1>6, <1>8 DEF FileRest
<1>10. CutsOn(q, B, w, f, t, g) /\ Free(w, B \ {b})
  BY <1>1, <1>2, <1>5, <1>6, <1>7, <1>9, CutsOnPart
<1> QED
  BY Zenon, <1>8, <1>10 DEF w, t

\* The name and the flag are found in their parts.
LEMMA FieldFound ==
    ASSUME NEW b, NEW nm, NEW B, Fit(b, nm, B), NEW sec \in BOOLEAN
    PROVE  /\ WithPart(Named(<<>>, FALSE, sec), On(<<>>, CurlField("FileName", nm, On(<<"--">>, <<>>))))
                = Named(<<nm>>, TRUE, sec)
           /\ WithPart(Named(<<nm>>, TRUE, sec), On(<<>>, CurlField("Secured", "true", On(<<"--">>, <<>>))))
                = Named(<<nm>>, TRUE, TRUE)
<1> DEFINE D == <<"--">>
           k == On(D, <<>>)
           N == <<nm>>
<1>1. /\ Plain(<<>>, B) /\ Plain(D, B) /\ Plain(<<"true">>, B)
      /\ LineFree(<<"Secured">>, {"FileName", "FileData"} \cup B)
  BY LinesAreFree DEF LinesFree
<1>2. D \in Line /\ N \in Line /\ <<>> \in Line /\ k \in Texts /\ "Secured" \in Words
  <2>1. nm \in Words /\ "--" \in Words /\ "Secured" \in Words
    BY WordsAssumption DEF Fit, Markers, Wrapping
  <2>2. D \in Line /\ N \in Line
    BY <2>1, WordLine
  <2> QED
    BY <2>1, <2>2, Empty, OnText
<1> HIDE DEF D, N
<1>3. WithPart(Named(<<>>, FALSE, sec), On(<<>>, CurlField("FileName", nm, k))) = Named(N, TRUE, sec)
  <2> DEFINE c == CurlField("FileName", nm, k)
  <2>1. ~Contains(<<>>, "FileName")
    BY DEF Contains
  <2>2. c = On(<<"FileName">>, On(<<>>, On(N, k)))
    BY DEF CurlField, N
  <2> HIDE DEF c, k
  <2>3. Has(On(<<>>, c), "FileName") /\ FileNameIn(On(<<>>, c)) = N
    BY <1>2, <2>1, <2>2, NameToken
  <2>4. WithPart(Named(<<>>, FALSE, sec), On(<<>>, c)) = Named(FileNameIn(On(<<>>, c)), TRUE, sec)
    BY <2>3, NamePart
  <2> QED
    BY <2>3, <2>4 DEF c
<1>4. WithPart(Named(N, TRUE, sec), On(<<>>, CurlField("Secured", "true", k))) = Named(N, TRUE, TRUE)
  <2> DEFINE c == CurlField("Secured", "true", k)
             V == {"FileName", "FileData"} \cup B
             M == <<"Secured">>
  <2>1. LineFree(<<>>, V) /\ LineFree(D, V) /\ LineFree(<<"true">>, V) /\ LineFree(M, V) /\ Free(<<>>, V)
    BY <1>1, FewerMarkers, EmptyFree
  <2>2. "FileName" \in V /\ "FileData" \in V
    OBVIOUS
  <2> HIDE DEF V, M
  <2>3. c = On(M, On(<<>>, On(<<"true">>, k)))
    BY DEF CurlField, M
  <2>4. Free(On(<<>>, c), V)
    BY <2>1, <2>3, OnFree
  <2>5. ~Has(On(<<>>, c), "FileName") /\ ~Has(On(<<>>, c), "FileData")
    BY <2>2, <2>4, FreeHas
  <2>6. Has(On(<<>>, c), "Secured")
    <3>1. Contains(M, "Secured") /\ M \in Line
      BY <1>2, WordLine DEF Contains, M
    <3>2. On(<<>>, On(<<"true">>, k)) \in Texts
      <4>1. <<"true">> \in Line
        BY WordsAssumption, WordLine DEF Wrapping
      <4> QED
        BY <1>2, <4>1, OnText
    <3>3. Has(c, "Secured") /\ c \in Texts
      BY <2>3, <3>1, <3>2, OnHas, OnText
    <3> QED
      BY <1>2, <3>3, OnHas
  <2> QED
    BY <2>5, <2>6, FlagPart
<1> QED
  BY Zenon, <1>3, <1>4 DEF D, N

LEMMA CurlCuts ==
    ASSUME NEW b, NEW nm, NEW B, Fit(b, nm, B), NEW ds, NEW F, Pieces(F, ds), Free(F, Markers \cup B),
           NEW w, Sums(w, ds, Words), NEW d, d = w[Len(ds)], Plain(d, B), NEW sec \in BOOLEAN,
           NEW q, Sends(q, b, nm, sec, d)
    PROVE  \E P : CutsAll(q, B, CurlText(b, nm, sec, F), P)
<1> DEFINE D == <<"--">>
           N == <<nm>>
           S == <<"size">>
           data == CurlData(b, F)
           flag == CurlFlag(b, sec, F)
           t1 == CurlText(b, nm, sec, F)
           t2 == On(<<>>, CurlName(b, nm, sec, F))
           t3 == On(<<>>, flag)
           t4 == On(<<>>, data)
           t5 == CurlEnd
           x1 == On(S, <<>>)
           c1 == On(S, On(D, <<>>))
           f3 == Named(N, TRUE, FALSE)
           f4 == Named(N, TRUE, sec)
           f5 == CutsLast(q, nm, d)
           P == {<<t1, NoForm>>, <<t2, NoForm>>, <<t3, f3>>, <<t4, f4>>, <<t5, f5>>}
<1>1. /\ b \in Words /\ b \in B /\ nm \in Words /\ B \subseteq Words /\ d \in Line /\ F \in Texts
      /\ q.boundary = b /\ q.name = N /\ q.secured = sec /\ q.data = <<d>> /\ b # "FileData"
  <2>1. b # "FileData"
    BY DEF Fit, Markers
  <2> QED
    BY <2>1, FreeTyped DEF Fit, Sends, Plain, Pieces
<1>2. /\ D \in Line /\ S \in Line /\ N \in Line /\ <<>> \in Line /\ <<>> \in Texts /\ "true" \in Words
  <2>1. "--" \in Words /\ "size" \in Words /\ "true" \in Words
    BY WordsAssumption DEF Wrapping
  <2> QED
    BY <1>1, <2>1, WordLine, Empty
<1>3. Plain(<<>>, B) /\ Plain(D, B) /\ Plain(S, B) /\ Plain(N, B) /\ Plain(<<"true">>, B)
  BY LinesAreFree DEF LinesFree
<1>4. PICK rest :
         /\ FileRest(q, rest) /\ Shows(t4, "FileData", rest)
         /\ CutsOn(q, B, t4, f4, t5, f5) /\ Free(t4, B \ {b})
  <2>1. \E rest : FileCut(q, b, nm, B, F, d, sec, rest)
    BY CurlFileCut
  <2> QED
    BY Zenon, <2>1 DEF FileCut
<1>5. /\ NoForm = Named(<<>>, FALSE, FALSE) /\ NoForm \in Forms /\ f3 \in Forms /\ f4 \in Forms
      /\ ~NoForm.found /\ ~f3.found /\ ~f4.found /\ ~NoForm.secured /\ f3.name = q.name /\ f4.name = q.name
  <2>1. \A n \in Line, nd \in BOOLEAN, y \in BOOLEAN :
           /\ Named(n, nd, y) \in Forms /\ ~Named(n, nd, y).found /\ Named(n, nd, y).secured = y
           /\ Named(n, nd, y).name = n
    BY <1>2 DEF Named, Forms
  <2>2. NoForm = Named(<<>>, FALSE, FALSE)
    BY DEF NoForm, Named
  <2> HIDE DEF N
  <2> QED
    BY <1>1, <1>2, <2>1, <2>2
<1>6. data \in Texts
  BY <1>1, EndsFile
<1>7. /\ WithPart(NoForm, On(<<>>, CurlField("FileName", nm, On(D, <<>>)))) = f3
      /\ WithPart(f3, On(<<>>, CurlField("Secured", "true", On(D, <<>>)))) = Named(N, TRUE, TRUE)
  BY <1>5, FieldFound
<1> HIDE DEF D, N, S, data, f3, f4, f5, t5
<1>8. /\ Shows(t3, "FileData", rest) /\ Free(t3, B \ {b}) /\ flag \in Texts
      /\ IF sec THEN CutsOn(q, B, t3, f3, t4, f4) ELSE t3 = t4 /\ f3 = f4
  <2>1. CASE sec
    <3>1. flag = CurlField("Secured", "true", CurlBound(b, data))
      BY <2>1 DEF CurlFlag, data
    <3>2. f4 = Named(N, TRUE, TRUE)
      BY <2>1 DEF f4
    <3> HIDE DEF flag
    <3>3. WithPart(f3, On(<<>>, CurlField("Secured", "true", On(<<"--">>, <<>>)))) = f4
      BY Zenon, <1>7, <3>2 DEF D
    <3>4. /\ CutsOn(q, B, On(<<>>, CurlField("Secured", "true", CurlBound(b, data))), f3, t4, f4)
          /\ Shows(On(<<>>, CurlField("Secured", "true", CurlBound(b, data))), "FileData", rest)
          /\ Free(On(<<>>, CurlField("Secured", "true", CurlBound(b, data))), B \ {b})
      BY <1>1, <1>2, <1>3, <1>4, <1>5, <1>6, <3>3, FieldCut
    <3>5. CurlField("Secured", "true", CurlBound(b, data)) \in Texts
      <4>1. "Secured" \in Words
        BY WordsAssumption DEF Markers
      <4> QED
        BY <1>1, <1>2, <1>6, <4>1, EndsField
    <3> QED
      BY Zenon, <2>1, <3>1, <3>4, <3>5
  <2>2. CASE ~sec
    <3>1. flag = data /\ f3 = f4
      BY <2>2 DEF CurlFlag, data, f3, f4
    <3> QED
      BY <1>4, <1>6, <2>2, <3>1
  <2> QED
    BY <2>1, <2>2
<1> HIDE DEF t4
<1>9. CutsOn(q, B, t2, NoForm, t3, f3) /\ Shows(t2, "FileData", rest) /\ Free(t2, B \ {b}) /\ t2 \in Texts /\ t2 # <<>>
  <2>0. "FileName" \in Words
    BY WordsAssumption DEF Markers
  <2>1. CurlName(b, nm, sec, F) = CurlField("FileName", nm, CurlBound(b, flag))
    BY DEF CurlName, flag
  <2> HIDE DEF flag
  <2>2. WithPart(NoForm, On(<<>>, CurlField("FileName", nm, On(<<"--">>, <<>>)))) = f3
    BY Zenon, <1>7 DEF D
  <2>3. Plain(<<nm>>, B)
    BY <1>3 DEF N
  <2>4. /\ CutsOn(q, B, On(<<>>, CurlField("FileName", nm, CurlBound(b, flag))), NoForm, t3, f3)
        /\ Shows(On(<<>>, CurlField("FileName", nm, CurlBound(b, flag))), "FileData", rest)
        /\ Free(On(<<>>, CurlField("FileName", nm, CurlBound(b, flag))), B \ {b})
    BY <1>1, <1>2, <1>4, <1>5, <1>8, <2>2, <2>3, FieldCut
  <2>5. CurlField("FileName", nm, CurlBound(b, flag)) \in Texts
    BY <1>1, <1>2, <1>8, <2>0, EndsField
  <2>6. t2 \in Texts /\ t2 # <<>>
    BY <1>2, <2>1, <2>5, OnText
  <2> QED
    BY Zenon, <2>1, <2>4, <2>6
<1>10. Ends(x1, D, b, t2, c1, t1) /\ t1 \in Texts
  <2> DEFINE u == CurlName(b, nm, sec, F)
             g == On(D \o (<<b>> \o <<>>), u)
  <2>1. u \in Texts
    <3>1. CurlName(b, nm, sec, F) = CurlField("FileName", nm, CurlBound(b, flag)) /\ "FileName" \in Words
      BY WordsAssumption DEF CurlName, flag, Markers
    <3> HIDE DEF flag
    <3> QED
      BY <1>1, <1>2, <1>8, <3>1, EndsField
  <2> HIDE DEF u
  <2>2. Ends(<<>>, D, b, On(<<>>, u), On(D, <<>>), g)
    BY <1>1, <1>2, <2>1, EndsNone
  <2>3. On(<<>>, u) \in Texts /\ On(<<>>, u) # <<>> /\ g \in Texts
    <3>1. D \o (<<b>> \o <<>>) \in Line
      <4>1. <<b>> \o <<>> \in Line
        BY <1>1, <1>2, WordLine, LineJoin
      <4> QED
        BY <1>2, <4>1, LineJoin
    <3> QED
      BY <1>2, <2>1, <3>1, OnText
  <2> HIDE DEF g
  <2>4. Ends(On(S, <<>>), D, b, On(<<>>, u), On(S, On(D, <<>>)), On(S, g))
    BY <1>1, <1>2, <2>2, <2>3, EndsOn
  <2>5. t1 = On(S, g)
    BY Zenon DEF CurlText, CurlBound, S, D, g, u
  <2>6. On(S, g) \in Texts
    BY <1>2, <2>3, OnText
  <2> QED
    BY Zenon, <2>4, <2>5, <2>6 DEF u
<1> HIDE DEF t2, t3
<1>11. LineFree(D, {"FileData"} \cup B) /\ Free(x1, {"FileData"} \cup B) /\ LineFree(D, B) /\ Free(x1, B)
  <2> DEFINE V == {"FileData"} \cup B
  <2>1. V \subseteq Markers \cup B /\ B \subseteq V
    BY DEF Markers
  <2>2. LineFree(D, V) /\ LineFree(S, V) /\ Free(<<>>, V)
    BY <1>3, <2>1, LineFreeOfFewer, EmptyFree DEF Plain
  <2>3. Free(x1, V)
    BY <2>2, OnFree
  <2> HIDE DEF V
  <2>4. LineFree(D, B) /\ Free(x1, B)
    BY <2>1, <2>2, <2>3, FreeOfFewer, LineFreeOfFewer
  <2> QED
    BY <2>2, <2>3, <2>4 DEF V
<1>12. WithPart(NoForm, c1) = NoForm
  <2>1. Free(c1, Markers \cup B)
    BY <1>3, EmptyFree, OnFree DEF Plain
  <2>2. ~Has(c1, "FileName") /\ ~Has(c1, "Secured") /\ ~Has(c1, "FileData")
    BY <2>1, FreeHas DEF Markers
  <2> QED
    BY <1>5, <2>2, PlainPart
<1> HIDE DEF t1, x1, c1
<1>13. CutsOn(q, B, t1, NoForm, t2, NoForm)
  <2>1. Shows(t1, "FileData", rest)
    <3>1. "FileData" \in {"FileData"} \cup B
      OBVIOUS
    <3> QED
      BY <1>1, <1>9, <1>10, <1>11, <3>1, EndsShows
  <2>2. FileIn(t1, q)
    BY <1>4, <1>10, <2>1 DEF FileRest
  <2> QED
    BY <1>1, <1>5, <1>9, <1>10, <1>11, <1>12, <2>2, CutsOnPart
<1>14. \A Q : CutsRight(q, B, t5, f5, Q)
  <2>1. Free(t5, B)
    <3>1. /\ LineFree(D, B) /\ LineFree(<<>>, B) /\ LineFree(<<"0">>, B) /\ Free(<<>>, B)
      BY <1>3, LinesAreFree, FewerMarkers, EmptyFree DEF LinesFree
    <3> QED
      BY <3>1, OnFree DEF CurlEnd, t5, D
  <2> QED
    BY <2>1, CutsAtEnd DEF f5
<1>15. CutsAll(q, B, t1, P)
  <2>1. ASSUME NEW s, NEW f, <<s, f>> \in P PROVE CutsRight(q, B, s, f, P)
    <3>1. \/ (s = t1 /\ f = NoForm) \/ (s = t2 /\ f = NoForm) \/ (s = t3 /\ f = f3)
          \/ (s = t4 /\ f = f4) \/ (s = t5 /\ f = f5)
      BY <2>1
    <3>2. /\ <<t2, NoForm>> \in P /\ <<t3, f3>> \in P /\ <<t4, f4>> \in P /\ <<t5, f5>> \in P
      OBVIOUS
    <3> HIDE DEF P
    <3>3. /\ CutsRight(q, B, t1, NoForm, P) /\ CutsRight(q, B, t2, NoForm, P)
          /\ CutsRight(q, B, t4, f4, P) /\ CutsRight(q, B, t5, f5, P)
      BY Zenon, <1>4, <1>9, <1>13, <1>14, <3>2 DEF CutsOn
    <3>4. CutsRight(q, B, t3, f3, P)
      <4>1. CASE sec
        BY Zenon, <1>8, <3>2, <4>1 DEF CutsOn
      <4>2. CASE ~sec
        BY Zenon, <1>8, <3>3, <4>2
      <4> QED
        BY <4>1, <4>2
    <3> QED
      BY Zenon, <3>1, <3>3, <3>4
  <2>2. <<t1, NoForm>> \in P
    OBVIOUS
  <2> QED
    BY <2>1, <2>2 DEF CutsAll
<1> QED
  BY Zenon, <1>15 DEF t1

-----------------------------------------------------------------------------
(* The chunks of curl                                                      *)

\* Text behind a field, and behind the fields.
CurlFields(b, nm, sec, u) ==
    CurlBound(b, CurlField("FileName", nm,
        IF sec THEN CurlBound(b, CurlField("Secured", "true", u)) ELSE u))

FieldJoins(b, m, v, u, z) ==
    /\ CurlBound(b, CurlField(m, v, u)) \o z = CurlBound(b, CurlField(m, v, u \o z))
    /\ CurlBound(b, CurlField(m, v, u)) \in Texts /\ CurlBound(b, CurlField(m, v, u)) # <<>>
    /\ Append(CurlBound(b, CurlField(m, v, u)), <<>>) = CurlBound(b, CurlField(m, v, Append(u, <<>>)))
    /\ u \o z \in Texts

LEMMA FieldJoin ==
    ASSUME NEW b \in Words, NEW m \in Words, NEW v \in Words, NEW u \in Texts, NEW z \in Texts
    PROVE  FieldJoins(b, m, v, u, z)
<1> DEFINE D == <<"--">> \o (<<b>> \o <<>>)
           M == <<m>>
           N == <<v>>
           E == <<>>
<1>1. D \in Line /\ M \in Line /\ N \in Line /\ E \in Line
  <2>1. "--" \in Words
    BY WordsAssumption DEF Wrapping
  <2>2. <<"--">> \in Line /\ <<b>> \o <<>> \in Line
    BY <2>1, WordLine, Empty, LineJoin
  <2> QED
    BY <2>2, WordLine, Empty, LineJoin
<1> HIDE DEF D, M, N, E
<1> DEFINE u1 == On(N, u)
           u2 == On(E, u1)
           u3 == On(M, u2)
           u4 == On(D, u3)
<1>2. u1 \in Texts /\ JoinsOn(N, u, z) /\ AppendOn(N, u, E)
  BY <1>1, OnText, OnJoin, OnAppend
<1> HIDE DEF u1
<1>3. u2 \in Texts /\ JoinsOn(E, u1, z) /\ AppendOn(E, u1, E)
  BY <1>1, <1>2, OnText, OnJoin, OnAppend
<1> HIDE DEF u2
<1>4. u3 \in Texts /\ JoinsOn(M, u2, z) /\ AppendOn(M, u2, E)
  BY <1>1, <1>3, OnText, OnJoin, OnAppend
<1> HIDE DEF u3
<1>5. u4 \in Texts /\ u4 # <<>> /\ JoinsOn(D, u3, z) /\ AppendOn(D, u3, E)
  BY <1>1, <1>4, OnText, OnJoin, OnAppend
<1>6. u4 \o z = On(D, On(M, On(E, On(N, u \o z)))) /\ u \o z \in Texts
  BY Zenon, <1>2, <1>3, <1>4, <1>5 DEF JoinsOn, u1, u2, u3, u4
<1>7. Append(u4, E) = On(D, On(M, On(E, On(N, Append(u, E)))))
  BY Zenon, <1>2, <1>3, <1>4, <1>5 DEF AppendOn, u1, u2, u3, u4
<1> HIDE DEF u4
<1>8. \A y : CurlBound(b, CurlField(m, v, y)) = On(D, On(M, On(E, On(N, y))))
  BY Zenon DEF CurlBound, CurlField, D, M, E, N
<1>9. u4 = CurlBound(b, CurlField(m, v, u))
  BY Zenon, <1>8 DEF u1, u2, u3, u4
<1> QED
  BY Zenon, <1>5, <1>6, <1>7, <1>8, <1>9 DEF FieldJoins, E

\* A field as it is sent, and what is sent behind it.
LEMMA FieldGlued ==
    ASSUME NEW r, NEW b \in Words, r.boundary = b, NEW m \in Words, NEW v \in Words,
           v = (IF m = "FileName" THEN r.name ELSE "true"), NEW u \in Texts, u # <<>>
    PROVE  /\ Field(r, m) = CurlBound(b, CurlField(m, v, On(<<>>, <<>>)))
           /\ Glue(CurlBound(b, CurlField(m, v, On(<<>>, <<>>))), u) = CurlBound(b, CurlField(m, v, u))
<1> DEFINE D == <<"--", b>>
           M == <<m>>
           N == <<v>>
           E == <<>>
<1>1. D \in Line /\ M \in Line /\ N \in Line /\ E \in Line /\ <<"--">> \o (<<b>> \o <<>>) = D
  <2>1. "--" \in Words
    BY WordsAssumption DEF Wrapping
  <2> QED
    BY <2>1, WordLine, LineWords, Empty
<1>2. Field(r, m) = <<D, M, E, N, E>>
  BY DEF Field
<1> HIDE DEF D, M, N, E
<1>3. <<D, M, E, N, E>> = On(D, On(M, On(E, On(N, On(E, <<>>)))))
  <2>1. <<D, M, E, N, E>> = On(D, <<M, E, N, E>>)
    BY <1>1, OnFive
  <2>2. <<M, E, N, E>> = On(M, <<E, N, E>>)
    BY <1>1, OnFour
  <2>3. <<E, N, E>> = On(E, <<N, E>>)
    BY <1>1, OnThree
  <2>4. <<N, E>> = On(N, <<E>>)
    BY <1>1, OnTwo
  <2>5. <<E>> = On(E, <<>>)
    BY <1>1, OnOne
  <2> QED
    BY Zenon, <2>1, <2>2, <2>3, <2>4, <2>5
<1>4. Field(r, m) = CurlBound(b, CurlField(m, v, On(<<>>, <<>>)))
  BY Zenon, <1>1, <1>2, <1>3 DEF CurlBound, CurlField, M, N, E
<1> DEFINE x == CurlBound(b, CurlField(m, v, <<>>))
<1>5. FieldJoins(b, m, v, <<>>, u) /\ <<>> \in Texts /\ <<>> \o u = u /\ AppendOn(E, <<>>, E)
  BY <1>1, Empty, FieldJoin, TextEmpty, OnAppend
<1>6. /\ x \o u = CurlBound(b, CurlField(m, v, u)) /\ x \in Texts
      /\ Append(x, <<>>) = CurlBound(b, CurlField(m, v, On(<<>>, <<>>)))
  BY Zenon, <1>5 DEF FieldJoins, AppendOn, E
<1> HIDE DEF x
<1>7. Glue(Append(x, <<>>), u) = x \o u
  BY <1>6, GlueLines
<1> QED
  BY Zenon, <1>4, <1>6, <1>7

\* The fields curl sends, as they are sent and with what is behind them.
FieldsJoin(b, nm, sec, u, z) ==
    /\ CurlFields(b, nm, sec, u) \in Texts /\ CurlFields(b, nm, sec, u) # <<>>
    /\ CurlFields(b, nm, sec, u) \o z = CurlFields(b, nm, sec, u \o z)
    /\ Append(CurlFields(b, nm, sec, <<>>), <<>>) = CurlFields(b, nm, sec, On(<<>>, <<>>))

LEMMA FieldsTyped ==
    ASSUME NEW b \in Words, NEW nm \in Words, NEW sec \in BOOLEAN, NEW u \in Texts, NEW z \in Texts
    PROVE  FieldsJoin(b, nm, sec, u, z)
<1> DEFINE flag(y) == CurlBound(b, CurlField("Secured", "true", y))
           inner(y) == IF sec THEN flag(y) ELSE y
<1>1. "FileName" \in Words /\ "Secured" \in Words /\ "true" \in Words /\ <<>> \in Texts /\ <<>> \in Line
  BY Empty, WordsAssumption DEF Markers, Wrapping
<1>2. FieldJoins(b, "Secured", "true", u, z) /\ FieldJoins(b, "Secured", "true", <<>>, z)
  BY <1>1, FieldJoin
<1>3. /\ flag(u) \in Texts /\ flag(u) \o z = flag(u \o z)
      /\ flag(<<>>) \in Texts /\ Append(flag(<<>>), <<>>) = flag(Append(<<>>, <<>>))
  BY Zenon, <1>2 DEF FieldJoins
<1> HIDE DEF flag
<1>4. /\ inner(u) \in Texts /\ inner(u) \o z = inner(u \o z)
      /\ inner(<<>>) \in Texts /\ Append(inner(<<>>), <<>>) = inner(Append(<<>>, <<>>))
  <2>1. CASE sec
    BY Zenon, <1>3, <2>1
  <2>2. CASE ~sec
    BY Zenon, <1>1, <2>2
  <2> QED
    BY <2>1, <2>2
<1>5. Append(<<>>, <<>>) = On(<<>>, <<>>)
  <2>1. AppendOn(<<>>, <<>>, <<>>)
    BY <1>1, OnAppend
  <2> QED
    BY Zenon, <2>1 DEF AppendOn
<1>6. \A y : CurlFields(b, nm, sec, y) = CurlBound(b, CurlField("FileName", nm, inner(y)))
  BY Zenon DEF CurlFields, flag
<1> HIDE DEF inner
<1>7. FieldJoins(b, "FileName", nm, inner(u), z) /\ FieldJoins(b, "FileName", nm, inner(<<>>), z)
  BY <1>1, <1>4, FieldJoin
<1> QED
  BY Zenon, <1>4, <1>5, <1>6, <1>7 DEF FieldJoins, FieldsJoin

LEMMA FieldsGlued ==
    ASSUME NEW r, NEW b \in Words, r.boundary = b, NEW nm \in Words, r.name = nm,
           NEW sec \in BOOLEAN,
           r.before = (IF sec THEN <<"FileName", "Secured">> ELSE <<"FileName">>),
           NEW u \in Texts, u # <<>>
    PROVE  Glue(Fields(r, r.before), u) = CurlFields(b, nm, sec, u)
<1> DEFINE z == On(<<>>, <<>>)
           f1 == Field(r, "FileName")
           f2 == Field(r, "Secured")
<1>1. "FileName" \in Words /\ "Secured" \in Words /\ "true" \in Words /\ <<>> \in Texts /\ z \in Texts /\ z # <<>>
  BY Empty, OnText, WordsAssumption DEF Markers, Wrapping
<1>2. nm = (IF "FileName" = "FileName" THEN r.name ELSE "true")
      /\ "true" = (IF "Secured" = "FileName" THEN r.name ELSE "true")
  OBVIOUS
<1>3. f1 = CurlBound(b, CurlField("FileName", nm, z)) /\ f2 = CurlBound(b, CurlField("Secured", "true", z))
  BY <1>1, <1>2, FieldGlued
<1>4. f1 \in Texts /\ f1 # <<>> /\ f2 \in Texts /\ f2 # <<>>
  <2>1. FieldJoins(b, "FileName", nm, z, z) /\ FieldJoins(b, "Secured", "true", z, z)
    BY <1>1, FieldJoin
  <2> HIDE DEF f1, f2, z
  <2> QED
    BY Zenon, <1>3, <2>1 DEF FieldJoins
<1>5. Glue(f1, f2) = CurlBound(b, CurlField("FileName", nm, f2))
  <2> HIDE DEF f2
  <2>1. Glue(CurlBound(b, CurlField("FileName", nm, On(<<>>, <<>>))), f2) = CurlBound(b, CurlField("FileName", nm, f2))
    BY <1>1, <1>2, <1>4, FieldGlued
  <2> QED
    BY Zenon, <1>3, <2>1
<1> HIDE DEF f1, f2
<1>6. Fields(r, r.before) = CurlFields(b, nm, sec, z)
  <2>1. CASE sec
    <3>1. [i \in DOMAIN r.before |-> Field(r, r.before[i])] = <<f1, f2>>
      BY <2>1 DEF f1, f2
    <3>2. GlueAll(<<f1, f2>>) = Glue(f1, f2)
      BY <1>4, GlueFew
    <3>3. Fields(r, r.before) = Glue(f1, f2)
      BY Zenon, <3>1, <3>2 DEF Fields
    <3> QED
      BY Zenon, <1>3, <1>5, <2>1, <3>3 DEF CurlFields
  <2>2. CASE ~sec
    <3>1. [i \in DOMAIN r.before |-> Field(r, r.before[i])] = <<f1>>
      BY <2>2 DEF f1
    <3>2. GlueAll(<<f1>>) = f1
      BY <1>4, GlueFew
    <3>3. Fields(r, r.before) = f1
      BY Zenon, <3>1, <3>2 DEF Fields
    <3> QED
      BY Zenon, <1>3, <2>2, <3>3 DEF CurlFields
  <2> QED
    BY <2>1, <2>2
<1> DEFINE x == CurlFields(b, nm, sec, <<>>)
<1>7. x \in Texts /\ x \o u = CurlFields(b, nm, sec, <<>> \o u) /\ Append(x, <<>>) = CurlFields(b, nm, sec, z)
  <2>1. FieldsJoin(b, nm, sec, <<>>, u)
    BY <1>1, FieldsTyped
  <2> QED
    BY Zenon, <2>1 DEF FieldsJoin
<1>8. <<>> \o u = u
  BY TextEmpty
<1> HIDE DEF x, z
<1>9. Glue(Append(x, <<>>), u) = x \o u
  BY <1>7, GlueLines
<1> QED
  BY Zenon, <1>6, <1>7, <1>8, <1>9

\* The first chunk of curl and the last.
CurlHead(b, nm, sec, u) ==
    CurlFields(b, nm, sec, CurlBound(b,
        On(<<"FileData", "filename">>, On(<<"type">>, On(<<>>, On(<<>>, u))))))
CurlLast(b) == On(<<>>, On(<<"--">> \o (<<b>> \o <<"--">>), On(<<>>, <<>>)))

LEMMA CurlChunksAre ==
    ASSUME NEW r, NEW b \in Words, r.boundary = b, NEW nm \in Words, r.name = nm,
           NEW sec \in BOOLEAN, r.later = <<>>,
           r.before = (IF sec THEN <<"FileName", "Secured">> ELSE <<"FileName">>)
    PROVE  CurlChunks(r) = <<CurlHead(b, nm, sec, <<>>)>> \o r.pieces \o <<CurlLast(b)>>
<1> DEFINE D == <<"--", b>>
           Z == <<"--", b, "--">>
           M == <<"FileData", "filename">>
           T == <<"type">>
           E == <<>>
           h == <<D, M, T, E, E>>
           l == <<Z, E>>
<1>1. /\ D \in Line /\ Z \in Line /\ M \in Line /\ T \in Line /\ E \in Line
      /\ <<"--">> \o (<<b>> \o <<>>) = D /\ <<"--">> \o (<<b>> \o <<"--">>) = Z
  <2>1. "--" \in Words /\ "type" \in Words /\ "FileData" \in Words /\ "filename" \in Words
    BY WordsAssumption DEF Wrapping, Markers
  <2>2. /\ <<"--">> \o (<<b>> \o <<>>) = D /\ <<"--">> \o (<<b>> \o <<"--">>) = Z
        /\ D \in Line /\ Z \in Line
    <3> DEFINE w == "--"
    <3>1. w \in Words
      BY <2>1
    <3> HIDE DEF w
    <3>2. WordsJoined(w, b, w, b)
      BY <3>1, WordsJoin
    <3> QED
      BY Zenon, <3>2 DEF w, WordsJoined
  <2>3. M \in Line /\ T \in Line /\ E \in Line
    <3> DEFINE w == "FileData"
               v == "filename"
    <3>1. w \in Words /\ v \in Words
      BY <2>1
    <3> HIDE DEF w, v
    <3>2. <<w, v>> \in Line
      BY <3>1 DEF Line
    <3> QED
      BY <2>1, <3>2, WordLine, Empty DEF w, v
  <2> QED
    BY Zenon, <2>2, <2>3
<1> HIDE DEF D, Z, M, T, E
<1>2. h = On(D, On(M, On(T, On(E, On(E, <<>>))))) /\ h \in Texts /\ h # <<>>
  <2>1. <<D, M, T, E, E>> = On(D, <<M, T, E, E>>)
    BY <1>1, OnFive
  <2>2. <<M, T, E, E>> = On(M, <<T, E, E>>)
    BY <1>1, OnFour
  <2>3. <<T, E, E>> = On(T, <<E, E>>)
    BY <1>1, OnThree
  <2>4. <<E, E>> = On(E, <<E>>)
    BY <1>1, OnTwo
  <2>5. <<E>> = On(E, <<>>)
    BY <1>1, OnOne
  <2>6. h = On(D, On(M, On(T, On(E, On(E, <<>>)))))
    BY Zenon, <2>1, <2>2, <2>3, <2>4, <2>5
  <2> HIDE DEF h
  <2> QED
    BY <1>1, <2>6, Empty, OnText
<1>3. l = On(Z, On(E, <<>>)) /\ l \in Texts /\ l # <<>>
  <2>1. <<Z, E>> = On(Z, <<E>>)
    BY <1>1, OnTwo
  <2>2. <<E>> = On(E, <<>>)
    BY <1>1, OnOne
  <2>3. l = On(Z, On(E, <<>>))
    BY Zenon, <2>1, <2>2
  <2> HIDE DEF l
  <2> QED
    BY <1>1, <2>3, Empty, OnText
<1>4. CurlChunks(r) = << Glue(Fields(r, r.before), h) >> \o r.pieces
                      \o << << E >> \o Glue(Fields(r, r.later), l) >>
  BY Zenon DEF CurlChunks, D, Z, M, T, E
<1> HIDE DEF h, l
<1>5. Glue(Fields(r, r.before), h) = CurlFields(b, nm, sec, h)
  BY <1>2, FieldsGlued
<1>6. CurlFields(b, nm, sec, h) = CurlHead(b, nm, sec, <<>>)
  BY Zenon, <1>1, <1>2 DEF CurlHead, CurlBound, M, T, E
<1>7. Glue(Fields(r, r.later), l) = l
  <2>1. [i \in DOMAIN r.later |-> Field(r, r.later[i])] = <<>>
    OBVIOUS
  <2>2. GlueAll(<<>>) = EmptyText
    BY <1>3, GlueFew
  <2>3. Fields(r, r.later) = EmptyText
    BY Zenon, <2>1, <2>2 DEF Fields
  <2> QED
    BY <1>3, <2>3, GlueEmpty
<1>8. <<E>> \o l = CurlLast(b)
  BY Zenon, <1>1, <1>3 DEF CurlLast, On, E
<1> QED
  BY Zenon, <1>4, <1>5, <1>6, <1>7, <1>8

-----------------------------------------------------------------------------
(* The body of multi_post.lua, as it is sent                               *)

TenLines(a, b, c, d, e, f, g, h, i, j) ==
    <<a, b, c, d, e, f, g, h, i, j>> = On(a, On(b, On(c, On(d, On(e, <<f, g, h, i, j>>)))))

LEMMA OnTen ==
    ASSUME NEW a \in Line, NEW b \in Line, NEW c \in Line, NEW d \in Line, NEW e \in Line,
           NEW f \in Line, NEW g \in Line, NEW h \in Line, NEW i \in Line, NEW j \in Line
    PROVE  TenLines(a, b, c, d, e, f, g, h, i, j)
<1>1. <<a, b, c, d, e, f, g, h, i, j>> = On(a, <<b, c, d, e, f, g, h, i, j>>)
  <2>1. <<a, b, c, d, e, f, g, h, i, j>> \in Texts /\ <<b, c, d, e, f, g, h, i, j>> \in Texts /\ Len(<<a, b, c, d, e, f, g, h, i, j>>) = 10 /\ Len(<<b, c, d, e, f, g, h, i, j>>) = 9
    BY TextsOfLines
  <2>2. <<a, b, c, d, e, f, g, h, i, j>>[1] = a /\ \A k \in 1..9 : <<a, b, c, d, e, f, g, h, i, j>>[k + 1] = <<b, c, d, e, f, g, h, i, j>>[k]
    OBVIOUS
  <2>3. HasOn(<<a, b, c, d, e, f, g, h, i, j>>, a, <<b, c, d, e, f, g, h, i, j>>)
    BY <2>1, <2>2 DEF HasOn
  <2> QED
    BY <2>3, OnIs
<1>2. <<b, c, d, e, f, g, h, i, j>> = On(b, <<c, d, e, f, g, h, i, j>>)
  <2>1. <<b, c, d, e, f, g, h, i, j>> \in Texts /\ <<c, d, e, f, g, h, i, j>> \in Texts /\ Len(<<b, c, d, e, f, g, h, i, j>>) = 9 /\ Len(<<c, d, e, f, g, h, i, j>>) = 8
    BY TextsOfLines
  <2>2. <<b, c, d, e, f, g, h, i, j>>[1] = b /\ \A k \in 1..8 : <<b, c, d, e, f, g, h, i, j>>[k + 1] = <<c, d, e, f, g, h, i, j>>[k]
    OBVIOUS
  <2>3. HasOn(<<b, c, d, e, f, g, h, i, j>>, b, <<c, d, e, f, g, h, i, j>>)
    BY <2>1, <2>2 DEF HasOn
  <2> QED
    BY <2>3, OnIs
<1>3. <<c, d, e, f, g, h, i, j>> = On(c, <<d, e, f, g, h, i, j>>)
  <2>1. <<c, d, e, f, g, h, i, j>> \in Texts /\ <<d, e, f, g, h, i, j>> \in Texts /\ Len(<<c, d, e, f, g, h, i, j>>) = 8 /\ Len(<<d, e, f, g, h, i, j>>) = 7
    BY TextsOfLines
  <2>2. <<c, d, e, f, g, h, i, j>>[1] = c /\ \A k \in 1..7 : <<c, d, e, f, g, h, i, j>>[k + 1] = <<d, e, f, g, h, i, j>>[k]
    OBVIOUS
  <2>3. HasOn(<<c, d, e, f, g, h, i, j>>, c, <<d, e, f, g, h, i, j>>)
    BY <2>1, <2>2 DEF HasOn
  <2> QED
    BY <2>3, OnIs
<1>4. <<d, e, f, g, h, i, j>> = On(d, <<e, f, g, h, i, j>>)
  <2>1. <<d, e, f, g, h, i, j>> \in Texts /\ <<e, f, g, h, i, j>> \in Texts /\ Len(<<d, e, f, g, h, i, j>>) = 7 /\ Len(<<e, f, g, h, i, j>>) = 6
    BY TextsOfLines
  <2>2. <<d, e, f, g, h, i, j>>[1] = d /\ \A k \in 1..6 : <<d, e, f, g, h, i, j>>[k + 1] = <<e, f, g, h, i, j>>[k]
    OBVIOUS
  <2>3. HasOn(<<d, e, f, g, h, i, j>>, d, <<e, f, g, h, i, j>>)
    BY <2>1, <2>2 DEF HasOn
  <2> QED
    BY <2>3, OnIs
<1>5. <<e, f, g, h, i, j>> = On(e, <<f, g, h, i, j>>)
  <2>1. <<e, f, g, h, i, j>> \in Texts /\ <<f, g, h, i, j>> \in Texts /\ Len(<<e, f, g, h, i, j>>) = 6 /\ Len(<<f, g, h, i, j>>) = 5
    BY TextsOfLines
  <2>2. <<e, f, g, h, i, j>>[1] = e /\ \A k \in 1..5 : <<e, f, g, h, i, j>>[k + 1] = <<f, g, h, i, j>>[k]
    OBVIOUS
  <2>3. HasOn(<<e, f, g, h, i, j>>, e, <<f, g, h, i, j>>)
    BY <2>1, <2>2 DEF HasOn
  <2> QED
    BY <2>3, OnIs
<1> QED
  BY Zenon, <1>1, <1>2, <1>3, <1>4, <1>5 DEF TenLines

LEMMA WrkBodyIs ==
    ASSUME NEW r, NEW b \in Words, r.boundary = b, NEW nm \in Words, r.name = nm,
           NEW d \in Line, GlueAll(r.pieces) = <<d>>
    PROVE  WrkBody(r) = WrkText(b, nm, d) /\ WrkText(b, nm, d) \in Texts /\ WrkText(b, nm, d) # <<>>
<1> DEFINE D == <<"--", b>>
           MS == <<"Secured", "--", b, "FileName">>
           N == <<nm>>
           MD == <<"--", b, "FileData">>
           S == <<"size">>
           Z == <<"--", b, "--">>
           E == <<>>
           filePart == WrkFile(b, d)
<1>1. /\ <<"--">> \o (<<b>> \o <<>>) = D /\ <<"--">> \o (<<b>> \o <<"--">>) = Z
      /\ <<"--">> \o (<<b>> \o <<"FileData">>) = MD
      /\ <<"Secured", "--">> \o (<<b>> \o <<"FileName">>) = MS
      /\ D \in Line /\ MS \in Line /\ MD \in Line /\ Z \in Line
  <2> DEFINE w == "--"
             fd == "FileData"
             fn == "FileName"
             sc == "Secured"
  <2>1. w \in Words /\ fd \in Words /\ fn \in Words /\ sc \in Words
    BY WordsAssumption DEF Markers, Wrapping
  <2> HIDE DEF w, fd, fn, sc
  <2>2. WordsJoined(w, b, w, b) /\ WordsJoined(w, b, fd, b) /\ WordsJoined(sc, w, b, fn)
    BY <2>1, WordsJoin
  <2> QED
    BY Zenon, <2>2 DEF w, fd, fn, sc, WordsJoined
<1>2. N \in Line /\ S \in Line /\ E \in Line
  <2>1. "size" \in Words
    BY WordsAssumption DEF Wrapping
  <2> QED
    BY <2>1, WordLine, Empty
<1> DEFINE y == On(d, On(Z, <<>>))
           t10 == <<D, MS, E, N, E, MD, E, E, S, E>>
<1>3. WrkBody(r) = Glue(t10, GlueAll(r.pieces) \o <<Z>>)
  BY Zenon DEF WrkBody, D, MS, N, MD, S, Z, E
<1> HIDE DEF D, MS, N, MD, S, Z, E
<1>4. t10 = On(D, On(MS, On(E, On(N, On(E, On(MD, On(E, On(E, On(S, On(E, <<>>))))))))))
  <2>1. t10 = On(D, On(MS, On(E, On(N, On(E, <<MD, E, E, S, E>>)))))
    <3>1. TenLines(D, MS, E, N, E, MD, E, E, S, E)
      BY <1>1, <1>2, OnTen
    <3> QED
      BY Zenon, <3>1 DEF TenLines
  <2>2. <<MD, E, E, S, E>> = On(MD, <<E, E, S, E>>)
    BY <1>1, <1>2, OnFive
  <2>3. <<E, E, S, E>> = On(E, <<E, S, E>>)
    BY <1>1, <1>2, OnFour
  <2>4. <<E, S, E>> = On(E, <<S, E>>)
    BY <1>1, <1>2, OnThree
  <2>5. <<S, E>> = On(S, <<E>>)
    BY <1>1, <1>2, OnTwo
  <2>6. <<E>> = On(E, <<>>)
    BY <1>1, <1>2, OnOne
  <2> QED
    BY Zenon, <2>1, <2>2, <2>3, <2>4, <2>5, <2>6
<1> HIDE DEF t10
<1>5. GlueAll(r.pieces) \o <<Z>> = y /\ y \in Texts /\ y # <<>>
  <2>1. <<Z>> = On(Z, <<>>) /\ <<Z>> \in Texts
    BY <1>1, OnOne, LineText
  <2>2. <<d>> \o <<Z>> = y
    BY Zenon, <2>1 DEF On
  <2> QED
    BY <2>1, <2>2, OnText
<1> DEFINE u9 == On(S, <<>>)
           u8 == On(E, u9)
           u7 == On(E, u8)
           u6 == On(MD, u7)
           u5 == On(E, u6)
           u4 == On(N, u5)
           u3 == On(E, u4)
           u2 == On(MS, u3)
           u1 == On(D, u2)
<1> HIDE DEF y, u1, u2, u3, u4, u5, u6, u7, u8, u9
<1>6. <<>> \in Texts /\ <<>> \o y = y /\ JoinsOn(S, <<>>, y) /\ AppendOn(S, <<>>, E) /\ u9 \in Texts
  BY <1>1, <1>2, <1>5, Empty, TextEmpty, OnText, OnJoin, OnAppend DEF u9
<1>7. JoinsOn(E, u9, y) /\ AppendOn(E, u9, E) /\ u8 \in Texts
  BY <1>1, <1>2, <1>5, <1>6, OnText, OnJoin, OnAppend DEF u8
<1>8. JoinsOn(E, u8, y) /\ AppendOn(E, u8, E) /\ u7 \in Texts
  BY <1>1, <1>2, <1>5, <1>7, OnText, OnJoin, OnAppend DEF u7
<1>9. JoinsOn(MD, u7, y) /\ AppendOn(MD, u7, E) /\ u6 \in Texts
  BY <1>1, <1>2, <1>5, <1>8, OnText, OnJoin, OnAppend DEF u6
<1>10. JoinsOn(E, u6, y) /\ AppendOn(E, u6, E) /\ u5 \in Texts
  BY <1>1, <1>2, <1>5, <1>9, OnText, OnJoin, OnAppend DEF u5
<1>11. JoinsOn(N, u5, y) /\ AppendOn(N, u5, E) /\ u4 \in Texts
  BY <1>1, <1>2, <1>5, <1>10, OnText, OnJoin, OnAppend DEF u4
<1>12. JoinsOn(E, u4, y) /\ AppendOn(E, u4, E) /\ u3 \in Texts
  BY <1>1, <1>2, <1>5, <1>11, OnText, OnJoin, OnAppend DEF u3
<1>13. JoinsOn(MS, u3, y) /\ AppendOn(MS, u3, E) /\ u2 \in Texts
  BY <1>1, <1>2, <1>5, <1>12, OnText, OnJoin, OnAppend DEF u2
<1>14. JoinsOn(D, u2, y) /\ AppendOn(D, u2, E) /\ u1 \in Texts
  BY <1>1, <1>2, <1>5, <1>13, OnText, OnJoin, OnAppend DEF u1
<1>15. Append(u1, E) = t10
  BY Zenon, <1>4, <1>6, <1>7, <1>8, <1>9, <1>10, <1>11, <1>12, <1>13, <1>14
     DEF AppendOn, u1, u2, u3, u4, u5, u6, u7, u8, u9
<1>16. u1 \o y = On(D, On(MS, On(E, On(N, On(E, On(MD, On(E, On(E, On(S, y)))))))))
  BY Zenon, <1>6, <1>7, <1>8, <1>9, <1>10, <1>11, <1>12, <1>13, <1>14
     DEF JoinsOn, u1, u2, u3, u4, u5, u6, u7, u8, u9
<1>17. Glue(Append(u1, <<>>), y) = u1 \o y
  BY <1>5, <1>14, GlueLines
<1>18. u1 \o y = WrkText(b, nm, d)
  BY Zenon, <1>1, <1>16 DEF WrkText, WrkFlag, WrkName, WrkFile, y, N, E, S
<1>19. u1 \o y \in Texts /\ u1 \o y # <<>>
  <2>1. u2 \o y \in Texts
    BY <1>14 DEF JoinsOn
  <2>2. u1 \o y = On(D, u2 \o y)
    BY <1>14 DEF JoinsOn, u1
  <2> QED
    BY <1>1, <2>1, <2>2, OnText
<1>20. WrkBody(r) = u1 \o y
  BY Zenon, <1>3, <1>5, <1>15, <1>17 DEF E
<1> QED
  BY Zenon, <1>18, <1>19, <1>20

-----------------------------------------------------------------------------
(* The body of curl, as it is fetched                                      *)

Size == On(<<"size">>, <<>>)

\* The texts of the first k pieces, each behind its size.
Grows(F, ds) ==
    /\ SubSeq(F, 1, 2 * 0) = <<>> /\ SubSeq(F, 1, 2 * Len(ds)) = F
    /\ \A k \in 0..Len(ds) : SubSeq(F, 1, 2 * k) \in Texts
    /\ \A k \in 1..Len(ds) :
          SubSeq(F, 1, 2 * k) = (SubSeq(F, 1, 2 * (k - 1)) \o Size) \o On(ds[k], <<>>)

LEMMA PiecesGrow ==
    ASSUME NEW F, NEW ds, Pieces(F, ds)
    PROVE  Grows(F, ds)
<1>1. /\ F \in Seq(Line) /\ F \in Texts /\ Len(ds) \in Nat /\ Len(F) = 2 * Len(ds)
      /\ \A i \in 1..Len(ds) : F[2 * i - 1] = <<"size">> /\ F[2 * i] = ds[i] /\ ds[i] \in Line
  BY TextsOfLines, LenProperties DEF Pieces
<1>2. <<"size">> \in Line
  BY WordsAssumption, WordLine DEF Wrapping
<1> DEFINE pre(k) == SubSeq(F, 1, 2 * k)
<1>3. ASSUME NEW k \in 0..Len(ds)
      PROVE  /\ pre(k) \in Seq(Line) /\ Len(pre(k)) = 2 * k /\ \A j \in 1..(2 * k) : pre(k)[j] = F[j]
  <2>1. 2 * k \in 0..Len(F)
    BY <1>1
  <2>2. pre(k) \in Seq(Line) /\ PartOf(pre(k), F, 1, 2 * k)
    BY <1>1, <2>1, PartsMade
  <2> HIDE DEF pre
  <2>3. 2 * k - 1 + 1 = 2 * k /\ \A j \in 1..(2 * k) : 1 + j - 1 = j
    BY <2>1
  <2> QED
    BY <2>2, <2>3 DEF PartOf
<1> HIDE DEF pre
<1>4. pre(0) = <<>>
  <2>1. 0 \in 0..Len(ds) /\ 2 * 0 = 0
    BY <1>1
  <2>2. pre(0) \in Seq(Line) /\ Len(pre(0)) = 0
    BY <1>3, <2>1
  <2> QED
    BY <2>2, EmptySeq
<1>5. pre(Len(ds)) = F
  <2>1. Len(ds) \in 0..Len(ds)
    BY <1>1
  <2>2. /\ pre(Len(ds)) \in Seq(Line) /\ Len(pre(Len(ds))) = Len(F)
        /\ \A j \in 1..Len(F) : pre(Len(ds))[j] = F[j]
    BY <1>1, <1>3, <2>1
  <2> QED
    BY <1>1, <2>2, SeqEqual
<1>6. ASSUME NEW k \in 1..Len(ds) PROVE pre(k) = (pre(k - 1) \o Size) \o On(ds[k], <<>>)
  <2> DEFINE a == pre(k - 1)
             s == <<"size">>
             d == ds[k]
  <2>1. a \in Texts /\ Len(a) = 2 * (k - 1) /\ \A j \in 1..(2 * (k - 1)) : a[j] = F[j]
    <3>1. k - 1 \in 0..Len(ds)
      BY <1>1
    <3> QED
      BY <1>3, <3>1, TextsOfLines
  <2>2. pre(k) \in Texts /\ Len(pre(k)) = 2 * k /\ \A j \in 1..(2 * k) : pre(k)[j] = F[j]
    <3>1. k \in 0..Len(ds)
      BY <1>1
    <3> QED
      BY <1>3, <3>1, TextsOfLines
  <2>3. s \in Line /\ d \in Line
    BY <1>1, <1>2
  <2>4. F[2 * k - 1] = s /\ F[2 * k] = d /\ k \in Nat
    BY <1>1
  <2>5. Size = <<s>> /\ On(d, <<>>) = <<d>>
    <3>1. On(s, <<>>) = <<s>> /\ On(d, <<>>) = <<d>>
      <4> HIDE DEF s, d
      <4> QED
        BY <2>3, OnOne
    <3> QED
      BY <3>1 DEF Size
  <2> HIDE DEF a, s, d
  <2> DEFINE m == a \o <<s>>
             w == m \o <<d>>
  <2>6. a \in Seq(Line) /\ <<s>> \in Seq(Line) /\ <<d>> \in Seq(Line) /\ Len(<<s>>) = 1 /\ Len(<<d>>) = 1
    BY <2>1, <2>3, OneOf, TextsOfLines
  <2>7. m \in Seq(Line) /\ Joined(m, a, <<s>>)
    BY <2>6, SequencesMade
  <2> HIDE DEF m
  <2>8. w \in Seq(Line) /\ Joined(w, m, <<d>>)
    BY <2>6, <2>7, SequencesMade
  <2> HIDE DEF w
  <2>9. Len(m) = 2 * k - 1 /\ (\A j \in 1..(2 * (k - 1)) : m[j] = F[j]) /\ m[2 * k - 1] = s
    <3>1. Len(m) = 2 * (k - 1) + 1 /\ \A j \in 1..(2 * (k - 1) + 1) : m[j] = IF j <= 2 * (k - 1) THEN a[j] ELSE <<s>>[j - 2 * (k - 1)]
      <4>1. Len(a) = 2 * (k - 1) /\ Len(<<s>>) = 1
        BY <2>1, <2>6
      <4>2. /\ Len(m) = Len(a) + Len(<<s>>)
            /\ \A j \in 1..(Len(a) + Len(<<s>>)) : m[j] = IF j <= Len(a) THEN a[j] ELSE <<s>>[j - Len(a)]
        BY <2>7 DEF Joined
      <4> QED
        BY Zenon, <4>1, <4>2
    <3>2. 2 * k - 1 \in 1..(2 * (k - 1) + 1) /\ ~(2 * k - 1 <= 2 * (k - 1)) /\ (2 * k - 1) - 2 * (k - 1) = 1
      BY <2>4
    <3>3. m[2 * k - 1] = s
      <4>1. m[2 * k - 1] = <<s>>[(2 * k - 1) - 2 * (k - 1)]
        BY Zenon, <3>1, <3>2
      <4> QED
        BY <3>2, <4>1
    <3>4. \A j \in 1..(2 * (k - 1)) : m[j] = F[j]
      BY <2>1, <2>4, <3>1
    <3>5. 2 * (k - 1) + 1 = 2 * k - 1
      BY <2>4
    <3> QED
      BY Zenon, <3>1, <3>3, <3>4, <3>5
  <2>10. Len(w) = 2 * k /\ \A j \in 1..(2 * k) : w[j] = F[j]
    <3>1. Len(w) = (2 * k - 1) + 1 /\ \A j \in 1..((2 * k - 1) + 1) : w[j] = IF j <= 2 * k - 1 THEN m[j] ELSE <<d>>[j - (2 * k - 1)]
      BY <2>6, <2>8, <2>9 DEF Joined
    <3>2. ASSUME NEW j \in 1..(2 * k) PROVE w[j] = F[j]
      <4>1. CASE j = 2 * k
        <5>1. j \in 1..((2 * k - 1) + 1) /\ ~(j <= 2 * k - 1) /\ j - (2 * k - 1) = 1
          BY <2>4, <4>1
        <5> QED
          BY <2>4, <3>1, <4>1, <5>1
      <4>2. CASE j = 2 * k - 1
        <5>1. j \in 1..((2 * k - 1) + 1) /\ j <= 2 * k - 1
          BY <2>4, <4>2
        <5> QED
          BY <2>4, <2>9, <3>1, <4>2, <5>1
      <4>3. CASE j \in 1..(2 * (k - 1))
        <5>1. j \in 1..((2 * k - 1) + 1) /\ j <= 2 * k - 1
          BY <2>4, <4>3
        <5> QED
          BY <2>9, <3>1, <4>3, <5>1
      <4> QED
        BY <2>4, <4>1, <4>2, <4>3
    <3> QED
      BY <2>4, <3>1, <3>2
  <2>11. pre(k) \in Seq(Line)
    BY <2>2, TextsOfLines
  <2>12. pre(k) = w
    BY <2>2, <2>8, <2>10, <2>11, SeqEqual
  <2> QED
    BY Zenon, <2>5, <2>12 DEF w, m, a, d
<1>7. \A k \in 0..Len(ds) : pre(k) \in Texts
  BY <1>3, TextsOfLines
<1> QED
  BY Zenon, <1>4, <1>5, <1>6, <1>7 DEF pre, Grows

\* What is there after each chunk, without the line begun.
Fetches(g, cs) ==
    /\ g \in [0..Len(cs) -> Texts] /\ g[0] = <<>>
    /\ \A j \in 1..Len(cs) : g[j] = (g[j - 1] \o Size) \o cs[j]

\* The whole text, with the last size.
FetchedAll(g, cs) == Glue(Append(g[Len(cs)], <<>>), << <<"0">>, <<>> >>)

\* The chunks of curl, one by one.
ChunksOf(cs, h, ps, l) ==
    /\ cs \in Seq(Texts) /\ Len(cs) = Len(ps) + 2 /\ cs[1] = h /\ cs[Len(ps) + 2] = l
    /\ \A k \in 1..Len(ps) : cs[k + 1] = ps[k]

LEMMA ChunksAt ==
    ASSUME NEW h \in Texts, NEW ps \in Seq(Texts), NEW l \in Texts,
           NEW cs, cs = <<h>> \o ps \o <<l>>
    PROVE  ChunksOf(cs, h, ps, l)
<1> DEFINE m == <<h>> \o ps
<1>1. /\ <<h>> \in Seq(Texts) /\ <<l>> \in Seq(Texts) /\ Len(<<h>>) = 1 /\ Len(<<l>>) = 1
      /\ <<h>>[1] = h /\ <<l>>[1] = l /\ Len(ps) \in Nat
  BY OneOf, LenProperties
<1>2. m \in Seq(Texts) /\ Joined(m, <<h>>, ps)
  BY <1>1, SequencesMade
<1>3. cs = m \o <<l>>
  OBVIOUS
<1> HIDE DEF m
<1>4. cs \in Seq(Texts) /\ Joined(cs, m, <<l>>)
  BY <1>1, <1>2, <1>3, SequencesMade
<1>5. Len(m) = Len(ps) + 1 /\ m[1] = h /\ \A k \in 1..Len(ps) : m[k + 1] = ps[k]
  <2>1. Len(m) = 1 + Len(ps) /\ m[1] = h
    BY <1>1, <1>2 DEF Joined
  <2>2. ASSUME NEW k \in 1..Len(ps) PROVE m[k + 1] = ps[k]
    <3>1. k + 1 \in 1..(1 + Len(ps)) /\ ~(k + 1 <= 1) /\ (k + 1) - 1 = k
      BY <1>1
    <3> QED
      BY <1>1, <1>2, <3>1 DEF Joined
  <2> QED
    BY <1>1, <2>1, <2>2
<1>6. /\ Len(cs) = Len(m) + 1 /\ (\A j \in 1..Len(m) : cs[j] = m[j]) /\ cs[Len(m) + 1] = l
  <2>1. Len(m) \in Nat
    BY <1>1, <1>5
  <2>2. Len(m) + 1 \in 1..(Len(m) + 1) /\ ~(Len(m) + 1 <= Len(m)) /\ (Len(m) + 1) - Len(m) = 1
    BY <2>1
  <2> QED
    BY <1>1, <1>4, <2>1, <2>2 DEF Joined
<1>7. 1 \in 1..Len(m) /\ Len(m) + 1 = Len(ps) + 2 /\ \A k \in 1..Len(ps) : k + 1 \in 1..Len(m)
  BY <1>1, <1>5
<1>8. cs[1] = h /\ \A k \in 1..Len(ps) : cs[k + 1] = ps[k]
  BY <1>5, <1>6, <1>7
<1> QED
  BY <1>4, <1>6, <1>7, <1>8 DEF ChunksOf

\* What curl's chunks are, one behind the other.
CurlIs(b, nm, sec, F) ==
    /\ CurlHead(b, nm, sec, <<>>) \in Texts /\ CurlLast(b) \in Texts /\ Size \in Texts
    /\ Size \o (CurlHead(b, nm, sec, <<>>) \o
         (F \o (Size \o (CurlLast(b) \o On(<<"0">>, On(<<>>, <<>>)))))) = CurlText(b, nm, sec, F)
    /\ CurlText(b, nm, sec, F) \in Texts /\ CurlText(b, nm, sec, F) # <<>>

LEMMA CurlJoined ==
    ASSUME NEW b \in Words, NEW nm \in Words, NEW sec \in BOOLEAN, NEW F \in Texts
    PROVE  CurlIs(b, nm, sec, F)
<1> DEFINE M == <<"FileData", "filename">>
           T == <<"type">>
           E == <<>>
           S == <<"size">>
           Z == <<"--">> \o (<<b>> \o <<"--">>)
           D == <<"--">> \o (<<b>> \o <<>>)
           O == On(<<"0">>, On(<<>>, <<>>))
<1>1. M \in Line /\ T \in Line /\ E \in Line /\ S \in Line /\ Z \in Line /\ D \in Line /\ <<"0">> \in Line
  <2> DEFINE w == "--"
             fd == "FileData"
             fn == "filename"
  <2>1. w \in Words /\ fd \in Words /\ fn \in Words /\ "type" \in Words /\ "size" \in Words /\ "0" \in Words
    BY WordsAssumption DEF Markers, Wrapping
  <2> HIDE DEF w, fd, fn
  <2>2. WordsJoined(w, b, w, b) /\ WordsJoined(fd, fn, b, b)
    BY <2>1, WordsJoin
  <2>3. Z \in Line /\ D \in Line /\ M \in Line
    BY Zenon, <2>2 DEF w, fd, fn, WordsJoined
  <2> QED
    BY <2>1, <2>3, WordLine, Empty
<1> HIDE DEF M, T, E, S, Z, D
<1>2. O \in Texts /\ <<>> \in Texts /\ Size \in Texts
  <2>1. Size = On(S, <<>>)
    BY DEF Size, S
  <2> QED
    BY <1>1, <2>1, Empty, OnText
<1> HIDE DEF O
<1>3. CurlLast(b) \in Texts /\ CurlLast(b) \o O = CurlTail(b) /\ CurlTail(b) \in Texts
  <2> DEFINE v == On(E, <<>>)
             u == On(Z, v)
             t == On(E, u)
  <2>1. v \in Texts /\ JoinsOn(E, <<>>, O) /\ <<>> \o O = O
    BY <1>1, <1>2, OnText, OnJoin, TextEmpty
  <2> HIDE DEF v
  <2>2. u \in Texts /\ JoinsOn(Z, v, O)
    BY <1>1, <1>2, <2>1, OnText, OnJoin
  <2> HIDE DEF u
  <2>3. t \in Texts /\ JoinsOn(E, u, O)
    BY <1>1, <1>2, <2>2, OnText, OnJoin
  <2>4. t \o O = On(E, On(Z, On(E, O)))
    BY Zenon, <2>1, <2>2, <2>3 DEF JoinsOn, t, u, v
  <2>5. CurlLast(b) = t /\ CurlTail(b) = On(E, On(Z, On(E, O)))
    BY Zenon DEF CurlLast, CurlTail, t, u, v, E, Z, O
  <2>6. On(E, On(Z, On(E, O))) \in Texts
    BY <1>1, <1>2, OnText
  <2> QED
    BY Zenon, <2>3, <2>4, <2>5, <2>6
<1> DEFINE Y == F \o (Size \o CurlTail(b))
           head == CurlHead(b, nm, sec, <<>>)
<1>4. Size \o CurlTail(b) = On(S, CurlTail(b)) /\ Y \in Texts
  <2>1. JoinsOn(S, <<>>, CurlTail(b)) /\ <<>> \o CurlTail(b) = CurlTail(b)
    BY <1>1, <1>2, <1>3, OnJoin, TextEmpty
  <2>2. Size \o CurlTail(b) = On(S, CurlTail(b))
    BY Zenon, <2>1 DEF JoinsOn, Size, S
  <2>3. On(S, CurlTail(b)) \in Texts
    BY <1>1, <1>3, OnText
  <2> QED
    BY <2>2, <2>3, TextJoin
<1>5. Y = F \o On(S, CurlTail(b))
  BY Zenon, <1>4
<1> HIDE DEF Y
<1>6. head \in Texts /\ head \o Y = CurlFields(b, nm, sec, CurlBound(b, CurlData(b, F)))
  <2> DEFINE u1 == On(E, <<>>)
             u2 == On(E, u1)
             u3 == On(T, u2)
             u4 == On(M, u3)
             u5 == On(D, u4)
  <2>1. u1 \in Texts /\ JoinsOn(E, <<>>, Y) /\ <<>> \o Y = Y
    BY <1>1, <1>2, <1>4, OnText, OnJoin, TextEmpty
  <2> HIDE DEF u1
  <2>2. u2 \in Texts /\ JoinsOn(E, u1, Y)
    BY <1>1, <1>4, <2>1, OnText, OnJoin
  <2> HIDE DEF u2
  <2>3. u3 \in Texts /\ JoinsOn(T, u2, Y)
    BY <1>1, <1>4, <2>2, OnText, OnJoin
  <2> HIDE DEF u3
  <2>4. u4 \in Texts /\ JoinsOn(M, u3, Y)
    BY <1>1, <1>4, <2>3, OnText, OnJoin
  <2> HIDE DEF u4
  <2>5. u5 \in Texts /\ JoinsOn(D, u4, Y)
    BY <1>1, <1>4, <2>4, OnText, OnJoin
  <2>6. u5 \o Y = On(D, On(M, On(T, On(E, On(E, Y)))))
    BY Zenon, <2>1, <2>2, <2>3, <2>4, <2>5 DEF JoinsOn, u1, u2, u3, u4, u5
  <2>7. CurlBound(b, CurlData(b, F)) = On(D, On(M, On(T, On(E, On(E, Y)))))
    BY Zenon, <1>5 DEF CurlBound, CurlData, CurlFile, D, M, T, E, S
  <2>8. head = CurlFields(b, nm, sec, u5)
    BY Zenon DEF CurlHead, CurlBound, D, M, T, E, u1, u2, u3, u4, u5
  <2> HIDE DEF u5
  <2>9. FieldsJoin(b, nm, sec, u5, Y)
    BY <1>4, <2>5, FieldsTyped
  <2> QED
    BY Zenon, <2>6, <2>7, <2>8, <2>9 DEF FieldsJoin
<1>7. head \o Y \in Texts
  BY <1>4, <1>6, TextJoin
<1>8. Size \o (head \o Y) = CurlText(b, nm, sec, F)
  <2>1. CurlFields(b, nm, sec, CurlBound(b, CurlData(b, F))) = CurlBound(b, CurlName(b, nm, sec, F))
    <3>1. CASE sec
      BY Zenon, <3>1 DEF CurlFields, CurlName, CurlFlag
    <3>2. CASE ~sec
      BY Zenon, <3>2 DEF CurlFields, CurlName, CurlFlag
    <3> QED
      BY <3>1, <3>2
  <2>2. JoinsOn(S, <<>>, head \o Y) /\ <<>> \o (head \o Y) = head \o Y
    <3> HIDE DEF head
    <3> QED
      BY <1>1, <1>2, <1>7, OnJoin, TextEmpty
  <2>3. Size \o (head \o Y) = On(S, head \o Y)
    BY Zenon, <2>2 DEF JoinsOn, Size, S
  <2> QED
    BY Zenon, <1>6, <2>1, <2>3 DEF CurlText, S
<1>9. CurlText(b, nm, sec, F) \in Texts /\ CurlText(b, nm, sec, F) # <<>>
  <2>1. CurlText(b, nm, sec, F) = On(S, CurlBound(b, CurlName(b, nm, sec, F)))
    BY DEF CurlText, S
  <2>2. CurlBound(b, CurlName(b, nm, sec, F)) = head \o Y
    <3>1. CASE sec
      BY Zenon, <1>6, <3>1 DEF CurlFields, CurlName, CurlFlag
    <3>2. CASE ~sec
      BY Zenon, <1>6, <3>2 DEF CurlFields, CurlName, CurlFlag
    <3> QED
      BY <3>1, <3>2
  <2> HIDE DEF head
  <2> QED
    BY <1>1, <1>7, <2>1, <2>2, OnText
<1> QED
  BY Zenon, <1>2, <1>3, <1>6, <1>8, <1>9 DEF Y, O, CurlIs

\* The pieces of a file are lines.
LinesOf(ps, ds) ==
    /\ ps \in Seq(Texts) /\ Len(ps) = Len(ds)
    /\ \A i \in 1..Len(ds) : ps[i] = <<ds[i]>>

\* The chunks make curl's text.
CurlFetched(b, nm, sec, F, cs) ==
    /\ cs \in Seq(Texts)
    /\ \E g : Fetches(g, cs) /\ FetchedAll(g, cs) = CurlText(b, nm, sec, F)

LEMMA CurlFetches ==
    ASSUME NEW b \in Words, NEW nm \in Words, NEW sec \in BOOLEAN, NEW F, NEW ds, Pieces(F, ds),
           NEW ps, LinesOf(ps, ds),
           NEW cs, cs = <<CurlHead(b, nm, sec, <<>>)>> \o ps \o <<CurlLast(b)>>
    PROVE  CurlFetched(b, nm, sec, F, cs)
<1> DEFINE h == CurlHead(b, nm, sec, <<>>)
           l == CurlLast(b)
           O == On(<<"0">>, On(<<>>, <<>>))
           t == CurlText(b, nm, sec, F)
           S == Size
           n == Len(ds)
           pre(k) == SubSeq(F, 1, 2 * k)
<1>1. /\ F \in Texts /\ n \in Nat /\ ds \in Seq(Line) /\ \A i \in 1..n : ds[i] \in Line
      /\ ps \in Seq(Texts) /\ Len(ps) = n /\ \A i \in 1..n : ps[i] = <<ds[i]>>
  BY LenProperties DEF Pieces, LinesOf
<1>2. h \in Texts /\ l \in Texts /\ S \in Texts /\ S \o (h \o (F \o (S \o (l \o O)))) = t
  <2>1. CurlIs(b, nm, sec, F)
    BY <1>1, CurlJoined
  <2> QED
    BY Zenon, <2>1 DEF CurlIs
<1>3. O \in Texts /\ O # <<>> /\ << <<"0">>, <<>> >> = O
  <2> DEFINE z == <<"0">>
             e == <<>>
  <2>1. z \in Line /\ e \in Line /\ e \in Texts
    BY WordsAssumption, WordLine, Empty DEF Wrapping
  <2> HIDE DEF z, e
  <2>2. <<z, e>> = On(z, <<e>>) /\ <<e>> = On(e, <<>>)
    BY <2>1, OnOne, OnTwo
  <2>3. On(e, <<>>) \in Texts
    BY <2>1, Empty, OnText
  <2>4. On(z, On(e, <<>>)) \in Texts /\ On(z, On(e, <<>>)) # <<>>
    BY <2>1, <2>3, OnText
  <2> QED
    BY Zenon, <2>2, <2>4 DEF z, e
<1>4. /\ pre(0) = <<>> /\ pre(n) = F /\ \A k \in 0..n : pre(k) \in Texts
      /\ \A k \in 1..n : pre(k) = (pre(k - 1) \o S) \o On(ds[k], <<>>)
  <2>1. Grows(F, ds)
    BY PiecesGrow
  <2> QED
    BY Zenon, <2>1 DEF Grows
<1>5. /\ cs \in Seq(Texts) /\ Len(cs) = n + 2 /\ cs[1] = h /\ cs[n + 2] = l
      /\ \A k \in 1..n : cs[k + 1] = ps[k]
  <2> HIDE DEF h, l
  <2>1. cs = <<h>> \o ps \o <<l>>
    BY Zenon DEF h, l
  <2>2. ChunksOf(cs, h, ps, l)
    BY <1>1, <1>2, <2>1, ChunksAt
  <2> QED
    BY Zenon, <1>1, <2>2 DEF ChunksOf
<1> HIDE DEF h, l, O, t, S, n, pre
<1> DEFINE H == S \o h
           a == H \o F
           c == a \o S
           d == c \o l
<1>6. /\ H \in Texts /\ a \in Texts /\ c \in Texts /\ d \in Texts
      /\ l \o O \in Texts /\ S \o (l \o O) \in Texts /\ F \o (S \o (l \o O)) \in Texts
  BY <1>1, <1>2, <1>3, TextJoin
<1> DEFINE lo == l \o O
           slo == S \o lo
           fslo == F \o slo
<1>7. d \o O = t
  <2>1. /\ AnyGroups(c, l, O) /\ AnyGroups(a, S, lo) /\ AnyGroups(H, F, slo) /\ AnyGroups(S, h, fslo)
    BY <1>1, <1>2, <1>3, <1>6, Grouped
  <2> QED
    BY Zenon, <1>2, <2>1 DEF AnyGroups
<1> HIDE DEF H, a, c, d
<1> DEFINE g == [j \in 0..(n + 2) |-> IF j = 0 THEN <<>> ELSE IF j = n + 2 THEN d ELSE H \o pre(j - 1)]
<1>8. /\ g \in [0..(n + 2) -> Texts] /\ g[0] = <<>> /\ g[n + 2] = d
      /\ \A k \in 0..n : g[k + 1] = H \o pre(k)
  <2>1. \A k \in 0..n : H \o pre(k) \in Texts
    BY <1>4, <1>6, TextJoin
  <2>2. <<>> \in Texts
    BY Empty
  <2>3. ASSUME NEW j \in 0..(n + 2), j # 0, j # n + 2 PROVE j - 1 \in 0..n
    BY <1>1, <2>3
  <2>4. \A j \in 0..(n + 2) : (IF j = 0 THEN <<>> ELSE IF j = n + 2 THEN d ELSE H \o pre(j - 1)) \in Texts
    BY <1>6, <2>1, <2>2, <2>3
  <2>5. 0 \in 0..(n + 2) /\ n + 2 \in 0..(n + 2) /\ n + 2 # 0
    BY <1>1
  <2>6. ASSUME NEW k \in 0..n PROVE g[k + 1] = H \o pre(k)
    <3>1. k + 1 \in 0..(n + 2) /\ k + 1 # 0 /\ k + 1 # n + 2 /\ (k + 1) - 1 = k
      BY <1>1
    <3> QED
      BY <3>1
  <2> QED
    BY <2>4, <2>5, <2>6
<1> HIDE DEF g
<1>9. H \o <<>> = H /\ <<>> \o S = S
  BY <1>2, <1>6, TextEmpty
<1>10. ASSUME NEW j \in 1..(n + 2) PROVE g[j] = (g[j - 1] \o S) \o cs[j]
  <2>1. CASE j = 1
    <3>1. 0 \in 0..n /\ 0 + 1 = 1 /\ 1 - 1 = 0
      BY <1>1
    <3>2. g[1] = H \o pre(0)
      BY <1>8, <3>1
    <3>3. g[1] = H /\ g[0] \o S = S
      BY Zenon, <1>4, <1>8, <1>9, <3>2
    <3> QED
      BY Zenon, <1>5, <2>1, <3>1, <3>3 DEF H
  <2>2. CASE j = n + 2
    <3>1. n \in 0..n /\ j - 1 = n + 1
      BY <1>1, <2>2
    <3>2. g[n + 1] = H \o pre(n)
      BY <1>8, <3>1
    <3> QED
      BY Zenon, <1>4, <1>5, <1>8, <2>2, <3>1, <3>2 DEF d, c, a
  <2>3. CASE j # 1 /\ j # n + 2
    <3> DEFINE k == j - 1
               p == pre(k - 1)
               od == On(ds[k], <<>>)
               ps1 == p \o S
    <3>1. k \in 1..n /\ k \in 0..n /\ k - 1 \in 0..n /\ k + 1 = j /\ (k - 1) + 1 = j - 1
      BY <1>1, <2>3
    <3> HIDE DEF k
    <3>2. g[j] = H \o pre(k) /\ g[j - 1] = H \o p
      <4>1. g[k + 1] = H \o pre(k) /\ g[(k - 1) + 1] = H \o pre(k - 1)
        BY Zenon, <1>8, <3>1
      <4> QED
        BY Zenon, <3>1, <4>1
    <3>3. cs[j] = od /\ od \in Texts
      <4>1. cs[k + 1] = ps[k] /\ ps[k] = <<ds[k]>> /\ ds[k] \in Line
        BY <1>1, <1>5, <3>1 DEF n
      <4>2. <<ds[k]>> = od
        BY <4>1, OnOne
      <4>3. <<ds[k]>> \in Texts
        BY <4>1, LineText
      <4> QED
        BY Zenon, <3>1, <4>1, <4>2, <4>3
    <3>4. pre(k) = ps1 \o od /\ p \in Texts
      BY <1>4, <3>1
    <3> HIDE DEF p, od
    <3>5. ps1 \in Texts
      BY <1>2, <3>4, TextJoin
    <3>6. AnyGroups(H, p, S) /\ AnyGroups(H, ps1, od)
      BY <1>2, <1>6, <3>3, <3>4, <3>5, Grouped
    <3> QED
      BY Zenon, <3>2, <3>3, <3>4, <3>6 DEF AnyGroups
  <2> QED
    BY <2>1, <2>2, <2>3
<1>11. Fetches(g, cs)
  BY <1>5, <1>8, <1>10 DEF Fetches, S
<1>12. FetchedAll(g, cs) = t
  <2>1. Glue(Append(d, <<>>), O) = d \o O
    BY <1>3, <1>6, GlueLines
  <2> QED
    BY Zenon, <1>3, <1>5, <1>7, <1>8, <2>1 DEF FetchedAll
<1> QED
  BY <1>5, <1>11, <1>12 DEF n, t, CurlFetched

-----------------------------------------------------------------------------
(* Requests of line files                                                  *)

LEMMA LinesSized ==
    ASSUME NEW S, S \subseteq Words, NEW ds \in Seq(Seq(S)), \A i \in 1..Len(ds) : ds[i] # <<>>,
           <<"size">> \in Seq(S)
    PROVE  \E F \in Seq(Seq(S)) : Pieces(F, ds)
<1> DEFINE n == Len(ds)
           z == <<"size">>
           F == [i \in 1..(2 * n) |-> IF i % 2 = 0 THEN ds[i \div 2] ELSE z]
<1>1. n \in Nat /\ (\A i \in 1..n : ds[i] \in Seq(S)) /\ 2 * n \in Nat
  BY LenProperties
<1> HIDE DEF z, n
<1>2. ASSUME NEW i \in 1..(2 * n) PROVE F[i] \in Seq(S)
  <2>1. i % 2 = 0 => i \div 2 \in 1..n
    BY <1>1
  <2>2. z \in Seq(S)
    BY DEF z
  <2> QED
    BY <1>1, <2>1, <2>2
<1>3. F \in Seq(Seq(S)) /\ Len(F) = 2 * n
  <2>1. F \in [1..(2 * n) -> Seq(S)]
    BY <1>2
  <2> HIDE DEF F
  <2> QED
    BY <1>1, <2>1, LenProperties
<1>4. ASSUME NEW i \in 1..n PROVE F[2 * i - 1] = z /\ F[2 * i] = ds[i]
  <2>1. /\ 2 * i - 1 \in 1..(2 * n) /\ 2 * i \in 1..(2 * n)
        /\ (2 * i - 1) % 2 # 0 /\ (2 * i) % 2 = 0 /\ (2 * i) \div 2 = i
    BY <1>1
  <2> QED
    BY <2>1
<1> HIDE DEF F
<1>5. F \in Texts /\ ds \in Seq(Line)
  <2>1. Seq(S) \subseteq Line
    BY DEF Line
  <2>2. Seq(Seq(S)) \subseteq Seq(Line)
    BY <2>1
  <2> QED
    BY <1>3, <2>2, TextsOfLines
<1> QED
  BY <1>3, <1>4, <1>5 DEF Pieces, n, z

\* What a line file has: its lines, each behind its size, and put together.
FileOf(r, B, ds, F, w) ==
    /\ LinesOf(r.pieces, ds) /\ Pieces(F, ds) /\ Free(F, Markers \cup B)
    /\ Sums(w, ds, Words) /\ Plain(w[Len(ds)], B)
LEMMA LineFileIs ==
    ASSUME NEW sent, AreLineFiles(sent), NEW r \in sent, NEW B, B = {x.boundary : x \in sent}
    PROVE  Fit(r.boundary, r.name, B) /\ \E ds, F, w : FileOf(r, B, ds, F, w)
<1> DEFINE S == Words \ (Markers \cup B)
<1>1. LineFile(r, B) /\ B \subseteq Words /\ B \cap (Markers \cup Wrapping) = {} /\ r.boundary \in B
  BY DEF AreLineFiles
<1>2. Fit(r.boundary, r.name, B)
  BY <1>1 DEF Fit, LineFile
<1>3. /\ r.pieces \in Seq(Texts)
      /\ \A i \in DOMAIN r.pieces : Len(r.pieces[i]) = 1 /\ r.pieces[i][1] \in Seq(S) /\ r.pieces[i][1] # <<>>
  BY <1>1 DEF LineFile, Texts
<1>4. <<"size">> \in Seq(S)
  BY <1>2, LinesAreFree DEF LinesFree, Plain, LineFree
<1> HIDE DEF S
<1> DEFINE ps == r.pieces
           n == Len(ps)
           ds == [i \in 1..n |-> ps[i][1]]
<1> HIDE DEF ps
<1>5. /\ ps \in Seq(Texts) /\ n \in Nat /\ DOMAIN ps = 1..n
      /\ \A i \in 1..n : Len(ps[i]) = 1 /\ ps[i][1] \in Seq(S) /\ ps[i][1] # <<>> /\ ps[i] \in Texts
  <2>1. ps \in Seq(Texts) /\ \A i \in DOMAIN ps : Len(ps[i]) = 1 /\ ps[i][1] \in Seq(S) /\ ps[i][1] # <<>>
    BY Zenon, <1>3 DEF ps
  <2> QED
    BY <2>1, LenProperties
<1>6. ds \in Seq(Seq(S)) /\ Len(ds) = n /\ \A i \in 1..n : ds[i] = ps[i][1]
  <2>1. ds \in [1..n -> Seq(S)] /\ \A i \in 1..n : ds[i] = ps[i][1]
    BY <1>5
  <2> HIDE DEF ds
  <2> QED
    BY <1>5, <2>1, LenProperties
<1> HIDE DEF ds
<1>7. ASSUME NEW i \in 1..n PROVE ps[i] = <<ds[i]>>
  <2> DEFINE p == ps[i]
             e == ds[i]
  <2>1. p \in Seq(Line) /\ Len(p) = 1 /\ p[1] = e
    BY <1>5, <1>6, TextsOfLines
  <2> HIDE DEF p, e
  <2>2. p = <<e>>
    BY <2>1
  <2> QED
    BY Zenon, <2>2 DEF p, e
<1>8. LinesOf(r.pieces, ds)
  BY <1>5, <1>6, <1>7 DEF LinesOf, ps
<1>9. S \subseteq Words
  BY DEF S
<1>10. \E F \in Seq(Seq(S)) : Pieces(F, ds)
  <2>1. \A i \in 1..Len(ds) : ds[i] # <<>>
    BY <1>5, <1>6
  <2> QED
    BY <1>4, <1>6, <1>9, <2>1, LinesSized
<1>11. PICK F \in Seq(Seq(S)) : Pieces(F, ds)
  BY Zenon, <1>10
<1>12. \E w : Sums(w, ds, S)
  BY <1>6, SumsExist
<1>13. PICK w : Sums(w, ds, S)
  BY Zenon, <1>12
<1>14. w \in [0..Len(ds) -> Seq(S)] /\ Len(ds) \in Nat
  BY <1>5, <1>6, <1>13 DEF Sums
<1>15. Sums(w, ds, Words)
  <2>1. Seq(S) \subseteq Seq(Words)
    BY <1>9
  <2>2. w \in [0..Len(ds) -> Seq(Words)]
    BY <1>14, <2>1
  <2> QED
    BY <1>13, <2>2 DEF Sums
<1>16. w[Len(ds)] \in Seq(S)
  BY <1>14
<1>17. FileOf(r, B, ds, F, w)
  BY <1>8, <1>11, <1>15, <1>16 DEF FileOf, S, Free, Plain, LineFree
<1> QED
  BY Zenon, <1>2, <1>17

\* The parse makes of what is fetched what was sent.
Sound(q, B) ==
    /\ q.boundary \in B /\ B \subseteq Words /\ B \cap (Markers \cup Wrapping) = {}
    /\ \E d \in Line : q.data = <<d>> /\ ~Contains(d, "NUL")
    /\ q.client = "curl" =>
          /\ q.chunks \in Seq(Texts)
          /\ \E g, P : Fetches(g, q.chunks) /\ CutsAll(q, B, FetchedAll(g, q.chunks), P)
    /\ q.client # "curl" =>
          \E t, P : t \in Texts /\ t # <<>> /\ q.chunks = <<t>> /\ CutsAll(q, B, t, P)
LEMMA RequestSound ==
    ASSUME NEW sent, AreLineFiles(sent), NEW r \in sent, NEW B, B = {x.boundary : x \in sent}
    PROVE  Sound(Request(r), B)
<1> DEFINE b == r.boundary
           nm == r.name
           q == Request(r)
           sec == r.client = "wrk" \/ Contains(r.before \o r.later, "Secured")
<1>1. Fit(b, nm, B) /\ \E ds, F, w : FileOf(r, B, ds, F, w)
  BY LineFileIs
<1>2. PICK ds, F, w : FileOf(r, B, ds, F, w)
  BY Zenon, <1>1
<1>3. /\ LinesOf(r.pieces, ds) /\ Pieces(F, ds) /\ Free(F, Markers \cup B)
      /\ Sums(w, ds, Words) /\ Plain(w[Len(ds)], B)
  BY Zenon, <1>2 DEF FileOf
<1> DEFINE d == w[Len(ds)]
<1>4. d \in Line /\ ~Contains(d, "NUL")
  <2>1. LineFree(d, Markers \cup B) /\ "NUL" \in Markers \cup B
    BY <1>3 DEF Plain, Markers
  <2> HIDE DEF d
  <2> QED
    BY <2>1, FreeTyped, FreeHas
<1>5. b \in Words /\ nm \in Words /\ b \in B /\ ds \in Seq(Line) /\ sec \in BOOLEAN
  BY <1>1, <1>3 DEF Fit, Pieces
<1>6. GlueAll(r.pieces) = <<d>>
  BY <1>3, <1>5, GluedLines DEF LinesOf
<1>7. LineFile(r, B)
  BY DEF AreLineFiles
<1>8. /\ q.client = r.client /\ q.boundary = b /\ q.name = <<nm>> /\ q.secured = sec
      /\ q.data = GlueAll(r.pieces)
  BY DEF Request
<1> HIDE DEF d
<1>9. Sends(q, b, nm, sec, d)
  BY <1>6, <1>8 DEF Sends
<1>10. ASSUME r.client = "curl"
       PROVE  /\ q.chunks \in Seq(Texts)
              /\ \E g, P : Fetches(g, q.chunks) /\ CutsAll(q, B, FetchedAll(g, q.chunks), P)
  <2>1. q.chunks = CurlChunks(r)
    BY <1>10 DEF Request
  <2>2. r.later = <<>> /\ r.before = (IF sec THEN <<"FileName", "Secured">> ELSE <<"FileName">>)
    <3>1. r.later = <<>> /\ (r.before = <<"FileName">> \/ r.before = <<"FileName", "Secured">>)
      BY <1>7, <1>10 DEF LineFile
    <3>2. <<"FileName">> \o <<>> = <<"FileName">> /\ <<"FileName", "Secured">> \o <<>> = <<"FileName", "Secured">>
      BY ConcatEmptySeq
    <3>3. ~Contains(<<"FileName">>, "Secured") /\ Contains(<<"FileName", "Secured">>, "Secured")
      BY DEF Contains
    <3> QED
      BY <1>10, <3>1, <3>2, <3>3
  <2> HIDE DEF sec, q
  <2>3. CurlChunks(r) = <<CurlHead(b, nm, sec, <<>>)>> \o r.pieces \o <<CurlLast(b)>>
    BY <1>5, <2>2, CurlChunksAre
  <2> DEFINE cs == CurlChunks(r)
             ps == r.pieces
  <2> HIDE DEF cs, ps
  <2>4. cs = <<CurlHead(b, nm, sec, <<>>)>> \o ps \o <<CurlLast(b)>> /\ LinesOf(ps, ds)
    BY Zenon, <1>3, <2>3 DEF cs, ps
  <2>5. CurlFetched(b, nm, sec, F, cs)
    BY <1>3, <1>5, <2>4, CurlFetches
  <2>6. PICK g : Fetches(g, cs) /\ FetchedAll(g, cs) = CurlText(b, nm, sec, F)
    BY Zenon, <2>5 DEF CurlFetched
  <2>7. \E P : CutsAll(q, B, CurlText(b, nm, sec, F), P)
    <3>1. d = w[Len(ds)] /\ Plain(d, B)
      BY Zenon, <1>3 DEF d
    <3> QED
      BY <1>1, <1>3, <1>5, <1>9, <3>1, CurlCuts
  <2>8. PICK P : CutsAll(q, B, CurlText(b, nm, sec, F), P)
    BY Zenon, <2>7
  <2>9. cs \in Seq(Texts) /\ q.chunks = cs
    BY Zenon, <2>1, <2>5 DEF CurlFetched, cs
  <2> QED
    BY Zenon, <2>6, <2>8, <2>9
<1>11. ASSUME r.client # "curl"
       PROVE  \E t, P : t \in Texts /\ t # <<>> /\ q.chunks = <<t>> /\ CutsAll(q, B, t, P)
  <2>1. r.client = "wrk" /\ q.chunks = <<WrkBody(r)>> /\ sec
    BY <1>7, <1>11 DEF Request, LineFile
  <2>2. WrkBody(r) = WrkText(b, nm, d) /\ WrkText(b, nm, d) \in Texts /\ WrkText(b, nm, d) # <<>>
    BY <1>4, <1>5, <1>6, WrkBodyIs
  <2>3. \E P : CutsAll(q, B, WrkText(b, nm, d), P)
    <3>1. Sends(q, b, nm, TRUE, d) /\ q.client # "curl" /\ Plain(d, B)
      BY <1>3, <1>8, <1>9, <1>11, <2>1 DEF d
    <3> HIDE DEF q, b, nm
    <3> QED
      BY <1>1, <3>1, WrkCuts
  <2> QED
    BY Zenon, <2>1, <2>2, <2>3
<1> HIDE DEF q
<1>12. /\ q.client = r.client /\ q.boundary \in B /\ q.data = <<d>>
       /\ B \subseteq Words /\ B \cap (Markers \cup Wrapping) = {}
  BY Zenon, <1>1, <1>5, <1>6, <1>8 DEF Fit
<1>13. Sound(q, B)
  BY Zenon, <1>4, <1>10, <1>11, <1>12 DEF Sound
<1> QED
  BY Zenon, <1>13 DEF q

-----------------------------------------------------------------------------
(* Erasing the beginning of a text                                         *)

\* A sequence is what is before an element of it, that, and what is behind.
LEMMA SplitAt ==
    ASSUME NEW S, NEW s \in Seq(S), NEW i \in DOMAIN s
    PROVE  /\ SubSeq(s, 1, i - 1) \in Seq(S) /\ SubSeq(s, i + 1, Len(s)) \in Seq(S) /\ s[i] \in S
           /\ s = SubSeq(s, 1, i - 1) \o (<<s[i]>> \o SubSeq(s, i + 1, Len(s)))
           /\ \A j \in DOMAIN SubSeq(s, 1, i - 1) : j \in DOMAIN s /\ j < i /\ SubSeq(s, 1, i - 1)[j] = s[j]
<1> DEFINE a == SubSeq(s, 1, i - 1)
           b == SubSeq(s, i + 1, Len(s))
           n == Len(s)
           e == s[i]
<1>1. n \in Nat /\ i \in 1..n /\ DOMAIN s = 1..n /\ e \in S /\ i - 1 \in 0..n /\ i \in 0..n
  BY LenProperties
<1>2. /\ a \in Seq(S) /\ PartOf(a, s, 1, i - 1) /\ b \in Seq(S) /\ PartOf(b, s, i + 1, n)
  BY <1>1, PartsMade
<1> HIDE DEF a, b, n, e
<1>3. a \o <<e>> \o b \in Seq(S) /\ Bridged(a \o <<e>> \o b, a, e, b)
  BY <1>1, <1>2, BridgeMade
<1>4. a \o <<e>> \o b = a \o (<<e>> \o b)
  <2>1. <<e>> \in Seq(S)
    BY <1>1, OneOf
  <2> QED
    BY <1>2, <2>1, ConcatAssociative
<1> DEFINE t == a \o (<<e>> \o b)
<1>5. t \in Seq(S) /\ Bridged(t, a, e, b)
  BY <1>3, <1>4
<1> HIDE DEF t
<1>6. Len(a) = i - 1 /\ Len(b) = n - i /\ Len(t) = n
  <2>1. Len(a) = (i - 1) - 1 + 1 /\ Len(b) = n - (i + 1) + 1
    BY <1>2 DEF PartOf
  <2>2. Len(t) = Len(a) + 1 + Len(b)
    BY <1>5 DEF Bridged
  <2>3. Len(a) = i - 1 /\ Len(b) = n - i
    BY <1>1, <2>1
  <2> QED
    BY <1>1, <2>2, <2>3
<1>7. ASSUME NEW j \in 1..n PROVE t[j] = s[j]
  <2>1. CASE j < i
    <3>1. j \in 1..Len(a) /\ j \in 1..((i - 1) - 1 + 1) /\ 1 + j - 1 = j
      BY <1>1, <1>6, <2>1
    <3> QED
      BY <1>2, <1>5, <3>1 DEF PartOf, Bridged
  <2>2. CASE j = i
    <3>1. Len(a) + 1 = i
      BY <1>1, <1>6
    <3> QED
      BY <1>5, <2>2, <3>1 DEF Bridged, e
  <2>3. CASE j > i
    <3> DEFINE d == j - i
    <3>1. d \in 1..(n - i) /\ d \in 1..(n - (i + 1) + 1) /\ i + d = j /\ i + 1 + d - 1 = j
      BY <1>1, <2>3
    <3> HIDE DEF d
    <3>2. d \in 1..Len(b) /\ Len(a) + 1 + d = j
      BY <1>1, <1>6, <3>1
    <3>3. t[j] = b[d]
      BY <1>5, <3>2 DEF Bridged
    <3>4. b[d] = s[j]
      BY <1>2, <3>1 DEF PartOf
    <3> QED
      BY <3>3, <3>4
  <2> QED
    BY <1>1, <2>1, <2>2, <2>3
<1>8. s = t
  BY <1>5, <1>6, <1>7, SeqEqual DEF n
<1>9. ASSUME NEW j \in DOMAIN a PROVE j \in DOMAIN s /\ j < i /\ a[j] = s[j]
  <2>1. j \in 1..(i - 1)
    BY <1>2, <1>6
  <2>2. j \in 1..n /\ j < i /\ j \in 1..((i - 1) - 1 + 1) /\ 1 + j - 1 = j
    BY <1>1, <2>1
  <2> QED
    BY <1>1, <1>2, <2>2 DEF PartOf
<1> QED
  BY <1>1, <1>2, <1>8, <1>9 DEF a, b, n, e, t

\* The first m in a text: the line it is in and its place there.
FirstAt(t, m, k, j) ==
    /\ k \in DOMAIN t /\ t[k] \in Line /\ k \in Nat
    /\ j \in DOMAIN t[k] /\ t[k][j] = m
    /\ \A i \in DOMAIN t : Contains(t[i], m) => k <= i
    /\ \A i \in DOMAIN t[k] : t[k][i] = m => j <= i

LEMMA FoundAt ==
    ASSUME NEW t \in Texts, NEW m \in Words, Has(t, m)
    PROVE  FirstAt(t, m, LineOf(t, m), Place(t[LineOf(t, m)], m))
<1> DEFINE T == {i \in DOMAIN t : Contains(t[i], m)}
           k == LineOf(t, m)
           l == t[k]
           U == {j \in DOMAIN l : l[j] = m}
           j == Place(l, m)
<1>0. t \in Seq(Line)
  BY TextsOfLines
<1>1. k \in T /\ \A i \in T : k <= i
  <2>1. T \subseteq Nat /\ T # {}
    BY <1>0, LenProperties DEF Has
  <2>2. PICK x \in T : \A y \in T : x <= y
    <3> HIDE DEF T
    <3> QED
      BY <2>1, LeastNumber
  <2>3. Min(T) = x
    <3> HIDE DEF T
    <3> QED
      BY <2>1, <2>2, MinIs
  <2> QED
    BY <2>2, <2>3 DEF LineOf
<1>2. k \in DOMAIN t /\ l \in Line /\ Contains(l, m) /\ k \in Nat
  <2>1. k \in DOMAIN t /\ Contains(t[k], m)
    BY <1>1
  <2> HIDE DEF k
  <2> QED
    BY <1>0, <2>1, LenProperties
<1> HIDE DEF k
<1>3. j \in U /\ \A i \in U : j <= i
  <2>0. l \in Seq(Words) /\ DOMAIN l = 1..Len(l) /\ Len(l) \in Nat
    BY <1>2, LenProperties DEF Line
  <2>1. U \subseteq Nat /\ U # {}
    BY <1>2, <2>0 DEF Contains
  <2>2. PICK x \in U : \A y \in U : x <= y
    <3> HIDE DEF U
    <3> QED
      BY <2>1, LeastNumber
  <2>3. Min(U) = x
    <3> HIDE DEF U
    <3> QED
      BY <2>1, <2>2, MinIs
  <2> QED
    BY <2>2, <2>3 DEF Place
<1>4. /\ \A i \in DOMAIN t : Contains(t[i], m) => k <= i
      /\ \A i \in DOMAIN l : l[i] = m => j <= i
  BY <1>1, <1>3
<1> QED
  BY <1>2, <1>3, <1>4 DEF FirstAt, k

\* What is behind the first m is shown.
LEMMA SomeShown ==
    ASSUME NEW t \in Texts, NEW m \in Words, Has(t, m)
    PROVE  Shows(t, m, Behind(m)[t])
<1> DEFINE k == LineOf(t, m)
           l == t[k]
           j == Place(l, m)
<1>0. t \in Seq(Line)
  BY TextsOfLines
<1>1. FirstAt(t, m, k, j)
  BY FoundAt
<1>2. Behind(m)[t] = From(t, k, j + 1)
  BY DEF Behind
<1> HIDE DEF k, j
<1>3. /\ k \in DOMAIN t /\ l \in Line /\ k \in Nat /\ j \in DOMAIN l /\ l[j] = m /\ l \in Seq(Words)
      /\ \A i \in DOMAIN t : Contains(t[i], m) => k <= i
      /\ \A i \in DOMAIN l : l[i] = m => j <= i
  BY <1>1 DEF FirstAt, Line
<1> DEFINE q == SubSeq(t, 1, k - 1)
           u == SubSeq(t, k + 1, Len(t))
           l1 == SubSeq(l, 1, j - 1)
           l2 == SubSeq(l, j + 1, Len(l))
<1>4. /\ q \in Texts /\ u \in Texts /\ t = q \o (<<l>> \o u)
      /\ \A i \in DOMAIN q : i \in DOMAIN t /\ i < k /\ q[i] = t[i]
  BY <1>0, <1>3, SplitAt, TextsOfLines
<1>5. /\ l1 \in Line /\ l2 \in Line /\ l = l1 \o (<<m>> \o l2)
      /\ \A i \in DOMAIN l1 : i \in DOMAIN l /\ i < j /\ l1[i] = l[i]
  <2> HIDE DEF l
  <2>1. /\ SubSeq(l, 1, j - 1) \in Seq(Words) /\ SubSeq(l, j + 1, Len(l)) \in Seq(Words)
        /\ l = SubSeq(l, 1, j - 1) \o (<<l[j]>> \o SubSeq(l, j + 1, Len(l)))
        /\ \A i \in DOMAIN SubSeq(l, 1, j - 1) : i \in DOMAIN l /\ i < j /\ SubSeq(l, 1, j - 1)[i] = l[i]
    BY <1>3, SplitAt
  <2> QED
    BY <1>3, <2>1 DEF Line
<1>6. ~Has(q, m)
  <2>1. ASSUME NEW i \in DOMAIN q, Contains(q[i], m) PROVE FALSE
    <3>1. i \in DOMAIN t /\ i < k /\ Contains(t[i], m)
      BY <1>4, <2>1
    <3>2. k <= i /\ i \in Nat
      BY <1>0, <1>3, <3>1, LenProperties
    <3> QED
      BY <1>3, <3>1, <3>2
  <2> QED
    BY <2>1 DEF Has
<1>7. ~Contains(l1, m)
  <2>1. ASSUME NEW i \in DOMAIN l1, l1[i] = m PROVE FALSE
    <3>1. i \in DOMAIN l /\ i < j /\ l[i] = m
      BY <1>5, <2>1
    <3>2. j <= i /\ i \in Nat /\ j \in Nat
      <4>1. DOMAIN l \subseteq Nat
        BY <1>3, LenProperties
      <4> QED
        BY <1>3, <3>1, <4>1
    <3> QED
      BY <3>1, <3>2
  <2>2. DOMAIN l1 = 1..Len(l1)
    BY <1>5, LenProperties DEF Line
  <2> QED
    BY <2>1, <2>2 DEF Contains
<1>8. Behind(m)[t] = <<l2>> \o u
  BY <1>2 DEF From
<1> HIDE DEF q, u, l1, l2
<1> QED
  BY <1>4, <1>5, <1>6, <1>7, <1>8 DEF Shows

\* A word in front of a text.
Put(w, v) == On(<<w>> \o Head(v), Tail(v))

LEMMA PutIs ==
    ASSUME NEW w \in Words, NEW v \in Texts, v # <<>>
    PROVE  /\ Put(w, v) \in Texts /\ Put(w, v) # <<>> /\ Put(w, v) # EmptyText
           /\ Head(v) \in Line /\ Tail(v) \in Texts /\ v = On(Head(v), Tail(v))
           /\ <<w>> \in Line /\ <<w>> \o Head(v) \in Line
           /\ Put(w, v) = Part(<<>>, <<>>, w, v)
           /\ Put(w, v) = Glue(<< <<w>> >>, v)
<1> DEFINE h == Head(v)
           u == Tail(v)
           g == <<w>> \o h
           t == On(g, u)
<1>1. h \in Line /\ u \in Texts /\ v = On(h, u)
  BY TextHead DEF On
<1> HIDE DEF h, u
<1>2. <<w>> \in Line /\ g \in Line
  BY <1>1, WordLine, LineJoin
<1>3. g # <<>>
  <2>1. Len(g) = 1 + Len(h) /\ Len(h) \in Nat
    BY <1>1, <1>2, ConcatProperties, LenProperties DEF Line
  <2> QED
    BY <2>1
<1> HIDE DEF g
<1>4. t \in Texts /\ t # <<>> /\ Head(t) = g
  BY <1>1, <1>2, OnText
<1>5. t # EmptyText
  <2>1. Head(EmptyText) = <<>>
    BY DEF EmptyText
  <2> QED
    BY <1>3, <1>4, <2>1
<1> HIDE DEF t
<1>6. <<>> \o g = g /\ <<>> \o (<<g>> \o u) = <<g>> \o u
  <2>1. <<g>> \o u \in Texts
    BY <1>1, <1>2, TextOf
  <2> QED
    BY <1>2, <2>1, LineEmpty, TextEmpty
<1>7. t = Part(<<>>, <<>>, w, v)
  BY Zenon, <1>6 DEF Part, t, On, g, h, u
<1>8. t = Glue(<< <<w>> >>, v)
  <2> DEFINE a == <<w>>
  <2>1. a \in Line
    BY <1>2
  <2> HIDE DEF a
  <2>2. Front(<<a>>) = <<>> /\ Last(<<a>>) = a
    BY <2>1 DEF Front, Last
  <2>3. <<>> \o <<g>> = <<g>>
    <3>1. <<g>> \in Texts
      BY <1>2, LineText
    <3> QED
      BY <3>1, TextEmpty
  <2>4. Glue(<<a>>, v) = (<<>> \o <<a \o h>>) \o u
    BY Zenon, <2>2 DEF Glue, h, u
  <2>5. a \o h = g
    BY DEF a, g
  <2> QED
    BY Zenon, <2>3, <2>4, <2>5 DEF t, On, a
<1> QED
  BY <1>1, <1>2, <1>4, <1>5, <1>7, <1>8 DEF Put, t, g, h, u

\* The words of it, and what is behind them.
LEMMA PutFinds ==
    ASSUME NEW w \in Words, NEW v \in Texts, v # <<>>, NEW m \in Words
    PROVE  /\ w = m => Has(Put(w, v), m) /\ Behind(m)[Put(w, v)] = v
           /\ w # m => Has(Put(w, v), m) <=> Has(v, m)
           /\ w # m /\ Has(v, m) => Behind(m)[Put(w, v)] = Behind(m)[v]
<1> DEFINE t == Put(w, v)
           h == Head(v)
           u == Tail(v)
<1>1. /\ t \in Texts /\ h \in Line /\ u \in Texts /\ v = On(h, u) /\ <<w>> \in Line /\ <<w>> \o h \in Line
      /\ t = Part(<<>>, <<>>, w, v) /\ t = On(<<w>> \o h, u)
  BY PutIs DEF Put
<1> HIDE DEF t, h, u
<1>2. <<>> \in Line /\ <<>> \in Texts /\ ~Has(<<>>, m) /\ ~Contains(<<>>, m)
  BY Empty DEF Has, Contains
<1>3. CASE w = m
  <2>1. CutApart(Part(<<>>, <<>>, m, v), m, Append(<<>>, <<>>), v)
    BY <1>2, PartCut
  <2> QED
    BY <1>1, <1>3, <2>1 DEF CutApart, t
<1>4. CASE w # m
  <2>1. Has(t, m) <=> Contains(<<w>> \o h, m) \/ Has(u, m)
    BY <1>1, OnHas
  <2>2. Has(v, m) <=> Contains(h, m) \/ Has(u, m)
    BY <1>1, OnHas
  <2>3. Contains(<<w>> \o h, m) <=> Contains(h, m)
    <3>1. ~Contains(<<w>>, m)
      BY <1>4, OtherWord
    <3> QED
      BY <1>1, <3>1, ContainsParts
  <2>4. ASSUME Has(v, m) PROVE Behind(m)[t] = Behind(m)[v]
    <3> DEFINE rest == Behind(m)[v]
    <3>1. Shows(v, m, rest)
      BY <2>4, SomeShown
    <3> HIDE DEF rest
    <3>2. Shows(Part(<<>>, <<>>, w, v), m, rest)
      BY <1>2, <1>4, <3>1, PartShows
    <3>3. Behind(m)[t] = rest
      BY <1>1, <3>2, ShownBehind
    <3> QED
      BY <3>3 DEF rest
  <2> QED
    BY <1>4, <2>1, <2>2, <2>3, <2>4 DEF t
<1> QED
  BY <1>3, <1>4

\* The same behind the end of a line.
LEMMA EndFinds ==
    ASSUME NEW v \in Texts, NEW m \in Words
    PROVE  /\ Has(On(<<>>, v), m) <=> Has(v, m)
           /\ Has(v, m) => Behind(m)[On(<<>>, v)] = Behind(m)[v]
<1>1. <<>> \in Line /\ ~Contains(<<>>, m) /\ On(<<>>, v) \in Texts
  BY Empty, OnText DEF Contains
<1>2. Has(On(<<>>, v), m) <=> Has(v, m)
  BY <1>1, OnHas
<1>3. ASSUME Has(v, m) PROVE Behind(m)[On(<<>>, v)] = Behind(m)[v]
  <2> DEFINE rest == Behind(m)[v]
  <2>1. Shows(v, m, rest)
    BY <1>3, SomeShown
  <2> HIDE DEF rest
  <2>2. Shows(On(<<>>, v), m, rest)
    BY <1>1, <2>1, OnShows
  <2>3. Behind(m)[On(<<>>, v)] = rest
    BY <1>1, <2>2, ShownBehind
  <2> QED
    BY <2>3 DEF rest
<1> QED
  BY <1>2, <1>3

\* A sequence from an element of it on: that, and what is behind.
LEMMA PartFrom ==
    ASSUME NEW S, NEW s \in Seq(S), NEW j \in DOMAIN s
    PROVE  SubSeq(s, j, Len(s)) = <<s[j]>> \o SubSeq(s, j + 1, Len(s))
<1> DEFINE n == Len(s)
           a == SubSeq(s, j, n)
           b == SubSeq(s, j + 1, n)
<1>1. n \in Nat /\ j \in 1..n /\ s[j] \in S /\ j - 1 \in 0..n /\ j \in 0..n /\ (j - 1) + 1 = j
  BY LenProperties
<1>2. a \in Seq(S) /\ PartOf(a, s, j, n) /\ b \in Seq(S) /\ PartOf(b, s, j + 1, n)
  <2>1. SubSeq(s, (j - 1) + 1, n) \in Seq(S) /\ PartOf(SubSeq(s, (j - 1) + 1, n), s, (j - 1) + 1, n)
    BY <1>1, PartsMade
  <2>2. b \in Seq(S) /\ PartOf(b, s, j + 1, n)
    BY <1>1, PartsMade
  <2> QED
    BY Zenon, <1>1, <2>1, <2>2
<1> DEFINE e == s[j]
           c == <<e>> \o b
<1> HIDE DEF a, b, e
<1>3. /\ c \in Seq(S) /\ Len(c) = Len(b) + 1
      /\ \A i \in 1..(Len(b) + 1) : c[i] = IF i = 1 THEN e ELSE b[i - 1]
  BY <1>1, <1>2, EndsProperties DEF e
<1> HIDE DEF n, c
<1>4. Len(a) = n - j + 1 /\ Len(b) = n - j /\ Len(c) = n - j + 1
  <2>1. Len(a) = n - j + 1 /\ Len(b) = n - (j + 1) + 1 /\ Len(c) = Len(b) + 1
    BY <1>2, <1>3 DEF PartOf
  <2>2. n \in Int /\ j \in Int
    BY <1>1
  <2>3. n - (j + 1) + 1 = n - j
    BY <2>2
  <2> QED
    BY <2>1, <2>3
<1>5. ASSUME NEW i \in 1..(n - j + 1) PROVE a[i] = c[i]
  <2>1. a[i] = s[j + i - 1]
    BY <1>2 DEF PartOf
  <2>2. CASE i = 1
    <3>1. c[i] = e /\ j + i - 1 = j
      BY <1>1, <1>3, <1>4, <2>2
    <3> QED
      BY <2>1, <3>1 DEF e
  <2>3. CASE i # 1
    <3>0. n \in Nat /\ j \in 1..n
      BY <1>1
    <3>1. i - 1 \in 1..(n - (j + 1) + 1) /\ j + 1 + (i - 1) - 1 = j + i - 1 /\ i \in 1..(n - j + 1)
      BY <2>3, <3>0
    <3>2. c[i] = b[i - 1]
      BY <1>3, <1>4, <2>3, <3>1
    <3>3. b[i - 1] = s[j + 1 + (i - 1) - 1]
      BY <1>2, <3>1 DEF PartOf
    <3> QED
      BY <2>1, <3>1, <3>2, <3>3
  <2> QED
    BY <2>2, <2>3
<1>6. a = c
  BY <1>2, <1>3, <1>4, <1>5, SeqEqual
<1> QED
  BY <1>6 DEF a, b, c, e, n

\* From a word of a text on there are it and what is behind it.
LEMMA FromPut ==
    ASSUME NEW t \in Texts, NEW i \in DOMAIN t, NEW j \in DOMAIN t[i]
    PROVE  /\ t[i][j] \in Words
           /\ From(t, i, j + 1) \in Texts /\ From(t, i, j + 1) # <<>>
           /\ From(t, i, j) = Put(t[i][j], From(t, i, j + 1))
<1> DEFINE l == t[i]
           w == l[j]
           x == SubSeq(l, j + 1, Len(l))
           u == SubSeq(t, i + 1, Len(t))
<1>1. l \in Seq(Words) /\ t \in Seq(Line) /\ u \in Seq(Line)
  <2>1. t \in Seq(Line)
    BY TextsOfLines
  <2> QED
    BY <2>1, SplitAt DEF Line
<1>2. w \in Words /\ x \in Seq(Words) /\ SubSeq(l, j, Len(l)) = <<w>> \o x
  <2> HIDE DEF l
  <2> QED
    BY <1>1, SplitAt, PartFrom DEF l
<1>3. From(t, i, j) = On(<<w>> \o x, u) /\ From(t, i, j + 1) = On(x, u)
  BY <1>2 DEF From, On
<1> HIDE DEF w, x, u
<1>4. On(x, u) \in Texts /\ On(x, u) # <<>> /\ Head(On(x, u)) = x /\ Tail(On(x, u)) = u
  BY <1>1, <1>2, OnText, TextsOfLines DEF Line
<1>5. Put(w, On(x, u)) = On(<<w>> \o x, u)
  BY <1>4 DEF Put
<1> QED
  BY <1>2, <1>3, <1>4, <1>5 DEF w, l

\* A boundary that is found begins the text from there on.
LEMMA FromFound ==
    ASSUME NEW t \in Texts, NEW m \in Words, Has(t, m)
    PROVE  /\ Find(t, m) # npos
           /\ From(t, Find(t, m)[1], Find(t, m)[2]) = Put(m, Behind(m)[t])
           /\ Behind(m)[t] \in Texts /\ Behind(m)[t] # <<>>
<1> DEFINE k == LineOf(t, m)
           j == Place(t[k], m)
<1>1. FirstAt(t, m, k, j)
  BY FoundAt
<1>2. Find(t, m) = <<k, j>> /\ Behind(m)[t] = From(t, k, j + 1)
  BY DEF Find, Behind
<1> HIDE DEF k, j
<1>3. k \in DOMAIN t /\ j \in DOMAIN t[k] /\ t[k][j] = m /\ k # 0
  <2>1. DOMAIN t = 1..Len(t)
    BY LenProperties DEF Texts
  <2>2. k \in 1..Len(t) /\ k \in Nat
    BY <1>1, <2>1 DEF FirstAt
  <2> QED
    BY <1>1, <2>2 DEF FirstAt
<1>4. /\ From(t, k, j) = Put(m, From(t, k, j + 1))
      /\ From(t, k, j + 1) \in Texts /\ From(t, k, j + 1) # <<>>
  BY <1>3, FromPut
<1>5. <<k, j>> # npos
  BY <1>3 DEF npos
<1> QED
  BY <1>2, <1>4, <1>5

\* The texts that there are: none has no lines.
SomeTexts == Texts \ {<<>>}

\* The first piece of a text is the end of a line, or a word.
FirstIs(u, v, n) ==
    \/ v = Tail(u) /\ u = On(<<>>, v) /\ n = 2
    \/ \E w \in Words : u = Put(w, v) /\ n = Chars[w]

LEMMA FirstOf ==
    ASSUME NEW u \in SomeTexts, u # EmptyText
    PROVE  /\ BehindFirst(u) \in SomeTexts /\ FirstChars(u) \in Nat \ {0}
           /\ FirstIs(u, BehindFirst(u), FirstChars(u))
<1>1. u \in Texts /\ u # <<>> /\ u \in Seq(Line)
  BY TextsOfLines DEF SomeTexts
<1> DEFINE l == u[1]
<1>2. /\ l \in Line /\ 1 \in DOMAIN u /\ Head(u) = l /\ Tail(u) \in Texts
      /\ u = On(l, Tail(u))
  <2>1. Len(u) \in Nat /\ Len(u) # 0 /\ DOMAIN u = 1..Len(u)
    BY <1>1, EmptySeq, LenProperties
  <2>2. Head(u) = l /\ 1 \in DOMAIN u
    BY <1>1, <2>1
  <2> QED
    BY <1>1, <2>2, TextHead DEF On
<1> HIDE DEF l
<1>3. CASE l = <<>>
  <2>1. BehindFirst(u) = Tail(u) /\ FirstChars(u) = 2
    BY <1>3 DEF BehindFirst, FirstChars, l
  <2>2. Tail(u) # <<>>
    <3>1. On(<<>>, <<>>) = EmptyText
      BY Empty, OnOne DEF EmptyText
    <3> QED
      BY <1>2, <1>3, <3>1
  <2> QED
    BY <1>2, <1>3, <2>1, <2>2 DEF FirstIs, SomeTexts
<1>4. CASE l # <<>>
  <2> DEFINE w == l[1]
             v == BehindFirst(u)
  <2>1. l \in Seq(Words) /\ 1 \in DOMAIN l
    <3>1. l \in Seq(Words)
      BY <1>2 DEF Line
    <3>2. Len(l) \in Nat /\ Len(l) # 0 /\ DOMAIN l = 1..Len(l)
      BY <1>4, <3>1, EmptySeq, LenProperties
    <3> QED
      BY <3>1, <3>2
  <2>2. v = From(u, 1, 2) /\ FirstChars(u) = Chars[w]
    BY <1>4 DEF BehindFirst, FirstChars, l
  <2>3. w \in Words /\ v \in Texts /\ v # <<>> /\ From(u, 1, 1) = Put(w, v)
    <3>1. 1 \in DOMAIN u[1] /\ 1 + 1 = 2
      BY <2>1 DEF l
    <3>2. /\ u[1][1] \in Words /\ From(u, 1, 1 + 1) \in Texts /\ From(u, 1, 1 + 1) # <<>>
          /\ From(u, 1, 1) = Put(u[1][1], From(u, 1, 1 + 1))
      BY <1>1, <1>2, <3>1, FromPut
    <3> QED
      BY <2>2, <3>1, <3>2 DEF l
  <2>4. From(u, 1, 1) = u
    <3>1. \A S : \A s \in Seq(S) : 1 \in DOMAIN s => SubSeq(s, 1, Len(s)) = s
      <4> SUFFICES ASSUME NEW S, NEW s \in Seq(S), 1 \in DOMAIN s PROVE SubSeq(s, 1, Len(s)) = s
        OBVIOUS
      <4>1. SubSeq(s, 1, Len(s)) = <<s[1]>> \o SubSeq(s, 1 + 1, Len(s))
        BY PartFrom
      <4>2. /\ s = SubSeq(s, 1, 1 - 1) \o (<<s[1]>> \o SubSeq(s, 1 + 1, Len(s)))
            /\ SubSeq(s, 1 + 1, Len(s)) \in Seq(S) /\ s[1] \in S
        BY SplitAt
      <4>3. SubSeq(s, 1, 1 - 1) = <<>>
        BY EmptySeq
      <4> DEFINE b == SubSeq(s, 1 + 1, Len(s))
      <4> HIDE DEF b
      <4>4. <<s[1]>> \o b \in Seq(S)
        <5>1. <<s[1]>> \in Seq(S)
          BY <4>2, OneOf
        <5> QED
          BY <4>2, <5>1 DEF b
      <4>5. <<>> \o (<<s[1]>> \o b) = <<s[1]>> \o b
        BY <4>4, ConcatEmptySeq
      <4> QED
        BY Zenon, <4>1, <4>2, <4>3, <4>5 DEF b
    <3>2. SubSeq(l, 1, Len(l)) = l
      BY <2>1, <3>1
    <3>3. SubSeq(u, 1, Len(u)) = u /\ SubSeq(u, 1, Len(u)) = <<l>> \o SubSeq(u, 1 + 1, Len(u))
      BY <1>1, <1>2, <3>1, PartFrom DEF l
    <3> QED
      BY <3>2, <3>3 DEF From, l
  <2>5. Chars[w] \in Nat \ {0}
    BY <2>3, CharsAssumption
  <2> HIDE DEF w, v
  <2> QED
    BY <2>2, <2>3, <2>4, <2>5 DEF FirstIs, SomeTexts, v
<1> QED
  BY <1>3, <1>4

\* The first piece of a text with a word in front is that word.
LEMMA PutFirst ==
    ASSUME NEW w \in Words, NEW v \in SomeTexts
    PROVE  BehindFirst(Put(w, v)) = v /\ FirstChars(Put(w, v)) = Chars[w]
<1> DEFINE u == Put(w, v)
           h == Head(v)
           z == Tail(v)
           g == <<w>> \o h
<1>1. v \in Texts /\ v # <<>>
  BY DEF SomeTexts
<1>2. h \in Line /\ z \in Texts /\ v = On(h, z) /\ <<w>> \in Line /\ g \in Line /\ u = On(g, z)
  BY <1>1, PutIs DEF Put
<1> HIDE DEF h, z
<1>3. Len(g) = Len(h) + 1 /\ g[1] = w /\ Len(h) \in Nat
  <2>1. h \in Seq(Words) /\ 1 \in 1..(Len(h) + 1) /\ Len(h) \in Nat
    <3>1. h \in Seq(Words)
      BY <1>2 DEF Line
    <3> QED
      BY <3>1, LenProperties
  <2> QED
    BY <2>1, EndsProperties
<1>4. g # <<>> /\ 1 \in DOMAIN g
  <2>1. DOMAIN g = 1..Len(g)
    BY <1>2, LenProperties DEF Line
  <2> HIDE DEF g
  <2> QED
    BY <1>3, <2>1
<1> HIDE DEF g, u
<1>5. u \in Texts /\ u[1] = g /\ Tail(u) = z /\ 1 \in DOMAIN u
  <2>1. u \in Texts /\ u[1] = g /\ Tail(u) = z /\ Len(u) = Len(z) + 1 /\ Len(z) \in Nat
    BY <1>2, OnText
  <2>2. DOMAIN u = 1..Len(u)
    BY <2>1, LenProperties DEF Texts
  <2> QED
    BY <2>1, <2>2
<1>6. SubSeq(g, 2, Len(g)) = h
  <2>1. g \in Seq(Words) /\ h \in Seq(Words)
    BY <1>2 DEF Line
  <2>2. SubSeq(g, 2, Len(g)) = Tail(g)
    BY <1>4, <2>1
  <2>3. Tail(g) = h
    BY <2>1 DEF g
  <2> QED
    BY <2>2, <2>3
<1>7. SubSeq(u, 2, Len(u)) = z
  <2>1. u \in Seq(Line) /\ u # <<>>
    BY <1>2, <1>5, OnText, TextsOfLines
  <2> QED
    BY <1>5, <2>1
<1>8. BehindFirst(u) = From(u, 1, 2) /\ FirstChars(u) = Chars[w]
  BY <1>3, <1>4, <1>5 DEF BehindFirst, FirstChars
<1>9. From(u, 1, 2) = v
  <2>1. From(u, 1, 2) = <<SubSeq(u[1], 2, Len(u[1]))>> \o SubSeq(u, 1 + 1, Len(u)) /\ 1 + 1 = 2
    BY DEF From
  <2>2. From(u, 1, 2) = <<h>> \o z
    BY <1>5, <1>6, <1>7, <2>1
  <2> QED
    BY <1>2, <2>2 DEF On
<1> QED
  BY <1>8, <1>9 DEF u

\* Words in front of a text, and the first piece taken from it, add no words.
LEMMA PutFree ==
    ASSUME NEW W, NEW w \in Words \ W, NEW v \in SomeTexts, Free(v, W)
    PROVE  Free(Put(w, v), W)
<1>1. LineFree(Head(v), W) /\ Free(Tail(v), W)
  <2> DEFINE S == Seq(Words \ W)
  <2>1. v \in Seq(S) /\ v # <<>>
    BY DEF Free, SomeTexts
  <2> HIDE DEF S
  <2>2. Head(v) \in S /\ Tail(v) \in Seq(S)
    BY <2>1
  <2> QED
    BY <2>2 DEF LineFree, Free, S
<1>2. LineFree(<<w>> \o Head(v), W)
  BY <1>1, FreeWord, FreeLineJoin
<1> QED
  BY <1>1, <1>2, OnFree DEF Put

LEMMA FirstFree ==
    ASSUME NEW W, NEW u \in SomeTexts, u # EmptyText, Free(u, W)
    PROVE  Free(BehindFirst(u), W)
<1> DEFINE V == Words \ W
           S == Seq(V)
           l == u[1]
           z == SubSeq(u, 2, Len(u))
<1>1. u \in Seq(S) /\ u # <<>>
  BY DEF Free, SomeTexts
<1> HIDE DEF S, z
<1>2. 1 \in DOMAIN u /\ l \in S /\ Tail(u) \in Seq(S) /\ z \in Seq(S)
  <2>1. Len(u) \in Nat /\ Len(u) # 0 /\ DOMAIN u = 1..Len(u)
    BY <1>1, EmptySeq, LenProperties
  <2>2. SubSeq(u, 1 + 1, Len(u)) \in Seq(S) /\ 1 + 1 = 2 /\ 1 \in DOMAIN u
    BY <1>1, <2>1, SplitAt
  <2> QED
    BY <1>1, <2>1, <2>2 DEF z
<1>3. CASE l = <<>>
  BY <1>2, <1>3 DEF BehindFirst, Free, S
<1>4. CASE l # <<>>
  <2> DEFINE x == SubSeq(l, 2, Len(l))
  <2>1. l \in Seq(V)
    BY <1>2 DEF S
  <2> HIDE DEF l, V
  <2>2. x \in Seq(V)
    <3>1. Len(l) \in Nat /\ Len(l) # 0 /\ DOMAIN l = 1..Len(l)
      BY <1>4, <2>1, EmptySeq, LenProperties
    <3>2. SubSeq(l, 1 + 1, Len(l)) \in Seq(V) /\ 1 + 1 = 2
      BY <2>1, <3>1, SplitAt
    <3> QED
      BY <3>2
  <2>3. BehindFirst(u) = <<x>> \o z
    <3>1. From(u, 1, 2) = <<SubSeq(u[1], 2, Len(u[1]))>> \o SubSeq(u, 1 + 1, Len(u)) /\ 1 + 1 = 2
      BY DEF From
    <3> QED
      BY <1>4, <3>1 DEF BehindFirst, l, z
  <2> HIDE DEF x
  <2>4. <<x>> \o z \in Seq(S)
    <3>1. x \in S
      BY <2>2 DEF S
    <3>2. <<x>> \in Seq(S)
      BY <3>1, OneOf
    <3> QED
      BY <1>2, <3>2, ConcatProperties
  <2> QED
    BY <2>3, <2>4 DEF Free, S, V
<1> QED
  BY <1>3, <1>4

\* Texts with none of the words W, in which the file of q is found, if any is
\* looked for.
Kept(W, q, found) ==
    {u \in SomeTexts : Free(u, W) /\ (~found /\ Has(u, "FileData") => FileIn(u, q))}

\* The file depends on what is behind its marker.
LEMMA SameFile ==
    ASSUME NEW t, NEW u, NEW q, FileIn(t, q), Has(u, "FileData"),
           Behind("FileData")[u] = Behind("FileData")[t]
    PROVE  FileIn(u, q)
BY DEF FileIn, FileDataIn

LEMMA PutKept ==
    ASSUME NEW W, NEW q, NEW found, NEW w \in Words \ W, w # "FileData", NEW v \in Kept(W, q, found)
    PROVE  Put(w, v) \in Kept(W, q, found)
<1> DEFINE m == "FileData"
           u == Put(w, v)
<1>1. v \in SomeTexts /\ v \in Texts /\ v # <<>> /\ Free(v, W) /\ (~found /\ Has(v, m) => FileIn(v, q))
  BY DEF Kept, SomeTexts
<1>2. u \in SomeTexts /\ Free(u, W)
  BY <1>1, PutIs, PutFree DEF SomeTexts
<1>3. ASSUME ~found, Has(u, m) PROVE FileIn(u, q)
  <2>1. m \in Words
    BY WordsAssumption DEF Markers
  <2>2. w # m
    OBVIOUS
  <2> HIDE DEF m, u
  <2>3. Has(v, m) /\ Behind(m)[u] = Behind(m)[v]
    BY <1>1, <1>3, <2>1, <2>2, PutFinds DEF u
  <2> QED
    BY <1>1, <1>3, <2>3, SameFile DEF m
<1> QED
  BY <1>2, <1>3 DEF Kept

LEMMA FirstKept ==
    ASSUME NEW W, NEW q, NEW found, NEW u \in Kept(W, q, found), u # EmptyText
    PROVE  BehindFirst(u) \in Kept(W, q, found)
<1> DEFINE m == "FileData"
           v == BehindFirst(u)
           n == FirstChars(u)
<1>1. u \in SomeTexts /\ Free(u, W) /\ (~found /\ Has(u, m) => FileIn(u, q))
  BY DEF Kept
<1>2. v \in SomeTexts /\ v \in Texts /\ v # <<>> /\ FirstIs(u, v, n)
  BY <1>1, FirstOf DEF SomeTexts
<1>3. Free(v, W)
  BY <1>1, FirstFree
<1>4. m \in Words
  BY WordsAssumption DEF Markers
<1> HIDE DEF m, v, n
<1>5. ASSUME ~found, Has(v, m) PROVE FileIn(v, q)
  <2>1. CASE u = On(<<>>, v)
    <3>1. Has(u, m) /\ Behind(m)[u] = Behind(m)[v]
      BY <1>2, <1>4, <1>5, <2>1, EndFinds
    <3> QED
      BY <1>1, <1>5, <3>1, SameFile DEF m
  <2>2. ASSUME NEW w \in Words, u = Put(w, v) PROVE FileIn(v, q)
    <3>1. CASE w = m
      <4>1. Has(u, m) /\ Behind(m)[u] = v
        BY <1>2, <2>2, <3>1, PutFinds
      <4>2. ~Has(v, m)
        BY <1>1, <1>5, <4>1 DEF FileIn, m
      <4> QED
        BY <1>5, <4>2
    <3>2. CASE w # m
      <4>1. Has(u, m) /\ Behind(m)[u] = Behind(m)[v]
        BY <1>2, <1>4, <1>5, <2>2, <3>2, PutFinds
      <4> QED
        BY <1>1, <1>5, <4>1, SameFile DEF m
    <3> QED
      BY <3>1, <3>2
  <2> QED
    BY <1>2, <2>1, <2>2 DEF FirstIs
<1> QED
  BY <1>2, <1>3, <1>5 DEF Kept, m, v

\* The text u without the first k of n characters, by that without fewer.
ErasedStep(e, k, u) ==
    IF k = 0 \/ u = EmptyText THEN u
    ELSE IF k < FirstChars(u) THEN Glue(<< <<"character">> >>, BehindFirst(u))
    ELSE e[k - FirstChars(u)][BehindFirst(u)]
Erases(e, n) == \A k \in 0..n : \A u \in SomeTexts : e[k][u] = ErasedStep(e, k, u)

LEMMA LeftOver ==
    ASSUME NEW v \in SomeTexts
    PROVE  /\ "character" \in Words /\ "character" # "FileData"
           /\ Glue(<< <<"character">> >>, v) = Put("character", v) /\ Put("character", v) \in SomeTexts
<1> DEFINE w == "character"
<1>1. w \in Words /\ w # "FileData"
  BY WordsAssumption DEF Wrapping
<1> HIDE DEF w
<1>2. Glue(<< <<w>> >>, v) = Put(w, v) /\ Put(w, v) \in SomeTexts
  BY <1>1, PutIs DEF SomeTexts
<1> QED
  BY Zenon, <1>1, <1>2 DEF w

\* There is such a recursion, and Erased is one.
LEMMA ErasedBy ==
    ASSUME NEW t \in SomeTexts, NEW n \in Nat
    PROVE  \E e : Erases(e, n) /\ Erased(t, n) = e[n][t]
<1> DEFINE D == (0..n) \X SomeTexts
           E == {c \in D : c[1] = 0 \/ c[2] = EmptyText \/ c[1] < FirstChars(c[2])}
           base == [c \in D |-> IF c[1] = 0 \/ c[2] = EmptyText THEN c[2]
                                ELSE Glue(<< <<"character">> >>, BehindFirst(c[2]))]
           next == [c \in D \ E |-> <<c[1] - FirstChars(c[2]), BehindFirst(c[2])>>]
           step == [x \in (D \ E) \X SomeTexts |-> x[2]]
           h == [c \in D |-> c[1]]
<1>1. \A c \in D : c[1] \in 0..n /\ c[1] \in Nat /\ c[1] < n + 1 /\ c[2] \in SomeTexts
  OBVIOUS
<1>2. base \in [D -> SomeTexts]
  <2>1. ASSUME NEW c \in D, c[2] # EmptyText
        PROVE  Glue(<< <<"character">> >>, BehindFirst(c[2])) \in SomeTexts
    <3> DEFINE u == c[2]
    <3>1. u \in SomeTexts /\ u # EmptyText
      BY <1>1, <2>1
    <3> HIDE DEF u
    <3>2. BehindFirst(u) \in SomeTexts
      BY <3>1, FirstOf
    <3>3. Glue(<< <<"character">> >>, BehindFirst(u)) \in SomeTexts
      BY <3>2, LeftOver
    <3> QED
      BY <3>3 DEF u
  <2> HIDE DEF D
  <2> QED
    BY <1>1, <2>1
<1>3. ASSUME NEW c \in D \ E
      PROVE  /\ c[1] - FirstChars(c[2]) \in 0..n /\ c[1] - FirstChars(c[2]) < c[1]
             /\ BehindFirst(c[2]) \in SomeTexts
  <2> DEFINE u == c[2]
             k == c[1]
  <2>1. k \in 0..n /\ u \in SomeTexts /\ u # EmptyText /\ ~(k < FirstChars(u))
    BY <1>1, <1>3
  <2> HIDE DEF u, k
  <2>2. BehindFirst(u) \in SomeTexts /\ FirstChars(u) \in Nat \ {0}
    BY <2>1, FirstOf
  <2>3. k - FirstChars(u) \in 0..n /\ k - FirstChars(u) < k
    BY <2>1, <2>2
  <2> QED
    BY <2>2, <2>3 DEF u, k
<1>4. next \in [D \ E -> D] /\ \A c \in D \ E : h[next[c]] < h[c]
  <2>1. ASSUME NEW c \in D \ E PROVE next[c] \in D /\ next[c][1] < c[1]
    <3>1. next[c] = <<c[1] - FirstChars(c[2]), BehindFirst(c[2])>>
      BY <2>1
    <3> HIDE DEF next
    <3> QED
      BY <1>3, <3>1
  <2> HIDE DEF D, E
  <2>2. E \subseteq D
    BY DEF E
  <2>3. next = [c \in D \ E |-> next[c]]
    OBVIOUS
  <2> HIDE DEF next
  <2>4. next \in [D \ E -> D]
    BY <2>1, <2>3
  <2> QED
    BY <2>1, <2>2, <2>4
<1>5. step \in [(D \ E) \X SomeTexts -> SomeTexts]
  <2> HIDE DEF D, E
  <2> QED
    OBVIOUS
<1>6. E \subseteq D /\ h \in [D -> Nat] /\ n + 1 \in Nat /\ \A c \in D : h[c] < n + 1
  BY <1>1
<1>7. Recursion(D, SomeTexts, E, base, next, step, h, n + 1)
  <2> HIDE DEF D, E, base, next, step, h
  <2> QED
    BY <1>2, <1>4, <1>5, <1>6 DEF Recursion
<1>8. PICK f \in [D -> SomeTexts] : \A c \in D :
         f[c] = IF c \in E THEN base[c] ELSE step[<<c, f[next[c]]>>]
  <2>1. \E f \in [D -> SomeTexts] : \A c \in D :
           f[c] = IF c \in E THEN base[c] ELSE step[<<c, f[next[c]]>>]
    <3> HIDE DEF D, E, base, next, step, h
    <3> QED
      BY <1>7, RecursiveFunction
  <2> QED
    BY <2>1
<1> DEFINE g == [k \in 0..n |-> [u \in SomeTexts |-> f[<<k, u>>]]]
<1>9. ASSUME NEW k \in 0..n, NEW u \in SomeTexts PROVE f[<<k, u>>] = ErasedStep(g, k, u)
  <2> DEFINE c == <<k, u>>
  <2>1. c \in D /\ c[1] = k /\ c[2] = u
    OBVIOUS
  <2>2. CASE k = 0 \/ u = EmptyText
    <3>1. c \in E /\ base[c] = u
      BY <2>1, <2>2
    <3>2. f[c] = u
      <4> HIDE DEF c, D, E, base
      <4> QED
        BY <1>8, <2>1, <3>1
    <3> QED
      BY <2>2, <3>2 DEF ErasedStep
  <2>3. CASE ~(k = 0 \/ u = EmptyText) /\ k < FirstChars(u)
    <3>1. c \in E /\ base[c] = Glue(<< <<"character">> >>, BehindFirst(u))
      BY <2>1, <2>3
    <3>2. f[c] = Glue(<< <<"character">> >>, BehindFirst(u))
      <4> HIDE DEF c, D, E, base
      <4> QED
        BY <1>8, <2>1, <3>1
    <3> QED
      BY <2>3, <3>2 DEF ErasedStep
  <2>4. CASE ~(k = 0 \/ u = EmptyText) /\ ~(k < FirstChars(u))
    <3>1. c \in D \ E /\ next[c] = <<k - FirstChars(u), BehindFirst(u)>>
      BY <2>1, <2>4
    <3>2. next[c] \in D
      BY <1>4, <3>1
    <3>3. f[c] = f[next[c]]
      <4> HIDE DEF c, D, E, base, next
      <4>1. f[c] = step[<<c, f[next[c]]>>]
        BY <1>8, <3>1
      <4>2. f[next[c]] \in SomeTexts
        BY <3>2
      <4> QED
        BY <3>1, <4>1, <4>2
    <3>4. k - FirstChars(u) \in 0..n /\ BehindFirst(u) \in SomeTexts
      BY <3>1, <3>2
    <3>5. f[<<k - FirstChars(u), BehindFirst(u)>>] = g[k - FirstChars(u)][BehindFirst(u)]
      BY <3>4
    <3> QED
      BY <2>4, <3>1, <3>3, <3>5 DEF ErasedStep
  <2> QED
    BY <2>2, <2>3, <2>4
<1>10. g = [k \in 0..n |-> [u \in SomeTexts |-> ErasedStep(g, k, u)]]
  <2>1. \A k \in 0..n : [u \in SomeTexts |-> f[<<k, u>>]] = [u \in SomeTexts |-> ErasedStep(g, k, u)]
    BY <1>9
  <2> QED
    BY <2>1
<1> DEFINE Right(e) == e = [k \in 0..n |-> [u \in Texts \ {<<>>} |->
              IF k = 0 \/ u = EmptyText THEN u
              ELSE IF k < FirstChars(u) THEN Glue(<< <<"character">> >>, BehindFirst(u))
              ELSE e[k - FirstChars(u)][BehindFirst(u)]]]
           e == CHOOSE x : Right(x)
<1>11. Right(g)
  BY Zenon, <1>10 DEF ErasedStep, SomeTexts
<1>12. Right(e)
  <2> HIDE DEF g, Right
  <2> QED
    BY <1>11
<1>13. Erased(t, n) = e[n][t]
  BY DEF Erased
<1>14. Erases(e, n)
  <2> HIDE DEF e
  <2>1. e = [k \in 0..n |-> [u \in SomeTexts |-> ErasedStep(e, k, u)]]
    BY Zenon, <1>12 DEF ErasedStep, SomeTexts
  <2> HIDE DEF Right
  <2> QED
    BY <2>1 DEF Erases
<1> HIDE DEF e
<1> QED
  BY <1>13, <1>14

\* Whatever is erased, the file stays as it is, or loses its marker.
LEMMA ErasedKept ==
    ASSUME NEW W, "character" \notin W, NEW q, NEW found, NEW t \in Kept(W, q, found), NEW n \in Nat
    PROVE  Erased(t, n) \in Kept(W, q, found)
<1>1. t \in SomeTexts
  BY DEF Kept
<1>2. PICK e : Erases(e, n) /\ Erased(t, n) = e[n][t]
  BY <1>1, ErasedBy
<1> DEFINE T == {k \in Nat : k <= n => \A u \in Kept(W, q, found) : e[k][u] \in Kept(W, q, found)}
<1>3. ASSUME NEW k \in Nat, \A m \in 0..(k - 1) : m \in T, k <= n, NEW u \in Kept(W, q, found)
      PROVE  e[k][u] \in Kept(W, q, found)
  <2>1. u \in SomeTexts /\ k \in 0..n
    BY <1>3 DEF Kept
  <2>2. e[k][u] = ErasedStep(e, k, u)
    BY <1>2, <2>1 DEF Erases
  <2>3. CASE k = 0 \/ u = EmptyText
    BY <2>2, <2>3 DEF ErasedStep
  <2>4. CASE ~(k = 0 \/ u = EmptyText)
    <3> DEFINE v == BehindFirst(u)
               j == k - FirstChars(u)
    <3>1. v \in Kept(W, q, found) /\ v \in SomeTexts /\ FirstChars(u) \in Nat \ {0}
      BY <2>1, <2>4, FirstKept, FirstOf
    <3>2. CASE k < FirstChars(u)
      <4>1. e[k][u] = Glue(<< <<"character">> >>, v)
        BY <2>2, <2>4, <3>2 DEF ErasedStep
      <4>2. e[k][u] = Put("character", v) /\ "character" \in Words \ W /\ "character" # "FileData"
        BY <3>1, <4>1, LeftOver
      <4> HIDE DEF v
      <4> QED
        BY <3>1, <4>2, PutKept
    <3>3. CASE ~(k < FirstChars(u))
      <4>1. e[k][u] = e[j][v]
        BY <2>2, <2>4, <3>3 DEF ErasedStep
      <4>2. j \in 0..(k - 1) /\ j <= n
        BY <1>3, <3>1, <3>3
      <4>3. j \in T
        BY <1>3, <4>2
      <4> HIDE DEF v, j
      <4> QED
        BY <3>1, <4>1, <4>2, <4>3
    <3> QED
      BY <3>2, <3>3
  <2> QED
    BY <2>3, <2>4
<1>4. \A k \in Nat : (\A m \in 0..(k - 1) : m \in T) => k \in T
  BY <1>3
<1>5. T = Nat
  <2> HIDE DEF T
  <2>1. T \in SUBSET Nat
    BY DEF T
  <2> QED
    BY <1>4, <2>1, NatSetInduction
<1>6. n \in T /\ n <= n
  BY <1>5
<1> QED
  BY <1>2, <1>6

\* What is erased of a boundary with its own length is the boundary.
LEMMA ErasedPut ==
    ASSUME NEW b \in Words, NEW v \in SomeTexts
    PROVE  Erased(Put(b, v), Chars[b]) = v
<1> DEFINE u == Put(b, v)
           n == Chars[b]
<1>1. n \in Nat /\ n # 0
  BY CharsAssumption
<1>2. u \in SomeTexts /\ u # EmptyText /\ BehindFirst(u) = v /\ FirstChars(u) = n
  <2>1. v \in Texts /\ v # <<>>
    BY DEF SomeTexts
  <2> QED
    BY <2>1, PutIs, PutFirst DEF SomeTexts
<1> HIDE DEF u, n
<1>3. PICK e : Erases(e, n) /\ Erased(u, n) = e[n][u]
  BY <1>1, <1>2, ErasedBy
<1>4. n \in 0..n /\ 0 \in 0..n /\ ~(n < n) /\ n - n = 0
  BY <1>1
<1>5. e[n][u] = e[n - n][v]
  BY <1>1, <1>2, <1>3, <1>4 DEF Erases, ErasedStep
<1>6. e[0][v] = v
  BY <1>3, <1>4 DEF Erases, ErasedStep
<1> QED
  BY <1>3, <1>4, <1>5, <1>6 DEF u, n

-----------------------------------------------------------------------------
(* Fetching a body                                                         *)

\* The chunks l are still to come, and j are there, in the text c.
FetchedTo(cs, g, j, p, l, c) ==
    /\ cs \in Seq(Texts) /\ Fetches(g, cs) /\ j \in 0..Len(cs)
    /\ l \in Seq(Texts) /\ Len(l) = Len(cs) - j
    /\ \A i \in 1..(Len(cs) - j) : l[i] = cs[j + i]
    /\ \/ p = "size" /\ c = Append(g[j], <<>>)
       \/ p = "chunk" /\ l # <<>> /\ c = Append(g[j] \o Size, <<>>)

\* Of q the text c is there, and l to come: the parse will make of it all
\* what was sent.
Waits(q, B, p, l, c) ==
    \/ /\ q.client = "curl"
       /\ \E g, P, j : FetchedTo(q.chunks, g, j, p, l, c) /\ CutsAll(q, B, FetchedAll(g, q.chunks), P)
    \/ /\ q.client # "curl" /\ p = "length" /\ c = EmptyText
       /\ \E t, P : t \in Texts /\ t # <<>> /\ l = <<t>> /\ CutsAll(q, B, t, P)

\* A text that ends a line is put behind what is there.
LEMMA FetchedLines ==
    ASSUME NEW x \in Texts, NEW t \in Texts
    PROVE  /\ Glue(Append(x, <<>>), << <<"size">>, <<>> >>) = Append(x \o Size, <<>>)
           /\ Glue(Append(x, <<>>), Append(t, <<>>)) = Append(x \o t, <<>>)
           /\ x \o Size \in Texts /\ x \o t \in Texts
<1> DEFINE z == <<"size">>
           e == <<>>
<1>1. z \in Line /\ e \in Line /\ e \in Texts
  BY WordsAssumption, WordLine, Empty DEF Wrapping
<1> HIDE DEF z, e
<1>2. ASSUME NEW y \in Texts
      PROVE  Glue(Append(x, <<>>), Append(y, e)) = Append(x \o y, e) /\ x \o y \in Texts
  <2>1. Append(y, e) = y \o <<e>> /\ Append(y, e) \in Texts /\ <<e>> \in Texts /\ x \o y \in Texts
    BY <1>1, TextAppend, LineText, TextJoin
  <2>2. Append(x \o y, e) = (x \o y) \o <<e>>
    BY <1>1, <2>1, TextAppend
  <2>3. Append(y, e) # <<>>
    <3>1. y \in Seq(Line)
      BY TextsOfLines
    <3> QED
      BY <1>1, <3>1, AppendProperties
  <2>4. Glue(Append(x, <<>>), Append(y, e)) = x \o Append(y, e)
    <3> DEFINE u == Append(y, e)
    <3>1. u \in Texts /\ u # <<>>
      BY <2>1, <2>3
    <3> HIDE DEF u
    <3>2. Glue(Append(x, <<>>), u) = x \o u
      BY <3>1, GlueLines
    <3> QED
      BY Zenon, <3>2 DEF u
  <2>5. x \o (y \o <<e>>) = (x \o y) \o <<e>>
    BY <2>1, TextAssoc
  <2> QED
    BY Zenon, <2>1, <2>2, <2>4, <2>5
<1>3. Size \in Texts /\ Append(Size, e) = <<z, e>>
  <2>1. Size = On(z, <<>>)
    BY Zenon DEF Size, z
  <2>2. On(z, <<>>) \in Texts /\ <<e>> \in Texts /\ AppendOn(z, <<>>, e)
    BY <1>1, Empty, OnText, LineText, OnAppend
  <2>3. <<z, e>> = On(z, <<e>>) /\ <<e>> = On(e, <<>>)
    BY <1>1, OnOne, OnTwo
  <2>4. Append(On(z, <<>>), e) = On(z, Append(<<>>, e)) /\ Append(<<>>, e) = On(e, <<>>)
    BY Zenon, <2>2 DEF AppendOn
  <2> QED
    BY Zenon, <2>1, <2>2, <2>3, <2>4
<1>4. Glue(Append(x, <<>>), <<z, e>>) = Append(x \o Size, e) /\ x \o Size \in Texts
  BY Zenon, <1>2, <1>3
<1>5. Glue(Append(x, <<>>), Append(t, e)) = Append(x \o t, e) /\ x \o t \in Texts
  BY <1>2
<1> QED
  BY Zenon, <1>4, <1>5 DEF z, e

\* When the loop begins, at a size, and goes on with a chunk.
LEMMA WaitsBegin ==
    ASSUME NEW B, NEW q, Sound(q, B)
    PROVE  Waits(q, B, IF q.client = "curl" THEN "size" ELSE "length", q.chunks, EmptyText)
<1>1. CASE q.client = "curl"
  <2> DEFINE cs == q.chunks
  <2>1. cs \in Seq(Texts) /\ \E g, P : Fetches(g, cs) /\ CutsAll(q, B, FetchedAll(g, cs), P)
    BY Zenon, <1>1 DEF Sound
  <2>2. PICK g, P : Fetches(g, cs) /\ CutsAll(q, B, FetchedAll(g, cs), P)
    BY Zenon, <2>1
  <2> HIDE DEF cs
  <2>3. Append(g[0], <<>>) = EmptyText
    <3>1. g[0] = <<>> /\ Append(<<>>, <<>>) = << <<>> >>
      BY <2>2 DEF Fetches
    <3> QED
      BY Zenon, <3>1 DEF EmptyText
  <2>4. 0 \in 0..Len(cs) /\ Len(cs) = Len(cs) - 0 /\ \A i \in 1..(Len(cs) - 0) : cs[i] = cs[0 + i]
    <3>1. Len(cs) \in Nat
      BY <2>1, LenProperties
    <3>2. \A i \in 1..Len(cs) : i = 0 + i
      BY <3>1
    <3> QED
      BY <3>1, <3>2
  <2>5. FetchedTo(cs, g, 0, "size", cs, EmptyText)
    BY Zenon, <2>1, <2>2, <2>3, <2>4 DEF FetchedTo
  <2> QED
    BY Zenon, <1>1, <2>2, <2>5 DEF Waits, cs
<1>2. CASE q.client # "curl"
  BY Zenon, <1>2 DEF Sound, Waits
<1> QED
  BY <1>1, <1>2

LEMMA WaitsSize ==
    ASSUME NEW B, NEW q, NEW l, l # <<>>, NEW c, Waits(q, B, "size", l, c)
    PROVE  Waits(q, B, "chunk", l, Glue(c, << <<"size">>, <<>> >>))
<1>1. q.client = "curl" /\ \E g, P, j : FetchedTo(q.chunks, g, j, "size", l, c) /\ CutsAll(q, B, FetchedAll(g, q.chunks), P)
  BY DEF Waits
<1> DEFINE cs == q.chunks
<1>2. PICK g, P, j : FetchedTo(cs, g, j, "size", l, c) /\ CutsAll(q, B, FetchedAll(g, cs), P)
  BY Zenon, <1>1
<1> HIDE DEF cs
<1>3. g[j] \in Texts /\ c = Append(g[j], <<>>)
  BY <1>2 DEF FetchedTo, Fetches
<1> DEFINE d == Glue(c, << <<"size">>, <<>> >>)
<1>4. d = Append(g[j] \o Size, <<>>)
  <2> DEFINE x == g[j]
  <2> HIDE DEF x
  <2>1. Glue(Append(x, <<>>), << <<"size">>, <<>> >>) = Append(x \o Size, <<>>)
    BY <1>3, FetchedLines DEF x
  <2> QED
    BY Zenon, <1>3, <2>1 DEF x
<1> HIDE DEF d
<1>5. FetchedTo(cs, g, j, "chunk", l, d)
  BY <1>2, <1>4 DEF FetchedTo
<1> QED
  BY Zenon, <1>1, <1>2, <1>5 DEF Waits, cs, d

LEMMA WaitsChunk ==
    ASSUME NEW B, NEW q, NEW l, NEW c, Waits(q, B, "chunk", l, c)
    PROVE  l # <<>> /\ Waits(q, B, "size", Tail(l), Glue(c, Append(Head(l), <<>>)))
<1>1. q.client = "curl" /\ \E g, P, j : FetchedTo(q.chunks, g, j, "chunk", l, c) /\ CutsAll(q, B, FetchedAll(g, q.chunks), P)
  BY DEF Waits
<1> DEFINE cs == q.chunks
<1>2. PICK g, P, j : FetchedTo(cs, g, j, "chunk", l, c) /\ CutsAll(q, B, FetchedAll(g, cs), P)
  BY Zenon, <1>1
<1> HIDE DEF cs
<1> DEFINE n == Len(cs)
           k == j + 1
           x == g[j] \o Size
<1>3. /\ cs \in Seq(Texts) /\ g \in [0..n -> Texts] /\ j \in 0..n /\ l \in Seq(Texts) /\ l # <<>>
      /\ Len(l) = n - j /\ c = Append(x, <<>>)
  BY <1>2 DEF FetchedTo, Fetches
<1>4. n \in Nat /\ Len(l) >= 1 /\ k \in 1..n /\ 1 \in 1..(n - j) /\ k - 1 = j
  <2>1. Len(l) \in Nat /\ Len(l) # 0 /\ n \in Nat
    BY <1>3, EmptySeq, LenProperties
  <2> QED
    BY <1>3, <2>1
<1>5. Head(l) = cs[k] /\ cs[k] \in Texts
  <2>1. Head(l) = l[1] /\ l[1] = cs[j + 1]
    BY <1>2, <1>3, <1>4, HeadTailProperties DEF FetchedTo
  <2> QED
    BY <1>3, <1>4, <2>1
<1>6. x \in Texts
  BY <1>3, <1>4, FetchedLines
<1>7. g[k] = x \o cs[k]
  <2>1. \A i \in 1..n : g[i] = (g[i - 1] \o Size) \o cs[i]
    BY Zenon, <1>2 DEF FetchedTo, Fetches
  <2>2. g[k] = (g[k - 1] \o Size) \o cs[k]
    BY Zenon, <1>4, <2>1
  <2> QED
    BY Zenon, <1>4, <2>2
<1> DEFINE d == Glue(c, Append(Head(l), <<>>))
           t == cs[k]
<1> HIDE DEF x, t
<1>8. d = Append(g[k], <<>>)
  <2>1. Glue(Append(x, <<>>), Append(t, <<>>)) = Append(x \o t, <<>>)
    BY <1>5, <1>6, FetchedLines DEF t
  <2> QED
    BY Zenon, <1>3, <1>5, <1>7, <2>1 DEF t
<1>9. Tail(l) \in Seq(Texts) /\ Len(Tail(l)) = n - k /\ \A i \in 1..(n - k) : Tail(l)[i] = cs[k + i]
  <2>1. Tail(l) \in Seq(Texts) /\ Len(Tail(l)) = Len(l) - 1 /\ \A i \in 1..(Len(l) - 1) : Tail(l)[i] = l[i + 1]
    BY <1>3, <1>4, FrontTailProperties
  <2>2. Len(l) - 1 = n - k
    BY <1>3, <1>4
  <2>3. ASSUME NEW i \in 1..(n - k) PROVE l[i + 1] = cs[k + i]
    <3>1. i + 1 \in 1..(n - j) /\ j + (i + 1) = k + i
      BY <1>3, <1>4
    <3>2. \A h \in 1..(n - j) : l[h] = cs[j + h]
      BY Zenon, <1>2 DEF FetchedTo
    <3>3. l[i + 1] = cs[j + (i + 1)]
      BY Zenon, <3>1, <3>2
    <3> QED
      BY Zenon, <3>1, <3>3
  <2> QED
    BY <2>1, <2>2, <2>3
<1> HIDE DEF d
<1>10. k \in 0..n /\ Fetches(g, cs)
  BY <1>2, <1>4 DEF FetchedTo
<1> HIDE DEF k
<1>11. FetchedTo(cs, g, k, "size", Tail(l), d)
  BY Zenon, <1>3, <1>8, <1>9, <1>10 DEF FetchedTo
<1> QED
  BY Zenon, <1>1, <1>2, <1>3, <1>11 DEF Waits, cs, d

\* P has what may be left and found after the next part, wherever the loop is.
Closed(q, B, P) == \A t, f : <<t, f>> \in P => CutsRight(q, B, t, f, P)

\* All that was sent is found, but for what another boundary hid.
Found(q, f) == f.found /\ <<f.data>> = q.data /\ (q.client = "curl" /\ f.secured => f.name = q.name)

\* Nothing is found that was not sent.
FormRight(q, f) ==
    /\ f \in Forms /\ (f.found => <<f.data>> = q.data)
    /\ q.client = "curl" /\ f.secured => f.name = q.name

\* The boundaries of others.
Others(q, B) == B \ {q.boundary}

\* c is left, and f found in what was cut off at the boundary of q: with it
\* the loop finds all that was sent.
Exactly(q, B, c, f) == \E P : <<c, f>> \in P /\ Closed(q, B, P)

\* The boundary of q was not found any more, and something else erased: the
\* file is still found, if its marker is.
Partly(q, B, c, f) == c \in Kept(Others(q, B), q, f.found) /\ FormRight(q, f)

\* Between two iterations, with the boundary m.
Cuts(q, B, m, c, f) ==
    \/ Exactly(q, B, c, f)
    \/ m # q.boundary /\ Partly(q, B, c, f)

\* Between find, which returned o, and erase.
Erasing(q, B, m, c, o, f) ==
    \/ /\ Free(c, Others(q, B)) /\ Has(c, q.boundary) /\ o = Find(c, q.boundary)
       /\ Exactly(q, B, Behind(q.boundary)[c], f)
    \/ o = npos /\ m # q.boundary /\ Partly(q, B, c, f)

LEMMA CutsBegin ==
    ASSUME NEW q, NEW B, NEW t, NEW P, CutsAll(q, B, t, P), NEW m
    PROVE  Cuts(q, B, m, t, NoForm)
BY Zenon DEF CutsAll, Closed, Exactly, Cuts

\* All chunks are there.
LEMMA WaitsLast ==
    ASSUME NEW B, NEW q, NEW c, Waits(q, B, "size", <<>>, c), NEW m
    PROVE  Cuts(q, B, m, Glue(c, << <<"0">>, <<>> >>), NoForm)
<1>1. \E g, P, j : FetchedTo(q.chunks, g, j, "size", <<>>, c) /\ CutsAll(q, B, FetchedAll(g, q.chunks), P)
  BY DEF Waits
<1> DEFINE cs == q.chunks
<1>2. PICK g, P, j : FetchedTo(cs, g, j, "size", <<>>, c) /\ CutsAll(q, B, FetchedAll(g, cs), P)
  BY Zenon, <1>1
<1> HIDE DEF cs
<1>3. c = Append(g[j], <<>>) /\ j = Len(cs)
  <2>1. c = Append(g[j], <<>>) /\ Len(<<>>) = Len(cs) - j /\ cs \in Seq(Texts) /\ j \in 0..Len(cs)
    BY <1>2 DEF FetchedTo
  <2>2. Len(<<>>) = 0 /\ Len(cs) \in Nat
    BY <2>1, LenProperties
  <2> QED
    BY <2>1, <2>2
<1>4. Glue(c, << <<"0">>, <<>> >>) = FetchedAll(g, cs)
  BY Zenon, <1>3 DEF FetchedAll
<1> QED
  BY <1>2, <1>4, CutsBegin

LEMMA WaitsBody ==
    ASSUME NEW B, NEW q, NEW l, NEW c, Waits(q, B, "length", l, c), NEW m
    PROVE  l # <<>> /\ Cuts(q, B, m, Glue(c, Head(l)), NoForm)
<1>1. c = EmptyText /\ \E t, P : t \in Texts /\ t # <<>> /\ l = <<t>> /\ CutsAll(q, B, t, P)
  <2>1. ~\E g, P, j : FetchedTo(q.chunks, g, j, "length", l, c) /\ CutsAll(q, B, FetchedAll(g, q.chunks), P)
    BY DEF FetchedTo
  <2> QED
    BY Zenon, <2>1 DEF Waits
<1>2. PICK t, P : t \in Texts /\ t # <<>> /\ l = <<t>> /\ CutsAll(q, B, t, P)
  BY Zenon, <1>1
<1>3. Head(l) = t /\ l # <<>>
  BY <1>2
<1>4. Glue(c, Head(l)) = t
  <2>1. Glue(EmptyText, t) = t
    BY <1>2, GlueEmpty
  <2> QED
    BY Zenon, <1>1, <1>3, <2>1
<1> QED
  BY <1>2, <1>3, <1>4, CutsBegin

\* What such a text and such a form are.
LEMMA ExactlyRight ==
    ASSUME NEW q, NEW B, NEW c, NEW f, Exactly(q, B, c, f)
    PROVE  \E P : Closed(q, B, P) /\ CutsRight(q, B, c, f, P)
BY Zenon DEF Exactly, Closed

LEMMA CutsForm ==
    ASSUME NEW q, NEW B, NEW m, NEW c, NEW f, Cuts(q, B, m, c, f)
    PROVE  Free(c, Others(q, B)) /\ FormRight(q, f)
<1>1. CASE Exactly(q, B, c, f)
  <2>1. PICK P : CutsRight(q, B, c, f, P)
    BY Zenon, <1>1, ExactlyRight
  <2> QED
    BY Zenon, <2>1 DEF CutsRight, FormRight, Others
<1>2. CASE Partly(q, B, c, f)
  BY <1>2 DEF Partly, Kept
<1> QED
  BY <1>1, <1>2 DEF Cuts

\* The boundary is found: it is that of the request.
LEMMA CutsPart ==
    ASSUME NEW q, NEW B, q.boundary \in B, NEW m \in B, NEW c, NEW f, Cuts(q, B, m, c, f), Has(c, m)
    PROVE  /\ m = q.boundary
           /\ Erasing(q, B, m, c, Find(c, m), WithPart(f, Before(m)[c]))
<1>0. Free(c, Others(q, B))
  BY CutsForm
<1>1. m = q.boundary
  <2>1. m \notin Others(q, B)
    BY <1>0, FreeHas
  <2> QED
    BY <2>1 DEF Others
<1>2. Exactly(q, B, c, f)
  BY <1>1 DEF Cuts
<1>3. PICK P : Closed(q, B, P) /\ CutsRight(q, B, c, f, P)
  BY Zenon, <1>2, ExactlyRight
<1> DEFINE d == Behind(m)[c]
           g == WithPart(f, Before(m)[c])
<1>4. <<d, g>> \in P
  BY Zenon, <1>1, <1>3 DEF CutsRight
<1>5. Exactly(q, B, d, g)
  <2> HIDE DEF d, g
  <2> QED
    BY Zenon, <1>3, <1>4 DEF Exactly
<1> HIDE DEF g
<1>6. Erasing(q, B, m, c, Find(c, m), g)
  BY Zenon, <1>0, <1>1, <1>5 DEF Erasing, d
<1> QED
  BY Zenon, <1>1, <1>6 DEF g

\* The boundary is another's, and the file is looked for in the whole text.
LEMMA CutsAgain ==
    ASSUME NEW q, NEW B, Sound(q, B), NEW m, NEW c, NEW f, Cuts(q, B, m, c, f), ~Has(c, m), ~f.found,
           NEW h, h = [f EXCEPT !.data = DataIn(f, c), !.found = Has(c, "FileData")]
    PROVE  m # q.boundary /\ Erasing(q, B, m, c, npos, h)
<1> DEFINE W == Others(q, B)
<1>1. m # q.boundary /\ Partly(q, B, c, f)
  <2>1. CASE Exactly(q, B, c, f)
    <3>1. PICK P : CutsRight(q, B, c, f, P)
      BY Zenon, <2>1, ExactlyRight
    <3>2. /\ m # q.boundary /\ Free(c, W) /\ FileIn(c, q)
      BY Zenon, <3>1 DEF CutsRight, Others
    <3>3. c \in SomeTexts
      <4>1. c \in Texts
        BY <3>2, FreeTyped
      <4>2. ~Has(<<>>, "FileData")
        BY DEF Has
      <4> QED
        BY <3>2, <4>1, <4>2 DEF FileIn, SomeTexts
    <3>4. c \in Kept(W, q, f.found)
      BY <3>2, <3>3 DEF Kept
    <3>5. FormRight(q, f)
      BY CutsForm
    <3> QED
      BY <3>2, <3>4, <3>5 DEF Partly
  <2> QED
    BY <2>1 DEF Cuts
<1>2. /\ f \in Forms /\ (q.client = "curl" /\ f.secured => f.name = q.name)
      /\ c \in SomeTexts /\ Free(c, W) /\ (Has(c, "FileData") => FileIn(c, q))
  BY <1>1 DEF Partly, FormRight, Kept
<1> DEFINE a == DataIn(f, c)
           b == Has(c, "FileData")
<1>3. b \in BOOLEAN /\ a \in Line /\ (b => <<a>> = q.data)
  <2>1. CASE Has(c, "FileData")
    <3>1. a = FileDataIn(c) /\ <<FileDataIn(c)>> = q.data
      BY <1>2, <2>1 DEF DataIn, FileIn
    <3>2. PICK d \in Line : q.data = <<d>>
      BY Zenon DEF Sound
    <3>3. FileDataIn(c) = d
      BY <3>1, <3>2
    <3> QED
      BY <3>1, <3>2, <3>3 DEF Has
  <2>2. CASE ~Has(c, "FileData")
    <3>1. a = <<>> /\ b = FALSE
      BY <2>2 DEF DataIn
    <3> QED
      BY <3>1, Empty
  <2> QED
    BY <2>1, <2>2
<1> HIDE DEF a, b
<1>4. h = [f EXCEPT !.data = a, !.found = b]
  BY DEF a, b
<1>5. h \in Forms /\ h.data = a /\ h.found = b /\ h.secured = f.secured /\ h.name = f.name
  BY <1>2, <1>3, <1>4 DEF Forms
<1>6. FormRight(q, h)
  BY <1>2, <1>3, <1>5 DEF FormRight
<1>7. c \in Kept(W, q, h.found)
  BY <1>2 DEF Kept
<1> QED
  BY <1>1, <1>6, <1>7 DEF Erasing, Partly

\* The text is erased, with the boundary that there is by then.
LEMMA CutsErased ==
    ASSUME NEW q, NEW B, Sound(q, B), NEW m \in B, NEW c, NEW o, NEW f, Erasing(q, B, m, c, o, f),
           NEW e, e = (IF o = npos THEN Erased(c, Chars[m] - 1) ELSE Erased(From(c, o[1], o[2]), Chars[m]))
    PROVE  Cuts(q, B, m, e, f)
<1> DEFINE W == Others(q, B)
           b == q.boundary
<1>1. /\ b \in Words /\ m \in Words /\ b \notin W /\ b # "FileData" /\ "character" \notin W
      /\ Chars[m] \in Nat /\ Chars[m] - 1 \in Nat
  <2>1. b \in Words /\ m \in Words /\ b \notin Markers /\ "character" \notin B
    BY DEF Sound, Wrapping
  <2>2. Chars[m] \in Nat \ {0}
    BY <2>1, CharsAssumption
  <2> QED
    BY <2>1, <2>2 DEF Markers, Others
<1> HIDE DEF b, W
<1>2. CASE Free(c, W) /\ Has(c, b) /\ o = Find(c, b) /\ Exactly(q, B, Behind(b)[c], f)
  <2> DEFINE v == Behind(b)[c]
             u == Put(b, v)
  <2>1. c \in Texts
    BY <1>2, FreeTyped
  <2>2. o # npos /\ From(c, o[1], o[2]) = u /\ v \in Texts /\ v # <<>>
    BY <1>1, <1>2, <2>1, FromFound
  <2>3. Exactly(q, B, v, f)
    BY <1>2
  <2> HIDE DEF v
  <2>4. v \in SomeTexts /\ e = Erased(u, Chars[m])
    BY <2>2 DEF SomeTexts
  <2>5. CASE m = b
    <3>1. e = v
      BY <1>1, <2>4, <2>5, ErasedPut
    <3> QED
      BY <2>3, <3>1 DEF Cuts
  <2>6. CASE m # b
    <3>1. PICK P : CutsRight(q, B, v, f, P)
      BY Zenon, <2>3, ExactlyRight
    <3>2. /\ Free(v, W) /\ f \in Forms /\ (f.found => <<f.data>> = q.data)
          /\ (~f.found => FileIn(v, q)) /\ (q.client = "curl" /\ f.secured => f.name = q.name)
      BY Zenon, <3>1 DEF CutsRight, Others, W
    <3>3. v \in Kept(W, q, f.found) /\ FormRight(q, f)
      BY <2>4, <3>2 DEF Kept, FormRight
    <3>4. u \in Kept(W, q, f.found)
      BY <1>1, <3>3, PutKept
    <3> HIDE DEF u
    <3>5. e \in Kept(W, q, f.found)
      BY <1>1, <2>4, <3>4, ErasedKept
    <3> QED
      BY <2>6, <3>3, <3>5 DEF Cuts, Partly, W, b
  <2> QED
    BY <2>5, <2>6
<1>3. CASE o = npos /\ m # b /\ Partly(q, B, c, f)
  <2>1. e = Erased(c, Chars[m] - 1) /\ c \in Kept(W, q, f.found) /\ FormRight(q, f)
    BY <1>3 DEF Partly, W
  <2>2. e \in Kept(W, q, f.found)
    BY <1>1, <2>1, ErasedKept
  <2> QED
    BY <1>3, <2>1, <2>2 DEF Cuts, Partly, W, b
<1> QED
  BY <1>2, <1>3 DEF Erasing, W, b

\* The loop is left.
LEMMA CutsEnd ==
    ASSUME NEW q, NEW B, NEW m, NEW c, NEW f, Cuts(q, B, m, c, f), ~Has(c, m), f.found
    PROVE  /\ Found(q, f)
           /\ m = q.boundary => f.name = q.name /\ f.secured = q.secured
<1>1. Found(q, f)
  BY CutsForm DEF Found, FormRight
<1>2. ASSUME m = q.boundary PROVE f.name = q.name /\ f.secured = q.secured
  <2>1. Exactly(q, B, c, f)
    BY <1>2 DEF Cuts
  <2>2. PICK P : CutsRight(q, B, c, f, P)
    BY Zenon, <2>1, ExactlyRight
  <2> QED
    BY Zenon, <1>2, <2>2 DEF CutsRight
<1> QED
  BY <1>1, <1>2

\* Another POST replaces the boundary; it is not its own that comes back.
LEMMA CutsReplaced ==
    ASSUME NEW q, NEW B, NEW m, NEW c, NEW f, NEW n, m # q.boundary => n # q.boundary
    PROVE  /\ Cuts(q, B, m, c, f) => Cuts(q, B, n, c, f)
           /\ \A o : Erasing(q, B, m, c, o, f) => Erasing(q, B, n, c, o, f)
BY Zenon DEF Cuts, Erasing

-----------------------------------------------------------------------------
(* Type correctness                                                        *)

\* The sessions that hold a thread.
Busy == {s \in Sessions : pc[s] \in Cutting}

LEMMA BusyFinite == IsFiniteSet(Busy) /\ Cardinality(Busy) \in Nat
<1>1. Busy \subseteq Sessions
  BY DEF Busy
<1> QED
  BY <1>1, SessionsAssumption, FS_Subset, FS_CardinalityType

\* Every variable has a value for each session.
Domains ==
    /\ DOMAIN pc = Sessions /\ DOMAIN req = Sessions /\ DOMAIN left = Sessions
    /\ DOMAIN content = Sessions /\ DOMAIN pos = Sessions /\ DOMAIN form = Sessions /\ DOMAIN file = Sessions

TypeInv == Domains /\ TypeOK

\* One more thread is taken when one is free, or none.
LEMMA OneMore ==
    ASSUME NEW A, IsFiniteSet(A), NEW s, NEW C, C \subseteq A \cup {s},
           NEW n \in Nat, Cardinality(A) < n
    PROVE  Cardinality(C) <= n
<1>1. IsFiniteSet(A \cup {s}) /\ Cardinality(A \cup {s}) <= Cardinality(A) + 1
  <2>1. /\ IsFiniteSet(A \cup {s}) /\ Cardinality(A) \in Nat
        /\ Cardinality(A \cup {s}) = IF s \in A THEN Cardinality(A) ELSE Cardinality(A) + 1
    BY FS_AddElement, FS_CardinalityType
  <2> QED
    BY <2>1
<1>2. /\ Cardinality(C) <= Cardinality(A \cup {s}) /\ Cardinality(C) \in Nat
      /\ Cardinality(A) \in Nat /\ Cardinality(A \cup {s}) \in Nat
  BY <1>1, FS_Subset, FS_CardinalityType
<1> QED
  BY <1>1, <1>2

LEMMA BusyStep ==
    ASSUME TypeInv, NEW s \in Sessions, Domains',
           \A x \in Sessions \ {s} : pc'[x] = pc[x], workers' = workers,
           FreeWorker \/ pc'[s] \notin Cutting \/ pc[s] \in Cutting
    PROVE  Cardinality(Busy') <= workers
<1>1. /\ IsFiniteSet(Busy) /\ Cardinality(Busy) \in Nat /\ workers \in Nat
      /\ Cardinality(Busy) <= workers
  BY BusyFinite DEF TypeInv, TypeOK, Busy
<1>2. CASE FreeWorker
  <2>1. Busy' \subseteq Busy \cup {s}
    BY DEF Busy
  <2>2. Cardinality(Busy) < workers
    BY <1>2 DEF FreeWorker, Busy
  <2> QED
    BY <1>1, <2>1, <2>2, OneMore
<1>3. CASE pc'[s] \notin Cutting \/ pc[s] \in Cutting
  <2>1. Busy' \subseteq Busy
    BY <1>3 DEF Busy
  <2>2. Cardinality(Busy') <= Cardinality(Busy) /\ Cardinality(Busy') \in Nat
    BY <1>1, <2>1, FS_Subset, FS_CardinalityType
  <2> QED
    BY <1>1, <2>2
<1> QED
  BY <1>2, <1>3

\* What a session must be typed like.
SessionTyped(p, q, l) ==
    /\ p \in {"idle", "size", "chunk", "length", "saved"} \cup Cutting
    /\ p = "idle" <=> q \notin Requests
    /\ p \in {"chunk", "length"} => l # <<>>
    /\ p \in Cutting \cup {"saved"} => l = <<>>

\* A step of one session.
LEMMA TypedStep ==
    ASSUME TypeInv, NEW s \in Sessions, Domains', workers' = workers,
           \A x \in Sessions \ {s} : pc'[x] = pc[x] /\ req'[x] = req[x] /\ left'[x] = left[x],
           FreeWorker \/ pc'[s] \notin Cutting \/ pc[s] \in Cutting,
           SessionTyped(pc'[s], req'[s], left'[s])
    PROVE  TypeInv'
<1>1. Cardinality(Busy') <= workers
  BY BusyStep
<1>2. ASSUME NEW x \in Sessions PROVE SessionTyped(pc'[x], req'[x], left'[x])
  <2>1. CASE x = s
    BY <2>1
  <2>2. CASE x # s
    <3>1. SessionTyped(pc[x], req[x], left[x])
      BY DEF TypeInv, TypeOK, SessionTyped
    <3>2. pc'[x] = pc[x] /\ req'[x] = req[x] /\ left'[x] = left[x]
      BY <2>2
    <3> QED
      BY Zenon, <3>1, <3>2
  <2> QED
    BY <2>1, <2>2
<1>3. workers' \in 1..MaxWorkers /\ Cardinality(Busy') <= workers'
  BY <1>1 DEF TypeInv, TypeOK
<1>4. TypeOK'
  BY <1>2, <1>3 DEF TypeOK, SessionTyped, Busy
<1> QED
  BY <1>4 DEF TypeInv

LEMMA TypeInit == ASSUME Init PROVE TypeInv
<1>1. Domains /\ \A s \in Sessions : SessionTyped(pc[s], req[s], left[s])
  BY RequestsAssumption DEF Init, Domains, SessionTyped, Cutting
<1>2. Busy = {}
  BY DEF Init, Busy, Cutting
<1>3. Cardinality(Busy) = 0
  BY <1>2, FS_EmptySet
<1>4. workers \in 1..MaxWorkers
  BY DEF Init
<1>5. Cardinality(Busy) <= workers
  BY <1>3, <1>4
<1> QED
  BY <1>1, <1>4, <1>5 DEF TypeInv, TypeOK, SessionTyped, Busy

LEMMA TypeNext == ASSUME TypeInv, [Next]_vars PROVE TypeInv'
<1>1. CASE UNCHANGED vars
  BY <1>1 DEF vars, TypeInv, Domains, TypeOK
<1>2. ASSUME NEW s \in Sessions, NEW r \in Requests, Post(s, r) PROVE TypeInv'
  <2>1. /\ Domains' /\ workers' = workers /\ FreeWorker
        /\ \A x \in Sessions \ {s} : pc'[x] = pc[x] /\ req'[x] = req[x] /\ left'[x] = left[x]
        /\ pc'[s] = (IF r.client = "curl" THEN "size" ELSE "length") /\ req'[s] = r /\ left'[s] = r.chunks
    BY <1>2 DEF Post, TypeInv, Domains
  <2>2. SessionTyped(pc'[s], req'[s], left'[s])
    BY <2>1, RequestsAssumption DEF SessionTyped, Cutting
  <2> QED
    BY <2>1, <2>2, TypedStep
<1>3. ASSUME NEW s \in Sessions, Fetch(s) PROVE TypeInv'
  <2>0. SessionTyped(pc[s], req[s], left[s]) /\ Domains
    BY DEF TypeInv, TypeOK, SessionTyped
  <2>1. /\ Domains' /\ workers' = workers /\ FreeWorker
        /\ \A x \in Sessions \ {s} : pc'[x] = pc[x] /\ req'[x] = req[x] /\ left'[x] = left[x]
        /\ req'[s] = req[s]
    BY <1>3, <2>0 DEF Fetch, ReadChunkSize, ReadChunk, LastChunk, ReadBody, Fetched, Domains
  <2>2. SessionTyped(pc'[s], req'[s], left'[s])
    <3>1. CASE ReadChunkSize(s)
      BY <2>0, <3>1 DEF ReadChunkSize, Fetched, Domains, SessionTyped, Cutting
    <3>2. CASE ReadChunk(s)
      BY <2>0, <3>2 DEF ReadChunk, Fetched, Domains, SessionTyped, Cutting
    <3>3. CASE LastChunk(s)
      BY <2>0, <3>3 DEF LastChunk, Fetched, Domains, SessionTyped, Cutting
    <3>4. CASE ReadBody(s)
      BY <2>0, <3>4 DEF ReadBody, Fetched, Domains, SessionTyped, Cutting
    <3> QED
      BY <1>3, <3>1, <3>2, <3>3, <3>4 DEF Fetch
  <2> QED
    BY <2>1, <2>2, TypedStep
<1>4. ASSUME NEW s \in Sessions, Cut(s) PROVE TypeInv'
  <2>0. SessionTyped(pc[s], req[s], left[s]) /\ Domains
    BY DEF TypeInv, TypeOK, SessionTyped
  <2>1. /\ Domains' /\ workers' = workers /\ pc[s] \in Cutting
        /\ \A x \in Sessions \ {s} : pc'[x] = pc[x] /\ req'[x] = req[x] /\ left'[x] = left[x]
        /\ req'[s] = req[s] /\ left'[s] = left[s] /\ pc'[s] \in Cutting \cup {"saved"}
    BY <1>4, <2>0 DEF Cut, FindPart, TryAgain, Erase, Save, Domains, Cutting
  <2>2. SessionTyped(pc'[s], req'[s], left'[s])
    BY <2>0, <2>1 DEF SessionTyped, Cutting
  <2> QED
    BY <2>1, <2>2, TypedStep
<1> QED
  BY <1>1, <1>2, <1>3, <1>4 DEF Next

\* On every path of postMethodHandler, readChunkSize and readChunk a session is
\* where the code can be, a body is only cut up when all its chunks are there,
\* and no more bodies are cut up at a time than there are threads.
THEOREM ParseTypes == Spec => []TypeOK
<1>1. Init => TypeInv
  BY TypeInit
<1>2. TypeInv /\ [Next]_vars => TypeInv'
  BY TypeNext
<1>3. TypeInv => TypeOK
  BY DEF TypeInv
<1> QED
  BY <1>1, <1>2, <1>3, PTL DEF Spec

-----------------------------------------------------------------------------
(* What is found is what was sent                                          *)

Fetching == {"size", "chunk", "length"}

\* On one thread nothing but the file is found with another's boundary.
Alone(w, m, q, f) == w = 1 /\ m # q.boundary => f.name = <<>> /\ f.secured = FALSE

\* What holds of a session: of the number w of threads, the boundary m, and its
\* pc, request, chunks, text, place in it, fields and file.
SessionRight(B, w, m, p, q, l, c, o, f, d) ==
    /\ p \in Fetching \cup Cutting \cup {"idle", "saved"}
    /\ p # "idle" => Sound(q, B) /\ m \in B
    /\ p = "idle" => c = EmptyText /\ f = NoForm
    /\ p \in Fetching => f = NoForm /\ Waits(q, B, p, l, c)
    /\ p = "cutting" => Cuts(q, B, m, c, f)
    /\ p = "erasing" => Erasing(q, B, m, c, o, f)
    /\ p \in Cutting => Alone(w, m, q, f)
    /\ p = "saved" =>
          /\ <<d>> = q.data
          /\ q.client = "curl" /\ f.secured => f.name = q.name
          /\ w = 1 => <<f.name, f.secured>> \in {<<q.name, q.secured>>, << <<>>, FALSE>>}

RightIn(B, s) ==
    SessionRight(B, workers, mBoundary, pc[s], req[s], left[s], content[s], pos[s], form[s], file[s])

\* They all do.
SentIn(B) == Domains /\ \A s \in Sessions : RightIn(B, s)

\* A boundary replaced does not come back: one step of BoundaryStaysAway.
StaysAway ==
    \A s \in Sessions :
       pc[s] \in Cutting /\ mBoundary # req[s].boundary => mBoundary' # req[s].boundary

\* The other sessions, when only the boundary is replaced for them.
LEMMA RightReplaced ==
    ASSUME NEW B, NEW w, NEW m, NEW n \in B, NEW p, NEW q, NEW l, NEW c, NEW o, NEW f, NEW d,
           SessionRight(B, w, m, p, q, l, c, o, f, d),
           p \in Cutting => w # 1 /\ (m # q.boundary => n # q.boundary)
    PROVE  SessionRight(B, w, n, p, q, l, c, o, f, d)
<1>1. p = "cutting" => Cuts(q, B, n, c, f)
  <2>1. ASSUME p = "cutting" PROVE Cuts(q, B, n, c, f)
    <3>1. Cuts(q, B, m, c, f) /\ (m # q.boundary => n # q.boundary)
      BY <2>1 DEF SessionRight, Cutting
    <3> QED
      BY <3>1, CutsReplaced
  <2> QED
    BY <2>1
<1>2. p = "erasing" => Erasing(q, B, n, c, o, f)
  <2>1. ASSUME p = "erasing" PROVE Erasing(q, B, n, c, o, f)
    <3>1. Erasing(q, B, m, c, o, f) /\ (m # q.boundary => n # q.boundary)
      BY <2>1 DEF SessionRight, Cutting
    <3> QED
      BY <3>1, CutsReplaced
  <2> QED
    BY <2>1
<1>3. p \in Cutting => Alone(w, n, q, f)
  BY DEF Alone
<1> QED
  BY Zenon, <1>1, <1>2, <1>3 DEF SessionRight

\* What is stored of data without a null character.
LEMMA SavedAll ==
    ASSUME NEW d, ~Contains(d, "NUL")
    PROVE  Saved(d) = d
BY DEF Saved

\* The session that takes the step.
LEMMA RightPost ==
    ASSUME NEW B, NEW r, Sound(r, B), NEW w, NEW o, NEW d
    PROVE  SessionRight(B, w, r.boundary, IF r.client = "curl" THEN "size" ELSE "length",
                        r, r.chunks, EmptyText, o, NoForm, d)
<1> DEFINE p == IF r.client = "curl" THEN "size" ELSE "length"
<1>1. Waits(r, B, p, r.chunks, EmptyText)
  BY WaitsBegin
<1>2. p \in Fetching /\ p # "idle" /\ p \notin Cutting /\ p # "saved" /\ r.boundary \in B
  BY DEF Fetching, Cutting, Sound
<1> HIDE DEF p
<1>3. SessionRight(B, w, r.boundary, p, r, r.chunks, EmptyText, o, NoForm, d)
  BY <1>1, <1>2 DEF SessionRight, Cutting
<1> QED
  BY Zenon, <1>3 DEF p

\* Another text is there, and others are to come.
LEMMA RightFetched ==
    ASSUME NEW B, NEW w, NEW m, NEW p, NEW q, NEW l, NEW c, NEW o, NEW f, NEW d,
           SessionRight(B, w, m, p, q, l, c, o, f, d), p \in Fetching,
           NEW n \in {"size", "chunk"}, NEW k, NEW e, Waits(q, B, n, k, e)
    PROVE  SessionRight(B, w, m, n, q, k, e, o, f, d)
<1>1. f = NoForm /\ Sound(q, B) /\ m \in B
  BY DEF SessionRight, Fetching
<1>2. n \in Fetching /\ n # "idle" /\ n \notin Cutting /\ n # "saved"
  BY DEF Fetching, Cutting
<1> QED
  BY <1>1, <1>2 DEF SessionRight, Cutting

\* The loop over the parts begins.
LEMMA RightComplete ==
    ASSUME NEW B, NEW w, NEW m, NEW p, NEW q, NEW l, NEW c, NEW o, NEW f, NEW d,
           SessionRight(B, w, m, p, q, l, c, o, f, d), p \in Fetching,
           NEW k, NEW e, Cuts(q, B, m, e, NoForm)
    PROVE  SessionRight(B, w, m, "cutting", q, k, e, o, f, d)
<1>1. f = NoForm /\ Sound(q, B) /\ m \in B
  BY DEF SessionRight, Fetching
<1>2. Alone(w, m, q, NoForm)
  BY DEF Alone, NoForm
<1>3. "cutting" \notin Fetching /\ "cutting" \in Cutting
  BY DEF Fetching, Cutting
<1> QED
  BY <1>1, <1>2, <1>3 DEF SessionRight

\* The boundary is found, or it is not; then it is erased.
LEMMA RightPart ==
    ASSUME NEW B, NEW w, NEW m, NEW q, NEW l, NEW c, NEW o, NEW f, NEW d,
           SessionRight(B, w, m, "cutting", q, l, c, o, f, d), Has(c, m)
    PROVE  SessionRight(B, w, m, "erasing", q, l, c, Find(c, m), WithPart(f, Before(m)[c]), d)
<1>1. Sound(q, B) /\ m \in B /\ Cuts(q, B, m, c, f)
  BY DEF SessionRight
<1>2. q.boundary \in B
  BY <1>1 DEF Sound
<1> DEFINE k == Find(c, m)
           g == WithPart(f, Before(m)[c])
<1>3. m = q.boundary /\ Erasing(q, B, m, c, k, g)
  BY <1>1, <1>2, CutsPart
<1> HIDE DEF k, g
<1>4. Alone(w, m, q, g) /\ "erasing" \notin Fetching /\ "erasing" \in Cutting
  BY <1>3 DEF Alone, Fetching, Cutting
<1>5. SessionRight(B, w, m, "erasing", q, l, c, k, g, d)
  BY <1>1, <1>3, <1>4 DEF SessionRight
<1> QED
  BY Zenon, <1>5 DEF k, g

LEMMA RightAgain ==
    ASSUME NEW B, NEW w, NEW m, NEW q, NEW l, NEW c, NEW o, NEW f, NEW d,
           SessionRight(B, w, m, "cutting", q, l, c, o, f, d), ~Has(c, m), ~f.found,
           NEW h, h = [f EXCEPT !.data = DataIn(f, c), !.found = Has(c, "FileData")]
    PROVE  SessionRight(B, w, m, "erasing", q, l, c, npos, h, d)
<1>1. Sound(q, B) /\ m \in B /\ Cuts(q, B, m, c, f) /\ Alone(w, m, q, f)
  BY DEF SessionRight, Cutting
<1>2. m # q.boundary /\ Erasing(q, B, m, c, npos, h)
  BY <1>1, CutsAgain
<1>3. h.name = f.name /\ h.secured = f.secured
  <2>1. f \in Forms
    BY <1>1, CutsForm DEF FormRight
  <2> QED
    BY <2>1 DEF Forms
<1>4. Alone(w, m, q, h) /\ "erasing" \notin Fetching /\ "erasing" \in Cutting
  BY <1>1, <1>3 DEF Alone, Fetching, Cutting
<1> QED
  BY <1>1, <1>2, <1>4 DEF SessionRight

LEMMA RightErase ==
    ASSUME NEW B, NEW w, NEW m, NEW q, NEW l, NEW c, NEW o, NEW f, NEW d,
           SessionRight(B, w, m, "erasing", q, l, c, o, f, d),
           NEW e, e = (IF o = npos THEN Erased(c, Chars[m] - 1) ELSE Erased(From(c, o[1], o[2]), Chars[m]))
    PROVE  SessionRight(B, w, m, "cutting", q, l, e, o, f, d)
<1>1. Sound(q, B) /\ m \in B /\ Erasing(q, B, m, c, o, f) /\ Alone(w, m, q, f)
  BY DEF SessionRight, Cutting
<1>2. Cuts(q, B, m, e, f)
  BY <1>1, CutsErased
<1>3. "cutting" \notin Fetching /\ "cutting" \in Cutting
  BY DEF Fetching, Cutting
<1> QED
  BY <1>1, <1>2, <1>3 DEF SessionRight

\* The loop is left.
LEMMA RightSaved ==
    ASSUME NEW B, NEW w, NEW m, NEW q, NEW l, NEW c, NEW o, NEW f, NEW d,
           SessionRight(B, w, m, "cutting", q, l, c, o, f, d), ~Has(c, m), f.found, NEW e
    PROVE  /\ SessionRight(B, w, m, "saved", q, l, e, o, f, Saved(f.data))
           /\ m = q.boundary =>
                 f.name = q.name /\ f.secured = q.secured /\ <<f.data>> = q.data
<1>1. Sound(q, B) /\ m \in B /\ Cuts(q, B, m, c, f) /\ Alone(w, m, q, f)
  BY DEF SessionRight, Cutting
<1>2. Found(q, f) /\ (m = q.boundary => f.name = q.name /\ f.secured = q.secured)
  BY <1>1, CutsEnd
<1>3. <<f.data>> = q.data /\ (q.client = "curl" /\ f.secured => f.name = q.name)
  BY <1>2 DEF Found
<1>4. Saved(f.data) = f.data
  <2>1. PICK d0 \in Line : q.data = <<d0>> /\ ~Contains(d0, "NUL")
    BY Zenon, <1>1 DEF Sound
  <2>2. f.data = d0
    BY <1>3, <2>1
  <2> QED
    BY <2>1, <2>2, SavedAll
<1>5. w = 1 => <<f.name, f.secured>> \in {<<q.name, q.secured>>, << <<>>, FALSE>>}
  <2>1. CASE m = q.boundary
    BY <1>2, <2>1
  <2>2. CASE m # q.boundary
    <3>1. w = 1 => f.name = <<>> /\ f.secured = FALSE
      BY <1>1, <2>2 DEF Alone
    <3> QED
      BY <3>1
  <2> QED
    BY <2>1, <2>2
<1>6. "saved" \notin Fetching /\ "saved" \notin Cutting
  BY DEF Fetching, Cutting
<1> QED
  BY <1>1, <1>2, <1>3, <1>4, <1>5, <1>6 DEF SessionRight, Cutting

\* While one session holds the only thread no other takes a step of its own.
LEMMA OneBusy ==
    ASSUME FreeWorker, workers = 1, NEW s \in Sessions
    PROVE  pc[s] \notin Cutting
<1> SUFFICES ASSUME pc[s] \in Cutting PROVE FALSE
  OBVIOUS
<1>1. {s} \subseteq Busy
  BY DEF Busy
<1>2. Cardinality({s}) = 1
  BY FS_Singleton
<1>3. Cardinality({s}) <= Cardinality(Busy) /\ Cardinality(Busy) \in Nat
  BY <1>1, BusyFinite, FS_Subset
<1>4. Cardinality(Busy) < 1
  BY DEF FreeWorker, Busy
<1> QED
  BY <1>2, <1>3, <1>4

\* A step of one session that leaves the boundary as it is.
LEMMA RightStep ==
    ASSUME NEW B, SentIn(B), NEW s \in Sessions, Domains',
           workers' = workers /\ mBoundary' = mBoundary,
           \A x \in Sessions \ {s} :
              /\ pc'[x] = pc[x] /\ req'[x] = req[x] /\ left'[x] = left[x]
              /\ content'[x] = content[x] /\ pos'[x] = pos[x] /\ form'[x] = form[x] /\ file'[x] = file[x],
           SessionRight(B, workers, mBoundary, pc'[s], req'[s], left'[s], content'[s], pos'[s], form'[s], file'[s])
    PROVE  SentIn(B)'
<1>1. ASSUME NEW x \in Sessions PROVE RightIn(B, x)'
  <2>1. CASE x = s
    BY Zenon, <2>1 DEF RightIn
  <2>2. CASE x # s
    <3>1. RightIn(B, x) /\ x \in Sessions \ {s}
      BY <2>2 DEF SentIn
    <3> QED
      BY Zenon, <3>1 DEF RightIn
  <2> QED
    BY <2>1, <2>2
<1> QED
  BY Zenon, <1>1 DEF SentIn

LEMMA SentPost ==
    ASSUME NEW B, SentIn(B), StaysAway, NEW s \in Sessions, NEW r \in Requests, Sound(r, B), Post(s, r)
    PROVE  SentIn(B)'
<1>1. Domains /\ RightIn(B, s)
  BY DEF SentIn
<1>2. /\ Domains' /\ workers' = workers /\ mBoundary' = r.boundary /\ FreeWorker /\ pc[s] = "idle"
      /\ \A x \in Sessions \ {s} :
            /\ pc'[x] = pc[x] /\ req'[x] = req[x] /\ left'[x] = left[x]
            /\ content'[x] = content[x] /\ pos'[x] = pos[x] /\ form'[x] = form[x] /\ file'[x] = file[x]
      /\ pc'[s] = (IF r.client = "curl" THEN "size" ELSE "length") /\ req'[s] = r /\ left'[s] = r.chunks
      /\ content'[s] = content[s] /\ pos'[s] = pos[s] /\ form'[s] = form[s]
  BY <1>1 DEF Post, Domains
<1>3. content[s] = EmptyText /\ form[s] = NoForm
  BY <1>1, <1>2 DEF RightIn, SessionRight
<1>4. r.boundary \in B
  BY DEF Sound
<1>5. RightIn(B, s)'
  <2>1. SessionRight(B, workers, r.boundary, IF r.client = "curl" THEN "size" ELSE "length",
                     r, r.chunks, EmptyText, pos'[s], NoForm, file'[s])
    BY RightPost
  <2> QED
    BY Zenon, <1>2, <1>3, <2>1 DEF RightIn
<1>6. ASSUME NEW x \in Sessions, x # s PROVE RightIn(B, x)'
  <2>1. SessionRight(B, workers, mBoundary, pc[x], req[x], left[x], content[x], pos[x], form[x], file[x])
    BY Zenon DEF SentIn, RightIn
  <2>2. pc[x] \in Cutting => workers # 1 /\ (mBoundary # req[x].boundary => r.boundary # req[x].boundary)
    <3>1. ASSUME pc[x] \in Cutting PROVE workers # 1
      BY <1>2, <3>1, OneBusy
    <3>2. pc[x] \in Cutting => (mBoundary # req[x].boundary => r.boundary # req[x].boundary)
      BY Zenon, <1>2 DEF StaysAway
    <3> QED
      BY Zenon, <3>1, <3>2
  <2>3. SessionRight(B, workers, r.boundary, pc[x], req[x], left[x], content[x], pos[x], form[x], file[x])
    BY <1>4, <2>1, <2>2, RightReplaced
  <2> QED
    BY Zenon, <1>2, <1>6, <2>3 DEF RightIn
<1> QED
  BY Zenon, <1>2, <1>5, <1>6 DEF SentIn

LEMMA SentFetch ==
    ASSUME NEW B, SentIn(B), NEW s \in Sessions, Fetch(s)
    PROVE  SentIn(B)'
<1> DEFINE w == workers
           m == mBoundary
           q == req[s]
           l == left[s]
           c == content[s]
           o == pos[s]
           f == form[s]
           d == file[s]
<1>1. Domains /\ SessionRight(B, w, m, pc[s], q, l, c, o, f, d)
  BY Zenon DEF SentIn, RightIn
<1>2. /\ Domains' /\ workers' = workers /\ mBoundary' = mBoundary
      /\ \A x \in Sessions \ {s} :
            /\ pc'[x] = pc[x] /\ req'[x] = req[x] /\ left'[x] = left[x]
            /\ content'[x] = content[x] /\ pos'[x] = pos[x] /\ form'[x] = form[x] /\ file'[x] = file[x]
      /\ req'[s] = q /\ pos'[s] = o /\ form'[s] = f /\ file'[s] = d
  BY <1>1 DEF Fetch, ReadChunkSize, ReadChunk, LastChunk, ReadBody, Fetched, Domains
<1>3. SessionRight(B, w, m, pc'[s], q, left'[s], content'[s], o, f, d)
  <2>1. CASE ReadChunkSize(s)
    <3>1. /\ pc[s] = "size" /\ l # <<>> /\ pc'[s] = "chunk" /\ left'[s] = l
          /\ content'[s] = Glue(c, << <<"size">>, <<>> >>)
      BY <1>1, <2>1 DEF ReadChunkSize, Fetched, Domains
    <3> HIDE DEF l, c
    <3>2. Waits(q, B, "size", l, c)
      BY Zenon, <1>1, <3>1 DEF SessionRight, Fetching
    <3>3. Waits(q, B, "chunk", l, Glue(c, << <<"size">>, <<>> >>))
      BY <3>1, <3>2, WaitsSize
    <3>4. pc[s] \in Fetching
      BY <3>1 DEF Fetching
    <3>5. Waits(q, B, "chunk", left'[s], content'[s]) /\ "chunk" \in {"size", "chunk"}
      BY Zenon, <3>1, <3>3
    <3>6. SessionRight(B, w, m, "chunk", q, left'[s], content'[s], o, f, d)
      BY <1>1, <3>4, <3>5, RightFetched
    <3> QED
      BY Zenon, <3>1, <3>6
  <2>2. CASE ReadChunk(s)
    <3>1. /\ pc[s] = "chunk" /\ pc'[s] = "size" /\ left'[s] = Tail(l)
          /\ content'[s] = Glue(c, Append(Head(l), <<>>))
      BY <1>1, <2>2 DEF ReadChunk, Fetched, Domains
    <3> HIDE DEF l, c
    <3>2. Waits(q, B, "chunk", l, c)
      BY Zenon, <1>1, <3>1 DEF SessionRight, Fetching
    <3>3. Waits(q, B, "size", Tail(l), Glue(c, Append(Head(l), <<>>)))
      BY <3>2, WaitsChunk
    <3>4. pc[s] \in Fetching
      BY <3>1 DEF Fetching
    <3>5. Waits(q, B, "size", left'[s], content'[s]) /\ "size" \in {"size", "chunk"}
      BY Zenon, <3>1, <3>3
    <3>6. SessionRight(B, w, m, "size", q, left'[s], content'[s], o, f, d)
      BY <1>1, <3>4, <3>5, RightFetched
    <3> QED
      BY Zenon, <3>1, <3>6
  <2>3. CASE LastChunk(s)
    <3>1. /\ pc[s] = "size" /\ l = <<>> /\ pc'[s] = "cutting"
          /\ content'[s] = Glue(c, << <<"0">>, <<>> >>)
      BY <1>1, <2>3 DEF LastChunk, Fetched, Domains
    <3> HIDE DEF l, c
    <3>2. Waits(q, B, "size", <<>>, c)
      BY Zenon, <1>1, <3>1 DEF SessionRight, Fetching
    <3>3. Cuts(q, B, m, Glue(c, << <<"0">>, <<>> >>), NoForm)
      BY <3>2, WaitsLast
    <3>4. pc[s] \in Fetching /\ Cuts(q, B, m, content'[s], NoForm)
      BY Zenon, <3>1, <3>3 DEF Fetching
    <3>5. SessionRight(B, w, m, "cutting", q, left'[s], content'[s], o, f, d)
      BY <1>1, <3>4, RightComplete
    <3> QED
      BY Zenon, <3>1, <3>5
  <2>4. CASE ReadBody(s)
    <3>1. pc[s] = "length" /\ pc'[s] = "cutting" /\ content'[s] = Glue(c, Head(l))
      BY <1>1, <2>4 DEF ReadBody, Fetched, Domains
    <3> HIDE DEF l, c
    <3>2. Waits(q, B, "length", l, c)
      BY Zenon, <1>1, <3>1 DEF SessionRight, Fetching
    <3>3. Cuts(q, B, m, Glue(c, Head(l)), NoForm)
      BY <3>2, WaitsBody
    <3>4. pc[s] \in Fetching /\ Cuts(q, B, m, content'[s], NoForm)
      BY Zenon, <3>1, <3>3 DEF Fetching
    <3>5. SessionRight(B, w, m, "cutting", q, left'[s], content'[s], o, f, d)
      BY <1>1, <3>4, RightComplete
    <3> QED
      BY Zenon, <3>1, <3>5
  <2> QED
    BY <2>1, <2>2, <2>3, <2>4 DEF Fetch
<1>4. SessionRight(B, workers, mBoundary, pc'[s], req'[s], left'[s], content'[s], pos'[s], form'[s], file'[s])
  BY Zenon, <1>2, <1>3
<1> QED
  BY <1>2, <1>4, RightStep

\* A step of the loop over the parts; and what is saved with the boundary of
\* the request.
AllFound(s) ==
    pc'[s] = "saved" /\ mBoundary = req[s].boundary =>
        /\ form[s].name = req[s].name
        /\ form[s].secured = req[s].secured
        /\ <<form[s].data>> = req[s].data

LEMMA SentCut ==
    ASSUME NEW B, SentIn(B), NEW s \in Sessions, Cut(s)
    PROVE  SentIn(B)' /\ AllFound(s)
<1> DEFINE w == workers
           m == mBoundary
           q == req[s]
           l == left[s]
           c == content[s]
           o == pos[s]
           f == form[s]
           d == file[s]
<1>1. Domains /\ SessionRight(B, w, m, pc[s], q, l, c, o, f, d)
  BY Zenon DEF SentIn, RightIn
<1>2. /\ Domains' /\ workers' = workers /\ mBoundary' = mBoundary
      /\ \A x \in Sessions \ {s} :
            /\ pc'[x] = pc[x] /\ req'[x] = req[x] /\ left'[x] = left[x]
            /\ content'[x] = content[x] /\ pos'[x] = pos[x] /\ form'[x] = form[x] /\ file'[x] = file[x]
      /\ req'[s] = q /\ left'[s] = l
  BY <1>1 DEF Cut, FindPart, TryAgain, Erase, Save, Domains
<1>3. /\ SessionRight(B, w, m, pc'[s], q, l, content'[s], pos'[s], form'[s], file'[s])
      /\ AllFound(s)
  <2>1. CASE FindPart(s)
    <3>1. /\ pc[s] = "cutting" /\ Has(c, m) /\ pc'[s] = "erasing" /\ content'[s] = c
          /\ pos'[s] = Find(c, m) /\ form'[s] = WithPart(f, Before(m)[c]) /\ file'[s] = d
      BY <1>1, <2>1 DEF FindPart, Domains
    <3> HIDE DEF l, c, o, f, d, q, m, w
    <3>2. SessionRight(B, w, m, "cutting", q, l, c, o, f, d)
      BY Zenon, <1>1, <3>1
    <3>3. SessionRight(B, w, m, "erasing", q, l, c, Find(c, m), WithPart(f, Before(m)[c]), d)
      BY <3>1, <3>2, RightPart
    <3>4. AllFound(s)
      BY <3>1 DEF AllFound
    <3> QED
      BY Zenon, <3>1, <3>3, <3>4
  <2>2. CASE TryAgain(s)
    <3>1. /\ pc[s] = "cutting" /\ ~f.found /\ ~Has(c, m) /\ pc'[s] = "erasing" /\ content'[s] = c
          /\ pos'[s] = npos /\ file'[s] = d
          /\ form'[s] = [f EXCEPT !.data = DataIn(f, c), !.found = Has(c, "FileData")]
      BY <1>1, <2>2 DEF TryAgain, Domains
    <3> HIDE DEF l, c, o, f, d, q, m, w
    <3>2. SessionRight(B, w, m, "cutting", q, l, c, o, f, d)
      BY Zenon, <1>1, <3>1
    <3>3. SessionRight(B, w, m, "erasing", q, l, c, npos, form'[s], d)
      BY <3>1, <3>2, RightAgain
    <3>4. AllFound(s)
      BY <3>1 DEF AllFound
    <3> QED
      BY Zenon, <3>1, <3>3, <3>4
  <2>3. CASE Erase(s)
    <3>1. /\ pc[s] = "erasing" /\ pc'[s] = "cutting" /\ pos'[s] = o /\ form'[s] = f /\ file'[s] = d
          /\ content'[s] = (IF o = npos THEN Erased(c, Chars[m] - 1)
                            ELSE Erased(From(c, o[1], o[2]), Chars[m]))
      BY <1>1, <2>3 DEF Erase, Domains
    <3> HIDE DEF l, c, o, f, d, q, m, w
    <3>2. SessionRight(B, w, m, "erasing", q, l, c, o, f, d)
      BY Zenon, <1>1, <3>1
    <3>3. SessionRight(B, w, m, "cutting", q, l, content'[s], o, f, d)
      BY <3>1, <3>2, RightErase
    <3>4. AllFound(s)
      BY <3>1 DEF AllFound
    <3> QED
      BY Zenon, <3>1, <3>3, <3>4
  <2>4. CASE Save(s)
    <3>1. /\ pc[s] = "cutting" /\ f.found /\ ~Has(c, m) /\ pc'[s] = "saved" /\ content'[s] = EmptyText
          /\ pos'[s] = o /\ form'[s] = f /\ file'[s] = Saved(f.data)
      BY <1>1, <2>4 DEF Save, Domains
    <3> HIDE DEF l, c, o, f, d, q, m, w
    <3>2. SessionRight(B, w, m, "cutting", q, l, c, o, f, d)
      BY Zenon, <1>1, <3>1
    <3>3. /\ SessionRight(B, w, m, "saved", q, l, EmptyText, o, f, Saved(f.data))
          /\ m = q.boundary =>
                f.name = q.name /\ f.secured = q.secured /\ <<f.data>> = q.data
      BY <3>1, <3>2, RightSaved
    <3>4. AllFound(s)
      BY Zenon, <3>3 DEF AllFound, f, q, m
    <3> QED
      BY Zenon, <3>1, <3>3, <3>4
  <2> QED
    BY <2>1, <2>2, <2>3, <2>4 DEF Cut
<1>4. SessionRight(B, workers, mBoundary, pc'[s], req'[s], left'[s], content'[s], pos'[s], form'[s], file'[s])
  BY Zenon, <1>2, <1>3
<1>5. SentIn(B)'
  BY <1>2, <1>4, RightStep
<1> QED
  BY <1>3, <1>5

\* One step of ParsedAsSent.
Parsed ==
    \A s \in Sessions :
       pc'[s] = "saved" /\ pc[s] # "saved" /\ mBoundary = req[s].boundary =>
          /\ form[s].name = req[s].name
          /\ form[s].secured = req[s].secured
          /\ <<form[s].data>> = req[s].data

LEMMA SentInit == ASSUME NEW B, Init PROVE SentIn(B)
<1>1. ASSUME NEW s \in Sessions PROVE RightIn(B, s)
  BY DEF Init, RightIn, SessionRight, Fetching, Cutting
<1>2. Domains
  BY DEF Init, Domains
<1> QED
  BY <1>1, <1>2 DEF SentIn

LEMMA SentNext ==
    ASSUME NEW B, \A r \in Requests : Sound(r, B),
           SentIn(B), [Next]_vars, StaysAway \/ UNCHANGED vars
    PROVE  SentIn(B)' /\ (Parsed \/ UNCHANGED vars)
<1>1. CASE UNCHANGED vars
  <2>1. SentIn(B)'
    BY <1>1 DEF vars, SentIn, Domains, RightIn
  <2> QED
    BY <1>1, <2>1
<1>2. CASE StaysAway /\ Next
  <2>1. ASSUME NEW s \in Sessions, NEW r \in Requests, Post(s, r)
        PROVE  SentIn(B)' /\ Parsed
    <3>1. SentIn(B)'
      BY <1>2, <2>1, SentPost
    <3>2. Domains /\ pc' = [pc EXCEPT ![s] = IF r.client = "curl" THEN "size" ELSE "length"]
      BY <2>1 DEF Post, SentIn
    <3>3. ASSUME NEW x \in Sessions, pc[x] # "saved" PROVE pc'[x] # "saved"
      BY <3>2, <3>3 DEF Domains
    <3> QED
      BY <3>1, <3>3 DEF Parsed
  <2>2. ASSUME NEW s \in Sessions, Fetch(s)
        PROVE  SentIn(B)' /\ Parsed
    <3>1. SentIn(B)'
      BY <2>2, SentFetch
    <3>2. Domains /\ \E p \in {"size", "chunk", "cutting"} : pc' = [pc EXCEPT ![s] = p]
      BY <2>2 DEF Fetch, ReadChunkSize, ReadChunk, LastChunk, ReadBody, Fetched, SentIn
    <3>3. ASSUME NEW x \in Sessions, pc[x] # "saved" PROVE pc'[x] # "saved"
      BY <3>2, <3>3 DEF Domains
    <3> QED
      BY <3>1, <3>3 DEF Parsed
  <2>3. ASSUME NEW s \in Sessions, Cut(s)
        PROVE  SentIn(B)' /\ Parsed
    <3>1. SentIn(B)' /\ AllFound(s)
      BY <2>3, SentCut
    <3>2. Domains /\ \E p \in Cutting \cup {"saved"} : pc' = [pc EXCEPT ![s] = p]
      BY <2>3 DEF Cut, FindPart, TryAgain, Erase, Save, SentIn, Cutting
    <3>3. ASSUME NEW x \in Sessions, x # s PROVE pc'[x] = pc[x]
      BY <3>2, <3>3 DEF Domains
    <3> QED
      BY Zenon, <3>1, <3>3 DEF Parsed, AllFound
  <2> QED
    BY <1>2, <2>1, <2>2, <2>3 DEF Next
<1> QED
  BY <1>1, <1>2

\* What the theorems are about: clients send files of lines, as those of the
\* repository do.
LineFilesAreSent == \E sent : AreLineFiles(sent) /\ Requests = {Request(r) : r \in sent}

\* The inductive invariant, of the boundaries that are sent.
SentInv == \E B : (\A r \in Requests : Sound(r, B)) /\ SentIn(B)

LEMMA SentBegins == ASSUME LineFilesAreSent, Init PROVE SentInv
<1>1. PICK sent : AreLineFiles(sent) /\ Requests = {Request(r) : r \in sent}
  BY Zenon DEF LineFilesAreSent
<1> DEFINE B == {r.boundary : r \in sent}
<1>2. ASSUME NEW r \in sent PROVE Sound(Request(r), B)
  BY <1>1, RequestSound
<1>3. \A r \in Requests : Sound(r, B)
  BY Zenon, <1>1, <1>2
<1> HIDE DEF B
<1>4. SentIn(B)
  BY SentInit
<1> QED
  BY Zenon, <1>3, <1>4 DEF SentInv

\* While a boundary stays away the invariant holds, and all that is found with
\* the boundary of the request was sent.
LEMMA SentHolds ==
    ASSUME LineFilesAreSent
    PROVE  Spec /\ BoundaryStaysAway => []SentInv /\ ParsedAsSent
<1>1. Init => SentInv
  BY SentBegins
<1>2. SentInv /\ [Next]_vars /\ [StaysAway]_vars => SentInv' /\ [Parsed]_vars
  <2> SUFFICES ASSUME SentInv, [Next]_vars, [StaysAway]_vars PROVE SentInv' /\ [Parsed]_vars
    OBVIOUS
  <2>1. PICK B : (\A r \in Requests : Sound(r, B)) /\ SentIn(B)
    BY Zenon DEF SentInv
  <2>2. SentIn(B)' /\ (Parsed \/ UNCHANGED vars)
    BY <2>1, SentNext
  <2> QED
    BY Zenon, <2>1, <2>2 DEF SentInv
<1> QED
  BY <1>1, <1>2, PTL DEF Spec, BoundaryStaysAway, ParsedAsSent, StaysAway, Parsed

\* On one thread no other POST comes between two parts of a body, so the
\* boundary is not replaced while it is cut up.
THEOREM OneThread == Spec /\ workers = 1 => BoundaryStaysAway
<1>1. workers = 1 /\ [Next]_vars => (workers = 1)'
  BY DEF Next, Post, Fetch, ReadChunkSize, ReadChunk, LastChunk, ReadBody, Fetched, Cut, FindPart, TryAgain, Erase, Save, vars
<1>2. workers = 1 /\ [Next]_vars => [StaysAway]_vars
  <2> SUFFICES ASSUME workers = 1, Next PROVE StaysAway
    OBVIOUS
  <2>1. CASE \E s \in Sessions, r \in Requests : Post(s, r)
    <3>1. FreeWorker
      BY <2>1 DEF Post
    <3> QED
      BY <3>1, OneBusy DEF StaysAway
  <2>2. CASE \E s \in Sessions : Fetch(s) \/ Cut(s)
    <3>1. mBoundary' = mBoundary
      BY <2>2 DEF Fetch, ReadChunkSize, ReadChunk, LastChunk, ReadBody, Fetched, Cut, FindPart, TryAgain, Erase, Save
    <3> QED
      BY <3>1 DEF StaysAway
  <2> QED
    BY <2>1, <2>2 DEF Next
<1> QED
  BY <1>1, <1>2, PTL DEF Spec, BoundaryStaysAway, StaysAway

\* While a body is cut up no other is asked for under its boundary.
OwnBoundaries ==
    \A s, t \in Sessions :
       s # t /\ pc[s] \in Cutting /\ pc[t] \in {"size", "length"} => req[s].boundary # req[t].boundary

\* When every upload has a boundary of its own, as those of curl have, none is
\* replaced and comes back.
THEOREM OwnStaysAway == Spec /\ []OwnBoundaries => BoundaryStaysAway
<1>1. Init => TypeInv
  BY TypeInit
<1>2. TypeInv /\ [Next]_vars => TypeInv'
  BY TypeNext
<1>3. TypeInv /\ [Next]_vars /\ OwnBoundaries' => [StaysAway]_vars
  <2> SUFFICES ASSUME TypeInv, Next, OwnBoundaries' PROVE StaysAway
    OBVIOUS
  <2>1. ASSUME NEW t \in Sessions, NEW r \in Requests, Post(t, r), NEW s \in Sessions, pc[s] \in Cutting
        PROVE  mBoundary' # req[s].boundary
    <3>1. /\ s # t /\ pc'[s] \in Cutting /\ pc'[t] \in {"size", "length"}
          /\ req'[s] = req[s] /\ req'[t] = r /\ mBoundary' = r.boundary
      BY <2>1 DEF Post, TypeInv, Domains, Cutting
    <3>2. req'[s].boundary # req'[t].boundary
      BY <3>1 DEF OwnBoundaries
    <3> QED
      BY <3>1, <3>2
  <2>2. CASE \E s \in Sessions : Fetch(s) \/ Cut(s)
    <3>1. mBoundary' = mBoundary
      BY <2>2 DEF Fetch, ReadChunkSize, ReadChunk, LastChunk, ReadBody, Fetched, Cut, FindPart, TryAgain, Erase, Save
    <3> QED
      BY <3>1 DEF StaysAway
  <2> QED
    BY <2>1, <2>2 DEF Next, StaysAway
<1> QED
  BY <1>1, <1>2, <1>3, PTL DEF Spec, BoundaryStaysAway, StaysAway

\* A boundary was replaced by the POST of another session.
Replaced ==
    \A s \in Sessions :
       pc[s] # "idle" /\ mBoundary # req[s].boundary => \E t \in Sessions \ {s} : pc[t] # "idle"

\* With two sessions, as in the model checker's instance, there is none whose
\* POST could bring the boundary back.
THEOREM TwoStayAway == ASSUME NEW a, NEW b, Sessions = {a, b} PROVE Spec => BoundaryStaysAway
<1>1. Init => Domains /\ Replaced
  BY DEF Init, Domains, Replaced
<1>2. Domains /\ Replaced /\ [Next]_vars => (Domains /\ Replaced)' /\ [StaysAway]_vars
  <2> SUFFICES ASSUME Domains, Replaced, [Next]_vars PROVE (Domains /\ Replaced)' /\ [StaysAway]_vars
    OBVIOUS
  <2>1. CASE UNCHANGED vars
    BY <2>1 DEF vars, Domains, Replaced
  <2>2. ASSUME NEW x \in Sessions, NEW r \in Requests, Post(x, r)
        PROVE  (Domains /\ Replaced)' /\ StaysAway
    <3>1. /\ Domains' /\ pc[x] = "idle" /\ pc'[x] # "idle" /\ mBoundary' = req'[x].boundary
          /\ \A y \in Sessions \ {x} : pc'[y] = pc[y] /\ req'[y] = req[y]
      BY <2>2 DEF Post, Domains
    <3>2. Replaced'
      BY <3>1 DEF Replaced
    <3>3. StaysAway
      BY <3>1 DEF StaysAway, Replaced, Cutting
    <3> QED
      BY <3>1, <3>2, <3>3
  <2>3. ASSUME NEW x \in Sessions, Fetch(x) \/ Cut(x)
        PROVE  (Domains /\ Replaced)' /\ StaysAway
    <3>1. /\ Domains' /\ mBoundary' = mBoundary /\ req' = req
          /\ \A y \in Sessions : pc'[y] # "idle" <=> pc[y] # "idle"
      BY <2>3 DEF Fetch, ReadChunkSize, ReadChunk, LastChunk, ReadBody, Fetched, Cut, FindPart, TryAgain, Erase, Save, Domains
    <3>2. Replaced' /\ StaysAway
      BY <3>1 DEF Replaced, StaysAway
    <3> QED
      BY <3>1, <3>2
  <2> QED
    BY <2>1, <2>2, <2>3 DEF Next
<1> QED
  BY <1>1, <1>2, PTL DEF Spec, BoundaryStaysAway, StaysAway

\* The file that is forwarded or stored is the one that was sent, in however
\* many chunks it came, whatever boundary the loop over its parts sees, in the
\* find as in the erase of the same iteration and of whatever length, and even
\* when the goto looks for it in the whole text.
THEOREM FilesAsSent ==
    ASSUME LineFilesAreSent
    PROVE  Spec /\ BoundaryStaysAway => []FileAsSent
<1>1. Spec /\ BoundaryStaysAway => []SentInv /\ ParsedAsSent
  BY SentHolds
<1>2. SentInv => FileAsSent
  BY DEF SentInv, SentIn, RightIn, SessionRight, FileAsSent
<1> QED
  BY <1>1, <1>2, PTL

\* A table that curl sends is never stored without its name, at whichever find
\* or erase the boundary is replaced.
THEOREM SecuredAreNamed ==
    ASSUME LineFilesAreSent
    PROVE  Spec /\ BoundaryStaysAway => []SecuredIsNamed
<1>1. Spec /\ BoundaryStaysAway => []SentInv /\ ParsedAsSent
  BY SentHolds
<1>2. SentInv => SecuredIsNamed
  BY DEF SentInv, SentIn, RightIn, SessionRight, SecuredIsNamed
<1> QED
  BY <1>1, <1>2, PTL

\* With the boundary of the request the name, the flag and the file are found.
THEOREM AllParsed ==
    ASSUME LineFilesAreSent
    PROVE  Spec /\ BoundaryStaysAway => ParsedAsSent
<1>1. Spec /\ BoundaryStaysAway => []SentInv /\ ParsedAsSent
  BY SentHolds
<1> QED
  BY <1>1, PTL

\* On one thread the name and the flag are found together or not at all.
THEOREM FieldsFoundTogether ==
    ASSUME LineFilesAreSent
    PROVE  Spec => []FieldsTogether
<1>1. Spec /\ BoundaryStaysAway => []SentInv /\ ParsedAsSent
  BY SentHolds
<1>2. SentInv => FieldsTogether
  BY DEF SentInv, SentIn, RightIn, SessionRight, FieldsTogether
<1>3. Spec /\ workers = 1 => BoundaryStaysAway
  BY OneThread
<1>4. workers # 1 /\ [Next]_vars => (workers # 1)'
  BY DEF Next, Post, Fetch, ReadChunkSize, ReadChunk, LastChunk, ReadBody, Fetched, Cut, FindPart, TryAgain, Erase, Save, vars
<1>5. workers # 1 => FieldsTogether
  BY DEF FieldsTogether
<1>6. workers = 1 \/ workers # 1
  OBVIOUS
<1> QED
  BY <1>1, <1>2, <1>3, <1>4, <1>5, <1>6, PTL DEF Spec
=============================================================================
