------------------------ MODULE BPlusTreeOrderProofs ------------------------
(***************************************************************************)
(* Every action of the B+ tree keeps its order: the keys ascend, those of  *)
(* an inner node separate the keys below its children, and the leaves are  *)
(* linked in order.                                                        *)
(***************************************************************************)
EXTENDS BPlusTreeShapeProofs

-----------------------------------------------------------------------------
(* Keys within bounds                                                      *)

\* The elements of s are numbers.
Numbers(s) == Len(s) \in Nat /\ \A i \in 1..Len(s) : s[i] \in Nat

\* A key put in where it belongs.
LEMMA WithinPutIn ==
    ASSUME NEW s, NEW t, NEW i, NEW k \in Nat, NEW from \in Nat, NEW to \in Nat,
           Numbers(s), KeysWithin(s, from, to), from <= k, Below(k, to),
           i \in 1..(Len(s) + 1), PutIn(t, s, i, k),
           \A j \in 1..(i - 1) : s[j] < k, i <= Len(s) => k < s[i]
    PROVE  Numbers(t) /\ KeysWithin(t, from, to)
<1>1. /\ Len(s) \in Nat /\ \A j \in 1..Len(s) : s[j] \in Nat /\ from <= s[j] /\ Below(s[j], to)
      /\ \A j, l \in 1..Len(s) : j < l => s[j] < s[l]
  BY DEF Numbers, KeysWithin, Ascending
<1>2. /\ Len(t) = Len(s) + 1
      /\ \A j \in 1..Len(t) : t[j] = IF j < i THEN s[j] ELSE IF j = i THEN k ELSE s[j - 1]
  BY <1>1 DEF PutIn
<1>3. Numbers(t) /\ \A j \in 1..Len(t) : from <= t[j] /\ Below(t[j], to)
  <2>1. \A j \in 1..Len(t) : t[j] = k \/ \E l \in 1..Len(s) : t[j] = s[l]
    BY <1>1, <1>2
  <2>2. ASSUME NEW j \in 1..Len(t) PROVE t[j] \in Nat /\ from <= t[j] /\ Below(t[j], to)
    BY <1>1, <2>1
  <2>3. Len(t) \in Nat
    BY <1>1, <1>2
  <2> QED
    BY <2>2, <2>3 DEF Numbers
<1>4. ASSUME NEW j \in 1..Len(t), NEW l \in 1..Len(t), j < l PROVE t[j] < t[l]
  <2>1. ASSUME NEW d \in 1..Len(s), d >= i PROVE k < s[d]
    BY <1>1, <2>1
  <2>2. CASE l < i
    BY <1>1, <1>2, <1>4, <2>2
  <2>3. CASE l = i
    BY <1>1, <1>2, <1>4, <2>3
  <2>4. CASE l > i /\ j < i
    BY SMTT(30), <1>1, <1>2, <1>4, <2>4
  <2>5. CASE l > i /\ j = i
    BY <1>1, <1>2, <1>4, <2>1, <2>5
  <2>6. CASE l > i /\ j > i
    <3>1. j - 1 \in 1..Len(s) /\ l - 1 \in 1..Len(s) /\ j - 1 < l - 1
      BY <1>1, <1>2, <1>4, <2>6
    <3>2. t[j] = s[j - 1] /\ t[l] = s[l - 1]
      BY <1>1, <1>2, <2>6
    <3> QED
      BY <1>1, <3>1, <3>2
  <2> QED
    BY <1>1, <1>2, <2>2, <2>3, <2>4, <2>5, <2>6
<1> QED
  BY <1>3, <1>4 DEF KeysWithin, Ascending

\* The two halves of a sequence of keys, by the first key of the second.
LEMMA WithinHalves ==
    ASSUME NEW s, NEW t, NEW u, NEW m, NEW n, NEW from \in Nat, NEW to \in Nat,
           Numbers(s), KeysWithin(s, from, to), n = Len(s), m \in 1..(n - 1),
           PartOf(t, s, 1, m), PartOf(u, s, m + 1, n)
    PROVE  /\ Numbers(t) /\ KeysWithin(t, from, s[m + 1])
           /\ Numbers(u) /\ KeysWithin(u, s[m + 1], to)
           /\ s[m + 1] \in Nat /\ from < s[m + 1]
<1>1. /\ n \in Nat /\ \A j \in 1..n : s[j] \in Nat /\ from <= s[j] /\ Below(s[j], to)
      /\ \A j, l \in 1..n : j < l => s[j] < s[l]
  BY DEF Numbers, KeysWithin, Ascending
<1>2. Len(t) = m /\ \A j \in 1..m : t[j] = s[j]
  BY <1>1 DEF PartOf
<1>3. Len(u) = n - m /\ \A j \in 1..(n - m) : u[j] = s[m + j] /\ m + j \in 1..n
  BY <1>1 DEF PartOf
<1>4. m + 1 \in 1..n /\ s[m + 1] \in Nat /\ from <= s[m] /\ s[m] < s[m + 1] /\ s[m] \in Nat
  BY <1>1
<1>5. Numbers(t) /\ KeysWithin(t, from, s[m + 1])
  BY SMTT(30), <1>1, <1>2, <1>4 DEF Numbers, KeysWithin, Ascending, Below
<1>6. \A j \in 1..(n - m) : s[m + 1] <= s[m + j]
  BY <1>1, <1>4
<1>7. Numbers(u) /\ KeysWithin(u, s[m + 1], to)
  BY SMTT(30), <1>1, <1>3, <1>4, <1>6 DEF Numbers, KeysWithin, Ascending
<1> QED
  BY <1>4, <1>5, <1>7

\* A key taken out.
LEMMA WithinTakenOut ==
    ASSUME NEW s, NEW t, NEW i, NEW from \in Nat, NEW to \in Nat,
           Numbers(s), KeysWithin(s, from, to), i \in 1..Len(s), TakenOut(t, s, i)
    PROVE  Numbers(t) /\ KeysWithin(t, from, to)
<1>1. /\ Len(s) \in Nat /\ \A j \in 1..Len(s) : s[j] \in Nat /\ from <= s[j] /\ Below(s[j], to)
      /\ \A j, l \in 1..Len(s) : j < l => s[j] < s[l]
  BY DEF Numbers, KeysWithin, Ascending
<1>2. Len(t) = Len(s) - 1 /\ \A j \in 1..Len(t) : t[j] = IF j < i THEN s[j] ELSE s[j + 1]
  BY <1>1 DEF TakenOut
<1>3. Numbers(t) /\ \A j \in 1..Len(t) : from <= t[j] /\ Below(t[j], to)
  <2>1. ASSUME NEW j \in 1..Len(t) PROVE t[j] \in Nat /\ from <= t[j] /\ Below(t[j], to)
    <3>1. \E d \in 1..Len(s) : t[j] = s[d]
      BY <1>1, <1>2
    <3> QED
      BY <1>1, <3>1
  <2>2. Len(t) \in Nat
    BY <1>1, <1>2
  <2> QED
    BY <2>1, <2>2 DEF Numbers
<1>4. ASSUME NEW j \in 1..Len(t), NEW l \in 1..Len(t), j < l PROVE t[j] < t[l]
  <2>1. PICK d \in 1..Len(s) : t[j] = s[d] /\ d = IF j < i THEN j ELSE j + 1
    BY <1>1, <1>2
  <2>2. PICK e \in 1..Len(s) : t[l] = s[e] /\ e = IF l < i THEN l ELSE l + 1
    BY <1>1, <1>2
  <2>3. d < e
    BY <1>1, <1>2, <1>4, <2>1, <2>2
  <2> QED
    BY <1>1, <2>1, <2>2, <2>3
<1> QED
  BY <1>3, <1>4 DEF KeysWithin, Ascending

\* The keys of two leaves, one after the other.
LEMMA WithinJoined ==
    ASSUME NEW s, NEW t, NEW u, NEW from \in Nat, NEW mid \in Nat, NEW to \in Nat,
           Numbers(s), Numbers(u), KeysWithin(s, from, mid), KeysWithin(u, mid, to),
           from < mid, Joined(t, s, u)
    PROVE  Numbers(t) /\ KeysWithin(t, from, to)
<1>1. /\ Len(s) \in Nat /\ \A j \in 1..Len(s) : s[j] \in Nat /\ from <= s[j] /\ s[j] < mid
      /\ \A j, l \in 1..Len(s) : j < l => s[j] < s[l]
  BY DEF Numbers, KeysWithin, Ascending, Below
<1>2. /\ Len(u) \in Nat /\ \A j \in 1..Len(u) : u[j] \in Nat /\ mid <= u[j] /\ Below(u[j], to)
      /\ \A j, l \in 1..Len(u) : j < l => u[j] < u[l]
      /\ Below(mid, to)
  BY DEF Numbers, KeysWithin, Ascending
<1>3. /\ Len(t) = Len(s) + Len(u)
      /\ \A j \in 1..Len(t) :
           \/ j \in 1..Len(s) /\ t[j] = s[j]
           \/ j > Len(s) /\ j - Len(s) \in 1..Len(u) /\ t[j] = u[j - Len(s)]
  BY <1>1, <1>2, JoinedElements
<1>4. \A j \in 1..Len(s) : Below(s[j], to)
  BY <1>1, <1>2 DEF Below
<1>5. \A j \in 1..Len(u) : from <= u[j]
  BY <1>2
<1>6. Numbers(t) /\ \A j \in 1..Len(t) : from <= t[j] /\ Below(t[j], to)
  <2>1. ASSUME NEW j \in 1..Len(t) PROVE t[j] \in Nat /\ from <= t[j] /\ Below(t[j], to)
    <3>1. (\E d \in 1..Len(s) : t[j] = s[d]) \/ (\E d \in 1..Len(u) : t[j] = u[d])
      BY <1>3
    <3> QED
      BY <1>1, <1>2, <1>4, <1>5, <3>1
  <2>2. Len(t) \in Nat
    BY <1>1, <1>2, <1>3
  <2> QED
    BY <2>1, <2>2 DEF Numbers
<1>7. ASSUME NEW j \in 1..Len(t), NEW l \in 1..Len(t), j < l PROVE t[j] < t[l]
  <2>1. CASE l \in 1..Len(s)
    <3>1. j \in 1..Len(s) /\ ~(j > Len(s)) /\ ~(l > Len(s))
      BY <1>1, <1>7, <2>1
    <3>2. t[j] = s[j] /\ t[l] = s[l]
      BY <1>3, <3>1
    <3> QED
      BY <1>1, <1>7, <2>1, <3>1, <3>2
  <2>2. CASE j \in 1..Len(s) /\ l \notin 1..Len(s)
    <3>1. ~(j > Len(s))
      BY <1>1, <2>2
    <3>2. t[j] = s[j]
      BY <1>3, <3>1
    <3>3. PICK e \in 1..Len(u) : t[l] = u[e]
      BY <1>3, <2>2
    <3>4. s[j] < mid /\ mid <= u[e] /\ s[j] \in Nat /\ u[e] \in Nat
      BY <1>1, <1>2, <2>2
    <3> QED
      BY <3>2, <3>3, <3>4
  <2>3. CASE j \notin 1..Len(s)
    <3>1. j > Len(s) /\ j - Len(s) \in 1..Len(u) /\ t[j] = u[j - Len(s)]
      BY <1>3, <2>3
    <3>2. l > Len(s)
      BY <1>1, <1>3, <1>7, <3>1
    <3>3. l - Len(s) \in 1..Len(u) /\ t[l] = u[l - Len(s)]
      BY <1>1, <1>3, <3>2
    <3>4. j - Len(s) < l - Len(s)
      BY <1>1, <1>3, <1>7, <3>1
    <3> QED
      BY <1>2, <3>1, <3>3, <3>4
  <2> QED
    BY <2>1, <2>2, <2>3
<1>8. Below(from, to)
  BY <1>2 DEF Below
<1> QED
  BY <1>6, <1>7, <1>8 DEF KeysWithin, Ascending

\* The last key of a leaf goes to the leaf on its right.
LEMMA WithinLastMoved ==
    ASSUME NEW s, NEW t, NEW u, NEW v, NEW n, NEW from \in Nat, NEW mid \in Nat, NEW to \in Nat,
           Numbers(s), Numbers(u), KeysWithin(s, from, mid), KeysWithin(u, mid, to), from < mid,
           n = Len(s), n >= 2, TakenOut(t, s, n), PutIn(v, u, 1, s[n])
    PROVE  /\ Numbers(t) /\ KeysWithin(t, from, s[n])
           /\ Numbers(v) /\ KeysWithin(v, s[n], to)
           /\ s[n] \in Nat /\ from < s[n] /\ Below(s[n], to)
<1>1. /\ n \in Nat /\ \A j \in 1..n : s[j] \in Nat /\ from <= s[j] /\ s[j] < mid
      /\ \A j, l \in 1..n : j < l => s[j] < s[l]
  BY DEF Numbers, KeysWithin, Ascending, Below
<1>2. /\ Len(u) \in Nat /\ \A j \in 1..Len(u) : u[j] \in Nat /\ mid <= u[j] /\ Below(u[j], to)
      /\ \A j, l \in 1..Len(u) : j < l => u[j] < u[l]
      /\ Below(mid, to)
  BY DEF Numbers, KeysWithin, Ascending
<1>3. /\ s[n] \in Nat /\ s[n] < mid /\ from < s[n]
  <2>1. from <= s[1] /\ s[1] < s[n] /\ s[1] \in Nat /\ s[n] \in Nat /\ s[n] < mid
    BY <1>1
  <2> QED
    BY <2>1
<1>4. Len(t) = n - 1 /\ \A j \in 1..Len(t) : j \in 1..n /\ t[j] = s[j] /\ t[j] < s[n]
  <2>1. Len(t) = n - 1 /\ \A j \in 1..Len(t) : j \in 1..n /\ j < n /\ t[j] = s[j]
    BY <1>1 DEF TakenOut
  <2>2. n \in 1..n
    BY <1>1
  <2> QED
    BY <1>1, <2>1, <2>2
<1>5. Numbers(t) /\ KeysWithin(t, from, s[n])
  <2>1. ASSUME NEW j \in 1..Len(t) PROVE t[j] \in Nat /\ from <= t[j] /\ Below(t[j], s[n])
    BY <1>1, <1>4 DEF Below
  <2>2. \A j, l \in 1..Len(t) : j < l => t[j] < t[l]
    BY <1>1, <1>4
  <2>3. Len(t) \in Nat /\ Below(from, s[n])
    BY <1>1, <1>3, <1>4 DEF Below
  <2> QED
    BY <2>1, <2>2, <2>3 DEF Numbers, KeysWithin, Ascending
<1>6. Below(s[n], to)
  BY <1>2, <1>3 DEF Below
<1>7. KeysWithin(u, s[n], to)
  BY <1>2, <1>3, <1>6 DEF KeysWithin, Ascending
<1>8. 1 <= Len(u) => s[n] < u[1]
  BY <1>2, <1>3
<1>9. Numbers(v) /\ KeysWithin(v, s[n], to)
  <2>1. 1 \in 1..(Len(u) + 1) /\ \A j \in 1..(1 - 1) : u[j] < s[n]
    BY <1>2
  <2> QED
    BY <1>3, <1>6, <1>7, <1>8, <2>1, WithinPutIn
<1> QED
  BY <1>3, <1>5, <1>6, <1>9

\* The first key of a leaf goes to the leaf on its left.
FirstKeyMoves(s, t, u, v, n, from, mid, to) ==
    /\ from \in Nat /\ mid \in Nat /\ to \in Nat /\ Numbers(s) /\ Numbers(u)
    /\ KeysWithin(s, from, mid) /\ KeysWithin(u, mid, to) /\ from < mid
    /\ n = Len(s) + 1 /\ Len(u) >= 2 /\ PutIn(t, s, n, u[1]) /\ TakenOut(v, u, 1)

\* Then what is now the first key of that leaf comes between the two.
LEMMA WithinFirstMoved ==
    ASSUME NEW s, NEW t, NEW u, NEW v, NEW n, NEW from, NEW mid, NEW to,
           FirstKeyMoves(s, t, u, v, n, from, mid, to)
    PROVE  /\ Numbers(t) /\ KeysWithin(t, from, u[2])
           /\ Numbers(v) /\ KeysWithin(v, u[2], to)
           /\ u[2] \in Nat /\ from < u[2] /\ Below(u[2], to)
<1> /\ from \in Nat /\ mid \in Nat /\ to \in Nat /\ Numbers(s) /\ Numbers(u)
    /\ KeysWithin(s, from, mid) /\ KeysWithin(u, mid, to) /\ from < mid
    /\ n = Len(s) + 1 /\ Len(u) >= 2 /\ PutIn(t, s, n, u[1]) /\ TakenOut(v, u, 1)
  BY DEF FirstKeyMoves
<1>1. /\ Len(s) \in Nat /\ \A j \in 1..Len(s) : s[j] \in Nat /\ from <= s[j] /\ s[j] < mid
      /\ \A j, l \in 1..Len(s) : j < l => s[j] < s[l]
  BY DEF Numbers, KeysWithin, Ascending, Below
<1>2. /\ Len(u) \in Nat /\ \A j \in 1..Len(u) : u[j] \in Nat /\ mid <= u[j] /\ Below(u[j], to)
      /\ \A j, l \in 1..Len(u) : j < l => u[j] < u[l]
      /\ Below(mid, to)
  BY DEF Numbers, KeysWithin, Ascending
<1>3. u[1] \in Nat /\ u[2] \in Nat /\ mid <= u[1] /\ u[1] < u[2] /\ Below(u[2], to)
  BY <1>2
<1>4. from < u[2] /\ from <= u[1] /\ Below(u[1], u[2])
  BY <1>3 DEF Below
<1>5. KeysWithin(s, from, u[2])
  <2>1. \A j \in 1..Len(s) : Below(s[j], u[2])
    BY <1>1, <1>3 DEF Below
  <2>2. Below(from, u[2])
    BY <1>4 DEF Below
  <2> QED
    BY <1>1, <2>1, <2>2 DEF KeysWithin, Ascending
<1>6. Numbers(t) /\ KeysWithin(t, from, u[2])
  <2> DEFINE k == u[1]
             l == u[2]
  <2>1. n \in 1..(Len(s) + 1) /\ (\A j \in 1..(n - 1) : s[j] < k) /\ (n <= Len(s) => k < s[n])
    BY <1>1, <1>3
  <2>2. k \in Nat /\ l \in Nat /\ KeysWithin(s, from, l) /\ from <= k /\ Below(k, l) /\ PutIn(t, s, n, k)
    BY <1>3, <1>4, <1>5
  <2> HIDE DEF k, l
  <2>3. Numbers(t) /\ KeysWithin(t, from, l)
    BY <2>1, <2>2, WithinPutIn
  <2> QED
    BY <2>3 DEF l
<1>7. Len(v) = Len(u) - 1 /\ \A j \in 1..Len(v) : v[j] = u[j + 1] /\ j + 1 \in 1..Len(u) /\ u[2] <= u[j + 1]
  <2>1. Len(v) = Len(u) - 1 /\ \A j \in 1..Len(v) : v[j] = u[j + 1] /\ j + 1 \in 1..Len(u)
    BY <1>2 DEF TakenOut
  <2> QED
    BY <1>2, <1>3, <2>1
<1>8. Numbers(v) /\ KeysWithin(v, u[2], to)
  <2>1. ASSUME NEW j \in 1..Len(v) PROVE v[j] \in Nat /\ u[2] <= v[j] /\ Below(v[j], to)
    BY <1>2, <1>7
  <2>2. ASSUME NEW j \in 1..Len(v), NEW l \in 1..Len(v), j < l PROVE v[j] < v[l]
    <3>1. j + 1 < l + 1
      BY <1>2, <1>7, <2>2
    <3> QED
      BY <1>2, <1>7, <3>1
  <2>3. Len(v) \in Nat
    BY <1>2, <1>7
  <2> QED
    BY <1>3, <2>1, <2>2, <2>3 DEF Numbers, KeysWithin, Ascending
<1> QED
  BY <1>3, <1>4, <1>6, <1>8

-----------------------------------------------------------------------------
(* Keys that separate children                                             *)

\* What KeysSeparate says, place by place.
LEMMA SeparateFacts ==
    ASSUME NEW s, NEW t, NEW lo, NEW hi, NEW from \in Nat, NEW to \in Nat,
           Numbers(s), KeysSeparate(s, t, lo, hi, from, to)
    PROVE  /\ Len(s) \in Nat /\ Len(t) = Len(s) + 1
           /\ \A i \in 1..Len(s) : s[i] \in Nat /\ from < s[i] /\ s[i] # 0 /\ Below(s[i], to)
           /\ \A i, j \in 1..Len(s) : i < j => s[i] < s[j]
           /\ Below(from, to)
           /\ \A i \in 1..Len(t) : /\ lo[t[i]] = IF i = 1 THEN from ELSE s[i - 1]
                                   /\ hi[t[i]] = IF i = Len(t) THEN to ELSE s[i]
<1>1. /\ Len(s) \in Nat /\ Len(t) = Len(s) + 1
      /\ \A i \in 1..Len(s) : s[i] \in Nat /\ from < s[i] /\ Below(s[i], to)
      /\ \A i, j \in 1..Len(s) : i < j => s[i] < s[j]
      /\ Below(from, to)
  BY DEF Numbers, KeysSeparate, KeysWithin, Ascending
<1>2. \A i \in 1..Len(s) : s[i] # 0
  BY <1>1
<1>3. \A i \in 1..Len(t) : /\ lo[t[i]] = IF i = 1 THEN from ELSE s[i - 1]
                           /\ hi[t[i]] = IF i = Len(t) THEN to ELSE s[i]
  BY DEF KeysSeparate
<1> QED
  BY <1>1, <1>2, <1>3

\* The bounds of children that do not change are separated as before.
LEMMA SeparateSame ==
    ASSUME NEW s, NEW t, NEW lo, NEW hi, NEW lo2, NEW hi2, NEW from, NEW to,
           KeysSeparate(s, t, lo, hi, from, to),
           \A i \in 1..Len(t) : lo2[t[i]] = lo[t[i]] /\ hi2[t[i]] = hi[t[i]]
    PROVE  KeysSeparate(s, t, lo2, hi2, from, to)
BY DEF KeysSeparate

\* The child at place i is split by the key k: r is the new child on its right.
SplitBounds(t, lo, hi, lo2, hi2, i, k, r) ==
    /\ lo[t[i]] < k /\ Below(k, hi[t[i]])
    /\ lo2[t[i]] = lo[t[i]] /\ hi2[t[i]] = k
    /\ lo2[r] = k /\ hi2[r] = hi[t[i]]
    /\ \A j \in 1..Len(t) : j # i => lo2[t[j]] = lo[t[j]] /\ hi2[t[j]] = hi[t[j]]

\* Then k and r are put in at its right.
LEMMA SeparatePutIn ==
    ASSUME NEW s, NEW t, NEW s2, NEW t2, NEW lo, NEW hi, NEW lo2, NEW hi2,
           NEW from \in Nat, NEW to \in Nat, NEW i, NEW k \in Nat, NEW r,
           Numbers(s), KeysSeparate(s, t, lo, hi, from, to), i \in 1..Len(t),
           PutIn(s2, s, i, k), PutIn(t2, t, i + 1, r), SplitBounds(t, lo, hi, lo2, hi2, i, k, r)
    PROVE  Numbers(s2) /\ KeysSeparate(s2, t2, lo2, hi2, from, to)
<1>1. /\ Len(s) \in Nat /\ Len(t) = Len(s) + 1
      /\ \A j \in 1..Len(s) : s[j] \in Nat /\ from < s[j] /\ s[j] # 0 /\ Below(s[j], to)
      /\ \A j, l \in 1..Len(s) : j < l => s[j] < s[l]
      /\ Below(from, to)
  BY SeparateFacts
<1>2. \A j \in 1..Len(t) : /\ lo[t[j]] = IF j = 1 THEN from ELSE s[j - 1]
                           /\ hi[t[j]] = IF j = Len(t) THEN to ELSE s[j]
  BY DEF KeysSeparate
<1>3. /\ lo[t[i]] < k /\ Below(k, hi[t[i]])
      /\ lo2[t[i]] = lo[t[i]] /\ hi2[t[i]] = k
      /\ lo2[r] = k /\ hi2[r] = hi[t[i]]
      /\ \A j \in 1..Len(t) : j # i => lo2[t[j]] = lo[t[j]] /\ hi2[t[j]] = hi[t[j]]
  BY DEF SplitBounds
<1>4. from < k /\ \A j \in 1..(i - 1) : s[j] < k
  <2>1. CASE i = 1
    BY <1>1, <1>2, <1>3, <2>1
  <2>2. CASE i # 1
    <3>1. i - 1 \in 1..Len(s) /\ s[i - 1] < k
      BY <1>1, <1>2, <1>3, <2>2
    <3>2. \A j \in 1..(i - 1) : j \in 1..Len(s) /\ (j = i - 1 \/ s[j] < s[i - 1])
      BY <1>1, <3>1
    <3> QED
      BY <1>1, <3>1, <3>2
  <2> QED
    BY <2>1, <2>2
<1>5. Below(k, to) /\ (i <= Len(s) => k < s[i])
  <2>1. CASE i = Len(t)
    BY <1>1, <1>2, <1>3, <2>1
  <2>2. CASE i # Len(t)
    <3>1. i \in 1..Len(s) /\ k < s[i]
      BY <1>1, <1>2, <1>3, <2>2 DEF Below
    <3> QED
      BY <1>1, <3>1 DEF Below
  <2> QED
    BY <2>1, <2>2
<1>6. Numbers(s2) /\ KeysWithin(s2, from, to)
  <2>1. KeysWithin(s, from, to) /\ i \in 1..(Len(s) + 1) /\ from <= k
    BY <1>1, <1>4 DEF KeysSeparate
  <2> QED
    BY <1>4, <1>5, <2>1, WithinPutIn
<1>7. /\ Len(s2) = Len(s) + 1
      /\ \A j \in 1..Len(s2) : s2[j] = IF j < i THEN s[j] ELSE IF j = i THEN k ELSE s[j - 1]
  BY <1>1 DEF PutIn
<1>8. /\ Len(t2) = Len(s) + 2
      /\ \A j \in 1..Len(t2) : t2[j] = IF j < i + 1 THEN t[j] ELSE IF j = i + 1 THEN r ELSE t[j - 1]
  BY <1>1 DEF PutIn
<1>9. ASSUME NEW j \in 1..Len(s2) PROVE from < s2[j]
  <2>1. s2[j] = k \/ \E l \in 1..Len(s) : s2[j] = s[l]
    BY <1>1, <1>7
  <2> QED
    BY <1>1, <1>4, <2>1
<1>10. ASSUME NEW j \in 1..Len(t2)
       PROVE  /\ lo2[t2[j]] = IF j = 1 THEN from ELSE s2[j - 1]
              /\ hi2[t2[j]] = IF j = Len(t2) THEN to ELSE s2[j]
  <2>1. CASE j < i
    <3>1. t2[j] = t[j] /\ j \in 1..Len(t) /\ j # i /\ j # Len(t) /\ j # Len(t2) /\ j \in 1..Len(s2) /\ s2[j] = s[j]
      BY <1>1, <1>7, <1>8, <2>1
    <3>2. j # 1 => s2[j - 1] = s[j - 1]
      BY <1>1, <1>7, <1>8, <2>1
    <3> QED
      BY <1>2, <1>3, <3>1, <3>2
  <2>2. CASE j = i
    <3>1. t2[j] = t[i] /\ j # Len(t2) /\ s2[j] = k
      BY <1>1, <1>7, <1>8, <2>2
    <3>2. j # 1 => s2[j - 1] = s[i - 1]
      BY <1>1, <1>7, <1>8, <2>2
    <3> QED
      BY <1>2, <1>3, <2>2, <3>1, <3>2
  <2>3. CASE j = i + 1
    <3>1. t2[j] = r /\ j # 1 /\ s2[j - 1] = k
      BY <1>1, <1>7, <1>8, <2>3
    <3>2. (j = Len(t2)) <=> (i = Len(t))
      BY <1>1, <1>8, <2>3
    <3>3. j # Len(t2) => s2[j] = s[i]
      BY <1>1, <1>7, <1>8, <2>3
    <3> QED
      BY <1>2, <1>3, <3>1, <3>2, <3>3
  <2>4. CASE j > i + 1
    <3>1. t2[j] = t[j - 1] /\ j - 1 \in 1..Len(t) /\ j - 1 # i /\ j # 1 /\ j - 1 # 1 /\ s2[j - 1] = s[j - 1 - 1]
      BY <1>1, <1>7, <1>8, <2>4
    <3>2. (j = Len(t2)) <=> (j - 1 = Len(t))
      BY <1>1, <1>8
    <3>3. j # Len(t2) => s2[j] = s[j - 1]
      <4>1. Len(s) \in Nat /\ Len(s2) = Len(s) + 1 /\ Len(t2) = Len(s) + 2 /\ i \in Nat /\ j \in 1..(Len(s) + 2)
        BY <1>1, <1>7, <1>8
      <4>2. j # Len(t2) => j \in 1..Len(s2) /\ ~(j < i) /\ j # i
        BY <2>4, <4>1
      <4> QED
        BY <1>7, <4>2
    <3>4. lo2[t[j - 1]] = lo[t[j - 1]] /\ hi2[t[j - 1]] = hi[t[j - 1]]
      BY <1>3, <3>1
    <3>5. lo[t[j - 1]] = s[j - 1 - 1] /\ hi[t[j - 1]] = IF j - 1 = Len(t) THEN to ELSE s[j - 1]
      BY <1>2, <3>1
    <3> QED
      BY <3>1, <3>2, <3>3, <3>4, <3>5
  <2> QED
    BY <1>1, <1>8, <2>1, <2>2, <2>3, <2>4
<1>11. Len(t2) = Len(s2) + 1
  BY <1>1, <1>7, <1>8
<1> QED
  BY <1>6, <1>9, <1>10, <1>11 DEF KeysSeparate

\* The two halves of a node, by the key between them.
LEMMA SeparateHalves ==
    ASSUME NEW s, NEW t, NEW s1, NEW t1, NEW s2, NEW t2, NEW lo, NEW hi,
           NEW from \in Nat, NEW to \in Nat, NEW m, NEW n,
           Numbers(s), KeysSeparate(s, t, lo, hi, from, to), n = Len(s), m \in 2..(n - 1),
           PartOf(s1, s, 1, m - 1), PartOf(t1, t, 1, m),
           PartOf(s2, s, m + 1, n), PartOf(t2, t, m + 1, n + 1)
    PROVE  /\ Numbers(s1) /\ KeysSeparate(s1, t1, lo, hi, from, s[m])
           /\ Numbers(s2) /\ KeysSeparate(s2, t2, lo, hi, s[m], to)
           /\ s[m] \in Nat /\ from < s[m] /\ Below(s[m], to)
<1>1. /\ n \in Nat /\ Len(t) = n + 1
      /\ \A j \in 1..n : s[j] \in Nat /\ from < s[j] /\ s[j] # 0 /\ Below(s[j], to)
      /\ \A j, l \in 1..n : j < l => s[j] < s[l]
      /\ Below(from, to)
  BY SeparateFacts
<1>2. \A j \in 1..(n + 1) : /\ lo[t[j]] = IF j = 1 THEN from ELSE s[j - 1]
                            /\ hi[t[j]] = IF j = n + 1 THEN to ELSE s[j]
  <2>1. \A j \in 1..Len(t) : /\ lo[t[j]] = IF j = 1 THEN from ELSE s[j - 1]
                             /\ hi[t[j]] = IF j = Len(t) THEN to ELSE s[j]
    BY DEF KeysSeparate
  <2> QED
    BY <1>1, <2>1
<1>3. m \in 1..n /\ s[m] \in Nat /\ from < s[m] /\ Below(s[m], to)
  BY <1>1
<1>4. /\ Len(s1) = m - 1 /\ Len(t1) = m
      /\ \A j \in 1..(m - 1) : j \in 1..n /\ j < m /\ s1[j] = s[j]
      /\ \A j \in 1..m : t1[j] = t[j]
  <2>1. Len(s1) = m - 1 /\ Len(t1) = m
    BY <1>1 DEF PartOf
  <2>2. ASSUME NEW j \in 1..(m - 1) PROVE j \in 1..n /\ j < m /\ s1[j] = s[j]
    <3>1. j \in 1..(m - 1 - 1 + 1) /\ 1 + j - 1 = j
      BY <1>1
    <3>2. s1[j] = s[1 + j - 1]
      BY <3>1 DEF PartOf
    <3>3. j \in 1..n /\ j < m
      BY <1>1
    <3> QED
      BY <3>1, <3>2, <3>3
  <2>3. ASSUME NEW j \in 1..m PROVE t1[j] = t[j]
    <3>1. j \in 1..(m - 1 + 1) /\ 1 + j - 1 = j
      BY <1>1
    <3>2. t1[j] = t[1 + j - 1]
      BY <3>1 DEF PartOf
    <3> QED
      BY <3>1, <3>2
  <2> QED
    BY <2>1, <2>2, <2>3
<1>5. /\ Len(s2) = n - m /\ Len(t2) = n + 1 - m
      /\ \A j \in 1..(n - m) : m + j \in 1..n /\ m < m + j /\ s2[j] = s[m + j]
      /\ \A j \in 1..(n + 1 - m) : m + j \in 1..(n + 1) /\ t2[j] = t[m + j]
  <2>1. Len(s2) = n - m /\ Len(t2) = n + 1 - m
    BY <1>1 DEF PartOf
  <2>2. ASSUME NEW j \in 1..(n - m) PROVE m + j \in 1..n /\ m < m + j /\ s2[j] = s[m + j]
    <3>1. j \in 1..(n - (m + 1) + 1) /\ m + 1 + j - 1 = m + j
      BY <1>1
    <3>2. s2[j] = s[m + 1 + j - 1]
      BY <3>1 DEF PartOf
    <3>3. m + j \in 1..n /\ m < m + j
      BY <1>1
    <3> QED
      BY <3>1, <3>2, <3>3
  <2>3. ASSUME NEW j \in 1..(n + 1 - m) PROVE m + j \in 1..(n + 1) /\ t2[j] = t[m + j]
    <3>1. j \in 1..(n + 1 - (m + 1) + 1) /\ m + 1 + j - 1 = m + j
      BY <1>1
    <3>2. t2[j] = t[m + 1 + j - 1]
      BY <3>1 DEF PartOf
    <3>3. m + j \in 1..(n + 1)
      BY <1>1
    <3> QED
      BY <3>1, <3>2, <3>3
  <2> QED
    BY <2>1, <2>2, <2>3
<1>6. Numbers(s1) /\ KeysSeparate(s1, t1, lo, hi, from, s[m])
  <2>1. ASSUME NEW j \in 1..Len(s1)
        PROVE  s1[j] \in Nat /\ from < s1[j] /\ from <= s1[j] /\ Below(s1[j], s[m])
    BY <1>1, <1>3, <1>4 DEF Below
  <2>2. ASSUME NEW j \in 1..Len(s1), NEW l \in 1..Len(s1), j < l PROVE s1[j] < s1[l]
    BY <1>1, <1>4, <2>2
  <2>3. Len(s1) \in Nat /\ Below(from, s[m]) /\ Len(t1) = Len(s1) + 1
    BY <1>1, <1>3, <1>4 DEF Below
  <2>4. ASSUME NEW j \in 1..Len(t1)
        PROVE  /\ lo[t1[j]] = IF j = 1 THEN from ELSE s1[j - 1]
               /\ hi[t1[j]] = IF j = Len(t1) THEN s[m] ELSE s1[j]
    <3>1. j \in 1..m /\ j \in 1..(n + 1) /\ j # n + 1 /\ t1[j] = t[j]
      BY <1>1, <1>4
    <3>2. j # 1 => s1[j - 1] = s[j - 1]
      BY <1>4, <3>1
    <3>3. j # Len(t1) => s1[j] = s[j]
      BY <1>4, <3>1
    <3> QED
      BY <1>2, <1>4, <3>1, <3>2, <3>3
  <2> QED
    BY <2>1, <2>2, <2>3, <2>4 DEF Numbers, KeysSeparate, KeysWithin, Ascending
<1>7. Numbers(s2) /\ KeysSeparate(s2, t2, lo, hi, s[m], to)
  <2>1. ASSUME NEW j \in 1..Len(s2)
        PROVE  s2[j] \in Nat /\ s[m] < s2[j] /\ s[m] <= s2[j] /\ Below(s2[j], to)
    <3>1. m + j \in 1..n /\ m < m + j /\ s2[j] = s[m + j]
      BY <1>5
    <3>2. s[m] < s[m + j] /\ s[m + j] \in Nat /\ Below(s[m + j], to)
      BY <1>1, <1>3, <3>1
    <3> QED
      BY <1>3, <3>1, <3>2
  <2>2. ASSUME NEW j \in 1..Len(s2), NEW l \in 1..Len(s2), j < l PROVE s2[j] < s2[l]
    <3>1. m + j \in 1..n /\ m + l \in 1..n /\ s2[j] = s[m + j] /\ s2[l] = s[m + l]
      BY <1>5
    <3>2. m + j < m + l
      BY <1>1, <2>2
    <3> QED
      BY <1>1, <3>1, <3>2
  <2>3. Len(s2) \in Nat /\ Len(t2) = Len(s2) + 1
    BY <1>1, <1>5
  <2>4. ASSUME NEW j \in 1..Len(t2)
        PROVE  /\ lo[t2[j]] = IF j = 1 THEN s[m] ELSE s2[j - 1]
               /\ hi[t2[j]] = IF j = Len(t2) THEN to ELSE s2[j]
    <3>1. m + j \in 1..(n + 1) /\ t2[j] = t[m + j] /\ m + j # 1
      BY <1>1, <1>5
    <3>2. lo[t2[j]] = s[m + j - 1] /\ hi[t2[j]] = IF m + j = n + 1 THEN to ELSE s[m + j]
      BY <1>2, <3>1
    <3>3. (m + j = n + 1) <=> (j = Len(t2))
      BY <1>1, <1>5
    <3>4. j # Len(t2) => s2[j] = s[m + j]
      <4>1. n \in Nat /\ Len(t2) = n + 1 - m /\ j \in 1..(n + 1 - m)
        BY <1>1, <1>5
      <4>2. j # Len(t2) => j \in 1..(n - m)
        BY <4>1
      <4> QED
        BY <1>5, <4>2
    <3>5. j = 1 => s[m + j - 1] = s[m]
      BY <1>1
    <3>6. j # 1 => s2[j - 1] = s[m + j - 1]
      <4>1. j # 1 => j - 1 \in 1..(n - m) /\ m + (j - 1) = m + j - 1
        BY <1>1, <1>5
      <4> QED
        BY <1>5, <4>1
    <3> QED
      BY <3>2, <3>3, <3>4, <3>5, <3>6
  <2> QED
    BY <1>3, <2>1, <2>2, <2>3, <2>4 DEF Numbers, KeysSeparate, KeysWithin, Ascending
<1> QED
  BY <1>3, <1>6, <1>7

\* The child at place q takes over what the one after it is bounded by.
MergedBounds(t, lo, hi, lo2, hi2, q) ==
    /\ lo2[t[q]] = lo[t[q]] /\ hi2[t[q]] = hi[t[q + 1]]
    /\ \A j \in 1..Len(t) : j # q /\ j # q + 1 => lo2[t[j]] = lo[t[j]] /\ hi2[t[j]] = hi[t[j]]

\* Then the key between them and the one after it are taken out.
LEMMA SeparateTakenOut ==
    ASSUME NEW s, NEW t, NEW s2, NEW t2, NEW lo, NEW hi, NEW lo2, NEW hi2,
           NEW from \in Nat, NEW to \in Nat, NEW q,
           Numbers(s), KeysSeparate(s, t, lo, hi, from, to), q \in 1..Len(s),
           TakenOut(s2, s, q), TakenOut(t2, t, q + 1), MergedBounds(t, lo, hi, lo2, hi2, q)
    PROVE  Numbers(s2) /\ KeysSeparate(s2, t2, lo2, hi2, from, to)
<1>1. /\ Len(s) \in Nat /\ Len(t) = Len(s) + 1
      /\ \A j \in 1..Len(s) : s[j] \in Nat /\ from < s[j]
  BY SeparateFacts
<1>2. \A j \in 1..Len(t) : /\ lo[t[j]] = IF j = 1 THEN from ELSE s[j - 1]
                           /\ hi[t[j]] = IF j = Len(t) THEN to ELSE s[j]
  BY DEF KeysSeparate
<1>3. /\ lo2[t[q]] = lo[t[q]] /\ hi2[t[q]] = hi[t[q + 1]]
      /\ \A j \in 1..Len(t) : j # q /\ j # q + 1 => lo2[t[j]] = lo[t[j]] /\ hi2[t[j]] = hi[t[j]]
  BY DEF MergedBounds
<1>4. Numbers(s2) /\ KeysWithin(s2, from, to)
  BY WithinTakenOut DEF KeysSeparate
<1>5. Len(s2) = Len(s) - 1 /\ \A j \in 1..Len(s2) : s2[j] = IF j < q THEN s[j] ELSE s[j + 1]
  BY <1>1 DEF TakenOut
<1>6. Len(t2) = Len(s) /\ \A j \in 1..Len(t2) : t2[j] = IF j < q + 1 THEN t[j] ELSE t[j + 1]
  BY <1>1 DEF TakenOut
<1>7. ASSUME NEW j \in 1..Len(s2) PROVE from < s2[j]
  <2>1. \E l \in 1..Len(s) : s2[j] = s[l]
    BY <1>1, <1>5
  <2> QED
    BY <1>1, <2>1
<1>8. ASSUME NEW j \in 1..Len(t2)
      PROVE  /\ lo2[t2[j]] = IF j = 1 THEN from ELSE s2[j - 1]
             /\ hi2[t2[j]] = IF j = Len(t2) THEN to ELSE s2[j]
  <2>1. CASE j < q
    <3>1. Len(s) \in Nat /\ Len(t) = Len(s) + 1 /\ Len(s2) = Len(s) - 1 /\ Len(t2) = Len(s) /\ j \in 1..Len(s)
      BY <1>1, <1>5, <1>6
    <3>2. j \in 1..Len(t) /\ j # q /\ j # q + 1 /\ j # Len(t) /\ j # Len(t2) /\ j \in 1..Len(s2) /\ j < q + 1
      BY <2>1, <3>1
    <3>3. t2[j] = t[j] /\ j \in 1..Len(t) /\ j # q /\ j # q + 1 /\ j # Len(t) /\ j # Len(t2) /\ s2[j] = s[j]
      BY <1>5, <1>6, <2>1, <3>2
    <3>4. j # 1 => s2[j - 1] = s[j - 1]
      BY <1>1, <1>5, <1>6, <2>1
    <3> QED
      BY <1>2, <1>3, <3>3, <3>4
  <2>2. CASE j = q
    <3>1. t2[j] = t[q] /\ q \in 1..Len(t) /\ q + 1 \in 1..Len(t) /\ q + 1 # 1 /\ q + 1 - 1 = q
      BY <1>1, <1>6, <2>2
    <3>2. (q + 1 = Len(t)) <=> (j = Len(t2))
      BY <1>1, <1>6, <2>2
    <3>3. j # 1 => s2[j - 1] = s[q - 1]
      BY <1>1, <1>5, <1>6, <2>2
    <3>4. j # Len(t2) => s2[j] = s[q + 1]
      <4>1. j # Len(t2) => j \in 1..Len(s2) /\ ~(j < q)
        BY <1>1, <1>5, <1>6, <2>2
      <4> QED
        BY <1>5, <2>2, <4>1
    <3>5. lo[t[q]] = (IF q = 1 THEN from ELSE s[q - 1]) /\ hi[t[q + 1]] = IF q + 1 = Len(t) THEN to ELSE s[q + 1]
      BY <1>2, <3>1
    <3> QED
      BY <1>3, <2>2, <3>1, <3>2, <3>3, <3>4, <3>5
  <2>3. CASE j > q
    <3>1. t2[j] = t[j + 1] /\ j + 1 \in 1..Len(t) /\ j + 1 # q /\ j + 1 # q + 1 /\ j + 1 # 1 /\ j # 1 /\ j + 1 - 1 = j
      BY <1>1, <1>6, <2>3
    <3>2. (j + 1 = Len(t)) <=> (j = Len(t2))
      BY <1>1, <1>6
    <3>3. s2[j - 1] = s[j]
      <4>1. j - 1 \in 1..Len(s2) /\ ~(j - 1 < q) /\ j - 1 + 1 = j
        BY <1>1, <1>5, <1>6, <2>3
      <4> QED
        BY <1>5, <4>1
    <3>4. j # Len(t2) => s2[j] = s[j + 1]
      <4>1. Len(s) \in Nat /\ Len(s2) = Len(s) - 1 /\ Len(t2) = Len(s) /\ j \in 1..Len(s)
        BY <1>1, <1>5, <1>6
      <4>2. j # Len(t2) => j \in 1..Len(s2) /\ ~(j < q)
        BY <2>3, <4>1
      <4> QED
        BY <1>5, <4>2
    <3>5. lo[t[j + 1]] = s[j] /\ hi[t[j + 1]] = IF j + 1 = Len(t) THEN to ELSE s[j + 1]
      BY <1>2, <3>1
    <3>6. lo2[t[j + 1]] = lo[t[j + 1]] /\ hi2[t[j + 1]] = hi[t[j + 1]]
      BY <1>3, <3>1
    <3> QED
      BY <3>1, <3>2, <3>3, <3>4, <3>5, <3>6
  <2> QED
    BY <1>1, <1>6, <2>1, <2>2, <2>3
<1>9. Len(t2) = Len(s2) + 1
  BY <1>1, <1>5, <1>6
<1> QED
  BY <1>4, <1>7, <1>8, <1>9 DEF KeysSeparate

\* Two nodes made one, with the key between them in the middle.
LEMMA SeparateBridged ==
    ASSUME NEW s, NEW t, NEW u, NEW v, NEW w, NEW x, NEW lo, NEW hi,
           NEW from \in Nat, NEW mid \in Nat, NEW to \in Nat,
           Numbers(s), KeysSeparate(s, t, lo, hi, from, mid),
           Numbers(u), KeysSeparate(u, v, lo, hi, mid, to),
           from < mid, Bridged(w, s, mid, u), Joined(x, t, v)
    PROVE  Numbers(w) /\ KeysSeparate(w, x, lo, hi, from, to)
<1>1. /\ Len(s) \in Nat /\ Len(t) = Len(s) + 1
      /\ \A j \in 1..Len(s) : s[j] \in Nat /\ from < s[j] /\ s[j] < mid
      /\ \A j, l \in 1..Len(s) : j < l => s[j] < s[l]
  <2>1. /\ Len(s) \in Nat /\ Len(t) = Len(s) + 1
        /\ \A j \in 1..Len(s) : s[j] \in Nat /\ from < s[j] /\ Below(s[j], mid)
        /\ \A j, l \in 1..Len(s) : j < l => s[j] < s[l]
    BY SeparateFacts
  <2>2. mid # 0
    OBVIOUS
  <2> QED
    BY <2>1, <2>2 DEF Below
<1>2. /\ Len(u) \in Nat /\ Len(v) = Len(u) + 1
      /\ \A j \in 1..Len(u) : u[j] \in Nat /\ mid < u[j] /\ Below(u[j], to)
      /\ \A j, l \in 1..Len(u) : j < l => u[j] < u[l]
      /\ Below(mid, to)
  BY SeparateFacts
<1>3. /\ \A j \in 1..Len(t) : /\ lo[t[j]] = IF j = 1 THEN from ELSE s[j - 1]
                              /\ hi[t[j]] = IF j = Len(t) THEN mid ELSE s[j]
      /\ \A j \in 1..Len(v) : /\ lo[v[j]] = IF j = 1 THEN mid ELSE u[j - 1]
                              /\ hi[v[j]] = IF j = Len(v) THEN to ELSE u[j]
  BY DEF KeysSeparate
<1> DEFINE m == Len(s) + 1
<1>4. /\ Len(w) = m + Len(u) /\ m \in Nat /\ m >= 1
      /\ \A j \in 1..Len(s) : w[j] = s[j] /\ j < m
      /\ w[m] = mid
      /\ \A j \in 1..Len(u) : w[m + j] = u[j]
  BY <1>1, <1>2 DEF Bridged
<1>5. \A j \in 1..Len(w) :
          \/ j < m /\ j \in 1..Len(s) /\ w[j] = s[j]
          \/ j = m /\ w[j] = mid
          \/ j > m /\ j - m \in 1..Len(u) /\ w[j] = u[j - m]
  <2>1. \A j \in 1..Len(w) :
          \/ j \in 1..Len(s) /\ w[j] = s[j]
          \/ j = Len(s) + 1 /\ w[j] = mid
          \/ j > Len(s) + 1 /\ j - (Len(s) + 1) \in 1..Len(u) /\ w[j] = u[j - (Len(s) + 1)]
    BY <1>1, <1>2, BridgedElements
  <2> QED
    BY <1>4, <2>1
<1>6. /\ Len(x) = m + Len(v)
      /\ \A j \in 1..Len(x) :
          \/ j <= m /\ j \in 1..Len(t) /\ x[j] = t[j]
          \/ j > m /\ j - m \in 1..Len(v) /\ x[j] = v[j - m]
  <2>1. /\ Len(x) = Len(t) + Len(v) /\ Len(t) \in Nat /\ Len(v) \in Nat /\ Len(t) = m
        /\ \A j \in 1..Len(x) :
            \/ j \in 1..Len(t) /\ x[j] = t[j]
            \/ j > Len(t) /\ j - Len(t) \in 1..Len(v) /\ x[j] = v[j - Len(t)]
    <3>1. Len(t) \in Nat /\ Len(v) \in Nat /\ Len(t) = m
      BY <1>1, <1>2
    <3> QED
      BY <3>1, JoinedElements
  <2> QED
    BY <2>1
<1> HIDE DEF m
<1>7. m = Len(s) + 1 /\ m = Len(t)
  BY <1>1 DEF m
<1>8. ASSUME NEW j \in 1..Len(w)
      PROVE  w[j] \in Nat /\ from < w[j] /\ from <= w[j] /\ Below(w[j], to)
  <2>1. CASE j < m /\ j \in 1..Len(s) /\ w[j] = s[j]
    <3>1. s[j] \in Nat /\ from < s[j] /\ s[j] < mid
      BY <1>1, <2>1
    <3> QED
      BY <1>2, <2>1, <3>1 DEF Below
  <2>2. CASE j = m /\ w[j] = mid
    BY <1>2, <2>2
  <2>3. CASE j > m /\ j - m \in 1..Len(u) /\ w[j] = u[j - m]
    <3>1. u[j - m] \in Nat /\ mid < u[j - m] /\ Below(u[j - m], to)
      BY <1>2, <2>3
    <3> QED
      BY <2>3, <3>1
  <2> QED
    BY <1>5, <2>1, <2>2, <2>3
<1>9. ASSUME NEW j \in 1..Len(w), NEW l \in 1..Len(w), j < l PROVE w[j] < w[l]
  <2>1. CASE l < m
    <3>1. j < m /\ j \in 1..Len(s) /\ l \in 1..Len(s)
      BY <1>1, <1>7, <1>9, <2>1
    <3>2. w[j] = s[j] /\ w[l] = s[l]
      BY <1>4, <3>1
    <3> QED
      BY <1>1, <1>9, <3>1, <3>2
  <2>2. CASE l = m
    <3>1. j \in 1..Len(s)
      BY <1>1, <1>7, <1>9, <2>2
    <3> QED
      BY <1>1, <1>4, <2>2, <3>1
  <2>3. CASE l > m
    <3>1. l - m \in 1..Len(u) /\ w[l] = u[l - m]
      BY <1>4, <1>5, <2>3
    <3>2. u[l - m] \in Nat /\ mid < u[l - m]
      BY <1>2, <3>1
    <3>3. CASE j < m
      <4>1. j \in 1..Len(s)
        BY <1>1, <1>7, <3>3
      <4>2. w[j] = s[j] /\ s[j] \in Nat /\ s[j] < mid
        BY <1>1, <1>4, <4>1
      <4> QED
        BY <3>1, <3>2, <4>2
    <3>4. CASE j = m
      BY <1>4, <3>1, <3>2, <3>4
    <3>5. CASE j > m
      <4>1. j - m \in 1..Len(u) /\ w[j] = u[j - m]
        BY <1>4, <1>5, <3>5
      <4>2. j - m < l - m
        BY <1>4, <1>9
      <4> QED
        BY <1>2, <3>1, <4>1, <4>2
    <3> QED
      BY <1>4, <3>3, <3>4, <3>5
  <2> QED
    BY <1>4, <2>1, <2>2, <2>3
<1>10. ASSUME NEW j \in 1..Len(x)
       PROVE  /\ lo[x[j]] = IF j = 1 THEN from ELSE w[j - 1]
              /\ hi[x[j]] = IF j = Len(x) THEN to ELSE w[j]
  <2>1. CASE j <= m /\ j \in 1..Len(t) /\ x[j] = t[j]
    <3>1. j # Len(x)
      BY <1>2, <1>4, <1>6, <2>1
    <3>2. j # 1 => w[j - 1] = s[j - 1]
      <4>1. j # 1 => j - 1 \in 1..Len(s)
        BY <1>1, <1>7, <2>1
      <4> QED
        BY <1>4, <4>1
    <3>3. hi[t[j]] = w[j]
      <4>1. CASE j = m
        BY <1>3, <1>4, <1>7, <2>1, <4>1
      <4>2. CASE j # m
        <5>1. j \in 1..Len(s)
          BY <1>1, <1>7, <2>1, <4>2
        <5> QED
          BY <1>3, <1>4, <1>7, <2>1, <4>2, <5>1
      <4> QED
        BY <4>1, <4>2
    <3> QED
      BY <1>3, <2>1, <3>1, <3>2, <3>3
  <2>2. CASE j > m /\ j - m \in 1..Len(v) /\ x[j] = v[j - m]
    <3>1. j # 1 /\ ((j = Len(x)) <=> (j - m = Len(v)))
      BY <1>2, <1>4, <1>6, <2>2
    <3>2. lo[v[j - m]] = w[j - 1]
      <4>1. CASE j - m = 1
        <5>1. j - 1 = m
          BY <1>4, <4>1
        <5> QED
          BY <1>3, <1>4, <2>2, <4>1, <5>1
      <4>2. CASE j - m # 1
        <5>1. j - m - 1 \in 1..Len(u) /\ m + (j - m - 1) = j - 1
          BY SMTT(30), <1>2, <1>4, <2>2, <4>2
        <5>2. w[m + (j - m - 1)] = u[j - m - 1]
          BY <1>4, <5>1
        <5> QED
          BY <1>3, <2>2, <4>2, <5>1, <5>2
      <4> QED
        BY <4>1, <4>2
    <3>3. j - m # Len(v) => hi[v[j - m]] = w[j]
      <4>1. j - m # Len(v) => j - m \in 1..Len(u) /\ m + (j - m) = j
        BY <1>2, <1>4, <2>2
      <4>2. j - m # Len(v) => w[m + (j - m)] = u[j - m]
        BY <1>4, <4>1
      <4> QED
        BY <1>3, <2>2, <4>1, <4>2
    <3>4. j - m = Len(v) => hi[v[j - m]] = to
      BY <1>3, <2>2
    <3> QED
      BY <2>2, <3>1, <3>2, <3>3, <3>4
  <2> QED
    BY <1>6, <2>1, <2>2
<1>11. Len(w) \in Nat /\ Len(x) = Len(w) + 1 /\ Below(from, to)
  BY <1>2, <1>4, <1>6 DEF Below
<1> QED
  BY <1>8, <1>9, <1>10, <1>11 DEF Numbers, KeysSeparate, KeysWithin, Ascending

\* The key k comes between the children at places q and q + 1.
MovedBound(t, lo, hi, lo2, hi2, q, k) ==
    /\ lo[t[q]] < k /\ Below(k, hi[t[q + 1]])
    /\ lo2[t[q]] = lo[t[q]] /\ hi2[t[q]] = k
    /\ lo2[t[q + 1]] = k /\ hi2[t[q + 1]] = hi[t[q + 1]]
    /\ \A j \in 1..Len(t) : j # q /\ j # q + 1 => lo2[t[j]] = lo[t[j]] /\ hi2[t[j]] = hi[t[j]]

\* s2 is s with k at place q.
Rekeyed(s2, s, q, k) ==
    Len(s2) = Len(s) /\ \A j \in 1..Len(s) : s2[j] = IF j = q THEN k ELSE s[j]

\* Then k put in the place of the key between them separates the children.
LEMMA SeparateRekeyed ==
    ASSUME NEW s, NEW t, NEW s2, NEW lo, NEW hi, NEW lo2, NEW hi2,
           NEW from \in Nat, NEW to \in Nat, NEW q, NEW k \in Nat,
           Numbers(s), KeysSeparate(s, t, lo, hi, from, to), q \in 1..Len(s), Rekeyed(s2, s, q, k),
           MovedBound(t, lo, hi, lo2, hi2, q, k)
    PROVE  Numbers(s2) /\ KeysSeparate(s2, t, lo2, hi2, from, to)
<1> Len(s2) = Len(s) /\ \A j \in 1..Len(s) : s2[j] = IF j = q THEN k ELSE s[j]
  BY DEF Rekeyed
<1>1. /\ Len(s) \in Nat /\ Len(t) = Len(s) + 1
      /\ \A j \in 1..Len(s) : s[j] \in Nat /\ from < s[j] /\ s[j] # 0 /\ Below(s[j], to)
      /\ \A j, l \in 1..Len(s) : j < l => s[j] < s[l]
      /\ Below(from, to)
  BY SeparateFacts
<1>2. \A j \in 1..Len(t) : /\ lo[t[j]] = IF j = 1 THEN from ELSE s[j - 1]
                           /\ hi[t[j]] = IF j = Len(t) THEN to ELSE s[j]
  BY DEF KeysSeparate
<1>3. /\ lo[t[q]] < k /\ Below(k, hi[t[q + 1]])
      /\ lo2[t[q]] = lo[t[q]] /\ hi2[t[q]] = k
      /\ lo2[t[q + 1]] = k /\ hi2[t[q + 1]] = hi[t[q + 1]]
      /\ \A j \in 1..Len(t) : j # q /\ j # q + 1 => lo2[t[j]] = lo[t[j]] /\ hi2[t[j]] = hi[t[j]]
  BY DEF MovedBound
<1>4. /\ q \in 1..Len(t) /\ q + 1 \in 1..Len(t) /\ q # Len(t) /\ q + 1 # 1 /\ q + 1 - 1 = q
      /\ ((q + 1 = Len(t)) <=> (q = Len(s)))
  BY <1>1
<1>5. from < k /\ \A j \in 1..Len(s) : j < q => s[j] < k
  <2>1. CASE q = 1
    BY <1>1, <1>2, <1>3, <1>4, <2>1
  <2>2. CASE q # 1
    <3>1. q - 1 \in 1..Len(s) /\ s[q - 1] < k
      <4>1. q - 1 \in 1..Len(s)
        BY <1>1, <2>2
      <4>2. lo[t[q]] = s[q - 1]
        BY <1>2, <1>4, <2>2
      <4> QED
        BY <1>3, <4>1, <4>2
    <3>2. ASSUME NEW j \in 1..Len(s), j < q PROVE s[j] < k
      <4>1. CASE j = q - 1
        BY <3>1, <4>1
      <4>2. CASE j # q - 1
        <5>1. j < q - 1
          BY <1>1, <3>2, <4>2
        <5>2. s[j] < s[q - 1] /\ s[j] \in Nat /\ s[q - 1] \in Nat
          BY <1>1, <3>1, <5>1
        <5> QED
          BY <3>1, <5>2
      <4> QED
        BY <4>1, <4>2
    <3>3. from < k
      <4>1. from < s[q - 1] /\ s[q - 1] \in Nat
        BY <1>1, <3>1
      <4> QED
        BY <3>1, <4>1
    <3> QED
      BY <3>2, <3>3
  <2> QED
    BY <2>1, <2>2
<1>6. Below(k, to) /\ \A j \in 1..Len(s) : q < j => k < s[j]
  <2>1. CASE q = Len(s)
    BY <1>1, <1>2, <1>3, <1>4, <2>1
  <2>2. CASE q # Len(s)
    <3>1. q + 1 \in 1..Len(s)
      BY <1>1, <2>2
    <3>2. k < s[q + 1]
      BY SMTT(30), <1>1, <1>2, <1>3, <1>4, <2>2, <3>1 DEF Below
    <3>3. \A j \in 1..Len(s) : q < j => j = q + 1 \/ s[q + 1] < s[j]
      BY <1>1, <3>1
    <3> QED
      BY <1>1, <3>1, <3>2, <3>3 DEF Below
  <2> QED
    BY <2>1, <2>2
<1>7. ASSUME NEW j \in 1..Len(s2)
      PROVE  s2[j] \in Nat /\ from < s2[j] /\ from <= s2[j] /\ Below(s2[j], to)
  <2>1. s2[j] = k \/ (s2[j] = s[j] /\ j \in 1..Len(s))
    OBVIOUS
  <2> QED
    BY <1>1, <1>5, <1>6, <2>1
<1>8. ASSUME NEW j \in 1..Len(s2), NEW l \in 1..Len(s2), j < l PROVE s2[j] < s2[l]
  <2>1. CASE j = q
    BY <1>1, <1>6, <1>8, <2>1
  <2>2. CASE l = q
    BY <1>1, <1>5, <1>8, <2>2
  <2>3. CASE j # q /\ l # q
    BY <1>1, <1>8, <2>3
  <2> QED
    BY <2>1, <2>2, <2>3
<1>9. ASSUME NEW j \in 1..Len(t)
      PROVE  /\ lo2[t[j]] = IF j = 1 THEN from ELSE s2[j - 1]
             /\ hi2[t[j]] = IF j = Len(t) THEN to ELSE s2[j]
  <2>1. CASE j = q
    <3>1. j # 1 => s2[j - 1] = s[j - 1]
      BY <1>1, <2>1
    <3>2. s2[j] = k /\ j # Len(t)
      BY <1>1, <2>1
    <3> QED
      BY <1>2, <1>3, <2>1, <3>1, <3>2
  <2>2. CASE j = q + 1
    <3>1. j # 1 /\ s2[j - 1] = k
      BY <1>1, <1>4, <2>2
    <3>2. j # Len(t) => s2[j] = s[j]
      BY <1>1, <2>2
    <3> QED
      BY <1>2, <1>3, <2>2, <3>1, <3>2
  <2>3. CASE j # q /\ j # q + 1
    <3>1. j # 1 => s2[j - 1] = s[j - 1]
      <4>1. j # 1 => j - 1 \in 1..Len(s) /\ j - 1 # q
        BY <1>1, <2>3
      <4> QED
        BY <4>1
    <3>2. j # Len(t) => s2[j] = s[j]
      <4>1. Len(s) \in Nat /\ Len(t) = Len(s) + 1 /\ j \in 1..Len(t)
        BY <1>1
      <4>2. j # Len(t) => j \in 1..Len(s)
        BY <4>1
      <4> QED
        BY <2>3, <4>2
    <3> QED
      BY <1>2, <1>3, <2>3, <3>1, <3>2
  <2> QED
    BY <2>1, <2>2, <2>3
<1>10. Len(s2) \in Nat /\ Len(t) = Len(s2) + 1
  BY <1>1
<1> QED
  BY <1>1, <1>7, <1>8, <1>9, <1>10 DEF Numbers, KeysSeparate, KeysWithin, Ascending

\* The last child goes to the node on the right, the key before it moves up
\* and the key between the two moves down.
LastChildMoves(s, t, u, v, s2, t2, u2, v2, lo, hi, from, mid, to, n) ==
    /\ from \in Nat /\ mid \in Nat /\ to \in Nat
    /\ Numbers(s) /\ KeysSeparate(s, t, lo, hi, from, mid)
    /\ Numbers(u) /\ KeysSeparate(u, v, lo, hi, mid, to) /\ from < mid
    /\ n = Len(s) /\ n >= 1 /\ TakenOut(s2, s, n) /\ TakenOut(t2, t, n + 1)
    /\ PutIn(u2, u, 1, mid) /\ PutIn(v2, v, 1, t[n + 1])

\* Then the key that moved up separates the two.
LEMMA SeparateLastMoved ==
    ASSUME NEW s, NEW t, NEW u, NEW v, NEW s2, NEW t2, NEW u2, NEW v2, NEW lo, NEW hi,
           NEW from, NEW mid, NEW to, NEW n,
           LastChildMoves(s, t, u, v, s2, t2, u2, v2, lo, hi, from, mid, to, n)
    PROVE  /\ Numbers(s2) /\ KeysSeparate(s2, t2, lo, hi, from, s[n])
           /\ Numbers(u2) /\ KeysSeparate(u2, v2, lo, hi, s[n], to)
           /\ s[n] \in Nat /\ from < s[n] /\ Below(s[n], to)
<1> /\ from \in Nat /\ mid \in Nat /\ to \in Nat
    /\ Numbers(s) /\ KeysSeparate(s, t, lo, hi, from, mid)
    /\ Numbers(u) /\ KeysSeparate(u, v, lo, hi, mid, to) /\ from < mid
    /\ n = Len(s) /\ n >= 1 /\ TakenOut(s2, s, n) /\ TakenOut(t2, t, n + 1)
    /\ PutIn(u2, u, 1, mid) /\ PutIn(v2, v, 1, t[n + 1])
  BY DEF LastChildMoves
<1>1. /\ n \in Nat /\ Len(t) = n + 1
      /\ \A j \in 1..n : s[j] \in Nat /\ from < s[j] /\ Below(s[j], mid)
      /\ \A j, l \in 1..n : j < l => s[j] < s[l]
  BY SeparateFacts
<1>2. /\ Len(u) \in Nat /\ Len(v) = Len(u) + 1
      /\ \A j \in 1..Len(u) : u[j] \in Nat /\ mid < u[j] /\ Below(u[j], to)
      /\ \A j, l \in 1..Len(u) : j < l => u[j] < u[l]
      /\ Below(mid, to)
  BY SeparateFacts
<1>3. /\ \A j \in 1..(n + 1) : /\ lo[t[j]] = IF j = 1 THEN from ELSE s[j - 1]
                               /\ hi[t[j]] = IF j = n + 1 THEN mid ELSE s[j]
      /\ \A j \in 1..Len(v) : /\ lo[v[j]] = IF j = 1 THEN mid ELSE u[j - 1]
                              /\ hi[v[j]] = IF j = Len(v) THEN to ELSE u[j]
  <2>1. /\ \A j \in 1..Len(t) : /\ lo[t[j]] = IF j = 1 THEN from ELSE s[j - 1]
                                /\ hi[t[j]] = IF j = Len(t) THEN mid ELSE s[j]
        /\ \A j \in 1..Len(v) : /\ lo[v[j]] = IF j = 1 THEN mid ELSE u[j - 1]
                                /\ hi[v[j]] = IF j = Len(v) THEN to ELSE u[j]
    BY DEF KeysSeparate
  <2> QED
    BY <1>1, <2>1
<1>4. n \in 1..n /\ s[n] \in Nat /\ from < s[n] /\ s[n] < mid /\ Below(s[n], to)
  <2>1. n \in 1..n /\ s[n] \in Nat /\ from < s[n] /\ Below(s[n], mid) /\ mid # 0
    BY <1>1
  <2>2. s[n] < mid
    BY <2>1 DEF Below
  <2> QED
    BY <1>2, <2>1, <2>2 DEF Below
<1>5. Len(s2) = n - 1 /\ \A j \in 1..(n - 1) : j \in 1..n /\ j < n /\ s2[j] = s[j]
  BY <1>1 DEF TakenOut
<1>6. Len(t2) = n /\ \A j \in 1..n : j \in 1..(n + 1) /\ t2[j] = t[j]
  BY <1>1 DEF TakenOut
<1>7. Len(u2) = Len(u) + 1 /\ u2[1] = mid /\ \A j \in 1..Len(u2) : j # 1 => j - 1 \in 1..Len(u) /\ u2[j] = u[j - 1]
  BY <1>2 DEF PutIn
<1>8. Len(v2) = Len(v) + 1 /\ v2[1] = t[n + 1] /\ \A j \in 1..Len(v2) : j # 1 => j - 1 \in 1..Len(v) /\ v2[j] = v[j - 1]
  BY <1>2 DEF PutIn
<1>9. Numbers(s2) /\ KeysSeparate(s2, t2, lo, hi, from, s[n])
  <2>1. ASSUME NEW j \in 1..Len(s2)
        PROVE  s2[j] \in Nat /\ from < s2[j] /\ from <= s2[j] /\ Below(s2[j], s[n])
    BY <1>1, <1>4, <1>5 DEF Below
  <2>2. ASSUME NEW j \in 1..Len(s2), NEW l \in 1..Len(s2), j < l PROVE s2[j] < s2[l]
    BY <1>1, <1>5, <2>2
  <2>3. Len(s2) \in Nat /\ Len(t2) = Len(s2) + 1 /\ Below(from, s[n])
    BY <1>1, <1>4, <1>5, <1>6 DEF Below
  <2>4. ASSUME NEW j \in 1..Len(t2)
        PROVE  /\ lo[t2[j]] = IF j = 1 THEN from ELSE s2[j - 1]
               /\ hi[t2[j]] = IF j = Len(t2) THEN s[n] ELSE s2[j]
    <3>1. j \in 1..n /\ j \in 1..(n + 1) /\ j # n + 1 /\ t2[j] = t[j]
      BY <1>1, <1>6
    <3>2. j # 1 => s2[j - 1] = s[j - 1]
      BY <1>1, <1>5, <3>1
    <3>3. j # n => s2[j] = s[j]
      BY <1>1, <1>5, <3>1
    <3> QED
      BY <1>3, <1>6, <3>1, <3>2, <3>3
  <2> QED
    BY <2>1, <2>2, <2>3, <2>4 DEF Numbers, KeysSeparate, KeysWithin, Ascending
<1>10. Numbers(u2) /\ KeysSeparate(u2, v2, lo, hi, s[n], to)
  <2>1. ASSUME NEW j \in 1..Len(u2)
        PROVE  u2[j] \in Nat /\ s[n] < u2[j] /\ s[n] <= u2[j] /\ Below(u2[j], to)
    <3>1. CASE j = 1
      BY <1>2, <1>4, <1>7, <3>1
    <3>2. CASE j # 1
      <4>1. u2[j] \in Nat /\ mid < u2[j] /\ Below(u2[j], to)
        BY <1>2, <1>7, <3>2
      <4> QED
        BY <1>4, <4>1
    <3> QED
      BY <3>1, <3>2
  <2>2. ASSUME NEW j \in 1..Len(u2), NEW l \in 1..Len(u2), j < l PROVE u2[j] < u2[l]
    <3>1. l # 1 /\ l - 1 \in 1..Len(u) /\ u2[l] = u[l - 1]
      BY <1>7, <2>2
    <3>2. CASE j = 1
      BY <1>2, <1>7, <3>1, <3>2
    <3>3. CASE j # 1
      <4>1. j - 1 \in 1..Len(u) /\ u2[j] = u[j - 1] /\ j - 1 < l - 1
        BY <1>2, <1>7, <2>2, <3>3
      <4> QED
        BY <1>2, <3>1, <4>1
    <3> QED
      BY <3>2, <3>3
  <2>3. Len(u2) \in Nat /\ Len(v2) = Len(u2) + 1
    BY <1>2, <1>7, <1>8
  <2>4. ASSUME NEW j \in 1..Len(v2)
        PROVE  /\ lo[v2[j]] = IF j = 1 THEN s[n] ELSE u2[j - 1]
               /\ hi[v2[j]] = IF j = Len(v2) THEN to ELSE u2[j]
    <3>1. CASE j = 1
      <4>1. n + 1 \in 1..(n + 1) /\ n + 1 # 1 /\ n + 1 - 1 = n /\ j # Len(v2)
        BY <1>1, <1>2, <1>8, <3>1
      <4> QED
        BY SMTT(30), <1>3, <1>7, <1>8, <3>1, <4>1
    <3>2. CASE j # 1
      <4>1. j - 1 \in 1..Len(v) /\ v2[j] = v[j - 1] /\ ((j = Len(v2)) <=> (j - 1 = Len(v)))
        BY <1>2, <1>8, <3>2
      <4>2. j - 1 = 1 => u2[j - 1] = mid
        BY <1>7
      <4>3. j - 1 # 1 => u2[j - 1] = u[j - 1 - 1]
        <5>1. j - 1 # 1 => j - 1 \in 1..Len(u2)
          BY <1>2, <1>7, <4>1
        <5> QED
          BY <1>7, <5>1
      <4>4. j # Len(v2) => u2[j] = u[j - 1]
        <5>1. Len(u) \in Nat /\ Len(u2) = Len(u) + 1 /\ Len(v2) = Len(u) + 2 /\ j \in 1..Len(v2)
          BY <1>2, <1>7, <1>8
        <5>2. j # Len(v2) => j \in 1..Len(u2)
          BY <5>1
        <5> QED
          BY <1>7, <3>2, <5>2
      <4> QED
        BY <1>3, <3>2, <4>1, <4>2, <4>3, <4>4
    <3> QED
      BY <3>1, <3>2
  <2> QED
    BY <1>4, <2>1, <2>2, <2>3, <2>4 DEF Numbers, KeysSeparate, KeysWithin, Ascending
<1> QED
  BY <1>4, <1>9, <1>10

\* The first child goes to the node on the left, the key after it moves up
\* and the key between the two moves down.
FirstChildMoves(s, t, u, v, s2, t2, u2, v2, lo, hi, from, mid, to, n) ==
    /\ from \in Nat /\ mid \in Nat /\ to \in Nat
    /\ Numbers(s) /\ KeysSeparate(s, t, lo, hi, from, mid)
    /\ Numbers(u) /\ KeysSeparate(u, v, lo, hi, mid, to) /\ from < mid
    /\ n = Len(s) /\ Len(u) >= 1 /\ PutIn(s2, s, n + 1, mid) /\ PutIn(t2, t, n + 2, v[1])
    /\ TakenOut(u2, u, 1) /\ TakenOut(v2, v, 1)

\* Then the key that moved up separates the two.
LEMMA SeparateFirstMoved ==
    ASSUME NEW s, NEW t, NEW u, NEW v, NEW s2, NEW t2, NEW u2, NEW v2, NEW lo, NEW hi,
           NEW from, NEW mid, NEW to, NEW n,
           FirstChildMoves(s, t, u, v, s2, t2, u2, v2, lo, hi, from, mid, to, n)
    PROVE  /\ Numbers(s2) /\ KeysSeparate(s2, t2, lo, hi, from, u[1])
           /\ Numbers(u2) /\ KeysSeparate(u2, v2, lo, hi, u[1], to)
           /\ u[1] \in Nat /\ from < u[1] /\ Below(u[1], to)
<1> /\ from \in Nat /\ mid \in Nat /\ to \in Nat
    /\ Numbers(s) /\ KeysSeparate(s, t, lo, hi, from, mid)
    /\ Numbers(u) /\ KeysSeparate(u, v, lo, hi, mid, to) /\ from < mid
    /\ n = Len(s) /\ Len(u) >= 1 /\ PutIn(s2, s, n + 1, mid) /\ PutIn(t2, t, n + 2, v[1])
    /\ TakenOut(u2, u, 1) /\ TakenOut(v2, v, 1)
  BY DEF FirstChildMoves
<1>1. /\ n \in Nat /\ Len(t) = n + 1
      /\ \A j \in 1..n : s[j] \in Nat /\ from < s[j] /\ Below(s[j], mid)
      /\ \A j, l \in 1..n : j < l => s[j] < s[l]
  BY SeparateFacts
<1>2. /\ Len(u) \in Nat /\ Len(v) = Len(u) + 1
      /\ \A j \in 1..Len(u) : u[j] \in Nat /\ mid < u[j] /\ Below(u[j], to)
      /\ \A j, l \in 1..Len(u) : j < l => u[j] < u[l]
      /\ Below(mid, to)
  BY SeparateFacts
<1>3. /\ \A j \in 1..(n + 1) : /\ lo[t[j]] = IF j = 1 THEN from ELSE s[j - 1]
                               /\ hi[t[j]] = IF j = n + 1 THEN mid ELSE s[j]
      /\ \A j \in 1..Len(v) : /\ lo[v[j]] = IF j = 1 THEN mid ELSE u[j - 1]
                              /\ hi[v[j]] = IF j = Len(v) THEN to ELSE u[j]
  <2>1. /\ \A j \in 1..Len(t) : /\ lo[t[j]] = IF j = 1 THEN from ELSE s[j - 1]
                                /\ hi[t[j]] = IF j = Len(t) THEN mid ELSE s[j]
        /\ \A j \in 1..Len(v) : /\ lo[v[j]] = IF j = 1 THEN mid ELSE u[j - 1]
                                /\ hi[v[j]] = IF j = Len(v) THEN to ELSE u[j]
    BY DEF KeysSeparate
  <2> QED
    BY <1>1, <2>1
<1>4. /\ 1 \in 1..Len(u) /\ u[1] \in Nat /\ mid < u[1] /\ from < u[1] /\ Below(u[1], to) /\ u[1] # 0
      /\ \A j \in 1..n : s[j] \in Nat /\ s[j] < mid
  <2>1. 1 \in 1..Len(u) /\ u[1] \in Nat /\ mid < u[1] /\ Below(u[1], to) /\ mid # 0
    BY <1>2
  <2>2. \A j \in 1..n : s[j] \in Nat /\ s[j] < mid
    BY <1>1, <2>1 DEF Below
  <2> QED
    BY <2>1, <2>2
<1>5. Len(s2) = n + 1 /\ s2[n + 1] = mid /\ \A j \in 1..n : s2[j] = s[j]
  BY <1>1 DEF PutIn
<1>6. Len(t2) = n + 2 /\ t2[n + 2] = v[1] /\ \A j \in 1..(n + 1) : t2[j] = t[j]
  BY <1>1 DEF PutIn
<1>7. Len(u2) = Len(u) - 1 /\ \A j \in 1..Len(u2) : j + 1 \in 1..Len(u) /\ 1 < j + 1 /\ u2[j] = u[j + 1]
  BY <1>2 DEF TakenOut
<1>8. Len(v2) = Len(u) /\ \A j \in 1..Len(v2) : j + 1 \in 1..Len(v) /\ v2[j] = v[j + 1]
  BY <1>2 DEF TakenOut
<1>9. Numbers(s2) /\ KeysSeparate(s2, t2, lo, hi, from, u[1])
  <2>1. ASSUME NEW j \in 1..Len(s2)
        PROVE  s2[j] \in Nat /\ from < s2[j] /\ from <= s2[j] /\ Below(s2[j], u[1])
    <3>1. CASE j = n + 1
      BY <1>4, <1>5, <3>1 DEF Below
    <3>2. CASE j # n + 1
      <4>1. j \in 1..n
        BY <1>1, <1>5, <3>2
      <4>2. s2[j] = s[j] /\ s[j] \in Nat /\ from < s[j] /\ s[j] < mid
        BY <1>1, <1>4, <1>5, <4>1
      <4> QED
        BY <1>4, <4>2 DEF Below
    <3> QED
      BY <3>1, <3>2
  <2>2. ASSUME NEW j \in 1..Len(s2), NEW l \in 1..Len(s2), j < l PROVE s2[j] < s2[l]
    <3>1. j \in 1..n /\ s2[j] = s[j]
      BY <1>1, <1>5, <2>2
    <3>2. CASE l = n + 1
      BY <1>4, <1>5, <3>1, <3>2
    <3>3. CASE l # n + 1
      <4>1. l \in 1..n /\ s2[l] = s[l]
        BY <1>1, <1>5, <3>3
      <4> QED
        BY <1>1, <2>2, <3>1, <4>1
    <3> QED
      BY <3>2, <3>3
  <2>3. Len(s2) \in Nat /\ Len(t2) = Len(s2) + 1 /\ Below(from, u[1])
    BY <1>1, <1>4, <1>5, <1>6 DEF Below
  <2>4. ASSUME NEW j \in 1..Len(t2)
        PROVE  /\ lo[t2[j]] = IF j = 1 THEN from ELSE s2[j - 1]
               /\ hi[t2[j]] = IF j = Len(t2) THEN u[1] ELSE s2[j]
    <3>1. CASE j = n + 2
      <4>1. j # 1 /\ j - 1 = n + 1 /\ 1 # Len(v) /\ 1 \in 1..Len(v)
        BY <1>1, <1>2, <3>1
      <4>2. lo[v[1]] = mid /\ hi[v[1]] = u[1]
        BY <1>3, <4>1
      <4>3. t2[j] = v[1] /\ s2[j - 1] = mid /\ j = Len(t2)
        BY <1>5, <1>6, <3>1, <4>1
      <4> QED
        BY <4>1, <4>2, <4>3
    <3>2. CASE j # n + 2
      <4>1. j \in 1..(n + 1) /\ t2[j] = t[j] /\ j # Len(t2)
        BY <1>1, <1>6, <3>2
      <4>2. j # 1 => s2[j - 1] = s[j - 1]
        BY SMTT(30), <1>1, <1>5, <4>1
      <4>3. s2[j] = IF j = n + 1 THEN mid ELSE s[j]
        BY <1>1, <1>5, <4>1
      <4> QED
        BY <1>3, <4>1, <4>2, <4>3
    <3> QED
      BY <3>1, <3>2
  <2> QED
    BY <2>1, <2>2, <2>3, <2>4 DEF Numbers, KeysSeparate, KeysWithin, Ascending
<1>10. Numbers(u2) /\ KeysSeparate(u2, v2, lo, hi, u[1], to)
  <2>1. ASSUME NEW j \in 1..Len(u2)
        PROVE  u2[j] \in Nat /\ u[1] < u2[j] /\ u[1] <= u2[j] /\ Below(u2[j], to)
    <3>1. j + 1 \in 1..Len(u) /\ 1 < j + 1 /\ u2[j] = u[j + 1]
      BY <1>7
    <3>2. u[1] < u[j + 1] /\ u[j + 1] \in Nat /\ Below(u[j + 1], to)
      BY <1>2, <1>4, <3>1
    <3> QED
      BY <1>4, <3>1, <3>2
  <2>2. ASSUME NEW j \in 1..Len(u2), NEW l \in 1..Len(u2), j < l PROVE u2[j] < u2[l]
    <3>1. j + 1 \in 1..Len(u) /\ l + 1 \in 1..Len(u) /\ u2[j] = u[j + 1] /\ u2[l] = u[l + 1] /\ j + 1 < l + 1
      BY <1>2, <1>7, <2>2
    <3> QED
      BY <1>2, <3>1
  <2>3. Len(u2) \in Nat /\ Len(v2) = Len(u2) + 1
    BY <1>2, <1>4, <1>7, <1>8
  <2>4. ASSUME NEW j \in 1..Len(v2)
        PROVE  /\ lo[v2[j]] = IF j = 1 THEN u[1] ELSE u2[j - 1]
               /\ hi[v2[j]] = IF j = Len(v2) THEN to ELSE u2[j]
    <3>1. j + 1 \in 1..Len(v) /\ v2[j] = v[j + 1] /\ j + 1 # 1 /\ j + 1 - 1 = j /\ ((j = Len(v2)) <=> (j + 1 = Len(v)))
      BY <1>2, <1>8
    <3>2. j # 1 => u2[j - 1] = u[j]
      <4>1. j # 1 => j - 1 \in 1..Len(u2) /\ j - 1 + 1 = j
        BY <1>2, <1>7, <1>8
      <4> QED
        BY <1>7, <4>1
    <3>3. j # Len(v2) => u2[j] = u[j + 1]
      <4>1. Len(u) \in Nat /\ Len(u2) = Len(u) - 1 /\ Len(v2) = Len(u) /\ j \in 1..Len(v2)
        BY <1>2, <1>7, <1>8
      <4>2. j # Len(v2) => j \in 1..Len(u2)
        BY <4>1
      <4> QED
        BY <1>7, <4>2
    <3>4. lo[v[j + 1]] = u[j] /\ hi[v[j + 1]] = IF j + 1 = Len(v) THEN to ELSE u[j + 1]
      BY <1>3, <3>1
    <3> QED
      BY <3>1, <3>2, <3>3, <3>4
  <2> QED
    BY <1>4, <2>1, <2>2, <2>3, <2>4 DEF Numbers, KeysSeparate, KeysWithin, Ascending
<1> QED
  BY <1>4, <1>9, <1>10

-----------------------------------------------------------------------------
(* Where a number belongs                                                  *)

\* A number is within the bounds of a node.
Covers(lo, hi, a, n) == lo[a] <= n /\ Below(n, hi[a])

\* What a child covers the node covers, and no other child.
LEMMA ChildrenCover ==
    ASSUME NEW s, NEW t, NEW lo, NEW hi, NEW from \in Nat, NEW to \in Nat, NEW n \in Nat,
           Numbers(s), KeysSeparate(s, t, lo, hi, from, to)
    PROVE  /\ \A i \in 1..Len(t) : Covers(lo, hi, t[i], n) => from <= n /\ Below(n, to)
           /\ \A i, j \in 1..Len(t) : Covers(lo, hi, t[i], n) /\ Covers(lo, hi, t[j], n) => i = j
<1>1. /\ Len(s) \in Nat /\ Len(t) = Len(s) + 1
      /\ \A j \in 1..Len(s) : s[j] \in Nat /\ from < s[j] /\ s[j] # 0 /\ Below(s[j], to)
      /\ \A j, l \in 1..Len(s) : j < l => s[j] < s[l]
      /\ Below(from, to)
  BY SeparateFacts
<1>2. \A j \in 1..Len(t) : /\ lo[t[j]] = IF j = 1 THEN from ELSE s[j - 1]
                           /\ hi[t[j]] = IF j = Len(t) THEN to ELSE s[j]
  BY DEF KeysSeparate
<1>3. ASSUME NEW i \in 1..Len(t), Covers(lo, hi, t[i], n)
      PROVE  /\ from <= n /\ Below(n, to)
             /\ i # 1 => i - 1 \in 1..Len(s) /\ s[i - 1] <= n
             /\ i # Len(t) => i \in 1..Len(s) /\ n < s[i]
  <2>1. lo[t[i]] <= n /\ Below(n, hi[t[i]])
    BY <1>3 DEF Covers
  <2>2. i # 1 => i - 1 \in 1..Len(s) /\ s[i - 1] <= n
    BY <1>1, <1>2, <2>1
  <2>3. i # Len(t) => i \in 1..Len(s)
    <3>1. Len(s) \in Nat /\ Len(t) = Len(s) + 1
      BY <1>1
    <3> QED
      BY <3>1
  <2>4. i # Len(t) => n < s[i]
    BY <1>1, <1>2, <2>1, <2>3 DEF Below
  <2>5. from <= n
    <3>1. CASE i = 1
      BY <1>2, <2>1, <3>1
    <3>2. CASE i # 1
      <4>1. from < s[i - 1] /\ s[i - 1] \in Nat /\ s[i - 1] <= n
        BY <1>1, <2>2, <3>2
      <4> QED
        BY <4>1
    <3> QED
      BY <3>1, <3>2
  <2>6. Below(n, to)
    <3>1. CASE i = Len(t)
      BY <1>2, <2>1, <3>1
    <3>2. CASE i # Len(t)
      <4>1. Below(s[i], to) /\ s[i] \in Nat /\ n < s[i]
        BY <1>1, <2>3, <2>4, <3>2
      <4> QED
        BY <4>1 DEF Below
    <3> QED
      BY <3>1, <3>2
  <2> QED
    BY <2>2, <2>3, <2>4, <2>5, <2>6
<1>4. ASSUME NEW i \in 1..Len(t), NEW j \in 1..Len(t), i < j,
             Covers(lo, hi, t[i], n), Covers(lo, hi, t[j], n)
      PROVE  FALSE
  <2>1. i # Len(t) /\ j # 1
    BY <1>1, <1>4
  <2>2. i \in 1..Len(s) /\ n < s[i]
    BY <1>3, <1>4, <2>1
  <2>3. j - 1 \in 1..Len(s) /\ s[j - 1] <= n
    BY <1>3, <1>4, <2>1
  <2>4. s[i] \in Nat /\ s[j - 1] \in Nat /\ (i = j - 1 \/ i < j - 1)
    BY <1>1, <1>4, <2>2, <2>3
  <2>5. i < j - 1 => s[i] < s[j - 1]
    BY <1>1, <2>2, <2>3
  <2>6. CASE i = j - 1
    BY <2>2, <2>3, <2>4, <2>6
  <2>7. CASE i < j - 1
    BY <2>2, <2>3, <2>4, <2>5, <2>7
  <2> QED
    BY <2>4, <2>6, <2>7
<1>5. \A i, j \in 1..Len(t) : Covers(lo, hi, t[i], n) /\ Covers(lo, hi, t[j], n) => i = j
  <2> SUFFICES ASSUME NEW i \in 1..Len(t), NEW j \in 1..Len(t),
                      Covers(lo, hi, t[i], n), Covers(lo, hi, t[j], n)
               PROVE  i = j
    OBVIOUS
  <2>1. i \in Int /\ j \in Int
    OBVIOUS
  <2>2. ~(i < j) /\ ~(j < i)
    BY <1>4
  <2> QED
    BY <2>1, <2>2
<1> QED
  BY <1>3, <1>5

\* So only one child covers a number.
LEMMA CoveringChild ==
    ASSUME NEW s, NEW t, NEW lo, NEW hi, NEW from \in Nat, NEW to \in Nat, NEW n \in Nat,
           Numbers(s), KeysSeparate(s, t, lo, hi, from, to), NEW i \in 1..Len(t), NEW j \in 1..Len(t),
           Covers(lo, hi, t[i], n), Covers(lo, hi, t[j], n)
    PROVE  i = j
BY ChildrenCover

\* The child after the leading keys that are no larger covers a number.
LEMMA LeadingChildCovers ==
    ASSUME NEW s, NEW t, NEW lo, NEW hi, NEW from \in Nat, NEW to \in Nat, NEW n \in Nat, NEW m,
           Numbers(s), KeysSeparate(s, t, lo, hi, from, to), from <= n, Below(n, to),
           m \in 0..Len(s), \A j \in 1..m : s[j] <= n, m < Len(s) => ~(s[m + 1] <= n)
    PROVE  Covers(lo, hi, t[m + 1], n)
<1>1. /\ Len(s) \in Nat /\ Len(t) = Len(s) + 1
      /\ \A j \in 1..Len(s) : s[j] \in Nat
  BY SeparateFacts
<1>2. m + 1 \in 1..Len(t) /\ m + 1 - 1 = m /\ (m + 1 # 1 => m \in 1..m) /\ (m + 1 # Len(t) => m < Len(s) /\ m + 1 \in 1..Len(s))
  BY <1>1
<1>3. /\ lo[t[m + 1]] = IF m + 1 = 1 THEN from ELSE s[m]
      /\ hi[t[m + 1]] = IF m + 1 = Len(t) THEN to ELSE s[m + 1]
  BY <1>2 DEF KeysSeparate
<1>4. lo[t[m + 1]] <= n
  BY <1>2, <1>3
<1>5. Below(n, hi[t[m + 1]])
  <2>1. CASE m + 1 = Len(t)
    BY <1>3, <2>1
  <2>2. CASE m + 1 # Len(t)
    <3>1. s[m + 1] \in Nat /\ ~(s[m + 1] <= n)
      BY <1>1, <1>2, <2>2
    <3>2. n < s[m + 1]
      BY <3>1
    <3> QED
      BY <1>3, <2>2, <3>2 DEF Below
  <2> QED
    BY <2>1, <2>2
<1> QED
  BY <1>4, <1>5 DEF Covers

\* The keys of a node are numbers.
LEMMA NodeNumbers ==
    ASSUME TypeOK, NEW a \in DOMAIN heap
    PROVE  Numbers(heap[a].keys)
<1>1. heap[a].keys \in Seq(Keys) /\ Len(heap[a].keys) \in Nat
  BY NodeFacts
<1>2. \A i \in 1..Len(heap[a].keys) : heap[a].keys[i] \in Nat
  BY <1>1, TreeAssumption
<1> QED
  BY <1>1, <1>2 DEF Numbers

\* Without a split the bounds are as they are.
LEMMA TopsWithoutSplit ==
    ASSUME ~Splitting, NEW D, NEW hi \in [D -> Nat]
    PROVE  Tops(hi) = hi
BY DEF Tops

\* Two live nodes of the same height that cover the same number are the same.
LEMMA CoveredOnce ==
    ASSUME Shape, ~Splitting, NEW lo \in [DOMAIN heap -> Nat], NEW hi \in [DOMAIN heap -> Nat],
           NodesBounded(lo, hi), NEW h \in [DOMAIN heap -> Nat], Graded(h), NEW n \in Nat,
           NEW a \in Live, NEW b \in Live, h[a] = h[b], Covers(lo, hi, a, n), Covers(lo, hi, b, n)
    PROVE  a = b
<1> DEFINE T == {x \in Live : \A y \in Live :
                    h[x] = h[y] /\ Covers(lo, hi, x, n) /\ Covers(lo, hi, y, n) => x = y}
           g == [x \in Live |-> h[root] - h[x]]
<1>1. /\ TypeOK /\ ChildrenAgree /\ ParentsPoint /\ RootSound /\ Unlinked = {}
      /\ Live \subseteq DOMAIN heap /\ LiveInner = Live \ LeafAddresses /\ Tops(hi) = hi
  BY TopsWithoutSplit DEF Shape, Unlinked, Live, LiveInner
<1>2. root \in Live
  BY <1>1 DEF RootSound
<1>3. \A x \in Live : h[x] \in Nat /\ h[x] <= h[root]
  BY <1>1 DEF Graded
<1>4. g \in [Live -> Nat]
  BY <1>2, <1>3
<1>5. ASSUME NEW x \in Live, x # root
      PROVE  /\ heap[x].parent \in Live /\ heap[x].parent \in LiveInner
             /\ h[heap[x].parent] = h[x] + 1
             /\ \E i \in 1..Len(heap[heap[x].parent].pointers) : heap[heap[x].parent].pointers[i] = x
  <2>1. /\ heap[x].parent \in LiveInner
        /\ \E i \in 1..Len(heap[heap[x].parent].pointers) : heap[heap[x].parent].pointers[i] = x
    BY <1>1, <1>5 DEF ParentsPoint
  <2>2. PICK i \in 1..Len(heap[heap[x].parent].pointers) : heap[heap[x].parent].pointers[i] = x
    BY <2>1
  <2>3. h[heap[heap[x].parent].pointers[i]] + 1 = h[heap[x].parent]
    BY <2>1, <2>2 DEF Graded
  <2> QED
    BY <1>1, <2>1, <2>2, <2>3
<1>6. ASSUME NEW x \in Live, \A y \in Live : g[y] < g[x] => y \in T PROVE x \in T
  <2> SUFFICES ASSUME NEW y \in Live, h[x] = h[y], Covers(lo, hi, x, n), Covers(lo, hi, y, n)
               PROVE  x = y
    OBVIOUS
  <2>1. CASE x = root
    <3>1. y # root => h[heap[y].parent] <= h[root] /\ h[heap[y].parent] = h[y] + 1
      BY <1>3, <1>5
    <3> QED
      BY <1>2, <1>3, <2>1, <3>1
  <2>2. CASE y = root
    <3>1. x # root => h[heap[x].parent] <= h[root] /\ h[heap[x].parent] = h[x] + 1
      BY <1>3, <1>5
    <3> QED
      BY <1>2, <1>3, <2>2, <3>1
  <2>3. CASE x # root /\ y # root
    <3> DEFINE p == heap[x].parent
               r == heap[y].parent
    <3>1. /\ p \in LiveInner /\ p \in Live /\ h[p] = h[x] + 1
          /\ r \in LiveInner /\ r \in Live /\ h[r] = h[y] + 1
      BY <1>5, <2>3
    <3>2. PICK i \in 1..Len(heap[p].pointers) : heap[p].pointers[i] = x
      BY <1>5, <2>3
    <3>3. PICK j \in 1..Len(heap[r].pointers) : heap[r].pointers[j] = y
      BY <1>5, <2>3
    <3> HIDE DEF p, r
    <3>4. ASSUME NEW z \in LiveInner
          PROVE  /\ \A e \in 1..Len(heap[z].pointers) :
                        Covers(lo, hi, heap[z].pointers[e], n) => Covers(lo, hi, z, n)
                 /\ \A e, f \in 1..Len(heap[z].pointers) :
                        Covers(lo, hi, heap[z].pointers[e], n) /\ Covers(lo, hi, heap[z].pointers[f], n) => e = f
      <4> DEFINE s == heap[z].keys
                 t == heap[z].pointers
                 from == lo[z]
                 to == hi[z]
      <4>1. Numbers(s) /\ from \in Nat /\ to \in Nat /\ KeysSeparate(s, t, lo, hi, from, to)
        BY <1>1, NodeNumbers DEF NodesBounded
      <4>2. Covers(lo, hi, z, n) <=> from <= n /\ Below(n, to)
        BY DEF Covers
      <4> HIDE DEF s, t, from, to
      <4>3. n \in Nat
        OBVIOUS
      <4>4. \A e \in 1..Len(t) : Covers(lo, hi, t[e], n) => from <= n /\ Below(n, to)
        BY <4>1, <4>3, ChildrenCover
      <4>5. ASSUME NEW e \in 1..Len(t), NEW f \in 1..Len(t), Covers(lo, hi, t[e], n), Covers(lo, hi, t[f], n)
            PROVE  e = f
        BY <4>1, <4>3, <4>5, CoveringChild
      <4> QED
        BY <4>2, <4>4, <4>5 DEF t
    <3>5. Covers(lo, hi, p, n) /\ Covers(lo, hi, r, n)
      BY <3>1, <3>2, <3>3, <3>4
    <3>6. g[p] < g[x]
      <4>1. h[p] = h[x] + 1 /\ h[p] \in Nat /\ h[x] \in Nat /\ h[root] \in Nat
        BY <1>2, <1>3, <3>1
      <4>2. g[p] = h[root] - h[p] /\ g[x] = h[root] - h[x]
        BY <3>1
      <4> HIDE DEF g
      <4> QED
        BY <4>1, <4>2
    <3>7. p = r
      <4>1. p \in T
        BY <1>6, <3>1, <3>6
      <4> QED
        BY <3>1, <3>5, <4>1
    <3>8. i = j
      <4>1. j \in 1..Len(heap[p].pointers) /\ heap[p].pointers[j] = y
        BY <3>3, <3>7
      <4> QED
        BY <3>1, <3>2, <3>4, <4>1
    <3> QED
      BY <3>2, <3>3, <3>7, <3>8
  <2> QED
    BY <2>1, <2>2, <2>3
<1>7. T = Live
  <2>1. T \in SUBSET Live
    OBVIOUS
  <2> HIDE DEF T, g
  <2> QED
    BY <1>4, <1>6, <2>1, MeasureInduction
<1> QED
  BY <1>7

\* The same of two leaves.
LEMMA LeafCoveredOnce ==
    ASSUME Shape, ~Splitting, NEW lo \in [DOMAIN heap -> Nat], NEW hi \in [DOMAIN heap -> Nat],
           NodesBounded(lo, hi), NEW n \in Nat,
           NEW a \in LiveLeaves, NEW b \in LiveLeaves, Covers(lo, hi, a, n), Covers(lo, hi, b, n)
    PROVE  a = b
<1>1. PICK h \in [DOMAIN heap -> Nat] : Graded(h)
  BY DEF Shape
<1>2. a \in Live /\ b \in Live /\ h[a] = 0 /\ h[b] = 0
  BY <1>1 DEF LiveLeaves, Graded
<1> QED
  BY <1>1, <1>2, CoveredOnce

\* find_leaf returns the leaf that covers the key.
LEMMA FoundLeafCovers ==
    ASSUME Shape, todo = NoCall, root # Null, NEW k \in Keys,
           NEW lo \in [DOMAIN heap -> Nat], NEW hi \in [DOMAIN heap -> Nat], Bounded(lo, hi)
    PROVE  Covers(lo, hi, find_leaf(k), k)
<1> DEFINE D == DOMAIN heap
<1>1. PICK d \in [D -> D] :
             /\ find_leaf(k) = d[root]
             /\ \A c \in D :
                  d[c] = IF c \in LeafAddresses THEN c
                         ELSE d[heap[c].pointers[UpTo(heap[c].keys, k) + 1]]
  BY FindLeafFacts
<1>2. PICK h \in [D -> Nat] : Graded(h)
  BY DEF Shape
<1>3. /\ TypeOK /\ ChildrenAgree /\ Live = D /\ LiveInner = D \ LeafAddresses /\ root \in D /\ k \in Nat
      /\ NodesBounded(lo, hi) /\ Tops(hi) = hi /\ lo[root] = 0 /\ hi[root] = 0
  <2>1. ~Splitting /\ Live = D /\ LiveInner = D \ LeafAddresses
    BY BetweenCalls
  <2>2. Tops(hi) = hi
    BY <2>1, TopsWithoutSplit
  <2>3. lo[root] = 0 /\ hi[root] = 0
    BY <2>2 DEF Bounded, EndsBounded
  <2> QED
    BY <2>1, <2>2, <2>3, TreeAssumption DEF Shape, TypeOK, Bounded
<1> DEFINE T == {c \in D : Covers(lo, hi, c, k) => Covers(lo, hi, d[c], k)}
<1>4. ASSUME NEW c \in D, \A b \in D : h[b] < h[c] => b \in T PROVE c \in T
  <2> SUFFICES ASSUME Covers(lo, hi, c, k) PROVE Covers(lo, hi, d[c], k)
    OBVIOUS
  <2>1. CASE c \in LeafAddresses
    BY <1>1, <2>1
  <2>2. CASE c \notin LeafAddresses
    <3> DEFINE s == heap[c].keys
               t == heap[c].pointers
               m == UpTo(s, k)
               e == t[m + 1]
    <3>1. s \in Seq(Keys) /\ Numbers(s) /\ Len(s) \in Nat /\ Len(t) = Len(s) + 1
      BY <1>3, <2>2, NodeFacts, NodeNumbers
    <3>2. KeysSeparate(s, t, lo, hi, lo[c], hi[c])
      BY <1>3, <2>2 DEF NodesBounded
    <3> HIDE DEF s, t
    <3>3. /\ m \in 0..Len(s) /\ (\A j \in 1..m : s[j] <= k) /\ (m < Len(s) => ~(s[m + 1] <= k))
      BY <3>1, UpToFacts
    <3>4. m + 1 \in 1..Len(t)
      BY <3>1, <3>3
    <3>5. d[c] = d[e]
      BY <1>1, <2>2 DEF s, t
    <3> HIDE DEF m
    <3>6. Covers(lo, hi, e, k)
      <4>1. lo[c] <= k /\ Below(k, hi[c])
        BY DEF Covers
      <4> QED
        BY <1>3, <3>1, <3>2, <3>3, <4>1, LeadingChildCovers
    <3>7. e \in D /\ h[e] + 1 = h[c]
      BY <1>2, <1>3, <2>2, <3>4 DEF t, ChildrenAgree, Graded
    <3> HIDE DEF e
    <3>8. e \in T
      <4>1. h[e] < h[c]
        BY <1>2, <3>7
      <4> QED
        BY <1>4, <3>7, <4>1
    <3> QED
      BY <3>5, <3>6, <3>8
  <2> QED
    BY <2>1, <2>2
<1>5. T = D
  <2>1. T \in SUBSET D
    OBVIOUS
  <2> HIDE DEF T, D
  <2> QED
    BY <1>2, <1>4, <2>1, MeasureInduction
<1>6. Covers(lo, hi, root, k)
  BY <1>3 DEF Covers, Below
<1> QED
  BY <1>1, <1>3, <1>5, <1>6

\* find_leaf returns the leaf that has the key, if one does.
LEMMA LeafOfKey ==
    ASSUME Shape, todo = NoCall, root # Null,
           NEW lo \in [DOMAIN heap -> Nat], NEW hi \in [DOMAIN heap -> Nat], Bounded(lo, hi),
           NEW a \in DOMAIN heap, a \in LeafAddresses, NEW i \in 1..Len(heap[a].keys)
    PROVE  heap[a].keys[i] \in Keys /\ find_leaf(heap[a].keys[i]) = a
<1> DEFINE k == heap[a].keys[i]
<1>1. TypeOK /\ ~Splitting /\ Live = DOMAIN heap /\ LiveLeaves = DOMAIN heap \cap LeafAddresses
  BY BetweenCalls DEF Shape, LiveLeaves
<1>2. k \in Keys /\ k \in Nat
  <2>1. heap[a].keys \in Seq(Keys)
    BY <1>1, NodeFacts
  <2>2. k \in Keys
    BY <2>1
  <2> QED
    BY <2>2, TreeAssumption
<1>3. Covers(lo, hi, a, k)
  BY <1>1 DEF Bounded, NodesBounded, KeysWithin, Covers
<1> HIDE DEF k
<1>4. Covers(lo, hi, find_leaf(k), k)
  BY <1>2, FoundLeafCovers
<1>5. find_leaf(k) \in LiveLeaves /\ a \in LiveLeaves
  BY <1>1, <1>2, FoundLeaf
<1>6. find_leaf(k) = a
  BY <1>1, <1>2, <1>3, <1>4, <1>5, LeafCoveredOnce DEF Bounded
<1> QED
  BY <1>2, <1>6 DEF k

-----------------------------------------------------------------------------
(* Bounds after a step                                                     *)

\* The keys of a node n at address a are within its bounds, and separate those
\* of its children.
NodeWithin(a, n, lo, hi, top) ==
    IF a \in LeafAddresses THEN KeysWithin(n.keys, lo[a], hi[a])
    ELSE KeysSeparate(n.keys, n.pointers, lo, top, lo[a], hi[a])

\* The leaf linked to a leaf n begins where the bounds of this one end.
NextLinked(n, to, lo, leaves) ==
    IF to = 0 THEN n.next = Null ELSE n.next \in leaves /\ lo[n.next] = to

\* What the bounds say of a node that is not to be freed.
LEMMA BoundedFacts ==
    ASSUME Shape, NEW lo \in [DOMAIN heap -> Nat], NEW hi \in [DOMAIN heap -> Nat], Bounded(lo, hi),
           NEW x \in Live
    PROVE  /\ x \in DOMAIN heap /\ lo[x] \in Nat /\ hi[x] \in Nat
           /\ Numbers(heap[x].keys)
           /\ NodeWithin(x, heap[x], lo, hi, Tops(hi))
           /\ x \in LeafAddresses =>
                x \in LiveLeaves /\ NextLinked(heap[x], hi[x], lo, LiveLeaves)
           /\ Below(lo[x], hi[x])
<1>1. TypeOK /\ x \in DOMAIN heap
  BY DEF Shape, Live
<1>2. lo[x] \in Nat /\ hi[x] \in Nat /\ Numbers(heap[x].keys)
  BY <1>1, NodeNumbers
<1>3. NodeWithin(x, heap[x], lo, hi, Tops(hi))
  BY DEF Bounded, NodesBounded, NodeWithin, LiveLeaves, LiveInner
<1>4. x \in LeafAddresses =>
                x \in LiveLeaves /\ NextLinked(heap[x], hi[x], lo, LiveLeaves)
  BY DEF Bounded, LeavesLinked, NextLinked, LiveLeaves
<1>5. Below(lo[x], hi[x])
  BY <1>3 DEF NodeWithin, KeysSeparate, KeysWithin
<1> QED
  BY <1>1, <1>2, <1>3, <1>4, <1>5

\* A child has its node as its parent, and is linked.
LEMMA ChildFacts ==
    ASSUME Shape, NEW x \in LiveInner, NEW j \in 1..Len(heap[x].pointers), NEW c, c = heap[x].pointers[j]
    PROVE  /\ c \in Live /\ c \in DOMAIN heap /\ c \notin Unlinked /\ heap[c].parent = x
           /\ x \in Live /\ x \in DOMAIN heap /\ x \notin LeafAddresses /\ x # Null
           /\ c # root /\ Distinct(heap[x].pointers)
<1>1. TypeOK /\ ChildrenAgree /\ RootSound /\ x \in Live /\ x \in DOMAIN heap /\ x \notin LeafAddresses
  BY DEF Shape, Live, LiveInner
<1>2. c \in Live \ Unlinked /\ heap[c].parent = x /\ Distinct(heap[x].pointers)
  BY <1>1 DEF ChildrenAgree
<1>3. x # Null
  BY <1>1, NodeFacts
<1>4. c # root
  BY <1>1, <1>2, <1>3 DEF RootSound, Live
<1> QED
  BY <1>1, <1>2, <1>3, <1>4 DEF Live

\* A node within its bounds whose keys, children and bounds stay as they are.
Inherits(x, n, n2, lo, hi, top, lo2, hi2, top2) ==
    /\ NodeWithin(x, n, lo, hi, top) /\ n2.keys = n.keys /\ n2.pointers = n.pointers
    /\ lo2[x] = lo[x] /\ hi2[x] = hi[x]
    /\ x \notin LeafAddresses => \A j \in 1..Len(n.pointers) :
          lo2[n.pointers[j]] = lo[n.pointers[j]] /\ top2[n.pointers[j]] = top[n.pointers[j]]

\* Such a node is still within its bounds.
LEMMA InheritedBounds ==
    ASSUME NEW x, NEW n, NEW n2, NEW lo, NEW hi, NEW top, NEW lo2, NEW hi2, NEW top2,
           Inherits(x, n, n2, lo, hi, top, lo2, hi2, top2)
    PROVE  NodeWithin(x, n2, lo2, hi2, top2)
<1> USE DEF Inherits
<1>1. CASE x \in LeafAddresses
  BY <1>1 DEF NodeWithin
<1>2. CASE x \notin LeafAddresses
  <2> DEFINE s == n.keys
             t == n.pointers
             from == lo[x]
             to == hi[x]
  <2>1. KeysSeparate(s, t, lo, top, from, to)
    BY <1>2 DEF NodeWithin
  <2>2. \A j \in 1..Len(t) : lo2[t[j]] = lo[t[j]] /\ top2[t[j]] = top[t[j]]
    BY <1>2
  <2>3. NodeWithin(x, n2, lo2, hi2, top2) <=> KeysSeparate(s, t, lo2, top2, from, to)
    BY <1>2 DEF NodeWithin
  <2> HIDE DEF s, t, from, to
  <2>4. KeysSeparate(s, t, lo2, top2, from, to)
    BY <2>1, <2>2, SeparateSame
  <2> QED
    BY <2>3, <2>4
<1> QED
  BY <1>1, <1>2

\* The bounds of the next state, put together.
LEMMA BoundsMade ==
    ASSUME NEW D, D = DOMAIN heap', NEW lo \in [D -> Nat], NEW hi \in [D -> Nat], NEW L, L = Live',
           NEW top, top = Tops(hi)',
           \A x \in L : NodeWithin(x, heap'[x], lo, hi, top),
           \A x \in L : x \in LeafAddresses => NextLinked(heap'[x], hi[x], lo, L \cap LeafAddresses),
           EndsBounded(lo, hi)'
    PROVE  \E f, g \in [DOMAIN heap' -> Nat] : Bounded(f, g)'
<1>1. LiveLeaves' = L \cap LeafAddresses /\ LiveInner' = L \ LeafAddresses
  BY DEF LiveLeaves, LiveInner
<1>2. NodesBounded(lo, hi)'
  BY <1>1 DEF NodesBounded, NodeWithin
<1>3. LeavesLinked(lo, hi)'
  BY <1>1 DEF LeavesLinked, NextLinked
<1>4. Bounded(lo, hi)'
  BY <1>2, <1>3 DEF Bounded
<1> QED
  BY <1>4

-----------------------------------------------------------------------------
(* The bounds after an insertion into a leaf or a deletion from one        *)

\* A leaf's new keys are within its bounds, nothing else of the tree changes.
LEMMA LeafEditKeepsBounds ==
    ASSUME Shape, NEW a, LeafEdited(a), heap'[a].next = heap[a].next,
           NEW lo \in [DOMAIN heap -> Nat], NEW hi \in [DOMAIN heap -> Nat], Bounded(lo, hi),
           KeysWithin(heap'[a].keys, lo[a], hi[a])
    PROVE  \E f, g \in [DOMAIN heap' -> Nat] : Bounded(f, g)'
<1>1. /\ ~Splitting /\ Live = DOMAIN heap /\ LiveLeaves = Live \cap LeafAddresses /\ Tops(hi) = hi
  <2>1. ~Splitting /\ Live = DOMAIN heap
    BY BetweenCalls DEF LeafEdited
  <2> QED
    BY <2>1, TopsWithoutSplit DEF LiveLeaves
<1>2. /\ DOMAIN heap' = DOMAIN heap /\ root' = root /\ a \in LeafAddresses
      /\ \A x \in DOMAIN heap \ {a} : heap'[x] = heap[x]
  BY DEF LeafEdited
<1>3. ~Splitting' /\ Dead' = {} /\ Live' = Live /\ Tops(hi)' = hi
  <2>1. ~Splitting' /\ Dead' = {}
    BY DEF LeafEdited, Splitting, Dead, NoCall, Repairing
  <2> QED
    BY <1>1, <1>2, <2>1 DEF Live, Tops
<1>4. ASSUME NEW x \in Live
      PROVE  /\ NodeWithin(x, heap'[x], lo, hi, hi)
             /\ x \in LeafAddresses => NextLinked(heap'[x], hi[x], lo, Live \cap LeafAddresses)
  <2>1. NodeWithin(x, heap[x], lo, hi, hi) /\ (x \in LeafAddresses => NextLinked(heap[x], hi[x], lo, LiveLeaves))
    BY <1>1, BoundedFacts
  <2>2. CASE x = a
    BY <1>1, <1>2, <2>1, <2>2 DEF NodeWithin, NextLinked
  <2>3. CASE x # a
    BY <1>1, <1>2, <2>1, <2>3
  <2> QED
    BY <2>2, <2>3
<1>5. EndsBounded(lo, hi)'
  BY <1>1, <1>2, <1>3 DEF EndsBounded, Bounded
<1> QED
  BY <1>1, <1>2, <1>3, <1>4, <1>5, BoundsMade

\* A key that find does not find is not in the leaf it is looked for in.
LEMMA KeyNotHeld ==
    ASSUME Shape, todo = NoCall, root # Null, NEW k \in Keys, find(k) = Null
    PROVE  \A i \in 1..Len(heap[find_leaf(k)].keys) : heap[find_leaf(k)].keys[i] # k
BY FindFacts

\* A key that is not held goes where it belongs in its leaf.
LEMMA PutInKeys ==
    ASSUME Shape, todo = NoCall, root # Null, NEW k \in Keys, find(k) = Null,
           NEW lo \in [DOMAIN heap -> Nat], NEW hi \in [DOMAIN heap -> Nat], Bounded(lo, hi),
           NEW a, a = find_leaf(k), NEW ks, PutIn(ks, heap[a].keys, InsertionPoint(heap[a].keys, k), k)
    PROVE  Numbers(ks) /\ KeysWithin(ks, lo[a], hi[a])
<1> DEFINE s == heap[a].keys
           i == InsertionPoint(s, k)
           from == lo[a]
           to == hi[a]
<1>1. a \in DOMAIN heap /\ a \in LeafAddresses /\ a \in Live /\ TypeOK
  BY FoundLeaf, BetweenCalls DEF Shape
<1>2. Covers(lo, hi, a, k)
  BY FoundLeafCovers
<1>3. s \in Seq(Keys) /\ k \in Nat
  BY <1>1, NodeFacts, TreeAssumption
<1>4. from \in Nat /\ to \in Nat /\ Numbers(s) /\ KeysWithin(s, from, to)
  BY <1>1, BoundedFacts DEF NodeWithin
<1>5. from <= k /\ Below(k, to)
  BY <1>2 DEF Covers
<1>6. \A j \in 1..Len(s) : s[j] # k
  BY KeyNotHeld
<1>7. PutIn(ks, s, i, k)
  OBVIOUS
<1> HIDE DEF s, from, to
<1>8. /\ i \in 1..(Len(s) + 1) /\ \A j \in 1..(i - 1) : s[j] < k
      /\ i <= Len(s) => ~(s[i] < k)
  BY <1>3, InsertionPointFacts
<1> HIDE DEF i
<1>9. i <= Len(s) => k < s[i]
  <2> SUFFICES ASSUME i <= Len(s) PROVE k < s[i]
    OBVIOUS
  <2>1. Len(s) \in Nat
    BY <1>4 DEF Numbers
  <2>2. i \in 1..Len(s)
    BY <1>8, <2>1
  <2>3. s[i] \in Nat /\ ~(s[i] < k) /\ s[i] # k
    BY <1>4, <1>6, <1>8, <2>2 DEF Numbers
  <2> QED
    BY <1>3, <2>3
<1>10. Numbers(ks) /\ KeysWithin(ks, from, to)
  BY <1>3, <1>4, <1>5, <1>7, <1>8, <1>9, WithinPutIn
<1> QED
  BY <1>10 DEF from, to

\* insert_into_leaf keeps the bounds.
LEMMA InsertIntoLeafKeepsBounds ==
    ASSUME Shape, NEW k \in Keys, NEW r, NEW a, NEW i, InsertedIntoLeaf(k, r, a, i),
           NEW lo \in [DOMAIN heap -> Nat], NEW hi \in [DOMAIN heap -> Nat], Bounded(lo, hi)
    PROVE  \E f, g \in [DOMAIN heap' -> Nat] : Bounded(f, g)'
<1>1. LeafEdited(a) /\ heap'[a].next = heap[a].next
  BY DEF InsertedIntoLeaf, LeafEdited
<1>2. /\ todo = NoCall /\ root # Null /\ find(k) = Null /\ a = find_leaf(k)
      /\ PutIn(heap'[a].keys, heap[a].keys, InsertionPoint(heap[a].keys, k), k)
  BY DEF InsertedIntoLeaf
<1>3. KeysWithin(heap'[a].keys, lo[a], hi[a])
  BY <1>2, PutInKeys
<1> QED
  BY <1>1, <1>3, LeafEditKeepsBounds

\* remove_entry_from_node keeps the bounds of a leaf.
LEMMA DeleteKeepsBounds ==
    ASSUME Shape, NEW k \in Keys, NEW a, NEW i, NEW j, DeletedFromLeaf(k, a, i, j),
           NEW lo \in [DOMAIN heap -> Nat], NEW hi \in [DOMAIN heap -> Nat], Bounded(lo, hi)
    PROVE  \E f, g \in [DOMAIN heap' -> Nat] : Bounded(f, g)'
<1>1. LeafEdited(a) /\ heap'[a].next = heap[a].next
  BY DEF DeletedFromLeaf, LeafEdited
<1>2. /\ todo = NoCall /\ a \in DOMAIN heap /\ a \in LeafAddresses
      /\ i \in 1..Len(heap[a].keys) /\ TakenOut(heap'[a].keys, heap[a].keys, i)
  BY DEF DeletedFromLeaf
<1>3. a \in Live
  BY <1>2, BetweenCalls
<1>4. Numbers(heap[a].keys) /\ KeysWithin(heap[a].keys, lo[a], hi[a]) /\ lo[a] \in Nat /\ hi[a] \in Nat
  BY <1>2, <1>3, BoundedFacts DEF NodeWithin
<1>5. KeysWithin(heap'[a].keys, lo[a], hi[a])
  BY <1>2, <1>4, WithinTakenOut
<1> QED
  BY <1>1, <1>5, LeafEditKeepsBounds

\* start_new_tree: the one leaf is not bounded.
LEMMA StartNewTreeKeepsBounds ==
    ASSUME Shape, NEW k \in Keys, NEW r, NEW a, StartedNewTree(k, r, a)
    PROVE  \E f, g \in [DOMAIN heap' -> Nat] : Bounded(f, g)'
<1> DEFINE zero == [x \in {a} |-> 0]
<1>1. /\ DOMAIN heap' = {a} /\ root' = a /\ a \in LeafAddresses
      /\ heap'[a] = Node(TRUE, <<k>>, <<r>>, Null, Null)
  BY DEF StartedNewTree, Shape, RootSound
<1>2. ~Splitting' /\ Dead' = {} /\ Live' = {a} /\ Tops(zero)' = zero
  <2>1. ~Splitting' /\ Dead' = {}
    BY DEF StartedNewTree, Splitting, Dead, NoCall, Repairing
  <2> QED
    BY <1>1, <2>1 DEF Live, Tops
<1>3. k \in Nat
  BY TreeAssumption
<1>4. KeysWithin(heap'[a].keys, 0, 0)
  <2>1. heap'[a].keys = <<k>> /\ Len(<<k>>) = 1 /\ <<k>>[1] = k
    BY <1>1 DEF Node
  <2> QED
    BY <1>3, <2>1 DEF KeysWithin, Ascending, Below
<1>5. heap'[a].next = Null
  BY <1>1 DEF Node
<1>6. NodeWithin(a, heap'[a], zero, zero, zero)
  BY <1>1, <1>4 DEF NodeWithin
<1>7. NextLinked(heap'[a], zero[a], zero, {a} \cap LeafAddresses)
  BY <1>5 DEF NextLinked
<1>8. EndsBounded(zero, zero)'
  BY <1>1, <1>2 DEF EndsBounded
<1>9. zero \in [{a} -> Nat]
  OBVIOUS
<1> HIDE DEF zero
<1> QED
  BY <1>1, <1>2, <1>6, <1>7, <1>8, <1>9, BoundsMade

\* Without nodes there is nothing to bound.
LEMMA EmptiedBounds ==
    ASSUME root' = Null, DOMAIN heap' = {}, todo' = NoCall
    PROVE  \E f, g \in [DOMAIN heap' -> Nat] : Bounded(f, g)'
<1> DEFINE none == [x \in {} |-> 0]
<1>1. ~Splitting' /\ Live' = {}
  BY DEF Splitting, NoCall, Live
<1>2. none \in [{} -> Nat]
  OBVIOUS
<1>3. EndsBounded(none, none)'
  BY <1>1 DEF EndsBounded
<1> HIDE DEF none
<1> QED
  BY <1>1, <1>2, <1>3, BoundsMade

-----------------------------------------------------------------------------
(* The bounds after a split                                                *)

\* A node a is split: the bounds of its halves a and b meet at the key mid, and
\* the parent, which is yet to be told of b, has those of both.
HalvesBounded(D, a, b, mid, lo, hi, lo2, hi2, top2) ==
    /\ lo2 \in [D \cup {b} -> Nat] /\ hi2 \in [D \cup {b} -> Nat]
    /\ lo2[b] = mid /\ hi2[a] = mid /\ hi2[b] = hi[a] /\ top2[a] = hi[a]
    /\ \A x \in D : lo2[x] = lo[x] /\ top2[x] = hi[x]
    /\ \A x \in D \ {a} : hi2[x] = hi[x]
    /\ top2 = [x \in D \cup {b} |-> IF x = a THEN hi2[b] ELSE hi2[x]]

\* There are such bounds.
LEMMA HalvesOfBounds ==
    ASSUME NEW D, NEW lo \in [D -> Nat], NEW hi \in [D -> Nat], NEW a \in D, NEW b, b \notin D, NEW mid \in Nat
    PROVE  \E lo2, hi2, top2 : HalvesBounded(D, a, b, mid, lo, hi, lo2, hi2, top2)
<1> DEFINE lo2 == [x \in D \cup {b} |-> IF x = b THEN mid ELSE lo[x]]
           hi2 == [x \in D \cup {b} |-> IF x = b THEN hi[a] ELSE IF x = a THEN mid ELSE hi[x]]
           top2 == [x \in D \cup {b} |-> IF x = a THEN hi2[b] ELSE hi2[x]]
<1>1. /\ lo2 \in [D \cup {b} -> Nat] /\ hi2 \in [D \cup {b} -> Nat]
      /\ lo2[b] = mid /\ hi2[a] = mid /\ hi2[b] = hi[a]
      /\ \A x \in D : lo2[x] = lo[x]
      /\ \A x \in D \ {a} : hi2[x] = hi[x]
  OBVIOUS
<1> HIDE DEF lo2, hi2
<1>2. top2[a] = hi[a] /\ \A x \in D : top2[x] = hi[x]
  BY <1>1
<1>3. top2 = [x \in D \cup {b} |-> IF x = a THEN hi2[b] ELSE hi2[x]]
  OBVIOUS
<1> HIDE DEF top2
<1>4. HalvesBounded(D, a, b, mid, lo, hi, lo2, hi2, top2)
  BY <1>1, <1>2, <1>3 DEF HalvesBounded
<1> QED
  BY <1>4

\* insert_into_leaf_after_splitting keeps the bounds.
LEMMA SplitLeafKeepsBounds ==
    ASSUME Shape, NEW k \in Keys, NEW r, NEW a, NEW b, NEW i, NEW ks, NEW ps, NEW m,
           SplitTheLeaf(k, r, a, b, i, ks, ps, m),
           NEW lo \in [DOMAIN heap -> Nat], NEW hi \in [DOMAIN heap -> Nat], Bounded(lo, hi)
    PROVE  \E f, g \in [DOMAIN heap' -> Nat] : Bounded(f, g)'
<1> DEFINE mid == ks[m + 1]
<1>1. /\ todo = NoCall /\ root # Null /\ root' = root /\ find(k) = Null /\ a = find_leaf(k)
      /\ a \in DOMAIN heap /\ a \in LeafAddresses /\ b \in LeafAddresses /\ b \notin DOMAIN heap
      /\ PutIn(ks, heap[a].keys, InsertionPoint(heap[a].keys, k), k)
      /\ m \in 1..(Order - 1) /\ Len(heap[a].keys) = Order - 1
      /\ DOMAIN heap' = DOMAIN heap \cup {b}
      /\ todo' = [call |-> "insert_into_parent", left |-> a, key |-> mid, right |-> b]
  BY DEF SplitTheLeaf
<1>2. /\ PartOf(heap'[a].keys, ks, 1, m) /\ PartOf(heap'[b].keys, ks, m + 1, Order)
      /\ heap'[a].next = b /\ heap'[b].next = heap[a].next
      /\ \A x \in DOMAIN heap \ {a} : heap'[x] = heap[x]
  BY DEF SplitTheLeaf
<1>3. Live = DOMAIN heap /\ LiveLeaves = Live \cap LeafAddresses /\ ~Splitting /\ Tops(hi) = hi
  <2>1. ~Splitting /\ Live = DOMAIN heap
    BY <1>1, BetweenCalls
  <2> QED
    BY <2>1, TopsWithoutSplit DEF LiveLeaves
<1>4. /\ Splitting' /\ todo'.left = a /\ todo'.right = b /\ todo'.key = mid
      /\ Live' = DOMAIN heap \cup {b}
  BY <1>1 DEF Splitting, Live, Dead, Repairing
<1>5. Numbers(ks) /\ KeysWithin(ks, lo[a], hi[a]) /\ Len(ks) = Order
  <2>1. Numbers(ks) /\ KeysWithin(ks, lo[a], hi[a])
    BY <1>1, PutInKeys
  <2>2. Len(ks) = (Order - 1) + 1
    BY <1>1 DEF PutIn
  <2> QED
    BY <2>1, <2>2, TreeAssumption
<1>6. lo[a] \in Nat /\ hi[a] \in Nat
  BY <1>1
<1>7. /\ KeysWithin(heap'[a].keys, lo[a], mid) /\ KeysWithin(heap'[b].keys, mid, hi[a])
      /\ mid \in Nat /\ lo[a] < mid
  BY <1>1, <1>2, <1>5, <1>6, WithinHalves
<1> HIDE DEF mid
<1>8. PICK lo2, hi2, top2 : HalvesBounded(DOMAIN heap, a, b, mid, lo, hi, lo2, hi2, top2)
  BY <1>1, <1>7, HalvesOfBounds
<1>9. /\ lo2 \in [DOMAIN heap' -> Nat] /\ hi2 \in [DOMAIN heap' -> Nat]
      /\ lo2[b] = mid /\ hi2[a] = mid /\ hi2[b] = hi[a] /\ top2[a] = hi[a]
      /\ \A x \in DOMAIN heap : lo2[x] = lo[x] /\ top2[x] = hi[x]
      /\ \A x \in DOMAIN heap \ {a} : hi2[x] = hi[x]
  <2>1. DOMAIN heap' = DOMAIN heap \cup {b}
    BY <1>1
  <2> QED
    BY <1>8, <2>1 DEF HalvesBounded
<1>10. top2 = Tops(hi2)'
  <2>1. Tops(hi2)' = [x \in DOMAIN hi2 |-> IF x = a THEN hi2[b] ELSE hi2[x]]
    BY <1>4 DEF Tops
  <2>2. DOMAIN hi2 = DOMAIN heap \cup {b}
    BY <1>1, <1>9
  <2> QED
    BY <1>8, <2>1, <2>2 DEF HalvesBounded
<1>11. /\ NodeWithin(a, heap'[a], lo2, hi2, top2) /\ NodeWithin(b, heap'[b], lo2, hi2, top2)
  BY <1>1, <1>7, <1>9 DEF NodeWithin
<1>12. mid # 0
  BY <1>6, <1>7
<1>13. NextLinked(heap'[a], hi2[a], lo2, Live' \cap LeafAddresses)
  BY <1>1, <1>2, <1>4, <1>9, <1>12 DEF NextLinked
<1>14. NextLinked(heap'[b], hi2[b], lo2, Live' \cap LeafAddresses)
  <2>1. NextLinked(heap[a], hi[a], lo, LiveLeaves)
    BY <1>1, <1>3, BoundedFacts
  <2> QED
    BY <1>1, <1>2, <1>3, <1>4, <1>9, <2>1 DEF NextLinked
<1>15. ASSUME NEW x \in DOMAIN heap, x # a
       PROVE  /\ NodeWithin(x, heap'[x], lo2, hi2, top2)
              /\ x \in LeafAddresses => NextLinked(heap'[x], hi2[x], lo2, Live' \cap LeafAddresses)
  <2>1. NodeWithin(x, heap[x], lo, hi, hi) /\ (x \in LeafAddresses => NextLinked(heap[x], hi[x], lo, LiveLeaves))
    BY <1>3, BoundedFacts
  <2>2. heap'[x] = heap[x] /\ lo2[x] = lo[x] /\ hi2[x] = hi[x]
    BY <1>2, <1>9, <1>15
  <2>3. x \notin LeafAddresses => \A j \in 1..Len(heap[x].pointers) :
           lo2[heap[x].pointers[j]] = lo[heap[x].pointers[j]] /\ top2[heap[x].pointers[j]] = hi[heap[x].pointers[j]]
    <3> SUFFICES ASSUME x \notin LeafAddresses, NEW j \in 1..Len(heap[x].pointers), NEW c, c = heap[x].pointers[j]
                 PROVE  lo2[c] = lo[c] /\ top2[c] = hi[c]
      OBVIOUS
    <3>1. c \in DOMAIN heap
      BY <1>3, ChildFacts DEF LiveInner
    <3> QED
      BY <1>9, <3>1
  <2>4. NodeWithin(x, heap'[x], lo2, hi2, top2)
    <3>1. Inherits(x, heap[x], heap'[x], lo, hi, hi, lo2, hi2, top2)
      BY <2>1, <2>2, <2>3 DEF Inherits
    <3> QED
      BY <3>1, InheritedBounds
  <2>5. x \in LeafAddresses => NextLinked(heap'[x], hi2[x], lo2, Live' \cap LeafAddresses)
    BY <1>3, <1>4, <1>9, <2>1, <2>2 DEF NextLinked
  <2> QED
    BY <2>4, <2>5
<1>16. EndsBounded(lo2, hi2)'
  <2>1. root \in DOMAIN heap /\ lo[root] = 0 /\ hi[root] = 0
    BY <1>1, <1>3 DEF Bounded, EndsBounded, Shape, RootSound, Live
  <2>2. lo2[root'] = 0 /\ top2[root'] = 0
    BY <1>1, <1>9, <2>1
  <2>3. lo2[a] < mid /\ hi2[a] = mid /\ lo2[b] = mid
    BY <1>1, <1>7, <1>9
  <2> QED
    BY <1>4, <1>10, <2>2, <2>3 DEF EndsBounded
<1> QED
  BY <1>1, <1>4, <1>9, <1>10, <1>11, <1>13, <1>14, <1>15, <1>16, <1>12, BoundsMade

\* insert_into_new_root keeps the bounds.
LEMMA InsertIntoNewRootKeepsBounds ==
    ASSUME Shape, NodesTyped(heap'), NEW a, InsertedIntoNewRoot(a),
           NEW lo \in [DOMAIN heap -> Nat], NEW hi \in [DOMAIN heap -> Nat], Bounded(lo, hi)
    PROVE  \E f, g \in [DOMAIN heap' -> Nat] : Bounded(f, g)'
<1> DEFINE l == todo.left
           r == todo.right
           mid == todo.key
<1>1. /\ Splitting /\ l = root /\ root' = a /\ a \notin LeafAddresses /\ a \notin DOMAIN heap
      /\ DOMAIN heap' = DOMAIN heap \cup {a} /\ todo' = NoCall
      /\ heap'[a] = Node(FALSE, <<mid>>, <<l, r>>, Null, Null)
      /\ \A x \in {l, r} : heap'[x] = Node(heap[x].leaf, heap[x].keys, heap[x].pointers, a, heap[x].next)
      /\ \A x \in DOMAIN heap \ {l, r} : heap'[x] = heap[x]
  BY DEF InsertedIntoNewRoot
<1>2. /\ l \in DOMAIN heap /\ r \in DOMAIN heap /\ l # r /\ mid \in Nat
      /\ Live = DOMAIN heap /\ LiveInner = DOMAIN heap \ LeafAddresses /\ LiveLeaves = Live \cap LeafAddresses
  BY <1>1, SplittingFacts, TreeAssumption DEF LiveLeaves
<1>3. /\ Tops(hi)[l] = hi[r] /\ \A x \in DOMAIN heap \ {l} : Tops(hi)[x] = hi[x]
  BY <1>1, <1>2 DEF Tops
<1>4. /\ lo[l] = 0 /\ hi[r] = 0 /\ 0 < mid /\ hi[l] = mid /\ lo[r] = mid
  <2>1. EndsBounded(lo, hi) /\ root # Null
    BY <1>1 DEF Bounded, Shape, RootSound, Splitting, NoCall
  <2>2. lo[l] = 0 /\ Tops(hi)[l] = 0 /\ lo[l] < mid /\ hi[l] = mid /\ lo[r] = mid
    BY <1>1, <2>1 DEF EndsBounded
  <2> QED
    BY <1>3, <2>2
<1>5. Extends(DOMAIN heap, lo, DOMAIN heap', a, 0) /\ Extends(DOMAIN heap, hi, DOMAIN heap', a, 0)
  BY <1>1 DEF Extends
<1>6. PICK lo2 \in [DOMAIN heap' -> Nat] : lo2[a] = 0 /\ \A x \in DOMAIN heap : lo2[x] = lo[x]
  BY <1>5, GradesAdded
<1>7. PICK hi2 \in [DOMAIN heap' -> Nat] : hi2[a] = 0 /\ \A x \in DOMAIN heap : hi2[x] = hi[x]
  BY <1>5, GradesAdded
<1>8. /\ lo2 \in [DOMAIN heap' -> Nat] /\ hi2 \in [DOMAIN heap' -> Nat] /\ lo2[a] = 0 /\ hi2[a] = 0
      /\ \A x \in DOMAIN heap : lo2[x] = lo[x] /\ hi2[x] = hi[x]
  BY <1>6, <1>7
<1>9. ~Splitting' /\ Live' = DOMAIN heap \cup {a} /\ hi2 = Tops(hi2)'
  <2>1. ~Splitting' /\ Dead' = {}
    BY <1>1 DEF Splitting, Dead, NoCall, Repairing
  <2> QED
    BY <1>1, <1>8, <2>1 DEF Live, Tops
<1> HIDE DEF l, r, mid
<1>10. NodeWithin(a, heap'[a], lo2, hi2, hi2)
  <2> DEFINE s == <<mid>>
             t == <<l, r>>
  <2>1. Len(s) = 1 /\ s[1] = mid /\ Len(t) = 2 /\ t[1] = l /\ t[2] = r
    OBVIOUS
  <2>2. lo2[l] = 0 /\ hi2[l] = mid /\ lo2[r] = mid /\ hi2[r] = 0
    BY <1>2, <1>4, <1>8
  <2> HIDE DEF s, t
  <2>3. KeysWithin(s, 0, 0)
    BY <1>2, <2>1 DEF KeysWithin, Ascending, Below
  <2>4. \A i \in 1..Len(t) : /\ lo2[t[i]] = IF i = 1 THEN 0 ELSE s[i - 1]
                             /\ hi2[t[i]] = IF i = Len(t) THEN 0 ELSE s[i]
    <3> SUFFICES ASSUME NEW i \in 1..Len(t)
                 PROVE  /\ lo2[t[i]] = IF i = 1 THEN 0 ELSE s[i - 1]
                        /\ hi2[t[i]] = IF i = Len(t) THEN 0 ELSE s[i]
      OBVIOUS
    <3>1. i = 1 \/ i = 2
      BY <2>1
    <3>2. CASE i = 1
      BY <2>1, <2>2, <3>2
    <3>3. CASE i = 2
      <4>1. i - 1 = 1
        BY <3>3
      <4> QED
        BY <2>1, <2>2, <3>3, <4>1
    <3> QED
      BY <3>1, <3>2, <3>3
  <2>5. KeysSeparate(s, t, lo2, hi2, 0, 0)
    <3>1. \A i \in 1..Len(s) : 0 < s[i]
      BY <1>4, <2>1
    <3> QED
      BY <2>1, <2>3, <2>4, <3>1 DEF KeysSeparate
  <2>6. heap'[a].keys = s /\ heap'[a].pointers = t
    BY <1>1 DEF Node, s, t
  <2> QED
    BY <1>1, <1>8, <2>5, <2>6 DEF NodeWithin
<1>11. ASSUME NEW x \in DOMAIN heap
       PROVE  /\ heap'[x].keys = heap[x].keys /\ heap'[x].pointers = heap[x].pointers
              /\ heap'[x].next = heap[x].next
  <2>1. CASE x \in {l, r}
    BY <1>1, <2>1 DEF Node
  <2>2. CASE x \notin {l, r}
    BY <1>1, <2>2
  <2> QED
    BY <2>1, <2>2
<1>12. ASSUME NEW x \in DOMAIN heap
       PROVE  /\ NodeWithin(x, heap'[x], lo2, hi2, hi2)
              /\ x \in LeafAddresses => NextLinked(heap'[x], hi2[x], lo2, Live' \cap LeafAddresses)
  <2>1. /\ NodeWithin(x, heap[x], lo, hi, Tops(hi))
        /\ x \in LeafAddresses => NextLinked(heap[x], hi[x], lo, LiveLeaves)
    BY <1>2, BoundedFacts
  <2>2. x \notin LeafAddresses => \A j \in 1..Len(heap[x].pointers) :
           /\ lo2[heap[x].pointers[j]] = lo[heap[x].pointers[j]]
           /\ hi2[heap[x].pointers[j]] = Tops(hi)[heap[x].pointers[j]]
    <3> SUFFICES ASSUME x \notin LeafAddresses, NEW j \in 1..Len(heap[x].pointers), NEW c, c = heap[x].pointers[j]
                 PROVE  lo2[c] = lo[c] /\ hi2[c] = Tops(hi)[c]
      OBVIOUS
    <3>1. x \in LiveInner
      BY <1>2
    <3>2. c \in DOMAIN heap /\ c # root
      BY <3>1, ChildFacts
    <3> QED
      BY <1>1, <1>3, <1>8, <3>2
  <2>3. NodeWithin(x, heap'[x], lo2, hi2, hi2)
    <3>1. /\ heap'[x].keys = heap[x].keys /\ heap'[x].pointers = heap[x].pointers
          /\ lo2[x] = lo[x] /\ hi2[x] = hi[x]
      BY <1>8, <1>11
    <3> DEFINE top == Tops(hi)
    <3>2. /\ NodeWithin(x, heap[x], lo, hi, top)
          /\ x \notin LeafAddresses => \A j \in 1..Len(heap[x].pointers) :
                /\ lo2[heap[x].pointers[j]] = lo[heap[x].pointers[j]]
                /\ hi2[heap[x].pointers[j]] = top[heap[x].pointers[j]]
      BY <2>1, <2>2
    <3> HIDE DEF top
    <3>3. Inherits(x, heap[x], heap'[x], lo, hi, top, lo2, hi2, hi2)
      BY <3>1, <3>2 DEF Inherits
    <3> QED
      BY <3>3, InheritedBounds
  <2>4. x \in LeafAddresses => NextLinked(heap'[x], hi2[x], lo2, Live' \cap LeafAddresses)
    BY <1>2, <1>8, <1>9, <1>11, <2>1 DEF NextLinked
  <2> QED
    BY <2>3, <2>4
<1>13. EndsBounded(lo2, hi2)'
  BY <1>1, <1>8, <1>9 DEF EndsBounded
<1> QED
  BY <1>1, <1>8, <1>9, <1>10, <1>12, <1>13, BoundsMade

\* What insert_into_node and its splitting variant put in, the new key and the
\* right half after the left one, keeps the keys of the parent p apart.
LEMMA HalfPutIn ==
    ASSUME Shape, Splitting, NEW lo \in [DOMAIN heap -> Nat], NEW hi \in [DOMAIN heap -> Nat], Bounded(lo, hi),
           NEW p \in LiveInner, NEW i \in 1..Len(heap[p].pointers), heap[p].pointers[i] = todo.left,
           NEW ks, NEW ps, PutIn(ks, heap[p].keys, i, todo.key), PutIn(ps, heap[p].pointers, i + 1, todo.right)
    PROVE  Numbers(ks) /\ KeysSeparate(ks, ps, lo, hi, lo[p], hi[p])
<1> DEFINE l == todo.left
           r == todo.right
           k == todo.key
           s == heap[p].keys
           t == heap[p].pointers
           from == lo[p]
           to == hi[p]
           top == Tops(hi)
<1>1. /\ l \in DOMAIN heap /\ r \in DOMAIN heap /\ k \in Nat /\ Live = DOMAIN heap
  BY SplittingFacts, TreeAssumption
<1>2. top[l] = hi[r] /\ \A x \in DOMAIN heap \ {l} : top[x] = hi[x]
  BY <1>1 DEF Tops
<1>3. lo[l] < k /\ hi[l] = k /\ lo[r] = k
  BY DEF Bounded, EndsBounded
<1>4. Below(k, hi[r])
  BY <1>1, <1>3, BoundedFacts
<1>5. /\ p \in Live /\ p \notin LeafAddresses /\ Distinct(t)
      /\ \A j \in 1..Len(t) : t[j] \in DOMAIN heap
  BY ChildFacts DEF LiveInner
<1>6. from \in Nat /\ to \in Nat /\ Numbers(s) /\ KeysSeparate(s, t, lo, top, from, to)
  BY <1>5, BoundedFacts DEF NodeWithin
<1>7. PutIn(ks, s, i, k) /\ PutIn(ps, t, i + 1, r) /\ t[i] = l /\ i \in 1..Len(t)
  OBVIOUS
<1> HIDE DEF l, r, k, s, t, from, to, top
<1>8. \A j \in 1..Len(t) : j # i => t[j] # l
  BY <1>5, <1>7 DEF Distinct
<1>9. SplitBounds(t, lo, top, lo, hi, i, k, r)
  BY <1>2, <1>3, <1>4, <1>5, <1>7, <1>8 DEF SplitBounds
<1>10. Numbers(ks) /\ KeysSeparate(ks, ps, lo, hi, from, to)
  BY <1>1, <1>6, <1>7, <1>9, SeparatePutIn
<1> QED
  BY <1>10 DEF from, to

\* A node that is not the parent of the halves has none of them as a child.
LEMMA ApartFromHalves ==
    ASSUME Shape, Splitting, NEW p, p = heap[todo.left].parent, NEW x \in LiveInner, x # p,
           NEW hi \in [DOMAIN heap -> Nat]
    PROVE  \A j \in 1..Len(heap[x].pointers) :
              /\ heap[x].pointers[j] \in DOMAIN heap
              /\ Tops(hi)[heap[x].pointers[j]] = hi[heap[x].pointers[j]]
<1> SUFFICES ASSUME NEW j \in 1..Len(heap[x].pointers), NEW c, c = heap[x].pointers[j]
             PROVE  c \in DOMAIN heap /\ Tops(hi)[c] = hi[c]
  OBVIOUS
<1>1. c \in DOMAIN heap /\ heap[c].parent = x
  BY ChildFacts
<1>2. c # todo.left
  BY <1>1
<1> QED
  BY <1>1, <1>2 DEF Tops

\* insert_into_node keeps the bounds.
LEMMA InsertIntoNodeKeepsBounds ==
    ASSUME Shape, NEW p, NEW i, InsertedIntoNode(p, i),
           NEW lo \in [DOMAIN heap -> Nat], NEW hi \in [DOMAIN heap -> Nat], Bounded(lo, hi)
    PROVE  \E f, g \in [DOMAIN heap' -> Nat] : Bounded(f, g)'
<1>1. /\ Splitting /\ root' = root /\ p = heap[todo.left].parent /\ p \in DOMAIN heap /\ p \notin LeafAddresses
      /\ DOMAIN heap' = DOMAIN heap /\ todo' = NoCall /\ todo.left # root
      /\ i \in 1..Len(heap[p].pointers) /\ heap[p].pointers[i] = todo.left
      /\ PutIn(heap'[p].keys, heap[p].keys, i, todo.key)
      /\ PutIn(heap'[p].pointers, heap[p].pointers, i + 1, todo.right)
      /\ \A x \in DOMAIN heap \ {p} : heap'[x] = heap[x]
  BY DEF InsertedIntoNode
<1>2. /\ Live = DOMAIN heap /\ LiveInner = DOMAIN heap \ LeafAddresses /\ LiveLeaves = Live \cap LeafAddresses
      /\ root \in DOMAIN heap
  BY <1>1, SplittingFacts DEF LiveLeaves
<1>3. ~Splitting' /\ Live' = DOMAIN heap /\ Tops(hi)' = hi
  <2>1. ~Splitting' /\ Dead' = {}
    BY <1>1 DEF Splitting, Dead, NoCall, Repairing
  <2> QED
    BY <1>1, <2>1 DEF Live, Tops
<1>4. NodeWithin(p, heap'[p], lo, hi, hi)
  <2>1. KeysSeparate(heap'[p].keys, heap'[p].pointers, lo, hi, lo[p], hi[p])
    BY <1>1, <1>2, HalfPutIn
  <2> QED
    BY <1>1, <2>1 DEF NodeWithin
<1>5. ASSUME NEW x \in DOMAIN heap, x # p
      PROVE  /\ NodeWithin(x, heap'[x], lo, hi, hi)
             /\ x \in LeafAddresses => NextLinked(heap'[x], hi[x], lo, Live \cap LeafAddresses)
  <2>1. /\ NodeWithin(x, heap[x], lo, hi, Tops(hi))
        /\ x \in LeafAddresses => NextLinked(heap[x], hi[x], lo, LiveLeaves)
    BY <1>2, BoundedFacts
  <2>2. x \notin LeafAddresses => \A j \in 1..Len(heap[x].pointers) :
           /\ lo[heap[x].pointers[j]] = lo[heap[x].pointers[j]]
           /\ hi[heap[x].pointers[j]] = Tops(hi)[heap[x].pointers[j]]
    <3> SUFFICES ASSUME x \notin LeafAddresses, NEW j \in 1..Len(heap[x].pointers)
                 PROVE  hi[heap[x].pointers[j]] = Tops(hi)[heap[x].pointers[j]]
      OBVIOUS
    <3>1. x \in LiveInner
      BY <1>2
    <3> QED
      BY <1>1, <1>5, <3>1, ApartFromHalves
  <2>3. heap'[x] = heap[x]
    BY <1>1, <1>5
  <2>4. NodeWithin(x, heap'[x], lo, hi, hi)
    <3> DEFINE top == Tops(hi)
    <3>1. /\ NodeWithin(x, heap[x], lo, hi, top)
          /\ x \notin LeafAddresses => \A j \in 1..Len(heap[x].pointers) :
                /\ lo[heap[x].pointers[j]] = lo[heap[x].pointers[j]]
                /\ hi[heap[x].pointers[j]] = top[heap[x].pointers[j]]
      BY <2>1, <2>2
    <3> HIDE DEF top
    <3>2. Inherits(x, heap[x], heap'[x], lo, hi, top, lo, hi, hi)
      BY <2>3, <3>1 DEF Inherits
    <3> QED
      BY <3>2, InheritedBounds
  <2> QED
    BY <1>2, <2>1, <2>3, <2>4
<1>6. EndsBounded(lo, hi)'
  <2>1. lo[root] = 0 /\ Tops(hi)[root] = 0
    BY <1>2, NodeFacts DEF Bounded, EndsBounded, Shape
  <2>2. hi[root] = 0
    BY <1>1, <1>2, <2>1 DEF Tops
  <2> QED
    BY <1>1, <1>3, <2>1, <2>2 DEF EndsBounded
<1> QED
  BY <1>1, <1>2, <1>3, <1>4, <1>5, <1>6, BoundsMade

\* insert_into_node_after_splitting keeps the bounds.
LEMMA SplitNodeKeepsBounds ==
    ASSUME Shape, NEW p, NEW b, NEW i, NEW ks, NEW ps, NEW m, SplitTheNode(p, b, i, ks, ps, m),
           NEW lo \in [DOMAIN heap -> Nat], NEW hi \in [DOMAIN heap -> Nat], Bounded(lo, hi)
    PROVE  \E f, g \in [DOMAIN heap' -> Nat] : Bounded(f, g)'
<1> DEFINE mid == ks[m]
           from == lo[p]
           to == hi[p]
<1>1. /\ Splitting /\ root' = root /\ p = heap[todo.left].parent /\ p \in DOMAIN heap /\ p \notin LeafAddresses
      /\ todo.left # root /\ b \notin LeafAddresses /\ b \notin DOMAIN heap
      /\ DOMAIN heap' = DOMAIN heap \cup {b}
      /\ todo' = [call |-> "insert_into_parent", left |-> p, key |-> mid, right |-> b]
  BY DEF SplitTheNode
<1>2. /\ Len(heap[p].keys) = Order - 1
      /\ i \in 1..Len(heap[p].pointers) /\ heap[p].pointers[i] = todo.left
      /\ PutIn(ks, heap[p].keys, i, todo.key)
      /\ PutIn(ps, heap[p].pointers, i + 1, todo.right)
      /\ m \in 2..(Order - 1)
  BY DEF SplitTheNode
<1>3. /\ PartOf(heap'[p].keys, ks, 1, m - 1) /\ PartOf(heap'[b].keys, ks, m + 1, Order)
      /\ PartOf(heap'[p].pointers, ps, 1, m) /\ PartOf(heap'[b].pointers, ps, m + 1, Order + 1)
  BY DEF SplitTheNode
<1>4. ASSUME NEW x \in DOMAIN heap, x # p
      PROVE  /\ heap'[x].keys = heap[x].keys /\ heap'[x].pointers = heap[x].pointers
             /\ heap'[x].next = heap[x].next
  <2>1. \/ heap'[x] = Node(heap[x].leaf, heap[x].keys, heap[x].pointers, b, heap[x].next)
        \/ heap'[x] = heap[x]
    BY <1>4 DEF SplitTheNode
  <2> QED
    BY <2>1 DEF Node
<1>5. /\ Live = DOMAIN heap /\ LiveInner = DOMAIN heap \ LeafAddresses /\ LiveLeaves = Live \cap LeafAddresses
      /\ root \in DOMAIN heap /\ root # Null /\ todo.right \in DOMAIN heap
  BY <1>1, SplittingFacts, NodeFacts DEF LiveLeaves, Shape
<1>6. p \in LiveInner /\ from \in Nat /\ to \in Nat
  BY <1>1, <1>5
<1>7. Numbers(ks) /\ KeysSeparate(ks, ps, lo, hi, from, to)
  BY <1>1, <1>2, <1>6, HalfPutIn
<1>8. Len(ks) = Order
  <2>1. Len(ks) = (Order - 1) + 1
    BY <1>2 DEF PutIn
  <2> QED
    BY <2>1, TreeAssumption
<1>9. \A j \in 1..Len(ps) : ps[j] \in DOMAIN heap
  <2>1. \A j \in 1..Len(heap[p].pointers) : heap[p].pointers[j] \in DOMAIN heap
    BY <1>6, ChildFacts
  <2>2. Len(heap[p].pointers) \in Nat
    BY <1>1, NodeFacts DEF Shape
  <2>3. i + 1 \in 1..(Len(heap[p].pointers) + 1)
    BY <1>2, <2>2
  <2> DEFINE t == heap[p].pointers
             z == i + 1
  <2>4. PutIn(ps, t, z, todo.right) /\ Len(t) \in Nat /\ z \in 1..(Len(t) + 1)
    BY <1>2, <2>2, <2>3
  <2>5. \A j \in 1..Len(t) : t[j] \in DOMAIN heap
    BY <2>1
  <2> HIDE DEF t, z
  <2> SUFFICES ASSUME NEW j \in 1..Len(ps) PROVE ps[j] \in DOMAIN heap
    OBVIOUS
  <2>6. /\ ps[z] = todo.right
        /\ \/ j = z
           \/ j \in 1..Len(t) /\ ps[j] = t[j]
           \/ j - 1 \in 1..Len(t) /\ ps[j] = t[j - 1]
    <3>1. j \in 1..Len(ps)
      OBVIOUS
    <3> QED
      BY <2>4, <3>1, PutInElements
  <2> QED
    BY <1>5, <2>5, <2>6
<1>10. mid \in Nat
  <2>1. m \in 1..Len(ks)
    BY <1>2, <1>8, TreeAssumption
  <2> QED
    BY <1>7, <2>1 DEF Numbers
<1> HIDE DEF mid
<1>11. PICK lo2, hi2, top2 : HalvesBounded(DOMAIN heap, p, b, mid, lo, hi, lo2, hi2, top2)
  BY <1>1, <1>10, HalvesOfBounds
<1>12. /\ lo2 \in [DOMAIN heap' -> Nat] /\ hi2 \in [DOMAIN heap' -> Nat]
       /\ lo2[b] = mid /\ hi2[p] = mid /\ hi2[b] = hi[p] /\ top2[p] = hi[p]
       /\ \A x \in DOMAIN heap : lo2[x] = lo[x] /\ top2[x] = hi[x]
       /\ \A x \in DOMAIN heap \ {p} : hi2[x] = hi[x]
  <2>1. DOMAIN heap' = DOMAIN heap \cup {b}
    BY <1>1
  <2> QED
    BY <1>11, <2>1 DEF HalvesBounded
<1>13. /\ Splitting' /\ todo'.left = p /\ todo'.right = b /\ todo'.key = mid
       /\ Live' = DOMAIN heap \cup {b}
  BY <1>1 DEF Splitting, Live, Dead, Repairing
<1>14. top2 = Tops(hi2)'
  <2>1. Tops(hi2)' = [x \in DOMAIN hi2 |-> IF x = p THEN hi2[b] ELSE hi2[x]]
    BY <1>13 DEF Tops
  <2>2. DOMAIN hi2 = DOMAIN heap \cup {b}
    BY <1>1, <1>12
  <2> QED
    BY <1>11, <2>1, <2>2 DEF HalvesBounded
<1>15. KeysSeparate(ks, ps, lo2, top2, from, to)
  <2>1. \A j \in 1..Len(ps) : lo2[ps[j]] = lo[ps[j]] /\ top2[ps[j]] = hi[ps[j]]
    BY <1>9, <1>12
  <2> QED
    BY <1>7, <2>1, SeparateSame
<1>16. /\ KeysSeparate(heap'[p].keys, heap'[p].pointers, lo2, top2, from, mid)
       /\ KeysSeparate(heap'[b].keys, heap'[b].pointers, lo2, top2, mid, to)
       /\ from < mid
  <2> DEFINE s1 == heap'[p].keys
             t1 == heap'[p].pointers
             s2 == heap'[b].keys
             t2 == heap'[b].pointers
             n == Len(ks)
  <2>1. /\ PartOf(s1, ks, 1, m - 1) /\ PartOf(s2, ks, m + 1, n)
        /\ PartOf(t1, ps, 1, m) /\ PartOf(t2, ps, m + 1, n + 1) /\ n = Len(ks) /\ m \in 2..(n - 1)
    BY <1>2, <1>3, <1>8
  <2> HIDE DEF s1, t1, s2, t2, n, from, to
  <2>2. /\ KeysSeparate(s1, t1, lo2, top2, from, ks[m]) /\ KeysSeparate(s2, t2, lo2, top2, ks[m], to)
        /\ from < ks[m]
    BY <1>6, <1>7, <1>15, <2>1, SeparateHalves
  <2> QED
    BY <2>2 DEF s1, t1, s2, t2, mid
<1>17. NodeWithin(p, heap'[p], lo2, hi2, top2) /\ NodeWithin(b, heap'[b], lo2, hi2, top2)
  BY <1>1, <1>12, <1>16 DEF NodeWithin
<1>18. ASSUME NEW x \in DOMAIN heap, x # p
       PROVE  /\ NodeWithin(x, heap'[x], lo2, hi2, top2)
              /\ x \in LeafAddresses => NextLinked(heap'[x], hi2[x], lo2, Live' \cap LeafAddresses)
  <2> DEFINE top == Tops(hi)
  <2>1. /\ NodeWithin(x, heap[x], lo, hi, top)
        /\ x \in LeafAddresses => NextLinked(heap[x], hi[x], lo, LiveLeaves)
    BY <1>5, BoundedFacts
  <2>2. x \notin LeafAddresses => \A j \in 1..Len(heap[x].pointers) :
           /\ lo2[heap[x].pointers[j]] = lo[heap[x].pointers[j]]
           /\ top2[heap[x].pointers[j]] = top[heap[x].pointers[j]]
    <3> SUFFICES ASSUME x \notin LeafAddresses, NEW j \in 1..Len(heap[x].pointers), NEW c, c = heap[x].pointers[j]
                 PROVE  lo2[c] = lo[c] /\ top2[c] = top[c]
      OBVIOUS
    <3>1. x \in LiveInner
      BY <1>5
    <3>2. c \in DOMAIN heap /\ Tops(hi)[c] = hi[c]
      BY <1>1, <1>18, <3>1, ApartFromHalves
    <3> QED
      BY <1>12, <3>2
  <2>3. /\ heap'[x].keys = heap[x].keys /\ heap'[x].pointers = heap[x].pointers
        /\ heap'[x].next = heap[x].next /\ lo2[x] = lo[x] /\ hi2[x] = hi[x]
    BY <1>4, <1>12, <1>18
  <2>4. x \in LeafAddresses => NextLinked(heap'[x], hi2[x], lo2, Live' \cap LeafAddresses)
    BY <1>5, <1>12, <1>13, <2>1, <2>3 DEF NextLinked
  <2> HIDE DEF top
  <2>5. NodeWithin(x, heap'[x], lo2, hi2, top2)
    <3>1. Inherits(x, heap[x], heap'[x], lo, hi, top, lo2, hi2, top2)
      BY <2>1, <2>2, <2>3 DEF Inherits
    <3> QED
      BY <3>1, InheritedBounds
  <2> QED
    BY <2>4, <2>5
<1>19. EndsBounded(lo2, hi2)'
  <2>1. lo[root] = 0 /\ Tops(hi)[root] = 0
    BY <1>5 DEF Bounded, EndsBounded
  <2>2. hi[root] = 0
    BY <1>1, <1>5, <2>1 DEF Tops
  <2>3. lo2[root'] = 0 /\ top2[root'] = 0
    BY <1>1, <1>5, <1>12, <2>1, <2>2
  <2>4. lo2[p] < mid /\ hi2[p] = mid /\ lo2[b] = mid
    BY <1>1, <1>12, <1>16
  <2> QED
    BY <1>13, <1>14, <2>3, <2>4 DEF EndsBounded
<1>20. b \notin LeafAddresses /\ p \notin LeafAddresses
  BY <1>1
<1> QED
  BY <1>12, <1>13, <1>14, <1>17, <1>18, <1>19, <1>20, BoundsMade

-----------------------------------------------------------------------------
(* The bounds when a deletion returns                                      *)

\* While a node is under repair the bounds of the children are as they are.
LEMMA RepairingBounds ==
    ASSUME Shape, Repairing, NEW lo \in [DOMAIN heap -> Nat], NEW hi \in [DOMAIN heap -> Nat], Bounded(lo, hi)
    PROVE  /\ ~Splitting /\ Tops(hi) = hi
           /\ root \in Live /\ lo[root] = 0 /\ hi[root] = 0
           /\ LiveLeaves = Live \cap LeafAddresses /\ LiveInner = Live \ LeafAddresses
           /\ Live \subseteq DOMAIN heap
<1>1. ~Splitting /\ root \in Live /\ root # Null /\ LiveInner = Live \ LeafAddresses
  BY RepairingFacts
<1>2. Tops(hi) = hi
  BY <1>1, TopsWithoutSplit
<1>3. lo[root] = 0 /\ hi[root] = 0
  BY <1>1, <1>2 DEF Bounded, EndsBounded
<1> QED
  BY <1>1, <1>2, <1>3 DEF LiveLeaves, Live

\* The bounds of the nodes that are left.
Narrowing(D, C, lo, hi) == C \subseteq D /\ lo \in [D -> Nat] /\ hi \in [D -> Nat]

\* There are such bounds.
LEMMA BoundsLeft ==
    ASSUME NEW D, NEW C, NEW lo, NEW hi, Narrowing(D, C, lo, hi)
    PROVE  \E lo2, hi2 \in [C -> Nat] : \A x \in C : lo2[x] = lo[x] /\ hi2[x] = hi[x]
<1>1. [x \in C |-> lo[x]] \in [C -> Nat] /\ [x \in C |-> hi[x]] \in [C -> Nat]
  BY DEF Narrowing
<1> QED
  BY <1>1

\* delete_entry has nothing to repair: the nodes that were emptied are freed.
LEMMA RepairEndedKeepsBounds ==
    ASSUME Shape, RepairEnded,
           NEW lo \in [DOMAIN heap -> Nat], NEW hi \in [DOMAIN heap -> Nat], Bounded(lo, hi)
    PROVE  \E f, g \in [DOMAIN heap' -> Nat] : Bounded(f, g)'
<1>1. /\ Repairing /\ todo' = NoCall /\ root' = root
      /\ DOMAIN heap' = Live /\ \A x \in Live : heap'[x] = heap[x]
  BY DEF RepairEnded
<1>2. /\ Tops(hi) = hi /\ root \in Live /\ lo[root] = 0 /\ hi[root] = 0
      /\ LiveLeaves = Live \cap LeafAddresses /\ LiveInner = Live \ LeafAddresses
      /\ Live \subseteq DOMAIN heap
  BY <1>1, RepairingBounds
<1>3. Narrowing(DOMAIN heap, Live, lo, hi)
  BY <1>2 DEF Narrowing
<1>4. PICK lo2, hi2 \in [Live -> Nat] : \A x \in Live : lo2[x] = lo[x] /\ hi2[x] = hi[x]
  BY <1>3, BoundsLeft
<1>5. lo2 \in [Live -> Nat] /\ \A x \in Live : lo2[x] = lo[x]
  BY <1>4
<1>6. hi2 \in [Live -> Nat] /\ \A x \in Live : hi2[x] = hi[x]
  BY <1>4
<1>7. ~Splitting' /\ Live' = Live /\ Tops(hi2)' = hi2
  <2>1. ~Splitting' /\ Dead' = {}
    BY <1>1 DEF Splitting, Dead, NoCall, Repairing
  <2>2. Live' = Live
    BY <1>1, <2>1 DEF Live
  <2> QED
    BY <1>6, <2>1, <2>2 DEF Tops
<1>8. ASSUME NEW x \in Live
      PROVE  /\ NodeWithin(x, heap'[x], lo2, hi2, hi2)
             /\ x \in LeafAddresses => NextLinked(heap'[x], hi2[x], lo2, Live \cap LeafAddresses)
  <2>1. NodeWithin(x, heap[x], lo, hi, hi) /\ (x \in LeafAddresses => NextLinked(heap[x], hi[x], lo, LiveLeaves))
    BY <1>2, BoundedFacts
  <2>2. heap'[x] = heap[x] /\ lo2[x] = lo[x] /\ hi2[x] = hi[x]
    BY <1>1, <1>5, <1>6
  <2>3. x \notin LeafAddresses => \A j \in 1..Len(heap[x].pointers) :
           lo2[heap[x].pointers[j]] = lo[heap[x].pointers[j]] /\ hi2[heap[x].pointers[j]] = hi[heap[x].pointers[j]]
    <3> SUFFICES ASSUME x \notin LeafAddresses, NEW j \in 1..Len(heap[x].pointers), NEW c, c = heap[x].pointers[j]
                 PROVE  lo2[c] = lo[c] /\ hi2[c] = hi[c]
      OBVIOUS
    <3>1. x \in LiveInner
      BY <1>2
    <3>2. c \in Live
      BY <3>1, ChildFacts
    <3> QED
      BY <1>5, <1>6, <3>2
  <2>4. NodeWithin(x, heap'[x], lo2, hi2, hi2)
    <3>1. Inherits(x, heap[x], heap'[x], lo, hi, hi, lo2, hi2, hi2)
      BY <2>1, <2>2, <2>3 DEF Inherits
    <3> QED
      BY <3>1, InheritedBounds
  <2>5. x \in LeafAddresses => NextLinked(heap'[x], hi2[x], lo2, Live \cap LeafAddresses)
    BY <1>2, <1>5, <2>1, <2>2 DEF NextLinked
  <2> QED
    BY <2>4, <2>5
<1>9. EndsBounded(lo2, hi2)'
  BY <1>1, <1>2, <1>5, <1>6, <1>7 DEF EndsBounded
<1> QED
  BY <1>1, <1>5, <1>6, <1>7, <1>8, <1>9, BoundsMade

\* adjust_root: the one child of the root is not bounded, either.
LEMMA RootLoweredKeepsBounds ==
    ASSUME Shape, NEW c, RootLowered(c),
           NEW lo \in [DOMAIN heap -> Nat], NEW hi \in [DOMAIN heap -> Nat], Bounded(lo, hi)
    PROVE  \E f, g \in [DOMAIN heap' -> Nat] : Bounded(f, g)'
<1> DEFINE L == Live \ {root}
<1>1. /\ Repairing /\ todo' = NoCall /\ root' = c /\ root \notin LeafAddresses
      /\ Len(heap[root].pointers) = 1 /\ c = heap[root].pointers[1] /\ c \in L
      /\ DOMAIN heap' = L
  BY DEF RootLowered
<1>2. ASSUME NEW x \in L
      PROVE  /\ heap'[x].keys = heap[x].keys /\ heap'[x].pointers = heap[x].pointers
             /\ heap'[x].next = heap[x].next
  <2>1. CASE x = c
    BY <2>1 DEF RootLowered, Node
  <2>2. CASE x # c
    BY <2>2 DEF RootLowered
  <2> QED
    BY <2>1, <2>2
<1>3. /\ Tops(hi) = hi /\ root \in Live /\ lo[root] = 0 /\ hi[root] = 0
      /\ LiveLeaves = Live \cap LeafAddresses /\ LiveInner = Live \ LeafAddresses
      /\ Live \subseteq DOMAIN heap
  BY <1>1, RepairingBounds
<1>4. lo[c] = 0 /\ hi[c] = 0
  <2>1. NodeWithin(root, heap[root], lo, hi, hi)
    BY <1>3, BoundedFacts
  <2>2. KeysSeparate(heap[root].keys, heap[root].pointers, lo, hi, 0, 0)
    BY <1>1, <1>3, <2>1 DEF NodeWithin
  <2> QED
    BY <1>1, <2>2 DEF KeysSeparate
<1>5. Narrowing(DOMAIN heap, L, lo, hi)
  BY <1>3 DEF Narrowing
<1> HIDE DEF L
<1>6. PICK lo2, hi2 \in [L -> Nat] : \A x \in L : lo2[x] = lo[x] /\ hi2[x] = hi[x]
  BY <1>5, BoundsLeft
<1>7. lo2 \in [L -> Nat] /\ \A x \in L : lo2[x] = lo[x]
  BY <1>6
<1>8. hi2 \in [L -> Nat] /\ \A x \in L : hi2[x] = hi[x]
  BY <1>6
<1>9. ~Splitting' /\ Live' = L /\ Tops(hi2)' = hi2
  <2>1. ~Splitting' /\ Dead' = {}
    BY <1>1 DEF Splitting, Dead, NoCall, Repairing
  <2>2. Live' = L
    BY <1>1, <2>1 DEF Live
  <2> QED
    BY <1>8, <2>1, <2>2 DEF Tops
<1>10. ASSUME NEW x \in L
       PROVE  /\ NodeWithin(x, heap'[x], lo2, hi2, hi2)
              /\ x \in LeafAddresses => NextLinked(heap'[x], hi2[x], lo2, L \cap LeafAddresses)
  <2>1. x \in Live
    BY DEF L
  <2>2. NodeWithin(x, heap[x], lo, hi, hi) /\ (x \in LeafAddresses => NextLinked(heap[x], hi[x], lo, LiveLeaves))
    BY <1>3, <2>1, BoundedFacts
  <2>3. /\ heap'[x].keys = heap[x].keys /\ heap'[x].pointers = heap[x].pointers
        /\ heap'[x].next = heap[x].next /\ lo2[x] = lo[x] /\ hi2[x] = hi[x]
    BY <1>2, <1>7, <1>8
  <2>4. x \notin LeafAddresses => \A j \in 1..Len(heap[x].pointers) :
           lo2[heap[x].pointers[j]] = lo[heap[x].pointers[j]] /\ hi2[heap[x].pointers[j]] = hi[heap[x].pointers[j]]
    <3> SUFFICES ASSUME x \notin LeafAddresses, NEW j \in 1..Len(heap[x].pointers), NEW y, y = heap[x].pointers[j]
                 PROVE  lo2[y] = lo[y] /\ hi2[y] = hi[y]
      OBVIOUS
    <3>1. x \in LiveInner
      BY <1>3, <2>1
    <3>2. y \in Live /\ y # root
      BY <3>1, ChildFacts
    <3> QED
      BY <1>7, <1>8, <3>2 DEF L
  <2>5. NodeWithin(x, heap'[x], lo2, hi2, hi2)
    <3>1. Inherits(x, heap[x], heap'[x], lo, hi, hi, lo2, hi2, hi2)
      BY <2>2, <2>3, <2>4 DEF Inherits
    <3> QED
      BY <3>1, InheritedBounds
  <2>6. LiveLeaves = L \cap LeafAddresses
    BY <1>1, <1>3 DEF L
  <2>7. x \in LeafAddresses => NextLinked(heap'[x], hi2[x], lo2, L \cap LeafAddresses)
    BY <1>7, <2>2, <2>3, <2>6 DEF NextLinked
  <2> QED
    BY <2>5, <2>7
<1>11. EndsBounded(lo2, hi2)'
  BY <1>1, <1>4, <1>7, <1>8, <1>9 DEF EndsBounded
<1> QED
  BY <1>1, <1>7, <1>8, <1>9, <1>10, <1>11, BoundsMade

-----------------------------------------------------------------------------
(* The bounds after a merge or a redistribution                            *)

\* The bounds on either side of the key at place q.
LEMMA SeparatedPair ==
    ASSUME NEW s, NEW t, NEW lo, NEW hi, NEW from \in Nat, NEW to \in Nat, NEW q,
           Numbers(s), KeysSeparate(s, t, lo, hi, from, to), q \in 1..Len(s)
    PROVE  /\ s[q] \in Nat /\ s[q] # 0
           /\ lo[t[q]] < s[q] /\ hi[t[q]] = s[q] /\ lo[t[q + 1]] = s[q] /\ Below(s[q], hi[t[q + 1]])
<1>1. /\ Len(s) \in Nat /\ Len(t) = Len(s) + 1
      /\ \A i \in 1..Len(s) : s[i] \in Nat /\ from < s[i] /\ s[i] # 0 /\ Below(s[i], to)
      /\ \A i, j \in 1..Len(s) : i < j => s[i] < s[j]
  BY SeparateFacts
<1>2. \A i \in 1..Len(t) : /\ lo[t[i]] = IF i = 1 THEN from ELSE s[i - 1]
                           /\ hi[t[i]] = IF i = Len(t) THEN to ELSE s[i]
  BY DEF KeysSeparate
<1>3. s[q] \in Nat /\ s[q] # 0 /\ from < s[q] /\ Below(s[q], to)
  BY <1>1
<1>4. /\ q \in 1..Len(t) /\ q # Len(t) /\ q + 1 \in 1..Len(t) /\ q + 1 # 1 /\ (q + 1) - 1 = q
      /\ q # 1 => q - 1 \in 1..Len(s) /\ q - 1 < q
      /\ q + 1 # Len(t) => q + 1 \in 1..Len(s) /\ q < q + 1
  <2>1. Len(s) \in Nat /\ Len(t) = Len(s) + 1
    BY <1>1
  <2> QED
    BY <2>1
<1>5. hi[t[q]] = s[q]
  BY <1>2, <1>4
<1>6. lo[t[q + 1]] = s[q]
  BY <1>2, <1>4
<1>7. lo[t[q]] < s[q]
  <2>1. CASE q = 1
    BY <1>2, <1>3, <1>4, <2>1
  <2>2. CASE q # 1
    <3>1. s[q - 1] < s[q]
      BY <1>1, <1>4, <2>2
    <3> QED
      BY <1>2, <1>4, <2>2, <3>1
  <2> QED
    BY <2>1, <2>2
<1>8. Below(s[q], hi[t[q + 1]])
  <2>1. CASE q + 1 = Len(t)
    BY <1>2, <1>3, <1>4, <2>1
  <2>2. CASE q + 1 # Len(t)
    <3>1. s[q] < s[q + 1]
      BY <1>1, <1>4, <2>2
    <3>2. hi[t[q + 1]] = s[q + 1]
      BY <1>2, <1>4, <2>2
    <3> QED
      BY <3>1, <3>2 DEF Below
  <2> QED
    BY <2>1, <2>2
<1> QED
  BY <1>3, <1>5, <1>6, <1>7, <1>8

\* The leaf linked to a leaf is the only one whose bounds begin where those of
\* this one end, and no other leaf is linked to it.
LEMMA LinkFacts ==
    ASSUME Shape, ~Splitting, NEW lo \in [DOMAIN heap -> Nat], NEW hi \in [DOMAIN heap -> Nat], Bounded(lo, hi)
    PROVE  /\ \A x, y \in LiveLeaves : lo[x] = lo[y] => x = y
           /\ \A x, y \in LiveLeaves : hi[x] # 0 /\ hi[x] = hi[y] => x = y
           /\ \A x \in LiveLeaves : hi[x] # 0 => lo[x] < hi[x]
<1>1. ASSUME NEW x \in LiveLeaves
      PROVE  lo[x] \in Nat /\ hi[x] \in Nat /\ Below(lo[x], hi[x])
  BY BoundedFacts DEF LiveLeaves
<1>2. NodesBounded(lo, hi)
  BY DEF Bounded
<1>3. ASSUME NEW x \in LiveLeaves, NEW y \in LiveLeaves, lo[x] = lo[y]
      PROVE  x = y
  <2> DEFINE n == lo[x]
  <2>1. n \in Nat /\ Covers(lo, hi, x, n) /\ Covers(lo, hi, y, n)
    BY <1>1, <1>3 DEF Covers
  <2> HIDE DEF n
  <2> QED
    BY <1>2, <2>1, LeafCoveredOnce
<1>4. ASSUME NEW x \in LiveLeaves, hi[x] # 0
      PROVE  lo[x] < hi[x] /\ hi[x] - 1 \in Nat /\ Covers(lo, hi, x, hi[x] - 1)
  <2>1. lo[x] < hi[x] /\ lo[x] \in Nat /\ hi[x] \in Nat
    BY <1>1, <1>4 DEF Below
  <2>2. lo[x] <= hi[x] - 1 /\ hi[x] - 1 \in Nat /\ hi[x] - 1 < hi[x]
    BY <2>1
  <2> QED
    BY <2>1, <2>2 DEF Covers, Below
<1>5. ASSUME NEW x \in LiveLeaves, NEW y \in LiveLeaves, hi[x] # 0, hi[x] = hi[y]
      PROVE  x = y
  <2> DEFINE n == hi[x] - 1
  <2>1. n \in Nat /\ Covers(lo, hi, x, n) /\ Covers(lo, hi, y, n)
    BY <1>4, <1>5
  <2> HIDE DEF n
  <2> QED
    BY <1>2, <2>1, LeafCoveredOnce
<1> QED
  BY <1>3, <1>4, <1>5

\* The nodes left and right of the key at place q of their parent p.
Neighbors(p, q, left, right) ==
    /\ p \in LiveInner /\ q \in 1..Len(heap[p].keys)
    /\ left = heap[p].pointers[q] /\ right = heap[p].pointers[q + 1]

\* The bounds of two neighbours.
LEMMA NeighborBounds ==
    ASSUME Shape, Repairing, NEW lo \in [DOMAIN heap -> Nat], NEW hi \in [DOMAIN heap -> Nat], Bounded(lo, hi),
           NEW p, NEW q, NEW left, NEW right, Neighbors(p, q, left, right)
    PROVE  /\ left \in Live /\ right \in Live /\ left # right /\ left # root /\ right # root
           /\ heap[left].parent = p /\ heap[right].parent = p
           /\ heap[p].keys[q] \in Nat /\ heap[p].keys[q] # 0
           /\ lo[left] < heap[p].keys[q] /\ hi[left] = heap[p].keys[q] /\ lo[right] = heap[p].keys[q]
           /\ Below(heap[p].keys[q], hi[right])
           /\ NodeWithin(left, heap[left], lo, hi, hi) /\ NodeWithin(right, heap[right], lo, hi, hi)
           /\ \A j \in 1..Len(heap[p].pointers) : heap[p].pointers[j] \in Live /\ heap[heap[p].pointers[j]].parent = p
           /\ \A j \in 1..Len(heap[p].pointers) : j # q => heap[p].pointers[j] # left
           /\ \A j \in 1..Len(heap[p].pointers) : j # q + 1 => heap[p].pointers[j] # right
<1> DEFINE s == heap[p].keys
           t == heap[p].pointers
           f == lo[p]
           g == hi[p]
<1>1. /\ Tops(hi) = hi /\ Live \subseteq DOMAIN heap /\ LiveInner = Live \ LeafAddresses
  BY RepairingBounds
<1>2. p \in Live /\ p \notin LeafAddresses /\ p \in DOMAIN heap /\ p \in LiveInner
  BY <1>1 DEF Neighbors
<1>3. /\ Numbers(s) /\ KeysSeparate(s, t, lo, hi, f, g) /\ f \in Nat /\ g \in Nat
  BY <1>1, <1>2, BoundedFacts DEF NodeWithin
<1>4. \A j \in 1..Len(t) : t[j] \in Live /\ heap[t[j]].parent = p /\ t[j] # root
  BY <1>2, ChildFacts
<1>5. Len(s) \in Nat /\ Len(t) = Len(s) + 1 /\ q \in 1..Len(s)
  BY <1>3 DEF Numbers, KeysSeparate, Neighbors
<1>6. q \in 1..Len(t) /\ q + 1 \in 1..Len(t) /\ q + 1 # q
  BY <1>5
<1>7. Distinct(t)
  BY <1>2, <1>6, ChildFacts
<1>8. /\ s[q] \in Nat /\ s[q] # 0
      /\ lo[t[q]] < s[q] /\ hi[t[q]] = s[q] /\ lo[t[q + 1]] = s[q] /\ Below(s[q], hi[t[q + 1]])
  <2> HIDE DEF s, t, f, g
  <2> QED
    BY <1>3, <1>5, SeparatedPair
<1>9. left = t[q] /\ right = t[q + 1]
  BY DEF Neighbors
<1>10. /\ left \in Live /\ right \in Live /\ left # root /\ right # root
       /\ heap[left].parent = p /\ heap[right].parent = p
  BY <1>4, <1>6, <1>9
<1>11. NodeWithin(left, heap[left], lo, hi, hi) /\ NodeWithin(right, heap[right], lo, hi, hi)
  BY <1>1, <1>10, BoundedFacts
<1> HIDE DEF t
<1>12. /\ \A j \in 1..Len(t) : j # q => t[j] # left
       /\ \A j \in 1..Len(t) : j # q + 1 => t[j] # right
  BY <1>6, <1>7, <1>9 DEF Distinct
<1>13. left # right
  BY <1>6, <1>9, <1>12
<1> QED
  BY <1>4, <1>8, <1>9, <1>10, <1>11, <1>12, <1>13 DEF t

\* coalesce_nodes keeps the bounds: the left one of the two has those of both.
LEMMA CoalesceKeepsBounds ==
    ASSUME Shape, NEW a, NEW nb, NEW p, NEW q, NEW to, NEW from, NEW o, Coalesced(a, nb, p, q, to, from, o),
           NEW lo \in [DOMAIN heap -> Nat], NEW hi \in [DOMAIN heap -> Nat], Bounded(lo, hi)
    PROVE  \E f, g \in [DOMAIN heap' -> Nat] : Bounded(f, g)'
<1> DEFINE mid == heap[p].keys[q]
<1>1. Repairing /\ root' = root /\ Pair(a, nb, p, q) /\ ((to = a /\ from = nb) \/ (to = nb /\ from = a))
  BY DEF Coalesced
<1>2. /\ to = heap[p].pointers[q] /\ from = heap[p].pointers[q + 1]
      /\ DOMAIN heap' = DOMAIN heap
      /\ o \in 1..Len(heap[p].keys) /\ heap[p].keys[o] = heap[p].keys[q]
      /\ TakenOut(heap'[p].keys, heap[p].keys, o)
      /\ TakenOut(heap'[p].pointers, heap[p].pointers, q + 1)
      /\ todo' = [call |-> "delete_entry", node |-> p, dead |-> todo.dead \cup {from}]
  BY DEF Coalesced
<1>3. /\ to \in LeafAddresses => Joined(heap'[to].keys, heap[to].keys, heap[from].keys) /\ heap'[to].next = heap[from].next
      /\ to \notin LeafAddresses => Bridged(heap'[to].keys, heap[to].keys, mid, heap[from].keys)
      /\ Joined(heap'[to].pointers, heap[to].pointers, heap[from].pointers)
  BY DEF Coalesced
<1>4. /\ p \in LiveInner /\ q \in 1..Len(heap[p].keys) /\ p # to /\ p # from
      /\ to \in LeafAddresses <=> from \in LeafAddresses
  BY <1>1 DEF Pair
<1>5. \A x \in {to, from} \cap LiveInner : \A j \in 1..Len(heap[x].pointers) : heap[x].pointers[j] \notin {to, from}
  <2> SUFFICES ASSUME NEW x \in {to, from} \cap LiveInner, NEW j \in 1..Len(heap[x].pointers), NEW c, c = heap[x].pointers[j]
               PROVE  c # to /\ c # from
    OBVIOUS
  <2>1. x \in {a, nb} \cap LiveInner
    BY <1>1
  <2>2. \A y \in {a, nb} \cap LiveInner : \A l \in 1..Len(heap[y].pointers) :
           /\ heap[y].pointers[l] \in Live /\ heap[heap[y].pointers[l]].parent = y
           /\ heap[y].pointers[l] \notin {a, nb, p}
    BY <1>1 DEF Pair
  <2>3. c \notin {a, nb, p}
    BY <2>1, <2>2
  <2> QED
    BY <1>1, <2>3
<1>6. ASSUME NEW x \in DOMAIN heap, x # p, x # to
      PROVE  /\ heap'[x].keys = heap[x].keys /\ heap'[x].pointers = heap[x].pointers
             /\ heap'[x].next = heap[x].next
  <2>1. \/ heap'[x] = Node(heap[x].leaf, heap[x].keys, heap[x].pointers, to, heap[x].next)
        \/ heap'[x] = heap[x]
    BY <1>6 DEF Coalesced
  <2> QED
    BY <2>1 DEF Node
<1>7. /\ ~Splitting /\ Tops(hi) = hi /\ root \in Live /\ lo[root] = 0 /\ hi[root] = 0
      /\ LiveLeaves = Live \cap LeafAddresses /\ LiveInner = Live \ LeafAddresses
      /\ Live \subseteq DOMAIN heap
  BY <1>1, RepairingBounds
<1>8. Neighbors(p, q, to, from)
  BY <1>2, <1>4 DEF Neighbors
<1>9. /\ to \in Live /\ from \in Live /\ to # from /\ to # root /\ from # root
      /\ heap[to].parent = p /\ heap[from].parent = p
      /\ mid \in Nat /\ mid # 0 /\ lo[to] < mid /\ hi[to] = mid /\ lo[from] = mid /\ Below(mid, hi[from])
      /\ NodeWithin(to, heap[to], lo, hi, hi) /\ NodeWithin(from, heap[from], lo, hi, hi)
  BY <1>1, <1>8, NeighborBounds
<1>10. /\ \A j \in 1..Len(heap[p].pointers) : heap[p].pointers[j] \in Live
       /\ \A j \in 1..Len(heap[p].pointers) : j # q => heap[p].pointers[j] # to
  BY <1>1, <1>8, NeighborBounds
<1> HIDE DEF mid
<1>11. PICK hi2 \in [DOMAIN heap -> Nat] : hi2[to] = hi[from] /\ \A x \in DOMAIN heap \ {to} : hi2[x] = hi[x]
  <2> DEFINE g == [hi EXCEPT ![to] = hi[from]]
  <2>1. g \in [DOMAIN heap -> Nat] /\ g[to] = hi[from] /\ \A x \in DOMAIN heap \ {to} : g[x] = hi[x]
    BY <1>7, <1>9
  <2> QED
    BY <2>1
<1>12. ~Splitting' /\ Live' = Live \ {from} /\ Tops(hi2)' = hi2
  <2>1. ~Splitting' /\ Dead' = todo.dead \cup {from} /\ Dead = todo.dead
    BY <1>1, <1>2 DEF Splitting, Dead, Repairing
  <2>2. Live' = Live \ {from}
    BY <1>2, <2>1 DEF Live
  <2> QED
    BY <1>11, <2>1, <2>2 DEF Tops
<1>13. NodeWithin(p, heap'[p], lo, hi2, hi2)
  <2> DEFINE s == heap[p].keys
             t == heap[p].pointers
             f == lo[p]
             g == hi[p]
  <2>1. p \in Live /\ p \notin LeafAddresses /\ p \in DOMAIN heap
    BY <1>4, <1>7
  <2>2. f \in Nat /\ g \in Nat /\ Numbers(s) /\ KeysSeparate(s, t, lo, hi, f, g)
    BY <1>7, <2>1, BoundedFacts DEF NodeWithin
  <2>3. o = q
    <3>1. Ascending(s) /\ Numbers(s) /\ o \in 1..Len(s) /\ q \in 1..Len(s) /\ s[o] = s[q]
      BY <1>2, <1>4, <2>2 DEF KeysSeparate, KeysWithin
    <3> HIDE DEF s
    <3>2. s[o] \in Nat /\ s[q] \in Nat /\ Len(s) \in Nat /\ (o < q => s[o] < s[q]) /\ (q < o => s[q] < s[o])
      BY <3>1 DEF Ascending, Numbers
    <3> QED
      BY <3>1, <3>2
  <2>4. /\ TakenOut(heap'[p].keys, s, q) /\ TakenOut(heap'[p].pointers, t, q + 1) /\ q \in 1..Len(s)
        /\ t[q] = to /\ t[q + 1] = from
    BY <1>2, <1>4, <2>3
  <2>5. \A j \in 1..Len(t) : t[j] \in DOMAIN heap /\ (j # q => t[j] # to)
    BY <1>7, <1>10
  <2> HIDE DEF s, t, f, g
  <2>6. MergedBounds(t, lo, hi, lo, hi2, q)
    BY <1>11, <2>4, <2>5 DEF MergedBounds
  <2>7. KeysSeparate(heap'[p].keys, heap'[p].pointers, lo, hi2, f, g)
    BY <2>2, <2>4, <2>6, SeparateTakenOut
  <2>8. hi2[p] = g
    BY <1>4, <1>11, <2>1 DEF g
  <2> QED
    BY <2>1, <2>7, <2>8 DEF NodeWithin, f
<1>14. NodeWithin(to, heap'[to], lo, hi2, hi2)
  <2> DEFINE s == heap[to].keys
             t == heap[to].pointers
             u == heap[from].keys
             v == heap[from].pointers
             f == lo[to]
             g == hi[from]
  <2>1. f \in Nat /\ g \in Nat /\ Numbers(s) /\ Numbers(u) /\ f < mid /\ mid \in Nat
    BY <1>9, BoundedFacts
  <2>2. CASE to \in LeafAddresses
    <3>1. KeysWithin(s, f, mid) /\ KeysWithin(u, mid, g)
      BY <1>4, <1>9, <2>2 DEF NodeWithin
    <3>2. Joined(heap'[to].keys, s, u)
      BY <1>3, <2>2
    <3> HIDE DEF s, u, f, g
    <3>3. KeysWithin(heap'[to].keys, f, g)
      BY <2>1, <3>1, <3>2, WithinJoined
    <3> QED
      BY <1>11, <2>2, <3>3 DEF NodeWithin, f, g
  <2>3. CASE to \notin LeafAddresses
    <3>1. KeysSeparate(s, t, lo, hi, f, mid) /\ KeysSeparate(u, v, lo, hi, mid, g)
      BY <1>4, <1>9, <2>3 DEF NodeWithin
    <3>2. Bridged(heap'[to].keys, s, mid, u) /\ Joined(heap'[to].pointers, t, v)
      BY <1>3, <2>3
    <3>3. to \in LiveInner /\ from \in LiveInner
      BY <1>4, <1>7, <1>9, <2>3
    <3>4. \A j \in 1..Len(t) : t[j] \in DOMAIN heap \ {to}
      BY <1>5, <3>3, ChildFacts
    <3>5. \A j \in 1..Len(v) : v[j] \in DOMAIN heap \ {to}
      BY <1>5, <3>3, ChildFacts
    <3>6. Len(t) \in Nat /\ Len(v) \in Nat
      BY <2>1, <3>1 DEF Numbers, KeysSeparate
    <3> HIDE DEF s, t, u, v, f, g
    <3>7. KeysSeparate(heap'[to].keys, heap'[to].pointers, lo, hi, f, g)
      BY <2>1, <3>1, <3>2, SeparateBridged
    <3> DEFINE w == heap'[to].pointers
    <3>8. \A j \in 1..Len(w) : (\E l \in 1..Len(t) : w[j] = t[l]) \/ (\E l \in 1..Len(v) : w[j] = v[l])
      BY <3>2, <3>6, JoinedElements
    <3>9. \A j \in 1..Len(w) : w[j] \in DOMAIN heap \ {to}
      BY <3>4, <3>5, <3>8
    <3>10. \A j \in 1..Len(w) : lo[w[j]] = lo[w[j]] /\ hi2[w[j]] = hi[w[j]]
      BY <1>11, <3>9
    <3> HIDE DEF w
    <3>11. KeysSeparate(heap'[to].keys, w, lo, hi2, f, g)
      BY <3>7, <3>10, SeparateSame DEF w
    <3> QED
      BY <1>11, <2>3, <3>11 DEF NodeWithin, f, g, w
  <2> QED
    BY <2>2, <2>3
<1>15. ASSUME NEW x \in Live, x # p, x # to, x # from
       PROVE  NodeWithin(x, heap'[x], lo, hi2, hi2)
  <2>1. NodeWithin(x, heap[x], lo, hi, hi) /\ x \in DOMAIN heap
    BY <1>7, BoundedFacts
  <2>2. heap'[x].keys = heap[x].keys /\ heap'[x].pointers = heap[x].pointers /\ hi2[x] = hi[x]
    BY <1>6, <1>11, <1>15, <2>1
  <2>3. x \notin LeafAddresses => \A j \in 1..Len(heap[x].pointers) :
           lo[heap[x].pointers[j]] = lo[heap[x].pointers[j]] /\ hi2[heap[x].pointers[j]] = hi[heap[x].pointers[j]]
    <3> SUFFICES ASSUME x \notin LeafAddresses, NEW j \in 1..Len(heap[x].pointers), NEW c, c = heap[x].pointers[j]
                 PROVE  hi2[c] = hi[c]
      OBVIOUS
    <3>1. x \in LiveInner
      BY <1>7
    <3>2. c \in DOMAIN heap /\ heap[c].parent = x
      BY <3>1, ChildFacts
    <3>3. c # to
      BY <1>9, <1>15, <3>2
    <3> QED
      BY <1>11, <3>2, <3>3
  <2>4. Inherits(x, heap[x], heap'[x], lo, hi, hi, lo, hi2, hi2)
    BY <2>1, <2>2, <2>3 DEF Inherits
  <2> QED
    BY <2>4, InheritedBounds
<1>16. ASSUME NEW x \in Live, x # from, x \in LeafAddresses
       PROVE  NextLinked(heap'[x], hi2[x], lo, (Live \ {from}) \cap LeafAddresses)
  <2> DEFINE leaves == (Live \ {from}) \cap LeafAddresses
  <2>1. /\ \A y, z \in LiveLeaves : hi[y] # 0 /\ hi[y] = hi[z] => y = z
        /\ \A y \in LiveLeaves : hi[y] # 0 => lo[y] < hi[y]
    BY <1>7, LinkFacts
  <2>2. x \in LiveLeaves /\ NextLinked(heap[x], hi[x], lo, LiveLeaves) /\ x # p /\ x \in DOMAIN heap
    BY <1>4, <1>7, <1>16, BoundedFacts
  <2>3. CASE x = to
    <3>1. from \in LiveLeaves /\ NextLinked(heap[from], hi[from], lo, LiveLeaves) /\ hi[from] \in Nat
      BY <1>4, <1>7, <1>9, <1>16, <2>3, BoundedFacts
    <3>2. heap'[x].next = heap[from].next /\ hi2[x] = hi[from]
      BY <1>3, <1>11, <1>16, <2>3
    <3>3. hi[from] # 0 => lo[from] < hi[from] /\ lo[from] \in Nat
      BY <1>9, <2>1, <3>1
    <3>4. hi[from] # 0 => heap[from].next \in LiveLeaves /\ lo[heap[from].next] = hi[from]
      BY <3>1 DEF NextLinked
    <3>5. hi[from] # 0 => heap[from].next # from
      BY <3>1, <3>3, <3>4
    <3> QED
      BY <1>7, <3>1, <3>2, <3>4, <3>5 DEF NextLinked
  <2>4. CASE x # to
    <3>1. heap'[x].next = heap[x].next /\ hi2[x] = hi[x]
      BY <1>6, <1>11, <2>2, <2>4
    <3>2. hi[x] # 0 => heap[x].next \in LiveLeaves /\ lo[heap[x].next] = hi[x]
      BY <2>2 DEF NextLinked
    <3>3. hi[x] # 0 => heap[x].next # from
      <4> SUFFICES ASSUME hi[x] # 0, heap[x].next = from PROVE FALSE
        OBVIOUS
      <4>1. from \in LiveLeaves /\ hi[x] = mid
        BY <1>9, <3>2
      <4>2. to \in LiveLeaves
        BY <1>4, <1>7, <1>9, <4>1
      <4> QED
        BY <1>9, <2>1, <2>2, <2>4, <4>1, <4>2
    <3> QED
      BY <1>7, <2>2, <3>1, <3>2, <3>3 DEF NextLinked
  <2> QED
    BY <2>3, <2>4
<1>17. EndsBounded(lo, hi2)'
  BY <1>1, <1>7, <1>9, <1>11, <1>12 DEF EndsBounded
<1>18. \A x \in Live \ {from} : NodeWithin(x, heap'[x], lo, hi2, hi2)
  BY <1>13, <1>14, <1>15
<1> QED
  BY <1>2, <1>12, <1>11, <1>16, <1>17, <1>18, BoundsMade

\* The bounds of the nodes that are left, with those of two of them to meet at k.
Meeting(D, C, lo, hi, left, right, k) ==
    Narrowing(D, C, lo, hi) /\ left \in C /\ right \in C /\ k \in Nat

\* There are such bounds.
LEMMA BoundMoved ==
    ASSUME NEW D, NEW C, NEW lo, NEW hi, NEW left, NEW right, NEW k, Meeting(D, C, lo, hi, left, right, k)
    PROVE  \E lo2, hi2 \in [C -> Nat] :
              /\ hi2[left] = k /\ lo2[right] = k
              /\ \A x \in C : x # right => lo2[x] = lo[x]
              /\ \A x \in C : x # left => hi2[x] = hi[x]
<1> DEFINE f == [x \in C |-> IF x = right THEN k ELSE lo[x]]
           g == [x \in C |-> IF x = left THEN k ELSE hi[x]]
<1>1. left \in C /\ right \in C /\ k \in Nat /\ \A x \in C : lo[x] \in Nat /\ hi[x] \in Nat
  BY DEF Meeting, Narrowing
<1>2. f \in [C -> Nat] /\ f[right] = k /\ \A x \in C : x # right => f[x] = lo[x]
  BY <1>1
<1>3. g \in [C -> Nat] /\ g[left] = k /\ \A x \in C : x # left => g[x] = hi[x]
  BY <1>1
<1> HIDE DEF f, g
<1> QED
  BY <1>2, <1>3

\* After an entry has gone from one of two neighbours to the other the key k is
\* between them; their children are the ones they had.
Rebounded(left, right, k, lo, hi) ==
    /\ k \in Nat /\ lo[left] < k /\ Below(k, hi[right])
    /\ left \in LeafAddresses =>
         KeysWithin(heap'[left].keys, lo[left], k) /\ KeysWithin(heap'[right].keys, k, hi[right])
    /\ left \notin LeafAddresses =>
         /\ KeysSeparate(heap'[left].keys, heap'[left].pointers, lo, hi, lo[left], k)
         /\ KeysSeparate(heap'[right].keys, heap'[right].pointers, lo, hi, k, hi[right])
         /\ \A x \in {left, right} : \A j \in 1..Len(heap'[x].pointers) :
               heap'[x].pointers[j] \in Live \ {left, right}

\* The children that two nodes have once one child has gone from nb to a.
LEMMA ChildGone ==
    ASSUME NEW s, NEW t, NEW s2, NEW t2, NEW v, NEW z, NEW C,
           Len(s) \in Nat, Len(t) \in Nat, v \in 1..(Len(s) + 1), z \in 1..Len(t),
           PutIn(s2, s, v, t[z]), TakenOut(t2, t, z),
           \A j \in 1..Len(s) : s[j] \in C, \A j \in 1..Len(t) : t[j] \in C
    PROVE  (\A j \in 1..Len(s2) : s2[j] \in C) /\ (\A j \in 1..Len(t2) : t2[j] \in C)
<1>1. ASSUME NEW j \in 1..Len(s2)
      PROVE  s2[j] \in C
  BY PutInElements
<1>2. ASSUME NEW j \in 1..Len(t2)
      PROVE  t2[j] \in C
  <2>1. t2[j] = t[IF j < z THEN j ELSE j + 1] /\ Len(t2) = Len(t) - 1
    BY TakenOutElements DEF TakenOut
  <2>2. (IF j < z THEN j ELSE j + 1) \in 1..Len(t)
    BY <2>1
  <2> QED
    BY <2>1, <2>2
<1> QED
  BY <1>1, <1>2

\* The children of the two nodes redistribute_nodes deals with.
LEMMA RedistributedChildren ==
    ASSUME Shape, NEW a, NEW nb, NEW p, NEW q, NEW u, NEW v, NEW w, NEW z, NEW e, NEW c, NEW k,
           Redistributed(a, nb, p, q, u, v, w, z, e, c, k), a \notin LeafAddresses
    PROVE  \A x \in {a, nb} : \A j \in 1..Len(heap'[x].pointers) :
              heap'[x].pointers[j] \in Live \ {a, nb}
<1> DEFINE s == heap[a].pointers
           t == heap[nb].pointers
           C == Live \ {a, nb}
<1>1. Repairing /\ Pair(a, nb, p, q)
  BY DEF Redistributed
<1>2. a \in LiveInner /\ nb \in LiveInner
  BY <1>1 DEF Pair, LiveInner
<1>3. \A y \in {a, nb} \cap LiveInner : \A l \in 1..Len(heap[y].pointers) :
         /\ heap[y].pointers[l] \in Live /\ heap[heap[y].pointers[l]].parent = y
         /\ heap[y].pointers[l] \notin {a, nb, p}
  BY <1>1 DEF Pair
<1>4. (\A j \in 1..Len(s) : s[j] \in C) /\ (\A j \in 1..Len(t) : t[j] \in C)
  BY <1>2, <1>3
<1>5. TypeOK /\ a \in DOMAIN heap /\ nb \in DOMAIN heap
  BY <1>2 DEF Shape, LiveInner, Live
<1>6. Len(s) \in Nat /\ Len(t) \in Nat
  BY <1>5, NodeFacts
<1>7. /\ v \in 1..(Len(s) + 1) /\ z \in 1..Len(t)
      /\ PutIn(heap'[a].pointers, s, v, t[z]) /\ TakenOut(heap'[nb].pointers, t, z)
  BY DEF Redistributed
<1> HIDE DEF s, t, C
<1>8. /\ \A j \in 1..Len(heap'[a].pointers) : heap'[a].pointers[j] \in C
      /\ \A j \in 1..Len(heap'[nb].pointers) : heap'[nb].pointers[j] \in C
  BY <1>4, <1>6, <1>7, ChildGone
<1> QED
  BY <1>8 DEF C

\* redistribute_nodes with the neighbour on the left.
LEMMA LastMovedRebounds ==
    ASSUME Shape, NEW a, NEW nb, NEW p, NEW q, NEW u, NEW v, NEW w, NEW z, NEW e, NEW c, NEW k,
           Redistributed(a, nb, p, q, u, v, w, z, e, c, k), FromTheLeft(a, nb, p, q, u, v, w, z, e, k),
           NEW lo \in [DOMAIN heap -> Nat], NEW hi \in [DOMAIN heap -> Nat], Bounded(lo, hi)
    PROVE  Neighbors(p, q, nb, a) /\ Rebounded(nb, a, k, lo, hi)
<1> DEFINE mid == heap[p].keys[q]
           n == Len(heap[nb].keys)
<1>1. Repairing /\ Pair(a, nb, p, q)
  BY DEF Redistributed
<1>2. p \in LiveInner /\ q \in 1..Len(heap[p].keys) /\ (a \in LeafAddresses <=> nb \in LeafAddresses)
  BY <1>1 DEF Pair
<1>3. /\ heap[p].pointers[q] = nb /\ heap[p].pointers[q + 1] = a
      /\ u = 1 /\ v = 1 /\ w = n /\ z = Len(heap[nb].pointers) /\ k = heap[nb].keys[n]
      /\ a \in LeafAddresses => e = heap[nb].keys[n]
      /\ a \notin LeafAddresses => e = mid
  BY DEF FromTheLeft
<1>4. /\ PutIn(heap'[a].keys, heap[a].keys, 1, e)
      /\ PutIn(heap'[a].pointers, heap[a].pointers, 1, heap[nb].pointers[Len(heap[nb].pointers)])
      /\ TakenOut(heap'[nb].keys, heap[nb].keys, n)
      /\ TakenOut(heap'[nb].pointers, heap[nb].pointers, Len(heap[nb].pointers))
      /\ n >= MinKeys(heap[nb]) + 1
  BY <1>3 DEF Redistributed
<1>5. Neighbors(p, q, nb, a)
  BY <1>2, <1>3 DEF Neighbors
<1>6. /\ nb \in Live /\ a \in Live
      /\ mid \in Nat /\ lo[nb] < mid /\ hi[nb] = mid /\ lo[a] = mid
      /\ NodeWithin(nb, heap[nb], lo, hi, hi) /\ NodeWithin(a, heap[a], lo, hi, hi)
  BY <1>1, <1>5, NeighborBounds
<1>7. /\ lo[nb] \in Nat /\ hi[a] \in Nat /\ Numbers(heap[nb].keys) /\ Numbers(heap[a].keys)
  BY <1>6, BoundedFacts
<1>8. n \in Nat /\ n >= 2
  <2>1. MinKeys(heap[nb]) \in Nat /\ MinKeys(heap[nb]) >= 1
    BY MinKeysFacts
  <2>2. n \in Nat
    BY <1>7 DEF Numbers
  <2> HIDE DEF n
  <2> QED
    BY <1>4, <2>1, <2>2
<1> HIDE DEF mid
<1>9. CASE a \in LeafAddresses
  <2>1. KeysWithin(heap[nb].keys, lo[nb], mid) /\ KeysWithin(heap[a].keys, mid, hi[a])
    BY <1>2, <1>6, <1>9 DEF NodeWithin
  <2>2. PutIn(heap'[a].keys, heap[a].keys, 1, heap[nb].keys[n])
    BY <1>3, <1>4, <1>9
  <2> DEFINE s == heap[nb].keys
             r == heap[a].keys
             f == lo[nb]
             g == hi[a]
  <2>3. n = Len(s)
    OBVIOUS
  <2>4. /\ Numbers(s) /\ Numbers(r) /\ KeysWithin(s, f, mid) /\ KeysWithin(r, mid, g) /\ f < mid
        /\ f \in Nat /\ g \in Nat /\ mid \in Nat /\ n >= 2
        /\ TakenOut(heap'[nb].keys, s, n) /\ PutIn(heap'[a].keys, r, 1, s[n]) /\ k = s[n]
    BY <1>3, <1>4, <1>6, <1>7, <1>8, <2>1, <2>2
  <2> HIDE DEF s, r, f, g, n
  <2>5. KeysWithin(heap'[nb].keys, f, k) /\ KeysWithin(heap'[a].keys, k, g) /\ k \in Nat /\ f < k /\ Below(k, g)
    BY ZenonT(30), <2>3, <2>4, WithinLastMoved
  <2> QED
    BY <1>2, <1>5, <1>9, <2>5 DEF Rebounded, f, g
<1>10. CASE a \notin LeafAddresses
  <2>1. /\ KeysSeparate(heap[nb].keys, heap[nb].pointers, lo, hi, lo[nb], mid)
        /\ KeysSeparate(heap[a].keys, heap[a].pointers, lo, hi, mid, hi[a])
    BY <1>2, <1>6, <1>10 DEF NodeWithin
  <2>2. Len(heap[nb].pointers) = n + 1
    BY <2>1 DEF KeysSeparate
  <2>3. PutIn(heap'[a].keys, heap[a].keys, 1, mid)
    BY <1>3, <1>4, <1>10
  <2>4. \A x \in {a, nb} : \A j \in 1..Len(heap'[x].pointers) : heap'[x].pointers[j] \in Live \ {a, nb}
    BY <1>10, RedistributedChildren
  <2> DEFINE s == heap[nb].keys
             t == heap[nb].pointers
             r == heap[a].keys
             y == heap[a].pointers
             f == lo[nb]
             g == hi[a]
  <2>5. n = Len(s) /\ n >= 1
    BY <1>8
  <2>6. /\ Numbers(s) /\ Numbers(r) /\ KeysSeparate(s, t, lo, hi, f, mid) /\ KeysSeparate(r, y, lo, hi, mid, g)
        /\ f \in Nat /\ g \in Nat /\ mid \in Nat /\ f < mid
    BY <1>6, <1>7, <2>1
  <2>7. /\ TakenOut(heap'[nb].keys, s, n) /\ TakenOut(heap'[nb].pointers, t, n + 1)
        /\ PutIn(heap'[a].keys, r, 1, mid) /\ PutIn(heap'[a].pointers, y, 1, t[n + 1]) /\ k = s[n]
    BY <1>3, <1>4, <2>2, <2>3
  <2> DEFINE s2 == heap'[nb].keys
             t2 == heap'[nb].pointers
             r2 == heap'[a].keys
             y2 == heap'[a].pointers
  <2> HIDE DEF s, t, r, y, s2, t2, r2, y2, f, g, n
  <2>8. /\ KeysSeparate(s2, t2, lo, hi, f, s[n]) /\ KeysSeparate(r2, y2, lo, hi, s[n], g)
        /\ s[n] \in Nat /\ f < s[n] /\ Below(s[n], g)
    <3>1. TakenOut(s2, s, n) /\ TakenOut(t2, t, n + 1) /\ PutIn(r2, r, 1, mid) /\ PutIn(y2, y, 1, t[n + 1])
      BY <2>7 DEF s2, t2, r2, y2
    <3> QED
      <4>1. LastChildMoves(s, t, r, y, s2, t2, r2, y2, lo, hi, f, mid, g, n)
        BY <2>5, <2>6, <3>1 DEF LastChildMoves
      <4> QED
        BY <4>1, SeparateLastMoved
  <2>9. /\ KeysSeparate(heap'[nb].keys, heap'[nb].pointers, lo, hi, f, k)
        /\ KeysSeparate(heap'[a].keys, heap'[a].pointers, lo, hi, k, g)
        /\ k \in Nat /\ f < k /\ Below(k, g)
    BY <2>7, <2>8 DEF s2, t2, r2, y2
  <2> QED
    BY <1>2, <1>5, <1>10, <2>4, <2>9 DEF Rebounded, f, g
<1> QED
  BY <1>9, <1>10

\* redistribute_nodes with the neighbour on the right.
LEMMA FirstMovedRebounds ==
    ASSUME Shape, NEW a, NEW nb, NEW p, NEW q, NEW u, NEW v, NEW w, NEW z, NEW e, NEW c, NEW k,
           Redistributed(a, nb, p, q, u, v, w, z, e, c, k), FromTheRight(a, nb, p, q, u, v, w, z, e, k),
           NEW lo \in [DOMAIN heap -> Nat], NEW hi \in [DOMAIN heap -> Nat], Bounded(lo, hi)
    PROVE  Neighbors(p, q, a, nb) /\ Rebounded(a, nb, k, lo, hi)
<1> DEFINE mid == heap[p].keys[q]
           n == Len(heap[a].keys)
<1>1. Repairing /\ Pair(a, nb, p, q)
  BY DEF Redistributed
<1>2. p \in LiveInner /\ q \in 1..Len(heap[p].keys) /\ (a \in LeafAddresses <=> nb \in LeafAddresses)
  BY <1>1 DEF Pair
<1>3. /\ heap[p].pointers[q] = a /\ heap[p].pointers[q + 1] = nb
      /\ u = n + 1 /\ v = Len(heap[a].pointers) + 1 /\ w = 1 /\ z = 1
      /\ a \in LeafAddresses => e = heap[nb].keys[1] /\ k = heap[nb].keys[2]
      /\ a \notin LeafAddresses => e = mid /\ k = heap[nb].keys[1]
  BY DEF FromTheRight
<1>4. /\ PutIn(heap'[a].keys, heap[a].keys, n + 1, e)
      /\ PutIn(heap'[a].pointers, heap[a].pointers, Len(heap[a].pointers) + 1, heap[nb].pointers[1])
      /\ TakenOut(heap'[nb].keys, heap[nb].keys, 1)
      /\ TakenOut(heap'[nb].pointers, heap[nb].pointers, 1)
      /\ Len(heap[nb].keys) >= MinKeys(heap[nb]) + 1
  BY <1>3 DEF Redistributed
<1>5. Neighbors(p, q, a, nb)
  BY <1>2, <1>3 DEF Neighbors
<1>6. /\ nb \in Live /\ a \in Live
      /\ mid \in Nat /\ lo[a] < mid /\ hi[a] = mid /\ lo[nb] = mid
      /\ NodeWithin(nb, heap[nb], lo, hi, hi) /\ NodeWithin(a, heap[a], lo, hi, hi)
  BY <1>1, <1>5, NeighborBounds
<1>7. /\ lo[a] \in Nat /\ hi[nb] \in Nat /\ Numbers(heap[nb].keys) /\ Numbers(heap[a].keys)
  BY <1>6, BoundedFacts
<1>8. Len(heap[nb].keys) \in Nat /\ Len(heap[nb].keys) >= 2 /\ n \in Nat
  <2>1. MinKeys(heap[nb]) \in Nat /\ MinKeys(heap[nb]) >= 1
    BY MinKeysFacts
  <2>2. Len(heap[nb].keys) \in Nat /\ n \in Nat
    BY <1>7 DEF Numbers
  <2> HIDE DEF n
  <2> QED
    BY <1>4, <2>1, <2>2
<1> HIDE DEF mid
<1>9. CASE a \in LeafAddresses
  <2>1. KeysWithin(heap[a].keys, lo[a], mid) /\ KeysWithin(heap[nb].keys, mid, hi[nb])
    BY <1>2, <1>6, <1>9 DEF NodeWithin
  <2> DEFINE s == heap[a].keys
             r == heap[nb].keys
             f == lo[a]
             g == hi[nb]
             m == n + 1
  <2>2. m = Len(s) + 1
    OBVIOUS
  <2>3. /\ Numbers(s) /\ Numbers(r) /\ KeysWithin(s, f, mid) /\ KeysWithin(r, mid, g) /\ f < mid
        /\ f \in Nat /\ g \in Nat /\ mid \in Nat /\ Len(r) >= 2
    BY <1>6, <1>7, <1>8, <2>1
  <2>4. TakenOut(heap'[nb].keys, r, 1) /\ PutIn(heap'[a].keys, s, m, r[1]) /\ k = r[2]
    BY <1>3, <1>4, <1>9
  <2> DEFINE s2 == heap'[a].keys
             r2 == heap'[nb].keys
  <2> HIDE DEF s, r, s2, r2, f, g, n, m
  <2>5. KeysWithin(heap'[a].keys, f, k) /\ KeysWithin(heap'[nb].keys, k, g) /\ k \in Nat /\ f < k /\ Below(k, g)
    <3>1. TakenOut(r2, r, 1) /\ PutIn(s2, s, m, r[1])
      BY <2>4 DEF s2, r2
    <3>2. KeysWithin(s2, f, r[2]) /\ KeysWithin(r2, r[2], g) /\ r[2] \in Nat /\ f < r[2] /\ Below(r[2], g)
      <4>1. FirstKeyMoves(s, s2, r, r2, m, f, mid, g)
        BY <2>2, <2>3, <3>1 DEF FirstKeyMoves
      <4> QED
        BY <4>1, WithinFirstMoved
    <3> QED
      BY <2>4, <3>2 DEF s2, r2
  <2> QED
    BY <1>2, <1>5, <1>9, <2>5 DEF Rebounded, f, g
<1>10. CASE a \notin LeafAddresses
  <2>1. /\ KeysSeparate(heap[a].keys, heap[a].pointers, lo, hi, lo[a], mid)
        /\ KeysSeparate(heap[nb].keys, heap[nb].pointers, lo, hi, mid, hi[nb])
    BY <1>2, <1>6, <1>10 DEF NodeWithin
  <2>2. Len(heap[a].pointers) + 1 = n + 2
    <3>1. Len(heap[a].pointers) = n + 1
      BY <2>1 DEF KeysSeparate
    <3> HIDE DEF n
    <3> QED
      BY <1>8, <3>1
  <2>3. PutIn(heap'[a].keys, heap[a].keys, n + 1, mid) /\ k = heap[nb].keys[1]
    BY <1>3, <1>4, <1>10
  <2>4. \A x \in {a, nb} : \A j \in 1..Len(heap'[x].pointers) : heap'[x].pointers[j] \in Live \ {a, nb}
    BY <1>10, RedistributedChildren
  <2> DEFINE s == heap[a].keys
             t == heap[a].pointers
             r == heap[nb].keys
             y == heap[nb].pointers
             f == lo[a]
             g == hi[nb]
  <2>5. n = Len(s) /\ Len(r) >= 1
    BY <1>8
  <2>6. /\ Numbers(s) /\ Numbers(r) /\ KeysSeparate(s, t, lo, hi, f, mid) /\ KeysSeparate(r, y, lo, hi, mid, g)
        /\ f \in Nat /\ g \in Nat /\ mid \in Nat /\ f < mid
    BY <1>6, <1>7, <2>1
  <2>7. /\ PutIn(heap'[a].keys, s, n + 1, mid) /\ PutIn(heap'[a].pointers, t, n + 2, y[1])
        /\ TakenOut(heap'[nb].keys, r, 1) /\ TakenOut(heap'[nb].pointers, y, 1) /\ k = r[1]
    BY <1>4, <2>2, <2>3
  <2> DEFINE s2 == heap'[a].keys
             t2 == heap'[a].pointers
             r2 == heap'[nb].keys
             y2 == heap'[nb].pointers
  <2> HIDE DEF s, t, r, y, s2, t2, r2, y2, f, g, n
  <2>8. /\ KeysSeparate(s2, t2, lo, hi, f, r[1]) /\ KeysSeparate(r2, y2, lo, hi, r[1], g)
        /\ r[1] \in Nat /\ f < r[1] /\ Below(r[1], g)
    <3>1. PutIn(s2, s, n + 1, mid) /\ PutIn(t2, t, n + 2, y[1]) /\ TakenOut(r2, r, 1) /\ TakenOut(y2, y, 1)
      BY <2>7 DEF s2, t2, r2, y2
    <3> QED
      <4>1. FirstChildMoves(s, t, r, y, s2, t2, r2, y2, lo, hi, f, mid, g, n)
        BY <2>5, <2>6, <3>1 DEF FirstChildMoves
      <4> QED
        BY <4>1, SeparateFirstMoved
  <2>9. /\ KeysSeparate(heap'[a].keys, heap'[a].pointers, lo, hi, f, k)
        /\ KeysSeparate(heap'[nb].keys, heap'[nb].pointers, lo, hi, k, g)
        /\ k \in Nat /\ f < k /\ Below(k, g)
    BY <2>7, <2>8 DEF s2, t2, r2, y2
  <2> QED
    BY <1>2, <1>5, <1>10, <2>4, <2>9 DEF Rebounded, f, g
<1> QED
  BY <1>9, <1>10

\* redistribute_nodes keeps the bounds: those of the two meet at the new key.
LEMMA ReboundedKeepsBounds ==
    ASSUME Shape, NEW a, NEW nb, NEW p, NEW q, NEW u, NEW v, NEW w, NEW z, NEW e, NEW c, NEW k,
           Redistributed(a, nb, p, q, u, v, w, z, e, c, k),
           NEW left, NEW right, (left = a /\ right = nb) \/ (left = nb /\ right = a),
           Neighbors(p, q, left, right),
           NEW lo \in [DOMAIN heap -> Nat], NEW hi \in [DOMAIN heap -> Nat], Bounded(lo, hi),
           Rebounded(left, right, k, lo, hi)
    PROVE  \E f, g \in [DOMAIN heap' -> Nat] : Bounded(f, g)'
<1>1. Repairing /\ root' = root /\ Pair(a, nb, p, q) /\ todo' = NoCall /\ DOMAIN heap' = Live
  BY DEF Redistributed
<1>2. /\ heap'[p].pointers = heap[p].pointers /\ Len(heap'[p].keys) = Len(heap[p].keys)
      /\ \A j \in 1..Len(heap[p].keys) : heap'[p].keys[j] = IF j = q THEN k ELSE heap[p].keys[j]
  BY DEF Redistributed
<1>3. ASSUME NEW x \in Live, x # p, x # left, x # right
      PROVE  /\ heap'[x].keys = heap[x].keys /\ heap'[x].pointers = heap[x].pointers
  <2>1. \/ heap'[x] = Node(heap[x].leaf, heap[x].keys, heap[x].pointers, a, heap[x].next)
        \/ heap'[x] = heap[x]
    BY <1>3 DEF Redistributed
  <2> QED
    BY <2>1 DEF Node
<1>4. ASSUME NEW x \in Live
      PROVE  heap'[x].next = heap[x].next
  <2>1. \/ heap'[x] = Node(heap[x].leaf, heap[x].keys, heap[x].pointers, a, heap[x].next)
        \/ heap'[x] = heap[x]
        \/ heap'[x].next = heap[x].next
    BY DEF Redistributed
  <2> QED
    BY <2>1 DEF Node
<1>5. /\ p \in LiveInner /\ q \in 1..Len(heap[p].keys) /\ p # left /\ p # right
      /\ left \in LeafAddresses <=> right \in LeafAddresses
  BY ZenonT(30), <1>1 DEF Pair
<1>6. /\ ~Splitting /\ Tops(hi) = hi /\ root \in Live /\ lo[root] = 0 /\ hi[root] = 0
      /\ LiveLeaves = Live \cap LeafAddresses /\ LiveInner = Live \ LeafAddresses
      /\ Live \subseteq DOMAIN heap
  BY <1>1, RepairingBounds
<1>7. /\ left \in Live /\ right \in Live /\ left # right /\ left # root /\ right # root
      /\ heap[left].parent = p /\ heap[right].parent = p
      /\ hi[left] = lo[right] /\ hi[left] # 0
  BY <1>1, NeighborBounds
<1>8. /\ \A j \in 1..Len(heap[p].pointers) : heap[p].pointers[j] \in Live
      /\ \A j \in 1..Len(heap[p].pointers) : j # q => heap[p].pointers[j] # left
      /\ \A j \in 1..Len(heap[p].pointers) : j # q + 1 => heap[p].pointers[j] # right
  BY <1>1, NeighborBounds
<1>9. heap[p].pointers[q] = left /\ heap[p].pointers[q + 1] = right
  BY DEF Neighbors
<1>10. k \in Nat /\ lo[left] < k /\ Below(k, hi[right])
  BY DEF Rebounded
<1>11. PICK lo2, hi2 \in [Live -> Nat] :
          /\ hi2[left] = k /\ lo2[right] = k
          /\ \A x \in Live : x # right => lo2[x] = lo[x]
          /\ \A x \in Live : x # left => hi2[x] = hi[x]
  <2>1. Meeting(DOMAIN heap, Live, lo, hi, left, right, k)
    BY <1>6, <1>7, <1>10 DEF Narrowing, Meeting
  <2> QED
    BY <2>1, BoundMoved
<1>12. lo2 \in [Live -> Nat] /\ lo2[right] = k /\ \A x \in Live : x # right => lo2[x] = lo[x]
  BY <1>11
<1>13. hi2 \in [Live -> Nat] /\ hi2[left] = k /\ \A x \in Live : x # left => hi2[x] = hi[x]
  BY <1>11
<1>14. ~Splitting' /\ Live' = Live /\ Tops(hi2)' = hi2
  <2>1. ~Splitting' /\ Dead' = {}
    BY <1>1 DEF Splitting, Dead, NoCall, Repairing
  <2>2. Live' = Live
    BY <1>1, <2>1 DEF Live
  <2> QED
    BY <1>13, <2>1, <2>2 DEF Tops
<1>15. NodeWithin(p, heap'[p], lo2, hi2, hi2)
  <2> DEFINE s == heap[p].keys
             t == heap[p].pointers
             f == lo[p]
             g == hi[p]
  <2>1. p \in Live /\ p \notin LeafAddresses /\ p \in DOMAIN heap
    BY <1>5, <1>6
  <2>2. f \in Nat /\ g \in Nat /\ Numbers(s) /\ KeysSeparate(s, t, lo, hi, f, g)
    BY <1>6, <2>1, BoundedFacts DEF NodeWithin
  <2>3. q \in 1..Len(s) /\ t[q] = left /\ t[q + 1] = right /\ heap'[p].pointers = t
    BY <1>2, <1>5, <1>9
  <2>4. Len(heap'[p].keys) = Len(s) /\ \A j \in 1..Len(s) : heap'[p].keys[j] = IF j = q THEN k ELSE s[j]
    BY <1>2
  <2>5. \A j \in 1..Len(t) : t[j] \in Live /\ (j # q => t[j] # left) /\ (j # q + 1 => t[j] # right)
    BY <1>8
  <2>6. lo2[p] = f /\ hi2[p] = g
    BY <1>5, <1>12, <1>13, <2>1
  <2> HIDE DEF s, t, f, g
  <2>7. MovedBound(t, lo, hi, lo2, hi2, q, k)
    <3>1. lo[t[q]] < k /\ Below(k, hi[t[q + 1]])
      BY <1>10, <2>3
    <3>2. lo2[t[q]] = lo[t[q]] /\ hi2[t[q]] = k /\ lo2[t[q + 1]] = k /\ hi2[t[q + 1]] = hi[t[q + 1]]
      BY <1>7, <1>12, <1>13, <2>3
    <3>3. ASSUME NEW j \in 1..Len(t), j # q, j # q + 1
          PROVE  lo2[t[j]] = lo[t[j]] /\ hi2[t[j]] = hi[t[j]]
      BY <1>12, <1>13, <2>5, <3>3
    <3> QED
      BY <3>1, <3>2, <3>3 DEF MovedBound
  <2> DEFINE s2 == heap'[p].keys
  <2> HIDE DEF s2
  <2>8. KeysSeparate(s2, t, lo2, hi2, f, g)
    <3>1. Rekeyed(s2, s, q, k)
      BY <2>4 DEF s2, Rekeyed
    <3> QED
      BY <1>10, <2>2, <2>3, <2>7, <3>1, SeparateRekeyed
  <2> QED
    BY <2>1, <2>3, <2>6, <2>8 DEF NodeWithin, s2
<1>16. ASSUME left \in LeafAddresses
       PROVE  NodeWithin(left, heap'[left], lo2, hi2, hi2) /\ NodeWithin(right, heap'[right], lo2, hi2, hi2)
  <2>1. KeysWithin(heap'[left].keys, lo[left], k) /\ KeysWithin(heap'[right].keys, k, hi[right])
    BY <1>16 DEF Rebounded
  <2> QED
    BY <1>5, <1>7, <1>12, <1>13, <1>16, <2>1 DEF NodeWithin
<1>17. ASSUME left \notin LeafAddresses
       PROVE  NodeWithin(left, heap'[left], lo2, hi2, hi2) /\ NodeWithin(right, heap'[right], lo2, hi2, hi2)
  <2> DEFINE s == heap'[left].keys
             t == heap'[left].pointers
             r == heap'[right].keys
             y == heap'[right].pointers
  <2>1. KeysSeparate(s, t, lo, hi, lo[left], k) /\ KeysSeparate(r, y, lo, hi, k, hi[right])
    BY <1>17 DEF Rebounded
  <2>2. (\A j \in 1..Len(t) : t[j] \in Live \ {left, right}) /\ (\A j \in 1..Len(y) : y[j] \in Live \ {left, right})
    BY <1>17 DEF Rebounded
  <2> HIDE DEF s, t, r, y
  <2>3. /\ \A j \in 1..Len(t) : lo2[t[j]] = lo[t[j]] /\ hi2[t[j]] = hi[t[j]]
        /\ \A j \in 1..Len(y) : lo2[y[j]] = lo[y[j]] /\ hi2[y[j]] = hi[y[j]]
    BY <1>12, <1>13, <2>2
  <2>4. KeysSeparate(s, t, lo2, hi2, lo[left], k)
    BY <2>1, <2>3, SeparateSame
  <2>5. KeysSeparate(r, y, lo2, hi2, k, hi[right])
    BY <2>1, <2>3, SeparateSame
  <2> QED
    BY <1>5, <1>7, <1>12, <1>13, <1>17, <2>4, <2>5 DEF NodeWithin, s, t, r, y
<1>18. ASSUME NEW x \in Live, x # p, x # left, x # right
       PROVE  NodeWithin(x, heap'[x], lo2, hi2, hi2)
  <2>1. NodeWithin(x, heap[x], lo, hi, hi)
    BY <1>6, BoundedFacts
  <2>2. /\ heap'[x].keys = heap[x].keys /\ heap'[x].pointers = heap[x].pointers
        /\ lo2[x] = lo[x] /\ hi2[x] = hi[x]
    BY <1>3, <1>12, <1>13, <1>18
  <2>3. x \notin LeafAddresses => \A j \in 1..Len(heap[x].pointers) :
           lo2[heap[x].pointers[j]] = lo[heap[x].pointers[j]] /\ hi2[heap[x].pointers[j]] = hi[heap[x].pointers[j]]
    <3> SUFFICES ASSUME x \notin LeafAddresses, NEW j \in 1..Len(heap[x].pointers), NEW y, y = heap[x].pointers[j]
                 PROVE  lo2[y] = lo[y] /\ hi2[y] = hi[y]
      OBVIOUS
    <3>1. x \in LiveInner
      BY <1>6
    <3>2. y \in Live /\ heap[y].parent = x
      BY <3>1, ChildFacts
    <3>3. y # left /\ y # right
      BY <1>7, <1>18, <3>2
    <3> QED
      BY <1>12, <1>13, <3>2, <3>3
  <2>4. Inherits(x, heap[x], heap'[x], lo, hi, hi, lo2, hi2, hi2)
    BY <2>1, <2>2, <2>3 DEF Inherits
  <2> QED
    BY <2>4, InheritedBounds
<1>19. ASSUME NEW x \in Live, x \in LeafAddresses
       PROVE  NextLinked(heap'[x], hi2[x], lo2, Live \cap LeafAddresses)
  <2>1. x \in LiveLeaves /\ NextLinked(heap[x], hi[x], lo, LiveLeaves) /\ heap'[x].next = heap[x].next
    BY <1>4, <1>6, <1>19, BoundedFacts
  <2>2. /\ \A y, l \in LiveLeaves : lo[y] = lo[l] => y = l
        /\ \A y, l \in LiveLeaves : hi[y] # 0 /\ hi[y] = hi[l] => y = l
        /\ \A y \in LiveLeaves : hi[y] # 0 => lo[y] < hi[y]
    BY <1>6, LinkFacts
  <2>3. CASE x = left
    <3>1. right \in LiveLeaves /\ hi[left] # 0
      BY <1>5, <1>6, <1>7, <1>19, <2>3
    <3>2. heap[x].next \in LiveLeaves /\ lo[heap[x].next] = lo[right]
      BY <1>7, <2>1, <2>3, <3>1 DEF NextLinked
    <3>3. heap[x].next = right
      BY <2>2, <3>1, <3>2
    <3>4. k # 0
      <4>1. lo[left] \in Nat
        BY <1>7, BoundedFacts
      <4> QED
        BY <1>10, <4>1
    <3> QED
      BY <1>6, <1>12, <1>13, <2>1, <2>3, <3>1, <3>3, <3>4 DEF NextLinked
  <2>4. CASE x # left
    <3>1. hi2[x] = hi[x]
      BY <1>13, <2>4
    <3>2. hi[x] # 0 => heap[x].next \in LiveLeaves /\ lo[heap[x].next] = hi[x]
      BY <2>1 DEF NextLinked
    <3>3. hi[x] # 0 => heap[x].next # right
      <4> SUFFICES ASSUME hi[x] # 0, heap[x].next = right PROVE FALSE
        OBVIOUS
      <4>1. right \in LiveLeaves /\ hi[x] = hi[left]
        BY <1>7, <3>2
      <4>2. left \in LiveLeaves
        BY <1>5, <1>6, <1>7, <4>1
      <4> QED
        BY <2>1, <2>2, <2>4, <4>1, <4>2
    <3>4. hi[x] # 0 => lo2[heap[x].next] = lo[heap[x].next]
      BY <1>6, <1>12, <3>2, <3>3
    <3> QED
      BY <1>6, <2>1, <3>1, <3>2, <3>4 DEF NextLinked
  <2> QED
    BY <2>3, <2>4
<1>20. EndsBounded(lo2, hi2)'
  BY <1>1, <1>6, <1>7, <1>12, <1>13, <1>14 DEF EndsBounded
<1>21. \A x \in Live : NodeWithin(x, heap'[x], lo2, hi2, hi2)
  BY <1>15, <1>16, <1>17, <1>18
<1> QED
  BY <1>1, <1>12, <1>13, <1>14, <1>19, <1>20, <1>21, BoundsMade

\* redistribute_nodes, with either neighbour.
LEMMA RedistributeKeepsBounds ==
    ASSUME Shape, NEW a, NEW nb, NEW p, NEW q, NEW u, NEW v, NEW w, NEW z, NEW e, NEW c, NEW k,
           Redistributed(a, nb, p, q, u, v, w, z, e, c, k),
           FromTheLeft(a, nb, p, q, u, v, w, z, e, k) \/ FromTheRight(a, nb, p, q, u, v, w, z, e, k),
           NEW lo \in [DOMAIN heap -> Nat], NEW hi \in [DOMAIN heap -> Nat], Bounded(lo, hi)
    PROVE  \E f, g \in [DOMAIN heap' -> Nat] : Bounded(f, g)'
<1>1. CASE FromTheLeft(a, nb, p, q, u, v, w, z, e, k)
  <2>1. Neighbors(p, q, nb, a) /\ Rebounded(nb, a, k, lo, hi)
    BY <1>1, LastMovedRebounds
  <2> QED
    BY <2>1, ReboundedKeepsBounds
<1>2. CASE FromTheRight(a, nb, p, q, u, v, w, z, e, k)
  <2>1. Neighbors(p, q, a, nb) /\ Rebounded(a, nb, k, lo, hi)
    BY <1>2, FirstMovedRebounds
  <2> QED
    BY <2>1, ReboundedKeepsBounds
<1> QED
  BY <1>1, <1>2
=============================================================================
