------------------------- MODULE BPlusTreeIndexProofs -------------------------
(***************************************************************************)
(* What the B+ tree holds: every action takes effect on the index of       *)
(* records in one step, find finds every record, and the leaves, in the    *)
(* order they are linked, hold the keys in ascending order.                *)
(***************************************************************************)
EXTENDS BPlusTreeOrderProofs

-----------------------------------------------------------------------------
(* What the leaves pair                                                    *)

\* What the leaves at the addresses D pair.
Holding(h, D) == UNION {Entries(h[a].keys, h[a].pointers) : a \in D}

\* Its elements are those of the leaves.
LEMMA HoldingElements ==
    ASSUME NEW h, NEW D, NEW e
    PROVE  e \in Holding(h, D) <=> \E a \in D : e \in Entries(h[a].keys, h[a].pointers)
BY DEF Holding

\* Leaves with the keys and records they had pair the same.
LEMMA HoldingSame ==
    ASSUME NEW h, NEW g, NEW D, \A x \in D : g[x].keys = h[x].keys /\ g[x].pointers = h[x].pointers
    PROVE  Holding(g, D) = Holding(h, D)
<1>1. ASSUME NEW e
      PROVE  e \in Holding(g, D) <=> e \in Holding(h, D)
  BY HoldingElements
<1> QED
  BY <1>1

\* What one leaf pairs, and what the others do.
LEMMA HoldingWithout ==
    ASSUME NEW h, NEW D, NEW a \in D
    PROVE  Holding(h, D) = Holding(h, D \ {a}) \cup Entries(h[a].keys, h[a].pointers)
<1>1. ASSUME NEW e
      PROVE  e \in Holding(h, D) <=> e \in Holding(h, D \ {a}) \cup Entries(h[a].keys, h[a].pointers)
  BY HoldingElements
<1> QED
  BY <1>1

\* The same of a leaf that is new.
LEMMA HoldingWith ==
    ASSUME NEW h, NEW D, NEW a
    PROVE  Holding(h, D \cup {a}) = Holding(h, D) \cup Entries(h[a].keys, h[a].pointers)
<1>1. ASSUME NEW e
      PROVE  e \in Holding(h, D \cup {a}) <=> e \in Holding(h, D) \cup Entries(h[a].keys, h[a].pointers)
  BY HoldingElements
<1> QED
  BY <1>1

\* What is paired, place by place.
LEMMA EntriesElements ==
    ASSUME NEW s, NEW t, NEW e
    PROVE  e \in Entries(s, t) <=> \E i \in 1..Len(s) : e = <<s[i], t[i]>>
BY DEF Entries

\* A key and its record put in at the same place.
LEMMA EntriesPutIn ==
    ASSUME NEW s, NEW t, NEW s2, NEW t2, NEW i, NEW k, NEW r,
           Len(s) \in Nat, Len(t) = Len(s), i \in 1..(Len(s) + 1), PutIn(s2, s, i, k), PutIn(t2, t, i, r)
    PROVE  Entries(s2, t2) = Entries(s, t) \cup {<<k, r>>}
<1>1. Len(s2) = Len(s) + 1
  BY DEF PutIn
<1>2. ASSUME NEW e \in Entries(s2, t2)
      PROVE  e \in Entries(s, t) \cup {<<k, r>>}
  <2>1. PICK j \in 1..Len(s2) : e = <<s2[j], t2[j]>>
    BY EntriesElements
  <2>2. CASE j = i
    BY <2>1, <2>2, PutInElements
  <2>3. CASE j < i
    <3>1. j \in 1..Len(s) /\ s2[j] = s[j] /\ t2[j] = t[j]
      BY <1>1, <2>3 DEF PutIn
    <3> QED
      BY <2>1, <3>1, EntriesElements
  <2>4. CASE j > i
    <3> DEFINE l == j - 1
    <3>1. l \in 1..Len(s) /\ s2[j] = s[l] /\ t2[j] = t[l]
      BY <1>1, <2>4 DEF PutIn
    <3> HIDE DEF l
    <3> QED
      BY <2>1, <3>1, EntriesElements
  <2> QED
    BY <1>1, <2>2, <2>3, <2>4
<1>3. ASSUME NEW j \in 1..Len(s)
      PROVE  \E l \in 1..Len(s2) : s2[l] = s[j] /\ t2[l] = t[j]
  <2>1. CASE j < i
    <3>1. j \in 1..Len(s2) /\ s2[j] = s[j] /\ t2[j] = t[j]
      BY <1>1, <2>1 DEF PutIn
    <3> QED
      BY <3>1
  <2>2. CASE ~(j < i)
    <3>1. j + 1 \in 1..Len(s2) /\ s2[j + 1] = s[j] /\ t2[j + 1] = t[j]
      BY <1>1, <2>2 DEF PutIn
    <3> QED
      BY <3>1
  <2> QED
    BY <2>1, <2>2
<1>4. ASSUME NEW e \in Entries(s, t)
      PROVE  e \in Entries(s2, t2)
  <2>1. PICK j \in 1..Len(s) : e = <<s[j], t[j]>>
    BY EntriesElements
  <2>2. PICK l \in 1..Len(s2) : s2[l] = s[j] /\ t2[l] = t[j]
    BY <1>3
  <2> QED
    BY <2>1, <2>2, EntriesElements
<1>5. <<k, r>> \in Entries(s2, t2)
  <2>1. i \in 1..Len(s2) /\ s2[i] = k /\ t2[i] = r
    BY <1>1 DEF PutIn
  <2> QED
    BY <2>1, EntriesElements
<1> QED
  BY <1>2, <1>4, <1>5

\* A key and its record taken out at the same place.
LEMMA EntriesTakenOut ==
    ASSUME NEW s, NEW t, NEW s2, NEW t2, NEW i,
           Len(s) \in Nat, Len(t) = Len(s), i \in 1..Len(s), TakenOut(s2, s, i), TakenOut(t2, t, i)
    PROVE  /\ Entries(s, t) = Entries(s2, t2) \cup {<<s[i], t[i]>>}
           /\ \A e \in Entries(s2, t2) : \E j \in 1..Len(s) : j # i /\ e = <<s[j], t[j]>>
<1>1. Len(s2) = Len(s) - 1
  BY DEF TakenOut
<1>2. ASSUME NEW e \in Entries(s2, t2)
      PROVE  \E j \in 1..Len(s) : j # i /\ e = <<s[j], t[j]>>
  <2>1. PICK j \in 1..Len(s2) : e = <<s2[j], t2[j]>>
    BY EntriesElements
  <2>2. CASE j < i
    <3>1. j \in 1..Len(s) /\ j # i /\ s2[j] = s[j] /\ t2[j] = t[j]
      BY <1>1, <2>2 DEF TakenOut
    <3> QED
      BY <2>1, <3>1
  <2>3. CASE ~(j < i)
    <3>1. j + 1 \in 1..Len(s) /\ j + 1 # i /\ s2[j] = s[j + 1] /\ t2[j] = t[j + 1]
      BY <1>1, <2>3 DEF TakenOut
    <3> QED
      BY <2>1, <3>1
  <2> QED
    BY <2>2, <2>3
<1>3. ASSUME NEW j \in 1..Len(s), j # i
      PROVE  \E l \in 1..Len(s2) : s2[l] = s[j] /\ t2[l] = t[j]
  <2>1. CASE j < i
    <3>1. j \in 1..Len(s2) /\ s2[j] = s[j] /\ t2[j] = t[j]
      BY <1>1, <2>1 DEF TakenOut
    <3> QED
      BY <3>1
  <2>2. CASE ~(j < i)
    <3> DEFINE l == j - 1
    <3>1. l \in 1..Len(s2) /\ l + 1 = j /\ ~(l < i)
      BY <1>1, <1>3, <2>2
    <3>2. s2[l] = s[j] /\ t2[l] = t[j]
      BY <1>1, <3>1 DEF TakenOut
    <3> HIDE DEF l
    <3> QED
      BY <3>1, <3>2
  <2> QED
    BY <2>1, <2>2
<1>4. ASSUME NEW e \in Entries(s, t)
      PROVE  e \in Entries(s2, t2) \cup {<<s[i], t[i]>>}
  <2>1. PICK j \in 1..Len(s) : e = <<s[j], t[j]>>
    BY EntriesElements
  <2>2. CASE j = i
    BY <2>1, <2>2
  <2>3. CASE j # i
    <3>1. PICK l \in 1..Len(s2) : s2[l] = s[j] /\ t2[l] = t[j]
      BY <1>3, <2>3
    <3> QED
      BY <2>1, <3>1, EntriesElements
  <2> QED
    BY <2>2, <2>3
<1>5. ASSUME NEW e \in Entries(s2, t2)
      PROVE  e \in Entries(s, t)
  BY <1>2, EntriesElements
<1>6. <<s[i], t[i]>> \in Entries(s, t)
  BY EntriesElements
<1> QED
  BY <1>2, <1>4, <1>5, <1>6

\* What two leaves pair, one after the other.
LEMMA EntriesJoined ==
    ASSUME NEW s, NEW t, NEW u, NEW v, NEW w, NEW x,
           Len(s) \in Nat, Len(t) = Len(s), Len(u) \in Nat, Len(v) = Len(u), Joined(w, s, u), Joined(x, t, v)
    PROVE  Entries(w, x) = Entries(s, t) \cup Entries(u, v)
<1> DEFINE n == Len(s)
           m == Len(u)
<1>1. /\ n \in Nat /\ m \in Nat /\ Len(w) = n + m
      /\ \A j \in 1..(n + m) : w[j] = IF j <= n THEN s[j] ELSE u[j - n]
      /\ \A j \in 1..(n + m) : x[j] = IF j <= n THEN t[j] ELSE v[j - n]
  BY DEF Joined
<1>2. ASSUME NEW e \in Entries(w, x)
      PROVE  e \in Entries(s, t) \cup Entries(u, v)
  <2>1. PICK j \in 1..(n + m) : e = <<w[j], x[j]>>
    BY <1>1, EntriesElements
  <2>2. CASE j <= n
    <3>1. j \in 1..Len(s) /\ w[j] = s[j] /\ x[j] = t[j]
      BY <1>1, <2>2
    <3> QED
      BY <2>1, <3>1, EntriesElements
  <2>3. CASE ~(j <= n)
    <3> DEFINE l == j - n
    <3>1. l \in 1..Len(u) /\ w[j] = u[l] /\ x[j] = v[l]
      BY <1>1, <2>3
    <3> HIDE DEF l
    <3> QED
      BY <2>1, <3>1, EntriesElements
  <2> QED
    BY <2>2, <2>3
<1>3. ASSUME NEW e \in Entries(s, t)
      PROVE  e \in Entries(w, x)
  <2>1. PICK j \in 1..n : e = <<s[j], t[j]>>
    BY EntriesElements
  <2>2. j \in 1..(n + m) /\ w[j] = s[j] /\ x[j] = t[j]
    BY <1>1
  <2> QED
    BY <1>1, <2>1, <2>2, EntriesElements
<1>4. ASSUME NEW e \in Entries(u, v)
      PROVE  e \in Entries(w, x)
  <2>1. PICK j \in 1..m : e = <<u[j], v[j]>>
    BY EntriesElements
  <2> DEFINE l == n + j
  <2>2. l \in 1..(n + m) /\ l - n = j /\ ~(l <= n)
    BY <1>1
  <2> HIDE DEF l
  <2>3. w[l] = u[j] /\ x[l] = v[j]
    BY <1>1, <2>2
  <2> QED
    BY <1>1, <2>1, <2>2, <2>3, EntriesElements
<1> QED
  BY <1>2, <1>3, <1>4

\* s and t are cut in two after place m.
Halved(s, t, s1, t1, s2, t2, m, n) ==
    /\ n \in Nat /\ Len(s) = n /\ m \in 0..n
    /\ PartOf(s1, s, 1, m) /\ PartOf(t1, t, 1, m) /\ PartOf(s2, s, m + 1, n) /\ PartOf(t2, t, m + 1, n)

\* What the two halves of a leaf pair.
LEMMA EntriesHalves ==
    ASSUME NEW s, NEW t, NEW s1, NEW t1, NEW s2, NEW t2, NEW m, NEW n, Halved(s, t, s1, t1, s2, t2, m, n)
    PROVE  Entries(s, t) = Entries(s1, t1) \cup Entries(s2, t2)
<1> /\ n \in Nat /\ Len(s) = n /\ m \in 0..n
    /\ PartOf(s1, s, 1, m) /\ PartOf(t1, t, 1, m) /\ PartOf(s2, s, m + 1, n) /\ PartOf(t2, t, m + 1, n)
  BY DEF Halved
<1>1. /\ Len(s1) = m /\ \A j \in 1..m : s1[j] = s[j] /\ t1[j] = t[j]
      /\ Len(s2) = n - m /\ \A j \in 1..(n - m) : s2[j] = s[m + j] /\ t2[j] = t[m + j]
  BY DEF PartOf
<1>2. ASSUME NEW e \in Entries(s, t)
      PROVE  e \in Entries(s1, t1) \cup Entries(s2, t2)
  <2>1. PICK j \in 1..n : e = <<s[j], t[j]>>
    BY EntriesElements
  <2>2. CASE j <= m
    <3>1. j \in 1..Len(s1) /\ s1[j] = s[j] /\ t1[j] = t[j]
      BY <1>1, <2>2
    <3> QED
      BY <2>1, <3>1, EntriesElements
  <2>3. CASE ~(j <= m)
    <3> DEFINE l == j - m
    <3>1. l \in 1..Len(s2) /\ m + l = j /\ l \in 1..(n - m)
      BY <1>1, <2>3
    <3> HIDE DEF l
    <3>2. s2[l] = s[j] /\ t2[l] = t[j]
      BY <1>1, <3>1
    <3> QED
      BY <2>1, <3>1, <3>2, EntriesElements
  <2> QED
    BY <2>2, <2>3
<1>3. ASSUME NEW e \in Entries(s1, t1)
      PROVE  e \in Entries(s, t)
  <2>1. PICK j \in 1..m : e = <<s1[j], t1[j]>>
    BY <1>1, EntriesElements
  <2>2. j \in 1..Len(s) /\ s1[j] = s[j] /\ t1[j] = t[j]
    BY <1>1
  <2> QED
    BY <2>1, <2>2, EntriesElements
<1>4. ASSUME NEW e \in Entries(s2, t2)
      PROVE  e \in Entries(s, t)
  <2>1. PICK j \in 1..(n - m) : e = <<s2[j], t2[j]>>
    BY <1>1, EntriesElements
  <2>2. m + j \in 1..Len(s) /\ s2[j] = s[m + j] /\ t2[j] = t[m + j]
    BY <1>1
  <2> QED
    BY <2>1, <2>2, EntriesElements
<1> QED
  BY <1>2, <1>3, <1>4

-----------------------------------------------------------------------------
(* What the tree holds after a step                                        *)

\* The items, the records the leaves point to, and the leaves that stay.
LEMMA ItemsFacts ==
    TypeOK => /\ Items = Holding(heap, DOMAIN heap \cap LeafAddresses)
              /\ Stored = {e[2] : e \in Items}
              /\ ItemsLive <=> Items = Holding(heap, LiveLeaves)
<1> SUFFICES ASSUME TypeOK
             PROVE  /\ Items = Holding(heap, DOMAIN heap \cap LeafAddresses)
                    /\ Stored = {e[2] : e \in Items}
                    /\ ItemsLive <=> Items = Holding(heap, LiveLeaves)
  OBVIOUS
<1>1. Leaves = DOMAIN heap \cap LeafAddresses
  BY NodeFacts DEF Leaves
<1>2. ASSUME NEW a \in Leaves
      PROVE  /\ DOMAIN heap[a].keys = 1..Len(heap[a].keys)
             /\ ToSet(heap[a].pointers) = {heap[a].pointers[i] : i \in 1..Len(heap[a].keys)}
  <2>1. heap[a].keys \in Seq(Keys) /\ heap[a].pointers \in Seq(Pairs) /\ Len(heap[a].pointers) = Len(heap[a].keys)
    BY <1>1, NodeFacts
  <2> QED
    BY <2>1, ElementsOf
<1>3. \A r : r \in Stored <=> \E a \in Leaves : \E i \in 1..Len(heap[a].keys) : r = heap[a].pointers[i]
  BY <1>2 DEF Stored
<1>4. \A e : e \in Items <=> \E a \in Leaves : \E i \in 1..Len(heap[a].keys) : e = <<heap[a].keys[i], heap[a].pointers[i]>>
  BY <1>2 DEF Items
<1>5. Items = Holding(heap, DOMAIN heap \cap LeafAddresses)
  BY <1>1, <1>4 DEF Holding, Entries
<1>6. ASSUME NEW r \in Stored PROVE \E e \in Items : r = e[2]
  <2>1. PICK a \in Leaves : \E i \in 1..Len(heap[a].keys) : r = heap[a].pointers[i]
    BY <1>3
  <2>2. PICK i \in 1..Len(heap[a].keys) : r = heap[a].pointers[i]
    BY <2>1
  <2>3. <<heap[a].keys[i], heap[a].pointers[i]>> \in Items
    BY <1>4
  <2> QED
    BY <2>2, <2>3
<1>7. ASSUME NEW e \in Items PROVE e[2] \in Stored
  BY <1>3, <1>4
<1>8. Holding(heap, LiveLeaves) \subseteq Items
  <2>1. LiveLeaves \subseteq DOMAIN heap \cap LeafAddresses
    BY DEF LiveLeaves, Live
  <2> QED
    BY <1>5, <2>1 DEF Holding
<1>9. ItemsLive <=> Items \subseteq Holding(heap, LiveLeaves)
  BY HoldingElements DEF ItemsLive
<1> QED
  BY <1>5, <1>6, <1>7, <1>8, <1>9

\* The same of the next state.
LEMMA ItemsFactsNext ==
    ASSUME TypeOK'
    PROVE  /\ Items' = Holding(heap', DOMAIN heap' \cap LeafAddresses)
           /\ Stored' = {e[2] : e \in Items'}
           /\ ItemsLive' <=> Items' = Holding(heap', LiveLeaves')
<1>1. TypeOK' => (/\ Items = Holding(heap, DOMAIN heap \cap LeafAddresses)
                  /\ Stored = {e[2] : e \in Items}
                  /\ ItemsLive <=> Items = Holding(heap, LiveLeaves))'
  BY ONLY ItemsFacts, PTL
<1> QED
  BY <1>1

\* What the tree holds when no node waits to be freed.
LEMMA ItemsNext ==
    ASSUME TypeOK', todo' = NoCall \/ Splitting' \/ todo'.dead = {}, NEW D, D = DOMAIN heap' \cap LeafAddresses
    PROVE  Items' = Holding(heap', D) /\ ItemsLive'
<1>1. Dead' = {}
  BY DEF Dead, Repairing, Splitting, NoCall
<1>2. LiveLeaves' = D
  BY <1>1 DEF LiveLeaves, Live
<1> QED
  BY <1>2, ItemsFactsNext

\* The leaves that stay do not change, and no leaf is made.
LEMMA LeavesKeepItems ==
    ASSUME Shape, ItemsLive, TypeOK', todo' = NoCall \/ Splitting',
           DOMAIN heap' \cap LeafAddresses = LiveLeaves,
           \A x \in LiveLeaves : heap'[x].keys = heap[x].keys /\ heap'[x].pointers = heap[x].pointers
    PROVE  Items' = Items /\ ItemsLive'
<1>1. Items = Holding(heap, LiveLeaves)
  BY ItemsFacts DEF Shape
<1>2. Items' = Holding(heap', LiveLeaves) /\ ItemsLive'
  BY ItemsNext
<1>3. Holding(heap', LiveLeaves) = Holding(heap, LiveLeaves)
  BY HoldingSame
<1> QED
  BY <1>1, <1>2, <1>3

\* Before the parent of a split is told of it and between calls.
LEMMA NoneToFree ==
    ASSUME Splitting \/ todo = NoCall
    PROVE  LiveLeaves = DOMAIN heap \cap LeafAddresses
BY DEF LiveLeaves, Live, Dead, Splitting, Repairing, NoCall

\* The steps that put a split into the parents.
LEMMA InsertIntoNewRootKeepsItems ==
    ASSUME Shape, ItemsLive, TypeOK', NEW a, InsertedIntoNewRoot(a)
    PROVE  Items' = Items /\ ItemsLive'
<1>1. /\ Splitting /\ todo' = NoCall /\ a \notin LeafAddresses
      /\ DOMAIN heap' = DOMAIN heap \cup {a}
  BY DEF InsertedIntoNewRoot
<1>2. ASSUME NEW x \in DOMAIN heap
      PROVE  heap'[x].keys = heap[x].keys /\ heap'[x].pointers = heap[x].pointers
  <2>1. \/ heap'[x] = Node(heap[x].leaf, heap[x].keys, heap[x].pointers, a, heap[x].next)
        \/ heap'[x] = heap[x]
    BY DEF InsertedIntoNewRoot
  <2> QED
    BY <2>1 DEF Node
<1>3. LiveLeaves = DOMAIN heap \cap LeafAddresses
  BY <1>1, NoneToFree
<1> QED
  BY <1>1, <1>2, <1>3, LeavesKeepItems

\* insert_into_node touches no leaf.
LEMMA InsertIntoNodeKeepsItems ==
    ASSUME Shape, ItemsLive, TypeOK', NEW p, NEW i, InsertedIntoNode(p, i)
    PROVE  Items' = Items /\ ItemsLive'
<1>1. /\ Splitting /\ todo' = NoCall /\ p \notin LeafAddresses /\ DOMAIN heap' = DOMAIN heap
      /\ \A x \in DOMAIN heap \ {p} : heap'[x] = heap[x]
  BY DEF InsertedIntoNode
<1>2. LiveLeaves = DOMAIN heap \cap LeafAddresses
  BY <1>1, NoneToFree
<1> QED
  BY <1>1, <1>2, LeavesKeepItems

\* insert_into_node_after_splitting touches the keys of no leaf.
LEMMA SplitNodeKeepsItems ==
    ASSUME Shape, ItemsLive, TypeOK', NEW p, NEW b, NEW i, NEW ks, NEW ps, NEW m, SplitTheNode(p, b, i, ks, ps, m)
    PROVE  Items' = Items /\ ItemsLive'
<1>1. /\ Splitting /\ p \notin LeafAddresses /\ b \notin LeafAddresses
      /\ DOMAIN heap' = DOMAIN heap \cup {b}
      /\ todo' = [call |-> "insert_into_parent", left |-> p, key |-> ks[m], right |-> b]
  BY DEF SplitTheNode
<1>2. ASSUME NEW x \in DOMAIN heap, x # p
      PROVE  heap'[x].keys = heap[x].keys /\ heap'[x].pointers = heap[x].pointers
  <2>1. \/ heap'[x] = Node(heap[x].leaf, heap[x].keys, heap[x].pointers, b, heap[x].next)
        \/ heap'[x] = heap[x]
    BY <1>2 DEF SplitTheNode
  <2> QED
    BY <2>1 DEF Node
<1>3. LiveLeaves = DOMAIN heap \cap LeafAddresses
  BY <1>1, NoneToFree
<1>4. Splitting'
  BY <1>1 DEF Splitting
<1> QED
  BY <1>1, <1>2, <1>3, <1>4, LeavesKeepItems

\* The ends of a repair.
LEMMA RepairEndedKeepsItems ==
    ASSUME Shape, ItemsLive, TypeOK', RepairEnded
    PROVE  Items' = Items /\ ItemsLive'
<1>1. todo' = NoCall /\ DOMAIN heap' = Live /\ \A x \in Live : heap'[x] = heap[x]
  BY DEF RepairEnded
<1>2. LiveLeaves = Live \cap LeafAddresses
  BY DEF LiveLeaves
<1> QED
  BY <1>1, <1>2, LeavesKeepItems

\* A root that goes is no leaf.
LEMMA RootLoweredKeepsItems ==
    ASSUME Shape, ItemsLive, TypeOK', NEW c, RootLowered(c)
    PROVE  Items' = Items /\ ItemsLive'
<1>1. todo' = NoCall /\ root \notin LeafAddresses /\ DOMAIN heap' = Live \ {root}
  BY DEF RootLowered
<1>2. ASSUME NEW x \in Live, x # root
      PROVE  heap'[x].keys = heap[x].keys /\ heap'[x].pointers = heap[x].pointers
  <2>1. \/ heap'[x] = Node(heap[x].leaf, heap[x].keys, heap[x].pointers, Null, heap[x].next)
        \/ heap'[x] = heap[x]
    BY <1>2 DEF RootLowered
  <2> QED
    BY <2>1 DEF Node
<1>3. LiveLeaves = Live \cap LeafAddresses
  BY DEF LiveLeaves
<1> QED
  BY <1>1, <1>2, <1>3, LeavesKeepItems

\* The last leaf that goes holds nothing any more.
LEMMA TreeEmptiedKeepsItems ==
    ASSUME Shape, TypeOK', TreeEmptied
    PROVE  Items' = Items /\ ItemsLive' /\ Items' = {}
<1>1. todo' = NoCall /\ DOMAIN heap = {root} /\ DOMAIN heap' = {} /\ Len(heap[root].keys) = 0
  BY DEF TreeEmptied
<1>2. Items' = Holding(heap', {}) /\ ItemsLive'
  BY <1>1, ItemsNext
<1>3. Items' = {}
  BY <1>2 DEF Holding
<1>4. Entries(heap[root].keys, heap[root].pointers) = {}
  BY <1>1 DEF Entries
<1>5. Items = Holding(heap, DOMAIN heap \cap LeafAddresses)
  BY ItemsFacts DEF Shape
<1>6. Items = {}
  BY <1>1, <1>4, <1>5 DEF Holding
<1> QED
  BY <1>2, <1>3, <1>6

\* start_new_tree adds the record.
LEMMA StartNewTreeAdds ==
    ASSUME Shape, TypeOK', NEW k, NEW r, NEW a, StartedNewTree(k, r, a)
    PROVE  Items = {} /\ Items' = {<<k, r>>} /\ ItemsLive'
<1>1. /\ root = Null /\ todo' = NoCall /\ a \in LeafAddresses /\ DOMAIN heap' = DOMAIN heap \cup {a}
      /\ heap'[a] = Node(TRUE, <<k>>, <<r>>, Null, Null)
  BY DEF StartedNewTree
<1>2. TypeOK /\ DOMAIN heap = {}
  BY <1>1 DEF Shape, RootSound
<1>3. Items = {}
  BY <1>2, ItemsFacts DEF Holding
<1>4. Items' = Holding(heap', {a}) /\ ItemsLive'
  BY <1>1, <1>2, ItemsNext
<1>5. Entries(heap'[a].keys, heap'[a].pointers) = {<<k, r>>}
  BY <1>1 DEF Entries, Node
<1> QED
  BY <1>3, <1>4, <1>5 DEF Holding

\* insert_into_leaf adds the record.
LEMMA InsertIntoLeafAdds ==
    ASSUME Shape, TypeOK', NEW k, NEW r, NEW a, NEW i, InsertedIntoLeaf(k, r, a, i)
    PROVE  Items' = Items \cup {<<k, r>>} /\ ItemsLive'
<1> DEFINE D == DOMAIN heap \cap LeafAddresses
           s == heap[a].keys
           t == heap[a].pointers
<1>1. /\ todo' = NoCall /\ DOMAIN heap' = DOMAIN heap /\ a \in D
      /\ i \in 1..(Len(s) + 1) /\ PutIn(heap'[a].keys, s, i, k) /\ PutIn(heap'[a].pointers, t, i, r)
      /\ \A x \in D \ {a} : heap'[x] = heap[x]
  BY DEF InsertedIntoLeaf
<1>2. Len(s) \in Nat /\ Len(t) = Len(s)
  BY <1>1, NodeFacts DEF Shape
<1>3. Items' = Holding(heap', D) /\ ItemsLive' /\ Items = Holding(heap, D)
  BY <1>1, ItemsNext, ItemsFacts DEF Shape
<1> HIDE DEF D
<1>4. Holding(heap', D) = Holding(heap', D \ {a}) \cup Entries(heap'[a].keys, heap'[a].pointers)
  BY <1>1, HoldingWithout
<1>5. Holding(heap, D) = Holding(heap, D \ {a}) \cup Entries(s, t)
  BY <1>1, HoldingWithout
<1>6. Holding(heap', D \ {a}) = Holding(heap, D \ {a})
  <2> DEFINE C == D \ {a}
  <2>1. \A x \in C : heap'[x].keys = heap[x].keys /\ heap'[x].pointers = heap[x].pointers
    BY <1>1
  <2> HIDE DEF C
  <2>2. Holding(heap', C) = Holding(heap, C)
    BY <2>1, HoldingSame
  <2> QED
    BY <2>2 DEF C
<1> HIDE DEF s, t
<1>7. Entries(heap'[a].keys, heap'[a].pointers) = Entries(s, t) \cup {<<k, r>>}
  BY <1>1, <1>2, EntriesPutIn
<1> QED
  BY <1>3, <1>4, <1>5, <1>6, <1>7

\* insert_into_leaf_after_splitting adds the record.
LEMMA SplitLeafAdds ==
    ASSUME Shape, TypeOK', NEW k, NEW r, NEW a, NEW b, NEW i, NEW ks, NEW ps, NEW m,
           SplitTheLeaf(k, r, a, b, i, ks, ps, m)
    PROVE  Items' = Items \cup {<<k, r>>} /\ ItemsLive'
<1> DEFINE D == DOMAIN heap \cap LeafAddresses
           C == D \ {a}
           s == heap[a].keys
           t == heap[a].pointers
<1>1. /\ DOMAIN heap' = DOMAIN heap \cup {b} /\ a \in D /\ b \in LeafAddresses /\ b \notin D
      /\ i \in 1..(Len(s) + 1) /\ PutIn(ks, s, i, k) /\ PutIn(ps, t, i, r)
      /\ \A x \in C : heap'[x] = heap[x]
  BY DEF SplitTheLeaf
<1>2. /\ Len(s) = Order - 1 /\ m \in 1..(Order - 1)
      /\ PartOf(heap'[a].keys, ks, 1, m) /\ PartOf(heap'[b].keys, ks, m + 1, Order)
      /\ PartOf(heap'[a].pointers, ps, 1, m) /\ PartOf(heap'[b].pointers, ps, m + 1, Order)
  BY DEF SplitTheLeaf
<1>3. Splitting'
  BY DEF SplitTheLeaf, Splitting
<1>4. Len(s) \in Nat /\ Len(t) = Len(s)
  BY <1>1, NodeFacts DEF Shape
<1>5. Items' = Holding(heap', D \cup {b}) /\ ItemsLive' /\ Items = Holding(heap, D)
  <2>1. D \cup {b} = DOMAIN heap' \cap LeafAddresses
    BY <1>1
  <2> HIDE DEF D
  <2>2. Items' = Holding(heap', D \cup {b}) /\ ItemsLive'
    BY <1>3, <2>1, ItemsNext
  <2> QED
    BY <2>2, ItemsFacts DEF D, Shape
<1> HIDE DEF D
<1>6. Holding(heap', D \cup {b}) = Holding(heap', D) \cup Entries(heap'[b].keys, heap'[b].pointers)
  BY HoldingWith
<1>7. Holding(heap', D) = Holding(heap', C) \cup Entries(heap'[a].keys, heap'[a].pointers)
  BY <1>1, HoldingWithout
<1>8. Holding(heap, D) = Holding(heap, C) \cup Entries(s, t)
  BY <1>1, HoldingWithout
<1>9. Holding(heap', C) = Holding(heap, C)
  <2>1. \A x \in C : heap'[x].keys = heap[x].keys /\ heap'[x].pointers = heap[x].pointers
    BY <1>1
  <2> HIDE DEF C
  <2> QED
    BY <2>1, HoldingSame
<1> HIDE DEF C, s, t
<1>10. Entries(ks, ps) = Entries(s, t) \cup {<<k, r>>}
  BY <1>1, <1>4, EntriesPutIn
<1>11. Order \in Nat /\ Len(ks) = Order /\ m \in 0..Order
  <2>1. Order \in Nat /\ Order >= 3
    BY TreeAssumption
  <2>2. Len(ks) = Len(s) + 1
    BY <1>1 DEF PutIn
  <2> QED
    BY <1>2, <2>1, <2>2
<1>12. Entries(ks, ps) =
          Entries(heap'[a].keys, heap'[a].pointers) \cup Entries(heap'[b].keys, heap'[b].pointers)
  <2> DEFINE s1 == heap'[a].keys
             t1 == heap'[a].pointers
             s2 == heap'[b].keys
             t2 == heap'[b].pointers
             n == Order
  <2>1. n \in Nat /\ Len(ks) = n /\ m \in 0..n
    BY <1>11
  <2>2. PartOf(s1, ks, 1, m) /\ PartOf(t1, ps, 1, m) /\ PartOf(s2, ks, m + 1, n) /\ PartOf(t2, ps, m + 1, n)
    BY <1>2
  <2> HIDE DEF s1, t1, s2, t2, n
  <2>3. Entries(ks, ps) = Entries(s1, t1) \cup Entries(s2, t2)
    <3>1. Halved(ks, ps, s1, t1, s2, t2, m, n)
      BY <2>1, <2>2 DEF Halved
    <3> QED
      BY <3>1, EntriesHalves
  <2> QED
    BY <2>3 DEF s1, t1, s2, t2
<1> QED
  BY <1>5, <1>6, <1>7, <1>8, <1>9, <1>10, <1>12

\* What find returns of the items: the record each key is paired with.
LEMMA FindsItems ==
    ASSUME Shape, todo = NoCall,
           NEW lo \in [DOMAIN heap -> Nat], NEW hi \in [DOMAIN heap -> Nat], Bounded(lo, hi)
    PROVE  /\ \A e \in Items : e[1] \in Keys /\ e[2] \in Pairs /\ e = <<e[1], e[2]>> /\ find(e[1]) = e[2] /\ e[2] # Null
           /\ \A k \in Keys : find(k) # Null => <<k, find(k)>> \in Items
<1>1. Items = Holding(heap, DOMAIN heap \cap LeafAddresses)
  BY ItemsFacts DEF Shape
<1>2. ASSUME NEW e \in Items
      PROVE  e[1] \in Keys /\ e[2] \in Pairs /\ e = <<e[1], e[2]>> /\ find(e[1]) = e[2] /\ e[2] # Null
  <2>1. PICK a \in DOMAIN heap \cap LeafAddresses : e \in Entries(heap[a].keys, heap[a].pointers)
    BY <1>1, HoldingElements
  <2>2. PICK i \in 1..Len(heap[a].keys) : e = <<heap[a].keys[i], heap[a].pointers[i]>>
    BY <2>1, EntriesElements
  <2> DEFINE s == heap[a].keys
             t == heap[a].pointers
             k == s[i]
  <2>3. /\ s \in Seq(Keys) /\ t \in Seq(Pairs) /\ Len(t) = Len(s) /\ Len(s) \in Nat /\ TypeOK
    BY <2>1, NodeFacts DEF Shape
  <2>4. t[i] \in Pairs /\ t[i] # Null
    BY <2>3, ElementOfSeq, TreeAssumption
  <2>5. root # Null
    BY <2>1 DEF Shape, RootSound
  <2>6. k \in Keys /\ find_leaf(k) = a
    BY <2>1, <2>5, LeafOfKey
  <2>7. find(k) = t[IndexOf(s, k)]
    <3>1. \E j \in 1..Len(s) : s[j] = k
      OBVIOUS
    <3> QED
      BY <2>5, <2>6, <3>1, FindFacts
  <2>8. IndexOf(s, k) = i
    <3> DEFINE j == IndexOf(s, k)
    <3>1. j \in 1..Len(s) /\ s[j] = k
      BY <2>3, IndexOfFacts
    <3>2. Ascending(s) /\ Numbers(s)
      <4>1. a \in Live /\ a \in LeafAddresses
        BY <2>1, BetweenCalls
      <4> QED
        BY <4>1, BoundedFacts DEF NodeWithin, KeysWithin
    <3> HIDE DEF j
    <3>3. s[i] \in Nat /\ s[j] \in Nat /\ (i < j => s[i] < s[j]) /\ (j < i => s[j] < s[i])
      BY <3>1, <3>2 DEF Ascending, Numbers
    <3>4. i \in Nat /\ j \in Nat /\ s[i] = s[j]
      BY <2>3, <3>1
    <3>5. j = i
      <4> HIDE DEF s
      <4> QED
        BY <3>3, <3>4
    <3> QED
      BY <3>5 DEF j
  <2> QED
    BY <2>2, <2>4, <2>6, <2>7, <2>8
<1>3. ASSUME NEW k \in Keys, find(k) # Null
      PROVE  <<k, find(k)>> \in Items
  <2> DEFINE a == find_leaf(k)
             s == heap[a].keys
             j == IndexOf(s, k)
  <2>1. root # Null /\ ~(\A i \in 1..Len(s) : s[i] # k)
    BY <1>3, FindFacts
  <2>2. find(k) = heap[a].pointers[j]
    BY <2>1, FindFacts
  <2>3. a \in DOMAIN heap /\ a \in LeafAddresses
    BY <2>1, FoundLeaf
  <2>4. j \in 1..Len(s) /\ s[j] = k
    BY <2>1, <2>3, NodeFacts, IndexOfFacts DEF Shape
  <2> HIDE DEF a, j
  <2>5. <<k, find(k)>> \in Entries(heap[a].keys, heap[a].pointers)
    BY <2>2, <2>4, EntriesElements
  <2> QED
    BY <1>1, <2>3, <2>5, HoldingElements
<1> QED
  BY <1>2, <1>3

\* del removes the one item of the key.
LEMMA DeleteRemoves ==
    ASSUME Shape, RecordsOfKeys, TypeOK', NEW k \in Keys, NEW a, NEW i, NEW j, DeletedFromLeaf(k, a, i, j),
           NEW lo \in [DOMAIN heap -> Nat], NEW hi \in [DOMAIN heap -> Nat], Bounded(lo, hi)
    PROVE  Items' = {e \in Items : e[1] # k} /\ ItemsLive'
<1> DEFINE D == DOMAIN heap \cap LeafAddresses
           C == D \ {a}
           s == heap[a].keys
           t == heap[a].pointers
           s2 == heap'[a].keys
           t2 == heap'[a].pointers
<1>1. /\ todo = NoCall /\ root # Null /\ a = find_leaf(k) /\ a \in DOMAIN heap /\ a \in D
      /\ i \in 1..Len(s) /\ s[i] = k /\ j \in 1..Len(s) /\ t[j] = t[i]
      /\ DOMAIN heap' = DOMAIN heap /\ TakenOut(s2, s, i) /\ TakenOut(t2, t, j)
      /\ \A x \in C : heap'[x] = heap[x]
  BY DEF DeletedFromLeaf
<1>2. Len(s) \in Nat /\ Len(t) = Len(s) /\ TypeOK
  BY <1>1, NodeFacts DEF Shape
<1>3. Items = Holding(heap, D)
  BY <1>2, ItemsFacts
<1>4. Items' = Holding(heap', D) /\ ItemsLive'
  <2>1. todo'.dead = {}
    BY DEF DeletedFromLeaf
  <2>2. D = DOMAIN heap' \cap LeafAddresses
    BY <1>1
  <2> HIDE DEF D
  <2> QED
    BY <2>1, <2>2, ItemsNext
<1> HIDE DEF D
<1>5. ASSUME NEW x \in 1..Len(s), s[x] = s[i]
      PROVE  x = i
  <2>1. Ascending(s) /\ Numbers(s)
    <3>1. a \in Live /\ a \in LeafAddresses
      BY <1>1, BetweenCalls DEF D
    <3> QED
      BY <3>1, BoundedFacts DEF NodeWithin, KeysWithin
  <2>2. s[x] \in Nat /\ s[i] \in Nat /\ (x < i => s[x] < s[i]) /\ (i < x => s[i] < s[x])
    BY <1>1, <2>1 DEF Ascending, Numbers
  <2>3. x \in Nat /\ i \in Nat
    BY <1>1, <1>2
  <2> HIDE DEF s
  <2> QED
    BY <1>5, <2>2, <2>3
<1>6. ASSUME NEW x \in 1..Len(s)
      PROVE  <<s[x], t[x]>> \in Items /\ t[x][1] = s[x]
  <2> DEFINE e == <<s[x], t[x]>>
  <2>1. e \in Entries(s, t)
    BY EntriesElements
  <2>2. e \in Items
    BY <1>1, <1>3, <2>1, HoldingElements
  <2> QED
    BY <2>2 DEF RecordsOfKeys
<1>7. j = i
  <2>1. t[j][1] = s[j] /\ t[i][1] = s[i]
    BY <1>1, <1>6
  <2> QED
    BY <1>1, <1>5, <2>1
<1> HIDE DEF s, t, s2, t2
<1>8. TakenOut(s2, s, i) /\ TakenOut(t2, t, i)
  BY <1>1, <1>7
<1>9. Len(s) \in Nat /\ Len(t) = Len(s) /\ i \in 1..Len(s) /\ a \in D
  BY <1>1, <1>2
<1>10. Entries(s, t) = Entries(s2, t2) \cup {<<s[i], t[i]>>}
  BY <1>8, <1>9, EntriesTakenOut
<1>11. ASSUME NEW e \in Entries(s2, t2) PROVE e[1] # k
  <2>1. PICK x \in 1..Len(s) : x # i /\ e = <<s[x], t[x]>>
    BY <1>8, <1>9, EntriesTakenOut
  <2>2. e[1] = s[x] /\ s[i] = k
    BY <1>1, <2>1
  <2> QED
    BY <1>5, <2>1, <2>2
<1>12. \A e \in Holding(heap, C) : e[1] # k
  <2> SUFFICES ASSUME NEW e \in Holding(heap, C), e[1] = k PROVE FALSE
    OBVIOUS
  <2>1. PICK x \in C : e \in Entries(heap[x].keys, heap[x].pointers)
    BY HoldingElements
  <2>2. PICK l \in 1..Len(heap[x].keys) : e = <<heap[x].keys[l], heap[x].pointers[l]>>
    BY <2>1, EntriesElements
  <2>3. heap[x].keys[l] = k /\ x \in DOMAIN heap /\ x \in LeafAddresses /\ x # a
    BY <2>1, <2>2 DEF D
  <2>4. find_leaf(heap[x].keys[l]) = x
    BY <1>1, <2>3, LeafOfKey
  <2> QED
    BY <1>1, <2>3, <2>4
<1>13. Holding(heap', D) = Holding(heap', C) \cup Entries(s2, t2)
  BY <1>9, HoldingWithout DEF s2, t2
<1>14. Holding(heap, D) = Holding(heap, C) \cup Entries(s, t)
  BY <1>9, HoldingWithout DEF s, t
<1>15. Holding(heap', C) = Holding(heap, C)
  <2>1. \A x \in C : heap'[x].keys = heap[x].keys /\ heap'[x].pointers = heap[x].pointers
    BY <1>1
  <2> HIDE DEF C
  <2> QED
    BY <2>1, HoldingSame
<1>16. <<s[i], t[i]>>[1] = k
  BY <1>1
<1> HIDE DEF C
<1> QED
  BY <1>3, <1>4, <1>10, <1>11, <1>12, <1>13, <1>14, <1>15, <1>16

\* coalesce_nodes keeps the items: what the emptied leaf still holds the one it
\* was emptied into holds.
LEMMA CoalesceKeepsItems ==
    ASSUME Shape, ItemsLive, TypeOK',
           NEW a, NEW nb, NEW p, NEW q, NEW to, NEW from, NEW o, Coalesced(a, nb, p, q, to, from, o)
    PROVE  Items' = Items /\ ItemsLive'
<1> DEFINE D == DOMAIN heap \cap LeafAddresses
<1>1. Repairing /\ Pair(a, nb, p, q) /\ ((to = a /\ from = nb) \/ (to = nb /\ from = a))
  BY DEF Coalesced
<1>2. /\ DOMAIN heap' = DOMAIN heap
      /\ Joined(heap'[to].pointers, heap[to].pointers, heap[from].pointers)
      /\ to \in LeafAddresses => Joined(heap'[to].keys, heap[to].keys, heap[from].keys)
      /\ todo' = [call |-> "delete_entry", node |-> p, dead |-> todo.dead \cup {from}]
  BY DEF Coalesced
<1>3. /\ a = todo.node /\ a \in Live /\ nb \in Live /\ p \in LiveInner /\ a # nb
      /\ a \in LeafAddresses <=> nb \in LeafAddresses
  BY <1>1 DEF Pair
<1>4. /\ Live = DOMAIN heap \ todo.dead /\ LiveInner = Live \ LeafAddresses /\ Dead = todo.dead
      /\ todo.node \in LeafAddresses => todo.dead = {}
  BY <1>1, RepairingFacts
<1>5. Live' = Live \ {from} /\ LiveLeaves' = LiveLeaves \ {from}
  <2>1. Dead' = todo.dead \cup {from}
    BY <1>2 DEF Dead, Repairing
  <2> QED
    BY <1>2, <1>4, <2>1 DEF Live, LiveLeaves
<1>6. ASSUME NEW x \in D, x # to
      PROVE  heap'[x].keys = heap[x].keys /\ heap'[x].pointers = heap[x].pointers
  <2>1. x # p
    BY <1>3, <1>4
  <2>2. \/ heap'[x] = Node(heap[x].leaf, heap[x].keys, heap[x].pointers, to, heap[x].next)
        \/ heap'[x] = heap[x]
    BY <1>6, <2>1 DEF Coalesced
  <2> QED
    BY <2>2 DEF Node
<1>7. Items = Holding(heap, D) /\ Items = Holding(heap, LiveLeaves)
  BY ItemsFacts DEF Shape
<1>8. Items' = Holding(heap', D) /\ (ItemsLive' <=> Items' = Holding(heap', LiveLeaves \ {from}))
  BY <1>2, <1>5, ItemsFactsNext
<1>9. CASE to \notin LeafAddresses
  <2>1. LiveLeaves \ {from} = LiveLeaves /\ LiveLeaves \subseteq D
    BY <1>1, <1>3, <1>9 DEF LiveLeaves, Live
  <2>2. \A x \in D : heap'[x].keys = heap[x].keys /\ heap'[x].pointers = heap[x].pointers
    BY <1>6, <1>9
  <2>3. Holding(heap', D) = Holding(heap, D)
    BY <2>2, HoldingSame
  <2>4. Holding(heap', LiveLeaves) = Holding(heap, LiveLeaves)
    BY <2>1, <2>2, HoldingSame
  <2> QED
    BY <1>7, <1>8, <2>1, <2>3, <2>4
<1>10. CASE to \in LeafAddresses
  <2> DEFINE C == D \ {from}
             B == C \ {to}
             s == heap[to].keys
             t == heap[to].pointers
             u == heap[from].keys
             v == heap[from].pointers
  <2>1. to # from /\ to \in D /\ from \in D /\ to \in C
    BY <1>1, <1>3, <1>4, <1>10
  <2>2. LiveLeaves = D
    BY <1>1, <1>3, <1>4, <1>10 DEF LiveLeaves
  <2>3. Len(s) \in Nat /\ Len(t) = Len(s) /\ Len(u) \in Nat /\ Len(v) = Len(u)
    BY <2>1, NodeFacts DEF Shape
  <2>4. Joined(heap'[to].keys, s, u) /\ Joined(heap'[to].pointers, t, v)
    BY <1>2, <1>10
  <2>5. heap'[from].keys = u /\ heap'[from].pointers = v
    BY <1>6, <2>1
  <2>6. \A x \in B : heap'[x].keys = heap[x].keys /\ heap'[x].pointers = heap[x].pointers
    BY <1>6
  <2> HIDE DEF D, s, t, u, v
  <2>7. Entries(heap'[to].keys, heap'[to].pointers) = Entries(s, t) \cup Entries(u, v)
    BY <2>3, <2>4, EntriesJoined
  <2>8. Holding(heap, D) = Holding(heap, C) \cup Entries(u, v)
    BY <2>1, HoldingWithout DEF u, v
  <2>9. Holding(heap', D) = Holding(heap', C) \cup Entries(u, v)
    BY <2>1, <2>5, HoldingWithout
  <2> HIDE DEF C
  <2>10. Holding(heap, C) = Holding(heap, B) \cup Entries(s, t)
    BY <2>1, HoldingWithout DEF s, t
  <2>11. Holding(heap', C) = Holding(heap', B) \cup Entries(heap'[to].keys, heap'[to].pointers)
    BY <2>1, HoldingWithout
  <2> HIDE DEF B
  <2>12. Holding(heap', B) = Holding(heap, B)
    BY <2>6, HoldingSame
  <2>13. Holding(heap', C) = Items /\ Holding(heap', D) = Items
    BY <1>7, <2>7, <2>8, <2>9, <2>10, <2>11, <2>12
  <2> QED
    BY <1>8, <2>2, <2>13 DEF C
<1> QED
  BY <1>9, <1>10

\* redistribute_nodes keeps the items: what leaves the one leaf the other gets.
LEMMA RedistributeKeepsItems ==
    ASSUME Shape, ItemsLive, TypeOK',
           NEW a, NEW nb, NEW p, NEW q, NEW u, NEW v, NEW w, NEW z, NEW e, NEW c, NEW k,
           Redistributed(a, nb, p, q, u, v, w, z, e, c, k),
           FromTheLeft(a, nb, p, q, u, v, w, z, e, k) \/ FromTheRight(a, nb, p, q, u, v, w, z, e, k)
    PROVE  Items' = Items /\ ItemsLive'
<1> DEFINE D == LiveLeaves
<1>1. Repairing /\ Pair(a, nb, p, q) /\ todo' = NoCall /\ DOMAIN heap' = Live
  BY DEF Redistributed
<1>2. /\ a \in Live /\ nb \in Live /\ p \in LiveInner /\ a # nb
      /\ a \in LeafAddresses <=> nb \in LeafAddresses
  BY <1>1 DEF Pair
<1>3. D = Live \cap LeafAddresses /\ D \subseteq DOMAIN heap /\ p \notin D
  BY <1>2 DEF LiveLeaves, LiveInner, Live
<1>4. ASSUME NEW x \in D, x # a, x # nb
      PROVE  heap'[x].keys = heap[x].keys /\ heap'[x].pointers = heap[x].pointers
  <2>1. \/ heap'[x] = Node(heap[x].leaf, heap[x].keys, heap[x].pointers, a, heap[x].next)
        \/ heap'[x] = heap[x]
    BY <1>3, <1>4 DEF Redistributed
  <2> QED
    BY <2>1 DEF Node
<1>5. DOMAIN heap' \cap LeafAddresses = D
  BY <1>1, <1>3
<1>6. CASE a \notin LeafAddresses
  <2>1. \A x \in D : heap'[x].keys = heap[x].keys /\ heap'[x].pointers = heap[x].pointers
    BY <1>2, <1>3, <1>4, <1>6
  <2> QED
    BY <1>1, <1>5, <2>1, LeavesKeepItems
<1>7. CASE a \in LeafAddresses
  <2> DEFINE C == D \ {a}
             B == C \ {nb}
             s == heap[a].keys
             t == heap[a].pointers
             r == heap[nb].keys
             y == heap[nb].pointers
             s2 == heap'[a].keys
             t2 == heap'[a].pointers
             r2 == heap'[nb].keys
             y2 == heap'[nb].pointers
  <2>1. a \in D /\ nb \in C
    BY <1>2, <1>3, <1>7
  <2>2. Len(s) \in Nat /\ Len(t) = Len(s) /\ Len(r) \in Nat /\ Len(y) = Len(r)
    BY <1>3, <2>1, NodeFacts DEF Shape
  <2>3. /\ u \in 1..(Len(s) + 1) /\ w \in 1..Len(r) /\ c = y[z]
        /\ PutIn(s2, s, u, e) /\ PutIn(t2, t, v, c) /\ TakenOut(r2, r, w) /\ TakenOut(y2, y, z)
    BY DEF Redistributed
  <2>4. v = u /\ z = w /\ e = r[w]
    <3>1. CASE FromTheLeft(a, nb, p, q, u, v, w, z, e, k)
      BY <1>7, <2>2, <3>1 DEF FromTheLeft
    <3>2. CASE FromTheRight(a, nb, p, q, u, v, w, z, e, k)
      BY <1>7, <2>2, <3>2 DEF FromTheRight
    <3> QED
      BY <3>1, <3>2
  <2>5. \A x \in B : heap'[x].keys = heap[x].keys /\ heap'[x].pointers = heap[x].pointers
    BY <1>4
  <2>6. Items = Holding(heap, D)
    BY ItemsFacts DEF Shape
  <2> HIDE DEF D
  <2>7. Items' = Holding(heap', D) /\ ItemsLive'
    BY <1>1, <1>5, ItemsNext
  <2> HIDE DEF s, t, r, y, s2, t2, r2, y2
  <2>8. Entries(s2, t2) = Entries(s, t) \cup {<<e, c>>}
    BY <2>2, <2>3, <2>4, EntriesPutIn
  <2>9. Entries(r, y) = Entries(r2, y2) \cup {<<r[w], y[w]>>}
    BY <2>2, <2>3, <2>4, EntriesTakenOut
  <2>10. Holding(heap, D) = Holding(heap, C) \cup Entries(s, t)
    BY <2>1, HoldingWithout DEF s, t
  <2>11. Holding(heap', D) = Holding(heap', C) \cup Entries(s2, t2)
    BY <2>1, HoldingWithout DEF s2, t2
  <2> HIDE DEF C
  <2>12. Holding(heap, C) = Holding(heap, B) \cup Entries(r, y)
    BY <2>1, HoldingWithout DEF r, y
  <2>13. Holding(heap', C) = Holding(heap', B) \cup Entries(r2, y2)
    BY <2>1, HoldingWithout DEF r2, y2
  <2> HIDE DEF B
  <2>14. Holding(heap', B) = Holding(heap, B)
    BY <2>5, HoldingSame
  <2>15. <<e, c>> = <<r[w], y[w]>>
    BY <2>3, <2>4
  <2> QED
    BY <2>6, <2>7, <2>8, <2>9, <2>10, <2>11, <2>12, <2>13, <2>14, <2>15
<1> QED
  BY <1>6, <1>7

\* destroy_tree removes every item, and frees every record of the leaves.
LEMMA DestroyTreeRemoves ==
    ASSUME Shape, TypeOK', DestroyTree
    PROVE  /\ Items' = {} /\ ItemsLive' /\ records' = records \ Stored
           /\ root' = Null /\ DOMAIN heap' = {} /\ todo' = NoCall
<1>1. /\ DOMAIN heap' = {} /\ todo' = NoCall /\ root' = Null
      /\ records' = records \ UNION {ToSet(heap[a].pointers) : a \in {b \in DOMAIN heap : heap[b].leaf}}
  BY DEF DestroyTree
<1>2. Items' = Holding(heap', {}) /\ ItemsLive'
  BY <1>1, ItemsNext
<1> QED
  BY <1>1, <1>2 DEF Holding, Stored, Leaves

-----------------------------------------------------------------------------
(* What each action does to the items, the records and the bounds          *)

\* Nothing of the tree changes.
LEMMA SameTree ==
    ASSUME heap' = heap, root' = root, todo' = todo
    PROVE  Items' = Items /\ ItemsLive' = ItemsLive /\ Stored' = Stored /\ (Ordered => Ordered')
<1>1. /\ Splitting' = Splitting /\ Repairing' = Repairing /\ Dead' = Dead
      /\ Live' = Live /\ LiveInner' = LiveInner /\ LiveLeaves' = LiveLeaves /\ Leaves' = Leaves
  BY DEF Splitting, Repairing, Dead, Live, LiveInner, LiveLeaves, Leaves
<1>2. Items' = Items /\ Stored' = Stored
  BY <1>1 DEF Items, Stored
<1>3. ItemsLive' = ItemsLive
  BY <1>1, <1>2 DEF ItemsLive
<1>4. ASSUME NEW lo, NEW hi, Bounded(lo, hi)
      PROVE  Bounded(lo, hi)'
  <2>1. Tops(hi)' = Tops(hi)
    BY <1>1 DEF Tops
  <2>2. NodesBounded(lo, hi)'
    BY <1>1, <1>4, <2>1 DEF Bounded, NodesBounded
  <2>3. EndsBounded(lo, hi)'
    BY <1>1, <1>4, <2>1 DEF Bounded, EndsBounded
  <2>4. LeavesLinked(lo, hi)'
    BY <1>1, <1>4 DEF Bounded, LeavesLinked
  <2> QED
    BY <2>2, <2>3, <2>4 DEF Bounded
<1>5. Ordered => Ordered'
  BY <1>4 DEF Ordered
<1> QED
  BY <1>2, <1>3, <1>5

\* The record r of a key that was not held is added.
Added(k, r) ==
    /\ todo = NoCall /\ find(k) = Null
    /\ Items' = Items \cup {<<k, r>>} /\ records' = records \cup {r}

\* The record of a key that is held is freed, and another one made.
Renewed(k, r) ==
    /\ todo = NoCall /\ find(k) # Null /\ r \notin records
    /\ Items' = Items /\ records' = (records \ {find(k)}) \cup {r}

\* The record of a key is removed.
Removed(k) ==
    /\ todo = NoCall /\ find(k) # Null
    /\ Items' = {e \in Items : e[1] # k} /\ records' = records \ {find(k)}

\* Every record of the leaves is removed.
Emptied == Items' = {} /\ records' = records \ Stored

\* Nothing changes of what the tree holds.
Kept == Items' = Items /\ records' = records

\* start_new_tree, insert_into_leaf and its splitting variant.
LEMMA InsertionAdds ==
    ASSUME Shape, Ordered, NEW k \in Keys, NEW v \in Versions[k],
           StartNewTree(k, v) \/ InsertIntoLeaf(k, v) \/ SplitLeaf(k, v)
    PROVE  TypeOK' /\ Ordered' /\ ItemsLive' /\ Added(k, Record(k, v))
<1> DEFINE r == Record(k, v)
<1>1. PICK lo, hi \in [DOMAIN heap -> Nat] : Bounded(lo, hi)
  BY DEF Ordered
<1>2. CASE StartNewTree(k, v)
  <2>1. TypeOK' /\ \E a : StartedNewTree(k, r, a)
    BY <1>2, StartNewTreeStep
  <2> HIDE DEF r
  <2>2. PICK a : StartedNewTree(k, r, a)
    BY <2>1
  <2>3. Ordered'
    BY <2>2, StartNewTreeKeepsBounds DEF Ordered
  <2>4. Items = {} /\ Items' = {<<k, r>>} /\ ItemsLive'
    BY <2>1, <2>2, StartNewTreeAdds
  <2>5. todo = NoCall /\ root = Null /\ records' = records \cup {r}
    BY <2>2 DEF StartedNewTree
  <2>6. find(k) = Null
    BY <2>5, FindFacts
  <2>7. Added(k, r)
    BY <2>4, <2>5, <2>6 DEF Added
  <2> QED
    BY <2>1, <2>3, <2>4, <2>7 DEF r
<1>3. CASE InsertIntoLeaf(k, v)
  <2>1. TypeOK' /\ \E a, i : InsertedIntoLeaf(k, r, a, i)
    BY <1>3, InsertIntoLeafStep
  <2> HIDE DEF r
  <2>2. PICK a, i : InsertedIntoLeaf(k, r, a, i)
    BY <2>1
  <2>3. Ordered'
    BY <1>1, <2>2, InsertIntoLeafKeepsBounds DEF Ordered
  <2>4. Items' = Items \cup {<<k, r>>} /\ ItemsLive'
    BY <2>1, <2>2, InsertIntoLeafAdds
  <2>5. todo = NoCall /\ find(k) = Null /\ records' = records \cup {r}
    BY <2>2 DEF InsertedIntoLeaf
  <2>6. Added(k, r)
    BY <2>4, <2>5 DEF Added
  <2> QED
    BY <2>1, <2>3, <2>4, <2>6 DEF r
<1>4. CASE SplitLeaf(k, v)
  <2>1. TypeOK' /\ \E a, b, i, ks, ps, m : SplitTheLeaf(k, r, a, b, i, ks, ps, m)
    BY <1>4, SplitLeafStep
  <2> HIDE DEF r
  <2>2. PICK a, b, i, ks, ps, m : SplitTheLeaf(k, r, a, b, i, ks, ps, m)
    BY <2>1
  <2>3. Ordered'
    BY <1>1, <2>2, SplitLeafKeepsBounds DEF Ordered
  <2>4. Items' = Items \cup {<<k, r>>} /\ ItemsLive'
    BY <2>1, <2>2, SplitLeafAdds
  <2>5. todo = NoCall /\ find(k) = Null /\ records' = records \cup {r}
    BY <2>2 DEF SplitTheLeaf
  <2>6. Added(k, r)
    BY <2>4, <2>5 DEF Added
  <2> QED
    BY <2>1, <2>3, <2>4, <2>6 DEF r
<1> QED
  BY <1>2, <1>3, <1>4

\* insert of a key that is held.
LEMMA DuplicateRenews ==
    ASSUME Shape, Ordered, ItemsLive, NEW k \in Keys, NEW v \in Versions[k], InsertDuplicate(k, v)
    PROVE  TypeOK' /\ Ordered' /\ ItemsLive' /\ Renewed(k, Record(k, v))
<1>1. /\ heap' = heap /\ root' = root /\ todo' = todo
      /\ todo = NoCall /\ find(k) # Null /\ Record(k, v) \notin records
      /\ records' = (records \ {find(k)}) \cup {Record(k, v)}
  BY DEF InsertDuplicate
<1>2. Items' = Items /\ ItemsLive' /\ Ordered'
  BY <1>1, SameTree
<1>3. TypeOK'
  BY InsertDuplicateKeepsShape, PTL DEF Shape
<1> QED
  BY <1>1, <1>2, <1>3 DEF Renewed

\* The steps that put a split into the parents keep the items.
LEMMA ParentsKeep ==
    ASSUME Shape, Ordered, ItemsLive, InsertIntoNewRoot \/ InsertIntoNode \/ SplitNode
    PROVE  TypeOK' /\ Ordered' /\ ItemsLive' /\ Kept
<1>1. PICK lo, hi \in [DOMAIN heap -> Nat] : Bounded(lo, hi)
  BY DEF Ordered
<1>2. CASE InsertIntoNewRoot
  <2>1. TypeOK' /\ NodesTyped(heap')
    BY <1>2, InsertIntoNewRootStep
  <2>2. PICK a : InsertedIntoNewRoot(a)
    BY <1>2, InsertIntoNewRootStep
  <2>3. Ordered'
    BY <1>1, <2>1, <2>2, InsertIntoNewRootKeepsBounds DEF Ordered
  <2>4. Items' = Items /\ ItemsLive'
    BY <2>1, <2>2, InsertIntoNewRootKeepsItems
  <2> QED
    BY <2>1, <2>2, <2>3, <2>4 DEF Kept, InsertedIntoNewRoot
<1>3. CASE InsertIntoNode
  <2>1. TypeOK'
    BY <1>3, InsertIntoNodeStep
  <2>2. PICK p, i : InsertedIntoNode(p, i)
    BY <1>3, InsertIntoNodeStep
  <2>3. Ordered'
    BY <1>1, <2>2, InsertIntoNodeKeepsBounds DEF Ordered
  <2>4. Items' = Items /\ ItemsLive'
    BY <2>1, <2>2, InsertIntoNodeKeepsItems
  <2> QED
    BY <2>1, <2>2, <2>3, <2>4 DEF Kept, InsertedIntoNode
<1>4. CASE SplitNode
  <2>1. TypeOK'
    BY <1>4, SplitNodeStep
  <2>2. PICK p, b, i, ks, ps, m : SplitTheNode(p, b, i, ks, ps, m)
    BY <1>4, SplitNodeStep
  <2>3. Ordered'
    BY <1>1, <2>2, SplitNodeKeepsBounds DEF Ordered
  <2>4. Items' = Items /\ ItemsLive'
    BY <2>1, <2>2, SplitNodeKeepsItems
  <2> QED
    BY <2>1, <2>2, <2>3, <2>4 DEF Kept, SplitTheNode
<1> QED
  BY <1>2, <1>3, <1>4

\* del.
LEMMA DeletionRemoves ==
    ASSUME Shape, Ordered, RecordsOfKeys, NEW k \in Keys, Delete(k)
    PROVE  TypeOK' /\ Ordered' /\ ItemsLive' /\ Removed(k)
<1>1. PICK lo, hi \in [DOMAIN heap -> Nat] : Bounded(lo, hi)
  BY DEF Ordered
<1>2. TypeOK'
  BY DeleteStep
<1>3. PICK a, i, j : DeletedFromLeaf(k, a, i, j)
  BY DeleteStep
<1>4. Ordered'
  BY <1>1, <1>3, DeleteKeepsBounds DEF Ordered
<1>5. Items' = {e \in Items : e[1] # k} /\ ItemsLive'
  BY <1>1, <1>2, <1>3, DeleteRemoves
<1>6. todo = NoCall /\ find(k) # Null /\ records' = records \ {find(k)}
  BY DEF Delete
<1> QED
  BY <1>2, <1>4, <1>5, <1>6 DEF Removed

\* The steps that mend the nodes after a deletion keep the items.
LEMMA RepairsKeep ==
    ASSUME Shape, Ordered, ItemsLive,
           KeepNode \/ AdjustRoot \/ Coalesce \/ RedistributeFromLeft \/ RedistributeFromRight
    PROVE  TypeOK' /\ Ordered' /\ ItemsLive' /\ Kept
<1>1. PICK lo, hi \in [DOMAIN heap -> Nat] : Bounded(lo, hi)
  BY DEF Ordered
<1>2. ASSUME TypeOK', RepairEnded
      PROVE  Ordered' /\ ItemsLive' /\ Kept
  <2>1. Ordered'
    BY <1>1, <1>2, RepairEndedKeepsBounds DEF Ordered
  <2>2. Items' = Items /\ ItemsLive'
    BY <1>2, RepairEndedKeepsItems
  <2> QED
    BY <1>2, <2>1, <2>2 DEF Kept, RepairEnded
<1>3. CASE KeepNode
  BY <1>2, <1>3, KeepNodeStep
<1>4. CASE AdjustRoot
  <2>1. TypeOK' /\ (RepairEnded \/ (\E c : RootLowered(c)) \/ TreeEmptied)
    BY <1>4, AdjustRootStep
  <2>2. CASE RepairEnded
    BY <1>2, <2>1, <2>2
  <2>3. CASE \E c : RootLowered(c)
    <3>1. PICK c : RootLowered(c)
      BY <2>3
    <3>2. Ordered'
      BY <1>1, <3>1, RootLoweredKeepsBounds DEF Ordered
    <3>3. Items' = Items /\ ItemsLive'
      BY <2>1, <3>1, RootLoweredKeepsItems
    <3> QED
      BY <2>1, <3>1, <3>2, <3>3 DEF Kept, RootLowered
  <2>4. CASE TreeEmptied
    <3>1. root' = Null /\ DOMAIN heap' = {} /\ todo' = NoCall /\ records' = records
      BY <2>4 DEF TreeEmptied
    <3>2. Ordered'
      BY <3>1, EmptiedBounds DEF Ordered
    <3>3. Items' = Items /\ ItemsLive'
      BY <2>1, <2>4, TreeEmptiedKeepsItems
    <3> QED
      BY <2>1, <3>1, <3>2, <3>3 DEF Kept
  <2> QED
    BY <2>1, <2>2, <2>3, <2>4
<1>5. CASE Coalesce
  <2>1. TypeOK'
    BY <1>5, CoalesceStep
  <2>2. PICK a, nb, p, q, to, from, o : Coalesced(a, nb, p, q, to, from, o)
    BY <1>5, CoalesceStep
  <2>3. Ordered'
    BY <1>1, <2>2, CoalesceKeepsBounds DEF Ordered
  <2>4. Items' = Items /\ ItemsLive'
    BY <2>1, <2>2, CoalesceKeepsItems
  <2> QED
    BY <2>1, <2>2, <2>3, <2>4 DEF Kept, Coalesced
<1>6. ASSUME TypeOK', NEW a, NEW nb, NEW p, NEW q, NEW u, NEW v, NEW w, NEW z, NEW e, NEW c, NEW s,
             Redistributed(a, nb, p, q, u, v, w, z, e, c, s),
             FromTheLeft(a, nb, p, q, u, v, w, z, e, s) \/ FromTheRight(a, nb, p, q, u, v, w, z, e, s)
      PROVE  Ordered' /\ ItemsLive' /\ Kept
  <2>1. Ordered'
    BY <1>1, <1>6, RedistributeKeepsBounds DEF Ordered
  <2>2. Items' = Items /\ ItemsLive'
    BY <1>6, RedistributeKeepsItems
  <2> QED
    BY <1>6, <2>1, <2>2 DEF Kept, Redistributed
<1>7. CASE RedistributeFromLeft
  <2>1. TypeOK'
    BY <1>7, RedistributeFromLeftStep
  <2>2. PICK a, nb, p, q, u, v, w, z, e, c, s :
           /\ Redistributed(a, nb, p, q, u, v, w, z, e, c, s)
           /\ FromTheLeft(a, nb, p, q, u, v, w, z, e, s)
    BY <1>7, RedistributeFromLeftStep
  <2> QED
    BY <1>6, <2>1, <2>2
<1>8. CASE RedistributeFromRight
  <2>1. TypeOK'
    BY <1>8, RedistributeFromRightStep
  <2>2. PICK a, nb, p, q, u, v, w, z, e, c, s :
           /\ Redistributed(a, nb, p, q, u, v, w, z, e, c, s)
           /\ FromTheRight(a, nb, p, q, u, v, w, z, e, s)
    BY <1>8, RedistributeFromRightStep
  <2> QED
    BY <1>6, <2>1, <2>2
<1> QED
  BY <1>3, <1>4, <1>5, <1>7, <1>8

\* destroy_tree.
LEMMA DestructionEmpties ==
    ASSUME Shape, DestroyTree
    PROVE  TypeOK' /\ Ordered' /\ ItemsLive' /\ Emptied
<1>1. TypeOK'
  BY DestroyTreeKeepsShape, PTL DEF Shape
<1>2. /\ Items' = {} /\ ItemsLive' /\ records' = records \ Stored
      /\ root' = Null /\ DOMAIN heap' = {} /\ todo' = NoCall
  BY <1>1, DestroyTreeRemoves
<1>3. Ordered'
  BY <1>2, EmptiedBounds DEF Ordered
<1> QED
  BY <1>1, <1>2, <1>3 DEF Emptied

-----------------------------------------------------------------------------
(* The records of the keys                                                 *)

\* The one record of a key that is made in one version only.
LEMMA OnlyRecord ==
    ASSUME NEW k \in Keys, Cardinality(Versions[k]) = 1,
           NEW v \in Versions[k], NEW r \in Pairs, r[1] = k
    PROVE  r = Record(k, v)
<1>1. PICK k1 \in Keys : \E v1 \in Versions[k1] : r = Record(k1, v1)
  BY DEF Pairs
<1>2. PICK v1 \in Versions[k1] : r = Record(k1, v1)
  BY <1>1
<1>3. k1 = k
  BY <1>2 DEF Record
<1>4. IsFiniteSet(Versions[k])
  BY TreeAssumption
<1>5. PICK x : Versions[k] = {x}
  BY <1>4, FS_CardinalityType, FS_Singleton
<1> QED
  BY <1>2, <1>3, <1>5

\* The items and the records of the leaves.
LEMMA StoredFacts ==
    ASSUME Shape, Ordered, RecordsOfKeys, todo = NoCall
    PROVE  /\ \A e \in Items : e = <<e[1], e[2]>> /\ e[1] \in Keys /\ e[2] \in Pairs /\ e[2][1] = e[1]
                               /\ find(e[1]) = e[2] /\ e[2] # Null
           /\ Stored = {e[2] : e \in Items}
           /\ \A r \in Stored : r \in Pairs /\ r[1] \in Keys /\ find(r[1]) = r /\ r # Null /\ <<r[1], r>> \in Items
           /\ \A k \in Keys : find(k) # Null => <<k, find(k)>> \in Items /\ find(k) \in Stored /\ find(k)[1] = k
<1>1. PICK lo, hi \in [DOMAIN heap -> Nat] : Bounded(lo, hi)
  BY DEF Ordered
<1>2. \A e \in Items : e[1] \in Keys /\ e[2] \in Pairs /\ e = <<e[1], e[2]>> /\ find(e[1]) = e[2] /\ e[2] # Null
  BY <1>1, FindsItems
<1>3. \A e \in Items : e[2][1] = e[1]
  BY DEF RecordsOfKeys
<1>4. Stored = {e[2] : e \in Items}
  BY ItemsFacts DEF Shape
<1>5. \A k \in Keys : find(k) # Null => <<k, find(k)>> \in Items
  BY <1>1, FindsItems
<1>6. ASSUME NEW k \in Keys, find(k) # Null
      PROVE  find(k) \in Stored /\ find(k)[1] = k
  <2> DEFINE e == <<k, find(k)>>
  <2>1. e \in Items /\ e[1] = k /\ e[2] = find(k)
    BY <1>5, <1>6
  <2> HIDE DEF e
  <2> QED
    BY <1>3, <1>4, <2>1
<1>7. ASSUME NEW r \in Stored
      PROVE  r \in Pairs /\ r[1] \in Keys /\ find(r[1]) = r /\ r # Null /\ <<r[1], r>> \in Items
  <2>1. PICK e \in Items : r = e[2]
    BY <1>4
  <2> QED
    BY <1>2, <1>3, <2>1
<1> QED
  BY <1>2, <1>3, <1>4, <1>5, <1>6, <1>7

\* A record that is added is stored.
LEMMA AddedKeepsRecords ==
    ASSUME Shape, RecordsOfKeys, RecordsStored, TypeOK',
           NEW k \in Keys, NEW r, r[1] = k, Added(k, r)
    PROVE  RecordsOfKeys' /\ RecordsStored'
<1>1. Items' = Items \cup {<<k, r>>} /\ records' = records \cup {r}
  BY DEF Added
<1>2. Stored = {e[2] : e \in Items} /\ Stored' = {e[2] : e \in Items'}
  BY ItemsFacts, ItemsFactsNext DEF Shape
<1>3. Stored' = Stored \cup {r}
  <2> DEFINE n == <<k, r>>
  <2>1. n[2] = r /\ Items' = Items \cup {n}
    BY <1>1
  <2> HIDE DEF n
  <2>2. \A x : x \in Stored' <=> \E e \in Items \cup {n} : x = e[2]
    BY <1>2, <2>1
  <2>3. \A x : x \in Stored' <=> x \in Stored \cup {r}
    BY <1>2, <2>1, <2>2
  <2> QED
    BY <2>3
<1>4. RecordsOfKeys'
  BY <1>1 DEF RecordsOfKeys
<1>5. RecordsStored'
  BY <1>1, <1>3 DEF RecordsStored
<1> QED
  BY <1>4, <1>5

\* The pointer to the record that is freed stays only for a key that is made in
\* several versions.
LEMMA RenewedKeepsRecords ==
    ASSUME Shape, Ordered, RecordsOfKeys, RecordsStored, TypeOK',
           NEW k \in Keys, NEW v \in Versions[k], Renewed(k, Record(k, v))
    PROVE  RecordsOfKeys' /\ RecordsStored'
<1> DEFINE r == Record(k, v)
           o == find(k)
<1>1. /\ todo = NoCall /\ o # Null /\ r \notin records
      /\ Items' = Items /\ records' = (records \ {o}) \cup {r}
  BY DEF Renewed
<1>2. Stored = {e[2] : e \in Items} /\ Stored' = {e[2] : e \in Items'}
  BY ItemsFacts, ItemsFactsNext DEF Shape
<1>3. o \in Stored /\ o[1] = k /\ o \in Pairs /\ r[1] = k
  BY <1>1, StoredFacts, RecordFacts
<1>4. Stored' = Stored
  BY <1>1, <1>2
<1>5. Cardinality(Versions[k]) # 1
  <2> SUFFICES ASSUME Cardinality(Versions[k]) = 1 PROVE FALSE
    OBVIOUS
  <2>1. o = r
    BY <1>3, OnlyRecord
  <2>2. o \in records
    BY <1>3 DEF RecordsStored
  <2> QED
    BY <1>1, <2>1, <2>2
<1> HIDE DEF r, o
<1>6. RecordsOfKeys'
  BY <1>1 DEF RecordsOfKeys
<1>7. ASSUME NEW x \in Stored' \cup records', Cardinality(Versions[x[1]]) = 1
      PROVE  x \in Stored' /\ x \in records'
  <2>1. x # r /\ x # o
    BY <1>3, <1>5, <1>7
  <2>2. x \in Stored \cup records
    BY <1>1, <1>4, <2>1
  <2>3. x \in Stored /\ x \in records
    BY <1>7, <2>2 DEF RecordsStored
  <2> QED
    BY <1>1, <1>4, <2>1, <2>3
<1>8. RecordsStored'
  BY <1>7 DEF RecordsStored
<1> QED
  BY <1>6, <1>8

\* The record that is freed is the one that is no longer stored.
LEMMA RemovedKeepsRecords ==
    ASSUME Shape, Ordered, RecordsOfKeys, RecordsStored, TypeOK', NEW k \in Keys, Removed(k)
    PROVE  RecordsOfKeys' /\ RecordsStored'
<1> DEFINE o == find(k)
<1>1. /\ todo = NoCall /\ o # Null
      /\ Items' = {e \in Items : e[1] # k} /\ records' = records \ {o}
  BY DEF Removed
<1>2. Stored = {e[2] : e \in Items} /\ Stored' = {e[2] : e \in Items'}
  BY ItemsFacts, ItemsFactsNext DEF Shape
<1>3. \A x \in Stored : <<x[1], x>> \in Items /\ find(x[1]) = x
  BY <1>1, StoredFacts
<1>4. \A e \in Items : e[2][1] = e[1]
  BY DEF RecordsOfKeys
<1>5. o \in Stored /\ o[1] = k
  BY <1>1, StoredFacts
<1>6. \A x \in Stored : x[1] = k => x = o
  BY <1>3
<1> HIDE DEF o
<1>7. ASSUME NEW x
      PROVE  x \in Stored' <=> x \in Stored /\ x[1] # k
  <2>1. ASSUME x \in Stored' PROVE x \in Stored /\ x[1] # k
    <3>1. PICK e \in Items' : x = e[2]
      BY <1>2, <2>1
    <3>2. e \in Items /\ e[1] # k
      BY <1>1, <3>1
    <3> QED
      BY <1>2, <1>4, <3>1, <3>2
  <2>2. ASSUME x \in Stored, x[1] # k PROVE x \in Stored'
    <3> DEFINE e == <<x[1], x>>
    <3>1. e \in Items /\ e[1] = x[1] /\ e[2] = x
      BY <1>3, <2>2
    <3> HIDE DEF e
    <3>2. e \in Items'
      BY <1>1, <2>2, <3>1
    <3> QED
      BY <1>2, <3>1, <3>2
  <2> QED
    BY <2>1, <2>2
<1>8. RecordsOfKeys'
  BY <1>1, <1>4 DEF RecordsOfKeys
<1>9. ASSUME NEW x \in Stored' \cup records', Cardinality(Versions[x[1]]) = 1
      PROVE  x \in Stored' /\ x \in records'
  <2>1. x \in Stored \cup records
    BY <1>1, <1>7
  <2>2. x \in Stored /\ x \in records
    BY <1>9, <2>1 DEF RecordsStored
  <2>3. x # o
    BY <1>1, <1>5, <1>7, <1>9
  <2>4. x[1] # k
    BY <1>6, <2>2, <2>3
  <2> QED
    BY <1>1, <1>7, <2>2, <2>3, <2>4
<1>10. RecordsStored'
  BY <1>9 DEF RecordsStored
<1> QED
  BY <1>8, <1>10

\* The items stay as they are, or all go with their records.
LEMMA OthersKeepRecords ==
    ASSUME Shape, RecordsOfKeys, RecordsStored, TypeOK', Kept \/ Emptied
    PROVE  RecordsOfKeys' /\ RecordsStored'
<1>1. Stored = {e[2] : e \in Items} /\ Stored' = {e[2] : e \in Items'}
  BY ItemsFacts, ItemsFactsNext DEF Shape
<1>2. CASE Kept
  <2>1. Items' = Items /\ records' = records
    BY <1>2 DEF Kept
  <2>2. Stored' = Stored
    BY <1>1, <2>1
  <2> QED
    BY <2>1, <2>2 DEF RecordsOfKeys, RecordsStored
<1>3. CASE Emptied
  <2>1. Items' = {} /\ records' = records \ Stored
    BY <1>3 DEF Emptied
  <2>2. Stored' = {}
    BY <1>1, <2>1
  <2>3. \A r \in records' : Cardinality(Versions[r[1]]) # 1
    BY <2>1 DEF RecordsStored
  <2> QED
    BY <2>1, <2>2, <2>3 DEF RecordsOfKeys, RecordsStored
<1> QED
  BY <1>2, <1>3

-----------------------------------------------------------------------------
(* The theorems                                                            *)

\* What a step of the tree does to the items it holds.
Effect ==
    \/ \E k \in Keys : \E v \in Versions[k] : Added(k, Record(k, v)) \/ Renewed(k, Record(k, v))
    \/ \E k \in Keys : Removed(k)
    \/ Emptied \/ Kept

\* Every action has one of the five effects, and keeps the bounds.
LEMMA StepEffect ==
    ASSUME Shape, Sorted, Next
    PROVE  TypeOK' /\ Ordered' /\ ItemsLive' /\ Effect
<1>1. Ordered /\ RecordsOfKeys /\ ItemsLive
  BY DEF Sorted
<1>2. ASSUME NEW k \in Keys, NEW v \in Versions[k],
             InsertDuplicate(k, v) \/ StartNewTree(k, v) \/ InsertIntoLeaf(k, v) \/ SplitLeaf(k, v)
      PROVE  TypeOK' /\ Ordered' /\ ItemsLive' /\ Effect
  BY <1>1, <1>2, InsertionAdds, DuplicateRenews DEF Effect
<1>3. CASE InsertIntoNewRoot \/ InsertIntoNode \/ SplitNode
  BY <1>1, <1>3, ParentsKeep DEF Effect
<1>4. CASE \E k \in Keys : Delete(k)
  BY <1>1, <1>4, DeletionRemoves DEF Effect
<1>5. CASE KeepNode \/ AdjustRoot \/ Coalesce \/ RedistributeFromLeft \/ RedistributeFromRight
  BY <1>1, <1>5, RepairsKeep DEF Effect
<1>6. CASE DestroyTree
  BY <1>6, DestructionEmpties DEF Effect
<1> QED
  BY <1>2, <1>3, <1>4, <1>5, <1>6 DEF Next

\* In every state of the tree, in the middle of a call, too, there are bounds
\* that put each key where the keys of the inner nodes lead, and the leaves
\* pair each key with its own record.
THEOREM AlwaysSorted == Spec => []Sorted
<1>1. Init => Sorted
  <2> SUFFICES ASSUME Init PROVE Sorted
    OBVIOUS
  <2>1. DOMAIN heap = {} /\ root = Null /\ records = {} /\ todo = NoCall
    BY DEF Init
  <2>2. Live = {} /\ LiveLeaves = {} /\ LiveInner = {} /\ ~Splitting /\ Leaves = {}
    BY <2>1, BetweenCalls DEF LiveLeaves, Leaves
  <2>3. Items = {} /\ Stored = {}
    BY <2>2 DEF Items, Stored
  <2>4. [x \in DOMAIN heap |-> 0] \in [DOMAIN heap -> Nat]
    OBVIOUS
  <2>5. \A lo, hi : Bounded(lo, hi)
    BY <2>1, <2>2 DEF Bounded, NodesBounded, EndsBounded, LeavesLinked
  <2>6. Ordered
    BY <2>4, <2>5 DEF Ordered
  <2> QED
    BY <2>1, <2>3, <2>6 DEF Sorted, RecordsOfKeys, ItemsLive, RecordsStored
<1>2. Shape /\ Sorted /\ [Next]_vars => Sorted'
  <2> SUFFICES ASSUME Shape, Sorted, [Next]_vars PROVE Sorted'
    OBVIOUS
  <2>1. Ordered /\ RecordsOfKeys /\ ItemsLive /\ RecordsStored
    BY DEF Sorted
  <2>2. CASE UNCHANGED vars
    <3>1. heap' = heap /\ root' = root /\ records' = records /\ todo' = todo
      BY <2>2 DEF vars
    <3>2. Items' = Items /\ ItemsLive' /\ Stored' = Stored /\ Ordered'
      BY <2>1, <3>1, SameTree
    <3> QED
      BY <2>1, <3>1, <3>2 DEF Sorted, RecordsOfKeys, RecordsStored
  <2>3. CASE Next
    <3>1. TypeOK' /\ Ordered' /\ ItemsLive' /\ Effect
      BY <2>3, StepEffect
    <3>2. RecordsOfKeys' /\ RecordsStored'
      <4>1. CASE \E k \in Keys : \E v \in Versions[k] : Added(k, Record(k, v))
        BY <2>1, <3>1, <4>1, RecordFacts, AddedKeepsRecords
      <4>2. CASE \E k \in Keys : \E v \in Versions[k] : Renewed(k, Record(k, v))
        BY <2>1, <3>1, <4>2, RenewedKeepsRecords
      <4>3. CASE \E k \in Keys : Removed(k)
        BY <2>1, <3>1, <4>3, RemovedKeepsRecords
      <4>4. CASE Kept \/ Emptied
        BY <2>1, <3>1, <4>4, OthersKeepRecords
      <4> QED
        BY <3>1, <4>1, <4>2, <4>3, <4>4 DEF Effect
    <3> QED
      BY <3>1, <3>2 DEF Sorted
  <2> QED
    BY <2>2, <2>3
<1> QED
  BY <1>1, <1>2, ShapeKept, PTL DEF Spec

\* Between calls find finds each record of the leaves, and of the keys that are
\* made in one version the leaves point to just the records allocated.
THEOREM RecordsAlwaysFound == Spec => []EveryRecordFound
<1>1. Shape /\ Sorted => EveryRecordFound
  <2> SUFFICES ASSUME Shape, Sorted, todo = NoCall
               PROVE  /\ \A r \in Stored : find(r[1]) = r
                      /\ \A r \in Stored \cup records :
                            Cardinality(Versions[r[1]]) = 1 => r \in Stored \cap records
    BY DEF EveryRecordFound
  <2>1. \A r \in Stored : find(r[1]) = r
    BY StoredFacts DEF Sorted
  <2> QED
    BY <2>1 DEF Sorted, RecordsStored
<1> QED
  BY <1>1, ShapeKept, AlwaysSorted, PTL

\* The tree implements an index of records by key: each insertion, deletion and
\* destruction takes effect in one step, and no other step has any.
THEOREM TreeImplementsIndex == Spec => ImplementsIndex
<1>1. Init => Index!Init
  BY DEF Init, Index!Init, Items, Leaves
<1>2. Shape /\ Sorted /\ [Next]_vars => [Index!Next]_Items
  <2> SUFFICES ASSUME Shape, Sorted, [Next]_vars, Items' # Items
               PROVE  Index!Next
    OBVIOUS
  <2>1. Next
    <3>1. CASE UNCHANGED vars
      BY <3>1, SameTree DEF vars
    <3> QED
      BY <3>1
  <2>2. Effect
    BY <2>1, StepEffect
  <2>3. ASSUME NEW k \in Keys, NEW v \in Versions[k], Added(k, Record(k, v))
        PROVE  Index!Insert(k, v)
    <3>1. todo = NoCall /\ find(k) = Null /\ Items' = Items \cup {<<k, Record(k, v)>>}
      BY <2>3 DEF Added
    <3>2. \A e \in Items : find(e[1]) = e[2] /\ e[2] # Null
      BY <3>1, StoredFacts DEF Sorted
    <3>3. ~Index!Holds(k)
      BY <3>1, <3>2 DEF Index!Holds
    <3> QED
      BY <3>1, <3>3 DEF Index!Insert, Index!Record, Record
  <2>4. ASSUME NEW k \in Keys, Removed(k)
        PROVE  Index!Delete(k)
    <3>1. todo = NoCall /\ find(k) # Null /\ Items' = {e \in Items : e[1] # k}
      BY <2>4 DEF Removed
    <3>2. <<k, find(k)>> \in Items
      BY <3>1, StoredFacts DEF Sorted
    <3>3. Index!Holds(k)
      BY <3>2 DEF Index!Holds
    <3> QED
      BY <3>1, <3>3 DEF Index!Delete
  <2>5. CASE Emptied
    BY <2>5 DEF Emptied, Index!Next, Index!Destroy
  <2>6. ~Kept /\ \A k, r : ~Renewed(k, r)
    BY DEF Kept, Renewed
  <2> QED
    BY <2>2, <2>3, <2>4, <2>5, <2>6 DEF Effect, Index!Next
<1>3. Spec => Index!Init /\ [][Index!Next]_Items
  BY <1>1, <1>2, ShapeKept, AlwaysSorted, PTL DEF Spec
<1> QED
  BY <1>3 DEF ImplementsIndex, Index!Spec

-----------------------------------------------------------------------------
(* A chain of sequences                                                    *)

\* Two ascending sequences of numbers, the second of larger ones, ascend one
\* after the other.
LEMMA AscendingJoined ==
    ASSUME NEW s \in Seq(Nat), NEW u \in Seq(Nat), Ascending(s), Ascending(u),
           \A i \in 1..Len(s) : \A j \in 1..Len(u) : s[i] < u[j]
    PROVE  /\ s \o u \in Seq(Nat) /\ Ascending(s \o u)
           /\ \A n : Contains(s \o u, n) <=> Contains(s, n) \/ Contains(u, n)
<1> DEFINE t == s \o u
<1>1. Len(s) \in Nat /\ Len(u) \in Nat /\ t \in Seq(Nat)
  OBVIOUS
<1>2. Joined(t, s, u)
  BY SequencesMade
<1> HIDE DEF t
<1>3. /\ Len(t) = Len(s) + Len(u)
      /\ \A j \in 1..Len(s) : t[j] = s[j] /\ j \in 1..Len(t)
      /\ \A j \in 1..Len(u) : t[Len(s) + j] = u[j] /\ Len(s) + j \in 1..Len(t)
      /\ \A j \in 1..Len(t) :
            \/ j \in 1..Len(s) /\ t[j] = s[j]
            \/ j > Len(s) /\ j - Len(s) \in 1..Len(u) /\ t[j] = u[j - Len(s)]
  BY <1>1, <1>2, JoinedElements
<1>4. Ascending(t)
  <2> SUFFICES ASSUME NEW i \in 1..Len(t), NEW j \in 1..Len(t), i < j PROVE t[i] < t[j]
    BY DEF Ascending
  <2>1. CASE j <= Len(s)
    <3>1. i \in 1..Len(s) /\ j \in 1..Len(s) /\ t[i] = s[i] /\ t[j] = s[j]
      BY SMTT(30), <1>1, <1>3, <2>1
    <3> QED
      BY <3>1 DEF Ascending
  <2>2. CASE i > Len(s)
    <3>1. /\ i - Len(s) \in 1..Len(u) /\ j - Len(s) \in 1..Len(u) /\ i - Len(s) < j - Len(s)
          /\ t[i] = u[i - Len(s)] /\ t[j] = u[j - Len(s)]
      BY SMTT(30), <1>1, <1>3, <2>2
    <3> QED
      BY <3>1 DEF Ascending
  <2>3. CASE i <= Len(s) /\ j > Len(s)
    <3>1. /\ i \in 1..Len(s) /\ j - Len(s) \in 1..Len(u)
          /\ t[i] = s[i] /\ t[j] = u[j - Len(s)]
      BY <1>1, <1>3, <2>3
    <3> QED
      BY <3>1
  <2> QED
    BY <1>1, <2>1, <2>2, <2>3
<1>5. ASSUME NEW n PROVE Contains(t, n) <=> Contains(s, n) \/ Contains(u, n)
  <2>1. Contains(t, n) => Contains(s, n) \/ Contains(u, n)
    BY <1>3 DEF Contains
  <2>2. Contains(s, n) => Contains(t, n)
    BY <1>3 DEF Contains
  <2>3. Contains(u, n) => Contains(t, n)
    BY <1>3 DEF Contains
  <2> QED
    BY <2>1, <2>2, <2>3
<1> QED
  BY <1>1, <1>4, <1>5 DEF t

\* A sequence that ascends has as many elements as places.
LEMMA AscendingElements ==
    ASSUME NEW s \in Seq(Nat), Ascending(s)
    PROVE  /\ \A n : n \in ToSet(s) <=> Contains(s, n)
           /\ Len(s) = Cardinality(ToSet(s))
<1>1. Len(s) \in Nat /\ ToSet(s) = {s[i] : i \in 1..Len(s)} /\ \A i \in 1..Len(s) : s[i] \in Nat
  BY ElementsOf
<1> DEFINE f == [i \in 1..Len(s) |-> s[i]]
<1>2. f \in Bijection(1..Len(s), ToSet(s))
  <2>1. f \in [1..Len(s) -> ToSet(s)]
    BY <1>1
  <2>2. ASSUME NEW i \in 1..Len(s), NEW j \in 1..Len(s), f[i] = f[j] PROVE i = j
    <3>1. i \in Int /\ j \in Int /\ s[i] = s[j] /\ s[i] \in Nat
      BY <1>1, <2>2
    <3>2. ~(i < j) /\ ~(j < i)
      BY <3>1 DEF Ascending
    <3> QED
      BY <3>1, <3>2
  <2>3. \A x \in ToSet(s) : \E i \in 1..Len(s) : f[i] = x
    BY <1>1
  <2> QED
    BY <2>1, <2>2, <2>3 DEF Bijection, Injection, Surjection, IsInjective
<1>3. ExistsBijection(1..Len(s), ToSet(s))
  BY <1>2 DEF ExistsBijection
<1>4. IsFiniteSet(1..Len(s)) /\ Cardinality(1..Len(s)) = Len(s)
  BY <1>1, FS_Interval
<1>5. Cardinality(ToSet(s)) = Len(s)
  BY <1>3, <1>4, FS_Bijection
<1>6. \A n : n \in ToSet(s) <=> Contains(s, n)
  BY <1>1 DEF Contains
<1> QED
  BY <1>5, <1>6

\* Sequences of numbers at the places L, each linked to the next: the place
\* linked to is the next one up by lo, and the sequence at a place ascends
\* between the lo of this place and that of the next.
Chain(L, Stop, run, next, lo) ==
    /\ IsFiniteSet(L) /\ Stop \notin L
    /\ run \in [L -> Seq(Nat)] /\ next \in [L -> L \cup {Stop}]
    /\ \A a \in L :
        /\ lo[a] \in Nat
        /\ Ascending(run[a]) /\ \A n \in Nat : Contains(run[a], n) => lo[a] <= n
        /\ next[a] # Stop => /\ lo[a] < lo[next[a]]
                             /\ \A n \in Nat : Contains(run[a], n) => n < lo[next[a]]
        /\ \A c \in L : /\ lo[c] = lo[a] => c = a
                        /\ lo[a] < lo[c] => next[a] # Stop /\ lo[next[a]] <= lo[c]

\* The places from a place on.
Upward(L, lo, a) == {c \in L : lo[a] <= lo[c]}

\* Past a place there are fewer.
LEMMA FewerUpward ==
    ASSUME NEW L, NEW Stop, NEW run, NEW next, NEW lo, Chain(L, Stop, run, next, lo)
    PROVE  /\ \A a \in L : /\ Cardinality(Upward(L, lo, a)) \in Nat /\ Cardinality(Upward(L, lo, a)) > 0
                           /\ Cardinality(Upward(L, lo, a)) <= Cardinality(L)
           /\ \A a \in L : next[a] # Stop =>
                 /\ next[a] \in L
                 /\ Cardinality(Upward(L, lo, next[a])) < Cardinality(Upward(L, lo, a))
           /\ Cardinality(L) \in Nat
<1>1. IsFiniteSet(L) /\ \A a \in L : lo[a] \in Nat
  BY DEF Chain
<1>2. ASSUME NEW a \in L
      PROVE  /\ IsFiniteSet(Upward(L, lo, a)) /\ Cardinality(Upward(L, lo, a)) \in Nat
             /\ Cardinality(Upward(L, lo, a)) > 0 /\ Cardinality(Upward(L, lo, a)) <= Cardinality(L)
  <2> DEFINE U == Upward(L, lo, a)
  <2>1. U \in SUBSET L /\ a \in U
    BY <1>1 DEF Upward
  <2> HIDE DEF U
  <2>2. IsFiniteSet(U) /\ Cardinality(U) <= Cardinality(L) /\ Cardinality(U) \in Nat
    BY <1>1, <2>1, FS_Subset, FS_CardinalityType
  <2>3. Cardinality(U) # 0
    BY <2>1, <2>2, FS_EmptySet
  <2> QED
    BY <2>2, <2>3 DEF U
<1>3. ASSUME NEW a \in L, next[a] # Stop
      PROVE  next[a] \in L /\ Cardinality(Upward(L, lo, next[a])) < Cardinality(Upward(L, lo, a))
  <2> DEFINE b == next[a]
             U == Upward(L, lo, a)
             W == Upward(L, lo, b)
  <2>1. b \in L /\ lo[a] < lo[b]
    BY <1>3 DEF Chain
  <2>2. W \in SUBSET U /\ a \in U /\ a \notin W
    BY <1>1, <2>1 DEF Upward
  <2>3. IsFiniteSet(U) /\ Cardinality(U) \in Nat /\ Cardinality(W) \in Nat
    BY <1>2, <2>1
  <2> HIDE DEF U, W, b
  <2>4. Cardinality(W) <= Cardinality(U) /\ Cardinality(W) # Cardinality(U)
    BY <2>2, <2>3, FS_Subset
  <2> QED
    BY <2>1, <2>3, <2>4 DEF U, W, b
<1> QED
  BY <1>1, <1>2, <1>3, FS_CardinalityType

\* What a walk along the chain puts together.
Walked(w, L, Stop, run, next) ==
    w[Stop] = <<>> /\ \A a \in L : w[a] = run[a] \o w[next[a]]

\* There is such a walk.
LEMMA WalkExists ==
    ASSUME NEW L, NEW Stop, NEW run, NEW next, NEW lo, Chain(L, Stop, run, next, lo)
    PROVE  \E w \in [L \cup {Stop} -> Seq(Nat)] : Walked(w, L, Stop, run, next)
<1> DEFINE D == L \cup {Stop}
           V == Seq(Nat)
           E == {Stop}
           base == [c \in D |-> <<>>]
           step == [p \in (D \ E) \X V |-> run[p[1]] \o p[2]]
           h == [c \in D |-> IF c = Stop THEN 0 ELSE Cardinality(Upward(L, lo, c))]
           bound == Cardinality(L) + 1
<1>1. Stop \notin L /\ D \ E = L /\ run \in [L -> V] /\ next \in [L -> D]
  BY DEF Chain
<1>2. E \subseteq D /\ base \in [D -> V] /\ next \in [D \ E -> D] /\ bound \in Nat
  <2>1. <<>> \in V
    OBVIOUS
  <2>2. Cardinality(L) \in Nat
    BY FewerUpward
  <2> QED
    BY <1>1, <2>1, <2>2
<1>3. step \in [(D \ E) \X V -> V]
  <2>1. ASSUME NEW c \in L, NEW v \in V PROVE run[c] \o v \in V
    BY <1>1
  <2> QED
    BY <1>1, <2>1
<1>4. h \in [D -> Nat] /\ \A c \in D : h[c] < bound
  <2>1. \A c \in L : Cardinality(Upward(L, lo, c)) \in Nat /\ Cardinality(Upward(L, lo, c)) <= Cardinality(L)
    BY FewerUpward
  <2>2. Cardinality(L) \in Nat
    BY FewerUpward
  <2> QED
    BY <2>1, <2>2
<1>5. ASSUME NEW c \in D \ E PROVE h[next[c]] < h[c]
  <2>1. c \in L /\ h[c] = Cardinality(Upward(L, lo, c)) /\ h[c] > 0
    BY <1>1, FewerUpward
  <2>2. CASE next[c] = Stop
    BY <2>1, <2>2
  <2>3. CASE next[c] # Stop
    BY <1>1, <2>1, <2>3, FewerUpward
  <2> QED
    BY <2>2, <2>3
<1> HIDE DEF base, step, h, bound, E, D
<1>6. Recursion(D, V, E, base, next, step, h, bound)
  BY <1>2, <1>3, <1>4, <1>5 DEF Recursion
<1>7. PICK w \in [D -> V] : \A c \in D : w[c] = IF c \in E THEN base[c] ELSE step[<<c, w[next[c]]>>]
  BY <1>6, RecursiveFunction
<1>8. w[Stop] = <<>>
  BY <1>7 DEF D, E, base
<1>9. ASSUME NEW a \in L PROVE w[a] = run[a] \o w[next[a]]
  <2>1. a \in D /\ a \notin E /\ next[a] \in D
    BY <1>1 DEF D, E
  <2>2. w[a] = step[<<a, w[next[a]]>>] /\ w[next[a]] \in V
    BY <1>7, <2>1
  <2> QED
    BY <2>1, <2>2 DEF step
<1> QED
  BY <1>7, <1>8, <1>9 DEF Walked, D

\* From each place on the walk ascends and has the elements of the places upward.
Yields(w, L, run, lo) ==
    \A a \in L : /\ w[a] \in Seq(Nat) /\ Ascending(w[a])
                 /\ \A n : Contains(w[a], n) <=> \E c \in Upward(L, lo, a) : Contains(run[c], n)

\* So it does along every chain.
LEMMA WalkFacts ==
    ASSUME NEW L, NEW Stop, NEW run, NEW next, NEW lo, Chain(L, Stop, run, next, lo),
           NEW w, Walked(w, L, Stop, run, next)
    PROVE  Yields(w, L, run, lo)
<1> DEFINE Good(a) == /\ w[a] \in Seq(Nat) /\ Ascending(w[a])
                      /\ \A n : Contains(w[a], n) <=> \E c \in Upward(L, lo, a) : Contains(run[c], n)
           T == {a \in L : Good(a)}
           h == [a \in L |-> Cardinality(Upward(L, lo, a))]
<1>1. /\ Stop \notin L /\ next \in [L -> L \cup {Stop}] /\ run \in [L -> Seq(Nat)]
      /\ \A a \in L : lo[a] \in Nat /\ Ascending(run[a])
  BY DEF Chain
<1>2. w[Stop] = <<>> /\ \A a \in L : w[a] = run[a] \o w[next[a]]
  BY DEF Walked
<1>3. ASSUME NEW a \in L, \A b \in L : h[b] < h[a] => b \in T PROVE a \in T
  <2> DEFINE s == run[a]
             u == w[next[a]]
  <2>1. s \in Seq(Nat) /\ Ascending(s) /\ w[a] = s \o u
    BY <1>1, <1>2
  <2>2. CASE next[a] = Stop
    <3>1. Upward(L, lo, a) = {a}
      <4>1. ASSUME NEW c \in L, lo[a] <= lo[c] PROVE c = a
        <5>1. ~(lo[a] < lo[c]) /\ (lo[c] = lo[a] => c = a)
          BY <2>2 DEF Chain
        <5> QED
          BY <1>1, <4>1, <5>1
      <4> QED
        BY <1>1, <4>1 DEF Upward
    <3>2. w[a] = s
      <4>1. u = <<>>
        BY <1>2, <2>2
      <4> HIDE DEF s, u
      <4> QED
        BY <2>1, <4>1, ConcatEmptySeq
    <3> QED
      BY <2>1, <3>1, <3>2
  <2>3. CASE next[a] # Stop
    <3> DEFINE b == next[a]
    <3>1. b \in L /\ lo[a] < lo[b] /\ \A n \in Nat : Contains(s, n) => n < lo[b]
      BY <2>3 DEF Chain
    <3>2. h[b] < h[a]
      BY <2>3, <3>1, FewerUpward
    <3>3. Good(b) /\ u \in Seq(Nat)
      BY <1>3, <3>1, <3>2
    <3>4. Upward(L, lo, a) = {a} \cup Upward(L, lo, b)
      <4>1. ASSUME NEW c \in L, lo[a] <= lo[c] PROVE c = a \/ lo[b] <= lo[c]
        <5>1. (lo[a] < lo[c] => lo[b] <= lo[c]) /\ (lo[c] = lo[a] => c = a)
          BY DEF Chain
        <5> QED
          BY <1>1, <4>1, <5>1
      <4>2. ASSUME NEW c \in L, lo[b] <= lo[c] PROVE lo[a] <= lo[c]
        BY <1>1, <3>1, <4>2
      <4> QED
        BY <1>1, <4>1, <4>2 DEF Upward
    <3>5. ASSUME NEW i \in 1..Len(s), NEW j \in 1..Len(u) PROVE s[i] < u[j]
      <4>1. s[i] \in Nat /\ u[j] \in Nat
        <5> HIDE DEF s, u
        <5> QED
          BY <2>1, <3>3, ElementsOf
      <4>2. s[i] < lo[b]
        BY <3>1, <4>1 DEF Contains
      <4>3. Contains(u, u[j])
        BY DEF Contains
      <4>4. PICK c \in Upward(L, lo, b) : Contains(run[c], u[j])
        BY <3>3, <4>3
      <4>5. c \in L /\ lo[b] <= lo[c] /\ lo[c] <= u[j]
        BY <4>1, <4>4 DEF Chain, Upward
      <4> QED
        BY SMTT(30), <1>1, <3>1, <4>1, <4>2, <4>5
    <3> HIDE DEF s, u
    <3>6. /\ s \o u \in Seq(Nat) /\ Ascending(s \o u)
          /\ \A n : Contains(s \o u, n) <=> Contains(s, n) \/ Contains(u, n)
      <4>1. Ascending(u)
        BY <3>3 DEF u
      <4> QED
        BY <2>1, <3>3, <3>5, <4>1, AscendingJoined
    <3>7. ASSUME NEW n PROVE Contains(w[a], n) <=> \E c \in Upward(L, lo, a) : Contains(run[c], n)
      <4>1. Contains(w[a], n) <=> Contains(s, n) \/ Contains(u, n)
        BY <2>1, <3>6
      <4>2. Contains(u, n) <=> \E c \in Upward(L, lo, b) : Contains(run[c], n)
        BY <3>3 DEF u
      <4> QED
        BY <3>4, <4>1, <4>2 DEF s
    <3> QED
      BY <2>1, <3>6, <3>7
  <2> QED
    BY <2>2, <2>3
<1>4. T = L
  <2>1. T \in SUBSET L
    OBVIOUS
  <2>2. h \in [L -> Nat]
    BY FewerUpward
  <2> HIDE DEF T, h
  <2> QED
    BY <1>3, <2>1, <2>2, MeasureInduction
<1> QED
  BY <1>4 DEF Yields

-----------------------------------------------------------------------------
(* The chain of the leaves                                                 *)

\* Part of what the leaf at address a holds: its keys that C has.
PartOfLeaf(s, a, C) ==
    /\ s \in Seq(Nat) /\ Ascending(s)
    /\ \A n : Contains(s, n) <=> Contains(heap[a].keys, n) /\ n \in C

\* Between calls the leaves are a chain, whatever part of their keys is taken.
LEMMA LeavesAreChain ==
    ASSUME Shape, todo = NoCall, NEW C,
           NEW lo \in [DOMAIN heap -> Nat], NEW hi \in [DOMAIN heap -> Nat], Bounded(lo, hi),
           NEW run, run = [a \in Leaves |-> run[a]], \A a \in Leaves : PartOfLeaf(run[a], a, C)
    PROVE  /\ Leaves = LiveLeaves /\ Leaves = DOMAIN heap \cap LeafAddresses
           /\ Chain(Leaves, Null, run, [a \in Leaves |-> heap[a].next], lo)
<1> DEFINE next == [a \in Leaves |-> heap[a].next]
<1>1. /\ TypeOK /\ ~Splitting /\ Live = DOMAIN heap
      /\ Leaves = DOMAIN heap \cap LeafAddresses /\ LiveLeaves = Leaves
  BY NodeFacts, BetweenCalls DEF Shape, Leaves, LiveLeaves
<1>2. IsFiniteSet(Leaves) /\ Null \notin Leaves
  <2>1. IsFiniteSet(DOMAIN heap)
    BY <1>1 DEF TypeOK
  <2> QED
    BY <1>1, <2>1, FS_Subset, NodeFacts
<1>3. ASSUME NEW a \in Leaves
      PROVE  /\ lo[a] \in Nat /\ hi[a] \in Nat /\ Below(lo[a], hi[a])
             /\ KeysWithin(heap[a].keys, lo[a], hi[a])
             /\ NextLinked(heap[a], hi[a], lo, Leaves)
  BY <1>1, BoundedFacts DEF NodeWithin
<1>4. ASSUME NEW a \in Leaves
      PROVE  /\ next[a] \in Leaves \cup {Null}
             /\ next[a] # Null => hi[a] # 0 /\ lo[next[a]] = hi[a]
             /\ hi[a] # 0 => next[a] # Null
  BY <1>2, <1>3 DEF NextLinked
<1>5. ASSUME NEW a \in Leaves, NEW c \in Leaves
      PROVE  /\ lo[c] = lo[a] => c = a
             /\ lo[a] < lo[c] => hi[a] # 0 /\ hi[a] <= lo[c]
  <2>1. Covers(lo, hi, a, lo[c]) => c = a
    <3> SUFFICES ASSUME Covers(lo, hi, a, lo[c]) PROVE c = a
      OBVIOUS
    <3>1. Covers(lo, hi, c, lo[c])
      BY <1>3 DEF Covers
    <3>2. NodesBounded(lo, hi) /\ lo[c] \in Nat
      BY <1>3 DEF Bounded
    <3> QED
      BY <1>1, <3>1, <3>2, LeafCoveredOnce
  <2>2. CASE lo[c] = lo[a]
    BY <1>3, <2>1, <2>2 DEF Covers
  <2>3. CASE lo[a] < lo[c]
    <3>1. c # a /\ ~Covers(lo, hi, a, lo[c])
      BY <1>3, <2>1, <2>3
    <3>2. ~Below(lo[c], hi[a])
      BY <1>3, <2>3, <3>1 DEF Covers
    <3> QED
      BY <1>3, <2>3, <3>2 DEF Below
  <2> QED
    BY <2>2, <2>3
<1>6. ASSUME NEW a \in Leaves, NEW n \in Nat, Contains(run[a], n)
      PROVE  lo[a] <= n /\ Below(n, hi[a])
  BY <1>3, <1>6 DEF PartOfLeaf, Contains, KeysWithin
<1>7. run \in [Leaves -> Seq(Nat)] /\ \A a \in Leaves : Ascending(run[a])
  BY DEF PartOfLeaf
<1> HIDE DEF next
<1>8. next \in [Leaves -> Leaves \cup {Null}]
  BY <1>4 DEF next
<1>9. ASSUME NEW a \in Leaves
      PROVE  /\ next[a] # Null =>
                   lo[a] < lo[next[a]] /\ \A n \in Nat : Contains(run[a], n) => n < lo[next[a]]
             /\ \A c \in Leaves : lo[a] < lo[c] => next[a] # Null /\ lo[next[a]] <= lo[c]
  BY <1>3, <1>4, <1>5, <1>6 DEF Below
<1>10. Chain(Leaves, Null, run, next, lo)
  BY <1>2, <1>3, <1>5, <1>6, <1>7, <1>8, <1>9 DEF Chain
<1> QED
  BY <1>1, <1>10 DEF next

\* Between calls the keys of a leaf are numbers that ascend.
LEMMA LeafKeys ==
    ASSUME Shape, todo = NoCall,
           NEW lo \in [DOMAIN heap -> Nat], NEW hi \in [DOMAIN heap -> Nat], Bounded(lo, hi)
    PROVE  \A a \in Leaves :
              /\ heap[a].keys \in Seq(Keys) /\ heap[a].keys \in Seq(Nat) /\ Ascending(heap[a].keys)
              /\ \A n : Contains(heap[a].keys, n) => n \in Keys /\ n \in Nat
<1> SUFFICES ASSUME NEW a \in Leaves
             PROVE  /\ heap[a].keys \in Seq(Keys) /\ heap[a].keys \in Seq(Nat) /\ Ascending(heap[a].keys)
                    /\ \A n : Contains(heap[a].keys, n) => n \in Keys /\ n \in Nat
  OBVIOUS
<1>1. TypeOK /\ a \in LiveLeaves /\ a \in DOMAIN heap
  BY BetweenCalls, NodeFacts DEF Shape, Leaves, LiveLeaves
<1>2. heap[a].keys \in Seq(Keys) /\ Keys \subseteq Nat
  BY <1>1, NodeFacts, TreeAssumption
<1>3. heap[a].keys \in Seq(Nat)
  BY <1>2, SeqMonotonic
<1>4. Ascending(heap[a].keys)
  BY <1>1 DEF Bounded, NodesBounded, KeysWithin
<1>5. \A n : Contains(heap[a].keys, n) => n \in Keys
  BY <1>2, ElementsOf DEF Contains
<1> QED
  BY <1>2, <1>3, <1>4, <1>5

\* The leftmost leaf is the one that no leaf is below.
LEMMA FirstLeafFacts ==
    ASSUME Shape, todo = NoCall, root # Null,
           NEW lo \in [DOMAIN heap -> Nat], NEW hi \in [DOMAIN heap -> Nat], Bounded(lo, hi)
    PROVE  FirstLeaf \in Leaves /\ lo[FirstLeaf] = 0
<1> DEFINE D == DOMAIN heap
           E == D \cap LeafAddresses
           base == [c \in D |-> c]
           child == [c \in D \ E |-> heap[c].pointers[1]]
           step == [p \in (D \ E) \X D |-> p[2]]
<1>1. PICK h \in [D -> Nat] : Graded(h)
  BY DEF Shape
<1>2. TypeOK /\ Live = D /\ LiveInner = D \ E /\ root \in D /\ ~Splitting /\ Tops(hi) = hi
  BY BetweenCalls, TopsWithoutSplit DEF Shape, TypeOK
<1> DEFINE bound == h[root] + 1
<1>3. bound \in Nat /\ \A c \in D : h[c] < bound
  BY <1>1, <1>2 DEF Graded
<1>4. ASSUME NEW c \in D \ E PROVE child[c] \in D /\ h[child[c]] < h[c] /\ lo[child[c]] = lo[c]
  <2>1. Len(heap[c].keys) \in Nat /\ Len(heap[c].pointers) = Len(heap[c].keys) + 1
    BY <1>2, <1>4, NodeFacts
  <2>2. 1 \in 1..Len(heap[c].pointers)
    BY <2>1
  <2>3. child[c] \in D
    BY <1>2, <1>4, <2>2 DEF Shape, ChildrenAgree
  <2>4. h[child[c]] + 1 = h[c]
    BY <1>1, <1>2, <1>4, <2>2 DEF Graded
  <2>5. KeysSeparate(heap[c].keys, heap[c].pointers, lo, hi, lo[c], hi[c])
    BY <1>2, <1>4 DEF Bounded, NodesBounded
  <2>6. lo[child[c]] = lo[c]
    BY <1>4, <2>2, <2>5 DEF KeysSeparate
  <2> QED
    BY <1>1, <2>3, <2>4, <2>6
<1>5. \E d \in [D -> D] : \A c \in D : d[c] = IF c \in E THEN base[c] ELSE step[<<c, d[child[c]]>>]
  <2>1. /\ E \subseteq D /\ base \in [D -> D] /\ child \in [D \ E -> D]
        /\ step \in [(D \ E) \X D -> D]
    BY <1>4
  <2>2. \A c \in D \ E : h[child[c]] < h[c]
    BY <1>4
  <2> HIDE DEF D, E, base, child, step, bound
  <2>3. Recursion(D, D, E, base, child, step, h, bound)
    BY <2>1, <2>2, <1>1, <1>3 DEF Recursion
  <2> QED
    BY <2>3, RecursiveFunction
<1> DEFINE Right(d) == d = [c \in D |-> IF heap[c].leaf THEN c ELSE d[heap[c].pointers[1]]]
<1>6. \E d : Right(d)
  <2>1. PICK d \in [D -> D] : \A c \in D : d[c] = IF c \in E THEN base[c] ELSE step[<<c, d[child[c]]>>]
    BY <1>5
  <2>2. ASSUME NEW c \in D
        PROVE  d[c] = IF heap[c].leaf THEN c ELSE d[heap[c].pointers[1]]
    <3>1. heap[c].leaf <=> c \in LeafAddresses
      BY <1>2, NodeFacts
    <3>2. CASE c \in LeafAddresses
      BY <2>1, <3>1, <3>2
    <3>3. CASE c \notin LeafAddresses
      <4>1. d[child[c]] \in D
        BY <1>4, <3>3
      <4> QED
        BY <2>1, <3>1, <3>3, <4>1
    <3> QED
      BY <3>2, <3>3
  <2> QED
    BY <2>2
<1> DEFINE d == CHOOSE down : Right(down)
<1>7. Right(d)
  <2> HIDE DEF Right
  <2> QED
    BY <1>6
<1>8. FirstLeaf = d[root]
  BY DEF FirstLeaf
<1> HIDE DEF d
<1>9. \A c \in D : d[c] = IF c \in LeafAddresses THEN c ELSE d[heap[c].pointers[1]]
  BY <1>2, <1>7, NodeFacts
<1> DEFINE T == {c \in D : d[c] \in E /\ lo[d[c]] = lo[c]}
<1>10. ASSUME NEW c \in D, \A b \in D : h[b] < h[c] => b \in T PROVE c \in T
  <2>1. CASE c \in LeafAddresses
    BY <1>9, <2>1
  <2>2. CASE c \notin LeafAddresses
    <3>1. child[c] \in D /\ h[child[c]] < h[c] /\ lo[child[c]] = lo[c] /\ d[c] = d[child[c]]
      BY <1>4, <1>9, <2>2
    <3> HIDE DEF child
    <3>2. child[c] \in T
      BY <1>10, <3>1
    <3> QED
      BY <3>1, <3>2
  <2> QED
    BY <2>1, <2>2
<1>11. T = D
  <2>1. T \in SUBSET D
    OBVIOUS
  <2> HIDE DEF T, D
  <2> QED
    BY <1>1, <1>10, <2>1, MeasureInduction
<1>12. d[root] \in E /\ lo[d[root]] = lo[root]
  BY <1>2, <1>11
<1>13. lo[root] = 0
  BY DEF Bounded, EndsBounded
<1>14. Leaves = E
  BY <1>2, NodeFacts DEF Leaves
<1> QED
  BY <1>8, <1>12, <1>13, <1>14

\* Between calls the keys of the records stored are those the leaves hold.
LEMMA HeldKeys ==
    ASSUME Shape, Ordered, RecordsOfKeys, todo = NoCall
    PROVE  \A n : n \in {r[1] : r \in Stored} <=> \E a \in Leaves : Contains(heap[a].keys, n)
<1>1. Stored = {e[2] : e \in Items} /\ \A e \in Items : e = <<e[1], e[2]>> /\ e[2][1] = e[1]
  BY StoredFacts
<1>2. TypeOK /\ Leaves = DOMAIN heap \cap LeafAddresses
  BY NodeFacts DEF Shape, Leaves
<1>3. \A a \in Leaves : DOMAIN heap[a].keys = 1..Len(heap[a].keys)
  BY <1>2, NodeFacts, ElementsOf
<1>4. \A e : e \in Items <=> \E a \in Leaves : \E i \in 1..Len(heap[a].keys) :
                                 e = <<heap[a].keys[i], heap[a].pointers[i]>>
  BY <1>3 DEF Items
<1>5. ASSUME NEW n, n \in {r[1] : r \in Stored} PROVE \E a \in Leaves : Contains(heap[a].keys, n)
  <2>1. PICK e \in Items : n = e[2][1]
    BY <1>1, <1>5
  <2>2. PICK a \in Leaves : \E i \in 1..Len(heap[a].keys) : e = <<heap[a].keys[i], heap[a].pointers[i]>>
    BY <1>4
  <2>3. PICK i \in 1..Len(heap[a].keys) : e = <<heap[a].keys[i], heap[a].pointers[i]>>
    BY <2>2
  <2>4. heap[a].keys[i] = n
    BY <1>1, <2>1, <2>3
  <2> QED
    BY <2>4 DEF Contains
<1>6. ASSUME NEW n, NEW a \in Leaves, Contains(heap[a].keys, n) PROVE n \in {r[1] : r \in Stored}
  <2>1. PICK i \in 1..Len(heap[a].keys) : heap[a].keys[i] = n
    BY <1>6 DEF Contains
  <2> DEFINE r == heap[a].pointers[i]
             e == <<n, r>>
  <2>2. e \in Items /\ e[1] = n /\ e[2] = r
    BY <1>4, <2>1
  <2> HIDE DEF r, e
  <2>3. r \in Stored /\ r[1] = n
    BY <1>1, <2>2
  <2> QED
    BY <2>3
<1> QED
  BY <1>5, <1>6

\* The function w yields, for a leaf, its part and those of the leaves linked
\* after it.
WalksLeaves(w, run) ==
    w = [b \in Leaves \cup {Null} |-> IF b = Null THEN <<>> ELSE run[b] \o w[heap[b].next]]

\* A walk along the leaves from a leaf on yields, in order, what C has of the
\* keys of this leaf and the leaves upward.
LEMMA LeafWalk ==
    ASSUME Shape, todo = NoCall, NEW C,
           NEW lo \in [DOMAIN heap -> Nat], NEW hi \in [DOMAIN heap -> Nat], Bounded(lo, hi),
           NEW run, run = [a \in Leaves |-> run[a]], \A a \in Leaves : PartOfLeaf(run[a], a, C)
    PROVE  /\ \E w : WalksLeaves(w, run)
           /\ \A w : WalksLeaves(w, run) =>
                 /\ w[Null] = <<>>
                 /\ \A a \in Leaves :
                       /\ w[a] \in Seq(Nat) /\ Ascending(w[a])
                       /\ \A n : Contains(w[a], n) <=>
                             n \in C /\ \E c \in Upward(Leaves, lo, a) : Contains(heap[c].keys, n)
<1> DEFINE next == [a \in Leaves |-> heap[a].next]
           D == Leaves \cup {Null}
<1>1. Chain(Leaves, Null, run, next, lo) /\ Null \notin Leaves
  BY LeavesAreChain DEF Chain
<1>2. \E w : WalksLeaves(w, run)
  <2>1. PICK w \in [D -> Seq(Nat)] : Walked(w, Leaves, Null, run, next)
    <3> HIDE DEF next
    <3> QED
      BY <1>1, WalkExists
  <2>2. \A b \in D : w[b] = IF b = Null THEN <<>> ELSE run[b] \o w[heap[b].next]
    BY <2>1 DEF Walked
  <2> QED
    BY <2>1, <2>2 DEF WalksLeaves
<1>3. \A a \in Leaves : \A c \in Upward(Leaves, lo, a) : \A n :
          Contains(run[c], n) <=> Contains(heap[c].keys, n) /\ n \in C
  BY DEF PartOfLeaf, Upward
<1>4. ASSUME NEW w, WalksLeaves(w, run)
      PROVE  /\ w[Null] = <<>>
             /\ \A a \in Leaves :
                   /\ w[a] \in Seq(Nat) /\ Ascending(w[a])
                   /\ \A n : Contains(w[a], n) <=>
                         n \in C /\ \E c \in Upward(Leaves, lo, a) : Contains(heap[c].keys, n)
  <2>1. \A b \in D : w[b] = IF b = Null THEN <<>> ELSE run[b] \o w[heap[b].next]
    BY <1>4 DEF WalksLeaves
  <2>2. Walked(w, Leaves, Null, run, next)
    BY <1>1, <2>1 DEF Walked
  <2> HIDE DEF next
  <2>3. Yields(w, Leaves, run, lo)
    BY <1>1, <2>2, WalkFacts
  <2>4. w[Null] = <<>>
    BY <2>2 DEF Walked
  <2> QED
    BY <1>3, <2>3, <2>4 DEF Yields
<1> QED
  BY <1>2, <1>4

\* The keys of a leaf and those after it, as LeafChainAscends walks them.
LEMMA KeysFromFacts ==
    ASSUME Shape, todo = NoCall,
           NEW lo \in [DOMAIN heap -> Nat], NEW hi \in [DOMAIN heap -> Nat], Bounded(lo, hi)
    PROVE  /\ KeysFrom(Null) = <<>>
           /\ \A a \in Leaves :
                 /\ KeysFrom(a) \in Seq(Nat) /\ Ascending(KeysFrom(a))
                 /\ \A n : Contains(KeysFrom(a), n) <=>
                       \E c \in Upward(Leaves, lo, a) : Contains(heap[c].keys, n)
<1> DEFINE run == [a \in Leaves |-> heap[a].keys]
           Right(w) == w = [b \in Leaves \cup {Null} |-> IF b = Null THEN <<>> ELSE heap[b].keys \o w[heap[b].next]]
           w == CHOOSE walk : Right(walk)
<1>1. ASSUME NEW a \in Leaves PROVE PartOfLeaf(run[a], a, Nat)
  BY <1>1, LeafKeys DEF PartOfLeaf
<1>2. ASSUME NEW v PROVE Right(v) <=> WalksLeaves(v, run)
  <2>1. \A b \in Leaves : run[b] = heap[b].keys
    OBVIOUS
  <2> HIDE DEF run
  <2> QED
    BY <2>1 DEF WalksLeaves
<1>3. run = [a \in Leaves |-> run[a]]
  OBVIOUS
<1> HIDE DEF run, Right
<1>4. /\ \E v : WalksLeaves(v, run)
      /\ \A v : WalksLeaves(v, run) =>
            /\ v[Null] = <<>>
            /\ \A a \in Leaves :
                  /\ v[a] \in Seq(Nat) /\ Ascending(v[a])
                  /\ \A n : Contains(v[a], n) <=>
                        n \in Nat /\ \E c \in Upward(Leaves, lo, a) : Contains(heap[c].keys, n)
  BY ZenonT(30), <1>1, <1>3, LeafWalk
<1>5. WalksLeaves(w, run)
  BY <1>2, <1>4
<1>6. \A a : KeysFrom(a) = w[a]
  BY DEF KeysFrom, Right
<1> HIDE DEF w
<1>7. \A c \in Leaves : \A n : Contains(heap[c].keys, n) => n \in Nat
  BY LeafKeys
<1>8. \A a \in Leaves : \A n :
          (\E c \in Upward(Leaves, lo, a) : Contains(heap[c].keys, n)) => n \in Nat
  BY <1>7 DEF Upward
<1> QED
  BY <1>4, <1>5, <1>6, <1>8

\* The chain starts with the least key and passes every key, in order.
THEOREM LeafChainAlwaysAscends == Spec => []LeafChainAscends
<1>1. Shape /\ Sorted => LeafChainAscends
  <2> DEFINE keys == KeysFrom(FirstLeaf)
             held == {r[1] : r \in Stored}
  <2> SUFFICES ASSUME Shape, Sorted, todo = NoCall
               PROVE  /\ \A a \in Leaves : heap[a].next \in Leaves \cup {Null}
                      /\ \A i \in 1..(Len(keys) - 1) : keys[i] < keys[i + 1]
                      /\ ToSet(keys) = held
    BY DEF LeafChainAscends
  <2>1. PICK lo, hi \in [DOMAIN heap -> Nat] : Bounded(lo, hi)
    BY DEF Sorted, Ordered
  <2>2. TypeOK /\ Leaves = DOMAIN heap \cap LeafAddresses /\ LiveLeaves = Leaves
    BY BetweenCalls, NodeFacts DEF Shape, Leaves, LiveLeaves
  <2>3. \A a \in Leaves : heap[a].next \in Leaves \cup {Null}
    BY <2>1, <2>2 DEF Bounded, LeavesLinked
  <2>4. \A n : n \in held <=> \E a \in Leaves : Contains(heap[a].keys, n)
    BY HeldKeys DEF Sorted
  <2>5. /\ keys \in Seq(Nat) /\ Ascending(keys)
        /\ \A n : Contains(keys, n) <=> \E a \in Leaves : Contains(heap[a].keys, n)
    <3>1. CASE root = Null
      <4>1. FirstLeaf = Null /\ Leaves = {}
        BY <3>1 DEF FirstLeaf, Shape, RootSound, Leaves
      <4>2. keys = <<>>
        BY <2>1, <4>1, KeysFromFacts
      <4> QED
        BY <4>1, <4>2 DEF Contains, Ascending
    <3>2. CASE root # Null
      <4>1. FirstLeaf \in Leaves /\ lo[FirstLeaf] = 0
        BY <2>1, <3>2, FirstLeafFacts
      <4>2. Upward(Leaves, lo, FirstLeaf) = Leaves
        BY <2>1, <2>2, <4>1 DEF Upward
      <4> QED
        BY <2>1, <4>1, <4>2, KeysFromFacts
    <3> QED
      BY <3>1, <3>2
  <2> HIDE DEF keys, held
  <2>6. \A i \in 1..(Len(keys) - 1) : keys[i] < keys[i + 1]
    BY <2>5, LenProperties DEF Ascending
  <2>7. ToSet(keys) = held
    BY <2>4, <2>5, AscendingElements
  <2> QED
    BY <2>3, <2>6, <2>7
<1> QED
  BY <1>1, ShapeKept, AlwaysSorted, PTL

-----------------------------------------------------------------------------
(* Ranges                                                                  *)

\* The elements of s after place m that are no larger than k.
TakenUpTo(t, s, m, k) ==
    /\ t \in Seq(Nat) /\ Ascending(t)
    /\ \A n : Contains(t, n) <=> n <= k /\ \E i \in (m + 1)..Len(s) : s[i] = n

\* The part of ascending keys from a place up to a key.
LEMMA PartUpTo ==
    ASSUME NEW s \in Seq(Keys), Ascending(s), NEW k \in Keys, NEW m \in 0..UpTo(s, k)
    PROVE  TakenUpTo(SubSeq(s, m + 1, UpTo(s, k)), s, m, k)
<1> DEFINE q == UpTo(s, k)
           t == SubSeq(s, m + 1, q)
<1>1. Keys \subseteq Nat /\ k \in Nat
  BY TreeAssumption
<1>2. s \in Seq(Nat) /\ Len(s) \in Nat /\ \A i \in 1..Len(s) : s[i] \in Nat
  BY <1>1, SeqMonotonic, ElementsOf
<1>3. q \in 0..Len(s) /\ (\A j \in 1..q : s[j] <= k) /\ (q < Len(s) => ~(s[q + 1] <= k))
  BY UpToFacts
<1>4. m \in Nat /\ m <= q /\ m + 1 \in 1..(Len(s) + 1) /\ q \in (m + 1 - 1)..Len(s) /\ q \in Nat
  BY <1>2, <1>3
<1> HIDE DEF q
<1>5. t \in Seq(Nat) /\ Len(t) = q - m /\ \A j \in 1..(q - m) : t[j] = s[m + j]
  BY <1>2, <1>4, PartProperties
<1> HIDE DEF t
<1>6. Ascending(t)
  <2> SUFFICES ASSUME NEW i \in 1..Len(t), NEW j \in 1..Len(t), i < j PROVE t[i] < t[j]
    BY DEF Ascending
  <2>1. /\ m + i \in 1..Len(s) /\ m + j \in 1..Len(s) /\ m + i < m + j
        /\ t[i] = s[m + i] /\ t[j] = s[m + j]
    BY <1>3, <1>4, <1>5
  <2> QED
    BY <2>1 DEF Ascending
<1>7. ASSUME NEW n, Contains(t, n) PROVE n <= k /\ \E i \in (m + 1)..Len(s) : s[i] = n
  <2>1. PICK j \in 1..Len(t) : t[j] = n
    BY <1>7 DEF Contains
  <2>2. j \in 1..(q - m) /\ s[m + j] = n
    BY <1>5, <2>1
  <2>3. m + j \in (m + 1)..Len(s) /\ m + j \in 1..q
    BY <1>2, <1>3, <1>4, <2>2
  <2> QED
    BY <1>3, <2>2, <2>3
<1>8. ASSUME NEW i \in (m + 1)..Len(s), s[i] <= k PROVE Contains(t, s[i])
  <2>1. i <= q
    <3> SUFFICES ASSUME q < i PROVE FALSE
      BY <1>4
    <3>1. q < Len(s) /\ q + 1 \in 1..Len(s) /\ i \in 1..Len(s) /\ (q + 1 = i \/ q + 1 < i)
      BY <1>2, <1>3, <1>4
    <3>2. s[q + 1] <= s[i]
      BY <1>2, <3>1 DEF Ascending
    <3> QED
      BY <1>1, <1>2, <1>3, <1>8, <3>1, <3>2
  <2>2. i - m \in 1..Len(t) /\ t[i - m] = s[i]
    BY <1>4, <1>5, <2>1
  <2> QED
    BY <2>2 DEF Contains
<1> QED
  BY <1>5, <1>6, <1>7, <1>8 DEF TakenUpTo, t, q

\* What is of a range at the first place, then in those upward.
RangeParts(L, Stop, run, next, lo, first, from, to, head, tail) ==
    /\ first \in L /\ lo[first] <= from /\ (next[first] # Stop => from < lo[next[first]])
    /\ head \in Seq(Nat) /\ Ascending(head)
    /\ \A n : Contains(head, n) <=> Contains(run[first], n) /\ from <= n /\ n <= to
    /\ tail \in Seq(Nat) /\ Ascending(tail)
    /\ \A n : Contains(tail, n) <=>
          n <= to /\ next[first] # Stop /\ \E c \in Upward(L, lo, next[first]) : Contains(run[c], n)

\* A range of the elements along a chain, where the first of the places is the
\* one that covers its start: the two parts are all of the range, in order.
LEMMA ChainRange ==
    ASSUME NEW L, NEW Stop, NEW run, NEW next, NEW lo, Chain(L, Stop, run, next, lo),
           NEW first, NEW from \in Nat, NEW to \in Nat, NEW head, NEW tail,
           RangeParts(L, Stop, run, next, lo, first, from, to, head, tail)
    PROVE  /\ head \o tail \in Seq(Nat) /\ Ascending(head \o tail)
           /\ \A n : Contains(head \o tail, n) <=>
                 from <= n /\ n <= to /\ \E c \in L : Contains(run[c], n)
<1> USE DEF RangeParts
<1> DEFINE b == next[first]
<1>1. /\ \A c \in L : lo[c] \in Nat /\ run[c] \in Seq(Nat)
      /\ b # Stop => b \in L
  BY DEF Chain
<1>2. ASSUME NEW c \in L, NEW n, Contains(run[c], n)
      PROVE  n \in Nat /\ lo[c] <= n /\ (next[c] # Stop => n < lo[next[c]])
  <2>1. n \in Nat
    BY <1>1, <1>2, ElementsOf DEF Contains
  <2> QED
    BY <1>2, <2>1 DEF Chain
<1>3. ASSUME NEW i \in 1..Len(head), NEW j \in 1..Len(tail) PROVE head[i] < tail[j]
  <2>1. Contains(head, head[i]) /\ Contains(tail, tail[j])
    BY DEF Contains
  <2>2. Contains(run[first], head[i]) /\ b # Stop
    BY <2>1
  <2>3. PICK c \in Upward(L, lo, b) : Contains(run[c], tail[j])
    BY <2>1
  <2>4. c \in L /\ lo[b] <= lo[c]
    BY <2>3 DEF Upward
  <2>5. head[i] \in Nat /\ head[i] < lo[b]
    BY <1>2, <2>2
  <2>6. tail[j] \in Nat /\ lo[c] <= tail[j]
    BY <1>2, <2>3, <2>4
  <2> QED
    BY SMTT(30), <1>1, <2>2, <2>4, <2>5, <2>6
<1>4. /\ head \o tail \in Seq(Nat) /\ Ascending(head \o tail)
      /\ \A n : Contains(head \o tail, n) <=> Contains(head, n) \/ Contains(tail, n)
  BY <1>3, AscendingJoined
<1>5. ASSUME NEW n, Contains(tail, n)
      PROVE  from <= n /\ n <= to /\ \E c \in L : Contains(run[c], n)
  <2>1. n <= to /\ b # Stop
    BY <1>5
  <2>2. PICK c \in Upward(L, lo, b) : Contains(run[c], n)
    BY <1>5
  <2>3. c \in L /\ lo[b] <= lo[c] /\ n \in Nat /\ lo[c] <= n
    BY <1>2, <2>2 DEF Upward
  <2>4. from < lo[b] /\ lo[b] \in Nat
    BY <1>1, <2>1
  <2> QED
    BY <1>1, <2>1, <2>2, <2>3, <2>4
<1>6. ASSUME NEW c \in L, NEW n, Contains(run[c], n), from <= n, n <= to
      PROVE  Contains(head, n) \/ Contains(tail, n)
  <2>1. n \in Nat /\ lo[c] <= n /\ (next[c] # Stop => n < lo[next[c]])
    BY <1>2, <1>6
  <2>2. CASE c = first
    BY <1>6, <2>2
  <2>3. CASE c # first
    <3>1. lo[c] # lo[first]
      BY <2>3 DEF Chain
    <3>2. ~(lo[c] < lo[first])
      <4> SUFFICES ASSUME lo[c] < lo[first] PROVE FALSE
        OBVIOUS
      <4>1. next[c] # Stop /\ lo[next[c]] <= lo[first] /\ next[c] \in L
        BY DEF Chain
      <4> QED
        BY <1>1, <1>6, <2>1, <4>1
    <3>3. lo[first] < lo[c]
      BY <1>1, <3>1, <3>2
    <3>4. b # Stop /\ lo[b] <= lo[c]
      BY <3>3 DEF Chain
    <3>5. c \in Upward(L, lo, b)
      BY <3>4 DEF Upward
    <3> QED
      BY <1>6, <3>4, <3>5
  <2> QED
    BY <2>2, <2>3
<1> QED
  BY <1>4, <1>5, <1>6

\* How many keys at the front are smaller than a key.
Smaller(keys, k) == Cardinality({i \in DOMAIN keys : \A j \in 1..i : keys[j] < k})

\* Those are just the ones before the first that is not.
LEMMA SmallerFacts ==
    ASSUME NEW s \in Seq(Keys), Ascending(s), NEW from \in Keys, NEW to \in Keys, from <= to
    PROVE  /\ Smaller(s, from) \in 0..Len(s) /\ Smaller(s, from) \in 0..UpTo(s, to)
           /\ \A i \in 1..Len(s) : from <= s[i] <=> i \in (Smaller(s, from) + 1)..Len(s)
<1> DEFINE p == Smaller(s, from)
           q == UpTo(s, to)
<1>1. Keys \subseteq Nat /\ from \in Nat /\ to \in Nat
  BY TreeAssumption
<1>2. Len(s) \in Nat /\ \A i \in 1..Len(s) : s[i] \in Nat
  BY <1>1, SeqMonotonic, ElementsOf
<1>3. InsertionPoint(s, from) = p + 1
  BY DEF InsertionPoint, Leading, Smaller
<1>4. q \in 0..Len(s) /\ (q < Len(s) => ~(s[q + 1] <= to))
  BY UpToFacts
<1>5. IsFiniteSet({i \in DOMAIN s : \A j \in 1..i : s[j] < from})
  <2>1. DOMAIN s = 1..Len(s) /\ IsFiniteSet(1..Len(s))
    BY <1>2, ElementsOf, FS_Interval
  <2> QED
    BY <2>1, FS_Subset
<1>6. p \in Nat
  BY <1>5, FS_CardinalityType DEF Smaller
<1> HIDE DEF p, q
<1>7. p \in 0..Len(s) /\ (\A j \in 1..p : s[j] < from) /\ (p < Len(s) => ~(s[p + 1] < from))
  <2> DEFINE e == InsertionPoint(s, from)
  <2>1. e \in 1..(Len(s) + 1) /\ (\A j \in 1..(e - 1) : s[j] < from) /\ (e <= Len(s) => ~(s[e] < from))
    BY InsertionPointFacts
  <2>2. e = p + 1
    BY <1>3
  <2> HIDE DEF e
  <2>3. p = e - 1
    BY <1>6, <2>2
  <2>4. p \in 0..Len(s)
    BY <1>2, <1>6, <2>1, <2>2
  <2>5. \A j \in 1..p : s[j] < from
    BY <2>1, <2>3
  <2>6. p < Len(s) => ~(s[p + 1] < from)
    BY <1>2, <1>6, <2>1, <2>2
  <2> QED
    BY <2>4, <2>5, <2>6
<1>8. p <= q
  <2> SUFFICES ASSUME q < p PROVE FALSE
    BY <1>4, <1>6
  <2>1. q < Len(s) /\ q + 1 \in 1..p /\ q + 1 \in 1..Len(s)
    BY <1>2, <1>4, <1>7
  <2> QED
    BY <1>1, <1>2, <1>4, <1>7, <2>1
<1>9. ASSUME NEW i \in 1..Len(s) PROVE from <= s[i] <=> i \in (p + 1)..Len(s)
  <2>1. CASE i <= p
    <3>1. i \in 1..p
      BY <1>6, <2>1
    <3> QED
      BY <1>1, <1>2, <1>6, <1>7, <2>1, <3>1
  <2>2. CASE p < i
    <3>1. p + 1 \in 1..Len(s) /\ (p + 1 = i \/ p + 1 < i) /\ p < Len(s)
      BY <1>2, <1>6, <2>2
    <3>2. s[p + 1] <= s[i] /\ from <= s[p + 1]
      BY <1>1, <1>2, <1>7, <3>1 DEF Ascending
    <3> QED
      BY <1>1, <1>2, <1>6, <2>2, <3>1, <3>2
  <2> QED
    BY <1>6, <2>1, <2>2
<1> QED
  BY <1>4, <1>6, <1>7, <1>8, <1>9 DEF p, q

\* find_range walks the leaves from that of the key on, with what is in range.
LEMMA FindRangeWalk ==
    ASSUME Shape, todo = NoCall, root # Null, NEW from \in Keys, NEW to \in Keys,
           NEW lo \in [DOMAIN heap -> Nat], NEW hi \in [DOMAIN heap -> Nat], Bounded(lo, hi)
    PROVE  LET first == find_leaf(from)
               s == heap[first].keys
           IN  \E tail \in Seq(Nat) :
                 /\ find_range(from, to) =
                        IF Smaller(s, from) = Len(s) THEN <<>>
                        ELSE SubSeq(s, Smaller(s, from) + 1, UpTo(s, to)) \o tail
                 /\ Ascending(tail)
                 /\ \A n : Contains(tail, n) <=>
                       n <= to /\ heap[first].next # Null
                       /\ \E c \in Upward(Leaves, lo, heap[first].next) : Contains(heap[c].keys, n)
<1> DEFINE first == find_leaf(from)
           s == heap[first].keys
           run == [a \in Leaves |-> SubSeq(heap[a].keys, 0 + 1, UpTo(heap[a].keys, to))]
           Right(w) == w = [n \in Leaves \cup {Null} |->
                               IF n = Null THEN <<>>
                               ELSE SubSeq(heap[n].keys, 0 + 1, UpTo(heap[n].keys, to)) \o w[heap[n].next]]
           w == CHOOSE walk : Right(walk)
           tail == w[heap[first].next]
           C == {n \in Nat : n <= to}
<1>1. first \in Leaves /\ first # Null /\ Null \notin Leaves
  BY FoundLeaf, NodeFacts DEF Shape, Leaves
<1>2. ASSUME NEW a \in Leaves PROVE PartOfLeaf(run[a], a, C)
  <2> DEFINE k == heap[a].keys
  <2>1. k \in Seq(Keys) /\ Ascending(k) /\ Len(k) \in Nat /\ \A n : Contains(k, n) => n \in Nat
    BY <1>2, LeafKeys, ElementsOf
  <2>2. 0 \in 0..UpTo(k, to)
    BY <2>1, UpToFacts
  <2>3. run[a] = SubSeq(k, 0 + 1, UpTo(k, to))
    OBVIOUS
  <2> HIDE DEF run, k
  <2>4. TakenUpTo(run[a], k, 0, to)
    BY <2>1, <2>2, <2>3, PartUpTo
  <2>5. ASSUME NEW n PROVE Contains(run[a], n) <=> Contains(k, n) /\ n \in C
    <3>1. (0 + 1)..Len(k) = 1..Len(k)
      OBVIOUS
    <3>2. Contains(run[a], n) <=> n <= to /\ \E i \in 1..Len(k) : k[i] = n
      BY <2>4, <3>1 DEF TakenUpTo
    <3> QED
      BY <2>1, <3>2 DEF Contains
  <2> QED
    BY <2>4, <2>5 DEF PartOfLeaf, TakenUpTo, k
<1>3. ASSUME NEW v PROVE Right(v) <=> WalksLeaves(v, run)
  <2>1. \A b \in Leaves : run[b] = SubSeq(heap[b].keys, 0 + 1, UpTo(heap[b].keys, to))
    OBVIOUS
  <2> HIDE DEF run
  <2> QED
    BY <2>1 DEF WalksLeaves
<1>4. run = [a \in Leaves |-> run[a]]
  OBVIOUS
<1>5. find_range(from, to) =
          IF Smaller(s, from) = Len(s) THEN <<>>
          ELSE SubSeq(s, Smaller(s, from) + 1, UpTo(s, to)) \o tail
  <2>1. find_range(from, to) =
            IF first = Null \/ Smaller(s, from) = Len(s) THEN <<>>
            ELSE SubSeq(s, Smaller(s, from) + 1, UpTo(s, to)) \o tail
    BY DEF find_range, Leading, Smaller, UpTo
  <2> HIDE DEF first, s, tail
  <2> QED
    BY <1>1, <2>1
<1> HIDE DEF run, Right, C
<1>6. /\ \E v : WalksLeaves(v, run)
      /\ \A v : WalksLeaves(v, run) =>
            /\ v[Null] = <<>>
            /\ \A a \in Leaves :
                  /\ v[a] \in Seq(Nat) /\ Ascending(v[a])
                  /\ \A n : Contains(v[a], n) <=>
                        n \in C /\ \E c \in Upward(Leaves, lo, a) : Contains(heap[c].keys, n)
  BY ZenonT(30), <1>2, <1>4, LeafWalk
<1>7. WalksLeaves(w, run)
  BY <1>3, <1>6
<1> HIDE DEF w
<1>8. heap[first].next \in Leaves \cup {Null}
  <2>1. Leaves = LiveLeaves
    BY BetweenCalls, NodeFacts DEF Shape, Leaves, LiveLeaves
  <2> QED
    BY <1>1, <2>1 DEF Bounded, LeavesLinked
<1>9. \A c \in Leaves : \A n : Contains(heap[c].keys, n) => n \in Nat
  BY LeafKeys
<1>10. /\ tail \in Seq(Nat) /\ Ascending(tail)
       /\ \A n : Contains(tail, n) <=>
             n <= to /\ heap[first].next # Null
             /\ \E c \in Upward(Leaves, lo, heap[first].next) : Contains(heap[c].keys, n)
  <2> DEFINE b == heap[first].next
  <2>1. CASE b = Null
    <3>1. tail = <<>>
      BY <1>6, <1>7, <2>1
    <3> QED
      BY <2>1, <3>1 DEF Ascending, Contains
  <2>2. CASE b # Null
    <3>1. /\ b \in Leaves /\ tail \in Seq(Nat) /\ Ascending(tail)
          /\ \A n : Contains(tail, n) <=> n \in C /\ \E c \in Upward(Leaves, lo, b) : Contains(heap[c].keys, n)
      BY <1>6, <1>7, <1>8, <2>2
    <3>2. \A n : (\E c \in Upward(Leaves, lo, b) : Contains(heap[c].keys, n)) => n \in Nat
      BY <1>9 DEF Upward
    <3> QED
      BY <2>2, <3>1, <3>2 DEF C
  <2> QED
    BY <2>1, <2>2
<1> HIDE DEF tail
<1> QED
  BY <1>5, <1>10

\* A range from a key the tree holds yields every key it holds in the range,
\* once; one from elsewhere yields these or none.
THEOREM RangesFromHeldKeysComplete == Spec => []RangesFromHeldKeys
<1>1. Shape /\ Sorted => RangesFromHeldKeys
  <2> DEFINE held == {r[1] : r \in Stored}
             due(from, to) == {k \in held : from <= k /\ k <= to}
  <2> SUFFICES ASSUME Shape, Sorted, todo = NoCall, NEW from \in Keys, NEW to \in Keys, from <= to
               PROVE  \/ /\ ToSet(find_range(from, to)) = due(from, to)
                         /\ Len(find_range(from, to)) = Cardinality(due(from, to))
                      \/ find_range(from, to) = <<>> /\ from \notin held
    BY DEF RangesFromHeldKeys
  <2>1. PICK lo, hi \in [DOMAIN heap -> Nat] : Bounded(lo, hi)
    BY DEF Sorted, Ordered
  <2>2. /\ \A n : n \in held <=> \E a \in Leaves : Contains(heap[a].keys, n)
        /\ Leaves = DOMAIN heap \cap LeafAddresses /\ Null \notin Leaves
    BY HeldKeys, NodeFacts DEF Sorted, Shape, Leaves
  <2>3. from \in Nat /\ to \in Nat
    BY TreeAssumption
  <2> HIDE DEF held
  <2>4. CASE root = Null
    <3>1. Leaves = {}
      BY <2>4 DEF Shape, RootSound, Leaves
    <3>2. find_range(from, to) = <<>>
      BY <2>4 DEF find_range, find_leaf
    <3> QED
      BY <2>2, <3>1, <3>2
  <2>5. CASE root # Null
    <3> DEFINE first == find_leaf(from)
               s == heap[first].keys
               p == Smaller(s, from)
               head == SubSeq(s, p + 1, UpTo(s, to))
    <3>1. first \in Leaves /\ s \in Seq(Keys) /\ Ascending(s) /\ Len(s) \in Nat
      BY <2>1, <2>2, <2>5, FoundLeaf, LeafKeys, ElementsOf
    <3>2. lo[first] <= from /\ Below(from, hi[first])
      BY <2>1, <2>5, FoundLeafCovers DEF Covers
    <3> DEFINE Found(tail) ==
            /\ find_range(from, to) = IF p = Len(s) THEN <<>> ELSE head \o tail
            /\ Ascending(tail)
            /\ \A n : Contains(tail, n) <=>
                  n <= to /\ heap[first].next # Null
                  /\ \E c \in Upward(Leaves, lo, heap[first].next) : Contains(heap[c].keys, n)
    <3>3. PICK tail \in Seq(Nat) : Found(tail)
      BY <2>1, <2>5, FindRangeWalk
    <3>4. /\ p \in 0..Len(s) /\ p \in 0..UpTo(s, to)
          /\ \A i \in 1..Len(s) : from <= s[i] <=> i \in (p + 1)..Len(s)
      BY <3>1, SmallerFacts
    <3>5. CASE p = Len(s)
      <4>1. find_range(from, to) = <<>>
        BY <3>3, <3>5
      <4>2. ~Contains(s, from)
        <5> SUFFICES ASSUME NEW i \in 1..Len(s), s[i] = from PROVE FALSE
          BY DEF Contains
        <5>1. i \in (p + 1)..Len(s)
          BY <2>3, <3>4
        <5> QED
          BY <3>1, <3>5, <5>1
      <4>3. from \notin held
        <5> SUFFICES ASSUME NEW a \in Leaves, Contains(heap[a].keys, from) PROVE FALSE
          BY <2>2
        <5>1. PICK i \in 1..Len(heap[a].keys) : heap[a].keys[i] = from
          BY DEF Contains
        <5>2. first = a
          BY <2>1, <2>2, <2>5, <5>1, LeafOfKey
        <5> QED
          BY <4>2, <5>2
      <4> QED
        BY <4>1, <4>3
    <3>6. CASE p # Len(s)
      <4> DEFINE run == [a \in Leaves |-> heap[a].keys]
                 next == [a \in Leaves |-> heap[a].next]
                 found == head \o tail
      <4>1. Chain(Leaves, Null, run, next, lo)
        <5>1. ASSUME NEW a \in Leaves PROVE PartOfLeaf(run[a], a, Nat)
          BY <2>1, <5>1, LeafKeys DEF PartOfLeaf
        <5>2. run = [a \in Leaves |-> run[a]]
          OBVIOUS
        <5> HIDE DEF run
        <5> QED
          BY <2>1, <5>1, <5>2, LeavesAreChain
      <4>2. /\ head \in Seq(Nat) /\ Ascending(head)
            /\ \A n : Contains(head, n) <=> Contains(run[first], n) /\ from <= n /\ n <= to
        <5>1. TakenUpTo(head, s, p, to)
          <6> HIDE DEF p, s
          <6> QED
            BY <3>1, <3>4, PartUpTo
        <5>2. \A n : (\E i \in (p + 1)..Len(s) : s[i] = n) <=> Contains(s, n) /\ from <= n
          BY <3>1, <3>4 DEF Contains
        <5>3. run[first] = s
          BY <3>1
        <5> HIDE DEF head, p, s, run
        <5> QED
          BY <5>1, <5>2, <5>3 DEF TakenUpTo
      <4>3. next[first] # Null => from < lo[next[first]]
        <5>1. Leaves = LiveLeaves
          BY <2>2, BetweenCalls DEF LiveLeaves
        <5>2. next[first] # Null => hi[first] # 0 /\ lo[next[first]] = hi[first]
          BY <2>1, <3>1, <5>1 DEF Bounded, LeavesLinked
        <5> QED
          BY <3>2, <5>2 DEF Below
      <4>4. /\ \A n : Contains(tail, n) <=>
                  n <= to /\ next[first] # Null
                  /\ \E c \in Upward(Leaves, lo, next[first]) : Contains(run[c], n)
            /\ Ascending(tail)
        BY <3>1, <3>3 DEF Upward
      <4>5. /\ find_range(from, to) = found
            /\ \A c \in Leaves : run[c] = heap[c].keys
        BY <3>3, <3>6
      <4> HIDE DEF run, next, head, first
      <4>6. /\ found \in Seq(Nat) /\ Ascending(found)
            /\ \A n : Contains(found, n) <=> from <= n /\ n <= to /\ \E c \in Leaves : Contains(run[c], n)
        <5>1. RangeParts(Leaves, Null, run, next, lo, first, from, to, head, tail)
          BY <3>1, <3>2, <3>3, <4>2, <4>3, <4>4 DEF RangeParts
        <5> QED
          BY <2>3, <4>1, <5>1, ChainRange
      <4> HIDE DEF found
      <4>7. (\A n : n \in ToSet(found) <=> Contains(found, n)) /\ Len(found) = Cardinality(ToSet(found))
        BY <4>6, AscendingElements
      <4>8. ToSet(found) = due(from, to)
        <5>1. \A n : n \in ToSet(found) <=> from <= n /\ n <= to /\ n \in held
          BY <2>2, <4>5, <4>6, <4>7
        <5> QED
          BY <5>1
      <4> QED
        BY <4>5, <4>7, <4>8
    <3> QED
      BY <3>5, <3>6
  <2> QED
    BY <2>4, <2>5
<1> QED
  BY <1>1, ShapeKept, AlwaysSorted, PTL
=============================================================================
