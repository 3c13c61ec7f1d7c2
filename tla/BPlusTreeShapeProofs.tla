------------------------ MODULE BPlusTreeShapeProofs ------------------------
(***************************************************************************)
(* What find and find_leaf return and what each action of the B+ tree does *)
(* to the nodes, one by one: facts the other proofs about the tree use,    *)
(* too.  Then, from these, every action keeps its shape: parents and       *)
(* children agree, all leaves are equally far from the root, no node is    *)
(* too large and none but the one under repair is too small.               *)
(***************************************************************************)
EXTENDS BPlusTreeInvariant, SequenceFacts

-----------------------------------------------------------------------------
(* Nodes and halves                                                        *)

\* cut yields half of a length, rounded up.
LEMMA Halves ==
    ASSUME NEW n \in Nat
    PROVE  cut(n) \in Nat /\ 2 * cut(n) >= n /\ 2 * cut(n) <= n + 1
BY DEF cut

\* The number a node needs, of the two kinds.
LEMMA MinKeysFacts ==
    ASSUME NEW n
    PROVE  /\ MinKeys(n) \in Nat
           /\ n.leaf => MinKeys(n) = cut(Order - 1)
           /\ ~n.leaf => MinKeys(n) = cut(Order) - 1
           /\ MinKeys(n) >= 1 /\ MinKeys(n) <= Order - 1
<1>1. Order \in Nat /\ Order >= 3 /\ Order - 1 \in Nat
  BY TreeAssumption
<1>2. cut(Order) \in Nat /\ 2 * cut(Order) >= Order /\ 2 * cut(Order) <= Order + 1
  BY <1>1, Halves
<1>3. cut(Order - 1) \in Nat /\ 2 * cut(Order - 1) >= Order - 1 /\ 2 * cut(Order - 1) <= Order - 1 + 1
  BY <1>1, Halves
<1> HIDE DEF cut
<1> QED
  BY <1>1, <1>2, <1>3 DEF MinKeys

\* n is a node of the kind that may be at address a.
TypedNode(a, n) ==
    IF a \in LeafAddresses
    THEN n \in NodesOf(TRUE, Pairs) /\ Len(n.pointers) = Len(n.keys)
    ELSE n \in NodesOf(FALSE, Addresses) /\ Len(n.pointers) = Len(n.keys) + 1

\* Every node of a heap is of the kind that may be at its address.
NodesTyped(h) == \A a \in DOMAIN h : TypedNode(a, h[a])

\* What the kind of a node says of its fields.
LEMMA TypedNodeFacts ==
    ASSUME NEW a, NEW n, TypedNode(a, n)
    PROVE  /\ n.leaf <=> a \in LeafAddresses
           /\ n.keys \in Seq(Keys)
           /\ Len(n.keys) \in Nat
           /\ a \in LeafAddresses => n.pointers \in Seq(Pairs) /\ Len(n.pointers) = Len(n.keys)
           /\ a \notin LeafAddresses =>
                n.pointers \in Seq(Addresses) /\ Len(n.pointers) = Len(n.keys) + 1
           /\ Len(n.pointers) \in Nat
           /\ n.parent \in Addresses \cup {Null}
           /\ n.next \in Addresses \cup {Null}
           /\ n = Node(n.leaf, n.keys, n.pointers, n.parent, n.next)
<1>1. CASE a \in LeafAddresses
  <2>1. n \in NodesOf(TRUE, Pairs) /\ Len(n.pointers) = Len(n.keys)
    BY <1>1 DEF TypedNode
  <2>2. /\ n.leaf = TRUE
        /\ n.keys \in Seq(Keys)
        /\ n.pointers \in Seq(Pairs)
        /\ n.parent \in Addresses \cup {Null}
        /\ n.next \in Addresses \cup {Null}
        /\ n = Node(n.leaf, n.keys, n.pointers, n.parent, n.next)
    BY <2>1 DEF NodesOf, Node
  <2>3. Len(n.keys) \in Nat
    BY <2>2, LenProperties
  <2> QED
    BY <1>1, <2>1, <2>2, <2>3
<1>2. CASE a \notin LeafAddresses
  <2>1. n \in NodesOf(FALSE, Addresses) /\ Len(n.pointers) = Len(n.keys) + 1
    BY <1>2 DEF TypedNode
  <2>2. /\ n.leaf = FALSE
        /\ n.keys \in Seq(Keys)
        /\ n.pointers \in Seq(Addresses)
        /\ n.parent \in Addresses \cup {Null}
        /\ n.next \in Addresses \cup {Null}
        /\ n = Node(n.leaf, n.keys, n.pointers, n.parent, n.next)
    BY <2>1 DEF NodesOf, Node
  <2>3. Len(n.keys) \in Nat
    BY <2>2, LenProperties
  <2> QED
    BY <1>2, <2>1, <2>2, <2>3
<1> QED
  BY <1>1, <1>2

\* What the type of the heap says of a node.
LEMMA NodeFacts ==
    ASSUME TypeOK, NEW a \in DOMAIN heap
    PROVE  /\ a \in Addresses /\ a # Null
           /\ TypedNode(a, heap[a])
           /\ heap[a].leaf <=> a \in LeafAddresses
           /\ heap[a].keys \in Seq(Keys)
           /\ Len(heap[a].keys) \in Nat
           /\ a \in LeafAddresses => heap[a].pointers \in Seq(Pairs) /\ Len(heap[a].pointers) = Len(heap[a].keys)
           /\ a \notin LeafAddresses =>
                heap[a].pointers \in Seq(Addresses) /\ Len(heap[a].pointers) = Len(heap[a].keys) + 1
           /\ Len(heap[a].pointers) \in Nat
           /\ heap[a].parent \in Addresses \cup {Null}
           /\ heap[a].next \in Addresses \cup {Null}
<1>1. a \in Addresses /\ a # Null
  BY TreeAssumption DEF TypeOK
<1>2. TypedNode(a, heap[a])
  BY DEF TypeOK, TypedNode
<1> QED
  BY <1>1, <1>2, TypedNodeFacts

\* Nodes made anew are of the kind their parts make them.
LEMMA NodeMade ==
    ASSUME NEW a, NEW leaf, leaf = (IF a \in LeafAddresses THEN TRUE ELSE FALSE), NEW ks \in Seq(Keys), NEW ps,
           NEW parent \in Addresses \cup {Null}, NEW next \in Addresses \cup {Null},
           a \in LeafAddresses => ps \in Seq(Pairs) /\ Len(ps) = Len(ks),
           a \notin LeafAddresses => ps \in Seq(Addresses) /\ Len(ps) = Len(ks) + 1
    PROVE  TypedNode(a, Node(leaf, ks, ps, parent, next))
<1> DEFINE n == Node(leaf, ks, ps, parent, next)
<1>1. CASE a \in LeafAddresses
  <2>1. leaf = TRUE /\ ps \in Seq(Pairs) /\ Len(ps) = Len(ks)
    BY <1>1
  <2>2. n \in NodesOf(TRUE, Pairs) /\ n.keys = ks /\ n.pointers = ps
    BY <2>1 DEF Node, NodesOf
  <2> QED
    BY <1>1, <2>1, <2>2 DEF TypedNode
<1>2. CASE a \notin LeafAddresses
  <2>1. leaf = FALSE /\ ps \in Seq(Addresses) /\ Len(ps) = Len(ks) + 1
    BY <1>2
  <2>2. n \in NodesOf(FALSE, Addresses) /\ n.keys = ks /\ n.pointers = ps
    BY <2>1 DEF Node, NodesOf
  <2> QED
    BY <1>2, <2>1, <2>2 DEF TypedNode
<1> QED
  BY <1>1, <1>2

\* The set of the one node with these fields.
OneNode(leaf, ks, ps, p, nx) ==
    [leaf : {leaf}, keys : {ks}, pointers : {ps}, parent : {p}, next : {nx}]

\* A record is that node just when it has all these fields.
LEMMA OneNodeFacts ==
    ASSUME NEW n, NEW leaf, NEW ks, NEW ps, NEW p, NEW nx
    PROVE  n \in OneNode(leaf, ks, ps, p, nx) <=> n = Node(leaf, ks, ps, p, nx)
BY DEF OneNode, Node

\* Nodes some of whose fields change.
LEMMA NodeEdited ==
    ASSUME NEW a, NEW n, TypedNode(a, n), NEW ks, NEW ps
    PROVE  [n EXCEPT !.keys = ks, !.pointers = ps] = Node(n.leaf, ks, ps, n.parent, n.next)
<1> DEFINE leaf == n.leaf
           oldks == n.keys
           oldps == n.pointers
           parent == n.parent
           next == n.next
<1>1. n \in OneNode(leaf, oldks, oldps, parent, next)
  BY TypedNodeFacts, OneNodeFacts
<1> HIDE DEF leaf, oldks, oldps, parent, next
<1>2. [n EXCEPT !.keys = ks, !.pointers = ps] \in OneNode(leaf, ks, ps, parent, next)
  BY <1>1 DEF OneNode
<1>3. [n EXCEPT !.keys = ks, !.pointers = ps] = Node(leaf, ks, ps, parent, next)
  BY <1>2, OneNodeFacts
<1> QED
  BY <1>3 DEF leaf, oldks, oldps, parent, next

\* A leaf with other keys, records and another leaf linked.
Relinked(n, ks, ps, nx) == [n EXCEPT !.keys = ks, !.pointers = ps, !.next = nx]

\* Such a leaf keeps the rest.
LEMMA NodeRelinked ==
    ASSUME NEW a, NEW n, TypedNode(a, n), NEW ks, NEW ps, NEW nx
    PROVE  Relinked(n, ks, ps, nx) = Node(n.leaf, ks, ps, n.parent, nx)
<1> DEFINE leaf == n.leaf
           oldks == n.keys
           oldps == n.pointers
           parent == n.parent
           next == n.next
<1>1. n \in OneNode(leaf, oldks, oldps, parent, next)
  BY TypedNodeFacts, OneNodeFacts
<1> HIDE DEF leaf, oldks, oldps, parent, next
<1>2. [n EXCEPT !.keys = ks, !.pointers = ps, !.next = nx] \in OneNode(leaf, ks, ps, parent, nx)
  BY <1>1 DEF OneNode
<1>3. [n EXCEPT !.keys = ks, !.pointers = ps, !.next = nx] = Node(leaf, ks, ps, parent, nx)
  BY <1>2, OneNodeFacts
<1> QED
  BY <1>3 DEF Relinked, leaf, oldks, oldps, parent, next

\* A node with other keys keeps the rest.
LEMMA NodeRekeyed ==
    ASSUME NEW a, NEW n, TypedNode(a, n), NEW ks
    PROVE  [n EXCEPT !.keys = ks] = Node(n.leaf, ks, n.pointers, n.parent, n.next)
<1> DEFINE leaf == n.leaf
           oldks == n.keys
           oldps == n.pointers
           parent == n.parent
           next == n.next
<1>1. n \in OneNode(leaf, oldks, oldps, parent, next)
  BY TypedNodeFacts, OneNodeFacts
<1> HIDE DEF leaf, oldks, oldps, parent, next
<1>2. [n EXCEPT !.keys = ks] \in OneNode(leaf, ks, oldps, parent, next)
  BY <1>1 DEF OneNode
<1>3. [n EXCEPT !.keys = ks] = Node(leaf, ks, oldps, parent, next)
  BY <1>2, OneNodeFacts
<1> QED
  BY <1>3 DEF leaf, oldks, oldps, parent, next

\* A node with another parent keeps the rest.
LEMMA NodeMoved ==
    ASSUME NEW a, NEW n, TypedNode(a, n), NEW p
    PROVE  [n EXCEPT !.parent = p] = Node(n.leaf, n.keys, n.pointers, p, n.next)
<1> DEFINE leaf == n.leaf
           oldks == n.keys
           oldps == n.pointers
           parent == n.parent
           next == n.next
<1>1. n \in OneNode(leaf, oldks, oldps, parent, next)
  BY TypedNodeFacts, OneNodeFacts
<1> HIDE DEF leaf, oldks, oldps, parent, next
<1>2. [n EXCEPT !.parent = p] \in OneNode(leaf, oldks, oldps, p, next)
  BY <1>1 DEF OneNode
<1>3. [n EXCEPT !.parent = p] = Node(leaf, oldks, oldps, p, next)
  BY <1>2, OneNodeFacts
<1> QED
  BY <1>3 DEF leaf, oldks, oldps, parent, next

\* A node given another parent.
LEMMA NodeReparented ==
    ASSUME NEW a, NEW n, TypedNode(a, n), NEW p \in Addresses \cup {Null}
    PROVE  /\ [n EXCEPT !.parent = p] = Node(n.leaf, n.keys, n.pointers, p, n.next)
           /\ TypedNode(a, [n EXCEPT !.parent = p])
<1>1. [n EXCEPT !.parent = p] = Node(n.leaf, n.keys, n.pointers, p, n.next)
  BY NodeMoved
<1>2. n.leaf = IF a \in LeafAddresses THEN TRUE ELSE FALSE
  BY DEF TypedNode, NodesOf
<1>3. /\ n.keys \in Seq(Keys) /\ n.next \in Addresses \cup {Null}
      /\ a \in LeafAddresses => n.pointers \in Seq(Pairs) /\ Len(n.pointers) = Len(n.keys)
      /\ a \notin LeafAddresses => n.pointers \in Seq(Addresses) /\ Len(n.pointers) = Len(n.keys) + 1
  BY TypedNodeFacts
<1>4. TypedNode(a, Node(n.leaf, n.keys, n.pointers, p, n.next))
  BY <1>2, <1>3, NodeMade
<1> QED
  BY <1>1, <1>4

\* malloc returns an address that is free.
LEMMA SmallestFree ==
    ASSUME NEW T \in SUBSET Nat, T # {}
    PROVE  Smallest(T) \in T
<1>1. \E x \in T : \A y \in T : x <= y
  BY LeastNumber
<1> QED
  BY <1>1 DEF Smallest

-----------------------------------------------------------------------------
(* Places in a node                                                        *)

\* How many of the keys at the front are at most k.
UpTo(keys, k) == Cardinality({i \in DOMAIN keys : \A j \in 1..i : keys[j] <= k})

\* These are the keys before the first one that is larger.
LEMMA UpToFacts ==
    ASSUME NEW s \in Seq(Keys), NEW k \in Keys
    PROVE  /\ UpTo(s, k) \in 0..Len(s)
           /\ \A j \in 1..UpTo(s, k) : s[j] <= k
           /\ UpTo(s, k) < Len(s) => ~(s[UpTo(s, k) + 1] <= k)
<1> DEFINE P == {j \in Nat : s[j] <= k}
           C == {i \in 1..Len(s) : \A j \in 1..i : j \in P}
<1>1. \A j \in Nat : j \in P <=> s[j] <= k
  OBVIOUS
<1>2. \A i : i \in C <=> i \in 1..Len(s) /\ \A j \in 1..i : j \in P
  OBVIOUS
<1>3. Len(s) \in Nat
  BY LenProperties
<1>4. UpTo(s, k) = Cardinality(C)
  <2>1. C = {i \in DOMAIN s : \A j \in 1..i : s[j] <= k}
    <3>1. DOMAIN s = 1..Len(s)
      BY LenProperties
    <3> QED
      BY <1>3, <3>1
  <2> HIDE DEF C
  <2> QED
    BY <2>1 DEF UpTo
<1>5. PICK m \in 0..Len(s) :
        /\ Cardinality(C) = m
        /\ \A j \in 1..m : j \in P
        /\ m < Len(s) => m + 1 \notin P
  <2> HIDE DEF P, C
  <2> QED
    BY <1>2, <1>3, LeadingCount
<1> HIDE DEF P
<1> HIDE DEF C
<1>6. UpTo(s, k) = m
  BY <1>4, <1>5
<1>7. (\A j \in 1..m : s[j] <= k) /\ (m < Len(s) => ~(s[m + 1] <= k))
  BY <1>5, <1>3, <1>1
<1> QED
  BY <1>6, <1>7

\* A key goes after the keys that are smaller, before the first that is not.
LEMMA InsertionPointFacts ==
    ASSUME NEW s \in Seq(Keys), NEW k \in Keys
    PROVE  /\ InsertionPoint(s, k) \in 1..(Len(s) + 1)
           /\ \A j \in 1..(InsertionPoint(s, k) - 1) : s[j] < k
           /\ InsertionPoint(s, k) <= Len(s) => ~(s[InsertionPoint(s, k)] < k)
<1> DEFINE P == {j \in Nat : s[j] < k}
           C == {i \in 1..Len(s) : \A j \in 1..i : j \in P}
<1>1. \A j \in Nat : j \in P <=> s[j] < k
  OBVIOUS
<1>2. \A i : i \in C <=> i \in 1..Len(s) /\ \A j \in 1..i : j \in P
  OBVIOUS
<1>3. Len(s) \in Nat
  BY LenProperties
<1>4. InsertionPoint(s, k) = Cardinality(C) + 1
  <2>1. C = {i \in DOMAIN s : \A j \in 1..i : s[j] < k}
    <3>1. DOMAIN s = 1..Len(s)
      BY LenProperties
    <3> QED
      BY <1>3, <3>1
  <2> HIDE DEF C
  <2> QED
    BY <2>1 DEF InsertionPoint, Leading
<1>5. PICK m \in 0..Len(s) :
        /\ Cardinality(C) = m
        /\ \A j \in 1..m : j \in P
        /\ m < Len(s) => m + 1 \notin P
  <2> HIDE DEF P, C
  <2> QED
    BY <1>2, <1>3, LeadingCount
<1> HIDE DEF P
<1> HIDE DEF C
<1>6. InsertionPoint(s, k) = m + 1
  BY <1>4, <1>5
<1>7. (\A j \in 1..m : s[j] < k) /\ (m < Len(s) => ~(s[m + 1] < k))
  BY <1>5, <1>3, <1>1
<1>8. m + 1 - 1 = m /\ m + 1 \in 1..(Len(s) + 1) /\ (m + 1 <= Len(s) => m < Len(s))
  BY <1>3
<1> QED
  BY <1>6, <1>7, <1>8

\* IndexOf yields a place of an element that the sequence has.
LEMMA IndexOfFacts ==
    ASSUME NEW S, NEW s \in Seq(S), NEW x, \E i \in 1..Len(s) : s[i] = x
    PROVE  IndexOf(s, x) \in 1..Len(s) /\ s[IndexOf(s, x)] = x
<1>1. DOMAIN s = 1..Len(s)
  BY LenProperties
<1>2. \E i \in DOMAIN s : s[i] = x
  BY <1>1
<1>3. IndexOf(s, x) \in DOMAIN s /\ s[IndexOf(s, x)] = x
  BY <1>2 DEF IndexOf
<1> QED
  BY <1>1, <1>3

-----------------------------------------------------------------------------
(* Looking for a leaf                                                      *)

\* Between calls find_leaf goes down from the root, by the keys, to a leaf.
LEMMA FindLeafFacts ==
    ASSUME Shape, todo = NoCall, root # Null, NEW k \in Keys
    PROVE  \E d \in [DOMAIN heap -> DOMAIN heap] :
             /\ find_leaf(k) = d[root]
             /\ \A c \in DOMAIN heap :
                  d[c] = IF c \in LeafAddresses THEN c
                         ELSE d[heap[c].pointers[UpTo(heap[c].keys, k) + 1]]
             /\ \A c \in DOMAIN heap : d[c] \in LeafAddresses
<1> DEFINE D == DOMAIN heap
           E == D \cap LeafAddresses
           base == [c \in D |-> c]
           child == [c \in D \ E |-> heap[c].pointers[UpTo(heap[c].keys, k) + 1]]
           step == [p \in (D \ E) \X D |-> p[2]]
<1>1. PICK h \in [D -> Nat] : Graded(h)
  BY DEF Shape
<1>2. TypeOK /\ Live = D /\ LiveInner = D \ E /\ root \in D
  BY DEF Shape, TypeOK, Live, Dead, Repairing, NoCall, LiveInner
<1> DEFINE bound == h[root] + 1
<1>3. bound \in Nat /\ \A c \in D : h[c] < bound
  BY <1>1, <1>2 DEF Graded
<1>4. ASSUME NEW c \in D \ E PROVE child[c] \in D /\ h[child[c]] < h[c]
  <2>1. /\ heap[c].keys \in Seq(Keys) /\ Len(heap[c].keys) \in Nat
        /\ Len(heap[c].pointers) = Len(heap[c].keys) + 1
    BY <1>2, <1>4, NodeFacts
  <2>2. UpTo(heap[c].keys, k) \in 0..Len(heap[c].keys)
    BY <2>1, UpToFacts
  <2>3. UpTo(heap[c].keys, k) + 1 \in 1..Len(heap[c].pointers)
    BY <2>1, <2>2
  <2>4. child[c] \in D
    BY <1>2, <1>4, <2>3 DEF Shape, ChildrenAgree
  <2>5. h[child[c]] + 1 = h[c]
    BY <1>1, <1>2, <1>4, <2>3 DEF Graded
  <2> QED
    BY <2>4, <2>5
<1>5. \E d \in [D -> D] : \A c \in D : d[c] = IF c \in E THEN base[c] ELSE step[<<c, d[child[c]]>>]
  <2>1. /\ E \subseteq D /\ base \in [D -> D] /\ child \in [D \ E -> D]
        /\ step \in [(D \ E) \X D -> D]
    BY <1>4
  <2>2. \A c \in D \ E : h[child[c]] < h[c]
    BY <1>4
  <2> HIDE DEF D, E, base, child, step, bound
  <2>3. Recursion(D, D, E, base, child, step, h, bound)
    BY <2>1, <2>2, <1>1, <1>3 DEF Recursion
  <2> QED
    BY <2>3, RecursiveFunction
<1> DEFINE Right(d) == d = [c \in D |-> IF heap[c].leaf THEN c
                                        ELSE d[heap[c].pointers[UpTo(heap[c].keys, k) + 1]]]
<1>6. \E d : Right(d)
  <2>1. PICK d \in [D -> D] : \A c \in D : d[c] = IF c \in E THEN base[c] ELSE step[<<c, d[child[c]]>>]
    BY <1>5
  <2>2. ASSUME NEW c \in D
        PROVE  d[c] = IF heap[c].leaf THEN c ELSE d[heap[c].pointers[UpTo(heap[c].keys, k) + 1]]
    <3>1. heap[c].leaf <=> c \in LeafAddresses
      BY <1>2, NodeFacts
    <3>2. CASE c \in LeafAddresses
      BY <2>1, <3>1, <3>2
    <3>3. CASE c \notin LeafAddresses
      <4>1. d[child[c]] \in D
        BY <1>4, <3>3
      <4> QED
        BY <2>1, <3>1, <3>3, <4>1
    <3> QED
      BY <3>2, <3>3
  <2> QED
    BY <2>2
<1> DEFINE d == CHOOSE down : Right(down)
<1>7. Right(d)
  <2> HIDE DEF Right
  <2> QED
    BY <1>6
<1>8. find_leaf(k) = d[root]
  BY DEF find_leaf, Leading, UpTo
<1> HIDE DEF d
<1>9. DOMAIN d = D /\ \A c \in D :
          d[c] = IF c \in LeafAddresses THEN c ELSE d[heap[c].pointers[UpTo(heap[c].keys, k) + 1]]
  BY <1>2, <1>7, NodeFacts
<1>10. {c \in D : d[c] \in D /\ d[c] \in LeafAddresses} = D
  <2> DEFINE T == {c \in D : d[c] \in D /\ d[c] \in LeafAddresses}
  <2>1. ASSUME NEW c \in D, \A b \in D : h[b] < h[c] => b \in T PROVE c \in T
    <3>1. CASE c \in LeafAddresses
      BY <1>9, <3>1
    <3>2. CASE c \notin LeafAddresses
      <4>1. child[c] \in T
        BY <1>4, <2>1, <3>2
      <4> QED
        BY <1>9, <3>2, <4>1
    <3> QED
      BY <3>1, <3>2
  <2>2. T \in SUBSET D
    OBVIOUS
  <2> HIDE DEF T, D
  <2>3. T = D
    BY <2>1, <2>2, <1>1, MeasureInduction
  <2> QED
    BY <2>3 DEF T
<1>11. d \in [D -> D]
  BY <1>7, <1>9, <1>10
<1> QED
  BY <1>8, <1>9, <1>10, <1>11

-----------------------------------------------------------------------------
(* Calls under way                                                         *)

\* Between calls every node is live and linked.
LEMMA BetweenCalls ==
    ASSUME todo = NoCall
    PROVE  /\ ~Splitting /\ ~Repairing /\ Dead = {} /\ Unlinked = {}
           /\ Live = DOMAIN heap /\ LiveInner = DOMAIN heap \ LeafAddresses
BY DEF NoCall, Splitting, Repairing, Dead, Unlinked, Live, LiveInner

\* A leaf that find_leaf returns.
LEMMA FoundLeaf ==
    ASSUME Shape, todo = NoCall, root # Null, NEW k \in Keys
    PROVE  find_leaf(k) \in DOMAIN heap /\ find_leaf(k) \in LeafAddresses
<1>1. PICK d \in [DOMAIN heap -> DOMAIN heap] :
        find_leaf(k) = d[root] /\ \A c \in DOMAIN heap : d[c] \in LeafAddresses
  BY FindLeafFacts
<1>2. root \in DOMAIN heap
  BY DEF Shape, TypeOK
<1> QED
  BY <1>1, <1>2

\* find yields the record at the place of the key in the leaf of find_leaf.
LEMMA FindFacts ==
    ASSUME Shape, todo = NoCall, NEW k \in Keys
    PROVE  /\ root = Null => find(k) = Null
           /\ root # Null /\ (\A i \in 1..Len(heap[find_leaf(k)].keys) : heap[find_leaf(k)].keys[i] # k) =>
                find(k) = Null
           /\ root # Null /\ (\E i \in 1..Len(heap[find_leaf(k)].keys) : heap[find_leaf(k)].keys[i] = k) =>
                /\ find(k) = heap[find_leaf(k)].pointers[IndexOf(heap[find_leaf(k)].keys, k)]
                /\ find(k) # Null
<1> DEFINE a == find_leaf(k)
<1>1. CASE root = Null
  BY <1>1 DEF find, find_leaf
<1>2. CASE root # Null
  <2>1. a \in DOMAIN heap /\ a \in LeafAddresses
    BY <1>2, FoundLeaf
  <2> HIDE DEF a
  <2>2. /\ heap[a].keys \in Seq(Keys) /\ heap[a].pointers \in Seq(Pairs) /\ a # Null
        /\ Len(heap[a].pointers) = Len(heap[a].keys)
    BY <2>1, NodeFacts DEF Shape
  <2>3. DOMAIN heap[a].keys = 1..Len(heap[a].keys)
    BY <2>2, LenProperties
  <2>4. find(k) = IF \E i \in 1..Len(heap[a].keys) : heap[a].keys[i] = k
                  THEN heap[a].pointers[IndexOf(heap[a].keys, k)] ELSE Null
    BY <2>2, <2>3 DEF find, a
  <2>5. ASSUME \E i \in 1..Len(heap[a].keys) : heap[a].keys[i] = k
        PROVE  heap[a].pointers[IndexOf(heap[a].keys, k)] # Null
    <3>1. IndexOf(heap[a].keys, k) \in 1..Len(heap[a].keys)
      BY <2>2, <2>5, IndexOfFacts
    <3>2. heap[a].pointers[IndexOf(heap[a].keys, k)] \in Pairs
      BY <2>2, <3>1, ElementOfSeq
    <3> QED
      BY <3>2, TreeAssumption
  <2> QED
    BY <1>2, <2>4, <2>5 DEF a
<1> QED
  BY <1>1, <1>2

-----------------------------------------------------------------------------
(* What the insertions do                                                  *)

\* A record r of a key k goes into a leaf a, at place i, where there is room.
InsertedIntoLeaf(k, r, a, i) ==
    /\ todo = NoCall /\ todo' = NoCall /\ root # Null /\ root' = root
    /\ a = find_leaf(k) /\ a \in DOMAIN heap /\ a \in LeafAddresses
    /\ Len(heap[a].keys) < Order - 1
    /\ i = InsertionPoint(heap[a].keys, k) /\ i \in 1..(Len(heap[a].keys) + 1)
    /\ DOMAIN heap' = DOMAIN heap
    /\ PutIn(heap'[a].keys, heap[a].keys, i, k) /\ PutIn(heap'[a].pointers, heap[a].pointers, i, r)
    /\ heap'[a].parent = heap[a].parent /\ heap'[a].next = heap[a].next
    /\ \A x \in DOMAIN heap \ {a} : heap'[x] = heap[x]
    /\ find(k) = Null /\ records' = records \cup {r}

\* What make_record makes is a record of its key.
LEMMA RecordFacts ==
    ASSUME NEW k \in Keys, NEW v \in Versions[k]
    PROVE  Record(k, v) \in Pairs /\ Record(k, v)[1] = k
BY DEF Pairs, Record

\* insert_into_leaf does that.
LEMMA InsertIntoLeafStep ==
    ASSUME Shape, NEW k \in Keys, NEW v \in Versions[k], InsertIntoLeaf(k, v)
    PROVE  /\ TypeOK' /\ NodesTyped(heap')
           /\ \E a, i : InsertedIntoLeaf(k, Record(k, v), a, i)
<1> DEFINE a == find_leaf(k)
           i == InsertionPoint(heap[a].keys, k)
           ks == InsertAt(heap[a].keys, i, k)
           ps == InsertAt(heap[a].pointers, i, Record(k, v))
<1>1. /\ todo = NoCall /\ root # Null /\ find(k) = Null /\ Len(heap[a].keys) < Order - 1
      /\ heap' = [heap EXCEPT ![a].keys = InsertAt(@, i, k),
                              ![a].pointers = InsertAt(@, i, Record(k, v))]
      /\ todo' = todo /\ root' = root /\ records' = records \cup {Record(k, v)}
  BY DEF InsertIntoLeaf
<1>2. a \in DOMAIN heap /\ a \in LeafAddresses
  BY <1>1, FoundLeaf
<1> HIDE DEF a
<1>3. TypeOK /\ TypedNode(a, heap[a])
  BY <1>2, NodeFacts DEF Shape
<1>4. /\ heap[a].keys \in Seq(Keys) /\ heap[a].pointers \in Seq(Pairs)
      /\ Len(heap[a].pointers) = Len(heap[a].keys) /\ Len(heap[a].keys) \in Nat
      /\ heap[a].parent \in Addresses \cup {Null} /\ heap[a].next \in Addresses \cup {Null}
      /\ heap[a].leaf = TRUE
  BY <1>2, <1>3, NodeFacts DEF TypedNode, NodesOf
<1>5. i \in 1..(Len(heap[a].keys) + 1) /\ i = InsertionPoint(heap[a].keys, k)
  BY <1>4, InsertionPointFacts
<1>6. Record(k, v) \in Pairs
  BY RecordFacts
<1> HIDE DEF i
<1>7. /\ ks \in Seq(Keys) /\ PutIn(ks, heap[a].keys, i, k)
      /\ ps \in Seq(Pairs) /\ PutIn(ps, heap[a].pointers, i, Record(k, v))
  BY <1>4, <1>5, <1>6, SequencesMade
<1>8. heap' = [heap EXCEPT ![a].keys = ks, ![a].pointers = ps]
  BY <1>1
<1> HIDE DEF ks, ps
<1>9. heap'[a] = [heap[a] EXCEPT !.keys = ks, !.pointers = ps]
  BY <1>2, <1>3, <1>4, <1>8 DEF TypedNode, NodesOf
<1>10. heap'[a] = Node(heap[a].leaf, ks, ps, heap[a].parent, heap[a].next)
  BY <1>3, <1>9, NodeEdited
<1>11. /\ DOMAIN heap' = DOMAIN heap /\ heap' = [x \in DOMAIN heap' |-> heap'[x]]
       /\ \A x \in DOMAIN heap \ {a} : heap'[x] = heap[x]
  BY <1>2, <1>8
<1>12. TypedNode(a, heap'[a])
  <2>1. Len(ps) = Len(ks)
    BY <1>4, <1>7 DEF PutIn
  <2> QED
    BY ZenonT(30), <1>2, <1>4, <1>7, <1>10, <2>1, NodeMade
<1>13. TypeOK' /\ NodesTyped(heap')
  <2>1. \A x \in DOMAIN heap' : TypedNode(x, heap'[x])
    BY <1>3, <1>11, <1>12, NodeFacts
  <2> QED
    BY <1>1, <1>3, <1>6, <1>11, <2>1 DEF TypeOK, TypedNode, NodesTyped
<1>14. /\ heap'[a].keys = ks /\ heap'[a].pointers = ps
       /\ heap'[a].parent = heap[a].parent /\ heap'[a].next = heap[a].next
  BY <1>10 DEF Node
<1>15. InsertedIntoLeaf(k, Record(k, v), a, i)
  BY <1>1, <1>2, <1>5, <1>7, <1>11, <1>14 DEF InsertedIntoLeaf, a
<1> QED
  BY <1>13, <1>15

\* What With, Without and Adopt make of a heap, address by address.
IsWith(g, h, a, n) ==
    /\ DOMAIN g = DOMAIN h \cup {a} /\ g = [x \in DOMAIN g |-> g[x]]
    /\ g[a] = n /\ \A x \in DOMAIN h : x # a => g[x] = h[x]

\* g is the heap h without the nodes at S.
IsWithout(g, h, S) ==
    /\ DOMAIN g = DOMAIN h \ S /\ g = [x \in DOMAIN g |-> g[x]]
    /\ \A x \in DOMAIN h : x \notin S => g[x] = h[x]

\* g is the heap h with the nodes at S given the parent p.
IsAdopted(g, h, S, p) ==
    /\ DOMAIN g = DOMAIN h /\ g = [x \in DOMAIN g |-> g[x]]
    /\ \A x \in DOMAIN h : x \notin S => g[x] = h[x]
    /\ \A x \in DOMAIN h : x \in S => g[x] = [h[x] EXCEPT !.parent = p]

\* With, Without and Adopt make these heaps.
LEMMA HeapsMade ==
    ASSUME NEW h
    PROVE  /\ \A a, n : IsWith(With(h, a, n), h, a, n)
           /\ \A S : IsWithout(Without(h, S), h, S)
           /\ \A S, p : IsAdopted(Adopt(h, S, p), h, S, p)
<1>1. ASSUME NEW a, NEW n PROVE IsWith(With(h, a, n), h, a, n)
  BY DEF With, IsWith
<1>2. ASSUME NEW S PROVE IsWithout(Without(h, S), h, S)
  BY DEF Without, IsWithout
<1>3. ASSUME NEW S, NEW p PROVE IsAdopted(Adopt(h, S, p), h, S, p)
  BY DEF Adopt, IsAdopted
<1> QED
  BY <1>1, <1>2, <1>3

\* The first record r of a key k makes a leaf a the root.
StartedNewTree(k, r, a) ==
    /\ todo = NoCall /\ todo' = NoCall /\ root = Null /\ root' = a
    /\ a \in LeafAddresses /\ DOMAIN heap' = DOMAIN heap \cup {a}
    /\ a \notin DOMAIN heap
    /\ heap'[a] = Node(TRUE, <<k>>, <<r>>, Null, Null)
    /\ \A x \in DOMAIN heap : heap'[x] = heap[x]
    /\ records' = records \cup {r}

\* start_new_tree does that.
LEMMA StartNewTreeStep ==
    ASSUME Shape, NEW k \in Keys, NEW v \in Versions[k], StartNewTree(k, v)
    PROVE  /\ TypeOK' /\ NodesTyped(heap')
           /\ \E a : StartedNewTree(k, Record(k, v), a)
<1> DEFINE a == make_leaf(heap)
           n == Node(TRUE, <<k>>, <<Record(k, v)>>, Null, Null)
<1>1. /\ todo = NoCall /\ root = Null /\ FreeLeaves(heap) # {}
      /\ heap' = With(heap, a, n)
      /\ root' = a /\ records' = records \cup {Record(k, v)} /\ todo' = todo
  BY DEF StartNewTree
<1>2. a \in LeafAddresses /\ a \notin DOMAIN heap /\ a \in Addresses
  BY <1>1, SmallestFree, TreeAssumption DEF make_leaf, FreeLeaves, Addresses
<1>3. TypeOK
  BY DEF Shape
<1>4. Record(k, v) \in Pairs
  BY RecordFacts
<1> HIDE DEF a
<1>5. TypedNode(a, n)
  <2>1. <<k>> \in Seq(Keys) /\ <<Record(k, v)>> \in Seq(Pairs) /\ Len(<<Record(k, v)>>) = Len(<<k>>)
    BY <1>4
  <2> QED
    BY <1>2, <2>1, NodeMade
<1> HIDE DEF n
<1>6. /\ DOMAIN heap' = DOMAIN heap \cup {a} /\ heap' = [x \in DOMAIN heap' |-> heap'[x]]
      /\ heap'[a] = n /\ \A x \in DOMAIN heap : heap'[x] = heap[x]
  <2>1. IsWith(heap', heap, a, n)
    BY <1>1, HeapsMade
  <2> QED
    BY <1>2, <2>1 DEF IsWith
<1>7. NodesTyped(heap')
  BY <1>3, <1>5, <1>6, NodeFacts DEF NodesTyped
<1>8. TypeOK'
  <2>1. IsFiniteSet(DOMAIN heap') /\ DOMAIN heap' \subseteq Addresses
    BY <1>2, <1>3, <1>6, FS_AddElement DEF TypeOK
  <2> QED
    BY <1>1, <1>3, <1>4, <1>6, <1>7, <2>1 DEF TypeOK, TypedNode, NodesTyped
<1>9. StartedNewTree(k, Record(k, v), a)
  BY <1>1, <1>2, <1>6 DEF StartedNewTree, n
<1> QED
  BY <1>7, <1>8, <1>9

\* A leaf a that is full is split to make room for a record r of a key k: the
\* leaf b gets what is after place m of the keys ks and the records ps.
SplitTheLeaf(k, r, a, b, i, ks, ps, m) ==
    /\ todo = NoCall /\ root # Null /\ root' = root
    /\ a = find_leaf(k) /\ a \in DOMAIN heap /\ a \in LeafAddresses
    /\ b \in LeafAddresses /\ b \notin DOMAIN heap
    /\ Len(heap[a].keys) = Order - 1
    /\ i = InsertionPoint(heap[a].keys, k) /\ i \in 1..(Len(heap[a].keys) + 1)
    /\ ks \in Seq(Keys) /\ PutIn(ks, heap[a].keys, i, k)
    /\ ps \in Seq(Pairs) /\ PutIn(ps, heap[a].pointers, i, r)
    /\ m = cut(Order - 1) /\ m \in 1..(Order - 1)
    /\ DOMAIN heap' = DOMAIN heap \cup {b}
    /\ PartOf(heap'[a].keys, ks, 1, m) /\ PartOf(heap'[b].keys, ks, m + 1, Order)
    /\ PartOf(heap'[a].pointers, ps, 1, m) /\ PartOf(heap'[b].pointers, ps, m + 1, Order)
    /\ heap'[a].parent = heap[a].parent /\ heap'[b].parent = heap[a].parent
    /\ heap'[a].next = b /\ heap'[b].next = heap[a].next
    /\ \A x \in DOMAIN heap \ {a} : heap'[x] = heap[x]
    /\ todo' = [call |-> "insert_into_parent", left |-> a, key |-> ks[m + 1], right |-> b]
    /\ find(k) = Null /\ records' = records \cup {r}

\* insert_into_leaf_after_splitting does that.
LEMMA SplitLeafStep ==
    ASSUME Shape, NEW k \in Keys, NEW v \in Versions[k], SplitLeaf(k, v)
    PROVE  /\ TypeOK' /\ NodesTyped(heap')
           /\ \E a, b, i, ks, ps, m : SplitTheLeaf(k, Record(k, v), a, b, i, ks, ps, m)
<1> DEFINE a == find_leaf(k)
           b == make_leaf(heap)
           i == InsertionPoint(heap[a].keys, k)
           ks == InsertAt(heap[a].keys, i, k)
           ps == InsertAt(heap[a].pointers, i, Record(k, v))
           m == cut(Order - 1)
           left == Node(TRUE, SubSeq(ks, 1, m), SubSeq(ps, 1, m), heap[a].parent, b)
           right == Node(TRUE, SubSeq(ks, m + 1, Order), SubSeq(ps, m + 1, Order), heap[a].parent, heap[a].next)
<1>1. /\ todo = NoCall /\ root # Null /\ find(k) = Null /\ FreeLeaves(heap) # {}
      /\ Len(heap[a].keys) >= Order - 1
      /\ heap' = With(With(heap, a, left), b, right)
      /\ todo' = [call |-> "insert_into_parent", left |-> a, key |-> right.keys[1], right |-> b]
      /\ root' = root /\ records' = records \cup {Record(k, v)}
  BY DEF SplitLeaf
<1>2. a \in DOMAIN heap /\ a \in LeafAddresses /\ a \in Addresses
  BY <1>1, FoundLeaf DEF Addresses
<1>3. b \in LeafAddresses /\ b \notin DOMAIN heap /\ b \in Addresses
  BY <1>1, SmallestFree, TreeAssumption DEF make_leaf, FreeLeaves, Addresses
<1>4. b = make_leaf(heap) /\ a = find_leaf(k) /\ i = InsertionPoint(heap[a].keys, k) /\ m = cut(Order - 1)
  OBVIOUS
<1> HIDE DEF a, b, m
<1>5. /\ TypeOK /\ heap[a].keys \in Seq(Keys) /\ heap[a].pointers \in Seq(Pairs)
      /\ Len(heap[a].pointers) = Len(heap[a].keys) /\ Len(heap[a].keys) \in Nat
      /\ heap[a].parent \in Addresses \cup {Null} /\ heap[a].next \in Addresses \cup {Null}
  BY <1>2, NodeFacts DEF Shape
<1>6. Order \in Nat /\ Len(heap[a].keys) = Order - 1
  <2>1. Len(heap[a].keys) <= Order - 1
    BY <1>1, <1>2, BetweenCalls DEF Shape, Sizes
  <2> QED
    BY <1>1, <1>5, <2>1, TreeAssumption
<1>7. m \in 1..(Order - 1) /\ m + 1 \in 1..(Order + 1) /\ Order \in (m + 1 - 1)..Order /\ m \in 0..Order
  <2>1. Order - 1 \in Nat /\ Order >= 3
    BY TreeAssumption
  <2>2. m \in Nat /\ 2 * m >= Order - 1 /\ 2 * m <= Order - 1 + 1
    BY <1>4, <2>1, Halves
  <2> QED
    BY <1>6, <2>1, <2>2
<1>8. i \in 1..(Len(heap[a].keys) + 1)
  BY <1>4, <1>5, InsertionPointFacts
<1>9. Record(k, v) \in Pairs
  BY RecordFacts
<1> HIDE DEF i
<1>10. /\ ks \in Seq(Keys) /\ PutIn(ks, heap[a].keys, i, k)
       /\ ps \in Seq(Pairs) /\ PutIn(ps, heap[a].pointers, i, Record(k, v))
  BY <1>5, <1>8, <1>9, SequencesMade
<1> HIDE DEF ks, ps
<1>11. Len(ks) = Order /\ Len(ps) = Order
  BY <1>5, <1>6, <1>10 DEF PutIn
<1> DEFINE lk == SubSeq(ks, 1, m)
           rk == SubSeq(ks, m + 1, Order)
           lp == SubSeq(ps, 1, m)
           rp == SubSeq(ps, m + 1, Order)
<1>12. /\ lk \in Seq(Keys) /\ PartOf(lk, ks, 1, m) /\ rk \in Seq(Keys) /\ PartOf(rk, ks, m + 1, Order)
       /\ lp \in Seq(Pairs) /\ PartOf(lp, ps, 1, m) /\ rp \in Seq(Pairs) /\ PartOf(rp, ps, m + 1, Order)
  BY <1>7, <1>10, <1>11, PartsMade
<1>13. /\ left = Node(TRUE, lk, lp, heap[a].parent, b)
       /\ right = Node(TRUE, rk, rp, heap[a].parent, heap[a].next)
  OBVIOUS
<1> HIDE DEF lk, rk, lp, rp, left, right
<1>14. Len(lk) = Len(lp) /\ Len(rk) = Len(rp) /\ rk[1] = ks[m + 1]
  <2>1. 1 \in 1..(Order - (m + 1) + 1) /\ m + 1 + 1 - 1 = m + 1
    BY <1>6, <1>7
  <2> QED
    BY <1>12, <2>1 DEF PartOf
<1>15. TypedNode(a, left) /\ TypedNode(b, right)
  BY <1>2, <1>3, <1>5, <1>12, <1>13, <1>14, NodeMade
<1>16. /\ DOMAIN heap' = DOMAIN heap \cup {b} /\ heap' = [x \in DOMAIN heap' |-> heap'[x]]
       /\ heap'[a] = left /\ heap'[b] = right /\ \A x \in DOMAIN heap \ {a} : heap'[x] = heap[x]
  <2> DEFINE h == With(heap, a, left)
  <2>1. IsWith(h, heap, a, left)
    BY HeapsMade
  <2>2. heap' = With(h, b, right)
    BY <1>1
  <2> HIDE DEF h
  <2>3. IsWith(heap', h, b, right)
    BY <2>2, HeapsMade
  <2> QED
    BY <1>2, <1>3, <2>1, <2>3 DEF IsWith
<1>17. NodesTyped(heap')
  BY <1>5, <1>15, <1>16, NodeFacts DEF NodesTyped
<1>18. TypeOK'
  <2>1. IsFiniteSet(DOMAIN heap') /\ DOMAIN heap' \subseteq Addresses
    BY <1>3, <1>5, <1>16, FS_AddElement DEF TypeOK
  <2>2. todo' \in Calls
    <3>1. right.keys[1] \in Keys
      <4>1. right.keys = rk /\ 1 \in 1..Len(rk)
        BY <1>6, <1>7, <1>12, <1>13 DEF Node, PartOf
      <4> QED
        BY <1>12, <4>1, ElementOfSeq
    <3> QED
      BY <1>1, <1>2, <1>3, <3>1 DEF Calls
  <2> QED
    BY <1>1, <1>5, <1>9, <1>16, <1>17, <2>1, <2>2 DEF TypeOK, TypedNode, NodesTyped
<1>19. SplitTheLeaf(k, Record(k, v), a, b, i, ks, ps, m)
  <2>1. /\ heap'[a].keys = lk /\ heap'[b].keys = rk /\ heap'[a].pointers = lp /\ heap'[b].pointers = rp
        /\ heap'[a].parent = heap[a].parent /\ heap'[b].parent = heap[a].parent
        /\ heap'[a].next = b /\ heap'[b].next = heap[a].next /\ right.keys = rk
    BY <1>13, <1>16 DEF Node
  <2> QED
    BY <1>1, <1>2, <1>3, <1>4, <1>6, <1>7, <1>8, <1>10, <1>12, <1>14, <1>16, <2>1 DEF SplitTheLeaf, i
<1> QED
  BY <1>17, <1>18, <1>19

\* While a split is to be put into the parent, both halves are in the tree's
\* heap; their parent, if they have one, points to the left one.
LEMMA SplittingFacts ==
    ASSUME Shape, Splitting
    PROVE  /\ todo.left \in DOMAIN heap /\ todo.right \in DOMAIN heap /\ todo.left # todo.right
           /\ todo.left \in Addresses /\ todo.right \in Addresses /\ todo.key \in Keys
           /\ ~Repairing /\ Dead = {} /\ Unlinked = {todo.right}
           /\ Live = DOMAIN heap /\ LiveInner = DOMAIN heap \ LeafAddresses
           /\ heap[todo.right].parent = heap[todo.left].parent
           /\ todo.right # root /\ root \in DOMAIN heap
           /\ heap[todo.left].parent = Null => root = todo.left
           /\ heap[todo.left].parent # Null =>
                /\ todo.left # root
                /\ heap[todo.left].parent \in DOMAIN heap /\ heap[todo.left].parent \notin LeafAddresses
                /\ \E i \in 1..Len(heap[heap[todo.left].parent].pointers) :
                      heap[heap[todo.left].parent].pointers[i] = todo.left
<1>1. TypeOK /\ todo.call = "insert_into_parent" /\ todo \in Calls /\ Null \notin Addresses
  BY TreeAssumption DEF Shape, TypeOK, Splitting
<1>2. todo \in [call : {"insert_into_parent"}, left : Addresses, key : Keys, right : Addresses]
  BY <1>1 DEF Calls, NoCall
<1>3. ~Repairing /\ Dead = {} /\ Unlinked = {todo.right} /\ Live = DOMAIN heap
  BY <1>1 DEF Repairing, Dead, Unlinked, Splitting, Live
<1>4. LiveInner = DOMAIN heap \ LeafAddresses
  BY <1>3 DEF LiveInner
<1>5. /\ todo.left \in DOMAIN heap /\ todo.right \in DOMAIN heap \ {todo.left, root}
      /\ heap[todo.right].parent = heap[todo.left].parent
  BY <1>3 DEF Shape, CallSound
<1>6. root \in DOMAIN heap /\ heap[root].parent = Null
  <2>1. root # Null
    BY <1>1 DEF Shape, RootSound, NoCall
  <2> QED
    BY <2>1, <1>3 DEF Shape, RootSound
<1>7. todo.left # root =>
        /\ heap[todo.left].parent \in DOMAIN heap \ LeafAddresses
        /\ \E i \in 1..Len(heap[heap[todo.left].parent].pointers) :
              heap[heap[todo.left].parent].pointers[i] = todo.left
  BY <1>3, <1>4, <1>5 DEF Shape, ParentsPoint
<1>8. Null \notin DOMAIN heap
  BY <1>1 DEF TypeOK
<1> QED
  BY <1>2, <1>3, <1>4, <1>5, <1>6, <1>7, <1>8

\* The root was split: a node a above its halves is the new root.
InsertedIntoNewRoot(a) ==
    /\ Splitting /\ todo' = NoCall /\ todo.left = root /\ root' = a /\ records' = records
    /\ a \notin LeafAddresses /\ a \notin DOMAIN heap /\ a \in Addresses
    /\ DOMAIN heap' = DOMAIN heap \cup {a}
    /\ heap'[a] = Node(FALSE, <<todo.key>>, <<todo.left, todo.right>>, Null, Null)
    /\ \A x \in {todo.left, todo.right} :
        heap'[x] = Node(heap[x].leaf, heap[x].keys, heap[x].pointers, a, heap[x].next)
    /\ \A x \in DOMAIN heap \ {todo.left, todo.right} : heap'[x] = heap[x]

\* insert_into_new_root does that.
LEMMA InsertIntoNewRootStep ==
    ASSUME Shape, InsertIntoNewRoot
    PROVE  /\ TypeOK' /\ NodesTyped(heap')
           /\ \E a : InsertedIntoNewRoot(a)
<1> DEFINE a == make_node(heap)
           l == todo.left
           r == todo.right
           n == Node(FALSE, <<todo.key>>, <<l, r>>, Null, Null)
           g == With(heap, a, n)
<1>1. /\ Splitting /\ heap[l].parent = Null /\ FreeInner(heap) # {}
      /\ heap' = Adopt(g, {l, r}, a) /\ root' = a /\ todo' = NoCall /\ records' = records
  BY DEF InsertIntoNewRoot, Splitting
<1>2. a \in InnerAddresses /\ a \notin DOMAIN heap /\ a \in Addresses /\ a \notin LeafAddresses
  BY <1>1, SmallestFree, TreeAssumption DEF make_node, FreeInner, Addresses
<1> HIDE DEF a
<1>3. /\ l \in DOMAIN heap /\ r \in DOMAIN heap /\ l # r /\ l \in Addresses /\ r \in Addresses
      /\ todo.key \in Keys /\ root = l
  BY <1>1, SplittingFacts
<1>4. TypeOK
  BY DEF Shape
<1>5. TypedNode(a, n)
  <2>1. <<todo.key>> \in Seq(Keys) /\ <<l, r>> \in Seq(Addresses) /\ Len(<<l, r>>) = Len(<<todo.key>>) + 1
    BY <1>3
  <2> QED
    BY <1>2, <2>1, NodeMade
<1>6. n = Node(FALSE, <<todo.key>>, <<l, r>>, Null, Null)
  OBVIOUS
<1> HIDE DEF n
<1>7. IsWith(g, heap, a, n) /\ IsAdopted(heap', g, {l, r}, a)
  BY <1>1, HeapsMade
<1> HIDE DEF g
<1>8. /\ DOMAIN heap' = DOMAIN heap \cup {a} /\ heap' = [x \in DOMAIN heap' |-> heap'[x]]
      /\ heap'[a] = n
      /\ \A x \in DOMAIN heap \ {l, r} : heap'[x] = heap[x]
      /\ \A x \in {l, r} : heap'[x] = [heap[x] EXCEPT !.parent = a]
  BY <1>2, <1>3, <1>7 DEF IsWith, IsAdopted
<1>9. ASSUME NEW x \in {l, r}
      PROVE  /\ heap'[x] = Node(heap[x].leaf, heap[x].keys, heap[x].pointers, a, heap[x].next)
             /\ TypedNode(x, heap'[x])
  <2>1. x \in DOMAIN heap /\ TypedNode(x, heap[x])
    BY <1>3, <1>4, NodeFacts
  <2>2. heap'[x] = Node(heap[x].leaf, heap[x].keys, heap[x].pointers, a, heap[x].next)
    BY <1>2, <1>8, <2>1, NodeReparented
  <2>3. TypedNode(x, heap'[x])
    BY <1>2, <1>8, <2>1, NodeReparented
  <2> QED
    BY <2>2, <2>3
<1>10. NodesTyped(heap')
  BY <1>4, <1>5, <1>8, <1>9, NodeFacts DEF NodesTyped
<1>11. TypeOK'
  <2>1. IsFiniteSet(DOMAIN heap') /\ DOMAIN heap' \subseteq Addresses
    BY <1>2, <1>4, <1>8, FS_AddElement DEF TypeOK
  <2> QED
    BY <1>1, <1>4, <1>8, <1>10, <2>1 DEF TypeOK, TypedNode, NodesTyped, Calls
<1>12. InsertedIntoNewRoot(a)
  BY <1>1, <1>2, <1>3, <1>6, <1>8, <1>9 DEF InsertedIntoNewRoot
<1> QED
  BY <1>10, <1>11, <1>12

\* The right half of a split goes into the parent p, where there is room.
InsertedIntoNode(p, i) ==
    /\ Splitting /\ todo' = NoCall /\ root' = root /\ records' = records
    /\ p = heap[todo.left].parent /\ p \in DOMAIN heap /\ p \notin LeafAddresses
    /\ todo.left # root
    /\ Len(heap[p].keys) < Order - 1
    /\ i \in 1..Len(heap[p].pointers) /\ heap[p].pointers[i] = todo.left
    /\ DOMAIN heap' = DOMAIN heap
    /\ PutIn(heap'[p].keys, heap[p].keys, i, todo.key)
    /\ PutIn(heap'[p].pointers, heap[p].pointers, i + 1, todo.right)
    /\ heap'[p].parent = heap[p].parent /\ heap'[p].next = heap[p].next
    /\ \A x \in DOMAIN heap \ {p} : heap'[x] = heap[x]

\* insert_into_node does that.
LEMMA InsertIntoNodeStep ==
    ASSUME Shape, InsertIntoNode
    PROVE  /\ TypeOK' /\ NodesTyped(heap')
           /\ \E p, i : InsertedIntoNode(p, i)
<1> DEFINE p == heap[todo.left].parent
           i == IndexOf(heap[p].pointers, todo.left)
           j == i + 1
           ks == InsertAt(heap[p].keys, i, todo.key)
           ps == InsertAt(heap[p].pointers, j, todo.right)
<1>1. /\ Splitting /\ p # Null /\ Len(heap[p].keys) < Order - 1
      /\ heap' = [heap EXCEPT ![p].keys = InsertAt(@, i, todo.key),
                              ![p].pointers = InsertAt(@, i + 1, todo.right)]
      /\ todo' = NoCall /\ root' = root /\ records' = records
  BY DEF InsertIntoNode, Splitting
<1>2. /\ p \in DOMAIN heap /\ p \notin LeafAddresses /\ todo.left # root
      /\ \E o \in 1..Len(heap[p].pointers) : heap[p].pointers[o] = todo.left
      /\ todo.right \in Addresses /\ todo.key \in Keys /\ p = heap[todo.left].parent
  BY <1>1, SplittingFacts
<1> HIDE DEF p
<1>3. TypeOK /\ TypedNode(p, heap[p])
  BY <1>2, NodeFacts DEF Shape
<1>4. /\ heap[p].keys \in Seq(Keys) /\ heap[p].pointers \in Seq(Addresses)
      /\ Len(heap[p].pointers) = Len(heap[p].keys) + 1 /\ Len(heap[p].keys) \in Nat
      /\ heap[p].parent \in Addresses \cup {Null} /\ heap[p].next \in Addresses \cup {Null}
      /\ heap[p].leaf = FALSE
  BY <1>2, <1>3, NodeFacts DEF TypedNode, NodesOf
<1>5. i \in 1..Len(heap[p].pointers) /\ heap[p].pointers[i] = todo.left
  BY <1>2, <1>4, IndexOfFacts
<1> HIDE DEF i
<1>6. i \in 1..(Len(heap[p].keys) + 1) /\ j \in 1..(Len(heap[p].pointers) + 1)
  BY <1>4, <1>5
<1>7. /\ ks \in Seq(Keys) /\ PutIn(ks, heap[p].keys, i, todo.key)
      /\ ps \in Seq(Addresses) /\ PutIn(ps, heap[p].pointers, j, todo.right)
  <2> HIDE DEF j
  <2> QED
    BY <1>2, <1>4, <1>6, SequencesMade
<1>8. heap' = [heap EXCEPT ![p].keys = ks, ![p].pointers = ps]
  BY <1>1
<1> HIDE DEF ks, ps
<1>9. heap'[p] = [heap[p] EXCEPT !.keys = ks, !.pointers = ps]
  BY <1>2, <1>3, <1>4, <1>8 DEF TypedNode, NodesOf
<1>10. heap'[p] = Node(heap[p].leaf, ks, ps, heap[p].parent, heap[p].next)
  BY <1>3, <1>9, NodeEdited
<1>11. /\ DOMAIN heap' = DOMAIN heap /\ heap' = [x \in DOMAIN heap' |-> heap'[x]]
       /\ \A x \in DOMAIN heap \ {p} : heap'[x] = heap[x]
  BY <1>2, <1>8
<1>12. TypedNode(p, heap'[p])
  <2>1. Len(ps) = Len(ks) + 1
    BY <1>4, <1>7 DEF PutIn
  <2>2. TypedNode(p, Node(FALSE, ks, ps, heap[p].parent, heap[p].next))
    BY <1>2, <1>4, <1>7, <2>1, NodeMade
  <2> QED
    BY <1>4, <1>10, <2>2
<1>13. TypeOK' /\ NodesTyped(heap')
  <2>1. \A x \in DOMAIN heap' : TypedNode(x, heap'[x])
    BY <1>3, <1>11, <1>12, NodeFacts
  <2> QED
    BY <1>1, <1>3, <1>11, <2>1 DEF TypeOK, TypedNode, NodesTyped, Calls
<1>14. /\ heap'[p].keys = ks /\ heap'[p].pointers = ps
       /\ heap'[p].parent = heap[p].parent /\ heap'[p].next = heap[p].next
  BY <1>10 DEF Node
<1>15. InsertedIntoNode(p, i)
  BY <1>1, <1>2, <1>5, <1>7, <1>11, <1>14 DEF InsertedIntoNode, p
<1> QED
  BY <1>13, <1>15

\* The parent p of a split is full and is split itself: the node b gets what
\* is after place m of the pointers ps, which become its children.
SplitTheNode(p, b, i, ks, ps, m) ==
    /\ Splitting /\ root' = root /\ records' = records
    /\ p = heap[todo.left].parent /\ p \in DOMAIN heap /\ p \notin LeafAddresses
    /\ todo.left # root
    /\ b \notin LeafAddresses /\ b \notin DOMAIN heap /\ b \in Addresses
    /\ Len(heap[p].keys) = Order - 1
    /\ i \in 1..Len(heap[p].pointers) /\ heap[p].pointers[i] = todo.left
    /\ ks \in Seq(Keys) /\ PutIn(ks, heap[p].keys, i, todo.key)
    /\ ps \in Seq(Addresses) /\ PutIn(ps, heap[p].pointers, i + 1, todo.right)
    /\ m = cut(Order) /\ m \in 2..(Order - 1)
    /\ DOMAIN heap' = DOMAIN heap \cup {b}
    /\ PartOf(heap'[p].keys, ks, 1, m - 1) /\ PartOf(heap'[b].keys, ks, m + 1, Order)
    /\ PartOf(heap'[p].pointers, ps, 1, m) /\ PartOf(heap'[b].pointers, ps, m + 1, Order + 1)
    /\ heap'[p].parent = heap[p].parent /\ heap'[b].parent = heap[p].parent
    /\ \A x \in DOMAIN heap \ {p} :
        /\ (\E j \in (m + 1)..(Order + 1) : ps[j] = x) =>
              heap'[x] = Node(heap[x].leaf, heap[x].keys, heap[x].pointers, b, heap[x].next)
        /\ (\A j \in (m + 1)..(Order + 1) : ps[j] # x) => heap'[x] = heap[x]
    /\ todo' = [call |-> "insert_into_parent", left |-> p, key |-> ks[m], right |-> b]

\* insert_into_node_after_splitting does that.
LEMMA SplitNodeStep ==
    ASSUME Shape, SplitNode
    PROVE  /\ TypeOK' /\ NodesTyped(heap')
           /\ \E p, b, i, ks, ps, m : SplitTheNode(p, b, i, ks, ps, m)
<1> DEFINE p == heap[todo.left].parent
           b == make_node(heap)
           i == IndexOf(heap[p].pointers, todo.left)
           j == i + 1
           ks == InsertAt(heap[p].keys, i, todo.key)
           ps == InsertAt(heap[p].pointers, j, todo.right)
           m == cut(Order)
           left == Node(FALSE, SubSeq(ks, 1, m - 1), SubSeq(ps, 1, m), heap[p].parent, Null)
           right == Node(FALSE, SubSeq(ks, m + 1, Order), SubSeq(ps, m + 1, Order + 1), heap[p].parent, Null)
           g == With(heap, p, left)
           f == With(g, b, right)
<1>1. /\ Splitting /\ p # Null /\ FreeInner(heap) # {}
      /\ Len(heap[p].keys) >= Order - 1
      /\ heap' = Adopt(f, ToSet(right.pointers), b)
      /\ todo' = [call |-> "insert_into_parent", left |-> p, key |-> ks[m], right |-> b]
      /\ root' = root /\ records' = records
  BY DEF SplitNode, Splitting
<1>2. /\ p \in DOMAIN heap /\ p \notin LeafAddresses /\ todo.left # root /\ p \in Addresses
      /\ \E o \in 1..Len(heap[p].pointers) : heap[p].pointers[o] = todo.left
      /\ todo.right \in Addresses /\ todo.key \in Keys /\ p = heap[todo.left].parent
  BY <1>1, SplittingFacts, NodeFacts DEF Shape
<1>3. b \in Addresses /\ b \notin DOMAIN heap /\ b \notin LeafAddresses
  BY <1>1, SmallestFree, TreeAssumption DEF make_node, FreeInner, Addresses
<1>4. m = cut(Order)
  OBVIOUS
<1> HIDE DEF p, b, m
<1>5. /\ TypeOK /\ heap[p].keys \in Seq(Keys) /\ heap[p].pointers \in Seq(Addresses)
      /\ Len(heap[p].pointers) = Len(heap[p].keys) + 1 /\ Len(heap[p].keys) \in Nat
      /\ heap[p].parent \in Addresses \cup {Null}
  BY <1>2, NodeFacts DEF Shape
<1>6. Order \in Nat /\ Order >= 3 /\ Len(heap[p].keys) = Order - 1
  <2>1. Len(heap[p].keys) <= Order - 1
    BY <1>1, <1>2, SplittingFacts DEF Shape, Sizes
  <2> QED
    BY <1>1, <1>5, <2>1, TreeAssumption
<1>7. m \in 2..(Order - 1)
  <2>1. m \in Nat /\ 2 * m >= Order /\ 2 * m <= Order + 1
    BY <1>4, <1>6, Halves
  <2> QED
    BY <1>6, <2>1
<1>8. i \in 1..Len(heap[p].pointers) /\ heap[p].pointers[i] = todo.left
  BY <1>2, <1>5, IndexOfFacts
<1> HIDE DEF i
<1>9. /\ ks \in Seq(Keys) /\ PutIn(ks, heap[p].keys, i, todo.key)
      /\ ps \in Seq(Addresses) /\ PutIn(ps, heap[p].pointers, j, todo.right)
  <2>1. i \in 1..(Len(heap[p].keys) + 1) /\ j \in 1..(Len(heap[p].pointers) + 1)
    BY <1>5, <1>8
  <2> HIDE DEF j
  <2> QED
    BY <1>2, <1>5, <2>1, SequencesMade
<1> HIDE DEF ks, ps
<1>10. Len(ks) = Order /\ Len(ps) = Order + 1
  BY <1>5, <1>6, <1>9 DEF PutIn
<1> DEFINE lk == SubSeq(ks, 1, m - 1)
           rk == SubSeq(ks, m + 1, Order)
           lp == SubSeq(ps, 1, m)
           rp == SubSeq(ps, m + 1, Order + 1)
<1>11. lk \in Seq(Keys) /\ PartOf(lk, ks, 1, m - 1)
  <2> DEFINE q == m - 1
  <2>1. q \in 0..Len(ks)
    BY <1>6, <1>7, <1>10
  <2> HIDE DEF q
  <2>2. SubSeq(ks, 1, q) \in Seq(Keys) /\ PartOf(SubSeq(ks, 1, q), ks, 1, q)
    BY <1>9, <2>1, PartsMade
  <2> QED
    BY <2>2 DEF q
<1>12. rk \in Seq(Keys) /\ PartOf(rk, ks, m + 1, Order)
  <2>1. Order = Len(ks) /\ m \in 0..Len(ks)
    BY <1>6, <1>7, <1>10
  <2> QED
    BY <1>9, <2>1, PartsMade
<1>13. /\ lp \in Seq(Addresses) /\ PartOf(lp, ps, 1, m)
       /\ rp \in Seq(Addresses) /\ PartOf(rp, ps, m + 1, Order + 1)
  <2>1. Order + 1 = Len(ps) /\ m \in 0..Len(ps)
    BY <1>6, <1>7, <1>10
  <2> QED
    BY <1>9, <2>1, PartsMade
<1>14. /\ left = Node(FALSE, lk, lp, heap[p].parent, Null)
       /\ right = Node(FALSE, rk, rp, heap[p].parent, Null) /\ right.pointers = rp
  BY DEF Node
<1> HIDE DEF lk, rk, lp, rp, left, right
<1>15. Len(lp) = Len(lk) + 1 /\ Len(rp) = Len(rk) + 1
  BY SMTT(30), <1>6, <1>7, <1>11, <1>12, <1>13 DEF PartOf
<1>16. TypedNode(p, left) /\ TypedNode(b, right)
  <2>1. TypedNode(p, left)
    BY <1>2, <1>5, <1>11, <1>13, <1>14, <1>15, NodeMade
  <2>2. TypedNode(b, right)
    BY <1>3, <1>5, <1>12, <1>13, <1>14, <1>15, NodeMade
  <2> QED
    BY <2>1, <2>2
<1>17. \A x : x \in ToSet(rp) <=> \E o \in (m + 1)..(Order + 1) : ps[o] = x
  <2>1. \A x : x \in ToSet(rp) <=> \E o \in 1..Len(rp) : rp[o] = x
    BY <1>13, ElementsOf
  <2>2. ASSUME NEW x, NEW o \in 1..Len(rp), rp[o] = x PROVE \E l \in (m + 1)..(Order + 1) : ps[l] = x
    <3>1. m + 1 + o - 1 \in (m + 1)..(Order + 1) /\ rp[o] = ps[m + 1 + o - 1]
      BY <1>6, <1>7, <1>13 DEF PartOf
    <3> QED
      BY <3>1, <2>2
  <2>3. ASSUME NEW x, NEW o \in (m + 1)..(Order + 1), ps[o] = x PROVE \E l \in 1..Len(rp) : rp[l] = x
    <3>1. /\ o - m \in 1..Len(rp) /\ o - m \in 1..(Order + 1 - (m + 1) + 1)
          /\ m + 1 + (o - m) - 1 = o
      BY <1>6, <1>7, <1>13 DEF PartOf
    <3>2. rp[o - m] = ps[o]
      BY <1>13, <3>1 DEF PartOf
    <3> QED
      BY <3>1, <3>2, <2>3
  <2> QED
    BY <2>1, <2>2, <2>3
<1>18. \A o \in 1..(Order + 1) : ps[o] \in DOMAIN heap /\ ps[o] # p
  <2>1. PICK h \in [DOMAIN heap -> Nat] : Graded(h)
    BY DEF Shape
  <2>2. \A o \in 1..Len(heap[p].pointers) :
           heap[p].pointers[o] \in DOMAIN heap /\ h[heap[p].pointers[o]] + 1 = h[p]
    BY <1>1, <1>2, <2>1, SplittingFacts DEF Shape, ChildrenAgree, Graded
  <2>3. todo.right \in DOMAIN heap /\ h[todo.right] + 1 = h[p]
    BY <1>1, <1>8, <2>1, <2>2, SplittingFacts DEF Graded
  <2>4. ASSUME NEW o \in 1..(Order + 1)
        PROVE  ps[o] = todo.right \/ \E l \in 1..Len(heap[p].pointers) : ps[o] = heap[p].pointers[l]
    <3>1. j \in 1..(Len(heap[p].pointers) + 1) /\ Len(heap[p].pointers) \in Nat
      BY <1>5, <1>8
    <3> HIDE DEF j
    <3>2. o \in 1..Len(ps)
      BY <1>10
    <3>3. \/ o = j /\ ps[o] = todo.right
          \/ o \in 1..Len(heap[p].pointers) /\ ps[o] = heap[p].pointers[o]
          \/ o - 1 \in 1..Len(heap[p].pointers) /\ ps[o] = heap[p].pointers[o - 1]
      BY SMTT(30), <3>1, <3>2, <1>9, PutInElements
    <3> QED
      BY <3>3
  <2>5. ASSUME NEW o \in 1..(Order + 1) PROVE ps[o] \in DOMAIN heap /\ h[ps[o]] + 1 = h[p]
    BY <2>2, <2>3, <2>4
  <2>6. h[p] \in Nat /\ h[p] + 1 # h[p]
    BY <1>2, <2>1
  <2> QED
    BY <2>5, <2>6
<1>19. p \notin ToSet(rp) /\ b \notin ToSet(rp) /\ \A x \in ToSet(rp) : x \in DOMAIN heap
  <2>1. \A o \in (m + 1)..(Order + 1) : o \in 1..(Order + 1)
    BY <1>6, <1>7
  <2> QED
    BY <1>3, <1>17, <1>18, <2>1
<1>20. /\ DOMAIN heap' = DOMAIN heap \cup {b} /\ heap' = [x \in DOMAIN heap' |-> heap'[x]]
       /\ heap'[p] = left /\ heap'[b] = right
       /\ \A x \in DOMAIN heap \ {p} : x \notin ToSet(rp) => heap'[x] = heap[x]
       /\ \A x \in DOMAIN heap \ {p} : x \in ToSet(rp) => heap'[x] = [heap[x] EXCEPT !.parent = b]
  <2>1. IsWith(g, heap, p, left) /\ IsWith(f, g, b, right) /\ IsAdopted(heap', f, ToSet(rp), b)
    BY <1>1, <1>14, HeapsMade
  <2> HIDE DEF f, g
  <2>2. DOMAIN g = DOMAIN heap /\ g[p] = left /\ \A x \in DOMAIN heap : x # p => g[x] = heap[x]
    BY <1>2, <2>1 DEF IsWith
  <2>3. /\ DOMAIN f = DOMAIN heap \cup {b} /\ f[p] = left /\ f[b] = right
        /\ \A x \in DOMAIN heap : x # p => f[x] = heap[x]
    BY <1>2, <1>3, <2>1, <2>2 DEF IsWith
  <2> QED
    BY <1>2, <1>3, <1>19, <2>1, <2>3 DEF IsAdopted
<1>21. ASSUME NEW x \in DOMAIN heap \ {p}, x \in ToSet(rp)
       PROVE  /\ heap'[x] = Node(heap[x].leaf, heap[x].keys, heap[x].pointers, b, heap[x].next)
              /\ TypedNode(x, heap'[x])
  <2>1. TypedNode(x, heap[x]) /\ heap'[x] = [heap[x] EXCEPT !.parent = b]
    BY <1>5, <1>20, <1>21, NodeFacts
  <2> QED
    BY <1>3, <2>1, NodeReparented
<1>22. NodesTyped(heap')
  <2>1. ASSUME NEW x \in DOMAIN heap \ {p} PROVE TypedNode(x, heap'[x])
    <3>1. CASE x \in ToSet(rp)
      BY <3>1, <1>21
    <3>2. CASE x \notin ToSet(rp)
      BY <3>2, <1>5, <1>20, NodeFacts
    <3> QED
      BY <3>1, <3>2
  <2> QED
    BY <1>16, <1>20, <2>1 DEF NodesTyped
<1>23. TypeOK'
  <2>1. IsFiniteSet(DOMAIN heap') /\ DOMAIN heap' \subseteq Addresses
    BY <1>3, <1>5, <1>20, FS_AddElement DEF TypeOK
  <2>2. todo' \in Calls
    <3>1. m \in 1..Len(ks)
      BY <1>6, <1>7, <1>10
    <3>2. ks[m] \in Keys
      BY <1>9, <3>1, ElementOfSeq
    <3> QED
      BY <1>1, <1>2, <1>3, <3>2 DEF Calls
  <2> QED
    BY <1>1, <1>5, <1>20, <1>22, <2>1, <2>2 DEF TypeOK, TypedNode, NodesTyped
<1>24. SplitTheNode(p, b, i, ks, ps, m)
  <2>1. /\ heap'[p].keys = lk /\ heap'[b].keys = rk /\ heap'[p].pointers = lp /\ heap'[b].pointers = rp
        /\ heap'[p].parent = heap[p].parent /\ heap'[b].parent = heap[p].parent
    BY <1>14, <1>20 DEF Node
  <2>2. \A x \in DOMAIN heap \ {p} :
          /\ (\E o \in (m + 1)..(Order + 1) : ps[o] = x) =>
                heap'[x] = Node(heap[x].leaf, heap[x].keys, heap[x].pointers, b, heap[x].next)
          /\ (\A o \in (m + 1)..(Order + 1) : ps[o] # x) => heap'[x] = heap[x]
    BY <1>17, <1>20, <1>21
  <2> QED
    BY <1>1, <1>2, <1>3, <1>4, <1>6, <1>7, <1>8, <1>9, <1>11, <1>12, <1>13, <1>20, <2>1, <2>2 DEF SplitTheNode, p
<1> QED
  BY <1>22, <1>23, <1>24

-----------------------------------------------------------------------------
(* What the deletion does                                                  *)

\* The record of a key k goes from its leaf a.
DeletedFromLeaf(k, a, i, j) ==
    /\ todo = NoCall /\ root # Null /\ root' = root
    /\ a = find_leaf(k) /\ a \in DOMAIN heap /\ a \in LeafAddresses
    /\ i \in 1..Len(heap[a].keys) /\ heap[a].keys[i] = k
    /\ j \in 1..Len(heap[a].keys) /\ heap[a].pointers[j] = heap[a].pointers[i]
    /\ find(k) = heap[a].pointers[i]
    /\ DOMAIN heap' = DOMAIN heap
    /\ TakenOut(heap'[a].keys, heap[a].keys, i) /\ TakenOut(heap'[a].pointers, heap[a].pointers, j)
    /\ heap'[a].parent = heap[a].parent /\ heap'[a].next = heap[a].next
    /\ \A x \in DOMAIN heap \ {a} : heap'[x] = heap[x]
    /\ todo' = [call |-> "delete_entry", node |-> a, dead |-> {}]
    /\ records' = records \ {find(k)}

\* delete and remove_entry_from_node do that.
LEMMA DeleteStep ==
    ASSUME Shape, NEW k \in Keys, Delete(k)
    PROVE  /\ TypeOK' /\ NodesTyped(heap')
           /\ \E a, i, j : DeletedFromLeaf(k, a, i, j)
<1> DEFINE a == find_leaf(k)
           i == IndexOf(heap[a].keys, k)
           j == IndexOf(heap[a].pointers, find(k))
           ks == RemoveAt(heap[a].keys, i)
           ps == RemoveAt(heap[a].pointers, j)
<1>1. /\ todo = NoCall /\ find(k) # Null
      /\ heap' = [heap EXCEPT ![a] = RemoveEntry(@, k, find(k))]
      /\ todo' = [call |-> "delete_entry", node |-> a, dead |-> {}]
      /\ root' = root /\ records' = records \ {find(k)}
  BY DEF Delete
<1>2. /\ root # Null
      /\ \E l \in 1..Len(heap[a].keys) : heap[a].keys[l] = k
      /\ find(k) = heap[a].pointers[i]
  BY <1>1, FindFacts
<1>3. a \in DOMAIN heap /\ a \in LeafAddresses
  BY <1>1, <1>2, FoundLeaf
<1>4. a = find_leaf(k)
  OBVIOUS
<1> HIDE DEF a
<1>5. TypeOK /\ TypedNode(a, heap[a])
  BY <1>3, NodeFacts DEF Shape
<1>6. /\ heap[a].keys \in Seq(Keys) /\ heap[a].pointers \in Seq(Pairs)
      /\ Len(heap[a].pointers) = Len(heap[a].keys) /\ Len(heap[a].keys) \in Nat
      /\ heap[a].parent \in Addresses \cup {Null} /\ heap[a].next \in Addresses \cup {Null}
      /\ heap[a].leaf = TRUE
  BY <1>3, <1>5, NodeFacts DEF TypedNode, NodesOf
<1>7. i \in 1..Len(heap[a].keys) /\ heap[a].keys[i] = k
  BY <1>2, <1>6, IndexOfFacts
<1> HIDE DEF i
<1>8. j \in 1..Len(heap[a].pointers) /\ heap[a].pointers[j] = heap[a].pointers[i]
  <2>1. \E l \in 1..Len(heap[a].pointers) : heap[a].pointers[l] = find(k)
    BY <1>2, <1>6, <1>7
  <2> QED
    BY <1>2, <1>6, <2>1, IndexOfFacts
<1> HIDE DEF j
<1>9. /\ ks \in Seq(Keys) /\ TakenOut(ks, heap[a].keys, i)
      /\ ps \in Seq(Pairs) /\ TakenOut(ps, heap[a].pointers, j)
  BY <1>6, <1>7, <1>8, SequencesMade
<1>10. RemoveEntry(heap[a], k, find(k)) = [heap[a] EXCEPT !.keys = ks, !.pointers = ps]
  BY <1>3, <1>5 DEF RemoveEntry, TypedNode, NodesOf, i, j
<1> HIDE DEF ks, ps
<1>11. heap'[a] = Node(heap[a].leaf, ks, ps, heap[a].parent, heap[a].next)
  <2>1. heap'[a] = [heap[a] EXCEPT !.keys = ks, !.pointers = ps]
    BY <1>1, <1>3, <1>10
  <2> QED
    BY <1>5, <2>1, NodeEdited
<1>12. /\ DOMAIN heap' = DOMAIN heap /\ heap' = [x \in DOMAIN heap' |-> heap'[x]]
       /\ \A x \in DOMAIN heap \ {a} : heap'[x] = heap[x]
  BY <1>1, <1>3
<1>13. TypedNode(a, heap'[a])
  <2>1. Len(ps) = Len(ks)
    BY <1>6, <1>9 DEF TakenOut
  <2>2. TypedNode(a, Node(TRUE, ks, ps, heap[a].parent, heap[a].next))
    BY <1>3, <1>6, <1>9, <2>1, NodeMade
  <2> QED
    BY <1>6, <1>11, <2>2
<1>14. NodesTyped(heap')
  BY <1>5, <1>12, <1>13, NodeFacts DEF NodesTyped
<1>15. TypeOK'
  <2>1. todo' \in Calls
    BY <1>1, <1>3 DEF Calls, Addresses
  <2> QED
    BY <1>1, <1>5, <1>12, <1>14, <2>1 DEF TypeOK, TypedNode, NodesTyped
<1>16. /\ heap'[a].keys = ks /\ heap'[a].pointers = ps
       /\ heap'[a].parent = heap[a].parent /\ heap'[a].next = heap[a].next
  BY <1>11 DEF Node
<1>17. DeletedFromLeaf(k, a, i, j)
  BY <1>1, <1>2, <1>3, <1>4, <1>6, <1>7, <1>8, <1>9, <1>12, <1>16 DEF DeletedFromLeaf
<1> QED
  BY <1>14, <1>15, <1>17

\* While a node is under repair.
LEMMA RepairingFacts ==
    ASSUME Shape, Repairing
    PROVE  /\ todo.node \in Live /\ todo.dead \subseteq Addresses
           /\ todo = [call |-> "delete_entry", node |-> todo.node, dead |-> todo.dead]
           /\ ~Splitting /\ Dead = todo.dead /\ Unlinked = {}
           /\ Live = DOMAIN heap \ todo.dead /\ LiveInner = Live \ LeafAddresses
           /\ root \in Live /\ root # Null /\ heap[root].parent = Null
           /\ todo.node \in LeafAddresses => todo.dead = {}
           /\ todo.node # root =>
                /\ heap[todo.node].parent \in LiveInner
                /\ \E i \in 1..Len(heap[heap[todo.node].parent].pointers) :
                      heap[heap[todo.node].parent].pointers[i] = todo.node
<1>1. TypeOK /\ todo.call = "delete_entry" /\ todo \in Calls
  BY DEF Shape, TypeOK, Repairing
<1>2. todo \in [call : {"delete_entry"}, node : Addresses, dead : SUBSET Addresses]
  BY <1>1 DEF Calls, NoCall
<1>3. ~Splitting /\ Dead = todo.dead /\ Unlinked = {} /\ Live = DOMAIN heap \ todo.dead
  BY <1>1 DEF Splitting, Dead, Unlinked, Repairing, Live
<1>4. todo.node \in Live /\ (todo.node \in LeafAddresses => todo.dead = {})
  BY DEF Shape, CallSound
<1>5. root \in Live /\ root # Null /\ heap[root].parent = Null
  <2>1. root # Null
    BY <1>1 DEF Shape, RootSound, NoCall
  <2> QED
    BY <2>1, <1>3 DEF Shape, RootSound
<1>6. todo.node # root =>
        /\ heap[todo.node].parent \in LiveInner
        /\ \E i \in 1..Len(heap[heap[todo.node].parent].pointers) :
              heap[heap[todo.node].parent].pointers[i] = todo.node
  BY <1>3, <1>4 DEF Shape, ParentsPoint
<1> QED
  BY <1>2, <1>3, <1>4, <1>5, <1>6 DEF LiveInner

\* The repair ends with the heap as it is, but for what is freed.
RepairEnded ==
    /\ Repairing /\ todo' = NoCall /\ root' = root /\ records' = records
    /\ DOMAIN heap' = Live /\ \A x \in Live : heap'[x] = heap[x]
    /\ Len(heap[todo.node].keys) >= (IF todo.node = root THEN 1 ELSE MinKeys(heap[todo.node]))

\* The root that has lost its last key goes, its one child c is the root.
RootLowered(c) ==
    /\ Repairing /\ todo' = NoCall /\ todo.node = root /\ root' = c /\ records' = records
    /\ root \notin LeafAddresses /\ Len(heap[root].pointers) = 1 /\ c = heap[root].pointers[1]
    /\ c \in Live /\ c # root
    /\ DOMAIN heap' = Live \ {root}
    /\ heap'[c] = Node(heap[c].leaf, heap[c].keys, heap[c].pointers, Null, heap[c].next)
    /\ \A x \in Live \ {root, c} : heap'[x] = heap[x]

\* The last leaf goes.
TreeEmptied ==
    /\ Repairing /\ todo' = NoCall /\ todo.node = root /\ root' = Null /\ records' = records
    /\ DOMAIN heap = {root} /\ DOMAIN heap' = {}
    /\ root \in LeafAddresses /\ Len(heap[root].keys) = 0

\* A heap some of whose nodes are freed.
LEMMA FreeingTyped ==
    ASSUME TypeOK, NEW g, NEW S,
           \E h : IsWithout(g, h, S) /\ DOMAIN h = DOMAIN heap /\ NodesTyped(h)
    PROVE  /\ IsFiniteSet(DOMAIN g) /\ DOMAIN g \subseteq Addresses
           /\ g = [x \in DOMAIN g |-> g[x]] /\ NodesTyped(g)
<1>1. PICK h : IsWithout(g, h, S) /\ DOMAIN h = DOMAIN heap /\ NodesTyped(h)
  OBVIOUS
<1>2. DOMAIN g \subseteq DOMAIN heap
  BY <1>1 DEF IsWithout
<1> QED
  BY <1>1, <1>2, FS_Subset DEF TypeOK, IsWithout, NodesTyped

\* delete_entry ends the repair of a node that is large enough.
LEMMA KeepNodeStep ==
    ASSUME Shape, KeepNode
    PROVE  TypeOK' /\ NodesTyped(heap') /\ RepairEnded
<1>1. /\ Repairing /\ todo.node # root /\ Len(heap[todo.node].keys) >= MinKeys(heap[todo.node])
      /\ heap' = Without(heap, todo.dead) /\ todo' = NoCall /\ root' = root /\ records' = records
  BY DEF KeepNode, Repairing
<1>2. TypeOK /\ NodesTyped(heap)
  BY NodeFacts DEF Shape, NodesTyped
<1>3. IsWithout(heap', heap, todo.dead)
  BY <1>1, HeapsMade
<1>4. /\ IsFiniteSet(DOMAIN heap') /\ DOMAIN heap' \subseteq Addresses
      /\ heap' = [x \in DOMAIN heap' |-> heap'[x]] /\ NodesTyped(heap')
  BY <1>2, <1>3, FreeingTyped
<1>5. DOMAIN heap' = Live /\ (\A x \in Live : heap'[x] = heap[x]) /\ root \in Live
  BY <1>1, <1>3, RepairingFacts DEF IsWithout
<1>6. TypeOK'
  BY <1>1, <1>2, <1>4, <1>5 DEF TypeOK, NodesTyped, TypedNode, Calls
<1> QED
  BY <1>1, <1>4, <1>5, <1>6 DEF RepairEnded

\* adjust_root keeps the root, lowers it or empties the tree.
LEMMA AdjustRootStep ==
    ASSUME Shape, AdjustRoot
    PROVE  /\ TypeOK' /\ NodesTyped(heap')
           /\ RepairEnded \/ (\E c : RootLowered(c)) \/ TreeEmptied
<1>1. Repairing /\ todo.node = root /\ todo' = NoCall /\ records' = records
  BY DEF AdjustRoot, Repairing
<1>2. TypeOK /\ NodesTyped(heap)
  BY NodeFacts DEF Shape, NodesTyped
<1>3. /\ root \in Live /\ root # Null /\ root \in DOMAIN heap /\ Live = DOMAIN heap \ todo.dead
      /\ root \in LeafAddresses => todo.dead = {}
  BY <1>1, RepairingFacts
<1>4. /\ heap[root].leaf <=> root \in LeafAddresses
      /\ heap[root].keys \in Seq(Keys) /\ Len(heap[root].keys) \in Nat
      /\ root \notin LeafAddresses =>
           heap[root].pointers \in Seq(Addresses) /\ Len(heap[root].pointers) = Len(heap[root].keys) + 1
  BY <1>2, <1>3, NodeFacts
<1>5. heap[root].keys = <<>> <=> Len(heap[root].keys) = 0
  BY <1>4, EmptySeq
<1>6. CASE heap[root].keys # <<>>
  <2>1. heap' = Without(heap, todo.dead) /\ root' = root
    BY <1>6 DEF AdjustRoot
  <2>2. IsWithout(heap', heap, todo.dead)
    BY <2>1, HeapsMade
  <2>3. /\ IsFiniteSet(DOMAIN heap') /\ DOMAIN heap' \subseteq Addresses
        /\ heap' = [x \in DOMAIN heap' |-> heap'[x]] /\ NodesTyped(heap')
    BY <1>2, <2>2, FreeingTyped
  <2>4. DOMAIN heap' = Live /\ (\A x \in Live : heap'[x] = heap[x])
    BY <1>3, <2>2 DEF IsWithout
  <2>5. TypeOK'
    BY <1>1, <1>2, <1>3, <2>1, <2>3, <2>4 DEF TypeOK, NodesTyped, TypedNode, Calls
  <2>6. Len(heap[todo.node].keys) >= 1
    BY <1>1, <1>4, <1>5, <1>6
  <2> QED
    BY <1>1, <2>1, <2>3, <2>4, <2>5, <2>6 DEF RepairEnded
<1>7. CASE heap[root].keys = <<>> /\ root \notin LeafAddresses
  <2> DEFINE c == heap[root].pointers[1]
             S == todo.dead \cup {root}
             g == Adopt(heap, {c}, Null)
  <2>1. root' = c /\ heap' = Without(g, S)
    BY <1>4, <1>7 DEF AdjustRoot
  <2>2. Len(heap[root].pointers) = 1
    BY <1>4, <1>5, <1>7
  <2>3. c \in Live /\ heap[c].parent = root
    <3>1. root \in LiveInner /\ 1 \in 1..Len(heap[root].pointers)
      BY <1>3, <1>7, <2>2 DEF LiveInner
    <3> QED
      BY <3>1 DEF Shape, ChildrenAgree
  <2>4. c # root /\ c \in DOMAIN heap
    BY <1>1, <1>3, <2>3, RepairingFacts
  <2>5. c = heap[root].pointers[1]
    OBVIOUS
  <2> HIDE DEF c
  <2>6. IsAdopted(g, heap, {c}, Null) /\ IsWithout(heap', g, S)
    BY <2>1, HeapsMade
  <2> HIDE DEF g
  <2>7. /\ TypedNode(c, g[c])
        /\ g[c] = Node(heap[c].leaf, heap[c].keys, heap[c].pointers, Null, heap[c].next)
    <3>1. TypedNode(c, heap[c]) /\ g[c] = [heap[c] EXCEPT !.parent = Null]
      BY <1>2, <2>4, <2>6 DEF NodesTyped, IsAdopted
    <3>2. Null \in Addresses \cup {Null}
      OBVIOUS
    <3> QED
      BY <3>1, <3>2, NodeReparented
  <2>8. NodesTyped(g) /\ DOMAIN g = DOMAIN heap
    BY <1>2, <2>6, <2>7 DEF NodesTyped, IsAdopted
  <2>9. /\ IsFiniteSet(DOMAIN heap') /\ DOMAIN heap' \subseteq Addresses
        /\ heap' = [x \in DOMAIN heap' |-> heap'[x]] /\ NodesTyped(heap')
    BY <1>2, <2>6, <2>8, FreeingTyped
  <2>10. /\ DOMAIN heap' = Live \ {root} /\ \A x \in Live \ {root, c} : heap'[x] = heap[x]
         /\ c \in DOMAIN heap' /\ heap'[c] = g[c]
    BY <1>3, <2>3, <2>4, <2>6 DEF IsAdopted, IsWithout
  <2>11. TypeOK'
    BY <1>1, <1>2, <2>1, <2>5, <2>9, <2>10 DEF TypeOK, NodesTyped, TypedNode, Calls, c
  <2>12. RootLowered(c)
    BY <1>1, <1>7, <2>1, <2>2, <2>3, <2>4, <2>7, <2>10 DEF RootLowered, c
  <2> QED
    BY <2>9, <2>11, <2>12
<1>8. CASE heap[root].keys = <<>> /\ root \in LeafAddresses
  <2>1. root' = Null /\ heap' = Without(heap, todo.dead \cup {root})
    BY <1>4, <1>8 DEF AdjustRoot
  <2>2. IsWithout(heap', heap, todo.dead \cup {root})
    BY <2>1, HeapsMade
  <2>3. DOMAIN heap = {root}
    <3>1. PICK h \in [DOMAIN heap -> Nat] : Graded(h)
      BY DEF Shape
    <3>2. h[root] = 0 /\ Live = DOMAIN heap
      BY <1>3, <1>8, <3>1 DEF Graded
    <3>3. ASSUME NEW x \in DOMAIN heap, x # root PROVE FALSE
      <4>1. heap[x].parent \in LiveInner
        BY <1>1, <3>2, <3>3, RepairingFacts DEF Shape, ParentsPoint
      <4>2. heap[x].parent \in DOMAIN heap /\ h[heap[x].parent] # 0 /\ h[heap[x].parent] <= h[root]
        BY <3>1, <3>2, <4>1 DEF Graded, LiveInner
      <4>3. h[heap[x].parent] \in Nat
        BY <3>1, <4>2
      <4> QED
        BY <3>2, <4>2, <4>3
    <3> QED
      BY <1>3, <3>3
  <2>4. DOMAIN heap' = {}
    BY <1>3, <2>2, <2>3 DEF IsWithout
  <2>5. /\ IsFiniteSet(DOMAIN heap') /\ DOMAIN heap' \subseteq Addresses
        /\ heap' = [x \in DOMAIN heap' |-> heap'[x]] /\ NodesTyped(heap')
    BY <1>2, <2>2, FreeingTyped
  <2>6. TypeOK'
    BY <1>1, <1>2, <2>1, <2>4, <2>5 DEF TypeOK, NodesTyped, TypedNode, Calls
  <2>7. TreeEmptied
    BY <1>1, <1>5, <1>8, <2>1, <2>3, <2>4 DEF TreeEmptied
  <2> QED
    BY <2>5, <2>6, <2>7
<1> QED
  BY <1>6, <1>7, <1>8

\* A node a that is too small and its neighbour: children of p that the key at
\* place q is between.
Pair(a, nb, p, q) ==
    /\ a = todo.node /\ nb = NeighborOf(a) /\ p = heap[a].parent /\ q = KPrimeIndexOf(a)
    /\ a \in Live /\ nb \in Live /\ p \in LiveInner /\ a # nb
    /\ a # root /\ nb # root /\ p # a /\ p # nb
    /\ a \in LeafAddresses <=> nb \in LeafAddresses
    /\ q \in 1..Len(heap[p].keys) /\ Len(heap[p].pointers) = Len(heap[p].keys) + 1
    /\ PositionOf(a) \in 1..Len(heap[p].pointers)
    /\ PositionOf(a) = 1 => q = 1 /\ heap[p].pointers[q] = a /\ heap[p].pointers[q + 1] = nb
    /\ PositionOf(a) # 1 => heap[p].pointers[q] = nb /\ heap[p].pointers[q + 1] = a
    /\ KPrimeOf(a) = heap[p].keys[q] /\ heap[p].keys[q] \in Keys
    /\ Len(heap[a].keys) + 1 >= MinKeys(heap[a]) /\ Len(heap[nb].keys) >= MinKeys(heap[nb])
    /\ \A x \in {a, nb} \cap LiveInner : \A j \in 1..Len(heap[x].pointers) :
         /\ heap[x].pointers[j] \in Live /\ heap[heap[x].pointers[j]].parent = x
         /\ heap[x].pointers[j] \notin {a, nb, p}

\* A node that is too small and its neighbour are such a pair.
LEMMA PairFacts ==
    ASSUME Shape, TooSmall
    PROVE  Pair(todo.node, NeighborOf(todo.node), heap[todo.node].parent, KPrimeIndexOf(todo.node))
<1> DEFINE a == todo.node
           nb == NeighborOf(a)
           p == heap[a].parent
           i == PositionOf(a)
           q == KPrimeIndexOf(a)
<1>1. Repairing /\ a # root /\ TypeOK
  BY DEF TooSmall, Repairing, Shape
<1>2. /\ a \in Live /\ p \in LiveInner /\ LiveInner = Live \ LeafAddresses
      /\ \E j \in 1..Len(heap[p].pointers) : heap[p].pointers[j] = a
      /\ Live \subseteq DOMAIN heap /\ Unlinked = {} /\ root \in Live
      /\ heap[root].parent = Null /\ ~Splitting
  BY <1>1, RepairingFacts
<1>3. /\ heap[p].keys \in Seq(Keys) /\ heap[p].pointers \in Seq(Addresses)
      /\ Len(heap[p].pointers) = Len(heap[p].keys) + 1 /\ Len(heap[p].keys) \in Nat
      /\ p # Null
  BY <1>1, <1>2, NodeFacts
<1>4. i \in 1..Len(heap[p].pointers) /\ heap[p].pointers[i] = a
  <2> HIDE DEF p, a
  <2>1. IndexOf(heap[p].pointers, a) \in 1..Len(heap[p].pointers) /\ heap[p].pointers[IndexOf(heap[p].pointers, a)] = a
    BY <1>2, <1>3, IndexOfFacts
  <2> QED
    BY <2>1 DEF PositionOf, ParentOf, p
<1>5. PICK h \in [DOMAIN heap -> Nat] : Graded(h)
  BY DEF Shape
<1>6. \A x \in LiveInner : \A j \in 1..Len(heap[x].pointers) :
        /\ heap[x].pointers[j] \in Live /\ heap[heap[x].pointers[j]].parent = x
        /\ h[heap[x].pointers[j]] + 1 = h[x]
  BY <1>2, <1>5 DEF Shape, ChildrenAgree, Graded
<1>7. /\ nb = heap[p].pointers[IF i = 1 THEN 2 ELSE i - 1]
      /\ q = IF i = 1 THEN 1 ELSE i - 1
      /\ KPrimeOf(a) = heap[p].keys[q]
  BY DEF NeighborOf, KPrimeIndexOf, KPrimeOf, ParentOf
<1>8. a = todo.node /\ nb = NeighborOf(a) /\ p = heap[a].parent /\ q = KPrimeIndexOf(a)
  OBVIOUS
<1>9. h[p] = h[a] + 1 /\ h[a] \in Nat /\ h[p] \in Nat /\ p # a
  BY <1>2, <1>4, <1>5, <1>6
<1>10. Len(heap[p].keys) >= 1
  <2>1. p # todo.node
    BY <1>8, <1>9
  <2>2. Len(heap[p].keys) + 0 >= Floor(p)
    BY <1>2, <2>1 DEF Shape, Sizes, LiveInner
  <2>3. Floor(p) >= 1 /\ Floor(p) \in Nat
    BY MinKeysFacts DEF Floor
  <2> QED
    BY <1>3, <2>2, <2>3
<1> HIDE DEF a, nb, p, q, i
<1>11. q \in 1..Len(heap[p].keys) /\ q + 1 \in 1..Len(heap[p].pointers) /\ q \in 1..Len(heap[p].pointers)
  BY <1>3, <1>4, <1>7, <1>10
<1>12. /\ i = 1 => q = 1 /\ heap[p].pointers[q] = a /\ heap[p].pointers[q + 1] = nb
       /\ i # 1 => heap[p].pointers[q] = nb /\ heap[p].pointers[q + 1] = a
  <2>1. i # 1 => q + 1 = i
    BY <1>4, <1>7
  <2> QED
    BY <1>4, <1>7, <2>1
<1>13. a # nb /\ nb \in Live /\ h[nb] + 1 = h[p] /\ heap[nb].parent = p
  <2>1. Distinct(heap[p].pointers)
    BY <1>2 DEF Shape, ChildrenAgree
  <2>2. heap[p].pointers[q] # heap[p].pointers[q + 1]
    BY <1>11, <2>1 DEF Distinct
  <2> QED
    BY SMTT(30), <1>2, <1>6, <1>11, <1>12, <2>2
<1>14. h[nb] \in Nat /\ h[nb] = h[a] /\ nb # p /\ nb # root
  BY <1>2, <1>3, <1>5, <1>9, <1>13
<1>15. a \in LeafAddresses <=> nb \in LeafAddresses
  BY <1>2, <1>5, <1>13, <1>14 DEF Graded
<1>16. heap[p].keys[q] \in Keys
  BY <1>3, <1>11, ElementOfSeq
<1>17. Len(heap[a].keys) + 1 >= MinKeys(heap[a]) /\ Len(heap[nb].keys) >= MinKeys(heap[nb])
  <2>1. Len(heap[a].keys) + 1 >= Floor(a) /\ Len(heap[nb].keys) + 0 >= Floor(nb)
    BY <1>1, <1>2, <1>8, <1>13 DEF Shape, Sizes
  <2>2. Len(heap[nb].keys) \in Nat
    BY <1>1, <1>2, <1>13, NodeFacts
  <2> QED
    BY <1>1, <1>14, <2>1, <2>2, MinKeysFacts DEF Floor
<1>18. ASSUME NEW x \in {a, nb} \cap LiveInner, NEW j \in 1..Len(heap[x].pointers)
       PROVE  /\ heap[x].pointers[j] \in Live /\ heap[heap[x].pointers[j]].parent = x
              /\ heap[x].pointers[j] \notin {a, nb, p}
  <2>1. h[heap[x].pointers[j]] + 1 = h[a] /\ heap[x].pointers[j] \in Live /\ heap[heap[x].pointers[j]].parent = x
    BY <1>6, <1>14
  <2>2. h[heap[x].pointers[j]] \in Nat
    BY <1>2, <1>5, <2>1
  <2> QED
    BY <1>9, <1>14, <2>1, <2>2
<1>19. Pair(a, nb, p, q)
  BY <1>1, <1>2, <1>3, <1>4, <1>7, <1>8, <1>9, <1>11, <1>12, <1>13, <1>14, <1>15, <1>16, <1>17, <1>18 DEF Pair, i
<1> QED
  BY <1>19 DEF a, nb, p, q

\* The right one of two neighbours is emptied into the left one; o is a place
\* of the key between them.
Coalesced(a, nb, p, q, to, from, o) ==
    /\ Repairing /\ Pair(a, nb, p, q) /\ root' = root /\ records' = records
    /\ \/ to = a /\ from = nb
       \/ to = nb /\ from = a
    /\ heap[p].pointers[q] = to /\ heap[p].pointers[q + 1] = from
    /\ Len(heap[to].keys) + Len(heap[from].keys) < (IF to \in LeafAddresses THEN Order ELSE Order - 1)
    /\ o \in 1..Len(heap[p].keys) /\ heap[p].keys[o] = heap[p].keys[q]
    /\ DOMAIN heap' = DOMAIN heap
    /\ TakenOut(heap'[p].keys, heap[p].keys, o)
    /\ TakenOut(heap'[p].pointers, heap[p].pointers, q + 1)
    /\ heap'[p].parent = heap[p].parent
    /\ to \in LeafAddresses => Joined(heap'[to].keys, heap[to].keys, heap[from].keys) /\ heap'[to].next = heap[from].next
    /\ to \notin LeafAddresses => Bridged(heap'[to].keys, heap[to].keys, heap[p].keys[q], heap[from].keys)
    /\ Joined(heap'[to].pointers, heap[to].pointers, heap[from].pointers)
    /\ heap'[to].parent = heap[to].parent
    /\ \A x \in DOMAIN heap \ {p, to} :
        /\ from \notin LeafAddresses /\ (\E j \in 1..Len(heap[from].pointers) : heap[from].pointers[j] = x) =>
              heap'[x] = Node(heap[x].leaf, heap[x].keys, heap[x].pointers, to, heap[x].next)
        /\ ~(from \notin LeafAddresses /\ (\E j \in 1..Len(heap[from].pointers) : heap[from].pointers[j] = x)) =>
              heap'[x] = heap[x]
    /\ todo' = [call |-> "delete_entry", node |-> p, dead |-> todo.dead \cup {from}]

\* coalesce_nodes does that.
LEMMA CoalesceStep ==
    ASSUME Shape, Coalesce
    PROVE  /\ TypeOK' /\ NodesTyped(heap')
           /\ \E a, nb, p, q, to, from, o : Coalesced(a, nb, p, q, to, from, o)
<1>1. TooSmall
  BY DEF Coalesce
<1> DEFINE a == todo.node
           nb == NeighborOf(a)
           p == heap[a].parent
           q == KPrimeIndexOf(a)
           to == IF PositionOf(a) = 1 THEN a ELSE nb
           from == IF PositionOf(a) = 1 THEN nb ELSE a
           ks == IF a \in LeafAddresses THEN heap[to].keys \o heap[from].keys
                 ELSE heap[to].keys \o <<KPrimeOf(a)>> \o heap[from].keys
           ps == heap[to].pointers \o heap[from].pointers
           nx == IF a \in LeafAddresses THEN heap[from].next ELSE heap[to].next
           n == Node(heap[to].leaf, ks, ps, heap[to].parent, nx)
           kids == IF a \in LeafAddresses THEN {} ELSE ToSet(ps)
           f == [heap EXCEPT ![to] = n]
           g == Adopt(f, kids, to)
           o == IndexOf(heap[p].keys, KPrimeOf(a))
           u == IndexOf(heap[p].pointers, from)
           pk == RemoveAt(heap[p].keys, o)
           pp == RemoveAt(heap[p].pointers, u)
<1>2. Pair(a, nb, p, q)
  BY <1>1, PairFacts
<1>3. /\ Repairing /\ TypeOK /\ Live \subseteq DOMAIN heap /\ LiveInner = Live \ LeafAddresses
  BY <1>1, RepairingFacts DEF TooSmall, Repairing, Shape
<1>4. /\ (to = a /\ from = nb) \/ (to = nb /\ from = a)
      /\ heap[p].pointers[q] = to /\ heap[p].pointers[q + 1] = from
      /\ to \in DOMAIN heap /\ from \in DOMAIN heap /\ p \in DOMAIN heap /\ p \notin LeafAddresses
      /\ to # from /\ to # p /\ from # p
      /\ a \in LeafAddresses <=> to \in LeafAddresses
      /\ a \in LeafAddresses <=> from \in LeafAddresses
      /\ a \in DOMAIN heap
  BY <1>2, <1>3 DEF Pair
<1>5. \A x \in {to, from} : x \notin LeafAddresses => \A j \in 1..Len(heap[x].pointers) :
         /\ heap[x].pointers[j] \in DOMAIN heap /\ heap[heap[x].pointers[j]].parent = x
         /\ heap[x].pointers[j] \notin {to, from, p}
  BY <1>2, <1>3, <1>4 DEF Pair
<1>6. /\ Len(heap[a].keys) + Len(heap[nb].keys) < Capacity(heap[a])
      /\ root' = root /\ records' = records
      /\ todo' = [todo EXCEPT !.node = p, !.dead = @ \cup {from}]
  BY <1>3 DEF Coalesce
<1>7. /\ TypedNode(to, heap[to]) /\ TypedNode(from, heap[from]) /\ TypedNode(p, heap[p]) /\ TypedNode(a, heap[a])
  BY <1>3, <1>4, NodeFacts
<1>8. heap[a].leaf <=> a \in LeafAddresses
  BY <1>7, TypedNodeFacts
<1> DEFINE merged == IF heap[a].leaf
                     THEN [heap[to] EXCEPT !.keys = @ \o heap[from].keys,
                                           !.pointers = @ \o heap[from].pointers,
                                           !.next = heap[from].next]
                     ELSE [heap[to] EXCEPT !.keys = @ \o <<KPrimeOf(a)>> \o heap[from].keys,
                                           !.pointers = @ \o heap[from].pointers]
           young == IF heap[a].leaf THEN {} ELSE ToSet(merged.pointers)
<1>9. heap' = [Adopt([heap EXCEPT ![to] = merged], young, to) EXCEPT ![p] = RemoveEntry(@, KPrimeOf(a), from)]
  BY DEF Coalesce
<1> HIDE DEF a, nb, p, q, to, from
<1>10. merged = n
  <2> DEFINE kl == heap[to].keys \o heap[from].keys
             ki == heap[to].keys \o <<KPrimeOf(a)>> \o heap[from].keys
             nf == heap[from].next
  <2>1. /\ heap[a].leaf => merged = [heap[to] EXCEPT !.keys = kl, !.pointers = ps, !.next = nf]
        /\ ~heap[a].leaf => merged = [heap[to] EXCEPT !.keys = ki, !.pointers = ps]
    OBVIOUS
  <2>2. /\ heap[a].leaf => n = Node(heap[to].leaf, kl, ps, heap[to].parent, nf)
        /\ ~heap[a].leaf => n = Node(heap[to].leaf, ki, ps, heap[to].parent, heap[to].next)
    BY <1>8
  <2> HIDE DEF kl, ki, nf, ps, n, merged
  <2>3. CASE heap[a].leaf
    <3> DEFINE v == heap[to]
    <3>1. TypedNode(to, v)
      BY <1>7
    <3>2. Relinked(v, kl, ps, nf) = Node(v.leaf, kl, ps, v.parent, nf)
      <4> HIDE DEF v
      <4> QED
        BY <3>1, NodeRelinked
    <3> QED
      BY <2>1, <2>2, <2>3, <3>2 DEF Relinked
  <2>4. CASE ~heap[a].leaf
    BY <1>7, <2>1, <2>2, <2>4, NodeEdited
  <2> QED
    BY <2>3, <2>4
<1>11. young = kids
  <2>1. n.pointers = ps
    BY DEF Node
  <2> HIDE DEF merged, n, ps
  <2> QED
    BY <1>8, <1>10, <2>1
<1>12. heap' = [g EXCEPT ![p] = RemoveEntry(@, KPrimeOf(a), from)]
  <2> HIDE DEF merged, young, n, kids
  <2> QED
    BY <1>9, <1>10, <1>11
<1> HIDE DEF merged, young, nx
<1>13. /\ heap[to].keys \in Seq(Keys) /\ heap[from].keys \in Seq(Keys)
       /\ heap[to].parent \in Addresses \cup {Null} /\ heap[to].next \in Addresses \cup {Null}
       /\ heap[from].next \in Addresses \cup {Null}
       /\ a \in LeafAddresses => heap[to].pointers \in Seq(Pairs) /\ heap[from].pointers \in Seq(Pairs)
       /\ a \notin LeafAddresses => heap[to].pointers \in Seq(Addresses) /\ heap[from].pointers \in Seq(Addresses)
  BY <1>4, <1>7, TypedNodeFacts
<1> DEFINE lt == Len(heap[to].keys)
           lf == Len(heap[from].keys)
           mt == Len(heap[to].pointers)
           mf == Len(heap[from].pointers)
<1>14. /\ lt \in Nat /\ lf \in Nat /\ mt \in Nat /\ mf \in Nat
       /\ a \in LeafAddresses => mt = lt /\ mf = lf
       /\ a \notin LeafAddresses => mt = lt + 1 /\ mf = lf + 1
  BY <1>4, <1>7, TypedNodeFacts
<1>15. KPrimeOf(a) = heap[p].keys[q] /\ heap[p].keys[q] \in Keys
  BY <1>2 DEF Pair
<1>16. /\ ks \in Seq(Keys)
       /\ a \in LeafAddresses => Joined(ks, heap[to].keys, heap[from].keys)
       /\ a \notin LeafAddresses => Bridged(ks, heap[to].keys, heap[p].keys[q], heap[from].keys)
  <2>1. CASE a \in LeafAddresses
    BY <1>13, <2>1, SequencesMade
  <2>2. CASE a \notin LeafAddresses
    BY <1>13, <1>15, <2>2, BridgeMade
  <2> QED
    BY <2>1, <2>2
<1>17. /\ a \in LeafAddresses => ps \in Seq(Pairs)
       /\ a \notin LeafAddresses => ps \in Seq(Addresses)
       /\ Joined(ps, heap[to].pointers, heap[from].pointers)
  <2>1. CASE a \in LeafAddresses
    BY <1>13, <2>1, SequencesMade
  <2>2. CASE a \notin LeafAddresses
    BY <1>13, <2>2, SequencesMade
  <2> QED
    BY <2>1, <2>2
<1> HIDE DEF ks, ps
<1>18. TypedNode(to, n)
  <2>1. CASE a \in LeafAddresses
    <3>1. heap[to].leaf = TRUE /\ nx \in Addresses \cup {Null}
      BY <1>4, <1>7, <1>13, <2>1 DEF nx, TypedNode, NodesOf
    <3>2. Len(ps) = Len(ks)
      <4>1. Len(ps) = mt + mf
        BY <1>17 DEF Joined
      <4>2. Len(ks) = lt + lf
        BY <1>16, <2>1 DEF Joined
      <4> HIDE DEF lt, lf, mt, mf
      <4> QED
        BY <1>14, <2>1, <4>1, <4>2
    <3> QED
      BY <1>4, <1>13, <1>16, <1>17, <2>1, <3>1, <3>2, NodeMade
  <2>2. CASE a \notin LeafAddresses
    <3>1. heap[to].leaf = FALSE /\ nx \in Addresses \cup {Null}
      BY <1>4, <1>7, <1>13, <2>2 DEF nx, TypedNode, NodesOf
    <3>2. Len(ps) = Len(ks) + 1
      <4>1. Len(ps) = mt + mf
        BY <1>17 DEF Joined
      <4>2. Len(ks) = lt + 1 + lf
        BY <1>16, <2>2 DEF Bridged
      <4> HIDE DEF lt, lf, mt, mf
      <4> QED
        BY <1>14, <2>2, <4>1, <4>2
    <3> QED
      BY <1>4, <1>13, <1>16, <1>17, <2>2, <3>1, <3>2, NodeMade
  <2> QED
    BY <2>1, <2>2
<1>19. /\ n.keys = ks /\ n.pointers = ps /\ n.parent = heap[to].parent /\ n.next = nx
  BY DEF Node
<1> HIDE DEF n
<1>20. /\ DOMAIN f = DOMAIN heap /\ f[to] = n /\ \A x \in DOMAIN heap \ {to} : f[x] = heap[x]
  BY <1>4
<1> HIDE DEF f
<1>21. IsAdopted(g, f, kids, to)
  BY HeapsMade
<1> HIDE DEF g
<1>22. /\ kids \subseteq DOMAIN heap /\ p \notin kids /\ to \notin kids /\ from \notin kids
       /\ \A x \in kids :
            /\ a \notin LeafAddresses
            /\ \/ \E j \in 1..Len(heap[from].pointers) : heap[from].pointers[j] = x
               \/ heap[x].parent = to
       /\ a \notin LeafAddresses => \A j \in 1..Len(heap[from].pointers) : heap[from].pointers[j] \in kids
  <2>1. CASE a \in LeafAddresses
    BY <2>1
  <2>2. CASE a \notin LeafAddresses
    <3>1. \A x : x \in kids <=> \E j \in 1..Len(ps) : ps[j] = x
      BY <1>17, <2>2, ElementsOf
    <3> HIDE DEF kids
    <3>2. Len(heap[to].pointers) \in Nat /\ Len(heap[from].pointers) \in Nat
      BY <1>7, TypedNodeFacts
    <3>3. \A j \in 1..Len(ps) :
            (\E l \in 1..Len(heap[to].pointers) : ps[j] = heap[to].pointers[l])
            \/ (\E l \in 1..Len(heap[from].pointers) : ps[j] = heap[from].pointers[l])
      <4> DEFINE s == heap[to].pointers
                 v == heap[from].pointers
      <4>1. Joined(ps, s, v) /\ Len(s) \in Nat /\ Len(v) \in Nat
        BY <1>17, <3>2
      <4> HIDE DEF s, v
      <4>2. \A j \in 1..Len(ps) : (\E l \in 1..Len(s) : ps[j] = s[l]) \/ (\E l \in 1..Len(v) : ps[j] = v[l])
        BY <4>1, JoinedElements
      <4> QED
        BY <4>2 DEF s, v
    <3>4. \A j \in 1..Len(heap[from].pointers) :
            Len(heap[to].pointers) + j \in 1..Len(ps) /\ ps[Len(heap[to].pointers) + j] = heap[from].pointers[j]
      <4> DEFINE s == heap[to].pointers
                 v == heap[from].pointers
      <4>1. Joined(ps, s, v) /\ Len(s) \in Nat /\ Len(v) \in Nat
        BY <1>17, <3>2
      <4> HIDE DEF s, v
      <4>2. \A j \in 1..Len(v) : Len(s) + j \in 1..Len(ps) /\ ps[Len(s) + j] = v[j]
        BY <4>1, JoinedElements
      <4> QED
        BY <4>2 DEF s, v
    <3>5. \A j \in 1..Len(heap[from].pointers) : heap[from].pointers[j] \in kids
      BY <3>1, <3>4
    <3>6. \A x \in kids : /\ x \in DOMAIN heap /\ x \notin {to, from, p}
                          /\ \/ \E j \in 1..Len(heap[from].pointers) : heap[from].pointers[j] = x
                             \/ heap[x].parent = to
      BY <1>4, <1>5, <2>2, <3>1, <3>3
    <3> QED
      BY <2>2, <3>5, <3>6
  <2> QED
    BY <2>1, <2>2
<1> HIDE DEF kids
<1>23. /\ DOMAIN g = DOMAIN heap /\ g = [x \in DOMAIN g |-> g[x]]
       /\ g[to] = n /\ g[p] = heap[p]
       /\ \A x \in DOMAIN heap \ {to} : x \notin kids => g[x] = heap[x]
       /\ \A x \in DOMAIN heap \ {to} : x \in kids => g[x] = [heap[x] EXCEPT !.parent = to]
  BY <1>4, <1>20, <1>21, <1>22 DEF IsAdopted
<1>24. \A x \in DOMAIN heap \ {to} : x \in kids =>
         /\ TypedNode(x, g[x])
         /\ g[x] = Node(heap[x].leaf, heap[x].keys, heap[x].pointers, to, heap[x].next)
  <2> SUFFICES ASSUME NEW x \in DOMAIN heap \ {to}, x \in kids
               PROVE  /\ TypedNode(x, g[x])
                      /\ g[x] = Node(heap[x].leaf, heap[x].keys, heap[x].pointers, to, heap[x].next)
    OBVIOUS
  <2>1. TypedNode(x, heap[x]) /\ to \in Addresses \cup {Null} /\ g[x] = [heap[x] EXCEPT !.parent = to]
    BY <1>3, <1>4, <1>23, NodeFacts
  <2> QED
    BY <2>1, NodeReparented
<1>25. /\ heap[p].keys \in Seq(Keys) /\ heap[p].pointers \in Seq(Addresses)
       /\ Len(heap[p].pointers) = Len(heap[p].keys) + 1 /\ Len(heap[p].keys) \in Nat
       /\ heap[p].parent \in Addresses \cup {Null} /\ heap[p].next \in Addresses \cup {Null}
       /\ heap[p].leaf = FALSE /\ q \in 1..Len(heap[p].keys)
  BY <1>2, <1>4, <1>7, TypedNodeFacts DEF Pair, TypedNode, NodesOf
<1>26. o \in 1..Len(heap[p].keys) /\ heap[p].keys[o] = heap[p].keys[q]
  <2>1. \E j \in 1..Len(heap[p].keys) : heap[p].keys[j] = KPrimeOf(a)
    BY <1>15, <1>25
  <2> QED
    BY <1>15, <1>25, <2>1, IndexOfFacts
<1>27. u \in 1..Len(heap[p].pointers) /\ u = q + 1
  <2>1. q + 1 \in 1..Len(heap[p].pointers)
    BY <1>25
  <2>2. \E j \in 1..Len(heap[p].pointers) : heap[p].pointers[j] = from
    BY <1>4, <2>1
  <2>3. u \in 1..Len(heap[p].pointers) /\ heap[p].pointers[u] = from
    BY <1>25, <2>2, IndexOfFacts
  <2>4. Distinct(heap[p].pointers)
    BY <1>2 DEF Shape, ChildrenAgree, Pair
  <2> QED
    BY <1>4, <2>1, <2>3, <2>4 DEF Distinct
<1>28. RemoveEntry(heap[p], KPrimeOf(a), from) = [heap[p] EXCEPT !.keys = pk, !.pointers = pp]
  BY <1>4, <1>7 DEF RemoveEntry, TypedNode, NodesOf
<1> HIDE DEF o, u
<1>29. pk \in Seq(Keys) /\ TakenOut(pk, heap[p].keys, o) /\ pp \in Seq(Addresses) /\ TakenOut(pp, heap[p].pointers, q + 1)
  BY <1>25, <1>26, <1>27, SequencesMade
<1> HIDE DEF pk, pp
<1>30. /\ DOMAIN heap' = DOMAIN heap /\ heap' = [x \in DOMAIN heap' |-> heap'[x]]
       /\ heap'[p] = [heap[p] EXCEPT !.keys = pk, !.pointers = pp]
       /\ \A x \in DOMAIN heap \ {p} : heap'[x] = g[x]
  BY <1>4, <1>23, <1>28, <1>12
<1>31. heap'[p] = Node(heap[p].leaf, pk, pp, heap[p].parent, heap[p].next)
  BY <1>7, <1>30, NodeEdited
<1>32. TypedNode(p, heap'[p])
  <2>1. Len(pp) = Len(pk) + 1
    BY <1>25, <1>29 DEF TakenOut
  <2>2. TypedNode(p, Node(FALSE, pk, pp, heap[p].parent, heap[p].next))
    BY <1>4, <1>25, <1>29, <2>1, NodeMade
  <2> QED
    BY <1>25, <1>31, <2>2
<1>33. NodesTyped(heap')
  <2>1. ASSUME NEW x \in DOMAIN heap \ {p} PROVE TypedNode(x, heap'[x])
    <3>1. CASE x = to
      BY <3>1, <1>4, <1>18, <1>23, <1>30
    <3>2. CASE x # to /\ x \in kids
      BY <3>2, <1>24, <1>30
    <3>3. CASE x # to /\ x \notin kids
      BY <3>3, <1>3, <1>23, <1>30, NodeFacts
    <3> QED
      BY <3>1, <3>2, <3>3
  <2> QED
    BY <1>30, <1>32, <2>1 DEF NodesTyped
<1>34. todo' = [call |-> "delete_entry", node |-> p, dead |-> todo.dead \cup {from}] /\ todo' \in Calls
  <2>1. todo = [call |-> "delete_entry", node |-> todo.node, dead |-> todo.dead] /\ todo.dead \subseteq Addresses
    BY <1>3, RepairingFacts
  <2>2. todo' = [call |-> "delete_entry", node |-> p, dead |-> todo.dead \cup {from}]
    <3>1. todo \in [call : {"delete_entry"}, node : {todo.node}, dead : {todo.dead}]
      BY <2>1
    <3>2. todo' \in [call : {"delete_entry"}, node : {p}, dead : {todo.dead \cup {from}}]
      BY <1>6, <3>1
    <3> QED
      BY <3>2
  <2>3. p \in Addresses /\ from \in Addresses
    BY <1>3, <1>4, NodeFacts
  <2> QED
    BY <2>1, <2>2, <2>3 DEF Calls
<1>35. TypeOK'
  BY <1>3, <1>6, <1>30, <1>33, <1>34 DEF TypeOK, TypedNode, NodesTyped
<1>36. /\ heap'[p].keys = pk /\ heap'[p].pointers = pp /\ heap'[p].parent = heap[p].parent
       /\ heap'[to].keys = ks /\ heap'[to].pointers = ps /\ heap'[to].parent = heap[to].parent /\ heap'[to].next = nx
  BY <1>4, <1>19, <1>23, <1>30, <1>31 DEF Node
<1>37. ASSUME NEW x \in DOMAIN heap \ {p, to}
       PROVE  /\ from \notin LeafAddresses /\ (\E j \in 1..Len(heap[from].pointers) : heap[from].pointers[j] = x) =>
                   heap'[x] = Node(heap[x].leaf, heap[x].keys, heap[x].pointers, to, heap[x].next)
              /\ ~(from \notin LeafAddresses /\ (\E j \in 1..Len(heap[from].pointers) : heap[from].pointers[j] = x)) =>
                   heap'[x] = heap[x]
  <2>1. CASE x \notin kids
    BY <1>4, <1>22, <1>23, <1>30, <2>1
  <2>2. CASE x \in kids
    <3>1. heap'[x] = Node(heap[x].leaf, heap[x].keys, heap[x].pointers, to, heap[x].next)
      BY <1>24, <1>30, <2>2
    <3>2. heap[x].parent = to => heap[x] = Node(heap[x].leaf, heap[x].keys, heap[x].pointers, to, heap[x].next)
      BY <1>3, NodeFacts, TypedNodeFacts
    <3> QED
      BY <1>4, <1>22, <2>2, <3>1, <3>2
  <2> QED
    BY <2>1, <2>2
<1>38. Len(heap[to].keys) + Len(heap[from].keys) < (IF to \in LeafAddresses THEN Order ELSE Order - 1)
  <2>1. Len(heap[to].keys) + Len(heap[from].keys) < Capacity(heap[a])
    <3>1. Len(heap[to].keys) + Len(heap[from].keys) = Len(heap[from].keys) + Len(heap[to].keys)
      <4>1. lt + lf = lf + lt
        <5> HIDE DEF lt, lf
        <5> QED
          BY <1>14
      <4> QED
        BY <4>1
    <3>2. Len(heap[a].keys) + Len(heap[nb].keys) < Capacity(heap[a])
      BY <1>6
    <3> QED
      BY <1>4, <3>1, <3>2
  <2>2. Capacity(heap[a]) = IF to \in LeafAddresses THEN Order ELSE Order - 1
    BY <1>4, <1>8 DEF Capacity
  <2> QED
    BY <2>1, <2>2
<1>39. Coalesced(a, nb, p, q, to, from, o)
  BY <1>2, <1>3, <1>4, <1>6, <1>16, <1>17, <1>26, <1>29, <1>30, <1>34, <1>36, <1>37, <1>38 DEF Coalesced, nx
<1> QED
  BY <1>33, <1>35, <1>39

\* Of the node a and its neighbour nb, one entry goes from the neighbour to
\* the node, and another key s comes between the two.
Redistributed(a, nb, p, q, u, v, w, z, e, c, s) ==
    /\ Repairing /\ Pair(a, nb, p, q) /\ todo' = NoCall /\ root' = root /\ records' = records
    /\ Len(heap[a].keys) < MinKeys(heap[a]) /\ Len(heap[nb].keys) >= MinKeys(heap[nb]) + 1
    /\ u \in 1..(Len(heap[a].keys) + 1) /\ v \in 1..(Len(heap[a].pointers) + 1)
    /\ w \in 1..Len(heap[nb].keys) /\ z \in 1..Len(heap[nb].pointers)
    /\ c = heap[nb].pointers[z]
    /\ DOMAIN heap' = Live
    /\ PutIn(heap'[a].keys, heap[a].keys, u, e) /\ PutIn(heap'[a].pointers, heap[a].pointers, v, c)
    /\ TakenOut(heap'[nb].keys, heap[nb].keys, w) /\ TakenOut(heap'[nb].pointers, heap[nb].pointers, z)
    /\ \A x \in {a, nb, p} : heap'[x].parent = heap[x].parent /\ heap'[x].next = heap[x].next
    /\ heap'[p].pointers = heap[p].pointers /\ Len(heap'[p].keys) = Len(heap[p].keys)
    /\ \A j \in 1..Len(heap[p].keys) : heap'[p].keys[j] = IF j = q THEN s ELSE heap[p].keys[j]
    /\ \A x \in Live \ {a, nb, p} :
        /\ a \notin LeafAddresses /\ x = c =>
              heap'[x] = Node(heap[x].leaf, heap[x].keys, heap[x].pointers, a, heap[x].next)
        /\ ~(a \notin LeafAddresses /\ x = c) => heap'[x] = heap[x]

\* The entry is the last one of the neighbour on the left, or the first one of
\* the neighbour on the right.
FromTheLeft(a, nb, p, q, u, v, w, z, e, s) ==
    /\ heap[p].pointers[q] = nb /\ heap[p].pointers[q + 1] = a
    /\ u = 1 /\ v = 1 /\ w = Len(heap[nb].keys) /\ z = Len(heap[nb].pointers)
    /\ e = (IF a \in LeafAddresses THEN heap[nb].keys[w] ELSE heap[p].keys[q])
    /\ s = heap[nb].keys[w]

\* From the right.
FromTheRight(a, nb, p, q, u, v, w, z, e, s) ==
    /\ heap[p].pointers[q] = a /\ heap[p].pointers[q + 1] = nb
    /\ u = Len(heap[a].keys) + 1 /\ v = Len(heap[a].pointers) + 1 /\ w = 1 /\ z = 1
    /\ e = (IF a \in LeafAddresses THEN heap[nb].keys[1] ELSE heap[p].keys[q])
    /\ s = (IF a \in LeafAddresses THEN heap[nb].keys[2] ELSE heap[nb].keys[1])

\* When a node and its neighbour are too large to be one node, the neighbour
\* has an entry to spare.
LEMMA NeighborSpares ==
    ASSUME Shape, TooSmall, NEW nb, nb = NeighborOf(todo.node),
           Len(heap[todo.node].keys) + Len(heap[nb].keys) >= Capacity(heap[todo.node])
    PROVE  /\ Len(heap[todo.node].keys) < MinKeys(heap[todo.node])
           /\ Len(heap[nb].keys) >= MinKeys(heap[nb]) + 1
<1> DEFINE a == todo.node
           la == Len(heap[a].keys)
           lb == Len(heap[nb].keys)
           ca == cut(Order - 1)
           ci == cut(Order)
<1>1. Pair(a, nb, heap[a].parent, KPrimeIndexOf(a)) /\ Repairing /\ la < MinKeys(heap[a])
  BY PairFacts DEF TooSmall, Repairing
<1>2. a \in DOMAIN heap /\ nb \in DOMAIN heap /\ TypeOK
  BY <1>1, RepairingFacts DEF Pair, Shape
<1>3. /\ la \in Nat /\ lb \in Nat
      /\ heap[a].leaf <=> a \in LeafAddresses
      /\ heap[nb].leaf <=> nb \in LeafAddresses
  BY <1>2, NodeFacts
<1>4. heap[a].leaf <=> heap[nb].leaf
  BY <1>1, <1>3 DEF Pair
<1>5. Order \in Nat /\ Order >= 3 /\ Order - 1 \in Nat
  BY TreeAssumption
<1>6. ca \in Nat /\ 2 * ca <= Order - 1 + 1 /\ ci \in Nat /\ 2 * ci <= Order + 1
  BY <1>5, Halves
<1>7. CASE heap[a].leaf
  <2>1. MinKeys(heap[a]) = ca /\ MinKeys(heap[nb]) = ca /\ la + lb >= Order
    BY <1>4, <1>7 DEF MinKeys, Capacity
  <2> HIDE DEF la, lb, ca
  <2>2. lb >= ca + 1
    BY <1>1, <1>3, <1>5, <1>6, <2>1
  <2> QED
    BY <1>1, <2>1, <2>2 DEF la, lb
<1>8. CASE ~heap[a].leaf
  <2>1. MinKeys(heap[a]) = ci - 1 /\ MinKeys(heap[nb]) = ci - 1 /\ la + lb >= Order - 1
    BY <1>4, <1>8 DEF MinKeys, Capacity
  <2> HIDE DEF la, lb, ci
  <2>2. lb >= ci - 1 + 1
    BY <1>1, <1>3, <1>5, <1>6, <2>1
  <2> QED
    BY <1>1, <2>1, <2>2 DEF la, lb
<1> QED
  BY <1>7, <1>8

\* A heap with the node at a replaced, the keys and pointers of the one at nb,
\* and the key at place q of the one at p.
Edited(g, a, n, nb, nk, np, p, q, s) ==
    [g EXCEPT ![a] = n, ![nb].keys = nk, ![nb].pointers = np, ![p].keys[q] = s]

\* Keys with another one at place q.
Replaced(keys, q, s) == [keys EXCEPT ![q] = s]

\* The nodes of such a heap, one by one.
LEMMA EditedNodes ==
    ASSUME NEW g, NEW a \in DOMAIN g, NEW nb \in DOMAIN g, NEW p \in DOMAIN g,
           a # nb, a # p, nb # p, NEW n, NEW nk, NEW np, NEW q, NEW s,
           TypedNode(nb, g[nb]), TypedNode(p, g[p])
    PROVE  /\ DOMAIN Edited(g, a, n, nb, nk, np, p, q, s) = DOMAIN g
           /\ Edited(g, a, n, nb, nk, np, p, q, s)[a] = n
           /\ Edited(g, a, n, nb, nk, np, p, q, s)[nb] = Node(g[nb].leaf, nk, np, g[nb].parent, g[nb].next)
           /\ Edited(g, a, n, nb, nk, np, p, q, s)[p] =
                Node(g[p].leaf, Replaced(g[p].keys, q, s), g[p].pointers, g[p].parent, g[p].next)
           /\ \A x \in DOMAIN g \ {a, nb, p} : Edited(g, a, n, nb, nk, np, p, q, s)[x] = g[x]
<1> DEFINE g1 == [g EXCEPT ![a] = n]
           g2 == [g1 EXCEPT ![nb].keys = nk]
           g3 == [g2 EXCEPT ![nb].pointers = np]
           g4 == [g3 EXCEPT ![p].keys[q] = s]
<1>1. Edited(g, a, n, nb, nk, np, p, q, s) = g4
  BY DEF Edited
<1>2. g4 = [g3 EXCEPT ![p].keys[q] = s]
  OBVIOUS
<1> HIDE DEF g4
<1>3. g3 = [g2 EXCEPT ![nb].pointers = np]
  OBVIOUS
<1> HIDE DEF g3
<1>4. g2 = [g1 EXCEPT ![nb].keys = nk]
  OBVIOUS
<1> HIDE DEF g2
<1>5. DOMAIN g1 = DOMAIN g /\ g1[a] = n /\ \A x \in DOMAIN g : x # a => g1[x] = g[x]
  OBVIOUS
<1> HIDE DEF g1
<1>6. DOMAIN g2 = DOMAIN g /\ g2[nb] = [g1[nb] EXCEPT !.keys = nk] /\ \A x \in DOMAIN g : x # nb => g2[x] = g1[x]
  BY <1>4, <1>5
<1>7. DOMAIN g3 = DOMAIN g /\ g3[nb] = [g2[nb] EXCEPT !.pointers = np] /\ \A x \in DOMAIN g : x # nb => g3[x] = g2[x]
  BY <1>3, <1>6
<1>8. /\ DOMAIN g4 = DOMAIN g /\ g4[p] = [g3[p] EXCEPT !.keys[q] = s]
      /\ \A x \in DOMAIN g : x # p => g4[x] = g3[x]
  BY <1>2, <1>7
<1>9. g1[nb] = g[nb] /\ g3[p] = g[p]
  BY <1>5, <1>6, <1>7
<1>10. g4[nb] = [[g[nb] EXCEPT !.keys = nk] EXCEPT !.pointers = np]
  BY <1>6, <1>7, <1>8, <1>9
<1>11. g4[p] = [g[p] EXCEPT !.keys[q] = s]
  BY <1>8, <1>9
<1>12. g4[nb] = [g[nb] EXCEPT !.keys = nk, !.pointers = np]
  BY <1>10
<1>13. g4[p] = [g[p] EXCEPT !.keys = [g[p].keys EXCEPT ![q] = s]]
  BY <1>11
<1>14. /\ g4[nb] = Node(g[nb].leaf, nk, np, g[nb].parent, g[nb].next)
       /\ g4[p] = Node(g[p].leaf, Replaced(g[p].keys, q, s), g[p].pointers, g[p].parent, g[p].next)
  BY <1>12, <1>13, NodeEdited, NodeRekeyed DEF Replaced
<1>15. g4[a] = n /\ \A x \in DOMAIN g \ {a, nb, p} : g4[x] = g[x]
  BY <1>5, <1>6, <1>7, <1>8
<1> QED
  BY <1>1, <1>8, <1>15, <1>14

\* An entry moves between the two nodes a and nb: g is the heap with the nodes
\* S moved below a, f the one with the two nodes and the key between them
\* edited, h the one without the nodes that are freed.
Sharing(a, nb, p, q, ak, ap, nk, np, s, S, dead, g, f, h) ==
    /\ a \in DOMAIN heap /\ nb \in DOMAIN heap /\ p \in DOMAIN heap
    /\ a # nb /\ a # p /\ nb # p
    /\ TypedNode(a, Node(heap[a].leaf, ak, ap, heap[a].parent, heap[a].next))
    /\ TypedNode(nb, Node(heap[nb].leaf, nk, np, heap[nb].parent, heap[nb].next))
    /\ q \in 1..Len(heap[p].keys) /\ s \in Keys
    /\ S \in SUBSET (DOMAIN heap \ {a, nb, p}) /\ dead \cap {a, nb, p} = {}
    /\ IsAdopted(g, heap, S, a)
    /\ f = Edited(g, a, Node(heap[a].leaf, ak, ap, heap[a].parent, heap[a].next), nb, nk, np, p, q, s)
    /\ IsWithout(h, f, dead)

\* The heap afterwards.
Shared(a, nb, p, q, ak, ap, nk, np, s, S, dead, h) ==
    /\ IsFiniteSet(DOMAIN h) /\ DOMAIN h \subseteq Addresses
    /\ h = [x \in DOMAIN h |-> h[x]] /\ NodesTyped(h)
    /\ DOMAIN h = DOMAIN heap \ dead
    /\ h[a] = Node(heap[a].leaf, ak, ap, heap[a].parent, heap[a].next)
    /\ h[nb] = Node(heap[nb].leaf, nk, np, heap[nb].parent, heap[nb].next)
    /\ h[p] = Node(heap[p].leaf, h[p].keys, heap[p].pointers, heap[p].parent, heap[p].next)
    /\ Len(h[p].keys) = Len(heap[p].keys)
    /\ \A j \in 1..Len(heap[p].keys) : h[p].keys[j] = IF j = q THEN s ELSE heap[p].keys[j]
    /\ \A x \in DOMAIN heap \ {a, nb, p} : x \notin dead =>
         /\ x \notin S => h[x] = heap[x]
         /\ x \in S => h[x] = Node(heap[x].leaf, heap[x].keys, heap[x].pointers, a, heap[x].next)

\* The heap made in these three steps is so, node by node.
LEMMA SharedHeap ==
    ASSUME TypeOK, NEW a, NEW nb, NEW p, NEW q, NEW ak, NEW ap, NEW nk, NEW np, NEW s, NEW S, NEW dead,
           NEW g, NEW f, NEW h, Sharing(a, nb, p, q, ak, ap, nk, np, s, S, dead, g, f, h)
    PROVE  Shared(a, nb, p, q, ak, ap, nk, np, s, S, dead, h)
<1>1. /\ a \in DOMAIN heap /\ nb \in DOMAIN heap /\ p \in DOMAIN heap
      /\ a # nb /\ a # p /\ nb # p
      /\ TypedNode(a, Node(heap[a].leaf, ak, ap, heap[a].parent, heap[a].next))
      /\ TypedNode(nb, Node(heap[nb].leaf, nk, np, heap[nb].parent, heap[nb].next))
      /\ q \in 1..Len(heap[p].keys) /\ s \in Keys
      /\ S \in SUBSET (DOMAIN heap \ {a, nb, p}) /\ dead \cap {a, nb, p} = {}
      /\ IsAdopted(g, heap, S, a)
      /\ f = Edited(g, a, Node(heap[a].leaf, ak, ap, heap[a].parent, heap[a].next), nb, nk, np, p, q, s)
      /\ IsWithout(h, f, dead)
  BY DEF Sharing
<1> DEFINE moved == Node(heap[a].leaf, ak, ap, heap[a].parent, heap[a].next)
           lent == Node(heap[nb].leaf, nk, np, heap[nb].parent, heap[nb].next)
           pk == Replaced(g[p].keys, q, s)
<1>2. TypedNode(a, moved) /\ TypedNode(nb, lent) /\ f = Edited(g, a, moved, nb, nk, np, p, q, s)
  BY <1>1
<1> HIDE DEF moved, lent
<1>3. /\ DOMAIN g = DOMAIN heap /\ g[a] = heap[a] /\ g[nb] = heap[nb] /\ g[p] = heap[p]
      /\ \A x \in DOMAIN heap : x \notin S => g[x] = heap[x]
      /\ \A x \in DOMAIN heap : x \in S => g[x] = [heap[x] EXCEPT !.parent = a]
  BY <1>1 DEF IsAdopted
<1>4. TypedNode(nb, heap[nb]) /\ TypedNode(p, heap[p]) /\ a \in Addresses \cup {Null}
  BY <1>1, NodeFacts
<1>5. /\ DOMAIN f = DOMAIN heap /\ f[a] = moved /\ f[nb] = lent
      /\ f[p] = Node(heap[p].leaf, pk, heap[p].pointers, heap[p].parent, heap[p].next)
      /\ \A x \in DOMAIN heap \ {a, nb, p} : f[x] = g[x]
  <2>1. /\ a \in DOMAIN g /\ nb \in DOMAIN g /\ p \in DOMAIN g
        /\ TypedNode(nb, g[nb]) /\ TypedNode(p, g[p])
    BY <1>1, <1>3, <1>4
  <2>2. /\ DOMAIN f = DOMAIN g /\ f[a] = moved
        /\ f[nb] = Node(g[nb].leaf, nk, np, g[nb].parent, g[nb].next)
        /\ f[p] = Node(g[p].leaf, pk, g[p].pointers, g[p].parent, g[p].next)
        /\ \A x \in DOMAIN g \ {a, nb, p} : f[x] = g[x]
    <3> DEFINE e == Edited(g, a, moved, nb, nk, np, p, q, s)
    <3>1. /\ DOMAIN e = DOMAIN g /\ e[a] = moved
          /\ e[nb] = Node(g[nb].leaf, nk, np, g[nb].parent, g[nb].next)
          /\ e[p] = Node(g[p].leaf, pk, g[p].pointers, g[p].parent, g[p].next)
          /\ \A x \in DOMAIN g \ {a, nb, p} : e[x] = g[x]
      BY <1>1, <2>1, EditedNodes
    <3>2. f = e
      BY <1>1, <1>2
    <3> HIDE DEF pk, e
    <3> QED
      BY <1>1, <3>1, <3>2
  <2> HIDE DEF pk
  <2> QED
    BY <1>1, <1>3, <2>2 DEF lent
<1>6. heap[p].keys \in Seq(Keys)
  BY <1>1, <1>4, TypedNodeFacts
<1>7. /\ pk \in Seq(Keys) /\ Len(pk) = Len(heap[p].keys)
      /\ \A j \in 1..Len(heap[p].keys) : pk[j] = IF j = q THEN s ELSE heap[p].keys[j]
  <2> DEFINE ks == g[p].keys
  <2>1. ks \in Seq(Keys) /\ ks = heap[p].keys
    BY <1>1, <1>3, <1>6
  <2> HIDE DEF ks
  <2>2. q \in 1..Len(ks)
    BY <1>1, <2>1
  <2>3. /\ [ks EXCEPT ![q] = s] \in Seq(Keys) /\ Len([ks EXCEPT ![q] = s]) = Len(ks)
        /\ \A j \in 1..Len(ks) : [ks EXCEPT ![q] = s][j] = IF j = q THEN s ELSE ks[j]
    BY <1>1, <2>1, <2>2, ExceptSeq
  <2>4. pk = [ks EXCEPT ![q] = s]
    BY <1>1 DEF ks, Replaced
  <2> HIDE DEF pk
  <2> QED
    BY <1>1, <2>1, <2>3, <2>4
<1> HIDE DEF pk
<1>8. f[nb] = lent /\ f[p] = Node(heap[p].leaf, pk, heap[p].pointers, heap[p].parent, heap[p].next)
  BY <1>1, <1>5
<1>9. TypedNode(p, f[p])
  <2>1. /\ heap[p].parent \in Addresses \cup {Null} /\ heap[p].next \in Addresses \cup {Null}
        /\ p \in LeafAddresses => heap[p].pointers \in Seq(Pairs) /\ Len(heap[p].pointers) = Len(heap[p].keys)
        /\ p \notin LeafAddresses => heap[p].pointers \in Seq(Addresses) /\ Len(heap[p].pointers) = Len(heap[p].keys) + 1
    BY <1>1, <1>4, TypedNodeFacts
  <2>2. heap[p].leaf = IF p \in LeafAddresses THEN TRUE ELSE FALSE
    BY <1>1, <1>4 DEF TypedNode, NodesOf
  <2> DEFINE parent == heap[p].parent
             next == heap[p].next
             ps == heap[p].pointers
             leaf == heap[p].leaf
  <2>3. TypedNode(p, Node(leaf, pk, ps, parent, next))
    <3>1. /\ parent \in Addresses \cup {Null} /\ next \in Addresses \cup {Null}
          /\ p \in LeafAddresses => ps \in Seq(Pairs) /\ Len(ps) = Len(pk)
          /\ p \notin LeafAddresses => ps \in Seq(Addresses) /\ Len(ps) = Len(pk) + 1
          /\ leaf = IF p \in LeafAddresses THEN TRUE ELSE FALSE
          /\ pk \in Seq(Keys)
      BY <1>1, <1>7, <2>1, <2>2
    <3> HIDE DEF parent, next, ps, leaf
    <3> QED
      BY <1>1, <3>1, NodeMade
  <2> QED
    BY <1>1, <1>8, <2>3
<1>10. ASSUME NEW x \in DOMAIN heap \ {a, nb, p}, x \in S
       PROVE  /\ f[x] = Node(heap[x].leaf, heap[x].keys, heap[x].pointers, a, heap[x].next)
              /\ TypedNode(x, f[x])
  <2>1. TypedNode(x, heap[x]) /\ f[x] = [heap[x] EXCEPT !.parent = a]
    BY <1>1, <1>3, <1>5, <1>10, NodeFacts
  <2> QED
    BY <1>1, <1>4, <2>1, NodeReparented
<1>11. NodesTyped(f)
  <2>1. ASSUME NEW x \in DOMAIN heap \ {a, nb, p}, x \notin S PROVE TypedNode(x, f[x])
    BY <1>1, <1>3, <1>5, <2>1, NodeFacts
  <2> QED
    BY <1>1, <1>2, <1>5, <1>8, <1>9, <1>10, <2>1 DEF NodesTyped
<1>12. /\ IsFiniteSet(DOMAIN h) /\ DOMAIN h \subseteq Addresses
       /\ h = [x \in DOMAIN h |-> h[x]] /\ NodesTyped(h)
  BY <1>1, <1>5, <1>11, FreeingTyped
<1>13. DOMAIN h = DOMAIN heap \ dead /\ \A x \in DOMAIN heap : x \notin dead => h[x] = f[x]
  BY <1>1, <1>5 DEF IsWithout
<1>14. h[a] = moved /\ h[nb] = lent /\ h[p] = f[p]
  BY <1>1, <1>5, <1>8, <1>13
<1>15. h[p].keys = pk
  BY <1>1, <1>8, <1>14 DEF Node
<1>16. /\ h[p] = Node(heap[p].leaf, h[p].keys, heap[p].pointers, heap[p].parent, heap[p].next)
       /\ Len(h[p].keys) = Len(heap[p].keys)
       /\ \A j \in 1..Len(heap[p].keys) : h[p].keys[j] = IF j = q THEN s ELSE heap[p].keys[j]
  BY <1>1, <1>7, <1>8, <1>14, <1>15
<1>17. ASSUME NEW x \in DOMAIN heap \ {a, nb, p}, x \notin dead
       PROVE  /\ x \notin S => h[x] = heap[x]
              /\ x \in S => h[x] = Node(heap[x].leaf, heap[x].keys, heap[x].pointers, a, heap[x].next)
  BY <1>1, <1>3, <1>5, <1>10, <1>13, <1>17
<1> QED
  BY <1>12, <1>13, <1>14, <1>16, <1>17 DEF Shared, moved, lent

\* The keys and pointers of the node at nb lose their last entries, or their
\* first ones.
LostLast(g, a, n, nb, p, q, s) ==
    [g EXCEPT ![a] = n, ![nb].keys = Front(@), ![nb].pointers = Front(@), ![p].keys[q] = s]

\* The keys and pointers of the node at nb lose their first entries.
LostFirst(g, a, n, nb, p, q, s) ==
    [g EXCEPT ![a] = n, ![nb].keys = Tail(@), ![nb].pointers = Tail(@), ![p].keys[q] = s]

\* Such a heap is one that has been edited with what remains of them.
LEMMA LostEnds ==
    ASSUME NEW g, NEW a \in DOMAIN g, NEW nb \in DOMAIN g, a # nb, TypedNode(nb, g[nb]),
           NEW n, NEW p, NEW q, NEW s
    PROVE  /\ LostLast(g, a, n, nb, p, q, s) = Edited(g, a, n, nb, Front(g[nb].keys), Front(g[nb].pointers), p, q, s)
           /\ LostFirst(g, a, n, nb, p, q, s) = Edited(g, a, n, nb, Tail(g[nb].keys), Tail(g[nb].pointers), p, q, s)
<1> DEFINE g1 == [g EXCEPT ![a] = n]
           g2(ks) == [g1 EXCEPT ![nb].keys = ks]
<1>1. g1[nb] = g[nb] /\ nb \in DOMAIN g1
  OBVIOUS
<1>2. ASSUME NEW ks PROVE g2(ks)[nb].pointers = g[nb].pointers
  <2>1. TypedNode(nb, g1[nb])
    BY <1>1
  <2> HIDE DEF g1
  <2>2. g2(ks)[nb] = [g1[nb] EXCEPT !.keys = ks]
    BY <1>1
  <2>3. g2(ks)[nb] = Node(g1[nb].leaf, ks, g1[nb].pointers, g1[nb].parent, g1[nb].next)
    BY <2>1, <2>2, NodeRekeyed
  <2> QED
    BY <1>1, <2>3 DEF Node
<1>3. LostLast(g, a, n, nb, p, q, s) = Edited(g, a, n, nb, Front(g[nb].keys), Front(g[nb].pointers), p, q, s)
  <2> DEFINE k1 == Front(g1[nb].keys)
             k2 == Front(g[nb].keys)
             p1 == Front(g2(k1)[nb].pointers)
             p2 == Front(g[nb].pointers)
             g3(ks, ps) == [g2(ks) EXCEPT ![nb].pointers = ps]
             g4(ks, ps) == [g3(ks, ps) EXCEPT ![p].keys[q] = s]
  <2>1. k1 = k2 /\ p1 = p2
    BY <1>1, <1>2
  <2>2. LostLast(g, a, n, nb, p, q, s) = g4(k1, p1)
    BY DEF LostLast
  <2>3. Edited(g, a, n, nb, k2, p2, p, q, s) = g4(k2, p2)
    BY DEF Edited
  <2> HIDE DEF k1, k2, p1, p2, g4
  <2>4. g4(k1, p1) = g4(k2, p2)
    BY <2>1
  <2> QED
    BY <2>2, <2>3, <2>4 DEF k2, p2
<1>4. LostFirst(g, a, n, nb, p, q, s) = Edited(g, a, n, nb, Tail(g[nb].keys), Tail(g[nb].pointers), p, q, s)
  <2> DEFINE k1 == Tail(g1[nb].keys)
             k2 == Tail(g[nb].keys)
             p1 == Tail(g2(k1)[nb].pointers)
             p2 == Tail(g[nb].pointers)
             g3(ks, ps) == [g2(ks) EXCEPT ![nb].pointers = ps]
             g4(ks, ps) == [g3(ks, ps) EXCEPT ![p].keys[q] = s]
  <2>1. k1 = k2 /\ p1 = p2
    BY <1>1, <1>2
  <2>2. LostFirst(g, a, n, nb, p, q, s) = g4(k1, p1)
    BY DEF LostFirst
  <2>3. Edited(g, a, n, nb, k2, p2, p, q, s) = g4(k2, p2)
    BY DEF Edited
  <2> HIDE DEF k1, k2, p1, p2, g4
  <2>4. g4(k1, p1) = g4(k2, p2)
    BY <2>1
  <2> QED
    BY <2>2, <2>3, <2>4 DEF k2, p2
<1> QED
  BY <1>3, <1>4

\* redistribute_nodes, from either side: the keys ak and pointers ap of the node
\* and those of its neighbour, nk and np, are put where they belong.
SharesEntry(a, nb, p, q, u, v, w, z, e, c, s, ak, ap, nk, np) ==
    /\ Pair(a, nb, p, q)
    /\ Len(heap[a].keys) < MinKeys(heap[a]) /\ Len(heap[nb].keys) >= MinKeys(heap[nb]) + 1
    /\ u \in 1..(Len(heap[a].keys) + 1) /\ v \in 1..(Len(heap[a].pointers) + 1)
    /\ w \in 1..Len(heap[nb].keys) /\ z \in 1..Len(heap[nb].pointers)
    /\ c = heap[nb].pointers[z] /\ s \in Keys
    /\ ak \in Seq(Keys) /\ PutIn(ak, heap[a].keys, u, e) /\ PutIn(ap, heap[a].pointers, v, c)
    /\ nk \in Seq(Keys) /\ TakenOut(nk, heap[nb].keys, w) /\ TakenOut(np, heap[nb].pointers, z)
    /\ a \in LeafAddresses => ap \in Seq(Pairs) /\ np \in Seq(Pairs)
    /\ a \notin LeafAddresses => ap \in Seq(Addresses) /\ np \in Seq(Addresses)
    /\ heap' = Without(Edited(Adopt(heap, IF heap[a].leaf THEN {} ELSE {c}, a),
                              a, [heap[a] EXCEPT !.keys = ak, !.pointers = ap],
                              nb, nk, np, p, q, s),
                       todo.dead)
    /\ todo' = NoCall /\ root' = root /\ records' = records

\* What it leaves.
LEMMA SharedEntry ==
    ASSUME Shape, Repairing, NEW a, NEW nb, NEW p, NEW q,
           NEW u, NEW v, NEW w, NEW z, NEW e, NEW c, NEW s, NEW ak, NEW ap, NEW nk, NEW np,
           SharesEntry(a, nb, p, q, u, v, w, z, e, c, s, ak, ap, nk, np)
    PROVE  TypeOK' /\ NodesTyped(heap') /\ Redistributed(a, nb, p, q, u, v, w, z, e, c, s)
<1>1. /\ Pair(a, nb, p, q)
      /\ Len(heap[a].keys) < MinKeys(heap[a]) /\ Len(heap[nb].keys) >= MinKeys(heap[nb]) + 1
      /\ u \in 1..(Len(heap[a].keys) + 1) /\ v \in 1..(Len(heap[a].pointers) + 1)
      /\ w \in 1..Len(heap[nb].keys) /\ z \in 1..Len(heap[nb].pointers)
      /\ c = heap[nb].pointers[z] /\ s \in Keys
      /\ ak \in Seq(Keys) /\ PutIn(ak, heap[a].keys, u, e) /\ PutIn(ap, heap[a].pointers, v, c)
      /\ nk \in Seq(Keys) /\ TakenOut(nk, heap[nb].keys, w) /\ TakenOut(np, heap[nb].pointers, z)
      /\ a \in LeafAddresses => ap \in Seq(Pairs) /\ np \in Seq(Pairs)
      /\ a \notin LeafAddresses => ap \in Seq(Addresses) /\ np \in Seq(Addresses)
      /\ heap' = Without(Edited(Adopt(heap, IF heap[a].leaf THEN {} ELSE {c}, a),
                                a, [heap[a] EXCEPT !.keys = ak, !.pointers = ap],
                                nb, nk, np, p, q, s),
                         todo.dead)
      /\ todo' = NoCall /\ root' = root /\ records' = records
  BY DEF SharesEntry
<1> DEFINE S == IF heap[a].leaf THEN {} ELSE {c}
           g == Adopt(heap, S, a)
           here == Node(heap[a].leaf, ak, ap, heap[a].parent, heap[a].next)
           there == Node(heap[nb].leaf, nk, np, heap[nb].parent, heap[nb].next)
           f == Edited(g, a, here, nb, nk, np, p, q, s)
<1>2. TypeOK /\ Live = DOMAIN heap \ todo.dead /\ LiveInner = Live \ LeafAddresses /\ root \in Live
  BY <1>1, RepairingFacts DEF Shape
<1>3. /\ a \in DOMAIN heap /\ nb \in DOMAIN heap /\ p \in DOMAIN heap
      /\ a # nb /\ a # p /\ nb # p /\ p \notin LeafAddresses
      /\ a \in Live /\ nb \in Live /\ p \in Live
      /\ a \in LeafAddresses <=> nb \in LeafAddresses
      /\ q \in 1..Len(heap[p].keys)
      /\ a \notin LeafAddresses => c \in Live /\ c \notin {a, nb, p}
  <2>1. /\ a \in Live /\ nb \in Live /\ p \in LiveInner /\ a # nb /\ p # a /\ p # nb
        /\ a \in LeafAddresses <=> nb \in LeafAddresses
        /\ q \in 1..Len(heap[p].keys)
    BY <1>1 DEF Pair
  <2>2. ASSUME a \notin LeafAddresses PROVE c \in Live /\ c \notin {a, nb, p}
    <3>1. nb \in {a, nb} \cap LiveInner
      BY <1>1, <1>2, <2>1, <2>2
    <3> QED
      BY <1>1, <3>1 DEF Pair
  <2> QED
    BY <1>1, <1>2, <2>1, <2>2
<1>4. TypedNode(a, heap[a]) /\ TypedNode(nb, heap[nb]) /\ TypedNode(p, heap[p])
  BY <1>1, <1>2, <1>3, NodeFacts
<1>5. /\ heap[a].leaf = (IF a \in LeafAddresses THEN TRUE ELSE FALSE)
      /\ heap[nb].leaf = (IF nb \in LeafAddresses THEN TRUE ELSE FALSE)
  BY <1>1, <1>4 DEF TypedNode, NodesOf
<1>6. /\ heap[a].parent \in Addresses \cup {Null} /\ heap[a].next \in Addresses \cup {Null}
      /\ heap[nb].parent \in Addresses \cup {Null} /\ heap[nb].next \in Addresses \cup {Null}
      /\ Len(heap[a].keys) \in Nat /\ Len(heap[nb].keys) \in Nat
      /\ a \in LeafAddresses => Len(heap[a].pointers) = Len(heap[a].keys) /\ Len(heap[nb].pointers) = Len(heap[nb].keys)
      /\ a \notin LeafAddresses =>
           Len(heap[a].pointers) = Len(heap[a].keys) + 1 /\ Len(heap[nb].pointers) = Len(heap[nb].keys) + 1
  BY <1>1, <1>3, <1>4, TypedNodeFacts
<1>7. /\ Len(ak) = Len(heap[a].keys) + 1 /\ Len(ap) = Len(heap[a].pointers) + 1
      /\ Len(nk) = Len(heap[nb].keys) - 1 /\ Len(np) = Len(heap[nb].pointers) - 1
  BY <1>1 DEF PutIn, TakenOut
<1>8. TypedNode(a, here)
  <2>1. CASE a \in LeafAddresses
    <3>1. Len(ap) = Len(ak) /\ ap \in Seq(Pairs)
      BY <1>1, <1>6, <1>7, <2>1
    <3> QED
      BY <1>1, <1>5, <1>6, <2>1, <3>1, NodeMade
  <2>2. CASE a \notin LeafAddresses
    <3>1. Len(ap) = Len(ak) + 1 /\ ap \in Seq(Addresses)
      BY <1>1, <1>6, <1>7, <2>2
    <3> QED
      BY <1>1, <1>5, <1>6, <2>2, <3>1, NodeMade
  <2> QED
    BY <1>1, <2>1, <2>2
<1>9. TypedNode(nb, there)
  <2>1. CASE a \in LeafAddresses
    <3>1. Len(np) = Len(nk) /\ np \in Seq(Pairs)
      BY <1>1, <1>6, <1>7, <2>1
    <3> QED
      BY <1>1, <1>3, <1>5, <1>6, <2>1, <3>1, NodeMade
  <2>2. CASE a \notin LeafAddresses
    <3>1. Len(np) = Len(nk) + 1 /\ np \in Seq(Addresses)
      BY <1>1, <1>6, <1>7, <2>2
    <3> QED
      BY <1>1, <1>3, <1>5, <1>6, <2>2, <3>1, NodeMade
  <2> QED
    BY <1>1, <2>1, <2>2
<1>10. S = (IF a \in LeafAddresses THEN {} ELSE {c}) /\ S \in SUBSET (DOMAIN heap \ {a, nb, p})
  BY <1>1, <1>2, <1>3, <1>5
<1>11. IsAdopted(g, heap, S, a)
  BY <1>1, HeapsMade
<1>12. heap' = Without(f, todo.dead)
  BY <1>1, <1>4, NodeEdited
<1> HIDE DEF g, S
<1>13. f = Edited(g, a, Node(heap[a].leaf, ak, ap, heap[a].parent, heap[a].next), nb, nk, np, p, q, s)
  BY <1>1
<1> HIDE DEF f
<1>14. IsWithout(heap', f, todo.dead)
  BY <1>1, <1>12, HeapsMade
<1>15. todo.dead \cap {a, nb, p} = {}
  BY <1>1, <1>2, <1>3
<1> DEFINE h == heap'
<1>16. IsWithout(h, f, todo.dead)
  BY <1>1, <1>14
<1> HIDE DEF h
<1>17. /\ IsFiniteSet(DOMAIN h) /\ DOMAIN h \subseteq Addresses
       /\ h = [x \in DOMAIN h |-> h[x]] /\ NodesTyped(h)
       /\ DOMAIN h = DOMAIN heap \ todo.dead
       /\ h[a] = Node(heap[a].leaf, ak, ap, heap[a].parent, heap[a].next)
       /\ h[nb] = Node(heap[nb].leaf, nk, np, heap[nb].parent, heap[nb].next)
       /\ h[p] = Node(heap[p].leaf, h[p].keys, heap[p].pointers, heap[p].parent, heap[p].next)
       /\ Len(h[p].keys) = Len(heap[p].keys)
       /\ \A j \in 1..Len(heap[p].keys) : h[p].keys[j] = IF j = q THEN s ELSE heap[p].keys[j]
       /\ \A x \in DOMAIN heap \ {a, nb, p} : x \notin todo.dead =>
            /\ x \notin S => h[x] = heap[x]
            /\ x \in S => h[x] = Node(heap[x].leaf, heap[x].keys, heap[x].pointers, a, heap[x].next)
  <2>1. TypeOK /\ a \in DOMAIN heap /\ nb \in DOMAIN heap /\ p \in DOMAIN heap
    BY <1>1, <1>2, <1>3
  <2>2. a # nb /\ a # p /\ nb # p /\ q \in 1..Len(heap[p].keys)
    BY <1>1, <1>3
  <2>3. Sharing(a, nb, p, q, ak, ap, nk, np, s, S, todo.dead, g, f, h)
    BY <1>1, <2>1, <2>2, <1>8, <1>9, <1>10, <1>11, <1>13, <1>15, <1>16 DEF Sharing
  <2>4. Shared(a, nb, p, q, ak, ap, nk, np, s, S, todo.dead, h)
    BY <1>1, <2>1, <2>3, SharedHeap
  <2> QED
    BY <1>1, <2>4 DEF Shared
<1>18. TypeOK' /\ NodesTyped(heap')
  <2>1. /\ IsFiniteSet(DOMAIN heap') /\ DOMAIN heap' \subseteq Addresses
        /\ heap' = [x \in DOMAIN heap' |-> heap'[x]] /\ NodesTyped(heap') /\ root' \in DOMAIN heap'
    BY <1>1, <1>2, <1>17 DEF h
  <2>2. todo' \in Calls /\ records' \subseteq Pairs
    BY <1>1, <1>2 DEF TypeOK, Calls
  <2> QED
    BY <1>1, <2>1, <2>2 DEF TypeOK, NodesTyped, TypedNode
<1>19. /\ h[a].keys = ak /\ h[a].pointers = ap /\ h[nb].keys = nk /\ h[nb].pointers = np
       /\ h[p].pointers = heap[p].pointers
       /\ \A x \in {a, nb, p} : h[x].parent = heap[x].parent /\ h[x].next = heap[x].next
  <2>1. /\ h[a].keys = ak /\ h[a].pointers = ap /\ h[a].parent = heap[a].parent /\ h[a].next = heap[a].next
    BY <1>1, <1>17 DEF Node
  <2>2. /\ h[nb].keys = nk /\ h[nb].pointers = np /\ h[nb].parent = heap[nb].parent /\ h[nb].next = heap[nb].next
    BY <1>1, <1>17 DEF Node
  <2>3. h[p].pointers = heap[p].pointers /\ h[p].parent = heap[p].parent /\ h[p].next = heap[p].next
    <3> DEFINE pk == h[p].keys
    <3>1. h[p] = Node(heap[p].leaf, pk, heap[p].pointers, heap[p].parent, heap[p].next)
      BY <1>1, <1>17
    <3> HIDE DEF pk
    <3> QED
      BY <1>1, <3>1 DEF Node
  <2> QED
    BY <1>1, <2>1, <2>2, <2>3
<1>20. \A x \in Live \ {a, nb, p} :
        /\ a \notin LeafAddresses /\ x = c =>
              h[x] = Node(heap[x].leaf, heap[x].keys, heap[x].pointers, a, heap[x].next)
        /\ ~(a \notin LeafAddresses /\ x = c) => h[x] = heap[x]
  BY <1>1, <1>2, <1>10, <1>17
<1>21. Redistributed(a, nb, p, q, u, v, w, z, e, c, s)
  BY <1>1, <1>2, <1>17, <1>19, <1>20 DEF Redistributed, h
<1> QED
  BY <1>1, <1>18, <1>21

\* redistribute_nodes does that, from the left.
LEMMA RedistributeFromLeftStep ==
    ASSUME Shape, RedistributeFromLeft
    PROVE  /\ TypeOK' /\ NodesTyped(heap')
           /\ \E a, nb, p, q, u, v, w, z, e, c, s :
                /\ Redistributed(a, nb, p, q, u, v, w, z, e, c, s)
                /\ FromTheLeft(a, nb, p, q, u, v, w, z, e, s)
<1>1. TooSmall
  BY DEF RedistributeFromLeft
<1> DEFINE a == todo.node
           nb == NeighborOf(a)
           p == heap[a].parent
           q == KPrimeIndexOf(a)
           w == Len(heap[nb].keys)
           z == Len(heap[nb].pointers)
           s == heap[nb].keys[w]
           c == heap[nb].pointers[z]
           e == IF heap[a].leaf THEN s ELSE KPrimeOf(a)
           ak == <<e>> \o heap[a].keys
           ap == <<c>> \o heap[a].pointers
           moved == [heap[a] EXCEPT !.keys = ak, !.pointers = ap]
           g == Adopt(heap, IF heap[a].leaf THEN {} ELSE {c}, a)
           nk == Front(heap[nb].keys)
           np == Front(heap[nb].pointers)
<1>2. Pair(a, nb, p, q)
  BY <1>1, PairFacts
<1>3. /\ PositionOf(a) # 1 /\ Len(heap[a].keys) + Len(heap[nb].keys) >= Capacity(heap[a])
      /\ heap' = Without(LostLast(g, a, moved, nb, p, q, s), todo.dead)
      /\ todo' = NoCall /\ root' = root /\ records' = records
  BY DEF RedistributeFromLeft, LostLast
<1>4. Repairing /\ TypeOK /\ Live = DOMAIN heap \ todo.dead /\ LiveInner = Live \ LeafAddresses
  BY <1>1, RepairingFacts DEF TooSmall, Repairing, Shape
<1>5. Len(heap[a].keys) < MinKeys(heap[a]) /\ w >= MinKeys(heap[nb]) + 1
  BY <1>1, <1>3, NeighborSpares
<1> HIDE DEF a, nb, p, q
<1>6. /\ a \in DOMAIN heap /\ nb \in DOMAIN heap /\ a # nb
      /\ a \in LeafAddresses <=> nb \in LeafAddresses
      /\ heap[p].pointers[q] = nb /\ heap[p].pointers[q + 1] = a
      /\ KPrimeOf(a) = heap[p].keys[q] /\ heap[p].keys[q] \in Keys
      /\ nb \notin LeafAddresses => \A j \in 1..z : heap[nb].pointers[j] \notin {a, nb, p}
  BY <1>2, <1>3, <1>4 DEF Pair
<1>7. TypedNode(a, heap[a]) /\ TypedNode(nb, heap[nb])
  BY <1>4, <1>6, NodeFacts
<1> DEFINE T == IF a \in LeafAddresses THEN Pairs ELSE Addresses
<1>8. /\ heap[a].keys \in Seq(Keys) /\ heap[nb].keys \in Seq(Keys)
      /\ heap[a].pointers \in Seq(T) /\ heap[nb].pointers \in Seq(T)
      /\ w \in Nat /\ (z = w \/ z = w + 1) /\ Len(heap[a].keys) \in Nat /\ Len(heap[a].pointers) \in Nat
      /\ heap[a].leaf <=> a \in LeafAddresses
  BY <1>6, <1>7, TypedNodeFacts
<1> HIDE DEF T
<1>9. w >= 2 /\ z >= 2 /\ w \in 1..w /\ z \in 1..z
  <2>1. MinKeys(heap[nb]) >= 1 /\ MinKeys(heap[nb]) \in Nat
    BY MinKeysFacts
  <2> HIDE DEF w, z
  <2> QED
    BY <1>5, <1>8, <2>1
<1>10. s \in Keys /\ c \in T
  BY <1>8, <1>9, ElementOfSeq
<1>11. e \in Keys /\ e = (IF a \in LeafAddresses THEN s ELSE heap[p].keys[q])
  BY <1>6, <1>8, <1>10
<1>12. nb \notin LeafAddresses => c \notin {a, nb, p}
  BY <1>6, <1>9
<1>13. s = heap[nb].keys[w] /\ c = heap[nb].pointers[z] /\ w = Len(heap[nb].keys) /\ z = Len(heap[nb].pointers)
  OBVIOUS
<1> HIDE DEF e, c, s
<1>14. ak \in Seq(Keys) /\ PutIn(ak, heap[a].keys, 1, e)
  BY <1>8, <1>11, EndsMade
<1>15. ap \in Seq(T) /\ PutIn(ap, heap[a].pointers, 1, c)
  BY <1>8, <1>10, EndsMade
<1>16. nk \in Seq(Keys) /\ TakenOut(nk, heap[nb].keys, w)
  <2>1. Len(heap[nb].keys) >= 1
    BY <1>9
  <2> QED
    BY <1>8, <2>1, EndsTaken
<1>17. np \in Seq(T) /\ TakenOut(np, heap[nb].pointers, z)
  <2>1. Len(heap[nb].pointers) >= 1
    BY <1>9
  <2> QED
    BY <1>8, <2>1, EndsTaken
<1>18. LostLast(g, a, moved, nb, p, q, s) = Edited(g, a, moved, nb, nk, np, p, q, s)
  <2> DEFINE S == IF heap[a].leaf THEN {} ELSE {c}
  <2>1. g = Adopt(heap, S, a) /\ nb \notin S
    BY <1>6, <1>8, <1>12
  <2> HIDE DEF S, g
  <2>2. IsAdopted(g, heap, S, a)
    BY <2>1, HeapsMade
  <2>3. DOMAIN g = DOMAIN heap /\ g[nb] = heap[nb]
    BY <1>6, <2>1, <2>2 DEF IsAdopted
  <2> HIDE DEF moved
  <2>4. LostLast(g, a, moved, nb, p, q, s) = Edited(g, a, moved, nb, Front(g[nb].keys), Front(g[nb].pointers), p, q, s)
    BY <1>6, <1>7, <2>3, LostEnds
  <2> QED
    BY <2>3, <2>4
<1>19. heap' = Without(Edited(g, a, moved, nb, nk, np, p, q, s), todo.dead)
  BY <1>3, <1>18
<1> HIDE DEF ak, ap, nk, np
<1>20. /\ 1 \in 1..(Len(heap[a].keys) + 1) /\ 1 \in 1..(Len(heap[a].pointers) + 1)
       /\ w \in 1..Len(heap[nb].keys) /\ z \in 1..Len(heap[nb].pointers)
       /\ a \in LeafAddresses => ap \in Seq(Pairs) /\ np \in Seq(Pairs)
       /\ a \notin LeafAddresses => ap \in Seq(Addresses) /\ np \in Seq(Addresses)
  BY SMTT(30), <1>8, <1>9, <1>13, <1>15, <1>17 DEF T
<1>21. w >= MinKeys(heap[nb]) + 1
  BY <1>5
<1> HIDE DEF w, z
<1>22. TypeOK' /\ NodesTyped(heap') /\ Redistributed(a, nb, p, q, 1, 1, w, z, e, c, s)
  <2>1. Len(heap[nb].keys) >= MinKeys(heap[nb]) + 1
    BY <1>13, <1>21
  <2>2. SharesEntry(a, nb, p, q, 1, 1, w, z, e, c, s, ak, ap, nk, np)
    BY <1>2, <1>3, <1>5, <1>10, <1>13, <1>14, <1>15, <1>16, <1>17, <1>19, <1>20, <2>1 DEF SharesEntry
  <2> QED
    BY <1>4, <2>2, SharedEntry
<1>23. FromTheLeft(a, nb, p, q, 1, 1, w, z, e, s)
  BY <1>6, <1>11, <1>13 DEF FromTheLeft
<1> QED
  BY <1>22, <1>23

\* redistribute_nodes does that, from the right.
LEMMA RedistributeFromRightStep ==
    ASSUME Shape, RedistributeFromRight
    PROVE  /\ TypeOK' /\ NodesTyped(heap')
           /\ \E a, nb, p, q, u, v, w, z, e, c, s :
                /\ Redistributed(a, nb, p, q, u, v, w, z, e, c, s)
                /\ FromTheRight(a, nb, p, q, u, v, w, z, e, s)
<1>1. TooSmall
  BY DEF RedistributeFromRight
<1> DEFINE a == todo.node
           nb == NeighborOf(a)
           p == heap[a].parent
           q == KPrimeIndexOf(a)
           w == Len(heap[nb].keys)
           z == Len(heap[nb].pointers)
           f == heap[nb].keys[1]
           s == IF heap[a].leaf THEN heap[nb].keys[2] ELSE f
           c == heap[nb].pointers[1]
           e == IF heap[a].leaf THEN f ELSE KPrimeOf(a)
           ak == Append(heap[a].keys, e)
           ap == Append(heap[a].pointers, c)
           u == Len(heap[a].keys) + 1
           v == Len(heap[a].pointers) + 1
           moved == [heap[a] EXCEPT !.keys = ak, !.pointers = ap]
           g == Adopt(heap, IF heap[a].leaf THEN {} ELSE {c}, a)
           nk == Tail(heap[nb].keys)
           np == Tail(heap[nb].pointers)
<1>2. Pair(a, nb, p, q)
  BY <1>1, PairFacts
<1>3. /\ PositionOf(a) = 1 /\ Len(heap[a].keys) + Len(heap[nb].keys) >= Capacity(heap[a])
      /\ heap' = Without(LostFirst(g, a, moved, nb, p, q, s), todo.dead)
      /\ todo' = NoCall /\ root' = root /\ records' = records
  <2>1. /\ PositionOf(a) = 1 /\ Len(heap[a].keys) + Len(heap[nb].keys) >= Capacity(heap[a])
        /\ heap' = Without(LostFirst(g, a, moved, nb, p, 1, s), todo.dead)
        /\ todo' = NoCall /\ root' = root /\ records' = records
    BY DEF RedistributeFromRight, LostFirst
  <2>2. q = 1
    BY <2>1 DEF KPrimeIndexOf
  <2> HIDE DEF g, moved, q, s
  <2> QED
    BY <2>1, <2>2
<1>4. Repairing /\ TypeOK /\ Live = DOMAIN heap \ todo.dead /\ LiveInner = Live \ LeafAddresses
  BY <1>1, RepairingFacts DEF TooSmall, Repairing, Shape
<1>5. Len(heap[a].keys) < MinKeys(heap[a]) /\ w >= MinKeys(heap[nb]) + 1
  BY <1>1, <1>3, NeighborSpares
<1> HIDE DEF a, nb, p, q
<1>6. /\ a \in DOMAIN heap /\ nb \in DOMAIN heap /\ a # nb
      /\ a \in LeafAddresses <=> nb \in LeafAddresses
      /\ heap[p].pointers[q] = a /\ heap[p].pointers[q + 1] = nb
      /\ KPrimeOf(a) = heap[p].keys[q] /\ heap[p].keys[q] \in Keys
      /\ nb \notin LeafAddresses => \A j \in 1..z : heap[nb].pointers[j] \notin {a, nb, p}
  BY <1>2, <1>3, <1>4 DEF Pair
<1>7. TypedNode(a, heap[a]) /\ TypedNode(nb, heap[nb])
  BY <1>4, <1>6, NodeFacts
<1> DEFINE T == IF a \in LeafAddresses THEN Pairs ELSE Addresses
<1>8. /\ heap[a].keys \in Seq(Keys) /\ heap[nb].keys \in Seq(Keys)
      /\ heap[a].pointers \in Seq(T) /\ heap[nb].pointers \in Seq(T)
      /\ w \in Nat /\ (z = w \/ z = w + 1) /\ Len(heap[a].keys) \in Nat /\ Len(heap[a].pointers) \in Nat
      /\ heap[a].leaf <=> a \in LeafAddresses
  BY <1>6, <1>7, TypedNodeFacts
<1> HIDE DEF T
<1>9. w >= 2 /\ z >= 2 /\ 1 \in 1..w /\ 2 \in 1..w /\ 1 \in 1..z
  <2>1. MinKeys(heap[nb]) >= 1 /\ MinKeys(heap[nb]) \in Nat
    BY MinKeysFacts
  <2> HIDE DEF w, z
  <2> QED
    BY <1>5, <1>8, <2>1
<1>10. s \in Keys /\ f \in Keys /\ c \in T
  BY <1>8, <1>9, ElementOfSeq
<1>11. e \in Keys /\ e = (IF a \in LeafAddresses THEN heap[nb].keys[1] ELSE heap[p].keys[q])
  BY <1>6, <1>8, <1>10
<1>12. nb \notin LeafAddresses => c \notin {a, nb, p}
  BY <1>6, <1>9
<1>13. /\ s = (IF a \in LeafAddresses THEN heap[nb].keys[2] ELSE heap[nb].keys[1])
       /\ c = heap[nb].pointers[1] /\ w = Len(heap[nb].keys) /\ z = Len(heap[nb].pointers)
       /\ u = Len(heap[a].keys) + 1 /\ v = Len(heap[a].pointers) + 1
  BY <1>8
<1> HIDE DEF e, c, s, f
<1>14. ak \in Seq(Keys) /\ PutIn(ak, heap[a].keys, u, e)
  BY <1>8, <1>11, EndsMade
<1>15. ap \in Seq(T) /\ PutIn(ap, heap[a].pointers, v, c)
  BY <1>8, <1>10, EndsMade
<1>16. nk \in Seq(Keys) /\ TakenOut(nk, heap[nb].keys, 1)
  <2>1. Len(heap[nb].keys) >= 1
    BY <1>9
  <2> QED
    BY <1>8, <2>1, EndsTaken
<1>17. np \in Seq(T) /\ TakenOut(np, heap[nb].pointers, 1)
  <2>1. Len(heap[nb].pointers) >= 1
    BY <1>9
  <2> QED
    BY <1>8, <2>1, EndsTaken
<1>18. LostFirst(g, a, moved, nb, p, q, s) = Edited(g, a, moved, nb, nk, np, p, q, s)
  <2> DEFINE S == IF heap[a].leaf THEN {} ELSE {c}
  <2>1. g = Adopt(heap, S, a) /\ nb \notin S
    BY <1>6, <1>8, <1>12
  <2> HIDE DEF S, g
  <2>2. IsAdopted(g, heap, S, a)
    BY <2>1, HeapsMade
  <2>3. DOMAIN g = DOMAIN heap /\ g[nb] = heap[nb]
    BY <1>6, <2>1, <2>2 DEF IsAdopted
  <2> HIDE DEF moved
  <2>4. LostFirst(g, a, moved, nb, p, q, s) = Edited(g, a, moved, nb, Tail(g[nb].keys), Tail(g[nb].pointers), p, q, s)
    BY <1>6, <1>7, <2>3, LostEnds
  <2> QED
    BY <2>3, <2>4
<1>19. heap' = Without(Edited(g, a, moved, nb, nk, np, p, q, s), todo.dead)
  BY <1>3, <1>18
<1> HIDE DEF ak, ap, nk, np
<1>20. /\ u \in 1..(Len(heap[a].keys) + 1) /\ v \in 1..(Len(heap[a].pointers) + 1)
       /\ 1 \in 1..Len(heap[nb].keys) /\ 1 \in 1..Len(heap[nb].pointers)
       /\ a \in LeafAddresses => ap \in Seq(Pairs) /\ np \in Seq(Pairs)
       /\ a \notin LeafAddresses => ap \in Seq(Addresses) /\ np \in Seq(Addresses)
  BY SMTT(30), <1>8, <1>9, <1>13, <1>15, <1>17 DEF T
<1>21. w >= MinKeys(heap[nb]) + 1
  BY <1>5
<1> HIDE DEF w, z, u, v
<1>22. TypeOK' /\ NodesTyped(heap') /\ Redistributed(a, nb, p, q, u, v, 1, 1, e, c, s)
  <2>1. Len(heap[nb].keys) >= MinKeys(heap[nb]) + 1
    BY <1>13, <1>21
  <2>2. SharesEntry(a, nb, p, q, u, v, 1, 1, e, c, s, ak, ap, nk, np)
    BY <1>2, <1>3, <1>5, <1>10, <1>13, <1>14, <1>15, <1>16, <1>17, <1>19, <1>20, <2>1 DEF SharesEntry
  <2> QED
    BY <1>4, <2>2, SharedEntry
<1>23. FromTheRight(a, nb, p, q, u, v, 1, 1, e, s)
  BY <1>6, <1>11, <1>13 DEF FromTheRight
<1> QED
  BY <1>22, <1>23

-----------------------------------------------------------------------------
(* Actions that touch one leaf, or the records alone                       *)

\* The keys and the records of one leaf change, nothing else of the tree does.
LeafEdited(a) ==
    /\ todo = NoCall /\ root # Null /\ root' = root
    /\ a \in DOMAIN heap /\ a \in LeafAddresses
    /\ DOMAIN heap' = DOMAIN heap
    /\ heap'[a].parent = heap[a].parent
    /\ \A x \in DOMAIN heap \ {a} : heap'[x] = heap[x]
    /\ todo' \in {NoCall, [call |-> "delete_entry", node |-> a, dead |-> {}]}

\* Such a change keeps the shape, if it keeps the sizes.
LEMMA LeafEditKeepsShape ==
    ASSUME Shape, NEW a, LeafEdited(a), TypeOK', Sizes'
    PROVE  Shape'
<1> USE DEF LeafEdited
<1>1. /\ TypeOK /\ ChildrenAgree /\ ParentsPoint /\ RootSound
      /\ Live = DOMAIN heap /\ LiveInner = DOMAIN heap \ LeafAddresses /\ Unlinked = {}
  BY BetweenCalls DEF Shape
<1>2. /\ Dead' = {} /\ Unlinked' = {} /\ ~Splitting'
      /\ Repairing' => todo' = [call |-> "delete_entry", node |-> a, dead |-> {}]
  BY DEF Dead, Unlinked, Splitting, Repairing, NoCall
<1>3. Live' = Live /\ LiveInner' = LiveInner
  BY <1>1, <1>2 DEF Live, LiveInner
<1>4. \A x \in DOMAIN heap : heap'[x].parent = heap[x].parent
  OBVIOUS
<1>5. \A x \in LiveInner : heap'[x] = heap[x]
  BY <1>1
<1>6. ChildrenAgree'
  BY <1>1, <1>2, <1>3, <1>4, <1>5 DEF ChildrenAgree, Distinct
<1>7. ParentsPoint'
  BY <1>1, <1>2, <1>3, <1>4, <1>5 DEF ParentsPoint
<1>8. RootSound'
  BY <1>1, <1>2, <1>3, <1>4 DEF RootSound
<1>9. CallSound'
  BY <1>1, <1>2, <1>3 DEF CallSound
<1>10. \E h \in [DOMAIN heap' -> Nat] : Graded(h)'
  <2>1. PICK h \in [DOMAIN heap -> Nat] : Graded(h)
    BY DEF Shape
  <2>2. Graded(h)'
    BY <1>1, <1>2, <1>3, <1>5, <2>1 DEF Graded
  <2> QED
    BY <2>1, <2>2
<1> QED
  BY <1>6, <1>7, <1>8, <1>9, <1>10 DEF Shape

\* Between calls every node has enough keys and none too many.
LEMMA SizesBetweenCalls ==
    ASSUME Shape, todo = NoCall
    PROVE  \A x \in DOMAIN heap :
             /\ Len(heap[x].keys) \in Nat /\ Len(heap[x].keys) <= Order - 1
             /\ Len(heap[x].keys) >= (IF x = root THEN 1 ELSE MinKeys(heap[x]))
<1>1. ~Splitting /\ ~Repairing /\ Live = DOMAIN heap /\ TypeOK /\ Sizes
  BY BetweenCalls DEF Shape
<1> SUFFICES ASSUME NEW x \in DOMAIN heap
             PROVE  /\ Len(heap[x].keys) \in Nat /\ Len(heap[x].keys) <= Order - 1
                    /\ Len(heap[x].keys) >= (IF x = root THEN 1 ELSE MinKeys(heap[x]))
  OBVIOUS
<1>2. Len(heap[x].keys) \in Nat
  BY <1>1, NodeFacts
<1>3. Len(heap[x].keys) <= Order - 1 /\ Len(heap[x].keys) + 0 >= Floor(x)
  BY <1>1 DEF Sizes
<1>4. Floor(x) = IF x = root THEN 1 ELSE MinKeys(heap[x])
  BY <1>1 DEF Floor
<1> QED
  BY <1>2, <1>3, <1>4

\* insert_into_leaf keeps the shape: there is room for the key.
LEMMA InsertIntoLeafKeepsShape ==
    ASSUME Shape, NEW k \in Keys, NEW v \in Versions[k], InsertIntoLeaf(k, v)
    PROVE  Shape'
<1>1. TypeOK' /\ NodesTyped(heap')
  BY InsertIntoLeafStep
<1>2. PICK a, i : InsertedIntoLeaf(k, Record(k, v), a, i)
  BY InsertIntoLeafStep
<1>3. LeafEdited(a)
  BY <1>2 DEF InsertedIntoLeaf, LeafEdited
<1>4. Sizes'
  <2>1. Live' = DOMAIN heap /\ ~Splitting' /\ ~Repairing'
    BY <1>2 DEF InsertedIntoLeaf, NoCall, Live, Dead, Splitting, Repairing
  <2> SUFFICES ASSUME NEW x \in DOMAIN heap
               PROVE  Len(heap'[x].keys) <= Order - 1 /\ Len(heap'[x].keys) + 0 >= Floor(x)'
    BY <2>1 DEF Sizes
  <2>2. /\ Len(heap[x].keys) \in Nat /\ Len(heap[x].keys) <= Order - 1
        /\ Len(heap[x].keys) >= (IF x = root THEN 1 ELSE MinKeys(heap[x]))
    BY <1>2, SizesBetweenCalls DEF InsertedIntoLeaf
  <2>3. MinKeys(heap'[x]) = MinKeys(heap[x]) /\ MinKeys(heap[x]) \in Nat
    <3>1. heap'[x].leaf <=> heap[x].leaf
      BY <1>1, <1>2, NodeFacts, TypedNodeFacts DEF InsertedIntoLeaf, NodesTyped, Shape
    <3> QED
      BY <3>1, MinKeysFacts DEF MinKeys
  <2>4. Floor(x)' = IF x = root THEN 1 ELSE MinKeys(heap[x])
    BY <1>2, <2>1, <2>3 DEF Floor, InsertedIntoLeaf
  <2>5. CASE x = a
    <3>1. Len(heap'[x].keys) = Len(heap[x].keys) + 1 /\ Len(heap[x].keys) < Order - 1
      BY <1>2, <2>5 DEF InsertedIntoLeaf, PutIn
    <3> QED
      BY <2>2, <2>3, <2>4, <3>1, TreeAssumption
  <2>6. CASE x # a
    <3>1. heap'[x] = heap[x]
      BY <1>2, <2>6 DEF InsertedIntoLeaf
    <3> QED
      BY <2>2, <2>3, <2>4, <3>1
  <2> QED
    BY <2>5, <2>6
<1> QED
  BY <1>1, <1>3, <1>4, LeafEditKeepsShape

\* Deleting an entry keeps the shape: the leaf, one key short, is under repair.
LEMMA DeleteKeepsShape ==
    ASSUME Shape, NEW k \in Keys, Delete(k)
    PROVE  Shape'
<1>1. TypeOK' /\ NodesTyped(heap')
  BY DeleteStep
<1>2. PICK a, i, j : DeletedFromLeaf(k, a, i, j)
  BY DeleteStep
<1>3. LeafEdited(a)
  BY <1>2 DEF DeletedFromLeaf, LeafEdited
<1>4. Sizes'
  <2>1. Live' = DOMAIN heap /\ ~Splitting' /\ Repairing' /\ todo'.node = a
    BY <1>2 DEF DeletedFromLeaf, NoCall, Live, Dead, Splitting, Repairing
  <2> SUFFICES ASSUME NEW x \in DOMAIN heap
               PROVE  /\ Len(heap'[x].keys) <= Order - 1
                      /\ Len(heap'[x].keys) + (IF x = a THEN 1 ELSE 0) >= Floor(x)'
    BY <2>1 DEF Sizes
  <2>2. /\ Len(heap[x].keys) \in Nat /\ Len(heap[x].keys) <= Order - 1
        /\ Len(heap[x].keys) >= (IF x = root THEN 1 ELSE MinKeys(heap[x]))
    BY <1>2, SizesBetweenCalls DEF DeletedFromLeaf
  <2>3. MinKeys(heap'[x]) = MinKeys(heap[x]) /\ MinKeys(heap[x]) \in Nat
    <3>1. heap'[x].leaf <=> heap[x].leaf
      BY <1>1, <1>2, NodeFacts, TypedNodeFacts DEF DeletedFromLeaf, NodesTyped, Shape
    <3> QED
      BY <3>1, MinKeysFacts DEF MinKeys
  <2>4. Floor(x)' = IF x = root THEN 1 ELSE MinKeys(heap[x])
    BY <1>2, <2>1, <2>3 DEF Floor, DeletedFromLeaf
  <2>5. CASE x = a
    <3>1. Len(heap'[x].keys) = Len(heap[x].keys) - 1
      BY <1>2, <2>5 DEF DeletedFromLeaf, TakenOut
    <3> QED
      BY <2>2, <2>3, <2>4, <2>5, <3>1, TreeAssumption
  <2>6. CASE x # a
    <3>1. heap'[x] = heap[x]
      BY <1>2, <2>6 DEF DeletedFromLeaf
    <3> QED
      BY <2>2, <2>3, <2>4, <2>6, <3>1
  <2> QED
    BY <2>5, <2>6
<1> QED
  BY <1>1, <1>3, <1>4, LeafEditKeepsShape

\* Inserting a key the tree holds keeps the shape: no node changes.
LEMMA InsertDuplicateKeepsShape ==
    ASSUME Shape, NEW k \in Keys, NEW v \in Versions[k], InsertDuplicate(k, v)
    PROVE  Shape'
<1>1. heap' = heap /\ root' = root /\ todo' = todo /\ records' = (records \ {find(k)}) \cup {Record(k, v)}
  BY DEF InsertDuplicate
<1>2. Record(k, v) \in Pairs
  BY RecordFacts
<1>3. TypeOK'
  BY <1>1, <1>2 DEF Shape, TypeOK
<1>4. /\ Splitting' = Splitting /\ Repairing' = Repairing /\ Dead' = Dead /\ Unlinked' = Unlinked
      /\ Live' = Live /\ LiveInner' = LiveInner
  BY <1>1 DEF Splitting, Repairing, Dead, Unlinked, Live, LiveInner
<1>5. ChildrenAgree' /\ ParentsPoint' /\ RootSound' /\ CallSound'
  BY <1>1, <1>4 DEF Shape, ChildrenAgree, ParentsPoint, RootSound, CallSound
<1>6. Sizes'
  BY <1>1, <1>4 DEF Shape, Sizes, Floor
<1>7. \E h \in [DOMAIN heap' -> Nat] : Graded(h)'
  <2>1. PICK h \in [DOMAIN heap -> Nat] : Graded(h)
    BY DEF Shape
  <2>2. Graded(h)'
    BY <1>1, <1>4, <2>1 DEF Graded
  <2> QED
    BY <1>1, <2>1, <2>2
<1> QED
  BY <1>3, <1>5, <1>6, <1>7 DEF Shape

\* A tree that is left without nodes has its shape.
LEMMA EmptiedShape ==
    ASSUME TypeOK', root' = Null, DOMAIN heap' = {}, todo' = NoCall
    PROVE  Shape'
<1>1. Live' = {} /\ LiveInner' = {} /\ ~Splitting' /\ ~Repairing'
  BY DEF NoCall, Splitting, Repairing, Dead, Live, LiveInner
<1>2. ChildrenAgree' /\ ParentsPoint' /\ RootSound' /\ CallSound' /\ Sizes'
  BY <1>1 DEF ChildrenAgree, ParentsPoint, RootSound, CallSound, Sizes
<1>3. \E h \in [DOMAIN heap' -> Nat] : Graded(h)'
  <2>1. [x \in DOMAIN heap' |-> 0] \in [DOMAIN heap' -> Nat]
    OBVIOUS
  <2>2. \A h : Graded(h)'
    BY <1>1 DEF Graded
  <2> QED
    BY <2>1, <2>2
<1> QED
  BY <1>2, <1>3 DEF Shape

\* start_new_tree makes a tree of one leaf.
LEMMA StartNewTreeKeepsShape ==
    ASSUME Shape, NEW k \in Keys, NEW v \in Versions[k], StartNewTree(k, v)
    PROVE  Shape'
<1>1. TypeOK' /\ NodesTyped(heap')
  BY StartNewTreeStep
<1>2. PICK a : StartedNewTree(k, Record(k, v), a)
  BY StartNewTreeStep
<1>3. /\ DOMAIN heap' = {a} /\ root' = a /\ todo' = NoCall /\ a \in LeafAddresses
      /\ heap'[a] = Node(TRUE, <<k>>, <<Record(k, v)>>, Null, Null)
  BY <1>2 DEF StartedNewTree, Shape, RootSound
<1>4. /\ Live' = {a} /\ LiveInner' = {} /\ ~Splitting' /\ ~Repairing' /\ Unlinked' = {}
  BY <1>3 DEF NoCall, Splitting, Repairing, Dead, Unlinked, Live, LiveInner
<1>5. ChildrenAgree' /\ ParentsPoint' /\ CallSound'
  BY <1>3, <1>4 DEF ChildrenAgree, ParentsPoint, CallSound
<1>6. RootSound'
  <2>1. a # Null
    BY <1>3, TreeAssumption DEF Addresses
  <2>2. heap'[a].parent = Null
    BY <1>3 DEF Node
  <2> QED
    BY <1>3, <1>4, <2>1, <2>2 DEF RootSound
<1>7. Sizes'
  <2>1. Len(heap'[a].keys) = 1
    BY <1>3 DEF Node
  <2> SUFFICES ASSUME NEW x \in {a}
               PROVE  Len(heap'[x].keys) <= Order - 1 /\ Len(heap'[x].keys) + 0 >= Floor(x)'
    BY <1>4 DEF Sizes
  <2>2. Floor(x)' = 1
    BY <1>3, <1>4 DEF Floor
  <2> QED
    <3>1. Len(heap'[x].keys) = 1
      BY <2>1
    <3> QED
      BY <2>2, <3>1, TreeAssumption
<1>8. \E h \in [DOMAIN heap' -> Nat] : Graded(h)'
  <2>1. PICK h \in [DOMAIN heap' -> Nat] : h[a] = 0
    <3>1. [x \in DOMAIN heap' |-> 0] \in [DOMAIN heap' -> Nat] /\ [x \in DOMAIN heap' |-> 0][a] = 0
      BY <1>3
    <3> QED
      BY <3>1
  <2>2. Graded(h)'
    BY <1>3, <1>4, <2>1 DEF Graded
  <2> QED
    BY <2>1, <2>2
<1> QED
  BY <1>1, <1>5, <1>6, <1>7, <1>8 DEF Shape

\* destroy_tree leaves no node.
LEMMA DestroyTreeKeepsShape ==
    ASSUME Shape, DestroyTree
    PROVE  Shape'
<1>1. /\ heap' = [a \in {} |-> Null] /\ root' = Null /\ todo' = NoCall /\ records' \subseteq records
  BY DEF DestroyTree
<1>2. DOMAIN heap' = {}
  BY <1>1
<1>3. TypeOK'
  BY <1>1, <1>2, FS_EmptySet DEF Shape, TypeOK, Calls
<1> QED
  BY <1>1, <1>2, <1>3, EmptiedShape

\* The heights of the nodes that are left, and those with one more node.
LEMMA GradesLeft ==
    ASSUME NEW D, NEW g \in [D -> Nat], NEW C, C \subseteq D
    PROVE  \E h \in [C -> Nat] : \A x \in C : h[x] = g[x]
<1>1. [x \in C |-> g[x]] \in [C -> Nat]
  OBVIOUS
<1> QED
  BY <1>1

\* The heights g of the nodes D are those of the nodes C but for b, which gets n.
Extends(D, g, C, b, n) == g \in [D -> Nat] /\ n \in Nat /\ b \notin D /\ C = D \cup {b}

\* There are such heights.
LEMMA GradesAdded ==
    ASSUME NEW D, NEW g, NEW C, NEW b, NEW n, Extends(D, g, C, b, n)
    PROVE  \E h \in [C -> Nat] : h[b] = n /\ \A x \in D : h[x] = g[x]
<1> USE DEF Extends
<1>1. [x \in C |-> IF x = b THEN n ELSE g[x]] \in [C -> Nat]
  OBVIOUS
<1> QED
  BY <1>1

-----------------------------------------------------------------------------
(* The end of a deletion                                                   *)

\* A repair that ends keeps the shape: no node is too small any more.
LEMMA RepairEndedKeepsShape ==
    ASSUME Shape, TypeOK', RepairEnded
    PROVE  Shape'
<1>1. /\ DOMAIN heap' = Live /\ root' = root /\ todo' = NoCall
      /\ \A x \in Live : heap'[x] = heap[x]
      /\ Len(heap[todo.node].keys) >= (IF todo.node = root THEN 1 ELSE MinKeys(heap[todo.node]))
      /\ Repairing
  BY DEF RepairEnded
<1>2. /\ Unlinked = {} /\ root \in Live /\ root # Null /\ ~Splitting /\ LiveInner = Live \ LeafAddresses
      /\ Live \subseteq DOMAIN heap /\ heap[root].parent = Null
  BY <1>1, RepairingFacts
<1>3. /\ Live' = Live /\ LiveInner' = LiveInner /\ ~Splitting' /\ ~Repairing' /\ Unlinked' = {}
  BY <1>1, <1>2 DEF NoCall, Splitting, Repairing, Dead, Unlinked, Live, LiveInner
<1>4. ChildrenAgree'
  BY <1>1, <1>2, <1>3 DEF Shape, ChildrenAgree, Distinct
<1>5. ParentsPoint'
  BY <1>1, <1>2, <1>3 DEF Shape, ParentsPoint
<1>6. RootSound' /\ CallSound'
  BY <1>1, <1>2, <1>3 DEF RootSound, CallSound
<1>7. Sizes'
  <2> SUFFICES ASSUME NEW x \in Live
               PROVE  Len(heap[x].keys) <= Order - 1 /\ Len(heap[x].keys) + 0 >= Floor(x)'
    BY <1>1, <1>3 DEF Sizes
  <2>1. /\ Len(heap[x].keys) <= Order - 1
        /\ Len(heap[x].keys) + (IF x = todo.node THEN 1 ELSE 0) >= Floor(x)
    BY <1>1 DEF Shape, Sizes
  <2>2. Floor(x) = (IF x = root THEN 1 ELSE MinKeys(heap[x])) /\ Floor(x)' = Floor(x)
    BY <1>1, <1>2, <1>3 DEF Floor, MinKeys
  <2>3. Len(heap[x].keys) \in Nat
    BY <1>2, NodeFacts DEF Shape
  <2>4. MinKeys(heap[x]) \in Nat
    BY MinKeysFacts
  <2>5. CASE x = todo.node
    BY <1>1, <2>1, <2>2, <2>3, <2>4, <2>5
  <2>6. CASE x # todo.node
    BY <2>1, <2>2, <2>3, <2>4, <2>6
  <2> QED
    BY <2>5, <2>6
<1>8. \E h \in [DOMAIN heap' -> Nat] : Graded(h)'
  <2>1. PICK g \in [DOMAIN heap -> Nat] : Graded(g)
    BY DEF Shape
  <2>2. PICK h \in [DOMAIN heap' -> Nat] : \A x \in Live : h[x] = g[x]
    <3>1. Live \subseteq DOMAIN heap
      BY <1>2
    <3>2. \E h \in [Live -> Nat] : \A x \in Live : h[x] = g[x]
      BY <2>1, <3>1, GradesLeft
    <3> QED
      BY <1>1, <3>2
  <2>3. \A x \in LiveInner : \A i \in 1..Len(heap[x].pointers) : heap[x].pointers[i] \in Live
    BY DEF Shape, ChildrenAgree
  <2>4. Graded(h)'
    BY <1>1, <1>2, <1>3, <2>1, <2>2, <2>3 DEF Graded
  <2> QED
    BY <2>2, <2>4
<1> QED
  BY <1>4, <1>5, <1>6, <1>7, <1>8 DEF Shape

\* So it does when the root has one child left, which becomes the root.
LEMMA RootLoweredKeepsShape ==
    ASSUME Shape, TypeOK', NodesTyped(heap'), NEW c, RootLowered(c)
    PROVE  Shape'
<1>1. /\ Repairing /\ todo' = NoCall /\ todo.node = root /\ root' = c
      /\ root \notin LeafAddresses /\ Len(heap[root].pointers) = 1 /\ c = heap[root].pointers[1]
      /\ c \in Live /\ c # root /\ DOMAIN heap' = Live \ {root}
      /\ heap'[c] = Node(heap[c].leaf, heap[c].keys, heap[c].pointers, Null, heap[c].next)
      /\ \A x \in Live \ {root, c} : heap'[x] = heap[x]
  BY DEF RootLowered
<1>2. /\ Unlinked = {} /\ root \in LiveInner /\ ~Splitting /\ LiveInner = Live \ LeafAddresses
      /\ Live \subseteq DOMAIN heap /\ root # Null /\ heap[root].parent = Null
  BY <1>1, RepairingFacts
<1>3. /\ Live' = Live \ {root} /\ LiveInner' = LiveInner \ {root}
      /\ ~Splitting' /\ ~Repairing' /\ Unlinked' = {}
  BY <1>1, <1>2 DEF NoCall, Splitting, Repairing, Dead, Unlinked, Live, LiveInner
<1>4. \A x \in Live \ {root} :
        /\ heap'[x].leaf = heap[x].leaf /\ heap'[x].keys = heap[x].keys
        /\ heap'[x].pointers = heap[x].pointers
        /\ x # c => heap'[x].parent = heap[x].parent
        /\ x = c => heap'[x].parent = Null
  BY <1>1 DEF Node
<1>5. /\ \A x \in LiveInner : Distinct(heap[x].pointers)
      /\ \A x \in LiveInner : \A i \in 1..Len(heap[x].pointers) :
            heap[x].pointers[i] \in Live /\ heap[heap[x].pointers[i]].parent = x
      /\ heap[c].parent = root
  <2>1. ChildrenAgree
    BY DEF Shape
  <2>2. ASSUME NEW x \in LiveInner
        PROVE  /\ Distinct(heap[x].pointers)
               /\ \A i \in 1..Len(heap[x].pointers) :
                    heap[x].pointers[i] \in Live /\ heap[heap[x].pointers[i]].parent = x
    BY <1>2, <2>1, <2>2 DEF ChildrenAgree
  <2>3. 1 \in 1..Len(heap[root].pointers)
    BY <1>1
  <2>4. heap[c].parent = root
    BY <1>1, <1>2, <2>2, <2>3
  <2> QED
    BY <2>2, <2>4
<1>6. \A x \in Live \ {root, c} : heap[x].parent # root
  <2> SUFFICES ASSUME NEW x \in Live \ {root, c}, heap[x].parent = root PROVE FALSE
    OBVIOUS
  <2>1. \E i \in 1..Len(heap[root].pointers) : heap[root].pointers[i] = x
    BY <1>2 DEF Shape, ParentsPoint
  <2> QED
    BY <1>1, <2>1
<1>7. \A x \in LiveInner \ {root} : \A i \in 1..Len(heap[x].pointers) :
        heap[x].pointers[i] \in Live \ {root, c}
  <2> SUFFICES ASSUME NEW x \in LiveInner \ {root}, NEW i \in 1..Len(heap[x].pointers),
                      NEW d, d = heap[x].pointers[i]
               PROVE  d \in Live \ {root, c}
    OBVIOUS
  <2>1. d \in Live /\ heap[d].parent = x
    BY <1>5
  <2>2. x # Null
    BY <1>2, NodeFacts DEF Shape
  <2> QED
    BY <1>2, <1>5, <2>1, <2>2
<1>8. ChildrenAgree'
  BY SMTT(30), <1>2, <1>3, <1>4, <1>5, <1>7 DEF ChildrenAgree, Distinct
<1>9. ParentsPoint'
  <2>1. \A x \in Live \ {root, c} :
          /\ heap[x].parent \in LiveInner \ {root}
          /\ \E i \in 1..Len(heap[heap[x].parent].pointers) : heap[heap[x].parent].pointers[i] = x
    BY <1>2, <1>6 DEF Shape, ParentsPoint
  <2> SUFFICES ASSUME NEW x \in Live \ {root, c}
               PROVE  /\ heap'[x].parent \in LiveInner \ {root}
                      /\ \E i \in 1..Len(heap'[heap'[x].parent].pointers) : heap'[heap'[x].parent].pointers[i] = x
    BY <1>1, <1>3 DEF ParentsPoint
  <2>2. heap'[x].parent = heap[x].parent /\ heap[x].parent \in LiveInner \ {root}
    BY <1>4, <2>1
  <2>3. heap'[heap[x].parent].pointers = heap[heap[x].parent].pointers
    BY <1>2, <1>4, <2>2
  <2> QED
    BY <2>1, <2>2, <2>3
<1>10. RootSound' /\ CallSound'
  <2>1. c # Null
    BY <1>1, <1>2, NodeFacts DEF Shape
  <2> QED
    BY <1>1, <1>3, <1>4, <2>1 DEF RootSound, CallSound
<1>11. Sizes'
  <2> SUFFICES ASSUME NEW x \in Live \ {root}
               PROVE  Len(heap[x].keys) <= Order - 1 /\ Len(heap[x].keys) + 0 >= Floor(x)'
    BY <1>3, <1>4 DEF Sizes
  <2>1. Len(heap[x].keys) <= Order - 1 /\ Len(heap[x].keys) + 0 >= Floor(x)
    BY <1>1 DEF Shape, Sizes
  <2>2. /\ Floor(x) = MinKeys(heap[x]) /\ MinKeys(heap[x]) \in Nat /\ MinKeys(heap[x]) >= 1
        /\ Floor(x)' = IF x = c THEN 1 ELSE MinKeys(heap[x])
    BY <1>1, <1>2, <1>3, <1>4, MinKeysFacts DEF Floor, MinKeys
  <2>3. Len(heap[x].keys) \in Nat
    BY <1>2, NodeFacts DEF Shape
  <2> QED
    BY <2>1, <2>2, <2>3
<1>12. \E h \in [DOMAIN heap' -> Nat] : Graded(h)'
  <2>1. PICK g \in [DOMAIN heap -> Nat] : Graded(g)
    BY DEF Shape
  <2>2. PICK h \in [DOMAIN heap' -> Nat] : \A x \in Live \ {root} : h[x] = g[x]
    <3>1. (Live \ {root}) \in SUBSET DOMAIN heap
      BY <1>2
    <3>2. \E h \in [Live \ {root} -> Nat] : \A x \in Live \ {root} : h[x] = g[x]
      BY <2>1, <3>1, GradesLeft
    <3> QED
      BY <1>1, <3>2
  <2>3. g[c] + 1 = g[root]
    BY <1>1, <1>2, <2>1 DEF Graded
  <2>4. \A x \in Live \ {root} : g[x] <= g[c]
    <3> SUFFICES ASSUME NEW x \in Live \ {root} PROVE g[x] <= g[c]
      OBVIOUS
    <3>1. CASE x = c
      BY <1>2, <2>1, <3>1
    <3>2. CASE x # c
      <4>1. heap[x].parent \in LiveInner /\ heap[x].parent # root
        BY <1>2, <1>6, <3>2 DEF Shape, ParentsPoint
      <4>2. PICK i \in 1..Len(heap[heap[x].parent].pointers) : heap[heap[x].parent].pointers[i] = x
        BY <1>2, <1>6, <3>2 DEF Shape, ParentsPoint
      <4>3. g[x] + 1 = g[heap[x].parent] /\ g[heap[x].parent] <= g[root]
        BY <1>2, <2>1, <4>1, <4>2 DEF Graded
      <4>4. g[x] \in Nat /\ g[c] \in Nat /\ g[root] \in Nat
        BY <1>1, <1>2, <2>1
      <4> QED
        BY <2>3, <4>3, <4>4
    <3> QED
      BY <3>1, <3>2
  <2>5. Graded(h)'
    <3>1. \A x \in Live \ {root} : h[x] = 0 <=> x \in LeafAddresses
      BY <2>1, <2>2 DEF Graded
    <3>2. ASSUME NEW x \in LiveInner \ {root}, NEW i \in 1..Len(heap'[x].pointers)
          PROVE  h[heap'[x].pointers[i]] + 1 = h[x]
      <4>1. heap'[x].pointers = heap[x].pointers /\ x \in Live \ {root}
        BY <1>2, <1>4
      <4>2. heap[x].pointers[i] \in Live \ {root} /\ g[heap[x].pointers[i]] + 1 = g[x]
        BY <1>7, <2>1, <4>1 DEF Graded
      <4> QED
        BY <2>2, <4>1, <4>2
    <3>3. \A x \in Live \ {root} : h[x] <= h[c]
      BY <1>1, <2>2, <2>4
    <3> QED
      BY <1>1, <1>3, <3>1, <3>2, <3>3 DEF Graded
  <2> QED
    BY <2>2, <2>5
<1> QED
  BY <1>8, <1>9, <1>10, <1>11, <1>12 DEF Shape

\* delete_entry keeps the shape when the node is large enough.
LEMMA KeepNodeKeepsShape ==
    ASSUME Shape, KeepNode
    PROVE  Shape'
BY KeepNodeStep, RepairEndedKeepsShape

\* adjust_root keeps the shape.
LEMMA AdjustRootKeepsShape ==
    ASSUME Shape, AdjustRoot
    PROVE  Shape'
<1>1. /\ TypeOK' /\ NodesTyped(heap')
      /\ RepairEnded \/ (\E c : RootLowered(c)) \/ TreeEmptied
  BY AdjustRootStep
<1>2. CASE RepairEnded
  BY <1>1, <1>2, RepairEndedKeepsShape
<1>3. CASE \E c : RootLowered(c)
  BY <1>1, <1>3, RootLoweredKeepsShape
<1>4. CASE TreeEmptied
  BY <1>1, <1>4, EmptiedShape DEF TreeEmptied
<1> QED
  BY <1>1, <1>2, <1>3, <1>4

-----------------------------------------------------------------------------
(* Splits                                                                  *)

\* Half of what a leaf and an inner node are split at.
LEMMA SplitSizes ==
    /\ cut(Order - 1) \in Nat /\ 2 * cut(Order - 1) <= Order /\ cut(Order - 1) <= Order - 1
    /\ 2 * cut(Order - 1) >= Order - 1 /\ cut(Order - 1) >= 1
    /\ cut(Order) \in Nat /\ 2 * cut(Order) <= Order + 1 /\ 2 * cut(Order) >= Order
    /\ cut(Order) >= 2 /\ cut(Order) <= Order - 1
<1>1. Order \in Nat /\ Order >= 3 /\ Order - 1 \in Nat
  BY TreeAssumption
<1>2. cut(Order) \in Nat /\ 2 * cut(Order) >= Order /\ 2 * cut(Order) <= Order + 1
  BY <1>1, Halves
<1>3. cut(Order - 1) \in Nat /\ 2 * cut(Order - 1) >= Order - 1 /\ 2 * cut(Order - 1) <= (Order - 1) + 1
  BY <1>1, Halves
<1>4. ASSUME NEW n \in Nat, n >= 3, NEW c \in Nat, 2 * c >= n, 2 * c <= n + 1
      PROVE  c >= 2 /\ c <= n - 1
  BY <1>4
<1>5. ASSUME NEW n \in Nat, n >= 3, NEW d \in Nat, 2 * d >= n - 1, 2 * d <= (n - 1) + 1
      PROVE  d >= 1 /\ d <= n - 1 /\ 2 * d <= n
  BY <1>5
<1>6. cut(Order) >= 2 /\ cut(Order) <= Order - 1
  BY <1>1, <1>2, <1>4
<1>7. cut(Order - 1) >= 1 /\ cut(Order - 1) <= Order - 1 /\ 2 * cut(Order - 1) <= Order
  BY <1>1, <1>3, <1>5
<1> QED
  BY <1>2, <1>3, <1>6, <1>7

\* insert_into_leaf_after_splitting keeps the shape: both halves are large enough
\* and of the same height.
LEMMA SplitLeafKeepsShape ==
    ASSUME Shape, NEW k \in Keys, NEW v \in Versions[k], SplitLeaf(k, v)
    PROVE  Shape'
<1>1. TypeOK' /\ NodesTyped(heap')
  BY SplitLeafStep
<1>2. PICK a, b, i, ks, ps, m : SplitTheLeaf(k, Record(k, v), a, b, i, ks, ps, m)
  BY SplitLeafStep
<1>3. /\ todo = NoCall /\ root # Null /\ root' = root /\ a \in DOMAIN heap /\ a \in LeafAddresses
      /\ b \in LeafAddresses /\ b \notin DOMAIN heap /\ a # b
      /\ DOMAIN heap' = DOMAIN heap \cup {b}
      /\ heap'[a].parent = heap[a].parent /\ heap'[b].parent = heap[a].parent
      /\ \A x \in DOMAIN heap \ {a} : heap'[x] = heap[x]
      /\ todo'.call = "insert_into_parent" /\ todo'.left = a /\ todo'.right = b
      /\ Len(heap'[a].keys) = cut(Order - 1) /\ Len(heap'[b].keys) = Order - cut(Order - 1)
  <2>1. /\ Len(heap'[a].keys) = m - 1 + 1 /\ Len(heap'[b].keys) = Order - (m + 1) + 1 /\ m = cut(Order - 1)
    BY <1>2 DEF SplitTheLeaf, PartOf
  <2>2. Len(heap'[a].keys) = cut(Order - 1) /\ Len(heap'[b].keys) = Order - cut(Order - 1)
    BY <2>1, SplitSizes, TreeAssumption
  <2> QED
    BY <1>2, <2>2 DEF SplitTheLeaf
<1>4. /\ Live = DOMAIN heap /\ LiveInner = DOMAIN heap \ LeafAddresses /\ Unlinked = {} /\ ~Splitting /\ ~Repairing
      /\ TypeOK /\ ChildrenAgree /\ ParentsPoint /\ RootSound
  BY <1>3, BetweenCalls DEF Shape
<1>5. /\ Splitting' /\ ~Repairing' /\ Live' = Live \cup {b} /\ LiveInner' = LiveInner /\ Unlinked' = {b}
  BY <1>3, <1>4 DEF Splitting, Repairing, Dead, Unlinked, Live, LiveInner
<1>6. \A x \in DOMAIN heap : heap'[x].parent = heap[x].parent /\ (x \notin LeafAddresses => heap'[x] = heap[x])
  BY <1>3
<1>7. ChildrenAgree'
  BY <1>3, <1>4, <1>5, <1>6 DEF ChildrenAgree, Distinct
<1>8. ParentsPoint'
  BY <1>3, <1>4, <1>5, <1>6 DEF ParentsPoint
<1>9. RootSound' /\ CallSound'
  BY <1>3, <1>4, <1>5, <1>6 DEF RootSound, CallSound
<1>10. Sizes'
  <2> SUFFICES ASSUME NEW x \in Live \cup {b}
               PROVE  Len(heap'[x].keys) <= Order - 1 /\ Len(heap'[x].keys) + 0 >= Floor(x)'
    BY <1>5 DEF Sizes
  <2>1. x \in {a, b} => Floor(x)' = cut(Order - 1)
    <3>1. x \in {a, b} => MinKeys(heap'[x]) = cut(Order - 1)
      BY <1>1, <1>3, TypedNodeFacts, MinKeysFacts DEF NodesTyped
    <3> QED
      BY <1>3, <1>4, <1>5, <3>1 DEF Floor, RootSound
  <2>2. x \notin {a, b} => Floor(x)' = IF x = root THEN 1 ELSE MinKeys(heap[x])
    BY <1>3, <1>4, <1>5 DEF Floor
  <2>3. CASE x = a
    BY <1>3, <2>1, <2>3, SplitSizes, TreeAssumption
  <2>4. CASE x = b
    BY <1>3, <2>1, <2>4, SplitSizes, TreeAssumption
  <2>5. CASE x \notin {a, b}
    <3>1. /\ Len(heap[x].keys) \in Nat /\ Len(heap[x].keys) <= Order - 1
          /\ Len(heap[x].keys) >= (IF x = root THEN 1 ELSE MinKeys(heap[x]))
      BY <1>3, <1>4, <2>5, SizesBetweenCalls
    <3>2. heap'[x] = heap[x]
      BY <1>3, <1>4, <2>5
    <3> QED
      BY <2>2, <2>5, <3>1, <3>2
  <2> QED
    BY <2>3, <2>4, <2>5
<1>11. \E h \in [DOMAIN heap' -> Nat] : Graded(h)'
  <2>1. PICK g \in [DOMAIN heap -> Nat] : Graded(g)
    BY DEF Shape
  <2>2. PICK h \in [DOMAIN heap' -> Nat] : h[b] = 0 /\ \A x \in DOMAIN heap : h[x] = g[x]
    <3>1. Extends(DOMAIN heap, g, DOMAIN heap', b, 0)
      BY <1>3, <2>1 DEF Extends
    <3> QED
      BY <3>1, GradesAdded
  <2>3. \A x \in DOMAIN heap : h[x] = g[x]
    BY <2>2
  <2>4. \A x \in LiveInner : \A j \in 1..Len(heap[x].pointers) : heap[x].pointers[j] \in DOMAIN heap
    BY <1>4 DEF ChildrenAgree
  <2>5. root \in DOMAIN heap
    BY <1>3, <1>4 DEF RootSound
  <2>6. \A x \in Live' : h[x] = 0 <=> x \in LeafAddresses
    BY <1>3, <1>4, <1>5, <2>1, <2>2, <2>3 DEF Graded
  <2>7. \A x \in LiveInner : \A j \in 1..Len(heap'[x].pointers) : h[heap'[x].pointers[j]] + 1 = h[x]
    BY <1>4, <1>6, <2>1, <2>3, <2>4 DEF Graded
  <2>8. \A x \in Live' : h[x] <= h[root]
    BY <1>4, <1>5, <2>1, <2>2, <2>3, <2>5 DEF Graded
  <2>9. h[a] = h[b]
    BY <1>3, <1>4, <2>1, <2>2, <2>3 DEF Graded
  <2> QED
    BY <1>3, <1>5, <2>6, <2>7, <2>8, <2>9 DEF Graded
<1> QED
  BY <1>1, <1>7, <1>8, <1>9, <1>10, <1>11 DEF Shape

\* insert_into_new_root keeps the shape: every path gets longer by the new root.
LEMMA InsertIntoNewRootKeepsShape ==
    ASSUME Shape, InsertIntoNewRoot
    PROVE  Shape'
<1> DEFINE l == todo.left
           r == todo.right
<1>1. TypeOK' /\ NodesTyped(heap')
  BY InsertIntoNewRootStep
<1>2. PICK a : InsertedIntoNewRoot(a)
  BY InsertIntoNewRootStep
<1>3. /\ Splitting /\ todo' = NoCall /\ l = root /\ root' = a
      /\ a \notin LeafAddresses /\ a \notin DOMAIN heap /\ a \in Addresses
      /\ DOMAIN heap' = DOMAIN heap \cup {a}
      /\ heap'[a] = Node(FALSE, <<todo.key>>, <<l, r>>, Null, Null)
      /\ \A x \in {l, r} : heap'[x] = Node(heap[x].leaf, heap[x].keys, heap[x].pointers, a, heap[x].next)
      /\ \A x \in DOMAIN heap \ {l, r} : heap'[x] = heap[x]
  BY <1>2 DEF InsertedIntoNewRoot
<1>4. /\ l \in DOMAIN heap /\ r \in DOMAIN heap /\ l # r /\ ~Repairing
      /\ Unlinked = {r} /\ Live = DOMAIN heap /\ LiveInner = DOMAIN heap \ LeafAddresses
      /\ r # root /\ a # Null
      /\ TypeOK /\ ChildrenAgree /\ ParentsPoint /\ RootSound
  BY <1>3, SplittingFacts, TreeAssumption DEF Shape
<1> HIDE DEF l, r
<1>5. /\ ~Splitting' /\ ~Repairing' /\ Unlinked' = {} /\ Live' = Live \cup {a} /\ LiveInner' = LiveInner \cup {a}
  BY <1>3, <1>4 DEF NoCall, Splitting, Repairing, Dead, Unlinked, Live, LiveInner
<1>6. /\ \A x \in DOMAIN heap :
           /\ heap'[x].leaf = heap[x].leaf /\ heap'[x].keys = heap[x].keys /\ heap'[x].pointers = heap[x].pointers
           /\ heap'[x].parent = IF x \in {l, r} THEN a ELSE heap[x].parent
      /\ Len(heap'[a].keys) = 1 /\ heap'[a].parent = Null
      /\ Len(heap'[a].pointers) = 2 /\ heap'[a].pointers[1] = l /\ heap'[a].pointers[2] = r
  BY <1>3 DEF Node
<1>7. heap[l].parent = Null
  BY <1>3, <1>4 DEF RootSound
<1>8. \A x \in LiveInner : x # Null
  BY <1>4, TreeAssumption DEF TypeOK
<1>9. ChildrenAgree'
  <2>1. \A x \in LiveInner : Distinct(heap'[x].pointers)
    BY <1>4, <1>6 DEF ChildrenAgree, Distinct
  <2>2. \A x \in LiveInner : \A j \in 1..Len(heap'[x].pointers) :
          /\ heap'[x].pointers[j] \in Live /\ heap'[heap'[x].pointers[j]].parent = x
    <3> SUFFICES ASSUME NEW x \in LiveInner, NEW j \in 1..Len(heap[x].pointers)
                 PROVE  heap[x].pointers[j] \in Live /\ heap'[heap[x].pointers[j]].parent = x
      BY <1>4, <1>6
    <3>1. heap[x].pointers[j] \in Live \ {r} /\ heap[heap[x].pointers[j]].parent = x
      BY <1>4 DEF ChildrenAgree
    <3>2. heap[x].pointers[j] # l
      BY <1>7, <1>8, <3>1
    <3> QED
      BY <1>4, <1>6, <3>1, <3>2
  <2>3. Distinct(heap'[a].pointers)
    BY <1>4, <1>6 DEF Distinct
  <2>4. \A j \in 1..Len(heap'[a].pointers) :
          /\ heap'[a].pointers[j] \in Live /\ heap'[heap'[a].pointers[j]].parent = a
    BY <1>4, <1>6
  <2> QED
    BY <1>5, <2>1, <2>2, <2>3, <2>4 DEF ChildrenAgree
<1>10. ParentsPoint'
  <2> SUFFICES ASSUME NEW x \in Live
               PROVE  /\ heap'[x].parent \in LiveInner \cup {a}
                      /\ \E i \in 1..Len(heap'[heap'[x].parent].pointers) : heap'[heap'[x].parent].pointers[i] = x
    BY <1>3, <1>5 DEF ParentsPoint
  <2>1. CASE x \in {l, r}
    BY <1>4, <1>6, <2>1
  <2>2. CASE x \notin {l, r}
    <3>1. /\ heap[x].parent \in LiveInner
          /\ \E i \in 1..Len(heap[heap[x].parent].pointers) : heap[heap[x].parent].pointers[i] = x
      BY <1>3, <1>4, <2>2 DEF ParentsPoint
    <3> QED
      BY <1>4, <1>6, <2>2, <3>1
  <2> QED
    BY <2>1, <2>2
<1>11. RootSound' /\ CallSound'
  BY <1>3, <1>4, <1>5, <1>6 DEF RootSound, CallSound
<1>12. Sizes'
  <2> SUFFICES ASSUME NEW x \in Live \cup {a}
               PROVE  Len(heap'[x].keys) <= Order - 1 /\ Len(heap'[x].keys) + 0 >= Floor(x)'
    BY <1>5 DEF Sizes
  <2>1. Floor(x)' = IF x = a THEN 1 ELSE MinKeys(heap'[x])
    BY <1>3, <1>5 DEF Floor
  <2>2. CASE x = a
    <3>1. Len(heap'[x].keys) = 1
      BY <1>6, <2>2
    <3> QED
      BY <2>1, <2>2, <3>1, TreeAssumption
  <2>3. CASE x # a
    <3>1. Len(heap[x].keys) <= Order - 1 /\ Len(heap[x].keys) + 0 >= Floor(x)
      BY <1>4, <2>3 DEF Shape, Sizes
    <3>2. Floor(x) = MinKeys(heap[x])
      BY <1>3, <1>4 DEF Floor, l
    <3>3. MinKeys(heap'[x]) = MinKeys(heap[x]) /\ Len(heap'[x].keys) = Len(heap[x].keys)
      BY <1>4, <1>6, <2>3 DEF MinKeys
    <3> QED
      BY <2>1, <2>3, <3>1, <3>2, <3>3
  <2> QED
    BY <2>2, <2>3
<1>13. \E h \in [DOMAIN heap' -> Nat] : Graded(h)'
  <2>1. PICK g \in [DOMAIN heap -> Nat] : Graded(g)
    BY DEF Shape
  <2>2. g[root] + 1 \in Nat /\ g[l] = g[root] /\ g[r] = g[root]
    BY <1>3, <1>4, <2>1 DEF Graded, l, r
  <2>3. PICK h \in [DOMAIN heap' -> Nat] : h[a] = g[root] + 1 /\ \A x \in DOMAIN heap : h[x] = g[x]
    <3>1. Extends(DOMAIN heap, g, DOMAIN heap', a, g[root] + 1)
      BY <1>3, <2>1, <2>2 DEF Extends
    <3> QED
      BY <3>1, GradesAdded
  <2>4. \A x \in DOMAIN heap : h[x] = g[x]
    BY <2>3
  <2>5. \A x \in LiveInner : \A j \in 1..Len(heap[x].pointers) : heap[x].pointers[j] \in DOMAIN heap
    BY <1>4 DEF ChildrenAgree
  <2>6. \A x \in Live' : h[x] = 0 <=> x \in LeafAddresses
    BY <1>3, <1>4, <1>5, <2>1, <2>2, <2>3, <2>4 DEF Graded
  <2>7. \A x \in LiveInner : \A j \in 1..Len(heap'[x].pointers) : h[heap'[x].pointers[j]] + 1 = h[x]
    <3> SUFFICES ASSUME NEW x \in LiveInner, NEW j \in 1..Len(heap[x].pointers)
                 PROVE  h[heap[x].pointers[j]] + 1 = h[x]
      BY <1>4, <1>6
    <3>1. g[heap[x].pointers[j]] + 1 = g[x]
      BY <2>1 DEF Graded
    <3> QED
      BY <1>4, <2>4, <2>5, <3>1
  <2>8. \A j \in 1..Len(heap'[a].pointers) : h[heap'[a].pointers[j]] + 1 = h[a]
    BY <1>4, <1>6, <2>2, <2>3, <2>4
  <2>9. \A x \in Live' : h[x] <= h[a]
    <3>1. h[a] <= h[a]
      BY <2>2, <2>3
    <3>2. ASSUME NEW x \in Live PROVE h[x] <= h[a]
      <4>1. root \in DOMAIN heap
        BY <1>3, <1>4
      <4>2. g[x] <= g[root] /\ g[x] \in Nat /\ g[root] \in Nat
        BY <1>4, <2>1, <4>1 DEF Graded
      <4>3. h[x] = g[x] /\ h[a] = g[root] + 1
        BY <1>4, <2>3, <2>4
      <4> QED
        BY <4>2, <4>3
    <3> QED
      BY <1>5, <3>1, <3>2
  <2> QED
    BY <1>3, <1>5, <2>6, <2>7, <2>8, <2>9 DEF Graded
<1> QED
  BY <1>1, <1>9, <1>10, <1>11, <1>12, <1>13 DEF Shape

\* Sequences made from one without repetitions that have none themselves.
LEMMA DistinctKept ==
    ASSUME NEW s, Len(s) \in Nat, Distinct(s)
    PROVE  /\ \A t, i, e : i \in 1..(Len(s) + 1) /\ (\A j \in 1..Len(s) : s[j] # e) /\ PutIn(t, s, i, e) => Distinct(t)
           /\ \A t, i : i \in 1..Len(s) /\ TakenOut(t, s, i) =>
                Distinct(t) /\ \A j \in 1..Len(t) : t[j] # s[i]
           /\ \A t, m, n : m \in 1..(Len(s) + 1) /\ n \in (m - 1)..Len(s) /\ PartOf(t, s, m, n) => Distinct(t)
<1>1. ASSUME NEW t, NEW i, NEW e, i \in 1..(Len(s) + 1), \A j \in 1..Len(s) : s[j] # e, PutIn(t, s, i, e)
      PROVE  Distinct(t)
  <2> SUFFICES ASSUME NEW x \in 1..Len(t), NEW y \in 1..Len(t), t[x] = t[y]
               PROVE  x = y
    BY DEF Distinct
  <2>1. \A j \in 1..Len(t) :
          \/ j = i /\ t[j] = e
          \/ j < i /\ j \in 1..Len(s) /\ t[j] = s[j]
          \/ j > i /\ j - 1 \in 1..Len(s) /\ t[j] = s[j - 1]
    BY <1>1, PutInElements
  <2>2. \A c, d \in 1..Len(s) : s[c] = s[d] => c = d
    BY DEF Distinct
  <2>3. Len(t) \in Nat
    BY <1>1 DEF PutIn
  <2> DEFINE c == IF x < i THEN x ELSE x - 1
             d == IF y < i THEN y ELSE y - 1
  <2>4. t[i] = e
    BY <1>1, PutInElements
  <2>5. y # i => d \in 1..Len(s) /\ t[y] = s[d]
    BY <1>1, <2>1, <2>3
  <2>6. x # i => c \in 1..Len(s) /\ t[x] = s[c]
    BY <1>1, <2>1, <2>3
  <2>7. CASE x = i
    BY <1>1, <2>7, <2>4, <2>5
  <2>8. CASE y = i
    BY <1>1, <2>8, <2>4, <2>6
  <2>9. CASE x # i /\ y # i
    <3>1. c = d
      BY <2>2, <2>9, <2>5, <2>6
    <3> QED
      BY <1>1, <2>3, <2>9, <3>1
  <2> QED
    BY <2>7, <2>8, <2>9
<1>2. ASSUME NEW t, NEW i, i \in 1..Len(s), TakenOut(t, s, i)
      PROVE  Distinct(t) /\ \A j \in 1..Len(t) : t[j] # s[i]
  <2>1. /\ \A j \in 1..Len(t) : t[j] = s[IF j < i THEN j ELSE j + 1]
        /\ Len(t) = Len(s) - 1
    BY <1>2, TakenOutElements DEF TakenOut
  <2>2. \A c, d \in 1..Len(s) : s[c] = s[d] => c = d
    BY DEF Distinct
  <2>3. ASSUME NEW x \in 1..Len(t), NEW y \in 1..Len(t), t[x] = t[y]
        PROVE  x = y
    <3> DEFINE c == IF x < i THEN x ELSE x + 1
               d == IF y < i THEN y ELSE y + 1
    <3>1. c \in 1..Len(s) /\ d \in 1..Len(s)
      BY <1>2, <2>1
    <3>2. c = d
      BY <2>1, <2>2, <2>3, <3>1
    <3> QED
      BY <1>2, <2>1, <3>2
  <2>4. ASSUME NEW x \in 1..Len(t)
        PROVE  t[x] # s[i]
    <3> DEFINE c == IF x < i THEN x ELSE x + 1
    <3>1. c \in 1..Len(s) /\ c # i
      BY <1>2, <2>1
    <3> QED
      BY <1>2, <2>1, <2>2, <3>1
  <2> QED
    BY <2>3, <2>4 DEF Distinct
<1>3. ASSUME NEW t, NEW m, NEW n, m \in 1..(Len(s) + 1), n \in (m - 1)..Len(s), PartOf(t, s, m, n)
      PROVE  Distinct(t)
  <2>1. Len(t) = n - m + 1 /\ \A j \in 1..(n - m + 1) : t[j] = s[m + j - 1]
    BY <1>3 DEF PartOf
  <2>2. \A c, d \in 1..Len(s) : s[c] = s[d] => c = d
    BY DEF Distinct
  <2> SUFFICES ASSUME NEW x \in 1..Len(t), NEW y \in 1..Len(t), t[x] = t[y]
               PROVE  x = y
    BY DEF Distinct
  <2>3. m + x - 1 \in 1..Len(s) /\ m + y - 1 \in 1..Len(s)
    BY <1>3, <2>1
  <2>4. m + x - 1 = m + y - 1
    BY <2>1, <2>2, <2>3
  <2> QED
    BY <1>3, <2>1, <2>4
<1> QED
  BY <1>1, <1>2, <1>3

\* So have two such sequences joined, if they share nothing.
LEMMA DistinctJoined ==
    ASSUME NEW s, NEW u, NEW t, Len(s) \in Nat, Len(u) \in Nat, Distinct(s), Distinct(u),
           \A i \in 1..Len(s), j \in 1..Len(u) : s[i] # u[j], Joined(t, s, u)
    PROVE  Distinct(t)
<1>1. \A j \in 1..Len(t) :
        \/ j \in 1..Len(s) /\ t[j] = s[j]
        \/ j > Len(s) /\ j - Len(s) \in 1..Len(u) /\ t[j] = u[j - Len(s)]
  BY JoinedElements
<1>2. Len(t) \in Nat
  BY DEF Joined
<1>3. /\ \A c, d \in 1..Len(s) : s[c] = s[d] => c = d
      /\ \A c, d \in 1..Len(u) : u[c] = u[d] => c = d
  BY DEF Distinct
<1> SUFFICES ASSUME NEW x \in 1..Len(t), NEW y \in 1..Len(t), t[x] = t[y]
             PROVE  x = y
  BY DEF Distinct
<1>4. CASE x \in 1..Len(s) /\ t[x] = s[x]
  <2>1. CASE y \in 1..Len(s) /\ t[y] = s[y]
    BY <1>3, <1>4, <2>1
  <2>2. CASE y - Len(s) \in 1..Len(u) /\ t[y] = u[y - Len(s)]
    BY <1>4, <2>2
  <2> QED
    BY <1>1, <2>1, <2>2
<1>5. CASE x > Len(s) /\ x - Len(s) \in 1..Len(u) /\ t[x] = u[x - Len(s)]
  <2>1. CASE y \in 1..Len(s) /\ t[y] = s[y]
    BY <1>5, <2>1
  <2>2. CASE y - Len(s) \in 1..Len(u) /\ t[y] = u[y - Len(s)]
    <3>1. x - Len(s) = y - Len(s)
      BY <1>3, <1>5, <2>2
    <3> QED
      BY <1>2, <3>1
  <2> QED
    BY <1>1, <2>1, <2>2
<1> QED
  BY <1>1, <1>4, <1>5

\* insert_into_node keeps the shape: the right half gets its place after the left.
LEMMA InsertIntoNodeKeepsShape ==
    ASSUME Shape, InsertIntoNode
    PROVE  Shape'
<1> DEFINE l == todo.left
           r == todo.right
<1>1. TypeOK' /\ NodesTyped(heap')
  BY InsertIntoNodeStep
<1>2. PICK p, i : InsertedIntoNode(p, i)
  BY InsertIntoNodeStep
<1>3. /\ Splitting /\ todo' = NoCall /\ root' = root /\ l # root
      /\ p = heap[l].parent /\ p \in DOMAIN heap /\ p \notin LeafAddresses
      /\ Len(heap[p].keys) < Order - 1 /\ i \in 1..Len(heap[p].pointers) /\ heap[p].pointers[i] = l
      /\ DOMAIN heap' = DOMAIN heap
      /\ Len(heap'[p].keys) = Len(heap[p].keys) + 1
      /\ PutIn(heap'[p].pointers, heap[p].pointers, i + 1, r)
      /\ heap'[p].parent = heap[p].parent
      /\ \A x \in DOMAIN heap \ {p} : heap'[x] = heap[x]
  BY <1>2 DEF InsertedIntoNode, PutIn
<1>4. /\ l \in DOMAIN heap /\ r \in DOMAIN heap /\ l # r /\ ~Repairing
      /\ Unlinked = {r} /\ Live = DOMAIN heap /\ LiveInner = DOMAIN heap \ LeafAddresses
      /\ r # root /\ heap[r].parent = p
      /\ TypeOK /\ ChildrenAgree /\ ParentsPoint /\ RootSound
  BY <1>3, SplittingFacts DEF Shape
<1> HIDE DEF l, r
<1>5. /\ ~Splitting' /\ ~Repairing' /\ Unlinked' = {} /\ Live' = Live /\ LiveInner' = LiveInner
  BY <1>3, <1>4 DEF NoCall, Splitting, Repairing, Dead, Unlinked, Live, LiveInner
<1>6. \A x \in DOMAIN heap : heap'[x].parent = heap[x].parent
  BY <1>3
<1>7. Len(heap[p].pointers) \in Nat /\ Len(heap[p].keys) \in Nat
  BY <1>3, <1>4, NodeFacts
<1>8. /\ Distinct(heap[p].pointers)
      /\ \A j \in 1..Len(heap[p].pointers) : heap[p].pointers[j] \in Live \ {r} /\ heap[heap[p].pointers[j]].parent = p
  BY <1>3, <1>4 DEF ChildrenAgree
<1>9. /\ i + 1 \in 1..(Len(heap[p].pointers) + 1)
      /\ Len(heap'[p].pointers) = Len(heap[p].pointers) + 1
  BY <1>3, <1>7 DEF PutIn
<1>10. /\ heap'[p].pointers[i + 1] = r /\ i + 1 \in 1..Len(heap'[p].pointers)
       /\ \A j \in 1..Len(heap[p].pointers) : \E c \in 1..Len(heap'[p].pointers) : heap'[p].pointers[c] = heap[p].pointers[j]
       /\ \A c \in 1..Len(heap'[p].pointers) :
            heap'[p].pointers[c] = r \/ \E j \in 1..Len(heap[p].pointers) : heap'[p].pointers[c] = heap[p].pointers[j]
  <2> DEFINE s == heap[p].pointers
             t == heap'[p].pointers
             n == i + 1
  <2>1. Len(s) \in Nat /\ n \in 1..(Len(s) + 1) /\ PutIn(t, s, n, r) /\ Len(t) = Len(s) + 1
    BY <1>3, <1>7, <1>9
  <2> HIDE DEF s, t, n
  <2>2. /\ t[n] = r
        /\ \A j \in 1..Len(s) : t[IF j < n THEN j ELSE j + 1] = s[j]
        /\ \A j \in 1..Len(t) :
            \/ j = n
            \/ j < n /\ j \in 1..Len(s) /\ t[j] = s[j]
            \/ j > n /\ j - 1 \in 1..Len(s) /\ t[j] = s[j - 1]
    BY <2>1, PutInElements
  <2>3. \A j \in 1..Len(s) : (IF j < n THEN j ELSE j + 1) \in 1..Len(t)
    BY <2>1
  <2>4. \A j \in 1..Len(s) : \E c \in 1..Len(t) : t[c] = s[j]
    BY <2>2, <2>3
  <2>5. \A c \in 1..Len(t) : t[c] = r \/ \E j \in 1..Len(s) : t[c] = s[j]
    BY <2>2
  <2>6. t[n] = r /\ n \in 1..Len(t)
    BY <2>1, <2>2
  <2> QED
    BY <2>4, <2>5, <2>6 DEF s, t, n
<1>11. ChildrenAgree'
  <2>1. Distinct(heap'[p].pointers)
    <3>1. \A j \in 1..Len(heap[p].pointers) : heap[p].pointers[j] # r
      BY <1>8
    <3> DEFINE s == heap[p].pointers
               t == heap'[p].pointers
               n == i + 1
    <3>2. Len(s) \in Nat /\ Distinct(s) /\ n \in 1..(Len(s) + 1) /\ (\A j \in 1..Len(s) : s[j] # r) /\ PutIn(t, s, n, r)
      BY <1>3, <1>7, <1>8, <1>9, <3>1
    <3> HIDE DEF s, t, n
    <3>3. Distinct(t)
      BY <3>2, DistinctKept
    <3> QED
      BY <3>3 DEF t
  <2>2. \A j \in 1..Len(heap'[p].pointers) :
          heap'[p].pointers[j] \in Live /\ heap'[heap'[p].pointers[j]].parent = p
    <3> SUFFICES ASSUME NEW j \in 1..Len(heap'[p].pointers), NEW c, c = heap'[p].pointers[j]
                 PROVE  c \in Live /\ heap'[c].parent = p
      OBVIOUS
    <3>1. c = r \/ \E d \in 1..Len(heap[p].pointers) : c = heap[p].pointers[d]
      BY <1>10
    <3>2. c \in Live /\ heap[c].parent = p
      BY <1>4, <1>8, <3>1
    <3> QED
      BY <1>4, <1>6, <3>2
  <2>3. \A x \in LiveInner \ {p} :
          /\ Distinct(heap'[x].pointers)
          /\ \A j \in 1..Len(heap'[x].pointers) :
               heap'[x].pointers[j] \in Live /\ heap'[heap'[x].pointers[j]].parent = x
    BY <1>3, <1>4, <1>6 DEF ChildrenAgree
  <2> QED
    BY <1>5, <2>1, <2>2, <2>3 DEF ChildrenAgree
<1>12. ParentsPoint'
  <2> SUFFICES ASSUME NEW x \in Live, x # root
               PROVE  /\ heap'[x].parent \in LiveInner
                      /\ \E j \in 1..Len(heap'[heap'[x].parent].pointers) : heap'[heap'[x].parent].pointers[j] = x
    BY <1>3, <1>5 DEF ParentsPoint
  <2>1. CASE x = r
    BY <1>3, <1>4, <1>6, <1>10, <2>1
  <2>2. CASE x # r
    <3>1. /\ heap[x].parent \in LiveInner
          /\ \E j \in 1..Len(heap[heap[x].parent].pointers) : heap[heap[x].parent].pointers[j] = x
      BY <1>4, <2>2 DEF ParentsPoint
    <3>2. CASE heap[x].parent = p
      BY SMTT(30), <1>4, <1>6, <1>10, <3>1, <3>2
    <3>3. CASE heap[x].parent # p
      BY <1>3, <1>4, <1>6, <3>1, <3>3
    <3> QED
      BY <3>2, <3>3
  <2> QED
    BY <2>1, <2>2
<1>13. RootSound' /\ CallSound'
  BY <1>3, <1>4, <1>5, <1>6 DEF RootSound, CallSound
<1>14. Sizes'
  <2> SUFFICES ASSUME NEW x \in Live
               PROVE  Len(heap'[x].keys) <= Order - 1 /\ Len(heap'[x].keys) + 0 >= Floor(x)'
    BY <1>5 DEF Sizes
  <2>1. Len(heap[x].keys) <= Order - 1 /\ Len(heap[x].keys) + 0 >= Floor(x)
    BY <1>4 DEF Shape, Sizes
  <2>2. /\ Floor(x) = (IF x = root THEN 1 ELSE MinKeys(heap[x]))
        /\ Floor(x)' = (IF x = root THEN 1 ELSE MinKeys(heap'[x]))
    BY <1>3, <1>4, <1>5 DEF Floor, l
  <2>3. MinKeys(heap[x]) \in Nat /\ MinKeys(heap'[x]) = MinKeys(heap[x])
    <3>1. heap'[x].leaf <=> heap[x].leaf
      <4>1. TypedNode(x, heap'[x]) /\ TypedNode(x, heap[x])
        BY <1>1, <1>3, <1>4, NodeFacts DEF NodesTyped
      <4>2. heap'[x].leaf <=> x \in LeafAddresses
        BY <4>1, TypedNodeFacts
      <4>3. heap[x].leaf <=> x \in LeafAddresses
        BY <4>1, TypedNodeFacts
      <4> QED
        BY <4>2, <4>3
    <3>2. MinKeys(heap'[x]) = MinKeys(heap[x])
      BY <3>1 DEF MinKeys
    <3> QED
      BY <3>2, MinKeysFacts
  <2>4. CASE x = p
    BY SMTT(30), <1>3, <1>7, <2>1, <2>2, <2>3, <2>4, TreeAssumption
  <2>5. CASE x # p
    BY <1>3, <1>4, <2>1, <2>2, <2>3, <2>5
  <2> QED
    BY <2>4, <2>5
<1>15. \E h \in [DOMAIN heap' -> Nat] : Graded(h)'
  <2>1. PICK h \in [DOMAIN heap -> Nat] : Graded(h)
    BY DEF Shape
  <2>2. h[r] = h[l] /\ h[l] + 1 = h[p]
    BY <1>3, <1>4, <2>1 DEF Graded, l, r
  <2>3. \A j \in 1..Len(heap'[p].pointers) : h[heap'[p].pointers[j]] + 1 = h[p]
    <3>1. \A j \in 1..Len(heap[p].pointers) : h[heap[p].pointers[j]] + 1 = h[p]
      BY <1>3, <1>4, <2>1 DEF Graded
    <3> SUFFICES ASSUME NEW j \in 1..Len(heap'[p].pointers), NEW c, c = heap'[p].pointers[j]
                 PROVE  h[c] + 1 = h[p]
      OBVIOUS
    <3>2. c = r \/ \E d \in 1..Len(heap[p].pointers) : c = heap[p].pointers[d]
      BY <1>10
    <3> QED
      BY <2>2, <3>1, <3>2
  <2>4. \A x \in LiveInner \ {p} : \A j \in 1..Len(heap'[x].pointers) : h[heap'[x].pointers[j]] + 1 = h[x]
    BY SMTT(30), <1>3, <1>4, <2>1 DEF Graded
  <2>5. Graded(h)'
    BY <1>3, <1>4, <1>5, <2>1, <2>3, <2>4 DEF Graded
  <2> QED
    BY <1>3, <2>1, <2>5
<1> QED
  BY <1>1, <1>11, <1>12, <1>13, <1>14, <1>15 DEF Shape

\* insert_into_node_after_splitting keeps the shape: the children moved to the
\* new node have it as their parent, and both halves are large enough.
LEMMA SplitNodeKeepsShape ==
    ASSUME Shape, SplitNode
    PROVE  Shape'
<1> DEFINE l == todo.left
           r == todo.right
<1>1. TypeOK' /\ NodesTyped(heap')
  BY SplitNodeStep
<1>2. PICK p, b, i, ks, ps, m : SplitTheNode(p, b, i, ks, ps, m)
  BY SplitNodeStep
<1> DEFINE Right(x) == \E j \in (m + 1)..(Order + 1) : ps[j] = x
<1>3. /\ Splitting /\ root' = root /\ l # root
      /\ p = heap[l].parent /\ p \in DOMAIN heap /\ p \notin LeafAddresses
      /\ b \notin LeafAddresses /\ b \notin DOMAIN heap /\ b # p
      /\ DOMAIN heap' = DOMAIN heap \cup {b}
      /\ heap'[p].parent = heap[p].parent /\ heap'[b].parent = heap[p].parent
      /\ todo'.call = "insert_into_parent" /\ todo'.left = p /\ todo'.right = b
  BY <1>2 DEF SplitTheNode
<1>4. /\ Order \in Nat /\ m \in Nat /\ 2 <= m /\ m <= Order - 1 /\ m = cut(Order)
  <2>1. m = cut(Order) /\ m \in 2..(Order - 1)
    BY <1>2 DEF SplitTheNode
  <2> QED
    BY <2>1, TreeAssumption
<1>5. /\ i \in 1..Len(heap[p].pointers) /\ heap[p].pointers[i] = l
      /\ PutIn(ps, heap[p].pointers, i + 1, r)
      /\ PartOf(heap'[p].pointers, ps, 1, m) /\ PartOf(heap'[b].pointers, ps, m + 1, Order + 1)
  BY <1>2 DEF SplitTheNode
<1>6. \A x \in DOMAIN heap \ {p} :
          /\ Right(x) => heap'[x] = Node(heap[x].leaf, heap[x].keys, heap[x].pointers, b, heap[x].next)
          /\ ~Right(x) => heap'[x] = heap[x]
  BY <1>2 DEF SplitTheNode
<1>7. /\ l \in DOMAIN heap /\ r \in DOMAIN heap /\ l # r /\ ~Repairing
      /\ Unlinked = {r} /\ Live = DOMAIN heap /\ LiveInner = DOMAIN heap \ LeafAddresses
      /\ r # root /\ heap[r].parent = p /\ root \in DOMAIN heap /\ heap[root].parent = Null /\ p # Null
      /\ TypeOK /\ ChildrenAgree /\ ParentsPoint /\ RootSound
  BY <1>3, SplittingFacts, NodeFacts DEF Shape, RootSound
<1> HIDE DEF l, r
<1>8. /\ Splitting' /\ ~Repairing' /\ Unlinked' = {b}
      /\ Live' = Live \cup {b} /\ LiveInner' = LiveInner \cup {b}
  BY <1>3, <1>7 DEF Splitting, Repairing, Dead, Unlinked, Live, LiveInner
<1>9. /\ Len(heap[p].pointers) = Order /\ Len(ps) = Order + 1
      /\ Len(heap'[p].keys) = m - 1 /\ Len(heap'[b].keys) = Order - m
      /\ Len(heap'[p].pointers) = m /\ Len(heap'[b].pointers) = Order + 1 - m
  <2>1. Len(heap[p].keys) = Order - 1
    BY <1>2 DEF SplitTheNode
  <2>2. Len(heap[p].pointers) = Order
    BY <1>3, <1>7, <1>4, <2>1, NodeFacts
  <2>3. /\ Len(heap'[p].keys) = (m - 1) - 1 + 1 /\ Len(heap'[b].keys) = Order - (m + 1) + 1
    <3>1. PartOf(heap'[p].keys, ks, 1, m - 1) /\ PartOf(heap'[b].keys, ks, m + 1, Order)
      BY <1>2 DEF SplitTheNode
    <3> QED
      BY <3>1 DEF PartOf
  <2>4. Len(heap'[p].pointers) = m - 1 + 1 /\ Len(heap'[b].pointers) = (Order + 1) - (m + 1) + 1
    BY <1>5 DEF PartOf
  <2>5. Len(ps) = Len(heap[p].pointers) + 1
    <3>1. PutIn(ps, heap[p].pointers, i + 1, r)
      BY <1>5
    <3> QED
      BY <3>1 DEF PutIn
  <2>6. Order \in Nat /\ m \in Nat
    BY <1>4
  <2>7. (m - 1) - 1 + 1 = m - 1 /\ Order - (m + 1) + 1 = Order - m
    BY <2>6
  <2>8. m - 1 + 1 = m /\ (Order + 1) - (m + 1) + 1 = Order + 1 - m
    BY <2>6
  <2> QED
    BY <2>2, <2>3, <2>4, <2>5, <2>7, <2>8
<1>10. /\ \A j \in 1..m : heap'[p].pointers[j] = ps[j]
       /\ \A j \in 1..(Order + 1 - m) : heap'[b].pointers[j] = ps[m + j]
  <2>1. /\ \A j \in 1..(m - 1 + 1) : heap'[p].pointers[j] = ps[1 + j - 1]
        /\ \A j \in 1..((Order + 1) - (m + 1) + 1) : heap'[b].pointers[j] = ps[m + 1 + j - 1]
    BY <1>5 DEF PartOf
  <2>2. ASSUME NEW j \in 1..m PROVE heap'[p].pointers[j] = ps[j]
    <3>1. j \in 1..(m - 1 + 1) /\ 1 + j - 1 = j
      BY <1>4
    <3> QED
      BY <2>1, <3>1
  <2>3. ASSUME NEW j \in 1..(Order + 1 - m) PROVE heap'[b].pointers[j] = ps[m + j]
    <3>1. j \in 1..((Order + 1) - (m + 1) + 1) /\ m + 1 + j - 1 = m + j
      BY <1>4
    <3> QED
      BY <2>1, <3>1
  <2> QED
    BY <2>2, <2>3
<1>11. PICK g \in [DOMAIN heap -> Nat] : Graded(g)
  BY DEF Shape
<1>12. /\ Distinct(heap[p].pointers)
       /\ \A j \in 1..Order : /\ heap[p].pointers[j] \in Live \ {r} /\ heap[heap[p].pointers[j]].parent = p
                              /\ g[heap[p].pointers[j]] + 1 = g[p]
  <2>1. p \in LiveInner
    BY <1>3, <1>7
  <2> QED
    BY SMTT(30), <1>7, <1>9, <1>11, <2>1 DEF ChildrenAgree, Graded
<1>13. g[r] + 1 = g[p]
  <2>1. g[l] + 1 = g[p]
    BY <1>5, <1>9, <1>12
  <2>2. g[l] = g[r]
    BY <1>3, <1>11 DEF Graded, l, r
  <2> QED
    BY <2>1, <2>2
<1>14. \A j \in 1..(Order + 1) :
         /\ ps[j] \in Live /\ heap[ps[j]].parent = p /\ g[ps[j]] + 1 = g[p] /\ ps[j] # p
  <2> SUFFICES ASSUME NEW j \in 1..(Order + 1), NEW c, c = ps[j]
               PROVE  c \in Live /\ heap[c].parent = p /\ g[c] + 1 = g[p] /\ c # p
    OBVIOUS
  <2>1. c = r \/ \E d \in 1..Order : c = heap[p].pointers[d]
    <3> DEFINE s == heap[p].pointers
               n == i + 1
    <3>1. Len(s) \in Nat /\ n \in 1..(Len(s) + 1) /\ PutIn(ps, s, n, r) /\ Len(s) = Order
      BY <1>5, <1>9, <1>4
    <3> HIDE DEF s, n
    <3>2. /\ ps[n] = r
          /\ \/ j = n
             \/ j < n /\ j \in 1..Len(s) /\ ps[j] = s[j]
             \/ j > n /\ j - 1 \in 1..Len(s) /\ ps[j] = s[j - 1]
      <4>1. j \in 1..Len(ps)
        BY <1>9
      <4> QED
        BY <3>1, <4>1, PutInElements
    <3>3. c = r \/ \E d \in 1..Order : c = s[d]
      BY <3>1, <3>2
    <3> QED
      BY <3>3 DEF s
  <2>2. c \in Live /\ heap[c].parent = p /\ g[c] + 1 = g[p]
    BY <1>7, <1>12, <1>13, <2>1
  <2>3. c # p
    BY <1>3, <1>7, <1>11, <2>2
  <2> QED
    BY <2>2, <2>3
<1>15. Distinct(ps)
  <2> DEFINE s == heap[p].pointers
             n == i + 1
  <2>1. Len(s) = Order /\ Len(s) \in Nat /\ n \in 1..(Len(s) + 1)
    BY <1>4, <1>5, <1>9
  <2>2. PutIn(ps, s, n, r)
    BY <1>5
  <2>3. Distinct(s) /\ \A j \in 1..Order : s[j] # r
    BY <1>12
  <2> HIDE DEF s, n
  <2> QED
    BY <2>1, <2>2, <2>3, DistinctKept
<1>16. \A x \in Live : x # root /\ heap[x].parent = p => \E j \in 1..(Order + 1) : ps[j] = x
  <2> SUFFICES ASSUME NEW x \in Live, x # root, heap[x].parent = p
               PROVE  \E j \in 1..(Order + 1) : ps[j] = x
    OBVIOUS
  <2> DEFINE s == heap[p].pointers
             n == i + 1
  <2>1. Len(s) = Order /\ Len(s) \in Nat /\ n \in 1..(Len(s) + 1) /\ PutIn(ps, s, n, r)
    BY <1>5, <1>9, <1>4
  <2>2. x # r => \E j \in 1..Len(s) : s[j] = x
    BY <1>7 DEF ParentsPoint
  <2> HIDE DEF s, n
  <2>3. /\ ps[n] = r /\ \A j \in 1..Len(s) : ps[IF j < n THEN j ELSE j + 1] = s[j]
    BY <2>1, PutInElements
  <2>4. CASE x = r
    BY <2>1, <2>3, <2>4
  <2>5. CASE x # r
    <3>1. PICK j \in 1..Len(s) : s[j] = x
      BY <2>2, <2>5
    <3>2. (IF j < n THEN j ELSE j + 1) \in 1..(Order + 1)
      BY <2>1
    <3> QED
      BY <2>3, <3>1, <3>2
  <2> QED
    BY <2>4, <2>5
<1>17. \A x : Right(x) => x \in Live /\ heap[x].parent = p /\ x # p /\ x # root
  <2> SUFFICES ASSUME NEW x, Right(x) PROVE x \in Live /\ heap[x].parent = p /\ x # p /\ x # root
    OBVIOUS
  <2>1. PICK j \in (m + 1)..(Order + 1) : ps[j] = x
    OBVIOUS
  <2>2. j \in 1..(Order + 1)
    BY <1>4
  <2> QED
    BY <1>7, <1>14, <2>1, <2>2
<1>18. \A j \in 1..m : ~Right(ps[j])
  <2>1. \A c, d \in 1..Len(ps) : ps[c] = ps[d] => c = d
    BY <1>15 DEF Distinct
  <2> SUFFICES ASSUME NEW j \in 1..m, NEW d \in (m + 1)..(Order + 1), ps[d] = ps[j] PROVE FALSE
    OBVIOUS
  <2>2. j \in 1..Len(ps) /\ d \in 1..Len(ps) /\ d # j
    BY SMTT(30), <1>9, <1>4
  <2> QED
    BY <2>1, <2>2
<1>19. \A j \in 1..(Order + 1 - m) : Right(ps[m + j])
  <2> SUFFICES ASSUME NEW j \in 1..(Order + 1 - m) PROVE Right(ps[m + j])
    OBVIOUS
  <2>1. m + j \in (m + 1)..(Order + 1)
    BY <1>4
  <2> QED
    BY <2>1
<1> HIDE DEF Right
<1>20. /\ \A x \in DOMAIN heap : /\ Right(x) => heap'[x].parent = b
                                 /\ ~Right(x) => heap'[x].parent = heap[x].parent
       /\ \A x \in DOMAIN heap \ {p} :
            heap'[x].pointers = heap[x].pointers /\ heap'[x].keys = heap[x].keys /\ heap'[x].leaf = heap[x].leaf
  BY <1>3, <1>6, <1>17 DEF Node
<1>21. ChildrenAgree'
  <2>1. Distinct(heap'[p].pointers)
    <3>1. 1 \in 1..(Len(ps) + 1) /\ m \in (1 - 1)..Len(ps) /\ Len(ps) \in Nat
      BY <1>4, <1>9
    <3> QED
      BY <1>5, <1>15, <3>1, DistinctKept
  <2>2. Distinct(heap'[b].pointers)
    <3> DEFINE u == heap'[b].pointers
               c == m + 1
               d == Order + 1
    <3>1. Len(ps) \in Nat /\ c \in 1..(Len(ps) + 1) /\ d \in (c - 1)..Len(ps)
      <4>1. Len(ps) = Order + 1 /\ Order \in Nat /\ m \in Nat /\ m <= Order - 1 /\ 2 <= m
        BY <1>4, <1>9
      <4>2. m + 1 \in 1..(Order + 1 + 1) /\ Order + 1 \in ((m + 1) - 1)..(Order + 1)
        BY <4>1
      <4> QED
        BY <4>1, <4>2
    <3>2. PartOf(u, ps, c, d)
      BY <1>5
    <3> HIDE DEF u, c, d
    <3>3. Distinct(u)
      BY <1>15, <3>1, <3>2, DistinctKept
    <3> QED
      BY <3>3 DEF u
  <2>3. \A j \in 1..Len(heap'[p].pointers) :
          heap'[p].pointers[j] \in Live /\ heap'[heap'[p].pointers[j]].parent = p
    <3> SUFFICES ASSUME NEW j \in 1..m PROVE ps[j] \in Live /\ heap'[ps[j]].parent = p
      BY <1>9, <1>10
    <3>1. j \in 1..(Order + 1)
      BY <1>4
    <3> QED
      BY <1>7, <1>14, <1>18, <1>20, <3>1
  <2>4. \A j \in 1..Len(heap'[b].pointers) :
          heap'[b].pointers[j] \in Live /\ heap'[heap'[b].pointers[j]].parent = b
    <3> SUFFICES ASSUME NEW j \in 1..Len(heap'[b].pointers), NEW c, c = heap'[b].pointers[j]
                 PROVE  c \in Live /\ heap'[c].parent = b
      OBVIOUS
    <3>1. j \in 1..(Order + 1 - m) /\ c = ps[m + j]
      BY <1>9, <1>10
    <3>2. Right(c)
      BY <1>19, <3>1
    <3> QED
      BY <1>7, <1>17, <1>20, <3>2
  <2>5. \A x \in LiveInner \ {p} :
          /\ Distinct(heap'[x].pointers)
          /\ \A j \in 1..Len(heap'[x].pointers) :
               heap'[x].pointers[j] \in Live /\ heap'[heap'[x].pointers[j]].parent = x
    <3> SUFFICES ASSUME NEW x \in LiveInner \ {p}
                 PROVE  /\ Distinct(heap[x].pointers)
                        /\ \A j \in 1..Len(heap[x].pointers) :
                             heap[x].pointers[j] \in Live /\ heap'[heap[x].pointers[j]].parent = x
      BY SMTT(30), <1>7, <1>20
    <3>1. Distinct(heap[x].pointers)
      BY <1>7 DEF ChildrenAgree
    <3>2. ASSUME NEW j \in 1..Len(heap[x].pointers), NEW c, c = heap[x].pointers[j]
          PROVE  c \in Live /\ heap'[c].parent = x
      <4>1. c \in Live /\ heap[c].parent = x
        BY <1>7, <3>2 DEF ChildrenAgree
      <4> QED
        BY <1>7, <1>17, <1>20, <4>1
    <3> QED
      BY <3>1, <3>2
  <2>6. b \notin Live
    BY <1>3, <1>7
  <2> QED
    BY <1>8, <2>1, <2>2, <2>3, <2>4, <2>5, <2>6 DEF ChildrenAgree
<1>22. ParentsPoint'
  <2> SUFFICES ASSUME NEW x \in Live, x # root
               PROVE  /\ heap'[x].parent \in LiveInner \cup {b}
                      /\ \E j \in 1..Len(heap'[heap'[x].parent].pointers) : heap'[heap'[x].parent].pointers[j] = x
    BY <1>3, <1>8 DEF ParentsPoint
  <2>1. CASE Right(x)
    <3>1. PICK j \in (m + 1)..(Order + 1) : ps[j] = x
      BY <2>1 DEF Right
    <3>2. j - m \in 1..(Order + 1 - m) /\ m + (j - m) = j
      BY <1>4
    <3>3. heap'[b].pointers[j - m] = x
      BY <1>10, <3>1, <3>2
    <3>4. heap'[x].parent = b
      BY <1>7, <1>20, <2>1
    <3> QED
      BY <1>9, <3>2, <3>3, <3>4
  <2>2. CASE ~Right(x) /\ heap[x].parent = p
    <3>1. PICK j \in 1..(Order + 1) : ps[j] = x
      BY <1>16, <2>2
    <3>2. j \in 1..m
      BY <1>4, <2>2, <3>1 DEF Right
    <3>3. heap'[p].pointers[j] = x /\ heap'[x].parent = p
      BY <1>7, <1>10, <1>20, <2>2, <3>1, <3>2
    <3> QED
      BY <1>3, <1>7, <1>9, <3>2, <3>3
  <2>3. CASE ~Right(x) /\ heap[x].parent # p
    <3>1. /\ heap[x].parent \in LiveInner
          /\ \E j \in 1..Len(heap[heap[x].parent].pointers) : heap[heap[x].parent].pointers[j] = x
      BY <1>7, <2>3 DEF ParentsPoint
    <3> QED
      BY <1>7, <1>20, <2>3, <3>1
  <2> QED
    BY <2>1, <2>2, <2>3
<1>23. RootSound'
  <2>1. heap'[root].parent = Null
    BY <1>7, <1>17, <1>20
  <2>2. root # Null
    BY <1>7, NodeFacts
  <2> QED
    BY <1>3, <1>7, <1>8, <2>1, <2>2 DEF RootSound
<1>24. CallSound'
  BY <1>3, <1>7, <1>8 DEF CallSound
<1>25. Sizes'
  <2> SUFFICES ASSUME NEW x \in Live \cup {b}
               PROVE  Len(heap'[x].keys) <= Order - 1 /\ Len(heap'[x].keys) + 0 >= Floor(x)'
    BY <1>8 DEF Sizes
  <2>1. x \in {p, b} => Floor(x)' = cut(Order) - 1
    <3>1. x \in {p, b} => TypedNode(x, heap'[x])
      BY <1>1, <1>3 DEF NodesTyped
    <3>2. x \in {p, b} => ~heap'[x].leaf
      BY <1>3, <3>1, TypedNodeFacts
    <3>3. x \in {p, b} => MinKeys(heap'[x]) = cut(Order) - 1
      BY <3>2 DEF MinKeys
    <3> QED
      BY <1>3, <1>7, <1>8, <3>3 DEF Floor
  <2>2. CASE x = p
    <3>1. Floor(x)' = m - 1 /\ Len(heap'[x].keys) = m - 1
      BY <1>4, <1>9, <2>1, <2>2
    <3> QED
      BY <1>4, <3>1
  <2>3. CASE x = b
    <3>1. Floor(x)' = m - 1 /\ Len(heap'[x].keys) = Order - m
      BY <1>4, <1>9, <2>1, <2>3
    <3>2. 2 * m <= Order + 1
      BY <1>4, SplitSizes
    <3> QED
      BY <1>4, <3>1, <3>2
  <2>4. CASE x \notin {p, b}
    <3>1. Len(heap[x].keys) <= Order - 1 /\ Len(heap[x].keys) + 0 >= Floor(x)
      BY <1>7, <2>4 DEF Shape, Sizes
    <3>2. Floor(x)' = Floor(x)
      <4>1. Floor(x) = (IF x = root THEN 1 ELSE MinKeys(heap[x]))
        BY <1>3, <1>7 DEF Floor, l
      <4>2. Floor(x)' = (IF x = root THEN 1 ELSE MinKeys(heap'[x]))
        BY <1>3, <1>8, <2>4 DEF Floor
      <4>3. MinKeys(heap'[x]) = MinKeys(heap[x])
        BY <1>7, <1>20, <2>4 DEF MinKeys
      <4> QED
        BY <4>1, <4>2, <4>3
    <3>3. heap'[x].keys = heap[x].keys
      BY <1>7, <1>20, <2>4
    <3> QED
      BY <3>1, <3>2, <3>3
  <2> QED
    BY <2>2, <2>3, <2>4
<1>26. \E h \in [DOMAIN heap' -> Nat] : Graded(h)'
  <2>1. PICK h \in [DOMAIN heap' -> Nat] : h[b] = g[p] /\ \A x \in DOMAIN heap : h[x] = g[x]
    <3>1. Extends(DOMAIN heap, g, DOMAIN heap', b, g[p])
      BY <1>3, <1>11 DEF Extends
    <3> QED
      BY <3>1, GradesAdded
  <2>2. \A x \in Live' : h[x] = 0 <=> x \in LeafAddresses
    BY <1>3, <1>7, <1>8, <1>11, <2>1 DEF Graded
  <2>3. \A x \in LiveInner' : \A j \in 1..Len(heap'[x].pointers) : h[heap'[x].pointers[j]] + 1 = h[x]
    <3> SUFFICES ASSUME NEW x \in LiveInner \cup {b}, NEW j \in 1..Len(heap'[x].pointers), NEW c, c = heap'[x].pointers[j]
                 PROVE  h[c] + 1 = h[x]
      BY <1>8
    <3>1. CASE x = p
      <4>1. j \in 1..(Order + 1) /\ c = ps[j]
        BY SMTT(30), <1>4, <1>9, <1>10, <3>1
      <4> QED
        BY <1>3, <1>7, <1>14, <2>1, <3>1, <4>1
    <3>2. CASE x = b
      <4>1. m + j \in 1..(Order + 1) /\ c = ps[m + j]
        <5>1. j \in 1..(Order + 1 - m)
          BY <1>9, <3>2
        <5>2. m + j \in 1..(Order + 1)
          BY <1>4, <5>1
        <5> QED
          BY <1>10, <3>2, <5>1, <5>2
      <4> QED
        BY <1>3, <1>7, <1>14, <2>1, <3>2, <4>1
    <3>3. CASE x \notin {p, b}
      <4>1. x \in LiveInner /\ x \in DOMAIN heap /\ j \in 1..Len(heap[x].pointers) /\ c = heap[x].pointers[j]
        BY <1>7, <1>20, <3>3
      <4>2. g[c] + 1 = g[x] /\ c \in DOMAIN heap
        BY SMTT(30), <1>7, <1>11, <4>1 DEF Graded, ChildrenAgree
      <4> QED
        BY <2>1, <4>1, <4>2
    <3> QED
      BY <3>1, <3>2, <3>3
  <2>4. \A x \in Live' : h[x] <= h[root]
    <3>1. \A x \in DOMAIN heap : g[x] <= g[root]
      BY <1>7, <1>11 DEF Graded
    <3> QED
      BY <1>3, <1>7, <1>8, <2>1, <3>1
  <2>5. h[p] = h[b]
    BY <1>3, <2>1
  <2> QED
    BY <1>3, <1>8, <2>2, <2>3, <2>4, <2>5 DEF Graded
<1> QED
  BY <1>1, <1>21, <1>22, <1>23, <1>24, <1>25, <1>26 DEF Shape

-----------------------------------------------------------------------------
(* Merges and redistributions                                              *)

\* coalesce_nodes keeps the shape: the children of the node that is emptied
\* have the other one as their parent, and the parent is under repair.
LEMMA CoalesceKeepsShape ==
    ASSUME Shape, Coalesce
    PROVE  Shape'
<1>1. TypeOK' /\ NodesTyped(heap')
  BY CoalesceStep
<1>2. PICK a, nb, p, q, to, from, o : Coalesced(a, nb, p, q, to, from, o)
  BY CoalesceStep
<1> DEFINE Moved(x) == from \notin LeafAddresses /\ \E j \in 1..Len(heap[from].pointers) : heap[from].pointers[j] = x
<1>3. /\ Repairing /\ root' = root /\ DOMAIN heap' = DOMAIN heap
      /\ \/ to = a /\ from = nb
         \/ to = nb /\ from = a
      /\ heap'[p].parent = heap[p].parent /\ heap'[to].parent = heap[to].parent
      /\ todo' = [call |-> "delete_entry", node |-> p, dead |-> todo.dead \cup {from}]
  BY <1>2 DEF Coalesced
<1>4. /\ a = todo.node /\ a \in Live /\ nb \in Live /\ p \in LiveInner /\ a # nb
      /\ a # root /\ nb # root /\ p # a /\ p # nb
      /\ a \in LeafAddresses <=> nb \in LeafAddresses
      /\ q \in 1..Len(heap[p].keys) /\ Len(heap[p].pointers) = Len(heap[p].keys) + 1
      /\ Len(heap[a].keys) + 1 >= MinKeys(heap[a]) /\ Len(heap[nb].keys) >= MinKeys(heap[nb])
      /\ \A x \in {a, nb} \cap LiveInner : \A j \in 1..Len(heap[x].pointers) :
           /\ heap[x].pointers[j] \in Live /\ heap[heap[x].pointers[j]].parent = x
           /\ heap[x].pointers[j] \notin {a, nb, p}
  BY <1>2 DEF Coalesced, Pair
<1>5. /\ ~Splitting /\ Dead = todo.dead /\ Unlinked = {}
      /\ Live = DOMAIN heap \ todo.dead /\ LiveInner = Live \ LeafAddresses
      /\ root \in Live /\ root # Null /\ heap[root].parent = Null /\ Live \subseteq DOMAIN heap
      /\ TypeOK /\ ChildrenAgree /\ ParentsPoint
  BY <1>3, RepairingFacts DEF Shape
<1>6. /\ {to, from} = {a, nb} /\ to \in Live /\ from \in Live /\ to # from /\ p \notin {to, from}
      /\ root \notin {to, from} /\ p \in Live /\ p \notin LeafAddresses
      /\ to \in LeafAddresses <=> from \in LeafAddresses
  BY <1>3, <1>4, <1>5
<1>7. /\ ~Splitting' /\ Repairing' /\ Unlinked' = {} /\ Live' = Live \ {from} /\ LiveInner' = LiveInner \ {from}
  BY <1>3, <1>5 DEF Splitting, Repairing, Dead, Unlinked, Live, LiveInner
<1>8. \A x \in DOMAIN heap \ {p, to} :
        /\ Moved(x) => heap'[x] = Node(heap[x].leaf, heap[x].keys, heap[x].pointers, to, heap[x].next)
        /\ ~Moved(x) => heap'[x] = heap[x]
  BY <1>2 DEF Coalesced
<1>9. \A x : Moved(x) => /\ x \in Live /\ x \notin {to, from, p, root} /\ heap[x].parent = from
  <2>1. from # Null
    BY <1>5, <1>6, NodeFacts
  <2>2. from \notin LeafAddresses => from \in {a, nb} \cap LiveInner
    BY <1>5, <1>6
  <2> SUFFICES ASSUME NEW x, Moved(x)
               PROVE  x \in Live /\ x \notin {to, from, p, root} /\ heap[x].parent = from
    OBVIOUS
  <2>3. PICK j \in 1..Len(heap[from].pointers) : heap[from].pointers[j] = x
    OBVIOUS
  <2>4. x \in Live /\ heap[x].parent = from /\ x \notin {a, nb, p}
    BY <1>4, <2>2, <2>3
  <2> QED
    BY <1>5, <1>6, <2>1, <2>4
<1>10. \A x \in Live : heap[x].parent = from /\ x # root => Moved(x)
  BY <1>5 DEF ParentsPoint
<1> HIDE DEF Moved
<1>11. /\ \A x \in DOMAIN heap : /\ Moved(x) => heap'[x].parent = to
                                 /\ ~Moved(x) => heap'[x].parent = heap[x].parent
       /\ \A x \in DOMAIN heap \ {p, to} :
            heap'[x].pointers = heap[x].pointers /\ heap'[x].keys = heap[x].keys /\ heap'[x].leaf = heap[x].leaf
  BY <1>3, <1>8, <1>9 DEF Node
<1>12. /\ heap[p].pointers[q] = to /\ heap[p].pointers[q + 1] = from
       /\ TakenOut(heap'[p].pointers, heap[p].pointers, q + 1)
       /\ Joined(heap'[to].pointers, heap[to].pointers, heap[from].pointers)
  BY <1>2 DEF Coalesced
<1>13. /\ Len(heap[p].pointers) \in Nat /\ Len(heap[to].pointers) \in Nat /\ Len(heap[from].pointers) \in Nat
       /\ Len(heap[p].keys) \in Nat /\ Len(heap[to].keys) \in Nat /\ Len(heap[from].keys) \in Nat
       /\ q \in 1..Len(heap[p].pointers) /\ q + 1 \in 1..Len(heap[p].pointers)
  <2>1. /\ Len(heap[p].pointers) \in Nat /\ Len(heap[to].pointers) \in Nat /\ Len(heap[from].pointers) \in Nat
        /\ Len(heap[p].keys) \in Nat /\ Len(heap[to].keys) \in Nat /\ Len(heap[from].keys) \in Nat
    BY <1>5, <1>6, NodeFacts
  <2> QED
    BY <1>4, <2>1
<1>14. \A x \in LiveInner :
         /\ Distinct(heap[x].pointers)
         /\ \A j \in 1..Len(heap[x].pointers) : heap[x].pointers[j] \in Live /\ heap[heap[x].pointers[j]].parent = x
  BY <1>5 DEF ChildrenAgree
<1>15. /\ heap[to].parent = p /\ heap[from].parent = p
  BY <1>4, <1>12, <1>13, <1>14
<1>16. /\ Distinct(heap'[p].pointers)
       /\ \A j \in 1..Len(heap'[p].pointers) :
            heap'[p].pointers[j] # from /\ \E d \in 1..Len(heap[p].pointers) : heap'[p].pointers[j] = heap[p].pointers[d]
       /\ \A d \in 1..Len(heap[p].pointers) : heap[p].pointers[d] # from =>
            \E j \in 1..Len(heap'[p].pointers) : heap'[p].pointers[j] = heap[p].pointers[d]
  <2> DEFINE s == heap[p].pointers
             t == heap'[p].pointers
             n == q + 1
  <2>1. Len(s) \in Nat /\ Distinct(s) /\ n \in 1..Len(s) /\ TakenOut(t, s, n) /\ s[n] = from
    BY <1>4, <1>12, <1>13, <1>14
  <2> HIDE DEF s, t, n
  <2>2. Distinct(t) /\ \A j \in 1..Len(t) : t[j] # s[n]
    BY <2>1, DistinctKept
  <2>3. /\ \A j \in 1..Len(s) : j # n => t[IF j < n THEN j ELSE j - 1] = s[j]
        /\ \A j \in 1..Len(t) : t[j] = s[IF j < n THEN j ELSE j + 1]
        /\ Len(t) = Len(s) - 1
    BY ZenonT(30), <2>1, TakenOutElements DEF TakenOut
  <2>4. \A j \in 1..Len(t) : t[j] # from /\ \E d \in 1..Len(s) : t[j] = s[d]
    <3> SUFFICES ASSUME NEW j \in 1..Len(t) PROVE t[j] # from /\ \E d \in 1..Len(s) : t[j] = s[d]
      OBVIOUS
    <3>1. (IF j < n THEN j ELSE j + 1) \in 1..Len(s)
      BY <2>1, <2>3
    <3> QED
      BY <2>1, <2>2, <2>3, <3>1
  <2>5. \A d \in 1..Len(s) : s[d] # from => \E j \in 1..Len(t) : t[j] = s[d]
    <3> SUFFICES ASSUME NEW d \in 1..Len(s), s[d] # from PROVE \E j \in 1..Len(t) : t[j] = s[d]
      OBVIOUS
    <3>1. d # n
      BY <2>1
    <3>2. (IF d < n THEN d ELSE d - 1) \in 1..Len(t)
      BY <2>1, <2>3, <3>1
    <3> QED
      BY <2>3, <3>1, <3>2
  <2> QED
    BY <2>2, <2>4, <2>5 DEF s, t
<1>17. /\ \A j \in 1..Len(heap'[to].pointers) :
            \/ \E d \in 1..Len(heap[to].pointers) : heap'[to].pointers[j] = heap[to].pointers[d]
            \/ \E d \in 1..Len(heap[from].pointers) : heap'[to].pointers[j] = heap[from].pointers[d]
       /\ \A d \in 1..Len(heap[to].pointers) :
            \E j \in 1..Len(heap'[to].pointers) : heap'[to].pointers[j] = heap[to].pointers[d]
       /\ \A d \in 1..Len(heap[from].pointers) :
            \E j \in 1..Len(heap'[to].pointers) : heap'[to].pointers[j] = heap[from].pointers[d]
  <2> DEFINE s == heap[to].pointers
             u == heap[from].pointers
             t == heap'[to].pointers
  <2>1. Len(s) \in Nat /\ Len(u) \in Nat /\ Joined(t, s, u)
    BY <1>12, <1>13
  <2> HIDE DEF s, t, u
  <2>2. /\ \A j \in 1..Len(s) : t[j] = s[j] /\ j \in 1..Len(t)
        /\ \A j \in 1..Len(u) : t[Len(s) + j] = u[j] /\ Len(s) + j \in 1..Len(t)
        /\ \A j \in 1..Len(t) : (\E l \in 1..Len(s) : t[j] = s[l]) \/ (\E l \in 1..Len(u) : t[j] = u[l])
    BY <2>1, JoinedElements
  <2> QED
    BY <2>2 DEF s, t, u
<1>18. to \notin LeafAddresses =>
         /\ Distinct(heap'[to].pointers)
         /\ \A j \in 1..Len(heap'[to].pointers) :
              heap'[to].pointers[j] \in Live \ {from} /\ heap'[heap'[to].pointers[j]].parent = to
  <2> SUFFICES ASSUME to \notin LeafAddresses
               PROVE  /\ Distinct(heap'[to].pointers)
                      /\ \A j \in 1..Len(heap'[to].pointers) :
                           heap'[to].pointers[j] \in Live \ {from} /\ heap'[heap'[to].pointers[j]].parent = to
    OBVIOUS
  <2>1. to \in LiveInner /\ from \in LiveInner
    BY <1>5, <1>6
  <2>2. Distinct(heap'[to].pointers)
    <3> DEFINE s == heap[to].pointers
               u == heap[from].pointers
               t == heap'[to].pointers
    <3>1. Len(s) \in Nat /\ Len(u) \in Nat /\ Joined(t, s, u) /\ Distinct(s) /\ Distinct(u)
      BY <1>12, <1>13, <1>14, <2>1
    <3>2. \A i \in 1..Len(s), j \in 1..Len(u) : s[i] # u[j]
      BY <1>6, <1>14, <2>1
    <3> HIDE DEF s, t, u
    <3>3. Distinct(t)
      BY <3>1, <3>2, DistinctJoined
    <3> QED
      BY <3>3 DEF t
  <2>3. ASSUME NEW j \in 1..Len(heap'[to].pointers), NEW c, c = heap'[to].pointers[j]
        PROVE  c \in Live \ {from} /\ heap'[c].parent = to
    <3>1. \/ \E d \in 1..Len(heap[to].pointers) : c = heap[to].pointers[d]
          \/ \E d \in 1..Len(heap[from].pointers) : c = heap[from].pointers[d]
      BY <1>17, <2>3
    <3>2. CASE \E d \in 1..Len(heap[to].pointers) : c = heap[to].pointers[d]
      <4>1. c \in Live /\ heap[c].parent = to
        BY <1>14, <2>1, <3>2
      <4>2. c # from /\ ~Moved(c)
        BY <1>6, <1>9, <1>15, <4>1
      <4> QED
        BY <1>5, <1>11, <4>1, <4>2
    <3>3. CASE \E d \in 1..Len(heap[from].pointers) : c = heap[from].pointers[d]
      <4>1. Moved(c)
        BY <1>6, <2>1, <3>3 DEF Moved
      <4> QED
        BY <1>5, <1>9, <1>11, <4>1
    <3> QED
      BY <3>1, <3>2, <3>3
  <2> QED
    BY <2>2, <2>3
<1>19. ChildrenAgree'
  <2>1. \A j \in 1..Len(heap'[p].pointers) :
          heap'[p].pointers[j] \in Live \ {from} /\ heap'[heap'[p].pointers[j]].parent = p
    <3> SUFFICES ASSUME NEW j \in 1..Len(heap'[p].pointers), NEW c, c = heap'[p].pointers[j]
                 PROVE  c \in Live \ {from} /\ heap'[c].parent = p
      OBVIOUS
    <3>1. c # from /\ c \in Live /\ heap[c].parent = p
      <4>1. c # from
        BY <1>16
      <4>2. PICK d \in 1..Len(heap[p].pointers) : c = heap[p].pointers[d]
        BY <1>16
      <4> QED
        BY <1>4, <1>14, <4>1, <4>2
    <3>2. ~Moved(c)
      BY <1>6, <1>9, <3>1
    <3> QED
      BY <1>5, <1>11, <3>1, <3>2
  <2>2. ASSUME NEW x \in LiveInner \ {p, to, from}
        PROVE  /\ Distinct(heap'[x].pointers)
               /\ \A j \in 1..Len(heap'[x].pointers) :
                    heap'[x].pointers[j] \in Live \ {from} /\ heap'[heap'[x].pointers[j]].parent = x
    <3>1. heap'[x].pointers = heap[x].pointers
      BY <1>5, <1>11
    <3>2. ASSUME NEW j \in 1..Len(heap[x].pointers), NEW c, c = heap[x].pointers[j]
          PROVE  c \in Live \ {from} /\ heap'[c].parent = x
      <4>1. c \in Live /\ heap[c].parent = x
        BY <1>14, <3>2
      <4>2. c # from /\ ~Moved(c)
        BY <1>9, <1>15, <4>1
      <4> QED
        BY <1>5, <1>11, <4>1, <4>2
    <3> QED
      BY <1>14, <3>1, <3>2
  <2> QED
    BY <1>5, <1>7, <1>16, <1>18, <2>1, <2>2 DEF ChildrenAgree
<1>20. ParentsPoint'
  <2> SUFFICES ASSUME NEW x \in Live \ {from}, x # root
               PROVE  /\ heap'[x].parent \in LiveInner \ {from}
                      /\ \E j \in 1..Len(heap'[heap'[x].parent].pointers) : heap'[heap'[x].parent].pointers[j] = x
    BY <1>3, <1>7 DEF ParentsPoint
  <2>1. CASE Moved(x)
    <3>1. heap'[x].parent = to /\ to \in LiveInner
      BY <1>5, <1>6, <1>11, <2>1 DEF Moved
    <3>2. \E j \in 1..Len(heap'[to].pointers) : heap'[to].pointers[j] = x
      BY <1>17, <2>1 DEF Moved
    <3> QED
      BY <1>6, <3>1, <3>2
  <2>2. CASE ~Moved(x)
    <3>1. /\ heap[x].parent \in LiveInner
          /\ \E j \in 1..Len(heap[heap[x].parent].pointers) : heap[heap[x].parent].pointers[j] = x
      BY <1>5 DEF ParentsPoint
    <3>2. heap[x].parent # from /\ heap'[x].parent = heap[x].parent
      BY <1>5, <1>10, <1>11, <2>2
    <3>3. \E j \in 1..Len(heap'[heap[x].parent].pointers) : heap'[heap[x].parent].pointers[j] = x
      <4>1. CASE heap[x].parent = p
        <5>1. PICK d \in 1..Len(heap[p].pointers) : heap[p].pointers[d] = x
          BY <3>1, <4>1
        <5>2. \E j \in 1..Len(heap'[p].pointers) : heap'[p].pointers[j] = heap[p].pointers[d]
          BY <1>16, <5>1
        <5> QED
          BY <4>1, <5>1, <5>2
      <4>2. CASE heap[x].parent = to
        BY <1>17, <3>1, <4>2
      <4>3. CASE heap[x].parent \notin {p, to}
        BY <1>5, <1>11, <3>1, <4>3
      <4> QED
        BY <4>1, <4>2, <4>3
    <3> QED
      BY <3>1, <3>2, <3>3
  <2> QED
    BY <2>1, <2>2
<1>21. RootSound' /\ CallSound'
  <2>1. heap'[root].parent = Null /\ root \in Live \ {from}
    BY <1>5, <1>6, <1>9, <1>11
  <2> QED
    BY <1>3, <1>5, <1>6, <1>7, <2>1 DEF RootSound, CallSound
<1>22. Sizes'
  <2> SUFFICES ASSUME NEW x \in Live \ {from}
               PROVE  Len(heap'[x].keys) <= Order - 1 /\ Len(heap'[x].keys) + (IF x = p THEN 1 ELSE 0) >= Floor(x)'
    BY <1>3, <1>7 DEF Sizes
  <2>1. /\ Len(heap[x].keys) <= Order - 1
        /\ Len(heap[x].keys) + (IF x = a THEN 1 ELSE 0) >= Floor(x)
    BY <1>3, <1>4 DEF Shape, Sizes
  <2>2. /\ Floor(x) = (IF x = root THEN 1 ELSE MinKeys(heap[x]))
        /\ Floor(x)' = (IF x = root THEN 1 ELSE MinKeys(heap'[x]))
    BY <1>3, <1>5, <1>7 DEF Floor
  <2>3. MinKeys(heap'[x]) = MinKeys(heap[x]) /\ MinKeys(heap[x]) \in Nat
    <3>1. TypedNode(x, heap'[x]) /\ TypedNode(x, heap[x])
      BY <1>1, <1>3, <1>5, NodeFacts DEF NodesTyped
    <3>2. heap'[x].leaf <=> x \in LeafAddresses
      BY <3>1, TypedNodeFacts
    <3>3. heap[x].leaf <=> x \in LeafAddresses
      BY <3>1, TypedNodeFacts
    <3>4. MinKeys(heap'[x]) = MinKeys(heap[x])
      BY <3>2, <3>3 DEF MinKeys
    <3> QED
      BY <3>4, MinKeysFacts
  <2>4. CASE x = p
    <3>1. Len(heap'[p].keys) = Len(heap[p].keys) - 1
      BY <1>2 DEF Coalesced, TakenOut
    <3>2. Len(heap'[x].keys) = Len(heap[x].keys) - 1 /\ Len(heap[x].keys) \in Nat /\ x # a
      BY <1>4, <1>13, <2>4, <3>1
    <3> QED
      BY <2>1, <2>2, <2>3, <2>4, <3>2, TreeAssumption
  <2>5. CASE x = to
    <3>1. /\ Len(heap[to].keys) + Len(heap[from].keys) < (IF to \in LeafAddresses THEN Order ELSE Order - 1)
          /\ Len(heap'[to].keys) = Len(heap[to].keys) + (IF to \in LeafAddresses THEN 0 ELSE 1) + Len(heap[from].keys)
          /\ Len(heap'[to].keys) \in Nat
      <4>1. /\ Len(heap[to].keys) + Len(heap[from].keys) < (IF to \in LeafAddresses THEN Order ELSE Order - 1)
            /\ to \in LeafAddresses => Len(heap'[to].keys) = Len(heap[to].keys) + Len(heap[from].keys)
            /\ to \notin LeafAddresses => Len(heap'[to].keys) = Len(heap[to].keys) + 1 + Len(heap[from].keys)
        BY <1>2 DEF Coalesced, Joined, Bridged
      <4> DEFINE c == Len(heap[to].keys)
                 d == Len(heap[from].keys)
                 e == Len(heap'[to].keys)
      <4>2. /\ c \in Nat /\ d \in Nat
            /\ to \in LeafAddresses => e = c + d
            /\ to \notin LeafAddresses => e = c + 1 + d
        BY <1>13, <4>1
      <4> HIDE DEF c, d, e
      <4>3. e = c + (IF to \in LeafAddresses THEN 0 ELSE 1) + d /\ e \in Nat
        BY <4>2
      <4> QED
        BY <4>1, <4>3 DEF c, d, e
    <3>2. MinKeys(heap[to]) = MinKeys(heap[a]) /\ MinKeys(heap[nb]) = MinKeys(heap[a])
      <4>1. /\ heap[a].leaf <=> a \in LeafAddresses
            /\ heap[nb].leaf <=> nb \in LeafAddresses
        BY <1>4, <1>5, NodeFacts
      <4> QED
        BY <1>3, <1>4, <4>1 DEF MinKeys
    <3>3. Len(heap[to].keys) >= MinKeys(heap[to]) \/ Len(heap[from].keys) >= MinKeys(heap[to])
      BY <1>3, <1>4, <3>2
    <3>4. Len(heap'[x].keys) <= Order - 1 /\ Len(heap'[x].keys) >= MinKeys(heap[x])
      <4> DEFINE m == MinKeys(heap[to])
                 c == Len(heap[to].keys)
                 d == Len(heap[from].keys)
                 e == Len(heap'[to].keys)
      <4>1. /\ m \in Nat /\ c \in Nat /\ d \in Nat /\ Order \in Nat
            /\ c + d < (IF to \in LeafAddresses THEN Order ELSE Order - 1)
            /\ e = c + (IF to \in LeafAddresses THEN 0 ELSE 1) + d
            /\ c >= m \/ d >= m
        BY <1>13, <2>3, <2>5, <3>1, <3>3, TreeAssumption
      <4> HIDE DEF m, c, d, e
      <4>2. e <= Order - 1 /\ e >= m
        BY <4>1
      <4> QED
        BY <2>5, <4>2 DEF m, e
    <3>5. Floor(x)' = MinKeys(heap[x]) /\ x # p
      BY <1>6, <2>2, <2>3, <2>5
    <3>6. Len(heap'[x].keys) \in Nat
      BY <2>5, <3>1
    <3> QED
      BY <2>3, <3>4, <3>5, <3>6
  <2>6. CASE x \notin {p, to}
    <3>1. x # a /\ heap'[x].keys = heap[x].keys
      BY <1>5, <1>6, <1>11, <2>6
    <3> QED
      BY <2>1, <2>2, <2>3, <2>6, <3>1
  <2> QED
    BY <2>4, <2>5, <2>6
<1>23. \E h \in [DOMAIN heap' -> Nat] : Graded(h)'
  <2>1. PICK h \in [DOMAIN heap -> Nat] : Graded(h)
    BY DEF Shape
  <2>2. \A x \in LiveInner : \A j \in 1..Len(heap[x].pointers) : h[heap[x].pointers[j]] + 1 = h[x]
    BY <2>1 DEF Graded
  <2>3. h[to] = h[from]
    <3>1. h[to] + 1 = h[p] /\ h[from] + 1 = h[p]
      BY <1>4, <1>12, <1>13, <2>2
    <3>2. h[to] \in Nat /\ h[from] \in Nat
      BY <1>5, <1>6, <2>1
    <3> QED
      BY <3>1, <3>2
  <2>4. \A x \in LiveInner \ {from} : \A j \in 1..Len(heap'[x].pointers) : h[heap'[x].pointers[j]] + 1 = h[x]
    <3> SUFFICES ASSUME NEW x \in LiveInner \ {from}, NEW j \in 1..Len(heap'[x].pointers), NEW c, c = heap'[x].pointers[j]
                 PROVE  h[c] + 1 = h[x]
      OBVIOUS
    <3>1. CASE x = p
      <4>1. PICK d \in 1..Len(heap[p].pointers) : c = heap[p].pointers[d]
        BY <1>16, <3>1
      <4>2. h[heap[p].pointers[d]] + 1 = h[p]
        BY <1>4, <2>2
      <4> QED
        BY <3>1, <4>1, <4>2
    <3>2. CASE x = to
      <4>1. from \in LiveInner
        BY <1>5, <1>6, <3>2
      <4>2. \/ \E d \in 1..Len(heap[to].pointers) : c = heap[to].pointers[d]
            \/ \E d \in 1..Len(heap[from].pointers) : c = heap[from].pointers[d]
        BY <1>17, <3>2
      <4> QED
        BY <2>2, <2>3, <3>2, <4>1, <4>2
    <3>3. CASE x \notin {p, to}
      BY <1>5, <1>11, <2>2, <3>3
    <3> QED
      BY <3>1, <3>2, <3>3
  <2>5. Graded(h)'
    BY <1>3, <1>7, <2>1, <2>4 DEF Graded
  <2> QED
    BY <1>3, <2>1, <2>5
<1> QED
  BY <1>1, <1>19, <1>20, <1>21, <1>22, <1>23 DEF Shape

\* An entry that moves between two neighbours, from either side.
LEMMA RedistributedKeepsShape ==
    ASSUME Shape, TypeOK', NodesTyped(heap'),
           NEW a, NEW nb, NEW p, NEW q, NEW u, NEW v, NEW w, NEW z, NEW e, NEW c, NEW s,
           Redistributed(a, nb, p, q, u, v, w, z, e, c, s)
    PROVE  Shape'
<1> DEFINE Moved(x) == a \notin LeafAddresses /\ x = c
<1>1. /\ Repairing /\ todo' = NoCall /\ root' = root /\ DOMAIN heap' = Live
      /\ Len(heap[a].keys) < MinKeys(heap[a]) /\ Len(heap[nb].keys) >= MinKeys(heap[nb]) + 1
      /\ \A x \in {a, nb, p} : heap'[x].parent = heap[x].parent
  BY DEF Redistributed
<1>2. /\ a = todo.node /\ a \in Live /\ nb \in Live /\ p \in LiveInner /\ a # nb
      /\ a # root /\ nb # root /\ p # a /\ p # nb
      /\ a \in LeafAddresses <=> nb \in LeafAddresses
      /\ q \in 1..Len(heap[p].keys) /\ Len(heap[p].pointers) = Len(heap[p].keys) + 1
      /\ Len(heap[a].keys) + 1 >= MinKeys(heap[a])
      /\ \A x \in {a, nb} \cap LiveInner : \A j \in 1..Len(heap[x].pointers) :
           /\ heap[x].pointers[j] \in Live /\ heap[heap[x].pointers[j]].parent = x
           /\ heap[x].pointers[j] \notin {a, nb, p}
  BY DEF Redistributed, Pair
<1>3. /\ ~Splitting /\ Dead = todo.dead /\ Unlinked = {}
      /\ Live = DOMAIN heap \ todo.dead /\ LiveInner = Live \ LeafAddresses
      /\ root \in Live /\ root # Null /\ heap[root].parent = Null /\ Live \subseteq DOMAIN heap
      /\ TypeOK /\ ChildrenAgree /\ ParentsPoint /\ p \in Live
  BY <1>1, <1>2, RepairingFacts DEF Shape
<1>4. /\ ~Splitting' /\ ~Repairing' /\ Unlinked' = {} /\ Live' = Live /\ LiveInner' = LiveInner
  BY <1>1, <1>3 DEF NoCall, Splitting, Repairing, Dead, Unlinked, Live, LiveInner
<1>5. /\ heap'[p].pointers = heap[p].pointers /\ Len(heap'[p].keys) = Len(heap[p].keys)
      /\ \A x \in Live \ {a, nb, p} :
           /\ Moved(x) => heap'[x] = Node(heap[x].leaf, heap[x].keys, heap[x].pointers, a, heap[x].next)
           /\ ~Moved(x) => heap'[x] = heap[x]
  BY DEF Redistributed
<1>6. /\ v \in 1..(Len(heap[a].pointers) + 1) /\ z \in 1..Len(heap[nb].pointers) /\ c = heap[nb].pointers[z]
      /\ PutIn(heap'[a].pointers, heap[a].pointers, v, c)
      /\ TakenOut(heap'[nb].pointers, heap[nb].pointers, z)
      /\ Len(heap'[a].keys) = Len(heap[a].keys) + 1 /\ Len(heap'[nb].keys) = Len(heap[nb].keys) - 1
  BY DEF Redistributed, PutIn, TakenOut
<1>7. /\ Len(heap[a].pointers) \in Nat /\ Len(heap[nb].pointers) \in Nat
      /\ Len(heap[a].keys) \in Nat /\ Len(heap[nb].keys) \in Nat
  BY <1>2, <1>3, NodeFacts
<1>8. \A x : Moved(x) => /\ x \in Live /\ x \notin {a, nb, p, root} /\ heap[x].parent = nb
                         /\ a \in LiveInner /\ nb \in LiveInner
  <2> SUFFICES ASSUME NEW x, Moved(x)
               PROVE  /\ x \in Live /\ x \notin {a, nb, p, root} /\ heap[x].parent = nb
                      /\ a \in LiveInner /\ nb \in LiveInner
    OBVIOUS
  <2>1. nb # Null
    BY <1>2, <1>3, NodeFacts
  <2>2. a \in LiveInner /\ nb \in LiveInner
    BY <1>2, <1>3
  <2>3. x \in Live /\ heap[x].parent = nb /\ x \notin {a, nb, p}
    BY <1>2, <1>6, <2>2
  <2> QED
    BY <1>3, <2>1, <2>2, <2>3
<1>9. a \notin LeafAddresses => Moved(c)
  OBVIOUS
<1> HIDE DEF Moved
<1>10. /\ \A x \in Live : /\ Moved(x) => heap'[x].parent = a
                          /\ ~Moved(x) => heap'[x].parent = heap[x].parent
       /\ \A x \in Live \ {a, nb, p} :
            heap'[x].pointers = heap[x].pointers /\ heap'[x].keys = heap[x].keys
  BY <1>1, <1>5, <1>8 DEF Node
<1>11. \A x \in LiveInner :
         /\ Distinct(heap[x].pointers)
         /\ \A j \in 1..Len(heap[x].pointers) : heap[x].pointers[j] \in Live /\ heap[heap[x].pointers[j]].parent = x
  BY <1>3 DEF ChildrenAgree
<1>12. /\ \A j \in 1..Len(heap'[a].pointers) :
            heap'[a].pointers[j] = c \/ \E d \in 1..Len(heap[a].pointers) : heap'[a].pointers[j] = heap[a].pointers[d]
       /\ \A d \in 1..Len(heap[a].pointers) :
            \E j \in 1..Len(heap'[a].pointers) : heap'[a].pointers[j] = heap[a].pointers[d]
       /\ \E j \in 1..Len(heap'[a].pointers) : heap'[a].pointers[j] = c
  <2> DEFINE f == heap[a].pointers
             t == heap'[a].pointers
  <2>1. Len(f) \in Nat /\ v \in 1..(Len(f) + 1) /\ PutIn(t, f, v, c)
    BY <1>6, <1>7
  <2> HIDE DEF f, t
  <2>2. /\ t[v] = c
        /\ \A j \in 1..Len(f) : t[IF j < v THEN j ELSE j + 1] = f[j]
        /\ \A j \in 1..Len(t) :
            \/ j = v
            \/ j < v /\ j \in 1..Len(f) /\ t[j] = f[j]
            \/ j > v /\ j - 1 \in 1..Len(f) /\ t[j] = f[j - 1]
        /\ Len(t) = Len(f) + 1
    BY <2>1, PutInElements DEF PutIn
  <2>3. \A j \in 1..Len(f) : (IF j < v THEN j ELSE j + 1) \in 1..Len(t)
    BY <2>1, <2>2
  <2>4. \A j \in 1..Len(t) : t[j] = c \/ \E d \in 1..Len(f) : t[j] = f[d]
    BY <2>2
  <2>5. \A d \in 1..Len(f) : \E j \in 1..Len(t) : t[j] = f[d]
    BY <2>2, <2>3
  <2>6. \E j \in 1..Len(t) : t[j] = c
    BY <2>1, <2>2
  <2> QED
    BY <2>4, <2>5, <2>6 DEF f, t
<1>13. /\ \A j \in 1..Len(heap'[nb].pointers) :
            \E d \in 1..Len(heap[nb].pointers) : heap'[nb].pointers[j] = heap[nb].pointers[d]
       /\ \A d \in 1..Len(heap[nb].pointers) : heap[nb].pointers[d] # c =>
            \E j \in 1..Len(heap'[nb].pointers) : heap'[nb].pointers[j] = heap[nb].pointers[d]
       /\ nb \in LiveInner =>
            Distinct(heap'[nb].pointers) /\ \A j \in 1..Len(heap'[nb].pointers) : heap'[nb].pointers[j] # c
  <2> DEFINE f == heap[nb].pointers
             t == heap'[nb].pointers
  <2>1. /\ Len(f) \in Nat /\ z \in 1..Len(f) /\ TakenOut(t, f, z) /\ f[z] = c
        /\ nb \in LiveInner => Distinct(f)
    BY <1>6, <1>7, <1>11
  <2> HIDE DEF f, t
  <2>2. nb \in LiveInner => Distinct(t) /\ \A j \in 1..Len(t) : t[j] # f[z]
    BY <2>1, DistinctKept
  <2>3. /\ \A j \in 1..Len(f) : j # z => t[IF j < z THEN j ELSE j - 1] = f[j]
        /\ \A j \in 1..Len(t) : t[j] = f[IF j < z THEN j ELSE j + 1]
        /\ Len(t) = Len(f) - 1
    BY ZenonT(30), <2>1, TakenOutElements DEF TakenOut
  <2>4. \A j \in 1..Len(t) : \E d \in 1..Len(f) : t[j] = f[d]
    <3> SUFFICES ASSUME NEW j \in 1..Len(t) PROVE \E d \in 1..Len(f) : t[j] = f[d]
      OBVIOUS
    <3>1. (IF j < z THEN j ELSE j + 1) \in 1..Len(f)
      BY <2>1, <2>3
    <3> QED
      BY <2>3, <3>1
  <2>5. \A d \in 1..Len(f) : f[d] # c => \E j \in 1..Len(t) : t[j] = f[d]
    <3> SUFFICES ASSUME NEW d \in 1..Len(f), f[d] # c PROVE \E j \in 1..Len(t) : t[j] = f[d]
      OBVIOUS
    <3>1. d # z
      BY <2>1
    <3>2. (IF d < z THEN d ELSE d - 1) \in 1..Len(t)
      BY <2>1, <2>3, <3>1
    <3> QED
      BY <2>3, <3>1, <3>2
  <2> QED
    BY <2>1, <2>2, <2>4, <2>5 DEF f, t
<1>14. ChildrenAgree'
  <2>1. a \in LiveInner =>
          /\ Distinct(heap'[a].pointers)
          /\ \A j \in 1..Len(heap'[a].pointers) :
               heap'[a].pointers[j] \in Live /\ heap'[heap'[a].pointers[j]].parent = a
    <3> SUFFICES ASSUME a \in LiveInner
                 PROVE  /\ Distinct(heap'[a].pointers)
                        /\ \A j \in 1..Len(heap'[a].pointers) :
                             heap'[a].pointers[j] \in Live /\ heap'[heap'[a].pointers[j]].parent = a
      OBVIOUS
    <3>1. Moved(c)
      BY <1>3, <1>9
    <3>2. Distinct(heap'[a].pointers)
      <4> DEFINE f == heap[a].pointers
                 t == heap'[a].pointers
      <4>1. Len(f) \in Nat /\ v \in 1..(Len(f) + 1) /\ PutIn(t, f, v, c) /\ Distinct(f)
        BY <1>6, <1>7, <1>11
      <4>2. \A j \in 1..Len(f) : f[j] # c
        BY <1>2, <1>8, <1>11, <3>1
      <4> HIDE DEF f, t
      <4>3. Distinct(t)
        BY <4>1, <4>2, DistinctKept
      <4> QED
        BY <4>3 DEF t
    <3>3. ASSUME NEW j \in 1..Len(heap'[a].pointers), NEW d, d = heap'[a].pointers[j]
          PROVE  d \in Live /\ heap'[d].parent = a
      <4>1. d = c \/ \E i \in 1..Len(heap[a].pointers) : d = heap[a].pointers[i]
        BY <1>12, <3>3
      <4>2. CASE d = c
        BY <1>8, <1>10, <3>1, <4>2
      <4>3. CASE \E i \in 1..Len(heap[a].pointers) : d = heap[a].pointers[i]
        <5>1. d \in Live /\ heap[d].parent = a
          BY <1>11, <4>3
        <5>2. ~Moved(d)
          BY <1>2, <1>8, <5>1
        <5> QED
          BY <1>10, <5>1, <5>2
      <4> QED
        BY <4>1, <4>2, <4>3
    <3> QED
      BY <3>2, <3>3
  <2>2. ASSUME nb \in LiveInner, NEW j \in 1..Len(heap'[nb].pointers), NEW d, d = heap'[nb].pointers[j]
        PROVE  d \in Live /\ heap'[d].parent = nb
    <3>1. d # c /\ \E i \in 1..Len(heap[nb].pointers) : d = heap[nb].pointers[i]
      BY <1>13, <2>2
    <3>2. d \in Live /\ heap[d].parent = nb
      BY <1>11, <2>2, <3>1
    <3>3. ~Moved(d)
      BY <3>1 DEF Moved
    <3> QED
      BY <1>10, <3>2, <3>3
  <2>3. ASSUME NEW x \in LiveInner \ {a, nb}
        PROVE  /\ Distinct(heap'[x].pointers)
               /\ \A j \in 1..Len(heap'[x].pointers) :
                    heap'[x].pointers[j] \in Live /\ heap'[heap'[x].pointers[j]].parent = x
    <3>1. heap'[x].pointers = heap[x].pointers
      BY <1>3, <1>5, <1>10
    <3>2. ASSUME NEW j \in 1..Len(heap[x].pointers), NEW d, d = heap[x].pointers[j]
          PROVE  d \in Live /\ heap'[d].parent = x
      <4>1. d \in Live /\ heap[d].parent = x
        BY <1>11, <3>2
      <4>2. ~Moved(d)
        BY <1>8, <4>1
      <4> QED
        BY <1>10, <4>1, <4>2
    <3> QED
      BY <1>11, <3>1, <3>2
  <2> QED
    BY <1>4, <1>13, <2>1, <2>2, <2>3 DEF ChildrenAgree
<1>15. ParentsPoint'
  <2> SUFFICES ASSUME NEW x \in Live, x # root
               PROVE  /\ heap'[x].parent \in LiveInner
                      /\ \E j \in 1..Len(heap'[heap'[x].parent].pointers) : heap'[heap'[x].parent].pointers[j] = x
    BY <1>1, <1>4 DEF ParentsPoint
  <2>1. CASE Moved(x)
    <3>1. heap'[x].parent = a /\ a \in LiveInner /\ x = c
      BY <1>8, <1>10, <2>1 DEF Moved
    <3>2. \E j \in 1..Len(heap'[a].pointers) : heap'[a].pointers[j] = x
      BY <1>12, <3>1
    <3> QED
      BY <3>1, <3>2
  <2>2. CASE ~Moved(x)
    <3>1. /\ heap[x].parent \in LiveInner
          /\ \E j \in 1..Len(heap[heap[x].parent].pointers) : heap[heap[x].parent].pointers[j] = x
      BY <1>3 DEF ParentsPoint
    <3>2. heap'[x].parent = heap[x].parent
      BY <1>10, <2>2
    <3>3. \E j \in 1..Len(heap'[heap[x].parent].pointers) : heap'[heap[x].parent].pointers[j] = x
      <4>1. CASE heap[x].parent = a
        BY <1>12, <3>1, <4>1
      <4>2. CASE heap[x].parent = nb
        <5>1. x # c
          BY <1>2, <1>3, <1>9, <2>2, <3>1, <4>2
        <5> QED
          BY SMTT(30), <1>13, <3>1, <4>2, <5>1
      <4>3. CASE heap[x].parent \notin {a, nb}
        <5>1. heap'[heap[x].parent].pointers = heap[heap[x].parent].pointers
          BY <1>3, <1>5, <1>10, <3>1, <4>3
        <5> QED
          BY <3>1, <5>1
      <4> QED
        BY <4>1, <4>2, <4>3
    <3> QED
      BY <3>1, <3>2, <3>3
  <2> QED
    BY <2>1, <2>2
<1>16. RootSound' /\ CallSound'
  <2>1. heap'[root].parent = Null
    BY <1>3, <1>8, <1>10
  <2> QED
    BY <1>1, <1>3, <1>4, <2>1 DEF RootSound, CallSound
<1>17. Sizes'
  <2> SUFFICES ASSUME NEW x \in Live
               PROVE  Len(heap'[x].keys) <= Order - 1 /\ Len(heap'[x].keys) + 0 >= Floor(x)'
    BY <1>4 DEF Sizes
  <2>1. /\ Len(heap[x].keys) <= Order - 1
        /\ Len(heap[x].keys) + (IF x = a THEN 1 ELSE 0) >= Floor(x)
    BY <1>1, <1>2 DEF Shape, Sizes
  <2>2. /\ Floor(x) = (IF x = root THEN 1 ELSE MinKeys(heap[x]))
        /\ Floor(x)' = (IF x = root THEN 1 ELSE MinKeys(heap'[x]))
    BY <1>1, <1>3, <1>4 DEF Floor
  <2>3. MinKeys(heap'[x]) = MinKeys(heap[x]) /\ MinKeys(heap[x]) \in Nat /\ MinKeys(heap[x]) <= Order - 1
    <3>1. TypedNode(x, heap'[x]) /\ TypedNode(x, heap[x])
      BY <1>1, <1>3, NodeFacts DEF NodesTyped
    <3>2. heap'[x].leaf <=> x \in LeafAddresses
      BY <3>1, TypedNodeFacts
    <3>3. heap[x].leaf <=> x \in LeafAddresses
      BY <3>1, TypedNodeFacts
    <3>4. MinKeys(heap'[x]) = MinKeys(heap[x])
      BY <3>2, <3>3 DEF MinKeys
    <3> QED
      BY <3>4, MinKeysFacts
  <2>4. Len(heap[x].keys) \in Nat /\ Order \in Nat
    BY <1>3, NodeFacts, TreeAssumption
  <2>5. CASE x = a
    <3>1. /\ Len(heap'[x].keys) = Len(heap[x].keys) + 1 /\ Len(heap[x].keys) < MinKeys(heap[x])
          /\ Len(heap[x].keys) + 1 >= MinKeys(heap[x]) /\ Floor(x)' = MinKeys(heap[x])
      BY <1>1, <1>2, <1>6, <2>2, <2>3, <2>5
    <3> QED
      BY <2>3, <2>4, <3>1
  <2>6. CASE x = nb
    <3>1. /\ Len(heap'[x].keys) = Len(heap[x].keys) - 1 /\ Len(heap[x].keys) >= MinKeys(heap[x]) + 1
          /\ Floor(x)' = MinKeys(heap[x])
      BY <1>1, <1>2, <1>6, <2>2, <2>3, <2>6
    <3> QED
      BY <2>1, <2>3, <2>4, <3>1
  <2>7. CASE x \notin {a, nb}
    <3>1. Len(heap'[x].keys) = Len(heap[x].keys)
      BY <1>5, <1>10, <2>7
    <3> QED
      BY <2>1, <2>2, <2>3, <2>4, <2>7, <3>1
  <2> QED
    BY <2>5, <2>6, <2>7
<1>18. \E h \in [DOMAIN heap' -> Nat] : Graded(h)'
  <2>1. PICK g \in [DOMAIN heap -> Nat] : Graded(g)
    BY DEF Shape
  <2>2. PICK h \in [DOMAIN heap' -> Nat] : \A x \in Live : h[x] = g[x]
    <3>1. Live \subseteq DOMAIN heap
      BY <1>3
    <3>2. \E h \in [Live -> Nat] : \A x \in Live : h[x] = g[x]
      BY <2>1, <3>1, GradesLeft
    <3> QED
      BY <1>1, <3>2
  <2>3. \A x \in LiveInner : \A j \in 1..Len(heap[x].pointers) : h[heap[x].pointers[j]] + 1 = h[x]
    <3> SUFFICES ASSUME NEW x \in LiveInner, NEW j \in 1..Len(heap[x].pointers)
                 PROVE  h[heap[x].pointers[j]] + 1 = h[x]
      OBVIOUS
    <3>1. g[heap[x].pointers[j]] + 1 = g[x] /\ heap[x].pointers[j] \in Live
      BY <1>11, <2>1 DEF Graded
    <3> QED
      BY <1>3, <2>2, <3>1
  <2>4. a \in LiveInner => h[c] + 1 = h[a]
    <3> SUFFICES ASSUME a \in LiveInner PROVE h[c] + 1 = h[a]
      OBVIOUS
    <3>1. h[c] + 1 = h[nb]
      BY <1>2, <1>3, <1>6, <2>3
    <3>2. h[a] = h[nb]
      <4>1. /\ heap[p].pointers[q] \in {a, nb} /\ heap[p].pointers[q + 1] \in {a, nb}
            /\ heap[p].pointers[q] # heap[p].pointers[q + 1]
        BY ZenonT(30), <1>2 DEF Redistributed, Pair
      <4>2. q \in 1..Len(heap[p].pointers) /\ q + 1 \in 1..Len(heap[p].pointers)
        <5>1. Len(heap[p].keys) \in Nat
          BY <1>3, NodeFacts
        <5> QED
          BY <1>2, <5>1
      <4>3. h[heap[p].pointers[q]] + 1 = h[p] /\ h[heap[p].pointers[q + 1]] + 1 = h[p]
        BY <1>2, <2>3, <4>2
      <4>4. h[a] \in Nat /\ h[nb] \in Nat /\ h[a] + 1 = h[p] /\ h[nb] + 1 = h[p]
        BY <1>1, <1>2, <2>2, <4>1, <4>3
      <4> QED
        BY <4>4
    <3> QED
      BY <3>1, <3>2
  <2>5. \A x \in LiveInner : \A j \in 1..Len(heap'[x].pointers) : h[heap'[x].pointers[j]] + 1 = h[x]
    <3> SUFFICES ASSUME NEW x \in LiveInner, NEW j \in 1..Len(heap'[x].pointers), NEW d, d = heap'[x].pointers[j]
                 PROVE  h[d] + 1 = h[x]
      OBVIOUS
    <3>1. CASE x = a
      <4>1. d = c \/ \E i \in 1..Len(heap[a].pointers) : d = heap[a].pointers[i]
        BY <1>12, <3>1
      <4> QED
        BY <2>3, <2>4, <3>1, <4>1
    <3>2. CASE x = nb
      <4>1. PICK i \in 1..Len(heap[nb].pointers) : d = heap[nb].pointers[i]
        BY <1>13, <3>2
      <4>2. h[heap[nb].pointers[i]] + 1 = h[nb]
        BY <2>3, <3>2
      <4> QED
        BY <3>2, <4>1, <4>2
    <3>3. CASE x \notin {a, nb}
      <4>1. heap'[x].pointers = heap[x].pointers
        BY <1>3, <1>5, <1>10, <3>3
      <4> QED
        BY <2>3, <4>1
    <3> QED
      BY <3>1, <3>2, <3>3
  <2>6. Graded(h)'
    BY <1>1, <1>3, <1>4, <2>1, <2>2, <2>5 DEF Graded
  <2> QED
    BY <2>2, <2>6
<1> QED
  BY <1>14, <1>15, <1>16, <1>17, <1>18 DEF Shape

\* redistribute_nodes keeps the shape.
LEMMA RedistributeKeepsShape ==
    ASSUME Shape, RedistributeFromLeft \/ RedistributeFromRight
    PROVE  Shape'
<1>1. CASE RedistributeFromLeft
  BY <1>1, RedistributeFromLeftStep, RedistributedKeepsShape
<1>2. CASE RedistributeFromRight
  BY <1>2, RedistributeFromRightStep, RedistributedKeepsShape
<1> QED
  BY <1>1, <1>2

-----------------------------------------------------------------------------
(* The tree keeps its shape                                                *)

\* The tree has its shape in every state, whatever is inserted and deleted.
THEOREM ShapeKept == Spec => []Shape
<1>1. Init => Shape
  <2> SUFFICES ASSUME Init PROVE Shape
    OBVIOUS
  <2>1. DOMAIN heap = {} /\ root = Null /\ todo = NoCall /\ records = {}
    BY DEF Init
  <2>2. TypeOK
    BY <2>1, FS_EmptySet DEF Init, TypeOK, Calls
  <2>3. Live = {} /\ LiveInner = {} /\ ~Splitting /\ ~Repairing
    BY <2>1 DEF NoCall, Splitting, Repairing, Dead, Live, LiveInner
  <2>4. ChildrenAgree /\ ParentsPoint /\ RootSound /\ CallSound /\ Sizes
    BY <2>1, <2>3 DEF ChildrenAgree, ParentsPoint, RootSound, CallSound, Sizes
  <2>5. [x \in DOMAIN heap |-> 0] \in [DOMAIN heap -> Nat]
    OBVIOUS
  <2>6. \A h : Graded(h)
    BY <2>3 DEF Graded
  <2> QED
    BY <2>2, <2>4, <2>5, <2>6 DEF Shape
<1>2. Shape /\ [Next]_vars => Shape'
  <2> SUFFICES ASSUME Shape, [Next]_vars PROVE Shape'
    OBVIOUS
  <2>1. CASE UNCHANGED vars
    <3>1. heap' = heap /\ root' = root /\ records' = records /\ todo' = todo
      BY <2>1 DEF vars
    <3>2. /\ Splitting' = Splitting /\ Repairing' = Repairing /\ Dead' = Dead /\ Unlinked' = Unlinked
          /\ Live' = Live /\ LiveInner' = LiveInner
      BY <3>1 DEF Splitting, Repairing, Dead, Unlinked, Live, LiveInner
    <3>3. TypeOK'
      BY <3>1 DEF Shape, TypeOK
    <3>4. ChildrenAgree' /\ ParentsPoint' /\ RootSound' /\ CallSound'
      BY <3>1, <3>2 DEF Shape, ChildrenAgree, ParentsPoint, RootSound, CallSound
    <3>5. Sizes'
      BY <3>1, <3>2 DEF Shape, Sizes, Floor
    <3>6. PICK h \in [DOMAIN heap -> Nat] : Graded(h)
      BY DEF Shape
    <3>7. Graded(h)'
      BY <3>1, <3>2, <3>6 DEF Graded
    <3> QED
      BY <3>1, <3>3, <3>4, <3>5, <3>6, <3>7 DEF Shape
  <2>2. ASSUME NEW k \in Keys, NEW v \in Versions[k],
               InsertDuplicate(k, v) \/ StartNewTree(k, v) \/ InsertIntoLeaf(k, v) \/ SplitLeaf(k, v)
        PROVE  Shape'
    BY <2>2, InsertDuplicateKeepsShape, StartNewTreeKeepsShape, InsertIntoLeafKeepsShape, SplitLeafKeepsShape
  <2>3. CASE InsertIntoNewRoot \/ InsertIntoNode \/ SplitNode
    BY <2>3, InsertIntoNewRootKeepsShape, InsertIntoNodeKeepsShape, SplitNodeKeepsShape
  <2>4. CASE \E k \in Keys : Delete(k)
    BY <2>4, DeleteKeepsShape
  <2>5. CASE KeepNode \/ AdjustRoot \/ Coalesce
    BY <2>5, KeepNodeKeepsShape, AdjustRootKeepsShape, CoalesceKeepsShape
  <2>6. CASE RedistributeFromLeft \/ RedistributeFromRight
    BY <2>6, RedistributeKeepsShape
  <2>7. CASE DestroyTree
    BY <2>7, DestroyTreeKeepsShape
  <2> QED
    BY <2>1, <2>2, <2>3, <2>4, <2>5, <2>6, <2>7 DEF Next
<1> QED
  BY <1>1, <1>2, PTL DEF Spec

\* The nodes, the records and the call under way have their types.
THEOREM TreeTypes == Spec => []TypeOK
<1>1. Shape => TypeOK
  BY DEF Shape
<1> QED
  BY <1>1, ShapeKept, PTL

\* The only place of an element in a sequence without repetitions.
LEMMA OnePlace ==
    ASSUME NEW S, NEW s \in Seq(S), Distinct(s), NEW x, \E i \in 1..Len(s) : s[i] = x
    PROVE  Cardinality({i \in DOMAIN s : s[i] = x}) = 1
<1>1. PICK i \in 1..Len(s) : s[i] = x
  OBVIOUS
<1>2. \A j \in 1..Len(s) : s[j] = x => j = i
  BY <1>1 DEF Distinct
<1>3. \A j : j \in {j1 \in DOMAIN s : s[j1] = x} <=> j \in {i}
  BY <1>1, <1>2, ElementsOf
<1>4. {j1 \in DOMAIN s : s[j1] = x} = {i}
  BY <1>3
<1> QED
  BY <1>4, FS_Singleton

\* Between calls child and parent pointers agree and no node is left over or
\* missing, whatever has been split, merged and redistributed.
THEOREM ParentsAlwaysAgree == Spec => []ParentsAgree
<1>1. Shape => ParentsAgree
  <2> SUFFICES ASSUME Shape, todo = NoCall
               PROVE  /\ (DOMAIN heap = {}) <=> (root = Null)
                      /\ \A a \in DOMAIN heap :
                          IF a = root THEN heap[a].parent = Null
                          ELSE /\ heap[a].parent \in Inner
                               /\ Cardinality({i \in DOMAIN heap[heap[a].parent].pointers :
                                                  heap[heap[a].parent].pointers[i] = a}) = 1
                      /\ \A a \in Inner : \A i \in DOMAIN heap[a].pointers :
                          /\ heap[a].pointers[i] \in DOMAIN heap
                          /\ heap[heap[a].pointers[i]].parent = a
    BY DEF ParentsAgree
  <2>1. /\ Live = DOMAIN heap /\ LiveInner = DOMAIN heap \ LeafAddresses /\ Unlinked = {}
        /\ TypeOK /\ ChildrenAgree /\ ParentsPoint /\ RootSound
    BY BetweenCalls DEF Shape
  <2>2. \A a \in DOMAIN heap : heap[a].leaf <=> a \in LeafAddresses
    BY <2>1, NodeFacts
  <2>3. Inner = LiveInner
    BY <2>1, <2>2 DEF Inner, Leaves
  <2>4. (DOMAIN heap = {}) <=> (root = Null)
    BY <2>1 DEF RootSound
  <2>5. ASSUME NEW a \in Inner
        PROVE  heap[a].pointers \in Seq(Addresses) /\ DOMAIN heap[a].pointers = 1..Len(heap[a].pointers)
               /\ Distinct(heap[a].pointers)
    <3>1. heap[a].pointers \in Seq(Addresses)
      BY <2>1, <2>3, NodeFacts
    <3> QED
      BY <2>1, <2>3, <3>1, ElementsOf DEF ChildrenAgree
  <2>6. ASSUME NEW a \in DOMAIN heap, a # root
        PROVE  /\ heap[a].parent \in Inner
               /\ Cardinality({i \in DOMAIN heap[heap[a].parent].pointers :
                                  heap[heap[a].parent].pointers[i] = a}) = 1
    <3>1. /\ heap[a].parent \in Inner
          /\ \E i \in 1..Len(heap[heap[a].parent].pointers) : heap[heap[a].parent].pointers[i] = a
      BY <2>1, <2>3, <2>6 DEF ParentsPoint
    <3> DEFINE s == heap[heap[a].parent].pointers
    <3>2. s \in Seq(Addresses) /\ Distinct(s) /\ \E i \in 1..Len(s) : s[i] = a
      BY <2>5, <3>1
    <3> HIDE DEF s
    <3>3. Cardinality({i \in DOMAIN s : s[i] = a}) = 1
      BY <3>2, OnePlace
    <3> QED
      BY <3>1, <3>3 DEF s
  <2>7. \A a \in DOMAIN heap : a = root => heap[a].parent = Null
    BY <2>1, NodeFacts DEF RootSound
  <2>8. ASSUME NEW a \in Inner, NEW i \in DOMAIN heap[a].pointers
        PROVE  heap[a].pointers[i] \in DOMAIN heap /\ heap[heap[a].pointers[i]].parent = a
    BY <2>1, <2>3, <2>5 DEF ChildrenAgree
  <2> QED
    BY <2>4, <2>6, <2>7, <2>8
<1> QED
  BY <1>1, ShapeKept, PTL

\* How far below the root a node is, by the heights of the nodes.
LEMMA DepthByHeight ==
    ASSUME Shape, todo = NoCall, NEW h \in [DOMAIN heap -> Nat], Graded(h), NEW a \in DOMAIN heap
    PROVE  Depth(a) = h[root] - h[a]
<1> DEFINE D == DOMAIN heap
           d == [b \in D |-> h[root] - h[b]]
           Right(f) == f = [b \in D |-> IF heap[b].parent = Null THEN 0 ELSE 1 + f[heap[b].parent]]
<1>1. /\ TypeOK /\ ParentsPoint /\ ChildrenAgree /\ RootSound
      /\ Live = D /\ LiveInner = D \ LeafAddresses /\ Unlinked = {}
  BY BetweenCalls DEF Shape
<1>2. root \in D /\ heap[root].parent = Null
  BY <1>1 DEF RootSound
<1>3. \A b \in D : h[b] \in Nat /\ h[b] <= h[root]
  BY <1>1 DEF Graded
<1>4. ASSUME NEW b \in D, heap[b].parent # Null
      PROVE  heap[b].parent \in D /\ h[heap[b].parent] = h[b] + 1
  <2>1. b # root
    BY <1>2, <1>4
  <2>2. PICK i \in 1..Len(heap[heap[b].parent].pointers) : heap[heap[b].parent].pointers[i] = b
    BY <1>1, <2>1 DEF ParentsPoint
  <2>3. heap[b].parent \in LiveInner
    BY <1>1, <2>1 DEF ParentsPoint
  <2>4. h[heap[heap[b].parent].pointers[i]] + 1 = h[heap[b].parent]
    BY <2>2, <2>3 DEF Graded
  <2> QED
    BY <1>1, <2>2, <2>3, <2>4
<1>5. ASSUME NEW b \in D, heap[b].parent = Null PROVE b = root
  <2>1. b # root => heap[b].parent \in LiveInner
    BY <1>1 DEF ParentsPoint
  <2>2. Null \notin LiveInner
    BY <1>1, TreeAssumption DEF TypeOK
  <2> QED
    BY <1>5, <2>1, <2>2
<1>6. Right(d)
  <2>1. ASSUME NEW b \in D
        PROVE  d[b] = IF heap[b].parent = Null THEN 0 ELSE 1 + d[heap[b].parent]
    <3>1. CASE heap[b].parent = Null
      BY <1>2, <1>3, <1>5, <3>1
    <3>2. CASE heap[b].parent # Null
      <4> DEFINE p == heap[b].parent
      <4>1. p \in D /\ h[p] = h[b] + 1 /\ h[b] \in Nat /\ h[p] \in Nat /\ h[root] \in Nat
        BY <1>2, <1>3, <1>4, <3>2
      <4> HIDE DEF p
      <4>2. d[b] = h[root] - h[b] /\ d[p] = h[root] - h[p]
        BY <4>1
      <4>3. d[b] = 1 + d[p]
        BY <4>1, <4>2
      <4> QED
        BY <3>2, <4>3 DEF p
    <3> QED
      BY <3>1, <3>2
  <2> QED
    BY <2>1
<1> DEFINE up == CHOOSE f : Right(f)
<1>7. Right(up)
  <2> HIDE DEF Right, d
  <2> QED
    BY <1>6
<1>8. Depth(a) = up[a]
  BY DEF Depth
<1>9. \A b \in D : up[b] = IF heap[b].parent = Null THEN 0 ELSE 1 + up[heap[b].parent]
  BY <1>7
<1> HIDE DEF up
<1>10. {b \in D : up[b] = h[root] - h[b]} = D
  <2> DEFINE T == {b \in D : up[b] = h[root] - h[b]}
             g == [b \in D |-> h[root] - h[b]]
  <2>1. g \in [D -> Nat]
    BY <1>2, <1>3
  <2>2. ASSUME NEW b \in D, \A c \in D : g[c] < g[b] => c \in T PROVE b \in T
    <3>1. CASE heap[b].parent = Null
      BY <1>2, <1>3, <1>5, <1>9, <3>1
    <3>2. CASE heap[b].parent # Null
      <4> DEFINE p == heap[b].parent
      <4>1. p \in D /\ h[p] = h[b] + 1 /\ h[b] \in Nat /\ h[p] \in Nat /\ h[root] \in Nat /\ up[b] = 1 + up[p]
        BY <1>2, <1>3, <1>4, <1>9, <3>2
      <4> HIDE DEF p
      <4>2. g[p] < g[b]
        BY <4>1
      <4>3. up[p] = h[root] - h[p]
        BY <2>2, <4>1, <4>2
      <4> QED
        BY <4>1, <4>3
    <3> QED
      BY <3>1, <3>2
  <2>3. T \in SUBSET D
    OBVIOUS
  <2> HIDE DEF T, D, g
  <2>4. T = D
    BY <2>1, <2>2, <2>3, MeasureInduction
  <2> QED
    BY <2>4 DEF T
<1> QED
  BY <1>8, <1>10

\* Between calls every node but the root is at least half full, none holds more
\* than its arrays have room for, and the leaves are equally far from the root.
THEOREM AlwaysBalanced == Spec => []Balanced
<1>1. Shape => Balanced
  <2> SUFFICES ASSUME Shape, todo = NoCall
               PROVE  /\ \A a \in DOMAIN heap :
                          /\ Len(heap[a].keys) <= Order - 1
                          /\ IF a = root THEN Len(heap[a].keys) >= 1
                             ELSE IF heap[a].leaf THEN 2 * Len(heap[a].keys) >= Order - 1
                             ELSE 2 * Len(heap[a].pointers) >= Order
                      /\ Cardinality({Depth(a) : a \in Leaves}) <= 1
    BY DEF Balanced
  <2>1. /\ ~Splitting /\ ~Repairing /\ Live = DOMAIN heap /\ TypeOK /\ Sizes
    BY BetweenCalls DEF Shape
  <2>2. ASSUME NEW a \in DOMAIN heap
        PROVE  /\ Len(heap[a].keys) <= Order - 1
               /\ IF a = root THEN Len(heap[a].keys) >= 1
                  ELSE IF heap[a].leaf THEN 2 * Len(heap[a].keys) >= Order - 1
                  ELSE 2 * Len(heap[a].pointers) >= Order
    <3> DEFINE n == Len(heap[a].keys)
               least == MinKeys(heap[a])
    <3>1. n \in Nat /\ Len(heap[a].pointers) = IF heap[a].leaf THEN n ELSE n + 1
      BY <2>1, NodeFacts
    <3>2. n <= Order - 1 /\ n >= IF a = root THEN 1 ELSE least
      BY <2>1, <3>1, MinKeysFacts DEF Sizes, Floor
    <3>3. Order \in Nat /\ Order >= 3 /\ Order - 1 \in Nat
      BY TreeAssumption
    <3>4. cut(Order) \in Nat /\ 2 * cut(Order) >= Order
      BY <3>3, Halves
    <3>5. cut(Order - 1) \in Nat /\ 2 * cut(Order - 1) >= Order - 1
      BY <3>3, Halves
    <3>6. least = IF heap[a].leaf THEN cut(Order - 1) ELSE cut(Order) - 1
      BY DEF MinKeys
    <3> HIDE DEF n, least, cut
    <3> DEFINE m == Len(heap[a].pointers)
    <3>7. m = IF heap[a].leaf THEN n ELSE n + 1
      BY <3>1
    <3> HIDE DEF m
    <3>8. a # root => IF heap[a].leaf THEN 2 * n >= Order - 1 ELSE 2 * m >= Order
      BY <3>1, <3>2, <3>3, <3>4, <3>5, <3>6, <3>7
    <3> QED
      BY <3>2, <3>8 DEF n, m
  <2>3. Cardinality({Depth(a) : a \in Leaves}) <= 1
    <3>1. PICK h \in [DOMAIN heap -> Nat] : Graded(h)
      BY DEF Shape
    <3>2. ASSUME NEW a \in Leaves PROVE Depth(a) = h[root]
      <4>1. a \in DOMAIN heap /\ a \in LeafAddresses
        BY <2>1, NodeFacts DEF Leaves
      <4>2. h[a] = 0 /\ root \in DOMAIN heap
        BY <2>1, <3>1, <4>1 DEF Graded, Shape, RootSound
      <4>3. Depth(a) = h[root] - h[a]
        BY <3>1, <4>1, DepthByHeight
      <4>4. h[root] \in Nat
        BY <4>2
      <4> QED
        BY <4>2, <4>3, <4>4
    <3>3. CASE Leaves = {}
      <4>1. {Depth(a) : a \in Leaves} = {}
        BY <3>3
      <4> QED
        BY <4>1, FS_EmptySet
    <3>4. CASE Leaves # {}
      <4>1. {Depth(a) : a \in Leaves} = {h[root]}
        BY <3>2, <3>4
      <4>2. Cardinality({h[root]}) = 1
        BY FS_Singleton
      <4> QED
        BY <4>1, <4>2
    <3> QED
      BY <3>3, <3>4
  <2> QED
    BY <2>2, <2>3
<1> QED
  BY <1>1, ShapeKept, PTL
=============================================================================
