------------------------------ MODULE BPlusTree ------------------------------
(***************************************************************************)
(* BPlusTree.cpp: the B+ tree in memory under the Merkle tree, its nodes   *)
(* allocated with malloc and linked by pointers.  One action per function  *)
(* of the code; the calls that are still to return are in "todo".          *)
(*                                                                         *)
(* A node's keys and pointers are sequences of the length num_keys gives   *)
(* them; the last pointer of a leaf, which links it to the next leaf, is   *)
(* the field next.                                                         *)
(***************************************************************************)
EXTENDS Naturals, FiniteSets, Sequences, SequencesExt

CONSTANTS
    Order,        \* order: the most children a node may have
    LeafAddresses,     \* the addresses malloc may return for a leaf
    InnerAddresses,    \* and for another node
    Keys,         \* block numbers
    Versions,     \* the records made for each key; a key that has several may
                  \* be inserted while the tree holds it
    Null

Addresses == LeafAddresses \cup InnerAddresses
Record(k, v) == <<k, v>>
Pairs == UNION {{Record(k, v) : v \in Versions[k]} : k \in Keys}

ASSUME TreeAssumption ==
    /\ Order \in Nat /\ Order >= 3
    /\ Addresses \subseteq Nat /\ Keys \subseteq Nat
    /\ LeafAddresses \cap InnerAddresses = {}
    /\ Null \notin Addresses /\ Null \notin Pairs
    /\ DOMAIN Versions = Keys /\ \A k \in Keys : IsFiniteSet(Versions[k])

VARIABLES
    heap,      \* the allocated nodes
    root,      \* the root, or Null
    records,   \* the records not freed
    todo       \* the call under way: nothing, a split to put into the parent,
               \* or a node to repair after a deletion

vars == <<heap, root, records, todo>>

NoCall == [call |-> "none"]

-----------------------------------------------------------------------------
(* Nodes                                                                   *)

Node(leaf, keys, pointers, parent, next) ==
    [leaf |-> leaf, keys |-> keys, pointers |-> pointers, parent |-> parent, next |-> next]

\* Mutant: a half, rounded down.
cut_floor(length) == length \div 2

\* cut: half of a length, rounded up.
cut(length) == (length + 1) \div 2

\* The fewest keys delete_entry leaves a node that is not the root.
MinKeys(n) == IF n.leaf THEN cut(Order - 1) ELSE cut(Order) - 1

\* malloc returns some free address, and without one the program exits.  Which
\* one does not matter, as the code compares addresses only for equality: it is
\* the smallest of those set apart for leaves and for inner nodes, so that fewer
\* states differ in names alone.
Smallest(addresses) == CHOOSE a \in addresses : \A b \in addresses : a <= b
FreeLeaves(h) == LeafAddresses \ DOMAIN h
FreeInner(h)  == InnerAddresses \ DOMAIN h
make_leaf(h)  == Smallest(FreeLeaves(h))
make_node(h)  == Smallest(FreeInner(h))

With(h, a, n) == [b \in DOMAIN h \cup {a} |-> IF b = a THEN n ELSE h[b]]
Without(h, dead) == [b \in DOMAIN h \ dead |-> h[b]]

\* The same heap with the parent pointer of the nodes kids set.
Adopt(h, kids, p) == [b \in DOMAIN h |-> IF b \in kids THEN [h[b] EXCEPT !.parent = p] ELSE h[b]]

Leaves == {a \in DOMAIN heap : heap[a].leaf}

\* How many keys at the front of a node's keys satisfy a test.
Leading(keys, Test(_)) ==
    Cardinality({i \in DOMAIN keys : \A j \in 1..i : Test(keys[j])})

IndexOf(seq, x) == CHOOSE i \in DOMAIN seq : seq[i] = x

\* Mutant: a key equal to a separator is looked for on its left.
find_leaf_right(k) ==
    LET down[c \in DOMAIN heap] ==
            IF heap[c].leaf THEN c
            ELSE LET AtMost(x) == x < k IN
                 down[heap[c].pointers[Leading(heap[c].keys, AtMost) + 1]]
    IN  IF root = Null THEN Null ELSE down[root]

\* find_leaf: the leaf that holds a key if the tree does.
find_leaf(k) ==
    LET down[c \in DOMAIN heap] ==
            IF heap[c].leaf THEN c
            ELSE LET AtMost(x) == x <= k IN
                 down[heap[c].pointers[Leading(heap[c].keys, AtMost) + 1]]
    IN  IF root = Null THEN Null ELSE down[root]

\* find: the record of a key.
find(k) ==
    LET leaf == find_leaf(k) IN
    IF leaf # Null /\ \E i \in DOMAIN heap[leaf].keys : heap[leaf].keys[i] = k
    THEN heap[leaf].pointers[IndexOf(heap[leaf].keys, k)] ELSE Null

\* Mutant: the first key of a leaf further on is passed by.
find_range_second(start, end) ==
    LET Small(x) == x < start
        Large(x) == x <= end
        Taken(leaf, from) == SubSeq(heap[leaf].keys, from + 1, Leading(heap[leaf].keys, Large))
        walk[n \in Leaves \cup {Null}] ==
            IF n = Null THEN <<>> ELSE Taken(n, 1) \o walk[heap[n].next]
        first == find_leaf(start)
    IN  IF first = Null \/ Leading(heap[first].keys, Small) = Len(heap[first].keys) THEN <<>>
        ELSE Taken(first, Leading(heap[first].keys, Small)) \o walk[heap[first].next]

\* find_range: the keys it returns for a range, in order.
find_range(start, end) ==
    LET Small(x) == x < start
        Large(x) == x <= end
        Taken(leaf, from) == SubSeq(heap[leaf].keys, from + 1, Leading(heap[leaf].keys, Large))
        walk[n \in Leaves \cup {Null}] ==
            IF n = Null THEN <<>> ELSE Taken(n, 0) \o walk[heap[n].next]
        first == find_leaf(start)
    IN  IF first = Null \/ Leading(heap[first].keys, Small) = Len(heap[first].keys) THEN <<>>
        ELSE Taken(first, Leading(heap[first].keys, Small)) \o walk[heap[first].next]

Init ==
    /\ heap = [a \in {} |-> Null]
    /\ root = Null
    /\ records = {}
    /\ todo = NoCall

-----------------------------------------------------------------------------
(* Insertion                                                               *)

\* insert of a key the tree holds: the old record is deleted, the pointer to
\* it in the leaf stays.
InsertDuplicate(k, v) ==
    /\ todo = NoCall
    /\ find(k) # Null /\ Record(k, v) \notin records
    /\ records' = (records \ {find(k)}) \cup {Record(k, v)}
    /\ UNCHANGED <<heap, root, todo>>

\* start_new_tree
StartNewTree(k, v) ==
    /\ todo = NoCall /\ root = Null /\ FreeLeaves(heap) # {}
    /\ LET a == make_leaf(heap) IN
       /\ heap' = With(heap, a, Node(TRUE, <<k>>, <<Record(k, v)>>, Null, Null))
       /\ root' = a
    /\ records' = records \cup {Record(k, v)}
    /\ UNCHANGED todo

\* Where a key goes among the keys of a leaf, from 1.
InsertionPoint(keys, k) == LET Less(x) == x < k IN Leading(keys, Less) + 1

\* Mutant: the pointers are not moved to make room for the new one.
InsertIntoLeafAtEnd(k, v) ==
    /\ todo = NoCall /\ root # Null /\ find(k) = Null
    /\ LET a == find_leaf(k)
           i == InsertionPoint(heap[a].keys, k) IN
       /\ Len(heap[a].keys) < Order - 1
       /\ heap' = [heap EXCEPT ![a].keys = InsertAt(@, i, k),
                               ![a].pointers = Append(@, Record(k, v))]
    /\ records' = records \cup {Record(k, v)}
    /\ UNCHANGED <<root, todo>>

\* insert_into_leaf
InsertIntoLeaf(k, v) ==
    /\ todo = NoCall /\ root # Null /\ find(k) = Null
    /\ LET a == find_leaf(k)
           i == InsertionPoint(heap[a].keys, k) IN
       /\ Len(heap[a].keys) < Order - 1
       /\ heap' = [heap EXCEPT ![a].keys = InsertAt(@, i, k),
                               ![a].pointers = InsertAt(@, i, Record(k, v))]
    /\ records' = records \cup {Record(k, v)}
    /\ UNCHANGED <<root, todo>>

\* Mutant: the new leaf does not get the link of the leaf it was split from.
SplitLeafUnlinked(k, v) ==
    /\ todo = NoCall /\ root # Null /\ find(k) = Null /\ FreeLeaves(heap) # {}
    /\ LET a == find_leaf(k)
           n == heap[a]
           b == make_leaf(heap)
           i == InsertionPoint(n.keys, k)
           keys     == InsertAt(n.keys, i, k)
           pointers == InsertAt(n.pointers, i, Record(k, v))
           split    == cut(Order - 1)
           left  == Node(TRUE, SubSeq(keys, 1, split), SubSeq(pointers, 1, split), n.parent, b)
           right == Node(TRUE, SubSeq(keys, split + 1, Order),
                         SubSeq(pointers, split + 1, Order), n.parent, Null)
       IN
       /\ Len(n.keys) >= Order - 1
       /\ heap' = With(With(heap, a, left), b, right)
       /\ todo' = [call |-> "insert_into_parent", left |-> a, key |-> right.keys[1], right |-> b]
    /\ records' = records \cup {Record(k, v)}
    /\ UNCHANGED root

\* insert_into_leaf_after_splitting
SplitLeaf(k, v) ==
    /\ todo = NoCall /\ root # Null /\ find(k) = Null /\ FreeLeaves(heap) # {}
    /\ LET a == find_leaf(k)
           n == heap[a]
           b == make_leaf(heap)
           i == InsertionPoint(n.keys, k)
           keys     == InsertAt(n.keys, i, k)
           pointers == InsertAt(n.pointers, i, Record(k, v))
           split    == cut(Order - 1)
           left  == Node(TRUE, SubSeq(keys, 1, split), SubSeq(pointers, 1, split), n.parent, b)
           right == Node(TRUE, SubSeq(keys, split + 1, Order),
                         SubSeq(pointers, split + 1, Order), n.parent, n.next)
       IN
       /\ Len(n.keys) >= Order - 1
       /\ heap' = With(With(heap, a, left), b, right)
       /\ todo' = [call |-> "insert_into_parent", left |-> a, key |-> right.keys[1], right |-> b]
    /\ records' = records \cup {Record(k, v)}
    /\ UNCHANGED root

\* insert_into_new_root
InsertIntoNewRoot ==
    /\ todo.call = "insert_into_parent" /\ heap[todo.left].parent = Null
    /\ FreeInner(heap) # {}
    /\ LET a == make_node(heap) IN
       /\ heap' = Adopt(With(heap, a, Node(FALSE, <<todo.key>>, <<todo.left, todo.right>>, Null, Null)),
                        {todo.left, todo.right}, a)
       /\ root' = a
    /\ todo' = NoCall
    /\ UNCHANGED records

\* insert_into_node
InsertIntoNode ==
    /\ todo.call = "insert_into_parent" /\ heap[todo.left].parent # Null
    /\ LET p == heap[todo.left].parent
           i == IndexOf(heap[p].pointers, todo.left) IN
       /\ Len(heap[p].keys) < Order - 1
       /\ heap' = [heap EXCEPT ![p].keys = InsertAt(@, i, todo.key),
                               ![p].pointers = InsertAt(@, i + 1, todo.right)]
    /\ todo' = NoCall
    /\ UNCHANGED <<root, records>>

\* Mutant: the key that moves up is kept on the left, too.
SplitNodeKeepsMiddle ==
    /\ todo.call = "insert_into_parent" /\ heap[todo.left].parent # Null
    /\ FreeInner(heap) # {}
    /\ LET p == heap[todo.left].parent
           n == heap[p]
           b == make_node(heap)
           i == IndexOf(n.pointers, todo.left)
           keys     == InsertAt(n.keys, i, todo.key)
           pointers == InsertAt(n.pointers, i + 1, todo.right)
           split    == cut(Order)
           left  == Node(FALSE, SubSeq(keys, 1, split), SubSeq(pointers, 1, split), n.parent, Null)
           right == Node(FALSE, SubSeq(keys, split + 1, Order),
                         SubSeq(pointers, split + 1, Order + 1), n.parent, Null)
       IN
       /\ Len(n.keys) >= Order - 1
       /\ heap' = Adopt(With(With(heap, p, left), b, right), ToSet(right.pointers), b)
       /\ todo' = [call |-> "insert_into_parent", left |-> p, key |-> keys[split], right |-> b]
    /\ UNCHANGED <<root, records>>

\* Mutant: the children of the new node keep the old one as their parent.
SplitNodeNoAdopt ==
    /\ todo.call = "insert_into_parent" /\ heap[todo.left].parent # Null
    /\ FreeInner(heap) # {}
    /\ LET p == heap[todo.left].parent
           n == heap[p]
           b == make_node(heap)
           i == IndexOf(n.pointers, todo.left)
           keys     == InsertAt(n.keys, i, todo.key)
           pointers == InsertAt(n.pointers, i + 1, todo.right)
           split    == cut(Order)
           left  == Node(FALSE, SubSeq(keys, 1, split - 1), SubSeq(pointers, 1, split), n.parent, Null)
           right == Node(FALSE, SubSeq(keys, split + 1, Order),
                         SubSeq(pointers, split + 1, Order + 1), n.parent, Null)
       IN
       /\ Len(n.keys) >= Order - 1
       /\ heap' = With(With(heap, p, left), b, right)
       /\ todo' = [call |-> "insert_into_parent", left |-> p, key |-> keys[split], right |-> b]
    /\ UNCHANGED <<root, records>>

\* insert_into_node_after_splitting
SplitNode ==
    /\ todo.call = "insert_into_parent" /\ heap[todo.left].parent # Null
    /\ FreeInner(heap) # {}
    /\ LET p == heap[todo.left].parent
           n == heap[p]
           b == make_node(heap)
           i == IndexOf(n.pointers, todo.left)
           keys     == InsertAt(n.keys, i, todo.key)
           pointers == InsertAt(n.pointers, i + 1, todo.right)
           split    == cut(Order)
           left  == Node(FALSE, SubSeq(keys, 1, split - 1), SubSeq(pointers, 1, split), n.parent, Null)
           right == Node(FALSE, SubSeq(keys, split + 1, Order),
                         SubSeq(pointers, split + 1, Order + 1), n.parent, Null)
       IN
       /\ Len(n.keys) >= Order - 1
       /\ heap' = Adopt(With(With(heap, p, left), b, right), ToSet(right.pointers), b)
       /\ todo' = [call |-> "insert_into_parent", left |-> p, key |-> keys[split], right |-> b]
    /\ UNCHANGED <<root, records>>

-----------------------------------------------------------------------------
(* Deletion                                                                *)

\* remove_entry_from_node
RemoveEntry(n, key, pointer) ==
    [n EXCEPT !.keys = RemoveAt(@, IndexOf(@, key)),
              !.pointers = RemoveAt(@, IndexOf(@, pointer))]

\* del: delete_entry starts at the leaf; the record is freed.
Delete(k) ==
    /\ todo = NoCall /\ find(k) # Null
    /\ LET a == find_leaf(k) IN
       /\ heap' = [heap EXCEPT ![a] = RemoveEntry(@, k, find(k))]
       /\ todo' = [call |-> "delete_entry", node |-> a, dead |-> {}]
    /\ records' = records \ {find(k)}
    /\ UNCHANGED root

\* delete_entry for a node that remains big enough.
KeepNode ==
    /\ todo.call = "delete_entry" /\ todo.node # root
    /\ Len(heap[todo.node].keys) >= MinKeys(heap[todo.node])
    /\ heap' = Without(heap, todo.dead)
    /\ todo' = NoCall
    /\ UNCHANGED <<root, records>>

\* Mutant: the promoted child still has the old root as its parent.
AdjustRootKeepsParent ==
    /\ todo.call = "delete_entry" /\ todo.node = root
    /\ LET n == heap[root] IN
       \/ /\ n.keys # <<>>
          /\ heap' = Without(heap, todo.dead)
          /\ UNCHANGED root
       \/ /\ n.keys = <<>> /\ ~n.leaf
          /\ root' = n.pointers[1]
          /\ heap' = Without(heap, todo.dead \cup {root})
       \/ /\ n.keys = <<>> /\ n.leaf
          /\ root' = Null
          /\ heap' = Without(heap, todo.dead \cup {root})
    /\ todo' = NoCall
    /\ UNCHANGED records

\* adjust_root
AdjustRoot ==
    /\ todo.call = "delete_entry" /\ todo.node = root
    /\ LET n == heap[root] IN
       \/ /\ n.keys # <<>>
          /\ heap' = Without(heap, todo.dead)
          /\ UNCHANGED root
       \/ /\ n.keys = <<>> /\ ~n.leaf
          /\ root' = n.pointers[1]
          /\ heap' = Without(Adopt(heap, {n.pointers[1]}, Null), todo.dead \cup {root})
       \/ /\ n.keys = <<>> /\ n.leaf
          /\ root' = Null
          /\ heap' = Without(heap, todo.dead \cup {root})
    /\ todo' = NoCall
    /\ UNCHANGED records

\* The node under repair is too small; where it is in its parent (from 1),
\* the neighbour it is mended with and the index of the key between the two.
TooSmall ==
    /\ todo.call = "delete_entry" /\ todo.node # root
    /\ Len(heap[todo.node].keys) < MinKeys(heap[todo.node])
ParentOf(a)      == heap[heap[a].parent]
PositionOf(a)    == IndexOf(ParentOf(a).pointers, a)
NeighborOf(a)    == ParentOf(a).pointers[IF PositionOf(a) = 1 THEN 2 ELSE PositionOf(a) - 1]
KPrimeIndexOf(a) == IF PositionOf(a) = 1 THEN 1 ELSE PositionOf(a) - 1
KPrimeOf(a)      == ParentOf(a).keys[KPrimeIndexOf(a)]
Capacity(n)      == IF n.leaf THEN Order ELSE Order - 1

\* Mutant: the left leaf keeps its link to the leaf that was emptied into it.
CoalesceUnlinked ==
    /\ TooSmall
    /\ LET a  == todo.node
           nb == NeighborOf(a)
           to   == IF PositionOf(a) = 1 THEN a ELSE nb
           from == IF PositionOf(a) = 1 THEN nb ELSE a
           p  == heap[a].parent
           merged ==
             IF heap[a].leaf
             THEN [heap[to] EXCEPT !.keys = @ \o heap[from].keys,
                                   !.pointers = @ \o heap[from].pointers]
             ELSE [heap[to] EXCEPT !.keys = @ \o <<KPrimeOf(a)>> \o heap[from].keys,
                                   !.pointers = @ \o heap[from].pointers]
           kids == IF heap[a].leaf THEN {} ELSE ToSet(merged.pointers)
       IN
       /\ Len(heap[a].keys) + Len(heap[nb].keys) < Capacity(heap[a])
       /\ heap' = [Adopt([heap EXCEPT ![to] = merged], kids, to)
                     EXCEPT ![p] = RemoveEntry(@, KPrimeOf(a), from)]
       /\ todo' = [todo EXCEPT !.node = p, !.dead = @ \cup {from}]
    /\ UNCHANGED <<root, records>>

\* coalesce_nodes: the right one of the two is emptied into the left one; it
\* is freed when the delete_entry on its parent has returned.
Coalesce ==
    /\ TooSmall
    /\ LET a  == todo.node
           nb == NeighborOf(a)
           to   == IF PositionOf(a) = 1 THEN a ELSE nb
           from == IF PositionOf(a) = 1 THEN nb ELSE a
           p  == heap[a].parent
           merged ==
             IF heap[a].leaf
             THEN [heap[to] EXCEPT !.keys = @ \o heap[from].keys,
                                   !.pointers = @ \o heap[from].pointers,
                                   !.next = heap[from].next]
             ELSE [heap[to] EXCEPT !.keys = @ \o <<KPrimeOf(a)>> \o heap[from].keys,
                                   !.pointers = @ \o heap[from].pointers]
           kids == IF heap[a].leaf THEN {} ELSE ToSet(merged.pointers)
       IN
       /\ Len(heap[a].keys) + Len(heap[nb].keys) < Capacity(heap[a])
       /\ heap' = [Adopt([heap EXCEPT ![to] = merged], kids, to)
                     EXCEPT ![p] = RemoveEntry(@, KPrimeOf(a), from)]
       /\ todo' = [todo EXCEPT !.node = p, !.dead = @ \cup {from}]
    /\ UNCHANGED <<root, records>>

\* Mutant: the key between the two nodes is not updated.
RedistributeFromLeftSameKey ==
    /\ TooSmall
    /\ LET a  == todo.node
           nb == NeighborOf(a)
           n  == heap[a]
           m  == heap[nb]
           last == m.pointers[Len(m.pointers)]
           moved == [n EXCEPT !.keys = <<IF n.leaf THEN m.keys[Len(m.keys)] ELSE KPrimeOf(a)>> \o @,
                              !.pointers = <<last>> \o @]
       IN
       /\ PositionOf(a) # 1
       /\ Len(n.keys) + Len(m.keys) >= Capacity(n)
       /\ heap' = Without(
            [Adopt(heap, IF n.leaf THEN {} ELSE {last}, a)
                EXCEPT ![a] = moved,
                       ![nb].keys = Front(@), ![nb].pointers = Front(@)],
            todo.dead)
    /\ todo' = NoCall
    /\ UNCHANGED <<root, records>>

\* redistribute_nodes with the left neighbour: its last entry moves over.
RedistributeFromLeft ==
    /\ TooSmall
    /\ LET a  == todo.node
           nb == NeighborOf(a)
           n  == heap[a]
           m  == heap[nb]
           last == m.pointers[Len(m.pointers)]
           moved == [n EXCEPT !.keys = <<IF n.leaf THEN m.keys[Len(m.keys)] ELSE KPrimeOf(a)>> \o @,
                              !.pointers = <<last>> \o @]
       IN
       /\ PositionOf(a) # 1
       /\ Len(n.keys) + Len(m.keys) >= Capacity(n)
       /\ heap' = Without(
            [Adopt(heap, IF n.leaf THEN {} ELSE {last}, a)
                EXCEPT ![a] = moved,
                       ![nb].keys = Front(@), ![nb].pointers = Front(@),
                       ![n.parent].keys[KPrimeIndexOf(a)] = m.keys[Len(m.keys)]],
            todo.dead)
    /\ todo' = NoCall
    /\ UNCHANGED <<root, records>>

\* Mutant: the neighbour's second pointer moves over.
RedistributeFromRightSecond ==
    /\ TooSmall
    /\ LET a  == todo.node
           nb == NeighborOf(a)
           n  == heap[a]
           m  == heap[nb]
           first == m.pointers[2]
           moved == [n EXCEPT !.keys = Append(@, IF n.leaf THEN m.keys[1] ELSE KPrimeOf(a)),
                              !.pointers = Append(@, first)]
       IN
       /\ PositionOf(a) = 1
       /\ Len(n.keys) + Len(m.keys) >= Capacity(n)
       /\ heap' = Without(
            [Adopt(heap, IF n.leaf THEN {} ELSE {first}, a)
                EXCEPT ![a] = moved,
                       ![nb].keys = Tail(@), ![nb].pointers = Tail(@),
                       ![n.parent].keys[1] = IF n.leaf THEN m.keys[2] ELSE m.keys[1]],
            todo.dead)
    /\ todo' = NoCall
    /\ UNCHANGED <<root, records>>

\* redistribute_nodes with the right neighbour: its first entry moves over.
RedistributeFromRight ==
    /\ TooSmall
    /\ LET a  == todo.node
           nb == NeighborOf(a)
           n  == heap[a]
           m  == heap[nb]
           first == m.pointers[1]
           moved == [n EXCEPT !.keys = Append(@, IF n.leaf THEN m.keys[1] ELSE KPrimeOf(a)),
                              !.pointers = Append(@, first)]
       IN
       /\ PositionOf(a) = 1
       /\ Len(n.keys) + Len(m.keys) >= Capacity(n)
       /\ heap' = Without(
            [Adopt(heap, IF n.leaf THEN {} ELSE {first}, a)
                EXCEPT ![a] = moved,
                       ![nb].keys = Tail(@), ![nb].pointers = Tail(@),
                       ![n.parent].keys[1] = IF n.leaf THEN m.keys[2] ELSE m.keys[1]],
            todo.dead)
    /\ todo' = NoCall
    /\ UNCHANGED <<root, records>>

\* destroy_tree
DestroyTree ==
    /\ todo = NoCall /\ root # Null
    /\ heap' = [a \in {} |-> Null] /\ root' = Null
    /\ records' = records \ UNION {ToSet(heap[a].pointers) : a \in {b \in DOMAIN heap : heap[b].leaf}}
    /\ UNCHANGED todo

Next ==
    \/ \E k \in Keys : \E v \in Versions[k] :
          InsertDuplicate(k, v) \/ StartNewTree(k, v) \/ InsertIntoLeaf(k, v) \/ SplitLeaf(k, v)
    \/ InsertIntoNewRoot \/ InsertIntoNode \/ SplitNode
    \/ \E k \in Keys : Delete(k)
    \/ KeepNode \/ AdjustRoot \/ Coalesce \/ RedistributeFromLeft \/ RedistributeFromRight
    \/ DestroyTree

Spec == Init /\ [][Next]_vars

-----------------------------------------------------------------------------
(* What the tree promises between calls                                    *)

Inner  == DOMAIN heap \ Leaves
Stored == UNION {ToSet(heap[a].pointers) : a \in Leaves}

\* How many steps a node is below the root.
Depth(a) ==
    LET up[b \in DOMAIN heap] == IF heap[b].parent = Null THEN 0 ELSE 1 + up[heap[b].parent]
    IN  up[a]

\* The keys of a leaf and of the leaves linked after it.
KeysFrom(a) ==
    LET walk[b \in Leaves \cup {Null}] ==
            IF b = Null THEN <<>> ELSE heap[b].keys \o walk[heap[b].next]
    IN  walk[a]

\* The leftmost leaf.
FirstLeaf ==
    LET down[c \in DOMAIN heap] == IF heap[c].leaf THEN c ELSE down[heap[c].pointers[1]]
    IN  IF root = Null THEN Null ELSE down[root]

NodesOf(leaf, pointers) ==
    [leaf : {leaf}, keys : Seq(Keys), pointers : Seq(pointers),
     parent : Addresses \cup {Null}, next : Addresses \cup {Null}]

Calls ==
    {NoCall}
    \cup [call : {"insert_into_parent"}, left : Addresses, key : Keys, right : Addresses]
    \cup [call : {"delete_entry"}, node : Addresses, dead : SUBSET Addresses]

\* Type correctness of the nodes, the records and the call under way; a leaf
\* has a record for each key, an inner node one child more than it has keys.
TypeOK ==
    /\ IsFiniteSet(DOMAIN heap) /\ DOMAIN heap \subseteq Addresses
    /\ heap = [a \in DOMAIN heap |-> heap[a]]
    /\ \A a \in DOMAIN heap :
        IF a \in LeafAddresses
        THEN heap[a] \in NodesOf(TRUE, Pairs) /\ Len(heap[a].pointers) = Len(heap[a].keys)
        ELSE heap[a] \in NodesOf(FALSE, Addresses) /\ Len(heap[a].pointers) = Len(heap[a].keys) + 1
    /\ root \in DOMAIN heap \cup {Null}
    /\ records \subseteq Pairs
    /\ todo \in Calls

\* Nothing is lost, leaked or left dangling: find, which trusts the keys of
\* the inner nodes, finds each record of the leaves, after any sequence of
\* splits, merges and redistributions; and of the keys never inserted again
\* while the tree held them, the leaves point to just the records allocated.
EveryRecordFound ==
    todo = NoCall =>
        /\ \A r \in Stored : find(r[1]) = r
        /\ \A r \in Stored \cup records :
              Cardinality(Versions[r[1]]) = 1 => r \in Stored \cap records

\* Every node but the root is at least half full and none holds more than its
\* arrays were allocated for.  Every path from the root is equally long.
Balanced ==
    todo = NoCall =>
        /\ \A a \in DOMAIN heap :
            /\ Len(heap[a].keys) <= Order - 1
            /\ IF a = root THEN Len(heap[a].keys) >= 1
               ELSE IF heap[a].leaf THEN 2 * Len(heap[a].keys) >= Order - 1
               ELSE 2 * Len(heap[a].pointers) >= Order
        /\ Cardinality({Depth(a) : a \in Leaves}) <= 1

\* Child and parent pointers agree: a node's parent has exactly one pointer
\* to it, a child's parent is the node, only the root has no parent, and no
\* node is freed while it is pointed to or left allocated when it is not.
ParentsAgree ==
    todo = NoCall =>
        /\ (DOMAIN heap = {}) <=> (root = Null)
        /\ \A a \in DOMAIN heap :
            IF a = root THEN heap[a].parent = Null
            ELSE /\ heap[a].parent \in Inner
                 /\ Cardinality({i \in DOMAIN heap[heap[a].parent].pointers :
                                    heap[heap[a].parent].pointers[i] = a}) = 1
        /\ \A a \in Inner : \A i \in DOMAIN heap[a].pointers :
            /\ heap[a].pointers[i] \in DOMAIN heap
            /\ heap[heap[a].pointers[i]].parent = a

\* The chain of the leaves, which find_range and the printing functions walk,
\* starts at the leftmost leaf and passes every key once, in order.
LeafChainAscends ==
    todo = NoCall =>
        LET keys == KeysFrom(FirstLeaf) IN
        /\ \A a \in Leaves : heap[a].next \in Leaves \cup {Null}
        /\ \A i \in 1..(Len(keys) - 1) : keys[i] < keys[i + 1]
        /\ ToSet(keys) = {r[1] : r \in Stored}

\* A range that begins at a key the tree holds yields every key it holds in
\* that range, and once, over as many leaves as it takes and whatever merged
\* and split them; a range that begins elsewhere yields these or none at all.
RangesFromHeldKeys ==
    todo = NoCall =>
        LET held == {r[1] : r \in Stored} IN
        \A from, to \in Keys : from <= to =>
            LET due   == {k \in held : from <= k /\ k <= to}
                found == find_range(from, to) IN
            \/ ToSet(found) = due /\ Len(found) = Cardinality(due)
            \/ found = <<>> /\ from \notin held

\* The items of the index: what the leaves pair.  A node that is to be freed
\* when the calls return repeats what was copied from it.
Items == UNION {{<<heap[a].keys[i], heap[a].pointers[i]>> : i \in DOMAIN heap[a].keys} : a \in Leaves}

Index == INSTANCE OrderedIndex WITH items <- Items

\* Each insertion adds its record and each deletion removes its record, in
\* the step that touches the leaf; the splits, merges and redistributions
\* that follow neither lose nor change an entry.
ImplementsIndex == Index!Spec

-----------------------------------------------------------------------------
(* What comments say and the code does not do                              *)

\* BPlusTree.cpp:458: find_range finds the keys that are present in the range.
RangeIsComplete ==
    todo = NoCall => \A from, to \in Keys :
        ToSet(find_range(from, to)) = {r[1] : r \in {s \in Stored : from <= s[1] /\ s[1] <= to}}

\* BPlusTree.cpp:911: a key that exists already has its value updated, so that
\* every record the tree points to is one that is allocated.
ValueUpdated == todo = NoCall => Stored \subseteq records
=============================================================================
