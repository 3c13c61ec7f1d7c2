------------------------- MODULE BPlusTreeInvariant -------------------------
(***************************************************************************)
(* What is true of the B+ tree in every state, in the middle of a call,    *)
(* too: the inductive invariants behind what BPlusTree promises between    *)
(* calls.  While a split is to be put into the parent, the new node on the *)
(* right is not linked; while a node is under repair it may have one key   *)
(* too few, and nodes emptied into their neighbours wait to be freed.      *)
(***************************************************************************)
EXTENDS BPlusTree

\* The call under way: a split to put into the parent, or a node to repair.
Splitting == todo.call = "insert_into_parent"
Repairing == todo.call = "delete_entry"

\* The nodes emptied into their neighbours, freed when the calls return.
Dead == IF Repairing THEN todo.dead ELSE {}

\* The right half of a split, which no node points to yet.
Unlinked == IF Splitting THEN {todo.right} ELSE {}

\* The nodes that are not to be freed, and the leaves and inner nodes of them.
Live       == DOMAIN heap \ Dead
LiveLeaves == Live \cap LeafAddresses
LiveInner  == Live \ LeafAddresses

\* No element is there twice.
Distinct(s) == \A i, j \in 1..Len(s) : s[i] = s[j] => i = j

-----------------------------------------------------------------------------
(* The shape of the tree                                                   *)

\* The children of a node are different, and have it as their parent.
ChildrenAgree ==
    \A a \in LiveInner :
        /\ Distinct(heap[a].pointers)
        /\ \A i \in 1..Len(heap[a].pointers) :
            /\ heap[a].pointers[i] \in Live \ Unlinked
            /\ heap[heap[a].pointers[i]].parent = a

\* A node's parent points to it.
ParentsPoint ==
    \A a \in Live \ Unlinked : a # root =>
        /\ heap[a].parent \in LiveInner
        /\ \E i \in 1..Len(heap[heap[a].parent].pointers) : heap[heap[a].parent].pointers[i] = a

\* Only the root has no parent; without a root there is no node.
RootSound ==
    /\ root = Null => DOMAIN heap = {} /\ todo = NoCall
    /\ root # Null => root \in Live \ Unlinked /\ heap[root].parent = Null

\* The two halves of a node have the same parent; a node under repair is one
\* of the tree, and a leaf before any node has been emptied.
CallSound ==
    /\ Splitting =>
        /\ todo.left \in Live /\ todo.right \in Live \ {todo.left, root}
        /\ heap[todo.right].parent = heap[todo.left].parent
    /\ Repairing =>
        /\ todo.node \in Live
        /\ todo.node \in LeafAddresses => todo.dead = {}

\* The heights h: 0 for a leaf, one more for a node than for its children.
Graded(h) ==
    /\ \A a \in Live : h[a] = 0 <=> a \in LeafAddresses
    /\ \A a \in LiveInner : \A i \in 1..Len(heap[a].pointers) : h[heap[a].pointers[i]] + 1 = h[a]
    /\ \A a \in Live : h[a] <= h[root]
    /\ Splitting => h[todo.left] = h[todo.right]

\* The fewest keys of a node: a root that is being split will not remain it.
Floor(a) == IF a = root /\ ~(Splitting /\ a = todo.left) THEN 1 ELSE MinKeys(heap[a])

\* No node is too large, and none but the one under repair is too small.
Sizes ==
    \A a \in Live :
        /\ Len(heap[a].keys) <= Order - 1
        /\ Len(heap[a].keys) + (IF Repairing /\ a = todo.node THEN 1 ELSE 0) >= Floor(a)

\* The shape of the tree, in the middle of a call, too.
Shape ==
    /\ TypeOK /\ ChildrenAgree /\ ParentsPoint /\ RootSound /\ CallSound /\ Sizes
    /\ \E h \in [DOMAIN heap -> Nat] : Graded(h)

-----------------------------------------------------------------------------
(* The order of the keys                                                   *)

\* Every element is less than those after it.
Ascending(s) == \A i, j \in 1..Len(s) : i < j => s[i] < s[j]

\* A bound from above, where 0 stands for none.
Below(k, bound) == bound = 0 \/ k < bound

\* The keys s ascend and are within their bounds.
KeysWithin(s, from, to) ==
    /\ Ascending(s) /\ Below(from, to)
    /\ \A i \in 1..Len(s) : from <= s[i] /\ Below(s[i], to)

\* The keys s separate the bounds of the children t.
KeysSeparate(s, t, lo, hi, from, to) ==
    /\ KeysWithin(s, from, to)
    /\ Len(t) = Len(s) + 1
    /\ \A i \in 1..Len(s) : from < s[i]
    /\ \A i \in 1..Len(t) : /\ lo[t[i]] = IF i = 1 THEN from ELSE s[i - 1]
                            /\ hi[t[i]] = IF i = Len(t) THEN to ELSE s[i]

\* The bounds from above of the keys looked for below each node: those of the
\* left half of a split, as long as the right one is not linked, are both's.
Tops(hi) == [a \in DOMAIN hi |-> IF Splitting /\ a = todo.left THEN hi[todo.right] ELSE hi[a]]

\* The keys of every node are within its bounds and separate its children.
NodesBounded(lo, hi) ==
    /\ \A a \in LiveLeaves : KeysWithin(heap[a].keys, lo[a], hi[a])
    /\ \A a \in LiveInner :
          KeysSeparate(heap[a].keys, heap[a].pointers, lo, Tops(hi), lo[a], hi[a])

\* The root is not bounded, the halves of a node are by the key between them.
EndsBounded(lo, hi) ==
    /\ root # Null => lo[root] = 0 /\ Tops(hi)[root] = 0
    /\ Splitting => /\ lo[todo.left] < todo.key /\ hi[todo.left] = todo.key
                    /\ lo[todo.right] = todo.key

\* The next leaf is the one whose bounds begin where those of this one end.
LeavesLinked(lo, hi) ==
    \A a \in LiveLeaves :
        IF hi[a] = 0 THEN heap[a].next = Null
        ELSE heap[a].next \in LiveLeaves /\ lo[heap[a].next] = hi[a]

\* The bounds lo and hi are right for every node.
Bounded(lo, hi) == NodesBounded(lo, hi) /\ EndsBounded(lo, hi) /\ LeavesLinked(lo, hi)

\* Every key is where the keys above it lead.
Ordered == \E lo, hi \in [DOMAIN heap -> Nat] : Bounded(lo, hi)

-----------------------------------------------------------------------------
(* What the leaves hold                                                    *)

\* What the keys and the records of a leaf pair.
Entries(keys, pointers) == {<<keys[i], pointers[i]>> : i \in 1..Len(keys)}

\* A key is paired with one of its own records.
RecordsOfKeys == \A e \in Items : e[2][1] = e[1]

\* What an emptied leaf holds its neighbour holds, too.
ItemsLive == \A e \in Items : \E a \in LiveLeaves : e \in Entries(heap[a].keys, heap[a].pointers)

\* Of the keys never inserted while the tree holds them, the leaves point to
\* just the records that are allocated.
RecordsStored ==
    \A r \in Stored \cup records :
        Cardinality(Versions[r[1]]) = 1 => r \in Stored /\ r \in records

\* The order of the tree and what its leaves hold.
Sorted == Ordered /\ RecordsOfKeys /\ ItemsLive /\ RecordsStored
=============================================================================
