---------------------------- MODULE MCBPlusTree ----------------------------
EXTENDS BPlusTree

\* Keys and addresses for TLC: with a leaf per key and an inner node for
\* every pair of children, no tree needs more addresses than these, the
\* nodes waiting to be freed included.
SevenKeys == 1..7
TenKeys   == 1..10
LeafHeap  == 1..9
InnerHeap == 10..18

\* One record for each key; and a second one for a key in the middle.
OneEach   == [k \in Keys |-> {1}]
TwoForOne == [k \in Keys |-> IF k = 5 THEN {1, 2} ELSE {1}]
=============================================================================
