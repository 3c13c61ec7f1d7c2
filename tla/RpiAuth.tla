------------------------------ MODULE RpiAuth ------------------------------
(***************************************************************************)
(* The authentication of a file by its radix path identifiers: what        *)
(* RestServer::generateBTree stores for a secured upload, and what         *)
(* challengeMethodHandler and RpiAuth.cpp make of it.                      *)
(*                                                                         *)
(* The blocks are inserted into a B+ tree (module BPlusTree) in ascending  *)
(* order; the tree is hashed, its entries are numbered by radix path       *)
(* identifiers and dumped level by level.  A challenge parses the dump,    *)
(* draws a fifth of the blocks, compares the hashes a node returns for     *)
(* them with the dump and folds a top hash from each block, which must all *)
(* be equal.                                                               *)
(*                                                                         *)
(* Hashes are symbolic: <<b>> is the hash of block b, <<g, h>> is          *)
(* hash_add(g, h).  An identifier, whose decimal digits the code uses as   *)
(* digits in base order (basal_sum, basal_product, convertToDecimal), is   *)
(* the number those digits denote.                                         *)
(***************************************************************************)
EXTENDS Naturals, FiniteSets, Sequences, SequencesExt

CONSTANTS
    Order,        \* DEFAULT_ORDER
    LeafAddresses, InnerAddresses,    \* the addresses malloc may return
    Null,
    MaxBlocks,    \* the most blocks a file has: 25 (module BlockSize)
    FileBlocks,   \* the numbers of blocks of the files uploaded
    Challenged    \* bound: those of the files whose blocks are drawn

ASSUME AuthAssumption ==
    /\ Order \in Nat /\ Order >= 3
    /\ MaxBlocks \in 1..25
    /\ FileBlocks \subseteq 1..MaxBlocks
    /\ Challenged \subseteq FileBlocks \ {1}

VARIABLES
    heap, root, records, todo,   \* the tree
    n,         \* blockcount: the number of blocks of the file
    block,     \* blocknum: the next block to insert
    table,     \* the dump in the database
    auth,      \* level, blocknum, rpi and hash as RpiAuth::parse leaves them
    pc,
    drawn,     \* bnums
    answer,    \* the hashes the node returned, in the order of the blocks
    i,         \* the drawn block whose top hash is folded next
    r_hash,    \* the hash folded last
    top,       \* topHash
    verdict

tree      == <<heap, root, records, todo>>
stored    == <<n, block, table, auth>>
challenge == <<drawn, answer, i, r_hash, top, verdict>>
vars      == <<tree, stored, pc, challenge>>

Tree == INSTANCE BPlusTree WITH Keys <- 1..MaxBlocks, Versions <- [k \in 1..MaxBlocks |-> {1}]

-----------------------------------------------------------------------------
(* Hashing, numbering and dumping the tree                                 *)

BlockHash(b)   == <<b>>
hash_add(g, h) == <<g, h>>
NoHash         == <<0>>      \* what no block hashes to
Overrun        == <<26>>     \* what is read past the end of the hashes

\* evaluatenode: a leaf hashes its records; an inner node starts from the
\* hash of its first child and adds every child, the first one again.
evaluatenode ==
    LET hash[a \in DOMAIN heap] ==
        LET p == heap[a].pointers IN
        IF heap[a].leaf
        THEN FoldLeft(LAMBDA h, r : hash_add(h, BlockHash(r[1])), BlockHash(p[1][1]), Tail(p))
        ELSE FoldLeft(LAMBDA h, c : hash_add(h, hash[c]), hash[p[1]], p)
    IN  hash

\* find_parent_key_index, from 1: the entry of the parent a key lies under.
find_parent_key_index(key, p) ==
    LET AtMost(x) == x <= key IN Tree!Leading(heap[p].keys, AtMost) + 1

\* generate_rpi: an identifier for each of a node's keys and one before them,
\* the root's 0, 1, 2..., the others' those of the parent's entry with one
\* digit more.  All keys of a node lie under one entry of the parent, so that
\* nodeCnt counts the node's own entries.
\* (The first is a mutant: the counter is not added.)
generate_rpi_uncounted ==
    LET rpi[a \in DOMAIN heap] ==
        LET p == heap[a].parent IN
        [j \in 1..(Len(heap[a].keys) + 1) |->
            IF p = Null THEN j - 1
            ELSE Order * rpi[p][find_parent_key_index(heap[a].keys[IF j = 1 THEN 1 ELSE j - 1], p)]]
    IN  rpi
generate_rpi ==
    LET rpi[a \in DOMAIN heap] ==
        LET p == heap[a].parent IN
        [j \in 1..(Len(heap[a].keys) + 1) |->
            IF p = Null THEN j - 1
            ELSE Order * rpi[p][find_parent_key_index(heap[a].keys[IF j = 1 THEN 1 ELSE j - 1], p)]
                 + (j - 1)]
    IN  rpi

Entry(l, b, r, h) == [level |-> l, blocknum |-> b, rpi |-> r, hash |-> h]

\* dumpDataOnDB: the tree breadth first, an entry per identifier; a leaf is
\* followed by its records, one level further down.  (Block number 0 stands
\* for the -1 of an entry before all keys.)
dumpDataOnDB ==
    LET hash   == evaluatenode
        rpi    == generate_rpi
        height == Tree!Depth(Tree!FirstLeaf)
        row[d \in 0..height] ==
            IF d = 0 THEN <<root>>
            ELSE FlattenSeq([j \in DOMAIN row[d - 1] |-> heap[row[d - 1][j]].pointers])
        Entries(a, d) ==
            [j \in 1..(Len(heap[a].keys) + 1) |->
                Entry(d, IF j = 1 THEN 0 ELSE heap[a].keys[j - 1], rpi[a][j], hash[a])]
        Records(a, d) ==
            IF ~heap[a].leaf THEN <<>>
            ELSE [j \in DOMAIN heap[a].keys |->
                    Entry(d + 1, heap[a].keys[j], Order * rpi[a][j + 1], BlockHash(heap[a].keys[j]))]
        Dump(d) == FlattenSeq([j \in DOMAIN row[d] |-> Entries(row[d][j], d) \o Records(row[d][j], d)])
    IN  FlattenSeq([d \in 1..(height + 1) |-> Dump(d - 1)])

-----------------------------------------------------------------------------
(* Reading the table                                                       *)

\* Exchange two members of a sequence.
Swapped(s, j, k) == [s EXCEPT ![j] = s[k], ![k] = s[j]]

\* The first of the least levels from j on.
MinIdx(s, j) ==
    CHOOSE m \in j..Len(s) : \A x \in j..Len(s) :
        s[m].level < s[x].level \/ (s[m].level = s[x].level /\ m <= x)

\* sortByLevel: a selection sort, which does not keep the order in a level.
\* (The first is a mutant: the hashes stay where they are.)
sortByLevelNotHash(s) ==
    FoldLeft(LAMBDA t, j : [x \in DOMAIN t |-> [Swapped(t, j, MinIdx(t, j))[x] EXCEPT !.hash = s[x].hash]],
             s, [j \in DOMAIN s |-> j])
sortByLevel(s) ==
    FoldLeft(LAMBDA t, j : Swapped(t, j, MinIdx(t, j)), s, [j \in DOMAIN s |-> j])

\* blocknums: the blocks drawn, each where its rank is.
Blocks     == [j \in 1..Cardinality(drawn) |->
                 CHOOSE b \in drawn : Cardinality({c \in drawn : c <= b}) = j]
levels     == auth[Len(auth)].level + 1          \* num_level + 1
EntriesAt(rows, j) == SelectSeq([x \in DOMAIN rows |-> x], LAMBDA x : rows[x].level = j)
AtLevel(j) == EntriesAt(auth, j)

\* The entry of a block.
EntryOf(b) == CHOOSE x \in ToSet(AtLevel(levels - 1)) : auth[x].blocknum = b

-----------------------------------------------------------------------------
(* RpiAuth::validate                                                       *)

\* hasSiblings: the identifiers it collects around cur if test is near.
\* (The first is a mutant: the entries next to cur, on every level.)
hasSiblingsNear(cur, test, lev) ==
    LET low == cur \div Order
        At(j) == {auth[x].rpi : x \in ToSet(AtLevel(j))}
    IN  IF low <= test \div Order /\ test \div Order <= low + Order
        THEN {p * Order : p \in {q \in (low..(low + Order)) \cap At(lev - 1) : q * Order \in At(lev)}}
        ELSE {}
hasSiblings(cur, test, lev) ==
    LET low == (cur * Order) \div Order ^ lev
        At(j) == {auth[x].rpi : x \in ToSet(AtLevel(j))}
    IN  IF low <= test \div Order /\ test \div Order <= low + Order
        THEN {p * Order : p \in {q \in (low..(low + Order)) \cap At(lev - 1) : q * Order \in At(lev)}}
        ELSE {}

\* The entries of the last level that are folded for the block at cur.
Siblings(cur) ==
    SelectSeq(AtLevel(levels - 1),
              LAMBDA x : auth[x].rpi \in hasSiblings(auth[x].rpi, cur, levels - 1))

\* The last level: the block's own hash is the node's, the first other one
\* the table's, and further ones are read from h with an index of the table.
FoldLeaves(cur, own, stale) ==
    LET Own(x, other) == IF auth[x].rpi = cur THEN own ELSE other
        Read(x)       == IF x \in DOMAIN answer THEN answer[x] ELSE Overrun
        sibs          == Siblings(cur)
    IN  IF sibs = <<>> THEN stale
        ELSE FoldLeft(LAMBDA r, x : hash_add(r, Own(x, Read(x))),
                      Own(sibs[1], auth[sibs[1]].hash), Tail(sibs))

\* Mutant: equal hashes in a row are all taken.
FoldLevelEach(j, cur, k, level_hash) ==
    LET low == (cur * Order) \div Order ^ k
        OnPath(x) == auth[x].rpi = cur /\ low <= cur /\ cur <= low + Order
        Hash(x) == IF OnPath(x) THEN level_hash ELSE auth[x].hash
        Add(r, x) == hash_add(r, Hash(x))
        entries == AtLevel(j)
    IN  FoldLeft(Add, Hash(entries[1]), Tail(entries))

\* Another level: all of its entries, an entry on the block's path standing
\* for the hash folded so far, equal hashes in a row taken once.
FoldLevel(j, cur, k, level_hash) ==
    LET low == (cur * Order) \div Order ^ k
        OnPath(x) == auth[x].rpi = cur /\ low <= cur /\ cur <= low + Order
        Hash(x) == IF OnPath(x) THEN level_hash ELSE auth[x].hash
        Add(s, x) ==
            IF s.prev = Hash(x) THEN s
            ELSE LET r == hash_add(s.r, Hash(x)) IN
                 [r |-> r, prev |-> IF OnPath(x) THEN r ELSE Hash(x)]
        entries == AtLevel(j)
        h == Hash(entries[1])
    IN  FoldLeft(Add, [r |-> h, prev |-> h], Tail(entries)).r

\* The top hash folded from a block: from the last level to level 1.
FoldTop(b, own, stale) ==
    LET rpi == auth[EntryOf(b)].rpi
        up[k \in 1..(levels - 1)] ==
            IF k = 1 THEN FoldLeaves(rpi, own, stale)
            ELSE FoldLevel(levels - k, rpi \div Order ^ (k - 1), k, up[k - 1])
    IN  up[levels - 1]

-----------------------------------------------------------------------------
(* The upload                                                              *)

Init ==
    /\ Tree!Init
    /\ n \in FileBlocks /\ block = 1
    /\ table = <<>> /\ auth = <<>>
    /\ pc = "building"
    /\ drawn = {} /\ answer = <<>> /\ i = 1
    /\ r_hash = NoHash /\ top = NoHash /\ verdict = "none"

\* The loop of generateBTree: hash a block and insert its record.
InsertBlock ==
    /\ pc = "building" /\ block <= n
    /\ \/ Tree!StartNewTree(block, 1)
       \/ Tree!InsertIntoLeaf(block, 1)
       \/ Tree!SplitLeaf(block, 1)
    /\ block' = block + 1
    /\ UNCHANGED <<n, table, auth, pc, challenge>>

\* The rest of an insertion.
InsertParent ==
    /\ pc = "building"
    /\ Tree!InsertIntoNewRoot \/ Tree!InsertIntoNode \/ Tree!SplitNode
    /\ UNCHANGED <<stored, pc, challenge>>

\* The end of generateBTree: evaluate, generate_rpi, dumpDataOnDB and
\* destroy_tree.
StoreTable ==
    /\ pc = "building" /\ block > n /\ todo = Tree!NoCall
    /\ table' = dumpDataOnDB
    /\ Tree!DestroyTree
    /\ pc' = "stored"
    /\ UNCHANGED <<n, block, auth, challenge>>

-----------------------------------------------------------------------------
(* The challenge                                                           *)

\* RpiAuth::parse.  (A later challenge of the file parses the same table.)
Parse ==
    /\ pc = "stored"
    /\ auth' = sortByLevel(table)
    /\ pc' = "drawing"
    /\ UNCHANGED <<tree, n, block, table, challenge>>

\* blockperc < 20, in whole numbers.  The sum of the doubles passes 20 with the
\* same draw for files of up to 26 blocks, and a secured one has 8 to 25; of
\* more blocks this fifth is not the code's.
FewerThanAFifth == 5 * Cardinality(drawn) < n

\* Mutant: a 0 clears the blocks.
DrawClears(x) ==
    /\ pc = "drawing" /\ n \in Challenged /\ FewerThanAFifth /\ x < n
    /\ drawn' = IF x = 0 THEN {} ELSE drawn \cup {x}
    /\ UNCHANGED <<tree, stored, pc, answer, i, r_hash, top, verdict>>

\* bnums.insert(rand() % blockcount): 0 is taken out again.
Draw(x) ==
    /\ pc = "drawing" /\ n \in Challenged /\ FewerThanAFifth /\ x < n
    /\ drawn' = (drawn \cup {x}) \ {0}
    /\ UNCHANGED <<tree, stored, pc, answer, i, r_hash, top, verdict>>

\* The node hashes the blocks; it holds all of them, or some of them are lost.
Ask(lost) ==
    /\ pc = "drawing" /\ ~FewerThanAFifth
    /\ answer' = [j \in DOMAIN Blocks |-> IF Blocks[j] \in lost THEN NoHash ELSE BlockHash(Blocks[j])]
    /\ pc' = "answered"
    /\ UNCHANGED <<tree, stored, drawn, i, r_hash, top, verdict>>

Conclude(v) == verdict' = v /\ pc' = "done"

\* The first loop of validate: a wrong hash ends it.
CompareHashes ==
    /\ pc = "answered"
    /\ \/ /\ \E j \in DOMAIN answer : answer[j] # auth[EntryOf(Blocks[j])].hash
          /\ Conclude("wrong")
       \/ /\ \A j \in DOMAIN answer : answer[j] = auth[EntryOf(Blocks[j])].hash
          /\ pc' = "folding"
          /\ UNCHANGED verdict
    /\ UNCHANGED <<tree, stored, drawn, answer, i, r_hash, top>>

\* The second loop of validate: fold a top hash, compare it with the first.
FoldBlock ==
    /\ pc = "folding"
    /\ r_hash' = FoldTop(Blocks[i], answer[i], r_hash)
    /\ \/ /\ i > 1 /\ r_hash' # top
          /\ Conclude("differs")
          /\ UNCHANGED <<i, top>>
       \/ /\ i = 1 \/ r_hash' = top
          /\ top' = r_hash'
          /\ \/ i = Len(answer) /\ Conclude("match") /\ UNCHANGED i
             \/ i < Len(answer) /\ i' = i + 1 /\ UNCHANGED <<pc, verdict>>
    /\ UNCHANGED <<tree, stored, drawn, answer>>

\* The next challenge starts anew.
NextChallenge ==
    /\ pc = "done"
    /\ pc' = "drawing"
    /\ drawn' = {} /\ answer' = <<>> /\ i' = 1
    /\ r_hash' = NoHash /\ top' = NoHash /\ verdict' = "none"
    /\ UNCHANGED <<tree, stored>>

Next ==
    \/ InsertBlock \/ InsertParent \/ StoreTable \/ Parse
    \/ \E x \in 0..(MaxBlocks - 1) : Draw(x)
    \/ \E lost \in SUBSET drawn : Ask(lost)
    \/ CompareHashes \/ FoldBlock \/ NextChallenge

Spec == Init /\ [][Next]_vars

\* The loop that draws is carried on to the question.  A remainder that changes nothing, a
\* 0 or a block drawn before, is a stuttering step: rand() is only assumed
\* not to return such remainders for ever.
FairSpec ==
    /\ Spec
    /\ WF_vars(\E x \in 0..(MaxBlocks - 1) : Draw(x))
    /\ WF_vars(\E lost \in SUBSET drawn : Ask(lost))

-----------------------------------------------------------------------------
(* Properties                                                              *)

\* The table a challenge works on holds every block once with its hash; the
\* identifiers of the blocks ascend with the blocks; an identifier without
\* its last digit is one of the level above, so that a block's path to the
\* root can be followed; and the levels follow each other, as the searches
\* for the first and the last entry of a level need.
TableLeadsToRoot ==
    pc = "drawing" /\ drawn = {} =>
        /\ \A b \in 1..n : Cardinality({x \in ToSet(AtLevel(levels - 1)) : auth[x].blocknum = b}) = 1
        /\ \A b \in 1..n : auth[EntryOf(b)].hash = BlockHash(b)
        /\ \A b, c \in 1..n : b < c => auth[EntryOf(b)].rpi < auth[EntryOf(c)].rpi
        /\ \A x \in DOMAIN auth : auth[x].level > 0 =>
              \E y \in DOMAIN auth : /\ auth[y].level = auth[x].level - 1
                                     /\ auth[y].rpi = auth[x].rpi \div Order
        /\ \A x, y \in DOMAIN auth : x < y => auth[x].level <= auth[y].level

\* A challenge is rejected for its hashes exactly when the node returned a
\* wrong one: no lost block that was drawn goes unnoticed, none is suspected
\* that is there, in whatever order the unstable sort left the table.
WrongHashNoticed ==
    pc = "done" => (verdict = "wrong" <=> \E j \in DOMAIN answer : answer[j] # BlockHash(Blocks[j]))

\* validate reads the hashes of the answer with an index of the table; it
\* never reads past their end, for the files that are secured.
HashesReadInBounds ==
    pc = "folding" =>
        LET cur == auth[EntryOf(Blocks[i])].rpi
            sibs == Siblings(cur)
        IN  \A j \in 2..Len(sibs) : auth[sibs[j]].rpi = cur \/ sibs[j] \in DOMAIN answer

\* The loop that draws the blocks, which takes every 0 out again, ends and
\* the node is asked, whatever remainders rand() returns in between.
DrawingEnds == pc = "drawing" /\ n \in Challenged ~> pc = "answered"

-----------------------------------------------------------------------------
(* What documents say and the code does not do                             *)

\* PoDP_Anukriti_Shrimal.tex:225: a client that verifies the answer gets the
\* proof that a node stores the file; so a node that returns the right hashes
\* passes the challenge.
IntactFileMatches ==
    pc = "done" /\ (\A j \in DOMAIN answer : answer[j] = BlockHash(Blocks[j])) => verdict = "match"

\* PoDP_Anukriti_Shrimal.tex:222: the root value is re-evaluated from the
\* hashes of the answer; the root hash is that of the table's first entries.
RootRebuilt == verdict = "match" => top = table[1].hash

\* PoDP_Anukriti_Shrimal.tex:232: the server can request any block of a file
\* (as the first one that is drawn, say).
EveryBlockDrawable ==
    pc = "drawing" /\ n \in Challenged /\ drawn = {} =>
        \A b \in 1..n : ENABLED (\E x \in 0..(MaxBlocks - 1) : Draw(x) /\ b \in drawn')
=============================================================================
