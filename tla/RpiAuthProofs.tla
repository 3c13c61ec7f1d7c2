--------------------------- MODULE RpiAuthProofs ---------------------------
(***************************************************************************)
(* Theorems about the challenges of RpiAuth.  That the stored table lists  *)
(* each block with its hash (TableLeadsToRoot) is their hypothesis, which  *)
(* the model checker confirms for every number of blocks a file can have.  *)
(***************************************************************************)
EXTENDS RpiAuth, SequenceFacts

-----------------------------------------------------------------------------
(* The blocks drawn, in order                                              *)

UpTo(S, k) == {c \in S : c <= k}

LEMMA UpToFinite ==
    ASSUME NEW S, IsFiniteSet(S), NEW k
    PROVE  IsFiniteSet(UpTo(S, k)) /\ Cardinality(UpTo(S, k)) \in Nat
<1>1. UpTo(S, k) \subseteq S
  BY DEF UpTo
<1> QED
  BY <1>1, FS_Subset, FS_CardinalityType

\* The next number adds one block, or none.
LEMMA UpToNext ==
    ASSUME NEW S \in SUBSET Nat, IsFiniteSet(S), NEW k \in Nat \ {0}
    PROVE  Cardinality(UpTo(S, k)) = Cardinality(UpTo(S, k - 1)) + (IF k \in S THEN 1 ELSE 0)
<1>1. CASE k \in S
  <2>1. UpTo(S, k) = UpTo(S, k - 1) \cup {k} /\ k \notin UpTo(S, k - 1)
    <3>1. \A c \in S : c \in Nat /\ (c <= k <=> c <= k - 1 \/ c = k)
      OBVIOUS
    <3>2. \A c : c \in UpTo(S, k) <=> c \in UpTo(S, k - 1) \cup {k}
      BY <1>1, <3>1 DEF UpTo
    <3>3. k \notin UpTo(S, k - 1)
      BY DEF UpTo
    <3> QED
      BY Zenon, <3>2, <3>3
  <2>2. IsFiniteSet(UpTo(S, k - 1))
    BY UpToFinite
  <2>3. Cardinality(UpTo(S, k - 1) \cup {k}) = Cardinality(UpTo(S, k - 1)) + 1
    BY <2>1, <2>2, FS_AddElement
  <2> QED
    BY <1>1, <2>1, <2>3
<1>2. CASE k \notin S
  <2>1. UpTo(S, k) = UpTo(S, k - 1)
    <3>1. \A c \in S : c \in Nat /\ (c <= k <=> c <= k - 1 \/ c = k)
      OBVIOUS
    <3>2. \A c : c \in UpTo(S, k) <=> c \in UpTo(S, k - 1)
      BY <1>2, <3>1 DEF UpTo
    <3> QED
      BY Zenon, <3>2
  <2>2. Cardinality(UpTo(S, k - 1)) \in Nat
    BY UpToFinite
  <2> QED
    BY <1>2, <2>1, <2>2
<1> QED
  BY <1>1, <1>2

\* Of a finite set of numbers from 1 on, each rank is a member's.
LEMMA RankedMember ==
    ASSUME NEW S \in SUBSET (Nat \ {0}), IsFiniteSet(S), NEW most \in Nat, \A c \in S : c <= most,
           NEW j \in 1..Cardinality(S)
    PROVE  \E b \in S : Cardinality(UpTo(S, b)) = j
<1> DEFINE T == {k \in Nat : Cardinality(UpTo(S, k)) >= j}
<1>1. Cardinality(S) \in Nat /\ j \in Nat /\ j >= 1
  BY FS_CardinalityType
<1>2. most \in T
  <2>1. UpTo(S, most) = S
    BY DEF UpTo
  <2> QED
    BY <1>1, <2>1
<1>3. PICK k \in T : \A l \in T : k <= l
  <2>1. T \in SUBSET Nat /\ T # {}
    BY <1>2
  <2> HIDE DEF T
  <2> QED
    BY <2>1, LeastNumber
<1>4. k # 0
  <2>1. UpTo(S, 0) = {}
    <3>1. \A c \in S : ~(c <= 0)
      OBVIOUS
    <3>2. \A c : c \notin UpTo(S, 0)
      BY <3>1 DEF UpTo
    <3> QED
      BY Zenon, <3>2
  <2>2. Cardinality(UpTo(S, 0)) = 0
    BY <2>1, FS_EmptySet
  <2> QED
    BY <1>1, <1>3, <2>2
<1>5. k \in Nat \ {0} /\ k - 1 \in Nat /\ k - 1 \notin T
  BY <1>3, <1>4
<1>6. Cardinality(UpTo(S, k - 1)) \in Nat /\ Cardinality(UpTo(S, k - 1)) < j
  BY <1>1, <1>5, UpToFinite
<1>7. Cardinality(UpTo(S, k)) = Cardinality(UpTo(S, k - 1)) + (IF k \in S THEN 1 ELSE 0)
  BY <1>5, UpToNext
<1>8. k \in S /\ Cardinality(UpTo(S, k)) = j
  BY <1>1, <1>3, <1>6, <1>7
<1> QED
  BY <1>8

\* Each block of the challenge is one that was drawn.
LEMMA BlocksDrawn ==
    ASSUME NEW most \in Nat, drawn \subseteq 1..most
    PROVE  /\ IsFiniteSet(drawn) /\ Cardinality(drawn) \in Nat
           /\ DOMAIN Blocks = 1..Cardinality(drawn)
           /\ \A j \in DOMAIN Blocks : Blocks[j] \in drawn
<1>1. IsFiniteSet(drawn) /\ Cardinality(drawn) \in Nat
  <2>1. IsFiniteSet(1..most)
    BY FS_Interval
  <2> QED
    BY <2>1, FS_Subset, FS_CardinalityType
<1>2. DOMAIN Blocks = 1..Cardinality(drawn)
  BY DEF Blocks
<1>3. ASSUME NEW j \in DOMAIN Blocks PROVE Blocks[j] \in drawn
  <2>1. drawn \in SUBSET (Nat \ {0}) /\ \A c \in drawn : c <= most
    OBVIOUS
  <2>2. \E b \in drawn : Cardinality(UpTo(drawn, b)) = j
    BY <1>1, <1>2, <2>1, RankedMember
  <2>3. Blocks[j] = CHOOSE b \in drawn : Cardinality(UpTo(drawn, b)) = j
    BY <1>2 DEF Blocks, UpTo
  <2> QED
    BY Zenon, <2>2, <2>3
<1> QED
  BY <1>1, <1>2, <1>3

-----------------------------------------------------------------------------
(* The draw                                                                *)

\* A fifth of the blocks, rounded up, and not one more.
Fifth(d) == n <= 5 * d /\ 5 * d < n + 5

\* The blocks drawn are the file's, a fifth of them when the node is asked, and
\* there is a hash for each; the one folded next is among them.
DrawInv ==
    /\ n \in 1..MaxBlocks
    /\ drawn \subseteq 1..(n - 1) /\ 5 * Cardinality(drawn) < n + 5
    /\ pc \in {"building", "stored", "drawing", "answered", "folding", "done"}
    /\ pc \in {"building", "stored"} => drawn = {}
    /\ pc \in {"building", "stored", "drawing", "answered"} => i = 1
    /\ pc \in {"answered", "folding", "done"} => Fifth(Cardinality(drawn)) /\ DOMAIN answer = DOMAIN Blocks
    /\ pc = "folding" => i \in DOMAIN Blocks

LEMMA DrawnAre ==
    ASSUME DrawInv
    PROVE  /\ n \in Nat /\ n >= 1 /\ n - 1 \in Nat /\ drawn \subseteq 1..(n - 1)
           /\ IsFiniteSet(drawn) /\ Cardinality(drawn) \in Nat
           /\ DOMAIN Blocks = 1..Cardinality(drawn)
           /\ \A j \in DOMAIN Blocks : Blocks[j] \in 1..n
<1>1. n \in Nat /\ n >= 1 /\ n - 1 \in Nat /\ drawn \subseteq 1..(n - 1) /\ 1..(n - 1) \subseteq 1..n
  BY AuthAssumption DEF DrawInv
<1>2. /\ IsFiniteSet(drawn) /\ Cardinality(drawn) \in Nat
      /\ DOMAIN Blocks = 1..Cardinality(drawn) /\ \A j \in DOMAIN Blocks : Blocks[j] \in drawn
  BY <1>1, BlocksDrawn
<1> QED
  BY <1>1, <1>2

\* The blocks are those that were drawn.
LEMMA SameBlocks ==
    ASSUME UNCHANGED <<stored, drawn>>
    PROVE  Blocks' = Blocks /\ Cardinality(drawn)' = Cardinality(drawn) /\ n' = n /\ drawn' = drawn
<1>1. n' = n /\ drawn' = drawn
  BY DEF stored
<1>2. Blocks' = Blocks
  BY <1>1 DEF Blocks
<1> QED
  BY <1>1, <1>2

LEMMA DrawInit == ASSUME Init PROVE DrawInv
<1>1. n \in 1..MaxBlocks /\ drawn = {} /\ pc = "building" /\ i = 1
  BY AuthAssumption DEF Init
<1>2. Cardinality(drawn) = 0
  BY <1>1, FS_EmptySet
<1> QED
  BY <1>1, <1>2, AuthAssumption DEF DrawInv

\* One remainder more.
LEMMA DrawStep ==
    ASSUME DrawInv, NEW x \in 0..(MaxBlocks - 1), Draw(x)
    PROVE  DrawInv'
<1>1. /\ drawn' = (drawn \cup {x}) \ {0} /\ x < n /\ 5 * Cardinality(drawn) < n
      /\ n' = n /\ pc' = pc /\ pc = "drawing" /\ i' = i
  BY DEF Draw, FewerThanAFifth, stored
<1>2. n \in Nat /\ drawn \subseteq 1..(n - 1) /\ IsFiniteSet(drawn) /\ Cardinality(drawn) \in Nat
  BY DrawnAre
<1>3. Cardinality(drawn') <= Cardinality(drawn) + 1 /\ Cardinality(drawn') \in Nat
  <2>1. /\ IsFiniteSet(drawn \cup {x})
        /\ Cardinality(drawn \cup {x}) = IF x \in drawn THEN Cardinality(drawn) ELSE Cardinality(drawn) + 1
    BY <1>2, FS_AddElement
  <2>2. drawn' \subseteq drawn \cup {x}
    BY <1>1
  <2>3. Cardinality(drawn') <= Cardinality(drawn \cup {x}) /\ IsFiniteSet(drawn')
    BY <2>1, <2>2, FS_Subset
  <2> QED
    BY <1>2, <2>1, <2>3, FS_CardinalityType
<1>4. drawn' \subseteq 1..(n' - 1) /\ 5 * Cardinality(drawn') < n' + 5
  BY <1>1, <1>2, <1>3
<1>5. n' \in 1..MaxBlocks /\ i' = 1
  BY <1>1 DEF DrawInv
<1> QED
  BY <1>1, <1>4, <1>5 DEF DrawInv

\* The question, when there are no fewer, and the answer.
LEMMA DrawAsk ==
    ASSUME DrawInv, NEW lost \in SUBSET drawn, Ask(lost)
    PROVE  DrawInv'
<1>1. /\ UNCHANGED <<stored, drawn>> /\ pc = "drawing" /\ pc' = "answered" /\ i' = i
      /\ DOMAIN answer' = DOMAIN Blocks /\ ~(5 * Cardinality(drawn) < n)
  BY DEF Ask, FewerThanAFifth, stored
<1>2. Blocks' = Blocks /\ Cardinality(drawn)' = Cardinality(drawn) /\ n' = n /\ drawn' = drawn
  BY <1>1, SameBlocks
<1>3. n \in Nat /\ Cardinality(drawn) \in Nat
  BY DrawnAre
<1>4. Fifth(Cardinality(drawn))'
  BY <1>1, <1>2, <1>3 DEF DrawInv, Fifth
<1> QED
  BY <1>1, <1>2, <1>4 DEF DrawInv

\* There is a block to fold, since a fifth of a file is one block at least.
LEMMA DrawCompare ==
    ASSUME DrawInv, CompareHashes
    PROVE  DrawInv'
<1>1. UNCHANGED <<stored, drawn>> /\ pc = "answered" /\ pc' \in {"folding", "done"} /\ i' = i /\ answer' = answer
  BY DEF CompareHashes, Conclude, stored
<1>2. Blocks' = Blocks /\ Cardinality(drawn)' = Cardinality(drawn) /\ n' = n /\ drawn' = drawn
  BY <1>1, SameBlocks
<1>3. Fifth(Cardinality(drawn)) /\ DOMAIN answer = DOMAIN Blocks /\ i = 1
  BY <1>1 DEF DrawInv
<1>4. 1 \in DOMAIN Blocks
  BY <1>3, DrawnAre DEF Fifth
<1>5. Fifth(Cardinality(drawn))'
  BY <1>2, <1>3 DEF Fifth
<1> QED
  BY <1>1, <1>2, <1>3, <1>4, <1>5 DEF DrawInv

\* The next block is one there is a hash for.
LEMMA DrawFold ==
    ASSUME DrawInv, FoldBlock
    PROVE  DrawInv'
<1>1. UNCHANGED <<stored, drawn>> /\ pc = "folding" /\ answer' = answer
  BY DEF FoldBlock, stored
<1>2. Blocks' = Blocks /\ Cardinality(drawn)' = Cardinality(drawn) /\ n' = n /\ drawn' = drawn
  BY <1>1, SameBlocks
<1>3. Fifth(Cardinality(drawn)) /\ DOMAIN answer = DOMAIN Blocks /\ i \in DOMAIN Blocks
  BY <1>1 DEF DrawInv
<1>4. Fifth(Cardinality(drawn))'
  BY <1>2, <1>3 DEF Fifth
<1>5. pc' = "done" \/ (pc' = pc /\ i < Len(answer) /\ i' = i + 1)
  BY DEF FoldBlock, Conclude
<1>6. CASE pc' = "done"
  BY <1>1, <1>2, <1>3, <1>4, <1>6 DEF DrawInv
<1>7. CASE pc' = pc /\ i < Len(answer) /\ i' = i + 1
  <2>1. Cardinality(drawn) \in Nat /\ DOMAIN Blocks = 1..Cardinality(drawn)
    BY DrawnAre
  <2>2. Len(answer) = Cardinality(drawn)
    BY <1>3, <2>1
  <2>3. i' \in DOMAIN Blocks
    BY <1>3, <1>7, <2>1, <2>2
  <2> QED
    BY <1>1, <1>2, <1>3, <1>4, <1>7, <2>3 DEF DrawInv
<1> QED
  BY <1>5, <1>6, <1>7

LEMMA DrawNext == ASSUME DrawInv, [Next]_vars PROVE DrawInv'
<1>1. ASSUME UNCHANGED vars PROVE DrawInv'
  <2>1. UNCHANGED <<stored, drawn>> /\ pc' = pc /\ answer' = answer /\ i' = i
    BY <1>1 DEF vars, stored, challenge
  <2>2. Blocks' = Blocks /\ Cardinality(drawn)' = Cardinality(drawn) /\ n' = n /\ drawn' = drawn
    BY <2>1, SameBlocks
  <2> QED
    BY <2>1, <2>2 DEF DrawInv, Fifth
<1>2. ASSUME InsertBlock \/ InsertParent \/ StoreTable \/ Parse PROVE DrawInv'
  <2>1. /\ n' = n /\ drawn' = drawn /\ i' = i /\ pc \in {"building", "stored"}
        /\ pc' \in {"building", "stored", "drawing"}
    BY <1>2 DEF InsertBlock, InsertParent, StoreTable, Parse, stored, challenge
  <2>2. Cardinality(drawn)' = Cardinality(drawn)
    BY <2>1
  <2> QED
    BY <2>1, <2>2 DEF DrawInv
<1>3. ASSUME NextChallenge PROVE DrawInv'
  <2>1. n' = n /\ drawn' = {} /\ i' = 1 /\ pc' = "drawing"
    BY <1>3 DEF NextChallenge, stored
  <2>2. n' \in 1..MaxBlocks /\ n' \in Nat /\ n' >= 1 /\ Cardinality(drawn') = 0
    BY <2>1, AuthAssumption, FS_EmptySet DEF DrawInv
  <2> QED
    BY <2>1, <2>2 DEF DrawInv
<1> QED
  BY <1>1, <1>2, <1>3, DrawStep, DrawAsk, DrawCompare, DrawFold DEF Next

-----------------------------------------------------------------------------
(* The verdict about the hashes                                            *)

\* Each block has an entry with its hash among those of the last level.
HashesListed == \A b \in 1..n : auth[EntryOf(b)].hash = BlockHash(b)

Right(j) == answer[j] = BlockHash(Blocks[j])

\* With the table that was parsed, the comparison of the hashes said what is so,
\* and no top hash changes it.
VerdictInv ==
    /\ pc \in {"drawing", "answered", "folding", "done"} => HashesListed
    /\ pc = "folding" => \A j \in DOMAIN Blocks : Right(j)
    /\ pc = "done" => (verdict = "wrong" <=> \E j \in DOMAIN Blocks : ~Right(j))

\* The entries are found in the table.
LEMMA SameTable == ASSUME n' = n, auth' = auth PROVE HashesListed' = HashesListed
<1>1. levels' = levels
  BY DEF levels
<1>2. AtLevel(levels - 1)' = AtLevel(levels - 1)
  BY <1>1 DEF AtLevel
<1>3. \A b : EntryOf(b)' = EntryOf(b)
  BY <1>2 DEF EntryOf
<1> QED
  BY <1>3 DEF HashesListed

\* Once the table is parsed, no challenge changes it.
LEMMA ListedNext ==
    ASSUME DrawInv, VerdictInv, TableLeadsToRoot', [Next]_vars
    PROVE  pc' \in {"drawing", "answered", "folding", "done"} => HashesListed'
<1>1. ASSUME InsertBlock \/ InsertParent \/ StoreTable
      PROVE  pc' \notin {"drawing", "answered", "folding", "done"}
  BY <1>1 DEF InsertBlock, InsertParent, StoreTable
<1>2. ASSUME Parse PROVE HashesListed'
  <2>1. pc' = "drawing" /\ drawn' = {}
    BY <1>2 DEF Parse, challenge, DrawInv
  <2> QED
    BY <2>1 DEF TableLeadsToRoot, HashesListed
<1>3. ASSUME NEW x \in 0..(MaxBlocks - 1), Draw(x) PROVE HashesListed'
  <2>1. n' = n /\ auth' = auth /\ HashesListed
    BY <1>3 DEF Draw, stored, VerdictInv
  <2> QED
    BY <2>1, SameTable
<1>4. ASSUME (\E lost \in SUBSET drawn : Ask(lost)) \/ CompareHashes \/ FoldBlock \/ NextChallenge
      PROVE  HashesListed'
  <2>1. n' = n /\ auth' = auth /\ HashesListed
    BY <1>4 DEF Ask, CompareHashes, FoldBlock, NextChallenge, stored, VerdictInv
  <2> QED
    BY <2>1, SameTable
<1>5. ASSUME UNCHANGED vars PROVE pc' \in {"drawing", "answered", "folding", "done"} => HashesListed'
  <2>1. n' = n /\ auth' = auth /\ pc' = pc
    BY <1>5 DEF vars, stored
  <2> QED
    BY <2>1, SameTable DEF VerdictInv
<1> QED
  BY <1>1, <1>2, <1>3, <1>4, <1>5 DEF Next

\* The comparison finds out which hashes are right.
LEMMA VerdictCompare ==
    ASSUME DrawInv, VerdictInv, CompareHashes
    PROVE  /\ pc' = "folding" => \A j \in DOMAIN Blocks : Right(j)
           /\ pc' = "done" => (verdict' = "wrong" <=> \E j \in DOMAIN Blocks : ~Right(j))
<1>1. DOMAIN answer = DOMAIN Blocks /\ HashesListed
  BY DEF CompareHashes, DrawInv, VerdictInv
<1>2. \A j \in DOMAIN Blocks : auth[EntryOf(Blocks[j])].hash = BlockHash(Blocks[j])
  BY <1>1, DrawnAre DEF HashesListed
<1>3. CASE (\E j \in DOMAIN answer : answer[j] # auth[EntryOf(Blocks[j])].hash) /\ Conclude("wrong")
  BY <1>1, <1>2, <1>3 DEF Conclude, Right
<1>4. CASE (\A j \in DOMAIN answer : answer[j] = auth[EntryOf(Blocks[j])].hash) /\ pc' = "folding"
  BY <1>1, <1>2, <1>4 DEF Right
<1> QED
  BY <1>3, <1>4 DEF CompareHashes

LEMMA VerdictNext ==
    ASSUME DrawInv, VerdictInv, TableLeadsToRoot', [Next]_vars
    PROVE  VerdictInv'
<1>1. pc' \in {"drawing", "answered", "folding", "done"} => HashesListed'
  BY ListedNext
<1>2. ASSUME CompareHashes PROVE VerdictInv'
  <2>1. UNCHANGED <<stored, drawn>> /\ answer' = answer
    BY <1>2 DEF CompareHashes
  <2>2. Blocks' = Blocks
    BY <2>1, SameBlocks
  <2>3. \A j : Right(j)' <=> Right(j)
    BY <2>1, <2>2 DEF Right, BlockHash
  <2> QED
    BY <1>1, <1>2, <2>2, <2>3, VerdictCompare DEF VerdictInv
<1>3. ASSUME FoldBlock \/ UNCHANGED vars PROVE VerdictInv'
  <2>1. UNCHANGED <<stored, drawn>> /\ answer' = answer
    BY <1>3 DEF FoldBlock, vars, challenge
  <2>2. Blocks' = Blocks
    BY <2>1, SameBlocks
  <2>3. \A j : Right(j)' <=> Right(j)
    BY <2>1, <2>2 DEF Right, BlockHash
  <2>4. \/ pc = "folding" /\ (pc' = pc \/ (pc' = "done" /\ verdict' # "wrong"))
        \/ pc' = pc /\ verdict' = verdict
    BY <1>3 DEF FoldBlock, Conclude, vars, challenge
  <2> QED
    BY <1>1, <2>2, <2>3, <2>4 DEF VerdictInv
<1>4. ASSUME \/ InsertBlock \/ InsertParent \/ StoreTable \/ Parse \/ NextChallenge
             \/ \E x \in 0..(MaxBlocks - 1) : Draw(x)
             \/ \E lost \in SUBSET drawn : Ask(lost)
      PROVE  VerdictInv'
  <2>1. pc' \notin {"folding", "done"}
    BY <1>4 DEF InsertBlock, InsertParent, StoreTable, Parse, NextChallenge, Draw, Ask
  <2> QED
    BY <1>1, <2>1 DEF VerdictInv
<1> QED
  BY <1>2, <1>3, <1>4 DEF Next

-----------------------------------------------------------------------------
(* Theorems                                                                *)

\* When the node is asked a fifth of the blocks, rounded up, has been drawn, and no
\* block more; validate folds no block it has no hash for.
AFifthAsked ==
    pc \in {"answered", "folding", "done"} =>
        /\ n <= 5 * Cardinality(drawn) /\ 5 * Cardinality(drawn) < n + 5
        /\ DOMAIN answer = 1..Cardinality(drawn) /\ (pc = "folding" => i \in DOMAIN answer)

\* The loop of challengeMethodHandler that takes every 0 out again and validate's
\* second loop do so, for any number of blocks, whatever rand() returns.  (The
\* code adds doubles: up to 26 blocks, the 8 to 25 of its files among them, they
\* end the loop where this fifth does.)
THEOREM AlwaysAFifthAsked == Spec => []AFifthAsked
<1>1. Init => DrawInv
  BY DrawInit
<1>2. DrawInv /\ [Next]_vars => DrawInv'
  BY DrawNext
<1>3. DrawInv => AFifthAsked
  BY DrawnAre DEF DrawInv, AFifthAsked, Fifth
<1> QED
  BY <1>1, <1>2, <1>3, PTL DEF Spec

\* No lost block that was drawn goes unnoticed by RpiAuth::validate, and none is
\* suspected that is there, whatever blocks are drawn and whichever are lost.
THEOREM WrongHashesNoticed == Spec /\ []TableLeadsToRoot => []WrongHashNoticed
<1>1. Init => DrawInv /\ VerdictInv
  BY DrawInit DEF Init, VerdictInv
<1>2. DrawInv /\ [Next]_vars => DrawInv'
  BY DrawNext
<1>3. DrawInv /\ VerdictInv /\ TableLeadsToRoot' /\ [Next]_vars => VerdictInv'
  BY VerdictNext
<1>4. DrawInv /\ VerdictInv => WrongHashNoticed
  BY DEF DrawInv, VerdictInv, WrongHashNoticed, Right
<1> QED
  BY <1>1, <1>2, <1>3, <1>4, PTL DEF Spec
=============================================================================
