-------------------------- MODULE BlockSizeProofs --------------------------
(***************************************************************************)
(* Proofs about BlockSize for files of every length and for every choice   *)
(* of the three numbers it is written with.                                *)
(***************************************************************************)
EXTENDS BlockSize, Integers, TLAPS

\* A quotient is a natural number, and that by 1 is the dividend.
LEMMA Quotients ==
    ASSUME NEW a \in Nat, NEW b \in Nat, b >= 1
    PROVE  /\ a \div b \in Nat
           /\ b = 1 => a \div b = a
OBVIOUS

\* A quotient that is not 0 is one by a divisor that is at most the dividend.
LEMMA DivisorBound ==
    ASSUME NEW a \in Nat, NEW b \in Nat, b >= 1, NEW c \in Nat, c >= 1, a \div b >= c
    PROVE  c * b <= a
OBVIOUS

\* What halving does to a size that is at least 2.
LEMMA Halves ==
    ASSUME NEW b \in Nat
    PROVE  /\ b \div 2 \in Nat
           /\ b \div 2 <= b
           /\ b >= 2 => b \div 2 >= 1
OBVIOUS

\* The invariant holds at first.
LEMMA InitInv == Init => Inv
<1> SUFFICES ASSUME Init PROVE Inv
  OBVIOUS
<1>1. TypeOK
  BY SizesAssumption, Quotients DEF Init, TypeOK
<1> QED
  BY <1>1, SizesAssumption DEF Init, Inv, LongEnoughSucceeds, NoOverflow

\* Every step keeps it.
LEMMA NextInv == Inv /\ [Next]_vars => Inv'
<1> SUFFICES ASSUME Inv, [Next]_vars PROVE Inv'
  OBVIOUS
<1> USE SizesAssumption DEF Inv, TypeOK, LongEnoughSucceeds, NoOverflow
<1>0. fileLength \in Nat
  OBVIOUS
<1>1. CASE Halve
  <2>1. blockSize' \in Nat /\ blockSize' <= blockSize
    BY <1>1, Halves DEF Halve
  <2>2. fileLength' = fileLength
    BY <1>1 DEF Halve
  <2>3. CASE blockSize' = 0
    \* The size was 1, the quotient the length itself.
    <3>1. blockSize = 1 /\ pc = "loop"
      BY <1>1, <2>3, Halves DEF Halve
    <3>2. blockCount = fileLength
      BY <3>1, <1>0, Quotients
    <3>3. fileLength < MIN_BLOCK_COUNT
      BY <1>1, <3>2 DEF Halve
    <3> QED
      BY <1>1, <2>1, <2>2, <2>3, <3>3 DEF Halve
  <2>4. CASE blockSize' # 0
    <3>1. blockSize' >= 1 /\ blockCount' = fileLength \div blockSize' /\ pc' = "loop"
      BY <1>1, <2>1, <2>4 DEF Halve
    <3>2. blockCount' \in Nat
      BY <1>0, <2>1, <3>1, Quotients
    <3>3. blockSize' <= DEFAULT_BLOCKSIZE \/ blockSize' <= fileLength
      BY <1>0, <2>1
    <3> QED
      BY <2>1, <2>2, <3>1, <3>2, <3>3
  <2> QED
    BY <2>3, <2>4
<1>2. CASE Double
  <2>1. /\ fileLength' = fileLength /\ pc' = "loop" /\ pc = "loop"
        /\ blockSize' = blockSize * 2 /\ blockCount' = fileLength \div blockSize'
    BY <1>2 DEF Double
  <2>2. blockSize' \in Nat /\ blockSize' >= 1
    BY <2>1
  <2>3. blockCount' \in Nat
    BY <1>0, <2>1, <2>2, Quotients
  \* More than twice the size fits into the file.
  <2>4. fileLength \div blockSize >= 2 /\ blockSize \in Nat /\ blockSize >= 1
    BY <1>2, <2>1 DEF Double
  <2>5. 2 * blockSize <= fileLength
    BY <1>0, <2>4, DivisorBound
  <2>6. blockSize' <= fileLength'
    BY <2>1, <2>4, <2>5
  <2> QED
    BY <2>1, <2>2, <2>3, <2>6
<1>3. CASE Return
  BY <1>3 DEF Return
<1>4. CASE UNCHANGED vars
  BY <1>4 DEF vars
<1> QED
  BY <1>1, <1>2, <1>3, <1>4 DEF Next

\* The count is the quotient by the size, which is not 0 and overflows no int,
\* in every step of getBlockSize.
THEOREM InvHolds == Spec => []Inv
  BY InitInv, NextInv, PTL DEF Spec

\* getBlockSize cuts a file of any length that it is given and returns for into
\* a number of blocks between the two bounds.
THEOREM ResultInRange == Spec => []BlocksInRange
<1>1. Inv => BlocksInRange
  <2> SUFFICES ASSUME Inv, pc = "done" PROVE Blocks \in MIN_BLOCK_COUNT..(MAX_BLOCK_COUNT + 1)
    BY DEF BlocksInRange
  <2>1. fileLength \div blockSize \in MIN_BLOCK_COUNT..MAX_BLOCK_COUNT
    BY DEF Inv
  <2> QED
    BY <2>1, SizesAssumption DEF Blocks
<1> QED
  BY <1>1, InvHolds, PTL

\* getBlockSize never divides by 0 for a file of at least MIN_BLOCK_COUNT bytes.
THEOREM LongFilesSucceed == Spec => []LongEnoughSucceeds
<1>1. Inv => LongEnoughSucceeds
  BY DEF Inv
<1> QED
  BY <1>1, InvHolds, PTL
=============================================================================
