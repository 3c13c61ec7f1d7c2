------------------------------ MODULE BlockSize ------------------------------
(***************************************************************************)
(* getBlockSize of Utils.cpp: halve or double the block size until the     *)
(* file has neither too few nor too many whole blocks.  The caller passes  *)
(* the length of the file, a size_t, as an int (RestServer.cpp:308): a     *)
(* file longer than the largest int comes as another length, or a negative *)
(* one, and nothing is said of it here.                                    *)
(***************************************************************************)
EXTENDS Naturals

CONSTANTS
    Lengths,             \* the lengths of the files, as an int holds them
    DEFAULT_BLOCKSIZE, MIN_BLOCK_COUNT, MAX_BLOCK_COUNT

ASSUME SizesAssumption ==
    /\ Lengths \subseteq Nat
    /\ DEFAULT_BLOCKSIZE \in Nat \ {0}
    /\ MIN_BLOCK_COUNT \in Nat \ {0}
    /\ MAX_BLOCK_COUNT \in Nat /\ MAX_BLOCK_COUNT >= 2 * MIN_BLOCK_COUNT

VARIABLES fileLength, blockSize, blockCount, pc

vars == <<fileLength, blockSize, blockCount, pc>>

Init ==
    /\ fileLength \in Lengths
    /\ blockSize = DEFAULT_BLOCKSIZE
    /\ blockCount = fileLength \div DEFAULT_BLOCKSIZE
    /\ pc = "loop"

\* Mutant: the quotient is not computed again.
HalveStale ==
    /\ pc = "loop" /\ blockCount < MIN_BLOCK_COUNT
    /\ blockSize' = blockSize \div 2
    /\ pc' = IF blockSize' = 0 THEN "fault" ELSE "loop"
    /\ UNCHANGED <<fileLength, blockCount>>

\* Too few blocks.  The test of blockSize for 0 comes after the division by
\* it, which ends the process.
Halve ==
    /\ pc = "loop" /\ blockCount < MIN_BLOCK_COUNT
    /\ blockSize' = blockSize \div 2
    /\ \/ /\ blockSize' = 0
          /\ pc' = "fault"
          /\ UNCHANGED blockCount
       \/ /\ blockSize' # 0
          /\ blockCount' = fileLength \div blockSize'
          /\ UNCHANGED pc
    /\ UNCHANGED fileLength

\* Mutant: the size is not changed.
DoubleNothing ==
    /\ pc = "loop" /\ blockCount > MAX_BLOCK_COUNT
    /\ blockCount' = fileLength \div blockSize
    /\ UNCHANGED <<fileLength, blockSize, pc>>

\* Too many blocks.
Double ==
    /\ pc = "loop" /\ blockCount > MAX_BLOCK_COUNT
    /\ blockSize' = blockSize * 2
    /\ blockCount' = fileLength \div blockSize'
    /\ UNCHANGED <<fileLength, pc>>

\* Mutant: the upper bound is not looked at.
ReturnEnough ==
    /\ pc = "loop" /\ blockCount >= MIN_BLOCK_COUNT
    /\ pc' = "done"
    /\ UNCHANGED <<fileLength, blockSize, blockCount>>

Return ==
    /\ pc = "loop"
    /\ blockCount >= MIN_BLOCK_COUNT /\ blockCount <= MAX_BLOCK_COUNT
    /\ pc' = "done"
    /\ UNCHANGED <<fileLength, blockSize, blockCount>>

Next == Halve \/ Double \/ Return

Spec == Init /\ [][Next]_vars

\* The loop runs on.
FairSpec == Spec /\ WF_vars(Next)

-----------------------------------------------------------------------------

TypeOK ==
    /\ fileLength \in Lengths
    /\ blockSize \in Nat /\ blockCount \in Nat
    /\ pc \in {"loop", "done", "fault"}

\* The blocks generateBTree cuts the file into: the last one may be shorter.
Blocks == fileLength \div blockSize + IF fileLength % blockSize = 0 THEN 0 ELSE 1

\* What generateBTree and the challenge rely on: a file of a length that is an
\* int is cut into at least MIN_BLOCK_COUNT blocks and at most one more than
\* MAX_BLOCK_COUNT, however the halving and doubling went.
BlocksInRange == pc = "done" => Blocks \in MIN_BLOCK_COUNT..(MAX_BLOCK_COUNT + 1)

\* A file with a byte for each of MIN_BLOCK_COUNT blocks, of a length that is an
\* int, gets a block size: the size never reaches 0.
LongEnoughSucceeds == fileLength >= MIN_BLOCK_COUNT => pc # "fault"

\* Doubling never makes the size greater than the file is long, hence no int
\* overflows.
NoOverflow == blockSize <= DEFAULT_BLOCKSIZE \/ blockSize <= fileLength

\* The loop ends: halving and doubling do not undo each other for ever.
Terminates == <>(pc # "loop")

\* The inductive invariant: the count is the quotient, by a size that is not
\* 0 unless the loop has failed.
Inv ==
    /\ TypeOK
    /\ pc # "fault" => blockSize >= 1 /\ blockCount = fileLength \div blockSize
    /\ pc = "done" => blockCount \in MIN_BLOCK_COUNT..MAX_BLOCK_COUNT
    /\ LongEnoughSucceeds
    /\ NoOverflow

-----------------------------------------------------------------------------

\* PoDP_Anukriti_Shrimal.tex:211: the server calculates the block size from the
\* size of the file it receives.  Utils.cpp:138 means to return 2 for the
\* smallest files.
EveryFileGetsABlockSize == pc # "fault"
=============================================================================
