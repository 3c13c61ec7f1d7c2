---------------------------- MODULE MCBlockSize ----------------------------
(* Instances of BlockSize for TLC.                                         *)
EXTENDS BlockSize

\* All short files, and longer ones around the lengths at which the number
\* of steps changes, up to the largest int.
Near(x) == (x - 2)..(x + 2)
SomeLengths ==
    (0..1000)
    \cup UNION {Near(k * DEFAULT_BLOCKSIZE) : k \in {1, 8, 16, 24, 25, 48, 50, 100, 400}}
    \cup {2147483646, 2147483647}
=============================================================================
