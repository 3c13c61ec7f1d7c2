---------------------------- MODULE MCPdpServer ----------------------------
(* Small instances of PdpServer for TLC.                                   *)
EXTENDS PdpServer, AgreeingDraws, TLC

CONSTANTS u1, u2, q1, n1, n2, f1, f2, x, y

\* Eight and nine blocks: the smallest secured files, of different lengths.
DataX == [i \in 1..8 |-> x]
DataY == [i \in 1..9 |-> y]

SecuredX   == [name |-> f1, data |-> DataX, secured |-> TRUE]
SecuredY   == [name |-> f1, data |-> DataY, secured |-> TRUE]
UnsecuredY == [name |-> f1, data |-> DataY, secured |-> FALSE]
OtherX     == [name |-> f2, data |-> DataX, secured |-> FALSE]

AllSecured   == {SecuredX, SecuredY}
MixedRequests == {SecuredX, SecuredY, UnsecuredY, OtherX}
FaultRequests == {SecuredX, UnsecuredY}

\* Uploads and nodes are interchangeable for safety.
Symmetry == Permutations({u1, u2}) \cup Permutations({n1, n2})
=============================================================================
