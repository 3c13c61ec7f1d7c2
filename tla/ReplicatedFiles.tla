--------------------------- MODULE ReplicatedFiles ---------------------------
(***************************************************************************)
(* What the proxy promises about its uploads: one upload at a time is      *)
(* taken through.  It may be registered (its authentication table stored)  *)
(* before any node has it; then every node gets its data, all of it, under *)
(* its name, once; and only then the next one begins.                      *)
(***************************************************************************)
CONSTANTS
    Nodes,      \* the replicas
    Keys,       \* the names files are stored under
    Contents,   \* what clients upload
    Lost,       \* a block a replica lost
    None,       \* no upload under way
    Empty,      \* the value of a name never stored
    CanMiss     \* whether a node may fail to get an upload

VARIABLES
    registered,   \* the table kept of each name
    replica,      \* the files of each node
    upload        \* the upload under way

vars == <<registered, replica, upload>>

Init ==
    /\ registered = [k \in Keys |-> Empty]
    /\ replica = [n \in Nodes |-> [k \in Keys |-> Empty]]
    /\ upload = None

\* The next upload begins: no node has it yet.
Begin(k, d) ==
    /\ upload = None
    /\ upload' = [key |-> k, data |-> d, missing |-> Nodes]
    /\ UNCHANGED <<registered, replica>>

Register ==
    /\ upload # None /\ upload.missing = Nodes
    /\ registered' = [registered EXCEPT ![upload.key] = upload.data]
    /\ UNCHANGED <<replica, upload>>

Deliver(n) ==
    /\ upload # None /\ n \in upload.missing
    /\ replica' = [replica EXCEPT ![n][upload.key] = upload.data]
    /\ upload' = [upload EXCEPT !.missing = @ \ {n}]
    /\ UNCHANGED registered

\* A node that is down is not tried again.
Miss(n) ==
    /\ CanMiss
    /\ upload # None /\ n \in upload.missing
    /\ upload' = [upload EXCEPT !.missing = @ \ {n}]
    /\ UNCHANGED <<registered, replica>>

End ==
    /\ upload # None /\ upload.missing = {}
    /\ upload' = None
    /\ UNCHANGED <<registered, replica>>

\* A replica loses a block, uploads or not.
Lose(n, k) ==
    /\ \E b \in DOMAIN replica[n][k] : replica' = [replica EXCEPT ![n][k][b] = Lost]
    /\ UNCHANGED <<registered, upload>>

Next ==
    \/ \E k \in Keys, d \in Contents : Begin(k, d)
    \/ Register
    \/ \E n \in Nodes : Deliver(n) \/ Miss(n)
    \/ End
    \/ \E n \in Nodes, k \in Keys : Lose(n, k)

Spec == Init /\ [][Next]_vars
=============================================================================
