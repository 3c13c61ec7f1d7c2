---------------------------- MODULE OrderedIndex ----------------------------
(***************************************************************************)
(* What an index of records by key promises: it is a function from the     *)
(* keys it holds to their records.                                         *)
(***************************************************************************)
CONSTANTS Keys, Versions

VARIABLE items      \* the pairs of a key and its record

\* The record of a key in some version.
Record(k, v) == <<k, v>>

Holds(k) == \E p \in items : p[1] = k

Init == items = {}

Insert(k, v) == ~Holds(k) /\ items' = items \cup {<<k, Record(k, v)>>}

Delete(k) == Holds(k) /\ items' = {p \in items : p[1] # k}

Destroy == items' = {}

\* A step changes what the index holds, as an operation under way does once.
Next ==
    /\ items' # items
    /\ \/ \E k \in Keys : \E v \in Versions[k] : Insert(k, v)
       \/ \E k \in Keys : Delete(k)
       \/ Destroy

Spec == Init /\ [][Next]_items
=============================================================================
