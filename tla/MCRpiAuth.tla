----------------------------- MODULE MCRpiAuth -----------------------------
(* Instances of RpiAuth for TLC.                                           *)
EXTENDS RpiAuth, AgreeingDraws

LeafHeap     == 1..32
InnerHeap    == 33..64
Smallest     == {8}
SmallFiles   == 8..9
MediumFiles  == 8..14
AllFiles     == 8..25

\* The list module MCPdpServer uses says what validate does.
AgreeingDrawsAreRight ==
    pc = "done" /\ n \in SmallFiles /\ verdict # "wrong" =>
        (verdict = "match" <=> <<n, drawn>> \in AgreeingDraws)
=============================================================================
