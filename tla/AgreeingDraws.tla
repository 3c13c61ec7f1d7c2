---------------------------- MODULE AgreeingDraws ----------------------------
(***************************************************************************)
(* For the smallest secured files, of 8 and of 9 blocks, the challenges    *)
(* for which RpiAuth::validate folds the same top hash from each block     *)
(* drawn, as pairs of the number of blocks and the blocks.  Module         *)
(* MCRpiAuth checks this list against RpiAuth; module MCPdpServer uses it. *)
(***************************************************************************)
EXTENDS Naturals

AgreeingDraws ==
    ({8} \X {{2, 3}, {4, 5}, {4, 6}, {4, 7}, {5, 6}, {5, 7}, {6, 7}})
    \cup ({9} \X {{4, 5}, {4, 6}, {5, 6}, {7, 8}})
=============================================================================
