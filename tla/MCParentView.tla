---------------------------- MODULE MCParentView ----------------------------
(***************************************************************************)
(* The subnet is created at parent height 1; a block is final one height   *)
(* below the head.  Small limits make the range, the delay and the cache   *)
(* limit all bind within a few heights.                                    *)
(***************************************************************************)
EXTENDS ParentView, TLC

CONSTANTS k1, k2

MCHashes == (1..MaxHeight) \X (1..MaxForks)
MCPower == (k1 :> 1) @@ (k2 :> 1)
MCNoUpdates == {}
MCUpdates == {(k2 :> 2)}
=============================================================================
