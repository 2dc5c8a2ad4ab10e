---------------------------- MODULE MCVoteTally ----------------------------
(***************************************************************************)
(* Three validators with powers 2, 1, 1 (threshold 3 of 4), one of which   *)
(* may be removed or outgrow the others; two branches of the parent.       *)
(***************************************************************************)
EXTENDS VoteTally, TLC

CONSTANTS k1, k2, k3

MCPowerTables == {(k1 :> 2) @@ (k2 :> 1) @@ (k3 :> 1)}
MCPowerUpdates == {(k2 :> 0), (k3 :> 3)}
=============================================================================
