-------------------------------- MODULE MCSync --------------------------------
(* Small instances of SyncClients and of its refinement of ChangeFeed.     *)
EXTENDS SyncRefinement, TLC

CONSTANTS x1, x2

(* Two versions of one resource.                                           *)
MCBodies == {x1, x2}
MCUidOf == (x1 :> "X") @@ (x2 :> "X")

MCConds == {Unconditional, [kind |-> "must-match", etags |-> {x1}]}
NoIf == {{}}
=============================================================================
