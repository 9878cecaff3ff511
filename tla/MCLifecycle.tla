----------------------------- MODULE MCLifecycle -----------------------------
(* Small instances of CollectionLifecycle.                                 *)
EXTENDS CollectionLifecycle, TLC

CONSTANTS x1, y1

MCBodies == {x1, y1}
MCUidOf == (x1 :> "X") @@ (y1 :> "Y")

MCUnconditional == {Unconditional}
NoIf == {{}}

Symmetry == Permutations(Workers)
=============================================================================
