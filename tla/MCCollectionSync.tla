--------------------------- MODULE MCCollectionSync ---------------------------
(* Small instances of CollectionSync.                                      *)
EXTENDS CollectionSync, TLC

CONSTANTS x1, y1

MCBodies == {x1, y1}
MCUidOf == (x1 :> "X") @@ (y1 :> "Y")

MCUnconditional == {Unconditional}
NoIf == {{}}

Symmetry == Permutations(Workers)
=============================================================================
