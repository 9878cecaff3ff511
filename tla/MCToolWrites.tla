----------------------------- MODULE MCToolWrites -----------------------------
(***************************************************************************)
(* Two workers serve tool calls about one task that may be in either of    *)
(* two collections, under the name `${uid}.ics` or another client's.       *)
(***************************************************************************)
EXTENDS ToolWrites, TLC

CONSTANTS w1, w2, tasks, other, todo, noBody, noName, ios, g1, g2

MCCollections == {tasks, other}
MCUris == (MCCollections \X TaskUids) \cup {<<tasks, <<ios>>>>}
MCBodies == TaskBody
MCUidOf == [b \in MCBodies |-> <<b.coll, b.uid>>]
MCMixes == {{"update", "update-complete", "complete", "dav-edit"}, {"move", "dav-edit"},
            {"move", "delete", "update"}}
Symmetry == Permutations({w1, w2}) \cup Permutations({g1, g2})
=============================================================================
