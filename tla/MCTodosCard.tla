---------------------------- MODULE MCTodosCard ----------------------------
(***************************************************************************)
(* Model checking of TodosCard.  Each behaviour has one mix of gestures:   *)
(* the state spaces of the mixes add up instead of multiplying.            *)
(***************************************************************************)
EXTENDS TodosCard

CONSTANTS t1, t2, new1, new2

TasksDef == {t1, t2}
TempsDef == {new1, new2}

Open1 == t1 :> Row(FALSE, 0)
Both == Open1 @@ (t2 :> Row(FALSE, 0))

Mix(kinds, view, tasks, old) ==
    [gestures |-> kinds, view |-> view, tasks |-> tasks, old |-> old]

GesturesDef ==
    {Mix({"toggle", "retry", "focus"}, "default", Open1, Open1),
     Mix({"toggle", "push", "retry"}, "all", Open1, Open1),
     Mix({"toggle", "edit", "sheet", "retry"}, "default", Open1, Open1),
     Mix({"toggle", "delete", "retry"}, "default", Open1, Open1),
     Mix({"toggle", "create", "retry", "context"}, "default", Empty, Empty),
     Mix({"toggle", "push", "context", "create"}, "default", Open1, Open1)}
=============================================================================
