---------------------------- MODULE MCAgendaCard ----------------------------
(***************************************************************************)
(* Model checking of AgendaCard: three days, two months that share a day,  *)
(* two calendars, one event that repeats.  Each behaviour has one mix of   *)
(* gestures.                                                               *)
(***************************************************************************)
EXTENDS AgendaCard

CONSTANTS e1, e2, e3, new1, new2, home, work

EventsDef == {e1, e2, e3}
TempsDef == {new1, new2}
RecurringDef == {e2}
CalendarsDef == {home, work}
DaysDef == 1..3
MonthGridDef == (1 :> {1, 2}) @@ (2 :> {2, 3})
DefaultDef == {1, 2, 3}

One == e1 :> Ev(1, 0, home)
Other == e2 :> Ev(2, 0, work)

Mix(kinds, events) ==
    [gestures |-> kinds, list |-> events, old |-> Empty, scope |-> "all", full |-> FALSE,
     created |-> Ev(1, 0, home), born |-> Empty, outside |-> 0]

GesturesDef ==
    {[Mix({"view", "context", "retry"}, One) EXCEPT !.full = TRUE, !.outside = 1],
     [Mix({"view", "filter"}, One @@ Other) EXCEPT !.full = TRUE],
     Mix({"filter", "retry", "delete"}, One @@ Other),
     Mix({"edit", "retry"}, Other),
     Mix({"edit", "delete"}, One),
     [Mix({"delete", "retry", "focus"}, One) EXCEPT !.outside = 1],
     [Mix({"create", "delete", "retry"}, Empty) EXCEPT !.created = Ev(2, 0, work)],
     [Mix({"create", "view", "context"}, One) EXCEPT !.full = TRUE],
     [Mix({"create", "push", "focus"}, One) EXCEPT !.old = One, !.scope = home],
     [Mix({"delete", "view", "sheet"}, One) EXCEPT !.born = One, !.full = TRUE]}
=============================================================================
