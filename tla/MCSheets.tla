------------------------------- MODULE MCSheets -------------------------------
(* A device half a day east of UTC, and one task or event it shares with    *)
(* clients in other zones.                                                   *)
EXTENDS EventSheet

\* "brink" has daylight saving, which skips the first slot of day 20
MCZones  == {"east", "west", "brink"}
MCBefore == [z \in MCZones |-> IF z = "east" THEN 2 ELSE -2]
MCAfter  == [z \in MCZones |-> CASE z = "east" -> 2 [] z = "west" -> -2 [] z = "brink" -> -1]

D(at)    == [zone |-> "date", at |-> at]
U(at)    == [zone |-> "utc", at |-> at]
F(at)    == [zone |-> "floating", at |-> at]
Z(z, at) == [zone |-> z, at |-> at]
Rule(step, count, until) == [step |-> step, count |-> count, until |-> until]

Todo(due, rule) ==
    [BareTodo EXCEPT !.start = due, !.due = due, !.rule = rule, !.shipped = {due.zone} \cap MCZones]

MCClientTodos == {
    Todo(D(16), Rule(1, 0, D(20))),
    Todo(Z("east", 17), Rule(1, 0, U(19))),
    Todo(Z("west", 17), Rule(1, 3, None)),
    Todo(Z("brink", 16), Rule(1, 0, None)),
    [Todo(F(18), NoRule) EXCEPT !.start = None]
  }

NoPatch == [due |-> Keep, rule |-> KeepRule, status |-> "keep", place |-> "keep"]
MCTodoPatches ==
    {[NoPatch EXCEPT !.due = D(20)],
     [NoPatch EXCEPT !.rule = DropRule]}

NoEventPatch == [start |-> Keep, end |-> Keep, rule |-> KeepRule]
Event(start, end, dur, rule) ==
    [NoEvent EXCEPT !.master = Component(start, end, dur, "busy"), !.rule = rule,
                    !.shipped = {start.zone} \cap MCZones]

\* single and repeated, all day and timed, an end in another zone's evening,
\* a DURATION, an occurrence moved by an override
MCClientEvents == {
    Event(D(16), D(24), NoDur, NoRule),
    [Event(Z("west", 17), None, [days |-> 0, slots |-> 1], Rule(1, 3, None)) EXCEPT
        !.overrides = {[rid |-> Z("west", 21), comp |-> Component(Z("west", 22), Z("west", 23), NoDur, "busy")]}],
    Event(U(18), U(20), NoDur, Rule(2, 0, U(26)))
  }

MCEventPatches ==
    {[NoEventPatch EXCEPT !.start = Z("east", 20), !.end = Z("east", 22)]}

MCSheetWindow == [start |-> 12, end |-> 24]
=============================================================================
