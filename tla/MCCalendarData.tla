--------------------------- MODULE MCCalendarData ---------------------------
(* Four slots a day; an eastern and a western zone half a day from UTC, and  *)
(* a zone that changes to daylight saving in the middle of the week looked at. *)
EXTENDS TodoEdits

MCZones  == {"east", "west", "dst"}
MCBefore == [z \in MCZones |-> CASE z = "east" -> 2 [] z = "west" -> -2 [] z = "dst" -> 1]
MCAfter  == [MCBefore EXCEPT !["dst"] = 2]

D(at)    == [zone |-> "date", at |-> at]
U(at)    == [zone |-> "utc", at |-> at]
F(at)    == [zone |-> "floating", at |-> at]
Z(z, at) == [zone |-> z, at |-> at]
Dur(d, s) == [days |-> d, slots |-> s]
Busy(start, end, dur) == Component(start, end, dur, "busy")
Rule(step, count, until) == [step |-> step, count |-> count, until |-> until]
RDate(v) == [start |-> v, end |-> None]
Override(rid, comp) == [rid |-> rid, comp |-> comp]
Event(c) == [NoEvent EXCEPT !.master = c, !.shipped = {c.start.zone} \cap MCZones]

Daily(e) == [e EXCEPT !.rule = Rule(1, 0, None)]
Thrice(e) == [e EXCEPT !.rule = Rule(1, 3, None)]

MCClientEvents == {
    Event(Busy(F(17), None, NoDur)),                          \* a moment, local time
    Event(Component(D(16), D(24), NoDur, "tentative")),       \* two days
    Event(Component(Z("dst", 17), None, Dur(1, 1), "free")),  \* over the change
    Thrice(Event(Busy(D(16), None, NoDur))),
    Daily(Event(Busy(Z("dst", 13), Z("dst", 15), NoDur))),
    Daily(Event(Busy(Z("dst", 15), None, Dur(1, 0)))),
    \* the second of three moved a day after the last, the third excluded
    [Thrice(Event(Busy(Z("east", 14), Z("east", 16), NoDur))) EXCEPT
        !.overrides = {Override(Z("east", 18), Component(Z("east", 27), Z("east", 29), NoDur, "tentative"))},
        !.exdates = {Z("east", 22)}],
    \* a later occurrence moved before the first, in another zone
    [Daily(Event(Busy(U(17), U(19), NoDur))) EXCEPT
        !.overrides = {Override(U(25), Busy(Z("west", 11), Z("west", 13), NoDur))},
        !.shipped = {"west"}],
    \* two overrides of one occurrence, its RECURRENCE-ID in two zones
    [Thrice(Event(Busy(U(16), None, Dur(0, 1)))) EXCEPT
        !.overrides = {Override(U(24), Busy(U(13), None, Dur(0, 1))),
                       Override(Z("west", 22), Busy(Z("west", 24), None, Dur(0, 1)))},
        !.shipped = {"west"}],
    \* a last day excluded in UTC only
    [Event(Busy(U(12), None, Dur(0, 1))) EXCEPT !.rule = Rule(3, 2, None), !.exdates = {F(24)}],
    \* an occurrence both moved and excluded
    [Daily(Event(Busy(F(18), None, Dur(0, 2)))) EXCEPT
        !.overrides = {Override(F(22), Busy(F(13), None, Dur(0, 1)))},
        !.exdates = {F(22)}],
    \* extra dates, one with an end of its own, one in another zone
    [Event(Busy(D(20), D(24), NoDur)) EXCEPT
        !.rdates = <<[start |-> D(12), end |-> D(20)], RDate(D(24))>>],
    [Event(Component(Z("west", 16), Z("west", 17), NoDur, "busy")) EXCEPT
        !.rule = Rule(2, 0, U(26)), !.rdates = <<RDate(Z("east", 15))>>,
        !.exdates = {Z("west", 24)}, !.shipped = {"east", "west"}]
  }

Todo(start, due, alarms) ==
    [BareTodo EXCEPT !.start = start, !.due = due, !.alarms = alarms,
                   !.shipped = {start.zone, due.zone} \cap MCZones]
Repeats(t, rule) == [t EXCEPT !.rule = rule]

MCClientTodos == {
    Todo(None, None, {AtPlace}),
    Todo(None, F(19), {Absolute(19)}),
    Todo(D(16), D(16), {Absolute(17)}),                        \* iOS, all day, at a time
    Todo(Z("dst", 17), Z("dst", 19), {Absolute(16), Relative}),
    Todo(Z("west", 23), Z("west", 15), {}),                    \* due before it starts
    [Todo(Z("west", 14), None, {Relative}) EXCEPT !.dur = Dur(1, 1)],
    Repeats(Todo(D(16), D(16), {Absolute(15)}), Rule(1, 0, None)),
    Repeats(Todo(D(12), D(16), {}), Rule(1, 0, D(20))),
    Repeats(Todo(F(17), F(18), {Absolute(17)}), Rule(2, 3, None)),
    Repeats(Todo(Z("dst", 13), Z("dst", 13), {Absolute(12), AtPlace}), Rule(1, 0, U(20))),
    Repeats(Todo(Z("east", 17), Z("east", 17), {Absolute(15), Relative}), Rule(1, 2, None))
  }

MCDates  == {D(16), D(20), Z("east", 17), Z("west", 19)}
MCRules  == {[step |-> 1, count |-> 0, day |-> 20], [step |-> 2, count |-> 2, day |-> NoDay]}
\* a patch changes at most two of the three
MCPatches ==
    {p \in [start : MCDates \cup {Keep}, end : MCDates \cup {Keep, None},
           rule : {KeepRule, DropRule} \cup {SetRule(r) : r \in MCRules}] :
       p.start = Keep \/ p.end = Keep \/ p.rule = KeepRule}
MCTodoPatches ==
    {p \in [due : MCDates \cup {Keep, None}, rule : {KeepRule, DropRule} \cup {SetRule(r) : r \in MCRules},
            status : {"keep", "complete", "reopen"}, place : {"keep", "set", "remove"}] :
       p.place = "keep" \/ p.status = "keep"}
Points   == {12, 16, 17, 20, 23, 28}
MCRanges == {r \in [start : Points, end : Points] : r.start < r.end}
MCReaders == {"UTC", "east", "west"}
=============================================================================
