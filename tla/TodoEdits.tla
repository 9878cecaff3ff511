------------------------------ MODULE TodoEdits ------------------------------
(***************************************************************************)
(* One task object as clients and the task tools write it, what completing *)
(* an occurrence of a series leaves of it, and what the task list and a    *)
(* time-range query then say.  A resource holds either an event            *)
(* (EventEdits) or a task.                                                 *)
(* Source: application/usecases/create-todo.ts, update-todo.ts,            *)
(* complete-todo.ts, recurring-completion.ts, list-todos.ts, task-dto.ts;  *)
(* domain/ical/semantics/vtodo-patch.ts, vtodo-recurrence.ts,              *)
(* vtodo-write.ts, vtodo.ts (validate), valarm-write.ts;                   *)
(* domain/ical/recurrence/occurrence-bounds.ts (computeVTodoBounds).       *)
(***************************************************************************)
EXTENDS EventEdits

CONSTANTS
    ClientTodos,    \* the tasks clients store
    TodoPatches,    \* the changes update-todo is given: [due, rule, status, place]
    Now             \* the instant tools stamp CREATED and COMPLETED with

TodoPatch == [due : ToolDate \cup {Keep, None}, rule : RulePatch,
              status : {"keep", "complete", "reopen"}, place : {"keep", "set", "remove"}]

VARIABLES
    todo,    \* the stored task, or NoTodo
    touches  \* tool calls since a client or create-todo wrote it
todoVars == <<todo, touches>>

\* alarms: absolute ones (an instant), those relative to the dates, and at
\* most one that goes off at a place (X-APPLE-PROXIMITY)
Absolute(at) == [trigger |-> "absolute", at |-> at]
Relative     == [trigger |-> "relative", at |-> 0]
AtPlace      == [trigger |-> "place", at |-> 0]
Alarm        == [trigger : {"absolute", "relative", "place"}, at : Int]

Task == [start : Value \cup {None}, due : Value \cup {None}, dur : Duration, rule : RRule \cup {NoRule},
         completed : BOOLEAN, alarms : SUBSET Alarm, shipped : SUBSET Zones, stored : {TRUE}]

\* a task that says nothing about time, and the absence of a task
BareTodo == [start |-> None, due |-> None, dur |-> NoDur, rule |-> NoRule,
             completed |-> FALSE, alarms |-> {}, shipped |-> {}, stored |-> TRUE]
NoTodo   == [BareTodo EXCEPT !.stored = FALSE]

ASSUME TasksAssumption == ClientTodos \subseteq Task /\ TodoPatches \subseteq TodoPatch /\ Now \in Nat

-----------------------------------------------------------------------------
(* What a PUT accepts: VTodo.validate.  DUE is compared with DTSTART only   *)
(* where no zone has to be resolved; iOS sends them equal for all-day tasks *)

zonesOf(t) == {t.start.zone, t.due.zone} \cap Zones

ValidTodo(t) ==
    /\ t.due = None \/ t.dur = NoDur
    /\ t.dur # NoDur => t.start # None
    /\ t.start # None /\ t.due # None =>
          /\ sameType(t.start, t.due)
          /\ t.start.zone = t.due.zone /\ t.start.zone \notin Zones => t.due.at >= t.start.at
    /\ t.start # None => validateRRule(t.start, t.rule)
    /\ zonesOf(t) \subseteq t.shipped

-----------------------------------------------------------------------------
(* vtodo-patch.ts *)

\* applyDuePatch: a new due is DTSTART and DUE both, an UNTIL follows its
\* type; removing the due removes both
applyDuePatch(t, due) ==
    IF due = Keep THEN t
    ELSE [t EXCEPT !.start = due, !.due = due,
                   !.rule = IF due = None THEN @ ELSE followUntilValueType(@, due)]

shiftAbsoluteAlarmTriggers(alarms, by) ==
    {IF a.trigger = "absolute" THEN [a EXCEPT !.at = @ + by] ELSE a : a \in alarms}

removeDueAnchoredAlarmTriggers(alarms) == {a \in alarms : a.trigger = "place"}

anchor(t) == IF t.due # None THEN t.due ELSE t.start

\* mutant: the distance on the clock, not in time
wallClockShift(old, new) == new.at - old.at

\* how far absolute alarms move with their date
dueShiftMillis(old, new) == instantOf(new, "UTC") - instantOf(old, "UTC")

patchAlarms(t, patch) ==
    LET moved == CASE patch.due = Keep -> t.alarms
                   [] patch.due = None -> removeDueAnchoredAlarmTriggers(t.alarms)
                   [] OTHER ->
                        IF anchor(t) = None THEN t.alarms
                        ELSE shiftAbsoluteAlarmTriggers(t.alarms, dueShiftMillis(anchor(t), patch.due))
    IN  CASE patch.place = "keep"   -> moved
          [] patch.place = "remove" -> moved \ {AtPlace}
          [] patch.place = "set"    -> moved \cup {AtPlace}

\* the anchor of a new rule is the new due, else the due there is
patchedTodo(t, patch) ==
    LET ruled == [t EXCEPT !.rule =
                    CASE patch.rule.op = "keep"   -> @
                      [] patch.rule.op = "remove" -> NoRule
                      [] patch.rule.op = "set"    ->
                           buildRecurrenceRule(patch.rule.rule, IF patch.due = Keep THEN t.due ELSE patch.due)]
    IN  [applyDuePatch(ruled, patch.due) EXCEPT !.alarms = patchAlarms(t, patch)]

applyCompletion(t) == [t EXCEPT !.completed = TRUE]
applyReopen(t)     == [t EXCEPT !.completed = FALSE]

-----------------------------------------------------------------------------
(* vtodo-recurrence.ts and recurring-completion.ts *)

\* the first instance after the current one, whatever COUNT and UNTIL say
\* (a rule of the model always has one)
nextStart(t) ==
    LET inst(k) == instantOf(reconstruct(t.start, t.rule.step, k), "UTC")
        k == CHOOSE i \in 1 .. Steps : /\ inst(i) > instantOf(t.start, "UTC")
                                       /\ \A j \in 1 .. (i - 1) : inst(j) <= instantOf(t.start, "UTC")
    IN  reconstruct(t.start, t.rule.step, k)

\* mutant: only COUNT ends a series
seriesEndedByCount(t) == t.rule.count = 1

seriesEnded(t) ==
    \/ t.rule.until # None /\ instantOf(nextStart(t), "UTC") > instantOf(t.rule.until, "UTC")
    \/ t.rule.count = 1

countDown(rule) == [rule EXCEPT !.count = IF @ > 0 THEN @ - 1 ELSE @]
later(v, by)    == [v EXCEPT !.at = @ + by]

\* COUNT counts what is left; DUE moves by the wall clock, alarms by instants
advanceMasterToNextOccurrence(t) ==
    LET next == nextStart(t)
    IN  [t EXCEPT
           !.rule = IF seriesEnded(t) THEN @ ELSE countDown(@),
           !.start = next,
           !.due = IF @ = None THEN None ELSE later(@, next.at - t.start.at),
           !.alarms = shiftAbsoluteAlarmTriggers(@, dueShiftMillis(t.start, next))]

\* the master after its occurrence was recorded in a snapshot of its own
completeRecurringTodo(t) ==
    IF seriesEnded(t) THEN applyCompletion(advanceMasterToNextOccurrence(t))
    ELSE applyReopen(advanceMasterToNextOccurrence(t))

-----------------------------------------------------------------------------
(* The task tools *)

acceptsTodoUpdate(t, patch) ==
    /\ patch.due.zone \in Zones => supportedByTools(patch.due.zone)
    \* the due of a series cannot be removed
    /\ patch.due = None /\ t.rule # NoRule => patch.rule = DropRule
    \* a new rule needs a due
    /\ patch.rule.op = "set" => patch.due # None /\ (patch.due = Keep => t.due # None)
    \* completing looks at the stored rule, advancing at the patched one
    /\ patch.status = "complete" /\ t.rule # NoRule =>
          patchedTodo(t, patch).rule # NoRule /\ patchedTodo(t, patch).start # None

\* A completed occurrence goes the way of recurring-completion.ts, which
\* neither adds the zone of a new due nor looks for unused ones.
updatedTodo(t, patch) ==
    LET p == patchedTodo(t, patch)
        zoned(q) == [q EXCEPT !.shipped = (@ \cup ({patch.due.zone} \cap Zones)) \cap zonesOf(q)]
    IN  CASE patch.status = "complete" /\ t.rule # NoRule -> completeRecurringTodo(p)
          [] patch.status = "complete" /\ t.rule = NoRule -> zoned(applyCompletion(p))
          [] patch.status = "reopen" -> zoned(applyReopen(p))
          [] patch.status = "keep"   -> zoned(p)

\* vtodo-write.ts: DTSTART and DUE are the due
buildVTodoCalendar(due, rule, alarms) ==
    [BareTodo EXCEPT !.start = due, !.due = due, !.rule = rule, !.alarms = alarms,
                     !.shipped = {due.zone} \cap Zones]

\* create-todo: with an alarm at the due if it is timed
createdTodo(due, rule) ==
    buildVTodoCalendar(due,
        IF rule = NoRule THEN NoRule ELSE buildRecurrenceRule(rule, due),
        IF due # None /\ isDateTime(due) THEN {Absolute(instantOf(due, "UTC"))} ELSE {})

-----------------------------------------------------------------------------
TodoInit == todo = NoTodo /\ touches = 0

ClientPutTodo(t) ==
    /\ ValidTodo(t)
    /\ todo' = t /\ touches' = 0

CreateTodo(due, rule) ==
    /\ todo = NoTodo
    /\ rule # NoRule => due # None
    /\ due.zone \in Zones => supportedByTools(due.zone)
    /\ todo' = createdTodo(due, rule) /\ touches' = 0

\* update-todo, and complete-todo as the patch of the status alone
UpdateTodo(patch) ==
    /\ todo # NoTodo /\ touches < MaxEdits
    /\ acceptsTodoUpdate(todo, patch)
    /\ ValidTodo(updatedTodo(todo, patch))
    /\ todo' = updatedTodo(todo, patch) /\ touches' = touches + 1

DeleteTodo ==
    /\ todo # NoTodo
    /\ todo' = NoTodo /\ touches' = 0

TodoNext ==
    \/ \E t \in ClientTodos : ClientPutTodo(t)
    \/ \E due \in Dates \cup {None}, rule \in Rules \cup {NoRule} : CreateTodo(due, rule)
    \/ \E patch \in TodoPatches : UpdateTodo(patch)
    \/ DeleteTodo

\* one resource: an event or a task
ObjectInit == Init /\ TodoInit
ObjectNext ==
    \/ todo = NoTodo /\ Next /\ UNCHANGED todoVars
    \/ event = NoEvent /\ TodoNext /\ UNCHANGED vars
ObjectSpec == ObjectInit /\ [][ObjectNext]_<<event, edits, todo, touches>>

-----------------------------------------------------------------------------
(* What is read *)

\* computeVTodoBounds: the rows of RFC 4791 9.9; a rule is not looked at
todoBounds(t) ==
    LET at(v) == instantOf(v, "UTC")
    IN  CASE t.start # None /\ t.dur # NoDur ->
               [first |-> at(t.start), last |-> addDuration(t.start, t.dur, "UTC")]
          [] t.start # None /\ t.dur = NoDur ->
               [first |-> at(t.start), last |-> at(IF t.due # None THEN t.due ELSE t.start)]
          [] t.start = None /\ t.due # None -> [first |-> at(t.due), last |-> at(t.due)]
          [] OTHER -> [first |-> Now, last |-> IF t.completed THEN Now ELSE Forever]

\* list-todos: the due of the task the tool shows, strictly inside the window
filterTasksByWindow(t, includeCompleted, window, reader) ==
    /\ includeCompleted \/ ~t.completed
    /\ t.due # None
    /\ instantOf(t.due, reader) < window.end
    /\ instantOf(t.due, reader) > window.start

-----------------------------------------------------------------------------
(* Properties *)

\* what is left of a series: its instances from DTSTART on, as far as the
\* model unrolls its rule
Remaining(t) ==
    LET e       == [NoEvent EXCEPT !.master = Component(t.start, None, NoDur, "free"), !.rule = t.rule]
        inst(k) == instantOf(reconstruct(t.start, t.rule.step, k), "UTC")
    IN  {inst(k) : k \in ruleInstances(e, [start |-> 0, end |-> inst(Steps) + 1], "UTC")}

\* CompletionTakesOneOccurrence: completing an occurrence of a series leaves
\* exactly the later ones, and ends the series when there is none, whether
\* COUNT or UNTIL bounds it and after the edits that moved it.
CompletionTakesOneOccurrence ==
    todo.rule # NoRule /\ todo.start # None =>
        LET after == completeRecurringTodo(todo)
            first == instantOf(todo.start, "UTC")
            \* as far as the model unrolls a rule without an end
            far   == instantOf(reconstruct(todo.start, todo.rule.step, Steps), "UTC")
        IN  /\ after.completed <=> Remaining(todo) \subseteq {first}
            /\ ~after.completed => {i \in Remaining(after) : i <= far} = Remaining(todo) \ {first}

\* AlarmsFollowTheDate: an alarm at an instant keeps its distance to the date
\* it was set for when a tool moves that date: to the due, or DTSTART, when
\* update-todo sets another due, to DTSTART when an occurrence is completed.
AlarmsFollowTheDate ==
    LET distances(t, v) == {a.at - instantOf(v, "UTC") : a \in {b \in t.alarms : b.trigger = "absolute"}}
    IN  /\ anchor(todo) # None =>
              \A patch \in {p \in TodoPatches : p.due \notin {Keep, None} /\ p.status = "keep"} :
                  acceptsTodoUpdate(todo, patch) =>
                      LET t == updatedTodo(todo, patch) IN distances(t, t.due) = distances(todo, anchor(todo))
        /\ todo.rule # NoRule /\ todo.start # None =>
              LET t == completeRecurringTodo(todo) IN distances(t, t.start) = distances(todo, todo.start)

\* SeriesAreAnchored (the code breaks it): a rule has the DTSTART it repeats
\* from, as vtodo-patch.ts says it must.  update-todo takes the DUE of a task
\* that has no DTSTART for the anchor of a new rule, and writes no DTSTART:
\* completing an occurrence of that series then fails every time.
SeriesAreAnchored == todo.rule # NoRule => todo.start # None

\* QueryFindsDueTasks: a task the list shows in a window is among the
\* candidates of a time-range REPORT of the same window, whoever asks: the
\* index reads its dates in UTC, the list in the caller's zone.  The code
\* breaks it for a task that is due before it starts: validate lets such
\* dates pass when a zone has to be resolved to compare them, and
\* computeVTodoBounds relies on their order.
QueryFindsDueTasks ==
    \A r \in Readers, window \in Ranges :
        filterTasksByWindow(todo, TRUE, window, r) => isCandidate(todoBounds(todo), window)

\* TheQueryFindsWhatIsListed: it holds of every other task.
TheQueryFindsWhatIsListed ==
    \/ QueryFindsDueTasks
    \/ todo.start # None /\ instantOf(todo.due, "UTC") < instantOf(todo.start, "UTC")

\* QueryFindsRepeats (the code breaks it): so is a series one of whose
\* occurrences is in the window.  occurrence-bounds.ts says leaving rules out
\* of the index is harmless, but calendar-query returns its candidates as they
\* are.
QueryFindsRepeats ==
    todo.rule # NoRule /\ todo.start # None =>
        \A window \in Ranges :
            (\E i \in Remaining(todo) : window.start <= i /\ i < window.end)
                => isCandidate(todoBounds(todo), window)
=============================================================================
