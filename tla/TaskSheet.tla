------------------------------ MODULE TaskSheet ------------------------------
(***************************************************************************)
(* The detail page of a card: what the card shows of a task, the working   *)
(* copy the page edits, and what closing it sends, while other clients     *)
(* write the task and the list is read again under the open page.  The     *)
(* gestures are those of both cards; what an event has of its own is in    *)
(* EventSheet.                                                             *)
(* Source: application/usecases/task-dto.ts, presentation/mcp/ui/          *)
(* (todos-entry.ts, recurrence.ts), presentation/mcp/server.ts             *)
(* (update-todo).                                                          *)
(*                                                                         *)
(* Dates and repetition only: title, notes and priority are compared the   *)
(* same way one by one.  Answers, retries and optimistic rows are          *)
(* TodosCard's; here a request is answered at once.                        *)
(***************************************************************************)
EXTENDS TodoEdits

CONSTANTS
    Device,      \* the time zone of the card's device, sent with every call
    Presets,     \* the steps the repetition menu offers
    Today,       \* the day a switched-on date starts from
    SheetDays, SheetTimes,   \* what the date and time inputs are set to
    MaxSheetEdits,           \* bound: gestures on one page
    MaxPages,                \* bound: pages opened
    MaxElsewhere             \* bound: writes of others under an open page

ASSUME SheetAssumption ==
    /\ Device \in Zones /\ Presets \subseteq Nat \ {0}
    /\ SheetTimes \subseteq 0 .. DaySlots - 1
    \* days begin at their first slot; 09:00 and 10:00 are slots of one day
    /\ DaySlots > 2 /\ \A day \in SheetDays \cup {Today} : day \in Int /\ day % DaySlots = 0

VARIABLES
    listed,   \* the rows the cards' lists have: [of, key, due, end, recurrence]
    page,     \* the open page, or NoPage
    pages     \* pages opened so far
sheetVars == <<listed, page, pages>>

NoPage == [open |-> FALSE]
Custom == -1      \* a step the menu does not offer
Never  == 0       \* "does not repeat"
AllDay == -1      \* a due without a time
NoDue  == [day |-> NoDay, time |-> AllDay]
Nine   == DaySlots \div 2   \* the default time of day, 09:00

-----------------------------------------------------------------------------
(* task-dto.ts: dates become the wall clock of their own zone *)

wallOf(v) == IF isDateTime(v) THEN epochToLocalFields(instantOf(v, Device), zoneOf(v, Device)) ELSE v.at

formatDue(due) ==
    IF due = None THEN NoDue
    ELSE [day |-> Day(wallOf(due)), time |-> IF isDateTime(due) THEN wallOf(due) % DaySlots ELSE AllDay]

formatRecurUntilForDto(until) == formatDue(until)

formatRecurrence(rule) == [rule EXCEPT !.until = formatRecurUntilForDto(@)]

\* a row of a list; an event's "due" is its start, a task has no end
Row(of, key, due, end, rule) ==
    [of |-> of, key |-> key, due |-> due, end |-> end, recurrence |-> formatRecurrence(rule)]

\* the rows of a task: completed ones are not listed
taskFromVTodo(t) ==
    IF t = NoTodo \/ t.completed THEN {}
    ELSE {Row("task", NoDue, formatDue(t.due), NoDue, t.rule)}

-----------------------------------------------------------------------------
(* The working copy *)

recurrenceToPreset(rec) ==
    IF rec.step = Never THEN Never ELSE IF rec.step \in Presets THEN rec.step ELSE Custom

endOf(rec) == IF rec.count > 0 THEN "count" ELSE IF rec.until # NoDue THEN "until" ELSE "none"

\* slice(0, 10): the day an UNTIL is shown with, which is that of UTC
untilDay(rec) == rec.until.day

makeSheetDraft(task) ==
    [of      |-> task.of,
     hasDate |-> task.due # NoDue,
     day     |-> IF task.due # NoDue THEN task.due.day ELSE Today,
     hasTime |-> task.due.time # AllDay,
     time    |-> IF task.due.time # AllDay THEN task.due.time ELSE Nine,
     hasEnd  |-> FALSE, endDay |-> NoDay, endTime |-> AllDay,
     preset  |-> recurrenceToPreset(task.recurrence),
     end     |-> endOf(task.recurrence),
     until   |-> untilDay(task.recurrence)]

\* the row a new task is typed in has no date yet
draftToItem == Row("task", NoDue, NoDue, NoDue, NoRule)

\* a cleared date input leaves "", which no tool accepts
Cleared == -2

dueOf(d) ==
    IF ~d.hasDate THEN NoDue ELSE [day |-> d.day, time |-> IF d.hasTime THEN d.time ELSE AllDay]

dueValue(due) ==
    CASE due = NoDue -> None
      [] due # NoDue /\ due.time = AllDay -> [zone |-> "date", at |-> due.day]
      [] OTHER -> [zone |-> Device, at |-> due.day + due.time]

presetToArgs(d) ==
    [step |-> d.preset, count |-> 0, day |-> IF d.end = "until" THEN d.until ELSE NoDay]

\* mutant: the last day is compared as the list has it, with its time
repeatsAnewUnsliced(task, d) ==
    LET rec == task.recurrence
    IN  \/ d.preset # recurrenceToPreset(rec)
        \/ d.end # endOf(rec)
        \/ d.end = "until" /\ [day |-> d.until, time |-> AllDay] # rec.until

\* mutant: another last day is no change
repeatsAnewPresetOnly(task, d) ==
    d.preset # recurrenceToPreset(task.recurrence) \/ d.end # endOf(task.recurrence)

repeatsAnew(task, d) ==
    LET rec == task.recurrence
    IN  \/ d.preset # recurrenceToPreset(rec)
        \/ d.end # endOf(rec)
        \/ d.end = "until" /\ d.until # untilDay(rec)

\* the fields in which the working copy differs from the task of the last
\* rendering; a repetition is sent only with a date, and whole: without COUNT
collectSheetChanges(task, d) ==
    [due  |-> IF dueOf(d) = task.due THEN Keep ELSE dueValue(dueOf(d)),
     rule |-> IF d.preset = Custom \/ ~repeatsAnew(task, d) THEN KeepRule
              ELSE IF d.preset = Never THEN DropRule
              ELSE IF d.hasDate THEN SetRule(presetToArgs(d)) ELSE KeepRule,
     status |-> "keep", place |-> "keep"]

collectCreateDetails(d) ==
    [due  |-> dueValue(dueOf(d)),
     rule |-> IF d.preset \in {Never, Custom} \/ ~d.hasDate THEN NoRule ELSE presetToArgs(d)]

-----------------------------------------------------------------------------
(* Gestures.  Switches and chips render the page anew, from the list as it  *)
(* is by then; inputs only change the working copy.                         *)

\* mode: "view" (an event, to read), "detail" or "create"
Open(row, draft, mode) ==
    /\ page = NoPage
    /\ pages < MaxPages /\ pages' = pages + 1
    /\ page' = [row |-> row, opened |-> row, draft |-> draft, mode |-> mode, gestures |-> 0, writes |-> 0]
    /\ UNCHANGED <<listed, todoVars>>

OpenSheet ==
    \E row \in {r \in listed : r.of = "task"} : Open(row, makeSheetDraft(row), "detail")

OpenCreateSheet == listed = {} /\ Open(draftToItem, makeSheetDraft(draftToItem), "create")

MayTouch == page # NoPage /\ page.mode # "view" /\ page.gestures < MaxSheetEdits

Touched(d) == [page EXCEPT !.draft = d, !.gestures = @ + 1]

Typed(d) ==
    /\ page' = Touched(d)
    /\ UNCHANGED <<listed, pages, todoVars>>

\* renderAll: a page whose row left the list is closed
Rendered(next) ==
    LET rows == {r \in listed : r.of = page.row.of /\ r.key = page.row.key}
    IN  /\ page' = IF page.mode = "create" THEN next
                   ELSE IF rows = {} THEN NoPage
                   ELSE [next EXCEPT !.row = CHOOSE r \in rows : TRUE]
        /\ UNCHANGED <<listed, pages, todoVars>>

Switched(d) == Rendered(Touched(d))

\* which rows the page has: "reminder" is the new task of the agenda card,
\* whose date is never without a time
ShowsDate(d) == d.of = "event" \/ d.hasDate
ShowsTime(d) == IF d.of = "reminder" THEN d.hasDate ELSE d.hasTime

\* without a date there is no time either
SwitchDate ==
    /\ MayTouch /\ page.draft.of # "event"
    /\ LET on == ~page.draft.hasDate
       IN  Switched([page.draft EXCEPT !.hasDate = on, !.hasTime = (page.draft.of = "task" => on) /\ @])

SwitchTime ==
    /\ MayTouch /\ page.draft.of # "reminder" /\ ShowsDate(page.draft)
    /\ Switched([page.draft EXCEPT !.hasTime = ~@])

PickDate ==
    /\ MayTouch /\ ShowsDate(page.draft)
    /\ \E day \in SheetDays \cup {Cleared} : Typed([page.draft EXCEPT !.day = day])

PickTime ==
    /\ MayTouch /\ ShowsTime(page.draft)
    /\ \E time \in SheetTimes : Typed([page.draft EXCEPT !.time = time])

\* the repetition row opens and closes the menu
MayRepeat  == MayTouch /\ (page.draft.of = "reminder" => page.draft.hasDate)
ToggleMenu == MayRepeat /\ Switched(page.draft)

Repeating == MayRepeat /\ page.draft.preset \in Presets

ChoosePreset ==
    /\ MayRepeat
    /\ \E p \in Presets \cup {Never} : Switched([page.draft EXCEPT !.preset = p])

EndNever == Repeating /\ Switched([page.draft EXCEPT !.end = "none"])

EndOn ==
    /\ Repeating
    /\ Switched([page.draft EXCEPT !.end = "until", !.until = IF @ = NoDay THEN page.draft.day ELSE @])

PickUntil ==
    /\ Repeating /\ page.draft.end = "until"
    /\ \E day \in SheetDays \cup {NoDay} : Typed([page.draft EXCEPT !.until = day])

-----------------------------------------------------------------------------
(* Closing the page *)

updates(patch, t) ==
    /\ t # NoTodo
    /\ acceptsTodoUpdate(t, patch) /\ ValidTodo(updatedTodo(t, patch))

\* readable: a date cleared in its input is refused
readable(value, day) == value \in {Keep, None} \/ day # Cleared

Closing(of, mode) ==
    /\ page # NoPage /\ page.draft.of = of /\ page.mode = mode
    /\ page' = NoPage /\ UNCHANGED pages

\* Both buttons of an existing task save, and an unchanged page sends
\* nothing; the answer brings the list along.  A refusal leaves a banner.
Save ==
    /\ Closing("task", "detail")
    /\ LET patch  == collectSheetChanges(page.row, page.draft)
           sent   == patch.due # Keep \/ patch.rule # KeepRule
           stores == /\ sent /\ updates(patch, todo)
                     /\ readable(patch.due, page.draft.day)
                     /\ patch.rule.op = "set" => patch.rule.rule.day # Cleared
       IN  IF stores
           THEN /\ todo' = updatedTodo(todo, patch)
                /\ listed' = taskFromVTodo(todo')
                /\ touches' = touches + 1
           ELSE UNCHANGED <<listed, todoVars>>

createsTodo(new, day) ==
    /\ todo = NoTodo
    /\ readable(new.due, day)
    /\ new.rule # NoRule => new.rule.day # Cleared
    /\ new.due.zone \in Zones => supportedByTools(new.due.zone)

\* The new task is created with all its fields.
SaveNew ==
    /\ Closing("task", "create")
    /\ LET new == collectCreateDetails(page.draft)
       IN  IF createsTodo(new, page.draft.day)
           THEN /\ todo' = createdTodo(new.due, new.rule)
                /\ listed' = taskFromVTodo(todo')
                /\ touches' = 0
           ELSE UNCHANGED <<listed, todoVars>>

\* back from a new task: to its row, which keeps the texts only
Back == Closing("task", "create") /\ UNCHANGED <<listed, todoVars>>

-----------------------------------------------------------------------------
TaskSheetNext ==
    \/ OpenSheet \/ OpenCreateSheet \/ SwitchDate \/ SwitchTime \/ PickDate \/ PickTime
    \/ ToggleMenu \/ ChoosePreset \/ EndNever \/ EndOn \/ PickUntil
    \/ Save \/ SaveNew \/ Back

-----------------------------------------------------------------------------
(* Properties *)

\* a saved page that was rendered with the row it was opened with
Saves(of) ==
    /\ page # NoPage /\ page.draft.of = of /\ page.mode = "detail" /\ page.row = page.opened
    /\ page' = NoPage

\* the fields of the working copy that are as the page was opened with
Same(first, fields) == \A f \in fields : page.draft[f] = first[f]

\* A date or a repetition of a task its user left as it was opened stays as
\* it is stored by then, also when another client has just changed it.
UntouchedStays ==
    Saves("task") /\ todo' # todo =>
        LET first    == makeSheetDraft(page.opened)
            sameDate == Same(first, {"hasDate", "day", "hasTime", "time"})
        IN  /\ sameDate => todo'.due = todo.due /\ todo'.start = todo.start
            /\ Same(first, {"preset", "end", "until"}) =>
                  /\ todo'.rule.step = todo.rule.step /\ todo'.rule.count = todo.rule.count
                  /\ sameDate => todo'.rule = todo.rule

\* a wall clock daylight saving does not skip
exists(w, zone) == epochToLocalFields(localFieldsToEpoch(w, zone), zone) = w

\* The repetition and its last day are stored as the working copy d shows
\* them, if it was opened with the row "opened".  (Sent again it loses its
\* COUNT; a cleared last day is no last day; the last day of a floating start
\* is taken in UTC; a last occurrence that daylight saving skips may end the
\* series the day before.)
RepeatsAsShown(rule, start, d, opened) ==
    /\ recurrenceToPreset(formatRecurrence(rule)) = d.preset
    /\ d.end = "none" => rule.until = None /\ rule.count = 0
    /\ d.preset \in Presets /\ d.end = "until" /\ d.until \notin {NoDay, untilDay(opened.recurrence)}
       /\ exists(d.until + (start.at % DaySlots), zoneOf(start, "UTC"))
          => LastDay(rule, zoneOf(start, "UTC")) = d.until

\* A task saved from a page that shows it as it is stored is then stored as
\* the page showed it: its date and time, and its repetition if it has a date.
SavedAsShown ==
    Saves("task") /\ todo' # todo /\ page.opened \in taskFromVTodo(todo) =>
        LET d == page.draft
        IN  /\ formatDue(todo'.due) = dueOf(d)
            /\ d.preset # Custom /\ (d.preset = Never \/ d.hasDate) =>
                  RepeatsAsShown(todo'.rule, todo'.due, d, page.opened)
=============================================================================
