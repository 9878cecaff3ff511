------------------------------ MODULE EventSheet ------------------------------
(***************************************************************************)
(* The pages of the agenda card: one to read an event, one to edit it, one *)
(* for a new event or task.  The gestures are TaskSheet's; here are the    *)
(* rows the card has of an event, what closing a page sends, and both      *)
(* cards together with the clients and tools that write the same object.   *)
(* Source: application/usecases/event-dto.ts, presentation/mcp/ui/         *)
(* agenda-entry.ts, presentation/mcp/server.ts (update-event).             *)
(*                                                                         *)
(* Dates and repetition only; optimistic rows and answers that come late   *)
(* are AgendaCard's.                                                       *)
(***************************************************************************)
EXTENDS TaskSheet

CONSTANT SheetWindow    \* the range of days the card shows
ASSUME WindowAssumption == SheetWindow \in [start : Nat, end : Nat]

-----------------------------------------------------------------------------
(* event-dto.ts: the card asks for its own zone, and gets wall clocks of it *)

\* the value an occurrence is named by: of the start it has in the series
originalStart(e, o) ==
    CASE o.n = -1 -> (CHOOSE x \in e.overrides : instantOf(x.rid, Device) = o.rid).rid
      [] o.n > Steps -> e.rdates[o.n - Steps].start
      [] OTHER -> e.master.start

formatLocal(u, timed) ==
    LET w == epochToLocalFields(u, Device)
    IN  [day |-> Day(w), time |-> IF timed THEN w % DaySlots ELSE AllDay]

\* an override has no rule of its own
eventFromOccurrence(e, o) ==
    LET timed    == isDateTime(originalStart(e, o))
        override == isRecurring(e) /\ \E x \in e.overrides : instantOf(x.rid, Device) = o.rid
        start    == formatLocal(o.start, timed)
    IN  Row("event", IF isRecurring(e) THEN start ELSE NoDue, start, formatLocal(o.end, timed),
            IF override THEN NoRule ELSE e.rule)

listOccurrencesAcrossOwner(e) ==
    expandOwnerOccurrences(e, occurrenceBounds(e), SheetWindow, Device)

eventRows(e) == IF e = NoEvent THEN {} ELSE {eventFromOccurrence(e, o) : o \in listOccurrencesAcrossOwner(e)}

rowsOf(e, t) == eventRows(e) \cup taskFromVTodo(t)

-----------------------------------------------------------------------------
(* The working copy *)

makeEventDraft(row) ==
    [makeSheetDraft(row) EXCEPT
       !.hasEnd = row.end # NoDue,
       !.endDay = IF row.end # NoDue THEN row.end.day ELSE row.due.day,
       !.endTime = IF row.end.time # AllDay THEN row.end.time ELSE Nine + 1]

\* a new event is all day, today
eventDraftToItem == Row("event", NoDue, [day |-> Today, time |-> AllDay], NoDue, NoRule)

draftStart(d) == [day |-> d.day, time |-> IF d.hasTime THEN d.time ELSE AllDay]
draftEnd(d) ==
    IF ~d.hasEnd THEN NoDue ELSE [day |-> d.endDay, time |-> IF d.hasTime THEN d.endTime ELSE AllDay]

\* as collectSheetChanges, but an event always has a date to repeat from
collectEventChanges(row, d) ==
    [start |-> IF draftStart(d) = row.due THEN Keep ELSE dueValue(draftStart(d)),
     end   |-> IF draftEnd(d) = row.end THEN Keep ELSE dueValue(draftEnd(d)),
     rule  |-> IF d.preset = Custom \/ ~repeatsAnew(row, d) THEN KeepRule
               ELSE IF d.preset = Never THEN DropRule ELSE SetRule(presetToArgs(d))]

newRule(d) == IF d.preset \in {Never, Custom} THEN NoRule ELSE presetToArgs(d)

collectEventDetails(d) ==
    [start |-> dueValue(draftStart(d)), end |-> dueValue(draftEnd(d)), rule |-> newRule(d)]

\* a task typed in the agenda is due at a time
collectTodoCreateDetails(d) ==
    IF d.hasDate THEN [due |-> dueValue([day |-> d.day, time |-> d.time]), rule |-> newRule(d)]
    ELSE [due |-> None, rule |-> NoRule]

-----------------------------------------------------------------------------
(* Gestures of the agenda card *)

eventsListed == {r \in listed : r.of = "event"}

\* a tap on a row opens the page to read, its details button the one to edit
OpenViewSheet == \E row \in eventsListed : Open(row, makeEventDraft(row), "view")
OpenEvent     == \E row \in eventsListed : Open(row, makeEventDraft(row), "detail")

OpenCreatePage == listed = {} /\ Open(eventDraftToItem, makeEventDraft(eventDraftToItem), "create")

\* from reading to editing: with the working copy made when the page opened
EditViewed == page # NoPage /\ page.mode = "view" /\ Rendered([page EXCEPT !.mode = "detail"])

\* the create page makes an event or a reminder
ChooseForm ==
    /\ MayTouch /\ page.mode = "create" /\ page.draft.of # "task"
    /\ Switched([page.draft EXCEPT !.of = IF @ = "event" THEN "reminder" ELSE "event"])

\* a cleared input is the empty string: it sorts before every day, and days
\* are added to it from 1900-01-01 on
Day1900 == -25567 * DaySlots
notAfter(day, other) == day = Cleared \/ (other # Cleared /\ day <= other)
addDaysToDateKey(day, days) == (IF day = Cleared THEN Day1900 ELSE day) + days * DaySlots

\* an all-day event that gets an end ends the day after at the earliest
SwitchEnd ==
    /\ MayTouch /\ page.draft.of = "event"
    /\ LET d == [page.draft EXCEPT !.hasEnd = ~@]
       IN  Switched([d EXCEPT !.endDay =
               IF d.hasEnd /\ ~d.hasTime /\ notAfter(@, d.day) THEN addDaysToDateKey(d.day, 1) ELSE @])

EndsShown == MayTouch /\ page.draft.of = "event" /\ page.draft.hasEnd

PickEndDate ==
    /\ EndsShown
    /\ \E day \in SheetDays \cup {Cleared} : Typed([page.draft EXCEPT !.endDay = day])

PickEndTime ==
    /\ EndsShown /\ page.draft.hasTime
    /\ \E time \in SheetTimes : Typed([page.draft EXCEPT !.endTime = time])

-----------------------------------------------------------------------------
(* Closing the page *)

readableEvent(p, d) ==
    /\ readable(p.start, d.day) /\ readable(p.end, d.endDay)

\* back, from reading and from editing: nothing is sent
Discard ==
    /\ page # NoPage /\ page.draft.of = "event" /\ page.mode \in {"view", "detail"}
    /\ page' = NoPage
    /\ UNCHANGED <<listed, pages, todoVars, vars>>

\* The changes go to the series, whatever occurrence the page shows.
SaveEvent ==
    /\ Closing("event", "detail") /\ UNCHANGED todoVars
    /\ LET patch  == collectEventChanges(page.row, page.draft)
           sent   == patch.start # Keep \/ patch.end # Keep \/ patch.rule # KeepRule
           stores == /\ sent /\ event # NoEvent
                     /\ readableEvent(patch, page.draft)
                     /\ patch.rule.op = "set" => patch.rule.rule.day # Cleared
                     /\ acceptsUpdate(event, patch) /\ Valid(updated(event, patch))
       IN  IF stores
           THEN /\ event' = updated(event, patch)
                /\ listed' = rowsOf(event', todo)
                /\ edits' = edits + 1
           ELSE UNCHANGED <<listed, vars>>

SaveNewEvent ==
    /\ Closing("event", "create") /\ UNCHANGED todoVars
    /\ LET new == collectEventDetails(page.draft)
       IN  IF /\ event = NoEvent /\ todo = NoTodo
              /\ readableEvent(new, page.draft)
              /\ new.rule # NoRule => new.rule.day # Cleared
              /\ acceptsCreate(new.start, new.end) /\ Valid(created(new.start, new.end, new.rule))
           THEN /\ event' = created(new.start, new.end, new.rule)
                /\ listed' = rowsOf(event', todo)
                /\ edits' = 0
           ELSE UNCHANGED <<listed, vars>>

\* a reminder is no row of the agenda: the list stays as it is
CreateTodoFor ==
    /\ Closing("reminder", "create") /\ UNCHANGED <<listed, vars>>
    /\ LET new == collectTodoCreateDetails(page.draft)
       IN  IF event = NoEvent /\ createsTodo(new, page.draft.day)
           THEN todo' = createdTodo(new.due, new.rule) /\ touches' = 0
           ELSE UNCHANGED todoVars

CancelCreate ==
    /\ page # NoPage /\ page.mode = "create" /\ page.draft.of # "task"
    /\ page' = NoPage
    /\ UNCHANGED <<listed, pages, todoVars, vars>>

-----------------------------------------------------------------------------
(* Both cards, and everyone else *)

\* a tool result reaches a card, also under its open page
Refresh ==
    /\ listed # rowsOf(event, todo)
    /\ listed' = rowsOf(event, todo)
    /\ UNCHANGED <<page, pages, todoVars, vars>>

\* clients, and tools called in the chat
Elsewhere ==
    /\ ObjectNext /\ UNCHANGED <<listed, pages>>
    /\ IF page = NoPage THEN UNCHANGED page
       ELSE page.writes < MaxElsewhere /\ page' = [page EXCEPT !.writes = @ + 1]

SheetInit == ObjectInit /\ listed = {} /\ page = NoPage /\ pages = 0

EventSheetNext ==
    \/ /\ OpenViewSheet \/ OpenEvent \/ OpenCreatePage \/ EditViewed \/ ChooseForm
          \/ SwitchEnd \/ PickEndDate \/ PickEndTime
       /\ UNCHANGED vars
    \/ Discard \/ SaveEvent \/ SaveNewEvent \/ CreateTodoFor \/ CancelCreate

SheetNext ==
    \/ TaskSheetNext /\ UNCHANGED vars
    \/ EventSheetNext
    \/ Refresh
    \/ Elsewhere

SheetSpec == SheetInit /\ [][SheetNext]_<<sheetVars, todoVars, vars>>

-----------------------------------------------------------------------------
(* Properties *)

\* As UntouchedStays, of an event's start, end and repetition.
UntouchedEventStays ==
    Saves("event") /\ event' # event =>
        LET first     == makeEventDraft(page.opened)
            sameStart == Same(first, {"day", "hasTime", "time"})
            m  == event.master
            mm == event'.master
        IN  /\ sameStart => mm.start = m.start
            /\ sameStart /\ Same(first, {"hasEnd", "endDay", "endTime"}) => mm.end = m.end /\ mm.dur = m.dur
            /\ Same(first, {"preset", "end", "until"}) =>
                  /\ event'.rule.step = event.rule.step /\ event'.rule.count = event.rule.count
                  /\ sameStart => event'.rule = event.rule
                  /\ event'.overrides = event.overrides /\ event'.exdates = event.exdates

\* An event saved from a page that shows it as it is stored then repeats as
\* the page showed it, and, unless it repeats, begins and ends as shown.  (An
\* end that is not stored, a DURATION say, is shown but moves with the start.
\* An all-day event on a day whose midnight daylight saving skips on the
\* device is shown on the day before.)
EventSavedAsShown ==
    Saves("event") /\ event' # event /\ page.opened \in eventRows(event) =>
        LET d      == page.draft
            single == ~isRecurring(event) /\ ~isRecurring(event')
            keepsEnd == d.hasEnd /\ (event.master.end # None \/ draftEnd(d) # page.opened.end)
        IN  /\ single =>
                  \A o \in expandRecurrenceSet(event', Everything, Device) :
                      LET shown == eventFromOccurrence(event', o)
                      IN  /\ d.hasTime \/ exists(d.day, Device) => shown.due = draftStart(d)
                          /\ keepsEnd /\ (d.hasTime \/ exists(d.endDay, Device)) => shown.end = draftEnd(d)
            /\ d.preset # Custom /\ repeatsAnew(page.opened, d)
                  => RepeatsAsShown(event'.rule, event'.master.start, d, page.opened)

\* UntouchedFieldsStay: a page saves what its user changed and nothing else,
\* also while others write the object.
UntouchedFieldsStay ==
    [][UntouchedStays /\ UntouchedEventStays]_<<sheetVars, todoVars, vars>>

\* PagesAreSavedAsShown: what the user saw on the page he saved is what is
\* stored, over the zones of the object, of the card and of its last day.
PagesAreSavedAsShown ==
    [][SavedAsShown /\ EventSavedAsShown]_<<sheetVars, todoVars, vars>>
=============================================================================
