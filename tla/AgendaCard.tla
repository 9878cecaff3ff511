----------------------------- MODULE AgendaCard -----------------------------
(***************************************************************************)
(* The agenda card (presentation/mcp/ui/agenda-entry.ts): the events of a  *)
(* range of days, drawn as a list, a month or a day, filtered by calendar. *)
(* A range is the set of its days.  Every read of the card sends the range *)
(* and the filter it had at that moment, and takes over the range that the *)
(* answer names.  As in TodosCard the module state is one record and a     *)
(* function of the card is an operator from a card to the next.            *)
(***************************************************************************)
EXTENDS CardCalls

CONSTANTS Events,       \* ids the server gives
          Temps,        \* ids of rows whose creation is in flight
          Recurring,    \* the events that repeat
          Calendars,
          Days,
          MonthGrid,    \* the days drawn for a month; months overlap
          Default,      \* the range a listing has when none is asked for
          Gestures,     \* mixes of gestures of which one is chosen at start;
                        \* a mix has its bound of changes by other clients
          MaxGestures   \* bound: gestures of the user

ASSUME AgendaCardAssumption ==
    /\ Events \cap Temps = {} /\ Recurring \subseteq Events
    /\ \A m \in DOMAIN MonthGrid : m \in MonthGrid[m] /\ MonthGrid[m] \subseteq Days
    /\ Default \subseteq Days /\ Default # {}
    /\ "all" \notin Calendars
    /\ {"none", "create"} \cap (Events \cup Temps) = {}
    /\ {MaxGestures, MaxFailures} \subseteq Nat

Ev(day, title, cal) == [day |-> day, title |-> title, cal |-> cal]

IsEvent(e) == e = Ev(e.day, e.title, e.cal) /\ e.cal \in Calendars
IsListing(f) == DOMAIN f \subseteq Events /\ \A i \in DOMAIN f : IsEvent(f[i])

ASSUME MixesAssumption ==
    \A m \in Gestures : /\ IsListing(m.list) /\ IsListing(m.old) /\ IsListing(m.born)
                        /\ IsEvent(m.created)

VARIABLES card,         \* the module state of agenda-entry.ts
          list,         \* the events on the server
          gone,         \* history: events that were deleted; no other gets their id
          mix,          \* the gestures of this behaviour
          gestures, outside,    \* counters of the bounds
          version,      \* history: changes of list so far
          newest,       \* history: the youngest answer applied
          unsure,       \* history: an answer was lost, old, or applied after a
                        \* younger one
          told,         \* history: the last edit per event, unless it failed
          freed         \* history: events whose deletion came back while
                        \* an edit was under way

cardVars == <<card, list, gone, mix, gestures, outside, version, newest, unsure, told, freed>>
allVars == <<cardVars, callVars>>

NoRange == {}
NoSheet == "none"
NoBanner == [kind |-> "none"]
NoMeta == [added |-> Empty, changed |-> FALSE]
Today == CHOOSE d \in Days : \A e \in Days : d <= e
monthOf(day) == CHOOSE m \in DOMAIN MonthGrid : m <= day /\ \A n \in DOMAIN MonthGrid : n <= day => n <= m

-----------------------------------------------------------------------------
(* rebuildDisplay: the confirmed events without the deletions and with the *)
(* edits in flight, and the rows whose creation is in flight.  The date of *)
(* a recurring event is not changed before the server has answered.        *)

Overrides(i, ev, change) ==
    [ev EXCEPT !.title = IF "title" \in DOMAIN change THEN change.title ELSE @,
               !.day = IF "day" \in DOMAIN change /\ i \notin Recurring THEN change.day ELSE @]

rebuildFromConfirmed(c) ==
    [c EXCEPT !.events = [i \in DOMAIN c.confirmed \ c.deletes |->
                             IF i \in DOMAIN c.edits
                             THEN Overrides(i, c.confirmed[i], c.edits[i])
                             ELSE c.confirmed[i]] @@ c.rows]

(* renderAll.  The list also has the events an answer has named as added   *)
(* and the listing lacks; month and day draw the events of their days.     *)
allCalendarsHidden(c) == c.hidden = Calendars
baseEvents(c) == IF allCalendarsHidden(c) THEN Empty ELSE c.events

onDays(c, days) == LET base == baseEvents(c)
                   IN  [i \in {j \in DOMAIN base : base[j].day \in days} |-> base[i]]

renderList(c) == baseEvents(c) @@ c.added
renderMonthView(c) == onDays(c, MonthGrid[c.month])
renderDayView(c) == onDays(c, {c.day})

drawn(c) == CASE c.mode = "list" -> renderList(c)
              [] c.mode = "month" -> renderMonthView(c)
              [] c.mode = "day" -> renderDayView(c)

sheetShown(c) == c.sheet = "create" \/ c.sheet \in DOMAIN c.events

renderAll(c) ==
    IF c.sheet # NoSheet /\ sheetShown(c)
    THEN [c EXCEPT !.dom = Empty]
    ELSE [c EXCEPT !.sheet = NoSheet, !.dom = drawn(c), !.late = FALSE]

guardedRenderAll(c) ==
    IF c.sheet # NoSheet THEN [c EXCEPT !.renderLater = TRUE] ELSE renderAll(c)

setSheetState(c) ==
    LET closed == [c EXCEPT !.sheet = NoSheet]
    IN  IF c.renderLater THEN renderAll([closed EXCEPT !.renderLater = FALSE]) ELSE closed

closeSheet(c) == renderAll(setSheetState(c))
clearBanner(c) == [c EXCEPT !.banner = NoBanner]
showBanner(c, banner) == [c EXCEPT !.banner = banner]
showRebuilt(c) == renderAll(rebuildFromConfirmed(c))

startCommitting(c, i) == [c EXCEPT !.pending = @ \cup {i}, !.timers = @ \cup {i}]

-----------------------------------------------------------------------------
(* Reading the list.                                                       *)

(* Mutant: a filter the user has set is not asked for.                     *)
refreshEverything(c) == [range |-> c.range, hidden |-> {}, calendarId |-> c.scope]

(* calendarIds when some calendars are hidden, else calendarId if known.   *)
refreshArgs(c) ==
    LET filtered == c.hidden \notin {{}, Calendars}
    IN  [range |-> c.range, hidden |-> IF filtered THEN c.hidden ELSE {},
         calendarId |-> IF filtered THEN "all" ELSE c.scope]

NewCall(tool, i, arg) ==
    [tool |-> tool, id |-> i, arg |-> arg, cont |-> "none", at |-> "sent",
     args |-> {}, n |-> 0, seen |-> 0,
     meta |-> NoMeta, events |-> Empty, pushed |-> {}]

Refresh(c, cont, n) ==
    [NewCall("refresh", cont, Empty) EXCEPT !.cont = cont, !.args = {refreshArgs(c)}, !.n = n]

resolveRequestRange(args) == IF args.range = NoRange THEN Default ELSE args.range

collectionIdArg(args) ==
    IF args.calendarId = "all" THEN Calendars \ args.hidden ELSE {args.calendarId}

Listed(args) ==
    [i \in {j \in DOMAIN list : /\ list[j].day \in resolveRequestRange(args)
                                /\ list[j].cal \in collectionIdArg(args)} |-> list[i]]
Args(k) == CHOOSE args \in k.args : TRUE

(* The answer of a mutating tool carries neither a range nor the list: its *)
(* caller reads the list and puts the two together.                        *)
applyStructuredContent(c, vm) ==
    LET kept == vm.preserve /\ vm.meta = NoMeta
        c1 == [c EXCEPT !.confirmed = vm.events,
                        !.added = IF kept THEN @ ELSE vm.meta.added]
    IN  [rebuildFromConfirmed(c1) EXCEPT
            !.range = IF vm.range = NoRange THEN @ ELSE vm.range,
            !.scope = IF vm.range = NoRange THEN @ ELSE vm.calendarId,
            !.fresh = @ \/ ~vm.stale]

Vm(k) == [events |-> k.events, range |-> resolveRequestRange(Args(k)), meta |-> k.meta,
          calendarId |-> Args(k).calendarId,
          preserve |-> k.cont \in {"edit", "delete", "create"}, stale |-> FALSE]

-----------------------------------------------------------------------------
(* The tools of the server (server.ts).                                    *)

toolVars == <<card, mix, gestures, outside, newest, unsure, told, freed, failures>>

updateEvent(k) ==
    /\ k \in At("sent") /\ k.tool = "edit"
    /\ IF k.id \in DOMAIN list
       THEN /\ list' = [list EXCEPT ![k.id] = k.arg @@ @]
            /\ calls' = Becomes(k, [k EXCEPT !.at = "done", !.meta.changed = TRUE])
            /\ version' = version + 1
       ELSE calls' = Advance(k, "failed") /\ UNCHANGED <<list, version>>
    /\ UNCHANGED <<toolVars, gone>>

deleteEventTool(k) ==
    /\ k \in At("sent") /\ k.tool = "delete"
    /\ IF k.id \in DOMAIN list
       THEN /\ list' = Without(list, {k.id})
            /\ gone' = gone \cup {k.id}
            /\ calls' = Becomes(k, [k EXCEPT !.at = "done", !.meta.changed = TRUE])
            /\ version' = version + 1
       ELSE calls' = Advance(k, "failed") /\ UNCHANGED <<list, version, gone>>
    /\ UNCHANGED toolVars

createEvent(k) ==
    /\ k \in At("sent") /\ k.tool = "create"
    /\ \E i \in Events \ (DOMAIN list \cup gone \cup Recurring \cup DOMAIN mix.old) :
          /\ list' = (i :> k.arg) @@ list
          /\ calls' = Becomes(k, [k EXCEPT !.at = "done", !.meta.added = (i :> k.arg)])
    /\ version' = version + 1
    /\ UNCHANGED <<toolVars, gone>>

runListEvents(k) ==
    /\ k \in At("sent") /\ k.tool = "refresh"
    /\ calls' = Becomes(k, [k EXCEPT !.at = "answered", !.events = Listed(Args(k)), !.seen = version])
    /\ UNCHANGED <<cardVars, failures>>

(* Another client moves or deletes an event.                               *)
Elsewhere(i) ==
    /\ outside < mix.outside
    /\ i \in DOMAIN list
    /\ outside' = outside + 1 /\ version' = version + 1
    /\ \/ \E d \in Days \ {list[i].day} : list' = [list EXCEPT ![i].day = d] /\ UNCHANGED gone
       \/ list' = Without(list, {i}) /\ gone' = gone \cup {i}
    /\ UNCHANGED <<card, mix, gestures, newest, unsure, told, freed, callVars>>

RejectCall(k) == Reject(k) /\ UNCHANGED cardVars

-----------------------------------------------------------------------------
(* Gestures.                                                               *)

Gesture(g) == /\ g \in mix.gestures
              /\ gestures < MaxGestures
              /\ gestures' = gestures + 1
              /\ UNCHANGED <<list, gone, mix, outside, version, newest, unsure, freed, failures>>

Read(c, cont) == calls \cup {Refresh(c, cont, gestures')}

(* refetchForRange, refetchFiltered: when no calendar is shown nothing is  *)
(* read.  Both draw without a guard.                                       *)
refetch(c, cont) ==
    IF allCalendarsHidden(c)
    THEN card' = renderAll(c) /\ UNCHANGED calls
    ELSE card' = clearBanner(c) /\ calls' = Read(c, cont)

Navigate(c) == refetch(renderAll(c), "range") /\ UNCHANGED told

keepListRange(c) == IF c.mode = "list" THEN [c EXCEPT !.listRange = c.range] ELSE c

OnScreen == card.sheet = NoSheet /\ card.full

setMonthCursor(c, m) == [c EXCEPT !.month = m, !.range = MonthGrid[m]]
shiftDay(c, d) == [c EXCEPT !.day = d, !.range = {d}]

enterMonthMode ==
    /\ Gesture("view") /\ OnScreen /\ card.mode # "month"
    /\ Navigate([setMonthCursor(keepListRange(card), monthOf(card.day)) EXCEPT !.mode = "month"])

enterDayMode ==
    /\ Gesture("view") /\ OnScreen /\ card.mode # "day"
    /\ Navigate([shiftDay(keepListRange(card), card.day) EXCEPT !.mode = "day"])

exitToListMode ==
    /\ Gesture("view") /\ OnScreen /\ card.mode # "list"
    /\ Navigate([card EXCEPT !.mode = "list", !.range = card.listRange])

turnThePage ==
    /\ Gesture("view") /\ OnScreen
    /\ \/ card.mode = "month" /\ \E m \in DOMAIN MonthGrid \ {card.month} :
             Navigate(setMonthCursor(card, m))
       \/ card.mode = "day" /\ \E d \in Days \ {card.day} : Navigate(shiftDay(card, d))

(* A cell of the month: the day is drawn from what is there.               *)
selectDay ==
    /\ Gesture("view") /\ OnScreen /\ card.mode = "month"
    /\ \E d \in MonthGrid[card.month] \ {card.day} : card' = renderAll([card EXCEPT !.day = d])
    /\ UNCHANGED <<calls, told>>

(* The host enters or leaves full screen.  Out of it there is only a list. *)
applyHostContext ==
    /\ Gesture("context")
    /\ LET c == [card EXCEPT !.full = ~@]
           back == [c EXCEPT !.mode = "list", !.month = monthOf(Today), !.day = Today,
                             !.range = c.listRange]
       IN  IF c.full \/ c.mode = "list"
           THEN card' = guardedRenderAll(c) /\ UNCHANGED calls
           ELSE IF allCalendarsHidden(back)
           THEN card' = guardedRenderAll(renderAll(back)) /\ UNCHANGED calls
           ELSE card' = guardedRenderAll(clearBanner(back)) /\ calls' = Read(back, "range")
    /\ UNCHANGED told

(* Mutant: hiding the last calendar leaves the list as it is drawn.        *)
toggleWithoutDrawing(cal) ==
    /\ Gesture("filter") /\ card.sheet = NoSheet
    /\ LET on == IF cal \in card.hidden THEN card.hidden \ {cal} ELSE card.hidden \cup {cal}
           c == [card EXCEPT !.hidden = on]
       IN  IF allCalendarsHidden(c) THEN card' = c /\ UNCHANGED calls
                                    ELSE card' = clearBanner(c) /\ calls' = Read(c, "filter")
    /\ UNCHANGED told

toggleCalendar(cal) ==
    /\ Gesture("filter") /\ card.sheet = NoSheet
    /\ LET on == IF cal \in card.hidden THEN card.hidden \ {cal} ELSE card.hidden \cup {cal}
       IN  refetch([card EXCEPT !.hidden = on], "filter")
    /\ UNCHANGED told

-----------------------------------------------------------------------------
OnList(i) == /\ card.sheet = NoSheet /\ card.mode = "list"
             /\ i \in DOMAIN card.dom \ Temps

StartDelete(c, i) ==
    LET c1 == startCommitting([c EXCEPT !.deletes = @ \cup {i}], i)
    IN  showRebuilt(clearBanner(IF c1.sheet = i THEN closeSheet(c1) ELSE c1))

deleteEvent(i) ==
    /\ Gesture("delete") /\ OnList(i)
    /\ IF i \in card.deletes THEN UNCHANGED <<card, calls, told>>
       ELSE /\ card' = StartDelete(card, i)
            /\ calls' = calls \cup {NewCall("delete", i, Empty)}
            /\ told' = Without(told, {i})

pageVars == <<list, gone, mix, gestures, outside, version, newest, unsure, told, freed, callVars>>

openSheet(i) ==
    /\ mix.gestures \cap {"edit", "sheet"} # {} /\ OnList(i) /\ i \in DOMAIN card.events
    /\ card' = renderAll([card EXCEPT !.sheet = i])
    /\ UNCHANGED pageVars

triggerCreateEvent ==
    /\ "create" \in mix.gestures /\ card.sheet = NoSheet
    /\ card' = renderAll([card EXCEPT !.sheet = "create"])
    /\ UNCHANGED pageVars

leaveSheet ==
    /\ card.sheet # NoSheet
    /\ card' = closeSheet(card)
    /\ UNCHANGED pageVars

(* Mutant: a second edit of an event goes out while the first is under way.*)
alwaysFree(c, i) == TRUE

free(c, i) == i \notin c.pending

(* saveEdit: refused with a banner while the event has something in flight.*)
SaveEdit(c, i, change) ==
    IF free(c, i)
    THEN /\ card' = showRebuilt(clearBanner(startCommitting(
                        [c EXCEPT !.edits = (i :> change) @@ @,
                                  !.editing = IF i \in Recurring /\ "day" \in DOMAIN change
                                              THEN @ \cup {i} ELSE @], i)))
         /\ calls' = calls \cup {NewCall("edit", i, change)}
         /\ told' = (i :> (change @@ IF i \in DOMAIN told THEN told[i] ELSE Empty)) @@ told
    ELSE card' = showBanner(c, [kind |-> "busy"]) /\ UNCHANGED <<calls, told>>

Changes(ev) == {[title |-> 1 - ev.title]} \cup {[day |-> d] : d \in Days \ {ev.day}}

saveSheet ==
    /\ Gesture("edit") /\ card.sheet \in DOMAIN card.events
    /\ \E change \in Changes(card.events[card.sheet]) : SaveEdit(closeSheet(card), card.sheet, change)

EnqueueCreate(c, t, ev) ==
    /\ card' = showRebuilt(clearBanner(startCommitting([c EXCEPT !.rows = (t :> ev) @@ @], t)))
    /\ calls' = calls \cup {NewCall("create", t, ev)}
    /\ UNCHANGED told

FreshTemps(c) == Temps \ (DOMAIN c.rows \cup DOMAIN c.dom)

(* The create page: an event, or a reminder that this card never shows.    *)
submitCreate ==
    /\ Gesture("create") /\ card.sheet = "create"
    /\ LET c == setSheetState(card) IN
          \/ \E t \in FreshTemps(c) : EnqueueCreate(c, t, mix.created)
          \/ card' = renderAll(c) /\ UNCHANGED <<calls, told>>

(* The timer of startCommitting ends the animation and draws.              *)
CommittingEnds(i) ==
    /\ i \in card.timers
    /\ card' = renderAll([card EXCEPT !.timers = @ \ {i}])
    /\ UNCHANGED <<list, gone, mix, gestures, outside, version, newest, unsure, told, freed, callVars>>

-----------------------------------------------------------------------------
(* Answers.                                                                *)

answerVars == <<list, gone, mix, gestures, outside, version, failures>>

Mutating == {"edit", "delete", "create"}

(* Mutant: a failed edit keeps its overlay.                                *)
ClearedPartly(c, k) ==
    LET c1 == [c EXCEPT !.pending = @ \ {k.id}]
    IN  CASE k.tool = "edit" -> [c1 EXCEPT !.editing = @ \ {k.id}]
          [] k.tool = "delete" -> [c1 EXCEPT !.deletes = @ \ {k.id}]
          [] k.tool = "create" -> [c1 EXCEPT !.rows = Without(@, {k.id})]

Cleared(c, k) ==
    LET c1 == [c EXCEPT !.pending = @ \ {k.id}]
    IN  CASE k.tool = "edit" -> [c1 EXCEPT !.edits = Without(@, {k.id}), !.editing = @ \ {k.id}]
          [] k.tool = "delete" -> [c1 EXCEPT !.deletes = @ \ {k.id}]
          [] k.tool = "create" -> [c1 EXCEPT !.rows = Without(@, {k.id})]

Freed(k) == IF k.tool = "delete" /\ \E e \in calls : e.tool = "edit" /\ e.id = k.id
            THEN freed \cup {k.id} ELSE freed

(* What the tool did is known; the list is read anew.                      *)
AnswerMutation(k) ==
    /\ k \in At("done") /\ k.tool \in Mutating
    /\ card' = Cleared(card, k)
    /\ calls' = (calls \ {k}) \cup {[Refresh(card, k.tool, gestures) EXCEPT !.id = k.id, !.meta = k.meta]}
    /\ freed' = Freed(k)
    /\ UNCHANGED <<answerVars, newest, unsure, told>>

AnswerFailure(k) ==
    /\ k \in At("failed") /\ k.tool \in Mutating
    /\ card' = showBanner(showRebuilt(Cleared(card, k)),
                          [kind |-> k.tool, id |-> k.id, arg |-> k.arg])
    /\ calls' = calls \ {k}
    /\ told' = IF k.tool = "edit" THEN Without(told, {k.id}) ELSE told
    /\ unsure' = (unsure \/ k.meta # NoMeta)
    /\ freed' = Freed(k)
    /\ UNCHANGED <<answerVars, newest>>

Applied(k) ==
    /\ unsure' = (unsure \/ k.n < newest.n \/ k.seen < newest.seen)
    /\ newest' = [n |-> IF k.n > newest.n THEN k.n ELSE newest.n,
                  seen |-> IF k.seen > newest.seen THEN k.seen ELSE newest.seen]

(* After a mutation nothing is drawn when the answer has come: that is     *)
(* left to the timer of startCommitting (late: it has already run).        *)
AnswerReread(k) ==
    /\ k.tool = "refresh" /\ k.cont \in Mutating
    /\ \/ /\ k \in At("answered")
          /\ LET c == applyStructuredContent(card, Vm(k))
             IN  card' = [c EXCEPT !.late = @ \/ (c.timers = {} /\ drawn(c) # c.dom)]
          /\ Applied(k)
       \/ /\ k \in At("failed")
          /\ card' = showBanner(showRebuilt(card), [kind |-> "fetch"])
          /\ unsure' = TRUE /\ UNCHANGED newest
    /\ calls' = calls \ {k}
    /\ UNCHANGED <<answerVars, told, freed>>

(* fetchLatest and its callers.                                            *)
AnswerListing(k) ==
    /\ k.tool = "refresh" /\ k.cont \in {"range", "filter", "retry", "refetch"}
    /\ \/ /\ k \in At("answered")
          /\ LET c == applyStructuredContent(card, Vm(k))
             IN  card' = IF k.cont = "refetch" THEN guardedRenderAll(c) ELSE renderAll(c)
          /\ Applied(k)
       \/ /\ k \in At("failed")
          /\ card' = IF k.cont = "refetch" THEN card ELSE showBanner(card, [kind |-> k.cont])
          /\ unsure' = TRUE /\ UNCHANGED newest
    /\ calls' = calls \ {k}
    /\ UNCHANGED <<answerVars, told, freed>>

-----------------------------------------------------------------------------
(* The host delivers what list-events-expanded answered, now or long ago.  *)

maybeRefetch(c, others, n) ==
    IF c.pending = {} /\ ~c.fresh THEN others \cup {Refresh(c, "refetch", n)} ELSE others

Pushed(scope, stale) ==
    LET args == [range |-> Default, hidden |-> {}, calendarId |-> scope]
    IN  [events |-> IF stale THEN mix.old ELSE Listed(args), range |-> Default, calendarId |-> scope,
         meta |-> NoMeta, preserve |-> FALSE, stale |-> stale]

Ingested(vm, others, n) ==
    /\ card' = guardedRenderAll(applyStructuredContent(card, vm))
    /\ calls' = IF vm.stale THEN maybeRefetch(card', others, n) ELSE others

ontoolresult(scope, stale) ==
    /\ "push" \in mix.gestures /\ gestures < MaxGestures
    /\ LET vm == Pushed(scope, stale)
       IN  IF card.scope \notin {"all", scope} /\ card.range # NoRange
           THEN /\ calls' = calls \cup {[Refresh(card, "push", gestures + 1) EXCEPT !.pushed = {vm}]}
                /\ UNCHANGED card
           ELSE Ingested(vm, calls, gestures + 1)
    /\ gestures' = gestures + 1 /\ unsure' = TRUE
    /\ UNCHANGED <<list, gone, mix, outside, version, newest, told, freed, failures>>

AnswerPush(k) ==
    /\ k.tool = "refresh" /\ k.cont = "push"
    /\ LET vm == CHOOSE v \in k.pushed : TRUE
       IN  \/ k \in At("answered") /\ Ingested(Vm(k), calls \ {k}, gestures)
           \/ k \in At("failed") /\ Ingested(vm, calls \ {k}, gestures)
    /\ UNCHANGED <<answerVars, newest, unsure, told, freed>>

(* The card becomes visible again; the red line of the day is drawn anew.  *)
MaybeRefetch ==
    /\ Gesture("focus")
    /\ calls' = maybeRefetch(card, calls, gestures')
    /\ card' = IF card.mode = "day" THEN guardedRenderAll(card) ELSE card
    /\ UNCHANGED told

StaleTimePasses ==
    /\ card.fresh /\ mix.gestures \cap {"focus", "push"} # {}
    /\ card' = [card EXCEPT !.fresh = FALSE]
    /\ UNCHANGED <<list, gone, mix, gestures, outside, version, newest, unsure, told, freed, callVars>>

Retry ==
    /\ Gesture("retry")
    /\ LET b == card.banner
           c == clearBanner(card)
       IN  CASE b.kind \in {"range", "filter"} -> refetch(c, b.kind) /\ UNCHANGED told
             [] b.kind \in {"fetch", "retry"} ->
                    card' = c /\ calls' = Read(c, "retry") /\ UNCHANGED told
             [] b.kind = "delete" ->
                    IF b.id \in c.deletes THEN card' = c /\ UNCHANGED <<calls, told>>
                    ELSE /\ card' = StartDelete(c, b.id)
                         /\ calls' = calls \cup {NewCall("delete", b.id, Empty)}
                         /\ told' = Without(told, {b.id})
             [] b.kind = "edit" -> SaveEdit(c, b.id, b.arg)
             [] b.kind = "create" -> \E t \in FreshTemps(c) : EnqueueCreate(c, t, b.arg)
             [] OTHER -> FALSE

-----------------------------------------------------------------------------
(* A card comes up with a list, or with the answer of create-event, which  *)
(* names no range.                                                         *)
Start(events, range, added) ==
    [confirmed |-> events, events |-> events, added |-> added, edits |-> Empty, editing |-> {},
     deletes |-> {}, rows |-> Empty, pending |-> {}, timers |-> {}, dom |-> Empty,
     renderLater |-> FALSE, late |-> FALSE, sheet |-> NoSheet,
     banner |-> NoBanner, fresh |-> TRUE, mode |-> "list", day |-> Today,
     month |-> monthOf(Today), range |-> range, listRange |-> NoRange, scope |-> mix.scope,
     hidden |-> {}, full |-> mix.full]

Init ==
    /\ mix \in Gestures
    /\ list = mix.list /\ gone = {}
    /\ LET c == Start(Empty, Default, Empty)
           listing == Listed(refreshArgs(c))
       IN  card = renderAll(IF mix.born = Empty THEN Start(listing, Default, Empty)
                                                ELSE Start(mix.born, NoRange, mix.born))
    /\ gestures = 0 /\ outside = 0 /\ version = 0 /\ unsure = FALSE
    /\ newest = [n |-> 0, seen |-> 0] /\ told = Empty /\ freed = {}
    /\ calls = {} /\ failures = 0

Next ==
    \/ enterMonthMode \/ enterDayMode \/ exitToListMode \/ turnThePage \/ selectDay
    \/ applyHostContext \/ triggerCreateEvent \/ leaveSheet \/ saveSheet \/ submitCreate
    \/ \E cal \in Calendars : toggleCalendar(cal)
    \/ \E i \in Events \cup Temps : deleteEvent(i) \/ openSheet(i) \/ CommittingEnds(i) \/ Elsewhere(i)
    \/ \E scope \in Calendars \cup {"all"}, stale \in BOOLEAN : ontoolresult(scope, stale)
    \/ MaybeRefetch \/ StaleTimePasses \/ Retry
    \/ \E k \in calls : \/ updateEvent(k) \/ deleteEventTool(k) \/ createEvent(k)
                        \/ runListEvents(k) \/ RejectCall(k)
                        \/ AnswerMutation(k) \/ AnswerReread(k) \/ AnswerFailure(k)
                        \/ AnswerListing(k) \/ AnswerPush(k)

Spec == Init /\ [][Next]_allVars

-----------------------------------------------------------------------------
(* Properties.                                                             *)

Settled == calls = {} /\ card.timers = {} /\ card.sheet = NoSheet

(* KnowsTheList (refreshArgs, and the reading after each mutation): when   *)
(* all calls are answered in their order, what the card knows is the list  *)
(* of the range it names and of the calendars it shows.                    *)
KnowsTheList ==
    calls = {} /\ ~unsure /\ outside = 0 /\ card.range # NoRange /\ ~allCalendarsHidden(card)
    => card.confirmed = [i \in {j \in DOMAIN list : /\ list[j].day \in card.range
                                                    /\ list[j].cal \notin card.hidden
                                                    /\ card.scope \in {"all", list[j].cal}} |-> list[i]]

(* EditsArrive (saveEdit): once nothing is in flight for an event, the     *)
(* server has the last edits the card took, unless the card said that they *)
(* failed or somebody else changed events: two edits cannot overtake each  *)
(* other.  Not so after a deletion that came back in between               *)
(* (EditsTakeTurns).                                                       *)
EditsArrive ==
    outside = 0 => \A i \in (DOMAIN told \cap DOMAIN list) \ freed :
        (\A k \in calls : k.id # i) => \A f \in DOMAIN told[i] : list[i][f] = told[i][f]

(* NothingStaysOptimistic: when no call is in flight nothing is laid over  *)
(* the confirmed events.                                                   *)
NothingStaysOptimistic ==
    calls = {} => /\ {card.deletes, card.pending, card.editing} = {{}}
                  /\ {DOMAIN card.edits, DOMAIN card.rows} = {{}}

(* DrawsWhatItKnows (guardedRenderAll, refetchFiltered): on a settled card *)
(* the document is what the state says, unless the card shows a banner     *)
(* because a filter could not be changed, or that of a later failure in    *)
(* its place, and but for late answers (AnswersAreDrawn).                  *)
ListingFailed == \/ card.banner.kind = "filter"
                 \/ card.banner.kind \in {"range", "retry"} /\ failures > 1
DrawsWhatItKnows ==
    Settled /\ ~card.late /\ ~ListingFailed => card.dom = drawn(card)

(* EditsTakeTurns (agenda-entry.ts:4229): the edits of an event are sent   *)
(* one after the other.                                                    *)
EditsTakeTurns ==
    \A j, k \in calls : {j.tool, k.tool} = {"edit"} /\ j.id = k.id => j = k

(* AnswersAreDrawn (agenda-entry.ts:4141): the answer to a mutation is     *)
(* drawn.                                                                  *)
AnswersAreDrawn == Settled => card.dom = drawn(card)

(* DeletedRowsAreGone (agenda-entry.ts:1388): what this card is deleting   *)
(* is not drawn.                                                           *)
DeletedRowsAreGone == card.deletes \cap DOMAIN card.dom = {}

(* RangeFitsTheView (agenda-entry.ts:1838): a settled card has the range   *)
(* of what it draws: that of the month, of the day, or of the list.        *)
RangeFitsTheView ==
    Settled => CASE card.mode = "month" -> card.range = MonthGrid[card.month]
                 [] card.mode = "day" -> card.range = {card.day}
                 [] card.mode = "list" -> card.range \in {NoRange, Default}
=============================================================================
