------------------------------ MODULE TodosCard ------------------------------
(***************************************************************************)
(* The todos card (presentation/mcp/ui/todos-entry.ts): a list drawn from  *)
(* the last confirmed answer with the optimistic changes still in flight   *)
(* laid over it, rows that stay where they are once drawn, and a document  *)
(* that changes only when renderAll runs.                                  *)
(*                                                                         *)
(* The module state of the card is one record; each function of the card   *)
(* that changes state is an operator from a card to the next card, so that *)
(* a handler reads as the sequence of calls it makes.                      *)
(***************************************************************************)
EXTENDS CardCalls

CONSTANTS Tasks,        \* ids the server gives
          Temps,        \* ids of rows whose creation is in flight
          Gestures,     \* mixes of gestures of which one is chosen at start
          MaxGestures,  \* bound: gestures of the user
          MaxOutside    \* bound: changes by other clients

ASSUME TodosCardAssumption ==
    /\ Tasks \cap Temps = {}
    /\ {MaxGestures, MaxOutside, MaxFailures} \subseteq Nat

Row(done, title) == [done |-> done, title |-> title]

IsTaskList(f) == DOMAIN f \subseteq Tasks /\ \A i \in DOMAIN f : f[i] = Row(f[i].done, f[i].title)

ASSUME MixesAssumption == \A m \in Gestures : IsTaskList(m.tasks) /\ IsTaskList(m.old)

VARIABLES card,         \* the module state of todos-entry.ts
          list,         \* the tasks on the server
          gone,         \* history: tasks that were deleted; no other gets their id
          mix,          \* the gestures of this behaviour
          gestures, outside,    \* counters of the bounds
          wish          \* history: the last tap per task, unless it failed

cardVars == <<card, list, gone, mix, gestures, outside, wish>>
allVars == <<cardVars, callVars>>

NoSheet == "none"
NoBanner == [kind |-> "none"]

(* list-todos without includeCompleted answers with the open tasks only;   *)
(* the completed ones come as a summary.                                   *)
Listed(view) == [i \in {j \in DOMAIN list : view = "all" \/ ~list[j].done} |-> list[i]]
Recent == [i \in {j \in DOMAIN list : list[j].done} |-> list[i]]

-----------------------------------------------------------------------------
(* rebuildDisplay: the confirmed rows, minus the deletions and with the    *)
(* toggles and edits in flight; rows that left the confirmed list but have *)
(* a toggle in flight; rows whose creation is in flight.                   *)

(* Mutant: what left the confirmed list is never brought back.             *)
neverReviveToggle(c, i) == FALSE

shouldReviveToggle(c, i) ==
    i \notin DOMAIN c.confirmed /\ i \notin c.deletes /\ i \in DOMAIN c.sticky

Overlaid(c, i, row) ==
    Row(IF i \in DOMAIN c.toggles THEN c.toggles[i] ELSE row.done,
        IF i \in DOMAIN c.edits THEN c.edits[i] ELSE row.title)

optimisticRowToItem(c, i) == Row(i \in DOMAIN c.intents /\ c.intents[i], 0)

rebuildDisplay(c) ==
    LET live == DOMAIN c.confirmed \ c.deletes
        revived == {i \in DOMAIN c.toggles : shouldReviveToggle(c, i)}
    IN  [c EXCEPT !.tasks = [i \in live \cup revived \cup c.rows |->
            CASE i \in live -> Overlaid(c, i, c.confirmed[i])
              [] i \in revived -> Overlaid(c, i, c.sticky[i])
              [] OTHER -> optimisticRowToItem(c, i)]]

-----------------------------------------------------------------------------
(* renderAll.  A row keeps the section it was first drawn in; a row no     *)
(* longer in the list is drawn from what was last seen of it.  The inputs  *)
(* are drawn anew with the rest: what was typed in the draft row is gone.  *)

resetPositionMemory(c) == [c EXCEPT !.memory = Empty, !.sticky = Empty]

naturalSection(row) == IF row.done THEN "completed" ELSE "body"

sectionizeManual(c, realLive, synthDone) ==
    LET live == realLive @@ synthDone
    IN  [c EXCEPT !.sticky = realLive @@ c.sticky @@ synthDone,
                  !.memory = c.memory @@ [i \in DOMAIN live |-> naturalSection(live[i])]]

completedRowIsInBody(c, i) == i \in DOMAIN c.memory /\ c.memory[i] = "body"

rebuiltInputs(c) == [c EXCEPT !.focused = FALSE, !.draft = IF @ = "typed" THEN "empty" ELSE @]

drawList(c) ==
    LET realLive == [i \in DOMAIN c.tasks \ Temps |-> c.tasks[i]]
        synthDone == [i \in DOMAIN c.base \ DOMAIN c.tasks |-> Row(TRUE, c.base[i].title)]
        s == sectionizeManual(c, realLive, synthDone)
        body == {i \in DOMAIN s.memory \ c.deletes : completedRowIsInBody(s, i)}
        recent == {i \in DOMAIN c.summary \ c.deletes : ~completedRowIsInBody(s, i)}
        recentRow(i) == Row(IF i \in DOMAIN c.toggles THEN c.toggles[i] ELSE TRUE,
                            c.summary[i].title)
        known == realLive @@ synthDone @@ s.sticky
    IN  [s EXCEPT !.sticky = [i \in recent |-> recentRow(i)] @@ s.sticky,
                  !.dom = [i \in body |-> known[i]]
                          @@ [i \in recent |-> recentRow(i)]
                          @@ [i \in DOMAIN c.tasks \cap Temps |-> c.tasks[i]]]

sheetTaskExists(c) == c.sheet \in DOMAIN c.tasks \cup {"collection"}

renderAll(c) ==
    IF c.sheet # NoSheet /\ sheetTaskExists(c)
    THEN rebuiltInputs([c EXCEPT !.dom = Empty])
    ELSE rebuiltInputs(drawList([c EXCEPT !.sheet = NoSheet, !.owed = FALSE]))

shouldSkipDestructiveRender(c) == c.sheet # NoSheet \/ c.focused

guardedRenderAll(c) ==
    IF shouldSkipDestructiveRender(c) THEN [c EXCEPT !.renderLater = TRUE, !.owed = TRUE]
                                     ELSE renderAll(c)

flushPendingRenderIfIdle(c) ==
    IF c.renderLater /\ ~shouldSkipDestructiveRender(c)
    THEN renderAll([c EXCEPT !.renderLater = FALSE])
    ELSE c

setSheetState(c) ==
    LET closed == [c EXCEPT !.sheet = NoSheet]
    IN  IF c.renderLater THEN renderAll([closed EXCEPT !.renderLater = FALSE]) ELSE closed

closeSheet(c) == renderAll(setSheetState(c))

showAfterRollback(c) == renderAll(rebuildDisplay(c))

-----------------------------------------------------------------------------
(* applyStructuredContent: the answer replaces the confirmed rows; rows    *)
(* that disappeared without this card's doing are forgotten.               *)

Vm(k) == [tasks |-> k.tasks, summary |-> k.summary, view |-> k.view, stale |-> k.stale,
          completed |-> k.meta.completed, touched |-> k.meta.touched, removed |-> k.meta.removed]

RemovedElsewhere(c, vm) ==
    (DOMAIN c.confirmed \ DOMAIN vm.tasks) \ (vm.touched \cup vm.removed \cup c.pending)

applyStructuredContent(c, vm) ==
    LET viewChanged == vm.view \notin {"none", c.view}
        c1 == IF viewChanged THEN resetPositionMemory(c) ELSE c
        ghosts == vm.removed \cup IF c.mounted /\ ~viewChanged
                                  THEN RemovedElsewhere(c, vm) ELSE {}
        c2 == [c1 EXCEPT !.confirmed = vm.tasks, !.mounted = TRUE, !.base = vm.completed,
                         !.memory = Without(@, ghosts), !.sticky = Without(@, ghosts)]
    IN  [rebuildDisplay(c2) EXCEPT
            !.view = IF vm.view = "none" THEN "default" ELSE vm.view,
            !.summary = IF vm.summary = {} THEN @ ELSE CHOOSE s \in vm.summary : TRUE,
            !.fresh = @ \/ ~vm.stale]

-----------------------------------------------------------------------------
(* The tools of the server (server.ts).                                    *)

NoMeta == [completed |-> Empty, touched |-> {}, removed |-> {}]

(* callServerTool: row is what the closure of the handler captured, cont   *)
(* the handler a refresh-todos was awaited in.                             *)
NewCall(tool, i, arg, row) ==
    [tool |-> tool, id |-> i, arg |-> arg, row |-> row, cont |-> "none", at |-> "sent",
     meta |-> NoMeta, tasks |-> Empty, summary |-> {}, view |-> "none", stale |-> FALSE,
     pushed |-> {}]

Refresh(cont) == [NewCall("refresh", cont, TRUE, TRUE) EXCEPT !.cont = cont, !.view = card.view]

UpdateTodo(k) ==
    /\ k \in At("sent") /\ k.tool \in {"toggle", "edit"}
    /\ IF k.id \in DOMAIN list
       THEN LET row == IF k.tool = "toggle" THEN [list[k.id] EXCEPT !.done = k.arg]
                                            ELSE [list[k.id] EXCEPT !.title = k.arg]
            IN  /\ list' = [list EXCEPT ![k.id] = row]
                /\ calls' = Becomes(k, [k EXCEPT !.at = "done", !.meta.touched = {k.id},
                      !.meta.completed = IF k.tool = "toggle" /\ k.arg THEN k.id :> row ELSE Empty])
       ELSE calls' = Advance(k, "failed") /\ UNCHANGED list
    /\ UNCHANGED <<card, gone, mix, gestures, outside, wish, failures>>

DeleteTodo(k) ==
    /\ k \in At("sent") /\ k.tool = "delete"
    /\ IF k.id \in DOMAIN list
       THEN /\ list' = Without(list, {k.id})
            /\ gone' = gone \cup {k.id}
            /\ calls' = Becomes(k, [k EXCEPT !.at = "done", !.meta.removed = {k.id}])
       ELSE calls' = Advance(k, "failed") /\ UNCHANGED <<list, gone>>
    /\ UNCHANGED <<card, mix, gestures, outside, wish, failures>>

CreateTodo(k) ==
    /\ k \in At("sent") /\ k.tool = "create"
    /\ \E i \in Tasks \ (DOMAIN list \cup gone \cup DOMAIN mix.old) :
          /\ list' = (i :> Row(FALSE, 0)) @@ list
          /\ calls' = Becomes(k, [k EXCEPT !.at = "done", !.meta.touched = {i}])
    /\ UNCHANGED <<card, gone, mix, gestures, outside, wish, failures>>

(* buildTodosViewModel reads the list after the change, in a query of its  *)
(* own.  Mutating tools answer in the default view, without echoing one.   *)
buildTodosViewModel(k) ==
    /\ k.at = IF k.tool = "refresh" THEN "sent" ELSE "done"
    /\ LET view == IF k.view = "all" THEN "all" ELSE "none"
       IN  calls' = Becomes(k, [k EXCEPT !.at = "answered", !.tasks = Listed(view), !.view = view,
                                         !.summary = IF k.cont \in {"none", "refetch", "retry"}
                                                     THEN {Recent} ELSE {}])
    /\ UNCHANGED <<cardVars, failures>>

(* Another client, or the model, completes, reopens or deletes a task.     *)
Elsewhere(i) ==
    /\ outside < MaxOutside
    /\ i \in DOMAIN list
    /\ outside' = outside + 1
    /\ \/ list' = [list EXCEPT ![i].done = ~@] /\ UNCHANGED gone
       \/ list' = Without(list, {i}) /\ gone' = gone \cup {i}
    /\ UNCHANGED <<card, mix, gestures, wish, callVars>>

RejectCall(k) == Reject(k) /\ UNCHANGED cardVars

-----------------------------------------------------------------------------
(* Gestures.                                                               *)

Gesture(g) == /\ g \in mix.gestures
              /\ gestures < MaxGestures
              /\ gestures' = gestures + 1
              /\ UNCHANGED <<list, gone, mix, outside, failures>>

(* A tap moves the focus out of the input (Blur) before it arrives.        *)
OnList(i) == card.sheet = NoSheet /\ ~card.focused /\ i \in DOMAIN card.dom

startCommitting(c, i) == [c EXCEPT !.pending = @ \cup {i}, !.timers = @ \cup {i}]

clearBanner(c) == [c EXCEPT !.banner = NoBanner]

Shown(c) == renderAll(rebuildDisplay(clearBanner(c)))

(* toggleTask(task): what the row shows is what the tap turns around.  A   *)
(* row whose creation is in flight only queues the wish.                   *)
QueueToggle(c, i, shown) ==
    /\ card' = Shown([c EXCEPT !.intents = (i :> ~shown) @@ @])
    /\ UNCHANGED <<calls, wish>>

SendToggle(c, others, i, shown) ==
    /\ card' = Shown(startCommitting([c EXCEPT !.toggles = (i :> ~shown) @@ @,
                                               !.desired = (i :> ~shown) @@ @,
                                               !.sending = @ \cup {i}], i))
    /\ wish' = (i :> ~shown) @@ wish
    /\ calls' = others \cup IF i \in c.sending THEN {}
                            ELSE {NewCall("toggle", i, ~shown, shown)}

toggleTask(i) ==
    /\ Gesture("toggle") /\ OnList(i)
    /\ IF i \in Temps THEN QueueToggle(card, i, card.dom[i].done)
                      ELSE SendToggle(card, calls, i, card.dom[i].done)

StartDelete(c, i) ==
    IF i \in c.deletes THEN c
    ELSE LET c1 == startCommitting([c EXCEPT !.deletes = @ \cup {i}], i)
         IN  Shown(IF c1.sheet = i THEN closeSheet(c1) ELSE c1)

deleteTask(i) ==
    /\ Gesture("delete") /\ OnList(i) /\ i \notin Temps \cup card.deletes
    /\ card' = StartDelete(card, i)
    /\ calls' = calls \cup {NewCall("delete", i, TRUE, TRUE)}
    /\ wish' = Without(wish, {i})

(* The detail page, drawn in place of the list, and leaving it with an     *)
(* edit: saveEdit refuses a row that has something in flight.              *)
openDetail(i) ==
    /\ Gesture("sheet") /\ OnList(i) /\ i \in DOMAIN card.tasks \ Temps
    /\ card' = renderAll([card EXCEPT !.sheet = i])
    /\ UNCHANGED <<calls, wish>>

leaveSheet ==
    /\ card.sheet # NoSheet
    /\ card' = closeSheet(card)
    /\ UNCHANGED <<calls, wish, list, gone, mix, gestures, outside, failures>>

SaveEdit(c, i, title) ==
    /\ card' = Shown(startCommitting([c EXCEPT !.edits = (i :> title) @@ @], i))
    /\ calls' = calls \cup {NewCall("edit", i, title, TRUE)}

saveEdit(title) ==
    /\ Gesture("edit") /\ card.sheet \in DOMAIN card.tasks
    /\ LET i == card.sheet IN
          IF i \in card.pending \/ card.tasks[i].title = title
          THEN card' = closeSheet(card) /\ UNCHANGED calls
          ELSE SaveEdit(closeSheet(card), i, title)
    /\ UNCHANGED wish

-----------------------------------------------------------------------------
(* The draft row: the plus button adds an empty row with the focus in it;  *)
(* what is typed is saved when the focus leaves it.                        *)

FreshTemps(c) == Temps \ (c.rows \cup DOMAIN c.dom \cup DOMAIN c.intents)

EnqueueQuickAdd(c, t) ==
    startCommitting([c EXCEPT !.rows = @ \cup {t}], t)

(* The card and the calls it leaves, for each id the new row may get.      *)
commitSelection(c) ==
    IF c.draft = "typed"
    THEN {[card  |-> [Shown(EnqueueQuickAdd(c, t)) EXCEPT !.draft = "none"],
           calls |-> calls \cup {NewCall("create", t, TRUE, TRUE)}] : t \in FreshTemps(c)}
    ELSE {[card |-> [c EXCEPT !.draft = "none"], calls |-> calls]}

startDraft(c) == [renderAll([c EXCEPT !.draft = "empty"]) EXCEPT !.focused = TRUE]

triggerQuickAdd ==
    /\ Gesture("create") /\ card.sheet = NoSheet
    /\ \E o \in commitSelection(card) : card' = startDraft(o.card) /\ calls' = o.calls
    /\ UNCHANGED wish

Type ==
    /\ card.draft = "empty" /\ card.focused
    /\ card' = [card EXCEPT !.draft = "typed"]
    /\ UNCHANGED <<calls, wish, list, gone, mix, gestures, outside, failures>>

commitDraftEnter ==
    /\ card.draft = "typed" /\ card.focused
    /\ \E o \in commitSelection(card) : card' = renderAll(o.card) /\ calls' = o.calls
    /\ UNCHANGED <<wish, list, gone, mix, gestures, outside, failures>>

(* The focus leaves the input; the handler runs in a timer of 0 ms, when   *)
(* the next focus is known.                                                *)
Blur ==
    /\ card.focused
    /\ card' = [card EXCEPT !.focused = FALSE, !.blurred = TRUE]
    /\ UNCHANGED <<calls, wish, list, gone, mix, gestures, outside, failures>>

(* Mutant: leaving an input in which nothing was typed does nothing.       *)
commitOnBlurIfTyped ==
    /\ card.blurred
    /\ LET c == [card EXCEPT !.blurred = FALSE]
       IN  IF c.draft # "typed" \/ c.focused \/ c.sheet # NoSheet
           THEN card' = [c EXCEPT !.draft = "none"] /\ UNCHANGED calls
           ELSE \E o \in commitSelection(c) : card' = renderAll(o.card) /\ calls' = o.calls
    /\ UNCHANGED <<wish, list, gone, mix, gestures, outside, failures>>

commitSelectionOnBlur ==
    /\ card.blurred
    /\ LET c == [card EXCEPT !.blurred = FALSE]
       IN  IF c.draft = "none" \/ c.focused \/ c.sheet # NoSheet
           THEN card' = flushPendingRenderIfIdle(c) /\ UNCHANGED calls
           ELSE \E o \in commitSelection(c) :
                    card' = flushPendingRenderIfIdle(renderAll(o.card)) /\ calls' = o.calls
    /\ UNCHANGED <<wish, list, gone, mix, gestures, outside, failures>>

openCollectionSheet ==
    /\ Gesture("sheet") /\ card.sheet = NoSheet /\ ~card.focused
    /\ \E o \in commitSelection(card) :
          /\ card' = renderAll([clearBanner(o.card) EXCEPT !.sheet = "collection"])
          /\ calls' = o.calls
    /\ UNCHANGED wish

(* The row's animation has run once: renderAll, whatever has the focus.    *)
CommittingEnds(i) ==
    /\ i \in card.timers
    /\ card' = renderAll([card EXCEPT !.timers = @ \ {i}])
    /\ UNCHANGED <<calls, wish, list, gone, mix, gestures, outside, failures>>

-----------------------------------------------------------------------------
(* Answers.  What a handler does on success before it applies the list: a  *)
(* toggle keeps its overlay until its loop settles.                        *)

removeOptimisticRow(c, t) == [c EXCEPT !.rows = @ \ {t}, !.pending = @ \ {t}]

Cleared(c, tool, i) ==
    CASE tool = "toggle" -> c
      [] tool = "delete" -> [c EXCEPT !.deletes = @ \ {i}, !.pending = @ \ {i}]
      [] tool = "edit"   -> [c EXCEPT !.edits = Without(@, {i}), !.pending = @ \ {i}]
      [] tool = "create" -> removeOptimisticRow(c, i)

(* Mutant: what was wished for while the request was in flight is dropped. *)
alwaysSettle(c, i, sent) == "settle"

coalesceAction(c, i, sent) ==
    IF i \in DOMAIN c.desired /\ c.desired[i] # sent THEN "resend" ELSE "settle"

Settled(c, i) == [c EXCEPT !.desired = Without(@, {i}), !.toggles = Without(@, {i}),
                           !.pending = @ \ {i}, !.sending = @ \ {i}]

flushToggle(c, others, k) ==
    /\ IF coalesceAction(c, k.id, k.arg) = "resend"
       THEN /\ card' = c
            /\ calls' = others \cup {NewCall("toggle", k.id, c.desired[k.id], k.row)}
       ELSE card' = Settled(c, k.id) /\ calls' = others
    /\ UNCHANGED wish

(* The taps queued on the row are carried out on the task it became.       *)
applyQueuedToggle(c, others, k) ==
    LET c1 == [c EXCEPT !.intents = Without(@, {k.id})]
        open == {i \in k.meta.touched \cap DOMAIN c.confirmed : ~c.confirmed[i].done}
    IN  IF k.id \in DOMAIN c.intents /\ c.intents[k.id] /\ open # {}
        THEN SendToggle(c1, others, CHOOSE i \in open : TRUE, FALSE)
        ELSE card' = c1 /\ calls' = others /\ UNCHANGED wish

Finish(c, others, k) ==
    CASE k.tool = "toggle" -> flushToggle(c, others, k)
      [] k.tool = "create" -> applyQueuedToggle(c, others, k)
      [] OTHER -> card' = c /\ calls' = others /\ UNCHANGED wish

Mutating == {"toggle", "delete", "edit", "create"}

(* A mutating tool answers with the default view; a card that shows        *)
(* another one reads that again and puts it in the answer's place.         *)
AnswerMutation(k) ==
    /\ k \in At("answered") /\ k.tool \in Mutating
    /\ LET c == Cleared(card, k.tool, k.id)
       IN  IF card.view = "default"
           THEN Finish(applyStructuredContent(c, Vm(k)), calls \ {k}, k)
           ELSE /\ card' = c
                /\ calls' = (calls \ {k}) \cup
                     {[Refresh(k.tool) EXCEPT !.id = k.id, !.arg = k.arg, !.row = k.row,
                                              !.meta = k.meta]}
                /\ UNCHANGED wish
    /\ UNCHANGED <<list, gone, mix, gestures, outside, failures>>

AnswerReread(k) ==
    /\ k.tool = "refresh" /\ k.cont \in Mutating
    /\ LET c == IF k \in At("answered")
                THEN applyStructuredContent(card, Vm(k))
                ELSE [showAfterRollback(card) EXCEPT !.banner = [kind |-> "fetch"]]
       IN  /\ k \in At("answered") \cup At("failed")
           /\ Finish(c, calls \ {k}, [k EXCEPT !.tool = k.cont])
    /\ UNCHANGED <<list, gone, mix, gestures, outside, failures>>

Banner(k) == [kind |-> k.tool, id |-> k.id, arg |-> k.arg, row |-> k.row]

(* Mutant: the row that had left the list is drawn as it was brought back. *)
RolledBackBare(c, i) == Settled(c, i)

(* Roll back: the wish, the overlay and the pending mark go together.  A   *)
(* row that had already left the list goes back to being completed.        *)
RolledBackToggle(c, i) ==
    LET c1 == Settled(c, i)
    IN  IF i \notin DOMAIN c.confirmed /\ i \in DOMAIN c.sticky
        THEN [c1 EXCEPT !.sticky[i].done = TRUE] ELSE c1

(* Mutant: a failed deletion leaves the row hidden.                        *)
RolledBackPartly(c, tool, i) ==
    CASE tool = "toggle" -> RolledBackToggle(c, i)
      [] tool = "create" -> [removeOptimisticRow(c, i) EXCEPT !.intents = Without(@, {i})]
      [] tool = "edit"   -> Cleared(c, tool, i)
      [] tool = "delete" -> [c EXCEPT !.pending = @ \ {i}]

RolledBack(c, tool, i) ==
    CASE tool = "toggle" -> RolledBackToggle(c, i)
      [] tool = "create" -> [removeOptimisticRow(c, i) EXCEPT !.intents = Without(@, {i})]
      [] OTHER -> Cleared(c, tool, i)

AnswerFailure(k) ==
    /\ k \in At("failed") /\ k.tool \in Mutating
    /\ card' = [showAfterRollback(RolledBack(card, k.tool, k.id)) EXCEPT !.banner = Banner(k)]
    /\ calls' = calls \ {k}
    /\ wish' = IF k.tool = "toggle" THEN Without(wish, {k.id}) ELSE wish
    /\ UNCHANGED <<list, gone, mix, gestures, outside, failures>>

-----------------------------------------------------------------------------
(* Listings: pushed by the host, or read again by the card.                *)

maybeRefetch(c, others) ==
    IF c.pending = {} /\ ~c.fresh THEN others \cup {Refresh("refetch")} ELSE others

(* ontoolresult: the host delivers what a tool answered just now, or, when *)
(* it restores a conversation, what it answered long ago.                  *)
Pushed(view, stale) ==
    [Vm(NewCall("push", "push", TRUE, TRUE)) EXCEPT
        !.view = view, !.stale = stale,
        !.summary = {IF stale THEN Empty ELSE Recent},
        !.tasks = IF stale THEN mix.old ELSE Listed(view)]

ontoolresult(view, stale) ==
    /\ Gesture("push")
    /\ LET vm == Pushed(view, stale)
           c == guardedRenderAll(applyStructuredContent(card, vm))
       IN  IF card.view = "all" /\ view = "none"
           THEN card' = card /\ calls' = calls \cup {[Refresh("push") EXCEPT !.pushed = {vm}]}
           ELSE card' = c /\ calls' = IF stale THEN maybeRefetch(c, calls) ELSE calls
    /\ UNCHANGED wish

AnswerListing(k) ==
    /\ k.tool = "refresh" /\ k.cont \in {"push", "refetch", "retry"}
    /\ LET c == applyStructuredContent(card, Vm(k))
           vm == CHOOSE v \in k.pushed : TRUE
       IN  \/ /\ k \in At("answered")
              /\ card' = IF k.cont = "retry" THEN renderAll(c) ELSE guardedRenderAll(c)
              /\ calls' = calls \ {k}
           \/ /\ k \in At("failed") /\ k.cont = "push"
              /\ card' = guardedRenderAll(applyStructuredContent(card, vm))
              /\ calls' = IF vm.stale THEN maybeRefetch(card', calls \ {k}) ELSE calls \ {k}
           \/ /\ k \in At("failed") /\ k.cont # "push"
              /\ card' = [card EXCEPT !.banner = IF k.cont = "retry" THEN [kind |-> "fetch"] ELSE @]
              /\ calls' = calls \ {k}
    /\ UNCHANGED <<list, gone, mix, gestures, outside, wish, failures>>

(* The card becomes visible again.                                         *)
MaybeRefetch ==
    /\ Gesture("focus")
    /\ calls' = maybeRefetch(card, calls) /\ calls' # calls
    /\ UNCHANGED <<card, wish>>

StaleTimePasses ==
    /\ card.fresh /\ "focus" \in mix.gestures
    /\ card' = [card EXCEPT !.fresh = FALSE]
    /\ UNCHANGED <<calls, wish, list, gone, mix, gestures, outside, failures>>

hostcontextchanged ==
    /\ Gesture("context")
    /\ card' = guardedRenderAll(card)
    /\ UNCHANGED <<calls, wish>>

-----------------------------------------------------------------------------
(* The banner's button does again what failed, with the row the handler    *)
(* captured.                                                               *)

retryFetch == /\ card.banner.kind = "fetch"
              /\ card' = clearBanner(card)
              /\ calls' = calls \cup {Refresh("retry")}
              /\ UNCHANGED wish

retryMutation(b) ==
    CASE b.kind = "toggle" -> SendToggle(card, calls, b.id, b.row)
      [] b.kind = "delete" -> /\ card' = StartDelete(card, b.id)
                              /\ calls' = IF b.id \in card.deletes THEN calls
                                          ELSE calls \cup {NewCall("delete", b.id, TRUE, TRUE)}
                              /\ wish' = Without(wish, {b.id})
      [] b.kind = "edit"   -> /\ IF b.id \in card.pending THEN UNCHANGED <<card, calls>>
                                 ELSE SaveEdit(card, b.id, b.arg)
                              /\ UNCHANGED wish
      [] b.kind = "create" -> /\ \E t \in FreshTemps(card) :
                                    /\ card' = Shown(EnqueueQuickAdd(card, t))
                                    /\ calls' = calls \cup {NewCall("create", t, TRUE, TRUE)}
                              /\ UNCHANGED wish

Retry ==
    /\ Gesture("retry")
    /\ \/ retryFetch
       \/ card.banner.kind \in Mutating /\ retryMutation(card.banner)

-----------------------------------------------------------------------------
Start(tasks, view) ==
    [confirmed |-> tasks, mounted |-> TRUE, toggles |-> Empty, desired |-> Empty,
     sending |-> {}, intents |-> Empty, rows |-> {}, edits |-> Empty, deletes |-> {},
     pending |-> {}, base |-> Empty, tasks |-> tasks, memory |-> Empty, sticky |-> Empty,
     summary |-> Empty, dom |-> Empty, timers |-> {}, renderLater |-> FALSE, owed |-> FALSE,
     sheet |-> NoSheet, draft |-> "none", focused |-> FALSE, blurred |-> FALSE,
     banner |-> NoBanner, fresh |-> TRUE, view |-> view]

Init ==
    /\ mix \in Gestures
    /\ list = mix.tasks /\ gone = {}
    /\ card = renderAll(Start(Listed(mix.view), mix.view))
    /\ gestures = 0 /\ outside = 0 /\ wish = Empty
    /\ calls = {} /\ failures = 0

Next ==
    \/ \E i \in Tasks \cup Temps : toggleTask(i) \/ deleteTask(i) \/ openDetail(i)
                                   \/ CommittingEnds(i) \/ Elsewhere(i)
    \/ \E title \in {1, 2} : saveEdit(title)
    \/ openCollectionSheet \/ leaveSheet
    \/ triggerQuickAdd \/ Type \/ commitDraftEnter \/ Blur \/ commitSelectionOnBlur
    \/ \E view \in {"none", "all"}, stale \in BOOLEAN : ontoolresult(view, stale)
    \/ MaybeRefetch \/ StaleTimePasses \/ hostcontextchanged \/ Retry
    \/ \E k \in calls : \/ UpdateTodo(k) \/ DeleteTodo(k) \/ CreateTodo(k)
                        \/ buildTodosViewModel(k) \/ RejectCall(k)
                        \/ AnswerMutation(k) \/ AnswerReread(k) \/ AnswerFailure(k)
                        \/ AnswerListing(k)

Spec == Init /\ [][Next]_allVars

-----------------------------------------------------------------------------
(* Properties.                                                             *)

Waiting(i) == \E k \in calls : k.id = i

(* LastWishWins (coalesceAction, flushToggle): once nothing is in flight   *)
(* for a task, the server has what the user last asked of it, unless the   *)
(* card said that it failed or somebody else changed tasks.                *)
LastWishWins ==
    outside = 0 => \A i \in DOMAIN wish \cap DOMAIN list :
                      ~Waiting(i) => list[i].done = wish[i]

(* WishIsShown (rebuildDisplay, shouldReviveToggle): while a toggle is in  *)
(* flight its row, where one is drawn, shows the wish and not what the     *)
(* server said before.                                                     *)
WishIsShown ==
    \A i \in DOMAIN card.desired \cap DOMAIN card.dom : card.dom[i].done = card.desired[i]

(* OverlaysEnd: when no call is in flight nothing optimistic is left.      *)
OverlaysEnd ==
    calls = {} => /\ {card.rows, card.deletes, card.pending, card.sending} = {{}}
                  /\ {DOMAIN card.toggles, DOMAIN card.edits, DOMAIN card.desired} = {{}}

(* SuppressedRendersAreMadeUp (guardedRenderAll, setSheetState,            *)
(* flushPendingRenderIfIdle): a render is owed only while its reason       *)
(* lasts.                                                                  *)
SuppressedRendersAreMadeUp ==
    card.owed => shouldSkipDestructiveRender(card) \/ card.blurred

(* A card that knows the list and has nothing in flight, and what it shows *)
(* once it is drawn anew.                                                  *)
Idle == /\ calls = {} /\ card.timers = {} /\ card.sheet = NoSheet
        /\ ~card.owed /\ card.draft = "none"
        /\ card.confirmed = Listed(card.view)
DrawnOpen == LET dom == showAfterRollback(card).dom IN {i \in DOMAIN dom : ~dom[i].done}
Open == {i \in DOMAIN list : ~list[i].done}

(* SettledRowsAreTrue (applyStructuredContent, sectionizeManual): no task  *)
(* is shown as open that is not.                                           *)
SettledRowsAreTrue == Idle /\ card.view = "default" => DrawnOpen \subseteq Open

(* EveryTaskHasAChannel (completed-dedup.ts:20-30): every open task is     *)
(* drawn, in the body or among the recently completed ones.                *)
EveryTaskHasAChannel == Idle => Open \subseteq DrawnOpen

(* ShowsTruth: both, but for two cases in which the code falls short: what *)
(* happens to a row unseen while the card explains it by an edit or a tap  *)
(* of its own (SettledRowsAreTrue), and a row that was first drawn as done *)
(* (EveryTaskHasAChannel).                                                 *)
ExplainedUnseen == \/ outside > 0 /\ mix.gestures \cap {"toggle", "edit", "delete"} # {}
                   \/ failures > 0 /\ mix.gestures \cap {"create", "edit", "delete"} # {}
BornCompleted == \E i \in DOMAIN card.memory : card.memory[i] = "completed"
ShowsTruth == /\ ExplainedUnseen \/ SettledRowsAreTrue
              /\ BornCompleted \/ EveryTaskHasAChannel

(* OldListIsNotFresh (freshness.ts 14-18): while nobody else changes tasks *)
(* and no call is lost, a card passes for fresh only if it knows the list. *)
OldListIsNotFresh ==
    outside = 0 /\ failures = 0 /\ calls = {} /\ card.fresh =>
        card.confirmed = Listed(card.view)

(* RetryRepeats: the banner's button asks for what failed.                 *)
RetryRepeats ==
    card.banner.kind = "toggle" => card.banner.arg = ~card.banner.row

(* TypedTextSurvives (render-gate.ts:44): what the user is typing is saved *)
(* and never thrown away by a render.                                      *)
TypedTextSurvives ==
    [][card.draft = "typed" => card'.draft = "typed" \/ card'.rows # card.rows]_allVars

(* QueuedTapsHaveARow: a tap is queued only for a row whose creation will  *)
(* still answer.                                                           *)
QueuedTapsHaveARow == DOMAIN card.intents \subseteq card.rows
=============================================================================
