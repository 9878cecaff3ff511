-------------------------- MODULE AgendaCardProofs --------------------------
(***************************************************************************)
(* Proofs about the agenda card, for any number of events, calendars, days,*)
(* gestures, failures and changes by other clients.                        *)
(*                                                                         *)
(* The invariant CardInv has five parts.  Shapes is the type invariant.    *)
(* OverlaysCarried: whatever is laid over the list, or locked, belongs to  *)
(* a call under way.  EditsInv: what the user was told about an event is on*)
(* the server, or some call brings it or is known to have failed; that     *)
(* needs one edit per event at a time.  DrawInv: a document that is not    *)
(* what the state says is waiting for a reading, or a banner says that a   *)
(* reading failed, and failures are counted so that a later banner in its  *)
(* place is told apart.  KnowInv: there is a gesture g, the last to change *)
(* the range or the filter, such that every reading sent at g or later     *)
(* asks for what is shown; the card has the list, or such a reading is     *)
(* under way.                                                              *)
(*                                                                         *)
(* The steps fall into four classes, each with one lemma that keeps the    *)
(* invariant: PageStep (what only draws and reads), ListingStep (listings  *)
(* that arrive), Moves (the server's side of a call) and SendStep          *)
(* (gestures that send a change).                                          *)
(***************************************************************************)
EXTENDS AgendaCard, TLAPS

CardFields == {"confirmed", "events", "added", "edits", "editing", "deletes", "rows", "pending",
               "timers", "dom", "renderLater", "late", "sheet", "banner", "fresh", "mode", "day",
               "month", "range", "listRange", "scope", "hidden", "full"}

CallFields == {"tool", "id", "arg", "cont", "at", "args", "n", "seen", "meta", "events", "pushed"}

IsChange(arg) == DOMAIN arg \subseteq {"day", "title"}

(* What can be done again from the banner.                                 *)
IsBanner(b) == /\ b.kind = "edit" => IsChange(b.arg) /\ b.id \notin Temps
               /\ b.kind = "create" => IsEvent(b.arg)
               /\ b.kind = "delete" => b.id \notin Temps

IsCard(c) == /\ c = [f \in CardFields |-> c[f]]
             /\ c.mode \in {"list", "month", "day"}
             /\ c.sheet \notin Temps
             /\ IsBanner(c.banner)

IsArgs(a) == /\ a = [range |-> a.range, hidden |-> a.hidden, calendarId |-> a.calendarId]
             /\ a.calendarId # "all" => a.hidden = {}

IsCall(k) == /\ k = [f \in CallFields |-> k[f]]
             /\ k.meta = [added |-> k.meta.added, changed |-> k.meta.changed]
             /\ k.tool \in Mutating \cup {"refresh"}
             /\ k.tool \in Mutating => k.at \in {"sent", "done", "failed"}
             /\ k.tool = "refresh" => /\ k.at \in {"sent", "answered", "failed"}
                                      /\ k.n \in Nat /\ k.seen \in Nat
                                      /\ \E a \in k.args : k.args = {a} /\ IsArgs(a)
             /\ k.tool \in {"edit", "delete"} => k.id \notin Temps
             /\ k.tool = "edit" => IsChange(k.arg)
             /\ k.tool = "create" => k.id \in Temps /\ IsEvent(k.arg)

Shapes == /\ IsCard(card)
          /\ \A k \in calls : IsCall(k)
          /\ IsListing(list) /\ mix \in Gestures
          /\ \A i \in DOMAIN told : IsChange(told[i])
          /\ {gestures, version, failures, newest.n, newest.seen, outside} \subseteq Nat
          /\ newest = [n |-> newest.n, seen |-> newest.seen]

(* Whatever is laid over the confirmed events belongs to a call.           *)
Under(ks, tool, i) == \E k \in ks : k.tool = tool /\ k.id = i

Carried(c, ks) ==
    /\ \A i \in c.deletes : Under(ks, "delete", i)
    /\ \A i \in DOMAIN c.edits \cup c.editing : Under(ks, "edit", i)
    /\ \A i \in DOMAIN c.rows : Under(ks, "create", i)
    /\ \A i \in c.pending : \E tool \in Mutating : Under(ks, tool, i)

OverlaysCarried == Carried(card, calls)

(* An event has one edit at a time, unless a deletion came back in between.*)
IsEdit(k, i) == k.tool = "edit" /\ k.id = i

OneEditAtATime ==
    \A k \in calls : k.tool = "edit" /\ k.id \notin freed =>
        /\ k.id \in card.pending
        /\ \A j \in calls : IsEdit(j, k.id) => j = k

(* What the user asked for is on the server, or a call will bring it or is *)
(* known to have failed.                                                   *)
Brings(k, i, f) == /\ IsEdit(k, i)
                   /\ \/ k.at = "failed"
                      \/ k.at = "sent" /\ f \in DOMAIN k.arg /\ k.arg[f] = told[i][f]

SentAsTold ==
    \A k \in calls : k.tool = "edit" /\ k.at = "sent" /\ k.id \in DOMAIN told \ freed =>
        \A f \in DOMAIN k.arg \cap DOMAIN told[k.id] : k.arg[f] = told[k.id][f]

ToldArrives ==
    outside = 0 => \A i \in DOMAIN told \ (freed \cup gone) : \A f \in DOMAIN told[i] :
        \/ i \in DOMAIN list /\ list[i][f] = told[i][f]
        \/ \E k \in calls : Brings(k, i, f)

GoneForGood == gone \cap DOMAIN list = {}

EditsInv == OneEditAtATime /\ SentAsTold /\ ToldArrives /\ GoneForGood

(* A list that is not drawn as it is: with no page open and nothing that   *)
(* will draw it but the answer of a listing.                               *)
Reading(k, conts) == k.tool = "refresh" /\ k.cont \in conts
FailedRead(k) == k.tool = "refresh" /\ k.at = "failed"

Undrawn == /\ card.sheet = NoSheet /\ card.timers = {} /\ ~card.late
           /\ card.dom # drawn(card)
           /\ \A k \in calls : ~Reading(k, {"filter"})

UndrawnIsExplained ==
    Undrawn => /\ failures > 0
               /\ (\E k \in calls : FailedRead(k)) => failures > 1
               /\ ListingFailed \/ \E k \in calls : Reading(k, {"range", "retry"})

FailuresCount == \A k \in calls : FailedRead(k) =>
                    /\ failures > 0
                    /\ \A j \in calls : FailedRead(j) /\ j # k => failures > 1

DrawInv == UndrawnIsExplained /\ FailuresCount

(* The list as the card would show it.                                     *)
View(c) == [i \in {j \in DOMAIN list : /\ list[j].day \in c.range
                                       /\ list[j].cal \notin c.hidden
                                       /\ c.scope \in {"all", list[j].cal}} |-> list[i]]

(* A reading under way; g is the gesture that last changed the range or    *)
(* the filter.                                                             *)
ReadingFits(k, g) ==
    k.tool = "refresh" =>
        /\ k.n <= gestures /\ k.seen <= version
        /\ k.at = "answered" /\ k.seen = version => k.events = Listed(Args(k))
        /\ k.n >= g /\ ~allCalendarsHidden(card) => Args(k).hidden = card.hidden
        /\ k.cont = "push" => unsure

(* A call after which the list will be read, or has just been read.        *)
WillTell(k) == \/ k.tool \in Mutating /\ k.meta # NoMeta
               \/ k.tool = "refresh" /\ (k.at = "answered" => k.seen = version)

ReadingsFit(g) ==
    /\ \A k \in calls : ReadingFits(k, g)
    /\ newest.n <= gestures /\ newest.seen <= version
    /\ ~unsure /\ ~allCalendarsHidden(card) /\ newest.n < g =>
           \E k \in calls : k.tool = "refresh" /\ k.n >= g
    /\ ~unsure /\ outside = 0 /\ newest.seen < version => \E k \in calls : WillTell(k)
    /\ ~unsure /\ ~allCalendarsHidden(card) /\ newest.n >= g /\ newest.seen = version
           /\ card.range # NoRange => card.confirmed = View(card)

KnowInv == \E g \in 0..gestures : ReadingsFit(g)

CardInv == Shapes /\ OverlaysCarried /\ EditsInv /\ DrawInv /\ KnowInv

-----------------------------------------------------------------------------
(* What the functions of the card leave alone.                             *)

CoreFields == {"confirmed", "added", "edits", "editing", "deletes", "rows", "pending", "timers",
               "fresh", "mode", "day", "month", "range", "listRange", "scope", "hidden", "full"}

SameCore(c, d) == \A f \in CoreFields : d[f] = c[f]

(* With no page open the document is what the state says.                  *)
IsDrawn(c) == c.sheet = NoSheet => c.dom = drawn(c)

LEMMA SameCoreTransitive ==
    ASSUME NEW b, NEW c, NEW d, SameCore(b, c), SameCore(c, d)
    PROVE  SameCore(b, d)
  BY DEF SameCore

LEMMA DrawnAlike ==
    ASSUME NEW c, NEW d, d.events = c.events, d.hidden = c.hidden, d.added = c.added,
           d.month = c.month, d.day = c.day, d.mode = c.mode
    PROVE  drawn(d) = drawn(c)
  <1>1. allCalendarsHidden(d) = allCalendarsHidden(c)
    BY DEF allCalendarsHidden
  <1>2. baseEvents(d) = baseEvents(c)
    BY <1>1, Zenon DEF baseEvents
  <1>3. /\ renderList(d) = renderList(c)
        /\ renderMonthView(d) = renderMonthView(c)
        /\ renderDayView(d) = renderDayView(c)
    BY <1>2, Zenon DEF renderList, renderMonthView, renderDayView, onDays
  <1> QED
    BY <1>3, Zenon DEF drawn

(* renderAll draws the list, unless a page is open.                        *)
LEMMA RenderAll ==
    ASSUME NEW c, IsCard(c)
    PROVE  /\ IsCard(renderAll(c)) /\ SameCore(c, renderAll(c)) /\ IsDrawn(renderAll(c))
           /\ renderAll(c).sheet = NoSheet \/ renderAll(c).sheet = c.sheet
           /\ renderAll(c).banner = c.banner /\ renderAll(c).events = c.events
           /\ renderAll(c).sheet = NoSheet => ~renderAll(c).late
  <1> DEFINE d == renderAll(c)
  <1>1. /\ d = [f \in CardFields |-> d[f]] /\ SameCore(c, d)
        /\ d.sheet = NoSheet \/ d.sheet = c.sheet
        /\ d.banner = c.banner /\ d.events = c.events
        /\ d.sheet = NoSheet => ~d.late /\ d.dom = drawn(c)
    BY DEF IsCard, CardFields, renderAll, SameCore, CoreFields
  <1>2. drawn(d) = drawn(c)
    BY <1>1, DrawnAlike DEF SameCore, CoreFields
  <1>3. IsCard(d)
    BY <1>1, AgendaCardAssumption DEF IsCard, SameCore, CoreFields, NoSheet
  <1> QED
    BY <1>1, <1>2, <1>3 DEF IsDrawn

LEMMA RebuildFromConfirmed ==
    ASSUME NEW c, IsCard(c)
    PROVE  /\ IsCard(rebuildFromConfirmed(c)) /\ SameCore(c, rebuildFromConfirmed(c))
           /\ rebuildFromConfirmed(c).sheet = c.sheet
           /\ rebuildFromConfirmed(c).banner = c.banner
           /\ rebuildFromConfirmed(c).dom = c.dom
           /\ rebuildFromConfirmed(c).late = c.late
  BY DEF IsCard, CardFields, rebuildFromConfirmed, SameCore, CoreFields

LEMMA GuardedRenderAll ==
    ASSUME NEW c, IsCard(c)
    PROVE  /\ IsCard(guardedRenderAll(c)) /\ SameCore(c, guardedRenderAll(c))
           /\ IsDrawn(guardedRenderAll(c))
           /\ guardedRenderAll(c).banner = c.banner
  <1>1. CASE c.sheet # NoSheet
    BY <1>1 DEF guardedRenderAll, IsCard, CardFields, SameCore, CoreFields, IsDrawn
  <1>2. CASE c.sheet = NoSheet
    BY <1>2, RenderAll DEF guardedRenderAll
  <1> QED
    BY <1>1, <1>2

LEMMA SetSheetState ==
    ASSUME NEW c, IsCard(c)
    PROVE  IsCard(setSheetState(c)) /\ SameCore(c, setSheetState(c))
  <1> DEFINE closed == [c EXCEPT !.sheet = NoSheet]
             later == [closed EXCEPT !.renderLater = FALSE]
  <1>1. IsCard(closed) /\ SameCore(c, closed)
    BY AgendaCardAssumption DEF IsCard, CardFields, SameCore, CoreFields, NoSheet
  <1>2. IsCard(later) /\ SameCore(c, later)
    BY <1>1 DEF IsCard, CardFields, SameCore, CoreFields
  <1>3. IsCard(renderAll(later)) /\ SameCore(c, renderAll(later))
    BY <1>2, RenderAll, SameCoreTransitive, Zenon
  <1> QED
    BY <1>1, <1>3, Zenon DEF setSheetState

LEMMA CloseSheet ==
    ASSUME NEW c, IsCard(c)
    PROVE  IsCard(closeSheet(c)) /\ SameCore(c, closeSheet(c)) /\ IsDrawn(closeSheet(c))
  <1>1. IsCard(setSheetState(c)) /\ SameCore(c, setSheetState(c))
    BY SetSheetState
  <1> QED
    BY <1>1, RenderAll, SameCoreTransitive, Zenon DEF closeSheet

LEMMA ClearBanner ==
    ASSUME NEW c, IsCard(c)
    PROVE  /\ IsCard(clearBanner(c)) /\ SameCore(c, clearBanner(c))
           /\ IsDrawn(c) => IsDrawn(clearBanner(c))
           /\ drawn(clearBanner(c)) = drawn(c)
           /\ clearBanner(c).sheet = c.sheet /\ clearBanner(c).dom = c.dom
           /\ clearBanner(c).late = c.late /\ clearBanner(c).events = c.events
  <1> DEFINE d == clearBanner(c)
  <1>1. /\ IsCard(d) /\ SameCore(c, d) /\ d.sheet = c.sheet /\ d.dom = c.dom
        /\ d.late = c.late /\ d.events = c.events
    BY DEF clearBanner, IsCard, CardFields, SameCore, CoreFields, IsBanner, NoBanner
  <1>2. drawn(d) = drawn(c)
    BY <1>1, DrawnAlike DEF SameCore, CoreFields
  <1> QED
    BY <1>1, <1>2 DEF IsDrawn

LEMMA ShowBanner ==
    ASSUME NEW c, IsCard(c), NEW b, IsBanner(b)
    PROVE  /\ IsCard(showBanner(c, b)) /\ SameCore(c, showBanner(c, b))
           /\ IsDrawn(c) => IsDrawn(showBanner(c, b))
           /\ drawn(showBanner(c, b)) = drawn(c)
           /\ showBanner(c, b).sheet = c.sheet /\ showBanner(c, b).dom = c.dom
           /\ showBanner(c, b).late = c.late /\ showBanner(c, b).banner = b
  <1> DEFINE d == showBanner(c, b)
  <1>1. /\ IsCard(d) /\ SameCore(c, d) /\ d.sheet = c.sheet /\ d.dom = c.dom
        /\ d.late = c.late /\ d.events = c.events /\ d.banner = b
    BY DEF showBanner, IsCard, CardFields, SameCore, CoreFields
  <1>2. drawn(d) = drawn(c)
    BY <1>1, DrawnAlike DEF SameCore, CoreFields
  <1> QED
    BY <1>1, <1>2 DEF IsDrawn

LEMMA ShowRebuilt ==
    ASSUME NEW c, IsCard(c)
    PROVE  IsCard(showRebuilt(c)) /\ SameCore(c, showRebuilt(c)) /\ IsDrawn(showRebuilt(c))
  <1>1. IsCard(rebuildFromConfirmed(c)) /\ SameCore(c, rebuildFromConfirmed(c))
    BY RebuildFromConfirmed
  <1> QED
    BY <1>1, RenderAll, SameCoreTransitive, Zenon DEF showRebuilt

-----------------------------------------------------------------------------
(* Steps of the page: gestures and timers that send nothing but readings.  *)

SameOverlays(c, d) == /\ d.deletes = c.deletes /\ d.pending = c.pending /\ d.rows = c.rows
                      /\ d.edits = c.edits /\ d.editing = c.editing

SameView(c, d) == /\ d.confirmed = c.confirmed /\ d.range = c.range
                  /\ d.scope = c.scope /\ d.hidden = c.hidden

(* A reading that gesture n of a card c sends.                             *)
NewRead(k, c, n, u) ==
    /\ IsCall(k) /\ k.tool = "refresh" /\ k.at = "sent" /\ k.n = n /\ k.seen = 0
    /\ ~allCalendarsHidden(c) => Args(k).hidden = c.hidden
    /\ k.cont = "push" => u

(* The document of c is left as it is, and so is what it should be.        *)
SamePicture(c, d, ks) ==
    /\ d.sheet = c.sheet /\ d.dom = c.dom /\ d.timers = c.timers /\ d.late = c.late
    /\ drawn(d) = drawn(c)
    /\ \/ d.banner = c.banner
       \/ c.banner.kind \notin {"filter", "range", "retry"}
       \/ \E k \in ks : Reading(k, {"filter", "range", "retry"})

Asks == /\ calls \subseteq calls' /\ gestures' \in {gestures, gestures + 1}
        /\ \A k \in calls' \ calls : NewRead(k, card', gestures', unsure')

Turns == /\ gestures' = gestures + 1
         /\ ~allCalendarsHidden(card') => \E k \in calls' : k.tool = "refresh" /\ k.n = gestures'

Pictures == \/ IsDrawn(card')
            \/ \E k \in calls' : Reading(k, {"filter"})
            \/ SamePicture(card, card', calls')

PageStep == /\ IsCard(card') /\ SameOverlays(card, card')
            /\ Asks /\ (SameView(card, card') \/ Turns)
            /\ Pictures
            /\ UNCHANGED <<list, gone, mix, outside, version, newest, unsure, told, freed, failures>>

LEMMA RefreshReads ==
    ASSUME NEW c, NEW cont, NEW n \in Nat, NEW u, cont = "push" => u
    PROVE  /\ NewRead(Refresh(c, cont, n), c, n, u)
           /\ Refresh(c, cont, n).cont = cont
           /\ Args(Refresh(c, cont, n)) = refreshArgs(c)
           /\ Refresh(c, cont, n).args = {refreshArgs(c)}
  <1> DEFINE k == Refresh(c, cont, n)
             a == refreshArgs(c)
  <1>1. /\ k.tool = "refresh" /\ k.at = "sent" /\ k.n = n /\ k.seen = 0 /\ k.cont = cont
        /\ k = [f \in CallFields |-> k[f]] /\ k.args = {a}
        /\ k.meta = NoMeta
    BY DEF Refresh, NewCall, CallFields
  <1>2. IsArgs(a)
    BY DEF refreshArgs, IsArgs
  <1>3. Args(k) = a
    BY <1>1 DEF Args
  <1>4. ~allCalendarsHidden(c) => a.hidden = c.hidden
    BY DEF refreshArgs, allCalendarsHidden
  <1>5. k.meta = [added |-> k.meta.added, changed |-> k.meta.changed]
    BY <1>1 DEF NoMeta
  <1> HIDE DEF k, a
  <1>6. IsCall(k)
    BY <1>1, <1>2, <1>5 DEF IsCall, Mutating
  <1>7. NewRead(k, c, n, u)
    BY <1>1, <1>3, <1>4, <1>6 DEF NewRead
  <1> QED
    BY <1>1, <1>3, <1>7 DEF k, a

LEMMA PageKeepsShapes == ASSUME Shapes, PageStep PROVE Shapes'
  <1>1. \A k \in calls' : IsCall(k)
    BY DEF Shapes, PageStep, Asks, NewRead
  <1>2. gestures' \in Nat
    BY DEF Shapes, PageStep, Asks
  <1> QED
    BY <1>1, <1>2 DEF Shapes, PageStep, IsListing

(* The calls that change something are the same.                           *)
SameMutations(ks, ls) == \A k \in ks \cup ls : k.tool \in Mutating => (k \in ks <=> k \in ls)

LEMMA CarriedAlike ==
    ASSUME NEW c, NEW d, NEW ks, NEW ls, SameOverlays(c, d), Carried(c, ks),
           \A k \in ks : k.tool \in Mutating => \E l \in ls : l.tool = k.tool /\ l.id = k.id
    PROVE  Carried(d, ls)
  <1>1. \A tool \in Mutating : \A i : Under(ks, tool, i) => Under(ls, tool, i)
    BY DEF Under
  <1> QED
    BY <1>1 DEF Carried, SameOverlays, Mutating

LEMMA QuietKeepsEdits ==
    ASSUME EditsInv, SameOverlays(card, card'), SameMutations(calls, calls'),
           UNCHANGED <<told, list, gone, freed, outside>>
    PROVE  EditsInv'
  <1>1. OneEditAtATime'
    BY DEF EditsInv, OneEditAtATime, IsEdit, SameOverlays, SameMutations, Mutating
  <1>2. SentAsTold'
    BY DEF EditsInv, SentAsTold, SameMutations, Mutating
  <1>3. ASSUME NEW k \in calls, NEW i, NEW f, Brings(k, i, f) PROVE k \in calls' /\ Brings(k, i, f)'
    BY <1>3 DEF Brings, IsEdit, SameMutations, Mutating
  <1>4. ToldArrives'
    BY <1>3 DEF EditsInv, ToldArrives
  <1>5. GoneForGood'
    BY DEF EditsInv, GoneForGood
  <1> QED
    BY <1>1, <1>2, <1>4, <1>5 DEF EditsInv

LEMMA AskingChangesNothing ==
    ASSUME Asks PROVE SameMutations(calls, calls')
  BY DEF Asks, NewRead, SameMutations, Mutating

LEMMA PageKeepsOverlays ==
    ASSUME OverlaysCarried, EditsInv, PageStep PROVE OverlaysCarried' /\ EditsInv'
  <1>1. SameMutations(calls, calls')
    BY AskingChangesNothing DEF PageStep
  <1>2. Carried(card', calls')
    BY CarriedAlike DEF PageStep, Asks, OverlaysCarried
  <1>3. EditsInv'
    BY <1>1, QuietKeepsEdits DEF PageStep
  <1> QED
    BY <1>2, <1>3 DEF OverlaysCarried

LEMMA PageKeepsDraw ==
    ASSUME Shapes, DrawInv, PageStep PROVE DrawInv'
  <1>1. \A k \in calls' : FailedRead(k) => k \in calls
    BY DEF PageStep, Asks, NewRead, FailedRead
  <1>2. FailuresCount'
    BY <1>1 DEF DrawInv, FailuresCount, FailedRead, PageStep
  <1>3. ASSUME Undrawn' PROVE /\ failures > 0
                              /\ (\E k \in calls' : FailedRead(k)) => failures > 1
                              /\ ListingFailed' \/ \E k \in calls' : Reading(k, {"range", "retry"})
    <2>1. ~IsDrawn(card') /\ ~ \E k \in calls' : Reading(k, {"filter"})
      BY <1>3 DEF Undrawn, IsDrawn
    <2>2. SamePicture(card, card', calls')
      BY <2>1 DEF PageStep, Pictures
    <2>3. Undrawn
      BY <1>3, <2>1, <2>2 DEF Undrawn, SamePicture, PageStep, Asks
    <2>4. /\ failures > 0
          /\ (\E k \in calls : FailedRead(k)) => failures > 1
          /\ ListingFailed \/ \E k \in calls : Reading(k, {"range", "retry"})
      BY <2>3 DEF DrawInv, UndrawnIsExplained
    <2>5. ListingFailed' \/ \E k \in calls' : Reading(k, {"range", "retry"})
      <3>1. CASE card'.banner = card.banner
        BY <3>1, <2>4 DEF ListingFailed, PageStep, Asks
      <3>2. CASE card.banner.kind \notin {"filter", "range", "retry"}
        BY <3>2, <2>4 DEF ListingFailed, PageStep, Asks
      <3>3. CASE \E k \in calls' : Reading(k, {"filter", "range", "retry"})
        BY <3>3, <2>1 DEF Reading
      <3> QED
        BY <3>1, <3>2, <3>3, <2>2 DEF SamePicture
    <2> QED
      BY <2>4, <2>5, <1>1
  <1> QED
    BY <1>2, <1>3 DEF DrawInv, UndrawnIsExplained, PageStep

LEMMA PageKeepsKnow ==
    ASSUME Shapes, KnowInv, PageStep PROVE KnowInv'
  <1>1. PICK g \in 0..gestures : ReadingsFit(g)
    BY DEF KnowInv
  <1>2. /\ gestures \in Nat /\ version \in Nat /\ newest.n \in Nat /\ newest.seen \in Nat
        /\ gestures' \in Nat /\ gestures <= gestures'
    BY DEF Shapes, PageStep, Asks
  <1>3. \A k \in calls' : k \in calls \/ NewRead(k, card', gestures', unsure')
    BY DEF PageStep, Asks
  <1>4. \A args : Listed(args)' = Listed(args)
    BY DEF Listed, PageStep
  <1>5. CASE SameView(card, card')
    <2>1. allCalendarsHidden(card') <=> allCalendarsHidden(card)
      BY <1>5 DEF allCalendarsHidden, SameView
    <2>2. ASSUME NEW k \in calls' PROVE ReadingFits(k, g)'
      <3>1. CASE k \in calls
        <4>1. ReadingFits(k, g)
          BY <1>1, <3>1 DEF ReadingsFit
        <4>2. k.tool = "refresh" => k.n \in Nat
          BY <3>1 DEF Shapes, IsCall
        <4> QED
          BY <4>1, <4>2, <1>2, <1>4, <1>5, <2>1 DEF ReadingFits, SameView, PageStep
      <3>2. CASE NewRead(k, card', gestures', unsure')
        BY <3>2, <1>2 DEF ReadingFits, NewRead, PageStep
      <3> QED
        BY <3>1, <3>2, <1>3
    <2>3. card'.range # NoRange /\ card.confirmed = View(card) => card'.confirmed = View(card)'
      BY <1>5 DEF View, SameView, PageStep
    <2>4. newest' = newest /\ version' = version /\ unsure' = unsure /\ outside' = outside
      BY DEF PageStep
    <2>5. calls \subseteq calls'
      BY DEF PageStep, Asks
    <2>6. ~unsure /\ outside = 0 /\ newest.seen < version => \E k \in calls' : WillTell(k)'
      BY <1>1, <2>4, <2>5 DEF ReadingsFit, WillTell
    <2>7. ReadingsFit(g)'
      BY <1>1, <1>2, <1>5, <2>1, <2>2, <2>3, <2>4, <2>5, <2>6 DEF ReadingsFit, SameView
    <2> QED
      BY <2>7, <1>2 DEF KnowInv
  <1>6. CASE Turns
    <2>0. PICK h \in Nat : h = gestures + 1
      BY <1>2
    <2>1. gestures' = h
      BY <1>6, <2>0 DEF Turns
    <2>2. ASSUME NEW k \in calls' PROVE ReadingFits(k, h)'
      <3>1. CASE k \in calls
        <4>1. ReadingFits(k, g)
          BY <1>1, <3>1 DEF ReadingsFit
        <4>2. k.tool = "refresh" => k.n \in Nat
          BY <3>1 DEF Shapes, IsCall
        <4> QED
          BY <4>1, <4>2, <1>2, <1>4, <2>0, <2>1 DEF ReadingFits, PageStep
      <3>2. CASE NewRead(k, card', gestures', unsure')
        BY <3>2, <1>2 DEF ReadingFits, NewRead, PageStep
      <3> QED
        BY <3>1, <3>2, <1>3
    <2>4. newest' = newest /\ version' = version /\ unsure' = unsure /\ outside' = outside
      BY DEF PageStep
    <2>5. calls \subseteq calls'
      BY DEF PageStep, Asks
    <2>6. ~unsure /\ outside = 0 /\ newest.seen < version => \E k \in calls' : WillTell(k)'
      BY <1>1, <2>4, <2>5 DEF ReadingsFit, WillTell
    <2>7. newest.n < h
      BY <1>1, <1>2, <2>0 DEF ReadingsFit
    <2>8. ~allCalendarsHidden(card') => \E k \in calls' : k.tool = "refresh" /\ k.n >= h
      BY <1>6, <1>2, <2>0 DEF Turns
    <2>9. ReadingsFit(h)'
      BY <1>1, <1>2, <2>1, <2>2, <2>4, <2>6, <2>7, <2>8 DEF ReadingsFit
    <2>10. h \in 0..gestures'
      BY <1>2, <2>1
    <2> QED
      BY <2>9, <2>10 DEF KnowInv
  <1> QED
    BY <1>5, <1>6 DEF PageStep

LEMMA PageKeepsCard == ASSUME CardInv, PageStep PROVE CardInv'
  BY PageKeepsShapes, PageKeepsOverlays, PageKeepsDraw, PageKeepsKnow DEF CardInv

(* A reading is sent along with what the handler leaves of the card.       *)
LEMMA ReadAsks ==
    ASSUME Shapes, NEW c, NEW cont, cont # "push", calls' = Read(c, cont),
           gestures' = gestures + 1, card'.hidden = c.hidden
    PROVE  /\ Asks /\ Turns
           /\ \E k \in calls' : Reading(k, {cont})
  <1> DEFINE k == Refresh(c, cont, gestures')
  <1>1. gestures' \in Nat
    BY DEF Shapes
  <1>2. NewRead(k, c, gestures', unsure') /\ k.cont = cont
    BY <1>1, RefreshReads
  <1>3. NewRead(k, card', gestures', unsure')
    BY <1>2 DEF NewRead, allCalendarsHidden
  <1>4. calls' = calls \cup {k}
    BY DEF Read
  <1> HIDE DEF k
  <1> QED
    BY <1>2, <1>3, <1>4 DEF Asks, Turns, Reading, NewRead

LEMMA NothingAsked ==
    ASSUME calls' = calls, gestures' \in {gestures, gestures + 1} PROVE Asks
  BY DEF Asks

LEMMA RefetchAsks ==
    ASSUME Shapes, NEW c, NEW cont, cont # "push", IsCard(c), SameOverlays(card, c),
           refetch(c, cont), gestures' = gestures + 1
    PROVE  /\ IsCard(card') /\ SameOverlays(card, card')
           /\ Asks /\ Turns
           /\ IsDrawn(c) => IsDrawn(card')
           /\ \/ IsDrawn(card')
              \/ card' = clearBanner(c) /\ \E k \in calls' : Reading(k, {cont})
  <1>1. CASE allCalendarsHidden(c)
    <2>1. card' = renderAll(c) /\ calls' = calls
      BY <1>1 DEF refetch
    <2>2. IsCard(card') /\ SameCore(c, card') /\ IsDrawn(card')
      BY <2>1, RenderAll
    <2>3. Turns
      BY <1>1, <2>2 DEF Turns, allCalendarsHidden, SameCore, CoreFields
    <2>4. Asks
      BY <2>1, NothingAsked
    <2>5. SameOverlays(card, card')
      BY <2>2 DEF SameOverlays, SameCore, CoreFields
    <2> QED
      BY <2>2, <2>3, <2>4, <2>5
  <1>2. CASE ~allCalendarsHidden(c)
    <2>1. card' = clearBanner(c) /\ calls' = Read(c, cont)
      BY <1>2 DEF refetch
    <2>2. IsCard(card') /\ SameCore(c, card') /\ (IsDrawn(c) => IsDrawn(card'))
      BY <2>1, ClearBanner
    <2>3. card'.hidden = c.hidden
      BY <2>2 DEF SameCore, CoreFields
    <2> QED
      BY <2>1, <2>2, <2>3, ReadAsks DEF SameOverlays, SameCore, CoreFields
  <1> QED
    BY <1>1, <1>2

LEMMA NavigatePages ==
    ASSUME Shapes, NEW c, IsCard(c), SameOverlays(card, c), Navigate(c),
           NEW g, Gesture(g)
    PROVE  PageStep
  <1> DEFINE d == renderAll(c)
  <1>1. IsCard(d) /\ SameCore(c, d) /\ IsDrawn(d)
    BY RenderAll
  <1>2. SameOverlays(card, d)
    BY <1>1 DEF SameOverlays, SameCore, CoreFields
  <1>3. refetch(d, "range") /\ gestures' = gestures + 1
    BY DEF Navigate, Gesture
  <1> HIDE DEF d
  <1>4. IsCard(card') /\ SameOverlays(card, card') /\ Asks /\ Turns /\ IsDrawn(card')
    BY <1>1, <1>2, <1>3, RefetchAsks
  <1> QED
    BY <1>4 DEF PageStep, Pictures, Gesture, Navigate

LEMMA EnterMonthModePages == ASSUME Shapes, enterMonthMode PROVE PageStep
  <1> DEFINE c == [setMonthCursor(keepListRange(card), monthOf(card.day)) EXCEPT !.mode = "month"]
  <1>1. IsCard(c) /\ SameOverlays(card, c)
    BY DEF Shapes, IsCard, CardFields, SameOverlays, setMonthCursor, keepListRange
  <1>2. Navigate(c) /\ Gesture("view")
    BY DEF enterMonthMode
  <1> HIDE DEF c
  <1> QED
    BY <1>1, <1>2, NavigatePages

LEMMA EnterDayModePages == ASSUME Shapes, enterDayMode PROVE PageStep
  <1> DEFINE c == [shiftDay(keepListRange(card), card.day) EXCEPT !.mode = "day"]
  <1>1. IsCard(c) /\ SameOverlays(card, c)
    BY DEF Shapes, IsCard, CardFields, SameOverlays, shiftDay, keepListRange
  <1>2. Navigate(c) /\ Gesture("view")
    BY DEF enterDayMode
  <1> HIDE DEF c
  <1> QED
    BY <1>1, <1>2, NavigatePages

LEMMA ExitToListModePages == ASSUME Shapes, exitToListMode PROVE PageStep
  <1> DEFINE c == [card EXCEPT !.mode = "list", !.range = card.listRange]
  <1>1. IsCard(c) /\ SameOverlays(card, c)
    BY DEF Shapes, IsCard, CardFields, SameOverlays
  <1>2. Navigate(c) /\ Gesture("view")
    BY DEF exitToListMode
  <1> HIDE DEF c
  <1> QED
    BY <1>1, <1>2, NavigatePages

LEMMA TurnThePagePages == ASSUME Shapes, turnThePage PROVE PageStep
  <1>1. ASSUME NEW m, Navigate(setMonthCursor(card, m)) PROVE PageStep
    <2>1. IsCard(setMonthCursor(card, m)) /\ SameOverlays(card, setMonthCursor(card, m))
      BY DEF Shapes, IsCard, CardFields, SameOverlays, setMonthCursor
    <2> QED
      BY <1>1, <2>1, NavigatePages DEF turnThePage
  <1>2. ASSUME NEW d, Navigate(shiftDay(card, d)) PROVE PageStep
    <2>1. IsCard(shiftDay(card, d)) /\ SameOverlays(card, shiftDay(card, d))
      BY DEF Shapes, IsCard, CardFields, SameOverlays, shiftDay
    <2> QED
      BY <1>2, <2>1, NavigatePages DEF turnThePage
  <1> QED
    BY <1>1, <1>2 DEF turnThePage

(* A handler that draws, and asks for nothing.                             *)
LEMMA DrawingPages ==
    ASSUME IsCard(card'), SameOverlays(card, card'), SameView(card, card'), IsDrawn(card'),
           calls' = calls, gestures' \in {gestures, gestures + 1},
           UNCHANGED <<list, gone, mix, outside, version, newest, unsure, told, freed, failures>>
    PROVE  PageStep
  BY NothingAsked DEF PageStep, Pictures

LEMMA RenderingPages ==
    ASSUME NEW c, IsCard(c), SameOverlays(card, c), SameView(card, c), 
           card' \in {renderAll(c), guardedRenderAll(c), closeSheet(c)},
           calls' = calls, gestures' \in {gestures, gestures + 1},
           UNCHANGED <<list, gone, mix, outside, version, newest, unsure, told, freed, failures>>
    PROVE  PageStep
  <1>1. IsCard(card') /\ SameCore(c, card') /\ IsDrawn(card')
    BY RenderAll, GuardedRenderAll, CloseSheet
  <1>2. SameOverlays(card, card') /\ SameView(card, card')
    BY <1>1 DEF SameOverlays, SameView, SameCore, CoreFields
  <1> QED
    BY <1>1, <1>2, DrawingPages

LEMMA SelectDayPages == ASSUME Shapes, selectDay PROVE PageStep
  <1>1. PICK d : card' = renderAll([card EXCEPT !.day = d])
    BY DEF selectDay
  <1> DEFINE c == [card EXCEPT !.day = d]
  <1>2. IsCard(c) /\ SameOverlays(card, c) /\ SameView(card, c)
    BY DEF Shapes, IsCard, CardFields, SameOverlays, SameView
  <1>3. card' = renderAll(c)
    BY <1>1
  <1> HIDE DEF c
  <1> QED
    BY <1>2, <1>3, RenderingPages DEF selectDay, Gesture

LEMMA TriggerCreateEventPages == ASSUME Shapes, triggerCreateEvent PROVE PageStep
  <1> DEFINE c == [card EXCEPT !.sheet = "create"]
  <1>1. IsCard(c) /\ SameOverlays(card, c) /\ SameView(card, c)
    BY AgendaCardAssumption DEF Shapes, IsCard, CardFields, SameOverlays, SameView
  <1>2. card' = renderAll(c)
    BY DEF triggerCreateEvent
  <1> HIDE DEF c
  <1> QED
    BY <1>1, <1>2, RenderingPages DEF triggerCreateEvent, pageVars, callVars

LEMMA OpenSheetPages == ASSUME Shapes, NEW i, openSheet(i) PROVE PageStep
  <1> DEFINE c == [card EXCEPT !.sheet = i]
  <1>1. IsCard(c) /\ SameOverlays(card, c) /\ SameView(card, c)
    BY DEF Shapes, IsCard, CardFields, SameOverlays, SameView, openSheet, OnList
  <1>2. card' = renderAll(c)
    BY DEF openSheet
  <1> HIDE DEF c
  <1> QED
    BY <1>1, <1>2, RenderingPages DEF openSheet, pageVars, callVars

LEMMA LeaveSheetPages == ASSUME Shapes, leaveSheet PROVE PageStep
  <1>1. IsCard(card) /\ SameOverlays(card, card) /\ SameView(card, card)
    BY DEF Shapes, SameOverlays, SameView
  <1> QED
    BY <1>1, RenderingPages DEF leaveSheet, pageVars, callVars

LEMMA CommittingEndsPages == ASSUME Shapes, NEW i, CommittingEnds(i) PROVE PageStep
  <1> DEFINE c == [card EXCEPT !.timers = @ \ {i}]
  <1>1. IsCard(c) /\ SameOverlays(card, c) /\ SameView(card, c)
    BY DEF Shapes, IsCard, CardFields, SameOverlays, SameView
  <1>2. card' = renderAll(c)
    BY DEF CommittingEnds
  <1> HIDE DEF c
  <1> QED
    BY <1>1, <1>2, RenderingPages DEF CommittingEnds, callVars

LEMMA ToggleCalendarPages == ASSUME Shapes, NEW cal, toggleCalendar(cal) PROVE PageStep
  <1>1. PICK on : refetch([card EXCEPT !.hidden = on], "filter")
    BY DEF toggleCalendar
  <1> DEFINE c == [card EXCEPT !.hidden = on]
  <1>2. IsCard(c) /\ SameOverlays(card, c)
    BY DEF Shapes, IsCard, CardFields, SameOverlays
  <1>3. refetch(c, "filter") /\ gestures' = gestures + 1
    BY <1>1 DEF toggleCalendar, Gesture
  <1> HIDE DEF c
  <1>4. /\ IsCard(card') /\ SameOverlays(card, card') /\ Asks /\ Turns
        /\ IsDrawn(card') \/ \E k \in calls' : Reading(k, {"filter"})
    BY <1>2, <1>3, RefetchAsks
  <1> QED
    BY <1>4 DEF PageStep, Pictures, toggleCalendar, Gesture

LEMMA ApplyHostContextPages == ASSUME Shapes, applyHostContext PROVE PageStep
  <1> DEFINE c == [card EXCEPT !.full = ~@]
             back == [c EXCEPT !.mode = "list", !.month = monthOf(Today), !.day = Today,
                               !.range = c.listRange]
  <1>1. IsCard(c) /\ SameOverlays(card, c) /\ SameView(card, c)
    BY DEF Shapes, IsCard, CardFields, SameOverlays, SameView
  <1>2. IsCard(back) /\ SameOverlays(card, back)
    BY DEF Shapes, IsCard, CardFields, SameOverlays
  <1>3. /\ gestures' = gestures + 1
        /\ UNCHANGED <<list, gone, mix, outside, version, newest, unsure, told, freed, failures>>
    BY DEF applyHostContext, Gesture
  <1>4. \/ card' = guardedRenderAll(c) /\ calls' = calls
        \/ /\ allCalendarsHidden(back)
           /\ card' = guardedRenderAll(renderAll(back)) /\ calls' = calls
        \/ card' = guardedRenderAll(clearBanner(back)) /\ calls' = Read(back, "range")
    BY DEF applyHostContext
  <1> HIDE DEF c, back
  <1>5. CASE card' = guardedRenderAll(c) /\ calls' = calls
    BY <1>1, <1>3, <1>5, RenderingPages
  <1>6. CASE allCalendarsHidden(back) /\ card' = guardedRenderAll(renderAll(back)) /\ calls' = calls
    <2>1. IsCard(renderAll(back)) /\ SameCore(back, renderAll(back))
      BY <1>2, RenderAll
    <2>2. IsCard(card') /\ SameCore(renderAll(back), card') /\ IsDrawn(card')
      BY <1>6, <2>1, GuardedRenderAll
    <2>3. SameOverlays(card, card') /\ card'.hidden = back.hidden
      BY <1>2, <2>1, <2>2 DEF SameOverlays, SameCore, CoreFields
    <2>4. Turns
      BY <1>3, <1>6, <2>3 DEF Turns, allCalendarsHidden
    <2>5. Asks
      BY <1>3, <1>6, NothingAsked
    <2> QED
      BY <1>3, <2>2, <2>3, <2>4, <2>5 DEF PageStep, Pictures
  <1>7. CASE card' = guardedRenderAll(clearBanner(back)) /\ calls' = Read(back, "range")
    <2>1. IsCard(clearBanner(back)) /\ SameCore(back, clearBanner(back))
      BY <1>2, ClearBanner
    <2>2. IsCard(card') /\ SameCore(clearBanner(back), card') /\ IsDrawn(card')
      BY <1>7, <2>1, GuardedRenderAll
    <2>3. SameOverlays(card, card') /\ card'.hidden = back.hidden
      BY <1>2, <2>1, <2>2 DEF SameOverlays, SameCore, CoreFields
    <2>4. Asks /\ Turns
      BY <1>3, <1>7, <2>3, ReadAsks
    <2> QED
      BY <1>3, <2>2, <2>3, <2>4 DEF PageStep, Pictures
  <1> QED
    BY <1>4, <1>5, <1>6, <1>7

(* A card is left with the same document and the same calendar.            *)
LEMMA SamePictureAlike ==
    ASSUME NEW c, NEW d, NEW ks, SameCore(c, d), d.sheet = c.sheet, d.dom = c.dom, d.late = c.late,
           d.events = c.events,
           \/ d.banner = c.banner
           \/ c.banner.kind \notin {"filter", "range", "retry"}
           \/ \E k \in ks : Reading(k, {"filter", "range", "retry"})
    PROVE  SamePicture(c, d, ks) /\ SameOverlays(c, d) /\ SameView(c, d)
  <1>1. drawn(d) = drawn(c)
    BY DrawnAlike DEF SameCore, CoreFields
  <1>2. d.timers = c.timers /\ SameOverlays(c, d) /\ SameView(c, d)
    BY DEF SameCore, CoreFields, SameOverlays, SameView
  <1> QED
    BY <1>1, <1>2 DEF SamePicture

LEMMA MaybeRefetchAsks ==
    ASSUME Shapes, NEW c, NEW n, n = gestures', n \in {gestures, gestures + 1}, n \in Nat,
           calls' = maybeRefetch(c, calls, n), card'.hidden = c.hidden
    PROVE  Asks
  <1> DEFINE k == Refresh(c, "refetch", n)
  <1>1. NewRead(k, c, n, unsure')
    BY RefreshReads
  <1>2. NewRead(k, card', n, unsure')
    BY <1>1 DEF NewRead, allCalendarsHidden
  <1>3. calls' = calls \/ calls' = calls \cup {k}
    BY DEF maybeRefetch
  <1> HIDE DEF k
  <1> QED
    BY <1>2, <1>3 DEF Asks

LEMMA MaybeRefetchPages == ASSUME Shapes, MaybeRefetch PROVE PageStep
  <1>1. gestures' = gestures + 1 /\ gestures' \in Nat
    BY DEF MaybeRefetch, Gesture, Shapes
  <1>2. IsCard(card)
    BY DEF Shapes
  <1>3. /\ IsCard(card') /\ SameCore(card, card')
        /\ IsDrawn(card') \/ card' = card
    BY <1>2, GuardedRenderAll DEF MaybeRefetch, SameCore
  <1>4. SameOverlays(card, card') /\ SameView(card, card') /\ card'.hidden = card.hidden
    BY <1>3 DEF SameOverlays, SameView, SameCore, CoreFields
  <1>5. Asks
    BY <1>1, <1>4, MaybeRefetchAsks DEF MaybeRefetch
  <1>6. card' = card => SamePicture(card, card', calls')
    BY DEF SamePicture
  <1> QED
    BY <1>3, <1>4, <1>5, <1>6 DEF PageStep, Pictures, MaybeRefetch, Gesture

LEMMA StaleTimePassesPages == ASSUME Shapes, StaleTimePasses PROVE PageStep
  <1>1. card' = [card EXCEPT !.fresh = FALSE]
    BY DEF StaleTimePasses
  <1>2. /\ IsCard(card')
        /\ \A f \in CardFields \ {"fresh"} : card'[f] = card[f]
    BY <1>1 DEF Shapes, IsCard, CardFields
  <1>3. drawn(card') = drawn(card)
    BY <1>2, DrawnAlike DEF CardFields
  <1>4. SamePicture(card, card', calls') /\ SameOverlays(card, card') /\ SameView(card, card')
    BY <1>2, <1>3 DEF SamePicture, SameOverlays, SameView, CardFields
  <1> QED
    BY <1>2, <1>4, NothingAsked DEF PageStep, Pictures, StaleTimePasses, callVars

(* The banner's button, when it has only to read again.                    *)
LEMMA RetryReadPages ==
    ASSUME Shapes, Gesture("retry"), UNCHANGED told,
           \/ card.banner.kind \in {"range", "filter"} /\ refetch(clearBanner(card), card.banner.kind)
           \/ card' = clearBanner(card) /\ calls' = Read(clearBanner(card), "retry")
    PROVE  PageStep
  <1> DEFINE c == clearBanner(card)
  <1>1. /\ IsCard(c) /\ SameCore(card, c) /\ c.sheet = card.sheet /\ c.dom = card.dom
        /\ c.late = card.late /\ c.events = card.events
    BY ClearBanner DEF Shapes
  <1>2. SameOverlays(card, c) /\ gestures' = gestures + 1
    BY <1>1 DEF SameOverlays, SameCore, CoreFields, Gesture
  <1> HIDE DEF c
  <1>3. CASE card.banner.kind \in {"range", "filter"} /\ refetch(c, card.banner.kind)
    <2>1. PICK cont : cont = card.banner.kind
      OBVIOUS
    <2>2. /\ IsCard(card') /\ SameOverlays(card, card') /\ Asks /\ Turns
          /\ \/ IsDrawn(card')
             \/ card' = clearBanner(c) /\ \E k \in calls' : Reading(k, {cont})
      BY <1>1, <1>2, <1>3, <2>1, RefetchAsks
    <2>3. ASSUME card' = clearBanner(c), \E k \in calls' : Reading(k, {cont}) PROVE Pictures
      <3>1. /\ SameCore(c, card') /\ card'.sheet = c.sheet /\ card'.dom = c.dom
            /\ card'.late = c.late /\ card'.events = c.events
        BY <1>1, <2>3, ClearBanner
      <3>2. SameCore(card, card')
        BY <1>1, <3>1, SameCoreTransitive
      <3>3. \E k \in calls' : Reading(k, {"filter", "range", "retry"})
        BY <1>3, <2>1, <2>3 DEF Reading
      <3> QED
        BY <1>1, <3>1, <3>2, <3>3, SamePictureAlike DEF Pictures
    <2> QED
      BY <2>2, <2>3 DEF PageStep, Pictures, Gesture
  <1>4. CASE card' = c /\ calls' = Read(c, "retry")
    <2>1. Asks /\ Turns /\ \E k \in calls' : Reading(k, {"retry"})
      BY <1>2, <1>4, ReadAsks
    <2>2. \E k \in calls' : Reading(k, {"filter", "range", "retry"})
      BY <2>1 DEF Reading
    <2>3. SamePicture(card, card', calls')
      BY <1>1, <1>4, <2>2, SamePictureAlike
    <2> QED
      BY <1>1, <1>2, <1>4, <2>1, <2>3 DEF PageStep, Pictures, Gesture
  <1> QED
    BY <1>3, <1>4 DEF c

-----------------------------------------------------------------------------
(* Listings that reach the card: pushed by the host, or asked for.         *)

ListingStep ==
    /\ IsCard(card') /\ SameOverlays(card, card') /\ card'.hidden = card.hidden
    /\ SameMutations(calls, calls') /\ gestures' \in {gestures, gestures + 1}
    /\ \A k \in calls' \ calls : NewRead(k, card', gestures', unsure')
    /\ UNCHANGED <<list, gone, mix, outside, version, told, freed, failures>>

LEMMA ListingKeepsShapes ==
    ASSUME Shapes, ListingStep, newest' = [n |-> newest'.n, seen |-> newest'.seen],
           {newest'.n, newest'.seen} \subseteq Nat
    PROVE  Shapes'
  <1>1. \A k \in calls' : IsCall(k)
    BY DEF Shapes, ListingStep, NewRead
  <1>2. gestures' \in Nat
    BY DEF Shapes, ListingStep
  <1> QED
    BY <1>1, <1>2 DEF Shapes, ListingStep, IsListing

LEMMA ListingKeepsOverlays ==
    ASSUME OverlaysCarried, EditsInv, ListingStep PROVE OverlaysCarried' /\ EditsInv'
  <1>1. Carried(card', calls')
    <2>1. \A k \in calls : k.tool \in Mutating => k \in calls'
      BY DEF ListingStep, SameMutations
    <2> QED
      BY <2>1, CarriedAlike DEF ListingStep, OverlaysCarried
  <1>2. EditsInv'
    BY QuietKeepsEdits DEF ListingStep
  <1> QED
    BY <1>1, <1>2 DEF OverlaysCarried

(* Once it is drawn a card needs no explanation.                           *)
LEMMA DrawingKeepsDraw ==
    ASSUME DrawInv, IsDrawn(card'), failures' = failures,
           \A k \in calls' : FailedRead(k) => k \in calls
    PROVE  DrawInv'
  <1>1. ~Undrawn'
    BY DEF Undrawn, IsDrawn
  <1>2. FailuresCount'
    BY DEF DrawInv, FailuresCount, FailedRead
  <1> QED
    BY <1>1, <1>2 DEF DrawInv, UndrawnIsExplained

LEMMA ListingHasNoFailures ==
    ASSUME ListingStep PROVE \A k \in calls' : FailedRead(k) => k \in calls
  BY DEF ListingStep, NewRead, FailedRead

(* What still fits of the readings under way.                              *)
LEMMA ReadingsStillFit ==
    ASSUME Shapes, ListingStep, unsure => unsure', NEW g \in 0..gestures, ReadingsFit(g)
    PROVE  \A k \in calls' : ReadingFits(k, g)'
  <1>1. /\ gestures \in Nat /\ version \in Nat /\ gestures' \in Nat /\ gestures <= gestures'
    BY DEF Shapes, ListingStep
  <1>2. \A args : Listed(args)' = Listed(args)
    BY DEF Listed, ListingStep
  <1>3. allCalendarsHidden(card') <=> allCalendarsHidden(card)
    BY DEF allCalendarsHidden, ListingStep
  <1> SUFFICES ASSUME NEW k \in calls' PROVE ReadingFits(k, g)'
    OBVIOUS
  <1>4. CASE k \in calls
    <2>1. ReadingFits(k, g)
      BY <1>4 DEF ReadingsFit
    <2>2. k.tool = "refresh" => k.n \in Nat
      BY <1>4 DEF Shapes, IsCall
    <2> QED
      BY <2>1, <2>2, <1>1, <1>2, <1>3 DEF ReadingFits, ListingStep
  <1>5. CASE k \notin calls
    <2>1. NewRead(k, card', gestures', unsure')
      BY <1>5 DEF ListingStep
    <2> QED
      BY <2>1, <1>1 DEF ReadingFits, NewRead, ListingStep
  <1> QED
    BY <1>4, <1>5

(* A card that is not sure what it knows claims nothing.                   *)
LEMMA UnsureKeepsKnow ==
    ASSUME Shapes, KnowInv, ListingStep, unsure', newest' = newest
    PROVE  KnowInv'
  <1>1. PICK g \in 0..gestures : ReadingsFit(g)
    BY DEF KnowInv
  <1>2. \A k \in calls' : ReadingFits(k, g)'
    BY <1>1, ReadingsStillFit
  <1>3. newest'.n <= gestures' /\ newest'.seen <= version'
    BY <1>1 DEF ReadingsFit, Shapes, ListingStep
  <1>4. ReadingsFit(g)'
    BY <1>2, <1>3 DEF ReadingsFit
  <1>5. g \in 0..gestures'
    BY <1>1 DEF Shapes, ListingStep
  <1> QED
    BY <1>4, <1>5 DEF KnowInv

(* What the server read is what the card shows of the list.                *)
LEMMA ListedIsView ==
    ASSUME Shapes, NEW a, IsArgs(a), NEW c, c.range = resolveRequestRange(a),
           c.scope = a.calendarId, c.hidden = a.hidden
    PROVE  Listed(a) = View(c)
  <1>1. ASSUME NEW j \in DOMAIN list
        PROVE  list[j].cal \in collectionIdArg(a) <=>
                   list[j].cal \notin c.hidden /\ c.scope \in {"all", list[j].cal}
    <2>1. list[j].cal \in Calendars
      BY DEF Shapes, IsListing, IsEvent
    <2>2. CASE a.calendarId = "all"
      BY <2>1, <2>2 DEF collectionIdArg
    <2>3. CASE a.calendarId # "all"
      BY <2>1, <2>3, AgendaCardAssumption DEF collectionIdArg, IsArgs
    <2> QED
      BY <2>2, <2>3
  <1>2. {j \in DOMAIN list : /\ list[j].day \in resolveRequestRange(a)
                             /\ list[j].cal \in collectionIdArg(a)}
        = {j \in DOMAIN list : /\ list[j].day \in c.range
                               /\ list[j].cal \notin c.hidden
                               /\ c.scope \in {"all", list[j].cal}}
    BY <1>1
  <1> QED
    BY <1>2, Zenon DEF Listed, View

(* The answer k of a reading is applied to the card.                       *)
Takes(k) ==
    /\ k \in calls /\ k.tool = "refresh" /\ k.at = "answered"
    /\ calls' = calls \ {k}
    /\ card'.confirmed = k.events
    /\ card'.range = resolveRequestRange(Args(k))
    /\ card'.scope = Args(k).calendarId
    /\ Applied(k)

LEMMA TakesKeepsNewest ==
    ASSUME Shapes, NEW k, Takes(k)
    PROVE  /\ newest' = [n |-> newest'.n, seen |-> newest'.seen]
           /\ {newest'.n, newest'.seen} \subseteq Nat
           /\ ~unsure' => newest'.n = k.n /\ newest'.seen = k.seen /\ ~unsure
  <1>1. k.n \in Nat /\ k.seen \in Nat
    BY DEF Shapes, Takes, IsCall
  <1>2. newest.n \in Nat /\ newest.seen \in Nat
    BY DEF Shapes
  <1>3. newest' = [n |-> IF k.n > newest.n THEN k.n ELSE newest.n,
                   seen |-> IF k.seen > newest.seen THEN k.seen ELSE newest.seen]
    BY DEF Takes, Applied
  <1>4. /\ newest'.n = IF k.n > newest.n THEN k.n ELSE newest.n
        /\ newest'.seen = IF k.seen > newest.seen THEN k.seen ELSE newest.seen
    BY <1>3
  <1>5. newest' = [n |-> newest'.n, seen |-> newest'.seen]
    BY <1>3
  <1>6. ~unsure' => ~unsure /\ ~(k.n < newest.n) /\ ~(k.seen < newest.seen)
    BY Zenon DEF Takes, Applied
  <1> QED
    BY <1>1, <1>2, <1>4, <1>5, <1>6

LEMMA TakesKeepsKnow ==
    ASSUME Shapes, KnowInv, ListingStep, NEW k, Takes(k)
    PROVE  KnowInv'
  <1>1. PICK g \in 0..gestures : ReadingsFit(g)
    BY DEF KnowInv
  <1>2. unsure => unsure'
    BY DEF Takes, Applied
  <1>3. \A j \in calls' : ReadingFits(j, g)'
    BY <1>1, <1>2, ReadingsStillFit
  <1>4. IsCall(k) /\ ReadingFits(k, g) /\ k.n \in Nat /\ k.seen \in Nat
    BY <1>1 DEF Shapes, Takes, IsCall, ReadingsFit
  <1>5. PICK a : k.args = {a} /\ IsArgs(a)
    BY <1>4 DEF IsCall, Takes
  <1>6. Args(k) = a
    BY <1>5 DEF Args
  <1>7. newest'.n <= gestures' /\ newest'.seen <= version'
    BY <1>1, <1>4 DEF Takes, Applied, ReadingFits, ReadingsFit, Shapes, ListingStep
  <1>8. allCalendarsHidden(card') <=> allCalendarsHidden(card)
    BY DEF allCalendarsHidden, ListingStep
  <1>9. ASSUME ~unsure', ~allCalendarsHidden(card'), newest'.n < g
        PROVE  \E j \in calls' : j.tool = "refresh" /\ j.n >= g
    <2>1. newest'.n = k.n /\ ~unsure /\ newest.n <= k.n
      BY <1>9, <1>4, TakesKeepsNewest DEF Takes, Applied, Shapes
    <2>2. PICK j \in calls : j.tool = "refresh" /\ j.n >= g
      BY <1>1, <1>4, <1>8, <1>9, <2>1 DEF ReadingsFit, Shapes
    <2>3. j # k
      BY <1>9, <1>4, <2>1, <2>2
    <2> QED
      BY <2>2, <2>3 DEF Takes
  <1>10. ASSUME ~unsure', outside' = 0, newest'.seen < version'
         PROVE  \E j \in calls' : WillTell(j)'
    <2>1. newest'.seen = k.seen /\ ~unsure /\ newest.seen <= k.seen
      BY <1>10, <1>4, TakesKeepsNewest DEF Takes, Applied, Shapes
    <2>2. PICK j \in calls : WillTell(j)
      BY <1>1, <1>4, <1>10, <2>1 DEF ReadingsFit, Shapes, ListingStep
    <2>3. j # k
      BY <1>10, <1>4, <2>1, <2>2 DEF WillTell, Takes, ListingStep, Mutating, Shapes
    <2> QED
      BY <2>2, <2>3 DEF Takes, WillTell, ListingStep
  <1>11. ASSUME ~unsure', ~allCalendarsHidden(card'), newest'.n >= g, newest'.seen = version'
         PROVE  card'.confirmed = View(card)'
    <2>1. k.n >= g /\ k.seen = version
      BY <1>11, TakesKeepsNewest DEF ListingStep
    <2>2. k.events = Listed(a) /\ a.hidden = card.hidden
      BY <1>4, <1>6, <1>8, <1>11, <2>1 DEF ReadingFits, Takes
    <2>3. card'.confirmed = Listed(a)
      BY <2>2 DEF Takes
    <2>4. PICK c : c = card'
      OBVIOUS
    <2>5. Listed(a) = View(c)
      BY <1>5, <1>6, <2>2, <2>4, ListedIsView DEF Takes, ListingStep
    <2>6. View(card)' = View(c)
      BY <2>4 DEF View, ListingStep
    <2> QED
      BY <2>3, <2>5, <2>6
  <1>12. ReadingsFit(g)'
    BY <1>3, <1>7, <1>9, <1>10, <1>11 DEF ReadingsFit
  <1>13. g \in 0..gestures'
    BY <1>1 DEF Shapes, ListingStep
  <1> QED
    BY <1>12, <1>13 DEF KnowInv

LEMMA ApplyStructuredContent ==
    ASSUME NEW c, IsCard(c), NEW vm, NEW d, d = applyStructuredContent(c, vm)
    PROVE  /\ IsCard(d) /\ SameOverlays(c, d)
           /\ d.sheet = c.sheet /\ d.dom = c.dom /\ d.late = c.late /\ d.timers = c.timers
           /\ d.banner = c.banner /\ d.hidden = c.hidden
           /\ d.confirmed = vm.events
           /\ vm.range # NoRange => d.range = vm.range /\ d.scope = vm.calendarId
  <1> DEFINE kept == vm.preserve /\ vm.meta = NoMeta
             c1 == [c EXCEPT !.confirmed = vm.events, !.added = IF kept THEN @ ELSE vm.meta.added]
             c2 == rebuildFromConfirmed(c1)
  <1>1. /\ IsCard(c1)
        /\ \A f \in CardFields \ {"confirmed", "added"} : c1[f] = c[f]
        /\ c1.confirmed = vm.events
    BY DEF IsCard, CardFields
  <1>2. d = [c2 EXCEPT !.range = IF vm.range = NoRange THEN @ ELSE vm.range,
                       !.scope = IF vm.range = NoRange THEN @ ELSE vm.calendarId,
                       !.fresh = @ \/ ~vm.stale]
    BY DEF applyStructuredContent
  <1> HIDE DEF c1
  <1>3. /\ IsCard(c2) /\ SameCore(c1, c2) /\ c2.sheet = c1.sheet /\ c2.banner = c1.banner
        /\ c2.dom = c1.dom /\ c2.late = c1.late
    BY <1>1, RebuildFromConfirmed
  <1> HIDE DEF c2
  <1>4. /\ IsCard(d)
        /\ \A f \in CardFields \ {"range", "scope", "fresh"} : d[f] = c2[f]
        /\ vm.range # NoRange => d.range = vm.range /\ d.scope = vm.calendarId
    BY <1>2, <1>3 DEF IsCard, CardFields
  <1>5. d.confirmed = vm.events /\ SameOverlays(c, d)
    BY <1>1, <1>3, <1>4 DEF SameCore, CoreFields, CardFields, SameOverlays
  <1>6. /\ d.sheet = c.sheet /\ d.dom = c.dom /\ d.late = c.late /\ d.timers = c.timers
        /\ d.banner = c.banner /\ d.hidden = c.hidden
    BY <1>1, <1>3, <1>4 DEF SameCore, CoreFields, CardFields
  <1> QED
    BY <1>4, <1>5, <1>6

(* The answer of a reading names the range it was asked for.               *)
LEMMA AnswerNamesRange ==
    ASSUME NEW k
    PROVE  /\ Vm(k).events = k.events /\ Vm(k).calendarId = Args(k).calendarId
           /\ Vm(k).range = resolveRequestRange(Args(k)) /\ Vm(k).range # NoRange
  BY AgendaCardAssumption DEF Vm, resolveRequestRange, NoRange

LEMMA TakingFewer ==
    ASSUME Shapes, NEW k \in calls, k.tool = "refresh", calls' = calls \ {k},
           IsCard(card'), SameOverlays(card, card'), card'.hidden = card.hidden,
           UNCHANGED <<list, gone, mix, gestures, outside, version, told, freed, failures>>
    PROVE  ListingStep
  BY DEF ListingStep, SameMutations, Mutating

(* Both kinds of answer leave a card that has taken the listing over.      *)
LEMMA TakesListing ==
    ASSUME Shapes, NEW k \in calls, k.tool = "refresh", k.at = "answered",
           calls' = calls \ {k}, Applied(k), NEW d, d = applyStructuredContent(card, Vm(k)),
           IsCard(card'), SameOverlays(d, card'),
           card'.confirmed = d.confirmed, card'.range = d.range, card'.scope = d.scope,
           card'.hidden = d.hidden,
           UNCHANGED <<list, gone, mix, gestures, outside, version, told, freed, failures>>
    PROVE  ListingStep /\ Takes(k)
  <1>1. IsCard(card)
    BY DEF Shapes
  <1>2. /\ SameOverlays(card, d) /\ d.hidden = card.hidden
        /\ d.confirmed = k.events
        /\ d.range = resolveRequestRange(Args(k)) /\ d.scope = Args(k).calendarId
    <2>1. PICK vm : vm = Vm(k)
      OBVIOUS
    <2>2. d = applyStructuredContent(card, vm)
      BY <2>1
    <2>3. /\ SameOverlays(card, d) /\ d.hidden = card.hidden /\ d.confirmed = vm.events
          /\ vm.range # NoRange => d.range = vm.range /\ d.scope = vm.calendarId
      BY <1>1, <2>2, ApplyStructuredContent
    <2>4. /\ vm.events = k.events /\ vm.calendarId = Args(k).calendarId
          /\ vm.range = resolveRequestRange(Args(k)) /\ vm.range # NoRange
      BY <2>1, AnswerNamesRange
    <2> QED
      BY <2>3, <2>4
  <1>3. SameOverlays(card, card')
    BY <1>2 DEF SameOverlays
  <1>4. ListingStep
    BY <1>2, <1>3, TakingFewer
  <1> QED
    BY <1>2, <1>4 DEF Takes

LEMMA ListingKeepsCard ==
    ASSUME CardInv, ListingStep, DrawInv',
           \/ \E k : Takes(k)
           \/ unsure' /\ newest' = newest
    PROVE  CardInv'
  <1>1. newest' = [n |-> newest'.n, seen |-> newest'.seen] /\ {newest'.n, newest'.seen} \subseteq Nat
    BY TakesKeepsNewest DEF CardInv, Shapes
  <1>2. Shapes'
    BY <1>1, ListingKeepsShapes DEF CardInv
  <1>3. OverlaysCarried' /\ EditsInv'
    BY ListingKeepsOverlays DEF CardInv
  <1>4. KnowInv'
    BY TakesKeepsKnow, UnsureKeepsKnow DEF CardInv
  <1> QED
    BY <1>2, <1>3, <1>4 DEF CardInv

LEMMA AnswerRereadKeeps == ASSUME CardInv, NEW k \in calls, AnswerReread(k) PROVE CardInv'
  <1>1. /\ k.tool = "refresh" /\ calls' = calls \ {k}
        /\ UNCHANGED <<list, gone, mix, gestures, outside, version, told, freed, failures>>
    BY DEF AnswerReread, answerVars
  <1>2. Shapes /\ IsCard(card)
    BY DEF CardInv, Shapes
  <1>3. CASE k.at = "answered"
    <2> DEFINE c == applyStructuredContent(card, Vm(k))
    <2>1. /\ card' = [c EXCEPT !.late = @ \/ (c.timers = {} /\ drawn(c) # c.dom)]
          /\ Applied(k)
      BY <1>3 DEF AnswerReread, At
    <2>2. IsCard(c)
      BY <1>2, ApplyStructuredContent
    <2>3. ListingStep /\ Takes(k)
      <3> HIDE DEF c
      <3>1. /\ IsCard(card') /\ SameOverlays(c, card')
            /\ card'.confirmed = c.confirmed /\ card'.range = c.range /\ card'.scope = c.scope
            /\ card'.hidden = c.hidden
        BY <2>1, <2>2 DEF IsCard, CardFields, SameOverlays
      <3> QED
        BY <1>1, <1>2, <1>3, <2>1, <3>1, TakesListing DEF c
    <2>4. ~Undrawn'
      <3> HIDE DEF c
      <3>1. /\ \A f \in CardFields \ {"late"} : card'[f] = c[f]
            /\ card'.late = (c.late \/ (c.timers = {} /\ drawn(c) # c.dom))
        BY <2>1, <2>2 DEF IsCard, CardFields
      <3>2. drawn(card') = drawn(c)
        BY <3>1, DrawnAlike DEF CardFields
      <3> QED
        BY <3>1, <3>2 DEF Undrawn, CardFields
    <2>5. DrawInv'
      BY <1>1, <2>4 DEF CardInv, DrawInv, UndrawnIsExplained, FailuresCount
    <2> QED
      BY <2>3, <2>5, ListingKeepsCard
  <1>4. CASE k.at = "failed"
    <2>1. card' = showBanner(showRebuilt(card), [kind |-> "fetch"]) /\ unsure' /\ newest' = newest
      BY <1>4 DEF AnswerReread, At
    <2>2. IsBanner([kind |-> "fetch"])
      BY DEF IsBanner
    <2>3. /\ IsCard(card') /\ SameCore(showRebuilt(card), card') /\ IsDrawn(card')
          /\ SameCore(card, showRebuilt(card))
      BY <1>2, <2>1, <2>2, ShowRebuilt, ShowBanner
    <2>4. ListingStep
      BY <1>1, <1>2, <2>3, TakingFewer DEF SameOverlays, SameCore, CoreFields
    <2>5. DrawInv'
      BY <1>1, <2>3, DrawingKeepsDraw DEF CardInv
    <2> QED
      BY <2>1, <2>4, <2>5, ListingKeepsCard
  <1> QED
    BY <1>3, <1>4 DEF AnswerReread, At

LEMMA AnswerListingKeeps == ASSUME CardInv, NEW k \in calls, AnswerListing(k) PROVE CardInv'
  <1>1. /\ k.tool = "refresh" /\ k.cont \in {"range", "filter", "retry", "refetch"}
        /\ calls' = calls \ {k}
        /\ UNCHANGED <<list, gone, mix, gestures, outside, version, told, freed, failures>>
    BY DEF AnswerListing, answerVars
  <1>2. Shapes /\ IsCard(card) /\ DrawInv
    BY DEF CardInv, Shapes
  <1>3. CASE k.at = "answered"
    <2> DEFINE c == applyStructuredContent(card, Vm(k))
    <2>1. card' \in {guardedRenderAll(c), renderAll(c)} /\ Applied(k)
      BY <1>3 DEF AnswerListing, At
    <2>2. IsCard(c)
      BY <1>2, ApplyStructuredContent
    <2>3. PICK d : d = c
      OBVIOUS
    <2> HIDE DEF c
    <2>4. IsCard(card') /\ SameCore(d, card') /\ IsDrawn(card')
      BY <2>1, <2>2, <2>3, RenderAll, GuardedRenderAll
    <2>5. ListingStep /\ Takes(k)
      <3>1. /\ SameOverlays(d, card')
            /\ card'.confirmed = d.confirmed /\ card'.range = d.range
            /\ card'.scope = d.scope /\ card'.hidden = d.hidden
        BY <2>4 DEF SameCore, CoreFields, SameOverlays
      <3>2. d = applyStructuredContent(card, Vm(k))
        BY <2>3 DEF c
      <3> QED
        BY <1>1, <1>2, <1>3, <2>1, <2>4, <3>1, <3>2, TakesListing
    <2>6. DrawInv'
      BY <1>1, <1>2, <2>4, DrawingKeepsDraw
    <2> QED
      BY <2>5, <2>6, ListingKeepsCard
  <1>4. CASE k.at = "failed"
    <2>1. /\ card' = IF k.cont = "refetch" THEN card ELSE showBanner(card, [kind |-> k.cont])
          /\ unsure' /\ newest' = newest
      BY <1>4 DEF AnswerListing, At
    <2>2. /\ IsCard(card') /\ SameCore(card, card')
          /\ card'.sheet = card.sheet /\ card'.dom = card.dom /\ card'.late = card.late
          /\ drawn(card') = drawn(card)
          /\ IF k.cont = "refetch" THEN card' = card ELSE card'.banner.kind = k.cont
      <3>1. CASE k.cont = "refetch"
        BY <1>2, <2>1, <3>1 DEF SameCore
      <3>2. CASE k.cont # "refetch"
        <4>1. IsBanner([kind |-> k.cont])
          BY <1>1 DEF IsBanner
        <4> QED
          BY <1>2, <2>1, <3>2, <4>1, ShowBanner
      <3> QED
        BY <3>1, <3>2
    <2>3. ListingStep
      BY <1>1, <1>2, <2>2, TakingFewer DEF SameOverlays, SameCore, CoreFields
    <2>4. FailedRead(k) /\ failures > 0
      BY <1>1, <1>2, <1>4 DEF FailedRead, DrawInv, FailuresCount
    <2>5. \A j \in calls' : FailedRead(j) => failures > 1
      BY <1>1, <1>2, <2>4 DEF DrawInv, FailuresCount
    <2>6. ASSUME Undrawn' PROVE ListingFailed' \/ \E j \in calls' : Reading(j, {"range", "retry"})
      <3>1. CASE k.cont = "filter"
        BY <2>2, <3>1 DEF ListingFailed
      <3>2. CASE k.cont # "filter"
        <4>1. Undrawn
          BY <1>1, <2>2, <2>6, <3>2 DEF Undrawn, Reading, SameCore, CoreFields
        <4>2. /\ failures > 1
              /\ ListingFailed \/ \E j \in calls : Reading(j, {"range", "retry"})
          BY <1>2, <2>4, <4>1 DEF DrawInv, UndrawnIsExplained
        <4> QED
          BY <1>1, <2>2, <3>2, <4>2 DEF ListingFailed, Reading
      <3> QED
        BY <3>1, <3>2
    <2>7. UndrawnIsExplained'
      BY <1>1, <2>4, <2>5, <2>6 DEF UndrawnIsExplained
    <2>8. FailuresCount'
      BY <1>1, <1>2 DEF DrawInv, FailuresCount
    <2>9. DrawInv'
      BY <2>7, <2>8 DEF DrawInv
    <2> QED
      BY <2>1, <2>3, <2>9, ListingKeepsCard
  <1> QED
    BY <1>3, <1>4 DEF AnswerListing, At

(* A pushed listing is drawn unless a page is open.                        *)
LEMMA IngestedKeeps ==
    ASSUME CardInv, NEW vm, NEW others, others \subseteq calls,
           SameMutations(calls, others), NEW n, n = gestures', n \in {gestures, gestures + 1},
           Ingested(vm, others, n), unsure', newest' = newest,
           UNCHANGED <<list, gone, mix, outside, version, told, freed, failures>>
    PROVE  CardInv'
  <1>1. Shapes /\ IsCard(card) /\ DrawInv /\ n \in Nat
    BY DEF CardInv, Shapes
  <1>2. PICK d : d = applyStructuredContent(card, vm)
    OBVIOUS
  <1>3. IsCard(d) /\ SameOverlays(card, d) /\ d.hidden = card.hidden
    BY <1>1, <1>2, ApplyStructuredContent
  <1>4. card' = guardedRenderAll(d)
    BY <1>2 DEF Ingested
  <1>5. IsCard(card') /\ SameCore(d, card') /\ IsDrawn(card')
    BY <1>3, <1>4, GuardedRenderAll
  <1>6. SameOverlays(card, card') /\ card'.hidden = card.hidden
    BY <1>3, <1>5 DEF SameOverlays, SameCore, CoreFields
  <1>7. \A k \in calls' \ calls : NewRead(k, card', gestures', unsure')
    <2>1. calls' = others \/ calls' = others \cup {Refresh(card', "refetch", n)}
      BY DEF Ingested, maybeRefetch
    <2>2. NewRead(Refresh(card', "refetch", n), card', n, unsure')
      BY <1>1, RefreshReads
    <2> QED
      BY <2>1, <2>2
  <1>8. SameMutations(calls, calls')
    <2>1. \A k \in calls' \ others : k.tool = "refresh"
      BY DEF Ingested, maybeRefetch, Refresh, NewCall
    <2>2. others \subseteq calls'
      BY DEF Ingested, maybeRefetch
    <2> QED
      BY <2>1, <2>2 DEF SameMutations, Mutating
  <1>9. ListingStep
    BY <1>5, <1>6, <1>7, <1>8 DEF ListingStep
  <1>10. DrawInv'
    BY <1>1, <1>5, <1>9, ListingHasNoFailures, DrawingKeepsDraw
  <1> QED
    BY <1>9, <1>10, ListingKeepsCard

LEMMA AnswerPushKeeps == ASSUME CardInv, NEW k \in calls, AnswerPush(k) PROVE CardInv'
  <1>1. /\ k.tool = "refresh" /\ k.cont = "push"
        /\ UNCHANGED <<list, gone, mix, gestures, outside, version, newest, unsure, told, freed, failures>>
    BY DEF AnswerPush, answerVars
  <1>2. unsure
    BY <1>1 DEF CardInv, KnowInv, ReadingsFit, ReadingFits
  <1>3. \E vm : Ingested(vm, calls \ {k}, gestures)
    BY Zenon DEF AnswerPush
  <1>4. SameMutations(calls, calls \ {k})
    BY <1>1 DEF SameMutations, Mutating
  <1>5. gestures' = gestures
    BY <1>1
  <1> QED
    BY <1>1, <1>2, <1>3, <1>4, <1>5, IngestedKeeps

(* The picture stays, and what is read.                                    *)
LEMMA SamePictureKeepsDraw ==
    ASSUME DrawInv, card'.sheet = card.sheet, card'.dom = card.dom, card'.timers = card.timers,
           card'.late = card.late, card'.banner = card.banner, drawn(card') = drawn(card),
           failures' = failures,
           \A k \in calls' : FailedRead(k) => k \in calls,
           \A k \in calls : k.tool = "refresh" =>
               \E l \in calls' : l.tool = "refresh" /\ l.cont = k.cont
    PROVE  DrawInv'
  <1>1. \A S : (\E k \in calls : Reading(k, S)) => \E k \in calls' : Reading(k, S)
    BY DEF Reading
  <1>2. Undrawn' => Undrawn
    BY <1>1 DEF Undrawn
  <1>3. UndrawnIsExplained'
    BY <1>1, <1>2 DEF DrawInv, UndrawnIsExplained, ListingFailed
  <1>4. FailuresCount'
    BY DEF DrawInv, FailuresCount
  <1> QED
    BY <1>3, <1>4 DEF DrawInv

LEMMA OntoolresultKeeps == ASSUME CardInv, NEW scope, NEW stale, ontoolresult(scope, stale) PROVE CardInv'
  <1>1. /\ gestures' = gestures + 1 /\ unsure' /\ newest' = newest
        /\ UNCHANGED <<list, gone, mix, outside, version, told, freed, failures>>
    BY DEF ontoolresult
  <1>2. Shapes /\ IsCard(card) /\ DrawInv /\ gestures' \in Nat
    BY <1>1 DEF CardInv, Shapes
  <1>3. PICK vm : vm = Pushed(scope, stale)
    OBVIOUS
  <1>4. CASE Ingested(vm, calls, gestures + 1)
    BY <1>1, <1>4, IngestedKeeps DEF SameMutations
  <1>5. CASE /\ calls' = calls \cup {[Refresh(card, "push", gestures + 1) EXCEPT !.pushed = {vm}]}
             /\ card' = card
    <2> DEFINE r == Refresh(card, "push", gestures')
               k == [r EXCEPT !.pushed = {vm}]
    <2>1. NewRead(r, card, gestures', unsure')
      BY <1>1, <1>2, RefreshReads
    <2> HIDE DEF r
    <2>2. NewRead(k, card, gestures', unsure')
      BY <2>1 DEF NewRead, IsCall, CallFields, Args
    <2>3. calls' = calls \cup {k}
      BY <1>1, <1>5 DEF r
    <2> HIDE DEF k
    <2>4. ListingStep
      BY <1>1, <1>2, <1>5, <2>2, <2>3 DEF ListingStep, SameOverlays, SameMutations, Mutating, NewRead
    <2>5. DrawInv'
      BY <1>1, <1>2, <1>5, <2>3, <2>4, ListingHasNoFailures, SamePictureKeepsDraw
    <2> QED
      BY <1>1, <2>4, <2>5, ListingKeepsCard
  <1> QED
    BY <1>3, <1>4, <1>5, Zenon DEF ontoolresult

-----------------------------------------------------------------------------
(* Answers to what changes something.                                      *)

OverlayFields == {"pending", "edits", "editing", "deletes", "rows"}
SameButOverlays(c, d) == \A f \in CardFields \ OverlayFields : d[f] = c[f]

EditsCleared(c, d, k) ==
    IF k.tool = "edit"
    THEN DOMAIN d.edits = DOMAIN c.edits \ {k.id} /\ d.editing = c.editing \ {k.id}
    ELSE d.edits = c.edits /\ d.editing = c.editing

RowsCleared(c, d, k) ==
    IF k.tool = "create" THEN DOMAIN d.rows = DOMAIN c.rows \ {k.id} ELSE d.rows = c.rows

LEMMA ClearedFields ==
    ASSUME NEW c, IsCard(c), NEW k, k.tool \in Mutating, NEW d, d = Cleared(c, k)
    PROVE  /\ IsCard(d)
           /\ SameButOverlays(c, d)
           /\ d.pending = c.pending \ {k.id}
           /\ EditsCleared(c, d, k)
           /\ d.deletes = IF k.tool = "delete" THEN c.deletes \ {k.id} ELSE c.deletes
           /\ RowsCleared(c, d, k)
  <1> DEFINE c1 == [c EXCEPT !.pending = @ \ {k.id}]
  <1>1. /\ IsCard(c1) /\ c1.pending = c.pending \ {k.id}
        /\ \A f \in CardFields \ {"pending"} : c1[f] = c[f]
    BY DEF IsCard, CardFields, SameButOverlays, OverlayFields,
            EditsCleared, RowsCleared
  <1>2. CASE k.tool = "edit"
    <2>1. d = [c1 EXCEPT !.edits = Without(@, {k.id}), !.editing = @ \ {k.id}]
      BY <1>2 DEF Cleared
    <2> HIDE DEF c1
    <2> QED
      BY <1>1, <1>2, <2>1 DEF IsCard, CardFields, Without, SameButOverlays, OverlayFields,
            EditsCleared, RowsCleared
  <1>3. CASE k.tool = "delete"
    <2>1. d = [c1 EXCEPT !.deletes = @ \ {k.id}]
      BY <1>3 DEF Cleared
    <2> HIDE DEF c1
    <2> QED
      BY <1>1, <1>3, <2>1 DEF IsCard, CardFields, SameButOverlays, OverlayFields,
            EditsCleared, RowsCleared
  <1>4. CASE k.tool = "create"
    <2>1. d = [c1 EXCEPT !.rows = Without(@, {k.id})]
      BY <1>4 DEF Cleared
    <2> HIDE DEF c1
    <2> QED
      BY <1>1, <1>4, <2>1 DEF IsCard, CardFields, Without, SameButOverlays, OverlayFields,
            EditsCleared, RowsCleared
  <1> QED
    BY <1>2, <1>3, <1>4 DEF Mutating

(* Without the call k and what was laid over the list for it.              *)
LEMMA ClearedIsCarried ==
    ASSUME NEW c, IsCard(c), NEW k, k.tool \in Mutating, NEW ks, Carried(c, ks),
           NEW ls, ks \ {k} \subseteq ls, NEW d, SameOverlays(Cleared(c, k), d)
    PROVE  Carried(d, ls)
  <1>1. PICK b : b = Cleared(c, k)
    OBVIOUS
  <1>2. /\ b.pending = c.pending \ {k.id}
        /\ EditsCleared(c, b, k)
        /\ b.deletes = IF k.tool = "delete" THEN c.deletes \ {k.id} ELSE c.deletes
        /\ RowsCleared(c, b, k)
    BY <1>1, ClearedFields
  <1>3. \A tool, i : Under(ks, tool, i) /\ (tool # k.tool \/ i # k.id) => Under(ls, tool, i)
    BY DEF Under
  <1>4. \A i \in d.deletes : Under(ls, "delete", i)
    BY <1>1, <1>2, <1>3 DEF Carried, SameOverlays, EditsCleared, RowsCleared
  <1>5. \A i \in DOMAIN d.edits \cup d.editing : Under(ls, "edit", i)
    BY <1>1, <1>2, <1>3 DEF Carried, SameOverlays, EditsCleared, RowsCleared
  <1>6. \A i \in DOMAIN d.rows : Under(ls, "create", i)
    BY <1>1, <1>2, <1>3 DEF Carried, SameOverlays, EditsCleared, RowsCleared
  <1>7. \A i \in d.pending : \E tool \in Mutating : Under(ls, tool, i)
    BY <1>1, <1>2, <1>3 DEF Carried, SameOverlays, EditsCleared, RowsCleared
  <1> QED
    BY <1>4, <1>5, <1>6, <1>7 DEF Carried

(* The other edits of an event stay alone: either k was the only one, or   *)
(* the event is freed.                                                     *)
LEMMA AnsweringKeepsEdits ==
    ASSUME Shapes, EditsInv, NEW k \in calls, k.tool \in Mutating,
           k.tool = "edit" => k.at = "done" \/ told' = Without(told, {k.id}),
           k.tool # "edit" \/ k.at = "done" => told' = told,
           card'.pending = card.pending \ {k.id}, freed' = Freed(k),
           calls \ {k} \subseteq calls', \A l \in calls' \ calls : l.tool = "refresh",
           k \notin calls', UNCHANGED <<list, gone, outside>>
    PROVE  EditsInv'
  <1>1. \A j \in calls' : j.tool = "edit" => j \in calls
    OBVIOUS
  <1>2. freed \subseteq freed'
    BY DEF Freed
  <1>3. ASSUME NEW j \in calls', j.tool = "edit", j.id \notin freed' PROVE j.id # k.id
    <2>1. j \in calls /\ j # k /\ j.id \notin freed
      BY <1>1, <1>2, <1>3
    <2>2. SUFFICES ASSUME j.id = k.id PROVE FALSE
      OBVIOUS
    <2>3. CASE k.tool = "edit"
      BY <1>3, <2>1, <2>2, <2>3 DEF EditsInv, OneEditAtATime, IsEdit
    <2>4. CASE k.tool = "delete"
      BY <1>3, <2>1, <2>2, <2>4 DEF Freed
    <2>5. CASE k.tool = "create"
      BY <1>3, <2>1, <2>2, <2>5 DEF Shapes, IsCall
    <2> QED
      BY <2>3, <2>4, <2>5 DEF Mutating
  <1>4. OneEditAtATime'
    BY <1>1, <1>2, <1>3 DEF EditsInv, OneEditAtATime, IsEdit
  <1>5. \A i \in DOMAIN told' : i \in DOMAIN told /\ told'[i] = told[i]
    BY DEF Without, Mutating
  <1>6. SentAsTold'
    BY <1>1, <1>2, <1>5 DEF EditsInv, SentAsTold
  <1>7. ASSUME outside = 0, NEW i \in DOMAIN told' \ (freed' \cup gone), NEW f \in DOMAIN told'[i]
        PROVE  \/ i \in DOMAIN list /\ list[i][f] = told'[i][f]
               \/ \E l \in calls' : Brings(l, i, f)'
    <2>1. \/ i \in DOMAIN list /\ list[i][f] = told[i][f]
          \/ \E l \in calls : Brings(l, i, f)
      BY <1>2, <1>5, <1>7 DEF EditsInv, ToldArrives
    <2>2. ASSUME NEW l \in calls, Brings(l, i, f) PROVE Brings(l, i, f)'
      BY <1>5, <1>7, <2>2 DEF Brings
    <2>3. ASSUME NEW l \in calls, Brings(l, i, f) PROVE l # k
      BY <1>7, <2>3 DEF Brings, IsEdit, Without
    <2> QED
      BY <1>5, <1>7, <2>1, <2>2, <2>3
  <1>8. ToldArrives'
    BY <1>7 DEF ToldArrives
  <1>9. GoneForGood'
    BY DEF EditsInv, GoneForGood
  <1> QED
    BY <1>4, <1>6, <1>8, <1>9 DEF EditsInv

LEMMA AnswerMutationKeeps == ASSUME CardInv, NEW k \in calls, AnswerMutation(k) PROVE CardInv'
  <1>1. /\ k.at = "done" /\ k.tool \in Mutating /\ card' = Cleared(card, k) /\ freed' = Freed(k)
        /\ UNCHANGED <<list, gone, mix, gestures, outside, version, failures, newest, unsure, told>>
    BY DEF AnswerMutation, answerVars, At
  <1>2. Shapes /\ IsCard(card) /\ DrawInv /\ EditsInv /\ IsCall(k) /\ gestures \in Nat
    BY DEF CardInv, Shapes
  <1>a. PICK r : r = Refresh(card, k.tool, gestures)
    OBVIOUS
  <1>b. PICK l : l = [r EXCEPT !.id = k.id, !.meta = k.meta]
    OBVIOUS
  <1>3. NewRead(r, card, gestures, unsure')
    BY <1>a, <1>1, <1>2, RefreshReads DEF Mutating
  <1>4. r.cont = k.tool /\ calls' = (calls \ {k}) \cup {l}
    BY <1>a, <1>b, RefreshReads, <1>1, <1>2 DEF AnswerMutation, Mutating
  <1>5. NewRead(l, card, gestures, unsure')
    BY <1>b, <1>1, <1>2, <1>3 DEF NewRead, IsCall, CallFields, Args, Mutating
  <1>6. /\ IsCard(card')
        /\ SameButOverlays(card, card')
        /\ card'.pending = card.pending \ {k.id}
    <2>1. PICK d : d = card'
      OBVIOUS
    <2>2. d = Cleared(card, k)
      BY <1>1, <2>1
    <2>3. IsCard(card) /\ k.tool \in Mutating
      BY <1>1, <1>2
    <2>4. IsCard(d)
      BY <2>2, <2>3, ClearedFields
    <2>5. d.pending = card.pending \ {k.id}
      BY <2>2, <2>3, ClearedFields
    <2>6. SameButOverlays(card, d)
      BY <2>2, <2>3, ClearedFields
    <2> QED
      BY <2>1, <2>4, <2>5, <2>6
  <1>7. l.tool = "refresh" /\ l.at = "sent" /\ IsCall(l) /\ l # k
    BY <1>1, <1>5 DEF NewRead
  <1>8. Shapes'
    BY <1>1, <1>2, <1>4, <1>6, <1>7 DEF Shapes, IsListing
  <1>9. OverlaysCarried'
    <2>1. SameOverlays(Cleared(card, k), card') /\ calls \ {k} \subseteq calls'
      BY <1>1, <1>4 DEF SameOverlays
    <2> QED
      BY <1>1, <1>2, <2>1, ClearedIsCarried DEF CardInv, OverlaysCarried
  <1>10. EditsInv'
    <2>1. calls \ {k} \subseteq calls' /\ k \notin calls' /\ \A m \in calls' \ calls : m.tool = "refresh"
      BY <1>4, <1>7
    <2> QED
      BY <1>1, <1>2, <1>6, <2>1, AnsweringKeepsEdits
  <1>11. DrawInv'
    <2>1. drawn(card') = drawn(card)
      BY <1>6, DrawnAlike DEF CardFields, SameButOverlays, OverlayFields
    <2>2. \A m \in calls' : FailedRead(m) => m \in calls
      BY <1>4, <1>7 DEF FailedRead
    <2>3. \A m \in calls : m.tool = "refresh" => m \in calls'
      BY <1>1, <1>4 DEF Mutating
    <2> QED
      BY <1>1, <1>2, <1>6, <2>1, <2>2, <2>3, SamePictureKeepsDraw DEF CardFields, SameButOverlays, OverlayFields
  <1>12. KnowInv'
    <2>1. PICK g \in 0..gestures : ReadingsFit(g)
      BY DEF CardInv, KnowInv
    <2>2. SameView(card, card') /\ (allCalendarsHidden(card') <=> allCalendarsHidden(card))
      BY <1>6 DEF SameView, CardFields, allCalendarsHidden, SameButOverlays, OverlayFields
    <2>3. \A args : Listed(args)' = Listed(args)
      BY <1>1 DEF Listed
    <2>4. ASSUME NEW m \in calls' PROVE ReadingFits(m, g)'
      <3>1. CASE m = l
        BY <1>1, <1>2, <1>5, <2>2, <3>1 DEF ReadingFits, NewRead, SameView, Shapes, allCalendarsHidden
      <3>2. CASE m \in calls
        BY <1>1, <2>1, <2>2, <2>3, <3>2 DEF ReadingsFit, ReadingFits, SameView
      <3> QED
        BY <1>4, <3>1, <3>2
    <2>5. WillTell(l)'
      BY <1>7 DEF WillTell
    <2>6. \A m \in calls : m.tool = "refresh" => m \in calls'
      BY <1>1, <1>4 DEF Mutating
    <2>7. card.confirmed = View(card) => card'.confirmed = View(card)'
      BY <1>1, <2>2 DEF View, SameView
    <2>8. ReadingsFit(g)'
      BY <1>1, <1>4, <2>1, <2>2, <2>4, <2>5, <2>6, <2>7 DEF ReadingsFit, SameView
    <2> QED
      BY <1>1, <2>1, <2>8 DEF KnowInv
  <1> QED
    BY <1>8, <1>9, <1>10, <1>11, <1>12 DEF CardInv

LEMMA AnswerFailureKeeps == ASSUME CardInv, NEW k \in calls, AnswerFailure(k) PROVE CardInv'
  <1> DEFINE b == [kind |-> k.tool, id |-> k.id, arg |-> k.arg]
             c == Cleared(card, k)
  <1>1. /\ k.at = "failed" /\ k.tool \in Mutating /\ freed' = Freed(k)
        /\ card' = showBanner(showRebuilt(c), b) /\ calls' = calls \ {k}
        /\ told' = IF k.tool = "edit" THEN Without(told, {k.id}) ELSE told
        /\ unsure' = (unsure \/ k.meta # NoMeta)
        /\ UNCHANGED <<list, gone, mix, gestures, outside, version, failures, newest>>
    BY DEF AnswerFailure, answerVars, At
  <1>2. Shapes /\ IsCard(card) /\ DrawInv /\ EditsInv /\ IsCall(k)
    BY DEF CardInv, Shapes
  <1>3. IsBanner(b)
    BY <1>2 DEF IsBanner, IsCall
  <1>4. PICK d : d = c
    OBVIOUS
  <1>5. /\ IsCard(d)
        /\ SameButOverlays(card, d)
        /\ d.pending = card.pending \ {k.id}
    <2>2. d = Cleared(card, k)
      BY <1>4
    <2>3. IsCard(card) /\ k.tool \in Mutating
      BY <1>1, <1>2
    <2>4. IsCard(d)
      BY <2>2, <2>3, ClearedFields
    <2>5. d.pending = card.pending \ {k.id}
      BY <2>2, <2>3, ClearedFields
    <2>6. SameButOverlays(card, d)
      BY <2>2, <2>3, ClearedFields
    <2> QED
      BY <2>4, <2>5, <2>6
  <1> HIDE DEF b
  <1>6. SameCore(d, card') /\ IsCard(card') /\ IsDrawn(card')
    <2>1. IsCard(showRebuilt(d)) /\ SameCore(d, showRebuilt(d)) /\ IsDrawn(showRebuilt(d))
      BY <1>5, ShowRebuilt
    <2> QED
      BY <1>1, <1>3, <1>4, <2>1, ShowBanner, SameCoreTransitive
  <1>7. Shapes'
    <2>1. \A i \in DOMAIN told' : IsChange(told'[i])
      BY <1>1, <1>2 DEF Shapes, Without
    <2> QED
      BY <1>1, <1>2, <1>6, <2>1 DEF Shapes, IsListing
  <1>8. OverlaysCarried'
    <2>1. SameOverlays(Cleared(card, k), card') /\ calls \ {k} \subseteq calls'
      BY <1>1, <1>4, <1>6 DEF SameOverlays, SameCore, CoreFields
    <2> QED
      BY <1>1, <1>2, <2>1, ClearedIsCarried DEF CardInv, OverlaysCarried
  <1>9. EditsInv'
    <2>1. card'.pending = card.pending \ {k.id}
      BY <1>5, <1>6 DEF SameCore, CoreFields
    <2> QED
      BY <1>1, <1>2, <2>1, AnsweringKeepsEdits
  <1>10. DrawInv'
    BY <1>1, <1>2, <1>6, DrawingKeepsDraw
  <1>11. KnowInv'
    <2>1. PICK g \in 0..gestures : ReadingsFit(g)
      BY DEF CardInv, KnowInv
    <2>2. SameView(card, card') /\ (allCalendarsHidden(card') <=> allCalendarsHidden(card))
      BY <1>5, <1>6 DEF SameView, SameCore, CoreFields, CardFields, allCalendarsHidden, SameButOverlays, OverlayFields
    <2>3. \A args : Listed(args)' = Listed(args)
      BY <1>1 DEF Listed
    <2>4. ASSUME NEW m \in calls' PROVE ReadingFits(m, g)'
      BY <1>1, <2>1, <2>2, <2>3, <2>4 DEF ReadingsFit, ReadingFits, SameView
    <2>5. \A m \in calls : m.tool = "refresh" => m \in calls'
      BY <1>1 DEF Mutating
    <2>6. ~unsure' => \A m \in calls : WillTell(m) => m \in calls' /\ WillTell(m)'
      BY <1>1, <1>2 DEF WillTell, Mutating
    <2>7. card.confirmed = View(card) => card'.confirmed = View(card)'
      BY <1>1, <2>2 DEF View, SameView
    <2>8. ~unsure' => ~unsure
      BY <1>1
    <2>9. ReadingsFit(g)'
      BY <1>1, <2>1, <2>2, <2>4, <2>5, <2>6, <2>7, <2>8 DEF ReadingsFit, SameView
    <2> QED
      BY <1>1, <2>1, <2>9 DEF KnowInv
  <1> QED
    BY <1>7, <1>8, <1>9, <1>10, <1>11 DEF CardInv

-----------------------------------------------------------------------------
(* The server's side of a call, and calls that are rejected.               *)

Moves(k, l) ==
    /\ k \in calls /\ calls' = Becomes(k, l)
    /\ IsCall(l) /\ l.at # "sent" /\ l.at # k.at
    /\ l.tool = k.tool /\ l.id = k.id /\ l.cont = k.cont /\ l.n = k.n /\ l.args = k.args
    /\ UNCHANGED <<card, mix, gestures, outside, newest, unsure, told, freed>>

LEMMA MoveKeepsShapes ==
    ASSUME Shapes, NEW k, NEW l, Moves(k, l), IsListing(list'),
           version' \in Nat, failures' \in Nat
    PROVE  Shapes'
  BY DEF Shapes, Moves, Becomes, IsListing

LEMMA MoveKeepsOverlays ==
    ASSUME OverlaysCarried, NEW k, NEW l, Moves(k, l) PROVE OverlaysCarried'
  <1>1. \A j \in calls : \E m \in calls' : m.tool = j.tool /\ m.id = j.id
    BY DEF Moves, Becomes
  <1>2. SameOverlays(card, card')
    BY DEF Moves, SameOverlays
  <1> QED
    BY <1>1, <1>2, CarriedAlike DEF OverlaysCarried

LEMMA MoveKeepsEdits ==
    ASSUME EditsInv, NEW k, NEW l, Moves(k, l), ToldArrives', GoneForGood' PROVE EditsInv'
  <1>1. OneEditAtATime'
    BY DEF EditsInv, OneEditAtATime, IsEdit, Moves, Becomes
  <1>2. SentAsTold'
    BY DEF EditsInv, SentAsTold, Moves, Becomes
  <1> QED
    BY <1>1, <1>2 DEF EditsInv

(* An edit that another call is to bring is still to be brought.           *)
LEMMA MoveBrings ==
    ASSUME NEW k, NEW l, Moves(k, l), NEW i, NEW f, NEW j \in calls, Brings(j, i, f),
           j # k \/ l.at = "failed"
    PROVE  \E m \in calls' : Brings(m, i, f)'
  <1>1. CASE j # k
    BY <1>1 DEF Moves, Becomes, Brings
  <1>2. CASE j = k /\ l.at = "failed"
    BY <1>2 DEF Moves, Becomes, Brings, IsEdit
  <1> QED
    BY <1>1, <1>2

LEMMA MoveKeepsDraw ==
    ASSUME DrawInv, NEW k, NEW l, Moves(k, l), failures' = failures,
           k.tool = "refresh" => l.at # "failed"
    PROVE  DrawInv'
  <1>1. \A j \in calls' : FailedRead(j) => j \in calls
    BY DEF Moves, Becomes, FailedRead
  <1>2. \A j \in calls : j.tool = "refresh" => \E m \in calls' : m.tool = "refresh" /\ m.cont = j.cont
    BY DEF Moves, Becomes
  <1>3. card' = card
    BY DEF Moves
  <1> QED
    BY <1>1, <1>2, <1>3, SamePictureKeepsDraw

(* The list is the same, and what k has to tell is not lost.               *)
LEMMA MoveKeepsKnow ==
    ASSUME Shapes, KnowInv, NEW k, NEW l, Moves(k, l), list' = list, version' = version,
           l.tool = "refresh" =>
               /\ l.seen <= version
               /\ l.at = "answered" => l.seen = version /\ l.events = Listed(Args(l)),
           l.tool # "refresh" => l.meta = k.meta
    PROVE  KnowInv'
  <1>1. PICK g \in 0..gestures : ReadingsFit(g)
    BY DEF KnowInv
  <1>2. \A args : Listed(args)' = Listed(args)
    BY DEF Listed
  <1>3. ReadingFits(k, g)
    BY <1>1 DEF ReadingsFit, Moves
  <1>4. Args(l) = Args(k)
    BY DEF Moves, Args
  <1>5. ReadingFits(l, g)'
    BY <1>2, <1>3, <1>4 DEF ReadingFits, Moves
  <1>6. \A j \in calls : ReadingFits(j, g)'
    BY <1>1, <1>2 DEF ReadingsFit, ReadingFits, Moves
  <1>7. \A j \in calls' : ReadingFits(j, g)'
    BY <1>5, <1>6 DEF Moves, Becomes
  <1>8. (\E j \in calls : j.tool = "refresh" /\ j.n >= g)
            => \E j \in calls' : j.tool = "refresh" /\ j.n >= g
    BY DEF Moves, Becomes
  <1>9. (\E j \in calls : WillTell(j)) => \E j \in calls' : WillTell(j)'
    BY DEF Moves, Becomes, WillTell, Mutating
  <1>10. View(card)' = View(card)
    BY DEF View, Moves
  <1>11. ReadingsFit(g)'
    BY <1>1, <1>7, <1>8, <1>9, <1>10 DEF ReadingsFit, Moves
  <1> QED
    BY <1>1, <1>11 DEF KnowInv, Moves

(* The list changes: nobody has read it yet.                               *)
LEMMA NewVersionKeepsKnow ==
    ASSUME Shapes, KnowInv, version' = version + 1,
           UNCHANGED <<card, gestures, newest, unsure>>,
           \A j \in calls : j.tool = "refresh" => j \in calls',
           \A j \in calls' : j.tool = "refresh" => j \in calls,
           outside' = 0 => \E j \in calls' : j.tool \in Mutating /\ j.meta # NoMeta,
           outside' # 0 \/ outside' = outside
    PROVE  KnowInv'
  <1>1. PICK g \in 0..gestures : ReadingsFit(g)
    BY DEF KnowInv
  <1>2. version \in Nat /\ newest.seen <= version /\ newest.seen \in Nat
    BY <1>1 DEF ReadingsFit, Shapes
  <1>3. ASSUME NEW j \in calls' PROVE ReadingFits(j, g)'
    <2>1. CASE j.tool = "refresh"
      <3>1. ReadingFits(j, g) /\ j.seen \in Nat
        BY <1>1, <2>1 DEF ReadingsFit, Shapes, IsCall
      <3> QED
        BY <1>2, <2>1, <3>1 DEF ReadingFits
    <2>2. CASE j.tool # "refresh"
      BY <2>2 DEF ReadingFits
    <2> QED
      BY <2>1, <2>2
  <1>4. outside' = 0 => \E j \in calls' : WillTell(j)'
    BY DEF WillTell
  <1>5. (\E j \in calls : j.tool = "refresh" /\ j.n >= g)
            => \E j \in calls' : j.tool = "refresh" /\ j.n >= g
    OBVIOUS
  <1>6. newest.seen # version' /\ newest.seen <= version'
    BY <1>2
  <1>7. ReadingsFit(g)'
    BY <1>1, <1>3, <1>4, <1>5, <1>6 DEF ReadingsFit
  <1> QED
    BY <1>1, <1>7 DEF KnowInv

LEMMA RejectCallKeeps == ASSUME CardInv, NEW k \in calls, RejectCall(k) PROVE CardInv'
  <1>1. PICK l : l = [k EXCEPT !.at = "failed"]
    OBVIOUS
  <1>2. /\ k.at \in {"sent", "done"} /\ failures' = failures + 1 /\ calls' = Becomes(k, l)
        /\ UNCHANGED <<card, list, gone, mix, gestures, outside, version, newest, unsure, told, freed>>
    BY <1>1 DEF RejectCall, Reject, Advance, cardVars
  <1>3. /\ Shapes /\ OverlaysCarried /\ EditsInv /\ DrawInv /\ KnowInv
        /\ IsCall(k) /\ failures \in Nat
    BY DEF CardInv, Shapes
  <1>4. /\ IsCall(l) /\ l.at = "failed"
        /\ l.tool = k.tool /\ l.id = k.id /\ l.cont = k.cont /\ l.n = k.n /\ l.args = k.args
        /\ l.meta = k.meta /\ l.seen = k.seen
    BY <1>1, <1>3 DEF IsCall, CallFields, Mutating
  <1>5. Moves(k, l)
    BY <1>2, <1>4 DEF Moves
  <1>6. Shapes'
    BY <1>2, <1>3, <1>5, MoveKeepsShapes DEF Shapes, IsListing
  <1>7. EditsInv'
    <2>1. ToldArrives'
      BY <1>2, <1>3, <1>4, <1>5, MoveBrings DEF EditsInv, ToldArrives
    <2>2. GoneForGood'
      BY <1>2, <1>3 DEF EditsInv, GoneForGood
    <2> QED
      BY <1>3, <1>5, <2>1, <2>2, MoveKeepsEdits
  <1>8. DrawInv'
    <2>1. failures' > 0 /\ (failures > 0 => failures' > 1)
      BY <1>2, <1>3
    <2>2. \A j \in calls' : FailedRead(j) => j \in calls \/ j = l
      BY <1>2 DEF Becomes
    <2>3. FailuresCount'
      BY <1>3, <2>1, <2>2 DEF DrawInv, FailuresCount
    <2>4. \A S : Reading(k, S) <=> Reading(l, S)
      BY <1>4 DEF Reading
    <2>5. \A S : (\E j \in calls : Reading(j, S)) <=> \E j \in calls' : Reading(j, S)
      BY <1>2, <2>4 DEF Becomes
    <2>6. Undrawn' => Undrawn
      BY <1>2, <2>5 DEF Undrawn
    <2>7. ListingFailed => ListingFailed'
      BY <1>2, <2>1, <1>3 DEF ListingFailed
    <2>8. UndrawnIsExplained'
      BY <1>3, <2>1, <2>5, <2>6, <2>7 DEF DrawInv, UndrawnIsExplained
    <2> QED
      BY <2>3, <2>8 DEF DrawInv
  <1>9. KnowInv'
    <2>1. l.tool = "refresh" => l.seen <= version
      BY <1>3, <1>4 DEF KnowInv, ReadingsFit, ReadingFits
    <2> QED
      BY <1>2, <1>3, <1>4, <1>5, <2>1, MoveKeepsKnow
  <1> QED
    BY <1>3, <1>5, <1>6, <1>7, <1>8, <1>9, MoveKeepsOverlays DEF CardInv

LEMMA RunListEventsKeeps == ASSUME CardInv, NEW k \in calls, runListEvents(k) PROVE CardInv'
  <1>1. PICK l : l = [k EXCEPT !.at = "answered", !.events = Listed(Args(k)), !.seen = version]
    OBVIOUS
  <1>2. /\ k.at = "sent" /\ k.tool = "refresh" /\ calls' = Becomes(k, l) /\ failures' = failures
        /\ UNCHANGED <<card, list, gone, mix, gestures, outside, version, newest, unsure, told, freed>>
    BY <1>1 DEF runListEvents, cardVars, At
  <1>3. /\ Shapes /\ OverlaysCarried /\ EditsInv /\ DrawInv /\ KnowInv
        /\ IsCall(k) /\ failures \in Nat /\ version \in Nat
    BY DEF CardInv, Shapes
  <1>4. /\ k = [f \in CallFields |-> k[f]]
        /\ l.at = "answered" /\ l.seen = version /\ l.events = Listed(Args(k))
        /\ l.tool = k.tool /\ l.id = k.id /\ l.cont = k.cont /\ l.n = k.n /\ l.args = k.args
        /\ l.meta = k.meta /\ l = [f \in CallFields |-> l[f]]
    BY <1>1, <1>3 DEF IsCall, CallFields
  <1>5. IsCall(l)
    BY <1>2, <1>3, <1>4 DEF IsCall, Mutating
  <1>6. Moves(k, l)
    BY <1>2, <1>4, <1>5 DEF Moves
  <1>7. Shapes'
    BY <1>2, <1>3, <1>6, MoveKeepsShapes DEF Shapes, IsListing
  <1>8. EditsInv'
    <2>1. \A i, f : ~Brings(k, i, f)
      BY <1>2 DEF Brings, IsEdit
    <2>2. ToldArrives'
      BY <1>2, <1>3, <1>6, <2>1, MoveBrings DEF EditsInv, ToldArrives
    <2>3. GoneForGood'
      BY <1>2, <1>3 DEF EditsInv, GoneForGood
    <2> QED
      BY <1>3, <1>6, <2>2, <2>3, MoveKeepsEdits
  <1>9. DrawInv'
    BY <1>2, <1>3, <1>4, <1>6, MoveKeepsDraw
  <1>10. KnowInv'
    <2>1. Args(l) = Args(k)
      BY <1>4 DEF Args
    <2>2. l.events = Listed(Args(l))
      BY <1>4, <2>1
    <2> QED
      BY <1>2, <1>3, <1>4, <1>6, <2>2, MoveKeepsKnow
  <1> QED
    BY <1>3, <1>6, <1>7, <1>8, <1>9, <1>10, MoveKeepsOverlays DEF CardInv

(* A tool that finds nothing to change answers with an error.              *)
LEMMA ToolFailing ==
    ASSUME CardInv, NEW k \in calls, k.at = "sent", k.tool \in Mutating,
           calls' = Advance(k, "failed"), UNCHANGED <<cardVars, failures>>
    PROVE  CardInv'
  <1>1. PICK l : l = [k EXCEPT !.at = "failed"]
    OBVIOUS
  <1>2. /\ calls' = Becomes(k, l)
        /\ UNCHANGED <<card, list, gone, mix, gestures, outside, version, newest, unsure, told, freed,
                       failures>>
    BY <1>1 DEF Advance, cardVars
  <1>3. /\ Shapes /\ OverlaysCarried /\ EditsInv /\ DrawInv /\ KnowInv
        /\ IsCall(k) /\ failures \in Nat /\ version \in Nat
    BY DEF CardInv, Shapes
  <1>4. /\ IsCall(l) /\ l.at = "failed"
        /\ l.tool = k.tool /\ l.id = k.id /\ l.cont = k.cont /\ l.n = k.n /\ l.args = k.args
        /\ l.meta = k.meta /\ l.tool # "refresh"
    BY <1>1, <1>3 DEF IsCall, CallFields, Mutating
  <1>5. Moves(k, l)
    BY <1>2, <1>4 DEF Moves
  <1>6. Shapes'
    BY <1>2, <1>3, <1>5, MoveKeepsShapes DEF Shapes, IsListing
  <1>7. EditsInv'
    <2>1. ToldArrives'
      BY <1>2, <1>3, <1>4, <1>5, MoveBrings DEF EditsInv, ToldArrives
    <2>2. GoneForGood'
      BY <1>2, <1>3 DEF EditsInv, GoneForGood
    <2> QED
      BY <1>3, <1>5, <2>1, <2>2, MoveKeepsEdits
  <1>8. DrawInv'
    BY <1>2, <1>3, <1>4, <1>5, MoveKeepsDraw
  <1>9. KnowInv'
    BY <1>2, <1>3, <1>4, <1>5, MoveKeepsKnow
  <1> QED
    BY <1>3, <1>5, <1>6, <1>7, <1>8, <1>9, MoveKeepsOverlays DEF CardInv

(* A tool that changes the list: its answer says so.                       *)
LEMMA ToolChanging ==
    ASSUME CardInv, NEW k, k.tool \in Mutating, NEW l, Moves(k, l), l.meta # NoMeta,
           version' = version + 1, failures' = failures,
           IsListing(list'), ToldArrives', GoneForGood'
    PROVE  CardInv'
  <1>1. /\ Shapes /\ OverlaysCarried /\ EditsInv /\ DrawInv /\ KnowInv
        /\ failures \in Nat /\ version \in Nat /\ version' \in Nat
    BY DEF CardInv, Shapes
  <1>2. l.tool \in Mutating /\ k.tool # "refresh" /\ l.tool # "refresh"
    BY DEF Moves, Mutating
  <1>3. Shapes'
    BY <1>1, MoveKeepsShapes
  <1>4. EditsInv'
    BY <1>1, MoveKeepsEdits
  <1>5. DrawInv'
    BY <1>1, <1>2, MoveKeepsDraw
  <1>6. KnowInv'
    <2>1. /\ \A j \in calls : j.tool = "refresh" => j \in calls'
          /\ \A j \in calls' : j.tool = "refresh" => j \in calls
          /\ \E j \in calls' : j.tool \in Mutating /\ j.meta # NoMeta
          /\ UNCHANGED <<card, gestures, newest, unsure, outside>>
      BY <1>2 DEF Moves, Becomes
    <2> QED
      BY <1>1, <2>1, NewVersionKeepsKnow
  <1> QED
    BY <1>1, <1>3, <1>4, <1>5, <1>6, MoveKeepsOverlays DEF CardInv

(* An event with some of its parts changed.                                *)
LEMMA ChangedEvent ==
    ASSUME NEW ev, IsEvent(ev), NEW change, IsChange(change), NEW e, e = change @@ ev
    PROVE  /\ IsEvent(e)
           /\ \A f \in {"day", "title"} : e[f] = IF f \in DOMAIN change THEN change[f] ELSE ev[f]
  BY DEF IsEvent, IsChange, Ev, @@

LEMMA UpdateEventKeeps == ASSUME CardInv, NEW k \in calls, updateEvent(k) PROVE CardInv'
  <1>1. CASE k.id \notin DOMAIN list
    BY <1>1, ToolFailing DEF updateEvent, At, Mutating, toolVars, cardVars
  <1>2. CASE k.id \in DOMAIN list
    <2>1. PICK l : l = [k EXCEPT !.at = "done", !.meta.changed = TRUE]
      OBVIOUS
    <2>2. PICK e : e = k.arg @@ list[k.id]
      OBVIOUS
    <2>3. /\ k.at = "sent" /\ k.tool = "edit" /\ calls' = Becomes(k, l)
          /\ list' = [list EXCEPT ![k.id] = e] /\ version' = version + 1
          /\ UNCHANGED <<card, mix, gestures, outside, newest, unsure, told, freed, failures, gone>>
      BY <1>2, <2>1, <2>2 DEF updateEvent, At, toolVars
    <2>4. Shapes /\ EditsInv /\ IsCall(k) /\ IsChange(k.arg) /\ IsListing(list)
      BY <2>3 DEF CardInv, Shapes, IsCall
    <2>5. /\ l.at = "done" /\ l.meta.changed = TRUE
          /\ l.meta = [added |-> l.meta.added, changed |-> l.meta.changed]
          /\ l.tool = k.tool /\ l.id = k.id /\ l.cont = k.cont /\ l.n = k.n /\ l.args = k.args
          /\ l.arg = k.arg /\ l = [f \in CallFields |-> l[f]]
      BY <2>1, <2>4 DEF IsCall, CallFields
    <2>6. IsCall(l) /\ l.meta # NoMeta
      BY <2>3, <2>4, <2>5 DEF IsCall, Mutating, NoMeta
    <2>7. Moves(k, l)
      BY <2>3, <2>5, <2>6 DEF Moves
    <2>8. /\ IsEvent(e)
          /\ \A f \in {"day", "title"} : e[f] = IF f \in DOMAIN k.arg THEN k.arg[f] ELSE list[k.id][f]
      BY <1>2, <2>2, <2>4, ChangedEvent DEF IsListing
    <2>9. IsListing(list')
      BY <2>3, <2>4, <2>8 DEF IsListing
    <2>10. ToldArrives'
      <3>1. ASSUME outside = 0, NEW i \in DOMAIN told \ (freed \cup gone), NEW f \in DOMAIN told[i]
            PROVE  \/ i \in DOMAIN list' /\ list'[i][f] = told[i][f]
                   \/ \E j \in calls' : Brings(j, i, f)'
        <4>1. f \in {"day", "title"}
          BY <2>4, <3>1 DEF Shapes, IsChange
        <4>2. \/ i \in DOMAIN list /\ list[i][f] = told[i][f]
              \/ \E j \in calls : Brings(j, i, f)
          BY <2>4, <3>1 DEF EditsInv, ToldArrives
        <4>3. ASSUME i = k.id, f \in DOMAIN k.arg PROVE k.arg[f] = told[i][f]
          BY <2>3, <2>4, <3>1, <4>3 DEF EditsInv, SentAsTold
        <4>4. CASE i \in DOMAIN list /\ list[i][f] = told[i][f]
          BY <2>3, <2>8, <4>1, <4>3, <4>4
        <4>5. ASSUME NEW j \in calls, Brings(j, i, f), j # k PROVE \E m \in calls' : Brings(m, i, f)'
          BY <2>7, <4>5, MoveBrings
        <4>6. CASE Brings(k, i, f)
          BY <1>2, <2>3, <2>8, <4>1, <4>6 DEF Brings, IsEdit
        <4> QED
          BY <4>2, <4>4, <4>5, <4>6
      <3> QED
        BY <2>3, <3>1 DEF ToldArrives
    <2>11. GoneForGood'
      BY <2>3, <2>4 DEF EditsInv, GoneForGood
    <2>12. k.tool \in Mutating /\ version' = version + 1 /\ failures' = failures
      BY <2>3 DEF Mutating
    <2> QED
      BY <2>6, <2>7, <2>9, <2>10, <2>11, <2>12, ToolChanging
  <1> QED
    BY <1>1, <1>2

LEMMA DeleteEventToolKeeps == ASSUME CardInv, NEW k \in calls, deleteEventTool(k) PROVE CardInv'
  <1>1. CASE k.id \notin DOMAIN list
    BY <1>1, ToolFailing DEF deleteEventTool, At, Mutating, toolVars, cardVars
  <1>2. CASE k.id \in DOMAIN list
    <2>1. PICK l : l = [k EXCEPT !.at = "done", !.meta.changed = TRUE]
      OBVIOUS
    <2>3. /\ k.at = "sent" /\ k.tool = "delete" /\ calls' = Becomes(k, l)
          /\ list' = Without(list, {k.id}) /\ gone' = gone \cup {k.id} /\ version' = version + 1
          /\ UNCHANGED <<card, mix, gestures, outside, newest, unsure, told, freed, failures>>
      BY <1>2, <2>1 DEF deleteEventTool, At, toolVars
    <2>4. Shapes /\ EditsInv /\ IsCall(k) /\ IsListing(list)
      BY <2>3 DEF CardInv, Shapes
    <2>5. /\ l.at = "done" /\ l.meta.changed = TRUE
          /\ l.meta = [added |-> l.meta.added, changed |-> l.meta.changed]
          /\ l.tool = k.tool /\ l.id = k.id /\ l.cont = k.cont /\ l.n = k.n /\ l.args = k.args
          /\ l.arg = k.arg /\ l = [f \in CallFields |-> l[f]]
      BY <2>1, <2>4 DEF IsCall, CallFields
    <2>6. IsCall(l) /\ l.meta # NoMeta
      BY <2>3, <2>4, <2>5 DEF IsCall, Mutating, NoMeta
    <2>7. Moves(k, l)
      BY <2>3, <2>5, <2>6 DEF Moves
    <2>8. \A i \in DOMAIN list \ {k.id} : i \in DOMAIN list' /\ list'[i] = list[i]
      BY <2>3 DEF Without
    <2>9. IsListing(list') /\ DOMAIN list' = DOMAIN list \ {k.id}
      BY <2>3, <2>4 DEF IsListing, Without
    <2>10. ToldArrives'
      <3>1. ASSUME outside = 0, NEW i \in DOMAIN told \ (freed \cup gone'), NEW f \in DOMAIN told[i]
            PROVE  \/ i \in DOMAIN list' /\ list'[i][f] = told[i][f]
                   \/ \E j \in calls' : Brings(j, i, f)'
        <4>1. i # k.id /\ i \notin gone
          BY <2>3, <3>1
        <4>2. \/ i \in DOMAIN list /\ list[i][f] = told[i][f]
              \/ \E j \in calls : Brings(j, i, f)
          BY <2>4, <3>1, <4>1 DEF EditsInv, ToldArrives
        <4>3. ASSUME NEW j \in calls, Brings(j, i, f) PROVE \E m \in calls' : Brings(m, i, f)'
          BY <2>3, <2>7, <4>3, MoveBrings DEF Brings, IsEdit
        <4> QED
          BY <2>8, <4>1, <4>2, <4>3
      <3> QED
        BY <2>3, <3>1 DEF ToldArrives
    <2>11. GoneForGood'
      BY <2>3, <2>4, <2>9 DEF EditsInv, GoneForGood
    <2> QED
      BY <2>3, <2>6, <2>7, <2>9, <2>10, <2>11, ToolChanging DEF Mutating
  <1> QED
    BY <1>1, <1>2

LEMMA CreateEventKeeps == ASSUME CardInv, NEW k \in calls, createEvent(k) PROVE CardInv'
  <1>1. PICK i \in Events \ (DOMAIN list \cup gone) :
            list' = (i :> k.arg) @@ list
            /\ calls' = Becomes(k, [k EXCEPT !.at = "done", !.meta.added = (i :> k.arg)])
    BY DEF createEvent
  <1>2. PICK l : l = [k EXCEPT !.at = "done", !.meta.added = (i :> k.arg)]
    OBVIOUS
  <1>3. /\ k.at = "sent" /\ k.tool = "create" /\ calls' = Becomes(k, l) /\ version' = version + 1
        /\ UNCHANGED <<card, mix, gestures, outside, newest, unsure, told, freed, failures, gone>>
    BY <1>1, <1>2 DEF createEvent, At, toolVars
  <1>4. Shapes /\ EditsInv /\ IsCall(k) /\ IsListing(list) /\ IsEvent(k.arg)
    BY <1>3 DEF CardInv, Shapes, IsCall
  <1>5. /\ l.at = "done" /\ l.meta.added = (i :> k.arg)
        /\ l.meta = [added |-> l.meta.added, changed |-> l.meta.changed]
        /\ l.tool = k.tool /\ l.id = k.id /\ l.cont = k.cont /\ l.n = k.n /\ l.args = k.args
        /\ l.arg = k.arg /\ l = [f \in CallFields |-> l[f]]
    BY <1>2, <1>4 DEF IsCall, CallFields
  <1>6. IsCall(l)
    BY <1>3, <1>4, <1>5 DEF IsCall, Mutating
  <1>7. l.meta # NoMeta
    <2>1. i \in DOMAIN l.meta.added
      BY <1>5 DEF :>
    <2>2. DOMAIN NoMeta.added = {}
      BY DEF NoMeta, Empty
    <2> QED
      BY <2>1, <2>2
  <1>8. Moves(k, l)
    BY <1>3, <1>5, <1>6 DEF Moves
  <1>9. /\ DOMAIN list' = DOMAIN list \cup {i}
        /\ list'[i] = k.arg /\ \A j \in DOMAIN list : list'[j] = list[j]
    BY <1>1 DEF :>, @@
  <1>10. IsListing(list')
    BY <1>4, <1>9 DEF IsListing
  <1>11. ToldArrives'
    <2>1. ASSUME NEW j \in calls, NEW h, NEW f, Brings(j, h, f) PROVE \E m \in calls' : Brings(m, h, f)'
      BY <1>3, <1>8, <2>1, MoveBrings DEF Brings, IsEdit
    <2> QED
      BY <1>3, <1>4, <1>9, <2>1 DEF EditsInv, ToldArrives
  <1>12. GoneForGood'
    BY <1>3, <1>4, <1>9 DEF EditsInv, GoneForGood
  <1> QED
    BY <1>3, <1>7, <1>8, <1>10, <1>11, <1>12, ToolChanging DEF Mutating

(* Other clients: their changes are not what the user was told.            *)
LEMMA ElsewhereKeeps == ASSUME CardInv, NEW i, Elsewhere(i) PROVE CardInv'
  <1>1. /\ Shapes /\ OverlaysCarried /\ EditsInv /\ DrawInv /\ KnowInv /\ IsListing(list)
        /\ outside \in Nat /\ version \in Nat
    BY DEF CardInv, Shapes
  <1>2. /\ outside' = outside + 1 /\ version' = version + 1 /\ outside' # 0
        /\ outside' \in Nat /\ version' \in Nat
        /\ UNCHANGED <<card, mix, gestures, newest, unsure, told, freed, calls, failures>>
    BY <1>1 DEF Elsewhere, callVars
  <1>3. /\ IsListing(list') /\ DOMAIN list' \subseteq DOMAIN list
        /\ gone' = gone \/ (i \notin DOMAIN list' /\ gone' = gone \cup {i})
    <2>1. CASE \E d \in Days : list' = [list EXCEPT ![i].day = d] /\ UNCHANGED gone
      <3>1. PICK d : list' = [list EXCEPT ![i].day = d] /\ UNCHANGED gone
        BY <2>1
      <3>2. PICK e : e = [list[i] EXCEPT !.day = d]
        OBVIOUS
      <3>3. i \in DOMAIN list /\ IsEvent(list[i])
        BY <1>1 DEF IsListing, Elsewhere
      <3>4. IsEvent(e)
        BY <3>2, <3>3 DEF IsEvent, Ev
      <3>5. list' = [list EXCEPT ![i] = e]
        BY <3>1, <3>2
      <3> QED
        BY <1>1, <3>1, <3>4, <3>5 DEF IsListing
    <2>2. CASE list' = Without(list, {i}) /\ gone' = gone \cup {i}
      BY <1>1, <2>2 DEF IsListing, Without
    <2> QED
      BY <2>1, <2>2 DEF Elsewhere
  <1>4. Shapes'
    BY <1>1, <1>2, <1>3 DEF Shapes
  <1>5. OverlaysCarried'
    BY <1>1, <1>2 DEF OverlaysCarried
  <1>6. EditsInv'
    <2>1. OneEditAtATime' /\ SentAsTold'
      BY <1>1, <1>2 DEF EditsInv, OneEditAtATime, SentAsTold
    <2>2. ToldArrives'
      BY <1>2 DEF ToldArrives
    <2>3. GoneForGood'
      BY <1>1, <1>3 DEF EditsInv, GoneForGood
    <2> QED
      BY <2>1, <2>2, <2>3 DEF EditsInv
  <1>7. DrawInv'
    BY <1>1, <1>2 DEF DrawInv, UndrawnIsExplained, FailuresCount, Undrawn, ListingFailed
  <1>8. KnowInv'
    BY <1>1, <1>2, NewVersionKeepsKnow
  <1> QED
    BY <1>4, <1>5, <1>6, <1>7, <1>8 DEF CardInv

-----------------------------------------------------------------------------
(* Gestures that send something.                                           *)

Frame == /\ gestures' = gestures + 1
         /\ UNCHANGED <<list, gone, mix, outside, version, newest, unsure, freed, failures>>

LEMMA NewCallIsCall ==
    ASSUME NEW tool \in Mutating, NEW i, NEW arg,
           tool \in {"edit", "delete"} => i \notin Temps,
           tool = "edit" => IsChange(arg),
           tool = "create" => i \in Temps /\ IsEvent(arg),
           NEW k, k = NewCall(tool, i, arg)
    PROVE  /\ IsCall(k) /\ k.tool = tool /\ k.id = i /\ k.arg = arg /\ k.at = "sent"
           /\ k.tool # "refresh"
  <1>1. /\ k = [f \in CallFields |-> k[f]] /\ k.meta = NoMeta
        /\ k.tool = tool /\ k.id = i /\ k.arg = arg /\ k.at = "sent"
    BY DEF NewCall, CallFields
  <1>2. NoMeta = [added |-> NoMeta.added, changed |-> NoMeta.changed]
    BY DEF NoMeta
  <1> QED
    BY <1>1, <1>2 DEF IsCall, Mutating

(* What a handler lays over the list for the call it sends.                *)
Mine(k, tool) == IF k.tool = tool THEN {k.id} ELSE {}

Lays(c, d, k) ==
    /\ d.pending = c.pending \cup {k.id}
    /\ d.deletes \subseteq c.deletes \cup Mine(k, "delete")
    /\ DOMAIN d.edits \subseteq DOMAIN c.edits \cup Mine(k, "edit")
    /\ d.editing \subseteq c.editing \cup Mine(k, "edit")
    /\ DOMAIN d.rows \subseteq DOMAIN c.rows \cup Mine(k, "create")

SendStep(k) ==
    /\ IsCall(k) /\ k.tool \in Mutating /\ k.at = "sent" /\ k.tool # "refresh"
    /\ calls' = calls \cup {k}
    /\ IsCard(card') /\ IsDrawn(card') /\ SameView(card, card') /\ Lays(card, card', k)
    /\ Frame

LEMMA SendKeepsOverlays == ASSUME OverlaysCarried, NEW k, SendStep(k) PROVE OverlaysCarried'
  <1>1. \A tool, i : Under(calls, tool, i) => Under(calls', tool, i)
    BY DEF Under, SendStep
  <1>2. Under(calls', k.tool, k.id)
    BY DEF Under, SendStep
  <1>3. Carried(card', calls')
    BY <1>1, <1>2 DEF OverlaysCarried, Carried, SendStep, Lays, Mine
  <1> QED
    BY <1>3 DEF OverlaysCarried

LEMMA SendKeepsKnow == ASSUME Shapes, KnowInv, NEW k, SendStep(k) PROVE KnowInv'
  <1>1. PICK g \in 0..gestures : ReadingsFit(g)
    BY DEF KnowInv
  <1>2. /\ calls' = calls \cup {k} /\ k.tool # "refresh" /\ gestures' = gestures + 1
        /\ UNCHANGED <<list, outside, version, newest, unsure>>
        /\ gestures \in Nat /\ newest.n \in Nat
    BY DEF SendStep, Frame, Shapes
  <1>3. SameView(card, card') /\ (allCalendarsHidden(card') <=> allCalendarsHidden(card))
    BY DEF SendStep, SameView, allCalendarsHidden
  <1>4. \A args : Listed(args)' = Listed(args)
    BY <1>2 DEF Listed
  <1>5. ASSUME NEW m \in calls' PROVE ReadingFits(m, g)'
    <2>1. CASE m.tool = "refresh"
      <3>1. ReadingFits(m, g) /\ m.n \in Nat
        BY <1>1, <1>2, <2>1 DEF ReadingsFit, Shapes, IsCall
      <3> QED
        BY <1>2, <1>3, <1>4, <2>1, <3>1 DEF ReadingFits, SameView
    <2>2. CASE m.tool # "refresh"
      BY <2>2 DEF ReadingFits
    <2> QED
      BY <2>1, <2>2
  <1>6. (\E m \in calls : WillTell(m)) => \E m \in calls' : WillTell(m)'
    BY <1>2 DEF WillTell
  <1>7. card.confirmed = View(card) => card'.confirmed = View(card)'
    BY <1>2, <1>3 DEF View, SameView
  <1>8. newest.n <= gestures'
    BY <1>1, <1>2 DEF ReadingsFit
  <1>9. ReadingsFit(g)'
    BY <1>1, <1>2, <1>3, <1>5, <1>6, <1>7, <1>8 DEF ReadingsFit, SameView
  <1>10. g \in 0..gestures'
    BY <1>2
  <1> QED
    BY <1>9, <1>10 DEF KnowInv

LEMMA SendKeepsCard ==
    ASSUME CardInv, NEW k, SendStep(k), EditsInv', \A i \in DOMAIN told' : IsChange(told'[i])
    PROVE  CardInv'
  <1>1. Shapes /\ OverlaysCarried /\ DrawInv /\ KnowInv
    BY DEF CardInv
  <1>2. Shapes'
    BY <1>1 DEF Shapes, SendStep, Frame, IsListing
  <1>3. DrawInv'
    <2>1. \A m \in calls' : FailedRead(m) => m \in calls
      BY DEF SendStep, FailedRead
    <2> QED
      BY <1>1, <2>1, DrawingKeepsDraw DEF SendStep, Frame
  <1> QED
    BY <1>1, <1>2, <1>3, SendKeepsOverlays, SendKeepsKnow DEF CardInv

(* Sending a deletion or a creation asks for nothing of an edit.           *)
LEMMA SendKeepsEdits ==
    ASSUME EditsInv, NEW k, SendStep(k), k.tool # "edit", DOMAIN told' \subseteq DOMAIN told,
           \A i \in DOMAIN told' : told'[i] = told[i]
    PROVE  EditsInv'
  <1>1. OneEditAtATime'
    BY DEF EditsInv, OneEditAtATime, IsEdit, SendStep, Frame, Lays
  <1>2. SentAsTold'
    BY DEF EditsInv, SentAsTold, SendStep, Frame
  <1>3. ASSUME NEW m \in calls, NEW i \in DOMAIN told', NEW f, Brings(m, i, f)
        PROVE  m \in calls' /\ Brings(m, i, f)'
    BY <1>3 DEF Brings, SendStep
  <1>4. ToldArrives'
    BY <1>3 DEF EditsInv, ToldArrives, SendStep, Frame
  <1>5. GoneForGood'
    BY DEF EditsInv, GoneForGood, SendStep, Frame
  <1> QED
    BY <1>1, <1>2, <1>4, <1>5 DEF EditsInv

(* An edit goes out when the event has nothing else under way.             *)
LEMMA SendEditKeepsEdits ==
    ASSUME EditsInv, NEW k, SendStep(k), k.tool = "edit", k.id \notin card.pending,
           k.id \in DOMAIN told',
           \A f \in DOMAIN k.arg : f \in DOMAIN told'[k.id] /\ told'[k.id][f] = k.arg[f],
           \A f \in DOMAIN told'[k.id] \ DOMAIN k.arg :
               k.id \in DOMAIN told /\ f \in DOMAIN told[k.id] /\ told'[k.id][f] = told[k.id][f],
           \A i \in DOMAIN told' \ {k.id} : i \in DOMAIN told /\ told'[i] = told[i]
    PROVE  EditsInv'
  <1>1. \A j \in calls : j.tool = "edit" /\ j.id \notin freed => j.id # k.id
    BY DEF EditsInv, OneEditAtATime
  <1>2. /\ calls' = calls \cup {k} /\ card'.pending = card.pending \cup {k.id}
        /\ UNCHANGED <<list, gone, freed, outside>> /\ k.at = "sent"
    BY DEF SendStep, Frame, Lays
  <1>3. OneEditAtATime'
    BY <1>1, <1>2 DEF EditsInv, OneEditAtATime, IsEdit
  <1>4. SentAsTold'
    <2>1. ASSUME NEW j \in calls', j.tool = "edit", j.at = "sent", j.id \in DOMAIN told' \ freed,
                 NEW f \in DOMAIN j.arg \cap DOMAIN told'[j.id]
          PROVE  j.arg[f] = told'[j.id][f]
      <3>1. CASE j = k
        BY <2>1, <3>1
      <3>2. CASE j \in calls
        BY <1>1, <2>1, <3>2 DEF EditsInv, SentAsTold
      <3> QED
        BY <1>2, <3>1, <3>2
    <2> QED
      BY <1>2, <2>1 DEF SentAsTold
  <1>5. ToldArrives'
    <2>1. ASSUME outside = 0, NEW i \in DOMAIN told' \ (freed \cup gone), NEW f \in DOMAIN told'[i]
          PROVE  \/ i \in DOMAIN list /\ list[i][f] = told'[i][f]
                 \/ \E j \in calls' : Brings(j, i, f)'
      <3>1. CASE i = k.id /\ f \in DOMAIN k.arg
        <4>1. Brings(k, i, f)'
          BY <1>2, <3>1 DEF Brings, IsEdit
        <4> QED
          BY <1>2, <4>1
      <3>2. CASE ~(i = k.id /\ f \in DOMAIN k.arg)
        <4>1. i \in DOMAIN told /\ f \in DOMAIN told[i] /\ told'[i][f] = told[i][f]
          BY <2>1, <3>2
        <4>2. \/ i \in DOMAIN list /\ list[i][f] = told[i][f]
              \/ \E j \in calls : Brings(j, i, f)
          BY <2>1, <4>1 DEF EditsInv, ToldArrives
        <4>3. ASSUME NEW j \in calls, Brings(j, i, f) PROVE j \in calls' /\ Brings(j, i, f)'
          BY <1>2, <4>1, <4>3 DEF Brings
        <4> QED
          BY <4>1, <4>2, <4>3
      <3> QED
        BY <3>1, <3>2
    <2> QED
      BY <1>2, <2>1 DEF ToldArrives
  <1>6. GoneForGood'
    BY <1>2 DEF EditsInv, GoneForGood
  <1> QED
    BY <1>3, <1>4, <1>5, <1>6 DEF EditsInv

(* Each of the three handlers marks the row, clears the banner and draws.  *)
LEMMA Commits ==
    ASSUME NEW b, IsCard(b), NEW i,
           NEW d, d = showRebuilt(clearBanner(startCommitting(b, i)))
    PROVE  /\ IsCard(d) /\ IsDrawn(d)
           /\ d.pending = b.pending \cup {i} /\ d.deletes = b.deletes /\ d.rows = b.rows
           /\ d.edits = b.edits /\ d.editing = b.editing
           /\ SameView(b, d)
  <1>1. PICK c : c = startCommitting(b, i)
    OBVIOUS
  <1>2. /\ IsCard(c) /\ c.pending = b.pending \cup {i}
        /\ \A f \in CardFields \ {"pending", "timers"} : c[f] = b[f]
    BY <1>1 DEF startCommitting, IsCard, CardFields
  <1>3. IsCard(clearBanner(c)) /\ SameCore(c, clearBanner(c))
    BY <1>2, ClearBanner
  <1>4. IsCard(d) /\ SameCore(clearBanner(c), d) /\ IsDrawn(d)
    BY <1>1, <1>3, ShowRebuilt
  <1>5. SameCore(c, d)
    BY <1>3, <1>4, SameCoreTransitive
  <1> QED
    BY <1>2, <1>4, <1>5 DEF SameCore, CoreFields, CardFields, SameView

LEMMA SaveEditKeeps ==
    ASSUME CardInv, NEW c, IsCard(c), SameCore(card, c), NEW i, i \notin Temps,
           NEW change, IsChange(change), free(c, i), SaveEdit(c, i, change), Frame
    PROVE  CardInv'
  <1>1. PICK b : b = [c EXCEPT !.edits = (i :> change) @@ @,
                                  !.editing = IF i \in Recurring /\ "day" \in DOMAIN change
                                              THEN @ \cup {i} ELSE @]
    OBVIOUS
  <1>2. PICK k : k = NewCall("edit", i, change)
    OBVIOUS
  <1>3. /\ card' = showRebuilt(clearBanner(startCommitting(b, i))) /\ calls' = calls \cup {k}
        /\ told' = (i :> (change @@ IF i \in DOMAIN told THEN told[i] ELSE Empty)) @@ told
    BY <1>1, <1>2 DEF SaveEdit
  <1>4. IsCall(k) /\ k.tool = "edit" /\ k.id = i /\ k.arg = change /\ k.at = "sent" /\ k.tool # "refresh"
    BY <1>2, NewCallIsCall DEF Mutating
  <1>5. /\ IsCard(b) /\ DOMAIN b.edits = DOMAIN c.edits \cup {i} /\ b.editing \subseteq c.editing \cup {i}
        /\ \A f \in CardFields \ {"edits", "editing"} : b[f] = c[f]
    BY <1>1 DEF IsCard, CardFields, :>, @@
  <1>6. /\ IsCard(card') /\ IsDrawn(card')
        /\ card'.pending = b.pending \cup {i} /\ card'.deletes = b.deletes /\ card'.rows = b.rows
        /\ card'.edits = b.edits /\ card'.editing = b.editing
        /\ SameView(b, card')
    BY <1>3, <1>5, Commits
  <1>7. SameView(card, card') /\ Lays(card, card', k)
    BY <1>4, <1>5, <1>6 DEF SameView, Lays, Mine, CardFields, SameCore, CoreFields
  <1>8. SendStep(k)
    BY <1>3, <1>4, <1>6, <1>7 DEF SendStep, Mutating
  <1>9. PICK before : before = IF i \in DOMAIN told THEN told[i] ELSE Empty
    OBVIOUS
  <1>10. PICK now : now = change @@ before
    OBVIOUS
  <1>11. told' = (i :> now) @@ told
    BY <1>3, <1>9, <1>10
  <1>12. DOMAIN Empty = {}
    BY DEF Empty
  <1>13. /\ DOMAIN now = DOMAIN change \cup DOMAIN before
         /\ \A f \in DOMAIN change : now[f] = change[f]
         /\ \A f \in DOMAIN now \ DOMAIN change : f \in DOMAIN before /\ now[f] = before[f]
    BY <1>10 DEF @@
  <1>14. /\ DOMAIN told' = DOMAIN told \cup {i} /\ told'[i] = now
         /\ \A j \in DOMAIN told' \ {i} : j \in DOMAIN told /\ told'[j] = told[j]
    BY <1>11 DEF @@, :>
  <1>15. /\ \A f \in DOMAIN k.arg : f \in DOMAIN told'[i] /\ told'[i][f] = k.arg[f]
         /\ \A f \in DOMAIN told'[i] \ DOMAIN k.arg :
               i \in DOMAIN told /\ f \in DOMAIN told[i] /\ told'[i][f] = told[i][f]
    BY <1>4, <1>9, <1>12, <1>13, <1>14
  <1>16. \A j \in DOMAIN told : IsChange(told[j])
    BY DEF CardInv, Shapes
  <1>17. \A j \in DOMAIN told' : IsChange(told'[j])
    BY <1>9, <1>12, <1>13, <1>14, <1>16 DEF IsChange
  <1>18. i \notin card.pending
    BY DEF free, SameCore, CoreFields
  <1>19. EditsInv'
    BY <1>4, <1>8, <1>14, <1>15, <1>18, SendEditKeepsEdits DEF CardInv
  <1> QED
    BY <1>8, <1>17, <1>19, SendKeepsCard

LEMMA StartDeleteKeeps ==
    ASSUME CardInv, NEW c, IsCard(c), SameCore(card, c), NEW i, i \notin Temps,
           card' = StartDelete(c, i), calls' = calls \cup {NewCall("delete", i, Empty)},
           told' = Without(told, {i}), Frame
    PROVE  CardInv'
  <1>1. PICK k : k = NewCall("delete", i, Empty)
    OBVIOUS
  <1>2. PICK b : b = [c EXCEPT !.deletes = @ \cup {i}]
    OBVIOUS
  <1>3. PICK c1 : c1 = startCommitting(b, i)
    OBVIOUS
  <1>4. IsCall(k) /\ k.tool = "delete" /\ k.id = i /\ k.at = "sent" /\ k.tool # "refresh"
    BY <1>1, NewCallIsCall DEF Mutating
  <1>5. /\ IsCard(b) /\ b.deletes = c.deletes \cup {i}
        /\ \A f \in CardFields \ {"deletes"} : b[f] = c[f]
    BY <1>2 DEF IsCard, CardFields
  <1>6. /\ IsCard(c1) /\ c1.pending = b.pending \cup {i}
        /\ \A f \in CardFields \ {"pending", "timers"} : c1[f] = b[f]
    BY <1>3, <1>5 DEF startCommitting, IsCard, CardFields
  <1>7. PICK e : e = IF c1.sheet = i THEN closeSheet(c1) ELSE c1
    OBVIOUS
  <1>8. IsCard(e) /\ SameCore(c1, e)
    BY <1>6, <1>7, CloseSheet DEF SameCore
  <1>9. card' = showRebuilt(clearBanner(e))
    BY <1>2, <1>3, <1>7 DEF StartDelete
  <1>10. IsCard(clearBanner(e)) /\ SameCore(e, clearBanner(e))
    BY <1>8, ClearBanner
  <1>11. IsCard(card') /\ SameCore(clearBanner(e), card') /\ IsDrawn(card')
    BY <1>9, <1>10, ShowRebuilt
  <1>12. SameCore(c1, card')
    BY <1>8, <1>10, <1>11, SameCoreTransitive
  <1>13. SameView(card, card') /\ Lays(card, card', k)
    BY <1>4, <1>5, <1>6, <1>12 DEF SameView, Lays, Mine, CardFields, SameCore, CoreFields
  <1>14. SendStep(k)
    BY <1>1, <1>4, <1>11, <1>13 DEF SendStep, Mutating
  <1>15. DOMAIN told' \subseteq DOMAIN told /\ \A j \in DOMAIN told' : told'[j] = told[j]
    BY DEF Without
  <1>16. EditsInv'
    BY <1>4, <1>14, <1>15, SendKeepsEdits DEF CardInv
  <1> QED
    BY <1>14, <1>15, <1>16, SendKeepsCard DEF CardInv, Shapes

LEMMA EnqueueCreateKeeps ==
    ASSUME CardInv, NEW c, IsCard(c), SameCore(card, c), NEW t \in Temps, NEW ev, IsEvent(ev),
           EnqueueCreate(c, t, ev), Frame
    PROVE  CardInv'
  <1>1. PICK k : k = NewCall("create", t, ev)
    OBVIOUS
  <1>2. PICK b : b = [c EXCEPT !.rows = (t :> ev) @@ @]
    OBVIOUS
  <1>3. /\ card' = showRebuilt(clearBanner(startCommitting(b, t))) /\ calls' = calls \cup {k}
        /\ told' = told
    BY <1>1, <1>2 DEF EnqueueCreate
  <1>4. IsCall(k) /\ k.tool = "create" /\ k.id = t /\ k.at = "sent" /\ k.tool # "refresh"
    BY <1>1, NewCallIsCall DEF Mutating
  <1>5. /\ IsCard(b) /\ DOMAIN b.rows = DOMAIN c.rows \cup {t}
        /\ \A f \in CardFields \ {"rows"} : b[f] = c[f]
    BY <1>2 DEF IsCard, CardFields, :>, @@
  <1>6. /\ IsCard(card') /\ IsDrawn(card')
        /\ card'.pending = b.pending \cup {t} /\ card'.deletes = b.deletes /\ card'.rows = b.rows
        /\ card'.edits = b.edits /\ card'.editing = b.editing
        /\ SameView(b, card')
    BY <1>3, <1>5, Commits
  <1>7. SameView(card, card') /\ Lays(card, card', k)
    BY <1>4, <1>5, <1>6 DEF SameView, Lays, Mine, CardFields, SameCore, CoreFields
  <1>8. SendStep(k)
    BY <1>3, <1>4, <1>6, <1>7 DEF SendStep, Mutating
  <1>9. EditsInv'
    BY <1>3, <1>4, <1>8, SendKeepsEdits DEF CardInv
  <1> QED
    BY <1>3, <1>8, <1>9, SendKeepsCard DEF CardInv, Shapes

(* Refused: the event has something else under way.                        *)
LEMMA RefusingPages ==
    ASSUME NEW c, IsCard(c), SameCore(card, c), card' = showBanner(c, [kind |-> "busy"]),
           calls' = calls, told' = told, Frame,
           \/ IsDrawn(c)
           \/ /\ card.banner.kind \notin {"filter", "range", "retry"}
              /\ c.sheet = card.sheet /\ c.dom = card.dom /\ c.late = card.late
              /\ c.events = card.events
    PROVE  PageStep
  <1>1. IsBanner([kind |-> "busy"])
    BY DEF IsBanner
  <1>2. /\ IsCard(card') /\ SameCore(c, card') /\ (IsDrawn(c) => IsDrawn(card'))
        /\ card'.sheet = c.sheet /\ card'.dom = c.dom /\ card'.late = c.late
    BY <1>1, ShowBanner
  <1>3. SameCore(card, card') /\ SameOverlays(card, card') /\ SameView(card, card')
    BY <1>2 DEF SameCore, CoreFields, SameOverlays, SameView
  <1>4. card'.events = c.events
    BY DEF showBanner, IsCard, CardFields
  <1>5. IsDrawn(card') \/ SamePicture(card, card', calls')
    BY <1>2, <1>3, <1>4, SamePictureAlike
  <1> QED
    BY <1>2, <1>3, <1>5, NothingAsked DEF PageStep, Pictures, Frame

LEMMA GestureFrame == ASSUME NEW g, Gesture(g) PROVE Frame
  BY DEF Gesture, Frame

LEMMA DeleteEventKeeps == ASSUME CardInv, NEW i, deleteEvent(i) PROVE CardInv'
  <1>1. Frame /\ IsCard(card) /\ SameCore(card, card) /\ i \notin Temps
    BY GestureFrame DEF deleteEvent, CardInv, Shapes, SameCore, OnList
  <1>2. CASE i \in card.deletes
    <2>1. SamePicture(card, card', calls') /\ SameOverlays(card, card') /\ SameView(card, card')
      BY <1>2 DEF deleteEvent, SamePicture, SameOverlays, SameView
    <2>2. PageStep
      BY <1>1, <1>2, <2>1, NothingAsked DEF deleteEvent, PageStep, Pictures, Frame
    <2> QED
      BY <2>2, PageKeepsCard
  <1>3. CASE i \notin card.deletes
    BY <1>1, <1>3, StartDeleteKeeps DEF deleteEvent
  <1> QED
    BY <1>2, <1>3

LEMMA SaveSheetKeeps == ASSUME CardInv, saveSheet PROVE CardInv'
  <1>1. PICK change \in Changes(card.events[card.sheet]) : SaveEdit(closeSheet(card), card.sheet, change)
    BY DEF saveSheet
  <1>2. PICK c : c = closeSheet(card)
    OBVIOUS
  <1>3. IsCard(c) /\ SameCore(card, c) /\ IsDrawn(c) /\ card.sheet \notin Temps
    BY <1>2, CloseSheet DEF CardInv, Shapes, IsCard
  <1>4. Frame
    BY GestureFrame DEF saveSheet
  <1>5. IsChange(change)
    BY DEF Changes, IsChange
  <1>6. CASE free(c, card.sheet)
    BY <1>1, <1>2, <1>3, <1>4, <1>5, <1>6, SaveEditKeeps
  <1>7. CASE ~free(c, card.sheet)
    <2>1. card' = showBanner(c, [kind |-> "busy"]) /\ calls' = calls /\ told' = told
      BY <1>1, <1>2, <1>7 DEF SaveEdit
    <2> QED
      BY <1>3, <1>4, <2>1, RefusingPages, PageKeepsCard
  <1> QED
    BY <1>6, <1>7

LEMMA SubmitCreateKeeps == ASSUME CardInv, submitCreate PROVE CardInv'
  <1>1. PICK c : c = setSheetState(card)
    OBVIOUS
  <1>2. IsCard(c) /\ SameCore(card, c)
    BY <1>1, SetSheetState DEF CardInv, Shapes
  <1>3. Frame
    BY GestureFrame DEF submitCreate
  <1>4. ASSUME NEW t \in FreshTemps(c), EnqueueCreate(c, t, mix.created) PROVE CardInv'
    <2>1. t \in Temps
      BY DEF FreshTemps
    <2>2. IsEvent(mix.created)
      BY MixesAssumption DEF CardInv, Shapes
    <2> QED
      BY <1>2, <1>3, <1>4, <2>1, <2>2, EnqueueCreateKeeps
  <1>5. CASE card' = renderAll(c) /\ UNCHANGED <<calls, told>>
    <2>1. SameOverlays(card, c) /\ SameView(card, c)
      BY <1>2 DEF SameOverlays, SameView, SameCore, CoreFields
    <2>2. PageStep
      BY <1>2, <1>3, <1>5, <2>1, RenderingPages DEF Frame
    <2> QED
      BY <2>2, PageKeepsCard
  <1> QED
    BY <1>1, <1>4, <1>5 DEF submitCreate

LEMMA RetryKeeps == ASSUME CardInv, Retry PROVE CardInv'
  <1>1. PICK b : b = card.banner
    OBVIOUS
  <1>2. PICK c : c = clearBanner(card)
    OBVIOUS
  <1>3. /\ IsCard(c) /\ SameCore(card, c) /\ c.sheet = card.sheet /\ c.dom = card.dom
        /\ c.late = card.late /\ c.events = card.events /\ IsBanner(b)
    BY <1>1, <1>2, ClearBanner DEF CardInv, Shapes, IsCard
  <1>4. Frame /\ Gesture("retry")
    BY GestureFrame DEF Retry
  <1>5. CASE b.kind \in {"range", "filter"}
    <2>1. refetch(c, b.kind) /\ UNCHANGED told
      BY <1>1, <1>2, <1>5 DEF Retry
    <2> QED
      BY <1>1, <1>2, <1>4, <1>5, <2>1, RetryReadPages, PageKeepsCard DEF CardInv
  <1>6. CASE b.kind \in {"fetch", "retry"}
    <2>1. card' = c /\ calls' = Read(c, "retry") /\ UNCHANGED told
      BY <1>1, <1>2, <1>6 DEF Retry
    <2> QED
      BY <1>1, <1>2, <1>4, <2>1, RetryReadPages, PageKeepsCard DEF CardInv
  <1>7. CASE b.kind = "delete"
    <2>1. b.id \notin Temps
      BY <1>3, <1>7 DEF IsBanner
    <2>2. CASE b.id \in c.deletes
      <3>1. card' = c /\ calls' = calls /\ told' = told
        BY <1>1, <1>2, <1>7, <2>2 DEF Retry
      <3>2. SamePicture(card, card', calls') /\ SameOverlays(card, card') /\ SameView(card, card')
        BY <1>1, <1>3, <1>7, <3>1, SamePictureAlike
      <3>3. PageStep
        BY <1>3, <1>4, <3>1, <3>2, NothingAsked DEF PageStep, Pictures, Frame
      <3> QED
        BY <3>3, PageKeepsCard
    <2>3. CASE b.id \notin c.deletes
      <3>1. /\ card' = StartDelete(c, b.id) /\ calls' = calls \cup {NewCall("delete", b.id, Empty)}
            /\ told' = Without(told, {b.id})
        BY <1>1, <1>2, <1>7, <2>3 DEF Retry
      <3> QED
        BY <1>3, <1>4, <2>1, <3>1, StartDeleteKeeps
    <2> QED
      BY <2>2, <2>3
  <1>8. CASE b.kind = "edit"
    <2>1. SaveEdit(c, b.id, b.arg)
      BY <1>1, <1>2, <1>8 DEF Retry
    <2>2. b.id \notin Temps /\ IsChange(b.arg)
      BY <1>3, <1>8 DEF IsBanner
    <2>3. CASE free(c, b.id)
      BY <1>3, <1>4, <2>1, <2>2, <2>3, SaveEditKeeps
    <2>4. CASE ~free(c, b.id)
      <3>1. card' = showBanner(c, [kind |-> "busy"]) /\ calls' = calls /\ told' = told
        BY <2>1, <2>4 DEF SaveEdit
      <3> QED
        BY <1>1, <1>3, <1>4, <1>8, <3>1, RefusingPages, PageKeepsCard
    <2> QED
      BY <2>3, <2>4
  <1>9. CASE b.kind = "create"
    <2>1. PICK t \in FreshTemps(c) : EnqueueCreate(c, t, b.arg)
      BY <1>1, <1>2, <1>9 DEF Retry
    <2>2. t \in Temps /\ IsEvent(b.arg)
      BY <1>3, <1>9 DEF IsBanner, FreshTemps
    <2> QED
      BY <1>3, <1>4, <2>1, <2>2, EnqueueCreateKeeps
  <1> QED
    BY <1>1, <1>5, <1>6, <1>7, <1>8, <1>9 DEF Retry

-----------------------------------------------------------------------------
(* The invariant, and what follows from it.                                *)

LEMMA StartIsCard ==
    ASSUME NEW events, NEW range, NEW added, NEW c, c = Start(events, range, added)
    PROVE  /\ IsCard(c) /\ c.sheet = NoSheet /\ c.confirmed = events /\ c.range = range
           /\ c.deletes = {} /\ c.pending = {} /\ c.editing = {} /\ c.edits = Empty /\ c.rows = Empty
           /\ c.hidden = {} /\ c.scope = mix.scope
  <1>1. /\ c = [f \in CardFields |-> c[f]]
        /\ c.mode = "list" /\ c.sheet = NoSheet /\ c.banner = NoBanner
        /\ c.confirmed = events /\ c.range = range
        /\ c.deletes = {} /\ c.pending = {} /\ c.editing = {} /\ c.edits = Empty /\ c.rows = Empty
        /\ c.hidden = {} /\ c.scope = mix.scope
    BY DEF Start, CardFields
  <1>2. IsCard(c)
    BY <1>1, AgendaCardAssumption DEF IsCard, IsBanner, NoBanner, NoSheet
  <1> QED
    BY <1>1, <1>2

LEMMA InitCard == ASSUME Init PROVE CardInv
  <1>1. PICK asked : asked = refreshArgs(Start(Empty, Default, Empty))
    OBVIOUS
  <1>2. PICK s : /\ card = renderAll(s)
                 /\ \/ s = Start(Listed(asked), Default, Empty)
                    \/ s = Start(mix.born, NoRange, mix.born)
    BY <1>1 DEF Init
  <1>3. /\ IsCard(s) /\ s.sheet = NoSheet /\ s.hidden = {} /\ s.scope = mix.scope
        /\ s.deletes = {} /\ s.pending = {} /\ s.editing = {} /\ s.edits = Empty /\ s.rows = Empty
        /\ s.range # NoRange => s.confirmed = Listed(asked) /\ s.range = Default
    <2>1. PICK events, range, added : s = Start(events, range, added)
      BY <1>2
    <2>2. /\ IsCard(s) /\ s.sheet = NoSheet /\ s.hidden = {} /\ s.scope = mix.scope
          /\ s.deletes = {} /\ s.pending = {} /\ s.editing = {} /\ s.edits = Empty /\ s.rows = Empty
      BY <2>1, StartIsCard
    <2>3. CASE s = Start(Listed(asked), Default, Empty)
      <3>1. s.confirmed = Listed(asked) /\ s.range = Default
        BY <2>3, StartIsCard
      <3> QED
        BY <2>2, <3>1
    <2>4. CASE s = Start(mix.born, NoRange, mix.born)
      <3>1. s.range = NoRange
        BY <2>4, StartIsCard
      <3> QED
        BY <2>2, <3>1
    <2> QED
      BY <1>2, <2>3, <2>4
  <1>4. IsCard(card) /\ SameCore(s, card) /\ IsDrawn(card)
    BY <1>2, <1>3, RenderAll
  <1>5. /\ calls = {} /\ told = Empty /\ gone = {} /\ failures = 0 /\ gestures = 0 /\ version = 0
        /\ outside = 0 /\ newest = [n |-> 0, seen |-> 0] /\ list = mix.list /\ mix \in Gestures
        /\ DOMAIN told = {}
    BY DEF Init, Empty
  <1>6. Shapes
    BY <1>4, <1>5, MixesAssumption DEF Shapes
  <1>7. OverlaysCarried
    <2>1. /\ card.deletes = {} /\ card.pending = {} /\ card.editing = {}
          /\ DOMAIN card.edits = {} /\ DOMAIN card.rows = {}
      BY <1>3, <1>4 DEF SameCore, CoreFields, Empty
    <2> QED
      BY <2>1 DEF OverlaysCarried, Carried
  <1>8. EditsInv
    BY <1>5 DEF EditsInv, OneEditAtATime, SentAsTold, ToldArrives, GoneForGood
  <1>9. DrawInv
    BY <1>4, <1>5 DEF DrawInv, UndrawnIsExplained, Undrawn, IsDrawn, FailuresCount
  <1>10. card.range # NoRange => card.confirmed = View(card)
    <2> SUFFICES ASSUME card.range # NoRange PROVE card.confirmed = View(card)
      OBVIOUS
    <2>1. /\ card.confirmed = Listed(asked) /\ card.range = Default /\ card.hidden = {}
          /\ card.scope = mix.scope
      BY <1>3, <1>4 DEF SameCore, CoreFields
    <2>2. asked.range = Default /\ asked.calendarId = mix.scope
      <3>1. PICK e : e = Start(Empty, Default, Empty)
        OBVIOUS
      <3>2. e.hidden = {} /\ e.scope = mix.scope /\ e.range = Default
        BY <3>1, StartIsCard
      <3> QED
        BY <1>1, <3>1, <3>2 DEF refreshArgs
    <2>3. asked.hidden = {}
      BY <1>1, StartIsCard DEF refreshArgs
    <2>4. resolveRequestRange(asked) = Default
      BY <2>2 DEF resolveRequestRange
    <2>5. \A j \in DOMAIN list : list[j].cal \in Calendars
      BY <1>6 DEF Shapes, IsListing, IsEvent
    <2>6. \A j \in DOMAIN list : list[j].cal \in collectionIdArg(asked)
                                    <=> list[j].cal \notin card.hidden /\ card.scope \in {"all", list[j].cal}
      BY <2>1, <2>2, <2>3, <2>5 DEF collectionIdArg
    <2> QED
      BY <2>1, <2>4, <2>6 DEF Listed, View
  <1>11. KnowInv
    BY <1>5, <1>10 DEF KnowInv, ReadingsFit
  <1> QED
    BY <1>6, <1>7, <1>8, <1>9, <1>11 DEF CardInv

LEMMA StutterKeeps == ASSUME CardInv, UNCHANGED allVars PROVE CardInv'
  <1>1. SamePicture(card, card', calls') /\ SameOverlays(card, card') /\ SameView(card, card')
    BY DEF allVars, cardVars, callVars, SamePicture, SameOverlays, SameView
  <1>2. PageStep
    BY <1>1, NothingAsked DEF allVars, cardVars, callVars, PageStep, Pictures, CardInv, Shapes
  <1> QED
    BY <1>2, PageKeepsCard

LEMMA GesturesKeep ==
    ASSUME CardInv,
           \/ enterMonthMode \/ enterDayMode \/ exitToListMode \/ turnThePage \/ selectDay
           \/ applyHostContext \/ triggerCreateEvent \/ leaveSheet \/ saveSheet \/ submitCreate
           \/ MaybeRefetch \/ StaleTimePasses \/ Retry
    PROVE  CardInv'
  <1>1. Shapes
    BY DEF CardInv
  <1>2. \/ enterMonthMode \/ enterDayMode \/ exitToListMode \/ turnThePage \/ selectDay
        \/ applyHostContext \/ triggerCreateEvent \/ leaveSheet \/ MaybeRefetch \/ StaleTimePasses
        => CardInv'
    BY <1>1, EnterMonthModePages, EnterDayModePages, ExitToListModePages, TurnThePagePages,
       SelectDayPages, ApplyHostContextPages, TriggerCreateEventPages, LeaveSheetPages,
       MaybeRefetchPages, StaleTimePassesPages, PageKeepsCard
  <1> QED
    BY <1>2, SaveSheetKeeps, SubmitCreateKeeps, RetryKeeps

LEMMA CallsKeep ==
    ASSUME CardInv, NEW k \in calls,
           \/ updateEvent(k) \/ deleteEventTool(k) \/ createEvent(k)
           \/ runListEvents(k) \/ RejectCall(k)
           \/ AnswerMutation(k) \/ AnswerReread(k) \/ AnswerFailure(k)
           \/ AnswerListing(k) \/ AnswerPush(k)
    PROVE  CardInv'
  BY UpdateEventKeeps, DeleteEventToolKeeps, CreateEventKeeps, RunListEventsKeeps, RejectCallKeeps,
     AnswerMutationKeeps, AnswerRereadKeeps, AnswerFailureKeeps, AnswerListingKeeps, AnswerPushKeeps

LEMMA StepKeeps == ASSUME CardInv, [Next]_allVars PROVE CardInv'
  <1>1. ASSUME NEW cal, toggleCalendar(cal) PROVE CardInv'
    BY <1>1, ToggleCalendarPages, PageKeepsCard DEF CardInv
  <1>2. ASSUME NEW i, deleteEvent(i) \/ openSheet(i) \/ CommittingEnds(i) \/ Elsewhere(i) PROVE CardInv'
    <2>1. openSheet(i) \/ CommittingEnds(i) => CardInv'
      BY OpenSheetPages, CommittingEndsPages, PageKeepsCard DEF CardInv
    <2> QED
      BY <1>2, <2>1, DeleteEventKeeps, ElsewhereKeeps
  <1>3. ASSUME NEW scope, NEW stale, ontoolresult(scope, stale) PROVE CardInv'
    BY <1>3, OntoolresultKeeps
  <1> QED
    BY <1>1, <1>2, <1>3, GesturesKeep, CallsKeep, StutterKeeps DEF Next

(* The invariant holds of the card, whatever the user, the host, the       *)
(* server and other clients do (agenda-entry.ts, the whole module state).  *)
THEOREM CardInductive == Spec => []CardInv
  <1>1. Init => CardInv
    BY InitCard
  <1>2. CardInv /\ [Next]_allVars => CardInv'
    BY StepKeeps
  <1> QED
    BY <1>1, <1>2, PTL DEF Spec

(* Once every call is answered nothing is laid over the confirmed events:  *)
(* no row stays crossed out, edited or made up, and no event stays locked  *)
(* against further edits (agenda-entry.ts, startCommitting and the         *)
(* continuations that clear the maps).                                     *)
THEOREM NothingStays == Spec => []NothingStaysOptimistic
  <1>1. CardInv => NothingStaysOptimistic
    <2> SUFFICES ASSUME CardInv, calls = {}
                 PROVE  /\ {card.deletes, card.pending, card.editing} = {{}}
                        /\ {DOMAIN card.edits, DOMAIN card.rows} = {{}}
      BY DEF NothingStaysOptimistic
    <2>1. \A tool, i : ~Under(calls, tool, i)
      BY DEF Under
    <2>2. /\ card.deletes = {} /\ card.pending = {} /\ card.editing = {}
          /\ DOMAIN card.edits = {} /\ DOMAIN card.rows = {}
      BY <2>1 DEF CardInv, OverlaysCarried, Carried
    <2> QED
      BY <2>2
  <1> QED
    BY <1>1, CardInductive, PTL

(* The server has the last edits the card took, once nothing is in flight  *)
(* for the event (agenda-entry.ts, saveEdit): edits of an event cannot     *)
(* overtake each other.                                                    *)
THEOREM EditsReachTheServer == Spec => []EditsArrive
  <1>1. CardInv => EditsArrive
    <2> SUFFICES ASSUME CardInv, outside = 0, NEW i \in (DOMAIN told \cap DOMAIN list) \ freed,
                        \A k \in calls : k.id # i, NEW f \in DOMAIN told[i]
                 PROVE  list[i][f] = told[i][f]
      BY DEF EditsArrive
    <2>1. i \notin gone
      BY DEF CardInv, EditsInv, GoneForGood
    <2>2. \A k \in calls : ~Brings(k, i, f)
      BY DEF Brings, IsEdit
    <2> QED
      BY <2>1, <2>2 DEF CardInv, EditsInv, ToldArrives
  <1> QED
    BY <1>1, CardInductive, PTL

(* A settled card draws what it knows, but for a failed listing, which its *)
(* banner tells (agenda-entry.ts, renderAll, refetchFiltered).             *)
THEOREM TheDocumentIsTheState == Spec => []DrawsWhatItKnows
  <1>1. CardInv => DrawsWhatItKnows
    <2> SUFFICES ASSUME CardInv, Settled, ~card.late, ~ListingFailed, card.dom # drawn(card)
                 PROVE  FALSE
      BY DEF DrawsWhatItKnows
    <2>1. Undrawn
      BY DEF Settled, Undrawn
    <2> QED
      BY <2>1 DEF CardInv, DrawInv, UndrawnIsExplained, Settled
  <1> QED
    BY <1>1, CardInductive, PTL

(* When all calls are answered in their order, the card has the list of    *)
(* the range it names and of the calendars it shows (agenda-entry.ts,      *)
(* refreshArgs, applyStructuredContent).                                   *)
THEOREM TheListIsKnown == Spec => []KnowsTheList
  <1>1. CardInv => KnowsTheList
    <2> SUFFICES ASSUME CardInv, calls = {}, ~unsure, outside = 0, card.range # NoRange,
                        ~allCalendarsHidden(card)
                 PROVE  card.confirmed = View(card)
      BY DEF KnowsTheList, View
    <2>1. PICK g \in 0..gestures : ReadingsFit(g)
      BY DEF CardInv, KnowInv
    <2>2. newest.n \in Nat /\ newest.seen \in Nat /\ version \in Nat /\ gestures \in Nat
      BY DEF CardInv, Shapes
    <2>3. newest.n >= g /\ newest.seen = version
      BY <2>1, <2>2 DEF ReadingsFit
    <2> QED
      BY <2>1, <2>3 DEF ReadingsFit
  <1> QED
    BY <1>1, CardInductive, PTL
=============================================================================
