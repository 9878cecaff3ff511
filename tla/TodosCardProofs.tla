--------------------------- MODULE TodosCardProofs ---------------------------
(***************************************************************************)
(* Proofs about the todos card, for any number of tasks, gestures, failures*)
(* and changes by other clients.                                           *)
(*                                                                         *)
(* The invariant CardInv has four parts.  Shapes is the type invariant;    *)
(* among it, each id the card can name was given by the server (Ever), so  *)
(* that a task created later is none the user has tapped on.  RenderOwed:  *)
(* a suppressed render has its reason and is marked for later.  Overlaid-  *)
(* ByCalls: whatever is laid over the list belongs to a call, and a task   *)
(* has one loop of toggles at a time, the one its overlay belongs to.      *)
(* WishesKept: the overlay of a loop is the user's wish; once the server   *)
(* has carried a toggle out the list says what the loop will compare the   *)
(* wish with; without a loop the list is as wished.                        *)
(***************************************************************************)
EXTENDS TodosCard, TLAPS

CardFields == {"confirmed", "mounted", "toggles", "desired", "sending", "intents", "rows", "edits",
               "deletes", "pending", "base", "tasks", "memory", "sticky", "summary", "dom",
               "timers", "renderLater", "owed", "sheet", "draft", "focused", "blurred", "banner",
               "fresh", "view"}

CallFields == {"tool", "id", "arg", "row", "cont", "at", "meta", "tasks", "summary", "view",
               "stale", "pushed"}

(* The ids the server has ever given.                                      *)
Ever == DOMAIN list \cup gone \cup DOMAIN mix.old

IsBanner(b, S) == b.kind = "toggle" => b.id \in S

IdsWithin(c, S) ==
    /\ DOMAIN c.confirmed \subseteq S /\ DOMAIN c.sticky \subseteq S /\ DOMAIN c.memory \subseteq S
    /\ DOMAIN c.base \subseteq S /\ DOMAIN c.summary \subseteq S
    /\ DOMAIN c.tasks \subseteq S \cup Temps /\ DOMAIN c.dom \subseteq S \cup Temps
    /\ c.rows \subseteq Temps

IsCard(c, S) == /\ c = [f \in CardFields |-> c[f]]
                /\ IdsWithin(c, S) /\ IsBanner(c.banner, S)

IsVm(vm, S) == /\ DOMAIN vm.tasks \subseteq S /\ DOMAIN vm.completed \subseteq S
               /\ \A s \in vm.summary : DOMAIN s \subseteq S

IsCall(k, S) ==
    /\ k = [f \in CallFields |-> k[f]]
    /\ k.meta = [completed |-> k.meta.completed, touched |-> k.meta.touched,
                 removed |-> k.meta.removed]
    /\ k.tool \in Mutating \cup {"refresh"}
    /\ k.tool = "toggle" => k.id \in S
    /\ k.cont = "toggle" => k.id \in S
    /\ k.cont = "push" => \E vm \in k.pushed : k.pushed = {vm} /\ IsVm(vm, S)
    /\ DOMAIN k.tasks \subseteq S /\ DOMAIN k.meta.completed \subseteq S
    /\ \A s \in k.summary : DOMAIN s \subseteq S

Shapes == /\ IsCard(card, Ever)
          /\ \A k \in calls : IsCall(k, Ever)
          /\ IsTaskList(list) /\ mix \in Gestures
          /\ DOMAIN wish \subseteq Ever
          /\ outside \in Nat

(* A render that was suppressed, and why it still is.                      *)
MarkedForLater(c) == c.owed => c.renderLater
Owes(c) == c.owed => c.renderLater /\ (c.sheet # NoSheet \/ c.focused \/ c.blurred)

RenderOwed == Owes(card)

(* A call of a loop of toggles: the toggle, or the reading after it.       *)
InLoop(k) == k.tool = "toggle" \/ (k.tool = "refresh" /\ k.cont = "toggle")

Under(ks, tool, i) == \E k \in ks : k.tool = tool /\ k.id = i

Others == {"delete", "edit", "create"}

Carried(c, ks) ==
    /\ \A i \in c.deletes : Under(ks, "delete", i)
    /\ \A i \in DOMAIN c.edits : Under(ks, "edit", i)
    /\ \A i \in c.rows : Under(ks, "create", i)
    /\ \A i \in c.sending : \E k \in ks : InLoop(k) /\ k.id = i
    /\ \A i \in c.pending \ c.sending : \E tool \in Others : Under(ks, tool, i)

Loops(c, ks) ==
    /\ c.toggles = c.desired /\ DOMAIN c.desired = c.sending
    /\ \A k \in ks : InLoop(k) => k.id \in c.sending
    /\ \A j, k \in ks : InLoop(j) /\ InLoop(k) /\ j.id = k.id => j = k

OverlaidByCalls == Carried(card, calls) /\ Loops(card, calls)

(* The server has carried the toggle out, and the card does not take it    *)
(* for failed.                                                             *)
CarriedOut(k) == k.tool = "refresh" \/ k.at \in {"done", "answered"}

Told(k) == k.id \in DOMAIN list => list[k.id].done = k.arg

Wishes(c, ks, w) ==
    outside = 0 =>
        /\ \A i \in DOMAIN w \cap c.sending : w[i] = c.desired[i]
        /\ \A i \in (DOMAIN w \cap DOMAIN list) \ c.sending : list[i].done = w[i]
        /\ \A k \in ks : InLoop(k) /\ CarriedOut(k) => Told(k)

WishesKept == Wishes(card, calls, wish)

CardInv == Shapes /\ RenderOwed /\ OverlaidByCalls /\ WishesKept

-----------------------------------------------------------------------------
(* What the functions of the card leave alone.                             *)

SameOverlays(c, d) ==
    /\ d.toggles = c.toggles /\ d.desired = c.desired /\ d.sending = c.sending
    /\ d.edits = c.edits /\ d.deletes = c.deletes /\ d.rows = c.rows /\ d.pending = c.pending

SameGate(c, d) ==
    /\ d.owed = c.owed /\ d.renderLater = c.renderLater /\ d.sheet = c.sheet
    /\ d.focused = c.focused /\ d.blurred = c.blurred

SameBut(fields, c, d) == \A f \in CardFields \ fields : d[f] = c[f]

LEMMA MergedDomain == ASSUME NEW f, NEW g PROVE DOMAIN (f @@ g) = DOMAIN f \cup DOMAIN g
  BY DEF @@

LEMMA SectionizeManual ==
    ASSUME NEW c, NEW S, IsCard(c, S), NEW real, NEW synth, NEW s, s = sectionizeManual(c, real, synth),
           DOMAIN real \subseteq S, DOMAIN synth \subseteq S
    PROVE  IsCard(s, S) /\ SameBut({"sticky", "memory"}, c, s)
  <1>1. PICK m : m = c.memory @@ [i \in DOMAIN (real @@ synth) |-> naturalSection((real @@ synth)[i])]
    OBVIOUS
  <1>2. PICK t : t = (real @@ c.sticky) @@ synth
    OBVIOUS
  <1>3. s = [c EXCEPT !.sticky = t, !.memory = m]
    BY <1>1, <1>2 DEF sectionizeManual
  <1>4. DOMAIN m \subseteq S
    <2>1. PICK live : live = real @@ synth
      OBVIOUS
    <2>2. PICK g : g = [i \in DOMAIN live |-> naturalSection(live[i])]
      OBVIOUS
    <2>3. m = c.memory @@ g
      BY <1>1, <2>1, <2>2
    <2>4. DOMAIN m = DOMAIN c.memory \cup DOMAIN g
      BY <2>3, MergedDomain
    <2>5. DOMAIN live = DOMAIN real \cup DOMAIN synth
      BY <2>1, MergedDomain
    <2>6. DOMAIN g = DOMAIN live
      BY <2>2
    <2> QED
      BY <2>4, <2>5, <2>6 DEF IsCard, IdsWithin
  <1>5. DOMAIN t \subseteq S
    <2>1. PICK r : r = real @@ c.sticky
      OBVIOUS
    <2>2. DOMAIN r = DOMAIN real \cup DOMAIN c.sticky
      BY <2>1, MergedDomain
    <2>3. t = r @@ synth
      BY <1>2, <2>1
    <2>4. DOMAIN t = DOMAIN r \cup DOMAIN synth
      BY <2>3, MergedDomain
    <2> QED
      BY <2>2, <2>4 DEF IsCard, IdsWithin
  <1>6. /\ s = [f \in CardFields |-> s[f]] /\ SameBut({"sticky", "memory"}, c, s)
        /\ s.sticky = t /\ s.memory = m
    BY <1>3 DEF IsCard, CardFields, SameBut
  <1>7. IsCard(s, S)
    BY <1>4, <1>5, <1>6 DEF IsCard, CardFields, SameBut, IdsWithin
  <1> QED
    BY <1>6, <1>7

LEMMA DrawList ==
    ASSUME NEW c, NEW S, IsCard(c, S), NEW d, d = drawList(c)
    PROVE  IsCard(d, S) /\ SameBut({"sticky", "memory", "dom"}, c, d)
  <1>1. PICK real : real = [i \in DOMAIN c.tasks \ Temps |-> c.tasks[i]]
    OBVIOUS
  <1>2. PICK synth : synth = [i \in DOMAIN c.base \ DOMAIN c.tasks |-> Row(TRUE, c.base[i].title)]
    OBVIOUS
  <1>3. PICK s : s = sectionizeManual(c, real, synth)
    OBVIOUS
  <1>4. DOMAIN real \subseteq S /\ DOMAIN synth \subseteq S
    BY <1>1, <1>2 DEF IsCard, IdsWithin
  <1>5. IsCard(s, S) /\ SameBut({"sticky", "memory"}, c, s)
    BY <1>3, <1>4, SectionizeManual
  <1>6. PICK body : body = {i \in DOMAIN s.memory \ c.deletes : completedRowIsInBody(s, i)}
    OBVIOUS
  <1>7. PICK recent : recent = {i \in DOMAIN c.summary \ c.deletes : ~completedRowIsInBody(s, i)}
    OBVIOUS
  <1>8. PICK f : f = [i \in recent |-> Row(IF i \in DOMAIN c.toggles THEN c.toggles[i] ELSE TRUE,
                                          c.summary[i].title)]
    OBVIOUS
  <1>9. PICK g : g = [i \in body |-> (real @@ synth @@ s.sticky)[i]]
    OBVIOUS
  <1>10. PICK e : e = [i \in DOMAIN c.tasks \cap Temps |-> c.tasks[i]]
    OBVIOUS
  <1>11. PICK t : t = f @@ s.sticky
    OBVIOUS
  <1>12. PICK gf : gf = g @@ f
    OBVIOUS
  <1>13. PICK dom : dom = gf @@ e
    OBVIOUS
  <1>14. d = [s EXCEPT !.sticky = t, !.dom = dom]
    BY <1>1, <1>2, <1>3, <1>6, <1>7, <1>8, <1>9, <1>10, <1>11, <1>12, <1>13, Zenon DEF drawList
  <1>15. DOMAIN f = recent /\ DOMAIN g = body /\ DOMAIN e = DOMAIN c.tasks \cap Temps
    BY <1>8, <1>9, <1>10, Zenon
  <1>16. DOMAIN t = recent \cup DOMAIN s.sticky
    BY <1>11, <1>15, MergedDomain
  <1>17. DOMAIN dom = body \cup recent \cup (DOMAIN c.tasks \cap Temps)
    <2>1. DOMAIN gf = body \cup recent
      BY <1>12, <1>15, MergedDomain
    <2>2. DOMAIN dom = DOMAIN gf \cup DOMAIN e
      BY <1>13, MergedDomain
    <2> QED
      BY <1>15, <2>1, <2>2
  <1>18. body \subseteq DOMAIN s.memory /\ recent \subseteq DOMAIN c.summary
    BY <1>6, <1>7
  <1>19. DOMAIN t \subseteq S /\ DOMAIN dom \subseteq S \cup Temps
    BY <1>5, <1>16, <1>17, <1>18 DEF IsCard, IdsWithin
  <1>20. /\ d = [x \in CardFields |-> d[x]] /\ SameBut({"sticky", "dom"}, s, d)
         /\ d.sticky = t /\ d.dom = dom
    BY <1>5, <1>14 DEF IsCard, CardFields, SameBut
  <1>21. IsCard(d, S)
    BY <1>5, <1>19, <1>20 DEF IsCard, CardFields, SameBut, IdsWithin
  <1> QED
    BY <1>5, <1>20, <1>21 DEF SameBut, CardFields

LEMMA RebuiltInputs ==
    ASSUME NEW c, NEW S, IsCard(c, S), NEW d, d = rebuiltInputs(c)
    PROVE  IsCard(d, S) /\ SameBut({"focused", "draft"}, c, d)
  BY DEF rebuiltInputs, IsCard, CardFields, IdsWithin, SameBut

(* renderAll draws the list and owes nothing, or leaves the page open.     *)
LEMMA RenderAll ==
    ASSUME NEW c, NEW S, IsCard(c, S), NEW d, d = renderAll(c)
    PROVE  /\ IsCard(d, S) /\ SameOverlays(c, d) /\ d.banner = c.banner /\ d.confirmed = c.confirmed
           /\ d.intents = c.intents /\ d.blurred = c.blurred /\ d.view = c.view
           /\ \/ d.sheet = NoSheet /\ d.owed = FALSE
              \/ d.sheet = c.sheet /\ d.owed = c.owed /\ d.renderLater = c.renderLater /\ c.sheet # NoSheet
  <1>1. DOMAIN Empty = {}
    BY DEF Empty
  <1>2. CASE c.sheet # NoSheet /\ sheetTaskExists(c)
    <2>1. PICK e : e = [c EXCEPT !.dom = Empty]
      OBVIOUS
    <2>2. IsCard(e, S) /\ SameBut({"dom"}, c, e)
      BY <1>1, <2>1 DEF IsCard, CardFields, IdsWithin, SameBut
    <2>3. d = rebuiltInputs(e)
      BY <1>2, <2>1 DEF renderAll
    <2>4. IsCard(d, S) /\ SameBut({"focused", "draft"}, e, d)
      BY <2>2, <2>3, RebuiltInputs
    <2> QED
      BY <1>2, <2>2, <2>4 DEF SameBut, CardFields, SameOverlays
  <1>3. CASE ~(c.sheet # NoSheet /\ sheetTaskExists(c))
    <2>1. PICK b : b = [c EXCEPT !.sheet = NoSheet, !.owed = FALSE]
      OBVIOUS
    <2>2. IsCard(b, S) /\ SameBut({"sheet", "owed"}, c, b) /\ b.sheet = NoSheet /\ b.owed = FALSE
      BY <2>1 DEF IsCard, CardFields, IdsWithin, SameBut
    <2>3. PICK e : e = drawList(b)
      OBVIOUS
    <2>4. IsCard(e, S) /\ SameBut({"sticky", "memory", "dom"}, b, e)
      BY <2>2, <2>3, DrawList
    <2>5. d = rebuiltInputs(e)
      BY <1>3, <2>1, <2>3 DEF renderAll
    <2>6. IsCard(d, S) /\ SameBut({"focused", "draft"}, e, d)
      BY <2>4, <2>5, RebuiltInputs
    <2> QED
      BY <2>2, <2>4, <2>6 DEF SameBut, CardFields, SameOverlays
  <1> QED
    BY <1>2, <1>3

LEMMA RebuildDisplay ==
    ASSUME NEW c, NEW S, IsCard(c, S), NEW d, d = rebuildDisplay(c)
    PROVE  IsCard(d, S) /\ SameBut({"tasks"}, c, d)
  <1>1. PICK t : d = [c EXCEPT !.tasks = t]
                 /\ DOMAIN t \subseteq DOMAIN c.confirmed \cup DOMAIN c.sticky \cup c.rows
    <2> DEFINE live == DOMAIN c.confirmed \ c.deletes
               revived == {i \in DOMAIN c.toggles : shouldReviveToggle(c, i)}
               t == [i \in live \cup revived \cup c.rows |->
                       CASE i \in live -> Overlaid(c, i, c.confirmed[i])
                         [] i \in revived -> Overlaid(c, i, c.sticky[i])
                         [] OTHER -> optimisticRowToItem(c, i)]
    <2>1. d = [c EXCEPT !.tasks = t]
      BY DEF rebuildDisplay
    <2>2. DOMAIN t = live \cup revived \cup c.rows
      OBVIOUS
    <2>3. live \subseteq DOMAIN c.confirmed /\ revived \subseteq DOMAIN c.sticky
      BY DEF shouldReviveToggle
    <2> HIDE DEF live, revived, t
    <2> QED
      BY <2>1, <2>2, <2>3
  <1> QED
    BY <1>1 DEF IsCard, CardFields, IdsWithin, SameBut

(* Renderings make up for what is owed.                                    *)
LEMMA RenderingOwes ==
    ASSUME NEW c, NEW S, IsCard(c, S), MarkedForLater(c), NEW d, d = renderAll(c)
    PROVE  Owes(d)
  <1>1. \/ d.sheet = NoSheet /\ d.owed = FALSE
        \/ d.sheet = c.sheet /\ d.owed = c.owed /\ d.renderLater = c.renderLater /\ c.sheet # NoSheet
    BY RenderAll
  <1> QED
    BY <1>1 DEF MarkedForLater, Owes

LEMMA ClearBanner ==
    ASSUME NEW c, NEW S, IsCard(c, S), NEW d, d = clearBanner(c)
    PROVE  IsCard(d, S) /\ SameBut({"banner"}, c, d)
  BY DEF clearBanner, IsCard, CardFields, IdsWithin, SameBut, NoBanner, IsBanner

(* Shown, and showAfterRollback, which leaves the banner.                  *)
LEMMA ShowAfterRollback ==
    ASSUME NEW c, NEW S, IsCard(c, S), MarkedForLater(c), NEW d, d = showAfterRollback(c)
    PROVE  IsCard(d, S) /\ SameOverlays(c, d) /\ Owes(d)
           /\ d.banner = c.banner /\ d.confirmed = c.confirmed /\ d.intents = c.intents
  <1>1. PICK b : b = rebuildDisplay(c)
    OBVIOUS
  <1>2. IsCard(b, S) /\ SameBut({"tasks"}, c, b)
    BY <1>1, RebuildDisplay
  <1>3. MarkedForLater(b)
    BY <1>2 DEF MarkedForLater, SameBut, CardFields
  <1>4. d = renderAll(b)
    BY <1>1 DEF showAfterRollback
  <1>5. /\ IsCard(d, S) /\ SameOverlays(b, d)
        /\ d.banner = b.banner /\ d.confirmed = b.confirmed /\ d.intents = b.intents
    BY <1>2, <1>4, RenderAll
  <1>6. Owes(d)
    BY <1>2, <1>3, <1>4, RenderingOwes
  <1> QED
    BY <1>2, <1>5, <1>6 DEF SameOverlays, SameBut, CardFields

LEMMA ShownCard ==
    ASSUME NEW c, NEW S, IsCard(c, S), MarkedForLater(c), NEW d, d = Shown(c)
    PROVE  IsCard(d, S) /\ SameOverlays(c, d) /\ Owes(d)
           /\ d.confirmed = c.confirmed /\ d.intents = c.intents
  <1>1. PICK b : b = clearBanner(c)
    OBVIOUS
  <1>2. IsCard(b, S) /\ SameBut({"banner"}, c, b)
    BY <1>1, ClearBanner
  <1>3. MarkedForLater(b)
    BY <1>2 DEF MarkedForLater, SameBut, CardFields
  <1>4. d = showAfterRollback(b)
    BY <1>1 DEF Shown, showAfterRollback
  <1>5. /\ IsCard(d, S) /\ SameOverlays(b, d) /\ Owes(d)
        /\ d.confirmed = b.confirmed /\ d.intents = b.intents
    BY <1>2, <1>3, <1>4, ShowAfterRollback
  <1> QED
    BY <1>2, <1>5 DEF SameOverlays, SameBut, CardFields

LEMMA GuardedRenderAll ==
    ASSUME NEW c, NEW S, IsCard(c, S), MarkedForLater(c), NEW d, d = guardedRenderAll(c)
    PROVE  IsCard(d, S) /\ SameOverlays(c, d) /\ Owes(d)
  <1>1. CASE shouldSkipDestructiveRender(c)
    BY <1>1 DEF guardedRenderAll, IsCard, CardFields, IdsWithin, SameOverlays, Owes,
                shouldSkipDestructiveRender
  <1>2. CASE ~shouldSkipDestructiveRender(c)
    <2>1. d = renderAll(c)
      BY <1>2 DEF guardedRenderAll
    <2> QED
      BY <2>1, RenderAll, RenderingOwes
  <1> QED
    BY <1>1, <1>2

LEMMA FlushPendingRender ==
    ASSUME NEW c, NEW S, IsCard(c, S), MarkedForLater(c), NEW d, d = flushPendingRenderIfIdle(c)
    PROVE  IsCard(d, S) /\ SameOverlays(c, d) /\ Owes(d)
  <1>1. CASE c.renderLater /\ ~shouldSkipDestructiveRender(c)
    <2>1. PICK b : b = [c EXCEPT !.renderLater = FALSE]
      OBVIOUS
    <2>2. IsCard(b, S) /\ SameBut({"renderLater"}, c, b)
      BY <2>1 DEF IsCard, CardFields, IdsWithin, SameBut
    <2>3. d = renderAll(b)
      BY <1>1, <2>1 DEF flushPendingRenderIfIdle
    <2>4. /\ IsCard(d, S) /\ SameOverlays(b, d)
          /\ \/ d.sheet = NoSheet /\ d.owed = FALSE
             \/ b.sheet # NoSheet
      BY <2>2, <2>3, RenderAll
    <2> QED
      BY <1>1, <2>2, <2>4 DEF SameOverlays, SameBut, CardFields, Owes, shouldSkipDestructiveRender
  <1>2. CASE ~(c.renderLater /\ ~shouldSkipDestructiveRender(c))
    BY <1>2 DEF flushPendingRenderIfIdle, SameOverlays, Owes, MarkedForLater,
                shouldSkipDestructiveRender
  <1> QED
    BY <1>1, <1>2

LEMMA CloseSheet ==
    ASSUME NEW c, NEW S, IsCard(c, S), NEW d, d = closeSheet(c)
    PROVE  IsCard(d, S) /\ SameOverlays(c, d) /\ d.owed = FALSE
  <1>1. PICK closed : closed = [c EXCEPT !.sheet = NoSheet]
    OBVIOUS
  <1>2. PICK later : later = [closed EXCEPT !.renderLater = FALSE]
    OBVIOUS
  <1>3. /\ IsCard(closed, S) /\ SameBut({"sheet"}, c, closed) /\ closed.sheet = NoSheet
        /\ IsCard(later, S) /\ SameBut({"sheet", "renderLater"}, c, later) /\ later.sheet = NoSheet
    BY <1>1, <1>2 DEF IsCard, CardFields, IdsWithin, SameBut
  <1>4. PICK drawn : drawn = renderAll(later)
    OBVIOUS
  <1>5. PICK b : b = setSheetState(c)
    OBVIOUS
  <1>6. b = closed \/ b = drawn
    BY <1>1, <1>2, <1>4, <1>5 DEF setSheetState
  <1>7. IsCard(drawn, S) /\ SameOverlays(later, drawn) /\ drawn.sheet = NoSheet
    BY <1>3, <1>4, RenderAll
  <1>8. IsCard(b, S) /\ SameOverlays(c, b) /\ b.sheet = NoSheet
    BY <1>3, <1>6, <1>7 DEF SameOverlays, SameBut, CardFields
  <1>9. d = renderAll(b)
    BY <1>5 DEF closeSheet
  <1>10. IsCard(d, S) /\ SameOverlays(b, d) /\ d.owed = FALSE
    BY <1>8, <1>9, RenderAll
  <1> QED
    BY <1>8, <1>10 DEF SameOverlays

LEMMA ApplyStructuredContent ==
    ASSUME NEW c, NEW S, IsCard(c, S), NEW vm, IsVm(vm, S), NEW d, d = applyStructuredContent(c, vm)
    PROVE  IsCard(d, S) /\ SameOverlays(c, d) /\ SameGate(c, d) /\ d.confirmed = vm.tasks
           /\ d.banner = c.banner
  <1>1. DOMAIN Empty = {}
    BY DEF Empty
  <1>2. PICK viewChanged : viewChanged = (vm.view \notin {"none", c.view})
    OBVIOUS
  <1>3. PICK c1 : c1 = IF viewChanged THEN resetPositionMemory(c) ELSE c
    OBVIOUS
  <1>4. PICK ghosts : ghosts = vm.removed \cup IF c.mounted /\ ~viewChanged
                                               THEN RemovedElsewhere(c, vm) ELSE {}
    OBVIOUS
  <1>5. PICK c2 : c2 = [c1 EXCEPT !.confirmed = vm.tasks, !.mounted = TRUE, !.base = vm.completed,
                         !.memory = Without(@, ghosts), !.sticky = Without(@, ghosts)]
    OBVIOUS
  <1>6. PICK e : e = rebuildDisplay(c2)
    OBVIOUS
  <1>7. PICK summary : summary = IF vm.summary = {} THEN e.summary
                                 ELSE CHOOSE s \in vm.summary : TRUE
    OBVIOUS
  <1>8. d = [e EXCEPT !.view = IF vm.view = "none" THEN "default" ELSE vm.view,
                      !.summary = summary,
                      !.fresh = @ \/ ~vm.stale]
    BY <1>2, <1>3, <1>4, <1>5, <1>6, <1>7, Zenon DEF applyStructuredContent
  <1>9. /\ c1 = [x \in CardFields |-> c1[x]] /\ SameBut({"memory", "sticky"}, c, c1)
        /\ DOMAIN c1.memory \subseteq S /\ DOMAIN c1.sticky \subseteq S
    BY <1>1, <1>3 DEF resetPositionMemory, IsCard, CardFields, IdsWithin, SameBut
  <1>10. IsCard(c1, S)
    BY <1>9 DEF IsCard, CardFields, SameBut, IdsWithin
  <1>11. PICK m : m = Without(c1.memory, ghosts)
    OBVIOUS
  <1>12. PICK y : y = Without(c1.sticky, ghosts)
    OBVIOUS
  <1>13. /\ c2 = [x \in CardFields |-> c2[x]]
         /\ SameBut({"memory", "sticky", "confirmed", "mounted", "base"}, c1, c2)
         /\ c2.memory = m /\ c2.sticky = y /\ c2.confirmed = vm.tasks /\ c2.base = vm.completed
    BY <1>5, <1>9, <1>11, <1>12 DEF CardFields, SameBut
  <1>14. DOMAIN m \subseteq S /\ DOMAIN y \subseteq S
    BY <1>9, <1>11, <1>12 DEF Without
  <1>15. IsCard(c2, S)
    BY <1>10, <1>13, <1>14 DEF IsCard, CardFields, SameBut, IdsWithin, IsVm
  <1>16. IsCard(e, S) /\ SameBut({"tasks"}, c2, e)
    BY <1>6, <1>15, RebuildDisplay
  <1>17. DOMAIN summary \subseteq S
    BY <1>7, <1>16 DEF IsVm, IsCard, IdsWithin
  <1>18. /\ d = [x \in CardFields |-> d[x]] /\ SameBut({"view", "summary", "fresh"}, e, d)
         /\ d.summary = summary
    BY <1>8, <1>16 DEF IsCard, CardFields, SameBut
  <1>19. IsCard(d, S)
    BY <1>16, <1>17, <1>18 DEF IsCard, CardFields, SameBut, IdsWithin
  <1>20. SameBut({"memory", "sticky", "confirmed", "mounted", "base", "tasks", "view", "summary",
                  "fresh"}, c, d) /\ d.confirmed = c2.confirmed
    BY <1>9, <1>13, <1>16, <1>18 DEF SameBut, CardFields
  <1> QED
    BY <1>13, <1>19, <1>20 DEF SameBut, CardFields, SameOverlays, SameGate

-----------------------------------------------------------------------------
(* A card, the calls on their way and the wishes fit together.             *)

Fits(c, ks, w) ==
    /\ IsCard(c, Ever) /\ (\A k \in ks : IsCall(k, Ever)) /\ DOMAIN w \subseteq Ever
    /\ Carried(c, ks) /\ Loops(c, ks) /\ Wishes(c, ks, w)

SameLoops(c, d) == d.toggles = c.toggles /\ d.desired = c.desired /\ d.sending = c.sending

(* Less is wished for.                                                     *)
Fewer(v, w) == DOMAIN v \subseteq DOMAIN w /\ \A i \in DOMAIN v : v[i] = w[i]

LEMMA FitsPlain ==
    ASSUME NEW c, NEW ks, NEW w, Fits(c, ks, w),
           NEW d, IsCard(d, Ever), SameLoops(c, d),
           NEW js, Carried(d, js), \A k \in js \ ks : IsCall(k, Ever) /\ ~InLoop(k),
           \A k \in ks \ js : ~InLoop(k),
           NEW v, Fewer(v, w)
    PROVE  Fits(d, js, v)
  <1>1. Carried(c, ks) /\ Loops(c, ks) /\ Wishes(c, ks, w)
    BY DEF Fits
  <1>2. (\A k \in js : IsCall(k, Ever)) /\ DOMAIN v \subseteq Ever
    BY DEF Fits, Fewer
  <1>3. Loops(d, js)
    BY <1>1 DEF Loops, SameLoops
  <1>4. Wishes(d, js, v)
    <2> SUFFICES ASSUME outside = 0
                 PROVE  /\ \A i \in DOMAIN v \cap d.sending : v[i] = d.desired[i]
                        /\ \A i \in (DOMAIN v \cap DOMAIN list) \ d.sending : list[i].done = v[i]
                        /\ \A k \in js : InLoop(k) /\ CarriedOut(k) => Told(k)
      BY DEF Wishes
    <2>1. /\ \A i \in DOMAIN w \cap c.sending : w[i] = c.desired[i]
          /\ \A i \in (DOMAIN w \cap DOMAIN list) \ c.sending : list[i].done = w[i]
          /\ \A k \in ks : InLoop(k) /\ CarriedOut(k) => Told(k)
      BY <1>1 DEF Wishes
    <2>2. \A i \in DOMAIN v : i \in DOMAIN w /\ v[i] = w[i]
      BY DEF Fewer
    <2>3. \A k \in js : InLoop(k) => k \in ks
      OBVIOUS
    <2>4. d.sending = c.sending /\ d.desired = c.desired
      BY DEF SameLoops
    <2>5. \A i \in (DOMAIN v \cap DOMAIN list) \ d.sending : list[i].done = v[i]
      <3> TAKE i \in (DOMAIN v \cap DOMAIN list) \ d.sending
      <3>1. i \in (DOMAIN w \cap DOMAIN list) \ c.sending /\ v[i] = w[i]
        BY <2>2, <2>4
      <3>2. list[i].done = w[i]
        BY <3>1, <2>1
      <3> QED
        BY <3>1, <3>2
    <2>6. \A i \in DOMAIN v \cap d.sending : v[i] = d.desired[i]
      BY <2>1, <2>2, <2>4
    <2>7. \A k \in js : InLoop(k) /\ CarriedOut(k) => Told(k)
      BY <2>1, <2>3
    <2> QED
      BY <2>5, <2>6, <2>7
  <1> QED
    BY <1>2, <1>3, <1>4 DEF Fits

LEMMA FewerSame == \A w : Fewer(w, w)
  BY DEF Fewer

LEMMA FewerWithout == \A w, S : Fewer(Without(w, S), w)
  BY DEF Fewer, Without

(* Nothing laid over the list changes, and no mutating call.               *)
LEMMA CarriedSame ==
    ASSUME NEW c, NEW ks, Carried(c, ks), NEW d, SameOverlays(c, d),
           NEW js, \A k \in ks \ js : k.tool = "refresh" /\ ~InLoop(k)
    PROVE  Carried(d, js)
  <1>1. \A i : \A tool \in Others : Under(ks, tool, i) => Under(js, tool, i)
    BY DEF Under, Others
  <1>2. \A i : (\E k \in ks : InLoop(k) /\ k.id = i) => \E k \in js : InLoop(k) /\ k.id = i
    OBVIOUS
  <1>3. {"delete", "edit", "create"} \subseteq Others
    BY DEF Others
  <1> QED
    BY <1>1, <1>2, <1>3 DEF Carried, SameOverlays

LEMMA FitsAlike ==
    ASSUME NEW c, NEW ks, NEW w, Fits(c, ks, w),
           NEW d, IsCard(d, Ever), SameOverlays(c, d),
           NEW js, \A k \in js \ ks : IsCall(k, Ever) /\ ~InLoop(k),
           \A k \in ks \ js : k.tool = "refresh" /\ ~InLoop(k)
    PROVE  Fits(d, js, w)
  <1>1. Carried(d, js)
    <2>1. Carried(c, ks)
      BY DEF Fits
    <2> QED
      BY <2>1, CarriedSame
  <1>2. SameLoops(c, d)
    BY DEF SameOverlays, SameLoops
  <1> QED
    BY <1>1, <1>2, FitsPlain, FewerSame

(* A deletion, an edit or a creation is sent.                              *)
OverlaidBy(c, d, k) ==
    /\ \A i \in d.deletes \ c.deletes : k.tool = "delete" /\ k.id = i
    /\ \A i \in DOMAIN d.edits \ DOMAIN c.edits : k.tool = "edit" /\ k.id = i
    /\ \A i \in d.rows \ c.rows : k.tool = "create" /\ k.id = i
    /\ \A i \in d.pending \ c.pending : k.id = i

LEMMA FitsSent ==
    ASSUME NEW c, NEW ks, NEW w, Fits(c, ks, w),
           NEW d, IsCard(d, Ever), SameLoops(c, d),
           NEW k, k.tool \in Others, IsCall(k, Ever), OverlaidBy(c, d, k),
           NEW v, Fewer(v, w)
    PROVE  Fits(d, ks \cup {k}, v)
  <1> DEFINE js == ks \cup {k}
  <1>1. ~InLoop(k)
    BY DEF InLoop, Others
  <1>2. Carried(d, js)
    <2>1. \A i, tool : Under(ks, tool, i) => Under(js, tool, i)
      BY DEF Under
    <2>2. Under(js, k.tool, k.id)
      BY DEF Under
    <2>3. Carried(c, ks) /\ d.sending = c.sending
      BY DEF Fits, SameLoops
    <2>4. \A i \in d.deletes : Under(js, "delete", i)
      BY <2>1, <2>2, <2>3 DEF Carried, OverlaidBy
    <2>5. \A i \in DOMAIN d.edits : Under(js, "edit", i)
      BY <2>1, <2>2, <2>3 DEF Carried, OverlaidBy
    <2>6. \A i \in d.rows : Under(js, "create", i)
      BY <2>1, <2>2, <2>3 DEF Carried, OverlaidBy
    <2>7. \A i \in d.sending : \E j \in js : InLoop(j) /\ j.id = i
      BY <2>3 DEF Carried
    <2>8. \A i \in d.pending \ d.sending : \E tool \in Others : Under(js, tool, i)
      BY <2>1, <2>2, <2>3 DEF Carried, OverlaidBy
    <2> QED
      BY <2>4, <2>5, <2>6, <2>7, <2>8 DEF Carried
  <1> QED
    BY <1>1, <1>2, FitsPlain

(* The answer of one, and the reading that may follow it.                  *)
TakenOff(c, d, k) ==
    /\ d.deletes \subseteq c.deletes /\ (k.tool = "delete" => k.id \notin d.deletes)
    /\ DOMAIN d.edits \subseteq DOMAIN c.edits /\ (k.tool = "edit" => k.id \notin DOMAIN d.edits)
    /\ d.rows \subseteq c.rows /\ (k.tool = "create" => k.id \notin d.rows)
    /\ d.pending \subseteq c.pending \ {k.id}

LEMMA FitsAnswered ==
    ASSUME NEW c, NEW ks, NEW w, Fits(c, ks, w),
           NEW d, IsCard(d, Ever), SameLoops(c, d),
           NEW k \in ks, k.tool \in Others, TakenOff(c, d, k),
           NEW js, ks \ {k} \subseteq js, \A j \in js \ ks : IsCall(j, Ever) /\ ~InLoop(j)
    PROVE  Fits(d, js, w)
  <1>1. ~InLoop(k)
    BY DEF InLoop, Others
  <1>2. Carried(d, js)
    <2>1. \A i, tool : Under(ks, tool, i) => Under(js, tool, i) \/ (tool = k.tool /\ i = k.id)
      BY DEF Under
    <2>3. Carried(c, ks) /\ d.sending = c.sending
      BY DEF Fits, SameLoops
    <2>4. \A i \in d.deletes : Under(js, "delete", i)
      BY <2>1, <2>3 DEF Carried, TakenOff
    <2>5. \A i \in DOMAIN d.edits : Under(js, "edit", i)
      BY <2>1, <2>3 DEF Carried, TakenOff
    <2>6. \A i \in d.rows : Under(js, "create", i)
      BY <2>1, <2>3 DEF Carried, TakenOff
    <2>7. \A i \in d.sending : \E j \in js : InLoop(j) /\ j.id = i
      BY <1>1, <2>3 DEF Carried
    <2>8. \A i \in d.pending \ d.sending : \E tool \in Others : Under(js, tool, i)
      BY <2>1, <2>3 DEF Carried, TakenOff
    <2> QED
      BY <2>4, <2>5, <2>6, <2>7, <2>8 DEF Carried
  <1> QED
    BY <1>1, <1>2, FitsPlain, FewerSame

(* A loop of toggles ends.                                                 *)
SettledAs(c, d, i) ==
    /\ d.toggles = Without(c.toggles, {i}) /\ d.desired = Without(c.desired, {i})
    /\ d.sending = c.sending \ {i} /\ d.pending = c.pending \ {i}
    /\ d.deletes = c.deletes /\ d.edits = c.edits /\ d.rows = c.rows

LEMMA FitsSettled ==
    ASSUME NEW c, NEW ks, NEW w, Fits(c, ks, w), NEW k \in ks, InLoop(k),
           NEW d, IsCard(d, Ever), SettledAs(c, d, k.id), NEW v, Fewer(v, w),
           outside = 0 /\ k.id \in DOMAIN v \cap DOMAIN list => list[k.id].done = w[k.id]
    PROVE  Fits(d, ks \ {k}, v)
  <1> DEFINE js == ks \ {k}
  <1>1. Carried(c, ks) /\ Loops(c, ks) /\ Wishes(c, ks, w)
    BY DEF Fits
  <1>2. k.tool \notin Others
    BY DEF InLoop, Others
  <1>3. Carried(d, js)
    <2>1. \A i : \A tool \in Others : Under(ks, tool, i) => Under(js, tool, i)
      BY <1>2 DEF Under
    <2>2. {"delete", "edit", "create"} \subseteq Others
      BY DEF Others
    <2>3. \A i \in d.sending : \E j \in js : InLoop(j) /\ j.id = i
      BY <1>1 DEF Carried, SettledAs
    <2> QED
      BY <1>1, <2>1, <2>2, <2>3 DEF Carried, SettledAs
  <1>4. Loops(d, js)
    <2>1. DOMAIN Without(c.desired, {k.id}) = DOMAIN c.desired \ {k.id}
      BY DEF Without
    <2>2. \A j \in js : InLoop(j) => j.id \in c.sending /\ j.id # k.id
      BY <1>1 DEF Loops
    <2>3. d.toggles = d.desired /\ DOMAIN d.desired = d.sending
      BY <1>1, <2>1 DEF Loops, SettledAs
    <2>4. \A j \in js : InLoop(j) => j.id \in d.sending
      BY <2>2 DEF SettledAs
    <2>5. \A j, l \in js : InLoop(j) /\ InLoop(l) /\ j.id = l.id => j = l
      BY <1>1 DEF Loops
    <2> QED
      BY <2>3, <2>4, <2>5 DEF Loops
  <1>5. Wishes(d, js, v)
    <2> SUFFICES ASSUME outside = 0
                 PROVE  /\ \A i \in DOMAIN v \cap d.sending : v[i] = d.desired[i]
                        /\ \A i \in (DOMAIN v \cap DOMAIN list) \ d.sending : list[i].done = v[i]
                        /\ \A j \in js : InLoop(j) /\ CarriedOut(j) => Told(j)
      BY DEF Wishes
    <2>1. /\ \A i \in DOMAIN w \cap c.sending : w[i] = c.desired[i]
          /\ \A i \in (DOMAIN w \cap DOMAIN list) \ c.sending : list[i].done = w[i]
          /\ \A j \in ks : InLoop(j) /\ CarriedOut(j) => Told(j)
      BY <1>1 DEF Wishes
    <2>2. \A i \in DOMAIN v : i \in DOMAIN w /\ v[i] = w[i]
      BY DEF Fewer
    <2>3. d.sending = c.sending \ {k.id} /\ d.desired = Without(c.desired, {k.id})
      BY DEF SettledAs
    <2>4. \A i \in d.sending : d.desired[i] = c.desired[i]
      <3>1. DOMAIN c.desired = c.sending
        BY <1>1 DEF Loops
      <3> QED
        BY <2>3, <3>1 DEF Without
    <2>5. \A i \in DOMAIN v \cap d.sending : v[i] = d.desired[i]
      BY <2>1, <2>2, <2>3, <2>4
    <2>6. \A i \in (DOMAIN v \cap DOMAIN list) \ d.sending : list[i].done = v[i]
      <3> TAKE i \in (DOMAIN v \cap DOMAIN list) \ d.sending
      <3>1. CASE i = k.id
        BY <3>1, <2>2
      <3>2. CASE i # k.id
        <4>1. i \in (DOMAIN w \cap DOMAIN list) \ c.sending /\ v[i] = w[i]
          BY <3>2, <2>2, <2>3
        <4> QED
          BY <4>1, <2>1
      <3> QED
        BY <3>1, <3>2
    <2> QED
      BY <2>1, <2>5, <2>6
  <1>6. (\A j \in js : IsCall(j, Ever)) /\ DOMAIN v \subseteq Ever
    BY DEF Fits, Fewer
  <1> QED
    BY <1>3, <1>4, <1>5, <1>6 DEF Fits

-----------------------------------------------------------------------------
(* The calls the card makes.                                               *)

LEMMA NewCalls ==
    ASSUME NEW tool \in Mutating, NEW i, NEW arg, NEW row, NEW k, k = NewCall(tool, i, arg, row)
    PROVE  /\ tool # "toggle" \/ i \in Ever => IsCall(k, Ever)
           /\ k.tool = tool /\ k.id = i /\ k.arg = arg /\ k.at = "sent" /\ k.row = row
  <1>1. DOMAIN Empty = {}
    BY DEF Empty
  <1>2. k = [f \in CallFields |-> k[f]]
    BY DEF NewCall, CallFields
  <1>3. /\ k.tool = tool /\ k.id = i /\ k.arg = arg /\ k.at = "sent" /\ k.row = row
        /\ k.cont = "none" /\ k.meta = NoMeta /\ k.tasks = Empty /\ k.summary = {}
    BY DEF NewCall
  <1> QED
    BY <1>1, <1>2, <1>3 DEF IsCall, NoMeta, Mutating

LEMMA Refreshes ==
    ASSUME NEW cont, cont # "push", cont # "toggle", NEW k, k = Refresh(cont)
    PROVE  IsCall(k, Ever) /\ k.tool = "refresh" /\ ~InLoop(k)
  <1>1. DOMAIN Empty = {}
    BY DEF Empty
  <1>2. k = [f \in CallFields |-> k[f]]
    BY DEF Refresh, NewCall, CallFields
  <1>3. /\ k.tool = "refresh" /\ k.cont = cont /\ k.meta = NoMeta /\ k.tasks = Empty
        /\ k.summary = {}
    BY DEF Refresh, NewCall
  <1> QED
    BY <1>1, <1>2, <1>3 DEF IsCall, NoMeta, Mutating, InLoop

(* The reading that takes the place of an answer.                          *)
LEMMA Rereads ==
    ASSUME NEW k, IsCall(k, Ever), k.tool \in Mutating,
           NEW r, r = [Refresh(k.tool) EXCEPT !.id = k.id, !.arg = k.arg, !.row = k.row,
                                              !.meta = k.meta]
    PROVE  /\ IsCall(r, Ever) /\ r.tool = "refresh" /\ r.cont = k.tool
           /\ r.id = k.id /\ r.arg = k.arg
  <1>1. DOMAIN Empty = {}
    BY DEF Empty
  <1>2. r = [f \in CallFields |-> r[f]]
    BY DEF Refresh, NewCall, CallFields
  <1>3. /\ r.tool = "refresh" /\ r.cont = k.tool /\ r.meta = k.meta /\ r.tasks = Empty
        /\ r.summary = {} /\ r.id = k.id /\ r.arg = k.arg
    BY DEF Refresh, NewCall
  <1> QED
    BY <1>1, <1>2, <1>3 DEF IsCall, Mutating

(* The pushed answer that is read again.                                   *)
LEMMA PushedRefresh ==
    ASSUME NEW vm, IsVm(vm, Ever), NEW k, k = [Refresh("push") EXCEPT !.pushed = {vm}]
    PROVE  IsCall(k, Ever) /\ k.tool = "refresh" /\ ~InLoop(k)
  <1>1. DOMAIN Empty = {}
    BY DEF Empty
  <1>2. k = [f \in CallFields |-> k[f]]
    BY DEF Refresh, NewCall, CallFields
  <1>3. /\ k.tool = "refresh" /\ k.cont = "push" /\ k.meta = NoMeta /\ k.tasks = Empty
        /\ k.summary = {} /\ k.pushed = {vm}
    BY DEF Refresh, NewCall
  <1> QED
    BY <1>1, <1>2, <1>3 DEF IsCall, NoMeta, Mutating, InLoop

-----------------------------------------------------------------------------
(* The loop of toggles of a task.                                          *)

LEMMA FitsToggled ==
    ASSUME NEW c, NEW ks, Fits(c, ks, wish), MarkedForLater(c), NEW i \in Ever, NEW others,
           others = ks, NEW shown, SendToggle(c, others, i, shown)
    PROVE  Fits(card', calls', wish') /\ Owes(card')
  <1> DEFINE on == ~shown
  <1>1. PICK b : b = startCommitting([c EXCEPT !.toggles = (i :> on) @@ @,
                                               !.desired = (i :> on) @@ @,
                                               !.sending = @ \cup {i}], i)
    OBVIOUS
  <1>2. /\ b = [f \in CardFields |-> b[f]]
        /\ SameBut({"toggles", "desired", "sending", "pending", "timers"}, c, b)
        /\ b.toggles = (i :> on) @@ c.toggles /\ b.desired = (i :> on) @@ c.desired
        /\ b.sending = c.sending \cup {i} /\ b.pending = c.pending \cup {i}
    BY <1>1 DEF Fits, IsCard, CardFields, startCommitting, SameBut
  <1>3. IsCard(b, Ever) /\ MarkedForLater(b)
    BY <1>2 DEF Fits, IsCard, CardFields, SameBut, IdsWithin, MarkedForLater
  <1>4. card' = Shown(b)
    BY <1>1 DEF SendToggle
  <1>5. IsCard(card', Ever) /\ SameOverlays(b, card') /\ Owes(card')
    BY <1>3, <1>4, ShownCard
  <1>6. /\ card'.toggles = (i :> on) @@ c.toggles /\ card'.desired = (i :> on) @@ c.desired
        /\ card'.sending = c.sending \cup {i} /\ card'.pending = c.pending \cup {i}
        /\ card'.deletes = c.deletes /\ card'.edits = c.edits /\ card'.rows = c.rows
    BY <1>2, <1>5 DEF SameOverlays, SameBut, CardFields
  <1>7. PICK k : k = NewCall("toggle", i, on, shown)
    OBVIOUS
  <1>8. IsCall(k, Ever) /\ k.tool = "toggle" /\ k.id = i /\ k.at = "sent"
    BY <1>7, NewCalls DEF Mutating
  <1>9. InLoop(k) /\ ~CarriedOut(k)
    BY <1>8 DEF InLoop, CarriedOut
  <1>10. /\ calls' = ks \cup IF i \in c.sending THEN {} ELSE {k}
         /\ wish' = (i :> on) @@ wish
    BY <1>7 DEF SendToggle
  <1>11. Carried(c, ks) /\ Loops(c, ks) /\ Wishes(c, ks, wish)
    BY DEF Fits
  <1>12. DOMAIN (i :> on) = {i} /\ (i :> on)[i] = on
    BY DEF :>
  <1>13. Carried(card', calls')
    <2>1. \A j, tool : Under(ks, tool, j) => Under(calls', tool, j)
      BY <1>10 DEF Under
    <2>2. \A j \in c.pending \ c.sending : \E tool \in Others : Under(ks, tool, j)
      BY <1>11 DEF Carried
    <2>3. \A j \in card'.pending \ card'.sending : \E tool \in Others : Under(calls', tool, j)
      BY <1>6, <2>1, <2>2
    <2>4. \A j \in card'.sending : \E l \in calls' : InLoop(l) /\ l.id = j
      <3>1. \A j \in c.sending : \E l \in calls' : InLoop(l) /\ l.id = j
        BY <1>10, <1>11 DEF Carried
      <3>2. i \notin c.sending => k \in calls'
        BY <1>10
      <3> QED
        BY <1>6, <1>8, <1>9, <3>1, <3>2
    <2> QED
      BY <1>6, <1>11, <2>1, <2>3, <2>4 DEF Carried
  <1>14. Loops(card', calls')
    <2>1. DOMAIN card'.desired = card'.sending
      <3>1. DOMAIN card'.desired = DOMAIN (i :> on) \cup DOMAIN c.desired
        BY <1>6, MergedDomain
      <3> QED
        BY <1>6, <1>11, <1>12, <3>1 DEF Loops
    <2>2. card'.toggles = card'.desired
      BY <1>6, <1>11 DEF Loops
    <2>3. \A l \in calls' : InLoop(l) => l.id \in card'.sending
      BY <1>6, <1>8, <1>10, <1>11 DEF Loops
    <2>4. \A j, l \in calls' : InLoop(j) /\ InLoop(l) /\ j.id = l.id => j = l
      BY <1>8, <1>10, <1>11 DEF Loops
    <2> QED
      BY <2>1, <2>2, <2>3, <2>4 DEF Loops
  <1>15. Wishes(card', calls', wish')
    <2> SUFFICES ASSUME outside = 0
                 PROVE  /\ \A j \in DOMAIN wish' \cap card'.sending : wish'[j] = card'.desired[j]
                        /\ \A j \in (DOMAIN wish' \cap DOMAIN list) \ card'.sending :
                                list[j].done = wish'[j]
                        /\ \A l \in calls' : InLoop(l) /\ CarriedOut(l) => Told(l)
      BY DEF Wishes
    <2>1. /\ \A j \in DOMAIN wish \cap c.sending : wish[j] = c.desired[j]
          /\ \A j \in (DOMAIN wish \cap DOMAIN list) \ c.sending : list[j].done = wish[j]
          /\ \A l \in ks : InLoop(l) /\ CarriedOut(l) => Told(l)
      BY <1>11 DEF Wishes
    <2>2. DOMAIN c.desired = c.sending
      BY <1>11 DEF Loops
    <2>3. DOMAIN wish' = {i} \cup DOMAIN wish
      BY <1>10, <1>12, MergedDomain
    <2>4. wish'[i] = on /\ card'.desired[i] = on
      BY <1>6, <1>10, <1>12 DEF @@
    <2>5. \A j \in DOMAIN wish \ {i} : wish'[j] = wish[j]
      BY <1>10, <1>12 DEF @@
    <2>6. \A j \in c.sending \ {i} : card'.desired[j] = c.desired[j]
      BY <1>6, <1>12, <2>2 DEF @@
    <2>7. \A j \in DOMAIN wish' \cap card'.sending : wish'[j] = card'.desired[j]
      BY <1>6, <2>1, <2>3, <2>4, <2>5, <2>6
    <2>8. \A j \in (DOMAIN wish' \cap DOMAIN list) \ card'.sending : list[j].done = wish'[j]
      BY <1>6, <2>1, <2>3, <2>5
    <2>9. \A l \in calls' : InLoop(l) /\ CarriedOut(l) => Told(l)
      BY <1>9, <1>10, <2>1
    <2> QED
      BY <2>7, <2>8, <2>9
  <1>16. (\A l \in calls' : IsCall(l, Ever)) /\ DOMAIN wish' \subseteq Ever
    <2>1. DOMAIN wish' = {i} \cup DOMAIN wish
      BY <1>10, <1>12, MergedDomain
    <2> QED
      BY <1>8, <1>10, <2>1 DEF Fits
  <1> QED
    BY <1>5, <1>13, <1>14, <1>15, <1>16 DEF Fits

LEMMA FitsFlushed ==
    ASSUME NEW c, NEW ks, Fits(c, ks, wish), NEW k \in ks, InLoop(k), CarriedOut(k),
           NEW n, n.id = k.id, n.arg = k.arg, NEW others, others = ks \ {k},
           flushToggle(c, others, n)
    PROVE  Fits(card', calls', wish') /\ SameGate(c, card')
  <1>1. wish' = wish
    BY DEF flushToggle
  <1>2. Carried(c, ks) /\ Loops(c, ks) /\ Wishes(c, ks, wish)
    BY DEF Fits
  <1>3. k.id \in Ever
    BY DEF Fits, IsCall, InLoop
  <1>4. k.id \in c.sending /\ DOMAIN c.desired = c.sending
    BY <1>2 DEF Loops
  <1>5. CASE coalesceAction(c, n.id, n.arg) = "resend"
    <2>1. PICK l : l = NewCall("toggle", k.id, c.desired[k.id], n.row)
      OBVIOUS
    <2>2. card' = c /\ calls' = others \cup {l}
      BY <1>5, <2>1 DEF flushToggle
    <2>3. IsCall(l, Ever) /\ l.tool = "toggle" /\ l.id = k.id /\ l.at = "sent"
      BY <1>3, <2>1, NewCalls DEF Mutating
    <2>4. InLoop(l) /\ ~CarriedOut(l)
      BY <2>3 DEF InLoop, CarriedOut
    <2>5. k.tool \notin Others
      BY DEF InLoop, Others
    <2>6. Carried(c, calls')
      <3>1. \A i : \A tool \in Others : Under(ks, tool, i) => Under(calls', tool, i)
        BY <2>2, <2>5 DEF Under
      <3>2. {"delete", "edit", "create"} \subseteq Others
        BY DEF Others
      <3>3. \A i \in c.sending : \E j \in calls' : InLoop(j) /\ j.id = i
        BY <1>2, <2>2, <2>3, <2>4 DEF Carried
      <3> QED
        BY <1>2, <3>1, <3>2, <3>3 DEF Carried
    <2>7. Loops(c, calls')
      <3>1. \A j \in calls' : InLoop(j) => j.id \in c.sending
        BY <1>2, <1>4, <2>2, <2>3 DEF Loops
      <3>2. \A j \in others : InLoop(j) => j.id # k.id
        BY <1>2 DEF Loops
      <3>3. \A i, j \in calls' : InLoop(i) /\ InLoop(j) /\ i.id = j.id => i = j
        BY <1>2, <2>2, <2>3, <3>2 DEF Loops
      <3> QED
        BY <1>2, <3>1, <3>3 DEF Loops
    <2>8. Wishes(c, calls', wish)
      BY <1>2, <2>2, <2>4 DEF Wishes
    <2>9. \A j \in calls' : IsCall(j, Ever)
      BY <2>2, <2>3 DEF Fits
    <2> QED
      BY <1>1, <2>2, <2>6, <2>7, <2>8, <2>9 DEF Fits, SameGate
  <1>6. CASE coalesceAction(c, n.id, n.arg) # "resend"
    <2>1. card' = Settled(c, k.id) /\ calls' = ks \ {k}
      BY <1>6 DEF flushToggle
    <2>2. c.desired[k.id] = k.arg
      BY <1>4, <1>6 DEF coalesceAction
    <2>3. /\ card' = [f \in CardFields |-> card'[f]]
          /\ SameBut({"desired", "toggles", "pending", "sending"}, c, card')
          /\ SettledAs(c, card', k.id)
      BY <2>1 DEF Fits, IsCard, CardFields, SameBut, Settled, SettledAs
    <2>4. IsCard(card', Ever) /\ SameGate(c, card')
      BY <2>3 DEF Fits, IsCard, CardFields, SameBut, IdsWithin, SameGate
    <2>5. outside = 0 /\ k.id \in DOMAIN wish \cap DOMAIN list => list[k.id].done = wish[k.id]
      BY <1>2, <1>4, <2>2 DEF Wishes, Told
    <2>6. Fits(card', ks \ {k}, wish)
      BY <2>3, <2>4, <2>5, FitsSettled, FewerSame
    <2> QED
      BY <1>1, <2>1, <2>4, <2>6
  <1> QED
    BY <1>5, <1>6

(* The taps queued on a row whose creation was answered.                   *)
LEMMA FitsQueued ==
    ASSUME NEW c, NEW ks, Fits(c, ks, wish), Owes(c), NEW n, NEW others, others = ks,
           applyQueuedToggle(c, others, n)
    PROVE  Fits(card', calls', wish') /\ Owes(card')
  <1>1. PICK b : b = [c EXCEPT !.intents = Without(@, {n.id})]
    OBVIOUS
  <1>2. b = [f \in CardFields |-> b[f]] /\ SameBut({"intents"}, c, b)
    BY <1>1 DEF Fits, IsCard, CardFields, SameBut
  <1>3. IsCard(b, Ever) /\ SameOverlays(c, b) /\ Owes(b) /\ b.confirmed = c.confirmed
    BY <1>2 DEF Fits, IsCard, CardFields, SameBut, IdsWithin, SameOverlays, Owes
  <1>4. Fits(b, ks, wish)
    BY <1>3, FitsAlike
  <1>5. PICK open : open = {i \in n.meta.touched \cap DOMAIN c.confirmed : ~c.confirmed[i].done}
    OBVIOUS
  <1>6. \/ open # {} /\ SendToggle(b, others, CHOOSE i \in open : TRUE, FALSE)
        \/ card' = b /\ calls' = others /\ wish' = wish
    BY <1>1, <1>5, Zenon DEF applyQueuedToggle
  <1>7. CASE open # {} /\ SendToggle(b, others, CHOOSE i \in open : TRUE, FALSE)
    <2>1. PICK i : i = CHOOSE j \in open : TRUE
      OBVIOUS
    <2>2. i \in open
      BY <1>7, <2>1
    <2>3. i \in Ever
      BY <1>5, <2>2 DEF Fits, IsCard, IdsWithin
    <2>4. SendToggle(b, others, i, FALSE)
      BY <1>7, <2>1
    <2>5. MarkedForLater(b)
      BY <1>3 DEF Owes, MarkedForLater
    <2> QED
      BY <1>4, <2>3, <2>4, <2>5, FitsToggled
  <1>8. CASE card' = b /\ calls' = others /\ wish' = wish
    BY <1>3, <1>4, <1>8
  <1> QED
    BY <1>6, <1>7, <1>8

(* A call that goes on, without the card's doing, or is read after.        *)
LEMMA Moves ==
    ASSUME CardInv, NEW k \in calls, NEW m, m.id = k.id, m.arg = k.arg, InLoop(m) <=> InLoop(k),
           k.tool \in Others => m.tool = k.tool,
           calls' = (calls \ {k}) \cup {m}, UNCHANGED <<card, wish, mix, outside>>,
           IsTaskList(list'), Ever \subseteq Ever', IsCall(m, Ever'),
           \A i \in DOMAIN list' \cap Ever :
               /\ i \in DOMAIN list
               /\ \/ list'[i].done = list[i].done
                  \/ InLoop(k) /\ k.id = i /\ list'[i].done = k.arg,
           InLoop(m) /\ CarriedOut(m) /\ m.id \in DOMAIN list' =>
               CarriedOut(k) \/ list'[m.id].done = m.arg
    PROVE  CardInv'
  <1>1. /\ IsCard(card, Ever) /\ (\A j \in calls : IsCall(j, Ever)) /\ DOMAIN wish \subseteq Ever
        /\ Carried(card, calls) /\ Loops(card, calls) /\ Wishes(card, calls, wish)
        /\ Owes(card) /\ mix \in Gestures /\ outside \in Nat
    BY DEF CardInv, Shapes, RenderOwed, OverlaidByCalls, WishesKept
  <1>2. Shapes'
    <2>1. IsCard(card, Ever')
      BY <1>1 DEF IsCard, IdsWithin, IsBanner
    <2>2. \A j \in calls : IsCall(j, Ever')
      <3> TAKE j \in calls
      <3>1. IsCall(j, Ever)
        BY <1>1
      <3>2. ASSUME NEW vm, IsVm(vm, Ever) PROVE IsVm(vm, Ever')
        BY <3>2 DEF IsVm
      <3> QED
        BY <3>1, <3>2 DEF IsCall
    <2>3. DOMAIN wish' \subseteq Ever'
      BY <1>1
    <2> QED
      BY <1>1, <2>1, <2>2, <2>3 DEF Shapes
  <1>3. Carried(card, calls')
    <2>1. \A i : \A tool \in Others : Under(calls, tool, i) => Under(calls', tool, i)
      BY DEF Under
    <2>2. {"delete", "edit", "create"} \subseteq Others
      BY DEF Others
    <2>3. \A i \in card.sending : \E j \in calls' : InLoop(j) /\ j.id = i
      BY <1>1 DEF Carried
    <2> QED
      BY <1>1, <2>1, <2>2, <2>3 DEF Carried
  <1>4. Loops(card, calls')
    BY <1>1 DEF Loops
  <1>5. Wishes(card, calls, wish)' 
    <2> SUFFICES ASSUME outside = 0
                 PROVE  /\ \A i \in DOMAIN wish \cap card.sending : wish[i] = card.desired[i]
                        /\ \A i \in (DOMAIN wish \cap DOMAIN list') \ card.sending :
                                list'[i].done = wish[i]
                        /\ \A j \in calls' : InLoop(j) /\ CarriedOut(j) => Told(j)'
      BY DEF Wishes, InLoop, CarriedOut
    <2>1. /\ \A i \in DOMAIN wish \cap card.sending : wish[i] = card.desired[i]
          /\ \A i \in (DOMAIN wish \cap DOMAIN list) \ card.sending : list[i].done = wish[i]
          /\ \A j \in calls : InLoop(j) /\ CarriedOut(j) => Told(j)
      BY <1>1 DEF Wishes
    <2>2. \A j \in calls : InLoop(j) => j.id \in card.sending
      BY <1>1 DEF Loops
    <2>3. ASSUME NEW i \in (DOMAIN wish \cap DOMAIN list') \ card.sending
          PROVE  list'[i].done = wish[i]
      <3>1. i \in DOMAIN list /\ ~(InLoop(k) /\ k.id = i)
        BY <1>1, <2>2
      <3> QED
        BY <1>1, <2>1, <3>1
    <2>4. ASSUME NEW j \in calls', InLoop(j), CarriedOut(j), j.id \in DOMAIN list'
          PROVE  list'[j.id].done = j.arg
      <3>1. CASE j = m /\ ~CarriedOut(k)
        BY <2>4, <3>1
      <3>2. CASE j = m /\ CarriedOut(k)
        <4>1. InLoop(k) /\ k.id \in Ever /\ j.id = k.id /\ j.arg = k.arg
          BY <1>1, <2>4, <3>2 DEF IsCall, InLoop
        <4>2. Told(k)
          BY <2>1, <3>2, <4>1
        <4> QED
          BY <2>4, <4>1, <4>2 DEF Told
      <3>3. CASE j # m
        <4>1. j \in calls /\ j # k /\ j.id \in Ever
          BY <1>1, <2>4, <3>3 DEF IsCall, InLoop
        <4>2. Told(j)
          BY <2>1, <2>4, <4>1
        <4>3. ~(InLoop(k) /\ k.id = j.id)
          BY <1>1, <2>4, <4>1 DEF Loops
        <4> QED
          BY <2>4, <4>1, <4>2, <4>3 DEF Told
      <3> QED
        BY <3>1, <3>2, <3>3
    <2> QED
      BY <2>1, <2>3, <2>4 DEF Told
  <1> QED
    BY <1>1, <1>2, <1>3, <1>4, <1>5 DEF CardInv, RenderOwed, OverlaidByCalls, WishesKept,
                                        Owes, Carried, Loops, Under, InLoop

-----------------------------------------------------------------------------
(* Steps of the card: the server's list stays as it is.                    *)

LEMMA InvFits ==
    ASSUME CardInv
    PROVE  Fits(card, calls, wish) /\ Owes(card) /\ MarkedForLater(card) /\ IsCard(card, Ever)
  BY DEF CardInv, Shapes, RenderOwed, OverlaidByCalls, WishesKept, Fits, Owes, MarkedForLater

LEMMA FitsInv ==
    ASSUME CardInv, UNCHANGED <<list, gone, mix, outside>>,
           Fits(card', calls', wish'), Owes(card')
    PROVE  CardInv'
  <1>1. Ever' = Ever
    BY DEF Ever
  <1>2. Shapes'
    BY <1>1 DEF CardInv, Shapes, Fits, IsTaskList
  <1>3. OverlaidByCalls' /\ RenderOwed' /\ WishesKept'
    BY DEF Fits, OverlaidByCalls, RenderOwed, WishesKept, Carried, Loops, Wishes, Owes, Under,
           InLoop, CarriedOut, Told
  <1> QED
    BY <1>2, <1>3 DEF CardInv

(* Steps that only draw, read and note.                                    *)
QuietStep ==
    /\ IsCard(card', Ever) /\ SameOverlays(card, card') /\ Owes(card')
    /\ \A k \in calls' \ calls : IsCall(k, Ever) /\ ~InLoop(k)
    /\ \A k \in calls \ calls' : k.tool = "refresh" /\ ~InLoop(k)
    /\ UNCHANGED <<list, gone, mix, outside, wish>>

LEMMA QuietStepKeeps ==
    ASSUME CardInv, QuietStep
    PROVE  CardInv'
  <1>1. Fits(card, calls, wish)
    BY InvFits
  <1>2. Fits(card', calls', wish)
    BY <1>1, FitsAlike DEF QuietStep
  <1> QED
    BY <1>2, FitsInv DEF QuietStep

LEMMA LeaveSheet == ASSUME CardInv, leaveSheet PROVE CardInv'
  <1>1. IsCard(card', Ever) /\ SameOverlays(card, card') /\ card'.owed = FALSE
    BY InvFits, CloseSheet DEF leaveSheet
  <1> QED
    BY <1>1, QuietStepKeeps DEF leaveSheet, QuietStep, Owes

LEMMA OpenDetail == ASSUME CardInv, NEW i, openDetail(i) PROVE CardInv'
  <1>1. PICK b : b = [card EXCEPT !.sheet = i]
    OBVIOUS
  <1>2. b = [f \in CardFields |-> b[f]] /\ SameBut({"sheet"}, card, b)
    BY <1>1, InvFits DEF IsCard, CardFields, SameBut
  <1>3. IsCard(b, Ever) /\ SameOverlays(card, b) /\ MarkedForLater(b)
    BY <1>2, InvFits DEF IsCard, CardFields, SameBut, IdsWithin, SameOverlays, MarkedForLater
  <1>4. card' = renderAll(b)
    BY <1>1 DEF openDetail
  <1>5. IsCard(card', Ever) /\ SameOverlays(b, card') /\ Owes(card')
    BY <1>3, <1>4, RenderAll, RenderingOwes
  <1> QED
    BY <1>3, <1>5, QuietStepKeeps DEF openDetail, Gesture, QuietStep, SameOverlays

LEMMA TypeBlur == ASSUME CardInv, Type \/ Blur \/ StaleTimePasses PROVE CardInv'
  <1>1. /\ card' = [f \in CardFields |-> card'[f]]
        /\ SameBut({"draft", "focused", "blurred", "fresh"}, card, card')
        /\ \/ card'.focused = card.focused /\ card'.blurred = card.blurred
           \/ card'.blurred = TRUE
    BY InvFits DEF Type, Blur, StaleTimePasses, IsCard, CardFields, SameBut
  <1>2. IsCard(card', Ever) /\ SameOverlays(card, card') /\ Owes(card')
    BY <1>1, InvFits DEF IsCard, CardFields, SameBut, IdsWithin, SameOverlays, Owes
  <1> QED
    BY <1>2, QuietStepKeeps DEF Type, Blur, StaleTimePasses, QuietStep

LEMMA CommittingEnd == ASSUME CardInv, NEW i, CommittingEnds(i) PROVE CardInv'
  <1>1. PICK b : b = [card EXCEPT !.timers = @ \ {i}]
    OBVIOUS
  <1>2. b = [f \in CardFields |-> b[f]] /\ SameBut({"timers"}, card, b)
    BY <1>1, InvFits DEF IsCard, CardFields, SameBut
  <1>3. IsCard(b, Ever) /\ SameOverlays(card, b) /\ MarkedForLater(b)
    BY <1>2, InvFits DEF IsCard, CardFields, SameBut, IdsWithin, SameOverlays, MarkedForLater
  <1>4. card' = renderAll(b)
    BY <1>1 DEF CommittingEnds
  <1>5. IsCard(card', Ever) /\ SameOverlays(b, card') /\ Owes(card')
    BY <1>3, <1>4, RenderAll, RenderingOwes
  <1> QED
    BY <1>3, <1>5, QuietStepKeeps DEF CommittingEnds, QuietStep, SameOverlays

LEMMA ContextChanged == ASSUME CardInv, hostcontextchanged PROVE CardInv'
  <1>1. IsCard(card', Ever) /\ SameOverlays(card, card') /\ Owes(card')
    BY InvFits, GuardedRenderAll DEF hostcontextchanged
  <1> QED
    BY <1>1, QuietStepKeeps DEF hostcontextchanged, Gesture, QuietStep

(* maybeRefetch sends at most a reading.                                   *)
LEMMA Refetches ==
    ASSUME NEW c, NEW others, NEW js, js = maybeRefetch(c, others)
    PROVE  \/ js = others
           \/ \E k : js = others \cup {k} /\ IsCall(k, Ever) /\ k.tool = "refresh" /\ ~InLoop(k)
  <1>1. PICK k : k = Refresh("refetch")
    OBVIOUS
  <1>2. IsCall(k, Ever) /\ k.tool = "refresh" /\ ~InLoop(k)
    BY <1>1, Refreshes
  <1> QED
    BY <1>1, <1>2 DEF maybeRefetch

LEMMA FocusReturns == ASSUME CardInv, MaybeRefetch PROVE CardInv'
  <1>1. \A k \in calls' \ calls : IsCall(k, Ever) /\ ~InLoop(k)
    BY Refetches DEF MaybeRefetch
  <1>2. calls \subseteq calls'
    BY Refetches DEF MaybeRefetch
  <1>3. SameOverlays(card, card')
    BY DEF MaybeRefetch, SameOverlays
  <1> QED
    BY <1>1, <1>2, <1>3, InvFits, QuietStepKeeps DEF MaybeRefetch, Gesture, QuietStep

LEMMA Listings ==
    ASSUME IsTaskList(list), NEW view
    PROVE  DOMAIN Listed(view) \subseteq Ever /\ DOMAIN Recent \subseteq Ever
  BY DEF Listed, Recent, Ever

LEMMA ToolResult == ASSUME CardInv, NEW view, NEW stale, ontoolresult(view, stale) PROVE CardInv'
  <1>1. PICK vm : vm = Pushed(view, stale)
    OBVIOUS
  <1>2. IsVm(vm, Ever)
    <2>1. DOMAIN Empty = {}
      BY DEF Empty
    <2>2. DOMAIN Listed(view) \subseteq Ever /\ DOMAIN Recent \subseteq Ever
      BY Listings DEF CardInv, Shapes
    <2>3. DOMAIN mix.old \subseteq Ever
      BY DEF Ever
    <2>4. /\ vm.tasks = IF stale THEN mix.old ELSE Listed(view)
          /\ vm.summary = {IF stale THEN Empty ELSE Recent}
          /\ vm.completed = Empty
      BY <1>1 DEF Pushed, Vm, NewCall, NoMeta
    <2> QED
      BY <2>1, <2>2, <2>3, <2>4 DEF IsVm
  <1>3. PICK a : a = applyStructuredContent(card, vm)
    OBVIOUS
  <1>4. IsCard(a, Ever) /\ SameOverlays(card, a) /\ SameGate(card, a)
    BY <1>2, <1>3, InvFits, ApplyStructuredContent
  <1>5. PICK c : c = guardedRenderAll(a)
    OBVIOUS
  <1>6. MarkedForLater(a)
    BY <1>4, InvFits DEF SameGate, MarkedForLater
  <1>7. IsCard(c, Ever) /\ SameOverlays(a, c) /\ Owes(c)
    BY <1>4, <1>5, <1>6, GuardedRenderAll
  <1>8. PICK k : k = [Refresh("push") EXCEPT !.pushed = {vm}]
    OBVIOUS
  <1>9. IsCall(k, Ever) /\ ~InLoop(k)
    BY <1>2, <1>8, PushedRefresh
  <1>10. \/ card' = card /\ calls' = calls \cup {k}
         \/ card' = c /\ calls' = calls
         \/ card' = c /\ calls' = maybeRefetch(c, calls)
    BY <1>1, <1>3, <1>5, <1>8 DEF ontoolresult
  <1>11. (\A j \in calls' \ calls : IsCall(j, Ever) /\ ~InLoop(j)) /\ calls \subseteq calls'
    BY <1>9, <1>10, Refetches
  <1>12. IsCard(card', Ever) /\ SameOverlays(card, card') /\ Owes(card')
    BY <1>4, <1>7, <1>10, InvFits DEF SameOverlays
  <1> QED
    BY <1>11, <1>12, QuietStepKeeps DEF ontoolresult, Gesture, QuietStep

LEMMA VmOfCall ==
    ASSUME NEW k, IsCall(k, Ever)
    PROVE  IsVm(Vm(k), Ever)
  BY DEF IsCall, IsVm, Vm

LEMMA ListingAnswered == ASSUME CardInv, NEW k \in calls, AnswerListing(k) PROVE CardInv'
  <1>1. k.tool = "refresh" /\ k.cont \in {"push", "refetch", "retry"} /\ ~InLoop(k)
    BY DEF AnswerListing, InLoop
  <1>2. IsCall(k, Ever)
    BY DEF CardInv, Shapes
  <1>3. PICK w : w = Vm(k)
    OBVIOUS
  <1>4. PICK c : c = applyStructuredContent(card, w)
    OBVIOUS
  <1>5. IsCard(c, Ever) /\ SameOverlays(card, c) /\ SameGate(card, c)
    BY <1>2, <1>3, <1>4, VmOfCall, InvFits, ApplyStructuredContent
  <1>6. PICK vm : vm = CHOOSE v \in k.pushed : TRUE
    OBVIOUS
  <1>7. PICK e : e = applyStructuredContent(card, vm)
    OBVIOUS
  <1>8. k.cont = "push" => IsCard(e, Ever) /\ SameOverlays(card, e) /\ SameGate(card, e)
    <2> SUFFICES ASSUME k.cont = "push" PROVE IsCard(e, Ever) /\ SameOverlays(card, e) /\ SameGate(card, e)
      OBVIOUS
    <2>1. IsVm(vm, Ever)
      <3>1. PICK v : k.pushed = {v} /\ IsVm(v, Ever)
        BY <1>2 DEF IsCall
      <3> QED
        BY <1>6, <3>1
    <2> QED
      BY <1>7, <2>1, InvFits, ApplyStructuredContent
  <1>9. MarkedForLater(c) /\ (k.cont = "push" => MarkedForLater(e))
    BY <1>5, <1>8, InvFits DEF SameGate, MarkedForLater
  <1>10. CASE card' = renderAll(c) /\ calls' = calls \ {k}
    <2>1. IsCard(card', Ever) /\ SameOverlays(c, card') /\ Owes(card')
      BY <1>5, <1>9, <1>10, RenderAll, RenderingOwes
    <2> QED
      BY <1>1, <1>5, <1>10, <2>1, QuietStepKeeps DEF AnswerListing, QuietStep, SameOverlays
  <1>11. CASE card' = guardedRenderAll(c) /\ calls' = calls \ {k}
    <2>1. IsCard(card', Ever) /\ SameOverlays(c, card') /\ Owes(card')
      BY <1>5, <1>9, <1>11, GuardedRenderAll
    <2> QED
      BY <1>1, <1>5, <1>11, <2>1, QuietStepKeeps DEF AnswerListing, QuietStep, SameOverlays
  <1>12. CASE /\ k.cont = "push" /\ card' = guardedRenderAll(e)
              /\ calls' = maybeRefetch(card', calls \ {k}) \/ calls' = calls \ {k}
    <2>1. IsCard(card', Ever) /\ SameOverlays(e, card') /\ Owes(card')
      BY <1>8, <1>9, <1>12, GuardedRenderAll
    <2>2. /\ \A j \in calls' \ calls : IsCall(j, Ever) /\ ~InLoop(j)
          /\ \A j \in calls \ calls' : j = k
      BY <1>12, Refetches
    <2>3. \A j \in calls \ calls' : j.tool = "refresh" /\ ~InLoop(j)
      BY <1>1, <2>2
    <2> QED
      BY <1>8, <1>12, <2>1, <2>2, <2>3, QuietStepKeeps DEF AnswerListing, QuietStep, SameOverlays
  <1>13. CASE /\ card' = [card EXCEPT !.banner = IF k.cont = "retry" THEN [kind |-> "fetch"] ELSE @]
              /\ calls' = calls \ {k}
    <2>1. PICK b : b = IF k.cont = "retry" THEN [kind |-> "fetch"] ELSE card.banner
      OBVIOUS
    <2>2. IsBanner(b, Ever)
      BY <2>1, InvFits DEF IsCard, IsBanner
    <2>3. /\ card' = [f \in CardFields |-> card'[f]] /\ SameBut({"banner"}, card, card')
          /\ card'.banner = b
      BY <1>13, <2>1, InvFits DEF IsCard, CardFields, SameBut
    <2>4. IsCard(card', Ever) /\ SameOverlays(card, card') /\ Owes(card')
      BY <2>2, <2>3, InvFits DEF IsCard, CardFields, SameBut, IdsWithin, SameOverlays, Owes
    <2> QED
      BY <1>1, <1>13, <2>4, QuietStepKeeps DEF AnswerListing, QuietStep
  <1> QED
    BY <1>3, <1>4, <1>6, <1>7, <1>10, <1>11, <1>12, <1>13 DEF AnswerListing

-----------------------------------------------------------------------------
(* Gestures that send a change.                                            *)

LEMMA StartCommitting ==
    ASSUME NEW c, c = [f \in CardFields |-> c[f]], NEW i, NEW d, d = startCommitting(c, i)
    PROVE  /\ d = [f \in CardFields |-> d[f]] /\ SameBut({"pending", "timers"}, c, d)
           /\ d.pending = c.pending \cup {i}
  BY DEF startCommitting, CardFields, SameBut

LEMMA StartedDelete ==
    ASSUME NEW c, IsCard(c, Ever), MarkedForLater(c), NEW i, i \notin c.deletes,
           NEW d, d = StartDelete(c, i)
    PROVE  /\ IsCard(d, Ever) /\ Owes(d) /\ SameLoops(c, d)
           /\ d.deletes = c.deletes \cup {i} /\ d.pending = c.pending \cup {i}
           /\ d.edits = c.edits /\ d.rows = c.rows
  <1>1. PICK a : a = [c EXCEPT !.deletes = @ \cup {i}]
    OBVIOUS
  <1>2. /\ a = [f \in CardFields |-> a[f]] /\ SameBut({"deletes"}, c, a)
        /\ a.deletes = c.deletes \cup {i}
    BY <1>1 DEF IsCard, CardFields, SameBut
  <1>3. PICK b : b = startCommitting(a, i)
    OBVIOUS
  <1>4. /\ b = [f \in CardFields |-> b[f]] /\ SameBut({"pending", "timers"}, a, b)
        /\ b.pending = a.pending \cup {i}
    BY <1>2, <1>3, StartCommitting
  <1>5. IsCard(b, Ever) /\ MarkedForLater(b)
    BY <1>2, <1>4 DEF IsCard, CardFields, SameBut, IdsWithin, MarkedForLater
  <1>6. PICK e : e = IF b.sheet = i THEN closeSheet(b) ELSE b
    OBVIOUS
  <1>7. d = Shown(e)
    BY <1>1, <1>3, <1>6 DEF StartDelete
  <1>8. IsCard(e, Ever) /\ MarkedForLater(e) /\ SameOverlays(b, e)
    <2>1. CASE b.sheet = i
      <3>1. e = closeSheet(b)
        BY <1>6, <2>1
      <3> QED
        BY <1>5, <3>1, CloseSheet DEF MarkedForLater
    <2>2. CASE b.sheet # i
      BY <1>5, <1>6, <2>2 DEF SameOverlays
    <2> QED
      BY <2>1, <2>2
  <1>9. IsCard(d, Ever) /\ SameOverlays(e, d) /\ Owes(d)
    BY <1>7, <1>8, ShownCard
  <1> QED
    BY <1>2, <1>4, <1>8, <1>9 DEF SameOverlays, SameBut, CardFields, SameLoops

LEMMA FitsDeleted ==
    ASSUME CardInv, NEW i, i \notin card.deletes, card' = StartDelete(card, i),
           calls' = calls \cup {NewCall("delete", i, TRUE, TRUE)}, wish' = Without(wish, {i})
    PROVE  Fits(card', calls', wish') /\ Owes(card')
  <1>1. /\ IsCard(card', Ever) /\ Owes(card') /\ SameLoops(card, card')
        /\ card'.deletes = card.deletes \cup {i} /\ card'.pending = card.pending \cup {i}
        /\ card'.edits = card.edits /\ card'.rows = card.rows
    BY InvFits, StartedDelete
  <1>2. PICK k : k = NewCall("delete", i, TRUE, TRUE)
    OBVIOUS
  <1>3. IsCall(k, Ever) /\ k.tool = "delete" /\ k.id = i
    <2>1. PICK tool, arg, row : tool = "delete" /\ arg = TRUE /\ row = TRUE
      OBVIOUS
    <2>2. tool \in Mutating /\ tool # "toggle"
      BY <2>1 DEF Mutating
    <2>3. k = NewCall(tool, i, arg, row)
      BY <1>2, <2>1
    <2>4. IsCall(k, Ever) /\ k.tool = tool /\ k.id = i
      BY <2>2, <2>3, NewCalls
    <2> QED
      BY <2>1, <2>4
  <1>4. k.tool \in Others /\ OverlaidBy(card, card', k)
    BY <1>1, <1>3 DEF Others, OverlaidBy
  <1>5. Fewer(wish', wish)
    BY FewerWithout
  <1>6. Fits(card', calls \cup {k}, wish')
    BY <1>1, <1>3, <1>4, <1>5, InvFits, FitsSent
  <1> QED
    BY <1>1, <1>2, <1>6

LEMMA DeleteTask == ASSUME CardInv, NEW i, deleteTask(i) PROVE CardInv'
  <1>1. Fits(card', calls', wish') /\ Owes(card')
    BY FitsDeleted DEF deleteTask
  <1> QED
    BY <1>1, FitsInv DEF deleteTask, Gesture

LEMMA FitsEdited ==
    ASSUME NEW c, Fits(c, calls, wish), MarkedForLater(c), NEW i, NEW title,
           SaveEdit(c, i, title), wish' = wish
    PROVE  Fits(card', calls', wish') /\ Owes(card')
  <1>1. PICK m : m = (i :> title) @@ c.edits
    OBVIOUS
  <1>2. PICK a : a = [c EXCEPT !.edits = m]
    OBVIOUS
  <1>3. a = [f \in CardFields |-> a[f]] /\ SameBut({"edits"}, c, a) /\ a.edits = m
    BY <1>2 DEF Fits, IsCard, CardFields, SameBut
  <1>4. PICK b : b = startCommitting(a, i)
    OBVIOUS
  <1>5. /\ b = [f \in CardFields |-> b[f]] /\ SameBut({"pending", "timers"}, a, b)
        /\ b.pending = a.pending \cup {i}
    BY <1>3, <1>4, StartCommitting
  <1>6. IsCard(b, Ever) /\ MarkedForLater(b)
    BY <1>3, <1>5 DEF Fits, IsCard, CardFields, SameBut, IdsWithin, MarkedForLater
  <1>7. card' = Shown(b)
    BY <1>1, <1>2, <1>4 DEF SaveEdit
  <1>8. IsCard(card', Ever) /\ SameOverlays(b, card') /\ Owes(card')
    BY <1>6, <1>7, ShownCard
  <1>9. /\ SameLoops(c, card') /\ card'.edits = m /\ card'.pending = c.pending \cup {i}
        /\ card'.deletes = c.deletes /\ card'.rows = c.rows
    BY <1>3, <1>5, <1>8 DEF SameOverlays, SameBut, CardFields, SameLoops
  <1>10. DOMAIN m = {i} \cup DOMAIN c.edits
    <2>1. DOMAIN (i :> title) = {i}
      BY DEF :>
    <2> QED
      BY <1>1, <2>1, MergedDomain
  <1>11. PICK k : k = NewCall("edit", i, title, TRUE)
    OBVIOUS
  <1>12. IsCall(k, Ever) /\ k.tool = "edit" /\ k.id = i
    <2>1. PICK tool, arg, row : tool = "edit" /\ arg = title /\ row = TRUE
      OBVIOUS
    <2>2. tool \in Mutating /\ tool # "toggle"
      BY <2>1 DEF Mutating
    <2>3. k = NewCall(tool, i, arg, row)
      BY <1>11, <2>1
    <2>4. IsCall(k, Ever) /\ k.tool = tool /\ k.id = i
      BY <2>2, <2>3, NewCalls
    <2> QED
      BY <2>1, <2>4
  <1>13. k.tool \in Others /\ OverlaidBy(c, card', k)
    BY <1>9, <1>10, <1>12 DEF Others, OverlaidBy
  <1>14. Fits(card', calls \cup {k}, wish)
    BY <1>8, <1>9, <1>12, <1>13, FewerSame, FitsSent
  <1> QED
    BY <1>8, <1>11, <1>14 DEF SaveEdit

LEMMA SavedEdit == ASSUME CardInv, NEW title, saveEdit(title) PROVE CardInv'
  <1>1. PICK c : c = closeSheet(card)
    OBVIOUS
  <1>2. IsCard(c, Ever) /\ SameOverlays(card, c) /\ c.owed = FALSE
    BY <1>1, InvFits, CloseSheet
  <1>3. Fits(c, calls, wish) /\ MarkedForLater(c) /\ Owes(c)
    BY <1>2, InvFits, FitsAlike DEF MarkedForLater, Owes
  <1>4. \/ card' = c /\ calls' = calls
        \/ SaveEdit(c, card.sheet, title)
    BY <1>1, Zenon DEF saveEdit
  <1>5. wish' = wish
    BY DEF saveEdit
  <1>6. Fits(card', calls', wish') /\ Owes(card')
    BY <1>3, <1>4, <1>5, FitsEdited
  <1> QED
    BY <1>6, FitsInv DEF saveEdit, Gesture

(* A row is added, and its creation sent.                                  *)
LEMMA FitsCreated ==
    ASSUME NEW c, Fits(c, calls, wish), MarkedForLater(c), NEW t \in FreshTemps(c),
           NEW d, d = Shown(EnqueueQuickAdd(c, t)),
           NEW ks, ks = calls \cup {NewCall("create", t, TRUE, TRUE)}
    PROVE  Fits(d, ks, wish) /\ Owes(d)
  <1>1. PICK a : a = [c EXCEPT !.rows = @ \cup {t}]
    OBVIOUS
  <1>2. /\ a = [f \in CardFields |-> a[f]] /\ SameBut({"rows"}, c, a)
        /\ a.rows = c.rows \cup {t}
    BY <1>1 DEF Fits, IsCard, CardFields, SameBut
  <1>3. PICK b : b = startCommitting(a, t)
    OBVIOUS
  <1>4. /\ b = [f \in CardFields |-> b[f]] /\ SameBut({"pending", "timers"}, a, b)
        /\ b.pending = a.pending \cup {t}
    BY <1>2, <1>3, StartCommitting
  <1>5. t \in Temps
    BY DEF FreshTemps
  <1>6. IsCard(b, Ever) /\ MarkedForLater(b)
    BY <1>2, <1>4, <1>5 DEF Fits, IsCard, CardFields, SameBut, IdsWithin, MarkedForLater
  <1>7. d = Shown(b)
    BY <1>1, <1>3 DEF EnqueueQuickAdd
  <1>8. IsCard(d, Ever) /\ SameOverlays(b, d) /\ Owes(d)
    BY <1>6, <1>7, ShownCard
  <1>9. /\ SameLoops(c, d) /\ d.rows = c.rows \cup {t} /\ d.pending = c.pending \cup {t}
        /\ d.deletes = c.deletes /\ d.edits = c.edits
    BY <1>2, <1>4, <1>8 DEF SameOverlays, SameBut, CardFields, SameLoops
  <1>10. PICK k : k = NewCall("create", t, TRUE, TRUE)
    OBVIOUS
  <1>11. IsCall(k, Ever) /\ k.tool = "create" /\ k.id = t
    <2>1. PICK tool, arg, row : tool = "create" /\ arg = TRUE /\ row = TRUE
      OBVIOUS
    <2>2. tool \in Mutating /\ tool # "toggle"
      BY <2>1 DEF Mutating
    <2>3. k = NewCall(tool, t, arg, row)
      BY <1>10, <2>1
    <2>4. IsCall(k, Ever) /\ k.tool = tool /\ k.id = t
      BY <2>2, <2>3, NewCalls
    <2> QED
      BY <2>1, <2>4
  <1>12. k.tool \in Others /\ OverlaidBy(c, d, k)
    BY <1>9, <1>11 DEF Others, OverlaidBy
  <1>13. Fits(d, calls \cup {k}, wish)
    BY <1>8, <1>9, <1>11, <1>12, FewerSame, FitsSent
  <1> QED
    BY <1>8, <1>10, <1>13

LEMMA CommitSelection ==
    ASSUME NEW c, Fits(c, calls, wish), MarkedForLater(c), NEW o \in commitSelection(c)
    PROVE  Fits(o.card, o.calls, wish) /\ MarkedForLater(o.card) /\ IsCard(o.card, Ever)
  <1>1. CASE c.draft = "typed"
    <2>1. PICK t \in FreshTemps(c) :
              /\ o.card = [Shown(EnqueueQuickAdd(c, t)) EXCEPT !.draft = "none"]
              /\ o.calls = calls \cup {NewCall("create", t, TRUE, TRUE)}
      <3>1. commitSelection(c) = {[card  |-> [Shown(EnqueueQuickAdd(c, t)) EXCEPT !.draft = "none"],
                                   calls |-> calls \cup {NewCall("create", t, TRUE, TRUE)}]
                                  : t \in FreshTemps(c)}
        BY <1>1 DEF commitSelection
      <3>2. PICK t \in FreshTemps(c) :
                o = [card  |-> [Shown(EnqueueQuickAdd(c, t)) EXCEPT !.draft = "none"],
                     calls |-> calls \cup {NewCall("create", t, TRUE, TRUE)}]
        BY <3>1, Zenon
      <3> QED
        BY <3>2
    <2>2. PICK d : d = Shown(EnqueueQuickAdd(c, t))
      OBVIOUS
    <2>3. PICK e : e = o.card
      OBVIOUS
    <2>4. PICK ks : ks = o.calls
      OBVIOUS
    <2>5. Fits(d, ks, wish) /\ Owes(d)
      BY <2>1, <2>2, <2>4, FitsCreated
    <2>6. e = [d EXCEPT !.draft = "none"]
      BY <2>1, <2>2, <2>3
    <2>7. e = [f \in CardFields |-> e[f]] /\ SameBut({"draft"}, d, e)
      BY <2>5, <2>6 DEF Fits, IsCard, CardFields, SameBut
    <2>8. IsCard(e, Ever) /\ SameOverlays(d, e) /\ MarkedForLater(e)
      BY <2>5, <2>7 DEF Fits, IsCard, CardFields, SameBut, IdsWithin, SameOverlays, MarkedForLater, Owes
    <2>9. Fits(e, ks, wish)
      BY <2>5, <2>8, FitsAlike
    <2> QED
      BY <2>3, <2>4, <2>8, <2>9
  <1>2. CASE c.draft # "typed"
    <2>1. o.card = [c EXCEPT !.draft = "none"] /\ o.calls = calls
      BY <1>2 DEF commitSelection
    <2>2. PICK e : e = o.card
      OBVIOUS
    <2>3. e = [f \in CardFields |-> e[f]] /\ SameBut({"draft"}, c, e)
      BY <2>1, <2>2 DEF Fits, IsCard, CardFields, SameBut
    <2>4. IsCard(e, Ever) /\ SameOverlays(c, e) /\ MarkedForLater(e)
      BY <2>3 DEF Fits, IsCard, CardFields, SameBut, IdsWithin, SameOverlays, MarkedForLater
    <2>5. Fits(e, calls, wish)
      BY <2>4, FitsAlike
    <2> QED
      BY <2>1, <2>2, <2>4, <2>5
  <1> QED
    BY <1>1, <1>2

(* A card that fits is drawn.                                              *)
LEMMA FitsDrawn ==
    ASSUME NEW c, NEW ks, NEW w, Fits(c, ks, w), MarkedForLater(c), NEW d, d = renderAll(c)
    PROVE  Fits(d, ks, w) /\ Owes(d) /\ MarkedForLater(d)
  <1>1. IsCard(c, Ever)
    BY DEF Fits
  <1>2. IsCard(d, Ever) /\ SameOverlays(c, d) /\ Owes(d)
    BY <1>1, RenderAll, RenderingOwes
  <1>3. Fits(d, ks, w)
    BY <1>2, FitsAlike
  <1> QED
    BY <1>2, <1>3 DEF Owes, MarkedForLater

LEMMA QuickAdd == ASSUME CardInv, triggerQuickAdd PROVE CardInv'
  <1>1. PICK o \in commitSelection(card) : card' = startDraft(o.card) /\ calls' = o.calls
    BY DEF triggerQuickAdd
  <1>2. PICK c, ks : c = o.card /\ ks = o.calls
    OBVIOUS
  <1>3. Fits(c, ks, wish) /\ MarkedForLater(c) /\ IsCard(c, Ever)
    BY <1>2, InvFits, CommitSelection
  <1>4. PICK b : b = [c EXCEPT !.draft = "empty"]
    OBVIOUS
  <1>5. b = [f \in CardFields |-> b[f]] /\ SameBut({"draft"}, c, b)
    BY <1>3, <1>4 DEF IsCard, CardFields, SameBut
  <1>6. IsCard(b, Ever) /\ SameOverlays(c, b) /\ MarkedForLater(b)
    BY <1>3, <1>5 DEF IsCard, CardFields, SameBut, IdsWithin, SameOverlays, MarkedForLater
  <1>7. Fits(b, ks, wish)
    BY <1>3, <1>6, FitsAlike
  <1>8. PICK e : e = renderAll(b)
    OBVIOUS
  <1>9. Fits(e, ks, wish) /\ Owes(e)
    BY <1>6, <1>7, <1>8, FitsDrawn
  <1>10. card' = [e EXCEPT !.focused = TRUE]
    BY <1>1, <1>2, <1>4, <1>8 DEF startDraft
  <1>11. card' = [f \in CardFields |-> card'[f]] /\ SameBut({"focused"}, e, card') /\ card'.focused = TRUE
    BY <1>9, <1>10 DEF Fits, IsCard, CardFields, SameBut
  <1>12. IsCard(card', Ever) /\ SameOverlays(e, card') /\ Owes(card')
    BY <1>9, <1>11 DEF Fits, IsCard, CardFields, SameBut, IdsWithin, SameOverlays, Owes
  <1>13. Fits(card', ks, wish)
    BY <1>9, <1>12, FitsAlike
  <1> QED
    BY <1>1, <1>2, <1>12, <1>13, FitsInv DEF triggerQuickAdd, Gesture

LEMMA DraftEnter == ASSUME CardInv, commitDraftEnter PROVE CardInv'
  <1>1. PICK o \in commitSelection(card) : card' = renderAll(o.card) /\ calls' = o.calls
    BY DEF commitDraftEnter
  <1>2. PICK c, ks : c = o.card /\ ks = o.calls
    OBVIOUS
  <1>3. Fits(c, ks, wish) /\ MarkedForLater(c)
    BY <1>2, InvFits, CommitSelection
  <1>4. Fits(card', ks, wish) /\ Owes(card')
    BY <1>1, <1>2, <1>3, FitsDrawn
  <1> QED
    BY <1>1, <1>2, <1>4, FitsInv DEF commitDraftEnter

LEMMA DraftBlur == ASSUME CardInv, commitSelectionOnBlur PROVE CardInv'
  <1>1. PICK c : c = [card EXCEPT !.blurred = FALSE]
    OBVIOUS
  <1>2. c = [f \in CardFields |-> c[f]] /\ SameBut({"blurred"}, card, c)
    BY <1>1, InvFits DEF IsCard, CardFields, SameBut
  <1>3. IsCard(c, Ever) /\ SameOverlays(card, c) /\ MarkedForLater(c)
    BY <1>2, InvFits DEF IsCard, CardFields, SameBut, IdsWithin, SameOverlays, MarkedForLater
  <1>4. Fits(c, calls, wish)
    BY <1>3, InvFits, FitsAlike
  <1>5. CASE card' = flushPendingRenderIfIdle(c) /\ calls' = calls
    <2>1. IsCard(card', Ever) /\ SameOverlays(c, card') /\ Owes(card')
      BY <1>3, <1>5, FlushPendingRender
    <2>2. Fits(card', calls, wish)
      BY <1>4, <2>1, FitsAlike
    <2> QED
      BY <1>5, <2>1, <2>2, FitsInv DEF commitSelectionOnBlur
  <1>6. CASE \E o \in commitSelection(c) :
                card' = flushPendingRenderIfIdle(renderAll(o.card)) /\ calls' = o.calls
    <2>1. PICK o \in commitSelection(c) :
                card' = flushPendingRenderIfIdle(renderAll(o.card)) /\ calls' = o.calls
      BY <1>6
    <2>2. PICK e, ks : e = o.card /\ ks = o.calls
      OBVIOUS
    <2>3. Fits(e, ks, wish) /\ MarkedForLater(e)
      BY <1>3, <1>4, <2>2, CommitSelection
    <2>4. PICK r : r = renderAll(e)
      OBVIOUS
    <2>5. Fits(r, ks, wish) /\ MarkedForLater(r)
      BY <2>3, <2>4, FitsDrawn
    <2>6. IsCard(card', Ever) /\ SameOverlays(r, card') /\ Owes(card')
      <3>1. card' = flushPendingRenderIfIdle(r) /\ IsCard(r, Ever)
        BY <2>1, <2>2, <2>4, <2>5 DEF Fits
      <3> QED
        BY <2>5, <3>1, FlushPendingRender
    <2>7. Fits(card', ks, wish)
      BY <2>5, <2>6, FitsAlike
    <2> QED
      BY <2>1, <2>2, <2>6, <2>7, FitsInv DEF commitSelectionOnBlur
  <1> QED
    BY <1>1, <1>5, <1>6, Zenon DEF commitSelectionOnBlur

LEMMA OpenCollection == ASSUME CardInv, openCollectionSheet PROVE CardInv'
  <1>1. PICK o \in commitSelection(card) :
            /\ card' = renderAll([clearBanner(o.card) EXCEPT !.sheet = "collection"])
            /\ calls' = o.calls
    BY DEF openCollectionSheet
  <1>2. PICK c, ks : c = o.card /\ ks = o.calls
    OBVIOUS
  <1>3. Fits(c, ks, wish) /\ MarkedForLater(c) /\ IsCard(c, Ever)
    BY <1>2, InvFits, CommitSelection
  <1>4. PICK a : a = clearBanner(c)
    OBVIOUS
  <1>5. IsCard(a, Ever) /\ SameBut({"banner"}, c, a)
    BY <1>3, <1>4, ClearBanner
  <1>6. PICK b : b = [a EXCEPT !.sheet = "collection"]
    OBVIOUS
  <1>7. b = [f \in CardFields |-> b[f]] /\ SameBut({"sheet"}, a, b)
    BY <1>5, <1>6 DEF IsCard, CardFields, SameBut
  <1>8. IsCard(b, Ever) /\ SameOverlays(c, b) /\ MarkedForLater(b)
    BY <1>3, <1>5, <1>7 DEF IsCard, CardFields, SameBut, IdsWithin, SameOverlays, MarkedForLater
  <1>9. Fits(b, ks, wish)
    BY <1>3, <1>8, FitsAlike
  <1>10. card' = renderAll(b)
    BY <1>1, <1>2, <1>4, <1>6
  <1>11. Fits(card', ks, wish) /\ Owes(card')
    BY <1>8, <1>9, <1>10, FitsDrawn
  <1> QED
    BY <1>1, <1>2, <1>11, FitsInv DEF openCollectionSheet, Gesture

LEMMA ToggleTask == ASSUME CardInv, NEW i, toggleTask(i) PROVE CardInv'
  <1>1. PICK shown : shown = card.dom[i].done
    OBVIOUS
  <1>2. CASE i \in Temps
    <2>1. PICK b : b = [card EXCEPT !.intents = (i :> ~shown) @@ @]
      OBVIOUS
    <2>2. b = [f \in CardFields |-> b[f]] /\ SameBut({"intents"}, card, b)
      BY <2>1, InvFits DEF IsCard, CardFields, SameBut
    <2>3. IsCard(b, Ever) /\ SameOverlays(card, b) /\ MarkedForLater(b)
      BY <2>2, InvFits DEF IsCard, CardFields, SameBut, IdsWithin, SameOverlays, MarkedForLater
    <2>4. card' = Shown(b) /\ calls' = calls /\ wish' = wish
      BY <1>1, <1>2, <2>1 DEF toggleTask, QueueToggle
    <2>5. IsCard(card', Ever) /\ SameOverlays(b, card') /\ Owes(card')
      BY <2>3, <2>4, ShownCard
    <2> QED
      BY <2>3, <2>4, <2>5, QuietStepKeeps DEF toggleTask, Gesture, QuietStep, SameOverlays
  <1>3. CASE i \notin Temps
    <2>1. SendToggle(card, calls, i, shown)
      BY <1>1, <1>3 DEF toggleTask
    <2>2. i \in Ever
      BY <1>3, InvFits DEF toggleTask, OnList, IsCard, IdsWithin
    <2>3. Fits(card', calls', wish') /\ Owes(card')
      BY <2>1, <2>2, InvFits, FitsToggled
    <2> QED
      BY <2>3, FitsInv DEF toggleTask, Gesture
  <1> QED
    BY <1>2, <1>3

LEMMA RetryFetch == ASSUME CardInv, Gesture("retry"), retryFetch PROVE CardInv'
  <1>1. PICK k : k = Refresh("retry")
    OBVIOUS
  <1>2. IsCall(k, Ever) /\ ~InLoop(k)
    BY <1>1, Refreshes
  <1>3. IsCard(card', Ever) /\ SameBut({"banner"}, card, card')
    BY InvFits, ClearBanner DEF retryFetch
  <1>4. SameOverlays(card, card') /\ Owes(card')
    BY <1>3, InvFits DEF SameBut, CardFields, SameOverlays, Owes
  <1> QED
    BY <1>1, <1>2, <1>3, <1>4, QuietStepKeeps DEF retryFetch, Gesture, QuietStep

LEMMA RetryMutation ==
    ASSUME CardInv, Gesture("retry"), card.banner.kind \in Mutating, retryMutation(card.banner)
    PROVE  CardInv'
  <1>1. PICK b : b = card.banner
    OBVIOUS
  <1>2. retryMutation(b) /\ b.kind \in Mutating
    BY <1>1
  <1>3. CASE b.kind = "toggle"
    <2>1. SendToggle(card, calls, b.id, b.row)
      BY <1>2, <1>3 DEF retryMutation
    <2>2. b.id \in Ever
      BY <1>1, <1>3, InvFits DEF IsCard, IsBanner
    <2>3. Fits(card', calls', wish') /\ Owes(card')
      BY <2>1, <2>2, InvFits, FitsToggled
    <2> QED
      BY <2>3, FitsInv DEF Gesture
  <1>4. CASE b.kind = "delete"
    <2>1. /\ card' = StartDelete(card, b.id) /\ wish' = Without(wish, {b.id})
          /\ calls' = IF b.id \in card.deletes THEN calls
                      ELSE calls \cup {NewCall("delete", b.id, TRUE, TRUE)}
      BY <1>2, <1>4 DEF retryMutation
    <2>2. CASE b.id \notin card.deletes
      BY <2>1, <2>2, FitsDeleted, FitsInv DEF Gesture
    <2>3. CASE b.id \in card.deletes
      <3>1. card' = card /\ calls' = calls
        BY <2>1, <2>3 DEF StartDelete
      <3>2. Fewer(wish', wish)
        BY <2>1, FewerWithout
      <3>3. Carried(card, calls) /\ SameLoops(card, card)
        BY InvFits DEF Fits, SameLoops
      <3>4. Fits(card, calls, wish')
        BY <3>2, <3>3, InvFits, FitsPlain
      <3> QED
        BY <3>1, <3>4, InvFits, FitsInv DEF Gesture
    <2> QED
      BY <2>2, <2>3
  <1>5. CASE b.kind = "edit"
    <2>1. /\ wish' = wish
          /\ \/ card' = card /\ calls' = calls
             \/ SaveEdit(card, b.id, b.arg)
      BY <1>2, <1>5 DEF retryMutation
    <2>2. Fits(card', calls', wish') /\ Owes(card')
      BY <2>1, InvFits, FitsEdited
    <2> QED
      BY <2>2, FitsInv DEF Gesture
  <1>6. CASE b.kind = "create"
    <2>1. PICK t \in FreshTemps(card) :
              /\ card' = Shown(EnqueueQuickAdd(card, t))
              /\ calls' = calls \cup {NewCall("create", t, TRUE, TRUE)}
      BY <1>2, <1>6 DEF retryMutation
    <2>2. wish' = wish
      BY <1>2, <1>6 DEF retryMutation
    <2>3. Fits(card', calls', wish) /\ Owes(card')
      BY <2>1, InvFits, FitsCreated
    <2> QED
      BY <2>2, <2>3, FitsInv DEF Gesture
  <1> QED
    BY <1>2, <1>3, <1>4, <1>5, <1>6 DEF Mutating

-----------------------------------------------------------------------------
(* Answers.                                                                *)

LEMMA ClearedOf ==
    ASSUME NEW c, IsCard(c, Ever), NEW tool \in Others, NEW i, NEW d, d = Cleared(c, tool, i)
    PROVE  /\ IsCard(d, Ever) /\ SameGate(c, d) /\ SameLoops(c, d)
           /\ d.deletes \subseteq c.deletes /\ (tool = "delete" => i \notin d.deletes)
           /\ DOMAIN d.edits \subseteq DOMAIN c.edits /\ (tool = "edit" => i \notin DOMAIN d.edits)
           /\ d.rows \subseteq c.rows /\ (tool = "create" => i \notin d.rows)
           /\ d.pending \subseteq c.pending \ {i}
  <1>1. PICK m : m = Without(c.edits, {i})
    OBVIOUS
  <1>2. DOMAIN m = DOMAIN c.edits \ {i}
    BY <1>1 DEF Without
  <1>3. \/ /\ tool = "delete" /\ d = [c EXCEPT !.deletes = @ \ {i}, !.pending = @ \ {i}]
        \/ /\ tool = "edit" /\ d = [c EXCEPT !.edits = m, !.pending = @ \ {i}]
        \/ /\ tool = "create" /\ d = [c EXCEPT !.rows = @ \ {i}, !.pending = @ \ {i}]
    BY <1>1 DEF Cleared, Others, removeOptimisticRow
  <1>4. /\ d = [f \in CardFields |-> d[f]] /\ SameBut({"deletes", "edits", "rows", "pending"}, c, d)
        /\ d.pending = c.pending \ {i}
        /\ \/ tool = "delete" /\ d.deletes = c.deletes \ {i} /\ d.edits = c.edits /\ d.rows = c.rows
           \/ tool = "edit" /\ d.edits = m /\ d.deletes = c.deletes /\ d.rows = c.rows
           \/ tool = "create" /\ d.rows = c.rows \ {i} /\ d.deletes = c.deletes /\ d.edits = c.edits
    <2>1. CASE tool = "delete" /\ d = [c EXCEPT !.deletes = @ \ {i}, !.pending = @ \ {i}]
      BY <2>1 DEF IsCard, CardFields, SameBut
    <2>2. CASE tool = "edit" /\ d = [c EXCEPT !.edits = m, !.pending = @ \ {i}]
      BY <2>2 DEF IsCard, CardFields, SameBut
    <2>3. CASE tool = "create" /\ d = [c EXCEPT !.rows = @ \ {i}, !.pending = @ \ {i}]
      BY <2>3 DEF IsCard, CardFields, SameBut
    <2> QED
      BY <1>3, <2>1, <2>2, <2>3
  <1>5. IsCard(d, Ever)
    BY <1>4 DEF IsCard, CardFields, SameBut, IdsWithin
  <1>6. SameGate(c, d) /\ SameLoops(c, d)
    BY <1>4 DEF CardFields, SameBut, SameGate, SameLoops
  <1> QED
    BY <1>2, <1>4, <1>5, <1>6

(* What a handler does after its answer.                                   *)
LEMMA FinishCases ==
    ASSUME NEW c, NEW others, NEW n, n.tool \in Mutating, Finish(c, others, n)
    PROVE  /\ n.tool = "toggle" => flushToggle(c, others, n)
           /\ n.tool = "create" => applyQueuedToggle(c, others, n)
           /\ n.tool \in {"delete", "edit"} => card' = c /\ calls' = others /\ wish' = wish
  <1>1. CASE n.tool = "toggle"
    BY <1>1 DEF Finish
  <1>2. CASE n.tool = "create"
    BY <1>2 DEF Finish
  <1>3. CASE n.tool \in {"delete", "edit"}
    BY <1>3 DEF Finish
  <1> QED
    BY <1>1, <1>2, <1>3 DEF Mutating

LEMMA MutatingSplit == \A tool \in Mutating : tool = "toggle" \/ tool \in Others
  BY DEF Mutating, Others

LEMMA OthersSplit == \A tool \in Others : tool = "create" \/ tool \in {"delete", "edit"}
  BY DEF Others

LEMMA OthersMutate == Others \subseteq Mutating /\ "toggle" \notin Others /\ "refresh" \notin Mutating
  BY DEF Others, Mutating

LEMMA OwesBySameGate == ASSUME NEW c, Owes(c), NEW d, SameGate(c, d) PROVE Owes(d)
  BY DEF Owes, SameGate

(* The answer is applied, and the handler goes on.                         *)
LEMMA AnsweredInDefaultView ==
    ASSUME CardInv, NEW k \in calls, k.at = "answered", k.tool \in Mutating,
           NEW c, c = Cleared(card, k.tool, k.id),
           NEW a, a = applyStructuredContent(c, Vm(k)),
           NEW others, others = calls \ {k}, Finish(a, others, k)
    PROVE  Fits(card', calls', wish') /\ Owes(card')
  <1>1. Fits(card, calls, wish) /\ Owes(card) /\ IsCard(card, Ever) /\ IsCall(k, Ever)
    BY InvFits DEF CardInv, Shapes
  <1>2. PICK vm : vm = Vm(k)
    OBVIOUS
  <1>3. IsVm(vm, Ever)
    BY <1>1, <1>2, VmOfCall
  <1>4. CASE k.tool = "toggle"
    <2>1. c = card
      BY <1>4 DEF Cleared
    <2>2. IsCard(a, Ever) /\ SameOverlays(card, a) /\ SameGate(card, a)
      BY <1>1, <1>2, <1>3, <2>1, ApplyStructuredContent
    <2>3. Fits(a, calls, wish)
      BY <1>1, <2>2, FitsAlike
    <2>4. flushToggle(a, others, k)
      BY FinishCases, <1>4
    <2>5. InLoop(k) /\ CarriedOut(k)
      BY <1>4 DEF InLoop, CarriedOut
    <2>6. Fits(card', calls', wish') /\ SameGate(a, card')
      BY <2>3, <2>4, <2>5, FitsFlushed
    <2>7. Owes(card')
      BY <1>1, <2>2, <2>6, OwesBySameGate
    <2> QED
      BY <2>6, <2>7
  <1>5. CASE k.tool \in Others
    <2>1. PICK tool : tool = k.tool
      OBVIOUS
    <2>2. /\ IsCard(c, Ever) /\ SameGate(card, c) /\ SameLoops(card, c) /\ TakenOff(card, c, k)
      <3>1. tool \in Others /\ c = Cleared(card, tool, k.id)
        BY <1>5, <2>1
      <3>2. /\ IsCard(c, Ever) /\ SameGate(card, c) /\ SameLoops(card, c)
            /\ c.deletes \subseteq card.deletes /\ (tool = "delete" => k.id \notin c.deletes)
            /\ DOMAIN c.edits \subseteq DOMAIN card.edits
            /\ (tool = "edit" => k.id \notin DOMAIN c.edits)
            /\ c.rows \subseteq card.rows /\ (tool = "create" => k.id \notin c.rows)
            /\ c.pending \subseteq card.pending \ {k.id}
        BY <1>1, <3>1, ClearedOf
      <3> QED
        BY <2>1, <3>2 DEF TakenOff
    <2>3. IsCard(a, Ever) /\ SameOverlays(c, a) /\ SameGate(c, a)
      BY <1>2, <1>3, <2>2, ApplyStructuredContent
    <2>4. SameLoops(card, a) /\ TakenOff(card, a, k) /\ SameGate(card, a)
      BY <2>2, <2>3 DEF SameLoops, SameOverlays, TakenOff, SameGate
    <2>5. Fits(a, others, wish) /\ Owes(a)
      BY <1>1, <1>5, <2>3, <2>4, FitsAnswered, OwesBySameGate
    <2>6. CASE k.tool = "create"
      <3>1. applyQueuedToggle(a, others, k)
        BY FinishCases, <2>6
      <3> QED
        BY <2>5, <3>1, FitsQueued
    <2>7. CASE k.tool \in {"delete", "edit"}
      <3>1. card' = a /\ calls' = others /\ wish' = wish
        BY FinishCases, <2>7
      <3> QED
        BY <2>5, <3>1
    <2> QED
      BY <1>5, <2>6, <2>7, OthersSplit
  <1> QED
    BY <1>4, <1>5, MutatingSplit

LEMMA MutationAnswered == ASSUME CardInv, NEW k \in calls, AnswerMutation(k) PROVE CardInv'
  <1>1. k.at = "answered" /\ k.tool \in Mutating
    BY DEF AnswerMutation, At
  <1>2. Fits(card, calls, wish) /\ Owes(card) /\ IsCard(card, Ever) /\ IsCall(k, Ever)
    BY InvFits DEF CardInv, Shapes
  <1>3. PICK c : c = Cleared(card, k.tool, k.id)
    OBVIOUS
  <1>4. UNCHANGED <<list, gone, mix, outside>>
    BY DEF AnswerMutation
  <1>5. CASE card.view = "default"
    <2>1. PICK a : a = applyStructuredContent(c, Vm(k))
      OBVIOUS
    <2>2. Finish(a, calls \ {k}, k)
      BY <1>3, <1>5, <2>1, Zenon DEF AnswerMutation
    <2>3. Fits(card', calls', wish') /\ Owes(card')
      BY <1>1, <1>3, <2>1, <2>2, AnsweredInDefaultView
    <2> QED
      BY <1>4, <2>3, FitsInv
  <1>6. CASE card.view # "default"
    <2>1. PICK r : r = [Refresh(k.tool) EXCEPT !.id = k.id, !.arg = k.arg, !.row = k.row,
                                               !.meta = k.meta]
      OBVIOUS
    <2>2. card' = c /\ calls' = (calls \ {k}) \cup {r} /\ wish' = wish
      BY <1>3, <1>6, <2>1, Zenon DEF AnswerMutation
    <2>3. /\ IsCall(r, Ever) /\ r.tool = "refresh" /\ r.cont = k.tool
          /\ r.id = k.id /\ r.arg = k.arg
      BY <1>1, <1>2, <2>1, Rereads
    <2>4. CASE k.tool = "toggle"
      <3>1. card' = card
        BY <1>3, <2>2, <2>4 DEF Cleared
      <3>2. InLoop(k) /\ InLoop(r) /\ CarriedOut(k) /\ k.tool \notin Others
        BY <1>1, <2>3, <2>4 DEF InLoop, CarriedOut, Others
      <3>3. IsTaskList(list') /\ Ever' = Ever /\ list' = list
        BY <1>4 DEF CardInv, Shapes, IsTaskList, Ever
      <3> QED
        BY <1>4, <2>2, <2>3, <3>1, <3>2, <3>3, Moves
    <2>5. CASE k.tool \in Others
      <3>1. PICK tool : tool = k.tool
        OBVIOUS
      <3>2. tool \in Others /\ c = Cleared(card, tool, k.id)
        BY <1>3, <2>5, <3>1
      <3>3. /\ IsCard(c, Ever) /\ SameGate(card, c) /\ SameLoops(card, c)
            /\ c.deletes \subseteq card.deletes /\ (tool = "delete" => k.id \notin c.deletes)
            /\ DOMAIN c.edits \subseteq DOMAIN card.edits
            /\ (tool = "edit" => k.id \notin DOMAIN c.edits)
            /\ c.rows \subseteq card.rows /\ (tool = "create" => k.id \notin c.rows)
            /\ c.pending \subseteq card.pending \ {k.id}
        BY <1>2, <3>2, ClearedOf
      <3>4. TakenOff(card, c, k)
        BY <3>1, <3>3 DEF TakenOff
      <3>5. ~InLoop(r)
        BY <2>3, <2>5, OthersMutate DEF InLoop
      <3>6. calls \ {k} \subseteq calls' /\ \A j \in calls' \ calls : IsCall(j, Ever) /\ ~InLoop(j)
        BY <2>2, <2>3, <3>5
      <3>7. Fits(c, calls', wish) /\ Owes(c)
        BY <1>2, <2>5, <3>3, <3>4, <3>6, FitsAnswered, OwesBySameGate
      <3> QED
        BY <1>4, <2>2, <3>7, FitsInv
    <2> QED
      BY <1>1, <2>4, <2>5, MutatingSplit
  <1> QED
    BY <1>5, <1>6

LEMMA RereadAnswered == ASSUME CardInv, NEW k \in calls, AnswerReread(k) PROVE CardInv'
  <1>1. k.tool = "refresh" /\ k.cont \in Mutating
    BY DEF AnswerReread
  <1>2. Fits(card, calls, wish) /\ Owes(card) /\ IsCard(card, Ever) /\ IsCall(k, Ever)
    BY InvFits DEF CardInv, Shapes
  <1>3. PICK vm : vm = Vm(k)
    OBVIOUS
  <1>4. PICK c : c = IF k \in At("answered") THEN applyStructuredContent(card, vm)
                     ELSE [showAfterRollback(card) EXCEPT !.banner = [kind |-> "fetch"]]
    OBVIOUS
  <1>5. PICK n : n = [k EXCEPT !.tool = k.cont]
    OBVIOUS
  <1>6. n.tool = k.cont /\ n.id = k.id /\ n.arg = k.arg
    <2>1. k = [f \in CallFields |-> k[f]]
      BY <1>2 DEF IsCall
    <2> QED
      BY <1>5, <2>1 DEF CallFields
  <1>7. Finish(c, calls \ {k}, n)
    BY <1>3, <1>4, <1>5, Zenon DEF AnswerReread
  <1>8. UNCHANGED <<list, gone, mix, outside>>
    BY DEF AnswerReread
  <1>9. IsCard(c, Ever) /\ SameOverlays(card, c) /\ Owes(c)
    <2>1. CASE k \in At("answered")
      <3>1. c = applyStructuredContent(card, vm) /\ IsVm(vm, Ever)
        BY <1>2, <1>3, <1>4, <2>1, VmOfCall
      <3>2. IsCard(c, Ever) /\ SameOverlays(card, c) /\ SameGate(card, c)
        BY <1>2, <3>1, ApplyStructuredContent
      <3> QED
        BY <1>2, <3>2, OwesBySameGate
    <2>2. CASE k \notin At("answered")
      <3>1. PICK s : s = showAfterRollback(card)
        OBVIOUS
      <3>2. IsCard(s, Ever) /\ SameOverlays(card, s) /\ Owes(s)
        BY <3>1, InvFits, ShowAfterRollback
      <3>3. c = [s EXCEPT !.banner = [kind |-> "fetch"]]
        BY <1>4, <2>2, <3>1
      <3>4. /\ c = [f \in CardFields |-> c[f]] /\ SameBut({"banner"}, s, c)
            /\ c.banner.kind = "fetch"
        BY <3>2, <3>3 DEF IsCard, CardFields, SameBut
      <3> QED
        BY <3>2, <3>4 DEF IsCard, CardFields, SameBut, IdsWithin, IsBanner, SameOverlays, Owes
    <2> QED
      BY <2>1, <2>2
  <1>10. Fits(card', calls', wish') /\ Owes(card')
    <2>1. CASE k.cont = "toggle"
      <3>1. flushToggle(c, calls \ {k}, n)
        BY <1>1, <1>6, <1>7, <2>1, FinishCases
      <3>2. InLoop(k) /\ CarriedOut(k)
        BY <1>1, <2>1 DEF InLoop, CarriedOut
      <3>3. Fits(c, calls, wish)
        BY <1>2, <1>9, FitsAlike
      <3>4. Fits(card', calls', wish') /\ SameGate(c, card')
        BY <1>6, <3>1, <3>2, <3>3, FitsFlushed
      <3> QED
        BY <1>9, <3>4, OwesBySameGate
    <2>2. CASE k.cont \in Others
      <3>1. k.tool = "refresh" /\ ~InLoop(k)
        BY <1>1, <2>2, OthersMutate DEF InLoop
      <3>2. Fits(c, calls \ {k}, wish)
        BY <1>2, <1>9, <3>1, FitsAlike
      <3>3. CASE k.cont = "create"
        <4>1. applyQueuedToggle(c, calls \ {k}, n)
          BY <1>1, <1>6, <1>7, <3>3, FinishCases
        <4> QED
          BY <1>9, <3>2, <4>1, FitsQueued
      <3>4. CASE k.cont \in {"delete", "edit"}
        <4>1. card' = c /\ calls' = calls \ {k} /\ wish' = wish
          BY <1>1, <1>6, <1>7, <3>4, FinishCases
        <4> QED
          BY <1>9, <3>2, <4>1
      <3> QED
        BY <2>2, <3>3, <3>4, OthersSplit
    <2> QED
      BY <1>1, <2>1, <2>2, MutatingSplit
  <1> QED
    BY <1>8, <1>10, FitsInv

LEMMA RolledBackOthers == \A c, tool, i : tool \in Others /\ tool # "create" => RolledBack(c, tool, i) = Cleared(c, tool, i)
  BY DEF RolledBack, Others

(* A call that failed is rolled back.                                      *)
LEMMA ToggleFailed ==
    ASSUME CardInv, NEW k \in calls, k.tool = "toggle", NEW d, d = RolledBack(card, k.tool, k.id)
    PROVE  IsCard(d, Ever) /\ SettledAs(card, d, k.id) /\ MarkedForLater(d)
  <1>1. PICK b : b = Settled(card, k.id)
    OBVIOUS
  <1>2. /\ b = [f \in CardFields |-> b[f]]
        /\ SameBut({"desired", "toggles", "pending", "sending"}, card, b)
        /\ SettledAs(card, b, k.id)
    BY <1>1, InvFits DEF IsCard, CardFields, SameBut, Settled, SettledAs
  <1>3. IsCard(b, Ever) /\ MarkedForLater(b)
    BY <1>2, InvFits DEF IsCard, CardFields, SameBut, IdsWithin, MarkedForLater
  <1>4. d = b \/ d = [b EXCEPT !.sticky[k.id].done = TRUE]
    BY <1>1 DEF RolledBack, RolledBackToggle
  <1>5. CASE d = [b EXCEPT !.sticky[k.id].done = TRUE]
    <2>1. PICK t : t = [b.sticky EXCEPT ![k.id].done = TRUE]
      OBVIOUS
    <2>2. DOMAIN t = DOMAIN b.sticky
      BY <2>1
    <2>3. d = [b EXCEPT !.sticky = t]
      BY <1>5, <2>1
    <2>4. d = [f \in CardFields |-> d[f]] /\ SameBut({"sticky"}, b, d) /\ d.sticky = t
      BY <1>2, <2>3 DEF CardFields, SameBut
    <2>5. IsCard(d, Ever) /\ MarkedForLater(d)
      BY <1>3, <2>2, <2>4 DEF IsCard, CardFields, SameBut, IdsWithin, MarkedForLater
    <2>6. SettledAs(card, d, k.id)
      BY <1>2, <2>4 DEF SettledAs, SameBut, CardFields
    <2> QED
      BY <2>5, <2>6
  <1> QED
    BY <1>2, <1>3, <1>4, <1>5

LEMMA OtherFailed ==
    ASSUME CardInv, NEW k \in calls, k.tool \in Others, NEW d, d = RolledBack(card, k.tool, k.id)
    PROVE  IsCard(d, Ever) /\ MarkedForLater(d) /\ SameLoops(card, d) /\ TakenOff(card, d, k)
  <1>1. PICK tool : tool = k.tool
    OBVIOUS
  <1>2. PICK c : c = Cleared(card, tool, k.id)
    OBVIOUS
  <1>3. /\ IsCard(c, Ever) /\ SameGate(card, c) /\ SameLoops(card, c)
        /\ c.deletes \subseteq card.deletes /\ (tool = "delete" => k.id \notin c.deletes)
        /\ DOMAIN c.edits \subseteq DOMAIN card.edits
        /\ (tool = "edit" => k.id \notin DOMAIN c.edits)
        /\ c.rows \subseteq card.rows /\ (tool = "create" => k.id \notin c.rows)
        /\ c.pending \subseteq card.pending \ {k.id}
    BY <1>1, <1>2, InvFits, ClearedOf
  <1>4. MarkedForLater(c) /\ TakenOff(card, c, k)
    BY <1>1, <1>3, InvFits DEF SameGate, MarkedForLater, TakenOff
  <1>5. CASE tool = "create"
    <2>1. d = [c EXCEPT !.intents = Without(@, {k.id})]
      BY <1>1, <1>2, <1>5 DEF RolledBack, Cleared
    <2>2. d = [f \in CardFields |-> d[f]] /\ SameBut({"intents"}, c, d)
      BY <1>3, <2>1 DEF IsCard, CardFields, SameBut
    <2>3. IsCard(d, Ever) /\ MarkedForLater(d)
      BY <1>3, <1>4, <2>2 DEF IsCard, CardFields, SameBut, IdsWithin, MarkedForLater
    <2>4. SameLoops(card, d) /\ TakenOff(card, d, k)
      BY <1>3, <1>4, <2>2 DEF SameBut, CardFields, SameLoops, TakenOff
    <2> QED
      BY <2>3, <2>4
  <1>6. CASE tool # "create"
    <2>1. d = c
      BY <1>1, <1>2, <1>6, RolledBackOthers
    <2> QED
      BY <1>3, <1>4, <2>1
  <1> QED
    BY <1>5, <1>6

LEMMA FailureAnswered == ASSUME CardInv, NEW k \in calls, AnswerFailure(k) PROVE CardInv'
  <1>1. k.at = "failed" /\ k.tool \in Mutating
    BY DEF AnswerFailure, At
  <1>2. IsCall(k, Ever) /\ Fits(card, calls, wish)
    BY InvFits DEF CardInv, Shapes
  <1>3. PICK d : d = RolledBack(card, k.tool, k.id)
    OBVIOUS
  <1>4. IsCard(d, Ever) /\ MarkedForLater(d)
    BY <1>1, <1>3, ToggleFailed, OtherFailed, MutatingSplit
  <1>5. PICK s : s = showAfterRollback(d)
    OBVIOUS
  <1>6. IsCard(s, Ever) /\ SameOverlays(d, s) /\ Owes(s)
    BY <1>4, <1>5, ShowAfterRollback
  <1>7. PICK b : b = Banner(k)
    OBVIOUS
  <1>8. card' = [s EXCEPT !.banner = b] /\ calls' = calls \ {k}
    BY <1>3, <1>5, <1>7 DEF AnswerFailure
  <1>9. IsBanner(b, Ever)
    BY <1>2, <1>7 DEF IsBanner, Banner, IsCall
  <1>10. card' = [f \in CardFields |-> card'[f]] /\ SameBut({"banner"}, s, card') /\ card'.banner = b
    BY <1>6, <1>8 DEF IsCard, CardFields, SameBut
  <1>11. IsCard(card', Ever) /\ SameOverlays(d, card') /\ Owes(card')
    BY <1>6, <1>9, <1>10 DEF IsCard, CardFields, SameBut, IdsWithin, SameOverlays, Owes
  <1>12. Fits(card', calls', wish')
    <2>1. CASE k.tool = "toggle"
      <3>1. SettledAs(card, d, k.id)
        BY <1>3, <2>1, ToggleFailed
      <3>2. SettledAs(card, card', k.id)
        BY <1>11, <3>1 DEF SettledAs, SameOverlays
      <3>3. wish' = Without(wish, {k.id})
        BY <2>1 DEF AnswerFailure
      <3>4. Fewer(wish', wish) /\ k.id \notin DOMAIN wish'
        BY <3>3, FewerWithout DEF Without
      <3>5. InLoop(k)
        BY <2>1 DEF InLoop
      <3> QED
        BY <1>2, <1>8, <1>11, <3>2, <3>4, <3>5, FitsSettled
    <2>2. CASE k.tool \in Others
      <3>1. SameLoops(card, d) /\ TakenOff(card, d, k)
        BY <1>3, <2>2, OtherFailed
      <3>2. SameLoops(card, card') /\ TakenOff(card, card', k)
        BY <1>11, <3>1 DEF SameLoops, SameOverlays, TakenOff
      <3>3. wish' = wish
        BY <2>2, OthersMutate DEF AnswerFailure
      <3> QED
        BY <1>2, <1>8, <1>11, <2>2, <3>2, <3>3, FitsAnswered
    <2> QED
      BY <1>1, <2>1, <2>2, MutatingSplit
  <1> QED
    BY <1>11, <1>12, FitsInv DEF AnswerFailure

-----------------------------------------------------------------------------
(* The server.                                                             *)

LEMMA TaskRows ==
    ASSUME IsTaskList(list), NEW i \in DOMAIN list, NEW row, row = Row(row.done, row.title),
           NEW m, m = [list EXCEPT ![i] = row]
    PROVE  IsTaskList(m) /\ DOMAIN m = DOMAIN list
  BY DEF IsTaskList

LEMMA Updated == ASSUME CardInv, NEW k \in calls, UpdateTodo(k) PROVE CardInv'
  <1>1. IsCall(k, Ever) /\ IsTaskList(list)
    BY DEF CardInv, Shapes
  <1>2. k.tool \in {"toggle", "edit"} /\ k.at = "sent" /\ UNCHANGED <<card, gone, mix, outside, wish>>
    BY DEF UpdateTodo, At
  <1>3. CASE k.id \in DOMAIN list
    <2>1. PICK row : row = IF k.tool = "toggle" THEN [list[k.id] EXCEPT !.done = k.arg]
                                                ELSE [list[k.id] EXCEPT !.title = k.arg]
      OBVIOUS
    <2>2. PICK done : done = IF k.tool = "toggle" /\ k.arg THEN k.id :> row ELSE Empty
      OBVIOUS
    <2>3. PICK m : m = [k EXCEPT !.at = "done", !.meta.touched = {k.id}, !.meta.completed = done]
      OBVIOUS
    <2>4. list' = [list EXCEPT ![k.id] = row] /\ calls' = (calls \ {k}) \cup {m}
      BY <1>3, <2>1, <2>2, <2>3 DEF UpdateTodo, Becomes
    <2>5. list[k.id] = Row(list[k.id].done, list[k.id].title)
      BY <1>1, <1>3 DEF IsTaskList
    <2>6. row = Row(row.done, row.title)
          /\ row.done = IF k.tool = "toggle" THEN k.arg ELSE list[k.id].done
      BY <2>1, <2>5 DEF Row
    <2>7. IsTaskList(list') /\ DOMAIN list' = DOMAIN list
      BY <1>1, <1>3, <2>4, <2>6, TaskRows
    <2>8. Ever' = Ever
      BY <1>2, <2>7 DEF Ever
    <2>9. DOMAIN done \subseteq Ever
      <3>1. DOMAIN Empty = {} /\ DOMAIN (k.id :> row) = {k.id}
        BY DEF Empty, :>
      <3> QED
        BY <1>3, <2>2, <3>1 DEF Ever
    <2>10. /\ m = [f \in CallFields |-> m[f]]
           /\ m.tool = k.tool /\ m.id = k.id /\ m.arg = k.arg /\ m.cont = k.cont
           /\ m.tasks = k.tasks /\ m.summary = k.summary /\ m.pushed = k.pushed
           /\ m.meta = [completed |-> done, touched |-> {k.id}, removed |-> k.meta.removed]
      BY <1>1, <2>3 DEF IsCall, CallFields
    <2>11. IsCall(m, Ever)
      <3>1. /\ m.meta.completed = done
            /\ m.meta = [completed |-> m.meta.completed, touched |-> m.meta.touched,
                         removed |-> m.meta.removed]
        BY <2>10
      <3>2. k.cont = "push" => \E vm \in m.pushed : m.pushed = {vm} /\ IsVm(vm, Ever)
        BY <1>1, <2>10 DEF IsCall
      <3> QED
        BY <1>1, <2>9, <2>10, <3>1, <3>2 DEF IsCall
    <2>12. k.tool \in Others => m.tool = k.tool
      BY <2>10
    <2>13. InLoop(m) <=> InLoop(k)
      BY <2>10 DEF InLoop
    <2>14. InLoop(k) => k.tool = "toggle"
      BY <1>2 DEF InLoop
    <2>15. ASSUME NEW i \in DOMAIN list' \cap Ever
           PROVE  /\ i \in DOMAIN list
                  /\ \/ list'[i].done = list[i].done
                     \/ InLoop(k) /\ k.id = i /\ list'[i].done = k.arg
      <3>1. CASE i = k.id
        BY <1>2, <1>3, <2>4, <2>6, <3>1 DEF InLoop
      <3>2. CASE i # k.id
        BY <2>4, <2>7, <3>2
      <3> QED
        BY <3>1, <3>2
    <2>16. InLoop(m) => list'[m.id].done = m.arg
      BY <1>3, <2>4, <2>6, <2>10, <2>13, <2>14
    <2> QED
      BY <1>2, <2>4, <2>7, <2>8, <2>10, <2>11, <2>12, <2>13, <2>15, <2>16, Moves
  <1>4. CASE k.id \notin DOMAIN list
    <2>1. PICK m : m = [k EXCEPT !.at = "failed"]
      OBVIOUS
    <2>2. list' = list /\ calls' = (calls \ {k}) \cup {m}
      BY <1>4, <2>1 DEF UpdateTodo, Advance, Becomes
    <2>3. /\ m = [f \in CallFields |-> m[f]]
          /\ m.tool = k.tool /\ m.id = k.id /\ m.arg = k.arg /\ m.cont = k.cont
          /\ m.tasks = k.tasks /\ m.summary = k.summary /\ m.pushed = k.pushed
          /\ m.meta = k.meta /\ m.at = "failed"
      BY <1>1, <2>1 DEF IsCall, CallFields
    <2>4. IsCall(m, Ever)
      BY <1>1, <2>3 DEF IsCall
    <2>5. (InLoop(m) <=> InLoop(k)) /\ ~CarriedOut(m)
      BY <1>2, <2>3 DEF InLoop, CarriedOut
    <2>6. Ever' = Ever /\ IsTaskList(list')
      BY <1>1, <1>2, <2>2 DEF Ever
    <2> QED
      BY <1>2, <2>2, <2>3, <2>4, <2>5, <2>6, Moves
  <1> QED
    BY <1>3, <1>4

LEMMA Deleted == ASSUME CardInv, NEW k \in calls, DeleteTodo(k) PROVE CardInv'
  <1>1. IsCall(k, Ever) /\ IsTaskList(list)
    BY DEF CardInv, Shapes
  <1>2. k.tool = "delete" /\ UNCHANGED <<card, mix, outside, wish>>
    BY DEF DeleteTodo
  <1>3. PICK m : m = IF k.id \in DOMAIN list THEN [k EXCEPT !.at = "done", !.meta.removed = {k.id}]
                     ELSE [k EXCEPT !.at = "failed"]
    OBVIOUS
  <1>4. /\ calls' = (calls \ {k}) \cup {m}
        /\ \/ list' = Without(list, {k.id}) /\ gone' = gone \cup {k.id} /\ k.id \in DOMAIN list
           \/ list' = list /\ gone' = gone
    BY <1>3 DEF DeleteTodo, Becomes, Advance
  <1>5. /\ m = [f \in CallFields |-> m[f]]
        /\ m.tool = k.tool /\ m.id = k.id /\ m.arg = k.arg /\ m.cont = k.cont
        /\ m.tasks = k.tasks /\ m.summary = k.summary /\ m.pushed = k.pushed
        /\ m.meta.completed = k.meta.completed
        /\ m.meta = [completed |-> m.meta.completed, touched |-> m.meta.touched,
                     removed |-> m.meta.removed]
    <2>1. CASE k.id \in DOMAIN list
      <3>1. m = [k EXCEPT !.at = "done", !.meta.removed = {k.id}]
        BY <1>3, <2>1
      <3> QED
        BY <1>1, <3>1 DEF IsCall, CallFields
    <2>2. CASE k.id \notin DOMAIN list
      <3>1. m = [k EXCEPT !.at = "failed"]
        BY <1>3, <2>2
      <3> QED
        BY <1>1, <3>1 DEF IsCall, CallFields
    <2> QED
      BY <2>1, <2>2
  <1>6. IsCall(m, Ever)
    <2>1. k.cont = "push" => \E vm \in m.pushed : m.pushed = {vm} /\ IsVm(vm, Ever)
      BY <1>1, <1>5 DEF IsCall
    <2> QED
      BY <1>1, <1>5, <2>1 DEF IsCall
  <1>7. /\ DOMAIN list' \subseteq DOMAIN list /\ \A i \in DOMAIN list' : list'[i] = list[i]
        /\ Ever' = Ever
    BY <1>2, <1>4 DEF Without, Ever
  <1>8. IsTaskList(list')
    BY <1>1, <1>7 DEF IsTaskList
  <1>9. ~InLoop(m) /\ ~InLoop(k)
    BY <1>2, <1>5 DEF InLoop
  <1> QED
    BY <1>2, <1>4, <1>5, <1>6, <1>7, <1>8, <1>9, Moves

LEMMA Created == ASSUME CardInv, NEW k \in calls, CreateTodo(k) PROVE CardInv'
  <1>1. IsCall(k, Ever) /\ IsTaskList(list)
    BY DEF CardInv, Shapes
  <1>2. k.tool = "create" /\ UNCHANGED <<card, gone, mix, outside, wish>>
    BY DEF CreateTodo
  <1>3. PICK i \in Tasks \ (DOMAIN list \cup gone \cup DOMAIN mix.old) :
            /\ list' = (i :> Row(FALSE, 0)) @@ list
            /\ calls' = Becomes(k, [k EXCEPT !.at = "done", !.meta.touched = {i}])
    BY DEF CreateTodo
  <1>4. PICK m : m = [k EXCEPT !.at = "done", !.meta.touched = {i}]
    OBVIOUS
  <1>5. calls' = (calls \ {k}) \cup {m}
    BY <1>3, <1>4 DEF Becomes
  <1>6. /\ m = [f \in CallFields |-> m[f]]
        /\ m.tool = k.tool /\ m.id = k.id /\ m.arg = k.arg /\ m.cont = k.cont
        /\ m.tasks = k.tasks /\ m.summary = k.summary /\ m.pushed = k.pushed
        /\ m.meta.completed = k.meta.completed
        /\ m.meta = [completed |-> m.meta.completed, touched |-> m.meta.touched,
                     removed |-> m.meta.removed]
    BY <1>1, <1>4 DEF IsCall, CallFields
  <1>7. DOMAIN list' = {i} \cup DOMAIN list
    <2>1. DOMAIN (i :> Row(FALSE, 0)) = {i}
      BY DEF :>
    <2> QED
      BY <1>3, <2>1, MergedDomain
  <1>8. list'[i] = Row(FALSE, 0) /\ \A j \in DOMAIN list : list'[j] = list[j]
    BY <1>3 DEF :>, @@
  <1>9. IsTaskList(list')
    <2>1. Row(FALSE, 0) = Row(Row(FALSE, 0).done, Row(FALSE, 0).title)
      BY DEF Row
    <2> QED
      BY <1>1, <1>3, <1>7, <1>8, <2>1 DEF IsTaskList
  <1>10. Ever \subseteq Ever' /\ i \notin Ever
    BY <1>2, <1>3, <1>7 DEF Ever
  <1>11. IsCall(m, Ever')
    <2>1. k.cont = "push" => \E vm \in m.pushed : m.pushed = {vm} /\ IsVm(vm, Ever')
      BY <1>1, <1>6, <1>10 DEF IsCall, IsVm
    <2> QED
      BY <1>1, <1>6, <1>10, <2>1 DEF IsCall
  <1>12. ~InLoop(m) /\ ~InLoop(k)
    BY <1>2, <1>6 DEF InLoop
  <1>13. \A j \in DOMAIN list' \cap Ever : j \in DOMAIN list /\ list'[j].done = list[j].done
    BY <1>7, <1>8, <1>10
  <1> QED
    BY <1>2, <1>5, <1>6, <1>9, <1>10, <1>11, <1>12, <1>13, Moves

(* The server reads the list, or the call is rejected.                     *)
LEMMA StageChanged ==
    ASSUME CardInv, NEW k \in calls, NEW m, IsCall(m, Ever), m.tool = k.tool, m.id = k.id,
           m.arg = k.arg, m.cont = k.cont, CarriedOut(m) => CarriedOut(k),
           calls' = (calls \ {k}) \cup {m}, UNCHANGED cardVars
    PROVE  CardInv'
  <1>1. UNCHANGED <<card, wish, mix, outside>> /\ list' = list /\ Ever' = Ever
    BY DEF cardVars, Ever
  <1>2. IsTaskList(list')
    BY <1>1 DEF CardInv, Shapes, IsTaskList
  <1>3. InLoop(m) <=> InLoop(k)
    BY DEF InLoop
  <1> QED
    BY <1>1, <1>2, <1>3, Moves

LEMMA ViewModelBuilt == ASSUME CardInv, NEW k \in calls, buildTodosViewModel(k) PROVE CardInv'
  <1>1. IsCall(k, Ever) /\ IsTaskList(list)
    BY DEF CardInv, Shapes
  <1>2. PICK view : view = IF k.view = "all" THEN "all" ELSE "none"
    OBVIOUS
  <1>3. PICK summary : summary = IF k.cont \in {"none", "refetch", "retry"} THEN {Recent} ELSE {}
    OBVIOUS
  <1>4. PICK tasks : tasks = Listed(view)
    OBVIOUS
  <1>5. PICK m : m = [k EXCEPT !.at = "answered", !.tasks = tasks, !.view = view, !.summary = summary]
    OBVIOUS
  <1>6. calls' = (calls \ {k}) \cup {m} /\ UNCHANGED cardVars
    BY <1>2, <1>3, <1>4, <1>5 DEF buildTodosViewModel, Becomes
  <1>7. DOMAIN tasks \subseteq Ever /\ \A s \in summary : DOMAIN s \subseteq Ever
    BY <1>1, <1>3, <1>4, Listings
  <1>8. /\ m = [f \in CallFields |-> m[f]]
        /\ m.tool = k.tool /\ m.id = k.id /\ m.arg = k.arg /\ m.cont = k.cont
        /\ m.tasks = tasks /\ m.summary = summary /\ m.pushed = k.pushed
        /\ m.meta = k.meta
    BY <1>1, <1>5 DEF IsCall, CallFields
  <1>9. IsCall(m, Ever)
    BY <1>1, <1>7, <1>8 DEF IsCall
  <1>10. CarriedOut(m) => CarriedOut(k)
    BY DEF buildTodosViewModel, CarriedOut
  <1> QED
    BY <1>6, <1>8, <1>9, <1>10, StageChanged

LEMMA CallRejected == ASSUME CardInv, NEW k \in calls, RejectCall(k) PROVE CardInv'
  <1>1. IsCall(k, Ever)
    BY DEF CardInv, Shapes
  <1>2. PICK m : m = [k EXCEPT !.at = "failed"]
    OBVIOUS
  <1>3. calls' = (calls \ {k}) \cup {m} /\ UNCHANGED cardVars
    BY <1>2 DEF RejectCall, Reject, Advance, Becomes
  <1>4. /\ m = [f \in CallFields |-> m[f]]
        /\ m.tool = k.tool /\ m.id = k.id /\ m.arg = k.arg /\ m.cont = k.cont
        /\ m.tasks = k.tasks /\ m.summary = k.summary /\ m.pushed = k.pushed
        /\ m.meta = k.meta /\ m.at = "failed"
    BY <1>1, <1>2 DEF IsCall, CallFields
  <1>5. IsCall(m, Ever)
    BY <1>1, <1>4 DEF IsCall
  <1>6. CarriedOut(m) => CarriedOut(k)
    BY <1>4 DEF CarriedOut
  <1> QED
    BY <1>3, <1>4, <1>5, <1>6, StageChanged

LEMMA ChangedElsewhere == ASSUME CardInv, NEW i, Elsewhere(i) PROVE CardInv'
  <1>1. UNCHANGED <<card, mix, wish, calls>> /\ outside' = outside + 1 /\ i \in DOMAIN list
    BY DEF Elsewhere, callVars
  <1>2. IsTaskList(list) /\ outside \in Nat
    BY DEF CardInv, Shapes
  <1>3. IsTaskList(list') /\ Ever' = Ever
    <2>1. CASE list' = [list EXCEPT ![i].done = ~@] /\ gone' = gone
      <3>1. PICK row : row = [list[i] EXCEPT !.done = ~@]
        OBVIOUS
      <3>2. list[i] = Row(list[i].done, list[i].title)
        BY <1>1, <1>2 DEF IsTaskList
      <3>3. row = Row(row.done, row.title)
        BY <3>1, <3>2 DEF Row
      <3>4. list' = [list EXCEPT ![i] = row]
        BY <2>1, <3>1
      <3>5. IsTaskList(list') /\ DOMAIN list' = DOMAIN list
        BY <1>1, <1>2, <3>3, <3>4, TaskRows
      <3> QED
        BY <1>1, <2>1, <3>5 DEF Ever
    <2>2. CASE list' = Without(list, {i}) /\ gone' = gone \cup {i}
      BY <1>1, <1>2, <2>2 DEF Without, IsTaskList, Ever
    <2> QED
      BY <2>1, <2>2 DEF Elsewhere
  <1>4. Shapes'
    BY <1>1, <1>2, <1>3 DEF CardInv, Shapes
  <1>5. OverlaidByCalls' /\ RenderOwed'
    BY <1>1 DEF CardInv, OverlaidByCalls, RenderOwed, Carried, Loops, Owes, Under, InLoop
  <1>6. WishesKept'
    <2>1. outside' # 0
      BY <1>1, <1>2
    <2> QED
      BY <2>1 DEF WishesKept, Wishes
  <1> QED
    BY <1>4, <1>5, <1>6 DEF CardInv

-----------------------------------------------------------------------------
(* The first drawing, and every step.                                      *)

LEMMA InitInv == Init => CardInv
  <1> SUFFICES ASSUME Init PROVE CardInv
    OBVIOUS
  <1>1. DOMAIN Empty = {}
    BY DEF Empty
  <1>2. /\ mix \in Gestures /\ list = mix.tasks /\ calls = {} /\ outside = 0 /\ wish = Empty
    BY DEF Init
  <1>3. IsTaskList(list)
    BY <1>2, MixesAssumption
  <1>4. PICK tasks : tasks = Listed(mix.view)
    OBVIOUS
  <1>5. DOMAIN tasks \subseteq Ever
    BY <1>3, <1>4, Listings
  <1>6. PICK s : s = Start(tasks, mix.view)
    OBVIOUS
  <1>7. s = [f \in CardFields |-> s[f]]
    BY <1>6 DEF Start, CardFields
  <1>8. /\ s.confirmed = tasks /\ s.toggles = Empty /\ s.desired = Empty /\ s.sending = {}
        /\ s.rows = {} /\ s.edits = Empty /\ s.deletes = {} /\ s.pending = {} /\ s.base = Empty
        /\ s.tasks = tasks /\ s.memory = Empty /\ s.sticky = Empty /\ s.summary = Empty
        /\ s.dom = Empty /\ s.owed = FALSE /\ s.banner = NoBanner
    BY <1>6 DEF Start
  <1>9. IsCard(s, Ever) /\ MarkedForLater(s)
    BY <1>1, <1>5, <1>7, <1>8 DEF IsCard, IdsWithin, IsBanner, NoBanner, MarkedForLater
  <1>10. card = renderAll(s)
    BY <1>4, <1>6 DEF Init
  <1>11. IsCard(card, Ever) /\ SameOverlays(s, card) /\ Owes(card)
    BY <1>9, <1>10, RenderAll, RenderingOwes
  <1>12. /\ card.toggles = Empty /\ card.desired = Empty /\ card.sending = {} /\ card.rows = {}
         /\ card.edits = Empty /\ card.deletes = {} /\ card.pending = {}
    BY <1>8, <1>11 DEF SameOverlays
  <1>13. Carried(card, calls)
    BY <1>1, <1>12 DEF Carried
  <1>14. Loops(card, calls)
    BY <1>1, <1>2, <1>12 DEF Loops
  <1>15. Wishes(card, calls, wish)
    BY <1>1, <1>2 DEF Wishes
  <1> QED
    BY <1>1, <1>2, <1>3, <1>11, <1>13, <1>14, <1>15
       DEF CardInv, Shapes, RenderOwed, OverlaidByCalls, WishesKept

LEMMA StepKeeps == CardInv /\ [Next]_allVars => CardInv'
  <1> SUFFICES ASSUME CardInv, [Next]_allVars PROVE CardInv'
    OBVIOUS
  <1>1. CASE UNCHANGED allVars
    <2>1. UNCHANGED <<card, calls, wish, list, gone, mix, outside>>
      BY <1>1 DEF allVars, cardVars, callVars
    <2>2. SameOverlays(card, card')
      BY <2>1 DEF SameOverlays
    <2> QED
      BY <2>1, <2>2, InvFits, QuietStepKeeps DEF QuietStep
  <1>2. ASSUME NEW i \in Tasks \cup Temps,
               toggleTask(i) \/ deleteTask(i) \/ openDetail(i) \/ CommittingEnds(i) \/ Elsewhere(i)
        PROVE  CardInv'
    BY <1>2, ToggleTask, DeleteTask, OpenDetail, CommittingEnd, ChangedElsewhere
  <1>3. ASSUME NEW title \in {1, 2}, saveEdit(title) PROVE CardInv'
    BY <1>3, SavedEdit
  <1>4. CASE openCollectionSheet \/ leaveSheet
    BY <1>4, OpenCollection, LeaveSheet
  <1>5. CASE triggerQuickAdd \/ Type \/ commitDraftEnter \/ Blur \/ commitSelectionOnBlur
    BY <1>5, QuickAdd, TypeBlur, DraftEnter, DraftBlur
  <1>6. ASSUME NEW view \in {"none", "all"}, NEW stale \in BOOLEAN, ontoolresult(view, stale)
        PROVE  CardInv'
    BY <1>6, ToolResult
  <1>7. CASE MaybeRefetch \/ StaleTimePasses \/ hostcontextchanged
    BY <1>7, FocusReturns, TypeBlur, ContextChanged
  <1>8. CASE Retry
    BY <1>8, RetryFetch, RetryMutation DEF Retry
  <1>9. ASSUME NEW k \in calls,
               \/ UpdateTodo(k) \/ DeleteTodo(k) \/ CreateTodo(k)
               \/ buildTodosViewModel(k) \/ RejectCall(k)
        PROVE  CardInv'
    BY <1>9, Updated, Deleted, Created, ViewModelBuilt, CallRejected
  <1>10. ASSUME NEW k \in calls,
                AnswerMutation(k) \/ AnswerReread(k) \/ AnswerFailure(k) \/ AnswerListing(k)
         PROVE  CardInv'
    BY <1>10, MutationAnswered, RereadAnswered, FailureAnswered, ListingAnswered
  <1> QED
    BY <1>1, <1>2, <1>3, <1>4, <1>5, <1>6, <1>7, <1>8, <1>9, <1>10, Zenon DEF Next

(* In every state that the card, the server and the other clients can      *)
(* reach, the state of the card (todos-entry.ts) is well-formed and what is *)
(* laid over the list belongs to the calls under way.                      *)
THEOREM TodosInductive == Spec => []CardInv
  BY InitInv, StepKeeps, PTL DEF Spec

-----------------------------------------------------------------------------
(* What follows from the invariant.                                        *)

(* LastWishWins for any mix of gestures: taps while a toggle is under way  *)
(* (coalesceAction, flushToggle), answers and readings in any order,       *)
(* rejected calls, other calls for the task.  When nothing is in flight    *)
(* for a task the server has what the user last asked of it.               *)
THEOREM TheLastTapWins == Spec => []LastWishWins
  <1>1. CardInv => LastWishWins
    <2> SUFFICES ASSUME CardInv, outside = 0, NEW i \in DOMAIN wish \cap DOMAIN list, ~Waiting(i)
                 PROVE  list[i].done = wish[i]
      BY DEF LastWishWins
    <2>1. Carried(card, calls) /\ Wishes(card, calls, wish)
      BY DEF CardInv, OverlaidByCalls, WishesKept
    <2>2. i \notin card.sending
      BY <2>1 DEF Carried, Waiting
    <2> QED
      BY <2>1, <2>2 DEF Wishes
  <1> QED
    BY <1>1, TodosInductive, PTL

(* OverlaysEnd: whatever way the calls end (flushToggle, RolledBack, the   *)
(* reading that stands in for an answer), once none is under way no        *)
(* optimistic change is left on the card.                                  *)
THEOREM NoOverlayOutlivesItsCall == Spec => []OverlaysEnd
  <1>1. CardInv => OverlaysEnd
    <2> SUFFICES ASSUME CardInv, calls = {}
                 PROVE  /\ {card.rows, card.deletes, card.pending, card.sending} = {{}}
                        /\ {DOMAIN card.toggles, DOMAIN card.edits, DOMAIN card.desired} = {{}}
      BY DEF OverlaysEnd
    <2>1. Carried(card, calls) /\ Loops(card, calls)
      BY DEF CardInv, OverlaidByCalls
    <2>2. \A tool, i : ~Under(calls, tool, i)
      BY DEF Under
    <2>3. /\ card.deletes = {} /\ DOMAIN card.edits = {} /\ card.rows = {} /\ card.sending = {}
      BY <2>1, <2>2 DEF Carried
    <2>4. card.pending = {}
      BY <2>1, <2>2, <2>3 DEF Carried
    <2>5. DOMAIN card.desired = {} /\ DOMAIN card.toggles = {}
      BY <2>1, <2>3 DEF Loops
    <2> QED
      BY <2>3, <2>4, <2>5
  <1> QED
    BY <1>1, TodosInductive, PTL

(* SuppressedRendersAreMadeUp: a render that guardedRenderAll held back is *)
(* owed only while a page is open, the input has the focus, or the handler *)
(* of its blur has yet to run.                                             *)
THEOREM HeldBackRendersAreMadeUp == Spec => []SuppressedRendersAreMadeUp
  <1>1. CardInv => SuppressedRendersAreMadeUp
    BY DEF CardInv, RenderOwed, Owes, SuppressedRendersAreMadeUp, shouldSkipDestructiveRender
  <1> QED
    BY <1>1, TodosInductive, PTL
=============================================================================
