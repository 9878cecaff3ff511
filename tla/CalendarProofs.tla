---------------------------- MODULE CalendarProofs ----------------------------
(***************************************************************************)
(* Proofs about the calendar data: TodoEdits, EventEdits, Recurrence, and  *)
(* the pages of the cards that edit the same objects (TaskSheet,           *)
(* EventSheet).                                                            *)
(*                                                                         *)
(* Every zone is read by the two lemmas Offsets and WallClocks, the rest   *)
(* speaks of instants.  TodoFits and EventFits are inductive: what is      *)
(* stored is what validation accepts, with dates and rules that mean       *)
(* something.  The task properties follow from TodoFits alone.  For events *)
(* one expansion is compared with another: of a narrower range             *)
(* (QueriesAgree), or of the same object read in UTC for the index         *)
(* (TheIndexHidesNothing), candidate by candidate and then override by     *)
(* override.  SheetFits carries both invariants over to the cards, with    *)
(* the shape of a list's rows and of an open page; the last theorem reads  *)
(* back what a page stored, conversion by conversion.                      *)
(***************************************************************************)
EXTENDS EventSheet, FiniteSetTheorems, WellFoundedInduction, TLAPS

-----------------------------------------------------------------------------
(* Instants.                                                               *)

LEMMA DayLength == DaySlots \in Nat \ {0}
  BY TimeAssumption

LEMMA Offsets ==
    ASSUME NEW z \in ReadingZone, NEW u \in Int
    PROVE  /\ getZoneOffset(z, u) \in Int
           /\ -DaySlots < getZoneOffset(z, u) /\ getZoneOffset(z, u) < DaySlots
  BY TimeAssumption DEF ReadingZone, getZoneOffset

LEMMA WallClocks ==
    ASSUME NEW z \in ReadingZone, NEW w \in Int
    PROVE  /\ localFieldsToEpoch(w, z) \in Int
           /\ w - DaySlots < localFieldsToEpoch(w, z)
           /\ localFieldsToEpoch(w, z) < w + DaySlots
           /\ z = "UTC" => localFieldsToEpoch(w, z) = w
  <1>1. getZoneOffset(z, w) \in Int
    BY Offsets
  <1>2. w - getZoneOffset(z, w) \in Int
    BY <1>1
  <1>3. getZoneOffset(z, w - getZoneOffset(z, w)) \in Int
    BY <1>2, Offsets
  <1>4. PICK c \in Int : c = w - getZoneOffset(z, w)
    BY <1>2
  <1>5. /\ localFieldsToEpoch(w, z) = w - getZoneOffset(z, c)
        /\ getZoneOffset(z, c) \in Int
        /\ -DaySlots < getZoneOffset(z, c) /\ getZoneOffset(z, c) < DaySlots
    BY <1>4, Offsets DEF localFieldsToEpoch
  <1>6. z = "UTC" => getZoneOffset(z, c) = 0
    BY DEF getZoneOffset
  <1> QED
    BY <1>5, <1>6, TimeAssumption

(* A wall clock a day later or more is a later instant: no transition      *)
(* skips a day.                                                            *)
LEMMA LaterDays ==
    ASSUME NEW z \in ReadingZone, NEW w \in Int, NEW v \in Int, w + DaySlots <= v
    PROVE  localFieldsToEpoch(w, z) < localFieldsToEpoch(v, z)
  BY TimeAssumption DEF ReadingZone, localFieldsToEpoch, getZoneOffset

LEMMA Instants ==
    ASSUME NEW v \in Value, NEW r \in ReadingZone
    PROVE  /\ zoneOf(v, r) \in ReadingZone
           /\ instantOf(v, r) = localFieldsToEpoch(v.at, zoneOf(v, r))
           /\ instantOf(v, r) \in Int
  <1>1. zoneOf(v, r) \in ReadingZone /\ v.at \in Int
    BY TimeAssumption DEF Value, zoneOf, ReadingZone
  <1> QED
    BY <1>1, WallClocks DEF instantOf

(* What is read in one zone and in another is less than a day apart.       *)
LEMMA ReadersAgreeOnTheDay ==
    ASSUME NEW v \in Value, NEW r \in ReadingZone
    PROVE  /\ instantOf(v, "UTC") - DaySlots < instantOf(v, r)
           /\ instantOf(v, r) < instantOf(v, "UTC") + DaySlots
  <1>1. CASE v.zone \in {"date", "floating"}
    <2>1. zoneOf(v, r) = r /\ zoneOf(v, "UTC") = "UTC" /\ v.at \in Int
      BY <1>1 DEF zoneOf, Value
    <2> QED
      BY <2>1, WallClocks DEF instantOf, ReadingZone
  <1>2. CASE v.zone \notin {"date", "floating"}
    <2>1. zoneOf(v, r) = zoneOf(v, "UTC")
      BY <1>2, TimeAssumption DEF zoneOf, Value
    <2>2. instantOf(v, r) = instantOf(v, "UTC") /\ instantOf(v, r) \in Int
      BY <2>1, Instants DEF instantOf
    <2> QED
      BY <2>2, TimeAssumption
  <1> QED
    BY <1>1, <1>2

-----------------------------------------------------------------------------
(* What index and list say of a task.                                      *)

TodoFits == todo = NoTodo \/ (todo \in Task /\ ValidTodo(todo))

LEMMA IndexFollowsTheList ==
    ASSUME NEW t \in Task, ValidTodo(t), NEW window \in Ranges, NEW r \in Readers,
           t.start = None \/ instantOf(t.start, "UTC") <= instantOf(t.due, "UTC"),
           filterTasksByWindow(t, TRUE, window, r)
    PROVE  isCandidate(todoBounds(t), window)
  <1>1. /\ t.due \in Value /\ t.start \in Value \cup {None} /\ t.due # None
        /\ r \in ReadingZone /\ "UTC" \in ReadingZone
        /\ window.start \in Int /\ window.end \in Int
    BY InputsAssumption DEF Task, filterTasksByWindow, ReadingZone
  <1>2. /\ window.start < instantOf(t.due, r) /\ instantOf(t.due, r) < window.end
        /\ instantOf(t.due, r) \in Int
    BY <1>1, Instants DEF filterTasksByWindow
  <1>3. PICK d \in Int : d = instantOf(t.due, "UTC")
    BY <1>1, Instants
  <1>4. window.start < d + DaySlots /\ d - DaySlots < window.end
    BY <1>1, <1>2, <1>3, ReadersAgreeOnTheDay, TimeAssumption
  <1>5. t.dur = NoDur
    BY <1>1 DEF ValidTodo
  <1>6. CASE t.start = None
    <2>1. todoBounds(t) = [first |-> d, last |-> d]
      BY <1>1, <1>3, <1>6 DEF todoBounds
    <2> QED
      BY <1>1, <1>4, <2>1, RecurrenceAssumption, TimeAssumption DEF isCandidate
  <1>7. CASE t.start # None
    <2>1. PICK s \in Int : s = instantOf(t.start, "UTC")
      BY <1>1, <1>7, Instants
    <2>2. todoBounds(t) = [first |-> s, last |-> d]
      BY <1>1, <1>3, <1>5, <1>7, <2>1 DEF todoBounds
    <2>3. s <= d
      BY <1>3, <1>7, <2>1
    <2> QED
      BY <1>1, <1>4, <2>1, <2>2, <2>3, RecurrenceAssumption, TimeAssumption DEF isCandidate
  <1> QED
    BY <1>6, <1>7

-----------------------------------------------------------------------------
(* Repetition rules.                                                       *)

Rule0 == RRule \cup {NoRule}

LEMMA Remainders ==
    ASSUME NEW at \in Int
    PROVE  at % DaySlots \in 0 .. DaySlots - 1 /\ Day(at) \in Int
  BY TimeAssumption DEF Day

LEMMA UntilFollows ==
    ASSUME NEW rule \in Rule0, NEW start \in ToolDate
    PROVE  /\ followUntilValueType(rule, start) \in Rule0
           /\ followUntilValueType(rule, start).step = rule.step
           /\ followUntilValueType(rule, start).count = rule.count
  <1>1. CASE rule.until = None \/ sameType(rule.until, start)
    BY <1>1 DEF followUntilValueType
  <1>2. CASE ~(rule.until = None \/ sameType(rule.until, start))
    <2>1. rule \in RRule /\ rule.until \in Value /\ rule.until.at \in Int
      BY <1>2 DEF Rule0, RRule, NoRule, Value
    <2>2. start.at % DaySlots \in Int /\ rule.until.at + (start.at % DaySlots) \in Int
      BY <2>1, Remainders DEF ToolDate
    <2>3. isDateTime(start) => start.zone \in ReadingZone
      BY DEF ToolDate, isDateTime, ReadingZone
    <2>4. PICK until : /\ until \in Value
                       /\ followUntilValueType(rule, start) = [rule EXCEPT !.until = until]
      <3>1. CASE ~isDateTime(start)
        BY <1>2, <2>1, <3>1, Remainders DEF followUntilValueType, Value
      <3>2. CASE isDateTime(start)
        <4>1. localFieldsToEpoch(rule.until.at + (start.at % DaySlots), start.zone) \in Int
          BY <2>2, <2>3, <3>2, WallClocks
        <4> QED
          BY <1>2, <3>2, <4>1 DEF followUntilValueType, Value
      <3> QED
        BY <3>1, <3>2
    <2> QED
      BY <2>1, <2>4 DEF RRule, Rule0
  <1> QED
    BY <1>1, <1>2

LEMMA RulesAreBuilt ==
    ASSUME NEW r \in ToolRule, NEW anchor0 \in Value
    PROVE  buildRecurrenceRule(r, anchor0) \in RRule
  <1> DEFINE zone == IF anchor0.zone \in {"utc", "floating"} THEN "UTC" ELSE anchor0.zone
  <1>1. /\ anchor0.at % DaySlots \in Int /\ r.day \in Int
        /\ isDateTime(anchor0) => zone \in ReadingZone
    BY Remainders DEF Value, ToolRule, isDateTime, ReadingZone
  <1>2. isDateTime(anchor0) => localFieldsToEpoch(r.day + (anchor0.at % DaySlots), zone) \in Int
    BY <1>1, WallClocks
  <1> QED
    BY <1>1, <1>2 DEF buildRecurrenceRule, RRule, ToolRule, Value

(* The instances of a rule.                                                *)
Inst(t, k) == instantOf(reconstruct(t.start, t.rule.step, k), "UTC")

LEMMA Instances ==
    ASSUME NEW start \in Value, NEW step \in Nat \ {0}, NEW k \in Nat
    PROVE  /\ reconstruct(start, step, k) \in Value
           /\ reconstruct(start, step, k).zone = start.zone
           /\ reconstruct(start, step, k).at = start.at + k * step * DaySlots
           /\ reconstruct(start, step, 0) = start
  BY TimeAssumption DEF reconstruct, Value

LEMMA RuleInOrder ==
    ASSUME NEW r \in ReadingZone, NEW start \in Value, NEW step \in Nat \ {0}, NEW j \in Nat, NEW k \in Nat
    PROVE  /\ instantOf(reconstruct(start, step, j), r) \in Int
           /\ j < k => instantOf(reconstruct(start, step, j), r)
                         < instantOf(reconstruct(start, step, k), r)
  <1> DEFINE z == zoneOf(start, r)
             at(i) == start.at + i * step * DaySlots
  <1>1. z \in ReadingZone /\ start.at \in Int
    BY Instants DEF Value, ReadingZone
  <1>2. \A i \in Nat : /\ at(i) \in Int
                       /\ instantOf(reconstruct(start, step, i), r) = localFieldsToEpoch(at(i), z)
    <2> TAKE i \in Nat
    <2>1. at(i) \in Int
      BY <1>1, TimeAssumption
    <2> QED
      BY <2>1, Instances DEF instantOf, zoneOf
  <1>3. localFieldsToEpoch(at(j), z) \in Int
    BY <1>1, <1>2, WallClocks
  <1>4. ASSUME j < k PROVE at(j) + DaySlots <= at(k)
    <2>1. PICK d \in Nat \ {0} : k = j + d
      <3>1. k - j \in Nat \ {0} /\ k = j + (k - j)
        BY <1>4
      <3> QED
        BY <3>1
    <2>2. PICK n \in Nat \ {0} : n = step * DaySlots
      BY TimeAssumption
    <2>3. d * n >= n /\ n >= DaySlots
      BY <2>2, TimeAssumption
    <2>4. at(j) = start.at + j * n /\ at(k) = start.at + k * n
      BY <2>2, TimeAssumption
    <2>5. k * n = j * n + d * n
      BY <2>1
    <2> QED
      BY <1>1, <2>3, <2>4, <2>5, TimeAssumption
  <1>5. ASSUME j < k PROVE localFieldsToEpoch(at(j), z) < localFieldsToEpoch(at(k), z)
    BY <1>1, <1>2, <1>4, <1>5, LaterDays
  <1> QED
    BY <1>2, <1>3, <1>5

LEMMA LaterInstances ==
    ASSUME NEW start \in Value, NEW step \in Nat \ {0}, NEW j \in Nat, NEW k \in Nat
    PROVE  /\ instantOf(reconstruct(start, step, j), "UTC") \in Int
           /\ j < k => instantOf(reconstruct(start, step, j), "UTC")
                         < instantOf(reconstruct(start, step, k), "UTC")
  BY RuleInOrder DEF ReadingZone

LEMMA NextIsTheNextDay ==
    ASSUME NEW t \in Task, t.start \in Value, t.rule \in RRule
    PROVE  /\ nextStart(t) = reconstruct(t.start, t.rule.step, 1)
           /\ nextStart(t) \in Value
  <1> DEFINE inst(k) == instantOf(reconstruct(t.start, t.rule.step, k), "UTC")
             isNext(i) == /\ inst(i) > instantOf(t.start, "UTC")
                          /\ \A j \in 1 .. (i - 1) : inst(j) <= instantOf(t.start, "UTC")
  <1>1. t.rule.step \in Nat \ {0}
    BY DEF RRule
  <1>2. inst(0) = instantOf(t.start, "UTC")
    BY <1>1, Instances
  <1>3. /\ inst(0) \in Int /\ inst(1) \in Int /\ inst(1) > inst(0)
    BY <1>1, LaterInstances
  <1>4. 1 \in 1 .. Steps
    BY RecurrenceAssumption
  <1>5. isNext(1)
    BY <1>2, <1>3
  <1>6. \A i \in 1 .. Steps : isNext(i) => i = 1
    <2> SUFFICES ASSUME NEW i \in 1 .. Steps, isNext(i), i # 1 PROVE FALSE
      OBVIOUS
    <2>1. 1 \in 1 .. (i - 1)
      OBVIOUS
    <2>2. inst(1) <= instantOf(t.start, "UTC")
      BY <2>1
    <2> QED
      BY <1>2, <1>3, <2>2
  <1>7. (CHOOSE i \in 1 .. Steps : isNext(i)) = 1
    BY <1>4, <1>5, <1>6
  <1> QED
    BY <1>1, <1>7, Instances DEF nextStart

-----------------------------------------------------------------------------
(* Tasks keep their shape.                                                 *)

LEMMA NoneIsNoValue == None \notin Value /\ Keep \notin Value /\ Keep # None
  BY TimeAssumption DEF None, Keep, Value

LEMMA AlarmsShift ==
    ASSUME NEW alarms \in SUBSET Alarm, NEW by \in Int
    PROVE  shiftAbsoluteAlarmTriggers(alarms, by) \in SUBSET Alarm
  BY DEF shiftAbsoluteAlarmTriggers, Alarm

LEMMA Anchors ==
    ASSUME NEW t \in Task, anchor(t) # None
    PROVE  anchor(t) \in Value /\ instantOf(anchor(t), "UTC") \in Int
  <1>1. anchor(t) \in Value
    BY DEF Task, anchor
  <1> QED
    BY <1>1, Instants DEF ReadingZone

LEMMA ToolDates == ASSUME NEW v \in ToolDate PROVE v \in Value /\ instantOf(v, "UTC") \in Int
  <1>1. v \in Value
    BY DEF ToolDate, Value
  <1> QED
    BY <1>1, Instants DEF ReadingZone

LEMMA PatchedAlarms ==
    ASSUME NEW t \in Task, NEW patch \in TodoPatch
    PROVE  patchAlarms(t, patch) \in SUBSET Alarm
  <1> DEFINE moved == CASE patch.due = Keep -> t.alarms
                        [] patch.due = None -> removeDueAnchoredAlarmTriggers(t.alarms)
                        [] OTHER ->
                             IF anchor(t) = None THEN t.alarms
                             ELSE shiftAbsoluteAlarmTriggers(t.alarms, dueShiftMillis(anchor(t), patch.due))
  <1>1. t.alarms \in SUBSET Alarm /\ AtPlace \in Alarm
    BY DEF Task, AtPlace, Alarm
  <1>2. patch.due \notin {Keep, None} /\ anchor(t) # None =>
            dueShiftMillis(anchor(t), patch.due) \in Int
    BY Anchors, ToolDates DEF TodoPatch, dueShiftMillis
  <1>3. moved \in SUBSET Alarm
    BY <1>1, <1>2, AlarmsShift, NoneIsNoValue DEF removeDueAnchoredAlarmTriggers
  <1> HIDE DEF moved
  <1>4. patchAlarms(t, patch) \in {moved, moved \ {AtPlace}, moved \cup {AtPlace}}
    BY DEF patchAlarms, TodoPatch, moved
  <1> QED
    BY <1>1, <1>3, <1>4

(* The rule after a patch, before it follows a new due.                    *)
NewRule(t, patch) ==
    CASE patch.rule.op = "keep"   -> t.rule
      [] patch.rule.op = "remove" -> NoRule
      [] patch.rule.op = "set"    ->
           buildRecurrenceRule(patch.rule.rule, IF patch.due = Keep THEN t.due ELSE patch.due)

LEMMA NewRules ==
    ASSUME NEW t \in Task, NEW patch \in TodoPatch, acceptsTodoUpdate(t, patch)
    PROVE  NewRule(t, patch) \in Rule0
  <1>1. CASE patch.rule = KeepRule
    BY <1>1 DEF NewRule, KeepRule, Task, Rule0
  <1>2. CASE patch.rule = DropRule
    BY <1>2 DEF NewRule, DropRule, Rule0
  <1>3. CASE patch.rule \in [op : {"set"}, rule : ToolRule]
    <2>1. patch.rule.op = "set" /\ patch.rule.rule \in ToolRule
      BY <1>3
    <2>2. (IF patch.due = Keep THEN t.due ELSE patch.due) \in Value
      BY <2>1, ToolDates DEF acceptsTodoUpdate, TodoPatch, Task
    <2>3. NewRule(t, patch) \in RRule
      BY <2>1, <2>2, RulesAreBuilt DEF NewRule
    <2> QED
      BY <2>3 DEF Rule0
  <1> QED
    BY <1>1, <1>2, <1>3 DEF TodoPatch, RulePatch

LEMMA Patching ==
    ASSUME NEW t \in Task, NEW patch \in TodoPatch
    PROVE  patchedTodo(t, patch) =
             [t EXCEPT !.start = IF patch.due = Keep THEN t.start ELSE patch.due,
                       !.due   = IF patch.due = Keep THEN t.due ELSE patch.due,
                       !.rule  = IF patch.due \in {Keep, None} THEN NewRule(t, patch)
                                 ELSE followUntilValueType(NewRule(t, patch), patch.due),
                       !.alarms = patchAlarms(t, patch)]
  <1> DEFINE ruled == [t EXCEPT !.rule = NewRule(t, patch)]
  <1>1. patchedTodo(t, patch) = [applyDuePatch(ruled, patch.due) EXCEPT !.alarms = patchAlarms(t, patch)]
    BY DEF patchedTodo, NewRule
  <1>2. CASE patch.due = Keep
    BY <1>1, <1>2 DEF applyDuePatch, Task
  <1>3. CASE patch.due # Keep
    BY <1>1, <1>3 DEF applyDuePatch, Task
  <1> QED
    BY <1>2, <1>3

LEMMA PatchedTask ==
    ASSUME NEW t \in Task, NEW patch \in TodoPatch, acceptsTodoUpdate(t, patch)
    PROVE  patchedTodo(t, patch) \in Task
  <1>1. patchAlarms(t, patch) \in SUBSET Alarm
    BY PatchedAlarms
  <1>2. NewRule(t, patch) \in Rule0
    BY NewRules
  <1>3. patch.due \in ToolDate \cup {Keep, None}
    BY DEF TodoPatch
  <1>4. patch.due \notin {Keep, None} => /\ patch.due \in Value
                                         /\ followUntilValueType(NewRule(t, patch), patch.due) \in Rule0
    BY <1>2, <1>3, UntilFollows, ToolDates
  <1> DEFINE start == IF patch.due = Keep THEN t.start ELSE patch.due
             due   == IF patch.due = Keep THEN t.due ELSE patch.due
             rule  == IF patch.due \in {Keep, None} THEN NewRule(t, patch)
                      ELSE followUntilValueType(NewRule(t, patch), patch.due)
  <1>5. patchedTodo(t, patch) = [t EXCEPT !.start = start, !.due = due, !.rule = rule,
                                          !.alarms = patchAlarms(t, patch)]
    BY Patching
  <1>6. start \in Value \cup {None} /\ due \in Value \cup {None} /\ rule \in Rule0
    BY <1>2, <1>3, <1>4 DEF Task
  <1> HIDE DEF start, due, rule
  <1> QED
    BY <1>1, <1>5, <1>6 DEF Task, Rule0

LEMMA CompletedTask ==
    ASSUME NEW t \in Task, t.start \in Value, t.rule \in RRule
    PROVE  /\ completeRecurringTodo(t) \in Task
           /\ completeRecurringTodo(t).start = nextStart(t)
           /\ completeRecurringTodo(t).completed = seriesEnded(t)
           /\ completeRecurringTodo(t).rule = IF seriesEnded(t) THEN t.rule ELSE countDown(t.rule)
           /\ completeRecurringTodo(t).alarms
                = shiftAbsoluteAlarmTriggers(t.alarms, dueShiftMillis(t.start, nextStart(t)))
  <1>1. nextStart(t) \in Value /\ nextStart(t).at - t.start.at \in Int
    BY NextIsTheNextDay DEF Value
  <1>2. dueShiftMillis(t.start, nextStart(t)) \in Int
    BY <1>1, Instants DEF dueShiftMillis, ReadingZone
  <1>3. shiftAbsoluteAlarmTriggers(t.alarms, dueShiftMillis(t.start, nextStart(t))) \in SUBSET Alarm
    BY <1>2, AlarmsShift DEF Task
  <1>4. t.due # None => later(t.due, nextStart(t).at - t.start.at) \in Value
    BY <1>1 DEF Task, later, Value
  <1>5. countDown(t.rule) \in RRule
    BY DEF countDown, RRule
  <1>6. PICK rule, due, alarms :
          /\ advanceMasterToNextOccurrence(t)
               = [t EXCEPT !.rule = rule, !.start = nextStart(t), !.due = due, !.alarms = alarms]
          /\ rule = IF seriesEnded(t) THEN t.rule ELSE countDown(t.rule)
          /\ due = IF t.due = None THEN None ELSE later(t.due, nextStart(t).at - t.start.at)
          /\ alarms = shiftAbsoluteAlarmTriggers(t.alarms, dueShiftMillis(t.start, nextStart(t)))
    BY DEF advanceMasterToNextOccurrence, Task
  <1>7. rule \in RRule /\ due \in Value \cup {None} /\ alarms \in SUBSET Alarm
    BY <1>3, <1>4, <1>5, <1>6 DEF Task
  <1>8. advanceMasterToNextOccurrence(t) \in Task
    BY <1>1, <1>6, <1>7 DEF Task
  <1>9. /\ advanceMasterToNextOccurrence(t).start = nextStart(t)
        /\ advanceMasterToNextOccurrence(t).rule = rule
        /\ advanceMasterToNextOccurrence(t).alarms = alarms
    BY <1>6 DEF Task
  <1>10. seriesEnded(t) \in BOOLEAN
    BY DEF seriesEnded
  <1> QED
    BY <1>6, <1>8, <1>9, <1>10 DEF completeRecurringTodo, applyCompletion, applyReopen, Task

(* What update-todo and complete-todo write.                               *)
LEMMA UpdatedTask ==
    ASSUME NEW t \in Task, NEW patch \in TodoPatch, acceptsTodoUpdate(t, patch)
    PROVE  /\ updatedTodo(t, patch) \in Task
           /\ patch.status = "keep" =>
                 /\ updatedTodo(t, patch).start = patchedTodo(t, patch).start
                 /\ updatedTodo(t, patch).due = patchedTodo(t, patch).due
                 /\ updatedTodo(t, patch).rule = patchedTodo(t, patch).rule
                 /\ updatedTodo(t, patch).alarms = patchedTodo(t, patch).alarms
  <1> DEFINE p == patchedTodo(t, patch)
             zoned(q) == [q EXCEPT !.shipped = (@ \cup ({patch.due.zone} \cap Zones)) \cap zonesOf(q)]
  <1>1. p \in Task
    BY PatchedTask
  <1> HIDE DEF p
  <1>2. ASSUME NEW q \in Task
        PROVE  /\ zoned(q) \in Task /\ zoned(q).start = q.start /\ zoned(q).due = q.due
               /\ zoned(q).rule = q.rule /\ zoned(q).alarms = q.alarms
    <2>1. zonesOf(q) \subseteq Zones
      BY DEF zonesOf
    <2> QED
      BY <2>1 DEF Task
  <1>3. applyCompletion(p) \in Task /\ applyReopen(p) \in Task
    BY <1>1 DEF applyCompletion, applyReopen, Task
  <1>4. CASE patch.status = "keep"
    <2>1. updatedTodo(t, patch) = zoned(p)
      BY <1>4 DEF updatedTodo, p
    <2> QED
      BY <1>1, <1>2, <2>1 DEF p
  <1>5. CASE patch.status = "reopen"
    <2>1. updatedTodo(t, patch) = zoned(applyReopen(p))
      BY <1>5 DEF updatedTodo, p
    <2> QED
      BY <1>2, <1>3, <1>5, <2>1
  <1>6. CASE patch.status = "complete" /\ t.rule = NoRule
    <2>1. updatedTodo(t, patch) = zoned(applyCompletion(p))
      BY <1>6 DEF updatedTodo, p
    <2> QED
      BY <1>2, <1>3, <1>6, <2>1
  <1>7. CASE patch.status = "complete" /\ t.rule # NoRule
    <2>1. updatedTodo(t, patch) = completeRecurringTodo(p)
      BY <1>7 DEF updatedTodo, p
    <2>2. p.rule \in RRule /\ p.start \in Value
      BY <1>1, <1>7 DEF acceptsTodoUpdate, Task, p
    <2> QED
      BY <1>1, <1>7, <2>1, <2>2, CompletedTask
  <1> QED
    BY <1>4, <1>5, <1>6, <1>7 DEF TodoPatch

LEMMA CreatedTask ==
    ASSUME NEW due \in ToolDate \cup {None}, NEW rule \in ToolRule \cup {NoRule},
           rule # NoRule => due # None
    PROVE  createdTodo(due, rule) \in Task /\ ValidTodo(createdTodo(due, rule))
  <1>1. /\ due \in Value \cup {None}
        /\ due # None => due \in ToolDate /\ due \in Value /\ instantOf(due, "UTC") \in Int
    BY ToolDates
  <1> DEFINE built == IF rule = NoRule THEN NoRule ELSE buildRecurrenceRule(rule, due)
             alarms == IF due # None /\ isDateTime(due) THEN {Absolute(instantOf(due, "UTC"))} ELSE {}
  <1>2. built \in Rule0
    <2>1. CASE rule = NoRule
      BY <2>1 DEF Rule0
    <2>2. CASE rule # NoRule
      BY <1>1, <2>2, RulesAreBuilt DEF Rule0
    <2> QED
      BY <2>1, <2>2
  <1>3. alarms \in SUBSET Alarm
    BY <1>1 DEF Absolute, Alarm
  <1>4. createdTodo(due, rule) = buildVTodoCalendar(due, built, alarms)
    BY DEF createdTodo
  <1>5. NoDur \in Duration
    BY DEF NoDur, Duration
  <1>6. due # None => validateRRule(due, built)
    <2> SUFFICES ASSUME due # None, built.until # None
                 PROVE  /\ sameType(built.until, due)
                        /\ isDateTime(due) => due.zone # "floating" /\ built.until.zone # "floating"
      BY DEF validateRRule
    <2>1. built = buildRecurrenceRule(rule, due)
      BY DEF NoRule
    <2>2. due.zone \in Zones \cup {"date"}
      BY DEF ToolDate
    <2>3. built.until.zone = IF isDateTime(due) THEN "utc" ELSE "date"
      BY <2>1 DEF buildRecurrenceRule
    <2> QED
      BY <2>2, <2>3, TimeAssumption DEF sameType, isDateTime
  <1>7. due # None => sameType(due, due) /\ due.at >= due.at
    BY DEF sameType, ToolDate
  <1> HIDE DEF built, alarms
  <1>8. createdTodo(due, rule) =
          [start |-> due, due |-> due, dur |-> NoDur, rule |-> built, completed |-> FALSE,
           alarms |-> alarms, shipped |-> {due.zone} \cap Zones, stored |-> TRUE]
    BY <1>4 DEF buildVTodoCalendar, BareTodo
  <1>9. createdTodo(due, rule) \in Task
    BY <1>1, <1>2, <1>3, <1>5, <1>8 DEF Task, Rule0
  <1> QED
    BY <1>6, <1>7, <1>8, <1>9 DEF ValidTodo, zonesOf

LEMMA TodosStayFit ==
    ASSUME TodoFits, [ObjectNext]_<<event, edits, todo, touches>>
    PROVE  TodoFits'
  <1>1. CASE UNCHANGED todo
    BY <1>1 DEF TodoFits
  <1>2. ASSUME NEW t \in ClientTodos, ClientPutTodo(t) PROVE TodoFits'
    BY <1>2, TasksAssumption DEF ClientPutTodo, TodoFits
  <1>3. ASSUME NEW due \in Dates \cup {None}, NEW rule \in Rules \cup {NoRule}, CreateTodo(due, rule)
        PROVE  TodoFits'
    <2>1. due \in ToolDate \cup {None} /\ rule \in ToolRule \cup {NoRule}
      BY InputsAssumption
    <2> QED
      BY <1>3, <2>1, CreatedTask DEF CreateTodo, TodoFits
  <1>4. ASSUME NEW patch \in TodoPatches, UpdateTodo(patch) PROVE TodoFits'
    <2>1. patch \in TodoPatch /\ todo \in Task
      BY <1>4, TasksAssumption DEF UpdateTodo, TodoFits
    <2> QED
      BY <1>4, <2>1, UpdatedTask DEF UpdateTodo, TodoFits
  <1>5. CASE DeleteTodo
    BY <1>5 DEF DeleteTodo, TodoFits
  <1> QED
    BY <1>1, <1>2, <1>3, <1>4, <1>5 DEF ObjectNext, TodoNext, todoVars

(* TodosFit: whatever clients and the task tools do, the stored task is one *)
(* its validation accepts, with dates, rule and alarms that mean something. *)
THEOREM TodosFit == ObjectSpec => []TodoFits
<1>1. ObjectInit => TodoFits
  BY DEF ObjectInit, TodoInit, TodoFits
<1>2. TodoFits /\ [ObjectNext]_<<event, edits, todo, touches>> => TodoFits'
  BY TodosStayFit
<1> QED
  BY <1>1, <1>2, PTL DEF ObjectSpec

LEMMA NoTodoIsBare ==
    /\ NoTodo.start = None /\ NoTodo.due = None /\ NoTodo.rule = NoRule /\ anchor(NoTodo) = None
  BY DEF NoTodo, BareTodo, anchor

(* A task the list shows in a window is a candidate of a REPORT of that     *)
(* window, unless it is due before it starts.                               *)
THEOREM TheQueryAgreesWithTheList == ObjectSpec => []TheQueryFindsWhatIsListed
<1>1. TodoFits => TheQueryFindsWhatIsListed
  <2> SUFFICES ASSUME TodoFits, NEW r \in Readers, NEW window \in Ranges,
                      filterTasksByWindow(todo, TRUE, window, r),
                      ~(todo.start # None /\ instantOf(todo.due, "UTC") < instantOf(todo.start, "UTC"))
               PROVE  isCandidate(todoBounds(todo), window)
    BY DEF TheQueryFindsWhatIsListed, QueryFindsDueTasks
  <2>1. todo # NoTodo
    BY NoTodoIsBare DEF filterTasksByWindow
  <2>2. todo \in Task /\ ValidTodo(todo)
    BY <2>1 DEF TodoFits
  <2>3. todo.due \in Value
    BY <2>2 DEF filterTasksByWindow, Task
  <2>4. todo.start # None => instantOf(todo.start, "UTC") \in Int /\ instantOf(todo.due, "UTC") \in Int
    BY <2>2, <2>3, Instants DEF Task, ReadingZone
  <2>5. todo.start = None \/ instantOf(todo.start, "UTC") <= instantOf(todo.due, "UTC")
    BY <2>4
  <2> QED
    BY <2>2, <2>5, IndexFollowsTheList
<1> QED
  BY <1>1, TodosFit, PTL

-----------------------------------------------------------------------------
(* Alarms.                                                                 *)

Distances(alarms, instant) == {a.at - instant : a \in {b \in alarms : b.trigger = "absolute"}}

(* Absolute alarms that move as far as their date keep their distance to   *)
(* it, and one at a place is none of them.                                 *)
LEMMA ShiftedAlarms ==
    ASSUME NEW alarms \in SUBSET Alarm, NEW old \in Int, NEW new \in Int
    PROVE  Distances(shiftAbsoluteAlarmTriggers(alarms, new - old), new) = Distances(alarms, old)
  <1> DEFINE moved == shiftAbsoluteAlarmTriggers(alarms, new - old)
             to(a) == IF a.trigger = "absolute" THEN [a EXCEPT !.at = @ + (new - old)] ELSE a
  <1>1. moved = {to(a) : a \in alarms}
    BY DEF shiftAbsoluteAlarmTriggers
  <1>2. \A a \in alarms : a.trigger = "absolute" =>
            to(a).trigger = "absolute" /\ to(a).at - new = a.at - old
    BY DEF Alarm
  <1>3. \A a \in alarms : a.trigger # "absolute" => to(a).trigger # "absolute"
    OBVIOUS
  <1> HIDE DEF to, moved
  <1>4. ASSUME NEW d \in Distances(moved, new) PROVE d \in Distances(alarms, old)
    <2>1. PICK b \in moved : b.trigger = "absolute" /\ d = b.at - new
      BY <1>4 DEF Distances
    <2>2. PICK a \in alarms : b = to(a)
      BY <1>1, <2>1
    <2> QED
      BY <1>2, <1>3, <2>1, <2>2 DEF Distances
  <1>5. ASSUME NEW d \in Distances(alarms, old) PROVE d \in Distances(moved, new)
    <2>1. PICK a \in alarms : a.trigger = "absolute" /\ d = a.at - old
      BY <1>5 DEF Distances
    <2>2. to(a) \in moved /\ to(a).trigger = "absolute" /\ d = to(a).at - new
      BY <1>1, <1>2, <2>1
    <2> QED
      BY <2>2 DEF Distances
  <1> QED
    BY <1>4, <1>5 DEF moved

LEMMA PlacesHaveNoDistance ==
    ASSUME NEW alarms, NEW instant
    PROVE  /\ Distances(alarms \ {AtPlace}, instant) = Distances(alarms, instant)
           /\ Distances(alarms \cup {AtPlace}, instant) = Distances(alarms, instant)
  <1>1. AtPlace.trigger # "absolute"
    BY DEF AtPlace
  <1> HIDE DEF AtPlace
  <1> DEFINE absolute(s) == {b \in s : b.trigger = "absolute"}
  <1>2. absolute(alarms \ {AtPlace}) = absolute(alarms) /\ absolute(alarms \cup {AtPlace}) = absolute(alarms)
    BY <1>1
  <1> QED
    BY <1>2 DEF Distances

(* An alarm at an instant keeps its distance to the date it was set for    *)
(* whenever a tool moves that date.                                        *)
THEOREM AlarmsKeepTheirDistance == ObjectSpec => []AlarmsFollowTheDate
<1>1. ASSUME TodoFits, anchor(todo) # None, NEW patch \in TodoPatches,
             patch.due \notin {Keep, None}, patch.status = "keep", acceptsTodoUpdate(todo, patch)
      PROVE  Distances(updatedTodo(todo, patch).alarms, instantOf(updatedTodo(todo, patch).due, "UTC"))
               = Distances(todo.alarms, instantOf(anchor(todo), "UTC"))
  <2>1. todo \in Task /\ patch \in TodoPatch /\ todo.alarms \in SUBSET Alarm
    BY <1>1, NoTodoIsBare, TasksAssumption DEF TodoFits, Task
  <2>2. patch.due \in ToolDate
    BY <1>1, <2>1 DEF TodoPatch
  <2>3. PICK old \in Int, new \in Int :
            old = instantOf(anchor(todo), "UTC") /\ new = instantOf(patch.due, "UTC")
    BY <1>1, <2>1, <2>2, Anchors, ToolDates
  <2> DEFINE moved == shiftAbsoluteAlarmTriggers(todo.alarms, new - old)
  <2>4. patchAlarms(todo, patch) \in {moved, moved \ {AtPlace}, moved \cup {AtPlace}}
    BY <1>1, <2>1, <2>3 DEF patchAlarms, TodoPatch, dueShiftMillis
  <2>5. Distances(patchAlarms(todo, patch), new) = Distances(moved, new)
    BY <2>4, PlacesHaveNoDistance
  <2>6. Distances(moved, new) = Distances(todo.alarms, old)
    BY <2>1, ShiftedAlarms
  <2>7. updatedTodo(todo, patch).alarms = patchAlarms(todo, patch) /\ updatedTodo(todo, patch).due = patch.due
    <3>1. patchedTodo(todo, patch).alarms = patchAlarms(todo, patch) /\ patchedTodo(todo, patch).due = patch.due
      <4> DEFINE start == IF patch.due = Keep THEN todo.start ELSE patch.due
                 due   == IF patch.due = Keep THEN todo.due ELSE patch.due
                 rule  == IF patch.due \in {Keep, None} THEN NewRule(todo, patch)
                          ELSE followUntilValueType(NewRule(todo, patch), patch.due)
      <4>1. patchedTodo(todo, patch) = [todo EXCEPT !.start = start, !.due = due, !.rule = rule,
                                                    !.alarms = patchAlarms(todo, patch)]
        BY <2>1, Patching
      <4>2. due = patch.due
        BY <1>1
      <4> HIDE DEF start, due, rule
      <4> QED
        BY <2>1, <4>1, <4>2 DEF Task
    <3> QED
      BY <1>1, <2>1, <3>1, UpdatedTask
  <2> QED
    BY <2>3, <2>5, <2>6, <2>7
<1>2. ASSUME TodoFits, todo.rule # NoRule, todo.start # None
      PROVE  Distances(completeRecurringTodo(todo).alarms, instantOf(completeRecurringTodo(todo).start, "UTC"))
               = Distances(todo.alarms, instantOf(todo.start, "UTC"))
  <2>1. todo \in Task /\ todo.start \in Value /\ todo.rule \in RRule /\ todo.alarms \in SUBSET Alarm
    BY <1>2, NoTodoIsBare DEF TodoFits, Task
  <2>2. PICK old \in Int, new \in Int :
            old = instantOf(todo.start, "UTC") /\ new = instantOf(nextStart(todo), "UTC")
    BY <2>1, NextIsTheNextDay, Instants DEF ReadingZone
  <2>3. /\ completeRecurringTodo(todo).start = nextStart(todo)
        /\ completeRecurringTodo(todo).alarms = shiftAbsoluteAlarmTriggers(todo.alarms, new - old)
    BY <2>1, <2>2, CompletedTask DEF dueShiftMillis
  <2> QED
    BY <2>1, <2>2, <2>3, ShiftedAlarms
<1>3. TodoFits => AlarmsFollowTheDate
  BY <1>1, <1>2 DEF AlarmsFollowTheDate, Distances
<1> QED
  BY <1>3, TodosFit, PTL

-----------------------------------------------------------------------------
(* Series of tasks.                                                        *)

(* The instances left of a series: those its COUNT and UNTIL let through.  *)
Goes(t, k) ==
    /\ t.rule.count = 0 \/ k < t.rule.count
    /\ t.rule.until = None \/ Inst(t, k) <= instantOf(t.rule.until, "UTC")

LEMMA InstancesOfTasks ==
    ASSUME NEW t \in Task, t.start \in Value, t.rule \in RRule
    PROVE  /\ \A k \in Nat : Inst(t, k) \in Int
           /\ \A j, k \in Nat : j < k => Inst(t, j) < Inst(t, k)
           /\ Inst(t, 0) = instantOf(t.start, "UTC")
  <1>1. t.rule.step \in Nat \ {0}
    BY DEF RRule
  <1> QED
    BY <1>1, LaterInstances, Instances DEF Inst

LEMMA EarlierInstancesGo ==
    ASSUME NEW t \in Task, t.start \in Value, t.rule \in RRule,
           NEW k \in Nat, NEW j \in 0 .. k, Goes(t, k)
    PROVE  Goes(t, j)
  <1>1. j < k \/ j = k
    OBVIOUS
  <1>2. Inst(t, j) \in Int /\ Inst(t, k) \in Int /\ Inst(t, j) <= Inst(t, k)
    BY <1>1, InstancesOfTasks
  <1>3. t.rule.count \in Nat /\ (t.rule.until # None => instantOf(t.rule.until, "UTC") \in Int)
    BY Instants DEF RRule, ReadingZone
  <1> QED
    BY <1>2, <1>3 DEF Goes

LEMMA WhatRemains ==
    ASSUME NEW t \in Task, t.start \in Value, t.rule \in RRule
    PROVE  Remaining(t) = {Inst(t, k) : k \in {i \in 0 .. Steps : Goes(t, i)}}
  <1> DEFINE e     == [NoEvent EXCEPT !.master = Component(t.start, None, NoDur, "free"), !.rule = t.rule]
             range == [start |-> 0, end |-> Inst(t, Steps) + 1]
  <1>1. Steps \in Nat
    BY RecurrenceAssumption
  <1>2. Remaining(t) = {Inst(t, k) : k \in ruleInstances(e, range, "UTC")}
    BY DEF Remaining, Inst
  <1>3. e.master.start = t.start /\ e.rule = t.rule
    BY DEF NoEvent, Component
  <1>4. ruleInstances(e, range, "UTC")
          = {k \in 0 .. Steps : \A j \in 0 .. k : Goes(t, j) /\ Inst(t, j) < Inst(t, Steps) + 1}
    BY <1>3 DEF ruleInstances, Goes, Inst
  <1>5. \A j \in 0 .. Steps : Inst(t, j) < Inst(t, Steps) + 1
    <2> TAKE j \in 0 .. Steps
    <2>1. j \in Nat /\ (j < Steps \/ j = Steps)
      BY <1>1
    <2> QED
      BY <1>1, <2>1, InstancesOfTasks
  <1> HIDE DEF e, range
  <1>6. \A k \in 0 .. Steps : Goes(t, k) => \A j \in 0 .. k : Goes(t, j)
    BY <1>1, EarlierInstancesGo
  <1>7. ruleInstances(e, range, "UTC") = {i \in 0 .. Steps : Goes(t, i)}
    BY <1>1, <1>4, <1>5, <1>6
  <1> QED
    BY <1>2, <1>7

LEMMA OneMore ==
    ASSUME NEW i \in Int, NEW n \in Int
    PROVE  (i + 1) * n = i * n + n /\ i * n \in Int
  OBVIOUS

(* After a completion that does not end it, a series has the instances it  *)
(* had, one fewer at the front.                                            *)
LEMMA InstancesMoveUp ==
    ASSUME NEW t \in Task, t.start \in Value, t.rule \in RRule, ~seriesEnded(t), NEW k \in Nat
    PROVE  /\ Inst(completeRecurringTodo(t), k) = Inst(t, k + 1)
           /\ Goes(completeRecurringTodo(t), k) <=> Goes(t, k + 1)
  <1> DEFINE after == completeRecurringTodo(t)
  <1>1. /\ after.start = reconstruct(t.start, t.rule.step, 1)
        /\ after.rule = countDown(t.rule)
    BY CompletedTask, NextIsTheNextDay
  <1> HIDE DEF after
  <1>2. /\ t.rule.step \in Nat \ {0} /\ t.rule.count \in Nat /\ t.rule.count # 1
        /\ after.rule.step = t.rule.step /\ after.rule.until = t.rule.until
        /\ after.rule.count = IF t.rule.count > 0 THEN t.rule.count - 1 ELSE 0
    BY <1>1 DEF countDown, RRule, seriesEnded
  <1>3. reconstruct(after.start, after.rule.step, k) = reconstruct(t.start, t.rule.step, k + 1)
    <2>1. PICK n \in Nat \ {0} : n = t.rule.step * DaySlots
      BY <1>2, TimeAssumption
    <2>2. PICK at \in Int : at = t.start.at
      BY DEF Value
    <2>3. /\ at + 1 * t.rule.step * DaySlots = at + n
          /\ at + (k + 1) * t.rule.step * DaySlots = at + (k + 1) * n
      BY <1>2, <2>1, TimeAssumption
    <2>4. (at + n) + k * t.rule.step * DaySlots = (at + n) + k * n
      BY <1>2, <2>1, TimeAssumption
    <2>5. (at + n) + k * n = at + (k + 1) * n
      <3>1. (k + 1) * n = k * n + n /\ k * n \in Int
        <4>1. k \in Int /\ n \in Int
          BY <2>1
        <4> QED
          BY <4>1, OneMore, Zenon
      <3> QED
        BY <2>1, <2>2, <3>1
    <2>6. after.start = [t.start EXCEPT !.at = at + n]
      BY <1>1, <2>2, <2>3 DEF reconstruct, Value
    <2>7. reconstruct(after.start, after.rule.step, k) = [t.start EXCEPT !.at = (at + n) + k * t.rule.step * DaySlots]
      BY <1>2, <2>6 DEF reconstruct, Value
    <2>8. reconstruct(t.start, t.rule.step, k + 1) = [t.start EXCEPT !.at = at + (k + 1) * t.rule.step * DaySlots]
      BY <2>2 DEF reconstruct, Value
    <2> QED
      BY <2>3, <2>4, <2>5, <2>7, <2>8
  <1>4. Inst(after, k) = Inst(t, k + 1)
    BY <1>3 DEF Inst
  <1>5. (after.rule.count = 0 \/ k < after.rule.count) <=> (t.rule.count = 0 \/ k + 1 < t.rule.count)
    BY <1>2
  <1> QED
    BY <1>2, <1>4, <1>5 DEF Goes, after

LEMMA EndedSeries ==
    ASSUME NEW t \in Task, t.start \in Value, t.rule \in RRule
    PROVE  seriesEnded(t) <=> ~Goes(t, 1)
  <1>1. instantOf(nextStart(t), "UTC") = Inst(t, 1) /\ Inst(t, 1) \in Int
    BY NextIsTheNextDay, InstancesOfTasks DEF Inst
  <1>2. t.rule.count \in Nat /\ (t.rule.until # None => instantOf(t.rule.until, "UTC") \in Int)
    BY Instants DEF RRule, ReadingZone
  <1> QED
    BY <1>1, <1>2 DEF seriesEnded, Goes

(* Completing an occurrence of a series leaves exactly the later ones, and *)
(* ends the series when there is none.                                     *)
THEOREM CompletionIsExact == ObjectSpec => []CompletionTakesOneOccurrence
<1>1. ASSUME NEW t \in Task, t.start \in Value, t.rule \in RRule
      PROVE  seriesEnded(t) <=> Remaining(t) \subseteq {Inst(t, 0)}
  <2>1. 1 \in 0 .. Steps /\ Inst(t, 0) < Inst(t, 1) /\ Inst(t, 0) \in Int /\ Inst(t, 1) \in Int
    BY <1>1, RecurrenceAssumption, InstancesOfTasks
  <2>2. Goes(t, 1) => Inst(t, 1) \in Remaining(t)
    BY <1>1, <2>1, WhatRemains
  <2>3. ASSUME ~Goes(t, 1), NEW k \in 0 .. Steps, Goes(t, k) PROVE k = 0
    <3>1. k \in Nat /\ (k = 0 \/ 1 \in 0 .. k)
      OBVIOUS
    <3> QED
      BY <1>1, <2>3, <3>1, EarlierInstancesGo
  <2>4. ~Goes(t, 1) => Remaining(t) \subseteq {Inst(t, 0)}
    BY <1>1, <2>3, WhatRemains
  <2> QED
    BY <1>1, <2>1, <2>2, <2>4, EndedSeries
<1>2. ASSUME NEW t \in Task, t.start \in Value, t.rule \in RRule, ~seriesEnded(t)
      PROVE  {i \in Remaining(completeRecurringTodo(t)) : i <= Inst(t, Steps)}
               = Remaining(t) \ {Inst(t, 0)}
  <2> DEFINE after == completeRecurringTodo(t)
  <2>1. /\ Steps \in Nat \ {0}
        /\ \A k \in Nat : Inst(t, k) \in Int
        /\ \A j, k \in Nat : j < k => Inst(t, j) < Inst(t, k)
    BY <1>2, RecurrenceAssumption, InstancesOfTasks
  <2>2. \A k \in Nat : Inst(after, k) = Inst(t, k + 1) /\ (Goes(after, k) <=> Goes(t, k + 1))
    BY <1>2, InstancesMoveUp
  <2>3. /\ after \in Task /\ after.start \in Value /\ after.rule \in RRule
    <3>1. after \in Task /\ after.start = nextStart(t) /\ after.rule = countDown(t.rule)
      BY <1>2, CompletedTask
    <3>2. countDown(t.rule) \in RRule
      BY <1>2 DEF countDown, RRule
    <3> QED
      BY <1>2, <3>1, <3>2, NextIsTheNextDay
  <2> HIDE DEF after
  <2>4. /\ Remaining(after) = {Inst(after, k) : k \in {i \in 0 .. Steps : Goes(after, i)}}
        /\ Remaining(t) = {Inst(t, k) : k \in {i \in 0 .. Steps : Goes(t, i)}}
    BY <1>2, <2>3, WhatRemains
  <2>5. ASSUME NEW i \in Remaining(after), i <= Inst(t, Steps) PROVE i \in Remaining(t) \ {Inst(t, 0)}
    <3>1. PICK k \in 0 .. Steps : Goes(after, k) /\ i = Inst(after, k)
      BY <2>4
    <3>2. k \in Nat /\ k + 1 \in Nat /\ Goes(t, k + 1) /\ i = Inst(t, k + 1)
      BY <2>1, <2>2, <3>1
    <3>3. ~(Steps < k + 1)
      BY <2>1, <2>5, <3>2
    <3>4. k + 1 \in 0 .. Steps
      BY <2>1, <3>2, <3>3
    <3>5. i # Inst(t, 0)
      BY <2>1, <3>2
    <3> QED
      BY <2>4, <3>2, <3>4, <3>5
  <2>6. ASSUME NEW i \in Remaining(t), i # Inst(t, 0) PROVE i \in Remaining(after) /\ i <= Inst(t, Steps)
    <3>1. PICK k \in 0 .. Steps : Goes(t, k) /\ i = Inst(t, k)
      BY <2>4
    <3>2. k # 0
      BY <2>6, <3>1
    <3>3. k - 1 \in 0 .. Steps /\ k - 1 \in Nat /\ (k - 1) + 1 = k /\ k \in Nat /\ (k < Steps \/ k = Steps)
      BY <2>1, <3>1, <3>2
    <3>4. Goes(after, k - 1) /\ Inst(after, k - 1) = i
      BY <2>2, <3>1, <3>3
    <3>5. i <= Inst(t, Steps)
      BY <2>1, <3>1, <3>3
    <3> QED
      BY <2>4, <3>3, <3>4, <3>5
  <2> QED
    BY <2>5, <2>6 DEF after
<1>3. ASSUME TodoFits, todo.rule # NoRule, todo.start # None
      PROVE  /\ todo \in Task /\ todo.start \in Value /\ todo.rule \in RRule
             /\ Inst(todo, 0) = instantOf(todo.start, "UTC")
             /\ completeRecurringTodo(todo).completed = seriesEnded(todo)
  <2>1. todo \in Task /\ todo.start \in Value /\ todo.rule \in RRule
    BY <1>3, NoTodoIsBare DEF TodoFits, Task
  <2> QED
    BY <2>1, InstancesOfTasks, CompletedTask
<1>4. TodoFits => CompletionTakesOneOccurrence
  <2> SUFFICES ASSUME TodoFits, todo.rule # NoRule, todo.start # None
               PROVE  /\ completeRecurringTodo(todo).completed <=> Remaining(todo) \subseteq {Inst(todo, 0)}
                      /\ ~completeRecurringTodo(todo).completed =>
                            {i \in Remaining(completeRecurringTodo(todo)) : i <= Inst(todo, Steps)}
                               = Remaining(todo) \ {Inst(todo, 0)}
    BY <1>3 DEF CompletionTakesOneOccurrence, Inst
  <2> QED
    BY <1>1, <1>2, <1>3
<1> QED
  BY <1>4, TodosFit, PTL

-----------------------------------------------------------------------------
(* Events keep their shape and their zones.                                *)

LEMMA NewStarts ==
    ASSUME NEW e \in EventObject, NEW patch \in Patch
    PROVE  /\ startOf(e, patch) \in Value
           /\ patchDates(e.master, patch) \in VEvent
           /\ patchDates(e.master, patch).start = startOf(e, patch)
           /\ patchDates(e.master, patch).end = IF patch.end # Keep THEN patch.end ELSE e.master.end
           /\ patchDates(e.master, patch).dur = IF patch.end # Keep THEN NoDur ELSE e.master.dur
  <1>1. e.master \in VEvent /\ NoDur \in Duration
    BY DEF EventObject, NoDur, Duration
  <1>2. /\ patch.start # Keep => patch.start \in Value
        /\ patch.end # Keep => patch.end \in Value \cup {None}
    BY ToolDates DEF Patch
  <1> DEFINE start == IF patch.start # Keep THEN patch.start ELSE e.master.start
             end   == IF patch.end # Keep THEN patch.end ELSE e.master.end
             dur   == IF patch.end # Keep THEN NoDur ELSE e.master.dur
  <1>3. start \in Value /\ end \in Value \cup {None} /\ dur \in Duration
    BY <1>1, <1>2 DEF VEvent
  <1>4. patchDates(e.master, patch) = [e.master EXCEPT !.start = start, !.end = end, !.dur = dur]
    BY <1>1 DEF patchDates, VEvent
  <1>5. startOf(e, patch) = start
    BY DEF startOf
  <1> HIDE DEF start, end, dur
  <1>6. /\ patchDates(e.master, patch) \in VEvent
        /\ patchDates(e.master, patch).start = start
        /\ patchDates(e.master, patch).end = end /\ patchDates(e.master, patch).dur = dur
    BY <1>1, <1>3, <1>4 DEF VEvent
  <1> QED
    BY <1>3, <1>5, <1>6 DEF start, end, dur

LEMMA NewEventRules ==
    ASSUME NEW e \in EventObject, NEW patch \in Patch
    PROVE  /\ patchRule(e, patch) \in Rule0
           /\ patch.start # Keep => followUntilValueType(patchRule(e, patch), patch.start) \in Rule0
  <1>1. ASSUME patch.rule = KeepRule
        PROVE  patchRule(e, patch) \in Rule0
    BY <1>1 DEF patchRule, KeepRule, EventObject, Rule0
  <1>2. ASSUME patch.rule = DropRule
        PROVE  patchRule(e, patch) \in Rule0
    BY <1>2 DEF patchRule, DropRule, Rule0
  <1>3. ASSUME patch.rule \in [op : {"set"}, rule : ToolRule]
        PROVE  patchRule(e, patch) \in Rule0
    <2>1. patch.rule.op = "set" /\ patch.rule.rule \in ToolRule /\ startOf(e, patch) \in Value
      BY <1>3, NewStarts
    <2>2. patchRule(e, patch) \in RRule
      BY <2>1, RulesAreBuilt DEF patchRule
    <2> QED
      BY <2>2 DEF Rule0
  <1>4. patchRule(e, patch) \in Rule0
    BY <1>1, <1>2, <1>3 DEF Patch, RulePatch
  <1>5. patch.start # Keep => patch.start \in ToolDate
    BY DEF Patch
  <1> QED
    BY <1>4, <1>5, UntilFollows

LEMMA PatchedEvent ==
    ASSUME NEW e \in EventObject, NEW patch \in Patch
    PROVE  LET p == patchVEventFields(e, patch)
           IN  /\ p \in EventObject
               /\ p.master = patchDates(e.master, patch)
               /\ p.rule = IF patch.start # Keep THEN followUntilValueType(patchRule(e, patch), patch.start)
                          ELSE patchRule(e, patch)
               /\ p.exdates = IF patch.rule.op = "remove" THEN {} ELSE e.exdates
               /\ p.rdates \in {e.rdates, <<>>}
               /\ p.overrides = e.overrides /\ p.shipped = e.shipped
  <1> DEFINE rule    == IF patch.start # Keep THEN followUntilValueType(patchRule(e, patch), patch.start)
                        ELSE patchRule(e, patch)
             exdates == IF patch.rule.op = "remove" THEN {} ELSE e.exdates
             rdates  == IF patch.rule.op = "remove" THEN <<>> ELSE e.rdates
             master  == patchDates(e.master, patch)
  <1>1. rule \in Rule0 /\ master \in VEvent
    BY NewEventRules, NewStarts
  <1>2. /\ exdates \subseteq e.exdates
        /\ rdates \in {e.rdates, <<>>}
        /\ rdates \in Seq([start : Value, end : Value \cup {None}])
    BY DEF EventObject
  <1>3. patchVEventFields(e, patch)
          = [e EXCEPT !.rule = rule, !.exdates = exdates, !.rdates = rdates, !.master = master]
    BY DEF patchVEventFields, EventObject
  <1> HIDE DEF rule, exdates, rdates, master
  <1> QED
    BY <1>1, <1>2, <1>3 DEF EventObject, Rule0, rule, exdates, master

(* An object that takes its values from another one and two new dates      *)
(* refers to no other zones than theirs.                                   *)
LEMMA NoOtherZones ==
    ASSUME NEW p, NEW e, NEW a, NEW b,
           p.master.start \in {e.master.start, a}, p.master.end \in {e.master.end, b},
           p.exdates \subseteq e.exdates, p.rdates \in {e.rdates, <<>>}, p.overrides \subseteq e.overrides
    PROVE  referenced(p) \subseteq referenced(e) \cup ({a.zone, b.zone} \cap Zones)
  <1>1. rdateValues(p) \subseteq rdateValues(e)
    BY DEF rdateValues
  <1>2. overrideValues(p) \subseteq overrideValues(e)
    BY DEF overrideValues
  <1>3. dateValues(p) \subseteq dateValues(e) \cup {a, b}
    BY <1>1, <1>2 DEF dateValues
  <1> QED
    BY <1>3 DEF referenced

LEMMA SameZones ==
    ASSUME NEW p, NEW e, p.master = e.master, p.exdates = e.exdates, p.rdates = e.rdates,
           p.overrides = e.overrides
    PROVE  referenced(p) = referenced(e)
  BY DEF referenced, dateValues, rdateValues, overrideValues

(* What update-event writes ships the zones it refers to and no others.    *)
LEMMA UpdatedEvent ==
    ASSUME NEW e \in EventObject, NEW patch \in Patch, validateTzidReferences(e)
    PROVE  /\ updated(e, patch) \in EventObject
           /\ updated(e, patch).master = patchVEventFields(e, patch).master
           /\ updated(e, patch).rule = patchVEventFields(e, patch).rule
           /\ updated(e, patch).exdates = patchVEventFields(e, patch).exdates
           /\ updated(e, patch).overrides = IF patch.rule.op = "remove" THEN {} ELSE e.overrides
           /\ updated(e, patch).shipped = referenced(updated(e, patch))
  <1> DEFINE p == patchVEventFields(e, patch)
             zones == {patch.start.zone, patch.end.zone} \cap Zones
             overrides == IF patch.rule.op = "remove" THEN {} ELSE p.overrides
             q == [p EXCEPT !.overrides = overrides, !.shipped = p.shipped \cup zones]
  <1>1. /\ p \in EventObject
        /\ p.master.start \in {e.master.start, patch.start}
        /\ p.master.end \in {e.master.end, patch.end}
        /\ p.exdates \subseteq e.exdates /\ p.rdates \in {e.rdates, <<>>}
        /\ p.overrides = e.overrides /\ p.shipped = e.shipped
    BY PatchedEvent, NewStarts DEF startOf
  <1>2. overrides \subseteq p.overrides /\ zones \subseteq Zones
    OBVIOUS
  <1>3. updated(e, patch) = pruneUnreferencedVTimezones(q)
    BY <1>1 DEF updated, EventObject
  <1> HIDE DEF p, zones, overrides
  <1>4. /\ q \in EventObject
        /\ q.master = p.master /\ q.rule = p.rule /\ q.exdates = p.exdates /\ q.rdates = p.rdates
        /\ q.overrides = overrides /\ q.shipped = p.shipped \cup zones
    BY <1>1, <1>2 DEF EventObject
  <1> HIDE DEF q
  <1>5. referenced(q) \subseteq referenced(e) \cup zones
    <2> DEFINE start == patch.start  end == patch.end
    <2>1. /\ q.master.start \in {e.master.start, start}
          /\ q.master.end \in {e.master.end, end}
          /\ q.exdates \subseteq e.exdates /\ q.rdates \in {e.rdates, <<>>}
          /\ q.overrides \subseteq e.overrides
      BY <1>1, <1>2, <1>4
    <2>2. zones = {start.zone, end.zone} \cap Zones
      BY DEF zones
    <2> HIDE DEF start, end
    <2>3. referenced(q) \subseteq referenced(e) \cup ({start.zone, end.zone} \cap Zones)
      BY <2>1, NoOtherZones
    <2> QED
      BY <2>2, <2>3
  <1>6. referenced(q) \subseteq q.shipped
    BY <1>1, <1>4, <1>5 DEF validateTzidReferences
  <1>7. updated(e, patch) = [q EXCEPT !.shipped = referenced(q)]
    BY <1>3, <1>4, <1>6 DEF pruneUnreferencedVTimezones, EventObject
  <1>8. referenced(q) \subseteq Zones
    BY DEF referenced
  <1>9. /\ updated(e, patch) \in EventObject
        /\ updated(e, patch).master = q.master /\ updated(e, patch).rule = q.rule
        /\ updated(e, patch).exdates = q.exdates
        /\ updated(e, patch).rdates = q.rdates /\ updated(e, patch).overrides = q.overrides
        /\ updated(e, patch).shipped = referenced(q)
    BY <1>4, <1>7, <1>8 DEF EventObject
  <1> QED
    BY <1>1, <1>4, <1>9, SameZones DEF overrides, p

LEMMA CreatedEvent ==
    ASSUME NEW start \in ToolDate, NEW end \in ToolDate \cup {None}, NEW rule \in ToolRule \cup {NoRule}
    PROVE  created(start, end, rule) \in EventObject /\ created(start, end, rule).overrides = {}
  <1> DEFINE clock == epochToLocalFields(instantOf(start, "UTC") + DefaultLength, start.zone)
             last  == IF end # None \/ ~isDateTime(start) THEN end ELSE [start EXCEPT !.at = clock]
             built == IF rule = NoRule THEN NoRule ELSE buildRecurrenceRule(rule, start)
  <1>1. start \in Value /\ end \in Value \cup {None} /\ instantOf(start, "UTC") + DefaultLength \in Int
    BY ToolDates DEF DefaultLength
  <1>2. isDateTime(start) => clock \in Int
    <2>1. isDateTime(start) => start.zone \in ReadingZone
      BY DEF isDateTime, ToolDate, ReadingZone
    <2> QED
      BY <1>1, <2>1, Offsets DEF epochToLocalFields
  <1>3. last \in Value \cup {None}
    BY <1>1, <1>2 DEF Value
  <1>4. built \in Rule0
    BY <1>1, RulesAreBuilt DEF Rule0
  <1>5. created(start, end, rule) = buildVEventCalendar(start, last, built)
    BY DEF created
  <1> HIDE DEF last, built
  <1>6. Component(start, last, NoDur, "busy") \in VEvent
    BY <1>1, <1>3 DEF Component, VEvent, NoDur, Duration
  <1>7. created(start, end, rule)
          = [master |-> Component(start, last, NoDur, "busy"), rule |-> built, rdates |-> <<>>,
             exdates |-> {}, overrides |-> {}, shipped |-> {start.zone} \cap Zones]
    BY <1>5 DEF buildVEventCalendar, NoEvent
  <1> QED
    BY <1>4, <1>6, <1>7 DEF EventObject, Rule0

EventFits == event = NoEvent \/ (event \in EventObject /\ Valid(event) /\ IsFiniteSet(event.overrides))

LEMMA EventsStayFit ==
    ASSUME EventFits, [ObjectNext]_<<event, edits, todo, touches>>
    PROVE  EventFits'
  <1>1. CASE UNCHANGED event
    BY <1>1 DEF EventFits
  <1>2. ASSUME NEW e \in ClientEvents, ClientPut(e) PROVE EventFits'
    BY <1>2, InputsAssumption DEF ClientPut, EventFits
  <1>3. ASSUME NEW start \in Dates, NEW end \in Dates \cup {None}, NEW rule \in Rules \cup {NoRule},
               CreateEvent(start, end, rule)
        PROVE  EventFits'
    <2>1. created(start, end, rule) \in EventObject /\ IsFiniteSet(created(start, end, rule).overrides)
      BY InputsAssumption, CreatedEvent, FS_EmptySet
    <2> QED
      BY <1>3, <2>1 DEF CreateEvent, EventFits
  <1>4. ASSUME NEW patch \in Patches, UpdateEvent(patch) PROVE EventFits'
    <2>1. /\ patch \in Patch /\ event \in EventObject /\ validateTzidReferences(event)
      BY <1>4, PatchesAssumption DEF UpdateEvent, EventFits, Valid
    <2>2. IsFiniteSet(event.overrides)
      BY <1>4 DEF UpdateEvent, EventFits
    <2>3. IsFiniteSet(updated(event, patch).overrides)
      BY <2>1, <2>2, UpdatedEvent, FS_Subset
    <2> QED
      BY <1>4, <2>1, <2>3, UpdatedEvent DEF UpdateEvent, EventFits
  <1>5. CASE DeleteEvent
    BY <1>5 DEF DeleteEvent, EventFits
  <1> QED
    BY <1>1, <1>2, <1>3, <1>4, <1>5 DEF ObjectNext, Next, vars

(* EventsFit: whatever clients and the event tools do, the stored event is  *)
(* one its validation accepts.                                             *)
THEOREM EventsFit == ObjectSpec => []EventFits
<1>1. ObjectInit => EventFits
  BY DEF ObjectInit, Init, EventFits
<1>2. EventFits /\ [ObjectNext]_<<event, edits, todo, touches>> => EventFits'
  BY EventsStayFit
<1> QED
  BY <1>1, <1>2, PTL DEF ObjectSpec

(* Whatever a tool builds from a stored event ships the VTIMEZONE of every *)
(* zone it still refers to, and no other.                                  *)
THEOREM ZonesStayWhole == ObjectSpec => []EditsKeepZonesWhole
<1>1. EventFits => EditsKeepZonesWhole
  BY UpdatedEvent, PatchesAssumption DEF EventFits, EditsKeepZonesWhole, Valid
<1> QED
  BY <1>1, EventsFit, PTL

-----------------------------------------------------------------------------
(* What an event shows.                                                    *)

LEMMA Periods ==
    ASSUME NEW start \in Value, NEW end \in Value \cup {None}, NEW dur \in Duration, NEW r \in ReadingZone
    PROVE  LET p == effectiveEventPeriod(start, end, dur, r)
           IN  p.start = instantOf(start, r) /\ p.start \in Int /\ p.end \in Int
  <1>1. instantOf(start, r) \in Int /\ (end # None => instantOf(end, r) \in Int)
    BY Instants
  <1>2. /\ start.at \in Int /\ start.at + DaySlots \in Int
        /\ start.at + dur.days * DaySlots \in Int /\ dur.slots \in Int
    BY TimeAssumption DEF Value, Duration
  <1>3. localFieldsToEpoch(start.at + DaySlots, r) \in Int
    BY <1>2, WallClocks
  <1>4. localFieldsToEpoch(start.at + dur.days * DaySlots, zoneOf(start, r)) \in Int
    BY <1>2, Instants, WallClocks
  <1>5. addDuration(start, dur, r) \in Int
    BY <1>2, <1>4 DEF addDuration
  <1> QED
    BY <1>1, <1>3, <1>5 DEF effectiveEventPeriod

LEMMA OccurrencePeriods ==
    ASSUME NEW e \in EventObject, NEW start \in Value, NEW r \in ReadingZone
    PROVE  LET p == effectivePeriodForOccurrence(e, start, r)
           IN  p.start = instantOf(start, r) /\ p.start \in Int /\ p.end \in Int
  <1>1. e.master \in VEvent
    BY DEF EventObject
  <1>2. e.master.start \in Value /\ e.master.end \in Value \cup {None} /\ e.master.dur \in Duration
    BY <1>1 DEF VEvent
  <1>3. CASE e.master.dur # NoDur \/ e.master.end = None
    BY <1>2, <1>3, Periods DEF effectivePeriodForOccurrence
  <1>4. CASE ~(e.master.dur # NoDur \/ e.master.end = None) /\ isDateTime(e.master.end)
    <2>1. instantOf(start, r) \in Int /\ instantOf(e.master.end, r) \in Int /\ instantOf(e.master.start, r) \in Int
      BY <1>2, <1>4, Instants
    <2> QED
      BY <1>4, <2>1 DEF effectivePeriodForOccurrence
  <1>5. CASE ~(e.master.dur # NoDur \/ e.master.end = None) /\ ~isDateTime(e.master.end)
    <2> DEFINE days == (e.master.end.at - e.master.start.at) \div DaySlots
    <2>1. days \in Int
      BY <1>2, <1>5, DayLength DEF Value
    <2> HIDE DEF days
    <2>2. [days |-> days, slots |-> 0] \in Duration
      BY <2>1 DEF Duration
    <2>3. effectivePeriodForOccurrence(e, start, r)
            = effectiveEventPeriod(start, None, [days |-> days, slots |-> 0], r)
      BY <1>5 DEF effectivePeriodForOccurrence, days
    <2> QED
      BY <2>2, <2>3, Periods
  <1> QED
    BY <1>3, <1>4, <1>5

TimeRange == [start : Int, end : Int]

LEMMA CandidatesAreDates ==
    ASSUME NEW e \in EventObject, NEW range \in TimeRange, NEW r \in ReadingZone,
           NEW c \in candidates(e, range, r)
    PROVE  c.value \in Value /\ instantOf(c.value, r) \in Int /\ c.end \in Value \cup {None}
  <1> DEFINE n     == IF e.rule = NoRule THEN 1 ELSE Cardinality(ruleInstances(e, range, r))
             date(i) == [n |-> Steps + i, value |-> e.rdates[i].start, end |-> e.rdates[i].end]
  <1>1. e.master.start \in Value
    BY DEF EventObject, VEvent
  <1>2. CASE e.rule = NoRule /\ c = [n |-> 0, value |-> e.master.start, end |-> None]
    BY <1>1, <1>2, Instants
  <1>3. ASSUME e.rule # NoRule, NEW k \in 0 .. Steps,
               c = [n |-> k, value |-> reconstruct(e.master.start, e.rule.step, k), end |-> None]
        PROVE  c.value \in Value /\ c.end \in Value \cup {None}
    <2>1. e.rule.step \in Nat \ {0}
      BY <1>3 DEF EventObject, RRule
    <2>2. reconstruct(e.master.start, e.rule.step, k) \in Value
      BY <1>1, <2>1, Instances
    <2> QED
      BY <1>1, <1>3, <2>2
  <1>4. ASSUME NEW i \in DOMAIN e.rdates, c = date(i) PROVE c.value \in Value /\ c.end \in Value \cup {None}
    <2>1. e.rdates[i] \in [start : Value, end : Value \cup {None}]
      <3> DEFINE RDate == [start : Value, end : Value \cup {None}]
      <3>1. e.rdates \in Seq(RDate)
        BY DEF EventObject
      <3> HIDE DEF RDate
      <3>2. e.rdates[i] \in RDate
        BY <3>1
      <3> QED
        BY <3>2 DEF RDate
    <2> QED
      BY <1>4, <2>1
  <1>5. \/ e.rule = NoRule /\ c = [n |-> 0, value |-> e.master.start, end |-> None]
        \/ e.rule # NoRule /\ \E k \in 0 .. Steps :
              c = [n |-> k, value |-> reconstruct(e.master.start, e.rule.step, k), end |-> None]
        \/ \E i \in DOMAIN e.rdates : c = date(i)
    BY DEF candidates, ruleInstances
  <1>6. c.value \in Value /\ c.end \in Value \cup {None}
    BY <1>1, <1>2, <1>3, <1>4, <1>5
  <1> QED
    BY <1>6, Instants


Named(o, r) == instantOf(o.rid, r)

LEMMA OneOverride ==
    ASSUME NEW e, NEW r
    PROVE  /\ overrideByEpoch(e, r) \subseteq e.overrides
           /\ \A v, w \in overrideByEpoch(e, r) : Named(v, r) = Named(w, r) => v = w
  <1> DEFINE first(i) == CHOOSE o \in e.overrides : Named(o, r) = i
             instants == {Named(o, r) : o \in e.overrides}
  <1>1. overrideByEpoch(e, r) = {first(i) : i \in instants}
    BY DEF overrideByEpoch, Named
  <1>2. ASSUME NEW i \in instants PROVE first(i) \in e.overrides /\ Named(first(i), r) = i
    <2>1. \E o \in e.overrides : Named(o, r) = i
      OBVIOUS
    <2> QED
      BY <2>1
  <1> HIDE DEF first, instants
  <1> QED
    BY <1>1, <1>2

LEMMA OverriddenTimes ==
    ASSUME NEW e \in EventObject, NEW v \in e.overrides, NEW r \in ReadingZone, NEW n, NEW m
    PROVE  /\ overridden(v, n, r).rid = Named(v, r)
           /\ overridden(v, n, r).start \in Int /\ overridden(v, n, r).end \in Int
           /\ overridden(v, n, r).start = overridden(v, m, r).start
           /\ overridden(v, n, r).end = overridden(v, m, r).end
           /\ overridden(v, n, r).rid = overridden(v, m, r).rid
  <1>1. v.comp.start \in Value /\ v.comp.end \in Value \cup {None} /\ v.comp.dur \in Duration
    BY DEF EventObject, VEvent
  <1>2. periodOf(v.comp, r).start \in Int /\ periodOf(v.comp, r).end \in Int
    BY <1>1, Periods DEF periodOf
  <1> QED
    BY <1>2 DEF overridden, Occurrence, Named

LEMMA ShownTimes ==
    ASSUME NEW e \in EventObject, NEW range \in TimeRange, NEW r \in ReadingZone,
           NEW c \in candidates(e, range, r)
    PROVE  LET o == shownOf(c, e, overrideByEpoch(e, r), r)
           IN  /\ \A v \in overrideByEpoch(e, r) :
                    Named(v, r) = instantOf(c.value, r) => o = overridden(v, c.n, r)
               /\ o.start \in Int /\ o.end \in Int
               /\ (\A v \in overrideByEpoch(e, r) : Named(v, r) # instantOf(c.value, r))
                     => o.start = instantOf(c.value, r)
  <1> DEFINE over == {v \in overrideByEpoch(e, r) : instantOf(v.rid, r) = instantOf(c.value, r)}
             o    == shownOf(c, e, overrideByEpoch(e, r), r)
             own  == IF c.end # None THEN [start |-> instantOf(c.value, r), end |-> instantOf(c.end, r)]
                     ELSE effectivePeriodForOccurrence(e, c.value, r)
  <1>1. o = IF over # {} THEN overridden(CHOOSE v \in over : TRUE, c.n, r)
            ELSE Occurrence(c.n, instantOf(c.value, r), e.master, own)
    BY DEF shownOf
  <1>2. \A v, w \in over : v = w
    BY OneOverride DEF Named
  <1>3. \A v \in over : (CHOOSE w \in over : TRUE) = v
    BY <1>2
  <1>4. own.start = instantOf(c.value, r) /\ own.start \in Int /\ own.end \in Int
    BY CandidatesAreDates, OccurrencePeriods, Instants
  <1>5. over \subseteq e.overrides
    BY OneOverride
  <1> HIDE DEF own, o
  <1>6. \A v \in over : o = overridden(v, c.n, r)
    BY <1>1, <1>3
  <1>7. CASE over = {}
    <2>1. o.start = own.start /\ o.end = own.end
      BY <1>1, <1>7 DEF Occurrence
    <2> QED
      BY <1>4, <1>6, <1>7, <2>1 DEF o, Named
  <1>8. CASE over # {}
    <2>1. PICK v \in over : o = overridden(v, c.n, r)
      BY <1>6, <1>8
    <2>2. o.start \in Int /\ o.end \in Int
      BY <1>5, <2>1, OverriddenTimes
    <2> QED
      BY <1>6, <1>8, <2>2 DEF o, Named
  <1> QED
    BY <1>7, <1>8

-----------------------------------------------------------------------------
(* Queries over nested ranges.                                             *)

LEMMA NestedRules ==
    ASSUME NEW e \in EventObject, e.rule \in RRule, NEW r \in ReadingZone,
           NEW wide \in TimeRange, NEW narrow \in TimeRange, narrow.end <= wide.end
    PROVE  /\ ruleInstances(e, narrow, r) \subseteq ruleInstances(e, wide, r)
           /\ \A k \in ruleInstances(e, wide, r) \ ruleInstances(e, narrow, r) :
                 instantOf(reconstruct(e.master.start, e.rule.step, k), r) >= narrow.end
           /\ IsFiniteSet(ruleInstances(e, wide, r))
  <1> DEFINE inst(k)  == instantOf(reconstruct(e.master.start, e.rule.step, k), r)
             admits(k) == /\ e.rule.count = 0 \/ k < e.rule.count
                          /\ e.rule.until = None \/ inst(k) <= instantOf(e.rule.until, r)
             taken(range) == {k \in 0 .. Steps : \A j \in 0 .. k : admits(j) /\ inst(j) < range.end}
  <1>1. \A range : ruleInstances(e, range, r) = taken(range)
    BY DEF ruleInstances
  <1>2. e.master.start \in Value /\ e.rule.step \in Nat \ {0}
    BY DEF EventObject, VEvent, RRule
  <1>3. \A k \in Nat : inst(k) \in Int
    BY <1>2, RuleInOrder
  <1>4. \A j, k \in Nat : j <= k => inst(j) <= inst(k)
    <2> TAKE j, k \in Nat
    <2>1. j < k \/ j = k \/ ~(j <= k)
      OBVIOUS
    <2> QED
      BY <1>2, <1>3, <2>1, RuleInOrder
  <1>5. narrow.end \in Int /\ wide.end \in Int /\ Steps \in Nat
    BY RecurrenceAssumption DEF TimeRange
  <1> HIDE DEF inst, admits
  <1>6. taken(narrow) \subseteq taken(wide)
    <2> SUFFICES ASSUME NEW k \in taken(narrow), NEW j \in 0 .. k PROVE admits(j) /\ inst(j) < wide.end
      OBVIOUS
    <2>1. admits(j) /\ inst(j) < narrow.end /\ j \in Nat
      BY <1>5
    <2> QED
      BY <1>3, <1>5, <2>1
  <1>7. ASSUME NEW k \in taken(wide) \ taken(narrow) PROVE inst(k) >= narrow.end
    <2>1. k \in 0 .. Steps /\ k \in Nat
      BY <1>5
    <2>2. PICK j \in 0 .. k : ~(admits(j) /\ inst(j) < narrow.end)
      BY <1>7, <2>1
    <2>3. admits(j) /\ j \in Nat /\ j <= k
      BY <1>7, <2>1, <2>2
    <2>4. inst(j) \in Int /\ inst(k) \in Int /\ inst(j) <= inst(k)
      BY <1>3, <1>4, <2>1, <2>3
    <2> QED
      BY <1>5, <2>2, <2>3, <2>4
  <1>8. IsFiniteSet(taken(wide))
    <2>1. IsFiniteSet(0 .. Steps) /\ taken(wide) \subseteq 0 .. Steps
      BY <1>5, FS_Interval
    <2> QED
      BY <2>1, FS_Subset
  <1> QED
    BY <1>1, <1>6, <1>7, <1>8 DEF inst

LEMMA NestedCandidates ==
    ASSUME NEW e \in EventObject, NEW r \in ReadingZone, isRecurring(e),
           NEW wide \in TimeRange, NEW narrow \in TimeRange, narrow.end <= wide.end,
           ~limitHit(e, wide, r)
    PROVE  /\ candidates(e, narrow, r) \subseteq candidates(e, wide, r)
           /\ \A c \in candidates(e, wide, r) \ candidates(e, narrow, r) :
                 instantOf(c.value, r) >= narrow.end
  <1> DEFINE n(range) == IF e.rule = NoRule THEN 1 ELSE Cardinality(ruleInstances(e, range, r))
             one(k)   == [n |-> k, value |-> reconstruct(e.master.start, e.rule.step, k), end |-> None]
             byRule(range) == {k \in ruleInstances(e, range, r) : k < MaxOccurrences}
             first(range) == IF e.rule = NoRule
                             THEN {[n |-> 0, value |-> e.master.start, end |-> None]}
                             ELSE {one(k) : k \in byRule(range)}
             date(i) == [n |-> Steps + i, value |-> e.rdates[i].start, end |-> e.rdates[i].end]
             more(range) == {date(i) : i \in {j \in DOMAIN e.rdates : n(range) + j <= MaxOccurrences}}
  <1>1. \A range : candidates(e, range, r) = first(range) \cup more(range)
    BY DEF candidates
  <1>2. Len(e.rdates) \in Nat /\ DOMAIN e.rdates = 1 .. Len(e.rdates) /\ MaxOccurrences \in Nat
    BY RecurrenceAssumption DEF EventObject
  <1>3. n(wide) + Len(e.rdates) <= MaxOccurrences /\ n(wide) \in Nat /\ n(narrow) \in Nat /\ n(narrow) <= n(wide)
    <2>1. ~(n(wide) + Len(e.rdates) > MaxOccurrences)
      BY DEF limitHit
    <2>2. CASE e.rule = NoRule
      BY <1>2, <2>1, <2>2
    <2>3. CASE e.rule # NoRule
      <3>1. e.rule \in RRule
        BY <2>3 DEF EventObject
      <3>2. /\ IsFiniteSet(ruleInstances(e, wide, r))
            /\ ruleInstances(e, narrow, r) \subseteq ruleInstances(e, wide, r)
        BY <3>1, NestedRules
      <3>3. /\ Cardinality(ruleInstances(e, wide, r)) \in Nat
            /\ Cardinality(ruleInstances(e, narrow, r)) \in Nat
            /\ Cardinality(ruleInstances(e, narrow, r)) <= Cardinality(ruleInstances(e, wide, r))
        BY <3>2, FS_Subset, FS_CardinalityType
      <3> QED
        BY <1>2, <2>1, <2>3, <3>3
    <2> QED
      BY <2>2, <2>3
  <1> HIDE DEF n, one
  <1>4. more(narrow) = more(wide)
    BY <1>2, <1>3
  <1>5. CASE e.rule = NoRule
    BY <1>1, <1>4, <1>5
  <1>6. CASE e.rule # NoRule
    <2>1. e.rule \in RRule
      BY <1>6 DEF EventObject
    <2>2. byRule(narrow) \subseteq byRule(wide)
      BY <2>1, NestedRules
    <2>3. \A k \in byRule(wide) \ byRule(narrow) :
              instantOf(reconstruct(e.master.start, e.rule.step, k), r) >= narrow.end
      BY <2>1, NestedRules
    <2>4. \A k : one(k).value = reconstruct(e.master.start, e.rule.step, k)
      BY DEF one
    <2> HIDE DEF byRule
    <2>5. first(narrow) \subseteq first(wide)
      BY <1>6, <2>2
    <2>6. \A c \in first(wide) \ first(narrow) : instantOf(c.value, r) >= narrow.end
      BY <1>6, <2>3, <2>4
    <2> HIDE DEF first, more
    <2> QED
      BY <1>1, <1>4, <2>5, <2>6
  <1> QED
    BY <1>5, <1>6

LEMMA NestedOccurrences ==
    ASSUME NEW e \in EventObject, NEW r \in ReadingZone, isRecurring(e),
           NEW wide \in TimeRange, NEW narrow \in TimeRange,
           wide.start <= narrow.start, narrow.end <= wide.end, ~limitHit(e, wide, r)
    PROVE  /\ \A o \in expandRecurrenceSet(e, narrow, r) :
                 \E p \in expandRecurrenceSet(e, wide, r) :
                    overlapsRange(p, narrow) /\ p.rid = o.rid /\ p.start = o.start /\ p.end = o.end
           /\ \A p \in expandRecurrenceSet(e, wide, r) : overlapsRange(p, narrow) =>
                 \E o \in expandRecurrenceSet(e, narrow, r) :
                    p.rid = o.rid /\ p.start = o.start /\ p.end = o.end
  <1> DEFINE overrides   == overrideByEpoch(e, r)
             shown(c)    == shownOf(c, e, overrides, r)
             excluded    == {instantOf(x, r) : x \in e.exdates}
             left(range) == {c \in candidates(e, range, r) : instantOf(c.value, r) \notin excluded}
             alone(range) == detachedOverrides(overrides, left(range), r)
             same(o, p)  == p.rid = o.rid /\ p.start = o.start /\ p.end = o.end
  <1>1. ASSUME NEW range, NEW o
        PROVE  o \in expandRecurrenceSet(e, range, r) <=>
                  /\ overlapsRange(o, range)
                  /\ \/ \E c \in left(range) : o = shown(c)
                     \/ \E v \in alone(range) : o = overridden(v, -1, r)
    BY DEF expandRecurrenceSet, occurrences, remaining
  <1>2. /\ left(narrow) \subseteq left(wide)
        /\ \A c \in left(wide) \ left(narrow) : instantOf(c.value, r) >= narrow.end
    BY NestedCandidates
  <1>3. \A range \in {wide, narrow} : \A c \in left(range) :
            /\ \A v \in overrides : Named(v, r) = instantOf(c.value, r) => shown(c) = overridden(v, c.n, r)
            /\ shown(c).start \in Int /\ shown(c).end \in Int
            /\ (\A v \in overrides : Named(v, r) # instantOf(c.value, r)) => shown(c).start = instantOf(c.value, r)
    BY ShownTimes
  <1>4. /\ wide.start \in Int /\ wide.end \in Int /\ narrow.start \in Int /\ narrow.end \in Int
        /\ overrides \subseteq e.overrides
    BY OneOverride DEF TimeRange
  <1>5. \A range : \A v \in overrides :
            v \in alone(range) <=> \A c \in left(range) : instantOf(c.value, r) # Named(v, r)
    BY DEF detachedOverrides, Named
  <1>6. \A v \in overrides : \A m, n :
            /\ overridden(v, n, r).start \in Int /\ overridden(v, n, r).end \in Int
            /\ same(overridden(v, n, r), overridden(v, m, r))
    BY <1>4, OverriddenTimes
  <1>7. ASSUME NEW o, o.start \in Int, o.end \in Int, overlapsRange(o, narrow) PROVE overlapsRange(o, wide)
    BY <1>4, <1>7 DEF overlapsRange
  <1>8. ASSUME NEW o, NEW p, same(o, p) PROVE overlapsRange(o, narrow) <=> overlapsRange(p, narrow)
    BY <1>8 DEF overlapsRange
  <1>9. \A range : alone(range) \subseteq overrides
    BY DEF detachedOverrides
  <1> HIDE DEF overrides, shown, left, alone, same
  (* an override is shown in the wide range, by itself or for its candidate *)
  <1>10. ASSUME NEW v \in overrides, NEW range \in {wide, narrow}
         PROVE  \E n : \/ \E c \in left(range) : overridden(v, n, r) = shown(c)
                       \/ n = -1 /\ v \in alone(range)
    BY <1>3, <1>5, <1>10
  <1>11. ASSUME NEW v \in overrides, NEW range \in {wide, narrow}, NEW m,
                overlapsRange(overridden(v, m, r), narrow)
         PROVE  \E p \in expandRecurrenceSet(e, range, r) :
                   overlapsRange(p, narrow) /\ same(overridden(v, m, r), p)
    <2>1. PICK n : \/ \E c \in left(range) : overridden(v, n, r) = shown(c)
                   \/ n = -1 /\ v \in alone(range)
      BY <1>10, <1>11
    <2>2. same(overridden(v, m, r), overridden(v, n, r)) /\ overlapsRange(overridden(v, n, r), narrow)
      BY <1>6, <1>8, <1>11
    <2>3. overlapsRange(overridden(v, n, r), range)
      BY <1>6, <1>7, <1>11, <2>2
    <2>4. overridden(v, n, r) \in expandRecurrenceSet(e, range, r)
      BY <1>1, <2>1, <2>3
    <2> QED
      BY <2>2, <2>4
  <1>12. ASSUME NEW o \in expandRecurrenceSet(e, narrow, r)
         PROVE  \E p \in expandRecurrenceSet(e, wide, r) : overlapsRange(p, narrow) /\ same(o, p)
    <2>1. overlapsRange(o, narrow)
      BY <1>1, <1>12
    <2>2. CASE \E c \in left(narrow) : o = shown(c)
      <3>1. PICK c \in left(narrow) : o = shown(c)
        BY <2>2
      <3>2. c \in left(wide) /\ o.start \in Int /\ o.end \in Int
        BY <1>2, <1>3, <3>1
      <3>3. o \in expandRecurrenceSet(e, wide, r)
        BY <1>1, <1>7, <2>1, <3>1, <3>2
      <3> QED
        BY <2>1, <3>3 DEF same
    <2>3. CASE \E v \in alone(narrow) : o = overridden(v, -1, r)
      BY <1>9, <1>11, <2>1, <2>3
    <2> QED
      BY <1>1, <1>12, <2>2, <2>3
  <1>13. ASSUME NEW p \in expandRecurrenceSet(e, wide, r), overlapsRange(p, narrow)
         PROVE  \E o \in expandRecurrenceSet(e, narrow, r) : same(p, o)
    <2>1. CASE \E c \in left(wide) : p = shown(c)
      <3>1. PICK c \in left(wide) : p = shown(c)
        BY <2>1
      <3>2. CASE c \in left(narrow)
        BY <1>1, <1>13, <3>1, <3>2 DEF same
      <3>3. CASE c \notin left(narrow) /\ \E v \in overrides : Named(v, r) = instantOf(c.value, r)
        <4>1. PICK v \in overrides : p = overridden(v, c.n, r)
          BY <1>3, <3>1, <3>3
        <4> QED
          BY <1>11, <1>13, <4>1
      <3>4. CASE c \notin left(narrow) /\ ~\E v \in overrides : Named(v, r) = instantOf(c.value, r)
        <4>1. p.start >= narrow.end /\ p.start \in Int /\ p.end \in Int
          BY <1>2, <1>3, <3>1, <3>4
        <4> QED
          BY <1>4, <1>13, <4>1 DEF overlapsRange
      <3> QED
        BY <3>2, <3>3, <3>4
    <2>2. CASE \E v \in alone(wide) : p = overridden(v, -1, r)
      BY <1>9, <1>11, <1>13, <2>2
    <2> QED
      BY <1>1, <1>13, <2>1, <2>2
  <1> QED
    BY <1>12, <1>13 DEF same

(* Two queries of one event, one range inside the other, show the same     *)
(* occurrences in the inner one, though each expansion stops at the end of *)
(* its own range.                                                          *)
THEOREM QueriesAgree == ObjectSpec => []RangesAgree
<1>1. ASSUME EventFits, event # NoEvent, NEW r \in Readers, NEW wide \in Ranges, NEW narrow \in Ranges,
             wide.start <= narrow.start, narrow.end <= wide.end, ~limitHit(event, wide, r)
      PROVE  Shown(expandRecurrenceSet(event, narrow, r))
               = Shown({o \in expandRecurrenceSet(event, wide, r) : overlapsRange(o, narrow)})
  <2>1. event \in EventObject /\ r \in ReadingZone /\ wide \in TimeRange /\ narrow \in TimeRange
    BY <1>1, InputsAssumption DEF EventFits, TimeRange
  <2>2. CASE isRecurring(event)
    BY <1>1, <2>1, <2>2, NestedOccurrences DEF Shown
  <2>3. CASE ~isRecurring(event)
    <3> DEFINE o == Occurrence(0, instantOf(event.master.start, r), event.master, periodOf(event.master, r))
    <3>1. \A range : expandRecurrenceSet(event, range, r) = {p \in {o} : overlapsRange(p, range)}
      BY <2>3 DEF expandRecurrenceSet
    <3>2. /\ wide.start \in Int /\ wide.end \in Int /\ narrow.start \in Int /\ narrow.end \in Int
      BY <2>1 DEF TimeRange
    <3>3. event.master.start \in Value /\ event.master.end \in Value \cup {None} /\ event.master.dur \in Duration
      BY <2>1 DEF EventObject, VEvent
    <3>4. periodOf(event.master, r).start \in Int /\ periodOf(event.master, r).end \in Int
      BY <2>1, <3>3, Periods DEF periodOf
    <3>5. o.start \in Int /\ o.end \in Int
      BY <3>4 DEF Occurrence
    <3> HIDE DEF o
    <3>6. overlapsRange(o, narrow) => overlapsRange(o, wide)
      BY <1>1, <3>2, <3>5 DEF overlapsRange
    <3>7. expandRecurrenceSet(event, narrow, r)
            = {p \in expandRecurrenceSet(event, wide, r) : overlapsRange(p, narrow)}
      BY <3>1, <3>6
    <3> QED
      BY <3>7
  <2> QED
    BY <2>2, <2>3
<1>2. EventFits => RangesAgree
  BY <1>1 DEF RangesAgree
<1> QED
  BY <1>2, EventsFit, PTL

-----------------------------------------------------------------------------
(* Extremes of a finite set.                                               *)

LEMMA LeastAndGreatest ==
    ASSUME NEW S, IsFiniteSet(S), S \subseteq Int, S # {}
    PROVE  /\ \E x \in S : \A y \in S : x <= y
           /\ \E x \in S : \A y \in S : x >= y
  <1> DEFINE bounded(U) == /\ \E x \in U : \A y \in U : x <= y
                           /\ \E x \in U : \A y \in U : x >= y
             bad == {U \in FiniteSubsetsOf(S) : U # {} /\ ~bounded(U)}
  <1>1. S \in FiniteSubsetsOf(S)
    BY DEF FiniteSubsetsOf
  <1>2. SUFFICES ASSUME bad # {} PROVE FALSE
    BY <1>1
  <1>3. PICK U \in bad : \A V \in bad : ~(<<V, U>> \in StrictSubsetOrdering(S))
    BY <1>2, FS_StrictSubsetOrderingWellFounded, WFMin, bad \subseteq FiniteSubsetsOf(S)
  <1>4. U \subseteq S /\ IsFiniteSet(U) /\ U # {} /\ ~bounded(U)
    BY DEF FiniteSubsetsOf
  <1>5. PICK x \in U : TRUE
    BY <1>4
  <1>6. PICK V : V = U \ {x}
    OBVIOUS
  <1>7. /\ V \subseteq U /\ V # U /\ V \subseteq Int /\ x \in Int /\ U = V \cup {x}
    BY <1>4, <1>5, <1>6
  <1>8. IsFiniteSet(V)
    BY <1>4, <1>7, FS_Subset
  <1>9. <<V, U>> \in StrictSubsetOrdering(S)
    BY <1>4, <1>7 DEF StrictSubsetOrdering
  <1>10. V = {} \/ bounded(V)
    BY <1>3, <1>4, <1>7, <1>8, <1>9 DEF FiniteSubsetsOf
  <1>11. CASE V = {}
    BY <1>4, <1>7, <1>11
  <1>12. CASE bounded(V)
    <2>1. PICK low \in V, high \in V : \A y \in V : low <= y /\ high >= y
      BY <1>12
    <2>2. \E z \in U : \A y \in U : z <= y
      BY <1>7, <2>1
    <2>3. \E z \in U : \A y \in U : z >= y
      BY <1>7, <2>1
    <2> QED
      BY <1>4, <2>2, <2>3
  <1> QED
    BY <1>10, <1>11, <1>12

LEMMA Extremes ==
    ASSUME NEW S, IsFiniteSet(S), S \subseteq Int, NEW x \in S
    PROVE  Min(S) \in Int /\ Min(S) <= x /\ Max(S) \in Int /\ Max(S) >= x
  BY LeastAndGreatest DEF Min, Max

-----------------------------------------------------------------------------
(* The index reads local dates in UTC, a query in the zone of its caller.  *)

OffsetsOf(r) == IF r = "UTC" THEN {0} ELSE {Before[r], After[r]}

LEMMA LocalOffsets ==
    ASSUME NEW v \in Value, NEW r \in ReadingZone
    PROVE  /\ ~local(v) => instantOf(v, r) = instantOf(v, "UTC")
           /\ local(v) => \E off \in OffsetsOf(r) : instantOf(v, r) = instantOf(v, "UTC") - off
           /\ local(v) => instantOf(v, "UTC") = v.at /\ instantOf(v, r) = localFieldsToEpoch(v.at, r)
  <1>1. CASE ~local(v)
    <2>1. zoneOf(v, r) = zoneOf(v, "UTC")
      BY <1>1, TimeAssumption DEF local, zoneOf, Value
    <2> QED
      BY <1>1, <2>1 DEF instantOf
  <1>2. CASE local(v)
    <2>1. zoneOf(v, r) = r /\ zoneOf(v, "UTC") = "UTC" /\ v.at \in Int
      BY <1>2 DEF local, zoneOf, Value
    <2>2. instantOf(v, "UTC") = v.at
      BY <2>1, WallClocks DEF instantOf, ReadingZone
    <2>3. PICK u : u = v.at - getZoneOffset(r, v.at)
      OBVIOUS
    <2>4. instantOf(v, r) = v.at - getZoneOffset(r, u)
      BY <2>1, <2>3 DEF instantOf, localFieldsToEpoch
    <2>5. getZoneOffset(r, u) \in OffsetsOf(r)
      BY DEF getZoneOffset, OffsetsOf
    <2> QED
      BY <1>2, <2>1, <2>2, <2>4, <2>5 DEF instantOf
  <1> QED
    BY <1>1, <1>2

LEMMA OffsetsAddUp ==
    ASSUME NEW r \in ReadingZone, NEW a \in OffsetsOf(r), NEW b \in OffsetsOf(r), NEW c \in OffsetsOf(r)
    PROVE  /\ a \in Int /\ b \in Int /\ c \in Int
           /\ b - a < DaySlots /\ b - a - c < DaySlots
  <1>1. CASE r = "UTC"
    BY <1>1, DayLength DEF OffsetsOf
  <1>2. CASE r # "UTC"
    <2>1. r \in Zones
      BY <1>2 DEF ReadingZone
    <2>2. PICK x \in Int, y \in Int :
              /\ x = Before[r] /\ y = After[r]
              /\ x < DaySlots /\ y < DaySlots /\ x > -DaySlots /\ y > -DaySlots /\ y - x < DaySlots
              /\ 2 * y - x \in -DaySlots + 1 .. DaySlots - 1
              /\ 2 * x - y \in -DaySlots + 1 .. DaySlots - 1
      BY <2>1, TimeAssumption
    <2>3. a \in {x, y} /\ b \in {x, y} /\ c \in {x, y}
      BY <1>2, <2>2 DEF OffsetsOf
    <2> HIDE <2>1
    <2> QED
      BY <2>2, <2>3, DayLength
  <1> QED
    BY <1>1, <1>2

LEMMA ReadAlikeStaysAlike ==
    ASSUME NEW v \in Value, NEW w \in Value, NEW r \in ReadingZone, local(v) = local(w),
           instantOf(v, "UTC") = instantOf(w, "UTC")
    PROVE  instantOf(v, r) = instantOf(w, r)
  BY LocalOffsets

LEMMA LessThanADayApart ==
    ASSUME NEW v \in Value, NEW r \in ReadingZone
    PROVE  /\ instantOf(v, r) \in Int /\ instantOf(v, "UTC") \in Int
           /\ instantOf(v, "UTC") < instantOf(v, r) + DaySlots
           /\ instantOf(v, "UTC") > instantOf(v, r) - DaySlots
  <1>1. "UTC" \in ReadingZone
    BY DEF ReadingZone
  <1> QED
    BY <1>1, Instants, ReadersAgreeOnTheDay, DayLength

LEMMA PeriodsAgree ==
    ASSUME NEW start \in Value, NEW end \in Value \cup {None}, NEW dur \in Duration, NEW r \in ReadingZone
    PROVE  /\ effectiveEventPeriod(start, end, dur, "UTC").start < effectiveEventPeriod(start, end, dur, r).start + DaySlots
           /\ effectiveEventPeriod(start, end, dur, "UTC").end > effectiveEventPeriod(start, end, dur, r).end - DaySlots
  <1> DEFINE p == effectiveEventPeriod(start, end, dur, r)
             u == effectiveEventPeriod(start, end, dur, "UTC")
  <1>1. "UTC" \in ReadingZone
    BY DEF ReadingZone
  <1>2. /\ instantOf(start, r) \in Int /\ instantOf(start, "UTC") \in Int
        /\ instantOf(start, "UTC") < instantOf(start, r) + DaySlots
        /\ instantOf(start, "UTC") > instantOf(start, r) - DaySlots
    BY <1>1, Instants, ReadersAgreeOnTheDay, DayLength
  <1>3. u.start < p.start + DaySlots
    BY <1>1, <1>2, Periods
  <1>4. CASE end # None
    <2>1. /\ instantOf(end, r) \in Int /\ instantOf(end, "UTC") \in Int
          /\ instantOf(end, "UTC") > instantOf(end, r) - DaySlots
      BY <1>1, <1>4, Instants, ReadersAgreeOnTheDay, DayLength
    <2> QED
      BY <1>3, <1>4, <2>1 DEF effectiveEventPeriod
  <1>5. CASE end = None /\ dur # NoDur
    <2> DEFINE w == start.at + dur.days * DaySlots
    <2>1. w \in Int /\ dur.slots \in Int
      BY DayLength DEF Value, Duration
    <2>2. p.end = localFieldsToEpoch(w, zoneOf(start, r)) + dur.slots
      BY <1>5 DEF effectiveEventPeriod, addDuration
    <2>3. u.end = localFieldsToEpoch(w, zoneOf(start, "UTC")) + dur.slots
      BY <1>5 DEF effectiveEventPeriod, addDuration
    <2> HIDE DEF w, p, u
    <2>4. CASE local(start)
      <3>1. zoneOf(start, r) = r /\ zoneOf(start, "UTC") = "UTC"
        BY <2>4 DEF local, zoneOf
      <3>2. localFieldsToEpoch(w, "UTC") = w
        BY <1>1, <2>1, WallClocks
      <3>3. localFieldsToEpoch(w, r) \in Int /\ localFieldsToEpoch(w, r) < w + DaySlots
        BY <2>1, WallClocks
      <3> QED
        BY <1>3, <2>1, <2>2, <2>3, <3>1, <3>2, <3>3, DayLength DEF p, u
    <2>5. CASE ~local(start)
      <3>1. zoneOf(start, r) = zoneOf(start, "UTC") /\ zoneOf(start, "UTC") \in ReadingZone
        BY <1>1, <2>5, TimeAssumption, Instants DEF local, zoneOf, Value
      <3>2. u.end = p.end /\ p.end \in Int
        BY <2>1, <2>2, <2>3, <3>1, WallClocks
      <3> QED
        BY <1>3, <3>2, DayLength DEF p, u
    <2> QED
      BY <2>4, <2>5
  <1>6. CASE end = None /\ dur = NoDur /\ isDateTime(start)
    <2>1. p.end = instantOf(start, r) /\ u.end = instantOf(start, "UTC")
      BY <1>6 DEF effectiveEventPeriod
    <2> QED
      BY <1>2, <1>3, <2>1
  <1>7. CASE end = None /\ dur = NoDur /\ ~isDateTime(start)
    <2>1. start.at + DaySlots \in Int
      BY DayLength DEF Value
    <2>2. /\ localFieldsToEpoch(start.at + DaySlots, "UTC") = start.at + DaySlots
          /\ localFieldsToEpoch(start.at + DaySlots, r) \in Int
          /\ localFieldsToEpoch(start.at + DaySlots, r) < start.at + DaySlots + DaySlots
      BY <1>1, <2>1, WallClocks
    <2>3. /\ p.end = localFieldsToEpoch(start.at + DaySlots, r)
          /\ u.end = localFieldsToEpoch(start.at + DaySlots, "UTC")
      BY <1>7 DEF effectiveEventPeriod
    <2> HIDE DEF p, u
    <2> QED
      BY <1>3, <2>1, <2>2, <2>3, DayLength DEF p, u
  <1> QED
    BY <1>4, <1>5, <1>6, <1>7

LEMMA OccurrencePeriodsAgree ==
    ASSUME NEW e \in EventObject, NEW start \in Value, NEW r \in ReadingZone,
           local(start) = local(e.master.start)
    PROVE  /\ effectivePeriodForOccurrence(e, start, "UTC").start < effectivePeriodForOccurrence(e, start, r).start + DaySlots
           /\ effectivePeriodForOccurrence(e, start, "UTC").end > effectivePeriodForOccurrence(e, start, r).end - DaySlots
  <1> DEFINE m == e.master
             p == effectivePeriodForOccurrence(e, start, r)
             u == effectivePeriodForOccurrence(e, start, "UTC")
  <1>1. m.start \in Value /\ m.end \in Value \cup {None} /\ m.dur \in Duration /\ "UTC" \in ReadingZone
    BY DEF EventObject, VEvent, ReadingZone
  <1>2. CASE m.dur # NoDur \/ m.end = None
    BY <1>1, <1>2, PeriodsAgree DEF effectivePeriodForOccurrence
  <1>3. CASE ~(m.dur # NoDur \/ m.end = None) /\ isDateTime(m.end)
    <2>1. PICK s \in Int, s0 \in Int, x \in Int, x0 \in Int, f \in Int, f0 \in Int :
              /\ s = instantOf(start, r) /\ s0 = instantOf(start, "UTC")
              /\ x = instantOf(m.start, r) /\ x0 = instantOf(m.start, "UTC")
              /\ f = instantOf(m.end, r) /\ f0 = instantOf(m.end, "UTC")
      BY <1>1, <1>3, Instants
    <2>2. p.start = s /\ u.start = s0 /\ p.end = s + f - x /\ u.end = s0 + f0 - x0
      BY <1>3, <2>1 DEF effectivePeriodForOccurrence
    <2>3. s0 < s + DaySlots /\ f - f0 < DaySlots
      BY <1>1, <1>3, <2>1, ReadersAgreeOnTheDay, DayLength
    <2>4. (s - s0) + (f - f0) - (x - x0) < DaySlots
      <3>1. CASE ~local(start)
        <4>1. s = s0 /\ x = x0
          BY <1>1, <2>1, <3>1, LocalOffsets
        <4> QED
          BY <2>3, <4>1, DayLength
      <3>2. CASE local(start) /\ local(m.end)
        <4>1. PICK a \in OffsetsOf(r), b \in OffsetsOf(r), c \in OffsetsOf(r) :
                  s = s0 - a /\ x = x0 - b /\ f = f0 - c
          BY <1>1, <1>3, <2>1, <3>2, LocalOffsets
        <4>2. a \in Int /\ b \in Int /\ c \in Int /\ b - a - c < DaySlots
          BY OffsetsAddUp
        <4> QED
          BY <4>1, <4>2, DayLength
      <3>3. CASE local(start) /\ ~local(m.end)
        <4>1. PICK a \in OffsetsOf(r), b \in OffsetsOf(r) : s = s0 - a /\ x = x0 - b
          BY <1>1, <2>1, <3>3, LocalOffsets
        <4>2. f = f0
          BY <1>1, <1>3, <2>1, <3>3, LocalOffsets
        <4>3. a \in Int /\ b \in Int /\ b - a < DaySlots
          BY OffsetsAddUp
        <4> QED
          BY <4>1, <4>2, <4>3, DayLength
      <3> QED
        BY <3>1, <3>2, <3>3
    <2> HIDE DEF p, u
    <2>5. u.start < p.start + DaySlots /\ u.end > p.end - DaySlots
      BY <2>2, <2>3, <2>4, DayLength
    <2> QED
      BY <2>5 DEF p, u
  <1>4. CASE ~(m.dur # NoDur \/ m.end = None) /\ ~isDateTime(m.end)
    <2> DEFINE days == (m.end.at - m.start.at) \div DaySlots
               dur  == [days |-> days, slots |-> 0]
    <2>1. days \in Int
      BY <1>1, <1>4, DayLength DEF Value
    <2> HIDE DEF days
    <2>2. dur \in Duration
      BY <2>1 DEF Duration
    <2>3. /\ p = effectiveEventPeriod(start, None, dur, r)
          /\ u = effectiveEventPeriod(start, None, dur, "UTC")
      BY <1>4 DEF effectivePeriodForOccurrence, days
    <2> QED
      BY <2>2, <2>3, PeriodsAgree
  <1> QED
    BY <1>2, <1>3, <1>4

LEMMA WholeDays ==
    ASSUME NEW a \in Int, NEW n \in Int, a % DaySlots = 0, n * DaySlots > a
    PROVE  n * DaySlots >= a + DaySlots
  <1>1. PICK q \in Int : a = q * DaySlots
    <2>1. a \div DaySlots \in Int /\ a = (a \div DaySlots) * DaySlots
      BY DayLength
    <2> QED
      BY <2>1
  <1>2. n > q
    BY <1>1, DayLength
  <1>3. n - q \in Int /\ n - q >= 1
    BY <1>1, <1>2
  <1>4. (n - q) * DaySlots >= DaySlots
    BY <1>3, DayLength
  <1>5. n * DaySlots = q * DaySlots + (n - q) * DaySlots
    BY <1>1, DayLength
  <1> QED
    BY <1>1, <1>4, <1>5, DayLength

(* An instance the rule admits in the zone of a reader it admits in UTC.   *)
LEMMA AdmittedInUtc ==
    ASSUME NEW e \in EventObject, e.rule \in RRule, validateRRule(e.master.start, e.rule), ReadAlike(e),
           e.rule.until # None, NEW r \in ReadingZone, NEW k \in Nat,
           instantOf(reconstruct(e.master.start, e.rule.step, k), r) <= instantOf(e.rule.until, r)
    PROVE  instantOf(reconstruct(e.master.start, e.rule.step, k), "UTC") <= instantOf(e.rule.until, "UTC")
  <1> DEFINE start == e.master.start
             until == e.rule.until
             v     == reconstruct(start, e.rule.step, k)
  <1>1. start \in Value /\ until \in Value /\ e.rule.step \in Nat \ {0} /\ "UTC" \in ReadingZone
    BY DEF EventObject, VEvent, RRule, ReadingZone
  <1>2. v \in Value /\ v.zone = start.zone /\ v.at = start.at + k * e.rule.step * DaySlots
    BY <1>1, Instances
  <1>3. local(v) = local(start) /\ local(until) = local(start)
    <2>1. sameType(until, start) /\ (isDateTime(start) => (start.zone = "floating") = (until.zone = "floating"))
      BY DEF validateRRule
    <2> QED
      BY <1>2, <2>1 DEF local, sameType, isDateTime
  <1> HIDE DEF v
  <1>4. CASE ~local(start)
    BY <1>1, <1>2, <1>3, <1>4, LocalOffsets DEF v
  <1>5. CASE local(start)
    <2>1. /\ instantOf(v, "UTC") = v.at /\ instantOf(v, r) = localFieldsToEpoch(v.at, r)
          /\ instantOf(until, "UTC") = until.at /\ instantOf(until, r) = localFieldsToEpoch(until.at, r)
      BY <1>1, <1>2, <1>3, <1>5, LocalOffsets
    <2>2. (until.at - start.at) % DaySlots = 0 /\ v.at \in Int /\ until.at \in Int /\ start.at \in Int
      BY <1>1, <1>2, <1>3, <1>5 DEF ReadAlike, Value
    <2>3. SUFFICES ASSUME v.at > until.at PROVE FALSE
      BY <2>1, <2>2 DEF v
    <2>4. PICK n \in Int : n = k * e.rule.step
      BY <1>1
    <2>5. PICK a \in Int : a = until.at - start.at
      BY <2>2
    <2>6. v.at = start.at + n * DaySlots /\ n * DaySlots \in Int
      BY <1>2, <2>4, DayLength
    <2>7. n * DaySlots > a /\ a % DaySlots = 0
      BY <2>2, <2>3, <2>5, <2>6
    <2>8. n * DaySlots >= a + DaySlots
      BY <2>7, WholeDays
    <2>9. until.at + DaySlots <= v.at
      BY <2>2, <2>5, <2>6, <2>8, DayLength
    <2>10. localFieldsToEpoch(until.at, r) < localFieldsToEpoch(v.at, r)
      BY <2>2, <2>9, LaterDays
    <2>11. localFieldsToEpoch(until.at, r) \in Int /\ localFieldsToEpoch(v.at, r) \in Int
      BY <2>2, WallClocks
    <2> QED
      BY <2>1, <2>10, <2>11 DEF v
  <1> QED
    BY <1>4, <1>5

LEMMA IndexedRules ==
    ASSUME NEW e \in EventObject, e.rule \in RRule, validateRRule(e.master.start, e.rule), ReadAlike(e),
           NEW r \in ReadingZone, NEW range \in TimeRange, NEW k \in ruleInstances(e, range, r),
           instantOf(reconstruct(e.master.start, e.rule.step, k), r) < Forever - DaySlots
    PROVE  k \in ruleInstances(e, Everything, "UTC")
  <1> DEFINE inst(j, z) == instantOf(reconstruct(e.master.start, e.rule.step, j), z)
             admits(j, z) == /\ e.rule.count = 0 \/ j < e.rule.count
                             /\ e.rule.until = None \/ inst(j, z) <= instantOf(e.rule.until, z)
  <1>1. e.master.start \in Value /\ e.rule.step \in Nat \ {0} /\ "UTC" \in ReadingZone
    BY DEF EventObject, VEvent, RRule, ReadingZone
  <1>2. k \in 0 .. Steps /\ (\A j \in 0 .. k : admits(j, r)) /\ k \in Nat /\ Steps \in Nat
    BY RecurrenceAssumption DEF ruleInstances
  <1>3. ASSUME NEW j \in 0 .. k PROVE admits(j, "UTC") /\ inst(j, "UTC") < Forever
    <2>1. j \in Nat /\ (j < k \/ j = k)
      BY <1>2
    <2>2. inst(j, r) \in Int /\ inst(k, r) \in Int /\ inst(j, r) <= inst(k, r)
      BY <1>1, <1>2, <2>1, RuleInOrder
    <2>3. inst(j, "UTC") \in Int /\ inst(j, "UTC") < inst(j, r) + DaySlots
      <3>1. reconstruct(e.master.start, e.rule.step, j) \in Value
        BY <1>1, <2>1, Instances
      <3> QED
        BY <1>1, <3>1, Instants, ReadersAgreeOnTheDay, DayLength
    <2>4. inst(j, "UTC") < Forever
      BY <2>2, <2>3, DayLength, RecurrenceAssumption
    <2>5. admits(j, r)
      BY <1>2, <1>3
    <2>6. admits(j, "UTC")
      BY <2>1, <2>5, AdmittedInUtc
    <2> QED
      BY <2>4, <2>6
  <1>4. ruleInstances(e, Everything, "UTC")
          = {i \in 0 .. Steps : \A j \in 0 .. i : admits(j, "UTC") /\ inst(j, "UTC") < Forever}
    BY DEF ruleInstances, Everything
  <1> HIDE DEF inst, admits
  <1> QED
    BY <1>2, <1>3, <1>4

LEMMA IndexedCandidates ==
    ASSUME NEW e \in EventObject, validateRRule(e.master.start, e.rule), ReadAlike(e), isRecurring(e),
           e.rdates = <<>> \/ ~limitHit(e, Everything, "UTC"),
           NEW r \in ReadingZone, NEW range \in TimeRange, NEW c \in candidates(e, range, r),
           instantOf(c.value, r) < Forever - DaySlots
    PROVE  c \in candidates(e, Everything, "UTC") /\ local(c.value) = local(e.master.start)
  <1> DEFINE n(g, z) == IF e.rule = NoRule THEN 1 ELSE Cardinality(ruleInstances(e, g, z))
             one(k)  == [n |-> k, value |-> reconstruct(e.master.start, e.rule.step, k), end |-> None]
             date(i) == [n |-> Steps + i, value |-> e.rdates[i].start, end |-> e.rdates[i].end]
             first(g, z) == IF e.rule = NoRule
                            THEN {[n |-> 0, value |-> e.master.start, end |-> None]}
                            ELSE {one(k) : k \in {k \in ruleInstances(e, g, z) : k < MaxOccurrences}}
             more(g, z)  == {date(i) : i \in {j \in DOMAIN e.rdates : n(g, z) + j <= MaxOccurrences}}
  <1>1. \A g, z : candidates(e, g, z) = first(g, z) \cup more(g, z)
    BY DEF candidates
  <1>2. e.master.start \in Value
    BY DEF EventObject, VEvent
  <1>3. CASE e.rule = NoRule /\ c \in first(range, r)
    BY <1>1, <1>3
  <1>4. CASE e.rule # NoRule /\ c \in first(range, r)
    <2>1. e.rule \in RRule
      BY <1>4 DEF EventObject
    <2>2. PICK k \in ruleInstances(e, range, r) : k < MaxOccurrences /\ c = one(k)
      BY <1>4
    <2>3. c.value = reconstruct(e.master.start, e.rule.step, k) /\ k \in Nat
      BY <2>2, RecurrenceAssumption DEF ruleInstances
    <2>4. k \in ruleInstances(e, Everything, "UTC")
      BY <2>1, <2>2, <2>3, IndexedRules
    <2>5. c.value.zone = e.master.start.zone
      <3>1. e.master.start \in Value
        BY <1>2
      <3>2. reconstruct(e.master.start, e.rule.step, k).zone = e.master.start.zone
        BY <3>1 DEF reconstruct, Value
      <3> HIDE DEF one
      <3> QED
        BY <2>3, <3>2
    <2>6. c \in first(Everything, "UTC")
      BY <1>4, <2>2, <2>4
    <2> QED
      BY <1>1, <2>5, <2>6 DEF local
  <1>5. CASE c \in more(range, r)
    <2>1. PICK i \in DOMAIN e.rdates : c = date(i)
      BY <1>5
    <2>2. e.rdates # <<>> /\ DOMAIN e.rdates = 1 .. Len(e.rdates) /\ Len(e.rdates) \in Nat
      BY <2>1 DEF EventObject
    <2>3. ~(n(Everything, "UTC") + Len(e.rdates) > MaxOccurrences)
      BY <2>2 DEF limitHit
    <2>4. n(Everything, "UTC") \in Nat
      <3>1. CASE e.rule = NoRule
        BY <3>1
      <3>2. CASE e.rule # NoRule
        <4>1. e.rule \in RRule /\ Everything \in TimeRange /\ "UTC" \in ReadingZone
          BY <3>2, RecurrenceAssumption DEF EventObject, Everything, TimeRange, ReadingZone
        <4>2. Everything.end <= Everything.end
          BY RecurrenceAssumption DEF Everything
        <4>3. IsFiniteSet(ruleInstances(e, Everything, "UTC"))
          BY <4>1, <4>2, NestedRules
        <4> QED
          BY <3>2, <4>3, FS_CardinalityType
      <3> QED
        BY <3>1, <3>2
    <2> HIDE DEF n
    <2>5. n(Everything, "UTC") + i <= MaxOccurrences
      BY <2>1, <2>2, <2>3, <2>4, RecurrenceAssumption
    <2>6. c \in more(Everything, "UTC")
      BY <2>1, <2>5
    <2>7. local(c.value) = local(e.master.start)
      BY <2>1 DEF ReadAlike
    <2> QED
      BY <1>1, <2>6, <2>7
  <1> QED
    BY <1>1, <1>3, <1>4, <1>5

LEMMA OwnTimes ==
    ASSUME NEW e, NEW r, NEW c,
           \A v \in overrideByEpoch(e, r) : Named(v, r) # instantOf(c.value, r)
    PROVE  shownOf(c, e, overrideByEpoch(e, r), r)
             = Occurrence(c.n, instantOf(c.value, r), e.master,
                          IF c.end # None THEN [start |-> instantOf(c.value, r), end |-> instantOf(c.end, r)]
                          ELSE effectivePeriodForOccurrence(e, c.value, r))
  <1>1. {v \in overrideByEpoch(e, r) : instantOf(v.rid, r) = instantOf(c.value, r)} = {}
    BY DEF Named
  <1> QED
    BY <1>1 DEF shownOf

LEMMA EveryOverrideHasAClass ==
    ASSUME NEW e, NEW r, NEW v \in e.overrides
    PROVE  /\ \E w \in overrideByEpoch(e, r) : Named(w, r) = Named(v, r)
           /\ (\A w \in e.overrides : Named(w, r) = Named(v, r) => w = v) => v \in overrideByEpoch(e, r)
  <1> DEFINE first(i) == CHOOSE o \in e.overrides : instantOf(o.rid, r) = i
  <1>1. first(Named(v, r)) \in overrideByEpoch(e, r)
    BY DEF overrideByEpoch, Named
  <1>2. first(Named(v, r)) \in e.overrides /\ Named(first(Named(v, r)), r) = Named(v, r)
    <2>1. \E o \in e.overrides : instantOf(o.rid, r) = Named(v, r)
      BY DEF Named
    <2> QED
      BY <2>1 DEF Named
  <1> QED
    BY <1>1, <1>2

(* What a query shows in the zone of its caller, the index knows of, less  *)
(* than a day earlier or later.                                            *)
LEMMA Counterparts ==
    ASSUME NEW e \in EventObject, validateRRule(e.master.start, e.rule), ReadAlike(e),
           e.rdates = <<>> \/ ~limitHit(e, Everything, "UTC"),
           NEW r \in ReadingZone, NEW range \in TimeRange, NEW o \in expandRecurrenceSet(e, range, r),
           o.start < Forever - DaySlots, o.end > DaySlots
    PROVE  /\ o.start \in Int /\ o.end \in Int
           /\ \E p \in expandRecurrenceSet(e, Everything, "UTC") :
                 /\ p.start \in Int /\ p.end \in Int
                 /\ p.start < o.start + DaySlots /\ p.end > o.end - DaySlots
  <1> DEFINE near(p) == /\ p.start \in Int /\ p.end \in Int
                        /\ p.start < o.start + DaySlots /\ p.end > o.end - DaySlots
             all == expandRecurrenceSet(e, Everything, "UTC")
  <1>1. /\ Everything \in TimeRange /\ Everything.start = 0 /\ Everything.end = Forever
        /\ "UTC" \in ReadingZone /\ Forever \in Nat
    BY RecurrenceAssumption DEF Everything, TimeRange, ReadingZone
  <1>2. ASSUME o.start \in Int, o.end \in Int, NEW p, near(p) PROVE overlapsRange(p, Everything)
    BY <1>1, <1>2, DayLength DEF overlapsRange
  <1>3. CASE ~isRecurring(e)
    <2> DEFINE shown(z) == Occurrence(0, instantOf(e.master.start, z), e.master, periodOf(e.master, z))
    <2>1. \A g, z : \A p : p \in expandRecurrenceSet(e, g, z) <=> p = shown(z) /\ overlapsRange(p, g)
      BY <1>3 DEF expandRecurrenceSet
    <2>2. o = shown(r)
      BY <2>1
    <2>3. e.master.start \in Value /\ e.master.end \in Value \cup {None} /\ e.master.dur \in Duration
      BY DEF EventObject, VEvent
    <2>4. /\ shown(r).start = periodOf(e.master, r).start /\ shown(r).end = periodOf(e.master, r).end
          /\ shown("UTC").start = periodOf(e.master, "UTC").start /\ shown("UTC").end = periodOf(e.master, "UTC").end
      BY DEF Occurrence
    <2> HIDE DEF shown
    <2>5. o.start \in Int /\ o.end \in Int /\ near(shown("UTC"))
      BY <1>1, <2>2, <2>3, <2>4, Periods, PeriodsAgree DEF periodOf
    <2>6. shown("UTC") \in all
      BY <1>2, <2>1, <2>5
    <2> QED
      BY <2>5, <2>6
  <1>4. CASE isRecurring(e)
    <2> DEFINE overrides(z) == overrideByEpoch(e, z)
               shown(c, z)  == shownOf(c, e, overrides(z), z)
               excluded(z)  == {instantOf(x, z) : x \in e.exdates}
               left(g, z)   == {c \in candidates(e, g, z) : instantOf(c.value, z) \notin excluded(z)}
               alone(g, z)  == detachedOverrides(overrides(z), left(g, z), z)
    <2>1. ASSUME NEW g, NEW z, NEW p
          PROVE  p \in expandRecurrenceSet(e, g, z) <=>
                    /\ overlapsRange(p, g)
                    /\ \/ \E c \in left(g, z) : p = shown(c, z)
                       \/ \E v \in alone(g, z) : p = overridden(v, -1, z)
      BY <1>4 DEF expandRecurrenceSet, occurrences, remaining
    <2>2. \A z : overrides(z) \subseteq e.overrides /\ \A g : alone(g, z) \subseteq overrides(z)
      BY OneOverride DEF detachedOverrides
    <2>3. ASSUME NEW v \in e.overrides PROVE v \in overrides("UTC")
      <3>1. \A w \in e.overrides : Named(w, "UTC") = Named(v, "UTC") => w = v
        BY <2>3 DEF ReadAlike, Named
      <3> QED
        BY <2>3, <3>1, EveryOverrideHasAClass
    <2>4. ASSUME NEW v \in e.overrides, NEW n, NEW m
          PROVE  /\ overridden(v, n, r).start \in Int /\ overridden(v, n, r).end \in Int
                 /\ overridden(v, m, "UTC").start \in Int /\ overridden(v, m, "UTC").end \in Int
                 /\ overridden(v, m, "UTC").start < overridden(v, n, r).start + DaySlots
                 /\ overridden(v, m, "UTC").end > overridden(v, n, r).end - DaySlots
      <3>1. v.comp.start \in Value /\ v.comp.end \in Value \cup {None} /\ v.comp.dur \in Duration
        BY DEF EventObject, VEvent
      <3>2. /\ overridden(v, n, r).start = periodOf(v.comp, r).start
            /\ overridden(v, n, r).end = periodOf(v.comp, r).end
            /\ overridden(v, m, "UTC").start = periodOf(v.comp, "UTC").start
            /\ overridden(v, m, "UTC").end = periodOf(v.comp, "UTC").end
        BY DEF overridden, Occurrence
      <3> QED
        BY <1>1, <3>1, <3>2, Periods, PeriodsAgree DEF periodOf
    (* an override is in the index, by itself or for its candidate *)
    <2>5. ASSUME NEW v \in e.overrides, NEW n, o = overridden(v, n, r)
          PROVE  o.start \in Int /\ o.end \in Int /\ \E p \in all : near(p)
      <3>1. \E m : \/ \E c \in left(Everything, "UTC") : overridden(v, m, "UTC") = shown(c, "UTC")
                   \/ m = -1 /\ v \in alone(Everything, "UTC")
        <4>1. v \in overrides("UTC")
          BY <2>3, <2>5
        <4>2. CASE \E c \in left(Everything, "UTC") : instantOf(c.value, "UTC") = Named(v, "UTC")
          <5>1. PICK c \in left(Everything, "UTC") : instantOf(c.value, "UTC") = Named(v, "UTC")
            BY <4>2
          <5>2. shown(c, "UTC") = overridden(v, c.n, "UTC")
            BY <1>1, <4>1, <5>1, ShownTimes
          <5> QED
            BY <5>1, <5>2
        <4>3. CASE ~\E c \in left(Everything, "UTC") : instantOf(c.value, "UTC") = Named(v, "UTC")
          BY <4>1, <4>3 DEF detachedOverrides, Named
        <4> QED
          BY <4>2, <4>3
      <3>2. PICK m : \/ \E c \in left(Everything, "UTC") : overridden(v, m, "UTC") = shown(c, "UTC")
                     \/ m = -1 /\ v \in alone(Everything, "UTC")
        BY <3>1
      <3>3. o.start \in Int /\ o.end \in Int /\ near(overridden(v, m, "UTC"))
        BY <2>4, <2>5
      <3>4. overlapsRange(overridden(v, m, "UTC"), Everything)
        BY <1>2, <3>3
      <3>5. overridden(v, m, "UTC") \in all
        BY <2>1, <3>2, <3>4
      <3> QED
        BY <3>3, <3>5
    <2>6. ASSUME NEW c \in left(range, r), o = shown(c, r),
                 \A v \in overrides(r) : Named(v, r) # instantOf(c.value, r)
          PROVE  o.start \in Int /\ o.end \in Int /\ \E p \in all : near(p)
      <3> DEFINE own(z) == IF c.end # None
                           THEN [start |-> instantOf(c.value, z), end |-> instantOf(c.end, z)]
                           ELSE effectivePeriodForOccurrence(e, c.value, z)
      <3>1. o = Occurrence(c.n, instantOf(c.value, r), e.master, own(r))
        BY <2>6, OwnTimes
      <3>2. c.value \in Value /\ c.end \in Value \cup {None}
        BY <2>6, CandidatesAreDates
      <3>3. /\ own(r).start = instantOf(c.value, r) /\ own(r).start \in Int /\ own(r).end \in Int
            /\ own("UTC").start \in Int /\ own("UTC").end \in Int
        BY <1>1, <3>2, Instants, OccurrencePeriods
      <3>4. o.start = own(r).start /\ o.end = own(r).end
        BY <3>1 DEF Occurrence
      <3>5. c \in candidates(e, Everything, "UTC") /\ local(c.value) = local(e.master.start)
        BY <1>4, <2>6, <3>3, <3>4, IndexedCandidates
      <3>6. instantOf(c.value, "UTC") \notin excluded("UTC")
        <4>1. ASSUME NEW x \in e.exdates, instantOf(c.value, "UTC") = instantOf(x, "UTC") PROVE FALSE
          <5>1. x \in Value /\ local(x) = local(c.value)
            BY <3>5 DEF EventObject, ReadAlike
          <5>2. instantOf(c.value, r) = instantOf(x, r)
            BY <3>2, <4>1, <5>1, ReadAlikeStaysAlike
          <5> QED
            BY <2>6, <5>2
        <4> QED
          BY <4>1
      <3>7. ASSUME NEW v \in overrides("UTC") PROVE Named(v, "UTC") # instantOf(c.value, "UTC")
        <4>1. SUFFICES ASSUME Named(v, "UTC") = instantOf(c.value, "UTC") PROVE FALSE
          OBVIOUS
        <4>2. v \in e.overrides
          BY <2>2, <3>7
        <4>3. v.rid \in Value /\ local(v.rid) = local(c.value)
          BY <3>5, <4>2 DEF EventObject, ReadAlike
        <4>4. Named(v, r) = instantOf(c.value, r)
          BY <3>2, <4>1, <4>3, ReadAlikeStaysAlike DEF Named
        <4> QED
          BY <2>6, <4>2, <4>4, EveryOverrideHasAClass
      <3>8. shown(c, "UTC") = Occurrence(c.n, instantOf(c.value, "UTC"), e.master, own("UTC"))
        BY <3>7, OwnTimes
      <3>9. shown(c, "UTC").start = own("UTC").start /\ shown(c, "UTC").end = own("UTC").end
        BY <3>8 DEF Occurrence
      <3>10. own("UTC").start < own(r).start + DaySlots /\ own("UTC").end > own(r).end - DaySlots
        <4>1. CASE c.end # None
          <5>1. c.end \in Value
            BY <3>2, <4>1
          <5>2. /\ instantOf(c.value, r) \in Int /\ instantOf(c.value, "UTC") \in Int
                /\ instantOf(c.value, "UTC") < instantOf(c.value, r) + DaySlots
            BY <3>2, LessThanADayApart
          <5>3. /\ instantOf(c.end, r) \in Int /\ instantOf(c.end, "UTC") \in Int
                /\ instantOf(c.end, "UTC") > instantOf(c.end, r) - DaySlots
            BY <5>1, LessThanADayApart
          <5>4. \A z : own(z) = [start |-> instantOf(c.value, z), end |-> instantOf(c.end, z)]
            BY <4>1
          <5> HIDE DEF own
          <5>5. /\ own(r).start = instantOf(c.value, r) /\ own(r).end = instantOf(c.end, r)
                /\ own("UTC").start = instantOf(c.value, "UTC") /\ own("UTC").end = instantOf(c.end, "UTC")
            BY <5>4
          <5> QED
            BY <5>2, <5>3, <5>5
        <4>2. CASE c.end = None
          BY <3>2, <3>5, <4>2, OccurrencePeriodsAgree
        <4> QED
          BY <4>1, <4>2
      <3> HIDE DEF own, shown
      <3>11. o.start \in Int /\ o.end \in Int /\ near(shown(c, "UTC"))
        BY <3>3, <3>4, <3>9, <3>10
      <3>12. overlapsRange(shown(c, "UTC"), Everything)
        BY <1>2, <3>11
      <3>13. c \in left(Everything, "UTC")
        BY <3>5, <3>6
      <3>14. shown(c, "UTC") \in all
        BY <2>1, <3>12, <3>13
      <3> QED
        BY <3>11, <3>14
    <2>7. CASE \E c \in left(range, r) : o = shown(c, r)
      <3>1. PICK c \in left(range, r) : o = shown(c, r)
        BY <2>7
      <3>2. CASE \A v \in overrides(r) : Named(v, r) # instantOf(c.value, r)
        BY <2>6, <3>1, <3>2
      <3>3. CASE \E v \in overrides(r) : Named(v, r) = instantOf(c.value, r)
        <4>1. PICK v \in overrides(r) : Named(v, r) = instantOf(c.value, r)
          BY <3>3
        <4>2. o = overridden(v, c.n, r) /\ v \in e.overrides
          BY <2>2, <3>1, <4>1, ShownTimes
        <4> QED
          BY <2>5, <4>2
      <3> QED
        BY <3>2, <3>3
    <2>8. CASE \E v \in alone(range, r) : o = overridden(v, -1, r)
      BY <2>2, <2>5, <2>8
    <2> QED
      BY <2>1, <2>7, <2>8
  <1> QED
    BY <1>3, <1>4

-----------------------------------------------------------------------------
(* The recurrence set of an event is finite: Steps instances of its rule,  *)
(* its RDATEs and its overrides.                                           *)

LEMMA Images ==
    ASSUME NEW S, IsFiniteSet(S), NEW f
    PROVE  IsFiniteSet({f[x] : x \in S})
  <1> DEFINE T == {f[x] : x \in S}
             g == [x \in S |-> f[x]]
  <1>1. g \in Surjection(S, T)
    BY DEF Surjection
  <1> QED
    BY <1>1, FS_Surjection

LEMMA FiniteDates ==
    ASSUME NEW e \in EventObject
    PROVE  IsFiniteSet(DOMAIN e.rdates)
  <1>1. DOMAIN e.rdates = 1 .. Len(e.rdates) /\ Len(e.rdates) \in Int
    BY DEF EventObject
  <1> QED
    BY <1>1, FS_Interval

LEMMA FiniteCandidates ==
    ASSUME NEW e \in EventObject, NEW range, NEW r
    PROVE  IsFiniteSet(candidates(e, range, r))
  <1> DEFINE one  == [k \in 0 .. Steps |->
                        [n |-> k, value |-> reconstruct(e.master.start, e.rule.step, k), end |-> None]]
             date == [i \in DOMAIN e.rdates |->
                        [n |-> Steps + i, value |-> e.rdates[i].start, end |-> e.rdates[i].end]]
             lone == {[n |-> 0, value |-> e.master.start, end |-> None]}
             byRule == {one[k] : k \in 0 .. Steps}
             byDate == {date[i] : i \in DOMAIN e.rdates}
  <1>1. IsFiniteSet(0 .. Steps)
    BY RecurrenceAssumption, FS_Interval
  <1>2. IsFiniteSet(DOMAIN e.rdates)
    BY FiniteDates
  <1>3. candidates(e, range, r) \subseteq lone \cup byRule \cup byDate
    BY DEF candidates, ruleInstances
  <1>4. IsFiniteSet(lone)
    BY FS_Singleton
  <1> HIDE DEF one, date, lone
  <1>5. IsFiniteSet(byRule) /\ IsFiniteSet(byDate)
    BY <1>1, <1>2, Images
  <1> HIDE DEF byRule, byDate
  <1>6. IsFiniteSet(lone \cup byRule \cup byDate)
    BY <1>4, <1>5, FS_Union
  <1> QED
    BY <1>3, <1>6, FS_Subset

LEMMA FiniteExpansion ==
    ASSUME NEW e \in EventObject, IsFiniteSet(e.overrides), NEW range, NEW r
    PROVE  IsFiniteSet(expandRecurrenceSet(e, range, r))
  <1>1. CASE ~isRecurring(e)
    <2>1. PICK x : x = Occurrence(0, instantOf(e.master.start, r), e.master, periodOf(e.master, r))
      OBVIOUS
    <2>2. expandRecurrenceSet(e, range, r) \subseteq {x}
      BY <1>1, <2>1 DEF expandRecurrenceSet
    <2> QED
      BY <2>2, FS_Singleton, FS_Subset
  <1>2. CASE isRecurring(e)
    <2> DEFINE left  == remaining(e, range, r)
               alone == detachedOverrides(overrideByEpoch(e, r), left, r)
               shown == [c \in left |-> shownOf(c, e, overrideByEpoch(e, r), r)]
               other == [v \in alone |-> overridden(v, -1, r)]
    <2>1. IsFiniteSet(left)
      <3>1. left \subseteq candidates(e, range, r)
        BY DEF remaining
      <3> QED
        BY <3>1, FiniteCandidates, FS_Subset
    <2>2. IsFiniteSet(alone)
      <3>1. alone \subseteq e.overrides
        BY OneOverride DEF detachedOverrides
      <3> QED
        BY <3>1, FS_Subset
    <2>3. expandRecurrenceSet(e, range, r) \subseteq {shown[c] : c \in left} \cup {other[v] : v \in alone}
      BY <1>2 DEF expandRecurrenceSet, occurrences
    <2> HIDE DEF left, alone, shown, other
    <2>4. IsFiniteSet({shown[c] : c \in left}) /\ IsFiniteSet({other[v] : v \in alone})
      BY <2>1, <2>2, Images
    <2>5. IsFiniteSet({shown[c] : c \in left} \cup {other[v] : v \in alone})
      BY <2>4, FS_Union
    <2> QED
      BY <2>3, <2>5, FS_Subset
  <1> QED
    BY <1>1, <1>2

(* What an event shows begins at a candidate, or where an override does.   *)
LEMMA OccurrencesAreTimes ==
    ASSUME NEW e \in EventObject, NEW range \in TimeRange, NEW r \in ReadingZone,
           NEW o \in expandRecurrenceSet(e, range, r)
    PROVE  /\ o.start \in Int /\ o.end \in Int
           /\ \/ o.start = instantOf(e.master.start, r)
              \/ \E c \in candidates(e, range, r) : isRecurring(e) /\ o.start = instantOf(c.value, r)
              \/ \E v \in e.overrides : o.start = instantOf(v.comp.start, r)
  <1>1. CASE ~isRecurring(e)
    <2>1. o = Occurrence(0, instantOf(e.master.start, r), e.master, periodOf(e.master, r))
      BY <1>1 DEF expandRecurrenceSet
    <2>2. e.master.start \in Value /\ e.master.end \in Value \cup {None} /\ e.master.dur \in Duration
      BY DEF EventObject, VEvent
    <2>3. /\ periodOf(e.master, r).start = instantOf(e.master.start, r)
          /\ periodOf(e.master, r).start \in Int /\ periodOf(e.master, r).end \in Int
      BY <2>2, Periods DEF periodOf
    <2>4. o.start = periodOf(e.master, r).start /\ o.end = periodOf(e.master, r).end
      BY <2>1 DEF Occurrence
    <2> QED
      BY <2>3, <2>4
  <1>2. ASSUME NEW v \in e.overrides, NEW n, o = overridden(v, n, r)
        PROVE  o.start \in Int /\ o.end \in Int /\ o.start = instantOf(v.comp.start, r)
    <2>1. v.comp.start \in Value /\ v.comp.end \in Value \cup {None} /\ v.comp.dur \in Duration
      BY DEF EventObject, VEvent
    <2>2. periodOf(v.comp, r).start = instantOf(v.comp.start, r)
      BY <2>1, Periods DEF periodOf
    <2> QED
      BY <1>2, <2>2, OverriddenTimes DEF overridden, Occurrence
  <1>3. CASE isRecurring(e)
    <2>1. \/ \E c \in candidates(e, range, r) : o = shownOf(c, e, overrideByEpoch(e, r), r)
          \/ \E v \in overrideByEpoch(e, r) : o = overridden(v, -1, r)
      BY <1>3 DEF expandRecurrenceSet, occurrences, remaining, detachedOverrides
    <2>2. overrideByEpoch(e, r) \subseteq e.overrides
      BY OneOverride
    <2>3. CASE \E v \in overrideByEpoch(e, r) : o = overridden(v, -1, r)
      BY <1>2, <2>2, <2>3
    <2>4. ASSUME NEW c \in candidates(e, range, r), o = shownOf(c, e, overrideByEpoch(e, r), r)
          PROVE  /\ o.start \in Int /\ o.end \in Int
                 /\ o.start = instantOf(c.value, r) \/ \E v \in e.overrides : o.start = instantOf(v.comp.start, r)
      <3>1. CASE \E v \in overrideByEpoch(e, r) : Named(v, r) = instantOf(c.value, r)
        <4>1. PICK v \in overrideByEpoch(e, r) : Named(v, r) = instantOf(c.value, r)
          BY <3>1
        <4>2. o = overridden(v, c.n, r)
          BY <2>4, <4>1, ShownTimes
        <4> QED
          BY <1>2, <2>2, <4>2
      <3>2. CASE \A v \in overrideByEpoch(e, r) : Named(v, r) # instantOf(c.value, r)
        BY <2>4, <3>2, ShownTimes
      <3> QED
        BY <3>1, <3>2
    <2> QED
      BY <1>3, <2>1, <2>3, <2>4
  <1> QED
    BY <1>1, <1>3

-----------------------------------------------------------------------------
(* The index hides nothing.                                                *)

StartsOf(e) == {e.master.start} \cup {e.rdates[i].start : i \in DOMAIN e.rdates}
                 \cup {o.comp.start : o \in e.overrides}

LEMMA FiniteStarts ==
    ASSUME NEW e \in EventObject, IsFiniteSet(e.overrides)
    PROVE  /\ IsFiniteSet({instantOf(v, "UTC") : v \in StartsOf(e)})
           /\ {instantOf(v, "UTC") : v \in StartsOf(e)} \subseteq Int
  <1> DEFINE RDate == [start : Value, end : Value \cup {None}]
             byDate == [i \in DOMAIN e.rdates |-> e.rdates[i].start]
             byOverride == [o \in e.overrides |-> o.comp.start]
             instant == [v \in StartsOf(e) |-> instantOf(v, "UTC")]
  <1>1. e.rdates \in Seq(RDate) /\ e.master \in VEvent
    BY DEF EventObject
  <1> HIDE DEF RDate
  <1>2. \A i \in DOMAIN e.rdates : e.rdates[i] \in RDate
    BY <1>1
  <1>3. StartsOf(e) = {e.master.start} \cup {byDate[i] : i \in DOMAIN e.rdates}
                        \cup {byOverride[o] : o \in e.overrides}
    BY DEF StartsOf
  <1>4. StartsOf(e) \subseteq Value
    <2>1. e.master.start \in Value
      BY <1>1 DEF VEvent
    <2>2. \A i \in DOMAIN e.rdates : e.rdates[i].start \in Value
      BY <1>2 DEF RDate
    <2>3. \A o \in e.overrides : o.comp.start \in Value
      BY DEF EventObject, VEvent
    <2> QED
      BY <2>1, <2>2, <2>3 DEF StartsOf
  <1>5. IsFiniteSet(DOMAIN e.rdates)
    BY FiniteDates
  <1> HIDE DEF byDate, byOverride
  <1>6. IsFiniteSet({byDate[i] : i \in DOMAIN e.rdates}) /\ IsFiniteSet({byOverride[o] : o \in e.overrides})
    BY <1>5, Images
  <1>7. IsFiniteSet(StartsOf(e))
    <2>1. PICK A, B, C : /\ A = {e.master.start} /\ B = {byDate[i] : i \in DOMAIN e.rdates}
                         /\ C = {byOverride[o] : o \in e.overrides}
      OBVIOUS
    <2>2. IsFiniteSet(A) /\ IsFiniteSet(B) /\ IsFiniteSet(C)
      BY <1>6, <2>1, FS_Singleton
    <2>3. IsFiniteSet(A \cup B \cup C)
      BY <2>2, FS_Union
    <2> QED
      BY <1>3, <2>1, <2>3
  <1>8. {instantOf(v, "UTC") : v \in StartsOf(e)} = {instant[v] : v \in StartsOf(e)}
    OBVIOUS
  <1> HIDE DEF instant
  <1>9. IsFiniteSet({instantOf(v, "UTC") : v \in StartsOf(e)})
    BY <1>7, <1>8, Images
  <1> QED
    BY <1>4, <1>9, LessThanADayApart DEF ReadingZone

LEMMA StartsComeFirst ==
    ASSUME NEW e \in EventObject, NEW range \in TimeRange, NEW r \in ReadingZone,
           NEW o \in expandRecurrenceSet(e, range, r)
    PROVE  \E v \in StartsOf(e) : instantOf(v, "UTC") < o.start + DaySlots
  <1>1. e.master.start \in Value /\ o.start \in Int /\ e.master.start \in StartsOf(e)
    BY OccurrencesAreTimes DEF EventObject, VEvent, StartsOf
  <1>2. CASE o.start = instantOf(e.master.start, r)
    BY <1>1, <1>2, LessThanADayApart
  <1>3. ASSUME NEW v \in e.overrides, o.start = instantOf(v.comp.start, r)
        PROVE  \E w \in StartsOf(e) : instantOf(w, "UTC") < o.start + DaySlots
    <2>1. v.comp.start \in Value /\ v.comp.start \in StartsOf(e)
      BY DEF EventObject, VEvent, StartsOf
    <2> QED
      BY <1>3, <2>1, LessThanADayApart
  <1>4. ASSUME NEW c \in candidates(e, range, r), o.start = instantOf(c.value, r)
        PROVE  \E w \in StartsOf(e) : instantOf(w, "UTC") < o.start + DaySlots
    <2>1. /\ c.value \in Value /\ instantOf(c.value, "UTC") \in Int
          /\ instantOf(c.value, "UTC") < o.start + DaySlots
      BY <1>4, CandidatesAreDates, LessThanADayApart
    <2>2. \/ c.value \in StartsOf(e)
          \/ e.rule # NoRule /\ \E k \in 0 .. Steps : c.value = reconstruct(e.master.start, e.rule.step, k)
      <3>1. CASE e.rule = NoRule /\ c = [n |-> 0, value |-> e.master.start, end |-> None]
        BY <1>1, <3>1
      <3>2. CASE e.rule # NoRule /\ \E k \in 0 .. Steps :
                   c = [n |-> k, value |-> reconstruct(e.master.start, e.rule.step, k), end |-> None]
        BY <3>2
      <3>3. CASE \E i \in DOMAIN e.rdates :
                   c = [n |-> Steps + i, value |-> e.rdates[i].start, end |-> e.rdates[i].end]
        BY <3>3 DEF StartsOf
      <3> QED
        BY <3>1, <3>2, <3>3 DEF candidates, ruleInstances
    <2>3. ASSUME e.rule # NoRule, NEW k \in 0 .. Steps, c.value = reconstruct(e.master.start, e.rule.step, k)
          PROVE  instantOf(e.master.start, "UTC") < o.start + DaySlots
      <3>1. e.rule.step \in Nat \ {0} /\ k \in Nat /\ "UTC" \in ReadingZone
        BY <2>3, RecurrenceAssumption DEF EventObject, RRule, ReadingZone
      <3>2. reconstruct(e.master.start, e.rule.step, 0) = e.master.start
        BY <1>1, <3>1, Instances
      <3>3. /\ instantOf(e.master.start, "UTC") \in Int
            /\ 0 < k => instantOf(e.master.start, "UTC") < instantOf(c.value, "UTC")
        BY <1>1, <2>3, <3>1, <3>2, RuleInOrder
      <3>4. k = 0 => c.value = e.master.start
        BY <2>3, <3>2
      <3> QED
        BY <1>1, <2>1, <3>1, <3>3, <3>4, DayLength
    <2> QED
      BY <1>1, <2>1, <2>2, <2>3
  <1> QED
    BY <1>2, <1>3, <1>4, OccurrencesAreTimes

(* Of an event whose dates are read alike, with no RDATE left out for the  *)
(* limit, the index hides no occurrence but those a day from the ends of   *)
(* the time it covers: it is computed as if local dates were in UTC, and   *)
(* the day a query's range is widened by makes up for that.                *)
THEOREM TheIndexHidesNothing == ObjectSpec => []QueryFindsOccurrences
<1> DEFINE bounds == occurrenceBounds(event)
           all == expandRecurrenceSet(event, Everything, "UTC")
<1>1. ASSUME EventFits, event # NoEvent, ReadAlike(event),
             event.rdates = <<>> \/ ~limitHit(event, Everything, "UTC"),
             NEW r \in Readers, NEW range \in Ranges, NEW o \in expandRecurrenceSet(event, range, r)
      PROVE  isCandidate(bounds, range) \/ o.start >= Forever - Slack \/ o.end <= Slack
  <2>1. /\ event \in EventObject /\ IsFiniteSet(event.overrides)
        /\ validateRRule(event.master.start, event.rule)
    BY <1>1 DEF EventFits, Valid
  <2>2. /\ r \in ReadingZone /\ "UTC" \in ReadingZone /\ Everything \in TimeRange
        /\ range \in TimeRange /\ range.start \in 0 .. Forever /\ range.end \in 0 .. Forever
        /\ Forever \in Nat /\ Slack = DaySlots
    BY InputsAssumption, RecurrenceAssumption DEF TimeRange, Everything, ReadingZone
  <2>3. o.start \in Int /\ o.end \in Int
    BY <2>1, <2>2, OccurrencesAreTimes
  <2>4. o.start < range.end /\ (o.end > range.start \/ (o.end = o.start /\ o.start >= range.start))
    <3>1. overlapsRange(o, range)
      BY DEF expandRecurrenceSet
    <3> QED
      BY <2>2, <2>3, <3>1 DEF overlapsRange
  <2>5. CASE event.rule # NoRule /\ event.rule.count = 0 /\ event.rule.until = None
    <3> DEFINE S == {instantOf(v, "UTC") : v \in StartsOf(event)}
    <3>1. bounds = [first |-> Min(S), last |-> Forever]
      BY <2>5 DEF occurrenceBounds, StartsOf
    <3>2. PICK v \in StartsOf(event) : instantOf(v, "UTC") < o.start + DaySlots
      BY <2>1, <2>2, StartsComeFirst
    <3>3. IsFiniteSet(S) /\ S \subseteq Int /\ instantOf(v, "UTC") \in S
      BY <2>1, FiniteStarts
    <3>4. Min(S) \in Int /\ Min(S) <= instantOf(v, "UTC") /\ instantOf(v, "UTC") \in Int
      BY <3>3, Extremes
    <3> HIDE DEF bounds, S
    <3>5. bounds.first = Min(S) /\ bounds.last = Forever
      BY <3>1
    <3>6. Min(S) < range.end + Slack
      BY <2>2, <2>3, <2>4, <3>2, <3>4, DayLength
    <3>7. Forever > range.start - Slack
      BY <2>2, DayLength
    <3> QED
      BY <3>5, <3>6, <3>7 DEF isCandidate
  <2>6. CASE ~(event.rule # NoRule /\ event.rule.count = 0 /\ event.rule.until = None)
    <3>1. SUFFICES ASSUME o.start < Forever - DaySlots, o.end > DaySlots PROVE isCandidate(bounds, range)
      BY <2>2, <2>3, DayLength
    <3>2. PICK p \in all : /\ p.start \in Int /\ p.end \in Int
                           /\ p.start < o.start + DaySlots /\ p.end > o.end - DaySlots
      BY <1>1, <2>1, <2>2, <3>1, Counterparts
    <3> DEFINE starts == {q.start : q \in all}
               ends   == {q.end : q \in all}
    <3>3. IsFiniteSet(starts) /\ IsFiniteSet(ends)
      <4> DEFINE f == [q \in all |-> q.start]
                 g == [q \in all |-> q.end]
      <4>1. IsFiniteSet(all)
        BY <2>1, FiniteExpansion
      <4>2. starts = {f[q] : q \in all} /\ ends = {g[q] : q \in all}
        OBVIOUS
      <4> HIDE DEF f, g, starts, ends, all
      <4> QED
        BY <4>1, <4>2, Images
    <3>4. starts \subseteq Int /\ ends \subseteq Int
      BY <2>1, <2>2, OccurrencesAreTimes
    <3>5. p.start \in starts /\ p.end \in ends /\ all # {}
      BY <3>2
    <3>6. bounds = [first |-> Min(starts),
                    last  |-> IF limitHit(event, Everything, "UTC") THEN Forever ELSE Max(ends)]
      BY <2>6, <3>5 DEF occurrenceBounds
    <3> HIDE DEF bounds, starts, ends, all
    <3>7. Min(starts) \in Int /\ Min(starts) <= p.start /\ Max(ends) \in Int /\ Max(ends) >= p.end
      BY <3>3, <3>4, <3>5, Extremes
    <3>8. bounds.first = Min(starts) /\ bounds.last \in {Forever, Max(ends)}
      BY <3>6
    <3>9. Min(starts) < range.end + Slack
      BY <2>2, <2>3, <2>4, <3>2, <3>7, DayLength
    <3>10. Forever > range.start - Slack
      BY <2>2, DayLength
    <3>11. Max(ends) > range.start - Slack
      BY <2>2, <2>3, <2>4, <3>2, <3>7, DayLength
    <3> QED
      BY <3>8, <3>9, <3>10, <3>11 DEF isCandidate
  <2> QED
    BY <2>5, <2>6
<1>2. EventFits => QueryFindsOccurrences
  BY <1>1 DEF QueryFindsOccurrences
<1> QED
  BY <1>2, EventsFit, PTL


-----------------------------------------------------------------------------
(* Free/busy.                                                              *)

IntervalOf(type) == [start : Int, end : Int, type : {type}]

Covers(ivs, t) == \E iv \in ivs : iv.start <= t /\ t < iv.end
Apart(a, b) == a.end < b.start \/ b.end < a.start

(* After some turns: the intervals taken so far are covered exactly, what   *)
(* is pushed lies before the current one, what is left does not.           *)
LoopFits(loop, ivs, type) ==
    /\ loop \in [left : SUBSET ivs, result : SUBSET IntervalOf(type), current : IntervalOf(type) \cup {NoInterval}]
    /\ loop.current = NoInterval => loop.left = ivs /\ loop.result = {}
    /\ \A t \in Int : Covers(loop.result \cup {loop.current}, t) <=> Covers(ivs \ loop.left, t)
    /\ \A b \in loop.result : b.end < loop.current.start
    /\ \A a, b \in loop.result : a # b => Apart(a, b)
    /\ loop.current # NoInterval => \A iv \in loop.left : loop.current.start <= iv.start

(* One turn of the loop: what is covered stays covered, nothing else is.   *)
LEMMA Turns ==
    ASSUME NEW type, type # "free", NEW ivs \in SUBSET IntervalOf(type), IsFiniteSet(ivs),
           \A iv \in ivs : iv.start < iv.end,
           NEW loop, LoopFits(loop, ivs, type), loop.left # {}
    PROVE  /\ LoopFits(turn(loop), ivs, type)
           /\ turn(loop).current # NoInterval
           /\ \E iv \in loop.left : turn(loop).left = loop.left \ {iv}
  <1> DEFINE iv == earliest(loop.left)
             l  == turn(loop)
  <1>1. /\ loop.left \subseteq ivs /\ loop.result \subseteq IntervalOf(type)
        /\ loop.current \in IntervalOf(type) \cup {NoInterval}
    BY DEF LoopFits
  <1>2. iv \in loop.left /\ \A other \in loop.left : iv.start <= other.start
    <2> DEFINE starts == {x.start : x \in loop.left}
               f == [x \in loop.left |-> x.start]
    <2>1. IsFiniteSet(loop.left)
      BY <1>1, FS_Subset
    <2>2. starts = {f[x] : x \in loop.left}
      OBVIOUS
    <2>3. IsFiniteSet(starts) /\ starts \subseteq Int /\ starts # {}
      <3>1. IsFiniteSet(starts)
        <4> HIDE DEF f, starts
        <4> QED
          BY <2>1, <2>2, Images
      <3> QED
        BY <3>1, <1>1 DEF IntervalOf
    <2> HIDE DEF starts
    <2>4. \E x \in starts : \A y \in starts : x <= y
      BY <2>3, LeastAndGreatest
    <2>5. \E x \in loop.left : \A other \in loop.left : x.start <= other.start
      BY <2>4 DEF starts
    <2> QED
      BY <2>5 DEF earliest
  <1>3. iv \in IntervalOf(type) /\ iv.start < iv.end /\ iv.start \in Int /\ iv.end \in Int /\ iv # NoInterval
    BY <1>1, <1>2 DEF IntervalOf, NoInterval
  <1> HIDE DEF iv
  <1>4. PICK m \in Int : m = Max({loop.current.end, iv.end}) /\ m >= iv.end /\ m >= loop.current.end
                         /\ (m = iv.end \/ m = loop.current.end)
    <2>1. loop.current.end \in Int
      BY <1>1 DEF IntervalOf, NoInterval
    <2>2. IsFiniteSet({loop.current.end, iv.end}) /\ {loop.current.end, iv.end} \subseteq Int
      <3>1. IsFiniteSet({loop.current.end})
        BY FS_Singleton
      <3>2. IsFiniteSet({loop.current.end} \cup {iv.end})
        BY <3>1, FS_AddElement
      <3>3. {loop.current.end} \cup {iv.end} = {loop.current.end, iv.end}
        OBVIOUS
      <3> QED
        BY <3>2, <3>3, <2>1, <1>3
    <2>3. \E x \in {loop.current.end, iv.end} : \A y \in {loop.current.end, iv.end} : x >= y
      BY <2>2, LeastAndGreatest
    <2> QED
      BY <2>1, <2>3, <1>3 DEF Max
  <1> DEFINE rest == loop.left \ {iv}
  <1>5. /\ rest \subseteq ivs /\ ivs \ rest = (ivs \ loop.left) \cup {iv}
        /\ \A other \in rest : iv.start <= other.start
    BY <1>1, <1>2
  <1>6. \A t \in Int : Covers(ivs \ rest, t) <=> Covers(ivs \ loop.left, t) \/ (iv.start <= t /\ t < iv.end)
    BY <1>5, Zenon DEF Covers
  <1>7. \A t \in Int : Covers(loop.result \cup {loop.current}, t)
                         <=> Covers(loop.result, t) \/ (loop.current.start <= t /\ t < loop.current.end)
    BY Zenon DEF Covers
  <1>8. \A t \in Int : Covers(loop.result \cup {loop.current}, t) <=> Covers(ivs \ loop.left, t)
    BY DEF LoopFits
  <1>9. l = merge([loop EXCEPT !.left = rest], iv)
    BY DEF turn, iv
  <1>a. CASE loop.current = NoInterval
    <2>1. l = [left |-> rest, result |-> {}, current |-> iv]
      BY <1>a, <1>9 DEF merge, LoopFits
    <2>0. l.left = rest /\ l.current = iv /\ l.result = {} /\ l.result \cup {l.current} = {iv}
      BY <2>1
    <2>2. \A t \in Int : Covers(l.result \cup {l.current}, t) <=> (iv.start <= t /\ t < iv.end)
      BY <2>0, Zenon DEF Covers
    <2>3. \A t \in Int : ~Covers(ivs \ loop.left, t)
      BY <1>a DEF LoopFits, Covers
    <2>4. \A t \in Int : Covers(l.result \cup {l.current}, t) <=> Covers(ivs \ rest, t)
      BY <2>2, <2>3, <1>6
    <2> QED
      BY <2>0, <2>1, <2>4, <1>2, <1>3, <1>5 DEF LoopFits
  <1>b. CASE loop.current # NoInterval /\ iv.start <= loop.current.end
    <2> DEFINE c == [loop.current EXCEPT !.end = m]
    <2>1. /\ l.left = rest /\ l.result = loop.result /\ l.current = c
          /\ l = [left |-> rest, result |-> loop.result, current |-> c]
      BY <1>b, <1>9, <1>4 DEF merge, joined, extended, LoopFits
    <2>2. loop.current \in IntervalOf(type) /\ loop.current.start \in Int /\ loop.current.end \in Int
      BY <1>b, <1>1 DEF IntervalOf
    <2>3. c \in IntervalOf(type) /\ c # NoInterval /\ c.start = loop.current.start /\ c.end = m
      BY <2>2 DEF IntervalOf, NoInterval
    <2> HIDE DEF c
    <2>4. loop.current.start <= iv.start
      BY <1>b, <1>2 DEF LoopFits
    <2>5. \A t \in Int : (c.start <= t /\ t < c.end)
                 <=> (loop.current.start <= t /\ t < loop.current.end) \/ (iv.start <= t /\ t < iv.end)
      BY <2>2, <2>3, <2>4, <1>b, <1>3, <1>4
    <2>6. \A t \in Int : Covers(l.result \cup {l.current}, t)
                 <=> Covers(loop.result, t) \/ (c.start <= t /\ t < c.end)
      BY <2>1, Zenon DEF Covers
    <2>7. \A t \in Int : Covers(l.result \cup {l.current}, t) <=> Covers(ivs \ rest, t)
      BY <2>5, <2>6, <1>6, <1>7, <1>8
    <2>8. \A b \in l.result : b.end < l.current.start
      BY <2>1, <2>3 DEF LoopFits
    <2>9. \A other \in l.left : l.current.start <= other.start
      BY <2>1, <2>3, <1>b DEF LoopFits
    <2> QED
      BY <2>1, <2>3, <2>7, <2>8, <2>9, <1>1, <1>2, <1>5 DEF LoopFits
  <1>c. CASE loop.current # NoInterval /\ ~(iv.start <= loop.current.end)
    <2>1. /\ l.left = rest /\ l.result = loop.result \cup {loop.current} /\ l.current = iv
          /\ l = [left |-> rest, result |-> loop.result \cup {loop.current}, current |-> iv]
      BY <1>c, <1>9 DEF merge, pushed, LoopFits
    <2>2. loop.current \in IntervalOf(type) /\ loop.current.start \in Int /\ loop.current.end \in Int
      BY <1>c, <1>1 DEF IntervalOf
    <2>3. loop.current.start <= iv.start /\ loop.current.end < iv.start
      BY <1>c, <1>2, <1>3, <2>2 DEF LoopFits
    <2>4. \A t \in Int : Covers(l.result \cup {l.current}, t)
                 <=> Covers(loop.result \cup {loop.current}, t) \/ (iv.start <= t /\ t < iv.end)
      BY <2>1, Zenon DEF Covers
    <2>5. \A t \in Int : Covers(l.result \cup {l.current}, t) <=> Covers(ivs \ rest, t)
      BY <2>4, <1>6, <1>8
    <2>6. \A b \in loop.result : b.end \in Int /\ b.end < loop.current.start
      BY <1>1 DEF LoopFits, IntervalOf
    <2>7. \A b \in l.result : b.end < l.current.start
      BY <2>1, <2>2, <2>3, <2>6, <1>3
    <2>8. \A a, b \in l.result : a # b => Apart(a, b)
      BY <2>1, <2>6 DEF LoopFits, Apart
    <2>9. l.result \subseteq IntervalOf(type)
      BY <2>1, <2>2, <1>1
    <2> QED
      BY <2>1, <2>5, <2>7, <2>8, <2>9, <1>2, <1>3, <1>5 DEF LoopFits
  <1> QED
    BY <1>a, <1>b, <1>c

(* The loop over all intervals of one type.                                *)
LEMMA Coalescing ==
    ASSUME NEW type, type # "free", NEW ivs \in SUBSET IntervalOf(type), IsFiniteSet(ivs), ivs # {},
           \A iv \in ivs : iv.start < iv.end
    PROVE  /\ coalesced(ivs) \subseteq IntervalOf(type)
           /\ \A t \in Int : Covers(coalesced(ivs), t) <=> Covers(ivs, t)
           /\ \A a, b \in coalesced(ivs) : a # b => Apart(a, b)
  <1> DEFINE N == Cardinality(ivs)
             start == [left |-> ivs, result |-> {}, current |-> NoInterval]
             Step(f, n) == IF n = 0 THEN start ELSE turn(f[n - 1])
             Loops(f, n) == f = [i \in 0 .. n |-> Step(f, i)]
             after == CHOOSE f : f = [n \in 0 .. N |-> Step(f, n)]
  <1>1. N \in Nat /\ N # 0
    BY FS_CardinalityType, FS_EmptySet
  <1>2. coalesced(ivs) = after[N].result \cup {after[N].current}
    BY DEF coalesced
  \* the loop has as many turns as there are intervals
  <1>3. \A n \in 0 .. N : \E f : Loops(f, n)
    <2> DEFINE bad == {n \in 0 .. N : ~\E f : Loops(f, n)}
    <2>1. SUFFICES ASSUME bad # {} PROVE FALSE
      OBVIOUS
    <2>2. IsFiniteSet(bad) /\ bad \subseteq Int
      <3>1. IsFiniteSet(0 .. N) /\ bad \subseteq 0 .. N /\ 0 .. N \subseteq Int
        BY <1>1, FS_Interval
      <3> QED
        BY <3>1, FS_Subset
    <2>3. PICK n \in bad : \A k \in bad : n <= k
      BY <2>1, <2>2, LeastAndGreatest
    <2>4. n \in 0 .. N /\ ~\E f : Loops(f, n)
      OBVIOUS
    <2>5. CASE n = 0
      <3>1. Loops([i \in 0 .. 0 |-> start], 0)
        OBVIOUS
      <3> QED
        BY <3>1, <2>4, <2>5
    <2>6. CASE n # 0
      <3>0. n - 1 \in 0 .. N /\ ~(n <= n - 1)
        BY <2>4, <2>6, <1>1
      <3>1. n - 1 \notin bad
        <4> HIDE DEF bad
        <4> QED
          BY <2>3, <3>0
      <3>2. PICK g : Loops(g, n - 1)
        BY <3>0, <3>1
      <3> DEFINE f == [i \in 0 .. n |-> IF i = n THEN turn(g[n - 1]) ELSE g[i]]
      <3>3. \A i \in 0 .. n : f[i] = Step(f, i)
        <4> TAKE i \in 0 .. n
        <4>1. CASE i = n
          <5>1. n - 1 \in 0 .. n /\ n - 1 # n
            BY <2>4, <2>6, <1>1
          <5>2. f[n - 1] = g[n - 1]
            BY <5>1
          <5> QED
            BY <4>1, <5>2, <2>6
        <4>2. CASE i # n
          <5>1. i \in 0 .. (n - 1) /\ i - 1 \in Int /\ (i # 0 => i - 1 \in 0 .. n /\ i - 1 # n)
            BY <4>2, <2>4, <1>1
          <5>2. f[i] = g[i] /\ g[i] = Step(g, i)
            BY <5>1, <4>2, <3>2
          <5>3. i # 0 => f[i - 1] = g[i - 1]
            BY <5>1
          <5> QED
            BY <5>2, <5>3
        <4> QED
          BY <4>1, <4>2
      <3>4. Loops(f, n)
        BY <3>3
      <3> QED
        BY <3>4, <2>4
    <2> QED
      BY <2>5, <2>6
  <1>4. after = [n \in 0 .. N |-> Step(after, n)]
    <2>1. N \in 0 .. N
      BY <1>1
    <2>2. \E f : f = [n \in 0 .. N |-> Step(f, n)]
      BY <2>1, <1>3
    <2> QED
      BY <2>2
  <1> HIDE DEF after
  <1>5. after[0] = start /\ \A n \in 0 .. N : n # 0 => after[n] = turn(after[n - 1])
    <2>1. \A n \in 0 .. N : after[n] = Step(after, n)
      <3> HIDE DEF Step
      <3> QED
        BY <1>4
    <2>2. 0 \in 0 .. N
      BY <1>1
    <2> QED
      BY <2>1, <2>2
  <1> DEFINE fits(n) == /\ LoopFits(after[n], ivs, type) /\ Cardinality(after[n].left) = N - n
                        /\ n # 0 => after[n].current # NoInterval
  <1>6. fits(0)
    <2>1. /\ start.left = ivs /\ start.result = {} /\ start.current = NoInterval
          /\ start \in [left : SUBSET ivs, result : SUBSET IntervalOf(type), current : IntervalOf(type) \cup {NoInterval}]
      OBVIOUS
    <2>2. \A t \in Int : ~Covers(start.result \cup {start.current}, t) /\ ~Covers(ivs \ start.left, t)
      BY <2>1 DEF Covers, NoInterval
    <2>3. LoopFits(start, ivs, type)
      BY <2>1, <2>2 DEF LoopFits
    <2> QED
      BY <1>1, <1>5, <2>1, <2>3
  <1>7. ASSUME NEW n \in 0 .. N, n # 0, fits(n - 1) PROVE fits(n)
    <2>1. /\ after[n] = turn(after[n - 1]) /\ LoopFits(after[n - 1], ivs, type)
          /\ Cardinality(after[n - 1].left) = N - (n - 1) /\ N - (n - 1) # 0 /\ n \in Int
      BY <1>1, <1>5, <1>7
    <2>2. IsFiniteSet(after[n - 1].left) /\ after[n - 1].left # {}
      BY <2>1, FS_Subset, FS_EmptySet DEF LoopFits
    <2>3. /\ LoopFits(after[n], ivs, type) /\ after[n].current # NoInterval
          /\ \E iv \in after[n - 1].left : after[n].left = after[n - 1].left \ {iv}
      BY <2>1, <2>2, Turns
    <2>4. Cardinality(after[n].left) = Cardinality(after[n - 1].left) - 1
      <3>1. PICK iv \in after[n - 1].left : after[n].left = after[n - 1].left \ {iv}
        BY <2>3
      <3>2. PICK left : left = after[n - 1].left
        OBVIOUS
      <3>3. IsFiniteSet(left) /\ iv \in left /\ after[n].left = left \ {iv}
        BY <2>2, <3>1, <3>2
      <3>4. Cardinality(left \ {iv}) = Cardinality(left) - 1
        BY <3>3, FS_RemoveElement
      <3> QED
        BY <3>2, <3>3, <3>4
    <2> QED
      BY <2>1, <2>3, <2>4, <1>1
  <1>8. \A n \in 0 .. N : fits(n)
    <2> DEFINE bad == {n \in 0 .. N : ~fits(n)}
    <2>1. SUFFICES ASSUME bad # {} PROVE FALSE
      OBVIOUS
    <2>2. IsFiniteSet(bad) /\ bad \subseteq Int
      <3>1. IsFiniteSet(0 .. N) /\ bad \subseteq 0 .. N /\ 0 .. N \subseteq Int
        BY <1>1, FS_Interval
      <3> QED
        BY <3>1, FS_Subset
    <2>3. PICK n \in bad : \A k \in bad : n <= k
      BY <2>1, <2>2, LeastAndGreatest
    <2> HIDE DEF fits
    <2>4. n \in 0 .. N /\ ~fits(n) /\ n # 0
      BY <1>6
    <2>5. n - 1 \in 0 .. N /\ ~(n <= n - 1)
      BY <2>4, <1>1
    <2>6. n - 1 \notin bad
      <3> HIDE DEF bad
      <3> QED
        BY <2>3, <2>5
    <2> QED
      BY <2>4, <2>5, <2>6, <1>7
  <1>9. /\ LoopFits(after[N], ivs, type) /\ after[N].left = {}
        /\ after[N].current \in IntervalOf(type)
    <2>1. /\ LoopFits(after[N], ivs, type) /\ Cardinality(after[N].left) = 0
          /\ after[N].current # NoInterval
      BY <1>1, <1>8
    <2>2. IsFiniteSet(after[N].left) /\ after[N].left = {}
      BY <2>1, FS_Subset, FS_EmptySet DEF LoopFits
    <2> QED
      BY <2>1, <2>2 DEF LoopFits
  <1>a. \A b \in after[N].result : b.end < after[N].current.start
    BY <1>9 DEF LoopFits
  <1> QED
    BY <1>2, <1>9, <1>a DEF LoopFits, Apart

(* Clipping.                                                               *)
LEMMA Clips ==
    ASSUME NEW a \in Int, NEW b \in Int
    PROVE  /\ Max({a, b}) \in Int /\ \A t \in Int : Max({a, b}) <= t <=> a <= t /\ b <= t
           /\ Min({a, b}) \in Int /\ \A t \in Int : t < Min({a, b}) <=> t < a /\ t < b
  <1>1. IsFiniteSet({a, b})
    <2>1. IsFiniteSet({a} \cup {b})
      BY FS_Singleton, FS_AddElement
    <2>2. {a} \cup {b} = {a, b}
      OBVIOUS
    <2> QED
      BY <2>1, <2>2
  <1>2. PICK m \in {a, b} : m = Max({a, b}) /\ m >= a /\ m >= b
    BY <1>1, LeastAndGreatest DEF Max
  <1>3. PICK n \in {a, b} : n = Min({a, b}) /\ n <= a /\ n <= b
    BY <1>1, LeastAndGreatest DEF Min
  <1>4. Max({a, b}) = m /\ Min({a, b}) = n /\ m \in Int /\ n \in Int
    BY <1>2, <1>3
  <1>5. \A t \in Int : (m <= t <=> a <= t /\ b <= t) /\ (t < n <=> t < a /\ t < b)
    BY <1>2, <1>3, <1>4
  <1> QED
    BY <1>4, <1>5

(* What free/busy tells of any finite set of occurrences.                  *)
LEMMA FreeBusyTells ==
    ASSUME NEW os, IsFiniteSet(os), \A o \in os : o.start \in Int /\ o.end \in Int,
           NEW range \in TimeRange
    PROVE  LET told == freeBusy(os, range)
           IN  /\ \A t \in range.start .. (range.end - 1), type \in {"busy", "tentative"} :
                     (\E iv \in told : iv.type = type /\ iv.start <= t /\ t < iv.end)
                       <=> (\E o \in os : o.busy = type /\ o.start <= t /\ t < o.end)
               /\ \A a, b \in told : a # b /\ a.type = b.type => a.end < b.start \/ b.end < a.start
  <1> DEFINE cut == [o \in os |-> [start |-> Max({o.start, range.start}), end |-> Min({o.end, range.end}),
                                  type |-> o.busy]]
             ivs == {iv \in clipped(os, range) : iv.end > iv.start}
             told == freeBusy(os, range)
             group(type) == {iv \in ivs : iv.type = type}
  <1>1. range.start \in Int /\ range.end \in Int
    BY DEF TimeRange
  <1>2. clipped(os, range) = {cut[o] : o \in {p \in os : p.busy # "free"}}
    BY DEF clipped
  <1>3. IsFiniteSet(ivs)
    <2>1. {cut[o] : o \in {p \in os : p.busy # "free"}} \subseteq {cut[o] : o \in os}
      OBVIOUS
    <2>2. IsFiniteSet({cut[o] : o \in os})
      <3> HIDE DEF cut
      <3> QED
        BY Images
    <2>3. ivs \subseteq {cut[o] : o \in os}
      BY <1>2, <2>1
    <2> QED
      BY <2>2, <2>3, FS_Subset
  <1>4. \A o \in os : /\ cut[o].start \in Int /\ cut[o].end \in Int /\ cut[o].type = o.busy
                      /\ cut[o] \in [start : Int, end : Int, type : {o.busy}]
                      /\ \A t \in range.start .. (range.end - 1) :
                            cut[o].start <= t /\ t < cut[o].end <=> o.start <= t /\ t < o.end
    <2> TAKE o \in os
    <2>1. o.start \in Int /\ o.end \in Int
      OBVIOUS
    <2>2. /\ cut[o].start = Max({o.start, range.start}) /\ cut[o].end = Min({o.end, range.end})
          /\ cut[o].type = o.busy
          /\ cut[o] = [start |-> Max({o.start, range.start}), end |-> Min({o.end, range.end}), type |-> o.busy]
      OBVIOUS
    <2> HIDE DEF cut
    <2>3. /\ Max({o.start, range.start}) \in Int /\ Min({o.end, range.end}) \in Int
          /\ \A t \in Int : (Max({o.start, range.start}) <= t <=> o.start <= t /\ range.start <= t)
          /\ \A t \in Int : (t < Min({o.end, range.end}) <=> t < o.end /\ t < range.end)
      <3>1. PICK a \in Int : a = o.start
        BY <2>1
      <3>2. PICK b \in Int : b = range.start
        BY <1>1
      <3>3. PICK c \in Int : c = o.end
        BY <2>1
      <3>4. PICK d \in Int : d = range.end
        BY <1>1
      <3>5. Max({a, b}) \in Int /\ \A t \in Int : (Max({a, b}) <= t <=> a <= t /\ b <= t)
        BY Clips
      <3>6. Min({c, d}) \in Int /\ \A t \in Int : (t < Min({c, d}) <=> t < c /\ t < d)
        BY Clips
      <3> QED
        BY <3>1, <3>2, <3>3, <3>4, <3>5, <3>6
    <2>4. /\ cut[o].start \in Int /\ cut[o].end \in Int
          /\ cut[o] \in [start : Int, end : Int, type : {o.busy}]
      BY <2>2, <2>3
    <2>5. \A t \in range.start .. (range.end - 1) : t \in Int /\ range.start <= t /\ t < range.end
      BY <1>1
    <2>6. \A t \in range.start .. (range.end - 1) :
              cut[o].start <= t /\ t < cut[o].end <=> o.start <= t /\ t < o.end
      BY <2>2, <2>3, <2>5, Zenon
    <2> QED
      BY <2>2, <2>4, <2>6
  <1> HIDE DEF cut
  <1>5. \A iv \in ivs : /\ iv \in IntervalOf(iv.type) /\ iv.type # "free" /\ iv.start < iv.end
                        /\ iv.start \in Int /\ iv.end \in Int
    BY <1>2, <1>4 DEF IntervalOf
  <1>6. \A t \in range.start .. (range.end - 1), type \in {"busy", "tentative"} :
            Covers(group(type), t) <=> (\E o \in os : o.busy = type /\ o.start <= t /\ t < o.end)
    <2> TAKE t \in range.start .. (range.end - 1), type \in {"busy", "tentative"}
    <2>1. ASSUME Covers(group(type), t) PROVE \E o \in os : o.busy = type /\ o.start <= t /\ t < o.end
      <3>1. PICK iv \in ivs : iv.type = type /\ iv.start <= t /\ t < iv.end
        BY <2>1 DEF Covers
      <3>2. PICK o \in os : iv = cut[o]
        BY <1>2
      <3> QED
        BY <3>1, <3>2, <1>4
    <2>2. ASSUME NEW o \in os, o.busy = type, o.start <= t, t < o.end PROVE Covers(group(type), t)
      <3>1. /\ cut[o].start <= t /\ t < cut[o].end /\ cut[o].type = type
            /\ cut[o].start \in Int /\ cut[o].end \in Int /\ t \in Int
        BY <2>2, <1>4, <1>1
      <3>2. cut[o] \in ivs
        BY <2>2, <3>1, <1>2
      <3> QED
        BY <3>1, <3>2 DEF Covers
    <2> QED
      BY <2>1, <2>2
  <1>7. told = UNION {coalesced(group(type)) : type \in {iv.type : iv \in ivs}}
    BY DEF freeBusy, coalesceBusyIntervals
  <1> HIDE DEF ivs, told
  <1>8. ASSUME NEW type \in {iv.type : iv \in ivs}
        PROVE  /\ coalesced(group(type)) \subseteq IntervalOf(type)
               /\ \A t \in Int : Covers(coalesced(group(type)), t) <=> Covers(group(type), t)
               /\ \A a, b \in coalesced(group(type)) : a # b => Apart(a, b)
    <2>1. /\ group(type) \subseteq ivs /\ group(type) # {} /\ type # "free"
          /\ group(type) \in SUBSET IntervalOf(type)
          /\ \A iv \in group(type) : iv.start < iv.end
      BY <1>5
    <2>2. IsFiniteSet(group(type))
      BY <2>1, <1>3, FS_Subset
    <2> HIDE DEF group
    <2> QED
      BY <2>1, <2>2, Coalescing
  <1>9. \A b \in told : b.type \in {iv.type : iv \in ivs} /\ b \in coalesced(group(b.type))
    <2> SUFFICES ASSUME NEW type \in {iv.type : iv \in ivs}, NEW b \in coalesced(group(type))
                 PROVE  b.type = type
      BY <1>7
    <2> HIDE DEF group
    <2> QED
      BY <1>8 DEF IntervalOf
  <1>a. \A t \in range.start .. (range.end - 1), type \in {"busy", "tentative"} :
            (\E iv \in told : iv.type = type /\ iv.start <= t /\ t < iv.end) <=> Covers(group(type), t)
    <2> TAKE t \in range.start .. (range.end - 1), type \in {"busy", "tentative"}
    <2>1. t \in Int
      BY <1>1
    <2>2. ASSUME NEW iv \in told, iv.type = type, iv.start <= t, t < iv.end PROVE Covers(group(type), t)
      <3>1. type \in {x.type : x \in ivs} /\ iv \in coalesced(group(type))
        BY <2>2, <1>9
      <3>2. Covers(coalesced(group(type)), t)
        BY <2>2, <3>1 DEF Covers
      <3> QED
        BY <2>1, <3>1, <3>2, <1>8
    <2>3. ASSUME Covers(group(type), t) PROVE \E iv \in told : iv.type = type /\ iv.start <= t /\ t < iv.end
      <3>1. type \in {x.type : x \in ivs}
        BY <2>3 DEF Covers
      <3>2. Covers(coalesced(group(type)), t)
        BY <2>1, <2>3, <3>1, <1>8
      <3>3. PICK iv \in coalesced(group(type)) : iv.start <= t /\ t < iv.end
        BY <3>2 DEF Covers
      <3>4. iv.type = type
        BY <3>1, <3>3, <1>8 DEF IntervalOf
      <3> QED
        BY <3>1, <3>3, <3>4, <1>7
    <2> QED
      BY <2>2, <2>3
  <1>b. \A a, b \in told : a # b /\ a.type = b.type => a.end < b.start \/ b.end < a.start
    <2> SUFFICES ASSUME NEW a \in told, NEW b \in told, a # b, a.type = b.type PROVE Apart(a, b)
      BY DEF Apart
    <2>1. PICK type \in {iv.type : iv \in ivs} : a \in coalesced(group(type)) /\ b \in coalesced(group(type))
      BY <1>9
    <2> HIDE DEF group
    <2> QED
      BY <2>1, <1>8
  <1> QED
    BY <1>6, <1>a, <1>b DEF told

(* BusyTimeIsExact for every set of occurrences (busy-periods.ts): the      *)
(* merged intervals cover the instants of the busy occurrences and no      *)
(* other, and no two of one type meet.                                     *)
THEOREM BusyTimeIsTold == ObjectSpec => []BusyTimeIsExact
<1>1. EventFits => BusyTimeIsExact
  <2> SUFFICES ASSUME EventFits, event # NoEvent, NEW r \in Readers, NEW range \in Ranges
               PROVE  LET shown == queryOccurrences(event, occurrenceBounds(event), range, r)
                          told  == freeBusy(shown, range)
                      IN  /\ \A t \in range.start .. (range.end - 1), type \in {"busy", "tentative"} :
                                (\E iv \in told : iv.type = type /\ iv.start <= t /\ t < iv.end)
                                  <=> (\E o \in shown : o.busy = type /\ o.start <= t /\ t < o.end)
                          /\ \A a, b \in told : a # b /\ a.type = b.type => a.end < b.start \/ b.end < a.start
    BY DEF BusyTimeIsExact
  <2> DEFINE shown == queryOccurrences(event, occurrenceBounds(event), range, r)
  <2>1. event \in EventObject /\ IsFiniteSet(event.overrides) /\ r \in ReadingZone /\ range \in TimeRange
    BY InputsAssumption DEF EventFits, TimeRange
  <2>2. shown \subseteq expandRecurrenceSet(event, range, r)
    BY DEF queryOccurrences
  <2>3. IsFiniteSet(shown)
    BY <2>1, <2>2, FiniteExpansion, FS_Subset
  <2>4. \A o \in shown : o.start \in Int /\ o.end \in Int
    BY <2>1, <2>2, OccurrencesAreTimes
  <2> HIDE DEF shown
  <2> QED
    BY <2>1, <2>3, <2>4, FreeBusyTells DEF shown
<1> QED
  BY <1>1, EventsFit, PTL

-----------------------------------------------------------------------------
(* The pages of the cards: what rows and working copies look like.         *)

Days    == {day \in Int : day % DaySlots = 0}
Times   == 0 .. DaySlots - 1
DayTime == [day : Days, time : Times \cup {AllDay}]
RowDue  == DayTime \cup {NoDue}
AnyDue  == [day : Int, time : Int]
RowRule == [step : Nat, count : Nat, until : RowDue]
SheetRow == [of : {"task", "event"}, key : RowDue, due : RowDue, end : RowDue, recurrence : RowRule]

\* a row a list can have: an event has both its dates, timed or not
ListedRow ==
    {row \in SheetRow :
        row.of = "event" => /\ row.due \in DayTime /\ row.end \in DayTime
                            /\ row.due.time = AllDay <=> row.end.time = AllDay}

DraftFields ==
    [of : {"task", "event", "reminder"}, hasDate : BOOLEAN, day : Days \cup {Cleared},
     hasTime : BOOLEAN, time : Times, hasEnd : BOOLEAN,
     endDay : Days \cup {Cleared, NoDay}, endTime : Times \cup {AllDay},
     preset : Presets \cup {Never, Custom}, end : {"none", "until", "count"},
     until : Days \cup {Cleared, NoDay}]

\* of the working copies only that of a task has no end
SheetDraft == {d \in DraftFields : d.of # "task" => d.endDay # NoDay /\ d.endTime # AllDay}

SheetPage == [row : SheetRow, opened : SheetRow, draft : SheetDraft,
              mode : {"view", "detail", "create"}, gestures : Int, writes : Int]

\* an open page edits a row of the list, of its own kind, or a new one
PageFits(p) ==
    /\ p \in SheetPage
    /\ p.mode # "create" => p.row \in ListedRow /\ p.row.of = p.draft.of

SheetFits ==
    /\ TodoFits /\ EventFits
    /\ listed \subseteq ListedRow
    /\ page = NoPage \/ PageFits(page)

LEMMA Slots ==
    /\ DaySlots \in Int /\ DaySlots > 2
    /\ Days \subseteq Int /\ NoDay \notin Days /\ Cleared \notin Days
    /\ Times \subseteq Int /\ AllDay \notin Times
    /\ NoDue \notin DayTime /\ RowDue \subseteq AnyDue
    /\ Today \in Days /\ Nine \in Times /\ Nine + 1 \in Times
  <1>1. PICK n \in Nat : n = DaySlots /\ n > 2
    BY TimeAssumption, SheetAssumption
  <1>2. (-1) % n = n - 1 /\ (-2) % n = n - 2
    BY <1>1
  <1>3. NoDay \notin Days /\ Cleared \notin Days /\ Days \subseteq Int /\ Times \subseteq Int /\ AllDay \notin Times
    BY <1>1, <1>2 DEF Days, Times, NoDay, Cleared, AllDay
  <1>4. n \div 2 \in Int /\ 0 <= n \div 2 /\ n \div 2 + 1 < n
    BY <1>1
  <1>5. Nine \in Times /\ Nine + 1 \in Times
    BY <1>1, <1>4 DEF Nine, Times
  <1>6. NoDue \notin DayTime /\ RowDue \subseteq AnyDue
    <2>1. NoDue.day = NoDay /\ (\A due \in DayTime : due.day \in Days)
      BY DEF NoDue, DayTime
    <2>2. DayTime \subseteq AnyDue
      <3>1. Times \cup {AllDay} \subseteq Int
        BY <1>3 DEF AllDay
      <3> QED
        BY <1>3, <3>1 DEF DayTime, AnyDue
    <2>3. NoDue \in AnyDue
      BY DEF NoDue, AnyDue, AllDay, NoDay
    <2> QED
      BY <1>3, <2>1, <2>2, <2>3 DEF RowDue
  <1> QED
    BY <1>1, <1>3, <1>5, <1>6, SheetAssumption DEF Days

LEMMA Multiples ==
    /\ \A k \in Int : k * DaySlots \in Days
    /\ \A day \in Days : \E k \in Int : day = k * DaySlots
  <1>1. PICK n \in Nat : n = DaySlots /\ n > 2
    BY TimeAssumption, SheetAssumption
  <1>2. \A k \in Int : k * n \in Int /\ (k * n) % n = 0
    BY <1>1
  <1>3. ASSUME NEW day \in Int, day % n = 0
        PROVE  \E k \in Int : day = k * n
    <2>1. PICK k \in Int : k = day \div n
      BY <1>1
    <2>2. day = n * (day \div n) + (day % n)
      BY <1>1
    <2>3. day = k * n
      BY <1>1, <1>3, <2>1, <2>2
    <2> QED
      BY <2>3
  <1> QED
    BY <1>1, <1>2, <1>3 DEF Days

LEMMA DaysOf ==
    ASSUME NEW at \in Int
    PROVE  Day(at) \in Days /\ at % DaySlots \in Times
  <1>1. PICK n \in Nat : n = DaySlots /\ n > 2
    BY TimeAssumption, SheetAssumption
  <1>2. PICK r \in Int : r = at % n /\ 0 <= r /\ r < n
    BY <1>1
  <1>3. at - r \in Int /\ (at - r) % n = 0
    BY <1>1, <1>2
  <1> QED
    BY <1>1, <1>2, <1>3 DEF Day, Days, Times

LEMMA WallClockOf ==
    ASSUME NEW u \in Int, NEW z \in ReadingZone
    PROVE  epochToLocalFields(u, z) \in Int
  BY Offsets DEF epochToLocalFields

LEMMA Walls ==
    ASSUME NEW v \in Value
    PROVE  wallOf(v) \in Int
  <1>1. Device \in ReadingZone
    BY SheetAssumption DEF ReadingZone
  <1>2. instantOf(v, Device) \in Int /\ zoneOf(v, Device) \in ReadingZone /\ v.at \in Int
    BY <1>1, Instants DEF Value
  <1> QED
    BY <1>2, WallClockOf DEF wallOf

LEMMA FormattedDues ==
    ASSUME NEW due \in Value \cup {None}
    PROVE  IF due = None THEN formatDue(due) = NoDue ELSE formatDue(due) \in DayTime
  <1>1. CASE due = None
    BY <1>1 DEF formatDue
  <1>2. CASE due # None
    <2>1. wallOf(due) \in Int
      BY <1>2, Walls
    <2>2. Day(wallOf(due)) \in Days /\ wallOf(due) % DaySlots \in Times
      BY <2>1, DaysOf
    <2> QED
      BY <1>2, <2>2 DEF formatDue, DayTime
  <1> QED
    BY <1>1, <1>2

LEMMA FormattedRules ==
    ASSUME NEW rule \in Rule0
    PROVE  formatRecurrence(rule) \in RowRule
  <1>1. rule.until \in Value \cup {None} /\ rule \in [step : Nat, count : Nat, until : Value \cup {None}]
    BY DEF Rule0, RRule, NoRule
  <1>2. formatRecurUntilForDto(rule.until) \in RowDue
    BY <1>1, FormattedDues DEF formatRecurUntilForDto, RowDue
  <1> QED
    BY <1>1, <1>2 DEF formatRecurrence, RowRule

LEMMA TaskRows ==
    ASSUME NEW t, t = NoTodo \/ t \in Task
    PROVE  taskFromVTodo(t) \subseteq ListedRow
  <1> SUFFICES ASSUME t \in Task
               PROVE  Row("task", NoDue, formatDue(t.due), NoDue, t.rule) \in ListedRow
    BY DEF taskFromVTodo
  <1>1. NoDue \in RowDue
    BY DEF RowDue
  <1>2. formatRecurrence(t.rule) \in RowRule
    BY FormattedRules DEF Task, Rule0
  <1>3. formatDue(t.due) \in RowDue
    BY FormattedDues DEF Task, RowDue
  <1> QED
    BY <1>1, <1>2, <1>3 DEF Row, ListedRow, SheetRow

LEMMA FormattedInstants ==
    ASSUME NEW u \in Int, NEW timed \in BOOLEAN
    PROVE  LET due == formatLocal(u, timed)
           IN  due \in DayTime /\ (due.time = AllDay <=> ~timed)
  <1>1. PICK w \in Int : w = epochToLocalFields(u, Device)
    BY WallClockOf, SheetAssumption DEF ReadingZone
  <1>2. Day(w) \in Days /\ w % DaySlots \in Times /\ w % DaySlots # AllDay
    BY DaysOf, Slots
  <1>3. formatLocal(u, timed) = [day |-> Day(w), time |-> IF timed THEN w % DaySlots ELSE AllDay]
    BY <1>1 DEF formatLocal
  <1> QED
    BY <1>2, <1>3 DEF DayTime

LEMMA EventRows ==
    ASSUME NEW e, e = NoEvent \/ e \in EventObject
    PROVE  eventRows(e) \subseteq ListedRow
  <1> SUFFICES ASSUME e \in EventObject, NEW o \in listOccurrencesAcrossOwner(e)
               PROVE  eventFromOccurrence(e, o) \in ListedRow
    BY DEF eventRows
  <1>1. o.start \in Int /\ o.end \in Int
    <2>1. SheetWindow \in TimeRange /\ Device \in ReadingZone
      BY WindowAssumption, SheetAssumption DEF TimeRange, ReadingZone
    <2>2. o \in expandRecurrenceSet(e, SheetWindow, Device)
      BY DEF listOccurrencesAcrossOwner, expandOwnerOccurrences
    <2> QED
      BY <2>1, <2>2, OccurrencesAreTimes
  <1> DEFINE timed    == isDateTime(originalStart(e, o))
             override == isRecurring(e) /\ \E x \in e.overrides : instantOf(x.rid, Device) = o.rid
             start == formatLocal(o.start, timed)
             end   == formatLocal(o.end, timed)
             key   == IF isRecurring(e) THEN start ELSE NoDue
             rule  == IF override THEN NoRule ELSE e.rule
  <1>2. timed \in BOOLEAN
    BY DEF isDateTime
  <1>3. rule \in Rule0
    BY DEF EventObject, Rule0
  <1>4. eventFromOccurrence(e, o) = Row("event", key, start, end, rule)
    BY DEF eventFromOccurrence
  <1> HIDE DEF timed, rule
  <1>5. /\ start \in DayTime /\ end \in DayTime
        /\ start.time = AllDay <=> end.time = AllDay
    BY <1>1, <1>2, FormattedInstants
  <1>6. key \in RowDue /\ start \in RowDue /\ end \in RowDue
    BY <1>5 DEF RowDue
  <1> HIDE DEF start, end, key
  <1> QED
    BY <1>3, <1>4, <1>5, <1>6, FormattedRules DEF Row, ListedRow, SheetRow

LEMMA RowsFit == TodoFits /\ EventFits => rowsOf(event, todo) \subseteq ListedRow
  BY TaskRows, EventRows DEF TodoFits, EventFits, rowsOf

(* Working copies and what they send.                                      *)
LEMMA SheetDrafts ==
    ASSUME NEW row \in SheetRow
    PROVE  /\ makeSheetDraft(row) \in DraftFields /\ makeSheetDraft(row).of = row.of
           /\ row.of = "task" => makeSheetDraft(row) \in SheetDraft
           /\ dueOf(makeSheetDraft(row)) = row.due
           /\ ~repeatsAnew(row, makeSheetDraft(row))
  <1> DEFINE rec == row.recurrence
             day == IF row.due # NoDue THEN row.due.day ELSE Today
             time == IF row.due.time # AllDay THEN row.due.time ELSE Nine
  <1>1. rec \in RowRule /\ row.due \in RowDue
    BY DEF SheetRow
  <1>2. day \in Days \cup {Cleared} /\ time \in Times
    BY <1>1, Slots DEF RowDue, DayTime, NoDue
  <1>3. recurrenceToPreset(rec) \in Presets \cup {Never, Custom}
    BY DEF recurrenceToPreset
  <1>4. endOf(rec) \in {"none", "until", "count"}
    BY DEF endOf
  <1>5. untilDay(rec) \in Days \cup {NoDay}
    BY <1>1 DEF untilDay, RowRule, RowDue, DayTime, NoDue
  <1>6. makeSheetDraft(row) =
          [of |-> row.of, hasDate |-> row.due # NoDue, day |-> day, hasTime |-> row.due.time # AllDay,
           time |-> time, hasEnd |-> FALSE, endDay |-> NoDay, endTime |-> AllDay,
           preset |-> recurrenceToPreset(rec), end |-> endOf(rec), until |-> untilDay(rec)]
    BY DEF makeSheetDraft
  <1> HIDE DEF rec, day, time
  <1>7. makeSheetDraft(row) \in DraftFields /\ makeSheetDraft(row).of = row.of
    BY <1>2, <1>3, <1>4, <1>5, <1>6 DEF DraftFields, SheetRow
  <1>8. ~repeatsAnew(row, makeSheetDraft(row))
    BY <1>6 DEF repeatsAnew, rec
  <1>9. dueOf(makeSheetDraft(row)) = row.due
    <2> DEFINE d == makeSheetDraft(row)
    <2>3. /\ d.hasDate = (row.due # NoDue) /\ d.day = day
          /\ d.hasTime = (row.due.time # AllDay) /\ d.time = time
      BY DEF makeSheetDraft, day, time
    <2> HIDE DEF d
    <2>1. CASE row.due = NoDue
      BY <2>1, <2>3 DEF dueOf, d
    <2>2. CASE row.due # NoDue
      <3>1. day = row.due.day /\ (row.due.time # AllDay => time = row.due.time)
        BY <2>2 DEF day, time
      <3>2. dueOf(d) = [day |-> row.due.day, time |-> row.due.time]
        BY <2>2, <2>3, <3>1 DEF dueOf
      <3> QED
        BY <1>1, <2>2, <3>2 DEF RowDue, DayTime, d
    <2> QED
      BY <2>1, <2>2
  <1> QED
    BY <1>7, <1>8, <1>9 DEF SheetDraft

LEMMA EventDrafts ==
    ASSUME NEW row \in SheetRow, row.due \in DayTime
    PROVE  /\ makeEventDraft(row) \in SheetDraft /\ makeEventDraft(row).of = row.of
           /\ ~repeatsAnew(row, makeEventDraft(row))
           /\ draftStart(makeEventDraft(row)) = row.due
           /\ row.end = NoDue \/ (row.due.time = AllDay <=> row.end.time = AllDay)
                => draftEnd(makeEventDraft(row)) = row.end
  <1> DEFINE d == makeSheetDraft(row)
             hasEnd == row.end # NoDue
             endDay == IF row.end # NoDue THEN row.end.day ELSE row.due.day
             endTime == IF row.end.time # AllDay THEN row.end.time ELSE Nine + 1
  <1>1. row.due \in RowDue /\ row.end \in RowDue /\ row.due # NoDue
    BY Slots DEF SheetRow
  <1>2. d \in DraftFields /\ d.of = row.of /\ dueOf(d) = row.due /\ ~repeatsAnew(row, d)
    BY <1>1, SheetDrafts
  <1>3. /\ hasEnd \in BOOLEAN /\ endDay \in Days /\ endTime \in Times
    BY <1>1, Slots DEF RowDue, DayTime, NoDue
  <1>4. d.hasTime = (row.due.time # AllDay) /\ d.hasDate = TRUE
    BY <1>1 DEF makeSheetDraft
  <1>5. makeEventDraft(row) = [d EXCEPT !.hasEnd = hasEnd, !.endDay = endDay, !.endTime = endTime]
    BY DEF makeEventDraft
  <1> HIDE DEF d, hasEnd, endDay, endTime
  <1>6. /\ makeEventDraft(row) \in DraftFields
        /\ makeEventDraft(row).of = d.of /\ makeEventDraft(row).day = d.day
        /\ makeEventDraft(row).hasTime = d.hasTime /\ makeEventDraft(row).time = d.time
        /\ makeEventDraft(row).preset = d.preset /\ makeEventDraft(row).end = d.end
        /\ makeEventDraft(row).until = d.until
        /\ makeEventDraft(row).hasEnd = hasEnd /\ makeEventDraft(row).endDay = endDay
        /\ makeEventDraft(row).endTime = endTime
    BY <1>2, <1>3, <1>5 DEF DraftFields
  <1>7. ~repeatsAnew(row, makeEventDraft(row))
    BY <1>2, <1>6 DEF repeatsAnew
  <1>8. draftStart(makeEventDraft(row)) = row.due
    BY <1>2, <1>4, <1>6 DEF draftStart, dueOf
  <1>9. ASSUME row.end = NoDue \/ (row.due.time = AllDay <=> row.end.time = AllDay)
        PROVE  draftEnd(makeEventDraft(row)) = row.end
    <2>1. CASE row.end = NoDue
      BY <1>6, <2>1 DEF draftEnd, hasEnd
    <2>2. CASE row.end # NoDue
      BY <1>1, <1>4, <1>6, <1>9, <2>2 DEF draftEnd, hasEnd, endDay, endTime, RowDue, DayTime
    <2> QED
      BY <2>1, <2>2
  <1>10. makeEventDraft(row) \in SheetDraft
    BY <1>3, <1>6, Slots DEF SheetDraft
  <1> QED
    BY <1>2, <1>6, <1>7, <1>8, <1>9, <1>10

\* what a working copy is due at, starts at and ends at
LEMMA DraftDates ==
    ASSUME NEW d \in SheetDraft
    PROVE  /\ dueOf(d) \in AnyDue /\ draftStart(d) \in AnyDue /\ draftEnd(d) \in AnyDue
           /\ d.hasDate => dueOf(d).day = d.day
           /\ draftStart(d).day = d.day /\ d.day # NoDay
           /\ [day |-> d.day, time |-> d.time] \in AnyDue
  <1>1. /\ d.day \in Int /\ d.endDay \in Int /\ d.time \in Int /\ d.endTime \in Int
        /\ AllDay \in Int /\ NoDay \in Int /\ d.day # NoDay
    <2>1. /\ d.day \in Days \cup {Cleared} /\ d.endDay \in Days \cup {Cleared, NoDay}
          /\ d.time \in Times /\ d.endTime \in Times \cup {AllDay}
      BY DEF SheetDraft, DraftFields
    <2>2. Cleared \in Int /\ NoDay \in Int /\ AllDay \in Int /\ Cleared # NoDay
      BY DEF Cleared, NoDay, AllDay
    <2>3. Days \subseteq Int /\ Times \subseteq Int /\ NoDay \notin Days
      BY Slots
    <2> QED
      BY <2>1, <2>2, <2>3
  <1> QED
    BY <1>1 DEF dueOf, draftStart, draftEnd, AnyDue, NoDue

LEMMA DueValues ==
    ASSUME NEW due \in AnyDue
    PROVE  /\ dueValue(due) \in ToolDate \cup {None}
           /\ due.day # NoDay => dueValue(due) \in ToolDate
  <1>1. due # NoDue => dueValue(due) \in ToolDate
    BY SheetAssumption DEF dueValue, ToolDate, AnyDue
  <1>2. due = NoDue => dueValue(due) = None
    BY DEF dueValue
  <1> QED
    BY <1>1, <1>2 DEF NoDue

LEMMA SentRules ==
    ASSUME NEW d \in SheetDraft, d.preset \in Presets
    PROVE  presetToArgs(d) \in ToolRule
  <1>1. d.preset \in Nat \ {0}
    BY SheetAssumption
  <1>2. d.until \in Int /\ NoDay \in Int
    <2>1. d.until \in Days \cup {Cleared, NoDay}
      BY DEF SheetDraft, DraftFields
    <2>2. Cleared \in Int /\ NoDay \in Int
      BY DEF Cleared, NoDay
    <2>3. Days \subseteq Int
      BY Slots
    <2> QED
      BY <2>1, <2>2, <2>3
  <1> QED
    BY <1>1, <1>2 DEF presetToArgs, ToolRule

LEMMA SetRules == ASSUME NEW r \in ToolRule PROVE SetRule(r) \in RulePatch
  BY DEF SetRule, RulePatch

LEMMA TaskPatches ==
    ASSUME NEW row \in SheetRow, NEW d \in SheetDraft
    PROVE  collectSheetChanges(row, d) \in TodoPatch
  <1>1. dueOf(d) \in AnyDue
    BY DraftDates
  <1>2. collectSheetChanges(row, d).due \in ToolDate \cup {Keep, None}
    BY <1>1, DueValues DEF collectSheetChanges
  <1>3. collectSheetChanges(row, d).rule \in RulePatch
    <2>1. d.preset \notin {Never, Custom} => SetRule(presetToArgs(d)) \in RulePatch
      BY SentRules, SetRules DEF SheetDraft, DraftFields
    <2> QED
      BY <2>1 DEF collectSheetChanges, RulePatch
  <1> QED
    BY <1>2, <1>3 DEF collectSheetChanges, TodoPatch

LEMMA NewTasks ==
    ASSUME NEW d \in SheetDraft
    PROVE  /\ LET new == collectCreateDetails(d)
              IN  createdTodo(new.due, new.rule) \in Task /\ ValidTodo(createdTodo(new.due, new.rule))
           /\ LET new == collectTodoCreateDetails(d)
              IN  createdTodo(new.due, new.rule) \in Task /\ ValidTodo(createdTodo(new.due, new.rule))
  <1>1. d.preset \notin {Never, Custom} => presetToArgs(d) \in ToolRule
    BY SentRules DEF SheetDraft, DraftFields
  <1>2. /\ dueOf(d) \in AnyDue
        /\ d.hasDate => dueOf(d).day # NoDay
        /\ [day |-> d.day, time |-> d.time] \in AnyDue /\ d.day # NoDay
    BY DraftDates
  <1>3. /\ collectCreateDetails(d).due \in ToolDate \cup {None}
        /\ collectCreateDetails(d).rule \in ToolRule \cup {NoRule}
        /\ collectCreateDetails(d).rule # NoRule => collectCreateDetails(d).due \in ToolDate
    BY <1>1, <1>2, DueValues DEF collectCreateDetails
  <1>4. /\ collectTodoCreateDetails(d).due \in ToolDate \cup {None}
        /\ collectTodoCreateDetails(d).rule \in ToolRule \cup {NoRule}
        /\ collectTodoCreateDetails(d).rule # NoRule => collectTodoCreateDetails(d).due \in ToolDate
    BY <1>1, <1>2, DueValues DEF collectTodoCreateDetails, newRule
  <1>5. None \notin ToolDate
    BY NoneIsNoValue, ToolDates
  <1> QED
    BY <1>3, <1>4, <1>5, CreatedTask

LEMMA EventPatches ==
    ASSUME NEW row \in SheetRow, NEW d \in SheetDraft
    PROVE  collectEventChanges(row, d) \in Patch
  <1>1. /\ draftStart(d) \in AnyDue /\ draftStart(d).day # NoDay /\ draftEnd(d) \in AnyDue
    BY DraftDates
  <1>2. d.preset \notin {Never, Custom} => SetRule(presetToArgs(d)) \in RulePatch
    BY SentRules, SetRules DEF SheetDraft, DraftFields
  <1>3. /\ collectEventChanges(row, d).start \in ToolDate \cup {Keep}
        /\ collectEventChanges(row, d).end \in ToolDate \cup {Keep, None}
        /\ collectEventChanges(row, d).rule \in RulePatch
    BY <1>1, <1>2, DueValues DEF collectEventChanges, RulePatch
  <1> QED
    BY <1>3 DEF collectEventChanges, Patch

LEMMA NewEvents ==
    ASSUME NEW d \in SheetDraft
    PROVE  LET new == collectEventDetails(d)
           IN  /\ created(new.start, new.end, new.rule) \in EventObject
               /\ created(new.start, new.end, new.rule).overrides = {}
  <1>1. /\ draftStart(d) \in AnyDue /\ draftStart(d).day # NoDay /\ draftEnd(d) \in AnyDue
    BY DraftDates
  <1>2. d.preset \notin {Never, Custom} => presetToArgs(d) \in ToolRule
    BY SentRules DEF SheetDraft, DraftFields
  <1>3. /\ collectEventDetails(d).start \in ToolDate
        /\ collectEventDetails(d).end \in ToolDate \cup {None}
        /\ collectEventDetails(d).rule \in ToolRule \cup {NoRule}
    BY <1>1, <1>2, DueValues DEF collectEventDetails, newRule
  <1> QED
    BY <1>3, CreatedEvent
(* Gestures keep a page a page.                                            *)
LEMMA TouchedPages ==
    ASSUME page \in SheetPage, NEW d \in SheetDraft
    PROVE  /\ Touched(d) \in SheetPage
           /\ Touched(d).row = page.row /\ Touched(d).mode = page.mode /\ Touched(d).draft = d
  <1> DEFINE gestures == page.gestures + 1
  <1>1. gestures \in Int
    BY DEF SheetPage
  <1>2. Touched(d) = [page EXCEPT !.draft = d, !.gestures = gestures]
    BY DEF Touched, SheetPage
  <1> HIDE DEF gestures
  <1> QED
    BY <1>1, <1>2 DEF SheetPage

LEMMA PagesStayOpen ==
    ASSUME SheetFits, UNCHANGED <<listed, event, todo>>, page' = NoPage \/ PageFits(page')
    PROVE  SheetFits'
  BY DEF SheetFits, PageFits, TodoFits, EventFits

LEMMA TypedPages ==
    ASSUME SheetFits, page # NoPage, UNCHANGED vars,
           NEW d \in SheetDraft, page.mode # "create" => d.of = page.draft.of, Typed(d)
    PROVE  SheetFits'
  <1>1. PageFits(page) /\ page' = Touched(d) /\ UNCHANGED <<listed, event, todo>>
    BY DEF SheetFits, Typed, vars, todoVars
  <1>2. /\ Touched(d) \in SheetPage /\ Touched(d).row = page.row
        /\ Touched(d).mode = page.mode /\ Touched(d).draft = d
    BY <1>1, TouchedPages DEF PageFits
  <1>3. PageFits(page')
    BY <1>1, <1>2 DEF PageFits
  <1> QED
    BY <1>1, <1>3, PagesStayOpen

LEMMA RenderedPages ==
    ASSUME SheetFits, page # NoPage, UNCHANGED vars,
           NEW next \in SheetPage,
           page.mode = "create" => next.mode = "create",
           page.mode # "create" => next.draft.of = page.row.of,
           Rendered(next)
    PROVE  SheetFits'
  <1> DEFINE rows == {r \in listed : r.of = page.row.of /\ r.key = page.row.key}
  <1>1. /\ page' = IF page.mode = "create" THEN next
                   ELSE IF rows = {} THEN NoPage
                   ELSE [next EXCEPT !.row = CHOOSE r \in rows : TRUE]
        /\ UNCHANGED <<listed, event, todo>>
    BY DEF Rendered, vars, todoVars
  <1>2. CASE page.mode = "create"
    BY <1>1, <1>2, PagesStayOpen DEF PageFits
  <1>3. CASE page.mode # "create" /\ rows = {}
    BY <1>1, <1>3, PagesStayOpen
  <1>4. CASE page.mode # "create" /\ rows # {}
    <2>1. PICK r \in rows : r = CHOOSE x \in rows : TRUE
      BY <1>4
    <2>2. r \in ListedRow /\ r \in SheetRow /\ r.of = page.row.of
      BY <2>1 DEF SheetFits, ListedRow
    <2>3. page' = [next EXCEPT !.row = r]
      BY <1>1, <1>4, <2>1
    <2>4. page' \in SheetPage /\ page'.row = r /\ page'.draft = next.draft
      BY <2>2, <2>3 DEF SheetPage
    <2> QED
      BY <1>1, <1>4, <2>2, <2>4, PagesStayOpen DEF PageFits
  <1> QED
    BY <1>2, <1>3, <1>4

LEMMA SwitchedPages ==
    ASSUME SheetFits, page # NoPage, UNCHANGED vars,
           NEW d \in SheetDraft, page.mode # "create" => d.of = page.draft.of, Switched(d)
    PROVE  SheetFits'
  <1>1. PageFits(page) /\ Rendered(Touched(d))
    BY DEF SheetFits, Switched
  <1>2. /\ Touched(d) \in SheetPage
        /\ Touched(d).mode = page.mode /\ Touched(d).draft = d
    BY <1>1, TouchedPages DEF PageFits
  <1>3. page.mode # "create" => Touched(d).draft.of = page.row.of
    BY <1>1, <1>2 DEF PageFits
  <1> QED
    BY <1>1, <1>2, <1>3, RenderedPages

LEMMA OpenedPages ==
    ASSUME SheetFits, UNCHANGED vars,
           NEW row \in SheetRow, NEW draft \in SheetDraft, NEW mode \in {"view", "detail", "create"},
           mode # "create" => row \in ListedRow /\ row.of = draft.of,
           Open(row, draft, mode)
    PROVE  SheetFits'
  <1> DEFINE p == [row |-> row, opened |-> row, draft |-> draft, mode |-> mode, gestures |-> 0, writes |-> 0]
  <1>1. page' = p /\ UNCHANGED <<listed, event, todo>>
    BY DEF Open, vars, todoVars
  <1>2. PageFits(p)
    BY DEF PageFits, SheetPage
  <1> QED
    BY <1>1, <1>2, PagesStayOpen

LEMMA NewRows ==
    /\ draftToItem \in SheetRow /\ draftToItem.of = "task"
    /\ eventDraftToItem \in SheetRow /\ eventDraftToItem.due \in DayTime
  <1>1. NoDue \in RowDue /\ [day |-> Today, time |-> AllDay] \in DayTime
    BY Slots DEF RowDue, DayTime
  <1>2. formatRecurrence(NoRule) \in RowRule
    BY FormattedRules DEF Rule0
  <1> QED
    BY <1>1, <1>2 DEF draftToItem, eventDraftToItem, Row, SheetRow, RowDue

LEMMA PagesOpen ==
    ASSUME SheetFits, UNCHANGED vars,
           OpenSheet \/ OpenCreateSheet \/ OpenViewSheet \/ OpenEvent \/ OpenCreatePage
    PROVE  SheetFits'
  <1>1. ASSUME NEW row \in listed
        PROVE  /\ row \in ListedRow /\ row \in SheetRow
               /\ row.of = "event" => row.due \in DayTime
    BY DEF SheetFits, ListedRow
  <1>2. CASE OpenSheet
    BY <1>1, <1>2, SheetDrafts, OpenedPages DEF OpenSheet
  <1>3. CASE OpenCreateSheet
    BY <1>3, NewRows, SheetDrafts, OpenedPages DEF OpenCreateSheet
  <1>4. CASE OpenViewSheet
    BY <1>1, <1>4, EventDrafts, OpenedPages DEF OpenViewSheet, eventsListed
  <1>5. CASE OpenEvent
    BY <1>1, <1>5, EventDrafts, OpenedPages DEF OpenEvent, eventsListed
  <1>6. CASE OpenCreatePage
    BY <1>6, NewRows, EventDrafts, OpenedPages DEF OpenCreatePage
  <1> QED
    BY <1>2, <1>3, <1>4, <1>5, <1>6

LEMMA Inputs ==
    /\ SheetDays \subseteq Days /\ SheetTimes \subseteq Times
    /\ NoDay \notin Days \cup {Cleared} /\ AllDay \notin Times
  BY SheetAssumption, Slots DEF Days, Times, Cleared, NoDay

LEMMA DatesAreEdited ==
    ASSUME SheetFits, UNCHANGED vars, SwitchDate \/ SwitchTime \/ PickDate \/ PickTime
    PROVE  SheetFits'
  <1>1. page # NoPage /\ page.draft \in SheetDraft
    BY DEF SwitchDate, SwitchTime, PickDate, PickTime, MayTouch, SheetFits, PageFits, SheetPage
  <1> DEFINE draft == page.draft
  <1>2. CASE SwitchDate
    <2> DEFINE on == ~draft.hasDate
               d == [draft EXCEPT !.hasDate = on, !.hasTime = (draft.of = "task" => on) /\ @]
    <2>1. Switched(d)
      BY <1>2 DEF SwitchDate
    <2>2. d \in SheetDraft /\ d.of = draft.of
      BY <1>1 DEF SheetDraft, DraftFields
    <2> QED
      BY <1>1, <2>1, <2>2, SwitchedPages
  <1>3. CASE SwitchTime
    <2> DEFINE d == [draft EXCEPT !.hasTime = ~@]
    <2>1. Switched(d)
      BY <1>3 DEF SwitchTime
    <2>2. d \in SheetDraft /\ d.of = draft.of
      BY <1>1 DEF SheetDraft, DraftFields
    <2> QED
      BY <1>1, <2>1, <2>2, SwitchedPages
  <1>4. CASE PickDate
    <2>1. PICK day \in SheetDays \cup {Cleared} : Typed([draft EXCEPT !.day = day])
      BY <1>4 DEF PickDate
    <2> DEFINE d == [draft EXCEPT !.day = day]
    <2>2. d \in SheetDraft /\ d.of = draft.of
      BY <1>1, Inputs DEF SheetDraft, DraftFields
    <2> QED
      BY <1>1, <2>1, <2>2, TypedPages
  <1>5. CASE PickTime
    <2>1. PICK time \in SheetTimes : Typed([draft EXCEPT !.time = time])
      BY <1>5 DEF PickTime
    <2> DEFINE d == [draft EXCEPT !.time = time]
    <2>2. d \in SheetDraft /\ d.of = draft.of
      BY <1>1, Inputs DEF SheetDraft, DraftFields
    <2> QED
      BY <1>1, <2>1, <2>2, TypedPages
  <1> QED
    BY <1>2, <1>3, <1>4, <1>5

LEMMA RepetitionsAreEdited ==
    ASSUME SheetFits, UNCHANGED vars,
           ToggleMenu \/ ChoosePreset \/ EndNever \/ EndOn \/ PickUntil
    PROVE  SheetFits'
  <1>1. page # NoPage /\ page.draft \in SheetDraft
    BY DEF ToggleMenu, ChoosePreset, EndNever, EndOn, PickUntil, Repeating, MayRepeat, MayTouch,
           SheetFits, PageFits, SheetPage
  <1> DEFINE draft == page.draft
  <1>2. CASE ToggleMenu
    BY <1>1, <1>2, SwitchedPages DEF ToggleMenu
  <1>3. CASE ChoosePreset
    <2>1. PICK p \in Presets \cup {Never} : Switched([draft EXCEPT !.preset = p])
      BY <1>3 DEF ChoosePreset
    <2>2. [draft EXCEPT !.preset = p] \in SheetDraft /\ [draft EXCEPT !.preset = p].of = draft.of
      BY <1>1 DEF SheetDraft, DraftFields
    <2> QED
      BY <1>1, <2>1, <2>2, SwitchedPages
  <1>4. CASE EndNever
    <2> DEFINE d == [draft EXCEPT !.end = "none"]
    <2>1. Switched(d)
      BY <1>4 DEF EndNever
    <2>2. d \in SheetDraft /\ d.of = draft.of
      BY <1>1 DEF SheetDraft, DraftFields
    <2> QED
      BY <1>1, <2>1, <2>2, SwitchedPages
  <1>5. CASE EndOn
    <2> DEFINE until == IF draft.until = NoDay THEN draft.day ELSE draft.until
               d == [draft EXCEPT !.end = "until", !.until = until]
    <2>1. Switched(d)
      BY <1>1, <1>5 DEF EndOn, SheetDraft, DraftFields
    <2>2. until \in Days \cup {Cleared, NoDay}
      BY <1>1 DEF SheetDraft, DraftFields
    <2> HIDE DEF until
    <2>3. d \in SheetDraft /\ d.of = draft.of
      BY <1>1, <2>2 DEF SheetDraft, DraftFields
    <2> QED
      BY <1>1, <2>1, <2>3, SwitchedPages
  <1>6. CASE PickUntil
    <2>1. PICK day \in SheetDays \cup {NoDay} : Typed([draft EXCEPT !.until = day])
      BY <1>6 DEF PickUntil
    <2>2. [draft EXCEPT !.until = day] \in SheetDraft /\ [draft EXCEPT !.until = day].of = draft.of
      BY <1>1, Inputs DEF SheetDraft, DraftFields
    <2> QED
      BY <1>1, <2>1, <2>2, TypedPages
  <1> QED
    BY <1>2, <1>3, <1>4, <1>5, <1>6

LEMMA LaterDayKeys ==
    ASSUME NEW day \in Days \cup {Cleared}
    PROVE  addDaysToDateKey(day, 1) \in Days
  <1>1. PICK k \in Int : (IF day = Cleared THEN Day1900 ELSE day) = k * DaySlots
    <2>1. CASE day = Cleared
      <3>1. PICK k \in Int : k = -25567
        OBVIOUS
      <3> QED
        BY <2>1, <3>1, Slots DEF Day1900
    <2>2. CASE day # Cleared
      BY <2>2, Multiples
    <2> QED
      BY <2>1, <2>2
  <1>2. k * DaySlots + 1 * DaySlots = (k + 1) * DaySlots /\ k + 1 \in Int
    BY Slots
  <1>3. (k + 1) * DaySlots \in Days
    BY <1>2, Multiples
  <1> QED
    BY <1>1, <1>2, <1>3 DEF addDaysToDateKey

LEMMA EventPagesAreEdited ==
    ASSUME SheetFits, UNCHANGED vars,
           EditViewed \/ ChooseForm \/ SwitchEnd \/ PickEndDate \/ PickEndTime
    PROVE  SheetFits'
  <1>1. page # NoPage /\ PageFits(page) /\ page \in SheetPage /\ page.draft \in SheetDraft
    BY DEF EditViewed, ChooseForm, SwitchEnd, PickEndDate, PickEndTime, EndsShown, MayTouch,
           SheetFits, PageFits, SheetPage
  <1> DEFINE draft == page.draft
  <1>2. CASE EditViewed
    <2> DEFINE next == [page EXCEPT !.mode = "detail"]
    <2>1. next \in SheetPage /\ next.draft = draft
      BY <1>1 DEF SheetPage
    <2>2. Rendered(next) /\ page.mode = "view"
      BY <1>2 DEF EditViewed
    <2>3. draft.of = page.row.of
      BY <1>1, <2>2 DEF PageFits
    <2> HIDE DEF next
    <2> QED
      BY <1>1, <2>1, <2>2, <2>3, RenderedPages
  <1>3. CASE ChooseForm
    <2> DEFINE of == IF draft.of = "event" THEN "reminder" ELSE "event"
               d == [draft EXCEPT !.of = of]
    <2>1. Switched(d) /\ page.mode = "create" /\ draft.of # "task"
      BY <1>1, <1>3 DEF ChooseForm, SheetDraft, DraftFields
    <2>2. d \in SheetDraft
      BY <1>1, <2>1 DEF SheetDraft, DraftFields
    <2> QED
      BY <1>1, <2>1, <2>2, SwitchedPages
  <1>4. CASE SwitchEnd
    <2> DEFINE e == [draft EXCEPT !.hasEnd = ~@]
               endDay == IF e.hasEnd /\ ~e.hasTime /\ notAfter(e.endDay, e.day)
                         THEN addDaysToDateKey(e.day, 1) ELSE e.endDay
               d == [e EXCEPT !.endDay = endDay]
    <2>1. e \in DraftFields /\ e \in SheetDraft /\ e.of = draft.of /\ draft.of = "event"
      BY <1>1, <1>4 DEF SwitchEnd, SheetDraft, DraftFields
    <2>2. Switched([e EXCEPT !.endDay =
              IF e.hasEnd /\ ~e.hasTime /\ notAfter(@, e.day) THEN addDaysToDateKey(e.day, 1) ELSE @])
      BY <1>4 DEF SwitchEnd
    <2> HIDE DEF e
    <2>3. Switched(d)
      BY <2>1, <2>2 DEF DraftFields
    <2>4. endDay \in Days \cup {Cleared}
      <3>1. e.day \in Days \cup {Cleared} /\ e.endDay \in Days \cup {Cleared}
        BY <2>1 DEF SheetDraft, DraftFields
      <3>2. addDaysToDateKey(e.day, 1) \in Days
        BY <3>1, LaterDayKeys
      <3> QED
        BY <3>1, <3>2
    <2> HIDE DEF endDay
    <2>5. d \in DraftFields /\ d.of = draft.of /\ d.endDay # NoDay /\ d.endTime = e.endTime
      BY <2>1, <2>4, Inputs DEF DraftFields
    <2>6. d \in SheetDraft
      BY <2>1, <2>5 DEF SheetDraft
    <2> QED
      BY <1>1, <2>3, <2>5, <2>6, SwitchedPages
  <1>5. CASE PickEndDate
    <2>1. PICK day \in SheetDays \cup {Cleared} : Typed([draft EXCEPT !.endDay = day])
      BY <1>5 DEF PickEndDate
    <2>2. [draft EXCEPT !.endDay = day] \in SheetDraft /\ [draft EXCEPT !.endDay = day].of = draft.of
      BY <1>1, Inputs DEF SheetDraft, DraftFields
    <2> QED
      BY <1>1, <2>1, <2>2, TypedPages
  <1>6. CASE PickEndTime
    <2>1. PICK time \in SheetTimes : Typed([draft EXCEPT !.endTime = time])
      BY <1>6 DEF PickEndTime
    <2>2. [draft EXCEPT !.endTime = time] \in SheetDraft /\ [draft EXCEPT !.endTime = time].of = draft.of
      BY <1>1, Inputs DEF SheetDraft, DraftFields
    <2> QED
      BY <1>1, <2>1, <2>2, TypedPages
  <1> QED
    BY <1>2, <1>3, <1>4, <1>5, <1>6

(* Closing a page stores what fits.                                        *)
LEMMA TasksAreSaved ==
    ASSUME SheetFits, UNCHANGED vars, Save \/ SaveNew \/ Back
    PROVE  SheetFits'
  <1>1. page # NoPage /\ page' = NoPage /\ page.row \in SheetRow /\ page.draft \in SheetDraft
    BY DEF Save, SaveNew, Back, Closing, SheetFits, PageFits, SheetPage
  <1>2. CASE UNCHANGED <<listed, todo>>
    BY <1>1, <1>2, PagesStayOpen DEF vars
  <1>3. ASSUME todo' \in Task, ValidTodo(todo'), listed' = taskFromVTodo(todo')
        PROVE  SheetFits'
    <2>1. taskFromVTodo(todo') \subseteq ListedRow
      BY <1>3, TaskRows
    <2> QED
      BY <1>1, <1>3, <2>1 DEF SheetFits, TodoFits, EventFits, vars
  <1>4. CASE Save /\ ~UNCHANGED <<listed, todo>>
    <2> DEFINE patch == collectSheetChanges(page.row, page.draft)
    <2>1. /\ updates(patch, todo) /\ todo' = updatedTodo(todo, patch)
          /\ listed' = taskFromVTodo(todo')
      BY <1>4 DEF Save, todoVars
    <2>2. patch \in TodoPatch /\ todo \in Task
      BY <1>1, <2>1, TaskPatches DEF updates, SheetFits, TodoFits
    <2> HIDE DEF patch
    <2>3. todo' \in Task /\ ValidTodo(todo')
      BY <2>1, <2>2, UpdatedTask DEF updates
    <2> QED
      BY <1>3, <2>1, <2>3
  <1>5. CASE SaveNew /\ ~UNCHANGED <<listed, todo>>
    <2> DEFINE new == collectCreateDetails(page.draft)
    <2>1. todo' = createdTodo(new.due, new.rule) /\ listed' = taskFromVTodo(todo')
      BY <1>5 DEF SaveNew, todoVars
    <2>2. todo' \in Task /\ ValidTodo(todo')
      BY <1>1, <2>1, NewTasks
    <2> QED
      BY <1>3, <2>1, <2>2
  <1>6. CASE Back
    BY <1>2, <1>6 DEF Back, todoVars
  <1> QED
    BY <1>2, <1>4, <1>5, <1>6

LEMMA EventsAreSaved ==
    ASSUME SheetFits, Discard \/ SaveEvent \/ SaveNewEvent \/ CreateTodoFor \/ CancelCreate
    PROVE  SheetFits'
  <1>1. page # NoPage /\ page' = NoPage /\ page.row \in SheetRow /\ page.draft \in SheetDraft
    BY DEF Discard, SaveEvent, SaveNewEvent, CreateTodoFor, CancelCreate, Closing, SheetFits, PageFits, SheetPage
  <1>2. CASE UNCHANGED <<listed, event, todo>>
    BY <1>1, <1>2, PagesStayOpen
  <1>3. ASSUME event' \in EventObject, Valid(event'), IsFiniteSet(event'.overrides), todo' = todo,
               listed' = rowsOf(event', todo)
        PROVE  SheetFits'
    <2>1. TodoFits' /\ EventFits'
      BY <1>3 DEF SheetFits, TodoFits, EventFits
    <2>2. rowsOf(event', todo) \subseteq ListedRow
      BY <1>3, TaskRows, EventRows DEF SheetFits, TodoFits, rowsOf
    <2> QED
      BY <1>1, <1>3, <2>1, <2>2 DEF SheetFits
  <1>4. CASE Discard \/ CancelCreate
    BY <1>2, <1>4 DEF Discard, CancelCreate, todoVars, vars
  <1>5. CASE SaveEvent /\ ~UNCHANGED <<listed, event, todo>>
    <2> DEFINE patch == collectEventChanges(page.row, page.draft)
    <2>1. /\ event # NoEvent /\ acceptsUpdate(event, patch) /\ Valid(updated(event, patch))
          /\ event' = updated(event, patch) /\ listed' = rowsOf(event', todo) /\ todo' = todo
      BY <1>5 DEF SaveEvent, todoVars, vars
    <2>2. patch \in Patch /\ event \in EventObject /\ validateTzidReferences(event) /\ IsFiniteSet(event.overrides)
      BY <1>1, <2>1, EventPatches DEF SheetFits, EventFits, Valid
    <2> HIDE DEF patch
    <2>3. event' \in EventObject /\ IsFiniteSet(event'.overrides)
      BY <2>1, <2>2, UpdatedEvent, FS_EmptySet
    <2> QED
      BY <1>3, <2>1, <2>3
  <1>6. CASE SaveNewEvent /\ ~UNCHANGED <<listed, event, todo>>
    <2> DEFINE new == collectEventDetails(page.draft)
    <2>1. /\ Valid(created(new.start, new.end, new.rule))
          /\ event' = created(new.start, new.end, new.rule) /\ listed' = rowsOf(event', todo) /\ todo' = todo
      BY <1>6 DEF SaveNewEvent, todoVars, vars
    <2>2. event' \in EventObject /\ event'.overrides = {}
      BY <1>1, <2>1, NewEvents
    <2> HIDE DEF new
    <2> QED
      BY <1>3, <2>1, <2>2, FS_EmptySet
  <1>7. CASE CreateTodoFor /\ ~UNCHANGED <<listed, event, todo>>
    <2> DEFINE new == collectTodoCreateDetails(page.draft)
    <2>1. todo' = createdTodo(new.due, new.rule) /\ UNCHANGED <<listed, event>>
      BY <1>7 DEF CreateTodoFor, todoVars, vars
    <2>2. todo' \in Task /\ ValidTodo(todo')
      BY <1>1, <2>1, NewTasks
    <2> QED
      BY <1>1, <2>1, <2>2 DEF SheetFits, TodoFits, EventFits
  <1> QED
    BY <1>2, <1>4, <1>5, <1>6, <1>7

LEMMA OthersWrite ==
    ASSUME SheetFits, Elsewhere
    PROVE  SheetFits' /\ (page # NoPage => page' # NoPage)
  <1>1. TodoFits' /\ EventFits'
    BY TodosStayFit, EventsStayFit DEF SheetFits, Elsewhere
  <1>2. CASE page = NoPage
    BY <1>1, <1>2 DEF SheetFits, Elsewhere
  <1>3. CASE page # NoPage
    <2>1. PageFits(page) /\ page' = [page EXCEPT !.writes = @ + 1] /\ listed' = listed
      BY <1>3 DEF SheetFits, Elsewhere
    <2>2. /\ page' \in SheetPage /\ page'.row = page.row /\ page'.mode = page.mode
          /\ page'.draft = page.draft
      BY <2>1 DEF PageFits, SheetPage
    <2>3. page' # NoPage
      BY <2>2 DEF SheetPage, NoPage
    <2>4. PageFits(page')
      BY <2>1, <2>2 DEF PageFits
    <2> QED
      BY <1>1, <1>3, <2>1, <2>3, <2>4 DEF SheetFits, PageFits
  <1> QED
    BY <1>2, <1>3

LEMMA SheetSteps ==
    ASSUME SheetFits, [SheetNext]_<<sheetVars, todoVars, vars>>
    PROVE  SheetFits'
  <1>1. CASE UNCHANGED <<sheetVars, todoVars, vars>>
    BY <1>1 DEF SheetFits, PageFits, TodoFits, EventFits, sheetVars, todoVars, vars
  <1>2. CASE TaskSheetNext /\ UNCHANGED vars
    BY <1>2, PagesOpen, DatesAreEdited, RepetitionsAreEdited, TasksAreSaved DEF TaskSheetNext
  <1>3. CASE EventSheetNext
    BY <1>3, PagesOpen, EventPagesAreEdited, EventsAreSaved DEF EventSheetNext
  <1>4. CASE Refresh
    BY <1>4, RowsFit DEF Refresh, SheetFits, PageFits, TodoFits, EventFits, todoVars, vars
  <1>5. CASE Elsewhere
    BY <1>5, OthersWrite
  <1> QED
    BY <1>1, <1>2, <1>3, <1>4, <1>5 DEF SheetNext

(* SheetsFit: whatever users, clients and tools do, the cards list rows    *)
(* that mean something, and an open page edits one of its own kind.        *)
THEOREM SheetsFit == SheetSpec => []SheetFits
<1>1. SheetInit => SheetFits
  BY DEF SheetInit, ObjectInit, Init, TodoInit, SheetFits, TodoFits, EventFits
<1>2. SheetFits /\ [SheetNext]_<<sheetVars, todoVars, vars>> => SheetFits'
  BY SheetSteps
<1> QED
  BY <1>1, <1>2, PTL DEF SheetSpec

(* An existing object changes with the page that closes only where the     *)
(* page is saved.                                                          *)
LEMMA OnlySaving ==
    ASSUME SheetFits, [SheetNext]_<<sheetVars, todoVars, vars>>,
           page # NoPage, page.mode = "detail", page' = NoPage
    PROVE  /\ todo' # todo => Save /\ UNCHANGED vars
           /\ event' # event => SaveEvent
  <1>1. CASE UNCHANGED <<sheetVars, todoVars, vars>>
    BY <1>1 DEF todoVars, vars
  <1>2. CASE TaskSheetNext /\ UNCHANGED vars
    BY <1>2 DEF TaskSheetNext, OpenSheet, OpenCreateSheet, Open, SwitchDate, SwitchTime, PickDate, PickTime,
                ToggleMenu, ChoosePreset, EndNever, EndOn, PickUntil, SaveNew, Back, Closing,
                Switched, Rendered, Typed, todoVars, vars
  <1>3. CASE EventSheetNext
    BY <1>3 DEF EventSheetNext, OpenViewSheet, OpenEvent, OpenCreatePage, Open, EditViewed, ChooseForm,
                SwitchEnd, PickEndDate, PickEndTime, Discard, SaveEvent, SaveNewEvent, CreateTodoFor,
                CancelCreate, Closing, Switched, Rendered, Typed, todoVars, vars
  <1>4. CASE Refresh
    BY <1>4 DEF Refresh, todoVars, vars
  <1>5. CASE Elsewhere
    BY <1>5, OthersWrite
  <1> QED
    BY <1>1, <1>2, <1>3, <1>4, <1>5 DEF SheetNext

\* what update-todo writes of a patch that keeps the status
LEMMA SavedFields ==
    ASSUME NEW t \in Task, NEW patch \in TodoPatch, acceptsTodoUpdate(t, patch), patch.status = "keep"
    PROVE  /\ updatedTodo(t, patch).start = IF patch.due = Keep THEN t.start ELSE patch.due
           /\ updatedTodo(t, patch).due = IF patch.due = Keep THEN t.due ELSE patch.due
           /\ updatedTodo(t, patch).rule = IF patch.due \in {Keep, None} THEN NewRule(t, patch)
                                           ELSE followUntilValueType(NewRule(t, patch), patch.due)
  <1> DEFINE start == IF patch.due = Keep THEN t.start ELSE patch.due
             due   == IF patch.due = Keep THEN t.due ELSE patch.due
             rule  == IF patch.due \in {Keep, None} THEN NewRule(t, patch)
                      ELSE followUntilValueType(NewRule(t, patch), patch.due)
  <1>1. patchedTodo(t, patch) = [t EXCEPT !.start = start, !.due = due, !.rule = rule,
                                          !.alarms = patchAlarms(t, patch)]
    BY Patching
  <1> HIDE DEF start, due, rule
  <1>2. /\ patchedTodo(t, patch).start = start /\ patchedTodo(t, patch).due = due
        /\ patchedTodo(t, patch).rule = rule
    BY <1>1 DEF Task
  <1> QED
    BY <1>2, UpdatedTask DEF start, due, rule

LEMMA SavedTasks ==
    ASSUME SheetFits, Save
    PROVE  UntouchedStays
  <1> SUFFICES ASSUME page.row = page.opened, todo' # todo
               PROVE  LET first    == makeSheetDraft(page.row)
                          sameDate == Same(first, {"hasDate", "day", "hasTime", "time"})
                      IN  /\ sameDate => todo'.due = todo.due /\ todo'.start = todo.start
                          /\ Same(first, {"preset", "end", "until"}) =>
                                /\ todo'.rule.step = todo.rule.step /\ todo'.rule.count = todo.rule.count
                                /\ sameDate => todo'.rule = todo.rule
    BY DEF UntouchedStays, Saves
  <1> DEFINE row == page.row
             draft == page.draft
             first == makeSheetDraft(row)
             patch == collectSheetChanges(row, draft)
             sameDate == Same(first, {"hasDate", "day", "hasTime", "time"})
             sameRule == Same(first, {"preset", "end", "until"})
  <1>1. row \in SheetRow /\ draft \in SheetDraft
    BY DEF Save, Closing, SheetFits, PageFits, SheetPage, ListedRow
  <1>2. updates(patch, todo) /\ todo' = updatedTodo(todo, patch)
    BY DEF Save, todoVars
  <1>3. todo \in Task /\ patch \in TodoPatch /\ patch.status = "keep" /\ acceptsTodoUpdate(todo, patch)
    BY <1>1, <1>2, TaskPatches DEF updates, SheetFits, TodoFits, collectSheetChanges
  <1>4. sameDate => patch.due = Keep
    <2>1. ASSUME sameDate PROVE dueOf(draft) = dueOf(first)
      BY <2>1 DEF Same, dueOf
    <2> QED
      BY <1>1, <2>1, SheetDrafts DEF collectSheetChanges
  <1>5. sameRule => patch.rule = KeepRule
    <2>1. ASSUME sameRule PROVE ~repeatsAnew(row, draft)
      BY <1>1, <2>1, SheetDrafts DEF Same, repeatsAnew
    <2> QED
      BY <2>1 DEF collectSheetChanges
  <1> HIDE DEF patch, sameDate, sameRule
  <1> DEFINE rule == IF patch.due \in {Keep, None} THEN NewRule(todo, patch)
                     ELSE followUntilValueType(NewRule(todo, patch), patch.due)
  <1>6. /\ todo'.start = IF patch.due = Keep THEN todo.start ELSE patch.due
        /\ todo'.due = IF patch.due = Keep THEN todo.due ELSE patch.due
        /\ todo'.rule = rule
    BY <1>2, <1>3, SavedFields
  <1>7. sameRule => NewRule(todo, patch) = todo.rule
    BY <1>5 DEF NewRule, KeepRule
  <1>8. todo.rule \in Rule0 /\ (patch.due \notin {Keep, None} => patch.due \in ToolDate)
    BY <1>3 DEF Task, Rule0, TodoPatch
  <1>9. sameRule => /\ rule.step = todo.rule.step /\ rule.count = todo.rule.count
                    /\ patch.due = Keep => rule = todo.rule
    BY <1>7, <1>8, UntilFollows
  <1> HIDE DEF rule
  <1> QED
    BY <1>4, <1>6, <1>9 DEF sameDate, sameRule

LEMMA SavedEvents ==
    ASSUME SheetFits, SaveEvent
    PROVE  UntouchedEventStays
  <1> DEFINE row == page.row
             draft == page.draft
             first == makeEventDraft(row)
             patch == collectEventChanges(row, draft)
             sameStart == Same(first, {"day", "hasTime", "time"})
             sameEnd == Same(first, {"hasEnd", "endDay", "endTime"})
             sameRule == Same(first, {"preset", "end", "until"})
  <1> SUFFICES ASSUME page.row = page.opened, event' # event
               PROVE  /\ sameStart => event'.master.start = event.master.start
                      /\ sameStart /\ sameEnd => /\ event'.master.end = event.master.end
                                                 /\ event'.master.dur = event.master.dur
                      /\ sameRule => /\ event'.rule.step = event.rule.step
                                     /\ event'.rule.count = event.rule.count
                                     /\ sameStart => event'.rule = event.rule
                                     /\ event'.overrides = event.overrides
                                     /\ event'.exdates = event.exdates
    BY DEF UntouchedEventStays, Saves
  <1>1. /\ row \in SheetRow /\ row.due \in DayTime /\ draft \in SheetDraft
        /\ row.due.time = AllDay <=> row.end.time = AllDay
    BY DEF SaveEvent, Closing, SheetFits, PageFits, SheetPage, ListedRow
  <1>2. event # NoEvent /\ event' = updated(event, patch)
    BY DEF SaveEvent, vars
  <1>3. event \in EventObject /\ patch \in Patch /\ validateTzidReferences(event)
    BY <1>1, <1>2, EventPatches DEF SheetFits, EventFits, Valid
  <1>4. sameStart => patch.start = Keep
    <2>1. ASSUME sameStart PROVE draftStart(draft) = draftStart(first)
      BY <2>1 DEF Same, draftStart
    <2> QED
      BY <1>1, <2>1, EventDrafts DEF collectEventChanges
  <1>5. sameStart /\ sameEnd => patch.end = Keep
    <2>1. ASSUME sameStart, sameEnd PROVE draftEnd(draft) = draftEnd(first)
      BY <2>1 DEF Same, draftEnd
    <2> QED
      BY <1>1, <2>1, EventDrafts DEF collectEventChanges
  <1>6. sameRule => patch.rule = KeepRule
    <2>1. ASSUME sameRule PROVE ~repeatsAnew(row, draft)
      BY <1>1, <2>1, EventDrafts DEF Same, repeatsAnew
    <2> QED
      BY <2>1 DEF collectEventChanges
  <1> HIDE DEF patch, sameStart, sameEnd, sameRule
  <1> DEFINE rule == IF patch.start # Keep THEN followUntilValueType(patchRule(event, patch), patch.start)
                     ELSE patchRule(event, patch)
  <1>7. /\ event'.master = patchDates(event.master, patch)
        /\ event'.rule = rule
        /\ event'.exdates = IF patch.rule.op = "remove" THEN {} ELSE event.exdates
        /\ event'.overrides = IF patch.rule.op = "remove" THEN {} ELSE event.overrides
    BY <1>2, <1>3, UpdatedEvent, PatchedEvent
  <1>8. /\ event'.master.start = IF patch.start # Keep THEN patch.start ELSE event.master.start
        /\ event'.master.end = IF patch.end # Keep THEN patch.end ELSE event.master.end
        /\ event'.master.dur = IF patch.end # Keep THEN NoDur ELSE event.master.dur
    BY <1>3, <1>7, NewStarts DEF startOf
  <1>9. sameRule => patchRule(event, patch) = event.rule /\ patch.rule.op = "keep"
    BY <1>6 DEF patchRule, KeepRule
  <1>10. event.rule \in Rule0 /\ (patch.start # Keep => patch.start \in ToolDate)
    BY <1>3 DEF EventObject, Rule0, Patch
  <1>11. sameRule => /\ rule.step = event.rule.step /\ rule.count = event.rule.count
                     /\ patch.start = Keep => rule = event.rule
    BY <1>9, <1>10, UntilFollows
  <1> HIDE DEF rule
  <1> QED
    BY <1>4, <1>5, <1>7, <1>8, <1>9, <1>11

(* PagesSendOnlyChanges: a page saves what its user changed and nothing    *)
(* else, whatever others have written under it.                            *)
THEOREM PagesSendOnlyChanges == SheetSpec => UntouchedFieldsStay
<1>1. SheetFits /\ [SheetNext]_<<sheetVars, todoVars, vars>> => UntouchedStays /\ UntouchedEventStays
  <2> SUFFICES ASSUME SheetFits, [SheetNext]_<<sheetVars, todoVars, vars>>
               PROVE  UntouchedStays /\ UntouchedEventStays
    OBVIOUS
  <2>1. UntouchedStays
    <3>1. Saves("task") /\ todo' # todo => Save
      BY OnlySaving DEF Saves
    <3>2. CASE Save
      BY <3>2, SavedTasks
    <3>3. CASE ~(Saves("task") /\ todo' # todo)
      BY <3>3 DEF UntouchedStays
    <3> QED
      BY <3>1, <3>2, <3>3
  <2>2. UntouchedEventStays
    <3>1. Saves("event") /\ event' # event => SaveEvent
      BY OnlySaving DEF Saves
    <3>2. CASE SaveEvent
      BY <3>2, SavedEvents
    <3>3. CASE ~(Saves("event") /\ event' # event)
      BY <3>3 DEF UntouchedEventStays
    <3> QED
      BY <3>1, <3>2, <3>3
  <2> QED
    BY <2>1, <2>2
<1> QED
  BY <1>1, SheetsFit, PTL DEF SheetSpec, UntouchedFieldsStay

(* What a page shows and what is stored: the clocks.                       *)
LEMMA DaysAndTimes ==
    ASSUME NEW day \in Days, NEW time \in Times
    PROVE  /\ day + time \in Int /\ Day(day + time) = day /\ (day + time) % DaySlots = time
           /\ day \in Int /\ Day(day) = day
  <1>1. PICK n \in Nat : n = DaySlots /\ n > 2
    BY TimeAssumption, SheetAssumption
  <1>2. day \in Int /\ day % n = 0 /\ time \in Int /\ 0 <= time /\ time < n
    BY <1>1 DEF Days, Times
  <1>3. PICK k \in Int : day = k * n
    BY <1>1, Multiples
  <1>4. (k * n + time) % n = time
    BY <1>1, <1>2
  <1> QED
    BY <1>1, <1>2, <1>3, <1>4 DEF Day

\* a zone the tools write skips no wall clock
LEMMA FixedZonesSkipNothing ==
    ASSUME NEW z \in Zones, supportedByTools(z), NEW w \in Int
    PROVE  exists(w, z)
  <1>1. z # "UTC" /\ Before[z] \in Int /\ After[z] = Before[z]
    BY TimeAssumption DEF supportedByTools
  <1>2. \A u : getZoneOffset(z, u) = Before[z]
    BY <1>1 DEF getZoneOffset
  <1> QED
    BY <1>1, <1>2 DEF exists, epochToLocalFields, localFieldsToEpoch

LEMMA SentDates ==
    ASSUME NEW day \in Int \ {NoDay}, NEW time \in Int
    PROVE  LET v == dueValue([day |-> day, time |-> time])
           IN  IF time = AllDay THEN v = [zone |-> "date", at |-> day]
               ELSE v = [zone |-> Device, at |-> day + time] /\ isDateTime(v)
  BY SheetAssumption, TimeAssumption DEF dueValue, NoDue, isDateTime

\* a due that is sent is shown as it was typed
LEMMA DuesAreShown ==
    ASSUME NEW d \in SheetDraft, dueOf(d) # NoDue => d.day # Cleared,
           LET v == dueValue(dueOf(d)) IN v.zone \in Zones => supportedByTools(v.zone)
    PROVE  formatDue(dueValue(dueOf(d))) = dueOf(d)
  <1>1. CASE dueOf(d) = NoDue
    BY <1>1 DEF dueValue, formatDue
  <1>2. CASE dueOf(d) # NoDue
    <2> DEFINE time == IF d.hasTime THEN d.time ELSE AllDay
               v == dueValue(dueOf(d))
    <2>0. d.day \in Days /\ d.time \in Times /\ d.hasTime \in BOOLEAN
      BY <1>2 DEF SheetDraft, DraftFields
    <2>1. /\ d.day \in Days /\ d.day \in Int \ {NoDay} /\ d.time \in Times /\ d.time \in Int /\ d.time # AllDay
          /\ d.hasTime \in BOOLEAN /\ AllDay \in Int
      <3>1. d.day \in Int /\ d.day # NoDay
        BY <2>0, Slots
      <3>2. d.time \in Int /\ d.time # AllDay
        BY <2>0, Slots
      <3> QED
        BY <2>0, <3>1, <3>2 DEF AllDay
    <2>2. dueOf(d) = [day |-> d.day, time |-> time]
      BY <1>2 DEF dueOf
    <2>3. CASE d.hasTime
      <3>1. v = [zone |-> Device, at |-> d.day + d.time] /\ isDateTime(v)
        BY <2>1, <2>2, <2>3, SentDates
      <3>2. v.zone = Device /\ v.at = d.day + d.time /\ v # None /\ d.day + d.time \in Int
        BY <3>1, <2>1, SheetAssumption, TimeAssumption DEF None
      <3>3. exists(d.day + d.time, Device)
        BY <3>2, SheetAssumption, FixedZonesSkipNothing
      <3>4. zoneOf(v, Device) = Device
        BY <3>2, SheetAssumption, TimeAssumption DEF zoneOf
      <3>5. wallOf(v) = d.day + d.time
        BY <3>1, <3>2, <3>3, <3>4 DEF wallOf, instantOf, exists
      <3>6. formatDue(v) = [day |-> d.day, time |-> d.time]
        BY <2>1, <3>1, <3>2, <3>5, DaysAndTimes DEF formatDue
      <3> QED
        BY <2>2, <2>3, <3>6
    <2>4. CASE ~d.hasTime
      <3>1. v = [zone |-> "date", at |-> d.day]
        BY <2>1, <2>2, <2>4, SentDates
      <3>2. ~isDateTime(v) /\ v # None /\ wallOf(v) = d.day
        BY <3>1 DEF isDateTime, wallOf, None
      <3> QED
        BY <2>1, <2>2, <2>4, <3>2, DaysAndTimes DEF formatDue
    <2> QED
      BY <2>1, <2>3, <2>4
  <1> QED
    BY <1>1, <1>2

(* The repetition a page sends.                                            *)
LEMMA BuiltRulesFollow ==
    ASSUME NEW r, NEW a
    PROVE  followUntilValueType(buildRecurrenceRule(r, a), a) = buildRecurrenceRule(r, a)
  BY DEF followUntilValueType, buildRecurrenceRule, sameType, isDateTime

LEMMA LastDayOfBuilt ==
    ASSUME NEW r \in ToolRule, NEW a \in Value, r.day \in Days,
           exists(r.day + (a.at % DaySlots), zoneOf(a, "UTC"))
    PROVE  LastDay(buildRecurrenceRule(r, a), zoneOf(a, "UTC")) = r.day
  <1> DEFINE w == r.day + (a.at % DaySlots)
             zone == zoneOf(a, "UTC")
             rule == buildRecurrenceRule(r, a)
  <1>1. r.day # NoDay
    BY Slots
  <1>2. CASE ~isDateTime(a)
    <2>1. rule.until = [zone |-> "date", at |-> r.day]
      BY <1>1, <1>2 DEF buildRecurrenceRule
    <2> QED
      BY <2>1 DEF LastDay, isDateTime
  <1>3. CASE isDateTime(a)
    <2>1. zone = IF a.zone \in {"utc", "floating"} THEN "UTC" ELSE a.zone
      BY <1>3 DEF zoneOf, isDateTime
    <2>2. rule.until = [zone |-> "utc", at |-> localFieldsToEpoch(w, zone)]
      BY <1>1, <1>3, <2>1 DEF buildRecurrenceRule
    <2>3. LastDay(rule, zone) = Day(epochToLocalFields(localFieldsToEpoch(w, zone), zone))
      BY <2>2 DEF LastDay, isDateTime
    <2>4. Day(w) = r.day
      <3>1. a.at % DaySlots \in Times
        BY DaysOf DEF Value
      <3> QED
        BY <3>1, DaysAndTimes
    <2> QED
      BY <2>3, <2>4 DEF exists
  <1> QED
    BY <1>2, <1>3

LEMMA SentRepetitions ==
    ASSUME NEW d \in SheetDraft, d.preset \in Presets, NEW a \in Value, NEW opened,
           presetToArgs(d).day # Cleared
    PROVE  RepeatsAsShown(buildRecurrenceRule(presetToArgs(d), a), a, d, opened)
  <1> DEFINE r == presetToArgs(d)
             rule == buildRecurrenceRule(r, a)
  <1>1. d.preset # Never
    BY SheetAssumption DEF Never
  <1>2. r.step = d.preset /\ r.count = 0 /\ r.day = IF d.end = "until" THEN d.until ELSE NoDay
    BY DEF presetToArgs
  <1>3. r \in ToolRule
    BY SentRules
  <1>4. /\ rule.step = d.preset /\ rule.count = 0
        /\ r.day = NoDay => rule.until = None
    BY <1>2 DEF buildRecurrenceRule
  <1> HIDE DEF rule, r
  <1>5. recurrenceToPreset(formatRecurrence(rule)) = d.preset
    <2>1. formatRecurrence(rule).step = rule.step
      BY DEF formatRecurrence, rule, buildRecurrenceRule
    <2> QED
      BY <1>1, <1>4, <2>1 DEF recurrenceToPreset
  <1>6. ASSUME d.end = "until", d.until # NoDay, exists(d.until + (a.at % DaySlots), zoneOf(a, "UTC"))
        PROVE  LastDay(rule, zoneOf(a, "UTC")) = d.until
    <2>1. r.day = d.until /\ d.until \in Days
      BY <1>2, <1>6 DEF SheetDraft, DraftFields, r
    <2> QED
      BY <1>3, <1>6, <2>1, LastDayOfBuilt DEF rule
  <1>7. d.end = "none" => rule.until = None /\ rule.count = 0
    BY <1>2, <1>4
  <1> QED
    BY <1>5, <1>6, <1>7 DEF RepeatsAsShown, rule, r

LEMMA NoRepetition ==
    ASSUME NEW d \in SheetDraft, d.preset = Never, NEW start, NEW opened
    PROVE  RepeatsAsShown(NoRule, start, d, opened)
  BY SheetAssumption DEF RepeatsAsShown, recurrenceToPreset, formatRecurrence, NoRule, Never

\* a repetition that is kept is shown as it was
LEMMA KeptRepetitions ==
    ASSUME NEW d, NEW rule \in Rule0, NEW kept \in Rule0, NEW start,
           kept.step = rule.step, kept.count = rule.count, rule.until = None => kept.until = None,
           NEW opened, opened.recurrence = formatRecurrence(rule), ~repeatsAnew(opened, d)
    PROVE  RepeatsAsShown(kept, start, d, opened)
  <1> DEFINE rec == formatRecurrence(rule)
  <1>1. /\ rule \in [step : Nat, count : Nat, until : Value \cup {None}]
        /\ kept \in [step : Nat, count : Nat, until : Value \cup {None}]
    BY DEF Rule0, RRule, NoRule
  <1>2. /\ rec.step = rule.step /\ rec.count = rule.count /\ rec.until = formatDue(rule.until)
        /\ formatRecurrence(kept).step = rule.step
    BY <1>1 DEF formatRecurrence, formatRecurUntilForDto
  <1> HIDE DEF rec
  <1>3. /\ d.preset = recurrenceToPreset(rec) /\ d.end = endOf(rec)
        /\ d.end = "until" => d.until = untilDay(rec)
    BY DEF repeatsAnew, rec
  <1>4. recurrenceToPreset(formatRecurrence(kept)) = d.preset
    BY <1>2, <1>3 DEF recurrenceToPreset
  <1>5. ASSUME d.end = "none" PROVE kept.until = None /\ kept.count = 0
    <2>1. rule.count = 0 /\ formatDue(rule.until) = NoDue
      BY <1>1, <1>2, <1>3, <1>5 DEF endOf
    <2>2. rule.until = None
      BY <1>1, <2>1, FormattedDues, Slots
    <2> QED
      BY <2>1, <2>2
  <1> QED
    BY <1>3, <1>4, <1>5 DEF RepeatsAsShown, rec

(* A saved task is stored as its page showed it.                           *)
LEMMA TasksAsShown ==
    ASSUME SheetFits, Save
    PROVE  SavedAsShown
  <1> DEFINE row == page.row
             d == page.draft
             patch == collectSheetChanges(row, d)
             shows == d.preset # Custom /\ (d.preset = Never \/ d.hasDate)
  <1> SUFFICES ASSUME page.row = page.opened, todo' # todo, page.opened \in taskFromVTodo(todo)
               PROVE  /\ formatDue(todo'.due) = dueOf(d)
                      /\ shows => RepeatsAsShown(todo'.rule, todo'.due, d, page.opened)
    BY DEF SavedAsShown, Saves
  <1>1. row \in SheetRow /\ d \in SheetDraft
    BY DEF Save, Closing, SheetFits, PageFits, SheetPage
  <1>2. /\ updates(patch, todo) /\ todo' = updatedTodo(todo, patch)
        /\ readable(patch.due, d.day)
        /\ patch.rule.op = "set" => patch.rule.rule.day # Cleared
    BY DEF Save, todoVars
  <1>3. todo \in Task /\ patch \in TodoPatch /\ patch.status = "keep" /\ acceptsTodoUpdate(todo, patch)
    BY <1>1, <1>2, TaskPatches DEF updates, SheetFits, TodoFits, collectSheetChanges
  <1>4. row.due = formatDue(todo.due) /\ row.recurrence = formatRecurrence(todo.rule)
    BY DEF taskFromVTodo, Row
  <1>5. patch.due = IF dueOf(d) = row.due THEN Keep ELSE dueValue(dueOf(d))
    BY DEF collectSheetChanges
  <1>6. patch.rule = IF d.preset = Custom \/ ~repeatsAnew(row, d) THEN KeepRule
                     ELSE IF d.preset = Never THEN DropRule
                     ELSE IF d.hasDate THEN SetRule(presetToArgs(d)) ELSE KeepRule
    BY DEF collectSheetChanges
  <1> HIDE DEF patch
  <1> DEFINE rule == IF patch.due \in {Keep, None} THEN NewRule(todo, patch)
                     ELSE followUntilValueType(NewRule(todo, patch), patch.due)
  <1>7. todo'.due = (IF patch.due = Keep THEN todo.due ELSE patch.due) /\ todo'.rule = rule
    BY <1>2, <1>3, SavedFields
  <1>8. formatDue(todo'.due) = dueOf(d)
    <2>1. CASE dueOf(d) = row.due
      BY <1>4, <1>5, <1>7, <2>1
    <2>2. CASE dueOf(d) # row.due
      <3>1. patch.due = dueValue(dueOf(d)) /\ patch.due # Keep
        <4>1. dueValue(dueOf(d)) \in ToolDate \cup {None}
          BY <1>1, DraftDates, DueValues
        <4> QED
          BY <1>5, <2>2, <4>1, ToolDates, NoneIsNoValue
      <3>2. patch.due.zone \in Zones => supportedByTools(patch.due.zone)
        BY <1>3 DEF acceptsTodoUpdate
      <3>3. dueOf(d) # NoDue => d.day # Cleared
        <4>1. ASSUME dueOf(d) # NoDue PROVE patch.due # None
          <5>1. dueOf(d).day # NoDay
            BY <1>1, <4>1, DraftDates DEF dueOf
          <5> QED
            BY <1>1, <3>1, <5>1, DraftDates, DueValues, ToolDates, NoneIsNoValue
        <4> QED
          BY <1>2, <3>1, <4>1 DEF readable
      <3>4. formatDue(dueValue(dueOf(d))) = dueOf(d)
        BY <1>1, <3>1, <3>2, <3>3, DuesAreShown
      <3> QED
        BY <1>7, <3>1, <3>4
    <2> QED
      BY <2>1, <2>2
  <1>9. ASSUME shows PROVE RepeatsAsShown(todo'.rule, todo'.due, d, page.opened)
    <2>1. todo.rule \in Rule0 /\ (patch.due \notin {Keep, None} => patch.due \in ToolDate)
      BY <1>3 DEF Task, Rule0, TodoPatch
    <2>2. CASE ~repeatsAnew(row, d)
      <3>1. NewRule(todo, patch) = todo.rule
        BY <1>6, <2>2 DEF NewRule, KeepRule
      <3>2. /\ rule \in Rule0 /\ rule.step = todo.rule.step /\ rule.count = todo.rule.count
            /\ todo.rule.until = None => rule.until = None
        BY <2>1, <3>1, UntilFollows DEF followUntilValueType
      <3> HIDE DEF rule
      <3> QED
        BY <1>4, <1>7, <2>1, <2>2, <3>2, KeptRepetitions
    <2>3. CASE repeatsAnew(row, d) /\ d.preset = Never
      <3>1. NewRule(todo, patch) = NoRule
        BY <1>6, <2>3 DEF NewRule, DropRule, Custom, Never
      <3>2. rule = NoRule
        BY <3>1 DEF followUntilValueType, NoRule
      <3> HIDE DEF rule
      <3> QED
        BY <1>1, <1>7, <2>3, <3>2, NoRepetition
    <2>4. CASE repeatsAnew(row, d) /\ d.preset # Never
      <3>1. d.preset \in Presets /\ patch.rule = SetRule(presetToArgs(d))
        BY <1>1, <1>6, <1>9, <2>4 DEF SheetDraft, DraftFields
      <3>2. patch.rule.op = "set" /\ patch.rule.rule = presetToArgs(d) /\ presetToArgs(d).day # Cleared
        BY <1>2, <3>1 DEF SetRule
      <3>3. /\ patch.due # None /\ (patch.due = Keep => todo.due # None)
        BY <1>3, <3>2 DEF acceptsTodoUpdate
      <3>4. todo'.due \in Value
        BY <1>3, <1>7, <2>1, <3>3, ToolDates DEF Task
      <3>5. NewRule(todo, patch) = buildRecurrenceRule(presetToArgs(d), todo'.due)
        BY <1>7, <3>2 DEF NewRule
      <3>6. rule = buildRecurrenceRule(presetToArgs(d), todo'.due)
        BY <1>7, <3>3, <3>5, BuiltRulesFollow
      <3> HIDE DEF rule
      <3> QED
        BY <1>1, <1>7, <3>1, <3>2, <3>4, <3>6, SentRepetitions
    <2> QED
      BY <2>2, <2>3, <2>4
  <1> QED
    BY <1>8, <1>9

(* What the card shows of a single event.                                  *)
LEMMA SingleEvents ==
    ASSUME NEW e, ~isRecurring(e), NEW range, NEW o \in expandRecurrenceSet(e, range, Device)
    PROVE  LET shown == eventFromOccurrence(e, o)
               timed == isDateTime(e.master.start)
           IN  /\ shown.due = formatLocal(instantOf(e.master.start, Device), timed)
               /\ shown.end = formatLocal(periodOf(e.master, Device).end, timed)
               /\ shown.recurrence = formatRecurrence(e.rule)
  <1>1. o = Occurrence(0, instantOf(e.master.start, Device), e.master, periodOf(e.master, Device))
    BY DEF expandRecurrenceSet
  <1>2. o.n = 0 /\ o.start = instantOf(e.master.start, Device) /\ o.end = periodOf(e.master, Device).end
    BY <1>1 DEF Occurrence, periodOf, effectiveEventPeriod
  <1>3. originalStart(e, o) = e.master.start
    BY <1>2, RecurrenceAssumption DEF originalStart
  <1> QED
    BY <1>2, <1>3 DEF eventFromOccurrence, Row

\* a date a page sends is shown as it was typed
LEMMA DatesAreShown ==
    ASSUME NEW day \in Days, NEW time \in Times \cup {AllDay},
           NEW due, due = [day |-> day, time |-> time], NEW v, v = dueValue(due),
           v.zone \in Zones => supportedByTools(v.zone),
           time = AllDay => exists(day, Device)
    PROVE  /\ isDateTime(v) <=> time # AllDay
           /\ formatLocal(instantOf(v, Device), isDateTime(v)) = due
  <1>1. day \in Int \ {NoDay} /\ time \in Int /\ Device \in Zones
    BY Slots, SheetAssumption DEF AllDay
  <1>2. CASE time = AllDay
    <2>1. v = [zone |-> "date", at |-> day]
      BY <1>1, <1>2, SentDates
    <2>2. ~isDateTime(v) /\ Day(day) = day
      BY <2>1, Slots, DaysAndTimes DEF isDateTime
    <2>3. instantOf(v, Device) = localFieldsToEpoch(day, Device)
      BY <2>1 DEF instantOf, zoneOf
    <2>4. epochToLocalFields(instantOf(v, Device), Device) = day
      BY <1>2, <2>3 DEF exists
    <2> QED
      BY <1>2, <2>2, <2>4 DEF formatLocal
  <1>3. CASE time # AllDay
    <2>1. v = [zone |-> Device, at |-> day + time] /\ isDateTime(v) /\ time \in Times
      BY <1>1, <1>3, SentDates
    <2>2. exists(day + time, Device)
      <3>1. supportedByTools(Device) /\ day + time \in Int
        BY <1>1, <2>1
      <3> QED
        BY <1>1, <3>1, FixedZonesSkipNothing
    <2>3. zoneOf(v, Device) = Device
      BY <1>1, <2>1, TimeAssumption DEF zoneOf
    <2>4. epochToLocalFields(instantOf(v, Device), Device) = day + time
      BY <2>1, <2>2, <2>3 DEF instantOf, exists
    <2> QED
      BY <1>3, <2>1, <2>4, DaysAndTimes DEF formatLocal
  <1> QED
    BY <1>2, <1>3

\* a patch of an event the tool accepts
EventSends(patch, d) ==
    /\ readableEvent(patch, d)
    /\ patch.rule.op = "set" => patch.rule.rule.day # Cleared
    /\ acceptsUpdate(event, patch) /\ Valid(event')
    /\ event' = updated(event, patch)

LEMMA SupportedDates ==
    ASSUME NEW patch, acceptsUpdate(event, patch)
    PROVE  /\ patch.start.zone \in Zones => supportedByTools(patch.start.zone)
           /\ patch.end.zone \in Zones => supportedByTools(patch.end.zone)
  BY DEF acceptsUpdate, oneSupportedZone

(* A saved event repeats as its page showed it.                            *)
LEMMA EventsRepeatAsShown ==
    ASSUME NEW row \in SheetRow, NEW d \in SheetDraft, NEW patch \in Patch,
           patch = collectEventChanges(row, d),
           event \in EventObject, validateTzidReferences(event), EventSends(patch, d),
           d.preset # Custom, repeatsAnew(row, d)
    PROVE  RepeatsAsShown(event'.rule, event'.master.start, d, row)
  <1>1. /\ event'.master.start = startOf(event, patch) /\ startOf(event, patch) \in Value
        /\ event'.rule = IF patch.start # Keep
                         THEN followUntilValueType(patchRule(event, patch), patch.start)
                         ELSE patchRule(event, patch)
    BY UpdatedEvent, PatchedEvent, NewStarts DEF EventSends
  <1>2. patch.rule = IF d.preset = Never THEN DropRule ELSE SetRule(presetToArgs(d))
    BY DEF collectEventChanges
  <1>3. CASE d.preset = Never
    <2>1. patchRule(event, patch) = NoRule
      BY <1>2, <1>3 DEF patchRule, DropRule
    <2>2. event'.rule = NoRule
      BY <1>1, <2>1 DEF followUntilValueType, NoRule
    <2> QED
      BY <1>3, <2>2, NoRepetition
  <1>4. CASE d.preset # Never
    <2>1. d.preset \in Presets /\ presetToArgs(d).day # Cleared
      BY <1>2, <1>4 DEF EventSends, SetRule, SheetDraft, DraftFields
    <2>2. patchRule(event, patch) = buildRecurrenceRule(presetToArgs(d), startOf(event, patch))
      BY <1>2, <1>4 DEF patchRule, SetRule
    <2>3. event'.rule = buildRecurrenceRule(presetToArgs(d), startOf(event, patch))
      BY <1>1, <2>2, BuiltRulesFollow DEF startOf
    <2> QED
      BY <1>1, <2>1, <2>3, SentRepetitions
  <1> QED
    BY <1>3, <1>4

(* A saved event that does not repeat begins and ends as its page showed.  *)
LEMMA EventsAreAsShown ==
    ASSUME NEW row \in SheetRow, NEW d \in SheetDraft, d.of = "event", NEW patch \in Patch,
           patch = collectEventChanges(row, d),
           event \in EventObject, Valid(event), EventSends(patch, d),
           ~isRecurring(event), ~isRecurring(event'), row \in eventRows(event),
           NEW o \in expandRecurrenceSet(event', Everything, Device)
    PROVE  LET shown    == eventFromOccurrence(event', o)
               keepsEnd == d.hasEnd /\ (event.master.end # None \/ draftEnd(d) # row.end)
           IN  /\ d.hasTime \/ exists(d.day, Device) => shown.due = draftStart(d)
               /\ keepsEnd /\ (d.hasTime \/ exists(d.endDay, Device)) => shown.end = draftEnd(d)
  <1> DEFINE m  == event.master
             mm == event'.master
             shown == eventFromOccurrence(event', o)
             keepsEnd == d.hasEnd /\ (m.end # None \/ draftEnd(d) # row.end)
             timed(c) == isDateTime(c.start)
  <1>1. /\ row.due = formatLocal(instantOf(m.start, Device), timed(m))
        /\ row.end = formatLocal(periodOf(m, Device).end, timed(m))
    <2>1. PICK p \in expandRecurrenceSet(event, SheetWindow, Device) : row = eventFromOccurrence(event, p)
      BY DEF eventRows, listOccurrencesAcrossOwner, expandOwnerOccurrences
    <2> QED
      BY <2>1, SingleEvents
  <1>2. /\ shown.due = formatLocal(instantOf(mm.start, Device), timed(mm))
        /\ shown.end = formatLocal(periodOf(mm, Device).end, timed(mm))
    BY SingleEvents
  <1>3. /\ mm.start = IF patch.start # Keep THEN patch.start ELSE m.start
        /\ mm.end = IF patch.end # Keep THEN patch.end ELSE m.end
        /\ m.end # None => sameType(m.start, m.end)
        /\ mm.end # None => sameType(mm.start, mm.end)
    BY UpdatedEvent, PatchedEvent, NewStarts DEF EventSends, startOf, Valid, validComponent
  <1>4. /\ patch.start = IF draftStart(d) = row.due THEN Keep ELSE dueValue(draftStart(d))
        /\ patch.end = IF draftEnd(d) = row.end THEN Keep ELSE dueValue(draftEnd(d))
    BY DEF collectEventChanges
  <1>5. /\ d.day \in Days \cup {Cleared} /\ d.endDay \in Days \cup {Cleared} /\ NoDay \notin Days \cup {Cleared}
        /\ d.time \in Times /\ d.endTime \in Times /\ AllDay \notin Times /\ d.hasTime \in BOOLEAN
    BY Inputs DEF SheetDraft, DraftFields
  <1>6. /\ draftStart(d) \in AnyDue /\ draftEnd(d) \in AnyDue
        /\ dueValue(draftStart(d)) \in ToolDate
        /\ d.hasEnd => dueValue(draftEnd(d)) \in ToolDate
    <2>1. d.hasEnd => draftEnd(d).day # NoDay
      BY <1>5 DEF draftEnd
    <2> QED
      BY <2>1, DraftDates, DueValues
  <1>7. \A v \in ToolDate : v # None /\ v # Keep
    BY ToolDates, NoneIsNoValue
  <1>8. ASSUME d.hasTime \/ exists(d.day, Device) PROVE shown.due = draftStart(d)
    <2>1. CASE draftStart(d) = row.due
      BY <1>1, <1>2, <1>3, <1>4, <2>1
    <2>2. CASE draftStart(d) # row.due
      <3>1. mm.start = dueValue(draftStart(d)) /\ patch.start = mm.start /\ patch.start # Keep
        BY <1>3, <1>4, <1>6, <1>7, <2>2
      <3>2. d.day \in Days
        BY <1>5, <1>6, <1>7, <3>1 DEF EventSends, readableEvent, readable
      <3>3. PICK time \in Times \cup {AllDay} : time = IF d.hasTime THEN d.time ELSE AllDay
        BY <1>5
      <3>4. draftStart(d) = [day |-> d.day, time |-> time]
        BY <3>3 DEF draftStart
      <3>5. (mm.start.zone \in Zones => supportedByTools(mm.start.zone)) /\ (time = AllDay => exists(d.day, Device))
        BY <1>5, <1>8, <3>1, <3>3, SupportedDates DEF EventSends
      <3>6. PICK day, v, due :
               /\ day \in Days /\ day = d.day /\ v = mm.start /\ due = draftStart(d) /\ v = dueValue(due)
        BY <3>1, <3>2
      <3>7. formatLocal(instantOf(v, Device), isDateTime(v)) = due
        BY <3>4, <3>5, <3>6, DatesAreShown
      <3> QED
        BY <1>2, <3>6, <3>7
    <2> QED
      BY <2>1, <2>2
  <1>9. ASSUME keepsEnd, d.hasTime \/ exists(d.endDay, Device) PROVE shown.end = draftEnd(d)
    <2>1. mm.end # None => periodOf(mm, Device).end = instantOf(mm.end, Device) /\ timed(mm) = isDateTime(mm.end)
      BY <1>3 DEF periodOf, effectiveEventPeriod, sameType
    <2>2. CASE draftEnd(d) = row.end
      <3>1. m.end # None /\ mm.end = m.end
        BY <1>3, <1>4, <1>9, <2>2
      <3>2. periodOf(m, Device).end = instantOf(m.end, Device) /\ timed(m) = isDateTime(m.end)
        BY <1>3, <3>1 DEF periodOf, effectiveEventPeriod, sameType
      <3> QED
        BY <1>1, <1>2, <2>1, <2>2, <3>1, <3>2
    <2>3. CASE draftEnd(d) # row.end
      <3>1. mm.end = dueValue(draftEnd(d)) /\ patch.end = mm.end /\ patch.end # Keep /\ mm.end # None
        BY <1>3, <1>4, <1>6, <1>7, <1>9, <2>3
      <3>2. d.endDay \in Days
        BY <1>5, <3>1 DEF EventSends, readableEvent, readable
      <3>3. PICK time \in Times \cup {AllDay} : time = IF d.hasTime THEN d.endTime ELSE AllDay
        BY <1>5
      <3>4. draftEnd(d) = [day |-> d.endDay, time |-> time]
        BY <1>9, <3>3 DEF draftEnd
      <3>5. (mm.end.zone \in Zones => supportedByTools(mm.end.zone)) /\ (time = AllDay => exists(d.endDay, Device))
        BY <1>5, <1>9, <3>1, <3>3, SupportedDates DEF EventSends
      <3>6. formatLocal(instantOf(mm.end, Device), isDateTime(mm.end)) = draftEnd(d)
        <4>1. PICK day, v, due :
                 /\ day \in Days /\ day = d.endDay /\ v = mm.end /\ due = draftEnd(d) /\ v = dueValue(due)
          BY <3>1, <3>2
        <4>2. formatLocal(instantOf(v, Device), isDateTime(v)) = due
          BY <3>4, <3>5, <4>1, DatesAreShown
        <4> QED
          BY <4>1, <4>2
      <3> QED
        BY <1>2, <2>1, <3>1, <3>6
    <2> QED
      BY <2>2, <2>3
  <1> QED
    BY <1>8, <1>9

LEMMA EventsAsShown ==
    ASSUME SheetFits, SaveEvent
    PROVE  EventSavedAsShown
  <1> DEFINE row == page.row
             d == page.draft
             patch == collectEventChanges(row, d)
  <1> SUFFICES ASSUME page.row = page.opened, event' # event, row \in eventRows(event)
               PROVE  EventSavedAsShown
    BY DEF EventSavedAsShown, Saves
  <1>1. row \in SheetRow /\ d \in SheetDraft /\ d.of = "event"
    BY DEF SaveEvent, Closing, SheetFits, PageFits, SheetPage
  <1>2. event # NoEvent /\ EventSends(patch, d)
    BY DEF SaveEvent, EventSends, vars
  <1>3. /\ event \in EventObject /\ Valid(event) /\ validateTzidReferences(event)
        /\ patch \in Patch
    BY <1>1, <1>2, EventPatches DEF SheetFits, EventFits, Valid
  <1> DEFINE single == ~isRecurring(event) /\ ~isRecurring(event')
             keepsEnd == d.hasEnd /\ (event.master.end # None \/ draftEnd(d) # row.end)
  <1>4. ASSUME single, NEW o \in expandRecurrenceSet(event', Everything, Device)
        PROVE  LET shown == eventFromOccurrence(event', o)
               IN  /\ d.hasTime \/ exists(d.day, Device) => shown.due = draftStart(d)
                   /\ keepsEnd /\ (d.hasTime \/ exists(d.endDay, Device)) => shown.end = draftEnd(d)
    BY <1>1, <1>2, <1>3, <1>4, EventsAreAsShown
  <1>5. ASSUME d.preset # Custom, repeatsAnew(row, d)
        PROVE  RepeatsAsShown(event'.rule, event'.master.start, d, row)
    BY <1>1, <1>2, <1>3, <1>5, EventsRepeatAsShown
  <1> QED
    BY <1>4, <1>5 DEF EventSavedAsShown

(* PagesAreStoredAsShown: what the user saw on the page he saved is what   *)
(* is stored, over the zones of the object, of the card and of its last    *)
(* day.                                                                    *)
THEOREM PagesAreStoredAsShown == SheetSpec => PagesAreSavedAsShown
<1>1. SheetFits /\ [SheetNext]_<<sheetVars, todoVars, vars>> => SavedAsShown /\ EventSavedAsShown
  <2> SUFFICES ASSUME SheetFits, [SheetNext]_<<sheetVars, todoVars, vars>>
               PROVE  SavedAsShown /\ EventSavedAsShown
    OBVIOUS
  <2>1. SavedAsShown
    <3>1. Saves("task") /\ todo' # todo => Save
      BY OnlySaving DEF Saves
    <3>2. CASE Save
      BY <3>2, TasksAsShown
    <3>3. CASE ~(Saves("task") /\ todo' # todo)
      BY <3>3 DEF SavedAsShown
    <3> QED
      BY <3>1, <3>2, <3>3
  <2>2. EventSavedAsShown
    <3>1. Saves("event") /\ event' # event => SaveEvent
      BY OnlySaving DEF Saves
    <3>2. CASE SaveEvent
      BY <3>2, EventsAsShown
    <3>3. CASE ~(Saves("event") /\ event' # event)
      BY <3>3 DEF EventSavedAsShown
    <3> QED
      BY <3>1, <3>2, <3>3
  <2> QED
    BY <2>1, <2>2
<1> QED
  BY <1>1, SheetsFit, PTL DEF SheetSpec, PagesAreSavedAsShown

=============================================================================
