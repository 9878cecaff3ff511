----------------------------- MODULE EventEdits -----------------------------
(***************************************************************************)
(* One event object as clients and the event tools write it, and what the  *)
(* queries then say of it.                                                 *)
(* Source: application/usecases/create-event.ts, update-event.ts;          *)
(* domain/ical/semantics/vevent-write.ts, vevent-patch.ts, vevent.ts       *)
(* (validate), icalendar-object.ts, vtodo-patch.ts                         *)
(* (pruneUnreferencedVTimezones); domain/caldav/put-preconditions.ts.      *)
(*                                                                         *)
(* Conditional writes and their retry are ToolWrites'; texts, locations    *)
(* and the other fields that say nothing about time are left out.          *)
(***************************************************************************)
EXTENDS Recurrence

CONSTANTS
    ClientEvents,   \* the event objects clients store
    Dates,          \* the starts and ends tools are given (DATE or with a zone)
    Rules,          \* the recurrences tools are given: [step, count, day]
    Patches,        \* the changes update-event is given: [start, end, rule]
    Ranges,         \* the time ranges queries ask for
    Readers,        \* the zones queries ask in
    MaxEdits        \* bound: updates between two PUTs of a client

ToolDate == [zone : Zones \cup {"date"}, at : Int]
ToolRule == [step : Nat \ {0}, count : Nat, day : Int]

ASSUME InputsAssumption ==
    /\ ClientEvents \subseteq EventObject
    /\ Dates \subseteq ToolDate /\ Rules \subseteq ToolRule
    /\ \A e \in ClientEvents : IsFiniteSet(e.overrides)
    \* without a start or an end: 0 and OCCURRENCE_INDEX_MAX
    /\ Ranges \subseteq [start : 0 .. Forever, end : 0 .. Forever] /\ Readers \subseteq ReadingZone

VARIABLES
    event,   \* the stored object, or NoEvent
    edits    \* updates since a client or create-event wrote it
vars == <<event, edits>>

Keep   == [zone |-> "keep", at |-> 0]
NoDay  == -1
KeepRule == [op |-> "keep"]
DropRule == [op |-> "remove"]
SetRule(r) == [op |-> "set", rule |-> r]
RulePatch  == {KeepRule, DropRule} \cup [op : {"set"}, rule : ToolRule]

Patch == [start : ToolDate \cup {Keep}, end : ToolDate \cup {Keep, None}, rule : RulePatch]

ASSUME PatchesAssumption == Patches \subseteq Patch

Day(at) == at - (at % DaySlots)

-----------------------------------------------------------------------------
(* What a PUT accepts *)

\* the dates of one component (VEvent.validate): wall clocks are compared as
\* they stand, whatever their zones
validComponent(c) ==
    /\ c.end = None \/ c.dur = NoDur
    /\ c.end # None => sameType(c.start, c.end) /\ c.end.at > c.start.at
    /\ ~isDateTime(c.start) /\ c.dur # NoDur => c.dur.slots = 0

\* validateRRule: UNTIL has the type of DTSTART, local exactly when it is,
\* and UTC otherwise
validateRRule(start, rule) ==
    rule.until # None =>
        /\ sameType(rule.until, start)
        /\ isDateTime(start) => (start.zone = "floating") = (rule.until.zone = "floating")

\* an override is validated by itself: its RECURRENCE-ID against its own start
validOverride(o) ==
    /\ validComponent(o.comp)
    /\ sameType(o.rid, o.comp.start)
    /\ (o.rid.zone = "floating") = (o.comp.start.zone = "floating")

\* the dates of a VCALENDAR, and the TZIDs they refer to, its VTIMEZONEs aside
rdateValues(e)    == UNION {{e.rdates[i].start, e.rdates[i].end} : i \in DOMAIN e.rdates}
overrideValues(e) == UNION {{o.rid, o.comp.start, o.comp.end} : o \in e.overrides}
dateValues(e) == {e.master.start, e.master.end} \cup e.exdates \cup rdateValues(e) \cup overrideValues(e)

referenced(e) == {v.zone : v \in dateValues(e)} \cap Zones

validateTzidReferences(e) == referenced(e) \subseteq e.shipped

Valid(e) ==
    /\ validComponent(e.master)
    /\ validateRRule(e.master.start, e.rule)
    /\ \A o \in e.overrides : validOverride(o)
    /\ validateTzidReferences(e)

\* mutant: only the dates of the master count as references
pruneByMaster(e) == [e EXCEPT !.shipped = @ \cap {e.master.start.zone, e.master.end.zone}]

pruneUnreferencedVTimezones(e) == [e EXCEPT !.shipped = @ \cap referenced(e)]

-----------------------------------------------------------------------------
(* The event tools *)

\* buildRecurrenceRule: a last day becomes an UNTIL at the time of day the
\* series starts, in UTC; for an all-day series it stays a date
buildRecurrenceRule(r, anchor) ==
    LET zone == IF anchor.zone \in {"utc", "floating"} THEN "UTC" ELSE anchor.zone
        until == IF isDateTime(anchor)
                 THEN [zone |-> "utc", at |-> localFieldsToEpoch(r.day + (anchor.at % DaySlots), zone)]
                 ELSE [zone |-> "date", at |-> r.day]
    IN  [step |-> r.step, count |-> r.count, until |-> IF r.day = NoDay THEN None ELSE until]

\* followUntilValueType: UNTIL takes the value type of the new start
followUntilValueType(rule, start) ==
    IF rule.until = None \/ sameType(rule.until, start) THEN rule
    ELSE IF ~isDateTime(start)
    THEN [rule EXCEPT !.until = [zone |-> "date", at |-> Day(@.at)]]
    ELSE [rule EXCEPT !.until =
            [zone |-> "utc", at |-> localFieldsToEpoch(@.at + (start.at % DaySlots), start.zone)]]

startOf(e, patch) == IF patch.start # Keep THEN patch.start ELSE e.master.start

patchRule(e, patch) ==
    CASE patch.rule.op = "keep"   -> e.rule
      [] patch.rule.op = "remove" -> NoRule
      [] patch.rule.op = "set"    -> buildRecurrenceRule(patch.rule.rule, startOf(e, patch))

patchDates(master, patch) ==
    [master EXCEPT !.start = IF patch.start # Keep THEN patch.start ELSE @,
                   !.end   = IF patch.end # Keep THEN patch.end ELSE @,
                   !.dur   = IF patch.end # Keep THEN NoDur ELSE @]

\* patchVEventFields on the master: the rule, then the start, then the end
patchVEventFields(e, patch) ==
    LET rule == patchRule(e, patch)
    IN  [e EXCEPT
           !.rule = IF patch.start # Keep THEN followUntilValueType(rule, patch.start) ELSE rule,
           !.exdates = IF patch.rule.op = "remove" THEN {} ELSE @,
           !.rdates  = IF patch.rule.op = "remove" THEN <<>> ELSE @,
           !.master  = patchDates(@, patch)]

\* the object update-event writes: without overrides when the series ends,
\* with the zones of the new dates, without those nothing refers to any more
updated(e, patch) ==
    LET p     == patchVEventFields(e, patch)
        zones == {patch.start.zone, patch.end.zone} \cap Zones
    IN  pruneUnreferencedVTimezones(
            [p EXCEPT !.overrides = IF patch.rule.op = "remove" THEN {} ELSE @,
                      !.shipped = @ \cup zones])

\* validateStartEnd: nothing to compare without an end; a DURATION is not an end
validateStartEnd(e, patch) ==
    LET start == startOf(e, patch)
        end   == IF patch.end # Keep THEN patch.end ELSE e.master.end
    IN  end # None => sameType(start, end) /\ instantOf(end, "UTC") > instantOf(start, "UTC")

\* one call has one timeZone, for both its dates, and tools write no zone with
\* daylight saving
oneSupportedZone(start, end) ==
    LET zones == {start.zone, end.zone} \cap Zones
    IN  Cardinality(zones) <= 1 /\ \A z \in zones : supportedByTools(z)

acceptsUpdate(e, patch) ==
    /\ oneSupportedZone(patch.start, patch.end)
    /\ validateStartEnd(e, patch)

\* vevent-write.ts: with the VTIMEZONE of its one zone
buildVEventCalendar(start, end, rule) ==
    [NoEvent EXCEPT !.master = Component(start, end, NoDur, "busy"), !.rule = rule,
                    !.shipped = {start.zone} \cap Zones]

\* create-event: a timed event without an end lasts an hour (one slot)
DefaultLength == 1
created(start, end, rule) ==
    LET last == IF end # None \/ ~isDateTime(start) THEN end
                ELSE [start EXCEPT !.at = epochToLocalFields(instantOf(start, "UTC") + DefaultLength, start.zone)]
    IN  buildVEventCalendar(start, last, IF rule = NoRule THEN NoRule ELSE buildRecurrenceRule(rule, start))

acceptsCreate(start, end) ==
    /\ oneSupportedZone(start, end)
    /\ end # None => sameType(start, end) /\ instantOf(end, "UTC") > instantOf(start, "UTC")

-----------------------------------------------------------------------------
Init == event = NoEvent /\ edits = 0

\* a client's PUT replaces the object, or creates it
ClientPut(e) ==
    /\ Valid(e)
    /\ event' = e /\ edits' = 0

CreateEvent(start, end, rule) ==
    /\ event = NoEvent
    /\ acceptsCreate(start, end)
    /\ Valid(created(start, end, rule))
    /\ event' = created(start, end, rule) /\ edits' = 0

UpdateEvent(patch) ==
    /\ event # NoEvent /\ edits < MaxEdits
    /\ acceptsUpdate(event, patch)
    /\ Valid(updated(event, patch))
    /\ event' = updated(event, patch) /\ edits' = edits + 1

DeleteEvent ==
    /\ event # NoEvent
    /\ event' = NoEvent /\ edits' = 0

Next ==
    \/ \E e \in ClientEvents : ClientPut(e)
    \/ \E start \in Dates, end \in Dates \cup {None}, rule \in Rules \cup {NoRule} :
          CreateEvent(start, end, rule)
    \/ \E patch \in Patches : UpdateEvent(patch)
    \/ DeleteEvent

Spec == Init /\ [][Next]_vars

-----------------------------------------------------------------------------
(* Properties *)

\* Where and when an occurrence is, whatever list it came from.
Shown(os) == {[rid |-> o.rid, start |-> o.start, end |-> o.end] : o \in os}

\* RangesAgree: two queries whose ranges overlap show the same occurrences in
\* the part they share.  The expansion stops at the end of the range it is
\* given, so an override of a later occurrence may or may not have met the
\* occurrence it replaces; it must show the same either way.
RangesAgree ==
    event # NoEvent =>
        \A r \in Readers :
            LET shown == [range \in Ranges |-> expandRecurrenceSet(event, range, r)]
            IN  \A wide \in Ranges : limitHit(event, wide, r) \/
                    \A narrow \in {n \in Ranges : wide.start <= n.start /\ n.end <= wide.end} :
                        Shown(shown[narrow]) = Shown({o \in shown[wide] : overlapsRange(o, narrow)})

\* QueryFindsAll: the index columns, computed at PUT time as if all floating
\* dates were in UTC, never keep from a query an occurrence that is in its
\* range in the zone of whoever asks.  The code breaks it for an event that
\* mixes dates of its own zone with dates of the reader's: a floating EXDATE
\* of a series in UTC excludes an occurrence, and with it the bound it sets,
\* for the index alone.
QueryFindsAll ==
    event # NoEvent =>
        LET bounds == occurrenceBounds(event)
        IN  \A r \in Readers, range \in Ranges :
                isCandidate(bounds, range) \/ expandRecurrenceSet(event, range, r) = {}

\* read in the zone of whoever asks
local(v) == v.zone \in {"date", "floating"}

\* All the dates of a series are read the way its start is, a local UNTIL is
\* at its time of day, and no occurrence has two overrides.
ReadAlike(e) ==
    /\ \A v \in e.exdates \cup {o.rid : o \in e.overrides} \cup {e.rdates[i].start : i \in DOMAIN e.rdates} :
          local(v) = local(e.master.start)
    /\ e.rule.until # None /\ local(e.rule.until) =>
          (e.rule.until.at - e.master.start.at) % DaySlots = 0
    /\ \A o, p \in e.overrides : instantOf(o.rid, "UTC") = instantOf(p.rid, "UTC") => o = p

\* QueryFindsOccurrences: of an event whose dates are read alike, with no
\* RDATE left out for the limit, the index hides no occurrence but those a
\* day from the ends of the time it covers.
QueryFindsOccurrences ==
    /\ event # NoEvent
    /\ ReadAlike(event)
    /\ event.rdates = <<>> \/ ~limitHit(event, Everything, "UTC")
    => LET bounds == occurrenceBounds(event)
       IN  \A r \in Readers, range \in Ranges :
               isCandidate(bounds, range) \/
                   \A o \in expandRecurrenceSet(event, range, r) :
                       o.start >= Forever - Slack \/ o.end <= Slack

\* BusyTimeIsExact: at each instant of the range, free/busy says busy (or
\* tentative) exactly when an occurrence that is shown then is, and the
\* intervals of one type neither meet nor overlap.
BusyTimeIsExact ==
    event # NoEvent =>
        LET bounds == occurrenceBounds(event)
        IN \A r \in Readers, range \in Ranges :
            LET shown == queryOccurrences(event, bounds, range, r)
                told  == freeBusy(shown, range)
            IN  /\ \A t \in range.start .. (range.end - 1), type \in {"busy", "tentative"} :
                      (\E iv \in told : iv.type = type /\ iv.start <= t /\ t < iv.end)
                        <=> (\E o \in shown : o.busy = type /\ o.start <= t /\ t < o.end)
                /\ \A a, b \in told : a # b /\ a.type = b.type => a.end < b.start \/ b.end < a.start

\* EditsKeepZonesWhole: whatever a tool builds from a stored event ships the
\* VTIMEZONE of every zone it still refers to, in overrides, EXDATEs and
\* RDATEs too, and no other.
EditsKeepZonesWhole ==
    event # NoEvent =>
        \A patch \in Patches :
            acceptsUpdate(event, patch) =>
                updated(event, patch).shipped = referenced(updated(event, patch))

\* UntilKeepsItsDay (the code breaks it): giving a series another kind of
\* start keeps its last day, as vevent-patch.ts says when it converts UNTIL.
LastDay(rule, zone) ==
    IF isDateTime(rule.until) THEN Day(epochToLocalFields(rule.until.at, zone)) ELSE rule.until.at

UntilKeepsItsDay ==
    [][\A patch \in Patches :
          /\ event # NoEvent /\ event' = updated(event, patch)
          /\ event.rule.until # None /\ patch.start # Keep /\ patch.rule = KeepRule
          /\ ~sameType(patch.start, event.master.start)
          /\ event.master.start.zone \in Zones \cup {"date"}
          => LastDay(event'.rule, patch.start.zone) = LastDay(event.rule, event.master.start.zone)]_vars
=============================================================================
