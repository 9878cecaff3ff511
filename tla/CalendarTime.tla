---------------------------- MODULE CalendarTime ----------------------------
(***************************************************************************)
(* Dates and times of iCalendar values and the instants they denote.       *)
(* Source: domain/ical/timezone (instant.ts, resolver.ts,                  *)
(* effective-period.ts) and domain/ical/values (CalDate, CalDateTime).     *)
(*                                                                         *)
(* Time is counted in slots, DaySlots of them a day.  A value is           *)
(* [zone, at]: "at" is the wall clock in slots, "zone" says how it is      *)
(* read: "date" (all day), "utc", "floating", or the TZID of a zone.  A    *)
(* zone has one offset before the instant Switch and one after it.         *)
(***************************************************************************)
EXTENDS Integers

CONSTANTS
    DaySlots,        \* slots in a day
    Zones,           \* TZIDs
    Before, After,   \* offset of each zone before and after the transition
    Switch           \* the instant of the transition (daylight saving)

ASSUME TimeAssumption ==
    /\ DaySlots \in Nat \ {0}
    /\ Switch \in Int
    /\ Before \in [Zones -> Int] /\ After \in [Zones -> Int]
    \* no zone is a day or more away from UTC
    /\ \A z \in Zones : /\ Before[z] < DaySlots /\ After[z] < DaySlots
                        /\ Before[z] > -DaySlots /\ After[z] > -DaySlots
                        \* no transition skips a day, or takes a zone
                        \* as far again beyond its offset
                        /\ After[z] - Before[z] < DaySlots
                        /\ 2 * After[z] - Before[z] \in -DaySlots + 1 .. DaySlots - 1
                        /\ 2 * Before[z] - After[z] \in -DaySlots + 1 .. DaySlots - 1
    /\ Zones \cap {"UTC", "date", "utc", "floating", "none", "keep"} = {}

Value == [zone : Zones \cup {"date", "utc", "floating"}, at : Int]
None  == [zone |-> "none", at |-> 0]
Duration == [days : Int, slots : Int]
NoDur == [days |-> -1, slots |-> 0]

\* Readers: the zones a caller may ask for, in which all-day and floating
\* values are read (floatingTimeZone)
ReadingZone == Zones \cup {"UTC"}

getZoneOffset(z, u) ==
    IF z = "UTC" THEN 0 ELSE IF u < Switch THEN Before[z] ELSE After[z]

\* The offset is looked up twice: at the wall clock taken for UTC, then at
\* the instant that gives.
localFieldsToEpoch(w, z) ==
    LET candidate == w - getZoneOffset(z, w)
    IN  w - getZoneOffset(z, candidate)

epochToLocalFields(u, z) == u + getZoneOffset(z, u)

\* buildVTimezone refuses a zone whose offset changes near the dates written
supportedByTools(z) == Before[z] = After[z]

isDateTime(v) == v.zone # "date"
sameType(a, b) == isDateTime(a) = isDateTime(b)

zoneOf(v, reader) ==
    CASE v.zone \in {"date", "floating"} -> reader
      [] v.zone = "utc"                  -> "UTC"
      [] OTHER                           -> v.zone

instantOf(v, reader) == localFieldsToEpoch(v.at, zoneOf(v, reader))

\* weeks and days move the wall clock, hours and minutes the instant
addDuration(start, dur, reader) ==
    localFieldsToEpoch(start.at + dur.days * DaySlots, zoneOf(start, reader)) + dur.slots

\* the four rows of RFC 5545 3.6.1: DTEND, DURATION, neither with a time,
\* neither on a date
effectiveEventPeriod(start, end, dur, reader) ==
    [start |-> instantOf(start, reader),
     end   |-> CASE end # None        -> instantOf(end, reader)
                 [] end = None /\ dur # NoDur -> addDuration(start, dur, reader)
                 [] end = None /\ dur = NoDur /\ isDateTime(start) -> instantOf(start, reader)
                 [] OTHER -> localFieldsToEpoch(start.at + DaySlots, reader)]

\* an instantaneous event is in a range that begins at it
overlapsRange(o, range) ==
    IF o.start = o.end THEN range.start <= o.start /\ range.end > o.start
    ELSE o.start < range.end /\ o.end > range.start
=============================================================================
