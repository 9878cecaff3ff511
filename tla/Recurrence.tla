----------------------------- MODULE Recurrence -----------------------------
(***************************************************************************)
(* What an event object says about time: its recurrence set, the bounds    *)
(* the store indexes it under, and the queries that read both.             *)
(* Source: domain/ical/recurrence (expansion.ts, occurrence-bounds.ts),    *)
(* domain/ical/freebusy/busy-periods.ts, application/usecases              *)
(* (calendar-query.ts, list-occurrences.ts, expand-owner-occurrences.ts,   *)
(* compute-free-busy.ts).                                                  *)
(*                                                                         *)
(* A rule is "every step days" with a COUNT (0: none) and an UNTIL (None): *)
(* the frequencies and BY parts belong to the iterator library.            *)
(***************************************************************************)
EXTENDS CalendarTime, SequencesExt

CONSTANTS
    MaxOccurrences,  \* maxOccurrences of every expansion (3000)
    Forever,         \* OCCURRENCE_INDEX_MAX
    Steps,           \* instances of a rule the model unrolls at most
    Slack            \* TIME_RANGE_TZ_SLACK_MS

ASSUME RecurrenceAssumption ==
    /\ {MaxOccurrences, Steps} \subseteq Nat \ {0} /\ Forever \in Nat
    /\ Slack = DaySlots

RRule  == [step : Nat \ {0}, count : Nat, until : Value \cup {None}]
NoRule == [step |-> 0, count |-> 0, until |-> None]

\* busy: the free/busy type the component's TRANSP and STATUS give
\* (deriveFreeBusyType): "busy", "tentative" or "free"
VEvent == [start : Value, end : Value \cup {None}, dur : Duration, busy : {"busy", "tentative", "free"}]
Component(start, end, dur, busy) == [start |-> start, end |-> end, dur |-> dur, busy |-> busy]

\* An event object: the master, its rule, RDATEs (in order, each with an
\* optional period end), EXDATEs, the overrides and the VTIMEZONEs it ships
EventObject == [master : VEvent, rule : RRule \cup {NoRule},
                rdates : Seq([start : Value, end : Value \cup {None}]), exdates : SUBSET Value,
                overrides : SUBSET [rid : Value, comp : VEvent], shipped : SUBSET Zones]
NoEvent == [master |-> Component(None, None, NoDur, "free"), rule |-> NoRule,
            rdates |-> <<>>, exdates |-> {}, overrides |-> {}, shipped |-> {}]
isRecurring(e) == e.rule # NoRule \/ e.rdates # <<>>

-----------------------------------------------------------------------------
(* expandRecurrenceSet *)

reconstruct(start, step, k) == [start EXCEPT !.at = @ + k * step * DaySlots]

\* The instances the loop over the iterator takes, in order: it stops at the
\* first one past UNTIL or past the range.
ruleInstances(e, range, reader) ==
    LET inst(k)  == instantOf(reconstruct(e.master.start, e.rule.step, k), reader)
        goes(k)  == /\ e.rule.count = 0 \/ k < e.rule.count
                    /\ e.rule.until = None \/ inst(k) <= instantOf(e.rule.until, reader)
                    /\ inst(k) < range.end
    IN  {k \in 0 .. Steps : \A j \in 0 .. k : goes(j)}

\* maxOccurrences counts the candidates from DTSTART on, not those in the range
limitHit(e, range, reader) ==
    LET n == IF e.rule = NoRule THEN 1 ELSE Cardinality(ruleInstances(e, range, reader))
    IN  isRecurring(e) /\ n + Len(e.rdates) > MaxOccurrences

\* A candidate is a start with, for an RDATE period, its own end; n tells
\* apart two candidates of the same start.
candidates(e, range, reader) ==
    LET byRule == {k \in ruleInstances(e, range, reader) : k < MaxOccurrences}
        n      == IF e.rule = NoRule THEN 1 ELSE Cardinality(ruleInstances(e, range, reader))
        first  == IF e.rule = NoRule
                  THEN {[n |-> 0, value |-> e.master.start, end |-> None]}
                  ELSE {[n |-> k, value |-> reconstruct(e.master.start, e.rule.step, k), end |-> None]
                           : k \in byRule}
        more   == {[n |-> Steps + i, value |-> e.rdates[i].start, end |-> e.rdates[i].end]
                      : i \in {j \in DOMAIN e.rdates : n + j <= MaxOccurrences}}
    IN  first \cup more

Occurrence(n, rid, component, period) ==
    [n |-> n, rid |-> rid, start |-> period.start, end |-> period.end, busy |-> component.busy]

periodOf(c, reader) == effectiveEventPeriod(c.start, c.end, c.dur, reader)

\* the length of one occurrence: nominal days for DURATION and for all-day
\* events, the exact difference for timed ones
effectivePeriodForOccurrence(e, start, reader) ==
    LET m == e.master
    IN  IF m.dur # NoDur \/ m.end = None
        THEN effectiveEventPeriod(start, None, m.dur, reader)
        ELSE IF isDateTime(m.end)
        THEN LET s == instantOf(start, reader)
             IN  [start |-> s, end |-> s + instantOf(m.end, reader) - instantOf(m.start, reader)]
        ELSE effectiveEventPeriod(start, None,
                 [days |-> (m.end.at - m.start.at) \div DaySlots, slots |-> 0], reader)

\* overrideByEpoch: one override for each instant a RECURRENCE-ID names
overrideByEpoch(e, reader) ==
    {CHOOSE o \in e.overrides : instantOf(o.rid, reader) = named
        : named \in {instantOf(o.rid, reader) : o \in e.overrides}}

overridden(o, n, reader) == Occurrence(n, instantOf(o.rid, reader), o.comp, periodOf(o.comp, reader))

\* what is shown of a candidate: its override if it has one
shownOf(c, e, overrides, reader) ==
    LET start == instantOf(c.value, reader)
        over  == {o \in overrides : instantOf(o.rid, reader) = start}
    IN  IF over # {} THEN overridden(CHOOSE o \in over : TRUE, c.n, reader)
        ELSE Occurrence(c.n, start, e.master,
                 IF c.end # None THEN [start |-> start, end |-> instantOf(c.end, reader)]
                 ELSE effectivePeriodForOccurrence(e, c.value, reader))

\* mutant: an override counts only where it replaces a candidate
noDetachedOverrides(overrides, left, reader) == {}

\* overrides whose RECURRENCE-ID names none of the candidates left
detachedOverrides(overrides, left, reader) ==
    {o \in overrides : \A c \in left : instantOf(c.value, reader) # instantOf(o.rid, reader)}

\* the candidates EXDATE leaves
remaining(e, range, reader) ==
    LET excluded == {instantOf(x, reader) : x \in e.exdates}
    IN  {c \in candidates(e, range, reader) : instantOf(c.value, reader) \notin excluded}

\* Excluded starts go first; an override replaces the candidate its
\* RECURRENCE-ID names, and one that names no candidate is shown all the same.
occurrences(e, range, reader) ==
    LET left      == remaining(e, range, reader)
        overrides == overrideByEpoch(e, reader)
    IN  {shownOf(c, e, overrides, reader) : c \in left}
          \cup {overridden(o, -1, reader) : o \in detachedOverrides(overrides, left, reader)}

\* without RRULE and RDATE the overrides are not looked at
expandRecurrenceSet(e, range, reader) ==
    LET all == IF isRecurring(e) THEN occurrences(e, range, reader)
               ELSE {Occurrence(0, instantOf(e.master.start, reader), e.master, periodOf(e.master, reader))}
    IN  {o \in all : overlapsRange(o, range)}

-----------------------------------------------------------------------------
(* computeOccurrenceBounds and the SQL filter over its two columns.        *)
(* Floating and all-day values are indexed as if read in UTC.              *)

Null == Forever + 2     \* SQL NULL: not indexed, always a candidate
Everything == [start |-> 0, end |-> Forever]

occurrenceBounds(e) ==
    LET starts == {e.master.start} \cup {e.rdates[i].start : i \in DOMAIN e.rdates}
                    \cup {o.comp.start : o \in e.overrides}
        all    == expandRecurrenceSet(e, Everything, "UTC")
    IN  IF e.rule # NoRule /\ e.rule.count = 0 /\ e.rule.until = None
        THEN [first |-> Min({instantOf(v, "UTC") : v \in starts}), last |-> Forever]
        ELSE IF all = {} THEN [first |-> Null, last |-> Null]
        ELSE [first |-> Min({o.start : o \in all}),
              last  |-> IF limitHit(e, Everything, "UTC") THEN Forever
                        ELSE Max({o.end : o \in all})]

\* mutant: the range is not widened
isCandidateInUtc(bounds, range) ==
    /\ bounds.last = Null \/ bounds.last > range.start
    /\ bounds.first = Null \/ bounds.first < range.end

\* findInCollectionByTimeRange, called with the range widened by Slack
isCandidate(bounds, range) ==
    /\ bounds.last = Null \/ bounds.last > range.start - Slack
    /\ bounds.first = Null \/ bounds.first < range.end + Slack

\* calendar-query reads the stored columns, then expands the candidates
\* precisely; so do the tools' queries over all calendars of an owner
queryOccurrences(e, bounds, range, reader) ==
    IF isCandidate(bounds, range) THEN expandRecurrenceSet(e, range, reader) ELSE {}

expandOwnerOccurrences(e, bounds, range, reader) ==
    {o \in expandRecurrenceSet(e, range, reader) : isCandidate(bounds, range)}

-----------------------------------------------------------------------------
(* compute-free-busy, of the occurrences os a query found *)

clipped(os, range) ==
    {[start |-> Max({o.start, range.start}), end |-> Min({o.end, range.end}), type |-> o.busy]
        : o \in {p \in os : p.busy # "free"}}

\* coalesceBusyIntervals, for each type: in order of start, an interval that
\* begins no later than the current one ends is merged into it, any other
\* takes its place.  NoInterval: the loop has no current one yet.
NoInterval   == [start |-> 0, end |-> 0, type |-> "free"]
earliest(ivs) == CHOOSE iv \in ivs : \A other \in ivs : iv.start <= other.start

extended(current, iv) == [current EXCEPT !.end = Max({current.end, iv.end})]
joined(loop, iv) == [loop EXCEPT !.current = extended(loop.current, iv)]
pushed(loop, iv) == [loop EXCEPT !.current = iv, !.result = loop.result \cup {loop.current}]

\* mutant: intervals that only meet stay apart
mergeOverlapping(loop, iv) ==
    IF loop.current = NoInterval THEN [loop EXCEPT !.current = iv]
    ELSE IF iv.start < loop.current.end THEN joined(loop, iv) ELSE pushed(loop, iv)

merge(loop, iv) ==
    IF loop.current = NoInterval THEN [loop EXCEPT !.current = iv]
    ELSE IF iv.start <= loop.current.end THEN joined(loop, iv) ELSE pushed(loop, iv)

turn(loop) ==
    LET iv == earliest(loop.left) IN merge([loop EXCEPT !.left = loop.left \ {iv}], iv)

coalesced(ivs) ==
    LET turns == Cardinality(ivs)
        after[n \in 0 .. turns] ==
            IF n = 0 THEN [left |-> ivs, result |-> {}, current |-> NoInterval]
            ELSE turn(after[n - 1])
    IN  after[turns].result \cup {after[turns].current}

coalesceBusyIntervals(ivs) ==
    UNION {coalesced({iv \in ivs : iv.type = t}) : t \in {iv.type : iv \in ivs}}

freeBusy(os, range) == coalesceBusyIntervals({iv \in clipped(os, range) : iv.end > iv.start})
=============================================================================
