------------------------------- MODULE McpTools -------------------------------
(***************************************************************************)
(* The MCP door: who may call (grants and their scopes), the tools on      *)
(* calendars, their batches and their answers, the resolution of places    *)
(* under the monthly geocoding quota.  A call is served in one step, but   *)
(* for searches, which share the quota with whatever runs meanwhile; the   *)
(* tools that edit or complete a task, and the races between calls on      *)
(* objects, are in ToolWrites.                                             *)
(***************************************************************************)
EXTENDS Shelf

CONSTANTS
    SlugOf,         \* slugifyForCollectionId: display name to id
    Suffixed,       \* <<id, n>> to the id `${id}-${n}`
    MaxSuffix,      \* MAX_SUFFIX_ATTEMPTS
    Normalized(_),  \* normalizeDisplayNameForComparison
    MonthlyLimit,   \* GEOCODING_MONTHLY_LIMIT
    LastMonth,      \* bound: the clock stays in this month
    NewUids         \* UIDs the server generates

(* app.ts takes the limit of the environment only when it is above zero.   *)
ASSUME MonthlyLimitAssumption == MonthlyLimit \in Nat \ {0}
ASSUME LastMonthAssumption == LastMonth \in Nat \ {0}

Months == 1..LastMonth

VARIABLES
    grants,         \* the scopes of the tokens that are around
    month,          \* monthKeyUtc of the present
    used,           \* geocoding_quota: each month's count, 0 if it has no row
    begun,          \* per month: searches that have read the clock, no more
    reserved,       \* per month: searches that have been given a unit of it
    asked           \* per month: how often the provider was asked on it

quotaVars == <<month, used, begun, reserved, asked>>

-----------------------------------------------------------------------------
(* Tokens.  A grant made before scopes were recorded has none and may      *)
(* everything; so may MCP_TOKEN, which resolves to ALL_SCOPES.             *)

Scopes == {"read", "write"}
Legacy == {"no scope recorded"}

allowsWrite(scopes) == scopes = Legacy \/ "write" \in scopes

ReadOnlyTools ==
    {"get-current-time", "list-events-expanded", "refresh-events", "get-freebusy",
     "list-calendars", "list-todos", "refresh-todos", "list-known-locations",
     "search-location", "list-deleted"}

(* Mutant: only tools that destroy something need the write scope.         *)
isWriteToolByHint(tool) == tool \in {"delete-calendar", "delete-todo", "delete-event"}

isWriteTool(tool) == tool \notin ReadOnlyTools

(* resolveGrantedScopes: a client that asks for no scope gets all.         *)
resolveGrantedScopes(requested) == IF requested = {} THEN Scopes ELSE requested

-----------------------------------------------------------------------------
(* Answers.  An error is a result with isError; its text is left out.      *)

Reply(tool, grant, s, error, body) ==
    /\ shelf' = s
    /\ answer' = [door |-> "mcp", request |-> tool, grant |-> grant, error |-> error, body |-> body]

toolError(tool, grant, error) == Reply(tool, grant, shelf, error, {})

(* A use case has thrown: the error is its message, the tables are as it   *)
(* left them.                                                              *)
Failed(tool, grant, outcome) == Reply(tool, grant, outcome.shelf, outcome.error, {})

(* The wrapper around every tool: a call that needs the write scope and    *)
(* has a token without it ends here.                                       *)
Admitted(tool, grant) == isWriteTool(tool) => allowsWrite(grant)

Call(tool, handler(_)) ==
    /\ tool \in arrives
    /\ \E grant \in grants :
          IF Admitted(tool, grant) THEN handler(grant)
          ELSE toolError(tool, grant, "read-only token") /\ UNCHANGED quotaVars
    /\ UNCHANGED <<grants, arrives>>

(* buildTodosViewModel runs after the write; it throws on a zone that is   *)
(* no IANA name (resolveTimeZone).                                         *)
Zones == {"valid", "invalid"}
ReplyWithTodos(tool, grant, zone, s, body) ==
    IF zone = "invalid" THEN Reply(tool, grant, s, "invalid IANA time zone", {})
    ELSE Reply(tool, grant, s, "none", body)

-----------------------------------------------------------------------------
(* Reading.  A calendar that is named need not exist: nothing is found in  *)
(* it.  What falls into a range, and when, is Recurrence's subject.        *)

Everywhere == "every calendar"
Scope(s, c) == IF c = Everywhere THEN s.live ELSE ObjectsIn(s, c)
OfKind(objects, kind) == {o \in objects : o.body.kind = kind}

CurrentTime ==
    Call("get-current-time", LAMBDA grant :
        \E zone \in Zones :
           /\ IF zone = "invalid" THEN toolError("get-current-time", grant, "invalid IANA time zone")
              ELSE Reply("get-current-time", grant, shelf, "none", {})
           /\ UNCHANGED quotaVars)

(* The range of a request: both ends, or a keyword and the zone it is in.  *)
RangeArguments == SUBSET {"timeMin", "timeMax", "range", "timeZone"}
resolveRequestRange(given, zone) ==
    CASE "range" \in given /\ given \cap {"timeMin", "timeMax"} # {} -> "range and ends"
      [] "range" \in given /\ "timeZone" \notin given -> "range without zone"
      [] "range" \notin given /\ ~({"timeMin", "timeMax"} \subseteq given) -> "no range"
      [] "timeZone" \in given /\ zone = "invalid" -> "invalid IANA time zone"
      [] OTHER -> "none"

ListEvents ==
    \E tool \in {"list-events-expanded", "refresh-events"} :
       Call(tool, LAMBDA grant :
           \E given \in RangeArguments, zone \in Zones, c \in Ids \cup {Everywhere} :
              LET error == resolveRequestRange(given, zone) IN
              /\ IF error # "none" THEN toolError(tool, grant, error)
                 ELSE \E listed \in SUBSET OfKind(Scope(shelf, c), "VEVENT") :
                         Reply(tool, grant, shelf, "none", listed)
              /\ UNCHANGED quotaVars)

GetFreeBusy ==
    Call("get-freebusy", LAMBDA grant :
        \E given \in RangeArguments, zone \in Zones :
           LET error == resolveRequestRange(given, zone) IN
           /\ IF error # "none" THEN toolError("get-freebusy", grant, error)
              ELSE Reply("get-freebusy", grant, shelf, "none", {})
           /\ UNCHANGED quotaVars)

(* Which tasks of the calendar are in the window is TodoEdits' subject.    *)
ListTodos ==
    \E tool \in {"list-todos", "refresh-todos"} :
       Call(tool, LAMBDA grant :
           \E zone \in Zones, c \in Ids \cup {Everywhere} :
              /\ \E listed \in SUBSET OfKind(Scope(shelf, c), "VTODO") :
                    ReplyWithTodos(tool, grant, zone, shelf, listed)
              /\ UNCHANGED quotaVars)

(* Cards report what went wrong in them: to the log, never to the tables.  *)
ReportCardTelemetry ==
    Call("report-card-telemetry", LAMBDA grant :
        Reply("report-card-telemetry", grant, shelf, "none", {}) /\ UNCHANGED quotaVars)

-----------------------------------------------------------------------------
(* Authorization: the password form, and the external token.               *)

Authorize ==
    /\ "authorize" \in arrives
    /\ \E requested \in SUBSET Scopes, passwordMatches \in BOOLEAN :
          IF passwordMatches
          THEN /\ grants' = grants \cup {resolveGrantedScopes(requested)}
               /\ answer' = [door |-> "authorize", request |-> "granted"]
          ELSE /\ answer' = [door |-> "authorize", request |-> "refused"]
               /\ UNCHANGED grants
    /\ UNCHANGED <<shelf, quotaVars, arrives>>

ExternalToken ==
    /\ "authorize" \in arrives
    /\ grants' = grants \cup {Scopes}
    /\ answer' = [door |-> "authorize", request |-> "external"]
    /\ UNCHANGED <<shelf, quotaVars, arrives>>

-----------------------------------------------------------------------------
(* Places.  A place text matches a known location, or is looked up with    *)
(* one unit of the month's quota; what the provider answers is up to it.   *)

NoText == "no text"

(* ListKnownLocations: the pins of live objects.                           *)
KnownPlaces(s) == {o.body.pin : o \in s.live} \ {NoPlace}

(* Mutant: the row that has reached the limit still passes.                *)
tryConsumeAtLimit(u) == [ok |-> u <= MonthlyLimit,
                         used |-> IF u <= MonthlyLimit THEN u + 1 ELSE u]

(* D1GeocodingQuotaStore.tryConsume: the first row of a month is inserted, *)
(* later ones are counted up while they are below the limit.               *)
tryConsume(u) == [ok |-> u = 0 \/ u < MonthlyLimit,
                  used |-> IF u = 0 \/ u < MonthlyLimit THEN u + 1 ELSE u]

(* searchLocation: the unit is spent before the provider is asked.  Within *)
(* the other tools its steps are taken at once, in the month of the call.  *)
ProviderAnswers == {"match", "poor match", "nothing", "failure"}
Searched(u, result) ==
    [result |-> IF tryConsume(u).ok THEN result ELSE "quota exceeded",
     used |-> tryConsume(u).used]

(* autoResolveLocation: [pin, used]; a search that fails and a match below *)
(* the threshold leave the text alone.                                     *)
AutoResolved(s, u, text, result) ==
    IF text = NoText THEN [pin |-> NoPlace, used |-> u]
    ELSE IF text \in KnownPlaces(s) THEN [pin |-> text, used |-> u]
    ELSE [pin |-> IF Searched(u, result).result = "match" THEN text ELSE NoPlace,
          used |-> Searched(u, result).used]

(* What such a tool has spent by its end: each unit one question.          *)
Spend(total) ==
    /\ used' = [used EXCEPT ![month] = total]
    /\ asked' = [asked EXCEPT ![month] = @ + (total - used[month])]
    /\ UNCHANGED <<month, begun, reserved>>

More(count, m) == count' = [count EXCEPT ![m] = @ + 1]
Fewer(count, m) == count[m] > 0 /\ count' = [count EXCEPT ![m] = @ - 1]

(* search-location: the month is read, the unit reserved and the provider  *)
(* asked in steps of their own, between which other calls go on and the    *)
(* month may end; the unit is one of the month that was read.              *)
SearchLocation ==
    Call("search-location", LAMBDA grant :
        More(begun, month) /\ UNCHANGED <<shelf, answer, month, used, reserved, asked>>)

SearchAnswer(grant, result) ==
    IF result \in {"quota exceeded", "failure"}
    THEN toolError("search-location", grant, result)
    ELSE Reply("search-location", grant, shelf, "none", {result})

SearchReserves(m) ==
    /\ Fewer(begun, m)
    /\ used' = [used EXCEPT ![m] = tryConsume(used[m]).used]
    /\ IF tryConsume(used[m]).ok THEN More(reserved, m) /\ UNCHANGED <<shelf, answer>>
       ELSE /\ \E grant \in grants : SearchAnswer(grant, "quota exceeded")
            /\ UNCHANGED reserved
    /\ UNCHANGED <<month, asked>>

SearchEnds(m) ==
    /\ Fewer(reserved, m) /\ More(asked, m)
    /\ \E grant \in grants, result \in ProviderAnswers : SearchAnswer(grant, result)
    /\ UNCHANGED <<month, used, begun>>

(* The invocation dies; a unit it had is not given back.                   *)
SearchDies(m) ==
    /\ \/ Fewer(begun, m) /\ UNCHANGED reserved
       \/ Fewer(reserved, m) /\ UNCHANGED begun
    /\ UNCHANGED <<shelf, answer, month, used, asked>>

ListKnownLocations ==
    Call("list-known-locations", LAMBDA grant :
        Reply("list-known-locations", grant, shelf, "none", KnownPlaces(shelf)) /\ UNCHANGED quotaVars)

NewMonth ==
    /\ "search-location" \in arrives
    /\ month < LastMonth /\ month' = month + 1
    /\ UNCHANGED <<shelf, answer, used, begun, reserved, asked>>

SearchStep ==
    /\ \/ NewMonth
       \/ \E m \in Months : SearchReserves(m) \/ SearchEnds(m) \/ SearchDies(m)
    /\ UNCHANGED <<grants, arrives>>

-----------------------------------------------------------------------------
(* Calendars.                                                              *)

ListCalendars ==
    Call("list-calendars", LAMBDA grant :
        Reply("list-calendars", grant, shelf, "none",
              {<<c, shelf.cals[c]>> : c \in Calendars(shelf)}) /\ UNCHANGED quotaVars)

(* create-calendar.  Without an id: the slug of the name, then the slug    *)
(* with a suffix, up to the first id that is free or that already is a     *)
(* calendar of this name, but for case, blanks around it and Unicode form. *)
Candidate(name, attempt) ==
    IF attempt = 1 THEN SlugOf[name] ELSE Suffixed[SlugOf[name], attempt]

(* The ids such names lead to are among those that may come into being.    *)
ASSUME SlugsAssumption ==
    MaxSuffix \in Nat /\ \A name \in Labels, a \in 1..MaxSuffix : Candidate(name, a) \in Ids

(* The attempt that ends the loop, 0 if all are taken.                     *)
Settled(name) ==
    LET ends == {a \in 1..MaxSuffix :
                    \/ ~Exists(shelf, Candidate(name, a))
                    \/ Normalized(shelf.cals[Candidate(name, a)].name) = Normalized(name)}
    IN  IF ends = {} THEN 0 ELSE CHOOSE a \in ends : \A b \in ends : a <= b

CreateCalendarWithId(grant, zone, c, cal) ==
    LET o == CreateCollection(shelf, c, cal) IN
    IF Ok(o) THEN ReplyWithTodos("create-calendar", grant, zone, o.shelf, {c})
    ELSE Failed("create-calendar", grant, o)

CreateCalendarByName(grant, zone, cal) ==
    LET a == Settled(cal.name)
        c == Candidate(cal.name, a)
        s == CreateCollection(shelf, c, cal).shelf
    IN  IF a = 0 THEN toolError("create-calendar", grant, "CollectionAlreadyExists")
        ELSE ReplyWithTodos("create-calendar", grant, zone, s, {<<c, s.cals[c].name>>})

CreateCalendar ==
    Call("create-calendar", LAMBDA grant :
        \E name \in Labels, comps \in {{"VTODO"}, {"VEVENT"}}, byName \in BOOLEAN, c \in Ids,
           color \in Colors \cup {NoColor, "no color at all"}, zone \in Zones :
           LET cal == [name |-> name, comps |-> comps, color |-> color] IN
           /\ byName => c = SlugOf[name]
           /\ IF color = "no color at all" THEN toolError("create-calendar", grant, "not a color")
              ELSE IF byName THEN CreateCalendarByName(grant, zone, cal)
              ELSE CreateCalendarWithId(grant, zone, c, cal)
           /\ UNCHANGED quotaVars)

(* update-calendar: a name, a colour or both; neither is an error.         *)
Given(name, color) ==
    [f \in (IF name = {} THEN {} ELSE {"name"}) \cup (IF color = {} THEN {} ELSE {"color"}) |->
        CHOOSE v \in (IF f = "name" THEN name ELSE color) : TRUE]

UpdateCalendar ==
    Call("update-calendar", LAMBDA grant :
        \E c \in Ids, name \in SUBSET Labels, color \in SUBSET (Colors \cup {"no color at all"}) :
           LET meta == Given(name, color)
               o == UpdateProperties(shelf, c, meta)
           IN  /\ Cardinality(name) <= 1 /\ Cardinality(color) <= 1
               /\ IF meta = <<>> THEN toolError("update-calendar", grant, "nothing to change")
                  ELSE IF ~Ok(o) THEN Failed("update-calendar", grant, o)
                  ELSE IF "no color at all" \in color
                  THEN toolError("update-calendar", grant, "not a color")
                  ELSE Reply("update-calendar", grant, o.shelf, "none", {c})
               /\ UNCHANGED quotaVars)

(* delete-calendar: without force only a calendar with nothing live in it. *)
DeleteCalendarTool ==
    Call("delete-calendar", LAMBDA grant :
        \E c \in Ids, force \in BOOLEAN :
           /\ IF ~Exists(shelf, c) THEN toolError("delete-calendar", grant, "CollectionNotFound")
              ELSE IF ~force /\ ObjectsIn(shelf, c) # {}
              THEN toolError("delete-calendar", grant, "CollectionNotEmpty")
              ELSE Reply("delete-calendar", grant, DeleteCollection(shelf, c), "none", {c})
           /\ UNCHANGED quotaVars)

-----------------------------------------------------------------------------
(* Creating objects: a fresh UID under `${uid}.ics`, must-not-exist.  What *)
(* is wrong with an input (due, recurrence, start) shows before the PUT.   *)

UidsTaken(s) == {o.body.uid : o \in s.live \cup s.trash}
FreshUid(s) == IF NewUids \subseteq UidsTaken(s) THEN {} ELSE
               {CHOOSE u \in NewUids : u \notin UidsTaken(s)}

(* A pin that was given (structuredLocation) or found.                     *)
Create(s, c, kind, valid, pin) ==
    IF ~valid THEN Throw(s, "invalid input")
    ELSE LET uid == CHOOSE u \in FreshUid(s) : TRUE
         IN  PutObject(s, c, <<uid>>, [uid |-> uid, kind |-> kind, pin |-> pin],
                       "must-not-exist", TRUE)

(* create-todo.  A location reminder that cannot be pinned fails the call. *)
CreateTodoAt(grant, c, valid, zone, text, place) ==
    LET o == Create(shelf, c, "VTODO", valid, place.pin) IN
    /\ IF text # NoText /\ place.pin = NoPlace
       THEN toolError("create-todo", grant, "LocationReminderUnresolved")
       ELSE IF ~Ok(o) THEN Failed("create-todo", grant, o)
       ELSE ReplyWithTodos("create-todo", grant, zone, o.shelf, o.shelf.live \ shelf.live)
    /\ Spend(place.used)

CreateTodo ==
    Call("create-todo", LAMBDA grant :
        /\ FreshUid(shelf) # {}
        /\ \E c \in Ids, valid \in BOOLEAN, zone \in Zones,
              text \in Places \cup {NoText}, result \in ProviderAnswers :
              CreateTodoAt(grant, c, valid, zone, text, AutoResolved(shelf, used[month], text, result)))

(* create-event: a text that cannot be pinned stays a text.                *)
CreateEventAt(grant, c, valid, place) ==
    LET o == Create(shelf, c, "VEVENT", valid, place.pin) IN
    /\ IF Ok(o) THEN Reply("create-event", grant, o.shelf, "none", o.shelf.live \ shelf.live)
       ELSE Failed("create-event", grant, o)
    /\ Spend(place.used)

CreateEvent ==
    Call("create-event", LAMBDA grant :
        /\ FreshUid(shelf) # {}
        /\ \E c \in Ids, valid \in BOOLEAN, text \in Places \cup {NoText}, result \in ProviderAnswers :
              CreateEventAt(grant, c, valid, AutoResolved(shelf, used[month], text, result)))

(* create-todos, create-events: one after the other; an item that fails is *)
(* reported and the rest goes on.                                          *)
Batch(s, u) == [shelf |-> s, used |-> u, made |-> {}]

WithItem(acc, c, kind, item) ==
    LET place == AutoResolved(acc.shelf, acc.used, item.text, item.result)
        o == Create(acc.shelf, c, kind, item.valid, place.pin)
    IN  [shelf |-> o.shelf, used |-> place.used,
         made |-> acc.made \cup (o.shelf.live \ acc.shelf.live)]

CreateAll(c, kind, first, second) ==
    WithItem(WithItem(Batch(shelf, used[month]), c, kind, first), c, kind, second)

AnswerBatch(tool, grant, zone, all) ==
    ReplyWithTodos(tool, grant, zone, all.shelf, all.made)

(* Only events have places; a batch of events names no zone for a list.    *)
Items(tool) ==
    [valid: BOOLEAN, text: {NoText}, result: {"nothing"}]
    \cup IF tool = "create-todos" THEN {}
         ELSE [valid: BOOLEAN, text: Places, result: {"match", "failure"}]

CreateBatch ==
    \E tool \in {"create-todos", "create-events"} :
       Call(tool, LAMBDA grant :
           \E c \in Ids, first, second \in Items(tool),
              zone \in IF tool = "create-todos" THEN Zones ELSE {"valid"} :
              LET all == CreateAll(c, IF tool = "create-todos" THEN "VTODO" ELSE "VEVENT",
                                   first, second)
              IN  /\ Cardinality(NewUids \ UidsTaken(shelf)) >= 2
                  /\ AnswerBatch(tool, grant, zone, all)
                  /\ Spend(all.used))

-----------------------------------------------------------------------------
(* Deleting, moving, the trash.                                            *)

(* lookupTodo, lookupEvent: the UID must be that of an object of the kind. *)
Lookup(s, c, kind, uid) == {o \in WithUid(s, c, uid) : o.body.kind = kind}

DeleteObjectTool ==
    \E tool \in {"delete-todo", "delete-event"} :
       Call(tool, LAMBDA grant :
           \E c \in Ids, uid \in UidsTaken(shelf), zone \in Zones :
              LET found == Lookup(shelf, c, IF tool = "delete-todo" THEN "VTODO" ELSE "VEVENT", uid) IN
              /\ tool = "delete-event" => zone = "valid"
              /\ IF found = {} THEN toolError(tool, grant, "NotFound")
                 ELSE LET gone == CHOOSE o \in found : TRUE IN
                      ReplyWithTodos(tool, grant, zone,
                          DeleteObject(shelf, c, gone.uri, "unconditional", TRUE).shelf, {gone})
              /\ UNCHANGED quotaVars)

(* MoveTodo.execute: PUT into the target, then DELETE in the source.       *)
Move(s, c, to, o) ==
    LET put == PutObject(s, to, <<o.body.uid>>, o.body, "must-not-exist", TRUE) IN
    IF Ok(put) THEN DeleteObject(put.shelf, c, o.uri, "unconditional", TRUE) ELSE put

MoveTodoTo(grant, c, to, zone, task) ==
    LET o == Move(shelf, c, to, task) IN
    IF Ok(o) THEN ReplyWithTodos("move-todo", grant, zone, o.shelf, {task})
    ELSE Failed("move-todo", grant, o)

MoveTodo ==
    Call("move-todo", LAMBDA grant :
        \E c, to \in Ids, uid \in UidsTaken(shelf), zone \in Zones :
           LET found == Lookup(shelf, c, "VTODO", uid) IN
           /\ IF c = to THEN toolError("move-todo", grant, "SameCollection")
              ELSE IF found = {} THEN toolError("move-todo", grant, "NotFound")
              ELSE MoveTodoTo(grant, c, to, zone, CHOOSE o \in found : TRUE)
           /\ UNCHANGED quotaVars)

ListDeleted ==
    Call("list-deleted", LAMBDA grant :
        \E zone \in Zones :
           /\ ReplyWithTodos("list-deleted", grant, zone, shelf, shelf.trash)
           /\ UNCHANGED quotaVars)

RestoreDeleted ==
    Call("restore-deleted", LAMBDA grant :
        \E g \in shelf.trash, c \in Ids, zone \in Zones :
           LET o == RestoreObject(shelf, c, g.uri) IN
           /\ IF Ok(o) THEN ReplyWithTodos("restore-deleted", grant, zone, o.shelf,
                                           o.shelf.live \ shelf.live)
              ELSE Failed("restore-deleted", grant, o)
           /\ UNCHANGED quotaVars)

McpCall ==
    \/ Authorize \/ ExternalToken
    \/ CurrentTime \/ ListEvents \/ GetFreeBusy \/ ListTodos \/ ReportCardTelemetry
    \/ SearchLocation \/ ListKnownLocations
    \/ ListCalendars \/ CreateCalendar \/ UpdateCalendar \/ DeleteCalendarTool
    \/ CreateTodo \/ CreateEvent \/ CreateBatch
    \/ DeleteObjectTool \/ MoveTodo \/ ListDeleted \/ RestoreDeleted
=============================================================================
