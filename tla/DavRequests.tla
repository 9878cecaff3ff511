------------------------------ MODULE DavRequests ------------------------------
(***************************************************************************)
(* The WebDAV door: app.ts from the routing of a request to its status,    *)
(* with the headers and bodies it reads (If, If-Match, PROPFIND filters,   *)
(* propertyupdate, REPORTs).  A request is served in one step.             *)
(***************************************************************************)
EXTENDS Shelf, FiniteSetsExt

CONSTANTS
    DavUris,        \* resource names clients use
    DavBodies       \* calendar data clients PUT

(* errorResponse: the status of what a use case throws.                    *)
StatusOf(error) ==
    CASE error = "NotFound" -> 404
      [] error = "CollectionNotFound" -> 409
      [] error = "CollectionAlreadyExists" -> 405
      [] error = "ConditionFailed" -> 412
      [] error = "no-uid-conflict" -> 409
      [] OTHER -> 403

Respond(request, s, status, body) ==
    /\ shelf' = s
    /\ UNCHANGED arrives
    /\ answer' = [door |-> "dav", request |-> request, status |-> status, body |-> body]

Refuse(request, status) == Respond(request, shelf, status, {})

(* The answer to a request that runs one use case.                         *)
Run(request, outcome, status) ==
    Respond(request, outcome.shelf, IF Ok(outcome) THEN status ELSE StatusOf(outcome.error), {})

-----------------------------------------------------------------------------
(* Before the routes: a MKCALENDAR in disguise must come from the proxy,   *)
(* OPTIONS is for everybody, all else needs the password.                  *)

ProxyRefused == "proxy" \in arrives /\ Refuse("POST", 403)
Options == "options" \in arrives /\ Respond("OPTIONS", shelf, 204, {})
Unauthenticated == "stranger" \in arrives /\ Refuse("any", 401)

-----------------------------------------------------------------------------
(* PROPFIND.                                                               *)

CalendarProps(cal) ==
    {"displayname", "resourcetype", "supported-calendar-component-set",
     "supported-report-set", "current-user-privilege-set", "getctag", "sync-token"}
    \cup (IF cal.color = NoColor THEN {} ELSE {"calendar-color"})

ObjectProps == {"getetag", "getcontenttype", "getcontentlength", "supported-report-set"}
EntryProps == {"displayname", "resourcetype", "current-user-principal", "principal-URL"}
PrincipalProps == EntryProps \cup {"calendar-home-set", "calendar-user-address-set",
                                   "supported-report-set"}
HomeProps == {"displayname", "resourcetype", "current-user-privilege-set"}

AllProp == {"allprop"}

(* parsePropFilter: no body, an allprop or an empty prop ask for all.      *)
PropFilter(named) == IF named = {} THEN AllProp ELSE named

(* responseXml: what the resource has of what is asked, and what it lacks; *)
(* the sync-token is given only by name.                                   *)
PropResponse(href, props, filter) ==
    [href |-> href,
     found |-> IF filter = AllProp THEN props \ {"sync-token"} ELSE props \cap filter,
     missing |-> IF filter = AllProp THEN {} ELSE filter \ props]

Discovery == {"entry", "principal", "home"}
Depths == {"0", "1", "infinity"}

(* Mutant: the default calendars are made before the body is parsed.       *)
DiscoverEagerly(where, depth, malformed, filter) ==
    IF depth = "infinity" THEN Refuse("PROPFIND", 403)
    ELSE LET s == ProvisionDefaults(shelf) IN
         IF malformed THEN Respond("PROPFIND", s, 400, {})
         ELSE Respond("PROPFIND", s, 207, {})

(* PROPFIND on entry, principal and home makes the default calendars, but  *)
(* only when it is going to be answered.                                   *)
Discover(where, depth, malformed, filter) ==
    IF depth = "infinity" THEN Refuse("PROPFIND", 403)
    ELSE IF malformed THEN Refuse("PROPFIND", 400)
    ELSE LET s == ProvisionDefaults(shelf)
             self == PropResponse(<<where>>, CASE where = "entry" -> EntryProps
                                               [] where = "principal" -> PrincipalProps
                                               [] OTHER -> HomeProps, filter)
             below == IF where = "home" /\ depth = "1"
                      THEN {PropResponse(<<c>>, CalendarProps(s.cals[c]), filter) :
                                c \in Calendars(s)}
                      ELSE {}
         IN  Respond("PROPFIND", s, 207, {self} \cup below)

PropfindDiscovery ==
    /\ "propfind" \in arrives
    /\ \E where \in Discovery, depth \in Depths, malformed \in BOOLEAN,
          named \in {{}, {"displayname", "calendar-color"}} :
          Discover(where, depth, malformed, PropFilter(named))

PropfindCalendar ==
    /\ "propfind" \in arrives
    /\ \E c \in Ids, depth \in Depths, malformed \in BOOLEAN,
          named \in {{}, {"sync-token", "calendar-color"}} :
          LET filter == PropFilter(named) IN
          IF malformed THEN Refuse("PROPFIND", 400)
          ELSE IF ~Exists(shelf, c) THEN Refuse("PROPFIND", 404)
          ELSE IF depth = "infinity" THEN Refuse("PROPFIND", 403)
          ELSE Respond("PROPFIND", shelf, 207,
                  {PropResponse(<<c>>, CalendarProps(shelf.cals[c]), filter)}
                  \cup IF depth = "0" THEN {}
                       ELSE {PropResponse(<<c, o.uri>>, ObjectProps, filter) :
                                o \in ObjectsIn(shelf, c)})

PropfindObject ==
    /\ "propfind" \in arrives
    /\ \E c \in Ids, uri \in DavUris :
          IF AtUri(shelf, c, uri) = {} THEN Refuse("PROPFIND", 404)
          ELSE Respond("PROPFIND", shelf, 207, {PropResponse(<<c, uri>>, ObjectProps, AllProp)})

-----------------------------------------------------------------------------
(* PROPPATCH.  An operation sets a property to a text, which may be        *)
(* missing or have child elements ("none"), or removes it.                 *)

Fields == {"name", "color"}
PatchOps ==
    [kind: {"set"}, prop: {"name"}, text: Labels \cup {"none"}]
    \cup [kind: {"set"}, prop: {"color"}, text: Colors \cup {"none", "no color at all"}]
    \cup [kind: {"set"}, prop: {"other"}, text: {"none"}]
    \cup [kind: {"remove"}, prop: Fields \cup {"other"}, text: {"none"}]

OpStatus(op) ==
    CASE op.prop \notin Fields \/ op.kind = "remove" -> 403
      [] op.text \notin Labels \cup Colors -> 409
      [] OTHER -> 200

(* planPropertyUpdate.  A property named twice is reported with its first  *)
(* failure; the last good value of it counts.                              *)
OpsOn(ops, prop) == {i \in DOMAIN ops : ops[i].prop = prop}
Failures(ops) == {i \in DOMAIN ops : OpStatus(ops[i]) # 200}

PatchResults(ops) ==
    [prop \in {ops[i].prop : i \in DOMAIN ops} |->
        LET bad == OpsOn(ops, prop) \cap Failures(ops) IN
        CASE bad # {} -> OpStatus(ops[Min(bad)])
          [] bad = {} /\ Failures(ops) # {} -> 424
          [] OTHER -> 200]

PatchMetadata(ops) ==
    IF Failures(ops) # {} THEN <<>>
    ELSE [prop \in {p \in Fields : OpsOn(ops, p) # {}} |-> ops[Max(OpsOn(ops, prop))].text]

Proppatch ==
    /\ "proppatch" \in arrives
    /\ \E c \in Ids :
          IF ~Exists(shelf, c) THEN Refuse("PROPPATCH", 404)
          ELSE \E ops \in UNION {[1..n -> PatchOps] : n \in 0..2} :
                  IF ops = <<>> THEN Refuse("PROPPATCH", 400)     \* parseOperations
                  ELSE Respond("PROPPATCH", UpdateProperties(shelf, c, PatchMetadata(ops)).shelf,
                               207, {PatchResults(ops)})

-----------------------------------------------------------------------------
(* MKCOL and MKCALENDAR, DELETE on a calendar.                             *)

MkCalendar ==
    /\ "mkcalendar" \in arrives
    /\ \E c \in Ids, name \in Labels, comps \in {{"VEVENT"}, {"VTODO"}, Kinds} :
          Run("MKCALENDAR",
              CreateCollection(shelf, c, [name |-> name, comps |-> comps, color |-> NoColor]), 201)

DeleteCalendar ==
    /\ "delete" \in arrives
    /\ \E c \in Ids :
          IF Exists(shelf, c) THEN Respond("DELETE", DeleteCollection(shelf, c), 204, {})
          ELSE Refuse("DELETE", 404)

-----------------------------------------------------------------------------
(* The If header: tagged lists of sync-tokens, an OR of ANDs.  parseIf     *)
(* gives up (null) on an entity tag, an untagged list or a broken header.  *)

IfTokens == {"current", "old"}
IfCondition == [negate: BOOLEAN, token: IfTokens]
IfList == [tag: {"this", "another", "untagged"}, conditions: UNION {[1..n -> IfCondition] : n \in 0..1}]
IfHeader == [entityTag: BOOLEAN, lists: UNION {[1..n -> IfList] : n \in 0..2}]

parseIfHeader(h) ==
    IF h.entityTag \/ \E i \in DOMAIN h.lists : \/ h.lists[i].tag = "untagged"
                                                \/ h.lists[i].conditions = <<>>
    THEN <<>> ELSE h.lists

syncTokenListsFor(lists) == SelectSeq(lists, LAMBDA l : l.tag = "this")

ConditionHolds(cond) == (cond.token = "current") # cond.negate

(* evaluateSyncTokenIfPrecondition on what is left of the header.          *)
IfHolds(h) ==
    LET groups == syncTokenListsFor(parseIfHeader(h)) IN
    \/ groups = <<>>
    \/ \E i \in DOMAIN groups :
          \A j \in DOMAIN groups[i].conditions : ConditionHolds(groups[i].conditions[j])

(* rawEtagCondition: If-None-Match: * before If-Match.                     *)
EtagHeaders == [noneMatch: {"absent", "*"}, match: {"absent", "*", "current", "old"}]
rawEtagCondition(h) ==
    CASE h.noneMatch = "*" -> "must-not-exist"
      [] h.match = "*" -> "must-exist"
      [] h.match = "current" -> "must-match"
      [] h.match = "old" -> "stale-etag"
      [] OTHER -> "unconditional"

(* DELETE reads If-Match only.                                             *)
DeleteCondition(h) == rawEtagCondition([h EXCEPT !.noneMatch = "absent"])

CONSTANT Preconditions  \* the conditional headers that are sent
ASSUME PreconditionsAssumption == Preconditions \subseteq [etags: EtagHeaders, if: IfHeader]

PutRequest ==
    /\ "put" \in arrives
    /\ \E c \in Ids, uri \in DavUris :
          IF ~Exists(shelf, c) THEN Refuse("PUT", 404)
          ELSE \E b \in DavBodies, p \in Preconditions :
                  Run("PUT", PutObject(shelf, c, uri, b, rawEtagCondition(p.etags), IfHolds(p.if)),
                      IF AtUri(shelf, c, uri) = {} THEN 201 ELSE 204)

DeleteRequest ==
    /\ "delete" \in arrives
    /\ \E c \in Ids, uri \in DavUris :
          IF ~Exists(shelf, c) THEN Refuse("DELETE", 404)
          ELSE \E p \in Preconditions :
                  Run("DELETE", DeleteObject(shelf, c, uri, DeleteCondition(p.etags), IfHolds(p.if)),
                      204)

(* GET and HEAD.                                                           *)
Get ==
    /\ "get" \in arrives
    /\ \E c \in Ids, uri \in DavUris, fresh \in BOOLEAN :
          IF AtUri(shelf, c, uri) = {} THEN Refuse("GET", 404)
          ELSE IF fresh THEN Respond("GET", shelf, 304, {})
          ELSE Respond("GET", shelf, 200, AtUri(shelf, c, uri))

-----------------------------------------------------------------------------
(* REPORT.                                                                 *)

(* calendar-multiget on a calendar: hrefs outside of it, or deeper than an *)
(* object, are answered 404 without being looked up.                       *)
MultigetAnswer(c, hrefs) ==
    {[href |-> h, status |-> IF h[1] = c /\ Len(h) = 2 /\ AtUri(shelf, h[1], h[2]) # {}
                             THEN 200 ELSE 404] : h \in hrefs}

Hrefs == {<<c, uri>> : c \in Ids, uri \in DavUris} \cup {<<c>> : c \in Ids}

Multiget ==
    /\ "report" \in arrives
    /\ \E c \in Ids, hrefs \in SUBSET Hrefs :
          /\ Cardinality(hrefs) \in 1..2
          /\ IF ~Exists(shelf, c) THEN Refuse("REPORT", 404)
             ELSE Respond("REPORT", shelf, 207, MultigetAnswer(c, hrefs))

(* On an object: one href, equivalent to the request's own.                *)
MultigetOnObject ==
    /\ "report" \in arrives
    /\ \E c \in Ids, uri \in DavUris, href \in Hrefs :
          IF ~Exists(shelf, c) THEN Refuse("REPORT", 404)
          ELSE IF href # <<c, uri>> THEN Refuse("REPORT", 400)
          ELSE Respond("REPORT", shelf, 207, MultigetAnswer(c, {href}))

(* parseCalendarQueryFilter: VCALENDAR around exactly one known component  *)
(* with at most a time-range in UTC; everything else is unsupported.       *)
QueryShape == [expand: BOOLEAN, vcalendar: BOOLEAN, comps: {0, 1, 2}, kind: Kinds \cup {"VALARM"},
               nested: BOOLEAN, range: {"none", "utc", "local"}]
Unsupported(q) ==
    \/ q.expand \/ ~q.vcalendar \/ q.comps # 1 \/ q.kind \notin Kinds
    \/ q.nested \/ q.range = "local"

CONSTANT QueryShapes    \* the calendar-query filters that are sent
ASSUME QueryShapesAssumption == QueryShapes \subseteq QueryShape

(* What is in the time-range is Recurrence's subject; without one, every   *)
(* object of the component's kind.                                         *)
CalendarQuery ==
    /\ "report" \in arrives
    /\ \E c \in Ids, q \in QueryShapes :
          IF ~Exists(shelf, c) THEN Refuse("REPORT", 404)
          ELSE IF Unsupported(q) THEN Refuse("REPORT", 403)
          ELSE \E hits \in SUBSET {o \in ObjectsIn(shelf, c) : o.body.kind = q.kind} :
                  /\ q.range = "none" => hits = {o \in ObjectsIn(shelf, c) : o.body.kind = q.kind}
                  /\ Respond("REPORT", shelf, 207,
                             {[href |-> <<c, o.uri>>, status |-> 200] : o \in hits})

(* free-busy-query needs exactly one child, a time-range in UTC, and a     *)
(* calendar; the answer has no calendar objects in it.                     *)
FreeBusy ==
    /\ "report" \in arrives
    /\ \E c \in Ids, onObject \in BOOLEAN, children \in {0, 1, 2}, range \in {"utc", "local"} :
          IF ~Exists(shelf, c) THEN Refuse("REPORT", 404)
          ELSE IF onObject THEN Refuse("REPORT", 403)
          ELSE IF children # 1 \/ range # "utc" THEN Refuse("REPORT", 400)
          ELSE Respond("REPORT", shelf, 200, {})

(* A principal answers principal-search-property-set at depth 0 and no     *)
(* other report.                                                           *)
PrincipalReport ==
    /\ "report" \in arrives
    /\ \E known \in BOOLEAN, depth \in Depths :
          IF ~known THEN Refuse("REPORT", 403)
          ELSE IF depth # "0" THEN Refuse("REPORT", 400)
          ELSE Respond("REPORT", shelf, 200, {})

(* A report nobody knows; a method the resource does not have; a body that *)
(* is too large.                                                           *)
Unroutable ==
    /\ "stranger" \in arrives
    /\ \E status \in {403, 404, 405, 413} : Refuse("any", status)

DavRequest ==
    \/ ProxyRefused \/ Options \/ Unauthenticated \/ Unroutable
    \/ PropfindDiscovery \/ PropfindCalendar \/ PropfindObject
    \/ Proppatch \/ MkCalendar \/ DeleteCalendar
    \/ PutRequest \/ DeleteRequest \/ Get
    \/ Multiget \/ MultigetOnObject \/ CalendarQuery \/ FreeBusy \/ PrincipalReport
=============================================================================
