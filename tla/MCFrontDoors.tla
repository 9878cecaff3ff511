----------------------------- MODULE MCFrontDoors -----------------------------
(***************************************************************************)
(* The two default calendars and two more ids, which share a slug; a task, *)
(* an event and a task in the trash to begin with, or nothing at all.      *)
(***************************************************************************)
EXTENDS FrontDoors

MCIds == {"calendar", "tasks", "trip", "trip-2"}
MCLabels == {"Trip", "TRIP", "trip!"}
MCNormalized(name) == IF name = "TRIP" THEN "Trip" ELSE name
MCSlugOf == [name \in MCLabels |-> "trip"]
MCSuffixed == [p \in {"trip"} \X {2} |-> "trip-2"]
MCNewUids == {<<"new", 1>>, <<"new", 2>>}

Uid(n) == <<"phone", n>>
MCDavUris == {<<Uid(1)>>, <<Uid(2)>>}
MCDavBodies ==
    {[uid |-> Uid(1), kind |-> k, pin |-> NoPlace] : k \in {"VTODO", "VEVENT"}}
    \cup {[uid |-> <<"malformed", 0>>, kind |-> "VTODO", pin |-> NoPlace]}

Plain(n, kind, pin) == [uid |-> Uid(n), kind |-> kind, pin |-> pin]
EmptyShelf == [cals |-> [c \in MCIds |-> NoCal], live |-> {}, trash |-> {}]
UsedShelf ==
    [ProvisionDefaults(EmptyShelf) EXCEPT
        !.live = {Object("tasks", <<Uid(1)>>, Plain(1, "VTODO", NoPlace)),
                  Object("calendar", <<Uid(2)>>, Plain(2, "VEVENT", "shop"))},
        !.trash = {Object("tasks", <<Uid(2)>>, Plain(2, "VTODO", NoPlace))}]
MCStarts == {EmptyShelf, UsedShelf}

List(tag, negate, token) == [tag |-> tag, conditions |-> <<[negate |-> negate, token |-> token]>>]
Header(lists) == [entityTag |-> FALSE, lists |-> lists]
NoIf == Header(<<>>)
Etags(noneMatch, match) == [noneMatch |-> noneMatch, match |-> match]
NoEtag == Etags("absent", "absent")
MCPreconditions ==
    [etags: {NoEtag}, if: {NoIf, Header(<<List("this", FALSE, "old")>>),
        Header(<<List("another", FALSE, "old"), List("this", TRUE, "old")>>),
        Header(<<List("untagged", FALSE, "old")>>)}]
    \cup [etags: {Etags("*", "current"), Etags("absent", "*"), Etags("absent", "current"),
                  Etags("absent", "old")}, if: {NoIf}]

Query(kind) == [expand |-> FALSE, vcalendar |-> TRUE, comps |-> 1, kind |-> kind,
                nested |-> FALSE, range |-> "none"]
MCQueryShapes == {Query("VTODO"), Query("VALARM"), [Query("VEVENT") EXCEPT !.range = "utc"],
                  [Query("VEVENT") EXCEPT !.comps = 2]}
MCMixes ==
    {{"proxy", "options", "stranger", "propfind", "get", "report", "list-calendars",
      "list-known-locations", "list-deleted", "authorize",
      "get-current-time", "list-events-expanded", "refresh-events", "get-freebusy",
      "list-todos", "refresh-todos", "report-card-telemetry"},
     {"propfind", "proppatch", "create-calendar", "update-calendar"},
     {"propfind", "mkcalendar", "delete", "delete-calendar", "create-calendar", "restore-deleted"},
     {"put", "delete", "create-todos", "delete-todo", "move-todo", "restore-deleted"},
     {"authorize", "create-todo", "create-event", "create-events", "search-location",
      "delete-event"}}
=============================================================================
