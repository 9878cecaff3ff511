--------------------------------- MODULE Shelf ---------------------------------
(***************************************************************************)
(* What the two doors of the server -- the WebDAV routes of app.ts and the *)
(* MCP tools of server.ts -- have in common: one owner's calendars, their  *)
(* objects and the trash, and the use cases both doors run on them.  A use *)
(* case is an operator from a shelf to an outcome, the shelf it leaves and *)
(* the error it throws, so that a tool can run several of them in a row.   *)
(* Here each runs at once: how their database calls interleave is the      *)
(* subject of ObjectRequests, CollectionLifecycle and ToolWrites.          *)
(***************************************************************************)
EXTENDS Naturals, Sequences, FiniteSets

CONSTANTS
    Ids,            \* calendar ids that may come into being
    Labels,         \* display names
    Colors,         \* what AppleColor.parse accepts
    Places          \* places a pin can be on

Kinds == {"VEVENT", "VTODO", "VJOURNAL"}

VARIABLES
    shelf,          \* the tables: calendars, live objects, trash
    answer,         \* what the last request, at either door, was answered
    arrives         \* the kinds of request a behaviour sees (never changes)

NoCal == [name |-> "no calendar"]
NoColor == "no color"
NoPlace == "no place"

(* A calendar; comps is what supported-calendar-component-set allows.      *)
Cal == [name: Labels, comps: SUBSET Kinds, color: Colors \cup {NoColor}]

(* An object, live or in the trash: where it is, and of its iCalendar data *)
(* the UID, the component kind and the place it is pinned to.              *)
Body == [uid: STRING \X Nat, kind: Kinds, pin: Places \cup {NoPlace}]
Object(c, uri, b) == [cal |-> c, uri |-> uri, body |-> b]

Done(s) == [shelf |-> s, error |-> "none"]
Throw(s, e) == [shelf |-> s, error |-> e]
Ok(o) == o.error = "none"

Exists(s, c) == s.cals[c] # NoCal
Calendars(s) == {c \in Ids : Exists(s, c)}
ObjectsIn(s, c) == {o \in s.live : o.cal = c}
AtUri(s, c, uri) == {o \in ObjectsIn(s, c) : o.uri = uri}
WithUid(s, c, uid) == {o \in ObjectsIn(s, c) : o.body.uid = uid}

-----------------------------------------------------------------------------
(* The calendars.                                                          *)

(* CreateCollection.execute; the id is checked by collectionId().          *)
CreateCollection(s, c, cal) ==
    IF Exists(s, c) THEN Throw(s, "CollectionAlreadyExists")
    ELSE Done([s EXCEPT !.cals[c] = cal])

DefaultSpecs ==
    [c \in {"calendar", "tasks"} |->
        IF c = "calendar" THEN [name |-> "Calendar", comps |-> {"VEVENT"}, color |-> NoColor]
        ELSE [name |-> "Tasks", comps |-> {"VTODO"}, color |-> NoColor]]

(* ProvisionDefaultCollections.execute: what is missing, nothing else.     *)
ProvisionDefaults(s) ==
    [s EXCEPT !.cals = [c \in Ids |-> IF c \in DOMAIN DefaultSpecs /\ ~Exists(s, c)
                                      THEN DefaultSpecs[c] ELSE s.cals[c]]]

(* CalendarCollection.withMetadata: the fields that are given, the others  *)
(* as they were.                                                           *)
WithMetadata(cal, meta) ==
    [f \in DOMAIN cal |-> IF f \in DOMAIN meta THEN meta[f] ELSE cal[f]]

(* UpdateCollectionProperties.execute; meta holds the fields to be set.    *)
UpdateProperties(s, c, meta) ==
    IF ~Exists(s, c) THEN Throw(s, "CollectionNotFound")
    ELSE Done([s EXCEPT !.cals[c] = WithMetadata(@, meta)])

(* Mutant: the trash outlives its calendar.                                *)
DeleteCollectionKeepsTrash(s, c) ==
    [s EXCEPT !.cals[c] = NoCal, !.live = @ \ ObjectsIn(s, c)]

(* collectionRepo.delete: ON DELETE CASCADE takes objects and trash along. *)
DeleteCollection(s, c) ==
    [s EXCEPT !.cals[c] = NoCal, !.live = @ \ ObjectsIn(s, c),
              !.trash = {g \in @ : g.cal # c}]

-----------------------------------------------------------------------------
(* The objects.                                                            *)

(* A URI the table has no row at, made from one it has.                    *)
FreshUri(s, c, uri) ==
    Append(uri, CHOOSE n \in 0..Cardinality(s.live \cup s.trash) :
                    \A o \in s.live \cup s.trash : o.cal = c => o.uri # Append(uri, n))

(* The row of a deleted object makes room for a live one at its URI.       *)
MoveGhost(s, c, uri) ==
    LET fresh == FreshUri(s, c, uri)
    IN  {IF g.cal = c /\ g.uri = uri THEN [g EXCEPT !.uri = fresh] ELSE g : g \in s.trash}

Conditions == {"unconditional", "must-not-exist", "must-exist", "must-match", "stale-etag"}

(* checkPutPreconditions, of which the doors can tell apart: data that is  *)
(* no iCalendar object, a component the calendar does not take, a UID that *)
(* is taken or would change.                                               *)
PutViolation(s, c, uri, b) ==
    CASE b.uid[1] = "malformed" -> "valid-calendar-data"
      [] b.kind \notin s.cals[c].comps -> "supported-calendar-component"
      [] \E o \in WithUid(s, c, b.uid) : o.uri # uri -> "no-uid-conflict"
      [] \E o \in AtUri(s, c, uri) : o.body.uid # b.uid -> "no-uid-conflict"
      [] OTHER -> "none"

(* PutCalendarObject.execute.                                              *)
PutObject(s, c, uri, b, condition, ifHolds) ==
    LET exists == AtUri(s, c, uri) # {} IN
    IF ~Exists(s, c) THEN Throw(s, "CollectionNotFound")
    ELSE IF \/ ~ifHolds
            \/ condition = "must-not-exist" /\ exists
            \/ condition \in {"must-exist", "must-match"} /\ ~exists
            \/ condition = "stale-etag"
    THEN Throw(s, "ConditionFailed")
    ELSE IF PutViolation(s, c, uri, b) # "none" THEN Throw(s, PutViolation(s, c, uri, b))
    ELSE Done([s EXCEPT !.live = (@ \ AtUri(s, c, uri)) \cup {Object(c, uri, b)},
                        !.trash = MoveGhost(s, c, uri)])

(* DeleteCalendarObject.execute: the row goes to the trash, in place.      *)
DeleteObject(s, c, uri, condition, ifHolds) ==
    LET found == AtUri(s, c, uri) IN
    IF ~Exists(s, c) THEN Throw(s, "CollectionNotFound")
    ELSE IF ~ifHolds THEN Throw(s, "ConditionFailed")
    ELSE IF found = {} THEN Throw(s, "NotFound")
    ELSE IF condition = "stale-etag" THEN Throw(s, "ConditionFailed")
    ELSE Done([s EXCEPT !.live = @ \ found, !.trash = @ \cup found])

(* RestoreDeleted.execute.                                                 *)
RestoreObject(s, c, uri) ==
    LET ghosts == {g \in s.trash : g.cal = c /\ g.uri = uri} IN
    IF ~Exists(s, c) THEN Throw(s, "CollectionNotFound")
    ELSE IF ghosts = {} THEN Throw(s, "NotFound")
    ELSE LET g == CHOOSE g \in ghosts : TRUE IN
         IF WithUid(s, c, g.body.uid) # {} THEN Throw(s, "RestoreUidConflict")
         ELSE LET back == IF AtUri(s, c, uri) = {} THEN uri ELSE FreshUri(s, c, uri)
              IN  Done([s EXCEPT !.trash = @ \ {g}, !.live = @ \cup {[g EXCEPT !.uri = back]}])
=============================================================================
