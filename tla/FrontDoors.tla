------------------------------ MODULE FrontDoors ------------------------------
(***************************************************************************)
(* Both doors on one shelf: what a client makes through one of them is     *)
(* what the other finds.                                                   *)
(***************************************************************************)
EXTENDS DavRequests, McpTools

CONSTANTS
    Starts,         \* shelves a behaviour may start from
    Mixes,          \* sets of kinds of request; a behaviour sees one of them
    MaxRequests     \* bound: requests in a behaviour

(* Tables whose calendars are whole, and whose objects, live or deleted,   *)
(* are in a calendar that is there and takes their kind.                   *)
IsCalendar(cal) == cal = [name |-> cal.name, comps |-> cal.comps, color |-> cal.color]
Fits(o, s) ==
    /\ o = Object(o.cal, o.uri, o.body)
    /\ o.cal \in Ids /\ Exists(s, o.cal)
    /\ o.body.kind \in s.cals[o.cal].comps
Sound(s) ==
    /\ s = [cals |-> s.cals, live |-> s.live, trash |-> s.trash]
    /\ s.cals = [c \in Ids |-> s.cals[c]]
    /\ \A c \in Ids : Exists(s, c) => IsCalendar(s.cals[c])
    /\ \A o \in s.live \cup s.trash : Fits(o, s)

ASSUME StartsAssumption == \A s \in Starts : Sound(s)

VARIABLES served    \* requests so far

doorVars == <<shelf, answer, arrives, grants, quotaVars, served>>

Init ==
    /\ shelf \in Starts
    /\ answer = [door |-> "none"]
    /\ arrives \in Mixes
    /\ grants \in {{}, {Legacy}, {{"read"}}}
    /\ month = 1 /\ used = [m \in Months |-> 0]
    /\ begun = used /\ reserved = used /\ asked = used
    /\ served = 0

Next ==
    \/ /\ served < MaxRequests
       /\ served' = served + 1
       /\ \/ DavRequest /\ UNCHANGED <<grants, quotaVars>>
          \/ McpCall
    \/ SearchStep /\ UNCHANGED served

Spec == Init /\ [][Next]_doorVars

-----------------------------------------------------------------------------
(* Properties.                                                             *)

(* Whatever is refused has changed nothing: a status of 400 and above, a   *)
(* PROPPATCH of which any property failed, a tool's isError.  So no order  *)
(* of checks lets a discovery that is refused make calendars (app.ts 659), *)
(* a failed property let others be set, a batch fail after it has begun.   *)
(* The exception is a tool call with an invalid zone, of which the server  *)
(* notices only when it builds the list of tasks after the write.          *)
Refused(a) ==
    \/ a.door = "dav" /\ a.status >= 400
    \/ a.door = "dav" /\ a.request = "PROPPATCH" /\
          \E results \in a.body : \E p \in DOMAIN results : results[p] # 200
    \/ a.door = "mcp" /\ a.error \notin {"none", "invalid IANA time zone"}

RefusalsChangeNothing == [][Refused(answer') => shelf' = shelf]_doorVars

(* A token that was granted without the write scope changes nothing at the *)
(* MCP door, with any tool, however the calls before it went (scopes.ts:   *)
(* "default deny").                                                        *)
ReadersDoNotWrite ==
    [][answer'.door = "mcp" /\ answer'.grant # Legacy /\ "write" \notin answer'.grant
          => shelf' = shelf]_doorVars

(* Every live object is of a kind its calendar takes, through both doors,  *)
(* moves, the trash and calendars made anew under an old id (RFC 4791      *)
(* 5.3.2.1 supported-calendar-component).                                  *)
ObjectsFitTheirCalendar ==
    \A o \in shelf.live : Exists(shelf, o.cal) /\ o.body.kind \in shelf.cals[o.cal].comps

(* However texts are resolved -- by searches that overlap or die, by the    *)
(* items of a batch -- and though a search begun in one month may end in   *)
(* the next, the provider is not asked more often on a month's account     *)
(* than the limit says (d1-geocoding-quota-store.ts:27, "no TOCTOU").      *)
QuotaHolds == \A m \in Months : asked[m] <= MonthlyLimit

(* server.ts 2424-2426: create-calendar without an id, called again with   *)
(* the same name, comes back to the same calendar.                         *)
SameNameSameCalendar ==
    [][\A name \in Labels : \A c \in Ids :
          /\ answer'.door = "mcp" /\ answer'.request = "create-calendar"
          /\ <<c, name>> \in answer'.body
          => \A a \in 1..MaxSuffix :
                /\ Exists(shelf, Candidate(name, a))
                /\ shelf.cals[Candidate(name, a)].name = name
                => c = Candidate(name, a)]_doorVars
=============================================================================
