------------------------------ MODULE ChangeFeed ------------------------------
(***************************************************************************)
(* What a synchronised calendar collection promises its clients, with no   *)
(* tables, handlers or REPORTs: resources change one at a time, each       *)
(* change advances the version by one, and a client that syncs gets a      *)
(* version t it has not gone back behind and a view that is exact for      *)
(* every resource that has not changed after t.  Of resources changed      *)
(* after t the view may show anything: they are due in the next sync.      *)
(***************************************************************************)
EXTENDS Naturals

CONSTANTS Names, Bodies, NoBody, Clients

VARIABLES live,        \* the live resources
          version,     \* the number of changes so far
          changedAt,   \* per name, the version of its last change (0: never)
          has, seen,   \* per client: has it synced, and which version
          view         \* per client: what it shows

feedVars == <<live, version, changedAt, has, seen, view>>

Views == [Names -> Bodies \cup {NoBody}]

Init == /\ live = [n \in Names |-> NoBody]
        /\ version = 0
        /\ changedAt = [n \in Names |-> 0]
        /\ has = [c \in Clients |-> FALSE]
        /\ seen = [c \in Clients |-> 0]
        /\ view = [c \in Clients |-> [n \in Names |-> NoBody]]

(* A change of one resource; announcing one that did not happen is allowed. *)
Change(n) ==
    /\ version' = version + 1
    /\ changedAt' = [changedAt EXCEPT ![n] = version + 1]
    /\ \E b \in Bodies \cup {NoBody} : live' = [live EXCEPT ![n] = b]
    /\ UNCHANGED <<has, seen, view>>

(* The view v that a client may be given together with version t.          *)
Exact(v, t) == \A n \in Names : changedAt[n] <= t => v[n] = live[n]

Sync(c) ==
    /\ UNCHANGED <<live, version, changedAt>>
    /\ has' = [has EXCEPT ![c] = TRUE]
    /\ \E t \in seen[c]..version :
          /\ seen' = [seen EXCEPT ![c] = t]
          /\ \E v \in Views : Exact(v, t) /\ view' = [view EXCEPT ![c] = v]

Next == (\E n \in Names : Change(n)) \/ (\E c \in Clients : Sync(c))

Spec == Init /\ [][Next]_feedVars
=============================================================================
