---------------------------- MODULE SyncRefinement ----------------------------
(***************************************************************************)
(* SyncClients implements ChangeFeed: the version is sync_counter, the     *)
(* last change of a name is its newest record in sync_changes, and a       *)
(* client's sync happens when the answer is applied.                       *)
(***************************************************************************)
EXTENDS SyncClients, FiniteSetsExt

LastToken(n) == Max({0} \cup {c.token : c \in {d \in log : d.uri = n}})

Feed == INSTANCE ChangeFeed WITH
    live <- LiveView,
    version <- counter,
    changedAt <- [n \in Names |-> LastToken(n)],
    has <- [c \in Clients |-> client[c].has],
    seen <- [c \in Clients |-> client[c].token],
    view <- [c \in Clients |-> client[c].view]

(* Every step of the handlers, the tables and the REPORTs is a change of   *)
(* one resource, a sync, or nothing at all to those who see the feed.      *)
ImplementsFeed == Feed!Spec
=============================================================================
